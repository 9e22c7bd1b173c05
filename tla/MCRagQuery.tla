------------------------------ MODULE MCRagQuery ------------------------------
(***************************************************************************)
(* RagQuery with a document of four nodes, three of one section that       *)
(* overlap and one of the next section, and a document of two nodes with a *)
(* gap between them, the first with the text of the long one's first node. *)
(* At most one node is missing in the docstore.                            *)
(***************************************************************************)
EXTENDS RagQuery

Long == "long"
Short == "short"

NodesPerDoc == (Long :> 4) @@ (Short :> 2)

AtMostOneMissing == {Node} \cup {Node \ {n} : n \in {<<Long, 2>>, <<Short, 2>>}}

SameText(n) == IF n = <<Short, 1>> THEN <<Long, 1>> ELSE n

Part(n) == <<n[1], IF n = <<Long, 4>> THEN 2 ELSE 1>>

Offset(n) ==
  CASE n = <<Long, 2>> -> 2
    [] n \in {<<Long, 3>>, <<Short, 2>>} -> 4
    [] OTHER -> 0

ThreeCharacters(n) == 3

NotTheLast(n) == n # <<Long, 4>>
=============================================================================
