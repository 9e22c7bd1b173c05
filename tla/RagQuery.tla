------------------------------- MODULE RagQuery -------------------------------
(***************************************************************************)
(* The RAG service's reading side: /query/ asks both search stores, fuses  *)
(* their hits (reciprocal ranks, or the rerank model), fetches every hit's *)
(* neighbours in its document and merges consecutive nodes into texts.     *)
(*                                                                         *)
(* The handler never suspends, so one query is followed from its search to *)
(* its answer, over any docstore that earlier requests may have left.  Its *)
(* loops are steps: each takes the first element of todo, or, the merge,   *)
(* any node of a set.  A text is a sequence of <<section, offset>>         *)
(* characters.                                                             *)
(***************************************************************************)
EXTENDS Integers, FiniteSets, SequencesExt

CONSTANTS Docs,        \* documents
          Size,        \* Size[d]: nodes of d, chained by PREVIOUS and NEXT
          Docstores,   \* the sets of nodes the docstore may hold
          TopK,        \* retriever_top_k
          Unit,        \* 1.0, in the shares that make every score an integer
          Hash(_),     \* the node's hash: equal for equal texts
          Section(_),  \* the markdown section the node was split from
          Start(_),    \* start_char_idx, counted in that section
          Length(_),   \* of its text
          Located(_)   \* whether start_char_idx and end_char_idx are known

Node == UNION {{d} \X (1 .. Size[d]) : d \in Docs}

ASSUME SizesAssumption == TopK \in Nat /\ \A d \in Docs : Size[d] \in Nat
ASSUME UnitAssumption ==
  Unit \in Nat \ {0} /\ \A rank \in 1 .. TopK : Unit % (59 + rank) = 0
ASSUME StoresAssumption == \A S \in Docstores : S \subseteq Node
ASSUME NodesAssumption ==
  \A n \in Node : Start(n) \in Nat /\ Length(n) \in Nat /\ Located(n) \in BOOLEAN

VARIABLES
  stored,  \* node_collection
  pc,      \* where the query is
  hits,    \* nodes found by Elasticsearch and by Qdrant, best first
  todo,    \* what the loop has still to take
  list,    \* what the loop has made so far: a list, or an ordered dictionary
  fused,   \* combined_nodes: sequence of nodes with their score
  kept,    \* all_nodes of the merge
  left,    \* node_id_set of the merge
  piece,   \* node_with_score in the merge: the nodes joined so far
  answer   \* new_list of the merge: rag_texts

merged == <<kept, left, piece, answer>>
vars == <<stored, pc, hits, todo, list, fused, merged>>

Hashes(S) == {Hash(n) : n \in S}
NodesOf(s) == {s[i].node : i \in DOMAIN s}

HasPrev(n) == n[2] > 1
HasNext(n) == n[2] < Size[n[1]]
Prev(n) == <<n[1], n[2] - 1>>
NextOf(n) == <<n[1], n[2] + 1>>

NoPiece == [first |-> <<>>, last |-> <<>>, end |-> 0, text |-> <<>>]

Init ==
  /\ stored \in Docstores
  /\ pc = "new"
  /\ hits = <<<<>>, <<>>>>
  /\ todo = <<>> /\ list = <<>> /\ fused = <<>>
  /\ kept = {} /\ left = {}
  /\ piece = NoPiece
  /\ answer = <<>>

-----------------------------------------------------------------------------
(* Both stores are searched; a store may still have nodes the docstore has *)
(* lost, and looking one of them up raises.                                *)
Results ==
  UNION {{s \in [1 .. k -> Node] : IsInjective(s)} : k \in 0 .. TopK}

Search ==
  /\ pc = "new"
  /\ \E es, qdrant \in Results :
       /\ hits' = <<es, qdrant>>
       /\ pc' = CASE ~ (Range(es) \cup Range(qdrant) \subseteq stored) -> "failed"
                  [] es = <<>> /\ qdrant = <<>> -> "nothing"
                  [] OTHER -> "found"
  /\ UNCHANGED <<stored, todo, list, fused, merged>>

(* A dictionary of scored nodes in the order of their first insertion; at  *)
(* is where x belongs, if something is there already.                      *)
WithHash(s, n) == {i \in DOMAIN s : Hash(s[i].node) = Hash(n)}
WithId(s, n) == {i \in DOMAIN s : s[i].node = n}
Score(s, at) == IF at = {} THEN 0 ELSE s[CHOOSE i \in at : TRUE].score
Put(s, at, x) == IF at = {} THEN Append(s, x) ELSE [s EXCEPT ![CHOOSE i \in at : TRUE] = x]

(* 1 / (60 + rank), where enumerate counts the ranks from 0 and here they  *)
(* are counted from 1.  (Faulty variant: the rank itself.)                 *)
RankItself(rank) == rank
Reciprocal(rank) == Unit \div (59 + rank)

Ranked(s) == [r \in DOMAIN s |-> [node |-> s[r], score |-> Reciprocal(r)]]

FuseByRank ==
  /\ pc = "found"
  /\ pc' = "counting"
  /\ todo' = Ranked(hits[1]) \o Ranked(hits[2])
  /\ UNCHANGED <<stored, hits, list, fused, merged>>

(* The loop of reciprocal_rerank_fusion.  (Faulty variant: the last hit    *)
(* decides.)                                                               *)
CountedLast(s, x) == Put(s, WithHash(s, x.node), x)
Counted(s, x) ==
  LET at == WithHash(s, x.node)
  IN Put(s, at, [node |-> x.node, score |-> Score(s, at) + x.score])

Count ==
  /\ pc = "counting" /\ todo # <<>>
  /\ list' = Counted(list, Head(todo))
  /\ todo' = Tail(todo)
  /\ UNCHANGED <<stored, pc, hits, fused, merged>>

(* sorted(..., reverse=True): stable, best first.                          *)
BestFirst(s, p) ==
  \A i, j \in DOMAIN s : i < j =>
    LET a == s[p[i]].score
        b == s[p[j]].score
    IN a > b \/ (a = b /\ p[i] < p[j])

SortByScore ==
  /\ pc = "counting" /\ todo = <<>>
  /\ \E p \in Bijection(DOMAIN list, DOMAIN list) :
       /\ BestFirst(list, p)
       /\ fused' = [i \in DOMAIN list |-> list[p[i]]]
  /\ list' = <<>>
  /\ pc' = "fused"
  /\ UNCHANGED <<stored, hits, todo, merged>>

(* All nodes that the stores have found.                                   *)
Found == Range(hits[1]) \cup Range(hits[2])

(* The scores of the two stores do not compare: of the hits with one hash  *)
(* any may be kept.  The model's scores decrease and may be negative.      *)
FuseByModel ==
  /\ pc = "found"
  /\ pc' = "reranked"
  /\ \E chosen \in SUBSET Found :
       /\ Hashes(chosen) = Hashes(Found)
       /\ Cardinality(chosen) = Cardinality(Hashes(Found))
       /\ \E order \in SetToSeqs(chosen), top \in 0 .. Cardinality(chosen) :
            fused' = [i \in DOMAIN order |-> [node |-> order[i], score |-> top - i]]
  /\ UNCHANGED <<stored, hits, todo, list, merged>>

-----------------------------------------------------------------------------
(* get_for_back_nodes with num_nodes = 1: a fetched node has no score,     *)
(* which counts as 0.  The previous node of a node without a next one is   *)
(* fetched and then dropped.  (Faulty variant: a next node needs a         *)
(* previous one.)                                                          *)
Set(s, x) == Put(s, WithId(s, x.node), x)
Fetched(s, m) == IF m \in stored THEN Set(s, [node |-> m, score |-> 0]) ELSE s

WithNextOfInner(s, n) == IF HasNext(n) /\ HasPrev(n) THEN Fetched(s, NextOf(n)) ELSE s
WithNext(s, n) == IF HasNext(n) THEN Fetched(s, NextOf(n)) ELSE s
WithPrev(s, n) == IF HasPrev(n) /\ HasNext(n) THEN Fetched(s, Prev(n)) ELSE s

Extend ==
  /\ pc \in {"fused", "reranked"}
  /\ pc' = "extending"
  /\ todo' = fused
  /\ hits' = <<<<>>, <<>>>>
  /\ UNCHANGED <<stored, list, fused, merged>>

FetchNeighbours ==
  /\ pc = "extending" /\ todo # <<>>
  /\ LET x == Head(todo)
     IN list' = WithPrev(WithNext(Set(list, x), x.node), x.node)
  /\ todo' = Tail(todo)
  /\ UNCHANGED <<stored, pc, hits, fused, merged>>

Arrange ==
  /\ pc = "extending" /\ todo = <<>>
  /\ pc' = "arranging"
  /\ todo' = list /\ list' = <<>>
  /\ UNCHANGED <<stored, hits, fused, merged>>

(* A node is put before the first node it precedes or behind the first one *)
(* it follows, whichever of them comes first in the list.                  *)
Place ==
  /\ pc = "arranging" /\ todo # <<>>
  /\ LET n == Head(todo).node
         before == {i \in DOMAIN list : HasPrev(list[i].node) /\ Prev(list[i].node) = n}
         behind == {i \in DOMAIN list : HasNext(list[i].node) /\ NextOf(list[i].node) = n}
     IN \/ /\ before \cup behind = {}
           /\ list' = Append(list, Head(todo))
        \/ \E i \in before \cup behind :
             /\ \A j \in before \cup behind : i <= j
             /\ list' = InsertAt(list, IF i \in before THEN i ELSE i + 1, Head(todo))
  /\ todo' = Tail(todo)
  /\ UNCHANGED <<stored, pc, hits, fused, merged>>

-----------------------------------------------------------------------------
(* dedup_nodes_with_score: of the nodes with one hash the last of the best *)
(* is kept.  (Faulty variant: a node needs a positive score.)              *)
Deduplicate ==
  /\ pc = "arranging" /\ todo = <<>>
  /\ pc' = "deduping"
  /\ todo' = list /\ list' = <<>>
  /\ UNCHANGED <<stored, hits, fused, merged>>

KeptPositive(s, x) ==
  LET at == WithHash(s, x.node)
  IN IF x.score > 0 /\ Score(s, at) <= x.score THEN Put(s, at, x) ELSE s
Kept(s, x) ==
  LET at == WithHash(s, x.node)
  IN IF at # {} /\ Score(s, at) > x.score THEN s ELSE Put(s, at, x)

Keep ==
  /\ pc = "deduping" /\ todo # <<>>
  /\ list' = Kept(list, Head(todo))
  /\ todo' = Tail(todo)
  /\ UNCHANGED <<stored, pc, hits, fused, merged>>

(* Sorting them again is of no use: the merge takes them from a set.       *)
StartMerge ==
  /\ pc = "deduping" /\ todo = <<>>
  /\ kept' = NodesOf(list)
  /\ pc' = IF kept' = {} THEN "answered" ELSE "merging"
  /\ left' = kept'
  /\ list' = <<>>
  /\ UNCHANGED <<stored, hits, todo, fused, piece, answer>>

End(n) == Start(n) + Length(n)

Text(n) == [i \in 1 .. Length(n) |-> <<Section(n), Start(n) + i - 1>>]

Piece(n) == [first |-> n, last |-> n, end |-> End(n), text |-> Text(n)]

(* Python's t[k:], which for a negative k has the last -k characters.      *)
From(t, k) ==
  LET skip == IF k >= 0 THEN k ELSE IF Len(t) + k < 0 THEN 0 ELSE Len(t) + k
  IN SubSeq(t, skip + 1, Len(t))

(* _join_nodes: the text of q without what p's text already has of it.     *)
(* (Faulty variant: end_char_idx is left as it was.)                       *)
JoinKeepingEnd(p, q) ==
  [first |-> p.first, last |-> q.last, end |-> p.end,
   text |-> p.text \o From(q.text, p.end - Start(q.first))]
Join(p, q) ==
  [first |-> p.first, last |-> q.last, end |-> q.end,
   text |-> p.text \o IF Located(p.last) /\ Located(q.first)
                      THEN From(q.text, p.end - Start(q.first))
                      ELSE <<"newline">> \o q.text]

(* node_id_set.pop(): any node. *)
Pop ==
  /\ pc = "merging"
  /\ \E n \in left :
       /\ piece' = Piece(n)
       /\ left' = left \ {n}
  /\ pc' = "joining"
  /\ UNCHANGED <<stored, hits, todo, list, fused, kept, answer>>

MorePrev == HasPrev(piece.first) /\ Prev(piece.first) \in kept
MoreNext == HasNext(piece.last) /\ NextOf(piece.last) \in kept

JoinPrev ==
  /\ pc = "joining"
  /\ MorePrev
  /\ piece' = Join(Piece(Prev(piece.first)), piece)
  /\ left' = left \ {Prev(piece.first)}
  /\ UNCHANGED <<stored, pc, hits, todo, list, fused, kept, answer>>

(* (Faulty variant: the joined node stays in node_id_set.) *)
JoinNextNotDiscarded ==
  /\ pc = "joining"
  /\ ~ MorePrev /\ MoreNext
  /\ piece' = Join(piece, Piece(NextOf(piece.last)))
  /\ UNCHANGED <<stored, pc, hits, todo, list, fused, kept, left, answer>>
JoinNext ==
  /\ pc = "joining"
  /\ ~ MorePrev /\ MoreNext
  /\ piece' = Join(piece, Piece(NextOf(piece.last)))
  /\ left' = left \ {NextOf(piece.last)}
  /\ UNCHANGED <<stored, pc, hits, todo, list, fused, kept, answer>>

Emit ==
  /\ pc = "joining"
  /\ ~ MorePrev /\ ~ MoreNext
  /\ answer' = Append(answer, piece)
  /\ piece' = NoPiece
  /\ pc' = IF left = {} THEN "answered" ELSE "merging"
  /\ UNCHANGED <<stored, hits, todo, list, fused, kept, left>>

(* A store, the embedding or the rerank model does not answer: nothing is  *)
(* caught.                                                                 *)
Fails ==
  /\ pc \in {"new", "found", "extending"}
  /\ pc' = "failed"
  /\ UNCHANGED <<stored, hits, todo, list, fused, merged>>

(* The next query, which keeps nothing of this one. *)
Again ==
  /\ pc \in {"answered", "failed", "nothing"}
  /\ pc' = "new"
  /\ hits' = <<<<>>, <<>>>>
  /\ todo' = <<>> /\ list' = <<>> /\ fused' = <<>>
  /\ kept' = {} /\ left' = {}
  /\ piece' = NoPiece
  /\ answer' = <<>>
  /\ UNCHANGED stored

Next ==
  \/ Search \/ FuseByRank \/ Count \/ SortByScore \/ FuseByModel
  \/ Extend \/ FetchNeighbours \/ Arrange \/ Place
  \/ Deduplicate \/ Keep \/ StartMerge \/ Pop \/ JoinPrev \/ JoinNext \/ Emit
  \/ Fails \/ Again

Spec == Init /\ [][Next]_vars

-----------------------------------------------------------------------------
Nodes(p) == {n \in Node : n[1] = p.first[1] /\ n[2] \in p.first[2] .. p.last[2]}

(* The state has its type: nothing but nodes of the docstore is answered,  *)
(* and no list between two loops has a node twice.                         *)
Scored == [node : Node, score : Int]

TypeOK ==
  /\ stored \in Docstores
  /\ pc \in {"new", "failed", "nothing", "found", "counting", "fused", "reranked",
             "extending", "arranging", "deduping", "merging", "joining", "answered"}
  /\ hits \in Results \X Results
  /\ \A s \in {todo, list, fused} : s \in Seq(Scored) /\ NodesOf(s) \subseteq stored
  /\ \A s \in {list, fused} : \A i, j \in DOMAIN s : s[i].node = s[j].node => i = j
  /\ left \subseteq kept /\ kept \subseteq stored
  /\ pc # "joining" => piece = NoPiece
  /\ \A i \in DOMAIN answer : Nodes(answer[i]) \subseteq kept

(* Where a store has found a text.                                         *)
RanksIn(store, h) == {r \in DOMAIN hits[store] : Hash(hits[store][r]) = h}
RanksOf(h) == RanksIn(1, h) \cup RanksIn(2, h)
HitCount(h) == Cardinality(RanksIn(1, h)) + Cardinality(RanksIn(2, h))

(* reciprocal_rerank_fusion puts a text that occurs in more hits first,    *)
(* wherever in the two lists it was found.  (A text that one store finds   *)
(* twice counts like one that both stores find.)                           *)
MoreHitsFirst ==
  pc = "fused" =>
    \A i, j \in DOMAIN fused : i < j =>
      HitCount(Hash(fused[i].node)) >= HitCount(Hash(fused[j].node))

(* Of two texts found equally often it never puts one first that is behind *)
(* the other in every hit.                                                 *)
EarlierHitsFirst ==
  pc = "fused" =>
    \A i, j \in DOMAIN fused : i < j =>
      LET a == Hash(fused[i].node)
          b == Hash(fused[j].node)
      IN HitCount(a) = HitCount(b) =>
           \E x \in RanksOf(a), y \in RanksOf(b) : x <= y

(* Every hit comes with its stored neighbours, save that the last node of  *)
(* a document never brings its previous one, and with nothing else.        *)
Neighbourhood(n) ==
  IF n[2] = Size[n[1]] THEN {n}
  ELSE {m \in stored : m[1] = n[1] /\ m[2] - n[2] \in {-1, 0, 1}}

NeighboursFetched ==
  pc = "arranging" /\ todo = <<>> =>
    NodesOf(list) = UNION {Neighbourhood(n) : n \in NodesOf(fused)}

(* Whatever the order in which nodes are taken from the set: the answer    *)
(* has every text it keeps exactly once, and two texts that are            *)
(* consecutive in a document are in one piece.                             *)
AnswerIsRuns ==
  pc = "answered" =>
    /\ UNION {Nodes(answer[i]) : i \in DOMAIN answer} = kept
    /\ \A m, n \in kept : Hash(m) = Hash(n) => m = n
    /\ \A i, j \in DOMAIN answer : i # j =>
         /\ Nodes(answer[i]) \cap Nodes(answer[j]) = {}
         /\ HasNext(answer[i].last) => NextOf(answer[i].last) # answer[j].first

(* A piece whose nodes are of one section and leave no gap is that part of *)
(* the section, each character once, however its nodes were joined.        *)
Seamless(p) ==
  /\ \A n \in Nodes(p) : Located(n) /\ Section(n) = Section(p.first)
  /\ \A n \in Nodes(p) \ {p.last} : Start(n) <= Start(NextOf(n))
       /\ Start(NextOf(n)) <= End(n) /\ End(n) <= End(NextOf(n))

TextWhole ==
  \A i \in DOMAIN answer : Seamless(answer[i]) =>
    LET p == answer[i]
    IN p.text = [k \in 1 .. End(p.last) - Start(p.first) |->
                   <<Section(p.first), Start(p.first) + k - 1>>]

HasPart(t, s) == \E from, to \in 0 .. Len(t) : SubSeq(t, from + 1, to) = s

(* No text that was found is lost: either fusion keeps it, and the answer  *)
(* has a node with it, although a neighbour with the same text may have    *)
(* taken its place, and has that node's text in full where its piece is    *)
(* seamless.  (Elsewhere _join_nodes cuts by offsets that do not fit.)     *)
FoundIsAnswered ==
  /\ pc \in {"fused", "reranked"} => Hashes(NodesOf(fused)) = Hashes(Found)
  /\ pc = "answered" =>
       \A h \in Hashes(NodesOf(fused)) :
         \E i \in DOMAIN answer : \E n \in Nodes(answer[i]) :
           /\ Hash(n) = h
           /\ Seamless(answer[i]) => HasPart(answer[i].text, Text(n))
=============================================================================
