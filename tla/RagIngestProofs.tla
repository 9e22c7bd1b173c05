--------------------------- MODULE RagIngestProofs ---------------------------
(***************************************************************************)
(* Proofs about RagIngest, for any files, versions, chunks and number of   *)
(* requests: the search stores follow the docstore, and the docstore never *)
(* holds two documents of one name.                                        *)
(***************************************************************************)
EXTENDS RagIngest, TLAPS

(***************************************************************************)
(* Why the stores agree: while a request is served that can still end with *)
(* them in agreement, each store is what it should be or becomes so by the *)
(* pending write.                                                          *)
(***************************************************************************)
Serving == {"docs", "nodes", "es", "off", "points", "on"}

Hopeful == ~dirty \/ (mode = "sync" /\ pc # "idle")

StoresInv ==
  /\ pc \in {"idle"} \cup Serving
  /\ mode \in {"ingest", "sync"} /\ dirty \in BOOLEAN
  /\ mode = "sync" => pc \notin {"docs", "nodes"}
  /\ ~dirty /\ pc \notin {"points", "on"} => m = 16
  /\ Hopeful =>
       /\ pc \in {"idle", "docs", "nodes", "off", "points", "on"} => es = nodes
       /\ pc \in {"idle", "docs", "nodes", "on"} => qdrant = nodes
       /\ pc = "es" => Applied(es, nodeDiff) = nodes
       /\ pc = "es" /\ mode = "ingest" => Applied(qdrant, nodeDiff) = nodes
       /\ pc \in {"off", "points"} => Applied(qdrant, nodeDiff) = nodes

LEMMA StoresInit == Init => StoresInv
  BY DEF Init, StoresInv, Serving, Hopeful

(* In each case the goal is StoresInv': the steps differ in which of its   *)
(* conjuncts speaks of the new state.                                      *)
LEMMA StoresStep == StoresInv /\ [Next]_vars => StoresInv'
<1> SUFFICES ASSUME StoresInv, [Next]_vars
             PROVE  StoresInv'
  OBVIOUS
<1> USE DEF StoresInv, Serving, Hopeful, mongo, stores, request, diffs
<1>1. CASE Upload
  BY <1>1 DEF Upload
<1>2. ASSUME NEW F \in SUBSET Files, Ingest(F)
      PROVE  StoresInv'
  BY <1>2 DEF Ingest
<1>3. CASE Sync
  <2>1. Applied(es, [delete |-> es \ nodes, add |-> nodes \ es]) = nodes
    BY DEF Applied
  <2> QED
    BY <1>3, <2>1 DEF Sync, Applied
<1>4. CASE WriteDocs
  BY <1>4 DEF WriteDocs
<1>5. CASE WriteNodes
  BY <1>5 DEF WriteNodes, Applied
<1>6. CASE WriteEs
  <2>1. CASE mode = "sync"
    BY <1>6, <2>1 DEF WriteEs, NextDiff, Applied
  <2>2. CASE mode # "sync"
    BY <1>6, <2>2 DEF WriteEs, NextDiff, Applied
  <2> QED
    BY <2>1, <2>2
<1>7. CASE SwitchOff
  BY <1>7 DEF SwitchOff, Applied
<1>8. CASE WritePoints
  BY <1>8 DEF WritePoints, Applied
<1>9. CASE SwitchOn
  BY <1>9 DEF SwitchOn
<1>10. CASE WriteDocsFails \/ WriteNodesFails \/ WriteEsFails
              \/ SwitchOffFails \/ WritePointsFails \/ SwitchOnFails
  <2>1. pc' = "idle" /\ dirty' = TRUE /\ mode' = mode
    BY <1>10 DEF WriteDocsFails, WriteNodesFails, WriteEsFails,
                 SwitchOffFails, WritePointsFails, SwitchOnFails, Fail
  <2> QED
    BY <2>1
<1>11. CASE UNCHANGED vars
  BY <1>11 DEF vars, Applied
<1> QED
  BY <1>1, <1>2, <1>3, <1>4, <1>5, <1>6, <1>7, <1>8, <1>9, <1>10, <1>11
  DEF Next

(* Whenever no request is being served and none has failed since the last  *)
(* complete sync, Elasticsearch and Qdrant hold the docstore's nodes.      *)
THEOREM StoresAlwaysAgree == Spec => []StoresAgree
<1>1. StoresInv => StoresAgree
  BY DEF StoresInv, StoresAgree, Hopeful
<1> QED
  BY <1>1, StoresInit, StoresStep, PTL DEF Spec

-----------------------------------------------------------------------------
(***************************************************************************)
(* Why a name has one document: what is about to be inserted has distinct  *)
(* names, and what has one of those names is about to be deleted before.   *)
(***************************************************************************)
DocsInv ==
  /\ OneDocPerFile
  /\ pc = "docs" =>
       /\ \A a, b \in docDiff.add : a.file = b.file => a = b
       /\ \A d \in docs, a \in docDiff.add :
            d.file = a.file => d \in docDiff.delete

LEMMA DocsInit == Init => DocsInv
  BY DEF Init, DocsInv, OneDocPerFile

(* Whichever part of the ordered writes happens, names stay distinct.      *)
LEMMA CutShortKeepsNames ==
  ASSUME DocsInv, pc = "docs", NEW S \in CutShort(docs, docDiff)
  PROVE  \A d, e \in S : d.file = e.file => d = e
<1>1. CASE \E D \in SUBSET docDiff.delete : S = docs \ D
  BY <1>1 DEF DocsInv, OneDocPerFile
<1>2. CASE \E A \in SUBSET docDiff.add : S = (docs \ docDiff.delete) \cup A
  BY <1>2 DEF DocsInv, OneDocPerFile
<1> QED
  BY <1>1, <1>2 DEF CutShort

LEMMA DocsStep == DocsInv /\ [Next]_vars => DocsInv'
<1> SUFFICES ASSUME DocsInv, [Next]_vars
             PROVE  DocsInv'
  OBVIOUS
<1> USE DEF mongo, stores, request, diffs
<1>1. CASE Upload
  BY <1>1 DEF Upload, DocsInv, OneDocPerFile
<1>2. ASSUME NEW F \in SUBSET Files, Ingest(F)
      PROVE  DocsInv'
  <2> DEFINE given == {f \in F : bucket[f] \notin Blank}
             new == {f \in given : ~Known(f)}
             old == {f \in new : \E d \in docs : d.file = f}
             found == {CHOOSE d \in docs : d.file = f : f \in old}
             added == {[request |-> served, file |-> f, version |-> bucket[f]]
                         : f \in new}
  <2>1. docDiff' = [delete |-> found, add |-> added] /\ docs' = docs
    BY <1>2 DEF Ingest
  <2>2. \A a, b \in added : a.file = b.file => a = b
    OBVIOUS
  <2>3. ASSUME NEW d \in docs, NEW a \in added, d.file = a.file
        PROVE  d \in found
    <3>1. PICK f \in new : f = a.file
      OBVIOUS
    <3>2. f \in old
      BY <2>3, <3>1
    <3>3. d = CHOOSE e \in docs : e.file = f
      BY <2>3, <3>1 DEF DocsInv, OneDocPerFile
    <3> QED
      BY <3>2, <3>3
  <2> HIDE DEF given, new, old, found, added
  <2> QED
    BY <2>1, <2>2, <2>3 DEF DocsInv, OneDocPerFile
<1>3. CASE WriteDocs
  <2>1. docs' = (docs \ docDiff.delete) \cup docDiff.add
    BY <1>3 DEF WriteDocs, Applied
  <2>2. docs' \in CutShort(docs, docDiff)
    BY <2>1 DEF CutShort
  <2>3. OneDocPerFile'
    BY <1>3, <2>2, CutShortKeepsNames DEF WriteDocs, OneDocPerFile
  <2> QED
    BY <1>3, <2>3 DEF WriteDocs, DocsInv
<1>4. CASE WriteDocsFails
  <2>1. OneDocPerFile'
    BY <1>4, CutShortKeepsNames DEF WriteDocsFails, OneDocPerFile
  <2> QED
    BY <1>4, <2>1 DEF WriteDocsFails, Fail, DocsInv
<1>5. CASE Sync \/ WriteNodes \/ WriteEs \/ SwitchOff \/ WritePoints \/ SwitchOn
  <2>1. docs' = docs /\ pc' # "docs"
    BY <1>5 DEF Sync, WriteNodes, WriteEs, SwitchOff, WritePoints, SwitchOn
  <2> QED
    BY <2>1 DEF DocsInv, OneDocPerFile
<1>6. CASE WriteNodesFails \/ WriteEsFails \/ SwitchOffFails
             \/ WritePointsFails \/ SwitchOnFails
  <2>1. docs' = docs /\ pc' # "docs"
    BY <1>6 DEF WriteNodesFails, WriteEsFails, SwitchOffFails,
                WritePointsFails, SwitchOnFails, Fail
  <2> QED
    BY <2>1 DEF DocsInv, OneDocPerFile
<1>7. CASE UNCHANGED vars
  BY <1>7 DEF vars, DocsInv, OneDocPerFile
<1> QED
  BY <1>1, <1>2, <1>3, <1>4, <1>5, <1>6, <1>7 DEF Next

(* However the writes of any number of requests are cut short, the         *)
(* docstore never holds two documents of one name.                         *)
THEOREM AlwaysOneDocPerFile == Spec => []OneDocPerFile
<1>1. DocsInv => OneDocPerFile
  BY DEF DocsInv
<1> QED
  BY <1>1, DocsInit, DocsStep, PTL DEF Spec

-----------------------------------------------------------------------------
(***************************************************************************)
(* Why the docstore is current while MongoDB does not fail: once the       *)
(* writes that are pending are done, each file's documents are those of    *)
(* the version read last, and the nodes are theirs.                        *)
(***************************************************************************)
VersionsIn(S, f) == {d.version : d \in {e \in S : e.file = f}}

Upcoming == IF pc = "docs" THEN Applied(docs, docDiff) ELSE docs

NodesInv ==
  /\ pc # "nodes" => nodes = ChildNodes(docs)
  /\ pc = "nodes" => Applied(nodes, nodeDiff) = ChildNodes(docs)
  /\ pc = "docs" => nodeDiff = [delete |-> ChildNodes(docDiff.delete),
                               add |-> ChildNodes(docDiff.add)]

VersionsInv ==
  \A f \in Files : VersionsIn(Upcoming, f) = {read[f]} \ {Unread}

BucketInv == bucket \in [Files -> Versions]

CurrentInv == BucketInv /\ (~lost => NodesInv /\ VersionsInv)

LEMMA CurrentInit == Init => CurrentInv
<1> SUFFICES ASSUME Init PROVE CurrentInv
  OBVIOUS
<1>1. BucketInv
  BY DEF Init, BucketInv
<1>2. NodesInv
  BY DEF Init, NodesInv, ChildNodes
<1>3. VersionsInv
  BY DEF Init, VersionsInv, VersionsIn, Upcoming
<1> QED
  BY <1>1, <1>2, <1>3 DEF CurrentInv

(* The nodes of what is left are what is left of the nodes.                *)
LEMMA ChildNodesApplied ==
  ASSUME NEW S, NEW diff
  PROVE  Applied(ChildNodes(S), [delete |-> ChildNodes(diff.delete),
                                 add |-> ChildNodes(diff.add)])
           = ChildNodes(Applied(S, diff))
  BY DEF Applied, ChildNodes

(* After an ingestion's writes, the files it read have the versions it     *)
(* read and the others are as before.                                      *)
LEMMA IngestVersions ==
  ASSUME BucketInv, VersionsInv, OneDocPerFile,
         NEW F \in SUBSET Files, Ingest(F)
  PROVE  VersionsInv'
<1> DEFINE given == {f \in F : bucket[f] \notin Blank}
           new == {f \in given : ~Known(f)}
           old == {f \in new : \E d \in docs : d.file = f}
           found == {CHOOSE d \in docs : d.file = f : f \in old}
           added == {[request |-> served, file |-> f, version |-> bucket[f]]
                       : f \in new}
<1>1. Upcoming = docs
  BY DEF Ingest, Upcoming
<1>2. Upcoming' = (docs \ found) \cup added
  <2>1. /\ pc' = "docs" /\ docs' = docs
        /\ docDiff' = [delete |-> found, add |-> added]
    BY DEF Ingest, mongo
  <2> HIDE DEF found, added
  <2> QED
    BY <2>1 DEF Upcoming, Applied
<1>3. \A f \in Files : read'[f] = IF f \in given THEN bucket[f] ELSE read[f]
  BY DEF Ingest
<1>4. \A d \in found : d \in docs /\ d.file \in old
  OBVIOUS
<1>5. ASSUME NEW d \in docs, d.file \in new
      PROVE  d \in found
  <2>1. d.file \in old
    BY <1>5
  <2>2. d = CHOOSE e \in docs : e.file = d.file
    BY DEF OneDocPerFile
  <2> QED
    BY <2>1, <2>2
<1>6. \A a \in added : a.file \in new /\ a.version = bucket[a.file]
  OBVIOUS
<1>7. ASSUME NEW f \in new
      PROVE  \E a \in added : a.file = f
  <2> DEFINE a == [request |-> served, file |-> f, version |-> bucket[f]]
  <2>1. a \in added /\ a.file = f
    OBVIOUS
  <2> QED
    BY <2>1
<1> SUFFICES ASSUME NEW f \in Files
             PROVE  VersionsIn(Upcoming', f) = {read'[f]} \ {Unread}
  BY DEF VersionsInv, VersionsIn
<1>8. bucket[f] \in Versions /\ bucket[f] # Unread
  BY UnreadAssumption DEF BucketInv
<1> HIDE DEF found, added
<1>9. CASE f \in new
  <2>1. \A d \in Upcoming' : d.file = f => d \in added
    BY <1>2, <1>5, <1>9
  <2>2. VersionsIn(Upcoming', f) = {bucket[f]}
    BY <1>2, <1>6, <1>7, <1>9, <2>1 DEF VersionsIn
  <2> QED
    BY <1>3, <1>8, <1>9, <2>2
<1>10. CASE f \notin new
  <2>1. \A d : d.file = f => (d \in Upcoming' <=> d \in docs)
    BY <1>2, <1>4, <1>6, <1>10
  <2>2. VersionsIn(Upcoming', f) = VersionsIn(docs, f)
    BY <2>1 DEF VersionsIn
  <2>3. VersionsIn(docs, f) = {read[f]} \ {Unread}
    BY <1>1 DEF VersionsInv
  <2>4. CASE f \in given
    <3>1. PICK d \in docs : d.file = f /\ d.version = bucket[f]
      BY <1>10, <2>4 DEF Known
    <3>2. bucket[f] \in VersionsIn(docs, f)
      BY <3>1 DEF VersionsIn
    <3> QED
      BY <1>3, <1>8, <2>2, <2>3, <2>4, <3>2
  <2>5. CASE f \notin given
    BY <1>3, <2>2, <2>3, <2>5
  <2> QED
    BY <2>4, <2>5
<1> QED
  BY <1>9, <1>10

LEMMA CurrentStep == CurrentInv /\ DocsInv /\ [Next]_vars => CurrentInv'
<1> SUFFICES ASSUME CurrentInv, DocsInv, [Next]_vars
             PROVE  CurrentInv'
  OBVIOUS
<1> USE DEF mongo, stores, request, diffs
<1>1. CASE Upload
  BY <1>1 DEF Upload, CurrentInv, BucketInv, NodesInv, VersionsInv,
              VersionsIn, Upcoming, Applied, ChildNodes
<1>2. ASSUME NEW F \in SUBSET Files, Ingest(F)
      PROVE  CurrentInv'
  <2>1. BucketInv' /\ lost' = lost
    BY <1>2 DEF Ingest, CurrentInv, BucketInv
  <2>2. ASSUME ~lost
        PROVE  NodesInv'
    BY <1>2, <2>2 DEF Ingest, CurrentInv, NodesInv, ChildNodes
  <2>3. ASSUME ~lost
        PROVE  VersionsInv'
    BY <1>2, <2>3, IngestVersions DEF CurrentInv, DocsInv
  <2> QED
    BY <2>1, <2>2, <2>3 DEF CurrentInv
<1>3. CASE WriteDocs
  <2>1. docs' = Upcoming /\ Upcoming' = docs'
    BY <1>3 DEF WriteDocs, Upcoming
  <2>2. ASSUME ~lost
        PROVE  NodesInv'
    <3>1. Applied(nodes, nodeDiff) = ChildNodes(Applied(docs, docDiff))
      BY <1>3, <2>2, ChildNodesApplied DEF WriteDocs, CurrentInv, NodesInv
    <3> QED
      BY <1>3, <3>1 DEF WriteDocs, NodesInv, Applied, ChildNodes
  <2>3. ASSUME ~lost
        PROVE  VersionsInv'
    BY <1>3, <2>1, <2>3 DEF WriteDocs, CurrentInv, VersionsInv, VersionsIn
  <2> QED
    BY <1>3, <2>2, <2>3 DEF WriteDocs, CurrentInv, BucketInv
<1>4. CASE WriteNodes
  <2>1. ASSUME ~lost
        PROVE  NodesInv'
    BY <1>4, <2>1 DEF WriteNodes, CurrentInv, NodesInv, ChildNodes
  <2>2. Upcoming' = Upcoming
    BY <1>4 DEF WriteNodes, Upcoming
  <2> QED
    BY <1>4, <2>1, <2>2
    DEF WriteNodes, CurrentInv, BucketInv, VersionsInv, VersionsIn
<1>5. CASE WriteDocsFails \/ WriteNodesFails
  BY <1>5 DEF WriteDocsFails, WriteNodesFails, Fail, CurrentInv, BucketInv
<1>6. CASE Sync \/ WriteEs \/ SwitchOff \/ WritePoints \/ SwitchOn
             \/ WriteEsFails \/ SwitchOffFails \/ WritePointsFails \/ SwitchOnFails
  <2>1. /\ docs' = docs /\ nodes' = nodes /\ read' = read /\ lost' = lost
        /\ bucket' = bucket
        /\ pc \notin {"docs", "nodes"} /\ pc' \notin {"docs", "nodes"}
    BY <1>6 DEF Sync, WriteEs, SwitchOff, WritePoints, SwitchOn, WriteEsFails,
                SwitchOffFails, WritePointsFails, SwitchOnFails, Fail
  <2>2. Upcoming' = Upcoming
    BY <2>1 DEF Upcoming
  <2> QED
    BY <2>1, <2>2 DEF CurrentInv, BucketInv, NodesInv, VersionsInv,
                      VersionsIn, ChildNodes
<1>7. CASE UNCHANGED vars
  BY <1>7 DEF vars, CurrentInv, BucketInv, NodesInv, VersionsInv, VersionsIn,
              Upcoming, Applied, ChildNodes
<1> QED
  BY <1>1, <1>2, <1>3, <1>4, <1>5, <1>6, <1>7 DEF Next

(* Unless a write to MongoDB failed, the docstore between two requests     *)
(* holds what was read last of each file, of what had any text, whatever   *)
(* failed elsewhere.                                                       *)
THEOREM DocstoreAlwaysCurrent == Spec => []DocstoreCurrent
<1>1. CurrentInv => DocstoreCurrent
  BY DEF CurrentInv, NodesInv, VersionsInv, VersionsIn, Upcoming,
         DocstoreCurrent
<1> QED
  BY <1>1, DocsInit, DocsStep, CurrentInit, CurrentStep, PTL DEF Spec
=============================================================================
