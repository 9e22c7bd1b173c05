------------------------------ MODULE RagIngest ------------------------------
(***************************************************************************)
(* The RAG service's writing side: /ingest_docs_from_dir/,                 *)
(* /ingest_doc_from_file/ and /sync/, which write MongoDB (two             *)
(* collections), Elasticsearch and Qdrant one after the other, with no     *)
(* transaction and no retry.  The handlers never suspend, so requests are  *)
(* served one at a time; every call to a store may fail or be cut short by *)
(* a crash, after any part of its operations.                              *)
(*                                                                         *)
(* A document stands for its hash (name, type, contents and metadata): a   *)
(* file and a version of it.  Documents and nodes get fresh ids in every   *)
(* request.  Only nodes with a source document occur (SentenceSplitter     *)
(* gives every node one).                                                  *)
(***************************************************************************)
EXTENDS Integers

CONSTANTS Files,        \* (file_name, file_type) pairs, distinct in a request
          Versions,     \* contents a file may have
          Blank,        \* the versions without any text
          Parts,        \* the chunks any other document is split into
          Unread,       \* not a version
          MaxRequests   \* bounds the requests that ingest

ASSUME UnreadAssumption == Unread \notin Versions
ASSUME MaxRequestsAssumption == MaxRequests \in Nat

VARIABLES
  bucket,   \* bucket[f]: the version of f in the S3 bucket
  docs,     \* doc_collection
  nodes,    \* ids in node_collection
  es,       \* ids in the Elasticsearch index
  qdrant,   \* ids in the Qdrant collection
  m,        \* hnsw_config.m of that collection: 16, or 0 while loading
  pc,       \* the next write of the request being served, or "idle"
  mode,     \* which endpoint is served
  docDiff,  \* documents to delete and to insert
  nodeDiff, \* NodeDiff: nodes to delete and to add
  served,   \* requests that have ingested
  read,     \* history: the last version of f that was read and not blank
  dirty,    \* history: a request failed since the last complete sync
  lost      \* history: a write to MongoDB failed

vars == <<bucket, docs, nodes, es, qdrant, m, pc, mode, docDiff, nodeDiff,
          served, read, dirty, lost>>
mongo == <<docs, nodes>>
stores == <<es, qdrant, m>>
request == <<mode, served, read>>
diffs == <<docDiff, nodeDiff>>

Doc == [request : Nat, file : Files, version : Versions]
Node == [doc : Doc, part : Parts]

(* The nodes of the documents in D.                                        *)
ChildNodes(D) == [doc : D, part : Parts]

Diff(S) == [delete : SUBSET S, add : SUBSET S]

TypeOK ==
  /\ bucket \in [Files -> Versions]
  /\ docs \subseteq Doc /\ nodes \subseteq Node
  /\ es \subseteq Node /\ qdrant \subseteq Node /\ m \in {0, 16}
  /\ pc \in {"idle", "docs", "nodes", "es", "off", "points", "on"}
  /\ mode \in {"ingest", "sync"}
  /\ docDiff \in Diff(Doc) /\ nodeDiff \in Diff(Node)
  /\ served \in Nat
  /\ read \in [Files -> Versions \cup {Unread}]
  /\ dirty \in BOOLEAN /\ lost \in BOOLEAN

Nothing == [delete |-> {}, add |-> {}]

Init ==
  /\ bucket \in [Files -> Versions]
  /\ docs = {} /\ nodes = {} /\ es = {} /\ qdrant = {} /\ m = 16
  /\ pc = "idle" /\ mode = "ingest"
  /\ docDiff = Nothing /\ nodeDiff = Nothing
  /\ served = 0
  /\ read = [f \in Files |-> Unread]
  /\ dirty = FALSE /\ lost = FALSE

-----------------------------------------------------------------------------
Applied(S, diff) == (S \ diff.delete) \cup diff.add

(* (Faulty variant: the insertions come first.)                            *)
InsertsFirst(S, diff) ==
  {S \cup A : A \in SUBSET diff.add}
    \cup {(S \cup diff.add) \ D : D \in SUBSET diff.delete}

(* What an ordered bulk_write may leave: the deletions come first, and no  *)
(* insertion happens before they are complete.                             *)
CutShort(S, diff) ==
  {S \ D : D \in SUBSET diff.delete}
    \cup {(S \ diff.delete) \cup A : A \in SUBSET diff.add}

(* What helpers.bulk may leave: every action succeeds or fails by itself.  *)
AnyPart(S, diff) ==
  {(S \ D) \cup A : D \in SUBSET diff.delete, A \in SUBSET diff.add}

-----------------------------------------------------------------------------
(* Someone writes a new version of a file.                                 *)
Upload ==
  /\ \E f \in Files, v \in Versions :
       v # bucket[f] /\ bucket' = [bucket EXCEPT ![f] = v]
  /\ UNCHANGED <<mongo, stores, pc, request, diffs, dirty, lost>>

(* find_one({"hash": ...}).  (Faulty variant: the name is enough.)         *)
KnownByName(f) == \E d \in docs : d.file = f
Known(f) == \E d \in docs : d.file = f /\ d.version = bucket[f]

(* The request's documents that are not in the collection replace those of *)
(* the same name that are.  They are found by their nodes: a document that *)
(* has none, of a file that became blank, is not there for the docstore.   *)
Ingest(F) ==
  LET given == {f \in F : bucket[f] \notin Blank}
      new == {f \in given : ~Known(f)}
      old == {f \in new : \E d \in docs : d.file = f}
      found == {CHOOSE d \in docs : d.file = f : f \in old}
      added == {[request |-> served, file |-> f, version |-> bucket[f]] : f \in new}
  IN
  /\ pc = "idle" /\ served < MaxRequests
  /\ pc' = "docs" /\ mode' = "ingest"
  /\ docDiff' = [delete |-> found, add |-> added]
  /\ nodeDiff' = [delete |-> ChildNodes(found), add |-> ChildNodes(added)]
  /\ served' = served + 1
  /\ read' = [f \in Files |-> IF f \in given THEN bucket[f] ELSE read[f]]
  /\ UNCHANGED <<bucket, mongo, stores, dirty, lost>>

(* get_all_node_ids, and ElasticsearchStore.sync up to its writes.         *)
Sync ==
  /\ pc = "idle"
  /\ pc' = "es" /\ mode' = "sync"
  /\ nodeDiff' = [delete |-> es \ nodes, add |-> nodes \ es]
  /\ UNCHANGED <<bucket, mongo, stores, docDiff, served, read, dirty, lost>>

-----------------------------------------------------------------------------
Fail ==
  /\ pc' = "idle" /\ dirty' = TRUE
  /\ docDiff' = Nothing /\ nodeDiff' = Nothing
  /\ UNCHANGED <<bucket, request>>

WriteDocs ==
  /\ pc = "docs" /\ pc' = "nodes"
  /\ docs' = Applied(docs, docDiff)
  /\ docDiff' = Nothing
  /\ UNCHANGED <<bucket, nodes, stores, request, nodeDiff, dirty, lost>>

WriteDocsFails ==
  /\ pc = "docs" /\ docDiff # Nothing
  /\ docs' \in CutShort(docs, docDiff)
  /\ lost' = TRUE
  /\ Fail /\ UNCHANGED <<nodes, stores>>

WriteNodes ==
  /\ pc = "nodes" /\ pc' = "es"
  /\ nodes' = Applied(nodes, nodeDiff)
  /\ UNCHANGED <<bucket, docs, stores, request, diffs, dirty, lost>>

WriteNodesFails ==
  /\ pc = "nodes" /\ nodeDiff # Nothing
  /\ nodes' \in CutShort(nodes, nodeDiff)
  /\ lost' = TRUE
  /\ Fail /\ UNCHANGED <<docs, stores>>

(* When a sync gets to Qdrant it compares that collection with the nodes.  *)
(* (Faulty variant: with what it has just sent to Elasticsearch.)          *)
SameForBoth == nodeDiff
NextDiff ==
  IF mode = "sync" THEN [delete |-> qdrant \ nodes, add |-> nodes \ qdrant]
  ELSE nodeDiff

WriteEs ==
  /\ pc = "es" /\ pc' = "off"
  /\ es' = Applied(es, nodeDiff)
  /\ nodeDiff' = NextDiff
  /\ UNCHANGED <<bucket, mongo, qdrant, m, request, docDiff, dirty, lost>>

WriteEsFails ==
  /\ pc = "es" /\ nodeDiff # Nothing
  /\ es' \in AnyPart(es, nodeDiff)
  /\ Fail /\ UNCHANGED <<mongo, qdrant, m, lost>>

(* Qdrant's indexing is switched off while points are written.             *)
SwitchOff ==
  /\ pc = "off" /\ pc' = "points"
  /\ m' = 0
  /\ UNCHANGED <<bucket, mongo, es, qdrant, request, diffs, dirty, lost>>

SwitchOffFails ==
  /\ pc = "off"
  /\ m' \in {m, 0}
  /\ Fail /\ UNCHANGED <<mongo, es, qdrant, lost>>

WritePoints ==
  /\ pc = "points" /\ pc' = "on"
  /\ qdrant' = Applied(qdrant, nodeDiff)
  /\ UNCHANGED <<bucket, mongo, es, m, request, diffs, dirty, lost>>

WritePointsFails ==
  /\ pc = "points" /\ nodeDiff # Nothing
  /\ qdrant' \in CutShort(qdrant, nodeDiff)
  /\ Fail /\ UNCHANGED <<mongo, es, m, lost>>

(* The request is served.  (Faulty variant: indexing stays off.)           *)
LeaveOff ==
  /\ pc = "on" /\ pc' = "idle"
  /\ dirty' = (dirty /\ mode = "ingest")
  /\ nodeDiff' = Nothing
  /\ UNCHANGED <<bucket, mongo, stores, request, docDiff, lost>>

SwitchOn ==
  /\ pc = "on" /\ pc' = "idle"
  /\ m' = 16
  /\ dirty' = (dirty /\ mode = "ingest")
  /\ nodeDiff' = Nothing
  /\ UNCHANGED <<bucket, mongo, es, qdrant, request, docDiff, lost>>

SwitchOnFails ==
  /\ pc = "on"
  /\ m' \in {m, 16}
  /\ Fail /\ UNCHANGED <<mongo, es, qdrant, lost>>

-----------------------------------------------------------------------------
Next ==
  \/ Upload
  \/ \E F \in SUBSET Files : Ingest(F)
  \/ Sync
  \/ WriteDocs \/ WriteNodes \/ WriteEs \/ SwitchOff \/ WritePoints \/ SwitchOn
  \/ WriteDocsFails \/ WriteNodesFails \/ WriteEsFails
  \/ SwitchOffFails \/ WritePointsFails \/ SwitchOnFails

Spec == Init /\ [][Next]_vars

-----------------------------------------------------------------------------
(* Between requests, and unless one failed since the last complete sync,   *)
(* both search stores hold exactly the nodes of the docstore and Qdrant    *)
(* indexes them: a query fetches every id it finds.  So a sync repairs     *)
(* whatever a failure left in the stores, and later requests keep it so.   *)
StoresAgree ==
  pc = "idle" /\ ~dirty => es = nodes /\ qdrant = nodes /\ m = 16

(* However writes fail, no two documents of one name are kept, so that     *)
(* find_one finds all there is to replace.                                 *)
OneDocPerFile ==
  \A d, e \in docs : d.file = e.file => d = e

(* As long as every write to MongoDB succeeds, failures elsewhere leave    *)
(* the docstore right: it holds of each file the version that was read     *)
(* last (also when a file goes back to an earlier one) and its nodes.  A   *)
(* version without any text does not count: what was there before stays.   *)
DocstoreCurrent ==
  pc = "idle" /\ ~lost =>
    /\ nodes = ChildNodes(docs)
    /\ \A f \in Files :
         {d.version : d \in {e \in docs : e.file = f}} = {read[f]} \ {Unread}

(* What get_nodes_diff takes for granted: a document that is in the        *)
(* collection has been added, at the latest after a sync.                  *)
AddedWhenMatched ==
  pc = "idle" /\ ~dirty => ChildNodes(docs) \subseteq nodes
=============================================================================
