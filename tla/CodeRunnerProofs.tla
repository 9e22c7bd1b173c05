--------------------------- MODULE CodeRunnerProofs ---------------------------
(***************************************************************************)
(* Proofs about CodeRunner and the SandboxFiles in it, for any requests,   *)
(* paths, names and runs.                                                  *)
(***************************************************************************)
EXTENDS CodeRunner, TLAPS

(***************************************************************************)
(* The sandbox's part of the invariant.  Requests under way have a path,   *)
(* and a file that is written is there.  The upload that opened a file     *)
(* last is writing it alone, or has written all of it, unless it is mixed. *)
(***************************************************************************)
PathsKnown ==
  /\ \A u \in Uploads :
       up[u].pc \in {"fetching", "writing", "ok"} => up[u].path \in Paths
  /\ \A d \in Downloads :
       down[d].pc \in {"asking", "linking", "ok"} => down[d].path \in Paths

NothingYet == \A u \in Uploads : up[u].pc \in {"new", "fetching"} => written[u] = 0

WritersHaveFiles ==
  \A u \in Uploads : up[u].pc = "writing" => file[up[u].path] \in Seq(Chunk)

LastOpened ==
  \A p \in Paths, u \in Uploads : last[p] = u =>
    up[u].pc \in {"writing", "ok"} /\ up[u].path = p

LastAlone ==
  \A p \in Paths, u \in Uploads : last[p] = u /\ p \notin mixed =>
    WritersOf(p) \subseteq {u} /\ file[p] = Whole(u)

RefusedSent == \A d \in refused : down[d].pc \in {"linking", "ok"}

FilesInv ==
  /\ TypeOK
  /\ PathsKnown /\ NothingYet /\ WritersHaveFiles
  /\ LastOpened /\ LastAlone
  /\ RefusedSent

(***************************************************************************)
(* The runner's part: one run at a time; the state of a run is nowhere     *)
(* before it is dumped and put back; what will go back is there, and is    *)
(* what the bucket has, unless the run has changed it.                     *)
(***************************************************************************)
OneUnderWay == \A q, r \in UnderWay : q = r

StateInv ==
  \A r \in Runs :
    /\ run[r] \in {"new", "getting"} => pkl # r /\ dump # r
    /\ run[r] = "putting" => pkl # r /\ \A n \in todo : copy[n] # Absent
    /\ run[r] = "answering" => todo = {}

HeldIsStored == \A n \in Held \ crossed : copy[n] = bucket[n]

(* Contents x are nowhere yet.                                             *)
Unseen(x) ==
  /\ \A n \in Names : bucket[n] # x /\ copy[n] # x
  /\ \A d \in Downloads : x \notin before[d]

FirstSeen ==
  /\ \A d \in Downloads : down[d].pc \in {"new", "asking"} => Unseen(d)
  /\ \A p \in Posts \ post : Unseen(p)
  /\ \A r \in Runs : run[r] \in {"new", "getting"} => Unseen(r)

Begun(d) == down[d].pc \in {"asking", "linking", "ok"}

(* What a run has still to put as n was never stored as n before.          *)
ChangedOnce ==
  \A r \in Runs : \A n \in todo : run[r] = "putting" /\ copy[n] = r =>
    /\ bucket[n] # r
    /\ \A d \in Downloads :
         Begun(d) /\ Base(down[d].path) = n => r \notin before[d]

NewestIsNewer ==
  \A d \in Stored : newest[Base(down[d].path)] \notin before[d] \cup {Absent}

RunnerInv ==
  /\ FilesInv /\ RunnerTypeOK
  /\ OneUnderWay /\ StateInv
  /\ HeldIsStored /\ NewestKept
  /\ FirstSeen /\ ChangedOnce /\ NewestIsNewer
  /\ RefusedOnlyBroken

-----------------------------------------------------------------------------
(* Files                                                                   *)

(* A chunk written anywhere leaves a file of chunks.                       *)
LEMMA WriteAtType ==
  ASSUME NEW s \in Seq(Chunk), NEW i \in Nat \ {0}, NEW x \in Chunk
  PROVE  WriteAt(s, i, x) \in Seq(Chunk)
<1> DEFINE n == IF i > Len(s) THEN i ELSE Len(s)
<1>1. n \in Nat
  OBVIOUS
<1>2. Other \in Chunk
  BY DEF Chunk
<1>3. WriteAt(s, i, x) = [k \in 1 .. n |->
                            IF k = i THEN x ELSE IF k \in DOMAIN s THEN s[k] ELSE Other]
  BY DEF WriteAt
<1>4. \A k \in 1 .. n :
        (IF k = i THEN x ELSE IF k \in DOMAIN s THEN s[k] ELSE Other) \in Chunk
  BY <1>2
<1> QED
  BY <1>1, <1>3, <1>4

(* The next chunk of an upload extends what its link has served.           *)
LEMMA WriteAtWhole ==
  ASSUME NEW u, NEW n \in Nat
  PROVE  WriteAt([i \in 1 .. n |-> <<u, i>>], n + 1, <<u, n + 1>>)
           = [i \in 1 .. n + 1 |-> <<u, i>>]
<1> DEFINE s == [i \in 1 .. n |-> <<u, i>>]
<1>1. Len(s) = n /\ DOMAIN s = 1 .. n
  OBVIOUS
<1> QED
  BY <1>1 DEF WriteAt

(* Nobody but the actions of the sandbox looks at more than the types of   *)
(* what is in the bucket.                                                  *)
LEMMA FilesKept ==
  ASSUME FilesInv, UNCHANGED sandbox,
         bucket' \in [Names -> Downloads \cup Elsewhere \cup {Absent}]
  PROVE  FilesInv'
BY DEF FilesInv, TypeOK, PathsKnown, NothingYet, WritersHaveFiles, LastOpened,
       LastAlone, RefusedSent, WritersOf, Whole, sandbox, uploads

LEMMA UploadsKept ==
  ASSUME FilesInv, UNCHANGED <<file, uploads>>
  PROVE  /\ NothingYet' /\ WritersHaveFiles' /\ LastOpened' /\ LastAlone'
         /\ \A u \in Uploads :
              up[u].pc \in {"fetching", "writing", "ok"} => up'[u].path \in Paths
BY DEF FilesInv, PathsKnown, NothingYet, WritersHaveFiles, LastOpened,
       LastAlone, WritersOf, Whole, uploads

LEMMA DownloadStep ==
  ASSUME FilesInv, NEW d \in Downloads, Download(d)
  PROVE  FilesInv'
<1> USE DEF FilesInv, TypeOK, PathsKnown, RefusedSent, DownloadAt, DownloadPC,
            Names
<1>1. UNCHANGED <<file, uploads>>
  BY DEF Download, AcceptDownload, DenyDownload, Store, StoreRefused, Link,
         DownloadFails
<1>2. /\ NothingYet' /\ WritersHaveFiles' /\ LastOpened' /\ LastAlone'
      /\ \A u \in Uploads :
           up'[u].pc \in {"fetching", "writing", "ok"} => up'[u].path \in Paths
  BY <1>1, UploadsKept DEF uploads
<1>3. /\ file' \in [Paths -> Seq(Chunk) \cup {Absent}]
      /\ up' \in [Uploads -> [pc : UploadPC, path : Paths \cup {Outside}]]
      /\ written' \in [Uploads -> 0 .. Chunks]
      /\ last' \in [Paths -> Uploads \cup {Absent}]
      /\ mixed' \subseteq Paths
  BY <1>1 DEF uploads
<1>4. CASE AcceptDownload(d)
  <2>1. PICK p \in Paths :
          /\ down' = [down EXCEPT ![d] = [pc |-> "asking", path |-> p]]
          /\ before' = [before EXCEPT ![d] = (Stored \cup {bucket[Base(p)]}) \ {Absent}]
    BY <1>4 DEF AcceptDownload
  <2>2. (Stored \cup {bucket[Base(p)]}) \ {Absent} \subseteq Downloads \cup Elsewhere
    BY DEF Stored
  <2>3. /\ before' \in [Downloads -> SUBSET (Downloads \cup Elsewhere)]
        /\ down' \in [Downloads -> [pc : DownloadPC, path : Paths \cup {Outside}]]
    BY <2>1, <2>2
  <2>4. PathsKnown' /\ RefusedSent'
    BY <2>1, <1>2, <1>4 DEF AcceptDownload
  <2> QED
    BY <1>2, <1>3, <1>4, <2>3, <2>4 DEF AcceptDownload
<1>5. CASE DenyDownload(d)
  BY <1>2, <1>3, <1>5 DEF DenyDownload
<1>6. CASE Store(d)
  BY <1>2, <1>3, <1>6, ZenonT(30) DEF Store
<1>7. CASE StoreRefused(d)
  BY <1>2, <1>3, <1>7, ZenonT(30) DEF StoreRefused
<1>8. CASE Link(d)
  BY <1>2, <1>3, <1>8, ZenonT(30) DEF Link
<1>9. CASE DownloadFails(d)
  BY <1>2, <1>3, <1>9 DEF DownloadFails
<1> QED
  BY <1>4, <1>5, <1>6, <1>7, <1>8, <1>9 DEF Download

(* The downloads are no matter of an upload.                               *)
LEMMA DownloadsKept ==
  ASSUME FilesInv, UNCHANGED downloads,
         file' \in [Paths -> Seq(Chunk) \cup {Absent}],
         up' \in [Uploads -> [pc : UploadPC, path : Paths \cup {Outside}]],
         written' \in [Uploads -> 0 .. Chunks],
         last' \in [Paths -> Uploads \cup {Absent}],
         mixed' \subseteq Paths,
         \A u \in Uploads :
           up'[u].pc \in {"fetching", "writing", "ok"} => up'[u].path \in Paths,
         NothingYet', WritersHaveFiles', LastOpened', LastAlone'
  PROVE  FilesInv'
BY DEF FilesInv, TypeOK, PathsKnown, RefusedSent, downloads

(* An upload moves on without a file being touched.                        *)
LEMMA OtherUploads ==
  ASSUME FilesInv, NEW u \in Uploads, NEW x \in [pc : UploadPC, path : Paths \cup {Outside}],
         up' = [up EXCEPT ![u] = x],
         x.pc \in {"fetching", "writing", "ok"} => x.path \in Paths,
         x.pc \in {"new", "fetching"} => up[u].pc \in {"new", "fetching"},
         x.pc = "writing" => up[u].pc = "writing" /\ x.path = up[u].path,
         up[u].pc = "writing" => x.pc \in {"writing", "ok"} /\ x.path = up[u].path,
         up[u].pc # "ok",
         UNCHANGED <<file, written, last, mixed, downloads>>
  PROVE  FilesInv'
<1> USE DEF FilesInv
<1>1. /\ up' \in [Uploads -> [pc : UploadPC, path : Paths \cup {Outside}]]
      /\ \A v \in Uploads :
           up'[v].pc \in {"fetching", "writing", "ok"} => up'[v].path \in Paths
  BY DEF TypeOK, PathsKnown
<1>2. NothingYet' /\ WritersHaveFiles'
  BY DEF TypeOK, NothingYet, WritersHaveFiles
<1>3. LastOpened'
  BY DEF TypeOK, LastOpened
<1>4. LastAlone'
  <2>1. \A p \in Paths : WritersOf(p)' \subseteq WritersOf(p)
    BY DEF TypeOK, WritersOf
  <2> QED
    BY <2>1 DEF LastAlone, Whole
<1> QED
  BY <1>1, <1>2, <1>3, <1>4, DownloadsKept DEF TypeOK

LEMMA UploadMoves ==
  ASSUME TypeOK, NEW u \in Uploads, NEW from, NEW to, UploadAt(u, from, to)
  PROVE  up[u].pc = from /\ up' = [up EXCEPT ![u] = [pc |-> to, path |-> up[u].path]]
<1>1. up[u] \in [pc : UploadPC, path : Paths \cup {Outside}]
  BY DEF TypeOK
<1>2. [up[u] EXCEPT !.pc = to] = [pc |-> to, path |-> up[u].path]
  BY <1>1
<1>3. up' = [up EXCEPT ![u] = [up[u] EXCEPT !.pc = to]]
  BY DEF UploadAt
<1> QED
  BY <1>2, <1>3 DEF UploadAt

LEMMA UploadStep ==
  ASSUME FilesInv, NEW u \in Uploads, Upload(u)
  PROVE  FilesInv'
<1> USE AbsentAssumption, ChunksAssumption DEF FilesInv
<1>1. CASE AcceptUpload(u)
  <2>1. PICK p \in Paths : up' = [up EXCEPT ![u] = [pc |-> "fetching", path |-> p]]
    BY <1>1 DEF AcceptUpload
  <2> DEFINE x == [pc |-> "fetching", path |-> p]
  <2>2. x \in [pc : UploadPC, path : Paths \cup {Outside}]
    BY DEF UploadPC
  <2> QED
    BY <1>1, <2>1, <2>2, OtherUploads DEF AcceptUpload
<1>2. CASE DenyUpload(u)
  <2> DEFINE x == [pc |-> "failed", path |-> up[u].path]
  <2>1. up' = [up EXCEPT ![u] = x] /\ up[u].pc = "new"
    BY <1>2, UploadMoves DEF DenyUpload
  <2>2. x \in [pc : UploadPC, path : Paths \cup {Outside}]
    BY DEF UploadPC, TypeOK
  <2> QED
    BY <1>2, <2>1, <2>2, OtherUploads DEF DenyUpload
<1>3. CASE FinishUpload(u)
  <2> DEFINE x == [pc |-> "ok", path |-> up[u].path]
  <2>1. up' = [up EXCEPT ![u] = x] /\ up[u].pc = "writing" /\ up[u].path \in Paths
    BY <1>3, UploadMoves DEF FinishUpload, PathsKnown
  <2>2. x \in [pc : UploadPC, path : Paths \cup {Outside}]
    BY <2>1 DEF UploadPC
  <2> QED
    BY <1>3, <2>1, <2>2, OtherUploads DEF FinishUpload
<1>4. CASE OpenFile(u)
  <2> DEFINE p == up[u].path
  <2>1. /\ p \in Paths /\ written[u] = 0 /\ up[u].pc = "fetching"
        /\ up' = [up EXCEPT ![u] = [pc |-> "writing", path |-> p]]
        /\ file' = [file EXCEPT ![p] = << >>]
        /\ last' = [last EXCEPT ![p] = u]
        /\ mixed' = IF WritersOf(p) = {} THEN mixed \ {p} ELSE mixed \cup {p}
        /\ UNCHANGED <<written, downloads>>
    BY <1>4, UploadMoves DEF OpenFile, Emptied, PathsKnown, NothingYet
  <2> HIDE DEF p
  <2>2. << >> \in Seq(Chunk)
    OBVIOUS
  <2>3. file' \in [Paths -> Seq(Chunk) \cup {Absent}]
    BY <2>1, <2>2 DEF TypeOK
  <2>4. up' \in [Uploads -> [pc : UploadPC, path : Paths \cup {Outside}]]
    BY <2>1 DEF TypeOK, UploadPC
  <2>5. last' \in [Paths -> Uploads \cup {Absent}] /\ mixed' \subseteq Paths
    BY <2>1 DEF TypeOK
  <2>6. /\ NothingYet'
        /\ \A v \in Uploads :
             up'[v].pc \in {"fetching", "writing", "ok"} => up'[v].path \in Paths
    BY <2>1 DEF TypeOK, NothingYet, PathsKnown
  <2>7. WritersHaveFiles'
    BY <2>1, <2>2 DEF TypeOK, WritersHaveFiles, PathsKnown
  <2>8. LastOpened'
    BY <2>1 DEF TypeOK, LastOpened
  <2>9. LastAlone'
    <3> SUFFICES ASSUME NEW q \in Paths, NEW v \in Uploads, last'[q] = v, q \notin mixed'
                 PROVE  WritersOf(q)' \subseteq {v} /\ file'[q] = Whole(v)'
      BY DEF LastAlone
    <3>1. CASE q = p
      <4>1. v = u /\ WritersOf(p) = {} /\ file'[q] = << >>
        BY <2>1, <3>1 DEF TypeOK
      <4>2. WritersOf(q)' \subseteq {u}
        BY <2>1, <3>1, <4>1 DEF WritersOf, TypeOK
      <4>3. Whole(u)' = << >>
        BY <2>1 DEF Whole
      <4> QED
        BY <4>1, <4>2, <4>3
    <3>2. CASE q # p
      <4>1. last[q] = v /\ q \notin mixed /\ file'[q] = file[q]
        BY <2>1, <3>2 DEF TypeOK
      <4>2. WritersOf(q)' = WritersOf(q)
        BY <2>1, <3>2 DEF WritersOf, TypeOK
      <4>3. Whole(v)' = Whole(v)
        BY <2>1 DEF Whole
      <4> QED
        BY <4>1, <4>2, <4>3 DEF LastAlone
    <3> QED
      BY <3>1, <3>2
  <2> QED
    BY <2>1, <2>3, <2>4, <2>5, <2>6, <2>7, <2>8, <2>9, DownloadsKept DEF TypeOK
<1>5. CASE WriteChunk(u)
  <2> DEFINE p == up[u].path
             i == written[u] + 1
  <2>1. /\ p \in Paths /\ i \in 1 .. Chunks /\ up[u].pc = "writing"
        /\ up' = up
        /\ file' = [file EXCEPT ![p] = WriteAt(file[p], i, <<u, i>>)]
        /\ written' = [written EXCEPT ![u] = i]
        /\ UNCHANGED <<last, mixed, downloads>>
    BY <1>5 DEF WriteChunk, UploadAt, TypeOK, PathsKnown
  <2>2. written[u] \in Nat /\ file[p] \in Seq(Chunk)
    BY <2>1 DEF TypeOK, WritersHaveFiles
  <2>3. WriteAt(file[p], i, <<u, i>>) \in Seq(Chunk)
    <3>1. <<u, i>> \in Chunk /\ i \in Nat \ {0}
      BY <2>1, <2>2 DEF Chunk
    <3> QED
      BY <2>2, <3>1, WriteAtType
  <2> HIDE DEF p, i
  <2>4. file' \in [Paths -> Seq(Chunk) \cup {Absent}]
    BY <2>1, <2>3 DEF TypeOK
  <2>5. written' \in [Uploads -> 0 .. Chunks]
    BY <2>1 DEF TypeOK
  <2>6. NothingYet'
    BY <2>1 DEF TypeOK, NothingYet
  <2>7. WritersHaveFiles'
    BY <2>1, <2>3 DEF TypeOK, WritersHaveFiles, PathsKnown
  <2>8. LastOpened'
    BY <2>1 DEF TypeOK, LastOpened
  <2>9. LastAlone'
    <3> SUFFICES ASSUME NEW q \in Paths, NEW v \in Uploads, last[q] = v, q \notin mixed
                 PROVE  WritersOf(q)' \subseteq {v} /\ file'[q] = Whole(v)'
      BY <2>1 DEF LastAlone
    <3>1. WritersOf(q)' = WritersOf(q) /\ WritersOf(q) \subseteq {v}
      BY <2>1 DEF WritersOf, LastAlone
    <3>2. CASE v = u
      <4>1. q = p /\ file[p] = [k \in 1 .. written[u] |-> <<u, k>>]
        BY <3>2 DEF LastOpened, LastAlone, Whole, p
      <4>2. WriteAt(file[p], i, <<u, i>>) = [k \in 1 .. i |-> <<u, k>>]
        BY <2>2, <4>1, WriteAtWhole DEF i
      <4>3. file'[q] = WriteAt(file[p], i, <<u, i>>)
        BY <2>1, <4>1 DEF TypeOK
      <4>4. written'[u] = i
        BY <2>1 DEF TypeOK
      <4>5. Whole(v)' = [k \in 1 .. i |-> <<u, k>>]
        BY <3>2, <4>4 DEF Whole
      <4> QED
        BY <3>1, <4>2, <4>3, <4>5
    <3>3. CASE v # u
      <4>1. q # p
        BY <2>1, <3>1, <3>3 DEF WritersOf, p
      <4>2. Whole(v)' = Whole(v) /\ file'[q] = file[q]
        BY <2>1, <3>3, <4>1 DEF Whole, TypeOK
      <4> QED
        BY <3>1, <4>2 DEF LastAlone
    <3> QED
      BY <3>2, <3>3
  <2> QED
    BY <2>1, <2>4, <2>5, <2>6, <2>7, <2>8, <2>9, DownloadsKept DEF TypeOK, PathsKnown
<1>6. CASE UploadFails(u)
  <2>1. /\ up[u].pc \in {"fetching", "writing"}
        /\ up' = [up EXCEPT ![u] = [pc |-> "failed", path |-> Outside]]
        /\ written' = [written EXCEPT ![u] = 0]
        /\ last' = [q \in Paths |-> IF last[q] = u THEN Absent ELSE last[q]]
        /\ mixed' = {q \in mixed : last[q] # u}
        /\ UNCHANGED <<file, downloads>>
    BY <1>6 DEF UploadFails
  <2>2. /\ up' \in [Uploads -> [pc : UploadPC, path : Paths \cup {Outside}]]
        /\ written' \in [Uploads -> 0 .. Chunks]
        /\ last' \in [Paths -> Uploads \cup {Absent}] /\ mixed' \subseteq Paths
    BY <2>1 DEF TypeOK, UploadPC
  <2>3. /\ NothingYet' /\ WritersHaveFiles'
        /\ \A v \in Uploads :
             up'[v].pc \in {"fetching", "writing", "ok"} => up'[v].path \in Paths
    BY <2>1 DEF TypeOK, NothingYet, WritersHaveFiles, PathsKnown
  <2>4. LastOpened'
    BY <2>1 DEF TypeOK, LastOpened
  <2>5. LastAlone'
    <3> SUFFICES ASSUME NEW q \in Paths, NEW v \in Uploads, last'[q] = v, q \notin mixed'
                 PROVE  WritersOf(q)' \subseteq {v} /\ file'[q] = Whole(v)'
      BY DEF LastAlone
    <3>1. last[q] = v /\ v # u /\ q \notin mixed
      BY <2>1
    <3>2. WritersOf(q)' \subseteq WritersOf(q)
      BY <2>1 DEF WritersOf, TypeOK
    <3>3. Whole(v)' = Whole(v)
      BY <2>1, <3>1 DEF Whole, TypeOK
    <3> QED
      BY <2>1, <3>1, <3>2, <3>3 DEF LastAlone
  <2> QED
    BY <2>1, <2>2, <2>3, <2>4, <2>5, DownloadsKept DEF TypeOK
<1> QED
  BY <1>1, <1>2, <1>3, <1>4, <1>5, <1>6 DEF Upload

LEMMA CommandStep ==
  ASSUME FilesInv, NEW p \in Paths, CommandWrites(p)
  PROVE  FilesInv'
<1> USE AbsentAssumption DEF FilesInv
<1>1. /\ file' = [file EXCEPT ![p] = <<Other>>]
      /\ last' = [last EXCEPT ![p] = Absent]
      /\ mixed' = mixed \ {p}
      /\ UNCHANGED <<up, written, downloads>>
  BY DEF CommandWrites
<1>2. <<Other>> \in Seq(Chunk)
  BY DEF Chunk
<1>3. /\ file' \in [Paths -> Seq(Chunk) \cup {Absent}]
      /\ last' \in [Paths -> Uploads \cup {Absent}] /\ mixed' \subseteq Paths
  BY <1>1, <1>2 DEF TypeOK
<1>4. NothingYet' /\ LastOpened'
  BY <1>1 DEF TypeOK, NothingYet, LastOpened
<1>5. WritersHaveFiles'
  BY <1>1, <1>2 DEF TypeOK, WritersHaveFiles, PathsKnown
<1>6. LastAlone'
  <2> SUFFICES ASSUME NEW q \in Paths, NEW v \in Uploads, last'[q] = v, q \notin mixed'
               PROVE  WritersOf(q)' \subseteq {v} /\ file'[q] = Whole(v)'
    BY DEF LastAlone
  <2>1. q # p /\ last[q] = v /\ q \notin mixed /\ file'[q] = file[q]
    BY <1>1 DEF TypeOK
  <2>2. WritersOf(q)' = WritersOf(q) /\ Whole(v)' = Whole(v)
    BY <1>1 DEF WritersOf, Whole
  <2> QED
    BY <2>1, <2>2 DEF LastAlone
<1> QED
  BY <1>1, <1>3, <1>4, <1>5, <1>6, DownloadsKept DEF TypeOK, PathsKnown

LEMMA FilesStep == FilesInv /\ Next => FilesInv'
  BY UploadStep, DownloadStep, CommandStep DEF Next

-----------------------------------------------------------------------------
(* What a step of the sandbox does to the bucket                           *)

LEMMA StoredOnce ==
  ASSUME FilesInv, NEW d \in Downloads, Store(d)
  PROVE  /\ ~HasStored(d) /\ HasStored(d)'
         /\ \A e \in Downloads : ~HasStored(e) /\ HasStored(e)' => e = d
         /\ down'[d].path = down[d].path /\ down[d].path \in Paths
BY DEF FilesInv, TypeOK, RefusedSent, PathsKnown, Store, DownloadAt, HasStored

LEMMA NothingStored ==
  ASSUME FilesInv, Next, ~ \E d \in Downloads : Store(d)
  PROVE  UNCHANGED bucket /\ \A d \in Downloads : HasStored(d)' => HasStored(d)
<1> USE DEF FilesInv, TypeOK, HasStored
<1>1. CASE \E u \in Uploads : Upload(u)
  BY <1>1 DEF Upload, AcceptUpload, DenyUpload, OpenFile, WriteChunk,
              FinishUpload, UploadFails, downloads
<1>2. CASE \E d \in Downloads : Download(d)
  <2> PICK d \in Downloads : Download(d)
    BY <1>2
  <2>1. CASE AcceptDownload(d)
    BY <2>1 DEF AcceptDownload
  <2>2. CASE DenyDownload(d)
    BY <2>2 DEF DenyDownload, DownloadAt
  <2>3. CASE StoreRefused(d)
    BY <2>3 DEF StoreRefused, DownloadAt
  <2>4. CASE Link(d)
    BY <2>4 DEF Link, DownloadAt
  <2>5. CASE DownloadFails(d)
    BY <2>5 DEF DownloadFails
  <2> QED
    BY <2>1, <2>2, <2>3, <2>4, <2>5 DEF Download
<1>3. CASE \E p \in Paths : CommandWrites(p)
  BY <1>3 DEF CommandWrites, downloads
<1> QED
  BY <1>1, <1>2, <1>3 DEF Next

(* Either a copy is stored, and recorded, or bucket and history are left.  *)
LEMMA SandboxEffect ==
  ASSUME FilesInv, SandboxStep
  PROVE  \/ \E d \in Downloads : Store(d) /\ Stores(Base(down[d].path), d)
         \/ UNCHANGED <<bucket, history>> /\ ~ \E d \in Downloads : Store(d)
<1>1. CASE \E d \in Downloads : Store(d)
  <2> PICK d \in Downloads : Store(d)
    BY <1>1
  <2>1. ~HasStored(d) /\ HasStored(d)'
    BY StoredOnce
  <2>2. PICK e \in Downloads :
          ~HasStored(e) /\ HasStored(e)' /\ Stores(Base(down[e].path), e)
    BY <2>1 DEF SandboxStep
  <2>3. e = d
    BY <2>2, StoredOnce
  <2> QED
    BY <2>2, <2>3
<1>2. CASE ~ \E d \in Downloads : Store(d)
  BY <1>2, NothingStored DEF SandboxStep
<1> QED
  BY <1>1, <1>2

-----------------------------------------------------------------------------
(* The runner                                                              *)

LEMMA ConstantFacts ==
  /\ Contents = Downloads \cup Elsewhere \cup {Absent}
  /\ Elsewhere = Runs \cup Posts /\ Runs \cap Posts = {}
  /\ Downloads \cap Elsewhere = {}
  /\ Absent \notin Downloads \cup Elsewhere
  /\ Broken \notin Runs \cup {Absent}
  /\ Names = {Base(p) : p \in Paths}
BY ElsewhereAssumption, ElsewhereIsElsewhere, AbsentAssumption, BrokenAssumption
DEF Contents, Names

LEMMA RunnerTypes == RunnerInv /\ [RunnerNext]_allVars => FilesInv' /\ RunnerTypeOK'
<1> SUFFICES ASSUME RunnerInv, [RunnerNext]_allVars
             PROVE  FilesInv' /\ RunnerTypeOK'
  OBVIOUS
<1> USE DEF RunnerInv, RunnerTypeOK
<1>a. FilesInv' => TypeOK'
  BY DEF FilesInv
<1>b. bucket \in [Names -> Contents]
  BY DEF TypeOK, Contents
<1>1. CASE SandboxStep
  <2>1. FilesInv'
    BY <1>1, FilesStep DEF SandboxStep
  <2>2. newest' \in [Names -> Contents] /\ crossed' \subseteq Names /\ broke' \in BOOLEAN
    <3>1. CASE UNCHANGED history
      BY <3>1 DEF history
    <3>2. CASE \E d \in Downloads : Store(d) /\ Stores(Base(down[d].path), d)
      <4> PICK d \in Downloads : Store(d) /\ Stores(Base(down[d].path), d)
        BY <3>2
      <4>1. Base(down[d].path) \in Names /\ d \in Contents
        BY StoredOnce, ConstantFacts
      <4> QED
        BY <4>1 DEF Stores
    <3> QED
      BY <1>1, <3>1, <3>2, SandboxEffect
  <2> QED
    BY <1>1, <1>a, <2>1, <2>2 DEF SandboxStep, runner
<1>2. CASE \E p \in Posts : PostFile(p)
  <2> PICK p \in Posts, n \in Names :
        /\ bucket' = [bucket EXCEPT ![n] = p] /\ Stores(n, p)
        /\ post' = post \cup {p} /\ UNCHANGED <<sandbox, runner, pkl>>
    BY <1>2 DEF PostFile
  <2>1. p \in Contents
    BY ConstantFacts
  <2>2. FilesInv'
    BY <1>b, <2>1, FilesKept DEF Contents
  <2> QED
    BY <1>a, <2>1, <2>2 DEF Stores, runner
<1>3. ASSUME NEW r \in Runs, RunCode(r), ~ \E n \in Names : Put(r, n)
      PROVE  FilesInv' /\ RunnerTypeOK'
  <2>1. UNCHANGED <<bucket, sandbox>> /\ UNCHANGED <<post, newest, crossed>>
    BY <1>3 DEF RunCode, Begin, BeginFails, Get, Execute, PutState, Report,
                RunFails, vars, sandbox, uploads, downloads, history
  <2>2. FilesInv'
    BY <1>3, <1>b, <2>1, FilesKept DEF Contents
  <2>3. run' \in [Runs -> {"new", "getting", "putting", "answering", "ok",
                           "failed", "refused"}]
    BY <1>3 DEF RunCode, Begin, BeginFails, Get, Execute, PutState, Report,
                RunFails, RunAt
  <2>4. Absent \in Contents /\ r \in Contents /\ Nothing \in [Names -> Contents]
    BY ConstantFacts DEF Nothing
  <2>5. todo' \subseteq Names
    BY <1>3 DEF RunCode, Begin, BeginFails, Get, Execute, PutState, Report,
                RunFails, Removed
  <2>6. copy' \in [Names -> Contents]
    BY <1>3, <1>b, <2>4 DEF RunCode, Begin, BeginFails, Get, Execute, PutState, Report, RunFails, Removed
  <2>7. dump' \in Pickles /\ pkl' \in Pickles
    BY <1>3 DEF RunCode, Begin, BeginFails, Get, Execute, PutState, Report,
                RunFails, Removed, Pickles
  <2>8. cwd' \in {"home", "temp", "gone"} /\ broke' \in BOOLEAN
    BY <1>3 DEF RunCode, Begin, BeginFails, Get, Execute, PutState, Report,
                RunFails, Home, history
  <2> QED
    BY <1>a, <2>1, <2>2, <2>3, <2>5, <2>6, <2>7, <2>8
<1>4. ASSUME NEW r \in Runs, NEW n \in Names, Put(r, n)
      PROVE  FilesInv' /\ RunnerTypeOK'
  <2>1. FilesInv'
    BY <1>4, <1>b, FilesKept DEF Put, Contents
  <2>2. r \in Contents
    BY ConstantFacts
  <2> QED
    BY <1>4, <1>a, <2>1, <2>2 DEF Put, RunAt
<1>5. CASE Restart
  <2>1. FilesInv'
    BY <1>5, <1>b, FilesKept DEF Restart, vars, sandbox, uploads, downloads, Contents
  <2>2. Nothing \in [Names -> Contents]
    BY ConstantFacts DEF Nothing
  <2> QED
    BY <1>5, <1>a, <2>1, <2>2 DEF Restart, Removed, UnderWay, Pickles
<1>6. CASE UNCHANGED allVars
  <2>1. FilesInv'
    BY <1>6, <1>b, FilesKept DEF allVars, vars, sandbox, uploads, downloads, Contents
  <2> QED
    BY <1>6, <1>a, <2>1 DEF allVars, runner, history
<1> QED
  BY <1>1, <1>2, <1>3, <1>4, <1>5, <1>6 DEF RunnerNext

(* What the steps of others leave alone.                                   *)
LEMMA OthersLeave ==
  ASSUME SandboxStep \/ (\E p \in Posts : PostFile(p)) \/ UNCHANGED allVars
  PROVE  UNCHANGED <<run, todo, copy, dump, cwd, pkl>>
BY DEF SandboxStep, PostFile, runner, allVars

LEMMA StateStep ==
  RunnerInv /\ [RunnerNext]_allVars => OneUnderWay' /\ StateInv' /\ RefusedOnlyBroken'
<1> SUFFICES ASSUME RunnerInv, [RunnerNext]_allVars
             PROVE  OneUnderWay' /\ StateInv' /\ RefusedOnlyBroken'
  OBVIOUS
<1> USE DEF RunnerInv, RunnerTypeOK, OneUnderWay, StateInv, RefusedOnlyBroken, UnderWay
<1>1. CASE SandboxStep \/ (\E p \in Posts : PostFile(p)) \/ UNCHANGED allVars
  <2>1. UNCHANGED <<run, todo, copy, dump, cwd, pkl>> /\ (broke => broke')
    BY <1>1, OthersLeave, SandboxEffect
    DEF PostFile, Stores, history, allVars
  <2> QED
    BY <2>1
<1>2. ASSUME NEW r \in Runs, RunCode(r)
      PROVE  OneUnderWay' /\ StateInv' /\ RefusedOnlyBroken'
  <2> USE DEF RunAt
  <2>1. CASE Begin(r)
    BY <2>1 DEF Begin, history
  <2>2. CASE BeginFails(r)
    BY <2>2 DEF BeginFails, history
  <2>3. CASE \E n \in Names : Get(r, n)
    BY <2>3 DEF Get, history
  <2>4. CASE Execute(r)
    <3>1. dump' \in {r, Broken, dump}
      BY <2>4 DEF Execute
    <3> QED
      BY <2>4, <3>1, ConstantFacts DEF Execute, history
  <2>5. CASE \E n \in Names : Put(r, n)
    BY <2>5 DEF Put
  <2>6. CASE PutState(r)
    BY <2>6 DEF PutState, history
  <2>7. CASE Report(r)
    BY <2>7, ConstantFacts DEF Report, Removed, Home, history
  <2>8. CASE RunFails(r)
    BY <2>8, ConstantFacts DEF RunFails, Removed
  <2> QED
    BY <1>2, <2>1, <2>2, <2>3, <2>4, <2>5, <2>6, <2>7, <2>8 DEF RunCode
<1>3. CASE Restart
  BY <1>3, ConstantFacts DEF Restart, Removed
<1> QED
  BY <1>1, <1>2, <1>3 DEF RunnerNext

(* The bucket has the contents that were stored last, and the copy of what *)
(* will go back as it is.                                                  *)
LEMMA StoresNewest ==
  ASSUME RunnerInv, NEW n \in Names, NEW x, Stores(n, x),
         bucket' = [bucket EXCEPT ![n] = x],
         UNCHANGED <<run, todo, copy>>
  PROVE  HeldIsStored' /\ NewestKept'
<1> USE DEF RunnerInv, RunnerTypeOK, TypeOK
<1>1. Held' = Held /\ Held \subseteq Names
  BY DEF Held, UnderWay
<1>2. /\ newest' = [newest EXCEPT ![n] = x]
      /\ crossed' = IF n \in Held THEN crossed \cup {n} ELSE crossed \ {n}
  BY DEF Stores
<1>3. HeldIsStored'
  BY <1>1, <1>2 DEF HeldIsStored
<1>4. NewestKept'
  BY <1>1, <1>2 DEF NewestKept
<1> QED
  BY <1>3, <1>4

LEMMA NewestStep ==
  RunnerInv /\ [RunnerNext]_allVars => HeldIsStored' /\ NewestKept'
<1> SUFFICES ASSUME RunnerInv, [RunnerNext]_allVars
             PROVE  HeldIsStored' /\ NewestKept'
  OBVIOUS
<1> USE DEF RunnerInv
<1>1. ASSUME UNCHANGED <<run, todo, copy, bucket, newest, crossed>>
      PROVE  HeldIsStored' /\ NewestKept'
  BY <1>1 DEF HeldIsStored, NewestKept, Held, UnderWay
<1>2. CASE SandboxStep
  <2>1. UNCHANGED <<run, todo, copy>>
    BY <1>2, OthersLeave
  <2>2. CASE UNCHANGED <<bucket, history>>
    BY <1>1, <2>1, <2>2 DEF history
  <2>3. CASE \E d \in Downloads : Store(d) /\ Stores(Base(down[d].path), d)
    <3> PICK d \in Downloads : Store(d) /\ Stores(Base(down[d].path), d)
      BY <2>3
    <3>1. Base(down[d].path) \in Names
      BY StoredOnce, ConstantFacts
    <3> QED
      BY <2>1, <3>1, StoresNewest DEF Store
  <2> QED
    BY <1>2, <2>2, <2>3, SandboxEffect
<1>3. CASE \E p \in Posts : PostFile(p)
  <2>1. UNCHANGED <<run, todo, copy>>
    BY <1>3, OthersLeave
  <2> QED
    BY <1>3, <2>1, StoresNewest DEF PostFile
<1>4. ASSUME NEW r \in Runs, RunCode(r), ~ \E n \in Names : Put(r, n)
      PROVE  HeldIsStored' /\ NewestKept'
  <2>1. UNCHANGED <<bucket, newest, crossed>>
    BY <1>4 DEF RunCode, Begin, BeginFails, Get, Execute, PutState, Report,
                RunFails, vars, downloads, history
  <2>2. NewestKept'
    BY <2>1 DEF NewestKept
  <2>3. SUFFICES ASSUME NEW n \in Held', n \notin crossed
                 PROVE  copy'[n] = bucket[n]
    BY <2>1, <2>2 DEF HeldIsStored
  <2>4. PICK q \in Runs :
          /\ n \in Names /\ copy'[n] # Absent
          /\ \/ run'[q] = "getting" /\ n \notin todo'
             \/ run'[q] = "putting" /\ n \in todo' /\ copy'[n] # q
    BY <2>3 DEF Held, UnderWay
  <2> USE DEF RunnerTypeOK, RunAt
  <2>5. CASE Begin(r) \/ Report(r) \/ RunFails(r)
    BY <2>4, <2>5 DEF Begin, Report, RunFails, Removed, Nothing
  <2>6. CASE BeginFails(r) \/ PutState(r)
    <3>1. n \in Held /\ copy' = copy
      BY <2>4, <2>6 DEF Held, UnderWay, BeginFails, PutState
    <3> QED
      BY <2>3, <3>1 DEF HeldIsStored
  <2>7. CASE \E m \in Names : Get(r, m)
    <3> PICK m \in Names : Get(r, m)
      BY <2>7
    <3>1. CASE n = m
      BY <3>1 DEF Get
    <3>2. CASE n # m
      <4>1. n \in Held /\ copy'[n] = copy[n]
        BY <2>4, <3>2 DEF Held, UnderWay, Get
      <4> QED
        BY <2>3, <4>1 DEF HeldIsStored
    <3> QED
      BY <3>1, <3>2
  <2>8. CASE Execute(r)
    <3>1. run[r] = "getting" /\ todo = {} /\ run'[r] = "putting" /\ r \in UnderWay
      BY <2>8 DEF Execute, UnderWay
    <3>2. q = r
      BY <2>4, <2>8, <3>1 DEF Execute, OneUnderWay, UnderWay
    <3>3. copy'[n] = copy[n]
      BY <2>4, <2>8, <3>1, <3>2 DEF Execute
    <3>4. n \in Held
      BY <2>4, <3>1, <3>3 DEF Held
    <3> QED
      BY <2>3, <3>3, <3>4 DEF HeldIsStored
  <2> QED
    BY <1>4, <2>5, <2>6, <2>7, <2>8 DEF RunCode
<1>5. ASSUME NEW r \in Runs, NEW n \in Names, Put(r, n)
      PROVE  HeldIsStored' /\ NewestKept'
  <2> USE DEF RunnerTypeOK, TypeOK
  <2>1. /\ run[r] = "putting" /\ run' = run /\ copy' = copy /\ n \in todo
        /\ todo' = todo \ {n}
        /\ bucket' = [bucket EXCEPT ![n] = copy[n]]
        /\ IF copy[n] = r
             THEN newest' = [newest EXCEPT ![n] = r] /\ crossed' = crossed \ {n}
             ELSE UNCHANGED <<newest, crossed>>
    BY <1>5 DEF Put, RunAt
  <2>2. \A q \in UnderWay : q = r
    BY <2>1 DEF OneUnderWay, UnderWay
  <2>3. Held' \subseteq Held \ {n}
    BY <2>1, <2>2 DEF Held, UnderWay
  <2>4. HeldIsStored'
    BY <2>1, <2>3 DEF HeldIsStored, Held
  <2>5. NewestKept'
    <3>1. CASE copy[n] = r
      BY <2>1, <3>1 DEF NewestKept
    <3>2. CASE copy[n] # r
      <4>1. n \in Held
        BY <2>1, <3>2 DEF Held, UnderWay, StateInv
      <4> QED
        BY <2>1, <3>2, <4>1 DEF NewestKept, HeldIsStored
    <3> QED
      BY <3>1, <3>2
  <2> QED
    BY <2>4, <2>5
<1>6. CASE Restart
  BY <1>6 DEF Restart, Removed, Nothing, HeldIsStored, NewestKept, Held, vars, downloads
<1>7. CASE UNCHANGED allVars
  BY <1>1, <1>7 DEF allVars, vars, downloads, runner, history
<1> QED
  BY <1>2, <1>3, <1>4, <1>5, <1>6, <1>7 DEF RunnerNext

-----------------------------------------------------------------------------
(* What was there when a download began                                    *)

(* A download that is not stored in this step keeps what it has, is over,  *)
(* or begins.                                                              *)
LEMMA DownloadsMove ==
  ASSUME FilesInv, Next, NEW d \in Downloads, ~Store(d)
  PROVE  /\ down'[d].pc \in {"new", "asking"} => down[d].pc \in {"new", "asking"}
         /\ d \in Stored' => d \in Stored
         /\ \/ /\ before'[d] \subseteq before[d]
               /\ Begun(d)' => Begun(d) /\ down'[d].path = down[d].path
            \/ /\ down'[d].pc = "asking" /\ down'[d].path \in Paths
               /\ before'[d] \subseteq Stored \cup {bucket[Base(down'[d].path)]}
<1> USE DEF FilesInv, TypeOK, Stored, Begun
<1>1. CASE ~Download(d)
  <2>1. /\ down'[d] = down[d] /\ before'[d] = before[d]
        /\ d \in refused' <=> d \in refused
    <3>1. CASE \E u \in Uploads : Upload(u)
      BY <3>1 DEF Upload, AcceptUpload, DenyUpload, OpenFile, WriteChunk,
                  FinishUpload, UploadFails, downloads
    <3>2. CASE \E e \in Downloads : Download(e)
      <4> PICK e \in Downloads : Download(e) /\ e # d
        BY <1>1, <3>2
      <4> QED
        BY DEF Download, AcceptDownload, DenyDownload, Store, StoreRefused,
               Link, DownloadFails, DownloadAt
    <3>3. CASE \E p \in Paths : CommandWrites(p)
      BY <3>3 DEF CommandWrites, downloads
    <3> QED
      BY <3>1, <3>2, <3>3 DEF Next
  <2> QED
    BY <2>1
<1>2. CASE AcceptDownload(d)
  <2>1. PICK p \in Paths :
          /\ down' = [down EXCEPT ![d] = [pc |-> "asking", path |-> p]]
          /\ before' = [before EXCEPT ![d] = (Stored \cup {bucket[Base(p)]}) \ {Absent}]
    BY <1>2 DEF AcceptDownload
  <2>2. /\ down'[d] = [pc |-> "asking", path |-> p]
        /\ before'[d] = (Stored \cup {bucket[Base(p)]}) \ {Absent}
    BY <2>1
  <2> QED
    BY <1>2, <2>2 DEF AcceptDownload
<1>3. CASE DenyDownload(d)
  BY <1>3 DEF DenyDownload, DownloadAt
<1>4. CASE StoreRefused(d)
  BY <1>4 DEF StoreRefused, DownloadAt
<1>5. CASE Link(d)
  BY <1>5 DEF Link, DownloadAt
<1>6. CASE DownloadFails(d)
  BY <1>6 DEF DownloadFails
<1> QED
  BY <1>1, <1>2, <1>3, <1>4, <1>5, <1>6 DEF Download

(* Contents that were nowhere are nowhere, if they have not been stored.   *)
LEMMA StillUnseen ==
  ASSUME NEW x, Unseen(x),
         \A n \in Names : bucket'[n] # bucket[n] => bucket'[n] # x,
         \A n \in Names : copy'[n] # copy[n] => copy'[n] # x,
         UNCHANGED before
  PROVE  Unseen(x)'
BY DEF Unseen

(* Somebody who is no run stores contents that were nowhere.               *)
LEMMA StoresUnseen ==
  ASSUME RunnerInv, NEW n \in Names, NEW x \in Downloads \cup Posts, Unseen(x),
         bucket' = [bucket EXCEPT ![n] = x], Stores(n, x),
         UNCHANGED <<run, todo, copy, before>>,
         \A d \in Downloads :
           /\ Begun(d)' => Begun(d)
           /\ down'[d].path = down[d].path
           /\ down'[d].pc \in {"new", "asking"} => d # x /\ down[d].pc \in {"new", "asking"}
           /\ d \in Stored' => d \in Stored \/ (d = x /\ Base(down[d].path) = n),
         post' = IF x \in Posts THEN post \cup {x} ELSE post
  PROVE  FirstSeen' /\ ChangedOnce' /\ NewestIsNewer'
<1> USE ConstantFacts DEF RunnerInv, RunnerTypeOK, FilesInv, TypeOK
<1>1. \A y : y # x /\ Unseen(y) => Unseen(y)'
  BY StillUnseen
<1>2. FirstSeen'
  <2>1. \A d \in Downloads : down'[d].pc \in {"new", "asking"} => Unseen(d)'
    BY <1>1 DEF FirstSeen
  <2>2. \A p \in Posts \ post' : p # x /\ Unseen(p)
    BY DEF FirstSeen
  <2>3. \A r \in Runs : run[r] \in {"new", "getting"} => r # x /\ Unseen(r)
    BY DEF FirstSeen
  <2> QED
    BY <1>1, <2>1, <2>2, <2>3 DEF FirstSeen
<1>3. ChangedOnce'
  <2> SUFFICES ASSUME NEW r \in Runs, NEW m \in todo, run[r] = "putting", copy[m] = r
               PROVE  /\ bucket'[m] # r
                      /\ \A d \in Downloads :
                           Begun(d)' /\ Base(down'[d].path) = m => r \notin before'[d]
    BY DEF ChangedOnce
  <2>1. r # x /\ m \in Names
    OBVIOUS
  <2> QED
    BY <2>1 DEF ChangedOnce
<1>4. NewestIsNewer'
  <2> SUFFICES ASSUME NEW d \in Downloads, d \in Stored'
               PROVE  newest'[Base(down'[d].path)] \notin before'[d] \cup {Absent}
    BY DEF NewestIsNewer, Stored
  <2>1. newest' = [newest EXCEPT ![n] = x]
    BY DEF Stores
  <2>2. CASE Base(down[d].path) = n
    BY <2>1, <2>2 DEF Unseen
  <2>3. CASE Base(down[d].path) # n
    BY <2>1, <2>3 DEF NewestIsNewer
  <2> QED
    BY <2>2, <2>3
<1> QED
  BY <1>2, <1>3, <1>4

LEMMA NewerSandbox ==
  ASSUME RunnerInv, SandboxStep
  PROVE  FirstSeen' /\ ChangedOnce' /\ NewestIsNewer'
<1> USE ConstantFacts DEF RunnerInv, RunnerTypeOK
<1>1. UNCHANGED <<run, todo, copy, post>>
  BY DEF SandboxStep, runner
<1>2. CASE \E d \in Downloads : Store(d) /\ Stores(Base(down[d].path), d)
  <2> PICK d \in Downloads : Store(d) /\ Stores(Base(down[d].path), d)
    BY <1>2
  <2>1. /\ down[d].pc = "asking" /\ down[d].path \in Paths
        /\ down' = [down EXCEPT ![d].pc = "linking"]
        /\ UNCHANGED <<before, refused>>
        /\ bucket' = [bucket EXCEPT ![Base(down[d].path)] = d]
    BY DEF Store, DownloadAt, FilesInv, PathsKnown
  <2>2. Unseen(d) /\ Base(down[d].path) \in Names
    BY <2>1 DEF FirstSeen
  <2>3. \A e \in Downloads :
          /\ Begun(e)' => Begun(e)
          /\ down'[e].path = down[e].path
          /\ down'[e].pc \in {"new", "asking"} => e # d /\ down[e].pc \in {"new", "asking"}
          /\ e \in Stored' => e \in Stored \/ e = d
    BY <2>1 DEF FilesInv, TypeOK, Begun, Stored
  <2> QED
    BY <1>1, <2>1, <2>2, <2>3, StoresUnseen
<1>3. CASE UNCHANGED <<bucket, history>> /\ ~ \E d \in Downloads : Store(d)
  <2>1. FilesInv /\ Next /\ \A d \in Downloads : ~Store(d)
    BY <1>3 DEF SandboxStep
  <2>2. UNCHANGED newest
    BY <1>3 DEF history
  <2>3. ASSUME NEW x, Unseen(x), x \notin Stored
        PROVE  Unseen(x)'
    BY <1>1, <1>3, <2>1, <2>3, DownloadsMove DEF Unseen
  <2>4. FirstSeen'
    <3>1. \A d \in Downloads : down'[d].pc \in {"new", "asking"} => Unseen(d) /\ d \notin Stored
      BY <2>1, DownloadsMove DEF FirstSeen, Stored
    <3>2. \A x \in Posts \cup Runs : x \notin Stored
      BY DEF Stored
    <3> QED
      BY <1>1, <2>3, <3>1, <3>2 DEF FirstSeen
  <2>5. ChangedOnce'
    <3> SUFFICES ASSUME NEW r \in Runs, NEW n \in todo, run[r] = "putting", copy[n] = r
                 PROVE  /\ bucket[n] # r
                        /\ \A d \in Downloads :
                             Begun(d)' /\ Base(down'[d].path) = n => r \notin before'[d]
      BY <1>1, <1>3 DEF ChangedOnce
    <3>1. r \notin Stored
      BY DEF Stored
    <3> QED
      BY <2>1, <3>1, DownloadsMove DEF ChangedOnce
  <2>6. NewestIsNewer'
    <3> SUFFICES ASSUME NEW d \in Downloads, d \in Stored'
                 PROVE  newest[Base(down'[d].path)] \notin before'[d] \cup {Absent}
      BY <2>2 DEF NewestIsNewer, Stored
    <3>1. d \in Stored /\ before'[d] \subseteq before[d] /\ down'[d].path = down[d].path
      BY <2>1, DownloadsMove DEF Stored, Begun
    <3> QED
      BY <3>1 DEF NewestIsNewer
  <2> QED
    BY <2>4, <2>5, <2>6
<1> QED
  BY <1>2, <1>3, SandboxEffect

LEMMA NewerPost ==
  ASSUME RunnerInv, NEW p \in Posts, PostFile(p)
  PROVE  FirstSeen' /\ ChangedOnce' /\ NewestIsNewer'
<1>1. PICK n \in Names : bucket' = [bucket EXCEPT ![n] = p] /\ Stores(n, p)
  BY DEF PostFile
<1>2. /\ p \notin post /\ post' = post \cup {p}
      /\ UNCHANGED <<down, refused, before, run, todo, copy>>
  BY DEF PostFile, sandbox, runner
<1>3. Unseen(p) /\ p \notin Downloads
  BY <1>2, ConstantFacts DEF RunnerInv, FirstSeen
<1>4. \A d \in Downloads :
        /\ Begun(d)' => Begun(d)
        /\ down'[d].path = down[d].path
        /\ down'[d].pc \in {"new", "asking"} => d # p /\ down[d].pc \in {"new", "asking"}
        /\ d \in Stored' => d \in Stored
  BY <1>2, <1>3 DEF Begun, Stored
<1> QED
  BY <1>1, <1>2, <1>3, <1>4, StoresUnseen

LEMMA NewerRun ==
  ASSUME RunnerInv, NEW r \in Runs, RunCode(r)
  PROVE  FirstSeen' /\ ChangedOnce' /\ NewestIsNewer'
<1> USE ConstantFacts DEF RunnerInv, RunnerTypeOK, TypeOK, RunAt
<1>1. UNCHANGED <<down, refused, before, post>>
  BY DEF RunCode, Begin, BeginFails, Get, Execute, Put, PutState, Report,
         RunFails, vars, downloads, sandbox
<1>2. \A q \in Runs : run'[q] \in {"new", "getting"} => run[q] \in {"new", "getting"}
  <2>1. run' = [run EXCEPT ![r] = run'[r]]
    BY DEF RunCode, Begin, BeginFails, Get, Execute, Put, PutState, Report, RunFails
  <2>2. run'[r] \in {"new", "getting"} => run[r] \in {"new", "getting"}
    <3>1. CASE RunFails(r)
      BY <3>1 DEF RunFails
    <3>2. CASE Begin(r) \/ BeginFails(r) \/ Execute(r) \/ PutState(r) \/ Report(r)
      BY <3>2 DEF Begin, BeginFails, Execute, PutState, Report
    <3>3. CASE \E n \in Names : Get(r, n) \/ Put(r, n)
      BY <3>3 DEF Get, Put
    <3> QED
      BY <3>1, <3>2, <3>3 DEF RunCode
  <2> QED
    BY <2>1, <2>2
<1>3. ASSUME \A x \in Downloads \cup Posts : Unseen(x) => Unseen(x)',
             \A q \in Runs :
               run'[q] \in {"new", "getting"} /\ Unseen(q) => Unseen(q)'
      PROVE  FirstSeen'
  <2>1. \A d \in Downloads : down'[d].pc \in {"new", "asking"} => Unseen(d)'
    <3> TAKE d \in Downloads
    <3>1. down'[d].pc \in {"new", "asking"} => Unseen(d)
      BY <1>1 DEF FirstSeen
    <3> QED
      BY <1>3, <3>1
  <2>2. \A p \in Posts \ post' : Unseen(p)'
    <3> TAKE p \in Posts \ post'
    <3>1. Unseen(p)
      BY <1>1 DEF FirstSeen
    <3> QED
      BY <1>3, <3>1
  <2>3. \A q \in Runs : run'[q] \in {"new", "getting"} => Unseen(q)'
    BY <1>2, <1>3 DEF FirstSeen
  <2> QED
    BY <2>1, <2>2, <2>3 DEF FirstSeen
<1>4. ASSUME UNCHANGED newest
      PROVE  NewestIsNewer'
  BY <1>1, <1>4 DEF NewestIsNewer, Stored
<1>5. CASE Begin(r) \/ BeginFails(r) \/ PutState(r) \/ Report(r) \/ RunFails(r)
  <2>1. /\ UNCHANGED <<bucket, newest>>
        /\ \A n \in Names : copy'[n] # copy[n] => copy'[n] = Absent
    BY <1>5 DEF Begin, BeginFails, PutState, Report, RunFails, Removed, Nothing,
                vars, downloads, history
  <2>2. FirstSeen'
    BY <1>1, <1>3, <2>1, StillUnseen, ZenonT(30)
  <2>3. ChangedOnce'
    <3>1. \A q \in Runs : run'[q] = "putting" =>
            run[q] = "putting" /\ (Begin(r) \/ BeginFails(r))
      BY <1>5 DEF Begin, BeginFails, PutState, Report, RunFails, OneUnderWay, UnderWay
    <3>2. \A q \in Runs : run'[q] # "putting"
      BY <1>5, <3>1 DEF Begin, BeginFails, UnderWay
    <3> QED
      BY <3>2 DEF ChangedOnce
  <2> QED
    BY <1>4, <2>1, <2>2, <2>3
<1>6. CASE \E n \in Names : Get(r, n)
  <2> PICK n \in Names : Get(r, n)
    BY <1>6
  <2>1. /\ UNCHANGED <<bucket, newest, run>> /\ run[r] = "getting"
        /\ copy' = [copy EXCEPT ![n] = bucket[n]]
    BY DEF Get, vars, downloads, history
  <2>2. \A x : Unseen(x) => Unseen(x)'
    BY <1>1, <2>1 DEF Unseen
  <2>3. \A q \in Runs : run'[q] # "putting"
    BY <2>1 DEF OneUnderWay, UnderWay
  <2> QED
    BY <1>3, <1>4, <2>1, <2>2, <2>3 DEF ChangedOnce
<1>7. CASE Execute(r)
  <2>1. /\ UNCHANGED <<bucket, newest>> /\ run[r] = "getting" /\ run'[r] = "putting"
        /\ \A n \in Names : copy'[n] # copy[n] => copy'[n] \in {r, Absent}
    BY <1>7 DEF Execute, vars, downloads, history
  <2>2. \A x : x # r /\ x # Absent /\ Unseen(x) => Unseen(x)'
    BY <1>1, <2>1, StillUnseen
  <2>3. FirstSeen'
    BY <1>3, <2>1, <2>2, ZenonT(30)
  <2>4. Unseen(r)
    BY <2>1 DEF FirstSeen
  <2>5. \A q \in Runs : run'[q] = "putting" => q = r
    BY <1>7, <2>1 DEF Execute, OneUnderWay, UnderWay
  <2>6. ChangedOnce'
    <3> SUFFICES ASSUME NEW n \in todo'
                 PROVE  /\ bucket'[n] # r
                        /\ \A d \in Downloads : r \notin before'[d]
      BY <2>5 DEF ChangedOnce
    <3>1. n \in Names
      BY <1>7 DEF Execute
    <3> QED
      BY <1>1, <2>1, <2>4, <3>1 DEF Unseen
  <2> QED
    BY <1>4, <2>1, <2>3, <2>6
<1>8. CASE \E n \in Names : Put(r, n)
  <2> PICK n \in Names : Put(r, n)
    BY <1>8
  <2>1. /\ run[r] = "putting" /\ UNCHANGED <<run, copy>> /\ n \in todo
        /\ todo' = todo \ {n}
        /\ bucket' = [bucket EXCEPT ![n] = copy[n]]
        /\ IF copy[n] = r THEN newest' = [newest EXCEPT ![n] = r] ELSE UNCHANGED newest
    BY DEF Put
  <2>2. \A x : Unseen(x) => Unseen(x)'
    BY <1>1, <2>1 DEF Unseen
  <2>3. FirstSeen'
    BY <1>3, <2>2
  <2>4. ChangedOnce'
    BY <1>1, <2>1 DEF ChangedOnce, Begun
  <2>5. NewestIsNewer'
    <3>1. CASE copy[n] = r
      <4> SUFFICES ASSUME NEW d \in Stored
                   PROVE  newest'[Base(down[d].path)] \notin before[d] \cup {Absent}
        BY <1>1 DEF NewestIsNewer, Stored
      <4>1. Begun(d) /\ d \in Downloads
        BY DEF Stored, Begun
      <4>2. CASE Base(down[d].path) = n
        BY <2>1, <3>1, <4>1, <4>2, SMTT(30) DEF ChangedOnce
      <4>3. CASE Base(down[d].path) # n
        <5>1. Base(down[d].path) \in Names
          BY <4>1 DEF FilesInv, PathsKnown, Begun, Names
        <5>2. newest'[Base(down[d].path)] = newest[Base(down[d].path)]
          BY <2>1, <3>1, <4>3, <5>1
        <5> QED
          BY <5>2 DEF NewestIsNewer
      <4> QED
        BY <4>2, <4>3
    <3>2. CASE copy[n] # r
      BY <1>4, <2>1, <3>2
    <3> QED
      BY <3>1, <3>2
  <2> QED
    BY <2>3, <2>4, <2>5
<1> QED
  BY <1>5, <1>6, <1>7, <1>8 DEF RunCode

LEMMA NewerStep ==
  RunnerInv /\ [RunnerNext]_allVars => FirstSeen' /\ ChangedOnce' /\ NewestIsNewer'
<1> SUFFICES ASSUME RunnerInv, [RunnerNext]_allVars
             PROVE  FirstSeen' /\ ChangedOnce' /\ NewestIsNewer'
  OBVIOUS
<1>1. CASE SandboxStep
  BY <1>1, NewerSandbox
<1>2. CASE \E p \in Posts : PostFile(p)
  BY <1>2, NewerPost
<1>3. CASE \E r \in Runs : RunCode(r)
  BY <1>3, NewerRun
<1>4. CASE Restart
  <2> USE ConstantFacts DEF RunnerInv
  <2>1. /\ UNCHANGED <<bucket, down, refused, before, post, newest>>
        /\ copy' = Nothing /\ todo' = {}
        /\ \A r \in Runs : run'[r] \in {"new", "getting"} => run[r] \in {"new", "getting"}
    BY <1>4 DEF Restart, Removed, vars, downloads, RunnerTypeOK
  <2>2. \A x : x # Absent /\ Unseen(x) => Unseen(x)'
    BY <2>1 DEF Unseen, Nothing
  <2>3. FirstSeen'
    BY <2>1, <2>2 DEF FirstSeen
  <2>4. ChangedOnce' /\ NewestIsNewer'
    BY <2>1 DEF ChangedOnce, NewestIsNewer, Stored
  <2> QED
    BY <2>3, <2>4
<1>5. CASE UNCHANGED allVars
  BY <1>5 DEF RunnerInv, allVars, vars, downloads, runner, history, FirstSeen, Unseen,
              ChangedOnce, NewestIsNewer, Stored, Begun
<1> QED
  BY <1>1, <1>2, <1>3, <1>4, <1>5 DEF RunnerNext

-----------------------------------------------------------------------------
(* The invariant, and what follows from it                                 *)

(* At the start nothing is stored, copied or under way.                    *)
LEMMA RunnerStart == RunnerInit => RunnerInv
<1> SUFFICES ASSUME RunnerInit
             PROVE  RunnerInv
  OBVIOUS
<1> USE ConstantFacts DEF RunnerInit, Init, Nothing
<1>1. TypeOK
  BY ChunksAssumption DEF TypeOK, UploadPC, DownloadPC
<1>2. FilesInv
  BY <1>1, AbsentAssumption DEF FilesInv, PathsKnown, NothingYet, WritersHaveFiles,
              LastOpened, LastAlone, RefusedSent
<1>3. RunnerTypeOK
  BY <1>1 DEF RunnerTypeOK, Contents, Pickles
<1>4. OneUnderWay /\ StateInv /\ RefusedOnlyBroken
  BY DEF OneUnderWay, StateInv, RefusedOnlyBroken, UnderWay
<1>5. HeldIsStored /\ NewestKept
  BY DEF HeldIsStored, Held, NewestKept
<1>6. FirstSeen /\ ChangedOnce /\ NewestIsNewer
  BY AbsentAssumption DEF FirstSeen, Unseen, ChangedOnce, NewestIsNewer, Stored
<1> QED
  BY <1>2, <1>3, <1>4, <1>5, <1>6 DEF RunnerInv

(* Every step keeps it.                                                    *)
LEMMA RunnerStep == RunnerInv /\ [RunnerNext]_allVars => RunnerInv'
BY RunnerTypes, StateStep, NewestStep, NewerStep DEF RunnerInv

(* The whole of it holds of everybody who writes the session's files: the  *)
(* sandbox's downloads, the bucket service and the code runner.            *)
THEOREM RunnerInvariance == RunnerSpec => []RunnerInv
BY RunnerStart, RunnerStep, PTL DEF RunnerSpec

(* The variables of upload_file, download_file and run_code keep their     *)
(* types; no file has anything but chunks of what a link has served.       *)
THEOREM RunnerTypeCorrect == RunnerSpec => []RunnerTypeOK
<1>1. RunnerInv => RunnerTypeOK
  BY DEF RunnerInv
<1> QED
  BY <1>1, RunnerInvariance, PTL

(* upload_file: the file of a successful upload is all that its link       *)
(* served, however many uploads, whatever their order.                     *)
THEOREM UploadsAlwaysWhole == RunnerSpec => []UploadWhole
<1>1. RunnerInv => UploadWhole
  BY DEF RunnerInv, FilesInv, LastAlone, UploadWhole
<1> QED
  BY <1>1, RunnerInvariance, PTL

(* run_code puts back what it got: nothing that was stored last is lost,   *)
(* unless it came while a run held an older copy of the same name.         *)
THEOREM NewestAlwaysKept == RunnerSpec => []NewestKept
<1>1. RunnerInv => NewestKept
  BY DEF RunnerInv
<1> QED
  BY <1>1, RunnerInvariance, PTL

(* download_file: the link never leads to what was stored before the       *)
(* request, unless the copy was refused or a run held an older one.        *)
THEOREM CopiesNeverOlder == RunnerSpec => []CopyNotOlder
<1>1. RunnerInv => CopyNotOlder
  <2> SUFFICES ASSUME RunnerInv, NEW d \in Downloads,
                      down[d].pc = "ok", d \notin refused,
                      Base(down[d].path) \notin crossed
               PROVE  bucket[Base(down[d].path)] \notin before[d] \cup {Absent}
    BY DEF CopyNotOlder
  <2>1. d \in Stored
    BY DEF Stored
  <2>2. Base(down[d].path) \in Names
    BY DEF RunnerInv, FilesInv, PathsKnown, Names
  <2> QED
    BY <2>1, <2>2 DEF RunnerInv, NewestKept, NewestIsNewer
<1> QED
  BY <1>1, RunnerInvariance, PTL

(* run_code stores pkl_dir after all of file_dir: a run whose state is in  *)
(* the bucket has no changed file that is still to be put back.            *)
THEOREM StateAlwaysAfterFiles == RunnerSpec => []StateAfterFiles
<1>1. RunnerInv => StateAfterFiles
  BY DEF RunnerInv, StateInv, StateAfterFiles, UnderWay
<1> QED
  BY <1>1, RunnerInvariance, PTL

(* run_code refuses for the directory it stands in only after something    *)
(* has raised behind its chdir, in the same process.                       *)
THEOREM RefusedOnlyWhenBroken == RunnerSpec => []RefusedOnlyBroken
<1>1. RunnerInv => RefusedOnlyBroken
  BY DEF RunnerInv
<1> QED
  BY <1>1, RunnerInvariance, PTL
=============================================================================
