---------------------------- MODULE SandboxFiles ----------------------------
(***************************************************************************)
(* POST /upload and GET /download of the sandbox runtime.  An upload names *)
(* a link whose contents are streamed into a file; a download copies a     *)
(* file into the session's part of the bucket and answers with a link to   *)
(* the copy.  All handlers run on one event loop: a step is what runs      *)
(* between two awaits.                                                     *)
(*                                                                         *)
(* The contents of a file are a sequence of chunks.  A chunk of an upload  *)
(* is the pair of the request and its position in what the link serves.    *)
(***************************************************************************)
EXTENDS Naturals, Sequences

CONSTANTS Uploads, Downloads,   \* requests
          Paths,                \* paths below the base directory
          Outside,              \* a path that leaves it
          Base(_),              \* the last component of a path
          Chunks,               \* bounds the chunks a link serves
          Elsewhere,            \* contents that others store in the bucket
          Absent, Other         \* no file; bytes that no upload wrote

ASSUME OutsideAssumption == Outside \notin Paths
ASSUME AbsentAssumption ==
  Absent \notin Uploads \cup Downloads \cup Elsewhere
ASSUME ElsewhereIsElsewhere == Downloads \cap Elsewhere = {}
ASSUME ChunksAssumption == Chunks \in Nat

VARIABLES
  file,     \* file[p]: contents of path p, or Absent
  bucket,   \* bucket[n]: contents of object n: the download that stored it,
            \* something from elsewhere, or Absent
  up,       \* up[u]: where upload u is, and its path
  written,  \* written[u]: the chunks that u has got and written
  down,     \* down[d]: where download d is, and its path
  refused,  \* downloads whose copy the bucket did not take
  last,     \* history: the upload that opened p last, unless it failed
  mixed,    \* history: paths that it opened while another wrote
  before    \* history: before[d]: contents that were stored, under its name or
            \* by another download, when d began

uploads == <<up, written, last, mixed>>
downloads == <<bucket, down, refused, before>>
vars == <<file, uploads, downloads>>

Names == {Base(p) : p \in Paths}
Chunk == (Uploads \X (1 .. Chunks)) \cup {Other}

(* "failed": answered with 403, 404 or 500.                                *)
UploadPC == {"new", "fetching", "writing", "ok", "failed"}
DownloadPC == {"new", "asking", "linking", "ok", "failed"}

TypeOK ==
  /\ file \in [Paths -> Seq(Chunk) \cup {Absent}]
  /\ bucket \in [Names -> Downloads \cup Elsewhere \cup {Absent}]
  /\ up \in [Uploads -> [pc : UploadPC, path : Paths \cup {Outside}]]
  /\ written \in [Uploads -> 0 .. Chunks]
  /\ down \in [Downloads -> [pc : DownloadPC, path : Paths \cup {Outside}]]
  /\ refused \subseteq Downloads
  /\ last \in [Paths -> Uploads \cup {Absent}]
  /\ mixed \subseteq Paths
  /\ before \in [Downloads -> SUBSET (Downloads \cup Elsewhere)]

Init ==
  /\ file = [p \in Paths |-> Absent]
  /\ bucket = [n \in Names |-> Absent]
  /\ up = [u \in Uploads |-> [pc |-> "new", path |-> Outside]]
  /\ written = [u \in Uploads |-> 0]
  /\ down = [d \in Downloads |-> [pc |-> "new", path |-> Outside]]
  /\ refused = {}
  /\ last = [p \in Paths |-> Absent] /\ mixed = {}
  /\ before = [d \in Downloads |-> {}]

-----------------------------------------------------------------------------
(* upload_file: get_safe_path, then the directories and the body of the    *)
(* request.                                                                *)
UploadAt(u, this, next) ==
  /\ up[u].pc = this
  /\ up' = [up EXCEPT ![u].pc = next]

AcceptUpload(u) ==
  /\ up[u].pc = "new"
  /\ \E p \in Paths : up' = [up EXCEPT ![u] = [pc |-> "fetching", path |-> p]]
  /\ UNCHANGED <<file, written, last, mixed, downloads>>

DenyUpload(u) ==
  /\ UploadAt(u, "new", "failed")
  /\ UNCHANGED <<file, written, last, mixed, downloads>>

WritersOf(p) == {u \in Uploads : up[u].pc = "writing" /\ up[u].path = p}

(* What open finds in the file it is to write: "wb" empties it.  (Faulty   *)
(* variant: what was there stays until it is overwritten.)                 *)
Kept(p) == IF file[p] = Absent THEN << >> ELSE file[p]
Emptied(p) == << >>

(* The link has answered; whatever its status, its body goes to the file.  *)
OpenFile(u) ==
  LET p == up[u].path IN
  /\ UploadAt(u, "fetching", "writing")
  /\ file' = [file EXCEPT ![p] = Emptied(p)]
  /\ last' = [last EXCEPT ![p] = u]
  /\ mixed' = IF WritersOf(p) = {} THEN mixed \ {p} ELSE mixed \cup {p}
  /\ UNCHANGED <<written, downloads>>

(* Contents s with x at position i.  A file that somebody else has emptied *)
(* meanwhile gets a hole.                                                  *)
WriteAt(s, i, x) ==
  [k \in 1 .. (IF i > Len(s) THEN i ELSE Len(s)) |->
     IF k = i THEN x ELSE IF k \in DOMAIN s THEN s[k] ELSE Other]

(* The link serves one chunk more.                                         *)
WriteChunk(u) ==
  LET p == up[u].path
      i == written[u] + 1
  IN
  /\ written[u] < Chunks
  /\ UploadAt(u, "writing", "writing")
  /\ file' = [file EXCEPT ![p] = WriteAt(@, i, <<u, i>>)]
  /\ written' = [written EXCEPT ![u] = i]
  /\ UNCHANGED <<last, mixed, downloads>>

FinishUpload(u) ==
  /\ UploadAt(u, "writing", "ok")
  /\ UNCHANGED <<file, written, last, mixed, downloads>>

(* A directory, the body, the link or the disk fails: 500, and what was    *)
(* written stays.                                                          *)
UploadFails(u) ==
  /\ up[u].pc \in {"fetching", "writing"}
  /\ up' = [up EXCEPT ![u] = [pc |-> "failed", path |-> Outside]]
  /\ written' = [written EXCEPT ![u] = 0]
  /\ last' = [p \in Paths |-> IF last[p] = u THEN Absent ELSE last[p]]
  /\ mixed' = {p \in mixed : last[p] # u}
  /\ UNCHANGED <<file, downloads>>

-----------------------------------------------------------------------------
(* download_file                                                           *)
DownloadAt(d, this, next) ==
  /\ down[d].pc = this
  /\ down' = [down EXCEPT ![d].pc = next]

Stored == {d \in Downloads : down[d].pc \in {"linking", "ok"}} \ refused

AcceptDownload(d) ==
  /\ down[d].pc = "new"
  /\ \E p \in Paths :
       /\ file[p] # Absent
       /\ down' = [down EXCEPT ![d] = [pc |-> "asking", path |-> p]]
       /\ before' = [before EXCEPT ![d] = (Stored \cup {bucket[Base(p)]}) \ {Absent}]
  /\ UNCHANGED <<file, bucket, refused, uploads>>

(* The path leaves the base directory, or there is no file.                *)
DenyDownload(d) ==
  /\ DownloadAt(d, "new", "failed")
  /\ UNCHANGED <<file, bucket, refused, before, uploads>>

(* The bucket service gives a link, and the copy is stored.  The object is *)
(* named after the file, without its directories.  The status of the       *)
(* store's answer is not looked at.  (Faulty variant: it is not awaited.)  *)
NotAwaited(d) ==
  /\ DownloadAt(d, "asking", "linking")
  /\ UNCHANGED <<file, bucket, refused, before, uploads>>

Store(d) ==
  /\ DownloadAt(d, "asking", "linking")
  /\ bucket' = [bucket EXCEPT ![Base(down[d].path)] = d]
  /\ UNCHANGED <<file, refused, before, uploads>>

StoreRefused(d) ==
  /\ DownloadAt(d, "asking", "linking")
  /\ refused' = refused \cup {d}
  /\ UNCHANGED <<file, bucket, before, uploads>>

Link(d) ==
  /\ DownloadAt(d, "linking", "ok")
  /\ UNCHANGED <<file, bucket, refused, before, uploads>>

DownloadFails(d) ==
  /\ down[d].pc \in {"asking", "linking"}
  /\ down' = [down EXCEPT ![d] = [pc |-> "failed", path |-> Outside]]
  /\ before' = [before EXCEPT ![d] = {}] /\ refused' = refused \ {d}
  /\ UNCHANGED <<file, bucket, uploads>>

-----------------------------------------------------------------------------
(* A command that the kernel executes replaces what is in a file.          *)
CommandWrites(p) ==
  /\ file' = [file EXCEPT ![p] = <<Other>>]
  /\ last' = [last EXCEPT ![p] = Absent]
  /\ mixed' = mixed \ {p}
  /\ UNCHANGED <<up, written, downloads>>

Upload(u) ==
  AcceptUpload(u) \/ DenyUpload(u) \/ OpenFile(u) \/ WriteChunk(u)
  \/ FinishUpload(u) \/ UploadFails(u)

Download(d) ==
  AcceptDownload(d) \/ DenyDownload(d) \/ Store(d)
  \/ StoreRefused(d) \/ Link(d) \/ DownloadFails(d)

Next ==
  \/ \E u \in Uploads : Upload(u)
  \/ \E d \in Downloads : Download(d)
  \/ \E p \in Paths : CommandWrites(p)

Spec == Init /\ [][Next]_vars

-----------------------------------------------------------------------------
(* What u's link served.                                                   *)
Whole(u) == [i \in 1 .. written[u] |-> <<u, i>>]

(* A successful upload replaces whatever an earlier one, complete or not,  *)
(* has left: the file is what the link served, unless a later upload, one  *)
(* at the same time, or a command has written it.                          *)
UploadWhole ==
  \A p \in Paths : \A u \in Uploads :
    last[p] = u /\ up[u].pc = "ok" /\ p \notin mixed => file[p] = Whole(u)
=============================================================================
