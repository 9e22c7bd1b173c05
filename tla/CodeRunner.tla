----------------------------- MODULE CodeRunner -----------------------------
(***************************************************************************)
(* The files of one chat session in the bucket, with everybody who writes  *)
(* them: the downloads of SandboxFiles, the bucket service, and the code   *)
(* runner, which copies the session's part of the bucket to a temporary    *)
(* directory, executes code there and puts the directory back.             *)
(*                                                                         *)
(* The handler of the code runner never awaits, so that one run is under   *)
(* way at a time; but every call of the object store takes its time, and   *)
(* the other services do not wait for it.                                  *)
(***************************************************************************)
EXTENDS SandboxFiles

CONSTANTS Runs,     \* requests to execute code
          Posts,    \* files sent to the bucket service, or to its links
          Broken    \* a pickle that nobody can load

ASSUME ElsewhereAssumption == Elsewhere = Runs \cup Posts /\ Runs \cap Posts = {}
ASSUME BrokenAssumption == Broken \notin Runs \cup {Absent}

VARIABLES
  run,      \* run[r]: where run r is
  todo,     \* the names that the run under way has to get, or to put back
  copy,     \* copy[n]: contents of n in its temporary directory
  dump,     \* my_session.pkl there: the run that dumped it, or none
  cwd,      \* the process's directory: "home", "temp", or "gone"
  pkl,      \* my_session.pkl in the bucket
  post,     \* the files that have been stored
  newest,   \* history: newest[n]: the contents that n was given last
  crossed,  \* history: names given contents while a run held older ones
  broke     \* history: a run failed after it had changed the directory

runner == <<run, todo, copy, dump, cwd>>
history == <<newest, crossed, broke>>
sandbox == <<file, uploads, down, refused, before>>
allVars == <<vars, runner, pkl, post, history>>

Contents == Downloads \cup Elsewhere \cup {Absent}
Pickles == Runs \cup {Absent, Broken}

RunnerTypeOK ==
  /\ TypeOK
  /\ run \in [Runs -> {"new", "getting", "putting", "answering", "ok",
                       "failed", "refused"}]
  /\ todo \subseteq Names /\ copy \in [Names -> Contents]
  /\ dump \in Pickles /\ pkl \in Pickles
  /\ cwd \in {"home", "temp", "gone"}
  /\ post \subseteq Posts
  /\ newest \in [Names -> Contents] /\ crossed \subseteq Names
  /\ broke \in BOOLEAN

Nothing == [n \in Names |-> Absent]

RunnerInit ==
  /\ Init
  /\ run = [r \in Runs |-> "new"]
  /\ todo = {} /\ copy = Nothing /\ dump = Absent
  /\ cwd = "home"
  /\ pkl = Absent
  /\ post = {}
  /\ newest = Nothing /\ crossed = {} /\ broke = FALSE

-----------------------------------------------------------------------------
UnderWay == {r \in Runs : run[r] \in {"getting", "putting", "answering"}}

(* Names of which the run under way has a copy that it will put back as it *)
(* was.                                                                    *)
Held ==
  {n \in Names : copy[n] # Absent /\ \E r \in UnderWay :
     \/ run[r] = "getting" /\ n \notin todo
     \/ run[r] = "putting" /\ n \in todo /\ copy[n] # r}

(* Somebody else has stored contents x as n.                               *)
Stores(n, x) ==
  /\ newest' = [newest EXCEPT ![n] = x]
  /\ crossed' = IF n \in Held THEN crossed \cup {n} ELSE crossed \ {n}
  /\ UNCHANGED broke

HasStored(d) == down[d].pc = "linking" /\ d \notin refused

SandboxStep ==
  /\ Next
  /\ IF \E d \in Downloads : ~HasStored(d) /\ HasStored(d)'
       THEN \E d \in Downloads :
              ~HasStored(d) /\ HasStored(d)' /\ Stores(Base(down[d].path), d)
       ELSE UNCHANGED history
  /\ UNCHANGED <<runner, pkl, post>>

(* upload_file of the bucket service, or a form sent to one of its links.  *)
(* When it fails, nothing is stored.                                       *)
PostFile(p) ==
  /\ p \notin post
  /\ \E n \in Names : bucket' = [bucket EXCEPT ![n] = p] /\ Stores(n, p)
  /\ post' = post \cup {p}
  /\ UNCHANGED <<sandbox, runner, pkl>>

-----------------------------------------------------------------------------
(* run_code                                                                *)
RunAt(r, this, next) ==
  /\ run[r] = this
  /\ run' = [run EXCEPT ![r] = next]

(* The temporary directory is new, and gets what the bucket lists.         *)
Begin(r) ==
  /\ UnderWay = {} /\ cwd # "gone"
  /\ RunAt(r, "new", "getting")
  /\ todo' = {n \in Names : bucket[n] # Absent} /\ copy' = Nothing /\ dump' = pkl
  /\ UNCHANGED <<cwd, vars, pkl, post, history>>

(* os.getcwd raises in a directory that has been removed.                  *)
BeginFails(r) ==
  /\ UnderWay = {} /\ cwd = "gone"
  /\ RunAt(r, "new", "refused")
  /\ UNCHANGED <<todo, copy, dump, cwd, vars, pkl, post, history>>

Get(r, n) ==
  /\ RunAt(r, "getting", "getting")
  /\ n \in todo
  /\ copy' = [copy EXCEPT ![n] = bucket[n]]
  /\ todo' = todo \ {n}
  /\ UNCHANGED <<dump, cwd, vars, pkl, post, history>>

(* The code is executed in the directory of the copies, after the state of *)
(* the run before, if it can be loaded.  It changes, makes and removes     *)
(* files.  At its end the state is dumped, unless it has raised before;    *)
(* something that cannot be pickled leaves half a file.                    *)
Execute(r) ==
  /\ RunAt(r, "getting", "putting")
  /\ todo = {}
  /\ \/ /\ dump # Broken
        /\ copy' \in {c \in [Names -> Contents] :
                        \A n \in Names : c[n] \in {copy[n], r, Absent}}
        /\ dump' \in {r, Broken, dump}
     \/ /\ dump = Broken
        /\ UNCHANGED <<copy, dump>>
  /\ todo' = {n \in Names : copy'[n] # Absent}
  /\ cwd' = "temp"
  /\ UNCHANGED <<vars, pkl, post, history>>

(* fs.put of file_dir: every file goes back, changed or not.  (Faulty      *)
(* variant: only where there is no object.)                                *)
PutUnlessThere(r, n) ==
  /\ RunAt(r, "putting", "putting")
  /\ n \in todo
  /\ todo' = todo \ {n}
  /\ bucket' = [bucket EXCEPT ![n] = IF @ = Absent THEN copy[n] ELSE @]
  /\ IF copy[n] = r
       THEN newest' = [newest EXCEPT ![n] = r] /\ crossed' = crossed \ {n}
       ELSE UNCHANGED <<newest, crossed>>
  /\ UNCHANGED <<copy, dump, cwd, sandbox, pkl, post, broke>>

Put(r, n) ==
  /\ RunAt(r, "putting", "putting")
  /\ n \in todo
  /\ todo' = todo \ {n}
  /\ bucket' = [bucket EXCEPT ![n] = copy[n]]
  /\ IF copy[n] = r
       THEN newest' = [newest EXCEPT ![n] = r] /\ crossed' = crossed \ {n}
       ELSE UNCHANGED <<newest, crossed>>
  /\ UNCHANGED <<copy, dump, cwd, sandbox, pkl, post, broke>>

(* fs.put of pkl_dir, after all of file_dir.  (Faulty variant: before.)    *)
StateFirst(r) ==
  /\ RunAt(r, "putting", IF todo = {} THEN "answering" ELSE "putting")
  /\ pkl' = dump
  /\ UNCHANGED <<todo, copy, dump, cwd, vars, post, history>>

PutState(r) ==
  /\ RunAt(r, "putting", "answering")
  /\ todo = {}
  /\ pkl' = dump
  /\ UNCHANGED <<todo, copy, dump, cwd, vars, post, history>>

(* Back to the first directory.  (Faulty variant: up from file_dir only,   *)
(* to the directory that is about to be removed.)                          *)
LeftThere == "gone"
Home == "home"

Removed == todo' = {} /\ copy' = Nothing /\ dump' = Absent

Report(r) ==
  /\ RunAt(r, "answering", "ok")
  /\ cwd' = Home
  /\ Removed
  /\ UNCHANGED <<vars, pkl, post, history>>

(* Anything raises: the answer is an exception, and the temporary          *)
(* directory is removed, with the process in it or not.                    *)
RunFails(r) ==
  /\ r \in UnderWay
  /\ RunAt(r, run[r], "failed")
  /\ cwd' = IF cwd = "temp" THEN "gone" ELSE cwd
  /\ broke' = (broke \/ cwd = "temp")
  /\ Removed
  /\ UNCHANGED <<vars, pkl, post, newest, crossed>>

(* The process is started anew.                                            *)
Restart ==
  /\ cwd # "home" \/ UnderWay # {}
  /\ cwd' = "home"
  /\ run' = [r \in Runs |-> IF r \in UnderWay THEN "failed" ELSE run[r]]
  /\ broke' = FALSE
  /\ Removed
  /\ UNCHANGED <<vars, pkl, post, newest, crossed>>

-----------------------------------------------------------------------------
RunCode(r) ==
  \/ Begin(r) \/ BeginFails(r) \/ Execute(r) \/ PutState(r) \/ Report(r)
  \/ RunFails(r)
  \/ \E n \in Names : Get(r, n) \/ Put(r, n)

RunnerNext ==
  \/ SandboxStep
  \/ \E p \in Posts : PostFile(p)
  \/ \E r \in Runs : RunCode(r)
  \/ Restart

RunnerSpec == RunnerInit /\ [][RunnerNext]_allVars

-----------------------------------------------------------------------------
(* What a file was given last -- by an upload, by the copy of a download,  *)
(* by code that changed it -- is what the bucket has, unless a run held an *)
(* older copy at that time: it puts its copy back, changed or not.         *)
NewestKept == \A n \in Names : bucket[n] # newest[n] => n \in crossed

(* The link that a download answers leads to the copy of this request or   *)
(* to something newer; never to anything that was there before, unless the *)
(* bucket refused this copy or a run held an older one when it came.       *)
CopyNotOlder ==
  \A d \in Downloads :
    LET n == Base(down[d].path) IN
    down[d].pc = "ok" /\ d \notin refused /\ n \notin crossed =>
      bucket[n] \notin before[d] \cup {Absent}

(* The interpreter's state in the bucket is never that of a run whose      *)
(* files are not there: a run that fails, or is cut short, may leave files *)
(* newer than the state, but no state that is newer than the files.        *)
StateAfterFiles ==
  \A r \in UnderWay : pkl = r => \A n \in todo : copy[n] # r

(* No request is ever refused unheard, because the process stands in a     *)
(* directory that is gone, unless something raised in an earlier run after *)
(* it had changed the directory, and the process is still the same.        *)
RefusedOnlyBroken ==
  cwd = "gone" => broke
=============================================================================
