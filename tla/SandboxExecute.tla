--------------------------- MODULE SandboxExecute ---------------------------
(***************************************************************************)
(* POST /execute of the sandbox runtime.  A request takes a worker thread, *)
(* whose process is a client of the one IPython kernel that the server has *)
(* started: it sends the command, and waits for the kernel to be idle      *)
(* again for as long as its own timeout allows; the thread waits for the   *)
(* process for as long as SANDBOX_EXEC_TIMEOUT_SECONDS allows.             *)
(*                                                                         *)
(* Timeouts are abstracted to "at any time, but in the end", which covers  *)
(* every value of either.  The kernel and its client library are external. *)
(***************************************************************************)
EXTENDS Naturals, Sequences, FiniteSets

CONSTANTS Commands,   \* requests, each with a command for the kernel
          Runaway,    \* commands that never end
          Fatal,      \* commands that end the kernel's process
          Workers,    \* threads of the event loop's executor
          Idle        \* not a command

ASSUME CommandsAssumption ==
  Runaway \subseteq Commands /\ Fatal \subseteq Commands /\ Idle \notin Commands
ASSUME WorkersAssumption == Workers \in Nat \ {0}

VARIABLES
  pc,       \* pc[c]: where the request for c is
  answer,   \* answer[c]: what its ExecuteResponse says
  waiting,  \* requests that wait for a thread, oldest first
  kernel,   \* the kernel's process: starting, up or dead
  inbox,    \* commands the kernel has received and not begun
  busy,     \* the command the kernel executes, or Idle
  finished  \* commands it has executed to the end

kernelVars == <<kernel, inbox, busy, finished>>
vars == <<pc, answer, waiting, kernelVars>>

TypeOK ==
  /\ pc \in [Commands -> {"new", "queued", "started", "sent", "answered"}]
  /\ answer \in [Commands -> {"none", "ran", "error", "timeout", "killed"}]
  /\ waiting \in Seq(Commands) /\ inbox \in Seq(Commands)
  /\ kernel \in {"starting", "up", "dead"}
  /\ busy \in Commands \cup {Idle}
  /\ finished \subseteq Commands

Init ==
  /\ pc = [c \in Commands |-> "new"]
  /\ answer = [c \in Commands |-> "none"]
  /\ waiting = << >>
  /\ kernel = "starting" /\ inbox = << >> /\ busy = Idle /\ finished = {}

-----------------------------------------------------------------------------
(* The requests whose process runs, each in a thread of its own.  (Faulty  *)
(* variant: the thread of a process that was killed stays with it.)        *)
WorkingForEver ==
  {c \in Commands : pc[c] \in {"started", "sent"} \/ answer[c] = "killed"}
Working == {c \in Commands : pc[c] \in {"started", "sent"}}

(* asyncio.to_thread: the call waits for a thread without the event loop.  *)
Submit(c) ==
  /\ pc[c] = "new"
  /\ pc' = [pc EXCEPT ![c] = "queued"]
  /\ waiting' = Append(waiting, c)
  /\ UNCHANGED <<answer, kernelVars>>

Answer(c, how) ==
  /\ pc' = [pc EXCEPT ![c] = "answered"]
  /\ answer' = [answer EXCEPT ![c] = how]

Start ==
  /\ waiting # << >> /\ Cardinality(Working) < Workers
  /\ waiting' = Tail(waiting)
  /\ pc' = [pc EXCEPT ![Head(waiting)] = "started"]
  /\ UNCHANGED <<answer, kernelVars>>

(* Popen raises: no such base directory, no process to be had.             *)
StartFails ==
  /\ waiting # << >> /\ Cardinality(Working) < Workers
  /\ waiting' = Tail(waiting)
  /\ Answer(Head(waiting), "error")
  /\ UNCHANGED kernelVars

(* (Faulty variant: the command is sent again and again.)                  *)
SendRepeatedly(c) ==
  /\ pc[c] = "started" /\ kernel = "up"
  /\ inbox' = Append(inbox, c)
  /\ UNCHANGED <<pc, answer, waiting, kernel, busy, finished>>

(* A kernel that is starting has no connection file.  One that is dead may *)
(* have left its file behind: nobody reads what is sent to it.             *)
Send(c) ==
  /\ pc[c] = "started" /\ kernel # "starting"
  /\ pc' = [pc EXCEPT ![c] = "sent"]
  /\ inbox' = IF kernel = "up" THEN Append(inbox, c) ELSE inbox
  /\ UNCHANGED <<answer, waiting, kernel, busy, finished>>

SendFails(c) ==
  /\ pc[c] = "started" /\ kernel # "up"
  /\ Answer(c, "error")
  /\ UNCHANGED <<waiting, kernelVars>>

(* The kernel is idle after this client's command.                         *)
Done(c) == c \in finished

Finish(c) ==
  /\ pc[c] = "sent" /\ Done(c)
  /\ Answer(c, "ran")
  /\ UNCHANGED <<waiting, kernelVars>>

(* execute_interactive raises TimeoutError and the process exits with 1,   *)
(* although the command may be done: what the kernel says of it may be     *)
(* late.                                                                   *)
GiveUp(c) ==
  /\ pc[c] = "sent"
  /\ Answer(c, "timeout")
  /\ UNCHANGED <<waiting, kernelVars>>

(* TimeoutExpired: the process group of the client is killed; the kernel   *)
(* is in another one.                                                      *)
Kill(c) ==
  /\ pc[c] \in {"started", "sent"}
  /\ Answer(c, "killed")
  /\ UNCHANGED <<waiting, kernelVars>>

-----------------------------------------------------------------------------
KernelStarts ==
  /\ kernel = "starting" /\ kernel' = "up"
  /\ UNCHANGED <<pc, answer, waiting, inbox, busy, finished>>

KernelBegins ==
  /\ kernel = "up" /\ busy = Idle /\ inbox # << >>
  /\ busy' = Head(inbox) /\ inbox' = Tail(inbox)
  /\ UNCHANGED <<pc, answer, waiting, kernel, finished>>

KernelEnds ==
  /\ busy \in Commands \ (Runaway \cup Fatal)
  /\ finished' = finished \cup {busy} /\ busy' = Idle
  /\ UNCHANGED <<pc, answer, waiting, kernel, inbox>>

(* Nobody starts it again.                                                 *)
KernelDies ==
  /\ busy \in Fatal
  /\ kernel' = "dead" /\ inbox' = << >> /\ busy' = Idle
  /\ UNCHANGED <<pc, answer, waiting, finished>>

-----------------------------------------------------------------------------
Execute(c) ==
  Submit(c) \/ Send(c) \/ SendFails(c) \/ Finish(c) \/ GiveUp(c) \/ Kill(c)

Kernel == KernelStarts \/ KernelBegins \/ KernelEnds \/ KernelDies

Next == Start \/ StartFails \/ Kernel \/ \E c \in Commands : Execute(c)

Spec == Init /\ [][Next]_vars

(* Threads and processes run, the client library's timeout is finite, and  *)
(* the kernel starts, takes what it has received and ends what ends.       *)
FairSpec ==
  /\ Spec
  /\ WF_vars(Start \/ StartFails) /\ WF_vars(Kernel)
  /\ \A c \in Commands :
       WF_vars(Send(c) \/ SendFails(c)) /\ WF_vars(Finish(c) \/ GiveUp(c))

-----------------------------------------------------------------------------
(* Every request to execute is answered, also when the kernel hangs or is  *)
(* dead and when there are fewer threads than requests.                    *)
ExecuteAnswered ==
  \A c \in Commands : pc[c] = "queued" ~> pc[c] = "answered"

(* What the comment in execute_command says of its timeout: a runaway      *)
(* command does not wedge the sandbox for ever.  Once its request has been *)
(* answered, the kernel is free again some time.                           *)
RunawayEnds ==
  \A c \in Runaway : pc[c] = "answered" ~> busy # c

-----------------------------------------------------------------------------
Lifecycle == INSTANCE CommandLifecycle
  WITH executing <- {busy} \ {Idle}, executed <- finished, told <- answer,
       alive <- kernel # "dead"

(* Whichever processes are killed or give up, whatever of theirs stays in  *)
(* the kernel's queue and whenever the kernel dies, commands go through    *)
(* the life that CommandLifecycle promises: none is executed twice, or     *)
(* after its client was told that it could not be run.                     *)
LifecycleOfCommands == Lifecycle!Spec
=============================================================================
