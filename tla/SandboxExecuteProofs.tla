------------------------- MODULE SandboxExecuteProofs -------------------------
(***************************************************************************)
(* Proofs about SandboxExecute, for any commands, however many of them     *)
(* hang or kill the kernel, and any number of threads.                     *)
(***************************************************************************)
EXTENDS SandboxExecute, TLAPS

(***************************************************************************)
(* What waits for a thread is queued, once; what no process has sent, or   *)
(* could not send, is nowhere at the kernel; and a command is in one place *)
(* there at a time, whether or not its request has been answered.          *)
(***************************************************************************)
QueuedOnce ==
  /\ \A i \in DOMAIN waiting : pc[waiting[i]] = "queued"
  /\ \A i, j \in DOMAIN waiting : waiting[i] = waiting[j] => i = j

AtKernel(c) == c \in finished \cup {busy} \/ \E i \in DOMAIN inbox : inbox[i] = c

UnsentUnseen ==
  \A c \in Commands :
    pc[c] \in {"new", "queued", "started"} \/ answer[c] = "error" => ~AtKernel(c)

ExecutedOnce ==
  /\ \A i, j \in DOMAIN inbox : inbox[i] = inbox[j] => i = j
  /\ \A i \in DOMAIN inbox : inbox[i] \notin finished \cup {busy}
  /\ busy \notin finished

ToldLast == \A c \in Commands : answer[c] # "none" => pc[c] = "answered"

(* Only a kernel that is up has anything to do.                            *)
BusyUp == busy # Idle => kernel = "up"

ExecuteInv ==
  /\ TypeOK /\ QueuedOnce /\ UnsentUnseen /\ ExecutedOnce
  /\ ToldLast /\ BusyUp

-----------------------------------------------------------------------------
(* Sequences without repetition, as the two queues are.                    *)
LEMMA AppendOnce ==
  ASSUME NEW S, NEW s \in Seq(S), NEW x \in S,
         \A i, j \in DOMAIN s : s[i] = s[j] => i = j,
         \A i \in DOMAIN s : s[i] # x
  PROVE  /\ Append(s, x) \in Seq(S)
         /\ \A i, j \in DOMAIN Append(s, x) : Append(s, x)[i] = Append(s, x)[j] => i = j
         /\ \A i \in DOMAIN Append(s, x) :
              Append(s, x)[i] = x \/ \E j \in DOMAIN s : Append(s, x)[i] = s[j]
  OBVIOUS

LEMMA TailOnce ==
  ASSUME NEW S, NEW s \in Seq(S), s # << >>,
         \A i, j \in DOMAIN s : s[i] = s[j] => i = j
  PROVE  /\ Head(s) \in S /\ Tail(s) \in Seq(S)
         /\ \E i \in DOMAIN s : s[i] = Head(s)
         /\ \A i, j \in DOMAIN Tail(s) : Tail(s)[i] = Tail(s)[j] => i = j
         /\ \A i \in DOMAIN Tail(s) :
              Tail(s)[i] # Head(s) /\ \E j \in DOMAIN s : Tail(s)[i] = s[j]
  OBVIOUS

-----------------------------------------------------------------------------
LEMMA ExecuteInit == Init => ExecuteInv
  BY CommandsAssumption
  DEF Init, ExecuteInv, TypeOK, QueuedOnce, UnsentUnseen, AtKernel, ExecutedOnce,
      ToldLast, BusyUp

(* A thread takes the oldest request that waits, whose process may start.  *)
LEMMA ThreadStep == ExecuteInv /\ (Start \/ StartFails) => ExecuteInv'
<1> SUFFICES ASSUME ExecuteInv, Start \/ StartFails
             PROVE  ExecuteInv'
  OBVIOUS
<1> USE DEF ExecuteInv, TypeOK
<1>1. /\ waiting # << >> /\ waiting' = Tail(waiting)
      /\ UNCHANGED kernelVars
      /\ \E where \in {"started", "answered"} :
           pc' = [pc EXCEPT ![Head(waiting)] = where]
      /\ answer' \in {answer, [answer EXCEPT ![Head(waiting)] = "error"]}
  BY DEF Start, StartFails, Answer
<1>2. /\ Head(waiting) \in Commands /\ Tail(waiting) \in Seq(Commands)
      /\ pc[Head(waiting)] = "queued"
      /\ \A i, j \in DOMAIN waiting' : waiting'[i] = waiting'[j] => i = j
      /\ \A i \in DOMAIN waiting' :
           waiting'[i] # Head(waiting) /\ \E j \in DOMAIN waiting : waiting'[i] = waiting[j]
  BY <1>1, TailOnce DEF QueuedOnce
<1>3. TypeOK'
  BY <1>1, <1>2 DEF kernelVars
<1>4. QueuedOnce'
  <2>1. \A i \in DOMAIN waiting' : waiting'[i] \in Commands
    BY <1>3
  <2> QED
    BY <1>1, <1>2, <2>1 DEF QueuedOnce
<1>5. UnsentUnseen'
  BY <1>1, <1>2 DEF UnsentUnseen, AtKernel, kernelVars
<1>6. ExecutedOnce' /\ BusyUp'
  BY <1>1, <1>2 DEF ExecutedOnce, BusyUp, kernelVars
<1>7. ToldLast'
  BY <1>2 DEF Start, StartFails, Answer, ToldLast
<1> QED
  BY <1>3, <1>4, <1>5, <1>6, <1>7

(* The steps of one request and of its process.                            *)
LEMMA RequestStep ==
  ASSUME ExecuteInv, NEW c \in Commands, Execute(c)
  PROVE  ExecuteInv'
<1> USE DEF ExecuteInv, TypeOK
<1>1. CASE Submit(c)
  <2>1. \A i \in DOMAIN waiting : waiting[i] # c
    BY <1>1 DEF Submit, QueuedOnce
  <2>2. /\ waiting' \in Seq(Commands)
        /\ \A i, j \in DOMAIN waiting' : waiting'[i] = waiting'[j] => i = j
        /\ \A i \in DOMAIN waiting' :
             waiting'[i] = c \/ \E j \in DOMAIN waiting : waiting'[i] = waiting[j]
    BY <1>1, <2>1, AppendOnce DEF Submit, QueuedOnce
  <2>3. pc[c] = "new" /\ pc' = [pc EXCEPT ![c] = "queued"] /\ UNCHANGED <<answer, kernelVars>>
    BY <1>1 DEF Submit
  <2>4. QueuedOnce'
    <3>1. \A i \in DOMAIN waiting : waiting[i] \in Commands
      OBVIOUS
    <3> QED
      BY <2>1, <2>2, <2>3, <3>1 DEF QueuedOnce
  <2>5. TypeOK' /\ UnsentUnseen' /\ ExecutedOnce' /\ ToldLast' /\ BusyUp'
    BY <2>2, <2>3 DEF UnsentUnseen, AtKernel, ExecutedOnce, ToldLast, BusyUp,
                      kernelVars
  <2> QED
    BY <2>4, <2>5
<1>2. CASE Send(c)
  <2>1. ~AtKernel(c)
    BY <1>2 DEF Send, UnsentUnseen
  <2>2. /\ inbox' \in Seq(Commands)
        /\ \A i, j \in DOMAIN inbox' : inbox'[i] = inbox'[j] => i = j
        /\ \A i \in DOMAIN inbox' :
             inbox'[i] = c \/ \E j \in DOMAIN inbox : inbox'[i] = inbox[j]
    BY <1>2, <2>1, AppendOnce DEF Send, AtKernel, ExecutedOnce
  <2>3. /\ pc[c] = "started" /\ pc' = [pc EXCEPT ![c] = "sent"]
        /\ UNCHANGED <<answer, waiting, kernel, busy, finished>>
    BY <1>2 DEF Send
  <2>4. QueuedOnce'
    <3>1. \A i \in DOMAIN waiting : waiting[i] \in Commands
      OBVIOUS
    <3> QED
      BY <2>3, <3>1 DEF QueuedOnce
  <2>5. UnsentUnseen'
    BY <2>2, <2>3 DEF UnsentUnseen, AtKernel, ToldLast
  <2>6. ExecutedOnce'
    BY <2>1, <2>2, <2>3 DEF ExecutedOnce, AtKernel
  <2>7. ToldLast' /\ BusyUp'
    BY <2>3 DEF ToldLast, BusyUp
  <2> QED
    BY <2>2, <2>3, <2>4, <2>5, <2>6, <2>7
<1>3. CASE SendFails(c) \/ Finish(c) \/ GiveUp(c) \/ Kill(c)
  <2>1. /\ pc[c] \in {"started", "sent"} /\ pc' = [pc EXCEPT ![c] = "answered"]
        /\ UNCHANGED <<waiting, kernelVars>>
        /\ \E how \in {"ran", "error", "timeout", "killed"} :
             /\ answer' = [answer EXCEPT ![c] = how]
             /\ how = "ran" => c \in finished
             /\ how = "error" => pc[c] = "started"
    BY <1>3 DEF SendFails, Finish, GiveUp, Kill, Answer, Done
  <2>2. TypeOK' /\ UnsentUnseen' /\ ExecutedOnce' /\ ToldLast' /\ BusyUp'
    BY <2>1 DEF UnsentUnseen, AtKernel, ExecutedOnce, ToldLast, BusyUp,
                kernelVars
  <2>3. QueuedOnce'
    <3>1. \A i \in DOMAIN waiting : waiting[i] \in Commands
      OBVIOUS
    <3> QED
      BY <2>1, <3>1 DEF QueuedOnce
  <2> QED
    BY <2>2, <2>3
<1> QED
  BY <1>1, <1>2, <1>3 DEF Execute

(* The kernel moves a command on, and never back.                          *)
LEMMA KernelStep == ExecuteInv /\ Kernel => ExecuteInv'
<1> SUFFICES ASSUME ExecuteInv, Kernel
             PROVE  ExecuteInv'
  OBVIOUS
<1> USE CommandsAssumption DEF ExecuteInv, TypeOK
<1>1. UNCHANGED <<pc, answer, waiting>>
  BY DEF Kernel, KernelStarts, KernelBegins, KernelEnds, KernelDies
<1>2. finished \subseteq finished'
  BY DEF Kernel, KernelStarts, KernelBegins, KernelEnds, KernelDies
<1>3. QueuedOnce' /\ ToldLast' /\ BusyUp'
  <2>1. QueuedOnce' /\ ToldLast'
    BY <1>1, <1>2 DEF QueuedOnce, ToldLast
  <2>2. BusyUp'
    BY DEF BusyUp, Kernel, KernelStarts, KernelBegins, KernelEnds, KernelDies
  <2> QED
    BY <2>1, <2>2
<1>4. CASE KernelBegins
  <2>1. /\ inbox # << >> /\ busy = Idle
        /\ busy' = Head(inbox) /\ inbox' = Tail(inbox) /\ UNCHANGED <<kernel, finished>>
    BY <1>4 DEF KernelBegins
  <2>2. /\ Head(inbox) \in Commands /\ inbox' \in Seq(Commands)
        /\ \E i \in DOMAIN inbox : inbox[i] = Head(inbox)
        /\ \A i, j \in DOMAIN inbox' : inbox'[i] = inbox'[j] => i = j
        /\ \A i \in DOMAIN inbox' :
             inbox'[i] # Head(inbox) /\ \E j \in DOMAIN inbox : inbox'[i] = inbox[j]
    BY <2>1, TailOnce DEF ExecutedOnce
  <2>3. UnsentUnseen' /\ ExecutedOnce'
    BY <1>1, <2>1, <2>2 DEF UnsentUnseen, AtKernel, ExecutedOnce
  <2> QED
    BY <1>1, <1>3, <2>1, <2>2, <2>3
<1>5. CASE KernelStarts \/ KernelEnds \/ KernelDies
  <2>1. inbox' \in {inbox, << >>} /\ kernel' \in {kernel, "up", "dead"}
        /\ busy' \in {busy, Idle} /\ finished' \subseteq finished \cup ({busy} \ {Idle})
    BY <1>5 DEF KernelStarts, KernelEnds, KernelDies
  <2>2. Idle \notin finished' /\ \A i \in DOMAIN inbox : inbox[i] # Idle
    BY <2>1
  <2>3. busy' = busy => finished' = finished
    BY <1>5 DEF KernelStarts, KernelEnds, KernelDies
  <2>4. UnsentUnseen' /\ ExecutedOnce'
    BY <1>1, <2>1, <2>2, <2>3 DEF UnsentUnseen, AtKernel, ExecutedOnce
  <2>5. TypeOK'
    <3>1. inbox' \in Seq(Commands)
      <4>1. inbox' = inbox \/ inbox' = << >>
        BY <2>1
      <4>2. << >> \in Seq(Commands)
        OBVIOUS
      <4> QED
        BY <4>1, <4>2
    <3>2. kernel' \in {"starting", "up", "dead"} /\ busy' \in Commands \cup {Idle}
      BY <2>1
    <3>3. finished' \subseteq Commands
      BY <2>1
    <3> QED
      BY <1>1, <3>1, <3>2, <3>3
  <2> QED
    BY <1>3, <2>4, <2>5
<1> QED
  BY <1>4, <1>5 DEF Kernel

LEMMA ExecuteStep == ExecuteInv /\ [Next]_vars => ExecuteInv'
<1>1. ExecuteInv /\ UNCHANGED vars => ExecuteInv'
  BY DEF ExecuteInv, vars, kernelVars, TypeOK, QueuedOnce, UnsentUnseen, AtKernel,
         ExecutedOnce, ToldLast, BusyUp
<1> QED
  BY <1>1, ThreadStep, RequestStep, KernelStep DEF Next

(* The invariant of /execute: queues without repetitions, and nothing at   *)
(* the kernel that was not sent.                                           *)
THEOREM ExecuteInvariance == Spec => []ExecuteInv
  BY ExecuteInit, ExecuteStep, PTL DEF Spec

-----------------------------------------------------------------------------
(***************************************************************************)
(* The runtime implements CommandLifecycle.  What a thread does before its *)
(* process is answered changes nothing there; an answer is told; and what  *)
(* the kernel begins has not been executed, nor been refused.              *)
(***************************************************************************)
LEMMA ToldStep ==
  ASSUME ExecuteInv, NEW c \in Commands, NEW how \in {"ran", "error", "timeout", "killed"},
         pc[c] # "answered", Answer(c, how), UNCHANGED kernelVars,
         how = "ran" => c \in finished,
         how = "error" => pc[c] \in {"queued", "started"}
  PROVE  Lifecycle!Next
<1>1. answer[c] = "none"
  BY DEF ExecuteInv, ToldLast
<1>2. how = "error" => c \notin finished \cup ({busy} \ {Idle})
  BY DEF ExecuteInv, UnsentUnseen, AtKernel
<1>3. Lifecycle!Tell(c, how)
  BY <1>1, <1>2 DEF Lifecycle!Tell, Answer, kernelVars
<1> QED
  BY <1>3 DEF Lifecycle!Next

LEMMA LifecycleStep == ExecuteInv /\ [Next]_vars => [Lifecycle!Next]_(Lifecycle!lifecycleVars)
<1> SUFFICES ASSUME ExecuteInv, [Next]_vars
             PROVE  Lifecycle!Next \/ UNCHANGED Lifecycle!lifecycleVars
  OBVIOUS
<1> USE CommandsAssumption DEF ExecuteInv, TypeOK
<1>1. ASSUME UNCHANGED <<answer, kernelVars>>
      PROVE  UNCHANGED Lifecycle!lifecycleVars
  BY <1>1 DEF Lifecycle!lifecycleVars, kernelVars
<1>2. CASE Start
  BY <1>1, <1>2 DEF Start
<1>3. CASE StartFails
  <2>1. Head(waiting) \in Commands /\ pc[Head(waiting)] = "queued"
    BY <1>3, TailOnce DEF StartFails, QueuedOnce
  <2> QED
    BY <1>3, <2>1, ToldStep DEF StartFails
<1>4. ASSUME NEW c \in Commands, Execute(c)
      PROVE  Lifecycle!Next \/ UNCHANGED Lifecycle!lifecycleVars
  <2>1. CASE Submit(c)
    BY <1>1, <2>1 DEF Submit
  <2>2. CASE Send(c)
    BY <2>2 DEF Send, Lifecycle!lifecycleVars
  <2>3. CASE SendFails(c)
    BY <2>3, ToldStep DEF SendFails
  <2>4. CASE Finish(c) \/ GiveUp(c) \/ Kill(c)
    BY <2>4, ToldStep DEF Finish, GiveUp, Kill, Done
  <2> QED
    BY <1>4, <2>1, <2>2, <2>3, <2>4 DEF Execute
<1>5. CASE KernelStarts
  BY <1>5 DEF KernelStarts, Lifecycle!lifecycleVars
<1>6. CASE KernelBegins
  <2>1. /\ Head(inbox) \in Commands /\ AtKernel(Head(inbox)) /\ Head(inbox) \notin finished
    BY <1>6, TailOnce DEF KernelBegins, AtKernel, ExecutedOnce
  <2>2. answer[Head(inbox)] # "error"
    BY <2>1 DEF UnsentUnseen
  <2>3. Lifecycle!Begin(Head(inbox))
    BY <1>6, <2>1, <2>2 DEF KernelBegins, Lifecycle!Begin
  <2> QED
    BY <2>1, <2>3 DEF Lifecycle!Next
<1>7. CASE KernelEnds
  BY <1>7 DEF KernelEnds, Lifecycle!Next, Lifecycle!End
<1>8. CASE KernelDies
  BY <1>8 DEF KernelDies, BusyUp, Lifecycle!Next, Lifecycle!Die
<1>9. CASE UNCHANGED vars
  BY <1>1, <1>9 DEF vars
<1> QED
  BY <1>2, <1>3, <1>4, <1>5, <1>6, <1>7, <1>8, <1>9 DEF Next, Kernel

(* However sends, timeouts, kills and the kernel's death interleave, no    *)
(* command is executed twice, or after its client was told that it could   *)
(* not be run, and each client is told once.                               *)
THEOREM LifecycleKept == Spec => LifecycleOfCommands
<1>1. Init => Lifecycle!Init
  BY DEF Init, Lifecycle!Init
<1> QED
  BY <1>1, ExecuteInit, ExecuteStep, LifecycleStep, PTL
  DEF Spec, LifecycleOfCommands, Lifecycle!Spec
=============================================================================
