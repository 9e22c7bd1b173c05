-------------------------- MODULE CommandLifecycle --------------------------
(***************************************************************************)
(* What /execute promises about commands, without threads, processes or    *)
(* queues: they are executed one at a time and none twice; each client is  *)
(* told once, that its command ran only when it has, and that it failed    *)
(* only when it never will; any other answer leaves that open.  After a    *)
(* command that ended the kernel none is executed.                         *)
(***************************************************************************)
CONSTANT Commands

VARIABLES executing,  \* the command that is executed, if any
          executed,   \* those that were executed to the end
          told,       \* told[c]: what the client of c was told
          alive       \* the kernel has not ended

lifecycleVars == <<executing, executed, told, alive>>

Init ==
  /\ executing = {} /\ executed = {} /\ alive = TRUE
  /\ told = [c \in Commands |-> "none"]

Begin(c) ==
  /\ alive /\ executing = {}
  /\ c \notin executed /\ told[c] # "error"
  /\ executing' = {c}
  /\ UNCHANGED <<executed, told, alive>>

End ==
  /\ executing # {}
  /\ executed' = executed \cup executing /\ executing' = {}
  /\ UNCHANGED <<told, alive>>

Die ==
  /\ alive /\ executing # {}
  /\ alive' = FALSE /\ executing' = {}
  /\ UNCHANGED <<executed, told>>

Tell(c, how) ==
  /\ told[c] = "none"
  /\ how = "ran" => c \in executed
  /\ how = "error" => c \notin executed \cup executing
  /\ told' = [told EXCEPT ![c] = how]
  /\ UNCHANGED <<executing, executed, alive>>

Next ==
  \/ End \/ Die
  \/ \E c \in Commands :
       Begin(c) \/ \E how \in {"ran", "error", "timeout", "killed"} : Tell(c, how)

Spec == Init /\ [][Next]_lifecycleVars
=============================================================================
