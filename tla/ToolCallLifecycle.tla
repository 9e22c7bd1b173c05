------------------------- MODULE ToolCallLifecycle -------------------------
(***************************************************************************)
(* What the chat service promises about a tool call, without requests,     *)
(* tasks or a log: it is issued once, with the other calls of a response;  *)
(* a call of a tool that asks for human input waits for a human and is     *)
(* completed only from there; any other is completed directly; a completed *)
(* call stays so.  A call may be lost at any stage.                        *)
(***************************************************************************)
CONSTANTS Calls, HumanCalls

VARIABLE stage

LifecycleTypeOK == stage \in [Calls -> {"none", "requested", "awaiting", "completed"}]

Init == stage = [c \in Calls |-> "none"]

Issue(S) ==
  /\ S # {}
  /\ \A c \in S : stage[c] = "none"
  /\ stage' = [c \in Calls |-> IF c \in S THEN "requested" ELSE stage[c]]

AskHuman(c) ==
  /\ c \in HumanCalls
  /\ stage[c] = "requested"
  /\ stage' = [stage EXCEPT ![c] = "awaiting"]

Complete(c) ==
  /\ stage[c] = IF c \in HumanCalls THEN "awaiting" ELSE "requested"
  /\ stage' = [stage EXCEPT ![c] = "completed"]

Next ==
  \/ \E S \in SUBSET Calls : Issue(S)
  \/ \E c \in Calls : AskHuman(c) \/ Complete(c)

Spec == Init /\ [][Next]_stage
=============================================================================
