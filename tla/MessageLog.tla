----------------------------- MODULE MessageLog -----------------------------
(***************************************************************************)
(* The message table of one chat session, as AgentService reads it.        *)
(*                                                                         *)
(* A log is the sequence of the session's rows in message_time order.  A   *)
(* row is a user message, an item of the model that is not a tool call     *)
(* ("assistant": a message or a reasoning item), a function call or the    *)
(* output of a function call.  What the texts say is left out.             *)
(***************************************************************************)
EXTENDS Naturals, Sequences

CONSTANTS Calls,    \* the call ids the model may ever issue
          NoCall    \* the call id of a row that has none

ASSUME NoCallAssumption == NoCall \notin Calls

User         == [type |-> "user",      call |-> NoCall, status |-> "none"]
Assistant    == [type |-> "assistant", call |-> NoCall, status |-> "none"]
Call(c)      == [type |-> "call",      call |-> c,      status |-> "none"]
Output(c, s) == [type |-> "output",    call |-> c,      status |-> s]

(* The rows the code writes: no tool of it returns another status.         *)
Entries == {User, Assistant}
             \cup {Call(c) : c \in Calls}
             \cup {Output(c, s) : c \in Calls, s \in {"in_progress", "completed"}}

(***************************************************************************)
(* The keys of pending_call_ids once the loop over the first n rows of l   *)
(* is done: a call enters the dictionary at its function_call row and      *)
(* leaves it at its completed output.                                      *)
(***************************************************************************)
PendingAt(l, n) ==
  {c \in Calls : \E i \in 1..n :
      /\ l[i] = Call(c)
      /\ \A j \in (i+1)..n : l[j] # Output(c, "completed")}

Pending(l) == PendingAt(l, Len(l))

(* The calls with an in_progress output, which asks for human input: the   *)
(* second component of their pending_call_ids entry is set.                *)
Questioned(l) == {c \in Calls : \E i \in 1..Len(l) : l[i] = Output(c, "in_progress")}

(* The pending calls that wait for a human.                                *)
Awaiting(l) == Pending(l) \cap Questioned(l)

Logged(l) == {c \in Calls : \E i \in 1..Len(l) : l[i] = Call(c)}

Settled(l) == {c \in Calls : \E i \in 1..Len(l) : l[i].type = "output" /\ l[i].call = c}

(***************************************************************************)
(* The loader pops, or subscripts, pending_call_ids at every output row:   *)
(* without the key it raises KeyError and the session cannot be loaded.    *)
(***************************************************************************)
Loadable(l) ==
  \A j \in 1..Len(l) : l[j].type = "output" => l[j].call \in PendingAt(l, j - 1)
=============================================================================
