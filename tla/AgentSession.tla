---------------------------- MODULE AgentSession ----------------------------
(***************************************************************************)
(* AgentService: the requests of one chat session.                         *)
(*                                                                         *)
(* Every POST /chat/{session_id} makes an AgentService of its own, which   *)
(* loads the session's log and then works on its copies of it: input_list  *)
(* and pending_call_ids.  All requests run on one event loop, so what is   *)
(* between two suspension points (an await of the model, an await of a     *)
(* tool task, a yield to the stream) is one atomic step.  The log is       *)
(* shared; a request never reads it again after it was loaded.             *)
(*                                                                         *)
(* get_weather asks a human (HumanCalls); use_browser, get_time and the    *)
(* A2A agents do not (PlainCalls).  The model, the client, the tools'      *)
(* results, exceptions, disconnections and the death of the process are    *)
(* nondeterministic.                                                       *)
(*                                                                         *)
(* A row is flushed and then committed on the one connection that all      *)
(* Sessions of the process share.  Another Session that is closed between  *)
(* the two, in a thread of its own, rolls the row back, and the request    *)
(* goes on as if it were in the table.                                     *)
(***************************************************************************)
EXTENDS MessageLog, FiniteSets

CONSTANTS Requests,     \* HTTP requests of the session, each sent at most once
          HumanCalls,   \* call ids of tools that ask for human input
          Parallel,     \* bound: calls in one response of the model
          MaxLost       \* bound: different rows that are rolled back

PlainCalls == Calls \ HumanCalls

ASSUME HumanCallsAssumption == HumanCalls \subseteq Calls
ASSUME BoundsAssumption     == Parallel \in Nat /\ MaxLost \in Nat

VARIABLES
  log,       \* the rows of the message table, in message_time order
  pc,        \* pc[r]: where request r is suspended, or how it ended
  input,     \* input[r]: calls in r's input_list without a completed output there
  pending,   \* pending[r]: keys of r's pending_call_ids
  tasks,     \* tasks[r]: the calls of r's current round
  ready,     \* ready[r]: finished tasks r has yet to await, oldest first
  running,   \* calls whose asyncio task has not finished
  asked,     \* calls whose HumanInputRequired event reached the client
  lost,      \* history: the rows that were rolled back
  deserted,  \* history: calls of a round whose request was aborted
  early      \* history: calls answered while the request that asked was live

history == <<lost, deserted, early>>
vars == <<log, pc, input, pending, tasks, ready, running, asked, history>>

(***************************************************************************)
(* "model": awaiting responses.create; "yield": handing the message of a   *)
(* response with tool calls to the stream; "tools": in the as_completed    *)
(* loop.  "bad_request" (400), "conflict" (409), "aborted" (an exception,  *)
(* a lost client, a dead process) and "served" are ends.                   *)
(***************************************************************************)
Live  == {"model", "yield", "tools"}
Ended == {"served", "bad_request", "conflict", "aborted"}

(* A finished task, and whether it returned or raised.                     *)
Results == [call : Calls, ok : BOOLEAN]

TypeOK ==
  /\ log \in Seq(Entries)
  /\ pc \in [Requests -> {"new"} \cup Live \cup Ended]
  /\ input \in [Requests -> SUBSET Calls]
  /\ pending \in [Requests -> SUBSET Calls]
  /\ tasks \in [Requests -> SUBSET Calls]
  /\ ready \in [Requests -> Seq(Results)]
  /\ running \subseteq Calls
  /\ asked \subseteq HumanCalls
  /\ lost \subseteq Entries
  /\ deserted \subseteq Calls /\ early \subseteq Calls

Init ==
  /\ log = << >>
  /\ pc = [r \in Requests |-> "new"]
  /\ input = [r \in Requests |-> {}]
  /\ pending = [r \in Requests |-> {}]
  /\ tasks = [r \in Requests |-> {}]
  /\ ready = [r \in Requests |-> << >>]
  /\ running = {}
  /\ asked = {}
  /\ lost = {} /\ deserted = {} /\ early = {}

-----------------------------------------------------------------------------
(* The rows that are committed, and those that are rolled back.            *)
Write(rows, gone) ==
  /\ log' = log \o rows
  /\ lost' = lost \cup gone
  /\ Cardinality(lost') <= MaxLost

Commit(row) == Write(<<row>>, {}) \/ Write(<< >>, {row})

(***************************************************************************)
(* How a request ends.  Nothing reads its AgentService any more, except    *)
(* tasks it left running, which write to it and to the log: its memory is  *)
(* reset to a canonical value.                                             *)
(***************************************************************************)
End(r, how) ==
  /\ pc' = [pc EXCEPT ![r] = how]
  /\ input' = [input EXCEPT ![r] = {}]
  /\ pending' = [pending EXCEPT ![r] = {}]
  /\ tasks' = [tasks EXCEPT ![r] = {}]
  /\ ready' = [ready EXCEPT ![r] = << >>]

Abort(r) ==
  /\ End(r, "aborted")
  /\ deserted' = deserted \cup tasks[r]
  /\ UNCHANGED <<log, running, asked, lost, early>>

(* An output without a pending call in the log: KeyError for any client.   *)
LoadFails(r) ==
  /\ pc[r] = "new"
  /\ ~Loadable(log)
  /\ pc' = [pc EXCEPT ![r] = "aborted"]
  /\ UNCHANGED <<log, input, pending, tasks, ready, running, asked, history>>

(***************************************************************************)
(* run_model with an EasyInputMessage: load, refuse if the loaded log has  *)
(* a call without a completed output, else write the message and go to the *)
(* model.                                                                  *)
(***************************************************************************)
AcceptPrompt(r) ==
  /\ pc[r] = "new"
  /\ Loadable(log)
  /\ Pending(log) = {}
  /\ Commit(User)
  /\ input' = [input EXCEPT ![r] = Pending(log)]
  /\ pc' = [pc EXCEPT ![r] = "model"]
  /\ UNCHANGED <<pending, tasks, ready, running, asked, deserted, early>>

RefusePrompt(r) ==
  /\ pc[r] = "new"
  /\ Loadable(log)
  /\ Pending(log) # {}
  /\ pc' = [pc EXCEPT ![r] = "bad_request"]
  /\ UNCHANGED <<log, input, pending, tasks, ready, running, asked, history>>

(* The loaded pending_call_ids still holds the call.  (Faulty variant: a    *)
(* lookup among all the calls of the log.)                                 *)
AnswerableEver(c) == c \in Logged(log)
Answerable(c) == c \in Pending(log)

(* Nothing is left in pending_call_ids once c was popped.  (Faulty          *)
(* variants: a test that looks at c alone, and one before c was popped.)   *)
OthersIgnored(c) == c \in Pending(log)
TestedBeforePop(c) == Pending(log) = {} /\ c \in Calls
LastPending(c) == Pending(log) = {c}

(***************************************************************************)
(* run_model with a HumanInputFromUser, for a call whose id the client was *)
(* told.  get_weather does not suspend when it has its input, so load,     *)
(* check, tool and write are one step; the model is called when no other   *)
(* call of the loaded log is pending.  The shipped client answers as soon  *)
(* as it is asked, before the asking stream has ended.                     *)
(***************************************************************************)
AcceptAnswer(r, c) ==
  /\ pc[r] = "new"
  /\ c \in asked
  /\ Loadable(log)
  /\ Answerable(c)
  /\ c \in Questioned(log)
  /\ Commit(Output(c, "completed"))
  /\ early' = IF \E s \in Requests : c \in tasks[s] THEN early \cup {c} ELSE early
  /\ IF LastPending(c)
       THEN /\ pc' = [pc EXCEPT ![r] = "model"]
            /\ input' = [input EXCEPT ![r] = Pending(log) \ {c}]
       ELSE /\ pc' = [pc EXCEPT ![r] = "served"]
            /\ UNCHANGED input
  /\ UNCHANGED <<pending, tasks, ready, running, asked, deserted>>

RefuseAnswer(r, c) ==
  /\ pc[r] = "new"
  /\ c \in asked
  /\ Loadable(log)
  /\ ~Answerable(c)
  /\ pc' = [pc EXCEPT ![r] = "conflict"]
  /\ UNCHANGED <<log, input, pending, tasks, ready, running, asked, history>>

(***************************************************************************)
(* The row that asks was lost or the answer does not fit the model asked   *)
(* for (an exception), or the tool rejects it (caught: the call is put     *)
(* back in pending_call_ids and the stream ends without a word).  Nothing  *)
(* is written.                                                             *)
(***************************************************************************)
AnswerFails(r, c) ==
  /\ pc[r] = "new"
  /\ c \in asked
  /\ Loadable(log)
  /\ Answerable(c)
  /\ \/ pc' = [pc EXCEPT ![r] = "aborted"]
     \/ c \in Questioned(log) /\ pc' = [pc EXCEPT ![r] = "served"]
  /\ UNCHANGED <<log, input, pending, tasks, ready, running, asked, history>>

-----------------------------------------------------------------------------
(* The model issues no call id twice.                                      *)
Issued == Logged(log) \cup {c \in Calls : Call(c) \in lost}

(* The calls of a response.                                                *)
Batches ==
  {S \in SUBSET (Calls \ Issued) :
     S # {} /\ IsFiniteSet(S) /\ Cardinality(S) <= Parallel}

(* Those of them whose rows are kept, in the order of the response.        *)
Orders(S) ==
  {k \in UNION {[1..n -> S] : n \in 0..Parallel} :
     \A i, j \in DOMAIN k : k[i] = k[j] => i = j}

CallsOf(k) == {k[i] : i \in DOMAIN k}

(***************************************************************************)
(* _append_output: write every item of the response, each with a commit of *)
(* its own, and add it to r's input_list.  said: the items before the      *)
(* calls, a message or a reasoning item.                                   *)
(***************************************************************************)
AppendOutput(S, k, said) ==
  Write(said \o [i \in 1..Len(k) |-> Call(k[i])], {Call(c) : c \in S \ CallsOf(k)})

Said == {<< >>, <<Assistant>>}

(* A response without tool calls: the loop ends and the stream with it.    *)
ModelAnswers(r) ==
  /\ pc[r] = "model"
  /\ Commit(Assistant)
  /\ End(r, "served")
  /\ UNCHANGED <<running, asked, deserted, early>>

(* A response of tool calls without a message: their tasks are created at  *)
(* once.                                                                   *)
ModelCalls(r, S, k, said) ==
  /\ pc[r] = "model"
  /\ AppendOutput(S, k, said)
  /\ input' = [input EXCEPT ![r] = @ \cup S]
  /\ tasks' = [tasks EXCEPT ![r] = S]
  /\ running' = running \cup S
  /\ pc' = [pc EXCEPT ![r] = "tools"]
  /\ UNCHANGED <<pending, ready, asked, deserted, early>>

(* A response of a message and tool calls: the message is yielded after    *)
(* the calls were written and before their tasks are created.              *)
ModelSpeaksAndCalls(r, S, k, said) ==
  /\ pc[r] = "model"
  /\ AppendOutput(S, k, said)
  /\ input' = [input EXCEPT ![r] = @ \cup S]
  /\ tasks' = [tasks EXCEPT ![r] = S]
  /\ pc' = [pc EXCEPT ![r] = "yield"]
  /\ UNCHANGED <<pending, ready, running, asked, deserted, early>>

(* The request to the model fails.                                         *)
ModelFails(r) ==
  /\ pc[r] = "model"
  /\ Abort(r)

(* _append_output meets an item of an unknown type after writing calls.    *)
AppendOutputFails(r, S, k, said) ==
  /\ pc[r] = "model"
  /\ AppendOutput(S, k, said)
  /\ End(r, "aborted")
  /\ deserted' = deserted \cup S
  /\ UNCHANGED <<running, asked, early>>

(* Faulty variant: a task for one of the calls only.                       *)
CreateOneTask(r) ==
  /\ pc[r] = "yield"
  /\ running' = running \cup {CHOOSE c \in tasks[r] : TRUE}
  /\ pc' = [pc EXCEPT ![r] = "tools"]
  /\ UNCHANGED <<log, input, pending, tasks, ready, asked, history>>

CreateTasks(r) ==
  /\ pc[r] = "yield"
  /\ running' = running \cup tasks[r]
  /\ pc' = [pc EXCEPT ![r] = "tools"]
  /\ UNCHANGED <<log, input, pending, tasks, ready, asked, history>>

-----------------------------------------------------------------------------
(* The status of a tool's first result: get_weather without human input    *)
(* asks for it.  (Faulty variant: every result is final.)                  *)
AlwaysCompleted(c) == IF c \in Calls THEN "completed" ELSE "none"
FirstStatus(c) == IF c \in HumanCalls THEN "in_progress" ELSE "completed"

(***************************************************************************)
(* _run_tool_call in the task of call c, from the tool's result on.  A     *)
(* human call is put in r's pending_call_ids and its in_progress output is *)
(* written, but not added to input_list; a plain one is completed.         *)
(***************************************************************************)
RunToolCall(r, c) ==
  /\ c \in tasks[r] \cap running
  /\ running' = running \ {c}
  /\ ready' = [ready EXCEPT ![r] = Append(@, [call |-> c, ok |-> TRUE])]
  /\ Commit(Output(c, FirstStatus(c)))
  /\ IF FirstStatus(c) = "in_progress"
       THEN /\ pending' = [pending EXCEPT ![r] = @ \cup {c}]
            /\ UNCHANGED input
       ELSE /\ input' = [input EXCEPT ![r] = @ \ {c}]
            /\ UNCHANGED pending
  /\ UNCHANGED <<pc, tasks, asked, deserted, early>>

(* The tool, or the validation of its arguments, raises.                   *)
ToolRaises(r, c) ==
  /\ c \in tasks[r] \cap running
  /\ running' = running \ {c}
  /\ ready' = [ready EXCEPT ![r] = Append(@, [call |-> c, ok |-> FALSE])]
  /\ UNCHANGED <<log, pc, input, pending, tasks, asked, history>>

(***************************************************************************)
(* The task of a request that is gone still writes its output, and no one  *)
(* awaits it.                                                              *)
(***************************************************************************)
Orphans == running \ UNION {tasks[r] : r \in Requests}

RunOrphan(c) ==
  /\ c \in Orphans
  /\ running' = running \ {c}
  /\ Commit(Output(c, FirstStatus(c)))
  /\ UNCHANGED <<pc, input, pending, tasks, ready, asked, deserted, early>>

OrphanRaises(c) ==
  /\ c \in Orphans
  /\ running' = running \ {c}
  /\ UNCHANGED <<log, pc, input, pending, tasks, ready, asked, history>>

(* The HumanInputRequired events of the task that is awaited next.         *)
(* (Faulty variant: no event.)                                             *)
NoEvent(r) == {ready[r][k].call : k \in {}}
HumanInputRequired(r) == {Head(ready[r]).call} \cap HumanCalls

(***************************************************************************)
(* One turn of the as_completed loop: a finished task's result is awaited  *)
(* and the request for human input it may hold goes to the client; the     *)
(* exception of a failed one ends the request.                             *)
(***************************************************************************)
AwaitTask(r) ==
  /\ pc[r] = "tools"
  /\ ready[r] # << >>
  /\ Head(ready[r]).ok
  /\ ready' = [ready EXCEPT ![r] = Tail(@)]
  /\ asked' = asked \cup HumanInputRequired(r)
  /\ UNCHANGED <<log, pc, input, pending, tasks, running, history>>

(* Faulty variant: the exception is neither raised nor cleared.            *)
ExceptionStuck(r) == /\ pc[r] = "tools"
                     /\ ready[r] # << >>
                     /\ ~Head(ready[r]).ok
                     /\ UNCHANGED vars

AwaitRaises(r) ==
  /\ pc[r] = "tools"
  /\ ready[r] # << >>
  /\ ~Head(ready[r]).ok
  /\ Abort(r)

(***************************************************************************)
(* Every task was awaited.  The request leaves the loop when a call of its *)
(* own asked for human input, and goes back to the model otherwise.        *)
(***************************************************************************)
RoundOver(r) == /\ pc[r] = "tools"
                /\ tasks[r] \cap running = {}
                /\ ready[r] = << >>

(* A call of this request waits for human input.                           *)
MustBreak(r) == pending[r] # {}

FinishRound(r) ==
  /\ RoundOver(r)
  /\ IF MustBreak(r)
       THEN End(r, "served")
       ELSE /\ pc' = [pc EXCEPT ![r] = "model"]
            /\ tasks' = [tasks EXCEPT ![r] = {}]
            /\ UNCHANGED <<input, pending, ready>>
  /\ UNCHANGED <<log, running, asked, history>>

-----------------------------------------------------------------------------
(* The client goes away: the generator is cancelled where it is suspended. *)
Disconnect(r) ==
  /\ pc[r] \in Live
  /\ Abort(r)

(* The process dies and is started again: only the table is left.          *)
Restart ==
  /\ running # {} \/ \E r \in Requests : pc[r] \in Live
  /\ pc' = [r \in Requests |-> IF pc[r] \in Live THEN "aborted" ELSE pc[r]]
  /\ input' = [r \in Requests |-> {}]
  /\ pending' = [r \in Requests |-> {}]
  /\ tasks' = [r \in Requests |-> {}]
  /\ ready' = [r \in Requests |-> << >>]
  /\ running' = {}
  /\ deserted' = deserted \cup UNION {tasks[r] : r \in Requests}
  /\ UNCHANGED <<log, asked, lost, early>>

-----------------------------------------------------------------------------
ClientStep(r) ==
  \/ LoadFails(r)
  \/ AcceptPrompt(r)
  \/ RefusePrompt(r)
  \/ \E c \in HumanCalls : AcceptAnswer(r, c) \/ RefuseAnswer(r, c) \/ AnswerFails(r, c)

Response(r) ==
  \E S \in Batches : \E k \in Orders(S), said \in Said :
    \/ ModelCalls(r, S, k, said)
    \/ ModelSpeaksAndCalls(r, S, k, said)
    \/ AppendOutputFails(r, S, k, said)

ServiceStep(r) ==
  \/ ModelAnswers(r)
  \/ Response(r)
  \/ ModelFails(r)
  \/ CreateTasks(r)
  \/ AwaitTask(r)
  \/ AwaitRaises(r)
  \/ FinishRound(r)

ToolStep(c) ==
  \/ \E r \in Requests : RunToolCall(r, c) \/ ToolRaises(r, c)
  \/ RunOrphan(c)
  \/ OrphanRaises(c)

Next ==
  \/ \E r \in Requests : ClientStep(r) \/ ServiceStep(r) \/ Disconnect(r)
  \/ \E c \in Calls : ToolStep(c)
  \/ Restart

Spec == Init /\ [][Next]_vars

(***************************************************************************)
(* The event loop runs every coroutine that is ready, and the model and    *)
(* the tools return or raise at last (they are called without a timeout:   *)
(* that they return is an assumption).  Clients owe nothing.               *)
(***************************************************************************)
Fairness == /\ \A r \in Requests : WF_vars(ServiceStep(r))
            /\ \A c \in Calls : WF_vars(ToolStep(c))

FairSpec == Spec /\ Fairness

-----------------------------------------------------------------------------
(***************************************************************************)
(* Safety.                                                                 *)
(***************************************************************************)

(* Every output row follows the row of its call, and no completed output   *)
(* of it lies between: a session that has lost no call row can be loaded   *)
(* again, and no call is completed twice, however its answers race.        *)
OutputsHaveCalls ==
  \A j \in 1..Len(log) : log[j].type = "output" =>
    log[j].call \in PendingAt(log, j - 1) \/ Call(log[j].call) \in lost

(* What the model is given is complete: each tool call in the input_list   *)
(* of a request that awaits responses.create has its completed output      *)
(* there, whatever other requests and stray tasks have written in between. *)
ModelInputComplete == \A r \in Requests : pc[r] = "model" => input[r] = {}

Returned(r) == {ready[r][k].call : k \in {k \in DOMAIN ready[r] : ready[r][k].ok}}
Failed(r) == {ready[r][k].call : k \in {k \in DOMAIN ready[r] : ~ready[r][k].ok}}

(* The calls whose first output was written, and those that it was lost    *)
(* of.                                                                     *)
LostOutput == {c \in Calls : \E s \in {"in_progress", "completed"} : Output(c, s) \in lost}
Ran == Settled(log) \cup LostOutput

(* A call without any output has a task, or a request that is about to     *)
(* create its tasks or to meet its exception; else its own request was     *)
(* aborted in its round, or its output was rolled back.                    *)
CallsAccounted ==
  \A c \in Logged(log) \ Settled(log) :
    \/ c \in running
    \/ \E r \in Requests : pc[r] = "yield" /\ c \in tasks[r]
    \/ \E r \in Requests : c \in Failed(r)
    \/ c \in deserted \cup LostOutput

(* Every call that waits for a human was put to the client, or a live      *)
(* request is about to; else its own request was aborted in its round.     *)
HumanAsked ==
  \A c \in Awaiting(log) :
    \/ c \in asked
    \/ \E r \in Requests : c \in Returned(r)
    \/ c \in deserted

Quiescent == running = {} /\ \A r \in Requests : pc[r] \notin Live

(* The turn is dropped for three reasons only: once nothing runs any more, *)
(* the model had the last word or a human is being waited for, unless some *)
(* request was aborted, a row was rolled back, or a human answered while   *)
(* the asking stream was open: then run_model's test of pending_call_ids   *)
(* may lose the wake-up.                                                   *)
NoStall ==
  Quiescent /\ log # << >> =>
    \/ log[Len(log)].type = "assistant"
    \/ Awaiting(log) # {}
    \/ (\E r \in Requests : pc[r] = "aborted") \/ lost # {} \/ early # {}

(* What the 400 for an EasyInputMessage says: tool call human input is     *)
(* pending when a prompt is refused.                                       *)
RefusedForHumanInput ==
  [][\A r \in Requests :
       pc[r] = "new" /\ pc'[r] = "bad_request" => Awaiting(log) # {}]_vars

-----------------------------------------------------------------------------
(***************************************************************************)
(* The inductive invariant behind OutputsHaveCalls and ModelInputComplete. *)
(***************************************************************************)

(* Only issued calls have an output, and those being run have none yet.    *)
RunningUnsettled == Ran \subseteq Issued /\ running \subseteq Issued \ Ran

(* Whoever was asked, or is about to be, is asked about a call with an     *)
(* output.                                                                 *)
AskedSettled ==
  /\ asked \subseteq Ran
  /\ \A r \in Requests : Returned(r) \subseteq Ran

(* A round's calls belong to one request, which is in that round; before   *)
(* its tasks exist none of them has run.                                   *)
RoundsOwned ==
  \A r \in Requests :
    /\ tasks[r] # {} => pc[r] \in {"yield", "tools"}
    /\ ready[r] # << >> => pc[r] = "tools"
    /\ pending[r] \cup Returned(r) \cup Failed(r) \subseteq tasks[r]
    /\ tasks[r] \subseteq Issued
    /\ pc[r] = "yield" => tasks[r] \cap (running \cup Ran) = {}
    /\ \A s \in Requests : s # r => tasks[s] \cap tasks[r] = {}

(* A call in a live request's input_list is completed there, or belongs to *)
(* the current round and is still to run, waits for a human or failed.     *)
InputTracked ==
  \A r \in Requests :
    /\ input[r] \subseteq tasks[r]
    /\ pc[r] = "yield" \/ input[r] \subseteq running \cup pending[r] \cup Failed(r)

IInv ==
  /\ TypeOK
  /\ OutputsHaveCalls
  /\ RunningUnsettled
  /\ AskedSettled
  /\ RoundsOwned
  /\ InputTracked

-----------------------------------------------------------------------------
(***************************************************************************)
(* Liveness.                                                               *)
(***************************************************************************)

(* Every round of tool calls comes to an end: its request goes back to the *)
(* model or ends.  (How often it goes back is up to the model.)            *)
InRound(r) == pc[r] \in {"yield", "tools"}

RoundsEnd == \A r \in Requests : InRound(r) ~> ~InRound(r)

(* A call that asks for human input is put to the client, or answered, or  *)
(* its request was aborted in its round.                                   *)
AskedInTheEnd ==
  \A c \in HumanCalls :
    c \in Awaiting(log) ~> c \in asked \/ c \notin Awaiting(log) \/ c \in deserted

-----------------------------------------------------------------------------
(***************************************************************************)
(* Each call, seen through the log, goes through the life that             *)
(* ToolCallLifecycle promises.                                             *)
(***************************************************************************)
Stage(c) ==
  IF c \notin Logged(log) THEN "none"
  ELSE IF c \notin Pending(log) THEN "completed"
  ELSE IF c \in Awaiting(log) THEN "awaiting"
  ELSE "requested"

Lifecycle == INSTANCE ToolCallLifecycle WITH stage <- [c \in Calls |-> Stage(c)]

ImplementsLifecycle == Lifecycle!Spec
=============================================================================
