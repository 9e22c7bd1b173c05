# Verification of lang_demo

TLA+ specifications of the services in this repository, the TLC runs that
check them on small instances, and theorems about them checked by TLAPS.
`PROJECT.json` lists the components, the runs with their properties, the
mutants that show each property can fail, the lines every definition models,
the hazards of the code and the disagreements found. Paths below are relative
to the repository.

* check a model: `tlc -config <run>.cfg <MC module>`
* check a proof: `tlapm <module>Proofs.tla`

## 1. The system

The repository is a set of cooperating HTTP services around an LLM agent.

| part | source | state it keeps | operations |
|---|---|---|---|
| Agent service | `src/src/llm_utils/services/agent_service.py`, `api/chat.py`, `tools/tools.py`, `client/utils.py` | the message table of a chat session; per request `input_list`, `pending_call_ids` and asyncio tasks | a prompt, an answer to a tool's question, the model loop, tool calls |
| Accounts and sessions | `src/src/llm_utils/services/{user,session}_service.py`, `auth/`, `api/`, `db/` | rows of users, agents and sessions in one SQLite file; one connection to it per process | sign-up, login, make sessions, the checks before a turn |
| A2A server | `src/src/llm_utils/services/a2a_service.py`, `a2a_main.py`, `api/a2a.py` | the same file, from a second process | make the agents at start, run an agent for another agent |
| Sandbox router | `src/jupyter_sandbox/sandbox-router/sandbox_router.py` | its configuration; the count of WebSocket connections per client; per connection two carrying tasks and a watchdog; per HTTP request a backend response | start, authenticate, resolve, proxy HTTP, proxy WebSocket |
| Sandbox runtime | `src/sandbox_template_image/main.py` | one IPython kernel, the files of a base directory | execute, upload, download |
| RAG service | `src/rag/docker_spec/*.py` | MongoDB (documents, nodes), Elasticsearch, Qdrant | ingest a directory or files, sync, query |
| Code runner | `src/code_runner/docker_spec/run_code_func.py` | the working directory of the process; per request a temporary directory; the interpreter's state of a session in the bucket | run a piece of code on the session's files |
| Bucket service | `src/bucket/docker_spec/bucket_manage.py` | none of its own; a session's objects | make links, take files |

How they meet: the browser client streams from the agent service and sends
back answers to tool questions; the agent's tools call other agents through
A2A, the sandbox through the router, the code runner and the RAG service. Two
things are shared between services, and there they are composed: the objects of
a chat session in the bucket, which the sandbox, the bucket service and the code
runner all write (`CodeRunner`), and the SQLite file, which the chat process and
the A2A process both write (`Accounts`). Elsewhere a service is modelled alone,
with its callers and the stores it uses as an environment that may do anything
they can do.

What makes them hard:

* **Agent service.** Requests of one session run interleaved on one event loop
  and each works on its own copy of the session, loaded once. Tool tasks
  outlive the request that made them. Clients vanish, tools raise, the process
  dies; only the table is left. Nothing is locked and nothing is retried.
* **Accounts.** All Sessions of a process share one connection, and a Session is
  closed in a worker thread: its ROLLBACK may fall between two statements of
  somebody else. Lost ids are given again, by two processes.
* **Router.** Counting must be exact on every failure path, and by a key that a
  client cannot choose. A response is closed by a generator that may never run. In a relay two
  directions, a watchdog and a coroutine that cancels them end in any order,
  and each end must be told why.
* **RAG ingestion.** Four collections are written one after the other without a
  transaction or a retry.
* **RAG query.** Pure, but with chains, neighbours, duplicates, Python slices
  and a loop over a set.
* **Sandbox runtime.** All requests share one kernel and one directory; there
  are two timeouts and nobody restarts the kernel.
* **Code runner.** It copies a session's objects, changes its process's
  directory, and puts everything back, changed or not, while others write the
  same objects; whatever raises leaves the rest undone.

The hazards of this code are in `PROJECT.json`, each at its line, with the
properties that cover it or the reason why none does. Where the code does go wrong
and no text of the repository says that it should not, the property excepts that
case by name, as narrowly as the model allows: it shows that nothing else goes
wrong, and the hazard's note says that the case itself is described, not caught.

## 2. Modules

| module | models | run by |
|---|---|---|
| `MessageLog` | the message table and what the loader makes of it | through `AgentSession` |
| `AgentSession` | `AgentService`: all requests of one chat session, their tasks, the client | `MCAgentSession` |
| `ToolCallLifecycle` | abstract specification: the life of a tool call | refined in `agent_liveness` |
| `WebSocketProxy` | `proxy_websocket` and `WebSocketConnectionTracker`, many connections | through `SandboxRouter` |
| `SandboxRouter` | configuration, authentication, targets, client keys, timeouts, the HTTP proxy, composed with `WebSocketProxy` | `MCSandboxRouter` |
| `WebSocketRelay` | `_relay_websocket`, one connection in full | `MCWebSocketRelay` |
| `RagIngest` | ingestion, `MongoDocstore.get_nodes_diff`, both stores' writes and `sync` | `MCRagIngest` |
| `RagQuery` | `/query/`, fusion, `PrevNextNodePostprocessor`, `MergeConsecutiveNodesPostprocessor` | `MCRagQuery` |
| `SandboxExecute` | `/execute`, its threads and processes, the shared kernel | `MCSandboxExecute` |
| `CommandLifecycle` | abstract specification: what a client of `/execute` may rely on | refined in `sandbox_execute` |
| `SandboxFiles` | `/upload` and `/download` | through `CodeRunner` |
| `CodeRunner` | `run_code` and the bucket service, composed with `SandboxFiles` | `MCCodeRunner` |
| `Accounts` | sign-up, login, chat sessions, the checks of `run_model`, `make_agents`, delegated calls | `MCAccounts` |
| `AgentSessionProofs` (and of `MessageLog`), `SandboxRouterProofs` (and of `WebSocketProxy`), `WebSocketRelayProofs`, `RagIngestProofs`, `RagQueryProofs`, `SandboxExecuteProofs`, `CodeRunnerProofs` (and of `SandboxFiles`), `AccountsProofs` | theorems | `tlapm` |

`AgentSession` extends `MessageLog` and instantiates `ToolCallLifecycle` with
`stage` mapped to what the log says of each call. `SandboxRouter` extends
`WebSocketProxy`, which serves as its abstract specification: there a key is
any value and a handshake may be refused or admitted, in the router both follow
from headers and configuration. `WebSocketRelay` is the "relaying" step of
`WebSocketProxy` in detail; the two share nothing but the connection and are
checked apart. `CodeRunner` extends `SandboxFiles`: every step of the sandbox is
a step of the composition, which adds the other writers of the same objects.
`RagQuery` takes its docstore from a set of docstores that `RagIngest` and a
failure may leave. `SandboxExecute`
instantiates `CommandLifecycle` with what the kernel does and what is answered;
it and `SandboxFiles` share the kernel only in that a command may overwrite a file
(`CommandWrites`); composing them in one module was tried and multiplies the
states without relating any of their properties. `Accounts` says who may start
a turn and what is stored for it; how a turn goes is the matter of
`AgentSession`.

Next to some definitions stands a *faulty variant*: an operator with the same
parameters that has a plausible bug. No action uses it. The mutants of
`PROJECT.json` put it in the place of the real definition, and TLC must then
find the property violated.

### AgentSession

All code between two suspension points is one step: the event loop is
cooperative. The suspension points are the await of the model (`"model"`), the
yield of a response's message between writing its calls and creating their
tasks (`"yield"`), and the `as_completed` loop (`"tools"`).

The table is the exception. A row is flushed and then committed without an await
in between, but on the connection that all Sessions of the process share, and a
Session is closed in a worker thread, which sends ROLLBACK (`db_utils.py:24`,
`agent_service.py:128-135`; `Accounts` has the details). So `Commit` has two
outcomes: the row is in the table, or it is gone (`lost`), and the request goes
on in memory as if it were there. Every row can be lost: of a response any subset
of its calls (`AppendOutput`).

| code | action |
|---|---|
| the loader meets an output without its call | `LoadFails` |
| `run_model` with a prompt: load, refuse or write | `AcceptPrompt`, `RefusePrompt` |
| `run_model` with a human's answer: load, 409, tool, write | `AcceptAnswer`, `RefuseAnswer`, `AnswerFails` |
| a response without tool calls; an exception instead | `ModelAnswers`, `ModelFails` |
| a response with tool calls, `_append_output` | `Response`: `ModelCalls`, `ModelSpeaksAndCalls`, `AppendOutputFails` |
| `create_task` for each call | `ModelCalls` (at once) or `CreateTasks` (after the yield) |
| `_run_tool_call` in its task | `RunToolCall`, `ToolRaises`; `RunOrphan`, `OrphanRaises` once the request is gone |
| the `as_completed` loop | `AwaitTask`, `AwaitRaises`, `FinishRound` |
| lost client, dead process | `Disconnect`, `Restart` |

Of `input_list` the model keeps the calls that have no completed output in it
(`input`): a request changes it in memory, whatever becomes of the rows. Three
history variables name what the properties must except, and nothing wider:
`lost` the rows that were rolled back, `deserted` the calls of a round whose
request was aborted, `early` the calls answered while the request that asked was
still live.

The loop of the code has no limit of rounds, and neither has the model: a request
goes back to the model as often as the model calls tools. In a run rounds end
because the call ids are a finite set; no property rests on that. `RoundsEnd`
says that each round ends, not that there is a last one.

What the model shows of the code and no property forbids: a row that is rolled
back is not noticed by anybody. When it is the row of a call whose output is kept,
every later request of the session fails in the loader (`LoadFails`); when it is
an output, the call looks as if it had never been run.

### Accounts

What an endpoint does between two awaits is alone on the event loop, but the
dependencies of FastAPI (`Authenticate`) and the closing of a Session (`Close`)
run in worker threads, so they may come between any two statements of an
endpoint. `work` is what the shared connection of the chat process sees, `db`
what is committed; `open` says that the connection is in a transaction that has
written, and `hit` remembers whose rows another request's ROLLBACK has undone.

| code | action |
|---|---|
| `get_current_user`; `authenticate_user`, `login_for_access_token` | `Authenticate`, `Login` |
| `create_user`: lookup, flush of both rows, commit, refresh | `SignupTaken`, `InsertUser`, `InsertHuman`, `InsertHumanFails`, `Commit`, `Refresh` |
| `make_chat_session` | `InsertSession`, `NoUser`, `Commit`, `Refresh` |
| `run_model` up to its first await | `InsertPrompt`, `RefuseRun`, `Commit`; `EndTurn` |
| `get_db_session`'s end | `Close` |
| `a2a_main` with `make_agents`; its end | `Start`, `Stop` |
| `run_a2a_base`, the middleware and `execute` | `Delegate`, `DelegateFails`, `EndDelegated` |

A statement that writes waits for the other process's transaction, which is one
step; ids are the largest rowid plus one, as SQLite gives them. Passwords,
tokens and expiry are decided by what they let through. That the A2A process
ends with an error when it is started on a file that has the agents is what the
code does (`server = "dead"`). A delegated call may outlive the turn that made
it. A row that is rolled back while its request is answered with 200 or 201 is
what the code does too: `LostOnlyByClose` says how it can happen, not that it
cannot.

`SessionsPrivate` excepts sessions of which a user's sign-up was hit
(`HitSignup`). It was first stated without the exception, which the run did not
refute; the attempt to prove it did. Somebody logs in to an account whose sign-up
has not committed and keeps the token after a ROLLBACK took the rows; a second
sign-up is hit in the same way, and its id is given to a third account. The
first token then stands for an id that is somebody else's now, and a turn
started with it runs in a session of the other account. That takes eight
requests, more than any run can have; played step by step, the model does it.

### SandboxRouter, WebSocketProxy and WebSocketRelay

The tracker's lock is never held across an await, so `acquire` and `release`
are single steps. `Leave` is the `finally` clause, reachable from every
suspension point, also by cancellation.

`Boot` reads the environment once: a number that is absent, malformed or out of
range gives the default, networks that cannot be parsed are dropped, and without
a token the module only loads when it was told to run without. A request is a
record of what the checks tell apart; `origin`, `claim` and `via` say where it
comes from, what it claims in `X-Forwarded-For` and through which trusted proxies
it came, each of which appends the peer it got it from. `ClientIp` is the loop
from the last hop to the first. `OriginLimited` is about `origin`, which no code
sees: the key that the code computes must not depend on `claim`. For an HTTP
request `backend` says whether the response of the backend is open; it is closed
by the `finally` clause of the generator, which two ways out never reach:
`ResponseFails`, where no answer can be built of the response (a header value that
cannot be encoded) and the handler of every exception answers 500, and
`LeaveUnstarted`, where the generator is dropped before its first chunk. Such a
response keeps its connection of the pool; `ResponsesClosed` excepts the two and
shows that there is no third. Header filtering and the path are left out.

In the relay time is what the watchdog compares: seconds since the last message
and since the start, counted up to their limits (a larger value cannot be told
apart by `>=`). The limits are parameters chosen in `Init`. From the return of
`asyncio.wait` to the first await of a cancelled task the coroutine runs without
suspending (`Wake`); after that each cancel is a step, and tasks that have not
been cancelled yet go on. An end that goes away has `"left"` with a close code
or is `"lost"` without one: 1005 and 1006 stand for that and cannot be sent. Of a
lost client the backend is then told a normal end, because the error of sending
its code is swallowed (`CloseBackend`); a lost backend makes closing the client
raise (`CloseFails`), and the client is dropped. Cancellation of the handler itself from outside is
not modelled in the relay (it is in `WebSocketProxy`).

### RagIngest

The handlers are `async` but never await, so one process serves them one at a
time: `pc` is the next write of the single request being served. Every write
has a `...Fails` action that leaves any part of it that the store's bulk call
can leave (an ordered bulk a prefix with the deletions first, Elasticsearch's
any part), which covers exceptions as well as a crash of the process. A document
stands for its hash; metadata is part of a version. A version in `Blank` has no
text and yields no node: `get_nodes_diff`, which goes through nodes, does not see
such a file, so what the docstore had of it before stays. `read` (the last version
with text), `dirty` and `lost` are history variables for the properties.

### RagQuery

One query from its search to its answer. Each loop of the code is a loop of
steps: `todo` is what is still to be iterated over and a step takes its head
(`Count` the hits into the scores, `FetchNeighbours` of one hit, `Place` a node
in the document's order, `Keep` a node whose text is new), or, in the merge, any
node of what is left (`set.pop`). Python's ordered dictionaries are sequences
without repetitions. Scores of reciprocal rank fusion are exact: `Unit` stands
for 1.0 and is a common multiple of the denominators 60, 61, ... that occur
(`UnitAssumption`), so a score is a number of shares. The floats of the code are
rounded, by far less than two scores that `MoreHitsFirst` or `EarlierHitsFirst`
compares differ.
The rerank model is external: any order, scores that decrease through zero (a
fetched neighbour counts as 0). A text is a sequence of characters
`<<section, offset>>`, so that what a merged piece says can be compared with
the document; each join of two pieces is a step. What the model shows of the code and no property forbids: where two
markdown sections meet, offsets of different sections are subtracted and text is
cut off; where a neighbour that was fetched leaves a gap the slice has a negative
start, and of the next text only its end is kept, so that a text that was found
may be missing from the answer although its node is there; `final_top_k` is never
used; the answer's order is that of `set.pop`;
the previous neighbour of a document's last node is fetched and dropped
(`NeighboursFetched` states that exception). `FoundIsAnswered` and `TextWhole`
speak of texts only where a piece is of one section and without a gap
(`Seamless`).

### SandboxExecute, SandboxFiles and CodeRunner

`asyncio.to_thread` queues a request for one of `Workers` threads; its process
is a client of the kernel. Both timeouts may fire at any time, and the client
library's fires in the end: that covers every setting of either. The kernel is
external: it executes what it receives in order, may never end a command
(`Runaway`) or die of it (`Fatal`), and is not restarted by any code.
`CommandLifecycle` is what remains of this for the clients: commands run one at a
time and none twice, "ran" is said only of what has run, "error" (no process, no
connection file) only of what never will, while after "timeout" and "killed"
the command may still be executed.

Uploads write chunk by chunk with awaits in between; Python's file buffer is not
modelled (a chunk is in the file when written). A link may serve anything up to
`Chunks` chunks, and the status of its answer is not looked at. A download is
named after the last component of its path, so two paths may use one object.
`last`, `mixed` and `before` are history variables. Commands overwrite files and
do not remove them.

`run_code` is `async` but never awaits, so one run is under way at a time, while
the other services go on between its calls of the object store: `Get` and `Put`
are one object each, in any order. `Execute` is the child process: it may change,
make or remove any file, dump the state, leave the old one (the code raised) or
half of one (`Broken`). `RunFails` is any exception at any point, `Restart` a new
process. The contents of an object stand for who made them: a download, a file
sent (`PostFile`), or a run. `newest`, `crossed` and `broke` are history
variables: what a name was given last, whether a run held an older copy then,
and whether something raised behind `chdir`.

| code | action |
|---|---|
| `tempfile`, `os.getcwd`, the listing, the state's download | `Begin`, `BeginFails` |
| `fs.get` of one object | `Get` |
| `chdir` and the execution | `Execute` |
| `fs.put` of `file_dir`, then of `pkl_dir` | `Put`, `PutState` |
| `chdir` back and the answer | `Report` |
| any exception; a new process | `RunFails`, `Restart` |

## 3. Runs

| run | instance | what it shows |
|---|---|---|
| `agent` | 3 requests, two human calls and a plain one, up to 2 per response; 1 row rolled back where one call waits for a human | outputs follow their calls once; calls without output and questions not put are those of an aborted round or of a lost row; why a turn can be dropped; the model's input is complete |
| `agent_liveness` | 2 requests, up to 1 row rolled back | every round ends, every question is put, each call goes through `ToolCallLifecycle` |
| `agent_refusal` | 2 requests | *violated*: a prompt is refused while no human input is pending |
| `proxy` | every configuration, 3 connections of 3 hosts, 2 each, 1 HTTP request | the tracker is exact, the limit is kept also for who really connects, no entry outlives its client, backend responses are closed with two exceptions, no timeout is zero or longer than configured |
| `relay` | either limit 0 or set | timeouts are told to both ends, close codes propagate (and what is told when an end had none), no task is left behind, limits end the relay |
| `rag` | 2 files, 2 versions and a blank one, 3 requests | stores agree after a sync, one document per file, the docstore has what was read last with text |
| `rag_matched` | 1 file of 2 chunks | *violated*: a document that is found has been added |
| `query` | 6 nodes, 2 hits per store | fusion by number of hits, then never against all ranks, neighbours, pieces are maximal runs, no hit lost, what was found is there in full and once where a piece is seamless |
| `sandbox_execute` | 4 commands, 2 threads, one hangs, one kills | commands go through `CommandLifecycle` ("ran" means executed, none is executed twice), everyone is answered |
| `sandbox_wedge` | 2 commands | *violated*: a runaway command does not wedge the sandbox |
| `session_files` | 2 uploads, 1 download, 1 file sent, 2 runs, one name | a successful upload is whole, the newest contents stay unless a run held older ones, a link never leads to an older copy, no state without its files, no refusal without an earlier failure |
| `accounts` | 2 users and 2 newcomers, 3 requests, 2 delegated calls, 2 starts | rows are lost only by a ROLLBACK from elsewhere, why a sign-up fails, sessions are private although ids are given again |

### Why the bounds are enough

* *Agent.* Every race needs a request that asks and up to two that answer or
  prompt meanwhile; two calls of one response (`Parallel`) make both orders of
  their tasks and of their answers possible, and the three calls of `agent` give a
  human pair as well as a human call next to a plain one. A lost row (`MaxLost`)
  is tried in sessions with one call that waits for a human
  (`OneQuestionWhenLost`): any of its rows shows what a loss does, and the
  theorems hold for any number of them and of calls.
  Requests, and the calls that wait for a human, are interchangeable and used as
  symmetry sets; liveness is checked without symmetry and with two requests.
* *Proxy.* Two hosts tell a per-client limit from a global one; three connections
  bring one host to its limit and one beyond. A host connects directly or through
  two proxies, with no claim, a claim of one host or of two. Targets and timeouts
  are tried at each side of each of their bounds. The theorems hold for any
  number of connections, hosts, proxies and hops.
* *Accounts.* A row is lost to one other request, its id given to a third; two
  calls let a delegated one take an id between them. Of the newcomers one has the
  e-mail address of a user. Ids up to 2 are those that can be given twice.
* *Relay.* Limits of 2 and 3 seconds let a message arrive between two looks of
  the watchdog, and either limit expire first.
* *RAG.* Two files distinguish a bulk that was cut between documents; two
  versions let a file go back to what it was; three ingestions let a failure
  lie between two others. The theorems hold for any number of files, versions
  and chunks.
* *Query.* A document of four nodes has an inner run, both ends and a section
  boundary; a second has a gap and shares a text with the first. Two hits per
  store give every case of overlap and of order.
* *Sandbox.* Two threads and four commands let later requests wait for a thread.
* *Session files.* All meet at one object: uploads and the download use one path,
  and the download, the file sent and the runs use its name. Two uploads overlap
  in every way; two runs let a state, a directory or a copy of the first be met
  by the second; one chunk tells a whole file from an empty one. Several names,
  downloads and chunks are what the theorems add.

### NoStall and the client

`NoStall` holds for every client: once nothing runs any more, the model has had
the last word or a human is being waited for, with three exceptions, each of
which TLC finds at once when it is left out. A request was aborted; a row was
rolled back; or a human answered while the asking stream was still open
(`early`). The last is what the shipped client does (`client/utils.py:116-121`
answers in the middle of the stream). With one human and one plain call: the
answer arrives while the plain tool still runs, the answering request sees that
call pending and leaves the turn to the asking one; the asking request ends its
round on its own copy, in which the human call is still pending, and breaks off.
Neither calls the model. A client that answers after the stream has ended never
makes `early` grow. Nothing in the repository promises that a turn is continued,
so this is described and not a finding.

### Fairness

* `AgentSession`: the event loop resumes every coroutine that can run, and the
  model and the tools return or raise. They are called without a timeout, so
  this is an assumption on them. Clients owe nothing: no fairness on their
  requests, on disconnecting or on restarts.
* `WebSocketRelay`: time passes, the watchdog and the coroutine are resumed.
  Nothing of either end or of the carrying tasks: a client that never reads
  suspends a send for ever, and the limits must work nevertheless.
* `SandboxExecute`: threads take waiting requests, the client's own timeout is
  finite (the script passes 15 seconds), the kernel goes on with what ends.
* The other specifications have safety properties only.

Deadlock is not checked where the system stops because each request is sent at
most once (agent, router, accounts, sandbox, session files) or the connection is
over (relay); it is checked in `RagIngest` and `RagQuery`.

Every module has a type invariant. Where one is proved or where nothing else
rests on it, no run lists it; `RouterTypeOK` is checked because it also says that
every timeout is positive and not longer than the configured one.

## 4. Proofs

For every value of the constants, from the named assumptions in the modules
(finite `Conns`, `NoCall`, `Unread`, `Absent`, `Unknown` and
`Broken` not among the values they stand apart from, what is stored by different
writers different, timeouts integers, handshakes made of the parts they are said
to have, no two registered users with one id, the docstores made of nodes,
sizes and offsets naturals, `Unit` a common multiple of the denominators, the
bounds naturals):

* **`AgentSessionProofs`**: `TypeCorrect`, `Invariance`, `OutputsAlwaysHaveCalls`,
  `InputAlwaysComplete`. `OutputsHaveCalls` is not inductive: that an output never
  arrives without its call depends on what requests and tasks hold. `IInv` adds
  that running calls were issued and have no output, kept or lost
  (`RunningUnsettled`), that whoever is asked is asked about a call that has run
  (`AskedSettled`), that a round's calls belong to one request in that round
  (`RoundsOwned`), and that a call in a live request's input is completed there or
  still belongs to its current round (`InputTracked`). It speaks of what was
  issued and run (`Issued`, `Ran`), in the table or not, because a lost row is
  lost for the table only. The argument in a sentence: a second completed output
  of a call can only come from an answer, which looks at the log it appends to in
  the same step, or from a task, and a call with a task has no output yet. This
  is the central result: however requests, stray tasks, restarts and rollbacks of
  rows interleave, only a lost call row can make a session unloadable, and the
  model is given complete input. `StepRows` says once what a step does to the
  rows: nothing, a response's calls, or one output. Three layers stand on it:
  * `LifecycleKept`: `AgentSession` implements `ToolCallLifecycle`. A step
    appends at most rows for new calls, one output, or the second output of a call
    that awaits a human, so it is `Issue`, `Complete`, `AskHuman` or a stutter of
    the abstract specification, and a step whose rows are lost is a stutter.
    `StageInv` adds that a pending call with an output waits for a human
    (`PendingAwaits`) and that only calls of tools that ask for one do
    (`QuestionedHuman`), so that each row finds its call in the right stage.
  * `CallsAlwaysAccounted` and `HumanAlwaysAsked`, which except the calls of an
    aborted round and no others. `AccountInv` says that each running task belongs
    to a round or was deserted (`TasksHeld`), that each issued call that has not
    run is run, about to be run, failed or deserted (`Accounted`), and that each
    question is put or is in the hands of the request that will put it
    (`PutToHuman`).
  * `NeverStalls`, for any client: `TurnInv` adds that as long as no row was lost
    and no answer came early, what a request holds as pending does wait for a human
    in the log (`PendingHeld`). A request breaks off only because of such a call,
    and an answer that is not early cannot come before the round that asked has
    ended.
* **`SandboxRouterProofs`**, first of `WebSocketProxy`: `TrackerExact`
  and `LimitAlwaysRespected`. The invariant relates each
  entry of the dictionary to the set of holding connections of that client; the
  lemmas say how the cardinality of that set changes when one connection enters
  or leaves. Then of the router: `RouterImplementsProxy` is a refinement: the initial
  states of the router are initial states of `WebSocketProxy`, and every step is
  one of its steps or leaves its variables alone, so its theorems hold of the
  router. `OriginsAreLimited` needs one more fact, `KeyOfOrigin`: a held
  connection of a host that is no proxy is counted under that host. It rests on
  `ClientIpOfOrigin`: whatever the claim, the host comes right after it and
  all that follows is trusted, so the last hop that is not trusted is the host.
  Hence the host's connections are among those counted under one key.
  `RouterTypeCorrect` says that no call waits longer than the router's timeout:
  `RequestTimeoutRange` has the clamping of what a caller asks for, and the
  timeout does not change once the router is up (`CallsInv`: before that nobody
  waits). `ResponsesAlwaysClosed` needs no more than that: it follows the response
  from the step that receives it to every end of its request.
* **`WebSocketRelayProofs`**: `TimeoutAlwaysTold`, `NothingEverLeftBehind`,
  `CodesAlwaysPropagate`. `RelayInv` says which tasks have ended at each point of
  the coroutine (`TasksEnded`: of three one had ended and another is cancelled at
  once, so at most one is still awaited, which is why an exception leaves nothing
  behind), what the end of a task says of the two ends (`WhyEnded`), and what
  each end was told so far (`ToldSoFar`), also of an end that is lost without a
  code.
* **`CodeRunnerProofs`**: `UploadsAlwaysWhole`, `NewestAlwaysKept`,
  `CopiesNeverOlder`, `StateAlwaysAfterFiles`, `RefusedOnlyWhenBroken` and the
  type invariant, for any number of names, requests and chunks. `RunnerInv` has
  the sandbox's part, `FilesInv` (the upload that opened a file last writes it
  alone or has written all of it, unless it is mixed), and the runner's. None of
  the bucket's properties is inductive: `NewestKept` needs `HeldIsStored` (what a
  run will put back unchanged is what the bucket still has, unless the name is
  crossed) and `OneUnderWay`; `CopyNotOlder` needs `NewestIsNewer`, and that needs
  that what is new is nowhere before it is stored (`FirstSeen`, `ChangedOnce`).
* **`SandboxExecuteProofs`**: `LifecycleKept`:
  `SandboxExecute` implements `CommandLifecycle`, for any set of commands that
  hang or kill the kernel and any number of threads. `ExecuteInv` says that the
  two queues have no repetitions (`QueuedOnce`), that a command is in one place at
  the kernel (`ExecutedOnce`), and that nothing is there that was not sent or
  could not be (`UnsentUnseen`); so what the kernel begins has neither been
  executed nor been refused, and an answer (`ToldStep`) is the first.
* **`RagIngestProofs`**: `StoresAlwaysAgree`, `AlwaysOneDocPerFile`,
  `DocstoreAlwaysCurrent`. The invariant says, for each value of `pc`, what is
  already written and that the remaining diff leads to the docstore's state. Blank
  versions need no assumption: a document that yields no node is in no diff.
* **`RagQueryProofs`**: `NeighboursAlwaysFetched`, `AnswersAreRuns`,
  `FoundIsAlwaysAnswered`, `TextAlwaysWhole` and the type invariant, for any
  documents, docstore, top k and texts. `ListsInv` is about the lists: what a loop
  has written and what is still in `todo` are together always the same nodes, or
  texts of the same hashes (`NothingLost`), and none is there twice
  (`ListsDiffer`). `MergeInv` is about the merge: the kept nodes are, at every
  point, divided between the pieces answered, the piece being extended and what
  is left (`PartitionInv`), and each piece is a run with its text (`PiecesInv`).
  `FoundIsAlwaysAnswered` then finds a hit's text inside its piece's.
  A run is as long as it can be because a node beside the current piece that is
  kept must be left: were it in an earlier piece, that piece would not have been
  as long as it could be. The text of a piece is whole because joining two
  portions of a section cuts off what they share and no more (`PortionsJoin`).
  `MoreHitsAlwaysFirst` holds for `TopK` up to 11: `retriever_top_k` is 10 by
  default, and with 12 the statement is false (a text with nine of the best hits
  comes before one with ten of the worst). `EarlierHitsAlwaysFirst` holds for any.
  `ScoresInv` bounds a score without adding reciprocals up: what a text has
  gathered from some hits lies between the most and the least that so many hits
  give, by two lines that bound 1/(59 + rank) up to rank 11, from above through
  the ranks 1 and 11, from below through 8 and 9; and two texts share the ranks of
  a store, so that more of one leaves fewer for the other.
  That `AnswerIsRuns` says of texts that they differ, rather than how many there
  are, is for the proof; the two say the same.
* **`AccountsProofs`**: `RowsLostOnlyByClose`, `SignupsFailOnly`,
  `SessionsStayPrivate` and the type invariant, for any number of users, requests, delegated calls and starts. The
  invariant has three layers. The first relates the two views of the file: the
  connection sees what is committed and what its transaction adds, one endpoint
  at a time is between two awaits, and an id that is given is larger than all in
  its table, so a table has a largest id (`Bounded`). `RowsInv` says where the
  rows of an endpoint are at each of its statements unless it was hit, and that a
  row that is missing was somebody's who was hit. `OwnersInv` says whose a
  session is: no id that an account, a token or a sign-up has is beyond the next
  one or the delegated agent's (`IdsBelow`), a request acts as the account it
  names unless a sign-up of it was hit (`UsersKnown`), and each stored prompt and
  delegated call is in a session of its owner (`PromptsOwned`, `CallsOwned`,
  `CallsApart`).

Only model-checked: liveness (`RoundsEnd`, `AskedInTheEnd`, `LifetimeEnds`,
`IdleEnds`, `ExecuteAnswered`), which needs fairness and is beyond the prover.

## 5. Disagreements between code and text

* `agent_refusal`: a prompt is refused with "tool call human input is pending"
  while a plain tool runs, or for ever after one failed without an output.
* `rag_matched`: "If doc matches we consider that it is already added", but its
  nodes may be missing for good when the second collection's write failed.
* `sandbox_wedge`: the timeout of `/execute` is there so that "a runaway command
  can't wedge the sandbox forever"; it ends the client of the kernel, never the
  command.

## 6. Not modelled

* In the router the filtering of headers and the rebuilding of the path: text
  with nothing in it that a property tells apart.
* Agent cards and the protocol of the a2a library around delegated calls, and
  what is said in a delegated turn. The executor's `cancel` is never reached: it
  expects a task that `execute` does not make.
* In the bucket service `/exists` and `/list_objects`, which only read, and
  `/downloadfile`, which nothing in the repository calls. In the code runner the
  list of modified files in its answer.
* The dynamic tool forms (data types), the single-file predecessors of the
  services (`src/rag_llamaindex.py`, `src/sales_agent.py`, `src/run_code_func.py`
  and others), trial scripts and deployment manifests. The services are what the
  predecessors have become; modelling both would say the same twice.
* Clocks that go back (the log's order is that of its timestamps), two files of
  one name in one ingestion, the status of an upload's link: listed as hazards with
  no property.
* What a delegated turn does: a delegated agent whose tool asks for a human could
  put its question to nobody (the one that `make_agents` makes has no tools).

## 7. Plan

The order was: the chat service, because most of the system depends on it, then
the router, the RAG service and the sandbox; then what they share, the accounts'
file and the session's objects. What is left, in order:

1. A delegated turn over `AgentSession`, with the questions a delegated agent
   cannot put to anybody.
2. `MessageLog` with timestamps, to say what a clock that goes back does.
