--------------------------- MODULE WebSocketRelay ---------------------------
(***************************************************************************)
(* _relay_websocket of the sandbox router for one connection: two tasks    *)
(* that carry messages, a watchdog, and the main coroutine that waits for  *)
(* the first of them to end, cancels the rest and tells each side why.     *)
(*                                                                         *)
(* Steps of the tasks are what runs between two suspension points.  Time   *)
(* is what the watchdog compares: the seconds since the last message and   *)
(* since the start, counted up to their limits (>= cannot tell more).      *)
(***************************************************************************)
EXTENDS Integers

CONSTANTS IdleTimeouts,   \* values of idle_timeout in seconds, 0 disables
          MaxLifetimes    \* values of max_lifetime in seconds, 0 disables

ASSUME TimeoutsAssumption == IdleTimeouts \subseteq Nat /\ MaxLifetimes \subseteq Nat

VARIABLES
  idleTimeout, maxLifetime,   \* parameters of the call
  client,   \* the client's connection: open, left or lost, or how it was closed
  backend,  \* the backend's connection, likewise
  c2b,      \* task client_to_backend
  b2c,      \* task backend_to_client
  dog,      \* task watchdog
  idle,     \* now - last_activity
  age,      \* now - started_at
  told,     \* client_close is set
  tooBig,   \* message_too_big
  main,     \* the coroutine: waiting, cancelling, closing, ...
  done,     \* the tasks asyncio.wait found done
  pending   \* the tasks still to be cancelled and awaited

parameters == <<idleTimeout, maxLifetime>>
vars == <<parameters, client, backend, c2b, b2c, dog, idle, age, told, tooBig,
          main, done, pending>>
tasks == <<c2b, b2c, dog>>
clock == <<idle, age>>
coroutine == <<main, done, pending>>

Ended == {"returned", "raised", "cancelled"}
Watched == idleTimeout > 0 \/ maxLifetime > 0
TaskNames == {"c2b", "b2c"} \cup (IF Watched THEN {"dog"} ELSE {})

TypeOK ==
  /\ idleTimeout \in IdleTimeouts /\ maxLifetime \in MaxLifetimes
  /\ client \in {"open", "left", "lost", "timeout", "too big", "backend's",
                 "1000", "1011", "dropped"}
  /\ backend \in {"open", "left", "lost", "timeout", "too big", "client's", "1000"}
  /\ c2b \in {"receive", "send"} \cup Ended
  /\ b2c \in {"receive", "send"} \cup Ended
  /\ dog \in {"asleep", "due"} \cup Ended
  /\ idle \in 0 .. idleTimeout /\ age \in 0 .. maxLifetime
  /\ told \in BOOLEAN /\ tooBig \in BOOLEAN
  /\ main \in {"waiting", "cancelling", "closing", "closing backend",
               "returned", "raised", "failed", "gone"}
  /\ done \subseteq TaskNames /\ pending \subseteq TaskNames

Init ==
  /\ idleTimeout \in IdleTimeouts /\ maxLifetime \in MaxLifetimes
  /\ client = "open" /\ backend = "open"
  /\ c2b = "receive" /\ b2c = "receive"
  /\ dog = IF Watched THEN "asleep" ELSE "cancelled"
  /\ idle = 0 /\ age = 0
  /\ told = FALSE /\ tooBig = FALSE
  /\ main = "waiting" /\ done = {} /\ pending = {}

-----------------------------------------------------------------------------
(* The two ends: each may close on its own.  One that has left gave a code *)
(* that the other can be sent; one that is lost gave none: 1005 and 1006,  *)
(* which stand for that, are not allowed in a close frame.                 *)
Away == {"left", "lost"}

ClientLeaves ==
  /\ client = "open" /\ client' \in Away
  /\ UNCHANGED <<parameters, backend, tasks, clock, told, tooBig, coroutine>>

BackendLeaves ==
  /\ backend = "open" /\ backend' \in Away
  /\ UNCHANGED <<parameters, client, tasks, clock, told, tooBig, coroutine>>

-----------------------------------------------------------------------------
(* client_to_backend                                                       *)
C2BStep(next) ==
  /\ c2b' = next
  /\ UNCHANGED <<parameters, client, backend, b2c, dog, age, tooBig, coroutine>>

ReceiveFromClient ==
  /\ c2b = "receive" /\ client = "open"
  /\ idle' = 0
  /\ C2BStep("send") /\ UNCHANGED told

SendToBackend ==
  /\ c2b = "send" /\ backend = "open"
  /\ C2BStep("receive") /\ UNCHANGED <<idle, told>>

(* send raises ConnectionClosed, which only the main coroutine catches.    *)
SendToBackendRaises ==
  /\ c2b = "send" /\ backend # "open"
  /\ C2BStep("raised") /\ UNCHANGED <<idle, told>>

ClientDisconnects ==
  /\ c2b = "receive" /\ client \in Away
  /\ told' = TRUE
  /\ C2BStep("returned") /\ UNCHANGED idle

-----------------------------------------------------------------------------
(* backend_to_client                                                       *)
B2CStep(next) ==
  /\ b2c' = next
  /\ UNCHANGED <<parameters, client, backend, c2b, dog, age, told, coroutine>>

ReceiveFromBackend ==
  /\ b2c = "receive" /\ backend = "open"
  /\ idle' = 0
  /\ B2CStep("send") /\ UNCHANGED tooBig

(* A client that does not read suspends the task here.                     *)
SendToClient ==
  /\ b2c = "send" /\ client = "open"
  /\ B2CStep("receive") /\ UNCHANGED <<idle, tooBig>>

SendToClientRaises ==
  /\ b2c = "send" /\ client # "open"
  /\ B2CStep("raised") /\ UNCHANGED <<idle, tooBig>>

(* The end of the iteration and ConnectionClosed are treated alike.        *)
BackendCloses ==
  /\ b2c = "receive" /\ backend # "open"
  /\ B2CStep("returned") /\ UNCHANGED <<idle, tooBig>>

PayloadTooBig ==
  /\ b2c = "receive" /\ backend = "open"
  /\ tooBig' = TRUE
  /\ B2CStep("returned") /\ UNCHANGED idle

-----------------------------------------------------------------------------
(* A second passes; the watchdog's sleep of one second is over.            *)
Tick ==
  /\ main # "gone"
  /\ idle' = IF idle < idleTimeout THEN idle + 1 ELSE idle
  /\ age' = IF age < maxLifetime THEN age + 1 ELSE age
  /\ dog' = IF dog = "asleep" THEN "due" ELSE dog
  /\ UNCHANGED <<parameters, client, backend, c2b, b2c, told, tooBig, coroutine>>

(* (Faulty variants: only one of the two limits is looked at.)             *)
ExpiredIdle == idleTimeout > 0 /\ idle >= idleTimeout
ExpiredByAge == maxLifetime > 0 /\ age >= maxLifetime
Expired ==
  \/ idleTimeout > 0 /\ idle >= idleTimeout
  \/ maxLifetime > 0 /\ age >= maxLifetime

Watch ==
  /\ dog = "due"
  /\ dog' = IF Expired THEN "returned" ELSE "asleep"
  /\ UNCHANGED <<parameters, client, backend, c2b, b2c, clock, told, tooBig, coroutine>>

-----------------------------------------------------------------------------
(* The main coroutine.  It runs from the return of asyncio.wait to the     *)
(* first await of a cancelled task without suspending; while it awaits     *)
(* one, the tasks it has not cancelled yet go on.                          *)
StateOf(t) == CASE t = "c2b" -> c2b [] t = "b2c" -> b2c [] t = "dog" -> dog

Cancel(t) ==
  /\ c2b' = IF t = "c2b" THEN "cancelled" ELSE c2b
  /\ b2c' = IF t = "b2c" THEN "cancelled" ELSE b2c
  /\ dog' = IF t = "dog" THEN "cancelled" ELSE dog

(* (Faulty variant: no task is cancelled before the first await.)          *)
WakeWithoutCancel ==
  LET over == {t \in TaskNames : StateOf(t) \in Ended} IN
  /\ main = "waiting" /\ over # {}
  /\ done' = over
  /\ pending' = TaskNames \ over
  /\ main' = "cancelling"
  /\ UNCHANGED <<parameters, client, backend, tasks, clock, told, tooBig>>

Wake ==
  LET over == {t \in TaskNames : StateOf(t) \in Ended} IN
  /\ main = "waiting" /\ over # {}
  /\ done' = over
  /\ IF over = TaskNames
       THEN main' = "closing" /\ pending' = {} /\ UNCHANGED tasks
       ELSE \E t \in TaskNames \ over :
              /\ Cancel(t)
              /\ pending' = TaskNames \ (over \cup {t})
              /\ main' = "cancelling"
  /\ UNCHANGED <<parameters, client, backend, clock, told, tooBig>>

CancelNext ==
  /\ main = "cancelling"
  /\ \E t \in pending :
       /\ StateOf(t) \notin Ended
       /\ Cancel(t)
       /\ pending' = pending \ {t}
  /\ UNCHANGED <<parameters, client, backend, clock, told, tooBig, main, done>>

(* The task has ended before its turn came: cancel() does nothing, and     *)
(* awaiting it returns, or raises what the loop does not catch.            *)
AwaitEnded ==
  /\ main = "cancelling"
  /\ \E t \in pending :
       /\ StateOf(t) \in Ended
       /\ pending' = pending \ {t}
       /\ main' = IF StateOf(t) = "raised" THEN "raised" ELSE main
  /\ UNCHANGED <<parameters, client, backend, tasks, clock, told, tooBig, done>>

AllCancelled ==
  /\ main = "cancelling" /\ pending = {}
  /\ main' = "closing"
  /\ UNCHANGED <<parameters, client, backend, tasks, clock, told, tooBig, done, pending>>

-----------------------------------------------------------------------------
(* Why the relay ends, in the order of the code's branches.  (Faulty       *)
(* variants: a client's close is looked at first; a backend's not at all.) *)
ClientFirst ==
  IF "c2b" \in done /\ told THEN "client's"
  ELSE IF "dog" \in done THEN "timeout"
  ELSE IF tooBig THEN "too big"
  ELSE IF "b2c" \in done THEN "backend's"
  ELSE "none"

BackendForgotten ==
  IF "dog" \in done THEN "timeout"
  ELSE IF tooBig THEN "too big"
  ELSE IF "c2b" \in done /\ told THEN "client's"
  ELSE "none"

Reason ==
  IF "dog" \in done THEN "timeout"
  ELSE IF tooBig THEN "too big"
  ELSE IF "b2c" \in done THEN "backend's"
  ELSE IF "c2b" \in done /\ told THEN "client's"
  ELSE "none"

(* Closing a connection that is closed does nothing (the client's raises a *)
(* RuntimeError that is caught).                                           *)
Closed(connection, code) == IF connection = "open" THEN code ELSE connection

(* The backend's close code when it has one, 1000 when the task ended      *)
(* because a message could not be sent to the client.                      *)
BackendCode == IF backend \in Away THEN "backend's" ELSE "1000"

(* The code of a backend that is lost cannot be sent to the client: no     *)
(* clause catches that error.                                              *)
CloseFails == Reason = "backend's" /\ backend = "lost" /\ client = "open"

CloseClient ==
  /\ main = "closing"
  /\ client' = IF Reason \in {"timeout", "too big"} THEN Closed(client, Reason)
               ELSE IF Reason = "backend's" /\ ~CloseFails
                 THEN Closed(client, BackendCode)
               ELSE client
  /\ main' = IF CloseFails THEN "failed"
             ELSE IF Reason \in {"backend's", "none"} THEN "returned"
             ELSE "closing backend"
  /\ UNCHANGED <<parameters, backend, tasks, clock, told, tooBig, done, pending>>

(* The error of sending the backend the code of a client that is lost is   *)
(* swallowed, and the backend is still open.                               *)
CloseBackend ==
  /\ main = "closing backend"
  /\ backend' = IF Reason = "client's" /\ client = "lost" THEN backend
                ELSE Closed(backend, Reason)
  /\ main' = "returned"
  /\ UNCHANGED <<parameters, client, tasks, clock, told, tooBig, done, pending>>

(* proxy_websocket after its relay: the context of websockets.connect      *)
(* closes the backend; an exception closes the client with 1011, but not   *)
(* when closing it was what failed: it is not closed twice.  The server    *)
(* drops a client that nobody closed.                                      *)
Leave ==
  /\ main \in {"returned", "raised", "failed"}
  /\ backend' = Closed(backend, "1000")
  /\ client' = Closed(client, IF main = "raised" THEN "1011" ELSE "dropped")
  /\ main' = "gone"
  /\ UNCHANGED <<parameters, tasks, clock, told, tooBig, done, pending>>

-----------------------------------------------------------------------------
Coroutine ==
  Wake \/ CancelNext \/ AwaitEnded \/ AllCancelled \/ CloseClient
  \/ CloseBackend \/ Leave

Next ==
  \/ ClientLeaves \/ BackendLeaves
  \/ ReceiveFromClient \/ SendToBackend \/ SendToBackendRaises
  \/ ClientDisconnects
  \/ ReceiveFromBackend \/ SendToClient \/ SendToClientRaises
  \/ BackendCloses \/ PayloadTooBig
  \/ Tick \/ Watch
  \/ Coroutine

Spec == Init /\ [][Next]_vars

(* Time passes, and the event loop resumes the watchdog and the main       *)
(* coroutine.  Nothing is assumed of either end or of the carrying tasks.  *)
FairSpec == Spec /\ WF_vars(Tick) /\ WF_vars(Watch) /\ WF_vars(Coroutine)

-----------------------------------------------------------------------------
(* A timeout is told to both ends, whoever else ends meanwhile: unless the *)
(* coroutine raised, an end that has not left by itself was closed with    *)
(* 1001.                                                                   *)
TimeoutTold ==
  main = "returned" /\ "dog" \in done =>
    client \in Away \cup {"timeout"} /\ backend \in Away \cup {"timeout"}

(* The relay leaves no task running: an exception can only escape from the *)
(* last of the tasks it awaits, when the others are cancelled already.     *)
NothingLeftBehind ==
  main \in {"returned", "raised", "failed", "gone"} =>
    pending = {} /\ \A t \in TaskNames : StateOf(t) \in Ended

(* A lifetime ends every relay, whatever both ends do.                     *)
LifetimeEnds == maxLifetime > 0 => <>(main = "gone")

(* An idle timeout ends a relay on which no message arrives any more.      *)
IdleEnds ==
  idleTimeout > 0 =>
    (<>[][~(ReceiveFromClient \/ ReceiveFromBackend)]_vars => <>(main = "gone"))

(* The close code of the end that leaves reaches the other one, as the     *)
(* tests of both directions say.  Of a client that is lost the backend is  *)
(* told a normal end, and the client is dropped when the backend is lost.  *)
(* Neither is said of a relay that a limit or an oversized message ended,  *)
(* or when a message to the end that left was under way: the task that     *)
(* sends it raises, and that is taken for something else.                  *)
CodesPropagate ==
  main = "gone" /\ Reason \notin {"timeout", "too big"} =>
    /\ b2c # "raised" =>
         /\ client = "left" => backend \in Away \cup {"client's"}
         /\ client = "lost" => backend \in Away \cup {"1000"}
    /\ c2b # "raised" =>
         /\ backend = "left" => client \in Away \cup {"backend's"}
         /\ backend = "lost" => client \in Away \cup {"dropped"}
=============================================================================
