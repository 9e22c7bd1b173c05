------------------------- MODULE WebSocketRelayProofs -------------------------
(***************************************************************************)
(* Proofs about WebSocketRelay, for any limits and any behaviour of both   *)
(* ends.                                                                   *)
(***************************************************************************)
EXTENDS WebSocketRelay, TLAPS

(***************************************************************************)
(* The tasks.  All but the ones still pending have ended once the          *)
(* coroutine has been woken, and at most one is pending: of three tasks    *)
(* one had ended, and another was cancelled at once.                       *)
(***************************************************************************)
TasksEnded ==
  /\ main = "waiting" => done = {} /\ pending = {}
  /\ main # "waiting" =>
       /\ done # {} /\ done \cap pending = {}
       /\ \A t \in TaskNames \ pending : StateOf(t) \in Ended
       /\ \A s, t \in pending : s = t
  /\ main \notin {"waiting", "cancelling"} => pending = {}
  /\ ~Watched => dog = "cancelled"

(* Why a task has ended, and what that says of its ends.                   *)
WhyEnded ==
  /\ c2b = "returned" => told
  /\ told => client \in Away
  /\ c2b = "raised" => backend # "open"
  /\ b2c = "returned" /\ ~tooBig => backend # "open"
  /\ b2c = "raised" => client # "open"
  /\ dog # "raised"
  /\ main = "waiting" => c2b # "cancelled" /\ b2c # "cancelled"
  /\ "c2b" \in done => c2b \in {"returned", "raised"}
  /\ "b2c" \in done => b2c \in {"returned", "raised"}

USE DEF Away

Alone(connection) == connection \in {"open", "left", "lost"}

(* What each end has been told, as far as the coroutine has come.          *)
ToldSoFar ==
  /\ main \in {"waiting", "cancelling", "closing", "raised"} =>
       Alone(client) /\ Alone(backend)
  /\ main = "raised" =>
       \/ c2b = "raised" /\ "c2b" \notin done
       \/ b2c = "raised" /\ "b2c" \notin done
  /\ main = "closing backend" =>
       /\ Reason \in {"timeout", "too big", "client's"} /\ Alone(backend)
       /\ client \in Away \cup {Reason} /\ (Reason = "client's" => client \in Away)
  /\ main = "failed" =>
       Reason = "backend's" /\ backend = "lost" /\ Alone(client)
  /\ main = "returned" =>
       /\ Reason \in {"timeout", "too big"} =>
            client \in Away \cup {Reason} /\ backend \in Away \cup {Reason}
       /\ Reason = "client's" =>
            \/ client = "left" /\ backend \in Away \cup {"client's"}
            \/ client = "lost" /\ Alone(backend)
       /\ Reason = "backend's" =>
            /\ Alone(backend)
            /\ client \in Away \/ (backend = "left" /\ client = "backend's")
       /\ Reason = "none" => Alone(client) /\ backend \in Away
  /\ main = "gone" => client # "open" /\ backend # "open"

RelayInv == TypeOK /\ TasksEnded /\ WhyEnded /\ ToldSoFar /\ CodesPropagate

-----------------------------------------------------------------------------
(* The branches of the coroutine's end, one by one.                        *)
LEMMA ReasonIs ==
  /\ Reason \in {"timeout", "too big", "backend's", "client's", "none"}
  /\ Reason = "timeout" <=> "dog" \in done
  /\ Reason = "too big" <=> "dog" \notin done /\ tooBig
  /\ Reason = "backend's" <=> "dog" \notin done /\ ~tooBig /\ "b2c" \in done
  /\ Reason = "client's" <=>
       "dog" \notin done /\ ~tooBig /\ "b2c" \notin done /\ "c2b" \in done /\ told
  BY DEF Reason

(* A task that has not ended is one that the coroutine has still to wait   *)
(* for.                                                                    *)
LEMMA Running ==
  ASSUME RelayInv
  PROVE  \A t \in TaskNames : StateOf(t) \notin Ended =>
           \/ main = "waiting"
           \/ main = "cancelling" /\ pending = {t}
  BY DEF RelayInv, TypeOK, TasksEnded

LEMMA Limits ==
  ASSUME TypeOK
  PROVE  idleTimeout \in Nat /\ maxLifetime \in Nat
  BY TimeoutsAssumption DEF TypeOK

(* The coroutine and the parameters keep their types when they are left    *)
(* alone.                                                                  *)
LEMMA TypeSteps ==
  ASSUME TypeOK, UNCHANGED <<parameters, coroutine>>
  PROVE  /\ idleTimeout' \in IdleTimeouts /\ maxLifetime' \in MaxLifetimes
         /\ main' \in {"waiting", "cancelling", "closing", "closing backend",
                        "returned", "raised", "failed", "gone"}
         /\ done' \subseteq TaskNames' /\ pending' \subseteq TaskNames'
  BY DEF TypeOK, TaskNames, Watched, parameters, coroutine

LEMMA RelayInit == Init => RelayInv
<1> SUFFICES ASSUME Init
             PROVE  RelayInv
  OBVIOUS
<1>1. TypeOK
  <2>1. 0 \in 0 .. idleTimeout /\ 0 \in 0 .. maxLifetime
    BY TimeoutsAssumption DEF Init
  <2>2. dog \in {"asleep", "cancelled"}
    BY DEF Init
  <2> QED
    BY <2>1, <2>2 DEF Init, TypeOK, Ended
<1> QED
  BY <1>1 DEF RelayInv, Init, TasksEnded, WhyEnded, ToldSoFar, CodesPropagate, Alone

(* Either end leaves.                                                      *)
LEMMA EndLeaves == RelayInv /\ (ClientLeaves \/ BackendLeaves) => RelayInv'
<1> SUFFICES ASSUME RelayInv, ClientLeaves \/ BackendLeaves
             PROVE  RelayInv'
  OBVIOUS
<1>1. /\ UNCHANGED <<parameters, tasks, clock, told, tooBig, coroutine>>
      /\ \/ client = "open" /\ client' \in Away /\ backend' = backend
         \/ backend = "open" /\ backend' \in Away /\ client' = client
  BY DEF ClientLeaves, BackendLeaves
<1>2. Reason' = Reason
  BY <1>1 DEF Reason, coroutine
<1>3. TypeOK' /\ TasksEnded'
  <2>1. TypeOK'
    BY <1>1, TypeSteps DEF RelayInv, TypeOK, tasks, clock, parameters
  <2>2. TasksEnded'
    BY <1>1 DEF RelayInv, TasksEnded, StateOf, TaskNames, Watched, parameters,
                tasks, coroutine
  <2> QED
    BY <2>1, <2>2
<1>4. WhyEnded'
  BY <1>1 DEF RelayInv, WhyEnded, tasks, coroutine
<1>5. main' # "gone"
  BY <1>1 DEF RelayInv, ToldSoFar, coroutine
<1>6. ToldSoFar' /\ CodesPropagate'
  BY <1>1, <1>2, <1>5 DEF RelayInv, ToldSoFar, CodesPropagate, Alone, tasks, coroutine
<1> QED
  BY <1>3, <1>4, <1>6 DEF RelayInv

(* What a task that has not ended may change: only what its own end says.  *)
LEMMA TaskMoves ==
  ASSUME RelayInv, NEW t \in {"c2b", "b2c"}, StateOf(t) \notin Ended,
         UNCHANGED <<parameters, client, backend, dog, coroutine>>,
         \A s \in {"c2b", "b2c"} : s # t => StateOf(s)' = StateOf(s)
  PROVE  TasksEnded' /\ ToldSoFar' /\ CodesPropagate'
<1>1. t \in TaskNames
  BY DEF TaskNames
<1>2. main = "waiting" \/ (main = "cancelling" /\ pending = {t})
  BY <1>1, Running
<1>3. UNCHANGED <<main, done, pending, TaskNames, Watched>>
  BY DEF coroutine, parameters, TaskNames, Watched
<1>4. \A s \in TaskNames : s # t => StateOf(s)' = StateOf(s)
  BY DEF TaskNames, StateOf
<1>5. TasksEnded'
  BY <1>2, <1>3, <1>4 DEF RelayInv, TasksEnded
<1>6. ToldSoFar' /\ CodesPropagate'
  BY <1>2, <1>3 DEF RelayInv, ToldSoFar, CodesPropagate, Alone
<1> QED
  BY <1>5, <1>6

LEMMA ClientTask ==
  RelayInv /\ (ReceiveFromClient \/ SendToBackend \/ SendToBackendRaises
               \/ ClientDisconnects) => RelayInv'
<1> SUFFICES ASSUME RelayInv, ReceiveFromClient \/ SendToBackend
                              \/ SendToBackendRaises \/ ClientDisconnects
             PROVE  RelayInv'
  OBVIOUS
<1> USE DEF ReceiveFromClient, SendToBackend, SendToBackendRaises, ClientDisconnects,
            C2BStep
<1>1. /\ StateOf("c2b") \notin Ended
      /\ UNCHANGED <<parameters, client, backend, b2c, dog, age, tooBig, coroutine>>
  BY DEF StateOf, Ended
<1>2. TasksEnded' /\ ToldSoFar' /\ CodesPropagate'
  BY <1>1, TaskMoves DEF StateOf
<1>3. TypeOK'
  <2>1. 0 \in 0 .. idleTimeout
    BY Limits DEF RelayInv
  <2>2. /\ idleTimeout' \in IdleTimeouts /\ maxLifetime' \in MaxLifetimes
        /\ main' \in {"waiting", "cancelling", "closing", "closing backend",
                       "returned", "raised", "failed", "gone"}
        /\ done' \subseteq TaskNames' /\ pending' \subseteq TaskNames'
    BY <1>1, TypeSteps DEF RelayInv
  <2>3. idle' \in 0 .. idleTimeout' /\ age' \in 0 .. maxLifetime'
    BY <1>1, <2>1 DEF RelayInv, TypeOK, parameters
  <2>4. /\ UNCHANGED <<client, backend, dog>>
        /\ c2b' \in {"receive", "send"} \cup Ended
        /\ b2c' \in {"receive", "send"} \cup Ended
    BY <1>1 DEF RelayInv, TypeOK, Ended
  <2>5. told' \in BOOLEAN /\ tooBig' \in BOOLEAN
    BY <1>1 DEF RelayInv, TypeOK
  <2> QED
    BY <2>2, <2>3, <2>4, <2>5 DEF RelayInv, TypeOK
<1>4. WhyEnded'
  <2>1. "c2b" \notin done
    BY <1>1 DEF RelayInv, WhyEnded, StateOf, Ended
  <2> QED
    BY <1>1, <2>1 DEF RelayInv, WhyEnded, coroutine
<1> QED
  BY <1>2, <1>3, <1>4 DEF RelayInv

LEMMA BackendTask ==
  RelayInv /\ (ReceiveFromBackend \/ SendToClient \/ SendToClientRaises
               \/ BackendCloses \/ PayloadTooBig) => RelayInv'
<1> SUFFICES ASSUME RelayInv, ReceiveFromBackend \/ SendToClient
                              \/ SendToClientRaises \/ BackendCloses \/ PayloadTooBig
             PROVE  RelayInv'
  OBVIOUS
<1> USE DEF ReceiveFromBackend, SendToClient, SendToClientRaises, BackendCloses,
            PayloadTooBig, B2CStep
<1>1. /\ StateOf("b2c") \notin Ended
      /\ UNCHANGED <<parameters, client, backend, c2b, dog, age, told, coroutine>>
  BY DEF StateOf, Ended
<1>2. TasksEnded' /\ ToldSoFar' /\ CodesPropagate'
  BY <1>1, TaskMoves DEF StateOf
<1>3. TypeOK'
  <2>1. 0 \in 0 .. idleTimeout
    BY Limits DEF RelayInv
  <2>2. /\ idleTimeout' \in IdleTimeouts /\ maxLifetime' \in MaxLifetimes
        /\ main' \in {"waiting", "cancelling", "closing", "closing backend",
                       "returned", "raised", "failed", "gone"}
        /\ done' \subseteq TaskNames' /\ pending' \subseteq TaskNames'
    BY <1>1, TypeSteps DEF RelayInv
  <2>3. idle' \in 0 .. idleTimeout' /\ age' \in 0 .. maxLifetime'
    BY <1>1, <2>1 DEF RelayInv, TypeOK, parameters
  <2>4. /\ UNCHANGED <<client, backend, dog>>
        /\ c2b' \in {"receive", "send"} \cup Ended
        /\ b2c' \in {"receive", "send"} \cup Ended
    BY <1>1 DEF RelayInv, TypeOK, Ended
  <2>5. told' \in BOOLEAN /\ tooBig' \in BOOLEAN
    BY <1>1 DEF RelayInv, TypeOK
  <2> QED
    BY <2>2, <2>3, <2>4, <2>5 DEF RelayInv, TypeOK
<1>4. WhyEnded'
  <2>1. "b2c" \notin done
    BY <1>1 DEF RelayInv, WhyEnded, StateOf, Ended
  <2> QED
    BY <1>1, <2>1 DEF RelayInv, WhyEnded, coroutine
<1> QED
  BY <1>2, <1>3, <1>4 DEF RelayInv

(* A second passes, or the watchdog looks at the clock.                    *)
LEMMA ClockStep == RelayInv /\ (Tick \/ Watch) => RelayInv'
<1> SUFFICES ASSUME RelayInv, Tick \/ Watch
             PROVE  RelayInv'
  OBVIOUS
<1>1. UNCHANGED <<parameters, client, backend, c2b, b2c, told, tooBig, coroutine>>
  BY DEF Tick, Watch
<1>2. \/ dog' = dog
      \/ dog \in {"asleep", "due"} /\ dog' \in {"asleep", "due", "returned"}
  BY DEF Tick, Watch
<1>3. TypeOK'
  <2>1. /\ idle \in 0 .. idleTimeout /\ age \in 0 .. maxLifetime
        /\ idleTimeout \in Nat /\ maxLifetime \in Nat
    BY Limits DEF RelayInv, TypeOK
  <2>2. /\ idleTimeout' \in IdleTimeouts /\ maxLifetime' \in MaxLifetimes
        /\ main' \in {"waiting", "cancelling", "closing", "closing backend",
                       "returned", "raised", "failed", "gone"}
        /\ done' \subseteq TaskNames' /\ pending' \subseteq TaskNames'
    BY <1>1, TypeSteps DEF RelayInv
  <2>3. idle' \in 0 .. idleTimeout' /\ age' \in 0 .. maxLifetime'
    BY <1>1, <2>1 DEF Tick, Watch, clock, parameters
  <2>4. dog' \in {"asleep", "due"} \cup Ended
    BY <1>2 DEF RelayInv, TypeOK, Ended
  <2> QED
    BY <1>1, <2>2, <2>3, <2>4, ZenonT(30) DEF RelayInv, TypeOK
<1>4. UNCHANGED <<main, done, pending, TaskNames, Watched, Reason>>
  BY <1>1 DEF coroutine, parameters, TaskNames, Watched, Reason
<1>5. TasksEnded'
  <2>1. CASE dog' = dog
    BY <1>1, <1>4, <2>1 DEF RelayInv, TasksEnded, StateOf, TaskNames
  <2>2. CASE dog \in {"asleep", "due"}
    <3>1. Watched
      BY <2>2 DEF RelayInv, TasksEnded
    <3>2. main = "waiting" \/ (main = "cancelling" /\ pending = {"dog"})
      BY <2>2, <3>1, Running DEF TaskNames, StateOf, Ended
    <3> QED
      BY <1>1, <1>4, <3>1, <3>2 DEF RelayInv, TasksEnded, StateOf, TaskNames
  <2> QED
    BY <1>2, <2>1, <2>2
<1>6. WhyEnded'
  BY <1>1, <1>2, <1>4 DEF RelayInv, WhyEnded
<1>7. ToldSoFar' /\ CodesPropagate'
  BY <1>1, <1>4 DEF RelayInv, ToldSoFar, CodesPropagate, Alone
<1> QED
  BY <1>3, <1>5, <1>6, <1>7 DEF RelayInv

-----------------------------------------------------------------------------
(* The coroutine                                                           *)

(* The types after a step that is no more than one of the coroutine.       *)
LEMMA CoroutineTypes ==
  ASSUME TypeOK, UNCHANGED <<idleTimeout, maxLifetime, idle, age, told, tooBig>>,
         client' \in {client, "timeout", "too big", "backend's", "1000", "1011", "dropped"},
         backend' \in {backend, "timeout", "too big", "client's", "1000"},
         c2b' \in {c2b, "cancelled"}, b2c' \in {b2c, "cancelled"},
         dog' \in {dog, "cancelled"},
         main' \in {main, "cancelling", "closing", "closing backend", "returned",
                   "raised", "failed", "gone"},
         done' \subseteq TaskNames, pending' \subseteq TaskNames
  PROVE  TypeOK'
<1>1. TaskNames' = TaskNames
  BY DEF TaskNames, Watched
<1>2. /\ c2b' \in {"receive", "send"} \cup Ended
      /\ b2c' \in {"receive", "send"} \cup Ended
      /\ dog' \in {"asleep", "due"} \cup Ended
  BY DEF TypeOK, Ended
<1>3. told' \in BOOLEAN /\ tooBig' \in BOOLEAN
  BY DEF TypeOK
<1>4. /\ client' \in {"open", "left", "lost", "timeout", "too big", "backend's",
                      "1000", "1011", "dropped"}
      /\ backend' \in {"open", "left", "lost", "timeout", "too big", "client's",
                       "1000"}
  BY DEF TypeOK
<1>5. /\ idleTimeout' \in IdleTimeouts /\ maxLifetime' \in MaxLifetimes
      /\ idle' \in 0 .. idleTimeout' /\ age' \in 0 .. maxLifetime'
  BY DEF TypeOK
<1> QED
  BY <1>1, <1>2, <1>3, <1>4, <1>5 DEF TypeOK

(* A cancelled task has ended, and the others are as they were.            *)
LEMMA CancelEnds ==
  ASSUME TypeOK, NEW t \in TaskNames, Cancel(t), TaskNames' = TaskNames
  PROVE  /\ StateOf(t)' = "cancelled"
         /\ \A s \in TaskNames : s # t => StateOf(s)' = StateOf(s)
         /\ "dog" \notin TaskNames => dog' = dog
         /\ c2b' \in {c2b, "cancelled"} /\ b2c' \in {b2c, "cancelled"}
         /\ dog' \in {dog, "cancelled"}
  BY DEF Cancel, StateOf, TaskNames

(* The first task has ended, and the coroutine cancels another or none.    *)
LEMMA WakeStep == RelayInv /\ Wake => RelayInv'
<1> SUFFICES ASSUME RelayInv, Wake
             PROVE  RelayInv'
  OBVIOUS
<1> DEFINE over == {t \in TaskNames : StateOf(t) \in Ended}
<1>1. /\ main = "waiting" /\ over # {} /\ done' = over
      /\ UNCHANGED <<idleTimeout, maxLifetime, client, backend, idle, age, told, tooBig>>
  BY DEF Wake, parameters, clock
<1>2. UNCHANGED <<TaskNames, Watched>>
  BY <1>1 DEF TaskNames, Watched
<1>3. /\ "c2b" \in over => c2b \in {"returned", "raised"}
      /\ "b2c" \in over => b2c \in {"returned", "raised"}
  BY <1>1 DEF RelayInv, WhyEnded, Ended, StateOf
<1>4. CASE over = TaskNames
  <2>1. main' = "closing" /\ pending' = {} /\ UNCHANGED <<c2b, b2c, dog>>
    BY <1>4 DEF Wake, tasks
  <2>2. TypeOK'
    BY <1>1, <2>1, CoroutineTypes DEF RelayInv
  <2>3. TasksEnded'
    BY <1>1, <1>2, <1>4, <2>1 DEF RelayInv, TasksEnded, StateOf
  <2>4. WhyEnded'
    BY <1>1, <1>3, <2>1 DEF RelayInv, WhyEnded
  <2>5. ToldSoFar' /\ CodesPropagate'
    BY <1>1, <2>1 DEF RelayInv, ToldSoFar, CodesPropagate
  <2> QED
    BY <2>2, <2>3, <2>4, <2>5 DEF RelayInv
<1>5. CASE over # TaskNames
  <2>1. PICK t \in TaskNames \ over :
          /\ Cancel(t) /\ pending' = TaskNames \ (over \cup {t})
          /\ main' = "cancelling"
    BY <1>5 DEF Wake
  <2>2. /\ StateOf(t)' = "cancelled"
        /\ \A s \in TaskNames : s # t => StateOf(s)' = StateOf(s)
        /\ "dog" \notin TaskNames => dog' = dog
        /\ c2b' \in {c2b, "cancelled"} /\ b2c' \in {b2c, "cancelled"}
        /\ dog' \in {dog, "cancelled"}
    BY <1>2, <2>1, CancelEnds DEF RelayInv
  <2>3. TypeOK'
    BY <1>1, <2>1, <2>2, CoroutineTypes DEF RelayInv
  <2>4. TasksEnded'
    <3>1. \A s \in TaskNames \ pending' : StateOf(s)' \in Ended
      BY <2>1, <2>2 DEF Ended
    <3>2. \A q, r \in pending' : q = r
      BY <1>1, <2>1 DEF TaskNames
    <3>3. ~Watched => dog' = "cancelled"
      BY <2>2 DEF RelayInv, TasksEnded
    <3>4. done' # {} /\ done' \cap pending' = {}
      BY <1>1, <2>1
    <3> QED
      BY <1>2, <2>1, <3>1, <3>2, <3>3, <3>4 DEF TasksEnded
  <2>5. WhyEnded'
    <3>1. t = "c2b" => "c2b" \notin over
      BY <2>1
    <3>2. "c2b" \in over => c2b' = c2b
      BY <2>1, <2>2 DEF StateOf
    <3>3. "b2c" \in over => b2c' = b2c
      BY <2>1, <2>2 DEF StateOf
    <3> QED
      BY <1>1, <1>3, <2>1, <2>2, <3>2, <3>3 DEF RelayInv, WhyEnded
  <2>6. ToldSoFar' /\ CodesPropagate'
    BY <1>1, <2>1 DEF RelayInv, ToldSoFar, CodesPropagate
  <2> QED
    BY <2>3, <2>4, <2>5, <2>6 DEF RelayInv
<1> QED
  BY <1>4, <1>5

(* The last pending task is cancelled.                                     *)
LEMMA CancelStep == RelayInv /\ CancelNext => RelayInv'
<1> SUFFICES ASSUME RelayInv, CancelNext
             PROVE  RelayInv'
  OBVIOUS
<1>1. /\ main = "cancelling"
      /\ UNCHANGED <<idleTimeout, maxLifetime, client, backend, idle, age, told,
                     tooBig, main, done>>
  BY DEF CancelNext, parameters, clock
<1>2. UNCHANGED <<TaskNames, Watched>>
  BY <1>1 DEF TaskNames, Watched
<1>3. PICK t \in pending :
        StateOf(t) \notin Ended /\ Cancel(t) /\ pending' = pending \ {t}
  BY DEF CancelNext
<1>4. t \in TaskNames /\ t \notin done
  BY <1>1, <1>3 DEF RelayInv, TypeOK, TasksEnded
<1>5. /\ StateOf(t)' = "cancelled"
      /\ \A s \in TaskNames : s # t => StateOf(s)' = StateOf(s)
      /\ "dog" \notin TaskNames => dog' = dog
      /\ c2b' \in {c2b, "cancelled"} /\ b2c' \in {b2c, "cancelled"}
      /\ dog' \in {dog, "cancelled"}
  BY <1>2, <1>3, <1>4, CancelEnds DEF RelayInv
<1>6. TypeOK'
  <2>1. done \subseteq TaskNames /\ pending \subseteq TaskNames
    BY DEF RelayInv, TypeOK
  <2> QED
    BY <1>1, <1>3, <1>5, <2>1, CoroutineTypes DEF RelayInv
<1>7. TasksEnded'
  <2>1. \A s \in TaskNames \ pending' : StateOf(s)' \in Ended
    BY <1>1, <1>3, <1>5 DEF RelayInv, TasksEnded, Ended
  <2>2. ~Watched => dog' = "cancelled"
    BY <1>5 DEF RelayInv, TasksEnded
  <2> QED
    BY <1>1, <1>2, <1>3, <2>1, <2>2 DEF RelayInv, TasksEnded
<1>8. WhyEnded'
  <2>1. "c2b" \in done => c2b' = c2b
    BY <1>4, <1>5 DEF StateOf, TaskNames
  <2>2. "b2c" \in done => b2c' = b2c
    BY <1>4, <1>5 DEF StateOf, TaskNames
  <2> QED
    BY <1>1, <1>5, <2>1, <2>2 DEF RelayInv, WhyEnded
<1>9. ToldSoFar' /\ CodesPropagate'
  BY <1>1 DEF RelayInv, ToldSoFar, CodesPropagate
<1> QED
  BY <1>6, <1>7, <1>8, <1>9 DEF RelayInv

(* It has ended before its turn came: what it raised may escape, when      *)
(* nothing is pending any more.                                            *)
LEMMA AwaitStep == RelayInv /\ (AwaitEnded \/ AllCancelled) => RelayInv'
<1> SUFFICES ASSUME RelayInv, AwaitEnded \/ AllCancelled
             PROVE  RelayInv'
  OBVIOUS
<1>1. /\ main = "cancelling"
      /\ UNCHANGED <<idleTimeout, maxLifetime, client, backend, c2b, b2c, dog, idle,
                     age, told, tooBig, done>>
  BY DEF AwaitEnded, AllCancelled, parameters, tasks, clock
<1>2. UNCHANGED <<TaskNames, Watched>> /\ \A t \in TaskNames : StateOf(t)' = StateOf(t)
  BY <1>1 DEF TaskNames, Watched, StateOf
<1>3. /\ main' \in {"cancelling", "closing", "raised"} /\ pending' = {}
      /\ \A t \in pending : StateOf(t) \in Ended
      /\ main' = "raised" => \E t \in pending : StateOf(t) = "raised"
  BY <1>1 DEF AwaitEnded, AllCancelled, RelayInv, TasksEnded
<1>4. TypeOK'
  <2>1. done \subseteq TaskNames
    BY DEF RelayInv, TypeOK
  <2> QED
    BY <1>1, <1>3, <2>1, CoroutineTypes DEF RelayInv
<1>5. TasksEnded'
  BY <1>1, <1>2, <1>3 DEF RelayInv, TasksEnded
<1>6. WhyEnded'
  BY <1>1, <1>3 DEF RelayInv, WhyEnded
<1>7. ToldSoFar'
  <2>1. ASSUME NEW t \in pending, StateOf(t) = "raised"
        PROVE  \/ c2b = "raised" /\ "c2b" \notin done
               \/ b2c = "raised" /\ "b2c" \notin done
    BY <1>1, <2>1 DEF RelayInv, TypeOK, TasksEnded, WhyEnded, StateOf, TaskNames
  <2> QED
    BY <1>1, <1>3, <2>1 DEF RelayInv, ToldSoFar
<1>8. CodesPropagate'
  BY <1>3 DEF CodesPropagate
<1> QED
  BY <1>4, <1>5, <1>6, <1>7, <1>8 DEF RelayInv

(* The coroutine tells each end why the relay is over.                     *)
LEMMA CloseStep == RelayInv /\ (CloseClient \/ CloseBackend) => RelayInv'
<1> SUFFICES ASSUME RelayInv, CloseClient \/ CloseBackend
             PROVE  RelayInv'
  OBVIOUS
<1>1. UNCHANGED <<idleTimeout, maxLifetime, c2b, b2c, dog, idle, age, told, tooBig,
                  done, pending>>
  BY DEF CloseClient, CloseBackend, parameters, tasks, clock
<1>2. /\ main \in {"closing", "closing backend"}
      /\ main' \in {"closing backend", "returned", "failed"}
  BY DEF CloseClient, CloseBackend
<1>3. UNCHANGED <<TaskNames, Watched, Reason>> /\ \A t \in TaskNames : StateOf(t)' = StateOf(t)
  BY <1>1 DEF TaskNames, Watched, Reason, StateOf
<1>4. /\ client' = client \/ (client = "open" /\ client' \in {"timeout", "too big",
                                                            "backend's", "1000"})
      /\ backend' = backend \/ (backend = "open" /\ backend' \in {"timeout", "too big",
                                                               "client's"})
  <2>1. CASE CloseClient
    BY <2>1 DEF CloseClient, Closed, BackendCode
  <2>2. CASE CloseBackend
    BY <2>2 DEF CloseBackend, Closed, RelayInv, ToldSoFar
  <2> QED
    BY <2>1, <2>2
<1>5. TypeOK'
  <2>1. done \subseteq TaskNames /\ pending \subseteq TaskNames
    BY DEF RelayInv, TypeOK
  <2> QED
    BY <1>1, <1>2, <1>4, <2>1, CoroutineTypes DEF RelayInv
<1>6. TasksEnded'
  BY <1>1, <1>2, <1>3 DEF RelayInv, TasksEnded
<1>7. WhyEnded'
  BY <1>1, <1>2, <1>4 DEF RelayInv, WhyEnded
<1>8. ToldSoFar'
  <2>1. CASE CloseClient
    <3>1. /\ main = "closing" /\ Alone(client) /\ Alone(backend) /\ backend' = backend
          /\ "b2c" \in done => b2c \in {"returned", "raised"}
          /\ "c2b" \in done => c2b \in {"returned", "raised"}
          /\ done # {} /\ done \subseteq TaskNames
      BY <2>1 DEF CloseClient, RelayInv, ToldSoFar, WhyEnded, TasksEnded, TypeOK
    <3>2. CASE Reason \in {"timeout", "too big"}
      BY <1>3, <2>1, <3>1, <3>2 DEF CloseClient, CloseFails, Closed, ToldSoFar, Alone
    <3>3. CASE Reason = "backend's"
      <4>1. (b2c = "raised" /\ client \in Away) \/ backend \in Away
        BY <3>1, <3>3, ReasonIs DEF RelayInv, WhyEnded, Alone
      <4> QED
        BY <1>3, <2>1, <3>1, <3>3, <4>1 DEF CloseClient, CloseFails, Closed,
             BackendCode, ToldSoFar, Alone
    <3>4. CASE Reason = "client's"
      <4>1. client \in Away
        BY <3>4, ReasonIs DEF RelayInv, WhyEnded
      <4> QED
        BY <1>3, <2>1, <3>1, <3>4, <4>1 DEF CloseClient, CloseFails, ToldSoFar, Alone
    <3>5. CASE Reason = "none"
      <4>1. "c2b" \in done /\ ~told
        BY <3>1, <3>5, ReasonIs DEF TaskNames
      <4>2. backend \in Away
        BY <3>1, <4>1 DEF RelayInv, WhyEnded, Alone
      <4> QED
        BY <1>3, <2>1, <3>1, <3>5, <4>2 DEF CloseClient, CloseFails, ToldSoFar
    <3> QED
      BY <3>2, <3>3, <3>4, <3>5, ReasonIs
  <2>2. CASE CloseBackend
    BY <1>3, <2>2 DEF CloseBackend, Closed, RelayInv, ToldSoFar, Alone
  <2> QED
    BY <2>1, <2>2
<1>9. CodesPropagate'
  BY <1>2 DEF CodesPropagate
<1> QED
  BY <1>5, <1>6, <1>7, <1>8, <1>9 DEF RelayInv

(* proxy_websocket leaves, and closes what is still open.                  *)
LEMMA LeaveStep == RelayInv /\ Leave => RelayInv'
<1> SUFFICES ASSUME RelayInv, Leave
             PROVE  RelayInv'
  OBVIOUS
<1>1. /\ main \in {"returned", "raised", "failed"} /\ main' = "gone"
      /\ backend' = IF backend = "open" THEN "1000" ELSE backend
      /\ client' = IF client = "open" THEN IF main = "raised" THEN "1011" ELSE "dropped"
                   ELSE client
      /\ UNCHANGED <<idleTimeout, maxLifetime, c2b, b2c, dog, idle, age, told, tooBig,
                     done, pending>>
  BY DEF Leave, Closed, parameters, tasks, clock
<1>2. UNCHANGED <<TaskNames, Watched, Reason>> /\ \A t \in TaskNames : StateOf(t)' = StateOf(t)
  BY <1>1 DEF TaskNames, Watched, Reason, StateOf
<1>3. TypeOK'
  <2>1. done \subseteq TaskNames /\ pending \subseteq TaskNames
    BY DEF RelayInv, TypeOK
  <2> QED
    BY <1>1, <2>1, CoroutineTypes DEF RelayInv
<1>4. TasksEnded' /\ WhyEnded' /\ ToldSoFar'
  BY <1>1, <1>2 DEF RelayInv, TasksEnded, WhyEnded, ToldSoFar
<1>5. ASSUME Reason \notin {"timeout", "too big"}
      PROVE  /\ b2c # "raised" =>
                  /\ client = "left" => backend \in Away \cup {"client's"}
                  /\ client = "lost" => backend' \in Away \cup {"1000"}
             /\ c2b # "raised" =>
                  /\ backend = "left" => client \in Away \cup {"backend's"}
                  /\ backend = "lost" => client' \in Away \cup {"dropped"}
  <2>1. CASE main = "raised"
    BY <1>1, <2>1 DEF RelayInv, ToldSoFar, WhyEnded, Alone
  <2>2. CASE main = "failed"
    BY <1>1, <2>2 DEF RelayInv, ToldSoFar, Alone
  <2>3. CASE main = "returned" /\ Reason = "client's"
    BY <1>1, <2>3 DEF RelayInv, ToldSoFar, Alone
  <2>4. CASE main = "returned" /\ Reason = "backend's"
    <3>1. (b2c = "returned" /\ backend # "open") \/ b2c = "raised"
      BY <2>4, ReasonIs DEF RelayInv, WhyEnded
    <3> QED
      BY <1>1, <2>4, <3>1 DEF RelayInv, ToldSoFar, Alone
  <2>5. CASE main = "returned" /\ Reason = "none"
    <3>1. "c2b" \in done /\ ~told
      BY <2>5, ReasonIs DEF RelayInv, TypeOK, TasksEnded, TaskNames
    <3>2. c2b = "raised"
      BY <3>1 DEF RelayInv, WhyEnded
    <3> QED
      BY <1>1, <2>5, <3>2 DEF RelayInv, ToldSoFar
  <2> QED
    BY <1>1, <1>5, <2>1, <2>2, <2>3, <2>4, <2>5, ReasonIs
<1>6. CodesPropagate'
  BY <1>1, <1>2, <1>5 DEF CodesPropagate
<1> QED
  BY <1>3, <1>4, <1>6 DEF RelayInv

LEMMA RelayStep == RelayInv /\ [Next]_vars => RelayInv'
<1>1. RelayInv /\ UNCHANGED vars => RelayInv'
  <2> SUFFICES ASSUME RelayInv, UNCHANGED vars
               PROVE  RelayInv'
    OBVIOUS
  <2>1. UNCHANGED <<idleTimeout, maxLifetime, client, backend, c2b, b2c, dog, idle,
                    age, told, tooBig, main, done, pending>>
    BY DEF vars, parameters, tasks, clock, coroutine
  <2>2. /\ UNCHANGED <<TaskNames, Watched, Reason>>
        /\ \A t \in TaskNames : StateOf(t)' = StateOf(t)
    BY <2>1 DEF TaskNames, Watched, Reason, StateOf
  <2>3. TypeOK'
    <3>1. done \subseteq TaskNames /\ pending \subseteq TaskNames
      BY DEF RelayInv, TypeOK
    <3> QED
      BY <2>1, <3>1, CoroutineTypes DEF RelayInv
  <2>4. TasksEnded' /\ WhyEnded'
    BY <2>1, <2>2 DEF RelayInv, TypeOK, TasksEnded, WhyEnded
  <2>5. ToldSoFar' /\ CodesPropagate'
    BY <2>1, <2>2 DEF RelayInv, ToldSoFar, CodesPropagate, Alone
  <2> QED
    BY <2>3, <2>4, <2>5 DEF RelayInv
<1> QED
  BY <1>1, EndLeaves, ClientTask, BackendTask, ClockStep, WakeStep, CancelStep,
     AwaitStep, CloseStep, LeaveStep DEF Next, Coroutine

(* The invariant of _relay_websocket, for any limits.                      *)
THEOREM RelayInvariance == Spec => []RelayInv
  BY RelayInit, RelayStep, PTL DEF Spec

(* _relay_websocket tells both ends of a limit that has expired, whoever   *)
(* else ends, fails or leaves in the same instant.                         *)
THEOREM TimeoutAlwaysTold == Spec => []TimeoutTold
<1>1. RelayInv => TimeoutTold
  BY ReasonIs DEF RelayInv, ToldSoFar, TimeoutTold
<1> QED
  BY <1>1, RelayInvariance, PTL

(* When the coroutine is over, by return or by exception, all its tasks    *)
(* have ended: none can write to a connection any more.                    *)
THEOREM NothingEverLeftBehind == Spec => []NothingLeftBehind
<1>1. RelayInv => NothingLeftBehind
  BY DEF RelayInv, TasksEnded, NothingLeftBehind
<1> QED
  BY <1>1, RelayInvariance, PTL

(* The close code of the end that left reaches the other one, and of an end *)
(* that is lost the other learns what CodesPropagate says, unless a limit, *)
(* an oversized message or a failed send came first.                       *)
THEOREM CodesAlwaysPropagate == Spec => []CodesPropagate
<1>1. RelayInv => CodesPropagate
  BY DEF RelayInv
<1> QED
  BY <1>1, RelayInvariance, PTL
=============================================================================
