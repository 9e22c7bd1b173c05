--------------------------- MODULE WebSocketProxy ---------------------------
(***************************************************************************)
(* proxy_websocket of the sandbox router, for many connections at once,    *)
(* and the WebSocketConnectionTracker they share.                          *)
(*                                                                         *)
(* Handlers run on one event loop.  The tracker's lock is only held        *)
(* between two suspension points, so acquire and release are single steps; *)
(* connecting, relaying and closing suspend.  What a relay does is the     *)
(* matter of WebSocketRelay.                                               *)
(***************************************************************************)
EXTENDS Integers, FiniteSets

CONSTANTS Conns,         \* WebSocket connections that may be opened
          Clients,       \* keys that _client_connection_key may return
          MaxPerClient   \* WEBSOCKET_MAX_CONNECTIONS_PER_CLIENT, 0 disables

ASSUME ConnsAssumption == IsFiniteSet(Conns)
ASSUME MaxAssumption == MaxPerClient \in Nat
ASSUME ClientsAssumption == Clients # {}

VARIABLES
  pc,      \* pc[c]: where the handler of connection c is
  key,     \* key[c]: the handler's client_key, once it has one
  counts   \* WebSocketConnectionTracker._counts, a dictionary

vars == <<pc, key, counts>>

(* The handler is between acquire and the release of its finally clause.   *)
Holding == {"connecting", "relaying", "closing"}

TypeOK ==
  /\ pc \in [Conns -> {"new", "refused", "rejected", "done"} \cup Holding]
  /\ key \in [Conns -> Clients]
  /\ DOMAIN counts \subseteq Clients
  /\ counts \in [DOMAIN counts -> Nat]

Init ==
  /\ pc = [c \in Conns |-> "new"]
  /\ key \in [Conns -> Clients]
  /\ counts = [k \in {} |-> 0]

Limited == MaxPerClient > 0

(* _counts.get(k, 0)                                                       *)
CountOf(k) == IF k \in DOMAIN counts THEN counts[k] ELSE 0

-----------------------------------------------------------------------------
(* acquire finds the limit reached.  (Faulty variant: one too many.)       *)
PastLimit(k) == Limited /\ CountOf(k) > MaxPerClient
AtLimit(k) == Limited /\ CountOf(k) >= MaxPerClient

Acquire(k) ==
  IF Limited
    THEN counts' = [j \in DOMAIN counts \cup {k} |->
                      IF j = k THEN CountOf(k) + 1 ELSE counts[j]]
    ELSE UNCHANGED counts

(* release drops the entry of a client's last connection.  (Faulty         *)
(* variant: the entry goes with the last but one.)                         *)
ReleaseTwo(k) ==
  IF ~Limited THEN UNCHANGED counts
  ELSE IF CountOf(k) <= 2
    THEN counts' = [j \in DOMAIN counts \ {k} |-> counts[j]]
    ELSE counts' = [counts EXCEPT ![k] = @ - 1]

Release(k) ==
  IF ~Limited THEN UNCHANGED counts
  ELSE IF CountOf(k) <= 1
    THEN counts' = [j \in DOMAIN counts \ {k} |-> counts[j]]
    ELSE counts' = [counts EXCEPT ![k] = @ - 1]

Goto(c, where) == pc' = [pc EXCEPT ![c] = where] /\ UNCHANGED key

-----------------------------------------------------------------------------
(* No valid token, or headers that name no sandbox: closed with 1008.      *)
Refuse(c) ==
  /\ pc[c] = "new"
  /\ Goto(c, "refused")
  /\ UNCHANGED counts

(* The client has too many connections: closed with 1008.                  *)
Reject(c) ==
  /\ pc[c] = "new"
  /\ AtLimit(key[c])
  /\ Goto(c, "rejected")
  /\ UNCHANGED counts

Admit(c) ==
  /\ pc[c] = "new"
  /\ ~AtLimit(key[c])
  /\ Acquire(key[c])
  /\ Goto(c, "connecting")

(* The backend's handshake succeeds and the client is accepted.            *)
Connect(c) ==
  /\ pc[c] = "connecting"
  /\ Goto(c, "relaying")
  /\ UNCHANGED counts

(* The handshake or the relay raises (the client is closed with 1011), or  *)
(* the relay returns (the backend is closed on leaving its context).       *)
Finish(c) ==
  /\ pc[c] \in {"connecting", "relaying"}
  /\ Goto(c, "closing")
  /\ UNCHANGED counts

(* The finally clause, after closing, or at once when the handler is       *)
(* cancelled at any of its suspension points.                              *)
Leave(c) ==
  /\ pc[c] \in Holding
  /\ Release(key[c])
  /\ Goto(c, "done")

Next == \E c \in Conns :
  Refuse(c) \/ Reject(c) \/ Admit(c) \/ Connect(c) \/ Finish(c) \/ Leave(c)

Spec == Init /\ [][Next]_vars

-----------------------------------------------------------------------------
Holders(k) == {c \in Conns : pc[c] \in Holding /\ key[c] = k}

CountsExact ==
  Limited => \A k \in Clients : CountOf(k) = Cardinality(Holders(k))
NoDeadEntries == \A k \in DOMAIN counts : Holders(k) # {}

(* The tracker counts what is there: for each client its connections       *)
(* between acquire and release, whichever way they failed or ended; and it *)
(* does not grow with clients that have gone.                              *)
TableExact == CountsExact /\ NoDeadEntries

(* No client ever holds more connections than the limit.                   *)
LimitRespected ==
  Limited => \A k \in Clients : Cardinality(Holders(k)) <= MaxPerClient
=============================================================================
