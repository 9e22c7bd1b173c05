---------------------------- MODULE SandboxRouter ----------------------------
(***************************************************************************)
(* The sandbox router as a process: what it reads from its environment     *)
(* when it starts, how it decides about a request from the headers, the    *)
(* HTTP proxy, and WebSocketProxy with the decisions its connections are   *)
(* subject to.                                                             *)
(*                                                                         *)
(* A number that stands in a header or in the environment is a set: {n},   *)
(* or {} when it is absent, no number, or not finite.                      *)
(***************************************************************************)
EXTENDS WebSocketProxy, Sequences

CONSTANTS
  Addresses,       \* what a peer or a hop of X-Forwarded-For may be
  Unknown,         \* the key of a peer without an address
  Cidrs,           \* the entries of TRUSTED_PROXY_CIDRS
  Malformed,       \* the entries that are no network
  Covers(_),       \* the addresses in a network
  Handshakes,      \* requests for a WebSocket
  HttpRequests,    \* HTTP requests that may be made
  Calls,           \* what they may ask
  TimeoutEnvs,     \* values of PROXY_TIMEOUT_SECONDS
  DefaultTimeout,  \* DEFAULT_PROXY_TIMEOUT
  MaxEnv           \* value of WEBSOCKET_MAX_CONNECTIONS_PER_CLIENT

(* _get_positive_float_env and _get_non_negative_int_env: the default      *)
(* takes the place of a value that is out of range.                        *)
NumberEnv(raw, default, allowZero) ==
  LET usable == {n \in raw : n > 0 \/ (allowZero /\ n = 0)}
  IN  IF usable = {} THEN default ELSE CHOOSE n \in usable : TRUE

(* The networks that _parse_trusted_proxy_networks keeps, and their        *)
(* addresses.                                                              *)
TrustedProxies == UNION {Covers(n) : n \in Cidrs \ Malformed}

Auths == {"absent", "malformed", "wrong", "foreign", "right"}

(* X-Sandbox-ID, -Namespace and -Pod-IP by what the checks tell apart; an  *)
(* absent port is {8888}.                                                  *)
Targets == [id : {"absent", "label", "other"},
            namespace : {"absent", "label", "other"},
            port : SUBSET Int,
            podIp : {"absent", "unicast", "special", "other"}]

ASSUME AddressesAssumption ==
  Unknown \notin Addresses /\ Clients = Addresses \cup {Unknown}
ASSUME HandshakesAssumption ==
  \A q \in Handshakes :
    /\ q.auth \in Auths /\ q.target \in Targets
    /\ q.origin \in Addresses
    /\ q.claim \in Seq(Addresses)
    /\ q.via \in Seq(TrustedProxies \cap Addresses)
ASSUME CallsAssumption ==
  \A q \in Calls :
    q.auth \in Auths /\ q.target \in Targets /\ q.timeout \in SUBSET Int
ASSUME TimeoutAssumption ==
  DefaultTimeout \in Nat \ {0} /\ TimeoutEnvs \subseteq SUBSET Int
ASSUME LimitAssumption == MaxPerClient = NumberEnv(MaxEnv, 64, TRUE)

VARIABLES
  boot,     \* "off", "up", or "refused": it raised while starting
  secret,   \* TRUE: there is a ROUTER_AUTH_TOKEN
  socket,   \* TRUE: peers come over a local socket and have no address
  timeout,  \* proxy_timeout
  origin,   \* history: who opened a connection, while it is held
  http,     \* http[h]: where HTTP request h is
  status,   \* status[h]: the status its client gets; 0: none, 200: backend's
  wait,     \* wait[h]: the timeout of the backend's client, while it sends
  backend   \* backend[h]: the response of the backend: none, open or closed

config == <<boot, secret, socket, timeout>>
proxied == <<http, status, wait, backend>>
routerVars == <<vars, config, origin, proxied>>

HttpPC == {"new", "sending", "responded", "streaming", "closing", "gone",
           "unbuilt", "done"}

RouterTypeOK ==
  /\ TypeOK
  /\ boot \in {"off", "up", "refused"} /\ secret \in BOOLEAN /\ socket \in BOOLEAN
  /\ timeout \in Nat \ {0}
  /\ origin \in [Conns -> Clients]
  /\ http \in [HttpRequests -> HttpPC]
  /\ status \in [HttpRequests -> {0, 200, 400, 401, 500, 502, 504}]
  /\ wait \in [HttpRequests -> 0 .. timeout]
  /\ \A h \in HttpRequests : http[h] = "sending" => wait[h] > 0
  /\ backend \in [HttpRequests -> {"none", "open", "closed"}]

RouterInit ==
  /\ Init
  /\ boot = "off" /\ secret = FALSE /\ socket = FALSE
  /\ timeout = DefaultTimeout
  /\ origin = [c \in Conns |-> Unknown]
  /\ http = [h \in HttpRequests |-> "new"]
  /\ status = [h \in HttpRequests |-> 0]
  /\ wait = [h \in HttpRequests |-> 0]
  /\ backend = [h \in HttpRequests |-> "none"]

-----------------------------------------------------------------------------
(* The module is loaded.  Without a token it only starts when it was told  *)
(* to run without.                                                         *)
Boot ==
  /\ boot = "off"
  /\ \E raw \in TimeoutEnvs : timeout' = NumberEnv(raw, DefaultTimeout, FALSE)
  /\ secret' \in BOOLEAN /\ socket' \in BOOLEAN
  /\ \E allowed \in BOOLEAN :
       boot' = IF secret' \/ allowed THEN "up" ELSE "refused"
  /\ UNCHANGED <<vars, origin, proxied>>

-----------------------------------------------------------------------------
(* _check_router_auth: "pass", or how it fails.  A token that is not ASCII *)
(* makes compare_digest raise, which nobody catches.                       *)
CheckAuth(q) ==
  IF ~secret \/ q.auth = "right" THEN "pass"
  ELSE IF q.auth = "foreign" THEN "raise"
  ELSE "401"

(* _resolve_target finds nothing to object to.                             *)
Routable(q) ==
  /\ q.target.id = "label"
  /\ q.target.namespace \in {"absent", "label"}
  /\ \E n \in q.target.port : 1 <= n /\ n <= 65535
  /\ q.target.podIp \in {"absent", "unicast"}

(* What arrives of a request: it comes from q.origin, which has put        *)
(* q.claim in X-Forwarded-For, through the proxies q.via, each of which    *)
(* appends the address it got the request from.                            *)
Path(q) == <<q.origin>> \o q.via
PeerHost(q) == Path(q)[Len(Path(q))]
ForwardedFor(q) == q.claim \o SubSeq(Path(q), 1, Len(Path(q)) - 1)

(* _client_ip_from_forwarded_for: the last hop that is not trusted, or the *)
(* first hop.  (Faulty variant: the first hop.)                            *)
FirstHop(hops) == hops[1]
ClientIp(hops) ==
  LET others == {i \in 1 .. Len(hops) : hops[i] \notin TrustedProxies}
  IN  IF others = {} THEN hops[1]
      ELSE hops[CHOOSE i \in others : \A j \in others : j <= i]

(* _client_connection_key                                                  *)
ClientKey(q) ==
  IF socket THEN Unknown
  ELSE IF ForwardedFor(q) # << >> /\ PeerHost(q) \in TrustedProxies
    THEN ClientIp(ForwardedFor(q))
  ELSE PeerHost(q)

(* _get_request_timeout: X-Sandbox-Timeout can only shorten the timeout.   *)
(* (Faulty variant: it can lengthen it too.)                               *)
AnyTimeout(raw) == NumberEnv(raw, timeout, FALSE)
RequestTimeout(raw) == NumberEnv({n \in raw : n <= timeout}, timeout, FALSE)

-----------------------------------------------------------------------------
(* proxy_websocket: which handshakes are refused, and who may have opened  *)
(* the connection that is counted under a key.                             *)
Passes(q) == CheckAuth(q) = "pass" /\ Routable(q)

Openers(k) ==
  {q.origin : q \in {r \in Handshakes : Passes(r) /\ ClientKey(r) = k}}

RefuseHandshake(c) ==
  /\ boot = "up"
  /\ \E q \in Handshakes : ~Passes(q)
  /\ Refuse(c)
  /\ UNCHANGED <<config, origin, proxied>>

RejectHandshake(c) ==
  /\ boot = "up"
  /\ Openers(key[c]) # {}
  /\ Reject(c)
  /\ UNCHANGED <<config, origin, proxied>>

AdmitHandshake(c) ==
  /\ boot = "up"
  /\ \E o \in Openers(key[c]) : origin' = [origin EXCEPT ![c] = o]
  /\ Admit(c)
  /\ UNCHANGED <<config, proxied>>

Relay(c) ==
  /\ Connect(c) \/ Finish(c)
  /\ UNCHANGED <<config, origin, proxied>>

LeaveRelay(c) ==
  /\ Leave(c)
  /\ origin' = [origin EXCEPT ![c] = Unknown]
  /\ UNCHANGED <<config, proxied>>

-----------------------------------------------------------------------------
Answer(h, code) ==
  /\ http' = [http EXCEPT ![h] = "done"]
  /\ status' = [status EXCEPT ![h] = code]
  /\ wait' = [wait EXCEPT ![h] = 0]

(* proxy_request refuses before it has asked any backend, or asks it.      *)
Refusals ==
  {IF CheckAuth(q) = "401" THEN 401 ELSE IF CheckAuth(q) = "raise" THEN 500 ELSE 400 :
     q \in {r \in Calls : ~Passes(r)}}

RefuseCall(h) ==
  /\ boot = "up" /\ http[h] = "new"
  /\ \E code \in Refusals : Answer(h, code)
  /\ UNCHANGED <<vars, config, origin, backend>>

Send(h) ==
  /\ boot = "up" /\ http[h] = "new"
  /\ \E t \in {RequestTimeout(q.timeout) : q \in {r \in Calls : Passes(r)}} :
       wait' = [wait EXCEPT ![h] = t]
  /\ http' = [http EXCEPT ![h] = "sending"]
  /\ UNCHANGED <<vars, config, origin, status, backend>>

(* No connection, a timeout, anything else before the backend's response.  *)
SendFails(h) ==
  /\ http[h] = "sending"
  /\ \E code \in {502, 504, 500} : Answer(h, code)
  /\ UNCHANGED <<vars, config, origin, backend>>

(* The backend answers 101, which HTTP cannot carry.  (Faulty variant: its *)
(* response is not closed.)                                                *)
UpgradeKept(h) ==
  /\ http[h] = "sending"
  /\ Answer(h, 502)
  /\ backend' = [backend EXCEPT ![h] = "open"]
  /\ UNCHANGED <<vars, config, origin>>

BackendUpgrades(h) ==
  /\ http[h] = "sending"
  /\ Answer(h, 502)
  /\ backend' = [backend EXCEPT ![h] = "closed"]
  /\ UNCHANGED <<vars, config, origin>>

BackendResponds(h) ==
  /\ http[h] = "sending"
  /\ http' = [http EXCEPT ![h] = "responded"]
  /\ status' = [status EXCEPT ![h] = 200]
  /\ wait' = [wait EXCEPT ![h] = 0]
  /\ backend' = [backend EXCEPT ![h] = "open"]
  /\ UNCHANGED <<vars, config, origin>>

(* The backend's response is there, but no answer can be built of it (a      *)
(* header that Starlette cannot encode): the handler of every exception    *)
(* answers, and nobody closes the response.                                *)
ResponseFails(h) ==
  /\ http[h] = "sending"
  /\ http' = [http EXCEPT ![h] = "unbuilt"]
  /\ status' = [status EXCEPT ![h] = 500]
  /\ wait' = [wait EXCEPT ![h] = 0]
  /\ backend' = [backend EXCEPT ![h] = "open"]
  /\ UNCHANGED <<vars, config, origin>>

HttpStep(h, from, to) ==
  /\ http[h] = from
  /\ http' = [http EXCEPT ![h] = to]
  /\ UNCHANGED <<vars, config, origin, status, wait>>

(* stream_generator runs up to its first chunk.                            *)
StartStream(h) == HttpStep(h, "responded", "streaming") /\ UNCHANGED backend

(* The client has left before that, or the head of the answer cannot be    *)
(* sent: the generator is dropped unstarted, and its finally clause never  *)
(* runs.                                                                   *)
LeaveUnstarted(h) == HttpStep(h, "responded", "gone") /\ UNCHANGED backend

(* The body ends, the backend fails or the client leaves: the generator is *)
(* left, or finalised, and its finally clause closes the response.         *)
EndStream(h) == HttpStep(h, "streaming", "closing") /\ UNCHANGED backend

CloseResponse(h) ==
  /\ HttpStep(h, "closing", "done")
  /\ backend' = [backend EXCEPT ![h] = "closed"]

-----------------------------------------------------------------------------
WebSocketStep(c) ==
  RefuseHandshake(c) \/ RejectHandshake(c) \/ AdmitHandshake(c) \/ Relay(c)
  \/ LeaveRelay(c)

HttpStepOf(h) ==
  RefuseCall(h) \/ Send(h) \/ SendFails(h) \/ BackendUpgrades(h)
  \/ BackendResponds(h) \/ ResponseFails(h) \/ StartStream(h)
  \/ LeaveUnstarted(h) \/ EndStream(h) \/ CloseResponse(h)

RouterNext ==
  \/ Boot
  \/ \E c \in Conns : WebSocketStep(c)
  \/ \E h \in HttpRequests : HttpStepOf(h)

RouterSpec == RouterInit /\ [][RouterNext]_routerVars

-----------------------------------------------------------------------------
HeldBy(o) == {c \in Conns : pc[c] \in Holding /\ origin[c] = o}

(* The limit holds for who really opened the connections: whatever a host  *)
(* that is no trusted proxy claims in X-Forwarded-For, and however its     *)
(* connections reach the router, they are counted as one client's.         *)
OriginLimited ==
  Limited =>
    \A o \in Addresses \ TrustedProxies : Cardinality(HeldBy(o)) <= MaxPerClient

(* proxy_request: a response of a backend is closed when its request is    *)
(* over, however the stream ends.  There are two exceptions, in which it   *)
(* keeps its connection of the pool for ever: no answer could be built of  *)
(* it, or it was never streamed because the client had left before.        *)
ResponsesClosed ==
  \A h \in HttpRequests :
    backend[h] = "open" =>
      http[h] \in {"responded", "streaming", "closing", "gone", "unbuilt"}
=============================================================================
