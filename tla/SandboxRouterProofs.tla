------------------------ MODULE SandboxRouterProofs ------------------------
(***************************************************************************)
(* Proofs about WebSocketProxy, for any finite set of connections, any     *)
(* clients and any limit; and about SandboxRouter: it does what            *)
(* WebSocketProxy says, and what is proved about client keys there holds   *)
(* of the hosts that really open the connections, for any handshakes and   *)
(* proxies.                                                                *)
(***************************************************************************)
EXTENDS SandboxRouter, FiniteSetTheorems, TLAPS

(***************************************************************************)
(* The invariant: the dictionary counts the holders, holds no zero, and is *)
(* not used when there is no limit.                                        *)
(***************************************************************************)
Positive == \A k \in DOMAIN counts : counts[k] > 0

WithinLimit == \A k \in Clients : CountOf(k) <= MaxPerClient

TrackerInv ==
  /\ TypeOK
  /\ Positive
  /\ Limited => CountsExact /\ WithinLimit
  /\ ~Limited => DOMAIN counts = {}

LEMMA HoldersFinite == \A k : IsFiniteSet(Holders(k))
  BY ConnsAssumption, FS_Subset DEF Holders

(* Taking in a connection, and letting one go, moves the number of its     *)
(* client's holders by one and no other.                                   *)
LEMMA HoldersGrow ==
  ASSUME TypeOK, NEW c \in Conns, pc[c] \notin Holding, NEW w \in Holding,
         Goto(c, w)
  PROVE  \A k : Cardinality(Holders(k)') =
                  Cardinality(Holders(k)) + (IF k = key[c] THEN 1 ELSE 0)
<1> TAKE k
<1>1. CASE k = key[c]
  <2>1. Holders(k)' = Holders(k) \cup {c} /\ c \notin Holders(k)
    BY <1>1 DEF Holders, Goto, TypeOK
  <2> QED
    BY <1>1, <2>1, HoldersFinite, FS_AddElement
<1>2. CASE k # key[c]
  <2>1. Holders(k)' = Holders(k)
    BY <1>2 DEF Holders, Goto, TypeOK
  <2>2. Cardinality(Holders(k)) \in Nat
    BY HoldersFinite, FS_CardinalityType
  <2> QED
    BY <1>2, <2>1, <2>2
<1> QED
  BY <1>1, <1>2

LEMMA HoldersShrink ==
  ASSUME TypeOK, NEW c \in Conns, pc[c] \in Holding, Goto(c, "done")
  PROVE  \A k : Cardinality(Holders(k)') =
                  Cardinality(Holders(k)) - (IF k = key[c] THEN 1 ELSE 0)
<1> TAKE k
<1>1. CASE k = key[c]
  <2>1. Holders(k)' = Holders(k) \ {c} /\ c \in Holders(k)
    BY <1>1 DEF Holders, Goto, TypeOK, Holding
  <2> QED
    BY <1>1, <2>1, HoldersFinite, FS_RemoveElement
<1>2. CASE k # key[c]
  <2>1. Holders(k)' = Holders(k)
    BY <1>2 DEF Holders, Goto, TypeOK, Holding
  <2>2. Cardinality(Holders(k)) \in Nat
    BY HoldersFinite, FS_CardinalityType
  <2> QED
    BY <1>2, <2>1, <2>2
<1> QED
  BY <1>1, <1>2

(* A step within or without leaves the holders alone.                      *)
LEMMA HoldersStay ==
  ASSUME TypeOK, NEW c \in Conns, NEW w, Goto(c, w),
         pc[c] \in Holding <=> w \in Holding
  PROVE  \A k : Holders(k)' = Holders(k)
  BY DEF Holders, Goto, TypeOK

LEMMA GotoType ==
  ASSUME TypeOK, NEW c \in Conns, Goto(c, "done") \/ Goto(c, "refused")
           \/ Goto(c, "rejected") \/ \E w \in Holding : Goto(c, w)
  PROVE  /\ pc' \in [Conns -> {"new", "refused", "rejected", "done"} \cup Holding]
         /\ key' \in [Conns -> Clients]
  BY DEF TypeOK, Goto, Holding

-----------------------------------------------------------------------------
LEMMA TrackerInit == Init => TrackerInv
<1> SUFFICES ASSUME Init PROVE TrackerInv
  OBVIOUS
<1>1. TypeOK
  BY DEF Init, TypeOK
<1>2. \A k : Holders(k) = {}
  BY DEF Init, Holders, Holding
<1>3. \A k : Cardinality(Holders(k)) = 0
  BY <1>2, HoldersFinite, FS_EmptySet
<1>4. \A k : CountOf(k) = 0
  BY DEF Init, CountOf
<1>5. CountsExact /\ WithinLimit
  BY <1>3, <1>4, MaxAssumption DEF CountsExact, WithinLimit
<1> QED
  BY <1>1, <1>5 DEF Init, TrackerInv, Positive

LEMMA TrackerStep == TrackerInv /\ [Next]_vars => TrackerInv'
<1> SUFFICES ASSUME TrackerInv, [Next]_vars
             PROVE  TrackerInv'
  OBVIOUS
<1> USE MaxAssumption
<1>1. ASSUME NEW c \in Conns, Refuse(c) \/ Reject(c) \/ Connect(c) \/ Finish(c)
      PROVE  TrackerInv'
  <2>1. counts' = counts
    BY <1>1 DEF Refuse, Reject, Connect, Finish
  <2>2. \A k : Holders(k)' = Holders(k)
    BY <1>1, HoldersStay
    DEF TrackerInv, Refuse, Reject, Connect, Finish, Holding
  <2>3. TypeOK'
    BY <1>1, <2>1, GotoType
    DEF TrackerInv, TypeOK, Refuse, Reject, Connect, Finish, Holding
  <2> QED
    BY <2>1, <2>2, <2>3
    DEF TrackerInv, Positive, CountsExact, WithinLimit, CountOf, Limited
<1>2. ASSUME NEW c \in Conns, Admit(c)
      PROVE  TrackerInv'
  <2>1. key[c] \in Clients
    BY DEF TrackerInv, TypeOK
  <2>2. \A k : Cardinality(Holders(k)') =
                 Cardinality(Holders(k)) + (IF k = key[c] THEN 1 ELSE 0)
    BY <1>2, HoldersGrow DEF TrackerInv, Admit, Holding
  <2>3. CASE Limited
    <3>1. counts' = [j \in DOMAIN counts \cup {key[c]} |->
                       IF j = key[c] THEN CountOf(key[c]) + 1 ELSE counts[j]]
      BY <1>2, <2>3 DEF Admit, Acquire
    <3>2. \A k \in Clients :
            CountOf(k)' = CountOf(k) + (IF k = key[c] THEN 1 ELSE 0)
      BY <2>1, <3>1 DEF CountOf, TrackerInv, TypeOK
    <3>3. \A k \in Clients : CountOf(k) \in Nat
      BY DEF CountOf, TrackerInv, TypeOK
    <3>4. TypeOK'
      BY <1>2, <2>1, <3>1, <3>3, GotoType DEF TrackerInv, TypeOK, Admit, Holding
    <3>5. CountsExact'
      BY <2>2, <2>3, <3>2 DEF CountsExact, TrackerInv, Limited
    <3>6. WithinLimit'
      BY <1>2, <2>1, <2>3, <3>2, <3>3
      DEF WithinLimit, TrackerInv, Admit, AtLimit, Limited
    <3>7. Positive'
      BY <2>1, <3>1, <3>3 DEF Positive, TrackerInv
    <3> QED
      BY <2>3, <3>4, <3>5, <3>6, <3>7 DEF TrackerInv, Limited
  <2>4. CASE ~Limited
    <3>1. counts' = counts
      BY <1>2, <2>4 DEF Admit, Acquire
    <3>2. TypeOK'
      BY <1>2, <3>1, GotoType DEF TrackerInv, TypeOK, Admit, Holding
    <3> QED
      BY <2>4, <3>1, <3>2 DEF TrackerInv, Positive, Limited
  <2> QED
    BY <2>3, <2>4
<1>3. ASSUME NEW c \in Conns, Leave(c)
      PROVE  TrackerInv'
  <2>1. key[c] \in Clients
    BY DEF TrackerInv, TypeOK
  <2>2. \A k : Cardinality(Holders(k)') =
                 Cardinality(Holders(k)) - (IF k = key[c] THEN 1 ELSE 0)
    BY <1>3, HoldersShrink DEF TrackerInv, Leave
  <2>3. CASE Limited
    <3>1. c \in Holders(key[c])
      BY <1>3 DEF Leave, Holders
    <3>2. CountOf(key[c]) > 0
      <4>1. Cardinality(Holders(key[c])) # 0
        BY <3>1, HoldersFinite, FS_EmptySet
      <4> QED
        BY <2>1, <2>3, <4>1, HoldersFinite, FS_CardinalityType
        DEF TrackerInv, CountsExact
    <3>3. key[c] \in DOMAIN counts /\ CountOf(key[c]) = counts[key[c]]
      BY <3>2 DEF CountOf
    <3>4. \A k \in Clients : CountOf(k) \in Nat
      BY DEF CountOf, TrackerInv, TypeOK
    <3>5. /\ \A k \in Clients :
               CountOf(k)' = CountOf(k) - (IF k = key[c] THEN 1 ELSE 0)
          /\ DOMAIN counts' \subseteq Clients
          /\ counts' \in [DOMAIN counts' -> Nat]
          /\ Positive'
      <4>1. CASE CountOf(key[c]) <= 1
        <5>1. counts' = [j \in DOMAIN counts \ {key[c]} |-> counts[j]]
          BY <1>3, <2>3, <4>1 DEF Leave, Release
        <5>2. CountOf(key[c]) = 1
          BY <2>1, <3>2, <3>4, <4>1
        <5> QED
          BY <5>1, <5>2, <3>3, <3>4 DEF CountOf, Positive, TrackerInv, TypeOK
      <4>2. CASE ~(CountOf(key[c]) <= 1)
        <5>1. counts' = [counts EXCEPT ![key[c]] = @ - 1]
          BY <1>3, <2>3, <4>2 DEF Leave, Release
        <5> QED
          BY <5>1, <4>2, <2>1, <3>3, <3>4
          DEF CountOf, Positive, TrackerInv, TypeOK
      <4> QED
        BY <4>1, <4>2
    <3>6. TypeOK'
      BY <1>3, <3>5, GotoType DEF TrackerInv, TypeOK, Leave
    <3>7. CountsExact'
      BY <2>2, <2>3, <3>5 DEF CountsExact, TrackerInv, Limited
    <3>8. WithinLimit'
      BY <2>3, <3>4, <3>5 DEF WithinLimit, TrackerInv
    <3> QED
      BY <2>3, <3>5, <3>6, <3>7, <3>8 DEF TrackerInv, Limited
  <2>4. CASE ~Limited
    <3>1. counts' = counts
      BY <1>3, <2>4 DEF Leave, Release
    <3>2. TypeOK'
      BY <1>3, <3>1, GotoType DEF TrackerInv, TypeOK, Leave
    <3> QED
      BY <2>4, <3>1, <3>2 DEF TrackerInv, Positive, Limited
  <2> QED
    BY <2>3, <2>4
<1>4. CASE UNCHANGED vars
  BY <1>4 DEF vars, TrackerInv, TypeOK, Positive, CountsExact, WithinLimit,
              CountOf, Limited, Holders
<1> QED
  BY <1>1, <1>2, <1>3, <1>4 DEF Next

LEMMA TrackerInvariance == Spec => []TrackerInv
  BY TrackerInit, TrackerStep, PTL DEF Spec

-----------------------------------------------------------------------------
(* However connections fail, are cancelled or end, the tracker counts each *)
(* client's connections exactly, and keeps no entry for a client without.  *)
THEOREM TrackerExact == Spec => []TableExact
<1>1. TrackerInv => NoDeadEntries
  <2> SUFFICES ASSUME TrackerInv, NEW k \in DOMAIN counts
               PROVE  Holders(k) # {}
    BY DEF NoDeadEntries
  <2>1. CASE Limited
    <3>1. k \in Clients /\ CountOf(k) = counts[k] /\ counts[k] > 0
      BY DEF TrackerInv, TypeOK, Positive, CountOf
    <3>2. Cardinality(Holders(k)) # 0
      BY <2>1, <3>1 DEF TrackerInv, CountsExact
    <3> QED
      BY <3>2, HoldersFinite, FS_EmptySet
  <2>2. CASE ~Limited
    BY <2>2 DEF TrackerInv
  <2> QED
    BY <2>1, <2>2
<1>2. TrackerInv => TableExact
  <2>1. TrackerInv => CountsExact
    BY DEF TrackerInv, CountsExact
  <2> QED
    BY <1>1, <2>1 DEF TableExact
<1> QED
  BY <1>2, TrackerInvariance, PTL

(* No client ever holds more connections than the limit allows.            *)
THEOREM LimitAlwaysRespected == Spec => []LimitRespected
<1>1. TrackerInv => LimitRespected
  BY DEF TrackerInv, CountsExact, WithinLimit, LimitRespected
<1> QED
  BY <1>1, TrackerInvariance, PTL

-----------------------------------------------------------------------------
(* The number that CHOOSE takes from a set that has a largest one.         *)
LEMMA ChooseLargest ==
  ASSUME NEW T \in SUBSET Int, NEW m \in T, \A j \in T : j <= m
  PROVE  (CHOOSE i \in T : \A j \in T : j <= i) = m
<1>1. \A i \in T : (\A j \in T : j <= i) => i = m
  OBVIOUS
<1> QED
  BY <1>1

(* What a host that is no proxy puts in X-Forwarded-For comes first, then  *)
(* the host, then all proxies but the last, which is the peer: the host is *)
(* the last hop that is not trusted, whatever stands before it.            *)
LEMMA ClientIpOfOrigin ==
  ASSUME NEW q \in Handshakes, q.origin \notin TrustedProxies, q.via # << >>
  PROVE  /\ ForwardedFor(q) # << >>
         /\ PeerHost(q) \in TrustedProxies
         /\ ClientIp(ForwardedFor(q)) = q.origin
<1>1. PICK claim \in Seq(Addresses), o \in Addresses,
           via \in Seq(TrustedProxies \cap Addresses) :
        claim = q.claim /\ o = q.origin /\ via = q.via
  BY HandshakesAssumption
<1>2. PICK m \in Nat, n \in Nat \ {0} :
        /\ m = Len(claim) /\ n = Len(via) /\ via \in Seq(Addresses)
        /\ \A j \in 1 .. n : via[j] \in TrustedProxies
  BY <1>1
<1>3. PICK path \in Seq(Addresses) : path = Path(q) /\ path = <<o>> \o via
  <2>1. <<o>> \o via \in Seq(Addresses)
    BY <1>2
  <2>2. Path(q) = <<o>> \o via
    BY <1>1 DEF Path
  <2> QED
    BY <2>1, <2>2
<1>4. /\ Len(path) = n + 1 /\ path[1] = o
      /\ \A i \in 2 .. n + 1 : path[i] = via[i - 1]
  BY <1>2, <1>3
<1>5. PICK kept \in Seq(Addresses) :
        /\ kept = SubSeq(path, 1, n) /\ Len(kept) = n
        /\ \A i \in 1 .. n : kept[i] = path[i]
  <2>1. SubSeq(path, 1, n) \in Seq(Addresses)
    BY <1>3, <1>4
  <2>2. Len(SubSeq(path, 1, n)) = n
    BY <1>3, <1>4
  <2>3. \A i \in 1 .. n : SubSeq(path, 1, n)[i] = path[i]
    BY <1>3, <1>4
  <2> QED
    BY <2>1, <2>2, <2>3
<1>6. PICK hops \in Seq(Addresses) :
        hops = ForwardedFor(q) /\ hops = claim \o kept
  <2>1. Len(path) - 1 = n
    BY <1>4
  <2>2. ForwardedFor(q) = claim \o SubSeq(path, 1, Len(path) - 1)
    BY <1>1, <1>3 DEF ForwardedFor
  <2>3. ForwardedFor(q) = claim \o kept
    BY <1>5, <2>1, <2>2
  <2>4. claim \o kept \in Seq(Addresses)
    OBVIOUS
  <2> QED
    BY <2>3, <2>4
<1>7. Len(hops) = m + n /\ \A i \in m + 1 .. m + n : hops[i] = kept[i - m]
  BY <1>2, <1>5, <1>6
<1>8. ASSUME NEW j \in 1 .. n
      PROVE  hops[m + j] = kept[j]
  <2>1. PICK i \in m + 1 .. m + n : i = m + j
    <3>1. m + j \in m + 1 .. m + n
      OBVIOUS
    <3> QED
      BY <3>1
  <2>2. i - m = j
    BY <2>1
  <2> QED
    BY <1>7, <2>1, <2>2
<1>9. 1 \in 1 .. n /\ hops[m + 1] = o
  <2>1. 1 \in 1 .. n
    OBVIOUS
  <2> QED
    BY <1>4, <1>5, <1>8, <2>1
<1>10. \A i \in m + 2 .. m + n : hops[i] \in TrustedProxies
  <2> SUFFICES ASSUME NEW i \in m + 2 .. m + n
               PROVE  hops[i] \in TrustedProxies
    OBVIOUS
  <2>1. PICK j \in 1 .. n : j = i - m
    OBVIOUS
  <2>2. j \in 2 .. n + 1 /\ j - 1 \in 1 .. n /\ i = m + j
    BY <2>1
  <2>3. hops[i] = path[j] /\ path[j] = via[j - 1]
    BY <1>4, <1>5, <1>8, <2>2
  <2> QED
    BY <1>2, <2>2, <2>3
<1>11. ClientIp(hops) = o
  <2> DEFINE others == {i \in 1 .. Len(hops) : hops[i] \notin TrustedProxies}
  <2>1. others \in SUBSET Int
    OBVIOUS
  <2>2. m + 1 \in others
    BY <1>1, <1>7, <1>9
  <2>3. \A j \in others : j <= m + 1
    BY <1>7, <1>10
  <2>4. (CHOOSE i \in others : \A j \in others : j <= i) = m + 1
    <3> HIDE DEF others
    <3> QED
      BY <2>1, <2>2, <2>3, ChooseLargest
  <2> QED
    BY <1>9, <2>2, <2>4 DEF ClientIp
<1>12. PeerHost(q) \in TrustedProxies
  <2>1. n + 1 \in 2 .. n + 1 /\ n \in 1 .. n /\ n + 1 - 1 = n
    OBVIOUS
  <2>2. path[n + 1] = via[n]
    BY <1>4, <2>1
  <2> QED
    BY <1>2, <1>3, <1>4, <2>1, <2>2 DEF PeerHost
<1>13. hops # << >>
  BY <1>7
<1> QED
  BY <1>1, <1>6, <1>11, <1>12, <1>13

LEMMA KeyOfHandshake ==
  ASSUME NEW q \in Handshakes, q.origin \notin TrustedProxies
  PROVE  ClientKey(q) = IF socket THEN Unknown ELSE q.origin
<1>1. CASE q.via = << >>
  <2>1. Path(q) = <<q.origin>>
    BY <1>1 DEF Path
  <2>2. PeerHost(q) = q.origin
    BY <2>1 DEF PeerHost
  <2> QED
    BY <2>2 DEF ClientKey
<1>2. CASE q.via # << >>
  BY <1>2, ClientIpOfOrigin DEF ClientKey
<1> QED
  BY <1>1, <1>2

-----------------------------------------------------------------------------
(* Every step of the router is one of the tracked connections, or none.    *)
LEMMA RouterStepRefines == [RouterNext]_routerVars => [Next]_vars
<1> SUFFICES ASSUME [RouterNext]_routerVars PROVE [Next]_vars
  OBVIOUS
<1>1. CASE Boot
  BY <1>1 DEF Boot
<1>2. ASSUME NEW c \in Conns, WebSocketStep(c) PROVE Next
  BY <1>2 DEF WebSocketStep, RefuseHandshake, RejectHandshake, AdmitHandshake,
              Relay, LeaveRelay, Next
<1>3. ASSUME NEW h \in HttpRequests, HttpStepOf(h) PROVE UNCHANGED vars
  BY <1>3 DEF HttpStepOf, RefuseCall, Send, SendFails, BackendUpgrades,
              BackendResponds, ResponseFails, StartStream, LeaveUnstarted, EndStream,
              CloseResponse, HttpStep
<1>4. CASE UNCHANGED routerVars
  BY <1>4 DEF routerVars
<1> QED
  BY <1>1, <1>2, <1>3, <1>4 DEF RouterNext

(* The router admits, relays and releases as WebSocketProxy specifies.     *)
THEOREM RouterImplementsProxy == RouterSpec => Spec
<1>1. RouterInit => Init
  BY DEF RouterInit
<1> QED
  BY <1>1, RouterStepRefines, PTL DEF RouterSpec, Spec

LEMMA RouterTracker == RouterSpec => []TrackerInv
  BY RouterImplementsProxy, TrackerInvariance, PTL

LEMMA RouterLimit == RouterSpec => []LimitRespected
  BY RouterImplementsProxy, LimitAlwaysRespected, PTL

-----------------------------------------------------------------------------
(* The invariant: nothing is held before the router is up, and a held      *)
(* connection of a host that is no proxy is counted as that host's.        *)
KeyOfOrigin ==
  /\ boot = "off" => \A c \in Conns : pc[c] = "new"
  /\ \A c \in Conns :
       pc[c] \in Holding /\ origin[c] \in Addresses \ TrustedProxies =>
         key[c] = IF socket THEN Unknown ELSE origin[c]
  /\ origin \in [Conns -> Clients]

LEMMA KeyOfOriginInit == RouterInit => KeyOfOrigin
  BY AddressesAssumption DEF RouterInit, Init, KeyOfOrigin, Holding

LEMMA KeyOfOriginStep ==
  TypeOK /\ KeyOfOrigin /\ [RouterNext]_routerVars => KeyOfOrigin'
<1> SUFFICES ASSUME TypeOK, KeyOfOrigin, [RouterNext]_routerVars
             PROVE  KeyOfOrigin'
  OBVIOUS
<1>1. CASE Boot
  BY <1>1 DEF Boot, vars, KeyOfOrigin, Holding
<1>2. ASSUME NEW c \in Conns, RefuseHandshake(c) \/ RejectHandshake(c)
      PROVE  KeyOfOrigin'
  BY <1>2 DEF RefuseHandshake, RejectHandshake, Refuse, Reject, Goto, config,
              KeyOfOrigin, Holding, TypeOK
<1>3. ASSUME NEW c \in Conns, AdmitHandshake(c)
      PROVE  KeyOfOrigin'
  <2>1. PICK q \in Handshakes :
          ClientKey(q) = key[c] /\ origin' = [origin EXCEPT ![c] = q.origin]
    BY <1>3 DEF AdmitHandshake, Openers
  <2>2. q.origin \notin TrustedProxies =>
          key[c] = IF socket THEN Unknown ELSE q.origin
    BY <2>1, KeyOfHandshake
  <2>3. q.origin \in Clients
    BY HandshakesAssumption, AddressesAssumption
  <2>4. /\ pc' = [pc EXCEPT ![c] = "connecting"] /\ key' = key
        /\ UNCHANGED <<boot, socket>> /\ boot = "up"
    BY <1>3 DEF AdmitHandshake, Admit, Goto, config
  <2> QED
    BY <2>1, <2>2, <2>3, <2>4 DEF KeyOfOrigin, Holding, TypeOK
<1>4. ASSUME NEW c \in Conns, Relay(c)
      PROVE  KeyOfOrigin'
  BY <1>4 DEF Relay, Connect, Finish, Goto, config, KeyOfOrigin, Holding, TypeOK
<1>5. ASSUME NEW c \in Conns, LeaveRelay(c)
      PROVE  KeyOfOrigin'
  BY <1>5, AddressesAssumption
  DEF LeaveRelay, Leave, Goto, config, KeyOfOrigin, Holding, TypeOK
<1>6. ASSUME NEW h \in HttpRequests, HttpStepOf(h)
      PROVE  UNCHANGED <<pc, key, boot, socket, origin>>
  BY <1>6 DEF HttpStepOf, RefuseCall, Send, SendFails, BackendUpgrades,
              BackendResponds, ResponseFails, StartStream, LeaveUnstarted, EndStream,
              CloseResponse, HttpStep, vars, config
<1>7. CASE UNCHANGED routerVars
  BY <1>7 DEF routerVars, vars, config, KeyOfOrigin
<1>8. ASSUME UNCHANGED <<pc, key, boot, socket, origin>>
      PROVE  KeyOfOrigin'
  BY <1>8 DEF KeyOfOrigin
<1> QED
  BY <1>1, <1>2, <1>3, <1>4, <1>5, <1>6, <1>7, <1>8
  DEF RouterNext, WebSocketStep

LEMMA KeyOfOriginInvariance == RouterSpec => []KeyOfOrigin
<1>1. TrackerInv => TypeOK
  BY DEF TrackerInv
<1> QED
  BY <1>1, KeyOfOriginInit, KeyOfOriginStep, RouterTracker, PTL DEF RouterSpec

(* No host that is not a trusted proxy ever holds more connections than    *)
(* the limit, whatever it claims and however its connections arrive.       *)
THEOREM OriginsAreLimited == RouterSpec => []OriginLimited
<1>1. LimitRespected /\ KeyOfOrigin => OriginLimited
  <2> SUFFICES ASSUME LimitRespected, KeyOfOrigin, Limited,
                      NEW o \in Addresses \ TrustedProxies
               PROVE  Cardinality(HeldBy(o)) <= MaxPerClient
    BY DEF OriginLimited
  <2> DEFINE k == IF socket THEN Unknown ELSE o
  <2>1. k \in Clients
    BY AddressesAssumption
  <2>2. HeldBy(o) \subseteq Holders(k)
    BY DEF HeldBy, Holders, KeyOfOrigin
  <2>3. Cardinality(HeldBy(o)) <= Cardinality(Holders(k))
    BY <2>2, HoldersFinite, FS_Subset
  <2>4. Cardinality(Holders(k)) <= MaxPerClient
    BY <2>1 DEF LimitRespected
  <2>5. Cardinality(HeldBy(o)) \in Nat /\ Cardinality(Holders(k)) \in Nat
    BY <2>2, HoldersFinite, FS_Subset, FS_CardinalityType
  <2> QED
    BY <2>3, <2>4, <2>5, MaxAssumption
<1> QED
  BY <1>1, RouterLimit, KeyOfOriginInvariance, PTL

-----------------------------------------------------------------------------
(* The HTTP proxy                                                          *)

(* What is read from the environment or a header is in range, or is        *)
(* replaced by the default.                                                *)
LEMMA NumberEnvRange ==
  ASSUME NEW raw \in SUBSET Int, NEW default \in Nat \ {0}
  PROVE  /\ NumberEnv(raw, default, FALSE) \in Nat \ {0}
         /\ NumberEnv(raw, default, FALSE) \in raw \cup {default}
<1> DEFINE usable == {n \in raw : n > 0 \/ (FALSE /\ n = 0)}
<1>1. NumberEnv(raw, default, FALSE)
        = IF usable = {} THEN default ELSE CHOOSE n \in usable : TRUE
  BY DEF NumberEnv
<1>2. CASE usable = {}
  BY <1>1, <1>2
<1>3. CASE usable # {}
  <2>1. (CHOOSE n \in usable : TRUE) \in usable
    BY <1>3
  <2>2. \A n \in usable : n \in raw /\ n \in Nat \ {0}
    OBVIOUS
  <2> HIDE DEF usable
  <2> QED
    BY <1>1, <1>3, <2>1, <2>2
<1> QED
  BY <1>2, <1>3

(* A header never lengthens the timeout of a request.                      *)
LEMMA RequestTimeoutRange ==
  ASSUME timeout \in Nat \ {0}, NEW raw \in SUBSET Int
  PROVE  RequestTimeout(raw) \in 1 .. timeout
<1> DEFINE shorter == {n \in raw : n <= timeout}
<1>1. shorter \in SUBSET Int
  OBVIOUS
<1>2. /\ NumberEnv(shorter, timeout, FALSE) \in Nat \ {0}
      /\ NumberEnv(shorter, timeout, FALSE) \in shorter \cup {timeout}
  BY <1>1, NumberEnvRange
<1>3. RequestTimeout(raw) = NumberEnv(shorter, timeout, FALSE)
  BY DEF RequestTimeout
<1>4. \A n \in shorter : n \in Int /\ n <= timeout
  OBVIOUS
<1> HIDE DEF shorter
<1> DEFINE t == NumberEnv(shorter, timeout, FALSE)
<1>5. t \in Nat \ {0} /\ t <= timeout
  <2> HIDE DEF t
  <2>1. t \in Nat \ {0} /\ (t \in shorter \/ t = timeout)
    BY <1>2 DEF t
  <2> QED
    BY <1>4, <2>1
<1> HIDE DEF t
<1>6. RequestTimeout(raw) = t
  BY <1>3 DEF t
<1> QED
  BY <1>5, <1>6

(* Nothing is asked before the router is up.                               *)
CallsInv ==
  RouterTypeOK /\ ResponsesClosed
  /\ (boot = "off" => \A h \in HttpRequests : http[h] = "new" /\ wait[h] = 0)

LEMMA CallsInit == RouterInit => CallsInv
<1> SUFFICES ASSUME RouterInit
             PROVE  CallsInv
  OBVIOUS
<1>1. TypeOK
  BY TrackerInit DEF RouterInit, TrackerInv
<1>2. Unknown \in Clients
  BY AddressesAssumption
<1>3. timeout \in Nat \ {0} /\ wait \in [HttpRequests -> 0 .. timeout]
  BY TimeoutAssumption DEF RouterInit
<1>4. RouterTypeOK
  BY <1>1, <1>2, <1>3, ZenonT(30) DEF RouterInit, RouterTypeOK, HttpPC
<1>5. ResponsesClosed
  BY DEF RouterInit, ResponsesClosed
<1>6. \A h \in HttpRequests : http[h] = "new" /\ wait[h] = 0
  BY DEF RouterInit
<1> QED
  BY <1>4, <1>5, <1>6 DEF CallsInv

(* The router starts: it has a timeout, and nobody waits yet.              *)
LEMMA BootStep == TypeOK' /\ CallsInv /\ Boot => CallsInv'
<1> SUFFICES ASSUME TypeOK', CallsInv, Boot
             PROVE  CallsInv'
  OBVIOUS
<1>1. /\ boot = "off" /\ boot' \in {"up", "refused"}
      /\ UNCHANGED <<origin, http, status, wait, backend>>
      /\ secret' \in BOOLEAN /\ socket' \in BOOLEAN
  BY DEF Boot, proxied
<1>2. timeout' \in Nat \ {0}
  <2>1. PICK raw \in TimeoutEnvs : timeout' = NumberEnv(raw, DefaultTimeout, FALSE)
    BY DEF Boot
  <2>2. raw \in SUBSET Int
    BY TimeoutAssumption
  <2> QED
    BY <2>1, <2>2, NumberEnvRange, TimeoutAssumption
<1>3. /\ wait' \in [HttpRequests -> 0 .. timeout']
      /\ \A h \in HttpRequests : http[h] = "new"
  <2>1. \A h \in HttpRequests : wait[h] = 0 /\ http[h] = "new"
    BY <1>1 DEF CallsInv
  <2>2. wait \in [HttpRequests -> {0}]
    BY <2>1 DEF CallsInv, RouterTypeOK
  <2> QED
    BY <1>1, <1>2, <2>1, <2>2
<1>4. RouterTypeOK'
  BY <1>1, <1>2, <1>3 DEF CallsInv, RouterTypeOK
<1>5. ResponsesClosed'
  BY <1>1 DEF CallsInv, ResponsesClosed
<1> QED
  BY <1>1, <1>4, <1>5 DEF CallsInv

(* A request is refused, sent, answered or streamed.                       *)
LEMMA HttpRequestStep ==
  ASSUME TypeOK', CallsInv, NEW h \in HttpRequests, HttpStepOf(h)
  PROVE  CallsInv'
<1>1. /\ UNCHANGED <<boot, secret, socket, timeout, origin>> /\ timeout \in Nat \ {0}
      /\ boot # "off"
  BY DEF HttpStepOf, RefuseCall, Send, SendFails, BackendUpgrades, BackendResponds,
         ResponseFails, StartStream, LeaveUnstarted, EndStream, CloseResponse, HttpStep, config,
         CallsInv, RouterTypeOK
<1>2. /\ http' = [http EXCEPT ![h] = http'[h]]
      /\ status' = [status EXCEPT ![h] = status'[h]]
      /\ wait' = [wait EXCEPT ![h] = wait'[h]]
      /\ backend' = [backend EXCEPT ![h] = backend'[h]]
      /\ http'[h] \in HttpPC /\ status'[h] \in {0, 200, 400, 401, 500, 502, 504}
      /\ wait'[h] \in 0 .. timeout /\ backend'[h] \in {"none", "open", "closed"}
      /\ http'[h] = "sending" => wait'[h] > 0
      /\ backend'[h] = "open" =>
           http'[h] \in {"responded", "streaming", "closing", "gone", "unbuilt"}
  <2> USE DEF CallsInv, RouterTypeOK, ResponsesClosed, HttpPC
  <2>0. 0 \in 0 .. timeout
    BY <1>1
  <2>1. CASE RefuseCall(h)
    <3>1. PICK code \in {400, 401, 500} : Answer(h, code)
      BY <2>1 DEF RefuseCall, Refusals
    <3>2. backend[h] # "open" /\ backend' = backend
      BY <2>1 DEF RefuseCall
    <3> QED
      BY <2>0, <3>1, <3>2 DEF Answer
  <2>2. CASE Send(h)
    <3>1. PICK t \in {RequestTimeout(q.timeout) : q \in {r \in Calls : Passes(r)}} :
            wait' = [wait EXCEPT ![h] = t]
      BY <2>2 DEF Send
    <3>2. t \in 1 .. timeout
      BY <1>1, RequestTimeoutRange, CallsAssumption
    <3>3. /\ http[h] = "new" /\ http' = [http EXCEPT ![h] = "sending"]
          /\ status' = status /\ backend' = backend
      BY <2>2 DEF Send
    <3> QED
      BY <1>1, <3>1, <3>2, <3>3
  <2>3. CASE SendFails(h)
    BY <2>0, <2>3 DEF SendFails, Answer
  <2>4. CASE BackendUpgrades(h)
    BY <2>0, <2>4 DEF BackendUpgrades, Answer
  <2>5. CASE BackendResponds(h) \/ ResponseFails(h)
    BY <2>0, <2>5 DEF BackendResponds, ResponseFails
  <2>6. CASE StartStream(h) \/ LeaveUnstarted(h) \/ EndStream(h)
    BY <2>6 DEF StartStream, LeaveUnstarted, EndStream, HttpStep
  <2>7. CASE CloseResponse(h)
    BY <2>7 DEF CloseResponse, HttpStep
  <2> QED
    BY <2>1, <2>2, <2>3, <2>4, <2>5, <2>6, <2>7 DEF HttpStepOf
<1>3. RouterTypeOK'
  BY <1>1, <1>2 DEF CallsInv, RouterTypeOK
<1>4. ResponsesClosed'
  BY <1>2 DEF CallsInv, RouterTypeOK, ResponsesClosed
<1> QED
  BY <1>1, <1>3, <1>4 DEF CallsInv

(* Connections have nothing to do with it.                                 *)
LEMMA CallsStep == TypeOK' /\ CallsInv /\ [RouterNext]_routerVars => CallsInv'
<1> SUFFICES ASSUME TypeOK', CallsInv, [RouterNext]_routerVars
             PROVE  CallsInv'
  OBVIOUS
<1>1. ASSUME UNCHANGED <<config, proxied>>, origin' \in [Conns -> Clients]
      PROVE  CallsInv'
  <2>1. UNCHANGED <<boot, secret, socket, timeout, http, status, wait, backend>>
    BY <1>1 DEF config, proxied
  <2> QED
    BY <1>1, <2>1 DEF CallsInv, RouterTypeOK, ResponsesClosed
<1>2. ASSUME NEW c \in Conns, WebSocketStep(c)
      PROVE  CallsInv'
  <2>1. UNCHANGED <<config, proxied>>
    BY <1>2 DEF WebSocketStep, RefuseHandshake, RejectHandshake, AdmitHandshake, Relay,
                LeaveRelay
  <2>2. origin' = origin \/ \E o \in Clients : origin' = [origin EXCEPT ![c] = o]
    BY <1>2, HandshakesAssumption, AddressesAssumption
    DEF WebSocketStep, RefuseHandshake, RejectHandshake, AdmitHandshake, Relay,
        LeaveRelay, Openers
  <2>3. origin' \in [Conns -> Clients]
    BY <2>2 DEF CallsInv, RouterTypeOK
  <2> QED
    BY <1>1, <2>1, <2>3
<1>3. CASE UNCHANGED routerVars
  BY <1>1, <1>3 DEF routerVars, CallsInv, RouterTypeOK
<1> QED
  BY <1>2, <1>3, BootStep, HttpRequestStep DEF RouterNext

LEMMA CallsInvariance == RouterSpec => []CallsInv
<1>1. TrackerInv => TypeOK
  BY DEF TrackerInv
<1> QED
  BY <1>1, CallsInit, CallsStep, RouterTracker, PTL DEF RouterSpec

(* The router's variables keep their types; in particular every request    *)
(* has a timeout, and none that is longer than the configured one.         *)
THEOREM RouterTypeCorrect == RouterSpec => []RouterTypeOK
<1>1. CallsInv => RouterTypeOK
  BY DEF CallsInv
<1> QED
  BY <1>1, CallsInvariance, PTL

(* proxy_request leaves no response of a backend open, except where the    *)
(* client had left before the first chunk.                                 *)
THEOREM ResponsesAlwaysClosed == RouterSpec => []ResponsesClosed
<1>1. CallsInv => ResponsesClosed
  BY DEF CallsInv
<1> QED
  BY <1>1, CallsInvariance, PTL
=============================================================================
