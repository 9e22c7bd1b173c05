--------------------------- MODULE MCSandboxRouter ---------------------------
(***************************************************************************)
(* SandboxRouter with two hosts, one of which opens all connections or     *)
(* shares them with the other, directly or through one or two proxies, and *)
(* claims to be somebody else; and one HTTP request.                       *)
(***************************************************************************)
EXTENDS SandboxRouter, TLC

CONSTANTS c1, c2, c3, alice, bob, front, office, typo

CoversOf(n) == IF n = office THEN {front} ELSE {bob}

GoodTarget ==
  [id |-> "label", namespace |-> "absent", port |-> {8888}, podIp |-> "absent"]

BadTargets ==
  {[GoodTarget EXCEPT !.id = "absent"], [GoodTarget EXCEPT !.namespace = "other"],
   [GoodTarget EXCEPT !.port = {}], [GoodTarget EXCEPT !.port = {65536}],
   [GoodTarget EXCEPT !.podIp = "special"]}

GoodTargets ==
  {GoodTarget, [GoodTarget EXCEPT !.port = {65535}, !.podIp = "unicast"]}

FromAnywhere ==
  [auth : {"right"}, target : {GoodTarget}, origin : {alice, bob, front},
   claim : {<< >>, <<bob>>, <<alice, front>>}, via : {<< >>, <<front, front>>}]

SomeHandshakes ==
  FromAnywhere \cup {[q EXCEPT !.auth = "wrong"] : q \in {CHOOSE q \in FromAnywhere : TRUE}}

GoodCall == [auth |-> "right", target |-> GoodTarget, timeout |-> {}]

SomeCalls ==
  {[GoodCall EXCEPT !.auth = a] : a \in Auths}
  \cup {[GoodCall EXCEPT !.target = t] : t \in BadTargets \cup GoodTargets}
  \cup {[GoodCall EXCEPT !.timeout = t] : t \in {{0}, {30}, {600}}}

Timeouts == {{}, {0}, {60}}
Two == {2}

Symmetric == Permutations(Conns)
=============================================================================
