--------------------------- MODULE MCAgentSession ---------------------------
(***************************************************************************)
(* AgentSession on small instances: two calls of get_weather and one of a  *)
(* tool that asks nobody, up to two of them in one response.               *)
(***************************************************************************)
EXTENDS AgentSession, TLC

CONSTANTS w1, w2, b1

AllCalls == {w1, w2, b1}
OneHumanCall == {w1, b1}
WeatherCalls == {w1, w2}
OneWeatherCall == {w1}

(* Requests, and the two calls that wait for a human, are alike.           *)
Alike(rs, cs) == rs \cup cs \cup {r @@ c : r \in rs, c \in cs}
Symmetric == Alike(Permutations(Requests), Permutations(WeatherCalls))

(* Bound: rows are lost of sessions with one call that waits for a human.  *)
OneQuestionWhenLost == lost # {} => Cardinality(Issued \cap WeatherCalls) <= 1
=============================================================================
