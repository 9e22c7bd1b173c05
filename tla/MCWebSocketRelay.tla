-------------------------- MODULE MCWebSocketRelay --------------------------
(***************************************************************************)
(* WebSocketRelay for TLC: its constants are numbers, given by the .cfg    *)
(* files; the state space is finite without further bounds.                *)
(***************************************************************************)
EXTENDS WebSocketRelay
=============================================================================
