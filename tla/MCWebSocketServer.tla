-------------------------- MODULE MCWebSocketServer --------------------------
(* Model-checking instance of WebSocketServer.                             *)
EXTENDS WebSocketServer, TLC

Symmetry == Permutations(Conn) \cup Permutations(RoomId)
=============================================================================
