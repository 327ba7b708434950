-------------------------- MODULE MCSessionManager --------------------------
(* Model-checking instance of SessionManager: two users who may reconnect  *)
(* with a second connection, two room ids, three Room objects, so that one *)
(* id can be dropped and created again while the other is in use.          *)
EXTENDS SessionManager
=============================================================================
