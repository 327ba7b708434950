------------------------------- MODULE Frontend -------------------------------
(***************************************************************************)
(* The browser's side, src/frontend/src/app.ts: where the page comes from  *)
(* decides, for as long as it is there, whether it works with the mock     *)
(* server's tabs or through the client with the server.                    *)
(***************************************************************************)
EXTENDS MockServer, WsClient

VARIABLE useMock

vars == <<useMock, tabVars, connVars>>

\* The mock server's url is none WebSocket would take.
Init == useMock \in BOOLEAN /\ TabInit /\ ConnInit /\ ~(useMock /\ valid)

InMock == useMock /\ TabNext /\ UNCHANGED <<useMock, connVars>>
Online == ~useMock /\ ConnNext /\ UNCHANGED <<useMock, tabVars>>

Next == InMock \/ Online

Spec == Init /\ [][Next]_vars

\* What belongs to the other mode is never enabled.
FairSpec == Spec /\ TabFairness /\ ConnFairness
=============================================================================
