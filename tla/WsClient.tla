------------------------------- MODULE WsClient -------------------------------
(***************************************************************************)
(* src/frontend/src/ws-client.ts: one client, the sockets it has made, and *)
(* its two timers.  The handlers set on a socket stay on it when the       *)
(* client makes another one, and they all work on the client's fields.     *)
(*                                                                         *)
(* A timer is a count of timers that run, and whether the client's field   *)
(* names one of them.  The delay between attempts only grows and decides   *)
(* nothing, so it is left out.  What the browser and the network do is     *)
(* under "external".                                                       *)
(***************************************************************************)
EXTENDS Naturals

CONSTANTS Socket,     \* WebSocket objects; a destroyed one is used again
          MaxTimers,  \* bound on running timers of a kind
          NoSocket

ASSUME WsClientAssumption == NoSocket \notin Socket /\ MaxTimers \in Nat \ {0}

VARIABLES
  state,
  ws,         \* the client's socket, or NoSocket
  sockets,    \* sockets[s]: its readyState, or "none"
  heartbeat,  \* [running, named]: heartbeatTimer
  reconnect,  \* [running, named]: reconnectTimer
  valid,      \* is the url one that new WebSocket() takes?
  explicit,   \* ghost: disconnect() was called
  heard       \* ghost: the first message sent on a socket, or "nothing"

timers == <<heartbeat, reconnect>>
connVars == <<state, ws, sockets, timers, valid, explicit, heard>>

NoTimer == [running |-> 0, named |-> FALSE]

ConnInit ==
  /\ state = "disconnected" /\ ws = NoSocket
  /\ sockets = [s \in Socket |-> "none"]
  /\ heartbeat = NoTimer /\ reconnect = NoTimer
  /\ valid \in BOOLEAN /\ explicit = FALSE
  /\ heard = [s \in Socket |-> "nothing"]

-----------------------------------------------------------------------------
\* setInterval or setTimeout: a timer the field named goes on unnamed.
Started(timer) == [running |-> timer.running + 1, named |-> TRUE]

\* clearTimers stops the timer the field names.
Cleared(timer) ==
  [running |-> IF timer.named THEN timer.running - 1 ELSE timer.running, named |-> FALSE]

Send(message) ==
  IF ws # NoSocket /\ sockets[ws] = "open" /\ heard[ws] = "nothing"
  THEN heard' = [heard EXCEPT ![ws] = message]
  ELSE heard' = heard

\* connect(), with the reconnect timer as left by its caller.
Attempt(timer) ==
  IF state # "disconnected"
  THEN reconnect' = timer /\ UNCHANGED <<state, ws, sockets, heartbeat, heard>>
  ELSE \/ /\ valid
          /\ \E s \in Socket :
               /\ sockets[s] = "none" /\ s # ws
               /\ ws' = s
               /\ sockets' = [sockets EXCEPT ![s] = "connecting"]
               /\ heard' = [heard EXCEPT ![s] = "nothing"]
          /\ state' = "connecting"
          /\ reconnect' = timer
          /\ UNCHANGED heartbeat
       \/ /\ ~valid
          /\ reconnect' = Started(timer)
          /\ UNCHANGED <<state, ws, sockets, heartbeat, heard>>

Connect == Attempt(reconnect) /\ reconnect'.running <= MaxTimers /\ UNCHANGED <<valid, explicit>>

Disconnect ==
  /\ heartbeat' = Cleared(heartbeat) /\ reconnect' = Cleared(reconnect)
  /\ sockets' = IF ws = NoSocket \/ sockets[ws] = "none" THEN sockets
                ELSE [sockets EXCEPT ![ws] = "closing"]
  /\ ws' = NoSocket
  /\ state' = "disconnected"
  /\ explicit' = TRUE
  /\ UNCHANGED <<valid, heard>>

\* joinRoom, leaveRoom, sendOperation and sendCursor.
SendMessage == Send("other") /\ UNCHANGED <<state, ws, sockets, timers, valid, explicit>>

-----------------------------------------------------------------------------
(* The handlers of a socket.                                               *)

\* Mutant: the heartbeat is all that onopen starts.
OnOpenSilent(s) ==
  /\ sockets[s] = "connecting" /\ heartbeat.running < MaxTimers
  /\ sockets' = [sockets EXCEPT ![s] = "open"]
  /\ state' = "connected"
  /\ heartbeat' = Started(heartbeat)
  /\ UNCHANGED <<ws, reconnect, valid, explicit, heard>>

\* CONNECT is sent on the client's socket, which need not be this one.
OnOpen(s) ==
  /\ sockets[s] = "connecting" /\ heartbeat.running < MaxTimers
  /\ sockets' = [sockets EXCEPT ![s] = "open"]
  /\ state' = "connected"
  /\ IF ws # NoSocket /\ sockets'[ws] = "open" /\ heard[ws] = "nothing"
     THEN heard' = [heard EXCEPT ![ws] = "CONNECT"]
     ELSE heard' = heard
  /\ heartbeat' = Started(heartbeat)
  /\ UNCHANGED <<ws, reconnect, valid, explicit>>

\* Mutant: only a connection that was up is made again.
OnCloseOnce(s) ==
  /\ sockets[s] \in {"connecting", "closing"} /\ reconnect.running < MaxTimers
  /\ sockets' = [sockets EXCEPT ![s] = "none"]
  /\ heartbeat' = Cleared(heartbeat)
  /\ reconnect' = IF state = "connecting" THEN Cleared(reconnect)
                  ELSE Started(Cleared(reconnect))
  /\ state' = "disconnected"
  /\ UNCHANGED <<ws, valid, explicit, heard>>

OnClose(s) ==
  /\ sockets[s] \in {"connecting", "closing"} /\ reconnect.running < MaxTimers
  /\ sockets' = [sockets EXCEPT ![s] = "none"]
  /\ heartbeat' = Cleared(heartbeat)
  /\ reconnect' = Started(Cleared(reconnect))
  /\ state' = "disconnected"
  /\ UNCHANGED <<ws, valid, explicit, heard>>

\* A CONNECT message: the server's welcome has the status "connected".
OnConnectMessage(s) ==
  /\ sockets[s] = "open"
  /\ state' = "authenticated"
  /\ UNCHANGED <<ws, sockets, timers, valid, explicit, heard>>

\* A ping is answered; every other message is the application's.
OnMessage(s) ==
  /\ sockets[s] = "open"
  /\ Send("other")
  /\ UNCHANGED <<state, ws, sockets, timers, valid, explicit>>

Beat ==
  /\ heartbeat.running > 0
  /\ Send("other")
  /\ UNCHANGED <<state, ws, sockets, timers, valid, explicit>>

\* A reconnect timer fires, the one that is named or another.
ReconnectFires ==
  /\ \/ reconnect.named /\ Attempt([running |-> reconnect.running - 1, named |-> FALSE])
     \/ /\ reconnect.running > (IF reconnect.named THEN 1 ELSE 0)
        /\ Attempt([reconnect EXCEPT !.running = @ - 1])
  /\ UNCHANGED <<valid, explicit>>

-----------------------------------------------------------------------------
(* External: the server closes, or the connection breaks; onclose follows. *)
Break(s) ==
  /\ sockets[s] = "open"
  /\ sockets' = [sockets EXCEPT ![s] = "closing"]
  /\ UNCHANGED <<state, ws, timers, valid, explicit, heard>>

ConnNext ==
  \/ Connect \/ Disconnect \/ SendMessage \/ Beat \/ ReconnectFires
  \/ \E s \in Socket : OnOpen(s) \/ OnClose(s) \/ OnConnectMessage(s) \/ OnMessage(s) \/ Break(s)

\* The browser runs timers and reports a close, and the server is not out of
\* reach for ever: of the attempts, one opens, and of those one is welcomed.
ConnFairness ==
  /\ WF_connVars(ReconnectFires)
  /\ \A s \in Socket : WF_connVars(OnClose(s)) /\ SF_connVars(OnOpen(s))
                       /\ SF_connVars(OnConnectMessage(s))

-----------------------------------------------------------------------------
Live == {s \in Socket : sockets[s] # "none"}

(* Until somebody calls disconnect(), the client has one connection at a   *)
(* time, beats on it while it is up, and with none has a timer that makes  *)
(* the next; and on every socket ever, also when disconnect() and          *)
(* connect() have left two of them, the server hears CONNECT first.        *)
OneConnection ==
  /\ \A s \in Socket : heard[s] # "other"
  /\ ~explicit =>
       /\ Live \subseteq {ws}
       /\ state \in {"connected", "authenticated"}
            <=> Live # {} /\ sockets[ws] \in {"open", "closing"}
       /\ heartbeat.running = (IF state \in {"connected", "authenticated"} THEN 1 ELSE 0)
       /\ state = "disconnected" /\ ws # NoSocket => reconnect.running > 0

(* A client whose connections fail or break gets through in the end,       *)
(* unless disconnect() was called.                                         *)
Reconnects ==
  (valid /\ state = "connecting") ~> (state = "authenticated" \/ explicit)
=============================================================================
