---------------------------- MODULE BroadcastLog ----------------------------
(***************************************************************************)
(* What a Room promises, without threads and membership: operations enter  *)
(* one log, each once, and only what is in the log is ever delivered, to   *)
(* each user at most once.                                                 *)
(***************************************************************************)
EXTENDS Sequences, Naturals

CONSTANTS OpId, UserId

VARIABLES log,        \* the operations in the order they took effect
          delivered   \* delivered[u]: the operations u has been told of

logVars == <<log, delivered>>

Logged == {log[i] : i \in 1..Len(log)}

LogInit == log = <<>> /\ delivered = [u \in UserId |-> {}]

Commit(id) ==
  /\ id \notin Logged
  /\ log' = Append(log, id)
  /\ UNCHANGED delivered

\* One operation reaches some users, none of whom has had it before.
Deliver(id, to) ==
  /\ id \in Logged
  /\ \A u \in to : id \notin delivered[u]
  /\ delivered' = [u \in UserId |-> IF u \in to THEN delivered[u] \cup {id} ELSE delivered[u]]
  /\ UNCHANGED log

LogNext == \E id \in OpId : Commit(id) \/ \E to \in SUBSET UserId : Deliver(id, to)

LogSpec == LogInit /\ [][LogNext]_logVars
=============================================================================
