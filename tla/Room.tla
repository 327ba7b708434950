-------------------------------- MODULE Room --------------------------------
(***************************************************************************)
(* src/src/network/Room.cpp: one room, its members, its document and the   *)
(* threads that call applyAndBroadcast at the same time.  The method takes *)
(* the document's lock to apply, again to read the version for the ACK,    *)
(* and roomMutex to broadcast; between these steps other threads run, so   *)
(* each is an action.  addUser and removeUser hold roomMutex throughout.   *)
(*                                                                         *)
(* The document is seen as in DocumentState: it takes an operation when    *)
(* its version follows the current one and its position fits.  Whether the *)
(* position fits is left open, so Refuse is possible at any version.  The  *)
(* text is the sequence of the operations applied.  broadcastCallback_     *)
(* puts a message at the end of the receiver's inbox.                      *)
(***************************************************************************)
EXTENDS Naturals, Sequences, FiniteSets

CONSTANTS UserId, OpId, Thread,
          None   \* no operation

Version == 0..Cardinality(OpId)

Call == [id : OpId, sender : UserId, version : Version]

ASSUME RoomAssumption == IsFiniteSet(OpId) /\ None \notin Call

VARIABLES
  users_,          \* the members
  callbackSet,     \* broadcastCallback_ is not empty
  currentVersion,  \* document.getVersion()
  applied,         \* the operations the document has taken, in order
  pc, op, ackVersion,   \* per thread: where it is in applyAndBroadcast, and its locals
  inbox,           \* inbox[u]: the messages the callback has been given for u
  since            \* ghost: the version from which u must be told of operations

vars == <<users_, callbackSet, currentVersion, applied, pc, op, ackVersion, inbox, since>>

Message == [kind : {"ACK", "OPERATION"}, id : OpId, version : Version]

Applied == {applied[i] : i \in 1..Len(applied)}

-----------------------------------------------------------------------------
Init ==
  /\ users_ = {} /\ callbackSet = FALSE
  /\ currentVersion = 0 /\ applied = <<>>
  /\ pc = [t \in Thread |-> "idle"]
  /\ op = [t \in Thread |-> None]
  /\ ackVersion = [t \in Thread |-> 0]
  /\ inbox = [u \in UserId |-> <<>>]
  /\ since = [u \in UserId |-> 0]

AddUser(u) ==
  /\ u \notin users_
  /\ users_' = users_ \cup {u}
  /\ since' = [since EXCEPT ![u] = currentVersion]
  /\ UNCHANGED <<callbackSet, currentVersion, applied, pc, op, ackVersion, inbox>>

RemoveUser(u) ==
  /\ u \in users_
  /\ users_' = users_ \ {u}
  /\ UNCHANGED <<callbackSet, currentVersion, applied, pc, op, ackVersion, inbox, since>>

\* Unsynchronised; its callers set it while they set the room up.
SetBroadcastCallback ==
  /\ \A t \in Thread : pc[t] = "idle"
  /\ callbackSet' = TRUE
  /\ since' = [u \in UserId |-> currentVersion]
  /\ UNCHANGED <<users_, currentVersion, applied, pc, op, ackVersion, inbox>>

\* A thread enters applyAndBroadcast.  An opId stands for one operation: it
\* may come again, from a client that missed the ACK, with the version it
\* was taken at, and a refused one may come again with another.
Enter(t, c) ==
  /\ pc[t] = "idle"
  /\ \A v \in 1..Len(applied) : applied[v] = c.id => c.version = v
  /\ \A s \in Thread : pc[s] # "idle" /\ op[s].id = c.id =>
                         op[s] = c
  /\ pc' = [pc EXCEPT ![t] = "entered"]
  /\ op' = [op EXCEPT ![t] = c]
  /\ UNCHANGED <<users_, callbackSet, currentVersion, applied, ackVersion, inbox, since>>

\* Mutant: any newer version is taken.
CanApplyVersionNewer(version) == version > currentVersion

CanApplyVersion(version) == version = currentVersion + 1

Return(t) ==
  /\ pc' = [pc EXCEPT ![t] = "idle"]
  /\ op' = [op EXCEPT ![t] = None]
  /\ ackVersion' = [ackVersion EXCEPT ![t] = 0]

\* document.applyOperation succeeds.
Apply(t) ==
  /\ pc[t] = "entered"
  /\ CanApplyVersion(op[t].version)
  /\ currentVersion' = currentVersion + 1
  /\ applied' = Append(applied, op[t].id)
  /\ pc' = [pc EXCEPT ![t] = "applied"]
  /\ UNCHANGED <<users_, callbackSet, op, ackVersion, inbox, since>>

\* Mutant: a refused operation is answered like one that was applied.
RefuseWithAck(t) ==
  /\ pc[t] = "entered"
  /\ pc' = [pc EXCEPT ![t] = "applied"]
  /\ UNCHANGED <<users_, callbackSet, currentVersion, applied, op, ackVersion, inbox, since>>

\* document.applyOperation refuses, for the version or for the position;
\* the method returns the result at once.
Refuse(t) ==
  /\ pc[t] = "entered"
  /\ Return(t)
  /\ UNCHANGED <<users_, callbackSet, currentVersion, applied, inbox, since>>

\* Mutant: the ACK carries the version before the operation was applied.
ReadVersionEarly(t) ==
  /\ pc[t] = "applied"
  /\ ackVersion' = [ackVersion EXCEPT ![t] = op[t].version - 1]
  /\ pc' = [pc EXCEPT ![t] = "acking"]
  /\ UNCHANGED <<users_, callbackSet, currentVersion, applied, op, inbox, since>>

\* The ACK's payload takes document.getVersion(), after the lock was given up.
ReadVersion(t) ==
  /\ pc[t] = "applied"
  /\ ackVersion' = [ackVersion EXCEPT ![t] = currentVersion]
  /\ pc' = [pc EXCEPT ![t] = "acking"]
  /\ UNCHANGED <<users_, callbackSet, currentVersion, applied, op, inbox, since>>

\* Mutant: a sender who has left the room gets no ACK.
SendAckToMember(t) ==
  /\ pc[t] = "acking"
  /\ inbox' = IF callbackSet /\ op[t].sender \in users_
                THEN [inbox EXCEPT ![op[t].sender] =
                        Append(@, [kind |-> "ACK", id |-> op[t].id, version |-> ackVersion[t]])]
                ELSE inbox
  /\ pc' = [pc EXCEPT ![t] = "broadcasting"]
  /\ UNCHANGED <<users_, callbackSet, currentVersion, applied, op, ackVersion, since>>

\* The ACK goes to the sender, a member or not, without roomMutex.
SendAck(t) ==
  /\ pc[t] = "acking"
  /\ inbox' = IF callbackSet
                THEN [inbox EXCEPT ![op[t].sender] =
                        Append(@, [kind |-> "ACK", id |-> op[t].id, version |-> ackVersion[t]])]
                ELSE inbox
  /\ pc' = [pc EXCEPT ![t] = "broadcasting"]
  /\ UNCHANGED <<users_, callbackSet, currentVersion, applied, op, ackVersion, since>>

\* Mutant: the sender is broadcast to as well.
BroadcastToAll(t) ==
  LET m == [kind |-> "OPERATION", id |-> op[t].id, version |-> op[t].version]
  IN  /\ pc[t] = "broadcasting"
      /\ inbox' = [u \in UserId |->
                     IF callbackSet /\ u \in users_
                       THEN Append(inbox[u], m) ELSE inbox[u]]
      /\ Return(t)
      /\ UNCHANGED <<users_, callbackSet, currentVersion, applied, since>>

\* Mutant: what a sender who has left did is not broadcast.
BroadcastFromMember(t) ==
  LET m == [kind |-> "OPERATION", id |-> op[t].id, version |-> op[t].version]
  IN  /\ pc[t] = "broadcasting"
      /\ inbox' = [u \in UserId |->
                     IF callbackSet /\ op[t].sender \in users_ /\ u \in users_ \ {op[t].sender}
                       THEN Append(inbox[u], m) ELSE inbox[u]]
      /\ Return(t)
      /\ UNCHANGED <<users_, callbackSet, currentVersion, applied, since>>

\* broadcastToOthers, under roomMutex: everybody who is a member now.
BroadcastToOthers(t) ==
  LET m == [kind |-> "OPERATION", id |-> op[t].id, version |-> op[t].version]
  IN  /\ pc[t] = "broadcasting"
      /\ inbox' = [u \in UserId |->
                     IF callbackSet /\ u \in users_ \ {op[t].sender}
                       THEN Append(inbox[u], m) ELSE inbox[u]]
      /\ Return(t)
      /\ UNCHANGED <<users_, callbackSet, currentVersion, applied, since>>

ThreadStep(t) ==
  \/ Apply(t) \/ Refuse(t) \/ ReadVersion(t) \/ SendAck(t) \/ BroadcastToOthers(t)

Next ==
  \/ \E u \in UserId : AddUser(u) \/ RemoveUser(u)
  \/ SetBroadcastCallback
  \/ \E t \in Thread, c \in Call : Enter(t, c)
  \/ \E t \in Thread : ThreadStep(t)

Spec == Init /\ [][Next]_vars

\* A thread inside the method is never blocked for good: both locks are held
\* for a bounded time only, and no callback is waited for.
FairSpec == Spec /\ \A t \in Thread : WF_vars(ThreadStep(t))

-----------------------------------------------------------------------------
InFlight(t) == pc[t] \in {"applied", "acking", "broadcasting"}

Received(u) == {inbox[u][i].id : i \in 1..Len(inbox[u])}

(* Locals, inboxes and the document have their types.                      *)
TypeOK ==
  /\ users_ \subseteq UserId /\ callbackSet \in BOOLEAN
  /\ currentVersion \in Version /\ applied \in Seq(OpId)
  /\ pc \in [Thread -> {"idle", "entered", "applied", "acking", "broadcasting"}]
  /\ op \in [Thread -> Call \cup {None}]
  /\ \A t \in Thread : pc[t] = "idle" <=> op[t] = None
  /\ ackVersion \in [Thread -> Version]
  /\ inbox \in [UserId -> Seq(Message)]
  /\ since \in [UserId -> Version]

(* Concurrent callers cannot both be granted a version, and a retry cannot  *)
(* be granted a second one: the document holds as many operations as its   *)
(* version says, none twice, and one that is being announced sits at the   *)
(* version its author gave it.                                             *)
OneOpPerVersion ==
  /\ Len(applied) = currentVersion
  /\ \A i, j \in 1..Len(applied) : applied[i] = applied[j] => i = j
  /\ \A t \in Thread : InFlight(t) => /\ op[t].version \in 1..currentVersion
                                      /\ applied[op[t].version] = op[t].id

(* Whoever has been a member since before an operation was applied has     *)
(* been told of it, by ACK or broadcast, or the thread that applied it is  *)
(* about to: members cannot silently miss an edit.                         *)
NothingMissed ==
  callbackSet =>
    \A u \in users_ : \A i \in since[u] + 1..currentVersion :
      \/ applied[i] \in Received(u)
      \/ \E t \in Thread :
           /\ InFlight(t) /\ op[t].id = applied[i]
           /\ op[t].sender = u => pc[t] # "broadcasting"

(* Nobody hears of an operation that was not applied, or of one twice; a   *)
(* broadcast carries the version the operation was applied at.             *)
ToldTruth ==
  \A u \in UserId :
    /\ \A i, j \in 1..Len(inbox[u]) : inbox[u][i].id = inbox[u][j].id => i = j
    /\ \A i \in 1..Len(inbox[u]) :
         /\ inbox[u][i].id \in Applied
         /\ inbox[u][i].kind = "OPERATION" => /\ inbox[u][i].version \in 1..currentVersion
                                              /\ applied[inbox[u][i].version] = inbox[u][i].id

(* The version in an ACK was read after the operation took effect and is   *)
(* not ahead of the document: it covers the operation it confirms.         *)
AckCoversOp ==
  \A u \in UserId : \A i \in 1..Len(inbox[u]) :
    inbox[u][i].kind = "ACK" =>
      /\ inbox[u][i].version <= currentVersion
      /\ \E v \in 1..inbox[u][i].version : applied[v] = inbox[u][i].id

(* An operation applied while a callback is set is confirmed to its sender *)
(* in the end, whatever the other threads and the members do.              *)
AckArrives ==
  \A t \in Thread, id \in OpId, u \in UserId :
    pc[t] = "applied" /\ callbackSet /\ op[t].id = id /\ op[t].sender = u
      ~> id \in Received(u)

(* The room implements the log: what users hear is one agreed sequence.    *)
Log == INSTANCE BroadcastLog WITH
         log <- applied, delivered <- [u \in UserId |-> Received(u)]
ImplementsLog == Log!LogSpec

(* docs/architecture.md has the other clients receive and apply the        *)
(* broadcast operations, and a DocumentState takes them in version order   *)
(* only: each member is sent them in that order.                           *)
BroadcastInVersionOrder ==
  \A u \in UserId : \A i, j \in 1..Len(inbox[u]) :
    /\ i < j
    /\ inbox[u][i].kind = "OPERATION" /\ inbox[u][j].kind = "OPERATION"
    => inbox[u][i].version < inbox[u][j].version
=============================================================================
