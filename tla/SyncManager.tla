----------------------------- MODULE SyncManager -----------------------------
(***************************************************************************)
(* src/src/core/SyncManager.cpp and OfflineQueue.cpp: operations queued    *)
(* per user while the user is offline, handed to a callback on reconnect.  *)
(* Every method holds managerMutex throughout, and syncPendingOperations   *)
(* runs the callback, the caller's code, under it.  The callback may       *)
(* throw, may be empty, and may call the manager again, which waits for    *)
(* the mutex its own thread holds.                                         *)
(*                                                                         *)
(* The n-th operation queued for a user is the number n.  A missing queue  *)
(* and an empty one are the same to every caller.                          *)
(***************************************************************************)
EXTENDS Naturals, Sequences

CONSTANTS UserId, Thread,
          MaxOps,   \* bound on the operations queued for a user
          None      \* nobody

Methods == {"enqueue", "sync", "clear"}

\* A call in progress; one whose callback called the manager back is stuck.
CallRecord == [method : Methods \cup {"stuck"}, user : UserId]

ASSUME SyncAssumption == None \notin Thread \cup CallRecord /\ MaxOps \in Nat

VARIABLES
  queues,    \* queues[u]: the pending operations
  mutex,     \* the thread that holds managerMutex
  call,      \* call[t]: the method thread t has called and its user, or None
  ops,       \* ops[t]: what a sync has dequeued and not handed over yet
  enqueued,  \* ghost: how many operations were queued for u so far
  handed,    \* ghost: the operations the callbacks have been given for u
  lost       \* ghost: a callback threw, or was empty, or the queue was cleared

vars == <<queues, mutex, call, ops, enqueued, handed, lost>>

Init ==
  /\ queues = [u \in UserId |-> <<>>]
  /\ mutex = None
  /\ call = [t \in Thread |-> None]
  /\ ops = [t \in Thread |-> <<>>]
  /\ enqueued = [u \in UserId |-> 0]
  /\ handed = [u \in UserId |-> <<>>]
  /\ lost = [u \in UserId |-> FALSE]

-----------------------------------------------------------------------------
Waiting(t, method) == mutex = None /\ call[t] # None /\ call[t].method = method

Return(t) == call' = [call EXCEPT ![t] = None] /\ mutex' = None

Call(t, method, u) ==
  /\ call[t] = None
  /\ call' = [call EXCEPT ![t] = [method |-> method, user |-> u]]
  /\ UNCHANGED <<queues, mutex, ops, enqueued, handed, lost>>

EnqueueOfflineOperation(t) ==
  LET u == call[t].user
  IN  /\ Waiting(t, "enqueue") /\ enqueued[u] < MaxOps
      /\ enqueued' = [enqueued EXCEPT ![u] = @ + 1]
      /\ queues' = [queues EXCEPT ![u] = Append(@, enqueued[u] + 1)]
      /\ Return(t)
      /\ UNCHANGED <<ops, handed, lost>>

\* Past the bound nothing is queued.
EnqueueBound(t) ==
  /\ Waiting(t, "enqueue") /\ enqueued[call[t].user] = MaxOps
  /\ Return(t)
  /\ UNCHANGED <<queues, ops, enqueued, handed, lost>>

ClearUserQueue(t) ==
  LET u == call[t].user
  IN  /\ Waiting(t, "clear")
      /\ queues' = [queues EXCEPT ![u] = <<>>]
      /\ lost' = [lost EXCEPT ![u] = @ \/ queues[u] # <<>>]
      /\ Return(t)
      /\ UNCHANGED <<ops, enqueued, handed>>

\* Mutant: the queue keeps what was dequeued.
DequeueAllKeeping(t) ==
  LET u == call[t].user
  IN  /\ Waiting(t, "sync")
      /\ mutex' = t
      /\ ops' = [ops EXCEPT ![t] = queues[u]]
      /\ UNCHANGED <<queues, call, enqueued, handed, lost>>

\* syncPendingOperations empties the queue before the first callback.
DequeueAll(t) ==
  LET u == call[t].user
  IN  /\ Waiting(t, "sync")
      /\ mutex' = t
      /\ ops' = [ops EXCEPT ![t] = queues[u]]
      /\ queues' = [queues EXCEPT ![u] = <<>>]
      /\ UNCHANGED <<call, enqueued, handed, lost>>

\* The callback is given the next operation and returns.
SyncCallback(t) ==
  LET u == call[t].user
  IN  /\ mutex = t /\ ops[t] # <<>>
      /\ handed' = [handed EXCEPT ![u] = Append(@, Head(ops[t]))]
      /\ ops' = [ops EXCEPT ![t] = Tail(@)]
      /\ UNCHANGED <<queues, mutex, call, enqueued, lost>>

\* Mutant: the mutex is locked and unlocked by hand, so a throw keeps it.
CallbackThrowsHolding(t) ==
  LET u == call[t].user
  IN  /\ mutex = t /\ ops[t] # <<>>
      /\ handed' = [handed EXCEPT ![u] = Append(@, Head(ops[t]))]
      /\ ops' = [ops EXCEPT ![t] = <<>>]
      /\ lost' = [lost EXCEPT ![u] = @ \/ Len(ops[t]) > 1]
      /\ call' = [call EXCEPT ![t] = None]
      /\ UNCHANGED <<queues, mutex, enqueued>>

\* It is given the next operation and throws: the sync is left, the mutex is
\* released, and the rest is gone.
CallbackThrows(t) ==
  LET u == call[t].user
  IN  /\ mutex = t /\ ops[t] # <<>>
      /\ handed' = [handed EXCEPT ![u] = Append(@, Head(ops[t]))]
      /\ ops' = [ops EXCEPT ![t] = <<>>]
      /\ lost' = [lost EXCEPT ![u] = @ \/ Len(ops[t]) > 1]
      /\ Return(t)
      /\ UNCHANGED <<queues, enqueued>>

\* There is no callback: everything dequeued is skipped.
NoCallback(t) ==
  /\ mutex = t /\ ops[t] # <<>>
  /\ ops' = [ops EXCEPT ![t] = <<>>]
  /\ lost' = [lost EXCEPT ![call[t].user] = TRUE]
  /\ UNCHANGED <<queues, mutex, call, enqueued, handed>>

\* The callback calls the manager, and waits for itself for good.
CallbackReenters(t) ==
  LET u == call[t].user
  IN  /\ mutex = t /\ ops[t] # <<>>
      /\ handed' = [handed EXCEPT ![u] = Append(@, Head(ops[t]))]
      /\ ops' = [ops EXCEPT ![t] = Tail(@)]
      /\ call' = [call EXCEPT ![t].method = "stuck"]
      /\ UNCHANGED <<queues, mutex, enqueued, lost>>

SyncReturns(t) ==
  /\ mutex = t /\ ops[t] = <<>>
  /\ Return(t)
  /\ UNCHANGED <<queues, ops, enqueued, handed, lost>>

Step(t) ==
  \/ EnqueueOfflineOperation(t) \/ EnqueueBound(t) \/ ClearUserQueue(t)
  \/ DequeueAll(t)
  \/ /\ call[t] # None /\ call[t].method = "sync"
     /\ \/ SyncCallback(t) \/ CallbackThrows(t) \/ NoCallback(t) \/ CallbackReenters(t)
        \/ SyncReturns(t)

Next ==
  \E t \in Thread : Step(t) \/ \E m \in Methods, u \in UserId : Call(t, m, u)

Spec == Init /\ [][Next]_vars

\* A callback ends, and a thread that keeps finding the mutex free gets it.
SyncFairness == \A t \in Thread : SF_vars(Step(t))

FairSpec == Spec /\ SyncFairness

-----------------------------------------------------------------------------
(* Queues and locals hold operations that were queued; only the thread     *)
(* that holds the mutex has operations in hand.                            *)
TypeOK ==
  /\ enqueued \in [UserId -> 0..MaxOps] /\ lost \in [UserId -> BOOLEAN]
  /\ queues \in [UserId -> Seq(1..MaxOps)] /\ handed \in [UserId -> Seq(1..MaxOps)]
  /\ mutex \in Thread \cup {None}
  /\ call \in [Thread -> {None} \cup CallRecord]
  /\ ops \in [Thread -> Seq(1..MaxOps)]
  /\ \A t \in Thread : ops[t] # <<>> => mutex = t
  /\ mutex # None => call[mutex] # None /\ call[mutex].method \in {"sync", "stuck"}

\* What a sync of u has in hand.
InHand(u) == IF mutex # None /\ call[mutex].user = u THEN ops[mutex] ELSE <<>>

Increasing(s) == \A i, j \in 1..Len(s) : i < j => s[i] < s[j]

(* However calls of several threads interleave, an operation is handed     *)
(* over once at most, and each user's in the order they were queued; while *)
(* no callback failed and nobody cleared the queue, each one is handed     *)
(* over, in hand or still queued.                                          *)
InOrder ==
  \A u \in UserId :
    LET all == handed[u] \o InHand(u) \o queues[u]
    IN  Increasing(all) /\ (~lost[u] => Len(all) = enqueued[u])

(* Every call returns, of any user, as long as no callback calls the       *)
(* manager back: one that fails does not keep the mutex.                   *)
CallsReturn ==
  \A t \in Thread :
    call[t] # None ~> call[t] = None \/ \E s \in Thread : call[s] # None /\ call[s].method = "stuck"
=============================================================================
