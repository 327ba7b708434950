--------------------------- MODULE QueueProofs ---------------------------
(***************************************************************************)
(* Proofs about the two queues that one thread fills and another empties:  *)
(* SyncManager's, for any users, threads and number of queued operations,  *)
(* and Logger's, for any callers, lines and lives.                         *)
(*                                                                         *)
(* SyncManager: InOrder is inductive together with the types and the fact  *)
(* that nothing beyond the operations queued so far is anywhere: so the    *)
(* next one is newer than all of them.                                     *)
(*                                                                         *)
(* Logger: every line written is in turn with every line after it, written *)
(* or pending, and comes from a call that has gone on (Places): so the     *)
(* line a caller is logging is newer than all of its lines that are        *)
(* anywhere, and no line is there twice.  A thread exists only in an       *)
(* asynchronous life that has not closed its file (ThreadTrue).            *)
(***************************************************************************)
EXTENDS SyncManager, Logger, SequenceTheorems, FiniteSetTheorems, TLAPS

-----------------------------------------------------------------------------
(* The sync manager.                                                       *)

\* A user's operations: handed over, in hand, still queued.
All(u) == handed[u] \o InHand(u) \o queues[u]

Bounded(s, n) == \A i \in 1..Len(s) : s[i] <= n

AllBounded == \A u \in UserId : Bounded(All(u), enqueued[u])

IInv == TypeOK /\ InOrder /\ AllBounded

-----------------------------------------------------------------------------
(* Sequences of numbers.                                                   *)

Ordered(s, t) == \A i \in 1..Len(s), j \in 1..Len(t) : s[i] < t[j]

(* What a concatenation has of its parts.                                  *)
LEMMA Concatenation ==
  ASSUME NEW s \in Seq(Nat), NEW t \in Seq(Nat)
  PROVE  /\ s \o t \in Seq(Nat) /\ Len(s \o t) = Len(s) + Len(t)
         /\ Increasing(s \o t) <=> Increasing(s) /\ Increasing(t) /\ Ordered(s, t)
         /\ \A n \in Nat : Bounded(s \o t, n) <=> Bounded(s, n) /\ Bounded(t, n)
         /\ \A v \in Seq(Nat) : Ordered(s \o t, v) <=> Ordered(s, v) /\ Ordered(t, v)
  <1> DEFINE st == s \o t   m == Len(s)   n == Len(t)
  <1>1. /\ st \in Seq(Nat) /\ Len(st) = m + n /\ m \in Nat /\ n \in Nat
        /\ \A i \in 1..m : st[i] = s[i]
        /\ \A i \in 1..n : m + i \in 1..m + n /\ st[m + i] = t[i]
        /\ \A i \in 1..m + n : st[i] \in Nat
        /\ \A i \in 1..m : s[i] \in Nat /\ i \in 1..m + n
        /\ \A i \in 1..n : t[i] \in Nat
    BY ConcatProperties, LenProperties, ElementOfSeq
  <1> HIDE DEF st
  <1>2. \A i \in 1..m + n : i \in 1..m \/ \E j \in 1..n : i = m + j
    <2> TAKE i \in 1..m + n
    <2>1. CASE i > m
      <3>1. i - m \in 1..n /\ i = m + (i - m)
        BY <1>1, <2>1
      <3> QED BY <3>1
    <2>2. CASE ~(i > m)
      BY <1>1, <2>2
    <2> QED BY <2>1, <2>2
  <1>3. Increasing(st) <=> Increasing(s) /\ Increasing(t) /\ Ordered(s, t)
    <2>1. ASSUME Increasing(st) PROVE Increasing(s) /\ Increasing(t) /\ Ordered(s, t)
      <3>1. Increasing(s)
        BY <1>1, <2>1 DEF Increasing
      <3>2. ASSUME NEW i \in 1..n, NEW j \in 1..n, i < j PROVE t[i] < t[j]
        <4>1. m + i < m + j
          BY <1>1, <3>2
        <4> QED BY <1>1, <2>1, <4>1 DEF Increasing
      <3>3. ASSUME NEW i \in 1..m, NEW j \in 1..n PROVE s[i] < t[j]
        <4>1. i < m + j
          BY <1>1
        <4> QED BY <1>1, <2>1, <4>1 DEF Increasing
      <3> QED BY <3>1, <3>2, <3>3 DEF Increasing, Ordered
    <2>2. ASSUME Increasing(s), Increasing(t), Ordered(s, t) PROVE Increasing(st)
      <3> SUFFICES ASSUME NEW i \in 1..m + n, NEW j \in 1..m + n, i < j PROVE st[i] < st[j]
        BY <1>1 DEF Increasing
      <3>1. CASE j \in 1..m
        <4>1. i \in 1..m
          BY <1>1, <3>1
        <4> QED BY <1>1, <2>2, <3>1, <4>1 DEF Increasing
      <3>2. CASE i \notin 1..m
        <4>1. j \notin 1..m
          BY <1>1, <3>2
        <4>2. PICK p \in 1..n : i = m + p
          BY <1>2, <3>2
        <4>3. PICK q \in 1..n : j = m + q
          BY <1>2, <4>1
        <4>4. p < q
          BY <4>2, <4>3, <1>1
        <4> QED BY <1>1, <2>2, <4>2, <4>3, <4>4 DEF Increasing
      <3>3. CASE i \in 1..m /\ j \notin 1..m
        <4>1. PICK q \in 1..n : j = m + q
          BY <1>2, <3>3
        <4> QED BY <1>1, <2>2, <3>3, <4>1 DEF Ordered
      <3> QED BY <3>1, <3>2, <3>3
    <2> QED BY <2>1, <2>2
  <1>4. ASSUME NEW k \in Nat PROVE Bounded(st, k) <=> Bounded(s, k) /\ Bounded(t, k)
    <2>1. ASSUME Bounded(st, k) PROVE Bounded(s, k) /\ Bounded(t, k)
      BY <1>1, <2>1 DEF Bounded
    <2>2. ASSUME Bounded(s, k), Bounded(t, k), NEW i \in 1..m + n PROVE st[i] <= k
      BY <1>1, <1>2, <2>2 DEF Bounded
    <2> QED BY <1>1, <2>1, <2>2 DEF Bounded
  <1>5. ASSUME NEW v \in Seq(Nat) PROVE Ordered(st, v) <=> Ordered(s, v) /\ Ordered(t, v)
    <2>1. ASSUME Ordered(st, v) PROVE Ordered(s, v) /\ Ordered(t, v)
      BY <1>1, <2>1 DEF Ordered
    <2>2. ASSUME Ordered(s, v), Ordered(t, v), NEW i \in 1..m + n, NEW j \in 1..Len(v)
          PROVE  st[i] < v[j]
      BY <1>1, <1>2, <2>2 DEF Ordered
    <2> QED BY <1>1, <2>1, <2>2 DEF Ordered
  <1> QED BY <1>1, <1>3, <1>4, <1>5 DEF st

(* Three sequences, of which the middle may lose its end, and the end may  *)
(* be left out: order and bound stay.                                      *)
LEMMA LeavingOut ==
  ASSUME NEW a \in Seq(Nat), NEW b \in Seq(Nat), NEW c \in Seq(Nat), NEW n \in Nat,
         Increasing(a \o b \o c), Bounded(a \o b \o c, n)
  PROVE  /\ Increasing(a \o <<>> \o c) /\ Bounded(a \o <<>> \o c, n)
         /\ Increasing(a \o b \o <<>>) /\ Bounded(a \o b \o <<>>, n)
         /\ b # <<>> => /\ Increasing(Append(a, Head(b)) \o <<>> \o c)
                        /\ Bounded(Append(a, Head(b)) \o <<>> \o c, n)
  <1>1. /\ Increasing(a) /\ Increasing(b) /\ Increasing(c)
        /\ Ordered(a, b) /\ Ordered(a, c) /\ Ordered(b, c)
        /\ Bounded(a, n) /\ Bounded(b, n) /\ Bounded(c, n) /\ a \o b \in Seq(Nat)
    BY Concatenation
  <1>2. /\ <<>> \in Seq(Nat) /\ Increasing(<<>>) /\ Bounded(<<>>, n)
        /\ \A s \in Seq(Nat) : Ordered(s, <<>>) /\ Ordered(<<>>, s)
    BY DEF Increasing, Bounded, Ordered
  <1>3. Increasing(a \o <<>> \o c) /\ Bounded(a \o <<>> \o c, n)
    BY <1>1, <1>2, ConcatEmptySeq, Concatenation
  <1>4. Increasing(a \o b \o <<>>) /\ Bounded(a \o b \o <<>>, n)
    BY <1>1, ConcatEmptySeq, Concatenation
  <1>5. ASSUME b # <<>>
        PROVE  /\ Increasing(Append(a, Head(b)) \o <<>> \o c)
               /\ Bounded(Append(a, Head(b)) \o <<>> \o c, n)
    <2> DEFINE h == <<Head(b)>>
    <2>1. h \in Seq(Nat) /\ Len(h) = 1 /\ h[1] = b[1] /\ 1 \in 1..Len(b) /\ Head(b) \in Nat
      BY <1>5
    <2>2. Append(a, Head(b)) = a \o h
      BY <2>1, AppendIsConcat
    <2> HIDE DEF h
    <2>3. Increasing(h) /\ Bounded(h, n) /\ Ordered(a, h) /\ Ordered(h, c)
      BY <1>1, <2>1 DEF Increasing, Bounded, Ordered
    <2>4. a \o h \in Seq(Nat) /\ Increasing(a \o h) /\ Bounded(a \o h, n) /\ Ordered(a \o h, c)
      BY <1>1, <2>1, <2>3, Concatenation
    <2>5. (a \o h) \o <<>> = a \o h
      BY <2>4, ConcatEmptySeq
    <2>6. Increasing((a \o h) \o c) /\ Bounded((a \o h) \o c, n)
      BY <1>1, <2>4, Concatenation
    <2> QED BY <2>2, <2>5, <2>6
  <1> QED BY <1>3, <1>4, <1>5

(* Concatenation is associative.                                           *)
LEMMA Associates ==
  ASSUME NEW s \in Seq(Nat), NEW t \in Seq(Nat), NEW u \in Seq(Nat)
  PROVE  (s \o t) \o u = s \o (t \o u)
  BY ConcatAssociative, SMTT(30)

(* The middle may give its head to the front; an empty middle may take the *)
(* end: the whole is the same.                                             *)
LEMMA MovingOver ==
  ASSUME NEW a \in Seq(Nat), NEW b \in Seq(Nat), NEW c \in Seq(Nat)
  PROVE  /\ b # <<>> => Append(a, Head(b)) \o Tail(b) \o c = a \o b \o c
         /\ a \o c \o <<>> = a \o <<>> \o c
  <1>1. a \o c \o <<>> = a \o <<>> \o c
    BY ConcatProperties, ConcatEmptySeq
  <1>2. ASSUME b # <<>> PROVE Append(a, Head(b)) \o Tail(b) \o c = a \o b \o c
    <2>1. <<Head(b)>> \o Tail(b) = b /\ <<Head(b)>> \in Seq(Nat) /\ Tail(b) \in Seq(Nat)
      BY <1>2
    <2>2. Append(a, Head(b)) = a \o <<Head(b)>>
      BY <1>2, AppendIsConcat
    <2>3. (a \o <<Head(b)>>) \o Tail(b) = a \o b
      <3>1. (a \o <<Head(b)>>) \o Tail(b) = a \o (<<Head(b)>> \o Tail(b))
        BY <2>1, Associates
      <3> QED BY <2>1, <3>1
    <2> QED BY <2>2, <2>3
  <1> QED BY <1>1, <1>2

(* A newer element at the end keeps the order.                             *)
LEMMA AddingNext ==
  ASSUME NEW s \in Seq(Nat), NEW c \in Seq(Nat), NEW n \in Nat,
         Increasing(s \o c), Bounded(s \o c, n)
  PROVE  /\ Increasing(s \o Append(c, n + 1)) /\ Bounded(s \o Append(c, n + 1), n + 1)
         /\ Len(s \o Append(c, n + 1)) = Len(s \o c) + 1
  <1> DEFINE e == <<n + 1>>
  <1>1. e \in Seq(Nat) /\ Len(e) = 1 /\ e[1] = n + 1
    OBVIOUS
  <1>2. s \o Append(c, n + 1) = (s \o c) \o e
    <2>1. Append(c, n + 1) = c \o e
      BY AppendIsConcat
    <2> HIDE DEF e
    <2>2. s \o (c \o e) = (s \o c) \o e
      BY <1>1, Associates
    <2> QED BY <2>1, <2>2
  <1>3. s \o c \in Seq(Nat) /\ n + 1 \in Nat
    BY ConcatProperties
  <1> HIDE DEF e
  <1>4. Increasing(e) /\ Bounded(e, n + 1) /\ Ordered(s \o c, e) /\ Bounded(s \o c, n + 1)
    BY <1>1, <1>3 DEF Increasing, Bounded, Ordered
  <1>5. /\ Increasing((s \o c) \o e) /\ Bounded((s \o c) \o e, n + 1)
        /\ Len((s \o c) \o e) = Len(s \o c) + 1
    BY <1>1, <1>3, <1>4, Concatenation
  <1> QED BY <1>2, <1>5

-----------------------------------------------------------------------------
(* The parts of All are sequences of numbers; nothing is in hand while the *)
(* mutex is free, and of one user only while it is held.                   *)
LEMMA PartsAreSequences ==
  ASSUME TypeOK, NEW u \in UserId
  PROVE  /\ handed[u] \in Seq(Nat) /\ queues[u] \in Seq(Nat) /\ InHand(u) \in Seq(Nat)
         /\ enqueued[u] \in Nat
         /\ mutex = None => InHand(u) = <<>>
         /\ mutex # None => InHand(u) = IF call[mutex].user = u THEN ops[mutex] ELSE <<>>
  <1>1. 1..MaxOps \subseteq Nat /\ <<>> \in Seq(Nat)
    BY SyncAssumption
  <1>2. \A s \in Seq(1..MaxOps) : s \in Seq(Nat)
    BY <1>1, SeqMonotonic
  <1> QED BY <1>1, <1>2, SyncAssumption DEF TypeOK, InHand

(* The initial state satisfies the invariant.                              *)
LEMMA InitInv == Init => IInv
  <1> SUFFICES ASSUME Init PROVE IInv
    OBVIOUS
  <1> USE SyncAssumption DEF Init
  <1>1. TypeOK
    BY DEF TypeOK, Methods
  <1>2. \A u \in UserId : All(u) = <<>> \o <<>> \o <<>>
    BY DEF All, InHand
  <1>3. <<>> \o <<>> \o <<>> = <<>>
    BY ConcatEmptySeq
  <1> QED BY <1>1, <1>2, <1>3 DEF IInv, InOrder, AllBounded, All, Increasing, Bounded

(* A step keeps the invariant if for every user what there is stays as it  *)
(* is, or loses elements and is marked as lost.                            *)
LEMMA LosesOrKeeps ==
  ASSUME IInv, TypeOK', enqueued' = enqueued,
         \A u \in UserId :
           /\ lost[u] => lost'[u]
           /\ \/ All(u)' = All(u)
              \/ lost'[u] /\ Increasing(All(u)') /\ Bounded(All(u)', enqueued[u])
  PROVE  IInv'
  BY DEF IInv, InOrder, AllBounded, All

(* Queueing and clearing keep it.                                          *)
LEMMA QueueStep ==
  ASSUME IInv, NEW t \in Thread,
         EnqueueOfflineOperation(t) \/ EnqueueBound(t) \/ ClearUserQueue(t)
  PROVE  IInv'
  <1> USE SyncAssumption DEF Waiting, Return
  <1>0. PICK u \in UserId :
          /\ u = call[t].user /\ mutex = None /\ mutex' = None
          /\ \A v \in UserId : InHand(v) = <<>> /\ InHand(v)' = <<>>
    BY DEF IInv, TypeOK, InHand, EnqueueOfflineOperation, EnqueueBound, ClearUserQueue, Methods,
           CallRecord
  <1>1. CASE EnqueueOfflineOperation(t)
    <2>1. TypeOK'
      BY <1>0, <1>1 DEF EnqueueOfflineOperation, IInv, TypeOK
    <2>2. \A v \in UserId \ {u} : All(v)' = All(v) /\ enqueued'[v] = enqueued[v]
      BY <1>0, <1>1 DEF EnqueueOfflineOperation, All, IInv, TypeOK
    <2>3. /\ handed' = handed /\ queues'[u] = Append(queues[u], enqueued[u] + 1)
          /\ enqueued'[u] = enqueued[u] + 1 /\ lost' = lost
      BY <1>0, <1>1 DEF EnqueueOfflineOperation, IInv, TypeOK
    <2>4. PICK s \in Seq(Nat), c \in Seq(Nat), n \in Nat :
            s = handed[u] \o <<>> /\ c = queues[u] /\ n = enqueued[u]
      BY <1>0, PartsAreSequences, ConcatEmptySeq DEF IInv
    <2>5. All(u) = s \o c /\ All(u)' = s \o Append(c, n + 1)
      BY <1>0, <2>3, <2>4 DEF All
    <2>6. Increasing(s \o c) /\ Bounded(s \o c, n)
      BY <1>0, <2>4, <2>5 DEF IInv, InOrder, AllBounded, All
    <2>7. /\ Increasing(All(u)') /\ Bounded(All(u)', enqueued'[u])
          /\ Len(All(u)') = Len(All(u)) + 1
      <3>1. /\ Increasing(s \o Append(c, n + 1)) /\ Bounded(s \o Append(c, n + 1), n + 1)
            /\ Len(s \o Append(c, n + 1)) = Len(s \o c) + 1
        BY <2>6, AddingNext
      <3> QED BY <2>3, <2>4, <2>5, <3>1
    <2>8. \A v \in UserId : /\ Increasing(All(v)') /\ Bounded(All(v)', enqueued'[v])
                            /\ ~lost'[v] => Len(All(v)') = enqueued'[v]
      BY <2>2, <2>3, <2>4, <2>7, <1>0 DEF IInv, InOrder, AllBounded, All
    <2> QED BY <2>1, <2>8 DEF IInv, InOrder, AllBounded, All
  <1>2. CASE EnqueueBound(t)
    <2>1. TypeOK'
      BY <1>0, <1>2 DEF EnqueueBound, IInv, TypeOK
    <2>2. \A v \in UserId : All(v)' = All(v)
      BY <1>0, <1>2 DEF EnqueueBound, All
    <2> QED BY <1>2, <2>1, <2>2, LosesOrKeeps DEF EnqueueBound
  <1>3. CASE ClearUserQueue(t)
    <2>1. TypeOK'
      BY <1>0, <1>3 DEF ClearUserQueue, IInv, TypeOK
    <2>2. \A v \in UserId \ {u} : All(v)' = All(v) /\ lost'[v] = lost[v]
      BY <1>0, <1>3 DEF ClearUserQueue, All, IInv, TypeOK
    <2>3. /\ handed' = handed /\ queues'[u] = <<>>
          /\ lost'[u] = (lost[u] \/ queues[u] # <<>>)
      BY <1>0, <1>3 DEF ClearUserQueue, IInv, TypeOK
    <2>4. /\ All(u) = handed[u] \o <<>> \o queues[u] /\ All(u)' = handed[u] \o <<>> \o <<>>
      BY <1>0, <2>3 DEF All
    <2>5. Increasing(All(u)) /\ Bounded(All(u), enqueued[u])
      BY <1>0 DEF IInv, InOrder, AllBounded, All
    <2>6. Increasing(All(u)') /\ Bounded(All(u)', enqueued[u])
      <3>1. /\ handed[u] \in Seq(Nat) /\ queues[u] \in Seq(Nat) /\ enqueued[u] \in Nat
            /\ <<>> \in Seq(Nat)
        BY <1>0, PartsAreSequences DEF IInv
      <3>2. /\ Increasing(handed[u] \o <<>> \o queues[u])
            /\ Bounded(handed[u] \o <<>> \o queues[u], enqueued[u])
        BY <2>4, <2>5
      <3>3. /\ Increasing(handed[u] \o <<>> \o <<>>)
            /\ Bounded(handed[u] \o <<>> \o <<>>, enqueued[u])
        BY <3>1, <3>2, LeavingOut
      <3> QED BY <2>4, <3>3
    <2>7. CASE queues[u] = <<>>
      BY <1>3, <2>1, <2>2, <2>3, <2>4, <2>7, LosesOrKeeps DEF ClearUserQueue
    <2>8. CASE queues[u] # <<>>
      BY <1>3, <2>1, <2>2, <2>3, <2>6, <2>8, LosesOrKeeps DEF ClearUserQueue
    <2> QED BY <2>7, <2>8
  <1> QED BY <1>1, <1>2, <1>3

(* The steps of a sync.  Only All of the user it syncs can change.         *)
LEMMA SyncStep ==
  ASSUME IInv, NEW t \in Thread,
         \/ DequeueAll(t)
         \/ /\ call[t] # None /\ call[t].method = "sync"
            /\ \/ SyncCallback(t) \/ CallbackThrows(t) \/ NoCallback(t) \/ CallbackReenters(t)
               \/ SyncReturns(t)
  PROVE  IInv'
  <1> USE SyncAssumption DEF Waiting, Return
  <1>0. PICK u \in UserId : u = call[t].user /\ call[t] # None /\ t # None
    BY DEF IInv, TypeOK, DequeueAll, Methods, CallRecord
  <1>1. PICK a \in Seq(Nat), b \in Seq(Nat), c \in Seq(Nat), n \in Nat :
          /\ a = handed[u] /\ c = queues[u] /\ b = InHand(u) /\ n = enqueued[u]
          /\ (mutex = t /\ b = ops[t]) \/ (mutex = None /\ b = <<>>)
    <2>1. mutex = t \/ mutex = None
      BY DEF DequeueAll, SyncCallback, CallbackThrows, NoCallback, CallbackReenters, SyncReturns
    <2>2. mutex = t => InHand(u) = ops[t]
      BY <1>0 DEF InHand
    <2>3. mutex = None => InHand(u) = <<>>
      BY DEF InHand
    <2> QED BY <1>0, <2>1, <2>2, <2>3, PartsAreSequences DEF IInv
  <1>2. Increasing(a \o b \o c) /\ Bounded(a \o b \o c, n) /\ All(u) = a \o b \o c
    BY <1>0, <1>1 DEF IInv, InOrder, AllBounded, All
  <1> DEFINE Op == 1..MaxOps
  <1>9. ops[t] # <<>> => Head(ops[t]) \in Op /\ Tail(ops[t]) \in Seq(Op)
    BY DEF IInv, TypeOK
  <1>10. \A h \in Op : [handed EXCEPT ![u] = Append(@, h)] \in [UserId -> Seq(Op)]
    BY <1>0 DEF IInv, TypeOK
  <1> HIDE DEF Op
  <1>3. CASE DequeueAll(t)
    <2>1. TypeOK'
      BY <1>0, <1>3 DEF DequeueAll, IInv, TypeOK, Methods
    <2>2. \A v \in UserId \ {u} : All(v)' = All(v)
      BY <1>0, <1>3 DEF DequeueAll, All, InHand, IInv, TypeOK
    <2>3. b = <<>> /\ All(u)' = a \o c \o <<>>
      BY <1>0, <1>1, <1>3 DEF DequeueAll, All, InHand, IInv, TypeOK
    <2>4. All(u)' = All(u)
      BY <1>1, <1>2, <2>3, MovingOver
    <2> QED BY <1>3, <2>1, <2>2, <2>4, LosesOrKeeps DEF DequeueAll
  <1>4. CASE SyncCallback(t) /\ call[t] # None /\ call[t].method = "sync"
    <2>1. TypeOK'
      <3>1. handed' \in [UserId -> Seq(Op)] /\ ops' \in [Thread -> Seq(Op)]
        BY <1>0, <1>4, <1>9, <1>10 DEF SyncCallback, IInv, TypeOK, Op
      <3> QED BY <1>0, <1>4, <3>1 DEF SyncCallback, IInv, TypeOK, Op
    <2>2. \A v \in UserId \ {u} : All(v)' = All(v)
      BY <1>0, <1>4 DEF SyncCallback, All, InHand, IInv, TypeOK
    <2>3. b # <<>> /\ All(u)' = Append(a, Head(b)) \o Tail(b) \o c
      BY <1>0, <1>1, <1>4 DEF SyncCallback, All, InHand, IInv, TypeOK
    <2>4. All(u)' = All(u)
      <3>1. Append(a, Head(b)) \o Tail(b) \o c = a \o b \o c
        BY <2>3, MovingOver
      <3> QED BY <1>2, <2>3, <3>1
    <2> QED BY <1>4, <2>1, <2>2, <2>4, LosesOrKeeps DEF SyncCallback
  <1>5. CASE CallbackReenters(t) /\ call[t] # None /\ call[t].method = "sync"
    <2>1. TypeOK'
      <3>1. handed' \in [UserId -> Seq(Op)] /\ ops' \in [Thread -> Seq(Op)]
        BY <1>0, <1>5, <1>9, <1>10 DEF CallbackReenters, IInv, TypeOK, Op
      <3>2. /\ call' \in [Thread -> {None} \cup CallRecord]
            /\ call'[t] # None /\ call'[t].method = "stuck"
        BY <1>0, <1>5 DEF CallbackReenters, IInv, TypeOK, CallRecord
      <3> QED BY <1>0, <1>5, <3>1, <3>2 DEF CallbackReenters, IInv, TypeOK, Op
    <2>2. \A v \in UserId \ {u} : All(v)' = All(v)
      BY <1>0, <1>5 DEF CallbackReenters, All, InHand, IInv, TypeOK, CallRecord
    <2>3. b # <<>> /\ All(u)' = Append(a, Head(b)) \o Tail(b) \o c
      BY <1>0, <1>1, <1>5 DEF CallbackReenters, All, InHand, IInv, TypeOK, CallRecord
    <2>4. All(u)' = All(u)
      <3>1. Append(a, Head(b)) \o Tail(b) \o c = a \o b \o c
        BY <2>3, MovingOver
      <3> QED BY <1>2, <2>3, <3>1
    <2> QED BY <1>5, <2>1, <2>2, <2>4, LosesOrKeeps DEF CallbackReenters
  <1>6. CASE CallbackThrows(t) /\ call[t] # None /\ call[t].method = "sync"
    <2>1. TypeOK'
      <3>1. handed' \in [UserId -> Seq(Op)] /\ ops' \in [Thread -> Seq(Op)]
        BY <1>0, <1>6, <1>9, <1>10 DEF CallbackThrows, IInv, TypeOK, Op
      <3> QED BY <1>0, <1>6, <3>1 DEF CallbackThrows, IInv, TypeOK, Op
    <2>2. \A v \in UserId \ {u} : All(v)' = All(v) /\ lost'[v] = lost[v]
      BY <1>0, <1>6 DEF CallbackThrows, All, InHand, IInv, TypeOK
    <2>3. /\ b # <<>> /\ All(u)' = Append(a, Head(b)) \o <<>> \o c
          /\ lost'[u] = (lost[u] \/ Len(b) > 1)
      BY <1>0, <1>1, <1>6 DEF CallbackThrows, All, InHand, IInv, TypeOK
    <2>4. Increasing(All(u)') /\ Bounded(All(u)', n)
      BY <1>2, <2>3, LeavingOut
    <2>5. CASE Len(b) > 1
      BY <1>1, <1>6, <2>1, <2>2, <2>3, <2>4, <2>5, LosesOrKeeps DEF CallbackThrows
    <2>6. CASE ~(Len(b) > 1)
      <3>1. Tail(b) = <<>>
        BY <2>3, <2>6
      <3>2. Append(a, Head(b)) \o Tail(b) \o c = a \o b \o c
        BY <2>3, MovingOver
      <3>3. All(u)' = All(u)
        BY <1>2, <2>3, <3>1, <3>2
      <3> QED BY <1>6, <2>1, <2>2, <2>3, <3>3, LosesOrKeeps DEF CallbackThrows
    <2> QED BY <2>5, <2>6
  <1>7. CASE NoCallback(t) /\ call[t] # None /\ call[t].method = "sync"
    <2>1. TypeOK'
      BY <1>0, <1>7 DEF NoCallback, IInv, TypeOK
    <2>2. \A v \in UserId \ {u} : All(v)' = All(v) /\ lost'[v] = lost[v]
      BY <1>0, <1>7 DEF NoCallback, All, InHand, IInv, TypeOK
    <2>3. All(u)' = a \o <<>> \o c /\ lost'[u]
      BY <1>0, <1>1, <1>7 DEF NoCallback, All, InHand, IInv, TypeOK
    <2>4. Increasing(All(u)') /\ Bounded(All(u)', n)
      BY <1>2, <2>3, LeavingOut
    <2> QED BY <1>1, <1>7, <2>1, <2>2, <2>3, <2>4, LosesOrKeeps DEF NoCallback
  <1>8. CASE SyncReturns(t) /\ call[t] # None /\ call[t].method = "sync"
    <2>1. TypeOK'
      BY <1>0, <1>8 DEF SyncReturns, IInv, TypeOK
    <2>2. \A v \in UserId : InHand(v)' = InHand(v)
      BY <1>8 DEF SyncReturns, InHand
    <2>3. \A v \in UserId : All(v)' = All(v)
      BY <1>8, <2>2 DEF SyncReturns, All
    <2> QED BY <1>8, <2>1, <2>3, LosesOrKeeps DEF SyncReturns
  <1> QED BY <1>3, <1>4, <1>5, <1>6, <1>7, <1>8

(* Calling a method changes nothing of what there is.                      *)
LEMMA CallStep ==
  ASSUME IInv, NEW t \in Thread, NEW m \in Methods, NEW u \in UserId, Call(t, m, u)
  PROVE  IInv'
  <1>1. TypeOK'
    BY DEF IInv, TypeOK, Call, CallRecord
  <1>2. \A v \in UserId : InHand(v)' = InHand(v)
    BY SyncAssumption DEF IInv, TypeOK, Call, InHand
  <1>3. \A v \in UserId : All(v)' = All(v)
    BY <1>2 DEF Call, All
  <1> QED BY <1>1, <1>3, LosesOrKeeps DEF Call

LEMMA NextInv == IInv /\ [Next]_vars => IInv'
  <1> SUFFICES ASSUME IInv, [Next]_vars PROVE IInv'
    OBVIOUS
  <1>1. CASE UNCHANGED vars
    BY <1>1 DEF IInv, TypeOK, InOrder, AllBounded, All, InHand, vars
  <1>2. ASSUME NEW t \in Thread, Step(t) PROVE IInv'
    BY <1>2, QueueStep, SyncStep DEF Step
  <1>3. ASSUME NEW t \in Thread, NEW m \in Methods, NEW u \in UserId, Call(t, m, u) PROVE IInv'
    BY <1>3, CallStep
  <1> QED BY <1>1, <1>2, <1>3 DEF Next

LEMMA Invariance == Spec => []IInv
  BY InitInv, NextInv, PTL DEF Spec

-----------------------------------------------------------------------------
(* Queues and locals hold operations that were queued, and only the thread *)
(* with the mutex, in a sync, has some in hand.                            *)
THEOREM TypeCorrect == Spec => []TypeOK
  <1>1. IInv => TypeOK
    BY DEF IInv
  <1> QED BY <1>1, Invariance, PTL

(* OfflineQueue and syncPendingOperations: an operation is handed over     *)
(* once at most and in the order of the queue, and none is missing unless  *)
(* a callback failed or the queue was cleared.                             *)
THEOREM HandedOverInOrder == Spec => []InOrder
  <1>1. IInv => InOrder
    BY DEF IInv
  <1> QED BY <1>1, Invariance, PTL

-----------------------------------------------------------------------------
(* The logger.                                                             *)

\* Of two lines the first can be ahead of the second.
May(k, l) == k # l /\ (k.by = l.by /\ k.n > l.n => ~k.queued /\ l.queued)

InTurn(s) == \A i, j \in 1..Len(s) : i < j => May(s[i], s[j])

Across(s, t) == \A k \in LinesIn(s), l \in LinesIn(t) : May(k, l)

(* The lines of one sequence after those of another.                       *)
LEMMA LinesConcat ==
  ASSUME NEW s \in Seq(Line), NEW t \in Seq(Line)
  PROVE  /\ s \o t \in Seq(Line) /\ LinesIn(s \o t) = LinesIn(s) \cup LinesIn(t)
         /\ InTurn(s \o t) <=> InTurn(s) /\ InTurn(t) /\ Across(s, t)
  <1> DEFINE n == Len(s)   m == Len(t)   st == s \o t
  <1>1. /\ n \in Nat /\ m \in Nat /\ st \in Seq(Line) /\ Len(st) = n + m
        /\ \A i \in 1..n + m : st[i] = IF i <= n THEN s[i] ELSE t[i - n]
    BY ConcatProperties, LenProperties
  <1>2. DOMAIN s = 1..n /\ DOMAIN t = 1..m /\ DOMAIN st = 1..n + m
    BY <1>1, LenProperties
  <1> HIDE DEF st
  <1>3. \A i \in 1..n : i \in 1..n + m /\ st[i] = s[i]
    BY <1>1
  <1>4. \A i \in 1..m : n + i \in 1..n + m /\ st[n + i] = t[i]
    <2> TAKE i \in 1..m
    <2>1. n + i \in 1..n + m /\ ~(n + i <= n) /\ (n + i) - n = i
      BY <1>1
    <2> QED BY <1>1, <2>1
  <1>5. ASSUME NEW i \in 1..n + m PROVE i \in 1..n \/ \E j \in 1..m : i = n + j
    <2>1. CASE i <= n
      BY <1>1, <2>1
    <2>2. CASE i > n
      <3>1. i - n \in 1..m /\ i = n + (i - n)
        BY <1>1, <2>2
      <3> QED BY <3>1
    <2> QED BY <1>1, <2>1, <2>2
  <1>6. LinesIn(st) = LinesIn(s) \cup LinesIn(t)
    <2>1. LinesIn(s) \cup LinesIn(t) \subseteq LinesIn(st)
      BY <1>2, <1>3, <1>4 DEF LinesIn
    <2>2. ASSUME NEW l \in LinesIn(st) PROVE l \in LinesIn(s) \cup LinesIn(t)
      <3>1. PICK i \in 1..n + m : l = st[i]
        BY <1>2 DEF LinesIn
      <3> QED BY <1>2, <1>3, <1>4, <1>5, <3>1 DEF LinesIn
    <2> QED BY <2>1, <2>2
  <1>7. ASSUME InTurn(st) PROVE InTurn(s) /\ InTurn(t) /\ Across(s, t)
    <2>1. \A i, j \in 1..n + m : i < j => May(st[i], st[j])
      BY <1>1, <1>7 DEF InTurn
    <2>2. InTurn(s)
      BY <1>3, <2>1 DEF InTurn
    <2>3. \A i, j \in 1..m : i < j => n + i < n + j
      BY <1>1
    <2>4. InTurn(t)
      BY <1>4, <2>1, <2>3 DEF InTurn
    <2>5. \A i \in 1..n, j \in 1..m : i < n + j
      BY <1>1
    <2>6. \A i \in 1..n, j \in 1..m : May(s[i], t[j])
      BY <1>3, <1>4, <2>1, <2>5
    <2>7. Across(s, t)
      BY <1>2, <2>6 DEF Across, LinesIn
    <2> QED BY <2>2, <2>4, <2>7
  <1>8. ASSUME InTurn(s), InTurn(t), Across(s, t) PROVE InTurn(st)
    <2>1. ASSUME NEW i \in 1..n + m, NEW j \in 1..n + m, i < j PROVE May(st[i], st[j])
      <3>1. CASE i \in 1..n /\ j \in 1..n
        BY <1>3, <1>8, <2>1, <3>1 DEF InTurn
      <3>2. CASE i \in 1..n /\ \E h \in 1..m : j = n + h
        BY <1>2, <1>3, <1>4, <1>8, <3>2 DEF Across, LinesIn
      <3>3. CASE (\E g \in 1..m : i = n + g) /\ (\E h \in 1..m : j = n + h)
        <4>1. PICK g \in 1..m, h \in 1..m : i = n + g /\ j = n + h
          BY <3>3
        <4>2. g < h
          BY <1>1, <2>1, <4>1
        <4> QED BY <1>4, <1>8, <4>1, <4>2 DEF InTurn
      <3>4. CASE (\E g \in 1..m : i = n + g) /\ j \in 1..n
        BY <1>1, <2>1, <3>4
      <3> QED BY <1>5, <3>1, <3>2, <3>3, <3>4
    <2> QED BY <1>1, <2>1 DEF InTurn
  <1> QED BY <1>1, <1>6, <1>7, <1>8 DEF st

(* One line, and none.                                                     *)
LEMMA LinesFew ==
  /\ LinesIn(<<>>) = {} /\ InTurn(<<>>) /\ <<>> \in Seq(Line)
  /\ \A l \in Line : LinesIn(<<l>>) = {l} /\ InTurn(<<l>>) /\ <<l>> \in Seq(Line)
  <1>1. LinesIn(<<>>) = {} /\ InTurn(<<>>) /\ <<>> \in Seq(Line)
    BY DEF LinesIn, InTurn
  <1>2. ASSUME NEW l \in Line PROVE LinesIn(<<l>>) = {l} /\ InTurn(<<l>>) /\ <<l>> \in Seq(Line)
    <2>1. DOMAIN <<l>> = {1} /\ <<l>>[1] = l /\ Len(<<l>>) = 1
      OBVIOUS
    <2> QED BY <2>1 DEF LinesIn, InTurn
  <1> QED BY <1>1, <1>2

(* Lines in turn are distinct, so there are as many as the sequence is long. *)
LEMMA AsManyLines ==
  ASSUME NEW s \in Seq(Line), InTurn(s)
  PROVE  Cardinality(LinesIn(s)) = Len(s)
  <1> DEFINE n == Len(s)
  <1>1. n \in Nat /\ s \in [1..n -> Line]
    BY LenProperties
  <1>2. LinesIn(s) = {s[i] : i \in 1..n}
    BY <1>1 DEF LinesIn
  <1>3. \A i, j \in 1..n : s[i] = s[j] => i = j
    <2> TAKE i, j \in 1..n
    <2>1. CASE i < j
      BY <2>1 DEF InTurn, May
    <2>2. CASE j < i
      BY <2>2 DEF InTurn, May
    <2> QED BY <1>1, <2>1, <2>2
  <1>4. s \in Bijection(1..n, LinesIn(s))
    BY <1>1, <1>2, <1>3 DEF Bijection, Injection, Surjection, IsInjective
  <1>5. IsFiniteSet(1..n) /\ Cardinality(1..n) = n
    <2> HIDE DEF n
    <2>1. IsFiniteSet(1..n) /\ Cardinality(1..n) = IF 1 > n THEN 0 ELSE n - 1 + 1
      BY <1>1, FS_Interval
    <2> QED BY <1>1, <2>1
  <1>6. ExistsBijection(1..n, LinesIn(s))
    BY <1>4 DEF ExistsBijection
  <1> QED BY <1>5, <1>6, FS_Bijection

-----------------------------------------------------------------------------
LogTypeOK ==
  /\ asyncEnabled \in BOOLEAN /\ asyncRunning \in BOOLEAN
  /\ logFile \in BOOLEAN /\ file \in BOOLEAN
  /\ logQueue \in Seq(Line) /\ queueMutex \in BOOLEAN
  /\ out \in Seq(Line)
  /\ thread \in {"none", "test", "check", "write", "blocking", "asleep", "ended"}
  /\ entry \in Line \cup {NoLine} /\ (entry # NoLine <=> thread = "write")
  /\ notified \in BOOLEAN /\ lives \in Nat
  /\ control \in {"down", "up", "failed", "joining", "closing"}
  /\ logged \in [Caller -> Seq(Line)]
  /\ line \in [Caller -> Line \cup {NoLine}]

\* The n-th line of a caller, and the one it is logging.
Numbered ==
  \A c \in Caller :
    /\ \A i \in 1..Len(logged[c]) : logged[c][i].by = c /\ logged[c][i].n = i
    /\ line[c] # NoLine => Len(logged[c]) > 0 /\ line[c] = logged[c][Len(logged[c])]

\* k was logged, by a call that has gone on.
Passed(k) == k.n \in 1..Len(logged[k.by]) /\ k = logged[k.by][k.n] /\ k # line[k.by]

Places ==
  /\ \A k \in LinesIn(out) \cup LinesIn(Pending) : Passed(k)
  /\ \A l \in LinesIn(Pending) : l.queued
  /\ InTurn(out) /\ InTurn(Pending) /\ Across(out, Pending)

NoneLost ==
  \A c \in Caller : \A l \in LinesIn(logged[c]) \ {line[c]} :
    l \in LinesIn(out) \cup LinesIn(Pending) \/ (l.blank /\ l.queued)

ThreadTrue ==
  /\ thread # "none" => asyncEnabled /\ control \in {"up", "joining"}
  /\ thread \notin {"none", "ended"} => logFile = file

LogInv == LogTypeOK /\ ThreadTrue /\ Numbered /\ Places /\ NoneLost

(* What is written and what is pending are sequences of lines.             *)
LEMMA WrittenPending ==
  ASSUME LogTypeOK
  PROVE  /\ out \in Seq(Line) /\ Pending \in Seq(Line)
         /\ \A l \in Line : WriteLog(l) => out' = out \o <<l>>
  <1>1. Pending \in Seq(Line)
    BY LinesFew, ConcatProperties DEF Pending, LogTypeOK
  <1>2. ASSUME NEW l \in Line, WriteLog(l) PROVE out' = out \o <<l>>
    BY <1>2, AppendIsConcat DEF WriteLog, LogTypeOK
  <1> QED BY <1>1, <1>2 DEF LogTypeOK

(* The invariant says what the two invariants of the runs say.             *)
LEMMA InvMeans == LogInv => LinesKept /\ OnlyDirectOvertakes
  <1> SUFFICES ASSUME LogInv PROVE LinesKept /\ OnlyDirectOvertakes
    OBVIOUS
  <1>1. LogTypeOK /\ Places /\ NoneLost /\ ThreadTrue
    BY DEF LogInv
  <1>2. out \in Seq(Line) /\ Pending \in Seq(Line)
    BY <1>1, WrittenPending
  <1> DEFINE all == out \o Pending
  <1>3. /\ all \in Seq(Line) /\ InTurn(all)
        /\ LinesIn(all) = LinesIn(out) \cup LinesIn(Pending)
    BY <1>1, <1>2, LinesConcat DEF Places
  <1>4. Cardinality(LinesIn(all)) = Len(all)
    <2> HIDE DEF all
    <2> QED BY <1>3, AsManyLines
  <1>5. LinesKept
    BY <1>1, <1>3, <1>4 DEF LinesKept, NoneLost, ThreadTrue
  <1>6. OnlyDirectOvertakes
    <2>1. DOMAIN out = 1..Len(out)
      BY <1>2, LenProperties
    <2>2. InTurn(out)
      BY <1>1 DEF Places
    <2> HIDE DEF all
    <2> QED BY <2>1, <2>2 DEF OnlyDirectOvertakes, InTurn, May
  <1> QED BY <1>5, <1>6

(* The initial state satisfies the invariant.                              *)
LEMMA InitLogger == LogInit => LogInv
  <1> SUFFICES ASSUME LogInit PROVE LogInv
    OBVIOUS
  <1> USE DEF LogInit
  <1>1. LogTypeOK
    <2>1. <<>> \in Seq(Line) /\ 0 \in Nat
      OBVIOUS
    <2>2. logged \in [Caller -> Seq(Line)] /\ line \in [Caller -> Line \cup {NoLine}]
      BY <2>1
    <2> QED BY <2>1, <2>2 DEF LogTypeOK
  <1>6. ThreadTrue
    BY DEF ThreadTrue
  <1>2. out = <<>> /\ Pending = <<>>
    BY DEF Pending
  <1>3. Places
    BY <1>2, LinesFew DEF Places, Across
  <1>4. Numbered
    BY DEF Numbered
  <1>5. NoneLost
    BY DEF NoneLost, LinesIn
  <1> QED BY <1>1, <1>3, <1>4, <1>5, <1>6 DEF LogInv

(* The line a caller is logging is none of the lines that were passed on,  *)
(* and the last of the caller's.                                           *)
LEMMA LineIsLast ==
  ASSUME LogInv, NEW c \in Caller, line[c] # NoLine
  PROVE  /\ line[c] \in Line /\ line[c].by = c
         /\ line[c].n = Len(logged[c]) /\ line[c].n \in 1..Len(logged[c])
         /\ line[c] = logged[c][line[c].n]
         /\ \A k \in LinesIn(out) \cup LinesIn(Pending) :
              k # line[c] /\ (k.by = c => ~(k.n > line[c].n))
  <1>1. LogTypeOK /\ Numbered /\ Places
    BY DEF LogInv
  <1>2. line[c] \in Line /\ logged[c] \in Seq(Line) /\ Len(logged[c]) \in Nat
    BY <1>1, LenProperties DEF LogTypeOK
  <1>3. Len(logged[c]) \in 1..Len(logged[c]) /\ line[c] = logged[c][Len(logged[c])]
    BY <1>1, <1>2 DEF Numbered
  <1>4. line[c].by = c /\ line[c].n = Len(logged[c])
    BY <1>1, <1>3 DEF Numbered
  <1>5. ASSUME NEW k \in LinesIn(out) \cup LinesIn(Pending)
        PROVE  k # line[c] /\ (k.by = c => ~(k.n > line[c].n))
    <2>1. Passed(k)
      BY <1>1 DEF Places
    <2>2. CASE k.by = c
      BY <1>2, <1>4, <2>1, <2>2 DEF Passed
    <2>3. CASE k.by # c
      BY <1>4, <2>3
    <2> QED BY <2>2, <2>3
  <1> QED BY <1>2, <1>3, <1>4, <1>5

(* A line is begun.                                                        *)
LEMMA LogCallStep ==
  ASSUME LogInv, NEW c \in Caller, Log(c)
  PROVE  LogInv'
  <1>1. LogTypeOK /\ ThreadTrue /\ Numbered /\ Places /\ NoneLost
    BY DEF LogInv
  <1>2. PICK blank \in BOOLEAN :
          LET l == [by |-> c, n |-> Len(logged[c]) + 1, blank |-> blank, queued |-> asyncEnabled]
          IN  /\ line' = [line EXCEPT ![c] = l]
              /\ logged' = [logged EXCEPT ![c] = Append(@, l)]
    BY DEF Log
  <1> DEFINE n == Len(logged[c])
             l == [by |-> c, n |-> n + 1, blank |-> blank, queued |-> asyncEnabled]
  <1>3. /\ line[c] = NoLine
        /\ UNCHANGED <<settings, logQueue, queueMutex, out, thread, entry, notified>>
    BY DEF Log
  <1>4. logged[c] \in Seq(Line) /\ n \in Nat
    BY <1>1, LenProperties DEF LogTypeOK
  <1>5. l \in Line /\ l.by = c /\ l.n = n + 1
    BY <1>1, <1>4 DEF Line, LogTypeOK
  <1> HIDE DEF l
  <1>6. /\ line' = [line EXCEPT ![c] = l]
        /\ logged' = [logged EXCEPT ![c] = Append(logged[c], l)]
    BY <1>2 DEF l
  <1>7. /\ Append(logged[c], l) \in Seq(Line) /\ Len(Append(logged[c], l)) = n + 1
        /\ \A i \in 1..n : Append(logged[c], l)[i] = logged[c][i]
        /\ Append(logged[c], l)[n + 1] = l
    BY <1>4, <1>5, AppendProperties
  <1> DEFINE more == Append(logged[c], l)
  <1> HIDE DEF more
  <1>8. /\ \A d \in Caller : logged'[d] = IF d = c THEN more ELSE logged[d]
        /\ \A d \in Caller : line'[d] = IF d = c THEN l ELSE line[d]
        /\ more \in Seq(Line) /\ Len(more) = n + 1 /\ more[n + 1] = l
        /\ \A i \in 1..n : more[i] = logged[c][i]
    BY <1>1, <1>6, <1>7 DEF LogTypeOK, more
  <1>9. LogTypeOK'
    BY <1>1, <1>3, <1>5, <1>6, <1>8 DEF LogTypeOK, settings, more
  <1>10. Numbered'
    <2>1. ASSUME NEW d \in Caller, d # c
          PROVE  /\ \A i \in 1..Len(logged'[d]) : logged'[d][i].by = d /\ logged'[d][i].n = i
                 /\ line'[d] # NoLine => /\ Len(logged'[d]) > 0
                                         /\ line'[d] = logged'[d][Len(logged'[d])]
      BY <1>1, <1>8, <2>1 DEF Numbered
    <2>2. \A i \in 1..n + 1 : more[i].by = c /\ more[i].n = i
      <3> TAKE i \in 1..n + 1
      <3>1. CASE i = n + 1
        BY <1>5, <1>8, <3>1
      <3>2. CASE i # n + 1
        <4>1. i \in 1..n
          BY <1>4, <3>2
        <4> QED BY <1>1, <1>8, <4>1 DEF Numbered
      <3> QED BY <3>1, <3>2
    <2>3. n + 1 > 0
      BY <1>4
    <2> QED BY <1>8, <2>1, <2>2, <2>3 DEF Numbered
  <1>11. out' = out /\ Pending' = Pending
    BY <1>3 DEF Pending
  <1>12. ASSUME NEW k \in LinesIn(out) \cup LinesIn(Pending) PROVE Passed(k)'
    <2>1. k.n \in 1..Len(logged[k.by]) /\ k = logged[k.by][k.n] /\ k # line[k.by]
      BY <1>1 DEF Places, Passed
    <2>2. k \in Line /\ k.by \in Caller
      <3>1. out \in Seq(Line) /\ Pending \in Seq(Line)
        BY <1>1, WrittenPending
      <3>2. \A i \in DOMAIN out : out[i] \in Line
        BY <3>1, LenProperties, ElementOfSeq
      <3>3. \A i \in DOMAIN Pending : Pending[i] \in Line
        BY <3>1, LenProperties, ElementOfSeq
      <3>4. k \in Line
        BY <3>2, <3>3 DEF LinesIn
      <3> QED BY <3>4 DEF Line
    <2>3. CASE k.by = c
      <3>1. k.n \in 1..n /\ k.n \in 1..n + 1 /\ k.n # n + 1
        BY <1>4, <2>1, <2>3
      <3>2. k = more[k.n] /\ k # l
        BY <1>5, <1>8, <2>1, <2>3, <3>1
      <3> QED BY <1>8, <2>3, <3>1, <3>2 DEF Passed
    <2>4. CASE k.by # c
      BY <1>8, <2>1, <2>2, <2>4 DEF Passed
    <2> QED BY <2>3, <2>4
  <1>13. Places'
    BY <1>1, <1>11, <1>12 DEF Places, Across, LinesIn
  <1>14. NoneLost'
    <2>1. ASSUME NEW d \in Caller, NEW k \in LinesIn(logged'[d]), k # line'[d]
          PROVE  k \in LinesIn(logged[d]) \ {line[d]}
      <3>1. CASE d # c
        BY <1>8, <2>1, <3>1
      <3>2. CASE d = c
        <4>1. DOMAIN more = 1..n + 1 /\ DOMAIN logged[c] = 1..n
          BY <1>4, <1>8, LenProperties
        <4>2. PICK i \in 1..n + 1 : k = more[i]
          BY <1>8, <2>1, <3>2, <4>1 DEF LinesIn
        <4>3. i \in 1..n
          BY <1>4, <1>8, <2>1, <3>2, <4>2
        <4>4. k = logged[c][i] /\ k \in LinesIn(logged[c])
          BY <1>8, <4>1, <4>2, <4>3 DEF LinesIn
        <4>5. logged[c][i] \in Line
          BY <1>4, <4>3, ElementOfSeq
        <4> QED BY <1>3, <3>2, <4>4, <4>5, LoggerAssumption
      <3> QED BY <3>1, <3>2
    <2> QED BY <1>1, <1>11, <2>1 DEF NoneLost
  <1>15. ThreadTrue'
    BY <1>1, <1>3 DEF ThreadTrue, settings
  <1> QED BY <1>9, <1>10, <1>13, <1>14, <1>15 DEF LogInv

(* A caller's line leaves it: it has a place now, and nobody else loses one. *)
LEMMA LeavesCaller ==
  ASSUME LogInv, NEW c \in Caller, line[c] # NoLine, logged' = logged,
         line' = [line EXCEPT ![c] = NoLine],
         LinesIn(out') \cup LinesIn(Pending')
           = LinesIn(out) \cup LinesIn(Pending) \cup {line[c]}
  PROVE  /\ Numbered' /\ NoneLost'
         /\ \A k \in LinesIn(out') \cup LinesIn(Pending') : Passed(k)'
  <1> DEFINE l == line[c]
  <1>1. LogTypeOK /\ Numbered /\ Places /\ NoneLost
    BY DEF LogInv
  <1>2. \A d \in Caller : line'[d] = IF d = c THEN NoLine ELSE line[d]
    BY <1>1 DEF LogTypeOK
  <1>3. Numbered'
    BY <1>1, <1>2 DEF Numbered
  <1>4. NoneLost'
    BY <1>1, <1>2 DEF NoneLost
  <1>5. ASSUME NEW k \in LinesIn(out') \cup LinesIn(Pending') PROVE Passed(k)'
    <2>1. CASE k = l
      <3>1. k \in Line /\ k.by = c /\ k.n \in 1..Len(logged[c]) /\ k = logged[c][k.n]
        BY <2>1, LineIsLast
      <3>2. k # NoLine
        BY <3>1, LoggerAssumption
      <3> QED BY <1>2, <3>1, <3>2 DEF Passed
    <2>2. CASE k \in LinesIn(out) \cup LinesIn(Pending)
      <3>1. Passed(k)
        BY <1>1, <2>2 DEF Places
      <3>2. k \in Line /\ k.by \in Caller
        <4>1. out \in Seq(Line) /\ Pending \in Seq(Line)
          BY <1>1, WrittenPending
        <4>2. \A i \in DOMAIN out : out[i] \in Line
          BY <4>1, LenProperties, ElementOfSeq
        <4>3. \A i \in DOMAIN Pending : Pending[i] \in Line
          BY <4>1, LenProperties, ElementOfSeq
        <4>4. k \in Line
          BY <2>2, <4>2, <4>3 DEF LinesIn
        <4> QED BY <4>4 DEF Line
      <3>3. k # NoLine
        BY <3>2, LoggerAssumption
      <3> QED BY <1>2, <3>1, <3>2, <3>3 DEF Passed
    <2> QED BY <2>1, <2>2
  <1> QED BY <1>3, <1>4, <1>5

(* The line is queued behind the others.                                   *)
LEMMA PushStep ==
  ASSUME LogInv, NEW c \in Caller, Push(c)
  PROVE  LogInv'
  <1> DEFINE l == line[c]
  <1>1. LogTypeOK /\ ThreadTrue /\ Numbered /\ Places
    BY DEF LogInv
  <1>2. /\ l # NoLine /\ l.queued
        /\ logQueue' = Append(logQueue, l)
        /\ notified' = (notified \/ thread = "asleep")
        /\ line' = [line EXCEPT ![c] = NoLine]
        /\ UNCHANGED <<settings, queueMutex, out, thread, entry, logged>>
    BY DEF Push
  <1>3. /\ l \in Line /\ l.by = c
        /\ \A k \in LinesIn(out) \cup LinesIn(Pending) :
             k # l /\ (k.by = c => ~(k.n > l.n))
    BY <1>2, LineIsLast
  <1> HIDE DEF l
  <1>4. out \in Seq(Line) /\ Pending \in Seq(Line) /\ out' = out
    BY <1>1, <1>2, WrittenPending
  <1>5. Pending' = Pending \o <<l>>
    <2> DEFINE taken == IF entry = NoLine THEN <<>> ELSE <<entry>>
    <2>1. taken \in Seq(Line) /\ <<l>> \in Seq(Line) /\ logQueue \in Seq(Line)
      BY <1>1, <1>3, LinesFew DEF LogTypeOK
    <2>2. Pending = taken \o logQueue /\ Pending' = taken \o Append(logQueue, l)
      BY <1>2 DEF Pending
    <2> HIDE DEF taken
    <2>3. Append(logQueue, l) = logQueue \o <<l>>
      BY <1>3, <2>1, AppendIsConcat
    <2>4. (taken \o logQueue) \o <<l>> = taken \o (logQueue \o <<l>>)
      BY <2>1, ConcatAssociative
    <2> QED BY <2>2, <2>3, <2>4
  <1>6. LinesIn(<<l>>) = {l} /\ InTurn(<<l>>) /\ <<l>> \in Seq(Line)
    BY <1>3, LinesFew
  <1>7. /\ LinesIn(Pending') = LinesIn(Pending) \cup {l}
        /\ InTurn(Pending') <=> InTurn(Pending) /\ InTurn(<<l>>) /\ Across(Pending, <<l>>)
    BY <1>4, <1>5, <1>6, LinesConcat
  <1>8. \A k \in LinesIn(out) \cup LinesIn(Pending) : May(k, l)
    BY <1>3 DEF May
  <1>9. InTurn(Pending')
    BY <1>1, <1>6, <1>7, <1>8 DEF Places, Across
  <1>10. Across(out', Pending')
    BY <1>1, <1>4, <1>7, <1>8 DEF Places, Across
  <1>11. /\ Numbered' /\ NoneLost'
         /\ \A k \in LinesIn(out') \cup LinesIn(Pending') : Passed(k)'
    <2>1. LinesIn(out') \cup LinesIn(Pending')
            = LinesIn(out) \cup LinesIn(Pending) \cup {line[c]}
      BY <1>4, <1>7 DEF l
    <2> QED BY <1>2, <2>1, LeavesCaller DEF l
  <1>12. Places'
    BY <1>1, <1>2, <1>4, <1>7, <1>9, <1>10, <1>11 DEF Places
  <1>13. LogTypeOK'
    <2>1. logQueue' \in Seq(Line)
      BY <1>1, <1>2, <1>3, AppendProperties DEF LogTypeOK
    <2> QED BY <1>1, <1>2, <2>1 DEF LogTypeOK, settings
  <1>14. ThreadTrue'
    BY <1>1, <1>2 DEF ThreadTrue, settings
  <1> QED BY <1>11, <1>12, <1>13, <1>14 DEF LogInv

(* The line is written, before all that are pending.                       *)
LEMMA WriteDirectlyStep ==
  ASSUME LogInv, NEW c \in Caller, WriteDirectly(c)
  PROVE  LogInv'
  <1> DEFINE l == line[c]
  <1>1. LogTypeOK /\ ThreadTrue /\ Numbered /\ Places
    BY DEF LogInv
  <1>2. /\ l # NoLine /\ ~l.queued /\ WriteLog(l)
        /\ line' = [line EXCEPT ![c] = NoLine]
        /\ UNCHANGED <<settings, logQueue, queueMutex, thread, entry, notified, logged>>
    BY DEF WriteDirectly
  <1>3. /\ l \in Line /\ l.by = c
        /\ \A k \in LinesIn(out) \cup LinesIn(Pending) :
             k # l /\ (k.by = c => ~(k.n > l.n))
    BY <1>2, LineIsLast
  <1> HIDE DEF l
  <1>4. /\ out \in Seq(Line) /\ Pending \in Seq(Line) /\ Pending' = Pending
        /\ out' = out \o <<l>>
    BY <1>1, <1>2, <1>3, WrittenPending DEF Pending
  <1>6. LinesIn(<<l>>) = {l} /\ InTurn(<<l>>) /\ <<l>> \in Seq(Line)
    BY <1>3, LinesFew
  <1>7. /\ LinesIn(out') = LinesIn(out) \cup {l}
        /\ InTurn(out') <=> InTurn(out) /\ InTurn(<<l>>) /\ Across(out, <<l>>)
    <2>1. /\ LinesIn(out \o <<l>>) = LinesIn(out) \cup LinesIn(<<l>>)
          /\ InTurn(out \o <<l>>)
               <=> InTurn(out) /\ InTurn(<<l>>) /\ Across(out, <<l>>)
      BY <1>4, <1>6, LinesConcat
    <2> QED BY <1>4, <1>6, <2>1
  <1>8. /\ \A k \in LinesIn(out) : May(k, l)
        /\ \A k \in LinesIn(Pending) : May(l, k)
    BY <1>1, <1>2, <1>3 DEF May, Places
  <1>9. InTurn(out')
    BY <1>1, <1>6, <1>7, <1>8 DEF Places, Across
  <1>10. Across(out', Pending')
    BY <1>1, <1>4, <1>7, <1>8 DEF Places, Across
  <1>11. /\ Numbered' /\ NoneLost'
         /\ \A k \in LinesIn(out') \cup LinesIn(Pending') : Passed(k)'
    <2>1. LinesIn(out') \cup LinesIn(Pending')
            = LinesIn(out) \cup LinesIn(Pending) \cup {line[c]}
      BY <1>4, <1>7 DEF l
    <2> QED BY <1>2, <2>1, LeavesCaller DEF l
  <1>12. Places'
    BY <1>1, <1>4, <1>9, <1>10, <1>11 DEF Places
  <1>13. LogTypeOK'
    <2>1. out' \in Seq(Line)
      BY <1>4, <1>6, ConcatProperties
    <2> QED BY <1>1, <1>2, <2>1 DEF LogTypeOK, settings
  <1>14. ThreadTrue'
    BY <1>1, <1>2 DEF ThreadTrue, settings
  <1> QED BY <1>11, <1>12, <1>13, <1>14 DEF LogInv

(* A step that moves no line keeps what the invariant says of the lines.   *)
LEMMA SameLines ==
  ASSUME LogInv, UNCHANGED callers, out' = out, Pending' = Pending
  PROVE  Numbered' /\ Places' /\ NoneLost'
  <1>1. Numbered /\ Places /\ NoneLost /\ logged' = logged /\ line' = line
    BY DEF LogInv, callers
  <1>2. Numbered'
    BY <1>1 DEF Numbered
  <1>3. Places'
    BY <1>1 DEF Places, Passed, Across, LinesIn
  <1>4. NoneLost'
    BY <1>1 DEF NoneLost, LinesIn
  <1> QED BY <1>2, <1>3, <1>4

(* initialize and shutdown move no line.                                   *)
LEMMA ControlStep ==
  ASSUME LogInv, Initialize \/ StopFlag \/ Join \/ CloseFile
  PROVE  LogInv'
  <1>1. LogTypeOK /\ ThreadTrue
    BY DEF LogInv
  <1>2. UNCHANGED <<logQueue, queueMutex, out, entry, callers>>
    BY DEF Initialize, StopFlag, Join, CloseFile
  <1>3. Numbered' /\ Places' /\ NoneLost'
    <2>1. out' = out /\ Pending' = Pending
      BY <1>2 DEF Pending
    <2> QED BY <1>2, <2>1, SameLines
  <1>4. CASE Initialize
    <2>1. control = "down" /\ thread = "none"
      BY <1>1, <1>4 DEF Initialize, ThreadTrue, LogTypeOK
    <2>2. lives' \in Nat /\ asyncEnabled' \in BOOLEAN /\ file' = logFile' /\ notified' = notified
      BY <1>1, <1>4 DEF Initialize, LogTypeOK
    <2>3. \/ /\ logFile' \in BOOLEAN /\ control' = "up"
             /\ asyncRunning' = asyncEnabled'
             /\ thread' = IF asyncEnabled' THEN "test" ELSE "none"
          \/ logFile' = FALSE /\ control' = "failed" /\ UNCHANGED <<asyncRunning, thread>>
      BY <1>4 DEF Initialize
    <2>4. ThreadTrue'
      BY <2>1, <2>2, <2>3 DEF ThreadTrue
    <2>5. LogTypeOK'
      BY <1>1, <1>2, <2>1, <2>2, <2>3 DEF LogTypeOK, callers
    <2> QED BY <1>3, <2>4, <2>5 DEF LogInv
  <1>5. CASE StopFlag
    <2>1. ThreadTrue'
      BY <1>1, <1>5 DEF StopFlag, ThreadTrue, LogTypeOK
    <2>2. LogTypeOK'
      <3>1. asyncRunning' \in BOOLEAN /\ notified' \in BOOLEAN
        BY <1>1, <1>5, Zenon DEF StopFlag, LogTypeOK
      <3> QED BY <1>1, <1>2, <1>5, <3>1 DEF StopFlag, LogTypeOK, callers
    <2> QED BY <1>3, <2>1, <2>2 DEF LogInv
  <1>6. CASE Join
    <2>1. ThreadTrue' /\ LogTypeOK'
      BY <1>1, <1>6 DEF Join, ThreadTrue, LogTypeOK, callers
    <2> QED BY <1>3, <2>1 DEF LogInv
  <1>7. CASE CloseFile
    <2>1. ThreadTrue' /\ LogTypeOK'
      BY <1>1, <1>7 DEF CloseFile, ThreadTrue, LogTypeOK, callers
    <2> QED BY <1>3, <2>1 DEF LogInv
  <1> QED BY <1>4, <1>5, <1>6, <1>7

(* Nor do the log thread's steps with nothing in hand.                     *)
LEMMA IdleStep ==
  ASSUME LogInv, TestRunning \/ Break \/ Prepare \/ Block \/ Wake \/ TimeOut
  PROVE  LogInv'
  <1>1. LogTypeOK /\ ThreadTrue
    BY DEF LogInv
  <1>2. UNCHANGED <<settings, logQueue, out, entry, callers>>
    BY DEF TestRunning, Break, Prepare, Block, Wake, TimeOut
  <1>3. Numbered' /\ Places' /\ NoneLost'
    <2>1. out' = out /\ Pending' = Pending
      BY <1>2 DEF Pending
    <2> QED BY <1>2, <2>1, SameLines
  <1>4. /\ thread \in {"test", "check", "blocking", "asleep"}
        /\ thread' \in {"test", "check", "blocking", "asleep", "ended"}
    BY DEF TestRunning, Break, Prepare, Block, Wake, TimeOut
  <1>5. queueMutex' \in BOOLEAN /\ notified' \in BOOLEAN
    BY <1>1 DEF TestRunning, Break, Prepare, Block, Wake, TimeOut, LogTypeOK
  <1>6. LogTypeOK'
    BY <1>1, <1>2, <1>4, <1>5 DEF LogTypeOK, settings, callers
  <1>7. ThreadTrue'
    BY <1>1, <1>2, <1>4 DEF ThreadTrue, settings
  <1> QED BY <1>3, <1>6, <1>7 DEF LogInv

(* The front line changes hands, and stays the first that is pending.      *)
LEMMA TakeStep ==
  ASSUME LogInv, Take
  PROVE  LogInv'
  <1>1. LogTypeOK /\ ThreadTrue
    BY DEF LogInv
  <1>2. /\ thread = "check" /\ thread' = "write" /\ logQueue # <<>>
        /\ entry' = Head(logQueue) /\ logQueue' = Tail(logQueue)
        /\ UNCHANGED <<settings, queueMutex, out, notified, callers>>
    BY DEF Take
  <1>3. entry = NoLine /\ logQueue \in Seq(Line)
    BY <1>1, <1>2 DEF LogTypeOK
  <1>4. /\ Head(logQueue) \in Line /\ Tail(logQueue) \in Seq(Line)
        /\ <<Head(logQueue)>> \o Tail(logQueue) = logQueue
    BY <1>2, <1>3, HeadTailProperties
  <1>5. Head(logQueue) # NoLine
    BY <1>4, LoggerAssumption
  <1>6. Pending = logQueue
    <2>1. Pending = <<>> \o logQueue
      BY <1>3 DEF Pending
    <2> QED BY <1>3, <2>1, ConcatEmptySeq
  <1>7. Pending' = logQueue
    BY <1>2, <1>4, <1>5 DEF Pending
  <1>8. Numbered' /\ Places' /\ NoneLost'
    <2>1. out' = out
      BY <1>2
    <2> QED BY <1>2, <1>6, <1>7, <2>1, SameLines
  <1>9. LogTypeOK'
    BY <1>1, <1>2, <1>4, <1>5 DEF LogTypeOK, settings, callers
  <1>10. ThreadTrue'
    BY <1>1, <1>2 DEF ThreadTrue, settings
  <1> QED BY <1>8, <1>9, <1>10 DEF LogInv

(* The line in hand is written, before all that are queued, or dropped.    *)
LEMMA WriteEntryStep ==
  ASSUME LogInv, WriteEntry
  PROVE  LogInv'
  <1>1. LogTypeOK /\ ThreadTrue /\ Numbered /\ Places /\ NoneLost
    BY DEF LogInv
  <1>2. /\ thread = "write" /\ thread' = "test" /\ entry' = NoLine
        /\ IF entry.blank THEN out' = out ELSE WriteLog(entry)
        /\ UNCHANGED <<settings, logQueue, queueMutex, notified, callers>>
    BY DEF WriteEntry
  <1>3. entry \in Line /\ entry # NoLine /\ logQueue \in Seq(Line)
    BY <1>1, <1>2, LoggerAssumption DEF LogTypeOK
  <1>4. LinesIn(<<entry>>) = {entry} /\ InTurn(<<entry>>) /\ <<entry>> \in Seq(Line)
    BY <1>3, LinesFew
  <1>5. Pending = <<entry>> \o logQueue /\ Pending' = logQueue
    <2>1. Pending' = <<>> \o logQueue
      BY <1>2 DEF Pending
    <2> QED BY <1>3, <2>1, ConcatEmptySeq DEF Pending
  <1>6. /\ LinesIn(Pending) = {entry} \cup LinesIn(Pending')
        /\ InTurn(Pending') /\ Across(<<entry>>, Pending')
    <2>1. /\ LinesIn(<<entry>> \o logQueue) = LinesIn(<<entry>>) \cup LinesIn(logQueue)
          /\ InTurn(<<entry>> \o logQueue)
               <=> InTurn(<<entry>>) /\ InTurn(logQueue) /\ Across(<<entry>>, logQueue)
      BY <1>3, <1>4, LinesConcat
    <2> QED BY <1>1, <1>4, <1>5, <2>1 DEF Places
  <1>7. logged' = logged /\ line' = line
    BY <1>2 DEF callers
  <1>8. out \in Seq(Line)
    BY <1>1, WrittenPending
  <1>9. Numbered'
    BY <1>1, <1>7 DEF Numbered
  <1>10. LogTypeOK'
    <2>1. out' \in Seq(Line)
      <3>1. CASE entry.blank
        BY <1>1, <1>2, <3>1 DEF LogTypeOK
      <3>2. CASE ~entry.blank
        <4>1. out' = Append(out, entry) /\ out \in Seq(Line) /\ entry \in Line
          BY <1>1, <1>2, <1>3, <3>2 DEF LogTypeOK, WriteLog
        <4> QED BY <4>1, AppendProperties
      <3> QED BY <3>1, <3>2
    <2> QED BY <1>1, <1>2, <2>1 DEF LogTypeOK, settings, callers
  <1>11. ThreadTrue'
    BY <1>1, <1>2 DEF ThreadTrue, settings
  <1>12. CASE entry.blank
    <2>1. out' = out
      BY <1>2, <1>12
    <2>2. LinesIn(out') = LinesIn(out)
      BY <2>1 DEF LinesIn
    <2>3. Places'
      <3>1. \A k \in LinesIn(out') \cup LinesIn(Pending') : Passed(k)'
        BY <1>1, <1>6, <1>7, <2>2 DEF Places, Passed
      <3>2. InTurn(out') /\ Across(out', Pending')
        BY <1>1, <1>6, <2>1, <2>2 DEF Places, Across
      <3> QED BY <1>1, <1>6, <3>1, <3>2 DEF Places
    <2>4. NoneLost'
      <3>1. entry.queued
        BY <1>1, <1>6 DEF Places
      <3> QED BY <1>1, <1>6, <1>7, <1>12, <2>2, <3>1 DEF NoneLost
    <2> QED BY <1>9, <1>10, <1>11, <2>3, <2>4 DEF LogInv
  <1>13. CASE ~entry.blank
    <2>1. out' = out \o <<entry>>
      BY <1>1, <1>2, <1>3, <1>13, WrittenPending
    <2>2. /\ LinesIn(out') = LinesIn(out) \cup {entry}
          /\ InTurn(out') <=> InTurn(out) /\ InTurn(<<entry>>) /\ Across(out, <<entry>>)
      BY <1>4, <1>8, <2>1, LinesConcat
    <2>3. LinesIn(out') \cup LinesIn(Pending') = LinesIn(out) \cup LinesIn(Pending)
      BY <1>6, <2>2
    <2>4. Places'
      <3>1. \A k \in LinesIn(out') \cup LinesIn(Pending') : Passed(k)'
        BY <1>1, <1>7, <2>3 DEF Places, Passed
      <3>2. Across(out, <<entry>>)
        BY <1>1, <1>4, <1>6 DEF Places, Across
      <3>3. Across(out', Pending')
        BY <1>1, <1>4, <1>6, <2>2 DEF Places, Across
      <3> QED BY <1>1, <1>4, <1>6, <2>2, <3>1, <3>2, <3>3 DEF Places
    <2>5. NoneLost'
      BY <1>1, <1>7, <2>3 DEF NoneLost
    <2> QED BY <1>9, <1>10, <1>11, <2>4, <2>5 DEF LogInv
  <1> QED BY <1>12, <1>13

(* Every step preserves the invariant.                                     *)
LEMMA LoggerStep == LogInv /\ [LogNext]_logVars => LogInv'
  <1> SUFFICES ASSUME LogInv, [LogNext]_logVars PROVE LogInv'
    OBVIOUS
  <1>1. ASSUME NEW c \in Caller, Log(c) \/ Push(c) \/ WriteDirectly(c) PROVE LogInv'
    BY <1>1, LogCallStep, PushStep, WriteDirectlyStep
  <1>2. CASE Initialize \/ StopFlag \/ Join \/ CloseFile
    BY <1>2, ControlStep
  <1>3. CASE LogThread
    BY <1>3, IdleStep, TakeStep, WriteEntryStep DEF LogThread
  <1>4. CASE UNCHANGED logVars
    <2>1. UNCHANGED <<settings, logQueue, queueMutex, out, thread, entry, notified, callers>>
      BY <1>4 DEF logVars
    <2>2. out' = out /\ Pending' = Pending
      BY <2>1 DEF Pending
    <2>3. LogTypeOK' /\ ThreadTrue'
      BY <2>1 DEF LogInv, LogTypeOK, ThreadTrue, settings, callers
    <2> QED BY <2>1, <2>2, <2>3, SameLines DEF LogInv
  <1> QED BY <1>1, <1>2, <1>3, <1>4 DEF LogNext

(* The invariant of the logger.                                            *)
LEMMA LoggerInvariance == LogSpec => []LogInv
  <1>1. LogInit => LogInv
    BY InitLogger
  <1>2. LogInv /\ [LogNext]_logVars => LogInv'
    BY LoggerStep
  <1> QED BY <1>1, <1>2, PTL DEF LogSpec

(* Across restarts and failures of initialize, no line is lost or written  *)
(* twice, whatever the interleaving of the callers, the log thread and the *)
(* thread that shuts the logger down; only a blank line that was queued is *)
(* dropped.  The log thread runs with the log file as initialize left it:  *)
(* shutdown closes the file only when the thread has ended.                *)
THEOREM LoggerKeepsLines == LogSpec => []LinesKept
  <1>1. LogInv => LinesKept
    BY InvMeans
  <1> QED BY <1>1, LoggerInvariance, PTL

(* A caller's lines come out in the order they were logged, except those   *)
(* that a later, synchronous life writes while older ones are queued.      *)
THEOREM LoggerKeepsOrder == LogSpec => []OnlyDirectOvertakes
  <1>1. LogInv => OnlyDirectOvertakes
    BY InvMeans
  <1> QED BY <1>1, LoggerInvariance, PTL
=============================================================================
