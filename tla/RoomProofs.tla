----------------------------- MODULE RoomProofs -----------------------------
(***************************************************************************)
(* Proofs about Room, for any users, threads and finite set of operations. *)
(* OneOpPerVersion is not inductive by itself: a second thread inside the  *)
(* method with the same operation must not be granted a version too, which *)
(* RetryAgrees and SameCall exclude.                                       *)
(***************************************************************************)
EXTENDS Room, FiniteSetTheorems, TLAPS

\* A thread inside the method with an operation already taken carries the
\* version at which it was taken.
RetryAgrees ==
  \A t \in Thread : pc[t] # "idle" =>
    \A v \in 1..Len(applied) : applied[v] = op[t].id => op[t].version = v

\* Two threads inside the method with one opId make the same call.
SameCall ==
  \A s, t \in Thread :
    pc[s] # "idle" /\ pc[t] # "idle" /\ op[s].id = op[t].id => op[s] = op[t]

\* Only one thread announces an operation.
OneAnnouncer ==
  \A s, t \in Thread : InFlight(s) /\ InFlight(t) /\ op[s].id = op[t].id => s = t

OrderInv == TypeOK /\ OneOpPerVersion /\ RetryAgrees /\ SameCall /\ OneAnnouncer

-----------------------------------------------------------------------------
(* A sequence of messages grows by one message in type.                    *)
LEMMA AppendMessage ==
  ASSUME NEW s \in Seq(Message), NEW m \in Message
  PROVE  Append(s, m) \in Seq(Message)
  OBVIOUS

(* Versions are natural numbers.                                           *)
LEMMA VersionNat == Version \subseteq Nat /\ 0 \in Version
  BY RoomAssumption, FS_CardinalityType DEF Version

(* The initial state is well typed.                                        *)
LEMMA InitType == Init => TypeOK
  <1> SUFFICES ASSUME Init PROVE TypeOK
    OBVIOUS
  <1>1. <<>> \in Seq(Message) /\ <<>> \in Seq(OpId)
    OBVIOUS
  <1>2. inbox \in [UserId -> Seq(Message)] /\ applied \in Seq(OpId)
    BY <1>1 DEF Init
  <1>3. /\ since \in [UserId -> Version] /\ ackVersion \in [Thread -> Version]
        /\ currentVersion \in Version
    BY VersionNat DEF Init
  <1>4. /\ users_ \subseteq UserId /\ callbackSet \in BOOLEAN
        /\ pc \in [Thread -> {"idle", "entered", "applied", "acking", "broadcasting"}]
        /\ op \in [Thread -> Call \cup {None}]
        /\ \A t \in Thread : pc[t] = "idle" <=> op[t] = None
    BY DEF Init
  <1> QED BY <1>2, <1>3, <1>4 DEF TypeOK

(* Every step keeps the types.                                             *)
LEMMA NextType == TypeOK /\ [Next]_vars => TypeOK'
  <1> SUFFICES ASSUME TypeOK, [Next]_vars PROVE TypeOK'
    OBVIOUS
  <1> USE DEF TypeOK
  <1>c. \A t \in Thread : pc[t] # "idle" => op[t] \in Call
    OBVIOUS
  <1>1. ASSUME NEW u \in UserId, AddUser(u) PROVE TypeOK'
    BY <1>1 DEF AddUser
  <1>2. ASSUME NEW u \in UserId, RemoveUser(u) PROVE TypeOK'
    BY <1>2 DEF RemoveUser
  <1>3. ASSUME SetBroadcastCallback PROVE TypeOK'
    BY <1>3 DEF SetBroadcastCallback
  <1>4. ASSUME NEW t \in Thread, NEW c \in Call, Enter(t, c) PROVE TypeOK'
    <2>1. c # None
      BY RoomAssumption
    <2> QED BY <1>4, <2>1 DEF Enter
  <1>5. ASSUME NEW t \in Thread, Apply(t) PROVE TypeOK'
    <2>1. currentVersion + 1 \in Version /\ op[t].id \in OpId
      BY <1>5, <1>c DEF Apply, CanApplyVersion, Call
    <2>2. Append(applied, op[t].id) \in Seq(OpId)
      BY <2>1
    <2> QED BY <1>5, <2>1, <2>2 DEF Apply
  <1>6. ASSUME NEW t \in Thread, Refuse(t) PROVE TypeOK'
    BY <1>6, VersionNat DEF Refuse, Return
  <1>7. ASSUME NEW t \in Thread, ReadVersion(t) PROVE TypeOK'
    BY <1>7 DEF ReadVersion
  <1>8. ASSUME NEW t \in Thread, SendAck(t) PROVE TypeOK'
    <2> DEFINE m == [kind |-> "ACK", id |-> op[t].id, version |-> ackVersion[t]]
    <2>1. m \in Message /\ op[t].sender \in UserId
      BY <1>8, <1>c DEF SendAck, Call, Message
    <2>2. \A u \in UserId : Append(inbox[u], m) \in Seq(Message)
      BY <2>1, AppendMessage
    <2>3. inbox' \in [UserId -> Seq(Message)]
      BY <1>8, <2>1, <2>2 DEF SendAck
    <2> QED BY <1>8, <2>3 DEF SendAck
  <1>9. ASSUME NEW t \in Thread, BroadcastToOthers(t) PROVE TypeOK'
    <2> DEFINE m == [kind |-> "OPERATION", id |-> op[t].id, version |-> op[t].version]
    <2>1. m \in Message
      BY <1>9, <1>c DEF BroadcastToOthers, Call, Message
    <2>2. \A u \in UserId : Append(inbox[u], m) \in Seq(Message)
      BY <2>1, AppendMessage
    <2>3. inbox' \in [UserId -> Seq(Message)]
      BY <1>9, <2>2 DEF BroadcastToOthers
    <2> QED BY <1>9, <2>3, VersionNat DEF BroadcastToOthers, Return
  <1>10. ASSUME UNCHANGED vars PROVE TypeOK'
    BY <1>10 DEF vars
  <1> QED BY <1>1, <1>2, <1>3, <1>4, <1>5, <1>6, <1>7, <1>8, <1>9, <1>10 DEF Next, ThreadStep

-----------------------------------------------------------------------------
(* No operation has been taken at first.                                   *)
LEMMA InitOrder == Init => OrderInv
  BY InitType DEF Init, OrderInv, OneOpPerVersion, RetryAgrees, SameCall, OneAnnouncer, InFlight

(* Every step keeps the order of the operations and who announces them.    *)
LEMMA NextOrder == OrderInv /\ [Next]_vars => OrderInv'
  <1> SUFFICES ASSUME OrderInv, [Next]_vars PROVE OrderInv'
    OBVIOUS
  <1> USE DEF OrderInv, InFlight
  <1>t. TypeOK /\ TypeOK'
    BY NextType
  <1>n. currentVersion \in Nat /\ Len(applied) = currentVersion /\ applied \in Seq(OpId)
    BY <1>t, VersionNat DEF TypeOK, OneOpPerVersion
  <1>c. \A t \in Thread : pc[t] # "idle" => op[t].id \in OpId /\ op[t].version \in Nat
    BY <1>t, VersionNat DEF TypeOK, Call
  <1>1. ASSUME UNCHANGED <<currentVersion, applied, pc, op>> PROVE OrderInv'
    BY <1>1, <1>t DEF OneOpPerVersion, RetryAgrees, SameCall, OneAnnouncer
  <1>2. ASSUME NEW t \in Thread, NEW c \in Call, Enter(t, c) PROVE OrderInv'
    <2>1. /\ pc' = [pc EXCEPT ![t] = "entered"] /\ op' = [op EXCEPT ![t] = c]
          /\ applied' = applied /\ currentVersion' = currentVersion
          /\ \A v \in 1..Len(applied) : applied[v] = c.id => c.version = v
          /\ \A s \in Thread : pc[s] # "idle" /\ op[s].id = c.id => op[s] = c
      BY <1>2 DEF Enter
    <2>2. \A s \in Thread : /\ pc'[s] = IF s = t THEN "entered" ELSE pc[s]
                            /\ op'[s] = IF s = t THEN c ELSE op[s]
      BY <2>1, <1>t DEF TypeOK
    <2>3. RetryAgrees' /\ SameCall'
      BY <2>1, <2>2 DEF RetryAgrees, SameCall
    <2>4. OneAnnouncer' /\ OneOpPerVersion'
      BY <2>1, <2>2 DEF OneAnnouncer, OneOpPerVersion
    <2> QED BY <2>3, <2>4, <1>t
  <1>3. ASSUME NEW t \in Thread, Apply(t) PROVE OrderInv'
    <2>1. /\ pc[t] = "entered" /\ op[t].version = currentVersion + 1
          /\ currentVersion' = currentVersion + 1
          /\ applied' = Append(applied, op[t].id)
          /\ pc' = [pc EXCEPT ![t] = "applied"] /\ op' = op
      BY <1>3 DEF Apply, CanApplyVersion
    <2>2. \A s \in Thread : pc'[s] = IF s = t THEN "applied" ELSE pc[s]
      BY <2>1, <1>t DEF TypeOK
    <2>3. /\ Len(applied') = currentVersion + 1
          /\ \A v \in 1..currentVersion : applied'[v] = applied[v]
          /\ applied'[currentVersion + 1] = op[t].id
      BY <2>1, <1>n, <1>c
    <2>4. \A v \in 1..currentVersion : applied[v] # op[t].id
      BY <2>1, <1>n DEF RetryAgrees
    <2>5. OneOpPerVersion'
      <3>1. Len(applied') = currentVersion'
        BY <2>1, <2>3
      <3>2. \A i, j \in 1..Len(applied') : applied'[i] = applied'[j] => i = j
        BY <2>3, <2>4, <1>n DEF OneOpPerVersion
      <3>3. \A s \in Thread : InFlight(s)' => /\ op'[s].version \in 1..currentVersion'
                                              /\ applied'[op'[s].version] = op'[s].id
        BY <2>1, <2>2, <2>3, <1>n DEF OneOpPerVersion
      <3> QED BY <3>1, <3>2, <3>3 DEF OneOpPerVersion
    <2>6. SameCall'
      BY <2>1, <2>2 DEF SameCall
    <2>7. RetryAgrees'
      <3> SUFFICES ASSUME NEW s \in Thread, pc'[s] # "idle", NEW v \in 1..Len(applied'),
                          applied'[v] = op'[s].id
                   PROVE  op'[s].version = v
        BY DEF RetryAgrees
      <3>1. pc[s] # "idle" /\ op'[s] = op[s]
        BY <2>1, <2>2
      <3>2. CASE v = currentVersion + 1
        <4>1. op[s] = op[t]
          BY <3>1, <3>2, <2>1, <2>3 DEF SameCall
        <4> QED BY <4>1, <3>1, <3>2, <2>1
      <3>3. CASE v # currentVersion + 1
        <4>1. v \in 1..Len(applied) /\ applied[v] = op[s].id
          BY <3>1, <3>3, <2>3, <1>n
        <4> QED BY <4>1, <3>1 DEF RetryAgrees
      <3> QED BY <3>2, <3>3
    <2>8. OneAnnouncer'
      <3>1. \A s \in Thread : s # t /\ InFlight(s)' => op[s].id # op[t].id
        BY <2>2, <2>4, <1>n DEF OneOpPerVersion
      <3> QED BY <3>1, <2>1, <2>2 DEF OneAnnouncer
    <2> QED BY <2>5, <2>6, <2>7, <2>8, <1>t
  <1>4. ASSUME NEW t \in Thread, pc' = [pc EXCEPT ![t] = "idle"], op' = [op EXCEPT ![t] = None],
               UNCHANGED <<currentVersion, applied>>
        PROVE  OrderInv'
    <2>1. \A s \in Thread : /\ pc'[s] = IF s = t THEN "idle" ELSE pc[s]
                            /\ s # t => op'[s] = op[s]
      BY <1>4, <1>t DEF TypeOK
    <2> QED BY <1>4, <2>1, <1>t DEF OneOpPerVersion, RetryAgrees, SameCall, OneAnnouncer
  <1>5. ASSUME NEW t \in Thread, NEW q \in {"acking", "broadcasting"}, InFlight(t),
               pc' = [pc EXCEPT ![t] = q], UNCHANGED <<currentVersion, applied, op>>
        PROVE  OrderInv'
    <2>1. \A s \in Thread : pc'[s] = IF s = t THEN q ELSE pc[s]
      BY <1>5, <1>t DEF TypeOK
    <2> QED BY <1>5, <2>1, <1>t DEF OneOpPerVersion, RetryAgrees, SameCall, OneAnnouncer
  <1>6. ASSUME NEW u \in UserId, AddUser(u) \/ RemoveUser(u) PROVE OrderInv'
    BY <1>1, <1>6 DEF AddUser, RemoveUser
  <1>7. ASSUME SetBroadcastCallback \/ UNCHANGED vars PROVE OrderInv'
    BY <1>1, <1>7 DEF SetBroadcastCallback, vars
  <1>8. ASSUME NEW t \in Thread, Refuse(t) \/ BroadcastToOthers(t) PROVE OrderInv'
    BY <1>4, <1>8 DEF Refuse, BroadcastToOthers, Return
  <1>9. ASSUME NEW t \in Thread, ReadVersion(t) \/ SendAck(t) PROVE OrderInv'
    BY <1>5, <1>9 DEF ReadVersion, SendAck
  <1> QED BY <1>2, <1>3, <1>6, <1>7, <1>8, <1>9 DEF Next, ThreadStep

(* OrderInv holds in every behaviour.                                      *)
LEMMA Order == Spec => []OrderInv
  BY InitOrder, NextOrder, PTL DEF Spec

(* The room is well typed.                                                 *)
THEOREM TypeCorrect == Spec => []TypeOK
  <1>1. OrderInv => TypeOK
    BY DEF OrderInv
  <1> QED BY <1>1, Order, PTL

(* However many threads call applyAndBroadcast at once, and whatever is    *)
(* sent again, each version is granted to one operation and each operation *)
(* is granted one version.                                                 *)
THEOREM VersionsGrantedOnce == Spec => []OneOpPerVersion
  <1>1. OrderInv => OneOpPerVersion
    BY DEF OrderInv
  <1> QED BY <1>1, Order, PTL

-----------------------------------------------------------------------------
\* What a member has heard of an operation that is still being announced is
\* its own ACK, and nothing before that.
HeardInFlight ==
  \A t \in Thread, u \in UserId :
    InFlight(t) /\ op[t].id \in Received(u) => pc[t] = "broadcasting" /\ op[t].sender = u

\* The version read for an ACK lies between the operation and the document.
AckVersionRead ==
  \A t \in Thread :
    pc[t] \in {"acking", "broadcasting"} =>
      op[t].version <= ackVersion[t] /\ ackVersion[t] <= currentVersion

ToldInv == OrderInv /\ ToldTruth /\ AckCoversOp /\ HeardInFlight /\ AckVersionRead

(* Appending a message adds its operation to those heard of, and the       *)
(* messages before it stay where they are.                                 *)
LEMMA Heard ==
  ASSUME NEW s \in Seq(Message), NEW m \in Message
  PROVE  /\ {Append(s, m)[i].id : i \in 1..Len(Append(s, m))} = {s[i].id : i \in 1..Len(s)} \cup {m.id}
         /\ \A i \in 1..Len(Append(s, m)) : Append(s, m)[i] = IF i = Len(s) + 1 THEN m ELSE s[i]
         /\ Len(Append(s, m)) = Len(s) + 1
  <1>1. /\ Len(Append(s, m)) = Len(s) + 1 /\ Len(s) \in Nat
        /\ \A i \in 1..Len(s) + 1 : Append(s, m)[i] = IF i = Len(s) + 1 THEN m ELSE s[i]
    OBVIOUS
  <1>2. ASSUME NEW x PROVE (\E i \in 1..Len(s) + 1 : x = Append(s, m)[i].id)
                           <=> x = m.id \/ \E i \in 1..Len(s) : x = s[i].id
    BY <1>1
  <1> QED BY <1>1, <1>2

(* At first nobody has heard of anything.                                  *)
LEMMA InitTold == Init => ToldInv
  BY InitOrder
  DEF Init, ToldInv, ToldTruth, AckCoversOp, HeardInFlight, AckVersionRead, InFlight, Received

(* Messages of an inbox that is not touched stay true: the log only grows. *)
LEMMA TruthKept ==
  ASSUME TypeOK, ToldTruth, AckCoversOp, inbox' = inbox,
         currentVersion <= currentVersion', currentVersion' \in Nat,
         Len(applied) = currentVersion, Len(applied') = currentVersion',
         \A v \in 1..currentVersion : applied'[v] = applied[v]
  PROVE  ToldTruth' /\ AckCoversOp'
  <1>n. currentVersion \in Nat
    BY VersionNat DEF TypeOK
  <1>1. \A x \in Applied : x \in Applied'
    BY <1>n DEF Applied
  <1>2. ToldTruth'
    BY <1>1, <1>n DEF ToldTruth
  <1>3. AckCoversOp'
    <2> SUFFICES ASSUME NEW u \in UserId, NEW i \in 1..Len(inbox[u]), inbox[u][i].kind = "ACK"
                 PROVE  /\ inbox[u][i].version <= currentVersion'
                        /\ \E v \in 1..inbox[u][i].version : applied'[v] = inbox[u][i].id
      BY DEF AckCoversOp
    <2>1. inbox[u][i] \in Message
      BY DEF TypeOK
    <2>2. inbox[u][i].version \in Nat
      BY <2>1, VersionNat DEF Message
    <2>3. /\ inbox[u][i].version <= currentVersion
          /\ \E v \in 1..inbox[u][i].version : applied[v] = inbox[u][i].id
      BY DEF AckCoversOp
    <2> QED BY <2>2, <2>3, <1>n
  <1> QED BY <1>2, <1>3

\* A message that says the truth about t's operation.
Truthful(t, m) ==
  /\ m \in Message /\ m.id = op[t].id
  /\ m.kind = "OPERATION" => m.version = op[t].version
  /\ m.kind = "ACK" => op[t].version <= m.version /\ m.version <= currentVersion

(* A thread announcing its operation to users who have not heard of it     *)
(* tells them the truth, and they have heard of it afterwards.             *)
LEMMA TruthTold ==
  ASSUME ToldInv, NEW t \in Thread, InFlight(t),
         NEW to \in SUBSET UserId, \A u \in to : op[t].id \notin Received(u),
         NEW m, Truthful(t, m),
         inbox' = [u \in UserId |-> IF u \in to THEN Append(inbox[u], m) ELSE inbox[u]],
         UNCHANGED <<currentVersion, applied>>
  PROVE  /\ ToldTruth' /\ AckCoversOp'
         /\ \A u \in UserId :
              Received(u)' = IF u \in to THEN Received(u) \cup {op[t].id} ELSE Received(u)
  <1>t. TypeOK /\ ToldTruth /\ AckCoversOp /\ OneOpPerVersion
    BY DEF ToldInv, OrderInv
  <1>n. currentVersion \in Nat /\ Len(applied) = currentVersion
    BY <1>t, VersionNat DEF TypeOK, OneOpPerVersion
  <1>o. op[t].version \in 1..currentVersion /\ applied[op[t].version] = op[t].id
    BY <1>t DEF OneOpPerVersion
  <1>a. op[t].id \in Applied
    BY <1>o, <1>n DEF Applied
  <1>m. m \in Message /\ m.version \in Nat /\ m.id = op[t].id
    BY VersionNat DEF Message, Truthful
  <1>s. \A u \in UserId : inbox[u] \in Seq(Message)
    BY <1>t DEF TypeOK
  <1>1. \A u \in UserId \ to : inbox'[u] = inbox[u]
    OBVIOUS
  <1>2. \A u \in to : /\ inbox'[u] = Append(inbox[u], m)
                      /\ Len(inbox'[u]) = Len(inbox[u]) + 1
                      /\ \A i \in 1..Len(inbox'[u]) :
                           inbox'[u][i] = IF i = Len(inbox[u]) + 1 THEN m ELSE inbox[u][i]
    BY <1>s, <1>m, Heard
  <1>3. \A u \in UserId :
          Received(u)' = IF u \in to THEN Received(u) \cup {op[t].id} ELSE Received(u)
    <2>1. ASSUME NEW u \in to PROVE Received(u)' = Received(u) \cup {op[t].id}
      <3>1. inbox[u] \in Seq(Message) /\ inbox'[u] = Append(inbox[u], m)
        BY <1>s, <1>2
      <3>2. m \in Message
        BY <1>m
      <3>3. {Append(inbox[u], m)[i].id : i \in 1..Len(Append(inbox[u], m))}
              = {inbox[u][i].id : i \in 1..Len(inbox[u])} \cup {m.id}
        BY <3>1, <3>2, Heard
      <3>4. Received(u)' = Received(u) \cup {m.id}
        BY <3>1, <3>3 DEF Received
      <3> QED BY <3>4, <1>m
    <2>2. ASSUME NEW u \in UserId \ to PROVE Received(u)' = Received(u)
      BY <1>1 DEF Received
    <2> QED BY <2>1, <2>2
  <1>l. \A u \in UserId : Len(inbox[u]) \in Nat
    BY <1>s
  <1>4. ToldTruth'
    <2>1. ASSUME NEW u \in UserId, NEW i \in 1..Len(inbox'[u]), NEW j \in 1..Len(inbox'[u]),
                 inbox'[u][i].id = inbox'[u][j].id
          PROVE  i = j
      <3>1. CASE u \in to
        <4>1. \A k \in 1..Len(inbox[u]) : inbox[u][k].id # m.id
          BY <3>1, <1>m DEF Received
        <4> QED BY <4>1, <2>1, <3>1, <1>2, <1>l, <1>t DEF ToldTruth
      <3>2. CASE u \notin to
        BY <3>2, <2>1, <1>1, <1>t DEF ToldTruth
      <3> QED BY <3>1, <3>2
    <2>2. ASSUME NEW u \in UserId, NEW i \in 1..Len(inbox'[u])
          PROVE  /\ inbox'[u][i].id \in Applied
                 /\ inbox'[u][i].kind = "OPERATION" =>
                      /\ inbox'[u][i].version \in 1..currentVersion
                      /\ applied[inbox'[u][i].version] = inbox'[u][i].id
      <3>1. CASE u \in to /\ i = Len(inbox[u]) + 1
        BY <3>1, <1>2, <1>a, <1>o, <1>m DEF Truthful
      <3>2. CASE ~(u \in to /\ i = Len(inbox[u]) + 1)
        <4>1. i \in 1..Len(inbox[u]) /\ inbox'[u][i] = inbox[u][i]
          BY <3>2, <1>1, <1>2, <1>l
        <4> QED BY <4>1, <1>t DEF ToldTruth
      <3> QED BY <3>1, <3>2
    <2>3. Applied' = Applied
      BY DEF Applied
    <2> QED BY <2>1, <2>2, <2>3 DEF ToldTruth
  <1>5. AckCoversOp'
    <2>1. ASSUME NEW u \in UserId, NEW i \in 1..Len(inbox'[u]), inbox'[u][i].kind = "ACK"
          PROVE  /\ inbox'[u][i].version <= currentVersion
                 /\ \E v \in 1..inbox'[u][i].version : applied[v] = inbox'[u][i].id
      <3>1. CASE u \in to /\ i = Len(inbox[u]) + 1
        <4>1. inbox'[u][i] = m /\ m.kind = "ACK"
          BY <3>1, <2>1, <1>2
        <4>2. op[t].version \in 1..m.version
          BY <4>1, <1>o, <1>m, <1>n DEF Truthful
        <4> QED BY <4>1, <4>2, <1>o, <1>m DEF Truthful
      <3>2. CASE ~(u \in to /\ i = Len(inbox[u]) + 1)
        <4>1. i \in 1..Len(inbox[u]) /\ inbox'[u][i] = inbox[u][i]
          BY <3>2, <1>1, <1>2, <1>l
        <4> QED BY <4>1, <2>1, <1>t DEF AckCoversOp
      <3> QED BY <3>1, <3>2
    <2> QED BY <2>1 DEF AckCoversOp
  <1> QED BY <1>3, <1>4, <1>5

\* Whom an ACK, and a broadcast, is given to.
Audience(t) ==
  {u \in UserId : callbackSet /\ IF pc[t] = "acking" THEN u = op[t].sender
                                                   ELSE u \in users_ \ {op[t].sender}}

(* Those an ACK or a broadcast is given to had not heard of its operation, *)
(* and what they are told is true.                                         *)
LEMMA Announced ==
  ASSUME ToldInv, NEW t \in Thread, SendAck(t) \/ BroadcastToOthers(t)
  PROVE  /\ ToldTruth' /\ AckCoversOp'
         /\ \A u \in Audience(t) : op[t].id \notin Received(u)
         /\ \A u \in UserId :
              Received(u)' = IF u \in Audience(t) THEN Received(u) \cup {op[t].id} ELSE Received(u)
  <1>t. TypeOK /\ HeardInFlight /\ AckVersionRead
    BY DEF ToldInv, OrderInv
  <1>c. op[t] \in Call
    BY <1>t DEF TypeOK, SendAck, BroadcastToOthers
  <1>1. CASE SendAck(t)
    <2> DEFINE m == [kind |-> "ACK", id |-> op[t].id, version |-> ackVersion[t]]
    <2>1. pc[t] = "acking" /\ UNCHANGED <<currentVersion, applied>>
      BY <1>1 DEF SendAck
    <2>2. m \in Message /\ op[t].sender \in UserId
      BY <2>1, <1>c, <1>t DEF TypeOK, Call, Message
    <2>3. inbox' = [u \in UserId |-> IF u \in Audience(t) THEN Append(inbox[u], m) ELSE inbox[u]]
      BY <1>1, <2>1, <2>2, <1>t DEF SendAck, Audience, TypeOK
    <2>4. InFlight(t) /\ Audience(t) \in SUBSET UserId /\ \A u \in Audience(t) : op[t].id \notin Received(u)
      BY <2>1, <2>2, <1>t DEF HeardInFlight, InFlight, Audience
    <2>5. Truthful(t, m)
      BY <2>1, <2>2, <1>t DEF AckVersionRead, Truthful
    <2> HIDE DEF m
    <2> QED BY <2>1, <2>3, <2>4, <2>5, TruthTold
  <1>2. CASE BroadcastToOthers(t)
    <2> DEFINE m == [kind |-> "OPERATION", id |-> op[t].id, version |-> op[t].version]
    <2>1. pc[t] = "broadcasting" /\ UNCHANGED <<currentVersion, applied>>
      BY <1>2 DEF BroadcastToOthers
    <2>2. m \in Message
      BY <1>c DEF Call, Message
    <2>3. inbox' = [u \in UserId |-> IF u \in Audience(t) THEN Append(inbox[u], m) ELSE inbox[u]]
      BY <1>2, <2>1, <1>t DEF BroadcastToOthers, Audience, TypeOK
    <2>4. InFlight(t) /\ Audience(t) \in SUBSET UserId /\ \A u \in Audience(t) : op[t].id \notin Received(u)
      BY <2>1, <1>t DEF HeardInFlight, InFlight, TypeOK, Audience
    <2>5. Truthful(t, m)
      BY <2>2 DEF Truthful
    <2> HIDE DEF m
    <2> QED BY <2>1, <2>3, <2>4, <2>5, TruthTold
  <1> QED BY <1>1, <1>2

(* Every step keeps what the users have been told true.                    *)
LEMMA NextTold == ToldInv /\ [Next]_vars => ToldInv'
  <1> SUFFICES ASSUME ToldInv, [Next]_vars PROVE ToldInv'
    OBVIOUS
  <1>o. OrderInv /\ OrderInv'
    BY NextOrder DEF ToldInv
  <1>t. TypeOK /\ ToldTruth /\ AckCoversOp /\ HeardInFlight /\ AckVersionRead
    BY DEF ToldInv, OrderInv
  <1>n. currentVersion \in Nat /\ Len(applied) = currentVersion
    BY <1>o, <1>t, VersionNat DEF TypeOK, OneOpPerVersion, OrderInv
  <1>c. \A t \in Thread : pc[t] # "idle" => op[t] \in Call
    BY <1>t DEF TypeOK
  <1>k. ASSUME inbox' = inbox, UNCHANGED <<currentVersion, applied>>
        PROVE  ToldTruth' /\ AckCoversOp' /\ \A u \in UserId : Received(u)' = Received(u)
    BY <1>k, <1>t DEF ToldTruth, AckCoversOp, Received, Applied
  <1>1. ASSUME UNCHANGED <<currentVersion, applied, pc, op, ackVersion, inbox>> PROVE ToldInv'
    <2>1. ToldTruth' /\ AckCoversOp' /\ \A u \in UserId : Received(u)' = Received(u)
      BY <1>1, <1>k
    <2>2. HeardInFlight'
      BY <1>1, <2>1, <1>t DEF HeardInFlight, InFlight
    <2>3. AckVersionRead'
      BY <1>1, <1>t DEF AckVersionRead
    <2> QED BY <2>1, <2>2, <2>3, <1>o DEF ToldInv
  <1>2. ASSUME NEW t \in Thread, NEW q \in {"idle", "entered"}, pc' = [pc EXCEPT ![t] = q],
               \A s \in Thread \ {t} : op'[s] = op[s] /\ ackVersion'[s] = ackVersion[s],
               UNCHANGED <<currentVersion, applied, inbox>>
        PROVE  ToldInv'
    <2>1. ToldTruth' /\ AckCoversOp' /\ \A u \in UserId : Received(u)' = Received(u)
      BY <1>2, <1>k
    <2>2. \A s \in Thread : pc'[s] = IF s = t THEN q ELSE pc[s]
      BY <1>2, <1>t DEF TypeOK
    <2>3. HeardInFlight'
      BY <1>2, <2>1, <2>2, <1>t DEF HeardInFlight, InFlight
    <2>4. AckVersionRead'
      BY <1>2, <2>2, <1>t DEF AckVersionRead
    <2> QED BY <2>1, <2>3, <2>4, <1>o DEF ToldInv
  <1>3. ASSUME NEW t \in Thread, Apply(t) PROVE ToldInv'
    <2>1. /\ pc[t] = "entered" /\ op[t].version = currentVersion + 1
          /\ currentVersion' = currentVersion + 1
          /\ applied' = Append(applied, op[t].id)
          /\ pc' = [pc EXCEPT ![t] = "applied"]
          /\ op' = op /\ ackVersion' = ackVersion /\ inbox' = inbox
      BY <1>3 DEF Apply, CanApplyVersion
    <2>2. \A s \in Thread : pc'[s] = IF s = t THEN "applied" ELSE pc[s]
      BY <2>1, <1>t DEF TypeOK
    <2>3. applied \in Seq(OpId) /\ op[t].id \in OpId
      BY <2>1, <1>t, <1>c DEF TypeOK, Call
    <2>4. Len(applied') = currentVersion' /\ \A v \in 1..currentVersion : applied'[v] = applied[v]
      BY <2>1, <2>3, <1>n
    <2>5. ToldTruth' /\ AckCoversOp'
      BY <2>1, <2>4, <1>n, <1>t, TruthKept
    <2>6. op[t].id \notin Applied
      BY <2>1, <1>o, <1>n DEF OrderInv, RetryAgrees, Applied
    <2>7. \A u \in UserId : Received(u)' = Received(u) /\ op[t].id \notin Received(u)
      <3>1. \A u \in UserId : Received(u)' = Received(u)
        BY <2>1 DEF Received
      <3>2. \A u \in UserId : op[t].id \notin Received(u)
        BY <2>6, <1>t DEF Received, ToldTruth
      <3> QED BY <3>1, <3>2
    <2>8. HeardInFlight'
      BY <2>1, <2>2, <2>7, <1>t DEF HeardInFlight, InFlight
    <2>9. AckVersionRead'
      <3>1. \A s \in Thread : ackVersion[s] \in Nat
        BY <1>t, VersionNat DEF TypeOK
      <3> QED BY <3>1, <2>1, <2>2, <1>n, <1>t DEF AckVersionRead
    <2> QED BY <2>5, <2>8, <2>9, <1>o DEF ToldInv
  <1>4. ASSUME NEW t \in Thread, ReadVersion(t) PROVE ToldInv'
    <2>1. /\ pc[t] = "applied" /\ pc' = [pc EXCEPT ![t] = "acking"]
          /\ ackVersion' = [ackVersion EXCEPT ![t] = currentVersion]
          /\ op' = op /\ inbox' = inbox /\ currentVersion' = currentVersion /\ applied' = applied
      BY <1>4 DEF ReadVersion
    <2>2. \A s \in Thread : /\ pc'[s] = IF s = t THEN "acking" ELSE pc[s]
                            /\ ackVersion'[s] = IF s = t THEN currentVersion ELSE ackVersion[s]
      BY <2>1, <1>t DEF TypeOK
    <2>3. ToldTruth' /\ AckCoversOp' /\ \A u \in UserId : Received(u)' = Received(u)
      BY <2>1, <1>k
    <2>4. op[t].version \in 1..currentVersion
      BY <2>1, <1>o DEF OrderInv, OneOpPerVersion, InFlight
    <2>5. HeardInFlight'
      BY <2>1, <2>2, <2>3, <1>t DEF HeardInFlight, InFlight
    <2>6. AckVersionRead'
      BY <2>1, <2>2, <2>4, <1>n, <1>t DEF AckVersionRead
    <2> QED BY <2>3, <2>5, <2>6, <1>o DEF ToldInv
  <1>5. ASSUME NEW t \in Thread, SendAck(t) PROVE ToldInv'
    <2>1. /\ pc[t] = "acking" /\ pc' = [pc EXCEPT ![t] = "broadcasting"]
          /\ op' = op /\ ackVersion' = ackVersion
          /\ currentVersion' = currentVersion /\ applied' = applied
      BY <1>5 DEF SendAck
    <2>4. InFlight(t) /\ \A u \in Audience(t) : u = op[t].sender
      BY <2>1 DEF InFlight, Audience
    <2>6. /\ ToldTruth' /\ AckCoversOp'
          /\ \A u \in UserId :
               Received(u)' = IF u \in Audience(t) THEN Received(u) \cup {op[t].id} ELSE Received(u)
      BY <1>5, <2>1, Announced
    <2>7. \A s \in Thread : pc'[s] = IF s = t THEN "broadcasting" ELSE pc[s]
      BY <2>1, <1>t DEF TypeOK
    <2>8. HeardInFlight'
      <3> SUFFICES ASSUME NEW s \in Thread, NEW u \in UserId, InFlight(s)', op[s].id \in Received(u)'
                   PROVE  pc'[s] = "broadcasting" /\ op[s].sender = u
        BY <2>1 DEF HeardInFlight
      <3>1. CASE s = t
        <4>1. op[t].id \notin Received(u)
          BY <2>1, <2>4, <1>t DEF HeardInFlight
        <4> QED BY <4>1, <3>1, <2>6, <2>7, <2>4
      <3>2. CASE s # t
        <4>1. InFlight(s) /\ pc'[s] = pc[s]
          BY <3>2, <2>7 DEF InFlight
        <4>2. op[s].id # op[t].id
          BY <4>1, <3>2, <2>4, <1>o DEF OrderInv, OneAnnouncer
        <4> QED BY <4>1, <4>2, <2>6, <1>t DEF HeardInFlight
      <3> QED BY <3>1, <3>2
    <2>9. AckVersionRead'
      BY <2>1, <2>7, <1>t DEF AckVersionRead
    <2> QED BY <2>6, <2>8, <2>9, <1>o DEF ToldInv
  <1>6. ASSUME NEW t \in Thread, BroadcastToOthers(t) PROVE ToldInv'
    <2>1. /\ pc[t] = "broadcasting" /\ pc' = [pc EXCEPT ![t] = "idle"]
          /\ op' = [op EXCEPT ![t] = None] /\ ackVersion' = [ackVersion EXCEPT ![t] = 0]
          /\ currentVersion' = currentVersion /\ applied' = applied
      BY <1>6 DEF BroadcastToOthers, Return
    <2>4. InFlight(t)
      BY <2>1 DEF InFlight
    <2>6. /\ ToldTruth' /\ AckCoversOp'
          /\ \A u \in UserId :
               Received(u)' = IF u \in Audience(t) THEN Received(u) \cup {op[t].id}
                                                      ELSE Received(u)
      BY <1>6, <2>1, Announced
    <2>7. \A s \in Thread : /\ pc'[s] = IF s = t THEN "idle" ELSE pc[s]
                            /\ s # t => op'[s] = op[s] /\ ackVersion'[s] = ackVersion[s]
      BY <2>1, <1>t DEF TypeOK
    <2>8. HeardInFlight'
      <3> SUFFICES ASSUME NEW s \in Thread, NEW u \in UserId, s # t, InFlight(s)',
                          op[s].id \in Received(u)'
                   PROVE  pc[s] = "broadcasting" /\ op[s].sender = u
        BY <2>7 DEF HeardInFlight, InFlight
      <3>1. InFlight(s)
        BY <2>7 DEF InFlight
      <3>2. op[s].id # op[t].id
        BY <3>1, <2>4, <1>o DEF OrderInv, OneAnnouncer
      <3> QED BY <3>1, <3>2, <2>6, <1>t DEF HeardInFlight
    <2>9. AckVersionRead'
      BY <2>1, <2>7, <1>t DEF AckVersionRead
    <2> QED BY <2>6, <2>8, <2>9, <1>o DEF ToldInv
  <1>7. ASSUME NEW t \in Thread, NEW c \in Call, Enter(t, c) PROVE ToldInv'
    <2>1. /\ pc' = [pc EXCEPT ![t] = "entered"]
          /\ \A s \in Thread \ {t} : op'[s] = op[s] /\ ackVersion'[s] = ackVersion[s]
          /\ UNCHANGED <<currentVersion, applied, inbox>>
      BY <1>7, <1>t DEF Enter, TypeOK
    <2> QED BY <2>1, <1>2
  <1>8. ASSUME NEW t \in Thread, Refuse(t) PROVE ToldInv'
    <2>1. /\ pc' = [pc EXCEPT ![t] = "idle"]
          /\ \A s \in Thread \ {t} : op'[s] = op[s] /\ ackVersion'[s] = ackVersion[s]
          /\ UNCHANGED <<currentVersion, applied, inbox>>
      BY <1>8, <1>t DEF Refuse, Return, TypeOK
    <2> QED BY <2>1, <1>2
  <1>9. ASSUME NEW u \in UserId, AddUser(u) \/ RemoveUser(u) PROVE ToldInv'
    BY <1>1, <1>9 DEF AddUser, RemoveUser
  <1>10. ASSUME SetBroadcastCallback \/ UNCHANGED vars PROVE ToldInv'
    BY <1>1, <1>10 DEF SetBroadcastCallback, vars
  <1> QED BY <1>3, <1>4, <1>5, <1>6, <1>7, <1>8, <1>9, <1>10 DEF Next, ThreadStep

(* ToldInv holds in every behaviour.                                       *)
LEMMA Told == Spec => []ToldInv
  BY InitTold, NextTold, PTL DEF Spec

(* Users are told of applied operations only, of each once, and at the     *)
(* version it was applied at.                                              *)
THEOREM TruthOfMessages == Spec => []ToldTruth
  <1>1. ToldInv => ToldTruth
    BY DEF ToldInv
  <1> QED BY <1>1, Told, PTL

(* The version an ACK carries is read after its operation took effect, so  *)
(* it covers that operation, whichever threads apply others in between.    *)
THEOREM AckCovers == Spec => []AckCoversOp
  <1>1. ToldInv => AckCoversOp
    BY DEF ToldInv
  <1> QED BY <1>1, Told, PTL

-----------------------------------------------------------------------------
\* u has been told of the i-th operation or still will be.
Covered(u, i) ==
  \/ applied[i] \in Received(u)
  \/ \E t \in Thread : /\ InFlight(t) /\ op[t].id = applied[i]
                       /\ op[t].sender = u => pc[t] # "broadcasting"

(* No member, nothing to miss.                                             *)
LEMMA InitMissed == Init => NothingMissed
  BY DEF Init, NothingMissed

(* Every step tells a member of an operation before the thread that took   *)
(* it gives up announcing it, and makes nobody a member, or the callback   *)
(* set, with operations outstanding.                                       *)
LEMMA NextMissed == ToldInv /\ NothingMissed /\ [Next]_vars => NothingMissed'
  <1> SUFFICES ASSUME ToldInv, NothingMissed, [Next]_vars PROVE NothingMissed'
    OBVIOUS
  <1>t. TypeOK /\ OneOpPerVersion
    BY DEF ToldInv, OrderInv
  <1>n. currentVersion \in Nat /\ Len(applied) = currentVersion
    BY <1>t, VersionNat DEF TypeOK, OneOpPerVersion
  <1>m. callbackSet => \A u \in users_ : \A i \in since[u] + 1..currentVersion : Covered(u, i)
    BY DEF NothingMissed, Covered
  <1> SUFFICES ASSUME callbackSet', NEW u \in users_', NEW i \in since'[u] + 1..currentVersion'
               PROVE  Covered(u, i)'
    BY DEF NothingMissed, Covered
  <1>u. u \in UserId /\ since[u] \in Nat
    <2>1. users_' \subseteq UserId
      BY NextType, <1>t DEF TypeOK
    <2> QED BY <2>1, <1>t, VersionNat DEF TypeOK
  <1>k. ASSUME UNCHANGED <<applied, inbox, pc, op>>, Covered(u, i) PROVE Covered(u, i)'
    BY <1>k DEF Covered, Received, InFlight
  <1>1. ASSUME NEW v \in UserId, AddUser(v) PROVE Covered(u, i)'
    <2>1. /\ users_' = users_ \cup {v} /\ since' = [since EXCEPT ![v] = currentVersion]
          /\ UNCHANGED <<callbackSet, currentVersion, applied, inbox, pc, op>>
      BY <1>1 DEF AddUser
    <2>2. CASE u = v
      <3>1. since'[u] = currentVersion
        BY <2>1, <2>2, <1>t DEF TypeOK
      <3> QED BY <3>1, <2>1, <1>n
    <2>3. CASE u # v
      <3>1. since'[u] = since[u] /\ u \in users_
        BY <2>1, <2>3, <1>t DEF TypeOK
      <3> QED BY <3>1, <2>1, <1>m, <1>k
    <2> QED BY <2>2, <2>3
  <1>2. ASSUME NEW v \in UserId, RemoveUser(v) PROVE Covered(u, i)'
    BY <1>2, <1>m, <1>k DEF RemoveUser
  <1>3. ASSUME SetBroadcastCallback PROVE Covered(u, i)'
    <2>1. since'[u] = currentVersion /\ currentVersion' = currentVersion
      BY <1>3, <1>u DEF SetBroadcastCallback
    <2> QED BY <2>1, <1>n
  <1>p. ASSUME UNCHANGED <<users_, callbackSet, currentVersion, since>>
        PROVE  callbackSet /\ u \in users_ /\ i \in since[u] + 1..currentVersion /\ Covered(u, i)
    BY <1>p, <1>m
  <1>4. ASSUME NEW t \in Thread, ~InFlight(t), NEW q \in {"idle", "entered"},
               pc' = [pc EXCEPT ![t] = q], \A s \in Thread \ {t} : op'[s] = op[s],
               UNCHANGED <<users_, callbackSet, currentVersion, applied, inbox, since>>
        PROVE  Covered(u, i)'
    <2>1. \A s \in Thread : InFlight(s) => InFlight(s)' /\ pc'[s] = pc[s] /\ op'[s] = op[s]
      BY <1>4, <1>t DEF TypeOK, InFlight
    <2>2. Received(u)' = Received(u)
      BY <1>4 DEF Received
    <2> QED BY <1>4, <2>1, <2>2, <1>p DEF Covered
  <1>5. ASSUME NEW t \in Thread, Apply(t) PROVE Covered(u, i)'
    <2>1. /\ pc[t] = "entered" /\ pc' = [pc EXCEPT ![t] = "applied"]
          /\ currentVersion' = currentVersion + 1 /\ applied' = Append(applied, op[t].id)
          /\ UNCHANGED <<users_, callbackSet, op, since>>
          /\ Received(u)' = Received(u)
      BY <1>5 DEF Apply, Received
    <2>2. \A s \in Thread : pc'[s] = IF s = t THEN "applied" ELSE pc[s]
      BY <2>1, <1>t DEF TypeOK
    <2>3. applied \in Seq(OpId) /\ op[t].id \in OpId
      BY <2>1, <1>t DEF TypeOK, Call
    <2>4. /\ \A v \in 1..currentVersion : applied'[v] = applied[v]
          /\ applied'[currentVersion + 1] = op[t].id
      BY <2>1, <2>3, <1>n
    <2>5. CASE i = currentVersion + 1
      BY <2>1, <2>5, <2>2, <2>4 DEF Covered, InFlight
    <2>6. CASE i # currentVersion + 1
      <3>1. i \in since[u] + 1..currentVersion /\ i \in 1..currentVersion
        BY <2>1, <2>6, <1>n, <1>u
      <3>2. Covered(u, i) /\ applied'[i] = applied[i]
        BY <3>1, <2>1, <2>4, <1>m
      <3>3. \A s \in Thread : InFlight(s) => InFlight(s)' /\ pc'[s] = pc[s]
        BY <2>1, <2>2 DEF InFlight
      <3> QED BY <3>2, <3>3, <2>1 DEF Covered
    <2> QED BY <2>5, <2>6
  <1>6. ASSUME NEW t \in Thread, ReadVersion(t) PROVE Covered(u, i)'
    <2>1. /\ pc[t] = "applied" /\ pc' = [pc EXCEPT ![t] = "acking"]
          /\ UNCHANGED <<users_, callbackSet, currentVersion, applied, op, since>>
          /\ Received(u)' = Received(u)
      BY <1>6 DEF ReadVersion, Received
    <2>2. \A s \in Thread : pc'[s] = IF s = t THEN "acking" ELSE pc[s]
      BY <2>1, <1>t DEF TypeOK
    <2>3. \A s \in Thread : InFlight(s) => /\ InFlight(s)'
                                           /\ pc[s] # "broadcasting" => pc'[s] # "broadcasting"
      BY <2>1, <2>2 DEF InFlight
    <2>4. CASE applied[i] \in Received(u)
      BY <2>1, <2>4 DEF Covered
    <2>5. CASE applied[i] \notin Received(u)
      <3>1. PICK s \in Thread : /\ InFlight(s) /\ op[s].id = applied[i]
                                /\ op[s].sender = u => pc[s] # "broadcasting"
        BY <2>1, <2>5, <1>p DEF Covered
      <3>2. op'[s].id = applied'[i] /\ op'[s].sender = op[s].sender
        BY <3>1, <2>1
      <3>3. InFlight(s)' /\ (op'[s].sender = u => pc'[s] # "broadcasting")
        BY <3>1, <3>2, <2>3
      <3> QED BY <3>2, <3>3 DEF Covered
    <2> QED BY <2>4, <2>5
  <1>7. ASSUME NEW t \in Thread, SendAck(t) PROVE Covered(u, i)'
    <2>1. /\ pc[t] = "acking" /\ pc' = [pc EXCEPT ![t] = "broadcasting"]
          /\ UNCHANGED <<users_, callbackSet, currentVersion, applied, op, since>>
      BY <1>7 DEF SendAck
    <2>2. \A s \in Thread : pc'[s] = IF s = t THEN "broadcasting" ELSE pc[s]
      BY <2>1, <1>t DEF TypeOK
    <2>3. Received(u)' = IF u = op[t].sender THEN Received(u) \cup {op[t].id} ELSE Received(u)
      BY <1>7, <1>u, <1>p, <2>1, Announced DEF Audience
    <2>4. CASE u = op[t].sender /\ applied[i] = op[t].id
      BY <2>1, <2>3, <2>4 DEF Covered
    <2>5. CASE ~(u = op[t].sender /\ applied[i] = op[t].id)
      BY <2>1, <2>2, <2>3, <2>5, <1>p DEF Covered, InFlight
    <2> QED BY <2>4, <2>5
  <1>8. ASSUME NEW t \in Thread, BroadcastToOthers(t) PROVE Covered(u, i)'
    <2>1. /\ pc[t] = "broadcasting" /\ pc' = [pc EXCEPT ![t] = "idle"]
          /\ op' = [op EXCEPT ![t] = None]
          /\ UNCHANGED <<users_, callbackSet, currentVersion, applied, since>>
      BY <1>8 DEF BroadcastToOthers, Return
    <2>2. \A s \in Thread : s # t => pc'[s] = pc[s] /\ op'[s] = op[s]
      BY <2>1, <1>t DEF TypeOK
    <2>3. Received(u)' = IF u # op[t].sender THEN Received(u) \cup {op[t].id} ELSE Received(u)
      BY <1>8, <1>u, <1>p, <2>1, Announced DEF Audience
    <2>4. CASE u # op[t].sender /\ applied[i] = op[t].id
      BY <2>1, <2>3, <2>4 DEF Covered
    <2>5. CASE ~(u # op[t].sender /\ applied[i] = op[t].id)
      BY <2>1, <2>2, <2>3, <2>5, <1>p DEF Covered, InFlight
    <2> QED BY <2>4, <2>5
  <1>9. ASSUME NEW t \in Thread, NEW c \in Call, Enter(t, c) PROVE Covered(u, i)'
    <2>1. /\ ~InFlight(t) /\ pc' = [pc EXCEPT ![t] = "entered"]
          /\ \A s \in Thread \ {t} : op'[s] = op[s]
          /\ UNCHANGED <<users_, callbackSet, currentVersion, applied, inbox, since>>
      BY <1>9, <1>t DEF Enter, TypeOK, InFlight
    <2> QED BY <2>1, <1>4
  <1>10. ASSUME NEW t \in Thread, Refuse(t) PROVE Covered(u, i)'
    <2>1. /\ ~InFlight(t) /\ pc' = [pc EXCEPT ![t] = "idle"]
          /\ \A s \in Thread \ {t} : op'[s] = op[s]
          /\ UNCHANGED <<users_, callbackSet, currentVersion, applied, inbox, since>>
      BY <1>10, <1>t DEF Refuse, Return, TypeOK, InFlight
    <2> QED BY <2>1, <1>4
  <1>11. ASSUME UNCHANGED vars PROVE Covered(u, i)'
    BY <1>11, <1>p, <1>k DEF vars
  <1> QED BY <1>1, <1>2, <1>3, <1>5, <1>6, <1>7, <1>8, <1>9, <1>10, <1>11 DEF Next, ThreadStep

(* No member misses an edit applied since it joined: it has been told, or  *)
(* the thread that applied the edit still will.                            *)
THEOREM NobodyMisses == Spec => []NothingMissed
  BY InitMissed, NextMissed, Told, PTL DEF Spec

-----------------------------------------------------------------------------
(* Taking an operation is a commit of the log, announcing it a delivery,   *)
(* and every other step leaves the log and what was delivered alone.       *)
LEMMA StepLogs == ToldInv /\ ToldInv' /\ [Next]_vars => [Log!LogNext]_(Log!logVars)
  <1> SUFFICES ASSUME ToldInv, [Next]_vars PROVE [Log!LogNext]_(Log!logVars)
    OBVIOUS
  <1>t. TypeOK /\ OneOpPerVersion /\ RetryAgrees
    BY DEF ToldInv, OrderInv
  <1>c. \A t \in Thread : pc[t] # "idle" => op[t].id \in OpId
    BY <1>t DEF TypeOK, Call
  <1> USE DEF Log!logVars
  <1>1. ASSUME UNCHANGED <<applied, inbox>> PROVE UNCHANGED Log!logVars
    BY <1>1 DEF Received
  <1>2. ASSUME NEW t \in Thread, Apply(t) PROVE Log!LogNext
    <2>1. /\ pc[t] = "entered" /\ op[t].version = currentVersion + 1
          /\ applied' = Append(applied, op[t].id) /\ inbox' = inbox
      BY <1>2 DEF Apply, CanApplyVersion
    <2>2. op[t].id \notin Log!Logged
      <3>1. currentVersion \in Nat /\ Len(applied) = currentVersion
        BY <1>t, VersionNat DEF TypeOK, OneOpPerVersion
      <3> QED BY <3>1, <2>1, <1>t DEF RetryAgrees, Log!Logged
    <2>3. Log!Commit(op[t].id)
      BY <2>1, <2>2 DEF Log!Commit, Received
    <2> QED BY <2>1, <2>3, <1>c DEF Log!LogNext
  <1>3. ASSUME NEW t \in Thread, SendAck(t) \/ BroadcastToOthers(t) PROVE Log!LogNext
    <2>1. InFlight(t) /\ applied' = applied
      BY <1>3 DEF SendAck, BroadcastToOthers, InFlight
    <2>2. op[t].id \in Log!Logged
      BY <2>1, <1>t DEF OneOpPerVersion, Log!Logged
    <2>3. /\ Audience(t) \in SUBSET UserId /\ \A u \in Audience(t) : op[t].id \notin Received(u)
          /\ \A u \in UserId :
               Received(u)' = IF u \in Audience(t) THEN Received(u) \cup {op[t].id} ELSE Received(u)
      BY <1>3, Announced DEF Audience
    <2>4. Log!Deliver(op[t].id, Audience(t))
      BY <2>1, <2>2, <2>3 DEF Log!Deliver
    <2>5. op[t].id \in OpId
      BY <2>1, <1>c DEF InFlight
    <2> QED BY <2>3, <2>4, <2>5 DEF Log!LogNext
  <1>4. ASSUME NEW t \in Thread, NEW c \in Call, Enter(t, c) PROVE UNCHANGED Log!logVars
    BY <1>1, <1>4 DEF Enter
  <1>5. ASSUME NEW t \in Thread, Refuse(t) \/ ReadVersion(t) PROVE UNCHANGED Log!logVars
    BY <1>1, <1>5 DEF Refuse, ReadVersion
  <1>6. ASSUME NEW u \in UserId, AddUser(u) \/ RemoveUser(u) PROVE UNCHANGED Log!logVars
    BY <1>1, <1>6 DEF AddUser, RemoveUser
  <1>7. ASSUME SetBroadcastCallback \/ UNCHANGED vars PROVE UNCHANGED Log!logVars
    BY <1>1, <1>7 DEF SetBroadcastCallback, vars
  <1> QED BY <1>2, <1>3, <1>4, <1>5, <1>6, <1>7 DEF Next, ThreadStep

(* A room with its threads and members implements one log of operations    *)
(* that reaches every user at most once.                                   *)
THEOREM Refinement == Spec => ImplementsLog
  <1>1. Init => Log!LogInit
    BY DEF Init, Log!LogInit, Received
  <1>2. ToldInv /\ ToldInv' /\ [Next]_vars => [Log!LogNext]_(Log!logVars)
    BY StepLogs
  <1> QED BY <1>1, <1>2, Told, PTL DEF Spec, ImplementsLog, Log!LogSpec
=============================================================================
