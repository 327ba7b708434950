--------------------------- MODULE EditingProofs ----------------------------
(***************************************************************************)
(* Proofs about DocumentState, for any operations, texts, window size and  *)
(* number of versions, and about ConcurrentEdits, for any base text, any   *)
(* typed texts and any two edits.  What a rollback restores is a fact      *)
(* about the loop of rollbackToVersion: it is proved by induction on its   *)
(* iterations, over the set of the numbers for which the claim holds.      *)
(* What an exchange leaves is a fact about OTAlgorithm::transform: texts   *)
(* are compared character by character, for each way two edits can lie.    *)
(***************************************************************************)
EXTENDS DocumentState, ConcurrentEdits, SequenceTheorems, WellFoundedInduction, TLAPS

-----------------------------------------------------------------------------
(* Induction on the natural numbers, for a set of them.                    *)
Less == {p \in Nat \X Nat : p[1] < p[2]}

LEMMA LessWellFounded == IsWellFoundedOn(Less, Nat)
  BY NatLessThanWellFounded, Zenon DEF OpToRel, Less

LEMMA SetInduction ==
  ASSUME NEW T, 0 \in T, \A n \in Nat : n \in T => n + 1 \in T
  PROVE  \A n \in Nat : n \in T
  <1> DEFINE U == Nat \ T
  <1>1. SUFFICES ASSUME U # {} PROVE FALSE
    OBVIOUS
  <1>2. PICK x \in U : \A y \in U : <<y, x>> \notin Less
    BY LessWellFounded, <1>1, WFMin, Zenon
  <1>3. x # 0 /\ x - 1 \in Nat /\ x - 1 < x /\ x = (x - 1) + 1
    BY <1>2
  <1>4. x - 1 \in U
    BY <1>2, <1>3
  <1> QED BY <1>2, <1>3, <1>4 DEF Less

-----------------------------------------------------------------------------
(* The texts an edit inside them produces are texts.                       *)
LEMMA EditedType ==
  ASSUME NEW s \in Seq(Char), NEW op \in Op, op.type = "RETAIN" \/ op.position <= Len(s)
  PROVE  Edited(s, op) \in Seq(Char)
  <1> DEFINE p == op.position   t == op.content
  <1>1. p \in Nat /\ t \in Seq(Char) /\ Len(t) \in Nat /\ op.type \in OperationType
    BY DocAssumption, WordModAssumption
  <1>2. \A m \in Nat \ {0} : SubSeq(s, m, Len(s)) \in Seq(Char)
    BY SubSeqProperties, ElementOfSeq, LenProperties
  <1>3. p <= Len(s) => SubSeq(s, 1, p) \in Seq(Char)
    BY <1>1, SubSeqProperties, ElementOfSeq, LenProperties
  <1>4. p + 1 \in Nat \ {0} /\ p + Len(t) + 1 \in Nat \ {0}
    BY <1>1
  <1> HIDE DEF p, t
  <1>5. p <= Len(s) => /\ InsertAt(s, p, t) \in Seq(Char)
                       /\ EraseAt(s, p, Len(t)) \in Seq(Char)
                       /\ ReplaceAt(s, p, t) \in Seq(Char)
    BY <1>1, <1>2, <1>3, <1>4, ConcatProperties DEF InsertAt, EraseAt, ReplaceAt
  <1> QED BY <1>1, <1>5 DEF Edited, OperationType, p, t

-----------------------------------------------------------------------------
(* The loop of rollbackToVersion.                                          *)
Begin == [text |-> <<>>, run |-> "on"]

(* It has a state after every iteration, and Replay is the last one.       *)
LEMMA ReplayLoop ==
  ASSUME NEW h \in Seq(Op), NEW target
  PROVE  \E f : /\ f[0] = Begin
                /\ \A i \in 1..Len(h) : f[i] = ReplayOne(f[i - 1], h[i], target)
                /\ Replay(h, target) = f[Len(h)]
  <1> DEFINE N == Len(h)
             Body(g, n) == [i \in 0..n |-> IF i = 0 THEN Begin
                                           ELSE ReplayOne(g[i - 1], h[i], target)]
             T == {n \in Nat : \E g : g = Body(g, n)}
  <1>1. 0 \in T
    <2> DEFINE g == [i \in 0..0 |-> Begin]
    <2>1. g = Body(g, 0)
      OBVIOUS
    <2> QED BY <2>1
  <1>2. ASSUME NEW n \in Nat, n \in T PROVE n + 1 \in T
    <2>1. PICK g : g = Body(g, n)
      BY <1>2
    <2> DEFINE k == [i \in 0..n + 1 |-> IF i = n + 1 THEN ReplayOne(g[n], h[n + 1], target)
                                        ELSE g[i]]
    <2>2. \A i \in 0..n + 1 :
            k[i] = IF i = 0 THEN Begin ELSE ReplayOne(k[i - 1], h[i], target)
      <3> TAKE i \in 0..n + 1
      <3>1. CASE i = n + 1
        <4>1. k[i - 1] = g[n] /\ i # 0
          BY <3>1
        <4> QED BY <3>1, <4>1
      <3>2. CASE i # n + 1 /\ i # 0
        <4>1. k[i - 1] = g[i - 1] /\ k[i] = g[i] /\ i \in 0..n
          BY <3>2
        <4> QED BY <2>1, <3>2, <4>1
      <3>3. CASE i # n + 1 /\ i = 0
        BY <2>1, <3>3
      <3> QED BY <3>1, <3>2, <3>3
    <2>3. k = Body(k, n + 1)
      BY <2>2
    <2>4. \E x : x = Body(x, n + 1)
      <3> HIDE DEF k
      <3> WITNESS k
      <3> QED BY <2>3
    <2>5. n + 1 \in Nat
      OBVIOUS
    <2> HIDE DEF Body
    <2> QED BY <2>4, <2>5, Zenon
  <1>3. N \in T
    <2>1. N \in Nat
      BY LenProperties
    <2> HIDE DEF T
    <2> QED BY <1>1, <1>2, <2>1, SetInduction
  <1> DEFINE f == CHOOSE g : g = Body(g, N)
  <1>4. f = Body(f, N)
    BY <1>3
  <1>5. Replay(h, target) = f[N]
    BY DEF Replay, Begin
  <1>6. f[0] = Begin /\ \A i \in 1..N : f[i] = ReplayOne(f[i - 1], h[i], target)
    <2>1. N \in Nat
      BY LenProperties
    <2> HIDE DEF f
    <2> QED BY <1>4, <2>1
  <1> QED BY <1>5, <1>6

(* The text of the loop is a text, wherever it is.                         *)
LEMMA ReplayType ==
  ASSUME NEW h \in Seq(Op), NEW target \in Nat
  PROVE  Replay(h, target) \in [text : Seq(Char), run : {"on", "break", "throw"}]
  <1> DEFINE R == [text : Seq(Char), run : {"on", "break", "throw"}]
  <1>1. PICK f : /\ f[0] = Begin
                 /\ \A i \in 1..Len(h) : f[i] = ReplayOne(f[i - 1], h[i], target)
                 /\ Replay(h, target) = f[Len(h)]
    BY ReplayLoop
  <1>2. Begin \in R
    BY DEF Begin
  <1>3. ASSUME NEW r \in R, NEW op \in Op PROVE ReplayOne(r, op, target) \in R
    <2>1. CASE r.run = "on" /\ (op.type = "RETAIN" \/ op.position <= Len(r.text))
      <3>1. Edited(r.text, op) \in Seq(Char)
        BY <2>1, EditedType
      <3> QED BY <3>1 DEF ReplayOne
    <2>2. CASE r.run # "on" \/ (op.type # "RETAIN" /\ op.position > Len(r.text))
      BY <2>2 DEF ReplayOne
    <2> QED BY <2>1, <2>2, DocAssumption, WordModAssumption, LenProperties
  <1> DEFINE T == {n \in Nat : n <= Len(h) => f[n] \in R}
  <1> HIDE DEF R
  <1>4. 0 \in T
    BY <1>1, <1>2
  <1>5. ASSUME NEW n \in Nat, n \in T PROVE n + 1 \in T
    <2>1. CASE n + 1 <= Len(h)
      <3>1. n + 1 \in 1..Len(h) /\ (n + 1) - 1 = n /\ n <= Len(h) /\ h[n + 1] \in Op
        BY <2>1, LenProperties, ElementOfSeq
      <3>2. f[n + 1] = ReplayOne(f[n], h[n + 1], target)
        BY <1>1, <3>1
      <3> QED BY <1>3, <1>5, <3>1, <3>2
    <2> QED BY <2>1
  <1>6. Len(h) \in T
    <2> HIDE DEF T
    <2> QED BY <1>4, <1>5, SetInduction, LenProperties
  <1> QED BY <1>1, <1>6, LenProperties DEF R

(* A window that holds a whole line of edits, from the empty text on, each *)
(* of which could be executed, replays to the text at the target version.  *)
LEMMA ReplayRestores ==
  ASSUME NEW h \in Seq(Op), NEW texts, NEW target \in Nat, target < Len(h),
         texts[1] = <<>>,
         \A i \in 1..Len(h) : /\ h[i].version = i /\ texts[i] \in Seq(Char)
                              /\ Executes(texts[i], h[i])
                              /\ texts[i + 1] = Edited(texts[i], h[i])
  PROVE  Replay(h, target) = [text |-> texts[target + 1], run |-> "break"]
  <1>1. PICK f : /\ f[0] = Begin
                 /\ \A i \in 1..Len(h) : f[i] = ReplayOne(f[i - 1], h[i], target)
                 /\ Replay(h, target) = f[Len(h)]
    BY ReplayLoop
  <1> DEFINE At(n) == [text |-> texts[IF n <= target THEN n + 1 ELSE target + 1],
                       run |-> IF n <= target THEN "on" ELSE "break"]
             T == {n \in Nat : n <= Len(h) => f[n] = At(n)}
  <1>2. 0 \in T
    BY <1>1 DEF Begin
  <1>3. ASSUME NEW n \in Nat, n \in T PROVE n + 1 \in T
    <2> SUFFICES ASSUME n + 1 <= Len(h) PROVE f[n + 1] = At(n + 1)
      OBVIOUS
    <2> DEFINE op == h[n + 1]
    <2>1. n + 1 \in 1..Len(h) /\ (n + 1) - 1 = n /\ n <= Len(h) /\ op \in Op
      BY LenProperties, ElementOfSeq
    <2>2. f[n + 1] = ReplayOne(f[n], op, target) /\ f[n] = At(n)
      BY <1>1, <1>3, <2>1
    <2>3. /\ op.version = n + 1 /\ texts[n + 1] \in Seq(Char)
          /\ Executes(texts[n + 1], op) /\ texts[n + 2] = Edited(texts[n + 1], op)
      BY <2>1
    <2> HIDE DEF op
    <2>4. CASE n + 1 <= target
      <3>1. ~(op.version > target) /\ At(n) = [text |-> texts[n + 1], run |-> "on"]
        BY <2>3, <2>4
      <3>2. ~(op.type \in {"DELETE", "REPLACE"} /\ EndOf(op) > Len(texts[n + 1]))
        <4>1. EndOf(op) \in Int /\ Len(texts[n + 1]) \in Int
          BY <2>1, <2>3, DocAssumption, WordModAssumption, LenProperties DEF EndOf, Plus
        <4> QED BY <2>3, <4>1 DEF Executes
      <3>3. ~(op.type # "RETAIN" /\ op.position > Len(texts[n + 1]))
        <4>1. op.position \in Int /\ Len(texts[n + 1]) \in Int
          BY <2>1, <2>3, DocAssumption, WordModAssumption, LenProperties
        <4> QED BY <2>3, <4>1 DEF Executes
      <3>4. ReplayOne(f[n], op, target) = [f[n] EXCEPT !.text = Edited(f[n].text, op)]
        BY <2>2, <3>1, <3>2, <3>3 DEF ReplayOne
      <3> QED BY <2>2, <2>3, <2>4, <3>1, <3>4
    <2>5. CASE n = target
      <3>1. op.version > target /\ At(n) = [text |-> texts[target + 1], run |-> "on"]
        BY <2>3, <2>5
      <3> QED BY <2>2, <2>5, <3>1 DEF ReplayOne
    <2>6. CASE n > target
      <3>1. At(n) = [text |-> texts[target + 1], run |-> "break"] /\ At(n + 1) = At(n)
        BY <2>6
      <3> QED BY <2>2, <3>1 DEF ReplayOne
    <2> QED BY <2>4, <2>5, <2>6
  <1>4. Len(h) \in T
    <2> HIDE DEF T
    <2> QED BY <1>2, <1>3, SetInduction, LenProperties
  <1> QED BY <1>1, <1>4, LenProperties

-----------------------------------------------------------------------------
(* The inductive invariant.  Until the first rollback, past holds the      *)
(* versions up to the current one, and every remembered operation could be *)
(* executed on the version before it and made the next one of it.          *)
LineOfEdits ==
  /\ past \in Seq(Seq(Char)) /\ Len(past) = currentVersion + 1
  /\ past[1] = loaded /\ past[currentVersion + 1] = content
  /\ Len(history) <= currentVersion
  /\ \A i \in 1..Len(history) :
       LET v == history[i].version
       IN  Executes(past[v], history[i]) /\ past[v + 1] = Edited(past[v], history[i])

IInv == TypeOK /\ WindowConnected /\ WindowIsRecent /\ (~rollbacks => LineOfEdits)

(* Remember puts the operation last and keeps the order of the others, of  *)
(* which it drops none or the first.                                       *)
LEMMA RememberKeepsOrder ==
  ASSUME NEW h \in Seq(Op), NEW op \in Op, Len(h) <= MaxHistorySize
  PROVE  /\ Remember(h, op) \in Seq(Op) /\ Len(Remember(h, op)) \in 1..MaxHistorySize
         /\ Remember(h, op)[Len(Remember(h, op))] = op
         /\ \E d \in {0, 1} :
              /\ Len(Remember(h, op)) = Len(h) + 1 - d
              /\ \A i \in 1..Len(Remember(h, op)) - 1 :
                   i + d \in 1..Len(h) /\ Remember(h, op)[i] = h[i + d]
  <1> USE DocAssumption
  <1> DEFINE g == Append(h, op)   r == Remember(h, op)   n == Len(h)
  <1>1. /\ g \in Seq(Op) /\ Len(g) = n + 1 /\ n \in Nat
        /\ g[n + 1] = op /\ \A i \in 1..n : g[i] = h[i]
    BY AppendProperties, LenProperties
  <1>2. r = IF Len(g) > MaxHistorySize THEN Tail(g) ELSE g
    BY DEF Remember
  <1> HIDE DEF g, r
  <1>3. CASE Len(g) > MaxHistorySize
    <2>1. /\ r \in Seq(Op) /\ Len(r) = n /\ n \in 1..n
          /\ \A i \in 1..n : r[i] = g[i + 1]
      BY <1>1, <1>2, <1>3, HeadTailProperties
    <2>2. r[n] = op
      BY <1>1, <2>1
    <2>3. \A i \in 1..Len(r) - 1 : i + 1 \in 1..n /\ r[i] = h[i + 1]
      BY <1>1, <2>1
    <2> QED BY <1>1, <1>3, <2>1, <2>2, <2>3 DEF r
  <1>4. CASE ~(Len(g) > MaxHistorySize)
    <2>1. r = g
      BY <1>2, <1>4
    <2>2. Len(r) = n + 1 - 0 /\ \A i \in 1..Len(r) - 1 : i + 0 \in 1..n /\ r[i] = h[i + 0]
      BY <1>1, <2>1
    <2> QED BY <1>1, <1>4, <2>1, <2>2 DEF r
  <1> QED BY <1>3, <1>4

(* The initial state satisfies the invariant.                              *)
LEMMA InitInv == Init => IInv
  <1> SUFFICES ASSUME Init PROVE IInv
    OBVIOUS
  <1> USE DocAssumption DEF Init
  <1>1. TypeOK
    BY DEF TypeOK
  <1>2. history = <<>> /\ Len(history) = 0
    OBVIOUS
  <1>3. past \in Seq(Seq(Char)) /\ Len(past) = 1 /\ past[1] = <<>>
    <2>1. <<>> \in Seq(Char)
      OBVIOUS
    <2> QED BY <2>1
  <1> QED BY <1>1, <1>2, <1>3 DEF IInv, WindowConnected, WindowIsRecent, LineOfEdits

(* Loading a document keeps it.                                            *)
LEMMA LoadStep ==
  ASSUME IInv, NEW base \in Text, NEW version \in 0..MaxVersion, Load(base, version)
  PROVE  IInv'
  <1> USE DocAssumption DEF Load
  <1>1. history = <<>> /\ Len(history) = 0 /\ Len(history') = 0
    OBVIOUS
  <1>2. TypeOK'
    BY <1>1 DEF IInv, TypeOK
  <1>3. past' \in Seq(Seq(Char)) /\ Len(past') = version + 1 /\ past'[1] = base
        /\ past'[version + 1] = base
    OBVIOUS
  <1> QED BY <1>1, <1>2, <1>3 DEF IInv, WindowConnected, WindowIsRecent, LineOfEdits

(* Applying an operation keeps it.                                         *)
LEMMA ApplyStep ==
  ASSUME IInv, NEW op \in Op, op.version <= MaxVersion, ApplyOperation(op)
  PROVE  IInv'
  <1> USE DocAssumption
  <1> DEFINE cv == currentVersion   r == Remember(history, op)   n == Len(history)
  <1>1. /\ op.version = cv + 1 /\ Executes(content, op)
        /\ content' = Edited(content, op) /\ currentVersion' = cv + 1
        /\ history' = r /\ past' = Append(SubSeq(past, 1, cv + 1), content')
        /\ loaded' = loaded /\ rollbacks' = rollbacks
    BY DEF ApplyOperation, ResultOf
  <1>2. cv \in Nat /\ n \in Nat /\ history \in Seq(Op) /\ n <= MaxHistorySize
    BY LenProperties DEF IInv, TypeOK
  <1>3. /\ r \in Seq(Op) /\ Len(r) \in 1..MaxHistorySize /\ r[Len(r)] = op
    BY <1>2, RememberKeepsOrder
  <1>4. PICK d \in {0, 1} :
          /\ Len(r) = n + 1 - d
          /\ \A i \in 1..Len(r) - 1 : i + d \in 1..n /\ r[i] = history[i + d]
    BY <1>2, RememberKeepsOrder
  <1> HIDE DEF r
  <1>5. TypeOK'
    <2>1. content' \in Seq(Char)
      BY <1>1, EditedType DEF IInv, TypeOK, Executes
    <2> QED BY <1>1, <1>2, <1>3, <2>1 DEF TypeOK
  <1>6. WindowConnected'
    <2>1. ASSUME NEW i \in 1..Len(r) - 1 PROVE r[i + 1].version <= r[i].version + 1
      <3>1. i + d \in 1..n /\ r[i] = history[i + d] /\ history[i + d].version \in Nat
        BY <1>2, <1>4, ElementOfSeq
      <3>2. CASE i + 1 \in 1..Len(r) - 1
        <4>1. (i + 1) + d \in 1..n /\ r[i + 1] = history[(i + 1) + d]
          BY <1>4, <3>2
        <4>2. i + d \in 1..n - 1 /\ (i + 1) + d = (i + d) + 1
          BY <1>2, <3>1, <4>1
        <4> QED BY <3>1, <4>1, <4>2 DEF IInv, WindowConnected
      <3>3. CASE i + 1 \notin 1..Len(r) - 1
        <4>1. i + 1 = Len(r) /\ i + d = n /\ history # <<>>
          BY <1>2, <1>3, <1>4, <3>1, <3>3
        <4>2. history[i + d].version >= cv
          BY <4>1 DEF IInv, WindowConnected
        <4> QED BY <1>1, <1>2, <1>3, <3>1, <4>1, <4>2
      <3> QED BY <3>2, <3>3
    <2> QED BY <1>1, <1>2, <1>3, <2>1 DEF WindowConnected
  <1>7. CASE rollbacks
    BY <1>1, <1>5, <1>6, <1>7 DEF IInv, WindowIsRecent
  <1>8. CASE ~rollbacks
    <2>1. WindowIsRecent'
      <3>1. ASSUME NEW i \in 1..Len(r) PROVE r[i].version = (cv + 1) - Len(r) + i
        <4>1. CASE i = Len(r)
          <5>1. r[i].version = cv + 1 /\ Len(r) \in Nat
            BY <1>1, <1>3, <4>1
          <5> QED BY <1>2, <4>1, <5>1
        <4>2. CASE i # Len(r)
          <5>1. i + d \in 1..n /\ r[i] = history[i + d]
            BY <1>3, <1>4, <4>2
          <5>2. history[i + d].version = cv - n + (i + d)
            BY <1>8, <5>1 DEF IInv, WindowIsRecent
          <5> QED BY <1>2, <1>3, <1>4, <5>1, <5>2
        <4> QED BY <4>1, <4>2
      <3> QED BY <1>1, <3>1 DEF WindowIsRecent
    <2>2. /\ past \in Seq(Seq(Char)) /\ Len(past) = cv + 1 /\ past[1] = loaded
          /\ past[cv + 1] = content /\ n <= cv
      BY <1>8 DEF IInv, LineOfEdits
    <2>3. SubSeq(past, 1, cv + 1) = past
      BY <2>2, SubSeqFull
    <2>4. /\ past' \in Seq(Seq(Char)) /\ Len(past') = (cv + 1) + 1
          /\ past'[cv + 2] = content' /\ \A v \in 1..cv + 1 : past'[v] = past[v]
      BY <1>1, <1>2, <1>5, <2>2, <2>3, AppendProperties DEF TypeOK
    <2>5. ASSUME NEW i \in 1..Len(r)
          PROVE  LET v == r[i].version
                 IN  Executes(past'[v], r[i]) /\ past'[v + 1] = Edited(past'[v], r[i])
      <3>1. CASE i = Len(r)
        BY <1>1, <1>2, <1>3, <2>2, <2>4, <3>1
      <3>2. CASE i # Len(r)
        <4>1. i + d \in 1..n /\ r[i] = history[i + d]
          BY <1>3, <1>4, <3>2
        <4>2. r[i].version = cv - n + (i + d)
          BY <1>8, <4>1 DEF IInv, WindowIsRecent
        <4>3. r[i].version \in 1..cv /\ r[i].version + 1 \in 1..cv + 1
              /\ r[i].version \in 1..cv + 1
          <5> DEFINE w == i + d
          <5>1. w \in 1..n /\ r[i].version = cv - n + w
            BY <4>1, <4>2
          <5>2. \A a, b, c \in Nat : b <= a /\ c \in 1..b => a - b + c \in 1..a
            OBVIOUS
          <5>3. n \in 0..cv
            BY <1>2, <2>2
          <5> HIDE DEF w
          <5>4. r[i].version \in 1..cv
            BY <1>2, <5>1, <5>2, <5>3
          <5>5. r[i].version \in Nat /\ r[i].version <= cv
            BY <1>2, <5>4
          <5> QED BY <1>2, <5>4, <5>5
        <4>4. LET v == r[i].version
              IN  Executes(past[v], r[i]) /\ past[v + 1] = Edited(past[v], r[i])
          BY <1>8, <4>1 DEF IInv, LineOfEdits
        <4> QED BY <2>4, <4>3, <4>4
      <3> QED BY <3>1, <3>2
    <2>6. LineOfEdits'
      <3>1. past'[1] = past[1] /\ past'[currentVersion' + 1] = content'
        BY <1>1, <1>2, <2>4
      <3>2. Len(r) <= cv + 1
        BY <1>2, <1>4, <2>2
      <3> QED BY <1>1, <1>2, <2>2, <2>4, <2>5, <3>1, <3>2 DEF LineOfEdits
    <2> QED BY <1>5, <1>6, <2>1, <2>6 DEF IInv
  <1> QED BY <1>7, <1>8

(* Rolling back keeps it.                                                  *)
LEMMA RollbackStep ==
  ASSUME IInv, NEW target \in 0..MaxVersion, RollbackToVersion(target)
  PROVE  IInv'
  <1> USE DocAssumption
  <1>1. /\ content' = Replay(history, target).text
        /\ currentVersion' \in {currentVersion, target} /\ target < currentVersion
        /\ history' = history /\ rollbacks'
    BY DEF RollbackToVersion, CanRollBack
  <1>2. TypeOK'
    <2>1. content' \in Seq(Char)
      BY <1>1, ReplayType DEF IInv, TypeOK
    <2> QED BY <1>1, <2>1 DEF IInv, TypeOK
  <1>3. WindowConnected'
    <2>1. ASSUME history # <<>> PROVE history[Len(history)].version >= currentVersion'
      <3>1. history[Len(history)].version \in Nat /\ history[Len(history)].version >= currentVersion
        BY <2>1, ElementOfSeq, LenProperties, EmptySeq DEF IInv, TypeOK, WindowConnected
      <3> QED BY <1>1, <3>1 DEF IInv, TypeOK
    <2> QED BY <1>1, <2>1 DEF IInv, WindowConnected
  <1> QED BY <1>1, <1>2, <1>3 DEF IInv, WindowIsRecent

LEMMA NextInv == IInv /\ [Next]_vars => IInv'
  <1> SUFFICES ASSUME IInv, [Next]_vars PROVE IInv'
    OBVIOUS
  <1>1. CASE UNCHANGED vars
    BY <1>1 DEF IInv, TypeOK, WindowConnected, WindowIsRecent, LineOfEdits, vars
  <1> QED BY <1>1, LoadStep, ApplyStep, RollbackStep DEF Next

LEMMA Invariance == Spec => []IInv
  BY InitInv, NextInv, PTL DEF Spec

-----------------------------------------------------------------------------
(* The text is made of submitted and loaded characters, whatever is        *)
(* replayed over whatever text; the window stays within MAX_HISTORY_SIZE.  *)
THEOREM TypeCorrect == Spec => []TypeOK
  <1>1. IInv => TypeOK
    BY DEF IInv
  <1> QED BY <1>1, Invariance, PTL

(* applyOperation and rollbackToVersion leave a window without a gap, whose*)
(* last operation is no older than the document.                           *)
THEOREM NoGapInWindow == Spec => []WindowConnected
  <1>1. IInv => WindowConnected
    BY DEF IInv
  <1> QED BY <1>1, Invariance, PTL

(* Before the first rollback getHistory(n) returns the last n versions.    *)
THEOREM HistoryIsRecent == Spec => []WindowIsRecent
  <1>1. IInv => WindowIsRecent
    BY DEF IInv
  <1> QED BY <1>1, Invariance, PTL

(* The first rollbackToVersion of a document that started empty and whose  *)
(* whole life is in the window restores the text of the target version.    *)
THEOREM RollbackRestores == Spec => FirstRollbackRestores
  <1> DEFINE Restored ==
        \A v \in 0..MaxVersion :
          /\ RollbackToVersion(v)
          /\ ~rollbacks /\ loaded = <<>> /\ Len(history) = currentVersion
          => content' = past[v + 1] /\ currentVersion' = v
  <1>1. IInv => Restored
    <2> SUFFICES ASSUME IInv, NEW v \in 0..MaxVersion, RollbackToVersion(v),
                        ~rollbacks, loaded = <<>>, Len(history) = currentVersion
                 PROVE  content' = past[v + 1] /\ currentVersion' = v
      OBVIOUS
    <2> DEFINE cv == currentVersion
    <2>1. /\ cv \in Nat /\ v \in Nat /\ v < Len(history) /\ history \in Seq(Op)
          /\ past \in Seq(Seq(Char)) /\ Len(past) = cv + 1 /\ past[1] = <<>>
      BY DocAssumption DEF IInv, TypeOK, LineOfEdits, RollbackToVersion, CanRollBack
    <2>2. ASSUME NEW i \in 1..Len(history)
          PROVE  /\ history[i].version = i /\ past[i] \in Seq(Char)
                 /\ Executes(past[i], history[i])
                 /\ past[i + 1] = Edited(past[i], history[i])
      <3>1. history[i].version = i
        BY <2>1 DEF IInv, WindowIsRecent
      <3>2. past[i] \in Seq(Char)
        BY <2>1, ElementOfSeq
      <3> QED BY <3>1, <3>2 DEF IInv, LineOfEdits
    <2>3. Replay(history, v) = [text |-> past[v + 1], run |-> "break"]
      <3>1. /\ history \in Seq(Op) /\ v \in Nat /\ v < Len(history) /\ past[1] = <<>>
            /\ \A i \in 1..Len(history) :
                 /\ history[i].version = i /\ past[i] \in Seq(Char)
                 /\ Executes(past[i], history[i])
                 /\ past[i + 1] = Edited(past[i], history[i])
        BY <2>1, <2>2
      <3> QED BY <3>1, ReplayRestores
    <2> QED BY <2>3 DEF RollbackToVersion
  <1>2. IInv => [Restored]_vars
    BY <1>1
  <1> QED BY <1>2, Invariance, PTL DEF FirstRollbackRestores

-----------------------------------------------------------------------------
(* Texts, character by character.                                          *)

\* What lies between two positions.
LEMMA Part ==
  ASSUME NEW C, NEW s \in Seq(C), NEW m \in Nat, NEW n \in Nat, m <= n, n <= Len(s)
  PROVE  /\ SubSeq(s, m + 1, n) \in Seq(C) /\ Len(SubSeq(s, m + 1, n)) = n - m
         /\ \A i \in 1..n - m : SubSeq(s, m + 1, n)[i] = s[m + i]
  <1>1. \A i \in m + 1..n : s[i] \in C
    BY LenProperties, ElementOfSeq
  <1>2. m + 1 \in Int /\ n \in Int /\ \A i \in 1..n - m : (m + 1) + i - 1 = m + i
    OBVIOUS
  <1> QED BY <1>1, <1>2, SubSeqProperties

\* Two texts joined, of which the lengths are known.
LEMMA Joined ==
  ASSUME NEW C, NEW s \in Seq(C), NEW t \in Seq(C)
  PROVE  /\ s \o t \in Seq(C) /\ Len(s \o t) = Len(s) + Len(t)
         /\ \A i \in 1..Len(s) + Len(t) :
              (s \o t)[i] = IF i <= Len(s) THEN s[i] ELSE t[i - Len(s)]
  BY ConcatProperties

\* r is s, of length l, with t, of length n, put behind its first p characters.
Puts(r, s, l, p, t, n) ==
  /\ Len(r) = l + n
  /\ \A i \in 1..l + n : /\ i <= p => r[i] = s[i]
                         /\ p < i /\ i <= p + n => r[i] = t[i - p]
                         /\ p + n < i => r[i] = s[i - n]

\* r is s, of length l, without the n characters behind the first p.
Cuts(r, s, l, p, n) ==
  /\ Len(r) = l - n
  /\ \A i \in 1..l - n : /\ i <= p => r[i] = s[i]
                         /\ p < i => r[i] = s[i + n]

\* An insert into s at p.
LEMMA Inserted ==
  ASSUME NEW C, NEW s \in Seq(C), NEW t \in Seq(C), NEW p \in 0..Len(s)
  PROVE  InsertAt(s, p, t) \in Seq(C) /\ Puts(InsertAt(s, p, t), s, Len(s), p, t, Len(t))
  <1> DEFINE a == SubSeq(s, 1, p)   b == SubSeq(s, p + 1, Len(s))   at == a \o t   m == Len(s)   n == Len(t)
  <1>1. m \in Nat /\ n \in Nat /\ p \in Nat /\ p <= m
    BY LenProperties
  <1>2. /\ a \in Seq(C) /\ Len(a) = p /\ \A i \in 1..p : a[i] = s[i]
    <2>1. /\ 1 \in 1..Len(s) + 1 /\ p \in 1 - 1..Len(s)
      BY <1>1
    <2>2. \A i \in 1..p : s[i] \in C
      BY <1>1, ElementOfSeq
    <2> QED BY <1>1, <2>1, <2>2, SubSeqProperties
  <1>3. /\ b \in Seq(C) /\ Len(b) = m - p /\ \A i \in 1..m - p : b[i] = s[p + i]
    <2>2. \A i \in p + 1..m : s[i] \in C
      BY <1>1, ElementOfSeq
    <2> QED BY <1>1, <2>2, SubSeqProperties
  <1> HIDE DEF a, b
  <1>4. /\ at \in Seq(C) /\ Len(at) = p + n
        /\ \A i \in 1..p + n : at[i] = IF i <= p THEN a[i] ELSE t[i - p]
    BY <1>1, <1>2, Joined
  <1> HIDE DEF at
  <1>5. /\ at \o b \in Seq(C) /\ Len(at \o b) = m + n
        /\ \A i \in 1..m + n : (at \o b)[i] = IF i <= p + n THEN at[i] ELSE b[i - (p + n)]
    <2> DEFINE k == p + n   l == m - p
    <2>1. k \in Nat /\ l \in Nat /\ k + l = m + n
      BY <1>1
    <2>2. at \in Seq(C) /\ Len(at) = k /\ b \in Seq(C) /\ Len(b) = l
      BY <1>3, <1>4
    <2> HIDE DEF k, l
    <2>3. /\ at \o b \in Seq(C) /\ Len(at \o b) = k + l
          /\ \A i \in 1..k + l : (at \o b)[i] = IF i <= k THEN at[i] ELSE b[i - k]
      BY <2>2, Joined, Zenon
    <2> QED BY <2>1, <2>3 DEF k
  <1>6. InsertAt(s, p, t) = at \o b
    BY DEF InsertAt, at, a, b
  <1>7. ASSUME NEW i \in 1..m + n
        PROVE  /\ i <= p => (at \o b)[i] = s[i]
               /\ p < i /\ i <= p + n => (at \o b)[i] = t[i - p]
               /\ p + n < i => (at \o b)[i] = s[i - n]
    <2>1. CASE i <= p
      BY <1>1, <1>2, <1>4, <1>5, <2>1
    <2>2. CASE p < i /\ i <= p + n
      BY <1>1, <1>4, <1>5, <2>2
    <2>3. CASE p + n < i
      <3>1. i - (p + n) \in 1..m - p /\ p + (i - (p + n)) = i - n /\ ~(i <= p + n) /\ ~(i <= p)
        BY <1>1, <2>3
      <3>2. (at \o b)[i] = b[i - (p + n)]
        BY <1>5, <3>1
      <3>3. b[i - (p + n)] = s[i - n]
        BY <1>3, <3>1
      <3> QED BY <3>1, <3>2, <3>3
    <2> QED BY <1>1, <2>1, <2>2, <2>3
  <1> QED BY <1>5, <1>6, <1>7 DEF Puts

\* An erasure of n characters behind p.
LEMMA Erased ==
  ASSUME NEW C, NEW s \in Seq(C), NEW p \in Nat, NEW n \in Nat, p + n <= Len(s)
  PROVE  EraseAt(s, p, n) \in Seq(C) /\ Cuts(EraseAt(s, p, n), s, Len(s), p, n)
  <1> DEFINE a == SubSeq(s, 1, p)   b == SubSeq(s, p + n + 1, Len(s))   m == Len(s)
  <1>1. m \in Nat /\ p <= m /\ p + n \in Nat
    BY LenProperties
  <1>2. /\ a \in Seq(C) /\ Len(a) = p /\ \A i \in 1..p : a[i] = s[i]
    <2>1. \A i \in 1..p : s[i] \in C
      BY <1>1, ElementOfSeq
    <2> QED BY <1>1, <2>1, SubSeqProperties
  <1>3. /\ b \in Seq(C) /\ Len(b) = m - (p + n) /\ \A i \in 1..m - (p + n) : b[i] = s[p + n + i]
    <2>1. \A i \in p + n + 1..m : s[i] \in C
      BY <1>1, ElementOfSeq
    <2> QED BY <1>1, <2>1, SubSeqProperties
  <1> HIDE DEF a, b
  <1>4. /\ a \o b \in Seq(C) /\ Len(a \o b) = m - n
        /\ \A i \in 1..m - n : (a \o b)[i] = IF i <= p THEN a[i] ELSE b[i - p]
    <2> DEFINE l == m - (p + n)
    <2>1. l \in Nat /\ p + l = m - n
      BY <1>1
    <2>2. a \in Seq(C) /\ Len(a) = p /\ b \in Seq(C) /\ Len(b) = l
      BY <1>2, <1>3
    <2> HIDE DEF l
    <2>3. /\ a \o b \in Seq(C) /\ Len(a \o b) = p + l
          /\ \A i \in 1..p + l : (a \o b)[i] = IF i <= p THEN a[i] ELSE b[i - p]
      BY <2>2, Joined, Zenon
    <2> QED BY <2>1, <2>3
  <1>5. ASSUME NEW i \in 1..m - n
        PROVE  /\ i <= p => (a \o b)[i] = s[i]
               /\ p < i => (a \o b)[i] = s[i + n]
    <2>1. CASE i <= p
      BY <1>1, <1>2, <1>4, <2>1
    <2>2. CASE p < i
      <3>1. i - p \in 1..m - (p + n) /\ p + n + (i - p) = i + n /\ ~(i <= p)
        BY <1>1, <2>2
      <3>2. (a \o b)[i] = b[i - p]
        BY <1>4, <3>1
      <3> QED BY <1>3, <3>1, <3>2
    <2> QED BY <1>1, <2>1, <2>2
  <1>6. EraseAt(s, p, n) = a \o b
    BY DEF EraseAt, a, b
  <1> QED BY <1>4, <1>5, <1>6 DEF Cuts

-----------------------------------------------------------------------------
(* Pairs of edits of one text s that do not touch commute, shifted.        *)

Alike(x, y) == Len(x) = Len(y) /\ \A i \in 1..Len(x) : x[i] = y[i]

LEMMA PutsCommute ==
  ASSUME NEW s, NEW t, NEW u, NEW a, NEW b, NEW x, NEW y,
         NEW l, NEW m, NEW n, NEW p, NEW q,
         Puts(a, s, l, p, t, m), Puts(x, a, l + m, q + m, u, n),
         Puts(b, s, l, q, u, n), Puts(y, b, l + n, p, t, m),
         l \in Nat, m \in Nat, n \in Nat, p \in Nat, q \in Nat,
         p < q, q <= l
  PROVE  Alike(x, y)
  <1>1. Len(x) = l + m + n /\ Len(y) = l + m + n
    BY DEF Puts
  <1>2. ASSUME NEW i \in 1..l + m + n PROVE x[i] = y[i]
    <2>1. CASE i <= p
      <3>1. x[i] = a[i] /\ a[i] = s[i]
        BY <2>1 DEF Puts
      <3>2. y[i] = b[i] /\ b[i] = s[i]
        BY <2>1 DEF Puts
      <3> QED BY <3>1, <3>2
    <2>2. CASE p < i /\ i <= p + m
      <3>1. x[i] = a[i] /\ a[i] = t[i - p]
        BY <2>2 DEF Puts
      <3>2. y[i] = t[i - p]
        BY <2>2 DEF Puts
      <3> QED BY <3>1, <3>2
    <2>3. CASE p + m < i /\ i <= q + m
      <3>1. x[i] = a[i] /\ a[i] = s[i - m]
        BY <2>3 DEF Puts
      <3>2. y[i] = b[i - m] /\ i - m \in 1..l + n /\ i - m <= q
        BY <2>3 DEF Puts
      <3>3. b[i - m] = s[i - m]
        BY <3>2 DEF Puts
      <3> QED BY <3>1, <3>2, <3>3
    <2>4. CASE q + m < i /\ i <= q + m + n
      <3>1. x[i] = u[i - (q + m)]
        BY <2>4 DEF Puts
      <3>2. y[i] = b[i - m] /\ i - m \in 1..l + n /\ q < i - m /\ i - m <= q + n
        BY <2>4 DEF Puts
      <3>3. b[i - m] = u[(i - m) - q]
        BY <3>2 DEF Puts
      <3>4. (i - m) - q = i - (q + m)
        BY <2>4
      <3> QED BY <3>1, <3>2, <3>3, <3>4
    <2>5. CASE q + m + n < i
      <3>1. x[i] = a[i - n] /\ i - n \in 1..l + m /\ p + m < i - n
        BY <2>5 DEF Puts
      <3>2. a[i - n] = s[(i - n) - m]
        BY <3>1 DEF Puts
      <3>3. y[i] = b[i - m] /\ i - m \in 1..l + n /\ q + n < i - m
        <4>1. i \in 1..(l + n) + m /\ p + m < i /\ i - m \in 1..l + n /\ q + n < i - m
          BY <2>5
        <4> QED BY <4>1 DEF Puts
      <3>4. b[i - m] = s[(i - m) - n]
        BY <3>3 DEF Puts
      <3>5. (i - n) - m = (i - m) - n
        BY <2>5
      <3> QED BY <3>1, <3>2, <3>3, <3>4, <3>5
    <2> QED BY <2>1, <2>2, <2>3, <2>4, <2>5
  <1> QED BY <1>1, <1>2 DEF Alike

LEMMA PutBeforeCut ==
  ASSUME NEW s, NEW t, NEW a, NEW b, NEW x, NEW y,
         NEW l, NEW m, NEW n, NEW p, NEW q,
         Puts(a, s, l, p, t, m), Cuts(x, a, l + m, q + m, n),
         Cuts(b, s, l, q, n), Puts(y, b, l - n, p, t, m),
         l \in Nat, m \in Nat, n \in Nat, p \in Nat, q \in Nat,
         p <= q, q + n <= l
  PROVE  Alike(x, y)
  <1>1. Len(x) = l + m - n /\ Len(y) = l + m - n
    BY DEF Puts, Cuts
  <1>2. ASSUME NEW i \in 1..l + m - n PROVE x[i] = y[i]
    <2>1. CASE i <= p
      <3>1. x[i] = a[i] /\ a[i] = s[i]
        BY <2>1 DEF Puts, Cuts
      <3>2. y[i] = b[i] /\ b[i] = s[i]
        BY <2>1 DEF Puts, Cuts
      <3> QED BY <3>1, <3>2
    <2>2. CASE p < i /\ i <= p + m
      <3>1. x[i] = a[i] /\ a[i] = t[i - p]
        BY <2>2 DEF Puts, Cuts
      <3>2. i \in 1..(l - n) + m
        OBVIOUS
      <3>3. y[i] = t[i - p]
        BY <2>2, <3>2 DEF Puts
      <3> QED BY <3>1, <3>3
    <2>3. CASE p + m < i /\ i <= q + m
      <3>1. x[i] = a[i]
        BY <2>3 DEF Cuts
      <3>2. a[i] = s[i - m]
        <4>1. i \in 1..l + m /\ p + m < i
          BY <2>3
        <4> QED BY <4>1 DEF Puts
      <3>3. y[i] = b[i - m] /\ i - m \in 1..l - n /\ i - m <= q
        BY <2>3 DEF Puts
      <3>4. b[i - m] = s[i - m]
        BY <3>3 DEF Cuts
      <3> QED BY <3>1, <3>2, <3>3, <3>4
    <2>4. CASE q + m < i
      <3>1. x[i] = a[i + n] /\ i + n \in 1..l + m /\ p + m < i + n
        <4>1. i + n \in 1..l + m /\ p + m < i + n /\ i \in 1..(l + m) - n
          BY <2>4
        <4> QED BY <2>4, <4>1 DEF Cuts
      <3>2. a[i + n] = s[(i + n) - m]
        BY <3>1 DEF Puts
      <3>3. y[i] = b[i - m] /\ i - m \in 1..l - n /\ q < i - m
        BY <2>4 DEF Puts
      <3>4. b[i - m] = s[(i - m) + n]
        BY <3>3 DEF Cuts
      <3> QED BY <3>1, <3>2, <3>3, <3>4
    <2> QED BY <2>1, <2>2, <2>3, <2>4
  <1> QED BY <1>1, <1>2 DEF Alike

LEMMA PutBehindCut ==
  ASSUME NEW s, NEW t, NEW a, NEW b, NEW x, NEW y,
         NEW l, NEW m, NEW n, NEW p, NEW q,
         Puts(a, s, l, p, t, m), Cuts(x, a, l + m, q, n),
         Cuts(b, s, l, q, n), Puts(y, b, l - n, p - n, t, m),
         l \in Nat, m \in Nat, n \in Nat, p \in Nat, q \in Nat,
         q + n <= p, p <= l
  PROVE  Alike(x, y)
  <1>1. Len(x) = l + m - n /\ Len(y) = l + m - n
    BY DEF Puts, Cuts
  <1>2. ASSUME NEW i \in 1..l + m - n PROVE x[i] = y[i]
    <2>1. CASE i <= q
      BY <2>1 DEF Puts, Cuts
    <2>2. CASE q < i /\ i <= p - n
      BY <2>2 DEF Puts, Cuts
    <2>3. CASE p - n < i /\ i <= p - n + m
      <3>1. x[i] = a[i + n] /\ i + n \in 1..l + m /\ p < i + n /\ i + n <= p + m
        BY <2>3 DEF Cuts
      <3>2. a[i + n] = t[(i + n) - p]
        BY <3>1 DEF Puts
      <3>3. y[i] = t[i - (p - n)]
        BY <2>3 DEF Puts
      <3> QED BY <3>1, <3>2, <3>3
    <2>4. CASE p - n + m < i
      <3>1. x[i] = a[i + n] /\ i + n \in 1..l + m /\ p + m < i + n
        <4>1. i \in 1..(l + m) - n /\ q < i /\ i + n \in 1..l + m /\ p + m < i + n
          BY <2>4
        <4> QED BY <4>1 DEF Cuts
      <3>2. a[i + n] = s[(i + n) - m]
        BY <3>1 DEF Puts
      <3>3. y[i] = b[i - m] /\ i - m \in 1..l - n /\ q < i - m
        <4>1. i \in 1..(l - n) + m /\ (p - n) + m < i /\ i - m \in 1..l - n /\ q < i - m
          BY <2>4
        <4> QED BY <4>1 DEF Puts
      <3>4. b[i - m] = s[(i - m) + n]
        BY <3>3 DEF Cuts
      <3>5. (i - m) + n = (i + n) - m
        BY <2>4
      <3> QED BY <3>1, <3>2, <3>3, <3>4, <3>5
    <2> QED BY <2>1, <2>2, <2>3, <2>4
  <1> QED BY <1>1, <1>2 DEF Alike

LEMMA CutsCommute ==
  ASSUME NEW s, NEW a, NEW b, NEW x, NEW y,
         NEW l, NEW m, NEW n, NEW p, NEW q,
         Cuts(a, s, l, p, m), Cuts(x, a, l - m, q - m, n),
         Cuts(b, s, l, q, n), Cuts(y, b, l - n, p, m),
         l \in Nat, m \in Nat, n \in Nat, p \in Nat, q \in Nat,
         p + m <= q, q + n <= l
  PROVE  Alike(x, y)
  <1>1. Len(x) = l - m - n /\ Len(y) = l - m - n
    BY DEF Cuts
  <1>2. ASSUME NEW i \in 1..l - m - n PROVE x[i] = y[i]
    <2>1. CASE i <= p
      BY <2>1 DEF Cuts
    <2>2. CASE p < i /\ i <= q - m
      BY <2>2 DEF Cuts
    <2>3. CASE q - m < i
      BY <2>3 DEF Cuts
    <2> QED BY <2>1, <2>2, <2>3
  <1> QED BY <1>1, <1>2 DEF Alike

\* Two ranges that meet: what is left of each is cut after the other.
LEMMA CutsMeet ==
  ASSUME NEW s, NEW a, NEW b, NEW x, NEW y,
         NEW l, NEW m, NEW n, NEW p, NEW q,
         Cuts(a, s, l, p, m), Cuts(x, a, l - m, p, (q + n) - (p + m)),
         Cuts(b, s, l, q, n), Cuts(y, b, l - n, p, q - p),
         l \in Nat, m \in Nat, n \in Nat, p \in Nat, q \in Nat,
         p <= q, q <= p + m, p + m <= q + n, q + n <= l
  PROVE  Alike(x, y)
  <1>1. Len(x) = l - (q + n) + p /\ Len(y) = l - (q + n) + p
    <2>1. Len(x) = (l - m) - ((q + n) - (p + m)) /\ Len(y) = (l - n) - (q - p)
      BY DEF Cuts
    <2> QED BY <2>1
  <1>2. ASSUME NEW i \in 1..l - (q + n) + p PROVE x[i] = y[i]
    <2>1. CASE i <= p
      BY <2>1 DEF Cuts
    <2>2. CASE p < i
      BY <2>2 DEF Cuts
    <2> QED BY <2>1, <2>2
  <1> QED BY <1>1, <1>2 DEF Alike

-----------------------------------------------------------------------------
(* Operations.                                                             *)

Operations ==
  [userId : User, type : OperationType, position : Nat, content : Seq(Character),
   version : Nat, timestamp : Nat]

\* Sums and differences that do not wrap.
LEMMA NoWrap ==
  /\ \A a, b \in Nat : a + b < WordMod => Plus(a, b) = a + b
  /\ \A a, b \in Nat : a < WordMod /\ b <= a => Minus(a, b) = a - b
  <1> USE WordModAssumption DEF Plus, Minus
  <1>1. \A c \in 0..WordMod - 1 : c % WordMod = c
    OBVIOUS
  <1> QED BY <1>1

\* An edit of user u about the base text, of n characters at p.
IsEdit(op, u, p, n) ==
  /\ op \in Operations /\ op.userId = u /\ op.version = 1 /\ op.timestamp \in Clock
  /\ op.type \in {"INSERT", "DELETE", "REPLACE"}
  /\ p \in Nat /\ n \in Nat /\ n > 0 /\ p <= Len(Base) /\ p + n < WordMod
  /\ op.position = p /\ Len(op.content) = n /\ EndOf(op) = p + n
  /\ op.type # "DELETE" => /\ n <= Len(Typed[u])
                           /\ \A i \in 1..n : op.content[i] = Typed[u][i]
  /\ op.type # "INSERT" => p + n <= Len(Base)
  /\ op.type = "DELETE" => \A i \in 1..n : op.content[i] = Base[p + i]

LEMMA EditFacts ==
  ASSUME NEW u \in User, NEW op \in Edits(u)
  PROVE  IsEdit(op, u, op.position, Len(op.content))
  <1> DEFINE l == Len(Base)   w == Typed[u]   k == Len(w)
  <1>1. /\ l \in Nat /\ k \in Nat /\ l + k < WordMod /\ w \in Seq(Character)
        /\ \A i \in 1..l : Base[i] \in Character
        /\ \A i \in 1..k : w[i] \in Character
    <2>1. l \in Nat /\ k \in Nat /\ w \in Seq(Character) /\ Base \in Seq(Character)
      BY EditsAssumption, LenProperties
    <2>2. \A i \in 1..l : Base[i] \in Character
      BY <2>1, ElementOfSeq
    <2>3. \A i \in 1..k : w[i] \in Character
      BY <2>1, ElementOfSeq
    <2>4. l + k < WordMod
      <3>1. l + k + k < WordMod
        BY EditsAssumption
      <3> QED BY <2>1, <3>1, WordModAssumption
    <2> QED BY <2>1, <2>2, <2>3, <2>4
  <1> HIDE DEF l, w, k
  <1>2. ASSUME NEW ty \in {"INSERT", "REPLACE"}, op \in Typing(u, ty)
        PROVE  /\ op \in Operations /\ op.userId = u /\ op.version = 1 /\ op.timestamp \in Clock
               /\ op.type = ty /\ op.position \in 0..l /\ op.content \in Seq(Character)
               /\ Len(op.content) \in 1..k /\ \A i \in 1..Len(op.content) : op.content[i] = w[i]
    <2>1. PICK p \in 0..l, n \in 1..k, ts \in Clock :
            op = Submit(u, ty, p, SubSeq(w, 1, n), ts)
      BY <1>2 DEF Typing, l, w, k
    <2>2. /\ SubSeq(w, 1, n) \in Seq(Character) /\ Len(SubSeq(w, 1, n)) = n
          /\ \A i \in 1..n : SubSeq(w, 1, n)[i] = w[i]
      <3>1. n \in Nat /\ 0 \in Nat /\ 0 <= n /\ n <= Len(w)
        BY <1>1 DEF k
      <3>2. /\ SubSeq(w, 0 + 1, n) \in Seq(Character) /\ Len(SubSeq(w, 0 + 1, n)) = n - 0
            /\ \A i \in 1..n - 0 : SubSeq(w, 0 + 1, n)[i] = w[0 + i]
        BY <1>1, <3>1, Part
      <3> QED BY <3>1, <3>2
    <2> QED BY <1>1, <2>1, <2>2, EditsAssumption DEF Submit, Operations, OperationType
  <1>3. ASSUME op \in Deletes(u)
        PROVE  /\ op \in Operations /\ op.userId = u /\ op.version = 1 /\ op.timestamp \in Clock
               /\ op.type = "DELETE" /\ op.position \in 0..l /\ Len(op.content) \in Nat
               /\ Len(op.content) > 0 /\ op.position + Len(op.content) <= l
               /\ \A i \in 1..Len(op.content) : op.content[i] = Base[op.position + i]
    <2>1. PICK r \in (0..l) \X (0..l), ts \in Clock :
            r[1] < r[2] /\ op = Submit(u, "DELETE", r[1], SubSeq(Base, r[1] + 1, r[2]), ts)
      BY <1>3 DEF Deletes, l
    <2> DEFINE i == r[1]   j == r[2]   t == SubSeq(Base, i + 1, j)
    <2>2. i \in Nat /\ j \in Nat /\ i < j /\ j <= l /\ i \in 0..l
      BY <1>1, <2>1
    <2>3. op = Submit(u, "DELETE", i, t, ts)
      BY <2>1
    <2> HIDE DEF i, j
    <2>4. t \in Seq(Character) /\ Len(t) = j - i /\ \A h \in 1..j - i : t[h] = Base[i + h]
      <3>1. i \in Nat /\ j \in Nat /\ i <= j /\ j <= Len(Base) /\ Base \in Seq(Character)
        BY <1>1, <2>2, EditsAssumption DEF l
      <3>2. /\ SubSeq(Base, i + 1, j) \in Seq(Character) /\ Len(SubSeq(Base, i + 1, j)) = j - i
            /\ \A h \in 1..j - i : SubSeq(Base, i + 1, j)[h] = Base[i + h]
        BY <3>1, Part
      <3> QED BY <3>2 DEF t
    <2> HIDE DEF t
    <2>5. /\ op \in Operations /\ op.userId = u /\ op.version = 1 /\ op.timestamp \in Clock
          /\ op.type = "DELETE" /\ op.position = i /\ op.content = t
      BY <2>2, <2>3, <2>4, EditsAssumption DEF Submit, Operations, OperationType
    <2>6. j - i \in Nat /\ j - i > 0 /\ i + (j - i) <= l
      BY <1>1, <2>2
    <2> QED BY <2>2, <2>4, <2>5, <2>6
  <1>4. \/ op \in Typing(u, "INSERT") \/ op \in Deletes(u)
        \/ op \in Typing(u, "REPLACE") /\ EndOf(op) <= l
    BY DEF Edits, l
  <1>5. ASSUME op.position \in Nat, Len(op.content) \in Nat, op.position <= l,
               Len(op.content) <= k \/ op.position + Len(op.content) <= l
        PROVE  op.position + Len(op.content) < WordMod /\ EndOf(op) = op.position + Len(op.content)
    <2> DEFINE p == op.position   n == Len(op.content)
    <2>1. p + n < WordMod
      <3> HIDE DEF p, n
      <3>1. p \in Nat /\ n \in Nat /\ p <= l /\ (n <= k \/ p + n <= l)
        BY <1>5 DEF p, n
      <3> QED BY <1>1, <3>1, WordModAssumption
    <2> QED BY <1>5, <2>1, NoWrap DEF EndOf
  <1>6. CASE op \in Typing(u, "INSERT")
    BY <1>1, <1>2, <1>5, <1>6 DEF IsEdit, l, w, k
  <1>7. CASE op \in Deletes(u)
    BY <1>1, <1>3, <1>5, <1>7 DEF IsEdit, l, w, k
  <1>8. CASE op \in Typing(u, "REPLACE") /\ EndOf(op) <= l
    BY <1>1, <1>2, <1>5, <1>8 DEF IsEdit, l, w, k
  <1> QED BY <1>4, <1>6, <1>7, <1>8

-----------------------------------------------------------------------------
(* What the transformation makes of an edit b, of n characters at q, for   *)
(* one who has made an edit a, of m characters at p.                       *)

Delivered(b, a) == [Transform(b, a) EXCEPT !.version = 2]

\* t is of type ty, at pos, of len characters.
Becomes(t, ty, pos, len) ==
  /\ t \in Operations /\ t.version = 2
  /\ t.type = ty /\ t.position = pos /\ Len(t.content) = len /\ EndOf(t) = pos + len

\* op with another type, place and content, at version 2.
Moved(op, ty, pos, c) ==
  [userId |-> op.userId, type |-> ty, position |-> pos, content |-> c,
   version |-> 2, timestamp |-> op.timestamp]

LEMMA MovedBecomes ==
  ASSUME NEW op \in Operations, NEW ty \in OperationType,
         NEW pos \in Nat, NEW c \in Seq(Character), pos + Len(c) < WordMod
  PROVE  Becomes(Moved(op, ty, pos, c), ty, pos, Len(c)) /\ Moved(op, ty, pos, c).content = c
  BY NoWrap, LenProperties DEF Becomes, Operations, EndOf, Moved

\* What the transformations make of an operation is of this form.
LEMMA Unmoved ==
  ASSUME NEW op \in Operations
  PROVE  [op EXCEPT !.version = 2] = Moved(op, op.type, op.position, op.content)
  BY DEF Operations, Moved

LEMMA MovedOnly ==
  ASSUME NEW op \in Operations, NEW pos \in Nat
  PROVE  /\ [op EXCEPT !.position = pos] \in Operations
         /\ [[op EXCEPT !.position = pos] EXCEPT !.version = 2]
              = Moved(op, op.type, pos, op.content)
  <1> DEFINE e == [op EXCEPT !.position = pos]
  <1>1. /\ e \in Operations /\ e.position = pos /\ e.userId = op.userId
        /\ e.type = op.type /\ e.content = op.content /\ e.timestamp = op.timestamp
    BY DEF Operations
  <1> HIDE DEF e
  <1>2. [e EXCEPT !.version = 2] = Moved(op, op.type, pos, op.content)
    BY <1>1, Unmoved DEF Moved
  <1> QED BY <1>1, <1>2 DEF e

LEMMA Shortened ==
  ASSUME NEW op \in Operations, NEW c \in Seq(Character)
  PROVE  [[op EXCEPT !.content = c] EXCEPT !.version = 2] = Moved(op, op.type, op.position, c)
  <1> DEFINE e == [op EXCEPT !.content = c]
  <1>1. /\ e \in Operations /\ e.position = op.position /\ e.userId = op.userId
        /\ e.type = op.type /\ e.content = c /\ e.timestamp = op.timestamp
    BY DEF Operations
  <1> HIDE DEF e
  <1>2. [e EXCEPT !.version = 2] = Moved(op, op.type, op.position, c)
    BY <1>1, Unmoved DEF Moved
  <1> QED BY <1>2 DEF e

LEMMA ShortenedAndMoved ==
  ASSUME NEW op \in Operations, NEW pos \in Nat, NEW c \in Seq(Character)
  PROVE  [[[op EXCEPT !.content = c] EXCEPT !.position = pos] EXCEPT !.version = 2]
           = Moved(op, op.type, pos, c)
  <1> DEFINE e == [op EXCEPT !.content = c]
  <1>1. /\ e \in Operations /\ e.userId = op.userId
        /\ e.type = op.type /\ e.content = c /\ e.timestamp = op.timestamp
    BY DEF Operations
  <1> HIDE DEF e
  <1>2. [[e EXCEPT !.position = pos] EXCEPT !.version = 2] = Moved(op, op.type, pos, c)
    BY <1>1, MovedOnly DEF Moved
  <1> QED BY <1>2 DEF e

LEMMA Retained ==
  ASSUME NEW op \in Operations, NEW c \in Seq(Character)
  PROVE  [[op EXCEPT !.type = "RETAIN", !.content = c] EXCEPT !.version = 2]
           = Moved(op, "RETAIN", op.position, c)
  <1> DEFINE e == [op EXCEPT !.type = "RETAIN", !.content = c]
  <1>1. /\ e \in Operations /\ e.position = op.position /\ e.userId = op.userId
        /\ e.type = "RETAIN" /\ e.content = c /\ e.timestamp = op.timestamp
    BY DEF Operations, OperationType
  <1> HIDE DEF e
  <1>2. [e EXCEPT !.version = 2] = Moved(op, "RETAIN", op.position, c)
    BY <1>1, Unmoved DEF Moved
  <1> QED BY <1>2 DEF e

\* The numbers of two edits.
LEMMA TwoEdits ==
  ASSUME NEW u \in User, NEW v \in User, u # v, NEW a, NEW b,
         NEW p, NEW q, NEW m, NEW n, IsEdit(a, u, p, m), IsEdit(b, v, q, n)
  PROVE  /\ p \in Nat /\ q \in Nat /\ m \in Nat /\ n \in Nat /\ m > 0 /\ n > 0
         /\ Len(Base) \in Nat /\ p <= Len(Base) /\ q <= Len(Base)
         /\ a.type # "INSERT" => p + m <= Len(Base)
         /\ b.type # "INSERT" => q + n <= Len(Base)
         /\ q + n < WordMod /\ WordMod \in Nat /\ q < WordMod
         /\ a.type = "INSERT" => (q + m) + n < WordMod
         /\ b.type = "INSERT" => p + n < WordMod
         /\ a.userId # b.userId
         /\ a \in Operations /\ a.position = p /\ Len(a.content) = m /\ EndOf(a) = p + m
         /\ b \in Operations /\ b.position = q /\ Len(b.content) = n /\ EndOf(b) = q + n
         /\ a.type \in {"INSERT", "DELETE", "REPLACE"}
         /\ b.type \in {"INSERT", "DELETE", "REPLACE"} /\ b.content \in Seq(Character)
  <1> DEFINE l == Len(Base)   j == Len(Typed[u])   k == Len(Typed[v])
  <1>1. /\ p \in Nat /\ q \in Nat /\ m \in Nat /\ n \in Nat /\ m > 0 /\ n > 0
        /\ p <= l /\ q <= l
        /\ a.type # "INSERT" => p + m <= l
        /\ b.type # "INSERT" => q + n <= l
        /\ a.type # "DELETE" => m <= j
        /\ b.type # "DELETE" => n <= k
    BY DEF IsEdit
  <1>2. l \in Nat /\ j \in Nat /\ k \in Nat /\ l + j + k < WordMod
    BY EditsAssumption, LenProperties
  <1>3. /\ a.userId # b.userId
        /\ a \in Operations /\ a.position = p /\ Len(a.content) = m /\ EndOf(a) = p + m
        /\ b \in Operations /\ b.position = q /\ Len(b.content) = n /\ EndOf(b) = q + n
        /\ a.type \in {"INSERT", "DELETE", "REPLACE"}
        /\ b.type \in {"INSERT", "DELETE", "REPLACE"} /\ b.content \in Seq(Character)
    BY DEF IsEdit, Operations
  <1>4. m <= l \/ m <= j
    BY <1>1, <1>2
  <1>5. n <= l \/ n <= k
    BY <1>1, <1>2
  <1>6. q + n <= l \/ n <= k
    BY <1>1, <1>2
  <1>7. p + m <= l \/ m <= j
    BY <1>1
  <1> HIDE DEF l, j, k
  <1>8. /\ q + n < WordMod /\ WordMod \in Nat /\ q < WordMod
        /\ m <= j => (q + m) + n < WordMod
        /\ n <= k => p + n < WordMod
    BY <1>1, <1>2, <1>4, <1>5, <1>6, <1>7, WordModAssumption
  <1> QED BY <1>1, <1>2, <1>3, <1>8 DEF l

LEMMA DeliveredInsert ==
  ASSUME NEW u \in User, NEW v \in User, u # v, NEW a, NEW b,
         NEW p, NEW q, NEW m, NEW n, IsEdit(a, u, p, m), IsEdit(b, v, q, n),
         b.type = "INSERT"
  PROVE  /\ Delivered(b, a).content = b.content
         /\ Becomes(Delivered(b, a), "INSERT",
                    IF q <= p THEN q
                    ELSE IF a.type = "INSERT" THEN q + m
                    ELSE IF q < p + m THEN p ELSE q - m, n)
  <1> DEFINE pos == IF q <= p THEN q
                    ELSE IF a.type = "INSERT" THEN q + m
                    ELSE IF q < p + m THEN p ELSE q - m
  <1>1. /\ p \in Nat /\ q \in Nat /\ m \in Nat /\ n \in Nat /\ b.content \in Seq(Character)
        /\ b.userId # a.userId /\ b \in Operations /\ Len(b.content) = n /\ Len(a.content) = m
        /\ a.position = p /\ b.position = q /\ EndOf(a) = p + m /\ a \in Operations
        /\ a.type \in {"INSERT", "DELETE", "REPLACE"}
        /\ q + n < WordMod /\ WordMod \in Nat /\ q < WordMod
        /\ a.type = "INSERT" => (q + m) + n < WordMod
        /\ p + n < WordMod
    BY TwoEdits
  <1>2. /\ pos \in Nat /\ pos + n < WordMod
        /\ a.type = "INSERT" => Plus(q, m) = q + m
        /\ m <= q => Minus(q, m) = q - m
    <2>1. a.type = "INSERT" => q + m < WordMod
      BY <1>1
    <2>2. ~(q < p + m) => q - m \in Nat /\ q - m <= q
      BY <1>1
    <2>3. pos \in Nat /\ pos + n < WordMod
      BY <1>1, <2>1, <2>2
    <2> QED BY <1>1, <2>1, <2>3, NoWrap
  <1>3. Delivered(b, a) = Moved(b, "INSERT", pos, b.content)
    <2>1. CASE a.type = "INSERT"
      <3>1. Transform(b, a) = TransformInsertInsert(b, a)
        BY <1>1, <2>1 DEF Transform
      <3>2. Transform(b, a) = [b EXCEPT !.position = pos]
        BY <1>1, <1>2, <2>1, <3>1 DEF TransformInsertInsert, ShiftRight, Operations
      <3> HIDE DEF pos
      <3> QED BY <1>1, <1>2, <3>2, MovedOnly DEF Delivered
    <2>2. CASE a.type # "INSERT"
      <3> DEFINE r == AsDelete(a)
      <3>1. r.position = p /\ Len(r.content) = m /\ EndOf(r) = p + m
        BY <1>1 DEF AsDelete, Operations, EndOf
      <3> HIDE DEF r
      <3>2. \/ Transform(b, a) = TransformInsertDelete(b, a)
            \/ Transform(b, a) = TransformInsertDelete(b, r)
        BY <1>1, <2>2 DEF Transform, TransformInsertReplace, r
      <3>3. ~(q < p + m) => m <= q
        BY <1>1
      <3>4. Transform(b, a) = [b EXCEPT !.position = pos]
        BY <1>1, <1>2, <2>2, <3>1, <3>2, <3>3
           DEF TransformInsertDelete, ShiftLeft, Operations
      <3> HIDE DEF pos
      <3> QED BY <1>1, <1>2, <3>4, MovedOnly DEF Delivered
    <2> QED BY <2>1, <2>2
  <1> HIDE DEF pos
  <1>4. Becomes(Moved(b, "INSERT", pos, b.content), "INSERT", pos, n)
    BY <1>1, <1>2, MovedBecomes DEF OperationType
  <1> QED BY <1>3, <1>4 DEF pos, Moved

\* The first k characters of an operation, and those behind them.
LEMMA TakeDrop ==
  ASSUME NEW op \in Operations, NEW n, n = Len(op.content), NEW k \in 0..n
  PROVE  /\ \E c \in Seq(Character) : Len(c) = k /\ Take(op, k) = [op EXCEPT !.content = c]
         /\ \E c \in Seq(Character) : Len(c) = n - k /\ Drop(op, k) = [op EXCEPT !.content = c]
  <1>1. op.content \in Seq(Character) /\ n \in Nat /\ k \in Nat /\ k <= n
    BY LenProperties DEF Operations
  <1>2. SubSeq(op.content, 1, k) \in Seq(Character) /\ Len(SubSeq(op.content, 1, k)) = k
    <2>1. /\ SubSeq(op.content, 0 + 1, k) \in Seq(Character)
          /\ Len(SubSeq(op.content, 0 + 1, k)) = k - 0
      BY <1>1, Part
    <2> QED BY <1>1, <2>1
  <1>3. SubSeq(op.content, k + 1, n) \in Seq(Character) /\ Len(SubSeq(op.content, k + 1, n)) = n - k
    BY <1>1, Part
  <1>4. Take(op, k) = [op EXCEPT !.content = SubSeq(op.content, 1, k)]
    BY DEF Take
  <1>5. Drop(op, k) = [op EXCEPT !.content = SubSeq(op.content, k + 1, n)]
    BY DEF Drop
  <1> QED BY <1>2, <1>3, <1>4, <1>5

LEMMA DeliveredDelete ==
  ASSUME NEW u \in User, NEW v \in User, u # v, NEW a, NEW b,
         NEW p, NEW q, NEW m, NEW n, IsEdit(a, u, p, m), IsEdit(b, v, q, n),
         b.type = "DELETE"
  PROVE  /\ q + n <= p => Becomes(Delivered(b, a), "DELETE", q, n)
         /\ a.type = "INSERT" =>
              /\ p <= q => Becomes(Delivered(b, a), "DELETE", q + m, n)
              /\ q < p /\ p < q + n => Becomes(Delivered(b, a), "DELETE", q, p - q)
         /\ a.type # "INSERT" =>
              /\ p + m <= q => Becomes(Delivered(b, a), "DELETE", q - m, n)
              /\ q < p /\ p < q + n => Becomes(Delivered(b, a), "DELETE", q, p - q)
              /\ p <= q /\ q < p + m =>
                   IF q + n <= p + m THEN Becomes(Delivered(b, a), "RETAIN", q, 0)
                   ELSE Becomes(Delivered(b, a), "DELETE", p, (q + n) - (p + m))
  <1> DEFINE l == Len(Base)
  <1>1. /\ p \in Nat /\ q \in Nat /\ m \in Nat /\ n \in Nat /\ m > 0 /\ n > 0
        /\ b.userId # a.userId /\ b \in Operations /\ Len(b.content) = n /\ Len(a.content) = m
        /\ a.position = p /\ b.position = q /\ EndOf(a) = p + m /\ EndOf(b) = q + n
        /\ a \in Operations /\ a.type \in {"INSERT", "DELETE", "REPLACE"}
        /\ l \in Nat /\ q + n <= l /\ p <= l /\ (a.type # "INSERT" => p + m <= l)
        /\ l < WordMod /\ WordMod \in Nat
        /\ a.type = "INSERT" => (q + m) + n < WordMod
    <2>1. Len(Base) < WordMod
      BY EditsAssumption, LenProperties, WordModAssumption
    <2> QED BY <2>1, TwoEdits
  <1> HIDE DEF l
  <1>2. /\ \A pos \in Nat : pos + n < WordMod =>
             Becomes(Moved(b, "DELETE", pos, b.content), "DELETE", pos, n)
        /\ \A pos \in Nat, c \in Seq(Character) : pos + Len(c) < WordMod =>
             /\ Becomes(Moved(b, "DELETE", pos, c), "DELETE", pos, Len(c))
             /\ Becomes(Moved(b, "RETAIN", pos, c), "RETAIN", pos, Len(c))
    BY <1>1, MovedBecomes DEF OperationType, Operations
  <1>3. CASE q + n <= p
    <2>1. Transform(b, a) = b
      BY <1>1, <1>3
         DEF Transform, TransformDeleteInsert, TransformDeleteDelete, TransformDeleteReplace,
             Before, AsDelete, Operations
    <2>2. Delivered(b, a) = Moved(b, "DELETE", q, b.content)
      BY <1>1, <2>1, Unmoved DEF Delivered
    <2> QED BY <1>1, <1>2, <1>3, <2>2
  <1>4. ASSUME a.type = "INSERT", p <= q PROVE Becomes(Delivered(b, a), "DELETE", q + m, n)
    <2>1. Plus(q, m) = q + m
      BY <1>1, <1>4, NoWrap
    <2>2. Transform(b, a) = [b EXCEPT !.position = q + m]
      BY <1>1, <1>4, <2>1 DEF Transform, TransformDeleteInsert, Before, ShiftRight
    <2>3. Delivered(b, a) = Moved(b, "DELETE", q + m, b.content)
      <3>1. q + m \in Nat
        BY <1>1
      <3>2. [[b EXCEPT !.position = q + m] EXCEPT !.version = 2]
              = Moved(b, b.type, q + m, b.content)
        BY <1>1, <3>1, MovedOnly
      <3> QED BY <2>2, <3>2 DEF Delivered
    <2> QED BY <1>1, <1>2, <1>4, <2>3
  \* A REPLACE counts as a DELETE.
  <1>5. ASSUME a.type # "INSERT"
        PROVE  \E r : /\ Transform(b, a) = TransformDeleteDelete(b, r)
                      /\ r.position = p /\ Len(r.content) = m /\ EndOf(r) = p + m
    <2> DEFINE r == AsDelete(a)
    <2>1. r.position = p /\ Len(r.content) = m /\ EndOf(r) = p + m
      BY <1>1 DEF AsDelete, Operations, EndOf
    <2> HIDE DEF r
    <2>2. \/ Transform(b, a) = TransformDeleteDelete(b, a)
          \/ Transform(b, a) = TransformDeleteDelete(b, r)
      BY <1>1, <1>5 DEF Transform, TransformDeleteReplace, r
    <2> QED BY <1>1, <2>1, <2>2
  <1>6. ASSUME q < p, p < q + n PROVE Becomes(Delivered(b, a), "DELETE", q, p - q)
    <2>1. Transform(b, a) = Take(b, p - q)
      <3>1. CASE a.type = "INSERT"
        <4>1. a.content # <<>>
          BY <1>1
        <4> QED BY <1>1, <1>6, <3>1, <4>1 DEF Transform, TransformDeleteInsert, Before
      <3>2. CASE a.type # "INSERT"
        <4>1. PICK r : /\ Transform(b, a) = TransformDeleteDelete(b, r)
                       /\ r.position = p /\ Len(r.content) = m /\ EndOf(r) = p + m
          BY <1>5, <3>2
        <4> QED BY <1>1, <1>6, <4>1 DEF TransformDeleteDelete, Before
      <3> QED BY <3>1, <3>2
    <2>2. p - q \in 0..n
      BY <1>1, <1>6
    <2>3. PICK c \in Seq(Character) : Len(c) = p - q /\ Take(b, p - q) = [b EXCEPT !.content = c]
      <3> DEFINE k == p - q
      <3> HIDE DEF k
      <3>1. PICK c \in Seq(Character) : Len(c) = k /\ Take(b, k) = [b EXCEPT !.content = c]
        <4>1. b \in Operations /\ n = Len(b.content) /\ k \in 0..n
          BY <1>1, <2>2 DEF k
        <4>2. \E c \in Seq(Character) : Len(c) = k /\ Take(b, k) = [b EXCEPT !.content = c]
          BY <4>1, TakeDrop
        <4> QED BY <4>2
      <3> QED BY <3>1, Zenon DEF k
    <2>4. Delivered(b, a) = Moved(b, "DELETE", q, c)
      <3>1. [[b EXCEPT !.content = c] EXCEPT !.version = 2] = Moved(b, b.type, b.position, c)
        BY <1>1, Shortened
      <3>2. Delivered(b, a) = [[b EXCEPT !.content = c] EXCEPT !.version = 2]
        BY <2>1, <2>3, Zenon DEF Delivered
      <3> QED BY <1>1, <3>1, <3>2, Zenon
    <2>5. q + (p - q) < WordMod
      BY <1>1
    <2> QED BY <1>1, <1>2, <2>3, <2>4, <2>5
  <1>7. ASSUME a.type # "INSERT", p + m <= q PROVE Becomes(Delivered(b, a), "DELETE", q - m, n)
    <2>1. PICK r : /\ Transform(b, a) = TransformDeleteDelete(b, r)
                   /\ r.position = p /\ Len(r.content) = m /\ EndOf(r) = p + m
      BY <1>5, <1>7
    <2>2. Minus(q, m) = q - m /\ q - m \in Nat /\ (q - m) + n < WordMod
      BY <1>1, <1>7, NoWrap
    <2>3. Transform(b, a) = [b EXCEPT !.position = q - m]
      BY <1>1, <1>7, <2>1, <2>2 DEF TransformDeleteDelete, Before, ShiftLeft
    <2>4. Delivered(b, a) = Moved(b, "DELETE", q - m, b.content)
      BY <1>1, <2>2, <2>3, MovedOnly DEF Delivered
    <2> QED BY <1>2, <2>2, <2>4
  <1>8. ASSUME a.type # "INSERT", p <= q, q < p + m
        PROVE  IF q + n <= p + m THEN Becomes(Delivered(b, a), "RETAIN", q, 0)
               ELSE Becomes(Delivered(b, a), "DELETE", p, (q + n) - (p + m))
    <2>1. PICK r : /\ Transform(b, a) = TransformDeleteDelete(b, r)
                   /\ r.position = p /\ Len(r.content) = m /\ EndOf(r) = p + m
      BY <1>5, <1>8
    <2>2. CASE q + n <= p + m
      <3>1. Transform(b, a) = [b EXCEPT !.type = "RETAIN", !.content = <<>>]
        BY <1>1, <1>8, <2>1, <2>2 DEF TransformDeleteDelete, Before
      <3>2. <<>> \in Seq(Character) /\ Len(<<>>) = 0
        OBVIOUS
      <3>3. Delivered(b, a) = Moved(b, "RETAIN", q, <<>>)
        <4>1. [[b EXCEPT !.type = "RETAIN", !.content = <<>>] EXCEPT !.version = 2]
                = Moved(b, "RETAIN", b.position, <<>>)
          BY <1>1, <3>2, Retained
        <4>2. Delivered(b, a) = [[b EXCEPT !.type = "RETAIN", !.content = <<>>] EXCEPT !.version = 2]
          BY <3>1, Zenon DEF Delivered
        <4> QED BY <1>1, <4>1, <4>2, Zenon
      <3>4. q + 0 < WordMod
        BY <1>1
      <3>5. Becomes(Moved(b, "RETAIN", q, <<>>), "RETAIN", q, 0)
        BY <1>1, <1>2, <3>2, <3>4
      <3> QED BY <2>2, <3>3, <3>5
    <2>3. CASE ~(q + n <= p + m)
      <3> DEFINE k == (p + m) - q
      <3>1. k \in 0..n /\ n - k = (q + n) - (p + m)
        BY <1>1, <1>8, <2>3
      <3>2. Transform(b, a) = [Drop(b, k) EXCEPT !.position = p]
        BY <1>1, <1>8, <2>1, <2>3 DEF TransformDeleteDelete, Before
      <3> HIDE DEF k
      <3>3. PICK c \in Seq(Character) : Len(c) = n - k /\ Drop(b, k) = [b EXCEPT !.content = c]
        BY <1>1, <3>1, TakeDrop
      <3>4. Delivered(b, a) = Moved(b, "DELETE", p, c)
        <4>1. [[[b EXCEPT !.content = c] EXCEPT !.position = p] EXCEPT !.version = 2]
                = Moved(b, b.type, p, c)
          <5>1. b \in Operations /\ p \in Nat
            BY <1>1
          <5> QED BY <5>1, ShortenedAndMoved, Zenon
        <4>2. Delivered(b, a)
                = [[[b EXCEPT !.content = c] EXCEPT !.position = p] EXCEPT !.version = 2]
          BY <3>2, <3>3, Zenon DEF Delivered
        <4> QED BY <4>1, <4>2, Zenon
      <3>5. p + Len(c) < WordMod
        <4>1. Len(c) = (q + n) - (p + m)
          BY <3>1, <3>3
        <4> QED BY <1>1, <4>1
      <3>6. Becomes(Moved(b, "DELETE", p, c), "DELETE", p, Len(c))
        BY <1>1, <1>2, <3>5
      <3> QED BY <2>3, <3>1, <3>3, <3>4, <3>6
    <2> QED BY <2>2, <2>3
  <1> QED BY <1>3, <1>4, <1>6, <1>7, <1>8

LEMMA DeliveredReplace ==
  ASSUME NEW u \in User, NEW v \in User, u # v, NEW a, NEW b,
         NEW p, NEW q, NEW m, NEW n, IsEdit(a, u, p, m), IsEdit(b, v, q, n),
         b.type = "REPLACE"
  PROVE  Becomes(Delivered(b, a), "REPLACE",
                 IF a.type = "INSERT" /\ p <= q THEN q + m
                 ELSE IF a.type = "DELETE" /\ p + m <= q THEN q - m ELSE q, n)
  <1> DEFINE pos == IF a.type = "INSERT" /\ p <= q THEN q + m
                    ELSE IF a.type = "DELETE" /\ p + m <= q THEN q - m ELSE q
  <1>1. /\ p \in Nat /\ q \in Nat /\ m \in Nat /\ n \in Nat /\ n > 0 /\ b.content \in Seq(Character)
        /\ b.userId # a.userId /\ b \in Operations /\ Len(b.content) = n /\ Len(a.content) = m
        /\ a.position = p /\ b.position = q /\ EndOf(a) = p + m /\ EndOf(b) = q + n
        /\ a.type \in {"INSERT", "DELETE", "REPLACE"}
        /\ q + n < WordMod /\ WordMod \in Nat /\ q < WordMod
        /\ a.type = "INSERT" => (q + m) + n < WordMod
    BY TwoEdits
  <1>2. /\ pos \in Nat /\ pos + n < WordMod
        /\ a.type = "INSERT" => Plus(q, m) = q + m
        /\ m <= q => Minus(q, m) = q - m
    <2>1. a.type = "INSERT" => q + m < WordMod
      BY <1>1
    <2>2. p + m <= q => m <= q /\ q - m \in Nat /\ q - m <= q
      BY <1>1
    <2>3. pos \in Nat /\ pos + n < WordMod
      BY <1>1, <2>1, <2>2
    <2> QED BY <1>1, <2>1, <2>3, NoWrap
  <1>3. (Transform(b, a) = b /\ pos = q) \/ Transform(b, a) = [b EXCEPT !.position = pos]
    <2>1. CASE a.type = "INSERT"
      <3>1. Transform(b, a) = TransformReplaceInsert(b, a)
        BY <1>1, <2>1 DEF Transform
      <3> QED BY <1>1, <1>2, <2>1, <3>1 DEF TransformReplaceInsert, ShiftRight, Before
    <2>2. CASE a.type = "DELETE"
      <3>1. Transform(b, a) = TransformReplaceDelete(b, a)
        BY <1>1, <2>2 DEF Transform
      <3>2. p + m <= q => m <= q /\ ~(q + n <= p)
        BY <1>1
      <3>3. CASE p + m <= q
        <4>1. Transform(b, a) = [b EXCEPT !.position = q - m]
          BY <1>1, <1>2, <3>1, <3>2, <3>3 DEF TransformReplaceDelete, ShiftLeft, Before
        <4> QED BY <2>2, <3>3, <4>1
      <3>4. CASE ~(p + m <= q)
        <4>1. Transform(b, a) = b
          BY <1>1, <3>1, <3>4 DEF TransformReplaceDelete, Before
        <4> QED BY <2>2, <3>4, <4>1
      <3> QED BY <3>3, <3>4
    <2>3. CASE a.type = "REPLACE"
      BY <1>1, <2>3 DEF Transform
    <2> QED BY <1>1, <2>1, <2>2, <2>3
  <1> HIDE DEF pos
  <1>4. Delivered(b, a) = Moved(b, "REPLACE", pos, b.content)
    BY <1>1, <1>2, <1>3, Unmoved, MovedOnly DEF Delivered
  <1>5. Becomes(Moved(b, "REPLACE", pos, b.content), "REPLACE", pos, n)
    BY <1>1, <1>2, MovedBecomes DEF OperationType
  <1> QED BY <1>4, <1>5 DEF pos

-----------------------------------------------------------------------------
(* What one who has made edit a has after receiving edit b.                *)

Outcome(a, b) == ResultOf(Edited(Base, a), 1, Delivered(b, a))

Merge(a, b) ==
  IF Outcome(a, b) = "SUCCESS" THEN Edited(Edited(Base, a), Delivered(b, a)) ELSE Edited(Base, a)

LEMMA ReplacedLen ==
  ASSUME NEW C, NEW s \in Seq(C), NEW t \in Seq(C), NEW p \in Nat, p + Len(t) <= Len(s)
  PROVE  ReplaceAt(s, p, t) \in Seq(C) /\ Len(ReplaceAt(s, p, t)) = Len(s)
  <1> DEFINE a == SubSeq(s, 1, p)   b == SubSeq(s, p + Len(t) + 1, Len(s))
  <1>1. p + Len(t) \in Nat /\ Len(t) \in Nat /\ Len(s) \in Nat /\ 0 <= p /\ p <= Len(s)
    BY LenProperties
  <1>2. SubSeq(s, 0 + 1, p) \in Seq(C) /\ Len(SubSeq(s, 0 + 1, p)) = p - 0
    BY <1>1, Part
  <1>3. a \in Seq(C) /\ Len(a) = p
    BY <1>1, <1>2
  <1>4. b \in Seq(C) /\ Len(b) = Len(s) - (p + Len(t))
    BY <1>1, Part
  <1> HIDE DEF a, b
  <1>5. a \o t \in Seq(C) /\ Len(a \o t) = p + Len(t)
    BY <1>3, Joined
  <1> DEFINE at == a \o t
  <1>6. at \in Seq(C) /\ Len(at) = p + Len(t)
    BY <1>5
  <1> HIDE DEF at
  <1>7. at \o b \in Seq(C) /\ Len(at \o b) = Len(at) + Len(b)
    <2>1. at \in Seq(C) /\ b \in Seq(C)
      BY <1>4, <1>6
    <2> QED BY <2>1, ConcatProperties, Zenon
  <1>8. Len(at \o b) = Len(s)
    <2> DEFINE k == p + Len(t)   l == Len(s)
    <2>1. k \in Nat /\ l \in Nat /\ Len(at) = k /\ Len(b) = l - k
      BY <1>1, <1>4, <1>6
    <2> HIDE DEF k, l
    <2>2. Len(at) + Len(b) = l
      BY <2>1
    <2> QED BY <1>7, <2>2 DEF l
  <1> QED BY <1>7, <1>8 DEF ReplaceAt, at, a, b

\* What an operation that fits does to a text at version 1.
LEMMA Fits ==
  ASSUME NEW s \in Seq(Character), NEW t, NEW pos \in Nat, NEW n \in Nat,
         NEW ty \in OperationType, Becomes(t, ty, pos, n),
         ty # "INSERT" => pos + n <= Len(s), pos <= Len(s)
  PROVE  /\ ResultOf(s, 1, t) = "SUCCESS" /\ Edited(s, t) \in Seq(Character)
         /\ ty = "INSERT" => Puts(Edited(s, t), s, Len(s), pos, t.content, n)
         /\ ty = "DELETE" => Cuts(Edited(s, t), s, Len(s), pos, n)
  <1>1. /\ t.content \in Seq(Character) /\ Len(t.content) = n /\ t.type = ty /\ t.position = pos
        /\ EndOf(t) = pos + n /\ t.version = 2 /\ Len(s) \in Nat /\ pos \in 0..Len(s)
    BY LenProperties DEF Becomes, Operations
  <1>2. ResultOf(s, 1, t) = "SUCCESS"
    BY <1>1 DEF ResultOf, ValidPosition, Executes, OperationType
  <1>3. CASE ty = "INSERT"
    BY <1>1, <1>2, <1>3, Inserted DEF Edited
  <1>4. CASE ty = "DELETE"
    BY <1>1, <1>2, <1>4, Erased DEF Edited
  <1>5. CASE ty = "REPLACE"
    BY <1>1, <1>2, <1>5, ReplacedLen DEF Edited
  <1>6. CASE ty = "RETAIN"
    BY <1>1, <1>2, <1>6 DEF Edited
  <1> QED BY <1>3, <1>4, <1>5, <1>6 DEF OperationType

\* What an edit makes of the base text.
LEMMA EditedBase ==
  ASSUME NEW u \in User, NEW a, NEW p, NEW m, IsEdit(a, u, p, m)
  PROVE  /\ Edited(Base, a) \in Seq(Character) /\ Len(Base) \in Nat /\ a.content \in Seq(Character)
         /\ Len(Edited(Base, a)) = (CASE a.type = "INSERT" -> Len(Base) + m
                                     [] a.type = "DELETE" -> Len(Base) - m
                                     [] a.type = "REPLACE" -> Len(Base))
         /\ a.type = "INSERT" => Puts(Edited(Base, a), Base, Len(Base), p, a.content, m)
         /\ a.type = "DELETE" => Cuts(Edited(Base, a), Base, Len(Base), p, m)
  <1>1. /\ a.content \in Seq(Character) /\ Len(a.content) = m /\ a.position = p
        /\ p \in Nat /\ m \in Nat /\ p <= Len(Base) /\ (a.type # "INSERT" => p + m <= Len(Base))
        /\ Base \in Seq(Character) /\ Len(Base) \in Nat /\ p \in 0..Len(Base)
        /\ a.type \in {"INSERT", "DELETE", "REPLACE"}
    BY EditsAssumption, LenProperties DEF IsEdit, Operations
  <1>2. CASE a.type = "INSERT"
    <2>1. /\ Edited(Base, a) \in Seq(Character)
          /\ Puts(Edited(Base, a), Base, Len(Base), p, a.content, m)
      BY <1>1, <1>2, Inserted DEF Edited
    <2> QED BY <1>1, <1>2, <2>1 DEF Puts
  <1>3. CASE a.type = "DELETE"
    <2>1. /\ Edited(Base, a) \in Seq(Character)
          /\ Cuts(Edited(Base, a), Base, Len(Base), p, m)
      BY <1>1, <1>3, Erased DEF Edited
    <2> QED BY <1>1, <1>3, <2>1 DEF Cuts
  <1>4. CASE a.type = "REPLACE"
    BY <1>1, <1>4, ReplacedLen DEF Edited
  <1> QED BY <1>1, <1>2, <1>3, <1>4

\* What is delivered and fits is applied.
LEMMA Applied ==
  ASSUME NEW a, NEW b, NEW s \in Seq(Character), s = Edited(Base, a),
         NEW pos \in Nat, NEW n \in Nat, NEW ty \in OperationType,
         Becomes(Delivered(b, a), ty, pos, n),
         ty # "INSERT" => pos + n <= Len(s), pos <= Len(s)
  PROVE  /\ Outcome(a, b) = "SUCCESS" /\ Merge(a, b) \in Seq(Character)
         /\ ty = "INSERT" => Puts(Merge(a, b), s, Len(s), pos, Delivered(b, a).content, n)
         /\ ty = "DELETE" => Cuts(Merge(a, b), s, Len(s), pos, n)
  <1> DEFINE t == Delivered(b, a)
  <1>1. Becomes(t, ty, pos, n)
    OBVIOUS
  <1> HIDE DEF t
  <1>2. /\ ResultOf(s, 1, t) = "SUCCESS" /\ Edited(s, t) \in Seq(Character)
        /\ ty = "INSERT" => Puts(Edited(s, t), s, Len(s), pos, t.content, n)
        /\ ty = "DELETE" => Cuts(Edited(s, t), s, Len(s), pos, n)
    BY <1>1, Fits
  <1>3. Outcome(a, b) = "SUCCESS" /\ Merge(a, b) = Edited(s, t)
    BY <1>2 DEF Outcome, Merge, t
  <1> QED BY <1>2, <1>3 DEF t

\* Where an insert is put; it is never turned away.
InsertedAt(a, b) ==
  IF b.position <= a.position THEN b.position
  ELSE IF a.type = "INSERT" THEN b.position + Len(a.content)
  ELSE IF b.position < a.position + Len(a.content) THEN a.position
  ELSE b.position - Len(a.content)

LEMMA InsertedInside ==
  ASSUME NEW u \in User, NEW v \in User, u # v, NEW a, NEW b,
         NEW p, NEW q, NEW m, NEW n, IsEdit(a, u, p, m), IsEdit(b, v, q, n),
         b.type = "INSERT"
  PROVE  InsertedAt(a, b) \in Nat /\ InsertedAt(a, b) <= Len(Edited(Base, a))
  <1> DEFINE l == Len(Base)   s == Edited(Base, a)   pos == InsertedAt(a, b)
  <1>1. /\ p \in Nat /\ q \in Nat /\ m \in Nat /\ n \in Nat
        /\ Len(a.content) = m /\ a.position = p /\ b.position = q
        /\ a.type \in {"INSERT", "DELETE", "REPLACE"}
        /\ l \in Nat /\ p <= l /\ q <= l /\ (a.type # "INSERT" => p + m <= l)
    BY TwoEdits
  <1>2. Len(s) = (CASE a.type = "INSERT" -> l + m
                   [] a.type = "DELETE" -> l - m
                   [] a.type = "REPLACE" -> l)
    BY EditedBase
  <1>3. pos = IF q <= p THEN q
              ELSE IF a.type = "INSERT" THEN q + m
              ELSE IF q < p + m THEN p ELSE q - m
    BY <1>1 DEF InsertedAt
  <1> HIDE DEF l, s, pos
  <1>4. pos \in Nat /\ pos <= Len(s)
    <2>1. CASE a.type = "INSERT"
      BY <1>1, <1>2, <1>3, <2>1
    <2>2. CASE a.type = "DELETE"
      BY <1>1, <1>2, <1>3, <2>2
    <2>3. CASE a.type = "REPLACE"
      BY <1>1, <1>2, <1>3, <2>3
    <2> QED BY <1>1, <2>1, <2>2, <2>3
  <1> QED BY <1>4 DEF s, pos

LEMMA MergeOfInsert ==
  ASSUME NEW u \in User, NEW v \in User, u # v, NEW a, NEW b,
         NEW p, NEW q, NEW m, NEW n, IsEdit(a, u, p, m), IsEdit(b, v, q, n),
         b.type = "INSERT"
  PROVE  /\ Outcome(a, b) = "SUCCESS" /\ Merge(a, b) \in Seq(Character)
         /\ Puts(Merge(a, b), Edited(Base, a), Len(Edited(Base, a)), InsertedAt(a, b), b.content, n)
  <1> DEFINE s == Edited(Base, a)   pos == InsertedAt(a, b)
  <1>1. /\ p \in Nat /\ q \in Nat /\ m \in Nat /\ n \in Nat
        /\ Len(a.content) = m /\ a.position = p /\ b.position = q
    BY TwoEdits
  <1>2. s \in Seq(Character) /\ s = Edited(Base, a)
    BY EditedBase
  <1>3. /\ pos = IF q <= p THEN q
                 ELSE IF a.type = "INSERT" THEN q + m
                 ELSE IF q < p + m THEN p ELSE q - m
        /\ pos \in Nat /\ pos <= Len(s)
    BY <1>1, InsertedInside DEF InsertedAt
  <1>4. Delivered(b, a).content = b.content /\ Becomes(Delivered(b, a), "INSERT", pos, n)
    BY <1>3, DeliveredInsert
  <1> HIDE DEF s, pos
  <1>5. /\ Outcome(a, b) = "SUCCESS" /\ Merge(a, b) \in Seq(Character)
        /\ Puts(Merge(a, b), s, Len(s), pos, Delivered(b, a).content, n)
    BY <1>1, <1>2, <1>3, <1>4, Applied DEF OperationType
  <1> QED BY <1>4, <1>5 DEF s, pos

\* What a delete still removes after an insert.
LEMMA MergeOfDeleteAfterInsert ==
  ASSUME NEW u \in User, NEW v \in User, u # v, NEW a, NEW b,
         NEW p, NEW q, NEW m, NEW n, IsEdit(a, u, p, m), IsEdit(b, v, q, n),
         a.type = "INSERT", b.type = "DELETE"
  PROVE  /\ Outcome(a, b) = "SUCCESS" /\ Merge(a, b) \in Seq(Character)
         /\ q + n <= p => Cuts(Merge(a, b), Edited(Base, a), Len(Base) + m, q, n)
         /\ p <= q => Cuts(Merge(a, b), Edited(Base, a), Len(Base) + m, q + m, n)
         /\ q < p /\ p < q + n => Cuts(Merge(a, b), Edited(Base, a), Len(Base) + m, q, p - q)
  <1> DEFINE l == Len(Base)   s == Edited(Base, a)
  <1>1. /\ p \in Nat /\ q \in Nat /\ m \in Nat /\ n \in Nat /\ n > 0
        /\ l \in Nat /\ p <= l /\ q + n <= l
    BY TwoEdits
  <1>2. s \in Seq(Character) /\ Len(s) = l + m
    BY EditedBase
  <1>3. /\ q + n <= p => Becomes(Delivered(b, a), "DELETE", q, n)
        /\ p <= q => Becomes(Delivered(b, a), "DELETE", q + m, n)
        /\ q < p /\ p < q + n => Becomes(Delivered(b, a), "DELETE", q, p - q)
    BY DeliveredDelete
  <1>4. s = Edited(Base, a)
    OBVIOUS
  <1> HIDE DEF l, s
  <1>5. ASSUME NEW pos \in Nat, NEW k \in Nat, Becomes(Delivered(b, a), "DELETE", pos, k),
               pos + k <= l + m
        PROVE  /\ Outcome(a, b) = "SUCCESS" /\ Merge(a, b) \in Seq(Character)
               /\ Cuts(Merge(a, b), s, l + m, pos, k)
    <2>1. pos + k <= Len(s) /\ pos <= Len(s) /\ "DELETE" \in OperationType
      BY <1>1, <1>2, <1>5 DEF OperationType
    <2>2. /\ Outcome(a, b) = "SUCCESS" /\ Merge(a, b) \in Seq(Character)
          /\ Cuts(Merge(a, b), s, Len(s), pos, k)
      BY <1>2, <1>4, <1>5, <2>1, Applied
    <2> QED BY <1>2, <2>2
  <1>6. CASE q + n <= p
    BY <1>1, <1>3, <1>5, <1>6 DEF l, s
  <1>7. CASE p <= q
    BY <1>1, <1>3, <1>5, <1>7 DEF l, s
  <1>8. CASE q < p /\ p < q + n
    <2>1. p - q \in Nat /\ q + (p - q) <= l + m
      BY <1>1, <1>8
    <2> QED BY <1>1, <1>3, <1>5, <1>8, <2>1 DEF l, s
  <1> QED BY <1>1, <1>6, <1>7, <1>8

\* What a delete of n characters at q still removes from s, which another of m
\* characters at p has made of a text of length l; where nothing is left of it s
\* stays as it is, whether it is accepted or not.
LeftByDelete(r, s, l, p, m, q, n) ==
  /\ q + n <= p => Cuts(r, s, l - m, q, n)
  /\ p + m <= q => Cuts(r, s, l - m, q - m, n)
  /\ q < p /\ p < q + n => Cuts(r, s, l - m, q, p - q)
  /\ p <= q /\ q + n <= p + m => r = s
  /\ p <= q /\ q < p + m /\ p + m < q + n => Cuts(r, s, l - m, p, (q + n) - (p + m))

LEMMA MergeOfDeleteAfterDelete ==
  ASSUME NEW u \in User, NEW v \in User, u # v, NEW a, NEW b,
         NEW p, NEW q, NEW m, NEW n, IsEdit(a, u, p, m), IsEdit(b, v, q, n),
         a.type = "DELETE", b.type = "DELETE"
  PROVE  /\ Merge(a, b) \in Seq(Character)
         /\ ~(p <= q /\ q + n <= p + m) => Outcome(a, b) = "SUCCESS"
         /\ LeftByDelete(Merge(a, b), Edited(Base, a), Len(Base), p, m, q, n)
  <1> DEFINE l == Len(Base)   s == Edited(Base, a)
  <1>1. /\ p \in Nat /\ q \in Nat /\ m \in Nat /\ n \in Nat /\ n > 0 /\ m > 0
        /\ l \in Nat /\ p + m <= l /\ q + n <= l
    BY TwoEdits
  <1>2. s \in Seq(Character) /\ Len(s) = l - m
    BY EditedBase
  <1>3. /\ q + n <= p => Becomes(Delivered(b, a), "DELETE", q, n)
        /\ p + m <= q => Becomes(Delivered(b, a), "DELETE", q - m, n)
        /\ q < p /\ p < q + n => Becomes(Delivered(b, a), "DELETE", q, p - q)
        /\ p <= q /\ q < p + m =>
             IF q + n <= p + m THEN Becomes(Delivered(b, a), "RETAIN", q, 0)
             ELSE Becomes(Delivered(b, a), "DELETE", p, (q + n) - (p + m))
    BY DeliveredDelete
  <1>4. s = Edited(Base, a)
    OBVIOUS
  <1> DEFINE r == Merge(a, b)
  <1> SUFFICES /\ r \in Seq(Character) /\ LeftByDelete(r, s, l, p, m, q, n)
               /\ ~(p <= q /\ q + n <= p + m) => Outcome(a, b) = "SUCCESS"
    OBVIOUS
  <1> HIDE DEF l, s, r
  <1>5. ASSUME NEW pos \in Nat, NEW k \in Nat, Becomes(Delivered(b, a), "DELETE", pos, k),
               pos + k <= l - m
        PROVE  /\ Outcome(a, b) = "SUCCESS"
               /\ Cuts(r, s, l - m, pos, k) /\ r \in Seq(Character)
    <2>1. pos + k <= Len(s) /\ pos <= Len(s) /\ "DELETE" \in OperationType
      BY <1>1, <1>2, <1>5 DEF OperationType
    <2>2. /\ Outcome(a, b) = "SUCCESS" /\ Merge(a, b) \in Seq(Character)
          /\ Cuts(Merge(a, b), s, Len(s), pos, k)
      BY <1>2, <1>4, <1>5, <2>1, Applied
    <2> QED BY <1>2, <2>2 DEF r
  <1>6. CASE q + n <= p
    BY <1>1, <1>3, <1>5, <1>6 DEF LeftByDelete
  <1>7. CASE p + m <= q
    <2>1. q - m \in Nat /\ (q - m) + n <= l - m
      BY <1>1, <1>7
    <2> QED BY <1>1, <1>3, <1>5, <1>7, <2>1 DEF LeftByDelete
  <1>8. CASE q < p /\ p < q + n
    <2>1. p - q \in Nat /\ q + (p - q) <= l - m
      BY <1>1, <1>8
    <2> QED BY <1>1, <1>3, <1>5, <1>8, <2>1 DEF LeftByDelete
  <1>9. CASE p <= q /\ q < p + m /\ p + m < q + n
    <2>1. (q + n) - (p + m) \in Nat /\ p + ((q + n) - (p + m)) <= l - m
      BY <1>1, <1>9
    <2>2. Becomes(Delivered(b, a), "DELETE", p, (q + n) - (p + m))
      BY <1>1, <1>3, <1>9
    <2> QED BY <1>1, <1>5, <1>9, <2>1, <2>2 DEF LeftByDelete
  <1>10. CASE p <= q /\ q + n <= p + m
    <2>1. Becomes(Delivered(b, a), "RETAIN", q, 0)
      BY <1>1, <1>3, <1>10
    <2>2. r = s
      BY <2>1, <1>4 DEF Merge, Edited, Becomes, r
    <2> QED BY <1>1, <1>2, <1>10, <2>2 DEF LeftByDelete
  <1> QED BY <1>1, <1>6, <1>7, <1>8, <1>9, <1>10

-----------------------------------------------------------------------------
(* Pair by pair, the two orders give one text.                             *)

LEMMA TwoInserts ==
  ASSUME NEW u \in User, NEW v \in User, u # v, NEW a, NEW b,
         NEW p, NEW q, NEW m, NEW n, IsEdit(a, u, p, m), IsEdit(b, v, q, n),
         a.type = "INSERT", b.type = "INSERT", p < q
  PROVE  Merge(a, b) = Merge(b, a)
  <1> DEFINE l == Len(Base)   x == Merge(a, b)   y == Merge(b, a)   s == Edited(Base, a)   r == Edited(Base, b)
  <1>1. /\ p \in Nat /\ q \in Nat /\ m \in Nat /\ n \in Nat /\ l \in Nat /\ q <= l
        /\ Len(a.content) = m /\ a.position = p /\ Len(b.content) = n /\ b.position = q
    BY TwoEdits
  <1>2. /\ Puts(s, Base, l, p, a.content, m) /\ Len(s) = l + m
        /\ Puts(r, Base, l, q, b.content, n) /\ Len(r) = l + n
    BY EditedBase
  <1>3. InsertedAt(a, b) = q + m /\ InsertedAt(b, a) = p
    BY <1>1 DEF InsertedAt
  <1>4. x \in Seq(Character) /\ Puts(x, s, l + m, q + m, b.content, n)
    BY <1>2, <1>3, MergeOfInsert
  <1>5. y \in Seq(Character) /\ Puts(y, r, l + n, p, a.content, m)
    BY <1>2, <1>3, MergeOfInsert
  <1> HIDE DEF l, x, y, s, r
  <1>6. Alike(x, y)
    <2>1. /\ l \in Nat /\ m \in Nat /\ n \in Nat /\ p \in Nat /\ q \in Nat /\ p < q /\ q <= l
          /\ Puts(s, Base, l, p, a.content, m) /\ Puts(x, s, l + m, q + m, b.content, n)
          /\ Puts(r, Base, l, q, b.content, n) /\ Puts(y, r, l + n, p, a.content, m)
      BY <1>1, <1>2, <1>4, <1>5
    <2> QED BY <2>1, PutsCommute, Zenon
  <1>7. x = y
    BY <1>4, <1>5, <1>6, SeqEqual DEF Alike
  <1> QED BY <1>7 DEF x, y

LEMMA InsertAndDelete ==
  ASSUME NEW u \in User, NEW v \in User, u # v, NEW a, NEW b,
         NEW p, NEW q, NEW m, NEW n, IsEdit(a, u, p, m), IsEdit(b, v, q, n),
         a.type = "INSERT", b.type = "DELETE", p <= q \/ q + n <= p
  PROVE  Merge(a, b) = Merge(b, a)
  <1> DEFINE l == Len(Base)   x == Merge(a, b)   y == Merge(b, a)   s == Edited(Base, a)   r == Edited(Base, b)
  <1>1. /\ p \in Nat /\ q \in Nat /\ m \in Nat /\ n \in Nat /\ n > 0 /\ l \in Nat /\ q + n <= l /\ p <= l
        /\ Len(a.content) = m /\ a.position = p /\ Len(b.content) = n /\ b.position = q
    BY TwoEdits
  <1>2. /\ Puts(s, Base, l, p, a.content, m) /\ Len(s) = l + m
        /\ Cuts(r, Base, l, q, n) /\ Len(r) = l - n
    BY EditedBase
  <1>3. /\ p <= q => InsertedAt(b, a) = p
        /\ q + n <= p => InsertedAt(b, a) = p - n
    BY <1>1 DEF InsertedAt
  <1>4. /\ x \in Seq(Character)
        /\ q + n <= p => Cuts(x, s, l + m, q, n)
        /\ p <= q => Cuts(x, s, l + m, q + m, n)
    BY MergeOfDeleteAfterInsert
  <1>5. y \in Seq(Character) /\ Puts(y, r, l - n, InsertedAt(b, a), a.content, m)
    BY <1>2, MergeOfInsert
  <1> HIDE DEF l, x, y, s, r
  <1>6. Alike(x, y)
    <2>1. CASE p <= q
      <3>1. /\ l \in Nat /\ m \in Nat /\ n \in Nat /\ p \in Nat /\ q \in Nat /\ p <= q /\ q + n <= l
            /\ Puts(s, Base, l, p, a.content, m) /\ Cuts(x, s, l + m, q + m, n)
            /\ Cuts(r, Base, l, q, n) /\ Puts(y, r, l - n, p, a.content, m)
        BY <1>1, <1>2, <1>3, <1>4, <1>5, <2>1
      <3> QED BY <3>1, PutBeforeCut, Zenon
    <2>2. CASE q + n <= p
      <3>1. /\ l \in Nat /\ m \in Nat /\ n \in Nat /\ p \in Nat /\ q \in Nat /\ q + n <= p /\ p <= l
            /\ Puts(s, Base, l, p, a.content, m) /\ Cuts(x, s, l + m, q, n)
            /\ Cuts(r, Base, l, q, n) /\ Puts(y, r, l - n, p - n, a.content, m)
        BY <1>1, <1>2, <1>3, <1>4, <1>5, <2>2
      <3> QED BY <3>1, PutBehindCut, Zenon
    <2> QED BY <2>1, <2>2
  <1>7. x = y
    BY <1>4, <1>5, <1>6, SeqEqual DEF Alike
  <1> QED BY <1>7 DEF x, y

LEMMA TwoDeletes ==
  ASSUME NEW u \in User, NEW v \in User, u # v, NEW a, NEW b,
         NEW p, NEW q, NEW m, NEW n, IsEdit(a, u, p, m), IsEdit(b, v, q, n),
         a.type = "DELETE", b.type = "DELETE", p <= q, p + m <= q + n
  PROVE  Merge(a, b) = Merge(b, a)
  <1> DEFINE l == Len(Base)   x == Merge(a, b)   y == Merge(b, a)   s == Edited(Base, a)   r == Edited(Base, b)
  <1>1. /\ p \in Nat /\ q \in Nat /\ m \in Nat /\ n \in Nat /\ n > 0 /\ m > 0
        /\ l \in Nat /\ q + n <= l /\ p + m <= l
    BY TwoEdits
  <1>2. /\ Cuts(s, Base, l, p, m) /\ Len(s) = l - m
        /\ Cuts(r, Base, l, q, n) /\ Len(r) = l - n
    BY EditedBase
  <1>3. /\ x \in Seq(Character) /\ LeftByDelete(x, s, l, p, m, q, n)
        /\ y \in Seq(Character) /\ LeftByDelete(y, r, l, q, n, p, m)
    BY MergeOfDeleteAfterDelete
  <1> HIDE DEF l, x, y, s, r
  <1>4. /\ p + m <= q => Cuts(x, s, l - m, q - m, n) /\ Cuts(y, r, l - n, p, m)
        /\ q + n <= p + m => x = s
        /\ q < p + m /\ p + m < q + n => Cuts(x, s, l - m, p, (q + n) - (p + m))
        /\ p < q /\ q < p + m => Cuts(y, r, l - n, p, q - p)
        /\ q <= p => y = r
    BY <1>1, <1>3 DEF LeftByDelete
  <1>5. /\ \A k \in Nat : Cuts(s, s, l - m, k, 0)
        /\ \A k \in Nat : Cuts(r, r, l - n, k, 0)
    BY <1>1, <1>2 DEF Cuts
  <1>6. Alike(x, y)
    <2>1. CASE p + m <= q
      <3>1. /\ l \in Nat /\ m \in Nat /\ n \in Nat /\ p \in Nat /\ q \in Nat /\ p + m <= q /\ q + n <= l
            /\ Cuts(s, Base, l, p, m) /\ Cuts(x, s, l - m, q - m, n)
            /\ Cuts(r, Base, l, q, n) /\ Cuts(y, r, l - n, p, m)
        BY <1>1, <1>2, <1>3, <1>4, <2>1
      <3> QED BY <3>1, CutsCommute, Zenon
    <2>2. CASE q < p + m
      <3>1. Cuts(x, s, l - m, p, (q + n) - (p + m))
        <4>1. CASE q + n = p + m
          <5>1. x = s /\ (q + n) - (p + m) = 0
            BY <1>1, <1>4, <4>1
          <5> QED BY <1>1, <1>5, <5>1
        <4>2. CASE p + m < q + n
          BY <1>4, <2>2, <4>2
        <4> QED BY <1>1, <4>1, <4>2
      <3>2. Cuts(y, r, l - n, p, q - p)
        <4>1. CASE p = q
          <5>1. y = r /\ q - p = 0
            BY <1>1, <1>4, <4>1
          <5> QED BY <1>1, <1>5, <5>1
        <4>2. CASE p < q
          BY <1>4, <2>2, <4>2
        <4> QED BY <1>1, <4>1, <4>2
      <3>3. /\ l \in Nat /\ m \in Nat /\ n \in Nat /\ p \in Nat /\ q \in Nat
            /\ p <= q /\ q <= p + m /\ p + m <= q + n /\ q + n <= l
            /\ Cuts(s, Base, l, p, m) /\ Cuts(r, Base, l, q, n)
        BY <1>1, <1>2, <2>2
      <3> QED BY <3>1, <3>2, <3>3, CutsMeet, Zenon
    <2> QED BY <1>1, <2>1, <2>2
  <1>7. x = y
    BY <1>3, <1>4, <1>6, SeqEqual DEF Alike
  <1> QED BY <1>7 DEF x, y

LEMMA MergesAgree ==
  ASSUME NEW u \in User, NEW v \in User, u # v, NEW a \in Edits(u), NEW b \in Edits(v),
         a.type # "REPLACE", b.type # "REPLACE", ~Entangled(a, b)
  PROVE  Merge(a, b) = Merge(b, a)
  <1> DEFINE p == a.position   q == b.position   m == Len(a.content)   n == Len(b.content)
  <1>1. IsEdit(a, u, p, m) /\ IsEdit(b, v, q, n)
    BY EditFacts
  <1>2. /\ p \in Nat /\ q \in Nat /\ m \in Nat /\ n \in Nat /\ n > 0 /\ m > 0
        /\ EndOf(a) = p + m /\ EndOf(b) = q + n
        /\ a.type \in {"INSERT", "DELETE"} /\ b.type \in {"INSERT", "DELETE"}
    BY <1>1 DEF IsEdit
  <1>3. /\ ~(a.type = "INSERT" /\ b.type = "INSERT" /\ p = q)
        /\ b.type = "DELETE" /\ a.type = "INSERT" => ~(q < p /\ p < q + n)
        /\ a.type = "DELETE" /\ b.type = "INSERT" => ~(p < q /\ q < p + m)
        /\ a.type = "DELETE" /\ b.type = "DELETE" =>
             ~(q < p /\ p + m < q + n) /\ ~(p < q /\ q + n < p + m)
    BY <1>2 DEF Entangled, StrictlyInside
  <1> HIDE DEF p, q, m, n
  <1>4. CASE a.type = "INSERT" /\ b.type = "INSERT"
    <2>1. p < q \/ q < p
      BY <1>2, <1>3, <1>4
    <2>2. CASE p < q
      BY <1>1, <1>4, <2>2, TwoInserts
    <2>3. CASE q < p
      BY <1>1, <1>4, <2>3, TwoInserts
    <2> QED BY <2>1, <2>2, <2>3
  <1>5. CASE a.type = "INSERT" /\ b.type = "DELETE"
    <2>1. p <= q \/ q + n <= p
      BY <1>2, <1>3, <1>5
    <2> QED BY <1>1, <1>5, <2>1, InsertAndDelete
  <1>6. CASE a.type = "DELETE" /\ b.type = "INSERT"
    <2>1. q <= p \/ p + m <= q
      BY <1>2, <1>3, <1>6
    <2> QED BY <1>1, <1>6, <2>1, InsertAndDelete
  <1>7. CASE a.type = "DELETE" /\ b.type = "DELETE"
    <2>1. (p <= q /\ p + m <= q + n) \/ (q <= p /\ q + n <= p + m)
      BY <1>2, <1>3, <1>7
    <2>2. CASE p <= q /\ p + m <= q + n
      BY <1>1, <1>7, <2>2, TwoDeletes
    <2>3. CASE q <= p /\ q + n <= p + m
      BY <1>1, <1>7, <2>3, TwoDeletes
    <2> QED BY <2>1, <2>2, <2>3
  <1> QED BY <1>2, <1>4, <1>5, <1>6, <1>7

-----------------------------------------------------------------------------
(* Whatever arrives, the result is a text, and what was refused is no loss *)
(* the receiver did not cause.                                             *)

\* Everything delivered is an operation of some place and length.
LEMMA DeliveredIsOperation ==
  ASSUME NEW u \in User, NEW v \in User, u # v, NEW a, NEW b,
         NEW p, NEW q, NEW m, NEW n, IsEdit(a, u, p, m), IsEdit(b, v, q, n)
  PROVE  \E ty \in OperationType, pos \in Nat, k \in Nat : Becomes(Delivered(b, a), ty, pos, k)
  <1>1. /\ p \in Nat /\ q \in Nat /\ m \in Nat /\ n \in Nat
        /\ b.type \in {"INSERT", "DELETE", "REPLACE"}
    BY TwoEdits
  <1> DEFINE is == \E ty \in OperationType, pos \in Nat, k \in Nat : Becomes(Delivered(b, a), ty, pos, k)
  <1>2. ASSUME NEW ty \in OperationType, NEW pos \in Nat, NEW k \in Nat,
               Becomes(Delivered(b, a), ty, pos, k)
        PROVE  is
    BY <1>2
  <1> SUFFICES is
    OBVIOUS
  <1> HIDE DEF is
  <1>3. CASE b.type = "INSERT"
    <2> DEFINE at == IF q <= p THEN q
                     ELSE IF a.type = "INSERT" THEN q + m
                     ELSE IF q < p + m THEN p ELSE q - m
    <2>1. at \in Nat
      BY <1>1
    <2>2. Becomes(Delivered(b, a), "INSERT", at, n)
      BY <1>3, DeliveredInsert
    <2> HIDE DEF at
    <2> QED BY <1>1, <1>2, <2>1, <2>2 DEF OperationType
  <1>4. CASE b.type = "REPLACE"
    <2> DEFINE at == IF a.type = "INSERT" /\ p <= q THEN q + m
                     ELSE IF a.type = "DELETE" /\ p + m <= q THEN q - m ELSE q
    <2>1. at \in Nat
      BY <1>1
    <2>2. Becomes(Delivered(b, a), "REPLACE", at, n)
      BY <1>4, DeliveredReplace
    <2> HIDE DEF at
    <2> QED BY <1>1, <1>2, <2>1, <2>2 DEF OperationType
  <1>5. CASE b.type = "DELETE"
    <2> DEFINE t == Delivered(b, a)
    <2>1. /\ q + n <= p => Becomes(t, "DELETE", q, n)
          /\ a.type = "INSERT" =>
               /\ p <= q => Becomes(t, "DELETE", q + m, n)
               /\ q < p /\ p < q + n => Becomes(t, "DELETE", q, p - q)
          /\ a.type # "INSERT" =>
               /\ p + m <= q => Becomes(t, "DELETE", q - m, n)
               /\ q < p /\ p < q + n => Becomes(t, "DELETE", q, p - q)
               /\ p <= q /\ q < p + m =>
                    IF q + n <= p + m THEN Becomes(t, "RETAIN", q, 0)
                    ELSE Becomes(t, "DELETE", p, (q + n) - (p + m))
      BY <1>5, DeliveredDelete
    <2>2. /\ "DELETE" \in OperationType /\ "RETAIN" \in OperationType
      BY DEF OperationType
    <2>3. ASSUME NEW ty \in OperationType, NEW pos \in Nat, NEW k \in Nat, Becomes(t, ty, pos, k)
          PROVE  is
      BY <1>2, <2>3
    <2> HIDE DEF t
    <2>4. CASE q + n <= p
      BY <1>1, <2>1, <2>2, <2>3, <2>4
    <2>5. CASE q < p /\ p < q + n
      <3>1. p - q \in Nat
        BY <1>1, <2>5
      <3> QED BY <1>1, <2>1, <2>2, <2>3, <2>5, <3>1
    <2>6. CASE p <= q /\ a.type = "INSERT"
      BY <1>1, <2>1, <2>2, <2>3, <2>6
    <2>7. CASE p <= q /\ a.type # "INSERT" /\ p + m <= q
      <3>1. q - m \in Nat
        BY <1>1, <2>7
      <3> QED BY <2>1, <2>2, <2>3, <2>7, <1>1, <3>1
    <2>8. CASE p <= q /\ a.type # "INSERT" /\ q < p + m
      <3>1. CASE q + n <= p + m
        BY <1>1, <2>1, <2>2, <2>3, <2>8, <3>1
      <3>2. CASE p + m < q + n
        <4>1. (q + n) - (p + m) \in Nat /\ ~(q + n <= p + m)
          BY <1>1, <3>2
        <4> QED BY <1>1, <2>1, <2>2, <2>3, <2>8, <4>1
      <3> QED BY <1>1, <3>1, <3>2
    <2> QED BY <1>1, <2>4, <2>5, <2>6, <2>7, <2>8
  <1> QED BY <1>1, <1>3, <1>4, <1>5

LEMMA MergeIsText ==
  ASSUME NEW u \in User, NEW v \in User, u # v, NEW a, NEW b,
         NEW p, NEW q, NEW m, NEW n, IsEdit(a, u, p, m), IsEdit(b, v, q, n)
  PROVE  Merge(a, b) \in Seq(Character)
  <1> DEFINE s == Edited(Base, a)   t == Delivered(b, a)
  <1>1. PICK ty \in OperationType, pos \in Nat, k \in Nat : Becomes(t, ty, pos, k)
    BY DeliveredIsOperation
  <1>2. s \in Seq(Character) /\ Len(s) \in Nat
    BY EditedBase, LenProperties
  <1>3. Merge(a, b) = IF ResultOf(s, 1, t) = "SUCCESS" THEN Edited(s, t) ELSE s
    BY DEF Merge, Outcome
  <1> HIDE DEF s, t
  <1>4. ASSUME ResultOf(s, 1, t) = "SUCCESS" PROVE Edited(s, t) \in Seq(Character)
    <2>1. t.type = ty /\ t.position = pos /\ EndOf(t) = pos + k
      BY <1>1 DEF Becomes
    <2>2. ValidPosition(s, 1, t)
      BY <1>4 DEF ResultOf
    <2>3. pos <= Len(s) /\ (ty # "INSERT" => pos + k <= Len(s))
      BY <1>2, <2>1, <2>2 DEF ValidPosition
    <2> QED BY <1>1, <1>2, <2>3, Fits
  <1> QED BY <1>2, <1>3, <1>4

LEMMA MergeFits ==
  ASSUME NEW u \in User, NEW v \in User, u # v, NEW a \in Edits(u), NEW b \in Edits(v),
         Outcome(a, b) # "SUCCESS"
  PROVE  /\ a.type = "DELETE" /\ IsConflict(a, b)
         /\ \/ b.type = "REPLACE"
            \/ b.type = "DELETE" /\ Chars(b.content) \subseteq Chars(a.content)
  <1> DEFINE p == a.position   q == b.position   m == Len(a.content)   n == Len(b.content)
             l == Len(Base)   s == Edited(Base, a)
  <1>1. IsEdit(a, u, p, m) /\ IsEdit(b, v, q, n)
    BY EditFacts
  <1> HIDE DEF p, q, m, n
  <1>2. /\ p \in Nat /\ q \in Nat /\ m \in Nat /\ n \in Nat /\ n > 0 /\ m > 0
        /\ EndOf(a) = p + m /\ EndOf(b) = q + n /\ a.userId # b.userId
        /\ a.type \in {"INSERT", "DELETE", "REPLACE"} /\ b.type \in {"INSERT", "DELETE", "REPLACE"}
        /\ l \in Nat /\ p <= l /\ (a.type # "INSERT" => p + m <= l)
        /\ (b.type # "INSERT" => q + n <= l)
    BY <1>1, TwoEdits
  <1>3. /\ s \in Seq(Character)
        /\ a.type = "INSERT" => Len(s) = l + m
        /\ a.type = "DELETE" => Len(s) = l - m
        /\ a.type = "REPLACE" => Len(s) = l
    BY <1>1, EditedBase
  <1>4. ASSUME NEW ty \in OperationType, NEW pos \in Nat, NEW k \in Nat,
               Becomes(Delivered(b, a), ty, pos, k), pos + k <= Len(s)
        PROVE  FALSE
    <2>1. s = Edited(Base, a) /\ pos <= Len(s)
      BY <1>3, <1>4, LenProperties
    <2> HIDE DEF s
    <2> QED BY <1>3, <1>4, <2>1, Applied
  <1>5. b.type # "INSERT"
    BY <1>1, MergeOfInsert
  <1> HIDE DEF s, l
  <1>6. ~(p + m <= q) /\ ~(q + n <= p) => IsConflict(a, b)
    BY <1>2 DEF IsConflict, Before, p, q
  <1>7. CASE b.type = "REPLACE"
    <2> DEFINE pos == IF a.type = "INSERT" /\ p <= q THEN q + m
                      ELSE IF a.type = "DELETE" /\ p + m <= q THEN q - m ELSE q
    <2>1. Becomes(Delivered(b, a), "REPLACE", pos, n)
      BY <1>1, <1>7, DeliveredReplace
    <2>2. pos \in Nat /\ "REPLACE" \in OperationType
      BY <1>2 DEF OperationType
    <2>3. ~(pos + n <= Len(s))
      <3> HIDE DEF pos
      <3> QED BY <1>2, <1>4, <2>1, <2>2
    <2>4. a.type = "DELETE" /\ ~(p + m <= q) /\ ~(q + n <= p)
      BY <1>2, <1>3, <1>7, <2>3
    <2> QED BY <1>6, <1>7, <2>4
  <1>8. CASE b.type = "DELETE" /\ a.type = "DELETE"
    <2>1. p <= q /\ q + n <= p + m
      BY <1>1, <1>8, MergeOfDeleteAfterDelete
    <2>2. IsConflict(a, b)
      BY <1>2, <1>6, <2>1
    <2>3. \A i \in 1..n : b.content[i] = Base[q + i]
      BY <1>1, <1>8 DEF IsEdit
    <2>4. \A i \in 1..m : a.content[i] = Base[p + i]
      BY <1>1, <1>8 DEF IsEdit
    <2>5. ASSUME NEW i \in 1..n PROVE \E j \in 1..m : b.content[i] = a.content[j]
      <3>1. (q - p) + i \in 1..m /\ p + ((q - p) + i) = q + i
        BY <1>2, <2>1
      <3>2. a.content[(q - p) + i] = Base[q + i]
        BY <2>4, <3>1
      <3> QED BY <2>3, <3>1, <3>2
    <2>6. DOMAIN a.content = 1..m /\ DOMAIN b.content = 1..n
      <3>1. a \in Operations /\ b \in Operations
        BY <1>1 DEF IsEdit
      <3> QED BY <3>1, LenProperties DEF Operations, m, n
    <2>7. Chars(b.content) \subseteq Chars(a.content)
      BY <2>5, <2>6 DEF Chars
    <2> QED BY <1>8, <2>2, <2>7
  <1>9. CASE b.type = "DELETE" /\ a.type = "INSERT"
    BY <1>1, <1>9, MergeOfDeleteAfterInsert
  <1>10. CASE b.type = "DELETE" /\ a.type = "REPLACE"
    <2> DEFINE t == Delivered(b, a)
    <2>1. /\ q + n <= p => Becomes(t, "DELETE", q, n)
          /\ p + m <= q => Becomes(t, "DELETE", q - m, n)
          /\ q < p /\ p < q + n => Becomes(t, "DELETE", q, p - q)
          /\ p <= q /\ q < p + m =>
               IF q + n <= p + m THEN Becomes(t, "RETAIN", q, 0)
               ELSE Becomes(t, "DELETE", p, (q + n) - (p + m))
      BY <1>1, <1>10, DeliveredDelete
    <2>2. ASSUME NEW ty \in {"DELETE", "RETAIN"}, NEW pos \in Nat, NEW k \in Nat,
                 Becomes(t, ty, pos, k), pos + k <= l
          PROVE  FALSE
      BY <1>3, <1>4, <1>10, <2>2 DEF OperationType
    <2> HIDE DEF t
    <2>3. q + n <= l
      BY <1>2, <1>10
    <2>4. ~(q + n <= p)
      BY <1>2, <2>1, <2>2, <2>3
    <2>5. ~(q < p /\ p < q + n)
      <3>1. ASSUME q < p /\ p < q + n PROVE p - q \in Nat /\ q + (p - q) <= l
        BY <1>2, <3>1
      <3> QED BY <1>2, <2>1, <2>2, <3>1
    <2>6. ~(p + m <= q)
      <3>1. ASSUME p + m <= q PROVE q - m \in Nat /\ (q - m) + n <= l
        BY <1>2, <2>3, <3>1
      <3> QED BY <1>2, <2>1, <2>2, <3>1
    <2>7. p <= q /\ q < p + m
      BY <1>2, <2>4, <2>5, <2>6
    <2>8. ~(q + n <= p + m)
      <3>1. q + 0 <= l
        BY <1>2, <2>3
      <3> QED BY <1>2, <2>1, <2>2, <2>7, <3>1
    <2>9. (q + n) - (p + m) \in Nat /\ p + ((q + n) - (p + m)) <= l
      BY <1>2, <2>3, <2>8
    <2> QED BY <1>2, <2>1, <2>2, <2>7, <2>8, <2>9
  <1> QED BY <1>2, <1>5, <1>7, <1>8, <1>9, <1>10

-----------------------------------------------------------------------------
(* What survives: the base text, and what the users typed.                 *)

LEMMA CharsOf ==
  ASSUME NEW C, NEW s \in Seq(C)
  PROVE  Chars(s) = {s[i] : i \in 1..Len(s)} /\ Chars(s) \subseteq C /\ Len(s) \in Nat
  BY LenProperties, ElementOfSeq DEF Chars

\* A put keeps every character, and adds its own.
LEMMA PutKeeps ==
  ASSUME NEW C, NEW r \in Seq(C), NEW s \in Seq(C), NEW t \in Seq(C), NEW l, NEW p, NEW n,
         Puts(r, s, l, p, t, n), l = Len(s), n = Len(t), p \in Nat, p <= l
  PROVE  Chars(r) = Chars(s) \cup Chars(t)
  <1>1. /\ Chars(r) = {r[i] : i \in 1..Len(r)} /\ Chars(s) = {s[i] : i \in 1..l}
        /\ Chars(t) = {t[i] : i \in 1..n} /\ l \in Nat /\ n \in Nat /\ Len(r) = l + n
    BY CharsOf DEF Puts
  <1>2. ASSUME NEW i \in 1..l + n
        PROVE  \/ \E j \in 1..l : r[i] = s[j]
               \/ \E j \in 1..n : r[i] = t[j]
    <2>1. CASE i <= p
      BY <1>1, <2>1 DEF Puts
    <2>2. CASE p < i /\ i <= p + n
      <3>1. i - p \in 1..n /\ r[i] = t[i - p]
        BY <1>1, <2>2 DEF Puts
      <3> QED BY <3>1
    <2>3. CASE p + n < i
      <3>1. i - n \in 1..l /\ r[i] = s[i - n]
        BY <1>1, <2>3 DEF Puts
      <3> QED BY <3>1
    <2> QED BY <1>1, <2>1, <2>2, <2>3
  <1>3. ASSUME NEW i \in 1..l PROVE \E j \in 1..l + n : s[i] = r[j]
    <2>1. CASE i <= p
      <3>1. i \in 1..l + n /\ r[i] = s[i]
        BY <1>1, <2>1 DEF Puts
      <3> QED BY <3>1
    <2>2. CASE p < i
      <3>1. i + n \in 1..l + n /\ p + n < i + n /\ (i + n) - n = i
        BY <1>1, <2>2
      <3>2. r[i + n] = s[(i + n) - n]
        BY <3>1 DEF Puts
      <3> QED BY <3>1, <3>2
    <2> QED BY <1>1, <2>1, <2>2
  <1>4. ASSUME NEW i \in 1..n PROVE \E j \in 1..l + n : t[i] = r[j]
    <2>1. p + i \in 1..l + n /\ p < p + i /\ p + i <= p + n /\ (p + i) - p = i
      BY <1>1
    <2>2. r[p + i] = t[(p + i) - p]
      BY <2>1 DEF Puts
    <2> QED BY <2>1, <2>2
  <1>5. ASSUME NEW c \in Chars(r) PROVE c \in Chars(s) \cup Chars(t)
    BY <1>1, <1>2
  <1>6. ASSUME NEW c \in Chars(s) PROVE c \in Chars(r)
    BY <1>1, <1>3
  <1>7. ASSUME NEW c \in Chars(t) PROVE c \in Chars(r)
    BY <1>1, <1>4
  <1> QED BY <1>5, <1>6, <1>7

\* A cut takes only what it covers.
LEMMA CutKeeps ==
  ASSUME NEW C, NEW D, NEW r \in Seq(C), NEW s \in Seq(C), NEW l, NEW p, NEW n,
         Cuts(r, s, l, p, n), l = Len(s), p \in Nat, n \in Nat, p + n <= l,
         \A i \in p + 1..p + n : s[i] \in D
  PROVE  Chars(r) \subseteq Chars(s) /\ Chars(s) \subseteq Chars(r) \cup D
  <1>1. /\ Chars(r) = {r[i] : i \in 1..Len(r)} /\ Chars(s) = {s[i] : i \in 1..l}
        /\ l \in Nat /\ Len(r) = l - n
    BY CharsOf DEF Cuts
  <1>2. ASSUME NEW i \in 1..l - n PROVE \E j \in 1..l : r[i] = s[j]
    <2>1. CASE i <= p
      <3>1. i \in 1..l /\ r[i] = s[i]
        BY <1>1, <2>1 DEF Cuts
      <3> QED BY <3>1
    <2>2. CASE p < i
      <3>1. i + n \in 1..l /\ r[i] = s[i + n]
        BY <1>1, <2>2 DEF Cuts
      <3> QED BY <3>1
    <2> QED BY <1>1, <2>1, <2>2
  <1>3. ASSUME NEW i \in 1..l PROVE s[i] \in D \/ \E j \in 1..l - n : s[i] = r[j]
    <2>1. CASE i <= p
      <3>1. i \in 1..l - n /\ r[i] = s[i]
        BY <1>1, <2>1 DEF Cuts
      <3> QED BY <3>1
    <2>2. CASE p < i /\ i <= p + n
      BY <2>2
    <2>3. CASE p + n < i
      <3>1. i - n \in 1..l - n /\ p < i - n /\ (i - n) + n = i
        BY <1>1, <2>3
      <3>2. r[i - n] = s[(i - n) + n]
        BY <3>1 DEF Cuts
      <3> QED BY <3>1, <3>2
    <2> QED BY <1>1, <2>1, <2>2, <2>3
  <1>4. ASSUME NEW c \in Chars(r) PROVE c \in Chars(s)
    BY <1>1, <1>2
  <1>5. ASSUME NEW c \in Chars(s) PROVE c \in Chars(r) \cup D
    <2>1. PICK i \in 1..l : c = s[i]
      BY <1>1
    <2>2. CASE s[i] \in D
      BY <2>1, <2>2
    <2>3. CASE \E j \in 1..l - n : s[i] = r[j]
      BY <1>1, <2>1, <2>3
    <2> QED BY <1>3, <2>2, <2>3
  <1> QED BY <1>4, <1>5

\* A delete takes a stretch of the text it meets, all of it its own content;
\* where the receiver typed at p, the stretch lies before or behind what was typed.
LEMMA DeleteTakes ==
  ASSUME NEW u \in User, NEW v \in User, u # v, NEW a, NEW b,
         NEW p, NEW q, NEW m, NEW n, IsEdit(a, u, p, m), IsEdit(b, v, q, n),
         a.type # "REPLACE", b.type = "DELETE"
  PROVE  \E c \in Nat, k \in Nat :
           /\ Cuts(Merge(a, b), Edited(Base, a), Len(Edited(Base, a)), c, k)
           /\ c + k <= Len(Edited(Base, a))
           /\ \A i \in c + 1..c + k : Edited(Base, a)[i] \in Chars(b.content)
           /\ a.type = "INSERT" => c + k <= p \/ p + m <= c
  <1> DEFINE l == Len(Base)   s == Edited(Base, a)   D == Chars(b.content)
  <1>1. /\ p \in Nat /\ q \in Nat /\ m \in Nat /\ n \in Nat /\ n > 0 /\ m > 0
        /\ l \in Nat /\ p <= l /\ q + n <= l /\ (a.type # "INSERT" => p + m <= l)
        /\ a.type \in {"INSERT", "DELETE"}
    BY TwoEdits
  <1>2. \A i \in q + 1..q + n : Base[i] \in D
    <2>1. b.content \in Seq(Character) /\ Len(b.content) = n /\ \A i \in 1..n : b.content[i] = Base[q + i]
      BY DEF IsEdit, Operations
    <2>2. D = {b.content[i] : i \in 1..n}
      BY <2>1, CharsOf
    <2>3. ASSUME NEW i \in q + 1..q + n PROVE Base[i] \in D
      <3>1. i - q \in 1..n /\ q + (i - q) = i
        BY <1>1
      <3> QED BY <2>1, <2>2, <3>1
    <2> QED BY <2>3
  <1>3. /\ s \in Seq(Character)
        /\ a.type = "INSERT" => Puts(s, Base, l, p, a.content, m)
        /\ a.type = "DELETE" => Cuts(s, Base, l, p, m)
        /\ Len(s) = IF a.type = "INSERT" THEN l + m ELSE l - m
    BY <1>1, EditedBase
  <1>4. a.type = "INSERT" =>
          /\ q + n <= p => Cuts(Merge(a, b), s, l + m, q, n)
          /\ p <= q => Cuts(Merge(a, b), s, l + m, q + m, n)
          /\ q < p /\ p < q + n => Cuts(Merge(a, b), s, l + m, q, p - q)
    BY MergeOfDeleteAfterInsert
  <1>5. a.type = "DELETE" => LeftByDelete(Merge(a, b), s, l, p, m, q, n)
    BY MergeOfDeleteAfterDelete
  <1> DEFINE r == Merge(a, b)
             Goal(c, k) == /\ Cuts(r, s, Len(s), c, k)
                           /\ c + k <= Len(s)
                           /\ \A i \in c + 1..c + k : s[i] \in D
                           /\ a.type = "INSERT" => c + k <= p \/ p + m <= c
  <1> SUFFICES \E c \in Nat, k \in Nat : Goal(c, k)
    OBVIOUS
  <1> HIDE DEF l, s, r, D
  <1>6. CASE a.type = "INSERT"
    <2>0. Len(s) = l + m /\ Puts(s, Base, l, p, a.content, m)
      BY <1>3, <1>6
    <2>1. CASE q + n <= p
      <3>1. ASSUME NEW i \in q + 1..q + n PROVE s[i] \in D
        <4>1. i \in 1..l + m /\ i <= p
          BY <1>1, <2>1
        <4> QED BY <1>2, <2>0, <4>1 DEF Puts
      <3>2. Goal(q, n)
        BY <1>1, <1>4, <1>6, <2>0, <2>1, <3>1 DEF r
      <3> HIDE DEF Goal
      <3> QED BY <1>1, <3>2
    <2>2. CASE p <= q
      <3>1. ASSUME NEW i \in q + m + 1..q + m + n PROVE s[i] \in D
        <4>1. i \in 1..l + m /\ p + m < i /\ i - m \in q + 1..q + n
          BY <1>1, <2>2
        <4> QED BY <1>2, <2>0, <4>1 DEF Puts
      <3>2. Goal(q + m, n)
        BY <1>1, <1>4, <1>6, <2>0, <2>2, <3>1 DEF r
      <3> HIDE DEF Goal
      <3> QED BY <1>1, <3>2
    <2>3. CASE q < p /\ p < q + n
      <3>1. ASSUME NEW i \in q + 1..q + (p - q) PROVE s[i] \in D
        <4>1. i \in 1..l + m /\ i <= p /\ i \in q + 1..q + n
          BY <1>1, <2>3
        <4> QED BY <1>2, <2>0, <4>1 DEF Puts
      <3>2. p - q \in Nat /\ q + (p - q) = p
        BY <1>1, <2>3
      <3>3. Goal(q, p - q)
        BY <1>1, <1>4, <1>6, <2>0, <2>3, <3>1, <3>2 DEF r
      <3> HIDE DEF Goal
      <3> QED BY <1>1, <3>2, <3>3
    <2> QED BY <1>1, <2>1, <2>2, <2>3
  <1>7. CASE a.type = "DELETE"
    <2>0. Len(s) = l - m /\ Cuts(s, Base, l, p, m)
      BY <1>3, <1>7
    <2>1. CASE q + n <= p
      <3>1. ASSUME NEW i \in q + 1..q + n PROVE s[i] \in D
        <4>1. i \in 1..l - m /\ i <= p
          BY <1>1, <1>7, <2>1
        <4> QED BY <1>2, <2>0, <4>1 DEF Cuts
      <3>2. Goal(q, n)
        BY <1>1, <1>5, <1>7, <2>0, <2>1, <3>1 DEF r, LeftByDelete
      <3> HIDE DEF Goal
      <3> QED BY <1>1, <3>2
    <2>2. CASE p + m <= q
      <3>1. ASSUME NEW i \in q - m + 1..q - m + n PROVE s[i] \in D
        <4>1. i \in 1..l - m /\ p < i /\ i + m \in q + 1..q + n
          BY <1>1, <2>2
        <4> QED BY <1>2, <2>0, <4>1 DEF Cuts
      <3>2. q - m \in Nat
        BY <1>1, <2>2
      <3>3. Goal(q - m, n)
        BY <1>1, <1>5, <1>7, <2>0, <2>2, <3>1 DEF r, LeftByDelete
      <3> HIDE DEF Goal
      <3> QED BY <1>1, <3>2, <3>3
    <2>3. CASE q < p /\ p < q + n
      <3>1. ASSUME NEW i \in q + 1..q + (p - q) PROVE s[i] \in D
        <4>1. i \in 1..l - m /\ i <= p /\ i \in q + 1..q + n
          BY <1>1, <1>7, <2>3
        <4> QED BY <1>2, <2>0, <4>1 DEF Cuts
      <3>2. p - q \in Nat /\ q + (p - q) = p
        BY <1>1, <2>3
      <3>3. Goal(q, p - q)
        BY <1>1, <1>5, <1>7, <2>0, <2>3, <3>1, <3>2 DEF r, LeftByDelete
      <3> HIDE DEF Goal
      <3> QED BY <1>1, <3>2, <3>3
    <2>4. CASE p <= q /\ q + n <= p + m
      <3>1. r = s
        BY <1>5, <1>7, <2>4 DEF r, LeftByDelete
      <3>2. Cuts(r, s, l - m, 0, 0)
        BY <1>1, <1>7, <2>0, <3>1 DEF Cuts
      <3>3. Goal(0, 0)
        BY <1>1, <1>7, <2>0, <3>2
      <3> HIDE DEF Goal
      <3> QED BY <3>3
    <2>5. CASE p <= q /\ q < p + m /\ p + m < q + n
      <3> DEFINE k == (q + n) - (p + m)
      <3>1. k \in Nat /\ p + k <= l - m
        BY <1>1, <2>5
      <3>2. ASSUME NEW i \in p + 1..p + k PROVE s[i] \in D
        <4>1. i \in 1..l - m /\ p < i /\ i + m \in q + 1..q + n
          BY <1>1, <2>5
        <4> QED BY <1>2, <2>0, <4>1 DEF Cuts
      <3>3. Cuts(r, s, l - m, p, k)
        BY <1>5, <1>7, <2>5 DEF r, LeftByDelete
      <3> HIDE DEF k
      <3>4. Goal(p, k)
        BY <1>1, <1>7, <2>0, <3>1, <3>2, <3>3
      <3> HIDE DEF Goal
      <3> QED BY <1>1, <3>1, <3>4
    <2> QED BY <1>1, <2>1, <2>2, <2>3, <2>4, <2>5
  <1> QED BY <1>1, <1>6, <1>7

\* What an edit leaves of the base text, and what it adds.
LEMMA EditKeeps ==
  ASSUME NEW u \in User, NEW a, NEW p, NEW m, IsEdit(a, u, p, m), a.type # "REPLACE"
  PROVE  /\ a.type = "INSERT" => Chars(Edited(Base, a)) = Chars(Base) \cup Chars(a.content)
         /\ a.type = "DELETE" => /\ Chars(Edited(Base, a)) \subseteq Chars(Base)
                                 /\ Chars(Base) \subseteq Chars(Edited(Base, a)) \cup Chars(a.content)
  <1> DEFINE s == Edited(Base, a)   l == Len(Base)
  <1>1. /\ s \in Seq(Character) /\ l \in Nat /\ Base \in Seq(Character)
        /\ a.type = "INSERT" => Puts(s, Base, l, p, a.content, m)
        /\ a.type = "DELETE" => Cuts(s, Base, l, p, m)
    BY EditedBase, EditsAssumption
  <1>2. /\ p \in Nat /\ m \in Nat /\ p <= l /\ (a.type # "INSERT" => p + m <= l)
        /\ a.content \in Seq(Character) /\ Len(a.content) = m
        /\ a.type \in {"INSERT", "DELETE", "REPLACE"}
    BY DEF IsEdit, Operations
  <1>3. a.type = "DELETE" => \A i \in p + 1..p + m : Base[i] \in Chars(a.content)
    <2>1. Chars(a.content) = {a.content[i] : i \in 1..m}
      BY <1>2, CharsOf
    <2>2. ASSUME a.type = "DELETE", NEW i \in p + 1..p + m PROVE Base[i] \in Chars(a.content)
      <3>1. i - p \in 1..m /\ p + (i - p) = i
        BY <1>2
      <3>2. \A j \in 1..m : a.content[j] = Base[p + j]
        BY <2>2 DEF IsEdit
      <3> QED BY <2>1, <3>1, <3>2
    <2> QED BY <2>2
  <1>4. l = Len(Base)
    OBVIOUS
  <1> HIDE DEF s, l
  <1>5. CASE a.type = "INSERT"
    BY <1>1, <1>2, <1>4, <1>5, PutKeeps DEF s
  <1>6. CASE a.type = "DELETE"
    <2>1. p + m <= l
      BY <1>2, <1>6
    <2>2. /\ s \in Seq(Character) /\ Base \in Seq(Character) /\ Cuts(s, Base, l, p, m) /\ l = Len(Base)
          /\ p \in Nat /\ m \in Nat /\ \A i \in p + 1..p + m : Base[i] \in Chars(a.content)
      BY <1>1, <1>2, <1>3, <1>4, <1>6
    <2>3. Chars(s) \subseteq Chars(Base) /\ Chars(Base) \subseteq Chars(s) \cup Chars(a.content)
      BY <2>1, <2>2, CutKeeps, Zenon
    <2> QED BY <1>6, <2>3 DEF s
  <1> QED BY <1>5, <1>6

LEMMA BaseKept ==
  ASSUME NEW u \in User, NEW v \in User, u # v, NEW a, NEW b,
         NEW p, NEW q, NEW m, NEW n, IsEdit(a, u, p, m), IsEdit(b, v, q, n),
         a.type # "REPLACE", b.type # "REPLACE", NEW c \in Chars(Base),
         a.type = "DELETE" => c \notin Chars(a.content),
         b.type = "DELETE" => c \notin Chars(b.content)
  PROVE  c \in Chars(Merge(a, b))
  <1> DEFINE s == Edited(Base, a)   r == Merge(a, b)
  <1>1. /\ a.type \in {"INSERT", "DELETE"} /\ b.type \in {"INSERT", "DELETE"}
        /\ p \in Nat /\ q \in Nat /\ m \in Nat /\ n \in Nat
        /\ b.content \in Seq(Character) /\ Len(b.content) = n
        /\ b.position = q /\ a.position = p /\ Len(a.content) = m
    BY TwoEdits
  <1>2. c \in Chars(s)
    BY <1>1, EditKeeps
  <1>3. s \in Seq(Character) /\ r \in Seq(Character)
    BY EditedBase, MergeIsText
  <1>4. CASE b.type = "INSERT"
    <2> DEFINE pos == InsertedAt(a, b)
    <2>1. Puts(r, s, Len(s), pos, b.content, n)
      BY <1>4, MergeOfInsert
    <2>2. pos \in Nat /\ pos <= Len(s)
      BY <1>4, InsertedInside
    <2> HIDE DEF s, r, pos
    <2>3. Chars(r) = Chars(s) \cup Chars(b.content)
      <3>1. /\ r \in Seq(Character) /\ s \in Seq(Character) /\ b.content \in Seq(Character)
            /\ Puts(r, s, Len(s), pos, b.content, n) /\ n = Len(b.content)
            /\ pos \in Nat /\ pos <= Len(s)
        BY <1>1, <1>3, <2>1, <2>2
      <3> QED BY <3>1, PutKeeps, SMTT(30)
    <2> QED BY <1>2, <2>3 DEF r
  <1>5. CASE b.type = "DELETE"
    <2>1. PICK pos \in Nat, k \in Nat :
            /\ Cuts(r, s, Len(s), pos, k) /\ pos + k <= Len(s)
            /\ \A i \in pos + 1..pos + k : s[i] \in Chars(b.content)
      BY <1>1, <1>5, DeleteTakes
    <2> HIDE DEF s, r
    <2>2. Chars(s) \subseteq Chars(r) \cup Chars(b.content)
      BY <1>3, <2>1, CutKeeps
    <2> QED BY <1>2, <1>5, <2>2 DEF r
  <1> QED BY <1>1, <1>4, <1>5

\* r holds t, of n characters, in one piece behind p, and nothing of X elsewhere.
Holds(r, t, n, p, X) ==
  /\ p \in Nat /\ p + n <= Len(r)
  /\ \A i \in 1..n : r[p + i] = t[i]
  /\ \A i \in 1..Len(r) : ~(p < i /\ i <= p + n) => r[i] \notin X

LEMMA PutHolds ==
  ASSUME NEW C, NEW X, NEW r, NEW s \in Seq(C), NEW t, NEW l, NEW p, NEW n,
         Puts(r, s, l, p, t, n), l = Len(s), p \in Nat, n \in Nat, p <= l, Chars(s) \cap X = {}
  PROVE  Holds(r, t, n, p, X)
  <1>1. l \in Nat /\ Len(r) = l + n /\ \A i \in 1..l : s[i] \notin X
    BY CharsOf DEF Puts
  <1>2. ASSUME NEW i \in 1..n PROVE r[p + i] = t[i]
    <2>1. p + i \in 1..l + n /\ p < p + i /\ p + i <= p + n /\ (p + i) - p = i
      BY <1>1
    <2>2. r[p + i] = t[(p + i) - p]
      BY <2>1 DEF Puts
    <2> QED BY <2>1, <2>2
  <1>3. ASSUME NEW i \in 1..l + n, ~(p < i /\ i <= p + n) PROVE r[i] \notin X
    <2>1. CASE i <= p
      BY <1>1, <2>1 DEF Puts
    <2>2. CASE p + n < i
      <3>1. i - n \in 1..l /\ r[i] = s[i - n]
        BY <1>1, <2>2 DEF Puts
      <3> QED BY <1>1, <3>1
    <2> QED BY <1>1, <1>3, <2>1, <2>2
  <1> QED BY <1>1, <1>2, <1>3 DEF Holds

LEMMA HoldsPut ==
  ASSUME NEW C, NEW X, NEW r, NEW s, NEW t, NEW w \in Seq(C), NEW l, NEW p, NEW c, NEW m, NEW n,
         Holds(s, t, m, p, X), Puts(r, s, l, c, w, n), l = Len(s), l \in Nat, n = Len(w),
         c \in Nat, c <= l, m \in Nat, m > 0, c <= p \/ p + m <= c, Chars(w) \cap X = {}
  PROVE  \E k \in Nat : Holds(r, t, m, k, X)
  <1>1. n \in Nat /\ Len(r) = l + n /\ p \in Nat /\ \A i \in 1..n : w[i] \notin X
    BY CharsOf DEF Puts, Holds
  <1> DEFINE k == IF c <= p THEN p + n ELSE p
  <1>2. k \in Nat /\ k + m <= l + n
    BY <1>1 DEF Holds
  <1>3. ASSUME NEW i \in 1..m PROVE r[k + i] = t[i]
    <2>1. s[p + i] = t[i] /\ p + i \in 1..l
      BY <1>1 DEF Holds
    <2>2. CASE c <= p
      <3>1. k + i = (p + i) + n /\ (p + i) + n \in 1..l + n /\ c + n < (p + i) + n
        BY <1>1, <2>1, <2>2
      <3>2. r[(p + i) + n] = s[((p + i) + n) - n]
        BY <3>1 DEF Puts
      <3>3. ((p + i) + n) - n = p + i
        BY <1>1
      <3> QED BY <2>1, <3>1, <3>2, <3>3
    <2>3. CASE ~(c <= p)
      <3>1. k + i = p + i /\ p + i \in 1..l + n /\ p + i <= c
        BY <1>1, <2>1, <2>3
      <3> QED BY <2>1, <3>1 DEF Puts
    <2> QED BY <2>2, <2>3
  <1>4. ASSUME NEW i \in 1..l + n, ~(k < i /\ i <= k + m) PROVE r[i] \notin X
    <2>1. CASE i <= c
      <3>1. r[i] = s[i] /\ i \in 1..l
        BY <1>1, <2>1 DEF Puts
      <3>2. ~(p < i /\ i <= p + m)
        BY <1>1, <1>4, <2>1
      <3> QED BY <3>1, <3>2 DEF Holds
    <2>2. CASE c < i /\ i <= c + n
      <3>1. i - c \in 1..n /\ r[i] = w[i - c]
        BY <1>1, <2>2 DEF Puts
      <3> QED BY <1>1, <3>1
    <2>3. CASE c + n < i
      <3>1. r[i] = s[i - n] /\ i - n \in 1..l
        BY <1>1, <2>3 DEF Puts
      <3>2. ~(p < i - n /\ i - n <= p + m)
        BY <1>1, <1>4, <2>3
      <3> QED BY <3>1, <3>2 DEF Holds
    <2> QED BY <1>1, <2>1, <2>2, <2>3
  <1>5. Holds(r, t, m, k, X)
    BY <1>1, <1>2, <1>3, <1>4 DEF Holds
  <1> HIDE DEF k
  <1> QED BY <1>2, <1>5

LEMMA HoldsCut ==
  ASSUME NEW X, NEW r, NEW s, NEW t, NEW l, NEW p, NEW c, NEW m, NEW n,
         Holds(s, t, m, p, X), Cuts(r, s, l, c, n), l = Len(s), l \in Nat, n \in Nat,
         c \in Nat, c + n <= l, m \in Nat, m > 0, c + n <= p \/ p + m <= c
  PROVE  \E k \in Nat : Holds(r, t, m, k, X)
  <1>1. Len(r) = l - n /\ p \in Nat /\ p + m <= l
    BY DEF Cuts, Holds
  <1> DEFINE k == IF c + n <= p THEN p - n ELSE p
  <1>2. k \in Nat /\ k + m <= l - n
    BY <1>1
  <1>3. ASSUME NEW i \in 1..m PROVE r[k + i] = t[i]
    <2>1. s[p + i] = t[i] /\ p + i \in 1..l
      BY <1>1 DEF Holds
    <2>2. CASE c + n <= p
      <3>1. k + i = (p - n) + i /\ (p - n) + i \in 1..l - n /\ c < (p - n) + i
            /\ ((p - n) + i) + n = p + i
        BY <1>1, <2>1, <2>2
      <3>2. r[(p - n) + i] = s[((p - n) + i) + n]
        BY <3>1 DEF Cuts
      <3> QED BY <2>1, <3>1, <3>2
    <2>3. CASE ~(c + n <= p)
      <3>1. k + i = p + i /\ p + i \in 1..l - n /\ p + i <= c
        BY <1>1, <2>1, <2>3
      <3> QED BY <2>1, <3>1 DEF Cuts
    <2> QED BY <2>2, <2>3
  <1>4. ASSUME NEW i \in 1..l - n, ~(k < i /\ i <= k + m) PROVE r[i] \notin X
    <2>1. CASE i <= c
      <3>1. r[i] = s[i] /\ i \in 1..l
        BY <1>1, <2>1 DEF Cuts
      <3>2. ~(p < i /\ i <= p + m)
        BY <1>1, <1>4, <2>1
      <3> QED BY <3>1, <3>2 DEF Holds
    <2>2. CASE c < i
      <3>1. r[i] = s[i + n] /\ i + n \in 1..l
        BY <1>1, <2>2 DEF Cuts
      <3>2. ~(p < i + n /\ i + n <= p + m)
        BY <1>1, <1>4, <2>2
      <3> QED BY <3>1, <3>2 DEF Holds
    <2> QED BY <1>1, <2>1, <2>2
  <1>5. Holds(r, t, m, k, X)
    BY <1>1, <1>2, <1>3, <1>4 DEF Holds
  <1> HIDE DEF k
  <1> QED BY <1>2, <1>5

\* What u typed is in both copies.
LEMMA TypedKept ==
  ASSUME NEW u \in User, NEW v \in User, u # v, NEW a, NEW b,
         NEW p, NEW q, NEW m, NEW n, IsEdit(a, u, p, m), IsEdit(b, v, q, n),
         a.type = "INSERT", b.type # "REPLACE"
  PROVE  /\ \E k \in Nat : Holds(Merge(a, b), a.content, m, k, Chars(Typed[u]))
         /\ \E k \in Nat : Holds(Merge(b, a), a.content, m, k, Chars(Typed[u]))
  <1> DEFINE l == Len(Base)   X == Chars(Typed[u])
  <1>1. /\ p \in Nat /\ q \in Nat /\ m \in Nat /\ n \in Nat /\ m > 0
        /\ l \in Nat /\ p <= l /\ Base \in Seq(Character)
        /\ b.type \in {"INSERT", "DELETE"} /\ b.content \in Seq(Character) /\ Len(b.content) = n
        /\ a.position = p /\ Len(a.content) = m /\ b.position = q
    BY TwoEdits, EditsAssumption
  <1>2. Chars(Base) \cap X = {} /\ (b.type = "INSERT" => Chars(b.content) \cap X = {})
    <2>1. Chars(b.content) = {b.content[i] : i \in 1..n}
      BY <1>1, CharsOf
    <2>2. Chars(Typed[v]) \cap X = {} /\ Chars(Base) \cap X = {} /\ Typed[v] \in Seq(Character)
      BY EditsAssumption
    <2>3. Chars(Typed[v]) = {Typed[v][i] : i \in 1..Len(Typed[v])} /\ Len(Typed[v]) \in Nat
      BY <2>2, CharsOf
    <2>4. ASSUME b.type = "INSERT", NEW i \in 1..n PROVE b.content[i] \in Chars(Typed[v])
      <3>1. n <= Len(Typed[v]) /\ b.content[i] = Typed[v][i]
        BY <2>4 DEF IsEdit
      <3>2. i \in 1..Len(Typed[v])
        BY <1>1, <2>3, <3>1
      <3> QED BY <2>3, <3>1, <3>2
    <2> QED BY <2>1, <2>2, <2>4
  <1>3. \E k \in Nat : Holds(Merge(b, a), a.content, m, k, X)
    <2> DEFINE s == Edited(Base, b)   r == Merge(b, a)   pos == InsertedAt(b, a)
    <2>1. s \in Seq(Character) /\ Puts(r, s, Len(s), pos, a.content, m)
      BY EditedBase, MergeOfInsert
    <2>2. pos \in Nat /\ pos <= Len(s)
      BY InsertedInside
    <2>3. Chars(s) \cap X = {}
      BY <1>1, <1>2, EditKeeps
    <2> HIDE DEF s, r, pos, X
    <2>4. Holds(r, a.content, m, pos, X)
      BY <1>1, <2>1, <2>2, <2>3, PutHolds
    <2> QED BY <2>2, <2>4 DEF r
  <1>4. \E k \in Nat : Holds(Merge(a, b), a.content, m, k, X)
    <2> DEFINE s == Edited(Base, a)   r == Merge(a, b)   pos == InsertedAt(a, b)
    <2>1. /\ s \in Seq(Character) /\ Puts(s, Base, l, p, a.content, m) /\ Len(s) = l + m
      BY EditedBase
    <2>2. Holds(s, a.content, m, p, X)
      <3>1. l = Len(Base)
        OBVIOUS
      <3> HIDE DEF s, l, X
      <3> QED BY <1>1, <1>2, <2>1, <3>1, PutHolds
    <2>3. CASE b.type = "INSERT"
      <3>1. Puts(r, s, Len(s), pos, b.content, n)
        BY <2>3, MergeOfInsert
      <3>2. pos \in Nat /\ pos <= Len(s) /\ (pos <= p \/ p + m <= pos)
        BY <1>1, <2>3, InsertedInside DEF InsertedAt
      <3> HIDE DEF s, r, pos, X
      <3>3. Len(s) \in Nat
        BY <2>1, LenProperties
      <3> QED BY <1>1, <1>2, <2>2, <2>3, <3>1, <3>2, <3>3, HoldsPut DEF r
    <2>4. CASE b.type = "DELETE"
      <3>1. PICK c \in Nat, k \in Nat :
              Cuts(r, s, Len(s), c, k) /\ c + k <= Len(s) /\ (c + k <= p \/ p + m <= c)
        BY <2>4, DeleteTakes
      <3> HIDE DEF s, r, X
      <3>2. Len(s) \in Nat
        BY <2>1, LenProperties
      <3> QED BY <1>1, <2>2, <3>1, <3>2, HoldsCut DEF r
    <2> QED BY <1>1, <2>3, <2>4
  <1> QED BY <1>3, <1>4

-----------------------------------------------------------------------------
(* The exchange.                                                           *)

LEMMA PeerFacts ==
  ASSUME NEW u \in User
  PROVE  /\ Peer(u) \in User /\ Peer(u) # u
         /\ \A v \in User : v # u => v = Peer(u)
         /\ Peer(Peer(u)) = u
  <1>1. PICK x, y \in User : x # y /\ User = {x, y}
    BY EditsAssumption
  <1>2. ASSUME NEW w \in User
        PROVE  Peer(w) \in User /\ Peer(w) # w /\ \A v \in User : v # w => v = Peer(w)
    <2>1. \E v \in User : v # w
      BY <1>1
    <2>2. Peer(w) \in User /\ Peer(w) # w
      BY <2>1 DEF Peer
    <2> QED BY <1>1, <2>2
  <1> QED BY <1>2

\* Before it has heard of the other's edit, a user's copy is the base text with
\* its own; after, it is the merge of the two.
EInv ==
  /\ own = [u \in User |-> own[u]] /\ text = [u \in User |-> text[u]] /\ got = [u \in User |-> got[u]]
  /\ \A u \in User : own[u] = <<>> \/ own[u] \in Edits(u)
  /\ \A u \in User :
       got[u] = "none" => \/ own[u] = <<>> /\ text[u] = Base
                          \/ own[u] \in Edits(u) /\ text[u] = Edited(Base, own[u])
  /\ \A u \in User :
       got[u] # "none" => /\ \A v \in User : own[v] # <<>>
                          /\ got[u] = Outcome(own[u], own[Peer(u)])
                          /\ text[u] = Merge(own[u], own[Peer(u)])

LEMMA EInvInit == ExchangeInit => EInv
  BY DEF ExchangeInit, EInv

LEMMA EInvNext == EInv /\ [ExchangeNext]_exchangeVars => EInv'
  <1> SUFFICES ASSUME EInv, [ExchangeNext]_exchangeVars PROVE EInv'
    OBVIOUS
  <1>1. ASSUME NEW u \in User, NEW op \in Edits(u), EditLocally(u, op) PROVE EInv'
    <2>1. /\ own[u] = <<>> /\ own' = [own EXCEPT ![u] = op] /\ got' = got
          /\ text' = [text EXCEPT ![u] = Edited(text[u], op)]
      BY <1>1 DEF EditLocally
    <2>2. \A v \in User : got[v] = "none"
      BY <2>1 DEF EInv
    <2>3. /\ own'[u] = op /\ text'[u] = Edited(Base, op)
          /\ \A v \in User \ {u} : own'[v] = own[v] /\ text'[v] = text[v]
      <3>1. text[u] = Base
        <4>1. ASSUME own[u] \in Edits(u) PROVE FALSE
          <5>1. IsEdit(own[u], u, own[u].position, Len(own[u].content))
            BY <4>1, EditFacts
          <5> QED BY <2>1, <5>1 DEF IsEdit, Operations
        <4> QED BY <2>2, <4>1 DEF EInv
      <3> QED BY <2>1, <3>1 DEF EInv
    <2>4. /\ own' = [v \in User |-> own'[v]] /\ text' = [v \in User |-> text'[v]]
          /\ got' = [v \in User |-> got'[v]]
      BY <2>1 DEF EInv
    <2> QED BY <2>1, <2>2, <2>3, <2>4 DEF EInv
  <1>2. ASSUME NEW u \in User, ReceiveRemote(u) PROVE EInv'
    <2> DEFINE a == own[u]   b == own[Peer(u)]
    <2>1. Peer(u) \in User
      BY PeerFacts
    <2>2. /\ \A v \in User : own[v] # <<>>
          /\ got[u] = "none" /\ own' = own
          /\ got' = [got EXCEPT ![u] = ResultOf(text[u], 1, Delivered(b, a))]
          /\ text' = [text EXCEPT ![u] = IF ResultOf(text[u], 1, Delivered(b, a)) = "SUCCESS"
                                           THEN Edited(text[u], Delivered(b, a)) ELSE text[u]]
      BY <1>2 DEF ReceiveRemote, Delivered
    <2>3. text[u] = Edited(Base, a)
      BY <2>2 DEF EInv
    <2>4. /\ got'[u] = Outcome(a, b) /\ text'[u] = Merge(a, b)
          /\ \A v \in User \ {u} : got'[v] = got[v] /\ text'[v] = text[v]
      BY <2>2, <2>3 DEF EInv, Outcome, Merge
    <2>5. Outcome(a, b) # "none"
      BY DEF Outcome, ResultOf
    <2>6. /\ own' = [v \in User |-> own'[v]] /\ text' = [v \in User |-> text'[v]]
          /\ got' = [v \in User |-> got'[v]]
      BY <2>2 DEF EInv
    <2> QED BY <2>1, <2>2, <2>4, <2>5, <2>6 DEF EInv
  <1>3. CASE UNCHANGED exchangeVars
    BY <1>3 DEF EInv, exchangeVars
  <1> QED BY <1>1, <1>2, <1>3 DEF ExchangeNext

THEOREM ExchangeInvariant == ExchangeSpec => []EInv
  BY EInvInit, EInvNext, PTL DEF ExchangeSpec

\* The operations of an exchange that is over.
LEMMA OverFacts ==
  ASSUME EInv, NEW u \in User, got[u] # "none"
  PROVE  LET a == own[u]
             b == own[Peer(u)]
         IN  /\ Peer(u) \in User /\ u # Peer(u) /\ a \in Edits(u) /\ b \in Edits(Peer(u))
             /\ IsEdit(a, u, a.position, Len(a.content))
             /\ IsEdit(b, Peer(u), b.position, Len(b.content))
             /\ got[u] = Outcome(a, b) /\ text[u] = Merge(a, b)
  <1>1. Peer(u) \in User /\ u # Peer(u)
    BY PeerFacts
  <1>2. own[u] \in Edits(u) /\ own[Peer(u)] \in Edits(Peer(u))
    BY <1>1 DEF EInv
  <1> QED BY <1>1, <1>2, EditFacts DEF EInv

(* Copies hold characters of the base text and of what the users type.     *)
THEOREM ExchangeTypeCorrect == ExchangeSpec => []ExchangeTypeOK
  <1>1. ASSUME EInv PROVE ExchangeTypeOK
    <2>1. ASSUME NEW u \in User PROVE text[u] \in Seq(Character)
      <3>1. CASE got[u] = "none"
        <4>1. CASE own[u] = <<>> /\ text[u] = Base
          BY <4>1, EditsAssumption
        <4>2. CASE own[u] \in Edits(u) /\ text[u] = Edited(Base, own[u])
          BY <4>2, EditFacts, EditedBase
        <4> QED BY <1>1, <3>1, <4>1, <4>2 DEF EInv
      <3>2. CASE got[u] # "none"
        BY <1>1, <3>2, OverFacts, MergeIsText
      <3> QED BY <3>1, <3>2
    <2>2. \A u \in User : Chars(text[u]) \subseteq Character
      BY <2>1, CharsOf
    <2> QED BY <1>1, <2>2 DEF ExchangeTypeOK, EInv, Character
  <1> QED BY <1>1, ExchangeInvariant, PTL

(* Inserts and deletes in any two orders leave the copies with one text,   *)
(* whatever the texts and positions, unless the edits are entangled.       *)
THEOREM ExchangeConverges == ExchangeSpec => []ConvergesUnlessEntangled
  <1>1. ASSUME EInv PROVE ConvergesUnlessEntangled
    <2>1. SUFFICES ASSUME NEW u \in User, Exchanged, "REPLACE" \notin Types,
                          ~Entangled(own[u], own[Peer(u)])
                   PROVE  text[u] = text[Peer(u)]
      BY DEF ConvergesUnlessEntangled
    <2> DEFINE v == Peer(u)
    <2>2. v \in User /\ u # v /\ Peer(v) = u
      BY PeerFacts
    <2>3. got[u] # "none" /\ got[v] # "none"
      BY <2>1, <2>2 DEF Exchanged
    <2>4. /\ own[u] \in Edits(u) /\ own[v] \in Edits(v)
          /\ text[u] = Merge(own[u], own[v]) /\ text[v] = Merge(own[v], own[u])
      BY <1>1, <2>2, <2>3, OverFacts
    <2>5. own[u].type # "REPLACE" /\ own[v].type # "REPLACE"
      BY <2>1, <2>2 DEF Types
    <2> HIDE DEF v
    <2>6. ~Entangled(own[u], own[v])
      BY <2>1 DEF v
    <2> QED BY <2>2, <2>4, <2>5, <2>6, MergesAgree DEF v
  <1> QED BY <1>1, ExchangeInvariant, PTL

(* What nobody deleted is in both copies, entangled or not.                *)
THEOREM ExchangeKeepsText == ExchangeSpec => []UntouchedTextSurvives
  <1>1. ASSUME EInv PROVE UntouchedTextSurvives
    <2>1. SUFFICES ASSUME Exchanged, "REPLACE" \notin Types, NEW c \in Chars(Base),
                          \A w \in User : own[w].type = "DELETE" => c \notin Chars(own[w].content),
                          NEW u \in User
                   PROVE  c \in Chars(text[u])
      BY DEF UntouchedTextSurvives
    <2>2. Peer(u) \in User /\ got[u] # "none"
      BY <2>1, PeerFacts DEF Exchanged
    <2>3. own[u].type # "REPLACE" /\ own[Peer(u)].type # "REPLACE"
      BY <2>1, <2>2 DEF Types
    <2> QED BY <1>1, <2>1, <2>2, <2>3, OverFacts, BaseKept
  <1> QED BY <1>1, ExchangeInvariant, PTL

(* What a user typed is in both copies, once and in one piece.             *)
THEOREM ExchangeKeepsTyping == ExchangeSpec => []TypedTextSurvives
  <1>1. ASSUME EInv PROVE TypedTextSurvives
    <2> DEFINE n(u) == Len(own[u].content)
    <2>1. SUFFICES ASSUME Exchanged, "REPLACE" \notin Types, NEW u \in User, NEW v \in User,
                          own[u].type = "INSERT"
                   PROVE  \E p \in 0..Len(text[v]) - n(u) :
                            /\ \A i \in 1..n(u) : text[v][p + i] = own[u].content[i]
                            /\ \A i \in DOMAIN text[v] \ (p + 1..p + n(u)) :
                                 text[v][i] \notin Chars(Typed[u])
      BY DEF TypedTextSurvives
    <2> DEFINE w == Peer(u)
    <2>2. w \in User /\ u # w /\ Peer(w) = u /\ (v = u \/ v = w)
      BY PeerFacts
    <2>3. got[u] # "none" /\ got[w] # "none" /\ own[w].type # "REPLACE"
      BY <2>1, <2>2 DEF Exchanged, Types
    <2>4. /\ IsEdit(own[u], u, own[u].position, n(u))
          /\ IsEdit(own[w], w, own[w].position, Len(own[w].content))
          /\ text[u] = Merge(own[u], own[w])
      BY <1>1, <2>3, OverFacts
    <2>5. text[w] = Merge(own[w], own[u])
      BY <1>1, <2>2, <2>3, OverFacts
    <2>6. text[u] \in Seq(Character) /\ text[w] \in Seq(Character)
      BY <2>2, <2>4, <2>5, MergeIsText
    <2> HIDE DEF w
    <2>7. PICK p \in Nat : Holds(text[v], own[u].content, n(u), p, Chars(Typed[u]))
      BY <2>1, <2>2, <2>3, <2>4, <2>5, TypedKept
    <2>8. text[v] \in Seq(Character) /\ Len(text[v]) \in Nat /\ DOMAIN text[v] = 1..Len(text[v])
      BY <2>2, <2>6, LenProperties
    <2>9. n(u) \in Nat
      BY <2>4 DEF IsEdit
    <2> HIDE DEF n
    <2>10. p \in 0..Len(text[v]) - n(u)
      BY <2>7, <2>8, <2>9 DEF Holds
    <2>11. \A i \in DOMAIN text[v] \ (p + 1..p + n(u)) : text[v][i] \notin Chars(Typed[u])
      BY <2>7, <2>8, <2>9 DEF Holds
    <2> QED BY <2>7, <2>10, <2>11 DEF Holds
  <1> QED BY <1>1, ExchangeInvariant, PTL

(* Nothing is turned away but what meets the receiver's own delete.        *)
THEOREM ExchangeFits == ExchangeSpec => []TransformedFits
  <1>1. ASSUME EInv PROVE TransformedFits
    <2>1. ASSUME NEW u \in User, got[u] \notin {"none", "SUCCESS"}
          PROVE  LET mine == own[u]
                     theirs == own[Peer(u)]
                 IN  /\ mine.type = "DELETE" /\ IsConflict(mine, theirs)
                     /\ \/ theirs.type = "REPLACE"
                        \/ theirs.type = "DELETE" /\ Chars(theirs.content) \subseteq Chars(mine.content)
      <3> DEFINE a == own[u]   b == own[Peer(u)]
      <3>1. /\ Peer(u) \in User /\ u # Peer(u) /\ a \in Edits(u) /\ b \in Edits(Peer(u))
            /\ Outcome(a, b) # "SUCCESS"
        BY <1>1, <2>1, OverFacts
      <3> HIDE DEF a, b
      <3>2. /\ a.type = "DELETE" /\ IsConflict(a, b)
            /\ \/ b.type = "REPLACE"
               \/ b.type = "DELETE" /\ Chars(b.content) \subseteq Chars(a.content)
        BY <3>1, MergeFits, Zenon
      <3> QED BY <3>2 DEF a, b
    <2> QED BY <2>1 DEF TransformedFits
  <1> QED BY <1>1, ExchangeInvariant, PTL

(* Both sides of a conflict detect it and, unless the timestamps are equal,*)
(* resolve it alike.                                                       *)
THEOREM ExchangeResolverAgrees == ExchangeSpec => []ResolverAgrees
  <1>1. ASSUME EInv PROVE ResolverAgrees
    <2>1. SUFFICES ASSUME NEW u \in User, own[u] # <<>>, own[Peer(u)] # <<>>
                   PROVE  LET mine == own[u]
                              theirs == own[Peer(u)]
                          IN  /\ DetectConflict(mine, theirs) = DetectConflict(theirs, mine)
                              /\ DetectConflict(mine, theirs) = "POSITION_CONFLICT" <=> IsConflict(mine, theirs)
                              /\ mine.timestamp # theirs.timestamp =>
                                   ResolveConflict(mine, theirs) = ResolveConflict(theirs, mine)
      BY DEF ResolverAgrees
    <2> DEFINE a == own[u]   b == own[Peer(u)]
    <2>2. Peer(u) \in User /\ u # Peer(u)
      BY PeerFacts
    <2>3. a \in Edits(u) /\ b \in Edits(Peer(u))
      BY <1>1, <2>1, <2>2 DEF EInv
    <2>4. /\ IsEdit(a, u, a.position, Len(a.content))
          /\ IsEdit(b, Peer(u), b.position, Len(b.content))
      BY <2>2, <2>3, EditFacts
    <2> HIDE DEF a, b
    <2>5. /\ a.userId # b.userId /\ a.version = 1 /\ b.version = 1
          /\ a.timestamp \in Nat /\ b.timestamp \in Nat
          /\ a.position \in Nat /\ b.position \in Nat /\ EndOf(a) \in Nat /\ EndOf(b) \in Nat
          /\ a.type # "RETAIN"
      <3>1. a.version = 1 /\ b.version = 1 /\ a.timestamp \in Nat /\ b.timestamp \in Nat
        BY <2>4, EditsAssumption DEF IsEdit
      <3> DEFINE p == a.position   q == b.position   m == Len(a.content)   n == Len(b.content)
      <3>2. IsEdit(a, u, p, m) /\ IsEdit(b, Peer(u), q, n)
        BY <2>4
      <3> HIDE DEF p, q, m, n
      <3>3. /\ p \in Nat /\ q \in Nat /\ m \in Nat /\ n \in Nat /\ a.userId # b.userId
            /\ EndOf(a) = p + m /\ EndOf(b) = q + n /\ a.type \in {"INSERT", "DELETE", "REPLACE"}
        BY <2>2, <3>2, TwoEdits
      <3> QED BY <3>1, <3>3 DEF p, q
    <2>6. /\ DetectConflict(a, b) = DetectConflict(b, a)
          /\ DetectConflict(a, b) = "POSITION_CONFLICT" <=> IsConflict(a, b)
      <3>1. {a.type, b.type} # {"RETAIN"} /\ {b.type, a.type} # {"RETAIN"}
        BY <2>5
      <3> QED BY <2>5, <3>1 DEF DetectConflict, CheckPositionConflict, IsConflict, Before
    <2>7. a.timestamp # b.timestamp => ResolveConflict(a, b) = ResolveConflict(b, a)
      BY <2>5 DEF ResolveConflict
    <2> QED BY <2>6, <2>7 DEF a, b
  <1> QED BY <1>1, ExchangeInvariant, PTL
=============================================================================
