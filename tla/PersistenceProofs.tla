-------------------------- MODULE PersistenceProofs --------------------------
(***************************************************************************)
(* Proofs about Persistence, for any operations, versions, rows, snapshots *)
(* and lives of the document.  What recovery rebuilds is a fact about the  *)
(* loops of RecoveryManager and about what the live document remembers of  *)
(* itself; the loops are unfolded by induction on the rows, over the set   *)
(* of the numbers for which a claim holds.                                 *)
(***************************************************************************)
EXTENDS Persistence, FiniteSetTheorems, SequenceTheorems, WellFoundedInduction, TLAPS

-----------------------------------------------------------------------------
(* Induction on the natural numbers, and up to one, for a set of them.     *)
Less == {p \in Nat \X Nat : p[1] < p[2]}

LEMMA LessWellFounded == IsWellFoundedOn(Less, Nat)
  BY NatLessThanWellFounded, Zenon DEF OpToRel, Less

LEMMA UpTo ==
  ASSUME NEW n \in Nat, NEW T, 0 \in T, \A i \in 1..n : i - 1 \in T => i \in T
  PROVE  \A i \in 0..n : i \in T
  <1> DEFINE U == (0..n) \ T
  <1>1. SUFFICES ASSUME U # {} PROVE FALSE
    OBVIOUS
  <1>2. U \subseteq Nat
    OBVIOUS
  <1>3. PICK x \in U : \A y \in U : <<y, x>> \notin Less
    BY LessWellFounded, <1>1, <1>2, WFMin, Zenon
  <1>4. x # 0 /\ x - 1 \in 0..n /\ x \in 1..n /\ x - 1 < x
    BY <1>3
  <1>5. x - 1 \in U
    BY <1>3, <1>4
  <1>6. <<x - 1, x>> \in Less
    BY <1>4 DEF Less
  <1> QED BY <1>3, <1>5, <1>6

(* A loop over 1..n that starts with a and whose i-th iteration applies    *)
(* F[i], on states in S; f[i] is its state after i iterations.             *)
Passes(S, n) == [1..n -> [S -> S]]

IsLoop(f, S, n, a, F) ==
  /\ f \in [0..n -> S] /\ f[0] = a
  /\ \A i \in 1..n : f[i] = F[i][f[i - 1]]

LEMMA LoopExists ==
  ASSUME NEW S, NEW n, NEW a, NEW F, n \in Nat, a \in S, F \in Passes(S, n)
  PROVE  \E f : IsLoop(f, S, n, a, F)
  <1> USE DEF Passes
  <1> DEFINE Body(f, k) == [i \in 0..k |-> IF i = 0 THEN a ELSE F[i][f[i - 1]]]
             T == {k \in Nat : \E f \in [0..k -> S] : f = Body(f, k)}
  <1>1. 0 \in T
    <2> DEFINE f == [i \in 0..0 |-> a]
    <2>1. f \in [0..0 -> S] /\ f = Body(f, 0)
      OBVIOUS
    <2> QED BY <2>1
  <1>2. ASSUME NEW k \in 1..n, k - 1 \in T PROVE k \in T
    <2>1. PICK f \in [0..k - 1 -> S] : f = Body(f, k - 1)
      BY <1>2
    <2> DEFINE g == [i \in 0..k |-> IF i = k THEN F[k][f[k - 1]] ELSE f[i]]
    <2>2. g \in [0..k -> S]
      OBVIOUS
    <2>3. ASSUME NEW i \in 0..k PROVE g[i] = IF i = 0 THEN a ELSE F[i][g[i - 1]]
      <3>1. CASE i = k
        <4>1. g[i - 1] = f[k - 1] /\ i # 0
          BY <3>1
        <4> QED BY <3>1, <4>1
      <3>2. CASE i # k /\ i # 0
        <4>1. g[i - 1] = f[i - 1] /\ g[i] = f[i] /\ i \in 0..k - 1
          BY <3>2
        <4> QED BY <2>1, <3>2, <4>1
      <3>3. CASE i # k /\ i = 0
        BY <2>1, <3>3
      <3> QED BY <3>1, <3>2, <3>3
    <2>4. g = Body(g, k)
      BY <2>3
    <2>5. \E x \in [0..k -> S] : x = Body(x, k)
      <3> HIDE DEF g
      <3> WITNESS g \in [0..k -> S]
      <3> QED BY <2>4
    <2>6. k \in Nat
      OBVIOUS
    <2> HIDE DEF Body
    <2> QED BY <2>5, <2>6, Zenon
  <1>3. n \in T
    <2>1. n \in 0..n
      OBVIOUS
    <2> HIDE DEF T
    <2> QED BY <1>1, <1>2, <2>1, UpTo
  <1>4. PICK f \in [0..n -> S] : f = Body(f, n)
    BY <1>3
  <1>5. f[0] = a /\ \A i \in 1..n : f[i] = F[i][f[i - 1]]
    BY <1>4
  <1>6. IsLoop(f, S, n, a, F)
    BY <1>5 DEF IsLoop
  <1> QED BY <1>6, Zenon

-----------------------------------------------------------------------------
(* The rows of a table that are kept.                                      *)
LEMMA RowsLoop ==
  ASSUME NEW X, NEW rows \in Seq(X), NEW kept
  PROVE  \E f : /\ f[0] = <<>>
                /\ \A i \in 1..Len(rows) :
                     f[i] = IF i \in kept THEN Append(f[i - 1], rows[i]) ELSE f[i - 1]
                /\ Rows(rows, kept) = f[Len(rows)]
  <1> DEFINE n == Len(rows)
             Pass(x, i) == IF i \in kept THEN Append(x, rows[i]) ELSE x
             Body(f) == [i \in 0..n |-> IF i = 0 THEN <<>> ELSE Pass(f[i - 1], i)]
             F == [i \in 1..n |-> [x \in Seq(X) |-> Pass(x, i)]]
             g == CHOOSE x : x = Body(x)
  <1>1. n \in Nat /\ <<>> \in Seq(X) /\ \A i \in 1..n : rows[i] \in X
    BY LenProperties, ElementOfSeq
  <1>2. Rows(rows, kept) = g[n]
    BY DEF Rows
  <1>3. \A x \in Seq(X), i \in 1..n : Pass(x, i) \in Seq(X)
    BY <1>1, AppendProperties
  <1> HIDE DEF Pass, n
  <1>4. F \in [1..n -> [Seq(X) -> Seq(X)]]
    BY <1>3
  <1>5. PICK f \in [0..n -> Seq(X)] : f[0] = <<>> /\ \A i \in 1..n : f[i] = F[i][f[i - 1]]
    <2> DEFINE S == Seq(X)   a == <<>>
    <2>1. n \in Nat /\ a \in S /\ F \in Passes(S, n)
      BY <1>1, <1>4 DEF Passes
    <2> HIDE DEF F, S, a
    <2>2. \E f : IsLoop(f, S, n, a, F)
      BY <2>1, LoopExists, Zenon
    <2> QED BY <2>2 DEF S, a, IsLoop
  <1>6. \A i \in 1..n : i - 1 \in 0..n /\ i # 0 /\ i \in 0..n /\ f[i] = Pass(f[i - 1], i)
    <2>1. \A i \in 1..n, x \in Seq(X) : F[i][x] = Pass(x, i)
      OBVIOUS
    <2>2. \A i \in 1..n : i - 1 \in 0..n /\ i # 0 /\ i \in 0..n
      BY <1>1
    <2> HIDE DEF F
    <2> QED BY <1>5, <2>1, <2>2
  <1>7. f = Body(f)
    BY <1>1, <1>5, <1>6
  <1>8. g = Body(g)
    BY <1>7
  <1>9. g[0] = <<>> /\ \A i \in 1..n : g[i] = Pass(g[i - 1], i)
    <2> HIDE DEF g
    <2> QED BY <1>1, <1>8
  <1> QED BY <1>2, <1>9 DEF Pass, n

(* They are the kept rows of the table, and no others.                     *)
LEMMA RowsKept ==
  ASSUME NEW X, NEW rows \in Seq(X), NEW kept
  PROVE  LET r == Rows(rows, kept)
         IN  /\ r \in Seq(X) /\ Len(r) <= Len(rows)
             /\ \A j \in 1..Len(r) : \E i \in 1..Len(rows) : i \in kept /\ r[j] = rows[i]
             /\ \A i \in 1..Len(rows) : i \in kept => \E j \in 1..Len(r) : r[j] = rows[i]
  <1> DEFINE n == Len(rows)
             Step(x, i) == IF i \in kept THEN Append(x, rows[i]) ELSE x
             Fine(x, k) ==
               /\ x \in Seq(X) /\ Len(x) <= k
               /\ \A j \in 1..Len(x) : \E i \in 1..k : i \in kept /\ x[j] = rows[i]
               /\ \A i \in 1..k : i \in kept => \E j \in 1..Len(x) : x[j] = rows[i]
  <1>1. PICK f : /\ f[0] = <<>> /\ \A i \in 1..n : f[i] = Step(f[i - 1], i)
                 /\ Rows(rows, kept) = f[n]
    BY RowsLoop
  <1>2. Fine(<<>>, 0) /\ n \in Nat /\ n \in 0..n
    BY LenProperties
  <1>3. ASSUME NEW k \in 1..n, NEW x, Fine(x, k - 1) PROVE Fine(Step(x, k), k)
    <2>1. k \in Nat /\ rows[k] \in X /\ x \in Seq(X) /\ Len(x) \in Nat
      BY <1>2, <1>3, ElementOfSeq, LenProperties
    <2> DEFINE y == Append(x, rows[k])
    <2>2. /\ y \in Seq(X) /\ Len(y) = Len(x) + 1 /\ y[Len(y)] = rows[k]
          /\ \A j \in 1..Len(x) : y[j] = x[j]
      BY <2>1, AppendProperties
    <2>5. k \in 1..k /\ \A i \in 1..k - 1 : i \in 1..k
      BY <2>1
    <2> HIDE DEF y, n
    <2>3. CASE k \in kept
      <3>1. \A j \in 1..Len(y) : \E i \in 1..k : i \in kept /\ y[j] = rows[i]
        <4> SUFFICES ASSUME NEW j \in 1..Len(y)
                     PROVE  \E i \in 1..k : i \in kept /\ y[j] = rows[i]
          OBVIOUS
        <4>1. CASE j = Len(y)
          BY <2>1, <2>2, <2>3, <4>1
        <4>2. CASE j # Len(y)
          <5>1. j \in 1..Len(x)
            BY <2>1, <2>2, <4>2
          <5>2. PICK i \in 1..k - 1 : i \in kept /\ x[j] = rows[i]
            BY <1>3, <5>1
          <5> QED BY <2>2, <5>1, <5>2, <2>5
        <4> QED BY <4>1, <4>2
      <3>2. \A i \in 1..k : i \in kept => \E j \in 1..Len(y) : y[j] = rows[i]
        <4> SUFFICES ASSUME NEW i \in 1..k, i \in kept PROVE \E j \in 1..Len(y) : y[j] = rows[i]
          OBVIOUS
        <4>1. CASE i = k
          BY <2>1, <2>2, <4>1
        <4>2. CASE i # k
          <5>1. PICK j \in 1..Len(x) : x[j] = rows[i]
            BY <1>3, <2>1, <4>2
          <5>2. j \in 1..Len(y) /\ y[j] = rows[i]
            BY <2>1, <2>2, <5>1
          <5> QED BY <5>2
        <4> QED BY <4>1, <4>2
      <3>3. Len(y) <= k /\ Step(x, k) = y
        BY <1>3, <2>1, <2>2, <2>3 DEF y
      <3> HIDE DEF Step
      <3> QED BY <2>2, <3>1, <3>2, <3>3
    <2>4. CASE k \notin kept
      <3>1. Step(x, k) = x /\ Len(x) <= k /\ x \in Seq(X)
        BY <1>3, <2>1, <2>4
      <3>2. \A j \in 1..Len(x) : \E i \in 1..k : i \in kept /\ x[j] = rows[i]
        BY <1>3, <2>5
      <3>3. \A i \in 1..k : i \in kept => i \in 1..k - 1
        BY <2>1, <2>4
      <3>4. \A i \in 1..k : i \in kept => \E j \in 1..Len(x) : x[j] = rows[i]
        BY <1>3, <3>3
      <3> HIDE DEF Step
      <3> QED BY <3>1, <3>2, <3>4
    <2> QED BY <2>3, <2>4
  <1> DEFINE T == {k \in 0..n : Fine(f[k], k)}
  <1> HIDE DEF Fine, Step, n
  <1>4. 0 \in T
    BY <1>1, <1>2
  <1>5. \A k \in 1..n : k - 1 \in T => k \in T
    BY <1>1, <1>2, <1>3
  <1>6. n \in T
    <2> HIDE DEF T
    <2> QED BY <1>2, <1>4, <1>5, UpTo
  <1> QED BY <1>1, <1>6 DEF Fine, n

-----------------------------------------------------------------------------
(* Documents.                                                              *)
Snapshots == [version : 0..MaxVersion, content : Seq(Char)]

Docs ==
  [content : Seq(Char), version : 0..MaxVersion,
   past : Seq(Seq(Char) \cup {Unknown}), line : Seq(Op \cup {Unknown})]

\* From the oldest version it knows on, a document remembers a line of
\* operations, each of which could be applied to the text before it.
Remembers(d) ==
  /\ Len(d.past) = d.version + 1 /\ Len(d.line) = d.version
  /\ d.past[d.version + 1] = d.content
  /\ \A v \in 1..d.version : d.past[v] # Unknown =>
       /\ d.line[v] \in Op /\ d.past[v + 1] # Unknown
       /\ ResultOf(d.past[v], v - 1, d.line[v]) = "SUCCESS"
       /\ d.past[v + 1] = Edited(d.past[v], d.line[v])

Good == {d \in Docs : Remembers(d)}

LEMMA EditedType ==
  ASSUME NEW s \in Seq(Char), NEW op \in Op, op.type = "RETAIN" \/ op.position <= Len(s)
  PROVE  Edited(s, op) \in Seq(Char)
  <1> DEFINE p == op.position   t == op.content
  <1>1. p \in Nat /\ t \in Seq(Char) /\ Len(t) \in Nat /\ op.type \in OperationType
    BY PersistenceAssumption, WordModAssumption
  <1>2. \A m \in Nat \ {0} : SubSeq(s, m, Len(s)) \in Seq(Char)
    BY SubSeqProperties, ElementOfSeq, LenProperties
  <1>3. p <= Len(s) => SubSeq(s, 1, p) \in Seq(Char)
    BY <1>1, SubSeqProperties, ElementOfSeq, LenProperties
  <1>4. p + 1 \in Nat \ {0} /\ p + Len(t) + 1 \in Nat \ {0}
    BY <1>1
  <1> HIDE DEF p, t
  <1>5. p <= Len(s) => /\ InsertAt(s, p, t) \in Seq(Char)
                       /\ EraseAt(s, p, Len(t)) \in Seq(Char)
                       /\ ReplaceAt(s, p, t) \in Seq(Char)
    BY <1>1, <1>2, <1>3, <1>4, ConcatProperties DEF InsertAt, EraseAt, ReplaceAt
  <1> QED BY <1>1, <1>5 DEF Edited, OperationType, p, t

(* A document rebuilt from a snapshot remembers nothing before it.         *)
LEMMA FromGood ==
  ASSUME NEW s \in Snapshots
  PROVE  From(s) \in Good
  <1> DEFINE n == s.version   u == [v \in 1..n |-> Unknown]   d == From(s)
  <1>1. n \in Nat /\ n \in 0..MaxVersion /\ s.content \in Seq(Char)
    BY PersistenceAssumption DEF Snapshots
  <1>2. /\ u \in Seq(Seq(Char) \cup {Unknown}) /\ u \in Seq(Op \cup {Unknown}) /\ Len(u) = n
        /\ \A v \in 1..n : u[v] = Unknown
    BY <1>1
  <1> HIDE DEF u
  <1>3. /\ Append(u, s.content) \in Seq(Seq(Char) \cup {Unknown})
        /\ Len(Append(u, s.content)) = n + 1 /\ Append(u, s.content)[n + 1] = s.content
        /\ \A v \in 1..n : Append(u, s.content)[v] = Unknown
    BY <1>1, <1>2, AppendProperties
  <1>4. /\ d.content = s.content /\ d.version = n /\ d.past = Append(u, s.content) /\ d.line = u
        /\ d = [content |-> s.content, version |-> n, past |-> Append(u, s.content), line |-> u]
    BY DEF From, u
  <1> HIDE DEF d, n
  <1>5. d \in Docs
    BY <1>1, <1>2, <1>3, <1>4 DEF Docs
  <1>6. Remembers(d)
    BY <1>2, <1>3, <1>4 DEF Remembers
  <1> QED BY <1>5, <1>6 DEF Good, d

(* Applying an operation keeps what is remembered and adds to it.          *)
LEMMA TakeGood ==
  ASSUME NEW d \in Good, NEW op \in Op
  PROVE  /\ Take(d, op) \in Good
         /\ ResultOf(d.content, d.version, op) = "SUCCESS" =>
              /\ op.version = d.version + 1
              /\ Take(d, op).version = d.version + 1
              /\ Take(d, op).content = Edited(d.content, op)
         /\ ResultOf(d.content, d.version, op) # "SUCCESS" => Take(d, op) = d
  <1> DEFINE n == d.version   text == Edited(d.content, op)   e == Take(d, op)
  <1>1. CASE ResultOf(d.content, n, op) # "SUCCESS"
    BY <1>1 DEF Take
  <1>2. CASE ResultOf(d.content, n, op) = "SUCCESS"
    <2>1. op.version = n + 1 /\ Executes(d.content, op)
      BY <1>2 DEF ResultOf
    <2>2. /\ n \in Nat /\ n + 1 \in 0..MaxVersion /\ d.content \in Seq(Char)
          /\ d.past \in Seq(Seq(Char) \cup {Unknown}) /\ d.line \in Seq(Op \cup {Unknown})
          /\ Len(d.past) = n + 1 /\ Len(d.line) = n /\ d.past[n + 1] = d.content
      BY <2>1, PersistenceAssumption DEF Good, Docs, Remembers
    <2>3. text \in Seq(Char)
      BY <2>1, <2>2, EditedType DEF Executes
    <2> HIDE DEF text
    <2>4. /\ Append(d.past, text) \in Seq(Seq(Char) \cup {Unknown})
          /\ Len(Append(d.past, text)) = n + 2 /\ Append(d.past, text)[n + 2] = text
          /\ \A v \in 1..n + 1 : Append(d.past, text)[v] = d.past[v]
      <3> DEFINE S == Seq(Char) \cup {Unknown}
      <3>1. d.past \in Seq(S) /\ text \in S /\ Len(d.past) = n + 1 /\ n \in Nat
        BY <2>2, <2>3
      <3> HIDE DEF S
      <3>2. /\ Append(d.past, text) \in Seq(S) /\ Len(Append(d.past, text)) = Len(d.past) + 1
            /\ Append(d.past, text)[Len(d.past) + 1] = text
            /\ \A v \in 1..Len(d.past) : Append(d.past, text)[v] = d.past[v]
        BY <3>1, AppendProperties
      <3>3. (n + 1) + 1 = n + 2
        BY <3>1
      <3> QED BY <3>1, <3>2, <3>3 DEF S
    <2>9. /\ Append(d.line, op) \in Seq(Op \cup {Unknown})
          /\ Len(Append(d.line, op)) = n + 1 /\ Append(d.line, op)[n + 1] = op
          /\ \A v \in 1..n : Append(d.line, op)[v] = d.line[v]
      BY <2>2, AppendProperties
    <2>5. e = [content |-> text, version |-> n + 1, past |-> Append(d.past, text),
               line |-> Append(d.line, op)]
      BY <1>2 DEF Take, text
    <2>6. e \in Docs
      BY <2>2, <2>3, <2>4, <2>5, <2>9 DEF Docs
    <2>7. ASSUME NEW v \in 1..n + 1, e.past[v] # Unknown
          PROVE  /\ e.line[v] \in Op /\ e.past[v + 1] # Unknown
                 /\ ResultOf(e.past[v], v - 1, e.line[v]) = "SUCCESS"
                 /\ e.past[v + 1] = Edited(e.past[v], e.line[v])
      <3>1. CASE v = n + 1
        <4>1. /\ e.past[v] = d.content /\ e.line[v] = op /\ e.past[v + 1] = text /\ v - 1 = n
          BY <2>2, <2>4, <2>5, <2>9, <3>1
        <4> QED BY <1>2, <2>3, <4>1, PersistenceAssumption DEF text
      <3>2. CASE v # n + 1
        <4>0. v \in 1..n /\ v + 1 \in 1..n + 1
          BY <2>2, <3>2
        <4>1. /\ e.past[v] = d.past[v] /\ e.line[v] = d.line[v]
              /\ e.past[v + 1] = d.past[v + 1]
          <5>1. e.past = Append(d.past, text) /\ e.line = Append(d.line, op)
            BY <2>5
          <5> QED BY <2>4, <2>9, <4>0, <5>1
        <4> QED BY <4>0, <2>7, <4>1 DEF Good, Remembers
      <3> QED BY <3>1, <3>2
    <2>8. Remembers(e)
      <3>1. e.version = n + 1 /\ Len(e.past) = (n + 1) + 1 /\ Len(e.line) = n + 1
            /\ e.past[(n + 1) + 1] = text /\ e.content = text
        BY <2>2, <2>4, <2>5, <2>9
      <3> HIDE DEF e
      <3> QED BY <2>7, <3>1 DEF Remembers
    <2> QED BY <1>2, <2>1, <2>5, <2>6, <2>8 DEF Good, text
  <1> QED BY <1>1, <1>2

-----------------------------------------------------------------------------
(* The loop over the operations to apply: it has a state after every one   *)
(* of them, a good document.                                               *)
LEMMA TakeAllLoop ==
  ASSUME NEW d \in Good, NEW ops \in Seq(Op)
  PROVE  \E f : /\ f[0] = d /\ \A i \in 1..Len(ops) : f[i] = Take(f[i - 1], ops[i])
                /\ \A i \in 0..Len(ops) : f[i] \in Good
                /\ TakeAll(d, ops) = f[Len(ops)]
  <1> DEFINE n == Len(ops)
             Body(f) == [i \in 0..n |-> IF i = 0 THEN d ELSE Take(f[i - 1], ops[i])]
             F == [i \in 1..n |-> [x \in Good |-> Take(x, ops[i])]]
             g == CHOOSE x : x = Body(x)
  <1>1. n \in Nat /\ \A i \in 1..n : ops[i] \in Op
    BY LenProperties, ElementOfSeq
  <1>2. TakeAll(d, ops) = g[n]
    BY DEF TakeAll
  <1>3. \A x \in Good, i \in 1..n : Take(x, ops[i]) \in Good
    BY <1>1, TakeGood
  <1> HIDE DEF n
  <1>4. F \in Passes(Good, n)
    BY <1>3 DEF Passes
  <1>5. \A i \in 1..n, x \in Good : F[i][x] = Take(x, ops[i])
    OBVIOUS
  <1> HIDE DEF F
  <1>6. PICK f : IsLoop(f, Good, n, d, F)
    BY <1>1, <1>4, LoopExists, Zenon
  <1>7. \A i \in 1..n : i - 1 \in 0..n /\ i # 0 /\ i \in 0..n
    BY <1>1
  <1>8. /\ f \in [0..n -> Good] /\ f[0] = d
        /\ \A i \in 1..n : f[i] = Take(f[i - 1], ops[i])
    BY <1>5, <1>6, <1>7 DEF IsLoop
  <1>9. f = Body(f)
    BY <1>1, <1>7, <1>8
  <1>10. g = Body(g)
    BY <1>9
  <1>11. g[0] = d /\ \A i \in 1..n : g[i] = Take(g[i - 1], ops[i])
    <2> HIDE DEF g
    <2> QED BY <1>1, <1>10
  <1> HIDE DEF g
  <1> DEFINE T == {i \in 0..n : g[i] \in Good}
  <1>12. 0 \in T /\ \A i \in 1..n : i - 1 \in T => i \in T
    BY <1>1, <1>3, <1>7, <1>11
  <1>13. \A i \in 0..n : g[i] \in Good
    <2>1. \A i \in 0..n : i \in T
      <3> HIDE DEF T
      <3> QED BY <1>1, <1>12, UpTo
    <2> QED BY <2>1
  <1> QED BY <1>2, <1>11, <1>13 DEF n

LEMMA TakeAllGood ==
  ASSUME NEW d \in Good, NEW ops \in Seq(Op)
  PROVE  TakeAll(d, ops) \in Good /\ TakeAll(d, <<>>) = d
  <1>1. TakeAll(d, ops) \in Good
    <2>1. Len(ops) \in 0..Len(ops)
      BY LenProperties
    <2> QED BY <2>1, TakeAllLoop
  <1>2. TakeAll(d, <<>>) = d
    <2> DEFINE none == <<>>
    <2>1. none \in Seq(Op) /\ Len(none) = 0
      OBVIOUS
    <2> HIDE DEF none
    <2>2. PICK f : f[0] = d /\ TakeAll(d, none) = f[Len(none)]
      <3>1. none \in Seq(Op)
        BY <2>1
      <3> QED BY <3>1, TakeAllLoop
    <2>3. TakeAll(d, none) = d
      BY <2>1, <2>2
    <2> QED BY <2>3 DEF none
  <1> QED BY <1>1, <1>2

(* Applying one sequence and then another.                                 *)
LEMMA TakeAllConcat ==
  ASSUME NEW d \in Good, NEW u \in Seq(Op), NEW w \in Seq(Op)
  PROVE  TakeAll(d, u \o w) = TakeAll(TakeAll(d, u), w)
  <1> DEFINE m == Len(u)   n == Len(w)   e == TakeAll(d, u)   uw == u \o w
  <1>1. /\ m \in Nat /\ n \in Nat /\ e \in Good /\ uw \in Seq(Op) /\ Len(uw) = m + n
        /\ \A i \in 1..m : uw[i] = u[i]
        /\ \A i \in 1..n : uw[m + i] = w[i]
    <2>1. e \in Good
      BY TakeAllGood
    <2>2. uw \in Seq(Op) /\ Len(uw) = m + n
      BY ConcatProperties
    <2> QED BY <2>1, <2>2, LenProperties
  <1> HIDE DEF m, n, e, uw
  <1>2. PICK f : /\ f[0] = d /\ \A i \in 1..m + n : f[i] = Take(f[i - 1], uw[i])
                 /\ TakeAll(d, uw) = f[m + n]
    <2>1. uw \in Seq(Op)
      BY <1>1
    <2>2. PICK f : /\ f[0] = d /\ \A i \in 1..Len(uw) : f[i] = Take(f[i - 1], uw[i])
                   /\ \A i \in 0..Len(uw) : f[i] \in Good
                   /\ TakeAll(d, uw) = f[Len(uw)]
      BY <2>1, TakeAllLoop
    <2> QED BY <1>1, <2>2
  <1>3. PICK g : /\ g[0] = d /\ \A i \in 1..m : g[i] = Take(g[i - 1], u[i])
                 /\ e = g[m]
    BY TakeAllLoop DEF e, m
  <1>4. PICK h : /\ h[0] = e /\ \A i \in 1..n : h[i] = Take(h[i - 1], w[i])
                 /\ TakeAll(e, w) = h[n]
    BY <1>1, TakeAllLoop DEF n
  <1> DEFINE T == {i \in 0..m : f[i] = g[i]}
             U == {i \in 0..n : f[m + i] = h[i]}
  <1>5. f[m] = g[m]
    <2>1. 0 \in T
      BY <1>1, <1>2, <1>3
    <2>3. ASSUME NEW i \in 1..m, i - 1 \in T PROVE i \in T
      <3>1. i \in 1..m + n /\ i \in 0..m /\ uw[i] = u[i]
        BY <1>1
      <3>2. f[i] = Take(f[i - 1], u[i]) /\ g[i] = Take(g[i - 1], u[i])
        BY <1>2, <1>3, <3>1
      <3> QED BY <2>3, <3>1, <3>2
    <2>2. m \in T
      <3>1. m \in 0..m
        BY <1>1
      <3> HIDE DEF T
      <3> QED BY <1>1, <2>1, <2>3, <3>1, UpTo
    <2> QED BY <2>2
  <1>6. f[m + n] = h[n]
    <2>1. 0 \in U
      BY <1>1, <1>3, <1>4, <1>5
    <2>2. ASSUME NEW i \in 1..n, i - 1 \in U PROVE i \in U
      <3>1. m + i \in 1..m + n /\ (m + i) - 1 = m + (i - 1) /\ i \in 0..n
        BY <1>1
      <3>2. f[m + i] = Take(f[m + (i - 1)], w[i])
        BY <1>1, <1>2, <3>1
      <3> QED BY <1>4, <2>2, <3>1, <3>2
    <2>3. n \in U
      <3>1. n \in 0..n
        BY <1>1
      <3> HIDE DEF U
      <3> QED BY <1>1, <2>1, <2>2, <3>1, UpTo
    <2> QED BY <2>3
  <1> QED BY <1>2, <1>4, <1>6 DEF uw, e

-----------------------------------------------------------------------------
(* The rows of one version.                                                *)
LEMMA OfVersionRows ==
  ASSUME NEW rows \in Seq(Op), NEW v
  PROVE  /\ OfVersion(rows, v) \in Seq(Op)
         /\ \A j \in 1..Len(OfVersion(rows, v)) :
              \E i \in 1..Len(rows) : /\ rows[i].version = v
                                     /\ OfVersion(rows, v)[j] = rows[i]
         /\ (\E i \in 1..Len(rows) : rows[i].version = v) => Len(OfVersion(rows, v)) >= 1
         /\ (\A i \in 1..Len(rows) : rows[i].version # v) => OfVersion(rows, v) = <<>>
  <1> DEFINE kept == {i \in DOMAIN rows : rows[i].version = v}   r == Rows(rows, kept)
  <1>1. r = OfVersion(rows, v)
    BY DEF OfVersion
  <1>2. \A i \in 1..Len(rows) : i \in kept <=> rows[i].version = v
    BY LenProperties
  <1> HIDE DEF kept
  <1>3. /\ r \in Seq(Op) /\ Len(r) \in Nat
        /\ \A j \in 1..Len(r) : \E i \in 1..Len(rows) : i \in kept /\ r[j] = rows[i]
        /\ \A i \in 1..Len(rows) : i \in kept => \E j \in 1..Len(r) : r[j] = rows[i]
    <2>1. /\ r \in Seq(Op)
          /\ \A j \in 1..Len(r) : \E i \in 1..Len(rows) : i \in kept /\ r[j] = rows[i]
          /\ \A i \in 1..Len(rows) : i \in kept => \E j \in 1..Len(r) : r[j] = rows[i]
      BY RowsKept
    <2> QED BY <2>1, LenProperties
  <1> HIDE DEF r
  <1>4. (\E i \in 1..Len(rows) : rows[i].version = v) => Len(r) >= 1
    BY <1>2, <1>3
  <1>5. (\A i \in 1..Len(rows) : rows[i].version # v) => r = <<>>
    <2> SUFFICES ASSUME \A i \in 1..Len(rows) : rows[i].version # v PROVE r = <<>>
      OBVIOUS
    <2>1. \A j \in 1..Len(r) : FALSE
      BY <1>2, <1>3
    <2>2. Len(r) = 0
      BY <1>3, <2>1
    <2> QED BY <1>3, <2>2, EmptySeq
  <1> QED BY <1>1, <1>2, <1>3, <1>4, <1>5

(* The sorted rows after a version, version by version.                    *)
LEMMA BetweenLoop ==
  ASSUME operations \in Seq(Op), NEW after \in 0..MaxVersion
  PROVE  /\ \A v \in 0..MaxVersion : OperationsBetween(after, v) \in Seq(Op)
         /\ OperationsBetween(after, after) = <<>>
         /\ \A v \in after + 1..MaxVersion :
              OperationsBetween(after, v) =
                OperationsBetween(after, v - 1) \o OfVersion(operations, v)
  <1> DEFINE n == MaxVersion
             Step(x, v) == IF v <= after THEN <<>> ELSE x \o OfVersion(operations, v)
             Body(f) == [v \in 0..n |-> IF v <= after THEN <<>>
                                        ELSE f[v - 1] \o OfVersion(operations, v)]
             F == [v \in 1..n |-> [x \in Seq(Op) |-> Step(x, v)]]
             g == CHOOSE x : x = Body(x)
             S == Seq(Op)   none == <<>>
  <1>1. n \in Nat /\ after \in Nat /\ none \in S
    BY PersistenceAssumption
  <1>2. \A v : OperationsBetween(after, v) = g[v]
    BY DEF OperationsBetween
  <1>3. \A x \in S, v \in 1..n : Step(x, v) \in S
    BY OfVersionRows, ConcatProperties
  <1>4. \A x : \A v \in 1..n : Step(x, v) = IF v <= after THEN none
                                             ELSE x \o OfVersion(operations, v)
    OBVIOUS
  <1> HIDE DEF Step
  <1>5. F \in Passes(S, n)
    BY <1>3 DEF Passes
  <1>6. \A v \in 1..n, x \in S : F[v][x] = Step(x, v)
    OBVIOUS
  <1> HIDE DEF F, S, none, n
  <1>7. PICK f : IsLoop(f, S, n, none, F)
    BY <1>1, <1>5, LoopExists, Zenon
  <1>8. \A v \in 1..n : v - 1 \in 0..n /\ v # 0 /\ v \in 0..n
    BY <1>1
  <1>9. f \in [0..n -> S] /\ f[0] = none /\ \A v \in 1..n : f[v] = Step(f[v - 1], v)
    BY <1>6, <1>7, <1>8 DEF IsLoop
  <1>10. f = Body(f)
    <2>1. 0 <= after /\ \A v \in 0..n : v = 0 \/ v \in 1..n
      BY <1>1
    <2>2. ASSUME NEW v \in 1..n
          PROVE  f[v] = IF v <= after THEN none ELSE f[v - 1] \o OfVersion(operations, v)
      <3>1. f[v] = Step(f[v - 1], v)
        BY <1>9
      <3> QED BY <1>4, <3>1
    <2>3. ASSUME NEW v \in 0..n
          PROVE  f[v] = IF v <= after THEN none ELSE f[v - 1] \o OfVersion(operations, v)
      BY <1>9, <2>1, <2>2
    <2> QED BY <1>9, <2>3 DEF none
  <1>11. g = Body(g)
    BY <1>10
  <1>12. /\ \A v \in 0..n : v <= after => g[v] = none
         /\ \A v \in 1..n : ~(v <= after) => g[v] = g[v - 1] \o OfVersion(operations, v)
    <2> HIDE DEF g
    <2> QED BY <1>8, <1>11 DEF none
  <1> HIDE DEF g
  <1>13. \A v \in 0..n : g[v] \in S
    <2> DEFINE T == {v \in 0..n : g[v] \in S}
    <2>1. 0 \in T
      BY <1>1, <1>12
    <2>2. ASSUME NEW v \in 1..n, v - 1 \in T PROVE v \in T
      <3>1. Step(g[v - 1], v) \in S
        BY <1>3, <2>2
      <3>2. g[v] = Step(g[v - 1], v)
        <4>1. Step(g[v - 1], v) = IF v <= after THEN none
                                  ELSE g[v - 1] \o OfVersion(operations, v)
          BY <1>4
        <4> QED BY <1>8, <1>12, <4>1
      <3> QED BY <1>8, <3>1, <3>2
    <2>3. \A v \in 0..n : v \in T
      <3> HIDE DEF T
      <3> QED BY <1>1, <2>1, <2>2, UpTo
    <2> QED BY <2>3
  <1>14. after \in 0..n /\ after <= after
    BY <1>1 DEF n
  <1>15. \A v \in after + 1..n : v \in 1..n /\ ~(v <= after)
    BY <1>1
  <1>16. OperationsBetween(after, after) = none
    BY <1>2, <1>12, <1>14
  <1>17. \A v \in after + 1..n : OperationsBetween(after, v) =
           OperationsBetween(after, v - 1) \o OfVersion(operations, v)
    BY <1>2, <1>12, <1>15
  <1>18. \A v \in 0..n : OperationsBetween(after, v) \in S
    BY <1>2, <1>13
  <1> QED BY <1>16, <1>17, <1>18 DEF n, S, none

(* Operations of one version leave a document alone that is not at the     *)
(* version before; one of them, or equal ones, takes it there.             *)
LEMMA TakeAllOfVersion ==
  ASSUME NEW d \in Good, NEW ops \in Seq(Op), NEW v,
         \A i \in 1..Len(ops) : ops[i].version = v
  PROVE  /\ d.version + 1 # v => TakeAll(d, ops) = d
         /\ \A op \in Op :
              (/\ op.version = v /\ Len(ops) >= 1
               /\ ResultOf(d.content, d.version, op) = "SUCCESS"
               /\ \A i \in 1..Len(ops) : ops[i] = op)
              => TakeAll(d, ops) = Take(d, op)
  <1> DEFINE n == Len(ops)
  <1>1. PICK f : /\ f[0] = d /\ \A i \in 1..n : f[i] = Take(f[i - 1], ops[i])
                 /\ TakeAll(d, ops) = f[n]
    BY TakeAllLoop
  <1>2. n \in Nat /\ n \in 0..n /\ \A i \in 1..n : ops[i] \in Op
    BY LenProperties, ElementOfSeq
  <1> HIDE DEF n
  <1>3. ASSUME d.version + 1 # v PROVE f[n] = d
    <2> DEFINE T == {i \in 0..n : f[i] = d}
    <2>1. 0 \in T
      BY <1>1, <1>2
    <2>2. ASSUME NEW i \in 1..n, i - 1 \in T PROVE i \in T
      <3>1. ops[i] \in Op /\ ops[i].version # d.version + 1 /\ i \in 0..n
        BY <1>2, <1>3 DEF n
      <3>2. Take(d, ops[i]) = d
        BY <3>1, TakeGood
      <3> QED BY <1>1, <2>2, <3>1, <3>2
    <2>3. n \in T
      <3> HIDE DEF T
      <3> QED BY <1>2, <2>1, <2>2, UpTo
    <2> QED BY <2>3
  <1>4. ASSUME NEW op \in Op, op.version = v, n >= 1,
               ResultOf(d.content, d.version, op) = "SUCCESS",
               \A i \in 1..n : ops[i] = op
        PROVE  f[n] = Take(d, op)
    <2> DEFINE e == Take(d, op)   T == {i \in 0..n : i >= 1 => f[i] = e}
    <2>1. e \in Good /\ e.version = d.version + 1 /\ d.version \in Nat /\ op.version = d.version + 1
      <3>1. d.version \in Nat
        BY PersistenceAssumption DEF Good, Docs
      <3> QED BY <1>4, <3>1, TakeGood
    <2>2. Take(e, op) = e
      <3>1. op.version # e.version + 1
        BY <2>1
      <3> QED BY <2>1, <3>1, TakeGood
    <2> HIDE DEF e
    <2>3. 0 \in T
      BY <1>2
    <2>4. ASSUME NEW i \in 1..n, i - 1 \in T PROVE i \in T
      <3>1. f[i] = Take(f[i - 1], op) /\ i \in 0..n
        BY <1>1, <1>4, <1>2
      <3>2. CASE i = 1
        BY <1>1, <3>1, <3>2 DEF e
      <3>3. CASE i # 1
        BY <2>2, <2>4, <3>1, <3>3
      <3> QED BY <3>2, <3>3
    <2>5. n \in T
      <3> HIDE DEF T
      <3> QED BY <1>2, <2>3, <2>4, UpTo
    <2> QED BY <1>4, <2>5 DEF e
  <1>5. d.version + 1 # v => TakeAll(d, ops) = d
    BY <1>1, <1>3
  <1>6. \A op \in Op :
          (/\ op.version = v /\ n >= 1
           /\ ResultOf(d.content, d.version, op) = "SUCCESS"
           /\ \A i \in 1..n : ops[i] = op)
          => TakeAll(d, ops) = Take(d, op)
    BY <1>1, <1>4
  <1> QED BY <1>5, <1>6 DEF n

-----------------------------------------------------------------------------
(* The snapshot recovery starts from.                                      *)
LEMMA EmptyType == Empty \in Snapshots
  <1>1. 0 \in 0..MaxVersion /\ <<>> \in Seq(Char)
    BY PersistenceAssumption
  <1> QED BY <1>1 DEF Empty, Snapshot, Snapshots

LEMMA NewestLoop ==
  ASSUME NEW rows \in Seq(Snapshots)
  PROVE  \E f : /\ f[0] = Empty
                /\ \A i \in 1..Len(rows) :
                     f[i] = IF rows[i].version >= f[i - 1].version THEN rows[i] ELSE f[i - 1]
                /\ \A i \in 0..Len(rows) : f[i] \in Snapshots
                /\ Newest(rows) = f[Len(rows)]
  <1> DEFINE n == Len(rows)
             Step(x, i) == IF rows[i].version >= x.version THEN rows[i] ELSE x
             Body(f) == [i \in 0..n |-> IF i = 0 THEN Empty ELSE Step(f[i - 1], i)]
             F == [i \in 1..n |-> [x \in Snapshots |-> Step(x, i)]]
             g == CHOOSE x : x = Body(x)
  <1>1. n \in Nat /\ Empty \in Snapshots /\ \A i \in 1..n : rows[i] \in Snapshots
    BY EmptyType, LenProperties, ElementOfSeq
  <1>2. Newest(rows) = g[n]
    BY DEF Newest
  <1>3. \A x \in Snapshots, i \in 1..n : Step(x, i) \in Snapshots
    BY <1>1
  <1> HIDE DEF n, Step
  <1>4. F \in Passes(Snapshots, n)
    BY <1>3 DEF Passes
  <1>5. \A i \in 1..n, x \in Snapshots : F[i][x] = Step(x, i)
    OBVIOUS
  <1> HIDE DEF F
  <1>6. PICK f : IsLoop(f, Snapshots, n, Empty, F)
    BY <1>1, <1>4, LoopExists, Zenon
  <1>7. \A i \in 1..n : i - 1 \in 0..n /\ i # 0 /\ i \in 0..n
    BY <1>1
  <1>8. /\ f \in [0..n -> Snapshots] /\ f[0] = Empty
        /\ \A i \in 1..n : f[i] = Step(f[i - 1], i)
    BY <1>5, <1>6, <1>7 DEF IsLoop
  <1>9. f = Body(f)
    BY <1>1, <1>7, <1>8
  <1>10. g = Body(g)
    BY <1>9
  <1>11. g[0] = Empty /\ \A i \in 1..n : g[i] = Step(g[i - 1], i)
    <2> HIDE DEF g
    <2> QED BY <1>1, <1>10
  <1> HIDE DEF g
  <1> DEFINE T == {i \in 0..n : g[i] \in Snapshots}
  <1>12. 0 \in T /\ \A i \in 1..n : i - 1 \in T => i \in T
    BY <1>1, <1>3, <1>7, <1>11
  <1>13. \A i \in 0..n : g[i] \in Snapshots
    <2>1. \A i \in 0..n : i \in T
      <3> HIDE DEF T
      <3> QED BY <1>1, <1>12, UpTo
    <2> QED BY <2>1
  <1> QED BY <1>2, <1>11, <1>13 DEF n, Step

LEMMA NewestType ==
  ASSUME NEW rows \in Seq(Snapshots)
  PROVE  Newest(rows) \in Snapshots
  <1>1. Len(rows) \in 0..Len(rows)
    BY LenProperties
  <1> QED BY <1>1, NewestLoop

-----------------------------------------------------------------------------
(* The inductive invariant: the live document remembers itself, whatever   *)
(* it was rebuilt from, and the tables hold operations and snapshots.      *)
Snappings == [version : 0..MaxVersion, content : Seq(Char) \cup {Unknown}]

Recoveries ==
  {r \in [target : 0..MaxVersion, start : 0..MaxVersion, loaded : Snapshots \cup {Unknown}] :
     r.start <= r.target}

IInv ==
  /\ live \in Good
  /\ unstored \subseteq Op /\ operations \in Seq(Op) /\ Len(operations) <= MaxRows
  /\ snapshots \in Seq(Snapshots) /\ Len(snapshots) <= MaxSnapshots
  /\ snapping \in Snappings \cup {Unknown} /\ recovery \in Recoveries \cup {Unknown}
  /\ lives \in 1..MaxLives /\ (recovery # Unknown => lives < MaxLives)

(* Whatever is rebuilt from a snapshot is a document.                      *)
LEMMA RebuiltGood ==
  ASSUME IInv
  PROVE  /\ NewestSnapshot \in Snapshots /\ Recovered \in Good /\ Unread \subseteq Good
         /\ recovery # Unknown /\ recovery.loaded # Unknown =>
              {RecoveredTo, From(recovery.loaded)} \subseteq Good
  <1>1. NewestSnapshot \in Snapshots
    BY NewestType DEF IInv, NewestSnapshot
  <1>2. \A s \in Snapshots : From(s) \in Good
    BY FromGood
  <1>3. ASSUME NEW s \in Snapshots, NEW a \in 0..MaxVersion, NEW v \in 0..MaxVersion
        PROVE  TakeAll(From(s), OperationsBetween(a, v)) \in Good
    <2>1. OperationsBetween(a, v) \in Seq(Op)
      BY BetweenLoop DEF IInv
    <2> QED BY <1>2, <2>1, TakeAllGood
  <1>4. MaxVersion \in 0..MaxVersion /\ \A s \in Snapshots : s.version \in 0..MaxVersion
    BY PersistenceAssumption DEF Snapshots
  <1>5. Recovered \in Good
    BY <1>1, <1>2, <1>3, <1>4 DEF Recovered
  <1>6. ASSUME recovery # Unknown, recovery.loaded # Unknown
        PROVE  {RecoveredTo, From(recovery.loaded)} \subseteq Good
    <2>1. /\ recovery.loaded \in Snapshots
          /\ recovery.start \in 0..MaxVersion /\ recovery.target \in 0..MaxVersion
      BY <1>6 DEF IInv, Recoveries
    <2>2. RecoveredTo \in Good /\ From(recovery.loaded) \in Good
      BY <1>2, <1>3, <2>1 DEF RecoveredTo
    <2> QED BY <2>2
  <1> QED BY <1>1, <1>2, <1>5, <1>6, EmptyType DEF Unread

LEMMA InitInv == Init => IInv
  <1> SUFFICES ASSUME Init PROVE IInv
    OBVIOUS
  <1>1. From(Empty) \in Good
    BY EmptyType, FromGood
  <1>2. 1 \in 1..MaxLives /\ 0 <= MaxRows /\ 0 <= MaxSnapshots
    BY PersistenceAssumption
  <1>3. Len(operations) = 0 /\ Len(snapshots) = 0
        /\ operations \in Seq(Op) /\ snapshots \in Seq(Snapshots)
    BY DEF Init
  <1> QED BY <1>1, <1>2, <1>3 DEF Init, IInv

(* What createSnapshot will insert is a snapshot.                          *)
LEMMA SnapshotType ==
  ASSUME IInv, snapping # Unknown
  PROVE  /\ snapping \in Snappings /\ TextToSnap \in Seq(Char)
         /\ Snapshot(snapping.version, TextToSnap) \in Snapshots
  <1>1. snapping \in Snappings /\ live.content \in Seq(Char)
    BY DEF IInv, Good, Docs
  <1>2. TextToSnap \in Seq(Char)
    BY <1>1 DEF TextToSnap, Snappings
  <1> QED BY <1>1, <1>2 DEF Snapshot, Snapshots, Snappings

LEMMA NextInv == IInv /\ [Next]_vars => IInv'
  <1> SUFFICES ASSUME IInv, [Next]_vars PROVE IInv'
    OBVIOUS
  <1> USE PersistenceAssumption
  <1>1. ASSUME NEW op \in Op, Apply(op) PROVE IInv'
    <2>1. Take(live, op) \in Good
      BY TakeGood DEF IInv
    <2> QED BY <1>1, <2>1 DEF Apply, IInv
  <1>2. ASSUME NEW op \in Op, Store(op) PROVE IInv'
    <2>1. /\ Append(operations, op) \in Seq(Op)
          /\ Len(Append(operations, op)) = Len(operations) + 1 /\ Len(operations) \in Nat
      BY AppendProperties, LenProperties DEF IInv
    <2>2. Len(operations) + 1 <= MaxRows
      BY <1>2, <2>1 DEF Store
    <2> QED BY <1>2, <2>1, <2>2 DEF Store, IInv
  <1>3. ASSUME NEW op \in Op, StoreFails(op) PROVE IInv'
    BY <1>3 DEF StoreFails, IInv
  <1>4. ASSUME ReadVersion PROVE IInv'
    BY <1>4 DEF ReadVersion, IInv, Good, Docs, Snapshot, Snappings
  <1>5. ASSUME InsertSnapshot PROVE IInv'
    <2> DEFINE s == Snapshot(snapping.version, TextToSnap)
    <2>1. s \in Snapshots
      BY <1>5, SnapshotType DEF InsertSnapshot
    <2> HIDE DEF s
    <2>2. /\ Append(snapshots, s) \in Seq(Snapshots)
          /\ Len(Append(snapshots, s)) = Len(snapshots) + 1 /\ Len(snapshots) \in Nat
      BY <2>1, AppendProperties, LenProperties DEF IInv, s
    <2>3. Len(snapshots) + 1 <= MaxSnapshots
      BY <1>5, <2>2 DEF InsertSnapshot
    <2> QED BY <1>5, <2>2, <2>3 DEF InsertSnapshot, IInv, s
  <1>6. ASSUME InsertSnapshotFails PROVE IInv'
    BY <1>6 DEF InsertSnapshotFails, IInv
  <1>7. ASSUME NEW keep \in 1..MaxSnapshots, CleanupOldSnapshots(keep) PROVE IInv'
    <2>1. \A kept : /\ Rows(snapshots, kept) \in Seq(Snapshots)
                    /\ Len(Rows(snapshots, kept)) <= Len(snapshots)
      BY RowsKept DEF IInv
    <2>2. PICK kept : snapshots' = Rows(snapshots, kept)
      BY <1>7 DEF CleanupOldSnapshots
    <2>3. Len(snapshots') <= MaxSnapshots /\ snapshots' \in Seq(Snapshots)
      <3>1. Len(snapshots') \in Nat /\ Len(snapshots) \in Nat
        BY <2>1, <2>2, LenProperties DEF IInv
      <3> QED BY <2>1, <2>2, <3>1 DEF IInv
    <2> QED BY <1>7, <2>3 DEF CleanupOldSnapshots, IInv
  <1>8. ASSUME NEW keep \in 0..MaxRows, CleanupOldOperations(keep) PROVE IInv'
    <2>1. \A kept : /\ Rows(operations, kept) \in Seq(Op)
                    /\ Len(Rows(operations, kept)) <= Len(operations)
      BY RowsKept DEF IInv
    <2>2. PICK kept : operations' = Rows(operations, kept)
      BY <1>8 DEF CleanupOldOperations
    <2>3. Len(operations') <= MaxRows /\ operations' \in Seq(Op)
      <3>1. Len(operations') \in Nat /\ Len(operations) \in Nat
        BY <2>1, <2>2, LenProperties DEF IInv
      <3> QED BY <2>1, <2>2, <3>1 DEF IInv
    <2> QED BY <1>8, <2>3 DEF CleanupOldOperations, IInv
  <1>9. ASSUME Restart PROVE IInv'
    BY <1>9, RebuiltGood DEF Restart, IInv
  <1>10. ASSUME NEW target \in 0..MaxVersion, ReadSnapshotVersion(target) PROVE IInv'
    <2>1. PICK start \in {0} \cup ({NewestSnapshot.version} \cap 1..target) :
            recovery' = [target |-> target, start |-> start,
                         loaded |-> IF start = 0 THEN Empty ELSE Unknown]
      BY <1>10 DEF ReadSnapshotVersion
    <2>2. start \in 0..MaxVersion /\ start <= target
      OBVIOUS
    <2>3. recovery' \in Recoveries
      BY <2>1, <2>2, EmptyType DEF Recoveries
    <2> QED BY <1>10, <2>3 DEF ReadSnapshotVersion, IInv
  <1>11. ASSUME LoadSnapshot PROVE IInv'
    <2>1. PICK s \in Snapshots : recovery' = [recovery EXCEPT !.loaded = s]
      BY <1>11, RebuiltGood, EmptyType DEF LoadSnapshot
    <2>2. recovery \in Recoveries
      BY <1>11 DEF LoadSnapshot, IInv
    <2>3. recovery' \in Recoveries
      BY <2>1, <2>2 DEF Recoveries
    <2> QED BY <1>11, <2>3 DEF LoadSnapshot, IInv
  <1>12. ASSUME ReplayOperations PROVE IInv'
    <2>1. live' \in Good
      BY <1>12, RebuiltGood DEF ReplayOperations
    <2>2. snapping' \in Snappings \cup {Unknown}
      <3>1. CASE snapping = Unknown
        BY <1>12, <3>1 DEF ReplayOperations
      <3>2. CASE snapping # Unknown
        <4>1. snapping \in Snappings /\ TextToSnap \in Seq(Char)
          BY <3>2, SnapshotType
        <4>2. snapping' = Snapshot(snapping.version, TextToSnap)
          BY <1>12, <3>2 DEF ReplayOperations
        <4> QED BY <4>1, <4>2 DEF Snapshot, Snappings
      <3> QED BY <3>1, <3>2
    <2>3. lives + 1 \in 1..MaxLives
      BY <1>12 DEF ReplayOperations, IInv
    <2> QED BY <1>12, <2>1, <2>2, <2>3 DEF ReplayOperations, IInv
  <1>13. CASE UNCHANGED vars
    BY <1>13 DEF IInv, vars
  <1> QED BY <1>1, <1>2, <1>3, <1>4, <1>5, <1>6, <1>7, <1>8, <1>9, <1>10, <1>11, <1>12, <1>13
          DEF Next

LEMMA Invariance == Spec => []IInv
  BY InitInv, NextInv, PTL DEF Spec

(* Texts and versions are in bounds, and so is what recovery makes of the  *)
(* tables: it never gets past the versions that were stored.               *)
THEOREM TypeCorrect == Spec => []TypeOK
  <1>1. IInv => TypeOK
    <2> SUFFICES ASSUME IInv PROVE TypeOK
      OBVIOUS
    <2>1. Recovered \in Good
      BY RebuiltGood
    <2>2. snapping # Unknown => snapping.version \in 0..MaxVersion
      BY DEF IInv, Snappings
    <2>3. recovery # Unknown => /\ recovery.target \in 0..MaxVersion
                                /\ recovery.start \in 0..recovery.target
      BY PersistenceAssumption DEF IInv, Recoveries
    <2> QED BY <2>1, <2>2, <2>3 DEF IInv, TypeOK, Good, Docs, Remembers
  <1> QED BY <1>1, Invariance, PTL

-----------------------------------------------------------------------------
(* What replaying the rows after a whole snapshot s up to version v makes  *)
(* is the live document at some version up to v, which is v unless no row  *)
(* has the next one; every version since the snapshot's is stored.         *)
Rebuilt(s, v) == TakeAll(From(s), OperationsBetween(s.version, v))

Faithful(d, s, v) ==
  /\ d \in Good /\ d.version \in s.version..v /\ d.version <= live.version
  /\ d.content = live.past[d.version + 1] /\ Stored(s.version, d.version)
  /\ d.version < v => \A i \in 1..Len(operations) : operations[i].version # d.version + 1

(* One version further.                                                    *)
LEMMA OneVersion ==
  ASSUME IInv, NEW s \in Snapshots, OwnAfter(s.version),
         NEW v \in s.version + 1..MaxVersion, NEW d, Faithful(d, s, v - 1)
  PROVE  Faithful(TakeAll(d, OfVersion(operations, v)), s, v)
  <1> DEFINE rows == OfVersion(operations, v)   e == TakeAll(d, rows)   n == Len(operations)
  <1>1. /\ s.version \in Nat /\ v \in Nat /\ MaxVersion \in Nat /\ v >= 1 /\ v \in 1..MaxVersion
        /\ d.version \in Nat /\ d.version <= v - 1 /\ s.version <= d.version /\ d \in Good
        /\ d.content \in Seq(Char) /\ live.version \in Nat /\ d.version <= live.version
    <2>1. /\ MaxVersion \in Nat /\ s.version \in 0..MaxVersion /\ live \in Docs
      BY PersistenceAssumption DEF Snapshots, IInv, Good
    <2>2. live.version \in Nat
      BY <2>1 DEF Docs
    <2>3. d \in Good /\ d.version \in s.version..v - 1 /\ d.version <= live.version
      BY DEF Faithful
    <2>4. d.content \in Seq(Char)
      BY <2>3 DEF Good, Docs
    <2> QED BY <2>1, <2>2, <2>3, <2>4
  <1>2. operations \in Seq(Op) /\ n \in Nat /\ DOMAIN operations = 1..n
        /\ \A i \in 1..n : operations[i] \in Op
    BY LenProperties, ElementOfSeq DEF IInv
  <1>3. /\ rows \in Seq(Op) /\ Len(rows) \in Nat
        /\ \A j \in 1..Len(rows) :
             \E i \in 1..n : operations[i].version = v /\ rows[j] = operations[i]
        /\ (\E i \in 1..n : operations[i].version = v) => Len(rows) >= 1
        /\ (\A i \in 1..n : operations[i].version # v) => rows = <<>>
    <2>1. operations \in Seq(Op)
      BY <1>2
    <2>2. /\ rows \in Seq(Op)
          /\ \A j \in 1..Len(rows) :
               \E i \in 1..n : operations[i].version = v /\ rows[j] = operations[i]
          /\ (\E i \in 1..n : operations[i].version = v) => Len(rows) >= 1
          /\ (\A i \in 1..n : operations[i].version # v) => rows = <<>>
      BY <2>1, OfVersionRows
    <2> QED BY <2>2, LenProperties
  <1> HIDE DEF rows, n
  <1>4. CASE d.version + 1 # v
    <2>1. e = d
      <3>1. \A j \in 1..Len(rows) : rows[j].version = v
        BY <1>3
      <3> QED BY <1>1, <1>3, <1>4, <3>1, TakeAllOfVersion
    <2>2. d.version < v - 1 /\ d.version \in s.version..v
      BY <1>1, <1>4
    <2> HIDE DEF e
    <2> QED BY <2>1, <2>2 DEF Faithful, e, rows
  <1>5. CASE d.version + 1 = v /\ \A i \in 1..n : operations[i].version # v
    <2>1. e = d
      BY <1>1, <1>3, <1>5, TakeAllGood
    <2>2. d.version \in s.version..v
      BY <1>1, <1>5
    <2>3. \A i \in 1..Len(operations) : operations[i].version # d.version + 1
      BY <1>5 DEF n
    <2>4. Faithful(d, s, v)
      BY <2>2, <2>3 DEF Faithful
    <2> QED BY <2>1, <2>4 DEF e, rows
  <1>6. CASE d.version + 1 = v /\ \E i \in 1..n : operations[i].version = v
    <2>1. PICK i \in 1..n : operations[i].version = v
      BY <1>6
    <2> DEFINE op == operations[i]
    <2>2. \A k \in 1..n : operations[k].version = v =>
            v <= live.version /\ operations[k] = live.line[v]
      <3>1. \A k \in 1..n : operations[k].version = v => operations[k].version > s.version
        BY <1>1
      <3> QED BY <1>2, <3>1 DEF OwnAfter, Own
    <2>3. /\ op \in Op /\ op.version = v /\ v <= live.version /\ op = live.line[v]
          /\ \A j \in 1..Len(rows) : rows[j] = op
      BY <1>2, <1>3, <2>1, <2>2
    <2> HIDE DEF op
    <2>4. /\ ResultOf(d.content, d.version, op) = "SUCCESS"
          /\ live.past[v + 1] = Edited(d.content, op)
      <3>1. d.content = live.past[v] /\ d.version = v - 1
        BY <1>1, <1>6 DEF Faithful
      <3>2. v \in 1..live.version /\ live.past[v] # Unknown
        BY <1>1, <2>3, <3>1, PersistenceAssumption
      <3>3. /\ ResultOf(live.past[v], v - 1, live.line[v]) = "SUCCESS"
            /\ live.past[v + 1] = Edited(live.past[v], live.line[v])
        BY <3>2 DEF IInv, Good, Remembers
      <3> QED BY <2>3, <3>1, <3>3
    <2>5. e = Take(d, op)
      <3>1. Len(rows) >= 1
        BY <1>3, <2>1
      <3>2. \A j \in 1..Len(rows) : rows[j].version = v
        BY <2>3
      <3> QED BY <1>1, <1>3, <2>3, <2>4, <3>1, <3>2, TakeAllOfVersion
    <2>6. e \in Good /\ e.version = v /\ e.content = live.past[v + 1]
      <3>1. /\ Take(d, op) \in Good /\ Take(d, op).version = d.version + 1
            /\ Take(d, op).content = Edited(d.content, op)
        BY <1>1, <2>3, <2>4, TakeGood
      <3> QED BY <1>6, <2>4, <2>5, <3>1
    <2>7. Stored(s.version, v)
      <3> SUFFICES ASSUME NEW w \in s.version + 1..v
                   PROVE  \E k \in DOMAIN operations : operations[k].version = w
        BY DEF Stored
      <3>1. CASE w = v
        BY <1>2, <2>1, <3>1
      <3>2. CASE w # v
        <4>1. w \in s.version + 1..d.version
          BY <1>1, <1>6, <3>2
        <4> QED BY <4>1 DEF Faithful, Stored
      <3> QED BY <3>1, <3>2
    <2>8. e.version \in s.version..v /\ ~(e.version < v) /\ e.version <= live.version
      BY <1>1, <2>3, <2>6
    <2> HIDE DEF e
    <2>9. e.content = live.past[e.version + 1] /\ Stored(s.version, e.version)
      BY <2>6, <2>7
    <2> QED BY <2>6, <2>8, <2>9 DEF Faithful, e, rows
  <1> QED BY <1>4, <1>5, <1>6 DEF rows

LEMMA RebuiltFaithful ==
  ASSUME IInv, NEW s \in Snapshots, Whole(s), OwnAfter(s.version),
         NEW v \in s.version..MaxVersion
  PROVE  Faithful(Rebuilt(s, v), s, v)
  <1> DEFINE a == s.version   m == MaxVersion - a
             T == {i \in 0..m : Faithful(Rebuilt(s, a + i), s, a + i)}
  <1>1. /\ MaxVersion \in Nat /\ a \in Nat /\ m \in Nat /\ a \in 0..MaxVersion
        /\ s.content \in Seq(Char) /\ From(s) \in Good /\ operations \in Seq(Op)
        /\ live.version \in Nat
    <2>1. From(s) \in Good
      BY FromGood
    <2>2. MaxVersion \in Nat /\ a \in 0..MaxVersion /\ s.content \in Seq(Char)
      BY PersistenceAssumption DEF Snapshots
    <2>3. live \in Docs /\ operations \in Seq(Op)
      BY DEF IInv, Good
    <2>4. live.version \in Nat
      BY <2>2, <2>3 DEF Docs
    <2> QED BY <2>1, <2>2, <2>3, <2>4
  <1>2. 0 \in T
    <2>1. OperationsBetween(a, a) = <<>>
      BY <1>1, BetweenLoop
    <2>2. Rebuilt(s, a) = From(s)
      BY <1>1, <2>1, TakeAllGood DEF Rebuilt
    <2>3. From(s).version = a /\ From(s).content = s.content
      BY DEF From
    <2>4. Stored(a, a)
      BY <1>1 DEF Stored
    <2>5. Faithful(From(s), s, a)
      BY <1>1, <2>3, <2>4 DEF Faithful, Whole
    <2> QED BY <1>1, <2>2, <2>5
  <1>3. ASSUME NEW i \in 1..m, i - 1 \in T PROVE i \in T
    <2> DEFINE w == a + i
    <2>1. w \in a + 1..MaxVersion /\ w - 1 = a + (i - 1) /\ w - 1 \in 0..MaxVersion /\ i \in 0..m
      <3>1. a \in Nat /\ MaxVersion \in Nat /\ a <= MaxVersion
        BY <1>1
      <3> HIDE DEF T
      <3> QED BY <3>1
    <2>2. OperationsBetween(a, w) = OperationsBetween(a, w - 1) \o OfVersion(operations, w)
      BY <1>1, <2>1, BetweenLoop
    <2>3. OperationsBetween(a, w - 1) \in Seq(Op) /\ OfVersion(operations, w) \in Seq(Op)
      BY <1>1, <2>1, BetweenLoop, OfVersionRows
    <2>4. Rebuilt(s, w) = TakeAll(Rebuilt(s, w - 1), OfVersion(operations, w))
      <3> DEFINE u == OperationsBetween(a, w - 1)   x == OfVersion(operations, w)
      <3>1. From(s) \in Good /\ u \in Seq(Op) /\ x \in Seq(Op)
        BY <1>1, <2>3
      <3>2. Rebuilt(s, w) = TakeAll(From(s), u \o x)
        BY <2>2 DEF Rebuilt
      <3>3. Rebuilt(s, w - 1) = TakeAll(From(s), u)
        BY DEF Rebuilt
      <3> HIDE DEF u, x
      <3> QED BY <3>1, <3>2, <3>3, TakeAllConcat DEF x
    <2>5. Faithful(Rebuilt(s, w - 1), s, w - 1)
      BY <1>3, <2>1
    <2> HIDE DEF w
    <2>6. Faithful(TakeAll(Rebuilt(s, w - 1), OfVersion(operations, w)), s, w)
      BY <2>1, <2>5, OneVersion
    <2> QED BY <2>1, <2>4, <2>6 DEF w
  <1>4. v - a \in 0..m /\ a + (v - a) = v
    BY <1>1
  <1>5. v - a \in T
    <2> HIDE DEF T, a
    <2> QED BY <1>1, <1>2, <1>3, <1>4, UpTo
  <1> QED BY <1>4, <1>5

(* A crash at any moment loses nothing of what was stored up to the first  *)
(* operation missing: recoverDocument rebuilds the text the document had   *)
(* at that version from a newest snapshot that is not torn, however many   *)
(* threads were applying and storing operations and in whatever order.     *)
THEOREM CrashLosesNoPrefix == Spec => []RecoverExact
  <1>1. IInv => RecoverExact
    <2> DEFINE s == NewestSnapshot   r == Recovered
    <2> SUFFICES ASSUME IInv, s.version > 0, Whole(s), OwnAfter(s.version)
                 PROVE  /\ r.version >= s.version /\ Stored(s.version, r.version)
                        /\ r.version < live.version => ~Stored(s.version, r.version + 1)
                        /\ r.content = live.past[r.version + 1]
      BY DEF RecoverExact
    <2>1. s \in Snapshots /\ MaxVersion \in s.version..MaxVersion /\ s.version \in Nat
      <3>1. 0 \in 0..MaxVersion /\ MaxVersion \in Nat
        BY PersistenceAssumption
      <3>2. s \in Snapshots
        BY RebuiltGood
      <3> QED BY <3>1, <3>2 DEF Snapshots
    <2>2. r = Rebuilt(s, MaxVersion)
      BY <2>1 DEF Recovered, Rebuilt
    <2> HIDE DEF s, r
    <2>3. Faithful(r, s, MaxVersion)
      BY <2>1, <2>2, RebuiltFaithful
    <2>4. live.version \in 0..MaxVersion /\ r.version \in Nat
      BY <2>3, PersistenceAssumption DEF IInv, Good, Docs, Faithful
    <2>5. ASSUME r.version < live.version PROVE ~Stored(s.version, r.version + 1)
      <3>1. \A i \in 1..Len(operations) : operations[i].version # r.version + 1
        BY <2>3, <2>4, <2>5, PersistenceAssumption DEF Faithful
      <3>2. r.version + 1 \in s.version + 1..r.version + 1
        BY <2>1, <2>3, <2>4 DEF Faithful
      <3>3. DOMAIN operations = 1..Len(operations)
        BY LenProperties DEF IInv
      <3> QED BY <3>1, <3>2, <3>3 DEF Stored
    <2>6. r.version >= s.version
      BY <2>1, <2>3, <2>4 DEF Faithful
    <2> QED BY <2>3, <2>5, <2>6 DEF Faithful, s, r
  <1> QED BY <1>1, Invariance, PTL

(* recoverToVersion replays the rows after the version it tested on a      *)
(* snapshot that may be newer: the rows up to the snapshot's version are   *)
(* refused, so nothing but what follows the snapshot counts.               *)
LEMMA EarlierRowsRefused ==
  ASSUME IInv, NEW s \in Snapshots, NEW a \in 0..s.version, NEW v \in a..MaxVersion
  PROVE  TakeAll(From(s), OperationsBetween(a, v)) =
           IF v <= s.version THEN From(s) ELSE Rebuilt(s, v)
  <1> DEFINE m == MaxVersion - a
             Made(w) == TakeAll(From(s), OperationsBetween(a, w))
             Right(w) == Made(w) = IF w <= s.version THEN From(s) ELSE Rebuilt(s, w)
             T == {i \in 0..m : Right(a + i)}
  <1>1. /\ MaxVersion \in Nat /\ s.version \in 0..MaxVersion /\ a \in Nat /\ m \in Nat
        /\ a <= s.version /\ a \in 0..MaxVersion /\ From(s) \in Good /\ From(s).version = s.version
        /\ operations \in Seq(Op)
    <2>1. From(s) \in Good /\ From(s).version = s.version
      BY FromGood DEF From
    <2>2. MaxVersion \in Nat /\ s.version \in 0..MaxVersion /\ operations \in Seq(Op)
      BY PersistenceAssumption DEF Snapshots, IInv
    <2> QED BY <2>1, <2>2
  <1>2. 0 \in T
    <2>1. OperationsBetween(a, a) = <<>>
      BY <1>1, BetweenLoop
    <2>2. Made(a) = From(s)
      BY <1>1, <2>1, TakeAllGood
    <2>3. Right(a + 0)
      BY <1>1, <2>2
    <2> HIDE DEF Right
    <2> QED BY <1>1, <2>3
  <1>3. ASSUME NEW i \in 1..m, i - 1 \in T PROVE i \in T
    <2> DEFINE w == a + i   rows == OfVersion(operations, w)
    <2>1. w \in a + 1..MaxVersion /\ w - 1 = a + (i - 1) /\ w - 1 \in 0..MaxVersion /\ i \in 0..m
      <3> HIDE DEF T
      <3> QED BY <1>1
    <2>2. Right(w - 1)
      BY <1>3, <2>1
    <2>3. /\ OperationsBetween(a, w) = OperationsBetween(a, w - 1) \o rows
          /\ OperationsBetween(a, w - 1) \in Seq(Op) /\ rows \in Seq(Op)
      BY <1>1, <2>1, BetweenLoop, OfVersionRows
    <2>4. Made(w) = TakeAll(Made(w - 1), rows)
      <3> DEFINE u == OperationsBetween(a, w - 1)
      <3>1. From(s) \in Good /\ u \in Seq(Op) /\ rows \in Seq(Op)
        BY <1>1, <2>3
      <3>2. Made(w) = TakeAll(From(s), u \o rows)
        BY <2>3
      <3> HIDE DEF rows, u
      <3>3. TakeAll(From(s), u \o rows) = TakeAll(TakeAll(From(s), u), rows)
        BY <3>1, TakeAllConcat
      <3> QED BY <3>2, <3>3 DEF u
    <2>5. CASE w <= s.version
      <3>1. Made(w - 1) = From(s)
        <4>1. w - 1 <= s.version
          BY <1>1, <2>1, <2>5
        <4> HIDE DEF w, Made
        <4> QED BY <2>2, <4>1
      <3>2. \A j \in 1..Len(rows) : rows[j].version = w
        BY <1>1, OfVersionRows
      <3>3. TakeAll(From(s), rows) = From(s)
        <4>1. From(s).version + 1 # w
          BY <1>1, <2>1, <2>5
        <4> HIDE DEF w, rows
        <4> QED BY <1>1, <2>3, <3>2, <4>1, TakeAllOfVersion
      <3>4. Right(w)
        BY <2>4, <2>5, <3>1, <3>3
      <3> HIDE DEF Right
      <3> QED BY <2>1, <3>4
    <2>6. CASE s.version < w
      <3>1. /\ OperationsBetween(s.version, w) = OperationsBetween(s.version, w - 1) \o rows
            /\ OperationsBetween(s.version, w - 1) \in Seq(Op)
        <4>1. w \in s.version + 1..MaxVersion
          BY <1>1, <2>1, <2>6
        <4> HIDE DEF w
        <4> QED BY <1>1, <2>1, <4>1, BetweenLoop DEF rows
      <3>2. Rebuilt(s, w) = TakeAll(Rebuilt(s, w - 1), rows)
        <4> DEFINE u == OperationsBetween(s.version, w - 1)
        <4>1. Rebuilt(s, w) = TakeAll(From(s), u \o rows) /\ Rebuilt(s, w - 1) = TakeAll(From(s), u)
          BY <3>1 DEF Rebuilt
        <4>2. u \in Seq(Op) /\ rows \in Seq(Op)
          BY <2>3, <3>1
        <4> HIDE DEF u, rows
        <4> QED BY <1>1, <4>1, <4>2, TakeAllConcat
      <3>3. Made(w - 1) = Rebuilt(s, w - 1)
        <4>1. CASE w - 1 = s.version
          <5>1. OperationsBetween(s.version, s.version) = <<>>
            BY <1>1, BetweenLoop
          <5>2. Rebuilt(s, s.version) = From(s)
            BY <1>1, <5>1, TakeAllGood DEF Rebuilt
          <5> HIDE DEF Made, w
          <5> QED BY <1>1, <2>2, <4>1, <5>2
        <4>2. CASE w - 1 # s.version
          <5>1. ~(w - 1 <= s.version)
            BY <1>1, <2>1, <2>6, <4>2
          <5> HIDE DEF Made, w
          <5> QED BY <2>2, <5>1
        <4> QED BY <4>1, <4>2
      <3>4. ~(w <= s.version)
        BY <1>1, <2>1, <2>6
      <3>5. Made(w) = Rebuilt(s, w)
        <4> HIDE DEF Made, w, rows
        <4> QED BY <2>4, <3>2, <3>3
      <3>6. Right(w)
        <4> HIDE DEF Made, w
        <4> QED BY <3>4, <3>5
      <3> HIDE DEF Right
      <3> QED BY <2>1, <3>6
    <2> HIDE DEF T
    <2> QED BY <1>1, <2>1, <2>5, <2>6
  <1>4. v - a \in 0..m /\ a + (v - a) = v
    BY <1>1
  <1>5. v - a \in T
    <2> HIDE DEF T
    <2> QED BY <1>1, <1>2, <1>3, <1>4, UpTo
  <1>6. Right(v)
    <2> HIDE DEF Right
    <2> QED BY <1>4, <1>5
  <1> QED BY <1>6

(* recoverToVersion, its three reads interleaved with every other step,    *)
(* gives the text of the target version, or of a newer snapshot's that     *)
(* came in between its test and its load, when every operation from the    *)
(* snapshot it loaded, or from nothing, is stored.                         *)
THEOREM RecoversTarget == Spec => []RecoverToExact
  <1>1. IInv => RecoverToExact
    <2> DEFINE s == recovery.loaded   a == recovery.start   t == recovery.target
               v == IF s.version > a /\ s.version > t THEN s.version ELSE t
               r == RecoveredTo
    <2> SUFFICES ASSUME IInv, recovery # Unknown, recovery.loaded # Unknown,
                        s.version >= a, v <= live.version,
                        Whole(s), OwnAfter(s.version), Stored(s.version, v)
                 PROVE  r.version = v /\ r.content = live.past[v + 1]
      BY DEF RecoverToExact
    <2>1. /\ s \in Snapshots /\ s.version \in Nat /\ a \in Nat /\ t \in Nat
          /\ a <= t /\ a <= s.version /\ t \in 0..MaxVersion /\ MaxVersion \in Nat
          /\ s.version \in 0..MaxVersion
      BY PersistenceAssumption DEF IInv, Recoveries, Snapshots
    <2>2. r = IF t <= s.version THEN From(s) ELSE Rebuilt(s, t)
      <3>1. a \in 0..s.version /\ t \in a..MaxVersion
        BY <2>1
      <3>2. r = TakeAll(From(s), OperationsBetween(a, t))
        BY DEF RecoveredTo
      <3> HIDE DEF s, a, t, r
      <3> QED BY <2>1, <3>1, <3>2, EarlierRowsRefused
    <2>3. CASE t <= s.version
      <3>1. v = s.version
        BY <2>1, <2>3
      <3>2. From(s).version = s.version /\ From(s).content = s.content
        BY DEF From
      <3>3. s.content = live.past[s.version + 1]
        BY DEF Whole
      <3> HIDE DEF v, s, t, r
      <3> QED BY <2>2, <2>3, <3>1, <3>2, <3>3
    <2>4. CASE s.version < t
      <3>1. v = t /\ t \in s.version..MaxVersion
        BY <2>1, <2>4
      <3>2. r = Rebuilt(s, t)
        BY <2>1, <2>2, <2>4
      <3>3. Whole(s) /\ OwnAfter(s.version) /\ Stored(s.version, v)
        OBVIOUS
      <3> HIDE DEF v, s, t, r
      <3>4. Faithful(r, s, t)
        BY <2>1, <3>1, <3>2, <3>3, RebuiltFaithful
      <3>5. r.version = t
        <4> SUFFICES ASSUME r.version # t PROVE FALSE
          OBVIOUS
        <4>1. r.version \in Nat /\ r.version < t /\ s.version <= r.version
          BY <2>1, <3>4 DEF Faithful
        <4>2. r.version + 1 \in s.version + 1..t
          BY <2>1, <4>1
        <4>3. PICK i \in DOMAIN operations : operations[i].version = r.version + 1
          BY <3>1, <3>3, <4>2 DEF Stored
        <4>4. i \in 1..Len(operations)
          BY <4>3, LenProperties DEF IInv
        <4> QED BY <3>4, <4>1, <4>3, <4>4 DEF Faithful
      <3> QED BY <3>1, <3>4, <3>5 DEF Faithful
    <2> QED BY <2>1, <2>3, <2>4
  <1> QED BY <1>1, Invariance, PTL

-----------------------------------------------------------------------------
(* Cleaning up.  One row more at the end of a table.                       *)
LEMMA RowsAppend ==
  ASSUME NEW X, NEW rows \in Seq(X), NEW x \in X, NEW kept, NEW also,
         \A i \in 1..Len(rows) : i \in kept <=> i \in also
  PROVE  Rows(Append(rows, x), also) = IF Len(rows) + 1 \in also
                                         THEN Append(Rows(rows, kept), x) ELSE Rows(rows, kept)
  <1> DEFINE n == Len(rows)   more == Append(rows, x)
  <1>1. /\ n \in Nat /\ more \in Seq(X) /\ Len(more) = n + 1 /\ more[n + 1] = x
        /\ \A i \in 1..n : more[i] = rows[i] /\ i \in 1..n + 1
    BY LenProperties, AppendProperties
  <1>2. PICK f : /\ f[0] = <<>> /\ Rows(rows, kept) = f[n]
                 /\ \A i \in 1..n : f[i] = IF i \in kept THEN Append(f[i - 1], rows[i])
                                            ELSE f[i - 1]
    BY RowsLoop
  <1> HIDE DEF more, n
  <1>3. PICK g : /\ g[0] = <<>> /\ Rows(more, also) = g[n + 1]
                 /\ \A i \in 1..n + 1 : g[i] = IF i \in also THEN Append(g[i - 1], more[i])
                                                ELSE g[i - 1]
    <2>1. more \in Seq(X)
      BY <1>1
    <2>2. PICK g : /\ g[0] = <<>>
                   /\ \A i \in 1..Len(more) :
                        g[i] = IF i \in also THEN Append(g[i - 1], more[i]) ELSE g[i - 1]
                   /\ Rows(more, also) = g[Len(more)]
      BY <2>1, RowsLoop
    <2> QED BY <1>1, <2>2
  <1> DEFINE T == {i \in 0..n : f[i] = g[i]}
  <1>4. 0 \in T
    BY <1>1, <1>2, <1>3
  <1>5. ASSUME NEW i \in 1..n, i - 1 \in T PROVE i \in T
    <2>1. i \in 1..n + 1 /\ i \in 0..n /\ more[i] = rows[i] /\ (i \in kept <=> i \in also)
      BY <1>1 DEF n
    <2> QED BY <1>2, <1>3, <1>5, <2>1
  <1>6. n \in T
    <2>1. n \in 0..n
      BY <1>1
    <2> HIDE DEF T
    <2> QED BY <1>1, <1>4, <1>5, <2>1, UpTo
  <1>7. g[n + 1] = IF n + 1 \in also THEN Append(g[n], x) ELSE g[n]
    <2>1. n + 1 \in 1..n + 1 /\ (n + 1) - 1 = n
      BY <1>1
    <2> QED BY <1>1, <1>3, <2>1
  <1> QED BY <1>2, <1>3, <1>6, <1>7 DEF more, n

LEMMA OfVersionNone ==
  ASSUME NEW v
  PROVE  OfVersion(<<>>, v) = <<>>
  <1> DEFINE none == <<>>
  <1>1. none \in Seq(Op) /\ \A i \in 1..Len(none) : none[i].version # v
    OBVIOUS
  <1> HIDE DEF none
  <1>2. none \in Seq(Op)
    BY <1>1
  <1>3. (\A i \in 1..Len(none) : none[i].version # v) => OfVersion(none, v) = <<>>
    BY <1>2, OfVersionRows
  <1> QED BY <1>1, <1>3 DEF none

LEMMA OfVersionAppend ==
  ASSUME NEW rows \in Seq(Op), NEW x \in Op, NEW v
  PROVE  OfVersion(Append(rows, x), v) =
           IF x.version = v THEN Append(OfVersion(rows, v), x) ELSE OfVersion(rows, v)
  <1> DEFINE more == Append(rows, x)
             kept == {i \in DOMAIN rows : rows[i].version = v}
             also == {i \in DOMAIN more : more[i].version = v}
  <1>1. /\ DOMAIN rows = 1..Len(rows) /\ DOMAIN more = 1..Len(rows) + 1 /\ Len(rows) \in Nat
        /\ more[Len(rows) + 1] = x /\ \A i \in 1..Len(rows) : more[i] = rows[i]
    BY LenProperties, AppendProperties
  <1>2. /\ \A i \in 1..Len(rows) : i \in kept <=> i \in also
        /\ Len(rows) + 1 \in also <=> x.version = v
    BY <1>1
  <1>3. OfVersion(rows, v) = Rows(rows, kept) /\ OfVersion(more, v) = Rows(more, also)
    BY DEF OfVersion
  <1> HIDE DEF kept, also
  <1>4. Rows(more, also) = IF Len(rows) + 1 \in also
                             THEN Append(Rows(rows, kept), x) ELSE Rows(rows, kept)
    BY <1>2, RowsAppend
  <1> HIDE DEF more
  <1>5. OfVersion(more, v) =
          IF x.version = v THEN Append(OfVersion(rows, v), x) ELSE OfVersion(rows, v)
    BY <1>2, <1>3, <1>4
  <1> QED BY <1>5 DEF more

(* Rows that all stay are found as before.                                 *)
LEMMA OfVersionStays ==
  ASSUME NEW rows \in Seq(Op), NEW kept, NEW v,
         \A i \in 1..Len(rows) : rows[i].version = v => i \in kept
  PROVE  OfVersion(Rows(rows, kept), v) = OfVersion(rows, v)
  <1> DEFINE n == Len(rows)   of == {i \in DOMAIN rows : rows[i].version = v}
  <1>1. /\ n \in Nat /\ DOMAIN rows = 1..n /\ \A i \in 1..n : rows[i] \in Op
    BY LenProperties, ElementOfSeq
  <1>2. PICK f : /\ f[0] = <<>> /\ Rows(rows, kept) = f[n]
                 /\ \A i \in 1..n : f[i] = IF i \in kept THEN Append(f[i - 1], rows[i])
                                            ELSE f[i - 1]
    BY RowsLoop
  <1>3. PICK g : /\ g[0] = <<>> /\ Rows(rows, of) = g[n]
                 /\ \A i \in 1..n : g[i] = IF i \in of THEN Append(g[i - 1], rows[i])
                                            ELSE g[i - 1]
    <2> HIDE DEF of
    <2> QED BY RowsLoop
  <1> DEFINE T == {i \in 0..n : f[i] \in Seq(Op) /\ OfVersion(f[i], v) = g[i]}
  <1>4. 0 \in T
    <2>1. <<>> \in Seq(Op) /\ 0 \in 0..n
      BY <1>1
    <2> QED BY <1>2, <1>3, <2>1, OfVersionNone
  <1>5. ASSUME NEW i \in 1..n, i - 1 \in T PROVE i \in T
    <2>1. /\ i \in 0..n /\ rows[i] \in Op /\ f[i - 1] \in Seq(Op) /\ OfVersion(f[i - 1], v) = g[i - 1]
          /\ i \in of <=> rows[i].version = v
      BY <1>1, <1>5
    <2>2. CASE i \in kept
      <3>1. f[i] = Append(f[i - 1], rows[i]) /\ f[i] \in Seq(Op)
        <4>1. f[i] = Append(f[i - 1], rows[i])
          BY <1>2, <2>2
        <4>2. Append(f[i - 1], rows[i]) \in Seq(Op)
          BY <2>1, AppendProperties
        <4> QED BY <4>1, <4>2
      <3>2. OfVersion(f[i], v) = IF rows[i].version = v
                                   THEN Append(g[i - 1], rows[i]) ELSE g[i - 1]
        <4> DEFINE h == f[i - 1]   x == rows[i]
        <4>1. h \in Seq(Op) /\ x \in Op /\ f[i] = Append(h, x) /\ OfVersion(h, v) = g[i - 1]
          BY <2>1, <3>1
        <4> HIDE DEF h, x
        <4>2. OfVersion(Append(h, x), v) =
                IF x.version = v THEN Append(OfVersion(h, v), x) ELSE OfVersion(h, v)
          BY <4>1, OfVersionAppend
        <4> QED BY <4>1, <4>2 DEF x
      <3> QED BY <1>3, <2>1, <3>1, <3>2
    <2>3. CASE i \notin kept
      <3>1. rows[i].version # v /\ f[i] = f[i - 1]
        BY <1>2, <2>3
      <3>2. g[i] = g[i - 1]
        BY <1>3, <2>1, <3>1
      <3> QED BY <2>1, <3>1, <3>2
    <2> QED BY <2>2, <2>3
  <1>6. n \in T
    <2>1. n \in 0..n
      BY <1>1
    <2> HIDE DEF T, n
    <2> QED BY <1>1, <1>4, <1>5, <2>1, UpTo
  <1>7. OfVersion(rows, v) = Rows(rows, of)
    BY DEF OfVersion
  <1> QED BY <1>2, <1>3, <1>6, <1>7

(* One snapshot more, and the newest one of a table.                       *)
LEMMA NewestNone == Newest(<<>>) = Empty
  <1> DEFINE none == <<>>
  <1>1. none \in Seq(Snapshots) /\ Len(none) = 0
    OBVIOUS
  <1> HIDE DEF none
  <1>2. none \in Seq(Snapshots)
    BY <1>1
  <1>3. PICK f : f[0] = Empty /\ Newest(none) = f[Len(none)]
    BY <1>2, NewestLoop
  <1> QED BY <1>1, <1>3 DEF none

LEMMA NewestAppend ==
  ASSUME NEW rows \in Seq(Snapshots), NEW x \in Snapshots
  PROVE  Newest(Append(rows, x)) =
           IF x.version >= Newest(rows).version THEN x ELSE Newest(rows)
  <1> DEFINE n == Len(rows)   more == Append(rows, x)
  <1>1. /\ n \in Nat /\ more \in Seq(Snapshots) /\ Len(more) = n + 1 /\ more[n + 1] = x
        /\ \A i \in 1..n : more[i] = rows[i] /\ i \in 1..n + 1
    BY LenProperties, AppendProperties
  <1>2. PICK f : /\ f[0] = Empty /\ Newest(rows) = f[n]
                 /\ \A i \in 1..n : f[i] = IF rows[i].version >= f[i - 1].version
                                            THEN rows[i] ELSE f[i - 1]
    BY NewestLoop
  <1> HIDE DEF more, n
  <1>3. PICK g : /\ g[0] = Empty /\ Newest(more) = g[n + 1]
                 /\ \A i \in 1..n + 1 : g[i] = IF more[i].version >= g[i - 1].version
                                                THEN more[i] ELSE g[i - 1]
    <2>1. more \in Seq(Snapshots)
      BY <1>1
    <2>2. PICK g : /\ g[0] = Empty
                   /\ \A i \in 1..Len(more) :
                        g[i] = IF more[i].version >= g[i - 1].version THEN more[i] ELSE g[i - 1]
                   /\ Newest(more) = g[Len(more)]
      BY <2>1, NewestLoop
    <2> QED BY <1>1, <2>2
  <1> DEFINE T == {i \in 0..n : f[i] = g[i]}
  <1>4. 0 \in T
    BY <1>1, <1>2, <1>3
  <1>5. ASSUME NEW i \in 1..n, i - 1 \in T PROVE i \in T
    <2>1. i \in 1..n + 1 /\ i \in 0..n /\ more[i] = rows[i] /\ f[i - 1] = g[i - 1]
      BY <1>1, <1>5
    <2>2. g[i] = IF rows[i].version >= f[i - 1].version THEN rows[i] ELSE f[i - 1]
      BY <1>3, <2>1
    <2> QED BY <1>2, <2>1, <2>2
  <1>6. n \in T
    <2>1. n \in 0..n
      BY <1>1
    <2> HIDE DEF T
    <2> QED BY <1>1, <1>4, <1>5, <2>1, UpTo
  <1>7. g[n + 1] = IF x.version >= g[n].version THEN x ELSE g[n]
    <2>1. n + 1 \in 1..n + 1 /\ (n + 1) - 1 = n
      BY <1>1
    <2> QED BY <1>1, <1>3, <2>1
  <1> QED BY <1>2, <1>3, <1>6, <1>7 DEF more

(* The newest snapshot is as new as any, and stays the newest when the     *)
(* snapshots from some row's version on are kept.                          *)
LEMMA NewestStays ==
  ASSUME NEW rows \in Seq(Snapshots), NEW k \in 1..Len(rows), NEW kept,
         \A i \in 1..Len(rows) : i \in kept <=> rows[i].version >= rows[k].version
  PROVE  Newest(Rows(rows, kept)) = Newest(rows)
  <1> DEFINE n == Len(rows)   c == rows[k].version
  <1>1. /\ n \in Nat /\ c \in Nat
        /\ \A i \in 1..n : rows[i] \in Snapshots /\ rows[i].version \in Nat
        /\ Empty \in Snapshots /\ Empty.version = 0
    <2>1. \A s \in Snapshots : s.version \in Nat
      BY PersistenceAssumption DEF Snapshots
    <2> QED BY <2>1, LenProperties, ElementOfSeq, EmptyType DEF Empty, Snapshot
  <1>2. PICK f : /\ f[0] = <<>> /\ Rows(rows, kept) = f[n]
                 /\ \A i \in 1..n : f[i] = IF i \in kept THEN Append(f[i - 1], rows[i])
                                            ELSE f[i - 1]
    BY RowsLoop
  <1>3. PICK h : /\ h[0] = Empty /\ Newest(rows) = h[n]
                 /\ \A i \in 1..n : h[i] = IF rows[i].version >= h[i - 1].version
                                            THEN rows[i] ELSE h[i - 1]
                 /\ \A i \in 0..n : h[i] \in Snapshots
    BY NewestLoop
  <1>4. \A i \in 0..n : h[i].version \in Nat
    BY <1>3, PersistenceAssumption DEF Snapshots
  <1> DEFINE Fine(i) == /\ f[i] \in Seq(Snapshots)
                        /\ i >= k => h[i].version >= c
                        /\ Newest(f[i]) = IF h[i].version >= c THEN h[i] ELSE Empty
             T == {i \in 0..n : Fine(i)}
  <1>5. 0 \in T
    <2>1. <<>> \in Seq(Snapshots) /\ 0 \in 0..n /\ ~(0 >= k)
      BY <1>1
    <2> QED BY <1>2, <1>3, <2>1, NewestNone
  <1>6. ASSUME NEW i \in 1..n, i - 1 \in T PROVE i \in T
    <2> DEFINE r == rows[i]   g == f[i - 1]   p == h[i - 1]
    <2>8. /\ i \in 0..n /\ i - 1 \in 0..n /\ r \in Snapshots /\ r.version \in Nat
          /\ i \in kept <=> r.version >= c
      BY <1>1
    <2>9. /\ g \in Seq(Snapshots)
          /\ i - 1 >= k => p.version >= c
          /\ Newest(g) = IF p.version >= c THEN p ELSE Empty
      <3>1. Fine(i - 1)
        <4> HIDE DEF Fine
        <4> QED BY <1>6
      <3> HIDE DEF T
      <3> QED BY <3>1
    <2>10. /\ h[i] = IF r.version >= p.version THEN r ELSE p
           /\ f[i] = IF i \in kept THEN Append(g, r) ELSE g
      BY <1>2, <1>3
    <2>11. p.version \in Nat
      BY <1>4, <2>8
    <2>1. /\ i \in 0..n /\ i - 1 \in 0..n /\ r \in Snapshots /\ r.version \in Nat
          /\ p.version \in Nat /\ g \in Seq(Snapshots)
          /\ i - 1 >= k => p.version >= c
          /\ Newest(g) = IF p.version >= c THEN p ELSE Empty
          /\ h[i] = IF r.version >= p.version THEN r ELSE p
          /\ f[i] = IF i \in kept THEN Append(g, r) ELSE g
          /\ i \in kept <=> r.version >= c
      BY <2>8, <2>9, <2>10, <2>11
    <2>2. i >= k => i - 1 >= k \/ r.version = c
      BY <1>1
    <2>4. Append(g, r) \in Seq(Snapshots)
      BY <2>1, AppendProperties
    <2>5. Newest(Append(g, r)) = IF r.version >= Newest(g).version THEN r ELSE Newest(g)
      BY <2>1, NewestAppend
    <2> HIDE DEF r, g, p, c, n
    <2>3. i >= k => h[i].version >= c
      BY <1>1, <2>1, <2>2
    <2>6. f[i] \in Seq(Snapshots)
      BY <2>1, <2>4
    <2>7. Newest(f[i]) = IF h[i].version >= c THEN h[i] ELSE Empty
      <3>1. CASE i \in kept
        <4>1. Newest(f[i]) = IF r.version >= Newest(g).version THEN r ELSE Newest(g)
          BY <2>1, <2>5, <3>1
        <4> QED BY <1>1, <2>1, <3>1, <4>1
      <3>2. CASE i \notin kept
        BY <1>1, <2>1, <3>2
      <3> QED BY <3>1, <3>2
    <2> QED BY <2>1, <2>3, <2>6, <2>7
  <1>7. n \in T
    <2>1. n \in 0..n
      BY <1>1
    <2> HIDE DEF T, n
    <2> QED BY <1>1, <1>5, <1>6, <2>1, UpTo
  <1>8. n >= k
    BY <1>1
  <1>9. Newest(f[n]) = h[n]
    <2>1. Fine(n)
      <3> HIDE DEF Fine
      <3> QED BY <1>7
    <2> HIDE DEF T, n, c
    <2> QED BY <1>8, <2>1
  <1> QED BY <1>2, <1>3, <1>9

(* As many rows are kept as there are numbers of kept rows.                *)
LEMMA RowsLen ==
  ASSUME NEW X, NEW rows \in Seq(X), NEW kept \in SUBSET (1..Len(rows))
  PROVE  IsFiniteSet(kept) /\ Len(Rows(rows, kept)) = Cardinality(kept)
  <1> DEFINE n == Len(rows)
             First(i) == {j \in kept : j <= i}
  <1>1. /\ n \in Nat /\ \A i \in 1..n : rows[i] \in X
        /\ \A j \in kept : j \in Nat /\ j >= 1 /\ j <= n
    BY LenProperties, ElementOfSeq
  <1>2. PICK f : /\ f[0] = <<>> /\ Rows(rows, kept) = f[n]
                 /\ \A i \in 1..n : f[i] = IF i \in kept THEN Append(f[i - 1], rows[i])
                                            ELSE f[i - 1]
    BY RowsLoop
  <1> DEFINE Fine(i) == /\ IsFiniteSet(First(i)) /\ f[i] \in Seq(X)
                        /\ Len(f[i]) = Cardinality(First(i))
             T == {i \in 0..n : Fine(i)}
  <1> HIDE DEF n
  <1>3. 0 \in T
    <2>1. First(0) = {}
      <3>1. \A j \in kept : ~(j <= 0)
        BY <1>1
      <3> QED BY <3>1
    <2>2. Len(<<>>) = 0 /\ <<>> \in Seq(X) /\ 0 \in 0..n
      BY <1>1
    <2> HIDE DEF First
    <2> QED BY <1>2, <2>1, <2>2, FS_EmptySet
  <1>4. ASSUME NEW i \in 1..n, i - 1 \in T PROVE i \in T
    <2> DEFINE g == f[i - 1]   A == First(i - 1)   r == rows[i]
    <2>1. Fine(i - 1) /\ i \in 0..n
      <3> HIDE DEF Fine
      <3> QED BY <1>1, <1>4
    <2>2. IsFiniteSet(A) /\ g \in Seq(X) /\ Len(g) = Cardinality(A) /\ r \in X
      BY <1>1, <2>1
    <2>3. /\ i \notin A
          /\ i \in kept => First(i) = A \cup {i}
          /\ i \notin kept => First(i) = A
      <3>1. \A j \in kept : j <= i <=> j <= i - 1 \/ j = i
        BY <1>1
      <3>2. i \notin A
        BY <1>1
      <3>3. ASSUME i \in kept PROVE First(i) = A \cup {i}
        BY <3>1, <3>3
      <3>4. ASSUME i \notin kept PROVE First(i) = A
        BY <3>1, <3>4
      <3> QED BY <3>2, <3>3, <3>4
    <2>4. f[i] = IF i \in kept THEN Append(g, r) ELSE g
      BY <1>2
    <2> HIDE DEF g, A, r, First
    <2>5. Append(g, r) \in Seq(X) /\ Len(Append(g, r)) = Len(g) + 1
      BY <2>2, AppendProperties
    <2>6. IsFiniteSet(A \cup {i}) /\ Cardinality(A \cup {i}) = Cardinality(A) + 1
      BY <2>2, <2>3, FS_AddElement
    <2>7. Fine(i)
      BY <2>2, <2>3, <2>4, <2>5, <2>6
    <2> QED BY <2>1, <2>7
  <1>5. Fine(n)
    <2>1. n \in 0..n
      BY <1>1
    <2>2. n \in T
      <3> HIDE DEF T
      <3> QED BY <1>1, <1>3, <1>4, <2>1, UpTo
    <2> QED BY <2>2
  <1>6. First(n) = kept
    BY <1>1
  <1> QED BY <1>2, <1>5, <1>6

(* Deleting all but the newest rows leaves every row after a version, if   *)
(* it leaves as many rows as there are after that version.                 *)
LEMMA NewerStay ==
  ASSUME operations \in Seq(Op), NEW keep \in Nat, NEW version \in Nat,
         NEW kept, kept = {i \in DOMAIN operations : Cardinality(Newer(operations, i)) < keep},
         NEW later, later = {i \in DOMAIN operations : operations[i].version > version},
         Len(Rows(operations, kept)) >= Cardinality(later)
  PROVE  \A i \in 1..Len(operations) : operations[i].version > version => i \in kept
  <1> DEFINE n == Len(operations)   V(i) == operations[i].version
             N(i) == Newer(operations, i)
  <1>1. /\ n \in Nat /\ DOMAIN operations = 1..n /\ \A i \in 1..n : V(i) \in Nat
    BY LenProperties, ElementOfSeq, PersistenceAssumption
  <1>2. IsFiniteSet(1..n) /\ kept \in SUBSET (1..n) /\ later \in SUBSET (1..n)
    <2>1. 1 \in Int /\ n \in Int
      BY <1>1
    <2>2. IsFiniteSet(1..n)
      BY <2>1, FS_Interval
    <2> QED BY <1>1, <2>2
  <1>3. /\ IsFiniteSet(kept) /\ IsFiniteSet(later) /\ Cardinality(later) \in Nat
        /\ Cardinality(kept) >= Cardinality(later) /\ Cardinality(kept) \in Nat
    <2>1. IsFiniteSet(kept) /\ IsFiniteSet(later)
      BY <1>2, FS_Subset
    <2>2. Len(Rows(operations, kept)) = Cardinality(kept)
      BY <1>2, RowsLen
    <2> QED BY <2>1, <2>2, FS_CardinalityType
  <1>4. \A i, j \in 1..n : j \in N(i) <=> V(j) > V(i) \/ (V(j) = V(i) /\ j > i)
    BY <1>1 DEF Newer
  <1>5. \A i \in 1..n : N(i) \in SUBSET (1..n)
    BY <1>1 DEF Newer
  <1>6. \A i \in 1..n : IsFiniteSet(N(i)) /\ Cardinality(N(i)) \in Nat
    <2> SUFFICES ASSUME NEW i \in 1..n PROVE IsFiniteSet(N(i)) /\ Cardinality(N(i)) \in Nat
      OBVIOUS
    <2>1. N(i) \in SUBSET (1..n)
      BY <1>5
    <2> HIDE DEF N
    <2> QED BY <1>2, <2>1, FS_Subset, FS_CardinalityType
  <1> SUFFICES ASSUME NEW i \in 1..n, V(i) > version, i \notin kept PROVE FALSE
    OBVIOUS
  <1>7. Cardinality(N(i)) >= keep
    BY <1>1, <1>6
  <1>8. ASSUME NEW j \in kept PROVE j \in N(i)
    <2>1. j \in 1..n /\ Cardinality(N(j)) < keep
      BY <1>1
    <2>2. SUFFICES ASSUME j \notin N(i) PROVE FALSE
      OBVIOUS
    <2> HIDE DEF N, n, V
    <2>3. N(i) \in SUBSET N(j)
      <3> SUFFICES ASSUME NEW k \in N(i) PROVE k \in N(j)
        OBVIOUS
      <3>1. k \in 1..n
        BY <1>5
      <3>2. V(k) > V(i) \/ (V(k) = V(i) /\ k > i)
        BY <1>4, <3>1
      <3>3. ~(V(j) > V(i) \/ (V(j) = V(i) /\ j > i))
        BY <1>4, <2>1, <2>2
      <3>4. V(k) > V(j) \/ (V(k) = V(j) /\ k > j)
        BY <1>1, <2>1, <3>1, <3>2, <3>3
      <3> QED BY <1>4, <2>1, <3>1, <3>4
    <2>4. Cardinality(N(i)) <= Cardinality(N(j))
      BY <1>6, <2>1, <2>3, FS_Subset
    <2> QED BY <1>6, <1>7, <2>1, <2>4
  <1>9. kept \in SUBSET (later \ {i})
    <2> SUFFICES ASSUME NEW j \in kept PROVE j \in later \ {i}
      OBVIOUS
    <2>1. j \in 1..n /\ j \in N(i) /\ j # i
      BY <1>2, <1>8
    <2>2. V(j) >= V(i)
      BY <1>1, <1>4, <2>1
    <2> QED BY <1>1, <2>1, <2>2
  <1>10. i \in later
    BY <1>1
  <1>11. IsFiniteSet(later \ {i}) /\ Cardinality(later \ {i}) = Cardinality(later) - 1
    BY <1>3, <1>10, FS_RemoveElement
  <1>12. Cardinality(kept) <= Cardinality(later \ {i})
    BY <1>9, <1>11, FS_Subset
  <1> QED BY <1>3, <1>11, <1>12

-----------------------------------------------------------------------------
(* Neither cleaning up the snapshots, nor the operations as long as those  *)
(* after the newest snapshot are within the number kept, changes what      *)
(* recoverDocument makes of the tables after a crash.                      *)
LEMMA SnapshotsCleaned ==
  ASSUME IInv, NEW keep \in 1..MaxSnapshots, CleanupOldSnapshots(keep)
  PROVE  Recovered' = Recovered
  <1>1. PICK i \in DOMAIN snapshots :
          snapshots' = Rows(snapshots, {j \in DOMAIN snapshots :
                                          snapshots[j].version >= snapshots[i].version})
    BY DEF CleanupOldSnapshots
  <1> DEFINE kept == {j \in DOMAIN snapshots : snapshots[j].version >= snapshots[i].version}
  <1>2. /\ snapshots \in Seq(Snapshots) /\ DOMAIN snapshots = 1..Len(snapshots)
        /\ i \in 1..Len(snapshots)
        /\ \A j \in 1..Len(snapshots) : j \in kept <=> snapshots[j].version >= snapshots[i].version
    BY LenProperties DEF IInv
  <1>3. snapshots' = Rows(snapshots, kept)
    BY <1>1
  <1> HIDE DEF kept
  <1>4. Newest(Rows(snapshots, kept)) = Newest(snapshots)
    BY <1>2, NewestStays
  <1>5. NewestSnapshot' = NewestSnapshot /\ operations' = operations
    BY <1>3, <1>4 DEF NewestSnapshot, CleanupOldSnapshots
  <1>6. OperationsBetween(NewestSnapshot.version, MaxVersion)' =
          OperationsBetween(NewestSnapshot.version, MaxVersion)
    BY <1>5 DEF OperationsBetween
  <1> QED BY <1>5, <1>6 DEF Recovered

LEMMA OperationsCleaned ==
  ASSUME IInv, NEW keep \in 0..MaxRows, CleanupOldOperations(keep),
         Len(operations') >= Cardinality({i \in DOMAIN operations :
                                             operations[i].version > NewestSnapshot.version})
  PROVE  Recovered' = Recovered
  <1> DEFINE kept == {i \in DOMAIN operations : Cardinality(Newer(operations, i)) < keep}
             a == NewestSnapshot.version
             later == {i \in DOMAIN operations : operations[i].version > a}
  <1>1. operations' = Rows(operations, kept) /\ snapshots' = snapshots
    BY DEF CleanupOldOperations
  <1>2. a \in Nat /\ keep \in Nat /\ operations \in Seq(Op) /\ MaxVersion \in Nat
    <2>1. NewestSnapshot \in Snapshots
      <3>1. 0 \in 0..MaxVersion
        BY PersistenceAssumption
      <3> QED BY <3>1, RebuiltGood
    <2> QED BY <2>1, PersistenceAssumption DEF IInv, Snapshots
  <1>3. \A i \in 1..Len(operations) : operations[i].version > a => i \in kept
    <2>1. Len(Rows(operations, kept)) >= Cardinality(later)
      BY <1>1
    <2>2. \E x, y : /\ x = kept /\ x = {i \in DOMAIN operations : Cardinality(Newer(operations, i)) < keep}
                    /\ y = later /\ y = {i \in DOMAIN operations : operations[i].version > a}
      OBVIOUS
    <2> HIDE DEF kept, later, a
    <2> QED BY <1>2, <2>1, <2>2, NewerStay
  <1>4. NewestSnapshot' = NewestSnapshot
    BY <1>1 DEF NewestSnapshot
  <1>5. \A v \in 0..MaxVersion : ~(v <= a) => OfVersion(operations, v)' = OfVersion(operations, v)
    <2> SUFFICES ASSUME NEW v \in 0..MaxVersion, ~(v <= a)
                 PROVE  OfVersion(operations', v) = OfVersion(operations, v)
      BY DEF OfVersion
    <2>1. v \in Nat /\ v > a
      BY <1>2
    <2>2. \A i \in 1..Len(operations) : operations[i].version = v => i \in kept
      BY <1>3, <2>1
    <2> HIDE DEF kept, a
    <2>3. OfVersion(Rows(operations, kept), v) = OfVersion(operations, v)
      BY <1>2, <2>2, OfVersionStays
    <2> QED BY <1>1, <2>3
  <1>6. OperationsBetween(NewestSnapshot.version, MaxVersion)' =
          OperationsBetween(NewestSnapshot.version, MaxVersion)
    <2> DEFINE Old(f) == [v \in 0..MaxVersion |-> IF v <= a THEN <<>>
                                                  ELSE f[v - 1] \o OfVersion(operations, v)]
               New(f) == [v \in 0..MaxVersion |-> IF v <= a THEN <<>>
                                                  ELSE f[v - 1] \o OfVersion(operations', v)]
    <2>1. \A f : New(f) = Old(f)
      BY <1>5 DEF OfVersion
    <2>2. (CHOOSE f : f = New(f)) = CHOOSE f : f = Old(f)
      <3> HIDE DEF New, Old
      <3> QED BY <2>1
    <2> QED BY <1>4, <2>2 DEF OperationsBetween
  <1> QED BY <1>4, <1>6 DEF Recovered

(* cleanupOldSnapshots and cleanupOldOperations never take away what a     *)
(* recovery needs, as far as they were told to keep enough.                *)
THEOREM CleanupIsSafe == Spec => CleanupKeepsRecovery
  <1> DEFINE Cleaned ==
        \/ Len(snapshots') < Len(snapshots)
        \/ /\ Len(operations') < Len(operations)
           /\ Len(operations') >= Cardinality({i \in DOMAIN operations :
                                                  operations[i].version > NewestSnapshot.version})
  <1>1. IInv /\ [Next]_vars => (Cleaned => Recovered' = Recovered)
    <2> SUFFICES ASSUME IInv, [Next]_vars, Cleaned PROVE Recovered' = Recovered
      OBVIOUS
    <2>1. Len(operations) \in Nat /\ Len(snapshots) \in Nat
      BY LenProperties DEF IInv
    <2>2. ASSUME NEW op \in Op, Store(op) PROVE FALSE
      <3>1. Len(operations') = Len(operations) + 1 /\ snapshots' = snapshots
        BY <2>2, AppendProperties DEF Store, IInv
      <3> QED BY <2>1, <3>1
    <2>3. ASSUME InsertSnapshot PROVE FALSE
      <3>1. Snapshot(snapping.version, TextToSnap) \in Snapshots
        BY <2>3, SnapshotType DEF InsertSnapshot
      <3>2. Len(snapshots') = Len(snapshots) + 1 /\ operations' = operations
        BY <2>3, <3>1, AppendProperties DEF InsertSnapshot, IInv
      <3> QED BY <2>1, <3>2
    <2>4. ASSUME operations' = operations, snapshots' = snapshots PROVE FALSE
      BY <2>1, <2>4
    <2>5. ASSUME NEW keep \in 0..MaxRows, CleanupOldOperations(keep)
          PROVE  Recovered' = Recovered
      <3>1. snapshots' = snapshots
        BY <2>5 DEF CleanupOldOperations
      <3>2. Len(operations') >= Cardinality({i \in DOMAIN operations :
                                                operations[i].version > NewestSnapshot.version})
        BY <2>1, <3>1
      <3> QED BY <2>5, <3>2, OperationsCleaned
    <2>6. \/ operations' = operations /\ snapshots' = snapshots
          \/ \E op \in Op : Store(op)
          \/ InsertSnapshot
          \/ \E keep \in 1..MaxSnapshots : CleanupOldSnapshots(keep)
          \/ \E keep \in 0..MaxRows : CleanupOldOperations(keep)
      BY DEF Next, vars, Apply, StoreFails, ReadVersion, InsertSnapshotFails, Restart,
             ReadSnapshotVersion, LoadSnapshot, ReplayOperations
    <2> QED BY <2>2, <2>3, <2>4, <2>5, <2>6, SnapshotsCleaned
  <1>2. IInv /\ [Next]_vars => [Cleaned => Recovered' = Recovered]_vars
    BY <1>1
  <1> QED BY <1>2, Invariance, PTL DEF Spec, CleanupKeepsRecovery

=============================================================================
