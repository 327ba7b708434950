---------------------------- MODULE FrontendProofs ----------------------------
(***************************************************************************)
(* Proofs about Frontend: about the tabs of the mock server, for any tabs, *)
(* documents, texts typed and bounds, and about the client, for any number *)
(* of sockets and any bound on the timers.                                 *)
(*                                                                         *)
(* DocsAgree speaks of the moment when everything has arrived.  What holds *)
(* all the time, undisturbed, is that the operations on their way are all  *)
(* of one tab, and that what a tab has not seen yet of one that has seen   *)
(* everything is exactly what its copies lack.  That the operations made   *)
(* of a change make the new text is a fact about the engine's comparison.  *)
(*                                                                         *)
(* OneConnection is inductive together with three facts: the client's open *)
(* socket has been sent CONNECT, a timer that a field names is running,    *)
(* and until disconnect() is called the state says what the one live       *)
(* socket is doing.                                                        *)
(***************************************************************************)
EXTENDS Frontend, SequenceTheorems, WellFoundedInduction, TLAPS

-----------------------------------------------------------------------------
(* Induction on the natural numbers, for a set of them.                    *)
Less == {p \in Nat \X Nat : p[1] < p[2]}

LEMMA LessWellFounded == IsWellFoundedOn(Less, Nat)
  BY NatLessThanWellFounded, Zenon DEF OpToRel, Less

LEMMA SetInduction ==
  ASSUME NEW T, 0 \in T, \A n \in Nat : n \in T => n + 1 \in T
  PROVE  \A n \in Nat : n \in T
  <1> DEFINE U == Nat \ T
  <1>1. SUFFICES ASSUME U # {} PROVE FALSE
    OBVIOUS
  <1>2. PICK x \in U : \A y \in U : <<y, x>> \notin Less
    BY LessWellFounded, <1>1, WFMin, Zenon
  <1>3. x # 0 /\ x - 1 \in Nat /\ x - 1 < x /\ x = (x - 1) + 1
    BY <1>2
  <1>4. x - 1 \in U
    BY <1>2, <1>3
  <1> QED BY <1>2, <1>3, <1>4 DEF Less

Text == Seq(Char)

Change == [type : {"insert", "delete"}, position : Nat, content : Text]

-----------------------------------------------------------------------------
(* What a slice is.                                                        *)
LEMMA SliceOf ==
  ASSUME NEW text \in Text, NEW from \in Nat, NEW to \in Nat
  PROVE  LET end == IF to < Len(text) THEN to ELSE Len(text)
             n == IF from <= end THEN end - from ELSE 0
         IN  /\ Slice(text, from, to) \in Text /\ Len(Slice(text, from, to)) = n
             /\ \A i \in 1..n : Slice(text, from, to)[i] = text[from + i]
  <1> DEFINE end == IF to < Len(text) THEN to ELSE Len(text)
             s == SubSeq(text, from + 1, end)
  <1>1. Len(text) \in Nat /\ \A i \in 1..Len(text) : text[i] \in Char
    BY ElementOfSeq, LenProperties DEF Text
  <1>2. end \in Nat /\ end <= Len(text) /\ from + 1 \in Int /\ end \in Int
    BY <1>1
  <1>3. \A i \in from + 1 .. end : text[i] \in Char
    BY <1>1, <1>2
  <1>4. Slice(text, from, to) = s
    BY DEF Slice
  <1> HIDE DEF end
  <1>5. /\ s \in Seq(Char) /\ Len(s) = IF from + 1 <= end THEN end - (from + 1) + 1 ELSE 0
        /\ \A i \in 1..end - (from + 1) + 1 : s[i] = text[(from + 1) + i - 1]
    BY <1>2, <1>3, SubSeqProperties
  <1> HIDE DEF s
  <1>6. Len(s) = IF from <= end THEN end - from ELSE 0
    BY <1>2, <1>5
  <1>7. \A i \in 1..Len(s) : i \in 1..end - (from + 1) + 1 /\ (from + 1) + i - 1 = from + i
    BY <1>2, <1>6
  <1>8. \A i \in 1..Len(s) : s[i] = text[from + i]
    BY <1>5, <1>7
  <1> QED BY <1>4, <1>5, <1>6, <1>8 DEF end, Text

(* A change of a text makes a text.                                        *)
LEMMA AppliedType ==
  ASSUME NEW text \in Text, NEW op \in Change
  PROVE  Applied(text, op) \in Text
  <1>1. /\ op.position \in Nat /\ op.content \in Seq(Char) /\ Len(op.content) \in Nat
        /\ Len(text) \in Nat
    BY LenProperties DEF Change, Text
  <1>2. \A i, j \in Nat : Slice(text, i, j) \in Seq(Char)
    BY SliceOf DEF Text
  <1>3. <<>> \in Seq(Char)
    OBVIOUS
  <1> DEFINE skip == IF op.type = "insert" THEN 0 ELSE Len(op.content)
             put == IF op.type = "delete" THEN <<>> ELSE op.content
  <1>4. op.position + skip \in Nat /\ put \in Seq(Char) /\ 0 \in Nat
    BY <1>1, <1>3
  <1>5. Applied(text, op) =
          Slice(text, 0, op.position) \o put \o Slice(text, op.position + skip, Len(text))
    BY DEF Applied
  <1> HIDE DEF skip, put
  <1>6. Slice(text, 0, op.position) \in Seq(Char)
        /\ Slice(text, op.position + skip, Len(text)) \in Seq(Char)
    BY <1>1, <1>2, <1>4
  <1> QED BY <1>4, <1>5, <1>6, ConcatProperties DEF Text

(* A property of 0 and not of every number has a last number before it ends. *)
LEMMA LastBefore ==
  ASSUME NEW T, 0 \in T, NEW m \in Nat, m \notin T
  PROVE  \E n \in Nat : n \in T /\ n + 1 \notin T
  <1> QED BY SetInduction

(* There is a longest common prefix.                                       *)
LEMMA PrefixOf ==
  ASSUME NEW old \in Text, NEW new \in Text
  PROVE  /\ PrefixLength(old, new) \in Nat
         /\ PrefixLength(old, new) <= Len(old) /\ PrefixLength(old, new) <= Len(new)
         /\ \A i \in 1..PrefixLength(old, new) : old[i] = new[i]
  <1> DEFINE Same(n) == n <= Len(old) /\ n <= Len(new) /\ \A i \in 1..n : old[i] = new[i]
             T == {n \in Nat : Same(n)}
  <1>1. Len(old) \in Nat /\ Len(new) \in Nat
    BY LenProperties DEF Text
  <1>2. 0 \in T /\ Len(old) + 1 \notin T /\ Len(old) + 1 \in Nat
    BY <1>1
  <1>3. \E n \in Nat : n \in T /\ n + 1 \notin T
    <2> HIDE DEF T
    <2> QED BY <1>2, LastBefore
  <1>4. \E n \in 0..Len(old) : Same(n) /\ ~Same(n + 1)
    BY <1>1, <1>3
  <1>5. PrefixLength(old, new) = CHOOSE n \in 0..Len(old) : Same(n) /\ ~Same(n + 1)
    BY DEF PrefixLength
  <1> DEFINE p == PrefixLength(old, new)
  <1>6. p \in 0..Len(old) /\ Same(p)
    <2> HIDE DEF Same
    <2> QED BY <1>4, <1>5
  <1> QED BY <1>1, <1>6

(* And a longest common suffix behind any common prefix.                   *)
LEMMA SuffixOf ==
  ASSUME NEW old \in Text, NEW new \in Text, NEW prefix \in Nat,
         prefix <= Len(old), prefix <= Len(new)
  PROVE  LET s == SuffixLength(old, new, prefix)
         IN  /\ s \in Nat /\ prefix + s <= Len(old) /\ prefix + s <= Len(new)
             /\ \A i \in 0..s - 1 : old[Len(old) - i] = new[Len(new) - i]
  <1> DEFINE Same(n) == /\ n <= Len(old) - prefix /\ n <= Len(new) - prefix
                        /\ \A i \in 0..n-1 : old[Len(old) - i] = new[Len(new) - i]
             T == {n \in Nat : Same(n)}
             s == SuffixLength(old, new, prefix)
  <1>1. Len(old) \in Nat /\ Len(new) \in Nat
    BY LenProperties DEF Text
  <1>2. 0 \in T /\ Len(old) + 1 \notin T /\ Len(old) + 1 \in Nat
    BY <1>1
  <1>3. \E n \in Nat : n \in T /\ n + 1 \notin T
    <2> HIDE DEF T
    <2> QED BY <1>2, LastBefore
  <1>4. \E n \in 0..Len(old) : Same(n) /\ ~Same(n + 1)
    <2>1. PICK n \in Nat : Same(n) /\ n + 1 \notin T
      BY <1>3
    <2>2. n \in 0..Len(old) /\ n + 1 \in Nat
      BY <1>1, <2>1
    <2>3. ~Same(n + 1)
      <3> HIDE DEF Same
      <3> QED BY <2>1, <2>2
    <2> HIDE DEF Same, T
    <2> QED BY <2>1, <2>2, <2>3
  <1>5. s = CHOOSE n \in 0..Len(old) : Same(n) /\ ~Same(n + 1)
    BY DEF SuffixLength
  <1>6. s \in 0..Len(old) /\ Same(s)
    <2> HIDE DEF Same, s
    <2> QED BY <1>4, <1>5
  <1> HIDE DEF s
  <1>7. s \in Nat /\ prefix + s <= Len(old) /\ prefix + s <= Len(new)
    BY <1>1, <1>6
  <1> QED BY <1>6, <1>7 DEF s

-----------------------------------------------------------------------------
(* Changes made one after the other leave a text after every one.          *)
LEMMA AfterLoop ==
  ASSUME NEW text, NEW ops, Len(ops) \in Nat
  PROVE  \E f : /\ f[0] = text
                /\ \A i \in 1..Len(ops) : f[i] = Applied(f[i - 1], ops[i])
                /\ After(text, ops) = f[Len(ops)]
  <1> DEFINE N == Len(ops)
             Body(g, n) == [i \in 0..n |-> IF i = 0 THEN text ELSE Applied(g[i - 1], ops[i])]
             T == {n \in Nat : \E g : g = Body(g, n)}
  <1>1. 0 \in T
    <2> DEFINE g == [i \in 0..0 |-> text]
    <2>1. g = Body(g, 0)
      OBVIOUS
    <2> QED BY <2>1
  <1>2. ASSUME NEW n \in Nat, n \in T PROVE n + 1 \in T
    <2>1. PICK g : g = Body(g, n)
      BY <1>2
    <2> DEFINE k == [i \in 0..n + 1 |-> IF i = n + 1 THEN Applied(g[n], ops[n + 1]) ELSE g[i]]
    <2>2. \A i \in 0..n + 1 : k[i] = IF i = 0 THEN text ELSE Applied(k[i - 1], ops[i])
      <3> TAKE i \in 0..n + 1
      <3>1. CASE i = n + 1
        <4>1. k[i - 1] = g[n] /\ i # 0
          BY <3>1
        <4> QED BY <3>1, <4>1
      <3>2. CASE i # n + 1 /\ i # 0
        <4>1. k[i - 1] = g[i - 1] /\ k[i] = g[i] /\ i \in 0..n
          BY <3>2
        <4> QED BY <2>1, <3>2, <4>1
      <3>3. CASE i # n + 1 /\ i = 0
        BY <2>1, <3>3
      <3> QED BY <3>1, <3>2, <3>3
    <2>3. k = Body(k, n + 1)
      BY <2>2
    <2>4. \E x : x = Body(x, n + 1)
      <3> HIDE DEF k
      <3> WITNESS k
      <3> QED BY <2>3
    <2>5. n + 1 \in Nat
      OBVIOUS
    <2> HIDE DEF Body
    <2> QED BY <2>4, <2>5, Zenon
  <1>3. N \in T
    <2> HIDE DEF T
    <2> QED BY <1>1, <1>2, SetInduction
  <1> DEFINE f == CHOOSE g : g = Body(g, N)
  <1>4. f = Body(f, N)
    BY <1>3
  <1>5. After(text, ops) = f[N]
    BY DEF After
  <1> HIDE DEF f
  <1>6. f[0] = text /\ \A i \in 1..N : f[i] = Applied(f[i - 1], ops[i])
    BY <1>4
  <1> QED BY <1>5, <1>6

(* They make a text of a text.                                             *)
LEMMA AfterType ==
  ASSUME NEW text \in Text, NEW ops \in Seq(Change)
  PROVE  After(text, ops) \in Text
  <1>1. Len(ops) \in Nat /\ \A i \in 1..Len(ops) : ops[i] \in Change
    BY LenProperties, ElementOfSeq
  <1>2. PICK f : /\ f[0] = text
                 /\ \A i \in 1..Len(ops) : f[i] = Applied(f[i - 1], ops[i])
                 /\ After(text, ops) = f[Len(ops)]
    BY <1>1, AfterLoop
  <1> DEFINE T == {i \in Nat : i <= Len(ops) => f[i] \in Text}
  <1>3. 0 \in T
    BY <1>2
  <1>4. ASSUME NEW i \in Nat, i \in T PROVE i + 1 \in T
    <2>1. ASSUME i + 1 <= Len(ops) PROVE f[i + 1] \in Text
      <3>1. i + 1 \in 1..Len(ops) /\ (i + 1) - 1 = i /\ i <= Len(ops)
        BY <1>1, <2>1
      <3>2. f[i] \in Text /\ ops[i + 1] \in Change
        BY <1>1, <1>4, <3>1
      <3>3. f[i + 1] = Applied(f[i], ops[i + 1])
        BY <1>2, <3>1
      <3> QED BY <3>2, <3>3, AppliedType
    <2> QED BY <2>1
  <1>5. Len(ops) \in T
    <2> HIDE DEF T
    <2> QED BY <1>1, <1>3, <1>4, SetInduction
  <1> QED BY <1>1, <1>2, <1>5

(* No change, one, or two.                                                 *)
LEMMA AfterFew ==
  ASSUME NEW text
  PROVE  /\ After(text, <<>>) = text
         /\ \A a : After(text, <<a>>) = Applied(text, a)
         /\ \A a, b : After(text, <<a, b>>) = Applied(Applied(text, a), b)
  <1>1. After(text, <<>>) = text
    BY AfterLoop
  <1>2. ASSUME NEW a PROVE After(text, <<a>>) = Applied(text, a)
    <2>1. Len(<<a>>) = 1 /\ <<a>>[1] = a
      OBVIOUS
    <2> DEFINE ops == <<a>>
    <2> HIDE DEF ops
    <2>2. PICK f : /\ f[0] = text /\ \A i \in 1..Len(ops) : f[i] = Applied(f[i - 1], ops[i])
                   /\ After(text, ops) = f[Len(ops)]
      BY <2>1, AfterLoop DEF ops
    <2>3. f[1] = Applied(f[0], ops[1])
      BY <2>1, <2>2 DEF ops
    <2> QED BY <2>1, <2>2, <2>3 DEF ops
  <1>3. ASSUME NEW a, NEW b PROVE After(text, <<a, b>>) = Applied(Applied(text, a), b)
    <2> DEFINE ops == <<a, b>>
    <2>1. Len(ops) = 2 /\ ops[1] = a /\ ops[2] = b
      OBVIOUS
    <2> HIDE DEF ops
    <2>2. PICK f : /\ f[0] = text /\ \A i \in 1..Len(ops) : f[i] = Applied(f[i - 1], ops[i])
                   /\ After(text, ops) = f[Len(ops)]
      <3>1. Len(ops) \in Nat
        BY <2>1
      <3> QED BY <3>1, AfterLoop
    <2>3. f[1] = Applied(f[0], ops[1]) /\ f[2] = Applied(f[1], ops[2])
      BY <2>1, <2>2
    <2> QED BY <2>1, <2>2, <2>3 DEF ops
  <1> QED BY <1>1, <1>2, <1>3

\* new is the first i characters of text, put, and text from j on.
Splices(new, text, put, i, j) ==
  /\ new \in Text /\ Len(new) = i + Len(put) + (Len(text) - j)
  /\ \A n \in 1..i : new[n] = text[n]
  /\ \A n \in 1..Len(put) : new[i + n] = put[n]
  /\ \A n \in 1..Len(text) - j : new[i + Len(put) + n] = text[j + n]

LEMMA Spliced ==
  ASSUME NEW text \in Text, NEW put \in Text, NEW i \in Nat, NEW j \in Nat,
         i <= j, j <= Len(text)
  PROVE  Splices(Slice(text, 0, i) \o put \o Slice(text, j, Len(text)), text, put, i, j)
  <1> DEFINE m == Len(text)   k == Len(put)
             a == Slice(text, 0, i)   c == Slice(text, j, Len(text))
             ab == a \o put   new == ab \o c
  <1>1. m \in Nat /\ k \in Nat
    BY LenProperties DEF Text
  <1>2. a \in Seq(Char) /\ Len(a) = i /\ \A n \in 1..i : a[n] = text[n]
    <2>1. (IF i < m THEN i ELSE m) = i /\ 0 <= i /\ i - 0 = i /\ 0 \in Nat
      BY <1>1
    <2>2. LET end == IF i < m THEN i ELSE m
              n == IF 0 <= end THEN end - 0 ELSE 0
          IN  /\ a \in Text /\ Len(a) = n /\ \A q \in 1..n : a[q] = text[0 + q]
      BY <2>1, SliceOf
    <2>3. \A q \in 1..i : 0 + q = q
      OBVIOUS
    <2> HIDE DEF a
    <2> QED BY <2>1, <2>2, <2>3 DEF Text
  <1>3. c \in Seq(Char) /\ Len(c) = m - j /\ \A n \in 1..m - j : c[n] = text[j + n]
    BY <1>1, SliceOf DEF Text
  <1>4. put \in Seq(Char)
    BY DEF Text
  <1> HIDE DEF a, c
  <1>5. /\ ab \in Seq(Char) /\ Len(ab) = i + k
        /\ \A n \in 1..i : ab[n] = text[n]
        /\ \A n \in 1..k : ab[i + n] = put[n]
    <2>1. \A q \in 1..Len(a) + Len(put) : ab[q] = IF q <= Len(a) THEN a[q] ELSE put[q - Len(a)]
      BY <1>2, <1>4, ConcatProperties
    <2>2. ab \in Seq(Char) /\ Len(ab) = i + k
      BY <1>2, <1>4, ConcatProperties
    <2> HIDE DEF ab
    <2>3. \A q \in 1..i : q \in 1..i + k /\ q <= i
      BY <1>1
    <2>4. \A q \in 1..k : i + q \in 1..i + k /\ ~(i + q <= i) /\ (i + q) - i = q
      BY <1>1
    <2> QED BY <1>2, <2>1, <2>2, <2>3, <2>4
  <1> HIDE DEF ab
  <1>6. /\ new \in Seq(Char) /\ Len(new) = Len(ab) + Len(c)
        /\ \A n \in 1..Len(ab) : new[n] = ab[n]
        /\ \A n \in 1..Len(c) : new[Len(ab) + n] = c[n]
    <2>1. \A q \in 1..Len(ab) + Len(c) : new[q] = IF q <= Len(ab) THEN ab[q] ELSE c[q - Len(ab)]
      BY <1>3, <1>5, ConcatProperties
    <2>2. new \in Seq(Char) /\ Len(new) = Len(ab) + Len(c)
      <3>1. ab \in Seq(Char) /\ c \in Seq(Char)
        BY <1>3, <1>5
      <3> QED BY <3>1, ConcatProperties
    <2> HIDE DEF new
    <2>3. Len(ab) \in Nat /\ Len(c) \in Nat
      BY <1>1, <1>3, <1>5
    <2>4. \A q \in 1..Len(ab) : q \in 1..Len(ab) + Len(c) /\ q <= Len(ab)
      BY <2>3
    <2>5. \A q \in 1..Len(c) : /\ Len(ab) + q \in 1..Len(ab) + Len(c) /\ ~(Len(ab) + q <= Len(ab))
                               /\ (Len(ab) + q) - Len(ab) = q
      BY <2>3
    <2> QED BY <2>1, <2>2, <2>4, <2>5
  <1> HIDE DEF new
  <1>7. \A n \in 1..i : n \in 1..Len(ab)
    BY <1>1, <1>5
  <1>8. \A n \in 1..k : i + n \in 1..Len(ab)
    BY <1>1, <1>5
  <1>9. /\ \A n \in 1..i : new[n] = text[n]
        /\ \A n \in 1..k : new[i + n] = put[n]
        /\ \A n \in 1..m - j : new[i + k + n] = text[j + n]
    BY <1>3, <1>5, <1>6, <1>7, <1>8
  <1> QED BY <1>1, <1>3, <1>5, <1>6, <1>9 DEF Text, a, c, ab, new, Splices

-----------------------------------------------------------------------------
(* The operations the engine makes of any two texts, the one it knew and   *)
(* the one on screen, make the second of the first.                        *)
THEOREM DiffMakesText ==
  ASSUME NEW old \in Text, NEW new \in Text
  PROVE  Diff(old, new) \in Seq(Change) /\ After(old, Diff(old, new)) = new
  <1> DEFINE m == Len(old)   n == Len(new)
             p == PrefixLength(old, new)   s == SuffixLength(old, new, p)
             deleted == Slice(old, p, m - s)   inserted == Slice(new, p, n - s)
             del == [type |-> "delete", position |-> p, content |-> deleted]
             ins == [type |-> "insert", position |-> p, content |-> inserted]
             mid == IF deleted = <<>> THEN old ELSE Applied(old, del)
             end == IF inserted = <<>> THEN mid ELSE Applied(mid, ins)
  <1>1. m \in Nat /\ n \in Nat
    BY LenProperties DEF Text
  <1>2. p \in Nat /\ p <= m /\ p <= n /\ \A i \in 1..p : old[i] = new[i]
    BY PrefixOf
  <1>3. /\ s \in Nat /\ p + s <= m /\ p + s <= n
        /\ \A i \in 0..s - 1 : old[m - i] = new[n - i]
    <2> HIDE DEF p
    <2> QED BY <1>2, SuffixOf
  <1> HIDE DEF p, s
  <1>4. /\ deleted \in Text /\ Len(deleted) = m - s - p
        /\ inserted \in Text /\ Len(inserted) = n - s - p
        /\ \A i \in 1..n - s - p : inserted[i] = new[p + i]
    <2>1. /\ m - s \in Nat /\ n - s \in Nat
          /\ (IF m - s < m THEN m - s ELSE m) = m - s /\ p <= m - s
          /\ (IF n - s < n THEN n - s ELSE n) = n - s /\ p <= n - s
      BY <1>1, <1>2, <1>3
    <2>2. deleted \in Text /\ Len(deleted) = m - s - p
      BY <1>2, <2>1, SliceOf
    <2>3. /\ inserted \in Text /\ Len(inserted) = n - s - p
          /\ \A i \in 1..n - s - p : inserted[i] = new[p + i]
      BY <1>2, <2>1, SliceOf
    <2> QED BY <2>2, <2>3
  <1>5. Diff(old, new) = (IF deleted = <<>> THEN <<>> ELSE <<del>>)
                           \o (IF inserted = <<>> THEN <<>> ELSE <<ins>>)
    BY DEF Diff, p, s
  <1> HIDE DEF deleted, inserted
  <1>6. del \in Change /\ ins \in Change
    BY <1>2, <1>4 DEF Change
  <1>7. /\ mid \in Text /\ Len(mid) = p + s
        /\ \A i \in 1..p : mid[i] = old[i]
        /\ \A i \in 1..s : mid[p + i] = old[(m - s) + i]
    <2>1. CASE deleted = <<>>
      <3>1. m - s = p
        BY <1>1, <1>2, <1>3, <1>4, <2>1
      <3> QED BY <1>1, <1>2, <1>3, <2>1, <3>1
    <2>2. CASE deleted # <<>>
      <3> DEFINE j == p + Len(deleted)   cut == Slice(old, 0, p) \o <<>> \o Slice(old, j, m)
      <3>1. mid = cut
        BY <2>2 DEF Applied
      <3>2. j = m - s /\ j \in Nat /\ p <= j /\ j <= m /\ <<>> \in Text /\ Len(<<>>) = 0
        BY <1>1, <1>2, <1>3, <1>4 DEF Text
      <3> HIDE DEF j
      <3>3. /\ cut \in Text /\ Len(cut) = p + 0 + (m - j)
            /\ \A i \in 1..p : cut[i] = old[i]
            /\ \A i \in 1..m - j : cut[p + 0 + i] = old[j + i]
        <4>1. Splices(cut, old, <<>>, p, j)
          BY <1>2, <3>2, Spliced
        <4> HIDE DEF cut
        <4> QED BY <4>1, <3>2 DEF Splices
      <3> HIDE DEF cut, mid
      <3>4. p + 0 + (m - j) = p + s /\ m - j = s /\ p + 0 = p
        BY <1>1, <1>2, <1>3, <3>2
      <3> QED BY <3>1, <3>2, <3>3, <3>4
    <2> QED BY <2>1, <2>2
  <1> HIDE DEF mid
  <1>8. /\ end \in Text /\ Len(end) = n
        /\ \A i \in 1..p : end[i] = old[i]
        /\ \A i \in 1..n - s - p : end[p + i] = new[p + i]
        /\ \A i \in 1..s : end[(n - s) + i] = old[(m - s) + i]
    <2>1. CASE inserted = <<>>
      <3>1. n - s = p
        BY <1>1, <1>2, <1>3, <1>4, <2>1
      <3>2. end = mid /\ p + s = n /\ n - s - p = 0
        BY <1>1, <1>2, <1>3, <2>1, <3>1
      <3>3. \A i \in 1..n - s - p : end[p + i] = new[p + i]
        BY <3>2
      <3> HIDE DEF end
      <3> QED BY <1>7, <3>1, <3>2, <3>3
    <2>2. CASE inserted # <<>>
      <3> DEFINE put == Slice(mid, 0, p) \o inserted \o Slice(mid, p, Len(mid))   k == Len(inserted)
      <3>1. end = put
        <4>1. p + 0 = p
          BY <1>2
        <4> QED BY <2>2, <4>1 DEF Applied
      <3>2. k = n - s - p /\ k \in Nat /\ p <= p /\ p <= Len(mid)
        BY <1>1, <1>2, <1>3, <1>4, <1>7
      <3>3. /\ put \in Text /\ Len(put) = p + k + (Len(mid) - p)
            /\ \A i \in 1..p : put[i] = mid[i]
            /\ \A i \in 1..k : put[p + i] = inserted[i]
            /\ \A i \in 1..Len(mid) - p : put[p + k + i] = mid[p + i]
        <4>1. Splices(put, mid, inserted, p, p)
          BY <1>2, <1>4, <1>7, <3>2, Spliced
        <4> HIDE DEF put
        <4> QED BY <4>1 DEF Splices
      <3> HIDE DEF put, end, k
      <3>4. p + k + (Len(mid) - p) = n /\ Len(mid) - p = s /\ p + k = n - s
        BY <1>1, <1>2, <1>3, <1>7, <3>2
      <3> QED BY <1>4, <1>7, <3>1, <3>2, <3>3, <3>4
    <2> QED BY <2>1, <2>2
  <1> HIDE DEF end
  <1>9. end = new
    <2>1. ASSUME NEW i \in 1..n PROVE end[i] = new[i]
      <3>1. CASE i <= p
        <4>1. i \in 1..p
          BY <1>1, <1>2, <3>1
        <4> QED BY <1>2, <1>8, <4>1
      <3>2. CASE i > p /\ i <= n - s
        <4>1. i - p \in 1..n - s - p /\ p + (i - p) = i
          BY <1>1, <1>2, <1>3, <3>2
        <4> QED BY <1>8, <4>1
      <3>3. CASE i > n - s
        <4> DEFINE j == i - (n - s)
        <4>1. /\ j \in 1..s /\ (n - s) + j = i
              /\ s - j \in 0..s - 1 /\ m - (s - j) = (m - s) + j /\ n - (s - j) = i
          BY <1>1, <1>2, <1>3, <3>3
        <4> HIDE DEF j
        <4> QED BY <1>3, <1>8, <4>1
      <3> QED BY <1>1, <1>2, <1>3, <3>1, <3>2, <3>3
    <2> QED BY <1>8, <2>1, SeqEqual DEF Text
  <1>10. After(old, Diff(old, new)) = end /\ Diff(old, new) \in Seq(Change)
    <2> DEFINE x == del   y == ins
    <2> HIDE DEF x, y
    <2>1. x \in Change /\ y \in Change
      BY <1>6 DEF x, y
    <2>2. /\ <<>> \in Seq(Change) /\ <<x>> \in Seq(Change)
          /\ <<y>> \in Seq(Change) /\ <<x, y>> \in Seq(Change)
      <3> HIDE DEF Change
      <3> QED BY <2>1
    <2>3. /\ <<>> \o <<>> = <<>> /\ <<x>> \o <<>> = <<x>> /\ <<>> \o <<y>> = <<y>>
          /\ <<x>> \o <<y>> = <<x, y>>
      <3>1. <<>> \o <<>> = <<>> /\ <<x>> \o <<>> = <<x>> /\ <<>> \o <<y>> = <<y>>
        BY <2>2, ConcatEmptySeq
      <3>2. <<x>> \o <<y>> \in Seq(Change) /\ Len(<<x>> \o <<y>>) = 2
        BY <2>2, ConcatProperties
      <3>3. (<<x>> \o <<y>>)[1] = x /\ (<<x>> \o <<y>>)[2] = y
        BY <2>2, ConcatProperties
      <3>4. \A i \in 1..2 : (<<x>> \o <<y>>)[i] = <<x, y>>[i]
        BY <3>3
      <3>5. Len(<<x, y>>) = 2
        OBVIOUS
      <3> QED BY <2>2, <3>1, <3>2, <3>4, <3>5, SeqEqual
    <2>4. Diff(old, new) = (IF deleted = <<>> THEN <<>> ELSE <<x>>)
                             \o (IF inserted = <<>> THEN <<>> ELSE <<y>>)
      BY <1>5 DEF x, y
    <2>5. /\ mid = IF deleted = <<>> THEN old ELSE Applied(old, x)
          /\ end = IF inserted = <<>> THEN mid ELSE Applied(mid, y)
      BY DEF mid, end, x, y
    <2>6. /\ After(old, <<>>) = old /\ After(old, <<x>>) = Applied(old, x)
          /\ After(old, <<y>>) = Applied(old, y)
          /\ After(old, <<x, y>>) = Applied(Applied(old, x), y)
      BY AfterFew
    <2> QED BY <2>2, <2>3, <2>4, <2>5, <2>6
  <1> QED BY <1>9, <1>10

-----------------------------------------------------------------------------
(* What messages make of the copies of the documents.                      *)
Message ==
  [kind : {"operation"}, room : Doc, op : Change]
    \cup [kind : {"join"}, room : Doc] \cup [kind : {"sync"}, content : Text]

Made(d, m) == IF m.kind = "operation" THEN [d EXCEPT ![m.room] = Applied(@, m.op)] ELSE d

\* Seen in their order, the messages make the copies b of the copies a.
Turns(a, messages, b) ==
  \E h : /\ h[0] = a /\ h[Len(messages)] = b
         /\ \A i \in 1..Len(messages) : h[i] = Made(h[i - 1], messages[i])

\* What has become of the messages makes the same of all copies.
Alike(old, new) ==
  /\ HasOperation(new) <=> HasOperation(old)
  /\ \A a, b : Turns(a, old, b) => Turns(a, new, b)

(* Messages that follow others.                                            *)
LEMMA TurnsConcat ==
  ASSUME NEW c \in Seq(Message), NEW more \in Seq(Message), NEW a, NEW b, NEW e,
         Turns(a, c, b), Turns(b, more, e)
  PROVE  Turns(a, c \o more, e)
  <1> DEFINE n == Len(c)   m == Len(more)   all == c \o more
  <1>1. /\ n \in Nat /\ m \in Nat /\ Len(all) = n + m
        /\ \A i \in 1..n + m : all[i] = IF i <= n THEN c[i] ELSE more[i - n]
    BY ConcatProperties, LenProperties
  <1> HIDE DEF all
  <1>2. PICK h : h[0] = a /\ h[n] = b /\ \A i \in 1..n : h[i] = Made(h[i - 1], c[i])
    BY DEF Turns
  <1>3. PICK g : g[0] = b /\ g[m] = e /\ \A i \in 1..m : g[i] = Made(g[i - 1], more[i])
    BY DEF Turns
  <1> DEFINE k == [i \in 0..n + m |-> IF i <= n THEN h[i] ELSE g[i - n]]
  <1>4. k[0] = a
    BY <1>1, <1>2
  <1>5. k[n + m] = e
    <2>1. n + m \in 0..n + m /\ (n + m <= n => m = 0) /\ (n + m) - n = m /\ (m = 0 => n + m = n)
      BY <1>1
    <2> QED BY <1>2, <1>3, <2>1
  <1>6. ASSUME NEW i \in 1..n + m PROVE k[i] = Made(k[i - 1], all[i])
    <2>1. CASE i <= n
      <3>1. i \in 1..n /\ i \in 0..n + m /\ i - 1 \in 0..n + m /\ i - 1 <= n
        BY <1>1, <2>1
      <3>2. k[i] = h[i] /\ k[i - 1] = h[i - 1] /\ all[i] = c[i]
        BY <1>1, <2>1, <3>1
      <3> HIDE DEF k
      <3> QED BY <1>2, <3>1, <3>2
    <2>2. CASE i > n
      <3> DEFINE j == i - n
      <3>1. /\ j \in 1..m /\ i \in 0..n + m /\ i - 1 \in 0..n + m /\ ~(i <= n)
            /\ (i - 1 <= n => i - 1 = n /\ j - 1 = 0) /\ (i - 1) - n = j - 1
        BY <1>1, <2>2
      <3>2. k[i] = g[j] /\ all[i] = more[j]
        BY <1>1, <3>1
      <3>3. k[i - 1] = g[j - 1]
        BY <1>2, <1>3, <3>1
      <3> HIDE DEF k, j
      <3> QED BY <1>3, <3>1, <3>2, <3>3
    <2> QED BY <1>1, <2>1, <2>2
  <1> HIDE DEF k
  <1> QED BY <1>1, <1>4, <1>5, <1>6 DEF Turns, all

(* The first message is seen.                                              *)
LEMMA TurnsTail ==
  ASSUME NEW c \in Seq(Message), c # <<>>, NEW a, NEW b, Turns(a, c, b)
  PROVE  Turns(Made(a, Head(c)), Tail(c), b)
  <1> DEFINE n == Len(c)   rest == Tail(c)
  <1>1. /\ n \in Nat /\ n > 0 /\ Len(rest) = n - 1 /\ Head(c) = c[1]
        /\ \A i \in 1..n - 1 : rest[i] = c[i + 1]
    BY HeadTailProperties, EmptySeq, LenProperties
  <1> HIDE DEF rest
  <1>2. PICK h : h[0] = a /\ h[n] = b /\ \A i \in 1..n : h[i] = Made(h[i - 1], c[i])
    BY DEF Turns
  <1> DEFINE k == [i \in 0..n - 1 |-> h[i + 1]]
  <1>3. k[n - 1] = b
    <2>1. n - 1 \in 0..n - 1 /\ (n - 1) + 1 = n
      BY <1>1
    <2> QED BY <1>2, <2>1
  <1>4. k[0] = Made(a, c[1])
    <2>1. 0 \in 0..n - 1 /\ 0 + 1 = 1 /\ 1 \in 1..n /\ 1 - 1 = 0
      BY <1>1
    <2> QED BY <1>2, <2>1
  <1>5. ASSUME NEW i \in 1..n - 1 PROVE k[i] = Made(k[i - 1], rest[i])
    <2>1. /\ i \in 0..n - 1 /\ i - 1 \in 0..n - 1 /\ (i - 1) + 1 = i /\ i + 1 \in 1..n
          /\ (i + 1) - 1 = i
      BY <1>1
    <2>2. k[i] = h[i + 1] /\ k[i - 1] = h[i]
      BY <2>1
    <2> HIDE DEF k
    <2> QED BY <1>1, <1>2, <2>1, <2>2
  <1> HIDE DEF k
  <1>6. k[0] = Made(a, Head(c)) /\ k[Len(rest)] = b
    BY <1>1, <1>3, <1>4
  <1>7. \A i \in 1..Len(rest) : k[i] = Made(k[i - 1], rest[i])
    BY <1>1, <1>5
  <1>8. Turns(Made(a, Head(c)), rest, b)
    BY <1>6, <1>7 DEF Turns
  <1> QED BY <1>8 DEF rest

(* Without an operation nothing is made of the copies.                     *)
LEMMA NothingMade ==
  ASSUME NEW c \in Seq(Message), ~HasOperation(c)
  PROVE  \A a, b : Turns(a, c, b) <=> a = b
  <1> DEFINE n == Len(c)
  <1>1. n \in Nat /\ \A i \in 1..n : c[i].kind # "operation"
    BY LenProperties DEF HasOperation
  <1>2. \A i \in 1..n : \A d : Made(d, c[i]) = d
    BY <1>1 DEF Made
  <1>3. ASSUME NEW a, NEW b, Turns(a, c, b) PROVE a = b
    <2>1. PICK h : h[0] = a /\ h[n] = b /\ \A i \in 1..n : h[i] = Made(h[i - 1], c[i])
      BY <1>3 DEF Turns
    <2> DEFINE T == {i \in Nat : i <= n => h[i] = a}
    <2>2. 0 \in T
      BY <2>1
    <2>3. ASSUME NEW i \in Nat, i \in T PROVE i + 1 \in T
      <3>1. ASSUME i + 1 <= n PROVE h[i + 1] = a
        <4>1. i + 1 \in 1..n /\ (i + 1) - 1 = i /\ i <= n
          BY <1>1, <3>1
        <4>2. h[i] = a
          BY <2>3, <4>1
        <4>3. h[i + 1] = Made(h[i], c[i + 1])
          BY <2>1, <4>1
        <4> QED BY <1>2, <4>1, <4>2, <4>3
      <3> QED BY <3>1
    <2>4. n \in T
      <3> HIDE DEF T
      <3> QED BY <1>1, <2>2, <2>3, SetInduction
    <2> QED BY <1>1, <2>1, <2>4
  <1>4. ASSUME NEW a PROVE Turns(a, c, a)
    <2> DEFINE h == [i \in 0..n |-> a]
    <2>1. h[0] = a /\ h[n] = a
      BY <1>1
    <2>2. ASSUME NEW i \in 1..n PROVE h[i] = Made(h[i - 1], c[i])
      <3>1. i \in 0..n /\ i - 1 \in 0..n
        BY <1>1
      <3>2. h[i] = a /\ h[i - 1] = a
        BY <3>1
      <3> HIDE DEF h
      <3> QED BY <1>2, <3>2
    <2> HIDE DEF h
    <2> QED BY <2>1, <2>2 DEF Turns
  <1> QED BY <1>3, <1>4

(* A tab's own changes of its copy make the same of the others.            *)
LEMMA TurnsEdits ==
  ASSUME NEW b \in [Doc -> Text], NEW r \in Doc, NEW ops \in Seq(Change),
         NEW posted, posted = [i \in DOMAIN ops |->
                                 [kind |-> "operation", room |-> r, op |-> ops[i]]]
  PROVE  Turns(b, posted, [b EXCEPT ![r] = After(@, ops)])
  <1> DEFINE n == Len(ops)
  <1>1. n \in Nat /\ DOMAIN ops = 1..n
    BY LenProperties
  <1>2. Len(posted) = n
    BY <1>1
  <1>3. PICK f : /\ f[0] = b[r] /\ \A i \in 1..n : f[i] = Applied(f[i - 1], ops[i])
                 /\ After(b[r], ops) = f[n]
    <2>1. Len(ops) \in Nat
      BY <1>1
    <2> QED BY <2>1, AfterLoop
  <1> DEFINE h == [i \in 0..n |-> [b EXCEPT ![r] = f[i]]]
  <1>4. h[0] = b /\ h[n] = [b EXCEPT ![r] = After(b[r], ops)]
    BY <1>1, <1>3
  <1>5. ASSUME NEW i \in 1..n PROVE h[i] = Made(h[i - 1], posted[i])
    <2>1. i \in 0..n /\ i - 1 \in 0..n
      BY <1>1
    <2>2. h[i] = [b EXCEPT ![r] = f[i]] /\ h[i - 1] = [b EXCEPT ![r] = f[i - 1]]
      BY <2>1
    <2>3. posted[i] = [kind |-> "operation", room |-> r, op |-> ops[i]]
      BY <1>1
    <2> HIDE DEF h
    <2>4. f[i] = Applied(f[i - 1], ops[i])
      BY <1>3
    <2>5. Made(h[i - 1], posted[i]) = [h[i - 1] EXCEPT ![r] = Applied(@, ops[i])]
      <3>1. posted[i].kind = "operation" /\ posted[i].room = r /\ posted[i].op = ops[i]
        BY <2>3
      <3> QED BY <3>1 DEF Made
    <2>6. @ = [b EXCEPT ![r] = Applied(f[i - 1], ops[i])]
      BY <2>2
    <2> QED BY <2>2, <2>4, <2>5, <2>6
  <1> DEFINE e == [b EXCEPT ![r] = After(@, ops)]
  <1>6. h[0] = b /\ h[Len(posted)] = e
    BY <1>2, <1>4
  <1>7. \A i \in 1..Len(posted) : h[i] = Made(h[i - 1], posted[i])
    BY <1>2, <1>5
  <1> HIDE DEF h, e
  <1>8. Turns(b, posted, e)
    BY <1>6, <1>7 DEF Turns
  <1> QED BY <1>8 DEF e

(* Operations among messages, when some come and when the first one goes.  *)
LEMMA OperationsAmong ==
  ASSUME NEW c \in Seq(Message)
  PROVE  /\ \A more \in Seq(Message) :
              HasOperation(c \o more) <=> HasOperation(c) \/ HasOperation(more)
         /\ c # <<>> => (HasOperation(c) <=> \/ Head(c).kind = "operation"
                                             \/ HasOperation(Tail(c)))
  <1>1. ASSUME NEW more \in Seq(Message)
        PROVE  HasOperation(c \o more) <=> HasOperation(c) \/ HasOperation(more)
    <2> DEFINE n == Len(c)   m == Len(more)   all == c \o more
    <2>1. /\ n \in Nat /\ m \in Nat /\ Len(all) = n + m
          /\ \A i \in 1..n + m : all[i] = IF i <= n THEN c[i] ELSE more[i - n]
      BY ConcatProperties, LenProperties
    <2> HIDE DEF all
    <2>2. \A i \in 1..n : i \in 1..n + m /\ i <= n /\ all[i] = c[i]
      BY <2>1
    <2>3. \A i \in 1..m : n + i \in 1..n + m /\ all[n + i] = more[i]
      <3> TAKE i \in 1..m
      <3>1. n + i \in 1..n + m /\ ~(n + i <= n) /\ (n + i) - n = i
        BY <2>1
      <3> QED BY <2>1, <3>1
    <2>4. ASSUME NEW i \in 1..n + m PROVE i \in 1..n \/ \E j \in 1..m : i = n + j
      <3>1. CASE i <= n
        BY <2>1, <3>1
      <3>2. CASE i > n
        <4>1. i - n \in 1..m /\ i = n + (i - n)
          BY <2>1, <3>2
        <4> QED BY <4>1
      <3> QED BY <2>1, <3>1, <3>2
    <2>5. ASSUME HasOperation(all) PROVE HasOperation(c) \/ HasOperation(more)
      <3>1. PICK i \in 1..n + m : all[i].kind = "operation"
        BY <2>1, <2>5 DEF HasOperation
      <3>2. CASE i \in 1..n
        BY <2>2, <3>1, <3>2 DEF HasOperation
      <3>3. CASE \E j \in 1..m : i = n + j
        BY <2>3, <3>1, <3>3 DEF HasOperation
      <3> QED BY <2>4, <3>2, <3>3
    <2>6. ASSUME HasOperation(c) PROVE HasOperation(all)
      BY <2>1, <2>2, <2>6 DEF HasOperation
    <2>7. ASSUME HasOperation(more) PROVE HasOperation(all)
      BY <2>1, <2>3, <2>7 DEF HasOperation
    <2> QED BY <2>5, <2>6, <2>7 DEF all
  <1>2. ASSUME c # <<>>
        PROVE  HasOperation(c) <=> Head(c).kind = "operation" \/ HasOperation(Tail(c))
    <2> DEFINE n == Len(c)   rest == Tail(c)
    <2>1. /\ n \in Nat /\ n > 0 /\ Len(rest) = n - 1 /\ Head(c) = c[1]
          /\ \A i \in 1..n - 1 : rest[i] = c[i + 1]
      BY <1>2, HeadTailProperties, EmptySeq, LenProperties
    <2> HIDE DEF rest
    <2>2. /\ 1 \in 1..n /\ \A i \in 1..n - 1 : i + 1 \in 1..n
          /\ \A i \in 1..n : i = 1 \/ (i - 1 \in 1..n - 1 /\ (i - 1) + 1 = i)
      BY <2>1
    <2> QED BY <2>1, <2>2 DEF HasOperation, rest
  <1> QED BY <1>1, <1>2

(* Messages that are no operations come or are seen.                       *)
LEMMA AlikeSteps ==
  ASSUME NEW c \in Seq(Message)
  PROVE  /\ Alike(c, c)
         /\ \A more \in Seq(Message) : ~HasOperation(more) => Alike(c, c \o more)
         /\ c # <<>> /\ Head(c).kind # "operation" => Alike(c, Tail(c))
  <1>1. Alike(c, c)
    BY DEF Alike
  <1>2. ASSUME NEW more \in Seq(Message), ~HasOperation(more) PROVE Alike(c, c \o more)
    <2>1. HasOperation(c \o more) <=> HasOperation(c)
      BY <1>2, OperationsAmong
    <2>2. ASSUME NEW a, NEW b, Turns(a, c, b) PROVE Turns(a, c \o more, b)
      <3>1. Turns(b, more, b)
        BY <1>2, NothingMade
      <3> QED BY <2>2, <3>1, TurnsConcat
    <2> QED BY <2>1, <2>2 DEF Alike
  <1>3. ASSUME c # <<>>, Head(c).kind # "operation" PROVE Alike(c, Tail(c))
    <2>1. HasOperation(Tail(c)) <=> HasOperation(c)
      BY <1>3, OperationsAmong
    <2>2. ASSUME NEW a, NEW b, Turns(a, c, b) PROVE Turns(a, Tail(c), b)
      <3>1. Turns(Made(a, Head(c)), Tail(c), b)
        BY <1>3, <2>2, TurnsTail
      <3> QED BY <1>3, <3>1 DEF Made
    <2> QED BY <2>1, <2>2 DEF Alike
  <1> QED BY <1>1, <1>2, <1>3

-----------------------------------------------------------------------------
(* The tabs.                                                               *)
Channels == [Tab -> [Tab -> Seq(Message)]]

TabTypeOK ==
  /\ loaded \subseteq Tab
  /\ docs \in [Tab -> [Doc -> Text]]
  /\ roomId \in [Tab -> Doc \cup {NoDoc}]
  /\ base \in [Tab -> Text] /\ editor \in [Tab -> Text]
  /\ channel \in Channels
  /\ edits \in Nat /\ opens \in Nat /\ disturbed \in BOOLEAN

\* The engine's text is the one on screen unless an input method composes,
\* and it composes in an open document.
Screens ==
  /\ composing \subseteq Tab
  /\ composing # {} => edits > 0
  /\ \A t \in composing : roomId[t] # NoDoc
  /\ \A t \in Tab \ composing : base[t] = editor[t]

\* Tabs that are there tell one another, and work on documents.
Places ==
  /\ \A t \in Tab : t \notin loaded => roomId[t] = NoDoc
  /\ \A s, t \in Tab : channel[s][t] # <<>> => s # t /\ s \in loaded /\ t \in loaded

\* The operations on their way are all of one tab.
OneSender ==
  \A s, t, u, v \in Tab : HasOperation(channel[s][u]) /\ HasOperation(channel[t][v]) => s = t

Fresh ==
  edits = 0 => /\ \A t \in loaded : docs[t] = Seed
               /\ \A s, t \in Tab : ~HasOperation(channel[s][t])

\* What a tab has not seen yet of one that has seen everything is all that it lacks.
Lag ==
  \A s, t \in loaded : ~OnItsWay(s) => Turns(docs[t], channel[s][t], docs[s])

Agreeing == OneSender /\ Fresh /\ Lag

TabInv == TabTypeOK /\ Screens /\ Places /\ (~disturbed => Agreeing)

(* What channelSend leaves in the channels.                                *)
LEMMA PostedProperties ==
  ASSUME TabTypeOK, NEW s \in Tab, NEW messages \in Seq(Message)
  PROVE  /\ Posted(s, messages) \in Channels
         /\ \A u, t \in Tab :
              Posted(s, messages)[u][t] = IF u = s /\ t \in loaded \ {s}
                                          THEN channel[u][t] \o messages ELSE channel[u][t]
  <1> DEFINE row == [t \in Tab |-> IF t \in loaded \ {s} THEN channel[s][t] \o messages
                                                        ELSE channel[s][t]]
  <1>1. channel \in Channels /\ \A t \in Tab : channel[s][t] \in Seq(Message)
    BY DEF TabTypeOK, Channels
  <1>2. row \in [Tab -> Seq(Message)]
    BY <1>1, ConcatProperties
  <1>3. Posted(s, messages) = [channel EXCEPT ![s] = row]
    BY DEF Posted
  <1>4. \A t \in Tab : row[t] = IF t \in loaded \ {s} THEN channel[s][t] \o messages
                                                     ELSE channel[s][t]
    OBVIOUS
  <1> HIDE DEF row
  <1> QED BY <1>1, <1>2, <1>3, <1>4 DEF Channels

(* Steps that change no copy and pass no operation.                        *)
LEMMA QuietStep ==
  ASSUME TabTypeOK, Agreeing, loaded' = loaded, docs' = docs, edits' = edits,
         \A u, v \in Tab : Alike(channel[u][v], channel'[u][v])
  PROVE  Agreeing'
  <1>1. \A u, v \in Tab : HasOperation(channel'[u][v]) <=> HasOperation(channel[u][v])
    BY DEF Alike
  <1>2. OneSender'
    BY <1>1 DEF Agreeing, OneSender
  <1>3. Fresh'
    BY <1>1 DEF Agreeing, Fresh
  <1>4. ASSUME NEW s \in loaded, NEW t \in loaded, ~OnItsWay(s)'
        PROVE  Turns(docs[t], channel'[s][t], docs[s])
    <2>1. ~OnItsWay(s)
      BY <1>1, <1>4 DEF OnItsWay
    <2>2. Turns(docs[t], channel[s][t], docs[s])
      BY <2>1 DEF Agreeing, Lag
    <2>3. s \in Tab /\ t \in Tab
      BY DEF TabTypeOK
    <2> QED BY <2>2, <2>3 DEF Alike
  <1> QED BY <1>2, <1>3, <1>4 DEF Agreeing, Lag

(* The initial state satisfies the invariant.                              *)
LEMMA InitTabs == TabInit => TabInv
  <1> SUFFICES ASSUME TabInit PROVE TabInv
    OBVIOUS
  <1> USE DEF TabInit
  <1>1. <<>> \in Seq(Message) /\ <<>> \in Text /\ ~HasOperation(<<>>)
    BY DEF Text, HasOperation
  <1>2. TabTypeOK
    BY <1>1, MockAssumption DEF TabTypeOK, Channels, Text
  <1>3. Places /\ Screens
    BY DEF Places, Screens
  <1>4. OneSender /\ Fresh
    BY <1>1 DEF OneSender, Fresh
  <1>5. Lag
    BY DEF Lag
  <1> QED BY <1>2, <1>3, <1>4, <1>5 DEF TabInv, Agreeing

(* A tab is loaded: nobody has changed a copy yet, or the step disturbs.   *)
LEMMA LoadStep ==
  ASSUME TabInv, NEW t \in Tab, Load(t)
  PROVE  TabInv'
  <1> USE DEF Load
  <1>1. TabTypeOK /\ Screens /\ Places
    BY DEF TabInv
  <1>2. TabTypeOK'
    BY <1>1, MockAssumption DEF TabTypeOK, Text
  <1>3. Places' /\ Screens'
    BY <1>1 DEF Places, Screens
  <1>4. ASSUME ~disturbed' PROVE Agreeing'
    <2>1. ~disturbed /\ edits = 0
      <3>1. disturbed' = (disturbed \/ edits > 0) /\ disturbed \in BOOLEAN
        BY <1>1 DEF TabTypeOK
      <3>2. ~disturbed /\ ~(edits > 0)
        BY <1>4, <3>1, Zenon
      <3>3. edits \in Nat
        BY <1>1 DEF TabTypeOK
      <3> QED BY <3>2, <3>3
    <2>2. /\ \A u \in loaded : docs[u] = Seed
          /\ \A s, u \in Tab : ~HasOperation(channel[s][u])
      BY <2>1 DEF TabInv, Agreeing, Fresh
    <2>3. OneSender'
      BY <2>2 DEF OneSender
    <2>4. \A u \in loaded' : docs'[u] = Seed
      BY <1>1, <2>2 DEF TabTypeOK
    <2>5. Fresh'
      BY <2>2, <2>4 DEF Fresh
    <2>6. ASSUME NEW s \in loaded', NEW u \in loaded'
          PROVE  Turns(docs'[u], channel'[s][u], docs'[s])
      <3>1. s \in Tab /\ u \in Tab /\ channel[s][u] \in Seq(Message)
        BY <1>1 DEF TabTypeOK, Channels
      <3>2. docs'[u] = docs'[s]
        BY <2>4
      <3>3. Turns(docs'[u], channel[s][u], docs'[u])
        BY <2>2, <3>1, NothingMade
      <3> QED BY <3>2, <3>3
    <2> QED BY <2>3, <2>5, <2>6 DEF Agreeing, Lag
  <1> QED BY <1>1, <1>2, <1>3, <1>4 DEF TabInv

(* A document is opened: the tab that leaves one as it was tells the others. *)
LEMMA OpenDocumentStep ==
  ASSUME TabInv, NEW t \in Tab, NEW d \in Doc, OpenDocument(t, d)
  PROVE  TabInv'
  <1> DEFINE messages == <<[kind |-> "join", room |-> d]>>
  <1>1. TabTypeOK /\ Screens /\ Places
    BY DEF TabInv
  <1>2. /\ t \in loaded /\ loaded' = loaded /\ edits' = edits /\ opens' = opens + 1
        /\ roomId' = [roomId EXCEPT ![t] = d]
        /\ docs' = IF roomId[t] = NoDoc THEN docs ELSE [docs EXCEPT ![t][roomId[t]] = editor[t]]
        /\ base' = [base EXCEPT ![t] = docs'[t][d]] /\ editor' = [editor EXCEPT ![t] = docs'[t][d]]
        /\ disturbed' = (disturbed \/ docs' # docs)
        /\ channel' = Posted(t, messages) /\ composing' = composing
    BY DEF OpenDocument, JoinRoom, Shows
  <1>3. messages \in Seq(Message) /\ ~HasOperation(messages)
    <2> DEFINE m == [kind |-> "join", room |-> d]
    <2>1. m \in Message /\ m.kind # "operation"
      BY DEF Message
    <2> HIDE DEF m
    <2>2. <<m>> \in Seq(Message) /\ Len(<<m>>) = 1 /\ <<m>>[1] = m
      BY <2>1
    <2>3. ~HasOperation(<<m>>)
      BY <2>1, <2>2 DEF HasOperation
    <2> QED BY <2>2, <2>3 DEF m
  <1> HIDE DEF messages
  <1>4. /\ channel' \in Channels
        /\ \A u, v \in Tab : channel'[u][v] = IF u = t /\ v \in loaded \ {t}
                                              THEN channel[u][v] \o messages ELSE channel[u][v]
    BY <1>1, <1>2, <1>3, PostedProperties
  <1>5. docs' \in [Tab -> [Doc -> Text]]
    BY <1>1, <1>2 DEF TabTypeOK
  <1>6. TabTypeOK'
    <2>1. docs'[t][d] \in Text
      BY <1>5
    <2> QED BY <1>1, <1>2, <1>4, <1>5, <2>1 DEF TabTypeOK
  <1>7. Places'
    <2>1. \A u \in Tab : u \notin loaded' => roomId'[u] = NoDoc
      BY <1>1, <1>2 DEF Places, TabTypeOK
    <2>2. \A u, v \in Tab : channel'[u][v] # <<>> => u # v /\ u \in loaded' /\ v \in loaded'
      BY <1>1, <1>2, <1>4 DEF Places
    <2> QED BY <2>1, <2>2 DEF Places
  <1>8. ASSUME ~disturbed' PROVE Agreeing'
    <2>1. ~disturbed /\ docs' = docs
      BY <1>1, <1>2, <1>8 DEF TabTypeOK
    <2>2. ASSUME NEW u \in Tab, NEW v \in Tab PROVE Alike(channel[u][v], channel'[u][v])
      <3>1. channel[u][v] \in Seq(Message)
        BY <1>1 DEF TabTypeOK, Channels
      <3> QED BY <1>3, <1>4, <3>1, AlikeSteps
    <2>3. Agreeing
      BY <2>1 DEF TabInv
    <2> QED BY <1>1, <1>2, <2>1, <2>2, <2>3, QuietStep
  <1>9. Screens'
    <2>1. roomId'[t] # NoDoc /\ \A u \in Tab : u # t => roomId'[u] = roomId[u]
      BY <1>1, <1>2, MockAssumption DEF TabTypeOK
    <2>2. \A u \in Tab \ composing : base'[u] = editor'[u]
      BY <1>1, <1>2 DEF TabTypeOK, Screens
    <2>3. \A u \in composing : u \in Tab /\ roomId[u] # NoDoc
      BY <1>1 DEF Screens
    <2>4. \A u \in composing' : roomId'[u] # NoDoc
      BY <1>2, <2>1, <2>3
    <2> QED BY <1>1, <1>2, <2>2, <2>4 DEF Screens
  <1> QED BY <1>1, <1>2, <1>6, <1>7, <1>8, <1>9 DEF TabInv

(* A USER_JOIN is answered, or not.                                        *)
LEMMA UserJoinStep ==
  ASSUME TabInv, NEW s \in Tab, NEW t \in Tab, OnUserJoin(s, t)
  PROVE  TabInv'
  <1> DEFINE m == Head(channel[s][t])
             sync == [kind |-> "sync", content |-> docs[t][m.room]]
             answer == IF roomId[t] = m.room THEN <<m, sync>> ELSE <<>>
  <1>1. TabTypeOK /\ Screens /\ Places
    BY DEF TabInv
  <1>2. /\ channel[s][t] # <<>> /\ m.kind = "join"
        /\ channel' = [Posted(t, answer) EXCEPT ![s][t] = Tail(@)]
        /\ UNCHANGED <<loaded, docs, roomId, base, editor, composing, edits, opens, disturbed>>
    BY DEF OnUserJoin, Received
  <1>3. /\ channel[s][t] \in Seq(Message) /\ m \in Message
        /\ s # t /\ s \in loaded /\ t \in loaded
    BY <1>1, <1>2, HeadTailProperties DEF TabTypeOK, Channels, Places
  <1>4. answer \in Seq(Message) /\ ~HasOperation(answer)
    <2>1. m.room \in Doc
      BY <1>2, <1>3 DEF Message
    <2>2. sync \in Message /\ sync.kind # "operation"
      BY <1>1, <2>1 DEF TabTypeOK, Message
    <2> HIDE DEF sync, m
    <2>3. <<m, sync>> \in Seq(Message) /\ ~HasOperation(<<m, sync>>)
      BY <1>2, <1>3, <2>2 DEF HasOperation
    <2>4. <<>> \in Seq(Message) /\ ~HasOperation(<<>>)
      BY DEF HasOperation
    <2> QED BY <2>3, <2>4
  <1> HIDE DEF answer, m
  <1>5. /\ Posted(t, answer) \in Channels
        /\ \A u, v \in Tab :
             Posted(t, answer)[u][v] = IF u = t /\ v \in loaded \ {t}
                                       THEN channel[u][v] \o answer ELSE channel[u][v]
    BY <1>1, <1>4, PostedProperties
  <1> DEFINE posted == Posted(t, answer)
  <1>6. posted[s][t] = channel[s][t]
    BY <1>3, <1>5
  <1>7. /\ channel' \in Channels
        /\ \A u, v \in Tab :
             channel'[u][v] = IF u = s /\ v = t THEN Tail(channel[s][t]) ELSE posted[u][v]
    <2>1. Tail(channel[s][t]) \in Seq(Message)
      BY <1>2, <1>3, HeadTailProperties
    <2>2. channel' = [posted EXCEPT ![s][t] = Tail(channel[s][t])]
      BY <1>2, <1>6
    <2> HIDE DEF posted
    <2>3. posted \in Channels
      BY <1>5 DEF posted
    <2> QED BY <2>1, <2>2, <2>3 DEF Channels
  <1>8. TabTypeOK'
    BY <1>1, <1>2, <1>7 DEF TabTypeOK
  <1>9. Places'
    <2>1. \A u, v \in Tab : channel'[u][v] # <<>> => u # v /\ u \in loaded' /\ v \in loaded'
      BY <1>1, <1>2, <1>3, <1>5, <1>7 DEF Places
    <2> QED BY <1>1, <1>2, <2>1 DEF Places
  <1>10. ASSUME NEW u \in Tab, NEW v \in Tab PROVE Alike(channel[u][v], channel'[u][v])
    <2>1. channel[u][v] \in Seq(Message)
      BY <1>1 DEF TabTypeOK, Channels
    <2>2. CASE u = s /\ v = t
      BY <1>2, <1>7, <2>1, <2>2, AlikeSteps DEF m
    <2>3. CASE ~(u = s /\ v = t)
      <3>1. channel'[u][v] = posted[u][v]
        BY <1>7, <2>3
      <3> QED BY <1>4, <1>5, <2>1, <3>1, AlikeSteps
    <2> QED BY <2>2, <2>3
  <1>11. ASSUME ~disturbed' PROVE Agreeing'
    <2>1. Agreeing
      BY <1>2, <1>11 DEF TabInv
    <2> QED BY <1>1, <1>2, <1>10, <2>1, QuietStep
  <1>12. Screens'
    BY <1>1, <1>2 DEF Screens
  <1> QED BY <1>1, <1>2, <1>8, <1>9, <1>11, <1>12 DEF TabInv

(* The first message from s is seen: what is left in the channels.         *)
LEMMA SeenProperties ==
  ASSUME TabTypeOK, Places, NEW s \in Tab, NEW t \in Tab, channel[s][t] # <<>>
  PROVE  /\ channel[s][t] \in Seq(Message) /\ Head(channel[s][t]) \in Message
         /\ s # t /\ s \in loaded /\ t \in loaded
         /\ Seen(s, t) \in Channels
         /\ \A u, v \in Tab : Seen(s, t)[u][v] = IF u = s /\ v = t THEN Tail(channel[s][t])
                                                                 ELSE channel[u][v]
  <1>1. /\ channel[s][t] \in Seq(Message) /\ Head(channel[s][t]) \in Message
        /\ Tail(channel[s][t]) \in Seq(Message)
    BY HeadTailProperties DEF TabTypeOK, Channels
  <1>2. s # t /\ s \in loaded /\ t \in loaded
    BY DEF Places
  <1> QED BY <1>1, <1>2 DEF Seen, TabTypeOK, Channels

(* A DOCUMENT_SYNC changes what is shown.                                  *)
LEMMA DocumentSyncStep ==
  ASSUME TabInv, NEW s \in Tab, NEW t \in Tab, OnDocumentSync(s, t)
  PROVE  TabInv'
  <1> DEFINE m == Head(channel[s][t])
  <1>1. TabTypeOK /\ Screens /\ Places
    BY DEF TabInv
  <1>2. /\ channel[s][t] # <<>> /\ m.kind = "sync" /\ channel' = Seen(s, t)
        /\ base' = [base EXCEPT ![t] = m.content] /\ editor' = [editor EXCEPT ![t] = m.content]
        /\ UNCHANGED <<loaded, docs, roomId, composing, edits, opens, disturbed>>
    BY DEF OnDocumentSync, Received, Shows
  <1>3. /\ channel[s][t] \in Seq(Message) /\ m \in Message
        /\ channel' \in Channels
        /\ \A u, v \in Tab : channel'[u][v] = IF u = s /\ v = t THEN Tail(channel[s][t])
                                                               ELSE channel[u][v]
        /\ s # t /\ s \in loaded /\ t \in loaded
    BY <1>1, <1>2, SeenProperties
  <1>4. m.content \in Text
    BY <1>2, <1>3 DEF Message
  <1> HIDE DEF m
  <1>5. TabTypeOK'
    BY <1>1, <1>2, <1>3, <1>4 DEF TabTypeOK
  <1>6. Places'
    BY <1>1, <1>2, <1>3 DEF Places
  <1>7. ASSUME NEW u \in Tab, NEW v \in Tab PROVE Alike(channel[u][v], channel'[u][v])
    <2>1. channel[u][v] \in Seq(Message)
      BY <1>1 DEF TabTypeOK, Channels
    <2> QED BY <1>2, <1>3, <2>1, AlikeSteps DEF m
  <1>8. ASSUME ~disturbed' PROVE Agreeing'
    <2>1. Agreeing
      BY <1>2, <1>8 DEF TabInv
    <2> QED BY <1>1, <1>2, <1>7, <2>1, QuietStep
  <1>9. Screens'
    BY <1>1, <1>2 DEF TabTypeOK, Screens
  <1> QED BY <1>1, <1>2, <1>5, <1>6, <1>8, <1>9 DEF TabInv

(* The engine is told of what is on screen, having seen all operations     *)
(* unless the step disturbs: then all that the others lack is what this    *)
(* tab has posted.                                                         *)
LEMMA EditorInputStep ==
  ASSUME TabInv, NEW t \in Tab, NEW text \in Text, OnEditorInput(t, text),
         roomId[t] # NoDoc, edits' \in Nat, edits' # 0
  PROVE  TabTypeOK' /\ Places' /\ (~disturbed' => Agreeing')
  <1>1. TabTypeOK /\ Screens /\ Places
    BY DEF TabInv
  <1> DEFINE r == roomId[t]   ops == Diff(base[t], text)   d == docs[t]
             messages == [i \in DOMAIN ops |-> [kind |-> "operation", room |-> r, op |-> ops[i]]]
             edited == [d EXCEPT ![r] = After(@, ops)]
  <1>2. /\ docs' = [docs EXCEPT ![t][r] = After(@, ops)]
        /\ Shows(t, text)
        /\ channel' = Posted(t, messages)
    BY DEF OnEditorInput
  <1>3. /\ disturbed' = (disturbed \/ OnItsWay(t))
        /\ loaded' = loaded /\ roomId' = roomId /\ opens' = opens /\ r # NoDoc
    BY DEF OnEditorInput
  <1>4. r \in Doc /\ t \in loaded /\ base[t] \in Text /\ d \in [Doc -> Text]
    BY <1>1, <1>3 DEF TabTypeOK, Places
  <1>5. ops \in Seq(Change)
    BY <1>4, DiffMakesText
  <1> HIDE DEF ops
  <1>6. messages \in Seq(Message)
    <2>1. DOMAIN ops = 1..Len(ops) /\ Len(ops) \in Nat /\ \A i \in 1..Len(ops) : ops[i] \in Change
      BY <1>5, LenProperties, ElementOfSeq
    <2>2. \A i \in 1..Len(ops) : [kind |-> "operation", room |-> r, op |-> ops[i]] \in Message
      BY <1>4, <2>1 DEF Message
    <2> HIDE DEF r
    <2> QED BY <2>1, <2>2
  <1>7. Turns(d, messages, edited)
    BY <1>4, <1>5, TurnsEdits
  <1>8. After(d[r], ops) \in Text
    BY <1>4, <1>5, AfterType
  <1>9. edited \in [Doc -> Text]
    BY <1>4, <1>8
  <1>10. docs' = [docs EXCEPT ![t] = edited]
    BY <1>1, <1>2 DEF ops, TabTypeOK
  <1>11. channel' = Posted(t, messages) /\ base' = [base EXCEPT ![t] = text]
         /\ editor' = [editor EXCEPT ![t] = text]
    BY <1>2 DEF ops, Shows
  <1> HIDE DEF messages, edited, d
  <1>12. /\ channel' \in Channels
         /\ \A u, v \in Tab : channel'[u][v] = IF u = t /\ v \in loaded \ {t}
                                               THEN channel[u][v] \o messages ELSE channel[u][v]
    BY <1>1, <1>6, <1>11, PostedProperties
  <1>13. TabTypeOK'
    BY <1>1, <1>3, <1>9, <1>10, <1>11, <1>12 DEF TabTypeOK
  <1>14. Places'
    <2>1. \A u, v \in Tab : channel'[u][v] # <<>> => u # v /\ u \in loaded' /\ v \in loaded'
      BY <1>1, <1>3, <1>4, <1>12 DEF Places
    <2> QED BY <1>1, <1>3, <2>1 DEF Places
  <1>15. ASSUME ~disturbed' PROVE Agreeing'
    <2>1. ~disturbed /\ ~OnItsWay(t)
      <3>1. disturbed \in BOOLEAN
        BY <1>1 DEF TabTypeOK
      <3> QED BY <1>3, <1>15, <3>1, Zenon
    <2>2. \A u, v \in Tab : u # t => channel'[u][v] = channel[u][v] /\ ~HasOperation(channel[u][v])
      BY <1>12, <2>1 DEF OnItsWay
    <2>3. OneSender'
      BY <2>2 DEF OneSender
    <2>4. Fresh'
      BY DEF Fresh
    <2>5. Lag
      BY <2>1 DEF TabInv, Agreeing
    <2>6. \A u \in Tab : docs'[u] = IF u = t THEN edited ELSE docs[u]
      BY <1>1, <1>10 DEF TabTypeOK
    <2>7. \A u \in loaded : u \in Tab
      BY <1>1 DEF TabTypeOK
    <2>8. \A u, v \in Tab : channel[u][v] \in Seq(Message)
      BY <1>1 DEF TabTypeOK, Channels
    <2>9. \A v \in loaded : Turns(docs[v], channel[t][v], d)
      BY <1>4, <2>1, <2>5 DEF Lag, d
    <2>10. ASSUME NEW v \in loaded, v # t PROVE Turns(docs'[v], channel'[t][v], edited)
      <3>1. docs'[v] = docs[v] /\ channel'[t][v] = channel[t][v] \o messages
        BY <1>12, <2>6, <2>7, <2>10
      <3>2. channel[t][v] \in Seq(Message) /\ Turns(docs[v], channel[t][v], d)
        BY <2>7, <2>8, <2>9
      <3> QED BY <1>6, <1>7, <3>1, <3>2, TurnsConcat
    <2>11. Turns(docs'[t], channel'[t][t], edited)
      <3>1. channel'[t][t] = <<>> /\ docs'[t] = edited
        BY <1>1, <1>12, <2>6 DEF Places
      <3>2. <<>> \in Seq(Message) /\ ~HasOperation(<<>>)
        BY DEF HasOperation
      <3>3. \A a, b : Turns(a, <<>>, b) <=> a = b
        BY <3>2, NothingMade
      <3> QED BY <3>1, <3>3
    <2>12. ASSUME NEW s \in loaded, s # t, ~OnItsWay(s)' PROVE edited = d
      <3>1. channel'[t][s] = channel[t][s] \o messages /\ s \in Tab
        BY <1>12, <2>7, <2>12
      <3>2. ~HasOperation(channel'[t][s])
        BY <2>12, <3>1 DEF OnItsWay
      <3>3. ~HasOperation(messages)
        BY <1>6, <2>8, <3>1, <3>2, OperationsAmong
      <3> QED BY <1>6, <1>7, <3>3, NothingMade
    <2>13. ASSUME NEW s \in loaded, s # t, ~OnItsWay(s)', NEW v \in loaded
           PROVE  Turns(docs'[v], channel'[s][v], docs'[s])
      <3>1. /\ docs'[v] = docs[v] /\ docs'[s] = docs[s] /\ channel'[s][v] = channel[s][v]
            /\ s \in Tab /\ v \in Tab
        BY <1>12, <2>6, <2>7, <2>12, <2>13 DEF d
      <3>2. \A u, w \in Tab : ~HasOperation(channel[u][w])
        <4> TAKE u, w \in Tab
        <4>1. CASE u # t
          BY <2>2, <4>1
        <4>2. CASE u = t
          <5>1. ~HasOperation(channel'[t][w])
            BY <2>13, <3>1 DEF OnItsWay
          <5>2. HasOperation(channel[t][w]) => HasOperation(channel'[t][w])
            BY <1>6, <1>12, <2>8, OperationsAmong
          <5> QED BY <4>2, <5>1, <5>2
        <4> QED BY <4>1, <4>2
      <3>3. ~OnItsWay(s)
        BY <3>2 DEF OnItsWay
      <3> QED BY <2>5, <3>1, <3>3 DEF Lag
    <2>14. Lag'
      <3>1. ASSUME NEW s \in loaded', NEW v \in loaded', ~OnItsWay(s)'
            PROVE  Turns(docs'[v], channel'[s][v], docs'[s])
        <4>1. CASE s # t
          BY <1>3, <2>13, <3>1, <4>1
        <4>2. CASE s = t
          BY <1>3, <2>6, <2>10, <2>11, <4>2
        <4> QED BY <4>1, <4>2
      <3> QED BY <3>1 DEF Lag
    <2> QED BY <2>3, <2>4, <2>14 DEF Agreeing
  <1> QED BY <1>13, <1>14, <1>15

(* Without an input method the engine is told of every change.             *)
LEMMA InputStep ==
  ASSUME TabInv, NEW t \in Tab, Input(t)
  PROVE  TabInv'
  <1>1. TabTypeOK /\ Screens
    BY DEF TabInv
  <1>2. PICK text \in Typed : OnEditorInput(t, text)
    BY DEF Input
  <1>3. roomId[t] # NoDoc /\ t \notin composing /\ edits' = edits + 1 /\ composing' = composing
    BY DEF Input
  <1>4. text \in Text
    BY MockAssumption DEF Text
  <1>5. edits' \in Nat /\ edits' # 0 /\ edits' > 0
    BY <1>1, <1>3 DEF TabTypeOK
  <1>6. TabTypeOK' /\ Places' /\ (~disturbed' => Agreeing')
    BY <1>2, <1>3, <1>4, <1>5, EditorInputStep
  <1>7. Screens'
    <2>1. /\ roomId' = roomId /\ base' = [base EXCEPT ![t] = text]
          /\ editor' = [editor EXCEPT ![t] = text]
      BY <1>2 DEF OnEditorInput, Shows
    <2> QED BY <1>1, <1>3, <1>5, <2>1 DEF TabTypeOK, Screens
  <1> QED BY <1>6, <1>7 DEF TabInv

(* With one, only the screen changes ...                                   *)
LEMMA ComposeStep ==
  ASSUME TabInv, NEW t \in Tab, Compose(t)
  PROVE  TabInv'
  <1>1. TabTypeOK /\ Screens /\ Places
    BY DEF TabInv
  <1>2. PICK text \in Typed : editor' = [editor EXCEPT ![t] = text]
    BY DEF Compose
  <1>3. /\ roomId[t] # NoDoc /\ edits' = edits + 1 /\ composing' = composing \cup {t}
        /\ UNCHANGED <<loaded, docs, roomId, base, channel, opens, disturbed>>
    BY DEF Compose
  <1>4. edits \in Nat /\ edits' \in Nat /\ edits' # 0 /\ edits' > 0
    BY <1>1, <1>3 DEF TabTypeOK
  <1>5. text \in Text
    BY MockAssumption DEF Text
  <1>6. TabTypeOK'
    BY <1>1, <1>2, <1>3, <1>4, <1>5 DEF TabTypeOK
  <1>7. Screens'
    BY <1>1, <1>2, <1>3, <1>4 DEF TabTypeOK, Screens
  <1>8. Places'
    BY <1>1, <1>3 DEF Places
  <1>9. ASSUME ~disturbed' PROVE Agreeing'
    <2>1. OneSender /\ Lag
      BY <1>3, <1>9 DEF TabInv, Agreeing
    <2>2. OneSender' /\ Lag'
      BY <1>3, <2>1 DEF OneSender, Lag, OnItsWay
    <2>3. Fresh'
      BY <1>4 DEF Fresh
    <2> QED BY <2>2, <2>3 DEF Agreeing
  <1> QED BY <1>6, <1>7, <1>8, <1>9 DEF TabInv

(* ... and at the end the engine is told of what has become of it.         *)
LEMMA CompositionEndStep ==
  ASSUME TabInv, NEW t \in Tab, CompositionEnd(t)
  PROVE  TabInv'
  <1>1. TabTypeOK /\ Screens
    BY DEF TabInv
  <1>2. /\ t \in composing /\ composing' = composing \ {t} /\ edits' = edits
        /\ OnEditorInput(t, editor[t])
    BY DEF CompositionEnd
  <1>3. editor[t] \in Text /\ edits' \in Nat /\ edits' # 0 /\ roomId[t] # NoDoc
    BY <1>1, <1>2 DEF TabTypeOK, Screens
  <1>4. TabTypeOK' /\ Places' /\ (~disturbed' => Agreeing')
    BY <1>2, <1>3, EditorInputStep
  <1>5. Screens'
    <2>1. /\ roomId' = roomId /\ base' = [base EXCEPT ![t] = editor[t]]
          /\ editor' = [editor EXCEPT ![t] = editor[t]]
      BY <1>2 DEF OnEditorInput, Shows
    <2> QED BY <1>1, <1>2, <2>1 DEF TabTypeOK, Screens
  <1> QED BY <1>4, <1>5 DEF TabInv

(* An operation is seen: what its tab lacks is what has been seen less.    *)
LEMMA OperationStep ==
  ASSUME TabInv, NEW s \in Tab, NEW t \in Tab, OnOperation(s, t)
  PROVE  TabInv'
  <1> DEFINE m == Head(channel[s][t])
  <1>1. TabTypeOK /\ Screens /\ Places
    BY DEF TabInv
  <1>2. /\ channel[s][t] # <<>> /\ m.kind = "operation" /\ channel' = Seen(s, t)
        /\ docs' = [docs EXCEPT ![t][m.room] = Applied(@, m.op)]
        /\ base' = [base EXCEPT ![t] = Applied(@, m.op)]
        /\ editor' = [editor EXCEPT ![t] = Applied(@, m.op)]
        /\ UNCHANGED <<loaded, roomId, composing, edits, opens, disturbed>>
    BY DEF OnOperation, Received, ApplyRemoteOp
  <1>3. /\ channel[s][t] \in Seq(Message) /\ m \in Message
        /\ channel' \in Channels
        /\ \A u, v \in Tab : channel'[u][v] = IF u = s /\ v = t THEN Tail(channel[s][t])
                                                               ELSE channel[u][v]
        /\ s # t /\ s \in loaded /\ t \in loaded
    BY <1>1, <1>2, SeenProperties
  <1>4. m.room \in Doc /\ m.op \in Change
    BY <1>2, <1>3 DEF Message
  <1> HIDE DEF m
  <1>5. docs' = [docs EXCEPT ![t] = Made(docs[t], m)] /\ Made(docs[t], m) \in [Doc -> Text]
    <2>1. docs[t] \in [Doc -> Text] /\ docs[t][m.room] \in Text
      BY <1>1, <1>4 DEF TabTypeOK
    <2>2. Applied(docs[t][m.room], m.op) \in Text
      BY <1>4, <2>1, AppliedType
    <2>3. Made(docs[t], m) = [docs[t] EXCEPT ![m.room] = Applied(@, m.op)]
      BY <1>2 DEF Made
    <2> QED BY <1>1, <1>2, <1>4, <2>1, <2>2, <2>3 DEF TabTypeOK
  <1>6. TabTypeOK'
    <2>1. Applied(base[t], m.op) \in Text /\ Applied(editor[t], m.op) \in Text
      BY <1>1, <1>4, AppliedType DEF TabTypeOK
    <2> QED BY <1>1, <1>2, <1>3, <1>5, <2>1 DEF TabTypeOK
  <1>7. Places'
    BY <1>1, <1>2, <1>3 DEF Places
  <1>8. ASSUME ~disturbed' PROVE Agreeing'
    <2>1. OneSender /\ Fresh /\ Lag
      BY <1>2, <1>8 DEF TabInv, Agreeing
    <2>2. HasOperation(channel[s][t])
      BY <1>2, <1>3, OperationsAmong DEF m
    <2>3. \A u, v \in Tab : channel[u][v] \in Seq(Message) /\ channel'[u][v] \in Seq(Message)
      BY <1>1, <1>3 DEF TabTypeOK, Channels
    <2>4. \A u, v \in Tab : HasOperation(channel'[u][v]) => HasOperation(channel[u][v])
      BY <1>2, <1>3, OperationsAmong
    <2>5. \A u, v \in Tab : HasOperation(channel[u][v]) => u = s
      BY <2>1, <2>2 DEF OneSender
    <2>6. OneSender'
      BY <2>4, <2>5 DEF OneSender
    <2>7. Fresh'
      BY <1>2, <2>1, <2>2 DEF Fresh
    <2>8. \A u \in loaded : u \in Tab
      BY <1>1 DEF TabTypeOK
    <2>9. \A u \in Tab : docs'[u] = IF u = t THEN Made(docs[t], m) ELSE docs[u]
      BY <1>1, <1>5 DEF TabTypeOK
    <2>10. ~OnItsWay(s)
      BY <2>5 DEF OnItsWay
    <2>11. ASSUME NEW v \in loaded PROVE Turns(docs'[v], channel'[s][v], docs'[s])
      <3>1. Turns(docs[v], channel[s][v], docs[s]) /\ docs'[s] = docs[s]
        BY <1>3, <2>1, <2>9, <2>10 DEF Lag
      <3>2. CASE v = t
        <4>1. channel'[s][v] = Tail(channel[s][t]) /\ docs'[v] = Made(docs[t], m)
          BY <1>3, <2>8, <2>9, <3>2
        <4> QED BY <1>2, <1>3, <3>1, <3>2, <4>1, TurnsTail DEF m
      <3>3. CASE v # t
        BY <1>3, <2>8, <2>9, <3>1, <3>3
      <3> QED BY <3>2, <3>3
    <2>12. ASSUME NEW u \in loaded, u # s, ~OnItsWay(u)', NEW v \in loaded
           PROVE  Turns(docs'[v], channel'[u][v], docs'[u])
      <3>1. \A w \in Tab : ~HasOperation(channel'[s][w])
        BY <2>12 DEF OnItsWay
      <3>2. \A w \in loaded : docs'[w] = docs'[s]
        <4> TAKE w \in loaded
        <4>1. channel'[s][w] \in Seq(Message) /\ ~HasOperation(channel'[s][w])
          BY <2>3, <2>8, <3>1
        <4> QED BY <2>11, <4>1, NothingMade
      <3>3. channel'[u][v] \in Seq(Message) /\ ~HasOperation(channel'[u][v])
        BY <2>3, <2>4, <2>5, <2>8, <2>12
      <3>4. docs'[v] = docs'[u]
        BY <3>2
      <3> QED BY <3>3, <3>4, NothingMade
    <2>13. Lag'
      BY <1>2, <2>11, <2>12 DEF Lag
    <2> QED BY <2>6, <2>7, <2>13 DEF Agreeing
  <1>9. Screens'
    BY <1>1, <1>2 DEF TabTypeOK, Screens
  <1> QED BY <1>6, <1>7, <1>8, <1>9 DEF TabInv

(* Every step of the tabs preserves the invariant.                         *)
LEMMA NextTabs == TabInv /\ [TabNext]_tabVars => TabInv'
  <1> SUFFICES ASSUME TabInv, [TabNext]_tabVars PROVE TabInv'
    OBVIOUS
  <1>1. CASE UNCHANGED tabVars
    BY <1>1 DEF tabVars, TabInv, TabTypeOK, Screens, Places, Agreeing, OneSender, Fresh, Lag, OnItsWay
  <1>2. CASE \E t \in Tab : Load(t) \/ Input(t) \/ Compose(t) \/ CompositionEnd(t)
    BY <1>2, LoadStep, InputStep, ComposeStep, CompositionEndStep
  <1>3. CASE \E t \in Tab, d \in Doc : OpenDocument(t, d)
    BY <1>3, OpenDocumentStep
  <1>4. CASE \E s, t \in Tab : OnMessageFrom(s, t)
    BY <1>4, OperationStep, UserJoinStep, DocumentSyncStep DEF OnMessageFrom
  <1> QED BY <1>1, <1>2, <1>3, <1>4 DEF TabNext

(* The invariant says what DocsAgree says.                                 *)
LEMMA TabsAgree == TabInv => DocsAgree
  <1> SUFFICES ASSUME TabInv PROVE DocsAgree
    OBVIOUS
  <1>1. TabTypeOK /\ Screens
    BY DEF TabInv
  <1>2. ASSUME NEW t \in Tab, NEW text \in Typed
        PROVE  After(base[t], Diff(base[t], text)) = text
    <2>1. base[t] \in Text /\ text \in Text
      BY <1>1, MockAssumption DEF TabTypeOK, Text
    <2> QED BY <2>1, DiffMakesText
  <1>3. ASSUME ~disturbed, \A t \in Tab : ~Unseen(t), NEW s \in loaded, NEW t \in loaded
        PROVE  docs[s] = docs[t]
    <2>1. s \in Tab /\ t \in Tab /\ channel[s][t] \in Seq(Message)
      BY <1>1 DEF TabTypeOK, Channels
    <2>2. \A u, v \in Tab : ~HasOperation(channel[u][v])
      BY <1>3 DEF Unseen
    <2>3. ~OnItsWay(s)
      BY <2>2 DEF OnItsWay
    <2>4. Turns(docs[t], channel[s][t], docs[s])
      BY <1>3, <2>3 DEF TabInv, Agreeing, Lag
    <2> QED BY <2>1, <2>2, <2>4, NothingMade
  <1> QED BY <1>1, <1>2, <1>3 DEF DocsAgree, Screens

-----------------------------------------------------------------------------
(* The client.                                                             *)
Timer == [running : Nat, named : BOOLEAN]

ConnTypeOK ==
  /\ state \in {"disconnected", "connecting", "connected", "authenticated"}
  /\ ws \in Socket \cup {NoSocket}
  /\ sockets \in [Socket -> {"none", "connecting", "open", "closing"}]
  /\ heartbeat \in Timer /\ reconnect \in Timer
  /\ heartbeat.named => heartbeat.running > 0
  /\ reconnect.named => reconnect.running > 0
  /\ valid \in BOOLEAN /\ explicit \in BOOLEAN
  /\ heard \in [Socket -> {"nothing", "CONNECT", "other"}]

\* The server hears CONNECT first.
Greeted ==
  /\ \A s \in Socket : heard[s] # "other"
  /\ ws # NoSocket /\ sockets[ws] = "open" => heard[ws] = "CONNECT"

Up == state \in {"connected", "authenticated"}

\* The state is that of the one socket that is alive, which is the client's.
StateTrue ==
  ~explicit =>
    /\ \A s \in Socket : sockets[s] # "none" => s = ws
    /\ state = "disconnected" <=> \A s \in Socket : sockets[s] = "none"
    /\ state = "connecting" <=> \E s \in Socket : sockets[s] = "connecting"

TimersTrue ==
  ~explicit =>
    /\ heartbeat = IF Up THEN [running |-> 1, named |-> TRUE] ELSE NoTimer
    /\ state = "disconnected" /\ ws # NoSocket => reconnect.running > 0

ConnInv == ConnTypeOK /\ Greeted /\ StateTrue /\ TimersTrue

-----------------------------------------------------------------------------
(* The parts of the invariant say what OneConnection says.                 *)
LEMMA PartsToOne == ConnInv => OneConnection
  BY WsClientAssumption
     DEF ConnInv, ConnTypeOK, Greeted, StateTrue, TimersTrue, Up, OneConnection, Live, NoTimer

(* The initial state satisfies the invariant.                              *)
LEMMA InitConn == ConnInit => ConnInv
  <1> SUFFICES ASSUME ConnInit PROVE ConnInv
    OBVIOUS
  <1> USE WsClientAssumption DEF ConnInit
  <1>1. NoTimer \in Timer /\ ~NoTimer.named
    BY DEF NoTimer, Timer
  <1>2. ConnTypeOK
    BY <1>1 DEF ConnTypeOK
  <1>3. Greeted /\ StateTrue
    BY DEF Greeted, StateTrue
  <1>4. TimersTrue
    BY DEF TimersTrue, Up
  <1> QED BY <1>2, <1>3, <1>4 DEF ConnInv

(* A timer stays a timer when it is started or cleared.                    *)
LEMMA TimerSteps ==
  ASSUME NEW timer \in Timer, timer.named => timer.running > 0
  PROVE  /\ Started(timer) \in Timer /\ Started(timer).running > 0
         /\ Cleared(timer) \in Timer /\ ~Cleared(timer).named
         /\ timer.running = 1 /\ timer.named => Cleared(timer) = NoTimer
         /\ timer = NoTimer => /\ Cleared(timer) = NoTimer
                               /\ Started(timer) = [running |-> 1, named |-> TRUE]
  <1>1. PICK n \in Nat, b \in BOOLEAN : timer = [running |-> n, named |-> b]
    BY DEF Timer
  <1>2. Started(timer) = [running |-> n + 1, named |-> TRUE]
    BY <1>1 DEF Started
  <1>3. Cleared(timer) = [running |-> IF b THEN n - 1 ELSE n, named |-> FALSE]
    BY <1>1 DEF Cleared
  <1>4. b => n > 0
    BY <1>1
  <1>5. Started(timer) \in Timer /\ Started(timer).running > 0
    BY <1>2 DEF Timer
  <1>6. Cleared(timer) \in Timer /\ ~Cleared(timer).named
    BY <1>3, <1>4 DEF Timer
  <1>7. timer.running = 1 /\ timer.named => Cleared(timer) = NoTimer
    BY <1>1, <1>3 DEF NoTimer
  <1>8. timer = NoTimer => n = 0 /\ ~b
    BY <1>1 DEF NoTimer
  <1>9. ASSUME timer = NoTimer
        PROVE  Cleared(timer) = NoTimer /\ Started(timer) = [running |-> 1, named |-> TRUE]
    <2>1. n = 0 /\ ~b
      BY <1>8, <1>9
    <2>2. Cleared(timer) = NoTimer
      BY <1>3, <2>1 DEF NoTimer
    <2>3. n + 1 = 1
      BY <2>1
    <2> QED BY <1>2, <2>2, <2>3
  <1> QED BY <1>5, <1>6, <1>7, <1>9

(* An attempt to connect keeps the invariant, whatever timer made it.      *)
LEMMA AttemptConn ==
  ASSUME ConnInv, NEW timer \in Timer, timer.named => timer.running > 0,
         Attempt(timer), UNCHANGED <<valid, explicit>>
  PROVE  ConnInv'
  <1> USE WsClientAssumption DEF ConnInv, ConnTypeOK
  <1>1. CASE state # "disconnected"
    BY <1>1 DEF Attempt, Greeted, StateTrue, TimersTrue, Up
  <1>2. CASE state = "disconnected" /\ ~valid
    <2>1. /\ reconnect' = Started(timer)
          /\ UNCHANGED <<state, ws, sockets, heartbeat, heard, valid, explicit>>
      BY <1>2 DEF Attempt
    <2>2. reconnect' \in Timer /\ reconnect'.running > 0
      BY <2>1, TimerSteps
    <2> QED BY <2>1, <2>2 DEF Greeted, StateTrue, TimersTrue, Up
  <1>3. CASE state = "disconnected" /\ valid
    <2>1. PICK s \in Socket :
            /\ sockets[s] = "none" /\ s # ws
            /\ ws' = s
            /\ sockets' = [sockets EXCEPT ![s] = "connecting"]
            /\ heard' = [heard EXCEPT ![s] = "nothing"]
      BY <1>3 DEF Attempt
    <2> USE <1>3, <2>1 DEF Attempt
    <2>2. ConnTypeOK'
      OBVIOUS
    <2>3. Greeted'
      BY DEF Greeted
    <2>4. StateTrue'
      BY DEF StateTrue
    <2>5. TimersTrue'
      BY DEF TimersTrue, Up
    <2> QED BY <2>2, <2>3, <2>4, <2>5
  <1> QED BY <1>1, <1>2, <1>3

(* So does sending something after CONNECT.                                *)
LEMMA SendConn ==
  ASSUME ConnInv, Send("other"),
         UNCHANGED <<state, ws, sockets, timers, valid, explicit>>
  PROVE  ConnInv'
  <1>1. heard' = heard
    BY DEF Send, ConnInv, Greeted
  <1> QED
    BY <1>1 DEF ConnInv, ConnTypeOK, Greeted, StateTrue, TimersTrue, Up, timers

(* disconnect() ends what is promised until it is called.                  *)
LEMMA DisconnectConn ==
  ASSUME ConnInv, Disconnect
  PROVE  ConnInv'
  <1> USE WsClientAssumption DEF ConnInv, Disconnect
  <1>1. heartbeat' \in Timer /\ reconnect' \in Timer /\ ~heartbeat'.named /\ ~reconnect'.named
    BY TimerSteps DEF ConnTypeOK
  <1>2. ConnTypeOK'
    BY <1>1 DEF ConnTypeOK
  <1> QED BY <1>2 DEF Greeted, StateTrue, TimersTrue

(* The handlers of a socket keep the invariant.                            *)
LEMMA HandlersConn ==
  ASSUME ConnInv, NEW s \in Socket,
         OnOpen(s) \/ OnClose(s) \/ OnConnectMessage(s) \/ Break(s)
  PROVE  ConnInv'
  <1> USE WsClientAssumption DEF ConnInv, ConnTypeOK
  <1>1. CASE OnOpen(s)
    <2> USE <1>1 DEF OnOpen
    <2>1. heartbeat' \in Timer /\ heartbeat'.running > 0
      BY TimerSteps
    <2>2. ConnTypeOK'
      BY <2>1
    <2>3. Greeted'
      BY DEF Greeted
    <2>4. StateTrue'
      BY DEF StateTrue
    <2>5. ~explicit => state = "connecting" /\ heartbeat = NoTimer
      BY DEF StateTrue, TimersTrue, Up
    <2>6. TimersTrue'
      BY <2>5, TimerSteps DEF TimersTrue, Up
    <2> QED BY <2>2, <2>3, <2>4, <2>6
  <1>2. CASE OnClose(s)
    <2> USE <1>2 DEF OnClose
    <2>1. /\ heartbeat' \in Timer /\ ~heartbeat'.named
          /\ reconnect' \in Timer /\ reconnect'.running > 0
      <3>1. Cleared(reconnect) \in Timer /\ ~Cleared(reconnect).named
        BY TimerSteps
      <3> QED BY <3>1, TimerSteps
    <2>2. ConnTypeOK'
      BY <2>1
    <2>3. Greeted'
      BY DEF Greeted
    <2>4. StateTrue'
      BY DEF StateTrue
    <2>5. TimersTrue'
      <3>1. ~explicit => heartbeat' = NoTimer
        BY TimerSteps DEF TimersTrue, NoTimer
      <3> QED BY <2>1, <3>1 DEF TimersTrue, Up
    <2> QED BY <2>2, <2>3, <2>4, <2>5
  <1>3. CASE OnConnectMessage(s)
    BY <1>3 DEF OnConnectMessage, Greeted, StateTrue, TimersTrue, Up, timers
  <1>4. CASE Break(s)
    BY <1>4 DEF Break, Greeted, StateTrue, TimersTrue, Up, timers
  <1> QED BY <1>1, <1>2, <1>3, <1>4

(* Every step of the client preserves the invariant.                       *)
LEMMA NextConn == ConnInv /\ [ConnNext]_connVars => ConnInv'
  <1> SUFFICES ASSUME ConnInv, [ConnNext]_connVars PROVE ConnInv'
    OBVIOUS
  <1>1. CASE UNCHANGED connVars
    BY <1>1 DEF connVars, timers, ConnInv, ConnTypeOK, Greeted, StateTrue, TimersTrue, Up
  <1>2. CASE Connect
    BY <1>2, AttemptConn DEF Connect, ConnInv, ConnTypeOK
  <1>3. CASE ReconnectFires
    <2>1. PICK timer \in Timer : (timer.named => timer.running > 0) /\ Attempt(timer)
      <3>1. /\ reconnect \in Timer /\ reconnect.running \in Nat /\ reconnect.named \in BOOLEAN
            /\ reconnect.named => reconnect.running > 0
        BY DEF ConnInv, ConnTypeOK, Timer
      <3>2. CASE reconnect.named /\ Attempt([running |-> reconnect.running - 1, named |-> FALSE])
        <4> DEFINE timer == [running |-> reconnect.running - 1, named |-> FALSE]
        <4>1. timer \in Timer /\ ~timer.named
          BY <3>1, <3>2 DEF Timer
        <4>2. Attempt(timer)
          BY <3>2
        <4> HIDE DEF timer
        <4> QED BY <4>1, <4>2
      <3>3. CASE /\ reconnect.running > (IF reconnect.named THEN 1 ELSE 0)
                 /\ Attempt([reconnect EXCEPT !.running = @ - 1])
        <4> DEFINE timer == [reconnect EXCEPT !.running = @ - 1]
        <4>1. timer \in Timer /\ (timer.named => timer.running > 0)
          BY <3>1, <3>3 DEF Timer
        <4>2. Attempt(timer)
          BY <3>3
        <4> HIDE DEF timer
        <4> QED BY <4>1, <4>2
      <3> QED BY <1>3, <3>2, <3>3 DEF ReconnectFires
    <2> QED BY <1>3, <2>1, AttemptConn DEF ReconnectFires
  <1>4. CASE SendMessage \/ Beat \/ \E s \in Socket : OnMessage(s)
    BY <1>4, SendConn DEF SendMessage, Beat, OnMessage
  <1>5. CASE Disconnect
    BY <1>5, DisconnectConn
  <1>6. CASE \E s \in Socket : OnOpen(s) \/ OnClose(s) \/ OnConnectMessage(s) \/ Break(s)
    BY <1>6, HandlersConn
  <1> QED BY <1>1, <1>2, <1>3, <1>4, <1>5, <1>6 DEF ConnNext

-----------------------------------------------------------------------------
(* Both, of which one takes steps, keep their invariants.                  *)
LEMMA Invariance == Spec => [](TabInv /\ ConnInv)
  <1>1. Init => TabInv /\ ConnInv
    BY InitTabs, InitConn DEF Init
  <1>2. TabInv /\ ConnInv /\ [Next]_vars => TabInv' /\ ConnInv'
    <2> SUFFICES ASSUME TabInv, ConnInv, [Next]_vars PROVE TabInv' /\ ConnInv'
      OBVIOUS
    <2>1. [TabNext]_tabVars /\ [ConnNext]_connVars
      BY DEF Next, InMock, Online, vars
    <2> QED BY <2>1, NextTabs, NextConn
  <1> QED BY <1>1, <1>2, PTL DEF Spec

(* Outside a composition a tab's engine knows the text on screen, any      *)
(* change of it can be passed on, and when all operations have arrived the *)
(* tabs have the same copies, as long as nothing disturbed them.           *)
THEOREM CopiesAgree == Spec => []DocsAgree
  BY Invariance, TabsAgree, PTL

(* Until disconnect() is called the client has one connection at a time,   *)
(* beats on it while it is up and has a timer to make the next when it is  *)
(* down; and the server hears CONNECT first on every socket.               *)
THEOREM OneConnectionAtATime == Spec => []OneConnection
  BY Invariance, PartsToOne, PTL
=============================================================================
