-------------------------- MODULE ConcurrentEdits ---------------------------
(***************************************************************************)
(* Two users edit copies of one text at the same time, as the OT workflow  *)
(* of the architecture document prescribes: each applies an operation of   *)
(* its own, receives the other's, and applies what OTAlgorithm::transform  *)
(* makes of it.  The received operation is transform's localOp ("about to  *)
(* be applied") and the user's own is its remoteOp ("already applied").    *)
(* The copies are DocumentStates and accept or refuse accordingly.         *)
(***************************************************************************)
EXTENDS OTAlgorithm

CONSTANTS User,      \* the two users
          Base,      \* the common text
          Typed,     \* Typed[u]: the characters user u may type, in no other text
          Clock      \* the timestamps operations may carry

Chars(s) == {s[i] : i \in DOMAIN s}

Character == Chars(Base) \cup UNION {Chars(Typed[u]) : u \in User}

ASSUME EditsAssumption ==
  /\ \E u, v \in User : u # v /\ User = {u, v}
  /\ Base \in Seq(Character) /\ Clock \subseteq Nat
  /\ \A u \in User : Typed[u] \in Seq(Character) /\ Chars(Typed[u]) \cap Chars(Base) = {}
  /\ \A u, v \in User : u # v => Chars(Typed[u]) \cap Chars(Typed[v]) = {}
  /\ \A u, v \in User : Len(Base) + Len(Typed[u]) + Len(Typed[v]) < WordMod

Peer(u) == CHOOSE v \in User : v # u

\* What a client may send about Base: at least one character, in range; a
\* DELETE carries the text it removes, a REPLACE as many characters as it
\* overwrites.
Submit(u, ty, p, t, ts) ==
  [userId |-> u, type |-> ty, position |-> p, content |-> t, version |-> 1, timestamp |-> ts]

Typing(u, ty) ==
  {Submit(u, ty, p, SubSeq(Typed[u], 1, n), ts) :
     p \in 0..Len(Base), n \in 1..Len(Typed[u]), ts \in Clock}

Deletes(u) ==
  {Submit(u, "DELETE", r[1], SubSeq(Base, r[1] + 1, r[2]), ts) :
     r \in {q \in (0..Len(Base)) \X (0..Len(Base)) : q[1] < q[2]}, ts \in Clock}

Edits(u) ==
  Typing(u, "INSERT") \cup Deletes(u)
  \cup {op \in Typing(u, "REPLACE") : EndOf(op) <= Len(Base)}

VARIABLES own,    \* own[u]: the operation u has applied, or <<>>
          text,   \* text[u]: u's copy
          got     \* got[u]: the result of applying the other's operation, or "none"

exchangeVars == <<own, text, got>>

ExchangeInit ==
  /\ own = [u \in User |-> <<>>]
  /\ text = [u \in User |-> Base]
  /\ got = [u \in User |-> "none"]

\* A user applies an operation of its own to its copy, at version 1.
EditLocally(u, op) ==
  /\ own[u] = <<>>
  /\ ResultOf(text[u], 0, op) = "SUCCESS"
  /\ own' = [own EXCEPT ![u] = op]
  /\ text' = [text EXCEPT ![u] = Edited(text[u], op)]
  /\ UNCHANGED got

\* transform, then applyOperation as version 2.
ReceiveRemote(u) ==
  LET t == [Transform(own[Peer(u)], own[u]) EXCEPT !.version = 2]
      result == ResultOf(text[u], 1, t)
  IN  /\ \A v \in User : own[v] # <<>>
      /\ got[u] = "none"
      /\ got' = [got EXCEPT ![u] = result]
      /\ text' = [text EXCEPT ![u] = IF result = "SUCCESS" THEN Edited(text[u], t) ELSE @]
      /\ UNCHANGED own

ExchangeNext == \E u \in User : ReceiveRemote(u) \/ \E op \in Edits(u) : EditLocally(u, op)

ExchangeSpec == ExchangeInit /\ [][ExchangeNext]_exchangeVars

-----------------------------------------------------------------------------
Exchanged == \A u \in User : got[u] # "none"

Types == {own[u].type : u \in User}

\* a cuts into b: an insert, or a shorter delete, strictly inside b's range.
StrictlyInside(a, b) ==
  /\ b.type = "DELETE"
  /\ b.position < a.position
  /\ IF a.type = "INSERT" THEN a.position < EndOf(b) ELSE EndOf(a) < EndOf(b)

Entangled(a, b) ==
  \/ a.type = "INSERT" /\ b.type = "INSERT" /\ a.position = b.position
  \/ StrictlyInside(a, b) \/ StrictlyInside(b, a)

(* Copies hold characters of the base text and of the two users, and an    *)
(* exchange has been attempted only after both have edited.                *)
ExchangeTypeOK ==
  /\ \A u \in User : Chars(text[u]) \subseteq Chars(Base) \cup UNION {Chars(Typed[v]) : v \in User}
  /\ \A u \in User : own[u] = <<>> \/ own[u] \in Edits(u)
  /\ \A u \in User : got[u] # "none" => \A v \in User : own[v] # <<>>

(* For inserts and deletes the copies agree after the exchange, except in  *)
(* the three situations the transformation simplifies away: two inserts at *)
(* one position, an insert inside a deleted range, a delete with deleted   *)
(* text on both sides of it.                                               *)
ConvergesUnlessEntangled ==
  \A u \in User :
    Exchanged /\ "REPLACE" \notin Types /\ ~Entangled(own[u], own[Peer(u)])
    => text[u] = text[Peer(u)]

(* A character neither user deleted is in both copies after the exchange,  *)
(* entangled or not: truncating a delete never makes it eat more.          *)
UntouchedTextSurvives ==
  Exchanged /\ "REPLACE" \notin Types =>
    \A c \in Chars(Base) :
      (\A u \in User : own[u].type = "DELETE" => c \notin Chars(own[u].content))
      => \A u \in User : c \in Chars(text[u])

(* What a user typed is in both copies, once and in one piece, whatever    *)
(* the other user inserted or deleted at the same time.                    *)
TypedTextSurvives ==
  Exchanged /\ "REPLACE" \notin Types =>
    \A u, v \in User :
      own[u].type = "INSERT" =>
        LET n == Len(own[u].content)
        IN  \E p \in 0..Len(text[v]) - n :
              /\ \A i \in 1..n : text[v][p + i] = own[u].content[i]
              /\ \A i \in DOMAIN text[v] \ (p + 1..p + n) : text[v][i] \notin Chars(Typed[u])

(* A transformed operation is refused, and lost, only where the receiver's *)
(* own DELETE overlaps it, and then only a REPLACE or a DELETE of text     *)
(* already gone: what a user typed is never turned away.                   *)
TransformedFits ==
  \A u \in User :
    LET mine == own[u]
        theirs == own[Peer(u)]
    IN  got[u] \notin {"none", "SUCCESS"} =>
          /\ mine.type = "DELETE" /\ IsConflict(mine, theirs)
          /\ \/ theirs.type = "REPLACE"
             \/ theirs.type = "DELETE" /\ Chars(theirs.content) \subseteq Chars(mine.content)

(* The two sides of a conflict see it the same way: they detect the same   *)
(* conflict, the one OTAlgorithm::isConflict sees (ConflictResolver.cpp:77)*)
(* and, unless the timestamps are equal, resolve it to the same operation. *)
ResolverAgrees ==
  \A u \in User :
    LET mine == own[u]
        theirs == own[Peer(u)]
    IN  mine # <<>> /\ theirs # <<>> =>
          /\ DetectConflict(mine, theirs) = DetectConflict(theirs, mine)
          /\ DetectConflict(mine, theirs) = "POSITION_CONFLICT" <=> IsConflict(mine, theirs)
          /\ mine.timestamp # theirs.timestamp =>
               ResolveConflict(mine, theirs) = ResolveConflict(theirs, mine)

=============================================================================
