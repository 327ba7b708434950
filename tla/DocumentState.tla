--------------------------- MODULE DocumentState ----------------------------
(***************************************************************************)
(* src/src/core/DocumentState.cpp: the text of one document, its version   *)
(* and the window of recent operations kept for rollback.  Every method    *)
(* holds stateMutex throughout, so one call is one action.                 *)
(***************************************************************************)
EXTENDS Operation, FiniteSets

CONSTANTS
  Op,              \* the operations callers may submit (records, any version)
  Text,            \* the texts a document may be loaded with
  MaxHistorySize,  \* MAX_HISTORY_SIZE
  MaxVersion       \* bound: no operation is applied past this version

\* The characters that are submitted or loaded.
Char == UNION {{op.content[i] : i \in DOMAIN op.content} : op \in Op}
          \cup UNION {{t[i] : i \in DOMAIN t} : t \in Text}

ASSUME DocAssumption ==
  /\ MaxHistorySize \in Nat \ {0}
  /\ MaxVersion \in Nat
  /\ MaxVersion + MaxHistorySize < WordMod
  /\ \A op \in Op : /\ op.type \in OperationType /\ op.version \in Nat
                    /\ op.position \in 0..WordMod - 1 /\ op.content \in Seq(Char)
  /\ \A text \in Text : text \in Seq(Char)

VARIABLES
  content, currentVersion, history,
  loaded,     \* ghost: the text the document was loaded with
  past,       \* ghost: past[v + 1] is the text the document had at version v
  rollbacks   \* ghost: whether a rollback has succeeded or thrown

docState == <<content, currentVersion, history>>
vars == <<content, currentVersion, history, loaded, past, rollbacks>>

-----------------------------------------------------------------------------
Init ==
  /\ content = <<>> /\ currentVersion = 0 /\ history = <<>>
  /\ loaded = <<>> /\ past = << <<>> >> /\ rollbacks = FALSE

(* setContent and setVersion, as RecoveryManager and the tests call them:  *)
(* on a document nothing has been applied to.                              *)
Load(text, version) ==
  /\ history = <<>> /\ ~rollbacks
  /\ content' = text /\ currentVersion' = version
  /\ loaded' = text
  /\ past' = [i \in 1..version + 1 |-> text]
  /\ UNCHANGED <<history, rollbacks>>

\* Mutant: pop_back instead of pop_front, before the push.
RememberOldest(h, op) ==
  IF Len(h) = MaxHistorySize THEN Append(SubSeq(h, 1, MaxHistorySize - 1), op) ELSE Append(h, op)

\* push_back, then pop_front when the window has grown past its size.
Remember(h, op) ==
  LET g == Append(h, op)
  IN  IF Len(g) > MaxHistorySize THEN Tail(g) ELSE g

ApplyOperation(op) ==
  /\ ResultOf(content, currentVersion, op) = "SUCCESS"
  /\ content' = Edited(content, op)
  /\ currentVersion' = currentVersion + 1
  /\ history' = Remember(history, op)
  /\ past' = Append(SubSeq(past, 1, currentVersion + 1), content')
  /\ UNCHANGED <<loaded, rollbacks>>

\* The two tests of rollbackToVersion, the second on unsigned integers.
CanRollBack(target) ==
  /\ target < currentVersion
  /\ target >= Minus(currentVersion, Len(history))

\* Mutant: the loop stops at the operation of the target version.
ReplayOneShort(r, op, target) ==
  IF r.run # "on" THEN r
  ELSE IF op.version >= target THEN [r EXCEPT !.run = "break"]
  ELSE [r EXCEPT !.text = Edited(r.text, op)]

\* One iteration of the replay loop on r = [text, run].  A delete or replace
\* whose end is past the text is skipped, any other edit past it throws.
ReplayOne(r, op, target) ==
  IF r.run # "on" THEN r
  ELSE IF op.version > target THEN [r EXCEPT !.run = "break"]
  ELSE IF op.type \in {"DELETE", "REPLACE"} /\ EndOf(op) > Len(r.text) THEN r
  ELSE IF op.type # "RETAIN" /\ op.position > Len(r.text) THEN [r EXCEPT !.run = "throw"]
  ELSE [r EXCEPT !.text = Edited(r.text, op)]

\* The loop: from the empty text over the whole window.
Replay(h, target) ==
  LET f[i \in 0..Len(h)] ==
        IF i = 0 THEN [text |-> <<>>, run |-> "on"]
        ELSE ReplayOne(f[i - 1], h[i], target)
  IN  f[Len(h)]

RollbackToVersion(target) ==
  LET r == Replay(history, target)
  IN  /\ CanRollBack(target)
      /\ content' = r.text
      /\ currentVersion' = IF r.run = "throw" THEN currentVersion ELSE target
      /\ rollbacks' = TRUE
      /\ UNCHANGED <<history, loaded, past>>

Next ==
  \/ \E text \in Text, v \in 0..MaxVersion : Load(text, v)
  \/ \E op \in Op : op.version <= MaxVersion /\ ApplyOperation(op)
  \/ \E v \in 0..MaxVersion : RollbackToVersion(v)

Spec == Init /\ [][Next]_vars

-----------------------------------------------------------------------------
(* The text is made of submitted characters, the version is in bounds and  *)
(* the window holds submitted operations, no more than MAX_HISTORY_SIZE.   *)
TypeOK ==
  /\ content \in Seq(Char)
  /\ currentVersion \in 0..MaxVersion
  /\ history \in Seq(Op) /\ Len(history) <= MaxHistorySize

(* The window is the tail of one line of edits, restarted by rollbacks: a  *)
(* remembered operation follows the version before it or an earlier one,   *)
(* and the last one is never older than the document.  rollbackToVersion   *)
(* relies on it when it stops at the first operation past its target.      *)
WindowConnected ==
  /\ \A i \in 1..Len(history) - 1 : history[i + 1].version <= history[i].version + 1
  /\ history # <<>> => history[Len(history)].version >= currentVersion

(* Until the first rollback the window is exactly the last operations, so  *)
(* getHistory(n) returns the n versions up to the current one.             *)
WindowIsRecent ==
  ~rollbacks => \A i \in 1..Len(history) :
                  history[i].version = currentVersion - Len(history) + i

(* A first rollback restores the text the document had at the target       *)
(* version, when the document started empty at version 0 and no operation  *)
(* has left the window: the replay then covers the document's whole life.  *)
FirstRollbackRestores ==
  [][\A v \in 0..MaxVersion :
       /\ RollbackToVersion(v)
       /\ ~rollbacks /\ loaded = <<>> /\ Len(history) = currentVersion
       => content' = past[v + 1] /\ currentVersion' = v]_vars

=============================================================================
