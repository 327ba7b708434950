----------------------------- MODULE Persistence -----------------------------
(***************************************************************************)
(* What is stored of one document and what is made of it after a crash:    *)
(* src/src/core/SnapshotManager.cpp and RecoveryManager.cpp, with the rows *)
(* OperationDAO.cpp inserts and cleans up.  Several threads apply          *)
(* operations to the live document and then store them, each in two steps, *)
(* so rows are inserted in any order of their versions; an insert may      *)
(* fail.  createSnapshot reads the version and the text of the document    *)
(* under two locks.  A crash loses the live document and what was not      *)
(* stored; the document is then rebuilt by recoverDocument, before any     *)
(* other thread has it.  recoverToVersion is called while they all go on:  *)
(* its three reads are three steps, between which snapshots and operations *)
(* are inserted, as RecoveryManager's mutex is not SnapshotManager's.      *)
(*                                                                         *)
(* The tables are sequences in the order of their rowids, which is how     *)
(* SQLite's index returns rows of one version.  DocumentState's rollback   *)
(* is left to its own module.                                              *)
(***************************************************************************)
EXTENDS Operation, FiniteSets

CONSTANTS
  Op,             \* the operations callers may submit (records, any version)
  MaxVersion, MaxRows, MaxSnapshots, MaxThreads, MaxLives,   \* bounds
  Unknown         \* a version older than the snapshot a document was rebuilt from

\* The characters that are submitted.
Char == UNION {{op.content[i] : i \in DOMAIN op.content} : op \in Op}

ASSUME PersistenceAssumption ==
  /\ MaxVersion \in Nat /\ MaxVersion < WordMod
  /\ MaxRows \in Nat /\ MaxSnapshots \in Nat /\ MaxLives \in Nat \ {0}
  /\ \A op \in Op : /\ op.type \in OperationType /\ op.version \in 1..MaxVersion
                    /\ op.position \in 0..WordMod - 1 /\ op.content \in Seq(Char)
  /\ Unknown \notin Op \cup Seq(Char) \cup 0..MaxVersion

VARIABLES
  live,        \* the document in memory, with its past (see From)
  unstored,    \* operations applied by threads that have yet to store them
  operations,  \* the rows of the operations table
  snapshots,   \* the rows of the snapshots table
  snapping,    \* the snapshot being created, or Unknown
  recovery,    \* what recoverToVersion has read so far, or Unknown
  lives        \* how often the live document has been replaced

vars == <<live, unstored, operations, snapshots, snapping, recovery, lives>>

-----------------------------------------------------------------------------
(* Documents: text and version, and as ghosts the text at every version,   *)
(* past[v + 1], and the operation that led there, line[v].                 *)

Snapshot(version, content) == [version |-> version, content |-> content]

\* rebuildFromSnapshot: a document with the snapshot's text and version.
From(s) ==
  [content |-> s.content, version |-> s.version,
   past |-> Append([v \in 1..s.version |-> Unknown], s.content),
   line |-> [v \in 1..s.version |-> Unknown]]

\* applyOperation: a refused operation changes nothing.
Take(d, op) ==
  LET text == Edited(d.content, op)
  IN  IF ResultOf(d.content, d.version, op) # "SUCCESS" THEN d
        ELSE [content |-> text, version |-> d.version + 1,
              past |-> Append(d.past, text), line |-> Append(d.line, op)]

TakeAll(d, ops) ==
  LET f[i \in 0..Len(ops)] == IF i = 0 THEN d ELSE Take(f[i - 1], ops[i])
  IN  f[Len(ops)]

\* loadSnapshotData: the newest row has the highest version.
Empty == Snapshot(0, <<>>)

Newest(rows) ==
  LET f[i \in 0..Len(rows)] ==
        IF i = 0 THEN Empty
        ELSE IF rows[i].version >= f[i - 1].version THEN rows[i] ELSE f[i - 1]
  IN  f[Len(rows)]

NewestSnapshot == Newest(snapshots)

\* Mutant: in the order of insertion.
OperationsBetweenUnsorted(after, until) ==
  SelectSeq(operations, LAMBDA op : after < op.version /\ op.version <= until)

\* The rows of a table that are kept, in the order of their rowids.
Rows(rows, kept) ==
  LET f[i \in 0..Len(rows)] ==
        IF i = 0 THEN <<>> ELSE IF i \in kept THEN Append(f[i - 1], rows[i]) ELSE f[i - 1]
  IN  f[Len(rows)]

OfVersion(rows, v) == Rows(rows, {i \in DOMAIN rows : rows[i].version = v})

\* getOperationsAfterVersion: ORDER BY version.
OperationsBetween(after, until) ==
  LET f[v \in 0..MaxVersion] == IF v <= after THEN <<>> ELSE f[v - 1] \o OfVersion(operations, v)
  IN  f[until]

\* recoverDocument: nothing without a snapshot; otherwise every later
\* operation is applied, and recovery goes on past the refused ones.
Recovered ==
  LET s == NewestSnapshot
  IN  IF s.version = 0 THEN From(s)
        ELSE TakeAll(From(s), OperationsBetween(s.version, MaxVersion))

\* What recoverToVersion makes of the snapshot it has loaded and of the
\* operations between the version it tested and its target.
RecoveredTo ==
  TakeAll(From(recovery.loaded), OperationsBetween(recovery.start, recovery.target))

-----------------------------------------------------------------------------
Init ==
  /\ live = From(Empty)
  /\ unstored = {} /\ operations = <<>>
  /\ snapshots = <<>> /\ snapping = Unknown /\ recovery = Unknown /\ lives = 1

Apply(op) ==
  /\ Cardinality(unstored) < MaxThreads
  /\ ResultOf(live.content, live.version, op) = "SUCCESS"
  /\ live' = Take(live, op)
  /\ unstored' = unstored \cup {op}
  /\ UNCHANGED <<operations, snapshots, snapping, recovery, lives>>

\* insertOperation, for an operation its thread has applied.
Store(op) ==
  /\ op \in unstored /\ Len(operations) < MaxRows
  /\ operations' = Append(operations, op)
  /\ unstored' = unstored \ {op}
  /\ UNCHANGED <<live, snapshots, snapping, recovery, lives>>

StoreFails(op) ==
  /\ op \in unstored
  /\ unstored' = unstored \ {op}
  /\ UNCHANGED <<live, operations, snapshots, snapping, recovery, lives>>

\* createSnapshot, which holds the manager's mutex, reads the version ...
ReadVersion ==
  /\ snapping = Unknown
  /\ snapping' = Snapshot(live.version, Unknown)
  /\ UNCHANGED <<live, unstored, operations, snapshots, recovery, lives>>

\* The text it will read: that of the live document, or of the one that has
\* been replaced meanwhile.
TextToSnap == IF snapping.content = Unknown THEN live.content ELSE snapping.content

\* ... and then the text, and inserts both.
InsertSnapshot ==
  /\ snapping # Unknown /\ Len(snapshots) < MaxSnapshots
  /\ snapshots' = Append(snapshots, Snapshot(snapping.version, TextToSnap))
  /\ snapping' = Unknown
  /\ UNCHANGED <<live, unstored, operations, recovery, lives>>

InsertSnapshotFails ==
  /\ snapping # Unknown
  /\ snapping' = Unknown
  /\ UNCHANGED <<live, unstored, operations, snapshots, recovery, lives>>

\* How many rows of a table come before row i in descending order.
Newer(rows, i) ==
  {j \in DOMAIN rows : \/ rows[j].version > rows[i].version
                       \/ rows[j].version = rows[i].version /\ j > i}

\* Mutant: the oldest version that is to stay goes too.
CleanupOldSnapshotsOff(keep) ==
  \E i \in DOMAIN snapshots :
    /\ snapping = Unknown
    /\ Cardinality(Newer(snapshots, i)) = keep - 1
    /\ snapshots' = Rows(snapshots, {j \in DOMAIN snapshots :
                                       snapshots[j].version > snapshots[i].version})
    /\ UNCHANGED <<live, unstored, operations, snapping, recovery, lives>>

\* The keep-th newest row is looked up, and everything older deleted.
CleanupOldSnapshots(keep) ==
  \E i \in DOMAIN snapshots :
    /\ snapping = Unknown
    /\ Cardinality(Newer(snapshots, i)) = keep - 1
    /\ snapshots' = Rows(snapshots, {j \in DOMAIN snapshots :
                                       snapshots[j].version >= snapshots[i].version})
    /\ UNCHANGED <<live, unstored, operations, snapping, recovery, lives>>

CleanupOldOperations(keep) ==
  /\ operations' = Rows(operations, {i \in DOMAIN operations :
                                       Cardinality(Newer(operations, i)) < keep})
  /\ UNCHANGED <<live, unstored, snapshots, snapping, recovery, lives>>

\* Recovery takes what a failing query did not give it for absent.
Unread == {From(Empty), From(NewestSnapshot)}

\* The program dies, whatever its threads were doing, and recovers.
Restart ==
  /\ lives < MaxLives /\ lives' = lives + 1
  /\ live' \in {Recovered} \cup Unread
  /\ unstored' = {} /\ snapping' = Unknown /\ recovery' = Unknown
  /\ UNCHANGED <<operations, snapshots>>

\* Mutant: no test against the target.
ReadSnapshotVersionAny(target) ==
  /\ recovery = Unknown /\ snapping = Unknown /\ lives < MaxLives
  /\ \E start \in {0, NewestSnapshot.version} :
       recovery' = [target |-> target, start |-> start,
                    loaded |-> IF start = 0 THEN Empty ELSE Unknown]
  /\ UNCHANGED <<live, unstored, operations, snapshots, snapping, lives>>

\* recoverToVersion reads the version of the newest snapshot, 0 when that
\* fails: one that is not newer than the target is to be loaded, otherwise
\* recovery starts from nothing, whatever older snapshots there are.
ReadSnapshotVersion(target) ==
  /\ recovery = Unknown /\ snapping = Unknown /\ lives < MaxLives
  /\ \E start \in {0} \cup ({NewestSnapshot.version} \cap 1..target) :
       recovery' = [target |-> target, start |-> start,
                    loaded |-> IF start = 0 THEN Empty ELSE Unknown]
  /\ UNCHANGED <<live, unstored, operations, snapshots, snapping, lives>>

\* Under another lock it loads the snapshot that is the newest by now, or
\* nothing when that fails.
LoadSnapshot ==
  /\ recovery # Unknown /\ recovery.loaded = Unknown /\ snapping = Unknown
  /\ \E s \in {Empty, NewestSnapshot} : recovery' = [recovery EXCEPT !.loaded = s]
  /\ UNCHANGED <<live, unstored, operations, snapshots, snapping, lives>>

\* It reads the operations, none when that fails, and applies them.  The
\* document is replaced; a snapshot of the old one and the threads that
\* have yet to store an operation of it go on.
ReplayOperations ==
  /\ recovery # Unknown /\ recovery.loaded # Unknown
  /\ live' \in {RecoveredTo, From(recovery.loaded)}
  /\ lives' = lives + 1 /\ recovery' = Unknown
  /\ snapping' = IF snapping = Unknown THEN Unknown ELSE Snapshot(snapping.version, TextToSnap)
  /\ UNCHANGED <<unstored, operations, snapshots>>

Next ==
  \/ \E op \in Op : Apply(op) \/ Store(op) \/ StoreFails(op)
  \/ ReadVersion \/ InsertSnapshot \/ InsertSnapshotFails
  \/ \E keep \in 1..MaxSnapshots : CleanupOldSnapshots(keep)
  \/ \E keep \in 0..MaxRows : CleanupOldOperations(keep)
  \/ Restart
  \/ \E target \in 0..MaxVersion : ReadSnapshotVersion(target)
  \/ LoadSnapshot \/ ReplayOperations

Spec == Init /\ [][Next]_vars

-----------------------------------------------------------------------------
(* Texts and versions are in bounds, and so is what recovery makes of the  *)
(* tables: it never gets past the versions that were stored.               *)
TypeOK ==
  /\ live.version \in 0..MaxVersion /\ Recovered.version \in 0..MaxVersion
  /\ Len(live.past) = live.version + 1 /\ live.past[live.version + 1] = live.content
  /\ unstored \subseteq Op /\ operations \in Seq(Op) /\ Len(operations) <= MaxRows
  /\ Len(snapshots) <= MaxSnapshots
  /\ snapping # Unknown => snapping.version \in 0..MaxVersion
  /\ recovery # Unknown => /\ recovery.target \in 0..MaxVersion
                           /\ recovery.start \in 0..recovery.target
  /\ lives \in 1..MaxLives

\* A row of the operations table is the live document's own operation.
Own(op) == op.version <= live.version /\ live.line[op.version] = op

OwnAfter(version) ==
  \A i \in DOMAIN operations : operations[i].version > version => Own(operations[i])

\* A snapshot holds the text the live document had at the snapshot's version.
Whole(s) == s.version <= live.version /\ live.past[s.version + 1] = s.content

\* Operations are stored for every version after from up to to.
Stored(from, to) ==
  \A v \in from + 1..to : \E i \in DOMAIN operations : operations[i].version = v

(* If the newest snapshot is not torn, and no row after it was left by     *)
(* another life of the document, then a crash at any moment loses nothing  *)
(* of the stored operations up to the first one missing: recovery rebuilds *)
(* the text the document had at that version, in whatever order the rows   *)
(* were inserted and whatever else is stored beyond the gap.               *)
RecoverExact ==
  LET s == NewestSnapshot   r == Recovered
  IN  s.version > 0 /\ Whole(s) /\ OwnAfter(s.version) =>
        /\ r.version >= s.version /\ Stored(s.version, r.version)
        /\ r.version < live.version => ~Stored(s.version, r.version + 1)
        /\ r.content = live.past[r.version + 1]

(* Recovery to a version gives the text the document had at that version,  *)
(* when the operations from the snapshot it has loaded, or from the        *)
(* beginning, are all stored; whatever other threads insert meanwhile, it  *)
(* is off only by a snapshot newer than the target that came in between    *)
(* the test and the load: then it gives the text at that snapshot's.       *)
RecoverToExact ==
  recovery # Unknown /\ recovery.loaded # Unknown =>
    LET s == recovery.loaded
        v == IF s.version > recovery.start /\ s.version > recovery.target
               THEN s.version ELSE recovery.target
    IN  /\ s.version >= recovery.start /\ v <= live.version
        /\ Whole(s) /\ OwnAfter(s.version) /\ Stored(s.version, v)
        => RecoveredTo.version = v /\ RecoveredTo.content = live.past[v + 1]

(* RecoveryManager.h:35 promises the document at the target version.       *)
TargetNotPassed ==
  recovery # Unknown /\ recovery.loaded # Unknown => RecoveredTo.version <= recovery.target

(* Cleaning up does not change what a crash would leave: old snapshots     *)
(* never, and old operations as long as those newer than the newest        *)
(* snapshot are within the number kept.                                    *)
CleanupKeepsRecovery ==
  [][\/ Len(snapshots') < Len(snapshots)
     \/ /\ Len(operations') < Len(operations)
        /\ Len(operations') >= Cardinality({i \in DOMAIN operations :
                                               operations[i].version > NewestSnapshot.version})
     => Recovered' = Recovered]_vars
=============================================================================
