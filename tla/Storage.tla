------------------------------- MODULE Storage -------------------------------
(***************************************************************************)
(* The DAOs (src/src/storage/DocumentDAO.cpp, OperationDAO.cpp) and the    *)
(* REST controllers (src/src/api/Controllers.cpp) over the Database, for   *)
(* one document and a set of stored operations, called by several threads. *)
(* A call is a sequence of statements, each on a connection of its own     *)
(* from the pool; only markOperationsApplied opens a transaction.          *)
(*                                                                         *)
(* SQLite: a write outside BEGIN is committed by its statement; one inside *)
(* is seen by its connection only until COMMIT, and keeps other writers    *)
(* out (SQLITE_BUSY, and the statement fails).  Any statement may also     *)
(* fail for reasons of its own.                                            *)
(***************************************************************************)
EXTENDS Database, Sequences

CONSTANTS OpId,
          MaxCalls   \* bound on the calls of a behaviour

VARIABLES
  tables,     \* what is committed: the document's row and the operations marked applied
  unsaved,    \* unsaved[c]: the tables as written in the transaction open on c, or None
  job,        \* job[t]: the call thread t is in, or None
  calls,
  acked,      \* ghost: the writes that were reported as done
  disturbed   \* ghost: "stale" once an update wrote over a row that was not the one it had
              \* read, "stray" once a write went into a transaction open on its connection

\* The document's row, the tables, and the calls in progress.
Row == [exists : BOOLEAN, version : Nat, deleted : BOOLEAN]

Tables == [row : Row, marked : SUBSET OpId]

JobRecord ==
  [kind : {"create", "update", "delete", "restore", "purge", "mark"},
   at : {"read", "begin", "write", "commit", "rollback"},
   ids : Seq(OpId), done : Nat, row : Row]

ASSUME StorageAssumption == MaxCalls \in Nat /\ None \notin Tables \cup JobRecord

data == <<tables, unsaved, acked, disturbed>>
vars == <<dbVars, data, job, calls>>

NoRow == [exists |-> FALSE, version |-> 0, deleted |-> FALSE]

Job(kind, at, ids) == [kind |-> kind, at |-> at, ids |-> ids, done |-> 0, row |-> NoRow]

\* The calls of the controllers and the DAOs that write.
Calls ==
  {Job(k, "write", <<>>) : k \in {"create", "delete", "restore", "purge"}}
  \cup {Job("update", "read", <<>>)}
  \cup {Job("mark", "begin", <<a, b>>) : a, b \in OpId}

Init ==
  /\ DbInit
  /\ \E row \in {NoRow, [NoRow EXCEPT !.exists = TRUE]} :
       tables = [row |-> row, marked |-> {}]
  /\ unsaved = [c \in Conn |-> None]
  /\ job = [t \in Thread |-> None]
  /\ calls = 0
  /\ acked = [updates |-> 0, deleted |-> FALSE, marked |-> {}]
  /\ disturbed = {}

-----------------------------------------------------------------------------
(* What the statements write, and what their success tells the caller.     *)

\* INSERT of a new document; the primary key refuses a second one.
CreateDocument(tbl) == [tbl EXCEPT !.row = [NoRow EXCEPT !.exists = TRUE]]

\* Mutant: the version is not counted.
UpdateDocumentSame(tbl, row) ==
  IF tbl.row.exists THEN [tbl EXCEPT !.row = [row EXCEPT !.exists = TRUE]] ELSE tbl

\* UPDATE of the whole row, from the row read before and with its version
\* counted up; done without an effect when there is no such document.
UpdateDocument(tbl, row) ==
  IF tbl.row.exists
    THEN [tbl EXCEPT !.row = [row EXCEPT !.exists = TRUE, !.version = row.version + 1]]
    ELSE tbl

DeleteDocument(tbl) == [tbl EXCEPT !.row.deleted = tbl.row.exists]

RestoreDocument(tbl) == [tbl EXCEPT !.row.deleted = FALSE]

PermanentlyDeleteDocument(tbl) == [tbl EXCEPT !.row = NoRow]

MarkOperationApplied(tbl, id) == [tbl EXCEPT !.marked = @ \cup {id}]

Written(tbl, j) ==
  CASE j.kind = "create"  -> CreateDocument(tbl)
    [] j.kind = "update"  -> UpdateDocument(tbl, j.row)
    [] j.kind = "delete"  -> DeleteDocument(tbl)
    [] j.kind = "restore" -> RestoreDocument(tbl)
    [] j.kind = "purge"   -> PermanentlyDeleteDocument(tbl)
    [] j.kind = "mark"    -> MarkOperationApplied(tbl, j.ids[j.done + 1])

Acknowledged(tbl, j) ==
  CASE j.kind = "create"  -> [acked EXCEPT !.updates = 0, !.deleted = FALSE]
    [] j.kind = "update"  -> [acked EXCEPT !.updates = @ + 1]
    [] j.kind = "delete"  -> [acked EXCEPT !.deleted = tbl.row.exists]
    [] j.kind \in {"restore", "purge"} -> [acked EXCEPT !.deleted = FALSE]
    [] OTHER -> acked

-----------------------------------------------------------------------------
(* Control of the calls.                                                   *)

Finish(t) == job' = [job EXCEPT ![t] = None]

At(t, place) == job' = [job EXCEPT ![t].at = place]

\* The connection through which t writes sees c's transaction, if c has one.
View(c) == IF unsaved[c] = None THEN tables ELSE unsaved[c]

\* Unless their connection was closed, transactions keep what they wrote.
KeepOpen == unsaved' = [c \in Conn |-> IF c \in begun' THEN unsaved[c] ELSE None]

Call(t, j) ==
  /\ job[t] = None /\ calls < MaxCalls
  /\ job' = [job EXCEPT ![t] = j]
  /\ calls' = calls + 1
  /\ UNCHANGED <<dbVars, data>>

StartQuery(t) ==
  /\ job[t] # None /\ job[t].at \in {"read", "write"}
  /\ StartStatement(t)
  /\ UNCHANGED <<data, job, calls>>

\* getDocument has put the docId in before it reads, so a read that fails,
\* or finds no row, looks to updateDocument like a document without text.
ReadFailed(t) ==
  /\ job[t].at = "read"
  /\ job' = [job EXCEPT ![t].at = "write", ![t].row = NoRow]

\* A failed update ends the call; a batch is rolled back.
WriteFailed(t) ==
  /\ job[t].at = "write"
  /\ IF job[t].kind = "mark" THEN At(t, "rollback") ELSE Finish(t)

QueryWithoutConnection(t) ==
  /\ job[t] # None /\ step[t] = "idle"
  /\ NoConnection
  /\ ReadFailed(t) \/ WriteFailed(t)
  /\ UNCHANGED <<dbVars, data, calls>>

FailQuery(t) ==
  /\ job[t] # None /\ EndStatement(t)
  /\ ReadFailed(t) \/ WriteFailed(t)
  /\ KeepOpen
  /\ UNCHANGED <<tables, acked, disturbed, calls>>

Read(t) ==
  /\ job[t] # None /\ job[t].at = "read"
  /\ EndStatement(t)
  /\ job' = [job EXCEPT ![t].at = "write", ![t].row = View(held[t]).row]
  /\ KeepOpen
  /\ UNCHANGED <<tables, acked, disturbed, calls>>

\* Mutant: the first operation of a batch ends it, as if it were the last.
AfterWriteOnce(t) ==
  IF job[t].kind = "mark" THEN At(t, "commit") ELSE Finish(t)

\* After a write the batch goes on with the next operation, if there is one.
AfterWrite(t) ==
  IF job[t].kind # "mark" THEN Finish(t)
    ELSE job' = [job EXCEPT ![t].done = @ + 1,
                            ![t].at = IF job[t].done + 1 = Len(job[t].ids)
                                        THEN "commit" ELSE "write"]

Write(t) ==
  LET c == held[t]   before == View(c)
      after == Written(before, job[t])
  IN  /\ job[t] # None /\ job[t].at = "write"
      /\ EndStatement(t)
      /\ \A d \in Conn \ {c} : unsaved[d] = None
      /\ job[t].kind = "create" => ~before.row.exists
      /\ IF c \in begun'
           THEN unsaved' = [unsaved EXCEPT ![c] = after] /\ UNCHANGED tables
           ELSE tables' = after /\ KeepOpen
      /\ acked' = Acknowledged(before, job[t])
      /\ disturbed' = disturbed
           \cup (IF job[t].kind = "update" /\ before.row # job[t].row THEN {"stale"} ELSE {})
           \cup (IF c \in begun THEN {"stray"} ELSE {})
      /\ AfterWrite(t)
      /\ UNCHANGED calls

-----------------------------------------------------------------------------
(* markOperationsApplied's transaction.                                    *)

TryBegin(t) ==
  /\ job[t] # None /\ job[t].at = "begin"
  /\ IF inTransaction
       THEN step[t] = "idle" /\ Finish(t) /\ UNCHANGED dbVars
       ELSE BeginTest(t) /\ UNCHANGED job
  /\ UNCHANGED <<data, calls>>

BeginGet(t) ==
  /\ BeginGetConnection(t)
  /\ UNCHANGED <<data, job, calls>>

BeginSucceeds(t) ==
  /\ BeginExec(t) /\ At(t, "write")
  /\ UNCHANGED <<data, calls>>

BeginRefused(t) ==
  /\ BeginNoConnection(t) \/ BeginFails(t)
  /\ Finish(t)
  /\ KeepOpen
  /\ UNCHANGED <<tables, acked, disturbed, calls>>

\* COMMIT or ROLLBACK on transactionConn.
EndTransaction(t) ==
  /\ job[t] # None /\ job[t].at \in {"commit", "rollback"}
  /\ EndExec(t)
  /\ tables' = IF job[t].at = "commit" THEN View(transactionConn) ELSE tables
  /\ KeepOpen
  /\ UNCHANGED <<acked, disturbed, job, calls>>

\* It fails, and the batch is reported as not applied.
EndTransactionFails(t) ==
  /\ job[t] # None /\ job[t].at \in {"commit", "rollback"}
  /\ EndFails(t)
  /\ At(t, "rollback")
  /\ KeepOpen
  /\ UNCHANGED <<tables, acked, disturbed, calls>>

EndWithoutTransaction(t) ==
  /\ job[t] # None /\ job[t].at \in {"commit", "rollback"}
  /\ EndRefused(t)
  /\ Finish(t)
  /\ UNCHANGED <<data, calls>>

EndReturns(t) ==
  /\ EndRelease(t)
  /\ acked' = IF job[t].at = "commit"
                THEN [acked EXCEPT !.marked = @ \cup {job[t].ids[i] : i \in 1..Len(job[t].ids)}]
                ELSE acked
  /\ Finish(t)
  /\ KeepOpen
  /\ UNCHANGED <<tables, disturbed, calls>>

-----------------------------------------------------------------------------
StartOrStop ==
  /\ \A t \in Thread : job[t] = None
  /\ Initialize \/ OpenFails \/ SchemaFails \/ Shutdown
  /\ KeepOpen
  /\ UNCHANGED <<tables, acked, disturbed, job, calls>>

Step(t) ==
  \/ \E j \in Calls : Call(t, j)
  \/ StartQuery(t) \/ QueryWithoutConnection(t) \/ FailQuery(t) \/ Read(t) \/ Write(t)
  \/ TryBegin(t) \/ BeginGet(t) \/ BeginSucceeds(t) \/ BeginRefused(t)
  \/ EndTransaction(t) \/ EndTransactionFails(t)
  \/ EndWithoutTransaction(t) \/ EndReturns(t)

Next == StartOrStop \/ \E t \in Thread : Step(t)

Spec == Init /\ [][Next]_vars

-----------------------------------------------------------------------------
(* The tables and the calls have their types, and the Database's state its *)
(* own; a version is no higher than the number of calls that have ended;   *)
(* one connection at most has written inside a transaction.                *)
TypeOK ==
  /\ DbTypeOK
  /\ tables \in Tables /\ tables.row.version \in 0..MaxCalls
  /\ unsaved \in [Conn -> Tables \cup {None}]
  /\ \A c \in Conn : unsaved[c] # None => c \in begun
  /\ \A c, d \in Conn : unsaved[c] # None /\ unsaved[d] # None => c = d
  /\ job \in [Thread -> JobRecord \cup {None}]
  /\ \A t \in Thread : job[t] # None => job[t].done <= Len(job[t].ids)
  /\ calls \in 0..MaxCalls
  /\ acked \in [updates : Nat, deleted : BOOLEAN, marked : SUBSET OpId]
  /\ disturbed \subseteq {"stale", "stray"}

(* markOperationsApplied reports success only when every operation of the  *)
(* batch is marked in the committed tables, although its UPDATEs never run *)
(* on the connection of its BEGIN, whatever else runs, races and fails,    *)
(* unless a write went into a transaction open on its own connection.      *)
MarksStored == "stray" \notin disturbed => acked.marked \subseteq tables.marked

(* As long as no update wrote over a row that had changed since it was     *)
(* read, or could not be read, and none was written into a transaction     *)
(* open on its connection, the stored version counts the updates that were *)
(* reported as done and a document reported as deleted is deleted:         *)
(* updateDocument, which reads and writes under no lock, and the pool lose *)
(* nothing else, even if transactions race.                                *)
UpdatesCounted ==
  disturbed = {} =>
    /\ tables.row.exists => tables.row.version = acked.updates
    /\ acked.deleted => tables.row.deleted
=============================================================================
