---------------------------- MODULE StorageProofs ----------------------------
(***************************************************************************)
(* Proofs about Database and Storage, for any threads, connections,        *)
(* operations, pool size and number of calls.                              *)
(*                                                                         *)
(* Database first.  PoolSound and FlagTrue are inductive together with one *)
(* more fact: as long as no two transactions raced, one thread at most is  *)
(* between its test of inTransaction and the end of its transaction.       *)
(*                                                                         *)
(* Storage then implements Database, and has its invariants; on top of     *)
(* them, its own follow from where each call is in its statements.         *)
(***************************************************************************)
EXTENDS Storage, FiniteSetTheorems, TLAPS

Busy(t) == Switching(t) \/ inTx[t]

\* transactionConn belongs to the one busy thread.
OneTransaction ==
  ~raced =>
    /\ \A s, t \in Thread : Busy(s) /\ Busy(t) => s = t
    /\ \A t \in Thread : inTx[t] => ~Switching(t)
    /\ transactionConn # None <=>
         \E t \in Thread : step[t] \in {"exec", "end"} \/ inTx[t]

Used(c) == c = transactionConn \/ \E t \in Thread : held[t] = c

\* PoolSound, connection by connection.
PoolPoint ==
  ~raced =>
    /\ \A s, t \in Thread : held[s] = held[t] /\ held[s] # None => s = t
    /\ \A t \in Thread : held[t] # None => held[t] # transactionConn
    /\ \A c \in Conn : /\ c \in connectionInUse <=> c \in connectionPool /\ Used(c)
                       /\ c \in open <=> c \in connectionPool \/ Used(c)

PoolInv == DbTypeOK /\ PoolPoint /\ FlagTrue /\ OneTransaction

-----------------------------------------------------------------------------
(* The pool is sound when it is so connection by connection.               *)
LEMMA PointToPool == DbTypeOK /\ PoolPoint => PoolSound
  <1> SUFFICES ASSUME DbTypeOK, PoolPoint, ~raced PROVE PoolSound
    BY DEF PoolSound
  <1> USE DatabaseAssumption DEF DbTypeOK, PoolPoint
  <1>1. \A c : c \in InUse <=> c \in Conn /\ Used(c)
    BY DEF InUse, Used
  <1>2. InUse \subseteq open
    BY <1>1
  <1>3. connectionInUse = InUse \cap connectionPool
    BY <1>1
  <1>4. open = connectionPool \cup InUse
    BY <1>1
  <1> QED BY <1>2, <1>3, <1>4 DEF PoolSound

(* The initial state satisfies the invariant.                              *)
LEMMA InitPool == DbInit => PoolInv
  BY DatabaseAssumption
     DEF DbInit, PoolInv, DbTypeOK, PoolPoint, FlagTrue, OneTransaction, Used, Busy, Switching

(* Starting and stopping, while no thread is in a call, keep the pool.     *)
LEMMA StartStopPool ==
  ASSUME PoolInv, Initialize \/ OpenFails \/ SchemaFails \/ Shutdown
  PROVE  PoolInv'
  <1> USE DatabaseAssumption DEF PoolInv, DbTypeOK, begins, KeepBegun
  <1>1. /\ Quiet /\ UNCHANGED <<transaction, step, held>>
        /\ \A t \in Thread : step[t] = "idle" /\ ~inTx[t] /\ held[t] = None
    BY DEF Initialize, OpenFails, SchemaFails, Shutdown, Quiet
  <1>2. DbTypeOK'
    <2>1. CASE Initialize \/ SchemaFails
      BY <1>1, <2>1 DEF Initialize, SchemaFails, NewConnections, pool, transaction
    <2>2. CASE OpenFails \/ Shutdown
      BY <1>1, <2>2 DEF OpenFails, Shutdown, transaction
    <2> QED BY <2>1, <2>2
  <1>3. ~raced => transactionConn = None
    BY <1>1 DEF OneTransaction
  <1>4. PoolPoint'
    <2>1. CASE Initialize \/ SchemaFails
      BY <1>1, <1>3, <2>1
         DEF Initialize, SchemaFails, NewConnections, PoolPoint, Used, transaction
    <2>2. CASE OpenFails \/ Shutdown
      BY <1>1, <1>3, <2>2 DEF OpenFails, Shutdown, PoolPoint, Used, transaction
    <2> QED BY <2>1, <2>2
  <1>5. FlagTrue'
    BY <1>1 DEF Initialize, OpenFails, SchemaFails, Shutdown, FlagTrue, transaction
  <1>6. OneTransaction'
    BY <1>1 DEF OneTransaction, Busy, Switching, transaction
  <1> QED BY <1>2, <1>4, <1>5, <1>6

(* A connection that is handed out was used by nobody.                     *)
LEMMA GotUnused ==
  ASSUME PoolInv, ~raced, NEW c \in Conn, GetConnection(c)
  PROVE  ~Used(c)
  BY DEF GetConnection, Free, PoolInv, PoolPoint, DbTypeOK

(* Starting and ending a statement keep the invariant.                     *)
LEMMA StatementPool ==
  ASSUME PoolInv, NEW t \in Thread, StartStatement(t) \/ EndStatement(t)
  PROVE  PoolInv'
  <1> USE DatabaseAssumption DEF PoolInv, DbTypeOK, begins, KeepBegun
  <1>1. CASE StartStatement(t)
    <2>1. PICK c \in Conn : GetConnection(c) /\ held' = [held EXCEPT ![t] = c]
      BY <1>1 DEF StartStatement
    <2> USE <1>1, <2>1 DEF StartStatement, Go, transaction
    <2>2. DbTypeOK'
      BY DEF GetConnection, Free
    <2>3. PoolPoint'
      <3> SUFFICES ASSUME ~raced PROVE PoolPoint'
        BY DEF PoolPoint
      <3>1. ~Used(c) /\ held[t] = None
        BY GotUnused
      <3>2. \A d \in Conn : Used(d)' <=> Used(d) \/ d = c
        BY <3>1 DEF Used
      <3> QED BY <3>1, <3>2 DEF PoolPoint, GetConnection, Free, Used
    <2>4. FlagTrue'
      BY DEF FlagTrue
    <2>5. OneTransaction'
      BY DEF OneTransaction, Busy, Switching
    <2> QED BY <2>2, <2>3, <2>4, <2>5
  <1>2. CASE EndStatement(t)
    <2> USE <1>2 DEF EndStatement, Go, transaction, ReleaseConnection
    <2>1. DbTypeOK'
      OBVIOUS
    <2>2. PoolPoint'
      <3> SUFFICES ASSUME ~raced PROVE PoolPoint'
        BY DEF PoolPoint
      <3>a. PICK c \in Conn : c = held[t]
        OBVIOUS
      <3>1. ~Used(c)'
        BY <3>a DEF Used, PoolPoint
      <3>2. \A d \in Conn \ {c} : Used(d)' <=> Used(d)
        BY <3>a DEF Used
      <3> QED BY <3>a, <3>1, <3>2 DEF PoolPoint
    <2>3. FlagTrue'
      <3> SUFFICES ASSUME ~raced PROVE FlagTrue'
        BY DEF FlagTrue
      <3>1. held[t] \notin begun \ abandoned
        BY DEF FlagTrue, PoolPoint
      <3> QED BY <3>1 DEF FlagTrue
    <2>4. OneTransaction'
      BY DEF OneTransaction, Busy, Switching
    <2> QED BY <2>1, <2>2, <2>3, <2>4
  <1> QED BY <1>1, <1>2

(* So do the steps of beginTransaction.                                    *)
LEMMA BeginPool ==
  ASSUME PoolInv, NEW t \in Thread,
         \/ BeginTest(t) \/ BeginGetConnection(t) \/ BeginNoConnection(t)
         \/ BeginExec(t) \/ BeginFails(t)
  PROVE  PoolInv'
  <1> USE DatabaseAssumption DEF PoolInv, DbTypeOK, begins, KeepBegun
  <1>1. CASE BeginTest(t)
    <2> USE <1>1 DEF BeginTest, Go, pool
    <2>1. DbTypeOK' /\ PoolPoint' /\ FlagTrue'
      BY DEF PoolPoint, FlagTrue, Used
    <2>2. OneTransaction'
      BY DEF OneTransaction, FlagTrue, Busy, Switching
    <2> QED BY <2>1, <2>2
  <1>2. CASE BeginGetConnection(t)
    <2>1. PICK c \in Conn : GetConnection(c) /\ transactionConn' = c
      BY <1>2 DEF BeginGetConnection
    <2> USE <1>2, <2>1 DEF BeginGetConnection, Go
    <2>2. DbTypeOK'
      BY DEF GetConnection, Free
    <2>3. ~raced => transactionConn = None
      BY DEF OneTransaction, Busy, Switching
    <2>4. PoolPoint'
      <3> SUFFICES ASSUME ~raced PROVE PoolPoint'
        BY DEF PoolPoint
      <3>1. ~Used(c)
        BY GotUnused
      <3>2. \A d \in Conn : Used(d)' <=> Used(d) \/ d = c
        BY <2>3, <3>1 DEF Used
      <3> QED BY <3>1, <3>2 DEF PoolPoint, GetConnection, Free, Used
    <2>5. FlagTrue'
      BY <2>3 DEF FlagTrue, OneTransaction
    <2>6. OneTransaction'
      BY DEF OneTransaction, Busy, Switching
    <2> QED BY <2>2, <2>4, <2>5, <2>6
  <1>3. CASE BeginNoConnection(t)
    <2> USE <1>3 DEF BeginNoConnection, Go, pool
    <2>1. ~raced => transactionConn = None
      BY DEF OneTransaction, Busy, Switching
    <2>2. DbTypeOK' /\ PoolPoint' /\ FlagTrue'
      BY <2>1 DEF PoolPoint, FlagTrue, Used
    <2>3. OneTransaction'
      BY DEF OneTransaction, Busy, Switching
    <2> QED BY <2>2, <2>3
  <1>4. CASE BeginExec(t)
    <2> USE <1>4 DEF BeginExec, Go, pool
    <2>1. DbTypeOK' /\ PoolPoint'
      BY DEF PoolPoint, Used
    <2>2. FlagTrue'
      BY DEF FlagTrue, OneTransaction, Busy, Switching
    <2>3. OneTransaction'
      BY DEF OneTransaction, Busy, Switching
    <2> QED BY <2>1, <2>2, <2>3
  <1>5. CASE BeginFails(t)
    <2> USE <1>5 DEF BeginFails, Go, ReleaseConnection
    <2>1. DbTypeOK'
      OBVIOUS
    <2>2. PoolPoint'
      BY DEF PoolPoint, Used
    <2>3. FlagTrue'
      BY DEF FlagTrue, OneTransaction, Busy, Switching
    <2>4. OneTransaction'
      BY DEF OneTransaction, Busy, Switching
    <2> QED BY <2>1, <2>2, <2>3, <2>4
  <1> QED BY <1>1, <1>2, <1>3, <1>4, <1>5

(* And those of commitTransaction and rollbackTransaction.                 *)
LEMMA EndPool ==
  ASSUME PoolInv, NEW t \in Thread, EndExec(t) \/ EndFails(t) \/ EndRefused(t) \/ EndRelease(t)
  PROVE  PoolInv'
  <1> USE DatabaseAssumption DEF PoolInv, DbTypeOK, begins, KeepBegun
  <1>1. CASE EndExec(t)
    <2> USE <1>1 DEF EndExec, Go, pool
    <2>1. DbTypeOK' /\ PoolPoint'
      BY DEF PoolPoint, Used
    <2>2. FlagTrue'
      BY DEF FlagTrue
    <2>3. OneTransaction'
      BY DEF OneTransaction, Busy, Switching
    <2> QED BY <2>1, <2>2, <2>3
  <1>2. CASE EndFails(t)
    <2> USE <1>2 DEF EndFails, Go, pool
    <2>1. DbTypeOK' /\ PoolPoint'
      BY DEF PoolPoint, Used
    <2>2. FlagTrue'
      BY DEF FlagTrue
    <2>3. OneTransaction'
      BY DEF OneTransaction, Busy, Switching
    <2> QED BY <2>1, <2>2, <2>3
  <1>3. CASE EndRefused(t)
    <2> USE <1>3 DEF EndRefused, pool
    <2>1. raced
      BY DEF FlagTrue, OneTransaction
    <2> QED BY <2>1 DEF PoolPoint, FlagTrue, OneTransaction
  <1>4. CASE EndRelease(t)
    <2> USE <1>4 DEF EndRelease, Go, ReleaseConnection
    <2>1. DbTypeOK'
      OBVIOUS
    <2>2. PoolPoint'
      BY DEF PoolPoint, Used
    <2>3. FlagTrue'
      BY DEF FlagTrue, OneTransaction, Busy, Switching
    <2>4. OneTransaction'
      BY DEF OneTransaction, Busy, Switching
    <2> QED BY <2>1, <2>2, <2>3, <2>4
  <1> QED BY <1>1, <1>2, <1>3, <1>4

(* The invariant holds of every behaviour.                                 *)
LEMMA PoolInvariance == DbSpec => []PoolInv
  <1>1. PoolInv /\ [DbNext]_dbVars => PoolInv'
    <2> SUFFICES ASSUME PoolInv, [DbNext]_dbVars PROVE PoolInv'
      OBVIOUS
    <2>1. CASE UNCHANGED dbVars
      BY <2>1 DEF dbVars, pool, begins, transaction, PoolInv, DbTypeOK, PoolPoint, FlagTrue,
                  OneTransaction, Used, Busy, Switching
    <2>2. CASE DbNext
      BY <2>2, StartStopPool, StatementPool, BeginPool, EndPool DEF DbNext
    <2> QED BY <2>1, <2>2
  <1> QED BY <1>1, InitPool, PTL DEF DbSpec

-----------------------------------------------------------------------------
(* The pool, the handles and the threads' locals keep their types.         *)
THEOREM TypeCorrect == DbSpec => []DbTypeOK
  BY PoolInvariance, PTL DEF PoolInv

(* Until two transactions race, every connection has one user and none is  *)
(* leaked, closed in use or handed out twice.                              *)
THEOREM PoolCorrect == DbSpec => []PoolSound
  <1>1. PoolInv => PoolSound
    BY PointToPool DEF PoolInv
  <1> QED BY <1>1, PoolInvariance, PTL

(* Until two transactions race, the flag is up exactly while one thread is *)
(* inside a transaction.                                                   *)
THEOREM FlagCorrect == DbSpec => []FlagTrue
  BY PoolInvariance, PTL DEF PoolInv

-----------------------------------------------------------------------------
(* Every step of the DAOs is a step of the Database, or none of its        *)
(* business.                                                               *)
LEMMA StepIsDbStep == [Next]_vars => [DbNext]_dbVars
  <1> SUFFICES ASSUME [Next]_vars PROVE [DbNext]_dbVars
    OBVIOUS
  <1>1. CASE UNCHANGED vars
    BY <1>1 DEF vars
  <1>2. CASE StartOrStop
    BY <1>2 DEF StartOrStop, DbNext
  <1>3. ASSUME NEW t \in Thread, Step(t) PROVE [DbNext]_dbVars
    <2> USE <1>3 DEF DbNext
    <2>1. CASE \/ \E j \in Calls : Call(t, j)
               \/ QueryWithoutConnection(t)
      BY <2>1 DEF Call, QueryWithoutConnection
    <2>2. CASE StartQuery(t) \/ FailQuery(t) \/ Read(t) \/ Write(t)
      BY <2>2 DEF StartQuery, FailQuery, Read, Write
    <2>3. CASE TryBegin(t) \/ BeginGet(t) \/ BeginSucceeds(t) \/ BeginRefused(t)
      BY <2>3 DEF TryBegin, BeginGet, BeginSucceeds, BeginRefused
    <2>4. CASE \/ EndTransaction(t) \/ EndTransactionFails(t)
               \/ EndWithoutTransaction(t) \/ EndReturns(t)
      BY <2>4 DEF EndTransaction, EndTransactionFails, EndWithoutTransaction, EndReturns
    <2> QED BY <2>1, <2>2, <2>3, <2>4 DEF Step
  <1> QED BY <1>1, <1>2, <1>3 DEF Next

(* Whatever the controllers and the DAOs do, they use the Database as its  *)
(* own specification says.                                                 *)
THEOREM ImplementsDatabase == Spec => DbSpec
  <1>1. Init => DbInit
    BY DEF Init
  <1> QED BY <1>1, StepIsDbStep, PTL DEF Spec, DbSpec

-----------------------------------------------------------------------------
(* Where the calls are.                                                    *)

\* A call's place fits its kind, the operations it has marked and the step
\* of the Database its thread is in.
JobFits(t) ==
  /\ step[t] = "running" => job[t] # None /\ job[t].at \in {"read", "write"}
  /\ step[t] \in {"begin", "exec"} => job[t] # None /\ job[t].at = "begin"
  /\ step[t] = "end" => job[t] # None /\ job[t].at \in {"commit", "rollback"}
  /\ job[t] # None =>
       /\ job[t].done <= Len(job[t].ids)
       /\ job[t].at \in {"begin", "commit", "rollback"} => job[t].kind = "mark"
       /\ job[t].at = "read" => job[t].kind = "update"
       /\ job[t].at \in {"begin", "write"} /\ job[t].kind = "mark" =>
            job[t].done < Len(job[t].ids)
       /\ job[t].at = "commit" => job[t].done = Len(job[t].ids)

JobsInv ==
  /\ job \in [Thread -> JobRecord \cup {None}]
  /\ \A t \in Thread : JobFits(t)
  /\ calls \in 0..MaxCalls

(* A step that changes one thread's step and job keeps the invariant if    *)
(* they fit each other.                                                    *)
LEMMA OneJobChanges ==
  ASSUME JobsInv, NEW t \in Thread,
         \A s \in Thread \ {t} : step'[s] = step[s],
         NEW j \in JobRecord \cup {None}, job' = [job EXCEPT ![t] = j],
         calls' \in 0..MaxCalls, JobFits(t)'
  PROVE  JobsInv'
  <1>1. \A s \in Thread \ {t} : JobFits(s)'
    BY DEF JobsInv, JobFits
  <1> QED BY <1>1 DEF JobsInv

(* Starting a call.                                                        *)
LEMMA CallJobs ==
  ASSUME JobsInv, NEW t \in Thread, NEW j \in Calls, Call(t, j)
  PROVE  JobsInv'
  <1>1. /\ j \in JobRecord /\ j.done = 0
        /\ \/ j.kind \in {"create", "delete", "restore", "purge"} /\ j.at = "write"
           \/ j.kind = "update" /\ j.at = "read"
           \/ j.kind = "mark" /\ j.at = "begin" /\ Len(j.ids) = 2
        /\ Len(j.ids) >= 0
    <2> USE DEF Job, JobRecord, NoRow, Row
    <2>1. CASE \E k \in {"create", "delete", "restore", "purge"} : j = Job(k, "write", <<>>)
      BY <2>1
    <2>2. CASE j = Job("update", "read", <<>>)
      BY <2>2
    <2>3. ASSUME NEW a \in OpId, NEW b \in OpId, j = Job("mark", "begin", <<a, b>>)
          PROVE  /\ j \in JobRecord /\ j.done = 0
                 /\ j.kind = "mark" /\ j.at = "begin" /\ Len(j.ids) = 2
      <3>1. <<a, b>> \in Seq(OpId) /\ Len(<<a, b>>) = 2
        OBVIOUS
      <3> QED BY <2>3, <3>1
    <2> QED BY <2>1, <2>2, <2>3 DEF Calls
  <1>2. step' = step /\ job[t] = None /\ job' = [job EXCEPT ![t] = j] /\ calls' \in 0..MaxCalls
    BY StorageAssumption DEF Call, JobsInv, dbVars
  <1>3. step[t] \notin {"running", "begin", "exec", "end"}
    BY <1>2 DEF JobsInv, JobFits
  <1>4. job'[t] = j
    BY <1>2 DEF JobsInv
  <1>5. JobFits(t)'
    BY <1>1, <1>2, <1>3, <1>4 DEF JobFits
  <1> QED BY <1>1, <1>2, <1>5, OneJobChanges

(* A call ends, and its thread is out of the Database.                     *)
LEMMA CallEnds ==
  ASSUME JobsInv, NEW t \in Thread, job[t] # None, Finish(t), calls' = calls,
         \A s \in Thread \ {t} : step'[s] = step[s], step'[t] = "idle"
  PROVE  JobsInv'
  <1>1. job' = [job EXCEPT ![t] = None] /\ job'[t] = None
    BY DEF Finish, JobsInv
  <1>2. JobFits(t)'
    BY <1>1 DEF JobFits
  <1>3. calls' \in 0..MaxCalls
    BY DEF JobsInv
  <1> QED BY <1>1, <1>2, <1>3, OneJobChanges

(* A call stays where it is, and its thread goes on in the Database.       *)
LEMMA StepMoves ==
  ASSUME JobsInv, NEW t \in Thread, job[t] # None, job' = job, calls' = calls,
         \A s \in Thread \ {t} : step'[s] = step[s],
         step'[t] = "running" => job[t].at \in {"read", "write"},
         step'[t] \in {"begin", "exec"} => job[t].at = "begin",
         step'[t] = "end" => job[t].at \in {"commit", "rollback"}
  PROVE  JobsInv'
  <1>1. job[t] \in JobRecord \cup {None} /\ job' = [job EXCEPT ![t] = job[t]]
    BY DEF JobsInv
  <1>2. JobFits(t)'
    BY DEF JobFits, JobsInv
  <1>3. calls' \in 0..MaxCalls
    BY DEF JobsInv
  <1> QED BY <1>1, <1>2, <1>3, OneJobChanges

(* A batch goes to another place.                                          *)
LEMMA PlaceMoves ==
  ASSUME JobsInv, NEW t \in Thread, job[t] # None, calls' = calls,
         NEW place \in {"write", "rollback"}, At(t, place), job[t].kind = "mark",
         place = "write" => job[t].at = "begin",
         \A s \in Thread \ {t} : step'[s] = step[s],
         step'[t] = "idle" \/ (step'[t] = "end" /\ place = "rollback")
  PROVE  JobsInv'
  <1> DEFINE j == [job[t] EXCEPT !.at = place]
  <1>0. job[t] \in JobRecord /\ JobFits(t)
    BY DEF JobsInv
  <1>1. /\ j \in JobRecord /\ j.at = place /\ j.kind = job[t].kind /\ j.ids = job[t].ids
        /\ j.done = job[t].done
    BY <1>0 DEF JobRecord
  <1>2. job' = [job EXCEPT ![t] = j] /\ job'[t] = j
    BY DEF At, JobsInv
  <1> HIDE DEF j
  <1>3. JobFits(t)'
    BY <1>0, <1>1, <1>2, StorageAssumption DEF JobFits
  <1>4. calls' \in 0..MaxCalls
    BY DEF JobsInv
  <1> QED BY <1>1, <1>2, <1>3, <1>4, OneJobChanges

(* A read or a write fails.                                                *)
LEMMA FailureJobs ==
  ASSUME JobsInv, NEW t \in Thread, job[t] # None, calls' = calls,
         ReadFailed(t) \/ WriteFailed(t),
         \A s \in Thread \ {t} : step'[s] = step[s], step'[t] = "idle"
  PROVE  JobsInv'
  <1>1. CASE ReadFailed(t)
    <2> DEFINE j == [job[t] EXCEPT !.at = "write", !.row = NoRow]
    <2>1. job[t] \in JobRecord /\ JobFits(t) /\ calls' \in 0..MaxCalls
      BY DEF JobsInv
    <2>2. /\ j \in JobRecord /\ j.at = "write" /\ j.kind = job[t].kind /\ j.ids = job[t].ids
          /\ j.done = job[t].done
      BY <2>1 DEF JobRecord, NoRow, Row
    <2>3. job' = [job EXCEPT ![t] = j] /\ job'[t] = j /\ job[t].at = "read"
      BY <1>1 DEF ReadFailed, JobsInv
    <2> HIDE DEF j
    <2>4. JobFits(t)'
      BY <2>1, <2>2, <2>3 DEF JobFits
    <2> QED BY <2>1, <2>2, <2>3, <2>4, OneJobChanges
  <1>2. CASE WriteFailed(t)
    <2>1. CASE job[t].kind = "mark"
      BY <1>2, <2>1, PlaceMoves DEF WriteFailed
    <2>2. CASE job[t].kind # "mark"
      BY <1>2, <2>2, CallEnds DEF WriteFailed
    <2> QED BY <2>1, <2>2
  <1> QED BY <1>1, <1>2

(* A read has given a row.                                                 *)
LEMMA ReadJobs ==
  ASSUME JobsInv, NEW t \in Thread, job[t] # None, job[t].at = "read", calls' = calls,
         NEW row \in Row, job' = [job EXCEPT ![t].at = "write", ![t].row = row],
         \A s \in Thread \ {t} : step'[s] = step[s], step'[t] = "idle"
  PROVE  JobsInv'
  <1> DEFINE j == [job[t] EXCEPT !.at = "write", !.row = row]
  <1>1. job[t] \in JobRecord /\ JobFits(t) /\ calls' \in 0..MaxCalls
    BY DEF JobsInv
  <1>2. /\ j \in JobRecord /\ j.at = "write" /\ j.kind = job[t].kind /\ j.ids = job[t].ids
        /\ j.done = job[t].done
    BY <1>1 DEF JobRecord
  <1>3. job' = [job EXCEPT ![t] = j] /\ job'[t] = j
    BY DEF JobsInv
  <1> HIDE DEF j
  <1>4. JobFits(t)'
    BY <1>1, <1>2, <1>3 DEF JobFits
  <1> QED BY <1>1, <1>2, <1>3, <1>4, OneJobChanges

(* A write is done.                                                        *)
LEMMA WriteJobs ==
  ASSUME JobsInv, NEW t \in Thread, job[t] # None, job[t].at = "write", calls' = calls,
         AfterWrite(t),
         \A s \in Thread \ {t} : step'[s] = step[s], step'[t] = "idle"
  PROVE  JobsInv'
  <1>1. CASE job[t].kind # "mark"
    BY <1>1, CallEnds DEF AfterWrite
  <1>2. CASE job[t].kind = "mark"
    <2> DEFINE place == IF job[t].done + 1 = Len(job[t].ids) THEN "commit" ELSE "write"
               j == [job[t] EXCEPT !.done = @ + 1, !.at = place]
    <2>1. /\ job[t] \in JobRecord /\ JobFits(t) /\ calls' \in 0..MaxCalls
          /\ job[t].done \in Nat /\ Len(job[t].ids) \in Nat /\ job[t].done < Len(job[t].ids)
      BY <1>2 DEF JobsInv, JobFits, JobRecord
    <2>2. /\ j \in JobRecord /\ j.at = place /\ j.kind = "mark" /\ j.ids = job[t].ids
          /\ j.done = job[t].done + 1
      <3>1. place \in {"commit", "write"}
        OBVIOUS
      <3> HIDE DEF place
      <3>2. PICK n \in Nat : n = job[t].done + 1
        BY <2>1
      <3>3. j = [job[t] EXCEPT !.done = n, !.at = place]
        BY <2>1, <3>2 DEF JobRecord
      <3> HIDE DEF j
      <3> QED BY <1>2, <2>1, <3>1, <3>2, <3>3 DEF JobRecord
    <2>3. job' = [job EXCEPT ![t] = j] /\ job'[t] = j
      BY <1>2 DEF AfterWrite, JobsInv
    <2> HIDE DEF j
    <2>4. JobFits(t)'
      BY <2>1, <2>2, <2>3 DEF JobFits
    <2> QED BY <2>1, <2>2, <2>3, <2>4, OneJobChanges
  <1> QED BY <1>1, <1>2

-----------------------------------------------------------------------------
(* What is stored.                                                         *)

TablesInv ==
  /\ tables \in Tables
  /\ unsaved \in [Conn -> Tables \cup {None}]
  /\ \A c \in Conn : unsaved[c] # None => c \in begun
  /\ \A c, d \in Conn : unsaved[c] # None /\ unsaved[d] # None => c = d
  /\ acked \in [updates : Nat, deleted : BOOLEAN, marked : SUBSET OpId]
  /\ disturbed \subseteq {"stale", "stray"}

(* A write makes tables of tables; only marking adds to the marked ones,   *)
(* and nothing takes away from them.                                       *)
LEMMA WrittenType ==
  ASSUME NEW tbl \in Tables, NEW j \in JobRecord,
         j.kind = "mark" => j.done < Len(j.ids)
  PROVE  /\ Written(tbl, j) \in Tables
         /\ j.kind # "mark" => Written(tbl, j).marked = tbl.marked
         /\ j.kind = "mark" => /\ j.ids[j.done + 1] \in OpId
                               /\ Written(tbl, j).marked = tbl.marked \cup {j.ids[j.done + 1]}
                               /\ Written(tbl, j).row = tbl.row
  <1> USE DEF Tables, Row, NoRow
  <1>0. tbl.row \in Row /\ j.row \in Row /\ tbl.marked \subseteq OpId
    BY DEF JobRecord
  <1>1. CASE j.kind = "create"
    BY <1>1 DEF Written, CreateDocument
  <1>2. CASE j.kind = "update"
    <2>1. [j.row EXCEPT !.exists = TRUE, !.version = j.row.version + 1] \in Row
      <3>1. \A r \in Row, n \in Nat : [r EXCEPT !.exists = TRUE, !.version = n] \in Row
        OBVIOUS
      <3>2. j.row.version + 1 \in Nat
        BY <1>0
      <3> HIDE DEF Row
      <3> QED BY <1>0, <3>1, <3>2
    <2> QED BY <1>2, <2>1 DEF Written, UpdateDocument
  <1>3. CASE j.kind = "delete"
    BY <1>0, <1>3 DEF Written, DeleteDocument
  <1>4. CASE j.kind = "restore"
    BY <1>0, <1>4 DEF Written, RestoreDocument
  <1>5. CASE j.kind = "purge"
    BY <1>5 DEF Written, PermanentlyDeleteDocument
  <1>6. CASE j.kind = "mark"
    <2>1. j.ids \in Seq(OpId) /\ j.done \in Nat /\ Len(j.ids) \in Nat
      BY DEF JobRecord
    <2>2. j.done + 1 \in 1..Len(j.ids)
      BY <1>6, <2>1
    <2>3. j.ids[j.done + 1] \in OpId
      BY <2>1, <2>2
    <2> QED BY <1>0, <1>6, <2>3 DEF Written, MarkOperationApplied
  <1> QED BY <1>1, <1>2, <1>3, <1>4, <1>5, <1>6 DEF JobRecord

(* A step that leaves what is written alone, or lets transactions end,     *)
(* keeps the types.                                                        *)
LEMMA TablesKept ==
  ASSUME TablesInv, KeepOpen \/ (unsaved' = unsaved /\ begun \subseteq begun'),
         tables' = tables, acked' \in [updates : Nat, deleted : BOOLEAN, marked : SUBSET OpId],
         disturbed' \subseteq {"stale", "stray"}
  PROVE  TablesInv'
  BY DEF TablesInv, KeepOpen

(* A write keeps them.                                                     *)
LEMMA WriteTables ==
  ASSUME TablesInv, JobsInv, DbTypeOK, NEW t \in Thread, Write(t)
  PROVE  TablesInv'
  <1> DEFINE c == held[t]   before == View(c)   after == Written(before, job[t])
  <1>1. c \in Conn /\ job[t] \in JobRecord /\ JobFits(t) /\ job[t] # None
    BY DatabaseAssumption DEF Write, EndStatement, DbTypeOK, JobsInv
  <1>2. before \in Tables
    BY <1>1 DEF View, TablesInv
  <1>3. after \in Tables
    <2>1. job[t].kind = "mark" => job[t].done < Len(job[t].ids)
      BY <1>1 DEF Write, JobFits
    <2> QED BY <1>1, <1>2, <2>1, WrittenType
  <1>4. acked' \in [updates : Nat, deleted : BOOLEAN, marked : SUBSET OpId]
    <2>1. acked' = Acknowledged(before, job[t])
      BY DEF Write
    <2>2. before.row.exists \in BOOLEAN
      BY <1>2 DEF Tables, Row
    <2>3. acked.updates + 1 \in Nat /\ 0 \in Nat /\ acked.marked \subseteq OpId
      BY DEF TablesInv
    <2>4. acked \in [updates : Nat, deleted : BOOLEAN, marked : SUBSET OpId]
      BY DEF TablesInv
    <2> HIDE DEF before
    <2>5. CASE job[t].kind = "update"
      <3>1. acked' = [acked EXCEPT !.updates = acked.updates + 1]
        BY <2>1, <2>4, <2>5 DEF Acknowledged
      <3> QED BY <2>3, <2>4, <3>1
    <2>6. CASE job[t].kind # "update"
      BY <1>1, <2>1, <2>2, <2>3, <2>4, <2>6 DEF Acknowledged, JobRecord
    <2> QED BY <2>5, <2>6
  <1>5. disturbed' \subseteq {"stale", "stray"}
    BY DEF Write, TablesInv
  <1>6. CASE c \in begun'
    <2>1. unsaved' = [unsaved EXCEPT ![c] = after] /\ tables' = tables
          /\ \A d \in Conn \ {c} : unsaved[d] = None
      BY <1>6 DEF Write
    <2> HIDE DEF after, before, c
    <2> QED BY <1>1, <1>3, <1>4, <1>5, <1>6, <2>1 DEF TablesInv
  <1>7. CASE c \notin begun'
    <2>1. tables' = after /\ KeepOpen
      BY <1>7 DEF Write
    <2> HIDE DEF after, before, c
    <2> QED BY <1>3, <1>4, <1>5, <2>1 DEF TablesInv, KeepOpen
  <1> QED BY <1>6, <1>7

-----------------------------------------------------------------------------
(* Every step keeps both.                                                  *)
StoreInv == PoolInv /\ JobsInv /\ TablesInv

LEMMA QueryStore ==
  ASSUME StoreInv, NEW t \in Thread,
         \/ StartQuery(t) \/ QueryWithoutConnection(t) \/ FailQuery(t) \/ Read(t) \/ Write(t)
  PROVE  JobsInv' /\ TablesInv'
  <1> USE DEF StoreInv, data
  <1>0. /\ step \in [Thread -> {"idle", "running", "begin", "exec", "end"}]
        /\ TablesInv /\ JobsInv /\ DbTypeOK
    BY DEF PoolInv, DbTypeOK
  <1>1. acked \in [updates : Nat, deleted : BOOLEAN, marked : SUBSET OpId]
    BY DEF TablesInv
  <1>2. CASE StartQuery(t)
    <2>1. JobsInv'
      BY <1>0, <1>2, StepMoves DEF StartQuery, StartStatement, Go
    <2>2. TablesInv'
      BY <1>1, <1>2, TablesKept DEF StartQuery, StartStatement, begins, TablesInv
    <2> QED BY <2>1, <2>2
  <1>3. CASE QueryWithoutConnection(t)
    <2>1. JobsInv'
      BY <1>0, <1>3, FailureJobs DEF QueryWithoutConnection, dbVars
    <2>2. TablesInv'
      BY <1>1, <1>3, TablesKept DEF QueryWithoutConnection, dbVars, begins, TablesInv
    <2> QED BY <2>1, <2>2
  <1>4. CASE FailQuery(t)
    <2>1. JobsInv'
      BY <1>0, <1>4, FailureJobs DEF FailQuery, EndStatement, Go
    <2>2. TablesInv'
      BY <1>1, <1>4, TablesKept DEF FailQuery, TablesInv
    <2> QED BY <2>1, <2>2
  <1>5. CASE Read(t)
    <2>1. held[t] \in Conn
      BY <1>5, DatabaseAssumption DEF Read, EndStatement, PoolInv, DbTypeOK
    <2>2. View(held[t]).row \in Row
      BY <2>1 DEF View, TablesInv, Tables
    <2>3. JobsInv'
      BY <1>0, <1>5, <2>2, ReadJobs DEF Read, EndStatement, Go
    <2>4. TablesInv'
      BY <1>1, <1>5, TablesKept DEF Read, TablesInv
    <2> QED BY <2>3, <2>4
  <1>6. CASE Write(t)
    <2>1. JobsInv'
      BY <1>0, <1>6, WriteJobs DEF Write, EndStatement, Go
    <2> QED BY <1>0, <1>6, <2>1, WriteTables
  <1> QED BY <1>2, <1>3, <1>4, <1>5, <1>6

LEMMA BeginStore ==
  ASSUME StoreInv, NEW t \in Thread,
         TryBegin(t) \/ BeginGet(t) \/ BeginSucceeds(t) \/ BeginRefused(t)
  PROVE  JobsInv' /\ TablesInv'
  <1> USE DEF StoreInv, data, Go
  <1>0. /\ step \in [Thread -> {"idle", "running", "begin", "exec", "end"}]
        /\ TablesInv /\ JobsInv /\ JobFits(t)
    BY DEF PoolInv, DbTypeOK, JobsInv
  <1>1. acked \in [updates : Nat, deleted : BOOLEAN, marked : SUBSET OpId]
    BY DEF TablesInv
  <1>2. CASE TryBegin(t)
    <2>1. JobsInv'
      <3>1. CASE inTransaction
        BY <1>0, <1>2, <3>1, CallEnds DEF TryBegin, dbVars
      <3>2. CASE ~inTransaction
        BY <1>0, <1>2, <3>2, StepMoves DEF TryBegin, BeginTest
      <3> QED BY <3>1, <3>2
    <2>2. begun' = begun
      BY <1>2 DEF TryBegin, BeginTest, dbVars, begins
    <2>3. TablesInv'
      BY <1>1, <1>2, <2>2, TablesKept DEF TryBegin, TablesInv
    <2> QED BY <2>1, <2>3
  <1>3. CASE BeginGet(t)
    <2>1. JobsInv'
      BY <1>0, <1>3, StepMoves DEF BeginGet, BeginGetConnection, JobFits
    <2>2. TablesInv'
      BY <1>1, <1>3, TablesKept DEF BeginGet, BeginGetConnection, begins, TablesInv
    <2> QED BY <2>1, <2>2
  <1>4. CASE BeginSucceeds(t)
    <2>1. JobsInv'
      BY <1>0, <1>4, PlaceMoves DEF BeginSucceeds, BeginExec, JobFits
    <2>2. TablesInv'
      BY <1>1, <1>4, TablesKept DEF BeginSucceeds, BeginExec, TablesInv
    <2> QED BY <2>1, <2>2
  <1>5. CASE BeginRefused(t)
    <2>1. JobsInv'
      BY <1>0, <1>5, CallEnds DEF BeginRefused, BeginNoConnection, BeginFails, JobFits
    <2>2. TablesInv'
      BY <1>1, <1>5, TablesKept DEF BeginRefused, TablesInv
    <2> QED BY <2>1, <2>2
  <1> QED BY <1>2, <1>3, <1>4, <1>5

LEMMA EndStore ==
  ASSUME StoreInv, NEW t \in Thread,
         \/ EndTransaction(t) \/ EndTransactionFails(t)
         \/ EndWithoutTransaction(t) \/ EndReturns(t)
  PROVE  JobsInv' /\ TablesInv'
  <1> USE DEF StoreInv, data, Go
  <1>0. /\ step \in [Thread -> {"idle", "running", "begin", "exec", "end"}]
        /\ TablesInv /\ JobsInv /\ JobFits(t)
    BY DEF PoolInv, DbTypeOK, JobsInv
  <1>1. acked \in [updates : Nat, deleted : BOOLEAN, marked : SUBSET OpId]
    BY DEF TablesInv
  <1>2. CASE EndTransaction(t)
    <2>1. JobsInv'
      BY <1>0, <1>2, StepMoves DEF EndTransaction, EndExec
    <2>2. transactionConn \in Conn
      BY <1>2 DEF EndTransaction, EndExec, PoolInv, DbTypeOK
    <2>3. tables' \in Tables
      BY <1>2, <2>2 DEF EndTransaction, View, TablesInv
    <2>4. TablesInv'
      BY <1>2, <2>3 DEF EndTransaction, KeepOpen, TablesInv
    <2> QED BY <2>1, <2>4
  <1>3. CASE EndTransactionFails(t)
    <2>1. JobsInv'
      BY <1>0, <1>3, PlaceMoves DEF EndTransactionFails, EndFails, JobFits
    <2>2. TablesInv'
      BY <1>1, <1>3, TablesKept DEF EndTransactionFails, TablesInv
    <2> QED BY <2>1, <2>2
  <1>4. CASE EndWithoutTransaction(t)
    <2>1. JobsInv'
      BY <1>0, <1>4, CallEnds DEF EndWithoutTransaction, EndRefused
    <2>2. TablesInv'
      BY <1>1, <1>4, TablesKept DEF EndWithoutTransaction, EndRefused, begins, TablesInv
    <2> QED BY <2>1, <2>2
  <1>5. CASE EndReturns(t)
    <2>1. JobsInv'
      BY <1>0, <1>5, CallEnds DEF EndReturns, EndRelease, JobFits
    <2>2. acked' \in [updates : Nat, deleted : BOOLEAN, marked : SUBSET OpId]
      <3>1. job[t] \in JobRecord
        BY <1>0, <1>5 DEF EndReturns, EndRelease, JobFits, JobsInv
      <3>2. {job[t].ids[i] : i \in 1..Len(job[t].ids)} \subseteq OpId
        BY <3>1 DEF JobRecord
      <3> QED BY <1>1, <1>5, <3>2 DEF EndReturns
    <2>3. TablesInv'
      BY <1>5, <2>2, TablesKept DEF EndReturns, TablesInv
    <2> QED BY <2>1, <2>3
  <1> QED BY <1>2, <1>3, <1>4, <1>5

LEMMA StoreInvariance == Spec => []StoreInv
  <1>1. Init => JobsInv /\ TablesInv
    <2> SUFFICES ASSUME Init PROVE JobsInv /\ TablesInv
      OBVIOUS
    <2>1. NoRow \in Row /\ [NoRow EXCEPT !.exists = TRUE] \in Row
      BY DEF NoRow, Row
    <2>2. tables \in Tables
      <3>1. PICK row \in Row : tables = [row |-> row, marked |-> {}]
        BY <2>1 DEF Init
      <3> QED BY <3>1 DEF Tables
    <2>3. TablesInv
      BY <2>2 DEF Init, TablesInv
    <2>4. JobsInv
      BY StorageAssumption DEF Init, DbInit, JobsInv, JobFits
    <2> QED BY <2>3, <2>4
  <1>2. StoreInv /\ [Next]_vars => JobsInv' /\ TablesInv'
    <2> SUFFICES ASSUME StoreInv, [Next]_vars PROVE JobsInv' /\ TablesInv'
      OBVIOUS
    <2>1. CASE UNCHANGED vars
      BY <2>1 DEF vars, dbVars, begins, data, StoreInv, JobsInv, JobFits, TablesInv
    <2>2. CASE StartOrStop
      <3>1. step' = step /\ job' = job /\ calls' = calls
        BY <2>2 DEF StartOrStop, Initialize, OpenFails, SchemaFails, Shutdown
      <3>2. JobsInv'
        BY <3>1 DEF StoreInv, JobsInv, JobFits
      <3>3. TablesInv'
        BY <2>2 DEF StartOrStop, StoreInv, TablesInv, KeepOpen
      <3> QED BY <3>2, <3>3
    <2>3. ASSUME NEW t \in Thread, NEW j \in Calls, Call(t, j) PROVE JobsInv' /\ TablesInv'
      <3>1. JobsInv'
        BY <2>3, CallJobs DEF StoreInv
      <3>2. TablesInv'
        BY <2>3 DEF Call, dbVars, begins, data, StoreInv, TablesInv
      <3> QED BY <3>1, <3>2
    <2>4. ASSUME NEW t \in Thread, Step(t) PROVE JobsInv' /\ TablesInv'
      BY <2>3, <2>4, QueryStore, BeginStore, EndStore DEF Step
    <2> QED BY <2>1, <2>2, <2>4 DEF Next
  <1>3. Spec => []PoolInv
    BY ImplementsDatabase, PoolInvariance, PTL
  <1> QED BY <1>1, <1>2, <1>3, PTL DEF Spec, StoreInv

-----------------------------------------------------------------------------
(* Outside "stray" nothing is written inside a transaction, so every write *)
(* is committed at once; with nothing "stale" either, every update wrote   *)
(* the row it had read.  raced plays no part.                              *)

\* Every operation of a call that has been marked is marked in the tables.
DoneMarked ==
  \A t \in Thread : job[t] # None =>
    \A i \in 1..job[t].done : job[t].ids[i] \in tables.marked

StoredInv ==
  /\ "stray" \notin disturbed => /\ \A c \in Conn : unsaved[c] = None
                                 /\ DoneMarked
                                 /\ MarksStored
  /\ UpdatesCounted

(* A call that starts or ends, or a step that leaves the tables alone,     *)
(* keeps it.                                                               *)
LEMMA StoredKept ==
  ASSUME StoredInv, StoreInv, JobsInv', TablesInv',
         tables' = tables, acked' = acked, disturbed' = disturbed,
         KeepOpen \/ unsaved' = unsaved,
         NEW t \in Thread,
         \A s \in Thread \ {t} : job'[s] = job[s],
         \/ job'[t] = None \/ job'[t].done = 0
         \/ job[t] # None /\ job'[t].ids = job[t].ids /\ job'[t].done = job[t].done
  PROVE  StoredInv'
  <1> USE DEF StoredInv, StoreInv, JobsInv, TablesInv
  <1>1. UpdatesCounted'
    BY DEF UpdatesCounted
  <1>2. ASSUME "stray" \notin disturbed PROVE DoneMarked'
    BY <1>2 DEF DoneMarked
  <1>3. ASSUME "stray" \notin disturbed PROVE \A c \in Conn : unsaved'[c] = None
    BY <1>3 DEF KeepOpen
  <1> QED BY <1>1, <1>2, <1>3 DEF MarksStored

(* A write outside "stray" goes to the tables.                             *)
LEMMA WriteIsCommitted ==
  ASSUME StoredInv, StoreInv, NEW t \in Thread, Write(t), "stray" \notin disturbed'
  PROVE  /\ "stray" \notin disturbed
         /\ View(held[t]) = tables
         /\ tables' = Written(tables, job[t])
         /\ \A c \in Conn : unsaved'[c] = None
  <1> USE DEF StoredInv, StoreInv
  <1>1. /\ held[t] \in Conn /\ "stray" \notin disturbed /\ held[t] \notin begun
        /\ begun' \subseteq begun
    BY DatabaseAssumption DEF Write, EndStatement, KeepBegun, PoolInv, DbTypeOK
  <1>2. View(held[t]) = tables
    BY <1>1 DEF View
  <1>3. tables' = Written(tables, job[t]) /\ KeepOpen
    BY <1>1, <1>2 DEF Write
  <1> QED BY <1>1, <1>2, <1>3 DEF KeepOpen

LEMMA WriteStored ==
  ASSUME StoredInv, StoreInv, JobsInv', TablesInv', NEW t \in Thread, Write(t)
  PROVE  StoredInv'
  <1> DEFINE j == job[t]
  <1>0. /\ j \in JobRecord /\ JobFits(t) /\ j # None /\ j.at = "write" /\ tables \in Tables
        /\ tables.row \in Row /\ j.row \in Row
        /\ j.kind = "mark" => j.done < Len(j.ids)
    BY DEF Write, StoreInv, JobsInv, JobFits, TablesInv, JobRecord, Tables
  <1>1. /\ Written(tables, j) \in Tables
        /\ j.kind # "mark" => Written(tables, j).marked = tables.marked
        /\ j.kind = "mark" =>
             /\ Written(tables, j).marked = tables.marked \cup {j.ids[j.done + 1]}
             /\ Written(tables, j).row = tables.row
    BY <1>0, WrittenType
  <1>2. acked'.marked = acked.marked
    BY DEF Write, Acknowledged, StoreInv, TablesInv
  <1>3. ASSUME "stray" \notin disturbed'
        PROVE  (\A c \in Conn : unsaved'[c] = None) /\ DoneMarked' /\ MarksStored'
    <2>1. /\ tables' = Written(tables, j) /\ "stray" \notin disturbed
          /\ \A c \in Conn : unsaved'[c] = None
      BY <1>3, WriteIsCommitted
    <2>2. tables.marked \subseteq tables'.marked
      BY <1>1, <2>1
    <2>3. MarksStored'
      BY <1>2, <2>1, <2>2 DEF StoredInv, MarksStored
    <2>4. \A s \in Thread \ {t} : job'[s] = job[s]
      BY DEF Write, AfterWrite, Finish, StoreInv, JobsInv
    <2>5. ASSUME job'[t] # None, NEW i \in 1..job'[t].done
          PROVE  job'[t].ids[i] \in tables'.marked
      <3>1. j.kind = "mark" /\ job'[t].ids = j.ids /\ job'[t].done = j.done + 1
        BY <1>0, <2>5 DEF Write, AfterWrite, Finish, StoreInv, JobsInv, JobRecord
      <3>2. CASE i = j.done + 1
        BY <1>1, <2>1, <3>1, <3>2
      <3>3. CASE i # j.done + 1
        <4>1. i \in 1..j.done
          BY <1>0, <3>1, <3>3 DEF JobRecord
        <4> QED BY <1>0, <2>1, <2>2, <3>1, <4>1 DEF StoredInv, DoneMarked
      <3> QED BY <3>2, <3>3
    <2>6. DoneMarked'
      BY <2>1, <2>2, <2>4, <2>5 DEF StoredInv, DoneMarked
    <2> QED BY <2>1, <2>3, <2>6
  <1>4. UpdatesCounted'
    <2> SUFFICES ASSUME disturbed' = {}
                 PROVE  /\ tables'.row.exists => tables'.row.version = acked'.updates
                        /\ acked'.deleted => tables'.row.deleted
      BY DEF UpdatesCounted
    <2>1. /\ tables' = Written(tables, j) /\ View(held[t]) = tables
      BY WriteIsCommitted
    <2>2. /\ disturbed = {} /\ acked' = Acknowledged(tables, j)
          /\ j.kind = "update" => tables.row = j.row
          /\ j.kind = "create" => ~tables.row.exists
      BY <2>1 DEF Write
    <2>3. /\ tables.row.exists => tables.row.version = acked.updates
          /\ acked.deleted => tables.row.deleted
      BY <2>2 DEF StoredInv, UpdatesCounted
    <2>4. acked \in [updates : Nat, deleted : BOOLEAN, marked : SUBSET OpId]
      BY DEF StoreInv, TablesInv
    <2> USE <1>0, <2>1, <2>2, <2>3, <2>4 DEF Written, Acknowledged, Tables, Row
    <2>5. CASE j.kind = "create"
      BY <2>5 DEF CreateDocument, NoRow
    <2>6. CASE j.kind = "update"
      BY <2>6 DEF UpdateDocument
    <2>7. CASE j.kind = "delete"
      BY <2>7 DEF DeleteDocument
    <2>8. CASE j.kind = "restore"
      BY <2>8 DEF RestoreDocument
    <2>9. CASE j.kind = "purge"
      BY <2>9 DEF PermanentlyDeleteDocument, NoRow
    <2>10. CASE j.kind = "mark"
      BY <1>1, <2>10
    <2> QED BY <2>5, <2>6, <2>7, <2>8, <2>9, <2>10 DEF JobRecord
  <1> QED BY <1>3, <1>4 DEF StoredInv

(* Ending a transaction commits nothing, as nothing was written in it.     *)
LEMMA EndStored ==
  ASSUME StoredInv, StoreInv, JobsInv', TablesInv', NEW t \in Thread,
         EndTransaction(t) \/ EndReturns(t)
  PROVE  StoredInv'
  <1> USE DEF StoredInv, StoreInv
  <1>1. CASE EndTransaction(t)
    <2>1. transactionConn \in Conn
      BY <1>1 DEF EndTransaction, EndExec, PoolInv, DbTypeOK
    <2>2. job' = job /\ acked' = acked /\ disturbed' = disturbed /\ KeepOpen
      BY <1>1 DEF EndTransaction
    <2>3. CASE "stray" \in disturbed
      BY <2>2, <2>3 DEF UpdatesCounted
    <2>4. CASE "stray" \notin disturbed
      <3>1. tables' = tables
        BY <1>1, <2>1, <2>4 DEF EndTransaction, View
      <3>2. job'[t] = None \/ (job[t] # None /\ job'[t].ids = job[t].ids
                                /\ job'[t].done = job[t].done)
        BY <2>2
      <3> QED BY <2>2, <3>1, <3>2, StoredKept
    <2> QED BY <2>3, <2>4
  <1>2. CASE EndReturns(t)
    <2>1. /\ tables' = tables /\ disturbed' = disturbed /\ KeepOpen
          /\ job' = [job EXCEPT ![t] = None]
          /\ acked'.updates = acked.updates /\ acked'.deleted = acked.deleted
          /\ acked'.marked = IF job[t].at = "commit"
                               THEN acked.marked \cup {job[t].ids[i] : i \in 1..Len(job[t].ids)}
                               ELSE acked.marked
      BY <1>2 DEF EndReturns, Finish, TablesInv
    <2>2. UpdatesCounted'
      BY <2>1 DEF UpdatesCounted
    <2>3. ASSUME "stray" \notin disturbed
          PROVE  (\A c \in Conn : unsaved'[c] = None) /\ DoneMarked' /\ MarksStored'
      <3>1. \A c \in Conn : unsaved'[c] = None
        BY <2>1, <2>3 DEF KeepOpen
      <3>2. DoneMarked'
        BY <2>1, <2>3 DEF DoneMarked, JobsInv
      <3>3. job[t] # None /\ JobFits(t)
        BY <1>2 DEF EndReturns, EndRelease, JobsInv, JobFits
      <3>4. job[t].at = "commit" => {job[t].ids[i] : i \in 1..Len(job[t].ids)} \subseteq tables.marked
        BY <2>3, <3>3 DEF JobFits, DoneMarked
      <3> QED BY <2>1, <2>3, <3>1, <3>2, <3>4 DEF MarksStored
    <2> QED BY <2>1, <2>2, <2>3
  <1> QED BY <1>1, <1>2

LEMMA StoredInvariance == Spec => []StoredInv
  <1>1. Init => StoredInv
    <2> SUFFICES ASSUME Init PROVE StoredInv
      OBVIOUS
    <2>1. PICK row \in {NoRow, [NoRow EXCEPT !.exists = TRUE]} :
            tables = [row |-> row, marked |-> {}]
      BY DEF Init
    <2>2. row.version = 0 /\ ~row.deleted
      BY DEF NoRow
    <2> QED BY <2>1, <2>2 DEF Init, StoredInv, DoneMarked, MarksStored, UpdatesCounted
  <1>2. StoredInv /\ StoreInv /\ StoreInv' /\ [Next]_vars => StoredInv'
    <2> SUFFICES ASSUME StoredInv, StoreInv, JobsInv', TablesInv', [Next]_vars
                 PROVE  StoredInv'
      BY DEF StoreInv
    <2> USE DEF data
    <2>0. job \in [Thread -> JobRecord \cup {None}]
      BY DEF StoreInv, JobsInv
    <2>1. CASE UNCHANGED vars
      BY <2>1 DEF vars, StoredInv, DoneMarked, MarksStored, UpdatesCounted
    <2>2. CASE StartOrStop
      <3>1. /\ job' = job /\ tables' = tables /\ acked' = acked /\ disturbed' = disturbed
            /\ KeepOpen
        BY <2>2 DEF StartOrStop
      <3> QED BY <3>1 DEF StoredInv, DoneMarked, MarksStored, UpdatesCounted, KeepOpen
    <2>3. ASSUME NEW t \in Thread, NEW j \in Calls, Call(t, j) PROVE StoredInv'
      <3>1. job'[t].done = 0
        BY <2>0, <2>3 DEF Call, Calls, Job
      <3>2. \A s \in Thread \ {t} : job'[s] = job[s]
        BY <2>0, <2>3 DEF Call
      <3> QED BY <2>3, <3>1, <3>2, StoredKept DEF Call
    <2>4. ASSUME NEW t \in Thread, EndTransaction(t) \/ EndReturns(t) \/ Write(t)
          PROVE  StoredInv'
      BY <2>4, EndStored, WriteStored
    <2>5. ASSUME NEW t \in Thread,
                 \/ StartQuery(t) \/ QueryWithoutConnection(t) \/ FailQuery(t) \/ Read(t)
                 \/ TryBegin(t) \/ BeginGet(t) \/ BeginSucceeds(t) \/ BeginRefused(t)
                 \/ EndTransactionFails(t) \/ EndWithoutTransaction(t)
          PROVE  StoredInv'
      <3>1. /\ tables' = tables /\ acked' = acked /\ disturbed' = disturbed
            /\ KeepOpen \/ unsaved' = unsaved
        BY <2>5 DEF StartQuery, QueryWithoutConnection, FailQuery, Read, TryBegin, BeginGet,
                    BeginSucceeds, BeginRefused, EndTransactionFails, EndWithoutTransaction
      <3>2. /\ \A s \in Thread \ {t} : job'[s] = job[s]
            /\ \/ job'[t] = None
               \/ job[t] # None /\ job'[t].ids = job[t].ids /\ job'[t].done = job[t].done
        <4>1. /\ job' = job \/ Finish(t) \/ At(t, "write") \/ At(t, "rollback")
                 \/ \E row : job' = [job EXCEPT ![t].at = "write", ![t].row = row]
              /\ job[t] # None
          <5>1. JobFits(t)
            BY DEF StoreInv, JobsInv
          <5> QED BY <2>5, <5>1
              DEF StartQuery, QueryWithoutConnection, FailQuery, Read, TryBegin, BeginGet,
                  BeginSucceeds, BeginRefused, EndTransactionFails, EndWithoutTransaction,
                  ReadFailed, WriteFailed, BeginGetConnection, BeginNoConnection, BeginExec,
                  BeginFails, JobFits
        <4> QED BY <2>0, <4>1 DEF Finish, At, JobRecord
      <3> QED BY <3>1, <3>2, StoredKept
    <2> QED BY <2>1, <2>2, <2>3, <2>4, <2>5 DEF Next, Step
  <1> QED BY <1>1, <1>2, StoreInvariance, PTL DEF Spec

(* markOperationsApplied reports only what is committed, unless a write    *)
(* went into a transaction open on its own connection.                     *)
THEOREM MarksCorrect == Spec => []MarksStored
  <1>1. StoredInv => MarksStored
    BY DEF StoredInv, MarksStored
  <1> QED BY <1>1, StoredInvariance, PTL

(* updateDocument and deleteDocument lose nothing but what an update       *)
(* overwrites that had changed since it was read, and what goes into a     *)
(* transaction left open.                                                  *)
THEOREM UpdatesCorrect == Spec => []UpdatesCounted
  <1>1. StoredInv => UpdatesCounted
    BY DEF StoredInv
  <1> QED BY <1>1, StoredInvariance, PTL

-----------------------------------------------------------------------------
(* Versions.  An update counts up the version of a row that a call has     *)
(* read, once, as it ends: no row, stored or read, has a higher version    *)
(* than the number of calls that have ended.                               *)

InProgress == {t \in Thread : job[t] # None}

RowsIn == {tables.row} \cup {unsaved[c].row : c \in {d \in Conn : unsaved[d] # None}}
                       \cup {job[t].row : t \in InProgress}

VersionsInv ==
  /\ IsFiniteSet(InProgress)
  /\ \A row \in RowsIn : row.version + Cardinality(InProgress) <= calls

(* Rows are rows.                                                          *)
LEMMA RowsType == StoreInv => RowsIn \subseteq Row
  BY DEF StoreInv, JobsInv, TablesInv, RowsIn, InProgress, Tables, JobRecord

(* A step keeps it if its rows were there before or are new, and no call   *)
(* starts.                                                                 *)
LEMMA NoVersionIsNew ==
  ASSUME VersionsInv, StoreInv, calls' = calls, InProgress' \subseteq InProgress,
         \A row \in RowsIn' : row \in RowsIn \/ row.version = 0
  PROVE  VersionsInv'
  <1>1. /\ IsFiniteSet(InProgress') /\ Cardinality(InProgress') <= Cardinality(InProgress)
        /\ Cardinality(InProgress') \in Nat /\ Cardinality(InProgress) \in Nat
    BY FS_Subset, FS_CardinalityType DEF VersionsInv
  <1>2. \A row \in RowsIn : row.version \in Nat
    BY RowsType DEF Row
  <1>3. tables.row \in RowsIn
    BY DEF RowsIn
  <1>4. calls \in Nat
    BY StorageAssumption DEF StoreInv, JobsInv
  <1>5. Cardinality(InProgress) <= calls
    BY <1>1, <1>2, <1>3, <1>4 DEF VersionsInv
  <1> QED BY <1>1, <1>2, <1>4, <1>5 DEF VersionsInv

(* A call that starts is counted, and has no row yet.                      *)
LEMMA CallVersions ==
  ASSUME VersionsInv, StoreInv, NEW t \in Thread, NEW j \in Calls, Call(t, j)
  PROVE  VersionsInv'
  <1>1. /\ job' = [job EXCEPT ![t] = j] /\ job[t] = None /\ j.row.version = 0
        /\ tables' = tables /\ unsaved' = unsaved /\ calls' = calls + 1
        /\ job \in [Thread -> JobRecord \cup {None}]
    BY DEF Call, Calls, Job, NoRow, data, StoreInv, JobsInv
  <1>2. InProgress' \subseteq InProgress \cup {t} /\ t \notin InProgress
    BY <1>1 DEF InProgress
  <1>3. /\ IsFiniteSet(InProgress \cup {t})
        /\ Cardinality(InProgress \cup {t}) = Cardinality(InProgress) + 1
    BY <1>2, FS_AddElement DEF VersionsInv
  <1>4. /\ IsFiniteSet(InProgress') /\ Cardinality(InProgress') <= Cardinality(InProgress) + 1
        /\ Cardinality(InProgress') \in Nat /\ Cardinality(InProgress) \in Nat
    BY <1>2, <1>3, FS_Subset, FS_CardinalityType DEF VersionsInv
  <1>5. \A row \in RowsIn' : row \in RowsIn \/ row.version = 0
    BY <1>1 DEF RowsIn, InProgress
  <1>6. /\ \A row \in RowsIn : row.version \in Nat
        /\ tables.row \in RowsIn /\ calls \in Nat
    BY RowsType, StorageAssumption DEF Row, RowsIn, StoreInv, JobsInv
  <1>7. Cardinality(InProgress) <= calls
    BY <1>4, <1>6 DEF VersionsInv
  <1> QED BY <1>1, <1>4, <1>5, <1>6, <1>7 DEF VersionsInv

(* A write counts one version up at most, and then ends its call.          *)
LEMMA WriteVersions ==
  ASSUME VersionsInv, StoreInv, NEW t \in Thread, Write(t)
  PROVE  VersionsInv'
  <1> DEFINE c == held[t]   j == job[t]   before == View(c)   after == Written(before, j)
  <1>1. /\ c \in Conn /\ j \in JobRecord /\ j # None /\ t \in InProgress /\ calls' = calls
        /\ before \in Tables /\ before.row \in RowsIn /\ j.row \in RowsIn
        /\ before.row \in Row /\ j.row \in Row
        /\ job \in [Thread -> JobRecord \cup {None}]
        /\ j.kind = "mark" => j.done < Len(j.ids)
    <2>1. c \in Conn /\ j \in JobRecord /\ j # None /\ JobFits(t) /\ j.at = "write"
      BY DatabaseAssumption DEF Write, EndStatement, StoreInv, PoolInv, DbTypeOK, JobsInv
    <2>2. before \in Tables /\ before.row \in RowsIn
      BY <2>1 DEF View, RowsIn, StoreInv, TablesInv
    <2>3. j.row \in RowsIn /\ t \in InProgress
      BY <2>1 DEF RowsIn, InProgress
    <2> QED BY <2>1, <2>2, <2>3, RowsType DEF Write, JobFits, StoreInv, JobsInv
  <1>2. /\ tables'.row \in {tables.row, after.row}
        /\ \A d \in Conn : unsaved'[d] # None =>
             unsaved'[d].row = after.row \/ (unsaved[d] # None /\ unsaved'[d] = unsaved[d])
    BY <1>1 DEF Write, KeepOpen, StoreInv, TablesInv
  <1>3. /\ \A s \in Thread \ {t} : job'[s] = job[s]
        /\ job'[t] # None => job'[t].row = j.row
        /\ j.kind # "mark" => job'[t] = None
    BY <1>1, StorageAssumption DEF Write, AfterWrite, Finish, JobRecord
  <1>4. \A row \in RowsIn' : row \in RowsIn \/ row = after.row
    BY <1>1, <1>2, <1>3 DEF RowsIn, InProgress
  <1>5. CASE j.kind = "mark"
    <2>1. after.row = before.row
      BY <1>1, <1>5, WrittenType
    <2>2. InProgress' \subseteq InProgress
      BY <1>1, <1>3 DEF InProgress
    <2> QED BY <1>1, <1>4, <2>1, <2>2, NoVersionIsNew
  <1>6. CASE j.kind # "mark"
    <2>1. InProgress' = InProgress \ {t}
      BY <1>1, <1>3, <1>6 DEF InProgress
    <2>2. /\ IsFiniteSet(InProgress') /\ Cardinality(InProgress') = Cardinality(InProgress) - 1
          /\ Cardinality(InProgress) \in Nat
      BY <1>1, <2>1, FS_RemoveElement, FS_CardinalityType DEF VersionsInv
    <2>3. \/ after.row.version \in {0, before.row.version}
          \/ after.row.version = j.row.version + 1
      <3> HIDE DEF before, j
      <3> QED BY <1>1, <1>6
          DEF Written, CreateDocument, UpdateDocument, DeleteDocument, RestoreDocument,
              PermanentlyDeleteDocument, NoRow, JobRecord, Tables, Row
    <2>4. /\ \A row \in RowsIn : row.version \in Nat /\ row.version + Cardinality(InProgress) <= calls
          /\ calls \in Nat
      BY RowsType, StorageAssumption DEF Row, VersionsInv, StoreInv, JobsInv
    <2> HIDE DEF before, j, after
    <2>5. after.row.version + Cardinality(InProgress') <= calls
      <3>1. /\ before.row.version \in Nat /\ j.row.version \in Nat
            /\ before.row.version + Cardinality(InProgress) <= calls
            /\ j.row.version + Cardinality(InProgress) <= calls
        BY <1>1, <2>4
      <3>2. Cardinality(InProgress) <= calls
        BY <2>2, <2>4, <3>1
      <3> QED BY <2>2, <2>3, <2>4, <3>1, <3>2
    <2> QED BY <1>1, <1>4, <2>2, <2>4, <2>5 DEF VersionsInv
  <1> QED BY <1>5, <1>6

LEMMA VersionsInvariance == Spec => []VersionsInv
  <1>1. Init => VersionsInv
    <2> SUFFICES ASSUME Init PROVE VersionsInv
      OBVIOUS
    <2>1. InProgress = {}
      BY DEF Init, InProgress
    <2>2. RowsIn = {tables.row} /\ tables.row.version = 0 /\ calls = 0
      BY <2>1 DEF Init, RowsIn, NoRow
    <2> QED BY <2>1, <2>2, FS_EmptySet DEF VersionsInv
  <1>2. VersionsInv /\ StoreInv /\ [Next]_vars => VersionsInv'
    <2> SUFFICES ASSUME VersionsInv, StoreInv, [Next]_vars PROVE VersionsInv'
      OBVIOUS
    <2> USE DEF data
    <2>0. job \in [Thread -> JobRecord \cup {None}]
      BY DEF StoreInv, JobsInv
    <2>1. CASE UNCHANGED vars
      BY <2>1 DEF vars, VersionsInv, RowsIn, InProgress
    <2>2. CASE StartOrStop
      <3>1. job' = job /\ tables' = tables /\ KeepOpen /\ calls' = calls
        BY <2>2 DEF StartOrStop
      <3>2. InProgress' = InProgress
        BY <3>1 DEF InProgress
      <3>3. RowsIn' \subseteq RowsIn
        BY <3>1, <3>2 DEF RowsIn, KeepOpen
      <3> QED BY <3>1, <3>2, <3>3, NoVersionIsNew
    <2>3. ASSUME NEW t \in Thread,
                 \/ StartQuery(t) \/ QueryWithoutConnection(t) \/ FailQuery(t) \/ Read(t)
                 \/ TryBegin(t) \/ BeginGet(t) \/ BeginSucceeds(t) \/ BeginRefused(t)
                 \/ EndTransaction(t) \/ EndTransactionFails(t)
                 \/ EndWithoutTransaction(t) \/ EndReturns(t)
          PROVE  VersionsInv'
      <3>0. JobFits(t)
        BY DEF StoreInv, JobsInv
      <3>1. /\ calls' = calls
            /\ KeepOpen \/ unsaved' = unsaved
            /\ tables' = tables \/ (\E c \in Conn : tables' = View(c))
        BY <2>3 DEF StartQuery, QueryWithoutConnection, FailQuery, Read, TryBegin, BeginGet,
                    BeginSucceeds, BeginRefused, EndTransaction, EndTransactionFails,
                    EndWithoutTransaction, EndReturns, EndExec, StoreInv, PoolInv, DbTypeOK
      <3>2. /\ job[t] # None
            /\ \/ job' = job \/ Finish(t) \/ At(t, "write") \/ At(t, "rollback")
               \/ \E row : /\ job' = [job EXCEPT ![t].at = "write", ![t].row = row]
                           /\ row = NoRow \/ (\E c \in Conn : row = View(c).row)
        BY <2>3, <3>0, DatabaseAssumption
           DEF StartQuery, QueryWithoutConnection, FailQuery, Read, TryBegin, BeginGet,
               BeginSucceeds, BeginRefused, EndTransaction, EndTransactionFails,
               EndWithoutTransaction, EndReturns, EndRelease, EndStatement, ReadFailed,
               WriteFailed, BeginGetConnection, BeginNoConnection, BeginExec, BeginFails,
               JobFits, StoreInv, PoolInv, DbTypeOK
      <3>3. InProgress' \subseteq InProgress
        BY <2>0, <3>2 DEF InProgress, Finish, At
      <3>4. \A c \in Conn : View(c).row \in RowsIn
        BY DEF View, RowsIn
      <3>5. \A s \in InProgress' : job'[s].row \in RowsIn \/ job'[s].row.version = 0
        <4>1. \A s \in InProgress : job[s].row \in RowsIn /\ job[s] \in JobRecord
          BY <2>0 DEF RowsIn, InProgress
        <4>2. NoRow.version = 0
          BY DEF NoRow
        <4>3. \A s \in InProgress' \ {t} : job'[s] = job[s]
          BY <2>0, <3>2 DEF Finish, At, InProgress
        <4>4. t \in InProgress' =>
                job'[t].row \in {job[t].row, NoRow} \cup {View(c).row : c \in Conn}
          BY <2>0, <3>2 DEF Finish, At, InProgress, JobRecord
        <4> QED BY <3>3, <3>4, <4>1, <4>2, <4>3, <4>4
      <3>6. tables'.row \in RowsIn
        BY <3>1, <3>4 DEF RowsIn
      <3>7. \A c \in Conn : unsaved'[c] # None => unsaved'[c].row \in RowsIn
        BY <3>1 DEF KeepOpen, RowsIn
      <3>8. \A row \in RowsIn' : row \in RowsIn \/ row.version = 0
        BY <3>5, <3>6, <3>7 DEF RowsIn
      <3> QED BY <3>1, <3>3, <3>8, NoVersionIsNew
    <2> QED BY <2>1, <2>2, <2>3, CallVersions, WriteVersions DEF Next, Step
  <1> QED BY <1>1, <1>2, StoreInvariance, PTL DEF Spec

(* The tables, the calls and the Database keep their types, no version is  *)
(* higher than the number of calls, and one connection at most has written *)
(* inside a transaction.                                                   *)
THEOREM StorageTypeCorrect == Spec => []TypeOK
  <1>1. StoreInv /\ VersionsInv => TypeOK
    <2> SUFFICES ASSUME StoreInv, VersionsInv PROVE TypeOK
      OBVIOUS
    <2>1. tables.row.version \in 0..MaxCalls
      <3>1. tables.row \in RowsIn /\ tables.row.version \in Nat
        BY RowsType DEF RowsIn, Row
      <3>2. Cardinality(InProgress) \in Nat
        BY FS_CardinalityType DEF VersionsInv
      <3> QED BY <3>1, <3>2, StorageAssumption DEF VersionsInv, StoreInv, JobsInv
    <2> QED BY <2>1 DEF TypeOK, StoreInv, PoolInv, JobsInv, JobFits, TablesInv
  <1> QED BY <1>1, StoreInvariance, VersionsInvariance, PTL

(* Under the DAOs the pool stays sound and inTransaction true, until two   *)
(* transactions race.                                                      *)
THEOREM StoragePoolCorrect == Spec => [](PoolSound /\ FlagTrue)
  BY ImplementsDatabase, PoolCorrect, FlagCorrect, PTL

=============================================================================
