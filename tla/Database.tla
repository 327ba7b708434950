------------------------------ MODULE Database ------------------------------
(***************************************************************************)
(* src/src/storage/Database.cpp: the pool of SQLite connections and the    *)
(* one transaction the object keeps track of.  getConnection and           *)
(* releaseConnection hold poolMutex; beginTransaction, commitTransaction   *)
(* and rollbackTransaction read and write inTransaction and                *)
(* transactionConn without it, so each of their accesses is an action.     *)
(*                                                                         *)
(* A connection is a handle: it may be reused once it has been closed.     *)
(* The vectors connectionPool and connectionInUse are the sets of the      *)
(* handles in the pool and of those flagged; getConnection may then take   *)
(* any free one, the code takes the first.                                 *)
(***************************************************************************)
EXTENDS Naturals, FiniteSets

CONSTANTS Thread, Conn,
          PoolSize,  \* config.poolSize
          None       \* a null connection

ASSUME DatabaseAssumption == None \notin Conn /\ PoolSize \in Nat

VARIABLES
  initialized, connectionPool, connectionInUse,
  open,              \* the handles that are open
  begun,             \* the open handles inside a BEGIN
  abandoned,         \* ghost: of these, the ones whose COMMIT or ROLLBACK failed
  inTransaction, transactionConn,
  step,              \* step[t]: where t is in a call of the class
  held,              \* held[t]: the local conn of a running statement
  inTx,              \* inTx[t]: beginTransaction returned true to t, which has not ended it
  raced              \* ghost: a beginTransaction passed its test while another
                     \* thread was inside beginTransaction or ending a transaction

pool == <<initialized, connectionPool, connectionInUse>>
transaction == <<inTransaction, transactionConn, inTx, raced>>
begins == <<begun, abandoned>>
dbVars == <<pool, open, begins, transaction, step, held>>

Quiet == \A t \in Thread : step[t] = "idle" /\ ~inTx[t]

DbInit ==
  /\ initialized = FALSE /\ connectionPool = {} /\ connectionInUse = {}
  /\ open = {} /\ begun = {} /\ abandoned = {}
  /\ inTransaction = FALSE /\ transactionConn = None
  /\ step = [t \in Thread |-> "idle"]
  /\ held = [t \in Thread |-> None]
  /\ inTx = [t \in Thread |-> FALSE]
  /\ raced = FALSE

-----------------------------------------------------------------------------
(* Starting and stopping, which the program does while nothing else runs.  *)

\* Closing a connection rolls back what was begun on it.
KeepBegun == begun' = begun \cap open' /\ abandoned' = abandoned \cap open'

NewConnections == {new \in SUBSET (Conn \ open) : Cardinality(new) = PoolSize}

\* The connections are opened and the schema is executed.
Initialize ==
  /\ Quiet /\ ~initialized
  /\ \E new \in NewConnections :
       /\ connectionPool' = connectionPool \cup new
       /\ open' = open \cup new
  /\ initialized' = TRUE
  /\ UNCHANGED <<connectionInUse, begins, transaction, step, held>>

\* A connection cannot be opened: the whole pool is closed, and emptied.
OpenFails ==
  /\ Quiet /\ ~initialized
  /\ open' = open \ connectionPool
  /\ KeepBegun
  /\ connectionPool' = {} /\ connectionInUse' = {}
  /\ UNCHANGED <<initialized, transaction, step, held>>

\* The schema is missing or refused.  shutdown() returns at once, as nothing
\* is initialized yet: the connections stay, and a retry adds to them.
SchemaFails ==
  /\ Quiet /\ ~initialized
  /\ \E new \in NewConnections :
       /\ connectionPool' = connectionPool \cup new
       /\ open' = open \cup new
  /\ UNCHANGED <<initialized, connectionInUse, begins, transaction, step, held>>

Shutdown ==
  /\ Quiet /\ initialized
  /\ initialized' = FALSE
  /\ open' = open \ connectionPool
  /\ KeepBegun
  /\ connectionPool' = {} /\ connectionInUse' = {}
  /\ UNCHANGED <<transaction, step, held>>

-----------------------------------------------------------------------------
(* The pool.                                                               *)

Free == connectionPool \ connectionInUse

\* getConnection returns nothing: not initialized, or no connection is free
\* and a temporary one cannot be opened.
NoConnection == ~initialized \/ Free = {}

\* getConnection returns c: a free one, or else a temporary one.
GetConnection(c) ==
  /\ initialized
  /\ IF Free # {}
       THEN c \in Free /\ connectionInUse' = connectionInUse \cup {c} /\ UNCHANGED open
       ELSE c \in Conn \ open /\ open' = open \cup {c} /\ UNCHANGED connectionInUse

\* releaseConnection: back to the pool, or closed if it is not the pool's.
ReleaseConnection(c) ==
  /\ connectionInUse' = connectionInUse \ {c}
  /\ open' = IF c \in connectionPool THEN open ELSE open \ {c}

-----------------------------------------------------------------------------
(* Statements: executeQuery, querySingleRow and queryMultipleRows take a   *)
(* connection, run one statement on it and release it.                     *)

Go(t, s) == step' = [step EXCEPT ![t] = s]

StartStatement(t) ==
  /\ step[t] = "idle"
  /\ \E c \in Conn :
       /\ GetConnection(c)
       /\ held' = [held EXCEPT ![t] = c]
  /\ Go(t, "running")
  /\ UNCHANGED <<initialized, connectionPool, begins, transaction>>

EndStatement(t) ==
  /\ step[t] = "running"
  /\ ReleaseConnection(held[t])
  /\ KeepBegun
  /\ held' = [held EXCEPT ![t] = None]
  /\ Go(t, "idle")
  /\ UNCHANGED <<initialized, connectionPool, transaction>>

-----------------------------------------------------------------------------
(* Transactions.                                                           *)

Switching(t) == step[t] \in {"begin", "exec", "end"}

\* beginTransaction finds no transaction in progress.
BeginTest(t) ==
  /\ step[t] = "idle" /\ ~inTx[t]
  /\ ~inTransaction
  /\ Go(t, "begin")
  /\ raced' = (raced \/ \E s \in Thread \ {t} : Switching(s))
  /\ UNCHANGED <<pool, open, begins, inTransaction, transactionConn, inTx, held>>

BeginGetConnection(t) ==
  /\ step[t] = "begin"
  /\ \E c \in Conn :
       /\ GetConnection(c)
       /\ transactionConn' = c
  /\ Go(t, "exec")
  /\ UNCHANGED <<initialized, connectionPool, begins, inTransaction, inTx, raced, held>>

BeginNoConnection(t) ==
  /\ step[t] = "begin"
  /\ NoConnection
  /\ transactionConn' = None
  /\ Go(t, "idle")
  /\ UNCHANGED <<pool, open, begins, inTransaction, inTx, raced, held>>

\* BEGIN succeeds, on whatever transactionConn holds by now.
BeginExec(t) ==
  /\ step[t] = "exec"
  /\ transactionConn \in open \ begun
  /\ begun' = begun \cup {transactionConn}
  /\ inTransaction' = TRUE
  /\ inTx' = [inTx EXCEPT ![t] = TRUE]
  /\ Go(t, "idle")
  /\ UNCHANGED <<pool, open, abandoned, transactionConn, raced, held>>

\* Mutant: the connection is not given back.
BeginFailsKeeping(t) ==
  /\ step[t] = "exec"
  /\ transactionConn' = None
  /\ Go(t, "idle")
  /\ UNCHANGED <<pool, open, begins, inTransaction, inTx, raced, held>>

\* BEGIN fails: the connection is given back and forgotten.
BeginFails(t) ==
  /\ step[t] = "exec"
  /\ ReleaseConnection(transactionConn)
  /\ KeepBegun
  /\ transactionConn' = None
  /\ Go(t, "idle")
  /\ UNCHANGED <<initialized, connectionPool, inTransaction, inTx, raced, held>>

\* Mutant: the flag stays up.
EndExecFlagged(t) ==
  /\ step[t] = "idle" /\ inTx[t]
  /\ inTransaction /\ transactionConn # None
  /\ begun' = begun \ {transactionConn} /\ abandoned' = abandoned \ {transactionConn}
  /\ inTx' = [inTx EXCEPT ![t] = FALSE]
  /\ Go(t, "end")
  /\ UNCHANGED <<pool, open, inTransaction, transactionConn, raced, held>>

\* commitTransaction or rollbackTransaction executes COMMIT or ROLLBACK and
\* clears the flag.
EndExec(t) ==
  /\ step[t] = "idle" /\ inTx[t]
  /\ inTransaction /\ transactionConn # None
  /\ begun' = begun \ {transactionConn} /\ abandoned' = abandoned \ {transactionConn}
  /\ inTransaction' = FALSE
  /\ inTx' = [inTx EXCEPT ![t] = FALSE]
  /\ Go(t, "end")
  /\ UNCHANGED <<pool, open, transactionConn, raced, held>>

\* COMMIT or ROLLBACK fails: the flag is cleared all the same, whether SQLite
\* has rolled the transaction back or left it open on the connection.
EndFails(t) ==
  /\ step[t] = "idle" /\ inTx[t]
  /\ inTransaction /\ transactionConn # None
  /\ \/ begun' = begun \ {transactionConn} /\ abandoned' = abandoned \ {transactionConn}
     \/ abandoned' = abandoned \cup ({transactionConn} \cap begun) /\ UNCHANGED begun
  /\ inTransaction' = FALSE
  /\ inTx' = [inTx EXCEPT ![t] = FALSE]
  /\ Go(t, "end")
  /\ UNCHANGED <<pool, open, transactionConn, raced, held>>

\* They find no transaction to end.
EndRefused(t) ==
  /\ step[t] = "idle" /\ inTx[t]
  /\ ~inTransaction \/ transactionConn = None
  /\ inTx' = [inTx EXCEPT ![t] = FALSE]
  /\ UNCHANGED <<pool, open, begins, inTransaction, transactionConn, raced, step, held>>

\* After that they release the connection and forget it.
EndRelease(t) ==
  /\ step[t] = "end"
  /\ ReleaseConnection(transactionConn)
  /\ KeepBegun
  /\ transactionConn' = None
  /\ Go(t, "idle")
  /\ UNCHANGED <<initialized, connectionPool, inTransaction, inTx, raced, held>>

-----------------------------------------------------------------------------
DbNext ==
  \/ Initialize \/ OpenFails \/ SchemaFails \/ Shutdown
  \/ \E t \in Thread :
       \/ StartStatement(t) \/ EndStatement(t)
       \/ BeginTest(t) \/ BeginGetConnection(t) \/ BeginNoConnection(t)
       \/ BeginExec(t) \/ BeginFails(t)
       \/ EndExec(t) \/ EndFails(t) \/ EndRefused(t) \/ EndRelease(t)

DbSpec == DbInit /\ [][DbNext]_dbVars

-----------------------------------------------------------------------------
(* The pool, the handles and the threads' locals have their types.         *)
DbTypeOK ==
  /\ initialized \in BOOLEAN /\ inTransaction \in BOOLEAN /\ raced \in BOOLEAN
  /\ open \subseteq Conn /\ begun \subseteq open /\ abandoned \subseteq begun
  /\ connectionPool \subseteq open /\ connectionInUse \subseteq connectionPool
  /\ transactionConn \in Conn \cup {None}
  /\ step \in [Thread -> {"idle", "running", "begin", "exec", "end"}]
  /\ held \in [Thread -> Conn \cup {None}]
  /\ inTx \in [Thread -> BOOLEAN]
  /\ \A t \in Thread : held[t] # None <=> step[t] = "running"

InUse == ({held[t] : t \in Thread} \cup {transactionConn}) \ {None}

(* As long as no two transactions raced, a connection has one user, which  *)
(* may be a statement or the transaction, no connection that is used is    *)
(* closed or handed out again, and none is leaked: the flags of the pool   *)
(* are those of the connections in use, and every other open handle is the *)
(* pool's.                                                                 *)
PoolSound ==
  ~raced =>
    /\ \A s, t \in Thread : held[s] = held[t] /\ held[s] # None => s = t
    /\ \A t \in Thread : held[t] # None => held[t] # transactionConn
    /\ InUse \subseteq open
    /\ connectionInUse = InUse \cap connectionPool
    /\ open = connectionPool \cup InUse

(* As long as no two transactions raced, inTransaction says the truth: it  *)
(* is up when one thread, and no other, is inside a transaction, begun on  *)
(* transactionConn; no other connection has a BEGIN on it, except those    *)
(* whose COMMIT or ROLLBACK failed, and the flag is never left up with     *)
(* nobody to clear it.                                                     *)
FlagTrue ==
  ~raced =>
    /\ begun \ abandoned = IF inTransaction THEN {transactionConn} ELSE {}
    /\ inTransaction <=> \E t \in Thread : inTx[t]
    /\ \A s, t \in Thread : inTx[s] /\ inTx[t] => s = t
=============================================================================
