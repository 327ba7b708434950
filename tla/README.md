# RealtimeCollabEngine in TLA+

This directory specifies the core of RealtimeCollabEngine, a C++ server (with a
TypeScript front end) for editing one text by several users at a time, as TLA+
modules that TLC checks on small instances and that TLAPS proves theorems about.
Every definition is translated from the source; `PROJECT.json` maps each one to
its lines.

To check a module, run TLC with the configuration listed under *Runs*, for
instance `tlc -config MCRoom.cfg MCRoom`; to check the proofs, `tlapm RoomProofs.tla`.

## The system

The executable (`src/src/main.cpp`) starts a logger, a database, an HTTP server
with REST controllers and a WebSocket server. Sessions, rooms, documents,
transformation, snapshots, recovery and offline queues are library classes that
the unit tests and callers drive; the WebSocket server keeps room tables of its
own and does not use `SessionManager` or `Room`.

| Component | State | Operations | Interacts with |
|---|---|---|---|
| `network/SessionManager` | `rooms_` (id to `Room`), `userRooms_` (user to id), one mutex | create, get, remove a room; add and remove a user; sweep empty rooms | calls `Room` under its own mutex, hands out `shared_ptr<Room>` |
| `network/Room` | members, a document, a callback | add and remove a user, `applyAndBroadcast` | document under the document's lock, callback into the transport |
| `core/DocumentState` | text, version, window of recent operations | apply, load, roll back, read | called from rooms, recovery, snapshots |
| `core/Operation` | a value | conversion, ids | everywhere |
| `core/OTAlgorithm`, `core/ConflictResolver` | none | transform, conflict detection and resolution, merge | callers that hold two concurrent operations |
| `network/WebSocketServer` | connection table, room table, two mutexes, a running flag, a checker thread | Crow's open, message and close callbacks; start, stop; time-out check | one thread per connection, Crow's sockets |
| `network/MessageProtocol` | none | encode, decode | server and front end |
| `core/SnapshotManager`, `core/RecoveryManager` | rows of `snapshots` and `operations` | create, load, clean up; rebuild a document | `DocumentState`, `Database` |
| `core/SyncManager`, `core/OfflineQueue` | a queue per user | queue while offline, hand over on reconnect | a caller's callback, under the manager's lock |
| `storage/Database`, `OperationDAO`, `DocumentDAO` | connection pool, transaction flag, tables | statements, transactions | SQLite |
| `network/HttpServer`, `api/Controllers` | none | REST requests | `DocumentDAO` |
| `utils/Logger`, `LogRotator`, `Metrics`, `Config` | queue and file, counters, settings | log, rotate, count, load | everywhere |
| `frontend/src` | text, version, pending operations, connection state, timers | diff, ack, transform, connect, reconnect; a mock server among tabs | the server's protocol |

**What is hard.** Two maps of membership updated by five methods; room objects
that are dropped and made again while others hold pointers to them; locks given
up between applying an operation, reading the version for its ACK and
broadcasting it; text positions in unsigned arithmetic; the transformation's
many overlaps; two mutexes around four entry points and a checker thread;
snapshots and recovery over operations of several versions; transactions on a
shared connection pool; reconnects. `PROJECT.json` lists each under "hazards",
at its line, with the properties that watch it.

**What makes it correct.** Registry: its map and the rooms' maps agree, and the
members of a room share one object. Room: every version is granted once, every
member hears of every operation exactly once, ACKs are truthful and arrive.
Document: the window is the last operations, and a rollback that can replay the
document's whole life restores the old text. Transformation: both sides end with
one text and nobody's untouched or typed text is lost. Server: tables agree,
handlers return, silent connections go, threads never wait for each other in a
cycle.
Database: a connection has one user and none leaks, the transaction flag is
true. DAOs: what is reported as stored is stored. Persistence: a recovered
document is one the document had been. Queues: an operation is handed over once,
in order. Logger: a line is written once, in order. Client: one connection, and
another one when it is lost. Tabs: one text for all of them in the end.

## Modules

| Module | Models | State and actions |
|---|---|---|
| `SessionDirectory` | abstract: open rooms, where each user is | open, close, enter, leave, sweep |
| `SessionManager` | `SessionManager.cpp` and the members of `Room` | one action per method, as each holds `managerMutex` throughout; `Room` objects have an identity (`RoomObj`) |
| `Operation` | `Operation.h`, and the checks and edits of `DocumentState` | no state; positions wrap at `WordMod` (2^64 in the program) |
| `DocumentState` | `DocumentState.cpp` | one action per method that changes state, under `stateMutex`; a refused operation changes nothing and is no step |
| `OTAlgorithm` | `OTAlgorithm.cpp`, `ConflictResolver.cpp` | operators only |
| `ConcurrentEdits` | two documents and the transformation | composes `Operation` and `OTAlgorithm`: each user edits, then receives the other's edit transformed |
| `BroadcastLog` | abstract: one log, deliveries | commit, deliver |
| `Room` | `Room.cpp` | `applyAndBroadcast` per thread, cut where the locks are given up: apply or refuse, read the version, send the ACK, broadcast |
| `WebSocketServer` | `WebSocketServer.cpp` | one action per critical section, per connection thread, checker, `start` and `stop` |
| `Database` | `Database.cpp` | the pool's vectors as sets of handles, the transaction flag and connection; getting and giving back a connection are one step each (`poolMutex`), and every access to `inTransaction` and `transactionConn`, which have no lock, is a step |
| `Storage` | `DocumentDAO.cpp`, `OperationDAO.cpp` (the batch), `Controllers.cpp` (documents) | composes with `Database`: the rows as committed and as written in a transaction on a connection, and the call each thread is in, statement by statement |
| `Persistence` | `SnapshotManager.cpp`, `RecoveryManager.cpp`, `OperationDAO.cpp` (insert, clean up) | the live document and the two tables; apply, store, the two halves of `createSnapshot`, clean-ups, a crash with its recovery, the three steps of `recoverToVersion` |
| `SyncManager` | `SyncManager.cpp`, `OfflineQueue.cpp` | a queue per user and `managerMutex`; a sync is cut at each callback, which returns, throws, is missing or calls back |
| `Logger` | `Logger.cpp` | callers, the thread that initializes and shuts down, the log thread; cut at `queueMutex`, at the wait and at the flags that are read without it |
| `WsClient` | `frontend/src/ws-client.ts` | the client's fields, the sockets it has made, the timers; one action per method, handler and timer, as JavaScript runs each to its end |
| `MockServer` | `mock-server.ts`, `ot-engine.ts`, and the editor in `app.ts` | tabs with their copies of the documents, the engine's and the screen's text, whether an input method composes, and the broadcast channel; one action per event handler |
| `Frontend` | `app.ts`: mock or server | composes `MockServer` and `WsClient` |
| `MC...` | | instances for TLC; `MCEditing` is one of `DocumentState` and `ConcurrentEdits`, `MCQueues` one of `SyncManager` and `Logger` |
| `SessionManagerProofs`, `RoomProofs`, `WebSocketServerProofs`, `EditingProofs` (`DocumentState` and `ConcurrentEdits`), `StorageProofs` (with `Database`), `PersistenceProofs`, `QueueProofs` (`SyncManager` and `Logger`), `FrontendProofs` (`MockServer` and `WsClient`) | | theorems |

Some choices that a reader of the code should know of, module by module.

*Room and registry*

* `Room` sees the document as `DocumentState` does, but leaves open whether a
  position fits, so an operation may be refused at any version. An operation id
  stands for one operation; it may be submitted again, by a client that missed
  its ACK, while the first call is under way or afterwards.
* `SetBroadcastCallback` assigns a `std::function` without a lock. The model
  lets it happen only while no thread is inside the method, as its callers do;
  a call at another time is a data race, and outside the model.

*WebSocket server*

* A second lock of a plain `std::mutex` by its owner is modelled by what the
  pthread build does: the thread never goes on (`Wedge`). Lines 432, 441, 458,
  492, 513, 526 and 385 of the source do it; an accepted join, for one, is never
  answered, which is the finding of the run `server_join`. Everything after such a call in its handler is never reached, and
  not modelled.
* A connection's callbacks run one at a time, as Crow does it. A message is seen
  by what the dispatch tells apart. A room that nobody joined and a room that
  was erased when it became empty are the same: one without members.
* The checker closes by an id it collected in an earlier critical section, so a
  connection that was heard from in between is closed too; and it may find
  `running` not set yet and end at once. Both are behaviours of the model.

*Database and storage*

* The code takes the first free connection, the model any. Starting and stopping
  happen while no thread is in a call, as `main` does. `initialize` may fail at
  a connection, which empties the pool, or at the schema: the `shutdown` it then
  calls returns at once, and the connections stay in the pool for a retry.
* The UPDATEs of `markOperationsApplied` run on other connections than its BEGIN:
  each is committed by itself, and ROLLBACK takes nothing back. A failed COMMIT
  or ROLLBACK clears the flag and returns the connection although SQLite may
  still have the transaction open on it (`abandoned`); later statements on that
  connection are written into it.
* Two threads that start or end transactions together share, swap or leak the
  connection. The ghost `raced` records that it happened, and the properties of
  the pool are stated up to then; the behaviours after it remain in the model.
  What is stored does not depend on it: `MarksStored` and `UpdatesCounted` are
  stated, and hold, whether or not transactions race.
* `getDocument` returns a document with an id also when its query fails, so
  `updateDocument` then overwrites the row from nothing. The ghost `disturbed`
  records that, and a lost update, as `"stale"`, and a write into an abandoned
  transaction as `"stray"`.

*Persistence*

* Nothing in the program stores an operation after applying it, so the model
  takes callers as the DAOs let them be: threads that apply under the document's
  lock and insert afterwards, in any order, or fail to.
* Recovery is as the code has it: from the newest snapshot only, to nothing when
  there is none, over refused operations, and over rows that a former life of
  the document left. A query that fails looks like an empty table. The
  properties name what it needs to be exact, and the rest is in the behaviours.
* `recoverDocument` is one step with the crash before it: it rebuilds the document
  before any other thread has it. `recoverToVersion` is called while others apply,
  store, take snapshots and clean up. `RecoveryManager`'s mutex keeps none of them
  out, so it is cut at the locks it takes one after the other: the version of the
  newest snapshot (`ReadSnapshotVersion`), the newest snapshot (`LoadSnapshot`), the
  operations (`ReplayOperations`). A snapshot inserted between the first two is
  loaded without being tested, and takes the document past its target: the run
  `recovery_target` shows it, and `RecoverToExact` says which text there is then.

*SyncManager and Logger*

* A queue is emptied before the first callback, which runs under the mutex: one
  that throws loses the rest, one that calls the manager waits for itself and
  everybody for it. Both are actions.
* Lines that are queued when the logger is shut down stay until the next
  asynchronous life, and lines written directly meanwhile overtake them. A failed
  `initialize` leaves `asyncEnabled` set and no thread. A queued line with an
  empty message is dropped. The stop's notification is sent without the mutex
  and may be lost; the 100 ms time-out of the wait makes up for it, and with a
  plain wait `LogThreadServes` fails.

*Front end*

* The engine's `pending` is never filled, so `transformRemote` returns its
  argument and `transformOne` never runs: an operation that crosses a local edit
  is applied as it is. Operations and syncs change the screen whichever document
  they are for. A USER_JOIN is answered with a USER_JOIN, for ever. A tab that
  loads later has the seeds and not what was typed. The ghost `disturbed` records
  what makes the copies differ; texts that heal afterwards are `EditorsHeal`.
  Among three tabs it is not enough that a tab has seen everything posted to it:
  the first inserts, the second sees the insert and deletes it, and the third
  sees the delete first, as only the messages between two tabs are in order. So
  a text is disturbed when it is edited while another tab's operation is on its
  way to any tab (`OnItsWay`), which for two tabs is the same.
* Between `compositionstart` and `compositionend` of an input method the editor's
  changes are not passed to the engine (`app.ts:39-45`). Its text is then behind
  the screen (`composing`), while operations and syncs of other tabs are applied to
  both and a document may be opened; `compositionend` takes the difference that is
  left for the user's edit. `DocsAgree` says that engine and screen have the same
  text in every other tab, and `EditorsHeal` waits for the composition to end.
* Users have different ids. Ids are made of the letters and digits of names, and
  two names without any would share one: the tabs would not hear each other.
* A socket's handlers stay on it after the client has made another. `disconnect`
  and `connect` in a row may leave two sockets, and timers nobody can stop. The
  welcome's status counts as authentication. `WsClient` is bounded by `MaxTimers`
  only in `Connect`, `OnOpen` and `OnClose`.

*History variables and mutants.* `since` (Room), `loaded`, `past`, `rollbacks`
(DocumentState) and the variables commented as ghosts are read by no guard,
except that `Load` is for documents that nothing has happened to. Definitions
under a comment "Mutant:" are not part of the model: each is a plausible mistake
in the code, and replacing the definition after it by the mutant makes TLC
report the property named in `PROJECT.json`. It shows that the property says
something about the code.

## Runs

| Run | Bounds | Shows |
|---|---|---|
| `registry` | 2 users, 2 rooms, 2 connections, 3 room objects | the maps agree, nobody is in two rooms, a room's members never split over two objects; `SessionManager` implements `SessionDirectory` |
| `editing` | the document: 2 letters, texts of at most one letter per operation, positions 0, 1, 2 and the largest, window of 2, versions up to 3; the exchange: text of 4 different letters, up to 2 typed letters, 2 timestamps, all pairs of operations | the window is connected and recent; the first rollback of a document that is wholly in the window restores the text; convergence of all but three situations; untouched and typed text survives; who is refused; symmetry of conflict resolution |
| `room` | 2 users, 2 operations, 2 threads | versions, deliveries and ACKs; `Room` implements `BroadcastLog`; ACKs arrive |
| `server` | 2 connections, 2 rooms, all message types; symmetric in both | tables, sockets, the shape of every deadlock |
| `server_live` | 2 connections, heartbeats and operations | handlers return and silent connections are removed unless a handler is stuck |
| `storage` | 2 threads, 3 handles, a pool of 1, 2 operations, 3 calls; symmetric in threads, handles and operations | the pool and the flag are true until two transactions race; batches reported as applied are stored; the version counts the updates |
| `persistence` | 3 versions, the second with two forms, 2 rows, 2 snapshots, 2 threads, 2 lives | recovery rebuilds the text of the version it claims, to the first gap; clean-up does not change what it rebuilds |
| `queues` | the sync manager: 2 users, 2 operations each, 2 threads; the logger: 2 callers, 3 lines, 2 lives | handed over once, in order, lost only by a failure or a clear; calls return; no line is lost or doubled, what may overtake what; queued lines get written and `shutdown` returns |
| `frontend` | 2 tabs, 2 documents, texts of 1 and 3 letters, 2 edits, composed or not, 3 openings; 2 sockets, 2 timers of a kind | copies agree and screens heal; one connection, CONNECT first; reconnection |
| `room_order` | as `room` | violated: operations reach a member out of version order |
| `server_join` | 2 connections, 1 room, logins and joins | violated: a join is never answered |
| `recovery_target` | as `persistence` | violated: recovery to a version gives a newer one |

`editing` and `queues` each run two modules that share no variable: in a behaviour
one of the two machines begins and the other stays where it is, so the states are
those of the one and those of the other, and every property is about one of them.

The bounds are the smallest at which the interesting cases happen. Three room
objects let a room be dropped and made again while the other is in use. A window
of two under three versions overflows. Four letters allow a delete with deleted
text on both sides, and two ranges that overlap by less than either. Two threads
suffice for every order of two broadcasts, and two operations for one to be
retried while the other is applied. Two connections are enough to wait for each
other, which `OnlySelfDeadlock` excludes; the first one to wedge stops all
others, so a third adds nothing. `WordMod` is larger than every legal position
and version, and small enough for the largest position plus one to wrap.

A pool of one makes the transaction take it and every statement beside it a
temporary connection, closed afterwards; three calls are a batch with two
others beside it, or two updates and a deletion. Three versions put a row
before, at and after a snapshot, and the second life needs an operation of its
own to differ from the first: hence the two forms of version 2. Three lines and
two lives are a line queued in one life, one written directly, and one queued in
the next. Edits between "1" and "1 2 1" insert and remove text between
equal ends, which is where a common prefix and suffix meet; one that is typed and
one that is composed can cross; a third tab would answer
the other two's joins without end, and multiply the channel beyond any bound:
for three tabs and more there is the proof of `DocsAgree`.

Runs that turn deadlock checking off have a system that may really stop: an
exchange ends, a server comes to rest when it is stopped or stuck, a callback
that calls its manager back stops everyone, the program ends, nobody types.

Type invariants are proved, not run: those of `SessionManager`, `Room`,
`WebSocketServer`, `DocumentState`, `ConcurrentEdits`, `Database`, `Storage`,
`Persistence`, `SyncManager` and `WsClient`, and in the proofs' inductive
invariants those of `MockServer` (`TabTypeOK`) and `Logger` (`LogTypeOK`). To check
one with TLC, add it to the INVARIANTS of the module's configuration; the last
two, and the inductive invariants, are defined in the modules of proofs, for any
constants, and are best copied next to the instance.

Three runs show a disagreement of the program with its documents or comments,
listed under "findings": `room_order`, that a client which receives operations in
the order they are broadcast cannot apply each of them; `server_join`, that users
who join a room hear of it and of each other (`JoinAnswered`), where the first one
waits for itself with both mutexes held, so no second one ever joins and nothing
is ever broadcast; and `recovery_target`, that `recoverToVersion` does not go past
its target. What else a reader of those documents may not expect is stated as
exact conditions in the properties: which documents a rollback restores
(`FirstRollbackRestores`), which pairs of edits converge (`Entangled` names the
three situations that do not: two inserts at one place, an insert inside a
deleted range, a delete with deleted text on both sides; a REPLACE is treated as
a DELETE, and excluded), that handlers return up to the first stuck one
(`HandlersReturn`), from which rows recovery is exact (`RecoverExact`).

### Fairness

* `Room`: weak fairness of each thread's steps inside the method: its locks are
  held for bounded sections, the callback is not waited for, and calls are not
  required to come.
* `WebSocketServer`: weak fairness of the handlers' steps and of the checker,
  whose sleep ends; weak is enough, as a mutex held from one step to another is
  never given back. Closing needs strong fairness: a socket on which `close()`
  was called reports it between two callbacks, although its client may go on
  sending. Clients need not do anything, nor anybody call `stop()`.
* `SyncManager`: strong fairness of each thread's steps in a call, as it competes
  for the mutex; callbacks end. Calls need not come.
* `Logger`: weak fairness of the log thread, of the steps of `shutdown` once it
  waits or closes, and of a direct write; strong fairness of `Push`, which
  competes for the mutex. Nobody has to log, initialize or shut down.
* `Frontend`: the browser delivers what was posted, runs the timers and reports
  a close (weak); the server is not out of reach for ever: of the attempts some
  opens and of those some is welcomed (strong). `Reconnects` would be empty
  without the latter, and users need do nothing.

## Proofs

All theorems are for any constants that satisfy the stated assumptions, and
every invariant and action property that a run checks is stated by one. They are
checked by `tlapm` with Z3, Zenon and LS4.
The assumptions are these:

* values that stand for "none" are nothing else (`NilAssumption`,
  `RoomAssumption`, `WebSocketAssumption`, `DatabaseAssumption`,
  `StorageAssumption`, `SyncAssumption`, `LoggerAssumption`, `WsClientAssumption`,
  `MockAssumption`, and for `Unknown` `PersistenceAssumption`);
* bounds are numbers; a room has finitely many operations; the types of messages
  are those the dispatch knows (`WebSocketAssumption`);
* operations and texts are what the C++ types let them be, sequences of
  characters with a position below 2^64 (`DocAssumption`, `PersistenceAssumption`,
  `WordModAssumption`), and versions do not reach 2^64, which takes 2^64 edits;
  in the tabs, the seeds and what is typed are sequences of characters
  (`MockAssumption`);
* of an exchange (`EditsAssumption`): there are two users, the text and what the
  two type have together less than 2^64 characters, and the three have no
  character in common. The last is no restriction on the program, which never
  looks at a character: it is how the properties tell whose a character is.

`SessionManagerProofs`: `TypeCorrect`, `Agreement`, `SingleRoom`,
`RoomStability`, `Refinement`. The agreement of the two maps is not inductive
alone: creating a room needs that an object not yet made has nobody in it and
that no two ids share an object, so the inductive invariant `IInv` is the type
invariant, `MembershipAgrees` and `ObjectsDistinct`. `OneRoomPerUser`,
`RoomStable` and each step of the refinement follow from it.

`RoomProofs`, in three layers:

1. `OrderInv` gives `TypeCorrect` and `VersionsGrantedOnce`. The count of
   versions needs that a second thread with the same operation cannot be granted
   another version: it carries the version the operation was taken at
   (`RetryAgrees`), it makes the same call (`SameCall`), and only one thread
   announces an operation (`OneAnnouncer`).
2. `ToldInv` adds what has been told: `ToldTruth` and `AckCoversOp` need that a
   user has not heard of an operation in flight, but for its own ACK
   (`HeardInFlight`), and that the version read for an ACK lies between the
   operation and the document (`AckVersionRead`). Theorems `TruthOfMessages`
   and `AckCovers`.
3. On top of it `NothingMissed` is inductive (theorem `NobodyMisses`), and each
   step is a commit, a delivery or a stutter of `BroadcastLog` (theorem
   `Refinement`).

`WebSocketServerProofs`: `TypeCorrect`, `Agreement`, `FirstJoin`, `NoLockCycle`,
`SocketsLive`, for any connections, rooms and messages. None of the four
invariants is inductive by itself. One of them, `FirstJoinIsLast`, is no property
of a run but what `JoinAnswered` fails by, and is defined with the proofs. `start` and `stop` clear the two tables in two
critical sections, and what a handler finds between them agrees only because no
connection is in a room while a mutex is free (`FirstJoinIsLast`); that one needs
to know who holds the mutexes and where (`OnlySelfDeadlock`). `FreeMeansEmpty` is
the lemma that connects them. `StuckForEver` states what follows for every
behaviour: a handler that is stuck remains so.

`EditingProofs`, of the document: `TypeCorrect`, `NoGapInWindow`, `HistoryIsRecent`
and `RollbackRestores` (`FirstRollbackRestores`), for any operations, texts, window and
number of versions. The first three need that `Remember` keeps the order of what
it does not drop (`RememberKeepsOrder`). The last one is about the loop of
`rollbackToVersion` and needs `LineOfEdits`: until the first rollback every
remembered operation could be executed on the version before it and made the
next one of it, so the loop, started on the text that was loaded and with a
window that reaches back to it, goes through the versions the document had
(`ReplayLoop` and the lemmas after it).

`EditingProofs`, of the exchange: `ExchangeTypeCorrect`, `ExchangeConverges`
(`ConvergesUnlessEntangled`), `ExchangeKeepsText` (`UntouchedTextSurvives`),
`ExchangeKeepsTyping` (`TypedTextSurvives`), `ExchangeFits` (`TransformedFits`) and
`ExchangeResolverAgrees` (`ResolverAgrees`), for any base text, any typed texts,
and every pair of edits there is, where the run has a text of four letters (a text
of all different characters makes `UntouchedTextSurvives` say it of each place). The
inductive invariant `EInv` only says that a copy is the base text, the base text
edited, or the `Merge` of the two edits; the work is in what a merge is:

1. `Puts` and `Cuts` say character by character what an insert and an erasure make
   of a text (`Inserted`, `Erased`), and pairs of them commute, shifted, when they do
   not touch (`PutsCommute`, `PutBeforeCut`, `PutBehindCut`, `CutsCommute`) or are two
   ranges of which each is cut where the other is not (`CutsMeet`).
2. `DeliveredInsert`, `DeliveredDelete` and `DeliveredReplace` say where
   `transform` puts an operation, what it leaves of it, and that no sum or
   difference on the way wraps at 2^64 (`NoWrap`, `TwoEdits`).
3. Together they give the merge for each way two edits can lie (`MergeOfInsert`,
   `MergeOfDeleteAfterInsert`, `MergeOfDeleteAfterDelete`), hence convergence
   (`MergesAgree`), who is turned away (`MergeFits`), and what survives
   (`BaseKept`, `TypedKept`).

`StorageProofs`, in three layers:

1. `Database` by itself (`DbSpec`): `TypeCorrect`, `PoolCorrect`, `FlagCorrect`,
   for any number of threads, handles and pool connections. The pool's flags and
   the transaction's are inductive only together, and with `OneTransaction`: as
   long as nothing raced, one thread at most is between its test of
   `inTransaction` and the end of its transaction, and `transactionConn` is its
   connection. `PoolPoint` is `PoolSound` connection by connection, which is what
   the prover can follow. The steps fall into starting and stopping, statements,
   and the transaction's, with one lemma each.
2. `ImplementsDatabase`: every step of `Storage` is a step of `Database` or a
   stutter of it, so the pool's theorems hold of it (`StoragePoolCorrect`);
   `StorageTypeCorrect` adds where a call is in its statements (`JobFits`).
3. `MarksCorrect` (`MarksStored`) and `UpdatesCorrect` (`UpdatesCounted`). Outside
   `"stray"` no row is written inside a transaction, so every operation that a
   call has got through is marked in the tables (`StoredInv`). That the bound on
   versions is never in the way of a write needs the number of calls that are
   under way (`VersionsInv`).

`PersistenceProofs`: `TypeCorrect`, `CrashLosesNoPrefix` (`RecoverExact`),
`RecoversTarget` (`RecoverToExact`), `CleanupIsSafe` (`CleanupKeepsRecovery`), for
any operations, any number of versions, rows, snapshots and lives. The inductive
invariant says that the live document, however often it was itself recovered,
remembers a line of edits from the oldest version it knows of (`Remembers`). What
recovery rebuilds is then followed version by version (`OneVersion`): up to each
one it is the document as it had been at some version, of which every row since
the snapshot is stored, and it stopped before the one it was asked for only where
no row has the next (`Faithful`). For `recoverToVersion` the invariant carries what
it has read so far (`Recoveries`); a snapshot loaded is newer than the version
tested if others came in between, and the rows up to its version, which the query
then still returns, are refused (`EarlierRowsRefused`). Clean-up is compared with it by the rows it
leaves: none newer than the newest snapshot goes (`NewerStay`,
`OperationsCleaned`), and the newest snapshot remains (`SnapshotsCleaned`).

`QueueProofs`, of `SyncManager`: `TypeCorrect`, `HandedOverInOrder` (`InOrder`), for any
users, threads and number of operations. Three sequences hold what a user has
queued: handed over, in a sync's hands, still queued. That they remain in order
when one more is queued needs that nothing in them is newer than the last
(`AllBounded`); `Concatenation` says what order means for a concatenation.

`QueueProofs`, of `Logger`: `LoggerKeepsLines` (`LinesKept`) and `LoggerKeepsOrder`
(`OnlyDirectOvertakes`), for any callers, lines and lives. What is written and
what is pending make one sequence, and one relation of its elements (`May`: they
differ, and the first is not the later line of the same caller, unless it was
direct and the other was queued) gives both. That it holds of the pending lines
as well (`Places`) is what a step that writes one needs: the log thread writes the
first of them, and a direct line is put before all of them, which its not being
queued allows. A line that a caller begins has a higher number than all of its
lines that are anywhere, because what is anywhere comes from a call that has
gone on (`Passed`, `Numbered`). That the thread finds the file open needs that
there is a thread only between an asynchronous `initialize` and its join
(`ThreadTrue`). Distinct lines become a cardinality in `AsManyLines`.

`FrontendProofs`, of the tabs: `DiffMakesText` and `CopiesAgree` (`DocsAgree`), for
any tabs, documents, texts, edits and openings.

1. `DiffMakesText` is about the engine's comparison alone: what the two loops of
   `diff` return are lengths of a common prefix and a common suffix that do not
   overlap (`PrefixOf`, `SuffixOf`), and a text that is cut and filled between
   them is the other text (`Spliced`).
2. `DocsAgree` speaks of the moment when everything has arrived. What holds all
   the time, as long as nothing disturbed it, is `Agreeing`: the operations on
   their way are all one tab's (`OneSender`); before the first edit all copies are
   the seeds (`Fresh`); and when everybody has seen what the tabs other than `s`
   did (`~OnItsWay(s)`), the messages from `s`, seen in their order, turn the
   receiver's copies into those of `s` (`Lag`). `Turns` states it as a run through
   the messages, which may begin after the first (`TurnsTail`) and go on past the
   last (`TurnsConcat`), as a handler and an edit do. If a tab only had to have
   seen everything itself before it edits, `OneSender` and the property would
   fail with three tabs.
3. `Screens`: engine and screen have the same text where no input method
   composes. A composition changes no copy, and its end is an edit like any other,
   from whatever text the engine has by then (`EditorInputStep`).

`FrontendProofs`, of the client: `OneConnectionAtATime` (`OneConnection`), for any
number of sockets and any bound on the timers. A step needs that the client's own
open socket has been greeted (`Greeted`), that the state is that of the one live
socket, which is the client's (`StateTrue`), and that the fields of the timers
name timers that run (`TimersTrue`, `ConnTypeOK`). Both theorems are about
`Frontend`'s specification: a step of the mock leaves the client alone, and the
other way round.

*Induction.* Loops over a window or a table's rows are recursive functions. The
library's induction theorems take an operator as a parameter, which the provers
cannot instantiate; but "every number is in the set of those for which the claim
holds" is a statement about a set, and follows from the well-foundedness of `<`
(`SetInduction`, by `WFMin`). In the same way a recursive function is shown to
exist, and its last value to be what the loop computes (`LoopExists`).

*Only model-checked.*

* Liveness (`AckArrives`, `HandlersReturn`, `SilentReaped`, `CallsReturn`,
  `LogThreadServes`, `EditorsHeal`, `Reconnects`): fairness and ENABLED are beyond
  this prover.

## Not modelled

* `MessageProtocol`, `HttpServer`, `Config`, `main`, `LogRotator` convert data or
  call the system and keep no state a property could be about. `Metrics` is
  counters, each changed in one atomic step, that only its report reads.
* Without a caller in the program: `OTAlgorithm::mergeOperations`,
  `Room::broadcastToAll`, `DocumentDAO::updateDocumentVersion`,
  `OperationDAO::deleteOperation` and `markOperationApplied`,
  `SnapshotManager::shouldCreateSnapshot` (its unsigned difference wraps after a
  rollback below the last snapshot), the engine's `transformOne`.
* The user and room controllers, which answer with made-up data; read-only
  queries; operation ids; JSON.
* `Logger`: `setMinLogLevel`, statistics, and `initialize` twice in a row, which
  assigns to a running thread and ends the program.
* Front end: creating and deleting documents beyond the seeds, closing a tab,
  `localStorage`, cursors, the user interface.
* `SessionManager` composed with `Room` and `WebSocketServer`: nothing in the
  program uses them together, so what a caller does with a `Room` that has been
  dropped under it is no behaviour of this code.

## Plan

Done, in this order: registry and directory with proofs; operation, document;
transformation and exchange; room and log with proofs; WebSocket server;
database with proofs and storage; persistence; sync manager; logger; front end
with the client's proof; the proofs of the WebSocket server, the sync manager,
the document, storage over the database's, persistence, the exchange, the tabs
and the logger.

Nothing of the plan is left. What the runs check and no theorem states is the
liveness above, and the three disagreements.
