-------------------------------- MODULE Logger --------------------------------
(***************************************************************************)
(* src/src/utils/Logger.cpp: lines are written by their caller, or queued  *)
(* and written by the log thread, as initialize() was told.  One thread of *)
(* the program initializes the logger and shuts it down, again and again   *)
(* (as test_logger.cpp does); the others log whenever they like.           *)
(*                                                                         *)
(* The n-th line of a caller is [by, n, blank, queued]: blank when its     *)
(* message is empty, queued when log() found asyncEnabled.  Lines below    *)
(* the minimum level do nothing and are left out.                          *)
(***************************************************************************)
EXTENDS Naturals, Sequences, FiniteSets

CONSTANTS Caller,
          MaxLines,   \* bound on the lines logged
          MaxLives,   \* bound on the calls of initialize
          NoLine

Line == [by : Caller, n : Nat \ {0}, blank : BOOLEAN, queued : BOOLEAN]

ASSUME LoggerAssumption == MaxLines \in Nat /\ MaxLives \in Nat /\ NoLine \notin Line

VARIABLES
  asyncEnabled,
  asyncRunning,
  logFile,      \* is logFile open?
  logQueue,
  queueMutex,   \* does the log thread hold queueMutex?
  out,          \* the lines written, in order
  thread,       \* where the log thread is
  entry,        \* the line it has taken
  notified,     \* has a notification reached it in its wait?
  control,      \* where the thread that initializes and shuts down is
  lives,        \* how often initialize was called
  file,         \* ghost: did initialize open a log file?
  logged,       \* logged[c]: the lines c has logged
  line          \* line[c]: the line c is logging, or NoLine

settings == <<asyncEnabled, asyncRunning, logFile, control, lives, file>>
callers == <<logged, line>>
logVars == <<settings, logQueue, queueMutex, out, thread, entry, notified, callers>>

LogInit ==
  /\ asyncEnabled = FALSE /\ asyncRunning = FALSE
  /\ logFile = FALSE /\ file = FALSE
  /\ logQueue = <<>> /\ queueMutex = FALSE /\ out = <<>>
  /\ thread = "none" /\ entry = NoLine /\ notified = FALSE
  /\ control = "down" /\ lives = 0
  /\ logged = [c \in Caller |-> <<>>] /\ line = [c \in Caller |-> NoLine]

-----------------------------------------------------------------------------
LinesIn(s) == {s[i] : i \in DOMAIN s}

(* A caller of log().                                                      *)
Log(c) ==
  /\ line[c] = NoLine
  /\ Cardinality(UNION {LinesIn(logged[d]) : d \in Caller}) < MaxLines
  /\ \E blank \in BOOLEAN :
       LET l == [by |-> c, n |-> Len(logged[c]) + 1, blank |-> blank, queued |-> asyncEnabled]
       IN  /\ line' = [line EXCEPT ![c] = l]
           /\ logged' = [logged EXCEPT ![c] = Append(@, l)]
  /\ UNCHANGED <<settings, logQueue, queueMutex, out, thread, entry, notified>>

\* The push, under queueMutex, and notify_one, which is lost unless the log
\* thread waits.
Push(c) ==
  /\ line[c] # NoLine /\ line[c].queued /\ ~queueMutex
  /\ logQueue' = Append(logQueue, line[c])
  /\ notified' = (notified \/ thread = "asleep")
  /\ line' = [line EXCEPT ![c] = NoLine]
  /\ UNCHANGED <<settings, queueMutex, out, thread, entry, logged>>

\* To the console, and to the log file if it is open.
WriteLog(l) == out' = Append(out, l)

WriteDirectly(c) ==
  /\ line[c] # NoLine /\ ~line[c].queued
  /\ WriteLog(line[c])
  /\ line' = [line EXCEPT ![c] = NoLine]
  /\ UNCHANGED <<settings, logQueue, queueMutex, thread, entry, notified, logged>>

-----------------------------------------------------------------------------
(* initialize and shutdown.                                                *)

\* The log file can fail to open: then the thread is not started, though
\* asyncEnabled is set.
Initialize ==
  /\ control = "down" /\ lives < MaxLives
  /\ lives' = lives + 1
  /\ asyncEnabled' \in BOOLEAN
  /\ \/ /\ logFile' \in BOOLEAN
        /\ asyncRunning' = asyncEnabled'
        /\ thread' = IF asyncEnabled' THEN "test" ELSE "none"
        /\ control' = "up"
     \/ logFile' = FALSE /\ control' = "failed" /\ UNCHANGED <<asyncRunning, thread>>
  /\ file' = logFile'
  /\ UNCHANGED <<logQueue, queueMutex, out, entry, notified, callers>>

\* shutdown(): asyncRunning is cleared and the log thread notified, both
\* without queueMutex.
StopFlag ==
  /\ control \in {"up", "failed"}
  /\ asyncRunning' = IF asyncEnabled THEN FALSE ELSE asyncRunning
  /\ notified' = (notified \/ (asyncEnabled /\ thread = "asleep"))
  /\ control' = IF asyncEnabled /\ thread # "none" THEN "joining" ELSE "closing"
  /\ UNCHANGED <<asyncEnabled, logFile, lives, file, logQueue, queueMutex, out, thread,
                 entry, callers>>

\* Mutant: the thread is told to stop and not waited for.
JoinNever ==
  /\ control = "joining"
  /\ control' = "closing"
  /\ UNCHANGED <<asyncEnabled, asyncRunning, logFile, lives, file, logQueue, queueMutex,
                 out, thread, entry, notified, callers>>

Join ==
  /\ control = "joining" /\ thread = "ended"
  /\ thread' = "none"
  /\ control' = "closing"
  /\ UNCHANGED <<asyncEnabled, asyncRunning, logFile, lives, file, logQueue, queueMutex,
                 out, entry, notified, callers>>

CloseFile ==
  /\ control = "closing"
  /\ logFile' = FALSE
  /\ control' = "down"
  /\ UNCHANGED <<asyncEnabled, asyncRunning, lives, file, logQueue, queueMutex, out,
                 thread, entry, notified, callers>>

-----------------------------------------------------------------------------
(* The log thread, processLogQueue.                                        *)
TestRunning ==
  /\ thread = "test"
  /\ thread' = IF asyncRunning THEN "check" ELSE "ended"
  /\ UNCHANGED <<settings, logQueue, queueMutex, out, entry, notified, callers>>

\* Mutant: the newest line is taken.
TakeNewest ==
  /\ thread = "check" /\ logQueue # <<>>
  /\ entry' = logQueue[Len(logQueue)] /\ logQueue' = SubSeq(logQueue, 1, Len(logQueue) - 1)
  /\ thread' = "write"
  /\ UNCHANGED <<settings, queueMutex, out, notified, callers>>

\* wait_for tests its predicate under queueMutex, and takes the front line...
Take ==
  /\ thread = "check" /\ logQueue # <<>>
  /\ entry' = Head(logQueue) /\ logQueue' = Tail(logQueue)
  /\ thread' = "write"
  /\ UNCHANGED <<settings, queueMutex, out, notified, callers>>

\* ...or ends with the logger...
Break ==
  /\ thread = "check" /\ logQueue = <<>> /\ ~asyncRunning
  /\ thread' = "ended"
  /\ UNCHANGED <<settings, logQueue, queueMutex, out, entry, notified, callers>>

\* ...or is about to wait: it holds queueMutex until it does.
Prepare ==
  /\ thread = "check" /\ logQueue = <<>> /\ asyncRunning
  /\ queueMutex' = TRUE
  /\ thread' = "blocking"
  /\ UNCHANGED <<settings, logQueue, out, entry, notified, callers>>

Block ==
  /\ thread = "blocking"
  /\ queueMutex' = FALSE /\ notified' = FALSE
  /\ thread' = "asleep"
  /\ UNCHANGED <<settings, logQueue, out, entry, callers>>

Wake ==
  /\ thread = "asleep" /\ notified
  /\ thread' = "check"
  /\ UNCHANGED <<settings, logQueue, queueMutex, out, entry, notified, callers>>

\* Mutant: wait instead of wait_for.
TimeOutNever == thread = "timer" /\ UNCHANGED logVars

\* The 100 ms are over: wait_for tests its predicate once more, and with
\* nothing to take the loop goes round.
TimeOut ==
  /\ thread = "asleep"
  /\ thread' = IF logQueue = <<>> /\ asyncRunning THEN "test" ELSE "check"
  /\ UNCHANGED <<settings, logQueue, queueMutex, out, entry, notified, callers>>

\* A blank line is taken for a wait that found nothing.
WriteEntry ==
  /\ thread = "write"
  /\ IF entry.blank THEN out' = out ELSE WriteLog(entry)
  /\ entry' = NoLine
  /\ thread' = "test"
  /\ UNCHANGED <<settings, logQueue, queueMutex, notified, callers>>

LogThread ==
  \/ TestRunning \/ Take \/ Break \/ Prepare \/ Block \/ Wake \/ TimeOut \/ WriteEntry

LogNext ==
  \/ \E c \in Caller : Log(c) \/ Push(c) \/ WriteDirectly(c)
  \/ Initialize \/ StopFlag \/ Join \/ CloseFile
  \/ LogThread

LogSpec == LogInit /\ [][LogNext]_logVars

\* The program's threads run, and a call that has begun goes on.
LogFairness ==
  /\ WF_logVars(LogThread)
  /\ WF_logVars(Join) /\ WF_logVars(CloseFile)
  /\ \A c \in Caller : SF_logVars(Push(c)) /\ WF_logVars(WriteDirectly(c))

LogFairSpec == LogSpec /\ LogFairness

-----------------------------------------------------------------------------
Pending == (IF entry = NoLine THEN <<>> ELSE <<entry>>) \o logQueue

(* Across restarts and failures of initialize, every line, save a blank    *)
(* one that was queued, is written exactly once or still pending, and the  *)
(* log thread finds the log file open for each line it writes.             *)
LinesKept ==
  LET all == out \o Pending
  IN  /\ Cardinality(LinesIn(all)) = Len(all)
      /\ \A c \in Caller : \A l \in LinesIn(logged[c]) \ {line[c]} :
           l \in LinesIn(all) \/ (l.blank /\ l.queued)
      /\ thread \notin {"none", "ended"} => logFile = file

(* A caller's lines come out in the order they were logged, except that a  *)
(* line written directly overtakes those an earlier life left queued.      *)
OnlyDirectOvertakes ==
  \A i, j \in DOMAIN out :
    i < j /\ out[i].by = out[j].by /\ out[i].n > out[j].n
      => ~out[i].queued /\ out[j].queued

(* What is queued gets written unless the logger is shut down meanwhile,   *)
(* and shutdown returns, though its notification may find the log thread   *)
(* not waiting yet.                                                        *)
LogThreadServes ==
  /\ (asyncRunning /\ logQueue # <<>>) ~> (~asyncRunning \/ logQueue = <<>>)
  /\ (control = "joining") ~> (control = "down")
=============================================================================
