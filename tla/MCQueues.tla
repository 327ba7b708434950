------------------------------ MODULE MCQueues -------------------------------
(* Model-checking instance of SyncManager and Logger, the two queues that  *)
(* some threads fill and others empty; nothing is shared between them: in  *)
(* a behaviour one of the two begins and the other stays as it is.         *)
EXTENDS SyncManager, Logger

QueuesInit == Init /\ LogInit

QueuesNext ==
  \/ LogInit /\ Next /\ UNCHANGED logVars
  \/ Init /\ LogNext /\ UNCHANGED vars

\* Nothing of the one that does not begin is ever enabled in Next or LogNext
\* but for its first call, which nobody has to make.
QueuesSpec ==
  /\ QueuesInit /\ [][QueuesNext]_<<vars, logVars>>
  /\ SyncFairness /\ LogFairness
=============================================================================
