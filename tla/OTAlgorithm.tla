---------------------------- MODULE OTAlgorithm -----------------------------
(***************************************************************************)
(* src/src/core/OTAlgorithm.cpp and ConflictResolver.cpp: pure functions   *)
(* of two concurrent operations, records with userId, type, position,      *)
(* content, version and timestamp.                                         *)
(***************************************************************************)
EXTENDS Operation

Take(op, n) == [op EXCEPT !.content = SubSeq(@, 1, n)]
Drop(op, n) == [op EXCEPT !.content = SubSeq(@, n + 1, Len(@))]
ShiftRight(op, by) == [op EXCEPT !.position = Plus(@, Len(by.content))]
ShiftLeft(op, by) == [op EXCEPT !.position = Minus(@, Len(by.content))]

Before(a, b) == EndOf(a) <= b.position

TransformInsertInsert(local, remote) ==
  IF local.position <= remote.position THEN local ELSE ShiftRight(local, remote)

\* Mutant: an insert behind the deleted text stays where it was.
TransformInsertDeleteUnshifted(local, remote) ==
  IF local.position > remote.position /\ local.position < EndOf(remote)
    THEN [local EXCEPT !.position = remote.position] ELSE local

TransformInsertDelete(local, remote) ==
  IF local.position <= remote.position THEN local
  ELSE IF local.position < EndOf(remote) THEN [local EXCEPT !.position = remote.position]
  ELSE ShiftLeft(local, remote)

\* Mutant: a delete behind the insert stays where it was.
TransformDeleteInsertUnshifted(local, remote) ==
  IF Before(local, remote) \/ local.position >= remote.position THEN local
  ELSE Take(local, remote.position - local.position)

\* Mutant: an insert inside the deleted text does not cut the delete off.
TransformDeleteInsertWhole(local, remote) ==
  IF Before(local, remote) \/ local.position < remote.position THEN local
  ELSE ShiftRight(local, remote)

\* An insert strictly inside the deleted text cuts the delete off there.
TransformDeleteInsert(local, remote) ==
  IF Before(local, remote) THEN local
  ELSE IF local.position >= remote.position THEN ShiftRight(local, remote)
  ELSE IF remote.content # <<>> THEN Take(local, remote.position - local.position)
  ELSE local

\* Mutant: the rest of a delete that starts inside the other keeps its position.
TransformDeleteDeleteUnmoved(local, remote) ==
  LET covered == local.position >= remote.position /\ EndOf(local) <= EndOf(remote)
  IN  CASE Before(local, remote) -> local
        [] ~Before(local, remote) /\ Before(remote, local) -> ShiftLeft(local, remote)
        [] OTHER ->
             IF covered THEN [local EXCEPT !.type = "RETAIN", !.content = <<>>]
             ELSE IF local.position < remote.position
               THEN Take(local, remote.position - local.position)
             ELSE Drop(local, EndOf(remote) - local.position)

TransformDeleteDelete(local, remote) ==
  LET covered == local.position >= remote.position /\ EndOf(local) <= EndOf(remote)
      overlapStart == IF local.position >= remote.position THEN local.position ELSE remote.position
      overlapEnd == IF EndOf(local) <= EndOf(remote) THEN EndOf(local) ELSE EndOf(remote)
  IN  CASE Before(local, remote) -> local
        [] ~Before(local, remote) /\ Before(remote, local) -> ShiftLeft(local, remote)
        [] OTHER ->
             IF overlapStart >= overlapEnd
               THEN IF local.position > remote.position THEN ShiftLeft(local, remote) ELSE local
             ELSE IF covered THEN [local EXCEPT !.type = "RETAIN", !.content = <<>>]
             ELSE IF local.position < remote.position
               THEN Take(local, remote.position - local.position)
             ELSE [Drop(local, EndOf(remote) - local.position) EXCEPT !.position = remote.position]

AsDelete(op) == [op EXCEPT !.type = "DELETE"]

TransformInsertReplace(local, remote) == TransformInsertDelete(local, AsDelete(remote))
TransformDeleteReplace(local, remote) == TransformDeleteDelete(local, AsDelete(remote))

TransformReplaceInsert(local, remote) ==
  IF ~Before(local, remote) /\ local.position >= remote.position
    THEN ShiftRight(local, remote) ELSE local

TransformReplaceDelete(local, remote) ==
  IF ~Before(local, remote) /\ Before(remote, local)
    THEN ShiftLeft(local, remote) ELSE local

\* transform: operations of one user are left alone; a pair the table lacks
\* (a RETAIN on either side) and REPLACE against REPLACE change nothing.
Transform(local, remote) ==
  LET pair == <<local.type, remote.type>>
  IN  CASE local.userId = remote.userId   -> local
        [] local.userId # remote.userId   ->
             CASE pair = <<"INSERT", "INSERT">>   -> TransformInsertInsert(local, remote)
               [] pair = <<"INSERT", "DELETE">>   -> TransformInsertDelete(local, remote)
               [] pair = <<"INSERT", "REPLACE">>  -> TransformInsertReplace(local, remote)
               [] pair = <<"DELETE", "INSERT">>   -> TransformDeleteInsert(local, remote)
               [] pair = <<"DELETE", "DELETE">>   -> TransformDeleteDelete(local, remote)
               [] pair = <<"DELETE", "REPLACE">>  -> TransformDeleteReplace(local, remote)
               [] pair = <<"REPLACE", "INSERT">>  -> TransformReplaceInsert(local, remote)
               [] pair = <<"REPLACE", "DELETE">>  -> TransformReplaceDelete(local, remote)
               [] OTHER                           -> local

IsConflict(op1, op2) ==
  /\ ~Before(op1, op2) /\ ~Before(op2, op1)
  /\ op1.userId # op2.userId

-----------------------------------------------------------------------------
\* Mutant: ranges that only touch conflict.
CheckPositionConflictTouching(op1, op2) ==
  IF op1.position <= EndOf(op2) /\ op2.position <= EndOf(op1)
    THEN "POSITION_CONFLICT" ELSE "NONE"

(* ConflictResolver.                                                       *)
CheckPositionConflict(op1, op2) ==
  IF /\ {op1.type, op2.type} # {"RETAIN"}
     /\ op1.position < EndOf(op2) /\ op2.position < EndOf(op1)
    THEN "POSITION_CONFLICT" ELSE "NONE"

DetectConflict(localOp, remoteOp) ==
  IF localOp.userId = remoteOp.userId THEN "NONE"
  ELSE IF localOp.version # remoteOp.version THEN "VERSION_CONFLICT"
  ELSE CheckPositionConflict(localOp, remoteOp)

\* The operation with the newer timestamp is transformed and returned; on a
\* tie, the remote one.
ResolveConflict(localOp, remoteOp) ==
  IF localOp.timestamp > remoteOp.timestamp
    THEN Transform(localOp, remoteOp)
    ELSE Transform(remoteOp, localOp)
=============================================================================
