-------------------------- MODULE SessionDirectory --------------------------
(***************************************************************************)
(* What SessionManager promises to its callers, with the Room objects      *)
(* hidden: a set of open rooms and, for each user, the one open room the   *)
(* user is in, or Nil.                                                     *)
(***************************************************************************)
CONSTANTS UserId, RoomId, Nil

VARIABLES open,   \* the room ids that can be joined
          where   \* the room each user is in, or Nil

dirVars == <<open, where>>

DirInit == open = {} /\ where = [u \in UserId |-> Nil]

Occupied(r) == \E u \in UserId : where[u] = r

Open(r) ==
  /\ r \notin open
  /\ open' = open \cup {r}
  /\ UNCHANGED where

\* Closing a room sends everybody in it out of it.
Close(r) ==
  /\ r \in open
  /\ open' = open \ {r}
  /\ where' = [u \in UserId |-> IF where[u] = r THEN Nil ELSE where[u]]

Enter(u, r) ==
  /\ r \in open
  /\ where' = [where EXCEPT ![u] = r]
  /\ UNCHANGED open

Leave(u) ==
  /\ where[u] # Nil
  /\ where' = [where EXCEPT ![u] = Nil]
  /\ UNCHANGED open

\* Sweeping closes the empty rooms, all of them and no other.
Sweep ==
  /\ open' = {r \in open : Occupied(r)}
  /\ UNCHANGED where

DirNext ==
  \/ \E r \in RoomId : Open(r) \/ Close(r)
  \/ \E u \in UserId, r \in RoomId : Enter(u, r)
  \/ \E u \in UserId : Leave(u)
  \/ Sweep

DirSpec == DirInit /\ [][DirNext]_dirVars
=============================================================================
