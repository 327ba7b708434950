----------------------------- MODULE Operation ------------------------------
(***************************************************************************)
(* Edit operations (core::Operation) and what they do to a text, shared by *)
(* the document, the transformation and the rooms.  A text is a sequence   *)
(* of characters; positions count from 0 as in the code.  Positions and    *)
(* lengths are size_t: sums and differences wrap at WordMod, which is 2^64 *)
(* in the program and a small power of two in the instances.               *)
(***************************************************************************)
EXTENDS Integers, Sequences

CONSTANT WordMod

ASSUME WordModAssumption == WordMod \in Nat \ {0}

OperationType == {"INSERT", "DELETE", "REPLACE", "RETAIN"}

Plus(a, b) == (a + b) % WordMod
Minus(a, b) == (a - b) % WordMod

\* One past the last character an operation covers, as the code computes it.
EndOf(op) == Plus(op.position, Len(op.content))

\* std::string::insert, erase and replace, for a position inside the text.
InsertAt(s, p, t) == SubSeq(s, 1, p) \o t \o SubSeq(s, p + 1, Len(s))
EraseAt(s, p, n) == SubSeq(s, 1, p) \o SubSeq(s, p + n + 1, Len(s))
ReplaceAt(s, p, t) == SubSeq(s, 1, p) \o t \o SubSeq(s, p + Len(t) + 1, Len(s))

\* The text after an operation that is executed.
Edited(s, op) ==
  CASE op.type = "INSERT"  -> InsertAt(s, op.position, op.content)
    [] op.type = "DELETE"  -> EraseAt(s, op.position, Len(op.content))
    [] op.type = "REPLACE" -> ReplaceAt(s, op.position, op.content)
    [] OTHER               -> s

\* validatePosition: a fresh document takes position 0 only, whatever the type.
ValidPosition(s, version, op) ==
  IF version = 0 /\ s = <<>>
    THEN op.position = 0
    ELSE \/ op.type = "INSERT" /\ op.position <= Len(s)
         \/ op.type # "INSERT" /\ EndOf(op) <= Len(s)

\* executeInsert, executeDelete, executeReplace return true; std::string
\* throws, and they return false, when the position is past the end.
Executes(s, op) ==
  \/ op.type = "RETAIN"
  \/ op.type = "INSERT" /\ op.position <= Len(s)
  \/ op.type \in {"DELETE", "REPLACE"} /\ EndOf(op) <= Len(s) /\ op.position <= Len(s)

\* Mutant: any newer version is taken.
ResultOfNewer(s, version, op) ==
  CASE op.version <= version            -> "VERSION_CONFLICT"
    [] ~ValidPosition(s, version, op)   -> "POSITION_OUT_OF_RANGE"
    [] ~Executes(s, op)                 -> "INVALID_OPERATION"
    [] OTHER                            -> "SUCCESS"

\* The OperationResult of applying op to text s at the given version.
ResultOf(s, version, op) ==
  CASE op.version # version + 1         -> "VERSION_CONFLICT"
    [] ~ValidPosition(s, version, op)   -> "POSITION_OUT_OF_RANGE"
    [] ~Executes(s, op)                 -> "INVALID_OPERATION"
    [] OTHER                            -> "SUCCESS"
=============================================================================
