----------------------------- MODULE MCStorage ------------------------------
(* Model-checking instance of Storage.  Threads, connections and           *)
(* operations are interchangeable.                                         *)
EXTENDS Storage, TLC

Symmetry == Permutations(Thread) \cup Permutations(Conn) \cup Permutations(OpId)
=============================================================================
