--------------------------- MODULE MCPersistence ----------------------------
(* Model-checking instance of Persistence: three versions, of which the    *)
(* second can come about in two ways, so that two lives of the document    *)
(* may differ; texts tell the versions apart.                              *)
EXTENDS Persistence

MCWordMod == 8

Insert(version, position, letter) ==
  [type |-> "INSERT", position |-> position, content |-> <<letter>>, version |-> version]

MCOp == {Insert(1, 0, "a"), Insert(2, 0, "b"), Insert(2, 1, "b"), Insert(3, 1, "c")}
=============================================================================
