------------------------------ MODULE MCEditing ------------------------------
(* Model-checking instance of DocumentState and ConcurrentEdits, which     *)
(* share the arithmetic of Operation and nothing else: in a behaviour one  *)
(* of the two begins and the other stays as it is.                         *)
(*                                                                         *)
(* The document: two letters, operations of every type on texts of at most *)
(* one letter, at positions inside and just past the text and at the       *)
(* largest size_t, whose end wraps to 0; a window of two operations under  *)
(* three versions, so that it overflows.                                   *)
(*                                                                         *)
(* The exchange: a text of four characters, so that a delete can have      *)
(* deleted text on both sides of it and two ranges can overlap by less     *)
(* than either, and up to two typed characters.                            *)
EXTENDS DocumentState, ConcurrentEdits

MCWordMod == 16
MCText == {<<>>, <<"a">>, <<"a", "b">>}
MCOp == [type : OperationType, position : {0, 1, 2, MCWordMod - 1},
         content : {<<>>, <<"a">>, <<"b">>}, version : 1..3]

MCUser == {"u1", "u2"}
MCBase == <<"1", "2", "3", "4">>
MCTyped == [u \in MCUser |-> IF u = "u1" THEN <<"a", "b">> ELSE <<"x", "y">>]

EditingInit == Init /\ ExchangeInit

EditingNext ==
  \/ ExchangeInit /\ Next /\ UNCHANGED exchangeVars
  \/ Init /\ ExchangeNext /\ UNCHANGED vars

EditingSpec == EditingInit /\ [][EditingNext]_<<vars, exchangeVars>>
=============================================================================
