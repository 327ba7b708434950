------------------------------ MODULE MCFrontend ------------------------------
(* Model-checking instance of Frontend.                                    *)
EXTENDS Frontend

CONSTANTS d1, d2

MCTyped == {<<1>>, <<1, 2, 1>>}
MCSeed == [d \in Doc |-> IF d = d1 THEN <<1>> ELSE <<>>]
=============================================================================
