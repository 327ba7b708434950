------------------------------- MODULE MCRoom -------------------------------
(* Model-checking instance of Room.                                        *)
EXTENDS Room
=============================================================================
