------------------------------- MODULE MCAOI -------------------------------
(* Model-checking instance of AOI.                                          *)
EXTENDS AOI, TLC

CONSTANTS n1, n2, n3

MCAxisOrder == <<"x", "y">>
MCCoord == [a \in {"x", "y"} |-> IF a = "x" THEN {1, 2} ELSE {1}]
=============================================================================
