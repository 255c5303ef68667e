------------------------------ MODULE MCUtils -------------------------------
(* Model-checking instance of Utils: three browsers whose clocks are right   *)
(* and two others; texts of a few bytes or letters.                          *)
EXTENDS Utils
=============================================================================
