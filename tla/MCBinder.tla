------------------------------ MODULE MCBinder ------------------------------
(* The visits of all programs with one ordinary name in each name space,   *)
(* "_main" for functions and "int" for types.                              *)
EXTENDS Binder
=============================================================================
