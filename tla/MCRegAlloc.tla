----------------------------- MODULE MCRegAlloc -----------------------------
(***************************************************************************)
(* Model checking instance of RegAlloc: four values, two registers.        *)
(***************************************************************************)
EXTENDS RegAlloc

Points4 == 0 .. 4
=============================================================================
