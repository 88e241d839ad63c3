------------------------------- MODULE MCDefUse -------------------------------
(***************************************************************************)
(* Model checking instance of DefUse.  The symmetry is sound: instructions *)
(* differ only by their operands and users, and no property is a liveness  *)
(* property.                                                               *)
(***************************************************************************)
EXTENDS DefUse, TLC

Symmetry == Permutations(Instrs)
=============================================================================
