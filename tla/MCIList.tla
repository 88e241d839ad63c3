------------------------------- MODULE MCIList -------------------------------
(***************************************************************************)
(* Model checking instance of IList.  Two lists and four nodes: a range of *)
(* two nodes can be moved before, after or into the middle of two others,  *)
(* in the same list or in another.                                         *)
(***************************************************************************)
EXTENDS IList
=============================================================================
