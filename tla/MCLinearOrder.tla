------------------------------ MODULE MCLinearOrder ------------------------------
(***************************************************************************)
(* Model checking instance of LinearOrder, and of LoopTree below it.       *)
(***************************************************************************)
EXTENDS LinearOrder

CONSTANTS b0, b1, b2, b3

(* The terminators are made from the entry on. *)
Forwards == {SubSeq(<<b0, b1, b2, b3>>, 1, Cardinality(Nodes))}

Pairs(S) == {s \in UNION {[1 .. k -> S] : k \in 0 .. 2} : Len(s) = 2 => s[1] # s[2]}

(* Blocks with up to two different successors, no edge to the entry. *)
SimpleGraphs == [Nodes -> Pairs(Nodes \ {Entry})]

(* No block was erased. *)
Numbered == [g \in SimpleGraphs |->
               [b \in Nodes |-> CASE b = b0 -> 0 [] b = b1 -> 1 [] b = b2 -> 2 [] b = b3 -> 3]]
==============================================================================
