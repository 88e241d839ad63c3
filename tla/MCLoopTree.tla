------------------------------ MODULE MCLoopTree ------------------------------
(***************************************************************************)
(* Model checking instances of LoopTree.                                   *)
(***************************************************************************)
EXTENDS LoopTree

CONSTANTS b0, b1, b2, b3, b4, b5

(* The terminators are made from the entry on. *)
Forwards == {SubSeq(<<b0, b1, b2, b3, b4, b5>>, 1, Cardinality(Nodes))}

Pairs(S) == {s \in UNION {[1 .. k -> S] : k \in 0 .. 2} : Len(s) = 2 => s[1] # s[2]}

(* b2, b3, b4 are to be a loop inside of the loop of b1, ..., b5.          *)
Nests ==
  {[b \in Nodes |-> CASE b = b0 -> <<b1>> [] b = b1 -> <<b2>> \o s1 [] b = b2 -> <<b3>>
                       [] b = b3 -> <<b4>> \o s3 [] b = b4 -> s4 [] b = b5 -> s5] :
     s1 \in {<< >>, <<b5>>}, s3 \in {<< >>, <<b5>>},
     s4 \in Pairs({b2, b5}), s5 \in {<< >>, <<b1>>}}

(* No block was erased. *)
Numbered == [g \in Nests |->
               [b \in Nodes |-> CASE b = b0 -> 0 [] b = b1 -> 1 [] b = b2 -> 2
                                  [] b = b3 -> 3 [] b = b4 -> 4 [] b = b5 -> 5]]
=============================================================================
