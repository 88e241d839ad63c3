------------------------------ MODULE MCDomTree ------------------------------
(***************************************************************************)
(* Model checking instances of DomTree, and of the search it starts with.  *)
(***************************************************************************)
EXTENDS DomTree, RecursiveSearch

CONSTANTS b0, b1, b2, b3, b4

(* The terminators are made from the entry on, or back to it. *)
BothWays == LET n == Cardinality(Nodes)
                b == <<b0, b1, b2, b3, b4>>
            IN {SubSeq(b, 1, n), [i \in 1 .. n |-> b[n + 1 - i]]}
Forwards == {SubSeq(<<b0, b1, b2, b3, b4>>, 1, Cardinality(Nodes))}

Pairs(S) == {s \in UNION {[1 .. k -> S] : k \in 0 .. 2} : Len(s) = 2 => s[1] # s[2]}

(* The blocks are numbered from 0; where b2 is a block that returns it is  *)
(* the one that was made after another, which has been erased since.       *)
Consecutive == [b \in Nodes |-> CASE b = b0 -> 0 [] b = b1 -> 1 [] b = b2 -> 3
                                  [] b = b3 -> 2 [] b = b4 -> 4]
IdsOf(g) == IF g[b2] = << >> THEN [Consecutive EXCEPT ![b2] = Cardinality(Nodes)]
                             ELSE Consecutive

(* Every graph of all blocks but b3, which is left alone. *)
DenseGraphs ==
  LET S == Nodes \ {b3}
  IN {[b \in Nodes |-> IF b = b3 THEN << >> ELSE g[b]] :
        g \in [S -> UNION {[1 .. k -> S] : k \in 0 .. 2}]}

(* Those of all blocks without edges to the entry and parallel edges. *)
SimpleGraphs == [Nodes -> Pairs(Nodes \ {Entry})]

Graphs34 == SimpleGraphs \cup DenseGraphs
Ids34 == [g \in Graphs34 |-> IdsOf(g)]

(* The acyclic ones among the simple graphs, of five blocks in topological order. *)
AcyclicGraphs ==
  {[b \in Nodes |-> CASE b = b0 -> s0 [] b = b1 -> s1 [] b = b2 -> s2
                      [] b = b3 -> s3 [] b = b4 -> << >>] :
     s0 \in Pairs({b1, b2, b3, b4}), s1 \in Pairs({b2, b3, b4}),
     s2 \in Pairs({b3, b4}), s3 \in Pairs({b4})}

IdsAcyclic == [g \in AcyclicGraphs |-> Consecutive]

-----------------------------------------------------------------------------
(* The search with an explicit stack makes the calls the recursive one     *)
(* makes: same preorder, same postorder, same back edges (dfs.hh:50-82).   *)
SameAsRecursion ==
  phase = "dfs" /\ Stopped =>
    [pre |-> discovered, post |-> finished, back |-> backEdges] = SearchFrom(succs, Entry)
=============================================================================
