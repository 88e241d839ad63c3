------------------------------ MODULE MCLiveness ------------------------------
(***************************************************************************)
(* Model checking instances of Liveness.                                   *)
(***************************************************************************)
EXTENDS Liveness

CONSTANTS b0, b1, b2, b3, k0, v0, w0, p0, t0, t1, t2, t3

(* The terminators are made from the entry on. *)
Forwards == {<<b0, b1, b2, b3>>}

(* Every block is reachable, and the first successor of the entry is b1. *)
Pairs(S) == {s \in UNION {[1 .. n -> S] : n \in 0 .. 2} : Len(s) = 2 => s[1] # s[2]}
ReachableGraphs ==
  {g \in [Nodes -> Pairs(Nodes \ {Entry})] :
     g[b0] # << >> /\ g[b0][1] = b1 /\ Reachable(g, Entry) = Nodes}

(* No block was erased. *)
NumberedIn(graphs) ==
  [g \in graphs |->
     [b \in Nodes |-> CASE b = b0 -> 0 [] b = b1 -> 1 [] b = b2 -> 2 [] b = b3 -> 3]]
Numbered == NumberedIn(ReachableGraphs)

(* k0 is a constant of the entry, which every IF and RET reads; v0 a       *)
(* constant of block d, w0 = v0 + (p0 or k0) an instruction of block e, p0 *)
(* a phi of block j (or of none) that reads w0, v0 or k0, whatever is      *)
(* defined there.                                                          *)
Term(b) == CASE b = b0 -> t0 [] b = b1 -> t1 [] b = b2 -> t2 [] b = b3 -> t3
Joins(g) == {j \in Nodes : Cardinality({q \in Nodes : IsEdge(g, q, j)}) = 2}
ReadFrom(g, d, e, q) ==
  IF Dominates(g, Entry, e, q) THEN w0 ELSE IF Dominates(g, Entry, d, q) THEN v0 ELSE k0
Program(g, d, e, j) ==
  LET phi == IF j = NoNode THEN <<>> ELSE
               LET qs == {q \in Nodes : IsEdge(g, q, j)}
                   q1 == CHOOSE q \in qs : TRUE
                   q2 == CHOOSE q \in qs \ {q1} : TRUE
               IN <<<<ReadFrom(g, d, e, q1), q1>>, <<ReadFrom(g, d, e, q2), q2>>>>
  IN [code |-> [b \in Nodes |-> (IF b = j THEN <<p0>> ELSE << >>)
                                \o (IF b = Entry THEN <<k0>> ELSE << >>)
                                \o (IF b = d THEN <<v0>> ELSE << >>)
                                \o (IF b = e THEN <<w0>> ELSE << >>) \o <<Term(b)>>],
      op |-> [i \in Ids |->
                CASE i \in {k0, v0} -> "CONST" [] i = w0 -> "BIN" [] i = p0 -> "PHI"
                  [] OTHER -> LET b == CHOOSE c \in Nodes : Term(c) = i
                              IN CASE Len(g[b]) = 0 -> "RET" [] Len(g[b]) = 1 -> "BRANCH"
                                   [] OTHER -> "IF"],
      inputs |-> [i \in Ids |->
                CASE i \in {k0, v0} -> << >>
                  [] i = w0 -> <<v0, IF j # NoNode /\ Dominates(g, Entry, j, e) THEN p0 ELSE k0>>
                  [] i = p0 -> [x \in DOMAIN phi |-> phi[x][1]]
                  [] OTHER -> LET b == CHOOSE c \in Nodes : Term(c) = i
                              IN IF Len(g[b]) = 1 THEN << >> ELSE <<k0>>],
      vars |-> [i \in Ids |-> IF i = p0 THEN phi ELSE << >>]]
AllPrograms(g) ==
  {Program(g, de[1], de[2], j) :
     de \in {x \in Nodes \X Nodes : Dominates(g, Entry, x[1], x[2])},
     j \in {NoNode} \cup Joins(g)}

-----------------------------------------------------------------------------
(* The graph of lecture_test() in the tests of the liveness and of the     *)
(* register allocator, and of its program one phi of the loop, the value   *)
(* v7 it reads over the back edge (w0 here) and what v7 reads.             *)
LectureGraph ==
  {[b \in Nodes |-> CASE b = b0 -> <<b1>> [] b = b1 -> <<b3, b2>> [] b = b2 -> <<b1>>
                     [] b = b3 -> << >>]}
LectureNumbered == NumberedIn(LectureGraph)
LectureProgram(g) == {Program(g, b0, b2, b1)}
=============================================================================
