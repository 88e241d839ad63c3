----------------------------- MODULE DomTreeProofs -----------------------------
(***************************************************************************)
(* Proofs about DomTree for every graph.  First what the operators of      *)
(* CFGraph compute: the set of blocks that can be reached, and the vector  *)
(* of predecessors.  Both are recursive functions, so the facts about      *)
(* induction come before them, in the form in which they need no operator  *)
(* for a parameter: sets of numbers for predicates, functions for the      *)
(* steps of a recursion.  What the search hands over is taken from         *)
(* DFSProofs.                                                              *)
(***************************************************************************)
EXTENDS DomTree, FiniteSetTheorems, WellFoundedInduction, TLAPS

-----------------------------------------------------------------------------
(* Induction.                                                              *)

(* A set of numbers has a least element. *)
LEMMA LeastNumber ==
  ASSUME NEW S \in SUBSET Nat, S # {}
  PROVE  \E m \in S : \A k \in S : m <= k
<1> DEFINE R == OpToRel(<, Nat)
<1>1. IsWellFoundedOn(R, Nat)
  BY NatLessThanWellFounded
<1>2. \A j, k \in Nat : <<j, k>> \in R <=> j < k
  BY Zenon DEF OpToRel
<1> HIDE DEF R
<1>3. PICK m \in S : \A k \in S : ~(<<k, m>> \in R)
  BY <1>1, WFMin, Zenon
<1>4. \A k \in S : ~(k < m)
  BY <1>2, <1>3
<1> QED
  BY <1>4

LEMMA StrongInduction ==
  ASSUME NEW S, \A n \in Nat : (\A m \in Nat : m < n => m \in S) => n \in S
  PROVE  Nat \subseteq S
<1> SUFFICES ASSUME Nat \ S # {} PROVE FALSE
  OBVIOUS
<1>1. PICK m \in Nat \ S : \A k \in Nat \ S : m <= k
  BY LeastNumber
<1> QED
  BY <1>1

LEMMA Induction ==
  ASSUME NEW S, 0 \in S, \A n \in Nat : n \in S => n + 1 \in S
  PROVE  Nat \subseteq S
<1>1. ASSUME NEW n \in Nat, \A m \in Nat : m < n => m \in S
      PROVE  n \in S
  <2>1. CASE n = 0
    BY <2>1
  <2>2. CASE n # 0
    <3>1. n - 1 \in Nat /\ n - 1 < n /\ n = (n - 1) + 1
      BY <2>2
    <3>2. n - 1 \in S
      BY <1>1, <3>1
    <3> QED
      BY <3>1, <3>2
  <2> QED
    BY <2>1, <2>2
<1> QED
  BY <1>1, StrongInduction

(* Induction up to a bound. *)
LEMMA BoundedInduction ==
  ASSUME NEW n \in Nat, NEW S, 0 \in S, \A k \in 1 .. n : k - 1 \in S => k \in S
  PROVE  0 .. n \subseteq S
<1> DEFINE T == {k \in Nat : k <= n => k \in S}
<1>1. 0 \in T
  OBVIOUS
<1>2. ASSUME NEW k \in Nat, k \in T PROVE k + 1 \in T
  BY <1>2
<1> HIDE DEF T
<1>3. Nat \subseteq T
  BY <1>1, <1>2, Induction
<1> QED
  BY <1>3 DEF T

(* f are the values of a recursion over 0 .. n that begins with a and takes *)
(* the steps G.                                                             *)
Iterates(f, V, n, a, G) ==
  f \in [0 .. n -> V] /\ f[0] = a /\ \A k \in 1 .. n : f[k] = G[<<f[k - 1], k>>]

LEMMA Iteration ==
  ASSUME NEW V, NEW n \in Nat, NEW a \in V, NEW G \in [V \X (1 .. n) -> V]
  PROVE  \E f : Iterates(f, V, n, a, G)
<1> DEFINE Goes(f, m) == f[0] = a /\ \A k \in 1 .. m : f[k] = G[<<f[k - 1], k>>]
           S == {m \in 0 .. n : \E f \in [0 .. m -> V] : Goes(f, m)}
<1>1. 0 \in S
  <2> DEFINE g == [k \in 0 .. 0 |-> a]
  <2>1. g \in [0 .. 0 -> V] /\ g[0] = a
    OBVIOUS
  <2> HIDE DEF g
  <2>2. Goes(g, 0)
    BY <2>1
  <2> QED
    BY <2>1, <2>2
<1>2. ASSUME NEW m \in 1 .. n, m - 1 \in S
      PROVE  m \in S
  <2>1. PICK f \in [0 .. m - 1 -> V] : Goes(f, m - 1)
    BY <1>2
  <2> DEFINE g == [k \in 0 .. m |-> IF k = m THEN G[<<f[m - 1], m>>] ELSE f[k]]
  <2>2. f[m - 1] \in V /\ G[<<f[m - 1], m>>] \in V
    BY <2>1
  <2>3. g \in [0 .. m -> V]
    BY <2>2
  <2>4. Goes(g, m)
    <3>1. g[0] = a
      BY <2>1
    <3>2. ASSUME NEW k \in 1 .. m PROVE g[k] = G[<<g[k - 1], k>>]
      <4>1. k - 1 \in 0 .. m /\ k - 1 # m /\ g[k - 1] = f[k - 1]
        OBVIOUS
      <4>2. CASE k = m
        <5>1. g[m] = G[<<f[m - 1], m>>]
          OBVIOUS
        <5> QED
          BY <4>1, <4>2, <5>1
      <4>3. CASE k # m
        <5>1. k \in 1 .. m - 1 /\ g[k] = f[k]
          BY <4>3
        <5> QED
          BY <2>1, <4>1, <5>1
      <4> QED
        BY <4>2, <4>3
    <3> HIDE DEF g
    <3> QED
      BY <3>1, <3>2
  <2>5. m \in 0 .. n
    OBVIOUS
  <2> HIDE DEF g, Goes
  <2> QED
    BY <2>3, <2>4, <2>5
<1> HIDE DEF S
<1>3. n \in S
  BY <1>1, <1>2, BoundedInduction
<1> QED
  BY <1>3 DEF S, Iterates

-----------------------------------------------------------------------------
(* ReachAvoiding.                                                          *)

Spread(graph, Avoid, r) ==
  r \cup ({v \in Blocks(graph) : \E u \in r : IsEdge(graph, u, v)} \ Avoid)

Confined(graph, T, Avoid) ==
  \A u \in T : \A v \in Blocks(graph) \ Avoid : IsEdge(graph, u, v) => v \in T

(* The steps of the search, of which ReachAvoiding is the last. *)
SpreadSteps(f, graph, S, Avoid, n) ==
  /\ f \in [0 .. n -> SUBSET Blocks(graph)]
  /\ f[0] = S \ Avoid
  /\ \A k \in 1 .. n : f[k] = Spread(graph, Avoid, f[k - 1])

LEMMA ReachSteps ==
  ASSUME NEW graph, NEW S \in SUBSET Blocks(graph), NEW Avoid, IsFiniteSet(Blocks(graph))
  PROVE  \E f : /\ SpreadSteps(f, graph, S, Avoid, Cardinality(Blocks(graph)))
                /\ ReachAvoiding(graph, S, Avoid) = f[Cardinality(Blocks(graph))]
<1> DEFINE n == Cardinality(Blocks(graph))
           V == SUBSET Blocks(graph)
           G == [w \in V \X (1 .. n) |-> Spread(graph, Avoid, w[1])]
<1>1. n \in Nat
  BY FS_CardinalityType
<1>2. S \ Avoid \in V
  OBVIOUS
<1>3. \A r \in V : Spread(graph, Avoid, r) \in V
  BY DEF Spread
<1>4. G \in [V \X (1 .. n) -> V]
  BY <1>3
<1>5. \A r \in V, k \in 1 .. n : G[<<r, k>>] = Spread(graph, Avoid, r)
  OBVIOUS
<1> HIDE DEF n, V, G
<1>6. PICK f : Iterates(f, V, n, S \ Avoid, G)
  BY <1>1, <1>2, <1>4, Iteration
<1> USE DEF Iterates
<1>7. \A k \in 1 .. n : f[k] = Spread(graph, Avoid, f[k - 1])
  <2> TAKE k \in 1 .. n
  <2>1. k - 1 \in 0 .. n
    BY <1>1
  <2>2. f[k - 1] \in V
    BY <1>6, <2>1
  <2> QED
    BY <1>5, <1>6, <2>2
<1> DEFINE Sol(g) == g = [k \in 0 .. n |-> IF k = 0 THEN S \ Avoid
                                           ELSE LET r == g[k - 1]
                                                IN r \cup ({v \in Blocks(graph) :
                                                             \E u \in r : IsEdge(graph, u, v)} \ Avoid)]
<1>8. Sol(f)
  <2>1. f = [k \in 0 .. n |-> f[k]]
    BY <1>6
  <2>2. \A k \in 0 .. n : f[k] = IF k = 0 THEN S \ Avoid ELSE Spread(graph, Avoid, f[k - 1])
    BY <1>1, <1>6, <1>7
  <2> QED
    BY <2>1, <2>2 DEF Spread
<1> DEFINE g == CHOOSE g : Sol(g)
<1>9. Sol(g)
  BY <1>8, Zenon
<1>10. ReachAvoiding(graph, S, Avoid) = g[n]
  BY DEF ReachAvoiding, n
<1> HIDE DEF g
<1>11. /\ g[0] = S \ Avoid /\ \A k \in 1 .. n : g[k] = Spread(graph, Avoid, g[k - 1])
       /\ g = [k \in 0 .. n |-> g[k]]
  <2>1. g = [k \in 0 .. n |-> IF k = 0 THEN S \ Avoid ELSE Spread(graph, Avoid, g[k - 1])]
    BY <1>9 DEF Spread
  <2>2. \A k \in 0 .. n : g[k] = IF k = 0 THEN S \ Avoid ELSE Spread(graph, Avoid, g[k - 1])
    BY <2>1
  <2>3. g = [k \in 0 .. n |-> g[k]]
    BY <2>1
  <2>4. g[0] = S \ Avoid
    BY <1>1, <2>2
  <2>5. \A k \in 1 .. n : k \in 0 .. n /\ k # 0
    BY <1>1
  <2>6. \A k \in 1 .. n : g[k] = Spread(graph, Avoid, g[k - 1])
    BY <2>2, <2>5
  <2> QED
    BY <2>3, <2>4, <2>6
<1> HIDE DEF Sol
<1> DEFINE K == {k \in 0 .. n : g[k] \in V}
<1>12. 0 .. n \subseteq K
  <2>1. 0 \in K
    BY <1>1, <1>2, <1>11
  <2>2. ASSUME NEW k \in 1 .. n, k - 1 \in K PROVE k \in K
    <3>1. g[k - 1] \in V /\ k \in 0 .. n
      BY <1>1, <2>2
    <3>2. Spread(graph, Avoid, g[k - 1]) \in V
      BY <1>3, <3>1
    <3> QED
      BY <1>11, <3>1, <3>2
  <2> HIDE DEF K
  <2> QED
    BY <1>1, <2>1, <2>2, BoundedInduction
<1>13. g \in [0 .. n -> V]
  BY <1>11, <1>12
<1> QED
  BY <1>10, <1>11, <1>13 DEF n, V, SpreadSteps

(***************************************************************************)
(* ReachAvoiding is the least set that contains S and the successors of    *)
(* its members, but for what is avoided: the steps stop growing before     *)
(* they run out, each of them adding a block or none.                      *)
(***************************************************************************)
LEMMA ReachFacts ==
  ASSUME NEW graph, NEW S \in SUBSET Blocks(graph), NEW Avoid, IsFiniteSet(Blocks(graph))
  PROVE  LET R == ReachAvoiding(graph, S, Avoid)
         IN /\ S \ Avoid \subseteq R /\ R \subseteq Blocks(graph)
            /\ Confined(graph, R, Avoid)
            /\ \A T : S \ Avoid \subseteq T /\ Confined(graph, T, Avoid) => R \subseteq T
<1> DEFINE n == Cardinality(Blocks(graph))
           R == ReachAvoiding(graph, S, Avoid)
<1>1. n \in Nat
  BY FS_CardinalityType
<1>2. PICK f : SpreadSteps(f, graph, S, Avoid, n) /\ R = f[n]
  BY ReachSteps
<1> USE DEF SpreadSteps
<1>3. \A k \in 0 .. n : IsFiniteSet(f[k]) /\ Cardinality(f[k]) \in Nat /\ Cardinality(f[k]) <= n
  BY <1>2, FS_Subset, FS_CardinalityType
<1> HIDE DEF n, R
<1> DEFINE Fixed(k) == Spread(graph, Avoid, f[k]) = f[k]
           K == {k \in 0 .. n : Fixed(k) \/ Cardinality(f[k]) >= k}
<1>4. n \in K
  <2>1. 0 \in K
    BY <1>1, <1>3
  <2>2. ASSUME NEW k \in 1 .. n, k - 1 \in K PROVE k \in K
    <3>1. k - 1 \in 0 .. n /\ f[k] = Spread(graph, Avoid, f[k - 1])
      BY <1>1, <1>2
    <3>2. CASE Fixed(k - 1)
      BY <3>1, <3>2
    <3>3. CASE ~Fixed(k - 1)
      <4>1. f[k - 1] \subseteq f[k] /\ f[k - 1] # f[k]
        BY <3>1, <3>3 DEF Spread
      <4>2. Cardinality(f[k - 1]) < Cardinality(f[k])
        BY <1>3, <3>1, <4>1, FS_Subset
      <4>3. Cardinality(f[k - 1]) >= k - 1
        BY <2>2, <3>3
      <4> QED
        BY <1>1, <1>3, <3>1, <4>2, <4>3
    <3> QED
      BY <3>2, <3>3
  <2> HIDE DEF K
  <2> QED
    BY <1>1, <2>1, <2>2, BoundedInduction
<1>5. Fixed(n)
  <2> SUFFICES ASSUME ~Fixed(n) PROVE FALSE
    OBVIOUS
  <2>1. Cardinality(f[n]) = n
    BY <1>1, <1>3, <1>4
  <2>2. f[n] = Blocks(graph)
    BY <1>1, <1>2, <2>1, FS_Subset DEF n
  <2> QED
    BY <2>2 DEF Spread
<1>6. Confined(graph, R, Avoid)
  BY <1>2, <1>5 DEF Confined, Spread
<1>7. R \subseteq Blocks(graph)
  BY <1>1, <1>2
<1>8. S \ Avoid \subseteq R
  <2> DEFINE L == {k \in 0 .. n : S \ Avoid \subseteq f[k]}
  <2>1. 0 \in L
    BY <1>1, <1>2
  <2>2. ASSUME NEW k \in 1 .. n, k - 1 \in L PROVE k \in L
    BY <1>2, <2>2 DEF Spread
  <2> HIDE DEF L
  <2>3. n \in L
    BY <1>1, <2>1, <2>2, BoundedInduction
  <2> QED
    BY <1>2, <2>3 DEF L
<1>9. ASSUME NEW T, S \ Avoid \subseteq T, Confined(graph, T, Avoid)
      PROVE  R \subseteq T
  <2> DEFINE L == {k \in 0 .. n : f[k] \subseteq T}
  <2>1. 0 \in L
    BY <1>1, <1>2, <1>9
  <2>2. ASSUME NEW k \in 1 .. n, k - 1 \in L PROVE k \in L
    BY <1>2, <1>9, <2>2 DEF Spread, Confined
  <2> HIDE DEF L
  <2>3. n \in L
    BY <1>1, <2>1, <2>2, BoundedInduction
  <2> QED
    BY <1>2, <2>3 DEF L
<1> QED
  BY <1>6, <1>7, <1>8, <1>9 DEF R

(* More can be reached from more, and with less to avoid. *)
LEMMA ReachMonotone ==
  ASSUME NEW graph, IsFiniteSet(Blocks(graph)), NEW S \in SUBSET Blocks(graph), NEW Avoid,
         NEW T \in SUBSET Blocks(graph), NEW Less, S \subseteq T, Less \subseteq Avoid
  PROVE  ReachAvoiding(graph, S, Avoid) \subseteq ReachAvoiding(graph, T, Less)
<1> DEFINE R == ReachAvoiding(graph, S, Avoid)
           Q == ReachAvoiding(graph, T, Less)
<1>1. T \ Less \subseteq Q /\ Confined(graph, Q, Less)
  BY ReachFacts
<1>2. \A U : S \ Avoid \subseteq U /\ Confined(graph, U, Avoid) => R \subseteq U
  BY ReachFacts
<1> HIDE DEF Q, R
<1>3. S \ Avoid \subseteq Q /\ Confined(graph, Q, Avoid)
  BY <1>1 DEF Confined
<1> QED
  BY <1>2, <1>3 DEF Q, R

(* The order in which the terminators were made names every block. *)
LEMMA FiniteNodes ==
  ASSUME NEW order \in MadeOrders
  PROVE  IsFiniteSet(Nodes)
<1> DEFINE n == Len(order)
           f == [i \in 1 .. n |-> order[i]]
<1>1. order \in Seq(Nodes) /\ n \in Nat /\ DOMAIN order = 1 .. n
      /\ \A b \in Nodes : \E i \in 1 .. n : order[i] = b
  BY MadeAssumption
<1>2. IsFiniteSet(1 .. n)
  BY <1>1, FS_Interval
<1>3. f \in Surjection(1 .. n, Nodes)
  BY <1>1 DEF Surjection
<1> QED
  BY <1>2, <1>3, FS_Surjection

-----------------------------------------------------------------------------
(* m_preds.                                                                *)

LinkBoth(graph, into, b, u) ==
  LinkTarget(graph, LinkTarget(graph, into, b, u, 1), b, u, 2)

LinkSteps(f, graph, order, b) ==
  /\ f \in [0 .. Len(order) -> Seq(Nodes)]
  /\ f[0] = << >>
  /\ \A i \in 1 .. Len(order) : f[i] = LinkBoth(graph, f[i - 1], b, order[i])

LEMMA PredsSteps ==
  ASSUME NEW graph, NEW order \in Seq(Nodes), NEW b
  PROVE  \E f : LinkSteps(f, graph, order, b) /\ m_preds(graph, order, b) = f[Len(order)]
<1> DEFINE n == Len(order)
           V == Seq(Nodes)
           G == [w \in V \X (1 .. n) |-> LinkBoth(graph, w[1], b, order[w[2]])]
<1>1. n \in Nat
  OBVIOUS
<1>2. << >> \in V
  OBVIOUS
<1>3. \A q \in V, u \in Nodes : LinkBoth(graph, q, b, u) \in V
  <2>1. \A q \in V, u \in Nodes : Append(q, u) \in V
    OBVIOUS
  <2> HIDE DEF V
  <2> QED
    BY <2>1 DEF LinkBoth, LinkTarget
<1>4. \A i \in 1 .. n : order[i] \in Nodes
  OBVIOUS
<1>5. G \in [V \X (1 .. n) -> V]
  BY <1>3, <1>4
<1>6. \A q \in V, i \in 1 .. n : G[<<q, i>>] = LinkBoth(graph, q, b, order[i])
  OBVIOUS
<1> HIDE DEF n, V, G
<1>7. PICK f : Iterates(f, V, n, << >>, G)
  BY <1>1, <1>2, <1>5, Iteration
<1>8. /\ f \in [0 .. n -> V] /\ f[0] = << >>
      /\ \A i \in 1 .. n : f[i] = LinkBoth(graph, f[i - 1], b, order[i])
  <2>1. f \in [0 .. n -> V] /\ f[0] = << >>
    BY <1>7 DEF Iterates
  <2>2. ASSUME NEW i \in 1 .. n PROVE f[i] = LinkBoth(graph, f[i - 1], b, order[i])
    <3>1. i - 1 \in 0 .. n
      BY <1>1
    <3>2. f[i - 1] \in V
      BY <2>1, <3>1
    <3>3. f[i] = G[<<f[i - 1], i>>]
      BY <1>7 DEF Iterates
    <3> QED
      BY <1>6, <3>2, <3>3
  <2> QED
    BY <2>1, <2>2
<1> DEFINE Sol(g) == g = [i \in 0 .. n |->
                            IF i = 0 THEN << >>
                            ELSE LinkTarget(graph, LinkTarget(graph, g[i - 1], b, order[i], 1),
                                            b, order[i], 2)]
<1>9. Sol(f)
  <2>1. f = [i \in 0 .. n |-> f[i]]
    BY <1>8
  <2>2. \A i \in 0 .. n : f[i] = IF i = 0 THEN << >> ELSE LinkBoth(graph, f[i - 1], b, order[i])
    BY <1>1, <1>8
  <2> QED
    BY <2>1, <2>2 DEF LinkBoth
<1> DEFINE g == CHOOSE g : Sol(g)
<1>10. Sol(g)
  BY <1>9, Zenon
<1>11. m_preds(graph, order, b) = g[n]
  BY DEF m_preds, n
<1> HIDE DEF g
<1>12. /\ g[0] = << >> /\ \A i \in 1 .. n : g[i] = LinkBoth(graph, g[i - 1], b, order[i])
       /\ g = [i \in 0 .. n |-> g[i]]
  <2>1. g = [i \in 0 .. n |-> IF i = 0 THEN << >> ELSE LinkBoth(graph, g[i - 1], b, order[i])]
    BY <1>10 DEF LinkBoth
  <2>2. \A i \in 0 .. n : g[i] = IF i = 0 THEN << >> ELSE LinkBoth(graph, g[i - 1], b, order[i])
    BY <2>1
  <2>3. g = [i \in 0 .. n |-> g[i]]
    BY <2>1
  <2>4. g[0] = << >>
    BY <1>1, <2>2
  <2>5. \A i \in 1 .. n : i \in 0 .. n /\ i # 0
    BY <1>1
  <2>6. \A i \in 1 .. n : g[i] = LinkBoth(graph, g[i - 1], b, order[i])
    BY <2>2, <2>5
  <2> QED
    BY <2>3, <2>4, <2>6
<1> HIDE DEF Sol
<1> DEFINE K == {i \in 0 .. n : g[i] \in V}
<1>13. 0 .. n \subseteq K
  <2>1. 0 \in K
    BY <1>1, <1>2, <1>12
  <2>2. ASSUME NEW i \in 1 .. n, i - 1 \in K PROVE i \in K
    <3>1. g[i - 1] \in V /\ order[i] \in Nodes
      BY <1>4, <2>2
    <3>2. g[i] \in V
      BY <1>3, <1>12, <3>1
    <3> QED
      BY <1>1, <3>2
  <2> HIDE DEF K
  <2> QED
    BY <1>1, <2>1, <2>2, BoundedInduction
<1>14. g \in [0 .. n -> V]
  BY <1>12, <1>13
<1> QED
  BY <1>11, <1>12, <1>14 DEF n, V, LinkSteps

(***************************************************************************)
(* The predecessors of b are the made blocks with an edge to b, and no     *)
(* others.                                                                 *)
(***************************************************************************)
LEMMA PredsFacts ==
  ASSUME NEW graph \in Graphs, NEW order \in MadeOrders, NEW b
  PROVE  /\ m_preds(graph, order, b) \in Seq(Nodes)
         /\ \A u \in Nodes :
              IsEdge(graph, u, b) <=>
                \E i \in DOMAIN m_preds(graph, order, b) : m_preds(graph, order, b)[i] = u
<1> DEFINE n == Len(order)
           P == m_preds(graph, order, b)
           In(u, q) == \E i \in DOMAIN q : q[i] = u
<1>1. /\ order \in Seq(Nodes) /\ n \in Nat /\ DOMAIN order = 1 .. n
      /\ \A u \in Nodes : \E i \in 1 .. n : order[i] = u
  BY MadeAssumption
<1>2. \A u \in Nodes : DOMAIN graph[u] \subseteq {1, 2}
  <2>1. \A u \in Nodes : graph[u] \in Seq(Nodes) /\ Len(graph[u]) <= 2
    BY DFSAssumption, TargetsAssumption
  <2>2. \A u \in Nodes : Len(graph[u]) \in Nat /\ DOMAIN graph[u] = 1 .. Len(graph[u])
    BY <2>1
  <2> QED
    BY <2>1, <2>2
<1>3. PICK f : LinkSteps(f, graph, order, b) /\ P = f[n]
  BY <1>1, PredsSteps
<1> HIDE DEF n, P
<1>4. \A q \in Seq(Nodes), u \in Nodes : \A v : In(v, Append(q, u)) <=> In(v, q) \/ v = u
  <2> TAKE q \in Seq(Nodes), u \in Nodes
  <2> TAKE v
  <2>1. /\ DOMAIN Append(q, u) = 1 .. Len(q) + 1 /\ DOMAIN q = 1 .. Len(q) /\ Len(q) \in Nat
        /\ Append(q, u)[Len(q) + 1] = u
        /\ \A i \in 1 .. Len(q) : Append(q, u)[i] = q[i]
    OBVIOUS
  <2> QED
    BY <2>1
<1>5. \A q \in Seq(Nodes), u \in Nodes : Append(q, u) \in Seq(Nodes)
  OBVIOUS
<1> HIDE DEF In
<1>6. \A q \in Seq(Nodes), u \in Nodes : \A v :
        In(v, LinkBoth(graph, q, b, u)) <=> In(v, q) \/ (v = u /\ IsEdge(graph, u, b))
  <2> TAKE q \in Seq(Nodes), u \in Nodes
  <2> TAKE v
  <2>1. IsEdge(graph, u, b) <=> \/ 1 \in DOMAIN graph[u] /\ graph[u][1] = b
                                \/ 2 \in DOMAIN graph[u] /\ graph[u][2] = b
    BY <1>2 DEF IsEdge
  <2>2. LinkTarget(graph, q, b, u, 1) \in Seq(Nodes)
    BY <1>5 DEF LinkTarget
  <2>3. In(v, LinkTarget(graph, q, b, u, 1))
          <=> In(v, q) \/ (v = u /\ 1 \in DOMAIN graph[u] /\ graph[u][1] = b)
    BY <1>4 DEF LinkTarget
  <2>4. In(v, LinkBoth(graph, q, b, u))
          <=> \/ In(v, LinkTarget(graph, q, b, u, 1))
              \/ v = u /\ 2 \in DOMAIN graph[u] /\ graph[u][2] = b
    BY <1>4, <2>2 DEF LinkBoth, LinkTarget
  <2> QED
    BY <2>1, <2>3, <2>4
<1> DEFINE K == {k \in 0 .. n : \A v : In(v, f[k]) <=>
                   \E i \in 1 .. k : v = order[i] /\ IsEdge(graph, order[i], b)}
<1>7. n \in K
  <2>1. 0 \in K
    <3>1. f[0] = << >> /\ \A v : ~In(v, << >>)
      BY <1>3 DEF LinkSteps, In
    <3> QED
      BY <1>1, <3>1
  <2>2. ASSUME NEW k \in 1 .. n, k - 1 \in K PROVE k \in K
    <3>1. f[k - 1] \in Seq(Nodes) /\ f[k] = LinkBoth(graph, f[k - 1], b, order[k]) /\ order[k] \in Nodes
      <4>1. f \in [0 .. n -> Seq(Nodes)] /\ f[k] = LinkBoth(graph, f[k - 1], b, order[k])
        BY <1>3 DEF LinkSteps, n
      <4>2. k - 1 \in 0 .. n /\ k \in DOMAIN order
        BY <1>1
      <4> QED
        BY <1>1, <4>1, <4>2
    <3>2. \A v : In(v, f[k]) <=> In(v, f[k - 1]) \/ (v = order[k] /\ IsEdge(graph, order[k], b))
      BY <1>6, <3>1
    <3>3. \A i : i \in 1 .. k <=> i \in 1 .. k - 1 \/ i = k
      BY <1>1
    <3> QED
      BY <2>2, <3>2, <3>3
  <2> HIDE DEF K
  <2>3. n \in Nat
    BY <1>1
  <2>4. 0 .. n \subseteq K
    BY <2>1, <2>2, <2>3, BoundedInduction
  <2> QED
    BY <2>3, <2>4
<1>8. P \in Seq(Nodes)
  BY <1>1, <1>3 DEF LinkSteps, n
<1>9. \A u \in Nodes : IsEdge(graph, u, b) <=> In(u, P)
  BY <1>1, <1>3, <1>7
<1> QED
  BY <1>8, <1>9 DEF In, P

S == INSTANCE DFSProofs

-----------------------------------------------------------------------------
(* The disjoint sets.                                                      *)

Forests == [parent : [1 .. N -> 1 .. N], label : [1 .. N -> 1 .. N]]

(***************************************************************************)
(* The forest when build_sdoms is at block w: the blocks up to w are       *)
(* roots, the others hang below blocks from w on.  Labels alone do not     *)
(* find the least semidominator on the way up, for compression hangs a     *)
(* block below the label find returned; but each block the label does not  *)
(* beat is beaten by one the new parent is responsible for.                *)
(***************************************************************************)
Beaten(f, w, i, u) == \/ m_sdoms[f.label[i]] <= m_sdoms[u]
                      \/ \E v \in w .. f.parent[i] : m_sdoms[v] <= m_sdoms[u]
Root(f, i) == f.parent[i] = i /\ f.label[i] = i
Hangs(f, w, i) == /\ f.parent[i] \in w .. i - 1 /\ f.label[i] \in w .. i
                  /\ m_sdoms[f.label[i]] <= m_sdoms[i]
                  /\ \A u \in w .. i : Beaten(f, w, i, u)
GoodForest(f, w) ==
  /\ f \in Forests
  /\ \A i \in 1 .. N : IF i <= w THEN Root(f, i) ELSE Hangs(f, w, i)

Results == [block : 1 .. N, forest : Forests]

FindBody(find, f, k) ==
  LET p == f.parent[k]
  IN IF p = k THEN [block |-> k, forest |-> f]
     ELSE LET res    == find[p]
              labels == res.forest.label
              label  == IF m_sdoms[labels[p]] < m_sdoms[labels[k]]
                        THEN labels[p] ELSE labels[k]
          IN [block  |-> label,
              forest |-> [parent |-> [res.forest.parent EXCEPT ![k] = res.block],
                          label  |-> [labels EXCEPT ![k] = label]]]

(* find is the recursion it is written as: parents come before children. *)
LEMMA FindRecursion ==
  ASSUME N \in Nat, NEW f \in Forests, \A k \in 1 .. N : f.parent[k] <= k, NEW i \in 1 .. N
  PROVE  \E find : find = [k \in 1 .. i |-> FindBody(find, f, k)] /\ Find(f, i) = find[i]
<1> DEFINE V == [1 .. i -> Results]
           a == [k \in 1 .. i |-> [block |-> k, forest |-> f]]
           G == [w \in V \X (1 .. i) |-> [w[1] EXCEPT ![w[2]] = FindBody(w[1], f, w[2])]]
<1>1. ASSUME NEW h \in V, NEW k \in 1 .. i
      PROVE  FindBody(h, f, k) \in Results
  <2>1. k \in 1 .. N /\ f.parent[k] \in 1 .. i
    <3>1. f.parent \in [1 .. N -> 1 .. N]
      BY DEF Forests
    <3>2. k \in 1 .. N /\ f.parent[k] \in 1 .. N /\ f.parent[k] <= k
      BY <3>1
    <3> QED
      BY <3>1, <3>2
  <2>2. CASE f.parent[k] = k
    BY <2>1, <2>2 DEF FindBody, Results
  <2>3. CASE f.parent[k] # k
    <3> DEFINE p == f.parent[k]
               res == h[p]
    <3>1. /\ res \in Results /\ p \in 1 .. N
          /\ res.block \in 1 .. N /\ res.forest \in Forests
      BY <2>1 DEF Results
    <3>2. /\ res.forest.label \in [1 .. N -> 1 .. N] /\ res.forest.parent \in [1 .. N -> 1 .. N]
      BY <3>1 DEF Forests
    <3> DEFINE label == IF m_sdoms[res.forest.label[p]] < m_sdoms[res.forest.label[k]]
                        THEN res.forest.label[p] ELSE res.forest.label[k]
    <3>3. label \in 1 .. N
      BY <2>1, <3>1, <3>2
    <3>4. FindBody(h, f, k) =
            [block  |-> label,
             forest |-> [parent |-> [res.forest.parent EXCEPT ![k] = res.block],
                         label  |-> [res.forest.label EXCEPT ![k] = label]]]
      BY <2>3 DEF FindBody
    <3> HIDE DEF label, res
    <3>5. /\ [res.forest.parent EXCEPT ![k] = res.block] \in [1 .. N -> 1 .. N]
          /\ [res.forest.label EXCEPT ![k] = label] \in [1 .. N -> 1 .. N]
      BY <3>1, <3>2, <3>3
    <3> DEFINE fp == [res.forest.parent EXCEPT ![k] = res.block]
               fl == [res.forest.label EXCEPT ![k] = label]
    <3>6. fp \in [1 .. N -> 1 .. N] /\ fl \in [1 .. N -> 1 .. N]
      BY <3>5
    <3>7. FindBody(h, f, k) = [block |-> label, forest |-> [parent |-> fp, label |-> fl]]
      BY <3>4
    <3> HIDE DEF fp, fl
    <3>8. [parent |-> fp, label |-> fl] \in Forests
      BY <3>6 DEF Forests
    <3> QED
      BY <3>3, <3>7, <3>8 DEF Results
  <2> QED
    BY <2>2, <2>3
<1>2. a \in V
  BY DEF Results
<1>3. G \in [V \X (1 .. i) -> V]
  BY <1>1
<1>4. \A h \in V, k \in 1 .. i : G[<<h, k>>] = [h EXCEPT ![k] = FindBody(h, f, k)]
  OBVIOUS
<1> HIDE DEF a, G
<1>5. PICK h : Iterates(h, V, i, a, G)
  <2>1. i \in Nat
    OBVIOUS
  <2> HIDE DEF V
  <2> QED
    BY <2>1, <1>2, <1>3, Iteration
<1>6. /\ \A m \in 0 .. i : h[m] \in V
      /\ \A m \in 1 .. i : h[m] = [h[m - 1] EXCEPT ![m] = FindBody(h[m - 1], f, m)]
  <2>1. \A m \in 0 .. i : h[m] \in V
    BY <1>5 DEF Iterates
  <2>2. \A m \in 1 .. i : m - 1 \in 0 .. i /\ h[m] = G[<<h[m - 1], m>>]
    BY <1>5 DEF Iterates
  <2> HIDE DEF V
  <2> QED
    BY <1>4, <2>1, <2>2
<1>7. \A m \in 1 .. i : \A k \in 1 .. i :
        h[m][k] = IF k = m THEN FindBody(h[m - 1], f, m) ELSE h[m - 1][k]
  <2> TAKE m \in 1 .. i
  <2> TAKE k \in 1 .. i
  <2>1. h[m - 1] \in V /\ h[m] = [h[m - 1] EXCEPT ![m] = FindBody(h[m - 1], f, m)]
    BY <1>6
  <2> QED
    BY <2>1
(* An entry stays what it was when it was made. *)
<1>8. ASSUME NEW k \in 1 .. i
      PROVE  \A m \in k .. i : h[m][k] = h[k][k]
  <2> DEFINE K == {m \in 0 .. i : m >= k => h[m][k] = h[k][k]}
  <2>1. 0 \in K
    OBVIOUS
  <2>2. ASSUME NEW m \in 1 .. i, m - 1 \in K PROVE m \in K
    BY <1>7, <2>2
  <2>3. i \in Nat
    OBVIOUS
  <2> HIDE DEF K
  <2>4. 0 .. i \subseteq K
    BY <2>1, <2>2, <2>3, BoundedInduction
  <2> QED
    BY <2>4 DEF K
<1> DEFINE g == [k \in 1 .. i |-> h[k][k]]
<1>9. \A k \in 1 .. i : g[k] = FindBody(g, f, k)
  <2> TAKE k \in 1 .. i
  <2>1. g[k] = FindBody(h[k - 1], f, k)
    BY <1>7
  <2>2. CASE f.parent[k] = k
    BY <2>1, <2>2 DEF FindBody
  <2>3. CASE f.parent[k] # k
    <3>1. f.parent[k] \in 1 .. k - 1 /\ f.parent[k] \in 1 .. i
      BY <2>3 DEF Forests
    <3>2. k - 1 \in f.parent[k] .. i
      BY <3>1
    <3>3. h[k - 1][f.parent[k]] = g[f.parent[k]]
      BY <1>8, <3>1, <3>2
    <3> HIDE DEF g
    <3> QED
      BY <2>1, <3>3 DEF FindBody
  <2> QED
    BY <2>2, <2>3
<1> DEFINE Sol(x) == x = [k \in 1 .. i |-> FindBody(x, f, k)]
<1>10. Sol(g)
  <2>1. g = [k \in 1 .. i |-> g[k]]
    OBVIOUS
  <2> HIDE DEF g
  <2> QED
    BY <1>9, <2>1
<1> HIDE DEF g
<1> DEFINE find == CHOOSE x : Sol(x)
<1>11. Sol(find)
  BY <1>10, Zenon
<1>12. Find(f, i) = find[i]
  BY DEF Find, FindBody
<1> QED
  BY <1>11, <1>12

(***************************************************************************)
(* What find promises: it keeps the forest good, returns the label of the  *)
(* block it was asked about, and that is the block itself if it is a root, *)
(* or else has the least semidominator of all from the roots' last block   *)
(* on; the blocks after it are not touched.                                *)
(***************************************************************************)
FindSpec(r, f, w, k) ==
  /\ GoodForest(r.forest, w)
  /\ r.block = r.forest.label[k]
  /\ k <= w => r.block = k
  /\ k >= w => r.block \in w .. k /\ \A u \in w .. k : m_sdoms[r.block] <= m_sdoms[u]
  /\ \A j \in 1 .. N : j > k => /\ r.forest.parent[j] = f.parent[j]
                                /\ r.forest.label[j] = f.label[j]

LEMMA ForestTypes ==
  ASSUME NEW f \in Forests
  PROVE  f.parent \in [1 .. N -> 1 .. N] /\ f.label \in [1 .. N -> 1 .. N]
  BY DEF Forests

SdomsTyped == m_sdoms \in [1 .. N -> 1 .. N]
IdomsTyped == m_idoms \in [1 .. N -> 1 .. N]

(* The buckets by arrival number; a block without one has it empty.        *)
Buckets == [i \in 1 .. N |-> IF HasBucket(i) THEN Bucket(i) ELSE << >>]
BucketsTyped == /\ m_sdommed_bucket \in [0 .. Cardinality(Nodes) - 1 -> Seq(1 .. N)]
                /\ Buckets \in [1 .. N -> Seq(1 .. N)]

LEMMA SdomsInRange ==
  ASSUME SdomsTyped
  PROVE  \A i \in 1 .. N : m_sdoms[i] \in 1 .. N
  BY DEF SdomsTyped

LEMMA FindStep ==
  ASSUME N \in Nat, SdomsTyped,
         NEW w \in 1 .. N, NEW f, GoodForest(f, w), NEW k \in 1 .. N, NEW find,
         f.parent[k] # k => FindSpec(find[f.parent[k]], f, w, f.parent[k])
  PROVE  FindSpec(FindBody(find, f, k), f, w, k)
<1>1. CASE k <= w
  <2>1. f.parent[k] = k /\ f.label[k] = k
    BY <1>1 DEF GoodForest, Root
  <2>2. FindBody(find, f, k) = [block |-> k, forest |-> f]
    BY <2>1 DEF FindBody
  <2>3. k >= w => k = w
    BY <1>1
  <2>4. k \in Nat /\ k \in k .. k /\ m_sdoms[k] \in Nat
    BY DEF SdomsTyped
  <2>5. \A u \in k .. k : m_sdoms[k] <= m_sdoms[u]
    BY <2>4
  <2> QED
    BY <2>1, <2>2, <2>3, <2>4, <2>5 DEF FindSpec
<1>2. CASE k > w
  <2> DEFINE p == f.parent[k]
             res == find[p]
             label == IF m_sdoms[res.forest.label[p]] < m_sdoms[res.forest.label[k]]
                      THEN res.forest.label[p] ELSE res.forest.label[k]
             fp == [res.forest.parent EXCEPT ![k] = res.block]
             fl == [res.forest.label EXCEPT ![k] = label]
  <2>1. Hangs(f, w, k)
    BY <1>2 DEF GoodForest
  <2>2. /\ p \in w .. k - 1 /\ p \in 1 .. N /\ p # k /\ f.label[k] \in w .. k
        /\ m_sdoms[f.label[k]] <= m_sdoms[k]
    BY <2>1 DEF Hangs
  <2>3. \A u \in w .. k : \/ m_sdoms[f.label[k]] <= m_sdoms[u]
                           \/ \E v \in w .. p : m_sdoms[v] <= m_sdoms[u]
    BY <2>1 DEF Hangs, Beaten
  <2>4. FindBody(find, f, k) = [block |-> label, forest |-> [parent |-> fp, label |-> fl]]
    BY <2>2 DEF FindBody
  <2>5. FindSpec(res, f, w, p)
    BY <2>2
  <2> HIDE DEF p, res
  <2>6. GoodForest(res.forest, w) /\ res.block = res.forest.label[p] /\ p >= w
    BY <2>2, <2>5 DEF FindSpec
  <2>7. res.block \in w .. p /\ \A u \in w .. p : m_sdoms[res.block] <= m_sdoms[u]
    BY <2>5, <2>6 DEF FindSpec
  <2>8. \A j \in 1 .. N : j > p => /\ res.forest.parent[j] = f.parent[j]
                                  /\ res.forest.label[j] = f.label[j]
    BY <2>5 DEF FindSpec
  <2>9. /\ res.forest.parent \in [1 .. N -> 1 .. N]
        /\ res.forest.label \in [1 .. N -> 1 .. N]
    BY <2>6, ForestTypes DEF GoodForest
  <2>10. \A i \in 1 .. N : IF i <= w THEN Root(res.forest, i) ELSE Hangs(res.forest, w, i)
    BY <2>6 DEF GoodForest
  <2>11. res.forest.label[k] = f.label[k]
    BY <2>2, <2>8
  <2>12. /\ label \in w .. k
         /\ m_sdoms[label] <= m_sdoms[res.block] /\ m_sdoms[label] <= m_sdoms[f.label[k]]
    <3>1. label = IF m_sdoms[res.block] < m_sdoms[f.label[k]] THEN res.block ELSE f.label[k]
      BY <2>6, <2>11
    <3>2. /\ m_sdoms[res.block] \in 1 .. N /\ m_sdoms[f.label[k]] \in 1 .. N
          /\ res.block \in w .. k
      <4>1. res.block \in w .. k /\ res.block \in 1 .. N /\ f.label[k] \in 1 .. N
        BY <2>2, <2>7
      <4> QED
        BY <4>1, SdomsInRange
    <3> HIDE DEF label
    <3> QED
      BY <2>2, <3>1, <3>2
  <2> HIDE DEF label
  <2>13. ASSUME NEW u \in w .. k PROVE m_sdoms[label] <= m_sdoms[u]
    <3>1. /\ m_sdoms[label] \in 1 .. N /\ m_sdoms[u] \in 1 .. N
          /\ m_sdoms[res.block] \in 1 .. N /\ m_sdoms[f.label[k]] \in 1 .. N
          /\ \A v \in w .. p : m_sdoms[v] \in 1 .. N
      <4>1. label \in 1 .. N /\ u \in 1 .. N /\ res.block \in 1 .. N /\ f.label[k] \in 1 .. N
        BY <2>2, <2>7, <2>12
      <4>2. \A v \in w .. p : v \in 1 .. N
        BY <2>2
      <4> QED
        BY <4>1, <4>2, SdomsInRange
    <3>2. CASE m_sdoms[f.label[k]] <= m_sdoms[u]
      BY <2>12, <3>1, <3>2
    <3>3. CASE \E v \in w .. p : m_sdoms[v] <= m_sdoms[u]
      <4>1. PICK v \in w .. p : m_sdoms[v] <= m_sdoms[u]
        BY <3>3
      <4>2. m_sdoms[res.block] <= m_sdoms[v]
        BY <2>7, <4>1
      <4> QED
        BY <2>12, <3>1, <4>1, <4>2
    <3> QED
      BY <2>3, <3>2, <3>3
  <2>14. fp \in [1 .. N -> 1 .. N] /\ fl \in [1 .. N -> 1 .. N]
    <3>1. res.block \in 1 .. N /\ label \in 1 .. N
      BY <2>2, <2>7, <2>12
    <3> QED
      BY <2>9, <3>1
  <2>15. fp[k] = res.block /\ fl[k] = label
    BY <2>9
  <2>16. \A i \in 1 .. N : i # k => fp[i] = res.forest.parent[i] /\ fl[i] = res.forest.label[i]
    BY <2>9
  <2> HIDE DEF fp, fl
  <2> DEFINE g == [parent |-> fp, label |-> fl]
  <2>17. g \in Forests /\ g.parent = fp /\ g.label = fl
    BY <2>14 DEF Forests
  <2> HIDE DEF g
  <2>18. Hangs(g, w, k)
    <3>1. \A u \in w .. k : Beaten(g, w, k, u)
      BY <2>13, <2>17, <2>15 DEF Beaten
    <3>2. fp[k] \in w .. k - 1
      BY <2>2, <2>7, <2>15
    <3>3. k \in w .. k
      BY <1>2
    <3> QED
      BY <2>12, <2>13, <2>17, <2>15, <3>1, <3>2, <3>3 DEF Hangs
  <2>19. ASSUME NEW i \in 1 .. N PROVE IF i <= w THEN Root(g, i) ELSE Hangs(g, w, i)
    <3>1. CASE i = k
      BY <1>2, <2>18, <3>1
    <3>2. CASE i # k
      BY <2>10, <2>16, <2>17, <3>2 DEF Root, Hangs, Beaten
    <3> QED
      BY <3>1, <3>2
  <2>20. GoodForest(g, w)
    BY <2>17, <2>19 DEF GoodForest
  <2>21. ASSUME NEW j \in 1 .. N, j > k PROVE fp[j] = f.parent[j] /\ fl[j] = f.label[j]
    BY <2>2, <2>8, <2>16, <2>21
  <2> QED
    <3>1. FindBody(find, f, k) = [block |-> label, forest |-> g]
      BY <2>4 DEF g
    <3>2. ~(k <= w)
      BY <1>2
    <3> QED
      BY <2>12, <2>13, <2>17, <2>20, <2>21, <2>15, <3>1, <3>2 DEF FindSpec
<1> QED
  BY <1>1, <1>2

LEMMA FindFacts ==
  ASSUME N \in Nat, SdomsTyped,
         NEW w \in 1 .. N, NEW f, GoodForest(f, w), NEW i \in 1 .. N
  PROVE  FindSpec(Find(f, i), f, w, i)
<1>1. f \in Forests /\ f.parent \in [1 .. N -> 1 .. N]
  BY ForestTypes DEF GoodForest
<1>2. ASSUME NEW k \in 1 .. N PROVE f.parent[k] \in 1 .. N /\ f.parent[k] <= k
  <2>1. IF k <= w THEN Root(f, k) ELSE Hangs(f, w, k)
    BY DEF GoodForest
  <2>2. f.parent[k] \in 1 .. N
    BY <1>1
  <2>3. f.parent[k] = k \/ f.parent[k] \in w .. k - 1
    BY <2>1 DEF Root, Hangs
  <2> QED
    BY <2>2, <2>3
<1>3. PICK find : /\ find = [k \in 1 .. i |-> FindBody(find, f, k)]
                  /\ Find(f, i) = find[i]
  BY <1>1, <1>2, FindRecursion
<1> DEFINE K == {k \in Nat : k \in 1 .. i => FindSpec(find[k], f, w, k)}
<1>4. ASSUME NEW k \in Nat, \A m \in Nat : m < k => m \in K
      PROVE  k \in K
  <2> SUFFICES ASSUME k \in 1 .. i PROVE FindSpec(find[k], f, w, k)
    OBVIOUS
  <2>1. f.parent[k] # k => FindSpec(find[f.parent[k]], f, w, f.parent[k])
    <3> SUFFICES ASSUME f.parent[k] # k PROVE FindSpec(find[f.parent[k]], f, w, f.parent[k])
      OBVIOUS
    <3>1. f.parent[k] \in Nat /\ f.parent[k] < k /\ f.parent[k] \in 1 .. i
      BY <1>2
    <3>2. f.parent[k] \in K
      BY <1>4, <3>1
    <3> QED
      BY <3>1, <3>2
  <2>2. k \in 1 .. N
    OBVIOUS
  <2>3. FindSpec(FindBody(find, f, k), f, w, k)
    BY <2>1, <2>2, FindStep
  <2>4. find[k] = FindBody(find, f, k)
    BY <1>3
  <2> QED
    BY <2>3, <2>4
<1> HIDE DEF K
<1>5. Nat \subseteq K
  BY <1>4, StrongInduction
<1>6. i \in K
  BY <1>5
<1> QED
  BY <1>3, <1>6 DEF K

-----------------------------------------------------------------------------
(* The inductive invariant.                                                *)

Working == phase \in {"preds", "bucket"}
Building == phase \in {"idoms", "done"}

(* The search is the one of DFSProofs, and over once the builder begins.   *)
SearchInv ==
  /\ S!IInv
  /\ S!EnteredByEdge
  /\ made \in MadeOrders
  /\ phase # "dfs" => Stopped

Phases ==
  /\ phase \in {"dfs", "preds", "bucket", "threw", "undefined", "idoms", "done"}
  /\ phase \in {"preds", "bucket", "threw", "undefined"} => node \in 1 .. N
  /\ phase = "idoms" => node \in 2 .. N + 1
  /\ phase = "done" => node = N + 1

Arrays ==
  /\ bucket_it \in Nat \ {0}
  /\ phase # "dfs" =>
       /\ preds \in Seq(Nodes)
       /\ SdomsTyped /\ IdomsTyped /\ BucketsTyped
       /\ dsu \in Forests

(* The blocks from this one on have their semidominator. *)
FirstHandled == IF phase = "preds" THEN node + 1 ELSE IF phase = "bucket" THEN node ELSE 1

(* No semidominator has arrived later than its block, and until build_sdoms *)
(* comes to a block it is the block itself.                                 *)
SdomsBelow ==
  phase # "dfs" =>
    \A i \in 1 .. N : /\ m_sdoms[i] <= i
                      /\ Working /\ i < node => m_sdoms[i] = i

(* A block is handled only when its id is in the vector of the buckets.    *)
IdsInv ==
  /\ Working \/ Building => \A i \in FirstHandled .. N : HasBucket(i)
  /\ phase = "undefined" => \E i \in 1 .. N : ~HasBucket(i)

ForestInv == Working => GoodForest(dsu, node)

(* SemidominatorsEarlyEnough, for the blocks that have one. *)
SemiInv ==
  Working \/ Building =>
    \A i \in FirstHandled .. N : \A j \in 1 .. i : IsSemiPath(j, i) => m_sdoms[i] <= j

(* What min_sdom has seen of the predecessors of this block. *)
Seen(v) ==
  /\ v <= node => m_sdoms[node] <= v
  /\ v > node => \A u \in node .. v : m_sdoms[node] <= m_sdoms[u]
PredsInv ==
  phase = "preds" =>
    \A v \in 1 .. N :
      IsEdge(succs, Block(v), Block(node)) =>
        Seen(v) \/ \E k \in DOMAIN preds : preds[k] = Block(v)

(* What the loop over a bucket leaves in m_idoms. *)
RawIdom(d) ==
  \/ m_idoms[d] = m_sdoms[d]
  \/ m_idoms[d] \in 2 .. d - 1 /\ m_sdoms[m_idoms[d]] < m_sdoms[d]

(* A bucket holds blocks it is the semidominator of, and a block that has  *)
(* one is still to be taken from its bucket, or was.                       *)
Waiting(d) ==
  LET i == m_sdoms[d]
  IN \E p \in DOMAIN Buckets[i] :
       /\ Buckets[i][p] = d
       /\ i <= node
       /\ phase = "bucket" /\ i = node => p >= bucket_it
BucketInv ==
  Working =>
    /\ \A i \in 1 .. N : \A p \in DOMAIN Buckets[i] :
         LET d == Buckets[i][p]
         IN d \in 2 .. N /\ FirstHandled <= d /\ m_sdoms[d] = i
    /\ \A d \in 2 .. N : FirstHandled <= d => RawIdom(d) \/ Waiting(d)

(* build_idoms has come up to node. *)
IdomsInv ==
  Building =>
    \A d \in 2 .. N : /\ d < node => m_idoms[d] < d /\ m_idoms[d] <= m_sdoms[d]
                      /\ node <= d => RawIdom(d)

(* The tree holds the blocks build_idoms has come to. *)
Children(b) == {Block(i) : i \in {k \in 2 .. N : k < node /\ Block(m_idoms[k]) = b}}
DataInv ==
  IF Building
  THEN /\ DOMAIN m_data = {Block(m_idoms[i]) : i \in {k \in 2 .. N : k < node}}
       /\ \A b \in DOMAIN m_data : m_data[b] = Children(b)
  ELSE DOMAIN m_data = {}

IInv == /\ SearchInv /\ Phases /\ Arrays /\ SdomsBelow /\ IdsInv /\ ForestInv /\ SemiInv
        /\ PredsInv /\ BucketInv /\ IdomsInv /\ DataInv

-----------------------------------------------------------------------------
(* The order of arrival.                                                   *)

(* What the builder starts from: each block the search reached arrived     *)
(* once, the head first, the others over an edge from an earlier one; no   *)
(* edge leads out of them.                                                 *)
LEMMA Order ==
  ASSUME SearchInv, Stopped
  PROVE  /\ N \in Nat /\ 1 \in 1 .. N
         /\ succs \in Graphs /\ Blocks(succs) = Nodes /\ IsFiniteSet(Nodes)
         /\ \A i \in 1 .. N : Block(i) \in Nodes
         /\ \A i, j \in 1 .. N : Block(i) = Block(j) => i = j
         /\ Block(1) = Entry
         /\ \A i \in 2 .. N : \E j \in 1 .. i - 1 : IsEdge(succs, Block(j), Block(i))
         /\ \A i \in 1 .. N : \A v : IsEdge(succs, Block(i), v) =>
                                        \E k \in 1 .. N : v = Block(k)
<1>1. S!IInv /\ S!EnteredByEdge /\ made \in MadeOrders /\ Stopped
  BY DEF SearchInv
<1>2. S!TypeOK /\ S!VisitedOnce
  BY <1>1 DEF S!IInv
<1>3. discovered \in Seq(Nodes) /\ succs \in Graphs /\ discovered # << >>
  BY <1>1, <1>2 DEF S!TypeOK, Stopped
<1>4. DOMAIN discovered = 1 .. N /\ N \in Nat /\ 1 \in 1 .. N
  BY <1>3 DEF N
<1>5. Blocks(succs) = Nodes
  BY <1>3, DFSAssumption DEF Blocks
<1>6. IsFiniteSet(Nodes)
  BY <1>1, FiniteNodes
<1>7. \A i \in 1 .. N : Block(i) \in Nodes
  BY <1>3, <1>4 DEF Block, m_dfs_nodes
<1>8. \A i, j \in 1 .. N : Block(i) = Block(j) => i = j
  BY <1>2, <1>4 DEF S!VisitedOnce, S!Once, Block, m_dfs_nodes
<1>9. Block(1) = Entry
  BY <1>1, <1>3 DEF S!EnteredByEdge, Block, m_dfs_nodes
<1>10. \A i \in 2 .. N : \E j \in 1 .. i - 1 : IsEdge(succs, Block(j), Block(i))
  <2> SUFFICES ASSUME NEW i \in 2 .. N PROVE \E j \in 1 .. i - 1 : IsEdge(succs, Block(j), Block(i))
    OBVIOUS
  <2>1. i \in DOMAIN discovered /\ i # 1
    BY <1>4
  <2>2. PICK j \in 1 .. i - 1 : S!IsEdge(succs, discovered[j], discovered[i])
    BY <1>1, <2>1 DEF S!EnteredByEdge
  <2> QED
    BY <2>2 DEF Block, m_dfs_nodes, S!IsEdge, IsEdge
<1>11. \A n \in S!Discovered : \A i \in DOMAIN succs[n] : succs[n][i] \in S!Discovered
  <2>1. S!VisitsReachable
    BY <1>1, DFSAssumption, TargetsAssumption, MadeAssumption, IdsAssumption, S!AllVisited
  <2> QED
    BY <1>1, <2>1 DEF S!VisitsReachable, S!ClosedSet, S!Stopped, Stopped
<1>12. ASSUME NEW i \in 1 .. N, NEW v, IsEdge(succs, Block(i), v)
       PROVE  \E k \in 1 .. N : v = Block(k)
  BY <1>4, <1>11, <1>12 DEF S!Discovered, S!Elements, IsEdge, Block, m_dfs_nodes
<1> QED
  BY <1>3, <1>4, <1>5, <1>6, <1>7, <1>8, <1>9, <1>10, <1>12

(* Of the blocks a path to w runs through, the one that arrived first is   *)
(* itself the end of such a path.                                          *)
LEMMA FirstOnPath ==
  ASSUME SearchInv, Stopped, NEW w \in 1 .. N, NEW j \in 1 .. w, IsSemiPath(j, w)
  PROVE  \/ IsEdge(succs, Block(j), Block(w))
         \/ \E v \in w + 1 .. N : /\ IsEdge(succs, Block(v), Block(w))
                                  /\ \E u \in w + 1 .. v : IsSemiPath(j, u)
<1> DEFINE From == {v \in Reached : IsEdge(succs, Block(j), v)}
           UpTo(i) == {Block(k) : k \in 1 .. i}
           R(i) == ReachAvoiding(succs, From, UpTo(i))
           T == {Block(v) : v \in {x \in w + 1 .. N :
                   \E u \in w + 1 .. x : IsSemiPath(j, u) /\ Block(x) \in R(u - 1)}}
<1>1. /\ N \in Nat /\ Blocks(succs) = Nodes /\ IsFiniteSet(Nodes)
      /\ \A i \in 1 .. N : Block(i) \in Nodes
      /\ \A i, k \in 1 .. N : Block(i) = Block(k) => i = k
  BY Order
<1>2. \A i \in 1 .. N : \A v : IsEdge(succs, Block(i), v) => \E k \in 1 .. N : v = Block(k)
  BY Order
<1>3. From \in SUBSET Nodes
  BY <1>1 DEF Reached
<1>4. \A i \in Nat : From \ UpTo(i) \subseteq R(i) /\ Confined(succs, R(i), UpTo(i))
  BY <1>1, <1>3, ReachFacts
<1>5. \A A : From \ UpTo(w) \subseteq A /\ Confined(succs, A, UpTo(w)) => R(w) \subseteq A
  <2> HIDE DEF UpTo, From
  <2> QED
    BY <1>1, <1>3, ReachFacts
<1>6. \A u \in Nat, y \in Nat : y <= u => R(u) \subseteq R(y)
  <2> SUFFICES ASSUME NEW u \in Nat, NEW y \in Nat, y <= u PROVE R(u) \subseteq R(y)
    OBVIOUS
  <2>1. UpTo(y) \subseteq UpTo(u)
    OBVIOUS
  <2> HIDE DEF UpTo, From
  <2> QED
    BY <1>1, <1>3, <2>1, ReachMonotone
<1>7. \A u \in 1 .. N : IsSemiPath(j, u) <=> \/ IsEdge(succs, Block(j), Block(u))
                                            \/ \E b \in R(u) : IsEdge(succs, b, Block(u))
  BY DEF IsSemiPath
<1>8. \A x \in 1 .. N, i \in 0 .. N : Block(x) \in UpTo(i) <=> x <= i
  BY <1>1
<1>9. From \subseteq Reached /\ \A v \in From : IsEdge(succs, Block(j), v)
  OBVIOUS
<1> HIDE DEF From, R, UpTo
<1>10. From \ UpTo(w) \subseteq T
  <2> SUFFICES ASSUME NEW x \in w + 1 .. N, Block(x) \in From PROVE Block(x) \in T
    BY <1>1, <1>8, <1>9 DEF Reached
  <2>1. x \in 1 .. N /\ x - 1 \in Nat /\ x - 1 \in 0 .. N /\ x \in w + 1 .. x /\ ~(x <= x - 1)
    BY <1>1
  <2>2. IsSemiPath(j, x)
    BY <1>7, <1>9, <2>1
  <2>3. Block(x) \in R(x - 1)
    BY <1>4, <1>8, <2>1
  <2> QED
    BY <2>1, <2>2, <2>3
<1>11. Confined(succs, T, UpTo(w))
  <2> SUFFICES ASSUME NEW x \in w + 1 .. N, NEW u \in w + 1 .. x,
                      IsSemiPath(j, u), Block(x) \in R(u - 1),
                      NEW v \in Nodes \ UpTo(w), IsEdge(succs, Block(x), v)
               PROVE  v \in T
    BY <1>1 DEF Confined
  <2>1. /\ x \in 1 .. N /\ u \in 1 .. N /\ u - 1 \in Nat /\ u - 1 \in 0 .. N
        /\ w \in 0 .. N
    BY <1>1
  <2>2. PICK y \in 1 .. N : v = Block(y)
    BY <1>2, <2>1
  <2>3. y \in w + 1 .. N
    BY <1>1, <1>8, <2>1, <2>2
  <2>4. CASE u <= y
    <3>1. u \in w + 1 .. y /\ ~(y <= u - 1)
      BY <1>1, <2>1, <2>3, <2>4
    <3>2. v \notin UpTo(u - 1)
      BY <1>8, <2>1, <2>2, <3>1
    <3>3. Block(y) \in R(u - 1)
      BY <1>1, <1>4, <2>1, <2>2, <3>2 DEF Confined
    <3> QED
      BY <2>2, <2>3, <3>1, <3>3
  <2>5. CASE ~(u <= y)
    <3>1. /\ y \in Nat /\ y - 1 \in Nat /\ y - 1 \in 0 .. N /\ y <= u - 1 /\ y - 1 <= u - 1
          /\ ~(y <= y - 1) /\ y \in w + 1 .. y
      BY <1>1, <2>1, <2>3, <2>5
    <3>2. Block(x) \in R(y) /\ Block(x) \in R(y - 1)
      BY <1>6, <2>1, <3>1
    <3>3. IsSemiPath(j, y)
      BY <1>7, <2>2, <3>2
    <3>4. v \notin UpTo(y - 1)
      BY <1>8, <2>2, <3>1
    <3>5. Block(y) \in R(y - 1)
      BY <1>1, <1>4, <2>2, <3>1, <3>2, <3>4 DEF Confined
    <3> QED
      BY <2>2, <2>3, <3>1, <3>3, <3>5
  <2> QED
    BY <2>4, <2>5
<1> HIDE DEF T
<1>12. R(w) \subseteq T
  BY <1>5, <1>10, <1>11
<1> QED
  <2> SUFFICES ASSUME NEW b \in R(w), IsEdge(succs, b, Block(w))
               PROVE  \E v \in w + 1 .. N : /\ IsEdge(succs, Block(v), Block(w))
                                            /\ \E u \in w + 1 .. v : IsSemiPath(j, u)
    BY <1>7
  <2> QED
    BY <1>12 DEF T

-----------------------------------------------------------------------------
(* The steps.                                                              *)

LEMMA SameSearch ==
  ASSUME SearchInv, phase # "dfs", UNCHANGED <<search, made>>
  PROVE  /\ SearchInv'
         /\ N' = N /\ succs' = succs /\ made' = made /\ Forests' = Forests
         /\ \A i : Block(i)' = Block(i)
         /\ \A i, j : IsSemiPath(j, i)' <=> IsSemiPath(j, i)
<1>1. UNCHANGED <<succs, m_visited, m_stack, parent, cur_it, discovered, finished, backEdges, made>>
  BY DEF search
<1>2. N' = N /\ \A i : Block(i)' = Block(i)
  BY <1>1 DEF N, Block, m_dfs_nodes
<1>3. Reached' = Reached
  BY <1>1, <1>2 DEF Reached
<1>4. \A i, j : IsSemiPath(j, i)' <=> IsSemiPath(j, i)
  BY <1>1, <1>2, <1>3 DEF IsSemiPath
<1>5. Forests' = Forests
  BY <1>2 DEF Forests
<1>6. S!IInv' /\ S!EnteredByEdge'
  <2>1. UNCHANGED S!vars
    BY <1>1 DEF S!vars
  <2> QED
    BY <2>1, DFSAssumption, TargetsAssumption, MadeAssumption, IdsAssumption,
       S!NextIInv, S!NextEntered DEF SearchInv
<1>7. SearchInv'
  BY <1>1, <1>6 DEF SearchInv, Stopped
<1> QED
  BY <1>1, <1>2, <1>4, <1>5, <1>7

(* The ids of the blocks tell them apart. *)
LEMMA BlockIds ==
  ASSUME SearchInv, Stopped
  PROVE  /\ Cardinality(Nodes) \in Nat
         /\ \A i \in 1 .. N : bb_id(i) \in Nat
         /\ \A i \in 1 .. N : HasBucket(i) => bb_id(i) \in 0 .. Cardinality(Nodes) - 1
         /\ \A i, j \in 1 .. N : bb_id(i) = bb_id(j) => i = j
<1>1. /\ succs \in Graphs /\ IsFiniteSet(Nodes)
      /\ \A i \in 1 .. N : Block(i) \in Nodes
      /\ \A i, j \in 1 .. N : Block(i) = Block(j) => i = j
  BY Order
<1>2. Cardinality(Nodes) \in Nat
  BY <1>1, FS_CardinalityType
<1>3. \A i : bb_id(i) = bb_ids[succs][Block(i)]
  BY DEF bb_id, Block
<1>4. /\ bb_ids[succs] \in [Nodes -> Nat]
      /\ \A b, c \in Nodes : bb_ids[succs][b] = bb_ids[succs][c] => b = c
  BY <1>1, IdsAssumption
<1>5. \A i \in 1 .. N : bb_id(i) \in Nat
  BY <1>1, <1>3, <1>4
<1>6. \A i, j \in 1 .. N : bb_id(i) = bb_id(j) => i = j
  BY <1>1, <1>3, <1>4
<1> QED
  BY <1>2, <1>5, <1>6 DEF HasBucket

LEMMA SameIds ==
  ASSUME UNCHANGED <<search, made>>
  PROVE  /\ \A i : bb_id(i)' = bb_id(i)
         /\ \A i : HasBucket(i)' <=> HasBucket(i)
         /\ m_sdommed_bucket' = m_sdommed_bucket => Buckets' = Buckets
<1>1. UNCHANGED <<succs, discovered>>
  BY DEF search
<1> QED
  BY <1>1 DEF bb_id, HasBucket, Bucket, Buckets, N, m_dfs_nodes

LEMMA InitIInv == Init => IInv
<1> SUFFICES ASSUME Init PROVE IInv
  OBVIOUS
<1>1. S!Init
  BY DEF Init, D!Init, S!Init
<1>2. S!IInv
  BY <1>1, DFSAssumption, TargetsAssumption, MadeAssumption, IdsAssumption, S!InitIInv
<1>3. S!EnteredByEdge
  BY <1>1 DEF S!Init, S!EnteredByEdge
<1>4. phase = "dfs" /\ made \in MadeOrders /\ DOMAIN m_data = {} /\ bucket_it = 1
  BY DEF Init
<1> QED
  BY <1>2, <1>3, <1>4 DEF IInv, SearchInv, Phases, Arrays, SdomsBelow, IdsInv, ForestInv, SemiInv,
       PredsInv, BucketInv, IdomsInv, DataInv, Working, Building

LEMMA MakeDfsPreserves == IInv /\ MakeDfs => IInv'
<1> SUFFICES ASSUME IInv, MakeDfs PROVE IInv'
  OBVIOUS
<1>1. SearchInv /\ S!IInv /\ S!EnteredByEdge
  BY DEF IInv, SearchInv
<1>2. S!Step /\ UNCHANGED <<made, phase, m_data>>
  <2>1. D!Step
    BY DEF MakeDfs
  <2>2. D!Start => S!Start
    BY DEF D!Start, S!Start, D!Visit, S!Visit, D!Fresh, S!Fresh
  <2>3. D!Pop => S!Pop
    BY DEF D!Pop, S!Pop
  <2>4. D!Scan => S!Scan
    BY DEF D!Scan, S!Scan, D!AtEnd, S!AtEnd, D!Known, S!Known, D!Succ, S!Succ, D!IsOpen, S!IsOpen,
           D!NextIt, S!NextIt
  <2>5. D!Finish => S!Finish
    BY DEF D!Finish, S!Finish, D!AtEnd, S!AtEnd
  <2>6. D!Descend => S!Descend
    BY DEF D!Descend, S!Descend, D!AtEnd, S!AtEnd, D!Known, S!Known, D!Succ, S!Succ,
           D!Visit, S!Visit, D!PushBoth, S!PushBoth, D!Fresh, S!Fresh
  <2> QED
    BY <2>1, <2>2, <2>3, <2>4, <2>5, <2>6 DEF D!Step, S!Step, MakeDfs
<1>3. phase = "dfs"
  BY <1>1, <1>2 DEF SearchInv, Stopped, S!Step, S!Start, S!Pop, S!Scan, S!Finish, S!Descend
<1>4. S!IInv' /\ S!EnteredByEdge'
  <2>1. S!Next
    BY <1>2 DEF S!Next
  <2> QED
    BY <1>1, <2>1, DFSAssumption, TargetsAssumption, MadeAssumption, IdsAssumption,
       S!NextIInv, S!NextEntered
<1>5. DOMAIN m_data' = {} /\ made' \in MadeOrders /\ phase' = "dfs" /\ bucket_it' \in Nat \ {0}
  BY <1>1, <1>2, <1>3 DEF MakeDfs, Arrays, IInv, SearchInv, DataInv, Building
<1> QED
  BY <1>4, <1>5 DEF IInv, SearchInv, Phases, Arrays, SdomsBelow, IdsInv, ForestInv, SemiInv,
       PredsInv, BucketInv, IdomsInv, DataInv, Working, Building

LEMMA EnterSdomsPreserves == IInv /\ EnterSdoms => IInv'
<1> SUFFICES ASSUME IInv, EnterSdoms PROVE IInv'
  OBVIOUS
<1>1. /\ SearchInv /\ phase = "dfs" /\ Stopped /\ phase' = "preds" /\ node' = N
      /\ preds' = PredsOf(N) /\ m_sdoms' = Numbers /\ m_idoms' = Numbers
      /\ m_sdommed_bucket' = [id \in 0 .. Cardinality(Nodes) - 1 |-> << >>]
      /\ dsu' = [parent |-> Numbers, label |-> Numbers]
      /\ UNCHANGED <<search, made, bucket_it, m_data>>
  BY DEF IInv, EnterSdoms
<1>2. SearchInv' /\ N' = N /\ succs' = succs /\ made' = made /\ \A i : Block(i)' = Block(i)
  <2>1. UNCHANGED <<succs, m_visited, m_stack, parent, cur_it, discovered, finished, backEdges, made>>
    BY <1>1 DEF search
  <2>2. UNCHANGED S!vars
    BY <2>1 DEF S!vars
  <2>3. S!IInv' /\ S!EnteredByEdge'
    BY <1>1, <2>2, DFSAssumption, TargetsAssumption, MadeAssumption, IdsAssumption,
       S!NextIInv, S!NextEntered
       DEF SearchInv
  <2> QED
    BY <1>1, <2>1, <2>3 DEF SearchInv, Stopped, N, Block, m_dfs_nodes
<1>3. /\ N \in Nat /\ N \in 1 .. N /\ succs' \in Graphs
      /\ \A i \in 1 .. N : Block(i) \in Nodes
  <2>1. /\ N \in Nat /\ 1 \in 1 .. N /\ succs \in Graphs
        /\ \A i \in 1 .. N : Block(i) \in Nodes
    BY <1>1, Order
  <2> QED
    BY <1>2, <2>1
<1>4. Numbers \in [1 .. N -> 1 .. N] /\ \A i \in 1 .. N : Numbers[i] = i
  BY DEF Numbers
<1>5. /\ preds' \in Seq(Nodes)
      /\ \A v \in 1 .. N : IsEdge(succs, Block(v), Block(N)) =>
                             \E k \in DOMAIN preds' : preds'[k] = Block(v)
  <2>1. preds' = m_preds(succs, made, Block(N))
    BY <1>1 DEF PredsOf, Block
  <2>2. succs \in Graphs /\ made \in MadeOrders
    BY <1>1, <1>2, <1>3 DEF SearchInv
  <2> QED
    BY <1>3, <2>1, <2>2, PredsFacts
<1>6. Phases'
  BY <1>1, <1>2, <1>3 DEF Phases
<1>20. Buckets' = [i \in 1 .. N |-> << >>]
  <2>1. \A i : bb_id(i)' = bb_id(i) /\ (HasBucket(i)' <=> HasBucket(i))
    BY <1>1, SameIds
  <2>2. \A i \in 1 .. N : HasBucket(i) => bb_id(i) \in 0 .. Cardinality(Nodes) - 1
    BY <1>1, BlockIds
  <2>3. \A i \in 1 .. N : HasBucket(i)' => Bucket(i)' = << >>
    BY <1>1, <2>1, <2>2 DEF Bucket
  <2> QED
    BY <1>2, <2>3 DEF Buckets
<1>7. Arrays'
  <2>1. SdomsTyped' /\ IdomsTyped'
    BY <1>1, <1>2, <1>4 DEF SdomsTyped, IdomsTyped
  <2>2. BucketsTyped'
    BY <1>1, <1>2, <1>20 DEF BucketsTyped
  <2>3. (dsu \in Forests)'
    BY <1>1, <1>2, <1>4 DEF Forests
  <2>4. bucket_it' \in Nat \ {0}
    BY <1>1 DEF IInv, Arrays
  <2> QED
    BY <1>5, <2>1, <2>2, <2>3, <2>4 DEF Arrays
<1>8. SdomsBelow'
  BY <1>1, <1>2, <1>3, <1>4 DEF SdomsBelow
<1>9. ForestInv'
  <2>1. (dsu \in Forests)'
    BY <1>1, <1>7 DEF Arrays
  <2>2. \A i \in 1 .. N : i <= N /\ dsu'.parent[i] = i /\ dsu'.label[i] = i
    BY <1>1, <1>3, <1>4
  <2> QED
    BY <1>1, <1>2, <2>1, <2>2 DEF ForestInv, GoodForest, Root
<1>10. FirstHandled' = N + 1
  BY <1>1 DEF FirstHandled
<1>11. SemiInv'
  <2>1. (N + 1) .. N = {}
    BY <1>3
  <2> QED
    BY <1>2, <1>10, <2>1 DEF SemiInv
<1>21. IdsInv'
  <2>1. (N + 1) .. N = {}
    BY <1>3
  <2> QED
    BY <1>1, <1>2, <1>10, <2>1 DEF IdsInv
<1>12. PredsInv'
  BY <1>1, <1>2, <1>5 DEF PredsInv
<1>13. BucketInv'
  <2>1. \A i \in 1 .. N : DOMAIN Buckets'[i] = {}
    BY <1>20
  <2>2. \A d \in 2 .. N : ~(N + 1 <= d)
    BY <1>3
  <2> QED
    BY <1>2, <1>10, <2>1, <2>2 DEF BucketInv
<1>14. IdomsInv' /\ DataInv'
  BY <1>1 DEF IInv, IdomsInv, DataInv, Building
<1> QED
  BY <1>2, <1>6, <1>7, <1>8, <1>9, <1>11, <1>12, <1>13, <1>14, <1>21 DEF IInv

(* A smaller semidominator of its last root keeps the forest good. *)
LEMMA LowerKeepsForest ==
  ASSUME N \in Nat, N' = N, SdomsTyped, NEW w \in 1 .. N, NEW f, GoodForest(f, w),
         NEW x \in 1 .. N, x <= m_sdoms[w], m_sdoms' = [m_sdoms EXCEPT ![w] = x]
  PROVE  GoodForest(f, w)'
<1>1. /\ \A i \in 1 .. N : i # w => m_sdoms'[i] = m_sdoms[i]
      /\ m_sdoms'[w] = x
      /\ \A i \in 1 .. N : m_sdoms[i] \in 1 .. N
  BY DEF SdomsTyped
<1>2. \A i \in 1 .. N : m_sdoms'[i] \in 1 .. N /\ m_sdoms'[i] <= m_sdoms[i]
  BY <1>1
<1>3. f \in Forests' /\ f \in Forests
  BY DEF GoodForest, Forests
<1>4. ASSUME NEW i \in 1 .. N, Hangs(f, w, i), i > w
      PROVE  Hangs(f, w, i)'
  <2>1. /\ f.parent[i] \in w .. i - 1 /\ f.label[i] \in w .. i
        /\ m_sdoms[f.label[i]] <= m_sdoms[i]
        /\ \A u \in w .. i : Beaten(f, w, i, u)
    BY <1>4 DEF Hangs
  <2>2. f.label[i] \in 1 .. N /\ i # w /\ w \in w .. f.parent[i]
    BY <1>4, <2>1
  <2>3. /\ m_sdoms'[f.label[i]] <= m_sdoms[f.label[i]]
        /\ m_sdoms'[f.label[i]] \in 1 .. N /\ m_sdoms[f.label[i]] \in 1 .. N
        /\ m_sdoms'[i] = m_sdoms[i] /\ m_sdoms[i] \in 1 .. N
    BY <1>1, <1>2, <2>2
  <2>4. m_sdoms'[f.label[i]] <= m_sdoms'[i]
    BY <2>1, <2>3
  <2>5. ASSUME NEW u \in w .. i PROVE Beaten(f, w, i, u)'
    <3>1. CASE u = w
      <4>1. m_sdoms'[w] <= m_sdoms'[u]
        BY <1>1, <3>1
      <4> QED
        BY <2>2, <4>1 DEF Beaten
    <3>2. CASE u # w
      <4>1. u \in 1 .. N /\ m_sdoms'[u] = m_sdoms[u] /\ m_sdoms[u] \in 1 .. N
        <5>1. u \in 1 .. N
          BY <2>1
        <5> QED
          BY <1>1, <3>2, <5>1
      <4>2. CASE m_sdoms[f.label[i]] <= m_sdoms[u]
        <5>1. m_sdoms'[f.label[i]] <= m_sdoms'[u]
          BY <2>3, <4>1, <4>2
        <5> QED
          BY <5>1 DEF Beaten
      <4>3. CASE \E v \in w .. f.parent[i] : m_sdoms[v] <= m_sdoms[u]
        <5>1. PICK v \in w .. f.parent[i] : m_sdoms[v] <= m_sdoms[u]
          BY <4>3
        <5>2. v \in 1 .. N
          BY <2>1, <5>1
        <5>3. m_sdoms'[v] <= m_sdoms[v] /\ m_sdoms'[v] \in 1 .. N /\ m_sdoms[v] \in 1 .. N
          BY <1>1, <1>2, <5>2
        <5>4. m_sdoms'[v] <= m_sdoms'[u]
          BY <4>1, <5>1, <5>3
        <5> QED
          BY <5>4 DEF Beaten
      <4> QED
        BY <2>1, <4>2, <4>3 DEF Beaten
    <3> QED
      BY <3>1, <3>2
  <2> QED
    BY <2>1, <2>4, <2>5 DEF Hangs
<1>5. \A i \in 1 .. N : (IF i <= w THEN Root(f, i) ELSE Hangs(f, w, i))'
  <2> SUFFICES ASSUME NEW i \in 1 .. N PROVE (IF i <= w THEN Root(f, i) ELSE Hangs(f, w, i))'
    OBVIOUS
  <2>1. IF i <= w THEN Root(f, i) ELSE Hangs(f, w, i)
    BY DEF GoodForest
  <2>2. CASE i <= w
    BY <2>1, <2>2 DEF Root
  <2>3. CASE ~(i <= w)
    BY <1>4, <2>1, <2>3
  <2> QED
    BY <2>2, <2>3
<1> QED
  BY <1>3, <1>5 DEF GoodForest

LEMMA ArrivedNumber ==
  ASSUME NEW b, Arrived(b)
  PROVE  m_dfs_labels(b) \in 1 .. N /\ Block(m_dfs_labels(b)) = b
  BY DEF Arrived, m_dfs_labels, Block

LEMMA EvalPredPreserves == IInv /\ EvalPred => IInv'
<1> SUFFICES ASSUME IInv, EvalPred PROVE IInv'
  OBVIOUS
<1>1. /\ SearchInv /\ Phases /\ Arrays /\ SdomsBelow /\ ForestInv /\ SemiInv
      /\ PredsInv /\ BucketInv /\ DataInv /\ phase = "preds" /\ preds # << >>
      /\ UNCHANGED <<search, made, node, m_idoms, m_sdommed_bucket, bucket_it, m_data>>
  BY DEF IInv, EvalPred
<1>2. /\ SearchInv' /\ N' = N /\ succs' = succs /\ Forests' = Forests
      /\ \A i : Block(i)' = Block(i)
      /\ \A i, j : IsSemiPath(j, i)' <=> IsSemiPath(j, i)
  BY <1>1, SameSearch
<1>3. N \in Nat /\ node \in 1 .. N
  <2>1. Stopped
    BY <1>1 DEF SearchInv
  <2> QED
    BY <1>1, <2>1, Order DEF Phases
<1>4. /\ preds \in Seq(Nodes) /\ SdomsTyped /\ IdomsTyped /\ BucketsTyped /\ dsu \in Forests
      /\ bucket_it \in Nat \ {0}
  BY <1>1 DEF Arrays
<1>9. Buckets' = Buckets /\ \A i : HasBucket(i)' <=> HasBucket(i)
  BY <1>1, SameIds
<1>10. IdsInv
  BY DEF IInv
<1>5. IdomsTyped' /\ BucketsTyped' /\ bucket_it' \in Nat \ {0} /\ node' = node
  BY <1>1, <1>2, <1>4, <1>9 DEF IdomsTyped, BucketsTyped
<1>6. DOMAIN m_data' = {}
  BY <1>1 DEF DataInv, Building
<1>7. CASE ~Arrived(Head(preds))
  <2>1. phase' = "threw" /\ UNCHANGED <<m_sdoms, dsu, preds>>
    BY <1>7 DEF EvalPred
  <2>2. Phases' /\ Arrays'
    BY <1>2, <1>3, <1>4, <1>5, <2>1 DEF Phases, Arrays, SdomsTyped
  <2>3. SdomsBelow'
    BY <1>1, <1>2, <2>1 DEF SdomsBelow, Working
  <2> QED
    BY <1>2, <1>6, <2>1, <2>2, <2>3 DEF IInv, IdsInv, ForestInv, SemiInv, PredsInv, BucketInv,
         IdomsInv, DataInv, Working, Building
<1>8. CASE Arrived(Head(preds))
  <2>1. PICK v \in 1 .. N : v = m_dfs_labels(Head(preds)) /\ Block(v) = Head(preds)
    BY <1>8, ArrivedNumber
  <2>2. PICK res : res = Find(dsu, v)
    OBVIOUS
  <2>3. PICK x : x = Min2(m_sdoms[node], m_sdoms[res.block])
    OBVIOUS
  <2>4. /\ m_sdoms' = [m_sdoms EXCEPT ![node] = x] /\ dsu' = res.forest
        /\ preds' = Tail(preds) /\ phase' = "preds"
    BY <1>1, <1>8, <2>1, <2>2, <2>3 DEF EvalPred
  <2>5. GoodForest(dsu, node)
    BY <1>1 DEF ForestInv, Working
  <2>6. FindSpec(res, dsu, node, v)
    BY <1>3, <1>4, <2>2, <2>5, FindFacts
  <2>7. /\ GoodForest(res.forest, node)
        /\ v <= node => res.block = v
        /\ v >= node => /\ res.block \in node .. v
                        /\ \A u \in node .. v : m_sdoms[res.block] <= m_sdoms[u]
    BY <2>6 DEF FindSpec
  <2>8. res.block \in 1 .. N
    BY <1>3, <2>7
  <2>9. \A i \in 1 .. N : m_sdoms[i] \in 1 .. N
    BY <1>4 DEF SdomsTyped
  <2>10. x \in 1 .. N /\ x <= m_sdoms[node] /\ x <= m_sdoms[res.block]
    <3>1. m_sdoms[node] \in 1 .. N /\ m_sdoms[res.block] \in 1 .. N
      BY <1>3, <2>8, <2>9
    <3> QED
      BY <1>3, <2>3, <3>1 DEF Min2
  <2>11. SdomsTyped' /\ m_sdoms'[node] = x
         /\ \A i \in 1 .. N : i # node => m_sdoms'[i] = m_sdoms[i]
    BY <1>2, <1>3, <1>4, <2>4, <2>10 DEF SdomsTyped
  <2>12. \A i \in 1 .. N : m_sdoms'[i] \in 1 .. N /\ m_sdoms'[i] <= m_sdoms[i]
    BY <1>3, <2>9, <2>10, <2>11
  <2>13. Phases'
    BY <1>2, <1>3, <1>5, <2>4 DEF Phases
  <2>14. Arrays'
    <3>1. preds' \in Seq(Nodes)
      BY <1>1, <1>4, <2>4
    <3>2. (dsu \in Forests)'
      BY <1>2, <2>4, <2>7 DEF GoodForest
    <3> QED
      BY <1>5, <2>11, <3>1, <3>2 DEF Arrays
  <2>15. SdomsBelow'
    <3>1. \A i \in 1 .. N : m_sdoms[i] <= i /\ (i < node => m_sdoms[i] = i)
      BY <1>1 DEF SdomsBelow, Working
    <3>2. ASSUME NEW i \in 1 .. N PROVE m_sdoms'[i] <= i /\ (i < node => m_sdoms'[i] = i)
      <4>1. m_sdoms'[i] \in 1 .. N /\ m_sdoms[i] \in 1 .. N /\ m_sdoms'[i] <= m_sdoms[i]
        BY <2>9, <2>12
      <4>2. m_sdoms'[i] <= i
        BY <3>1, <4>1
      <4>3. i < node => i # node
        BY <1>3
      <4> QED
        BY <2>11, <3>1, <4>2, <4>3
    <3> QED
      BY <1>2, <1>5, <3>2 DEF SdomsBelow
  <2>16. ForestInv'
    <3>1. PICK f : f = res.forest
      OBVIOUS
    <3>2. PICK w : w = node
      OBVIOUS
    <3>3. GoodForest(f, w)'
      BY <1>2, <1>3, <1>4, <2>4, <2>7, <2>10, <3>1, <3>2, LowerKeepsForest
    <3>4. dsu' = f /\ node' = w
      BY <1>5, <2>4, <3>1, <3>2
    <3> QED
      BY <3>3, <3>4 DEF ForestInv, GoodForest, Root, Hangs, Beaten
  <2>17. FirstHandled = node + 1 /\ FirstHandled' = node + 1
    BY <1>1, <1>5, <2>4 DEF FirstHandled
  <2>18. SemiInv'
    <3>1. \A i \in node + 1 .. N : \A j \in 1 .. i : IsSemiPath(j, i) => m_sdoms[i] <= j
      BY <1>1, <2>17 DEF SemiInv, Working
    <3>2. \A i \in node + 1 .. N : m_sdoms'[i] = m_sdoms[i]
      BY <1>3, <2>11
    <3> QED
      BY <1>2, <2>17, <3>1, <3>2 DEF SemiInv
  <2>19. Seen(v)'
    <3>1. m_sdoms[v] <= v
      BY <1>1 DEF SdomsBelow
    <3>2. CASE v < node
      <4>1. x <= v
        BY <1>3, <2>7, <2>9, <2>10, <3>1, <3>2
      <4>2. ~(v > node)
        BY <1>3, <3>2
      <4> QED
        BY <1>5, <2>11, <4>1, <4>2 DEF Seen
    <3>3. CASE v = node
      <4>1. x <= v
        BY <1>3, <2>7, <2>9, <2>10, <3>1, <3>3
      <4>2. ~(v > node)
        BY <1>3, <3>3
      <4> QED
        BY <1>5, <2>11, <4>1, <4>2 DEF Seen
    <3>4. CASE v > node
      <4>1. ASSUME NEW u \in node .. v PROVE x <= m_sdoms'[u]
        <5>1. CASE u = node
          BY <1>3, <2>10, <2>11, <5>1
        <5>2. CASE u # node
          <6>1. u \in 1 .. N /\ v >= node
            BY <1>3, <3>4
          <6>2. m_sdoms'[u] = m_sdoms[u] /\ m_sdoms[u] \in 1 .. N /\ m_sdoms[res.block] \in 1 .. N
            BY <2>8, <2>9, <2>11, <5>2, <6>1
          <6>3. m_sdoms[res.block] <= m_sdoms[u]
            BY <2>7, <6>1
          <6> QED
            BY <1>3, <2>10, <6>2, <6>3
        <5> QED
          BY <5>1, <5>2
      <4>2. ~(v <= node)
        BY <1>3, <3>4
      <4> QED
        BY <1>5, <2>11, <4>1, <4>2 DEF Seen
    <3> QED
      BY <1>3, <3>2, <3>3, <3>4
  <2>20. PredsInv'
    <3>1. \A u \in 1 .. N : IsEdge(succs, Block(u), Block(node)) =>
                              Seen(u) \/ \E k \in DOMAIN preds : preds[k] = Block(u)
      BY <1>1 DEF PredsInv
    <3>2. ASSUME NEW u \in 1 .. N, IsEdge(succs, Block(u), Block(node))
          PROVE  Seen(u)' \/ \E k \in DOMAIN preds' : preds'[k] = Block(u)
      <4>1. CASE Seen(u)
        <5>1. u <= node => x <= u
          <6> SUFFICES ASSUME u <= node PROVE x <= u
            OBVIOUS
          <6>1. m_sdoms[node] <= u /\ m_sdoms[node] \in 1 .. N
            BY <1>3, <2>9, <4>1 DEF Seen
          <6> QED
            BY <1>3, <2>10, <6>1
        <5>2. ASSUME u > node, NEW y \in node .. u PROVE x <= m_sdoms'[y]
          <6>1. CASE y = node
            BY <1>3, <2>10, <2>11, <6>1
          <6>2. CASE y # node
            <7>1. y \in 1 .. N
              BY <1>3
            <7>2. m_sdoms'[y] = m_sdoms[y] /\ m_sdoms[y] \in 1 .. N /\ m_sdoms[node] \in 1 .. N
              BY <1>3, <2>9, <2>11, <6>2, <7>1
            <7>3. m_sdoms[node] <= m_sdoms[y]
              BY <4>1, <5>2 DEF Seen
            <7> QED
              BY <1>3, <2>10, <7>2, <7>3
          <6> QED
            BY <6>1, <6>2
        <5> QED
          BY <1>5, <2>11, <5>1, <5>2 DEF Seen
      <4>2. CASE \E k \in DOMAIN preds : preds[k] = Block(u)
        <5>1. PICK k \in DOMAIN preds : preds[k] = Block(u)
          BY <4>2
        <5>2. CASE k = 1
          <6>1. Block(u) = Block(v)
            BY <1>1, <1>4, <2>1, <5>1, <5>2
          <6>2. u = v
            <7>1. Stopped
              BY <1>1 DEF SearchInv
            <7> QED
              BY <1>1, <6>1, <7>1, Order
          <6> QED
            BY <2>19, <6>2
        <5>3. CASE k # 1
          <6>1. k - 1 \in DOMAIN preds' /\ preds'[k - 1] = preds[k]
            BY <1>1, <1>4, <2>4, <5>3
          <6> QED
            BY <5>1, <6>1
        <5> QED
          BY <5>2, <5>3
      <4> QED
        BY <3>1, <3>2, <4>1, <4>2
    <3> QED
      BY <1>2, <1>5, <3>2 DEF PredsInv
  <2>21. BucketInv'
    <3>1. /\ \A i \in 1 .. N : \A p \in DOMAIN Buckets[i] :
               LET d == Buckets[i][p]
               IN d \in 2 .. N /\ node + 1 <= d /\ m_sdoms[d] = i
          /\ \A d \in 2 .. N : node + 1 <= d => RawIdom(d) \/ Waiting(d)
      BY <1>1, <2>17 DEF BucketInv, Working
    <3>2. \A d \in 2 .. N : node + 1 <= d => m_sdoms'[d] = m_sdoms[d] /\ m_sdoms[d] \in 1 .. N
      BY <1>3, <2>9, <2>11
    <3>3. ASSUME NEW d \in 2 .. N, node + 1 <= d, RawIdom(d) PROVE RawIdom(d)'
      <4>1. m_idoms' = m_idoms /\ m_sdoms'[d] = m_sdoms[d] /\ m_sdoms[d] \in 1 .. N
        BY <1>1, <3>2, <3>3
      <4>2. CASE m_idoms[d] = m_sdoms[d]
        BY <4>1, <4>2 DEF RawIdom
      <4>3. CASE m_idoms[d] \in 2 .. d - 1 /\ m_sdoms[m_idoms[d]] < m_sdoms[d]
        <5>1. m_idoms[d] \in 1 .. N
          BY <1>3, <4>3
        <5>2. /\ m_sdoms'[m_idoms[d]] \in 1 .. N /\ m_sdoms[m_idoms[d]] \in 1 .. N
              /\ m_sdoms'[m_idoms[d]] <= m_sdoms[m_idoms[d]]
          BY <2>9, <2>12, <5>1
        <5>3. m_sdoms'[m_idoms[d]] < m_sdoms[d]
          BY <1>3, <4>1, <4>3, <5>2
        <5> QED
          BY <4>1, <4>3, <5>3 DEF RawIdom
      <4> QED
        BY <3>3, <4>2, <4>3 DEF RawIdom
    <3>4. ASSUME NEW d \in 2 .. N, node + 1 <= d, Waiting(d) PROVE Waiting(d)'
      BY <1>1, <1>5, <1>9, <2>4, <3>2, <3>4 DEF Waiting
    <3>5. \A i \in 1 .. N : \A p \in DOMAIN Buckets'[i] :
             LET d == Buckets'[i][p]
             IN d \in 2 .. N /\ node + 1 <= d /\ m_sdoms'[d] = i
      BY <1>9, <3>1, <3>2
    <3> QED
      BY <1>2, <2>17, <3>1, <3>3, <3>4, <3>5 DEF BucketInv
  <2>22. IdomsInv' /\ DataInv'
    BY <1>6, <2>4 DEF IdomsInv, DataInv, Building
  <2>23. IdsInv'
    BY <1>1, <1>2, <1>9, <1>10, <2>4, <2>17 DEF IdsInv, Working
  <2> QED
    BY <1>2, <2>13, <2>14, <2>15, <2>16, <2>18, <2>20, <2>21, <2>22, <2>23 DEF IInv
<1> QED
  BY <1>7, <1>8

LEMMA SameForest ==
  ASSUME N' = N, m_sdoms' = m_sdoms, NEW f, NEW w, GoodForest(f, w)
  PROVE  GoodForest(f, w)'
  BY DEF GoodForest, Forests, Root, Hangs, Beaten

(* When all predecessors are seen the block has its semidominator. *)
LEMMA SdomFound ==
  ASSUME SearchInv, Stopped, SdomsTyped, SemiInv, PredsInv,
         phase = "preds", preds = << >>, node \in 1 .. N
  PROVE  /\ \A j \in 1 .. node : IsSemiPath(j, node) => m_sdoms[node] <= j
         /\ node # 1 => m_sdoms[node] \in 1 .. node - 1
<1>1. N \in Nat /\ \A i \in 1 .. N : m_sdoms[i] \in 1 .. N
  BY Order, SdomsInRange
<1>2. \A v \in 1 .. N : IsEdge(succs, Block(v), Block(node)) => Seen(v)
  BY DEF PredsInv
<1>3. \A i \in node + 1 .. N : \A j \in 1 .. i : IsSemiPath(j, i) => m_sdoms[i] <= j
  BY DEF SemiInv, Working, FirstHandled
<1>4. ASSUME NEW j \in 1 .. node, IsSemiPath(j, node) PROVE m_sdoms[node] <= j
  <2>1. CASE IsEdge(succs, Block(j), Block(node))
    <3>1. Seen(j) /\ j <= node
      BY <1>1, <1>2, <2>1
    <3> QED
      BY <3>1 DEF Seen
  <2>2. CASE \E v \in node + 1 .. N : /\ IsEdge(succs, Block(v), Block(node))
                                      /\ \E u \in node + 1 .. v : IsSemiPath(j, u)
    <3>1. PICK v \in node + 1 .. N : /\ IsEdge(succs, Block(v), Block(node))
                                     /\ \E u \in node + 1 .. v : IsSemiPath(j, u)
      BY <2>2
    <3>2. PICK u \in node + 1 .. v : IsSemiPath(j, u)
      BY <3>1
    <3>3. v \in 1 .. N /\ v > node /\ u \in node .. v /\ u \in node + 1 .. N /\ u \in 1 .. N
          /\ j \in 1 .. u
      BY <1>1, <3>1, <3>2
    <3>4. Seen(v)
      BY <1>2, <3>1, <3>3
    <3>5. m_sdoms[node] <= m_sdoms[u]
      BY <3>3, <3>4 DEF Seen
    <3>6. m_sdoms[u] <= j
      BY <1>3, <3>2, <3>3
    <3>7. m_sdoms[node] \in 1 .. N /\ m_sdoms[u] \in 1 .. N
      BY <1>1, <3>3
    <3> QED
      BY <1>1, <3>5, <3>6, <3>7
  <2> QED
    BY <1>4, <2>1, <2>2, FirstOnPath
<1>5. ASSUME node # 1 PROVE m_sdoms[node] \in 1 .. node - 1
  <2>1. node \in 2 .. N
    BY <1>1, <1>5
  <2>2. PICK j \in 1 .. node - 1 : IsEdge(succs, Block(j), Block(node))
    BY <2>1, Order
  <2>3. j \in 1 .. node /\ IsSemiPath(j, node)
    BY <1>1, <2>2 DEF IsSemiPath
  <2>4. m_sdoms[node] <= j /\ m_sdoms[node] \in 1 .. N
    BY <1>1, <1>4, <2>3
  <2> QED
    BY <1>1, <2>2, <2>4
<1> QED
  BY <1>4, <1>5

LEMMA PushBucketPreserves == IInv /\ PushBucket => IInv'
<1> SUFFICES ASSUME IInv, PushBucket PROVE IInv'
  OBVIOUS
<1>1. /\ SearchInv /\ Phases /\ Arrays /\ SdomsBelow /\ ForestInv /\ SemiInv
      /\ PredsInv /\ BucketInv /\ DataInv /\ phase = "preds" /\ preds = << >>
      /\ HasBucket(node) /\ (node # 1 => HasBucket(m_sdoms[node]))
      /\ m_sdommed_bucket' = IF node = 1 THEN m_sdommed_bucket
                             ELSE [m_sdommed_bucket EXCEPT ![bb_id(m_sdoms[node])] =
                                     Append(@, node)]
      /\ phase' = "bucket" /\ bucket_it' = 1
      /\ UNCHANGED <<search, made, node, preds, m_sdoms, m_idoms, dsu, m_data>>
  BY DEF IInv, PushBucket
<1>2. /\ SearchInv' /\ N' = N /\ succs' = succs /\ Forests' = Forests
      /\ \A i : Block(i)' = Block(i)
      /\ \A i, j : IsSemiPath(j, i)' <=> IsSemiPath(j, i)
  BY <1>1, SameSearch
<1>3. Stopped /\ N \in Nat /\ node \in 1 .. N
  <2>1. Stopped
    BY <1>1 DEF SearchInv
  <2> QED
    BY <1>1, <2>1, Order DEF Phases
<1>4. /\ preds \in Seq(Nodes) /\ SdomsTyped /\ IdomsTyped /\ BucketsTyped /\ dsu \in Forests
  BY <1>1 DEF Arrays
<1>5. /\ \A j \in 1 .. node : IsSemiPath(j, node) => m_sdoms[node] <= j
      /\ node # 1 => m_sdoms[node] \in 1 .. node - 1
  BY <1>1, <1>3, <1>4, SdomFound
<1>16. /\ Buckets' = IF node = 1 THEN Buckets
                     ELSE [Buckets EXCEPT ![m_sdoms[node]] = Append(@, node)]
       /\ m_sdommed_bucket' \in [0 .. Cardinality(Nodes) - 1 -> Seq(1 .. N)]
       /\ \A i : HasBucket(i)' <=> HasBucket(i)
  <2>1. /\ \A i : bb_id(i)' = bb_id(i)
        /\ \A i : HasBucket(i)' <=> HasBucket(i)
        /\ m_sdommed_bucket' = m_sdommed_bucket => Buckets' = Buckets
    BY <1>1, SameIds
  <2>2. m_sdommed_bucket \in [0 .. Cardinality(Nodes) - 1 -> Seq(1 .. N)]
    BY <1>4 DEF BucketsTyped
  <2>3. CASE node = 1
    BY <1>1, <2>1, <2>2, <2>3
  <2>4. CASE node # 1
    <3>1. PICK s : s = m_sdoms[node] /\ s \in 1 .. N /\ HasBucket(s)
      BY <1>1, <1>3, <1>5, <2>4
    <3>2. /\ \A i \in 1 .. N : HasBucket(i) => bb_id(i) \in 0 .. Cardinality(Nodes) - 1
          /\ \A i \in 1 .. N : bb_id(i) = bb_id(s) => i = s
      BY <1>1, <1>3, <3>1, BlockIds
    <3>3. m_sdommed_bucket' = [m_sdommed_bucket EXCEPT ![bb_id(s)] = Append(@, node)]
      BY <1>1, <2>4, <3>1
    <3>4. /\ m_sdommed_bucket[bb_id(s)] \in Seq(1 .. N)
          /\ Append(m_sdommed_bucket[bb_id(s)], node) \in Seq(1 .. N)
      <4>1. m_sdommed_bucket[bb_id(s)] \in Seq(1 .. N)
        BY <2>2, <3>1, <3>2
      <4> QED
        BY <1>3, <4>1
    <3>5. m_sdommed_bucket' \in [0 .. Cardinality(Nodes) - 1 -> Seq(1 .. N)]
      BY <2>2, <3>3, <3>4
    <3>6. \A i \in 1 .. N :
            Buckets'[i] = IF i = s THEN Append(Buckets[i], node) ELSE Buckets[i]
      <4> TAKE i \in 1 .. N
      <4>1. Buckets'[i] = IF HasBucket(i) THEN m_sdommed_bucket'[bb_id(i)] ELSE << >>
        BY <1>2, <2>1 DEF Buckets, Bucket
      <4>2. Buckets[i] = IF HasBucket(i) THEN m_sdommed_bucket[bb_id(i)] ELSE << >>
        BY DEF Buckets, Bucket
      <4>3. CASE i = s
        BY <2>2, <3>1, <3>2, <3>3, <4>1, <4>2, <4>3
      <4>4. CASE i # s
        BY <2>2, <3>2, <3>3, <4>1, <4>2, <4>4
      <4> QED
        BY <4>3, <4>4
    <3>7. /\ Buckets = [i \in 1 .. N |-> Buckets[i]]
          /\ Buckets' = [i \in 1 .. N |-> Buckets'[i]]
      BY <1>2 DEF Buckets
    <3>8. Buckets' = [Buckets EXCEPT ![s] = Append(@, node)]
      BY <3>6, <3>7
    <3> QED
      BY <2>1, <2>4, <3>1, <3>5, <3>8
  <2> QED
    BY <2>3, <2>4
(* What was in the buckets stays where it was. *)
<1>6. /\ \A i \in 1 .. N : \A p \in DOMAIN Buckets[i] :
           /\ p \in DOMAIN Buckets'[i] /\ p \in Nat \ {0}
           /\ Buckets'[i][p] = Buckets[i][p]
      /\ node # 1 => \E p \in DOMAIN Buckets'[m_sdoms[node]] :
                       Buckets'[m_sdoms[node]][p] = node
      /\ \A i \in 1 .. N : \A p \in DOMAIN Buckets'[i] :
           \/ p \in DOMAIN Buckets[i]
           \/ node # 1 /\ i = m_sdoms[node] /\ Buckets'[i][p] = node
      /\ BucketsTyped'
  <2>1. Buckets \in [1 .. N -> Seq(1 .. N)]
    BY <1>4 DEF BucketsTyped
  <2>2. CASE node = 1
    <3>1. Buckets' = Buckets
      BY <1>16, <2>2
    <3>2. \A i \in 1 .. N : Buckets[i] \in Seq(1 .. N)
      BY <2>1
    <3>3. \A i \in 1 .. N : DOMAIN Buckets[i] \subseteq Nat \ {0}
      BY <3>2
    <3> QED
      BY <1>2, <1>4, <1>16, <2>2, <3>1, <3>3 DEF BucketsTyped
  <2>3. CASE node # 1
    <3> DEFINE s == m_sdoms[node]
               q == Buckets[s]
    <3>1. s \in 1 .. N /\ q \in Seq(1 .. N)
      <4>1. s \in 1 .. N
        BY <1>3, <1>5, <2>3
      <4> QED
        BY <2>1, <4>1
    <3>2. Buckets' = [Buckets EXCEPT ![s] = Append(q, node)]
      BY <1>16, <2>3
    <3> HIDE DEF s
    <3>3. /\ Append(q, node) \in Seq(1 .. N) /\ Len(q) \in Nat
          /\ DOMAIN q = 1 .. Len(q) /\ DOMAIN Append(q, node) = 1 .. Len(q) + 1
          /\ \A p \in 1 .. Len(q) : Append(q, node)[p] = q[p]
          /\ Append(q, node)[Len(q) + 1] = node
      <4> HIDE DEF q
      <4> QED
        BY <1>3, <3>1, S!AppendFacts
    <3>4. /\ Buckets' \in [1 .. N -> Seq(1 .. N)]
          /\ Buckets'[s] = Append(q, node)
          /\ \A i \in 1 .. N : i # s => Buckets'[i] = Buckets[i]
      BY <2>1, <3>1, <3>2, <3>3
    <3>5. \A i \in 1 .. N : Buckets[i] \in Seq(1 .. N)
      BY <2>1
    <3>6. \A i \in 1 .. N : DOMAIN Buckets[i] \subseteq Nat \ {0}
      BY <3>5
    <3>7. BucketsTyped'
      BY <1>2, <1>16, <3>4 DEF BucketsTyped
    <3>8. ASSUME NEW i \in 1 .. N, NEW p \in DOMAIN Buckets[i]
          PROVE  /\ p \in DOMAIN Buckets'[i] /\ p \in Nat \ {0}
                 /\ Buckets'[i][p] = Buckets[i][p]
      <4>1. CASE i = s
        <5>1. p \in 1 .. Len(q) /\ p \in 1 .. Len(q) + 1
          BY <3>3, <4>1
        <5> HIDE DEF q
        <5>2. Buckets'[i][p] = q[p] /\ p \in DOMAIN Buckets'[i]
          BY <3>3, <3>4, <4>1, <5>1
        <5> QED
          BY <4>1, <5>1, <5>2 DEF q
      <4>2. CASE i # s
        BY <3>4, <3>6, <4>2
      <4> QED
        BY <4>1, <4>2
    <3>9. ASSUME NEW i \in 1 .. N, NEW p \in DOMAIN Buckets'[i]
          PROVE  \/ p \in DOMAIN Buckets[i]
                 \/ node # 1 /\ i = s /\ Buckets'[i][p] = node
      <4>1. CASE i = s
        <5>1. p \in 1 .. Len(q) + 1
          BY <3>3, <3>4, <4>1
        <5>2. CASE p = Len(q) + 1
          BY <2>3, <3>3, <3>4, <4>1, <5>2
        <5>3. CASE p # Len(q) + 1
          BY <3>3, <4>1, <5>1, <5>3
        <5> QED
          BY <5>2, <5>3
      <4>2. CASE i # s
        BY <3>4, <4>2
      <4> QED
        BY <4>1, <4>2
    <3>10. Len(q) + 1 \in DOMAIN Buckets'[s] /\ Buckets'[s][Len(q) + 1] = node
      <4> HIDE DEF q
      <4> QED
        BY <3>3, <3>4
    <3> QED
      BY <3>7, <3>8, <3>9, <3>10 DEF s
  <2> QED
    BY <2>2, <2>3
<1>7. FirstHandled = node + 1 /\ FirstHandled' = node
  BY <1>1 DEF FirstHandled
<1>8. Phases'
  BY <1>1, <1>2, <1>3 DEF Phases
<1>9. Arrays'
  BY <1>1, <1>2, <1>4, <1>6 DEF Arrays, SdomsTyped, IdomsTyped
<1>10. SdomsBelow'
  BY <1>1, <1>2 DEF SdomsBelow, Working
<1>11. ForestInv'
  <2>1. PICK f, w : f = dsu /\ w = node /\ GoodForest(f, w)
    BY <1>1 DEF ForestInv, Working
  <2>2. GoodForest(f, w)' /\ dsu' = f /\ node' = w
    BY <1>1, <1>2, <2>1, SameForest
  <2> QED
    BY <2>2 DEF ForestInv, GoodForest, Root, Hangs, Beaten
<1>12. SemiInv'
  <2>1. \A i \in node + 1 .. N : \A j \in 1 .. i : IsSemiPath(j, i) => m_sdoms[i] <= j
    BY <1>1, <1>7 DEF SemiInv, Working
  <2>2. \A i \in node .. N : i = node \/ i \in node + 1 .. N
    BY <1>3
  <2>3. \A i \in node .. N : \A j \in 1 .. i : IsSemiPath(j, i) => m_sdoms[i] <= j
    BY <1>5, <2>1, <2>2
  <2> QED
    BY <1>1, <1>2, <1>7, <2>3 DEF SemiInv
<1>13. PredsInv'
  BY <1>1 DEF PredsInv
<1>14. BucketInv'
  <2>1. /\ \A i \in 1 .. N : \A p \in DOMAIN Buckets[i] :
             LET d == Buckets[i][p]
             IN d \in 2 .. N /\ node + 1 <= d /\ m_sdoms[d] = i
        /\ \A d \in 2 .. N : node + 1 <= d => RawIdom(d) \/ Waiting(d)
    BY <1>1, <1>7 DEF BucketInv, Working
  <2>2. ASSUME NEW i \in 1 .. N, NEW p \in DOMAIN Buckets'[i]
        PROVE  LET d == Buckets'[i][p]
               IN d \in 2 .. N /\ node <= d /\ m_sdoms'[d] = i
    <3>1. CASE p \in DOMAIN Buckets[i]
      <4>1. PICK d : d = Buckets[i][p]
        OBVIOUS
      <4>2. d \in 2 .. N /\ node + 1 <= d /\ m_sdoms[d] = i
        BY <2>1, <3>1, <4>1
      <4>3. node <= d
        BY <1>3, <4>2
      <4>4. Buckets'[i][p] = d
        BY <1>6, <3>1, <4>1
      <4> QED
        BY <1>1, <4>2, <4>3, <4>4
    <3>2. CASE node # 1 /\ i = m_sdoms[node] /\ Buckets'[i][p] = node
      BY <1>1, <1>3, <3>2
    <3> QED
      BY <1>6, <3>1, <3>2
  <2>3. ASSUME NEW d \in 2 .. N, node <= d PROVE RawIdom(d)' \/ Waiting(d)'
    <3>1. CASE d = node
      <4>1. node # 1 /\ m_sdoms[node] \in 1 .. node - 1
        BY <1>3, <1>5, <3>1
      <4>2. m_sdoms[node] <= node /\ m_sdoms[node] # node
        BY <1>3, <4>1
      <4> QED
        BY <1>1, <1>6, <3>1, <4>1, <4>2 DEF Waiting
    <3>2. CASE d # node
      <4>1. node + 1 <= d
        BY <1>3, <2>3, <3>2
      <4>2. CASE RawIdom(d)
        BY <1>1, <4>2 DEF RawIdom
      <4>3. CASE Waiting(d)
        <5>1. PICK i : i = m_sdoms[d]
          OBVIOUS
        <5>2. PICK p \in DOMAIN Buckets[i] : Buckets[i][p] = d /\ i <= node
          BY <4>3, <5>1 DEF Waiting
        <5>3. i \in 1 .. N
          BY <1>4, <5>1 DEF SdomsTyped
        <5>4. /\ p \in DOMAIN Buckets'[i] /\ Buckets'[i][p] = d
              /\ p >= 1
          BY <1>6, <5>2, <5>3
        <5>5. m_sdoms'[d] = i /\ node' = node
          BY <1>1, <5>1
        <5> QED
          BY <1>1, <5>2, <5>4, <5>5 DEF Waiting
      <4> QED
        BY <2>1, <4>1, <4>2, <4>3
    <3> QED
      BY <3>1, <3>2
  <2> QED
    BY <1>2, <1>7, <2>2, <2>3 DEF BucketInv
<1>15. IdomsInv' /\ DataInv'
  BY <1>1 DEF IdomsInv, DataInv, Building
<1>17. IdsInv'
  <2>1. \A i \in node + 1 .. N : HasBucket(i)
    BY <1>1, <1>7 DEF IInv, IdsInv, Working
  <2>2. \A i \in node .. N : i = node \/ i \in node + 1 .. N
    BY <1>3
  <2> QED
    BY <1>1, <1>2, <1>7, <1>16, <2>1, <2>2 DEF IdsInv
<1> QED
  BY <1>2, <1>8, <1>9, <1>10, <1>11, <1>12, <1>13, <1>14, <1>15, <1>17 DEF IInv

LEMMA NoSuchBucketPreserves == IInv /\ NoSuchBucket => IInv'
<1> SUFFICES ASSUME IInv, NoSuchBucket PROVE IInv'
  OBVIOUS
<1>1. /\ SearchInv /\ Phases /\ Arrays /\ SdomsBelow /\ SemiInv /\ PredsInv /\ DataInv
      /\ phase = "preds" /\ preds = << >> /\ phase' = "undefined"
      /\ ~HasBucket(node) \/ (node # 1 /\ ~HasBucket(m_sdoms[node]))
      /\ UNCHANGED <<search, made, node, preds, m_sdoms, m_idoms, m_sdommed_bucket, bucket_it,
                     dsu, m_data>>
  BY DEF IInv, NoSuchBucket
<1>2. /\ SearchInv' /\ N' = N /\ Forests' = Forests
      /\ Buckets' = Buckets /\ \A i : HasBucket(i)' <=> HasBucket(i)
  BY <1>1, SameSearch, SameIds
<1>3. Stopped /\ N \in Nat /\ node \in 1 .. N /\ SdomsTyped
  <2>1. Stopped /\ SdomsTyped
    BY <1>1 DEF SearchInv, Arrays
  <2> QED
    BY <1>1, <2>1, Order DEF Phases
<1>4. Phases' /\ Arrays' /\ SdomsBelow'
  BY <1>1, <1>2, <1>3 DEF Phases, Arrays, SdomsTyped, IdomsTyped, BucketsTyped, SdomsBelow, Working
<1>5. IdsInv'
  <2>1. \A i \in 1 .. N : m_sdoms[i] \in 1 .. N
    BY <1>3, SdomsInRange
  <2>2. \E i \in 1 .. N : ~HasBucket(i)
    BY <1>1, <1>3, <2>1
  <2> QED
    BY <1>1, <1>2, <2>2 DEF IdsInv, Working, Building
<1> QED
  BY <1>1, <1>2, <1>4, <1>5 DEF IInv, ForestInv, SemiInv, PredsInv, BucketInv, IdomsInv, DataInv,
     Working, Building

LEMMA DrainBucketPreserves == IInv /\ DrainBucket => IInv'
<1> SUFFICES ASSUME IInv, DrainBucket PROVE IInv'
  OBVIOUS
<1>1. /\ SearchInv /\ Phases /\ Arrays /\ SdomsBelow /\ ForestInv /\ SemiInv
      /\ PredsInv /\ BucketInv /\ DataInv /\ phase = "bucket"
      /\ bucket_it <= Len(Bucket(node)) /\ bucket_it' = bucket_it + 1
      /\ UNCHANGED <<search, made, phase, node, preds, m_sdoms, m_sdommed_bucket, m_data>>
  BY DEF IInv, DrainBucket
<1>2. /\ SearchInv' /\ N' = N /\ succs' = succs /\ Forests' = Forests
      /\ \A i : Block(i)' = Block(i)
      /\ \A i, j : IsSemiPath(j, i)' <=> IsSemiPath(j, i)
  BY <1>1, SameSearch
<1>3. N \in Nat /\ node \in 1 .. N
  <2>1. Stopped
    BY <1>1 DEF SearchInv
  <2> QED
    BY <1>1, <2>1, Order DEF Phases
<1>26. Buckets' = Buckets /\ \A i : HasBucket(i)' <=> HasBucket(i)
  BY <1>1, SameIds
<1>4. /\ preds \in Seq(Nodes) /\ SdomsTyped /\ IdomsTyped /\ BucketsTyped /\ dsu \in Forests
      /\ bucket_it \in Nat \ {0} /\ SdomsTyped' /\ BucketsTyped'
  BY <1>1, <1>2, <1>26 DEF Arrays, SdomsTyped, BucketsTyped
<1>5. FirstHandled = node /\ FirstHandled' = node
  BY <1>1 DEF FirstHandled
<1>27. IdsInv' /\ Buckets[node] = Bucket(node)
  <2>1. \A i \in node .. N : HasBucket(i)
    BY <1>1, <1>5 DEF IInv, IdsInv, Working
  <2>2. HasBucket(node)
    BY <1>3, <2>1
  <2> QED
    BY <1>1, <1>2, <1>3, <1>5, <1>26, <2>1, <2>2 DEF IdsInv, Buckets
<1>6. /\ \A i \in 1 .. N : \A p \in DOMAIN Buckets[i] :
           LET d == Buckets[i][p]
           IN d \in 2 .. N /\ node <= d /\ m_sdoms[d] = i
      /\ \A d \in 2 .. N : node <= d => RawIdom(d) \/ Waiting(d)
  BY <1>1, <1>5 DEF BucketInv, Working
<1>7. \A i \in 1 .. N : Buckets[i] \in Seq(1 .. N)
  BY <1>4 DEF BucketsTyped
<1>8. \A i \in 1 .. N : m_sdoms[i] \in 1 .. N
  BY <1>4, SdomsInRange
<1>9. bucket_it \in DOMAIN Buckets[node]
  <2>1. Buckets[node] \in Seq(1 .. N)
    BY <1>3, <1>7
  <2> QED
    BY <1>1, <1>4, <1>27, <2>1
<1>10. PICK d : d = Buckets[node][bucket_it] /\ d \in 2 .. N /\ node <= d /\ m_sdoms[d] = node
  BY <1>3, <1>6, <1>9
<1>11. PICK res : res = Find(dsu, d)
  OBVIOUS
<1>12. PICK x : x = BucketIdom(d, res.block)
  OBVIOUS
<1>13. m_idoms' = [m_idoms EXCEPT ![d] = x] /\ dsu' = res.forest
  BY <1>10, <1>11, <1>12, <1>27 DEF DrainBucket
<1>14. d \in 1 .. N /\ GoodForest(dsu, node)
  BY <1>1, <1>3, <1>10 DEF ForestInv, Working
<1>15. FindSpec(res, dsu, node, d)
  BY <1>3, <1>4, <1>11, <1>14, FindFacts
<1>16. /\ GoodForest(res.forest, node)
       /\ res.block \in node .. d /\ \A u \in node .. d : m_sdoms[res.block] <= m_sdoms[u]
  BY <1>3, <1>10, <1>15 DEF FindSpec
<1>17. /\ x \in 1 .. N
       /\ \/ x = m_sdoms[d]
          \/ x \in 2 .. d - 1 /\ m_sdoms[x] < m_sdoms[d]
  <2>1. /\ m_sdoms[d] \in 1 .. N /\ res.block \in 1 .. N /\ m_sdoms[res.block] \in 1 .. N
        /\ m_sdoms[res.block] <= m_sdoms[d]
    <3>1. res.block \in 1 .. N /\ d \in node .. d
      BY <1>3, <1>10, <1>14, <1>16
    <3> QED
      BY <1>8, <1>14, <1>16, <3>1
  <2>2. CASE m_sdoms[d] = m_sdoms[res.block]
    BY <1>12, <2>1, <2>2 DEF BucketIdom
  <2>3. CASE m_sdoms[d] # m_sdoms[res.block]
    <3>1. x = res.block
      BY <1>12, <2>3 DEF BucketIdom
    <3>2. m_sdoms[x] < m_sdoms[d] /\ x # d /\ x <= d /\ x >= node
      BY <1>3, <1>14, <1>16, <2>1, <2>3, <3>1
    <3>3. x # 1
      BY <1>3, <1>10, <2>1, <3>1, <3>2
    <3> QED
      BY <1>3, <1>14, <2>1, <3>1, <3>2, <3>3
  <2> QED
    BY <2>2, <2>3
<1>18. IdomsTyped' /\ m_idoms'[d] = x /\ \A e \in 1 .. N : e # d => m_idoms'[e] = m_idoms[e]
  BY <1>2, <1>4, <1>13, <1>14, <1>17 DEF IdomsTyped
<1>19. Phases'
  BY <1>1, <1>2 DEF Phases
<1>20. Arrays'
  <2>1. bucket_it' \in Nat \ {0}
    BY <1>1, <1>4
  <2>2. dsu' \in Forests'
    BY <1>2, <1>13, <1>16 DEF GoodForest
  <2> QED
    BY <1>1, <1>4, <1>18, <2>1, <2>2 DEF Arrays
<1>21. SdomsBelow'
  BY <1>1, <1>2 DEF SdomsBelow, Working
<1>22. ForestInv'
  <2>1. PICK f, w : f = res.forest /\ w = node
    OBVIOUS
  <2>2. GoodForest(f, w)' /\ dsu' = f /\ node' = w
    BY <1>1, <1>2, <1>13, <1>16, <2>1, SameForest
  <2> QED
    BY <2>2 DEF ForestInv, GoodForest, Root, Hangs, Beaten
<1>23. SemiInv'
  <2>1. \A i \in node .. N : \A j \in 1 .. i : IsSemiPath(j, i) => m_sdoms[i] <= j
    BY <1>1, <1>5 DEF SemiInv, Working
  <2> QED
    BY <1>1, <1>2, <1>5, <2>1 DEF SemiInv
<1>24. BucketInv'
  <2>1. ASSUME NEW e \in 2 .. N, node <= e PROVE RawIdom(e)' \/ Waiting(e)'
    <3>1. CASE e = d
      BY <1>1, <1>17, <1>18, <3>1 DEF RawIdom
    <3>2. CASE e # d
      <4>1. m_idoms'[e] = m_idoms[e]
        BY <1>3, <1>18, <3>2
      <4>2. CASE RawIdom(e)
        BY <1>1, <4>1, <4>2 DEF RawIdom
      <4>3. CASE Waiting(e)
        <5>1. PICK i : i = m_sdoms[e] /\ i \in 1 .. N
          <6>1. e \in 1 .. N
            BY <1>3
          <6> QED
            BY <1>8, <6>1
        <5>2. PICK p \in DOMAIN Buckets[i] :
                /\ Buckets[i][p] = e /\ i <= node /\ (i = node => p >= bucket_it)
          BY <1>1, <4>3, <5>1 DEF Waiting
        <5>3. p \in Nat
          BY <1>7, <5>1
        <5>4. i = node => p # bucket_it
          BY <1>10, <3>2, <5>2
        <5>5. i = node => p >= bucket_it + 1
          BY <1>4, <5>2, <5>3, <5>4
        <5> QED
          BY <1>1, <1>26, <5>1, <5>2, <5>5 DEF Waiting
      <4> QED
        BY <1>6, <2>1, <4>2, <4>3
    <3> QED
      BY <3>1, <3>2
  <2> QED
    BY <1>1, <1>2, <1>5, <1>6, <1>26, <2>1 DEF BucketInv
<1>25. PredsInv' /\ IdomsInv' /\ DataInv'
  BY <1>1 DEF PredsInv, IdomsInv, DataInv, Building
<1> QED
  BY <1>2, <1>19, <1>20, <1>21, <1>22, <1>23, <1>24, <1>25, <1>27 DEF IInv

(* Merging its last root with the block before it keeps the forest good.   *)
LEMMA MergeKeepsForest ==
  ASSUME N \in Nat, SdomsTyped, NEW w \in 2 .. N, NEW f, GoodForest(f, w)
  PROVE  GoodForest([f EXCEPT !.parent[w] = w - 1], w - 1)
<1> DEFINE g == [f EXCEPT !.parent[w] = w - 1]
<1>1. f \in Forests /\ f.parent \in [1 .. N -> 1 .. N] /\ f.label \in [1 .. N -> 1 .. N]
  BY ForestTypes DEF GoodForest
<1>2. g.parent = [f.parent EXCEPT ![w] = w - 1] /\ g.label = f.label
      /\ g = [parent |-> g.parent, label |-> g.label]
  <2>1. PICK fp, fl : f = [parent |-> fp, label |-> fl]
    BY <1>1 DEF Forests
  <2>2. g = [parent |-> [fp EXCEPT ![w] = w - 1], label |-> fl]
    BY <2>1
  <2> QED
    BY <2>1, <2>2
<1> HIDE DEF g
<1>3. w \in 1 .. N /\ w - 1 \in 1 .. N
  OBVIOUS
<1>4. g \in Forests
  <2>1. g.parent \in [1 .. N -> 1 .. N] /\ g.label \in [1 .. N -> 1 .. N]
    BY <1>1, <1>2, <1>3
  <2> QED
    BY <1>2, <2>1 DEF Forests
<1>5. g.parent[w] = w - 1 /\ \A i \in 1 .. N : i # w => g.parent[i] = f.parent[i]
  BY <1>1, <1>2, <1>3
<1>6. \A i \in 1 .. N : m_sdoms[i] \in 1 .. N
  BY SdomsInRange
<1>7. ASSUME NEW i \in 1 .. N, ~(i <= w - 1) PROVE Hangs(g, w - 1, i)
  <2>1. CASE i = w
    <3>1. f.label[w] = w
      BY <1>3 DEF GoodForest, Root
    <3>2. m_sdoms[w] <= m_sdoms[w] /\ m_sdoms[w - 1] <= m_sdoms[w - 1]
      BY <1>3, <1>6
    <3>3. \A u \in w - 1 .. w : u = w \/ u = w - 1
      BY <1>3
    <3>4. g.label[w] = w /\ w - 1 \in w - 1 .. w - 1 /\ w \in w - 1 .. w
      BY <1>2, <1>3, <3>1
    <3>5. \A u \in w - 1 .. w : Beaten(g, w - 1, w, u)
      BY <1>5, <3>2, <3>3, <3>4 DEF Beaten
    <3> QED
      BY <1>5, <2>1, <3>2, <3>4, <3>5 DEF Hangs
  <2>2. CASE i # w
    <3>1. ~(i <= w) /\ i \in Nat /\ w \in Nat
      BY <1>7, <2>2
    <3>2. Hangs(f, w, i)
      BY <3>1 DEF GoodForest
    <3>3. /\ f.parent[i] \in w .. i - 1 /\ f.label[i] \in w .. i
          /\ m_sdoms[f.label[i]] <= m_sdoms[i]
          /\ \A u \in w .. i : Beaten(f, w, i, u)
      BY <3>2 DEF Hangs
    <3>4. g.parent[i] = f.parent[i] /\ g.label[i] = f.label[i]
      BY <1>2, <1>5, <2>2
    <3>5. f.parent[i] \in w - 1 .. i - 1 /\ f.label[i] \in w - 1 .. i
          /\ w - 1 \in w - 1 .. f.parent[i]
          /\ \A v \in w .. f.parent[i] : v \in w - 1 .. f.parent[i]
      BY <1>3, <3>1, <3>3
    <3>6. ASSUME NEW u \in w - 1 .. i PROVE Beaten(g, w - 1, i, u)
      <4>1. CASE u = w - 1
        <5>1. m_sdoms[w - 1] <= m_sdoms[u]
          BY <1>3, <1>6, <4>1
        <5> QED
          BY <3>4, <3>5, <5>1 DEF Beaten
      <4>2. CASE u # w - 1
        <5>1. u \in w .. i
          BY <1>3, <4>2
        <5> QED
          BY <3>3, <3>4, <3>5, <5>1 DEF Beaten
      <4> QED
        BY <4>1, <4>2
    <3> QED
      BY <3>3, <3>4, <3>5, <3>6 DEF Hangs
  <2> QED
    BY <2>1, <2>2
<1>8. ASSUME NEW i \in 1 .. N, i <= w - 1 PROVE Root(g, i)
  <2>1. i <= w /\ i # w
    BY <1>3, <1>8
  <2>2. Root(f, i)
    BY <2>1 DEF GoodForest
  <2> QED
    BY <1>2, <1>5, <2>1, <2>2 DEF Root
<1>9. GoodForest(g, w - 1)
  BY <1>4, <1>7, <1>8 DEF GoodForest
<1> QED
  BY <1>9 DEF g

LEMMA MergePreserves == IInv /\ Merge => IInv'
<1> SUFFICES ASSUME IInv, Merge PROVE IInv'
  OBVIOUS
<1>1. /\ SearchInv /\ Phases /\ Arrays /\ SdomsBelow /\ ForestInv /\ SemiInv
      /\ PredsInv /\ BucketInv /\ DataInv /\ phase = "bucket"
      /\ bucket_it > Len(Bucket(node))
      /\ UNCHANGED <<search, made, m_sdoms, m_idoms, m_sdommed_bucket, bucket_it, m_data>>
  BY DEF IInv, Merge
<1>2. /\ SearchInv' /\ N' = N /\ succs' = succs /\ Forests' = Forests
      /\ \A i : Block(i)' = Block(i)
      /\ \A i, j : IsSemiPath(j, i)' <=> IsSemiPath(j, i)
  BY <1>1, SameSearch
<1>3. /\ N \in Nat /\ node \in 1 .. N /\ succs \in Graphs /\ made \in MadeOrders
      /\ \A i \in 1 .. N : Block(i) \in Nodes
  <2>1. Stopped /\ made \in MadeOrders
    BY <1>1 DEF SearchInv
  <2> QED
    BY <1>1, <2>1, Order DEF Phases
<1>4. /\ preds \in Seq(Nodes) /\ SdomsTyped /\ IdomsTyped /\ BucketsTyped /\ dsu \in Forests
      /\ bucket_it \in Nat \ {0}
  BY <1>1 DEF Arrays
<1>13. Buckets' = Buckets /\ \A i : HasBucket(i)' <=> HasBucket(i)
  BY <1>1, SameIds
<1>5. SdomsTyped' /\ IdomsTyped' /\ BucketsTyped' /\ bucket_it' \in Nat \ {0}
  BY <1>1, <1>2, <1>4, <1>13 DEF SdomsTyped, IdomsTyped, BucketsTyped
<1>6. FirstHandled = node
  BY <1>1 DEF FirstHandled
<1>14. (\A i \in node .. N : HasBucket(i)) /\ Buckets[node] = Bucket(node)
  <2>1. \A i \in node .. N : HasBucket(i)
    BY <1>1, <1>6 DEF IInv, IdsInv, Working
  <2>2. HasBucket(node)
    BY <1>3, <2>1
  <2> QED
    BY <1>3, <2>1, <2>2 DEF Buckets
<1>7. \A i \in node .. N : \A j \in 1 .. i : IsSemiPath(j, i) => m_sdoms[i] <= j
  BY <1>1, <1>6 DEF SemiInv, Working
<1>8. /\ \A i \in 1 .. N : \A p \in DOMAIN Buckets[i] :
           LET d == Buckets[i][p]
           IN d \in 2 .. N /\ node <= d /\ m_sdoms[d] = i
      /\ \A d \in 2 .. N : node <= d => RawIdom(d) \/ Waiting(d)
  BY <1>1, <1>6 DEF BucketInv, Working
(* The bucket of the block is empty, so what waits is in one before it.    *)
<1>9. \A p \in DOMAIN Buckets[node] : ~(p >= bucket_it)
  <2>1. Buckets[node] \in Seq(1 .. N)
    BY <1>3, <1>4 DEF BucketsTyped
  <2> QED
    BY <1>1, <1>4, <1>14, <2>1
<1>10. ASSUME NEW d \in 2 .. N, Waiting(d)
       PROVE  \E p \in DOMAIN Buckets[m_sdoms[d]] :
                /\ Buckets[m_sdoms[d]][p] = d
                /\ m_sdoms[d] \in 1 .. node - 1
  <2>1. PICK i : i = m_sdoms[d] /\ i \in 1 .. N
    <3>1. d \in 1 .. N
      BY <1>3
    <3> QED
      BY <1>4, <3>1, SdomsInRange
  <2>2. PICK p \in DOMAIN Buckets[i] :
          Buckets[i][p] = d /\ i <= node /\ (i = node => p >= bucket_it)
    BY <1>1, <1>10, <2>1 DEF Waiting
  <2>3. i # node
    BY <1>9, <2>2
  <2> QED
    BY <1>3, <2>1, <2>2, <2>3
<1>11. CASE node = 1
  <2>1. phase' = "idoms" /\ node' = 2 /\ UNCHANGED <<dsu, preds>>
    BY <1>11 DEF Merge
  <2>2. Phases'
    BY <1>2, <1>3, <2>1 DEF Phases
  <2>3. Arrays'
    BY <1>2, <1>4, <1>5, <2>1 DEF Arrays
  <2>4. SdomsBelow'
    BY <1>1, <1>2, <2>1 DEF SdomsBelow, Working
  <2>5. SemiInv'
    <3>1. FirstHandled' = 1
      BY <2>1 DEF FirstHandled
    <3> QED
      BY <1>1, <1>2, <1>7, <1>11, <3>1 DEF SemiInv
  <2>8. IdsInv'
    <3>1. FirstHandled' = 1
      BY <2>1 DEF FirstHandled
    <3> QED
      BY <1>2, <1>11, <1>13, <1>14, <2>1, <3>1 DEF IdsInv
  <2>6. IdomsInv'
    <3>1. ASSUME NEW d \in 2 .. N PROVE RawIdom(d)' /\ ~(d < 2)
      <4>1. node <= d /\ ~(d < 2)
        BY <1>3, <1>11
      <4>2. ~Waiting(d)
        BY <1>10, <1>11
      <4>3. RawIdom(d)
        BY <1>8, <4>1, <4>2
      <4> QED
        BY <1>1, <4>1, <4>3 DEF RawIdom
    <3> QED
      BY <1>2, <2>1, <3>1 DEF IdomsInv
  <2>7. DataInv'
    <3>1. DOMAIN m_data' = {}
      BY <1>1 DEF DataInv, Building
    <3>2. {k \in 2 .. N : k < 2} = {}
      BY <1>3
    <3>3. {Block(m_idoms[i])' : i \in {k \in 2 .. N' : k < node'}} = {}
      BY <1>2, <2>1, <3>2
    <3> QED
      BY <3>1, <3>3 DEF DataInv
  <2> QED
    BY <1>2, <2>1, <2>2, <2>3, <2>4, <2>5, <2>6, <2>7, <2>8
       DEF IInv, ForestInv, PredsInv, BucketInv, Working
<1>12. CASE node # 1
  <2>1. /\ dsu' = [dsu EXCEPT !.parent[node] = node - 1]
        /\ node' = node - 1 /\ preds' = PredsOf(node - 1) /\ phase' = "preds"
    BY <1>12 DEF Merge, m_dfs_parents
  <2>2. node \in 2 .. N /\ node - 1 \in 1 .. N /\ node' + 1 = node
    BY <1>3, <1>12, <2>1
  <2>3. /\ preds' \in Seq(Nodes)
        /\ \A v \in 1 .. N : IsEdge(succs, Block(v), Block(node - 1)) =>
                               \E k \in DOMAIN preds' : preds'[k] = Block(v)
    <3>1. preds' = m_preds(succs, made, Block(node - 1))
      BY <2>1 DEF PredsOf, Block
    <3> QED
      BY <1>3, <3>1, PredsFacts
  <2>4. GoodForest(dsu', node - 1)
    <3>1. PICK f, w : f = dsu /\ w = node /\ GoodForest(f, w)
      BY <1>1 DEF ForestInv, Working
    <3> QED
      BY <1>3, <1>4, <2>1, <2>2, <3>1, MergeKeepsForest
  <2>5. ForestInv'
    <3>1. PICK f, w : f = dsu' /\ w = node - 1 /\ GoodForest(f, w)
      BY <2>4
    <3>2. GoodForest(f, w)' /\ dsu' = f /\ node' = w
      BY <1>1, <1>2, <2>1, <3>1, SameForest
    <3> QED
      BY <3>2 DEF ForestInv, GoodForest, Root, Hangs, Beaten
  <2>6. Phases'
    BY <1>2, <2>1, <2>2 DEF Phases
  <2>7. Arrays'
    <3>1. (dsu \in Forests)'
      BY <1>2, <2>4 DEF GoodForest
    <3> QED
      BY <1>5, <2>3, <3>1 DEF Arrays
  <2>8. SdomsBelow'
    <3>1. \A i \in 1 .. N : m_sdoms[i] <= i /\ (i < node => m_sdoms[i] = i)
      BY <1>1 DEF SdomsBelow, Working
    <3>2. \A i \in 1 .. N : i < node - 1 => i < node
      BY <1>3
    <3> QED
      BY <1>1, <1>2, <2>1, <3>1, <3>2 DEF SdomsBelow
  <2>9. FirstHandled' = node
    BY <2>1, <2>2 DEF FirstHandled
  <2>10. SemiInv'
    BY <1>1, <1>2, <1>7, <2>9 DEF SemiInv
  <2>11. PredsInv'
    BY <1>2, <2>1, <2>3 DEF PredsInv
  <2>12. BucketInv'
    <3>1. ASSUME NEW d \in 2 .. N, node <= d PROVE RawIdom(d)' \/ Waiting(d)'
      <4>1. CASE RawIdom(d)
        BY <1>1, <4>1 DEF RawIdom
      <4>2. CASE Waiting(d)
        BY <1>1, <1>10, <1>13, <1>3, <2>1, <4>2 DEF Waiting
      <4> QED
        BY <1>8, <3>1, <4>1, <4>2
    <3> QED
      BY <1>1, <1>2, <1>8, <1>13, <2>9, <3>1 DEF BucketInv
  <2>14. IdsInv'
    BY <1>2, <1>13, <1>14, <2>1, <2>9 DEF IdsInv
  <2>13. IdomsInv' /\ DataInv'
    BY <1>1, <2>1 DEF IdomsInv, DataInv, Building
  <2> QED
    BY <1>2, <2>5, <2>6, <2>7, <2>8, <2>10, <2>11, <2>12, <2>13, <2>14 DEF IInv
<1> QED
  BY <1>11, <1>12

(* In the tree a semidominator is before its block. *)
LEMMA SdomsBefore ==
  ASSUME SearchInv, Stopped, SdomsTyped, SemiInv, Building, NEW d \in 2 .. N
  PROVE  m_sdoms[d] \in 1 .. d - 1
<1>1. N \in Nat /\ d \in 1 .. N /\ m_sdoms[d] \in 1 .. N
  <2>1. N \in Nat
    BY Order
  <2>2. d \in 1 .. N
    BY <2>1
  <2> QED
    BY <2>1, <2>2, SdomsInRange
<1>2. PICK j \in 1 .. d - 1 : IsEdge(succs, Block(j), Block(d))
  BY Order
<1>3. j \in 1 .. d /\ IsSemiPath(j, d)
  BY <1>1, <1>2 DEF IsSemiPath
<1>4. FirstHandled = 1
  BY DEF Building, FirstHandled
<1>5. m_sdoms[d] <= j
  BY <1>1, <1>3, <1>4 DEF SemiInv
<1> QED
  BY <1>1, <1>2, <1>5

LEMMA BuildIdomPreserves == IInv /\ BuildIdom => IInv'
<1> SUFFICES ASSUME IInv, BuildIdom PROVE IInv'
  OBVIOUS
<1>1. /\ SearchInv /\ Phases /\ Arrays /\ SdomsBelow /\ SemiInv /\ IdomsInv /\ DataInv
      /\ phase = "idoms" /\ node <= N /\ node' = node + 1
      /\ UNCHANGED <<search, made, phase, preds, m_sdoms, m_sdommed_bucket, bucket_it, dsu>>
  BY DEF IInv, BuildIdom
<1>2. /\ SearchInv' /\ N' = N /\ succs' = succs /\ Forests' = Forests
      /\ \A i : Block(i)' = Block(i)
      /\ \A i, j : IsSemiPath(j, i)' <=> IsSemiPath(j, i)
  BY <1>1, SameSearch
<1>3. Stopped /\ Building /\ N \in Nat /\ node \in 2 .. N /\ node \in 1 .. N
  <2>1. Stopped
    BY <1>1 DEF SearchInv
  <2>2. N \in Nat
    BY <1>1, <2>1, Order
  <2> QED
    BY <1>1, <2>1, <2>2 DEF Phases, Building
<1>4. /\ preds \in Seq(Nodes) /\ SdomsTyped /\ IdomsTyped /\ BucketsTyped /\ dsu \in Forests
      /\ bucket_it \in Nat \ {0}
  BY <1>1 DEF Arrays
<1>5. \A i \in 1 .. N : m_sdoms[i] \in 1 .. N /\ m_idoms[i] \in 1 .. N
  BY <1>4 DEF SdomsTyped, IdomsTyped
<1>6. \A d \in 2 .. N : /\ d < node => m_idoms[d] < d /\ m_idoms[d] <= m_sdoms[d]
                        /\ node <= d => RawIdom(d)
  BY <1>1, <1>3 DEF IdomsInv
<1>7. PICK idom : idom = IF m_idoms[node] # m_sdoms[node] THEN m_idoms[m_idoms[node]]
                                                          ELSE m_idoms[node]
  OBVIOUS
<1>8. PICK b : b = Block(idom)
  OBVIOUS
<1>9. /\ m_idoms' = [m_idoms EXCEPT ![node] = idom]
      /\ m_data' = [c \in DOMAIN m_data \cup {b} |->
                      (IF c \in DOMAIN m_data THEN m_data[c] ELSE {})
                      \cup (IF c = b THEN {Block(node)} ELSE {})]
  BY <1>7, <1>8 DEF BuildIdom, Block
<1>10. idom \in 1 .. node - 1 /\ idom <= m_sdoms[node]
  <2>1. m_sdoms[node] \in 1 .. node - 1
    BY <1>1, <1>3, <1>4, SdomsBefore
  <2>2. CASE m_idoms[node] = m_sdoms[node]
    BY <1>3, <1>7, <2>1, <2>2
  <2>3. CASE m_idoms[node] # m_sdoms[node]
    <3>1. RawIdom(node)
      BY <1>3, <1>6
    <3>2. PICK y : y = m_idoms[node] /\ y \in 2 .. node - 1 /\ m_sdoms[y] < m_sdoms[node]
      BY <2>3, <3>1 DEF RawIdom
    <3>3. y \in 2 .. N /\ y \in 1 .. N /\ y < node
      BY <1>3, <3>2
    <3>4. m_idoms[y] < y /\ m_idoms[y] <= m_sdoms[y]
      BY <1>6, <3>3
    <3>5. m_idoms[y] \in 1 .. N /\ m_sdoms[y] \in 1 .. N
      BY <1>5, <3>3
    <3> QED
      BY <1>3, <1>7, <2>1, <2>3, <3>2, <3>3, <3>4, <3>5
  <2> QED
    BY <2>2, <2>3
<1>11. /\ IdomsTyped' /\ m_idoms'[node] = idom
       /\ \A e \in 1 .. N : e # node => m_idoms'[e] = m_idoms[e]
  <2>1. idom \in 1 .. N
    BY <1>3, <1>10
  <2> QED
    BY <1>2, <1>3, <1>4, <1>9, <2>1 DEF IdomsTyped
<1>12. Phases'
  BY <1>1, <1>2, <1>3 DEF Phases
<1>18. Buckets' = Buckets /\ \A i : HasBucket(i)' <=> HasBucket(i)
  BY <1>1, SameIds
<1>13. Arrays'
  BY <1>1, <1>2, <1>4, <1>11, <1>18 DEF Arrays, SdomsTyped, BucketsTyped
<1>19. IdsInv'
  BY <1>1, <1>2, <1>18 DEF IInv, IdsInv, FirstHandled, Building
<1>14. SdomsBelow'
  BY <1>1, <1>2 DEF SdomsBelow, Working
<1>15. SemiInv'
  <2>1. FirstHandled = 1 /\ FirstHandled' = 1
    BY <1>1 DEF FirstHandled
  <2>2. \A i \in 1 .. N : \A j \in 1 .. i : IsSemiPath(j, i) => m_sdoms[i] <= j
    BY <1>1, <1>3, <2>1 DEF SemiInv
  <2> QED
    BY <1>1, <1>2, <2>1, <2>2 DEF SemiInv
<1>16. IdomsInv'
  <2>1. ASSUME NEW d \in 2 .. N
        PROVE  /\ d < node + 1 => m_idoms'[d] < d /\ m_idoms'[d] <= m_sdoms'[d]
               /\ node + 1 <= d => RawIdom(d)'
    <3>1. CASE d = node
      <4>1. ~(node + 1 <= d) /\ idom < node
        BY <1>3, <1>10, <3>1
      <4> QED
        BY <1>1, <1>10, <1>11, <3>1, <4>1
    <3>2. CASE d # node
      <4>1. m_idoms'[d] = m_idoms[d] /\ m_sdoms' = m_sdoms
        <5>1. d \in 1 .. N
          BY <1>3
        <5> QED
          BY <1>1, <1>11, <3>2, <5>1
      <4>2. (d < node + 1 => d < node) /\ (node + 1 <= d => node <= d)
        BY <1>3, <3>2
      <4> QED
        BY <1>6, <4>1, <4>2 DEF RawIdom
    <3> QED
      BY <3>1, <3>2
  <2> QED
    BY <1>1, <1>2, <2>1 DEF IdomsInv
<1>17. DataInv'
  <2>1. /\ DOMAIN m_data = {Block(m_idoms[i]) : i \in {k \in 2 .. N : k < node}}
        /\ \A c \in DOMAIN m_data : m_data[c] = Children(c)
    BY <1>1, <1>3 DEF DataInv
  <2> DEFINE K == {k \in 2 .. N : k < node}
             L == {k \in 2 .. N : k < node + 1}
  <2>2. L = K \cup {node}
    BY <1>3
  <2>3. \A k \in K : m_idoms'[k] = m_idoms[k]
    <3>1. \A k \in K : k \in 1 .. N /\ k # node
      BY <1>3
    <3> QED
      BY <1>11, <3>1
  <2>4. \A c : Children(c) = {Block(i) : i \in {k \in K : Block(m_idoms[k]) = c}}
    <3>1. \A c : {k \in 2 .. N : k < node /\ Block(m_idoms[k]) = c}
                   = {k \in K : Block(m_idoms[k]) = c}
      OBVIOUS
    <3> HIDE DEF K
    <3> QED
      BY <3>1 DEF Children
  <2>5. \A c : Children(c)' = {Block(i) : i \in {k \in L : Block(m_idoms'[k]) = c}}
    <3>1. \A c : {k \in 2 .. N' : k < node' /\ Block(m_idoms[k])' = c}
                   = {k \in L : Block(m_idoms'[k]) = c}
      BY <1>1, <1>2
    <3> HIDE DEF L
    <3> QED
      BY <1>2, <3>1 DEF Children
  <2>6. {Block(m_idoms[i])' : i \in {k \in 2 .. N' : k < node'}} = {Block(m_idoms'[i]) : i \in L}
    <3>1. {k \in 2 .. N' : k < node'} = L
      BY <1>1, <1>2
    <3> HIDE DEF L
    <3> QED
      BY <1>2, <3>1
  <2> HIDE DEF K, L
  <2>7. DOMAIN m_data' = {Block(m_idoms'[i]) : i \in L}
    <3>1. DOMAIN m_data' = DOMAIN m_data \cup {b}
      BY <1>9
    <3>2. Block(m_idoms'[node]) = b
      BY <1>8, <1>11
    <3>3. DOMAIN m_data = {Block(m_idoms[i]) : i \in K}
      BY <2>1 DEF K
    <3> QED
      BY <2>2, <2>3, <3>1, <3>2, <3>3
  <2>8. ASSUME NEW c \in DOMAIN m_data' PROVE m_data'[c] = Children(c)'
    <3>1. Children(c)' = Children(c) \cup (IF c = b THEN {Block(node)} ELSE {})
      <4>1. Block(m_idoms'[node]) = b
        BY <1>8, <1>11
      <4>2. {k \in L : Block(m_idoms'[k]) = c}
              = {k \in K : Block(m_idoms[k]) = c} \cup (IF c = b THEN {node} ELSE {})
        BY <2>2, <2>3, <4>1
      <4> QED
        BY <2>4, <2>5, <4>2
    <3>2. CASE c \in DOMAIN m_data
      BY <1>9, <2>1, <3>1, <3>2
    <3>3. CASE c \notin DOMAIN m_data
      <4>1. Children(c) = {}
        <5>1. DOMAIN m_data = {Block(m_idoms[i]) : i \in K}
          BY <2>1 DEF K
        <5>2. {k \in K : Block(m_idoms[k]) = c} = {}
          BY <3>3, <5>1
        <5> QED
          BY <2>4, <5>2
      <4>2. m_data'[c] = {} \cup (IF c = b THEN {Block(node)} ELSE {})
        BY <1>9, <2>8, <3>3
      <4> QED
        BY <3>1, <4>1, <4>2
    <3> QED
      BY <3>2, <3>3
  <2>9. Building'
    BY <1>1 DEF Building
  <2>10. DOMAIN m_data' = {Block(m_idoms[i])' : i \in {k \in 2 .. N' : k < node'}}
    BY <2>6, <2>7
  <2> QED
    BY <2>8, <2>9, <2>10 DEF DataInv
<1> QED
  BY <1>1, <1>2, <1>12, <1>13, <1>14, <1>15, <1>16, <1>17, <1>19
     DEF IInv, ForestInv, PredsInv, BucketInv, Working

LEMMA BuiltPreserves == IInv /\ Built => IInv'
<1> SUFFICES ASSUME IInv, Built PROVE IInv'
  OBVIOUS
<1>1. /\ SearchInv /\ Phases /\ Arrays /\ SdomsBelow /\ SemiInv /\ IdomsInv /\ DataInv
      /\ phase = "idoms" /\ node > N /\ phase' = "done"
      /\ UNCHANGED <<search, made, node, preds, m_sdoms, m_idoms, m_sdommed_bucket, bucket_it,
                     dsu, m_data>>
  BY DEF IInv, Built
<1>2. /\ SearchInv' /\ N' = N /\ succs' = succs /\ Forests' = Forests
      /\ \A i : Block(i)' = Block(i)
      /\ \A i, j : IsSemiPath(j, i)' <=> IsSemiPath(j, i)
  BY <1>1, SameSearch
<1>3. N \in Nat /\ node = N + 1
  <2>1. Stopped
    BY <1>1 DEF SearchInv
  <2>2. N \in Nat
    BY <1>1, <2>1, Order
  <2> QED
    BY <1>1, <2>2 DEF Phases
<1>8. Buckets' = Buckets /\ \A i : HasBucket(i)' <=> HasBucket(i)
  BY <1>1, SameIds
<1>4. Phases' /\ Arrays' /\ SdomsBelow'
  BY <1>1, <1>2, <1>3, <1>8
     DEF Phases, Arrays, SdomsTyped, IdomsTyped, BucketsTyped, SdomsBelow, Working
<1>9. IdsInv'
  BY <1>1, <1>2, <1>8 DEF IInv, IdsInv, FirstHandled, Building
<1>5. SemiInv'
  <2>1. FirstHandled = 1 /\ FirstHandled' = 1
    BY <1>1 DEF FirstHandled
  <2>2. \A i \in 1 .. N : \A j \in 1 .. i : IsSemiPath(j, i) => m_sdoms[i] <= j
    BY <1>1, <2>1 DEF SemiInv, Building
  <2> QED
    BY <1>1, <1>2, <2>1, <2>2 DEF SemiInv
<1>6. IdomsInv'
  BY <1>1, <1>2 DEF IdomsInv, Building, RawIdom
<1>7. DataInv'
  <2>1. \A c : Children(c)' = Children(c)
    BY <1>1, <1>2 DEF Children
  <2> QED
    BY <1>1, <1>2, <2>1 DEF DataInv, Building
<1> QED
  BY <1>1, <1>2, <1>4, <1>5, <1>6, <1>7, <1>9 DEF IInv, ForestInv, PredsInv, BucketInv, Working

LEMMA StutterPreserves == IInv /\ UNCHANGED vars => IInv'
<1> SUFFICES ASSUME IInv, UNCHANGED vars PROVE IInv'
  OBVIOUS
<1>1. /\ UNCHANGED <<search, made, phase, node, preds, m_sdoms, m_idoms, m_sdommed_bucket,
                     bucket_it, dsu, m_data>>
      /\ UNCHANGED <<succs, m_visited, m_stack, parent, cur_it, discovered, finished, backEdges>>
  BY DEF vars, search
<1>2. UNCHANGED S!vars
  BY <1>1 DEF S!vars
<1>3. SearchInv'
  BY <1>1, <1>2, DFSAssumption, TargetsAssumption, MadeAssumption, IdsAssumption,
     S!NextIInv, S!NextEntered
     DEF IInv, SearchInv, Stopped
<1>4. /\ N' = N /\ (\A i : Block(i)' = Block(i)) /\ Reached' = Reached
      /\ UNCHANGED <<succs, made, phase, node, preds, m_sdoms, m_idoms, m_sdommed_bucket,
                     bucket_it, dsu, m_data>>
  BY <1>1 DEF N, Block, m_dfs_nodes, Reached
<1>5. \A i, j : IsSemiPath(j, i)' <=> IsSemiPath(j, i)
  BY <1>4 DEF IsSemiPath
<1>6. Forests' = Forests /\ FirstHandled' = FirstHandled
  BY <1>4 DEF Forests, FirstHandled
<1>7. Phases' /\ SdomsBelow'
  BY <1>4 DEF IInv, Phases, SdomsBelow, Working
<1>15. Buckets' = Buckets /\ \A i : HasBucket(i)' <=> HasBucket(i)
  BY <1>1, SameIds
<1>8. Arrays'
  BY <1>4, <1>6, <1>15 DEF IInv, Arrays, SdomsTyped, IdomsTyped, BucketsTyped
<1>16. IdsInv'
  BY <1>4, <1>6, <1>15 DEF IInv, IdsInv, Working, Building
<1>9. ForestInv'
  BY <1>4, <1>6 DEF IInv, ForestInv, GoodForest, Root, Hangs, Beaten, Working
<1>10. SemiInv'
  BY <1>4, <1>5, <1>6 DEF IInv, SemiInv, Working, Building
<1>11. PredsInv'
  BY <1>4 DEF IInv, PredsInv, Seen
<1>12. BucketInv'
  BY <1>4, <1>6, <1>15 DEF IInv, BucketInv, RawIdom, Waiting, Working
<1>13. IdomsInv'
  BY <1>4 DEF IInv, IdomsInv, RawIdom, Building
<1>14. DataInv'
  <2>1. \A c : Children(c)' = Children(c)
    BY <1>4 DEF Children
  <2> QED
    BY <1>4, <2>1 DEF IInv, DataInv, Building
<1> QED
  BY <1>3, <1>7, <1>8, <1>9, <1>10, <1>11, <1>12, <1>13, <1>14, <1>16 DEF IInv

LEMMA NextIInv == IInv /\ [Next]_vars => IInv'
  BY MakeDfsPreserves, EnterSdomsPreserves, EvalPredPreserves, PushBucketPreserves,
     NoSuchBucketPreserves, DrainBucketPreserves, MergePreserves, BuildIdomPreserves,
     BuiltPreserves, StutterPreserves
     DEF Next, Step, Done

-----------------------------------------------------------------------------
(* The theorems.                                                           *)

LEMMA SpecIInv == Spec => []IInv
  BY InitIInv, NextIInv, PTL DEF Spec

LEMMA TypesFollow == IInv => TypeOK
<1> SUFFICES ASSUME IInv PROVE TypeOK
  OBVIOUS
<1>1. /\ SearchInv /\ Phases /\ Arrays /\ DataInv /\ (phase # "dfs" => Stopped)
  BY DEF IInv, SearchInv
<1>2. ASSUME phase # "dfs"
      PROVE  /\ node \in 1 .. N + 1 /\ preds \in Seq(Nodes)
             /\ m_sdoms \in [1 .. N -> 1 .. N] /\ m_idoms \in [1 .. N -> 1 .. N]
             /\ m_sdommed_bucket \in [0 .. Cardinality(Nodes) - 1 -> Seq(1 .. N)]
             /\ dsu \in [parent : [1 .. N -> 1 .. N], label : [1 .. N -> 1 .. N]]
  <2>1. N \in Nat
    BY <1>1, <1>2, Order
  <2>2. node \in 1 .. N + 1
    BY <1>1, <1>2, <2>1 DEF Phases
  <2> QED
    BY <1>1, <1>2, <2>2 DEF Arrays, SdomsTyped, IdomsTyped, BucketsTyped, Forests
<1>3. DOMAIN m_data \subseteq Reached /\ \A b \in DOMAIN m_data : m_data[b] \subseteq Reached
  <2>1. CASE ~Building
    BY <1>1, <2>1 DEF DataInv
  <2>2. CASE Building
    <3>1. N \in Nat /\ \A i \in 1 .. N : m_idoms[i] \in 1 .. N
      BY <1>1, <1>2, <2>2, Order DEF Building
    <3>2. \A k \in 2 .. N : k \in 1 .. N /\ m_idoms[k] \in 1 .. N
      BY <3>1
    <3> QED
      BY <1>1, <2>2, <3>2 DEF DataInv, Children, Reached
  <2> QED
    BY <2>1, <2>2
<1> QED
  BY <1>1, <1>2, <1>3 DEF TypeOK, Phases

(* The builder keeps its types: the indices it computes are in range, but  *)
(* for an id that leads out of the buckets, which ends it (NoSuchBucket).  *)
THEOREM TypeCorrect == Spec => []TypeOK
  BY SpecIInv, TypesFollow, PTL

(***************************************************************************)
(* find ends, and at a block build_sdoms is at or still to come, with a    *)
(* label no worse than the block asked about.                              *)
(***************************************************************************)
THEOREM FindLeadsUp == Spec => []ForestLeadsUp
<1>1. ASSUME IInv PROVE ForestLeadsUp
  <2> SUFFICES ASSUME phase \in {"preds", "bucket"}, NEW i \in 1 .. N
               PROVE  /\ dsu.parent[i] <= i
                      /\ dsu.parent[i] = i <=> i <= node
                      /\ m_sdoms[dsu.label[i]] <= m_sdoms[i]
                      /\ i <= node => dsu.label[i] = i
                      /\ i > node => dsu.label[i] >= node
    BY DEF ForestLeadsUp
  <2>1. GoodForest(dsu, node)
    BY <1>1 DEF IInv, ForestInv, Working
  <2>2. N \in Nat /\ node \in 1 .. N /\ SdomsTyped
    <3>1. SearchInv /\ Stopped /\ SdomsTyped /\ node \in 1 .. N
      BY <1>1 DEF IInv, SearchInv, Arrays, Phases
    <3> QED
      BY <3>1, Order
  <2>3. CASE i <= node
    <3>1. dsu.parent[i] = i /\ dsu.label[i] = i
      BY <2>1, <2>3 DEF GoodForest, Root
    <3>2. m_sdoms[i] \in 1 .. N
      BY <2>2, SdomsInRange
    <3> QED
      BY <2>2, <2>3, <3>1, <3>2
  <2>4. CASE ~(i <= node)
    <3>1. Hangs(dsu, node, i)
      BY <2>1, <2>4 DEF GoodForest
    <3>2. /\ dsu.parent[i] \in node .. i - 1 /\ dsu.label[i] \in node .. i
          /\ m_sdoms[dsu.label[i]] <= m_sdoms[i]
      BY <3>1 DEF Hangs
    <3> QED
      BY <2>2, <2>4, <3>2
  <2> QED
    BY <2>3, <2>4
<1> QED
  BY <1>1, SpecIInv, PTL

(* No semidominator is computed too late.                                  *)
THEOREM SemidominatorsFound == Spec => []SemidominatorsEarlyEnough
<1>1. ASSUME IInv PROVE SemidominatorsEarlyEnough
  BY <1>1 DEF IInv, SemiInv, FirstHandled, Building, SemidominatorsEarlyEnough
<1> QED
  BY <1>1, SpecIInv, PTL

(* The values of the recursion in dominates.                               *)
SeenFrom(d) == {d} \cup UNION {m_data[b] : b \in DOMAIN m_data}
Below(B, d, c) ==
  /\ B \in [0 .. c -> SUBSET SeenFrom(d)] /\ B[0] = {d}
  /\ \A k \in 1 .. c : B[k] = B[k - 1] \cup UNION {m_data[b] : b \in B[k - 1] \cap DOMAIN m_data}

LEMMA DominatesSteps ==
  ASSUME NEW d, Cardinality(Nodes) \in Nat
  PROVE  \E B : /\ Below(B, d, Cardinality(Nodes))
                /\ \A n : dominates(d, n) <=> n \in B[Cardinality(Nodes)]
<1> DEFINE c == Cardinality(Nodes)
           V == SUBSET SeenFrom(d)
           Grow(r) == r \cup UNION {m_data[b] : b \in r \cap DOMAIN m_data}
           G == [w \in V \X (1 .. c) |-> Grow(w[1])]
<1>1. {d} \in V
  BY DEF SeenFrom
<1>2. \A r \in V : Grow(r) \in V
  BY DEF SeenFrom
<1> HIDE DEF Grow, V
<1>3. G \in [V \X (1 .. c) -> V]
  BY <1>2
<1>4. \A r \in V, k \in 1 .. c : G[<<r, k>>] = Grow(r)
  OBVIOUS
<1> HIDE DEF G, c
<1>5. c \in Nat
  BY DEF c
<1>6. PICK B : Iterates(B, V, c, {d}, G)
  BY <1>1, <1>3, <1>5, Iteration
<1>7. /\ B \in [0 .. c -> V] /\ B[0] = {d} /\ \A k \in 1 .. c : B[k] = Grow(B[k - 1])
  <2>1. \A k \in 1 .. c : k - 1 \in 0 .. c
    BY <1>5
  <2> QED
    BY <1>4, <1>6, <2>1 DEF Iterates
<1> DEFINE Sol(x) == x = [k \in 0 .. c |-> IF k = 0 THEN {d} ELSE Grow(x[k - 1])]
<1>8. Sol(B)
  <2>1. B = [k \in 0 .. c |-> B[k]]
    BY <1>7
  <2>2. \A k \in 0 .. c : k # 0 => k \in 1 .. c
    BY <1>5
  <2>3. \A k \in 0 .. c : B[k] = IF k = 0 THEN {d} ELSE Grow(B[k - 1])
    BY <1>7, <2>2
  <2> QED
    BY <2>1, <2>3
<1> DEFINE below == CHOOSE x : Sol(x)
<1>9. Sol(below)
  BY <1>8, Zenon
<1>10. \A n : dominates(d, n) <=> n \in below[c]
  BY DEF dominates, Grow, c
<1> HIDE DEF below
<1>11. \A k \in 0 .. c : below[k] = IF k = 0 THEN {d} ELSE Grow(below[k - 1])
  BY <1>9
<1> HIDE DEF Sol
<1>12. below[c] = B[c]
  <2> DEFINE K == {k \in 0 .. c : below[k] = B[k]}
  <2>1. 0 \in K
    <3>1. 0 \in 0 .. c
      BY <1>5
    <3>2. below[0] = {d}
      BY <1>11, <3>1
    <3> QED
      BY <1>7, <3>1, <3>2
  <2>2. ASSUME NEW k \in 1 .. c, k - 1 \in K PROVE k \in K
    <3>1. k \in 0 .. c /\ k # 0
      BY <1>5
    <3> QED
      BY <1>7, <1>11, <2>2, <3>1
  <2> HIDE DEF K
  <2>3. c \in K
    BY <1>5, <2>1, <2>2, BoundedInduction
  <2> QED
    BY <2>3 DEF K
<1> QED
  BY <1>7, <1>10, <1>12 DEF Below, Grow, V, c

(* A block dominates itself, in any tree. *)
LEMMA DominatesItself ==
  ASSUME NEW d, made \in MadeOrders
  PROVE  dominates(d, d)
<1> DEFINE c == Cardinality(Nodes)
<1>0. c \in Nat
  BY FiniteNodes, FS_CardinalityType
<1>1. PICK B : Below(B, d, c) /\ \A n : dominates(d, n) <=> n \in B[c]
  BY <1>0, DominatesSteps
<1> HIDE DEF c
<1> DEFINE K == {k \in 0 .. c : d \in B[k]}
<1>2. c \in Nat
  BY <1>0
<1>3. 0 \in K
  BY <1>1, <1>2 DEF Below
<1>4. ASSUME NEW k \in 1 .. c, k - 1 \in K PROVE k \in K
  BY <1>1, <1>2, <1>4 DEF Below
<1> HIDE DEF K
<1>5. c \in K
  BY <1>2, <1>3, <1>4, BoundedInduction
<1> QED
  BY <1>1, <1>5 DEF K

(***************************************************************************)
(* The tree spans what the search reached: one parent for each block but   *)
(* the entry, before the block and no later than its semidominator; going  *)
(* down from the entry, dominates finds every block.                       *)
(***************************************************************************)
THEOREM TreeSpans == Spec => []SpanningTree
<1>1. ASSUME IInv, phase = "done"
      PROVE  /\ UNION {m_data[b] : b \in DOMAIN m_data} = Reached \ {Entry}
             /\ \A b, c \in DOMAIN m_data : b # c => m_data[b] \cap m_data[c] = {}
             /\ \A i \in 2 .. N : m_idoms[i] < i /\ m_idoms[i] <= m_sdoms[i]
             /\ \A n \in Reached : dominates(Entry, n)
  <2>1. SearchInv /\ Stopped /\ IdomsTyped /\ node = N + 1 /\ Building /\ IdomsInv /\ DataInv
    BY <1>1 DEF IInv, SearchInv, Arrays, Phases, Building
  <2>2. /\ N \in Nat /\ 1 \in 1 .. N /\ IsFiniteSet(Nodes)
        /\ \A i \in 1 .. N : Block(i) \in Nodes
        /\ \A i, j \in 1 .. N : Block(i) = Block(j) => i = j
        /\ Block(1) = Entry
    BY <2>1, Order
  <2>3. \A k \in 2 .. N : k < node /\ k \in 1 .. N
    BY <2>1, <2>2
  <2>4. \A k \in 2 .. N : m_idoms[k] \in 1 .. N /\ m_idoms[k] < k /\ m_idoms[k] <= m_sdoms[k]
    BY <2>1, <2>3 DEF IdomsTyped, IdomsInv
  <2>5. /\ DOMAIN m_data = {Block(m_idoms[i]) : i \in 2 .. N}
        /\ \A b \in DOMAIN m_data : m_data[b] = {Block(i) : i \in {k \in 2 .. N : Block(m_idoms[k]) = b}}
    <3>1. \A b : {k \in 2 .. N : k < node /\ Block(m_idoms[k]) = b} = {k \in 2 .. N : Block(m_idoms[k]) = b}
      BY <2>3
    <3>2. {k \in 2 .. N : k < node} = 2 .. N
      BY <2>3
    <3> QED
      BY <2>1, <3>1, <3>2 DEF DataInv, Children
  <2>6. \A i \in 2 .. N : Block(m_idoms[i]) \in DOMAIN m_data /\ Block(i) \in m_data[Block(m_idoms[i])]
    BY <2>5
  <2>7. UNION {m_data[b] : b \in DOMAIN m_data} = {Block(i) : i \in 2 .. N}
    BY <2>5, <2>6
  <2>8. {Block(i) : i \in 2 .. N} = Reached \ {Entry}
    <3>1. \A i \in 1 .. N : i = 1 \/ i \in 2 .. N
      BY <2>2
    <3>2. \A i \in 2 .. N : i # 1 /\ i \in 1 .. N
      BY <2>2
    <3> QED
      BY <2>2, <3>1, <3>2 DEF Reached
  <2>9. \A b, c \in DOMAIN m_data : b # c => m_data[b] \cap m_data[c] = {}
    BY <2>2, <2>3, <2>5
  <2>10. ASSUME NEW n \in Reached PROVE dominates(Entry, n)
    <3> DEFINE c == Cardinality(Nodes)
    <3>1. c \in Nat /\ N <= c
      <4> DEFINE h == [i \in 1 .. N |-> Block(i)]
      <4>1. h \in Injection(1 .. N, Nodes)
        <5>1. h \in [1 .. N -> Nodes] /\ \A i \in 1 .. N : h[i] = Block(i)
          BY <2>2
        <5> HIDE DEF h
        <5>2. \A i, j \in 1 .. N : h[i] = h[j] => i = j
          BY <2>2, <5>1
        <5> QED
          BY <5>1, <5>2 DEF Injection, IsInjective
      <4> HIDE DEF h
      <4>2. IsFiniteSet(1 .. N) /\ Cardinality(1 .. N) = N
        BY <2>2, FS_Interval
      <4> QED
        BY <2>2, <4>1, <4>2, FS_Injection, FS_CardinalityType
    <3>3. PICK B : Below(B, Entry, c) /\ \A m : dominates(Entry, m) <=> m \in B[c]
      BY <3>1, DominatesSteps
    <3>4. /\ B[0] = {Entry}
          /\ \A k \in 1 .. c : /\ B[k - 1] \subseteq B[k]
                               /\ \A b \in B[k - 1] \cap DOMAIN m_data : m_data[b] \subseteq B[k]
      BY <3>3 DEF Below
    <3> HIDE DEF c
    <3> DEFINE K == {k \in 0 .. c : \A i \in 1 .. N : i <= k + 1 => Block(i) \in B[k]}
    <3>5. 0 \in K
      <4>1. \A i \in 1 .. N : i <= 0 + 1 => i = 1
        BY <2>2
      <4> QED
        BY <2>2, <3>1, <3>4, <4>1
    <3>6. ASSUME NEW k \in 1 .. c, k - 1 \in K PROVE k \in K
      <4> SUFFICES ASSUME NEW i \in 1 .. N, i <= k + 1 PROVE Block(i) \in B[k]
        BY <3>1
      <4>1. \A e \in 1 .. N : e <= k => Block(e) \in B[k - 1]
        BY <3>1, <3>6
      <4>2. CASE i <= k
        BY <3>4, <4>1, <4>2
      <4>3. CASE ~(i <= k)
        <5>1. i \in 2 .. N /\ i = k + 1
          BY <2>2, <3>1, <4>3
        <5>2. m_idoms[i] \in 1 .. N /\ m_idoms[i] <= k
          BY <2>2, <2>4, <3>1, <5>1
        <5> QED
          BY <2>6, <3>4, <4>1, <5>1, <5>2
      <4> QED
        BY <4>2, <4>3
    <3> HIDE DEF K
    <3>7. c \in K
      BY <3>1, <3>5, <3>6, BoundedInduction
    <3>8. PICK i \in 1 .. N : n = Block(i)
      BY DEF Reached
    <3>9. i <= c + 1
      BY <2>2, <3>1
    <3> QED
      BY <3>3, <3>7, <3>8, <3>9 DEF K
  <2> QED
    BY <2>4, <2>7, <2>8, <2>9, <2>10
<1>2. IInv => SpanningTree
  BY <1>1 DEF SpanningTree
<1> QED
  BY <1>2, SpecIInv, PTL
-----------------------------------------------------------------------------
(* How the builder ends.                                                    *)

(* A block is handled when all its predecessors were found to have arrived. *)
Pending(u) == \E k \in DOMAIN preds : preds[k] = u
ArrivedInv ==
  /\ Working \/ Building =>
       \A i \in FirstHandled .. N : \A u \in Nodes : IsEdge(succs, u, Block(i)) => Arrived(u)
  /\ phase = "preds" => \A u \in Nodes : /\ IsEdge(succs, u, Block(node)) => Arrived(u) \/ Pending(u)
                                         /\ Pending(u) => IsEdge(succs, u, Block(node))
  /\ phase = "threw" => \E u \in Nodes : ~Arrived(u) /\ IsEdge(succs, u, Block(node))

LEMMA SameArrivals ==
  ASSUME UNCHANGED <<search, made>>
  PROVE  /\ N' = N /\ succs' = succs /\ made' = made /\ discovered' = discovered
         /\ \A i : Block(i)' = Block(i)
         /\ \A u : Arrived(u)' <=> Arrived(u)
<1>1. UNCHANGED <<succs, discovered, made>>
  BY DEF search
<1> QED
  BY <1>1 DEF N, Block, m_dfs_nodes, Arrived

(* The predecessors min_sdom is to look at. *)
LEMMA AllPreds ==
  ASSUME SearchInv, Stopped, NEW i \in 1 .. N, NEW u \in Nodes
  PROVE  IsEdge(succs, u, Block(i)) <=> \E k \in DOMAIN PredsOf(i) : PredsOf(i)[k] = u
<1>1. succs \in Graphs /\ made \in MadeOrders
  BY Order DEF SearchInv
<1>2. PICK p : p = PredsOf(i)
  OBVIOUS
<1>3. p = m_preds(succs, made, Block(i))
  BY <1>2 DEF PredsOf, Block
<1>4. \A v \in Nodes : IsEdge(succs, v, Block(i)) <=> \E k \in DOMAIN p : p[k] = v
  BY <1>1, <1>3, PredsFacts
<1> QED
  BY <1>2, <1>4

LEMMA NextArrived ==
  ASSUME IInv, ArrivedInv, [Next]_vars
  PROVE  ArrivedInv'
<1>1. CASE MakeDfs
  <2>1. phase = "dfs"
    BY <1>1, MakeDfsPreserves DEF MakeDfs, IInv, SearchInv, D!Step, D!Start, D!Pop, D!Scan,
       D!Finish, D!Descend, Stopped
  <2> QED
    BY <1>1, <2>1 DEF MakeDfs, ArrivedInv, Working, Building
<1>2. ASSUME ~MakeDfs PROVE UNCHANGED <<search, made>>
  BY <1>2 DEF Next, Step, Done, EnterSdoms, EvalPred, PushBucket, DrainBucket, Merge, BuildIdom,
     NoSuchBucket, Built, vars, search
<1> SUFFICES ASSUME ~MakeDfs PROVE ArrivedInv'
  BY <1>1
<1>3. /\ N' = N /\ succs' = succs /\ made' = made
      /\ \A i : Block(i)' = Block(i)
      /\ \A u : Arrived(u)' <=> Arrived(u)
  BY <1>2, SameArrivals
<1>4. SearchInv /\ SearchInv' /\ Phases /\ Phases' /\ (phase # "dfs" => preds \in Seq(Nodes))
  BY NextIInv DEF IInv, Arrays
<1>5. CASE EnterSdoms
  <2>1. /\ phase = "dfs" /\ Stopped /\ phase' = "preds" /\ node' = N /\ preds' = PredsOf(N)
    BY <1>5 DEF EnterSdoms
  <2>2. N \in Nat /\ N \in 1 .. N
    BY <1>4, <2>1, Order
  <2>3. \A u \in Nodes : IsEdge(succs, u, Block(N)) <=> Pending(u)'
    BY <1>3, <1>4, <2>1, <2>2, AllPreds DEF Pending
  <2>4. FirstHandled' = N + 1
    BY <2>1 DEF FirstHandled
  <2> QED
    BY <1>3, <2>1, <2>2, <2>3, <2>4 DEF ArrivedInv
<1> SUFFICES ASSUME ~EnterSdoms PROVE ArrivedInv'
  BY <1>5
<1>6. phase # "dfs" => N \in Nat /\ 1 \in 1 .. N
  BY <1>4, Order DEF SearchInv
<1>7. CASE EvalPred
  <2>1. phase = "preds" /\ preds # << >> /\ node' = node /\ preds \in Seq(Nodes) /\ node \in 1 .. N
    BY <1>4, <1>7 DEF EvalPred, Phases
  <2>2. Head(preds) \in Nodes /\ Pending(Head(preds))
    BY <2>1 DEF Pending
  <2>3. CASE Arrived(Head(preds))
    <3>1. preds' = Tail(preds) /\ phase' = phase
      BY <1>7, <2>3 DEF EvalPred
    <3>2. \A u : Pending(u) <=> u = Head(preds) \/ Pending(u)'
      <4>1. /\ Len(preds) \in Nat \ {0} /\ DOMAIN preds = 1 .. Len(preds) /\ Head(preds) = preds[1]
            /\ DOMAIN Tail(preds) = 1 .. Len(preds) - 1
            /\ \A k \in 1 .. Len(preds) - 1 : Tail(preds)[k] = preds[k + 1]
        BY <2>1
      <4>4. /\ DOMAIN preds' = 1 .. Len(preds) - 1
            /\ \A k \in 1 .. Len(preds) - 1 : preds'[k] = preds[k + 1]
        BY <3>1, <4>1
      <4>5. \A u : Pending(u)' <=> \E k \in DOMAIN preds' : preds'[k] = u
        BY DEF Pending
      <4>6. \A u : Pending(u) <=> \E k \in DOMAIN preds : preds[k] = u
        BY DEF Pending
      <4>7. PICK p, q : p = preds /\ q = preds'
        OBVIOUS
      <4>8. \A u : (\E k \in DOMAIN p : p[k] = u)
                   <=> u = p[1] \/ \E k \in DOMAIN q : q[k] = u
        <5>1. PICK n \in Nat \ {0} : DOMAIN p = 1 .. n /\ DOMAIN q = 1 .. n - 1
          BY <4>1, <4>4, <4>7
        <5>2. \A k \in 1 .. n - 1 : q[k] = p[k + 1]
          BY <4>1, <4>4, <4>7, <5>1
        <5>3. \A k \in 1 .. n : k = 1 \/ (k - 1 \in 1 .. n - 1 /\ q[k - 1] = p[k])
          BY <5>1, <5>2
        <5>4. 1 \in 1 .. n /\ \A k \in 1 .. n - 1 : k + 1 \in 1 .. n
          BY <5>1
        <5> QED
          BY <5>1, <5>2, <5>3, <5>4
      <4> QED
        BY <4>1, <4>5, <4>6, <4>7, <4>8
    <3> QED
      BY <1>3, <2>1, <2>3, <3>1, <3>2 DEF ArrivedInv, Working, Building, FirstHandled
  <2>4. CASE ~Arrived(Head(preds))
    <3>1. phase' = "threw"
      BY <1>7, <2>4 DEF EvalPred
    <3>2. IsEdge(succs, Head(preds), Block(node))
      BY <2>1, <2>2 DEF ArrivedInv
    <3> QED
      BY <1>3, <2>1, <2>2, <2>4, <3>1, <3>2 DEF ArrivedInv, Working, Building
  <2> QED
    BY <2>3, <2>4
<1>8. CASE PushBucket
  <2>1. phase = "preds" /\ preds = << >> /\ phase' = "bucket" /\ node' = node /\ node \in 1 .. N
    BY <1>4, <1>8 DEF PushBucket, Phases
  <2>2. FirstHandled = node + 1 /\ FirstHandled' = node
    BY <2>1 DEF FirstHandled
  <2>3. \A u \in Nodes : IsEdge(succs, u, Block(node)) => Arrived(u)
    BY <2>1 DEF ArrivedInv, Pending
  <2>4. \A i \in node .. N : i = node \/ i \in node + 1 .. N
    BY <1>6, <2>1
  <2> QED
    BY <1>3, <2>1, <2>2, <2>3, <2>4 DEF ArrivedInv, Working
<1>9. CASE DrainBucket
  <2>1. phase = "bucket" /\ phase' = "bucket" /\ node' = node
    BY <1>9 DEF DrainBucket
  <2> QED
    BY <1>3, <2>1 DEF ArrivedInv, Working, Building, FirstHandled
<1>10. CASE Merge
  <2>1. phase = "bucket" /\ node \in 1 .. N /\ FirstHandled = node
    BY <1>4, <1>10 DEF Merge, Phases, FirstHandled
  <2>2. CASE node = 1
    <3>1. phase' = "idoms" /\ FirstHandled' = 1
      BY <1>10, <2>2 DEF Merge, FirstHandled
    <3> QED
      BY <1>3, <2>1, <2>2, <3>1 DEF ArrivedInv, Working
  <2>3. CASE node # 1
    <3>1. /\ phase' = "preds" /\ node' = node - 1 /\ preds' = PredsOf(node - 1)
      BY <1>10, <2>3 DEF Merge
    <3>2. node - 1 \in 1 .. N /\ FirstHandled' = node
      BY <1>6, <2>1, <2>3, <3>1 DEF FirstHandled
    <3>3. \A u \in Nodes : IsEdge(succs, u, Block(node - 1)) <=> Pending(u)'
      BY <1>4, <2>1, <3>1, <3>2, AllPreds DEF Pending, SearchInv
    <3> QED
      BY <1>3, <2>1, <3>1, <3>2, <3>3 DEF ArrivedInv, Working
  <2> QED
    BY <2>2, <2>3
<1>11. CASE BuildIdom \/ Built
  <2>1. phase = "idoms" /\ phase' \in {"idoms", "done"} /\ FirstHandled = 1 /\ FirstHandled' = 1
    BY <1>11 DEF BuildIdom, Built, FirstHandled
  <2> QED
    BY <1>3, <2>1 DEF ArrivedInv, Working, Building
<1>13. CASE NoSuchBucket
  <2>1. phase' = "undefined"
    BY <1>13 DEF NoSuchBucket
  <2> QED
    BY <2>1 DEF ArrivedInv, Working, Building
<1>12. CASE UNCHANGED vars
  <2>1. UNCHANGED <<phase, node, preds>>
    BY <1>12 DEF vars
  <2> QED
    BY <1>3, <2>1 DEF ArrivedInv, Working, Building, FirstHandled, Pending
<1> QED
  BY <1>7, <1>8, <1>9, <1>10, <1>11, <1>12, <1>13 DEF Next, Step, Done

(* What the search reached is what can be reached. *)
LEMMA ReachedIsReachable ==
  ASSUME SearchInv, Stopped
  PROVE  Reachable(succs, Entry) = Reached
<1>1. /\ N \in Nat /\ Blocks(succs) = Nodes /\ IsFiniteSet(Nodes) /\ 1 \in 1 .. N
      /\ \A i \in 1 .. N : Block(i) \in Nodes
      /\ Block(1) = Entry /\ discovered \in Seq(Nodes)
      /\ \A i \in 1 .. N : \A v : IsEdge(succs, Block(i), v) => \E k \in 1 .. N : v = Block(k)
  <2>1. discovered \in Seq(Nodes)
    BY DEF SearchInv, S!IInv, S!TypeOK
  <2> QED
    BY <2>1, Order
<1> DEFINE R == Reachable(succs, Entry)
<1>2. {Entry} \in SUBSET Blocks(succs)
  BY <1>1
<1>3. R = ReachAvoiding(succs, {Entry}, {})
  BY DEF Reachable
<1>4. /\ {Entry} \ {} \subseteq R /\ R \subseteq Nodes /\ Confined(succs, R, {})
      /\ \A U : {Entry} \ {} \subseteq U /\ Confined(succs, U, {}) => R \subseteq U
  BY <1>1, <1>2, <1>3, ReachFacts
<1> HIDE DEF R
<1>5. R \subseteq Reached
  <2>1. Entry \in Reached
    BY <1>1 DEF Reached
  <2>2. Confined(succs, Reached, {})
    BY <1>1 DEF Confined, Reached
  <2> QED
    BY <1>4, <2>1, <2>2
<1>6. Reached \subseteq R
  <2>1. \A X \in SUBSET Nodes : Entry \in X /\ S!ClosedSet(X) => S!Discovered \subseteq X
    BY DEF SearchInv, S!IInv, S!OnlyReachable
  <2>2. S!ClosedSet(R)
    <3>1. \A b \in Nodes : succs[b] \in Seq(Nodes)
      BY DFSAssumption DEF SearchInv, S!IInv, S!TypeOK
    <3>2. \A b \in Nodes : \A i \in DOMAIN succs[b] : succs[b][i] \in Nodes /\ IsEdge(succs, b, succs[b][i])
      BY <3>1 DEF IsEdge
    <3> QED
      BY <1>1, <1>4, <3>2 DEF S!ClosedSet, Confined
  <2>3. S!Discovered = Reached
    BY <1>1 DEF S!Discovered, S!Elements, Reached, N, Block, m_dfs_nodes
  <2> QED
    BY <1>4, <2>1, <2>2, <2>3
<1> QED
  BY <1>5, <1>6 DEF R

(***************************************************************************)
(* The builder never returns a tree of a graph in which an unreachable     *)
(* block leads to a reachable one, and throws on no other: at() is called  *)
(* for all predecessors of all blocks before the tree is made.  And it     *)
(* comes to its tree exactly when all its indices into the buckets were    *)
(* inside of them.                                                         *)
(***************************************************************************)
OutcomeRight ==
  /\ phase = "done" => ~EdgeFromNowhere /\ ~IdTooLarge
  /\ phase = "threw" => EdgeFromNowhere
  /\ phase = "undefined" => IdTooLarge

LEMMA OutcomeFollows ==
  ASSUME IInv, ArrivedInv
  PROVE  OutcomeRight
<1> SUFFICES ASSUME phase # "dfs" PROVE OutcomeRight
  BY DEF OutcomeRight
<1>1. SearchInv /\ Stopped
  BY DEF IInv, SearchInv
<1>2. Reachable(succs, Entry) = Reached
  BY <1>1, ReachedIsReachable
<1>3. \A u : Arrived(u) <=> u \in Reached
  BY DEF Arrived, Reached, Block
<1>6. IdTooLarge <=> \E i \in 1 .. N : ~HasBucket(i)
  <2>1. /\ Cardinality(Nodes) \in Nat
        /\ \A i \in 1 .. N : bb_id(i) \in Nat
    BY <1>1, BlockIds
  <2>2. \A i : bb_id(i) = bb_ids[succs][Block(i)]
    BY DEF bb_id, Block
  <2>3. \A i \in 1 .. N : ~HasBucket(i) <=> bb_ids[succs][Block(i)] >= Cardinality(Nodes)
    BY <2>1, <2>2 DEF HasBucket
  <2> QED
    BY <1>2, <2>3 DEF IdTooLarge, Reached
<1>4. CASE phase = "done"
  <2>1. FirstHandled = 1
    BY <1>4 DEF FirstHandled
  <2>2. ~IdTooLarge
    BY <1>4, <1>6, <2>1 DEF IInv, IdsInv, Building
  <2>3. ~EdgeFromNowhere
    BY <1>2, <1>3, <1>4, <2>1 DEF EdgeFromNowhere, ArrivedInv, Building, Reached
  <2> QED
    BY <1>4, <2>2, <2>3 DEF OutcomeRight
<1>5. CASE phase = "threw"
  <2>1. Block(node) \in Reached
    BY <1>5 DEF IInv, Phases, Reached
  <2> QED
    BY <1>2, <1>3, <1>5, <2>1 DEF OutcomeRight, EdgeFromNowhere, ArrivedInv
<1>7. CASE phase = "undefined"
  BY <1>6, <1>7 DEF OutcomeRight, IInv, IdsInv
<1> QED
  BY <1>4, <1>5, <1>7 DEF OutcomeRight

(* The safety half of EndsAsItShould: how the builder ends is what the     *)
(* graph asks for.                                                         *)
THEOREM EndsForAReason == Spec => []OutcomeRight
<1>1. Init => ArrivedInv
  BY DEF Init, ArrivedInv, Working, Building
<1>2. IInv /\ ArrivedInv /\ [Next]_vars => ArrivedInv'
  BY NextArrived
<1>3. IInv /\ ArrivedInv => OutcomeRight
  BY OutcomeFollows
<1> QED
  BY <1>1, <1>2, <1>3, InitIInv, NextIInv, PTL DEF Spec
=============================================================================
