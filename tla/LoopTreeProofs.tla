----------------------------- MODULE LoopTreeProofs -----------------------------
(***************************************************************************)
(* Proofs about LoopTree, for every graph.  The builder runs the dominator *)
(* tree builder and then a search, so it keeps the invariants of           *)
(* DomTreeProofs and of DFSProofs.                                         *)
(***************************************************************************)
EXTENDS LoopTree, FiniteSetTheorems, TLAPS

P == INSTANCE DomTreeProofs WITH m_data <- m_dom3

-----------------------------------------------------------------------------
(* Facts of DomTreeProofs, for the operators of CFGraph as they are called *)
(* here: those of the instance are the same.                               *)

LEMMA LeastNumber ==
  ASSUME NEW X \in SUBSET Nat, X # {}
  PROVE  \E m \in X : \A k \in X : m <= k
  BY DFSAssumption, TargetsAssumption, MadeAssumption, IdsAssumption, P!LeastNumber

LEMMA BoundedInduction ==
  ASSUME NEW n \in Nat, NEW X, 0 \in X, \A k \in 1 .. n : k - 1 \in X => k \in X
  PROVE  0 .. n \subseteq X
  BY DFSAssumption, TargetsAssumption, MadeAssumption, IdsAssumption, P!BoundedInduction

Iterates(f, V, n, a, G) ==
  f \in [0 .. n -> V] /\ f[0] = a /\ \A k \in 1 .. n : f[k] = G[<<f[k - 1], k>>]

LEMMA Iteration ==
  ASSUME NEW V, NEW n \in Nat, NEW a \in V, NEW G \in [V \X (1 .. n) -> V]
  PROVE  \E f : Iterates(f, V, n, a, G)
<1>1. \E f : P!Iterates(f, V, n, a, G)
  BY DFSAssumption, TargetsAssumption, MadeAssumption, IdsAssumption, P!Iteration
<1> QED
  BY <1>1 DEF P!Iterates, Iterates

Confined(graph, U, Avoid) ==
  \A u \in U : \A v \in Blocks(graph) \ Avoid : IsEdge(graph, u, v) => v \in U

LEMMA SameReach ==
  /\ \A X : P!IsFiniteSet(X) <=> IsFiniteSet(X)
  /\ \A g : P!Blocks(g) = Blocks(g)
  /\ \A g, X, Avoid : P!ReachAvoiding(g, X, Avoid) = ReachAvoiding(g, X, Avoid)
  /\ \A g, U, Avoid : P!Confined(g, U, Avoid) <=> Confined(g, U, Avoid)
<1>1. \A g : P!Blocks(g) = Blocks(g)
  BY DEF P!Blocks, Blocks
<1>2. \A g, X, Avoid : P!ReachAvoiding(g, X, Avoid) = ReachAvoiding(g, X, Avoid)
  BY DEF P!ReachAvoiding, ReachAvoiding, P!Blocks, Blocks, P!IsEdge, IsEdge,
         P!Cardinality, Cardinality
<1>3. \A g, U, Avoid : P!Confined(g, U, Avoid) <=> Confined(g, U, Avoid)
  BY DEF P!Confined, Confined, P!Blocks, Blocks, P!IsEdge, IsEdge
<1>4. \A X : P!IsFiniteSet(X) <=> IsFiniteSet(X)
  BY DEF P!IsFiniteSet, IsFiniteSet
<1> QED
  BY <1>1, <1>2, <1>3, <1>4

LEMMA ReachFacts ==
  ASSUME NEW graph, NEW X \in SUBSET Blocks(graph), NEW Avoid, IsFiniteSet(Blocks(graph))
  PROVE  LET R == ReachAvoiding(graph, X, Avoid)
         IN /\ X \ Avoid \subseteq R /\ R \subseteq Blocks(graph)
            /\ Confined(graph, R, Avoid)
            /\ \A U : X \ Avoid \subseteq U /\ Confined(graph, U, Avoid) => R \subseteq U
<1> DEFINE R == P!ReachAvoiding(graph, X, Avoid)
<1>1. X \in SUBSET P!Blocks(graph) /\ P!IsFiniteSet(P!Blocks(graph))
  BY SameReach
<1>2. /\ X \ Avoid \subseteq R /\ R \subseteq P!Blocks(graph)
      /\ P!Confined(graph, R, Avoid)
      /\ \A U : X \ Avoid \subseteq U /\ P!Confined(graph, U, Avoid) => R \subseteq U
  BY <1>1, DFSAssumption, TargetsAssumption, MadeAssumption, IdsAssumption, P!ReachFacts
<1>3. R = ReachAvoiding(graph, X, Avoid)
  BY SameReach
<1> HIDE DEF R
<1> QED
  BY <1>2, <1>3, SameReach

LEMMA ReachMonotone ==
  ASSUME NEW graph, IsFiniteSet(Blocks(graph)), NEW X \in SUBSET Blocks(graph), NEW Avoid,
         NEW U \in SUBSET Blocks(graph), NEW Less, X \subseteq U, Less \subseteq Avoid
  PROVE  ReachAvoiding(graph, X, Avoid) \subseteq ReachAvoiding(graph, U, Less)
  BY SameReach, DFSAssumption, TargetsAssumption, MadeAssumption, IdsAssumption,
     P!ReachMonotone

LEMMA FiniteNodes ==
  ASSUME NEW order \in MadeOrders
  PROVE  IsFiniteSet(Nodes)
  BY SameReach, DFSAssumption, TargetsAssumption, MadeAssumption, IdsAssumption,
     P!FiniteNodes

LinkBoth(graph, into, b, u) ==
  LinkTarget(graph, LinkTarget(graph, into, b, u, 1), b, u, 2)

LinkSteps(f, graph, order, b) ==
  /\ f \in [0 .. Len(order) -> Seq(Nodes)]
  /\ f[0] = << >>
  /\ \A i \in 1 .. Len(order) : f[i] = LinkBoth(graph, f[i - 1], b, order[i])

LEMMA SamePreds ==
  /\ \A graph, order, b : m_preds(graph, order, b) = P!m_preds(graph, order, b)
  /\ \A f, graph, order, b : P!LinkSteps(f, graph, order, b) <=> LinkSteps(f, graph, order, b)
<1>1. \A graph, order, b : m_preds(graph, order, b) = P!m_preds(graph, order, b)
  BY DEF m_preds, P!m_preds, LinkTarget, P!LinkTarget
<1>2. \A f, graph, order, b : P!LinkSteps(f, graph, order, b) <=> LinkSteps(f, graph, order, b)
  BY DEF P!LinkSteps, LinkSteps, P!LinkBoth, LinkBoth, P!LinkTarget, LinkTarget
<1> QED
  BY <1>1, <1>2

LEMMA PredsSteps ==
  ASSUME NEW graph, NEW order \in Seq(Nodes), NEW b
  PROVE  \E f : LinkSteps(f, graph, order, b) /\ m_preds(graph, order, b) = f[Len(order)]
<1>1. \E f : P!LinkSteps(f, graph, order, b) /\ P!m_preds(graph, order, b) = f[Len(order)]
  BY DFSAssumption, TargetsAssumption, MadeAssumption, IdsAssumption, P!PredsSteps
<1> QED
  BY <1>1, SamePreds

LEMMA PredsFacts ==
  ASSUME NEW graph \in Graphs, NEW order \in MadeOrders, NEW b
  PROVE  /\ m_preds(graph, order, b) \in Seq(Nodes)
         /\ \A u \in Nodes :
              IsEdge(graph, u, b) <=>
                \E i \in DOMAIN m_preds(graph, order, b) : m_preds(graph, order, b)[i] = u
<1>1. \A g, u, v : P!IsEdge(g, u, v) <=> IsEdge(g, u, v)
  BY DEF P!IsEdge, IsEdge
<1> QED
  BY <1>1, SamePreds, DFSAssumption, TargetsAssumption, MadeAssumption, IdsAssumption,
     P!PredsFacts

-----------------------------------------------------------------------------
(* The graph and the search.                                               *)

Members(seq) == {seq[i] : i \in DOMAIN seq}
Discovered == Members(discovered)
Finished == Members(finished)
Earlier(u, v) == \E i, j \in DOMAIN discovered : i < j /\ discovered[i] = u /\ discovered[j] = v

(* No edge leads into what is reachable from elsewhere.                    *)
Closed == \A u \in Nodes, v \in Reached : IsEdge(succs, u, v) => u \in Reached

GraphInv ==
  /\ stage \in {"dom3", "edges", "populate", "done"}
  /\ made \in MadeOrders
  /\ stage = "dom3" => P!IInv /\ P!ArrivedInv
  /\ stage # "dom3" => P!S!BInv /\ Closed
  /\ stage \in {"populate", "done"} => D!Stopped
  /\ stage # "populate" => cur_loop = 0

(* The steps of the instances are the steps of the modules proved about.   *)
LEMMA TreeSteps ==
  ASSUME T!Step
  PROVE  P!Step
<1>1. T!MakeDfs => P!MakeDfs
  <2>1. T!D!Start => P!D!Start
    BY DEF T!D!Start, P!D!Start, T!D!Visit, P!D!Visit, T!D!Fresh, P!D!Fresh
  <2>2. T!D!Pop => P!D!Pop
    BY DEF T!D!Pop, P!D!Pop
  <2>3. T!D!Scan => P!D!Scan
    BY DEF T!D!Scan, P!D!Scan, T!D!AtEnd, P!D!AtEnd, T!D!Known, P!D!Known, T!D!Succ, P!D!Succ,
           T!D!IsOpen, P!D!IsOpen, T!D!NextIt, P!D!NextIt
  <2>4. T!D!Finish => P!D!Finish
    BY DEF T!D!Finish, P!D!Finish, T!D!AtEnd, P!D!AtEnd
  <2>5. T!D!Descend => P!D!Descend
    BY DEF T!D!Descend, P!D!Descend, T!D!AtEnd, P!D!AtEnd, T!D!Known, P!D!Known, T!D!Succ, P!D!Succ,
           T!D!Visit, P!D!Visit, T!D!PushBoth, P!D!PushBoth, T!D!Fresh, P!D!Fresh
  <2> QED
    BY <2>1, <2>2, <2>3, <2>4, <2>5 DEF T!MakeDfs, P!MakeDfs, T!D!Step, P!D!Step
<1>2. T!N = P!N /\ \A i : T!PredsOf(i) = P!PredsOf(i)
  BY DEF T!N, P!N, T!PredsOf, P!PredsOf, T!m_dfs_nodes, P!m_dfs_nodes,
         T!m_preds, P!m_preds, T!LinkTarget, P!LinkTarget
<1>10. T!Cardinality(Nodes) = P!Cardinality(Nodes)
  BY DEF T!Cardinality, P!Cardinality
<1>11. /\ \A i : T!HasBucket(i) <=> P!HasBucket(i)
       /\ \A i : T!bb_id(i) = P!bb_id(i) /\ T!Bucket(i) = P!Bucket(i)
  BY <1>10 DEF T!HasBucket, P!HasBucket, T!bb_id, P!bb_id, T!Bucket, P!Bucket,
               T!m_dfs_nodes, P!m_dfs_nodes
<1>3. T!EnterSdoms => P!EnterSdoms
  BY <1>2, <1>10 DEF T!EnterSdoms, P!EnterSdoms, T!Numbers, P!Numbers, T!search, P!search,
              T!Stopped, P!Stopped
<1>4. T!EvalPred => P!EvalPred
  BY DEF T!EvalPred, P!EvalPred, T!Arrived, P!Arrived, T!N, P!N, T!m_dfs_nodes, P!m_dfs_nodes,
         T!Find, P!Find, T!m_dfs_labels, P!m_dfs_labels, T!Min2, P!Min2, T!search, P!search
<1>5. T!PushBucket => P!PushBucket
  BY <1>11 DEF T!PushBucket, P!PushBucket, T!search, P!search
<1>12. T!NoSuchBucket => P!NoSuchBucket
  BY <1>11 DEF T!NoSuchBucket, P!NoSuchBucket, T!search, P!search
<1>6. T!DrainBucket => P!DrainBucket
  BY <1>11 DEF T!DrainBucket, P!DrainBucket, T!Find, P!Find, T!BucketIdom, P!BucketIdom,
         T!search, P!search
<1>7. T!Merge => P!Merge
  BY <1>2, <1>11 DEF T!Merge, P!Merge, T!m_dfs_parents, P!m_dfs_parents, T!search, P!search
<1>8. T!BuildIdom => P!BuildIdom
  BY DEF T!BuildIdom, P!BuildIdom, T!N, P!N, T!m_dfs_nodes, P!m_dfs_nodes, T!search, P!search
<1>9. T!Built => P!Built
  BY <1>2 DEF T!Built, P!Built, T!search, P!search
<1> QED
  BY <1>1, <1>3, <1>4, <1>5, <1>6, <1>7, <1>8, <1>9, <1>12 DEF T!Step, P!Step

LEMMA SearchSteps ==
  /\ D!Start => P!S!Start
  /\ D!Pop => P!S!Pop
  /\ D!Scan => P!S!Scan
  /\ D!Finish => P!S!Finish
  /\ D!Descend => P!S!Descend
<1>1. D!Start => P!S!Start
  BY DEF D!Start, P!S!Start, D!Visit, P!S!Visit, D!Fresh, P!S!Fresh
<1>2. D!Pop => P!S!Pop
  BY DEF D!Pop, P!S!Pop
<1>3. D!Scan => P!S!Scan
  BY DEF D!Scan, P!S!Scan, D!AtEnd, P!S!AtEnd, D!Known, P!S!Known, D!Succ, P!S!Succ,
         D!IsOpen, P!S!IsOpen, D!NextIt, P!S!NextIt
<1>4. D!Finish => P!S!Finish
  BY DEF D!Finish, P!S!Finish, D!AtEnd, P!S!AtEnd
<1>5. D!Descend => P!S!Descend
  BY DEF D!Descend, P!S!Descend, D!AtEnd, P!S!AtEnd, D!Known, P!S!Known, D!Succ, P!S!Succ,
         D!Visit, P!S!Visit, D!PushBoth, P!S!PushBoth, D!Fresh, P!S!Fresh
<1> QED
  BY <1>1, <1>2, <1>3, <1>4, <1>5

(* IsEdge is the same in all the instances.                                *)
LEMMA SameEdges ==
  /\ \A g, u, v : P!IsEdge(g, u, v) <=> IsEdge(g, u, v)
  /\ \A g, u, v : P!S!IsEdge(g, u, v) <=> IsEdge(g, u, v)
<1>1. \A g, u, v : P!IsEdge(g, u, v) <=> IsEdge(g, u, v)
  BY DEF P!IsEdge, IsEdge
<1>2. \A g, u, v : P!S!IsEdge(g, u, v) <=> IsEdge(g, u, v)
  BY DEF P!S!IsEdge, IsEdge
<1> QED
  BY <1>1, <1>2

(* Plain facts about a graph of Graphs. *)
LEMMA GraphFacts ==
  ASSUME succs \in Graphs, made \in MadeOrders
  PROVE  /\ IsFiniteSet(Nodes) /\ Blocks(succs) = Nodes /\ Entry \in Nodes /\ NoNode \notin Nodes
         /\ \A b \in Nodes : succs[b] \in Seq(Nodes) /\ DOMAIN succs[b] \subseteq {1, 2}
         /\ \A u \in Nodes : \A v : IsEdge(succs, u, v) => v \in Nodes
<1>1. IsFiniteSet(Nodes)
  BY FiniteNodes
<1>2. /\ Blocks(succs) = Nodes /\ Entry \in Nodes /\ NoNode \notin Nodes
      /\ \A b \in Nodes : succs[b] \in Seq(Nodes) /\ Len(succs[b]) <= 2
  BY DFSAssumption, TargetsAssumption DEF Blocks
<1>3. \A b \in Nodes : DOMAIN succs[b] \subseteq {1, 2}
  <2> TAKE b \in Nodes
  <2>1. Len(succs[b]) \in Nat /\ DOMAIN succs[b] = 1 .. Len(succs[b])
    BY <1>2
  <2> QED
    BY <1>2, <2>1
<1>4. \A u \in Nodes : \A v : IsEdge(succs, u, v) => v \in Nodes
  BY <1>2 DEF IsEdge
<1> QED
  BY <1>1, <1>2, <1>3, <1>4

(* What is reached is the least set with the entry and without a way out.  *)
LEMMA ReachedFacts ==
  ASSUME succs \in Graphs, made \in MadeOrders
  PROVE  /\ Entry \in Reached /\ Reached \subseteq Nodes
         /\ \A u \in Reached : \A v : IsEdge(succs, u, v) => v \in Reached
         /\ \A X \in SUBSET Nodes : /\ Entry \in X
                                    /\ \A u \in X : \A v : IsEdge(succs, u, v) => v \in X
                                    => Reached \subseteq X
<1>1. /\ IsFiniteSet(Nodes) /\ Blocks(succs) = Nodes /\ Entry \in Nodes
      /\ \A u \in Nodes : \A v : IsEdge(succs, u, v) => v \in Nodes
  BY GraphFacts
<1>2. Reached = ReachAvoiding(succs, {Entry}, {}) /\ {Entry} \in SUBSET Blocks(succs)
  BY <1>1 DEF Reached, Reachable
<1>3. /\ {Entry} \ {} \subseteq Reached /\ Reached \subseteq Nodes /\ Confined(succs, Reached, {})
      /\ \A U : {Entry} \ {} \subseteq U /\ Confined(succs, U, {}) => Reached \subseteq U
  BY <1>1, <1>2, ReachFacts
<1>4. \A U : Confined(succs, U, {}) <=> \A u \in U : \A v \in Nodes : IsEdge(succs, u, v) => v \in U
  BY <1>1 DEF Confined
<1> QED
  BY <1>1, <1>3, <1>4

(* A search that has stopped has discovered, and finished, what is reached. *)
LEMMA StoppedFacts ==
  ASSUME P!S!IInv, made \in MadeOrders, D!Stopped
  PROVE  Discovered = Reached /\ Finished = Reached
<1>1. succs \in Graphs /\ discovered \in Seq(Nodes)
  BY DEF P!S!IInv, P!S!TypeOK
<1>2. P!S!VisitsReachable /\ P!S!Stopped
  BY DFSAssumption, TargetsAssumption, MadeAssumption, IdsAssumption,
     P!S!AllVisited DEF D!Stopped, P!S!Stopped
<1>3. P!S!Discovered = Discovered /\ P!S!Finished = Finished
  BY DEF P!S!Discovered, Discovered, P!S!Finished, Finished, P!S!Elements, Members
<1>4. /\ Finished = Discovered /\ Entry \in Discovered
      /\ \A X : P!S!ClosedSet(X) <=> \A u \in X : \A i \in DOMAIN succs[u] : succs[u][i] \in X
      /\ P!S!ClosedSet(Discovered)
      /\ \A X \in SUBSET Nodes : Entry \in X /\ P!S!ClosedSet(X) => Discovered \subseteq X
  BY <1>2, <1>3 DEF P!S!VisitsReachable, P!S!ClosedSet
<1>5. \A X : P!S!ClosedSet(X) <=> \A u \in X : \A v : IsEdge(succs, u, v) => v \in X
  BY <1>4 DEF IsEdge
<1>6. Discovered \subseteq Nodes
  BY <1>1 DEF Discovered, Members
<1> QED
  BY <1>1, <1>4, <1>5, <1>6, ReachedFacts

-----------------------------------------------------------------------------
(* The builder keeps the invariants of the two it is built on.             *)

LEMMA SameSearch ==
  ASSUME P!S!BInv, UNCHANGED search
  PROVE  P!S!BInv' /\ (Closed => Closed') /\ (D!Stopped => D!Stopped')
<1>1. UNCHANGED <<succs, m_visited, m_stack, parent, cur_it, discovered, finished, backEdges>>
  BY DEF search
<1>2. UNCHANGED P!S!vars
  BY <1>1 DEF P!S!vars
<1>3. P!S!BInv'
  BY <1>2, DFSAssumption, TargetsAssumption, MadeAssumption, IdsAssumption, P!S!NextBInv
<1>4. Closed => Closed'
  BY <1>1 DEF Closed, Reached
<1>5. D!Stopped => D!Stopped'
  BY <1>1 DEF D!Stopped
<1> QED
  BY <1>3, <1>4, <1>5

(* When the dominator tree is done, no block of it has a predecessor the   *)
(* search did not reach.                                                   *)
LEMMA DoneClosed ==
  ASSUME P!IInv, P!ArrivedInv, phase = "done"
  PROVE  Closed
<1>1. P!SearchInv /\ P!Stopped /\ P!S!IInv /\ made \in MadeOrders
  BY DEF P!IInv, P!SearchInv
<1>2. D!Stopped
  BY <1>1 DEF P!Stopped, D!Stopped
<1>3. Discovered = Reached
  BY <1>1, <1>2, StoppedFacts
<1>4. discovered \in Seq(Nodes)
  BY <1>1 DEF P!S!IInv, P!S!TypeOK
<1>5. P!N = Len(discovered) /\ \A i : P!Block(i) = discovered[i]
  BY DEF P!N, P!Block, P!m_dfs_nodes
<1>6. \A i \in 1 .. P!N : \A u \in Nodes : P!IsEdge(succs, u, P!Block(i)) => P!Arrived(u)
  BY DEF P!ArrivedInv, P!Building, P!FirstHandled
<1>7. \A u : P!Arrived(u) => u \in Discovered
  BY <1>4, <1>5 DEF P!Arrived, P!m_dfs_nodes, Discovered, Members
<1> QED
  BY <1>3, <1>4, <1>5, <1>6, <1>7, SameEdges DEF Closed, Discovered, Members

(* A search that starts anew keeps the invariants of one, with nothing on  *)
(* its path.                                                               *)
LEMMA CollectKeepsSearch ==
  ASSUME P!IInv, P!ArrivedInv, CollectBackEdges
  PROVE  P!S!BInv'
<1>1. P!SearchInv /\ P!Stopped /\ P!S!IInv
  BY DEF P!IInv, P!SearchInv, CollectBackEdges
<1>2. /\ m_visited' = [b \in Nodes |-> "WHITE"]
      /\ discovered' = << >> /\ finished' = << >> /\ backEdges' = {}
      /\ succs' = succs /\ m_stack' = << >> /\ parent' = NoNode /\ cur_it' = cur_it
  BY <1>1 DEF CollectBackEdges, P!Stopped
<1>3. succs \in Graphs /\ cur_it \in Nat
  BY <1>1 DEF P!S!IInv, P!S!TypeOK
<1>4. P!S!Path' = << >> /\ P!S!Discovered' = {} /\ P!S!Finished' = {}
  BY <1>2 DEF P!S!Path, P!S!Discovered, P!S!Finished, P!S!Elements
<1>5. P!S!TypeOK' /\ P!S!StackIsGreyPath' /\ P!S!VisitedOnce' /\ P!S!ColorsMatch'
  BY <1>2, <1>3, <1>4 DEF P!S!TypeOK, P!S!StackIsGreyPath, P!S!VisitedOnce, P!S!Once,
                         P!S!ColorsMatch, P!S!Known
<1>6. P!S!ScannedKnown' /\ P!S!ScannedEdges' /\ P!S!OnlyReachable' /\ P!S!Started'
      /\ P!S!ReversePostorder'
  BY <1>2, <1>4 DEF P!S!ScannedKnown, P!S!ScannedEdges, P!S!OnlyReachable, P!S!Started,
                    P!S!ReversePostorder
<1>7. P!S!PathOrder' /\ P!S!Reported'
  BY <1>2, <1>4 DEF P!S!PathOrder, P!S!Reported
<1> QED
  BY <1>5, <1>6, <1>7 DEF P!S!BInv, P!S!IInv

LEMMA NextGraph ==
  ASSUME GraphInv, Step
  PROVE  GraphInv'
<1>1. CASE BuildDomTree
  <2>1. stage = "dom3" /\ stage' = "dom3" /\ T!Step
    BY <1>1 DEF BuildDomTree
  <2>2. P!IInv /\ P!ArrivedInv /\ P!Next
    BY <2>1, TreeSteps DEF GraphInv, P!Next
  <2>3. P!IInv' /\ P!ArrivedInv'
    BY <2>2, DFSAssumption, TargetsAssumption, MadeAssumption, IdsAssumption,
       P!NextIInv, P!NextArrived
  <2>4. made' \in MadeOrders
    BY <2>3 DEF P!IInv, P!SearchInv
  <2>5. cur_loop' = 0
    BY <1>1, <2>1 DEF BuildDomTree, walk, GraphInv
  <2> QED
    BY <2>1, <2>3, <2>4, <2>5 DEF GraphInv
<1>2. CASE CollectBackEdges
  <2>1. /\ stage = "dom3" /\ phase = "done" /\ stage' = "edges" /\ succs' = succs /\ made' = made
        /\ P!IInv /\ P!ArrivedInv
    BY <1>2 DEF CollectBackEdges, domtree, GraphInv
  <2>2. P!S!BInv'
    BY <1>2, <2>1, CollectKeepsSearch
  <2>3. Closed'
    BY <2>1, DoneClosed DEF Closed, Reached
  <2>4. cur_loop' = 0
    BY <1>2, <2>1 DEF CollectBackEdges, walk, GraphInv
  <2> QED
    BY <2>1, <2>2, <2>3, <2>4 DEF GraphInv
<1>3. CASE Search
  <2>1. /\ stage = "edges" /\ stage' = "edges" /\ made' = made
        /\ D!Start \/ D!Pop \/ D!Descend \/ D!Scan \/ D!Finish
    BY <1>3 DEF Search, domtree
  <2>2. P!S!BInv /\ P!S!Next /\ Closed /\ made \in MadeOrders
    BY <2>1, SearchSteps DEF GraphInv, P!S!Next, P!S!Step
  <2>3. P!S!BInv'
    BY <2>2, DFSAssumption, TargetsAssumption, MadeAssumption, IdsAssumption, P!S!NextBInv
  <2>4. succs' = succs
    BY <2>1 DEF D!Start, D!Pop, D!Descend, D!Scan, D!Finish
  <2>5. Closed'
    BY <2>2, <2>4 DEF Closed, Reached
  <2>6. cur_loop' = 0
    BY <1>3, <2>1 DEF Search, walk, GraphInv
  <2> QED
    BY <2>1, <2>2, <2>3, <2>5, <2>6 DEF GraphInv
<1>4. CASE ~BuildDomTree /\ ~CollectBackEdges /\ ~Search
  <2>1. /\ UNCHANGED <<search, domtree>>
        /\ stage # "dom3" /\ stage' # "dom3" /\ stage' \in {"edges", "populate", "done"}
        /\ stage' \in {"populate", "done"} => stage \in {"populate", "done"} \/ D!Stopped
        /\ stage' # "populate" => cur_loop' = 0
    <3>1. CASE Collected
      BY <3>1 DEF Collected
    <3>2. CASE EnterReducible \/ TakeLatches \/ InitRootLoop
      BY <3>2 DEF EnterReducible, TakeLatches, InitRootLoop, walk
    <3>3. CASE NextSource \/ SkipMarked \/ SearchBlock \/ LeaveReducible
      <4>1. cur_loop # 0 /\ UNCHANGED <<search, domtree, stage>>
        BY <3>3 DEF NextSource, SkipMarked, SearchBlock, LeaveReducible
      <4> QED
        BY <4>1 DEF GraphInv
    <3> QED
      BY <1>4, <3>1, <3>2, <3>3 DEF Step
  <2>2. P!S!BInv /\ Closed /\ made' \in MadeOrders
    BY <2>1 DEF GraphInv, domtree
  <2>3. P!S!BInv' /\ Closed' /\ (D!Stopped => D!Stopped')
    BY <2>1, <2>2, SameSearch
  <2> QED
    BY <2>1, <2>2, <2>3 DEF GraphInv
<1> QED
  BY <1>1, <1>2, <1>3, <1>4

-----------------------------------------------------------------------------
(* What the steps do to the loops.                                         *)

LoopRecs == [header : Nodes \cup {NoNode}, reducible : BOOLEAN, root : BOOLEAN,
             body : Seq(Nodes), back_edges : SUBSET Nodes, inners : SUBSET Nat, outer : Nat]
Header(l) == m_loops[l].header
IsReducible(l) == m_loops[l].reducible
Body(l) == Members(m_loops[l].body)
Latches(l) == m_loops[l].back_edges
Inners(l) == m_loops[l].inners
Outer(l) == m_loops[l].outer

LoopsInv ==
  /\ m_loops \in Seq(LoopRecs)
  /\ \A l \in Loops : m_loops[l].inners \subseteq Loops /\ m_loops[l].outer \in Loops \cup {0}
  /\ loop_of \in [DOMAIN loop_of -> Loops] /\ DOMAIN loop_of \subseteq Nodes

\* The header, the kind and the latches of a loop stay.
Stays(l) == Header(l)' = Header(l) /\ IsReducible(l)' = IsReducible(l) /\ Latches(l)' = Latches(l)

\* The visitor has put src, a latch of the block dst, into the loop cur.
Filed(src, dst, cur) ==
  /\ cur = IF HasLoop(dst) THEN loop_of[dst] ELSE Len(m_loops) + 1
  /\ HasLoop(dst) <=> cur \in Loops
  /\ Loops' = Loops \cup {cur}
  /\ \A l \in Loops : Header(l)' = Header(l) /\ IsReducible(l)' = IsReducible(l)
  /\ \A l \in Loops \ {cur} : Body(l)' = Body(l) /\ Latches(l)' = Latches(l)
  /\ cur \in Loops => Body(cur)' = Body(cur) \cup {src} /\ Latches(cur)' = Latches(cur) \cup {src}
  /\ cur \notin Loops => /\ Header(cur)' = dst /\ IsReducible(cur)' = T!dominates(dst, src)
                         /\ Body(cur)' = {src} /\ Latches(cur)' = {src}
  /\ DOMAIN loop_of' = DOMAIN loop_of \cup {dst, src}
  /\ \A b \in DOMAIN loop_of \ {src} : loop_of'[b] = loop_of[b]
  /\ loop_of'[dst] = cur /\ loop_of'[src] = cur

\* The visitor links no loops.
NewUntied ==
  /\ \A l \in Loops : Inners(l)' = Inners(l) /\ Outer(l)' = Outer(l)
  /\ \A l \in Loops' \ Loops : Inners(l)' = {} /\ Outer(l)' = 0

LEMMA AppendMembers ==
  ASSUME NEW S, NEW s \in Seq(S), NEW x \in S
  PROVE  /\ Append(s, x) \in Seq(S) /\ Members(Append(s, x)) = Members(s) \cup {x}
         /\ DOMAIN s = 1 .. Len(s) /\ Len(s) \in Nat
         /\ DOMAIN Append(s, x) = 1 .. Len(s) + 1
         /\ \A i \in DOMAIN s : Append(s, x)[i] = s[i]
         /\ Append(s, x)[Len(s) + 1] = x
<1> DEFINE t == Append(s, x)
<1>1. /\ t \in Seq(S) /\ DOMAIN s = 1 .. Len(s) /\ Len(s) \in Nat /\ DOMAIN t = 1 .. Len(s) + 1
      /\ \A i \in DOMAIN s : t[i] = s[i]
      /\ t[Len(s) + 1] = x
  OBVIOUS
<1> HIDE DEF t
<1>2. Members(t) = Members(s) \cup {x}
  <2>1. \A i \in DOMAIN t : i \in DOMAIN s \/ i = Len(s) + 1
    BY <1>1
  <2> QED
    BY <1>1, <2>1 DEF Members
<1> QED
  BY <1>1, <1>2 DEF t

LEMMA BackEdgeEffect ==
  ASSUME LoopsInv, NEW src \in Nodes, NEW dst \in Nodes, BackEdge(src, dst)
  PROVE  LoopsInv' /\ NewUntied /\ \E cur : Filed(src, dst, cur)
<1> PICK cur : cur = IF HasLoop(dst) THEN loop_of[dst] ELSE Len(m_loops) + 1
  OBVIOUS
<1> DEFINE new == NewLoop(dst, T!dominates(dst, src), FALSE)
           ls == IF ~HasLoop(dst) THEN Append(m_loops, new) ELSE m_loops
           old == ls[cur]
           rec == WithBackEdge(old, src)
<1>1. /\ m_loops' = [ls EXCEPT ![cur] = rec]
      /\ loop_of' = At(At(loop_of, dst, cur), src, cur)
  BY DEF BackEdge
<1>2. /\ DOMAIN loop_of' = DOMAIN loop_of \cup {dst, src}
      /\ \A b \in DOMAIN loop_of \ {src, dst} : loop_of'[b] = loop_of[b]
      /\ loop_of'[dst] = cur /\ loop_of'[src] = cur
  BY <1>1 DEF At
<1>3. new \in LoopRecs /\ new.body = << >> /\ new.back_edges = {} /\ new.header = dst
      /\ new.reducible = T!dominates(dst, src) /\ new.inners = {} /\ new.outer = 0
  <2>1. T!dominates(dst, src) \in BOOLEAN
    BY DEF T!dominates
  <2> QED
    BY <2>1 DEF NewLoop, LoopRecs
<1>4. m_loops \in Seq(LoopRecs) /\ Loops = 1 .. Len(m_loops) /\ Len(m_loops) \in Nat
  BY DEF LoopsInv, Loops
<1>5. HasLoop(dst) <=> cur \in Loops
  <2>1. HasLoop(dst) => loop_of[dst] \in Loops
    BY DEF LoopsInv, HasLoop
  <2>2. Len(m_loops) + 1 \notin Loops
    BY <1>4
  <2> QED
    BY <2>1, <2>2
<1>55. ls = IF ~HasLoop(dst) THEN Append(m_loops, new) ELSE m_loops
  OBVIOUS
<1> HIDE DEF ls, new
<1>6. /\ ls \in Seq(LoopRecs) /\ DOMAIN ls = Loops \cup {cur}
      /\ \A l \in Loops : ls[l] = m_loops[l]
      /\ cur \notin Loops => ls[cur] = new
      /\ DOMAIN ls = 1 .. Len(ls) /\ Len(ls) \in Nat
  <2>1. CASE HasLoop(dst)
    BY <1>4, <1>5, <1>55, <2>1 DEF Loops
  <2>2. CASE ~HasLoop(dst)
    <3>1. /\ ls = Append(m_loops, new) /\ cur = Len(m_loops) + 1
      BY <1>55, <2>2
    <3>2. /\ ls \in Seq(LoopRecs) /\ DOMAIN ls = 1 .. Len(m_loops) + 1
          /\ \A l \in Loops : ls[l] = m_loops[l]
          /\ ls[cur] = new
      BY <1>3, <1>4, <3>1, AppendMembers DEF Loops
    <3>3. 1 .. Len(m_loops) + 1 = Loops \cup {cur}
      BY <1>4, <3>1
    <3>4. DOMAIN ls = 1 .. Len(ls) /\ Len(ls) \in Nat
      BY <3>2
    <3> QED
      BY <3>2, <3>3, <3>4
  <2> QED
    BY <2>1, <2>2
<1>7. old \in LoopRecs
  BY <1>6
<1>8. /\ rec \in LoopRecs
      /\ rec.header = old.header /\ rec.reducible = old.reducible
      /\ rec.inners = old.inners /\ rec.outer = old.outer
      /\ rec.back_edges = old.back_edges \cup {src} /\ rec.body = Append(old.body, src)
      /\ old.body \in Seq(Nodes)
  <2> HIDE DEF old
  <2>1. old.body \in Seq(Nodes)
    BY <1>7 DEF LoopRecs
  <2>2. Append(old.body, src) \in Seq(Nodes)
    BY <2>1, AppendMembers
  <2> QED
    BY <1>7, <2>1, <2>2 DEF WithBackEdge, LoopRecs
<1> HIDE DEF rec, old
<1>9. Members(rec.body) = Members(old.body) \cup {src}
  BY <1>8, AppendMembers
<1>10. /\ m_loops' \in Seq(LoopRecs) /\ DOMAIN m_loops' = Loops \cup {cur} /\ m_loops'[cur] = rec
       /\ \A l \in Loops \ {cur} : m_loops'[l] = m_loops[l]
  <2>1. ls \in [1 .. Len(ls) -> LoopRecs]
    BY <1>6
  <2>2. /\ m_loops' \in [1 .. Len(ls) -> LoopRecs] /\ m_loops'[cur] = rec
        /\ \A l \in DOMAIN ls \ {cur} : m_loops'[l] = ls[l]
    BY <1>1, <1>6, <1>8, <2>1
  <2> QED
    BY <1>6, <2>2
<1>11. cur \in Loops => old = m_loops[cur]
  BY <1>6 DEF old
<1>12. cur \notin Loops => old = new
  BY <1>6 DEF old
<1>13. Loops' = Loops \cup {cur}
  BY <1>10 DEF Loops
<1>135. /\ \A l : Body(l) = Members(m_loops[l].body) /\ Body(l)' = Members(m_loops'[l].body)
        /\ \A l : Latches(l) = m_loops[l].back_edges /\ Latches(l)' = m_loops'[l].back_edges
  BY DEF Body, Latches, Members
<1>14. Filed(src, dst, cur)
  <2>1. \A l \in Loops : Header(l)' = Header(l) /\ IsReducible(l)' = IsReducible(l)
    BY <1>8, <1>10, <1>11 DEF Header, IsReducible
  <2>2. \A l \in Loops \ {cur} : Body(l)' = Body(l) /\ Latches(l)' = Latches(l)
    BY <1>10 DEF Body, Latches
  <2>3. cur \in Loops =>
          Body(cur)' = Body(cur) \cup {src} /\ Latches(cur)' = Latches(cur) \cup {src}
    BY <1>8, <1>9, <1>10, <1>11, <1>135
  <2>4. cur \notin Loops => /\ Header(cur)' = dst /\ IsReducible(cur)' = T!dominates(dst, src)
                            /\ Body(cur)' = {src} /\ Latches(cur)' = {src}
    <3>1. Members(<< >>) = {}
      BY DEF Members
    <3> QED
      BY <1>3, <1>8, <1>9, <1>10, <1>12, <1>135, <3>1 DEF Header, IsReducible
  <2>5. \A b \in DOMAIN loop_of \ {src} : loop_of'[b] = loop_of[b]
    BY <1>2 DEF HasLoop
  <2>6. cur = IF HasLoop(dst) THEN loop_of[dst] ELSE Len(m_loops) + 1
    OBVIOUS
  <2> QED
    BY <1>2, <1>5, <1>13, <2>1, <2>2, <2>3, <2>4, <2>5, <2>6 DEF Filed
<1>15. LoopsInv'
  <2>1. \A l \in Loops' : /\ m_loops'[l].inners \subseteq Loops'
                          /\ m_loops'[l].outer \in Loops' \cup {0}
    <3> TAKE l \in Loops'
    <3>1. CASE l \in Loops \ {cur}
      BY <1>10, <1>13, <3>1 DEF LoopsInv
    <3>2. CASE l = cur /\ cur \in Loops
      BY <1>8, <1>10, <1>11, <1>13, <3>2 DEF LoopsInv
    <3>3. CASE l = cur /\ cur \notin Loops
      BY <1>3, <1>8, <1>10, <1>12, <1>13, <3>3
    <3> QED
      BY <1>13, <3>1, <3>2, <3>3
  <2>2. loop_of' \in [DOMAIN loop_of' -> Loops'] /\ DOMAIN loop_of' \subseteq Nodes
    <3>1. \A b \in DOMAIN loop_of' : loop_of'[b] \in Loops'
      BY <1>2, <1>13 DEF LoopsInv
    <3>2. loop_of' = [b \in DOMAIN loop_of' |-> loop_of'[b]]
      BY <1>1 DEF At
    <3> QED
      BY <1>2, <3>1, <3>2 DEF LoopsInv
  <2> QED
    BY <1>10, <2>1, <2>2 DEF LoopsInv
<1>16. NewUntied
  <2>1. \A l \in Loops : Inners(l)' = Inners(l) /\ Outer(l)' = Outer(l)
    BY <1>8, <1>10, <1>11 DEF Inners, Outer
  <2>2. cur \notin Loops => Inners(cur)' = {} /\ Outer(cur)' = 0
    BY <1>3, <1>8, <1>10, <1>12 DEF Inners, Outer
  <2> QED
    BY <1>13, <2>1, <2>2 DEF NewUntied
<1> QED
  BY <1>14, <1>15, <1>16

\* The backward search has come to the block b.
Took(b) ==
  /\ Loops' = Loops /\ \A l \in Loops : Stays(l)
  /\ HasLoop(b) => loop_of' = loop_of /\ \A l \in Loops : Body(l)' = Body(l)
  /\ ~HasLoop(b) =>
       /\ DOMAIN loop_of' = DOMAIN loop_of \cup {b}
       /\ \A c \in DOMAIN loop_of : loop_of'[c] = loop_of[c]
       /\ loop_of'[b] = cur_loop
       /\ \A l \in Loops : Body(l)' = IF l = cur_loop THEN Body(l) \cup {b} ELSE Body(l)

\* The loop b is in becomes an inner loop, if it was none.
Tied(b) ==
  \/ \A l \in Loops : Inners(l)' = Inners(l) /\ Outer(l)' = Outer(l)
  \/ \E in \in Loops :
       /\ HasLoop(b) /\ in = loop_of[b] /\ in # cur_loop /\ Outer(in) = 0
       /\ \A l \in Loops : /\ Inners(l)' = IF l = cur_loop THEN Inners(l) \cup {in} ELSE Inners(l)
                           /\ Outer(l)' = IF l = in THEN cur_loop ELSE Outer(l)

LEMMA SearchBlockEffect ==
  ASSUME LoopsInv, cur_loop \in Loops, SearchBlock, NEW b \in Nodes, b = Head(todo)
  PROVE  LoopsInv' /\ Took(b) /\ Tied(b)
<1>1. m_loops \in Seq(LoopRecs) /\ Loops = 1 .. Len(m_loops) /\ Len(m_loops) \in Nat
  BY DEF LoopsInv, Loops
<1>2. m_loops \in [Loops -> LoopRecs] /\ \A l \in Loops : m_loops[l] \in LoopRecs
  BY <1>1
<1>3. /\ \A l : Body(l) = Members(m_loops[l].body) /\ Body(l)' = Members(m_loops'[l].body)
      /\ \A l : Latches(l) = m_loops[l].back_edges /\ Latches(l)' = m_loops'[l].back_edges
  BY DEF Body, Latches, Members
<1>4. CASE HasLoop(b)
  <2> DEFINE in == loop_of[b]
  <2>1. /\ m_loops' = IF in # cur_loop /\ m_loops[in].outer = 0
                      THEN WithInner(m_loops, cur_loop, in) ELSE m_loops
        /\ loop_of' = loop_of
    BY <1>4 DEF SearchBlock
  <2>2. in \in Loops
    BY <1>4 DEF LoopsInv, HasLoop
  <2>3. CASE m_loops' = m_loops
    <3>1. Loops' = Loops
      BY <2>3 DEF Loops
    <3>2. \A l \in Loops : Stays(l) /\ Body(l)' = Body(l)
      BY <1>3, <2>3 DEF Stays, Header, IsReducible
    <3> QED
      BY <1>4, <2>1, <2>3, <3>1, <3>2 DEF LoopsInv, Took, Tied, Inners, Outer
  <2>4. CASE in # cur_loop /\ m_loops[in].outer = 0 /\ m_loops' = WithInner(m_loops, cur_loop, in)
    <3> HIDE DEF in
    <3> PICK l1, l2 : l1 = cur_loop /\ l2 = in
      OBVIOUS
    <3>1. l1 \in Loops /\ l2 \in Loops /\ l1 # l2
      BY <2>2, <2>4
    <3> DEFINE r1 == [m_loops[l1] EXCEPT !.inners = @ \cup {l2}]
               r2 == [m_loops[l2] EXCEPT !.outer = l1]
    <3>2. m_loops' = [m_loops EXCEPT ![l1].inners = @ \cup {l2}, ![l2].outer = l1]
      BY <2>4 DEF WithInner
    <3>3. /\ m_loops' \in [Loops -> LoopRecs]
          /\ m_loops'[l1] = r1 /\ m_loops'[l2] = r2
          /\ \A l \in Loops \ {l1, l2} : m_loops'[l] = m_loops[l]
      <4>1. r1 \in LoopRecs /\ r2 \in LoopRecs
        <5>1. m_loops[l1] \in LoopRecs /\ m_loops[l2] \in LoopRecs /\ l1 \in Nat /\ l2 \in Nat
          BY <1>1, <1>2, <3>1
        <5> QED
          BY <5>1 DEF LoopRecs
      <4>2. m_loops' = [l \in Loops |-> IF l = l1 THEN r1 ELSE IF l = l2 THEN r2 ELSE m_loops[l]]
        BY <1>2, <3>1, <3>2
      <4> HIDE DEF r1, r2
      <4> QED
        BY <1>2, <3>1, <4>1, <4>2
    <3>4. /\ r1.header = m_loops[l1].header /\ r1.reducible = m_loops[l1].reducible
          /\ r1.body = m_loops[l1].body /\ r1.back_edges = m_loops[l1].back_edges
          /\ r1.outer = m_loops[l1].outer /\ r1.inners = m_loops[l1].inners \cup {l2}
          /\ r2.header = m_loops[l2].header /\ r2.reducible = m_loops[l2].reducible
          /\ r2.body = m_loops[l2].body /\ r2.back_edges = m_loops[l2].back_edges
          /\ r2.outer = l1 /\ r2.inners = m_loops[l2].inners
      <4>1. m_loops[l1] \in LoopRecs /\ m_loops[l2] \in LoopRecs
        BY <1>2, <3>1
      <4> QED
        BY <4>1 DEF LoopRecs
    <3> HIDE DEF r1, r2
    <3>5. m_loops' \in Seq(LoopRecs) /\ Loops' = Loops
      BY <1>1, <3>3 DEF Loops
    <3>6. \A l \in Loops : Stays(l) /\ Body(l)' = Body(l)
      BY <1>3, <3>3, <3>4 DEF Stays, Header, IsReducible
    <3>7. \A l \in Loops : /\ m_loops'[l].inners \subseteq Loops
                           /\ m_loops'[l].outer \in Loops \cup {0}
      BY <3>1, <3>3, <3>4 DEF LoopsInv
    <3>8. Tied(b)
      <4>1. HasLoop(b) /\ l2 = loop_of[b] /\ l2 # cur_loop /\ Outer(l2) = 0
        BY <1>4, <2>4 DEF Outer, in
      <4>2. \A l \in Loops : /\ Inners(l)' = IF l = l1 THEN Inners(l) \cup {l2} ELSE Inners(l)
                             /\ Outer(l)' = IF l = l2 THEN l1 ELSE Outer(l)
        BY <3>1, <3>3, <3>4 DEF Inners, Outer
      <4> QED
        BY <3>1, <4>1, <4>2 DEF Tied
    <3> QED
      BY <1>4, <2>1, <3>5, <3>6, <3>7, <3>8 DEF LoopsInv, Took
  <2> QED
    BY <2>1, <2>3, <2>4
<1>5. CASE ~HasLoop(b)
  <2> PICK l1 : l1 = cur_loop
    OBVIOUS
  <2> DEFINE r == [m_loops[l1] EXCEPT !.body = Append(@, b)]
  <2>1. /\ m_loops' = [m_loops EXCEPT ![l1].body = Append(@, b)]
        /\ loop_of' = At(loop_of, b, l1)
    BY <1>5 DEF SearchBlock
  <2>2. m_loops[l1] \in LoopRecs /\ m_loops[l1].body \in Seq(Nodes)
    BY <1>2 DEF LoopRecs
  <2>3. /\ Append(m_loops[l1].body, b) \in Seq(Nodes)
        /\ Members(Append(m_loops[l1].body, b)) = Members(m_loops[l1].body) \cup {b}
    BY <2>2, AppendMembers
  <2>4. /\ r \in LoopRecs /\ r.body = Append(m_loops[l1].body, b)
        /\ r.header = m_loops[l1].header /\ r.reducible = m_loops[l1].reducible
        /\ r.back_edges = m_loops[l1].back_edges
        /\ r.inners = m_loops[l1].inners /\ r.outer = m_loops[l1].outer
    BY <2>2, <2>3 DEF LoopRecs
  <2>5. /\ m_loops' \in [Loops -> LoopRecs] /\ m_loops'[l1] = r
        /\ \A l \in Loops \ {l1} : m_loops'[l] = m_loops[l]
    <3>1. m_loops' = [m_loops EXCEPT ![l1] = r]
      BY <2>1
    <3> HIDE DEF r
    <3> QED
      BY <1>2, <2>4, <3>1
  <2> HIDE DEF r
  <2>6. m_loops' \in Seq(LoopRecs) /\ Loops' = Loops
    BY <1>1, <2>5 DEF Loops
  <2>7. \A l \in Loops : Stays(l) /\ Body(l)' = IF l = l1 THEN Body(l) \cup {b} ELSE Body(l)
    BY <1>3, <2>3, <2>4, <2>5 DEF Stays, Header, IsReducible
  <2>8. /\ DOMAIN loop_of' = DOMAIN loop_of \cup {b}
        /\ \A c \in DOMAIN loop_of : loop_of'[c] = loop_of[c]
        /\ loop_of'[b] = l1
        /\ loop_of' = [c \in DOMAIN loop_of' |-> loop_of'[c]]
    BY <1>5, <2>1 DEF At, HasLoop
  <2>9. loop_of' \in [DOMAIN loop_of' -> Loops] /\ DOMAIN loop_of' \subseteq Nodes
    BY <2>8 DEF LoopsInv
  <2>10. \A l \in Loops : /\ m_loops'[l].inners \subseteq Loops
                          /\ m_loops'[l].outer \in Loops \cup {0}
    BY <2>4, <2>5 DEF LoopsInv
  <2>11. Tied(b)
    BY <2>4, <2>5 DEF Tied, Inners, Outer
  <2> QED
    BY <1>5, <2>6, <2>7, <2>8, <2>9, <2>10, <2>11 DEF LoopsInv, Took
<1> QED
  BY <1>4, <1>5

\* The free blocks among the first ones.
LEMMA FreeLeft ==
  ASSUME free_loop_nodes \in Seq(Nodes)
  PROVE  /\ WithoutLoop \in Seq(Nodes)
         /\ Members(WithoutLoop) = Members(free_loop_nodes) \ DOMAIN loop_of
<1> DEFINE V == Seq(Nodes)
<1> PICK s, X, n : s = free_loop_nodes /\ X = DOMAIN loop_of /\ n = Len(free_loop_nodes)
  OBVIOUS
<1> DEFINE Add(q, c) == IF c \in X THEN q ELSE Append(q, c)
           G == [w \in V \X (1 .. n) |-> Add(w[1], s[w[2]])]
           Sol(g) == g = [i \in 0 .. n |-> IF i = 0 THEN << >>
                                           ELSE IF s[i] \in X THEN g[i - 1]
                                           ELSE Append(g[i - 1], s[i])]
           g == CHOOSE h : Sol(h)
<1>1. n \in Nat /\ DOMAIN s = 1 .. n /\ \A i \in 1 .. n : s[i] \in Nodes
  OBVIOUS
<1>2. WithoutLoop = g[n]
  BY DEF WithoutLoop, HasLoop
<1>3. << >> \in V /\ \A q \in V, c \in Nodes : /\ Append(q, c) \in V
                                              /\ Members(Append(q, c)) = Members(q) \cup {c}
  BY AppendMembers
<1> HIDE DEF V
<1>4. \A q \in V, c \in Nodes : Add(q, c) \in V
  BY <1>3
<1>5. G \in [V \X (1 .. n) -> V] /\ \A q \in V, i \in 1 .. n : G[<<q, i>>] = Add(q, s[i])
  <2> HIDE DEF Add
  <2> QED
    BY <1>1, <1>4
<1> HIDE DEF G
<1>6. PICK f : Iterates(f, V, n, << >>, G)
  BY <1>1, <1>3, <1>5, Iteration
<1>7. /\ f \in [0 .. n -> V] /\ f[0] = << >>
      /\ \A i \in 1 .. n : f[i - 1] \in V /\ f[i] = Add(f[i - 1], s[i])
  <2>1. f \in [0 .. n -> V] /\ f[0] = << >>
    BY <1>6 DEF Iterates
  <2>2. ASSUME NEW i \in 1 .. n PROVE f[i - 1] \in V /\ f[i] = Add(f[i - 1], s[i])
    <3>1. i - 1 \in 0 .. n
      BY <1>1
    <3>2. f[i - 1] \in V
      BY <2>1, <3>1
    <3>3. f[i] = G[<<f[i - 1], i>>]
      BY <1>6 DEF Iterates
    <3> HIDE DEF Add
    <3> QED
      BY <1>5, <3>2, <3>3
  <2> HIDE DEF Add
  <2> QED
    BY <2>1, <2>2
<1>8. Sol(f)
  <2>1. f = [i \in 0 .. n |-> f[i]]
    BY <1>7
  <2>2. \A i \in 0 .. n : f[i] = IF i = 0 THEN << >>
                                 ELSE IF s[i] \in X THEN f[i - 1] ELSE Append(f[i - 1], s[i])
    <3> TAKE i \in 0 .. n
    <3>1. CASE i = 0
      BY <1>7, <3>1
    <3>2. CASE i \in 1 .. n
      <4>1. i # 0
        BY <3>2
      <4> QED
        BY <1>7, <3>2, <4>1
    <3> QED
      BY <1>1, <3>1, <3>2
  <2> QED
    BY <2>1, <2>2
<1>9. Sol(g)
  BY <1>8, Zenon
<1> HIDE DEF g
<1>10. g[0] = << >> /\ \A i \in 1 .. n : g[i] = Add(g[i - 1], s[i])
  <2>1. \A i \in 0 .. n : g[i] = IF i = 0 THEN << >>
                                 ELSE IF s[i] \in X THEN g[i - 1] ELSE Append(g[i - 1], s[i])
    BY <1>9
  <2> QED
    BY <1>1, <2>1
<1> HIDE DEF Sol
<1> DEFINE K == {i \in 0 .. n : /\ g[i] \in V
                                /\ Members(g[i]) = {s[j] : j \in 1 .. i} \ X}
<1>11. 0 .. n \subseteq K
  <2>1. 0 \in K
    BY <1>1, <1>3, <1>10 DEF Members
  <2>2. ASSUME NEW i \in 1 .. n, i - 1 \in K PROVE i \in K
    <3>1. /\ g[i - 1] \in V /\ s[i] \in Nodes
          /\ Members(g[i - 1]) = {s[j] : j \in 1 .. i - 1} \ X
      BY <1>1, <2>2
    <3>2. {s[j] : j \in 1 .. i} = {s[j] : j \in 1 .. i - 1} \cup {s[i]}
      <4>1. 1 .. i = (1 .. i - 1) \cup {i}
        OBVIOUS
      <4> QED
        BY <4>1
    <3>3. g[i] \in V /\ Members(g[i]) = {s[j] : j \in 1 .. i} \ X
      <4>1. CASE s[i] \in X
        <5>1. g[i] = g[i - 1]
          BY <1>10, <4>1
        <5> QED
          BY <3>1, <3>2, <4>1, <5>1
      <4>2. CASE s[i] \notin X
        <5>1. g[i] = Append(g[i - 1], s[i])
          BY <1>10, <4>2
        <5>2. g[i] \in V /\ Members(g[i]) = Members(g[i - 1]) \cup {s[i]}
          BY <1>3, <3>1, <5>1
        <5> QED
          BY <3>1, <3>2, <4>2, <5>2
      <4> QED
        BY <4>1, <4>2
    <3> QED
      BY <1>1, <3>3
  <2> HIDE DEF K
  <2> QED
    BY <1>1, <2>1, <2>2, BoundedInduction
<1>12. g[n] \in V /\ Members(g[n]) = {s[j] : j \in 1 .. n} \ X
  BY SMTT(30), <1>1, <1>11
<1>13. Members(s) = {s[j] : j \in 1 .. n}
  BY <1>1 DEF Members
<1> QED
  BY <1>2, <1>12, <1>13 DEF V

\* The root loop has been made; it is the last.
Rooted(root) ==
  /\ root \notin Loops /\ Loops' = Loops \cup {root} /\ root = Root'
  /\ \A l \in Loops : Stays(l) /\ Body(l)' = Body(l)
  /\ Header(root)' = NoNode /\ IsReducible(root)' = FALSE /\ Latches(root)' = {}
  /\ Body(root)' = Members(free_loop_nodes) \ DOMAIN loop_of
  /\ DOMAIN loop_of' = DOMAIN loop_of \cup Members(free_loop_nodes)
  /\ \A b \in DOMAIN loop_of : loop_of'[b] = loop_of[b]
  /\ \A b \in DOMAIN loop_of' \ DOMAIN loop_of : loop_of'[b] = root

RootTied(root) ==
  /\ \A l \in Loops : /\ Inners(l)' = Inners(l)
                      /\ Outer(l)' = IF Outer(l) = 0 THEN root ELSE Outer(l)
  /\ Inners(root)' = {l \in Loops : Outer(l) = 0} /\ Outer(root)' = 0

LEMMA InitRootLoopEffect ==
  ASSUME LoopsInv, free_loop_nodes \in Seq(Nodes), InitRootLoop
  PROVE  LoopsInv' /\ \E root : Rooted(root) /\ RootTied(root)
<1> PICK root, left, tied : /\ root = Len(m_loops) + 1 /\ left = WithoutLoop
                            /\ tied = {l \in Loops : m_loops[l].outer = 0}
  OBVIOUS
<1> DEFINE old == [l \in Loops |-> IF l \in tied THEN [m_loops[l] EXCEPT !.outer = root]
                                   ELSE m_loops[l]]
           rec == [NewLoop(NoNode, FALSE, TRUE) EXCEPT !.body = left, !.inners = tied]
<1>1. /\ m_loops' = Append(old, rec)
      /\ loop_of' = [b \in DOMAIN loop_of \cup {left[i] : i \in DOMAIN left} |->
                       IF HasLoop(b) THEN loop_of[b] ELSE root]
  BY DEF InitRootLoop
<1>2. /\ m_loops \in Seq(LoopRecs) /\ Loops = 1 .. Len(m_loops) /\ Len(m_loops) \in Nat
      /\ \A l \in Loops : m_loops[l] \in LoopRecs
  BY DEF LoopsInv, Loops
<1>3. left \in Seq(Nodes) /\ Members(left) = Members(free_loop_nodes) \ DOMAIN loop_of
  BY FreeLeft
<1>4. /\ rec \in LoopRecs /\ rec.header = NoNode /\ rec.reducible = FALSE
      /\ rec.back_edges = {} /\ rec.body = left /\ rec.inners = tied /\ rec.outer = 0
  <2>1. tied \in SUBSET Nat
    BY <1>2
  <2> QED
    BY <1>3, <2>1 DEF NewLoop, LoopRecs
<1>5. ASSUME NEW l \in Loops
      PROVE  /\ old[l] \in LoopRecs /\ old[l].header = m_loops[l].header
             /\ old[l].reducible = m_loops[l].reducible /\ old[l].body = m_loops[l].body
             /\ old[l].back_edges = m_loops[l].back_edges
             /\ old[l].inners = m_loops[l].inners
             /\ old[l].outer = IF l \in tied THEN root ELSE m_loops[l].outer
  <2> PICK r : r = m_loops[l]
    OBVIOUS
  <2>1. r \in LoopRecs /\ old[l] = IF l \in tied THEN [r EXCEPT !.outer = root] ELSE r
    BY <1>2
  <2>2. root \in Nat
    BY <1>2
  <2> HIDE DEF old
  <2> QED
    BY <2>1, <2>2 DEF LoopRecs
<1>6. old \in Seq(LoopRecs) /\ DOMAIN old = Loops /\ Len(old) = Len(m_loops)
  <2>1. DOMAIN old = 1 .. Len(m_loops) /\ \A l \in 1 .. Len(m_loops) : old[l] \in LoopRecs
    BY <1>2, <1>5
  <2>2. old = [l \in 1 .. Len(m_loops) |-> old[l]]
    BY <1>2
  <2> HIDE DEF old
  <2>3. old \in [1 .. Len(m_loops) -> LoopRecs]
    BY <2>1, <2>2
  <2>4. old \in Seq(LoopRecs)
    BY <1>2, <2>3
  <2> QED
    BY <1>2, <2>1, <2>3, <2>4
<1> HIDE DEF old, rec
<1>7. /\ m_loops' \in Seq(LoopRecs) /\ DOMAIN m_loops' = Loops \cup {root}
      /\ \A l \in Loops : m_loops'[l] = old[l]
      /\ m_loops'[root] = rec /\ root \notin Loops /\ Len(m_loops') = root
  <2>1. /\ m_loops' \in Seq(LoopRecs) /\ DOMAIN m_loops' = 1 .. Len(old) + 1
        /\ \A l \in DOMAIN old : m_loops'[l] = old[l]
        /\ m_loops'[Len(old) + 1] = rec
    BY <1>1, <1>4, <1>6, AppendMembers
  <2>2. Len(old) + 1 = root /\ 1 .. Len(old) + 1 = Loops \cup {root} /\ root \notin Loops
        /\ root \in Nat
    BY <1>2, <1>6
  <2>3. Len(m_loops') = root
    <3>1. Len(m_loops') \in Nat /\ DOMAIN m_loops' = 1 .. Len(m_loops')
      BY <2>1
    <3> QED
      BY <2>1, <2>2, <3>1
  <2> QED
    BY <1>6, <2>1, <2>2, <2>3
<1>8. Loops' = Loops \cup {root} /\ Root' = root
  BY <1>7 DEF Loops, Root
<1>9. /\ \A l : Body(l) = Members(m_loops[l].body) /\ Body(l)' = Members(m_loops'[l].body)
      /\ \A l : Latches(l) = m_loops[l].back_edges /\ Latches(l)' = m_loops'[l].back_edges
  BY DEF Body, Latches, Members
<1>10. \A l \in Loops : Stays(l) /\ Body(l)' = Body(l)
  BY <1>5, <1>7, <1>9 DEF Stays, Header, IsReducible
<1>11. /\ Header(root)' = NoNode /\ IsReducible(root)' = FALSE /\ Latches(root)' = {}
       /\ Body(root)' = Members(free_loop_nodes) \ DOMAIN loop_of
  BY <1>3, <1>4, <1>7, <1>9 DEF Header, IsReducible
<1>12. /\ DOMAIN loop_of' = DOMAIN loop_of \cup Members(left)
       /\ \A b \in DOMAIN loop_of : loop_of'[b] = loop_of[b]
       /\ \A b \in DOMAIN loop_of' \ DOMAIN loop_of : loop_of'[b] = root
       /\ loop_of' = [b \in DOMAIN loop_of' |-> loop_of'[b]]
  BY <1>1 DEF Members, HasLoop
<1>13. LoopsInv'
  <2>1. \A l \in Loops' : m_loops'[l].inners \subseteq Loops' /\ m_loops'[l].outer \in Loops' \cup {0}
    BY <1>4, <1>5, <1>7, <1>8 DEF LoopsInv
  <2>2. Members(left) \subseteq Nodes
    BY <1>3 DEF Members
  <2>3. loop_of' \in [DOMAIN loop_of' -> Loops'] /\ DOMAIN loop_of' \subseteq Nodes
    BY <1>8, <1>12, <2>2 DEF LoopsInv
  <2> QED
    BY <1>7, <2>1, <2>3 DEF LoopsInv
<1>14. Rooted(root)
  <2>1. DOMAIN loop_of' = DOMAIN loop_of \cup Members(free_loop_nodes)
    BY <1>3, <1>12
  <2> QED
    BY <1>7, <1>8, <1>10, <1>11, <1>12, <2>1 DEF Rooted
<1>15. RootTied(root)
  BY <1>4, <1>5, <1>7 DEF RootTied, Inners, Outer
<1> QED
  BY <1>13, <1>14, <1>15

-----------------------------------------------------------------------------
(* The types, and the steps by what they do to the loops.                  *)

QueuesInv ==
  /\ m_dfs_nodes \in Seq(DOMAIN loop_of) /\ free_loop_nodes \in Seq(Nodes)
  /\ m_marked \subseteq Nodes /\ sources \subseteq Nodes /\ todo \in Seq(Nodes)
  /\ loop_node \in Nat \ {0} /\ cur_loop \in Loops \cup {0}
  /\ cur_loop = 0 => todo = << >> /\ sources = {}
  /\ stage = "dom3" => /\ m_loops = << >> /\ DOMAIN loop_of = {}
                       /\ m_dfs_nodes = << >> /\ free_loop_nodes = << >>

\* The root loop is the only one without a header.
HeadersInv ==
  /\ \A l \in Loops : \/ Header(l) \in Nodes
                      \/ /\ stage = "done" /\ l = Root /\ Header(l) = NoNode
                         /\ IsReducible(l) = FALSE /\ Latches(l) = {}
  /\ stage = "done" => Root \in Loops /\ Header(Root) = NoNode

TypesInv == GraphInv /\ LoopsInv /\ QueuesInv /\ HeadersInv

LEMMA SearchFacts ==
  ASSUME GraphInv, stage # "dom3"
  PROVE  /\ P!S!BInv /\ succs \in Graphs /\ made \in MadeOrders /\ Closed
         /\ discovered \in Seq(Nodes) /\ finished \in Seq(Nodes)
         /\ Discovered \subseteq Reached /\ Reached \subseteq Nodes /\ Finished \subseteq Discovered
         /\ backEdges \subseteq Nodes \X Nodes
         /\ \A e \in backEdges : /\ e[1] \in Discovered /\ e[2] \in Discovered
                                 /\ IsEdge(succs, e[1], e[2])
<1>1. P!S!BInv /\ P!S!IInv /\ made \in MadeOrders /\ Closed
  BY DEF GraphInv, P!S!BInv
<1>2. /\ succs \in Graphs /\ discovered \in Seq(Nodes) /\ finished \in Seq(Nodes)
      /\ backEdges \subseteq Nodes \X Nodes
      /\ \A n \in Nodes : m_visited[n] \in {"WHITE", "GREY", "BLACK"}
  BY <1>1 DEF P!S!IInv, P!S!TypeOK
<1>3. P!S!Discovered = Discovered /\ P!S!Finished = Finished
  BY DEF P!S!Discovered, Discovered, P!S!Finished, Finished, P!S!Elements, Members
<1>4. Discovered \subseteq Nodes /\ Finished \subseteq Nodes
  BY <1>2 DEF Discovered, Finished, Members
<1>5. Discovered \subseteq Reached /\ Reached \subseteq Nodes
  <2>1. /\ Entry \in Reached /\ Reached \subseteq Nodes
        /\ \A u \in Reached : \A v : IsEdge(succs, u, v) => v \in Reached
    BY <1>1, <1>2, ReachedFacts
  <2>2. P!S!ClosedSet(Reached)
    BY <2>1 DEF P!S!ClosedSet, IsEdge
  <2> QED
    BY <1>1, <1>3, <2>1, <2>2 DEF P!S!IInv, P!S!OnlyReachable
<1>6. Finished \subseteq Discovered
  <2>1. \A n \in Nodes : m_visited[n] = "BLACK" => P!S!Known(n)
    BY DEF P!S!Known
  <2> QED
    BY <1>1, <1>3, <1>4, <2>1 DEF P!S!IInv, P!S!ColorsMatch
<1>7. \A e \in backEdges : e[1] \in Discovered /\ e[2] \in Discovered /\ IsEdge(succs, e[1], e[2])
  BY <1>1, <1>3, SameEdges DEF P!S!BInv, P!S!Reported
<1> QED
  BY <1>1, <1>2, <1>5, <1>6, <1>7

\* The search passes over a back edge.
Closes(src, dst) ==
  /\ stage = "edges" /\ stage' = "edges"
  /\ src \in Discovered /\ dst \in Discovered \ Finished /\ IsEdge(succs, src, dst)
  /\ \/ src = dst
     \/ /\ Earlier(dst, src)
        /\ \E c \in Nodes : IsEdge(succs, dst, c) /\ Earlier(dst, c)
  /\ backEdges' = backEdges \cup {<<src, dst>>}
  /\ UNCHANGED <<succs, discovered, finished, orders, walk>>
  /\ BackEdge(src, dst)

\* The search goes on, and closes no cycle.
GoesOn ==
  /\ stage = "edges" /\ stage' = "edges"
  /\ UNCHANGED <<succs, backEdges, loops, walk>>
  /\ \/ UNCHANGED <<finished, orders>>
     \/ \E n \in Nodes : finished' = Append(finished, n) /\ FinishNode(n)
  /\ \/ discovered' = discovered
     \/ \E n \in Nodes : discovered' = Append(discovered, n)

LEMMA SearchKinds ==
  ASSUME GraphInv, Search
  PROVE  GoesOn \/ \E src, dst \in Nodes : Closes(src, dst)
<1>1. /\ stage = "edges" /\ stage' = "edges" /\ UNCHANGED walk
      /\ P!S!BInv /\ Discovered \subseteq Nodes
      /\ discovered \in Seq(Nodes) /\ succs \in Graphs
  BY SearchFacts DEF Search
<1>2. CASE D!Start \/ D!Pop \/ D!Descend
  <2>1. UNCHANGED <<loops, orders>>
    <3>1. ~D!Scan /\ ~D!Finish
      BY <1>2, <1>1 DEF D!Start, D!Pop, D!Descend, D!Scan, D!Finish, P!S!BInv, P!S!IInv, P!S!Started
    <3> QED
      BY <3>1 DEF Search
  <2>2. UNCHANGED <<succs, backEdges, finished>>
    BY <1>2 DEF D!Start, D!Pop, D!Descend
  <2>3. discovered' = discovered \/ \E n \in Nodes : discovered' = Append(discovered, n)
    <3>1. CASE D!Start
      BY <3>1, DFSAssumption DEF D!Start, D!Visit
    <3>2. CASE D!Pop
      BY <3>2 DEF D!Pop
    <3>3. CASE D!Descend
      <4>1. P!S!Descend /\ P!S!IInv
        BY <1>1, <3>3, SearchSteps DEF P!S!BInv
      <4>2. P!S!Succ \in Nodes /\ P!S!Succ = D!Succ
        BY <4>1, DFSAssumption, TargetsAssumption, MadeAssumption, IdsAssumption,
           P!S!DescendStep DEF P!S!Succ, D!Succ
      <4> QED
        BY <3>3, <4>2 DEF D!Descend, D!Visit
    <3> QED
      BY <1>2, <3>1, <3>2, <3>3
  <2> QED
    BY <1>1, <2>1, <2>2, <2>3 DEF GoesOn
<1>3. CASE D!Finish
  <2>1. P!S!Finish /\ P!S!IInv
    BY <1>1, <1>3, SearchSteps DEF P!S!BInv
  <2>2. parent \in Nodes
    BY <2>1, DFSAssumption, TargetsAssumption, MadeAssumption, IdsAssumption, P!S!FinishStep
  <2>3. /\ UNCHANGED <<succs, backEdges, discovered>> /\ finished' = Append(finished, parent)
        /\ parent # NoNode /\ D!AtEnd
    BY <1>3 DEF D!Finish
  <2>4. FinishNode(parent) /\ UNCHANGED loops
    <3>1. ~D!Start /\ ~D!Pop /\ ~D!Descend /\ ~D!Scan
      BY <1>1, <2>3 DEF D!Start, D!Pop, D!Descend, D!Scan, P!S!BInv, P!S!IInv, P!S!Started
    <3> QED
      BY <3>1 DEF Search
  <2> QED
    BY <1>1, <2>2, <2>3, <2>4 DEF GoesOn
<1>4. CASE D!Scan
  <2>1. P!S!Scan /\ P!S!BInv /\ P!S!IInv
    BY <1>1, <1>4, SearchSteps DEF P!S!BInv
  <2>2. /\ UNCHANGED <<succs, finished, discovered>>
        /\ backEdges' = IF D!IsOpen(D!Succ) THEN backEdges \cup {<<parent, D!Succ>>} ELSE backEdges
        /\ parent # NoNode /\ ~D!AtEnd /\ D!Known(D!Succ)
    BY <1>4 DEF D!Scan
  <2>3. /\ IF D!IsOpen(D!Succ) THEN BackEdge(parent, D!Succ) ELSE UNCHANGED loops
        /\ UNCHANGED orders
    <3>1. ~D!Start /\ ~D!Pop /\ ~D!Descend /\ ~D!Finish
      BY <1>1, <2>2 DEF D!Start, D!Pop, D!Descend, D!Finish, P!S!BInv, P!S!IInv, P!S!Started
    <3> QED
      BY <3>1 DEF Search
  <2>4. CASE ~D!IsOpen(D!Succ)
    BY <1>1, <2>2, <2>3, <2>4 DEF GoesOn
  <2>5. CASE D!IsOpen(D!Succ)
    <3>1. P!S!Succ = D!Succ /\ P!S!IsOpen(P!S!Succ)
      BY <2>5 DEF P!S!Succ, D!Succ, P!S!IsOpen, D!IsOpen
    <3>2. /\ parent \in P!S!Discovered /\ P!S!Succ \in P!S!Discovered
          /\ P!S!IsEdge(succs, parent, P!S!Succ)
          /\ \/ parent = P!S!Succ
             \/ /\ P!S!Before(discovered, P!S!Succ, parent)
                /\ \E c \in Nodes : /\ P!S!IsEdge(succs, P!S!Succ, c)
                                    /\ P!S!Before(discovered, P!S!Succ, c)
      BY <2>1, <3>1, DFSAssumption, TargetsAssumption, MadeAssumption, IdsAssumption,
         P!S!OpenSuccessor
    <3>3. P!S!Discovered = Discovered
      BY DEF P!S!Discovered, Discovered, P!S!Elements, Members
    <3>4. \A u, v : P!S!Before(discovered, u, v) <=> Earlier(u, v)
      BY DEF P!S!Before, Earlier
    <3> PICK src, dst : src = parent /\ dst = D!Succ
      OBVIOUS
    <3>5. Closes(src, dst)
      <4>1. BackEdge(src, dst) /\ backEdges' = backEdges \cup {<<src, dst>>}
        BY <2>2, <2>3, <2>5
      <4>2. /\ src \in Discovered /\ dst \in Discovered /\ IsEdge(succs, src, dst)
            /\ \/ src = dst
               \/ /\ Earlier(dst, src)
                  /\ \E c \in Nodes : IsEdge(succs, dst, c) /\ Earlier(dst, c)
        BY <3>1, <3>2, <3>3, <3>4, SameEdges
      <4>3. dst \notin Finished
        <5>1. P!S!ColorsMatch /\ m_visited[dst] = "GREY" /\ dst \in Nodes
          BY <1>1, <2>1, <2>5, <4>2 DEF D!IsOpen, P!S!IInv
        <5>2. P!S!Finished = Finished
          BY DEF P!S!Finished, Finished, P!S!Elements, Members
        <5> QED
          BY <5>1, <5>2 DEF P!S!ColorsMatch
      <4> QED
        BY <1>1, <2>2, <2>3, <4>1, <4>2, <4>3 DEF Closes
    <3> QED
      BY <1>1, <3>5 DEF Closes
  <2> QED
    BY <2>4, <2>5
<1> QED
  BY <1>2, <1>3, <1>4 DEF Search

LEMMA SubSeqs ==
  ASSUME NEW S, NEW U, S \subseteq U, NEW s \in Seq(S)
  PROVE  s \in Seq(U)
  OBVIOUS

\* A step of populate_loops that leaves the loops as they are.
Walks ==
  /\ Collected \/ EnterReducible \/ NextSource \/ SkipMarked \/ LeaveReducible
  /\ stage \in {"edges", "populate"} /\ stage' = "populate"
  /\ UNCHANGED <<search, domtree, loops>>

\* loop_search comes to the block b.
Comes(b) ==
  /\ b \in Nodes /\ stage = "populate" /\ stage' = "populate" /\ cur_loop \in Loops
  /\ SearchBlock /\ b = Head(todo) /\ todo # << >> /\ b \notin m_marked /\ Took(b) /\ Tied(b)
  /\ UNCHANGED <<search, domtree, orders, cur_loop>>

\* An irreducible loop takes its latches.
Takes(l) ==
  /\ l \in Loops /\ ~IsReducible(l) /\ stage = "populate" /\ stage' = "populate"
  /\ UNCHANGED <<search, domtree, m_loops, orders, m_marked, cur_loop, sources, todo>>
  /\ DOMAIN loop_of' = DOMAIN loop_of
  /\ \A b \in DOMAIN loop_of : loop_of'[b] = IF b \in Latches(l) THEN l ELSE loop_of[b]

\* init_root_loop makes root.
Roots(root) ==
  /\ stage = "populate" /\ stage' = "done" /\ cur_loop = 0
  /\ UNCHANGED <<search, domtree, orders, walk>> /\ Rooted(root) /\ RootTied(root)

LEMMA StepKinds ==
  ASSUME TypesInv, Step
  PROVE  /\ LoopsInv'
         /\ \/ BuildDomTree \/ CollectBackEdges \/ GoesOn
            \/ \E src, dst \in Nodes : Closes(src, dst) /\ \E cur : Filed(src, dst, cur)
            \/ Walks
            \/ \E l : Takes(l) /\ TakeLatches
            \/ \E b : Comes(b)
            \/ \E root : Roots(root)
<1> USE DEF TypesInv
<1>1. UNCHANGED loops => LoopsInv'
  BY DEF loops, LoopsInv, Loops
<1>2. CASE BuildDomTree \/ CollectBackEdges
  BY <1>1, <1>2 DEF BuildDomTree, CollectBackEdges
<1>3. CASE Search
  <2>1. CASE GoesOn
    BY <1>1, <2>1 DEF GoesOn
  <2>2. ASSUME NEW src \in Nodes, NEW dst \in Nodes, Closes(src, dst)
        PROVE  LoopsInv' /\ \E cur : Filed(src, dst, cur)
    <3>1. BackEdge(src, dst)
      BY <2>2 DEF Closes
    <3> QED
      BY <3>1, BackEdgeEffect
  <2> QED
    BY <1>3, <2>1, <2>2, SearchKinds
<1>4. CASE Collected \/ EnterReducible \/ NextSource \/ SkipMarked \/ LeaveReducible
  <2>1. cur_loop # 0 => stage = "populate"
    BY DEF GraphInv
  <2>2. CASE Collected
    BY <2>2, <1>1 DEF Collected, Walks
  <2>3. CASE EnterReducible
    BY <2>3, <1>1 DEF EnterReducible, Walks
  <2>4. CASE NextSource \/ SkipMarked \/ LeaveReducible
    <3>1. cur_loop # 0 /\ UNCHANGED <<search, domtree, stage, loops>>
      BY <2>4 DEF NextSource, SkipMarked, LeaveReducible
    <3> QED
      BY <1>1, <2>1, <2>4, <3>1 DEF Walks
  <2> QED
    BY <1>4, <2>2, <2>3, <2>4
<1>5. CASE TakeLatches
  <2> PICK l : l = loop_of[m_dfs_nodes[loop_node]]
    OBVIOUS
  <2>1. /\ ~IsReducible(l) /\ stage = "populate"
        /\ loop_of' = [b \in DOMAIN loop_of |-> IF b \in Latches(l) THEN l ELSE loop_of[b]]
        /\ UNCHANGED <<search, domtree, stage, m_loops, orders, m_marked, cur_loop, sources, todo>>
        /\ loop_node <= Len(m_dfs_nodes)
    BY <1>5 DEF TakeLatches, IsReducible, Latches
  <2>2. l \in Loops
    <3>1. loop_node \in DOMAIN m_dfs_nodes
      BY <2>1 DEF QueuesInv
    <3>2. m_dfs_nodes[loop_node] \in DOMAIN loop_of
      BY <3>1 DEF QueuesInv
    <3> QED
      BY <3>2 DEF LoopsInv
  <2>3. Takes(l)
    BY <2>1, <2>2 DEF Takes
  <2>4. LoopsInv'
    <3>1. /\ DOMAIN loop_of' = DOMAIN loop_of /\ \A b \in DOMAIN loop_of' : loop_of'[b] \in Loops
          /\ loop_of' = [b \in DOMAIN loop_of' |-> loop_of'[b]]
      BY <2>1, <2>2 DEF LoopsInv
    <3> QED
      BY <2>1, <3>1 DEF LoopsInv, Loops
  <2> QED
    BY <1>5, <2>3, <2>4
<1>6. CASE SearchBlock
  <2> PICK b : b = Head(todo)
    OBVIOUS
  <2>1. /\ cur_loop # 0 /\ todo # << >> /\ b \notin m_marked
        /\ UNCHANGED <<search, domtree, stage, orders, cur_loop>>
    BY <1>6 DEF SearchBlock
  <2>2. stage = "populate" /\ cur_loop \in Loops /\ todo \in Seq(Nodes)
    BY <2>1 DEF GraphInv, QueuesInv
  <2>3. b \in Nodes
    BY <2>1, <2>2
  <2>4. LoopsInv' /\ Took(b) /\ Tied(b)
    BY <1>6, <2>2, <2>3, SearchBlockEffect
  <2>5. Comes(b)
    BY <1>6, <2>1, <2>2, <2>3, <2>4 DEF Comes
  <2> QED
    BY <2>4, <2>5
<1>7. CASE InitRootLoop
  <2>1. LoopsInv' /\ \E root : Rooted(root) /\ RootTied(root)
    BY <1>7, InitRootLoopEffect DEF QueuesInv
  <2>2. /\ stage = "populate" /\ stage' = "done" /\ cur_loop = 0
        /\ UNCHANGED <<search, domtree, orders, walk>>
    BY <1>7 DEF InitRootLoop
  <2> QED
    BY <2>1, <2>2 DEF Roots
<1> QED
  BY <1>2, <1>3, <1>4, <1>5, <1>6, <1>7 DEF Step

LEMMA FinishQueues ==
  ASSUME QueuesInv, NEW n \in Nodes, FinishNode(n)
  PROVE  m_dfs_nodes' \in Seq(DOMAIN loop_of) /\ free_loop_nodes' \in Seq(Nodes)
<1>1. CASE HasLoop(n)
  <2>1. m_dfs_nodes' = Append(m_dfs_nodes, n) /\ free_loop_nodes' = free_loop_nodes
    BY <1>1 DEF FinishNode
  <2>2. n \in DOMAIN loop_of /\ m_dfs_nodes \in Seq(DOMAIN loop_of)
    BY <1>1 DEF HasLoop, QueuesInv
  <2> QED
    BY <2>1, <2>2, AppendMembers DEF QueuesInv
<1>2. CASE ~HasLoop(n)
  <2>1. free_loop_nodes' = Append(free_loop_nodes, n) /\ m_dfs_nodes' = m_dfs_nodes
    BY <1>2 DEF FinishNode
  <2> QED
    BY <2>1, AppendMembers DEF QueuesInv
<1> QED
  BY <1>1, <1>2

LEMMA WalkQueues ==
  ASSUME TypesInv, Walks
  PROVE  QueuesInv'
<1> USE DEF TypesInv
<1>1. UNCHANGED loops /\ Loops' = Loops /\ stage' # "dom3"
  BY DEF Walks, loops, Loops
<1>2. /\ m_dfs_nodes \in Seq(DOMAIN loop_of) /\ free_loop_nodes \in Seq(Nodes)
      /\ m_marked \subseteq Nodes /\ sources \subseteq Nodes /\ todo \in Seq(Nodes)
      /\ loop_node \in Nat \ {0} /\ cur_loop \in Loops \cup {0}
      /\ cur_loop = 0 => todo = << >> /\ sources = {}
  BY DEF QueuesInv
<1>3. CASE Collected
  <2>1. m_dfs_nodes' \in Seq(DOMAIN loop_of)
    <3> PICK s, S, n : s = m_dfs_nodes /\ S = DOMAIN loop_of /\ n = Len(m_dfs_nodes)
      OBVIOUS
    <3>1. s \in Seq(S) /\ n \in Nat /\ DOMAIN s = 1 .. n /\ Len(s) = n
      BY <1>2
    <3>2. m_dfs_nodes' = [i \in 1 .. n |-> s[n + 1 - i]]
      BY <1>3, <3>1 DEF Collected
    <3>3. \A i \in 1 .. n : n + 1 - i \in 1 .. n
      BY <3>1
    <3>4. \A i \in 1 .. n : s[n + 1 - i] \in S
      BY <3>1, <3>3
    <3>5. [i \in 1 .. n |-> s[n + 1 - i]] \in [1 .. n -> S]
      BY <3>4
    <3> QED
      BY <3>1, <3>2, <3>5
  <2> QED
    BY <1>1, <1>2, <1>3, <2>1 DEF Collected, QueuesInv, loops, walk
<1>4. CASE EnterReducible
  <2> PICK l : l = loop_of[m_dfs_nodes[loop_node]]
    OBVIOUS
  <2>1. /\ IsReducible(l) /\ cur_loop' = l /\ m_marked' = m_marked \cup {Header(l)}
        /\ sources' = Latches(l) /\ UNCHANGED <<orders, loop_node, todo>>
        /\ loop_node <= Len(m_dfs_nodes) /\ stage = "populate" /\ cur_loop = 0
    BY <1>4 DEF EnterReducible, IsReducible, Fenced, Header, Latches
  <2>2. l \in Loops
    <3>1. loop_node \in DOMAIN m_dfs_nodes
      BY <1>2, <2>1
    <3>2. m_dfs_nodes[loop_node] \in DOMAIN loop_of
      BY <1>2, <3>1
    <3> QED
      BY <3>2 DEF LoopsInv
  <2>3. Header(l) \in Nodes /\ Latches(l) \subseteq Nodes
    <3>1. m_loops[l] \in LoopRecs
      BY <2>2 DEF LoopsInv, Loops
    <3> QED
      BY <2>1, <2>2, <3>1 DEF HeadersInv, LoopRecs, Latches
  <2>4. l # 0 /\ m_marked' \subseteq Nodes
    BY <1>2, <2>1, <2>2, <2>3 DEF LoopsInv, Loops
  <2>5. UNCHANGED <<m_dfs_nodes, free_loop_nodes, m_loops, loop_of>>
    BY <1>1, <2>1 DEF loops, orders
  <2> QED
    BY <1>1, <1>2, <2>1, <2>2, <2>3, <2>4, <2>5 DEF QueuesInv
<1>5. CASE NextSource
  BY <1>1, <1>2, <1>5 DEF NextSource, QueuesInv, loops, orders
<1>6. CASE SkipMarked
  <2>1. Tail(todo) \in Seq(Nodes)
    BY <1>2, <1>6 DEF SkipMarked
  <2> QED
    BY <1>1, <1>2, <1>6, <2>1 DEF SkipMarked, QueuesInv, loops, orders
<1>7. CASE LeaveReducible
  BY <1>1, <1>2, <1>7 DEF LeaveReducible, QueuesInv, loops, orders
<1> QED
  BY <1>3, <1>4, <1>5, <1>6, <1>7 DEF Walks

LEMMA NextQueues ==
  ASSUME TypesInv, Step
  PROVE  QueuesInv'
<1> USE DEF TypesInv
<1>1. /\ m_dfs_nodes \in Seq(DOMAIN loop_of) /\ free_loop_nodes \in Seq(Nodes)
      /\ m_marked \subseteq Nodes /\ sources \subseteq Nodes /\ todo \in Seq(Nodes)
      /\ loop_node \in Nat \ {0} /\ cur_loop \in Loops \cup {0}
      /\ cur_loop = 0 => todo = << >> /\ sources = {}
      /\ stage = "dom3" => /\ m_loops = << >> /\ DOMAIN loop_of = {}
                           /\ m_dfs_nodes = << >> /\ free_loop_nodes = << >>
  BY DEF QueuesInv
<1>2. CASE BuildDomTree \/ CollectBackEdges
  <2>1. stage = "dom3" /\ UNCHANGED <<loops, orders, walk>>
    BY <1>2 DEF BuildDomTree, CollectBackEdges
  <2> QED
    BY <1>1, <2>1 DEF QueuesInv, loops, orders, walk, Loops
<1>3. CASE GoesOn
  <2>1. UNCHANGED <<loops, walk>> /\ stage' # "dom3"
    BY <1>3 DEF GoesOn
  <2>2. m_dfs_nodes' \in Seq(DOMAIN loop_of) /\ free_loop_nodes' \in Seq(Nodes)
    <3>1. CASE UNCHANGED orders
      BY <1>1, <3>1 DEF orders
    <3>2. CASE \E n \in Nodes : FinishNode(n)
      BY <3>2, FinishQueues
    <3> QED
      BY <1>3, <3>1, <3>2 DEF GoesOn
  <2> QED
    BY <1>1, <2>1, <2>2 DEF QueuesInv, loops, walk, Loops
<1>4. ASSUME NEW src \in Nodes, NEW dst \in Nodes, NEW cur, Closes(src, dst), Filed(src, dst, cur)
      PROVE  QueuesInv'
  <2>1. UNCHANGED <<orders, walk>> /\ stage' # "dom3"
    BY <1>4 DEF Closes
  <2>2. Loops \subseteq Loops' /\ DOMAIN loop_of \subseteq DOMAIN loop_of'
    BY <1>4 DEF Filed
  <2>3. m_dfs_nodes \in Seq(DOMAIN loop_of')
    BY <1>1, <2>2, SubSeqs
  <2> QED
    BY <1>1, <2>1, <2>2, <2>3 DEF QueuesInv, orders, walk
<1>5. CASE Walks
  BY <1>5, WalkQueues
<1>6. ASSUME NEW l, Takes(l), TakeLatches
      PROVE  QueuesInv'
  <2>1. /\ UNCHANGED <<m_loops, orders, m_marked, cur_loop, sources, todo>>
        /\ stage' # "dom3" /\ DOMAIN loop_of' = DOMAIN loop_of
    BY <1>6 DEF Takes
  <2>2. loop_node' = loop_node + 1
    BY <1>6 DEF TakeLatches
  <2> QED
    BY <1>1, <2>1, <2>2 DEF QueuesInv, orders, Loops
<1>7. ASSUME NEW b, Comes(b)
      PROVE  QueuesInv'
  <2>1. /\ b \in Nodes /\ SearchBlock /\ b = Head(todo) /\ todo # << >> /\ stage = "populate"
        /\ cur_loop \in Loops /\ stage' = "populate" /\ UNCHANGED <<orders, cur_loop>>
        /\ Loops' = Loops /\ DOMAIN loop_of \subseteq DOMAIN loop_of'
    BY <1>7 DEF Comes, Took
  <2>2. /\ m_marked' = m_marked \cup {b} /\ todo' = m_preds(succs, made, b) \o Tail(todo)
        /\ UNCHANGED <<loop_node, sources>>
    BY <2>1 DEF SearchBlock, Marked
  <2>3. todo' \in Seq(Nodes)
    <3> PICK p : p = m_preds(succs, made, b)
      OBVIOUS
    <3>1. p \in Seq(Nodes)
      BY <2>1, SearchFacts, PredsFacts
    <3>2. Tail(todo) \in Seq(Nodes)
      BY <1>1, <2>1
    <3>3. p \o Tail(todo) \in Seq(Nodes)
      BY <3>1, <3>2
    <3> QED
      BY <2>2, <3>3
  <2>4. m_dfs_nodes \in Seq(DOMAIN loop_of')
    BY <1>1, <2>1, SubSeqs
  <2>5. cur_loop # 0
    BY <2>1 DEF Loops, LoopsInv
  <2> QED
    BY <1>1, <2>1, <2>2, <2>3, <2>4, <2>5 DEF QueuesInv, orders
<1>8. ASSUME NEW root, Roots(root)
      PROVE  QueuesInv'
  <2>1. /\ UNCHANGED <<orders, walk>> /\ stage' # "dom3"
        /\ Loops \subseteq Loops' /\ DOMAIN loop_of \subseteq DOMAIN loop_of'
    BY <1>8 DEF Roots, Rooted
  <2>2. m_dfs_nodes \in Seq(DOMAIN loop_of')
    BY <1>1, <2>1, SubSeqs
  <2> QED
    BY <1>1, <2>1, <2>2 DEF QueuesInv, orders, walk
<1> QED
  BY <1>2, <1>3, <1>4, <1>5, <1>6, <1>7, <1>8, StepKinds

LEMMA NextHeaders ==
  ASSUME TypesInv, Step
  PROVE  HeadersInv'
<1> USE DEF TypesInv
<1>0. stage # "done" => \A l \in Loops : Header(l) \in Nodes
  BY DEF HeadersInv
<1>1. CASE BuildDomTree \/ CollectBackEdges \/ GoesOn \/ Walks
  <2>1. stage # "done" /\ stage' # "done" /\ UNCHANGED m_loops
    BY <1>1 DEF BuildDomTree, CollectBackEdges, GoesOn, Walks, loops
  <2> QED
    BY <1>0, <2>1 DEF HeadersInv, Header, Loops
<1>2. ASSUME NEW src \in Nodes, NEW dst \in Nodes, NEW cur, Closes(src, dst), Filed(src, dst, cur)
      PROVE  HeadersInv'
  <2>1. stage # "done" /\ stage' # "done"
    BY <1>2 DEF Closes
  <2>2. \A l \in Loops' : Header(l)' \in Nodes
    BY <1>0, <1>2, <2>1 DEF Filed
  <2> QED
    BY <2>1, <2>2 DEF HeadersInv
<1>3. ASSUME NEW l, Takes(l)
      PROVE  HeadersInv'
  <2>1. stage # "done" /\ stage' # "done" /\ UNCHANGED m_loops
    BY <1>3 DEF Takes
  <2> QED
    BY <1>0, <2>1 DEF HeadersInv, Header, Loops
<1>4. ASSUME NEW b, Comes(b)
      PROVE  HeadersInv'
  <2>1. stage # "done" /\ stage' # "done" /\ Loops' = Loops /\ \A l \in Loops : Header(l)' = Header(l)
    BY <1>4 DEF Comes, Took, Stays
  <2> QED
    BY <1>0, <2>1 DEF HeadersInv
<1>5. ASSUME NEW root, Roots(root)
      PROVE  HeadersInv'
  <2>1. /\ stage # "done" /\ stage' = "done"
        /\ Loops' = Loops \cup {root} /\ root = Root'
        /\ \A l \in Loops : Header(l)' = Header(l)
        /\ Header(root)' = NoNode /\ IsReducible(root)' = FALSE /\ Latches(root)' = {}
    BY <1>5 DEF Roots, Rooted, Stays
  <2>2. \A l \in Loops : Header(l)' \in Nodes
    BY <1>0, <2>1
  <2>3. Header(Root)' = NoNode
    BY <2>1 DEF Header
  <2> QED
    BY <2>1, <2>2, <2>3 DEF HeadersInv
<1> QED
  BY <1>1, <1>2, <1>3, <1>4, <1>5, StepKinds

LEMMA NextTypes == TypesInv /\ [Next]_vars => TypesInv'
<1> SUFFICES ASSUME TypesInv, [Next]_vars PROVE TypesInv'
  OBVIOUS
<1>1. CASE Step
  BY <1>1, NextGraph, StepKinds, NextQueues, NextHeaders DEF TypesInv
<1>2. CASE UNCHANGED vars
  <2>1. UNCHANGED <<search, domtree, stage, loops, orders, walk>>
    BY <1>2 DEF vars
  <2>2. GraphInv'
    <3>1. P!IInv /\ P!ArrivedInv => P!IInv' /\ P!ArrivedInv'
      <4>1. UNCHANGED P!vars
        BY <2>1 DEF P!vars, P!search, search, domtree
      <4> QED
        BY <4>1, DFSAssumption, TargetsAssumption, MadeAssumption, IdsAssumption,
           P!NextIInv, P!NextArrived
    <3>2. P!S!BInv => P!S!BInv' /\ (Closed => Closed') /\ (D!Stopped => D!Stopped')
      BY <2>1, SameSearch
    <3> QED
      BY <2>1, <3>1, <3>2 DEF TypesInv, GraphInv, domtree, walk
  <2>3. LoopsInv' /\ QueuesInv'
    BY <2>1 DEF TypesInv, LoopsInv, QueuesInv, loops, orders, walk, Loops
  <2>4. HeadersInv'
    BY <2>1 DEF TypesInv, HeadersInv, loops, Header, IsReducible, Latches, Root, Loops
  <2> QED
    BY <2>2, <2>3, <2>4 DEF TypesInv
<1> QED
  BY <1>1, <1>2 DEF Next, Done

LEMMA InitTypes == Init => TypesInv
<1> SUFFICES ASSUME Init PROVE TypesInv
  OBVIOUS
<1>1. /\ T!Init /\ stage = "dom3" /\ m_loops = << >> /\ loop_of = [b \in {} |-> 0]
      /\ m_dfs_nodes = << >> /\ free_loop_nodes = << >>
      /\ m_marked = {} /\ loop_node = 1 /\ cur_loop = 0 /\ sources = {} /\ todo = << >>
  BY DEF Init
<1>2. P!Init
  BY <1>1 DEF T!Init, P!Init, T!D!Init, P!D!Init
<1>3. P!IInv /\ P!ArrivedInv
  <2>1. P!IInv
    BY <1>2, DFSAssumption, TargetsAssumption, MadeAssumption, IdsAssumption, P!InitIInv
  <2>2. P!ArrivedInv
    BY <1>2 DEF P!Init, P!ArrivedInv, P!Working, P!Building
  <2> QED
    BY <2>1, <2>2
<1>4. GraphInv
  BY <1>1, <1>3 DEF GraphInv, P!IInv, P!SearchInv
<1>5. LoopsInv /\ Loops = {} /\ DOMAIN loop_of = {}
  BY <1>1 DEF LoopsInv, Loops
<1>6. QueuesInv
  BY <1>1, <1>5 DEF QueuesInv
<1>7. HeadersInv
  BY <1>1, <1>5 DEF HeadersInv
<1> QED
  BY <1>4, <1>5, <1>6, <1>7 DEF TypesInv

(* Every variable of the loop tree builder has its type, whatever the      *)
(* graph: a loop lists inner loops and an outer loop that are there, and   *)
(* every block that is asked for its loop has one.                         *)
THEOREM LoopTypesCorrect == Spec => []TypeOK
<1>1. TypesInv => TypeOK
  <2> SUFFICES ASSUME TypesInv PROVE TypeOK
    OBVIOUS
  <2> DEFINE R == [header : Nodes \cup {NoNode}, reducible : BOOLEAN, root : BOOLEAN,
                   body : Seq(Nodes), back_edges : SUBSET Nodes,
                   inners : SUBSET Loops, outer : Loops \cup {0}]
  <2>1. m_loops \in Seq(LoopRecs) /\ Len(m_loops) \in Nat /\ Loops = 1 .. Len(m_loops)
    BY DEF TypesInv, LoopsInv, Loops
  <2>2. \A l \in Loops : m_loops[l] \in R
    <3> TAKE l \in Loops
    <3> PICK r : r = m_loops[l]
      OBVIOUS
    <3>1. r \in LoopRecs /\ r.inners \in SUBSET Loops /\ r.outer \in Loops \cup {0}
      BY <2>1 DEF TypesInv, LoopsInv
    <3>2. r \in R
      BY <3>1 DEF LoopRecs
    <3> QED
      BY <3>2
  <2>3. m_loops \in Seq(R)
    <3> HIDE DEF R
    <3>1. m_loops \in [1 .. Len(m_loops) -> R]
      BY <2>1, <2>2
    <3> QED
      BY <2>1, <3>1
  <2> QED
    BY <2>3 DEF TypeOK, TypesInv, GraphInv, LoopsInv, QueuesInv
<1> QED
  BY <1>1, InitTypes, NextTypes, PTL DEF Spec


-----------------------------------------------------------------------------
(* How headers, bodies and m_data belong together.                         *)

In(b, l) == b \in DOMAIN loop_of /\ loop_of[b] = l

BooksInv ==
  /\ \A l \in Loops : Header(l) \in Nodes => Header(l) \in DOMAIN loop_of
  /\ \A l, m \in Loops : Header(l) = Header(m) => l = m
  /\ \A l \in Loops : Latches(l) \subseteq Body(l) /\ Body(l) \subseteq DOMAIN loop_of
  /\ \A b, l : In(b, l) => Header(l) = b \/ b \in Body(l)

\* A step that leaves the loops as they are.
Keeps ==
  \/ /\ stage = "dom3" /\ stage' \in {"dom3", "edges"}
     /\ Loops = {} /\ DOMAIN loop_of = {} /\ UNCHANGED loops
  \/ GoesOn
  \/ Walks

LEMMA Keepers ==
  ASSUME TypesInv
  PROVE  /\ BuildDomTree \/ CollectBackEdges \/ GoesOn \/ Walks => Keeps
         /\ Keeps => UNCHANGED loops /\ Loops' = Loops /\ stage # "done" /\ stage' # "done"
         /\ Keeps => \A l : /\ Header(l)' = Header(l) /\ IsReducible(l)' = IsReducible(l)
                            /\ Latches(l)' = Latches(l) /\ Body(l)' = Body(l)
<1>1. BuildDomTree \/ CollectBackEdges \/ GoesOn \/ Walks => Keeps
  BY DEF Keeps, TypesInv, QueuesInv, BuildDomTree, CollectBackEdges, Loops
<1>2. Keeps => UNCHANGED loops /\ stage # "done" /\ stage' # "done"
  BY DEF Keeps, GoesOn, Walks
<1>3. UNCHANGED loops => Loops' = Loops
  BY DEF loops, Loops
<1>4. UNCHANGED loops => \A l : /\ Header(l)' = Header(l) /\ IsReducible(l)' = IsReducible(l)
                                /\ Latches(l)' = Latches(l) /\ Body(l)' = Body(l)
  BY DEF loops, Header, IsReducible, Latches, Body, Members
<1> QED
  BY <1>1, <1>2, <1>3, <1>4

LEMMA NextBooks ==
  ASSUME TypesInv, BooksInv, Step
  PROVE  BooksInv'
<1>1. CASE Keeps
  <2>1. /\ loop_of' = loop_of /\ Loops' = Loops
        /\ \A l : Header(l)' = Header(l) /\ Latches(l)' = Latches(l) /\ Body(l)' = Body(l)
    BY <1>1, Keepers DEF loops
  <2>2. \A b, l : In(b, l)' <=> In(b, l)
    BY <2>1 DEF In
  <2> QED
    BY <2>1, <2>2 DEF BooksInv
<1>2. ASSUME NEW src \in Nodes, NEW dst \in Nodes, NEW cur, Closes(src, dst), Filed(src, dst, cur)
      PROVE  BooksInv'
  <2>1. \A l \in Loops : Header(l) \in Nodes /\ Header(l) \in DOMAIN loop_of
    BY <1>2 DEF TypesInv, HeadersInv, BooksInv, Closes
  <2>2. \A l \in Loops' : Header(l)' \in Nodes /\ Header(l)' \in DOMAIN loop_of'
    BY <1>2, <2>1 DEF Filed
  <2>3. \A l, m \in Loops' : Header(l)' = Header(m)' => l = m
    <3>1. \A l \in Loops : cur \notin Loops => Header(l)' # Header(cur)'
      BY <1>2, <2>1 DEF Filed, HasLoop
    <3> QED
      BY <1>2, <3>1 DEF Filed, BooksInv
  <2>4. \A l \in Loops' : Latches(l)' \subseteq Body(l)' /\ Body(l)' \subseteq DOMAIN loop_of'
    BY <1>2 DEF Filed, BooksInv
  <2>5. ASSUME NEW b, NEW l, In(b, l)'
        PROVE  Header(l)' = b \/ b \in Body(l)'
    <3>0. b \in DOMAIN loop_of' /\ l = loop_of'[b]
      BY <2>5 DEF In
    <3>1. CASE b = src
      <4>1. l = cur /\ b \in Body(cur)'
        BY <1>2, <3>0, <3>1 DEF Filed
      <4> QED
        BY <4>1
    <3>2. CASE b \in DOMAIN loop_of /\ b # src
      <4>1. In(b, l) /\ l \in Loops
        BY <1>2, <3>0, <3>2 DEF Filed, TypesInv, LoopsInv, In
      <4>2. Header(l) = b \/ b \in Body(l)
        BY <4>1 DEF BooksInv
      <4>3. Header(l)' = Header(l) /\ Body(l) \subseteq Body(l)'
        BY <1>2, <4>1 DEF Filed
      <4> QED
        BY <4>2, <4>3
    <3>3. CASE b = dst /\ ~HasLoop(dst)
      <4>1. l = cur /\ Header(cur)' = dst
        BY <1>2, <3>0, <3>3 DEF Filed, HasLoop
      <4> QED
        BY <3>3, <4>1
    <3> QED
      BY <1>2, <3>0, <3>1, <3>2, <3>3 DEF Filed, HasLoop
  <2> QED
    BY <2>2, <2>3, <2>4, <2>5 DEF BooksInv
<1>3. ASSUME NEW l, Takes(l)
      PROVE  BooksInv'
  <2>1. /\ DOMAIN loop_of' = DOMAIN loop_of /\ l \in Loops
        /\ \A b, m : In(b, m)' => In(b, m) \/ (m = l /\ b \in Latches(l))
    BY <1>3 DEF Takes, In
  <2>2. /\ Loops' = Loops
        /\ \A m : Header(m)' = Header(m) /\ Latches(m)' = Latches(m) /\ Body(m)' = Body(m)
    BY <1>3 DEF Takes, Loops, Header, Latches, Body, Members
  <2> QED
    BY <2>1, <2>2 DEF BooksInv
<1>4. ASSUME NEW b, Comes(b)
      PROVE  BooksInv'
  <2>1. /\ Loops' = Loops /\ cur_loop \in Loops
        /\ \A l \in Loops : Header(l)' = Header(l) /\ Latches(l)' = Latches(l)
    BY <1>4 DEF Comes, Took, Stays
  <2>2. CASE HasLoop(b)
    <3>1. loop_of' = loop_of /\ \A l \in Loops : Body(l)' = Body(l)
      BY <1>4, <2>2 DEF Comes, Took
    <3>2. \A c, l : In(c, l)' => In(c, l) /\ l \in Loops
      BY <3>1 DEF In, TypesInv, LoopsInv
    <3> QED
      BY <2>1, <3>1, <3>2 DEF BooksInv
  <2>3. CASE ~HasLoop(b)
    <3>1. /\ DOMAIN loop_of' = DOMAIN loop_of \cup {b}
          /\ \A c, l : In(c, l)' => (In(c, l) /\ l \in Loops) \/ (c = b /\ l = cur_loop)
          /\ \A l \in Loops : Body(l)' = IF l = cur_loop THEN Body(l) \cup {b} ELSE Body(l)
      BY <1>4, <2>3 DEF Comes, Took, In, TypesInv, LoopsInv
    <3> QED
      BY <2>1, <3>1 DEF BooksInv
  <2> QED
    BY <2>2, <2>3
<1>5. ASSUME NEW root, Roots(root)
      PROVE  BooksInv'
  <2>1. \A l \in Loops : Header(l) \in Nodes
    BY <1>5 DEF Roots, TypesInv, HeadersInv
  <2>2. /\ root \notin Loops /\ Loops' = Loops \cup {root}
        /\ \A l \in Loops : Header(l)' = Header(l) /\ Latches(l)' = Latches(l) /\ Body(l)' = Body(l)
        /\ Header(root)' = NoNode /\ Latches(root)' = {}
        /\ Body(root)' = Members(free_loop_nodes) \ DOMAIN loop_of
        /\ DOMAIN loop_of' = DOMAIN loop_of \cup Members(free_loop_nodes)
        /\ \A b, l : In(b, l)' =>
             \/ In(b, l) /\ l \in Loops
             \/ b \in Members(free_loop_nodes) \ DOMAIN loop_of /\ l = root
    BY <1>5 DEF Roots, Rooted, Stays, In, TypesInv, LoopsInv
  <2>3. NoNode \notin Nodes
    BY DFSAssumption
  <2> QED
    BY <2>1, <2>2, <2>3 DEF BooksInv
<1> QED
  BY <1>1, <1>2, <1>3, <1>4, <1>5, StepKinds, Keepers

-----------------------------------------------------------------------------
(* Where a block stands in the search that makes the loops.                *)

EdgeBack(s) == \E h : IsEdge(succs, s, h) /\ Earlier(h, s)
EdgeOn(s) == \E c : IsEdge(succs, s, c) /\ Earlier(s, c)

\* While the loops are made: a block is in a loop whose header is on the path.
UnderHeader ==
  stage = "edges" => /\ \A b, l : In(b, l) => Header(l) = b \/ Earlier(Header(l), b)
                     /\ \A l \in Loops : Body(l) = Latches(l)
LatchEdges == \A l \in Loops : \A s \in Latches(l) : s = Header(l) \/ EdgeBack(s)
OthersAreIn ==
  \A l \in Loops : \A s \in Body(l) \ Latches(l) : In(s, l) /\ \A m \in Loops : s \notin Latches(m)
IrreducibleEdges == \A l \in Loops : ~IsReducible(l) /\ Header(l) \in Nodes => EdgeOn(Header(l))
OwnLatch == \A l \in Loops : Header(l) \in Latches(l) => IsEdge(succs, Header(l), Header(l))

\* A header in the body of another loop is in that loop.
HeadersAtHome == \A l, m : \A s \in Body(l) :
                   l \in Loops /\ In(s, m) /\ Header(m) = s => m = l

OrderInv == /\ UnderHeader /\ LatchEdges /\ OthersAreIn
            /\ IrreducibleEdges /\ OwnLatch /\ HeadersAtHome

LEMMA EarlierIsOrder ==
  ASSUME P!S!BInv
  PROVE  /\ \A u, v : ~(Earlier(u, v) /\ Earlier(v, u))
         /\ \A u : ~Earlier(u, u)
         /\ \A u, v, w : Earlier(u, v) /\ Earlier(v, w) => Earlier(u, w)
<1>1. /\ discovered \in Seq(Nodes)
      /\ \A i, j \in DOMAIN discovered : discovered[i] = discovered[j] => i = j
  BY DEF P!S!BInv, P!S!IInv, P!S!TypeOK, P!S!VisitedOnce, P!S!Once
<1>2. DOMAIN discovered \subseteq Nat
  BY <1>1
<1>3. ASSUME NEW u, NEW v, NEW w, Earlier(u, v), Earlier(v, w)
      PROVE  Earlier(u, w) /\ u # w
  <2>1. PICK i, j \in DOMAIN discovered : i < j /\ discovered[i] = u /\ discovered[j] = v
    BY <1>3 DEF Earlier
  <2>2. PICK k, m \in DOMAIN discovered : k < m /\ discovered[k] = v /\ discovered[m] = w
    BY <1>3 DEF Earlier
  <2>3. k = j
    BY <1>1, <2>1, <2>2
  <2>4. i < m
    BY <1>2, <2>1, <2>2, <2>3
  <2>5. u # w
    BY <1>1, <1>2, <2>1, <2>2, <2>4
  <2> QED
    BY <2>1, <2>2, <2>4, <2>5 DEF Earlier
<1>4. \A u : ~Earlier(u, u)
  BY <1>1, <1>2 DEF Earlier
<1> QED
  BY <1>3, <1>4

LEMMA ThreeTargets ==
  ASSUME GraphInv, stage # "dom3", NEW s \in Nodes,
         IsEdge(succs, s, s), EdgeBack(s), EdgeOn(s)
  PROVE  FALSE
<1>1. P!S!BInv /\ succs \in Graphs /\ made \in MadeOrders
  BY SearchFacts
<1>2. DOMAIN succs[s] \subseteq {1, 2}
  BY <1>1, GraphFacts
<1>3. PICK h, c : /\ IsEdge(succs, s, h) /\ Earlier(h, s)
                  /\ IsEdge(succs, s, c) /\ Earlier(s, c)
  BY DEF EdgeBack, EdgeOn
<1>4. h # s /\ c # s /\ h # c
  BY <1>1, <1>3, EarlierIsOrder
<1> QED
  BY <1>2, <1>3, <1>4 DEF IsEdge

\* Discovering more keeps what is known of the order.
LEMMA LaterKnown ==
  ASSUME GraphInv, stage # "dom3", succs' = succs,
         discovered' = discovered \/ \E n \in Nodes : discovered' = Append(discovered, n)
  PROVE  /\ \A u, v : Earlier(u, v) => Earlier(u, v)'
         /\ \A s : EdgeBack(s) => EdgeBack(s)'
         /\ \A s : EdgeOn(s) => EdgeOn(s)'
<1>1. discovered \in Seq(Nodes)
  BY SearchFacts
<1>2. /\ DOMAIN discovered \subseteq DOMAIN discovered'
      /\ \A i \in DOMAIN discovered : discovered'[i] = discovered[i]
  <2>1. CASE discovered' = discovered
    BY <2>1
  <2>2. ASSUME NEW n \in Nodes, discovered' = Append(discovered, n)
        PROVE  <1>2!1 /\ <1>2!2
    <3>1. /\ DOMAIN discovered = 1 .. Len(discovered) /\ Len(discovered) \in Nat
          /\ DOMAIN discovered' = 1 .. Len(discovered) + 1
          /\ \A i \in DOMAIN discovered : discovered'[i] = discovered[i]
      BY <1>1, <2>2, AppendMembers
    <3> QED
      BY <3>1
  <2> QED
    BY <2>1, <2>2
<1>3. \A u, v : Earlier(u, v) => Earlier(u, v)'
  BY <1>2 DEF Earlier
<1> QED
  BY <1>3 DEF EdgeBack, EdgeOn

LEMMA OrderSame ==
  ASSUME TypesInv, OrderInv, UNCHANGED succs, UNCHANGED loops,
         stage' = "edges" => stage = "edges",
         \A u, v : Earlier(u, v) => Earlier(u, v)'
  PROVE  OrderInv'
<1>1. /\ Loops' = Loops /\ loop_of' = loop_of
      /\ \A l : /\ Header(l)' = Header(l) /\ IsReducible(l)' = IsReducible(l)
                /\ Latches(l)' = Latches(l) /\ Body(l)' = Body(l)
  BY DEF loops, Loops, Header, IsReducible, Latches, Body, Members
<1>2. \A b, l : In(b, l)' <=> In(b, l)
  BY <1>1 DEF In
<1>3. \A s : (EdgeBack(s) => EdgeBack(s)') /\ (EdgeOn(s) => EdgeOn(s)')
  BY DEF EdgeBack, EdgeOn
<1>4. \A s : IsEdge(succs', s, s) <=> IsEdge(succs, s, s)
  OBVIOUS
<1>5. UnderHeader'
  BY <1>1, <1>2 DEF OrderInv, UnderHeader
<1>6. LatchEdges' /\ IrreducibleEdges'
  BY <1>1, <1>3 DEF OrderInv, LatchEdges, IrreducibleEdges
<1>7. OthersAreIn'
  BY <1>1, <1>2 DEF OrderInv, OthersAreIn
<1>8. OwnLatch'
  BY <1>1, <1>4 DEF OrderInv, OwnLatch
<1>9. HeadersAtHome'
  BY <1>1, <1>2 DEF OrderInv, HeadersAtHome
<1> QED
  BY <1>5, <1>6, <1>7, <1>8, <1>9 DEF OrderInv

LEMMA OrderClosed ==
  ASSUME TypesInv, BooksInv, OrderInv, NEW src \in Nodes, NEW dst \in Nodes, NEW cur,
         Closes(src, dst), Filed(src, dst, cur)
  PROVE  OrderInv'
<1>1. /\ stage = "edges" /\ stage' = "edges" /\ IsEdge(succs, src, dst)
      /\ src = dst \/ (Earlier(dst, src) /\ EdgeOn(dst))
      /\ succs' = succs /\ discovered' = discovered
  BY DEF Closes, EdgeOn
<1>2. /\ \A u, v : Earlier(u, v)' <=> Earlier(u, v)
      /\ \A s : (EdgeBack(s)' <=> EdgeBack(s)) /\ (EdgeOn(s)' <=> EdgeOn(s))
  <2>1. \A u, v : Earlier(u, v)' <=> Earlier(u, v)
    BY <1>1 DEF Earlier
  <2> QED
    BY <1>1, <2>1 DEF EdgeBack, EdgeOn
<1>3. /\ \A u, v : ~(Earlier(u, v) /\ Earlier(v, u))
      /\ \A u : ~Earlier(u, u)
      /\ \A u, v, w : Earlier(u, v) /\ Earlier(v, w) => Earlier(u, w)
  <2>1. P!S!BInv
    BY <1>1, SearchFacts DEF TypesInv
  <2> QED
    BY <2>1, EarlierIsOrder
<1>4. /\ \A b, l : In(b, l) => l \in Loops /\ (Header(l) = b \/ Earlier(Header(l), b))
      /\ \A l \in Loops : Body(l) = Latches(l)
      /\ \A l \in Loops : Header(l) \in Nodes /\ Header(l) \in DOMAIN loop_of
      /\ \A l \in Loops : Body(l) \subseteq DOMAIN loop_of
  BY <1>1 DEF OrderInv, UnderHeader, TypesInv, LoopsInv, HeadersInv, BooksInv, In
<1>5. /\ HasLoop(dst) => In(dst, cur) /\ cur \in Loops
      /\ cur \notin Loops <=> dst \notin DOMAIN loop_of
      /\ Loops' = Loops \cup {cur}
      /\ \A l \in Loops : Header(l)' = Header(l) /\ IsReducible(l)' = IsReducible(l)
      /\ \A l \in Loops \ {cur} : Body(l)' = Body(l) /\ Latches(l)' = Latches(l)
      /\ cur \in Loops => Body(cur)' = Body(cur) \cup {src} /\ Latches(cur)' = Latches(cur) \cup {src}
      /\ cur \notin Loops => /\ Header(cur)' = dst /\ IsReducible(cur)' = T!dominates(dst, src)
                             /\ Body(cur)' = {src} /\ Latches(cur)' = {src}
  BY DEF Filed, HasLoop, In
<1>6. \A b, l : In(b, l)' => \/ b \in {src, dst} /\ l = cur
                             \/ In(b, l) /\ b # src
  BY DEF Filed, In
<1>7. Header(cur)' = dst \/ Earlier(Header(cur)', dst)
  <2> PICK h : h = Header(cur)'
    OBVIOUS
  <2>1. cur \in Loops => h = Header(cur)
    BY <1>5
  <2>2. cur \in Loops => In(dst, cur)
    BY <1>5 DEF HasLoop
  <2> QED
    BY <1>4, <1>5, <2>1, <2>2
<1>8. Header(cur)' = src \/ Earlier(Header(cur)', src)
  BY <1>1, <1>3, <1>7
<1>9. UnderHeader'
  <2>1. ASSUME NEW b, NEW l, In(b, l)'
        PROVE  Header(l)' = b \/ Earlier(Header(l)', b)
    <3>1. CASE b \in {src, dst} /\ l = cur
      BY <1>7, <1>8, <3>1
    <3>2. CASE In(b, l) /\ b # src
      BY <1>4, <1>5, <3>2
    <3> QED
      BY <1>6, <2>1, <3>1, <3>2
  <2>2. \A l \in Loops' : Body(l)' = Latches(l)'
    BY <1>4, <1>5
  <2> QED
    BY <1>2, <2>1, <2>2 DEF UnderHeader
<1>10. LatchEdges'
  <2>1. src = Header(cur)' \/ EdgeBack(src)
    <3>1. CASE src # dst
      BY <1>1, <3>1 DEF EdgeBack
    <3>2. CASE src = dst /\ Header(cur)' # dst
      <4>1. cur \in Loops /\ In(dst, cur) /\ Header(cur) # dst
        BY <1>5, <3>2 DEF HasLoop
      <4>2. dst \in Latches(cur)
        BY <1>4, <4>1 DEF BooksInv
      <4> QED
        BY <3>2, <4>1, <4>2 DEF OrderInv, LatchEdges
    <3> QED
      BY <3>1, <3>2
  <2>2. \A l \in Loops' : \A s \in Latches(l)' :
          (s = src /\ l = cur) \/ (l \in Loops /\ s \in Latches(l))
    BY <1>5
  <2>3. \A l \in Loops' : \A s \in Latches(l)' : s = Header(l)' \/ EdgeBack(s)
    BY <1>5, <2>1, <2>2 DEF OrderInv, LatchEdges
  <2> QED
    BY <1>2, <2>3 DEF LatchEdges
<1>11. OthersAreIn'
  <2>1. \A l \in Loops' : Body(l)' = Latches(l)'
    BY <1>4, <1>5
  <2> QED
    BY <2>1 DEF OthersAreIn
<1>12. IrreducibleEdges'
  <2>1. cur \notin Loops /\ ~IsReducible(cur)' => EdgeOn(dst)
    <3>1. T!dominates(dst, dst)
      <4>1. P!dominates(dst, dst)
        BY DFSAssumption, TargetsAssumption, MadeAssumption, IdsAssumption,
           P!DominatesItself DEF TypesInv, GraphInv
      <4>2. P!Cardinality(Nodes) = T!Cardinality(Nodes)
        BY DEF P!Cardinality, T!Cardinality
      <4> QED
        BY <4>1, <4>2 DEF P!dominates, T!dominates
    <3>2. cur \notin Loops /\ ~IsReducible(cur)' => ~T!dominates(dst, src)
      BY <1>5
    <3> QED
      BY <1>1, <3>1, <3>2
  <2>2. \A l \in Loops' : ~IsReducible(l)' /\ Header(l)' \in Nodes => EdgeOn(Header(l)')
    BY <1>5, <2>1 DEF OrderInv, IrreducibleEdges
  <2> QED
    BY <1>2, <2>2 DEF IrreducibleEdges
<1>13. OwnLatch'
  <2>1. src = Header(cur)' => IsEdge(succs, src, src)
    <3>1. src # dst => ~Earlier(src, dst)
      BY <1>1, <1>3
    <3> QED
      BY <1>1, <1>7, <3>1
  <2>2. \A l \in Loops' : Header(l)' \in Latches(l)' =>
          (l = cur /\ Header(l)' = src) \/ (l \in Loops /\ Header(l)' = Header(l) /\ Header(l) \in Latches(l))
    BY <1>5
  <2>3. \A l \in Loops' : Header(l)' \in Latches(l)' => IsEdge(succs, Header(l)', Header(l)')
    BY <2>1, <2>2 DEF OrderInv, OwnLatch
  <2> QED
    BY <1>1, <2>3 DEF OwnLatch
<1>14. HeadersAtHome'
  <2>1. ASSUME NEW l \in Loops', NEW m, NEW s \in Body(l)', In(s, m)', Header(m)' = s
        PROVE  m = l
    <3>1. m \in Loops' /\ (\/ s \in {src, dst} /\ m = cur
                           \/ In(s, m) /\ s # src)
      BY <1>4, <1>5, <1>6, <2>1
    <3>2. (s = src /\ l = cur) \/ (l \in Loops /\ s \in Body(l) /\ s \in DOMAIN loop_of)
      BY <1>4, <1>5, <2>1
    <3>3. CASE In(s, m) /\ s # src
      <4>1. m \in Loops /\ Header(m) = s /\ l \in Loops /\ s \in Body(l)
        BY <1>4, <1>5, <2>1, <3>2, <3>3
      <4> QED
        BY <3>3, <4>1 DEF OrderInv, HeadersAtHome
    <3>4. CASE s \in {src, dst} /\ m = cur /\ l # cur
      <4>1. l \in Loops /\ s \in Body(l) /\ s \in DOMAIN loop_of
        BY <3>2, <3>4
      <4>2. s = dst
        <5>1. src # dst => ~Earlier(src, dst)
          BY <1>1, <1>3
        <5> QED
          BY <1>7, <2>1, <3>4, <5>1
      <4>3. In(dst, cur) /\ cur \in Loops /\ Header(cur) = dst
        BY <1>5, <2>1, <3>4, <4>1, <4>2 DEF HasLoop
      <4>4. cur = l
        BY <4>1, <4>2, <4>3 DEF OrderInv, HeadersAtHome
      <4> QED
        BY <3>4, <4>4
    <3> QED
      BY <3>1, <3>3, <3>4
  <2> QED
    BY <2>1 DEF HeadersAtHome
<1> QED
  BY <1>9, <1>10, <1>11, <1>12, <1>13, <1>14 DEF OrderInv

\* The parts of OrderInv that do not depend on m_data and the bodies.
LEMMA OrderFixed ==
  ASSUME TypesInv, OrderInv, UNCHANGED search, stage' # "edges", Loops' = Loops,
         \A l \in Loops : Stays(l)
  PROVE  /\ UnderHeader' /\ LatchEdges' /\ IrreducibleEdges' /\ OwnLatch'
         /\ \A s : (EdgeBack(s)' <=> EdgeBack(s)) /\ (EdgeOn(s)' <=> EdgeOn(s))
<1>1. succs' = succs /\ discovered' = discovered
  BY DEF search
<1>2. \A u, v : Earlier(u, v)' <=> Earlier(u, v)
  BY <1>1 DEF Earlier
<1>3. \A s : (EdgeBack(s)' <=> EdgeBack(s)) /\ (EdgeOn(s)' <=> EdgeOn(s))
  BY <1>1, <1>2 DEF EdgeBack, EdgeOn
<1>4. \A l \in Loops : /\ Header(l)' = Header(l) /\ IsReducible(l)' = IsReducible(l)
                       /\ Latches(l)' = Latches(l)
  BY DEF Stays
<1>5. UnderHeader'
  BY DEF UnderHeader
<1>6. LatchEdges' /\ IrreducibleEdges'
  BY <1>3, <1>4 DEF OrderInv, LatchEdges, IrreducibleEdges
<1>7. OwnLatch'
  BY <1>1, <1>4 DEF OrderInv, OwnLatch
<1> QED
  BY <1>3, <1>5, <1>6, <1>7

LEMMA OrderTakes ==
  ASSUME TypesInv, BooksInv, OrderInv, NEW k, Takes(k)
  PROVE  OrderInv'
<1>1. /\ UNCHANGED <<search, m_loops>> /\ stage' # "edges" /\ stage # "dom3" /\ k \in Loops
      /\ ~IsReducible(k)
      /\ \A b, m : In(b, m)' <=> /\ b \in DOMAIN loop_of
                                 /\ IF b \in Latches(k) THEN m = k ELSE In(b, m)
  BY DEF Takes, In
<1>2. /\ Loops' = Loops
      /\ \A l : Stays(l) /\ Header(l)' = Header(l) /\ Latches(l)' = Latches(l) /\ Body(l)' = Body(l)
  BY <1>1 DEF Loops, Header, Latches, Body, Members, Stays, IsReducible
<1>3. UnderHeader' /\ LatchEdges' /\ IrreducibleEdges' /\ OwnLatch'
  BY <1>1, <1>2, OrderFixed
<1>4. OthersAreIn'
  <2>1. \A l \in Loops : \A s \in Body(l) \ Latches(l) : In(s, l)'
    BY <1>1 DEF OrderInv, OthersAreIn, In
  <2> QED
    BY <1>2, <2>1 DEF OrderInv, OthersAreIn
<1>5. HeadersAtHome'
  <2>1. ASSUME NEW l \in Loops, NEW m, NEW s \in Body(l), In(s, m)', Header(m) = s
        PROVE  m = l
    <3>1. CASE In(s, m)
      BY <2>1, <3>1 DEF OrderInv, HeadersAtHome
    <3>2. CASE m = k /\ s \in Latches(k) /\ l # k
      <4>1. Header(k) = s /\ Header(l) # s /\ s \in Nodes
        <5>1. s \in DOMAIN loop_of
          BY <1>1, <2>1
        <5> QED
          BY <1>1, <2>1, <3>2, <5>1 DEF BooksInv, TypesInv, LoopsInv
      <4>2. IsEdge(succs, s, s) /\ EdgeOn(s)
        BY <1>1, <3>2, <4>1 DEF OrderInv, OwnLatch, IrreducibleEdges
      <4>3. EdgeBack(s)
        <5>1. s \in Latches(l)
          BY <1>1, <3>2 DEF OrderInv, OthersAreIn
        <5> QED
          BY <4>1, <5>1 DEF OrderInv, LatchEdges
      <4> QED
        BY <1>1, <4>1, <4>2, <4>3, ThreeTargets DEF TypesInv
    <3> QED
      BY <1>1, <2>1, <3>1, <3>2
  <2> QED
    BY <1>2, <2>1 DEF HeadersAtHome
<1> QED
  BY <1>3, <1>4, <1>5 DEF OrderInv

LEMMA OrderComes ==
  ASSUME TypesInv, BooksInv, OrderInv, NEW b, Comes(b)
  PROVE  OrderInv'
<1>1. /\ UNCHANGED search /\ stage' # "edges" /\ Loops' = Loops /\ cur_loop \in Loops
      /\ \A l \in Loops : Stays(l) /\ Header(l)' = Header(l) /\ Latches(l)' = Latches(l)
  BY DEF Comes, Took, Stays
<1>2. UnderHeader' /\ LatchEdges' /\ IrreducibleEdges' /\ OwnLatch'
  BY <1>1, OrderFixed
<1>3. CASE HasLoop(b)
  <2>1. (\A s, m : In(s, m)' <=> In(s, m)) /\ \A l \in Loops : Body(l)' = Body(l)
    BY <1>3 DEF Comes, Took, In
  <2>2. \A s, m : In(s, m) => m \in Loops
    BY DEF TypesInv, LoopsInv, In
  <2>3. OthersAreIn'
    BY <1>1, <2>1 DEF OrderInv, OthersAreIn
  <2>4. HeadersAtHome'
    BY <1>1, <2>1, <2>2 DEF OrderInv, HeadersAtHome
  <2> QED
    BY <1>2, <2>3, <2>4 DEF OrderInv
<1>4. CASE ~HasLoop(b)
  <2>1. /\ \A s, m : In(s, m)' <=> In(s, m) \/ (s = b /\ m = cur_loop)
        /\ \A l \in Loops : Body(l)' = IF l = cur_loop THEN Body(l) \cup {b} ELSE Body(l)
        /\ b \notin DOMAIN loop_of
    BY <1>4 DEF Comes, Took, In, HasLoop
  <2>2. \A s, m : In(s, m) => m \in Loops /\ s # b
    BY <2>1 DEF TypesInv, LoopsInv, In
  <2>3. \A l \in Loops : b \notin Body(l) /\ b \notin Latches(l)
    BY <2>1 DEF BooksInv
  <2>4. OthersAreIn'
    BY <1>1, <2>1, <2>3 DEF OrderInv, OthersAreIn
  <2>5. HeadersAtHome'
    <3>1. ASSUME NEW l \in Loops, NEW m, NEW s \in Body(l)', In(s, m)', Header(m)' = s
          PROVE  m = l
      <4>1. CASE s = b
        <5>1. m = cur_loop /\ l = cur_loop
          BY <2>1, <2>2, <2>3, <3>1, <4>1
        <5> QED
          BY <5>1
      <4>2. CASE s # b
        <5>1. In(s, m) /\ m \in Loops /\ s \in Body(l) /\ Header(m) = s
          BY <1>1, <2>1, <2>2, <3>1, <4>2
        <5> QED
          BY <5>1 DEF OrderInv, HeadersAtHome
      <4> QED
        BY <4>1, <4>2
    <3> QED
      BY <1>1, <3>1 DEF HeadersAtHome
  <2> QED
    BY <1>2, <2>4, <2>5 DEF OrderInv
<1> QED
  BY <1>3, <1>4

LEMMA OrderRoots ==
  ASSUME TypesInv, BooksInv, OrderInv, NEW root, Roots(root)
  PROVE  OrderInv'
<1>1. /\ UNCHANGED search /\ stage # "done" /\ stage' = "done"
      /\ root \notin Loops /\ Loops' = Loops \cup {root}
      /\ \A l \in Loops : /\ Header(l)' = Header(l) /\ IsReducible(l)' = IsReducible(l)
                          /\ Latches(l)' = Latches(l) /\ Body(l)' = Body(l)
      /\ Header(root)' = NoNode /\ Latches(root)' = {}
      /\ Body(root)' = Members(free_loop_nodes) \ DOMAIN loop_of
  BY DEF Roots, Rooted, Stays
<1>2. \A b, l : In(b, l)' <=> \/ In(b, l)
                              \/ b \in Members(free_loop_nodes) \ DOMAIN loop_of /\ l = root
  BY DEF Roots, Rooted, In
<1>3. /\ NoNode \notin Nodes /\ Members(free_loop_nodes) \subseteq Nodes
      /\ \A s, m : In(s, m) => m \in Loops /\ s \in DOMAIN loop_of
      /\ \A l \in Loops : Latches(l) \subseteq DOMAIN loop_of /\ Body(l) \subseteq DOMAIN loop_of
  BY DFSAssumption DEF TypesInv, LoopsInv, QueuesInv, In, BooksInv, Members
<1>4. succs' = succs /\ discovered' = discovered
  BY <1>1 DEF search
<1>5. \A s : (EdgeBack(s)' <=> EdgeBack(s)) /\ (EdgeOn(s)' <=> EdgeOn(s))
  <2>1. \A u, v : Earlier(u, v)' <=> Earlier(u, v)
    BY <1>4 DEF Earlier
  <2> QED
    BY <1>4, <2>1 DEF EdgeBack, EdgeOn
<1>6. UnderHeader'
  BY <1>1 DEF UnderHeader
<1>7. LatchEdges' /\ IrreducibleEdges'
  BY <1>1, <1>3, <1>5 DEF OrderInv, LatchEdges, IrreducibleEdges
<1>8. OwnLatch'
  BY <1>1, <1>4 DEF OrderInv, OwnLatch
<1>9. OthersAreIn'
  <2>1. ASSUME NEW l \in Loops', NEW s \in Body(l)' \ Latches(l)'
        PROVE  In(s, l)' /\ \A m \in Loops' : s \notin Latches(m)'
    <3>1. CASE l \in Loops
      BY <1>1, <1>2, <2>1, <3>1 DEF OrderInv, OthersAreIn
    <3>2. CASE l = root
      BY <1>1, <1>2, <1>3, <2>1, <3>2
    <3> QED
      BY <1>1, <3>1, <3>2
  <2> QED
    BY <2>1 DEF OthersAreIn
<1>10. HeadersAtHome'
  <2>1. ASSUME NEW l \in Loops', NEW m, NEW s \in Body(l)', In(s, m)', Header(m)' = s
        PROVE  m = l
    <3>1. s \in Nodes
      BY <1>2, <1>3, <2>1 DEF TypesInv, LoopsInv
    <3>2. m # root
      BY <1>1, <1>3, <2>1, <3>1
    <3>3. In(s, m) /\ m \in Loops /\ Header(m) = s
      BY <1>1, <1>2, <1>3, <2>1, <3>2
    <3>4. l \in Loops /\ s \in Body(l)
      BY <1>1, <1>3, <2>1, <3>3
    <3> QED
      BY <3>3, <3>4 DEF OrderInv, HeadersAtHome
  <2> QED
    BY <2>1 DEF HeadersAtHome
<1> QED
  BY <1>6, <1>7, <1>8, <1>9, <1>10 DEF OrderInv

LEMMA NextOrder ==
  ASSUME TypesInv, BooksInv, OrderInv, Step
  PROVE  OrderInv'
<1>1. CASE BuildDomTree \/ CollectBackEdges
  <2>1. UNCHANGED loops /\ Loops = {} /\ DOMAIN loop_of = {}
    BY <1>1 DEF BuildDomTree, CollectBackEdges, TypesInv, QueuesInv, Loops
  <2>2. Loops' = {} /\ \A b, l : ~In(b, l)'
    BY <2>1 DEF loops, Loops, In
  <2> QED
    BY <2>2 DEF OrderInv, UnderHeader, LatchEdges, OthersAreIn, IrreducibleEdges, OwnLatch,
                HeadersAtHome
<1>2. CASE GoesOn
  <2>1. /\ UNCHANGED <<succs, loops>> /\ stage = "edges"
        /\ discovered' = discovered \/ \E n \in Nodes : discovered' = Append(discovered, n)
    BY <1>2 DEF GoesOn
  <2>2. \A u, v : Earlier(u, v) => Earlier(u, v)'
    BY <2>1, LaterKnown DEF TypesInv
  <2> QED
    BY <2>1, <2>2, OrderSame
<1>3. CASE Walks
  <2>1. UNCHANGED <<succs, loops, discovered>> /\ stage' # "edges"
    BY <1>3 DEF Walks, search
  <2>2. \A u, v : Earlier(u, v) => Earlier(u, v)'
    BY <2>1 DEF Earlier
  <2> QED
    BY <2>1, <2>2, OrderSame
<1> QED
  BY <1>1, <1>2, <1>3, StepKinds, OrderClosed, OrderTakes, OrderComes, OrderRoots

-----------------------------------------------------------------------------
(* Every reached block gets a loop, and no other does.                     *)

ReachInv ==
  /\ DOMAIN loop_of \subseteq Reached /\ sources \subseteq Reached /\ Members(todo) \subseteq Reached
  /\ stage # "dom3" => Finished = Members(m_dfs_nodes) \cup Members(free_loop_nodes)
  /\ stage = "done" => Reached \subseteq DOMAIN loop_of

LEMMA FinishedFiled ==
  ASSUME TypesInv, ReachInv, GoesOn
  PROVE  Finished' = Members(m_dfs_nodes)' \cup Members(free_loop_nodes)'
<1>1. /\ stage = "edges" /\ finished \in Seq(Nodes)
      /\ Finished = Members(m_dfs_nodes) \cup Members(free_loop_nodes)
      /\ m_dfs_nodes \in Seq(DOMAIN loop_of) /\ free_loop_nodes \in Seq(Nodes)
  BY SearchFacts DEF GoesOn, TypesInv, QueuesInv, ReachInv
<1>2. CASE UNCHANGED <<finished, orders>>
  BY <1>1, <1>2 DEF orders, Finished, Members
<1>3. ASSUME NEW n \in Nodes, finished' = Append(finished, n), FinishNode(n)
      PROVE  Finished' = Members(m_dfs_nodes)' \cup Members(free_loop_nodes)'
  <2>1. Members(finished') = Members(finished) \cup {n}
    BY <1>1, <1>3, AppendMembers
  <2>2. Members(m_dfs_nodes') \cup Members(free_loop_nodes')
          = Members(m_dfs_nodes) \cup Members(free_loop_nodes) \cup {n}
    <3>1. CASE HasLoop(n)
      <4>1. m_dfs_nodes' = Append(m_dfs_nodes, n) /\ free_loop_nodes' = free_loop_nodes
            /\ n \in DOMAIN loop_of
        BY <1>3, <3>1 DEF FinishNode, HasLoop
      <4>2. Members(m_dfs_nodes') = Members(m_dfs_nodes) \cup {n}
        BY <1>1, <4>1, AppendMembers
      <4> QED
        BY <4>1, <4>2
    <3>2. CASE ~HasLoop(n)
      <4>1. free_loop_nodes' = Append(free_loop_nodes, n) /\ m_dfs_nodes' = m_dfs_nodes
        BY <1>3, <3>2 DEF FinishNode
      <4>2. Members(free_loop_nodes') = Members(free_loop_nodes) \cup {n}
        BY <1>1, <4>1, AppendMembers
      <4> QED
        BY <4>1, <4>2
    <3> QED
      BY <3>1, <3>2
  <2>3. /\ Finished' = Members(finished') /\ Finished = Members(finished)
        /\ Members(m_dfs_nodes)' = Members(m_dfs_nodes')
        /\ Members(free_loop_nodes)' = Members(free_loop_nodes')
    BY DEF Finished, Members
  <2> QED
    BY <1>1, <2>1, <2>2, <2>3
<1> QED
  BY <1>2, <1>3 DEF GoesOn

LEMMA SameReached ==
  ASSUME succs' = succs
  PROVE  Reached' = Reached
  BY DEF Reached

LEMMA Reversed ==
  ASSUME NEW n \in Nat, NEW s, DOMAIN s = 1 .. n, NEW t, t = [i \in DOMAIN s |-> s[n + 1 - i]]
  PROVE  Members(t) = Members(s) /\ DOMAIN t = 1 .. n
<1>1. \A i \in 1 .. n : n + 1 - i \in 1 .. n /\ n + 1 - (n + 1 - i) = i
  OBVIOUS
<1>2. \A i \in 1 .. n : t[i] = s[n + 1 - i] /\ s[i] = t[n + 1 - i]
  BY <1>1
<1>3. DOMAIN t = 1 .. n
  OBVIOUS
<1> QED
  BY <1>1, <1>2, <1>3 DEF Members

LEMMA CollectedMembers ==
  ASSUME QueuesInv, Collected
  PROVE  Members(m_dfs_nodes') = Members(m_dfs_nodes)
<1>1. Len(m_dfs_nodes) \in Nat /\ DOMAIN m_dfs_nodes = 1 .. Len(m_dfs_nodes)
  BY DEF QueuesInv
<1> QED
  BY <1>1, Reversed DEF Collected

LEMMA WalkReach ==
  ASSUME TypesInv, BooksInv, ReachInv, Walks
  PROVE  ReachInv'
<1>1. UNCHANGED search /\ UNCHANGED loops /\ Reached' = Reached /\ stage' = "populate"
      /\ stage # "dom3" /\ Finished' = Finished
  BY SameReached DEF Walks, search, Finished, Members
<1>2. DOMAIN loop_of' \subseteq Reached'
  BY <1>1 DEF ReachInv, loops
<1>3. CASE Collected
  <2>1. Members(m_dfs_nodes') = Members(m_dfs_nodes)
    BY <1>3, CollectedMembers DEF TypesInv
  <2>2. Members(m_dfs_nodes)' = Members(m_dfs_nodes')
    BY DEF Members
  <2>3. UNCHANGED <<free_loop_nodes, sources, todo>>
    BY <1>3 DEF Collected, walk
  <2> QED
    BY <1>1, <1>2, <2>1, <2>2, <2>3 DEF ReachInv, Members
<1> SUFFICES ASSUME ~Collected PROVE ReachInv'
  BY <1>3
<1>4. UNCHANGED orders
  BY DEF Walks, EnterReducible, NextSource, SkipMarked, LeaveReducible
<1>5. sources' \subseteq Reached /\ Members(todo') \subseteq Reached
  <2>1. CASE EnterReducible
    <3> PICK l : l = loop_of[m_dfs_nodes[loop_node]]
      OBVIOUS
    <3>1. sources' = Latches(l) /\ todo' = todo /\ loop_node <= Len(m_dfs_nodes)
      BY <2>1 DEF EnterReducible, Latches
    <3>2. loop_node \in DOMAIN m_dfs_nodes
      BY <3>1 DEF TypesInv, QueuesInv
    <3>3. l \in Loops
      BY <3>2 DEF TypesInv, QueuesInv, LoopsInv
    <3> QED
      BY <3>1, <3>3 DEF BooksInv, ReachInv
  <2>2. CASE NextSource
    <3>1. PICK s \in sources : todo' = <<s>> /\ sources' = sources \ {s}
      BY <2>2 DEF NextSource
    <3>2. Members(todo') = {s}
      BY <3>1 DEF Members
    <3> QED
      BY <3>1, <3>2 DEF ReachInv
  <2>3. CASE SkipMarked
    <3>1. todo \in Seq(Nodes) /\ todo # << >> /\ todo' = Tail(todo) /\ sources' = sources
      BY <2>3 DEF SkipMarked, TypesInv, QueuesInv
    <3>2. Members(Tail(todo)) \subseteq Members(todo)
      <4>1. \A i \in DOMAIN Tail(todo) : i + 1 \in DOMAIN todo /\ Tail(todo)[i] = todo[i + 1]
        BY <3>1
      <4> QED
        BY <4>1 DEF Members
    <3> QED
      BY <3>1, <3>2 DEF ReachInv
  <2>4. CASE LeaveReducible
    BY <2>4 DEF LeaveReducible, ReachInv
  <2> QED
    BY <2>1, <2>2, <2>3, <2>4 DEF Walks
<1>6. Members(todo)' = Members(todo')
  BY DEF Members
<1>7. /\ Members(m_dfs_nodes)' = Members(m_dfs_nodes)
      /\ Members(free_loop_nodes)' = Members(free_loop_nodes)
  BY <1>4 DEF orders, Members
<1> QED
  BY <1>1, <1>2, <1>5, <1>6, <1>7 DEF ReachInv

LEMMA ComesReach ==
  ASSUME TypesInv, ReachInv, NEW b, Comes(b)
  PROVE  ReachInv'
<1>1. /\ UNCHANGED search /\ stage # "dom3" /\ stage' = "populate" /\ UNCHANGED orders
      /\ b \in Nodes /\ SearchBlock /\ b = Head(todo) /\ todo # << >>
      /\ DOMAIN loop_of' \subseteq DOMAIN loop_of \cup {b}
  BY DEF Comes, Took
<1>2. Reached' = Reached /\ Finished' = Finished
  BY <1>1, SameReached DEF search, Finished, Members
<1>3. todo \in Seq(Nodes) /\ todo' = m_preds(succs, made, b) \o Tail(todo) /\ sources' = sources
  BY <1>1 DEF SearchBlock, TypesInv, QueuesInv
<1>4. b \in Reached
  <2>1. 1 \in DOMAIN todo /\ todo[1] = b
    BY <1>1, <1>3
  <2> QED
    BY <2>1 DEF ReachInv, Members
<1>5. Members(todo') \subseteq Reached
  <2> PICK p, t : p = m_preds(succs, made, b) /\ t = Tail(todo)
    OBVIOUS
  <2>1. p \in Seq(Nodes) /\ \A u \in Nodes : IsEdge(succs, u, b) <=> \E i \in DOMAIN p : p[i] = u
    BY <1>1, SearchFacts, PredsFacts DEF TypesInv
  <2>2. \A i \in DOMAIN p : p[i] \in Reached
    <3>1. Closed
      BY <1>1, SearchFacts DEF TypesInv
    <3> QED
      BY <1>4, <2>1, <3>1 DEF Closed
  <2>3. t \in Seq(Nodes) /\ \A i \in DOMAIN t : i + 1 \in DOMAIN todo /\ t[i] = todo[i + 1]
    BY <1>1, <1>3
  <2>4. \A i \in DOMAIN t : t[i] \in Reached
    BY <2>3 DEF ReachInv, Members
  <2>5. ASSUME NEW i \in DOMAIN (p \o t)
        PROVE  (p \o t)[i] \in Reached
    <3>1. /\ i \in 1 .. Len(p) + Len(t) /\ Len(p) \in Nat /\ Len(t) \in Nat
          /\ (p \o t)[i] = IF i <= Len(p) THEN p[i] ELSE t[i - Len(p)]
      BY <2>1, <2>3
    <3>2. CASE i <= Len(p)
      BY <2>1, <2>2, <3>1, <3>2
    <3>3. CASE i > Len(p)
      <4>1. i - Len(p) \in DOMAIN t
        BY <2>3, <3>1, <3>3
      <4> QED
        BY <2>4, <3>1, <3>3, <4>1
    <3> QED
      BY <3>1, <3>2, <3>3
  <2> QED
    BY <1>3, <2>5 DEF Members
<1>6. Members(todo)' = Members(todo')
  BY DEF Members
<1>7. /\ Members(m_dfs_nodes)' = Members(m_dfs_nodes)
      /\ Members(free_loop_nodes)' = Members(free_loop_nodes)
  BY <1>1 DEF orders, Members
<1>8. DOMAIN loop_of' \subseteq Reached'
  BY <1>1, <1>2, <1>4 DEF ReachInv
<1> QED
  BY <1>1, <1>2, <1>3, <1>5, <1>6, <1>7, <1>8 DEF ReachInv

LEMMA NextReach ==
  ASSUME TypesInv, BooksInv, ReachInv, Step
  PROVE  ReachInv'
<1> USE DEF TypesInv
<1>0. stage # "dom3" => Discovered \subseteq Reached /\ Finished \subseteq Discovered
  BY SearchFacts
<1>1. CASE BuildDomTree \/ CollectBackEdges
  <2>1. /\ UNCHANGED <<loops, orders, walk>> /\ stage = "dom3" /\ stage' # "done"
        /\ stage' # "dom3" => finished' = << >>
    BY <1>1 DEF BuildDomTree, CollectBackEdges
  <2>2. /\ DOMAIN loop_of = {} /\ m_dfs_nodes = << >> /\ free_loop_nodes = << >>
        /\ cur_loop = 0 /\ todo = << >> /\ sources = {}
    BY <2>1 DEF QueuesInv, GraphInv
  <2>3. Members(<< >>) = {}
    BY DEF Members
  <2>4. /\ DOMAIN loop_of' = {} /\ m_dfs_nodes' = << >> /\ free_loop_nodes' = << >>
        /\ todo' = << >> /\ sources' = {}
    BY <2>1, <2>2 DEF loops, orders, walk
  <2>5. stage' # "dom3" => Finished' = {}
    BY <2>1, <2>3 DEF Finished, Members
  <2> QED
    BY <2>1, <2>3, <2>4, <2>5 DEF ReachInv, Members
<1>2. CASE GoesOn
  <2>1. /\ UNCHANGED <<succs, loops, walk>> /\ stage = "edges" /\ stage' = "edges"
        /\ Finished' = Members(m_dfs_nodes)' \cup Members(free_loop_nodes)'
    BY <1>2, FinishedFiled DEF GoesOn
  <2>2. Reached' = Reached /\ DOMAIN loop_of' = DOMAIN loop_of /\ sources' = sources
        /\ Members(todo)' = Members(todo)
    BY <2>1, SameReached DEF loops, walk, Members
  <2> QED
    BY <2>1, <2>2 DEF ReachInv
<1>3. ASSUME NEW src \in Nodes, NEW dst \in Nodes, NEW cur, Closes(src, dst), Filed(src, dst, cur)
      PROVE  ReachInv'
  <2>1. /\ UNCHANGED <<succs, finished, orders, walk>> /\ stage = "edges" /\ stage' = "edges"
        /\ src \in Discovered /\ dst \in Discovered
        /\ DOMAIN loop_of' = DOMAIN loop_of \cup {src, dst}
    BY <1>3 DEF Closes, Filed
  <2>2. /\ Reached' = Reached /\ sources' = sources /\ Members(todo)' = Members(todo)
        /\ Finished' = Finished /\ Members(m_dfs_nodes)' = Members(m_dfs_nodes)
        /\ Members(free_loop_nodes)' = Members(free_loop_nodes)
    BY <2>1, SameReached DEF walk, orders, Members, Finished
  <2> QED
    BY <1>0, <2>1, <2>2 DEF ReachInv
<1>4. CASE Walks
  BY <1>4, WalkReach
<1>5. ASSUME NEW l, Takes(l), TakeLatches
      PROVE  ReachInv'
  <2>1. /\ UNCHANGED <<search, orders, sources, todo>> /\ stage = "populate" /\ stage' = "populate"
        /\ DOMAIN loop_of' = DOMAIN loop_of
    BY <1>5 DEF Takes
  <2>2. /\ Reached' = Reached /\ Members(todo)' = Members(todo)
        /\ Finished' = Finished /\ Members(m_dfs_nodes)' = Members(m_dfs_nodes)
        /\ Members(free_loop_nodes)' = Members(free_loop_nodes)
    BY <2>1, SameReached DEF search, orders, Members, Finished
  <2> QED
    BY <2>1, <2>2 DEF ReachInv
<1>6. ASSUME NEW b, Comes(b)
      PROVE  ReachInv'
  BY <1>6, ComesReach
<1>7. ASSUME NEW root, Roots(root)
      PROVE  ReachInv'
  <2>1. /\ UNCHANGED <<search, orders, walk>> /\ stage = "populate" /\ stage' = "done"
        /\ DOMAIN loop_of' = DOMAIN loop_of \cup Members(free_loop_nodes)
    BY <1>7 DEF Roots, Rooted
  <2>2. /\ Reached' = Reached /\ Members(todo)' = Members(todo) /\ sources' = sources
        /\ Finished' = Finished /\ Members(m_dfs_nodes)' = Members(m_dfs_nodes)
        /\ Members(free_loop_nodes)' = Members(free_loop_nodes)
    BY <2>1, SameReached DEF search, orders, walk, Members, Finished
  <2>3. Finished = Members(m_dfs_nodes) \cup Members(free_loop_nodes)
    BY <2>1 DEF ReachInv
  <2>4. Finished = Reached
    <3>1. P!S!IInv /\ made \in MadeOrders /\ D!Stopped
      BY <2>1, SearchFacts DEF GraphInv, P!S!BInv
    <3> QED
      BY <3>1, StoppedFacts
  <2>5. Members(m_dfs_nodes) \subseteq DOMAIN loop_of
    BY DEF QueuesInv, Members
  <2> QED
    BY <2>1, <2>2, <2>3, <2>4, <2>5 DEF ReachInv
<1> QED
  BY <1>1, <1>2, <1>3, <1>4, <1>5, <1>6, <1>7, StepKinds

LoopInv == TypesInv /\ BooksInv /\ OrderInv /\ ReachInv

LEMMA InitLoopInv == Init => LoopInv
<1> SUFFICES ASSUME Init PROVE LoopInv
  OBVIOUS
<1>1. /\ TypesInv /\ Loops = {} /\ DOMAIN loop_of = {} /\ stage = "dom3"
      /\ sources = {} /\ todo = << >>
  BY InitTypes DEF Init, Loops
<1>2. \A b, l : ~In(b, l)
  BY <1>1 DEF In
<1>3. BooksInv
  BY <1>1, <1>2 DEF BooksInv
<1>4. OrderInv
  BY <1>1, <1>2 DEF OrderInv, UnderHeader, LatchEdges, OthersAreIn, IrreducibleEdges, OwnLatch,
                    HeadersAtHome
<1>5. ReachInv
  BY <1>1 DEF ReachInv, Members
<1> QED
  BY <1>1, <1>3, <1>4, <1>5 DEF LoopInv

LEMMA NextLoopInv == LoopInv /\ [Next]_vars => LoopInv'
<1> SUFFICES ASSUME LoopInv, [Next]_vars PROVE LoopInv'
  OBVIOUS
<1>1. TypesInv'
  BY NextTypes DEF LoopInv
<1>2. CASE Step
  BY <1>1, <1>2, NextBooks, NextOrder, NextReach DEF LoopInv
<1>3. CASE UNCHANGED vars
  <2>1. UNCHANGED <<search, stage, loops, orders, walk>>
    BY <1>3 DEF vars
  <2>2. /\ Loops' = Loops /\ loop_of' = loop_of
        /\ \A l : Header(l)' = Header(l) /\ Latches(l)' = Latches(l) /\ Body(l)' = Body(l)
    BY <2>1 DEF loops, Loops, Header, Latches, Body, Members
  <2>3. BooksInv'
    <3>1. \A b, l : In(b, l)' <=> In(b, l)
      BY <2>2 DEF In
    <3> QED
      BY <2>2, <3>1 DEF LoopInv, BooksInv
  <2>4. OrderInv'
    <3>1. UNCHANGED succs /\ \A u, v : Earlier(u, v) => Earlier(u, v)'
      BY <2>1 DEF search, Earlier
    <3> QED
      BY <2>1, <3>1, OrderSame DEF LoopInv
  <2>5. ReachInv'
    <3>1. /\ Reached' = Reached /\ Finished' = Finished /\ sources' = sources
          /\ Members(todo)' = Members(todo) /\ Members(m_dfs_nodes)' = Members(m_dfs_nodes)
          /\ Members(free_loop_nodes)' = Members(free_loop_nodes)
      BY <2>1, SameReached DEF search, orders, walk, Members, Finished
    <3> QED
      BY <2>1, <2>2, <3>1 DEF LoopInv, ReachInv
  <2> QED
    BY <1>1, <2>3, <2>4, <2>5 DEF LoopInv
<1> QED
  BY <1>2, <1>3 DEF Next, Done

-----------------------------------------------------------------------------
(* The loops the back edges are filed in.                                  *)

FiledInv ==
  stage # "dom3" /\ OneRoleEach =>
    /\ \A e \in backEdges : \E l \in Loops : /\ In(e[2], l) /\ Header(l) = e[2]
                                             /\ e[1] \in Latches(l)
    /\ \A l \in Loops : \A s \in Latches(l) : <<s, Header(l)>> \in backEdges
    /\ stage = "edges" => \A b \in DOMAIN loop_of : \E e \in backEdges : b = e[1] \/ b = e[2]

LEMMA FiledSame ==
  ASSUME FiledInv, stage # "dom3", stage = "edges" \/ stage' # "edges",
         backEdges' = backEdges, Loops' = Loops,
         DOMAIN loop_of' = DOMAIN loop_of \/ stage' # "edges",
         \A l \in Loops : Header(l)' = Header(l) /\ Latches(l)' = Latches(l),
         \A b, l : In(b, l) /\ Header(l) = b => In(b, l)'
  PROVE  FiledInv'
<1>1. OneRoleEach' <=> OneRoleEach
  BY DEF OneRoleEach
<1> QED
  BY <1>1 DEF FiledInv

\* The block a back edge leads to has its own loop, if each block has one role.
LEMMA FiledCloses ==
  ASSUME TypesInv, FiledInv, NEW src \in Nodes, NEW dst \in Nodes, NEW cur,
         Closes(src, dst), Filed(src, dst, cur)
  PROVE  FiledInv'
<1> SUFFICES ASSUME OneRoleEach' PROVE FiledInv'
  BY DEF FiledInv
<1> DEFINE new == <<src, dst>>
<1>1. /\ stage = "edges" /\ stage' = "edges" /\ backEdges' = backEdges \cup {new}
      /\ new[1] = src /\ new[2] = dst
  BY DEF Closes
<1>2. OneRoleEach
  BY <1>1 DEF OneRoleEach
<1>3. /\ \A e \in backEdges : \E l \in Loops : /\ In(e[2], l) /\ Header(l) = e[2]
                                               /\ e[1] \in Latches(l)
      /\ \A l \in Loops : \A s \in Latches(l) : <<s, Header(l)>> \in backEdges
      /\ \A b \in DOMAIN loop_of : \E e \in backEdges : b = e[1] \/ b = e[2]
  BY <1>1, <1>2 DEF FiledInv
<1>4. \A e \in backEdges \cup {new} : /\ e[1] = dst => e = new
                                      /\ e[2] = src => e = new
  BY <1>1 DEF OneRoleEach
<1>5. HasLoop(dst) => cur \in Loops /\ In(dst, cur) /\ Header(cur) = dst
  <2> SUFFICES ASSUME HasLoop(dst) PROVE cur \in Loops /\ In(dst, cur) /\ Header(cur) = dst
    OBVIOUS
  <2>1. cur \in Loops /\ In(dst, cur)
    BY DEF Filed, In, HasLoop
  <2>2. PICK e \in backEdges : e[2] = dst
    <3>1. PICK f \in backEdges : dst = f[1] \/ dst = f[2]
      BY <1>3 DEF HasLoop
    <3>2. f[1] = dst => f[2] = dst
      BY <1>1, <1>4
    <3> QED
      BY <3>1, <3>2
  <2>3. Header(cur) = dst
    BY <1>3, <2>1, <2>2 DEF In
  <2> QED
    BY <2>1, <2>3
<1>6. Header(cur)' = dst /\ src \in Latches(cur)' /\ In(dst, cur)' /\ cur \in Loops'
  <2>1. DOMAIN loop_of' = DOMAIN loop_of \cup {dst, src} /\ loop_of'[dst] = cur
    BY DEF Filed
  <2> QED
    BY <1>5, <2>1 DEF Filed, HasLoop, In
<1>7. ASSUME NEW e \in backEdges'
      PROVE  \E l \in Loops' : In(e[2], l)' /\ Header(l)' = e[2] /\ e[1] \in Latches(l)'
  <2>1. CASE e = new
    BY <1>1, <1>6, <2>1
  <2>2. CASE e # new /\ e \in backEdges
    <3>1. PICK l \in Loops : In(e[2], l) /\ Header(l) = e[2] /\ e[1] \in Latches(l)
      BY <1>3, <2>2
    <3>2. e[2] # src
      BY <1>4, <2>2
    <3>3. In(e[2], l)'
      <4>1. e[2] \in DOMAIN loop_of' /\ loop_of'[e[2]] = loop_of[e[2]]
        BY <3>1, <3>2 DEF Filed, In
      <4> QED
        BY <3>1, <4>1 DEF In
    <3>4. l \in Loops' /\ Header(l)' = Header(l) /\ Latches(l) \subseteq Latches(l)'
      BY <3>1 DEF Filed
    <3> QED
      BY <3>1, <3>3, <3>4
  <2> QED
    BY <1>1, <2>1, <2>2
<1>8. ASSUME NEW l \in Loops', NEW s \in Latches(l)'
      PROVE  <<s, Header(l)'>> \in backEdges'
  <2>1. CASE l = cur /\ s = src
    BY <1>1, <1>6, <2>1
  <2>2. CASE l \in Loops /\ s \in Latches(l)
    <3>1. <<s, Header(l)>> \in backEdges /\ Header(l)' = Header(l)
      BY <1>3, <2>2 DEF Filed
    <3> QED
      BY <1>1, <3>1
  <2>3. (l = cur /\ s = src) \/ (l \in Loops /\ s \in Latches(l))
    BY DEF Filed
  <2> QED
    BY <2>1, <2>2, <2>3
<1>9. \A b \in DOMAIN loop_of' : \E e \in backEdges' : b = e[1] \/ b = e[2]
  <2>1. DOMAIN loop_of' = DOMAIN loop_of \cup {dst, src}
    BY DEF Filed
  <2> QED
    BY <1>1, <1>3, <2>1
<1> QED
  BY <1>7, <1>8, <1>9 DEF FiledInv

LEMMA NextFiled ==
  ASSUME TypesInv, BooksInv, FiledInv, Step
  PROVE  FiledInv'
<1>1. CASE BuildDomTree \/ CollectBackEdges
  <2>1. /\ Loops' = {} /\ DOMAIN loop_of' = {}
        /\ stage' # "dom3" => backEdges' = {}
    <3>1. /\ UNCHANGED loops /\ stage = "dom3" /\ Loops' = Loops
          /\ stage' # "dom3" => backEdges' = {}
      BY <1>1 DEF BuildDomTree, CollectBackEdges, loops, Loops
    <3>2. Loops = {} /\ DOMAIN loop_of = {}
      BY <3>1 DEF TypesInv, QueuesInv, Loops
    <3> QED
      BY <3>1, <3>2 DEF loops
  <2> QED
    BY <2>1 DEF FiledInv
<1>2. CASE GoesOn \/ Walks
  <2>1. UNCHANGED <<backEdges, loops>> /\ stage # "dom3" /\ (stage = "edges" \/ stage' # "edges")
    BY <1>2 DEF GoesOn, Walks, search
  <2>2. /\ Loops' = Loops /\ \A b, l : In(b, l) => In(b, l)'
        /\ \A l : Header(l)' = Header(l) /\ Latches(l)' = Latches(l)
    BY <2>1 DEF loops, Loops, In, Header, Latches
  <2> QED
    BY <2>1, <2>2, FiledSame DEF loops
<1>3. ASSUME NEW src \in Nodes, NEW dst \in Nodes, NEW cur, Closes(src, dst), Filed(src, dst, cur)
      PROVE  FiledInv'
  BY <1>3, FiledCloses
<1>4. ASSUME NEW l, Takes(l)
      PROVE  FiledInv'
  <2>1. /\ UNCHANGED <<search, m_loops>> /\ stage = "populate" /\ stage' = "populate" /\ l \in Loops
        /\ DOMAIN loop_of' = DOMAIN loop_of
        /\ \A b \in DOMAIN loop_of : loop_of'[b] = IF b \in Latches(l) THEN l ELSE loop_of[b]
    BY <1>4 DEF Takes
  <2>2. /\ Loops' = Loops /\ backEdges' = backEdges
        /\ \A m : Header(m)' = Header(m) /\ Latches(m)' = Latches(m)
    BY <2>1 DEF search, Loops, Header, Latches
  <2>3. CASE OneRoleEach
    <3>1. ASSUME NEW e \in backEdges
          PROVE  \E m \in Loops : In(e[2], m)' /\ Header(m) = e[2] /\ e[1] \in Latches(m)
      <4>1. PICK m \in Loops : In(e[2], m) /\ Header(m) = e[2] /\ e[1] \in Latches(m)
        BY <2>1, <2>3, <3>1 DEF FiledInv
      <4>2. e[2] \in Latches(l) => m = l
        <5> SUFFICES ASSUME e[2] \in Latches(l) PROVE m = l
          OBVIOUS
        <5>1. PICK f \in backEdges : f = <<e[2], Header(l)>>
          BY <2>1, <2>3 DEF FiledInv
        <5>2. f[1] = e[2] /\ f[2] = Header(l)
          BY <5>1
        <5>3. f = e
          BY <2>3, <5>2 DEF OneRoleEach
        <5> QED
          BY <2>1, <4>1, <5>2, <5>3 DEF BooksInv
      <4>3. In(e[2], m)'
        BY <2>1, <4>1, <4>2 DEF In
      <4> QED
        BY <4>1, <4>3
    <3> QED
      BY <2>1, <2>2, <2>3, <3>1 DEF FiledInv
  <2>4. CASE ~OneRoleEach
    <3>1. OneRoleEach' <=> OneRoleEach
      BY <2>2 DEF OneRoleEach
    <3> QED
      BY <2>4, <3>1 DEF FiledInv
  <2> QED
    BY <2>3, <2>4
<1>5. ASSUME NEW b, Comes(b)
      PROVE  FiledInv'
  <2>1. /\ UNCHANGED search /\ stage = "populate" /\ stage' = "populate"
        /\ Loops' = Loops /\ \A l \in Loops : Header(l)' = Header(l) /\ Latches(l)' = Latches(l)
    BY <1>5 DEF Comes, Took, Stays
  <2>2. \A c, l : In(c, l) => In(c, l)'
    BY <1>5 DEF Comes, Took, In, HasLoop
  <2> QED
    BY <2>1, <2>2, FiledSame DEF search
<1>6. ASSUME NEW root, Roots(root)
      PROVE  FiledInv'
  <2>1. /\ UNCHANGED search /\ stage = "populate" /\ stage' = "done"
        /\ Loops' = Loops \cup {root} /\ Latches(root)' = {}
        /\ \A l \in Loops : Header(l)' = Header(l) /\ Latches(l)' = Latches(l)
        /\ \A b \in DOMAIN loop_of : b \in DOMAIN loop_of' /\ loop_of'[b] = loop_of[b]
    BY <1>6 DEF Roots, Rooted, Stays
  <2>2. backEdges' = backEdges /\ \A b, l : In(b, l) => In(b, l)'
    BY <2>1 DEF search, In
  <2>3. OneRoleEach' <=> OneRoleEach
    BY <2>2 DEF OneRoleEach
  <2> QED
    BY <2>1, <2>2, <2>3 DEF FiledInv
<1> QED
  BY <1>1, <1>2, <1>3, <1>4, <1>5, <1>6, StepKinds

(* Where no block has two roles, every back edge is filed in a loop whose  *)
(* header it leads to, and m_data gives this loop for the header, when the *)
(* loop tree is built (LoopTreeBuilder::back_edge): no step of             *)
(* populate_loops takes the header out of its loop again.                  *)
THEOREM FiledUnderTheirHeader == Spec => []BackEdgesFiled
<1> DEFINE Inv == LoopInv /\ FiledInv
<1>1. Init => Inv
  <2>1. Init => stage = "dom3"
    BY DEF Init
  <2> QED
    BY <2>1, InitLoopInv DEF FiledInv
<1>2. Inv /\ [Next]_vars => Inv'
  <2> SUFFICES ASSUME Inv, [Next]_vars PROVE FiledInv'
    BY NextLoopInv
  <2>1. CASE Step
    BY <2>1, NextFiled DEF LoopInv
  <2>2. CASE UNCHANGED vars
    <3>1. UNCHANGED <<search, stage, loops>>
      BY <2>2 DEF vars
    <3>2. /\ backEdges' = backEdges /\ loop_of' = loop_of /\ Loops' = Loops
          /\ \A b, l : In(b, l)' <=> In(b, l)
          /\ \A l : Header(l)' = Header(l) /\ Latches(l)' = Latches(l)
      BY <3>1 DEF search, loops, Loops, In, Header, Latches
    <3>3. OneRoleEach' <=> OneRoleEach
      BY <3>2 DEF OneRoleEach
    <3> QED
      BY <3>1, <3>2, <3>3 DEF FiledInv
  <2> QED
    BY <2>1, <2>2 DEF Next, Done
<1>3. Inv => BackEdgesFiled
  BY DEF FiledInv, BackEdgesFiled, Built, FiledUnderHeader, In, Header, Latches
<1> QED
  BY <1>1, <1>2, <1>3, PTL DEF Spec

-----------------------------------------------------------------------------
(* The backward searches stay in the natural loops.                        *)

LEMMA SameNatural ==
  ASSUME succs' = succs
  PROVE  /\ \A h : NaturalLoop(h)' = NaturalLoop(h)
         /\ \A h : IsHeader(h)' <=> IsHeader(h)
<1>1. Reached' = Reached
  BY SameReached
<1> QED
  BY <1>1 DEF NaturalLoop, IsHeader, Latch, Dom

\* A natural loop has its latches, and what leads into it but for the header.
LEMMA NaturalFacts ==
  ASSUME succs \in Graphs, made \in MadeOrders, NEW h
  PROVE  /\ h \in NaturalLoop(h)
         /\ \A u : Latch(u, h) => u \in NaturalLoop(h)
         /\ \A p \in Reached, b \in NaturalLoop(h) \ {h} :
              IsEdge(succs, p, b) => p \in NaturalLoop(h)
<1> DEFINE Ahead(b) == ReachAvoiding(succs, {b}, {h})
<1>1. IsFiniteSet(Nodes) /\ Blocks(succs) = Nodes /\ Reached \subseteq Nodes
  BY GraphFacts, ReachedFacts
<1>2. \A b \in Nodes : /\ b # h => b \in Ahead(b)
                       /\ Confined(succs, Ahead(b), {h})
                       /\ \A X : {b} \ {h} \subseteq X /\ Confined(succs, X, {h}) => Ahead(b) \subseteq X
  <2> TAKE b \in Nodes
  <2>1. {b} \in SUBSET Blocks(succs) /\ IsFiniteSet(Blocks(succs))
    BY <1>1
  <2> QED
    BY <2>1, ReachFacts
<1> HIDE DEF Ahead
<1>3. \A b : b \in NaturalLoop(h) <=>
               b = h \/ (b \in Reached \ {h} /\ \E u \in Ahead(b) : Latch(u, h))
  BY DEF NaturalLoop, Ahead
<1>4. ASSUME NEW u, Latch(u, h)
      PROVE  u \in NaturalLoop(h)
  <2>1. u \in Reached
    BY <1>4 DEF Latch
  <2> QED
    BY <1>1, <1>2, <1>3, <1>4, <2>1
<1>5. ASSUME NEW p \in Reached, NEW b \in NaturalLoop(h) \ {h}, IsEdge(succs, p, b), p # h
      PROVE  p \in NaturalLoop(h)
  <2>1. PICK u \in Ahead(b) : Latch(u, h)
    BY <1>3
  <2>2. b \in Nodes /\ p \in Nodes
    BY <1>1, <1>3
  <2>3. b \in Ahead(p)
    BY <1>1, <1>2, <1>5, <2>2 DEF Confined
  <2>4. Ahead(b) \subseteq Ahead(p)
    <3>1. Confined(succs, Ahead(p), {h})
      BY <1>2, <2>2
    <3>2. {b} \ {h} \subseteq Ahead(p)
      BY <2>3
    <3>3. \A X : {b} \ {h} \subseteq X /\ Confined(succs, X, {h}) => Ahead(b) \subseteq X
      BY <1>2, <2>2
    <3> HIDE DEF Ahead
    <3> QED
      BY <3>1, <3>2, <3>3, Zenon
  <2> QED
    BY <1>3, <1>5, <2>1, <2>4
<1> QED
  BY <1>3, <1>4, <1>5

NaturalInv ==
  stage # "dom3" /\ Reducible =>
    /\ \A l \in Loops, h \in Nodes : Header(l) = h => Body(l) \subseteq NaturalLoop(h) /\ IsHeader(h)
    /\ cur_loop # 0 =>
         \A h \in Nodes : Header(cur_loop) = h =>
           /\ h \in m_marked
           /\ sources \subseteq NaturalLoop(h) /\ Members(todo) \subseteq NaturalLoop(h)

LEMMA NaturalCloses ==
  ASSUME TypesInv, BooksInv, NaturalInv, NEW src \in Nodes, NEW dst \in Nodes, NEW cur,
         Closes(src, dst), Filed(src, dst, cur)
  PROVE  NaturalInv'
<1> SUFFICES ASSUME Reducible' PROVE NaturalInv'
  BY DEF NaturalInv
<1>1. /\ stage = "edges" /\ stage' = "edges" /\ succs' = succs /\ cur_loop' = cur_loop
      /\ backEdges' = backEdges \cup {<<src, dst>>} /\ src \in Discovered
      /\ IsEdge(succs, src, dst)
  BY DEF Closes, walk
<1>2. Reducible /\ Dom(dst, src)
  <2>1. \A d, n : Dom(d, n)' <=> Dom(d, n)
    BY <1>1 DEF Dom
  <2>2. \A e \in backEdges' : Dom(e[2], e[1])
    BY <2>1 DEF Reducible
  <2>3. <<src, dst>> \in backEdges' /\ backEdges \subseteq backEdges'
    BY <1>1
  <2> QED
    BY <2>2, <2>3 DEF Reducible
<1>3. \A h : NaturalLoop(h)' = NaturalLoop(h) /\ (IsHeader(h)' <=> IsHeader(h))
  BY <1>1, SameNatural
<1>4. cur_loop = 0
  BY <1>1 DEF TypesInv, GraphInv
<1>5. \A l \in Loops, h \in Nodes : Header(l) = h => Body(l) \subseteq NaturalLoop(h) /\ IsHeader(h)
  BY <1>1, <1>2 DEF NaturalInv
<1>6. succs \in Graphs /\ made \in MadeOrders /\ src \in Reached
  BY <1>1, SearchFacts DEF TypesInv
<1>7. src \in NaturalLoop(dst) /\ IsHeader(dst)
  <2>1. Latch(src, dst) /\ dst \in Reached
    <3>1. dst \in Discovered /\ Discovered \subseteq Reached
      BY <1>1, SearchFacts DEF TypesInv, Closes
    <3> QED
      BY <1>1, <1>2, <1>6, <3>1 DEF Latch
  <2> QED
    BY <1>6, <2>1, NaturalFacts DEF IsHeader
<1>8. ASSUME NEW l \in Loops', NEW h \in Nodes, Header(l)' = h
      PROVE  Body(l)' \subseteq NaturalLoop(h) /\ IsHeader(h)
  <2>1. CASE l \in Loops /\ l # cur
    BY <1>5, <1>8, <2>1 DEF Filed
  <2>2. CASE l = cur /\ cur \notin Loops
    BY <1>7, <1>8, <2>2 DEF Filed
  <2>3. CASE l = cur /\ cur \in Loops
    <3>1. In(dst, cur) /\ Header(cur) = h /\ Body(cur)' = Body(cur) \cup {src}
      BY <1>8, <2>3 DEF Filed, HasLoop, In
    <3>2. dst \in NaturalLoop(h)
      <4>1. dst = h \/ dst \in Body(cur)
        BY <3>1 DEF BooksInv
      <4> QED
        BY <1>5, <1>6, <2>3, <3>1, <4>1, NaturalFacts
    <3>3. src \in NaturalLoop(h)
      BY <1>1, <1>6, <1>7, <3>2, NaturalFacts
    <3> QED
      BY <1>5, <2>3, <3>1, <3>3
  <2> QED
    BY <2>1, <2>2, <2>3 DEF Filed
<1> QED
  BY <1>1, <1>3, <1>4, <1>8 DEF NaturalInv

LEMMA ConcatMembers ==
  ASSUME NEW S, NEW p \in Seq(S), NEW t \in Seq(S)
  PROVE  Members(p \o t) = Members(p) \cup Members(t)
<1> DEFINE q == p \o t
<1>1. /\ Len(p) \in Nat /\ Len(t) \in Nat /\ DOMAIN p = 1 .. Len(p) /\ DOMAIN t = 1 .. Len(t)
      /\ DOMAIN q = 1 .. Len(p) + Len(t)
      /\ \A i \in 1 .. Len(p) : q[i] = p[i]
      /\ \A i \in 1 .. Len(t) : q[i + Len(p)] = t[i]
  OBVIOUS
<1> HIDE DEF q
<1>2. ASSUME NEW i \in DOMAIN q
      PROVE  q[i] \in Members(p) \cup Members(t)
  <2>1. CASE i <= Len(p)
    BY <1>1, <2>1 DEF Members
  <2>2. CASE i > Len(p)
    <3>1. i - Len(p) \in 1 .. Len(t) /\ (i - Len(p)) + Len(p) = i
      BY <1>1, <2>2
    <3>2. q[i] = t[i - Len(p)]
      BY <1>1, <3>1
    <3> QED
      BY <1>1, <3>1, <3>2 DEF Members
  <2> QED
    BY <1>1, <2>1, <2>2
<1>3. \A i \in 1 .. Len(p) : i \in DOMAIN q
  BY <1>1
<1>4. \A i \in 1 .. Len(t) : i + Len(p) \in DOMAIN q
  BY <1>1
<1>5. Members(p) \subseteq Members(q) /\ Members(t) \subseteq Members(q)
  BY <1>1, <1>3, <1>4 DEF Members
<1>6. Members(q) \subseteq Members(p) \cup Members(t)
  BY <1>2 DEF Members
<1> QED
  BY <1>5, <1>6 DEF q

LEMMA HeadAndTail ==
  ASSUME NEW S, NEW t \in Seq(S), t # << >>
  PROVE  /\ Head(t) \in Members(t) /\ Members(Tail(t)) \subseteq Members(t)
         /\ Tail(t) \in Seq(S) /\ Len(Tail(t)) + 1 = Len(t) /\ Len(Tail(t)) \in Nat
<1>1. /\ 1 \in DOMAIN t /\ Head(t) = t[1]
      /\ \A i \in DOMAIN Tail(t) : i + 1 \in DOMAIN t /\ Tail(t)[i] = t[i + 1]
      /\ Tail(t) \in Seq(S) /\ Len(Tail(t)) + 1 = Len(t) /\ Len(Tail(t)) \in Nat
  OBVIOUS
<1> QED
  BY <1>1 DEF Members

LEMMA HeadOrTail ==
  ASSUME NEW S, NEW t \in Seq(S), t # << >>
  PROVE  Members(t) \subseteq {Head(t)} \cup Members(Tail(t))
<1>1. /\ DOMAIN t = 1 .. Len(t) /\ Len(t) \in Nat /\ Head(t) = t[1]
      /\ \A i \in 1 .. Len(t) : i # 1 => i - 1 \in DOMAIN Tail(t) /\ Tail(t)[i - 1] = t[i]
  OBVIOUS
<1> QED
  BY <1>1 DEF Members

LEMMA NaturalWalks ==
  ASSUME TypesInv, BooksInv, NaturalInv, Walks
  PROVE  NaturalInv'
<1>1. /\ UNCHANGED <<search, domtree, loops>> /\ stage \in {"edges", "populate"}
  BY DEF Walks
<1>2. /\ succs' = succs /\ backEdges' = backEdges /\ Loops' = Loops
      /\ \A l : Header(l)' = Header(l) /\ Body(l)' = Body(l)
  BY <1>1 DEF search, loops, Loops, Header, Body, Members
<1>3. /\ \A h : NaturalLoop(h)' = NaturalLoop(h) /\ (IsHeader(h)' <=> IsHeader(h))
      /\ Reducible' => Reducible
  <2>1. \A d, n : Dom(d, n)' <=> Dom(d, n)
    BY <1>2 DEF Dom
  <2> QED
    BY <1>2, <2>1, SameNatural DEF Reducible
<1> SUFFICES ASSUME Reducible' PROVE NaturalInv'
  BY DEF NaturalInv
<1>4. /\ \A l \in Loops, h \in Nodes : Header(l) = h => Body(l) \subseteq NaturalLoop(h) /\ IsHeader(h)
      /\ cur_loop # 0 =>
           \A h \in Nodes : Header(cur_loop) = h =>
             /\ h \in m_marked
             /\ sources \subseteq NaturalLoop(h) /\ Members(todo) \subseteq NaturalLoop(h)
  BY <1>1, <1>3 DEF NaturalInv
<1>5. ASSUME cur_loop' # 0, NEW h \in Nodes, Header(cur_loop') = h
      PROVE  /\ h \in m_marked'
             /\ sources' \subseteq NaturalLoop(h) /\ Members(todo') \subseteq NaturalLoop(h)
  <2>1. CASE Collected
    <3>1. UNCHANGED walk
      BY <2>1 DEF Collected
    <3> QED
      BY <1>4, <1>5, <3>1 DEF walk
  <2>2. CASE EnterReducible
    <3> PICK l : l = loop_of[m_dfs_nodes[loop_node]]
      OBVIOUS
    <3>1. /\ cur_loop' = l /\ m_marked' = m_marked \cup {Header(l)} /\ sources' = Latches(l)
          /\ todo' = todo /\ loop_node <= Len(m_dfs_nodes) /\ cur_loop = 0
      BY <2>2 DEF EnterReducible, Fenced, Header, Latches
    <3>2. loop_node \in DOMAIN m_dfs_nodes
      BY <3>1 DEF TypesInv, QueuesInv
    <3>3. l \in Loops /\ todo = << >>
      BY <3>1, <3>2 DEF TypesInv, QueuesInv, LoopsInv
    <3>4. Members(<< >>) = {}
      BY DEF Members
    <3> QED
      BY <1>4, <1>5, <3>1, <3>3, <3>4 DEF BooksInv
  <2>3. CASE NextSource
    <3>1. /\ cur_loop # 0 /\ cur_loop' = cur_loop /\ m_marked' = m_marked
          /\ \E s \in sources : todo' = <<s>> /\ sources' = sources \ {s}
      BY <2>3 DEF NextSource
    <3>2. \A s : Members(<<s>>) = {s}
      BY DEF Members
    <3> QED
      BY <1>4, <1>5, <3>1, <3>2
  <2>4. CASE SkipMarked
    <3>1. /\ cur_loop # 0 /\ cur_loop' = cur_loop /\ m_marked' = m_marked /\ sources' = sources
          /\ todo \in Seq(Nodes) /\ todo # << >> /\ todo' = Tail(todo)
      BY <2>4 DEF SkipMarked, TypesInv, QueuesInv
    <3>2. Members(todo') \subseteq Members(todo)
      BY <3>1, HeadAndTail
    <3> QED
      BY <1>4, <1>5, <3>1, <3>2
  <2>5. CASE LeaveReducible
    BY <1>5, <2>5 DEF LeaveReducible
  <2> QED
    BY <2>1, <2>2, <2>3, <2>4, <2>5 DEF Walks
<1>6. Members(todo)' = Members(todo') /\ Header(cur_loop)' = Header(cur_loop')
  BY <1>1 DEF Members, Header, loops
<1>7. /\ \A l \in Loops', h \in Nodes : Header(l)' = h => Body(l)' \subseteq NaturalLoop(h)' /\ IsHeader(h)'
  BY <1>2, <1>3, <1>4
<1> QED
  BY <1>3, <1>5, <1>6, <1>7 DEF NaturalInv

LEMMA NaturalComes ==
  ASSUME TypesInv, ReachInv, NaturalInv, NEW b, Comes(b)
  PROVE  NaturalInv'
<1>1. /\ UNCHANGED <<search, cur_loop>> /\ stage = "populate" /\ stage' = "populate"
      /\ b \in Nodes /\ cur_loop \in Loops /\ SearchBlock /\ b = Head(todo) /\ todo # << >>
      /\ b \notin m_marked /\ Took(b) /\ cur_loop # 0
  BY DEF Comes, SearchBlock
<1>2. /\ succs' = succs /\ backEdges' = backEdges /\ Loops' = Loops
      /\ \A l \in Loops : Header(l)' = Header(l)
  BY <1>1 DEF search, Took, Stays
<1>3. /\ \A h : NaturalLoop(h)' = NaturalLoop(h) /\ (IsHeader(h)' <=> IsHeader(h))
      /\ Reducible' => Reducible
  <2>1. \A d, n : Dom(d, n)' <=> Dom(d, n)
    BY <1>2 DEF Dom
  <2> QED
    BY <1>2, <2>1, SameNatural DEF Reducible
<1> SUFFICES ASSUME Reducible' PROVE NaturalInv'
  BY DEF NaturalInv
<1>4. /\ \A l \in Loops, h \in Nodes : Header(l) = h => Body(l) \subseteq NaturalLoop(h) /\ IsHeader(h)
      /\ \A h \in Nodes : Header(cur_loop) = h =>
           /\ h \in m_marked
           /\ sources \subseteq NaturalLoop(h) /\ Members(todo) \subseteq NaturalLoop(h)
  BY <1>1, <1>3 DEF NaturalInv
<1>5. /\ todo \in Seq(Nodes) /\ todo' = m_preds(succs, made, b) \o Tail(todo)
      /\ sources' = sources /\ m_marked \subseteq m_marked'
  BY <1>1 DEF SearchBlock, Marked, TypesInv, QueuesInv
<1>6. ASSUME NEW h \in Nodes, Header(cur_loop) = h
      PROVE  Members(todo') \subseteq NaturalLoop(h)
  <2>1. b \in NaturalLoop(h) \ {h}
    BY <1>1, <1>4, <1>5, <1>6, HeadAndTail
  <2>2. b \in Reached
    BY <1>1, <1>5, HeadAndTail DEF ReachInv
  <2> PICK p, t : p = m_preds(succs, made, b) /\ t = Tail(todo)
    OBVIOUS
  <2>3. succs \in Graphs /\ made \in MadeOrders /\ Closed
    BY <1>1, SearchFacts DEF TypesInv
  <2>4. p \in Seq(Nodes) /\ \A u \in Nodes : IsEdge(succs, u, b) <=> \E i \in DOMAIN p : p[i] = u
    BY <2>3, PredsFacts
  <2>5. \A u \in Members(p) : u \in Reached /\ IsEdge(succs, u, b)
    BY <2>2, <2>3, <2>4 DEF Closed, Members
  <2>6. Members(p) \subseteq NaturalLoop(h)
    BY <2>1, <2>3, <2>5, NaturalFacts
  <2>7. t \in Seq(Nodes) /\ Members(t) \subseteq NaturalLoop(h)
    BY <1>1, <1>4, <1>5, <1>6, HeadAndTail
  <2>8. Members(p \o t) = Members(p) \cup Members(t)
    <3>1. \A q \in Seq(Nodes), r \in Seq(Nodes) : Members(q \o r) = Members(q) \cup Members(r)
      BY ConcatMembers
    <3> QED
      BY <2>4, <2>7, <3>1
  <2> QED
    BY <1>5, <2>6, <2>7, <2>8
<1>7. ASSUME NEW l \in Loops, NEW h \in Nodes, Header(l) = h
      PROVE  Body(l)' \subseteq NaturalLoop(h) /\ IsHeader(h)
  <2>1. b \in Members(todo)
    BY <1>1, <1>5, HeadAndTail
  <2>2. Body(l)' \subseteq Body(l) \cup (IF l = cur_loop THEN {b} ELSE {})
    BY <1>1, <1>7 DEF Took
  <2> QED
    BY <1>4, <1>7, <2>1, <2>2
<1>8. Members(todo)' = Members(todo')
  BY DEF Members
<1>9. \A h : Header(cur_loop)' = h => Header(cur_loop) = h
  <2> PICK c : c = cur_loop
    OBVIOUS
  <2>1. Header(c)' = Header(c) /\ Header(cur_loop)' = Header(c)'
    BY <1>1, <1>2 DEF Header
  <2> QED
    BY <2>1
<1> QED
  BY <1>2, <1>3, <1>4, <1>5, <1>6, <1>7, <1>8, <1>9 DEF NaturalInv

LEMMA NextNatural ==
  ASSUME TypesInv, BooksInv, ReachInv, NaturalInv, Step
  PROVE  NaturalInv'
<1>1. CASE BuildDomTree \/ CollectBackEdges
  <2>1. UNCHANGED <<loops, walk>> /\ stage = "dom3" /\ Loops' = Loops
    BY <1>1 DEF BuildDomTree, CollectBackEdges, loops, Loops
  <2>2. Loops' = {} /\ cur_loop' = 0
    BY <2>1 DEF TypesInv, QueuesInv, GraphInv, walk, Loops
  <2> QED
    BY <2>2 DEF NaturalInv
<1>2. CASE GoesOn
  <2>1. UNCHANGED <<succs, backEdges, loops, walk>> /\ stage = "edges" /\ stage' = "edges"
    BY <1>2 DEF GoesOn
  <2>2. /\ Loops' = Loops /\ \A l : Header(l)' = Header(l) /\ Body(l)' = Body(l)
        /\ \A h : NaturalLoop(h)' = NaturalLoop(h) /\ (IsHeader(h)' <=> IsHeader(h))
    BY <2>1, SameNatural DEF loops, Loops, Header, Body, Members
  <2>3. Reducible' => Reducible
    <3>1. \A d, n : Dom(d, n)' <=> Dom(d, n)
      BY <2>1 DEF Dom
    <3> QED
      BY <2>1, <3>1 DEF Reducible
  <2>4. cur_loop' = 0
    BY <2>1 DEF walk, TypesInv, GraphInv
  <2> QED
    BY <2>1, <2>2, <2>3, <2>4 DEF NaturalInv
<1>3. ASSUME NEW src \in Nodes, NEW dst \in Nodes, NEW cur, Closes(src, dst), Filed(src, dst, cur)
      PROVE  NaturalInv'
  BY <1>3, NaturalCloses
<1>4. CASE Walks
  BY <1>4, NaturalWalks
<1>5. ASSUME NEW l, Takes(l)
      PROVE  NaturalInv'
  <2>1. /\ UNCHANGED <<succs, backEdges, m_loops, m_marked, cur_loop, sources, todo>>
        /\ stage = "populate" /\ stage' = "populate"
    BY <1>5 DEF Takes, search
  <2>2. /\ Loops' = Loops /\ \A m : Header(m)' = Header(m) /\ Body(m)' = Body(m)
        /\ Header(cur_loop)' = Header(cur_loop)
        /\ \A h : NaturalLoop(h)' = NaturalLoop(h) /\ (IsHeader(h)' <=> IsHeader(h))
        /\ Members(todo)' = Members(todo)
    BY <2>1, SameNatural DEF Loops, Header, Body, Members
  <2>3. Reducible' => Reducible
    <3>1. \A d, n : Dom(d, n)' <=> Dom(d, n)
      BY <2>1 DEF Dom
    <3> QED
      BY <2>1, <3>1 DEF Reducible
  <2> QED
    BY <2>1, <2>2, <2>3 DEF NaturalInv
<1>6. ASSUME NEW b, Comes(b)
      PROVE  NaturalInv'
  BY <1>6, NaturalComes
<1>7. ASSUME NEW root, Roots(root)
      PROVE  NaturalInv'
  <2>1. /\ UNCHANGED <<search, walk>> /\ stage = "populate" /\ stage' = "done" /\ cur_loop' = 0
        /\ Loops' = Loops \cup {root} /\ Header(root)' = NoNode
        /\ \A l \in Loops : Header(l)' = Header(l) /\ Body(l)' = Body(l)
    BY <1>7 DEF Roots, Rooted, Stays, walk
  <2>2. succs' = succs /\ backEdges' = backEdges /\ \A h : NaturalLoop(h)' = NaturalLoop(h) /\ (IsHeader(h)' <=> IsHeader(h))
    BY <2>1, SameNatural DEF search
  <2>3. Reducible' => Reducible
    <3>1. \A d, n : Dom(d, n)' <=> Dom(d, n)
      BY <2>2 DEF Dom
    <3> QED
      BY <2>2, <3>1 DEF Reducible
  <2>4. NoNode \notin Nodes
    BY DFSAssumption
  <2> QED
    BY <2>1, <2>2, <2>3, <2>4 DEF NaturalInv
<1> QED
  BY <1>1, <1>2, <1>3, <1>4, <1>5, <1>6, <1>7, StepKinds

LEMMA SameNaturalInv ==
  ASSUME NaturalInv, UNCHANGED vars
  PROVE  NaturalInv'
<1>1. UNCHANGED <<succs, backEdges, stage, m_loops, m_marked, cur_loop, sources, todo>>
  BY DEF vars, search, loops, walk
<1>2. /\ Loops' = Loops /\ \A m : Header(m)' = Header(m) /\ Body(m)' = Body(m)
      /\ Header(cur_loop)' = Header(cur_loop)
      /\ \A h : NaturalLoop(h)' = NaturalLoop(h) /\ (IsHeader(h)' <=> IsHeader(h))
      /\ Members(todo)' = Members(todo)
  BY <1>1, SameNatural DEF Loops, Header, Body, Members
<1>3. Reducible' => Reducible
  <2>1. \A d, n : Dom(d, n)' <=> Dom(d, n)
    BY <1>1 DEF Dom
  <2> QED
    BY <1>1, <2>1 DEF Reducible
<1> QED
  BY <1>1, <1>2, <1>3 DEF NaturalInv

LEMMA NaturalAlways == Spec => [](LoopInv /\ NaturalInv)
<1>1. Init => LoopInv /\ NaturalInv
  <2>1. Init => stage = "dom3"
    BY DEF Init
  <2> QED
    BY <2>1, InitLoopInv DEF NaturalInv
<1>2. (LoopInv /\ NaturalInv) /\ [Next]_vars => (LoopInv /\ NaturalInv)'
  <2> SUFFICES ASSUME LoopInv, NaturalInv, [Next]_vars PROVE NaturalInv'
    BY NextLoopInv
  <2>1. CASE Step
    BY <2>1, NextNatural DEF LoopInv
  <2>2. CASE UNCHANGED vars
    BY <2>2, SameNaturalInv
  <2> QED
    BY <2>1, <2>2 DEF Next, Done
<1> QED
  BY <1>1, <1>2, PTL DEF Spec

(* In a reducible graph a loop is never given a block that is not in its   *)
(* natural loop: the backward search stops at the header, which it has     *)
(* marked first, and the latches it starts from are in the loop, also      *)
(* those that back_edge files in the loop of another header.               *)
THEOREM BodiesInNaturalLoops == Spec => []BodyInNaturalLoop
<1>1. LoopInv /\ NaturalInv => BodyInNaturalLoop
  <2> SUFFICES ASSUME LoopInv, NaturalInv, Built, Reducible,
                      NEW l \in Loops, IsReducible(l),
                      NEW i \in DOMAIN m_loops[l].body
               PROVE  m_loops[l].body[i] \in NaturalLoop(Header(l))
    BY DEF BodyInNaturalLoop, Header, IsReducible
  <2>1. Header(l) \in Nodes
    BY DEF LoopInv, TypesInv, HeadersInv
  <2>2. Body(l) \subseteq NaturalLoop(Header(l))
    BY <2>1 DEF NaturalInv, Built
  <2> QED
    BY <2>2 DEF Body, Members
<1> QED
  BY <1>1, NaturalAlways, PTL

-----------------------------------------------------------------------------
(* Dominators: a block dominates what no path from the entry around it     *)
(* reaches.  In a reducible graph it is finished after all of that.        *)

LEMMA AvoidFacts ==
  ASSUME succs \in Graphs, made \in MadeOrders, NEW h
  PROVE  LET A == ReachAvoiding(succs, {Entry}, {h})
         IN /\ h \notin A /\ A \subseteq Reached
            /\ Entry # h => Entry \in A
            /\ \A u \in A : \A v : IsEdge(succs, u, v) /\ v # h => v \in A
            /\ \A U : /\ Entry # h => Entry \in U
                      /\ \A u \in U : \A v \in Nodes : IsEdge(succs, u, v) /\ v # h => v \in U
                      => A \subseteq U
<1> DEFINE A == ReachAvoiding(succs, {Entry}, {h})
<1>1. /\ IsFiniteSet(Nodes) /\ Blocks(succs) = Nodes /\ Entry \in Nodes
      /\ \A u \in Nodes : \A v : IsEdge(succs, u, v) => v \in Nodes
  BY GraphFacts
<1>2. {Entry} \in SUBSET Blocks(succs) /\ IsFiniteSet(Blocks(succs))
  BY <1>1
<1>3. /\ {Entry} \ {h} \subseteq A /\ A \subseteq Nodes /\ Confined(succs, A, {h})
      /\ \A U : {Entry} \ {h} \subseteq U /\ Confined(succs, U, {h}) => A \subseteq U
  BY <1>1, <1>2, ReachFacts
<1>4. A \subseteq Reached
  <2>1. Reached = ReachAvoiding(succs, {Entry}, {})
    BY DEF Reached, Reachable
  <2> QED
    BY <1>2, <2>1, ReachMonotone
<1> HIDE DEF A
<1>5. \A U : Confined(succs, U, {h}) <=>
               \A u \in U : \A v \in Nodes : IsEdge(succs, u, v) /\ v # h => v \in U
  BY <1>1 DEF Confined
<1>6. h \notin A
  <2>1. {Entry} \ {h} \subseteq A \ {h} /\ Confined(succs, A \ {h}, {h})
    BY <1>3, <1>5
  <2> QED
    BY <1>3, <2>1
<1>7. \A u \in A : \A v : IsEdge(succs, u, v) /\ v # h => v \in A
  BY <1>1, <1>3, <1>5
<1>8. \A U : {Entry} \ {h} \subseteq U <=> (Entry # h => Entry \in U)
  OBVIOUS
<1>9. \A U : /\ Entry # h => Entry \in U
             /\ \A u \in U : \A v \in Nodes : IsEdge(succs, u, v) /\ v # h => v \in U
             => A \subseteq U
  BY <1>3, <1>5, <1>8
<1>10. Entry # h => Entry \in A
  BY <1>3
<1> QED
  BY <1>4, <1>6, <1>7, <1>9, <1>10 DEF A

\* Dominance: what is not reached without d, and what d leads to.
LEMMA DomAvoids ==
  ASSUME succs \in Graphs, made \in MadeOrders
  PROVE  /\ \A h : Dom(h, h)
         /\ \A h : Dom(h, Entry) => h = Entry
         /\ \A h, n : Dom(h, n) <=> h = n \/ n \notin ReachAvoiding(succs, {Entry}, {h})
<1>1. \A h, n : Dom(h, n) <=> h = n \/ n \notin ReachAvoiding(succs, {Entry}, {h})
  BY DEF Dom, Dominates
<1>2. \A h : Entry # h => Entry \in ReachAvoiding(succs, {Entry}, {h})
  BY AvoidFacts
<1> QED
  BY <1>1, <1>2

LEMMA DomAlongEdge ==
  ASSUME succs \in Graphs, made \in MadeOrders, NEW h, NEW n, NEW p \in Reached,
         Dom(h, n), h # n, IsEdge(succs, p, n)
  PROVE  Dom(h, p)
<1>1. \A u \in ReachAvoiding(succs, {Entry}, {h}) : \A v :
        IsEdge(succs, u, v) /\ v # h => v \in ReachAvoiding(succs, {Entry}, {h})
  BY AvoidFacts
<1> QED
  BY <1>1, DomAvoids

LEMMA DomTransitive ==
  ASSUME succs \in Graphs, made \in MadeOrders, NEW a, NEW b, NEW c, Dom(a, b), Dom(b, c)
  PROVE  Dom(a, c)
<1> DEFINE A(h) == ReachAvoiding(succs, {Entry}, {h})
<1>1. \A h, n : Dom(h, n) <=> h = n \/ n \notin A(h)
  BY DomAvoids
<1>2. \A h : /\ h \notin A(h)
             /\ Entry # h => Entry \in A(h)
             /\ \A u \in A(h) : \A v : IsEdge(succs, u, v) /\ v # h => v \in A(h)
             /\ \A U : /\ Entry # h => Entry \in U
                       /\ \A u \in U : \A v \in Nodes : IsEdge(succs, u, v) /\ v # h => v \in U
                       => A(h) \subseteq U
  BY AvoidFacts
<1> HIDE DEF A
<1> SUFFICES ASSUME c \in A(a), a # b, b # c PROVE FALSE
  BY <1>1
<1> DEFINE U == A(a) \cap A(b)
<1>3. b \notin A(a) /\ c \notin A(b)
  BY <1>1
<1>4. Entry # a => Entry \in U
  BY <1>2, <1>3
<1>5. \A u \in U : \A v \in Nodes : IsEdge(succs, u, v) /\ v # a => v \in U
  BY <1>2, <1>3
<1> HIDE DEF U
<1>6. A(a) \subseteq U
  BY <1>2, <1>4, <1>5
<1> QED
  BY <1>3, <1>6 DEF U

\* A reached block is entered from one it does not dominate.
LEMMA EnteredFromOutside ==
  ASSUME succs \in Graphs, made \in MadeOrders, NEW n \in Reached \ {Entry}
  PROVE  \E p \in Reached : IsEdge(succs, p, n) /\ ~Dom(n, p)
<1> DEFINE A == ReachAvoiding(succs, {Entry}, {n})
<1>1. \A p : Dom(n, p) <=> n = p \/ p \notin A
  BY DomAvoids
<1>2. /\ n \notin A /\ A \subseteq Reached /\ Entry \in A
      /\ \A u \in A : \A v : IsEdge(succs, u, v) /\ v # n => v \in A
  BY AvoidFacts
<1> HIDE DEF A
<1> SUFFICES ASSUME \A p \in A : ~IsEdge(succs, p, n) PROVE FALSE
  BY <1>1, <1>2
<1>3. A \subseteq Nodes
  BY <1>2, ReachedFacts
<1>4. \A u \in A : \A v : IsEdge(succs, u, v) => v \in A
  BY <1>2
<1>5. Reached \subseteq A
  BY <1>2, <1>3, <1>4, ReachedFacts
<1> QED
  BY <1>2, <1>5

\* The header of a natural loop dominates it.
LEMMA NaturalDominated ==
  ASSUME succs \in Graphs, made \in MadeOrders, NEW h, NEW b \in NaturalLoop(h)
  PROVE  Dom(h, b) /\ (b # h => b \in Reached /\ h \in Reached)
<1>1. CASE b = h
  BY <1>1, DomAvoids
<1>2. CASE b # h
  <2> DEFINE A == ReachAvoiding(succs, {Entry}, {h})
             R == ReachAvoiding(succs, {b}, {h})
  <2>1. /\ h \notin A /\ A \subseteq Reached
        /\ \A u \in A : \A v : IsEdge(succs, u, v) /\ v # h => v \in A
    BY AvoidFacts
  <2>2. b \in Reached /\ \E u \in R : Latch(u, h)
    BY <1>2 DEF NaturalLoop
  <2>3. b \in Nodes /\ IsFiniteSet(Nodes) /\ Blocks(succs) = Nodes
    BY <2>2, GraphFacts, ReachedFacts
  <2>4. \A U : {b} \ {h} \subseteq U /\ Confined(succs, U, {h}) => R \subseteq U
    <3>1. {b} \in SUBSET Blocks(succs) /\ IsFiniteSet(Blocks(succs))
      BY <2>3
    <3> QED
      BY <3>1, ReachFacts
  <2>5. \A n : Dom(h, n) <=> h = n \/ n \notin A
    BY DomAvoids
  <2> HIDE DEF A, R
  <2>6. PICK u \in R : Latch(u, h)
    BY <2>2
  <2>7. h \in Reached
    <3>1. u \in Reached /\ IsEdge(succs, u, h)
      BY <2>6 DEF Latch
    <3> QED
      BY <3>1, ReachedFacts
  <2>8. CASE b \in A
    <3>1. Confined(succs, A, {h})
      BY <2>1 DEF Confined
    <3>2. {b} \ {h} \subseteq A
      BY <2>8
    <3>3. u \in A
      BY <2>4, <2>6, <3>1, <3>2
    <3>4. Dom(h, u)
      BY <2>6 DEF Latch
    <3> QED
      BY <2>1, <2>5, <3>3, <3>4
  <2> QED
    BY <2>2, <2>5, <2>7, <2>8
<1> QED
  BY <1>1, <1>2
-----------------------------------------------------------------------------
(* The order in which the search has finished the blocks.                  *)

Precede(s, u, v) == \E i, j \in DOMAIN s : i < j /\ s[i] = u /\ s[j] = v
FinishedBefore(u, v) == Precede(finished, u, v)

LEMMA FinishIsOrder ==
  ASSUME P!S!BInv
  PROVE  /\ \A u, v : ~(FinishedBefore(u, v) /\ FinishedBefore(v, u))
         /\ \A u : ~FinishedBefore(u, u)
         /\ \A u, v, w : FinishedBefore(u, v) /\ FinishedBefore(v, w) => FinishedBefore(u, w)
         /\ \A u, v \in Finished : u # v => FinishedBefore(u, v) \/ FinishedBefore(v, u)
<1>1. /\ finished \in Seq(Nodes)
      /\ \A i, j \in DOMAIN finished : finished[i] = finished[j] => i = j
  BY DEF P!S!BInv, P!S!IInv, P!S!TypeOK, P!S!VisitedOnce, P!S!Once
<1>2. DOMAIN finished \subseteq Nat
  BY <1>1
<1>3. ASSUME NEW u, NEW v, NEW w, FinishedBefore(u, v), FinishedBefore(v, w)
      PROVE  FinishedBefore(u, w) /\ u # w
  <2>1. PICK i, j \in DOMAIN finished : i < j /\ finished[i] = u /\ finished[j] = v
    BY <1>3 DEF FinishedBefore, Precede
  <2>2. PICK k, m \in DOMAIN finished : k < m /\ finished[k] = v /\ finished[m] = w
    BY <1>3 DEF FinishedBefore, Precede
  <2>3. k = j
    BY <1>1, <2>1, <2>2
  <2>4. i < m
    BY <1>2, <2>1, <2>2, <2>3
  <2>5. u # w
    BY <1>1, <1>2, <2>1, <2>2, <2>4
  <2> QED
    BY <2>1, <2>2, <2>4, <2>5 DEF FinishedBefore, Precede
<1>4. \A u : ~FinishedBefore(u, u)
  BY <1>1, <1>2 DEF FinishedBefore, Precede
<1>5. ASSUME NEW u \in Finished, NEW v \in Finished, u # v
      PROVE  FinishedBefore(u, v) \/ FinishedBefore(v, u)
  <2>1. PICK i \in DOMAIN finished : finished[i] = u
    BY DEF Finished, Members
  <2>2. PICK j \in DOMAIN finished : finished[j] = v
    BY DEF Finished, Members
  <2>3. i < j \/ j < i
    BY <1>2, <1>5, <2>1, <2>2
  <2> QED
    BY <2>1, <2>2, <2>3 DEF FinishedBefore, Precede
<1>6. \A u, v, w : FinishedBefore(u, v) /\ FinishedBefore(v, w) => FinishedBefore(u, w)
  BY <1>3
<1>7. \A u, v \in Finished : u # v => FinishedBefore(u, v) \/ FinishedBefore(v, u)
  BY <1>5
<1>8. \A u, v : ~(FinishedBefore(u, v) /\ FinishedBefore(v, u))
  BY <1>3
<1> QED
  BY <1>4, <1>6, <1>7, <1>8

\* What has been finished of a set, the last.
LEMMA LastFinished ==
  ASSUME P!S!BInv, NEW B \in SUBSET Finished, B # {}
  PROVE  \E n \in B : \A p \in B : ~FinishedBefore(n, p)
<1>1. /\ finished \in Seq(Nodes)
      /\ \A i, j \in DOMAIN finished : finished[i] = finished[j] => i = j
  BY DEF P!S!BInv, P!S!IInv, P!S!TypeOK, P!S!VisitedOnce, P!S!Once
<1> PICK len \in Nat : len = Len(finished)
  BY <1>1
<1>2. DOMAIN finished = 1 .. len
  BY <1>1
<1> DEFINE S == {k \in Nat : \E i \in 1 .. len : k = len - i /\ finished[i] \in B}
<1>3. S # {}
  <2>1. PICK b \in B : TRUE
    OBVIOUS
  <2>2. PICK i \in 1 .. len : finished[i] = b
    BY <1>2, <2>1 DEF Finished, Members
  <2>3. len - i \in Nat
    OBVIOUS
  <2> QED
    BY <2>1, <2>2, <2>3
<1>4. PICK k \in S : \A m \in S : k <= m
  <2>1. S \in SUBSET Nat
    OBVIOUS
  <2> HIDE DEF S
  <2> QED
    BY <1>3, <2>1, LeastNumber
<1>5. PICK i \in 1 .. len : k = len - i /\ finished[i] \in B
  OBVIOUS
<1>6. ASSUME NEW p \in B, FinishedBefore(finished[i], p)
      PROVE  FALSE
  <2>1. PICK a \in 1 .. len, j \in 1 .. len : a < j /\ finished[a] = finished[i] /\ finished[j] = p
    BY <1>2, <1>6 DEF FinishedBefore, Precede
  <2>2. a = i
    BY <1>1, <1>2, <2>1
  <2>3. len - j \in S
    <3>1. len - j \in Nat /\ finished[j] \in B
      BY <2>1
    <3> QED
      BY <3>1
  <2>4. k <= len - j
    BY <1>4, <2>3
  <2> QED
    BY <1>5, <2>1, <2>2, <2>4
<1> QED
  BY <1>5, <1>6

\* An edge that is not a back edge leads to what is finished before.
LEMMA EdgesSorted ==
  ASSUME P!S!BInv, NEW u \in Finished, NEW v, IsEdge(succs, u, v), <<u, v>> \notin backEdges
  PROVE  FinishedBefore(v, u)
<1>1. P!S!ReversePostorder /\ P!S!Finished = Finished
  BY DEF P!S!BInv, P!S!IInv, P!S!Finished, Finished, P!S!Elements, Members
<1>2. PICK i \in DOMAIN succs[u] : succs[u][i] = v
  BY DEF IsEdge
<1>3. P!S!Before(finished, v, u)
  BY <1>1, <1>2 DEF P!S!ReversePostorder
<1> QED
  BY <1>3 DEF P!S!Before, FinishedBefore, Precede

\* A block is finished after what it dominates, and the back edges are the edges to a dominator.
LEMMA DominatorsLast ==
  ASSUME P!S!BInv, made \in MadeOrders, D!Stopped, Reducible,
         NEW h, NEW n \in Reached, Dom(h, n), h # n, h \in Reached
  PROVE  FinishedBefore(n, h)
<1>1. succs \in Graphs /\ Finished = Reached
  BY StoppedFacts DEF P!S!BInv, P!S!IInv, P!S!TypeOK
<1> DEFINE B == {m \in Reached : Dom(h, m) /\ m # h /\ FinishedBefore(h, m)}
<1> SUFFICES ASSUME B # {} PROVE FALSE
  <2>1. FinishedBefore(n, h) \/ FinishedBefore(h, n)
    BY <1>1, FinishIsOrder
  <2> QED
    BY <2>1
<1>2. PICK m \in B : \A p \in B : ~FinishedBefore(m, p)
  <2>1. B \in SUBSET Finished
    BY <1>1
  <2> HIDE DEF B
  <2> QED
    BY <2>1, LastFinished
<1>3. m \in Reached \ {Entry}
  <2>1. m \in Reached /\ Dom(h, m) /\ m # h
    OBVIOUS
  <2> QED
    BY <1>1, <2>1, DomAvoids
<1>4. PICK p \in Reached : IsEdge(succs, p, m) /\ ~Dom(m, p)
  BY <1>1, <1>3, EnteredFromOutside
<1>5. <<p, m>> \notin backEdges
  <2> SUFFICES ASSUME NEW e \in backEdges, e = <<p, m>> PROVE FALSE
    OBVIOUS
  <2>1. e[1] = p /\ e[2] = m
    OBVIOUS
  <2> QED
    BY <1>4, <2>1 DEF Reducible
<1>6. FinishedBefore(m, p)
  BY <1>1, <1>4, <1>5, EdgesSorted
<1>7. p \in B
  <2>1. Dom(h, m) /\ m # h /\ FinishedBefore(h, m)
    OBVIOUS
  <2>2. Dom(h, p)
    BY <1>1, <1>4, <2>1, DomAlongEdge
  <2>3. FinishedBefore(h, p) /\ p # h
    BY <1>6, <2>1, FinishIsOrder
  <2> QED
    BY <2>2, <2>3
<1> QED
  BY <1>2, <1>6, <1>7

LEMMA LatchesReported ==
  ASSUME P!S!BInv, made \in MadeOrders, D!Stopped, Reducible, NEW u, NEW h, Latch(u, h)
  PROVE  <<u, h>> \in backEdges
<1>1. succs \in Graphs /\ Finished = Reached
  BY StoppedFacts DEF P!S!BInv, P!S!IInv, P!S!TypeOK
<1>2. u \in Reached /\ IsEdge(succs, u, h) /\ Dom(h, u) /\ h \in Reached
  <2>1. u \in Reached /\ IsEdge(succs, u, h) /\ Dom(h, u)
    BY DEF Latch
  <2> QED
    BY <1>1, <2>1, ReachedFacts
<1> SUFFICES ASSUME <<u, h>> \notin backEdges PROVE FALSE
  OBVIOUS
<1>3. FinishedBefore(h, u)
  BY <1>1, <1>2, EdgesSorted
<1>4. u # h => FinishedBefore(u, h)
  BY <1>2, DominatorsLast
<1> QED
  BY <1>3, <1>4, FinishIsOrder
-----------------------------------------------------------------------------
(* m_dfs_nodes is in the order of finishing, and after it was turned round *)
(* in the reverse order, so that outer loops come before inner ones.       *)

QueueInv ==
  \A i, j \in DOMAIN m_dfs_nodes :
    i < j => IF stage = "edges" THEN FinishedBefore(m_dfs_nodes[i], m_dfs_nodes[j])
                                ELSE FinishedBefore(m_dfs_nodes[j], m_dfs_nodes[i])

LEMMA AppendBefore ==
  ASSUME NEW S, NEW s \in Seq(S), NEW n \in S, NEW u, NEW v,
         Precede(s, u, v) \/ (u \in Members(s) /\ v = n)
  PROVE  Precede(Append(s, n), u, v)
<1> DEFINE t == Append(s, n)
<1>1. /\ DOMAIN s = 1 .. Len(s) /\ Len(s) \in Nat /\ DOMAIN t = 1 .. Len(s) + 1
      /\ \A i \in DOMAIN s : t[i] = s[i]
      /\ t[Len(s) + 1] = n
  BY AppendMembers
<1> HIDE DEF t
<1>2. ASSUME NEW i \in DOMAIN s, NEW j \in DOMAIN s, i < j, s[i] = u, s[j] = v
      PROVE  \E a, b \in DOMAIN t : a < b /\ t[a] = u /\ t[b] = v
  BY <1>1, <1>2
<1>3. ASSUME NEW i \in DOMAIN s, s[i] = u, v = n
      PROVE  \E a, b \in DOMAIN t : a < b /\ t[a] = u /\ t[b] = v
  <2>1. i < Len(s) + 1 /\ i \in DOMAIN t /\ Len(s) + 1 \in DOMAIN t
    BY <1>1
  <2> QED
    BY <1>1, <1>3, <2>1
<1>4. Precede(t, u, v)
  BY <1>2, <1>3 DEF Members, Precede
<1> QED
  BY <1>4 DEF t

LEMMA NextQueue ==
  ASSUME TypesInv, ReachInv, QueueInv, Step
  PROVE  QueueInv'
<1> USE DEF TypesInv
<1>1. CASE BuildDomTree \/ CollectBackEdges
  <2>1. m_dfs_nodes' = << >>
    BY <1>1 DEF BuildDomTree, CollectBackEdges, QueuesInv, orders
  <2> QED
    BY <2>1 DEF QueueInv
<1>2. CASE UNCHANGED <<finished, m_dfs_nodes>> /\ (stage = "edges" <=> stage' = "edges")
  BY <1>2 DEF QueueInv, FinishedBefore, Precede
<1>3. CASE GoesOn
  <2>1. /\ stage = "edges" /\ stage' = "edges" /\ finished \in Seq(Nodes)
        /\ m_dfs_nodes \in Seq(DOMAIN loop_of)
    BY <1>3, SearchFacts DEF GoesOn, QueuesInv
  <2>2. CASE UNCHANGED <<finished, orders>>
    BY <1>2, <2>1, <2>2 DEF orders
  <2>3. ASSUME NEW n \in Nodes, finished' = Append(finished, n), FinishNode(n)
        PROVE  QueueInv'
    <3> PICK t : t = Append(finished, n)
      OBVIOUS
    <3>1. \A u, v : FinishedBefore(u, v) \/ (u \in Finished /\ v = n) => Precede(t, u, v)
      BY <2>1, AppendBefore DEF FinishedBefore, Finished
    <3>2. CASE m_dfs_nodes' = m_dfs_nodes
      <4>1. \A i, j \in DOMAIN m_dfs_nodes : i < j =>
              Precede(t, m_dfs_nodes[i], m_dfs_nodes[j])
        BY <2>1, <3>1 DEF QueueInv
      <4> QED
        BY <2>1, <2>3, <3>2, <4>1 DEF QueueInv, FinishedBefore, Precede
    <3>3. CASE HasLoop(n) /\ m_dfs_nodes' = Append(m_dfs_nodes, n)
      <4>0. n \in DOMAIN loop_of
        BY <3>3 DEF HasLoop
      <4>1. /\ DOMAIN m_dfs_nodes = 1 .. Len(m_dfs_nodes) /\ Len(m_dfs_nodes) \in Nat
            /\ DOMAIN m_dfs_nodes' = 1 .. Len(m_dfs_nodes) + 1
            /\ \A i \in DOMAIN m_dfs_nodes : m_dfs_nodes'[i] = m_dfs_nodes[i]
            /\ m_dfs_nodes'[Len(m_dfs_nodes) + 1] = n
        BY <2>1, <3>3, <4>0, AppendMembers
      <4>2. \A i \in DOMAIN m_dfs_nodes : m_dfs_nodes[i] \in Finished
        BY <2>1 DEF ReachInv, Members
      <4>3. ASSUME NEW i \in DOMAIN m_dfs_nodes', NEW j \in DOMAIN m_dfs_nodes', i < j
            PROVE  Precede(t, m_dfs_nodes'[i], m_dfs_nodes'[j])
        <5>1. i \in DOMAIN m_dfs_nodes /\ (j \in DOMAIN m_dfs_nodes \/ j = Len(m_dfs_nodes) + 1)
          BY <4>1, <4>3
        <5>2. CASE j \in DOMAIN m_dfs_nodes
          <6>1. FinishedBefore(m_dfs_nodes[i], m_dfs_nodes[j])
            BY <2>1, <4>3, <5>1, <5>2 DEF QueueInv
          <6> QED
            BY <3>1, <4>1, <5>1, <5>2, <6>1
        <5>3. CASE j = Len(m_dfs_nodes) + 1
          BY <3>1, <4>1, <4>2, <5>1, <5>3
        <5> QED
          BY <5>1, <5>2, <5>3
      <4> QED
        BY <2>1, <2>3, <4>3 DEF QueueInv, FinishedBefore, Precede
    <3> QED
      BY <2>3, <3>2, <3>3 DEF FinishNode
  <2> QED
    BY <1>3, <2>2, <2>3 DEF GoesOn
<1>4. ASSUME NEW src \in Nodes, NEW dst \in Nodes, Closes(src, dst)
      PROVE  QueueInv'
  BY <1>2, <1>4 DEF Closes, orders
<1>5. CASE Walks
  <2>1. CASE Collected
    <3> PICK n \in Nat : n = Len(m_dfs_nodes)
      BY DEF QueuesInv
    <3>1. /\ DOMAIN m_dfs_nodes = 1 .. n /\ stage = "edges" /\ stage' = "populate"
          /\ m_dfs_nodes' = [i \in DOMAIN m_dfs_nodes |-> m_dfs_nodes[n + 1 - i]]
          /\ finished' = finished
      BY <2>1 DEF QueuesInv, Collected, search
    <3>2. ASSUME NEW i \in 1 .. n, NEW j \in 1 .. n, i < j
          PROVE  FinishedBefore(m_dfs_nodes'[j], m_dfs_nodes'[i])
      <4>1. n + 1 - i \in 1 .. n /\ n + 1 - j \in 1 .. n /\ n + 1 - j < n + 1 - i
        BY <3>2
      <4>2. FinishedBefore(m_dfs_nodes[n + 1 - j], m_dfs_nodes[n + 1 - i])
        BY <3>1, <4>1 DEF QueueInv
      <4> QED
        BY <3>1, <4>2
    <3>3. \A u, v : FinishedBefore(u, v)' <=> FinishedBefore(u, v)
      BY <3>1 DEF FinishedBefore, Precede
    <3>4. DOMAIN m_dfs_nodes' = 1 .. n /\ stage' # "edges"
      BY <3>1
    <3> QED
      BY <3>2, <3>3, <3>4 DEF QueueInv
  <2>2. CASE ~Collected
    <3>1. stage = "populate"
      BY <1>5, <2>2 DEF Walks, EnterReducible, NextSource, SkipMarked, LeaveReducible, GraphInv
    <3>2. UNCHANGED <<finished, m_dfs_nodes>> /\ stage' = "populate"
      BY <1>5, <2>2 DEF Walks, EnterReducible, NextSource, SkipMarked, LeaveReducible, search, orders
    <3> QED
      BY <1>2, <3>1, <3>2
  <2> QED
    BY <2>1, <2>2
<1>6. ASSUME NEW l, Takes(l)
      PROVE  QueueInv'
  BY <1>2, <1>6 DEF Takes, search, orders
<1>7. ASSUME NEW b, Comes(b)
      PROVE  QueueInv'
  BY <1>2, <1>7 DEF Comes, search, orders
<1>8. ASSUME NEW root, Roots(root)
      PROVE  QueueInv'
  BY <1>2, <1>8 DEF Roots, search, orders
<1> QED
  BY <1>1, <1>3, <1>4, <1>5, <1>6, <1>7, <1>8, StepKinds
-----------------------------------------------------------------------------
(* A block that a back edge leads to is among those populate_loops visits. *)

TargetsInv ==
  stage \in {"edges", "populate"} =>
    \A e \in backEdges : HasLoop(e[2]) /\ e[2] \notin Members(free_loop_nodes)

LEMMA NextTargets ==
  ASSUME TypesInv, ReachInv, TargetsInv, Step
  PROVE  TargetsInv'
<1> USE DEF TypesInv
<1>1. CASE BuildDomTree \/ CollectBackEdges
  <2>1. stage' = "edges" => backEdges' = {}
    BY <1>1 DEF BuildDomTree, CollectBackEdges
  <2>2. stage' # "populate"
    BY <1>1 DEF BuildDomTree, CollectBackEdges
  <2> QED
    BY <2>1, <2>2 DEF TargetsInv
<1>2. CASE GoesOn \/ Walks
  <2>1. UNCHANGED <<backEdges, loops>> /\ stage \in {"edges", "populate"}
    BY <1>2 DEF GoesOn, Walks, search
  <2>2. \A e \in backEdges : HasLoop(e[2]) /\ e[2] \notin Members(free_loop_nodes)
    BY <2>1 DEF TargetsInv
  <2>3. \A b : HasLoop(b) => HasLoop(b)'
    BY <2>1 DEF loops, HasLoop
  <2>4. \A e \in backEdges : e[2] \notin Members(free_loop_nodes')
    <3>1. CASE free_loop_nodes' = free_loop_nodes
      BY <2>2, <3>1
    <3>2. ASSUME NEW n \in Nodes, FinishNode(n), free_loop_nodes' # free_loop_nodes
          PROVE  \A e \in backEdges : e[2] \notin Members(free_loop_nodes')
      <4>1. ~HasLoop(n) /\ free_loop_nodes' = Append(free_loop_nodes, n)
        BY <3>2 DEF FinishNode
      <4>2. Members(free_loop_nodes') = Members(free_loop_nodes) \cup {n}
        BY <4>1, AppendMembers DEF QueuesInv
      <4> QED
        BY <2>2, <4>1, <4>2
    <3>3. free_loop_nodes' = free_loop_nodes \/ \E n \in Nodes : FinishNode(n)
      BY <1>2 DEF GoesOn, Walks, orders, Collected, EnterReducible, NextSource, SkipMarked, LeaveReducible
    <3> QED
      BY <3>1, <3>2, <3>3
  <2>5. Members(free_loop_nodes)' = Members(free_loop_nodes')
    BY DEF Members
  <2> QED
    BY <2>1, <2>2, <2>3, <2>4, <2>5 DEF TargetsInv
<1>3. ASSUME NEW src \in Nodes, NEW dst \in Nodes, NEW cur, Closes(src, dst), Filed(src, dst, cur)
      PROVE  TargetsInv'
  <2>1. /\ stage = "edges" /\ UNCHANGED orders
        /\ backEdges' = backEdges \cup {<<src, dst>>} /\ dst \notin Finished
    BY <1>3 DEF Closes
  <2>2. dst \notin Members(free_loop_nodes) /\ Members(free_loop_nodes)' = Members(free_loop_nodes)
    BY <2>1 DEF ReachInv, orders, Members
  <2>3. DOMAIN loop_of' = DOMAIN loop_of \cup {dst, src}
    BY <1>3 DEF Filed
  <2> QED
    BY <2>1, <2>2, <2>3 DEF TargetsInv, HasLoop
<1>4. ASSUME (\E l : Takes(l)) \/ \E b : Comes(b)
      PROVE  TargetsInv'
  <2>1. UNCHANGED <<search, orders>> /\ stage = "populate"
    BY <1>4 DEF Takes, Comes
  <2>2. DOMAIN loop_of \subseteq DOMAIN loop_of'
    BY <1>4 DEF Takes, Comes, Took
  <2>3. backEdges' = backEdges /\ Members(free_loop_nodes)' = Members(free_loop_nodes)
    BY <2>1 DEF search, orders, Members
  <2> QED
    BY <2>1, <2>2, <2>3 DEF TargetsInv, HasLoop
<1>5. ASSUME NEW root, Roots(root)
      PROVE  TargetsInv'
  BY <1>5 DEF Roots, TargetsInv
<1> QED
  BY <1>1, <1>2, <1>3, <1>4, <1>5, StepKinds

-----------------------------------------------------------------------------
(* Where the latches are, if no loop is called irreducible.                *)

AllKnown == \A l \in Loops : Header(l) \in Nodes => IsReducible(l)

\* A latch is in the loop m_data gives for its header; but the header may be a latch of that loop.
Home(e, l) == /\ In(e[2], l)
              /\ \/ e[1] \in Latches(l)
                 \/ Header(l) # e[2] /\ e[2] \in Latches(l)
HomesInv ==
  stage \in {"edges", "populate"} /\ AllKnown =>
    \A e \in backEdges : \E l \in Loops : Home(e, l)

LEMMA HomesClose ==
  ASSUME TypesInv, OrderInv, HomesInv, NEW src \in Nodes, NEW dst \in Nodes, NEW cur,
         Closes(src, dst), Filed(src, dst, cur)
  PROVE  HomesInv'
<1> SUFFICES ASSUME AllKnown' PROVE HomesInv'
  BY DEF HomesInv
<1>1. /\ stage = "edges" /\ stage' = "edges" /\ UNCHANGED orders
      /\ backEdges' = backEdges \cup {<<src, dst>>} /\ dst \notin Finished
      /\ src = dst \/ Earlier(dst, src)
  BY DEF Closes
<1>2. AllKnown
  BY DEF AllKnown, Filed
<1>3. \A e \in backEdges : \E l \in Loops : Home(e, l)
  BY <1>1, <1>2 DEF HomesInv
<1>4. In(dst, cur)' /\ In(src, cur)' /\ src \in Latches(cur)' /\ cur \in Loops'
  BY DEF Filed, In, HasLoop
<1>5. src # dst => Header(cur)' # src
  <2> SUFFICES ASSUME src # dst PROVE Header(cur)' # src
    OBVIOUS
  <2>1. Earlier(dst, src) /\ ~Earlier(src, dst)
    <3>1. P!S!BInv
      BY <1>1, SearchFacts DEF TypesInv
    <3> QED
      BY <1>1, <3>1, EarlierIsOrder
  <2>2. CASE cur \in Loops
    <3>1. In(dst, cur) /\ Header(cur)' = Header(cur)
      BY <2>2 DEF Filed, In, HasLoop
    <3>2. Header(cur) = dst \/ Earlier(Header(cur), dst)
      BY <1>1, <3>1 DEF OrderInv, UnderHeader
    <3> QED
      BY <2>1, <3>1, <3>2
  <2>3. CASE cur \notin Loops
    BY <2>3 DEF Filed
  <2> QED
    BY <2>2, <2>3
<1>6. ASSUME NEW e \in backEdges
      PROVE  \E l \in Loops' : Home(e, l)'
  <2>1. PICK l \in Loops : Home(e, l)
    BY <1>3
  <2>2. /\ In(e[2], l) /\ (e[1] \in Latches(l) \/ (Header(l) # e[2] /\ e[2] \in Latches(l)))
        /\ Header(l)' = Header(l) /\ Latches(l) \subseteq Latches(l)' /\ l \in Loops'
    BY <2>1 DEF Home, Filed
  <2>3. CASE e[2] # src \/ src = dst
    <3> PICK h : h = e[2]
      OBVIOUS
    <3>a. In(h, l)
      <4>1. In(e[2], l)
        BY <2>1 DEF Home
      <4>2. e[2] \in DOMAIN loop_of /\ loop_of[e[2]] = l
        BY <4>1 DEF In
      <4> QED
        BY <4>2 DEF In
    <3>b. h \in DOMAIN loop_of /\ loop_of[h] = l
      BY <3>a DEF In, HasLoop
    <3>c. h # src \/ src = dst
      BY <2>3
    <3>0. h \in DOMAIN loop_of /\ loop_of[h] = l /\ (h # src \/ src = dst)
      BY <3>b, <3>c
    <3>1. In(h, l)'
      <4>1. h \in DOMAIN loop_of' /\ (h # src /\ h # dst => loop_of'[h] = l)
        BY <3>0 DEF Filed
      <4>2. h = dst => loop_of'[h] = l
        BY <3>0 DEF Filed, HasLoop
      <4> QED
        BY <3>0, <4>1, <4>2 DEF In
    <3> QED
      BY <2>2, <3>1 DEF Home
  <2>4. CASE e[2] = src /\ src # dst
    BY <1>4, <1>5, <2>4 DEF Home
  <2> QED
    BY <2>3, <2>4
<1>7. \E l \in Loops' : Home(<<src, dst>>, l)'
  BY <1>4 DEF Home
<1>9. \A e \in backEdges' : \E l \in Loops' : Home(e, l)'
  BY <1>1, <1>6, <1>7
<1> QED
  BY <1>9 DEF HomesInv

LEMMA NextHomes ==
  ASSUME TypesInv, OrderInv, HomesInv, Step
  PROVE  HomesInv'
<1> USE DEF TypesInv
<1>1. CASE BuildDomTree \/ CollectBackEdges
  <2>1. stage' = "edges" => backEdges' = {}
    BY <1>1 DEF BuildDomTree, CollectBackEdges
  <2>2. stage' # "populate"
    BY <1>1 DEF BuildDomTree, CollectBackEdges
  <2> QED
    BY <2>1, <2>2 DEF HomesInv
<1>2. CASE GoesOn \/ Walks
  <2>1. UNCHANGED <<backEdges, loops>> /\ stage \in {"edges", "populate"}
    BY <1>2 DEF GoesOn, Walks, search
  <2>2. /\ Loops' = Loops /\ \A b, l : In(b, l)' <=> In(b, l)
        /\ \A l : Header(l)' = Header(l) /\ Latches(l)' = Latches(l) /\ IsReducible(l)' = IsReducible(l)
    BY <2>1 DEF loops, Loops, In, Header, Latches, IsReducible
  <2> SUFFICES ASSUME AllKnown' PROVE HomesInv'
    BY DEF HomesInv
  <2>3. AllKnown
    BY <2>2 DEF AllKnown
  <2>4. \A e \in backEdges : \E l \in Loops : Home(e, l)
    BY <2>1, <2>3 DEF HomesInv
  <2>5. \A e, l : Home(e, l) => Home(e, l)'
    BY <2>2 DEF Home
  <2> QED
    BY <2>1, <2>2, <2>4, <2>5 DEF HomesInv
<1>3. ASSUME NEW src \in Nodes, NEW dst \in Nodes, NEW cur, Closes(src, dst), Filed(src, dst, cur)
      PROVE  HomesInv'
  BY <1>3, HomesClose
<1>4. ASSUME NEW l, Takes(l)
      PROVE  HomesInv'
  <2>1. l \in Loops /\ Header(l) \in Nodes /\ ~IsReducible(l) /\ UNCHANGED m_loops
    BY <1>4 DEF Takes, HeadersInv
  <2>2. ~AllKnown'
    BY <2>1 DEF AllKnown, Loops, Header, IsReducible
  <2> QED
    BY <2>2 DEF HomesInv
<1>5. ASSUME NEW b, Comes(b)
      PROVE  HomesInv'
  <2>1. /\ UNCHANGED <<search, orders>> /\ stage = "populate" /\ Took(b)
    BY <1>5 DEF Comes
  <2>2. /\ Loops' = Loops /\ \A c, l : In(c, l) => In(c, l)'
        /\ \A l \in Loops : Header(l)' = Header(l) /\ Latches(l)' = Latches(l) /\ IsReducible(l)' = IsReducible(l)
    BY <2>1 DEF Took, Stays, In, HasLoop
  <2> SUFFICES ASSUME AllKnown' PROVE HomesInv'
    BY DEF HomesInv
  <2>3. AllKnown
    BY <2>2 DEF AllKnown
  <2>4. \A e \in backEdges : \E l \in Loops : Home(e, l)
    BY <2>1, <2>3 DEF HomesInv
  <2>5. \A e : \A l \in Loops : Home(e, l) => Home(e, l)'
    BY <2>2 DEF Home
  <2>6. backEdges' = backEdges
    BY <2>1 DEF search
  <2> QED
    BY <2>1, <2>2, <2>4, <2>5, <2>6 DEF HomesInv
<1>6. ASSUME NEW root, Roots(root)
      PROVE  HomesInv'
  BY <1>6 DEF Roots, HomesInv
<1> QED
  BY <1>1, <1>2, <1>3, <1>4, <1>5, <1>6, StepKinds
-----------------------------------------------------------------------------
(* What the backward searches have been through.  The loops are searched   *)
(* from the outer to the inner ones, each behind the fence its header is,  *)
(* and no fence of an earlier search is in the natural loop of a later     *)
(* one: so each search leaves the whole natural loop of its header taken.  *)

LoopAt(i) == loop_of[m_dfs_nodes[i]]
Fence(i) == m_loops[LoopAt(i)].header
Starts(i) == m_loops[LoopAt(i)].back_edges
WithinLoop(i) == NaturalLoop(m_dfs_nodes[i]) \ {m_dfs_nodes[i]}
Current(i) == i \in DOMAIN m_dfs_nodes /\ i = loop_node /\ cur_loop # 0
Left(i) == i \in DOMAIN m_dfs_nodes /\ i < loop_node
Begun(i) == Left(i) \/ Current(i)

\* X is what has been searched so far.
Searched(X) ==
  /\ X \subseteq DOMAIN loop_of
  /\ cur_loop # 0 => \E i : Current(i) /\ cur_loop = LoopAt(i)
  /\ \A b \in m_marked : b \in X \/ \E i : Current(i) /\ b = Fence(i)
  /\ \A x \in X, p \in Nodes : IsEdge(succs, p, x) =>
       p \in X \/ p \in Members(todo) \/ \E i : Begun(i) /\ p = Fence(i)
  /\ \A i : Begun(i) => \A u \in Starts(i) :
       u \in X \/ u = Fence(i) \/ (Current(i) /\ u \in sources \cup Members(todo))
  /\ \A i : Left(i) => WithinLoop(i) \subseteq X

SearchedInv ==
  /\ stage \in {"dom3", "edges"} => m_marked = {} /\ loop_node = 1 /\ cur_loop = 0
  /\ stage = "populate" /\ Reducible /\ AllKnown => \E X : Searched(X)

LEMMA LoopAtFacts ==
  ASSUME TypesInv, stage # "done", NEW i \in DOMAIN m_dfs_nodes
  PROVE  /\ m_dfs_nodes[i] \in DOMAIN loop_of /\ m_dfs_nodes[i] \in Nodes
         /\ LoopAt(i) \in Loops /\ In(m_dfs_nodes[i], LoopAt(i))
         /\ Fence(i) \in Nodes /\ Fence(i) = Header(LoopAt(i)) /\ Starts(i) = Latches(LoopAt(i))
<1>1. m_dfs_nodes[i] \in DOMAIN loop_of /\ DOMAIN loop_of \subseteq Nodes
  BY DEF TypesInv, QueuesInv, LoopsInv
<1>2. LoopAt(i) \in Loops /\ In(m_dfs_nodes[i], LoopAt(i))
  BY <1>1 DEF TypesInv, LoopsInv, LoopAt, In
<1>3. Fence(i) = Header(LoopAt(i)) /\ Starts(i) = Latches(LoopAt(i))
  BY DEF Fence, Starts, Header, Latches
<1>4. Header(LoopAt(i)) \in Nodes
  BY <1>2 DEF TypesInv, HeadersInv
<1> QED
  BY <1>1, <1>2, <1>3, <1>4

\* No loop searched so far has its header in the natural loop of this block.
LEMMA NoFenceWithin ==
  ASSUME TypesInv, BooksInv, NaturalInv, QueueInv, stage = "populate", Reducible,
         NEW i, Current(i), NEW j, Begun(j)
  PROVE  Fence(j) \notin WithinLoop(i)
<1> SUFFICES ASSUME Fence(j) \in WithinLoop(i) PROVE FALSE
  OBVIOUS
<1> PICK h, g, k, l : h = m_dfs_nodes[i] /\ k = m_dfs_nodes[j] /\ l = LoopAt(j) /\ g = Fence(j)
  OBVIOUS
<1>1. P!S!BInv /\ D!Stopped /\ succs \in Graphs /\ made \in MadeOrders
  BY SearchFacts DEF TypesInv, GraphInv
<1>2. i \in DOMAIN m_dfs_nodes /\ j \in DOMAIN m_dfs_nodes /\ (j # i => j < i)
  BY DEF Current, Begun, Left
<1>3. l \in Loops /\ In(k, l) /\ g = Header(l) /\ g \in Nodes
  BY <1>2, LoopAtFacts
<1>4. g \in NaturalLoop(h) /\ g # h
  BY DEF WithinLoop
<1>5. Dom(h, g) /\ g \in Reached /\ h \in Reached
  BY <1>1, <1>4, NaturalDominated
<1>6. k \in NaturalLoop(g)
  <2>1. k = g \/ k \in Body(l)
    BY <1>3 DEF BooksInv
  <2>2. Body(l) \subseteq NaturalLoop(g)
    BY <1>3 DEF NaturalInv
  <2> QED
    BY <1>1, <2>1, <2>2, NaturalFacts
<1>7. Dom(g, k) /\ k \in Reached
  BY <1>1, <1>5, <1>6, NaturalDominated
<1>8. FinishedBefore(g, h)
  BY <1>1, <1>4, <1>5, DominatorsLast
<1>9. CASE k = h
  BY <1>1, <1>4, <1>5, <1>7, <1>8, <1>9, DominatorsLast, FinishIsOrder
<1>10. CASE k # h
  <2>1. Dom(h, k)
    BY <1>1, <1>5, <1>7, DomTransitive
  <2>2. FinishedBefore(k, h)
    BY <1>1, <1>5, <1>7, <1>10, <2>1, DominatorsLast
  <2>3. j < i
    BY <1>2, <1>10
  <2>4. FinishedBefore(h, k)
    BY <1>2, <2>3 DEF QueueInv
  <2> QED
    BY <1>1, <2>2, <2>4, FinishIsOrder
<1> QED
  BY <1>9, <1>10

\* A search that is over has taken the natural loop.
LEMMA AllTaken ==
  ASSUME TypesInv, BooksInv, NaturalInv, QueueInv, HomesInv, stage = "populate", Reducible, AllKnown,
         NEW X, Searched(X), todo = << >>, sources = {}, NEW i, Current(i)
  PROVE  WithinLoop(i) \subseteq X
<1> PICK h, R : h = m_dfs_nodes[i] /\ R = WithinLoop(i)
  OBVIOUS
<1>1. P!S!BInv /\ D!Stopped /\ succs \in Graphs /\ made \in MadeOrders /\ Closed
  BY SearchFacts DEF TypesInv, GraphInv
<1>2. i \in DOMAIN m_dfs_nodes /\ Begun(i)
  BY DEF Current, Begun
<1>3. R = NaturalLoop(h) \ {h}
  BY DEF WithinLoop
<1>4. \A b \in R : b \in Reached \ {h} /\ h \in Reached
  BY <1>1, <1>3, NaturalDominated
<1>5. \A j : Begun(j) => Fence(j) \notin R
  BY NoFenceWithin
<1>6. Members(todo) = {}
  BY DEF Members
<1>7. ASSUME NEW x \in X, NEW p \in R, IsEdge(succs, p, x)
      PROVE  p \in X
  <2>1. p \in Nodes
    BY <1>1, <1>4, ReachedFacts
  <2>2. p \in X \/ \E j : Begun(j) /\ p = Fence(j)
    BY <1>6, <1>7, <2>1 DEF Searched
  <2> QED
    BY <1>5, <2>2
<1>8. ASSUME NEW u \in R, Latch(u, h)
      PROVE  u \in X
  <2>1. \A s \in Starts(i) : s \in X \/ s = Fence(i)
    BY <1>2, <1>6 DEF Searched
  <2> PICK e : e = <<u, h>>
    OBVIOUS
  <2>2. e \in backEdges /\ e[1] = u /\ e[2] = h
    BY <1>1, <1>8, LatchesReported
  <2>3. PICK l \in Loops : Home(e, l)
    BY <2>2 DEF HomesInv
  <2>4. In(h, l) /\ (u \in Latches(l) \/ (Header(l) # h /\ h \in Latches(l)))
    BY <2>2, <2>3 DEF Home
  <2>5. l = LoopAt(i) /\ Latches(l) = Starts(i) /\ Header(l) = Fence(i)
    BY <2>4 DEF LoopAt, In, Latches, Starts, Header, Fence
  <2>6. CASE u \in Starts(i)
    BY <1>2, <1>5, <2>1, <2>6
  <2>7. CASE Fence(i) # h /\ h \in Starts(i)
    <3>1. h \in X /\ IsEdge(succs, u, h)
      BY <1>8, <2>1, <2>7 DEF Latch
    <3> QED
      BY <1>7, <3>1
  <2> QED
    BY <2>4, <2>5, <2>6, <2>7
<1>9. ASSUME NEW b \in R, b \notin X
      PROVE  FALSE
  <2> DEFINE U == {c \in Nodes : c # h /\ ~(c \in X /\ c \in R)}
             A == ReachAvoiding(succs, {b}, {h})
  <2>1. IsFiniteSet(Nodes) /\ Blocks(succs) = Nodes /\ Reached \subseteq Nodes
    BY <1>1, GraphFacts, ReachedFacts
  <2>2. b \in Nodes /\ {b} \in SUBSET Blocks(succs)
    BY <1>4, <2>1
  <2>3. \A W : {b} \ {h} \subseteq W /\ Confined(succs, W, {h}) => A \subseteq W
    <3>1. IsFiniteSet(Blocks(succs))
      BY <2>1
    <3> QED
      BY <2>2, <3>1, ReachFacts
  <2>4. PICK u \in A : Latch(u, h)
    <3>1. b \in NaturalLoop(h) /\ b # h
      BY <1>3
    <3> QED
      BY <3>1 DEF NaturalLoop
  <2> HIDE DEF A
  <2>5. ASSUME NEW c \in U, NEW v \in Nodes, v # h, IsEdge(succs, c, v)
        PROVE  v \in U
    <3> SUFFICES ASSUME v \in X, v \in R PROVE FALSE
      BY <2>5
    <3>1. c \in Reached
      BY <1>1, <1>4, <2>5 DEF Closed
    <3>2. v \in NaturalLoop(h) \ {h}
      BY <1>3
    <3>3. c \in NaturalLoop(h)
      BY <1>1, <2>5, <3>1, <3>2, NaturalFacts
    <3>4. c \in R
      BY <1>3, <3>3
    <3> QED
      BY <1>7, <2>5, <3>4
  <2>6. Confined(succs, U, {h})
    BY <2>1, <2>5 DEF Confined
  <2>7. {b} \ {h} \subseteq U
    BY <1>9, <2>2
  <2>8. u \in U
    <3> HIDE DEF U
    <3> QED
      BY <2>3, <2>6, <2>7
  <2>9. u \in R
    <3>1. u \in NaturalLoop(h)
      BY <1>1, <2>4, NaturalFacts
    <3> QED
      BY <1>3, <2>8, <3>1
  <2> QED
    BY <1>8, <2>4, <2>8, <2>9
<1> QED
  BY <1>9

\* The blocks, loops and fences stay where the loops do.
LEMMA SameAt ==
  ASSUME TypesInv, stage # "done", UNCHANGED <<succs, m_dfs_nodes>>,
         \A l \in Loops : Header(l)' = Header(l) /\ Latches(l)' = Latches(l),
         \A b \in DOMAIN loop_of : loop_of'[b] = loop_of[b]
  PROVE  /\ \A i \in DOMAIN m_dfs_nodes : /\ LoopAt(i)' = LoopAt(i) /\ Fence(i)' = Fence(i)
                                          /\ Starts(i)' = Starts(i)
         /\ \A i : WithinLoop(i)' = WithinLoop(i)
<1>1. ASSUME NEW i \in DOMAIN m_dfs_nodes
      PROVE  LoopAt(i)' = LoopAt(i) /\ Fence(i)' = Fence(i) /\ Starts(i)' = Starts(i)
  <2> PICK l : l = LoopAt(i)
    OBVIOUS
  <2>1. m_dfs_nodes[i] \in DOMAIN loop_of /\ l \in Loops
    BY LoopAtFacts
  <2>2. LoopAt(i)' = l
    BY <2>1 DEF LoopAt
  <2>3. /\ m_loops'[l].header = m_loops[l].header
        /\ m_loops'[l].back_edges = m_loops[l].back_edges
    BY <2>1 DEF Header, Latches
  <2> QED
    BY <2>2, <2>3 DEF Fence, Starts
<1>2. \A i : WithinLoop(i)' = WithinLoop(i)
  <2>1. Reached' = Reached
    BY SameReached
  <2> QED
    BY <2>1 DEF WithinLoop, NaturalLoop, Latch, Dom
<1> QED
  BY <1>1, <1>2

LEMMA SameKnown ==
  ASSUME UNCHANGED <<succs, backEdges>>, Loops' = Loops,
         \A l \in Loops : Header(l)' = Header(l) /\ IsReducible(l)' = IsReducible(l)
  PROVE  Reducible' = Reducible /\ AllKnown' = AllKnown
<1>1. \A d, n : Dom(d, n)' <=> Dom(d, n)
  BY DEF Dom
<1>2. Reducible' <=> Reducible
  BY <1>1 DEF Reducible
<1>3. AllKnown' <=> AllKnown
  BY DEF AllKnown
<1> QED
  BY <1>2, <1>3 DEF Reducible, AllKnown

LEMMA EntersSearched ==
  ASSUME TypesInv, stage = "populate", NEW X, Searched(X), EnterReducible,
         \A i \in DOMAIN m_dfs_nodes : /\ LoopAt(i)' = LoopAt(i) /\ Fence(i)' = Fence(i)
                                       /\ Starts(i)' = Starts(i),
         \A i : WithinLoop(i)' = WithinLoop(i)
  PROVE  Searched(X)'
<1> PICK n : n = loop_node
  OBVIOUS
<1>1. /\ n \in DOMAIN m_dfs_nodes /\ n \in Nat /\ cur_loop = 0 /\ todo = << >>
      /\ UNCHANGED <<succs, loops, m_dfs_nodes, loop_node, todo>>
      /\ cur_loop' = LoopAt(n) /\ m_marked' = m_marked \cup {Fence(n)} /\ sources' = Starts(n)
  <2>1. /\ cur_loop = 0 /\ n <= Len(m_dfs_nodes)
        /\ UNCHANGED <<succs, loops, m_dfs_nodes, loop_node, todo>>
        /\ cur_loop' = LoopAt(n) /\ m_marked' = m_marked \cup {Fence(n)} /\ sources' = Starts(n)
    BY DEF EnterReducible, LoopAt, Fence, Fenced, Starts, search, orders
  <2>2. n \in Nat \ {0} /\ DOMAIN m_dfs_nodes = 1 .. Len(m_dfs_nodes) /\ todo = << >>
    BY <2>1 DEF TypesInv, QueuesInv
  <2>3. Len(m_dfs_nodes) \in Nat
    BY DEF TypesInv, QueuesInv
  <2> QED
    BY <2>1, <2>2, <2>3
<1>2. LoopAt(n) \in Loops /\ LoopAt(n) # 0
  BY <1>1, LoopAtFacts DEF TypesInv, LoopsInv, Loops
<1>3. \A i : ~Current(i) /\ (Begun(i) <=> Left(i))
  BY <1>1 DEF Current, Begun
<1>4. /\ \A i : Left(i)' <=> Left(i)
      /\ \A i : Current(i)' <=> i = n
      /\ \A i : Begun(i)' <=> (Left(i) \/ i = n)
  BY <1>1, <1>2 DEF Left, Current, Begun
<1>5. \A i : Left(i) => i \in DOMAIN m_dfs_nodes
  BY DEF Left
<1>6. Members(todo)' = Members(todo) /\ Members(todo) = {}
  BY <1>1 DEF Members
<1>7. X \subseteq DOMAIN loop_of'
  BY <1>1 DEF Searched, loops
<1>8. cur_loop' # 0 => \E i : Current(i)' /\ cur_loop' = LoopAt(i)'
  BY <1>1, <1>4
<1>9. \A b \in m_marked' : b \in X \/ \E i : Current(i)' /\ b = Fence(i)'
  BY <1>1, <1>3, <1>4 DEF Searched
<1>10. \A x \in X, p \in Nodes : IsEdge(succs', p, x) =>
         p \in X \/ p \in Members(todo)' \/ \E i : Begun(i)' /\ p = Fence(i)'
  BY <1>1, <1>3, <1>4, <1>5, <1>6 DEF Searched
<1>11. \A i : Begun(i)' => \A u \in Starts(i)' :
         u \in X \/ u = Fence(i)' \/ (Current(i)' /\ u \in sources' \cup Members(todo)')
  BY <1>1, <1>3, <1>4, <1>5 DEF Searched
<1>12. \A i : Left(i)' => WithinLoop(i)' \subseteq X
  BY <1>4 DEF Searched
<1> QED
  BY <1>7, <1>8, <1>9, <1>10, <1>11, <1>12 DEF Searched, IsEdge

LEMMA CallsSearched ==
  ASSUME TypesInv, stage = "populate", NEW X, Searched(X), NextSource \/ SkipMarked,
         \A i \in DOMAIN m_dfs_nodes : /\ LoopAt(i)' = LoopAt(i) /\ Fence(i)' = Fence(i)
                                       /\ Starts(i)' = Starts(i),
         \A i : WithinLoop(i)' = WithinLoop(i)
  PROVE  Searched(X)'
<1>1. /\ UNCHANGED <<succs, loops, m_dfs_nodes, loop_node, cur_loop, m_marked>> /\ cur_loop # 0
  BY DEF NextSource, SkipMarked, search, orders
<1>2. PICK n : Current(n) /\ cur_loop = LoopAt(n)
  BY <1>1 DEF Searched
<1>3. /\ \A b \in sources \cup Members(todo) : b \in sources' \/ b \in Members(todo') \/ b \in m_marked
      /\ \A b \in Members(todo) : b \in Members(todo') \/ b \in m_marked
  <2>1. CASE NextSource
    <3>1. /\ todo = << >>
          /\ \E s \in sources : todo' = <<s>> /\ sources' = sources \ {s}
      BY <2>1 DEF NextSource
    <3>2. Members(<< >>) = {} /\ \A s : Members(<<s>>) = {s}
      BY DEF Members
    <3> QED
      BY <3>1, <3>2
  <2>2. CASE SkipMarked
    <3>1. todo \in Seq(Nodes) /\ todo # << >> /\ todo' = Tail(todo) /\ Head(todo) \in m_marked
          /\ sources' = sources
      BY <2>2 DEF SkipMarked, TypesInv, QueuesInv
    <3>2. Members(todo) \subseteq {Head(todo)} \cup Members(Tail(todo))
      BY <3>1, HeadOrTail
    <3> QED
      BY <3>1, <3>2
  <2> QED
    BY <2>1, <2>2
<1>4. /\ \A i : Left(i)' <=> Left(i)
      /\ \A i : Current(i)' <=> Current(i)
      /\ \A i : Begun(i)' <=> Begun(i)
      /\ \A i : Begun(i) => i \in DOMAIN m_dfs_nodes
      /\ \A i : Current(i) => i = n /\ Begun(i)
  BY <1>1, <1>2 DEF Left, Current, Begun
<1>5. Members(todo)' = Members(todo')
  BY DEF Members
<1>6. \A b \in m_marked : b \in X \/ b = Fence(n)
  BY <1>2, <1>4 DEF Searched
<1>7. X \subseteq DOMAIN loop_of'
  BY <1>1 DEF Searched, loops
<1>8. cur_loop' # 0 => \E i : Current(i)' /\ cur_loop' = LoopAt(i)'
  BY <1>1, <1>2, <1>4
<1>9. \A b \in m_marked' : b \in X \/ \E i : Current(i)' /\ b = Fence(i)'
  BY <1>1, <1>2, <1>4, <1>6
<1>10. \A x \in X, p \in Nodes : IsEdge(succs', p, x) =>
         p \in X \/ p \in Members(todo)' \/ \E i : Begun(i)' /\ p = Fence(i)'
  <2> TAKE x \in X, p \in Nodes
  <2> SUFFICES ASSUME IsEdge(succs, p, x)
               PROVE  p \in X \/ p \in Members(todo') \/ \E i : Begun(i) /\ p = Fence(i)
    BY <1>1, <1>4, <1>5
  <2>1. p \in X \/ p \in Members(todo) \/ \E i : Begun(i) /\ p = Fence(i)
    BY DEF Searched
  <2> QED
    BY <1>2, <1>3, <1>4, <1>6, <2>1
<1>11. \A i : Begun(i)' => \A u \in Starts(i)' :
         u \in X \/ u = Fence(i)' \/ (Current(i)' /\ u \in sources' \cup Members(todo)')
  <2> SUFFICES ASSUME NEW i, Begun(i), NEW u \in Starts(i)
               PROVE  u \in X \/ u = Fence(i) \/ (Current(i) /\ u \in sources' \cup Members(todo'))
    BY <1>1, <1>4, <1>5
  <2>1. u \in X \/ u = Fence(i) \/ (Current(i) /\ u \in sources \cup Members(todo))
    BY DEF Searched
  <2> QED
    BY <1>3, <1>4, <1>6, <2>1
<1>12. \A i : Left(i)' => WithinLoop(i)' \subseteq X
  BY <1>4 DEF Searched
<1> QED
  BY <1>7, <1>8, <1>9, <1>10, <1>11, <1>12 DEF Searched, IsEdge

LEMMA LeavesSearched ==
  ASSUME TypesInv, stage = "populate", NEW X, Searched(X), LeaveReducible,
         \A i : Current(i) => WithinLoop(i) \subseteq X,
         \A i \in DOMAIN m_dfs_nodes : /\ LoopAt(i)' = LoopAt(i) /\ Fence(i)' = Fence(i)
                                       /\ Starts(i)' = Starts(i),
         \A i : WithinLoop(i)' = WithinLoop(i)
  PROVE  Searched(X)'
<1>1. /\ UNCHANGED <<succs, loops, m_dfs_nodes, sources, todo>> /\ cur_loop # 0 /\ cur_loop' = 0
      /\ todo = << >> /\ sources = {} /\ loop_node' = loop_node + 1
      /\ m_marked' = m_marked \ {m_loops[cur_loop].header}
  BY DEF LeaveReducible, search, orders
<1>2. PICK n : Current(n) /\ cur_loop = LoopAt(n)
  BY <1>1 DEF Searched
<1>3. /\ n = loop_node /\ n \in DOMAIN m_dfs_nodes /\ n \in Nat
      /\ \A i \in DOMAIN m_dfs_nodes : i \in Nat
      /\ m_marked' = m_marked \ {Fence(n)}
  BY <1>1, <1>2 DEF Current, TypesInv, QueuesInv, Fence
<1>4. /\ \A i : Current(i) <=> i = n
      /\ \A i : ~Current(i)'
      /\ \A i : Left(i)' <=> (Left(i) \/ i = n)
      /\ \A i : Begun(i)' <=> Begun(i)
      /\ \A i : Begun(i) => i \in DOMAIN m_dfs_nodes
      /\ \A i : Left(i) => i # n
  <2>1. \A i \in DOMAIN m_dfs_nodes : i < n + 1 <=> (i < n \/ i = n)
    BY <1>3
  <2>2. ~(n < n)
    BY <1>3
  <2> QED
    BY <1>1, <1>2, <1>3, <2>1, <2>2 DEF Left, Current, Begun
<1>5. Members(todo)' = Members(todo) /\ Members(todo) = {}
  BY <1>1 DEF Members
<1>7. X \subseteq DOMAIN loop_of'
  BY <1>1 DEF Searched, loops
<1>9. \A b \in m_marked' : b \in X
  BY <1>3, <1>4 DEF Searched
<1>10. \A x \in X, p \in Nodes : IsEdge(succs', p, x) =>
         p \in X \/ p \in Members(todo)' \/ \E i : Begun(i)' /\ p = Fence(i)'
  BY <1>1, <1>4, <1>5 DEF Searched
<1>11. \A i : Begun(i)' => \A u \in Starts(i)' : u \in X \/ u = Fence(i)'
  BY <1>1, <1>4, <1>5 DEF Searched
<1>12. \A i : Left(i)' => WithinLoop(i)' \subseteq X
  BY <1>4 DEF Searched
<1> QED
  BY <1>1, <1>7, <1>9, <1>10, <1>11, <1>12 DEF Searched, IsEdge

LEMMA ComesSearched ==
  ASSUME TypesInv, ReachInv, NEW X, Searched(X), NEW b, Comes(b),
         \A i \in DOMAIN m_dfs_nodes : /\ LoopAt(i)' = LoopAt(i) /\ Fence(i)' = Fence(i)
                                       /\ Starts(i)' = Starts(i),
         \A i : WithinLoop(i)' = WithinLoop(i)
  PROVE  Searched(X \cup {b})'
<1>1. /\ b \in Nodes /\ stage = "populate" /\ SearchBlock /\ b = Head(todo) /\ todo # << >>
      /\ Took(b) /\ UNCHANGED <<search, orders, cur_loop>>
  BY DEF Comes
<1>2. /\ UNCHANGED <<succs, m_dfs_nodes, loop_node, cur_loop, sources>>
      /\ cur_loop # 0 /\ m_marked' = m_marked \cup {b} /\ todo \in Seq(Nodes)
      /\ todo' = m_preds(succs, made, b) \o Tail(todo)
  BY <1>1 DEF SearchBlock, Marked, search, orders, TypesInv, QueuesInv
<1>3. /\ \A i : Left(i)' <=> Left(i)
      /\ \A i : Current(i)' <=> Current(i)
      /\ \A i : Begun(i)' <=> Begun(i)
      /\ \A i : Begun(i) => i \in DOMAIN m_dfs_nodes
      /\ \A i : Current(i) => Begun(i)
      /\ \A i : Left(i) => Begun(i)
  BY <1>2 DEF Left, Current, Begun
<1>4. succs \in Graphs /\ made \in MadeOrders
  BY <1>1, SearchFacts DEF TypesInv
<1> PICK p, t : p = m_preds(succs, made, b) /\ t = Tail(todo)
  OBVIOUS
<1>5. /\ p \in Seq(Nodes) /\ t \in Seq(Nodes)
      /\ \A u \in Nodes : IsEdge(succs, u, b) => u \in Members(p)
      /\ \A u \in Members(todo) : u = b \/ u \in Members(t)
  <2>1. p \in Seq(Nodes) /\ \A u \in Nodes : IsEdge(succs, u, b) <=> \E i \in DOMAIN p : p[i] = u
    BY <1>4, PredsFacts
  <2>2. Members(todo) \subseteq {b} \cup Members(t) /\ t \in Seq(Nodes)
    BY <1>1, <1>2, HeadOrTail, HeadAndTail
  <2>3. \A u \in Members(todo) : u = b \/ u \in Members(t)
    BY <2>2
  <2>4. \A u : u \in Members(p) <=> \E i \in DOMAIN p : p[i] = u
    BY DEF Members
  <2> QED
    BY <2>1, <2>2, <2>3, <2>4
<1>6. Members(todo)' = Members(p) \cup Members(t)
  <2>1. \A q \in Seq(Nodes), r \in Seq(Nodes) : Members(q \o r) = Members(q) \cup Members(r)
    BY ConcatMembers
  <2>2. Members(todo)' = Members(todo')
    BY DEF Members
  <2> QED
    BY <1>2, <1>5, <2>1, <2>2
<1> DEFINE Y == X \cup {b}
<1>7. Y \subseteq DOMAIN loop_of'
  BY <1>1 DEF Searched, Took, HasLoop
<1>8. cur_loop' # 0 => \E i : Current(i)' /\ cur_loop' = LoopAt(i)'
  BY <1>2, <1>3 DEF Searched
<1>9. \A c \in m_marked' : c \in Y \/ \E i : Current(i)' /\ c = Fence(i)'
  <2> SUFFICES ASSUME NEW c \in m_marked', c # b PROVE c \in X \/ \E i : Current(i) /\ c = Fence(i)
    BY <1>3
  <2> QED
    BY <1>2 DEF Searched
<1>10. \A x \in Y, u \in Nodes : IsEdge(succs, u, x) =>
         u \in Y \/ u \in Members(todo)' \/ \E i : Begun(i)' /\ u = Fence(i)'
  <2> TAKE x \in Y, u \in Nodes
  <2> SUFFICES ASSUME IsEdge(succs, u, x)
               PROVE  u \in Y \/ u \in Members(todo)' \/ \E i : Begun(i) /\ u = Fence(i)
    BY <1>3
  <2>1. CASE x = b
    BY <1>5, <1>6, <2>1
  <2>2. CASE x \in X
    <3>1. u \in X \/ u \in Members(todo) \/ \E i : Begun(i) /\ u = Fence(i)
      BY <2>2 DEF Searched
    <3> QED
      BY <1>5, <1>6, <3>1
  <2> QED
    BY <2>1, <2>2
<1>11. \A i : Begun(i)' => \A u \in Starts(i)' :
         u \in Y \/ u = Fence(i)' \/ (Current(i)' /\ u \in sources' \cup Members(todo)')
  <2> SUFFICES ASSUME NEW i, Begun(i), NEW u \in Starts(i)
               PROVE  u \in Y \/ u = Fence(i) \/ (Current(i) /\ u \in sources \cup Members(todo)')
    BY <1>2, <1>3
  <2>1. u \in X \/ u = Fence(i) \/ (Current(i) /\ u \in sources \cup Members(todo))
    BY DEF Searched
  <2> QED
    BY <1>5, <1>6, <2>1
<1>12. \A i : Left(i)' => WithinLoop(i)' \subseteq Y
  BY <1>3 DEF Searched
<1>13. \A x \in Y, u \in Nodes : IsEdge(succs', u, x) =>
         u \in Y \/ u \in Members(todo)' \/ \E i : Begun(i)' /\ u = Fence(i)'
  BY <1>2, <1>10
<1> HIDE DEF Y
<1> PICK Z : Z = Y
  OBVIOUS
<1>14. Searched(Z)'
  BY <1>7, <1>8, <1>9, <1>11, <1>12, <1>13 DEF Searched, IsEdge
<1> QED
  BY <1>14 DEF Y

LEMMA NextSearched ==
  ASSUME TypesInv, BooksInv, ReachInv, NaturalInv, QueueInv, HomesInv, SearchedInv, Step
  PROVE  SearchedInv'
<1> USE DEF TypesInv
<1>1. CASE stage \in {"dom3", "edges"} /\ ~Collected
  <2>1. UNCHANGED walk /\ stage' \in {"dom3", "edges"}
    <3>1. cur_loop = 0 /\ stage \notin {"populate", "done"}
      BY <1>1 DEF GraphInv
    <3> QED
      BY <1>1, <3>1 DEF Step, BuildDomTree, CollectBackEdges, Search, EnterReducible, TakeLatches,
                        NextSource, SkipMarked, SearchBlock, LeaveReducible, InitRootLoop
  <2>2. stage' # "populate"
    BY <2>1
  <2> QED
    BY <1>1, <2>1, <2>2 DEF SearchedInv, walk
<1>2. CASE Collected
  <2>1. /\ m_marked' = {} /\ loop_node' = 1 /\ cur_loop' = 0 /\ stage' = "populate"
        /\ m_dfs_nodes' \in Seq(Nodes)
    <3>1. /\ m_marked = {} /\ loop_node = 1 /\ cur_loop = 0 /\ UNCHANGED walk /\ stage' = "populate"
      BY <1>2 DEF Collected, SearchedInv
    <3>2. m_dfs_nodes' \in Seq(Nodes)
      <4>1. m_dfs_nodes \in Seq(Nodes)
        <5>1. m_dfs_nodes \in Seq(DOMAIN loop_of) /\ DOMAIN loop_of \subseteq Nodes
          BY DEF QueuesInv, LoopsInv
        <5> QED
          BY <5>1, SubSeqs
      <4>2. Len(m_dfs_nodes) \in Nat /\ DOMAIN m_dfs_nodes = 1 .. Len(m_dfs_nodes)
            /\ m_dfs_nodes' = [i \in 1 .. Len(m_dfs_nodes) |-> m_dfs_nodes[Len(m_dfs_nodes) + 1 - i]]
        BY <1>2, <4>1 DEF Collected
      <4>3. \A i \in 1 .. Len(m_dfs_nodes) : m_dfs_nodes[Len(m_dfs_nodes) + 1 - i] \in Nodes
        BY <4>1
      <4> QED
        BY <4>2, <4>3
    <3> QED
      BY <3>1, <3>2 DEF walk
  <2>2. \A i : ~Left(i)' /\ ~Current(i)' /\ ~Begun(i)'
    <3>1. \A i \in DOMAIN m_dfs_nodes' : i \in Nat /\ ~(i < 1)
      BY <2>1
    <3> QED
      BY <2>1, <3>1 DEF Left, Current, Begun
  <2>3. Searched({})'
    BY <2>1, <2>2 DEF Searched
  <2> QED
    BY <2>1, <2>3 DEF SearchedInv
<1>3. CASE stage = "populate" /\ stage' = "populate"
  <2> SUFFICES ASSUME Reducible', AllKnown' PROVE \E X : Searched(X)'
    BY <1>3 DEF SearchedInv
  <2>1. ~BuildDomTree /\ ~CollectBackEdges /\ ~GoesOn /\ ~Collected
        /\ (\A src, dst : ~Closes(src, dst)) /\ (\A root : ~Roots(root))
    BY <1>3 DEF BuildDomTree, CollectBackEdges, GoesOn, Closes, Roots, Collected
  <2>2. /\ UNCHANGED <<succs, backEdges, m_dfs_nodes>> /\ Loops' = Loops
        /\ \A l \in Loops : Header(l)' = Header(l) /\ IsReducible(l)' = IsReducible(l)
                            /\ Latches(l)' = Latches(l)
        /\ EnterReducible \/ NextSource \/ SkipMarked \/ LeaveReducible =>
             \A b \in DOMAIN loop_of : loop_of'[b] = loop_of[b]
        /\ (\E b : Comes(b)) => \A b \in DOMAIN loop_of : loop_of'[b] = loop_of[b]
    <3>1. CASE EnterReducible \/ NextSource \/ SkipMarked \/ LeaveReducible
      <4>1. UNCHANGED <<search, loops, orders>>
        BY <3>1 DEF EnterReducible, NextSource, SkipMarked, LeaveReducible
      <4>2. \A b : Comes(b) => \A c \in DOMAIN loop_of : loop_of'[c] = loop_of[c]
        BY DEF Comes, Took
      <4> QED
        BY <4>1, <4>2 DEF search, loops, orders, Loops, Header, IsReducible, Latches
    <3>2. ASSUME NEW l, Takes(l)
          PROVE  FALSE
      <4>1. l \in Loops /\ Header(l) \in Nodes /\ ~IsReducible(l) /\ UNCHANGED m_loops
        BY <3>2 DEF Takes, HeadersInv
      <4>2. ~AllKnown'
        BY <4>1 DEF AllKnown, Loops, Header, IsReducible
      <4> QED
        BY <4>2
    <3>3. ASSUME NEW b, Comes(b)
          PROVE  /\ UNCHANGED <<succs, backEdges, m_dfs_nodes>> /\ Loops' = Loops
                 /\ \A l \in Loops : Header(l)' = Header(l) /\ IsReducible(l)' = IsReducible(l)
                                     /\ Latches(l)' = Latches(l)
                 /\ \A c \in DOMAIN loop_of : loop_of'[c] = loop_of[c]
      BY <3>3 DEF Comes, Took, Stays, search, orders, HasLoop
    <3> QED
      BY <2>1, <3>1, <3>2, <3>3, StepKinds DEF Walks
  <2>3. Reducible /\ AllKnown
    BY <2>2, SameKnown
  <2>4. PICK X : Searched(X)
    BY <1>3, <2>3 DEF SearchedInv
  <2>5. CASE EnterReducible \/ NextSource \/ SkipMarked \/ LeaveReducible
    <3>1. /\ \A i \in DOMAIN m_dfs_nodes : /\ LoopAt(i)' = LoopAt(i) /\ Fence(i)' = Fence(i)
                                           /\ Starts(i)' = Starts(i)
          /\ \A i : WithinLoop(i)' = WithinLoop(i)
      BY <1>3, <2>2, <2>5, SameAt
    <3>2. LeaveReducible => \A i : Current(i) => WithinLoop(i) \subseteq X
      BY <1>3, <2>3, <2>4, AllTaken DEF LeaveReducible
    <3>3. Searched(X)'
      BY <1>3, <2>4, <2>5, <3>1, <3>2, EntersSearched, CallsSearched, LeavesSearched
    <3> QED
      BY <3>3
  <2>6. ASSUME NEW b, Comes(b)
        PROVE  \E Y : Searched(Y)'
    <3>1. /\ \A i \in DOMAIN m_dfs_nodes : /\ LoopAt(i)' = LoopAt(i) /\ Fence(i)' = Fence(i)
                                           /\ Starts(i)' = Starts(i)
          /\ \A i : WithinLoop(i)' = WithinLoop(i)
      BY <1>3, <2>2, <2>6, SameAt
    <3> QED
      BY <2>4, <2>6, <3>1, ComesSearched
  <2>7. ASSUME NEW l, Takes(l)
        PROVE  FALSE
    <3>1. l \in Loops /\ Header(l) \in Nodes /\ ~IsReducible(l) /\ UNCHANGED m_loops
      BY <2>7 DEF Takes, HeadersInv
    <3>2. ~AllKnown'
      BY <3>1 DEF AllKnown, Loops, Header, IsReducible
    <3> QED
      BY <3>2
  <2> QED
    BY <2>1, <2>5, <2>6, <2>7, StepKinds DEF Walks
<1>4. CASE stage \in {"populate", "done"} /\ stage' # "populate"
  <2>1. stage' = "done"
    BY <1>4, StepKinds DEF BuildDomTree, CollectBackEdges, GoesOn, Closes, Walks, Takes, Comes, Roots
  <2> QED
    BY <2>1 DEF SearchedInv
<1>5. CASE stage = "done" /\ stage' = "populate"
  BY <1>5, StepKinds DEF BuildDomTree, CollectBackEdges, GoesOn, Closes, Walks, Takes, Comes, Roots
<1> QED
  BY <1>1, <1>2, <1>3, <1>4, <1>5 DEF GraphInv

-----------------------------------------------------------------------------
(* What init_root_loop is left with.                                       *)

RestInv ==
  stage = "done" /\ Reducible /\ AllKnown =>
    \A h \in Headers : \A b \in NaturalLoop(h) : b \in DOMAIN loop_of /\ loop_of[b] # Root

LEMMA RootsRest ==
  ASSUME TypesInv, ReachInv, QueueInv, TargetsInv, SearchedInv, NEW root, Roots(root), InitRootLoop
  PROVE  RestInv'
<1> USE DEF TypesInv
<1>1. /\ stage = "populate" /\ cur_loop = 0 /\ UNCHANGED <<search, orders>> /\ Rooted(root)
      /\ loop_node > Len(m_dfs_nodes)
  BY DEF Roots, InitRootLoop
<1>2. P!S!BInv /\ D!Stopped /\ succs \in Graphs /\ made \in MadeOrders
  BY <1>1, SearchFacts DEF GraphInv
<1>3. Finished = Reached
  BY <1>2, StoppedFacts DEF P!S!BInv
<1>4. UNCHANGED <<succs, backEdges>>
  BY <1>1 DEF search
<1>5. /\ \A h : NaturalLoop(h)' = NaturalLoop(h)
      /\ \A h : IsHeader(h)' <=> IsHeader(h)
      /\ Reducible' <=> Reducible
  <2>1. \A d, n : Dom(d, n)' <=> Dom(d, n)
    BY <1>4 DEF Dom
  <2> QED
    BY <1>4, <2>1, SameNatural DEF Reducible
<1>6. AllKnown' => AllKnown
  BY <1>1 DEF AllKnown, Rooted, Stays
<1> SUFFICES ASSUME Reducible', AllKnown', NEW h \in Nodes, IsHeader(h), NEW b \in NaturalLoop(h)
             PROVE  b \in DOMAIN loop_of' /\ loop_of'[b] # Root'
  BY <1>5 DEF RestInv, Headers
<1>7. PICK X : Searched(X)
  BY <1>1, <1>5, <1>6 DEF SearchedInv
<1>8. PICK u : Latch(u, h)
  BY DEF IsHeader
<1> PICK e : e = <<u, h>>
  OBVIOUS
<1>9. e \in backEdges /\ e[2] = h
  BY <1>2, <1>5, <1>8, LatchesReported
<1>10. h \notin Members(free_loop_nodes)
  BY <1>1, <1>9 DEF TargetsInv
<1>11. h \in Members(m_dfs_nodes)
  BY <1>1, <1>3, <1>10 DEF ReachInv, IsHeader
<1>12. PICK i \in DOMAIN m_dfs_nodes : m_dfs_nodes[i] = h
  BY <1>11 DEF Members
<1>13. Left(i)
  <2>1. DOMAIN m_dfs_nodes = 1 .. Len(m_dfs_nodes) /\ Len(m_dfs_nodes) \in Nat /\ loop_node \in Nat
    BY DEF QueuesInv
  <2>2. i < loop_node
    BY <1>1, <1>12, <2>1
  <2> QED
    BY <1>12, <2>2 DEF Left
<1>14. NaturalLoop(h) \ {h} \subseteq X /\ X \subseteq DOMAIN loop_of
  BY <1>7, <1>12, <1>13 DEF Searched, WithinLoop
<1>15. h \in DOMAIN loop_of
  BY <1>1, <1>12, LoopAtFacts
<1>16. b \in DOMAIN loop_of
  BY <1>14, <1>15
<1> QED
  BY <1>1, <1>16 DEF Rooted, LoopsInv

LEMMA NextRest ==
  ASSUME TypesInv, ReachInv, QueueInv, TargetsInv, SearchedInv, Step
  PROVE  RestInv'
<1>1. CASE stage' # "done"
  BY <1>1 DEF RestInv
<1>2. ASSUME stage' = "done", NEW root, Roots(root)
      PROVE  RestInv'
  <2>1. InitRootLoop
    <3>1. stage = "populate"
      BY <1>2 DEF Roots
    <3> QED
      BY <1>2, <3>1 DEF Step, BuildDomTree, CollectBackEdges, Search, EnterReducible, TakeLatches, Collected,
                        NextSource, SkipMarked, SearchBlock, LeaveReducible, InitRootLoop
  <2> QED
    BY <1>2, <2>1, RootsRest
<1> QED
  BY <1>1, <1>2, StepKinds DEF BuildDomTree, CollectBackEdges, GoesOn, Closes, Walks, Takes, Comes

RestsInv == QueueInv /\ TargetsInv /\ HomesInv /\ SearchedInv /\ RestInv

LEMMA SameRests ==
  ASSUME RestsInv, UNCHANGED vars
  PROVE  RestsInv'
<1>1. /\ UNCHANGED <<succs, finished, backEdges, stage, m_loops, loop_of, m_dfs_nodes,
                     free_loop_nodes, m_marked, loop_node, cur_loop, sources, todo>>
  BY DEF vars, search, loops, orders, walk
<1>2. /\ Loops' = Loops /\ Root' = Root
      /\ \A l : Header(l)' = Header(l) /\ IsReducible(l)' = IsReducible(l) /\ Latches(l)' = Latches(l)
      /\ \A b, l : In(b, l)' <=> In(b, l)
  BY <1>1 DEF Loops, Root, Header, IsReducible, Latches, In
<1>3. /\ Reducible' <=> Reducible
      /\ AllKnown' <=> AllKnown
  BY <1>1, <1>2, SameKnown DEF Reducible, AllKnown, Dom
<1>4. QueueInv'
  BY <1>1 DEF RestsInv, QueueInv, FinishedBefore, Precede
<1>5. HomesInv'
  <2>1. \A e, l : Home(e, l)' <=> Home(e, l)
    BY <1>2 DEF Home
  <2> QED
    BY <1>1, <1>2, <1>3, <2>1 DEF RestsInv, HomesInv
<1>8. TargetsInv'
  <2>1. Members(free_loop_nodes)' = Members(free_loop_nodes)
    BY <1>1 DEF Members
  <2> QED
    BY <1>1, <2>1 DEF RestsInv, TargetsInv, HasLoop
<1>6. SearchedInv'
  <2>1. /\ \A i : LoopAt(i)' = LoopAt(i) /\ Fence(i)' = Fence(i) /\ Starts(i)' = Starts(i)
        /\ \A i : Left(i)' = Left(i) /\ Current(i)' = Current(i) /\ Begun(i)' = Begun(i)
    BY <1>1 DEF LoopAt, Fence, Starts, Left, Current, Begun
  <2>2. \A i : WithinLoop(i)' = WithinLoop(i)
    BY <1>1, SameReached DEF WithinLoop, NaturalLoop, Latch, Dom
  <2>3. Members(todo)' = Members(todo)
    BY <1>1 DEF Members
  <2>4. \A X : Searched(X)' <=> Searched(X)
    BY <1>1, <2>1, <2>2, <2>3 DEF Searched, IsEdge
  <2> QED
    BY <1>1, <1>3, <2>4 DEF RestsInv, SearchedInv
<1>7. RestInv'
  <2>1. Headers' = Headers /\ \A h : NaturalLoop(h)' = NaturalLoop(h)
    BY <1>1, SameNatural DEF Headers
  <2> QED
    BY <1>1, <1>2, <1>3, <2>1 DEF RestsInv, RestInv
<1> QED
  BY <1>4, <1>5, <1>6, <1>7, <1>8 DEF RestsInv

LEMMA InitRests == Init => NaturalInv /\ RestsInv
<1> SUFFICES ASSUME Init PROVE NaturalInv /\ RestsInv
  OBVIOUS
<1>1. stage = "dom3" /\ m_marked = {} /\ loop_node = 1 /\ cur_loop = 0 /\ m_dfs_nodes = << >>
  BY DEF Init
<1>2. QueueInv /\ TargetsInv /\ HomesInv /\ SearchedInv /\ RestInv /\ NaturalInv
  BY <1>1 DEF QueueInv, TargetsInv, HomesInv, SearchedInv, RestInv, NaturalInv
<1> QED
  BY <1>2 DEF RestsInv

LEMMA NextRests == LoopInv /\ NaturalInv /\ RestsInv /\ [Next]_vars => NaturalInv' /\ RestsInv'
<1> SUFFICES ASSUME LoopInv, NaturalInv, RestsInv, [Next]_vars PROVE NaturalInv' /\ RestsInv'
  OBVIOUS
<1>1. CASE Step
  BY <1>1, NextNatural, NextQueue, NextTargets, NextHomes, NextSearched, NextRest DEF LoopInv, RestsInv
<1>2. CASE UNCHANGED vars
  BY <1>2, SameNaturalInv, SameRests
<1> QED
  BY <1>1, <1>2 DEF Next, Done

LEMMA RestsAlways == Spec => [](LoopInv /\ NaturalInv /\ RestsInv)
  BY InitLoopInv, NextLoopInv, InitRests, NextRests, PTL DEF Spec

LEMMA RestAtTheRoot ==
  ASSUME LoopInv, NaturalInv, RestsInv
  PROVE  RootHoldsTheRest
<1> SUFFICES ASSUME Built, NEW b \in Reached
             PROVE  /\ HasLoop(b)
                    /\ Reducible /\ (\A h \in Headers : b \notin NaturalLoop(h))
                         => loop_of[b] = Root
                    /\ Reducible /\ KnownReducible /\ loop_of[b] = Root
                         => \A h \in Headers : b \notin NaturalLoop(h)
  BY DEF RootHoldsTheRest
<1> USE DEF LoopInv, TypesInv
<1>1. stage = "done" /\ HasLoop(b)
  BY DEF Built, ReachInv, HasLoop
<1>2. ASSUME Reducible, loop_of[b] # Root
      PROVE  \E h \in Headers : b \in NaturalLoop(h)
  <2> PICK l : l = loop_of[b]
    OBVIOUS
  <2>2. l \in Loops /\ In(b, l) /\ Header(l) \in Nodes
    BY <1>1, <1>2 DEF HasLoop, LoopsInv, In, HeadersInv
  <2> PICK h : h = Header(l)
    OBVIOUS
  <2>3. Body(l) \subseteq NaturalLoop(h) /\ succs \in Graphs /\ made \in MadeOrders
    BY <1>1, <1>2, <2>2, SearchFacts DEF NaturalInv
  <2>4. b \in NaturalLoop(h)
    BY <2>2, <2>3, NaturalFacts DEF BooksInv
  <2>5. h \in Headers
    <3>1. h \in Nodes /\ IsHeader(h)
      BY <1>1, <1>2, <2>2 DEF NaturalInv
    <3> QED
      BY <3>1 DEF Headers
  <2> QED
    BY <2>4, <2>5
<1>3. ASSUME Reducible, KnownReducible, loop_of[b] = Root, NEW h \in Headers
      PROVE  b \notin NaturalLoop(h)
  <2>1. AllKnown
    <3>1. Header(Root) \notin Nodes
      BY <1>1, DFSAssumption DEF HeadersInv
    <3> QED
      BY <1>3, <3>1 DEF AllKnown, KnownReducible, IsReducible
  <2> QED
    BY <1>1, <1>3, <2>1 DEF RestsInv, RestInv
<1> QED
  BY <1>1, <1>2, <1>3

(* When the tree is built every block the search reached has a loop; in a  *)
(* reducible graph it is the root loop for the blocks that are in no       *)
(* natural loop, and for no others if the dominator tree knows the loops:  *)
(* the fences of the outer loops, which are searched first, stop no search *)
(* of an inner loop within its natural loop.                               *)
THEOREM RootHasTheRest == Spec => []RootHoldsTheRest
  BY RestAtTheRoot, RestsAlways, PTL

-----------------------------------------------------------------------------
(* inners is the inverse of outer.                                         *)

TiesInv == \A l, m \in Loops : m \in Inners(l) <=> Outer(m) = l

LEMMA SameTies ==
  ASSUME UNCHANGED m_loops
  PROVE  /\ Loops' = Loops
         /\ \A l : Inners(l)' = Inners(l) /\ Outer(l)' = Outer(l)
         /\ \A l : Header(l)' = Header(l) /\ IsReducible(l)' = IsReducible(l)
         /\ \A l : Latches(l)' = Latches(l) /\ Body(l)' = Body(l)
  BY DEF Loops, Inners, Outer, Header, IsReducible, Latches, Body, Members

LEMMA NextTies ==
  ASSUME TypesInv, TiesInv, Step
  PROVE  TiesInv'
<1> USE DEF TypesInv
<1>0. \A l \in Loops : Inners(l) \subseteq Loops /\ Outer(l) \in Loops \cup {0}
  BY DEF LoopsInv, Inners, Outer
<1>1. CASE UNCHANGED m_loops
  BY <1>1, SameTies DEF TiesInv
<1>2. ASSUME NEW src \in Nodes, NEW dst \in Nodes, Closes(src, dst)
      PROVE  TiesInv'
  <2>1. NewUntied /\ \E cur : Filed(src, dst, cur)
    BY <1>2, BackEdgeEffect DEF Closes
  <2>2. Loops \subseteq Loops' /\ 0 \notin Loops'
    <3>1. LoopsInv'
      BY <1>2, BackEdgeEffect DEF Closes
    <3> QED
      BY <2>1, <3>1 DEF Filed, LoopsInv, Loops
  <2> SUFFICES ASSUME NEW l \in Loops', NEW m \in Loops'
               PROVE  m \in Inners(l)' <=> Outer(m)' = l
    BY DEF TiesInv
  <2>3. CASE l \in Loops /\ m \in Loops
    BY <2>1, <2>3 DEF NewUntied, TiesInv
  <2>4. CASE l \notin Loops
    BY <1>0, <2>1, <2>2, <2>4 DEF NewUntied
  <2>5. CASE l \in Loops /\ m \notin Loops
    BY <1>0, <2>1, <2>2, <2>5 DEF NewUntied
  <2> QED
    BY <2>3, <2>4, <2>5
<1>3. ASSUME NEW b, Comes(b)
      PROVE  TiesInv'
  <2>1. Loops' = Loops /\ cur_loop \in Loops /\ cur_loop # 0
    BY <1>3 DEF Comes, Took, SearchBlock
  <2>2. CASE \A l \in Loops : Inners(l)' = Inners(l) /\ Outer(l)' = Outer(l)
    BY <2>1, <2>2 DEF TiesInv
  <2>3. ASSUME NEW in \in Loops, Outer(in) = 0,
               \A l \in Loops : /\ Inners(l)' = IF l = cur_loop THEN Inners(l) \cup {in} ELSE Inners(l)
                                /\ Outer(l)' = IF l = in THEN cur_loop ELSE Outer(l)
        PROVE  TiesInv'
    <3>1. 0 \notin Loops
      BY DEF LoopsInv, Loops
    <3> SUFFICES ASSUME NEW l \in Loops, NEW m \in Loops PROVE m \in Inners(l)' <=> Outer(m)' = l
      BY <2>1 DEF TiesInv
    <3>2. m \in Inners(l) <=> Outer(m) = l
      BY DEF TiesInv
    <3> QED
      BY <2>3, <3>1, <3>2
  <2> QED
    BY <1>3, <2>2, <2>3 DEF Comes, Tied
<1>4. ASSUME NEW root, Roots(root)
      PROVE  TiesInv'
  <2>1. root \notin Loops /\ Loops' = Loops \cup {root} /\ RootTied(root)
    BY <1>4 DEF Roots, Rooted
  <2>2. 0 \notin Loops /\ root # 0
    <3>1. LoopsInv'
      BY <1>4, StepKinds
    <3> QED
      BY <2>1, <3>1 DEF LoopsInv, Loops
  <2> SUFFICES ASSUME NEW l \in Loops', NEW m \in Loops'
               PROVE  m \in Inners(l)' <=> Outer(m)' = l
    BY DEF TiesInv
  <2>3. CASE l \in Loops /\ m \in Loops
    <3>1. m \in Inners(l) <=> Outer(m) = l
      BY <2>3 DEF TiesInv
    <3> QED
      BY <2>1, <2>2, <2>3, <3>1 DEF RootTied
  <2>4. CASE l = root /\ m \in Loops
    BY <1>0, <2>1, <2>2, <2>4 DEF RootTied
  <2>5. CASE l \in Loops /\ m = root
    BY <1>0, <2>1, <2>2, <2>5 DEF RootTied
  <2>6. CASE l = root /\ m = root
    BY <2>1, <2>2, <2>6 DEF RootTied
  <2> QED
    BY <2>1, <2>3, <2>4, <2>5, <2>6
<1> QED
  BY <1>1, <1>2, <1>3, <1>4, StepKinds
     DEF BuildDomTree, CollectBackEdges, GoesOn, Walks, loops, Takes

-----------------------------------------------------------------------------
(* What the backward searches have marked, and what is unmarked again.     *)

MarksInv ==
  /\ stage \in {"dom3", "edges"} => \A l \in Loops : Body(l) \subseteq Latches(l)
  /\ stage = "populate" => \A l \in Loops : \A b \in Body(l) \ Latches(l) :
       b \in m_marked /\ \A m \in Loops : Header(m) # b /\ b \notin Latches(m)

LEMMA NextMarks ==
  ASSUME TypesInv, BooksInv, MarksInv, Step
  PROVE  MarksInv'
<1> USE DEF TypesInv
<1>1. CASE stage \in {"dom3", "edges"} /\ UNCHANGED m_loops
  BY <1>1, SameTies DEF MarksInv
<1>2. ASSUME NEW src \in Nodes, NEW dst \in Nodes, NEW cur, Closes(src, dst), Filed(src, dst, cur)
      PROVE  MarksInv'
  <2>1. stage = "edges" /\ stage' = "edges" /\ \A l \in Loops : Body(l) \subseteq Latches(l)
    BY <1>2 DEF Closes, MarksInv
  <2>2. \A l \in Loops' : Body(l)' \subseteq Latches(l)'
    BY <1>2, <2>1 DEF Filed
  <2> QED
    BY <2>1, <2>2 DEF MarksInv
<1>3. CASE Walks
  <2>1. UNCHANGED m_loops /\ stage \in {"edges", "populate"} /\ stage' = "populate"
    BY <1>3 DEF Walks, loops
  <2>2. CASE stage = "edges"
    BY <2>1, <2>2, SameTies DEF MarksInv
  <2>3. CASE stage = "populate"
    <3>1. m_marked \subseteq m_marked' \/ (LeaveReducible /\ m_marked' = m_marked \ {Header(cur_loop)})
      BY <1>3, <2>3 DEF Walks, Collected, EnterReducible, Fenced, NextSource, SkipMarked,
                        LeaveReducible, Header
    <3>2. LeaveReducible => cur_loop \in Loops
      BY DEF LeaveReducible, QueuesInv
    <3> QED
      BY <2>1, <2>3, <3>1, <3>2, SameTies DEF MarksInv
  <2> QED
    BY <2>1, <2>2, <2>3
<1>4. ASSUME NEW l, Takes(l)
      PROVE  MarksInv'
  <2>1. UNCHANGED <<m_loops, m_marked>> /\ stage = "populate" /\ stage' = "populate"
    BY <1>4 DEF Takes
  <2> QED
    BY <2>1, SameTies DEF MarksInv
<1>5. ASSUME NEW b, Comes(b)
      PROVE  MarksInv'
  <2>1. /\ stage = "populate" /\ stage' = "populate" /\ Took(b) /\ cur_loop \in Loops
        /\ m_marked' = m_marked \cup {b}
    BY <1>5 DEF Comes, SearchBlock, Marked
  <2>2. Loops' = Loops /\ \A l \in Loops : Header(l)' = Header(l) /\ Latches(l)' = Latches(l)
    BY <2>1 DEF Took, Stays
  <2>3. ASSUME NEW l \in Loops, NEW c \in Body(l)' \ Latches(l)
        PROVE  c \in m_marked' /\ \A m \in Loops : Header(m) # c /\ c \notin Latches(m)
    <3>1. CASE c \in Body(l)
      BY <2>1, <2>3, <3>1 DEF MarksInv
    <3>2. CASE c = b /\ ~HasLoop(b)
      <4>1. \A m \in Loops : Latches(m) \subseteq DOMAIN loop_of
        BY DEF BooksInv
      <4>2. \A m \in Loops : Header(m) = b => FALSE
        <5>1. b \in Nodes
          BY <1>5 DEF Comes
        <5> QED
          BY <3>2, <5>1 DEF BooksInv, HasLoop
      <4> QED
        BY <2>1, <3>2, <4>1, <4>2 DEF HasLoop
    <3>3. c \in Body(l) \/ (c = b /\ ~HasLoop(b))
      BY <2>1, <2>3 DEF Took
    <3> QED
      BY <3>1, <3>2, <3>3
  <2> QED
    BY <2>1, <2>2, <2>3 DEF MarksInv
<1>6. ASSUME NEW root, Roots(root)
      PROVE  MarksInv'
  BY <1>6 DEF Roots, MarksInv
<1>7. CASE BuildDomTree \/ CollectBackEdges \/ GoesOn
  <2>1. stage \in {"dom3", "edges"} /\ UNCHANGED m_loops /\ stage' \in {"dom3", "edges"}
    BY <1>7 DEF BuildDomTree, CollectBackEdges, GoesOn, loops
  <2> QED
    BY <1>1, <2>1
<1> QED
  BY <1>2, <1>3, <1>4, <1>5, <1>6, <1>7, StepKinds

\* Where each block has one role, a latch is in the loop it is a latch of.
LEMMA OneRole ==
  ASSUME TypesInv, BooksInv, FiledInv, NaturalInv, MarksInv, stage = "populate",
         Reducible, OneRoleEach, NEW l \in Loops, NEW u \in Latches(l)
  PROVE  /\ \A m \in Loops : Header(m) = u => m = l
         /\ \A m : In(u, m) => m = l
<1>1. P!S!BInv /\ D!Stopped /\ made \in MadeOrders
  BY SearchFacts DEF TypesInv, GraphInv
<1> PICK e : e = <<u, Header(l)>>
  OBVIOUS
<1>2. e \in backEdges /\ e[1] = u /\ e[2] = Header(l)
  BY DEF FiledInv
<1>3. ASSUME NEW m \in Loops, Header(m) = u
      PROVE  m = l
  <2>1. u \in Nodes
    BY <1>3 DEF TypesInv, HeadersInv
  <2>2. IsHeader(u)
    BY <1>3, <2>1 DEF NaturalInv
  <2>3. PICK w : Latch(w, u)
    BY <2>2 DEF IsHeader
  <2> PICK f : f = <<w, u>>
    OBVIOUS
  <2>4. f \in backEdges /\ f[2] = u
    BY <1>1, <2>3, LatchesReported
  <2>5. e = f
    BY <1>2, <2>4 DEF OneRoleEach
  <2> QED
    BY <1>2, <1>3, <2>4, <2>5 DEF BooksInv
<1>4. ASSUME NEW m, In(u, m)
      PROVE  m = l
  <2>1. m \in Loops
    BY <1>4 DEF In, TypesInv, LoopsInv
  <2>2. Header(m) = u \/ u \in Body(m)
    BY <1>4 DEF BooksInv
  <2>3. CASE u \in Latches(m)
    <3> PICK f : f = <<u, Header(m)>>
      OBVIOUS
    <3>1. f \in backEdges /\ f[1] = u /\ f[2] = Header(m)
      BY <2>1, <2>3 DEF FiledInv
    <3>2. e = f
      BY <1>2, <3>1 DEF OneRoleEach
    <3> QED
      BY <1>2, <2>1, <3>1, <3>2 DEF BooksInv
  <2>4. CASE u \in Body(m) /\ u \notin Latches(m)
    BY <2>1, <2>4 DEF MarksInv
  <2> QED
    BY <1>3, <2>1, <2>2, <2>3, <2>4
<1>5. \A m \in Loops : Header(m) = u => m = l
  BY <1>3
<1>6. \A m : In(u, m) => m = l
  BY <1>4
<1> QED
  BY <1>5, <1>6

KnownAt(i) == m_loops[LoopAt(i)].reducible

\* The latches of the loops searched are marked, but for one that is the header.
LatchesInv ==
  stage = "populate" /\ Reducible /\ OneRoleEach =>
    /\ cur_loop # 0 => \E i : Current(i) /\ cur_loop = LoopAt(i) /\ KnownAt(i)
    /\ \A i : Left(i) /\ KnownAt(i) => \A u \in Starts(i) : u = Fence(i) \/ u \in m_marked
    /\ \A i : Current(i) => \A u \in Starts(i) :
         u = Fence(i) \/ u \in m_marked \/ u \in sources \/ u \in Members(todo)

LEMMA LatchesWalks ==
  ASSUME TypesInv, BooksInv, FiledInv, NaturalInv, MarksInv, LatchesInv, stage = "populate",
         Reducible, OneRoleEach, Reducible', OneRoleEach', stage' = "populate",
         EnterReducible \/ NextSource \/ SkipMarked \/ LeaveReducible
  PROVE  LatchesInv'
<1>0. UNCHANGED <<search, domtree, stage, loops, orders>>
  BY DEF EnterReducible, NextSource, SkipMarked, LeaveReducible
<1>1. /\ m_dfs_nodes' = m_dfs_nodes
      /\ \A i : LoopAt(i)' = LoopAt(i) /\ Fence(i)' = Fence(i) /\ Starts(i)' = Starts(i)
      /\ \A i : KnownAt(i)' = KnownAt(i)
  BY <1>0 DEF orders, loops, LoopAt, Fence, Starts, KnownAt
<1>2. /\ cur_loop # 0 => \E i : Current(i) /\ cur_loop = LoopAt(i) /\ KnownAt(i)
      /\ \A i : Left(i) /\ KnownAt(i) => \A u \in Starts(i) : u = Fence(i) \/ u \in m_marked
      /\ \A i : Current(i) => \A u \in Starts(i) :
           u = Fence(i) \/ u \in m_marked \/ u \in sources \/ u \in Members(todo)
  BY DEF LatchesInv
<1>3. Members(todo)' = Members(todo')
  BY DEF Members
<1>4. CASE EnterReducible
  <2> PICK n : n = loop_node
    OBVIOUS
  <2>1. /\ cur_loop = 0 /\ n <= Len(m_dfs_nodes) /\ KnownAt(n)
        /\ UNCHANGED <<loop_node, todo>>
        /\ cur_loop' = LoopAt(n) /\ m_marked \subseteq m_marked' /\ sources' = Starts(n)
    BY <1>4 DEF EnterReducible, LoopAt, KnownAt, Fenced, Starts
  <2>2. n \in DOMAIN m_dfs_nodes
    BY <2>1 DEF TypesInv, QueuesInv
  <2>3. LoopAt(n) \in Loops /\ LoopAt(n) # 0
    BY <2>2, LoopAtFacts DEF TypesInv, LoopsInv, Loops
  <2>4. \A i : (Left(i)' <=> Left(i)) /\ (Current(i)' <=> i = n)
    BY <1>1, <2>1, <2>2, <2>3 DEF Left, Current
  <2>5. cur_loop' # 0 => \E i : Current(i)' /\ cur_loop' = LoopAt(i)' /\ KnownAt(i)'
    BY <1>1, <2>1, <2>4
  <2>6. \A i : Left(i)' /\ KnownAt(i)' => \A u \in Starts(i)' : u = Fence(i)' \/ u \in m_marked'
    BY <1>1, <1>2, <2>1, <2>4
  <2>7. \A i : Current(i)' => \A u \in Starts(i)' : u \in sources'
    BY <1>1, <2>1, <2>4
  <2> QED
    BY <2>5, <2>6, <2>7 DEF LatchesInv
<1>5. CASE NextSource \/ SkipMarked
  <2>1. UNCHANGED <<loop_node, cur_loop, m_marked>>
    BY <1>5 DEF NextSource, SkipMarked
  <2>2. \A i : (Left(i)' <=> Left(i)) /\ (Current(i)' <=> Current(i))
    BY <1>1, <2>1 DEF Left, Current
  <2>3. \A b : b \in sources \/ b \in Members(todo) =>
               b \in sources' \/ b \in Members(todo') \/ b \in m_marked
    <3>1. CASE NextSource
      <4>1. todo = << >> /\ \E s \in sources : todo' = <<s>> /\ sources' = sources \ {s}
        BY <3>1 DEF NextSource
      <4>2. Members(<< >>) = {} /\ \A s : Members(<<s>>) = {s}
        BY DEF Members
      <4> QED
        BY <4>1, <4>2
    <3>2. CASE SkipMarked
      <4>1. todo \in Seq(Nodes) /\ todo # << >> /\ todo' = Tail(todo) /\ Head(todo) \in m_marked
            /\ sources' = sources
        BY <3>2 DEF SkipMarked, TypesInv, QueuesInv
      <4>2. Members(todo) \subseteq {Head(todo)} \cup Members(Tail(todo))
        BY <4>1, HeadOrTail
      <4> QED
        BY <4>1, <4>2
    <3> QED
      BY <1>5, <3>1, <3>2
  <2>4. cur_loop' # 0 => \E i : Current(i)' /\ cur_loop' = LoopAt(i)' /\ KnownAt(i)'
    BY <1>1, <1>2, <2>1, <2>2
  <2>5. \A i : Left(i)' /\ KnownAt(i)' => \A u \in Starts(i)' : u = Fence(i)' \/ u \in m_marked'
    BY <1>1, <1>2, <2>1, <2>2
  <2>6. \A i : Current(i)' => \A u \in Starts(i)' :
          u = Fence(i)' \/ u \in m_marked' \/ u \in sources' \/ u \in Members(todo)'
    <3> SUFFICES ASSUME NEW i, Current(i), NEW u \in Starts(i)
                 PROVE  u = Fence(i) \/ u \in m_marked \/ u \in sources' \/ u \in Members(todo')
      BY <1>1, <1>3, <2>1, <2>2
    <3>1. u = Fence(i) \/ u \in m_marked \/ u \in sources \/ u \in Members(todo)
      BY <1>2
    <3> QED
      BY <2>3, <3>1
  <2> QED
    BY <2>4, <2>5, <2>6 DEF LatchesInv
<1>6. CASE LeaveReducible
  <2>1. /\ cur_loop # 0 /\ cur_loop' = 0 /\ todo = << >> /\ sources = {}
        /\ loop_node' = loop_node + 1 /\ m_marked' = m_marked \ {Header(cur_loop)}
    BY <1>6 DEF LeaveReducible, Header
  <2>2. PICK n : Current(n) /\ cur_loop = LoopAt(n) /\ KnownAt(n)
    BY <1>2, <2>1
  <2>3. \A i : Left(i)' => i \in DOMAIN m_dfs_nodes /\ (Left(i) \/ Current(i))
    <3>1. loop_node \in Nat /\ \A i \in DOMAIN m_dfs_nodes : i \in Nat
      BY DEF TypesInv, QueuesInv
    <3>2. \A i \in DOMAIN m_dfs_nodes : i < loop_node + 1 => i < loop_node \/ i = loop_node
      BY <3>1
    <3> QED
      BY <1>1, <2>1, <3>2 DEF Left, Current
  <2>4. Members(todo) = {}
    BY <2>1 DEF Members
  <2>5. ASSUME NEW i, Left(i)', KnownAt(i), NEW u \in Starts(i), u # Fence(i)
        PROVE  u \in m_marked'
    <3>1. u \in m_marked
      BY <1>2, <2>1, <2>3, <2>4, <2>5
    <3>2. LoopAt(i) \in Loops /\ u \in Latches(LoopAt(i)) /\ Fence(i) = Header(LoopAt(i))
      BY <2>3, <2>5, LoopAtFacts
    <3>3. cur_loop \in Loops
      BY <2>1 DEF TypesInv, QueuesInv
    <3>4. Header(cur_loop) # u
      BY <2>5, <3>2, <3>3, OneRole
    <3> QED
      BY <2>1, <3>1, <3>4
  <2>6. \A i : ~Current(i)'
    BY <2>1 DEF Current
  <2>7. \A i : Left(i)' /\ KnownAt(i)' => \A u \in Starts(i)' : u = Fence(i)' \/ u \in m_marked'
    BY <1>1, <2>5
  <2> QED
    BY <2>1, <2>6, <2>7 DEF LatchesInv
<1> QED
  BY <1>4, <1>5, <1>6

LEMMA NextLatches ==
  ASSUME TypesInv, BooksInv, FiledInv, NaturalInv, MarksInv, SearchedInv, LatchesInv, Step
  PROVE  LatchesInv'
<1> USE DEF TypesInv
<1>1. CASE stage' # "populate"
  BY <1>1 DEF LatchesInv
<1>2. CASE Collected
  <2>1. /\ loop_node' = 1 /\ cur_loop' = 0 /\ stage' = "populate"
    BY <1>2 DEF Collected, SearchedInv, walk
  <2>2. DOMAIN m_dfs_nodes' = DOMAIN m_dfs_nodes /\ \A i \in DOMAIN m_dfs_nodes : i \in Nat /\ ~(i < 1)
    BY <1>2 DEF Collected, QueuesInv
  <2>3. \A i : ~Left(i)' /\ ~Current(i)'
    BY <2>1, <2>2 DEF Left, Current
  <2> QED
    BY <2>1, <2>3 DEF LatchesInv
<1>3. CASE stage = "populate" /\ stage' = "populate"
  <2> SUFFICES ASSUME Reducible', OneRoleEach' PROVE LatchesInv'
    BY DEF LatchesInv
  <2>1. ~BuildDomTree /\ ~CollectBackEdges /\ ~GoesOn /\ ~Collected
        /\ (\A src, dst : ~Closes(src, dst)) /\ (\A root : ~Roots(root))
    BY <1>3 DEF BuildDomTree, CollectBackEdges, GoesOn, Closes, Roots, Collected
  <2>2. UNCHANGED <<search, orders>>
    BY <2>1, StepKinds DEF Walks, Takes, Comes, EnterReducible, NextSource, SkipMarked, LeaveReducible
  <2>3. Reducible /\ OneRoleEach
    <3>1. \A d, n : Dom(d, n)' <=> Dom(d, n)
      BY <2>2 DEF Dom, search
    <3> QED
      BY <2>2, <3>1 DEF Reducible, OneRoleEach, search
  <2>4. CASE EnterReducible \/ NextSource \/ SkipMarked \/ LeaveReducible
    BY <1>3, <2>3, <2>4, LatchesWalks
  <2>5. /\ cur_loop # 0 => \E i : Current(i) /\ cur_loop = LoopAt(i) /\ KnownAt(i)
        /\ \A i : Left(i) /\ KnownAt(i) => \A u \in Starts(i) : u = Fence(i) \/ u \in m_marked
        /\ \A i : Current(i) => \A u \in Starts(i) :
             u = Fence(i) \/ u \in m_marked \/ u \in sources \/ u \in Members(todo)
    BY <1>3, <2>3 DEF LatchesInv
  <2>6. ASSUME NEW l, Takes(l), TakeLatches
        PROVE  LatchesInv'
    <3>1. /\ UNCHANGED <<m_loops, m_dfs_nodes, m_marked, cur_loop, sources, todo, succs>> /\ l \in Loops
          /\ \A b \in DOMAIN loop_of : loop_of'[b] = IF b \in Latches(l) THEN l ELSE loop_of[b]
      BY <2>6 DEF Takes, search, orders
    <3>2. \A b \in DOMAIN loop_of : loop_of'[b] = loop_of[b]
      <4> SUFFICES ASSUME NEW b \in Latches(l), b \in DOMAIN loop_of PROVE loop_of[b] = l
        BY <3>1
      <4>1. In(b, loop_of[b])
        BY DEF In
      <4> QED
        BY <1>3, <2>3, <3>1, <4>1, OneRole
    <3>3. \A m \in Loops : Header(m)' = Header(m) /\ Latches(m)' = Latches(m)
      BY <3>1 DEF Header, Latches
    <3>4. \A i \in DOMAIN m_dfs_nodes : /\ LoopAt(i)' = LoopAt(i) /\ Fence(i)' = Fence(i)
                                        /\ Starts(i)' = Starts(i)
      BY <1>3, <3>1, <3>2, <3>3, SameAt
    <3>5. \A i \in DOMAIN m_dfs_nodes : KnownAt(i)' = KnownAt(i)
      BY <3>1, <3>4 DEF KnownAt
    <3>6. cur_loop = 0 /\ cur_loop' = 0 /\ loop_node' = loop_node + 1 /\ ~KnownAt(loop_node)
      BY <2>6, <3>1 DEF TakeLatches, KnownAt, LoopAt
    <3>7. \A i : Left(i)' => i \in DOMAIN m_dfs_nodes /\ (Left(i) \/ i = loop_node)
      <4>1. loop_node \in Nat /\ \A i \in DOMAIN m_dfs_nodes : i \in Nat
        BY DEF QueuesInv
      <4>2. \A i \in DOMAIN m_dfs_nodes : i < loop_node + 1 => i < loop_node \/ i = loop_node
        BY <4>1
      <4> QED
        BY <3>1, <3>6, <4>2 DEF Left
    <3>8. \A i : Left(i)' /\ KnownAt(i)' => \A u \in Starts(i)' : u = Fence(i)' \/ u \in m_marked'
      BY <2>5, <3>1, <3>4, <3>5, <3>6, <3>7
    <3>9. \A i : ~Current(i)'
      BY <3>6 DEF Current
    <3> QED
      BY <3>6, <3>8, <3>9 DEF LatchesInv
  <2>7. ASSUME NEW b, Comes(b)
        PROVE  LatchesInv'
    <3>1. /\ Took(b) /\ SearchBlock /\ b = Head(todo) /\ todo # << >>
      BY <2>7 DEF Comes
    <3>2. /\ UNCHANGED <<succs, m_dfs_nodes, loop_node, cur_loop, sources>>
          /\ m_marked' = m_marked \cup {b} /\ todo \in Seq(Nodes)
          /\ todo' = m_preds(succs, made, b) \o Tail(todo)
      BY <2>2, <3>1 DEF SearchBlock, Marked, search, orders, QueuesInv
    <3>3. /\ Loops' = Loops /\ \A m \in Loops : /\ Header(m)' = Header(m) /\ Latches(m)' = Latches(m)
                                                /\ IsReducible(m)' = IsReducible(m)
          /\ \A c \in DOMAIN loop_of : loop_of'[c] = loop_of[c]
      BY <3>1 DEF Took, Stays
    <3>4. \A i \in DOMAIN m_dfs_nodes : /\ LoopAt(i)' = LoopAt(i) /\ Fence(i)' = Fence(i)
                                        /\ Starts(i)' = Starts(i)
      BY <1>3, <3>2, <3>3, SameAt
    <3>5. \A i \in DOMAIN m_dfs_nodes : KnownAt(i)' = KnownAt(i)
      <4> TAKE i \in DOMAIN m_dfs_nodes
      <4> PICK m : m = LoopAt(i)
        OBVIOUS
      <4>1. m \in Loops /\ LoopAt(i)' = m
        BY <1>3, <3>4, LoopAtFacts
      <4>2. m_loops'[m].reducible = m_loops[m].reducible
        BY <3>3, <4>1 DEF IsReducible
      <4> QED
        BY <4>1, <4>2 DEF KnownAt
    <3>6. \A i : (Left(i)' <=> Left(i)) /\ (Current(i)' <=> Current(i))
      BY <3>2 DEF Left, Current
    <3>7. \A u : u \in Members(todo) => u = b \/ u \in Members(todo)'
      <4> PICK p, t : p = m_preds(succs, made, b) /\ t = Tail(todo)
        OBVIOUS
      <4>1. p \in Seq(Nodes)
        <5>1. succs \in Graphs /\ made \in MadeOrders
          BY <1>3, SearchFacts
        <5> QED
          BY <5>1, PredsFacts
      <4>2. Members(todo) \subseteq {b} \cup Members(t) /\ t \in Seq(Nodes)
        BY <3>1, <3>2, HeadOrTail, HeadAndTail
      <4>3. Members(p \o t) = Members(p) \cup Members(t)
        <5>1. \A q \in Seq(Nodes), r \in Seq(Nodes) : Members(q \o r) = Members(q) \cup Members(r)
          BY ConcatMembers
        <5> QED
          BY <4>1, <4>2, <5>1
      <4>4. Members(todo)' = Members(p \o t)
        <5>1. Members(todo)' = Members(todo')
          BY DEF Members
        <5> QED
          BY <3>2, <5>1
      <4> QED
        BY <4>2, <4>3, <4>4
    <3>8. \A i : Left(i) \/ Current(i) => i \in DOMAIN m_dfs_nodes
      BY DEF Left, Current
    <3>9. cur_loop' # 0 => \E i : Current(i)' /\ cur_loop' = LoopAt(i)' /\ KnownAt(i)'
      BY <2>5, <3>2, <3>4, <3>5, <3>6, <3>8
    <3>10. \A i : Left(i)' /\ KnownAt(i)' => \A u \in Starts(i)' : u = Fence(i)' \/ u \in m_marked'
      BY <2>5, <3>2, <3>4, <3>5, <3>6, <3>8
    <3>11. \A i : Current(i)' => \A u \in Starts(i)' :
             u = Fence(i)' \/ u \in m_marked' \/ u \in sources' \/ u \in Members(todo)'
      <4> SUFFICES ASSUME NEW i, Current(i), NEW u \in Starts(i)
                   PROVE  u = Fence(i) \/ u \in m_marked' \/ u \in sources \/ u \in Members(todo)'
        BY <3>2, <3>4, <3>6, <3>8
      <4>1. u = Fence(i) \/ u \in m_marked \/ u \in sources \/ u \in Members(todo)
        BY <2>5
      <4> QED
        BY <3>2, <3>7, <4>1
    <3> QED
      BY <3>9, <3>10, <3>11 DEF LatchesInv
  <2> QED
    BY <2>1, <2>4, <2>6, <2>7, StepKinds DEF Walks
<1>4. CASE stage # "populate" /\ stage' = "populate" /\ ~Collected
  BY <1>4, StepKinds DEF BuildDomTree, CollectBackEdges, GoesOn, Closes, Walks, Takes, Comes, Roots,
                         EnterReducible, NextSource, SkipMarked, LeaveReducible, GraphInv
<1> QED
  BY <1>1, <1>2, <1>3, <1>4

-----------------------------------------------------------------------------
(* Outer loops have headers that dominate, or are finished after, those of *)
(* the inner ones.                                                         *)

Climbs(m, l) == IsReducible(l) /\ (IsReducible(m) => FinishedBefore(Header(m), Header(l)))

TreeInv ==
  /\ stage \in {"dom3", "edges"} => \A l \in Loops : Outer(l) = 0
  /\ stage # "dom3" /\ Reducible /\ OneRoleEach =>
       \A m, l \in Loops : Outer(m) = l /\ Header(l) \in Nodes => Climbs(m, l)
  /\ stage = "done" => \A l \in Loops : l = Root \/ Outer(l) \in Loops

\* The search of the current loop has come to a block of the loop m.
LEMMA InnerClimbs ==
  ASSUME TypesInv, BooksInv, ReachInv, FiledInv, NaturalInv, QueueInv, TargetsInv, MarksInv, LatchesInv,
         Reducible, OneRoleEach, NEW b, Comes(b), NEW m \in Loops, In(b, m), m # cur_loop
  PROVE  Climbs(m, cur_loop)
<1> USE DEF TypesInv
<1>1. /\ stage = "populate" /\ cur_loop \in Loops /\ cur_loop # 0 /\ b \notin m_marked /\ b \in Nodes
      /\ b \in Members(todo)
  BY HeadAndTail DEF Comes, SearchBlock, QueuesInv
<1>2. P!S!BInv /\ D!Stopped /\ succs \in Graphs /\ made \in MadeOrders
  BY <1>1, SearchFacts DEF GraphInv
<1>3. Finished = Reached
  BY <1>2, StoppedFacts DEF P!S!BInv
<1>4. PICK n : Current(n) /\ cur_loop = LoopAt(n) /\ KnownAt(n)
  BY <1>1 DEF LatchesInv
<1> PICK h, g, k : h = Header(cur_loop) /\ g = Header(m) /\ k = m_dfs_nodes[n]
  OBVIOUS
<1>5. h \in Nodes /\ g \in Nodes /\ g # h
  BY <1>1 DEF HeadersInv, BooksInv
<1>6. IsReducible(cur_loop)
  BY <1>4 DEF IsReducible, KnownAt
<1> SUFFICES ASSUME IsReducible(m) PROVE FinishedBefore(g, h)
  BY <1>6 DEF Climbs
<1>7. IsHeader(h) /\ IsHeader(g) /\ b \in NaturalLoop(h)
  BY <1>1, <1>5 DEF NaturalInv
<1>8. h \in Reached /\ g \in Reached
  BY <1>7 DEF IsHeader
<1>9. CASE b = g
  <2>1. Dom(h, g)
    BY <1>2, <1>7, <1>9, NaturalDominated
  <2> QED
    BY <1>2, <1>5, <1>8, <2>1, DominatorsLast
<1>10. CASE b # g
  <2>1. b \in Latches(m)
    <3>1. b \in Body(m)
      BY <1>10 DEF BooksInv
    <3> QED
      BY <1>1, <3>1 DEF MarksInv
  <2> PICK e : e = <<b, g>>
    OBVIOUS
  <2>2. e \in backEdges /\ e[2] = g
    BY <1>1, <2>1 DEF FiledInv
  <2>3. In(g, m)
    <3>1. PICK l \in Loops : In(g, l) /\ Header(l) = g
      BY <1>1, <2>2 DEF FiledInv
    <3>2. l = m
      BY <3>1 DEF BooksInv
    <3> QED
      BY <3>1, <3>2
  <2>4. PICK j \in DOMAIN m_dfs_nodes : m_dfs_nodes[j] = g
    <3>1. g \notin Members(free_loop_nodes)
      BY <1>1, <2>2 DEF TargetsInv
    <3>2. g \in Members(m_dfs_nodes)
      BY <1>1, <1>3, <1>8, <3>1 DEF ReachInv
    <3> QED
      BY <3>2 DEF Members
  <2>5. LoopAt(j) = m /\ Starts(j) = Latches(m) /\ Fence(j) = g /\ KnownAt(j)
    BY <2>3, <2>4 DEF LoopAt, In, Starts, Latches, Fence, Header, KnownAt, IsReducible
  <2>6. ~Left(j)
    BY <1>1, <1>10, <2>1, <2>5 DEF LatchesInv
  <2>7. n < j
    <3>1. n \in DOMAIN m_dfs_nodes /\ ~(j < n) /\ j # n
      BY <1>4, <2>4, <2>5, <2>6 DEF Left, Current
    <3>2. n \in Nat /\ j \in Nat
      BY <3>1 DEF QueuesInv
    <3> QED
      BY <3>1, <3>2
  <2>8. FinishedBefore(g, k)
    BY <1>1, <1>4, <2>4, <2>7 DEF QueueInv, Current
  <2>9. k = h \/ FinishedBefore(k, h)
    <3>1. n \in DOMAIN m_dfs_nodes
      BY <1>4 DEF Current
    <3>2. In(k, cur_loop)
      BY <1>1, <1>4, <3>1, LoopAtFacts
    <3>3. k = h \/ k \in Body(cur_loop)
      BY <3>2 DEF BooksInv
    <3>4. k \in NaturalLoop(h)
      BY <1>1, <1>2, <1>5, <3>3, NaturalFacts DEF NaturalInv
    <3>5. Dom(h, k) /\ (k # h => k \in Reached)
      BY <1>2, <3>4, NaturalDominated
    <3> QED
      BY <1>2, <1>8, <3>5, DominatorsLast
  <2> QED
    BY <1>2, <2>8, <2>9, FinishIsOrder
<1> QED
  BY <1>9, <1>10

LEMMA NextTree ==
  ASSUME TypesInv, BooksInv, ReachInv, FiledInv, NaturalInv, QueueInv, TargetsInv, MarksInv,
         LatchesInv, TreeInv, Step
  PROVE  TreeInv'
<1> USE DEF TypesInv
<1>0. stage \in {"dom3", "edges", "populate"}
  BY StepKinds DEF BuildDomTree, CollectBackEdges, GoesOn, Closes, Walks, Takes, Comes, Roots
<1>1. CASE stage \in {"dom3", "edges"} /\ UNCHANGED m_loops /\ stage' # "done"
  <2>1. \A l \in Loops' : Outer(l)' = 0 /\ l # 0
    <3>1. \A l \in Loops : l # 0
      BY DEF LoopsInv, Loops
    <3> QED
      BY <1>1, <3>1, SameTies DEF TreeInv
  <2> QED
    BY <1>1, <2>1 DEF TreeInv
<1>2. ASSUME NEW src \in Nodes, NEW dst \in Nodes, Closes(src, dst)
      PROVE  TreeInv'
  <2>1. NewUntied /\ LoopsInv' /\ stage = "edges" /\ stage' = "edges"
    BY <1>2, BackEdgeEffect DEF Closes
  <2>2. \A l \in Loops' : Outer(l)' = 0 /\ l # 0
    <3>1. \A l \in Loops' : l # 0
      BY <2>1 DEF LoopsInv, Loops
    <3> QED
      BY <2>1, <3>1 DEF NewUntied, TreeInv
  <2> QED
    BY <2>1, <2>2 DEF TreeInv
<1>3. CASE stage = "populate"
  <2>1. /\ UNCHANGED search /\ stage' \in {"populate", "done"}
    BY <1>3, StepKinds DEF BuildDomTree, CollectBackEdges, GoesOn, Closes, Walks, Takes, Comes, Roots
  <2>2. UNCHANGED <<succs, backEdges, finished>>
    BY <2>1 DEF search
  <2>3. (Reducible' <=> Reducible) /\ (OneRoleEach' <=> OneRoleEach)
    <3>1. \A d, n : Dom(d, n)' <=> Dom(d, n)
      BY <2>2 DEF Dom
    <3> QED
      BY <2>2, <3>1 DEF Reducible, OneRoleEach
  <2>4. ASSUME NEW m, NEW l, Header(m)' = Header(m), Header(l)' = Header(l),
               IsReducible(m)' = IsReducible(m), IsReducible(l)' = IsReducible(l), Climbs(m, l)
        PROVE  Climbs(m, l)'
    BY <2>2, <2>4 DEF Climbs, FinishedBefore, Precede
  <2>5. CASE UNCHANGED m_loops /\ stage' = "populate"
    <3>1. Reducible /\ OneRoleEach =>
            \A m, l \in Loops : Outer(m) = l /\ Header(l) \in Nodes => Climbs(m, l)
      BY <1>3 DEF TreeInv
    <3>2. Reducible' /\ OneRoleEach' =>
            \A m, l \in Loops' : Outer(m)' = l /\ Header(l)' \in Nodes => Climbs(m, l)'
      BY <2>3, <2>4, <2>5, <3>1, SameTies
    <3> QED
      BY <2>5, <3>2 DEF TreeInv
  <2>6. ASSUME NEW b, Comes(b)
        PROVE  TreeInv'
    <3>1. /\ Loops' = Loops /\ \A l \in Loops : Header(l)' = Header(l) /\ IsReducible(l)' = IsReducible(l)
          /\ stage' = "populate" /\ Tied(b) /\ cur_loop \in Loops
      BY <2>6 DEF Comes, Took, Stays
    <3> SUFFICES ASSUME Reducible, OneRoleEach, NEW m \in Loops, NEW l \in Loops,
                        Outer(m)' = l, Header(l) \in Nodes
                 PROVE  Climbs(m, l)'
      BY <2>3, <3>1 DEF TreeInv
    <3>2. CASE Outer(m) = l
      <4>1. Climbs(m, l)
        BY <1>3, <3>2 DEF TreeInv
      <4> QED
        BY <2>4, <3>1, <4>1
    <3>3. CASE Outer(m) # l
      <4>1. In(b, m) /\ m # cur_loop /\ l = cur_loop
        BY <3>1, <3>3 DEF Tied, In, HasLoop
      <4>2. Climbs(m, cur_loop)
        BY <2>6, <4>1, InnerClimbs
      <4>3. Climbs(m, l)
        BY <4>1, <4>2
      <4> QED
        BY <2>4, <3>1, <4>3
    <3> QED
      BY <3>2, <3>3
  <2>7. ASSUME NEW root, Roots(root)
        PROVE  TreeInv'
    <3>1. /\ root \notin Loops /\ Loops' = Loops \cup {root} /\ root = Root' /\ RootTied(root)
          /\ \A l \in Loops : Header(l)' = Header(l) /\ IsReducible(l)' = IsReducible(l)
          /\ Header(root)' = NoNode /\ stage' = "done"
      BY <2>7 DEF Roots, Rooted, Stays
    <3>2. NoNode \notin Nodes /\ \A l \in Loops : Outer(l) \in Loops \cup {0}
      BY DFSAssumption DEF LoopsInv, Outer
    <3>3. \A l \in Loops' : l = Root' \/ Outer(l)' \in Loops'
      BY <3>1, <3>2 DEF RootTied
    <3>4. 0 \notin Loops'
      <4>1. LoopsInv'
        BY StepKinds
      <4> QED
        BY <4>1 DEF LoopsInv, Loops
    <3>5. ASSUME Reducible, OneRoleEach, NEW m \in Loops', NEW l \in Loops',
                 Outer(m)' = l, Header(l)' \in Nodes
          PROVE  Climbs(m, l)'
      <4>1. m \in Loops /\ l \in Loops /\ Outer(m) = l
        BY <3>1, <3>2, <3>4, <3>5 DEF RootTied
      <4>2. Climbs(m, l)
        BY <1>3, <3>1, <3>5, <4>1 DEF TreeInv
      <4> QED
        BY <2>4, <3>1, <4>1, <4>2
    <3> QED
      BY <2>3, <3>1, <3>3, <3>5 DEF TreeInv
  <2> QED
    BY <1>3, <2>5, <2>6, <2>7, StepKinds
       DEF BuildDomTree, CollectBackEdges, GoesOn, Closes, Walks, loops, Takes
<1>4. CASE BuildDomTree \/ CollectBackEdges \/ GoesOn
  BY <1>1, <1>4 DEF BuildDomTree, CollectBackEdges, GoesOn, loops
<1>5. CASE Walks /\ stage = "edges"
  BY <1>1, <1>5 DEF Walks, loops
<1> QED
  BY <1>0, <1>2, <1>3, <1>4, <1>5, StepKinds DEF Walks, Takes, Comes, Roots

-----------------------------------------------------------------------------
(* Going up from a loop ends at the root loop.                             *)

Ups(l) == LET up[k \in 0 .. Root] ==
                IF k = 0 THEN l ELSE IF up[k - 1] = 0 THEN 0 ELSE m_loops[up[k - 1]].outer
          IN up

LEMMA UpFacts ==
  ASSUME LoopsInv, NEW l \in Loops
  PROVE  /\ Ups(l)[0] = l
         /\ \A k \in 1 .. Root :
              Ups(l)[k] = IF Ups(l)[k - 1] = 0 THEN 0 ELSE Outer(Ups(l)[k - 1])
<1> PICK s, n : s = m_loops /\ n = Len(m_loops)
  OBVIOUS
<1> DEFINE V == Loops \cup {0}
           Above(m) == IF m = 0 THEN 0 ELSE s[m].outer
           G == [w \in V \X (1 .. n) |-> Above(w[1])]
           Sol(g) == g = [k \in 0 .. n |-> IF k = 0 THEN l
                                           ELSE IF g[k - 1] = 0 THEN 0 ELSE s[g[k - 1]].outer]
           g == CHOOSE h : Sol(h)
<1>1. n \in Nat /\ l \in V /\ \A m \in V : Above(m) \in V
  BY DEF LoopsInv, Loops
<1>2. Ups(l) = g
  BY DEF Ups, Root
<1>3. G \in [V \X (1 .. n) -> V] /\ \A m \in V, k \in 1 .. n : G[<<m, k>>] = Above(m)
  <2> HIDE DEF V, Above
  <2> QED
    BY <1>1
<1> HIDE DEF G, V
<1>4. PICK f : Iterates(f, V, n, l, G)
  BY <1>1, <1>3, Iteration
<1>5. /\ f \in [0 .. n -> V] /\ f[0] = l
      /\ \A k \in 1 .. n : f[k] = Above(f[k - 1])
  <2>1. f \in [0 .. n -> V] /\ f[0] = l
    BY <1>4 DEF Iterates
  <2>2. ASSUME NEW k \in 1 .. n PROVE f[k] = Above(f[k - 1])
    <3>1. k - 1 \in 0 .. n
      BY <1>1
    <3>2. f[k - 1] \in V
      BY <2>1, <3>1
    <3>3. f[k] = G[<<f[k - 1], k>>]
      BY <1>4 DEF Iterates
    <3> HIDE DEF Above
    <3> QED
      BY <1>3, <3>2, <3>3
  <2> HIDE DEF Above
  <2> QED
    BY <2>1, <2>2
<1>6. Sol(f)
  <2>1. f = [k \in 0 .. n |-> f[k]]
    BY <1>5
  <2>2. \A k \in 0 .. n : f[k] = IF k = 0 THEN l
                                 ELSE IF f[k - 1] = 0 THEN 0 ELSE s[f[k - 1]].outer
    <3> TAKE k \in 0 .. n
    <3>1. CASE k = 0
      BY <1>5, <3>1
    <3>2. CASE k \in 1 .. n
      <4>1. k # 0
        BY <3>2
      <4> QED
        BY <1>5, <3>2, <4>1
    <3> QED
      BY <1>1, <3>1, <3>2
  <2> QED
    BY <2>1, <2>2
<1>7. Sol(g)
  BY <1>6, Zenon
<1> HIDE DEF g
<1>8. g[0] = l /\ \A k \in 1 .. n : g[k] = IF g[k - 1] = 0 THEN 0 ELSE s[g[k - 1]].outer
  <2>1. \A k \in 0 .. n : g[k] = IF k = 0 THEN l
                                 ELSE IF g[k - 1] = 0 THEN 0 ELSE s[g[k - 1]].outer
    BY <1>7
  <2>2. 0 \in 0 .. n /\ \A k \in 1 .. n : k \in 0 .. n /\ k # 0
    BY <1>1
  <2> QED
    BY <2>1, <2>2
<1> QED
  BY <1>2, <1>8 DEF Root, Outer

\* What is sorted does not come back.
LEMMA SortedDiffer ==
  ASSUME P!S!BInv, NEW n \in Nat, NEW h,
         \A k \in 2 .. n : FinishedBefore(h[k - 1], h[k])
  PROVE  \A i, j \in 1 .. n : i # j => h[i] # h[j]
<1> DEFINE S == {k \in 0 .. n : \A i, j \in 1 .. k : i < j => FinishedBefore(h[i], h[j])}
<1>1. 0 \in S
  OBVIOUS
<1>2. ASSUME NEW k \in 1 .. n, k - 1 \in S
      PROVE  k \in S
  <2> SUFFICES ASSUME NEW i \in 1 .. k, NEW j \in 1 .. k, i < j
               PROVE  FinishedBefore(h[i], h[j])
    OBVIOUS
  <2>1. CASE j # k
    <3>1. i \in 1 .. k - 1 /\ j \in 1 .. k - 1
      BY <2>1
    <3> QED
      BY <1>2, <3>1
  <2>2. CASE j = k
    <3>1. k \in 2 .. n /\ i \in 1 .. k - 1 /\ k - 1 \in 1 .. k - 1
      BY <2>2
    <3>2. FinishedBefore(h[k - 1], h[k])
      BY <3>1
    <3>3. CASE i = k - 1
      BY <2>2, <3>2, <3>3
    <3>4. CASE i < k - 1
      <4>1. FinishedBefore(h[i], h[k - 1])
        BY <1>2, <3>1, <3>4
      <4> QED
        BY <2>2, <3>2, <4>1, FinishIsOrder
    <3> QED
      BY <3>1, <3>3, <3>4
  <2> QED
    BY <2>1, <2>2
<1>3. n \in S
  <2> HIDE DEF S
  <2>1. 0 .. n \subseteq S
    BY <1>1, <1>2, BoundedInduction
  <2> QED
    BY <2>1
<1>4. \A i, j \in 1 .. n : i < j => h[i] # h[j]
  BY <1>3, FinishIsOrder
<1>5. \A i, j \in 1 .. n : i < j \/ i = j \/ j < i
  OBVIOUS
<1> QED
  BY <1>4, <1>5

LEMMA MoreThanPlaces ==
  ASSUME NEW n \in Nat, n >= 1, NEW f, \A k \in 1 .. n : f[k] \in 1 .. n - 1
  PROVE  \E i, j \in 1 .. n : i # j /\ f[i] = f[j]
<1> DEFINE g == [k \in 1 .. n |-> f[k]]
<1>1. /\ IsFiniteSet(1 .. n) /\ Cardinality(1 .. n) = n
      /\ IsFiniteSet(1 .. n - 1) /\ Cardinality(1 .. n - 1) = n - 1
  BY FS_Interval
<1>2. g \in [1 .. n -> 1 .. n - 1]
  OBVIOUS
<1> HIDE DEF g
<1>3. Cardinality(1 .. n - 1) < Cardinality(1 .. n)
  BY <1>1
<1>4. \E i, j \in 1 .. n : i # j /\ g[i] = g[j]
  BY <1>1, <1>2, <1>3, FS_PigeonHole
<1> QED
  BY <1>4 DEF g

\* Each loop that is passed on the way up is irreducible or finished later.
LEMMA UpEnds ==
  ASSUME TypesInv, TreeInv, Built, Reducible, OneRoleEach, NEW l \in Loops \ {Root}
  PROVE  \E k \in 1 .. Root : Ups(l)[k] = Root
<1> SUFFICES ASSUME \A k \in 1 .. Root : Ups(l)[k] # Root PROVE FALSE
  OBVIOUS
<1> USE DEF TypesInv
<1> PICK n, up : n = Root /\ up = Ups(l)
  OBVIOUS
<1> DEFINE Others == Loops \ {n}
<1>1. stage = "done" /\ n \in Nat /\ n \in Loops /\ Others = 1 .. n - 1
  BY DEF Built, HeadersInv, LoopsInv, Root, Loops
<1>2. up[0] = l /\ \A k \in 1 .. n : up[k] = IF up[k - 1] = 0 THEN 0 ELSE Outer(up[k - 1])
  BY UpFacts
<1> DEFINE S == {k \in 0 .. n : up[k] \in Others}
<1>3. \A k \in 0 .. n : up[k] \in Others
  <2>1. 0 \in S
    BY <1>1, <1>2
  <2>2. ASSUME NEW k \in 1 .. n, k - 1 \in S
        PROVE  k \in S
    <3>1. up[k - 1] \in Others /\ up[k - 1] # 0
      BY <1>1, <2>2
    <3>2. up[k] = Outer(up[k - 1])
      BY <1>2, <3>1
    <3>3. up[k] \in Loops
      BY <1>1, <3>1, <3>2 DEF TreeInv
    <3> QED
      BY <1>1, <3>3
  <2> HIDE DEF S
  <2>3. 0 .. n \subseteq S
    BY <1>1, <2>1, <2>2, BoundedInduction
  <2> QED
    BY <2>3 DEF S
<1>4. \A k \in 1 .. n : Climbs(up[k - 1], up[k])
  <2> TAKE k \in 1 .. n
  <2>1. k - 1 \in 0 .. n /\ k \in 0 .. n
    BY <1>1
  <2>2. up[k - 1] \in Others /\ up[k] \in Others /\ up[k - 1] # 0
    BY <1>1, <1>3, <2>1
  <2>3. up[k] = Outer(up[k - 1]) /\ Header(up[k]) \in Nodes
    BY <1>1, <1>2, <2>2 DEF HeadersInv
  <2> QED
    BY <1>1, <2>2, <2>3 DEF TreeInv
<1> DEFINE h == [k \in 1 .. n |-> Header(up[k])]
<1>5. \A k \in 2 .. n : FinishedBefore(h[k - 1], h[k])
  <2> TAKE k \in 2 .. n
  <2>1. k - 1 \in 1 .. n /\ k \in 1 .. n
    BY <1>1
  <2>2. IsReducible(up[k - 1]) /\ Climbs(up[k - 1], up[k])
    BY <1>4, <2>1 DEF Climbs
  <2> QED
    BY <2>1, <2>2 DEF Climbs
<1>6. \A i, j \in 1 .. n : i # j => h[i] # h[j]
  <2>1. P!S!BInv
    BY <1>1 DEF GraphInv
  <2> HIDE DEF h
  <2> QED
    BY <1>1, <1>5, <2>1, SortedDiffer
<1>7. \E i, j \in 1 .. n : i # j /\ up[i] = up[j]
  <2>1. n >= 1
    BY <1>1 DEF LoopsInv, Loops
  <2>2. \A k \in 1 .. n : up[k] \in 1 .. n - 1
    BY <1>1, <1>3
  <2> QED
    BY <1>1, <2>1, <2>2, MoreThanPlaces
<1> QED
  BY <1>6, <1>7

-----------------------------------------------------------------------------
(* The loops make a tree.                                                  *)

TiedInv == FiledInv /\ TiesInv /\ MarksInv /\ LatchesInv /\ TreeInv

LEMMA SameTied ==
  ASSUME TiedInv, UNCHANGED vars
  PROVE  TiedInv'
<1>1. /\ UNCHANGED <<succs, finished, backEdges, stage, m_loops, loop_of, m_dfs_nodes,
                     m_marked, loop_node, cur_loop, sources, todo>>
  BY DEF vars, search, loops, orders, walk
<1>2. /\ Loops' = Loops /\ Root' = Root
      /\ \A l : Header(l)' = Header(l) /\ IsReducible(l)' = IsReducible(l)
      /\ \A l : Latches(l)' = Latches(l) /\ Body(l)' = Body(l)
      /\ \A l : Inners(l)' = Inners(l) /\ Outer(l)' = Outer(l)
      /\ \A b, l : In(b, l)' <=> In(b, l)
  BY <1>1, SameTies DEF Root, In
<1>3. (Reducible' <=> Reducible) /\ (OneRoleEach' <=> OneRoleEach)
  BY <1>1 DEF Reducible, OneRoleEach, Dom
<1>4. FiledInv'
  BY <1>1, <1>2, <1>3 DEF TiedInv, FiledInv
<1>5. TiesInv' /\ MarksInv'
  BY <1>1, <1>2 DEF TiedInv, TiesInv, MarksInv
<1>6. LatchesInv'
  <2>1. /\ \A i : LoopAt(i)' = LoopAt(i) /\ Fence(i)' = Fence(i) /\ Starts(i)' = Starts(i)
        /\ \A i : (Left(i)' <=> Left(i)) /\ (Current(i)' <=> Current(i)) /\ (KnownAt(i)' <=> KnownAt(i))
    BY <1>1 DEF LoopAt, Fence, Starts, Left, Current, KnownAt
  <2>2. Members(todo)' = Members(todo)
    BY <1>1 DEF Members
  <2> QED
    BY <1>1, <1>3, <2>1, <2>2 DEF TiedInv, LatchesInv
<1>7. TreeInv'
  <2>1. \A m, l : Climbs(m, l)' <=> Climbs(m, l)
    BY <1>1, <1>2 DEF Climbs, FinishedBefore, Precede
  <2> QED
    BY <1>1, <1>2, <1>3, <2>1 DEF TiedInv, TreeInv
<1> QED
  BY <1>4, <1>5, <1>6, <1>7 DEF TiedInv

LEMMA InitTied == Init => TiedInv
<1> SUFFICES ASSUME Init PROVE TiedInv
  OBVIOUS
<1>1. stage = "dom3" /\ m_loops = << >>
  BY DEF Init
<1>2. Loops = {}
  BY <1>1 DEF Loops
<1> QED
  BY <1>1, <1>2 DEF TiedInv, FiledInv, TiesInv, MarksInv, LatchesInv, TreeInv

LEMMA NextTied == LoopInv /\ NaturalInv /\ RestsInv /\ TiedInv /\ [Next]_vars => TiedInv'
<1> SUFFICES ASSUME LoopInv, NaturalInv, RestsInv, TiedInv, [Next]_vars PROVE TiedInv'
  OBVIOUS
<1>1. CASE Step
  BY <1>1, NextFiled, NextTies, NextMarks, NextLatches, NextTree DEF LoopInv, RestsInv, TiedInv
<1>2. CASE UNCHANGED vars
  BY <1>2, SameTied
<1> QED
  BY <1>1, <1>2 DEF Next, Done

(***************************************************************************)
(* When the loop tree is built, inners is the inverse of outer, and where  *)
(* the graph is reducible and no block is a latch of two loops or a latch  *)
(* and a header, outer leads from every loop to the root loop: a loop that *)
(* is linked under another one has its header finished before the header   *)
(* of that, since a search comes into a loop at its header or at a latch   *)
(* that no search from an outer loop has left unmarked.                    *)
(***************************************************************************)
THEOREM LoopsMakeATree == Spec => []LoopsFormATree
<1>1. LoopInv /\ TiedInv => LoopsFormATree
  <2> SUFFICES ASSUME LoopInv, TiedInv, Built
               PROVE  /\ \A l, m \in Loops : m \in Inners(l) <=> Outer(m) = l
                      /\ Reducible /\ OneRoleEach =>
                           \A l \in Loops \ {Root} : \E k \in 1 .. Root : Ups(l)[k] = Root
    BY DEF LoopsFormATree, Inners, Outer, Ups
  <2> QED
    BY UpEnds DEF LoopInv, TiedInv, TiesInv
<1> QED
  BY <1>1, RestsAlways, InitTied, NextTied, PTL DEF Spec

-----------------------------------------------------------------------------
(* How many calls of loop_search can be under way.                         *)

Edges == {e \in Nodes \X (1 .. 2) : e[2] \in DOMAIN succs[e[1]]}
EdgesInto(B) == {e \in Edges : succs[e[1]][e[2]] \in B}

LEMMA FiniteEdges ==
  ASSUME made \in MadeOrders
  PROVE  /\ IsFiniteSet(Edges) /\ Cardinality(Edges) \in Nat
         /\ \A E \in SUBSET Edges : /\ IsFiniteSet(E) /\ Cardinality(E) \in Nat
                                    /\ \A F \in SUBSET E : Cardinality(F) <= Cardinality(E)
<1>1. IsFiniteSet(Nodes) /\ IsFiniteSet(1 .. 2)
  <2>1. 1 \in Int /\ 2 \in Int
    OBVIOUS
  <2>2. IsFiniteSet(1 .. 2)
    BY <2>1, FS_Interval
  <2> QED
    BY <2>2, FiniteNodes
<1>2. IsFiniteSet(Nodes \X (1 .. 2)) /\ Edges \in SUBSET (Nodes \X (1 .. 2))
  BY <1>1, FS_Product DEF Edges
<1>3. IsFiniteSet(Edges)
  BY <1>2, FS_Subset
<1>4. \A E \in SUBSET Edges : IsFiniteSet(E)
  BY <1>3, FS_Subset
<1>5. \A E : IsFiniteSet(E) => Cardinality(E) \in Nat
  BY FS_CardinalityType
<1>6. \A E \in SUBSET Edges : \A F \in SUBSET E : Cardinality(F) <= Cardinality(E)
  BY <1>4, FS_Subset
<1> QED
  BY <1>3, <1>4, <1>5, <1>6

\* One target of the terminator of u: an entry of m_preds is an edge.
LinkEdge(E, b, u, k) ==
  IF k \in DOMAIN succs[u] /\ succs[u][k] = b THEN E \cup {<<u, k>>} ELSE E

LEMMA LinkCount ==
  ASSUME NEW q \in Seq(Nodes), NEW b, NEW u \in Nodes, NEW k, NEW E, IsFiniteSet(E),
         Len(q) <= Cardinality(E), <<u, k>> \notin E
  PROVE  /\ LinkTarget(succs, q, b, u, k) \in Seq(Nodes)
         /\ IsFiniteSet(LinkEdge(E, b, u, k))
         /\ Len(LinkTarget(succs, q, b, u, k)) <= Cardinality(LinkEdge(E, b, u, k))
<1>1. CASE k \in DOMAIN succs[u] /\ succs[u][k] = b
  <2> PICK F : F = E \cup {<<u, k>>}
    OBVIOUS
  <2>1. IsFiniteSet(F) /\ Cardinality(F) = Cardinality(E) + 1
    BY FS_AddElement
  <2>2. Append(q, u) \in Seq(Nodes) /\ Len(Append(q, u)) = Len(q) + 1 /\ Len(q) \in Nat
    OBVIOUS
  <2>3. Cardinality(E) \in Nat
    BY FS_CardinalityType
  <2>4. Len(Append(q, u)) <= Cardinality(F)
    BY <2>1, <2>2, <2>3
  <2>5. LinkTarget(succs, q, b, u, k) = Append(q, u) /\ LinkEdge(E, b, u, k) = F
    BY <1>1 DEF LinkTarget, LinkEdge
  <2> QED
    BY <2>1, <2>2, <2>4, <2>5
<1>2. CASE ~(k \in DOMAIN succs[u] /\ succs[u][k] = b)
  BY <1>2 DEF LinkTarget, LinkEdge
<1> QED
  BY <1>1, <1>2

\* A block has an entry in m_preds for each edge into it, and no more.
LEMMA PredsCount ==
  ASSUME succs \in Graphs, made \in MadeOrders, NEW b
  PROVE  /\ m_preds(succs, made, b) \in Seq(Nodes)
         /\ Len(m_preds(succs, made, b)) <= Cardinality(EdgesInto({b}))
<1> PICK n : n = Len(made)
  OBVIOUS
<1>1. /\ made \in Seq(Nodes) /\ n \in Nat /\ DOMAIN made = 1 .. n
      /\ \A i, j \in 1 .. n : made[i] = made[j] => i = j
  BY MadeAssumption
<1>2. PICK f : LinkSteps(f, succs, made, b) /\ m_preds(succs, made, b) = f[n]
  BY <1>1, PredsSteps
<1> DEFINE E(i) == {e \in EdgesInto({b}) : \E j \in 1 .. i : made[j] = e[1]}
<1>3. \A i : E(i) \subseteq EdgesInto({b}) /\ IsFiniteSet(E(i)) /\ Cardinality(E(i)) \in Nat
  BY FiniteEdges DEF EdgesInto
<1>4. \A i : \A e \in EdgesInto({b}) : e \in E(i) <=> \E j \in 1 .. i : made[j] = e[1]
  OBVIOUS
<1> HIDE DEF E
<1> DEFINE K == {i \in 0 .. n : Len(f[i]) <= Cardinality(E(i))}
<1>5. 0 \in K
  <2>1. f[0] = << >> /\ Len(<< >>) = 0
    BY <1>2 DEF LinkSteps
  <2>2. Cardinality(E(0)) >= 0
    BY <1>3
  <2> QED
    BY <1>1, <2>1, <2>2
<1>6. ASSUME NEW i \in 1 .. n, i - 1 \in K
      PROVE  i \in K
  <2> PICK u : u = made[i]
    OBVIOUS
  <2> PICK C : C = E(i - 1)
    OBVIOUS
  <2> PICK g : g = f[i - 1]
    OBVIOUS
  <2>1. u \in Nodes /\ g \in Seq(Nodes) /\ f[i] = LinkBoth(succs, g, b, u)
    <3>1. i - 1 \in 0 .. n /\ i \in DOMAIN made
      BY <1>1
    <3> QED
      BY SMTT(30), <1>1, <1>2, <3>1 DEF LinkSteps
  <2>2. IsFiniteSet(C) /\ Len(g) <= Cardinality(C) /\ C \subseteq EdgesInto({b})
    BY <1>3, <1>6
  <2>3. \A e \in C : e[1] # u
    <3>1. \A j \in 1 .. i - 1 : made[j] # u
      BY <1>1
    <3> QED
      BY <1>3, <1>4, <3>1
  <2>4. \A k : <<u, k>> \notin C
    BY <2>3
  <2> PICK r, F : r = LinkTarget(succs, g, b, u, 1) /\ F = LinkEdge(C, b, u, 1)
    OBVIOUS
  <2>5. r \in Seq(Nodes) /\ IsFiniteSet(F) /\ Len(r) <= Cardinality(F)
    BY <2>1, <2>2, <2>4, LinkCount
  <2>6. <<u, 2>> \notin F
    BY <2>4 DEF LinkEdge
  <2> PICK s, H : s = LinkTarget(succs, r, b, u, 2) /\ H = LinkEdge(F, b, u, 2)
    OBVIOUS
  <2>7. s \in Seq(Nodes) /\ IsFiniteSet(H) /\ Len(s) <= Cardinality(H)
    BY <2>1, <2>5, <2>6, LinkCount
  <2>8. H \subseteq E(i)
    <3>1. C \subseteq E(i)
      <4>1. 1 .. i - 1 \subseteq 1 .. i
        BY <1>1
      <4> QED
        BY <1>4, <2>2, <4>1
    <3>2. \A k \in {1, 2} : k \in DOMAIN succs[u] /\ succs[u][k] = b => <<u, k>> \in E(i)
      <4> TAKE k \in {1, 2}
      <4> HAVE k \in DOMAIN succs[u] /\ succs[u][k] = b
      <4> PICK e : e = <<u, k>>
        OBVIOUS
      <4>1. e[1] = u /\ e[2] = k /\ e \in Nodes \X (1 .. 2)
        BY <2>1
      <4>2. e \in EdgesInto({b})
        BY <4>1 DEF EdgesInto, Edges
      <4>3. i \in 1 .. i
        BY <1>1
      <4> QED
        BY <1>4, <4>1, <4>2, <4>3
    <3> QED
      BY <3>1, <3>2 DEF LinkEdge
  <2>9. Cardinality(H) <= Cardinality(E(i)) /\ Cardinality(H) \in Nat
    BY <1>3, <2>7, <2>8, FS_Subset, FS_CardinalityType
  <2>10. f[i] = s /\ Len(s) \in Nat
    BY <2>1, <2>7 DEF LinkBoth
  <2>11. Len(f[i]) <= Cardinality(E(i))
    BY <1>3, <2>7, <2>9, <2>10
  <2>12. i \in 0 .. n
    BY <1>1
  <2> QED
    BY <2>11, <2>12
<1> HIDE DEF K
<1>7. n \in K
  <2>1. 0 .. n \subseteq K
    BY <1>1, <1>5, <1>6, BoundedInduction
  <2> QED
    BY <1>1, <2>1
<1>8. f[n] \in Seq(Nodes)
  BY <1>1, <1>2 DEF LinkSteps
<1>9. /\ Cardinality(E(n)) <= Cardinality(EdgesInto({b})) /\ Cardinality(EdgesInto({b})) \in Nat
      /\ Cardinality(E(n)) \in Nat
  BY <1>3, FiniteEdges DEF EdgesInto
<1>10. Len(f[n]) <= Cardinality(E(n)) /\ Len(f[n]) \in Nat
  BY <1>7, <1>8 DEF K
<1>11. Len(f[n]) <= Cardinality(EdgesInto({b}))
  BY <1>9, <1>10
<1> QED
  BY <1>2, <1>8, <1>11

\* Each edge into a marked block has added one call, at most.
BoundInv == todo # << >> => Len(todo) <= 1 + Cardinality(EdgesInto(m_marked))

LEMMA BoundWalks ==
  ASSUME TypesInv, BoundInv, Walks
  PROVE  BoundInv'
<1>1. stage # "dom3" /\ todo \in Seq(Nodes) /\ made \in MadeOrders /\ succs' = succs
  BY DEF TypesInv, QueuesInv, GraphInv, Walks, search
<1>2. Cardinality(EdgesInto(m_marked)) \in Nat
  BY <1>1, FiniteEdges DEF EdgesInto
<1>3. CASE Collected
  BY <1>1, <1>3 DEF Collected, walk, BoundInv, EdgesInto, Edges
<1>4. CASE EnterReducible
  <2>1. todo' = << >>
    BY <1>4 DEF EnterReducible, TypesInv, QueuesInv
  <2> QED
    BY <2>1 DEF BoundInv
<1>5. CASE NextSource
  <2>1. m_marked' = m_marked /\ \E s : todo' = <<s>>
    BY <1>5 DEF NextSource
  <2>2. Len(todo') = 1
    BY <2>1
  <2>3. EdgesInto(m_marked)' = EdgesInto(m_marked)
    BY <1>1, <2>1 DEF EdgesInto, Edges
  <2> QED
    BY <1>2, <2>2, <2>3 DEF BoundInv
<1>6. CASE SkipMarked
  <2>1. m_marked' = m_marked /\ todo # << >> /\ todo' = Tail(todo)
    BY <1>6 DEF SkipMarked
  <2>2. Len(todo') + 1 = Len(todo) /\ Len(todo') \in Nat
    BY <1>1, <2>1, HeadAndTail
  <2>3. EdgesInto(m_marked)' = EdgesInto(m_marked)
    BY <1>1, <2>1 DEF EdgesInto, Edges
  <2> QED
    BY <1>2, <2>1, <2>2, <2>3 DEF BoundInv
<1>7. CASE LeaveReducible
  <2>1. todo' = << >>
    BY <1>7 DEF LeaveReducible
  <2> QED
    BY <2>1 DEF BoundInv
<1> QED
  BY <1>3, <1>4, <1>5, <1>6, <1>7 DEF Walks

LEMMA BoundComes ==
  ASSUME TypesInv, BoundInv, NEW b, Comes(b)
  PROVE  BoundInv'
<1>1. /\ UNCHANGED search /\ stage = "populate" /\ b \in Nodes /\ SearchBlock
      /\ b = Head(todo) /\ todo # << >> /\ b \notin m_marked /\ todo \in Seq(Nodes)
  BY DEF Comes, TypesInv, QueuesInv
<1>2. /\ todo' = m_preds(succs, made, b) \o Tail(todo) /\ m_marked' = m_marked \cup {b}
      /\ succs' = succs
  BY <1>1 DEF SearchBlock, Marked, search
<1>3. succs \in Graphs /\ made \in MadeOrders
  BY <1>1, SearchFacts DEF TypesInv
<1> PICK p, t : p = m_preds(succs, made, b) /\ t = Tail(todo)
  OBVIOUS
<1> PICK X, Y, Z : /\ X = EdgesInto(m_marked) /\ Y = EdgesInto({b})
                   /\ Z = EdgesInto(m_marked \cup {b})
  OBVIOUS
<1>4. p \in Seq(Nodes) /\ Len(p) <= Cardinality(Y)
  BY <1>3, PredsCount
<1>5. t \in Seq(Nodes) /\ Len(t) + 1 = Len(todo)
  BY <1>1, HeadAndTail
<1>6. Len(p \o t) = Len(p) + Len(t) /\ Len(p) \in Nat /\ Len(t) \in Nat
  BY <1>4, <1>5
<1>7. Z = X \cup Y /\ X \cap Y = {}
  BY <1>1 DEF EdgesInto
<1>8. /\ IsFiniteSet(X) /\ IsFiniteSet(Y)
      /\ Cardinality(X) \in Nat /\ Cardinality(Y) \in Nat /\ Cardinality(Z) \in Nat
  BY <1>3, FiniteEdges DEF EdgesInto
<1>9. Cardinality(Z) = Cardinality(X) + Cardinality(Y)
  <2>1. Cardinality(Z) = Cardinality(X) + Cardinality(Y) - Cardinality(X \cap Y)
    <3>1. Cardinality(X \cup Y) = Cardinality(X) + Cardinality(Y) - Cardinality(X \cap Y)
      BY <1>8, FS_Union
    <3> QED
      BY <1>7, <3>1
  <2>2. Cardinality(X \cap Y) = 0
    BY <1>7, FS_EmptySet
  <2> QED
    BY <1>7, <1>8, <2>1, <2>2
<1>10. Len(todo) <= 1 + Cardinality(X)
  BY <1>1 DEF BoundInv
<1>11. Len(p \o t) <= 1 + Cardinality(Z)
  BY <1>4, <1>5, <1>6, <1>8, <1>9, <1>10
<1>12. EdgesInto(m_marked)' = Z
  BY <1>2 DEF EdgesInto, Edges
<1> QED
  BY <1>2, <1>11, <1>12 DEF BoundInv

LEMMA NextBound ==
  ASSUME TypesInv, BoundInv, Step
  PROVE  BoundInv'
<1>1. CASE todo' = << >>
  BY <1>1 DEF BoundInv
<1>2. CASE BuildDomTree \/ CollectBackEdges \/ GoesOn
           \/ \E src, dst \in Nodes : Closes(src, dst) /\ \E cur : Filed(src, dst, cur)
  <2>1. todo' = todo /\ (stage = "dom3" \/ stage = "edges")
    BY <1>2 DEF BuildDomTree, CollectBackEdges, GoesOn, Closes, walk
  <2>2. todo = << >>
    BY <2>1 DEF TypesInv, GraphInv, QueuesInv
  <2> QED
    BY <1>1, <2>1, <2>2
<1>3. CASE Walks
  BY <1>3, BoundWalks
<1>4. CASE (\E l : Takes(l)) \/ \E root : Roots(root)
  <2>1. UNCHANGED <<search, m_marked, todo>>
    BY <1>4 DEF Takes, Roots, walk
  <2>2. EdgesInto(m_marked)' = EdgesInto(m_marked)
    BY <2>1 DEF EdgesInto, Edges, search
  <2> QED
    BY <2>1, <2>2 DEF BoundInv
<1>5. CASE \E b : Comes(b)
  BY <1>5, BoundComes
<1> QED
  BY <1>2, <1>3, <1>4, <1>5, StepKinds

(* However the cycles of the graph lie, the calls of loop_search that are  *)
(* still to come are never more than the edges and the one the search      *)
(* began with: a block is marked before its predecessors are called for,   *)
(* and each of its edges calls once.                                       *)
THEOREM SearchesAreBounded == Spec => []SearchBounded
<1> DEFINE Inv == TypesInv /\ BoundInv
<1>1. Init => Inv
  <2>1. Init => todo = << >>
    BY DEF Init
  <2> QED
    BY <2>1, InitTypes DEF BoundInv
<1>2. Inv /\ [Next]_vars => Inv'
  <2> SUFFICES ASSUME TypesInv, BoundInv, [Next]_vars PROVE BoundInv'
    BY NextTypes
  <2>1. CASE Step
    BY <2>1, NextBound
  <2>2. CASE UNCHANGED vars
    <3>1. UNCHANGED <<succs, m_marked, todo>>
      BY <2>2 DEF vars, search, walk
    <3> QED
      BY <3>1 DEF BoundInv, EdgesInto, Edges
  <2> QED
    BY <2>1, <2>2 DEF Next, Done
<1>3. Inv => SearchBounded
  <2> SUFFICES ASSUME TypesInv, BoundInv PROVE Len(todo) <= 1 + Cardinality(Edges)
    BY DEF SearchBounded, Edges
  <2>1. made \in MadeOrders /\ todo \in Seq(Nodes)
    BY DEF TypesInv, GraphInv, QueuesInv
  <2>2. /\ Cardinality(Edges) \in Nat
        /\ Cardinality(EdgesInto(m_marked)) \in Nat
        /\ Cardinality(EdgesInto(m_marked)) <= Cardinality(Edges)
    BY <2>1, FiniteEdges DEF EdgesInto
  <2>3. Len(todo) \in Nat /\ (todo = << >> => Len(todo) = 0)
    BY <2>1
  <2>4. CASE todo = << >>
    BY <2>2, <2>3, <2>4
  <2>5. CASE todo # << >>
    <3>1. Len(todo) <= 1 + Cardinality(EdgesInto(m_marked))
      BY <2>5 DEF BoundInv
    <3> QED
      BY <2>2, <2>3, <3>1
  <2> QED
    BY <2>4, <2>5
<1> QED
  BY <1>1, <1>2, <1>3, PTL DEF Spec

=============================================================================
