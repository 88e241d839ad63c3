------------------------------- MODULE CFGraph -------------------------------
(***************************************************************************)
(* Reference definitions on control flow graphs, for the properties of the *)
(* graph algorithms.  A graph is a function from blocks to the sequence of *)
(* their successors (BasicBlock::m_succs); only m_preds is code.           *)
(***************************************************************************)
EXTENDS Naturals, Sequences, FiniteSets

CONSTANTS
  Nodes,      \* the basic blocks
  Entry,      \* BBGraph::head()
  Graphs,     \* the graphs: block -> its successors, in the order of its vector
  MadeOrders, \* the orders in which the terminators may have been made
  bb_ids,     \* the ids of the blocks of each graph
  NoNode

ASSUME DFSAssumption == /\ Entry \in Nodes
                        /\ NoNode \notin Nodes
                        /\ Graphs \subseteq [Nodes -> Seq(Nodes)]

(* An IF has two targets, the other terminators one or none. *)
ASSUME TargetsAssumption == \A g \in Graphs : \A b \in Nodes : Len(g[b]) <= 2

(* Each block has one terminator. *)
ASSUME MadeAssumption ==
  \A s \in MadeOrders : /\ s \in Seq(Nodes)
                        /\ \A b \in Nodes : \E i \in DOMAIN s : s[i] = b
                        /\ \A i, j \in DOMAIN s : s[i] = s[j] => i = j

(* Function::create<BasicBlock> gives a block the id after that of the last *)
(* one, inlining numbers them anew; erased blocks leave gaps.               *)
ASSUME IdsAssumption ==
  /\ bb_ids \in [Graphs -> [Nodes -> Nat]]
  /\ \A g \in Graphs : \A b, c \in Nodes : bb_ids[g][b] = bb_ids[g][c] => b = c

Blocks(succs) == DOMAIN succs
IsEdge(succs, u, v) == \E i \in DOMAIN succs[u] : succs[u][i] = v

(* The blocks reached from the set S without entering the set Avoid. *)
ReachAvoiding(succs, S, Avoid) ==
  LET after[k \in 0 .. Cardinality(Blocks(succs))] ==
        IF k = 0 THEN S \ Avoid
        ELSE LET r == after[k - 1]
             IN r \cup ({v \in Blocks(succs) : \E u \in r : IsEdge(succs, u, v)} \ Avoid)
  IN after[Cardinality(Blocks(succs))]

Reachable(succs, head) == ReachAvoiding(succs, {head}, {})

(* d is on every path from head to n, for reachable n. *)
Dominates(succs, head, d, n) ==
  d = n \/ n \notin ReachAvoiding(succs, {head}, {d})

Dominators(succs, head, n) ==
  {d \in Reachable(succs, head) : Dominates(succs, head, d, n)}

(* The strict dominator of n that all its other strict dominators dominate. *)
IsIdom(succs, head, d, n) ==
  /\ d # n
  /\ d \in Dominators(succs, head, n)
  /\ \A e \in Dominators(succs, head, n) \ {n} : Dominates(succs, head, e, d)

-----------------------------------------------------------------------------
(***************************************************************************)
(* BasicBlock::m_preds of b, an entry for each edge into it, when the      *)
(* terminators were made in the order of the blocks in made: each links    *)
(* its targets, two at most, as it is made (basic_block.hh:119-125,        *)
(* 246-263).                                                               *)
(***************************************************************************)
m_preds_FirstTargets(succs, made, b) ==                           \* mutant
  SelectSeq(made, LAMBDA u : 1 \in DOMAIN succs[u] /\ succs[u][1] = b)
LinkTarget(succs, preds, b, u, k) ==
  IF k \in DOMAIN succs[u] /\ succs[u][k] = b THEN Append(preds, u) ELSE preds
m_preds(succs, made, b) ==
  LET preds[i \in 0 .. Len(made)] ==
        IF i = 0 THEN << >>
        ELSE LinkTarget(succs, LinkTarget(succs, preds[i - 1], b, made[i], 1), b, made[i], 2)
  IN preds[Len(made)]
=============================================================================
