------------------------------- MODULE LoopTree -------------------------------
(***************************************************************************)
(* The loop tree builder of include/analysis/loop_analyzer.hh.  It runs    *)
(* the dominator tree builder (the steps of DomTree) and then a search of  *)
(* its own, whose visitor makes the loops; afterwards it searches each     *)
(* loop backwards from its latches and puts what is left in a root loop.   *)
(*                                                                         *)
(* A loop is its position in m_loops, from 1; 0 is nullptr.  m_dom3 is the *)
(* map of DomTree, loop_of the map m_data of this builder.                 *)
(***************************************************************************)
EXTENDS Naturals, Sequences, FiniteSets, CFGraph

VARIABLES
  made, succs, m_visited, m_stack, parent, cur_it, discovered, finished, backEdges,
  phase, node, preds, m_sdoms, m_idoms, m_sdommed_bucket, bucket_it, dsu, m_dom3,
  stage,           \* the function LoopTreeBuilder is in
  m_loops,         \* the loops
  loop_of,         \* m_data: block -> its loop
  m_dfs_nodes,     \* the blocks that had a loop when they were finished
  free_loop_nodes, \* the others
  m_marked,        \* the blocks that are BLACK in m_marked
  loop_node,       \* populate_loops: how far the loop over m_dfs_nodes is
  cur_loop,        \* the loop it searches, or 0
  sources,         \* the latches loop_search has still to be called with
  todo             \* the calls of loop_search that are still to come, the next first

search == <<succs, m_visited, m_stack, parent, cur_it, discovered, finished, backEdges>>
domtree == <<made, phase, node, preds, m_sdoms, m_idoms, m_sdommed_bucket, bucket_it,
             dsu, m_dom3>>
loops == <<m_loops, loop_of>>
orders == <<m_dfs_nodes, free_loop_nodes>>
walk == <<m_marked, loop_node, cur_loop, sources, todo>>
vars == <<search, domtree, stage, loops, orders, walk>>

T == INSTANCE DomTree WITH m_data <- m_dom3
D == INSTANCE DFS

Loops == DOMAIN m_loops
HasLoop(b) == b \in DOMAIN loop_of
At(map, b, l) == [c \in DOMAIN map \cup {b} |-> IF c = b THEN l ELSE map[c]]

NewLoop(header, reducible, root) ==
  [header |-> header, reducible |-> reducible, root |-> root,
   body |-> << >>, back_edges |-> {}, inners |-> {}, outer |-> 0]

(* add_back_edge, and add_inner in m_loops. *)
WithBackEdge_BodyOnly(loop, src) ==                               \* mutant
  [loop EXCEPT !.body = Append(@, src)]
WithBackEdge(loop, src) ==
  [loop EXCEPT !.back_edges = @ \cup {src}, !.body = Append(@, src)]
WithInner_OuterNotSet(ls, l, inner) == [ls EXCEPT ![l].inners = @ \cup {inner}]  \* mutant
WithInner(ls, l, inner) ==
  [ls EXCEPT ![l].inners = @ \cup {inner}, ![inner].outer = l]

Fenced_Not(l) == m_marked                                         \* mutant
Fenced(l) == m_marked \cup {m_loops[l].header}
Marked_OnlyTaken(b) == IF HasLoop(b) THEN m_marked ELSE m_marked \cup {b}  \* mutant
Marked(b) == m_marked \cup {b}

-----------------------------------------------------------------------------
Init ==
  /\ T!Init
  /\ stage = "dom3"
  /\ m_loops = << >> /\ loop_of = [b \in {} |-> 0]
  /\ m_dfs_nodes = << >> /\ free_loop_nodes = << >>
  /\ m_marked = {} /\ loop_node = 1 /\ cur_loop = 0 /\ sources = {} /\ todo = << >>

BuildDomTree ==
  /\ stage = "dom3"
  /\ T!Step
  /\ UNCHANGED <<stage, loops, orders, walk>>

(* collect_back_edges starts a search of its own. *)
CollectBackEdges ==
  /\ stage = "dom3"
  /\ phase = "done"
  /\ stage' = "edges"
  /\ m_visited' = [b \in Nodes |-> "WHITE"]
  /\ discovered' = << >> /\ finished' = << >> /\ backEdges' = {}
  /\ UNCHANGED <<succs, m_stack, parent, cur_it, domtree, loops, orders, walk>>

(* The visitor: back_edge. *)
BackEdge_LatchKeepsLoop(src, dst) ==                              \* mutant
  LET new  == ~HasLoop(dst)
      cur  == IF new THEN Len(m_loops) + 1 ELSE loop_of[dst]
      ls   == IF new THEN Append(m_loops, NewLoop(dst, T!dominates(dst, src), FALSE))
                     ELSE m_loops
  IN /\ m_loops' = [ls EXCEPT ![cur] = WithBackEdge(@, src)]
     /\ loop_of' = IF HasLoop(src) THEN At(loop_of, dst, cur)
                                   ELSE At(At(loop_of, dst, cur), src, cur)
BackEdge(src, dst) ==
  LET new  == ~HasLoop(dst)
      cur  == IF new THEN Len(m_loops) + 1 ELSE loop_of[dst]
      ls   == IF new THEN Append(m_loops, NewLoop(dst, T!dominates(dst, src), FALSE))
                     ELSE m_loops
  IN /\ m_loops' = [ls EXCEPT ![cur] = WithBackEdge(@, src)]
     /\ loop_of' = At(At(loop_of, dst, cur), src, cur)

(* The visitor: finish_node. *)
FinishNode(pnode) ==
  IF HasLoop(pnode)
  THEN m_dfs_nodes' = Append(m_dfs_nodes, pnode) /\ UNCHANGED free_loop_nodes
  ELSE free_loop_nodes' = Append(free_loop_nodes, pnode) /\ UNCHANGED m_dfs_nodes

Search ==
  /\ stage = "edges"
  /\ \/ (D!Start \/ D!Pop \/ D!Descend) /\ UNCHANGED <<loops, orders>>
     \/ /\ D!Scan
        /\ IF D!IsOpen(D!Succ) THEN BackEdge(parent, D!Succ) ELSE UNCHANGED loops
        /\ UNCHANGED orders
     \/ D!Finish /\ FinishNode(parent) /\ UNCHANGED loops
  /\ UNCHANGED <<stage, domtree, walk>>

(* The search is over; populate_loops goes through m_dfs_nodes backwards. *)
Collected ==
  /\ stage = "edges"
  /\ D!Stopped
  /\ stage' = "populate"
  /\ m_dfs_nodes' = [i \in DOMAIN m_dfs_nodes |-> m_dfs_nodes[Len(m_dfs_nodes) + 1 - i]]
  /\ UNCHANGED <<search, domtree, loops, free_loop_nodes, walk>>

(* The next block of m_dfs_nodes, of a reducible loop: its header is       *)
(* marked, and its latches are to be searched from.                        *)
EnterReducible ==
  /\ stage = "populate"
  /\ cur_loop = 0 /\ loop_node <= Len(m_dfs_nodes)
  /\ LET l == loop_of[m_dfs_nodes[loop_node]]
     IN /\ m_loops[l].reducible
        /\ cur_loop' = l
        /\ m_marked' = Fenced(l)
        /\ sources' = m_loops[l].back_edges
  /\ UNCHANGED <<search, domtree, stage, loops, orders, loop_node, todo>>

(* The same of an irreducible loop: it takes its latches. *)
TakeLatches ==
  /\ stage = "populate"
  /\ cur_loop = 0 /\ loop_node <= Len(m_dfs_nodes)
  /\ LET l == loop_of[m_dfs_nodes[loop_node]]
     IN /\ ~m_loops[l].reducible
        /\ loop_of' = [b \in DOMAIN loop_of |->
                         IF b \in m_loops[l].back_edges THEN l ELSE loop_of[b]]
  /\ loop_node' = loop_node + 1
  /\ UNCHANGED <<search, domtree, stage, m_loops, orders, m_marked, cur_loop, sources, todo>>

(* loop_search is called with the next latch; they are in a std::set of    *)
(* pointers, in any order.                                                 *)
NextSource ==
  /\ cur_loop # 0 /\ todo = << >>
  /\ \E s \in sources : todo' = <<s>> /\ sources' = sources \ {s}
  /\ UNCHANGED <<search, domtree, stage, loops, orders, m_marked, loop_node, cur_loop>>

(* loop_search returns at once from a block that is marked. *)
SkipMarked ==
  /\ cur_loop # 0 /\ todo # << >>
  /\ Head(todo) \in m_marked
  /\ todo' = Tail(todo)
  /\ UNCHANGED <<search, domtree, stage, loops, orders, m_marked, loop_node, cur_loop, sources>>

(* loop_search marks a block, puts it into the loop or links the loop it   *)
(* is in, and calls itself for the predecessors.                           *)
SearchBlock ==
  /\ cur_loop # 0 /\ todo # << >>
  /\ Head(todo) \notin m_marked
  /\ LET b == Head(todo)
     IN /\ m_marked' = Marked(b)
        /\ IF HasLoop(b)
           THEN /\ m_loops' = IF loop_of[b] # cur_loop /\ m_loops[loop_of[b]].outer = 0
                              THEN WithInner(m_loops, cur_loop, loop_of[b]) ELSE m_loops
                /\ UNCHANGED loop_of
           ELSE /\ m_loops' = [m_loops EXCEPT ![cur_loop].body = Append(@, b)]
                /\ loop_of' = At(loop_of, b, cur_loop)
        /\ todo' = m_preds(succs, made, b) \o Tail(todo)
  /\ UNCHANGED <<search, domtree, stage, orders, loop_node, cur_loop, sources>>

(* The loop is done; its header is unmarked. *)
LeaveReducible ==
  /\ cur_loop # 0 /\ todo = << >> /\ sources = {}
  /\ m_marked' = m_marked \ {m_loops[cur_loop].header}
  /\ cur_loop' = 0
  /\ loop_node' = loop_node + 1
  /\ UNCHANGED <<search, domtree, stage, loops, orders, sources, todo>>

(* The free blocks that no backward search has taken. *)
WithoutLoop ==
  LET left[i \in 0 .. Len(free_loop_nodes)] ==
        IF i = 0 THEN << >>
        ELSE IF HasLoop(free_loop_nodes[i]) THEN left[i - 1]
        ELSE Append(left[i - 1], free_loop_nodes[i])
  IN left[Len(free_loop_nodes)]

(* init_root_loop: the blocks without a loop, and the loops without an     *)
(* outer one.                                                              *)
InitRootLoop ==
  /\ stage = "populate"
  /\ cur_loop = 0 /\ loop_node > Len(m_dfs_nodes)
  /\ LET root == Len(m_loops) + 1
         left == WithoutLoop
         tied == {l \in Loops : m_loops[l].outer = 0}
     IN /\ m_loops' = Append([l \in Loops |-> IF l \in tied THEN [m_loops[l] EXCEPT !.outer = root]
                                              ELSE m_loops[l]],
                             [NewLoop(NoNode, FALSE, TRUE) EXCEPT !.body = left, !.inners = tied])
        /\ loop_of' = [b \in DOMAIN loop_of \cup {left[i] : i \in DOMAIN left} |->
                         IF HasLoop(b) THEN loop_of[b] ELSE root]
  /\ stage' = "done"
  /\ UNCHANGED <<search, domtree, orders, walk>>

Stopped == stage = "done" \/ (stage = "dom3" /\ phase \in {"threw", "undefined"})
Done == Stopped /\ UNCHANGED vars

Step == BuildDomTree \/ CollectBackEdges \/ Search \/ Collected \/ EnterReducible
        \/ TakeLatches \/ NextSource \/ SkipMarked \/ SearchBlock \/ LeaveReducible
        \/ InitRootLoop
Next == Step \/ Done
Spec == Init /\ [][Next]_vars /\ WF_vars(Step)
-----------------------------------------------------------------------------
(* The type invariant.                                                     *)
TypeOK ==
  /\ stage \in {"dom3", "edges", "populate", "done"}
  /\ loop_of \in [DOMAIN loop_of -> Loops] /\ DOMAIN loop_of \subseteq Nodes
  /\ m_loops \in Seq([header : Nodes \cup {NoNode}, reducible : BOOLEAN, root : BOOLEAN,
                       body : Seq(Nodes), back_edges : SUBSET Nodes,
                       inners : SUBSET Loops, outer : Loops \cup {0}])
  /\ m_dfs_nodes \in Seq(DOMAIN loop_of) /\ free_loop_nodes \in Seq(Nodes)
  /\ m_marked \subseteq Nodes /\ sources \subseteq Nodes /\ todo \in Seq(Nodes)
  /\ loop_node \in Nat /\ cur_loop \in Loops \cup {0}

(* What a loop is: the blocks that reach a latch of h without passing h.   *)
Reached == Reachable(succs, Entry)
Dom(d, n) == Dominates(succs, Entry, d, n)
Latch(u, h) == u \in Reached /\ IsEdge(succs, u, h) /\ Dom(h, u)
NaturalLoop(h) ==
  {h} \cup {b \in Reached \ {h} : \E u \in ReachAvoiding(succs, {b}, {h}) : Latch(u, h)}
IsHeader(h) == h \in Reached /\ \E u \in Reached : Latch(u, h)
Headers == {h \in Nodes : IsHeader(h)}
Reducible == \A e \in backEdges : Dom(e[2], e[1])

(* No block is the latch of two loops, or a latch and a header.            *)
OneRoleEach ==
  /\ \A e, f \in backEdges : e[1] = f[1] => e = f
  /\ \A e, f \in backEdges : e[1] = f[2] => e = f

Built == stage = "done"
Root == Len(m_loops)

(* The dominator tree calls no reducible loop irreducible. *)
KnownReducible == \A l \in Loops \ {Root} : m_loops[l].reducible

(* inners is the inverse of outer, which in a reducible graph where no    *)
(* block is a latch of two loops, or of one and the header of one, leads   *)
(* from every loop to the root loop: one loop is the inner loop of one     *)
(* other, however the searches of nested loops meet each other's blocks.   *)
(* (Otherwise outer can be a cycle: in two overlapping irreducible cycles, *)
(* from five blocks on, or, from eight, where the search that unmarks a    *)
(* latch lets a later one take the loop whose header this is again.)       *)
LoopsFormATree ==
  Built => /\ \A l, m \in Loops : m \in m_loops[l].inners <=> m_loops[m].outer = l
           /\ Reducible /\ OneRoleEach =>
                \A l \in Loops \ {Root} :
                  LET up[k \in 0 .. Root] ==
                        IF k = 0 THEN l
                        ELSE IF up[k - 1] = 0 THEN 0 ELSE m_loops[up[k - 1]].outer
                  IN \E k \in 1 .. Root : up[k] = Root

(* Every block the search reaches has a loop, which linearize_graph and    *)
(* the liveness analysis take for granted (m_data.at).  In a reducible     *)
(* graph the root loop holds the blocks that are in no natural loop, and   *)
(* no others if the dominator tree knows the loops: a block the backward   *)
(* searches missed, or took although no latch is ahead of it, is on the    *)
(* wrong side of this.                                                     *)
RootHoldsTheRest ==
  Built => \A b \in Reached :
    LET free == \A h \in Headers : b \notin NaturalLoop(h)
    IN /\ HasLoop(b)
       /\ Reducible /\ free => loop_of[b] = Root
       /\ Reducible /\ KnownReducible /\ loop_of[b] = Root => free

(* The search from the latches of a loop does not leave it: in a reducible *)
(* graph what is put into the body of a reducible loop is in its natural   *)
(* loop.                                                                   *)
BodyInNaturalLoop ==
  Built /\ Reducible =>
    \A l \in Loops : m_loops[l].reducible =>
      LET loop == NaturalLoop(m_loops[l].header)
      IN \A i \in DOMAIN m_loops[l].body : m_loops[l].body[i] \in loop

(* Each back edge is filed in a loop whose header it leads to, and get_loop*)
(* of the header gives this loop.                                          *)
FiledUnderHeader ==
  \A e \in backEdges : LET l == loop_of[e[2]]
                       IN m_loops[l].header = e[2] /\ e[1] \in m_loops[l].back_edges

(* That holds where no block is a latch of two loops, or of one and the    *)
(* header of one.                                                          *)
BackEdgesFiled == Built /\ Reducible /\ OneRoleEach => FiledUnderHeader

(* ... but not in every reducible graph, because back_edge asks m_data     *)
(* whether the header has a loop, and it has if it is the latch of another.*)
ReducibleBackEdgesFiled == Built /\ Reducible => FiledUnderHeader

(* A block is in the innermost of its natural loops: populate_loops would  *)
(* have to come to inner loops first for that, as post order does.         *)
InnermostLoop ==
  Built /\ Reducible /\ OneRoleEach =>
    \A b \in Reached, h \in Headers :
      b \in NaturalLoop(h) =>
        LET g == m_loops[loop_of[b]].header IN g # NoNode /\ g \in NaturalLoop(h)

(* The calls of loop_search that are under way never exceed the edges: it  *)
(* recurs into the predecessors of a block once, cycles or not.            *)
SearchBounded ==
  Len(todo) <= 1 + Cardinality({e \in Nodes \X (1 .. 2) : e[2] \in DOMAIN succs[e[1]]})
=============================================================================
