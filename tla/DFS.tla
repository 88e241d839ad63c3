--------------------------------- MODULE DFS ---------------------------------
(***************************************************************************)
(* The iterative depth first search of include/graph/dfs.hh, DFSImpl, with *)
(* a visitor that records the calls it gets.  The graph is chosen in Init, *)
(* so that one run covers all of them.                                     *)
(*                                                                         *)
(* A turn of the loop of dfs_impl is Pop, then Scan for each successor the *)
(* inner loop passes over, then Finish or Descend.                         *)
(***************************************************************************)
EXTENDS SearchState

vars == <<succs, m_visited, m_stack, parent, cur_it, discovered, finished, backEdges>>

(* Nothing visited: the search is about to look at the head of the graph. *)
Init ==
  /\ succs \in Graphs
  /\ m_visited = [n \in Nodes |-> "WHITE"]
  /\ m_stack = << >>
  /\ parent = NoNode
  /\ cur_it = 0
  /\ discovered = << >>
  /\ finished = << >>
  /\ backEdges = {}

(* visit_node, without its push: color and callback. *)
Visit(n) ==
  /\ m_visited' = [m_visited EXCEPT ![n] = "GREY"]
  /\ discovered' = Append(discovered, n)

Fresh(n) == [it |-> 1, node |-> n]
AtEnd == cur_it > Len(succs[parent])
Succ == succs[parent][cur_it]
Known(n) == m_visited[n] # "WHITE"
IsOpen_AnyVisited(n) == Known(n)                                  \* mutant
IsOpen_OnStack(n) ==                                              \* mutant
  \E i \in DOMAIN m_stack : m_stack[i].node = n
IsOpen(n) == m_visited[n] = "GREY"

(* The first visit, before the loop.  The return for a null head is left   *)
(* out: Function::bb_graph makes no graph of a function without blocks.    *)
Start ==
  /\ discovered = << >>
  /\ Visit(Entry)
  /\ m_stack' = <<Fresh(Entry)>>
  /\ UNCHANGED <<succs, parent, cur_it, finished, backEdges>>

(* The top of the stack is popped. *)
Pop ==
  /\ parent = NoNode
  /\ m_stack # << >>
  /\ LET top == m_stack[Len(m_stack)]
     IN parent' = top.node /\ cur_it' = top.it
  /\ m_stack' = SubSeq(m_stack, 1, Len(m_stack) - 1)
  /\ UNCHANGED <<succs, m_visited, discovered, finished, backEdges>>

(* The inner loop passes over a successor that is in m_visited; one that is *)
(* still open is reported.                                                  *)
NextIt == cur_it + 1
Scan ==
  /\ parent # NoNode
  /\ ~AtEnd
  /\ Known(Succ)
  /\ backEdges' = IF IsOpen(Succ) THEN backEdges \cup {<<parent, Succ>>} ELSE backEdges
  /\ cur_it' = NextIt
  /\ UNCHANGED <<succs, m_visited, m_stack, parent, discovered, finished>>

(* No successor is left: the block is done. *)
Finish ==
  /\ parent # NoNode
  /\ AtEnd
  /\ m_visited' = [m_visited EXCEPT ![parent] = "BLACK"]
  /\ finished' = Append(finished, parent)
  /\ parent' = NoNode
  /\ UNCHANGED <<succs, m_stack, cur_it, discovered, backEdges>>

(* A new successor n: the block is pushed again, with its iterator moved   *)
(* on, and n on top of it.                                                 *)
PushBoth_SkipsOne(n) ==                                           \* mutant
  m_stack \o <<[it |-> cur_it + 2, node |-> parent], Fresh(n)>>
PushBoth_ParentOnTop(n) ==                                        \* mutant
  m_stack \o <<Fresh(n), [it |-> cur_it + 1, node |-> parent]>>
PushBoth(n) == m_stack \o <<[it |-> cur_it + 1, node |-> parent], Fresh(n)>>
Descend ==
  /\ parent # NoNode
  /\ ~AtEnd
  /\ ~Known(Succ)
  /\ Visit(Succ)
  /\ m_stack' = PushBoth(Succ)
  /\ parent' = NoNode
  /\ UNCHANGED <<succs, cur_it, finished, backEdges>>

Done == Stopped /\ UNCHANGED vars

Step == Start \/ Pop \/ Scan \/ Finish \/ Descend
Next == Step \/ Done
Spec == Init /\ [][Next]_vars /\ WF_vars(Step)

(* deep_first_search_reverse_postoder. *)
reverse_postorder == [i \in DOMAIN finished |-> finished[Len(finished) + 1 - i]]

-----------------------------------------------------------------------------
(* Every variable has the type dfs.hh gives it, and an iterator is at a    *)
(* successor of its block or at the end.                                   *)
TypeOK ==
  /\ succs \in Graphs
  /\ m_visited \in [Nodes -> {"WHITE", "GREY", "BLACK"}]
  /\ m_stack \in Seq([it : Nat \ {0}, node : Nodes])
  /\ \A i \in DOMAIN m_stack : m_stack[i].it <= Len(succs[m_stack[i].node]) + 1
  /\ parent \in Nodes \cup {NoNode}
  /\ cur_it \in Nat
  /\ parent # NoNode => cur_it >= 1 /\ cur_it <= Len(succs[parent]) + 1
  /\ discovered \in Seq(Nodes) /\ finished \in Seq(Nodes)
  /\ backEdges \subseteq Nodes \X Nodes
=============================================================================
