----------------------------- MODULE SearchState -----------------------------
(***************************************************************************)
(* What a depth first search of include/graph/dfs.hh keeps, and what it    *)
(* promises of that: the steps are those of DFS, and DomTree starts with   *)
(* them.                                                                   *)
(***************************************************************************)
EXTENDS Naturals, Sequences, FiniteSets, CFGraph

VARIABLES
  succs,      \* the graph: BasicBlock::m_succs of every block
  m_visited,  \* block -> color; WHITE stands for a block that is not in the map
  m_stack,    \* (iterator, block) pairs, the top last; an iterator is an index
  parent,     \* the block popped, NoNode between two turns of the loop
  cur_it,     \* its iterator
  discovered, \* the blocks discover_node was called with, in order
  finished,   \* the blocks finish_node was called with, in order
  backEdges   \* the pairs back_edge was called with

(* The loop of dfs_impl has ended. *)
Stopped == discovered # << >> /\ parent = NoNode /\ m_stack = << >>

-----------------------------------------------------------------------------
(* Properties                                                              *)

Elements(seq) == {seq[i] : i \in DOMAIN seq}
Before(seq, u, v) == \E i, j \in DOMAIN seq : i < j /\ seq[i] = u /\ seq[j] = v
Discovered == Elements(discovered)
Finished == Elements(finished)

(***************************************************************************)
(* The stack, with the popped block on it, is the path from the head to    *)
(* where the search is: each block was entered over the edge just before   *)
(* the iterator of the one below it, and the blocks on it are exactly the  *)
(* grey ones (dfs.hh:57-81).  Only then does a grey successor close a      *)
(* cycle.                                                                  *)
(***************************************************************************)
Path ==
  IF parent = NoNode THEN m_stack ELSE Append(m_stack, [it |-> cur_it, node |-> parent])

StackIsGreyPath ==
  /\ \A n \in Nodes : m_visited[n] = "GREY" <=> \E i \in DOMAIN Path : Path[i].node = n
  /\ \A i, j \in DOMAIN Path : Path[i].node = Path[j].node => i = j
  /\ \A i \in DOMAIN Path :
       IF i = 1 THEN Path[i].node = Entry
       ELSE /\ Path[i - 1].it >= 2
            /\ succs[Path[i - 1].node][Path[i - 1].it - 1] = Path[i].node

(* Each block is discovered once at most, and finished once at most.       *)
Once(seq) == \A i, j \in DOMAIN seq : seq[i] = seq[j] => i = j
VisitedOnce == Once(discovered) /\ Once(finished)

(***************************************************************************)
(* When the search stops it has discovered and finished the least set that *)
(* has the head and the successors of its members: no reachable block is   *)
(* lost when the search comes back to a block it had left (dfs.hh:64-78),  *)
(* and no other is visited.                                                *)
(***************************************************************************)
ClosedSet(S) == \A n \in S : \A i \in DOMAIN succs[n] : succs[n][i] \in S

VisitsReachable ==
  Stopped =>
    /\ Finished = Discovered
    /\ Entry \in Discovered /\ ClosedSet(Discovered)
    /\ \A S \in SUBSET Nodes : Entry \in S /\ ClosedSet(S) => Discovered \subseteq S

(***************************************************************************)
(* A reported edge leads to a block that encloses its source in both       *)
(* orders, and every edge to such a block is reported: back edges are the  *)
(* edges to an ancestor or to itself (dfs.hh:64-69; the loop tree is built *)
(* from them).                                                             *)
(***************************************************************************)
BackEdgesExact ==
  Stopped =>
    backEdges = {e \in Discovered \X Discovered :
                   /\ IsEdge(succs, e[1], e[2])
                   /\ \/ e[1] = e[2]
                      \/ Before(discovered, e[2], e[1]) /\ Before(finished, e[1], e[2])}

(***************************************************************************)
(* In the reverse of the finishing order every edge that is not a back     *)
(* edge leads forward (deep_first_search_reverse_postoder, dfs.hh:171-177; *)
(* the linear order and the liveness numbering rely on it).                *)
(***************************************************************************)
ReversePostorder ==
  \A u \in Finished : \A i \in DOMAIN succs[u] :
    LET v == succs[u][i] IN <<u, v>> \in backEdges \/ Before(finished, v, u)
==============================================================================
