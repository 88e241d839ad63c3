---------------------------- MODULE RecursiveSearch ----------------------------
(***************************************************************************)
(* Depth first search by recursion, the reference that DFS is compared     *)
(* with and the search that the passes call.                               *)
(***************************************************************************)
EXTENDS Naturals, SequencesExt

(* st holds the preorder, the postorder and the back edges so far. *)
RECURSIVE Search(_, _, _)
Search(succs, st, n) ==
  LET Edge(s, v) == CASE ~Contains(s.pre, v)  -> Search(succs, s, v)
                      [] ~Contains(s.post, v) -> [s EXCEPT !.back = @ \cup {<<n, v>>}]
                      [] OTHER                -> s
      after == FoldLeft(Edge, [st EXCEPT !.pre = Append(@, n)], succs[n])
  IN [after EXCEPT !.post = Append(@, n)]

SearchFrom(succs, head) == Search(succs, [pre |-> << >>, post |-> << >>, back |-> {}], head)

(* deep_first_search_reverse_postoder. *)
rpo(succs, head) == Reverse(SearchFrom(succs, head).post)
===============================================================================
