------------------------------ MODULE ListSpec ------------------------------
(***************************************************************************)
(* What include/intrusive_list promises: lists that own their nodes, as    *)
(* sequences.  A node is in one list at most; inserting, removing and      *)
(* moving a range are the only changes, and no operation changes the order *)
(* of the nodes it does not move.                                          *)
(***************************************************************************)
EXTENDS Naturals, Sequences

CONSTANTS Nodes, Lists

VARIABLE lists   \* list -> its nodes in order

Owned == UNION {{lists[l][i] : i \in DOMAIN lists[l]} : l \in Lists}

Init == lists = [l \in Lists |-> << >>]

\* s without its elements i .. j, and with t in front of its element i.
Without(s, i, j) == SubSeq(s, 1, i - 1) \o SubSeq(s, j + 1, Len(s))
With(s, i, t) == SubSeq(s, 1, i - 1) \o t \o SubSeq(s, i, Len(s))

(* node, of no list so far, becomes element i of l. *)
Insert(l, i, node) ==
  /\ node \notin Owned
  /\ lists' = [lists EXCEPT ![l] = With(@, i, <<node>>)]

(* Element i leaves l. *)
Remove(l, i) == lists' = [lists EXCEPT ![l] = Without(@, i, i)]

(* Elements i .. j of src go, in their order, in front of element k of dst; *)
(* k counts the elements that stay when dst is src.                         *)
Move(src, i, j, dst, k) ==
  LET moved == SubSeq(lists[src], i, j)
      rest  == [lists EXCEPT ![src] = Without(@, i, j)]
  IN /\ k <= Len(rest[dst]) + 1
     /\ lists' = [rest EXCEPT ![dst] = With(@, k, moved)]

Next ==
  \/ \E l \in Lists, node \in Nodes :
       \E i \in 1 .. Len(lists[l]) + 1 : Insert(l, i, node)
  \/ \E l \in Lists : \E i \in 1 .. Len(lists[l]) : Remove(l, i)
  \/ \E src, dst \in Lists :
       \E i \in 1 .. Len(lists[src]) :
         \E j \in i .. Len(lists[src]), k \in 1 .. Len(lists[dst]) + 1 :
           Move(src, i, j, dst, k)

Spec == Init /\ [][Next]_lists
=============================================================================
