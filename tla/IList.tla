-------------------------------- MODULE IList --------------------------------
(***************************************************************************)
(* The intrusive doubly linked list of include/intrusive_list: ilist_base  *)
(* (insert_before, remove, move_before) and ilist_impl, which owns every   *)
(* instruction of a basic block and every basic block of a function.       *)
(*                                                                         *)
(* The objects are the list nodes and, for each list, its sentinel, which  *)
(* is identified with the list.  An iterator is the object it points to.   *)
(* The guards on positions and ranges are what a caller owes the list: an  *)
(* iterator of a live list, a range [first, last) that does not run over   *)
(* the end, a splice position outside the range, a node in no list.        *)
(***************************************************************************)
EXTENDS Naturals, Sequences, FiniteSets

CONSTANTS
  Nodes,   \* the list nodes
  Lists,   \* the lists, each standing for its sentinel m_internal
  Null     \* nullptr

ASSUME ListAssumption == /\ Nodes \cap Lists = {}
                         /\ Null \notin Nodes \cup Lists
                         /\ IsFiniteSet(Nodes)

VARIABLES
  m_next, m_prev,   \* the two links of every object
  erasing,          \* the loop of erase(first, last) is running
  first, last,      \* its two iterators
  other             \* the list a move assignment splices in afterwards, or Null

links == <<m_next, m_prev>>
loop == <<erasing, first, last, other>>
vars == <<m_next, m_prev, erasing, first, last, other>>

Objects == Nodes \cup Lists

(* A sentinel starts out linked to itself, a node linked to nothing. *)
Init ==
  /\ m_next = [o \in Objects |-> IF o \in Lists THEN o ELSE Null]
  /\ m_prev = [o \in Objects |-> IF o \in Lists THEN o ELSE Null]
  /\ erasing = FALSE
  /\ first = Null /\ last = Null /\ other = Null

-----------------------------------------------------------------------------
(* Ranges.                                                                 *)

Linked(o) == m_next[o] # Null

(* S are the nodes of [f, l): they follow each other from f on until l is  *)
(* reached, and no sentinel is among them.                                 *)
IsSegment(S, f, l) ==
  /\ S \subseteq Nodes
  /\ Linked(f) /\ Linked(l)
  /\ IF f = l THEN S = {}
     ELSE /\ f \in S /\ m_prev[f] \notin S
          /\ l \notin S /\ m_prev[l] \in S
          /\ \A o \in S : /\ m_next[o] \in S \cup {l}
                          /\ o = f \/ m_prev[o] \in S

IsRange(f, l) == \E S \in SUBSET Nodes : IsSegment(S, f, l)

-----------------------------------------------------------------------------
(* ilist_base                                                              *)

\* next and prev after insert_before(next, to_insert).
AfterInsert_BackLinkMissing(next, to_insert) ==                   \* mutant
  LET prev == m_prev[next]
  IN [next |-> [m_next EXCEPT ![prev] = to_insert, ![to_insert] = next],
      prev |-> [m_prev EXCEPT ![to_insert] = prev]]
AfterInsert(next, to_insert) ==
  LET prev == m_prev[next]   \* an update at nullptr is none: if (prev != nullptr)
  IN [next |-> [m_next EXCEPT ![prev] = to_insert, ![to_insert] = next],
      prev |-> [m_prev EXCEPT ![to_insert] = prev, ![next] = to_insert]]

\* The same for remove(to_remove).
AfterRemove(to_remove) ==
  LET next == m_next[to_remove]
      prev == m_prev[to_remove]
  IN [next |-> [m_next EXCEPT ![prev] = next, ![to_remove] = Null],
      prev |-> [m_prev EXCEPT ![next] = prev, ![to_remove] = Null]]

\* The same for move_before(next, fst, lst), an assignment after the other:
\* prev is read when lst has been relinked.
AfterMove_EndsSwapped(next, fst, lst) ==                          \* mutant
  LET to_insert == m_prev[lst]
      rbegin    == m_prev[fst]
      prev1     == [m_prev EXCEPT ![lst] = rbegin]
      prev      == prev1[next]
  IN IF lst = next \/ fst = lst THEN [next |-> m_next, prev |-> m_prev]
     ELSE [next |-> [m_next EXCEPT ![rbegin] = lst, ![prev] = to_insert,
                                   ![to_insert] = next],
           prev |-> [prev1 EXCEPT ![next] = fst, ![fst] = prev]]
AfterMove(next, fst, lst) ==
  LET to_insert == m_prev[lst]
      rbegin    == m_prev[fst]
      prev1     == [m_prev EXCEPT ![lst] = rbegin]
      prev      == prev1[next]
  IN IF lst = next \/ fst = lst THEN [next |-> m_next, prev |-> m_prev]
     ELSE [next |-> [m_next EXCEPT ![rbegin] = lst, ![prev] = fst,
                                   ![to_insert] = next],
           prev |-> [prev1 EXCEPT ![next] = to_insert, ![fst] = prev]]

SetLinks(after) == m_next' = after.next /\ m_prev' = after.prev

-----------------------------------------------------------------------------
(* ilist_impl                                                              *)

(* insert(pos, node); push_front and push_back are pos = begin(), end(). *)
Insert(pos, node) ==
  /\ ~erasing
  /\ Linked(pos)
  /\ ~Linked(node)
  /\ SetLinks(AfterInsert(pos, node))
  /\ UNCHANGED loop

(* remove(pos) and erase(pos): the iterator moves on before the node goes. *)
Erase(pos) ==
  /\ ~erasing
  /\ Linked(pos)
  /\ SetLinks(AfterRemove(pos))
  /\ UNCHANGED loop

(***************************************************************************)
(* splice(pos, first, last), which the splice of a whole list, of one      *)
(* node, and the move constructor (pos = end() of a new list) are          *)
(* instances of.  The two conditions on pos are the assertion of           *)
(* move_before and what the caller owes.                                   *)
(***************************************************************************)
Splice(pos, fst, lst) ==
  /\ ~erasing
  /\ Linked(pos) /\ Linked(fst) /\ Linked(lst)
  /\ pos # fst
  /\ \E S \in SUBSET Nodes : IsSegment(S, fst, lst) /\ pos \notin S
  /\ SetLinks(AfterMove(pos, fst, lst))
  /\ UNCHANGED loop

(* erase(first, last) is entered. *)
EraseRange(fst, lst) ==
  /\ ~erasing
  /\ IsRange(fst, lst)
  /\ erasing' = TRUE /\ first' = fst /\ last' = lst
  /\ UNCHANGED <<m_next, m_prev, other>>

(* clear(), which is erase(begin(), end()), and the first half of a move   *)
(* assignment from src.                                                    *)
Clear(l) == EraseRange(m_next[l], l)
MoveAssign(l, src) ==
  /\ ~erasing
  /\ erasing' = TRUE /\ first' = m_next[l] /\ last' = l /\ other' = src
  /\ UNCHANGED links

(* One turn of the loop: first = erase(first). *)
NextFirst_AfterUnlink == Null                                     \* mutant
NextFirst_NotAdvanced == first                                    \* mutant
NextFirst == m_next[first]
EraseStep ==
  /\ erasing
  /\ first # last
  /\ SetLinks(AfterRemove(first))
  /\ first' = NextFirst
  /\ UNCHANGED <<erasing, last, other>>

(* The loop ends; a move assignment splices other in at the end. *)
EraseDone ==
  /\ erasing
  /\ first = last
  /\ IF other # Null THEN SetLinks(AfterMove(last, m_next[other], other))
                     ELSE UNCHANGED links
  /\ erasing' = FALSE /\ first' = Null /\ last' = Null /\ other' = Null

Loop == EraseStep \/ EraseDone
Next ==
  \/ \E pos \in Objects, node \in Nodes : Insert(pos, node)
  \/ \E pos \in Nodes : Erase(pos)
  \/ \E pos, fst, lst \in Objects : Splice(pos, fst, lst)
  \/ \E fst, lst \in Objects : EraseRange(fst, lst)
  \/ \E l \in Lists : Clear(l)
  \/ \E l, src \in Lists : MoveAssign(l, src)
  \/ Loop

Spec == Init /\ [][Next]_vars /\ WF_vars(Loop)

-----------------------------------------------------------------------------
(* The contents of a list, walking from its sentinel.  A walk that never   *)
(* comes back is cut off after Far steps.                                  *)

Far == Cardinality(Nodes) + 1

\* The object n increments of an iterator at o lead to.
Ahead(o, n) ==
  LET at[i \in 0 .. n] == IF i = 0 THEN o
                          ELSE IF at[i - 1] = Null THEN Null ELSE m_next[at[i - 1]]
  IN at[n]

\* std::distance(begin(), end()) of l.
Size(l) ==
  IF \E n \in 1 .. Far : Ahead(l, n) = l
  THEN (CHOOSE n \in 1 .. Far : /\ Ahead(l, n) = l
                                /\ \A k \in 1 .. n - 1 : Ahead(l, k) # l) - 1
  ELSE Far
Contents(l) == [i \in 1 .. Size(l) |-> Ahead(l, i)]

-----------------------------------------------------------------------------
(* Properties                                                              *)

(* Links lead to objects, and so do the iterators of a running loop.       *)
TypeOK ==
  /\ m_next \in [Objects -> Objects \cup {Null}]
  /\ m_prev \in [Objects -> Objects \cup {Null}]
  /\ erasing \in BOOLEAN
  /\ IF erasing THEN {first, last} \subseteq Objects ELSE first = Null /\ last = Null
  /\ other \in Lists \cup {Null}

(***************************************************************************)
(* The two links of an object agree with those of its neighbours, and a    *)
(* node is linked on both sides or on none (ilist_base.hh:41-94).  Walking *)
(* backwards therefore undoes walking forwards.                            *)
(***************************************************************************)
LinksInverse ==
  \A o \in Objects :
    /\ m_next[o] = Null <=> m_prev[o] = Null
    /\ o \in Lists => m_next[o] # Null
    /\ m_next[o] # Null => m_next[o] \in Objects /\ m_prev[m_next[o]] = o
    /\ m_prev[o] # Null => m_prev[o] \in Objects /\ m_next[m_prev[o]] = o

(***************************************************************************)
(* Every linked node is in exactly one list, once; in particular no ring   *)
(* of nodes is cut off from every sentinel, where clear() would not find   *)
(* it (ilist_base.hh:72-94).                                               *)
(***************************************************************************)
EveryNodeOnce ==
  LET contents == [l \in Lists |-> Contents(l)]
      in(n, l) == \E i \in DOMAIN contents[l] : contents[l][i] = n
  IN /\ \A l \in Lists : \A i, j \in DOMAIN contents[l] :
          i # j => contents[l][i] # contents[l][j]
     /\ \A n \in Nodes :
          Linked(n) => \E l \in Lists : \A k \in Lists : in(n, k) <=> k = l

(***************************************************************************)
(* While erase(first, last) runs its iterator is at a linked object from   *)
(* which last is reached without crossing a sentinel: it never steps       *)
(* through a node that is gone (ilist.hh:118-137).                         *)
(***************************************************************************)
EraseIteratorValid == erasing => IsRange(first, last)

(* erase(first, last) ends (ilist.hh:131-137). *)
EraseTerminates == erasing ~> ~erasing

(* The lists behave as sequences of nodes do. *)
Abs == INSTANCE ListSpec WITH lists <- [l \in Lists |-> Contents(l)]
ImplementsListSpec == Abs!Spec
=============================================================================
