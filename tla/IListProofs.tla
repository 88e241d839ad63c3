----------------------------- MODULE IListProofs -----------------------------
(***************************************************************************)
(* Proofs about IList for every set of nodes and lists: the two directions *)
(* agree, the iterator of a running erase stays in its range, and walking  *)
(* the links finds every linked node once.                                 *)
(***************************************************************************)
EXTENDS IList, FunctionTheorems, FiniteSetTheorems, WellFoundedInduction, TLAPS

-----------------------------------------------------------------------------
(* Induction over numbers, for sets instead of predicates.                 *)

LEMMA LeastNumber ==
  ASSUME NEW S \in SUBSET Nat, S # {}
  PROVE  \E m \in S : \A k \in S : m <= k
<1> DEFINE R == OpToRel(<, Nat)
<1>1. IsWellFoundedOn(R, Nat)
  BY NatLessThanWellFounded
<1>2. \A j, k \in Nat : <<j, k>> \in R <=> j < k
  BY Zenon DEF OpToRel
<1> HIDE DEF R
<1>3. PICK m \in S : \A k \in S : ~(<<k, m>> \in R)
  BY <1>1, WFMin, Zenon
<1>4. \A k \in S : ~(k < m)
  BY <1>2, <1>3
<1> QED
  BY <1>4

LEMMA BoundedInduction ==
  ASSUME NEW n \in Nat, NEW S, 0 \in S, \A k \in 1 .. n : k - 1 \in S => k \in S
  PROVE  0 .. n \subseteq S
<1> DEFINE Out == {k \in 0 .. n : k \notin S}
<1> SUFFICES ASSUME Out # {} PROVE FALSE
  OBVIOUS
<1>1. Out \in SUBSET Nat
  OBVIOUS
<1> HIDE DEF Out
<1>2. PICK m \in Out : \A k \in Out : m <= k
  BY <1>1, LeastNumber
<1> USE DEF Out
<1>3. m \in 0 .. n /\ m \notin S /\ m # 0
  OBVIOUS
<1>4. m \in 1 .. n /\ m - 1 \in 0 .. n /\ ~(m <= m - 1)
  BY <1>3
<1>5. m - 1 \in S
  BY <1>2, <1>4
<1> QED
  BY <1>3, <1>4, <1>5

(* f are the values of a recursion over 0 .. n that begins with a and takes *)
(* the steps G.                                                             *)
Iterates(f, V, n, a, G) ==
  f \in [0 .. n -> V] /\ f[0] = a /\ \A k \in 1 .. n : f[k] = G[<<f[k - 1], k>>]

LEMMA Iteration ==
  ASSUME NEW V, NEW n \in Nat, NEW a \in V, NEW G \in [V \X (1 .. n) -> V]
  PROVE  \E f : Iterates(f, V, n, a, G)
<1> DEFINE Goes(f, m) == f[0] = a /\ \A k \in 1 .. m : f[k] = G[<<f[k - 1], k>>]
           S == {m \in 0 .. n : \E f \in [0 .. m -> V] : Goes(f, m)}
<1>1. 0 \in S
  <2> DEFINE g == [k \in 0 .. 0 |-> a]
  <2>1. g \in [0 .. 0 -> V] /\ g[0] = a
    OBVIOUS
  <2> HIDE DEF g
  <2>2. Goes(g, 0)
    BY <2>1
  <2> QED
    BY <2>1, <2>2
<1>2. ASSUME NEW m \in 1 .. n, m - 1 \in S
      PROVE  m \in S
  <2>1. PICK f \in [0 .. m - 1 -> V] : Goes(f, m - 1)
    BY <1>2
  <2> DEFINE g == [k \in 0 .. m |-> IF k = m THEN G[<<f[m - 1], m>>] ELSE f[k]]
  <2>2. f[m - 1] \in V /\ G[<<f[m - 1], m>>] \in V
    BY <2>1
  <2>3. g \in [0 .. m -> V]
    BY <2>2
  <2>4. Goes(g, m)
    <3>1. g[0] = a
      BY <2>1
    <3>2. ASSUME NEW k \in 1 .. m PROVE g[k] = G[<<g[k - 1], k>>]
      <4>1. k - 1 \in 0 .. m /\ k - 1 # m /\ g[k - 1] = f[k - 1]
        OBVIOUS
      <4>2. CASE k = m
        <5>1. g[m] = G[<<f[m - 1], m>>]
          OBVIOUS
        <5> QED
          BY <4>1, <4>2, <5>1
      <4>3. CASE k # m
        <5>1. k \in 1 .. m - 1 /\ g[k] = f[k]
          BY <4>3
        <5> QED
          BY <2>1, <4>1, <5>1
      <4> QED
        BY <4>2, <4>3
    <3> HIDE DEF g
    <3> QED
      BY <3>1, <3>2
  <2>5. m \in 0 .. n
    OBVIOUS
  <2> HIDE DEF g, Goes
  <2> QED
    BY <2>3, <2>4, <2>5
<1> HIDE DEF S
<1>3. n \in S
  BY <1>1, <1>2, BoundedInduction
<1> QED
  BY <1>3 DEF S, Iterates

-----------------------------------------------------------------------------
(* The links.                                                              *)

LinkType == /\ m_next \in [Objects -> Objects \cup {Null}]
            /\ m_prev \in [Objects -> Objects \cup {Null}]

Good == LinkType /\ LinksInverse

\* LinkType and LinksInverse of a pair of link functions.
GoodPair(p) ==
  /\ p.next \in [Objects -> Objects \cup {Null}]
  /\ p.prev \in [Objects -> Objects \cup {Null}]
  /\ \A o \in Objects :
       /\ p.next[o] = Null <=> p.prev[o] = Null
       /\ o \in Lists => p.next[o] # Null
       /\ p.next[o] # Null => p.next[o] \in Objects /\ p.prev[p.next[o]] = o
       /\ p.prev[o] # Null => p.prev[o] \in Objects /\ p.next[p.prev[o]] = o

LEMMA NullIsNoObject == Null \notin Objects
BY ListAssumption DEF Objects

LEMMA SetLinksGood ==
  ASSUME NEW p, GoodPair(p), SetLinks(p)
  PROVE  Good'
BY DEF GoodPair, SetLinks, Good, LinkType, LinksInverse

(* insert_before keeps the links inverse to each other. *)
LEMMA InsertGood ==
  ASSUME Good, NEW pos \in Objects, NEW node \in Nodes,
         Linked(pos), ~Linked(node)
  PROVE  GoodPair(AfterInsert(pos, node))
<1> DEFINE prev == m_prev[pos]
           p == AfterInsert(pos, node)
<1>1. /\ node \in Objects /\ prev \in Objects /\ m_next[prev] = pos
      /\ m_next[node] = Null /\ m_prev[node] = Null
      /\ node # pos /\ node # prev /\ node \notin Lists /\ Null \notin Objects
  BY NullIsNoObject, ListAssumption DEF Good, LinksInverse, LinkType, Linked, Objects
<1>2. /\ p.next = [m_next EXCEPT ![prev] = node, ![node] = pos]
      /\ p.prev = [m_prev EXCEPT ![node] = prev, ![pos] = node]
  BY DEF AfterInsert
<1> HIDE DEF p
<1>3. /\ \A o \in Objects : p.next[o] = IF o = node THEN pos
                                        ELSE IF o = prev THEN node ELSE m_next[o]
      /\ \A o \in Objects : p.prev[o] = IF o = pos THEN node
                                        ELSE IF o = node THEN prev ELSE m_prev[o]
      /\ p.next \in [Objects -> Objects \cup {Null}]
      /\ p.prev \in [Objects -> Objects \cup {Null}]
  BY <1>1, <1>2 DEF Good, LinkType
<1> HIDE DEF prev
<1>4. p.next[prev] = node /\ p.next[node] = pos /\ p.prev[pos] = node /\ p.prev[node] = prev
  BY <1>1, <1>3
<1>5. \A o \in Objects : p.next[o] # Null => p.next[o] \in Objects /\ p.prev[p.next[o]] = o
  BY <1>1, <1>3, <1>4 DEF Good, LinksInverse, LinkType, prev
<1>6. \A o \in Objects : p.prev[o] # Null => p.prev[o] \in Objects /\ p.next[p.prev[o]] = o
  BY <1>1, <1>3, <1>4 DEF Good, LinksInverse, LinkType, prev
<1>7. \A o \in Objects : /\ p.next[o] = Null <=> p.prev[o] = Null
                         /\ o \in Lists => p.next[o] # Null
  BY <1>1, <1>3 DEF Good, LinksInverse, LinkType, prev
<1> QED
  BY <1>3, <1>5, <1>6, <1>7 DEF GoodPair, p

(* remove keeps them, for a node. *)
LEMMA RemoveGood ==
  ASSUME Good, NEW node \in Nodes, Linked(node)
  PROVE  GoodPair(AfterRemove(node))
<1> DEFINE next == m_next[node]
           prev == m_prev[node]
           p == AfterRemove(node)
<1>1. /\ node \in Objects /\ next \in Objects /\ prev \in Objects
      /\ m_prev[next] = node /\ m_next[prev] = node
      /\ node \notin Lists /\ Null \notin Objects
  BY NullIsNoObject, ListAssumption DEF Good, LinksInverse, LinkType, Linked, Objects
<1>2. /\ p.next = [m_next EXCEPT ![prev] = next, ![node] = Null]
      /\ p.prev = [m_prev EXCEPT ![next] = prev, ![node] = Null]
  BY DEF AfterRemove
<1> HIDE DEF p
<1>3. /\ \A o \in Objects : p.next[o] = IF o = node THEN Null
                                        ELSE IF o = prev THEN next ELSE m_next[o]
      /\ \A o \in Objects : p.prev[o] = IF o = node THEN Null
                                        ELSE IF o = next THEN prev ELSE m_prev[o]
      /\ p.next \in [Objects -> Objects \cup {Null}]
      /\ p.prev \in [Objects -> Objects \cup {Null}]
  BY <1>1, <1>2 DEF Good, LinkType
<1>4. \A o \in Objects : p.next[o] # Null => p.next[o] \in Objects /\ p.prev[p.next[o]] = o
  BY <1>1, <1>3 DEF Good, LinksInverse, LinkType
<1>5. \A o \in Objects : p.prev[o] # Null => p.prev[o] \in Objects /\ p.next[p.prev[o]] = o
  BY <1>1, <1>3 DEF Good, LinksInverse, LinkType
<1>6. \A o \in Objects : /\ p.next[o] = Null <=> p.prev[o] = Null
                         /\ o \in Lists => p.next[o] # Null
  BY <1>1, <1>3 DEF Good, LinksInverse, LinkType
<1> QED
  BY <1>3, <1>4, <1>5, <1>6 DEF GoodPair, p

(* move_before keeps them as long as pos is not the first of the range, even *)
(* for a pos inside it: the links then still agree, but the range is closed  *)
(* into a ring of its own.                                                   *)
LEMMA MoveGood ==
  ASSUME Good, NEW pos \in Objects, NEW fst \in Objects, NEW lst \in Objects,
         Linked(pos), Linked(fst), Linked(lst), pos # fst, lst # pos, fst # lst
  PROVE  LET p == AfterMove(pos, fst, lst)
         IN  /\ GoodPair(p)
             /\ \A o \in Objects :
                  p.next[o] = IF o = m_prev[lst] THEN pos
                              ELSE IF o = m_prev[pos] THEN fst
                              ELSE IF o = m_prev[fst] THEN lst ELSE m_next[o]
<1> DEFINE tail == m_prev[lst]
           rbegin == m_prev[fst]
           prev == m_prev[pos]
           p == AfterMove(pos, fst, lst)
<1>1. /\ tail \in Objects /\ rbegin \in Objects /\ prev \in Objects
      /\ m_next[tail] = lst /\ m_next[rbegin] = fst /\ m_next[prev] = pos
      /\ tail # rbegin /\ tail # prev /\ rbegin # prev /\ Null \notin Objects
  BY NullIsNoObject DEF Good, LinksInverse, LinkType, Linked
<1>2. [m_prev EXCEPT ![lst] = rbegin][pos] = prev
  BY DEF Good, LinkType
<1>3. /\ p.next = [m_next EXCEPT ![rbegin] = lst, ![prev] = fst, ![tail] = pos]
      /\ p.prev = [[m_prev EXCEPT ![lst] = rbegin] EXCEPT ![pos] = tail, ![fst] = prev]
  BY <1>2 DEF AfterMove
<1> HIDE DEF p
<1>4. /\ \A o \in Objects : p.next[o] = IF o = tail THEN pos
                                        ELSE IF o = prev THEN fst
                                        ELSE IF o = rbegin THEN lst ELSE m_next[o]
      /\ p.next \in [Objects -> Objects \cup {Null}]
  BY <1>1, <1>3 DEF Good, LinkType
<1>5. /\ \A o \in Objects : p.prev[o] = IF o = fst THEN prev
                                        ELSE IF o = pos THEN tail
                                        ELSE IF o = lst THEN rbegin ELSE m_prev[o]
      /\ p.prev \in [Objects -> Objects \cup {Null}]
  BY <1>1, <1>3 DEF Good, LinkType
<1>6. \A o \in Objects : p.next[o] # Null => p.next[o] \in Objects /\ p.prev[p.next[o]] = o
  BY <1>1, <1>4, <1>5 DEF Good, LinksInverse, LinkType
<1>7. \A o \in Objects : p.prev[o] # Null => p.prev[o] \in Objects /\ p.next[p.prev[o]] = o
  BY <1>1, <1>4, <1>5 DEF Good, LinksInverse, LinkType
<1>8. \A o \in Objects : /\ p.next[o] = Null <=> p.prev[o] = Null
                         /\ o \in Lists => p.next[o] # Null
  BY <1>1, <1>4, <1>5 DEF Good, LinksInverse, LinkType
<1> QED
  BY <1>4, <1>5, <1>6, <1>7, <1>8 DEF GoodPair, p

-----------------------------------------------------------------------------
(***************************************************************************)
(* LinksInverse is not inductive: after a clear, move assignment relinks   *)
(* the nodes of another list without looking, and is wrong if the sentinel *)
(* it relinks before is in that other list's ring.  That no two sentinels  *)
(* share a ring follows from a labelling of the objects by lists that is   *)
(* constant along the links; the labelling moves with the nodes.           *)
(***************************************************************************)
Labels(w, next) ==
  /\ w \in [Objects -> Lists \cup {Null}]
  /\ \A l \in Lists : w[l] = l
  /\ \A o \in Objects : next[o] # Null => w[next[o]] = w[o]

(* All of a segment carries one label.  The objects of S with the label of *)
(* f would otherwise be closed under m_next, which is injective: f would   *)
(* have to follow one of them.                                             *)
LEMMA SegmentLabel ==
  ASSUME Good, NEW w, Labels(w, m_next),
         NEW S, NEW f \in Objects, NEW l \in Objects, IsSegment(S, f, l), f # l
  PROVE  w[f] = w[l]
<1> SUFFICES ASSUME w[f] # w[l] PROVE FALSE
  OBVIOUS
<1> DEFINE T == {o \in S : w[o] = w[f]}
           step == [o \in T |-> m_next[o]]
<1>1. /\ S \subseteq Nodes /\ f \in S /\ m_prev[f] \notin S
      /\ \A o \in S : m_next[o] \in S \cup {l}
      /\ S \subseteq Objects
  BY DEF IsSegment, Objects
<1>2. Null \notin Objects /\ \A o \in S : m_next[o] # Null
  BY <1>1, NullIsNoObject
<1>3. \A o \in T : m_next[o] \in T
  BY <1>1, <1>2 DEF Labels
<1>4. IsFiniteSet(T)
  BY <1>1, ListAssumption, FS_Subset
<1>5. \A a, b \in T : m_next[a] = m_next[b] => a = b
  BY <1>1, <1>2 DEF Good, LinksInverse
<1> HIDE DEF T
<1>6. step \in Injection(T, T)
  BY <1>3, <1>5 DEF Injection, IsInjective
<1>7. step \in Surjection(T, T)
  BY <1>4, <1>6, FS_Injection
<1>8. f \in T
  BY <1>1 DEF T
<1>9. PICK o \in T : m_next[o] = f
  BY <1>7, <1>8 DEF Surjection
<1> QED
  BY <1>1, <1>2, <1>9 DEF T, Good, LinksInverse

(* The linked nodes that carry the label of a list are its nodes. *)
LEMMA WholeList ==
  ASSUME Good, NEW w, Labels(w, m_next), NEW l \in Lists
  PROVE  /\ m_next[l] \in Objects
         /\ \E S \in SUBSET Nodes : IsSegment(S, m_next[l], l)
<1> DEFINE S == {n \in Nodes : Linked(n) /\ w[n] = l}
<1>1. /\ l \in Objects /\ l \notin Nodes /\ Null \notin Objects
      /\ m_next[l] \in Objects /\ m_prev[l] \in Objects
      /\ m_prev[m_next[l]] = l /\ m_next[m_prev[l]] = l
      /\ m_next[m_next[l]] # Null /\ m_next[l] # Null
  BY NullIsNoObject, ListAssumption DEF Good, LinksInverse, Objects
<1>2. CASE m_next[l] = l
  BY <1>1, <1>2 DEF IsSegment, Linked
<1>3. CASE m_next[l] # l
  <2>1. ASSUME NEW o \in Objects, Linked(o), w[o] = l PROVE o \in S \cup {l}
    BY <2>1 DEF Objects, Labels
  <2>2. ASSUME NEW o \in S
        PROVE  /\ m_next[o] \in S \cup {l}
               /\ o = m_next[l] \/ m_prev[o] \in S
    <3>1. /\ o \in Objects /\ m_next[o] # Null /\ m_prev[o] # Null
          /\ m_next[o] \in Objects /\ m_prev[o] \in Objects
          /\ m_next[m_prev[o]] = o /\ m_prev[m_next[o]] = o
          /\ Linked(m_next[o]) /\ Linked(m_prev[o])
      BY <2>2, NullIsNoObject DEF Good, LinksInverse, Linked, Objects
    <3>2. w[m_next[o]] = l /\ w[m_prev[o]] = l
      BY <2>2, <3>1 DEF Labels, Linked
    <3> QED
      BY <2>1, <3>1, <3>2
  <2>3. m_next[l] \in S /\ m_prev[l] \in S
    <3>1. w[m_next[l]] = l /\ w[m_prev[l]] = l /\ Linked(m_next[l]) /\ Linked(m_prev[l])
      BY <1>1 DEF Labels, Linked
    <3>2. m_prev[l] # l
      BY <1>1, <1>3
    <3> QED
      BY <1>1, <1>3, <2>1, <3>1, <3>2
  <2>4. IsSegment(S, m_next[l], l)
    BY <1>1, <1>3, <2>2, <2>3 DEF IsSegment, Linked
  <2> QED
    BY <1>1, <2>4
<1> QED
  BY <1>2, <1>3

(* Moving a segment keeps links and labelling. *)
LEMMA MoveKeeps ==
  ASSUME Good, NEW w, Labels(w, m_next),
         NEW S, NEW pos \in Objects, NEW fst \in Objects, NEW lst \in Objects,
         IsSegment(S, fst, lst), Linked(pos), pos \notin S
  PROVE  /\ GoodPair(AfterMove(pos, fst, lst))
         /\ \E v : Labels(v, AfterMove(pos, fst, lst).next)
<1> DEFINE p == AfterMove(pos, fst, lst)
<1>1. CASE lst = pos \/ fst = lst
  <2>1. p.next = m_next /\ p.prev = m_prev
    BY <1>1 DEF AfterMove
  <2> QED
    BY <2>1 DEF GoodPair, Good, LinkType, LinksInverse
<1>2. CASE ~(lst = pos \/ fst = lst)
  <2> DEFINE tail == m_prev[lst]
             rbegin == m_prev[fst]
             prev == m_prev[pos]
             v == [o \in Objects |-> IF o \in S THEN w[pos] ELSE w[o]]
  <2>1. /\ S \subseteq Nodes /\ fst \in S /\ rbegin \notin S /\ lst \notin S /\ tail \in S
        /\ Linked(fst) /\ Linked(lst) /\ pos # fst
        /\ \A o \in S : m_next[o] \in S \cup {lst}
    BY <1>2 DEF IsSegment
  <2>2. /\ GoodPair(p)
        /\ \A o \in Objects : p.next[o] = IF o = tail THEN pos
                                          ELSE IF o = prev THEN fst
                                          ELSE IF o = rbegin THEN lst ELSE m_next[o]
    BY <1>2, <2>1, MoveGood
  <2> HIDE DEF p
  <2>3. /\ tail \in Objects /\ rbegin \in Objects /\ prev \in Objects
        /\ m_next[tail] = lst /\ m_next[rbegin] = fst /\ m_next[prev] = pos
        /\ Null \notin Objects
    BY <2>1, NullIsNoObject DEF Good, LinksInverse, LinkType, Linked
  <2>4. prev \notin S
    BY <1>2, <2>1, <2>3
  <2>5. w[rbegin] = w[lst] /\ w[prev] = w[pos]
    BY <1>2, <2>1, <2>3, SegmentLabel DEF Labels
  <2>6. ASSUME NEW o \in Objects, o # tail, o # rbegin, m_next[o] # Null
        PROVE  o \in S <=> m_next[o] \in S
    <3>1. m_next[o] \in Objects /\ m_prev[m_next[o]] = o
      BY <2>6 DEF Good, LinksInverse
    <3>2. o \in S => m_next[o] \in S
      BY <2>1, <2>6, <3>1
    <3>3. m_next[o] \in S => o \in S
      BY <1>2, <2>6, <3>1 DEF IsSegment
    <3> QED
      BY <3>2, <3>3
  <2>7. \A o \in Objects : p.next[o] # Null => v[p.next[o]] = v[o]
    <3> SUFFICES ASSUME NEW o \in Objects, p.next[o] # Null
                 PROVE  v[p.next[o]] = v[o]
      OBVIOUS
    <3>1. CASE o = tail
      BY <3>1, <2>1, <2>2
    <3>2. CASE o # tail /\ o = prev
      BY <3>2, <2>1, <2>2, <2>4, <2>5
    <3>3. CASE o # tail /\ o # prev /\ o = rbegin
      BY <3>3, <2>1, <2>2, <2>5
    <3>4. CASE o # tail /\ o # prev /\ o # rbegin
      <4>1. p.next[o] = m_next[o] /\ m_next[o] # Null /\ m_next[o] \in Objects
        BY <3>4, <2>2 DEF Good, LinksInverse
      <4>2. o \in S <=> m_next[o] \in S
        BY <3>4, <4>1, <2>6
      <4> QED
        BY <4>1, <4>2 DEF Labels
    <3> QED
      BY <3>1, <3>2, <3>3, <3>4
  <2>8. v \in [Objects -> Lists \cup {Null}] /\ \A l \in Lists : v[l] = l
    BY <2>1, ListAssumption DEF Labels, Objects
  <2>9. Labels(v, p.next)
    BY <2>7, <2>8 DEF Labels
  <2> QED
    BY <2>2, <2>9 DEF p
<1> QED
  BY <1>1, <1>2

(* Removing the first node of a segment leaves the rest of the segment. *)
LEMMA EraseKeeps ==
  ASSUME TypeOK, LinksInverse, erasing, first # last, EraseIteratorValid, EraseStep
  PROVE  /\ Good'
         /\ m_next'[last] # Null
         /\ first' \in Objects
         /\ EraseIteratorValid'
         /\ \A w : Labels(w, m_next) => Labels(w, m_next')
<1>1. /\ first' = m_next[first]
      /\ m_next' = AfterRemove(first).next /\ m_prev' = AfterRemove(first).prev
      /\ last' = last /\ erasing' = erasing
  BY DEF EraseStep, SetLinks, NextFirst
<1>2. PICK S \in SUBSET Nodes : IsSegment(S, first, last)
  BY DEF EraseIteratorValid, IsRange
<1>3. Good /\ first \in Objects /\ last \in Objects /\ Null \notin Objects
  BY NullIsNoObject DEF TypeOK, Good, LinkType
<1>4. /\ first \in S /\ first \in Nodes /\ Linked(first) /\ Linked(last)
      /\ m_prev[first] \notin S /\ last \notin S /\ m_prev[last] \in S
      /\ \A o \in S : m_next[o] \in S \cup {last} /\ (o = first \/ m_prev[o] \in S)
  BY <1>2 DEF IsSegment
<1>5. GoodPair(AfterRemove(first))
  BY <1>3, <1>4, RemoveGood
<1>6. Good'
  BY <1>1, <1>5 DEF GoodPair, Good, LinkType, LinksInverse
<1> DEFINE next == m_next[first]
           prev == m_prev[first]
<1>7. /\ next \in Objects /\ prev \in Objects /\ m_prev[next] = first
      /\ m_next[prev] = first /\ m_next[next] # Null
  BY <1>3, <1>4 DEF Good, LinksInverse, Linked
<1>8. /\ \A o \in Objects : m_next'[o] = IF o = first THEN Null
                                         ELSE IF o = prev THEN next ELSE m_next[o]
      /\ \A o \in Objects : m_prev'[o] = IF o = first THEN Null
                                         ELSE IF o = next THEN prev ELSE m_prev[o]
  BY <1>1, <1>3, <1>7 DEF AfterRemove, Good, LinkType
<1>9. m_next'[last] # Null /\ m_next'[next] # Null
  BY <1>3, <1>4, <1>7, <1>8 DEF Linked
<1>10. EraseIteratorValid'
  <2>1. CASE next = last
    <3>1. first' = last' /\ m_next'[first'] # Null /\ m_next'[last'] # Null
      BY <2>1, <1>1, <1>9
    <3>2. IsSegment({}, first, last)'
      BY <3>1 DEF IsSegment, Linked
    <3> QED
      BY <3>2 DEF EraseIteratorValid, IsRange
  <2>2. CASE next # last
    <3> PICK R \in SUBSET Nodes : R = S \ {first}
      OBVIOUS
    <3>1. R \subseteq Nodes /\ R \subseteq Objects
      BY DEF Objects
    <3>2. next \in R /\ next # first
      BY <2>2, <1>4, <1>7
    <3>3. m_prev'[next] \notin R
      BY <3>2, <1>4, <1>7, <1>8
    <3>4. last \notin R /\ m_prev'[last] \in R
      BY <2>2, <1>3, <1>4, <1>7, <1>8 DEF Good, LinksInverse, Linked
    <3>5. ASSUME NEW o \in R
          PROVE  m_next'[o] \in R \cup {last} /\ (o = next \/ m_prev'[o] \in R)
      <4>1. o \in Objects /\ o # first /\ o # prev /\ m_next[o] \in S \cup {last}
            /\ m_prev[o] \in S
        BY <3>1, <3>5, <1>4
      <4>2. m_next[o] # first
        BY <4>1, <1>3, <1>4 DEF Good, LinksInverse, Linked
      <4>3. o # next => m_prev[o] # first
        BY <4>1, <1>3, <1>4 DEF Good, LinksInverse, Linked
      <4> QED
        BY <4>1, <4>2, <4>3, <1>8
    <3>6. /\ first' = next /\ last' = last
          /\ m_next'[first'] # Null /\ m_next'[last'] # Null
      BY <1>1, <1>9
    <3>7. IsSegment(R, first, last)'
      BY <2>2, <3>1, <3>2, <3>3, <3>4, <3>5, <3>6 DEF IsSegment, Linked
    <3> QED
      BY <3>7 DEF EraseIteratorValid, IsRange
  <2> QED
    BY <2>1, <2>2
<1>11. \A w : Labels(w, m_next) => Labels(w, m_next')
  <2> SUFFICES ASSUME NEW w, Labels(w, m_next), NEW o \in Objects, m_next'[o] # Null
               PROVE  w[m_next'[o]] = w[o]
    BY DEF Labels
  <2>1. CASE o = prev
    BY <2>1, <1>3, <1>4, <1>7, <1>8 DEF Labels, Linked
  <2>2. CASE o # prev
    BY <2>2, <1>8 DEF Labels
  <2> QED
    BY <2>1, <2>2
<1> QED
  BY <1>1, <1>6, <1>7, <1>9, <1>10, <1>11

-----------------------------------------------------------------------------
IInv ==
  /\ TypeOK
  /\ LinksInverse
  /\ \E w : Labels(w, m_next)
  /\ EraseIteratorValid
  /\ ~erasing => other = Null
  /\ other # Null => last \in Lists

LEMMA InitIInv == Init => IInv
<1> SUFFICES ASSUME Init PROVE IInv
  OBVIOUS
<1> DEFINE w == [o \in Objects |-> IF o \in Lists THEN o ELSE Null]
<1>1. Labels(w, m_next)
  BY ListAssumption DEF Init, Labels, Objects
<1>2. TypeOK /\ LinksInverse
  BY ListAssumption DEF Init, TypeOK, LinksInverse, Objects
<1> QED
  BY <1>1, <1>2 DEF Init, IInv, EraseIteratorValid

(* A step of an operation that is not the loop leaves the loop alone. *)
LEMMA Conclude ==
  ASSUME IInv, Good', \E w : Labels(w, m_next'), ~erasing, UNCHANGED loop
  PROVE  IInv'
BY DEF IInv, TypeOK, Good, LinkType, EraseIteratorValid, loop

LEMMA EnterLoop ==
  ASSUME IInv, NEW fst \in Objects, NEW lst \in Objects, IsRange(fst, lst),
         UNCHANGED links, erasing', first' = fst, last' = lst, erasing' \in BOOLEAN,
         other' = Null \/ (other' \in Lists /\ lst \in Lists)
  PROVE  IInv'
<1>1. LinksInverse' /\ IsRange(fst, lst)' /\ \E w : Labels(w, m_next')
  BY DEF IInv, LinksInverse, links, IsRange, IsSegment, Linked
<1> QED
  BY <1>1 DEF IInv, TypeOK, EraseIteratorValid, links

LEMMA StepIInv == IInv /\ [Next]_vars => IInv'
<1> SUFFICES ASSUME IInv, [Next]_vars PROVE IInv'
  OBVIOUS
<1>1. Good /\ Null \notin Objects
  BY NullIsNoObject DEF IInv, TypeOK, Good, LinkType
<1>2. PICK w : Labels(w, m_next)
  BY DEF IInv
<1>3. ASSUME NEW pos \in Objects, NEW node \in Nodes, Insert(pos, node) PROVE IInv'
  <2>1. /\ ~erasing /\ Linked(pos) /\ ~Linked(node) /\ UNCHANGED loop
        /\ SetLinks(AfterInsert(pos, node))
    BY <1>3 DEF Insert
  <2>2. Good'
    BY <2>1, <1>1, InsertGood, SetLinksGood
  <2> DEFINE v == [w EXCEPT ![node] = w[pos]]
             prev == m_prev[pos]
  <2>3. /\ node \in Objects /\ prev \in Objects /\ m_next[prev] = pos
        /\ node # pos /\ node # prev /\ node \notin Lists
        /\ \A o \in Objects : m_next[o] # node
    BY <2>1, <1>1, ListAssumption DEF Good, LinksInverse, LinkType, Linked, Objects
  <2>4. \A o \in Objects : m_next'[o] = IF o = node THEN pos
                                        ELSE IF o = prev THEN node ELSE m_next[o]
    BY <2>1, <2>3, <1>1 DEF AfterInsert, SetLinks, Good, LinkType
  <2>5. v \in [Objects -> Lists \cup {Null}] /\ \A l \in Lists : v[l] = l
    BY <2>3, <1>2, ListAssumption DEF Labels, Objects
  <2>6. \A o \in Objects : v[o] = IF o = node THEN w[pos] ELSE w[o]
    BY <2>3, <1>2 DEF Labels
  <2>7. ASSUME NEW o \in Objects, m_next'[o] # Null PROVE v[m_next'[o]] = v[o]
    <3>1. CASE o = node \/ o = prev
      BY <3>1, <2>1, <2>3, <2>4, <2>6, <1>2, <1>1 DEF Labels, Linked
    <3>2. CASE o # node /\ o # prev
      <4>1. m_next'[o] = m_next[o] /\ m_next[o] \in Objects /\ m_next[o] # node
        BY <3>2, <2>3, <2>4, <2>7, <1>1 DEF Good, LinksInverse
      <4> QED
        BY <4>1, <3>2, <2>6, <2>7, <1>2 DEF Labels
    <3> QED
      BY <3>1, <3>2
  <2>8. Labels(v, m_next')
    BY <2>5, <2>7 DEF Labels
  <2> QED
    BY <2>1, <2>2, <2>8, Conclude
<1>4. ASSUME NEW pos \in Nodes, Erase(pos) PROVE IInv'
  <2>1. /\ ~erasing /\ Linked(pos) /\ UNCHANGED loop /\ SetLinks(AfterRemove(pos))
        /\ pos \in Objects
    BY <1>4 DEF Erase, Objects
  <2>2. Good'
    BY <2>1, <1>1, RemoveGood, SetLinksGood
  <2> DEFINE prev == m_prev[pos]
             next == m_next[pos]
  <2>3. prev \in Objects /\ m_next[prev] = pos /\ next \in Objects /\ next # Null
    BY <2>1, <1>1 DEF Good, LinksInverse, LinkType, Linked
  <2>4. \A o \in Objects : m_next'[o] = IF o = pos THEN Null
                                        ELSE IF o = prev THEN next ELSE m_next[o]
    BY <2>1, <2>3, <1>1 DEF AfterRemove, SetLinks, Good, LinkType
  <2>5. w[next] = w[pos] /\ w[pos] = w[prev]
    BY <2>1, <2>3, <1>1, <1>2 DEF Labels
  <2>6. Labels(w, m_next')
    BY <2>4, <2>5, <1>2 DEF Labels
  <2> QED
    BY <2>1, <2>2, <2>6, Conclude
<1>5. ASSUME NEW pos \in Objects, NEW fst \in Objects, NEW lst \in Objects,
             Splice(pos, fst, lst)
      PROVE  IInv'
  <2>1. /\ ~erasing /\ UNCHANGED loop /\ SetLinks(AfterMove(pos, fst, lst))
        /\ Linked(pos)
    BY <1>5 DEF Splice
  <2>2. PICK S \in SUBSET Nodes : IsSegment(S, fst, lst) /\ pos \notin S
    BY <1>5 DEF Splice
  <2>3. /\ GoodPair(AfterMove(pos, fst, lst))
        /\ \E v : Labels(v, AfterMove(pos, fst, lst).next)
    BY <2>1, <2>2, <1>1, <1>2, MoveKeeps
  <2> QED
    BY <2>1, <2>3, SetLinksGood, Conclude DEF SetLinks
<1>6. ASSUME NEW fst \in Objects, NEW lst \in Objects, EraseRange(fst, lst)
      PROVE  IInv'
  BY <1>6, EnterLoop DEF EraseRange, IInv, links
<1>7. ASSUME NEW l \in Lists PROVE Clear(l) => IInv'
  BY <1>1, <1>2, <1>6, WholeList DEF Clear, Objects
<1>8. ASSUME NEW l \in Lists, NEW src \in Lists, MoveAssign(l, src) PROVE IInv'
  <2>1. IsRange(m_next[l], l) /\ m_next[l] \in Objects /\ l \in Objects
    BY <1>1, <1>2, WholeList DEF IsRange, Objects
  <2> QED
    BY <2>1, <1>8, EnterLoop DEF MoveAssign
<1>9. CASE EraseStep
  <2>1. erasing /\ first # last /\ last' = last /\ erasing' = erasing /\ other' = other
    BY <1>9 DEF EraseStep
  <2>2. /\ Good' /\ first' \in Objects /\ EraseIteratorValid'
        /\ \E v : Labels(v, m_next')
    BY <2>1, <1>2, <1>9, EraseKeeps DEF IInv
  <2> QED
    BY <2>1, <2>2 DEF IInv, TypeOK, Good, LinkType
<1>10. CASE EraseDone
  <2>1. /\ erasing /\ erasing' = FALSE /\ first' = Null /\ last' = Null /\ other' = Null
    BY <1>10 DEF EraseDone
  <2>2. Good' /\ \E v : Labels(v, m_next')
    <3>1. CASE other = Null
      BY <3>1, <1>1, <1>2, <1>10 DEF EraseDone, links, Good, LinkType, LinksInverse
    <3>2. CASE other # Null
      <4>1. /\ other \in Lists /\ other \in Objects /\ last \in Lists /\ last \in Objects
            /\ Linked(last) /\ last \notin Nodes
            /\ SetLinks(AfterMove(last, m_next[other], other))
        BY <3>2, <1>1, <1>10, ListAssumption
        DEF EraseDone, IInv, TypeOK, Objects, Good, LinksInverse, Linked
      <4>2. PICK S \in SUBSET Nodes : IsSegment(S, m_next[other], other)
        BY <4>1, <1>1, <1>2, WholeList
      <4>3. m_next[other] \in Objects /\ last \notin S
        BY <4>1, <1>1, <1>2, WholeList
      <4>4. /\ GoodPair(AfterMove(last, m_next[other], other))
            /\ \E v : Labels(v, AfterMove(last, m_next[other], other).next)
        BY <4>1, <4>2, <4>3, <1>1, <1>2, MoveKeeps
      <4> QED
        BY <4>1, <4>4, SetLinksGood DEF SetLinks
    <3> QED
      BY <3>1, <3>2
  <2> QED
    BY <2>1, <2>2 DEF IInv, TypeOK, Good, LinkType, EraseIteratorValid
<1>11. CASE UNCHANGED vars
  BY SMTT(30), <1>11 DEF vars, IInv, TypeOK, LinksInverse, EraseIteratorValid, IsRange, IsSegment,
               Linked, Labels
<1> QED
  BY <1>3, <1>4, <1>5, <1>6, <1>7, <1>8, <1>9, <1>10, <1>11 DEF Next, Loop

LEMMA IInvInvariant == Spec => []IInv
BY InitIInv, StepIInv, PTL DEF Spec

(* Type correctness of the list (TypeOK of IList). *)
THEOREM TypeCorrect == Spec => []TypeOK
<1>1. IInv => TypeOK
  BY DEF IInv
<1> QED
  BY <1>1, IInvInvariant, PTL

(* Whatever sequence of insertions, removals, splices, clears and moves was *)
(* made, m_prev and m_next are inverse to each other (LinksInverse).        *)
THEOREM LinksStayInverse == Spec => []LinksInverse
<1>1. IInv => LinksInverse
  BY DEF IInv
<1> QED
  BY <1>1, IInvInvariant, PTL

(* The iterator of a running erase(first, last) is always at a linked object *)
(* of the range that is left (EraseIteratorValid).                           *)
THEOREM EraseIteratorStaysValid == Spec => []EraseIteratorValid
<1>1. IInv => EraseIteratorValid
  BY DEF IInv
<1> QED
  BY <1>1, IInvInvariant, PTL

-----------------------------------------------------------------------------
(* Walking the links.                                                      *)

LEMMA AheadSolved ==
  ASSUME LinkType, NEW o \in Objects, NEW n \in Nat
  PROVE  \E f : /\ f \in [0 .. n -> Objects \cup {Null}] /\ f[0] = o /\ Ahead(o, n) = f[n]
                /\ \A k \in 1 .. n : f[k] = IF f[k - 1] = Null THEN Null ELSE m_next[f[k - 1]]
<1> DEFINE V == Objects \cup {Null}
           Step(x) == IF x = Null THEN Null ELSE m_next[x]
           G == [w \in V \X (1 .. n) |-> Step(w[1])]
<1>1. o \in V /\ \A x \in V : Step(x) \in V
  BY DEF LinkType
<1> HIDE DEF Step, V
<1>2. G \in [V \X (1 .. n) -> V] /\ \A x \in V, k \in 1 .. n : G[<<x, k>>] = Step(x)
  BY <1>1
<1> HIDE DEF G
<1>3. PICK f : Iterates(f, V, n, o, G)
  BY <1>1, <1>2, Iteration
<1>4. f \in [0 .. n -> V] /\ f[0] = o /\ \A k \in 1 .. n : f[k] = Step(f[k - 1])
  <2>1. \A k \in 1 .. n : k - 1 \in 0 .. n
    OBVIOUS
  <2> QED
    BY <1>2, <1>3, <2>1 DEF Iterates
<1> DEFINE Sol(x) == x = [i \in 0 .. n |-> IF i = 0 THEN o ELSE Step(x[i - 1])]
<1>5. Sol(f)
  <2>1. f = [i \in 0 .. n |-> f[i]]
    BY <1>4
  <2>2. \A i \in 0 .. n : i # 0 => i \in 1 .. n
    OBVIOUS
  <2>3. \A i \in 0 .. n : f[i] = IF i = 0 THEN o ELSE Step(f[i - 1])
    BY <1>4, <2>2
  <2> QED
    BY <2>1, <2>3
<1> DEFINE at == CHOOSE x : Sol(x)
<1>6. Sol(at)
  BY <1>5, Zenon
<1>7. Ahead(o, n) = at[n]
  BY DEF Ahead, Step
<1> HIDE DEF at
<1>8. \A i \in 0 .. n : at[i] = IF i = 0 THEN o ELSE Step(at[i - 1])
  BY <1>6
<1> HIDE DEF Sol
<1>9. at[n] = f[n]
  <2> DEFINE K == {k \in 0 .. n : at[k] = f[k]}
  <2>1. 0 \in K
    <3>1. 0 \in 0 .. n
      OBVIOUS
    <3> QED
      BY <1>4, <1>8, <3>1
  <2>2. ASSUME NEW k \in 1 .. n, k - 1 \in K PROVE k \in K
    <3>1. k \in 0 .. n /\ k # 0
      OBVIOUS
    <3> QED
      BY <1>4, <1>8, <2>2, <3>1
  <2> HIDE DEF K
  <2>3. 0 .. n \subseteq K
    BY <2>1, <2>2, BoundedInduction
  <2>4. n \in K
    BY <2>3
  <2> QED
    BY <2>4 DEF K
<1> QED
  BY <1>4, <1>7, <1>9 DEF Step, V

LEMMA AheadSteps ==
  ASSUME LinkType, NEW o \in Objects
  PROVE  /\ Ahead(o, 0) = o
         /\ \A n \in Nat : Ahead(o, n + 1) = IF Ahead(o, n) = Null THEN Null ELSE m_next[Ahead(o, n)]
<1>1. Ahead(o, 0) = o
  <2>1. 0 \in Nat
    OBVIOUS
  <2> QED
    BY <2>1, AheadSolved
<1>2. ASSUME NEW n \in Nat
      PROVE  Ahead(o, n + 1) = IF Ahead(o, n) = Null THEN Null ELSE m_next[Ahead(o, n)]
  <2>1. n + 1 \in Nat
    OBVIOUS
  <2>2. PICK f : /\ f \in [0 .. n -> Objects \cup {Null}] /\ f[0] = o /\ Ahead(o, n) = f[n]
                 /\ \A k \in 1 .. n : f[k] = IF f[k - 1] = Null THEN Null ELSE m_next[f[k - 1]]
    BY AheadSolved
  <2>3. PICK g : /\ g \in [0 .. n + 1 -> Objects \cup {Null}] /\ g[0] = o /\ Ahead(o, n + 1) = g[n + 1]
                 /\ \A k \in 1 .. n + 1 : g[k] = IF g[k - 1] = Null THEN Null ELSE m_next[g[k - 1]]
    BY ZenonT(30), <2>1, AheadSolved
  <2>4. g[n] = f[n]
    <3> DEFINE K == {k \in 0 .. n : g[k] = f[k]}
    <3>1. 0 \in K
      BY <2>2, <2>3
    <3>2. ASSUME NEW k \in 1 .. n, k - 1 \in K PROVE k \in K
      <4>1. k \in 1 .. n + 1 /\ k \in 0 .. n
        OBVIOUS
      <4> QED
        BY <2>2, <2>3, <3>2, <4>1
    <3> HIDE DEF K
    <3>3. 0 .. n \subseteq K
      BY <3>1, <3>2, BoundedInduction
    <3>4. n \in K
      BY <3>3
    <3> QED
      BY <3>4 DEF K
  <2>5. n + 1 \in 1 .. n + 1 /\ (n + 1) - 1 = n
    OBVIOUS
  <2> QED
    BY <2>2, <2>3, <2>4, <2>5
<1> QED
  BY <1>1, <1>2

-----------------------------------------------------------------------------
(***************************************************************************)
(* No ring of nodes: only the empty set of nodes is closed under m_next.   *)
(* The labelling does not exclude a ring whose nodes carry the label of a  *)
(* list they cannot be reached from, so this is an invariant of its own.   *)
(***************************************************************************)
NoRing(next) == \A S \in SUBSET Nodes : (\A o \in S : next[o] \in S) => S = {}

LEMMA InsertNoRing ==
  ASSUME Good, NoRing(m_next), NEW pos \in Objects, NEW node \in Nodes,
         Linked(pos), ~Linked(node)
  PROVE  NoRing(AfterInsert(pos, node).next)
<1> DEFINE prev == m_prev[pos]
           next == AfterInsert(pos, node).next
<1>1. /\ node \in Objects /\ prev \in Objects /\ m_next[prev] = pos
      /\ m_next[node] = Null /\ node # pos /\ node # prev /\ Null \notin Objects
      /\ \A o \in Objects : m_next[o] # node
  BY NullIsNoObject DEF Good, LinksInverse, LinkType, Linked, Objects
<1>2. \A o \in Objects : next[o] = IF o = node THEN pos ELSE IF o = prev THEN node ELSE m_next[o]
  BY <1>1 DEF AfterInsert, Good, LinkType
<1> HIDE DEF next, prev
<1>3. SUFFICES ASSUME NEW S \in SUBSET Nodes, \A o \in S : next[o] \in S PROVE S = {}
  BY DEF NoRing, next
<1> PICK R \in SUBSET Nodes : R = S \ {node}
  OBVIOUS
<1>4. node \in S => pos \in R
  BY <1>1, <1>2, <1>3
<1>5. ASSUME NEW o \in R PROVE m_next[o] \in R
  <2>1. o \in Objects /\ o # node /\ next[o] \in S
    BY <1>3 DEF Objects
  <2> QED
    BY <2>1, <1>1, <1>2, <1>4
<1>6. R = {}
  BY <1>5 DEF NoRing
<1> QED
  BY <1>4, <1>6

LEMMA RemoveNoRing ==
  ASSUME Good, NoRing(m_next), NEW node \in Nodes, Linked(node)
  PROVE  NoRing(AfterRemove(node).next)
<1> DEFINE prev == m_prev[node]
           after == m_next[node]
           next == AfterRemove(node).next
<1>1. /\ node \in Objects /\ prev \in Objects /\ m_next[prev] = node
      /\ Null \notin Objects
  BY NullIsNoObject DEF Good, LinksInverse, LinkType, Linked, Objects
<1>2. \A o \in Objects : next[o] = IF o = node THEN Null ELSE IF o = prev THEN after ELSE m_next[o]
  BY <1>1 DEF AfterRemove, Good, LinkType
<1> HIDE DEF next, prev
<1>3. SUFFICES ASSUME NEW S \in SUBSET Nodes, \A o \in S : next[o] \in S PROVE S = {}
  BY DEF NoRing, next
<1>4. node \notin S /\ \A o \in S : o \in Objects
  BY <1>1, <1>2, <1>3, ListAssumption DEF Objects
<1>5. CASE prev \in S
  <2>1. \A o \in S \cup {node} : m_next[o] \in S \cup {node}
    BY <1>1, <1>2, <1>3, <1>4, <1>5
  <2>2. S \cup {node} \in SUBSET Nodes
    OBVIOUS
  <2> QED
    BY <2>1, <2>2 DEF NoRing
<1>6. CASE prev \notin S
  <2>1. \A o \in S : m_next[o] \in S
    BY <1>1, <1>2, <1>3, <1>4, <1>6
  <2> QED
    BY <2>1 DEF NoRing
<1> QED
  BY <1>5, <1>6

(* A ring after the move is one before it with the segment put back where  *)
(* it was, or taken out.                                                   *)
LEMMA MoveNoRing ==
  ASSUME Good, NoRing(m_next), NEW T \in SUBSET Nodes, NEW pos \in Objects,
         NEW fst \in Objects, NEW lst \in Objects,
         IsSegment(T, fst, lst), Linked(pos), pos \notin T
  PROVE  NoRing(AfterMove(pos, fst, lst).next)
<1> DEFINE next == AfterMove(pos, fst, lst).next
           tail == m_prev[lst]
           rbegin == m_prev[fst]
           prev == m_prev[pos]
<1>1. CASE lst = pos \/ fst = lst
  BY <1>1 DEF AfterMove
<1>2. CASE ~(lst = pos \/ fst = lst)
  <2>1. /\ fst \in T /\ rbegin \notin T /\ lst \notin T /\ tail \in T
        /\ Linked(fst) /\ Linked(lst) /\ pos # fst
        /\ \A o \in T : m_next[o] \in T \cup {lst} /\ (o = fst \/ m_prev[o] \in T)
    BY <1>2 DEF IsSegment
  <2>2. \A o \in Objects : next[o] = IF o = tail THEN pos
                                     ELSE IF o = prev THEN fst
                                     ELSE IF o = rbegin THEN lst ELSE m_next[o]
    BY <1>2, <2>1, MoveGood
  <2> HIDE DEF next
  <2>3. /\ tail \in Objects /\ rbegin \in Objects /\ prev \in Objects
        /\ m_next[tail] = lst /\ m_next[rbegin] = fst /\ m_next[prev] = pos
        /\ Null \notin Objects
    BY <2>1, NullIsNoObject DEF Good, LinksInverse, LinkType, Linked
  <2>4. prev \notin T
    BY <1>2, <2>1, <2>3
  <2>5. SUFFICES ASSUME NEW S \in SUBSET Nodes, \A o \in S : next[o] \in S PROVE S = {}
    BY <1>1, <1>2 DEF NoRing, next
  <2>6. \A o \in Nodes : o \in Objects
    BY DEF Objects
  <2>7. \A o \in Objects : m_next[o] # Null => m_prev[m_next[o]] = o
    BY DEF Good, LinksInverse
  <2> HIDE DEF tail, rbegin, prev
  <2>8. ASSUME S \cap T # {} PROVE tail \in S
    <3> PICK R \in SUBSET Nodes : R = S \cap T
      OBVIOUS
    <3>1. SUFFICES ASSUME tail \notin S PROVE R = {}
      BY <2>8
    <3>2. ASSUME NEW o \in R PROVE m_next[o] \in R
      <4>1. o \in Objects /\ o # tail /\ o # prev /\ o # rbegin /\ o \in S /\ o \in T
        BY <2>1, <2>4, <2>6, <3>1
      <4>2. m_next[o] \in S /\ m_next[o] \in T \cup {lst}
        BY <4>1, <2>1, <2>2, <2>5
      <4>3. m_next[o] # lst
        BY <4>1, <4>2, <2>6, <2>7, <2>3, NullIsNoObject DEF tail
      <4> QED
        BY <4>2, <4>3
    <3> QED
      BY <3>2 DEF NoRing
  <2>9. S \cap T # {} => pos \in S
    BY <2>8, <2>2, <2>3, <2>5
  <2>10. CASE rbegin \in S
    <3> PICK R \in SUBSET Nodes : R = S \cup T
      OBVIOUS
    <3>1. lst \in S
      <4>1. rbegin # tail /\ (rbegin = prev => fst = pos)
        BY <2>1, <2>3
      <4> QED
        BY <4>1, <2>1, <2>2, <2>3, <2>5, <2>10
    <3>2. ASSUME NEW o \in R PROVE m_next[o] \in R
      <4>1. CASE o \in T
        BY <4>1, <3>1, <2>1
      <4>2. CASE o \notin T
        <5>1. o \in S /\ o \in Objects /\ o # tail /\ next[o] \in S
          BY <4>2, <2>1, <2>5, <2>6
        <5> QED
          BY <5>1, <2>1, <2>2, <2>3, <2>9
      <4> QED
        BY <4>1, <4>2
    <3>3. R = {}
      BY <3>2 DEF NoRing
    <3> QED
      BY <3>3
  <2>11. CASE rbegin \notin S
    <3> PICK R \in SUBSET Nodes : R = S \ T
      OBVIOUS
    <3>1. ASSUME NEW o \in R PROVE m_next[o] \in R
      <4>1. o \in S /\ o \in Objects /\ o # tail /\ o # rbegin /\ o \notin T /\ next[o] \in S
        BY <2>1, <2>5, <2>6, <2>11
      <4>2. CASE o = prev
        BY <4>1, <4>2, <2>1, <2>2, <2>3, <2>9
      <4>3. CASE o # prev
        <5>1. next[o] = m_next[o] /\ m_next[o] \in S /\ m_next[o] # Null
          BY <4>1, <4>3, <2>2, <2>3, <2>6
        <5>2. m_prev[m_next[o]] = o
          BY <4>1, <5>1, <2>7
        <5>3. m_next[o] \notin T
          BY <4>1, <5>2, <2>1 DEF rbegin
        <5> QED
          BY <5>1, <5>3
      <4> QED
        BY <4>2, <4>3
    <3>2. R = {}
      BY <3>1 DEF NoRing
    <3> QED
      BY <3>2, <2>9
  <2> QED
    BY <2>10, <2>11
<1> QED
  BY <1>1, <1>2

RingInv == IInv /\ NoRing(m_next)

LEMMA RingInvInvariant == Spec => []RingInv
<1>1. Init => RingInv
  <2> SUFFICES ASSUME Init PROVE NoRing(m_next)
    BY InitIInv DEF RingInv
  <2>1. ASSUME NEW S \in SUBSET Nodes, \A o \in S : m_next[o] \in S, NEW n \in S PROVE FALSE
    <3>1. n \in Objects /\ n \notin Lists /\ m_next[n] \in Nodes
      BY <2>1, ListAssumption DEF Objects
    <3> QED
      BY <3>1, ListAssumption DEF Init
  <2> QED
    BY <2>1 DEF NoRing
<1>2. RingInv /\ [Next]_vars => RingInv'
  <2> SUFFICES ASSUME IInv, NoRing(m_next), [Next]_vars PROVE NoRing(m_next)'
    BY StepIInv DEF RingInv
  <2>1. Good /\ Null \notin Objects
    BY NullIsNoObject DEF IInv, TypeOK, Good, LinkType
  <2>2. PICK w : Labels(w, m_next)
    BY DEF IInv
  <2>3. ASSUME UNCHANGED m_next PROVE NoRing(m_next)'
    BY <2>3 DEF NoRing
  <2>4. ASSUME NEW p, SetLinks(p), NoRing(p.next) PROVE NoRing(m_next)'
    BY <2>4 DEF SetLinks, NoRing
  <2>5. ASSUME NEW pos \in Objects, NEW node \in Nodes, Insert(pos, node)
        PROVE  NoRing(m_next)'
    <3>1. Linked(pos) /\ ~Linked(node) /\ SetLinks(AfterInsert(pos, node))
      BY <2>5 DEF Insert
    <3> QED
      BY <2>1, <2>4, <3>1, InsertNoRing
  <2>6. ASSUME NEW pos \in Nodes, Linked(pos), SetLinks(AfterRemove(pos))
        PROVE  NoRing(m_next)'
    BY <2>1, <2>4, <2>6, RemoveNoRing
  <2>7. ASSUME NEW pos \in Objects, NEW fst \in Objects, NEW lst \in Objects,
               NEW T \in SUBSET Nodes, IsSegment(T, fst, lst), pos \notin T,
               Linked(pos), SetLinks(AfterMove(pos, fst, lst))
        PROVE  NoRing(m_next)'
    BY <2>1, <2>4, <2>7, MoveNoRing
  <2>8. ASSUME NEW pos \in Objects, NEW fst \in Objects, NEW lst \in Objects,
               Splice(pos, fst, lst)
        PROVE  NoRing(m_next)'
    <3>1. PICK T \in SUBSET Nodes : IsSegment(T, fst, lst) /\ pos \notin T
      BY <2>8 DEF Splice
    <3> QED
      BY <2>7, <2>8, <3>1 DEF Splice
  <2>9. CASE EraseStep
    <3>1. PICK T \in SUBSET Nodes : IsSegment(T, first, last)
      BY <2>9 DEF EraseStep, IInv, EraseIteratorValid, IsRange
    <3>2. first \in Nodes /\ Linked(first)
      BY <2>9, <3>1 DEF EraseStep, IsSegment
    <3> QED
      BY <2>6, <2>9, <3>2 DEF EraseStep
  <2>10. CASE EraseDone
    <3>1. CASE other = Null
      BY <3>1, <2>3, <2>10 DEF EraseDone, links
    <3>2. CASE other # Null
      <4>1. /\ other \in Lists /\ other \in Objects /\ last \in Lists /\ last \in Objects
            /\ Linked(last) /\ last \notin Nodes
            /\ SetLinks(AfterMove(last, m_next[other], other))
        BY <3>2, <2>1, <2>10, ListAssumption
        DEF EraseDone, IInv, TypeOK, Objects, Good, LinksInverse, Linked
      <4>2. PICK T \in SUBSET Nodes : IsSegment(T, m_next[other], other)
        BY <4>1, <2>1, <2>2, WholeList
      <4>3. m_next[other] \in Objects /\ last \notin T
        BY <4>1, <2>1, <2>2, WholeList
      <4> QED
        BY <2>7, <4>1, <4>2, <4>3
    <3> QED
      BY <3>1, <3>2
  <2>11. CASE Next
    <3>1. ASSUME NEW fst, NEW lst, EraseRange(fst, lst) PROVE NoRing(m_next)'
      BY <2>3, <3>1 DEF EraseRange
    <3>2. ASSUME NEW l, NEW src, MoveAssign(l, src) PROVE NoRing(m_next)'
      BY <2>3, <3>2 DEF MoveAssign, links
    <3>3. ASSUME NEW pos \in Nodes, Erase(pos) PROVE NoRing(m_next)'
      BY <2>6, <3>3 DEF Erase
    <3> QED
      BY <2>5, <2>8, <2>9, <2>10, <2>11, <3>1, <3>2, <3>3 DEF Next, Loop, Clear
  <2>12. CASE UNCHANGED vars
    BY <2>3, <2>12 DEF vars
  <2> QED
    BY <2>11, <2>12
<1> QED
  BY <1>1, <1>2, PTL DEF Spec

-----------------------------------------------------------------------------
(* What a walk from a sentinel meets.                                      *)

LEMMA WalkFacts ==
  ASSUME Good, NEW w, Labels(w, m_next), NEW l \in Lists
  PROVE  /\ Ahead(l, 0) = l
         /\ \A n \in Nat : /\ Ahead(l, n) \in Objects
                           /\ Linked(Ahead(l, n))
                           /\ w[Ahead(l, n)] = l
                           /\ Ahead(l, n + 1) = m_next[Ahead(l, n)]
                           /\ m_prev[Ahead(l, n + 1)] = Ahead(l, n)
<1>1. LinkType /\ l \in Objects /\ Null \notin Objects
  BY NullIsNoObject DEF Good, Objects
<1>2. /\ Ahead(l, 0) = l
      /\ \A n \in Nat : Ahead(l, n + 1) = IF Ahead(l, n) = Null THEN Null ELSE m_next[Ahead(l, n)]
  BY <1>1, AheadSteps
<1> DEFINE Fine(o) == o \in Objects /\ Linked(o) /\ w[o] = l
<1>3. \A o \in Objects : Fine(o) => Fine(m_next[o]) /\ m_prev[m_next[o]] = o /\ o # Null
  <2> SUFFICES ASSUME NEW o \in Objects, Fine(o)
               PROVE  Fine(m_next[o]) /\ m_prev[m_next[o]] = o /\ o # Null
    OBVIOUS
  <2>1. m_next[o] \in Objects /\ m_prev[m_next[o]] = o
    BY DEF Good, LinksInverse, Linked
  <2>2. m_next[m_next[o]] # Null
    BY <1>1, <2>1 DEF Good, LinksInverse
  <2> QED
    BY <1>1, <2>1, <2>2 DEF Labels, Linked
<1>4. Fine(Ahead(l, 0))
  BY <1>1, <1>2 DEF Good, LinksInverse, Labels, Linked
<1>5. ASSUME NEW n \in Nat PROVE Fine(Ahead(l, n))
  <2> DEFINE K == {k \in 0 .. n : Fine(Ahead(l, k))}
  <2>1. 0 \in K
    BY <1>4
  <2>2. ASSUME NEW k \in 1 .. n, k - 1 \in K PROVE k \in K
    <3>1. k - 1 \in Nat /\ (k - 1) + 1 = k /\ k \in 0 .. n
      OBVIOUS
    <3>2. Ahead(l, k) = IF Ahead(l, k - 1) = Null THEN Null ELSE m_next[Ahead(l, k - 1)]
      BY <1>2, <3>1
    <3>3. Fine(Ahead(l, k - 1))
      BY <2>2
    <3>4. Fine(m_next[Ahead(l, k - 1)]) /\ Ahead(l, k - 1) # Null
      <4>1. Ahead(l, k - 1) \in Objects
        BY <3>3
      <4> HIDE DEF Fine
      <4> QED
        BY <1>3, <3>3, <4>1
    <3>5. Fine(Ahead(l, k))
      BY <3>2, <3>4
    <3> QED
      BY <3>1, <3>5
  <2> HIDE DEF K
  <2>3. 0 .. n \subseteq K
    BY <2>1, <2>2, BoundedInduction
  <2>4. n \in K
    BY <2>3
  <2> QED
    BY <2>4 DEF K
<1>6. ASSUME NEW n \in Nat
      PROVE  /\ Ahead(l, n + 1) = m_next[Ahead(l, n)]
             /\ m_prev[Ahead(l, n + 1)] = Ahead(l, n)
  <2>1. Fine(Ahead(l, n)) /\ Ahead(l, n) \in Objects
    BY <1>5
  <2>2. m_prev[m_next[Ahead(l, n)]] = Ahead(l, n) /\ Ahead(l, n) # Null
    <3> HIDE DEF Fine
    <3> QED
      BY <1>3, <2>1
  <2> QED
    BY <1>2, <2>2
<1> QED
  BY <1>2, <1>5, <1>6

(* m_next is injective, so a walk that meets an object twice has been at *)
(* its sentinel in between.                                              *)
LEMMA WalkRepeats ==
  ASSUME Good, NEW w, Labels(w, m_next), NEW l \in Lists,
         NEW i \in Nat, NEW j \in Nat, i < j, Ahead(l, i) = Ahead(l, j)
  PROVE  Ahead(l, j - i) = l
<1> DEFINE K == {k \in 0 .. i : Ahead(l, i - k) = Ahead(l, j - k)}
<1>1. /\ Ahead(l, 0) = l
      /\ \A n \in Nat : m_prev[Ahead(l, n + 1)] = Ahead(l, n)
  BY WalkFacts
<1>2. 0 \in K
  <2>1. i - 0 = i /\ j - 0 = j /\ 0 \in 0 .. i
    OBVIOUS
  <2> QED
    BY <2>1
<1>3. ASSUME NEW k \in 1 .. i, k - 1 \in K PROVE k \in K
  <2>1. /\ i - k \in Nat /\ j - k \in Nat /\ k \in 0 .. i
        /\ (i - k) + 1 = i - (k - 1) /\ (j - k) + 1 = j - (k - 1)
    OBVIOUS
  <2>2. Ahead(l, (i - k) + 1) = Ahead(l, (j - k) + 1)
    BY <1>3, <2>1
  <2>3. /\ m_prev[Ahead(l, (i - k) + 1)] = Ahead(l, i - k)
        /\ m_prev[Ahead(l, (j - k) + 1)] = Ahead(l, j - k)
    BY <1>1, <2>1
  <2> QED
    BY <2>1, <2>2, <2>3
<1> HIDE DEF K
<1>4. 0 .. i \subseteq K
  BY <1>2, <1>3, BoundedInduction
<1>5. i \in K
  BY <1>4
<1>6. Ahead(l, i - i) = Ahead(l, j - i)
  BY <1>5 DEF K
<1> QED
  <2>1. i - i = 0
    OBVIOUS
  <2> QED
    BY <1>1, <1>6, <2>1

(* There are too few nodes for a walk that does not come back. *)
LEMMA WalkReturns ==
  ASSUME Good, NEW w, Labels(w, m_next), NEW l \in Lists
  PROVE  Far \in Nat /\ \E n \in 1 .. Far : Ahead(l, n) = l
<1>1. Cardinality(Nodes) \in Nat
  BY ListAssumption, FS_CardinalityType
<1>2. Far \in Nat /\ Far = Cardinality(Nodes) + 1
  BY <1>1 DEF Far
<1>3. SUFFICES ASSUME \A n \in 1 .. Far : Ahead(l, n) # l PROVE FALSE
  BY <1>2
<1> DEFINE walk == [n \in 1 .. Far |-> Ahead(l, n)]
<1>4. walk \in [1 .. Far -> Nodes]
  <2> SUFFICES ASSUME NEW n \in 1 .. Far PROVE Ahead(l, n) \in Nodes
    OBVIOUS
  <2>1. n \in Nat
    BY <1>2
  <2>2. Ahead(l, n) \in Objects /\ w[Ahead(l, n)] = l /\ Ahead(l, n) # l
    BY <1>3, <2>1, WalkFacts
  <2> QED
    BY <2>2 DEF Objects, Labels
<1>5. IsFiniteSet(1 .. Far) /\ Cardinality(1 .. Far) = Far
  <2>1. 1 \in Int /\ Far \in Int
    BY <1>2
  <2>2. IsFiniteSet(1 .. Far) /\ Cardinality(1 .. Far) = IF 1 > Far THEN 0 ELSE Far - 1 + 1
    BY <2>1, FS_Interval
  <2> QED
    BY <1>1, <1>2, <2>2
<1> HIDE DEF walk
<1>6. \E i, j \in 1 .. Far : i # j /\ walk[i] = walk[j]
  <2>1. Cardinality(Nodes) < Cardinality(1 .. Far)
    BY <1>1, <1>2, <1>5
  <2>2. \A f \in [1 .. Far -> Nodes] : \E i, j \in 1 .. Far : i # j /\ f[i] = f[j]
    <3>1. IsFiniteSet(1 .. Far) /\ IsFiniteSet(Nodes)
      BY <1>5, ListAssumption
    <3> QED
      BY <2>1, <3>1, FS_PigeonHole
  <2> QED
    BY <1>4, <2>2
<1>7. PICK i \in 1 .. Far, j \in 1 .. Far : i < j /\ walk[i] = walk[j]
  BY <1>2, <1>6
<1>8. Ahead(l, i) = Ahead(l, j) /\ i \in Nat /\ j \in Nat
  BY <1>2, <1>7 DEF walk
<1>9. Ahead(l, j - i) = l
  BY <1>7, <1>8, WalkRepeats
<1> QED
  BY <1>2, <1>3, <1>7, <1>9

(* So Size counts the steps before the first return. *)
LEMMA WholeWalk ==
  ASSUME Good, NEW w, Labels(w, m_next), NEW l \in Lists
  PROVE  \E n \in Nat : /\ n # 0 /\ Ahead(l, n) = l /\ Size(l) = n - 1
                        /\ \A k \in 1 .. n - 1 : Ahead(l, k) # l
<1>1. PICK m \in 1 .. Far : Far \in Nat /\ Ahead(l, m) = l
  BY WalkReturns
<1> DEFINE Returns == {n \in Nat : n \in 1 .. Far /\ Ahead(l, n) = l}
<1>2. Returns \in SUBSET Nat /\ Returns # {}
  <2>1. m \in Returns
    BY <1>1
  <2> QED
    BY <2>1
<1>3. PICK n \in Returns : \A k \in Returns : n <= k
  <2> HIDE DEF Returns
  <2> QED
    BY <1>2, LeastNumber
<1>4. n \in Nat /\ n \in 1 .. Far /\ Ahead(l, n) = l
  OBVIOUS
<1>5. \A k \in 1 .. n - 1 : Ahead(l, k) # l
  <2> SUFFICES ASSUME NEW k \in 1 .. n - 1, Ahead(l, k) = l PROVE FALSE
    OBVIOUS
  <2>1. k \in Nat /\ k \in 1 .. Far /\ ~(n <= k)
    BY <1>1, <1>4
  <2>2. k \in Returns
    BY <2>1
  <2> QED
    BY <1>3, <2>1, <2>2
<1> DEFINE Least(c) == Ahead(l, c) = l /\ \A k \in 1 .. c - 1 : Ahead(l, k) # l
<1>6. \A c \in 1 .. Far : Least(c) <=> c = n
  <2> SUFFICES ASSUME NEW c \in 1 .. Far, Least(c) PROVE c = n
    BY <1>4, <1>5
  <2>1. c \in Returns
    BY <1>1
  <2>2. n <= c
    BY <1>3, <2>1
  <2>3. ~(n < c)
    <3>1. n < c => n \in 1 .. c - 1
      BY <1>1, <1>4
    <3> QED
      BY <1>4, <3>1
  <2> QED
    BY <1>1, <1>4, <2>2, <2>3
<1>7. Size(l) = (CHOOSE c \in 1 .. Far : Least(c)) - 1
  BY <1>4 DEF Size
<1>8. (CHOOSE c \in 1 .. Far : Least(c)) = n
  <2> HIDE DEF Least
  <2> QED
    BY <1>4, <1>6
<1> QED
  BY <1>1, <1>4, <1>5, <1>7, <1>8

(* The contents of a list are the linked nodes with its label, each once. *)
(* Any that the walk missed would be a ring.                              *)
LEMMA ContentsFacts ==
  ASSUME Good, NoRing(m_next), NEW w, Labels(w, m_next), NEW l \in Lists
  PROVE  /\ \A i, j \in DOMAIN Contents(l) : i # j => Contents(l)[i] # Contents(l)[j]
         /\ \A b \in Nodes : (\E i \in DOMAIN Contents(l) : Contents(l)[i] = b)
                               <=> Linked(b) /\ w[b] = l
<1>1. PICK n \in Nat : /\ n # 0 /\ Ahead(l, n) = l /\ Size(l) = n - 1
                       /\ \A k \in 1 .. n - 1 : Ahead(l, k) # l
  BY WholeWalk
<1>2. /\ DOMAIN Contents(l) = 1 .. n - 1
      /\ \A i \in 1 .. n - 1 : Contents(l)[i] = Ahead(l, i)
  BY <1>1 DEF Contents
<1>3. /\ Ahead(l, 0) = l
      /\ \A k \in Nat : /\ Ahead(l, k) \in Objects /\ Linked(Ahead(l, k)) /\ w[Ahead(l, k)] = l
                        /\ Ahead(l, k + 1) = m_next[Ahead(l, k)]
                        /\ m_prev[Ahead(l, k + 1)] = Ahead(l, k)
  BY WalkFacts
<1>4. \A i, j \in 1 .. n - 1 : i < j => Ahead(l, i) # Ahead(l, j)
  <2> SUFFICES ASSUME NEW i \in 1 .. n - 1, NEW j \in 1 .. n - 1, i < j,
                      Ahead(l, i) = Ahead(l, j)
               PROVE  FALSE
    OBVIOUS
  <2>1. i \in Nat /\ j \in Nat /\ j - i \in 1 .. n - 1
    BY <1>1
  <2>2. Ahead(l, j - i) = l
    BY <2>1, WalkRepeats
  <2> QED
    BY <1>1, <2>1, <2>2
<1>5. \A i, j \in DOMAIN Contents(l) : i # j => Contents(l)[i] # Contents(l)[j]
  <2> SUFFICES ASSUME NEW i \in 1 .. n - 1, NEW j \in 1 .. n - 1, i # j
               PROVE  Ahead(l, i) # Ahead(l, j)
    BY <1>2
  <2>1. i < j \/ j < i
    BY <1>1
  <2> QED
    BY <1>4, <2>1
<1> PICK Missed \in SUBSET Nodes :
         Missed = {b \in Nodes : Linked(b) /\ w[b] = l /\ \A i \in 1 .. n - 1 : Ahead(l, i) # b}
  OBVIOUS
<1>6. ASSUME NEW b \in Missed PROVE m_next[b] \in Missed
  <2>1. b \in Objects /\ b \in Nodes /\ Linked(b) /\ w[b] = l /\ l \in Objects /\ b # l
    BY ListAssumption DEF Objects
  <2>2. m_next[b] \in Objects /\ m_prev[m_next[b]] = b /\ Linked(m_next[b]) /\ w[m_next[b]] = l
    BY <2>1, NullIsNoObject DEF Good, LinksInverse, Linked, Labels
  <2>3. ASSUME NEW i \in 1 .. n, Ahead(l, i) = m_next[b] PROVE FALSE
    <3>1. i - 1 \in Nat /\ (i - 1) + 1 = i /\ (i - 1 = 0 \/ i - 1 \in 1 .. n - 1)
      BY <1>1
    <3>2. m_prev[Ahead(l, i)] = Ahead(l, i - 1)
      BY <1>3, <3>1
    <3>3. Ahead(l, i - 1) = b
      BY <2>2, <2>3, <3>2
    <3> QED
      BY <1>3, <2>1, <3>1, <3>3
  <2>4. m_next[b] # l
    <3>1. n \in 1 .. n
      BY <1>1
    <3> QED
      BY <1>1, <2>3, <3>1
  <2>5. m_next[b] \in Nodes
    BY <2>2, <2>4 DEF Objects, Labels
  <2>6. \A i \in 1 .. n - 1 : i \in 1 .. n
    BY <1>1
  <2> QED
    BY <2>2, <2>3, <2>5, <2>6
<1>7. Missed = {}
  BY <1>6 DEF NoRing
<1>8. ASSUME NEW b \in Nodes
      PROVE  (\E i \in 1 .. n - 1 : Ahead(l, i) = b) <=> Linked(b) /\ w[b] = l
  <2>1. \A i \in 1 .. n - 1 : i \in Nat
    BY <1>1
  <2>2. (\E i \in 1 .. n - 1 : Ahead(l, i) = b) => Linked(b) /\ w[b] = l
    BY <1>3, <2>1
  <2> QED
    BY <1>7, <2>2
<1> QED
  BY <1>2, <1>5, <1>8

(* Every linked node is in exactly one list, and there once; no ring of     *)
(* nodes is cut off from the lists (EveryNodeOnce).                         *)
THEOREM EveryLinkedNodeOnce == Spec => []EveryNodeOnce
<1>1. ASSUME RingInv PROVE EveryNodeOnce
  <2>1. Good /\ NoRing(m_next)
    BY <1>1 DEF RingInv, IInv, TypeOK, Good, LinkType
  <2>2. PICK w : Labels(w, m_next)
    BY <1>1 DEF RingInv, IInv
  <2>3. \A l \in Lists :
          /\ \A i, j \in DOMAIN Contents(l) : i # j => Contents(l)[i] # Contents(l)[j]
          /\ \A b \in Nodes : (\E i \in DOMAIN Contents(l) : Contents(l)[i] = b)
                                <=> Linked(b) /\ w[b] = l
    BY <2>1, <2>2, ContentsFacts
  <2>4. \A b \in Nodes : Linked(b) => w[b] \in Lists
    <3> PICK R \in SUBSET Nodes : R = {b \in Nodes : Linked(b) /\ w[b] = Null}
      OBVIOUS
    <3>1. ASSUME NEW b \in R PROVE m_next[b] \in R
      <4>1. b \in Objects /\ Linked(b) /\ w[b] = Null /\ Null \notin Lists
        BY ListAssumption DEF Objects
      <4>2. m_next[b] \in Objects /\ Linked(m_next[b]) /\ w[m_next[b]] = Null
        BY <2>1, <2>2, <4>1, NullIsNoObject DEF Good, LinksInverse, Linked, Labels
      <4> QED
        BY <2>2, <4>1, <4>2 DEF Objects, Labels
    <3>2. R = {}
      BY <2>1, <3>1 DEF NoRing
    <3>3. \A b \in Nodes : b \in Objects
      BY DEF Objects
    <3> QED
      BY <2>2, <3>2, <3>3 DEF Labels
  <2> QED
    BY <2>3, <2>4 DEF EveryNodeOnce
<1> QED
  BY <1>1, RingInvInvariant, PTL

-----------------------------------------------------------------------------
(***************************************************************************)
(* The lists as sequences.  A sequence that the links lead through, from   *)
(* the sentinel and back to it, is the contents of the list; each          *)
(* operation turns such sequences into such sequences, as ListSpec says.   *)
(***************************************************************************)
Place(s, l, i) == IF i \in 1 .. Len(s) THEN s[i] ELSE l
Leads(next, l, s) ==
  s \in Seq(Nodes) /\ \A i \in 0 .. Len(s) : next[Place(s, l, i)] = Place(s, l, i + 1)

LEMMA PlaceFacts ==
  ASSUME NEW s \in Seq(Nodes), NEW l
  PROVE  /\ Len(s) \in Nat
         /\ Place(s, l, 0) = l /\ Place(s, l, Len(s) + 1) = l
         /\ \A i \in 1 .. Len(s) : Place(s, l, i) = s[i] /\ s[i] \in Nodes
BY DEF Place

Joins(a, b, m, n) ==
  /\ a \o b \in Seq(Nodes) /\ Len(a \o b) = m + n
  /\ \A i \in 1 .. m : (a \o b)[i] = a[i]
  /\ \A i \in m + 1 .. m + n : (a \o b)[i] = b[i - m]

LEMMA Joined ==
  ASSUME NEW a \in Seq(Nodes), NEW b \in Seq(Nodes), NEW m \in Nat, NEW n \in Nat,
         Len(a) = m, Len(b) = n
  PROVE  Joins(a, b, m, n)
BY DEF Joins

LEMMA WithFacts ==
  ASSUME NEW s \in Seq(Nodes), NEW t \in Seq(Nodes), NEW k \in 1 .. Len(s) + 1
  PROVE  /\ Abs!With(s, k, t) \in Seq(Nodes)
         /\ Len(Abs!With(s, k, t)) = Len(s) + Len(t)
         /\ \A i \in 1 .. Len(s) + Len(t) :
              Abs!With(s, k, t)[i] = IF i < k THEN s[i]
                                     ELSE IF i < k + Len(t) THEN t[i - k + 1]
                                     ELSE s[i - Len(t)]
<1> PICK n \in Nat, e \in Nat : n = Len(s) /\ e = Len(t)
  OBVIOUS
<1> PICK h \in Nat : h = k - 1
  OBVIOUS
<1> PICK r \in Nat : r = n - k + 1
  OBVIOUS
<1> PICK a, b, c : a = SubSeq(s, 1, k - 1) /\ b = SubSeq(s, k, Len(s)) /\ c = a \o t
  OBVIOUS
<1>1. a \in Seq(Nodes) /\ Len(a) = h /\ \A i \in 1 .. h : a[i] = s[i]
  OBVIOUS
<1>2. b \in Seq(Nodes) /\ Len(b) = r /\ \A i \in 1 .. r : b[i] = s[i + h]
  OBVIOUS
<1>3. /\ c \in Seq(Nodes) /\ Len(c) = h + e
      /\ \A i \in 1 .. h : c[i] = a[i]
      /\ \A i \in h + 1 .. h + e : c[i] = t[i - h]
  <2>1. a \in Seq(Nodes) /\ t \in Seq(Nodes) /\ Len(a) = h /\ Len(t) = e
    BY <1>1
  <2>2. Joins(a, t, h, e)
    BY <2>1, Joined
  <2> QED
    BY <2>2 DEF Joins
<1>a. h + e \in Nat
  OBVIOUS
<1> PICK f \in Nat : f = h + e
  BY <1>a
<1> PICK d : d = c \o b
  OBVIOUS
<1>4. /\ d \in Seq(Nodes) /\ Len(d) = f + r
      /\ \A i \in 1 .. f : d[i] = c[i]
      /\ \A i \in f + 1 .. f + r : d[i] = b[i - f]
  <2>1. c \in Seq(Nodes) /\ b \in Seq(Nodes) /\ Len(c) = f /\ Len(b) = r
    BY <1>2, <1>3
  <2>2. Joins(c, b, f, r)
    BY <2>1, Joined
  <2> QED
    BY <2>2 DEF Joins
<1>5. Abs!With(s, k, t) = d /\ f + r = n + e
  BY DEF Abs!With
<1>6. ASSUME NEW i \in 1 .. n + e
      PROVE  d[i] = IF i < k THEN s[i] ELSE IF i < k + e THEN t[i - k + 1] ELSE s[i - e]
  <2>1. CASE i < k
    <3>1. i \in 1 .. f /\ i \in 1 .. h
      BY <2>1
    <3> QED
      BY ZenonT(30), <1>1, <1>3, <1>4, <2>1, <3>1
  <2>2. CASE ~(i < k) /\ i < k + e
    <3>1. i \in 1 .. f /\ i \in h + 1 .. h + e /\ i - h = i - k + 1
      BY <2>2
    <3>2. d[i] = c[i] /\ c[i] = t[i - h]
      BY <1>3, <1>4, <3>1
    <3> QED
      BY <2>2, <3>1, <3>2
  <2>3. CASE ~(i < k + e)
    <3>1. /\ i \in f + 1 .. f + r /\ i - f \in 1 .. r
          /\ (i - f) + h = i - e /\ ~(i < k)
      BY <2>3
    <3>2. d[i] = b[i - f] /\ b[i - f] = s[(i - f) + h]
      BY <1>2, <1>4, <3>1
    <3> QED
      BY <2>3, <3>1, <3>2
  <2> QED
    BY <2>1, <2>2, <2>3
<1> QED
  BY ZenonT(30), <1>4, <1>5, <1>6

LEMMA WithoutFacts ==
  ASSUME NEW s \in Seq(Nodes), NEW i \in 1 .. Len(s), NEW j \in i .. Len(s)
  PROVE  /\ Abs!Without(s, i, j) \in Seq(Nodes)
         /\ Len(Abs!Without(s, i, j)) = Len(s) - (j - i + 1)
         /\ \A k \in 1 .. Len(s) - (j - i + 1) :
              Abs!Without(s, i, j)[k] = IF k < i THEN s[k] ELSE s[k + (j - i + 1)]
<1> PICK n \in Nat : n = Len(s)
  OBVIOUS
<1> PICK h \in Nat : h = i - 1
  OBVIOUS
<1>a. n - j \in Nat
  OBVIOUS
<1> PICK r \in Nat : r = n - j
  BY <1>a
<1> PICK a, b, c : a = SubSeq(s, 1, i - 1) /\ b = SubSeq(s, j + 1, Len(s)) /\ c = a \o b
  OBVIOUS
<1>1. a \in Seq(Nodes) /\ Len(a) = h /\ \A k \in 1 .. h : a[k] = s[k]
  OBVIOUS
<1>2. b \in Seq(Nodes) /\ Len(b) = r /\ \A k \in 1 .. r : b[k] = s[k + j]
  OBVIOUS
<1>3. /\ c \in Seq(Nodes) /\ Len(c) = h + r
      /\ \A k \in 1 .. h : c[k] = a[k]
      /\ \A k \in h + 1 .. h + r : c[k] = b[k - h]
  <2>1. a \in Seq(Nodes) /\ b \in Seq(Nodes) /\ Len(a) = h /\ Len(b) = r
    BY <1>1, <1>2
  <2>2. Joins(a, b, h, r)
    BY <2>1, Joined
  <2> QED
    BY <2>2 DEF Joins
<1>4. Abs!Without(s, i, j) = c /\ h + r = n - (j - i + 1)
  BY DEF Abs!Without
<1>5. ASSUME NEW k \in 1 .. n - (j - i + 1)
      PROVE  c[k] = IF k < i THEN s[k] ELSE s[k + (j - i + 1)]
  <2>1. CASE k < i
    BY <1>1, <1>3, <1>4, <2>1
  <2>2. CASE ~(k < i)
    <3>1. k \in h + 1 .. h + r /\ k - h \in 1 .. r /\ (k - h) + j = k + (j - i + 1)
      BY <1>4, <2>2
    <3>2. c[k] = b[k - h] /\ b[k - h] = s[(k - h) + j]
      BY <1>2, <1>3, <3>1
    <3> QED
      BY <2>2, <3>1, <3>2
  <2> QED
    BY <2>1, <2>2
<1> QED
  BY <1>3, <1>4, <1>5

(* Elements i .. j leave the list when what was in front of them leads to *)
(* what was behind them.                                                  *)
LEMMA CutLeads ==
  ASSUME NEW next, NEW after, NEW l, NEW s \in Seq(Nodes),
         NEW i \in 1 .. Len(s), NEW j \in i .. Len(s), Leads(next, l, s),
         after[Place(s, l, i - 1)] = Place(s, l, j + 1),
         \A a \in 0 .. Len(s) :
           a < i - 1 \/ a > j => after[Place(s, l, a)] = next[Place(s, l, a)]
  PROVE  Leads(after, l, Abs!Without(s, i, j))
<1> PICK n \in Nat : n = Len(s)
  OBVIOUS
<1>1. j - i + 1 \in 1 .. n
  OBVIOUS
<1> PICK c \in 1 .. n : c = j - i + 1
  BY <1>1
<1> PICK r : r = Abs!Without(s, i, j)
  OBVIOUS
<1>2. /\ r \in Seq(Nodes) /\ Len(r) = n - c
      /\ \A k \in 1 .. n - c : r[k] = IF k < i THEN s[k] ELSE s[k + c]
  BY WithoutFacts
<1>3. \A k \in 0 .. n - c + 1 : Place(r, l, k) = IF k < i THEN Place(s, l, k) ELSE Place(s, l, k + c)
  BY <1>2 DEF Place
<1>4. ASSUME NEW k \in 0 .. n - c PROVE after[Place(r, l, k)] = Place(r, l, k + 1)
  <2>1. \A a \in 0 .. n : next[Place(s, l, a)] = Place(s, l, a + 1)
    BY DEF Leads
  <2>2. CASE k < i - 1
    <3>1. /\ k \in 0 .. n /\ k < i /\ k + 1 < i
          /\ k \in 0 .. n - c + 1 /\ k + 1 \in 0 .. n - c + 1
      BY <2>2
    <3>2. Place(r, l, k) = Place(s, l, k) /\ Place(r, l, k + 1) = Place(s, l, k + 1)
      BY <1>3, <3>1
    <3> QED
      BY <2>1, <2>2, <3>1, <3>2
  <2>3. CASE k = i - 1
    <3>1. /\ k < i /\ ~(k + 1 < i) /\ (k + 1) + c = j + 1
          /\ k \in 0 .. n - c + 1 /\ k + 1 \in 0 .. n - c + 1
      BY <2>3
    <3>2. Place(r, l, k) = Place(s, l, i - 1) /\ Place(r, l, k + 1) = Place(s, l, j + 1)
      BY <1>3, <2>3, <3>1
    <3> QED
      BY <3>2
  <2>4. CASE k > i - 1
    <3>1. /\ ~(k < i) /\ ~(k + 1 < i) /\ k + c > j /\ k + c \in 0 .. n
          /\ (k + 1) + c = (k + c) + 1
          /\ k \in 0 .. n - c + 1 /\ k + 1 \in 0 .. n - c + 1
      BY <2>4
    <3>2. Place(r, l, k) = Place(s, l, k + c) /\ Place(r, l, k + 1) = Place(s, l, (k + c) + 1)
      BY <1>3, <3>1
    <3> QED
      BY <2>1, <3>1, <3>2
  <2> QED
    BY <2>2, <2>3, <2>4
<1> QED
  BY <1>2, <1>4 DEF Leads

(* A chain of nodes becomes part of the list when what was in front of     *)
(* element k leads to it and its last node leads to element k.             *)
Chained(next, after, l, s, t, k) ==
  /\ s \in Seq(Nodes) /\ t \in Seq(Nodes) /\ k \in 1 .. Len(s) + 1
  /\ Leads(next, l, s) /\ Len(t) # 0
  /\ after[Place(s, l, k - 1)] = t[1] /\ after[t[Len(t)]] = Place(s, l, k)
  /\ \A a \in 1 .. Len(t) - 1 : after[t[a]] = t[a + 1]
  /\ \A a \in 0 .. Len(s) : a # k - 1 => after[Place(s, l, a)] = next[Place(s, l, a)]

LEMMA PasteLeads ==
  ASSUME NEW next, NEW after, NEW l, NEW s, NEW t, NEW k, Chained(next, after, l, s, t, k)
  PROVE  Leads(after, l, Abs!With(s, k, t))
<1>1. /\ s \in Seq(Nodes) /\ t \in Seq(Nodes) /\ k \in 1 .. Len(s) + 1
      /\ Leads(next, l, s) /\ Len(t) # 0
      /\ after[Place(s, l, k - 1)] = t[1] /\ after[t[Len(t)]] = Place(s, l, k)
      /\ \A a \in 1 .. Len(t) - 1 : after[t[a]] = t[a + 1]
      /\ \A a \in 0 .. Len(s) : a # k - 1 => after[Place(s, l, a)] = next[Place(s, l, a)]
  BY DEF Chained
<1> s \in Seq(Nodes) /\ t \in Seq(Nodes) /\ k \in 1 .. Len(s) + 1
  BY <1>1
<1> PICK n \in Nat, c \in Nat : n = Len(s) /\ c = Len(t)
  BY <1>1
<1> k \in 1 .. n + 1 /\ c # 0
  BY <1>1
<1> PICK r : r = Abs!With(s, k, t)
  OBVIOUS
<1>2. /\ r \in Seq(Nodes) /\ Len(r) = n + c
      /\ \A i \in 1 .. n + c : r[i] = IF i < k THEN s[i]
                                      ELSE IF i < k + c THEN t[i - k + 1] ELSE s[i - c]
  BY <1>1, WithFacts
<1>3. \A i \in 0 .. n + c + 1 : Place(r, l, i) = IF i < k THEN Place(s, l, i)
                                      ELSE IF i < k + c THEN t[i - k + 1] ELSE Place(s, l, i - c)
  BY <1>2 DEF Place
<1>4. ASSUME NEW i \in 0 .. n + c PROVE after[Place(r, l, i)] = Place(r, l, i + 1)
  <2>1. \A a \in 0 .. n : next[Place(s, l, a)] = Place(s, l, a + 1)
    BY <1>1 DEF Leads
  <2>2. CASE i < k - 1
    <3>1. /\ i \in 0 .. n /\ i # k - 1 /\ i < k /\ i + 1 < k
          /\ i \in 0 .. n + c + 1 /\ i + 1 \in 0 .. n + c + 1
      BY <2>2
    <3>2. Place(r, l, i) = Place(s, l, i) /\ Place(r, l, i + 1) = Place(s, l, i + 1)
      BY <1>3, <3>1
    <3> QED
      BY <1>1, <2>1, <3>1, <3>2
  <2>3. CASE i = k - 1
    <3>1. /\ i < k /\ ~(i + 1 < k) /\ i + 1 < k + c /\ (i + 1) - k + 1 = 1
          /\ i \in 0 .. n + c + 1 /\ i + 1 \in 0 .. n + c + 1
      BY <2>3
    <3>2. Place(r, l, i) = Place(s, l, k - 1) /\ Place(r, l, i + 1) = t[1]
      BY <1>3, <2>3, <3>1
    <3> QED
      BY <1>1, <3>2
  <2>4. CASE i > k - 1 /\ i < k + c - 1
    <3>1. /\ ~(i < k) /\ i < k + c /\ ~(i + 1 < k) /\ i + 1 < k + c
          /\ i - k + 1 \in 1 .. c - 1 /\ (i + 1) - k + 1 = (i - k + 1) + 1
          /\ i \in 0 .. n + c + 1 /\ i + 1 \in 0 .. n + c + 1
      BY <2>4
    <3>2. Place(r, l, i) = t[i - k + 1] /\ Place(r, l, i + 1) = t[(i - k + 1) + 1]
      BY <1>3, <3>1
    <3> QED
      BY <1>1, <3>1, <3>2
  <2>5. CASE i = k + c - 1
    <3>1. /\ ~(i < k) /\ i < k + c /\ ~(i + 1 < k) /\ ~(i + 1 < k + c)
          /\ i - k + 1 = c /\ (i + 1) - c = k
          /\ i \in 0 .. n + c + 1 /\ i + 1 \in 0 .. n + c + 1
      BY <2>5
    <3>2. Place(r, l, i) = t[c] /\ Place(r, l, i + 1) = Place(s, l, k)
      BY <1>3, <3>1
    <3> QED
      BY <1>1, <3>2
  <2>6. CASE i > k + c - 1
    <3>1. /\ ~(i < k) /\ ~(i < k + c) /\ ~(i + 1 < k) /\ ~(i + 1 < k + c)
          /\ i - c \in 0 .. n /\ i - c # k - 1 /\ (i + 1) - c = (i - c) + 1
          /\ i \in 0 .. n + c + 1 /\ i + 1 \in 0 .. n + c + 1
      BY <2>6
    <3>2. Place(r, l, i) = Place(s, l, i - c) /\ Place(r, l, i + 1) = Place(s, l, (i - c) + 1)
      BY <1>3, <3>1
    <3> QED
      BY <1>1, <2>1, <3>1, <3>2
  <2>7. i < k - 1 \/ i = k - 1 \/ (i > k - 1 /\ i < k + c - 1) \/ i = k + c - 1 \/ i > k + c - 1
    <3>1. i < k - 1 \/ i = k - 1 \/ i > k - 1
      OBVIOUS
    <3>2. i < k + c - 1 \/ i = k + c - 1 \/ i > k + c - 1
      <4>1. k + c - 1 \in Int
        OBVIOUS
      <4> PICK e \in Int : e = k + c - 1
        BY <4>1
      <4>2. i \in Int
        OBVIOUS
      <4>3. \A x, y \in Int : x < y \/ x = y \/ x > y
        OBVIOUS
      <4>4. i < e \/ i = e \/ i > e
        BY <4>2, <4>3, Zenon
      <4> QED
        BY <4>4
    <3> QED
      BY <1>1, <3>1, <3>2
  <2> QED
    BY <2>2, <2>3, <2>4, <2>5, <2>6, <2>7
<1> QED
  BY <1>2, <1>4 DEF Leads

(* The links determine the sequence: it is what Contents finds. *)
LEMMA Determined ==
  \A w, l, s : Good /\ Labels(w, m_next) /\ l \in Lists /\ Leads(m_next, l, s)
                 => Contents(l) = s
<1> SUFFICES ASSUME NEW w, NEW l, NEW s, Good, Labels(w, m_next), l \in Lists,
                    Leads(m_next, l, s)
             PROVE  Contents(l) = s
  OBVIOUS
<1>1. /\ s \in Seq(Nodes)
      /\ \A i \in 0 .. Len(s) : m_next[Place(s, l, i)] = Place(s, l, i + 1)
  BY DEF Leads
<1> PICK n \in Nat : n = Len(s)
  BY <1>1
<1>2. Ahead(l, 0) = l /\ \A k \in Nat : Ahead(l, k + 1) = m_next[Ahead(l, k)]
  BY WalkFacts
<1> DEFINE K == {k \in 0 .. n + 1 : Ahead(l, k) = Place(s, l, k)}
<1>3. 0 \in K
  BY <1>2 DEF Place
<1>4. ASSUME NEW k \in 1 .. n + 1, k - 1 \in K PROVE k \in K
  <2>1. k - 1 \in 0 .. n /\ (k - 1) + 1 = k /\ k - 1 \in Nat
    OBVIOUS
  <2>2. Ahead(l, k) = m_next[Ahead(l, k - 1)]
    BY <1>2, <2>1
  <2>3. m_next[Place(s, l, k - 1)] = Place(s, l, k)
    BY <1>1, <2>1
  <2> QED
    BY <1>4, <2>2, <2>3
<1>5. 0 .. n + 1 \subseteq K
  <2>1. n + 1 \in Nat
    OBVIOUS
  <2> HIDE DEF K
  <2> QED
    BY <1>3, <1>4, <2>1, BoundedInduction
<1>6. \A k \in 0 .. n + 1 : Ahead(l, k) = Place(s, l, k)
  BY <1>5
<1>7. Ahead(l, n + 1) = l /\ \A k \in 1 .. n : Ahead(l, k) = s[k] /\ s[k] \in Nodes
  BY <1>1, <1>6 DEF Place
<1>8. PICK m \in Nat : /\ m # 0 /\ Ahead(l, m) = l /\ Size(l) = m - 1
                       /\ \A k \in 1 .. m - 1 : Ahead(l, k) # l
  BY WholeWalk
<1>9. m = n + 1
  <2>1. ~(m < n + 1)
    BY <1>7, <1>8, ListAssumption
  <2>2. ~(n + 1 < m)
    <3>1. n + 1 < m => n + 1 \in 1 .. m - 1
      OBVIOUS
    <3> QED
      BY <1>7, <1>8, <3>1
  <2> QED
    BY <2>1, <2>2
<1>10. Contents(l) = [k \in 1 .. n |-> s[k]]
  BY <1>7, <1>8, <1>9 DEF Contents
<1> QED
  BY <1>1, <1>10

(* And Contents(l) is such a sequence. *)
LEMMA ContentsLead ==
  ASSUME Good, NEW w, Labels(w, m_next), NEW l \in Lists
  PROVE  Leads(m_next, l, Contents(l))
<1>1. PICK n \in Nat : /\ n # 0 /\ Ahead(l, n) = l /\ Size(l) = n - 1
                       /\ \A k \in 1 .. n - 1 : Ahead(l, k) # l
  BY WholeWalk
<1>2. /\ Ahead(l, 0) = l
      /\ \A k \in Nat : /\ Ahead(l, k) \in Objects /\ w[Ahead(l, k)] = l
                        /\ Ahead(l, k + 1) = m_next[Ahead(l, k)]
  BY WalkFacts
<1>3. \A k \in 1 .. n - 1 : Ahead(l, k) \in Nodes
  <2> SUFFICES ASSUME NEW k \in 1 .. n - 1 PROVE Ahead(l, k) \in Nodes
    OBVIOUS
  <2>1. Ahead(l, k) \in Objects /\ w[Ahead(l, k)] = l /\ Ahead(l, k) # l
    BY <1>1, <1>2
  <2> QED
    BY <2>1 DEF Objects, Labels
<1> PICK s : s = Contents(l)
  OBVIOUS
<1>4. s = [k \in 1 .. n - 1 |-> Ahead(l, k)]
  BY <1>1 DEF Contents
<1>5. s \in Seq(Nodes) /\ Len(s) = n - 1 /\ \A k \in 1 .. n - 1 : s[k] = Ahead(l, k)
  <2>1. n - 1 \in Nat
    BY <1>1
  <2> PICK m \in Nat : m = n - 1
    BY <2>1
  <2>2. s = [k \in 1 .. m |-> Ahead(l, k)] /\ \A k \in 1 .. m : Ahead(l, k) \in Nodes
    BY <1>3, <1>4
  <2>3. s \in Seq(Nodes) /\ Len(s) = m
    BY <2>2
  <2> QED
    BY <2>2, <2>3
<1>6. \A k \in 0 .. n : Place(s, l, k) = Ahead(l, k)
  <2> SUFFICES ASSUME NEW k \in 0 .. n PROVE Place(s, l, k) = Ahead(l, k)
    OBVIOUS
  <2>1. k \in 1 .. n - 1 \/ k = 0 \/ k = n
    OBVIOUS
  <2> QED
    BY <1>1, <1>2, <1>5, <2>1 DEF Place
<1>7. ASSUME NEW k \in 0 .. n - 1 PROVE m_next[Place(s, l, k)] = Place(s, l, k + 1)
  <2>1. k \in Nat /\ k \in 0 .. n /\ k + 1 \in 0 .. n
    BY <1>1
  <2> QED
    BY <1>2, <1>6, <2>1
<1> QED
  BY <1>5, <1>7 DEF Leads

AllContents == [l \in Lists |-> Contents(l)]

LEMMA NextLists ==
  ASSUME RingInv', NEW c, c \in [Lists -> Seq(Nodes)],
         \A l \in Lists : Leads(m_next', l, c[l])
  PROVE  AllContents' = c
<1>1. (\A w, l, s : Good /\ Labels(w, m_next) /\ l \in Lists /\ Leads(m_next, l, s)
                      => Contents(l) = s)'
  BY Determined, PTL
<1>2. PICK w : Labels(w, m_next')
  BY DEF RingInv, IInv
<1>3. Good'
  BY DEF RingInv, IInv, TypeOK, Good, LinkType
<1>4. \A l \in Lists : Contents(l)' = c[l]
  BY <1>1, <1>2, <1>3
<1> QED
  BY <1>4 DEF AllContents

(* Where the nodes are: the lists share none, and none is linked elsewhere. *)
LEMMA ListsFacts ==
  ASSUME RingInv
  PROVE  \E w : /\ Labels(w, m_next)
                /\ \A l \in Lists :
                     LET s == Contents(l)
                     IN /\ s \in Seq(Nodes) /\ Leads(m_next, l, s)
                        /\ \A i, j \in 0 .. Len(s) : Place(s, l, i) = Place(s, l, j) => i = j
                        /\ \A i \in 0 .. Len(s) :
                             /\ Place(s, l, i) \in Objects /\ Linked(Place(s, l, i))
                             /\ w[Place(s, l, i)] = l
                             /\ m_prev[Place(s, l, i + 1)] = Place(s, l, i)
                /\ \A o \in Objects :
                     Linked(o) => /\ w[o] \in Lists
                                  /\ \E i \in 0 .. Len(Contents(w[o])) :
                                       o = Place(Contents(w[o]), w[o], i)
<1>1. Good /\ NoRing(m_next)
  BY DEF RingInv, IInv, TypeOK, Good, LinkType
<1>2. PICK w : Labels(w, m_next)
  BY DEF RingInv, IInv
<1>3. ASSUME NEW l \in Lists, NEW s, s = Contents(l)
      PROVE  /\ s \in Seq(Nodes) /\ Leads(m_next, l, s)
             /\ \A i, j \in 0 .. Len(s) : Place(s, l, i) = Place(s, l, j) => i = j
             /\ \A i \in 0 .. Len(s) :
                  /\ Place(s, l, i) \in Objects /\ Linked(Place(s, l, i))
                  /\ w[Place(s, l, i)] = l
                  /\ m_prev[Place(s, l, i + 1)] = Place(s, l, i)
  <2>1. s \in Seq(Nodes) /\ Leads(m_next, l, s)
    BY <1>1, <1>2, <1>3, ContentsLead DEF Leads
  <2> PICK n \in Nat : n = Len(s)
    BY <2>1
  <2>2. /\ \A i, j \in DOMAIN s : i # j => s[i] # s[j]
        /\ \A b \in Nodes : (\E i \in DOMAIN s : s[i] = b) <=> Linked(b) /\ w[b] = l
    BY <1>1, <1>2, <1>3, ContentsFacts
  <2>3. DOMAIN s = 1 .. n /\ \A i \in 1 .. n : s[i] \in Nodes
    BY <2>1
  <2>4. l \notin Nodes /\ l \in Objects /\ Linked(l) /\ w[l] = l /\ \A b \in Nodes : b \in Objects
    BY <1>1, <1>2, ListAssumption DEF Objects, Good, LinksInverse, Labels, Linked
  <2>5. \A i \in 0 .. n : IF i \in 1 .. n THEN Place(s, l, i) = s[i] ELSE i = 0 /\ Place(s, l, i) = l
    BY DEF Place
  <2>6. \A i, j \in 0 .. n : Place(s, l, i) = Place(s, l, j) => i = j
    BY <2>2, <2>3, <2>4, <2>5
  <2>7. \A i \in 0 .. n : /\ Place(s, l, i) \in Objects /\ Linked(Place(s, l, i))
                          /\ w[Place(s, l, i)] = l
    BY <2>2, <2>3, <2>4, <2>5
  <2>8. \A i \in 0 .. n : m_prev[Place(s, l, i + 1)] = Place(s, l, i)
    <3> SUFFICES ASSUME NEW i \in 0 .. n PROVE m_prev[Place(s, l, i + 1)] = Place(s, l, i)
      OBVIOUS
    <3>1. m_next[Place(s, l, i)] = Place(s, l, i + 1)
      BY <2>1 DEF Leads
    <3> QED
      BY <1>1, <2>7, <3>1 DEF Good, LinksInverse, Linked
  <2> QED
    BY <2>1, <2>6, <2>7, <2>8
<1>4. ASSUME NEW o \in Objects, Linked(o)
      PROVE  /\ w[o] \in Lists
             /\ \E i \in 0 .. Len(Contents(w[o])) : o = Place(Contents(w[o]), w[o], i)
  <2>1. w[o] \in Lists
    <3> PICK R \in SUBSET Nodes : R = {b \in Nodes : Linked(b) /\ w[b] = Null}
      OBVIOUS
    <3>1. ASSUME NEW b \in R PROVE m_next[b] \in R
      <4>1. b \in Objects /\ Linked(b) /\ w[b] = Null /\ Null \notin Lists
        BY ListAssumption DEF Objects
      <4>2. m_next[b] \in Objects /\ Linked(m_next[b]) /\ w[m_next[b]] = Null
        BY <1>1, <1>2, <4>1, NullIsNoObject DEF Good, LinksInverse, Linked, Labels
      <4> QED
        BY <1>2, <4>1, <4>2 DEF Objects, Labels
    <3>2. R = {}
      BY <1>1, <3>1 DEF NoRing
    <3> QED
      BY <1>2, <1>4, <3>2, ListAssumption DEF Labels, Objects
  <2> PICK l \in Lists : l = w[o]
    BY <2>1
  <2> PICK s : s = Contents(l)
    OBVIOUS
  <2>2. s \in Seq(Nodes)
    BY <1>3
  <2>3. CASE o \in Lists
    <3>1. o = l /\ 0 \in 0 .. Len(s) /\ Place(s, l, 0) = l
      BY <1>2, <2>2, <2>3 DEF Labels, Place
    <3> QED
      BY <3>1
  <2>4. CASE o \in Nodes
    <3>1. \E i \in DOMAIN s : s[i] = o
      BY <1>1, <1>2, <1>4, <2>4, ContentsFacts
    <3>2. PICK i \in 1 .. Len(s) : s[i] = o
      BY <2>2, <3>1
    <3>3. i \in 0 .. Len(s) /\ Place(s, l, i) = o
      BY <2>2, <3>2 DEF Place
    <3> QED
      BY <3>3
  <2> QED
    BY <2>3, <2>4 DEF Objects
<1> QED
  BY <1>2, <1>3, <1>4

\* The w that ListsFacts speaks of.
Owners(w) ==
  /\ Labels(w, m_next)
  /\ \A l \in Lists :
       LET s == Contents(l)
       IN /\ s \in Seq(Nodes) /\ Leads(m_next, l, s)
          /\ \A i, j \in 0 .. Len(s) : Place(s, l, i) = Place(s, l, j) => i = j
          /\ \A i \in 0 .. Len(s) :
               /\ Place(s, l, i) \in Objects /\ Linked(Place(s, l, i))
               /\ w[Place(s, l, i)] = l
               /\ m_prev[Place(s, l, i + 1)] = Place(s, l, i)
  /\ \A o \in Objects :
       Linked(o) => /\ w[o] \in Lists
                    /\ \E i \in 0 .. Len(Contents(w[o])) :
                         o = Place(Contents(w[o]), w[o], i)

(* A linked object is a position of its list: of an element, or the end. *)
LEMMA Position ==
  ASSUME NEW w, Owners(w), NEW o \in Objects, Linked(o)
  PROVE  \E l \in Lists : \E k \in 1 .. Len(Contents(l)) + 1 :
           /\ l = w[o] /\ o = Place(Contents(l), l, k)
           /\ m_prev[o] = Place(Contents(l), l, k - 1)
           /\ o \in Nodes => k \in 1 .. Len(Contents(l))
<1> PICK l \in Lists : l = w[o]
  BY DEF Owners
<1> PICK s : s = Contents(l)
  OBVIOUS
<1>1. s \in Seq(Nodes) /\ \E i \in 0 .. Len(s) : o = Place(s, l, i)
  BY DEF Owners
<1> PICK i \in 0 .. Len(s) : o = Place(s, l, i)
  BY <1>1
<1>2. \E k \in 1 .. Len(s) + 1 : o = Place(s, l, k) /\ (o \in Nodes => k \in 1 .. Len(s))
  <2>1. CASE i = 0
    <3>1. o = l /\ Place(s, l, Len(s) + 1) = l /\ Len(s) + 1 \in 1 .. Len(s) + 1
      BY <1>1, <2>1, PlaceFacts
    <3> QED
      BY <3>1, ListAssumption
  <2>2. CASE i # 0
    <3>1. i \in 1 .. Len(s) /\ i \in 1 .. Len(s) + 1
      BY <1>1, <2>2
    <3> QED
      BY <3>1
  <2> QED
    BY <2>1, <2>2
<1> PICK k \in 1 .. Len(s) + 1 : o = Place(s, l, k) /\ (o \in Nodes => k \in 1 .. Len(s))
  BY <1>2
<1>3. k - 1 \in 0 .. Len(s) /\ (k - 1) + 1 = k
  BY <1>1
<1>4. m_prev[Place(s, l, (k - 1) + 1)] = Place(s, l, k - 1)
  BY <1>3 DEF Owners
<1> QED
  BY <1>3, <1>4

(* insert is an insertion in front of the element the iterator points to. *)
LEMMA InsertImplements ==
  ASSUME RingInv, RingInv', NEW pos \in Objects, NEW node \in Nodes, Insert(pos, node)
  PROVE  Abs!Next
<1>1. /\ Linked(pos) /\ ~Linked(node) /\ Good
      /\ m_next' = [m_next EXCEPT ![m_prev[pos]] = node, ![node] = pos]
  BY DEF Insert, SetLinks, AfterInsert, RingInv, IInv, TypeOK, Good, LinkType
<1>2. PICK w : Owners(w)
  BY ListsFacts DEF Owners
<1>3. PICK l \in Lists : \E k \in 1 .. Len(Contents(l)) + 1 :
           /\ l = w[pos] /\ pos = Place(Contents(l), l, k)
           /\ m_prev[pos] = Place(Contents(l), l, k - 1)
  BY <1>1, <1>2, Position
<1> PICK s, prev : s = Contents(l) /\ prev = m_prev[pos]
  OBVIOUS
<1>4. PICK k \in 1 .. Len(s) + 1 : pos = Place(s, l, k) /\ prev = Place(s, l, k - 1)
  BY <1>3
<1>5. /\ s \in Seq(Nodes) /\ Leads(m_next, l, s)
      /\ \A i, j \in 0 .. Len(s) : Place(s, l, i) = Place(s, l, j) => i = j
      /\ \A i \in 0 .. Len(s) : Place(s, l, i) \in Objects /\ Linked(Place(s, l, i))
  BY <1>2 DEF Owners
<1>6. k - 1 \in 0 .. Len(s)
  BY <1>5
<1>7. prev \in Objects /\ prev # node /\ w[prev] = l
  BY <1>1, <1>2, <1>4, <1>6 DEF Owners
<1>8. \A o \in Objects : m_next'[o] = IF o = node THEN pos
                                      ELSE IF o = prev THEN node ELSE m_next[o]
  BY <1>1, <1>7 DEF Good, LinkType, Objects
<1> PICK t : t = <<node>>
  OBVIOUS
<1>9. t \in Seq(Nodes) /\ Len(t) = 1 /\ t[1] = node
  OBVIOUS
<1> PICK c : c = [AllContents EXCEPT ![l] = Abs!With(s, k, t)]
  OBVIOUS
<1>10. Abs!With(s, k, t) \in Seq(Nodes)
  BY <1>5, <1>9, WithFacts
<1>11. c \in [Lists -> Seq(Nodes)]
  BY <1>2, <1>10 DEF AllContents, Owners
<1>12. Leads(m_next', l, Abs!With(s, k, t))
  <2>1. m_next'[Place(s, l, k - 1)] = t[1] /\ m_next'[t[Len(t)]] = Place(s, l, k)
    BY <1>4, <1>7, <1>8, <1>9 DEF Objects
  <2>2. \A a \in 1 .. Len(t) - 1 : m_next'[t[a]] = t[a + 1]
    BY <1>9
  <2>3. \A a \in 0 .. Len(s) : a # k - 1 => m_next'[Place(s, l, a)] = m_next[Place(s, l, a)]
    BY <1>1, <1>4, <1>5, <1>6, <1>8
  <2>4. Len(t) # 0
    BY <1>9
  <2> QED
    BY <1>5, <1>9, <2>1, <2>2, <2>3, <2>4, PasteLeads DEF Chained
<1>13. ASSUME NEW m \in Lists, m # l PROVE Leads(m_next', m, Contents(m))
  <2>1. /\ Contents(m) \in Seq(Nodes) /\ Leads(m_next, m, Contents(m))
        /\ \A i \in 0 .. Len(Contents(m)) :
             LET o == Place(Contents(m), m, i) IN o \in Objects /\ Linked(o) /\ w[o] = m
    BY <1>2 DEF Owners
  <2>2. \A i \in 0 .. Len(Contents(m)) :
          m_next'[Place(Contents(m), m, i)] = m_next[Place(Contents(m), m, i)]
    BY <1>1, <1>7, <1>8, <1>13, <2>1
  <2> QED
    BY <2>1, <2>2 DEF Leads
<1>14. AllContents' = c
  <2>1. \A m \in Lists : Leads(m_next', m, c[m])
    BY <1>12, <1>13 DEF AllContents
  <2> QED
    BY <1>11, <2>1, NextLists
<1>15. node \notin Abs!Owned
  <2> SUFFICES ASSUME NEW m \in Lists, NEW i \in DOMAIN Contents(m), Contents(m)[i] = node
               PROVE  FALSE
    BY DEF Abs!Owned
  <2>1. Contents(m) \in Seq(Nodes)
    BY <1>2 DEF Owners
  <2>2. i \in 0 .. Len(Contents(m)) /\ Place(Contents(m), m, i) = node
    BY <2>1 DEF Place
  <2>3. Linked(node)
    BY <1>2, <2>2 DEF Owners
  <2> QED
    BY <1>1, <2>3
<1>16. Abs!Insert(l, k, node)
  BY <1>14, <1>15 DEF Abs!Insert, AllContents
<1> QED
  BY <1>16 DEF Abs!Next, AllContents

(* erase of an iterator, and each turn of erase(first, last). *)
LEMMA RemoveImplements ==
  ASSUME RingInv, RingInv', NEW node \in Nodes, Linked(node), SetLinks(AfterRemove(node))
  PROVE  Abs!Next
<1>1. /\ Good /\ node \in Objects
      /\ m_next' = [m_next EXCEPT ![m_prev[node]] = m_next[node], ![node] = Null]
  BY DEF SetLinks, AfterRemove, RingInv, IInv, TypeOK, Good, LinkType, Objects
<1>2. PICK w : Owners(w)
  BY ListsFacts DEF Owners
<1>3. PICK l \in Lists : \E k \in 1 .. Len(Contents(l)) + 1 :
           /\ l = w[node] /\ node = Place(Contents(l), l, k)
           /\ m_prev[node] = Place(Contents(l), l, k - 1)
           /\ k \in 1 .. Len(Contents(l))
  BY <1>1, <1>2, Position
<1> PICK s, prev : s = Contents(l) /\ prev = m_prev[node]
  OBVIOUS
<1>4. PICK k \in 1 .. Len(s) : node = Place(s, l, k) /\ prev = Place(s, l, k - 1)
  BY <1>3
<1>5. /\ s \in Seq(Nodes) /\ Leads(m_next, l, s)
      /\ \A i, j \in 0 .. Len(s) : Place(s, l, i) = Place(s, l, j) => i = j
      /\ \A i \in 0 .. Len(s) : Place(s, l, i) \in Objects
  BY <1>2 DEF Owners
<1>6. k - 1 \in 0 .. Len(s) /\ k \in 0 .. Len(s) /\ k - 1 # k /\ k \in k .. Len(s)
  BY <1>5
<1>7. prev \in Objects /\ prev # node /\ w[prev] = l /\ w[node] = l
  BY <1>2, <1>4, <1>5, <1>6 DEF Owners
<1>8. \A o \in Objects : m_next'[o] = IF o = node THEN Null
                                      ELSE IF o = prev THEN m_next[node] ELSE m_next[o]
  BY <1>1, <1>7 DEF Good, LinkType
<1> PICK c : c = [AllContents EXCEPT ![l] = Abs!Without(s, k, k)]
  OBVIOUS
<1>9. Abs!Without(s, k, k) \in Seq(Nodes)
  BY <1>5, <1>6, WithoutFacts
<1>10. c \in [Lists -> Seq(Nodes)]
  BY <1>2, <1>9 DEF AllContents, Owners
<1>11. Leads(m_next', l, Abs!Without(s, k, k))
  <2>1. m_next'[Place(s, l, k - 1)] = Place(s, l, k + 1)
    BY <1>1, <1>4, <1>5, <1>6, <1>7, <1>8 DEF Leads
  <2>2. \A a \in 0 .. Len(s) :
          a < k - 1 \/ a > k => m_next'[Place(s, l, a)] = m_next[Place(s, l, a)]
    <3> SUFFICES ASSUME NEW a \in 0 .. Len(s), a # k - 1, a # k
                 PROVE  m_next'[Place(s, l, a)] = m_next[Place(s, l, a)]
      BY <1>5
    <3>1. Place(s, l, a) # node /\ Place(s, l, a) # prev /\ Place(s, l, a) \in Objects
      BY <1>4, <1>5, <1>6
    <3> QED
      BY <1>8, <3>1
  <2> QED
    BY <1>5, <1>6, <2>1, <2>2, CutLeads
<1>12. ASSUME NEW m \in Lists, m # l PROVE Leads(m_next', m, Contents(m))
  <2>1. /\ Contents(m) \in Seq(Nodes) /\ Leads(m_next, m, Contents(m))
        /\ \A i \in 0 .. Len(Contents(m)) :
             LET o == Place(Contents(m), m, i) IN o \in Objects /\ w[o] = m
    BY <1>2 DEF Owners
  <2>2. \A i \in 0 .. Len(Contents(m)) :
          m_next'[Place(Contents(m), m, i)] = m_next[Place(Contents(m), m, i)]
    BY <1>7, <1>8, <1>12, <2>1
  <2> QED
    BY <2>1, <2>2 DEF Leads
<1>13. AllContents' = c
  <2>1. \A m \in Lists : Leads(m_next', m, c[m])
    BY <1>11, <1>12 DEF AllContents
  <2> QED
    BY <1>10, <2>1, NextLists
<1>14. Abs!Remove(l, k)
  BY <1>13 DEF Abs!Remove, AllContents
<1> QED
  BY <1>14 DEF Abs!Next, AllContents

(* A segment is a part of the list it starts in. *)
LEMMA SegmentPlaces ==
  ASSUME NEW w, Owners(w), NEW T \in SUBSET Nodes, NEW fst \in Objects, NEW lst \in Objects,
         IsSegment(T, fst, lst), fst # lst
  PROVE  \E l \in Lists : \E i \in 1 .. Len(Contents(l)) : \E j \in i .. Len(Contents(l)) :
           LET s == Contents(l)
           IN /\ l = w[fst] /\ fst = Place(s, l, i) /\ m_prev[fst] = Place(s, l, i - 1)
              /\ lst = Place(s, l, j + 1) /\ m_prev[lst] = Place(s, l, j)
              /\ \A k \in i .. j : Place(s, l, k) \in T
<1>1. /\ fst \in T /\ lst \notin T /\ Linked(fst) /\ fst \in Nodes
      /\ \A o \in T : m_next[o] \in T \cup {lst}
  BY DEF IsSegment
<1>2. PICK l \in Lists : \E k \in 1 .. Len(Contents(l)) + 1 :
           /\ l = w[fst] /\ fst = Place(Contents(l), l, k)
           /\ m_prev[fst] = Place(Contents(l), l, k - 1)
           /\ k \in 1 .. Len(Contents(l))
  BY <1>1, Position
<1> PICK s : s = Contents(l)
  OBVIOUS
<1>3. /\ s \in Seq(Nodes) /\ Leads(m_next, l, s)
      /\ \A i \in 0 .. Len(s) : m_prev[Place(s, l, i + 1)] = Place(s, l, i)
  BY DEF Owners
<1> PICK n \in Nat : n = Len(s)
  BY <1>3
<1>4. PICK i \in 1 .. n : fst = Place(s, l, i) /\ m_prev[fst] = Place(s, l, i - 1)
  BY <1>2
<1> DEFINE Out == {m \in Nat : m \in i .. n + 1 /\ Place(s, l, m) \notin T}
<1>5. Out \in SUBSET Nat /\ Out # {}
  <2>1. Place(s, l, n + 1) = l /\ l \notin T
    BY ListAssumption DEF Place
  <2>2. n + 1 \in Out
    BY <2>1
  <2> QED
    BY <2>2
<1>6. PICK e \in Out : \A m \in Out : e <= m
  <2> HIDE DEF Out
  <2> QED
    BY <1>5, LeastNumber
<1>7. e \in Nat /\ e \in i .. n + 1 /\ Place(s, l, e) \notin T
  OBVIOUS
<1>8. e # i
  BY <1>1, <1>4, <1>7
<1>9. \A m \in i .. e - 1 : Place(s, l, m) \in T
  <2> SUFFICES ASSUME NEW m \in i .. e - 1, Place(s, l, m) \notin T PROVE FALSE
    OBVIOUS
  <2>1. m \in Nat /\ m \in i .. n + 1 /\ ~(e <= m)
    BY <1>7
  <2>2. m \in Out
    BY <2>1
  <2> QED
    BY <1>6, <2>1, <2>2
<1> HIDE DEF Out
<1>10. e - 1 \in i .. n /\ (e - 1) + 1 = e /\ e - 1 \in 0 .. n /\ e - 1 \in i .. e - 1
  BY <1>7, <1>8
<1> PICK j \in i .. n : j = e - 1
  BY <1>10
<1>11. m_next[Place(s, l, j)] = Place(s, l, j + 1)
  BY <1>3, <1>10 DEF Leads
<1>12. Place(s, l, j + 1) = lst
  BY <1>1, <1>7, <1>9, <1>10, <1>11
<1>13. m_prev[lst] = Place(s, l, j)
  BY <1>3, <1>10, <1>12
<1> QED
  BY <1>2, <1>4, <1>9, <1>12, <1>13

(* The lists between the two halves of a move: the segment is out, and the *)
(* links pass it by.                                                       *)
LEMMA CutLists ==
  ASSUME Good, NEW w, Owners(w), NEW src \in Lists, NEW i \in 1 .. Len(Contents(src)),
         NEW j \in i .. Len(Contents(src)), NEW mid,
         \A o \in Objects : mid[o] = IF o = Place(Contents(src), src, i - 1)
                                     THEN Place(Contents(src), src, j + 1) ELSE m_next[o],
         NEW x \in Lists, NEW q,
         q = IF x = src THEN Abs!Without(Contents(src), i, j) ELSE Contents(x)
  PROVE  /\ q \in Seq(Nodes) /\ Leads(mid, x, q)
         /\ \A a, b \in 0 .. Len(q) : Place(q, x, a) = Place(q, x, b) => a = b
         /\ \A a \in 0 .. Len(q) : /\ Place(q, x, a) \in Objects /\ w[Place(q, x, a)] = x
                                   /\ Place(q, x, a) # Place(Contents(src), src, j)
<1> PICK s : s = Contents(src)
  OBVIOUS
<1>1. /\ s \in Seq(Nodes) /\ Leads(m_next, src, s)
      /\ \A a, b \in 0 .. Len(s) : Place(s, src, a) = Place(s, src, b) => a = b
      /\ \A a \in 0 .. Len(s) : Place(s, src, a) \in Objects /\ w[Place(s, src, a)] = src
  BY DEF Owners
<1> PICK n \in Nat : n = Len(s)
  BY <1>1
<1>2. i - 1 \in 0 .. n /\ j \in 0 .. n
  OBVIOUS
<1>3. CASE x = src
  <2>1. q = Abs!Without(s, i, j)
    BY <1>3
  <2>2. j - i + 1 \in 1 .. n
    OBVIOUS
  <2> PICK c \in 1 .. n : c = j - i + 1
    BY <2>2
  <2>3. /\ q \in Seq(Nodes) /\ Len(q) = n - c
        /\ \A k \in 1 .. n - c : q[k] = IF k < i THEN s[k] ELSE s[k + c]
    <3>1. s \in Seq(Nodes) /\ i \in 1 .. Len(s) /\ j \in i .. Len(s)
      BY <1>1
    <3>2. /\ Abs!Without(s, i, j) \in Seq(Nodes)
          /\ Len(Abs!Without(s, i, j)) = Len(s) - (j - i + 1)
          /\ \A k \in 1 .. Len(s) - (j - i + 1) :
               Abs!Without(s, i, j)[k] = IF k < i THEN s[k] ELSE s[k + (j - i + 1)]
      BY <3>1, WithoutFacts
    <3> QED
      BY <2>1, <3>2
  <2>4. \A k \in 0 .. n - c : LET m == IF k < i THEN k ELSE k + c
                              IN m \in 0 .. n /\ m \notin i .. j /\ Place(q, x, k) = Place(s, src, m)
    <3> SUFFICES ASSUME NEW k \in 0 .. n - c, NEW m, m = IF k < i THEN k ELSE k + c
                 PROVE  m \in 0 .. n /\ m \notin i .. j /\ Place(q, x, k) = Place(s, src, m)
      OBVIOUS
    <3>1. m \in 0 .. n /\ m \notin i .. j
      OBVIOUS
    <3>2. /\ k \in 1 .. n - c <=> m \in 1 .. n
          /\ k \in 1 .. n - c => q[k] = s[m]
      BY SMTT(30), <2>3
    <3> QED
      BY <1>3, <2>3, <3>1, <3>2 DEF Place
  <2>5. Leads(mid, src, q)
    <3>1. mid[Place(s, src, i - 1)] = Place(s, src, j + 1)
      BY <1>1, <1>2
    <3>2. \A a \in 0 .. n : a < i - 1 \/ a > j => mid[Place(s, src, a)] = m_next[Place(s, src, a)]
      <4> SUFFICES ASSUME NEW a \in 0 .. n, a # i - 1
                   PROVE  mid[Place(s, src, a)] = m_next[Place(s, src, a)]
        OBVIOUS
      <4> QED
        BY <1>1, <1>2
    <3> QED
      BY SMTT(30), <1>1, <2>1, <3>1, <3>2, CutLeads
  <2>6. \A a, b \in 0 .. n - c : Place(q, x, a) = Place(q, x, b) => a = b
    <3> SUFFICES ASSUME NEW a \in 0 .. n - c, NEW b \in 0 .. n - c, Place(q, x, a) = Place(q, x, b)
                 PROVE  a = b
      OBVIOUS
    <3> PICK f \in 0 .. n : f = IF a < i THEN a ELSE a + c
      BY <2>4
    <3> PICK g \in 0 .. n : g = IF b < i THEN b ELSE b + c
      BY <2>4
    <3>1. Place(s, src, f) = Place(s, src, g)
      BY <2>4
    <3>2. f = g
      BY <1>1, <3>1
    <3> QED
      BY <3>2
  <2>7. ASSUME NEW a \in 0 .. n - c
        PROVE  /\ Place(q, x, a) \in Objects /\ w[Place(q, x, a)] = x
               /\ Place(q, x, a) # Place(s, src, j)
    <3>1. PICK m \in 0 .. n : m \notin i .. j /\ Place(q, x, a) = Place(s, src, m)
      BY <2>4
    <3>2. m # j /\ j \in 0 .. n
      BY <3>1
    <3> QED
      BY <1>1, <1>3, <3>1, <3>2
  <2> QED
    BY <1>3, <2>3, <2>5, <2>6, <2>7
<1>4. CASE x # src
  <2>1. /\ q = Contents(x) /\ q \in Seq(Nodes) /\ Leads(m_next, x, q)
        /\ \A a, b \in 0 .. Len(q) : Place(q, x, a) = Place(q, x, b) => a = b
        /\ \A a \in 0 .. Len(q) : Place(q, x, a) \in Objects /\ w[Place(q, x, a)] = x
    BY <1>4 DEF Owners
  <2>2. w[Place(s, src, i - 1)] = src /\ w[Place(s, src, j)] = src
    BY <1>1, <1>2
  <2>3. \A a \in 0 .. Len(q) : /\ Place(q, x, a) # Place(s, src, j)
                               /\ mid[Place(q, x, a)] = m_next[Place(q, x, a)]
    BY <1>4, <2>1, <2>2
  <2> QED
    BY <2>1, <2>3 DEF Leads
<1> QED
  BY <1>3, <1>4

(* A position outside of what is taken out is one of what is left. *)
Remains(r, l, s, p) ==
  /\ Len(r) <= Len(s)
  /\ \E k \in 1 .. Len(r) + 1 : /\ Place(r, l, k) = Place(s, l, p)
                                /\ Place(r, l, k - 1) = Place(s, l, p - 1)

LEMMA Repositions ==
  ASSUME NEW s \in Seq(Nodes), NEW l, NEW i \in 1 .. Len(s), NEW j \in i .. Len(s),
         NEW p \in 1 .. Len(s) + 1, p \notin i .. j + 1, NEW r, r = Abs!Without(s, i, j)
  PROVE  Remains(r, l, s, p)
<1> PICK n \in Nat : n = Len(s)
  OBVIOUS
<1>1. j - i + 1 \in 1 .. n
  OBVIOUS
<1> PICK c \in 1 .. n : c = j - i + 1
  BY <1>1
<1>2. /\ Len(r) = n - c
      /\ \A k \in 1 .. n - c : r[k] = IF k < i THEN s[k] ELSE s[k + c]
  BY WithoutFacts
<1>3. ASSUME NEW k \in 0 .. n - c + 1, NEW m, m = IF k < i THEN k ELSE k + c
      PROVE  Place(r, l, k) = Place(s, l, m)
  <2>1. /\ k \in 1 .. n - c <=> m \in 1 .. n
        /\ k \in 1 .. n - c => r[k] = s[m]
    BY <1>2, <1>3
  <2> QED
    BY <1>2, <2>1 DEF Place
<1>4. CASE p < i
  <2>1. /\ p \in 1 .. Len(r) + 1 /\ p \in 0 .. n - c + 1 /\ p - 1 \in 0 .. n - c + 1
        /\ p - 1 < i
    BY <1>2, <1>4
  <2>2. Place(r, l, p) = Place(s, l, p) /\ Place(r, l, p - 1) = Place(s, l, p - 1)
    BY <1>3, <1>4, <2>1
  <2> QED
    BY <1>2, <2>1, <2>2 DEF Remains
<1>5. CASE ~(p < i)
  <2>1. p > j + 1
    BY <1>5
  <2> PICK k \in 1 .. n + 1 : k = p - c
    BY <2>1
  <2>2. /\ k \in 1 .. Len(r) + 1 /\ k \in 0 .. n - c + 1
        /\ k - 1 \in 0 .. n - c + 1 /\ ~(k < i) /\ ~(k - 1 < i)
        /\ k + c = p /\ (k - 1) + c = p - 1
    BY <1>2, <2>1
  <2>3. Place(r, l, k) = Place(s, l, p) /\ Place(r, l, k - 1) = Place(s, l, p - 1)
    BY ZenonT(30), <1>3, <2>2
  <2> QED
    BY <1>2, <2>2, <2>3 DEF Remains
<1> QED
  BY <1>4, <1>5

(* splice, and the splice at the end of a move assignment, move the nodes  *)
(* of the range in their order, or change nothing.                         *)
LEMMA MoveImplements ==
  ASSUME RingInv, RingInv', NEW T \in SUBSET Nodes, NEW pos \in Objects,
         NEW fst \in Objects, NEW lst \in Objects,
         IsSegment(T, fst, lst), pos \notin T, Linked(pos), SetLinks(AfterMove(pos, fst, lst))
  PROVE  Abs!Next \/ AllContents' = AllContents
<1>1. Good /\ m_next' = AfterMove(pos, fst, lst).next /\ Linked(fst) /\ Linked(lst)
  BY DEF SetLinks, RingInv, IInv, TypeOK, Good, LinkType, IsSegment
<1>2. PICK w : Owners(w)
  BY ListsFacts DEF Owners
<1>3. CASE lst = pos \/ fst = lst
  <2>1. m_next' = m_next
    BY <1>1, <1>3 DEF AfterMove
  <2>2. /\ AllContents \in [Lists -> Seq(Nodes)]
        /\ \A l \in Lists : Leads(m_next', l, AllContents[l])
    BY <1>2, <2>1 DEF Owners, AllContents
  <2> QED
    BY <2>2, NextLists
<1>4. CASE ~(lst = pos \/ fst = lst)
  <2>1. fst \in T /\ pos # fst
    BY <1>4 DEF IsSegment
  <2>0. fst # lst /\ Linked(pos)
    BY <1>4
  <2>a. PICK src \in Lists : \E i \in 1 .. Len(Contents(src)) : \E j \in i .. Len(Contents(src)) :
           /\ src = w[fst] /\ fst = Place(Contents(src), src, i)
           /\ m_prev[fst] = Place(Contents(src), src, i - 1)
           /\ lst = Place(Contents(src), src, j + 1)
           /\ m_prev[lst] = Place(Contents(src), src, j)
           /\ \A k \in i .. j : Place(Contents(src), src, k) \in T
    BY <1>2, <2>0, SegmentPlaces
  <2>b. PICK i \in 1 .. Len(Contents(src)) : \E j \in i .. Len(Contents(src)) :
           /\ src = w[fst] /\ fst = Place(Contents(src), src, i)
           /\ m_prev[fst] = Place(Contents(src), src, i - 1)
           /\ lst = Place(Contents(src), src, j + 1)
           /\ m_prev[lst] = Place(Contents(src), src, j)
           /\ \A k \in i .. j : Place(Contents(src), src, k) \in T
    BY <2>a
  <2>2. PICK j \in i .. Len(Contents(src)) :
           /\ src = w[fst] /\ fst = Place(Contents(src), src, i)
           /\ m_prev[fst] = Place(Contents(src), src, i - 1)
           /\ lst = Place(Contents(src), src, j + 1)
           /\ m_prev[lst] = Place(Contents(src), src, j)
           /\ \A k \in i .. j : Place(Contents(src), src, k) \in T
    BY <2>b
  <2> PICK s : s = Contents(src)
    OBVIOUS
  <2>3. /\ s \in Seq(Nodes) /\ Leads(m_next, src, s)
        /\ \A a, b \in 0 .. Len(s) : Place(s, src, a) = Place(s, src, b) => a = b
        /\ \A a \in 0 .. Len(s) : Place(s, src, a) \in Objects /\ w[Place(s, src, a)] = src
    BY <1>2 DEF Owners
  <2> PICK n \in Nat : n = Len(s)
    BY <2>3
  <2> PICK tail, rbegin, prev : tail = m_prev[lst] /\ rbegin = m_prev[fst] /\ prev = m_prev[pos]
    OBVIOUS
  <2>4. \A o \in Objects : m_next'[o] = IF o = tail THEN pos
                                        ELSE IF o = prev THEN fst
                                        ELSE IF o = rbegin THEN lst ELSE m_next[o]
    BY <1>1, <1>4, <2>1, MoveGood
  <2>5. PICK dst \in Lists : \E p \in 1 .. Len(Contents(dst)) + 1 :
           /\ dst = w[pos] /\ pos = Place(Contents(dst), dst, p)
           /\ m_prev[pos] = Place(Contents(dst), dst, p - 1)
    BY <1>2, <2>0, Position
  <2> PICK mid : mid = [o \in Objects |-> IF o = rbegin THEN lst ELSE m_next[o]]
    OBVIOUS
  <2>6. \A o \in Objects : mid[o] = IF o = Place(Contents(src), src, i - 1)
                                    THEN Place(Contents(src), src, j + 1) ELSE m_next[o]
    BY <2>2
  <2> PICK rest : rest = [AllContents EXCEPT ![src] = Abs!Without(s, i, j)]
    OBVIOUS
  <2>7. ASSUME NEW x \in Lists
        PROVE  /\ rest[x] = IF x = src THEN Abs!Without(Contents(src), i, j) ELSE Contents(x)
               /\ rest[x] \in Seq(Nodes) /\ Leads(mid, x, rest[x])
               /\ \A a, b \in 0 .. Len(rest[x]) : Place(rest[x], x, a) = Place(rest[x], x, b) => a = b
               /\ \A a \in 0 .. Len(rest[x]) : /\ Place(rest[x], x, a) \in Objects
                                               /\ w[Place(rest[x], x, a)] = x
                                               /\ Place(rest[x], x, a) # tail
    <3> PICK q : q = rest[x]
      OBVIOUS
    <3>1. q = IF x = src THEN Abs!Without(Contents(src), i, j) ELSE Contents(x)
      BY DEF AllContents
    <3>2. /\ q \in Seq(Nodes) /\ Leads(mid, x, q)
          /\ \A a, b \in 0 .. Len(q) : Place(q, x, a) = Place(q, x, b) => a = b
          /\ \A a \in 0 .. Len(q) : /\ Place(q, x, a) \in Objects /\ w[Place(q, x, a)] = x
                                    /\ Place(q, x, a) # Place(Contents(src), src, j)
      BY SMTT(30), <1>1, <1>2, <2>6, <3>1, CutLists
    <3> QED
      BY ZenonT(30), <2>2, <3>1, <3>2
  <2> PICK r : r = rest[dst]
    OBVIOUS
  <2>8. /\ r \in Seq(Nodes) /\ Leads(mid, dst, r)
        /\ \A a, b \in 0 .. Len(r) : Place(r, dst, a) = Place(r, dst, b) => a = b
        /\ \A a \in 0 .. Len(r) : /\ Place(r, dst, a) \in Objects /\ w[Place(r, dst, a)] = dst
                                  /\ Place(r, dst, a) # tail
    BY <2>7
  <2>9. Len(r) <= Len(Contents(dst)) /\ \E k \in 1 .. Len(r) + 1 :
          pos = Place(r, dst, k) /\ prev = Place(r, dst, k - 1)
    <3>1. PICK p \in 1 .. Len(Contents(dst)) + 1 :
             pos = Place(Contents(dst), dst, p) /\ prev = Place(Contents(dst), dst, p - 1)
      BY <2>5
    <3>2. CASE dst # src
      <4>1. r = Contents(dst)
        BY <3>2, <2>7
      <4> QED
        BY <2>8, <3>1, <4>1
    <3>3. CASE dst = src
      <4>1. /\ p \in 1 .. n + 1 /\ pos = Place(s, src, p) /\ prev = Place(s, src, p - 1)
            /\ i \in 1 .. n /\ j \in i .. n
        BY <3>1, <3>3
      <4>2. p \notin i .. j + 1
        <5>1. p \notin i .. j
          BY <2>2, <4>1
        <5>2. p # j + 1
          BY <1>4, <2>2, <4>1
        <5> QED
          BY <4>1, <5>1, <5>2
      <4>3. r = Abs!Without(s, i, j)
        BY <2>7, <3>3
      <4>4. s \in Seq(Nodes) /\ i \in 1 .. Len(s) /\ j \in i .. Len(s) /\ p \in 1 .. Len(s) + 1
        BY <2>3, <4>1
      <4>5. Remains(r, src, s, p)
        BY <4>2, <4>3, <4>4, Repositions
      <4> QED
        BY <3>3, <4>1, <4>5 DEF Remains
    <3> QED
      BY <3>2, <3>3
  <2> PICK k \in 1 .. Len(r) + 1 : pos = Place(r, dst, k) /\ prev = Place(r, dst, k - 1)
    BY <2>9
  <2> PICK t : t = SubSeq(s, i, j)
    OBVIOUS
  <2>10. /\ t \in Seq(Nodes) /\ Len(t) = j - i + 1 /\ Len(t) # 0
         /\ \A a \in 1 .. j - i + 1 : t[a] = Place(s, src, a + i - 1)
    <3>1. i \in 1 .. n /\ j \in i .. n
      OBVIOUS
    <3>2. /\ t \in Seq(Nodes) /\ Len(t) = j - i + 1
          /\ \A a \in 1 .. j - i + 1 : t[a] = s[a + i - 1]
      BY <2>3, <3>1
    <3>3. \A a \in 1 .. j - i + 1 : a + i - 1 \in 1 .. n
      BY <3>1
    <3> QED
      BY <3>1, <3>2, <3>3 DEF Place
  <2>11. w[tail] = src /\ w[rbegin] = src /\ w[prev] = dst /\ tail # prev /\ prev \in Objects
    <3>1. j \in 0 .. n /\ i - 1 \in 0 .. n /\ k - 1 \in 0 .. Len(r)
      BY <2>8
    <3>2. tail = Place(s, src, j) /\ rbegin = Place(s, src, i - 1)
      BY <2>2
    <3>3. w[tail] = src /\ w[rbegin] = src
      BY <2>3, <3>1, <3>2
    <3>4. w[prev] = dst /\ tail # prev /\ prev \in Objects
      BY <2>8, <3>1
    <3> QED
      BY <3>3, <3>4
  <2>12. Leads(m_next', dst, Abs!With(r, k, t))
    <3>1. m_next'[Place(r, dst, k - 1)] = t[1]
      <4>1. t[1] = fst
        <5>1. 1 \in 1 .. j - i + 1 /\ 1 + i - 1 = i
          OBVIOUS
        <5> QED
          BY <2>2, <2>10, <5>1
      <4> QED
        BY <2>4, <2>11, <4>1
    <3>2. m_next'[t[Len(t)]] = Place(r, dst, k)
      <4>1. t[Len(t)] = tail /\ tail \in Objects
        <5>1. j - i + 1 \in 1 .. j - i + 1 /\ (j - i + 1) + i - 1 = j /\ j \in 0 .. n
          OBVIOUS
        <5> QED
          BY ZenonT(30), <2>2, <2>3, <2>10, <5>1
      <4> QED
        BY <2>4, <4>1
    <3>3. ASSUME NEW a \in 1 .. Len(t) - 1 PROVE m_next'[t[a]] = t[a + 1]
      <4>1. PICK b \in 0 .. n : b = a + i - 1
        BY <2>10
      <4>2. /\ a \in 1 .. j - i + 1 /\ a + 1 \in 1 .. j - i + 1 /\ (a + 1) + i - 1 = b + 1
            /\ b \in i .. j /\ b # j /\ b # i - 1 /\ j \in 0 .. n /\ i - 1 \in 0 .. n
        BY <2>10, <4>1
      <4>3. t[a] = Place(s, src, b) /\ t[a + 1] = Place(s, src, b + 1)
        BY <2>10, <4>1, <4>2
      <4>4. Place(s, src, b) # tail /\ Place(s, src, b) # rbegin /\ Place(s, src, b) \in T
        <5>1. tail = Place(s, src, j) /\ rbegin = Place(s, src, i - 1)
          BY <2>2
        <5>2. Place(s, src, b) # tail /\ Place(s, src, b) # rbegin
          BY <2>3, <4>2, <5>1
        <5>3. Place(s, src, b) \in T
          BY <2>2, <4>2
        <5> QED
          BY <5>2, <5>3
      <4>5. prev \notin T
        <5>1. /\ \A o \in T : m_next[o] \in T \cup {lst}
              /\ m_next[prev] = pos
          BY <1>1, <1>4 DEF IsSegment, Good, LinksInverse, Linked
        <5> QED
          BY <1>4, <5>1
      <4>6. m_next[Place(s, src, b)] = Place(s, src, b + 1) /\ Place(s, src, b) \in Objects
        BY <2>3 DEF Leads
      <4> QED
        BY <2>4, <4>3, <4>4, <4>5, <4>6
    <3>4. ASSUME NEW a \in 0 .. Len(r), a # k - 1
          PROVE  m_next'[Place(r, dst, a)] = mid[Place(r, dst, a)]
      <4>1. k - 1 \in 0 .. Len(r)
        BY <2>8
      <4>2. Place(r, dst, a) # prev /\ Place(r, dst, a) # tail /\ Place(r, dst, a) \in Objects
        BY <2>8, <3>4, <4>1
      <4> QED
        BY <2>4, <4>2
    <3>5. \A a \in 1 .. Len(t) - 1 : m_next'[t[a]] = t[a + 1]
      BY <3>3
    <3>6. \A a \in 0 .. Len(r) : a # k - 1 => m_next'[Place(r, dst, a)] = mid[Place(r, dst, a)]
      BY <3>4
    <3> PICK after : after = m_next'
      OBVIOUS
    <3>7. Leads(after, dst, Abs!With(r, k, t))
      <4>1. after[Place(r, dst, k - 1)] = t[1] /\ after[t[Len(t)]] = Place(r, dst, k)
        BY <3>1, <3>2
      <4>2. \A a \in 1 .. Len(t) - 1 : after[t[a]] = t[a + 1]
        BY <3>5
      <4>3. \A a \in 0 .. Len(r) : a # k - 1 => after[Place(r, dst, a)] = mid[Place(r, dst, a)]
        BY <3>6
      <4>4. /\ r \in Seq(Nodes) /\ t \in Seq(Nodes) /\ k \in 1 .. Len(r) + 1
            /\ Leads(mid, dst, r) /\ Len(t) # 0
        BY <2>8, <2>10
      <4>5. Chained(mid, after, dst, r, t, k)
        BY <4>1, <4>2, <4>3, <4>4 DEF Chained
      <4> QED
        BY <4>5, PasteLeads
    <3> QED
      BY <3>7
  <2>13. ASSUME NEW x \in Lists, x # dst PROVE Leads(m_next', x, rest[x])
    <3> PICK q : q = rest[x]
      OBVIOUS
    <3>1. /\ q \in Seq(Nodes) /\ Leads(mid, x, q)
          /\ \A a \in 0 .. Len(q) : /\ Place(q, x, a) \in Objects /\ w[Place(q, x, a)] = x
                                    /\ Place(q, x, a) # tail
      BY <2>7
    <3>2. \A a \in 0 .. Len(q) : m_next'[Place(q, x, a)] = mid[Place(q, x, a)]
      BY <2>4, <2>11, <2>13, <3>1
    <3>3. Leads(m_next', x, q)
      BY ZenonT(30), <3>1, <3>2 DEF Leads
    <3> QED
      BY <3>3
  <2> PICK c : c = [rest EXCEPT ![dst] = Abs!With(r, k, t)]
    OBVIOUS
  <2>14. c \in [Lists -> Seq(Nodes)]
    <3>1. Abs!With(r, k, t) \in Seq(Nodes)
      BY <2>8, <2>10, WithFacts
    <3>2. rest \in [Lists -> Seq(Nodes)]
      BY <2>7 DEF AllContents
    <3> QED
      BY <3>1, <3>2
  <2>15. AllContents' = c
    <3>1. \A x \in Lists : c[x] = IF x = dst THEN Abs!With(r, k, t) ELSE rest[x]
      BY DEF AllContents
    <3>2. \A x \in Lists : Leads(m_next', x, c[x])
      BY <2>12, <2>13, <3>1
    <3> QED
      BY <2>14, <3>2, NextLists
  <2>16. Abs!Move(src, i, j, dst, k)
    <3>1. AllContents[src] = s
      BY DEF AllContents
    <3>2. k <= Len(rest[dst]) + 1
      BY <2>8
    <3> QED
      BY <2>15, <3>1, <3>2 DEF Abs!Move, AllContents
  <2>17. k \in 1 .. Len(Contents(dst)) + 1
    <3>1. Contents(dst) \in Seq(Nodes)
      BY <1>2 DEF Owners
    <3> PICK e \in Nat : e = Len(Contents(dst))
      BY <3>1
    <3> PICK f \in Nat : f = Len(r)
      BY <2>8
    <3>2. f <= e /\ k \in 1 .. f + 1
      BY <2>9
    <3>3. k \in 1 .. e + 1
      BY <3>2
    <3> QED
      BY <3>3
  <2> QED
    BY <2>16, <2>17 DEF Abs!Next, AllContents
<1> QED
  BY <1>3, <1>4

LEMMA InitImplements == Init => Abs!Init
<1> SUFFICES ASSUME Init PROVE Abs!Init
  OBVIOUS
<1>1. IInv /\ Good
  BY InitIInv DEF IInv, TypeOK, Good, LinkType
<1>2. PICK w : Labels(w, m_next)
  BY <1>1 DEF IInv
<1>3. ASSUME NEW l \in Lists PROVE Contents(l) = << >>
  <2>1. << >> \in Seq(Nodes) /\ Len(<< >>) = 0
    OBVIOUS
  <2>2. m_next[l] = l
    BY DEF Init, Objects
  <2>3. Leads(m_next, l, << >>)
    BY <2>1, <2>2 DEF Leads, Place
  <2> QED
    BY <1>1, <1>2, <2>3, Determined
<1> QED
  BY <1>3 DEF Abs!Init

LEMMA StepImplements == RingInv /\ RingInv' /\ [Next]_vars => [Abs!Next]_AllContents
<1> SUFFICES ASSUME RingInv, RingInv', [Next]_vars PROVE Abs!Next \/ AllContents' = AllContents
  BY DEF AllContents
<1>1. PICK w : Owners(w)
  BY ListsFacts DEF Owners
<1>2. Good /\ IInv /\ NoRing(m_next)
  BY DEF RingInv, IInv, TypeOK, Good, LinkType
<1>3. ASSUME UNCHANGED m_next PROVE AllContents' = AllContents
  <2>1. AllContents \in [Lists -> Seq(Nodes)]
    BY <1>1 DEF Owners, AllContents
  <2>2. \A l \in Lists : Leads(m_next', l, AllContents[l])
    BY <1>1, <1>3 DEF Owners, AllContents
  <2> QED
    BY <2>1, <2>2, NextLists
<1>4. ASSUME NEW pos \in Objects, NEW node \in Nodes, Insert(pos, node) PROVE Abs!Next
  BY <1>4, InsertImplements
<1>5. ASSUME NEW pos \in Nodes, Erase(pos) PROVE Abs!Next
  BY <1>5, RemoveImplements DEF Erase
<1>6. ASSUME NEW pos \in Objects, NEW fst \in Objects, NEW lst \in Objects, Splice(pos, fst, lst)
      PROVE  Abs!Next \/ AllContents' = AllContents
  <2>1. PICK T \in SUBSET Nodes : IsSegment(T, fst, lst) /\ pos \notin T
    BY <1>6 DEF Splice
  <2>2. Linked(pos) /\ SetLinks(AfterMove(pos, fst, lst))
    BY <1>6 DEF Splice
  <2> QED
    BY <2>1, <2>2, MoveImplements
<1>7. CASE EraseStep
  <2>1. PICK T \in SUBSET Nodes : IsSegment(T, first, last)
    BY <1>2, <1>7 DEF EraseStep, IInv, EraseIteratorValid, IsRange
  <2>2. first \in Nodes /\ Linked(first) /\ SetLinks(AfterRemove(first))
    BY <1>7, <2>1 DEF EraseStep, IsSegment
  <2> PICK node \in Nodes : node = first
    BY <2>2
  <2> QED
    BY <2>2, RemoveImplements
<1>8. CASE EraseDone
  <2>1. CASE other = Null
    BY <1>3, <1>8, <2>1 DEF EraseDone, links
  <2>2. CASE other # Null
    <3>1. /\ other \in Lists /\ other \in Objects /\ last \in Lists /\ last \in Objects
          /\ Linked(last) /\ SetLinks(AfterMove(last, m_next[other], other))
      BY <1>2, <1>8, <2>2, ListAssumption
      DEF EraseDone, IInv, TypeOK, Objects, Good, LinksInverse, Linked
    <3>2. m_next[other] \in Objects /\ \E T \in SUBSET Nodes : IsSegment(T, m_next[other], other)
      BY <1>1, <1>2, <3>1, WholeList DEF Owners
    <3> PICK pos \in Objects, fst \in Objects, lst \in Objects :
             pos = last /\ fst = m_next[other] /\ lst = other
      BY <3>1, <3>2
    <3>3. PICK T \in SUBSET Nodes : IsSegment(T, fst, lst)
      BY <3>2
    <3>4. pos \notin T /\ Linked(pos) /\ SetLinks(AfterMove(pos, fst, lst))
      BY <3>1, ListAssumption
    <3> QED
      BY <3>3, <3>4, MoveImplements
  <2> QED
    BY <2>1, <2>2
<1>9. CASE Next
  <2>1. ASSUME NEW fst, NEW lst, EraseRange(fst, lst) PROVE AllContents' = AllContents
    BY <1>3, <2>1 DEF EraseRange
  <2>2. ASSUME NEW l, NEW src, MoveAssign(l, src) PROVE AllContents' = AllContents
    BY <1>3, <2>2 DEF MoveAssign, links
  <2> QED
    BY <1>4, <1>5, <1>6, <1>7, <1>8, <1>9, <2>1, <2>2 DEF Next, Loop, Clear
<1>10. CASE UNCHANGED vars
  BY <1>3, <1>10 DEF vars
<1> QED
  BY <1>9, <1>10

(* The lists implement ListSpec (ImplementsListSpec): read along the links, *)
(* they change as sequences that own their nodes do, by an insertion, a     *)
(* removal or a move of a range, and as long as an erase of a range or a    *)
(* move assignment runs, by one of these at a time.                         *)
THEOREM Refinement == Spec => ImplementsListSpec
<1>1. RingInv /\ RingInv' /\ [Next]_vars => [Abs!Next]_([l \in Lists |-> Contents(l)])
  BY StepImplements DEF AllContents
<1> QED
  BY <1>1, RingInvInvariant, InitImplements, PTL DEF Spec, ImplementsListSpec, Abs!Spec
=============================================================================
