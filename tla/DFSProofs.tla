------------------------------ MODULE DFSProofs ------------------------------
(***************************************************************************)
(* Proofs about DFS for every graph: every set of blocks, finite or not,   *)
(* every entry and every successor vector.                                 *)
(***************************************************************************)
EXTENDS DFS, SequenceTheorems, TLAPS

(***************************************************************************)
(* The inductive invariant.  StackIsGreyPath and VisitsReachable need each *)
(* other: the search may stop only when no grey block is left, and then    *)
(* everything a visited block leads to was scanned.                        *)
(***************************************************************************)
Entries == [it : Nat \ {0}, node : Nodes]

\* The colors and the recorded calls agree.
ColorsMatch ==
  /\ \A n \in Nodes : Known(n) <=> n \in Discovered
  /\ \A n \in Nodes : m_visited[n] = "BLACK" <=> n \in Finished

\* A successor an iterator has passed is known; a black block has none else.
ScannedKnown ==
  /\ \A i \in DOMAIN Path : \A k \in DOMAIN succs[Path[i].node] :
       k < Path[i].it => Known(succs[Path[i].node][k])
  /\ \A n \in Nodes : m_visited[n] = "BLACK" =>
       \A k \in DOMAIN succs[n] : Known(succs[n][k])

\* It was reported, is finished, or is the next block of the path.
ScannedEdges ==
  \A i \in DOMAIN Path : \A k \in DOMAIN succs[Path[i].node] :
    k < Path[i].it =>
      \/ <<Path[i].node, succs[Path[i].node][k]>> \in backEdges
      \/ succs[Path[i].node][k] \in Finished
      \/ i < Len(Path) /\ k = Path[i].it - 1

\* Discovered is inside every set the search could be confined to.
OnlyReachable ==
  \A S \in SUBSET Nodes : Entry \in S /\ ClosedSet(S) => Discovered \subseteq S

Started ==
  IF discovered = << >> THEN m_stack = << >> /\ parent = NoNode
                        ELSE Entry \in Discovered

IInv == /\ TypeOK /\ StackIsGreyPath /\ VisitedOnce /\ ColorsMatch /\ ScannedKnown
        /\ ScannedEdges /\ OnlyReachable /\ Started /\ ReversePostorder

-----------------------------------------------------------------------------
(* Sequences.                                                              *)

LEMMA AppendFacts ==
  ASSUME NEW T, NEW s \in Seq(T), NEW x \in T
  PROVE  /\ Append(s, x) \in Seq(T)
         /\ Len(Append(s, x)) = Len(s) + 1
         /\ \A i \in DOMAIN s : Append(s, x)[i] = s[i]
         /\ Append(s, x)[Len(s) + 1] = x
         /\ DOMAIN s = 1 .. Len(s)
         /\ DOMAIN Append(s, x) = 1 .. Len(s) + 1
  OBVIOUS

LEMMA AppendElements ==
  ASSUME NEW T, NEW s \in Seq(T), NEW x \in T
  PROVE  /\ Elements(Append(s, x)) = Elements(s) \cup {x}
         /\ Once(s) /\ x \notin Elements(s) => Once(Append(s, x))
         /\ \A u, v : Before(s, u, v) => Before(Append(s, x), u, v)
         /\ \A u \in Elements(s) : Before(Append(s, x), u, x)
<1> DEFINE t == Append(s, x)
<1>1. /\ DOMAIN s = 1 .. Len(s) /\ DOMAIN t = 1 .. Len(s) + 1
      /\ \A i \in DOMAIN s : t[i] = s[i]
      /\ t[Len(s) + 1] = x
      /\ Len(s) \in Nat
  BY AppendFacts
<1> HIDE DEF t
<1>2. \A i \in DOMAIN t : i \in DOMAIN s \/ i = Len(s) + 1
  BY <1>1
<1>3. DOMAIN s \subseteq DOMAIN t /\ Len(s) + 1 \in DOMAIN t
  BY <1>1
<1>4. Elements(t) = Elements(s) \cup {x}
  BY <1>1, <1>2, <1>3 DEF Elements
<1>5. Once(s) /\ x \notin Elements(s) => Once(t)
  BY <1>1, <1>2 DEF Once, Elements
<1>6. \A u, v : Before(s, u, v) => Before(t, u, v)
  BY <1>1, <1>3 DEF Before
<1>7. \A u \in Elements(s) : Before(t, u, x)
  BY <1>1, <1>3 DEF Before, Elements
<1> QED
  BY <1>4, <1>5, <1>6, <1>7 DEF t

LEMMA PopFacts ==
  ASSUME NEW T, NEW s \in Seq(T), s # << >>
  PROVE  LET t == SubSeq(s, 1, Len(s) - 1)
         IN  t \in Seq(T) /\ s = Append(t, s[Len(s)]) /\ s[Len(s)] \in T
<1> DEFINE m == Len(s) - 1
           t == SubSeq(s, 1, m)
<1>1. m \in Nat /\ Len(s) = m + 1 /\ 1 \in Int /\ m \in Int
  BY EmptySeq
<1>2. /\ \A i \in 1 .. m : s[i] \in T
      /\ s[Len(s)] \in T
  BY <1>1, ElementOfSeq
<1> HIDE DEF m
<1>3. /\ t \in Seq(T)
      /\ Len(t) = IF 1 <= m THEN m - 1 + 1 ELSE 0
      /\ \A i \in 1 .. m - 1 + 1 : t[i] = s[1 + i - 1]
  BY <1>1, <1>2, SubSeqProperties
<1>4. Len(t) = m /\ \A i \in 1 .. m : t[i] = s[i]
  BY <1>1, <1>3
<1> HIDE DEF t
<1>5. /\ Append(t, s[Len(s)]) \in Seq(T)
      /\ Len(Append(t, s[Len(s)])) = Len(s)
      /\ \A i \in 1 .. Len(s) : Append(t, s[Len(s)])[i] = s[i]
  BY <1>1, <1>2, <1>3, <1>4, AppendFacts
<1>6. s = Append(t, s[Len(s)])
  BY <1>5, SeqEqual
<1> QED
  BY <1>2, <1>3, <1>6 DEF t, m

-----------------------------------------------------------------------------
(* The path, and what a step makes of it.                                  *)

Top(it) == [it |-> it, node |-> parent]

LEMMA SuccsType ==
  ASSUME TypeOK, NEW n \in Nodes
  PROVE  /\ succs[n] \in Seq(Nodes)
         /\ DOMAIN succs[n] = 1 .. Len(succs[n])
         /\ Len(succs[n]) \in Nat
         /\ \A k \in DOMAIN succs[n] : succs[n][k] \in Nodes
<1>1. succs[n] \in Seq(Nodes)
  BY DFSAssumption DEF TypeOK
<1> QED
  BY <1>1

LEMMA PathType ==
  ASSUME TypeOK
  PROVE  /\ m_stack \in Seq(Entries)
         /\ Path \in Seq(Entries)
         /\ parent # NoNode =>
              /\ Top(cur_it) \in Entries
              /\ Path = Append(m_stack, Top(cur_it))
         /\ parent = NoNode => Path = m_stack
<1>1. m_stack \in Seq(Entries)
  BY DEF TypeOK, Entries
<1>2. parent # NoNode => Top(cur_it) \in Entries
  BY DEF TypeOK, Entries, Top
<1>3. parent # NoNode => Append(m_stack, Top(cur_it)) \in Seq(Entries)
  BY <1>1, <1>2, AppendFacts
<1> QED
  BY <1>1, <1>2, <1>3 DEF Path, Top

LEMMA PathNodes ==
  ASSUME TypeOK, NEW i \in DOMAIN Path
  PROVE  Path[i].node \in Nodes /\ Path[i].it \in Nat \ {0}
<1>1. Path \in Seq(Entries)
  BY PathType
<1>2. Path[i] \in Entries
  BY <1>1
<1> QED
  BY <1>2 DEF Entries

LEMMA StartStep ==
  ASSUME IInv, Start
  PROVE  Path' = <<Fresh(Entry)>> /\ Path = << >> /\ parent' = NoNode
  BY DEF IInv, Started, Start, Path

LEMMA PopStep ==
  ASSUME IInv, Pop
  PROVE  Path' = Path /\ TypeOK'
<1> USE DEF IInv
<1> DEFINE top == m_stack[Len(m_stack)]
<1>1. /\ parent = NoNode /\ m_stack # << >>
      /\ parent' = top.node /\ cur_it' = top.it
      /\ m_stack' = SubSeq(m_stack, 1, Len(m_stack) - 1)
      /\ UNCHANGED <<succs, m_visited, discovered, finished, backEdges>>
  BY DEF Pop
<1>2. /\ m_stack' \in Seq(Entries) /\ top \in Entries
      /\ m_stack = Append(m_stack', top)
      /\ m_stack \in Seq(Entries) /\ Path = m_stack
  BY <1>1, PathType, PopFacts
<1>3. top = [it |-> top.it, node |-> top.node] /\ top.node \in Nodes /\ top.it \in Nat \ {0}
  BY <1>2 DEF Entries
<1> HIDE DEF top
<1>4. parent' # NoNode
  BY <1>1, <1>3, DFSAssumption
<1>5. Path' = Append(m_stack', top)
  BY <1>1, <1>3, <1>4 DEF Path
<1>6. \A i \in DOMAIN m_stack : m_stack[i].it <= Len(succs[m_stack[i].node]) + 1
  BY DEF TypeOK
<1>7. \A i \in DOMAIN m_stack' : i \in DOMAIN m_stack /\ m_stack'[i] = m_stack[i]
  BY <1>2, AppendFacts
<1>8. Len(m_stack) \in DOMAIN m_stack
  BY <1>1, <1>2, EmptySeq
<1>9. top.it <= Len(succs[top.node]) + 1
  BY <1>6, <1>8 DEF top
<1>10. \A i \in DOMAIN m_stack' : m_stack'[i].it <= Len(succs'[m_stack'[i].node]) + 1
  BY <1>1, <1>6, <1>7
<1>11. /\ parent' \in Nodes /\ cur_it' \in Nat /\ cur_it' >= 1
       /\ cur_it' <= Len(succs'[parent']) + 1
  BY <1>1, <1>3, <1>9
<1>12. TypeOK'
  BY <1>1, <1>2, <1>10, <1>11 DEF TypeOK, Entries
<1> QED
  BY <1>2, <1>5, <1>12

(* Entering n leaves the path as it was and puts n at its end, when the    *)
(* iterator of the block that leads to it has moved on.                    *)
LEMMA ScanStep ==
  ASSUME IInv, Scan
  PROVE  /\ TypeOK'
         /\ Path = Append(m_stack, Top(cur_it))
         /\ Path' = Append(m_stack, Top(cur_it + 1))
         /\ parent \in Nodes /\ cur_it \in DOMAIN succs[parent]
         /\ Succ \in Nodes
<1> USE DEF IInv
<1>1. parent \in Nodes /\ parent # NoNode /\ cur_it \in Nat
  BY DEF Scan, TypeOK
<1>2. cur_it \in DOMAIN succs[parent] /\ Succ \in Nodes
  BY <1>1, SuccsType DEF Scan, TypeOK, AtEnd, Succ
<1>3. Len(succs[parent]) \in Nat /\ cur_it + 1 <= Len(succs[parent]) + 1
  BY <1>1, <1>2, SuccsType
<1>4. <<parent, Succ>> \in Nodes \X Nodes
  BY <1>1, <1>2
<1>5. backEdges' \subseteq Nodes \X Nodes
  BY <1>4 DEF Scan, TypeOK
<1>6. TypeOK'
  BY <1>1, <1>3, <1>5 DEF Scan, TypeOK, NextIt
<1> QED
  BY <1>1, <1>2, <1>6 DEF Scan, Path, Top, NextIt

LEMMA FinishStep ==
  ASSUME IInv, Finish
  PROVE  /\ TypeOK'
         /\ Path = Append(m_stack, Top(cur_it))
         /\ Path' = m_stack
         /\ parent \in Nodes
         /\ \A k \in DOMAIN succs[parent] : k < cur_it
<1> USE DEF IInv
<1>1. parent \in Nodes /\ parent # NoNode /\ cur_it \in Nat
  BY DEF Finish, TypeOK
<1>2. \A k \in DOMAIN succs[parent] : k < cur_it
  BY <1>1, SuccsType DEF Finish, AtEnd
<1>3. finished' \in Seq(Nodes)
  BY <1>1, AppendFacts DEF Finish, TypeOK
<1>4. m_visited' \in [Nodes -> {"WHITE", "GREY", "BLACK"}]
  BY DEF Finish, TypeOK
<1>5. TypeOK'
  BY <1>1, <1>3, <1>4 DEF Finish, TypeOK
<1> QED
  BY <1>1, <1>2, <1>5 DEF Finish, Path, Top

LEMMA DescendStep ==
  ASSUME IInv, Descend
  PROVE  /\ TypeOK'
         /\ Path = Append(m_stack, Top(cur_it))
         /\ Path' = Append(Append(m_stack, Top(cur_it + 1)), Fresh(Succ))
         /\ Top(cur_it + 1) \in Entries /\ Fresh(Succ) \in Entries
         /\ parent \in Nodes /\ cur_it \in DOMAIN succs[parent]
         /\ Succ \in Nodes
<1> USE DEF IInv
<1>1. parent \in Nodes /\ parent # NoNode /\ cur_it \in Nat \ {0}
  BY DEF Descend, TypeOK
<1>2. cur_it \in DOMAIN succs[parent] /\ Succ \in Nodes
  BY <1>1, SuccsType DEF Descend, TypeOK, AtEnd, Succ
<1>3. /\ Top(cur_it + 1) \in Entries /\ Fresh(Succ) \in Entries
      /\ m_stack \in Seq(Entries)
  BY <1>1, <1>2, PathType DEF Top, Fresh, Entries
<1>4. PushBoth(Succ) = Append(Append(m_stack, Top(cur_it + 1)), Fresh(Succ))
  <2> DEFINE e == Top(cur_it + 1)
             f == Fresh(Succ)
  <2>1. m_stack \o <<e, f>> = Append(Append(m_stack, e), f)
    <3> HIDE DEF e, f
    <3>1. e \in Entries /\ f \in Entries /\ m_stack \in Seq(Entries)
      BY <1>3 DEF e, f
    <3> QED
      BY <3>1
  <2> QED
    BY <2>1 DEF PushBoth, Top
<1>5. m_stack' \in Seq(Entries)
  BY <1>3, <1>4, AppendFacts DEF Descend
<1>6. \A i \in DOMAIN m_stack' : m_stack'[i].it <= Len(succs[m_stack'[i].node]) + 1
  <2>1. m_stack' = Append(Append(m_stack, Top(cur_it + 1)), Fresh(Succ))
    BY <1>4 DEF Descend
  <2>2. \A i \in DOMAIN m_stack' :
          \/ i \in DOMAIN m_stack /\ m_stack'[i] = m_stack[i]
          \/ m_stack'[i] = Top(cur_it + 1)
          \/ m_stack'[i] = Fresh(Succ)
    <3>1. /\ Append(m_stack, Top(cur_it + 1)) \in Seq(Entries)
          /\ Len(m_stack) \in Nat
      BY <1>3, AppendFacts
    <3> QED
      BY <1>3, <2>1, <3>1, AppendFacts
  <2>3. cur_it + 1 <= Len(succs[parent]) + 1 /\ 1 <= Len(succs[Succ]) + 1
    BY <1>1, <1>2, SuccsType
  <2>4. /\ Top(cur_it + 1).it = cur_it + 1 /\ Top(cur_it + 1).node = parent
        /\ Fresh(Succ).it = 1 /\ Fresh(Succ).node = Succ
    BY DEF Top, Fresh
  <2>5. \A i \in DOMAIN m_stack : m_stack[i].it <= Len(succs[m_stack[i].node]) + 1
    BY DEF TypeOK
  <2> QED
    BY <2>2, <2>3, <2>4, <2>5
<1>7. discovered' \in Seq(Nodes)
  BY <1>2, AppendFacts DEF Descend, Visit, TypeOK
<1>8. m_visited' \in [Nodes -> {"WHITE", "GREY", "BLACK"}]
  BY DEF Descend, Visit, TypeOK
<1>9. succs' = succs /\ parent' = NoNode /\ cur_it' = cur_it /\ finished' = finished
      /\ backEdges' = backEdges
  BY DEF Descend
<1>10. TypeOK'
  BY <1>5, <1>6, <1>7, <1>8, <1>9 DEF TypeOK, Entries
<1> QED
  BY <1>1, <1>2, <1>3, <1>4, <1>10 DEF Descend, Path, Top

-----------------------------------------------------------------------------
(* Every step preserves the invariant.                                     *)

LEMMA OrdersType ==
  ASSUME TypeOK
  PROVE  /\ Discovered \subseteq Nodes /\ Finished \subseteq Nodes
         /\ discovered = << >> => Discovered = {}
         /\ \A n \in Nodes : m_visited[n] \in {"WHITE", "GREY", "BLACK"}
  BY DEF TypeOK, Discovered, Finished, Elements

LEMMA StartPreserves ==
  ASSUME IInv, Start
  PROVE  IInv'
<1> USE DEF IInv
<1>1. /\ discovered = << >> /\ discovered' = <<Entry>>
      /\ m_visited' = [m_visited EXCEPT ![Entry] = "GREY"]
      /\ m_stack' = <<Fresh(Entry)>> /\ parent = NoNode /\ parent' = NoNode
      /\ UNCHANGED <<succs, cur_it, finished, backEdges>>
  BY StartStep DEF Start, Visit, TypeOK
<1>2. \A n \in Nodes : ~Known(n) /\ n \notin Finished
  BY <1>1, OrdersType DEF ColorsMatch, Known
<1>3. Finished = {}
  BY <1>2, OrdersType
<1>4. /\ Path' = <<Fresh(Entry)>> /\ DOMAIN Path' = {1} /\ Len(Path') = 1
      /\ Path'[1].node = Entry /\ Path'[1].it = 1
  BY StartStep DEF Fresh
<1>5. Discovered' = {Entry} /\ Finished' = {} /\ Entry \in Nodes
  BY <1>1, <1>3, DFSAssumption DEF Discovered, Finished, Elements
<1>6. \A n \in Nodes : m_visited'[n] = IF n = Entry THEN "GREY" ELSE "WHITE"
  BY <1>1, <1>2 DEF TypeOK, Known
<1>7. TypeOK'
  <2>1. m_visited' \in [Nodes -> {"WHITE", "GREY", "BLACK"}]
    BY <1>1 DEF TypeOK
  <2>2. /\ Fresh(Entry) \in [it : Nat \ {0}, node : Nodes]
        /\ Fresh(Entry).it <= Len(succs[Fresh(Entry).node]) + 1
    BY DFSAssumption, SuccsType DEF Fresh
  <2> QED
    BY <1>1, <2>1, <2>2, DFSAssumption DEF TypeOK
<1>8. StackIsGreyPath'
  BY <1>4, <1>6 DEF StackIsGreyPath
<1>9. VisitedOnce'
  BY <1>1 DEF VisitedOnce, Once
<1>10. ColorsMatch'
  BY <1>5, <1>6 DEF ColorsMatch, Known
<1>11. ScannedKnown'
  <2>1. \A k \in DOMAIN succs'[Entry] : ~(k < 1)
    BY <1>1, DFSAssumption, SuccsType
  <2> QED
    BY <1>4, <1>6, <2>1 DEF ScannedKnown
<1>12. ScannedEdges'
  <2>1. \A k \in DOMAIN succs'[Entry] : ~(k < 1)
    BY <1>1, DFSAssumption, SuccsType
  <2> QED
    BY <1>4, <2>1 DEF ScannedEdges
<1>13. OnlyReachable' /\ Started' /\ ReversePostorder'
  BY <1>1, <1>5 DEF OnlyReachable, Started, ReversePostorder
<1> QED
  BY <1>7, <1>8, <1>9, <1>10, <1>11, <1>12, <1>13

LEMMA PopPreserves ==
  ASSUME IInv, Pop
  PROVE  IInv'
<1> USE DEF IInv
<1>1. /\ UNCHANGED <<succs, m_visited, discovered, finished, backEdges>>
      /\ Path' = Path /\ TypeOK' /\ m_stack # << >>
  BY PopStep DEF Pop
<1>2. Discovered' = Discovered /\ Finished' = Finished
  BY <1>1 DEF Discovered, Finished, Elements
<1>3. StackIsGreyPath'
  BY <1>1 DEF StackIsGreyPath
<1>4. VisitedOnce' /\ ColorsMatch'
  BY <1>1, <1>2 DEF VisitedOnce, Once, ColorsMatch, Known
<1>5. ScannedKnown' /\ ScannedEdges'
  BY <1>1, <1>2 DEF ScannedKnown, ScannedEdges, Known
<1>6. OnlyReachable' /\ Started'
  BY <1>1, <1>2 DEF OnlyReachable, ClosedSet, Started
<1>7. ReversePostorder'
  BY <1>1, <1>2 DEF ReversePostorder, Before
<1> QED
  BY <1>1, <1>3, <1>4, <1>5, <1>6, <1>7

LEMMA ScanPreserves ==
  ASSUME IInv, Scan
  PROVE  IInv'
<1> USE DEF IInv
<1> DEFINE m == Len(m_stack)
<1>1. /\ UNCHANGED <<succs, m_visited, m_stack, parent, discovered, finished>>
      /\ Known(Succ) /\ backEdges \subseteq backEdges'
      /\ IsOpen(Succ) => <<parent, Succ>> \in backEdges'
  BY DEF Scan
<1>2. /\ m \in Nat /\ Len(Path) = m + 1 /\ Len(Path') = m + 1
      /\ DOMAIN Path = 1 .. m + 1 /\ DOMAIN Path' = 1 .. m + 1
      /\ \A i \in 1 .. m : Path'[i] = Path[i]
      /\ Path[m + 1] = Top(cur_it) /\ Path'[m + 1] = Top(cur_it + 1)
  <2>1. /\ Path = Append(m_stack, Top(cur_it)) /\ Path' = Append(m_stack, Top(cur_it + 1))
        /\ m_stack \in Seq(Entries)
        /\ Top(cur_it) \in Entries /\ Top(cur_it + 1) \in Entries
    <3>1. cur_it \in Nat \ {0} /\ parent \in Nodes
      BY ScanStep DEF Scan, TypeOK
    <3> QED
      BY <3>1, ScanStep, PathType DEF Entries, Top
  <2> QED
    BY <2>1, AppendFacts
<1>3. /\ parent \in Nodes /\ cur_it \in DOMAIN succs[parent] /\ Succ \in Nodes
      /\ cur_it \in Nat /\ TypeOK'
  BY ScanStep DEF TypeOK
<1>4. /\ Path[m + 1].node = parent /\ Path[m + 1].it = cur_it
      /\ Path'[m + 1].node = parent /\ Path'[m + 1].it = cur_it + 1
  BY <1>2 DEF Top
<1> HIDE DEF m
<1>5. /\ \A i \in 1 .. m + 1 : Path'[i].node = Path[i].node
      /\ \A i \in 1 .. m + 1 : i # m + 1 => i \in 1 .. m /\ Path'[i].it = Path[i].it
  BY <1>2, <1>4
<1>6. Discovered' = Discovered /\ Finished' = Finished
  BY <1>1 DEF Discovered, Finished, Elements
<1>7. StackIsGreyPath'
  <2>1. \A i \in 1 .. m + 1 : i # 1 => i - 1 \in 1 .. m
    BY <1>2
  <2>2. \A i \in 1 .. m + 1 :
          IF i = 1 THEN Path[i].node = Entry
          ELSE /\ Path[i - 1].it >= 2
               /\ succs[Path[i - 1].node][Path[i - 1].it - 1] = Path[i].node
    BY <1>2 DEF StackIsGreyPath
  <2>3. \A i \in 1 .. m + 1 :
          IF i = 1 THEN Path'[i].node = Entry
          ELSE /\ Path'[i - 1].it >= 2
               /\ succs'[Path'[i - 1].node][Path'[i - 1].it - 1] = Path'[i].node
    BY <1>1, <1>2, <1>5, <2>1, <2>2
  <2>4. /\ \A n \in Nodes : m_visited'[n] = "GREY" <=> \E i \in DOMAIN Path' : Path'[i].node = n
        /\ \A i, j \in DOMAIN Path' : Path'[i].node = Path'[j].node => i = j
    BY <1>1, <1>2, <1>5 DEF StackIsGreyPath
  <2> QED
    BY <1>2, <2>3, <2>4 DEF StackIsGreyPath
<1>8. VisitedOnce' /\ ColorsMatch'
  BY <1>1, <1>6 DEF VisitedOnce, Once, ColorsMatch, Known
<1>9. \A i \in 1 .. m + 1 : \A k \in DOMAIN succs[Path[i].node] :
        k < Path'[i].it => k < Path[i].it \/ (i = m + 1 /\ k = cur_it)
  <2>1. \A k \in DOMAIN succs[parent] : k < cur_it + 1 => k < cur_it \/ k = cur_it
    BY <1>3, SuccsType
  <2> QED
    BY <1>4, <1>5, <2>1
<1>10. ScannedKnown'
  <2>1. \A i \in 1 .. m + 1 : \A k \in DOMAIN succs[Path[i].node] :
          k < Path[i].it => Known(succs[Path[i].node][k])
    BY <1>2 DEF ScannedKnown
  <2>2. \A i \in 1 .. m + 1 : \A k \in DOMAIN succs[Path[i].node] :
          k < Path'[i].it => Known(succs[Path[i].node][k])
    BY <1>1, <1>4, <1>9, <2>1 DEF Succ
  <2> QED
    BY <1>1, <1>2, <1>5, <2>2 DEF ScannedKnown, Known
<1>11. ScannedEdges'
  <2>1. <<parent, Succ>> \in backEdges' \/ Succ \in Finished
    BY <1>1, <1>3, OrdersType DEF Known, IsOpen, ColorsMatch
  <2>2. \A i \in 1 .. m + 1 : \A k \in DOMAIN succs[Path[i].node] :
          k < Path[i].it =>
            \/ <<Path[i].node, succs[Path[i].node][k]>> \in backEdges
            \/ succs[Path[i].node][k] \in Finished
            \/ i \in 1 .. m /\ k = Path[i].it - 1
    BY <1>2 DEF ScannedEdges
  <2>3. \A i \in 1 .. m + 1 : \A k \in DOMAIN succs[Path[i].node] :
          k < Path'[i].it =>
            \/ <<Path[i].node, succs[Path[i].node][k]>> \in backEdges'
            \/ succs[Path[i].node][k] \in Finished
            \/ i \in 1 .. m /\ k = Path[i].it - 1
    BY <1>1, <1>4, <1>9, <2>1, <2>2 DEF Succ
  <2>4. \A i \in 1 .. m : i < m + 1 /\ Path'[i].it = Path[i].it
    BY <1>2
  <2>5. \A i \in 1 .. m + 1 : \A k \in DOMAIN succs'[Path'[i].node] :
          k < Path'[i].it =>
            \/ <<Path'[i].node, succs'[Path'[i].node][k]>> \in backEdges'
            \/ succs'[Path'[i].node][k] \in Finished'
            \/ i < Len(Path') /\ k = Path'[i].it - 1
    BY <1>1, <1>2, <1>5, <1>6, <2>3, <2>4
  <2> QED
    BY <1>2, <2>5 DEF ScannedEdges
<1>12. OnlyReachable' /\ Started'
  <2>1. discovered # << >>
    BY <1>3, DFSAssumption DEF Started
  <2> QED
    BY <1>1, <1>6, <2>1 DEF OnlyReachable, ClosedSet, Started
<1>13. ReversePostorder'
  BY <1>1, <1>6 DEF ReversePostorder, Before
<1> QED
  BY <1>3, <1>7, <1>8, <1>10, <1>11, <1>12, <1>13

LEMMA FinishPreserves ==
  ASSUME IInv, Finish
  PROVE  IInv'
<1> USE DEF IInv
<1> DEFINE m == Len(m_stack)
<1>1. /\ UNCHANGED <<succs, m_stack, discovered, backEdges>>
      /\ m_visited' = [m_visited EXCEPT ![parent] = "BLACK"]
      /\ finished' = Append(finished, parent) /\ parent' = NoNode
  BY DEF Finish
<1>2. /\ m \in Nat /\ Len(Path) = m + 1 /\ Len(Path') = m
      /\ DOMAIN Path = 1 .. m + 1 /\ DOMAIN Path' = 1 .. m
      /\ \A i \in 1 .. m : Path'[i] = Path[i]
      /\ Path[m + 1] = Top(cur_it)
  <2>1. /\ Path = Append(m_stack, Top(cur_it)) /\ Path' = m_stack
        /\ m_stack \in Seq(Entries) /\ Top(cur_it) \in Entries
    BY FinishStep, PathType DEF Finish
  <2> QED
    BY <2>1, AppendFacts
<1>3. /\ parent \in Nodes /\ TypeOK'
      /\ \A k \in DOMAIN succs[parent] : k < cur_it
  BY FinishStep
<1>4. Path[m + 1].node = parent /\ Path[m + 1].it = cur_it
  BY <1>2 DEF Top
<1> HIDE DEF m
<1>5. \A n \in Nodes : m_visited'[n] = IF n = parent THEN "BLACK" ELSE m_visited[n]
  BY <1>1 DEF TypeOK
<1>6. m_visited[parent] = "GREY" /\ m + 1 \in DOMAIN Path
  BY <1>2, <1>3, <1>4 DEF StackIsGreyPath
<1>7. /\ parent \notin Finished /\ parent \in Discovered
      /\ Finished' = Finished \cup {parent} /\ Discovered' = Discovered
  <2>1. Finished' = Finished \cup {parent} /\ Discovered' = Discovered
    BY <1>1, <1>3, AppendElements DEF TypeOK, Finished, Discovered
  <2> QED
    BY <1>3, <1>6, <2>1 DEF ColorsMatch, Known
<1>8. \A i \in 1 .. m : i \in 1 .. m + 1 /\ i # m + 1 /\ Path[i].node # parent
  BY <1>2, <1>4 DEF StackIsGreyPath
<1>9. StackIsGreyPath'
  <2>1. \A n \in Nodes \ {parent} :
          (\E i \in 1 .. m + 1 : Path[i].node = n) <=> (\E i \in 1 .. m : Path[i].node = n)
    BY <1>2, <1>4
  <2>2. \A n \in Nodes : m_visited'[n] = "GREY" <=> \E i \in 1 .. m : Path'[i].node = n
    BY <1>2, <1>3, <1>5, <1>8, <2>1 DEF StackIsGreyPath
  <2>3. \A i, j \in 1 .. m : Path'[i].node = Path'[j].node => i = j
    BY <1>2, <1>8 DEF StackIsGreyPath
  <2>4. \A i \in 1 .. m : i # 1 => i - 1 \in 1 .. m
    BY <1>2
  <2>5. \A i \in 1 .. m :
          IF i = 1 THEN Path'[i].node = Entry
          ELSE /\ Path'[i - 1].it >= 2
               /\ succs'[Path'[i - 1].node][Path'[i - 1].it - 1] = Path'[i].node
    <3>1. \A i \in 1 .. m :
            IF i = 1 THEN Path[i].node = Entry
            ELSE /\ Path[i - 1].it >= 2
                 /\ succs[Path[i - 1].node][Path[i - 1].it - 1] = Path[i].node
      BY <1>2, <1>8 DEF StackIsGreyPath
    <3> QED
      BY <1>1, <1>2, <2>4, <3>1
  <2> QED
    BY <1>2, <2>2, <2>3, <2>5 DEF StackIsGreyPath
<1>10. VisitedOnce'
  BY <1>1, <1>3, <1>7, AppendElements DEF VisitedOnce, TypeOK, Finished
<1>11. ColorsMatch'
  BY <1>3, <1>5, <1>6, <1>7 DEF ColorsMatch, Known
<1>12. \A n \in Nodes : Known(n)' <=> Known(n)
  BY <1>5, <1>6 DEF Known
<1>13. ScannedKnown'
  <2>1. \A k \in DOMAIN succs[parent] : Known(succs[parent][k]) /\ succs[parent][k] \in Nodes
    BY <1>3, <1>4, <1>6, SuccsType DEF ScannedKnown
  <2>2. \A n \in Nodes : m_visited'[n] = "BLACK" =>
          \A k \in DOMAIN succs[n] : Known(succs[n][k])
    BY <1>5, <2>1 DEF ScannedKnown
  <2>3. \A i \in 1 .. m : Path[i].node \in Nodes
    BY <1>2, <1>8, PathNodes
  <2>4. \A i \in 1 .. m : \A k \in DOMAIN succs[Path[i].node] :
          k < Path[i].it => Known(succs[Path[i].node][k])
    BY <1>2, <1>8 DEF ScannedKnown
  <2>5. \A n \in Nodes : \A k \in DOMAIN succs[n] : succs[n][k] \in Nodes
    BY SuccsType
  <2> QED
    BY <1>1, <1>2, <1>12, <2>2, <2>3, <2>4, <2>5 DEF ScannedKnown
<1>14. ScannedEdges'
  <2>1. \A i \in 1 .. m : \A k \in DOMAIN succs[Path[i].node] :
          k < Path[i].it =>
            \/ <<Path[i].node, succs[Path[i].node][k]>> \in backEdges
            \/ succs[Path[i].node][k] \in Finished
            \/ k = Path[i].it - 1
    BY <1>2, <1>8 DEF ScannedEdges
  <2>2. \A i \in 1 .. m : i = m =>
          succs[Path[i].node][Path[i].it - 1] = parent
    <3>1. m \in 1 .. m => m + 1 # 1 /\ (m + 1) - 1 = m
      BY <1>2
    <3>2. IF m + 1 = 1 THEN Path[m + 1].node = Entry
          ELSE /\ Path[(m + 1) - 1].it >= 2
               /\ succs[Path[(m + 1) - 1].node][Path[(m + 1) - 1].it - 1] = Path[m + 1].node
      <4>1. \A i \in DOMAIN Path :
              IF i = 1 THEN Path[i].node = Entry
              ELSE /\ Path[i - 1].it >= 2
                   /\ succs[Path[i - 1].node][Path[i - 1].it - 1] = Path[i].node
        BY DEF IInv, StackIsGreyPath
      <4> QED
        BY <1>6, <4>1
    <3>3. m \in 1 .. m => succs[Path[m].node][Path[m].it - 1] = parent
      BY <1>4, <3>1, <3>2
    <3> QED
      BY <3>3
  <2>3. \A i \in 1 .. m : i = m \/ i < m
    BY <1>2
  <2>4. \A i \in 1 .. m : \A k \in DOMAIN succs'[Path'[i].node] :
          k < Path'[i].it =>
            \/ <<Path'[i].node, succs'[Path'[i].node][k]>> \in backEdges'
            \/ succs'[Path'[i].node][k] \in Finished'
            \/ i < Len(Path') /\ k = Path'[i].it - 1
    BY <1>1, <1>2, <1>7, <2>1, <2>2, <2>3
  <2> QED
    BY <1>2, <2>4 DEF ScannedEdges
<1>15. OnlyReachable' /\ Started'
  <2>1. discovered # << >>
    BY <1>3, DFSAssumption DEF Started
  <2> QED
    BY <1>1, <1>7, <2>1 DEF OnlyReachable, ClosedSet, Started
<1>16. ReversePostorder'
  <2>1. \A k \in DOMAIN succs[parent] :
          <<parent, succs[parent][k]>> \in backEdges \/ succs[parent][k] \in Finished
    <3>1. ~(m + 1 < Len(Path))
      BY <1>2
    <3> QED
      BY <1>3, <1>4, <1>6, <3>1 DEF ScannedEdges
  <2>2. /\ \A u, v : Before(finished, u, v) => Before(finished', u, v)
        /\ \A u \in Finished : Before(finished', u, parent)
    BY <1>1, <1>3, AppendElements DEF TypeOK, Finished
  <2>3. \A u \in Finished' : \A i \in DOMAIN succs[u] :
          <<u, succs[u][i]>> \in backEdges \/ Before(finished', succs[u][i], u)
    BY <1>7, <2>1, <2>2 DEF ReversePostorder
  <2> QED
    BY <1>1, <2>3 DEF ReversePostorder, Before
<1> QED
  BY <1>3, <1>9, <1>10, <1>11, <1>13, <1>14, <1>15, <1>16

LEMMA DescendPreserves ==
  ASSUME IInv, Descend
  PROVE  IInv'
<1> USE DEF IInv
<1> DEFINE m == Len(m_stack)
<1>1. /\ UNCHANGED <<succs, cur_it, finished, backEdges>>
      /\ m_visited' = [m_visited EXCEPT ![Succ] = "GREY"]
      /\ discovered' = Append(discovered, Succ) /\ parent' = NoNode
      /\ ~Known(Succ)
  BY DEF Descend, Visit
<1>2. /\ m \in Nat /\ Len(Path) = m + 1 /\ Len(Path') = m + 2
      /\ DOMAIN Path = 1 .. m + 1 /\ DOMAIN Path' = 1 .. m + 2
      /\ \A i \in 1 .. m : Path'[i] = Path[i]
      /\ Path[m + 1] = Top(cur_it) /\ Path'[m + 1] = Top(cur_it + 1)
      /\ Path'[m + 2] = Fresh(Succ)
  <2>1. /\ Path = Append(m_stack, Top(cur_it))
        /\ Path' = Append(Append(m_stack, Top(cur_it + 1)), Fresh(Succ))
        /\ m_stack \in Seq(Entries) /\ Top(cur_it) \in Entries
        /\ Top(cur_it + 1) \in Entries /\ Fresh(Succ) \in Entries
    BY DescendStep, PathType DEF Descend
  <2> DEFINE s == Append(m_stack, Top(cur_it + 1))
  <2>2. /\ s \in Seq(Entries) /\ Len(s) = m + 1 /\ DOMAIN s = 1 .. m + 1
        /\ \A i \in 1 .. m : s[i] = m_stack[i]
        /\ s[m + 1] = Top(cur_it + 1) /\ m \in Nat
    BY <2>1, AppendFacts
  <2>3. /\ Len(Path) = m + 1 /\ DOMAIN Path = 1 .. m + 1
        /\ \A i \in 1 .. m : Path[i] = m_stack[i]
        /\ Path[m + 1] = Top(cur_it)
    BY <2>1, AppendFacts
  <2> HIDE DEF s, m
  <2>4. /\ Len(Path') = Len(s) + 1 /\ DOMAIN Path' = 1 .. Len(s) + 1
        /\ \A i \in DOMAIN s : Path'[i] = s[i]
        /\ Path'[Len(s) + 1] = Fresh(Succ)
    <3>1. Path' = Append(s, Fresh(Succ))
      BY <2>1 DEF s
    <3> QED
      BY <2>1, <2>2, <3>1, AppendFacts
  <2> QED
    BY <2>2, <2>3, <2>4
<1>3. /\ parent \in Nodes /\ cur_it \in DOMAIN succs[parent] /\ Succ \in Nodes
      /\ cur_it \in Nat /\ TypeOK'
  BY DescendStep DEF TypeOK
<1>4. /\ Path[m + 1].node = parent /\ Path[m + 1].it = cur_it
      /\ Path'[m + 1].node = parent /\ Path'[m + 1].it = cur_it + 1
      /\ Path'[m + 2].node = Succ /\ Path'[m + 2].it = 1
  BY <1>2 DEF Top, Fresh
<1> HIDE DEF m
<1>5. /\ \A i \in 1 .. m + 1 : Path'[i].node = Path[i].node /\ i \in 1 .. m + 2
      /\ \A i \in 1 .. m + 1 : i # m + 1 => i \in 1 .. m /\ Path'[i].it = Path[i].it
      /\ \A i \in 1 .. m + 2 : i # m + 2 => i \in 1 .. m + 1
      /\ \A i \in 1 .. m : i \in 1 .. m + 1 /\ Path'[i].it = Path[i].it
      /\ m + 1 \in 1 .. m + 1 /\ m + 2 \in 1 .. m + 2
      /\ \A i \in 1 .. m + 1 : i < Len(Path')
  BY <1>2, <1>4
<1>6. \A n \in Nodes : m_visited'[n] = IF n = Succ THEN "GREY" ELSE m_visited[n]
  BY <1>1 DEF TypeOK
<1>7. m_visited[parent] = "GREY" /\ parent \in Discovered
  BY <1>2, <1>3, <1>4, <1>5 DEF StackIsGreyPath, ColorsMatch, Known
<1>8. /\ Discovered' = Discovered \cup {Succ} /\ Finished' = Finished
      /\ Succ \notin Discovered /\ Succ \notin Finished
      /\ m_visited[Succ] = "WHITE"
  <2>1. Discovered' = Discovered \cup {Succ} /\ Finished' = Finished
    BY <1>1, <1>3, AppendElements DEF TypeOK, Finished, Discovered
  <2> QED
    BY <1>1, <1>3, <2>1 DEF ColorsMatch, Known
<1>9. \A i \in 1 .. m + 1 : Path[i].node # Succ
  BY <1>2, <1>3, <1>8 DEF StackIsGreyPath
<1>10. StackIsGreyPath'
  <2>1. \A n \in Nodes : m_visited'[n] = "GREY" <=> \E i \in 1 .. m + 2 : Path'[i].node = n
    <3>1. \A n \in Nodes : (\E i \in 1 .. m + 2 : Path'[i].node = n)
                           <=> (n = Succ \/ \E i \in 1 .. m + 1 : Path[i].node = n)
      BY <1>4, <1>5
    <3> QED
      BY <1>2, <1>6, <3>1 DEF StackIsGreyPath
  <2>2. \A i, j \in 1 .. m + 2 : Path'[i].node = Path'[j].node => i = j
    BY <1>2, <1>4, <1>5, <1>9 DEF StackIsGreyPath
  <2>3. \A i \in 1 .. m + 1 :
          IF i = 1 THEN Path'[i].node = Entry
          ELSE /\ Path'[i - 1].it >= 2
               /\ succs'[Path'[i - 1].node][Path'[i - 1].it - 1] = Path'[i].node
    <3>1. \A i \in 1 .. m + 1 : i # 1 => i - 1 \in 1 .. m
      BY <1>2
    <3>2. \A i \in 1 .. m + 1 :
            IF i = 1 THEN Path[i].node = Entry
            ELSE /\ Path[i - 1].it >= 2
                 /\ succs[Path[i - 1].node][Path[i - 1].it - 1] = Path[i].node
      BY <1>2 DEF StackIsGreyPath
    <3> QED
      BY <1>1, <1>5, <3>1, <3>2
  <2>4. /\ Path'[m + 1].it >= 2 /\ m + 2 # 1 /\ (m + 2) - 1 = m + 1
        /\ succs'[Path'[m + 1].node][Path'[m + 1].it - 1] = Path'[m + 2].node
    <3>1. /\ cur_it + 1 >= 2 /\ (cur_it + 1) - 1 = cur_it
          /\ m + 2 # 1 /\ (m + 2) - 1 = m + 1
      BY <1>2, <1>3, SuccsType
    <3> QED
      BY <1>1, <1>4, <3>1 DEF Succ
  <2>5. \A i \in 1 .. m + 2 :
          IF i = 1 THEN Path'[i].node = Entry
          ELSE /\ Path'[i - 1].it >= 2
               /\ succs'[Path'[i - 1].node][Path'[i - 1].it - 1] = Path'[i].node
    BY <1>5, <2>3, <2>4
  <2> QED
    BY <1>2, <2>1, <2>2, <2>5 DEF StackIsGreyPath
<1>11. VisitedOnce'
  BY <1>1, <1>3, <1>8, AppendElements DEF VisitedOnce, TypeOK, Discovered
<1>12. ColorsMatch'
  BY <1>3, <1>6, <1>8 DEF ColorsMatch, Known
<1>13. \A n \in Nodes : Known(n)' <=> Known(n) \/ n = Succ
  BY <1>6 DEF Known
<1>14. /\ \A n \in Nodes : \A k \in DOMAIN succs[n] : succs[n][k] \in Nodes /\ ~(k < 1)
       /\ \A i \in 1 .. m + 1 : Path[i].node \in Nodes
       /\ \A k \in DOMAIN succs[parent] :
            k < cur_it + 1 => k < cur_it \/ (k = cur_it /\ k = (cur_it + 1) - 1)
  <2>1. \A i \in 1 .. m + 1 : Path[i].node \in Nodes
    BY <1>2, PathNodes
  <2>2. \A k \in Nat : k < cur_it + 1 => k < cur_it \/ (k = cur_it /\ k = (cur_it + 1) - 1)
    BY <1>3
  <2>3. /\ \A n \in Nodes : \A k \in DOMAIN succs[n] : succs[n][k] \in Nodes /\ ~(k < 1)
        /\ \A k \in DOMAIN succs[parent] : k \in Nat
    BY <1>3, SuccsType
  <2> QED
    BY <2>1, <2>2, <2>3
<1>15. ScannedKnown'
  <2>1. \A i \in 1 .. m + 1 : \A k \in DOMAIN succs[Path[i].node] :
          k < Path[i].it => Known(succs[Path[i].node][k])
    BY <1>2 DEF ScannedKnown
  <2>2. \A n \in Nodes : Known(n) \/ n = Succ => m_visited'[n] # "WHITE"
    BY <1>6 DEF Known
  <2>3. \A i \in 1 .. m + 1 : \A k \in DOMAIN succs[Path[i].node] :
          k < Path'[i].it => Known(succs[Path[i].node][k]) \/ succs[Path[i].node][k] = Succ
    BY <1>4, <1>5, <1>14, <2>1 DEF Succ
  <2>4. \A i \in 1 .. m + 1 : \A k \in DOMAIN succs[Path[i].node] :
          k < Path'[i].it => m_visited'[succs[Path[i].node][k]] # "WHITE"
    BY <1>14, <2>2, <2>3
  <2>5. \A i \in 1 .. m + 2 : \A k \in DOMAIN succs'[Path'[i].node] :
          k < Path'[i].it => m_visited'[succs'[Path'[i].node][k]] # "WHITE"
    BY SMTT(30), <1>1, <1>3, <1>4, <1>5, <1>14, <2>4
  <2>6. \A n \in Nodes : m_visited'[n] = "BLACK" =>
          \A k \in DOMAIN succs[n] : m_visited'[succs[n][k]] # "WHITE"
    BY <1>6, <1>14, <2>2 DEF ScannedKnown
  <2> QED
    BY <1>1, <1>2, <2>5, <2>6 DEF ScannedKnown, Known
<1>16. ScannedEdges'
  <2>1. \A i \in 1 .. m + 1 : \A k \in DOMAIN succs[Path[i].node] :
          k < Path[i].it =>
            \/ <<Path[i].node, succs[Path[i].node][k]>> \in backEdges
            \/ succs[Path[i].node][k] \in Finished
            \/ i < Len(Path) /\ k = Path[i].it - 1
    BY <1>2 DEF ScannedEdges
  <2>2. ~(m + 1 < Len(Path))
    BY <1>2
  <2>3. \A i \in 1 .. m + 1 : \A k \in DOMAIN succs[Path[i].node] :
          k < Path'[i].it =>
            \/ <<Path[i].node, succs[Path[i].node][k]>> \in backEdges
            \/ succs[Path[i].node][k] \in Finished
            \/ k = Path'[i].it - 1
    BY ZenonT(30), <1>4, <1>5, <1>14, <2>1, <2>2
  <2>4. \A i \in 1 .. m + 2 : \A k \in DOMAIN succs'[Path'[i].node] :
          k < Path'[i].it =>
            \/ <<Path'[i].node, succs'[Path'[i].node][k]>> \in backEdges'
            \/ succs'[Path'[i].node][k] \in Finished'
            \/ i < Len(Path') /\ k = Path'[i].it - 1
    BY <1>1, <1>3, <1>4, <1>5, <1>8, <1>14, <2>3
  <2> QED
    BY <1>2, <2>4 DEF ScannedEdges
<1>17. OnlyReachable'
  <2>1. \A S \in SUBSET Nodes : Entry \in S /\ ClosedSet(S) => Succ \in S
    BY <1>3, <1>7 DEF OnlyReachable, ClosedSet, Succ
  <2> QED
    BY <1>1, <1>8, <2>1 DEF OnlyReachable, ClosedSet
<1>18. Started'
  <2>1. discovered # << >>
    BY <1>3, DFSAssumption DEF Started
  <2>2. discovered' # << >>
    BY <1>8 DEF Discovered, Elements
  <2> QED
    BY <1>8, <2>1, <2>2 DEF Started
<1>19. ReversePostorder'
  BY SMTT(30), <1>1, <1>8 DEF ReversePostorder, Before
<1> QED
  BY <1>3, <1>10, <1>11, <1>12, <1>15, <1>16, <1>17, <1>18, <1>19

-----------------------------------------------------------------------------
LEMMA InitIInv == Init => IInv
<1> SUFFICES ASSUME Init PROVE IInv
  OBVIOUS
<1>1. TypeOK
  BY DFSAssumption DEF Init, TypeOK
<1>2. Path = << >> /\ Discovered = {} /\ Finished = {}
  BY DEF Init, Path, Discovered, Finished, Elements
<1>3. StackIsGreyPath /\ ScannedKnown /\ ScannedEdges
  BY <1>2 DEF Init, StackIsGreyPath, ScannedKnown, ScannedEdges
<1> QED
  BY <1>1, <1>2, <1>3
     DEF Init, IInv, VisitedOnce, Once, ColorsMatch, Known, OnlyReachable, Started,
         ReversePostorder

LEMMA NextIInv == IInv /\ [Next]_vars => IInv'
<1> SUFFICES ASSUME IInv, [Next]_vars PROVE IInv'
  OBVIOUS
<1>1. CASE Start
  BY <1>1, StartPreserves
<1>2. CASE Pop
  BY <1>2, PopPreserves
<1>3. CASE Scan
  BY <1>3, ScanPreserves
<1>4. CASE Finish
  BY <1>4, FinishPreserves
<1>5. CASE Descend
  BY <1>5, DescendPreserves
<1>6. CASE UNCHANGED vars
  <2>1. /\ UNCHANGED <<succs, m_visited, m_stack, parent, cur_it, discovered, finished, backEdges>>
    BY <1>6 DEF vars
  <2>2. Path' = Path /\ Discovered' = Discovered /\ Finished' = Finished /\ TypeOK'
    BY <2>1 DEF Path, Discovered, Finished, Elements, IInv, TypeOK
  <2>3. StackIsGreyPath' /\ VisitedOnce' /\ ColorsMatch' /\ ScannedKnown'
    BY <2>1, <2>2 DEF IInv, StackIsGreyPath, VisitedOnce, Once, ColorsMatch, ScannedKnown, Known
  <2>4. ScannedEdges' /\ OnlyReachable' /\ Started' /\ ReversePostorder'
    BY <2>1, <2>2 DEF IInv, ScannedEdges, OnlyReachable, ClosedSet, Started,
                      ReversePostorder, Before
  <2> QED
    BY <2>2, <2>3, <2>4 DEF IInv
<1> QED
  BY <1>1, <1>2, <1>3, <1>4, <1>5, <1>6 DEF Next, Step, Done

(* The search keeps its types. *)
THEOREM TypeCorrect == Spec => []TypeOK
<1>1. IInv => TypeOK
  BY DEF IInv
<1> QED
  BY <1>1, InitIInv, NextIInv, PTL DEF Spec

(* The stack is the path of grey blocks to where the search is. *)
THEOREM StackIsPath == Spec => []StackIsGreyPath
<1>1. IInv => StackIsGreyPath
  BY DEF IInv
<1> QED
  BY <1>1, InitIInv, NextIInv, PTL DEF Spec

(* No block is discovered twice or finished twice. *)
THEOREM NothingVisitedTwice == Spec => []VisitedOnce
<1>1. IInv => VisitedOnce
  BY DEF IInv
<1> QED
  BY <1>1, InitIInv, NextIInv, PTL DEF Spec

LEMMA AllVisited == IInv => VisitsReachable
<1> SUFFICES ASSUME IInv, Stopped PROVE /\ Finished = Discovered
                                        /\ Entry \in Discovered /\ ClosedSet(Discovered)
                                        /\ OnlyReachable
  BY DEF VisitsReachable, OnlyReachable
<1> USE DEF IInv
<1>1. Path = << >> /\ DOMAIN Path = {}
  BY DEF Stopped, Path
<1>2. \A n \in Nodes : m_visited[n] \in {"WHITE", "BLACK"}
  BY <1>1, OrdersType DEF StackIsGreyPath
<1>3. Finished = Discovered
  BY <1>2, OrdersType DEF ColorsMatch, Known
<1>4. \A n \in Discovered : \A k \in DOMAIN succs[n] : succs[n][k] \in Discovered
  BY <1>3, OrdersType, SuccsType DEF ColorsMatch, ScannedKnown
<1> QED
  BY <1>3, <1>4 DEF ClosedSet, Started, Stopped

(***************************************************************************)
(* When the search stops it has visited exactly what is reachable: no grey *)
(* block is left, so all that was discovered is black, and black blocks    *)
(* lead to known ones only.                                                *)
(***************************************************************************)
THEOREM AllReachableVisited == Spec => []VisitsReachable
  BY AllVisited, InitIInv, NextIInv, PTL DEF Spec

(* Only back edges lead backwards in reverse postorder. *)
THEOREM ReversePostorderSorts == Spec => []ReversePostorder
<1>1. IInv => ReversePostorder
  BY DEF IInv
<1> QED
  BY <1>1, InitIInv, NextIInv, PTL DEF Spec

-----------------------------------------------------------------------------
(* The order of discovery.                                                 *)

\* The head comes first; any other block is entered over an edge from one before it.
EnteredByEdge ==
  /\ discovered # << >> => discovered[1] = Entry
  /\ \A i \in DOMAIN discovered : i # 1 =>
       \E j \in 1 .. i - 1 : IsEdge(succs, discovered[j], discovered[i])

LEMMA NextEntered ==
  ASSUME IInv, EnteredByEdge, [Next]_vars
  PROVE  EnteredByEdge'
<1>1. discovered \in Seq(Nodes)
  BY DEF IInv, TypeOK
<1>2. CASE Start
  <2>1. discovered' = <<Entry>> /\ DOMAIN discovered' = {1}
    BY <1>2 DEF Start, Visit
  <2> QED
    BY <2>1 DEF EnteredByEdge
<1>3. CASE Descend
  <2>1. /\ discovered' = Append(discovered, Succ) /\ succs' = succs
        /\ Succ \in Nodes /\ parent \in Nodes /\ cur_it \in DOMAIN succs[parent]
    BY <1>3, DescendStep DEF Descend, Visit
  <2>2. parent \in Discovered
    <3>1. Path = Append(m_stack, Top(cur_it)) /\ m_stack \in Seq(Entries) /\ Top(cur_it) \in Entries
      BY <1>3, PathType DEF IInv, Descend
    <3>2. Len(m_stack) + 1 \in DOMAIN Path /\ Path[Len(m_stack) + 1] = Top(cur_it)
      BY <3>1, AppendFacts
    <3>3. m_visited[parent] = "GREY"
      BY <2>1, <3>2 DEF IInv, StackIsGreyPath, Top
    <3> QED
      BY <2>1, <3>3 DEF IInv, ColorsMatch, Known
  <2>3. PICK j \in DOMAIN discovered : discovered[j] = parent
    BY <2>2 DEF Discovered, Elements
  <2>4. IsEdge(succs, parent, Succ)
    BY <2>1 DEF IsEdge, Succ
  <2>5. /\ DOMAIN discovered = 1 .. Len(discovered) /\ Len(discovered) \in Nat
        /\ DOMAIN discovered' = 1 .. Len(discovered) + 1
        /\ \A i \in 1 .. Len(discovered) : discovered'[i] = discovered[i]
        /\ discovered'[Len(discovered) + 1] = Succ
    BY <1>1, <2>1, AppendFacts
  <2>6. discovered # << >> /\ 1 \in DOMAIN discovered
    BY <2>3, <2>5
  <2>7. ASSUME NEW i \in DOMAIN discovered', i # 1
        PROVE  \E k \in 1 .. i - 1 : IsEdge(succs', discovered'[k], discovered'[i])
    <3>1. CASE i = Len(discovered) + 1
      BY <2>1, <2>3, <2>4, <2>5, <3>1
    <3>2. CASE i # Len(discovered) + 1
      <4>1. i \in 1 .. Len(discovered)
        BY <2>5, <3>2
      <4>2. PICK k \in 1 .. i - 1 : IsEdge(succs, discovered[k], discovered[i])
        BY <2>5, <2>7, <4>1 DEF EnteredByEdge
      <4> QED
        BY <2>1, <2>5, <4>1, <4>2
    <3> QED
      BY <3>1, <3>2
  <2> QED
    BY <2>5, <2>6, <2>7 DEF EnteredByEdge
<1>4. CASE UNCHANGED <<succs, discovered>>
  BY <1>4 DEF EnteredByEdge, IsEdge
<1> QED
  BY <1>2, <1>3, <1>4 DEF Next, Step, Done, Pop, Scan, Finish, vars

(* The order of discovery is that of a search: each block but the head is  *)
(* a successor of one before it.  The dominator tree takes this order.     *)
THEOREM DiscoveredAlongEdges == Spec => []EnteredByEdge
<1>1. Init => EnteredByEdge
  BY DEF Init, EnteredByEdge
<1>2. IInv /\ EnteredByEdge /\ [Next]_vars => EnteredByEdge'
  BY NextEntered
<1> QED
  BY <1>1, <1>2, InitIInv, NextIInv, PTL DEF Spec

-----------------------------------------------------------------------------
(* The back edges: what is reported stays below its target on the path.     *)


\* The blocks of the path were discovered in this order.
PathOrder ==
  \A i, j \in DOMAIN Path : i < j => Before(discovered, Path[i].node, Path[j].node)

\* What a reported edge leads to is an ancestor, or its source.
Encloses(e) == e[1] = e[2] \/ Before(discovered, e[2], e[1])
BelowOnPath(e) ==
  \A j \in DOMAIN Path : Path[j].node = e[1] =>
    \E i \in DOMAIN Path : i <= j /\ Path[i].node = e[2]
FinishedLater(e) == e[2] \in Finished => e[1] = e[2] \/ Before(finished, e[1], e[2])

Reported ==
  \A e \in backEdges :
    /\ e[1] \in Discovered /\ e[2] \in Discovered /\ IsEdge(succs, e[1], e[2])
    /\ Encloses(e) /\ BelowOnPath(e) /\ FinishedLater(e)

BInv == IInv /\ PathOrder /\ Reported

(* The parts of BInv that only read the blocks of the path and the orders. *)
LEMMA SamePath ==
  ASSUME BInv, UNCHANGED <<succs, discovered, finished, backEdges>>,
         DOMAIN Path' = DOMAIN Path, \A i \in DOMAIN Path : Path'[i].node = Path[i].node
  PROVE  PathOrder' /\ Reported'
<1>1. Discovered' = Discovered /\ Finished' = Finished
  BY DEF Discovered, Finished, Elements
<1>2. PathOrder'
  BY DEF BInv, PathOrder, Before
<1>3. Reported'
  BY <1>1 DEF BInv, Reported, IsEdge, Encloses, BelowOnPath, FinishedLater, Before
<1> QED
  BY <1>2, <1>3

LEMMA StartReports ==
  ASSUME BInv, Start
  PROVE  PathOrder' /\ Reported'
<1> USE DEF BInv
<1>1. backEdges' = backEdges /\ Discovered = {}
  BY DEF Start, Discovered, Elements
<1>2. backEdges = {}
  BY <1>1 DEF Reported
<1>3. DOMAIN Path' = {1}
  BY StartStep
<1>4. PathOrder'
  BY <1>3 DEF PathOrder
<1> QED
  BY <1>1, <1>2, <1>4 DEF Reported

LEMMA PopReports ==
  ASSUME BInv, Pop
  PROVE  PathOrder' /\ Reported'
<1>1. UNCHANGED <<succs, discovered, finished, backEdges>> /\ Path' = Path
  BY PopStep DEF BInv, Pop
<1> QED
  BY <1>1, SamePath

(* A successor that is grey is on the path, at or below the block that     *)
(* leads to it.                                                            *)
LEMMA ScanReports ==
  ASSUME BInv, Scan
  PROVE  PathOrder' /\ Reported'
<1> USE DEF BInv
<1> DEFINE m == Len(m_stack)
<1>1. /\ UNCHANGED <<succs, m_visited, discovered, finished>>
      /\ backEdges' = IF IsOpen(Succ) THEN backEdges \cup {<<parent, Succ>>} ELSE backEdges
  BY DEF Scan
<1>2. /\ m \in Nat
      /\ DOMAIN Path = 1 .. m + 1 /\ DOMAIN Path' = 1 .. m + 1
      /\ \A i \in 1 .. m : Path'[i] = Path[i]
      /\ Path[m + 1] = Top(cur_it) /\ Path'[m + 1] = Top(cur_it + 1)
  <2>1. /\ Path = Append(m_stack, Top(cur_it)) /\ Path' = Append(m_stack, Top(cur_it + 1))
        /\ m_stack \in Seq(Entries)
        /\ Top(cur_it) \in Entries /\ Top(cur_it + 1) \in Entries
    <3>1. cur_it \in Nat \ {0} /\ parent \in Nodes
      BY ScanStep DEF IInv, Scan, TypeOK
    <3> QED
      BY <3>1, ScanStep, PathType DEF IInv, Entries, Top
  <2> QED
    BY <2>1, AppendFacts
<1>3. /\ Path[m + 1].node = parent /\ Path'[m + 1].node = parent
      /\ parent \in Nodes /\ Succ \in Nodes /\ cur_it \in DOMAIN succs[parent]
  BY <1>2, ScanStep DEF Top
<1> HIDE DEF m
<1>4. \A i \in 1 .. m + 1 : Path'[i].node = Path[i].node
  BY <1>2, <1>3
<1>5. Discovered' = Discovered /\ Finished' = Finished
  BY <1>1 DEF Discovered, Finished, Elements
<1>6. PathOrder'
  BY <1>1, <1>2, <1>4 DEF PathOrder, Before
<1>7. \A e \in backEdges :
        /\ e[1] \in Discovered' /\ e[2] \in Discovered' /\ IsEdge(succs', e[1], e[2])
        /\ Encloses(e)' /\ BelowOnPath(e)' /\ FinishedLater(e)'
  BY <1>1, <1>2, <1>4, <1>5 DEF Reported, IsEdge, Encloses, BelowOnPath, FinishedLater, Before
<1>8. ASSUME NEW e, IsOpen(Succ), e = <<parent, Succ>>
      PROVE  /\ e[1] \in Discovered' /\ e[2] \in Discovered' /\ IsEdge(succs', e[1], e[2])
             /\ Encloses(e)' /\ BelowOnPath(e)' /\ FinishedLater(e)'
  <2>1. m_visited[Succ] = "GREY"
    BY <1>8 DEF IsOpen
  <2>2. PICK i \in 1 .. m + 1 : Path[i].node = Succ
    BY <1>2, <1>3, <2>1 DEF IInv, StackIsGreyPath
  <2>3. m_visited[parent] = "GREY"
    BY <1>2, <1>3 DEF IInv, StackIsGreyPath
  <2>4. parent \in Discovered /\ Succ \in Discovered /\ Succ \notin Finished
    BY <1>3, <2>1, <2>3 DEF IInv, ColorsMatch, Known
  <2>5. IsEdge(succs, parent, Succ)
    BY <1>3 DEF IsEdge, Succ
  <2>6. Succ = parent \/ Before(discovered, Succ, parent)
    <3>1. i < m + 1 => Before(discovered, Path[i].node, Path[m + 1].node)
      BY <1>2 DEF PathOrder
    <3> QED
      BY <1>2, <1>3, <2>2, <3>1
  <2>7. \A j \in DOMAIN Path' : Path'[j].node = parent =>
          \E k \in DOMAIN Path' : k <= j /\ Path'[k].node = Succ
    <3>1. \A j \in 1 .. m + 1 : Path[j].node = parent => j = m + 1
      BY <1>2, <1>3 DEF IInv, StackIsGreyPath
    <3> QED
      BY <1>2, <1>4, <2>2, <3>1
  <2>8. e[1] = parent /\ e[2] = Succ
    BY <1>8
  <2>9. Encloses(e)' /\ BelowOnPath(e)' /\ FinishedLater(e)'
    BY <1>1, <1>5, <2>4, <2>6, <2>7, <2>8 DEF Encloses, BelowOnPath, FinishedLater, Before
  <2>10. e[1] \in Discovered' /\ e[2] \in Discovered' /\ IsEdge(succs', e[1], e[2])
    BY <1>1, <1>5, <2>4, <2>5, <2>8 DEF IsEdge
  <2> QED
    BY <2>9, <2>10
<1>9. Reported'
  BY <1>1, <1>7, <1>8 DEF Reported
<1> QED
  BY <1>6, <1>9

(* The block that is finished is the last of the path: the sources of the  *)
(* edges to it are finished before or below it.                            *)
LEMMA FinishReports ==
  ASSUME BInv, Finish
  PROVE  PathOrder' /\ Reported'
<1> USE DEF BInv
<1> DEFINE m == Len(m_stack)
<1>1. /\ UNCHANGED <<succs, discovered, backEdges>>
      /\ finished' = Append(finished, parent) /\ finished \in Seq(Nodes)
      /\ parent \in Nodes
  BY FinishStep DEF IInv, Finish, TypeOK
<1>2. /\ m \in Nat /\ DOMAIN Path = 1 .. m + 1 /\ DOMAIN Path' = 1 .. m
      /\ \A i \in 1 .. m : Path'[i] = Path[i]
      /\ Path[m + 1] = Top(cur_it)
  <2>1. /\ Path = Append(m_stack, Top(cur_it)) /\ Path' = m_stack
        /\ m_stack \in Seq(Entries) /\ Top(cur_it) \in Entries
    BY FinishStep, PathType DEF IInv, Finish
  <2> QED
    BY <2>1, AppendFacts
<1>3. Path[m + 1].node = parent
  BY <1>2 DEF Top
<1> HIDE DEF m
<1>4. Discovered' = Discovered
  BY <1>1 DEF Discovered, Elements
<1>5. PathOrder'
  BY <1>1, <1>2 DEF PathOrder, Before
<1>6. /\ Finished' = Finished \cup {parent}
      /\ \A u, v : Before(finished, u, v) => Before(finished', u, v)
      /\ \A u \in Finished : Before(finished', u, parent)
  BY <1>1, AppendElements DEF Finished
<1>7. ASSUME NEW e \in backEdges
      PROVE  Encloses(e)' /\ BelowOnPath(e)' /\ FinishedLater(e)'
  <2>1. Encloses(e) /\ BelowOnPath(e) /\ FinishedLater(e) /\ e[1] \in Discovered
    BY DEF Reported
  <2>2. Encloses(e)'
    BY <1>1, <2>1 DEF Encloses, Before
  <2>3. BelowOnPath(e)'
    BY <1>2, <2>1 DEF BelowOnPath
  <2>4. e[2] = parent => e[1] = parent \/ e[1] \in Finished
    <3> SUFFICES ASSUME e[2] = parent, e[1] \notin Finished PROVE e[1] = parent
      OBVIOUS
    <3>1. e[1] \in Nodes /\ m_visited[e[1]] = "GREY"
      BY <2>1, OrdersType DEF IInv, ColorsMatch, Known
    <3>2. PICK j \in 1 .. m + 1 : Path[j].node = e[1]
      BY <1>2, <3>1 DEF IInv, StackIsGreyPath
    <3>3. PICK i \in 1 .. m + 1 : i <= j /\ Path[i].node = parent
      BY <1>2, <2>1, <3>2 DEF BelowOnPath
    <3>4. i = m + 1
      BY <1>2, <1>3, <3>3 DEF IInv, StackIsGreyPath
    <3> QED
      BY <1>2, <1>3, <3>2, <3>3, <3>4
  <2>5. FinishedLater(e)'
    BY <1>6, <2>1, <2>4 DEF FinishedLater
  <2> QED
    BY <2>2, <2>3, <2>5
<1>8. Reported'
  BY <1>1, <1>4, <1>7 DEF Reported, IsEdge
<1> QED
  BY <1>5, <1>8

(* A block that is entered is new: no reported edge knows it.              *)
LEMMA DescendReports ==
  ASSUME BInv, Descend
  PROVE  PathOrder' /\ Reported'
<1> USE DEF BInv
<1> DEFINE m == Len(m_stack)
<1>1. /\ UNCHANGED <<succs, finished, backEdges>>
      /\ discovered' = Append(discovered, Succ) /\ discovered \in Seq(Nodes)
      /\ Succ \in Nodes /\ ~Known(Succ)
  BY DescendStep DEF IInv, Descend, Visit, TypeOK
<1>2. /\ m \in Nat /\ DOMAIN Path = 1 .. m + 1 /\ DOMAIN Path' = 1 .. m + 2
      /\ \A i \in 1 .. m : Path'[i] = Path[i]
      /\ Path[m + 1] = Top(cur_it) /\ Path'[m + 1] = Top(cur_it + 1)
      /\ Path'[m + 2] = Fresh(Succ)
  <2> DEFINE s == Append(m_stack, Top(cur_it + 1))
  <2>1. /\ Path = Append(m_stack, Top(cur_it)) /\ Path' = Append(s, Fresh(Succ))
        /\ m_stack \in Seq(Entries) /\ Top(cur_it) \in Entries
        /\ Top(cur_it + 1) \in Entries /\ Fresh(Succ) \in Entries
    BY DescendStep, PathType DEF IInv, Descend
  <2>2. /\ s \in Seq(Entries) /\ Len(s) = m + 1 /\ s[m + 1] = Top(cur_it + 1)
        /\ \A i \in 1 .. m : s[i] = m_stack[i]
    BY <2>1, AppendFacts
  <2>3. /\ m \in Nat /\ DOMAIN Path = 1 .. m + 1 /\ Path[m + 1] = Top(cur_it)
        /\ \A i \in 1 .. m : Path[i] = m_stack[i]
    BY <2>1, AppendFacts
  <2> HIDE DEF s
  <2>4. /\ DOMAIN Path' = 1 .. Len(s) + 1 /\ Path'[Len(s) + 1] = Fresh(Succ)
        /\ \A i \in 1 .. Len(s) : Path'[i] = s[i]
    BY <2>1, <2>2, AppendFacts
  <2> HIDE DEF m
  <2>5. Len(s) + 1 = m + 2 /\ m + 1 \in 1 .. Len(s) /\ \A i \in 1 .. m : i \in 1 .. Len(s)
    BY <2>2, <2>3
  <2> QED
    BY <2>2, <2>3, <2>4, <2>5
<1>3. /\ \A i \in 1 .. m + 1 : Path'[i].node = Path[i].node
      /\ Path'[m + 2].node = Succ
  <2>1. Path'[m + 1].node = Path[m + 1].node /\ Path'[m + 2].node = Succ
    BY <1>2 DEF Top, Fresh
  <2> HIDE DEF m
  <2> QED
    BY <1>2, <2>1
<1> HIDE DEF m
<1>4. /\ Discovered' = Discovered \cup {Succ}
      /\ \A u, v : Before(discovered, u, v) => Before(discovered', u, v)
      /\ \A u \in Discovered : Before(discovered', u, Succ)
  BY <1>1, AppendElements DEF Discovered
<1>5. Succ \notin Discovered
  BY <1>1 DEF IInv, ColorsMatch
<1>6. Finished' = Finished
  BY <1>1 DEF Finished, Elements
<1>7. \A i \in 1 .. m + 1 : Path[i].node \in Discovered
  <2> TAKE i \in 1 .. m + 1
  <2>1. Path[i].node \in Nodes
    BY <1>2, PathNodes DEF IInv
  <2>2. m_visited[Path[i].node] = "GREY"
    BY <1>2, <2>1 DEF IInv, StackIsGreyPath
  <2> QED
    BY <2>1, <2>2 DEF IInv, ColorsMatch, Known
<1>8. PathOrder'
  <2> SUFFICES ASSUME NEW i \in 1 .. m + 2, NEW j \in 1 .. m + 2, i < j
               PROVE  Before(discovered', Path'[i].node, Path'[j].node)
    BY <1>2 DEF PathOrder
  <2>1. CASE j = m + 2
    <3>1. i \in 1 .. m + 1
      BY <1>2, <2>1
    <3> QED
      BY <1>3, <1>4, <1>7, <2>1, <3>1
  <2>2. CASE j # m + 2
    <3>1. i \in 1 .. m + 1 /\ j \in 1 .. m + 1
      BY <1>2, <2>2
    <3>2. Before(discovered, Path[i].node, Path[j].node)
      BY <1>2, <3>1 DEF PathOrder
    <3> QED
      BY <1>3, <1>4, <3>1, <3>2
  <2> QED
    BY <2>1, <2>2
<1>9. ASSUME NEW e \in backEdges
      PROVE  Encloses(e)' /\ BelowOnPath(e)' /\ FinishedLater(e)'
  <2>1. Encloses(e) /\ BelowOnPath(e) /\ FinishedLater(e) /\ e[1] \in Discovered
    BY DEF Reported
  <2>2. Encloses(e)'
    BY <1>4, <2>1 DEF Encloses
  <2>3. FinishedLater(e)'
    BY <1>1, <1>6, <2>1 DEF FinishedLater, Before
  <2>4. BelowOnPath(e)'
    <3> SUFFICES ASSUME NEW j \in 1 .. m + 2, Path'[j].node = e[1]
                 PROVE  \E i \in 1 .. m + 2 : i <= j /\ Path'[i].node = e[2]
      BY <1>2 DEF BelowOnPath
    <3>1. j \in 1 .. m + 1
      BY <1>2, <1>3, <1>5, <2>1
    <3>2. PICK i \in 1 .. m + 1 : i <= j /\ Path[i].node = e[2]
      BY <1>2, <1>3, <2>1, <3>1 DEF BelowOnPath
    <3> QED
      BY <1>2, <1>3, <3>2
  <2> QED
    BY <2>2, <2>3, <2>4
<1>10. Reported'
  BY <1>1, <1>4, <1>9 DEF Reported, IsEdge
<1> QED
  BY <1>8, <1>10

-----------------------------------------------------------------------------
LEMMA InitBInv == Init => BInv
<1> SUFFICES ASSUME Init PROVE PathOrder /\ Reported
  BY InitIInv DEF BInv
<1>1. Path = << >> /\ backEdges = {}
  BY DEF Init, Path
<1> QED
  BY <1>1 DEF PathOrder, Reported

LEMMA NextBInv == BInv /\ [Next]_vars => BInv'
<1> SUFFICES ASSUME BInv, [Next]_vars PROVE PathOrder' /\ Reported'
  BY NextIInv DEF BInv
<1>1. CASE UNCHANGED vars
  <2>1. UNCHANGED <<succs, discovered, finished, backEdges>> /\ Path' = Path
    BY <1>1 DEF vars, Path
  <2> QED
    BY <2>1, SamePath
<1> QED
  BY <1>1, StartReports, PopReports, ScanReports, FinishReports, DescendReports
     DEF Next, Step, Done

(* An open successor is the popped block itself, or it was discovered      *)
(* before it, and so was the block the path goes on with from there.       *)
LEMMA OpenSuccessor ==
  ASSUME BInv, Scan, IsOpen(Succ)
  PROVE  /\ parent \in Discovered /\ Succ \in Discovered /\ IsEdge(succs, parent, Succ)
         /\ \/ parent = Succ
            \/ /\ Before(discovered, Succ, parent)
               /\ \E c \in Nodes : IsEdge(succs, Succ, c) /\ Before(discovered, Succ, c)
<1> USE DEF BInv
<1> DEFINE m == Len(m_stack)
<1>1. /\ Path = Append(m_stack, Top(cur_it)) /\ m_stack \in Seq(Entries)
      /\ Top(cur_it) \in Entries /\ parent \in Nodes /\ Succ \in Nodes
      /\ cur_it \in DOMAIN succs[parent]
  <2>1. cur_it \in Nat \ {0} /\ parent \in Nodes
    BY ScanStep DEF IInv, Scan, TypeOK
  <2> QED
    BY <2>1, ScanStep, PathType DEF IInv, Entries, Top
<1>2. /\ m \in Nat /\ DOMAIN m_stack = 1 .. m /\ DOMAIN Path = 1 .. m + 1
      /\ \A i \in 1 .. m : Path[i] = m_stack[i]
      /\ Path[m + 1] = Top(cur_it)
  BY <1>1, AppendFacts
<1>3. Path[m + 1].node = parent
  BY <1>2 DEF Top
<1>4. m_visited[Succ] = "GREY"
  BY DEF IsOpen
<1>5. PICK i \in 1 .. m + 1 : Path[i].node = Succ
  BY <1>1, <1>2, <1>4 DEF IInv, StackIsGreyPath
<1>6. m_visited[parent] = "GREY"
  BY <1>1, <1>2, <1>3 DEF IInv, StackIsGreyPath
<1>7. parent \in Discovered /\ Succ \in Discovered /\ IsEdge(succs, parent, Succ)
  <2>1. IsEdge(succs, parent, Succ)
    BY <1>1 DEF IsEdge, Succ
  <2> QED
    BY <1>1, <1>4, <1>6, <2>1 DEF IInv, ColorsMatch, Known
<1> HIDE DEF m
<1>8. CASE i = m + 1
  BY <1>3, <1>5, <1>7, <1>8
<1>9. CASE i < m + 1
  <2>1. i \in 1 .. m /\ i + 1 \in 1 .. m + 1 /\ i + 1 # 1
    BY <1>2, <1>9
  <2>2. Before(discovered, Succ, parent) /\ Before(discovered, Succ, Path[i + 1].node)
    BY <1>2, <1>3, <1>5, <1>9, <2>1 DEF PathOrder
  <2>3. /\ Path[i].it >= 2 /\ succs[Path[i].node][Path[i].it - 1] = Path[i + 1].node
    <3>1. PICK j \in 1 .. m + 1 : j = i + 1
      BY <2>1
    <3>2. j # 1 /\ j - 1 = i
      BY <2>1, <3>1
    <3>3. /\ Path[j - 1].it >= 2
          /\ succs[Path[j - 1].node][Path[j - 1].it - 1] = Path[j].node
      BY <1>2, <3>2 DEF IInv, StackIsGreyPath
    <3> QED
      BY <3>1, <3>2, <3>3
  <2>4. Path[i].it \in Nat /\ Path[i].it <= Len(succs[Path[i].node]) + 1
    <3>1. Path[i] = m_stack[i] /\ i \in DOMAIN m_stack
      BY <1>2, <2>1
    <3>2. m_stack[i] \in Entries
      BY <1>1, <3>1
    <3>3. m_stack[i].it <= Len(succs[m_stack[i].node]) + 1
      BY <3>1 DEF IInv, TypeOK
    <3>4. m_stack[i].it \in Nat
      BY <3>2 DEF Entries
    <3> QED
      BY <3>1, <3>3, <3>4
  <2>5. Path[i + 1].node \in Nodes
    BY <1>2, <2>1, PathNodes DEF IInv
  <2>6. /\ DOMAIN succs[Succ] = 1 .. Len(succs[Succ]) /\ Len(succs[Succ]) \in Nat
    BY <1>1, SuccsType DEF IInv
  <2>7. IsEdge(succs, Succ, Path[i + 1].node)
    <3>1. Path[i].it - 1 \in DOMAIN succs[Succ]
      BY <1>5, <2>3, <2>4, <2>6
    <3> QED
      BY <1>5, <2>3, <3>1 DEF IsEdge
  <2> QED
    BY <1>7, <2>2, <2>5, <2>7
<1> QED
  BY <1>2, <1>5, <1>8, <1>9

(***************************************************************************)
(* When the search has stopped, the reported edges are exactly the edges   *)
(* to an ancestor or to the block itself: what is reported stays below its *)
(* target on the path until it is finished, and an edge that is not        *)
(* reported leads to a block that is finished first.                       *)
(***************************************************************************)
THEOREM BackEdgesAreExact == Spec => []BackEdgesExact
<1>1. BInv => BackEdgesExact
  <2> SUFFICES ASSUME BInv, Stopped
               PROVE  backEdges = {e \in Discovered \X Discovered :
                        /\ IsEdge(succs, e[1], e[2])
                        /\ \/ e[1] = e[2]
                           \/ Before(discovered, e[2], e[1]) /\ Before(finished, e[1], e[2])}
    BY DEF BackEdgesExact
  <2> USE DEF BInv
  <2>1. Path = << >> /\ DOMAIN Path = {}
    BY DEF Stopped, Path
  <2>2. \A n \in Nodes : m_visited[n] \in {"WHITE", "BLACK"}
    BY <2>1, OrdersType DEF IInv, StackIsGreyPath
  <2>3. Finished = Discovered
    BY <2>2, OrdersType DEF IInv, ColorsMatch, Known
  <2>4. ASSUME NEW e \in backEdges
        PROVE  /\ e \in Discovered \X Discovered /\ IsEdge(succs, e[1], e[2])
               /\ \/ e[1] = e[2]
                  \/ Before(discovered, e[2], e[1]) /\ Before(finished, e[1], e[2])
    <3>1. e \in Nodes \X Nodes
      BY DEF IInv, TypeOK
    <3>2. /\ e[1] \in Discovered /\ e[2] \in Discovered /\ IsEdge(succs, e[1], e[2])
          /\ Encloses(e) /\ FinishedLater(e)
      BY DEF Reported
    <3> QED
      BY <2>3, <3>1, <3>2 DEF Encloses, FinishedLater
  <2>5. ASSUME NEW u \in Discovered, NEW v \in Discovered, IsEdge(succs, u, v),
               u = v \/ Before(finished, u, v)
        PROVE  <<u, v>> \in backEdges
    <3>1. <<u, v>> \in backEdges \/ Before(finished, v, u)
      BY <2>3, <2>5 DEF IInv, ReversePostorder, IsEdge
    <3>2. ~Before(finished, v, u)
      <4>1. Once(finished) /\ finished \in Seq(Nodes)
        BY DEF IInv, VisitedOnce, TypeOK
      <4> SUFFICES ASSUME NEW i \in DOMAIN finished, NEW j \in DOMAIN finished,
                          i < j, finished[i] = v, finished[j] = u
                   PROVE  FALSE
        BY DEF Before
      <4>2. i # j
        BY <4>1
      <4>3. CASE u = v
        BY <4>1, <4>2, <4>3 DEF Once
      <4>4. CASE Before(finished, u, v)
        <5>1. PICK k, l \in DOMAIN finished : k < l /\ finished[k] = u /\ finished[l] = v
          BY <4>4 DEF Before
        <5>2. k = j /\ l = i
          BY <4>1, <5>1 DEF Once
        <5> QED
          BY <4>1, <5>1, <5>2
      <4> QED
        BY <2>5, <4>3, <4>4
    <3> QED
      BY <3>1, <3>2
  <2> QED
    BY <2>4, <2>5
<1> QED
  BY <1>1, InitBInv, NextBInv, PTL DEF Spec
=============================================================================
