----------------------------- MODULE LivenessProofs -----------------------------
(***************************************************************************)
(* Proofs about LinearOrder, and about Liveness on top of it, for every    *)
(* graph and every program.  The steps of the loop tree builder are among  *)
(* theirs, so they keep the invariants of LoopTreeProofs.                  *)
(***************************************************************************)
EXTENDS Liveness, LoopTreeProofs

-----------------------------------------------------------------------------
(* The linear order.                                                       *)

CallInv ==
  calls = << >> \/ \E l \in Loops, k \in Nat : /\ calls = <<[loop |-> l, at |-> k]>>
                                               /\ k <= Len(m_loops[l].body)
PlaceInv ==
  /\ m_linear_order \in Seq(Nodes) /\ Members(m_linear_order) = visited /\ visited \subseteq Reached
  /\ \A i, j \in DOMAIN m_linear_order : m_linear_order[i] = m_linear_order[j] => i = j
WalkInv ==
  /\ rpo_it \in Nat \ {0}
  /\ \A i \in DOMAIN m_rpo : i < rpo_it => m_rpo[i] \in visited
  /\ stage # "done" => /\ calls = << >> /\ visited = {} /\ m_linear_order = << >> /\ rpo_it = 1

LinearInv == LoopInv /\ CallInv /\ PlaceInv /\ WalkInv

LEMMA RpoFacts ==
  ASSUME LoopInv, stage = "done"
  PROVE  m_rpo \in Seq(Nodes) /\ Members(m_rpo) = Reached
<1> PICK s, t, n : s = finished /\ t = m_rpo /\ n = Len(finished)
  OBVIOUS
<1>1. s \in Seq(Nodes) /\ n = Len(s) /\ Members(s) = Reached
  <2>1. P!S!IInv /\ made \in MadeOrders /\ D!Stopped /\ finished \in Seq(Nodes)
    BY SearchFacts DEF LoopInv, TypesInv, GraphInv, P!S!BInv
  <2>2. Finished = Reached
    BY <2>1, StoppedFacts
  <2> QED
    BY <2>1, <2>2 DEF Finished
<1>2. DOMAIN s = 1 .. n /\ n \in Nat /\ t = [i \in DOMAIN s |-> s[n + 1 - i]]
  BY <1>1 DEF m_rpo, D!reverse_postorder
<1>3. \A i \in 1 .. n : n + 1 - i \in 1 .. n
  BY <1>2
<1>6. Members(t) = Members(s) /\ DOMAIN t = 1 .. n
  BY <1>2, Reversed
<1>7. t \in Seq(Nodes)
  <2>1. \A i \in 1 .. n : s[n + 1 - i] \in Nodes
    BY <1>1, <1>2, <1>3
  <2>2. t \in [1 .. n -> Nodes]
    BY <1>2, <1>6, <2>1
  <2> QED
    BY <1>2, <2>2
<1> QED
  BY <1>1, <1>6, <1>7

LEMMA PlaceStep ==
  ASSUME PlaceInv, NEW b \in Reached, b \in Nodes, b \notin visited, Place(b), UNCHANGED succs
  PROVE  PlaceInv' /\ visited \subseteq visited' /\ b \in visited'
<1>1. visited' = visited \cup {b} /\ m_linear_order' = Append(m_linear_order, b)
  BY DEF Place
<1>2. /\ m_linear_order' \in Seq(Nodes) /\ Members(m_linear_order') = Members(m_linear_order) \cup {b}
      /\ DOMAIN m_linear_order = 1 .. Len(m_linear_order) /\ Len(m_linear_order) \in Nat
      /\ DOMAIN m_linear_order' = 1 .. Len(m_linear_order) + 1
      /\ \A i \in DOMAIN m_linear_order : m_linear_order'[i] = m_linear_order[i]
      /\ m_linear_order'[Len(m_linear_order) + 1] = b
  BY <1>1, AppendMembers DEF PlaceInv
<1>3. \A i \in DOMAIN m_linear_order : m_linear_order[i] # b
  BY DEF PlaceInv, Members
<1>4. \A i, j \in DOMAIN m_linear_order' : m_linear_order'[i] = m_linear_order'[j] => i = j
  <2>1. \A i \in DOMAIN m_linear_order' : i \in DOMAIN m_linear_order \/ i = Len(m_linear_order) + 1
    BY <1>2
  <2> QED
    BY <1>2, <1>3, <2>1 DEF PlaceInv
<1>5. Members(m_linear_order)' = Members(m_linear_order')
  BY DEF Members
<1>6. Reached' = Reached
  BY SameReached
<1> QED
  BY <1>1, <1>2, <1>4, <1>5, <1>6 DEF PlaceInv

LEMMA BodyReached ==
  ASSUME LoopInv, stage = "done", NEW l \in Loops
  PROVE  /\ m_loops[l].body \in Seq(Nodes)
         /\ \A i \in DOMAIN m_loops[l].body :
              LET b == m_loops[l].body[i]
              IN b \in Body(l) /\ b \in Reached /\ b \in Nodes /\ HasLoop(b)
<1>1. m_loops[l].body \in Seq(Nodes)
  <2>1. m_loops[l] \in LoopRecs
    BY DEF LoopInv, TypesInv, LoopsInv, Loops
  <2> QED
    BY <2>1 DEF LoopRecs
<1>2. \A i \in DOMAIN m_loops[l].body : m_loops[l].body[i] \in Body(l)
  BY DEF Body, Members
<1>3. Body(l) \subseteq DOMAIN loop_of /\ DOMAIN loop_of \subseteq Reached
      /\ DOMAIN loop_of \subseteq Nodes
  BY DEF LoopInv, TypesInv, LoopsInv, BooksInv, ReachInv
<1> QED
  BY <1>1, <1>2, <1>3 DEF HasLoop

LEMMA NextNodeKeeps ==
  ASSUME LinearInv, NextNode
  PROVE  CallInv' /\ PlaceInv' /\ WalkInv'
<1> PICK b, it : b = m_rpo[rpo_it] /\ it = rpo_it
  OBVIOUS
<1>1. /\ stage = "done" /\ calls = << >> /\ it <= Len(m_rpo) /\ rpo_it' = it + 1
      /\ IF b \in visited THEN UNCHANGED <<calls, visited, m_linear_order>>
         ELSE Place(b) /\ calls' = IF StartsLoop(b) THEN <<Call(loop_of[b])>> ELSE << >>
      /\ UNCHANGED vars
  BY DEF NextNode
<1>2. UNCHANGED <<succs, stage, m_loops, finished>>
  BY <1>1 DEF vars, search, loops
<1>3. it \in DOMAIN m_rpo /\ it \in Nat \ {0} /\ b \in Nodes /\ b \in Reached
  <2>1. m_rpo \in Seq(Nodes) /\ Members(m_rpo) = Reached
    BY <1>1, RpoFacts DEF LinearInv
  <2>2. it \in DOMAIN m_rpo
    BY <1>1, <2>1 DEF LinearInv, WalkInv
  <2> QED
    BY <2>1, <2>2 DEF Members, LinearInv, WalkInv
<1>4. m_rpo' = m_rpo /\ Loops' = Loops /\ Reached' = Reached
  BY <1>2, SameReached DEF m_rpo, D!reverse_postorder, Loops
<1>5. visited \subseteq visited' /\ b \in visited' /\ PlaceInv'
  <2>1. CASE b \in visited
    <3>1. visited' = visited /\ m_linear_order' = m_linear_order
      BY <1>1, <2>1
    <3> QED
      BY <1>4, <2>1, <3>1 DEF LinearInv, PlaceInv, Members
  <2>2. CASE b \notin visited
    BY <1>1, <1>2, <1>3, <2>2, PlaceStep DEF LinearInv
  <2> QED
    BY <2>1, <2>2
<1>6. WalkInv'
  <2>1. \A i \in DOMAIN m_rpo : i < it + 1 => i < it \/ i = it
    <3>1. m_rpo \in Seq(Nodes)
      BY <1>1, RpoFacts DEF LinearInv
    <3> QED
      BY <1>3, <3>1
  <2>2. \A i \in DOMAIN m_rpo : i < it + 1 => m_rpo[i] \in visited'
    BY <1>5, <2>1 DEF LinearInv, WalkInv
  <2> QED
    BY <1>1, <1>2, <1>3, <1>4, <2>2 DEF WalkInv
<1>7. CallInv'
  <2>1. CASE calls' = << >>
    BY <2>1 DEF CallInv
  <2>2. CASE calls' = <<Call(loop_of[b])>>
    <3> PICK l, k : l = loop_of[b] /\ k = Len(m_loops[l].body)
      OBVIOUS
    <3>1. l \in Loops
      BY <1>1, <1>3 DEF LinearInv, LoopInv, ReachInv, TypesInv, LoopsInv
    <3>2. k \in Nat
      BY <1>1, <3>1, BodyReached DEF LinearInv
    <3>3. calls' = <<[loop |-> l, at |-> k]>> /\ k <= Len(m_loops'[l].body)
      BY <1>2, <2>2, <3>2 DEF Call
    <3> QED
      BY <1>4, <3>1, <3>2, <3>3 DEF CallInv
  <2> QED
    BY <1>1, <2>1, <2>2
<1> QED
  BY <1>5, <1>6, <1>7

LEMMA NextBodyNodeKeeps ==
  ASSUME LinearInv, NextBodyNode
  PROVE  CallInv' /\ PlaceInv' /\ WalkInv'
<1>1. calls # << >> /\ Head(calls).at > 0 /\ UNCHANGED <<vars, rpo_it>>
  BY DEF NextBodyNode
<1>2. stage = "done"
  BY <1>1 DEF LinearInv, WalkInv
<1>3. PICK l \in Loops, k \in Nat : /\ calls = <<[loop |-> l, at |-> k]>>
                                    /\ k <= Len(m_loops[l].body)
  BY <1>1 DEF LinearInv, CallInv
<1> DEFINE c == [loop |-> l, at |-> k]
<1>4. Head(calls) = c /\ Tail(calls) = << >> /\ c.loop = l /\ c.at = k /\ k > 0
  BY <1>1, <1>3
<1> PICK b : b = m_loops[l].body[k]
  OBVIOUS
<1>5. /\ m_loops[l].body \in Seq(Nodes) /\ b \in Body(l) /\ b \in Reached /\ b \in Nodes
      /\ HasLoop(b)
  <2>1. m_loops[l].body \in Seq(Nodes)
    BY <1>2, BodyReached DEF LinearInv
  <2>2. k \in DOMAIN m_loops[l].body
    BY <1>3, <1>4, <2>1
  <2> QED
    BY <1>2, <2>1, <2>2, BodyReached DEF LinearInv
<1>6. ~(loop_of[b] # l /\ m_loops[loop_of[b]].header = b)
  <2> PICK m : m = loop_of[b]
    OBVIOUS
  <2>1. In(b, m)
    BY <1>5 DEF In, HasLoop
  <2>2. Header(m) = b => m = l
    BY <1>5, <2>1 DEF LinearInv, LoopInv, OrderInv, HeadersAtHome
  <2> QED
    BY <2>2 DEF Header
<1>7. /\ calls' = << >> \o <<[c EXCEPT !.at = @ - 1]>> \o << >>
      /\ IF b \in visited THEN UNCHANGED <<visited, m_linear_order>> ELSE Place(b)
  <2>1. m_loops[c.loop].body[c.at] = b
    BY <1>4
  <2> HIDE DEF c
  <2> QED
    BY <1>4, <1>6, <2>1 DEF NextBodyNode
<1>8. UNCHANGED <<succs, stage, m_loops, finished, rpo_it>>
  BY <1>1 DEF vars, search, loops
<1>9. m_rpo' = m_rpo /\ Loops' = Loops /\ Reached' = Reached
  BY <1>8, SameReached DEF m_rpo, D!reverse_postorder, Loops
<1>10. visited \subseteq visited' /\ PlaceInv'
  <2>1. CASE b \in visited
    <3>1. visited' = visited /\ m_linear_order' = m_linear_order
      BY <1>7, <2>1
    <3> QED
      BY <1>9, <3>1 DEF LinearInv, PlaceInv, Members
  <2>2. CASE b \notin visited
    BY <1>5, <1>7, <1>8, <2>2, PlaceStep DEF LinearInv
  <2> QED
    BY <2>1, <2>2
<1>11. WalkInv'
  BY <1>2, <1>8, <1>9, <1>10 DEF LinearInv, WalkInv
<1>12. CallInv'
  <2>1. [c EXCEPT !.at = @ - 1] = [loop |-> l, at |-> k - 1]
    OBVIOUS
  <2>2. calls' = <<[loop |-> l, at |-> k - 1]>>
    BY <1>7, <2>1
  <2>3. k - 1 \in Nat /\ k - 1 <= Len(m_loops'[l].body)
    <3>1. Len(m_loops[l].body) \in Nat
      BY <1>5
    <3> QED
      BY <1>3, <1>4, <1>8, <3>1
  <2> QED
    BY <1>9, <2>2, <2>3 DEF CallInv
<1> QED
  BY <1>10, <1>11, <1>12

LEMMA NextLinear == LinearInv /\ [LNext]_all_vars => LinearInv'
<1> SUFFICES ASSUME LinearInv, [LNext]_all_vars PROVE LinearInv'
  OBVIOUS
<1>1. [Next]_vars
  BY DEF LNext, LStep, BuildLoopTree, NextNode, NextBodyNode, Return, LDone, all_vars, Next
<1>2. LoopInv'
  BY <1>1, NextLoopInv DEF LinearInv
<1>3. CASE BuildLoopTree
  <2>1. stage # "done" /\ UNCHANGED order_vars
    <3>1. Step => stage # "done"
      <4>1. cur_loop # 0 => stage = "populate"
        BY DEF LinearInv, LoopInv, TypesInv, GraphInv
      <4> QED
        BY <4>1 DEF Step, BuildDomTree, CollectBackEdges, Search, Collected, EnterReducible,
                    TakeLatches, NextSource, SkipMarked, SearchBlock, LeaveReducible, InitRootLoop
    <3> QED
      BY <1>3, <3>1 DEF BuildLoopTree
  <2>2. /\ calls' = << >> /\ visited' = {} /\ m_linear_order' = << >> /\ rpo_it' = 1
        /\ m_linear_order = << >>
    BY <2>1 DEF LinearInv, WalkInv, order_vars
  <2>3. CallInv'
    BY <2>2 DEF CallInv
  <2>4. PlaceInv'
    BY <2>2 DEF PlaceInv, Members
  <2>5. WalkInv'
    <3>1. \A i \in DOMAIN m_rpo' : ~(i < 1)
      <4>1. DOMAIN m_rpo' = DOMAIN finished'
        BY DEF m_rpo, D!reverse_postorder
      <4>2. finished' \in Seq(Nodes)
        <5>1. CASE stage' # "dom3"
          <6>1. (GraphInv /\ stage # "dom3" => finished \in Seq(Nodes))'
            <7>1. P!S!BInv' => finished' \in Seq(Nodes)
              BY DEF P!S!BInv, P!S!IInv, P!S!TypeOK
            <7> QED
              BY <7>1 DEF GraphInv
          <6> QED
            BY <1>2, <5>1, <6>1 DEF LoopInv, TypesInv
        <5>2. CASE stage' = "dom3"
          <6>1. P!IInv'
            BY <1>2, <5>2 DEF LoopInv, TypesInv, GraphInv
          <6> QED
            BY <6>1 DEF P!IInv, P!SearchInv, P!S!IInv, P!S!TypeOK
        <5> QED
          BY <5>1, <5>2
      <4> QED
        BY <4>1, <4>2
    <3> QED
      BY <2>2, <3>1 DEF WalkInv
  <2> QED
    BY <1>2, <2>3, <2>4, <2>5 DEF LinearInv
<1>4. CASE NextNode
  BY <1>2, <1>4, NextNodeKeeps DEF LinearInv
<1>5. CASE NextBodyNode
  BY <1>2, <1>5, NextBodyNodeKeeps DEF LinearInv
<1>6. CASE Return \/ UNCHANGED all_vars
  <2>1. /\ UNCHANGED <<succs, stage, m_loops, finished, rpo_it, visited, m_linear_order>>
        /\ calls' = calls \/ (calls # << >> /\ calls' = Tail(calls))
    BY <1>6 DEF Return, all_vars, order_vars, vars, search, loops
  <2>2. m_rpo' = m_rpo /\ Loops' = Loops /\ Reached' = Reached
    BY <2>1, SameReached DEF m_rpo, D!reverse_postorder, Loops
  <2>3. CallInv'
    <3>1. CASE calls' = calls
      BY <2>1, <2>2, <3>1 DEF LinearInv, CallInv
    <3>2. CASE calls # << >> /\ calls' = Tail(calls)
      <4>1. PICK l \in Loops, k \in Nat : calls = <<[loop |-> l, at |-> k]>>
        BY <3>2 DEF LinearInv, CallInv
      <4>2. Tail(calls) = << >>
        BY <4>1
      <4> QED
        BY <3>2, <4>2 DEF CallInv
    <3> QED
      BY <2>1, <3>1, <3>2
  <2>4. PlaceInv'
    BY <2>1, <2>2 DEF LinearInv, PlaceInv, Members
  <2>5. WalkInv'
    <3>1. stage # "done" => calls' = << >>
      BY <2>1 DEF LinearInv, WalkInv
    <3> QED
      BY <2>1, <2>2, <3>1 DEF LinearInv, WalkInv
  <2> QED
    BY <1>2, <2>3, <2>4, <2>5 DEF LinearInv
<1> QED
  BY <1>3, <1>4, <1>5, <1>6 DEF LNext, LStep, LDone

LEMMA InitLinear == LInit => LinearInv
<1> SUFFICES ASSUME LInit PROVE LinearInv
  OBVIOUS
<1>1. /\ LoopInv /\ stage = "dom3" /\ rpo_it = 1 /\ calls = << >> /\ visited = {}
      /\ m_linear_order = << >> /\ finished = << >>
  BY InitLoopInv DEF LInit, Init, T!Init, T!D!Init
<1>2. CallInv
  BY <1>1 DEF CallInv
<1>3. PlaceInv
  BY <1>1 DEF PlaceInv, Members
<1>4. WalkInv
  BY <1>1 DEF WalkInv, m_rpo, D!reverse_postorder
<1> QED
  BY <1>1, <1>2, <1>3, <1>4 DEF LinearInv

(***************************************************************************)
(* linearize_loop never calls itself: the header of one loop is not in the *)
(* body of another with its own loop in m_data.  Else it would be a latch  *)
(* of both, of its own by an edge to itself; the other loop has its header *)
(* before it and its own, being irreducible, one after it, and no block    *)
(* has three targets.                                                      *)
(***************************************************************************)
THEOREM LoopsNeverNest == LSpec => []InnersNeverEntered
<1>1. LinearInv => InnersNeverEntered
  BY DEF LinearInv, CallInv, InnersNeverEntered
<1> QED
  BY <1>1, InitLinear, NextLinear, PTL DEF LSpec

(***************************************************************************)
(* The order has every reachable block, and has it once, although bodies   *)
(* have blocks twice and two walks place them: whatever is in a body was   *)
(* reached, and every reached block has a loop to be asked for.            *)
(***************************************************************************)
THEOREM OrderIsComplete == LSpec => []EveryBlockOnce
<1>1. LinearInv => EveryBlockOnce
  <2> SUFFICES ASSUME LinearInv, Ordered
               PROVE  /\ Members(m_linear_order) = Reached
                      /\ Len(m_linear_order) = Cardinality(Reached)
    BY DEF EveryBlockOnce, Members
  <2>1. m_rpo \in Seq(Nodes) /\ Members(m_rpo) = Reached /\ rpo_it > Len(m_rpo)
    BY RpoFacts DEF LinearInv, Ordered
  <2>2. \A i \in DOMAIN m_rpo : m_rpo[i] \in visited
    <3>1. \A i \in DOMAIN m_rpo : i < rpo_it
      BY <2>1 DEF LinearInv, WalkInv
    <3> QED
      BY <3>1 DEF LinearInv, WalkInv
  <2>3. Reached \subseteq visited
    BY <2>1, <2>2 DEF Members
  <2>4. Members(m_linear_order) = Reached
    BY <2>3 DEF LinearInv, PlaceInv
  <2>5. Len(m_linear_order) = Cardinality(Reached)
    <3> PICK s, n : s = m_linear_order /\ n = Len(m_linear_order)
      OBVIOUS
    <3>1. /\ s \in Seq(Nodes) /\ n \in Nat /\ DOMAIN s = 1 .. n /\ n = Len(s)
          /\ \A i, j \in 1 .. n : s[i] = s[j] => i = j
      BY DEF LinearInv, PlaceInv
    <3> DEFINE h == [i \in 1 .. n |-> s[i]]
    <3>2. /\ h \in [1 .. n -> Reached] /\ \A i \in 1 .. n : h[i] = s[i]
          /\ \A x \in Reached : \E i \in 1 .. n : s[i] = x
      BY <2>4, <3>1 DEF Members
    <3> HIDE DEF h
    <3>3. \A i, j \in 1 .. n : h[i] = h[j] => i = j
      BY <3>1, <3>2
    <3>4. h \in Bijection(1 .. n, Reached)
      BY <3>2, <3>3 DEF Bijection, Injection, Surjection, IsInjective
    <3>5. ExistsBijection(1 .. n, Reached)
      BY <3>4 DEF ExistsBijection
    <3>6. Cardinality(Reached) = n
      BY <3>1, <3>5, FS_CountingElements
    <3> QED
      BY <3>6
  <2> QED
    BY <2>4, <2>5
<1> QED
  BY <1>1, InitLinear, NextLinear, PTL DEF LSpec

-----------------------------------------------------------------------------
(* A single loop and its place in the linear order.                        *)

Lone == Reducible /\ KnownReducible /\ OneRoleEach /\ OneLoop

\* The only loop but for the root loop has just its natural loop.
LEMMA OnlyLoop ==
  ASSUME LoopInv, NaturalInv, RestsInv, FiledInv, stage = "done", Lone, NEW h \in Headers
  PROVE  \E l \in Loops : /\ In(h, l) /\ IsReducible(l) /\ Header(l) = h
                          /\ \A m \in Loops : Header(m) \in Nodes => m = l
                          /\ NaturalLoop(h) = Body(l) \cup {h}
<1> USE DEF LoopInv, TypesInv, Lone
<1>1. P!S!BInv /\ D!Stopped /\ succs \in Graphs /\ made \in MadeOrders
  BY SearchFacts DEF GraphInv
<1>2. h \in Nodes /\ IsHeader(h)
  BY DEF Headers
<1>3. PICK u : Latch(u, h)
  BY <1>2 DEF IsHeader
<1> PICK e : e = <<u, h>>
  OBVIOUS
<1>4. e \in backEdges /\ e[2] = h
  BY <1>1, <1>3, LatchesReported
<1>5. PICK l \in Loops : In(h, l) /\ Header(l) = h
  BY <1>4 DEF FiledInv
<1>6. Header(Root) = NoNode /\ Root \in Loops /\ NoNode \notin Nodes
  BY DFSAssumption DEF HeadersInv
<1>7. IsReducible(l)
  BY <1>2, <1>5, <1>6 DEF KnownReducible, IsReducible
<1>8. \A m \in Loops : Header(m) \in Nodes => m = l
  <2> SUFFICES ASSUME NEW m \in Loops, Header(m) \in Nodes PROVE m = l
    OBVIOUS
  <2>1. Header(m) \in Headers
    BY DEF NaturalInv, Headers
  <2>2. Header(m) = h
    BY <2>1 DEF OneLoop
  <2> QED
    BY <1>5, <2>2 DEF BooksInv
<1>9. Body(l) \cup {h} \subseteq NaturalLoop(h)
  BY <1>1, <1>2, <1>5, NaturalFacts DEF NaturalInv
<1>10. \A b \in NaturalLoop(h) : b \in Body(l) \cup {h}
  <2> TAKE b \in NaturalLoop(h)
  <2>1. AllKnown
    BY <1>7, <1>8 DEF AllKnown
  <2> PICK m : m = loop_of[b]
    OBVIOUS
  <2>2. In(b, m) /\ m \in Loops /\ m # Root
    BY <2>1 DEF RestsInv, RestInv, In, LoopsInv
  <2>3. m = l
    BY <1>8, <2>2 DEF HeadersInv
  <2> QED
    BY <1>5, <2>2, <2>3 DEF BooksInv
<1> QED
  BY <1>5, <1>7, <1>8, <1>9, <1>10

\* The header of a reducible loop comes first in reverse postorder.
LEMMA HeaderFirst ==
  ASSUME LoopInv, stage = "done", Reducible, NEW h, NEW b \in NaturalLoop(h), b # h,
         NEW i \in DOMAIN m_rpo, m_rpo[i] = b
  PROVE  \E j \in DOMAIN m_rpo : j < i /\ m_rpo[j] = h
<1>1. P!S!BInv /\ D!Stopped /\ succs \in Graphs /\ made \in MadeOrders /\ finished \in Seq(Nodes)
  BY SearchFacts DEF LoopInv, TypesInv, GraphInv
<1>2. FinishedBefore(b, h)
  BY <1>1, NaturalDominated, DominatorsLast
<1> PICK s, t, n : s = finished /\ t = m_rpo /\ n = Len(finished)
  OBVIOUS
<1>3. DOMAIN s = 1 .. n /\ n \in Nat /\ t = [k \in DOMAIN s |-> s[n + 1 - k]]
  BY <1>1 DEF m_rpo, D!reverse_postorder
<1>4. \A k, m \in DOMAIN s : s[k] = s[m] => k = m
  BY <1>1 DEF P!S!BInv, P!S!IInv, P!S!VisitedOnce, P!S!Once
<1>5. PICK k, m \in DOMAIN s : k < m /\ s[k] = b /\ s[m] = h
  BY <1>2 DEF FinishedBefore, Precede
<1>6. i \in 1 .. n /\ n + 1 - i \in 1 .. n /\ s[n + 1 - i] = b
  BY <1>3
<1>7. n + 1 - i = k
  BY <1>3, <1>4, <1>5, <1>6
<1>8. /\ n + 1 - m \in 1 .. n /\ n + 1 - m < i /\ n + 1 - (n + 1 - m) = m
  BY <1>3, <1>5, <1>6, <1>7
<1>9. t[n + 1 - m] = h
  BY <1>3, <1>5, <1>8
<1> QED
  BY <1>3, <1>8, <1>9

\* The blocks of N are in one row in s, which h begins.
InRow(s, h, N) ==
  \A i, j \in DOMAIN s : s[i] = h /\ s[j] \in N => i <= j /\ \A k \in i .. j : s[k] \in N
LastIn(s, N) == s # << >> /\ s[Len(s)] \in N

LEMMA RowGrows ==
  ASSUME NEW s \in Seq(Nodes), NEW h, NEW N, h \in N, InRow(s, h, N), NEW b \in Nodes
  PROVE  /\ b \notin N => InRow(Append(s, b), h, N)
         /\ b = h /\ N \cap Members(s) = {} => InRow(Append(s, b), h, N) /\ LastIn(Append(s, b), N)
         /\ b # h /\ b \in N /\ LastIn(s, N) => InRow(Append(s, b), h, N) /\ LastIn(Append(s, b), N)
<1> PICK n, t : n = Len(s) /\ t = Append(s, b)
  OBVIOUS
<1>1. /\ n \in Nat /\ DOMAIN s = 1 .. n /\ t \in Seq(Nodes) /\ Len(t) = n + 1 /\ DOMAIN t = 1 .. n + 1
      /\ \A i \in 1 .. n : t[i] = s[i]
      /\ t[n + 1] = b
  OBVIOUS
<1>2. \A i \in DOMAIN t : i \in 1 .. n \/ i = n + 1
  BY <1>1
<1>3. \A i, j \in 1 .. n : s[i] = h /\ s[j] \in N => i <= j /\ \A k \in i .. j : t[k] \in N
  <2> TAKE i, j \in 1 .. n
  <2>1. \A k \in i .. j : k \in 1 .. n
    BY <1>1
  <2> QED
    BY <1>1, <2>1 DEF InRow
<1>4. b \in N => LastIn(t, N)
  BY <1>1 DEF LastIn
<1>5. ASSUME b \notin N
      PROVE  InRow(t, h, N)
  BY <1>1, <1>2, <1>3, <1>5 DEF InRow
<1>6. ASSUME b = h, N \cap Members(s) = {}
      PROVE  InRow(t, h, N)
  <2>1. \A i \in 1 .. n : t[i] \notin N
    BY <1>1, <1>6 DEF Members
  <2>2. \A k \in n + 1 .. n + 1 : k = n + 1
    BY <1>1
  <2> QED
    BY <1>1, <1>2, <1>6, <2>1, <2>2 DEF InRow
<1>7. ASSUME b # h, b \in N, LastIn(s, N)
      PROVE  InRow(t, h, N)
  <2> SUFFICES ASSUME NEW i \in DOMAIN t, NEW j \in DOMAIN t, t[i] = h, t[j] \in N
               PROVE  i <= j /\ \A k \in i .. j : t[k] \in N
    BY DEF InRow
  <2>1. i \in 1 .. n /\ s[i] = h
    BY <1>1, <1>2, <1>7
  <2>2. CASE j \in 1 .. n
    BY <1>1, <1>3, <2>1, <2>2
  <2>3. CASE j = n + 1
    <3>1. n \in 1 .. n /\ s[n] \in N
      BY <1>1, <1>7, <2>1 DEF LastIn
    <3>2. \A k \in i .. n : t[k] \in N
      BY <1>3, <2>1, <3>1
    <3>3. i <= j /\ \A k \in i .. j : k \in i .. n \/ k = n + 1
      BY <1>1, <2>1, <2>3
    <3> QED
      BY <1>1, <1>7, <3>2, <3>3
  <2> QED
    BY <1>2, <2>2, <2>3
<1> QED
  BY <1>4, <1>5, <1>6, <1>7

\* The walk over the body of the loop of h has come to the k-th block.
Walking(h, k) == \E l \in Loops : /\ calls = <<[loop |-> l, at |-> k]>> /\ Header(l) = h
                                  /\ \A i \in DOMAIN m_loops[l].body :
                                       i > k => m_loops[l].body[i] \in visited

Piece(h, N) ==
  /\ h \notin visited => calls = << >> /\ N \cap visited = {}
  /\ InRow(m_linear_order, h, N)
  /\ calls # << >> => LastIn(m_linear_order, N) /\ \E k \in Nat : Walking(h, k)
  /\ h \in visited /\ calls = << >> => N \subseteq visited

PieceInv == stage = "done" /\ Lone => \A h \in Headers : Piece(h, NaturalLoop(h))

LEMMA PieceNextNode ==
  ASSUME LinearInv, NaturalInv, RestsInv, FiledInv, NextNode, Lone, NEW h \in Headers,
         NEW N, N = NaturalLoop(h), Piece(h, N)
  PROVE  Piece(h, N)'
<1> PICK b, it : b = m_rpo[rpo_it] /\ it = rpo_it
  OBVIOUS
<1>1. /\ stage = "done" /\ calls = << >> /\ it <= Len(m_rpo)
      /\ IF b \in visited THEN UNCHANGED <<calls, visited, m_linear_order>>
         ELSE Place(b) /\ calls' = IF StartsLoop(b) THEN <<Call(loop_of[b])>> ELSE << >>
      /\ UNCHANGED <<m_loops>>
  BY DEF NextNode, vars, loops
<1>2. it \in DOMAIN m_rpo /\ b \in Nodes /\ b \in Reached
      /\ \A i \in DOMAIN m_rpo : i < it => m_rpo[i] \in visited
  <2>1. m_rpo \in Seq(Nodes) /\ Members(m_rpo) = Reached
    BY <1>1, RpoFacts DEF LinearInv
  <2>2. it \in DOMAIN m_rpo
    BY <1>1, <2>1 DEF LinearInv, WalkInv
  <2> QED
    BY <2>1, <2>2 DEF Members, LinearInv, WalkInv
<1>3. /\ m_linear_order \in Seq(Nodes) /\ Members(m_linear_order) = visited
      /\ InRow(m_linear_order, h, N) /\ h \in N
  <2>1. succs \in Graphs /\ made \in MadeOrders
    BY <1>1, SearchFacts DEF LinearInv, LoopInv, TypesInv
  <2> QED
    BY <2>1, NaturalFacts DEF LinearInv, PlaceInv, Piece
<1>4. PICK l \in Loops : /\ In(h, l) /\ IsReducible(l) /\ Header(l) = h
                         /\ \A m \in Loops : Header(m) \in Nodes => m = l
  BY <1>1, OnlyLoop DEF LinearInv
<1>5. CASE b \in visited
  BY <1>1, <1>5 DEF Piece, Walking, Loops, Header
<1>6. CASE b \notin visited /\ b = h
  <2>1. N \cap Members(m_linear_order) = {}
    BY <1>3, <1>6 DEF Piece
  <2>2. /\ visited' = visited \cup {h} /\ m_linear_order' = Append(m_linear_order, h)
        /\ calls' = <<[loop |-> l, at |-> Len(m_loops[l].body)]>>
    <3>1. StartsLoop(b)
      BY <1>4, <1>6 DEF StartsLoop, In, Header, IsReducible
    <3>2. loop_of[b] = l
      BY <1>4, <1>6 DEF In
    <3> QED
      BY <1>1, <1>6, <3>1, <3>2 DEF Place, Call
  <2>3. InRow(m_linear_order', h, N) /\ LastIn(m_linear_order', N)
    BY <1>2, <1>3, <1>6, <2>1, <2>2, RowGrows
  <2> PICK k : k = Len(m_loops[l].body)
    OBVIOUS
  <2>4. m_loops[l].body \in Seq(Nodes) /\ k \in Nat
    BY <1>1, BodyReached DEF LinearInv
  <2>5. \A i \in DOMAIN m_loops[l].body : ~(i > k)
    BY <2>4
  <2>6. Walking(h, k)'
    BY <1>1, <1>4, <2>2, <2>5 DEF Walking, Loops, Header
  <2>7. h \in visited' /\ calls' # << >>
    BY <2>2
  <2> QED
    BY <2>3, <2>4, <2>6, <2>7 DEF Piece
<1>7. CASE b \notin visited /\ b # h
  <2>1. b \notin N
    <3> SUFFICES ASSUME b \in N PROVE FALSE
      OBVIOUS
    <3>1. PICK j \in DOMAIN m_rpo : j < it /\ m_rpo[j] = h
      BY <1>1, <1>2, <1>7, HeaderFirst DEF LinearInv, Lone
    <3>2. h \in visited
      BY <1>2, <3>1
    <3> QED
      BY <1>1, <1>7, <3>2 DEF Piece
  <2>2. ~StartsLoop(b)
    <3> SUFFICES ASSUME StartsLoop(b) PROVE FALSE
      OBVIOUS
    <3> PICK m : m = loop_of[b]
      OBVIOUS
    <3>1. m \in Loops /\ Header(m) = b
      BY <1>1, <1>2 DEF LinearInv, LoopInv, ReachInv, TypesInv, LoopsInv, StartsLoop, Header
    <3> QED
      BY <1>2, <1>4, <1>7, <3>1
  <2>3. /\ visited' = visited \cup {b} /\ m_linear_order' = Append(m_linear_order, b)
        /\ calls' = << >>
    BY <1>1, <1>7, <2>2 DEF Place
  <2>4. InRow(m_linear_order', h, N)
    BY <1>2, <1>3, <2>1, <2>3, RowGrows
  <2>5. /\ h \notin visited' => N \cap visited' = {}
        /\ h \in visited' => N \subseteq visited'
    BY <1>1, <1>7, <2>1, <2>3 DEF Piece
  <2> QED
    BY <2>3, <2>4, <2>5 DEF Piece
<1> QED
  BY <1>5, <1>6, <1>7

LEMMA PieceNextBodyNode ==
  ASSUME LinearInv, NaturalInv, RestsInv, FiledInv, NextBodyNode, Lone, NEW h \in Headers,
         NEW N, N = NaturalLoop(h), Piece(h, N)
  PROVE  Piece(h, N)'
<1>1. calls # << >> /\ Head(calls).at > 0 /\ UNCHANGED m_loops
  BY DEF NextBodyNode, vars, loops
<1>2. stage = "done"
  BY <1>1 DEF LinearInv, WalkInv
<1>3. PICK k \in Nat : Walking(h, k)
  BY <1>1 DEF Piece
<1>4. PICK l \in Loops : /\ calls = <<[loop |-> l, at |-> k]>> /\ Header(l) = h
                         /\ \A i \in DOMAIN m_loops[l].body : i > k => m_loops[l].body[i] \in visited
  BY <1>3 DEF Walking
<1> DEFINE c == [loop |-> l, at |-> k]
<1>5. Head(calls) = c /\ Tail(calls) = << >> /\ c.loop = l /\ c.at = k /\ k > 0
  BY <1>1, <1>4
<1>6. k <= Len(m_loops[l].body)
  <2>1. PICK m \in Loops, j \in Nat : /\ calls = <<[loop |-> m, at |-> j]>>
                                      /\ j <= Len(m_loops[m].body)
    BY <1>1 DEF LinearInv, CallInv
  <2>2. calls[1] = [loop |-> m, at |-> j] /\ calls[1] = [loop |-> l, at |-> k]
    BY <1>4, <2>1
  <2>3. m = l /\ j = k
    BY <2>2
  <2> QED
    BY <2>1, <2>3
<1> PICK b : b = m_loops[l].body[k]
  OBVIOUS
<1>7. /\ m_loops[l].body \in Seq(Nodes) /\ k \in DOMAIN m_loops[l].body /\ b \in Body(l)
      /\ b \in Nodes /\ HasLoop(b)
  <2>1. m_loops[l].body \in Seq(Nodes)
    BY <1>2, BodyReached DEF LinearInv
  <2>2. k \in DOMAIN m_loops[l].body
    BY <1>5, <1>6, <2>1
  <2> QED
    BY <1>2, <2>1, <2>2, BodyReached DEF LinearInv
<1>8. b \in N /\ h \in N
  <2>1. PICK m \in Loops : Header(m) = h /\ NaturalLoop(h) = Body(m) \cup {h}
    BY <1>2, OnlyLoop DEF LinearInv
  <2>2. m = l
    BY <1>4, <2>1 DEF LinearInv, LoopInv, BooksInv
  <2> QED
    BY <1>7, <2>1, <2>2
<1>9. ~(loop_of[b] # l /\ m_loops[loop_of[b]].header = b)
  <2> PICK m : m = loop_of[b]
    OBVIOUS
  <2>1. In(b, m)
    BY <1>7 DEF In, HasLoop
  <2>2. Header(m) = b => m = l
    BY <1>7, <2>1 DEF LinearInv, LoopInv, OrderInv, HeadersAtHome
  <2> QED
    BY <2>2 DEF Header
<1>10. /\ calls' = << >> \o <<[c EXCEPT !.at = @ - 1]>> \o << >>
       /\ IF b \in visited THEN UNCHANGED <<visited, m_linear_order>> ELSE Place(b)
  <2>1. m_loops[c.loop].body[c.at] = b
    BY <1>5
  <2> HIDE DEF c
  <2> QED
    BY <1>5, <1>9, <2>1 DEF NextBodyNode
<1>11. calls' = <<[loop |-> l, at |-> k - 1]>> /\ k - 1 \in Nat
  <2>1. [c EXCEPT !.at = @ - 1] = [loop |-> l, at |-> k - 1]
    OBVIOUS
  <2> QED
    BY <1>5, <1>10, <2>1
<1>12. h \in visited /\ InRow(m_linear_order, h, N) /\ LastIn(m_linear_order, N)
       /\ m_linear_order \in Seq(Nodes) /\ Members(m_linear_order) = visited
  BY <1>1 DEF Piece, LinearInv, PlaceInv
<1>13. visited \subseteq visited' /\ b \in visited' /\ InRow(m_linear_order', h, N)
       /\ LastIn(m_linear_order', N)
  <2>1. CASE b \in visited
    <3>1. visited' = visited /\ m_linear_order' = m_linear_order
      BY <1>10, <2>1
    <3> QED
      BY <1>12, <2>1, <3>1
  <2>2. CASE b \notin visited
    <3>1. visited' = visited \cup {b} /\ m_linear_order' = Append(m_linear_order, b) /\ b # h
      BY <1>10, <1>12, <2>2 DEF Place
    <3> QED
      BY <1>7, <1>8, <1>12, <3>1, RowGrows
  <2> QED
    BY <2>1, <2>2
<1>14. Walking(h, k - 1)'
  <2>1. \A i \in DOMAIN m_loops[l].body : i > k - 1 => m_loops[l].body[i] \in visited'
    <3>1. \A i \in DOMAIN m_loops[l].body : i > k - 1 => i > k \/ i = k
      BY <1>7
    <3> QED
      BY <1>4, <1>13, <3>1
  <2> QED
    BY <1>1, <1>4, <1>11, <2>1 DEF Walking, Loops, Header
<1>15. calls' # << >>
  BY <1>11
<1> QED
  BY <1>11, <1>12, <1>13, <1>14, <1>15 DEF Piece

LEMMA PieceReturn ==
  ASSUME LinearInv, NaturalInv, RestsInv, FiledInv, Return, Lone, NEW h \in Headers,
         NEW N, N = NaturalLoop(h), Piece(h, N)
  PROVE  Piece(h, N)'
<1>1. /\ calls # << >> /\ Head(calls).at = 0 /\ calls' = Tail(calls)
      /\ UNCHANGED <<visited, m_linear_order>>
  BY DEF Return
<1>2. stage = "done"
  BY <1>1 DEF LinearInv, WalkInv
<1>3. PICK k \in Nat : Walking(h, k)
  BY <1>1 DEF Piece
<1>4. PICK l \in Loops : /\ calls = <<[loop |-> l, at |-> k]>> /\ Header(l) = h
                         /\ \A i \in DOMAIN m_loops[l].body : i > k => m_loops[l].body[i] \in visited
  BY <1>3 DEF Walking
<1>5. k = 0 /\ calls' = << >>
  <2>1. Head(calls) = [loop |-> l, at |-> k] /\ Tail(calls) = << >>
    BY <1>4
  <2> QED
    BY <1>1, <2>1
<1>6. Body(l) \subseteq visited
  <2>1. m_loops[l].body \in Seq(Nodes)
    BY <1>2, BodyReached DEF LinearInv
  <2>2. \A i \in DOMAIN m_loops[l].body : i > 0
    BY <2>1
  <2> QED
    BY <1>4, <1>5, <2>2 DEF Body, Members
<1>7. N = Body(l) \cup {h}
  <2>1. PICK m \in Loops : Header(m) = h /\ NaturalLoop(h) = Body(m) \cup {h}
    BY <1>2, OnlyLoop DEF LinearInv
  <2>2. m = l
    BY <1>4, <2>1 DEF LinearInv, LoopInv, BooksInv
  <2> QED
    BY <2>1, <2>2
<1> QED
  BY <1>1, <1>5, <1>6, <1>7 DEF Piece

LEMMA NextPiece ==
  LinearInv /\ NaturalInv /\ RestsInv /\ FiledInv /\ PieceInv /\ [LNext]_all_vars => PieceInv'
<1> SUFFICES ASSUME LinearInv, NaturalInv, RestsInv, FiledInv, PieceInv, [LNext]_all_vars,
                    stage' = "done", Lone', NEW h \in Headers'
             PROVE  Piece(h, NaturalLoop(h))'
  BY DEF PieceInv
<1> PICK N : N = NaturalLoop(h)'
  OBVIOUS
<1> SUFFICES Piece(h, N)'
  BY DEF Piece
<1>1. CASE BuildLoopTree
  <2>1. calls' = calls /\ visited' = visited /\ m_linear_order' = m_linear_order
        /\ (calls = << >> /\ visited = {} /\ m_linear_order = << >>)
    <3>1. Step => stage # "done"
      <4>1. cur_loop # 0 => stage = "populate"
        BY DEF LinearInv, LoopInv, TypesInv, GraphInv
      <4> QED
        BY <4>1 DEF Step, BuildDomTree, CollectBackEdges, Search, Collected, EnterReducible,
                    TakeLatches, NextSource, SkipMarked, SearchBlock, LeaveReducible, InitRootLoop
    <3>2. Step /\ UNCHANGED order_vars
      BY <1>1 DEF BuildLoopTree
    <3> QED
      BY <3>1, <3>2 DEF LinearInv, WalkInv, order_vars
  <2>2. InRow(<< >>, h, N)
    BY DEF InRow
  <2> QED
    BY <2>1, <2>2 DEF Piece
<1>2. CASE UNCHANGED vars
  <2>1. UNCHANGED <<succs, backEdges, stage, m_loops>>
    BY <1>2 DEF vars, search, loops
  <2>2. /\ \A g : NaturalLoop(g)' = NaturalLoop(g)
        /\ Headers' = Headers
    BY <2>1, SameNatural DEF Headers
  <2>3. Lone' <=> Lone
    BY <2>1, <2>2 DEF Lone, Reducible, Dom, KnownReducible, Loops, Root, OneRoleEach, OneLoop
  <2>4. stage = "done" /\ Lone /\ h \in Headers /\ N = NaturalLoop(h) /\ Piece(h, N)
    BY <2>1, <2>2, <2>3 DEF PieceInv
  <2>5. CASE UNCHANGED all_vars
    BY <2>1, <2>4, <2>5 DEF all_vars, order_vars, Piece, Walking, Loops, Header
  <2> QED
    BY <1>1, <2>4, <2>5, PieceNextNode, PieceNextBodyNode, PieceReturn DEF LNext, LStep, LDone
<1> QED
  BY <1>1, <1>2 DEF LNext, LStep, NextNode, NextBodyNode, Return, LDone, all_vars

LEMMA RowLength ==
  ASSUME NEW p \in Nat, NEW q \in Nat, p <= q, NEW N, IsFiniteSet(N),
         NEW f, \A k \in p .. q : f[k] \in N, \A k, m \in p .. q : f[k] = f[m] => k = m
  PROVE  q \in p .. p + Cardinality(N) - 1
<1> DEFINE g == [k \in p .. q |-> f[k]]
<1>1. IsFiniteSet(p .. q) /\ Cardinality(p .. q) = q - p + 1
  BY FS_Interval
<1>2. g \in Injection(p .. q, N)
  BY DEF Injection, IsInjective
<1>3. Cardinality(p .. q) <= Cardinality(N)
  <2> HIDE DEF g
  <2> QED
    BY <1>2, FS_Injection
<1>4. Cardinality(N) \in Nat
  BY FS_CardinalityType
<1> QED
  BY <1>1, <1>3, <1>4

LEMMA InOnePiece ==
  ASSUME LinearInv, PieceInv
  PROVE  LoopInOnePiece
<1> SUFFICES ASSUME Ordered, Lone, NEW h \in Headers, NEW b \in NaturalLoop(h)
             PROVE  Pos(b) \in Pos(h) .. Pos(h) + Cardinality(NaturalLoop(h)) - 1
  BY DEF LoopInOnePiece, Lone
<1> PICK N, s : N = NaturalLoop(h) /\ s = m_linear_order
  OBVIOUS
<1>1. stage = "done" /\ calls = << >> /\ rpo_it > Len(m_rpo)
  BY DEF Ordered
<1>2. succs \in Graphs /\ made \in MadeOrders /\ Reached \subseteq Nodes
  BY <1>1, SearchFacts DEF LinearInv, LoopInv, TypesInv
<1>3. h \in Reached /\ N \subseteq Reached
  <2>1. h \in Reached
    BY DEF Headers, IsHeader
  <2>2. \A c \in N : c # h => c \in Reached
    BY <1>2, NaturalDominated
  <2> QED
    BY <2>1, <2>2
<1>4. Reached \subseteq visited
  <2>1. m_rpo \in Seq(Nodes) /\ Members(m_rpo) = Reached
    BY <1>1, RpoFacts DEF LinearInv
  <2>2. \A i \in DOMAIN m_rpo : i < rpo_it
    <3>1. rpo_it \in Nat
      BY DEF LinearInv, WalkInv
    <3> QED
      BY <1>1, <2>1, <3>1
  <2> QED
    BY <2>1, <2>2 DEF LinearInv, WalkInv, Members
<1>5. /\ s \in Seq(Nodes) /\ Members(s) = visited /\ InRow(s, h, N)
      /\ \A i, j \in DOMAIN s : s[i] = s[j] => i = j
  BY <1>1 DEF LinearInv, PlaceInv, PieceInv, Piece
<1>6. \A c \in visited : Pos(c) \in DOMAIN s /\ s[Pos(c)] = c
  <2> SUFFICES ASSUME NEW c \in visited PROVE Pos(c) \in DOMAIN s /\ s[Pos(c)] = c
    OBVIOUS
  <2>1. \E i \in DOMAIN s : s[i] = c
    BY <1>5 DEF Members
  <2> QED
    BY <2>1 DEF Pos
<1> PICK p, q : p = Pos(h) /\ q = Pos(b)
  OBVIOUS
<1>7. p \in DOMAIN s /\ q \in DOMAIN s /\ s[p] = h /\ s[q] = b
  BY <1>3, <1>4, <1>6
<1>8. p <= q /\ \A k \in p .. q : s[k] \in N
  BY <1>5, <1>7 DEF InRow
<1>9. p \in Nat /\ q \in Nat /\ \A k \in p .. q : k \in DOMAIN s
  BY <1>5, <1>7
<1>10. IsFiniteSet(N)
  BY <1>2, <1>3, FiniteNodes, FS_Subset
<1>11. q \in p .. p + Cardinality(N) - 1
  BY <1>5, <1>8, <1>9, <1>10, RowLength
<1> QED
  BY <1>11

(***************************************************************************)
(* If a reducible graph has one loop, which the dominator tree knows, the  *)
(* linear order has it in one piece that the header begins: reverse        *)
(* postorder comes to the header before the other blocks of the loop, and  *)
(* linearize_loop, which is called then, places all of them and nothing    *)
(* else (linear_order.hh:39-70), because the body has the whole loop.      *)
(***************************************************************************)
THEOREM OneLoopOnePiece == LSpec => []LoopInOnePiece
<1> DEFINE Inv == LinearInv /\ NaturalInv /\ RestsInv /\ TiedInv
<1>1. LInit => Inv /\ PieceInv
  <2> SUFFICES ASSUME LInit PROVE Inv /\ PieceInv
    OBVIOUS
  <2>1. Init /\ stage = "dom3"
    BY DEF LInit, Init
  <2> QED
    BY <2>1, InitLinear, InitRests, InitTied DEF PieceInv
<1>2. Inv /\ PieceInv /\ [LNext]_all_vars => (Inv /\ PieceInv)'
  <2> SUFFICES ASSUME Inv, PieceInv, [LNext]_all_vars PROVE Inv' /\ PieceInv'
    OBVIOUS
  <2>1. [Next]_vars
    BY DEF LNext, LStep, BuildLoopTree, NextNode, NextBodyNode, Return, LDone, all_vars, Next
  <2>2. LinearInv'
    BY NextLinear
  <2>3. NaturalInv' /\ RestsInv' /\ TiedInv'
    BY <2>1, NextRests, NextTied DEF LinearInv
  <2>4. PieceInv'
    BY NextPiece DEF TiedInv
  <2> QED
    BY <2>2, <2>3, <2>4
<1>3. Inv /\ PieceInv => LoopInOnePiece
  BY InOnePiece
<1> QED
  BY <1>1, <1>2, <1>3, PTL DEF LSpec

-----------------------------------------------------------------------------
(* The live sets of Liveness.                                              *)

Above(v, b) == DefinedAbove(program, succs, v, b)
Before(v, b, k) == \E j \in 1 .. k : code(b)[j] = v

ProgramInv ==
  live_stage # "none" => /\ Ordered /\ SSA(program, succs)
                         /\ ord_it \in 0 .. Len(m_linear_order)
CursorInv ==
  live_stage = "instrs" => /\ ord_it > 0 /\ Here \in DOMAIN m_live_sets
                           /\ ins_it \in 0 .. Len(code(Here))
SetsInv ==
  live_stage # "none" =>
    \A b \in DOMAIN m_live_sets : \A v \in m_live_sets[b] :
      Above(v, b) \/ (live_stage = "instrs" /\ b = Here /\ Before(v, b, ins_it))

NoneInv == live_stage = "none" => DOMAIN m_live_sets = {}

LiveInv == LinearInv /\ ProgramInv /\ CursorInv /\ SetsInv /\ NoneInv

LEMMA HereReached ==
  ASSUME LinearInv, ProgramInv, live_stage # "none", ord_it > 0
  PROVE  /\ Here \in Reached /\ Here \in Nodes /\ code(Here) \in Seq(Ids)
         /\ stage = "done" /\ succs \in Graphs /\ made \in MadeOrders
<1>1. stage = "done"
  BY DEF ProgramInv, Ordered
<1>2. succs \in Graphs /\ made \in MadeOrders /\ Reached \subseteq Nodes
  BY <1>1, SearchFacts DEF LinearInv, LoopInv, TypesInv
<1>3. m_linear_order \in Seq(Nodes) /\ Members(m_linear_order) \subseteq Reached
  BY DEF LinearInv, PlaceInv
<1>4. ord_it \in DOMAIN m_linear_order
  BY <1>3 DEF ProgramInv
<1>5. Here \in Reached
  BY <1>3, <1>4 DEF Here, Members
<1> QED
  BY <1>1, <1>2, <1>5 DEF ProgramInv, SSA, code

\* What is live at the end of a block is defined in it or above it.
LEMMA LiveAtEnd ==
  ASSUME LinearInv, ProgramInv, SetsInv, live_stage = "block", NEW b \in Reached, b \in Nodes,
         succs \in Graphs, made \in MadeOrders, NEW v \in InitLiveSet(b)
  PROVE  Above(v, b) \/ v \in Range(code(b))
<1> USE DEF Dom
<1>1. PICK c \in Range(succs[b]) : v \in LiveSet(c) \/ v \in PhiReads(b, c)
  BY DEF InitLiveSet
<1>2. IsEdge(succs, b, c) /\ c \in Nodes
  BY <1>1, GraphFacts DEF Range, IsEdge
<1>3. SSA(program, succs)
  BY DEF ProgramInv
<1>4. CASE v \in LiveSet(c)
  <2>1. Above(v, c)
    BY <1>4 DEF LiveSet, SetsInv
  <2>2. PICK d \in Nodes \ {c} : v \in Range(code(d)) /\ Dom(d, c)
    BY <2>1 DEF Above, DefinedAbove, code
  <2>3. Dom(d, b)
    BY <1>2, <2>2, DomAlongEdge
  <2> QED
    BY <2>2, <2>3 DEF Above, DefinedAbove, code
<1>5. CASE v \in PhiReads(b, c)
  <2>1. PICK i \in Range(code(c)) : IsPhi(i) /\ \E q \in Range(program.vars[i]) : q[2] = b /\ q[1] = v
    BY <1>5 DEF PhiReads
  <2>2. PICK q \in Range(program.vars[i]) : q[2] = b /\ q[1] = v
    BY <2>1
  <2>3. PICK k \in DOMAIN program.code[c] : program.code[c][k] = i
    BY <2>1 DEF Range, code
  <2>4. q[1] \in Range(program.code[q[2]]) \/ DefinedAbove(program, succs, q[1], q[2])
    BY <1>2, <1>3, <2>1, <2>2, <2>3 DEF SSA, IsPhi
  <2> QED
    BY <2>2, <2>4 DEF Above, code
<1> QED
  BY <1>1, <1>4, <1>5

LEMMA EnterSets ==
  ASSUME LiveInv, EnterBlock
  PROVE  CursorInv' /\ SetsInv'
<1>1. /\ live_stage = "block" /\ ord_it > 0 /\ live_stage' = "instrs"
      /\ UNCHANGED <<succs, m_linear_order, program, ord_it>>
  BY DEF EnterBlock, all_vars, vars, search, order_vars
<1> PICK h, set : h = Here /\ set = InitLiveSet(Here)
  OBVIOUS
<1>2. /\ m_live_sets' = [b \in DOMAIN m_live_sets \cup {h} |-> IF b = h THEN set ELSE m_live_sets[b]]
      /\ ins_it' = Len(code(h))
  BY DEF EnterBlock
<1>3. Here' = h /\ \A b : code(b)' = code(b)
  BY <1>1 DEF Here, code
<1>4. h \in Reached /\ h \in Nodes /\ code(h) \in Seq(Ids) /\ succs \in Graphs /\ made \in MadeOrders
  BY <1>1, HereReached DEF LiveInv
<1>5. \A v, b : Above(v, b)' <=> Above(v, b)
  BY <1>1 DEF Above
<1>6. \A v \in set : Above(v, h) \/ Before(v, h, Len(code(h)))
  <2> TAKE v \in set
  <2>1. Above(v, h) \/ v \in Range(code(h))
    BY <1>1, <1>4, LiveAtEnd DEF LiveInv
  <2> QED
    BY <1>4, <2>1 DEF Range, Before
<1>7. \A b \in DOMAIN m_live_sets : \A v \in m_live_sets[b] : Above(v, b)
  BY <1>1 DEF LiveInv, SetsInv
<1>8. CursorInv'
  BY <1>1, <1>2, <1>3, <1>4 DEF CursorInv
<1>9. SetsInv'
  <2> SUFFICES ASSUME NEW b \in DOMAIN m_live_sets', NEW v \in m_live_sets'[b]
               PROVE  Above(v, b)' \/ (b = Here' /\ Before(v, b, ins_it)')
    BY <1>1 DEF SetsInv
  <2>1. CASE b = h
    <3>1. v \in set
      BY <1>2, <2>1
    <3>2. Before(v, h, ins_it)' <=> Before(v, h, Len(code(h)))
      BY <1>2, <1>3 DEF Before
    <3> QED
      BY <1>3, <1>5, <1>6, <2>1, <3>1, <3>2
  <2>2. CASE b # h
    BY <1>2, <1>5, <1>7, <2>2
  <2> QED
    BY <2>1, <2>2
<1> QED
  BY <1>8, <1>9

LEMMA InstrSets ==
  ASSUME LiveInv, ProcessInstr
  PROVE  CursorInv' /\ SetsInv'
<1> PICK h, k, i : h = Here /\ k = ins_it /\ i = code(Here)[ins_it]
  OBVIOUS
<1> PICK ins : ins = Range(program.inputs[i])
  OBVIOUS
<1>1. /\ live_stage = "instrs" /\ live_stage' = "instrs" /\ k > 0 /\ ~IsPhi(i)
      /\ m_live_sets' = [m_live_sets EXCEPT ![h] = (@ \ {i}) \cup ins]
      /\ ins_it' = k - 1
      /\ UNCHANGED <<succs, m_linear_order, program, ord_it>>
  BY DEF ProcessInstr, Instr, all_vars, vars, search, order_vars
<1>2. ord_it > 0 /\ h \in DOMAIN m_live_sets /\ k \in 0 .. Len(code(h))
  BY <1>1 DEF LiveInv, CursorInv
<1>3. Here' = h /\ \A b : code(b)' = code(b)
  BY <1>1 DEF Here, code
<1>4. h \in Reached /\ h \in Nodes /\ code(h) \in Seq(Ids)
  BY <1>1, <1>2, HereReached DEF LiveInv
<1>5. \A v, b : Above(v, b)' <=> Above(v, b)
  BY <1>1 DEF Above
<1>6. \A v, b : Before(v, b, ins_it)' <=> Before(v, b, k - 1)
  BY <1>1, <1>3 DEF Before
<1>7. k \in DOMAIN code(h) /\ k - 1 \in 0 .. Len(code(h))
  BY <1>1, <1>2, <1>4
<1>8. \A v \in ins : Above(v, h) \/ Before(v, h, k - 1)
  <2>1. SSA(program, succs)
    BY <1>1 DEF LiveInv, ProgramInv
  <2> QED
    BY <1>1, <1>4, <1>7, <2>1 DEF SSA, IsPhi, code, Above, Before
<1>9. \A v \in m_live_sets[h] : v # i => Above(v, h) \/ Before(v, h, k - 1)
  <2> SUFFICES ASSUME NEW v \in m_live_sets[h], v # i, Before(v, h, k) PROVE Before(v, h, k - 1)
    BY <1>1, <1>2 DEF LiveInv, SetsInv
  <2>1. PICK j \in 1 .. k : code(h)[j] = v
    BY DEF Before
  <2>2. j # k /\ j \in 1 .. k - 1
    BY <1>7, <2>1
  <2> QED
    BY <2>1, <2>2 DEF Before
<1>10. \A b \in DOMAIN m_live_sets : b # h => \A v \in m_live_sets[b] : Above(v, b)
  BY <1>1 DEF LiveInv, SetsInv
<1>11. CursorInv'
  BY <1>1, <1>2, <1>3, <1>7 DEF CursorInv
<1>12. SetsInv'
  <2> SUFFICES ASSUME NEW b \in DOMAIN m_live_sets', NEW v \in m_live_sets'[b]
               PROVE  Above(v, b)' \/ (b = Here' /\ Before(v, b, ins_it)')
    BY <1>1 DEF SetsInv
  <2>1. CASE b = h
    <3>1. (v \in m_live_sets[h] /\ v # i) \/ v \in ins
      BY <1>1, <1>2, <2>1
    <3> QED
      BY <1>3, <1>5, <1>6, <1>8, <1>9, <2>1, <3>1
  <2>2. CASE b # h
    BY <1>1, <1>5, <1>10, <2>2
  <2> QED
    BY <2>1, <2>2
<1> QED
  BY <1>11, <1>12

LEMMA LeaveSets ==
  ASSUME LiveInv, LeaveBlock
  PROVE  CursorInv' /\ SetsInv'
<1> PICK h, k : h = Here /\ k = ins_it
  OBVIOUS
<1>1. /\ live_stage = "instrs" /\ live_stage' = "block" /\ (k > 0 => IsPhi(code(h)[k]))
      /\ m_live_sets' = [m_live_sets EXCEPT ![h] = LiveInto(h)]
      /\ UNCHANGED <<succs, program>>
  BY DEF LeaveBlock, Instr, all_vars, vars, search
<1>2. ord_it > 0 /\ h \in DOMAIN m_live_sets /\ k \in 0 .. Len(code(h))
  BY <1>1 DEF LiveInv, CursorInv
<1>4. h \in Nodes /\ code(h) \in Seq(Ids)
  BY <1>1, <1>2, HereReached DEF LiveInv
<1>5. \A v, b : Above(v, b)' <=> Above(v, b)
  BY <1>1 DEF Above
<1>6. \A v : Before(v, h, k) => v \in Range(code(h)) /\ IsPhi(v)
  <2> SUFFICES ASSUME NEW v, NEW j \in 1 .. k, code(h)[j] = v PROVE v \in Range(code(h)) /\ IsPhi(v)
    BY DEF Before
  <2>1. SSA(program, succs)
    BY <1>1 DEF LiveInv, ProgramInv
  <2>2. k > 0 /\ k \in DOMAIN code(h) /\ j \in DOMAIN code(h)
    BY <1>2, <1>4
  <2>3. IsPhi(code(h)[k])
    BY <1>1, <2>2
  <2>4. IsPhi(v)
    BY <1>4, <2>1, <2>2, <2>3 DEF SSA, IsPhi, code
  <2> QED
    BY <2>2, <2>4 DEF Range
<1>7. \A v \in LiveInto(h) : Above(v, h)
  BY <1>1, <1>2, <1>6 DEF LiveInto, LiveInv, SetsInv
<1>8. \A b \in DOMAIN m_live_sets : b # h => \A v \in m_live_sets[b] : Above(v, b)
  BY <1>1 DEF LiveInv, SetsInv
<1>9. CursorInv'
  BY <1>1 DEF CursorInv
<1>10. SetsInv'
  <2> SUFFICES ASSUME NEW b \in DOMAIN m_live_sets', NEW v \in m_live_sets'[b]
               PROVE  Above(v, b)'
    BY <1>1 DEF SetsInv
  <2> QED
    BY <1>1, <1>2, <1>5, <1>7, <1>8
<1> QED
  BY <1>9, <1>10

LEMMA OrderStands ==
  ASSUME Ordered, LinearInv
  PROVE  ~LStep
<1>1. stage = "done" /\ calls = << >> /\ rpo_it > Len(m_rpo)
  BY DEF Ordered
<1>2. Step => stage # "done"
  <2>1. cur_loop # 0 => stage = "populate"
    BY DEF LinearInv, LoopInv, TypesInv, GraphInv
  <2> QED
    BY <2>1 DEF Step, BuildDomTree, CollectBackEdges, Search, Collected, EnterReducible,
                TakeLatches, NextSource, SkipMarked, SearchBlock, LeaveReducible, InitRootLoop
<1>3. m_rpo \in Seq(Nodes) /\ rpo_it \in Nat
  BY <1>1, RpoFacts DEF LinearInv, WalkInv
<1> QED
  BY <1>1, <1>2, <1>3 DEF LStep, BuildLoopTree, NextNode, NextBodyNode, Return

LEMMA NextLive == LiveInv /\ [ANext]_every_var => LiveInv'
<1> SUFFICES ASSUME LiveInv, [ANext]_every_var PROVE LiveInv'
  OBVIOUS
<1>1. LinearInv'
  <2>1. [LNext]_all_vars
    BY DEF ANext, AStep, BuildOrder, Start, EnterBlock, ProcessInstr, LeaveBlock, FillEmpty, ADone,
           every_var, LNext
  <2> QED
    BY <2>1, NextLinear DEF LiveInv
<1>2. CASE BuildOrder
  <2>1. live_stage = "none" /\ live_stage' = "none" /\ m_live_sets' = m_live_sets
    <3>1. live_stage = "none"
      BY <1>2, OrderStands DEF BuildOrder, LiveInv, ProgramInv
    <3> QED
      BY <1>2, <3>1 DEF BuildOrder, live_vars
  <2> QED
    BY <1>1, <2>1 DEF LiveInv, ProgramInv, CursorInv, SetsInv, NoneInv
<1>3. ASSUME UNCHANGED all_vars, live_stage' # "none",
             \/ /\ program' = program /\ live_stage # "none"
                /\ ord_it' = ord_it \/ (ord_it' = ord_it - 1 /\ ord_it > 0)
             \/ Start
      PROVE  ProgramInv'
  <2>1. UNCHANGED <<stage, calls, rpo_it, finished, succs, m_linear_order>>
    BY <1>3 DEF all_vars, order_vars, vars, search
  <2>2. Ordered' <=> Ordered
    BY <2>1 DEF Ordered, m_rpo, D!reverse_postorder
  <2>3. CASE Start
    <3>1. Ordered /\ program' \in Programs(succs) /\ ord_it' = Len(m_linear_order)
      BY <2>3 DEF Start
    <3>2. succs \in Graphs
      BY <3>1, SearchFacts DEF LiveInv, LinearInv, LoopInv, TypesInv, Ordered
    <3>3. SSA(program', succs)
      BY <3>1, <3>2, ProgramsAssumption
    <3>4. m_linear_order \in Seq(Nodes)
      BY DEF LiveInv, LinearInv, PlaceInv
    <3> QED
      BY <2>1, <2>2, <3>1, <3>3, <3>4 DEF ProgramInv
  <2>4. CASE ~Start
    <3>1. Ordered /\ SSA(program, succs) /\ ord_it \in 0 .. Len(m_linear_order) /\ program' = program
      BY <1>3, <2>4 DEF LiveInv, ProgramInv
    <3>2. m_linear_order \in Seq(Nodes)
      BY DEF LiveInv, LinearInv, PlaceInv
    <3>3. ord_it' \in 0 .. Len(m_linear_order)
      BY <1>3, <2>4, <3>1, <3>2
    <3> QED
      BY <2>1, <2>2, <3>1, <3>3 DEF ProgramInv
  <2> QED
    BY <2>3, <2>4
<1>4. CASE Start
  <2>1. live_stage = "none" /\ live_stage' = "block" /\ m_live_sets' = m_live_sets /\ UNCHANGED all_vars
    BY <1>4 DEF Start
  <2>2. SetsInv' /\ CursorInv' /\ NoneInv'
    BY <2>1 DEF LiveInv, NoneInv, SetsInv, CursorInv
  <2> QED
    BY <1>1, <1>3, <1>4, <2>1, <2>2 DEF LiveInv
<1>5. CASE EnterBlock
  <2>1. /\ UNCHANGED <<all_vars, program, ord_it>> /\ live_stage = "block" /\ live_stage' = "instrs"
    BY <1>5 DEF EnterBlock
  <2> QED
    BY <1>1, <1>3, <1>5, <2>1, EnterSets DEF LiveInv, NoneInv
<1>6. CASE ProcessInstr
  <2>1. /\ UNCHANGED <<all_vars, program, ord_it>> /\ live_stage = "instrs" /\ live_stage' = "instrs"
    BY <1>6 DEF ProcessInstr
  <2> QED
    BY <1>1, <1>3, <1>6, <2>1, InstrSets DEF LiveInv, NoneInv
<1>7. CASE LeaveBlock
  <2>1. /\ UNCHANGED <<all_vars, program>> /\ live_stage = "instrs" /\ live_stage' = "block"
        /\ ord_it' = ord_it - 1
    BY <1>7 DEF LeaveBlock
  <2>2. ord_it > 0
    BY <2>1 DEF LiveInv, CursorInv
  <2> QED
    BY <1>1, <1>3, <1>7, <2>1, <2>2, LeaveSets DEF LiveInv, NoneInv
<1>8. CASE FillEmpty
  <2>1. /\ UNCHANGED <<all_vars, program, ord_it, m_live_sets>> /\ live_stage = "block"
        /\ live_stage' = "done"
    BY <1>8 DEF FillEmpty
  <2>2. SetsInv'
    <3>1. succs' = succs
      BY <2>1 DEF all_vars, vars, search
    <3>2. \A v, b : Above(v, b)' <=> Above(v, b)
      BY <2>1, <3>1 DEF Above
    <3> QED
      BY <2>1, <3>2 DEF LiveInv, SetsInv
  <2>3. CursorInv' /\ NoneInv'
    BY <2>1 DEF CursorInv, NoneInv
  <2> QED
    BY <1>1, <1>3, <2>1, <2>2, <2>3 DEF LiveInv
<1>9. CASE UNCHANGED every_var
  <2>1. /\ UNCHANGED <<all_vars, live_stage, program, ord_it, ins_it, m_live_sets>>
        /\ UNCHANGED <<succs, m_linear_order>>
    BY <1>9 DEF every_var, live_vars, all_vars, vars, search, order_vars
  <2>2. /\ Here' = Here
        /\ \A v, b : (Above(v, b)' <=> Above(v, b)) /\ (Before(v, b, ins_it)' <=> Before(v, b, ins_it))
    BY <2>1 DEF Here, Above, Before, code
  <2>3. SetsInv' /\ CursorInv' /\ NoneInv'
    BY <2>1, <2>2 DEF LiveInv, SetsInv, CursorInv, NoneInv, code
  <2>4. ProgramInv'
    <3>1. CASE live_stage # "none"
      BY <1>3, <2>1, <3>1
    <3>2. CASE live_stage = "none"
      BY <2>1, <3>2 DEF ProgramInv
    <3> QED
      BY <3>1, <3>2
  <2> QED
    BY <1>1, <2>3, <2>4 DEF LiveInv
<1> QED
  BY <1>2, <1>4, <1>5, <1>6, <1>7, <1>8, <1>9 DEF ANext, AStep, ADone

(***************************************************************************)
(* What is live into a block is defined in another block, which dominates  *)
(* it, whatever the linear order is: the live sets are made backwards      *)
(* along it from those of the successors that have one, an instruction is  *)
(* taken out where it is defined, and the phis at the beginning            *)
(* (liveness_analyzer.hh:176-225, 262-267).                                *)
(***************************************************************************)
THEOREM LiveSetsAreDominated == ASpec => []LiveSetsDominated
<1>1. AInit => LiveInv
  <2> SUFFICES ASSUME AInit PROVE LiveInv
    OBVIOUS
  <2>1. LInit /\ live_stage = "none" /\ DOMAIN m_live_sets = {}
    BY DEF AInit
  <2> QED
    BY <2>1, InitLinear DEF LiveInv, ProgramInv, CursorInv, SetsInv, NoneInv
<1>2. LiveInv => LiveSetsDominated
  <2> SUFFICES ASSUME LiveInv, live_stage \in {"block", "done"},
                      NEW b \in DOMAIN m_live_sets, NEW v \in m_live_sets[b]
               PROVE  DefBlock(v) # b /\ Dom(DefBlock(v), b)
    BY DEF LiveSetsDominated
  <2>1. SSA(program, succs) /\ Above(v, b)
    BY DEF LiveInv, ProgramInv, SetsInv
  <2>2. PICK d \in Nodes \ {b} : v \in Range(code(d)) /\ Dom(d, b)
    BY <2>1 DEF Above, DefinedAbove, code, Dom
  <2>3. \A c \in Nodes : v \in Range(code(c)) => c = d
    BY <2>1, <2>2 DEF SSA, code, Range
  <2>4. DefBlock(v) = d
    BY <2>2, <2>3 DEF DefBlock
  <2> QED
    BY <2>2, <2>4
<1> QED
  BY <1>1, <1>2, NextLive, PTL DEF ASpec

-----------------------------------------------------------------------------
(* The body of a reducible loop follows its header in the linear order.    *)

\* Between the header h and a block of B there are only blocks of B.
Trails(s, h, B) ==
  \A i, j \in DOMAIN s : i < j /\ s[i] = h /\ s[j] \in B => \A k \in i + 1 .. j : s[k] \in B

LEMMA TrailGrows ==
  ASSUME NEW s \in Seq(Nodes), NEW h, NEW B, Trails(s, h, B), NEW b \in Nodes,
         \A i, j \in DOMAIN s : s[i] = s[j] => i = j,
         \/ b \notin B
         \/ h \notin Members(s)
         \/ s # << >> /\ s[Len(s)] \in B \cup {h}
  PROVE  Trails(Append(s, b), h, B)
<1> PICK n, t : n = Len(s) /\ t = Append(s, b)
  OBVIOUS
<1>1. /\ n \in Nat /\ DOMAIN s = 1 .. n /\ DOMAIN t = 1 .. n + 1 /\ t[n + 1] = b
      /\ \A i \in 1 .. n : t[i] = s[i]
  OBVIOUS
<1> SUFFICES ASSUME NEW i \in DOMAIN t, NEW j \in DOMAIN t, i < j, t[i] = h, t[j] \in B
             PROVE  \A k \in i + 1 .. j : t[k] \in B
  BY DEF Trails
<1>2. i \in 1 .. n /\ s[i] = h
  BY <1>1
<1>3. CASE j \in 1 .. n
  <2>1. \A k \in i + 1 .. j : k \in 1 .. n /\ s[k] \in B
    BY <1>1, <1>2, <1>3 DEF Trails
  <2> QED
    BY <1>1, <2>1
<1>4. CASE j = n + 1
  <2>1. s[n] \in B \cup {h} /\ n \in 1 .. n /\ b \in B
    BY <1>1, <1>2, <1>4 DEF Members
  <2>2. \A k \in i + 1 .. n : s[k] \in B
    <3>1. CASE i = n
      BY <1>1, <3>1
    <3>2. CASE i # n
      <4>1. s[n] # h /\ i < n
        BY <1>1, <1>2, <2>1, <3>2
      <4> QED
        BY <1>1, <1>2, <2>1, <4>1 DEF Trails
    <3> QED
      BY <3>1, <3>2
  <2>3. \A k \in i + 1 .. j : (k \in i + 1 .. n /\ k \in 1 .. n) \/ k = n + 1
    BY <1>1, <1>2, <1>4
  <2> QED
    BY <1>1, <2>1, <2>2, <2>3
<1> QED
  BY <1>1, <1>3, <1>4

\* linearize_graph has come to the header of a reducible loop.
Opened(l) == IsReducible(l) /\ In(Header(l), l) /\ Header(l) \in visited
WalksBody(l, k) == calls = <<[loop |-> l, at |-> k]>>

TrailInv ==
  /\ \A l \in Loops : Opened(l) => /\ Trails(m_linear_order, Header(l), Body(l))
                                  /\ (Body(l) \subseteq visited \/ \E k \in Nat : WalksBody(l, k))
  /\ calls # << >> =>
       \E l \in Loops, k \in Nat :
         /\ WalksBody(l, k) /\ k <= Len(m_loops[l].body) /\ Opened(l)
         /\ m_linear_order # << >>
         /\ m_linear_order[Len(m_linear_order)] \in Body(l) \cup {Header(l)}
         /\ \A i \in DOMAIN m_loops[l].body : i > k => m_loops[l].body[i] \in visited

\* What TrailInv says of a loop does not change with the rest of the state.
LEMMA TrailSame ==
  ASSUME TrailInv, UNCHANGED <<loops, calls, visited, m_linear_order>>
  PROVE  TrailInv'
<1>1. /\ Loops' = Loops /\ m_loops' = m_loops
      /\ \A l : Header(l)' = Header(l) /\ Body(l)' = Body(l) /\ (Opened(l)' <=> Opened(l))
      /\ \A l, k : WalksBody(l, k)' <=> WalksBody(l, k)
  BY DEF loops, Loops, Header, Body, Members, Opened, IsReducible, In, WalksBody
<1> QED
  BY <1>1 DEF TrailInv

LEMMA TrailNextNode ==
  ASSUME LinearInv, TrailInv, NextNode
  PROVE  TrailInv'
<1> PICK b, it, s : b = m_rpo[rpo_it] /\ it = rpo_it /\ s = m_linear_order
  OBVIOUS
<1>1. /\ stage = "done" /\ calls = << >> /\ it <= Len(m_rpo)
      /\ IF b \in visited THEN UNCHANGED <<calls, visited, m_linear_order>>
         ELSE Place(b) /\ calls' = IF StartsLoop(b) THEN <<Call(loop_of[b])>> ELSE << >>
      /\ UNCHANGED loops
  BY DEF NextNode, vars
<1>2. b \in Nodes /\ HasLoop(b) /\ loop_of[b] \in Loops
  <2>1. m_rpo \in Seq(Nodes) /\ Members(m_rpo) = Reached
    BY <1>1, RpoFacts DEF LinearInv
  <2>2. it \in DOMAIN m_rpo
    BY <1>1, <2>1 DEF LinearInv, WalkInv
  <2>3. b \in Reached
    BY <2>1, <2>2 DEF Members
  <2> QED
    BY <1>1, <2>1, <2>2, <2>3 DEF LinearInv, LoopInv, ReachInv, TypesInv, LoopsInv, HasLoop
<1>3. CASE b \in visited
  BY <1>1, <1>3, TrailSame
<1>4. CASE b \notin visited
  <2>1. /\ visited' = visited \cup {b} /\ m_linear_order' = Append(s, b)
        /\ calls' = IF StartsLoop(b) THEN <<Call(loop_of[b])>> ELSE << >>
    BY <1>1, <1>4 DEF Place
  <2>2. /\ s \in Seq(Nodes) /\ Members(s) = visited
        /\ \A i, j \in DOMAIN s : s[i] = s[j] => i = j
    BY DEF LinearInv, PlaceInv
  <2>3. /\ Loops' = Loops /\ m_loops' = m_loops /\ loop_of' = loop_of
        /\ \A l : Header(l)' = Header(l) /\ Body(l)' = Body(l) /\ IsReducible(l)' = IsReducible(l)
        /\ \A c, l : In(c, l)' <=> In(c, l)
    BY <1>1 DEF loops, Loops, Header, Body, IsReducible, Members, In
  <2>4. \A l : Opened(l)' <=> Opened(l) \/ (IsReducible(l) /\ In(b, l) /\ Header(l) = b)
    BY <2>1, <2>3 DEF Opened
  <2>5. \A k : \A l : ~WalksBody(l, k)
    BY <1>1 DEF WalksBody
  <2>6. \A l \in Loops : Opened(l) => Body(l) \subseteq visited /\ Trails(s, Header(l), Body(l))
    BY <2>5 DEF TrailInv
  <2>7. \A l \in Loops : Opened(l) => Trails(Append(s, b), Header(l), Body(l))
    BY <1>2, <1>4, <2>2, <2>6, TrailGrows
  <2>8. CASE StartsLoop(b)
    <3> PICK m, n : m = loop_of[b] /\ n = Len(m_loops[m].body)
      OBVIOUS
    <3>1. calls' = <<[loop |-> m, at |-> n]>>
      BY <2>1, <2>8 DEF Call
    <3>2. /\ m \in Loops /\ IsReducible(m) /\ In(b, m) /\ Header(m) = b
      BY <1>2, <2>8 DEF StartsLoop, IsReducible, Header, In, HasLoop
    <3>3. \A l : In(b, l) => l = m
      BY DEF In
    <3>4. Trails(Append(s, b), b, Body(m))
      <4>1. Trails(s, b, Body(m)) /\ b \notin Members(s)
        BY <1>4, <2>2 DEF Trails, Members
      <4> QED
        BY <1>2, <2>2, <4>1, TrailGrows
    <3>5. \A l \in Loops : Opened(l)' => Trails(Append(s, b), Header(l), Body(l))
      BY <2>4, <2>7, <3>3, <3>4
    <3>6. \A l \in Loops : Opened(l)' /\ l # m => Body(l) \subseteq visited'
      BY <2>1, <2>4, <2>6, <3>3
    <3>7. m_loops[m].body \in Seq(Nodes) /\ n \in Nat
      BY <1>1, <3>2, BodyReached DEF LinearInv
    <3>8. WalksBody(m, n)' /\ Opened(m)' /\ n <= Len(m_loops'[m].body)
      BY <2>3, <2>4, <3>1, <3>2, <3>7 DEF WalksBody
    <3>9. Append(s, b) # << >> /\ Append(s, b)[Len(Append(s, b))] = b
      BY <1>2, <2>2
    <3>10. \A i \in DOMAIN m_loops'[m].body : ~(i > n)
      BY <2>3, <3>7
    <3>11. calls' # << >> =>
             \E l \in Loops', k \in Nat :
               /\ WalksBody(l, k)' /\ k <= Len(m_loops'[l].body) /\ Opened(l)'
               /\ m_linear_order' # << >>
               /\ m_linear_order'[Len(m_linear_order')] \in Body(l)' \cup {Header(l)'}
               /\ \A i \in DOMAIN m_loops'[l].body : i > k => m_loops'[l].body[i] \in visited'
      <4>1. m_linear_order'[Len(m_linear_order')] = Header(m)' /\ m_linear_order' # << >>
        BY <2>1, <2>3, <3>2, <3>9
      <4> QED
        BY <2>3, <3>2, <3>7, <3>8, <3>10, <4>1
    <3>12. \A l \in Loops' : Opened(l)' => /\ Trails(m_linear_order', Header(l)', Body(l)')
                                           /\ (Body(l)' \subseteq visited' \/ \E k \in Nat : WalksBody(l, k)')
      BY <2>1, <2>3, <3>5, <3>6, <3>7, <3>8
    <3> QED
      BY <3>11, <3>12 DEF TrailInv
  <2>9. CASE ~StartsLoop(b)
    <3>1. calls' = << >>
      BY <2>1, <2>9
    <3>2. \A l : ~(IsReducible(l) /\ In(b, l) /\ Header(l) = b)
      BY <2>9 DEF StartsLoop, IsReducible, Header, In
    <3>3. \A l \in Loops' : Opened(l)' => /\ Trails(m_linear_order', Header(l)', Body(l)')
                                          /\ Body(l)' \subseteq visited'
      BY <2>1, <2>3, <2>4, <2>6, <2>7, <3>2
    <3> QED
      BY <3>1, <3>3 DEF TrailInv
  <2> QED
    BY <2>8, <2>9
<1> QED
  BY <1>3, <1>4

LEMMA TrailNextBodyNode ==
  ASSUME LinearInv, TrailInv, NextBodyNode
  PROVE  TrailInv'
<1>1. calls # << >> /\ Head(calls).at > 0 /\ UNCHANGED loops
  BY DEF NextBodyNode, vars
<1>2. stage = "done"
  BY <1>1 DEF LinearInv, WalkInv
<1> PICK s : s = m_linear_order
  OBVIOUS
<1>3. PICK l \in Loops, k \in Nat :
        /\ WalksBody(l, k) /\ k <= Len(m_loops[l].body) /\ Opened(l)
        /\ s # << >> /\ s[Len(s)] \in Body(l) \cup {Header(l)}
        /\ \A i \in DOMAIN m_loops[l].body : i > k => m_loops[l].body[i] \in visited
  BY <1>1 DEF TrailInv
<1> DEFINE c == [loop |-> l, at |-> k]
<1>4. /\ calls = <<c>> /\ Head(calls) = c /\ Tail(calls) = << >> /\ c.loop = l /\ c.at = k /\ k > 0
  BY <1>1, <1>3 DEF WalksBody
<1> PICK b : b = m_loops[l].body[k]
  OBVIOUS
<1>5. /\ m_loops[l].body \in Seq(Nodes) /\ k \in DOMAIN m_loops[l].body /\ b \in Body(l)
      /\ b \in Nodes /\ HasLoop(b)
  <2>1. m_loops[l].body \in Seq(Nodes)
    BY <1>2, BodyReached DEF LinearInv
  <2>2. k \in DOMAIN m_loops[l].body
    BY <1>3, <1>4, <2>1
  <2> QED
    BY <1>2, <2>1, <2>2, BodyReached DEF LinearInv
<1>6. \A m \in Loops : In(b, m) /\ Header(m) = b => m = l
  BY <1>5 DEF LinearInv, LoopInv, OrderInv, HeadersAtHome
<1>7. /\ calls' = << >> \o <<[c EXCEPT !.at = @ - 1]>> \o << >>
      /\ IF b \in visited THEN UNCHANGED <<visited, m_linear_order>> ELSE Place(b)
  <2>1. m_loops[c.loop].body[c.at] = b
    BY <1>4
  <2>2. ~(loop_of[b] # l /\ m_loops[loop_of[b]].header = b)
    <3>1. loop_of[b] \in Loops /\ In(b, loop_of[b])
      BY <1>5 DEF HasLoop, In, LinearInv, LoopInv, TypesInv, LoopsInv
    <3> QED
      BY <1>6, <3>1 DEF Header
  <2> HIDE DEF c
  <2> QED
    BY <1>4, <2>1, <2>2 DEF NextBodyNode
<1>8. calls' = <<[loop |-> l, at |-> k - 1]>> /\ k - 1 \in Nat
  <2>1. [c EXCEPT !.at = @ - 1] = [loop |-> l, at |-> k - 1]
    OBVIOUS
  <2> QED
    BY <1>4, <1>7, <2>1
<1>9. /\ s \in Seq(Nodes) /\ Members(s) = visited
      /\ \A i, j \in DOMAIN s : s[i] = s[j] => i = j
  BY DEF LinearInv, PlaceInv
<1>10. /\ Loops' = Loops /\ m_loops' = m_loops
       /\ \A m : Header(m)' = Header(m) /\ Body(m)' = Body(m) /\ IsReducible(m)' = IsReducible(m)
       /\ \A d, m : In(d, m)' <=> In(d, m)
  BY <1>1 DEF loops, Loops, Header, Body, IsReducible, Members, In
<1>11. /\ visited \subseteq visited' /\ b \in visited'
       /\ \A m \in Loops : Opened(m)' <=> Opened(m)
       /\ \A m \in Loops : Opened(m) => Trails(m_linear_order', Header(m), Body(m))
       /\ m_linear_order' # << >> /\ m_linear_order'[Len(m_linear_order')] \in Body(l) \cup {Header(l)}
  <2>1. \A m \in Loops : Opened(m) => Trails(s, Header(m), Body(m))
    BY DEF TrailInv
  <2>2. CASE b \in visited
    <3>1. visited' = visited /\ m_linear_order' = m_linear_order
      BY <1>7, <2>2
    <3>2. \A m \in Loops : Opened(m)' <=> Opened(m)
      BY <1>10, <3>1 DEF Opened
    <3> QED
      BY <1>3, <2>1, <2>2, <3>1, <3>2
  <2>3. CASE b \notin visited
    <3>1. visited' = visited \cup {b} /\ m_linear_order' = Append(s, b)
      BY <1>7, <2>3 DEF Place
    <3>2. \A m \in Loops : Opened(m)' <=> Opened(m)
      <4>1. \A m \in Loops : IsReducible(m) /\ In(b, m) /\ Header(m) = b => Opened(m)
        BY <1>3, <1>6
      <4> QED
        BY <1>10, <3>1, <4>1 DEF Opened
    <3>3. \A m \in Loops : Opened(m) /\ m # l => b \notin Body(m)
      <4> SUFFICES ASSUME NEW m \in Loops, Opened(m), m # l PROVE Body(m) \subseteq visited
        BY <2>3
      <4>1. \A j : ~WalksBody(m, j)
        <5> SUFFICES ASSUME NEW j, WalksBody(m, j) PROVE FALSE
          OBVIOUS
        <5>1. calls[1] = [loop |-> m, at |-> j] /\ calls[1] = [loop |-> l, at |-> k]
          BY <1>3 DEF WalksBody
        <5> QED
          BY <5>1
      <4> QED
        BY <4>1 DEF TrailInv
    <3>4. \A m \in Loops : Opened(m) => Trails(Append(s, b), Header(m), Body(m))
      BY <1>3, <1>5, <1>9, <2>1, <3>3, TrailGrows
    <3>5. Append(s, b) # << >> /\ Append(s, b)[Len(Append(s, b))] = b
      BY <1>5, <1>9
    <3> QED
      BY <1>5, <3>1, <3>2, <3>4, <3>5
  <2> QED
    BY <2>2, <2>3
<1>12. \A m \in Loops' : Opened(m)' =>
         /\ Trails(m_linear_order', Header(m)', Body(m)')
         /\ (Body(m)' \subseteq visited' \/ \E j \in Nat : WalksBody(m, j)')
  <2> SUFFICES ASSUME NEW m \in Loops, Opened(m)
               PROVE  Body(m) \subseteq visited' \/ \E j \in Nat : WalksBody(m, j)'
    BY <1>10, <1>11
  <2>1. CASE m = l
    BY <1>8, <2>1 DEF WalksBody
  <2>2. CASE m # l
    <3>1. \A j : ~WalksBody(m, j)
      <4> SUFFICES ASSUME NEW j, WalksBody(m, j) PROVE FALSE
        OBVIOUS
      <4>1. calls[1] = [loop |-> m, at |-> j] /\ calls[1] = [loop |-> l, at |-> k]
        BY <1>3 DEF WalksBody
      <4> QED
        BY <2>2, <4>1
    <3> QED
      BY <1>11, <3>1 DEF TrailInv
  <2> QED
    BY <2>1, <2>2
<1>13. /\ WalksBody(l, k - 1)' /\ k - 1 <= Len(m_loops'[l].body) /\ Opened(l)'
       /\ \A i \in DOMAIN m_loops'[l].body : i > k - 1 => m_loops'[l].body[i] \in visited'
  <2>1. \A i \in DOMAIN m_loops[l].body : i > k - 1 => i > k \/ i = k
    BY <1>5
  <2>2. \A i \in DOMAIN m_loops[l].body : i > k - 1 => m_loops[l].body[i] \in visited'
    BY <1>3, <1>11, <2>1
  <2>3. k - 1 <= Len(m_loops[l].body)
    BY <1>3, <1>5
  <2> QED
    BY <1>3, <1>8, <1>10, <1>11, <2>2, <2>3 DEF WalksBody
<1>14. \E m \in Loops', j \in Nat :
         /\ WalksBody(m, j)' /\ j <= Len(m_loops'[m].body) /\ Opened(m)'
         /\ m_linear_order' # << >>
         /\ m_linear_order'[Len(m_linear_order')] \in Body(m)' \cup {Header(m)'}
         /\ \A i \in DOMAIN m_loops'[m].body : i > j => m_loops'[m].body[i] \in visited'
  BY <1>8, <1>10, <1>11, <1>13
<1> QED
  BY <1>12, <1>14 DEF TrailInv

LEMMA TrailReturn ==
  ASSUME LinearInv, TrailInv, Return
  PROVE  TrailInv'
<1>1. /\ calls # << >> /\ Head(calls).at = 0 /\ calls' = Tail(calls)
      /\ UNCHANGED <<loops, visited, m_linear_order>>
  BY DEF Return, vars
<1>2. stage = "done"
  BY <1>1 DEF LinearInv, WalkInv
<1>3. PICK l \in Loops, k \in Nat :
        /\ WalksBody(l, k) /\ \A i \in DOMAIN m_loops[l].body : i > k => m_loops[l].body[i] \in visited
  BY <1>1 DEF TrailInv
<1>4. k = 0 /\ calls' = << >>
  <2>1. Head(calls) = [loop |-> l, at |-> k] /\ Tail(calls) = << >>
    BY <1>3 DEF WalksBody
  <2> QED
    BY <1>1, <2>1
<1>5. Body(l) \subseteq visited
  <2>1. m_loops[l].body \in Seq(Nodes)
    BY <1>2, BodyReached DEF LinearInv
  <2>2. \A i \in DOMAIN m_loops[l].body : i > 0
    BY <2>1
  <2> QED
    BY <1>3, <1>4, <2>2 DEF Body, Members
<1>6. \A m, j : WalksBody(m, j) => m = l
  <2> SUFFICES ASSUME NEW m, NEW j, WalksBody(m, j) PROVE m = l
    OBVIOUS
  <2>1. calls[1] = [loop |-> m, at |-> j] /\ calls[1] = [loop |-> l, at |-> k]
    BY <1>3 DEF WalksBody
  <2> QED
    BY <2>1
<1>7. \A m \in Loops : Opened(m) => Body(m) \subseteq visited /\ Trails(m_linear_order, Header(m), Body(m))
  BY <1>5, <1>6 DEF TrailInv
<1>8. /\ Loops' = Loops /\ m_loops' = m_loops
      /\ \A m : Header(m)' = Header(m) /\ Body(m)' = Body(m) /\ (Opened(m)' <=> Opened(m))
  BY <1>1 DEF loops, Loops, Header, Body, IsReducible, Members, In, Opened
<1> QED
  BY <1>1, <1>4, <1>7, <1>8 DEF TrailInv

LEMMA InitTrail == LInit => TrailInv
<1> SUFFICES ASSUME LInit PROVE TrailInv
  OBVIOUS
<1>1. calls = << >> /\ visited = {}
  BY DEF LInit
<1> QED
  BY <1>1 DEF TrailInv, Opened

LEMMA NextTrail == LinearInv /\ TrailInv /\ [LNext]_all_vars => TrailInv'
<1> SUFFICES ASSUME LinearInv, TrailInv, [LNext]_all_vars PROVE TrailInv'
  OBVIOUS
<1>1. CASE BuildLoopTree
  <2>1. Step => stage # "done"
    <3>1. cur_loop # 0 => stage = "populate"
      BY DEF LinearInv, LoopInv, TypesInv, GraphInv
    <3> QED
      BY <3>1 DEF Step, BuildDomTree, CollectBackEdges, Search, Collected, EnterReducible,
                  TakeLatches, NextSource, SkipMarked, SearchBlock, LeaveReducible, InitRootLoop
  <2>2. calls' = << >> /\ visited' = {}
    BY <1>1, <2>1 DEF BuildLoopTree, LinearInv, WalkInv, order_vars
  <2> QED
    BY <2>2 DEF TrailInv, Opened
<1>2. CASE UNCHANGED all_vars
  BY <1>2, TrailSame DEF all_vars, vars, order_vars
<1> QED
  BY <1>1, <1>2, TrailNextNode, TrailNextBodyNode, TrailReturn DEF LNext, LStep, LDone

-----------------------------------------------------------------------------
(* A well ordered graph: dominators come first, and the loops are flat.    *)

\* What an order that is finished knows of the graph.
OrderDone == Ordered /\ LinearInv /\ FiledInv /\ TrailInv

LEMMA Placed ==
  ASSUME Ordered, LinearInv
  PROVE  /\ stage = "done" /\ succs \in Graphs /\ made \in MadeOrders /\ Reached \subseteq Nodes
         /\ DOMAIN m_linear_order = 1 .. Len(m_linear_order) /\ Len(m_linear_order) \in Nat
         /\ \A b \in Reached : Pos(b) \in DOMAIN m_linear_order /\ m_linear_order[Pos(b)] = b
         /\ \A i \in DOMAIN m_linear_order : /\ m_linear_order[i] \in Reached
                                             /\ Pos(m_linear_order[i]) = i
<1>1. stage = "done" /\ calls = << >> /\ rpo_it > Len(m_rpo)
  BY DEF Ordered
<1>2. succs \in Graphs /\ made \in MadeOrders /\ Reached \subseteq Nodes
  BY <1>1, SearchFacts DEF LinearInv, LoopInv, TypesInv
<1> PICK s : s = m_linear_order
  OBVIOUS
<1>3. /\ s \in Seq(Nodes) /\ Members(s) = visited /\ visited \subseteq Reached
      /\ \A i, j \in DOMAIN s : s[i] = s[j] => i = j
  BY DEF LinearInv, PlaceInv
<1>4. Reached \subseteq visited
  <2>1. m_rpo \in Seq(Nodes) /\ Members(m_rpo) = Reached
    BY <1>1, RpoFacts DEF LinearInv
  <2>2. \A i \in DOMAIN m_rpo : i < rpo_it
    <3>1. rpo_it \in Nat
      BY DEF LinearInv, WalkInv
    <3> QED
      BY <1>1, <2>1, <3>1
  <2> QED
    BY <2>1, <2>2 DEF LinearInv, WalkInv, Members
<1>5. \A b \in Reached : \E i \in DOMAIN s : s[i] = b
  BY <1>3, <1>4 DEF Members
<1>6. \A b : Pos(b) = CHOOSE i \in DOMAIN s : s[i] = b
  BY DEF Pos
<1>7. \A b \in Reached : Pos(b) \in DOMAIN s /\ s[Pos(b)] = b
  BY <1>5, <1>6
<1>8. \A i \in DOMAIN s : s[i] \in Reached
  BY <1>3 DEF Members
<1>9. \A i \in DOMAIN s : Pos(s[i]) = i
  BY <1>3, <1>7, <1>8
<1>10. DOMAIN s = 1 .. Len(s) /\ Len(s) \in Nat
  BY <1>3
<1> QED
  BY <1>1, <1>2, <1>7, <1>8, <1>9, <1>10

LEMMA Positions ==
  ASSUME Ordered, LinearInv
  PROVE  /\ \A b \in Reached : Pos(b) \in Nat
         /\ \A b, c \in Reached : Pos(b) = Pos(c) => b = c
  BY Placed

LEMMA DominatorsFirst ==
  ASSUME Ordered, LinearInv, WellOrdered, NEW h \in Reached, NEW b \in Reached, Dom(h, b)
  PROVE  Pos(h) <= Pos(b)
<1>1. /\ succs \in Graphs /\ made \in MadeOrders
      /\ \A c \in Reached : Pos(c) \in Nat
  BY Placed, Positions
<1> DEFINE Bad == {c \in Reached : Dom(h, c) /\ Pos(c) < Pos(h)}
           S == {k \in Nat : \E c \in Bad : k = Pos(c)}
<1> SUFFICES ASSUME b \in Bad PROVE FALSE
  BY <1>1
<1>2. S \in SUBSET Nat /\ S # {}
  BY <1>1
<1>3. PICK m \in S : \A k \in S : m <= k
  <2> HIDE DEF S
  <2> QED
    BY <1>2, LeastNumber
<1>4. PICK c \in Bad : m = Pos(c)
  OBVIOUS
<1>5. \A d \in Bad : Pos(c) <= Pos(d)
  BY <1>1, <1>3, <1>4
<1>6. c # h
  BY <1>1, <1>4
<1>7. c # Entry
  BY <1>1, <1>4, <1>6, DomAvoids
<1>8. PICK p \in Reached : IsEdge(succs, p, c) /\ ~Dom(c, p)
  BY <1>1, <1>4, <1>7, EnteredFromOutside
<1>9. Pos(p) < Pos(c)
  <2>1. <<p, c>> \notin backEdges
    <3> PICK e : e = <<p, c>>
      OBVIOUS
    <3> QED
      BY <1>8 DEF WellOrdered, Reducible
  <2> QED
    BY <1>4, <1>8, <2>1 DEF WellOrdered
<1>10. Dom(h, p)
  BY <1>1, <1>4, <1>6, <1>8, DomAlongEdge
<1>11. p \in Bad
  BY <1>1, <1>4, <1>9, <1>10
<1> QED
  BY <1>1, <1>4, <1>5, <1>9, <1>11

\* A back edge leads from the body of a reducible loop to its header.
LEMMA LoopOfEdge ==
  ASSUME OrderDone, WellOrdered, NEW g, NEW x, <<x, g>> \in backEdges
  PROVE  /\ x \in Reached /\ g \in Reached /\ Pos(g) <= Pos(x) /\ Latch(x, g)
         /\ \E l \in Loops : /\ l = loop_of[g] /\ In(g, l) /\ Header(l) = g /\ IsReducible(l)
                             /\ x \in Body(l) /\ Opened(l) /\ StartsLoop(g)
<1> PICK e : e = <<x, g>>
  OBVIOUS
<1>1. stage = "done" /\ LinearInv /\ LoopInv /\ GraphInv /\ Reached \subseteq Nodes
  BY Placed DEF OrderDone, LinearInv, LoopInv, TypesInv
<1>2. x \in Reached /\ g \in Reached /\ IsEdge(succs, x, g)
  <2>1. e \in backEdges /\ e[1] = x /\ e[2] = g
    OBVIOUS
  <2> QED
    BY <1>1, <2>1, SearchFacts
<1>4. Dom(g, x)
  BY DEF WellOrdered, Reducible
<1>5. Pos(g) <= Pos(x)
  BY <1>2, <1>4, DominatorsFirst DEF OrderDone
<1>6. PICK l \in Loops : In(g, l) /\ Header(l) = g /\ x \in Latches(l)
  <2>1. e \in backEdges /\ e[1] = x /\ e[2] = g
    OBVIOUS
  <2>2. \A d \in backEdges : \E l \in Loops : In(d[2], l) /\ Header(l) = d[2] /\ d[1] \in Latches(l)
    BY <1>1 DEF OrderDone, FiledInv, WellOrdered
  <2> QED
    BY <2>1, <2>2
<1>7. IsReducible(l)
  <2>1. l # Root
    <3>1. Header(Root) = NoNode /\ g \in Nodes /\ NoNode \notin Nodes
      BY <1>1, <1>2, DFSAssumption DEF LoopInv, TypesInv, HeadersInv
    <3> QED
      BY <1>6, <3>1
  <2> QED
    BY <2>1, <1>6 DEF WellOrdered, KnownReducible, IsReducible
<1>8. x \in Body(l)
  BY <1>1, <1>6 DEF LoopInv, BooksInv
<1>9. Opened(l)
  <2>1. g \in visited
    BY <1>2, Placed DEF OrderDone, LinearInv, PlaceInv, Members
  <2> QED
    BY <1>6, <1>7, <2>1 DEF Opened
<1>10. StartsLoop(g)
  BY <1>6, <1>7 DEF StartsLoop, In, Header, IsReducible
<1> QED
  BY <1>2, <1>4, <1>5, <1>6, <1>7, <1>8, <1>9, <1>10 DEF Latch, In

\* No other header lies between a header and a latch of its loop.
LEMMA NoneBetween ==
  ASSUME OrderDone, WellOrdered, NEW g, NEW x, <<x, g>> \in backEdges,
         NEW z, NEW y, <<y, z>> \in backEdges, z # g, Pos(g) <= Pos(z)
  PROVE  Pos(x) < Pos(z)
<1>1. /\ x \in Reached /\ g \in Reached /\ z \in Reached
      /\ \A b \in Reached : Pos(b) \in Nat /\ Pos(b) \in DOMAIN m_linear_order
                            /\ m_linear_order[Pos(b)] = b
  BY LoopOfEdge, Placed, Positions DEF OrderDone
<1>2. PICK l \in Loops : In(g, l) /\ Header(l) = g /\ x \in Body(l) /\ Opened(l)
  BY LoopOfEdge
<1>3. PICK m \in Loops : In(z, m) /\ Header(m) = z
  BY LoopOfEdge
<1>4. z \notin Body(l)
  <2>1. z \in Body(l) => m = l
    BY <1>2, <1>3 DEF OrderDone, LinearInv, LoopInv, OrderInv, HeadersAtHome
  <2> QED
    BY <1>2, <1>3, <2>1
<1> PICK i, j, k : i = Pos(g) /\ j = Pos(x) /\ k = Pos(z)
  OBVIOUS
<1>5. i \in Nat /\ j \in Nat /\ k \in Nat /\ i <= k /\ i # k
  BY <1>1
<1> SUFFICES ASSUME k <= j PROVE FALSE
  BY <1>5
<1>6. i < j /\ k \in i + 1 .. j
  BY <1>5
<1>7. \A n \in i + 1 .. j : m_linear_order[n] \in Body(l)
  BY <1>1, <1>2, <1>6 DEF OrderDone, TrailInv, Trails
<1> QED
  BY <1>1, <1>4, <1>6, <1>7

\* The blocks of a loop are between its header and one of its latches.
LEMMA LoopPlaces ==
  ASSUME OrderDone, WellOrdered, NEW g, IsHeader(g), NEW b \in NaturalLoop(g)
  PROVE  /\ b \in Reached /\ Pos(g) <= Pos(b)
         /\ \E x : <<x, g>> \in backEdges /\ Pos(b) <= Pos(x)
<1>1. /\ stage = "done" /\ P!S!BInv /\ D!Stopped /\ succs \in Graphs /\ made \in MadeOrders
      /\ Reached \subseteq Nodes /\ IsFiniteSet(Nodes) /\ Blocks(succs) = Nodes
  BY Placed, SearchFacts, GraphFacts DEF OrderDone, LinearInv, LoopInv, TypesInv, GraphInv
<1>2. \A u : Latch(u, g) => <<u, g>> \in backEdges
  BY <1>1, LatchesReported DEF WellOrdered
<1>3. g \in Reached /\ \E u \in Reached : Latch(u, g)
  BY DEF IsHeader
<1>4. \A c \in NaturalLoop(g) : c \in Reached /\ Pos(g) <= Pos(c)
  <2> TAKE c \in NaturalLoop(g)
  <2>1. Dom(g, c) /\ c \in Reached
    BY <1>1, <1>3, NaturalDominated
  <2> QED
    BY <1>3, <2>1, DominatorsFirst DEF OrderDone
<1>5. \A c \in Reached : Pos(c) \in Nat
  BY Positions DEF OrderDone
<1>6. CASE b = g
  <2>1. PICK u \in Reached : Latch(u, g)
    BY <1>3
  <2>2. <<u, g>> \in backEdges /\ Pos(g) <= Pos(u)
    BY <1>2, <2>1, LoopOfEdge
  <2> QED
    BY <1>4, <1>6, <2>2
<1>7. CASE b # g
  <2> DEFINE R == ReachAvoiding(succs, {b}, {g})
  <2>1. PICK x \in R : Latch(x, g)
    BY <1>7 DEF NaturalLoop
  <2>2. <<x, g>> \in backEdges /\ x \in Reached /\ x \in NaturalLoop(g)
    BY <1>1, <1>2, <2>1, NaturalFacts DEF Latch
  <2> SUFFICES ASSUME Pos(x) < Pos(b) PROVE FALSE
    BY <1>4, <1>5, <2>2
  <2> DEFINE X == {c \in Reached : c \in NaturalLoop(g) => Pos(x) < Pos(c)}
  <2>3. Confined(succs, X, {g})
    <3> SUFFICES ASSUME NEW c \in X, NEW v \in Nodes \ {g}, IsEdge(succs, c, v),
                        v \in NaturalLoop(g)
                 PROVE  Pos(x) < Pos(v)
      <4>1. \A c \in X : \A v : IsEdge(succs, c, v) => v \in Reached
        BY <1>1, ReachedFacts
      <4> QED
        BY <1>1, <4>1 DEF Confined
    <3>1. c \in NaturalLoop(g) /\ Pos(x) < Pos(c)
      BY <1>1, NaturalFacts
    <3>2. v \in Reached /\ Pos(v) \in Nat /\ Pos(c) \in Nat /\ Pos(x) \in Nat
      BY <1>4, <1>5, <2>2
    <3>3. CASE <<c, v>> \in backEdges
      BY <1>4, <2>2, <3>3, NoneBetween
    <3>4. CASE <<c, v>> \notin backEdges
      BY <3>1, <3>2, <3>4 DEF WellOrdered
    <3> QED
      BY <3>3, <3>4
  <2>4. {b} \ {g} \subseteq X
    BY <1>4
  <2>5. \A U : {b} \ {g} \subseteq U /\ Confined(succs, U, {g}) => R \subseteq U
    <3>1. {b} \in SUBSET Blocks(succs) /\ IsFiniteSet(Blocks(succs))
      BY <1>1, <1>4
    <3> QED
      BY <3>1, ReachFacts
  <2> HIDE DEF R
  <2>6. x \in X
    BY <2>1, <2>3, <2>4, <2>5
  <2> QED
    BY <1>5, <2>2, <2>6
<1> QED
  BY <1>4, <1>6, <1>7

LEMMA LoopsFlat ==
  ASSUME OrderDone, WellOrdered, NEW g, IsHeader(g), NEW z \in NaturalLoop(g), IsHeader(z)
  PROVE  z = g
<1>1. PICK x : <<x, g>> \in backEdges /\ Pos(z) <= Pos(x)
  BY LoopPlaces
<1>2. PICK y : Latch(y, z)
  BY DEF IsHeader
<1>3. <<y, z>> \in backEdges
  <2>1. P!S!BInv /\ D!Stopped /\ made \in MadeOrders
    BY Placed, SearchFacts DEF OrderDone, LinearInv, LoopInv, TypesInv, GraphInv
  <2> QED
    BY <1>2, <2>1, LatchesReported DEF WellOrdered
<1>4. x \in Reached /\ z \in Reached /\ Pos(x) \in Nat /\ Pos(z) \in Nat /\ Pos(g) <= Pos(z)
  BY <1>1, LoopPlaces, LoopOfEdge, Positions DEF OrderDone
<1> SUFFICES ASSUME z # g PROVE FALSE
  OBVIOUS
<1>5. Pos(x) < Pos(z)
  BY <1>1, <1>3, <1>4, NoneBetween
<1> QED
  BY <1>1, <1>4, <1>5

-----------------------------------------------------------------------------
(* The numbers of the instructions.                                        *)

LEMMA NonPhisFacts ==
  ASSUME NEW b, NEW k \in Nat
  PROVE  /\ NonPhis(b, k) \in Nat
         /\ \A j \in 0 .. k : /\ NonPhis(b, j) \in Nat /\ NonPhis(b, j) <= NonPhis(b, k)
                              /\ j < k /\ ~IsPhi(code(b)[k]) => NonPhis(b, j) < NonPhis(b, k)
<1> DEFINE Js(m) == {j \in 1 .. m : ~IsPhi(code(b)[j])}
<1>1. \A m \in Nat : IsFiniteSet(Js(m)) /\ Cardinality(Js(m)) \in Nat /\ NonPhis(b, m) = Cardinality(Js(m))
  <2> TAKE m \in Nat
  <2>1. IsFiniteSet(1 .. m) /\ Js(m) \subseteq 1 .. m
    BY FS_Interval
  <2> QED
    BY <2>1, FS_Subset, FS_CardinalityType DEF NonPhis
<1>2. ASSUME NEW j \in 0 .. k
      PROVE  Cardinality(Js(j)) <= Cardinality(Js(k))
  <2>1. Js(j) \subseteq Js(k)
    OBVIOUS
  <2> HIDE DEF Js
  <2> QED
    BY <1>1, <2>1, FS_Subset
<1>3. ASSUME NEW j \in 0 .. k, j < k, ~IsPhi(code(b)[k])
      PROVE  Cardinality(Js(j)) < Cardinality(Js(k))
  <2>1. Js(j) \subseteq Js(k) /\ k \in Js(k) /\ k \notin Js(j)
    BY <1>3
  <2> HIDE DEF Js
  <2>2. Cardinality(Js(j)) <= Cardinality(Js(k)) /\ (Cardinality(Js(j)) = Cardinality(Js(k)) => Js(j) = Js(k))
    BY <1>1, <2>1, FS_Subset
  <2> QED
    BY <1>1, <2>1, <2>2
<1> HIDE DEF Js
<1> QED
  BY <1>1, <1>2, <1>3

LEMMA BbEndFacts ==
  ASSUME \A k \in 1 .. Len(m_linear_order) : code(m_linear_order[k]) \in Seq(Ids),
         Len(m_linear_order) \in Nat
  PROVE  /\ BbEnd[0] = 0
         /\ \A k \in 1 .. Len(m_linear_order) :
              LET b == m_linear_order[k]
              IN BbEnd[k] = BbEnd[k - 1] + 2 * NonPhis(b, Len(code(b))) + 2
         /\ \A k \in 0 .. Len(m_linear_order) : BbEnd[k] \in Nat
<1> PICK s, n : s = m_linear_order /\ n = Len(m_linear_order)
  OBVIOUS
<1> DEFINE Size(k) == NonPhis(s[k], Len(code(s[k])))
           G == [w \in Nat \X (1 .. n) |-> w[1] + 2 * Size(w[2]) + 2]
           Sol(g) == g = [k \in 0 .. n |-> IF k = 0 THEN 0
                                           ELSE g[k - 1] + 2 * NonPhis(s[k], Len(code(s[k]))) + 2]
           g == CHOOSE h : Sol(h)
<1>1. n \in Nat /\ \A k \in 1 .. n : Size(k) \in Nat
  BY NonPhisFacts
<1>2. BbEnd = g
  BY DEF BbEnd
<1>3. G \in [Nat \X (1 .. n) -> Nat] /\ \A m \in Nat, k \in 1 .. n : G[<<m, k>>] = m + 2 * Size(k) + 2
  <2> HIDE DEF Size
  <2> QED
    BY <1>1
<1> HIDE DEF G
<1>4. PICK f : Iterates(f, Nat, n, 0, G)
  BY <1>1, <1>3, Iteration
<1>5. /\ f \in [0 .. n -> Nat] /\ f[0] = 0
      /\ \A k \in 1 .. n : f[k] = f[k - 1] + 2 * Size(k) + 2
  <2>1. f \in [0 .. n -> Nat] /\ f[0] = 0
    BY <1>4 DEF Iterates
  <2>2. ASSUME NEW k \in 1 .. n PROVE f[k] = f[k - 1] + 2 * Size(k) + 2
    <3>1. k - 1 \in 0 .. n
      BY <1>1
    <3>2. f[k - 1] \in Nat
      BY <2>1, <3>1
    <3>3. f[k] = G[<<f[k - 1], k>>]
      BY <1>4 DEF Iterates
    <3> HIDE DEF Size
    <3> QED
      BY <1>3, <3>2, <3>3
  <2> HIDE DEF Size
  <2> QED
    BY <2>1, <2>2
<1>6. Sol(f)
  <2>1. f = [k \in 0 .. n |-> f[k]]
    BY <1>5
  <2>2. \A k \in 0 .. n : f[k] = IF k = 0 THEN 0
                                 ELSE f[k - 1] + 2 * NonPhis(s[k], Len(code(s[k]))) + 2
    <3> TAKE k \in 0 .. n
    <3>1. CASE k = 0
      BY <1>5, <3>1
    <3>2. CASE k \in 1 .. n
      <4>1. k # 0
        BY <3>2
      <4> QED
        BY <1>5, <3>2, <4>1
    <3> QED
      BY <1>1, <3>1, <3>2
  <2> QED
    BY <2>1, <2>2
<1>7. Sol(g)
  BY <1>6, Zenon
<1> HIDE DEF g
<1>8. \A k \in 0 .. n : g[k] = IF k = 0 THEN 0
                               ELSE g[k - 1] + 2 * NonPhis(s[k], Len(code(s[k]))) + 2
  BY <1>7
<1>9. g[0] = 0 /\ \A k \in 1 .. n : g[k] = g[k - 1] + 2 * Size(k) + 2
  <2>1. 0 \in 0 .. n /\ \A k \in 1 .. n : k \in 0 .. n /\ k # 0
    BY <1>1
  <2> QED
    BY <1>8, <2>1
<1>10. \A k \in 0 .. n : g[k] \in Nat
  <2> DEFINE S == {k \in 0 .. n : g[k] \in Nat}
  <2>1. 0 \in S
    BY <1>1, <1>9
  <2>2. ASSUME NEW k \in 1 .. n, k - 1 \in S PROVE k \in S
    <3> HIDE DEF Size
    <3> QED
      BY <1>1, <1>9, <2>2
  <2> HIDE DEF S
  <2>3. 0 .. n \subseteq S
    BY <1>1, <2>1, <2>2, BoundedInduction
  <2> QED
    BY <2>3 DEF S
<1> QED
  BY <1>2, <1>9, <1>10

\* The numbers go up along the order.
LEMMA NumbersUp ==
  ASSUME LinearInv, ProgramInv, live_stage # "none"
  PROVE  /\ \A b \in Reached : /\ BbInterval(b).b \in Nat /\ BbInterval(b).e \in Nat
                               /\ BbInterval(b).b < BbInterval(b).e
                               /\ code(b) \in Seq(Ids)
         /\ \A b, c \in Reached : Pos(b) < Pos(c) => BbInterval(b).e <= BbInterval(c).b
         /\ \A b, c \in Reached : Pos(b) <= Pos(c) => /\ BbInterval(b).b <= BbInterval(c).b
                                                      /\ BbInterval(b).e <= BbInterval(c).e
<1> PICK s, n : s = m_linear_order /\ n = Len(m_linear_order)
  OBVIOUS
<1>1. Ordered /\ SSA(program, succs)
  BY DEF ProgramInv
<1>2. /\ DOMAIN s = 1 .. n /\ n \in Nat /\ Reached \subseteq Nodes
      /\ \A b \in Reached : Pos(b) \in 1 .. n /\ s[Pos(b)] = b
      /\ \A i \in 1 .. n : s[i] \in Reached
  BY <1>1, Placed
<1>3. \A b \in Reached : code(b) \in Seq(Ids)
  BY <1>1, <1>2 DEF SSA, code
<1> DEFINE end == BbEnd
           Size(k) == NonPhis(s[k], Len(code(s[k])))
<1>4. /\ \A k \in 1 .. n : end[k] = end[k - 1] + 2 * Size(k) + 2
      /\ \A k \in 0 .. n : end[k] \in Nat
  BY <1>2, <1>3, BbEndFacts
<1>5. \A k \in 1 .. n : Size(k) \in Nat
  <2> TAKE k \in 1 .. n
  <2>1. code(s[k]) \in Seq(Ids)
    BY <1>2, <1>3
  <2>2. Len(code(s[k])) \in Nat
    BY <2>1
  <2> QED
    BY <2>2, NonPhisFacts
<1>6. \A b \in Reached : BbInterval(b).b = end[Pos(b) - 1] /\ BbInterval(b).e = end[Pos(b)]
  BY DEF BbInterval
<1> HIDE DEF end, Size
<1>7. \A k \in 1 .. n : end[k - 1] < end[k] /\ end[k - 1] \in Nat /\ end[k] \in Nat
  <2> TAKE k \in 1 .. n
  <2>1. k - 1 \in 0 .. n /\ k \in 0 .. n
    BY <1>2
  <2> QED
    BY <1>4, <1>5, <2>1
<1>8. ASSUME NEW i \in 0 .. n
      PROVE  \A j \in 0 .. n : i <= j => end[i] <= end[j]
  <2> DEFINE S == {j \in 0 .. n : i <= j => end[i] <= end[j]}
  <2>1. 0 \in S
    BY <1>2, <1>4
  <2>2. ASSUME NEW j \in 1 .. n, j - 1 \in S PROVE j \in S
    <3>1. CASE i = j
      BY <1>4, <3>1
    <3>2. CASE i <= j - 1
      <4>1. end[i] <= end[j - 1] /\ end[j - 1] < end[j]
        BY <1>7, <2>2, <3>2
      <4>2. end[i] \in Nat /\ end[j - 1] \in Nat /\ end[j] \in Nat
        BY <1>4, <1>7
      <4> QED
        BY <4>1, <4>2
    <3>3. CASE j < i
      BY <3>3
    <3> QED
      BY <3>1, <3>2, <3>3
  <2> HIDE DEF S
  <2>3. 0 .. n \subseteq S
    BY <1>2, <2>1, <2>2, BoundedInduction
  <2> QED
    BY <2>3 DEF S
<1>9. ASSUME NEW b \in Reached
      PROVE  BbInterval(b).b \in Nat /\ BbInterval(b).e \in Nat /\ BbInterval(b).b < BbInterval(b).e
  BY <1>2, <1>6, <1>7
<1>10. ASSUME NEW b \in Reached, NEW c \in Reached, Pos(b) < Pos(c)
       PROVE  BbInterval(b).e <= BbInterval(c).b
  <2>1. Pos(b) \in 0 .. n /\ Pos(c) - 1 \in 0 .. n /\ Pos(b) <= Pos(c) - 1
    BY <1>2, <1>10
  <2> QED
    BY <1>6, <1>8, <2>1
<1>11. ASSUME NEW b \in Reached, NEW c \in Reached, Pos(b) <= Pos(c)
       PROVE  BbInterval(b).b <= BbInterval(c).b /\ BbInterval(b).e <= BbInterval(c).e
  <2>1. /\ Pos(b) \in 0 .. n /\ Pos(c) \in 0 .. n /\ Pos(b) - 1 \in 0 .. n /\ Pos(c) - 1 \in 0 .. n
        /\ Pos(b) - 1 <= Pos(c) - 1
    BY <1>2, <1>11
  <2> QED
    BY <1>6, <1>8, <1>11, <2>1
<1> QED
  BY <1>3, <1>9, <1>10, <1>11

LEMMA EvenNumbers ==
  ASSUME NEW lo \in Nat, NEW m \in Nat, NEW n \in Nat, m <= n
  PROVE  \A y \in {lo, lo + 2 * m} : y \in Nat /\ lo <= y /\ y < lo + 2 * n + 2
OBVIOUS

LEMMA LiveNumbers ==
  ASSUME LinearInv, ProgramInv, live_stage # "none", NEW b \in Reached, NEW k \in DOMAIN code(b)
  PROVE  /\ live(b, k) \in Nat /\ BbInterval(b).b <= live(b, k) /\ live(b, k) < BbInterval(b).e
         /\ \A j \in 1 .. k : /\ j \in DOMAIN code(b) /\ live(b, j) <= live(b, k)
                              /\ j < k /\ ~IsPhi(code(b)[k]) => live(b, j) < live(b, k)
<1> PICK n, lo : n = Len(code(b)) /\ lo = BbInterval(b).b
  OBVIOUS
<1>1. Ordered /\ SSA(program, succs)
  BY DEF ProgramInv
<1>2. b \in Nodes /\ code(b) \in Seq(Ids) /\ lo \in Nat
  BY <1>1, Placed, NumbersUp
<1>3. n \in Nat /\ DOMAIN code(b) = 1 .. n /\ k \in 1 .. n
  BY <1>2
<1>4. \A j \in 1 .. n : live(b, j) = lo + IF IsPhi(code(b)[j]) THEN 0 ELSE 2 * NonPhis(b, j)
  BY DEF live
<1>5. \A j \in 0 .. n : NonPhis(b, j) \in Nat /\ NonPhis(b, j) <= NonPhis(b, n)
  BY <1>3, NonPhisFacts
<1>6. BbInterval(b).e = lo + 2 * NonPhis(b, n) + 2
  <2> PICK s, p : s = m_linear_order /\ p = Pos(b)
    OBVIOUS
  <2>1. /\ Reached \subseteq Nodes /\ p \in 1 .. Len(s) /\ s[p] = b /\ Len(s) \in Nat
        /\ \A i \in 1 .. Len(s) : s[i] \in Reached
    BY <1>1, Placed
  <2>2. \A i \in 1 .. Len(s) : code(s[i]) \in Seq(Ids)
    BY <1>1, <2>1 DEF SSA, code
  <2>3. BbEnd[p] = BbEnd[p - 1] + 2 * NonPhis(b, n) + 2
    BY <2>1, <2>2, BbEndFacts
  <2> QED
    BY <2>3 DEF BbInterval
<1>7. \A j \in 1 .. k : /\ j \in 1 .. n /\ NonPhis(b, j) <= NonPhis(b, k)
                        /\ j < k /\ ~IsPhi(code(b)[k]) => NonPhis(b, j) < NonPhis(b, k)
  BY <1>3, NonPhisFacts
<1>8. \A j \in 1 .. k : IsPhi(code(b)[k]) => IsPhi(code(b)[j])
  BY <1>1, <1>2 DEF SSA, code, IsPhi
<1>9. ~IsPhi(code(b)[k]) => NonPhis(b, k) > 0
  <2>1. 0 \in 0 .. k /\ 0 < k /\ k \in Nat
    BY <1>3
  <2> QED
    BY <1>3, <1>5, <2>1, NonPhisFacts
<1>10. live(b, k) \in Nat /\ lo <= live(b, k) /\ live(b, k) < BbInterval(b).e
  <2> PICK m, N, x, e : m = NonPhis(b, k) /\ N = NonPhis(b, n) /\ x = live(b, k) /\ e = BbInterval(b).e
    OBVIOUS
  <2>1. m \in Nat /\ N \in Nat /\ m <= N /\ e = lo + 2 * N + 2
    <3>1. k \in 0 .. n /\ n \in 0 .. n
      BY <1>3
    <3> QED
      BY <1>5, <1>6, <3>1
  <2>2. x = lo \/ x = lo + 2 * m
    <3>1. x = lo + (IF IsPhi(code(b)[k]) THEN 0 ELSE 2 * m)
      BY <1>3, <1>4
    <3> QED
      BY <1>2, <3>1
  <2>3. \A y \in {lo, lo + 2 * m} : y \in Nat /\ lo <= y /\ y < lo + 2 * N + 2
    BY <1>2, <2>1, EvenNumbers
  <2> QED
    BY <2>1, <2>2, <2>3
<1>11. ASSUME NEW j \in 1 .. k
       PROVE  /\ live(b, j) <= live(b, k)
              /\ j < k /\ ~IsPhi(code(b)[k]) => live(b, j) < live(b, k)
  <2>1. NonPhis(b, j) \in Nat /\ NonPhis(b, k) \in Nat /\ j \in 1 .. n
    BY <1>3, <1>5, <1>7
  <2> QED
    BY <1>2, <1>3, <1>4, <1>7, <1>8, <1>9, <2>1
<1> QED
  BY <1>3, <1>7, <1>10, <1>11

-----------------------------------------------------------------------------
(* The intervals only grow.                                                *)

Span == [b : Nat, e : Nat]

AllSpans(map) == \A v \in DOMAIN map : map[v] \in Span
IntervalsInv == AllSpans(m_intervals)

LEMMA UpdateFacts ==
  ASSUME NEW old \in Span, NEW new \in Span
  PROVE  /\ Update(old, new) \in Span
         /\ Update(old, new).b <= old.b /\ Update(old, new).b <= new.b
         /\ old.e <= Update(old, new).e /\ new.e <= Update(old, new).e
<1>1. \A i, j \in Nat : /\ Min({i, j}) \in Nat /\ Min({i, j}) <= i /\ Min({i, j}) <= j
                        /\ Max({i, j}) \in Nat /\ i <= Max({i, j}) /\ j <= Max({i, j})
  <2> TAKE i, j \in Nat
  <2>1. \E x \in {i, j} : \A y \in {i, j} : x <= y
    <3>1. CASE i <= j
      BY <3>1
    <3>2. CASE j <= i
      BY <3>2
    <3> QED
      BY <3>1, <3>2
  <2>2. \E x \in {i, j} : \A y \in {i, j} : x >= y
    <3>1. CASE i <= j
      BY <3>1
    <3>2. CASE j <= i
      BY <3>2
    <3> QED
      BY <3>1, <3>2
  <2>3. Min({i, j}) \in {i, j} /\ \A y \in {i, j} : Min({i, j}) <= y
    BY <2>1 DEF Min
  <2>4. Max({i, j}) \in {i, j} /\ \A y \in {i, j} : Max({i, j}) >= y
    BY <2>2 DEF Max
  <2> QED
    BY <2>3, <2>4
<1>2. old.b \in Nat /\ old.e \in Nat /\ new.b \in Nat /\ new.e \in Nat
  BY DEF Span
<1> QED
  BY <1>1, <1>2 DEF Update, Span

LEMMA WithIntervalFacts ==
  ASSUME NEW map, \A v \in DOMAIN map : map[v] \in Span, NEW V, NEW new \in Span
  PROVE  LET m == WithInterval(map, V, new)
         IN /\ DOMAIN m = DOMAIN map \cup V
            /\ \A v \in DOMAIN m : m[v] \in Span
            /\ \A v \in DOMAIN map : m[v].b <= map[v].b /\ map[v].e <= m[v].e
            /\ \A v \in V : m[v].b <= new.b /\ new.e <= m[v].e
<1> DEFINE m == WithInterval(map, V, new)
<1>1. /\ DOMAIN m = DOMAIN map \cup V
      /\ \A v \in DOMAIN map \cup V :
           m[v] = IF v \notin V THEN map[v] ELSE IF v \notin DOMAIN map THEN new ELSE Update(map[v], new)
  BY DEF WithInterval
<1> HIDE DEF m
<1>2. \A s \in Span : s.b <= s.b /\ s.e <= s.e
  BY DEF Span
<1>3. ASSUME NEW v \in DOMAIN map \cup V
      PROVE  /\ m[v] \in Span
             /\ v \in DOMAIN map => m[v].b <= map[v].b /\ map[v].e <= m[v].e
             /\ v \in V => m[v].b <= new.b /\ new.e <= m[v].e
  <2>1. CASE v \notin V
    BY <1>1, <1>2, <2>1
  <2>2. CASE v \in V /\ v \notin DOMAIN map
    BY <1>1, <1>2, <2>2
  <2>3. CASE v \in V /\ v \in DOMAIN map
    <3>1. m[v] = Update(map[v], new)
      BY <1>1, <2>3
    <3> QED
      BY <2>3, <3>1, UpdateFacts
  <2> QED
    BY <2>1, <2>2, <2>3
<1> QED
  BY <1>1, <1>3 DEF m

\* A value gets its definition and others get wider.
Widened(m, i, V, new, w) ==
  /\ DOMAIN w = DOMAIN m \cup {i} \cup V
  /\ \A v \in DOMAIN w : w[v] \in Span
  /\ \A v \in DOMAIN m : m[v].e <= w[v].e
  /\ \A v \in DOMAIN m : v # i => w[v].b <= m[v].b
  /\ w[i].b <= new.e
  /\ \A v \in V : w[v].b <= new.b
  /\ \A v \in V : new.e <= w[v].e

LEMMA DefinedWithFacts ==
  ASSUME NEW m, AllSpans(m), NEW i, NEW V, NEW new \in Span,
         NEW w, w = WithInterval(Defined(m, i, new.e), V, new)
  PROVE  Widened(m, i, V, new, w)
<1> PICK n : n = new.e
  OBVIOUS
<1>1. n \in Nat
  BY DEF Span
<1> DEFINE d == Defined(m, i, n)
           f == WithInterval(d, V, new)
<1>2. /\ DOMAIN d = DOMAIN m \cup {i}
      /\ \A v \in DOMAIN m \cup {i} :
           d[v] = IF v # i THEN m[v] ELSE IF i \in DOMAIN m THEN [m[i] EXCEPT !.b = n]
                             ELSE [b |-> n, e |-> n + 2]
  BY DEF Defined
<1> HIDE DEF d
<1>3. [b |-> n, e |-> n + 2] \in Span /\ [b |-> n, e |-> n + 2].b = n
  BY <1>1 DEF Span
<1>4. \A s \in Span : LET t == [s EXCEPT !.b = n] IN t \in Span /\ t.b = n /\ t.e = s.e
  BY <1>1 DEF Span
<1>5. \A v \in DOMAIN m : m[v] \in Span
  BY DEF AllSpans
<1>6. ASSUME NEW v \in DOMAIN m \cup {i}
      PROVE  /\ d[v] \in Span
             /\ v \in DOMAIN m => m[v].e = d[v].e /\ (v # i => d[v] = m[v])
             /\ v = i => d[v].b = n
  <2>1. CASE v # i
    BY <1>2, <1>5, <2>1
  <2>2. CASE v = i /\ i \in DOMAIN m
    <3>1. d[v] = [m[i] EXCEPT !.b = n]
      BY <1>2, <2>2
    <3> QED
      BY <1>4, <1>5, <2>2, <3>1
  <2>3. CASE v = i /\ i \notin DOMAIN m
    <3>1. d[v] = [b |-> n, e |-> n + 2]
      BY <1>2, <2>3
    <3> QED
      BY <1>3, <2>3, <3>1
  <2> QED
    BY <2>1, <2>2, <2>3
<1>7. \A v \in DOMAIN d : d[v] \in Span
  BY <1>2, <1>6
<1>8. /\ DOMAIN f = DOMAIN d \cup V
      /\ \A v \in DOMAIN f : f[v] \in Span
      /\ \A v \in DOMAIN d : f[v].b <= d[v].b /\ d[v].e <= f[v].e
      /\ \A v \in V : f[v].b <= new.b /\ new.e <= f[v].e
  BY <1>7, WithIntervalFacts
<1>9. w = f
  BY DEF d
<1> HIDE DEF f
<1>10. \A v \in DOMAIN m : m[v].e <= w[v].e /\ (v # i => w[v].b <= m[v].b)
  BY <1>2, <1>6, <1>8, <1>9
<1>11. w[i].b <= n
  BY <1>2, <1>6, <1>8, <1>9
<1> QED
  BY <1>2, <1>8, <1>9, <1>10, <1>11 DEF Widened

LEMMA MaxFacts ==
  ASSUME NEW S \in SUBSET Nat, S # {}, NEW top \in Nat, \A x \in S : x <= top
  PROVE  Max(S) \in Nat /\ \A x \in S : x <= Max(S)
<1> DEFINE Bounds == {m \in Nat : \A x \in S : x <= m}
<1>1. Bounds \in SUBSET Nat /\ Bounds # {}
  OBVIOUS
<1>2. PICK m \in Bounds : \A k \in Bounds : m <= k
  <2> HIDE DEF Bounds
  <2> QED
    BY <1>1, LeastNumber
<1>3. m \in S
  <2> SUFFICES ASSUME m \notin S PROVE FALSE
    OBVIOUS
  <2>1. \A x \in S : x < m
    OBVIOUS
  <2>2. PICK x : x \in S
    OBVIOUS
  <2>3. m - 1 \in Nat
    BY <2>1, <2>2
  <2>4. m - 1 \in Bounds
    BY <2>1, <2>3
  <2> QED
    BY <1>2, <2>4
<1>4. \E y \in S : \A x \in S : y >= x
  BY <1>3
<1>5. Max(S) \in S /\ \A x \in S : Max(S) >= x
  BY <1>4 DEF Max
<1> QED
  BY <1>5

LEMMA LoopEndFacts ==
  ASSUME LinearInv, ProgramInv, live_stage # "none", NEW l \in Loops
  PROVE  LoopEnd(l) \in Nat /\ \A b \in Body(l) : BbInterval(b).e <= LoopEnd(l)
<1>1. Ordered
  BY DEF ProgramInv
<1>2. Body(l) \subseteq Reached
  BY <1>1, BodyReached DEF LinearInv, Ordered, Body, Members
<1>3. \A c \in Reached : /\ BbInterval(c).e \in Nat /\ Pos(c) \in 1 .. Len(m_linear_order)
                         /\ m_linear_order[Pos(c)] = c
  BY <1>1, NumbersUp, Placed
<1> PICK s, n : s = m_linear_order /\ n = Len(m_linear_order)
  OBVIOUS
<1> DEFINE S == {0} \cup {BbInterval(c).e : c \in Body(l)}
<1>4. LoopEnd(l) = Max(S)
  BY DEF LoopEnd, Body, Members, Range
<1>5. S \in SUBSET Nat
  BY <1>2, <1>3
<1>6. \E top \in Nat : \A x \in S : x <= top
  <2>1. CASE Body(l) = {}
    BY <2>1
  <2>2. CASE Body(l) # {}
    <3>1. PICK c : c \in Body(l)
      BY <2>2
    <3>2. n \in Nat /\ n \in DOMAIN s /\ s[n] \in Reached /\ Pos(s[n]) = n
      BY <1>1, <1>2, <1>3, <3>1, Placed
    <3>3. \A d \in Reached : BbInterval(d).e <= BbInterval(s[n]).e
      BY <1>3, <3>2, NumbersUp
    <3>4. PICK top \in Nat : top = BbInterval(s[n]).e
      BY <1>3, <3>2
    <3>5. \A x \in S : x <= top
      BY <1>2, <3>3, <3>4
    <3> QED
      BY <3>5
  <2> QED
    BY <2>1, <2>2
<1>7. \A b \in Body(l) : BbInterval(b).e \in S
  OBVIOUS
<1>8. S # {}
  OBVIOUS
<1> HIDE DEF S
<1>9. Max(S) \in Nat /\ \A x \in S : x <= Max(S)
  BY <1>5, <1>6, <1>8, MaxFacts
<1> QED
  BY <1>4, <1>7, <1>9

LEMMA SameNumbers ==
  ASSUME UNCHANGED <<m_linear_order, program>>
  PROVE  /\ \A b : BbInterval(b)' = BbInterval(b) /\ Pos(b)' = Pos(b) /\ code(b)' = code(b)
         /\ \A b, k : live(b, k)' = live(b, k)
         /\ \A i : IsPhi(i)' <=> IsPhi(i)
<1>1. \A i : IsPhi(i)' <=> IsPhi(i)
  BY DEF IsPhi
<1>2. \A b : code(b)' = code(b) /\ Pos(b)' = Pos(b)
  BY DEF code, Pos
<1>3. \A b, k : NonPhis(b, k)' = NonPhis(b, k)
  BY <1>1, <1>2 DEF NonPhis
<1>4. BbEnd' = BbEnd
  BY DEF BbEnd, NonPhis, code, IsPhi
<1>5. \A b : BbInterval(b)' = BbInterval(b)
  BY <1>2, <1>4 DEF BbInterval
<1>6. \A b, k : live(b, k)' = live(b, k)
  BY <1>1, <1>2, <1>3, <1>5 DEF live
<1> QED
  BY <1>1, <1>2, <1>5, <1>6

-----------------------------------------------------------------------------
(* The blocks behind ord_it are processed.                                 *)

ProcessedInv ==
  live_stage # "none" =>
    /\ live_stage = "done" => ord_it = 0
    /\ DOMAIN m_live_sets \subseteq Reached
    /\ \A b \in Reached :
         b \in DOMAIN m_live_sets <=> ord_it < Pos(b) \/ (live_stage = "instrs" /\ b = Here)

LEMMA LiveStepSame ==
  ASSUME EnterBlock \/ ProcessInstr \/ LeaveBlock \/ FillEmpty
  PROVE  /\ UNCHANGED all_vars /\ program' = program
         /\ UNCHANGED <<m_linear_order, succs, backEdges, m_loops, loop_of>>
         /\ Reached' = Reached /\ live_stage # "none" /\ live_stage' # "none"
<1>1. UNCHANGED all_vars /\ program' = program /\ live_stage # "none" /\ live_stage' # "none"
  BY DEF EnterBlock, ProcessInstr, LeaveBlock, FillEmpty
<1>2. UNCHANGED <<m_linear_order, succs, backEdges, m_loops, loop_of>>
  BY <1>1 DEF all_vars, order_vars, vars, search, loops
<1> QED
  BY <1>1, <1>2, SameReached

LEMMA HerePos ==
  ASSUME LinearInv, ProgramInv, live_stage # "none", ord_it > 0
  PROVE  Here \in Reached /\ Pos(Here) = ord_it /\ ord_it \in Nat
<1>1. Ordered /\ ord_it \in 1 .. Len(m_linear_order)
  <2>1. Ordered /\ ord_it \in 0 .. Len(m_linear_order)
    BY DEF ProgramInv
  <2> QED
    BY <2>1, Placed
<1> QED
  BY <1>1, Placed DEF Here

LEMMA NextProcessed == LiveInv /\ ProcessedInv /\ [ANext]_every_var => ProcessedInv'
<1> SUFFICES ASSUME LiveInv, ProcessedInv, [ANext]_every_var PROVE ProcessedInv'
  OBVIOUS
<1> PICK s, n : s = m_linear_order /\ n = ord_it
  OBVIOUS
<1>1. CASE BuildOrder
  <2>1. live_stage = "none" /\ live_stage' = "none"
    <3>1. live_stage = "none"
      BY <1>1, OrderStands DEF BuildOrder, LiveInv, ProgramInv
    <3> QED
      BY <1>1, <3>1 DEF BuildOrder, live_vars
  <2> QED
    BY <2>1 DEF ProcessedInv
<1>2. CASE Start
  <2>1. /\ Ordered /\ live_stage' = "block" /\ ord_it' = Len(s) /\ m_live_sets' = m_live_sets
        /\ DOMAIN m_live_sets = {} /\ m_linear_order' = s /\ succs' = succs
    BY <1>2 DEF Start, LiveInv, NoneInv, all_vars, order_vars, vars, search
  <2>2. Reached' = Reached /\ \A b : Pos(b)' = Pos(b)
    BY <2>1, SameReached DEF Pos
  <2>3. \A b \in Reached : ~(Len(s) < Pos(b))
    BY <2>1, Placed DEF LiveInv
  <2> QED
    BY <2>1, <2>2, <2>3 DEF ProcessedInv
<1>3. ASSUME EnterBlock \/ ProcessInstr \/ LeaveBlock \/ FillEmpty
      PROVE  /\ \A b : Pos(b)' = Pos(b)
             /\ Reached' = Reached /\ m_linear_order' = s /\ live_stage # "none"
             /\ \A b \in Reached : Pos(b) \in Nat /\ s[Pos(b)] = b
             /\ n \in Nat
             /\ n > 0 => s[n] \in Reached /\ Pos(s[n]) = n /\ Here = s[n]
             /\ DOMAIN m_live_sets \subseteq Reached
             /\ \A b \in Reached :
                  b \in DOMAIN m_live_sets <=> n < Pos(b) \/ (live_stage = "instrs" /\ b = s[n])
  <2>1. /\ Reached' = Reached /\ m_linear_order' = s /\ live_stage # "none" /\ program' = program
        /\ Ordered /\ n \in 0 .. Len(s)
    BY <1>3, LiveStepSame DEF LiveInv, ProgramInv
  <2>2. \A b : Pos(b)' = Pos(b)
    BY <2>1, SameNumbers
  <2>3. \A b \in Reached : Pos(b) \in Nat /\ s[Pos(b)] = b
    BY <2>1, Placed DEF LiveInv
  <2>4. n \in Nat
    BY <2>1, Placed DEF LiveInv
  <2>5. n > 0 => s[n] \in Reached /\ Pos(s[n]) = n /\ Here = s[n]
    BY <2>1, HerePos DEF LiveInv, Here
  <2>6. Here = s[n]
    BY DEF Here
  <2> QED
    BY <2>1, <2>2, <2>3, <2>4, <2>5, <2>6 DEF ProcessedInv
<1>4. CASE EnterBlock
  <2>1. /\ live_stage = "block" /\ live_stage' = "instrs" /\ n > 0 /\ ord_it' = n
        /\ DOMAIN m_live_sets' = DOMAIN m_live_sets \cup {s[n]}
    BY <1>4 DEF EnterBlock, Here
  <2>2. Here' = s[n]
    BY <1>3, <1>4, <2>1 DEF Here
  <2> QED
    BY <1>3, <1>4, <2>1, <2>2 DEF ProcessedInv
<1>5. CASE ProcessInstr
  <2>1. /\ live_stage = "instrs" /\ live_stage' = "instrs" /\ ord_it' = n
        /\ DOMAIN m_live_sets' = DOMAIN m_live_sets
    BY <1>5 DEF ProcessInstr
  <2>2. Here' = s[n]
    BY <1>3, <1>5, <2>1 DEF Here
  <2> QED
    BY <1>3, <1>5, <2>1, <2>2 DEF ProcessedInv
<1>6. CASE LeaveBlock
  <2>1. /\ live_stage = "instrs" /\ live_stage' = "block" /\ ord_it' = n - 1
        /\ DOMAIN m_live_sets' = DOMAIN m_live_sets
    BY <1>6 DEF LeaveBlock
  <2>2. n > 0
    BY <2>1 DEF LiveInv, CursorInv
  <2>3. \A b \in Reached : n - 1 < Pos(b) <=> n < Pos(b) \/ b = s[n]
    BY <1>3, <1>6, <2>2
  <2> QED
    BY <1>3, <1>6, <2>1, <2>3 DEF ProcessedInv
<1>7. CASE FillEmpty
  <2>1. /\ live_stage = "block" /\ live_stage' = "done" /\ n = 0 /\ ord_it' = n
        /\ m_live_sets' = m_live_sets
    BY <1>7 DEF FillEmpty
  <2> QED
    BY <1>3, <1>7, <2>1 DEF ProcessedInv
<1>8. CASE UNCHANGED every_var
  <2>1. UNCHANGED <<live_stage, ord_it, m_live_sets, m_linear_order, succs>>
    BY <1>8 DEF every_var, live_vars, all_vars, order_vars, vars, search
  <2>2. Reached' = Reached
    BY <2>1, SameReached
  <2> QED
    BY <2>1, <2>2 DEF ProcessedInv, Here, Pos
<1> QED
  BY <1>1, <1>2, <1>4, <1>5, <1>6, <1>7, <1>8 DEF ANext, AStep, ADone

-----------------------------------------------------------------------------
(* What an interval spans once the live sets have asked for it.            *)

Active(b) == live_stage = "instrs" /\ b = Here
Undone(b) == IF Active(b) THEN ins_it ELSE 0

\* v is live into the part of b that is processed, or defined there.
Kept(b, v) ==
  v \in m_live_sets[b] \/ \E k \in DOMAIN code(b) : k > Undone(b) /\ code(b)[k] = v

FromDef(v, n) == \E b \in Reached : \E k \in DOMAIN code(b) : code(b)[k] = v /\ n <= live(b, k)
Spans(v, lo, hi) ==
  program.op[v] \notin Terminators =>
    /\ v \in DOMAIN m_intervals /\ hi <= m_intervals[v].e
    /\ (m_intervals[v].b <= lo \/ FromDef(v, m_intervals[v].b))

\* What is live out of b, but for back edges.
Ahead(b) == {c \in Range(succs[b]) : <<b, c>> \notin backEdges}
OutSet(b) == UNION {m_live_sets[c] \cup PhiReads(b, c) : c \in Ahead(b)}

CoverOut(b) == \A v \in OutSet(b) : Kept(b, v) /\ Spans(v, BbInterval(b).b, BbInterval(b).e)
CoverReads(b) ==
  \A k \in DOMAIN code(b) :
    k > Undone(b) /\ ~IsPhi(code(b)[k]) =>
      \A v \in Range(program.inputs[code(b)[k]]) :
        Kept(b, v) /\ Spans(v, BbInterval(b).b, live(b, k))
CoverLoop(b) ==
  StartsLoop(b) /\ ~Active(b) =>
    \A v \in m_live_sets[b] : Spans(v, BbInterval(b).b, LoopEnd(loop_of[b]))

Cover(b) == CoverOut(b) /\ CoverReads(b) /\ CoverLoop(b)

CoverInv == live_stage # "none" /\ WellOrdered => \A b \in DOMAIN m_live_sets : Cover(b)

\* The intervals of values lose nothing, but for what is before the definition.
Grow ==
  \A v \in DOMAIN m_intervals :
    program.op[v] \notin Terminators =>
      /\ v \in DOMAIN m_intervals' /\ m_intervals[v].e <= m_intervals'[v].e
      /\ (m_intervals'[v].b <= m_intervals[v].b \/ FromDef(v, m_intervals'[v].b))

LEMMA SpansStay ==
  ASSUME LiveInv, IntervalsInv, IntervalsInv', Grow, live_stage # "none",
         UNCHANGED <<m_linear_order, program, succs>>,
         NEW v, NEW lo \in Nat, NEW hi \in Nat, Spans(v, lo, hi)
  PROVE  Spans(v, lo, hi)'
<1>1. /\ Reached' = Reached /\ program' = program
      /\ \A b, k : live(b, k)' = live(b, k) /\ code(b)' = code(b)
  BY SameReached, SameNumbers
<1>2. \A n : FromDef(v, n) <=> FromDef(v, n)'
  BY <1>1 DEF FromDef
<1> PICK m, w : m = m_intervals /\ w = m_intervals'
  OBVIOUS
<1> SUFFICES ASSUME program.op[v] \notin Terminators
             PROVE  v \in DOMAIN w /\ hi <= w[v].e /\ (w[v].b <= lo \/ FromDef(v, w[v].b))
  BY <1>1, <1>2 DEF Spans
<1>3. v \in DOMAIN m /\ hi <= m[v].e /\ (m[v].b <= lo \/ FromDef(v, m[v].b))
  BY DEF Spans
<1>4. v \in DOMAIN w /\ m[v].e <= w[v].e /\ (w[v].b <= m[v].b \/ FromDef(v, w[v].b))
  BY <1>3 DEF Grow
<1>5. m[v].b \in Nat /\ m[v].e \in Nat /\ w[v].b \in Nat /\ w[v].e \in Nat
  BY <1>3, <1>4 DEF IntervalsInv, AllSpans, Span
<1>6. ASSUME FromDef(v, m[v].b), w[v].b <= m[v].b PROVE FromDef(v, w[v].b)
  <2>1. PICK b \in Reached : \E k \in DOMAIN code(b) : code(b)[k] = v /\ m[v].b <= live(b, k)
    BY <1>6 DEF FromDef
  <2>2. PICK k \in DOMAIN code(b) : code(b)[k] = v /\ m[v].b <= live(b, k)
    BY <2>1
  <2>3. live(b, k) \in Nat
    BY LiveNumbers DEF LiveInv
  <2>4. w[v].b <= live(b, k)
    BY <1>5, <1>6, <2>2, <2>3
  <2> QED
    BY <2>2, <2>4 DEF FromDef
<1> QED
  BY <1>3, <1>4, <1>5, <1>6

LEMMA WithIntervalSpans ==
  ASSUME IntervalsInv, NEW V, NEW new \in Span, program' = program,
         m_intervals' = WithInterval(m_intervals, V, new)
  PROVE  /\ IntervalsInv' /\ Grow
         /\ \A lo, hi : lo = new.b /\ hi = new.e => \A v \in V : Spans(v, lo, hi)'
<1> PICK m, w : m = m_intervals /\ w = m_intervals'
  OBVIOUS
<1>1. /\ DOMAIN w = DOMAIN m \cup V
      /\ \A v \in DOMAIN w : w[v] \in Span
      /\ \A v \in DOMAIN m : w[v].b <= m[v].b /\ m[v].e <= w[v].e
      /\ \A v \in V : w[v].b <= new.b /\ new.e <= w[v].e
  <2>1. \A v \in DOMAIN m : m[v] \in Span
    BY DEF IntervalsInv, AllSpans
  <2>2. w = WithInterval(m, V, new)
    OBVIOUS
  <2> QED
    BY <2>1, <2>2, WithIntervalFacts
<1>2. IntervalsInv'
  BY <1>1 DEF IntervalsInv, AllSpans
<1>3. Grow
  BY <1>1 DEF Grow
<1>4. ASSUME NEW v \in V, NEW lo, NEW hi, lo = new.b, hi = new.e PROVE Spans(v, lo, hi)'
  BY <1>1, <1>4 DEF Spans
<1> QED
  BY <1>2, <1>3, <1>4

LEMMA EnterSpans ==
  ASSUME LiveInv, IntervalsInv, EnterBlock
  PROVE  /\ IntervalsInv' /\ Grow
         /\ \A lo, hi : lo = BbInterval(Here).b /\ hi = BbInterval(Here).e =>
              \A v \in InitLiveSet(Here) : Spans(v, lo, hi)'
<1> PICK V, new : V = InitLiveSet(Here) /\ new = BbInterval(Here)
  OBVIOUS
<1>1. program' = program /\ m_intervals' = WithInterval(m_intervals, V, new)
  BY DEF EnterBlock
<1>2. new \in Span
  <2>1. Here \in Reached
    BY HerePos DEF EnterBlock, LiveInv
  <2>2. new.b \in Nat /\ new.e \in Nat
    BY <2>1, NumbersUp DEF EnterBlock, LiveInv
  <2> QED
    BY <2>2 DEF BbInterval, Span
<1> QED
  BY <1>1, <1>2, WithIntervalSpans

\* The loop of a block has an end.
LEMMA LoopEnds ==
  ASSUME LinearInv, ProgramInv, live_stage # "none", NEW b \in Reached
  PROVE  loop_of[b] \in Loops /\ LoopEnd(loop_of[b]) \in Nat
<1>1. stage = "done"
  BY Placed DEF ProgramInv
<1>2. b \in DOMAIN loop_of /\ loop_of \in [DOMAIN loop_of -> Loops]
  BY <1>1 DEF LinearInv, LoopInv, ReachInv, TypesInv, LoopsInv
<1>3. loop_of[b] \in Loops
  BY <1>2
<1> QED
  BY <1>3, LoopEndFacts

LEMMA LeaveSpans ==
  ASSUME LiveInv, IntervalsInv, LeaveBlock
  PROVE  /\ IntervalsInv' /\ Grow
         /\ StartsLoop(Here) =>
              \A lo, hi : lo = BbInterval(Here).b /\ hi = LoopEnd(loop_of[Here]) =>
                \A v \in LiveInto(Here) : Spans(v, lo, hi)'
<1> PICK V, new : /\ V = LiveInto(Here)
                  /\ new = [b |-> BbInterval(Here).b, e |-> LoopEnd(loop_of[Here])]
  OBVIOUS
<1>1. /\ program' = program /\ live_stage = "instrs"
      /\ m_intervals' = IF StartsLoop(Here) THEN WithInterval(m_intervals, V, new) ELSE m_intervals
  BY DEF LeaveBlock
<1>2. new.b = BbInterval(Here).b /\ new.e = LoopEnd(loop_of[Here])
  OBVIOUS
<1>3. new \in Span
  <2>1. Here \in Reached
    BY <1>1, HerePos DEF LiveInv, CursorInv
  <2>2. BbInterval(Here).b \in Nat /\ LoopEnd(loop_of[Here]) \in Nat
    BY <1>1, <2>1, NumbersUp, LoopEnds DEF LiveInv
  <2> QED
    BY <2>2 DEF Span
<1>4. CASE StartsLoop(Here)
  <2>1. m_intervals' = WithInterval(m_intervals, V, new)
    BY <1>1, <1>4
  <2>2. /\ IntervalsInv' /\ Grow
        /\ \A lo, hi : lo = new.b /\ hi = new.e => \A v \in V : Spans(v, lo, hi)'
    BY <1>1, <1>3, <2>1, WithIntervalSpans
  <2> QED
    BY <1>2, <2>2
<1>5. CASE ~StartsLoop(Here)
  <2>1. m_intervals' = m_intervals
    BY <1>1, <1>5
  <2>2. IntervalsInv'
    BY <2>1 DEF IntervalsInv, AllSpans
  <2>3. Grow
    BY <2>1 DEF Grow, IntervalsInv, AllSpans, Span
  <2> QED
    BY <1>5, <2>2, <2>3
<1> QED
  BY <1>4, <1>5

LEMMA InstrSpans ==
  ASSUME LiveInv, IntervalsInv, ProcessInstr
  PROVE  /\ IntervalsInv' /\ Grow
         /\ \A lo, hi : lo = BbInterval(Here).b /\ hi = live(Here, ins_it) =>
              \A v \in Range(program.inputs[Instr]) : Spans(v, lo, hi)'
<1>1. PICK V, new, n, i : /\ V = Range(program.inputs[Instr]) /\ n = live(Here, ins_it) /\ i = Instr
                        /\ new = [b |-> BbInterval(Here).b, e |-> live(Here, ins_it)]
  OBVIOUS
<1>2. PICK m, w : m = m_intervals /\ w = m_intervals'
  OBVIOUS
<1>3. /\ program' = program /\ live_stage = "instrs" /\ ins_it > 0
      /\ w = WithInterval(Defined(m, i, n), V, new)
  BY <1>1, <1>2 DEF ProcessInstr
<1>4. new.b = BbInterval(Here).b /\ new.e = n
  BY <1>1
<1>5. Here \in Reached /\ ins_it \in DOMAIN code(Here) /\ code(Here)[ins_it] = i
  <2>1. Here \in Reached /\ code(Here) \in Seq(Ids)
    BY <1>3, HereReached DEF LiveInv, CursorInv
  <2>2. ins_it \in 1 .. Len(code(Here))
    BY <1>3 DEF LiveInv, CursorInv
  <2> QED
    BY <1>1, <2>1, <2>2 DEF Instr
<1>6. n \in Nat /\ new \in Span
  <2>1. BbInterval(Here).b \in Nat
    BY <1>3, <1>5, NumbersUp DEF LiveInv
  <2>2. n \in Nat
    BY <1>1, <1>3, <1>5, LiveNumbers DEF LiveInv
  <2> QED
    BY <1>1, <2>1, <2>2 DEF Span
<1>7. Widened(m, i, V, new, w)
  <2>1. AllSpans(m) /\ new \in Span
    BY <1>2, <1>6 DEF IntervalsInv
  <2>2. w = WithInterval(Defined(m, i, new.e), V, new)
    BY <1>3, <1>4
  <2> QED
    BY <2>1, <2>2, DefinedWithFacts
<1>8. /\ DOMAIN w = DOMAIN m \cup {i} \cup V
      /\ \A v \in DOMAIN w : w[v] \in Span
      /\ \A v \in DOMAIN m : m[v].e <= w[v].e
      /\ \A v \in DOMAIN m : v # i => w[v].b <= m[v].b
      /\ w[i].b <= new.e
      /\ \A v \in V : w[v].b <= new.b
      /\ \A v \in V : new.e <= w[v].e
  BY <1>7 DEF Widened
<1>10. IntervalsInv'
  BY <1>2, <1>8 DEF IntervalsInv, AllSpans
<1>11. FromDef(i, w[i].b)
  BY <1>1, <1>4, <1>5, <1>8 DEF FromDef
<1>12. Grow
  <2> SUFFICES ASSUME NEW v \in DOMAIN m
               PROVE  /\ v \in DOMAIN w /\ m[v].e <= w[v].e
                      /\ (w[v].b <= m[v].b \/ FromDef(v, w[v].b))
    BY <1>2 DEF Grow
  <2>1. v \in DOMAIN w /\ m[v].e <= w[v].e
    BY <1>8
  <2>2. CASE v = i
    BY <1>11, <2>1, <2>2
  <2>3. CASE v # i
    BY <1>8, <2>1, <2>3
  <2> QED
    BY <2>2, <2>3
<1>13. ASSUME NEW lo, NEW hi, lo = new.b, hi = new.e, NEW v \in V PROVE Spans(v, lo, hi)'
  BY <1>2, <1>8, <1>13 DEF Spans
<1> QED
  BY <1>1, <1>4, <1>10, <1>12, <1>13

LEMMA FillSpans ==
  ASSUME LiveInv, IntervalsInv, FillEmpty
  PROVE  IntervalsInv' /\ Grow
<1> PICK m, w : m = m_intervals /\ w = m_intervals'
  OBVIOUS
<1>1. /\ DOMAIN w = DOMAIN m
      /\ \A v \in DOMAIN m : w[v] = IF program.op[v] \in Terminators THEN [m[v] EXCEPT !.e = m[v].b]
                                    ELSE m[v]
  BY DEF FillEmpty
<1>2. \A v \in DOMAIN m : m[v] \in Span
  BY DEF IntervalsInv, AllSpans
<1>3. \A s \in Span : [s EXCEPT !.e = s.b] \in Span /\ s.b <= s.b /\ s.e <= s.e
  BY DEF Span
<1>4. IntervalsInv'
  BY <1>1, <1>2, <1>3 DEF IntervalsInv, AllSpans
<1>5. Grow
  <2> SUFFICES ASSUME NEW v \in DOMAIN m, program.op[v] \notin Terminators
               PROVE  v \in DOMAIN w /\ m[v].e <= w[v].e /\ w[v].b <= m[v].b
    BY DEF Grow
  <2>1. w[v] = m[v]
    BY <1>1
  <2> QED
    BY <1>1, <1>2, <1>3, <2>1
<1> QED
  BY <1>4, <1>5

-----------------------------------------------------------------------------
(* CoverInv is kept.                                                       *)

LEMMA SameWellOrdered ==
  ASSUME UNCHANGED all_vars
  PROVE  WellOrdered' <=> WellOrdered
<1>1. UNCHANGED <<succs, backEdges, m_loops, m_linear_order>>
  BY DEF all_vars, vars, order_vars, search, loops
<1>2. Reached' = Reached
  BY <1>1, SameReached
<1>3. Reducible' <=> Reducible
  BY <1>1 DEF Reducible, Dom
<1>4. KnownReducible' <=> KnownReducible
  BY <1>1 DEF KnownReducible, Loops, Root
<1>5. OneRoleEach' <=> OneRoleEach
  BY <1>1 DEF OneRoleEach
<1>6. \A b : Pos(b)' = Pos(b)
  BY <1>1 DEF Pos
<1> QED
  BY <1>1, <1>2, <1>3, <1>4, <1>5, <1>6 DEF WellOrdered

\* What the block in turn reads ahead of it is processed.
LEMMA AheadDone ==
  ASSUME LiveInv, ProcessedInv, WellOrdered, live_stage # "none",
         NEW b \in Reached, ord_it <= Pos(b), NEW c \in Ahead(b)
  PROVE  c \in DOMAIN m_live_sets /\ c \in Reached /\ (ord_it > 0 => c # Here)
<1>1. /\ succs \in Graphs /\ made \in MadeOrders /\ ord_it \in Nat
      /\ \A d \in Reached : Pos(d) \in Nat
  <2>1. Ordered /\ ord_it \in 0 .. Len(m_linear_order)
    BY DEF LiveInv, ProgramInv
  <2> QED
    BY <2>1, Placed, Positions DEF LiveInv
<1>2. IsEdge(succs, b, c) /\ <<b, c>> \notin backEdges
  BY DEF Ahead, Range, IsEdge
<1>3. c \in Reached
  BY <1>1, <1>2, ReachedFacts
<1>4. Pos(b) < Pos(c)
  BY <1>2, <1>3 DEF WellOrdered
<1>5. ord_it < Pos(c)
  BY <1>1, <1>3, <1>4
<1>6. c \in DOMAIN m_live_sets
  BY <1>3, <1>5 DEF ProcessedInv
<1>7. ord_it > 0 => Pos(Here) = ord_it
  BY HerePos DEF LiveInv
<1> QED
  BY <1>1, <1>3, <1>5, <1>6, <1>7

LEMMA SameOut ==
  ASSUME UNCHANGED <<all_vars, program>>, NEW b, \A c \in Ahead(b) : m_live_sets'[c] = m_live_sets[c]
  PROVE  OutSet(b)' = OutSet(b)
<1>1. succs' = succs /\ backEdges' = backEdges
  BY DEF all_vars, vars, search
<1>2. Ahead(b)' = Ahead(b)
  BY <1>1 DEF Ahead
<1>3. \A c : PhiReads(b, c)' = PhiReads(b, c)
  BY DEF PhiReads, code, IsPhi
<1> PICK A, w, m : A = Ahead(b) /\ w = m_live_sets' /\ m = m_live_sets
  OBVIOUS
<1>4. OutSet(b)' = UNION {w[c] \cup PhiReads(b, c) : c \in A}
  BY <1>2, <1>3 DEF OutSet
<1>5. OutSet(b) = UNION {m[c] \cup PhiReads(b, c) : c \in A}
  BY DEF OutSet
<1>6. {w[c] \cup PhiReads(b, c) : c \in A} = {m[c] \cup PhiReads(b, c) : c \in A}
  OBVIOUS
<1> QED
  BY <1>4, <1>5, <1>6

\* The spans of a block that is processed are kept.
LEMMA CoverStays ==
  ASSUME LiveInv, IntervalsInv, IntervalsInv', Grow, live_stage # "none",
         UNCHANGED <<all_vars, program>>,
         NEW b \in Reached, Cover(b), \A v : Kept(b, v) => Kept(b, v)',
         \A c \in Ahead(b) : m_live_sets'[c] = m_live_sets[c]
  PROVE  /\ CoverOut(b)'
         /\ \A k \in DOMAIN code(b) :
              k > Undone(b) /\ ~IsPhi(code(b)[k]) =>
                \A v \in Range(program.inputs[code(b)[k]]) :
                  Kept(b, v)' /\ \A lo, hi : lo = BbInterval(b).b /\ hi = live(b, k) => Spans(v, lo, hi)'
         /\ ~Active(b) /\ m_live_sets'[b] = m_live_sets[b] => CoverLoop(b)'
<1>1. /\ UNCHANGED <<m_linear_order, program, succs, m_loops, loop_of>>
      /\ \A c : BbInterval(c)' = BbInterval(c)
  <2>1. UNCHANGED <<m_linear_order, program, succs, m_loops, loop_of>>
    BY DEF all_vars, vars, search, order_vars, loops
  <2> QED
    BY <2>1, SameNumbers
<1>2. /\ BbInterval(b).b \in Nat /\ BbInterval(b).e \in Nat
      /\ \A k \in DOMAIN code(b) : live(b, k) \in Nat
  BY NumbersUp, LiveNumbers DEF LiveInv
<1>3. LoopEnd(loop_of[b]) \in Nat
  BY LoopEnds DEF LiveInv
<1>4. \A v, lo, hi : lo \in Nat /\ hi \in Nat /\ Spans(v, lo, hi) => Spans(v, lo, hi)'
  BY <1>1, SpansStay
<1>5. CoverOut(b)'
  <2> PICK lo, hi : lo = BbInterval(b).b /\ hi = BbInterval(b).e
    OBVIOUS
  <2>1. lo = BbInterval(b)'.b /\ hi = BbInterval(b)'.e /\ OutSet(b)' = OutSet(b)
    BY <1>1, SameOut
  <2>2. \A v \in OutSet(b) : Kept(b, v) /\ Spans(v, lo, hi)
    BY DEF Cover, CoverOut
  <2>3. \A v \in OutSet(b) : Kept(b, v)' /\ Spans(v, lo, hi)'
    BY <1>2, <1>4, <2>2
  <2> QED
    BY <2>1, <2>3 DEF CoverOut
<1>6. ASSUME NEW k \in DOMAIN code(b), k > Undone(b), ~IsPhi(code(b)[k]),
             NEW v \in Range(program.inputs[code(b)[k]])
      PROVE  Kept(b, v)' /\ \A lo, hi : lo = BbInterval(b).b /\ hi = live(b, k) => Spans(v, lo, hi)'
  <2>1. Kept(b, v) /\ \A lo, hi : lo = BbInterval(b).b /\ hi = live(b, k) => Spans(v, lo, hi)
    BY <1>6 DEF Cover, CoverReads
  <2> QED
    BY <1>2, <1>4, <2>1
<1>7. ASSUME ~Active(b), m_live_sets'[b] = m_live_sets[b] PROVE CoverLoop(b)'
  <2> PICK lo, hi : lo = BbInterval(b).b /\ hi = LoopEnd(loop_of[b])
    OBVIOUS
  <2>1. lo = BbInterval(b)'.b /\ hi = LoopEnd(loop_of[b])'
    BY <1>1 DEF LoopEnd
  <2>2. StartsLoop(b)' <=> StartsLoop(b)
    BY <1>1 DEF StartsLoop
  <2>3. StartsLoop(b) => \A v \in m_live_sets[b] : Spans(v, lo, hi)
    BY <1>7 DEF Cover, CoverLoop
  <2>4. StartsLoop(b) => \A v \in m_live_sets[b] : Spans(v, lo, hi)'
    BY <1>2, <1>3, <1>4, <2>3
  <2> QED
    BY <1>7, <2>1, <2>2, <2>4 DEF CoverLoop
<1> QED
  BY <1>5, <1>6, <1>7

\* From what is kept to what is covered, in the state after the step.
LEMMA ReadsAgain ==
  ASSUME UNCHANGED <<all_vars, program>>, NEW b,
         \A k \in DOMAIN code(b) :
           k > Undone(b)' /\ ~IsPhi(code(b)[k]) =>
             \A v \in Range(program.inputs[code(b)[k]]) :
               Kept(b, v)' /\ \A lo, hi : lo = BbInterval(b).b /\ hi = live(b, k) => Spans(v, lo, hi)'
  PROVE  CoverReads(b)'
<1>1. UNCHANGED <<m_linear_order, program>>
  BY DEF all_vars, order_vars
<1>2. /\ BbInterval(b)' = BbInterval(b) /\ code(b)' = code(b)
      /\ \A k : live(b, k)' = live(b, k)
      /\ \A i : IsPhi(i)' <=> IsPhi(i)
  BY <1>1, SameNumbers
<1> SUFFICES ASSUME NEW k \in DOMAIN code(b), k > Undone(b)', ~IsPhi(code(b)[k]),
                    NEW v \in Range(program.inputs[code(b)[k]])
             PROVE  Kept(b, v)' /\ Spans(v, BbInterval(b).b, live(b, k))'
  BY <1>1, <1>2 DEF CoverReads
<1> PICK lo, hi : lo = BbInterval(b).b /\ hi = live(b, k)
  OBVIOUS
<1>3. Kept(b, v)' /\ Spans(v, lo, hi)'
  OBVIOUS
<1>4. lo = BbInterval(b)'.b /\ hi = live(b, k)'
  BY <1>2
<1> QED
  BY <1>3, <1>4

LEMMA CoverOther ==
  ASSUME LiveInv, IntervalsInv, IntervalsInv', Grow, live_stage # "none",
         UNCHANGED <<all_vars, program>>,
         NEW b \in Reached, Cover(b), ~Active(b), ~Active(b)', m_live_sets'[b] = m_live_sets[b],
         \A c \in Ahead(b) : m_live_sets'[c] = m_live_sets[c]
  PROVE  Cover(b)'
<1>1. Undone(b) = 0 /\ Undone(b)' = 0 /\ code(b)' = code(b)
  BY DEF Undone, code
<1>2. \A v : Kept(b, v) => Kept(b, v)'
  BY <1>1 DEF Kept
<1>3. /\ CoverOut(b)'
      /\ \A k \in DOMAIN code(b) :
           k > Undone(b) /\ ~IsPhi(code(b)[k]) =>
             \A v \in Range(program.inputs[code(b)[k]]) :
               Kept(b, v)' /\ \A lo, hi : lo = BbInterval(b).b /\ hi = live(b, k) => Spans(v, lo, hi)'
      /\ CoverLoop(b)'
  BY <1>2, CoverStays
<1>4. CoverReads(b)'
  BY <1>1, <1>3, ReadsAgain
<1> QED
  BY <1>3, <1>4 DEF Cover

LEMMA EnterCover ==
  ASSUME LiveInv, ProcessedInv, IntervalsInv, CoverInv, WellOrdered, EnterBlock,
         NEW b \in DOMAIN m_live_sets'
  PROVE  Cover(b)'
<1> PICK h, set : h = Here /\ set = InitLiveSet(Here)
  OBVIOUS
<1>1. /\ UNCHANGED <<all_vars, program>> /\ live_stage = "block" /\ live_stage' = "instrs"
      /\ ord_it > 0 /\ Here' = h /\ ins_it' = Len(code(h))
      /\ m_live_sets' = [c \in DOMAIN m_live_sets \cup {h} |-> IF c = h THEN set ELSE m_live_sets[c]]
  BY DEF EnterBlock, Here, all_vars, order_vars
<1>2. IntervalsInv' /\ Grow
  BY EnterSpans
<1>3. /\ h \in Reached /\ Pos(h) = ord_it /\ ord_it \in Nat
      /\ \A c \in Reached : Pos(c) \in Nat
      /\ DOMAIN m_live_sets \subseteq Reached
      /\ \A c \in DOMAIN m_live_sets : ord_it < Pos(c)
  <2>1. Ordered
    BY <1>1 DEF LiveInv, ProgramInv
  <2> QED
    BY <1>1, <2>1, HerePos, Positions DEF LiveInv, ProcessedInv
<1>4. ASSUME NEW d \in Reached, ord_it <= Pos(d), NEW c \in Ahead(d)
      PROVE  c \in DOMAIN m_live_sets /\ c # h /\ m_live_sets'[c] = m_live_sets[c]
  BY <1>1, <1>4, AheadDone
<1>5. CASE b # h
  <2>1. b \in DOMAIN m_live_sets /\ m_live_sets'[b] = m_live_sets[b]
    BY <1>1, <1>5
  <2>2. ~Active(b) /\ ~Active(b)'
    BY <1>1, <1>5 DEF Active
  <2>3. b \in Reached /\ \A c \in Ahead(b) : m_live_sets'[c] = m_live_sets[c]
    BY <1>3, <1>4, <2>1
  <2>4. Cover(b)
    BY <1>1, <2>1 DEF CoverInv
  <2> QED
    BY <1>1, <1>2, <2>1, <2>2, <2>3, <2>4, CoverOther
<1>6. CASE b = h
  <2>1. Active(h)' /\ Undone(h)' = Len(code(h)) /\ code(h) \in Seq(Ids)
    BY <1>1, HereReached DEF Active, Undone, LiveInv
  <2>2. OutSet(h) \subseteq set
    <3> SUFFICES ASSUME NEW c \in Ahead(h) PROVE m_live_sets[c] \cup PhiReads(h, c) \subseteq set
      BY DEF OutSet
    <3>1. c \in DOMAIN m_live_sets /\ c \in Range(succs[h])
      BY <1>3, <1>4 DEF Ahead
    <3>2. LiveSet(c) = m_live_sets[c]
      BY <3>1 DEF LiveSet
    <3> QED
      BY <3>1, <3>2 DEF InitLiveSet
  <2>3. OutSet(h)' = OutSet(h)
    <3>1. \A c \in Ahead(h) : m_live_sets'[c] = m_live_sets[c]
      BY <1>3, <1>4
    <3> QED
      BY <1>1, <3>1, SameOut
  <2>4. CoverOut(h)'
    <3> PICK lo, hi : lo = BbInterval(h).b /\ hi = BbInterval(h).e
      OBVIOUS
    <3>1. lo = BbInterval(h)'.b /\ hi = BbInterval(h)'.e
      <4>1. UNCHANGED <<m_linear_order, program>>
        BY <1>1 DEF all_vars, order_vars
      <4> QED
        BY <4>1, SameNumbers
    <3>2. \A v \in set : Spans(v, lo, hi)'
      BY EnterSpans
    <3>3. \A v \in set : Kept(h, v)'
      BY <1>1 DEF Kept
    <3> QED
      BY <2>2, <2>3, <3>1, <3>2, <3>3 DEF CoverOut
  <2>5. CoverReads(h)'
    <3>1. \A k \in DOMAIN code(h) : ~(k > Undone(h)')
      BY <2>1
    <3> QED
      BY <1>1, <3>1, ReadsAgain
  <2>6. CoverLoop(h)'
    BY <2>1 DEF CoverLoop
  <2> QED
    BY <1>6, <2>4, <2>5, <2>6 DEF Cover
<1> QED
  BY <1>5, <1>6

LEMMA InstrCover ==
  ASSUME LiveInv, ProcessedInv, IntervalsInv, CoverInv, WellOrdered, ProcessInstr,
         NEW b \in DOMAIN m_live_sets'
  PROVE  Cover(b)'
<1> PICK h, i, n, ins : /\ h = Here /\ i = code(Here)[ins_it] /\ n = ins_it
                        /\ ins = Range(program.inputs[code(Here)[ins_it]])
  OBVIOUS
<1>1. /\ UNCHANGED <<all_vars, program>> /\ live_stage = "instrs" /\ live_stage' = "instrs"
      /\ ord_it > 0 /\ Here' = h /\ ins_it' = n - 1 /\ n \in Nat /\ n > 0 /\ ~IsPhi(i)
      /\ h \in DOMAIN m_live_sets
      /\ m_live_sets' = [m_live_sets EXCEPT ![h] = (@ \ {i}) \cup ins]
  <2>1. /\ UNCHANGED <<all_vars, program>> /\ live_stage = "instrs" /\ live_stage' = "instrs"
        /\ Here' = h /\ ins_it' = n - 1 /\ n > 0 /\ ~IsPhi(i)
        /\ m_live_sets' = [m_live_sets EXCEPT ![h] = (@ \ {i}) \cup ins]
    BY DEF ProcessInstr, Instr, Here, all_vars, order_vars
  <2>2. ord_it > 0 /\ h \in DOMAIN m_live_sets /\ n \in 0 .. Len(code(h))
    BY <2>1 DEF LiveInv, CursorInv
  <2>3. code(h) \in Seq(Ids)
    BY <2>1, <2>2, HereReached DEF LiveInv
  <2> QED
    BY <2>1, <2>2, <2>3
<1>2. IntervalsInv' /\ Grow
  BY InstrSpans
<1>3. /\ h \in Reached /\ Pos(h) = ord_it /\ ord_it \in Nat
      /\ \A c \in Reached : Pos(c) \in Nat
      /\ DOMAIN m_live_sets \subseteq Reached
      /\ \A c \in DOMAIN m_live_sets : ord_it <= Pos(c)
      /\ n \in DOMAIN code(h) /\ code(h)[n] = i
  <2>1. Ordered
    BY <1>1 DEF LiveInv, ProgramInv
  <2>2. /\ h \in Reached /\ Pos(h) = ord_it /\ ord_it \in Nat
        /\ \A c \in Reached : Pos(c) \in Nat
        /\ DOMAIN m_live_sets \subseteq Reached
        /\ \A c \in DOMAIN m_live_sets : ord_it < Pos(c) \/ c = h
    BY <1>1, <2>1, HerePos, Positions DEF LiveInv, ProcessedInv
  <2>3. code(h) \in Seq(Ids) /\ n \in 1 .. Len(code(h))
    BY <1>1, HereReached DEF LiveInv, CursorInv
  <2> QED
    BY <2>2, <2>3
<1>4. ASSUME NEW d \in DOMAIN m_live_sets, NEW c \in Ahead(d)
      PROVE  m_live_sets'[c] = m_live_sets[c]
  <2>1. c \in DOMAIN m_live_sets /\ c # h
    BY <1>1, <1>3, <1>4, AheadDone
  <2> QED
    BY <1>1, <2>1
<1>5. b \in DOMAIN m_live_sets /\ b \in Reached /\ Cover(b)
  BY <1>1, <1>3 DEF CoverInv
<1>6. CASE b # h
  <2>1. m_live_sets'[b] = m_live_sets[b]
    BY <1>1, <1>5, <1>6
  <2>2. ~Active(b) /\ ~Active(b)'
    BY <1>1, <1>6 DEF Active
  <2> QED
    BY <1>1, <1>2, <1>4, <1>5, <2>1, <2>2, CoverOther
<1>7. CASE b = h
  <2>1. Active(h) /\ Active(h)' /\ Undone(h) = n /\ Undone(h)' = n - 1 /\ code(h)' = code(h)
    BY <1>1 DEF Active, Undone, code
  <2>2. \A v \in m_live_sets'[h] : Kept(h, v)'
    BY DEF Kept
  <2>3. Kept(h, i)'
    BY <1>1, <1>3, <2>1 DEF Kept
  <2>4. ASSUME NEW v, Kept(h, v) PROVE Kept(h, v)'
    <3>1. CASE v = i
      BY <2>3, <3>1
    <3>2. CASE v # i /\ v \in m_live_sets[h]
      BY <1>1, <2>2, <3>2
    <3>3. CASE \E k \in DOMAIN code(h) : k > Undone(h) /\ code(h)[k] = v
      <4>1. PICK k \in DOMAIN code(h) : k > n /\ code(h)[k] = v
        BY <2>1, <3>3
      <4>2. k > n - 1
        <5>1. k \in Nat
          BY <1>1, HereReached DEF LiveInv
        <5> QED
          BY <1>1, <4>1, <5>1
      <4> QED
        BY <2>1, <4>1, <4>2 DEF Kept
    <3> QED
      BY <2>4, <3>1, <3>2, <3>3 DEF Kept
  <2>5. /\ CoverOut(h)'
        /\ \A k \in DOMAIN code(h) :
             k > n /\ ~IsPhi(code(h)[k]) =>
               \A v \in Range(program.inputs[code(h)[k]]) :
                 Kept(h, v)' /\ \A lo, hi : lo = BbInterval(h).b /\ hi = live(h, k) => Spans(v, lo, hi)'
    BY <1>1, <1>2, <1>4, <1>5, <1>7, <2>1, <2>4, CoverStays
  <2>6. \A v \in ins : Kept(h, v)' /\ \A lo, hi : lo = BbInterval(h).b /\ hi = live(h, n) => Spans(v, lo, hi)'
    <3>1. \A v \in ins : v \in m_live_sets'[h]
      BY <1>1
    <3>2. \A lo, hi : lo = BbInterval(h).b /\ hi = live(h, n) => \A v \in ins : Spans(v, lo, hi)'
      BY InstrSpans DEF Instr
    <3> QED
      BY <2>2, <3>1, <3>2
  <2>7. CoverReads(h)'
    <3>1. ASSUME NEW k \in DOMAIN code(h), k > Undone(h)', ~IsPhi(code(h)[k]),
                 NEW v \in Range(program.inputs[code(h)[k]])
          PROVE  Kept(h, v)' /\ \A lo, hi : lo = BbInterval(h).b /\ hi = live(h, k) => Spans(v, lo, hi)'
      <4>1. k \in Nat
        BY <1>1, HereReached DEF LiveInv
      <4>2. CASE k = n
        BY <1>3, <2>6, <4>2
      <4>3. CASE k > n
        BY <2>5, <3>1, <4>3
      <4> QED
        BY <1>1, <2>1, <3>1, <4>1, <4>2, <4>3
    <3> QED
      BY <1>1, <3>1, ReadsAgain
  <2>8. CoverLoop(h)'
    BY <2>1 DEF CoverLoop
  <2> QED
    BY <1>7, <2>5, <2>7, <2>8 DEF Cover
<1> QED
  BY <1>6, <1>7

LEMMA LeaveCover ==
  ASSUME LiveInv, ProcessedInv, IntervalsInv, CoverInv, WellOrdered, LeaveBlock,
         NEW b \in DOMAIN m_live_sets'
  PROVE  Cover(b)'
<1> PICK h, n, set : h = Here /\ n = ins_it /\ set = LiveInto(Here)
  OBVIOUS
<1>1. /\ UNCHANGED <<all_vars, program>> /\ live_stage = "instrs" /\ live_stage' = "block"
      /\ ord_it > 0 /\ n \in 0 .. Len(code(h)) /\ (n > 0 => IsPhi(code(h)[n]))
      /\ h \in DOMAIN m_live_sets
      /\ m_live_sets' = [m_live_sets EXCEPT ![h] = set]
  <2>1. /\ UNCHANGED <<all_vars, program>> /\ live_stage = "instrs" /\ live_stage' = "block"
        /\ (n > 0 => IsPhi(code(h)[n]))
        /\ m_live_sets' = [m_live_sets EXCEPT ![h] = set]
    BY DEF LeaveBlock, Instr
  <2> QED
    BY <2>1 DEF LiveInv, CursorInv
<1>2. IntervalsInv' /\ Grow
  BY LeaveSpans
<1>3. /\ h \in Reached /\ h \in Nodes /\ Pos(h) = ord_it /\ ord_it \in Nat
      /\ \A c \in Reached : Pos(c) \in Nat
      /\ DOMAIN m_live_sets \subseteq Reached
      /\ \A c \in DOMAIN m_live_sets : ord_it <= Pos(c)
      /\ code(h) \in Seq(Ids) /\ SSA(program, succs)
  <2>1. Ordered /\ SSA(program, succs)
    BY <1>1 DEF LiveInv, ProgramInv
  <2>2. /\ h \in Reached /\ Pos(h) = ord_it /\ ord_it \in Nat
        /\ \A c \in Reached : Pos(c) \in Nat
        /\ DOMAIN m_live_sets \subseteq Reached
        /\ \A c \in DOMAIN m_live_sets : ord_it < Pos(c) \/ c = h
    BY <1>1, <2>1, HerePos, Positions DEF LiveInv, ProcessedInv
  <2>3. h \in Nodes /\ code(h) \in Seq(Ids)
    BY <1>1, HereReached DEF LiveInv
  <2> QED
    BY <2>1, <2>2, <2>3
<1>4. ASSUME NEW d \in DOMAIN m_live_sets, NEW c \in Ahead(d)
      PROVE  m_live_sets'[c] = m_live_sets[c]
  <2>1. c \in DOMAIN m_live_sets /\ c # h
    BY <1>1, <1>3, <1>4, AheadDone
  <2> QED
    BY <1>1, <2>1
<1>5. b \in DOMAIN m_live_sets /\ b \in Reached /\ Cover(b)
  BY <1>1, <1>3 DEF CoverInv
<1>6. ~Active(b)' /\ Undone(b)' = 0 /\ code(b)' = code(b)
  BY <1>1 DEF Active, Undone, code
<1>7. CASE b # h
  <2>1. m_live_sets'[b] = m_live_sets[b]
    BY <1>1, <1>5, <1>7
  <2>2. ~Active(b)
    BY <1>7 DEF Active
  <2> QED
    BY <1>1, <1>2, <1>4, <1>5, <1>6, <2>1, <2>2, CoverOther
<1>8. CASE b = h
  <2>1. Undone(h) = n
    BY <1>1 DEF Active, Undone
  <2>2. m_live_sets'[h] = set /\ \A v \in m_live_sets[h] : v \in set \/ v \in Range(code(h))
    BY <1>1 DEF LiveInto
  <2>3. DOMAIN code(h) \subseteq Nat \ {0}
    BY <1>3
  <2>4. ASSUME NEW v, Kept(h, v) PROVE Kept(h, v)'
    <3>1. CASE v \in Range(code(h))
      <4>1. PICK k \in DOMAIN code(h) : code(h)[k] = v
        BY <3>1 DEF Range
      <4> QED
        BY <1>6, <1>8, <2>3, <4>1 DEF Kept
    <3>2. CASE v \in set
      BY <2>2, <3>2 DEF Kept
    <3>3. CASE \E k \in DOMAIN code(h) : k > Undone(h) /\ code(h)[k] = v
      BY <3>1, <3>3 DEF Range
    <3> QED
      BY <2>2, <2>4, <3>1, <3>2, <3>3 DEF Kept
  <2>5. /\ CoverOut(h)'
        /\ \A k \in DOMAIN code(h) :
             k > n /\ ~IsPhi(code(h)[k]) =>
               \A v \in Range(program.inputs[code(h)[k]]) :
                 Kept(h, v)' /\ \A lo, hi : lo = BbInterval(h).b /\ hi = live(h, k) => Spans(v, lo, hi)'
    BY <1>1, <1>2, <1>4, <1>5, <1>8, <2>1, <2>4, CoverStays
  <2>6. \A k \in DOMAIN code(h) : ~IsPhi(code(h)[k]) => k > n
    <3> SUFFICES ASSUME NEW k \in DOMAIN code(h), ~(k > n) PROVE IsPhi(code(h)[k])
      OBVIOUS
    <3>1. n \in DOMAIN code(h) /\ k \in 1 .. n
      BY <1>1, <1>3
    <3>2. IsPhi(code(h)[n])
      BY <1>1, <3>1
    <3> QED
      BY <1>3, <3>1, <3>2 DEF SSA, IsPhi, code
  <2>7. CoverReads(h)'
    BY <1>1, <2>5, <2>6, ReadsAgain
  <2>8. CoverLoop(h)'
    <3> PICK lo, hi : lo = BbInterval(h).b /\ hi = LoopEnd(loop_of[h])
      OBVIOUS
    <3>1. UNCHANGED <<m_linear_order, program, m_loops, loop_of>>
      BY <1>1 DEF all_vars, vars, order_vars, loops
    <3>2. \A c : BbInterval(c)' = BbInterval(c)
      BY <3>1, SameNumbers
    <3>3. lo = BbInterval(h)'.b /\ hi = LoopEnd(loop_of[h])' /\ (StartsLoop(h)' <=> StartsLoop(h))
      BY <3>1, <3>2 DEF LoopEnd, StartsLoop
    <3>4. StartsLoop(h) => \A v \in set : Spans(v, lo, hi)'
      BY LeaveSpans
    <3> QED
      BY <2>2, <3>3, <3>4 DEF CoverLoop
  <2> QED
    BY <1>8, <2>5, <2>7, <2>8 DEF Cover
<1> QED
  BY <1>7, <1>8

LEMMA FillCover ==
  ASSUME LiveInv, ProcessedInv, IntervalsInv, CoverInv, WellOrdered, FillEmpty,
         NEW b \in DOMAIN m_live_sets'
  PROVE  Cover(b)'
<1>1. /\ UNCHANGED <<all_vars, program>> /\ live_stage = "block" /\ live_stage' = "done"
      /\ m_live_sets' = m_live_sets
  BY DEF FillEmpty
<1>2. IntervalsInv' /\ Grow
  BY FillSpans
<1>3. b \in Reached /\ Cover(b) /\ ~Active(b) /\ ~Active(b)'
  BY <1>1 DEF CoverInv, ProcessedInv, Active
<1> QED
  BY <1>1, <1>2, <1>3, CoverOther

LEMMA NextCover ==
  LiveInv /\ ProcessedInv /\ IntervalsInv /\ CoverInv /\ [ANext]_every_var => IntervalsInv' /\ CoverInv'
<1> SUFFICES ASSUME LiveInv, ProcessedInv, IntervalsInv, CoverInv, [ANext]_every_var
             PROVE  IntervalsInv' /\ CoverInv'
  OBVIOUS
<1>1. CASE BuildOrder
  <2>1. live_stage = "none" /\ live_stage' = "none" /\ m_intervals' = m_intervals
    <3>1. live_stage = "none"
      BY <1>1, OrderStands DEF BuildOrder, LiveInv, ProgramInv
    <3> QED
      BY <1>1, <3>1 DEF BuildOrder, live_vars
  <2> QED
    BY <2>1 DEF IntervalsInv, CoverInv
<1>2. CASE Start
  <2>1. DOMAIN m_live_sets = {} /\ m_live_sets' = m_live_sets /\ m_intervals' = m_intervals
    BY <1>2 DEF Start, LiveInv, NoneInv
  <2> QED
    BY <2>1 DEF IntervalsInv, CoverInv
<1>3. ASSUME EnterBlock \/ ProcessInstr \/ LeaveBlock \/ FillEmpty
      PROVE  IntervalsInv' /\ CoverInv'
  <2>1. WellOrdered' <=> WellOrdered
    BY <1>3, LiveStepSame, SameWellOrdered
  <2>2. IntervalsInv'
    BY <1>3, EnterSpans, InstrSpans, LeaveSpans, FillSpans
  <2>3. WellOrdered => \A b \in DOMAIN m_live_sets' : Cover(b)'
    BY <1>3, EnterCover, InstrCover, LeaveCover, FillCover
  <2> QED
    BY <2>1, <2>2, <2>3 DEF CoverInv
<1>4. CASE UNCHANGED every_var
  <2>1. UNCHANGED <<all_vars, live_stage, program, ord_it, ins_it, m_intervals, m_live_sets>>
    BY <1>4 DEF every_var, live_vars
  <2>2. UNCHANGED <<succs, backEdges, m_loops, loop_of, m_linear_order>>
    BY <2>1 DEF all_vars, vars, order_vars, search, loops
  <2>3. WellOrdered' <=> WellOrdered
    BY <2>1, SameWellOrdered
  <2>4. IntervalsInv'
    BY <2>1 DEF IntervalsInv
  <2>5. ASSUME live_stage # "none", NEW b \in DOMAIN m_live_sets, Cover(b) PROVE Cover(b)'
    <3>1. /\ Active(b)' <=> Active(b)
          /\ Undone(b)' = Undone(b) /\ code(b)' = code(b)
          /\ \A v : Kept(b, v)' <=> Kept(b, v)
      BY <2>1, <2>2 DEF Active, Undone, Here, code, Kept
    <3>2. Grow
      BY <2>1 DEF Grow, IntervalsInv, AllSpans, Span
    <3>3. b \in Reached
      BY <2>5 DEF ProcessedInv
    <3>4. /\ CoverOut(b)'
          /\ \A k \in DOMAIN code(b) :
               k > Undone(b) /\ ~IsPhi(code(b)[k]) =>
                 \A v \in Range(program.inputs[code(b)[k]]) :
                   Kept(b, v)' /\ \A lo, hi : lo = BbInterval(b).b /\ hi = live(b, k) => Spans(v, lo, hi)'
          /\ ~Active(b) => CoverLoop(b)'
      BY <2>1, <2>4, <2>5, <3>1, <3>2, <3>3, CoverStays
    <3>5. CoverReads(b)'
      BY <2>1, <3>1, <3>4, ReadsAgain
    <3>6. CoverLoop(b)'
      BY <3>1, <3>4 DEF CoverLoop
    <3> QED
      BY <3>4, <3>5, <3>6 DEF Cover
  <2> QED
    BY <2>1, <2>3, <2>4, <2>5 DEF CoverInv
<1> QED
  BY <1>1, <1>2, <1>3, <1>4 DEF ANext, AStep, ADone

-----------------------------------------------------------------------------
(* What is live is in the live set of the block or of a loop around it.    *)

\* What is known when the analysis is done and the graph is well ordered.
AllDone ==
  /\ live_stage = "done" /\ WellOrdered
  /\ LiveInv /\ ProcessedInv /\ IntervalsInv /\ CoverInv /\ FiledInv /\ TrailInv

LEMMA DoneFacts ==
  ASSUME AllDone
  PROVE  /\ OrderDone /\ SSA(program, succs) /\ DOMAIN m_live_sets = Reached
         /\ succs \in Graphs /\ made \in MadeOrders /\ Reached \subseteq Nodes
         /\ live_stage # "none" /\ LinearInv /\ ProgramInv
         /\ \A b \in Reached : /\ code(b) \in Seq(Ids) /\ ~Active(b) /\ Undone(b) = 0
                               /\ CoverOut(b) /\ CoverReads(b) /\ CoverLoop(b)
<1>1. live_stage # "none" /\ live_stage # "instrs" /\ LinearInv /\ ProgramInv
  BY DEF AllDone, LiveInv
<1>2. Ordered /\ SSA(program, succs)
  BY <1>1 DEF ProgramInv
<1>3. succs \in Graphs /\ made \in MadeOrders /\ Reached \subseteq Nodes
  BY <1>1, <1>2, Placed
<1>4. DOMAIN m_live_sets = Reached
  <2>1. \A b \in Reached : 0 < Pos(b)
    BY <1>1, <1>2, Placed
  <2> QED
    BY <1>1, <2>1 DEF AllDone, ProcessedInv
<1>5. \A b \in Reached : code(b) \in Seq(Ids)
  BY <1>2, <1>3 DEF SSA, code
<1>6. \A b \in Reached : ~Active(b) /\ Undone(b) = 0 /\ Cover(b)
  BY <1>1, <1>4 DEF AllDone, CoverInv, Active, Undone
<1> QED
  BY <1>1, <1>2, <1>3, <1>4, <1>5, <1>6 DEF AllDone, OrderDone, Cover

\* A value is defined in one block.
LEMMA OneDefinition ==
  ASSUME SSA(program, succs), NEW v, NEW b \in Nodes, v \in Range(code(b))
  PROVE  DefBlock(v) = b
<1>1. \A c \in Nodes : v \in Range(code(c)) => c = b
  BY DEF SSA, code, Range
<1> QED
  BY <1>1 DEF DefBlock

\* What is live out of the successors, or read, is live in, unless it is defined.
LEMMA LiveOrDefined ==
  ASSUME AllDone, NEW v, NEW b \in Reached, b # DefBlock(v), ReadIn(v, b) \/ v \in OutSet(b)
  PROVE  v \in m_live_sets[b]
<1>1. /\ CoverOut(b) /\ CoverReads(b) /\ Undone(b) = 0 /\ SSA(program, succs) /\ b \in Nodes
      /\ code(b) \in Seq(Ids)
  BY DoneFacts
<1>2. Kept(b, v)
  <2>1. CASE v \in OutSet(b)
    BY <1>1, <2>1 DEF CoverOut
  <2>2. CASE ReadIn(v, b)
    <3>1. PICK i \in Range(code(b)) : ~IsPhi(i) /\ v \in Range(program.inputs[i])
      BY <2>2 DEF ReadIn
    <3>2. PICK k \in DOMAIN code(b) : code(b)[k] = i
      BY <3>1 DEF Range
    <3>3. k > Undone(b)
      BY <1>1
    <3> QED
      BY <1>1, <3>1, <3>2, <3>3 DEF CoverReads
  <2> QED
    BY <2>1, <2>2
<1>3. v \notin Range(code(b))
  BY <1>1, OneDefinition
<1> QED
  BY <1>2, <1>3 DEF Kept, Range

LEMMA PhiReadOut ==
  ASSUME NEW v, NEW b, ReadByPhi(v, b, FALSE)
  PROVE  v \in OutSet(b)
<1>1. PICK c \in Range(succs[b]) : <<b, c>> \notin backEdges /\ v \in PhiReads(b, c)
  BY DEF ReadByPhi
<1>2. c \in Ahead(b)
  BY <1>1 DEF Ahead
<1> QED
  BY <1>1, <1>2 DEF OutSet

Into(v, b) ==
  \/ v \in m_live_sets[b]
  \/ \E g \in Reached : IsHeader(g) /\ b \in NaturalLoop(g) /\ v \in m_live_sets[g]

LEMMA IntoBefore ==
  ASSUME AllDone, NEW v, NEW b \in Reached, b # DefBlock(v), NEW c, IsEdge(succs, b, c), Into(v, c)
  PROVE  Into(v, b)
<1>1. OrderDone /\ WellOrdered /\ succs \in Graphs /\ made \in MadeOrders
  BY DoneFacts DEF AllDone
<1>2. c \in Reached /\ c \in Range(succs[b])
  BY <1>1, ReachedFacts DEF IsEdge, Range
<1>3. CASE v \in m_live_sets[c] /\ <<b, c>> \notin backEdges
  <2>1. c \in Ahead(b)
    BY <1>2, <1>3 DEF Ahead
  <2>2. v \in OutSet(b)
    BY <1>3, <2>1 DEF OutSet
  <2> QED
    BY <2>2, LiveOrDefined DEF Into
<1>4. CASE v \in m_live_sets[c] /\ <<b, c>> \in backEdges
  <2>1. Latch(b, c)
    BY <1>1, <1>4, LoopOfEdge
  <2>2. b \in NaturalLoop(c) /\ IsHeader(c)
    BY <1>1, <1>2, <2>1, NaturalFacts DEF IsHeader
  <2> QED
    BY <1>2, <1>4, <2>2 DEF Into
<1>5. ASSUME NEW g \in Reached, IsHeader(g), c \in NaturalLoop(g), v \in m_live_sets[g], c # g
      PROVE  Into(v, b)
  <2>1. b \in NaturalLoop(g)
    BY <1>1, <1>5, NaturalFacts
  <2> QED
    BY <1>5, <2>1 DEF Into
<1> QED
  BY <1>3, <1>4, <1>5 DEF Into

LEMMA LiveIsInto ==
  ASSUME AllDone, NEW v, NEW b \in Reached, LiveIn(v, b, FALSE)
  PROVE  Into(v, b)
<1> PICK d : d = DefBlock(v)
  OBVIOUS
<1> DEFINE R == ReachAvoiding(succs, {b}, {d})
           X == {c \in Reached \ {d} : ~Into(v, c)}
<1>1. succs \in Graphs /\ made \in MadeOrders /\ Reached \subseteq Nodes
  BY DoneFacts
<1>2. IsFiniteSet(Nodes) /\ Blocks(succs) = Nodes
  BY <1>1, GraphFacts
<1>3. \A U : {b} \ {d} \subseteq U /\ Confined(succs, U, {d}) => R \subseteq U
  <2>1. {b} \in SUBSET Blocks(succs) /\ IsFiniteSet(Blocks(succs))
    BY <1>1, <1>2
  <2> QED
    BY <2>1, ReachFacts
<1>4. PICK u \in R : ReadIn(v, u) \/ ReadByPhi(v, u, FALSE)
  BY DEF LiveIn
<1> HIDE DEF R
<1> SUFFICES ASSUME ~Into(v, b) PROVE FALSE
  OBVIOUS
<1>5. Confined(succs, X, {d})
  <2> SUFFICES ASSUME NEW c \in X, NEW w \in Nodes \ {d}, IsEdge(succs, c, w) PROVE w \in X
    BY <1>1, <1>2 DEF Confined
  <2>1. w \in Reached
    BY <1>1, ReachedFacts
  <2>2. ~Into(v, w)
    BY IntoBefore
  <2> QED
    BY <2>1, <2>2
<1>6. u \in X
  BY <1>3, <1>4, <1>5
<1>7. u \in Reached /\ u # d /\ ~Into(v, u)
  BY <1>6
<1>8. v \in m_live_sets[u]
  BY <1>4, <1>7, PhiReadOut, LiveOrDefined
<1> QED
  BY <1>7, <1>8 DEF Into

\* A value is defined before the blocks it is live into.
LEMMA DefinedBefore ==
  ASSUME AllDone, NEW v, NEW b \in Reached, Into(v, b)
  PROVE  \E d \in Reached : v \in Range(code(d)) /\ Pos(d) < Pos(b)
<1>1. /\ Ordered /\ LinearInv /\ WellOrdered /\ succs \in Graphs /\ made \in MadeOrders
      /\ DOMAIN m_live_sets = Reached /\ live_stage = "done" /\ OrderDone
      /\ \A c \in Reached : Pos(c) \in Nat
  BY DoneFacts, Positions DEF AllDone, OrderDone
<1>2. PICK g \in Reached : v \in m_live_sets[g] /\ Dom(g, b)
  <2>1. Dom(b, b)
    BY <1>1, DomAvoids
  <2>2. \A h : b \in NaturalLoop(h) => Dom(h, b)
    BY <1>1, NaturalDominated
  <2> QED
    BY <2>1, <2>2 DEF Into
<1>3. Above(v, g)
  BY <1>1, <1>2 DEF AllDone, LiveInv, SetsInv
<1>4. PICK d \in Nodes \ {g} : v \in Range(code(d)) /\ Dom(d, g)
  BY <1>3 DEF Above, DefinedAbove, code, Dom
<1>5. d \in Reached
  <2> SUFFICES ASSUME d \notin Reached PROVE FALSE
    OBVIOUS
  <2> DEFINE A == ReachAvoiding(succs, {Entry}, {d})
  <2>1. /\ A \subseteq Reached /\ Entry # d /\ Entry \in A
        /\ \A u \in A : \A w : IsEdge(succs, u, w) /\ w # d => w \in A
    BY <1>1, AvoidFacts, ReachedFacts
  <2>2. g \notin A
    BY <1>1, <1>4, DomAvoids
  <2> HIDE DEF A
  <2>3. \A u \in A : \A w : IsEdge(succs, u, w) => w \in A
    BY <1>1, <2>1, ReachedFacts
  <2>4. A \in SUBSET Nodes
    BY <1>1, <2>1, ReachedFacts
  <2>5. Reached \subseteq A
    BY <1>1, <2>1, <2>3, <2>4, ReachedFacts
  <2> QED
    BY <2>2, <2>5
<1>6. Pos(d) <= Pos(g) /\ Pos(g) <= Pos(b)
  BY <1>1, <1>2, <1>4, <1>5, DominatorsFirst
<1>7. Pos(d) # Pos(g)
  BY <1>1, <1>4, <1>5, Positions
<1> QED
  BY <1>1, <1>4, <1>5, <1>6, <1>7

\* What is read is no terminator.
LEMMA ReadIsValue ==
  ASSUME SSA(program, succs), NEW v, NEW b \in Nodes, NEW over, ReadIn(v, b) \/ ReadByPhi(v, b, over),
         succs \in Graphs, made \in MadeOrders
  PROVE  program.op[v] \notin Terminators
<1>1. CASE ReadIn(v, b)
  <2>1. PICK i \in Range(code(b)) : ~IsPhi(i) /\ v \in Range(program.inputs[i])
    BY <1>1 DEF ReadIn
  <2>2. PICK k \in DOMAIN program.code[b] : program.code[b][k] = i
    BY <2>1 DEF Range, code
  <2> QED
    BY <2>1, <2>2 DEF SSA, IsPhi
<1>2. CASE ReadByPhi(v, b, over)
  <2>1. PICK c \in Range(succs[b]) : v \in PhiReads(b, c)
    BY <1>2 DEF ReadByPhi
  <2>2. c \in Nodes
    BY <2>1, GraphFacts DEF Range, IsEdge
  <2>3. PICK i \in Range(code(c)) : IsPhi(i) /\ \E q \in Range(program.vars[i]) : q[2] = b /\ q[1] = v
    BY <2>1 DEF PhiReads
  <2>4. PICK k \in DOMAIN program.code[c] : program.code[c][k] = i
    BY <2>3 DEF Range, code
  <2>5. PICK q \in Range(program.vars[i]) : q[1] = v
    BY <2>3
  <2>6. program.op[q[1]] \notin Terminators
    BY <2>2, <2>3, <2>4, <2>5 DEF SSA, IsPhi
  <2> QED
    BY <2>5, <2>6
<1> QED
  BY <1>1, <1>2

LEMMA LiveIsValue ==
  ASSUME AllDone, NEW v, NEW b \in Reached, LiveIn(v, b, FALSE)
  PROVE  program.op[v] \notin Terminators
<1> PICK d : d = DefBlock(v)
  OBVIOUS
<1> DEFINE R == ReachAvoiding(succs, {b}, {d})
<1>1. succs \in Graphs /\ made \in MadeOrders /\ Reached \subseteq Nodes /\ SSA(program, succs)
  BY DoneFacts
<1>2. R \subseteq Nodes
  <2>1. {b} \in SUBSET Blocks(succs) /\ IsFiniteSet(Blocks(succs)) /\ Blocks(succs) = Nodes
    BY <1>1, GraphFacts
  <2> QED
    BY <2>1, ReachFacts
<1>3. PICK u \in R : ReadIn(v, u) \/ ReadByPhi(v, u, FALSE)
  BY DEF LiveIn
<1> QED
  BY <1>1, <1>2, <1>3, ReadIsValue

\* The interval of what is live out of a block has the whole block.
LEMMA OutSpans ==
  ASSUME AllDone, NEW v, NEW b \in Reached, LiveOut(v, b, FALSE)
  PROVE  \E lo, hi \in Nat : Spans(v, lo, hi) /\ lo <= BbInterval(b).b /\ BbInterval(b).e <= hi
<1>1. /\ OrderDone /\ WellOrdered /\ succs \in Graphs /\ made \in MadeOrders
      /\ LinearInv /\ ProgramInv /\ live_stage # "none"
      /\ \A c \in Reached : CoverOut(c) /\ CoverLoop(c) /\ ~Active(c)
      /\ \A c \in Reached : BbInterval(c).b \in Nat /\ BbInterval(c).e \in Nat
      /\ \A c, d \in Reached : Pos(c) <= Pos(d) => /\ BbInterval(c).b <= BbInterval(d).b
                                                   /\ BbInterval(c).e <= BbInterval(d).e
  BY DoneFacts, NumbersUp DEF AllDone
<1>2. CASE v \in OutSet(b)
  <2>1. Spans(v, BbInterval(b).b, BbInterval(b).e)
    BY <1>1, <1>2 DEF CoverOut
  <2> QED
    BY <1>1, <2>1
<1>3. ASSUME NEW g \in Reached, NEW x, <<x, g>> \in backEdges, v \in m_live_sets[g],
             Pos(g) <= Pos(b), Pos(b) <= Pos(x)
      PROVE  \E lo, hi \in Nat : Spans(v, lo, hi) /\ lo <= BbInterval(b).b /\ BbInterval(b).e <= hi
  <2>1. x \in Reached /\ StartsLoop(g) /\ \E l \in Loops : l = loop_of[g] /\ x \in Body(l)
    BY <1>1, <1>3, LoopOfEdge
  <2>2. Spans(v, BbInterval(g).b, LoopEnd(loop_of[g]))
    BY <1>1, <1>3, <2>1 DEF CoverLoop
  <2>3. LoopEnd(loop_of[g]) \in Nat /\ BbInterval(x).e <= LoopEnd(loop_of[g])
    BY <1>1, <2>1, LoopEndFacts
  <2>4. BbInterval(g).b <= BbInterval(b).b /\ BbInterval(b).e <= BbInterval(x).e
    BY <1>1, <1>3, <2>1
  <2> PICK lo, hi, e, f : /\ lo = BbInterval(g).b /\ hi = LoopEnd(loop_of[g])
                          /\ e = BbInterval(b).e /\ f = BbInterval(x).e
    OBVIOUS
  <2>5. lo \in Nat /\ hi \in Nat /\ Spans(v, lo, hi) /\ lo <= BbInterval(b).b
    BY <1>1, <2>2, <2>3, <2>4
  <2>6. e \in Nat /\ f \in Nat /\ e <= f /\ f <= hi
    BY <1>1, <2>1, <2>3, <2>4
  <2>7. BbInterval(b).e <= hi
    BY <2>5, <2>6
  <2> QED
    BY <2>5, <2>7
<1>4. ASSUME NEW c \in Range(succs[b]), LiveIn(v, c, FALSE)
      PROVE  \E lo, hi \in Nat : Spans(v, lo, hi) /\ lo <= BbInterval(b).b /\ BbInterval(b).e <= hi
  <2>1. IsEdge(succs, b, c)
    BY DEF IsEdge, Range
  <2>2. c \in Reached
    BY <1>1, <2>1, ReachedFacts
  <2>3. Into(v, c)
    BY <1>4, <2>2, LiveIsInto
  <2>4. CASE v \in m_live_sets[c] /\ <<b, c>> \notin backEdges
    <3>1. c \in Ahead(b)
      BY <2>4 DEF Ahead
    <3> QED
      BY <1>2, <2>4, <3>1 DEF OutSet
  <2>5. CASE v \in m_live_sets[c] /\ <<b, c>> \in backEdges
    <3>1. Pos(c) <= Pos(b) /\ Pos(b) <= Pos(b)
      BY <1>1, <2>5, LoopOfEdge, Positions DEF OrderDone
    <3> QED
      BY <1>3, <2>2, <2>5, <3>1
  <2>6. ASSUME NEW g \in Reached, IsHeader(g), c \in NaturalLoop(g), v \in m_live_sets[g], c # g
        PROVE  \E lo, hi \in Nat : Spans(v, lo, hi) /\ lo <= BbInterval(b).b /\ BbInterval(b).e <= hi
    <3>1. b \in NaturalLoop(g)
      BY <1>1, <2>1, <2>6, NaturalFacts
    <3>2. Pos(g) <= Pos(b) /\ \E x : <<x, g>> \in backEdges /\ Pos(b) <= Pos(x)
      BY <1>1, <2>6, <3>1, LoopPlaces
    <3> QED
      BY <1>3, <2>6, <3>2
  <2> QED
    BY <2>3, <2>4, <2>5, <2>6 DEF Into
<1> QED
  BY <1>2, <1>4, PhiReadOut DEF LiveOut

LEMMA AfterSpans ==
  ASSUME AllDone, NEW v, NEW b \in Reached, NEW k \in DOMAIN code(b), LiveAfter(v, b, k, FALSE)
  PROVE  \E lo, hi \in Nat : Spans(v, lo, hi) /\ lo <= live(b, k) /\ live(b, k) < hi
<1>1. /\ LinearInv /\ ProgramInv /\ live_stage # "none" /\ code(b) \in Seq(Ids)
      /\ CoverReads(b) /\ Undone(b) = 0
  BY DoneFacts
<1> PICK x, lo, e : x = live(b, k) /\ lo = BbInterval(b).b /\ e = BbInterval(b).e
  OBVIOUS
<1>2. x \in Nat /\ lo \in Nat /\ e \in Nat /\ lo <= x /\ x < e
  BY <1>1, LiveNumbers, NumbersUp
<1>3. CASE LiveOut(v, b, FALSE)
  <2>1. PICK i, j \in Nat : Spans(v, i, j) /\ i <= lo /\ e <= j
    BY <1>3, OutSpans
  <2>2. i <= x /\ x < j
    BY <1>2, <2>1
  <2> QED
    BY <2>1, <2>2
<1>4. ASSUME NEW j \in k + 1 .. Len(code(b)), ~IsPhi(code(b)[j]), v \in Range(program.inputs[code(b)[j]])
      PROVE  \E i, h \in Nat : Spans(v, i, h) /\ i <= live(b, k) /\ live(b, k) < h
  <2>1. j \in DOMAIN code(b) /\ j > 0 /\ k \in 1 .. j /\ k < j
    BY <1>1
  <2>2. Spans(v, lo, live(b, j))
    BY <1>1, <1>4, <2>1 DEF CoverReads
  <2>3. live(b, j) \in Nat /\ x < live(b, j)
    BY <1>1, <1>4, <2>1, LiveNumbers
  <2> QED
    BY <1>2, <2>2, <2>3
<1> QED
  BY <1>3, <1>4 DEF LiveAfter

LEMMA AfterDefinition ==
  ASSUME AllDone, NEW v, NEW b \in Reached, NEW k \in DOMAIN code(b), LiveAfter(v, b, k, FALSE),
         NEW n \in Nat, FromDef(v, n)
  PROVE  n <= live(b, k)
<1>1. /\ LinearInv /\ ProgramInv /\ live_stage # "none" /\ SSA(program, succs) /\ Reached \subseteq Nodes
      /\ \A c \in Reached : code(c) \in Seq(Ids)
  BY DoneFacts
<1>2. PICK d \in Reached : \E j \in DOMAIN code(d) : code(d)[j] = v /\ n <= live(d, j)
  BY DEF FromDef
<1>3. PICK j \in DOMAIN code(d) : code(d)[j] = v /\ n <= live(d, j)
  BY <1>2
<1>4. \A c \in Reached : \A i \in DOMAIN code(c) : code(c)[i] = v => c = d /\ i = j
  BY <1>1, <1>3 DEF SSA, code
<1> PICK x, y : x = live(b, k) /\ y = live(d, j)
  OBVIOUS
<1>5. x \in Nat /\ y \in Nat
  BY <1>1, LiveNumbers
<1>6. y <= x
  <2>1. CASE \E i \in 1 .. k : code(b)[i] = v
    <3>1. PICK i \in 1 .. k : code(b)[i] = v
      BY <2>1
    <3>2. i \in DOMAIN code(b) /\ live(b, i) <= x
      BY <1>1, LiveNumbers
    <3> QED
      BY <1>4, <3>1, <3>2
  <2>2. CASE LiveIn(v, b, FALSE)
    <3>1. PICK c \in Reached : v \in Range(code(c)) /\ Pos(c) < Pos(b)
      BY <2>2, LiveIsInto, DefinedBefore
    <3>2. c = d
      BY <1>4, <3>1 DEF Range
    <3> PICK e, lo : e = BbInterval(d).e /\ lo = BbInterval(b).b
      OBVIOUS
    <3>3. y < e /\ e <= lo /\ lo <= x /\ e \in Nat /\ lo \in Nat
      BY <1>1, <3>1, <3>2, LiveNumbers, NumbersUp
    <3> QED
      BY <1>5, <3>3
  <2> QED
    BY <2>1, <2>2 DEF LiveAfter
<1> QED
  BY <1>3, <1>5, <1>6

LEMMA AfterIsValue ==
  ASSUME AllDone, NEW v, NEW b \in Reached, NEW k \in DOMAIN code(b), LiveAfter(v, b, k, FALSE)
  PROVE  program.op[v] \notin Terminators
<1>1. /\ succs \in Graphs /\ made \in MadeOrders /\ Reached \subseteq Nodes /\ SSA(program, succs)
      /\ code(b) \in Seq(Ids)
  BY DoneFacts
<1>2. ASSUME NEW j \in k + 1 .. Len(code(b)), ~IsPhi(code(b)[j]), v \in Range(program.inputs[code(b)[j]])
      PROVE  ReadIn(v, b)
  BY <1>1, <1>2 DEF ReadIn, Range
<1>3. CASE LiveOut(v, b, FALSE)
  <2>1. CASE ReadByPhi(v, b, FALSE)
    BY <1>1, <2>1, ReadIsValue
  <2>2. ASSUME NEW c \in Range(succs[b]), LiveIn(v, c, FALSE) PROVE program.op[v] \notin Terminators
    <3>1. c \in Reached
      BY <1>1, ReachedFacts DEF IsEdge, Range
    <3> QED
      BY <2>2, <3>1, LiveIsValue
  <2> QED
    BY <1>3, <2>1, <2>2 DEF LiveOut
<1> QED
  BY <1>1, <1>2, <1>3, ReadIsValue DEF LiveAfter

LEMMA DoneIsCovered ==
  ASSUME AllDone
  PROVE  Covered(FALSE)
<1> SUFFICES ASSUME NEW b \in Reached, NEW k \in DOMAIN code(b), NEW v, LiveAfter(v, b, k, FALSE)
             PROVE  /\ v \in DOMAIN m_intervals
                    /\ live(b, k) \in m_intervals[v].b .. m_intervals[v].e - 1
  BY DEF Covered
<1> PICK x, m : x = live(b, k) /\ m = m_intervals
  OBVIOUS
<1>1. PICK lo, hi \in Nat : Spans(v, lo, hi) /\ lo <= x /\ x < hi
  BY AfterSpans
<1>2. x \in Nat
  BY DoneFacts, LiveNumbers
<1>3. v \in DOMAIN m /\ hi <= m[v].e /\ (m[v].b <= lo \/ FromDef(v, m[v].b))
  BY <1>1, AfterIsValue DEF Spans
<1>4. m[v].b \in Nat /\ m[v].e \in Nat
  BY <1>3 DEF AllDone, IntervalsInv, AllSpans, Span
<1>5. m[v].b <= x
  <2> PICK n \in Nat : n = m[v].b
    BY <1>4
  <2>1. CASE n <= lo
    BY <1>1, <1>2, <2>1
  <2>2. CASE FromDef(v, n)
    BY <2>2, AfterDefinition
  <2> QED
    BY <1>3, <2>1, <2>2
<1> PICK i, j : i = m[v].b /\ j = m[v].e
  OBVIOUS
<1>6. i <= x /\ x <= j - 1 /\ i \in Nat /\ j \in Nat
  BY <1>1, <1>2, <1>3, <1>4, <1>5
<1> QED
  BY <1>2, <1>3, <1>6

(***************************************************************************)
(* In a graph that is well ordered no header is in the loop of another:    *)
(* the order has the body of an outer loop right behind its header, and    *)
(* what the search left in the loop of an inner one only later             *)
(* (linear_order.hh:39-70), so that the inner header would follow the      *)
(* latches of the outer loop it comes before.                              *)
(***************************************************************************)
THEOREM WellOrderedIsFlat ==
  LSpec => [](Ordered /\ WellOrdered =>
                \A g, z \in Nodes : IsHeader(g) /\ IsHeader(z) /\ z \in NaturalLoop(g) => z = g)
<1> DEFINE Inv == LinearInv /\ NaturalInv /\ RestsInv /\ TiedInv /\ TrailInv
<1>1. LInit => Inv
  <2> SUFFICES ASSUME LInit PROVE Inv
    OBVIOUS
  <2>1. Init
    BY DEF LInit
  <2> QED
    BY <2>1, InitLinear, InitRests, InitTied, InitTrail
<1>2. Inv /\ [LNext]_all_vars => Inv'
  <2> SUFFICES ASSUME Inv, [LNext]_all_vars PROVE Inv'
    OBVIOUS
  <2>1. [Next]_vars
    BY DEF LNext, LStep, BuildLoopTree, NextNode, NextBodyNode, Return, LDone, all_vars, Next
  <2>2. LinearInv' /\ TrailInv'
    BY NextLinear, NextTrail
  <2>3. NaturalInv' /\ RestsInv' /\ TiedInv'
    BY <2>1, NextRests, NextTied DEF LinearInv
  <2> QED
    BY <2>2, <2>3
<1>3. Inv => (Ordered /\ WellOrdered =>
                \A g, z \in Nodes : IsHeader(g) /\ IsHeader(z) /\ z \in NaturalLoop(g) => z = g)
  BY LoopsFlat DEF OrderDone, TiedInv
<1> QED
  BY <1>1, <1>2, <1>3, PTL DEF LSpec

(***************************************************************************)
(* In a graph that is well ordered the interval of each value contains     *)
(* every instruction after which the value is live, but for what only a    *)
(* phi reads over a back edge (liveness_analyzer.hh:99-279).  One pass is  *)
(* enough although the live sets along back edges are not made yet: what   *)
(* is live into a block is in its live set, or in that of the header of a  *)
(* loop around it, which widens the interval to the last block of the      *)
(* body; and no interval is cut off but where its value is defined.        *)
(***************************************************************************)
THEOREM LiveValuesAreCovered == ASpec => []LiveValuesCovered
<1> DEFINE Inv == /\ LiveInv /\ NaturalInv /\ RestsInv /\ TiedInv /\ TrailInv
                  /\ ProcessedInv /\ IntervalsInv /\ CoverInv
<1>1. AInit => Inv
  <2> SUFFICES ASSUME AInit PROVE Inv
    OBVIOUS
  <2>1. LInit /\ Init /\ live_stage = "none" /\ DOMAIN m_live_sets = {} /\ DOMAIN m_intervals = {}
    BY DEF AInit, LInit
  <2>2. LiveInv
    BY <2>1, InitLinear DEF LiveInv, ProgramInv, CursorInv, SetsInv, NoneInv
  <2>3. ProcessedInv /\ IntervalsInv /\ CoverInv
    BY <2>1 DEF ProcessedInv, IntervalsInv, AllSpans, CoverInv
  <2> QED
    BY <2>1, <2>2, <2>3, InitRests, InitTied, InitTrail
<1>2. Inv /\ [ANext]_every_var => Inv'
  <2> SUFFICES ASSUME Inv, [ANext]_every_var PROVE Inv'
    OBVIOUS
  <2>1. [LNext]_all_vars
    BY DEF ANext, AStep, BuildOrder, Start, EnterBlock, ProcessInstr, LeaveBlock, FillEmpty, ADone,
           every_var, LNext
  <2>2. [Next]_vars
    BY <2>1 DEF LNext, LStep, BuildLoopTree, NextNode, NextBodyNode, Return, LDone, all_vars, Next
  <2>3. LiveInv'
    BY NextLive
  <2>4. TrailInv'
    BY <2>1, NextTrail DEF LiveInv
  <2>5. NaturalInv' /\ RestsInv' /\ TiedInv'
    BY <2>2, NextRests, NextTied DEF LiveInv, LinearInv
  <2>6. ProcessedInv' /\ IntervalsInv' /\ CoverInv'
    BY NextProcessed, NextCover
  <2> QED
    BY <2>3, <2>4, <2>5, <2>6
<1>3. Inv => LiveValuesCovered
  BY DoneIsCovered DEF AllDone, TiedInv, LiveValuesCovered
<1> QED
  BY <1>1, <1>2, <1>3, PTL DEF ASpec
=============================================================================
