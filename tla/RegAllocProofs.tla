--------------------------- MODULE RegAllocProofs ---------------------------
(***************************************************************************)
(* Proofs about RegAlloc for every set of values, every number of          *)
(* registers and every set of live numbers.                                *)
(***************************************************************************)
EXTENDS RegAlloc, FiniteSetTheorems, SequenceTheorems,
        WellFoundedInduction, TLAPS

(***************************************************************************)
(* The inductive invariant.  NoInterference alone says nothing of the      *)
(* registers in the pool, which are the ones handed out next; the          *)
(* strengthening says who may still hold a register that is, or will be,   *)
(* handed out again.                                                       *)
(***************************************************************************)
Ahead == pending \cup ({cur} \cap Vals)   \* the values not placed yet

\* The scan goes forward: nothing ahead starts before what was passed.
ScanOrder ==
  /\ Placed \cap Ahead = {}
  /\ cur \notin pending
  /\ \A v \in Placed : \A w \in Ahead : Begin(v) <= Begin(w)
  /\ cur \in Vals => \A w \in pending : Begin(cur) <= Begin(w)
  /\ \A v \in Placed \cup Ahead : Begin(v) < End(v)

\* The pool and the active values hold different registers.
PoolDistinct ==
  \A i, j \in 1 .. Len(m_reg_pool) : i # j => m_reg_pool[i] # m_reg_pool[j]
ActiveInRegs ==
  \A a \in m_active : ~m_regmap[a].on_stack /\ m_regmap[a].id \in Regs
PoolFree ==
  \A a \in m_active : \A i \in 1 .. Len(m_reg_pool) : m_regmap[a].id # m_reg_pool[i]
ActiveDistinct ==
  \A a, b \in m_active : a # b => m_regmap[a].id # m_regmap[b].id

\* A value in a register that is not active has ended for all that is ahead,
\* or m_active lost it (equal ends) and its register is gone for good.
Ended(s) == \A w \in Ahead : End(s) <= Begin(w)
Lost(s) ==
  /\ \A i \in 1 .. Len(m_reg_pool) : m_reg_pool[i] # m_regmap[s].id
  /\ \A a \in m_active : m_regmap[a].id # m_regmap[s].id
Retired ==
  \A s \in Placed \ m_active : ~m_regmap[s].on_stack => Ended(s) \/ Lost(s)

StackSlots == \A s \in Placed : m_regmap[s].on_stack => m_regmap[s].id < m_stack_loc

IInv == /\ TypeOK /\ ScanOrder /\ PoolDistinct /\ ActiveInRegs /\ PoolFree
        /\ ActiveDistinct /\ Retired /\ StackSlots /\ NoInterference

-----------------------------------------------------------------------------
LEMMA BeginEndType ==
  ASSUME TypeOK
  PROVE  \A v \in Vals : /\ Begin(v) \in Nat
                         /\ End(v) \in Nat
                         /\ Begin(v) <= End(v)
<1>1. \A v \in Vals : interval[v] \in Intervals
  BY DEF TypeOK
<1> QED
  BY <1>1, RegsAssumption DEF Intervals, Begin, End

LEMMA PoolInit ==
  /\ InitialPool \in Seq(Regs)
  /\ Len(InitialPool) = RegsNum
  /\ \A i \in 1 .. RegsNum : InitialPool[i] = RegsNum - i
BY RegsAssumption DEF InitialPool, Regs

LEMMA PlaceFacts ==
  ASSUME NEW map, NEW v, NEW loc
  PROVE  /\ DOMAIN Place(map, v, loc) = DOMAIN map \cup {v}
         /\ Place(map, v, loc)[v] = loc
         /\ \A w \in DOMAIN map : w # v => Place(map, v, loc)[w] = map[w]
BY DEF Place

LEMMA PopFacts ==
  ASSUME NEW S, NEW p \in Seq(S), p # << >>
  PROVE  LET q == SubSeq(p, 1, Len(p) - 1)
         IN  /\ q \in Seq(S)
             /\ Len(q) = Len(p) - 1
             /\ \A i \in 1 .. Len(p) - 1 : q[i] = p[i]
<1> DEFINE m == Len(p) - 1
<1>1. m \in Nat /\ 1 \in Int /\ m \in Int /\ Len(p) = m + 1
  BY EmptySeq
<1>2. \A i \in 1 .. m : p[i] \in S
  BY <1>1, ElementOfSeq
<1> HIDE DEF m
<1>3. /\ SubSeq(p, 1, m) \in Seq(S)
      /\ Len(SubSeq(p, 1, m)) = IF 1 <= m THEN m - 1 + 1 ELSE 0
      /\ \A i \in 1 .. m - 1 + 1 : SubSeq(p, 1, m)[i] = p[1 + i - 1]
  BY <1>1, <1>2, SubSeqProperties
<1>4. \A i \in 1 .. m : SubSeq(p, 1, m)[i] = p[i]
  BY <1>1, <1>3
<1> QED
  BY <1>1, <1>3, <1>4 DEF m

LEMMA LocationFacts ==
  ASSUME NEW k \in Nat
  PROVE  /\ InRegister(k) \in Location
         /\ InRegister(k).id = k
         /\ ~InRegister(k).on_stack
         /\ OnStack(k) \in Location
         /\ OnStack(k).id = k
         /\ OnStack(k).on_stack
BY DEF InRegister, OnStack, Location

LEMMA InsertActiveFacts ==
  ASSUME NEW A, NEW v
  PROVE  InsertActive(A, v) = A \/ InsertActive(A, v) = A \cup {v}
BY DEF InsertActive

THEOREM InitIInv == Init => IInv
<1> SUFFICES ASSUME Init PROVE IInv
  OBVIOUS
<1>1. TypeOK
  BY PoolInit, RegsAssumption DEF Init, TypeOK
<1>2. PoolDistinct
  BY PoolInit, RegsAssumption DEF Init, PoolDistinct
<1>3. ScanOrder
  BY <1>1, BeginEndType, RegsAssumption DEF Init, ScanOrder, Ahead, Placed
<1> QED
  BY <1>1, <1>2, <1>3
  DEF Init, IInv, ActiveInRegs, PoolFree, ActiveDistinct, Retired, StackSlots,
      NoInterference, Placed

-----------------------------------------------------------------------------
(* The iteration reaches its value: nothing is placed. *)
LEMMA FetchIInv ==
  ASSUME IInv, Fetch
  PROVE  IInv'
<1> USE RegsAssumption
<1>0. \A v : Begin(v)' = Begin(v) /\ End(v)' = End(v)
  BY DEF Fetch, Begin, End
<1>1. PICK v \in pending : /\ \A w \in pending : ~SortedBefore(w, v)
                           /\ cur' = v
                           /\ pending' = pending \ {v}
  BY DEF Fetch
<1>2. /\ v \in Vals /\ cur = NoVal /\ Ahead' = Ahead /\ Placed' = Placed
  BY <1>1 DEF Fetch, IInv, TypeOK, Ahead, Placed
<1>3. TypeOK'
  BY <1>1, <1>2 DEF Fetch, IInv, TypeOK
<1>4. \A w \in pending : Begin(v) <= Begin(w)
  BY <1>1, <1>2, BeginEndType DEF IInv, TypeOK, SortedBefore
<1>5. ScanOrder'
  BY <1>0, <1>1, <1>2, <1>4 DEF Fetch, IInv, ScanOrder
<1>6. Retired'
  BY <1>0, <1>2 DEF Fetch, IInv, Retired, Ended, Lost
<1>7. (PoolDistinct /\ ActiveInRegs /\ PoolFree /\ ActiveDistinct /\ StackSlots)'
  BY <1>2 DEF Fetch, IInv, PoolDistinct, ActiveInRegs, PoolFree, ActiveDistinct,
              StackSlots
<1>8. NoInterference'
  BY <1>0, <1>2 DEF Fetch, IInv, NoInterference, Overlap
<1> QED
  BY <1>3, <1>5, <1>6, <1>7, <1>8 DEF IInv

(* A register goes back to the pool: its value has ended for all ahead. *)
LEMMA ExpireIInv ==
  ASSUME IInv, ExpireOne
  PROVE  IInv'
<1> USE RegsAssumption
<1>0. /\ \A v : Begin(v)' = Begin(v) /\ End(v)' = End(v)
      /\ Ahead' = Ahead /\ Placed' = Placed
  BY DEF ExpireOne, Begin, End, Ahead, Placed
<1>1. PICK a \in m_active : /\ End(a) <= Begin(cur)
                            /\ m_reg_pool' = Append(m_reg_pool, m_regmap[a].id)
                            /\ m_active' = m_active \ {a}
  BY DEF ExpireOne, Expires
<1>2. /\ a \in Placed /\ a \in Vals /\ cur \in Vals /\ m_regmap[a].id \in Regs
      /\ m_reg_pool \in Seq(Regs)
  BY DEF ExpireOne, IInv, TypeOK, Placed, ActiveInRegs
<1>3. /\ Len(m_reg_pool)' = Len(m_reg_pool) + 1
      /\ \A i \in 1 .. Len(m_reg_pool) : m_reg_pool'[i] = m_reg_pool[i]
      /\ m_reg_pool'[Len(m_reg_pool) + 1] = m_regmap[a].id
      /\ m_reg_pool' \in Seq(Regs)
      /\ Len(m_reg_pool) \in Nat
  BY <1>1, <1>2
<1>4. TypeOK'
  BY <1>1, <1>3 DEF ExpireOne, IInv, TypeOK
<1>5. ScanOrder' /\ StackSlots' /\ NoInterference'
  BY <1>0 DEF ExpireOne, IInv, ScanOrder, StackSlots, NoInterference, Overlap
<1>6. ActiveInRegs' /\ ActiveDistinct'
  BY <1>1 DEF ExpireOne, IInv, ActiveInRegs, ActiveDistinct
<1>7. PoolDistinct'
  BY <1>3 DEF IInv, PoolDistinct, PoolFree
<1>8. PoolFree'
  BY <1>1, <1>3 DEF ExpireOne, IInv, ActiveDistinct, PoolFree
<1>9. Retired'
  <2> SUFFICES ASSUME NEW s \in Placed, s \notin m_active',
                      ~m_regmap[s].on_stack
               PROVE  Ended(s)' \/ Lost(s)'
    BY <1>0 DEF ExpireOne, Retired
  <2>1. CASE s = a
    <3>1. \A w \in Ahead : w \in Vals /\ Begin(cur) <= Begin(w)
      BY <1>2, BeginEndType DEF IInv, TypeOK, ScanOrder, Ahead
    <3> QED
      BY <2>1, <3>1, <1>0, <1>1, <1>2, BeginEndType DEF IInv, Ended
  <2>2. CASE s # a
    <3>1. Ended(s) \/ Lost(s)
      BY <2>2, <1>1 DEF IInv, Retired
    <3>2. Ended(s) => Ended(s)'
      BY <1>0 DEF Ended
    <3>3. Lost(s) => Lost(s)'
      BY <1>1, <1>3 DEF Lost, ExpireOne
    <3> QED
      BY <3>1, <3>2, <3>3
  <2> QED
    BY <2>1, <2>2
<1> QED
  BY <1>4, <1>5, <1>6, <1>7, <1>8, <1>9 DEF IInv

(* What placing cur in any way changes; the rest of a placing step is where *)
(* cur goes.                                                               *)
LEMMA PlacingStep ==
  ASSUME IInv, cur \in Vals, cur' = NoVal, Placed' = Placed \cup {cur},
         UNCHANGED <<interval, pending>>
  PROVE  /\ \A v : Begin(v)' = Begin(v) /\ End(v)' = End(v)
         /\ Ahead' = pending
         /\ Ahead = pending \cup {cur}
         /\ ScanOrder'
<1> USE RegsAssumption
<1>1. \A v : Begin(v)' = Begin(v) /\ End(v)' = End(v)
  BY DEF Begin, End
<1>2. Ahead' = pending /\ Ahead = pending \cup {cur}
  BY DEF Ahead, IInv, TypeOK
<1>3. ScanOrder'
  BY <1>1, <1>2 DEF IInv, TypeOK, ScanOrder
<1> QED
  BY <1>1, <1>2, <1>3

(***************************************************************************)
(* A value that is in a register but not active, and shares it with nobody *)
(* active and not with the pool, is no obstacle: handing register r to cur *)
(* is safe when every placed value that still names r has ended or is on   *)
(* the stack.                                                              *)
(***************************************************************************)
LEMMA TakeIInv ==
  ASSUME IInv, TakeRegister
  PROVE  IInv'
<1> USE RegsAssumption
<1> DEFINE n == Len(m_reg_pool)
           r == m_reg_pool[n]
<1>1. /\ cur \in Vals /\ cur' = NoVal /\ UNCHANGED <<interval, pending, m_stack_loc, undefined>>
      /\ m_regmap' = Place(m_regmap, cur, InRegister(r))
      /\ m_reg_pool # << >>
      /\ m_reg_pool' = SubSeq(m_reg_pool, 1, n - 1)
      /\ m_active' = InsertActive(m_active, cur)
  BY DEF TakeRegister
<1>2. /\ m_reg_pool \in Seq(Regs) /\ n \in Nat \ {0} /\ r \in Regs
      /\ m_active \subseteq Placed /\ Placed \subseteq Vals
  BY <1>1 DEF IInv, TypeOK, Placed
<1>3. /\ m_reg_pool' \in Seq(Regs)
      /\ Len(m_reg_pool') = n - 1
      /\ \A i \in 1 .. n - 1 : m_reg_pool'[i] = m_reg_pool[i]
  BY <1>1, <1>2, PopFacts
<1>4. /\ Placed' = Placed \cup {cur}
      /\ m_regmap'[cur] = InRegister(r)
      /\ \A w \in Placed : w # cur => m_regmap'[w] = m_regmap[w]
  BY <1>1 DEF Placed, Place
<1>5. cur \notin Placed
  BY <1>1 DEF IInv, ScanOrder, Ahead
<1>6. m_active' = m_active \/ m_active' = m_active \cup {cur}
  BY <1>1, InsertActiveFacts
<1>7. /\ \A v : Begin(v)' = Begin(v) /\ End(v)' = End(v)
      /\ Ahead' = pending /\ Ahead = pending \cup {cur} /\ ScanOrder'
  BY <1>1, <1>4, PlacingStep
<1>8. TypeOK'
  <2>1. \A v \in Placed' : m_regmap'[v] \in Location
    BY <1>2, <1>4, LocationFacts DEF IInv, TypeOK, Placed, Regs
  <2> QED
    BY <2>1, <1>1, <1>2, <1>3, <1>4, <1>6 DEF IInv, TypeOK, Placed
<1>9. PoolDistinct'
  BY <1>2, <1>3 DEF IInv, PoolDistinct
<1>10. ActiveInRegs'
  BY <1>2, <1>4, <1>5, <1>6 DEF IInv, ActiveInRegs, InRegister
<1>11. \A a \in m_active : m_regmap'[a] = m_regmap[a] /\ m_regmap[a].id # r
  BY <1>2, <1>4, <1>5 DEF IInv, PoolFree
<1>12. PoolFree'
  BY <1>2, <1>3, <1>4, <1>6, <1>11 DEF IInv, PoolFree, PoolDistinct, InRegister
<1>13. ActiveDistinct'
  BY <1>4, <1>6, <1>11 DEF IInv, ActiveDistinct, InRegister
<1>14. Retired'
  <2> SUFFICES ASSUME NEW s \in Placed', s \notin m_active',
                      ~m_regmap'[s].on_stack
               PROVE  Ended(s)' \/ Lost(s)'
    BY DEF Retired
  <2>1. CASE s = cur
    <3>1. m_active' = m_active
      BY <2>1, <1>6
    <3> QED
      BY <3>1, <2>1, <1>2, <1>3, <1>4, <1>11 DEF IInv, PoolDistinct, Lost, InRegister
  <2>2. CASE s # cur
    <3>1. s \in Placed /\ m_regmap'[s] = m_regmap[s] /\ s \notin m_active
      BY <2>2, <1>4, <1>6
    <3>2. Ended(s) \/ Lost(s)
      BY <3>1 DEF IInv, Retired
    <3>3. Ended(s) => Ended(s)'
      BY <1>7 DEF Ended
    <3>4. ASSUME Lost(s) PROVE Lost(s)'
      <4>1. m_regmap[s].id # r
        BY <3>4, <1>2 DEF Lost
      <4> QED
        BY <3>1, <3>4, <4>1, <1>2, <1>3, <1>4, <1>6, <1>11 DEF Lost, InRegister
    <3> QED
      BY <3>2, <3>3, <3>4
  <2> QED
    BY <2>1, <2>2
<1>15. StackSlots'
  BY <1>1, <1>2, <1>4, LocationFacts DEF IInv, StackSlots, Regs
<1>16. NoInterference'
  <2>1. ASSUME NEW v \in Placed, Overlap(v, cur) \/ Overlap(cur, v)
        PROVE  m_regmap[v] # InRegister(r)
    <3> SUFFICES ASSUME m_regmap[v] = InRegister(r) PROVE FALSE
      OBVIOUS
    <3>1. v \notin m_active
      BY <1>11 DEF InRegister
    <3>2. Ended(v) \/ Lost(v)
      BY <3>1 DEF IInv, Retired, InRegister
    <3>3. ~Lost(v)
      BY <1>2 DEF Lost, InRegister
    <3>4. End(v) <= Begin(cur)
      BY <3>2, <3>3, <1>7 DEF Ended
    <3> QED
      BY <2>1, <3>4, <1>1, <1>2, BeginEndType DEF IInv, Overlap
  <2> QED
    BY <2>1, <1>4, <1>5, <1>7 DEF IInv, NoInterference, Overlap
<1> QED
  BY <1>7, <1>8, <1>9, <1>10, <1>12, <1>13, <1>14, <1>15, <1>16 DEF IInv

(* The last active value moves to the stack and cur takes its register. *)
LEMMA SpillLastIInv ==
  ASSUME IInv, SpillLastActive
  PROVE  IInv'
<1> USE RegsAssumption
<1>1. PICK x \in m_active :
        /\ m_regmap' = Place(Place(m_regmap, cur, InRegister(m_regmap[x].id)),
                             x, OnStack(m_stack_loc))
        /\ m_active' = InsertActive(m_active \ {x}, cur)
  BY DEF SpillLastActive
<1> DEFINE r == m_regmap[x].id
<1>2. /\ cur \in Vals /\ cur' = NoVal /\ m_stack_loc' = m_stack_loc + 1
      /\ UNCHANGED <<interval, pending, m_reg_pool, undefined>>
      /\ m_active \subseteq Placed /\ Placed \subseteq Vals
      /\ r \in Regs /\ m_stack_loc \in Nat
  BY DEF SpillLastActive, IInv, TypeOK, Placed, ActiveInRegs
<1>3. cur \notin Placed
  BY <1>2 DEF IInv, ScanOrder, Ahead
<1>4. /\ Placed' = Placed \cup {cur}
      /\ m_regmap'[cur] = InRegister(r)
      /\ m_regmap'[x] = OnStack(m_stack_loc)
      /\ \A w \in Placed : w # x => m_regmap'[w] = m_regmap[w]
  <2> DEFINE mid == Place(m_regmap, cur, InRegister(r))
  <2>1. /\ DOMAIN mid = Placed \cup {cur}
        /\ mid[cur] = InRegister(r)
        /\ \A w \in Placed : w # cur => mid[w] = m_regmap[w]
    BY DEF Placed, Place
  <2>2. /\ Placed' = DOMAIN mid \cup {x}
        /\ m_regmap'[x] = OnStack(m_stack_loc)
        /\ \A w \in DOMAIN mid : w # x => m_regmap'[w] = mid[w]
    BY <1>1 DEF Placed, Place
  <2> QED
    BY <2>1, <2>2, <1>2, <1>3
<1>5. m_active' = m_active \ {x} \/ m_active' = (m_active \ {x}) \cup {cur}
  BY <1>1, InsertActiveFacts
<1>6. /\ \A v : Begin(v)' = Begin(v) /\ End(v)' = End(v)
      /\ Ahead' = pending /\ Ahead = pending \cup {cur} /\ ScanOrder'
  BY <1>2, <1>4, PlacingStep
<1>7. TypeOK'
  <2>1. \A v \in Placed' : m_regmap'[v] \in Location
    BY <1>2, <1>4, LocationFacts DEF IInv, TypeOK, Placed, Regs
  <2> QED
    BY <2>1, <1>2, <1>4, <1>5 DEF IInv, TypeOK, Placed
<1>8. \A a \in m_active \ {x} : m_regmap'[a] = m_regmap[a] /\ m_regmap[a].id # r
  BY <1>2, <1>4 DEF IInv, ActiveDistinct
<1>9. PoolDistinct'
  BY <1>2 DEF IInv, PoolDistinct
<1>10. \A i \in 1 .. Len(m_reg_pool) : m_reg_pool[i] # r
  BY DEF IInv, PoolFree
<1>11. ActiveInRegs'
  BY <1>2, <1>4, <1>5, <1>8 DEF IInv, ActiveInRegs, InRegister
<1>12. PoolFree'
  BY <1>2, <1>4, <1>5, <1>8, <1>10 DEF IInv, PoolFree, InRegister
<1>13. ActiveDistinct'
  BY <1>4, <1>5, <1>8 DEF IInv, ActiveDistinct, InRegister
<1>14. Retired'
  <2> SUFFICES ASSUME NEW s \in Placed', s \notin m_active',
                      ~m_regmap'[s].on_stack
               PROVE  Ended(s)' \/ Lost(s)'
    BY DEF Retired
  <2>1. CASE s = cur
    BY <2>1, <1>2, <1>4, <1>5, <1>8, <1>10 DEF Lost, InRegister
  <2>2. CASE s # cur
    <3>1. s \in Placed /\ s # x /\ m_regmap'[s] = m_regmap[s] /\ s \notin m_active
      BY <2>2, <1>4, <1>5 DEF OnStack
    <3>2. Ended(s) \/ Lost(s)
      BY <3>1 DEF IInv, Retired
    <3>3. Ended(s) => Ended(s)'
      BY <1>6 DEF Ended
    <3>4. Lost(s) => Lost(s)'
      BY <3>1, <1>2, <1>4, <1>5, <1>8 DEF Lost, InRegister
    <3> QED
      BY <3>2, <3>3, <3>4
  <2> QED
    BY <2>1, <2>2
<1>15. StackSlots'
  <2>1. \A s \in Placed : m_regmap[s].id \in Nat
    BY DEF IInv, TypeOK, Placed, Location
  <2> QED
    BY <2>1, <1>2, <1>4, LocationFacts DEF IInv, StackSlots, Regs
<1>16. NoInterference'
  <2>1. ASSUME NEW v \in Placed, v # x, Overlap(v, cur) \/ Overlap(cur, v)
        PROVE  m_regmap[v] # InRegister(r)
    <3> SUFFICES ASSUME m_regmap[v] = InRegister(r) PROVE FALSE
      OBVIOUS
    <3>1. v \notin m_active
      BY <2>1, <1>8 DEF InRegister
    <3>2. Ended(v) \/ Lost(v)
      BY <3>1 DEF IInv, Retired, InRegister
    <3>3. ~Lost(v)
      BY DEF Lost, InRegister
    <3>4. End(v) <= Begin(cur)
      BY <3>2, <3>3, <1>6 DEF Ended
    <3> QED
      BY <2>1, <3>4, <1>2, BeginEndType DEF IInv, Overlap
  <2>2. \A v \in Placed : m_regmap[v] # OnStack(m_stack_loc)
    BY <1>2 DEF IInv, StackSlots, OnStack
  <2>3. InRegister(r) # OnStack(m_stack_loc)
    BY DEF InRegister, OnStack
  <2> QED
    BY <2>1, <2>2, <2>3, <1>3, <1>4, <1>6 DEF IInv, NoInterference, Overlap
<1> QED
  BY <1>6, <1>7, <1>9, <1>11, <1>12, <1>13, <1>14, <1>15, <1>16 DEF IInv

(* cur itself goes to the stack. *)
LEMMA SpillCurIInv ==
  ASSUME IInv, SpillCurrent
  PROVE  IInv'
<1> USE RegsAssumption
<1>1. /\ cur \in Vals /\ cur' = NoVal /\ m_stack_loc' = m_stack_loc + 1
      /\ m_regmap' = Place(m_regmap, cur, OnStack(m_stack_loc))
      /\ UNCHANGED <<interval, pending, m_reg_pool, m_active, undefined>>
      /\ m_active \subseteq Placed /\ Placed \subseteq Vals /\ m_stack_loc \in Nat
  BY DEF SpillCurrent, IInv, TypeOK, Placed
<1>2. cur \notin Placed
  BY <1>1 DEF IInv, ScanOrder, Ahead
<1>3. /\ Placed' = Placed \cup {cur}
      /\ m_regmap'[cur] = OnStack(m_stack_loc)
      /\ \A w \in Placed : m_regmap'[w] = m_regmap[w]
  BY <1>1, <1>2 DEF Placed, Place
<1>4. /\ \A v : Begin(v)' = Begin(v) /\ End(v)' = End(v)
      /\ Ahead' = pending /\ Ahead = pending \cup {cur} /\ ScanOrder'
  BY <1>1, <1>3, PlacingStep
<1>5. TypeOK'
  <2>1. \A v \in Placed' : m_regmap'[v] \in Location
    BY <1>1, <1>3, LocationFacts DEF IInv, TypeOK, Placed
  <2> QED
    BY <2>1, <1>1, <1>3 DEF IInv, TypeOK, Placed
<1>6. (PoolDistinct /\ ActiveInRegs /\ PoolFree /\ ActiveDistinct)'
  BY <1>1, <1>3 DEF IInv, PoolDistinct, ActiveInRegs, PoolFree, ActiveDistinct
<1>7. Retired'
  <2> SUFFICES ASSUME NEW s \in Placed', s \notin m_active',
                      ~m_regmap'[s].on_stack
               PROVE  Ended(s)' \/ Lost(s)'
    BY DEF Retired
  <2>1. s \in Placed /\ m_regmap'[s] = m_regmap[s] /\ s \notin m_active
    BY <1>1, <1>3, LocationFacts
  <2>2. Ended(s) \/ Lost(s)
    BY <2>1 DEF IInv, Retired
  <2>3. Ended(s) => Ended(s)'
    BY <1>4 DEF Ended
  <2>4. Lost(s) => Lost(s)'
    BY <2>1, <1>1, <1>3 DEF Lost
  <2> QED
    BY <2>2, <2>3, <2>4
<1>8. StackSlots'
  <2>1. \A s \in Placed : m_regmap[s].id \in Nat
    BY DEF IInv, TypeOK, Placed, Location
  <2> QED
    BY <2>1, <1>1, <1>3, LocationFacts DEF IInv, StackSlots
<1>9. NoInterference'
  <2>1. \A v \in Placed : m_regmap[v] # OnStack(m_stack_loc)
    BY <1>1 DEF IInv, StackSlots, OnStack
  <2> QED
    BY <2>1, <1>2, <1>3, <1>4 DEF IInv, NoInterference, Overlap
<1> QED
  BY <1>4, <1>5, <1>6, <1>7, <1>8, <1>9 DEF IInv

LEMMA StepIInv == IInv /\ [Next]_vars => IInv'
<1> SUFFICES ASSUME IInv, [Next]_vars PROVE IInv'
  OBVIOUS
<1>1. CASE Fetch
  BY <1>1, FetchIInv
<1>2. CASE ExpireOne
  BY <1>2, ExpireIInv
<1>3. CASE TakeRegister
  BY <1>3, TakeIInv
<1>4. CASE SpillLastActive
  BY <1>4, SpillLastIInv
<1>5. CASE SpillCurrent
  BY <1>5, SpillCurIInv
<1>6. CASE TakeFromEmptyPool \/ Done \/ UNCHANGED vars
  <2>1. /\ interval' = interval /\ pending' = pending /\ cur' = cur
        /\ m_reg_pool' = m_reg_pool /\ m_regmap' = m_regmap /\ m_active' = m_active
        /\ m_stack_loc' = m_stack_loc /\ (undefined' = TRUE \/ undefined' = undefined)
    BY <1>6 DEF TakeFromEmptyPool, Done, vars
  <2>2. /\ \A v : Begin(v)' = Begin(v) /\ End(v)' = End(v)
        /\ Ahead' = Ahead /\ Placed' = Placed
    BY <2>1 DEF Begin, End, Ahead, Placed
  <2>3. TypeOK'
    BY <2>1 DEF IInv, TypeOK
  <2>4. (ScanOrder /\ Retired /\ NoInterference)'
    BY <2>1, <2>2 DEF IInv, ScanOrder, Retired, Ended, Lost, NoInterference, Overlap
  <2>5. (PoolDistinct /\ ActiveInRegs /\ PoolFree /\ ActiveDistinct /\ StackSlots)'
    BY <2>1, <2>2 DEF IInv, PoolDistinct, ActiveInRegs, PoolFree, ActiveDistinct,
                      StackSlots
  <2> QED
    BY <2>3, <2>4, <2>5 DEF IInv
<1> QED
  BY <1>1, <1>2, <1>3, <1>4, <1>5, <1>6 DEF Next, Step

LEMMA IInvInvariant == Spec => []IInv
BY InitIInv, StepIInv, PTL DEF Spec

(* Type correctness of the allocator, for every number of registers. *)
THEOREM TypeCorrect == Spec => []TypeOK
<1>1. IInv => TypeOK
  BY DEF IInv
<1> QED
  BY <1>1, IInvInvariant, PTL

(* Values that are live together never share a location, whatever intervals *)
(* the analyzer is given (NoInterference of RegAlloc).                      *)
THEOREM LocationsDoNotInterfere == Spec => []NoInterference
<1>1. IInv => NoInterference
  BY DEF IInv
<1> QED
  BY <1>1, IInvInvariant, PTL

(* Only live values are moved from a register to the stack, and nothing     *)
(* else ever changes a location (OnlyLiveValuesMove of RegAlloc).           *)
THEOREM LocationsMoveOnce == Spec => OnlyLiveValuesMove
<1> DEFINE A == \A v \in Placed :
                  \/ m_regmap'[v] = m_regmap[v]
                  \/ /\ ~m_regmap[v].on_stack
                     /\ m_regmap'[v].on_stack
                     /\ cur \in Vals
                     /\ Overlap(v, cur)
<1>1. ASSUME IInv, [Next]_vars PROVE A
  <2>1. CASE Fetch \/ ExpireOne \/ TakeFromEmptyPool \/ Done \/ UNCHANGED vars
    BY <2>1 DEF Fetch, ExpireOne, TakeFromEmptyPool, Done, vars
  <2>2. CASE TakeRegister \/ SpillCurrent
    <3>1. cur \notin Placed
      BY <2>2, <1>1 DEF TakeRegister, SpillCurrent, IInv, ScanOrder, Ahead
    <3>2. \E loc : m_regmap' = Place(m_regmap, cur, loc)
      BY <2>2 DEF TakeRegister, SpillCurrent
    <3> QED
      BY <3>1, <3>2 DEF Place, Placed
  <2>3. CASE SpillLastActive
    <3>1. PICK x \in m_active :
            /\ End(cur) < End(x)
            /\ m_regmap' = Place(Place(m_regmap, cur, InRegister(m_regmap[x].id)),
                                 x, OnStack(m_stack_loc))
      BY <2>3 DEF SpillLastActive
    <3>2. cur \in Vals /\ cur \notin Placed /\ x \in Placed /\ x \in Vals
      BY <2>3, <1>1 DEF SpillLastActive, IInv, TypeOK, ScanOrder, Ahead, Placed
    <3>3. /\ m_regmap'[x] = OnStack(m_stack_loc)
          /\ \A v \in Placed : v # x => m_regmap'[v] = m_regmap[v]
      BY <3>1, <3>2 DEF Place, Placed
    <3>4. ~m_regmap[x].on_stack /\ m_regmap'[x].on_stack
      BY <3>3, <1>1, LocationFacts DEF IInv, TypeOK, ActiveInRegs
    <3>5. Overlap(x, cur)
      <4>1. Begin(x) <= Begin(cur) /\ Begin(cur) < End(cur)
        BY <3>2, <1>1 DEF IInv, ScanOrder, Ahead
      <4> QED
        BY <4>1, <3>1, <3>2, <1>1, BeginEndType DEF IInv, Overlap
    <3> QED
      BY <3>2, <3>3, <3>4, <3>5
  <2> QED
    BY <2>1, <2>2, <2>3, <1>1 DEF Next, Step
<1>2. ASSUME IInv, [Next]_vars PROVE [A]_vars
  BY <1>1, <1>2
<1> QED
  BY <1>2, IInvInvariant, PTL DEF Spec, OnlyLiveValuesMove

-----------------------------------------------------------------------------
(* The accounting of registers.                                            *)

LEMMA ActiveFinite ==
  ASSUME TypeOK
  PROVE  IsFiniteSet(m_active) /\ Cardinality(m_active) \in Nat
<1>1. m_active \in SUBSET Vals
  BY DEF TypeOK
<1> QED
  BY <1>1, RegsAssumption, FS_Subset, FS_CardinalityType

LEMMA EndsFinite ==
  ASSUME NEW S \in SUBSET Vals
  PROVE  /\ IsFiniteSet(S) /\ IsFiniteSet({End(a) : a \in S})
         /\ Cardinality(S) \in Nat /\ Cardinality({End(a) : a \in S}) \in Nat
         /\ SharedEnds(S) \in Int
<1> DEFINE E == {End(a) : a \in S}
           f == [a \in S |-> End(a)]
<1>1. IsFiniteSet(S) /\ Cardinality(S) \in Nat
  BY RegsAssumption, FS_Subset, FS_CardinalityType
<1>2. f \in Surjection(S, E)
  BY DEF Surjection
<1>3. IsFiniteSet(E) /\ Cardinality(E) \in Nat
  BY <1>1, <1>2, FS_Surjection, FS_CardinalityType
<1> QED
  BY <1>1, <1>3 DEF SharedEnds

(* How the number of shared ends grows with one more value. *)
LEMMA OneMoreEnd ==
  ASSUME NEW S \in SUBSET Vals, NEW v \in Vals \ S
  PROVE  /\ SharedEnds(S) \in Int
         /\ SharedEnds(S \cup {v}) \in Int
         /\ SharedEnds(S) <= SharedEnds(S \cup {v})
         /\ (\E a \in S : End(a) = End(v)) => SharedEnds(S \cup {v}) = SharedEnds(S) + 1
<1> DEFINE E == {End(a) : a \in S}
<1>1. IsFiniteSet(S) /\ IsFiniteSet(E) /\ Cardinality(S) \in Nat /\ Cardinality(E) \in Nat
  BY EndsFinite
<1>4. Cardinality(S \cup {v}) = Cardinality(S) + 1
  BY <1>1, FS_AddElement
<1>5. {End(a) : a \in S \cup {v}} = E \cup {End(v)}
  OBVIOUS
<1>6. Cardinality(E \cup {End(v)}) = IF End(v) \in E THEN Cardinality(E) ELSE Cardinality(E) + 1
  BY <1>1, FS_AddElement
<1>7. (\E a \in S : End(a) = End(v)) => End(v) \in E
  OBVIOUS
<1>8. /\ SharedEnds(S) = Cardinality(S) - Cardinality(E)
      /\ SharedEnds(S \cup {v}) = Cardinality(S \cup {v}) - Cardinality(E \cup {End(v)})
  BY <1>5 DEF SharedEnds
<1> HIDE DEF E
<1> QED
  BY <1>1, <1>4, <1>6, <1>7, <1>8

(* Either m_active takes the interval of cur or its end is a shared one. *)
LEMMA InsertOrShare ==
  ASSUME IInv, cur \in Vals, NEW A \in SUBSET m_active
  PROVE  /\ cur \notin Placed /\ Placed \in SUBSET Vals
         /\ \/ /\ Cardinality(InsertActive(A, cur)) = Cardinality(A) + 1
               /\ SharedEnds(Placed) <= SharedEnds(Placed \cup {cur})
            \/ /\ Cardinality(InsertActive(A, cur)) = Cardinality(A)
               /\ SharedEnds(Placed \cup {cur}) = SharedEnds(Placed) + 1
<1>1. cur \notin Placed /\ m_active \subseteq Placed /\ Placed \in SUBSET Vals
  BY DEF IInv, ScanOrder, Ahead, TypeOK, Placed
<1>2. IsFiniteSet(A)
  BY ActiveFinite, FS_Subset DEF IInv
<1>3. CASE \E a \in A : End(a) = End(cur)
  <2>1. InsertActive(A, cur) = A
    BY <1>3 DEF InsertActive
  <2>2. SharedEnds(Placed \cup {cur}) = SharedEnds(Placed) + 1
    BY <1>1, <1>3, OneMoreEnd
  <2> QED
    BY <1>1, <2>1, <2>2
<1>4. CASE ~ \E a \in A : End(a) = End(cur)
  <2>1. InsertActive(A, cur) = A \cup {cur} /\ cur \notin A
    BY <1>1, <1>4 DEF InsertActive
  <2>2. Cardinality(A \cup {cur}) = Cardinality(A) + 1
    BY <2>1, <1>2, FS_AddElement
  <2> QED
    BY <1>1, <2>1, <2>2, OneMoreEnd
<1> QED
  BY <1>3, <1>4

LEMMA InitAccounted == Init => RegistersAccounted
<1> SUFFICES ASSUME Init PROVE RegistersAccounted
  OBVIOUS
<1>1. Len(m_reg_pool) = RegsNum /\ m_active = {} /\ Placed = {}
  BY PoolInit DEF Init, Placed
<1>2. {End(a) : a \in {}} = {}
  OBVIOUS
<1>3. SharedEnds({}) = Cardinality({}) - Cardinality({})
  BY <1>2, Zenon DEF SharedEnds
<1>4. Cardinality(m_active) = 0 /\ SharedEnds({}) = 0
  BY <1>1, <1>3, FS_EmptySet
<1> QED
  BY <1>1, <1>4, RegsAssumption DEF RegistersAccounted

LEMMA StepAccounted == IInv /\ RegistersAccounted /\ [Next]_vars => RegistersAccounted'
<1> SUFFICES ASSUME IInv, RegistersAccounted, [Next]_vars PROVE RegistersAccounted'
  OBVIOUS
<1> USE RegsAssumption
<1> DEFINE L == Len(m_reg_pool)
           C == Cardinality(m_active)
           D == SharedEnds(Placed)
<1>1. interval' = interval
  BY DEF Next, Step, Done, vars, Fetch, ExpireOne, TakeRegister, TakeFromEmptyPool,
         SpillLastActive, SpillCurrent
<1>2. SharedEnds(Placed)' = SharedEnds(Placed')
  BY <1>1 DEF SharedEnds, End
<1>3. Placed \in SUBSET Vals /\ D \in Int
  BY EndsFinite DEF IInv, TypeOK, Placed
<1>4. /\ IsFiniteSet(m_active) /\ C \in Nat
      /\ m_reg_pool \in Seq(Regs) /\ L \in Nat
      /\ L + C <= RegsNum /\ RegsNum <= L + C + D
  BY ActiveFinite DEF IInv, TypeOK, RegistersAccounted
<1> SUFFICES /\ Len(m_reg_pool') + Cardinality(m_active') <= RegsNum
             /\ RegsNum <= Len(m_reg_pool') + Cardinality(m_active') + SharedEnds(Placed')
  BY <1>2 DEF RegistersAccounted
<1>5. CASE Fetch \/ Done \/ TakeFromEmptyPool \/ UNCHANGED vars
  <2>1. m_reg_pool' = m_reg_pool /\ m_active' = m_active /\ m_regmap' = m_regmap
    BY <1>5 DEF Fetch, Done, TakeFromEmptyPool, vars
  <2>2. Placed' = Placed
    BY <2>1 DEF Placed
  <2> QED
    BY <2>1, <2>2, <1>4
<1>6. CASE ExpireOne
  <2>1. PICK a \in m_active : /\ m_reg_pool' = Append(m_reg_pool, m_regmap[a].id)
                              /\ m_active' = m_active \ {a}
    BY <1>6 DEF ExpireOne
  <2>2. Cardinality(m_active') = C - 1
    BY <2>1, <1>4, FS_RemoveElement
  <2>3. Len(m_reg_pool') = L + 1
    BY <2>1, <1>4
  <2>4. Placed' = Placed
    BY <1>6 DEF ExpireOne, Placed
  <2> QED
    BY <2>2, <2>3, <2>4, <1>3, <1>4
<1>7. CASE TakeRegister
  <2>1. /\ cur \in Vals /\ m_reg_pool # << >>
        /\ m_reg_pool' = SubSeq(m_reg_pool, 1, Len(m_reg_pool) - 1)
        /\ m_active' = InsertActive(m_active, cur)
    BY <1>7 DEF TakeRegister
  <2>2. Placed' = Placed \cup {cur}
    BY <1>7 DEF TakeRegister, Place, Placed
  <2>3. Len(m_reg_pool') = L - 1
    BY <2>1, <1>4, PopFacts
  <2>4. SharedEnds(Placed') \in Int
    BY <2>1, <2>2, <1>3, EndsFinite
  <2>5. \/ Cardinality(m_active') = C + 1 /\ D <= SharedEnds(Placed')
        \/ Cardinality(m_active') = C /\ SharedEnds(Placed') = D + 1
    BY <2>1, <2>2, InsertOrShare
  <2> QED
    BY <2>3, <2>4, <2>5, <1>3, <1>4
<1>8. CASE SpillLastActive
  <2>1. PICK x \in m_active :
          /\ m_active' = InsertActive(m_active \ {x}, cur)
          /\ m_regmap' = Place(Place(m_regmap, cur, InRegister(m_regmap[x].id)),
                               x, OnStack(m_stack_loc))
    BY <1>8 DEF SpillLastActive
  <2>2. /\ cur \in Vals /\ m_reg_pool' = m_reg_pool
        /\ m_active \ {x} \in SUBSET m_active
    BY <1>8 DEF SpillLastActive
  <2>3. Placed' = Placed \cup {cur}
    <3>1. x \in Placed
      BY DEF IInv, TypeOK, Placed
    <3> QED
      BY <2>1, <3>1 DEF Place, Placed
  <2>4. Cardinality(m_active \ {x}) = C - 1
    BY <1>4, FS_RemoveElement
  <2>5. SharedEnds(Placed') \in Int
    BY <2>2, <2>3, <1>3, EndsFinite
  <2>6. \/ /\ Cardinality(m_active') = Cardinality(m_active \ {x}) + 1
           /\ D <= SharedEnds(Placed')
        \/ /\ Cardinality(m_active') = Cardinality(m_active \ {x})
           /\ SharedEnds(Placed') = D + 1
    BY <2>1, <2>2, <2>3, InsertOrShare
  <2> QED
    BY <2>2, <2>4, <2>5, <2>6, <1>3, <1>4
<1>9. CASE SpillCurrent
  <2>1. /\ cur \in Vals /\ m_reg_pool' = m_reg_pool /\ m_active' = m_active
        /\ Placed' = Placed \cup {cur}
    BY <1>9 DEF SpillCurrent, Place, Placed
  <2>2. SharedEnds(Placed') \in Int /\ D <= SharedEnds(Placed')
    <3>1. cur \notin Placed
      BY <2>1 DEF IInv, ScanOrder, Ahead
    <3> QED
      BY <2>1, <3>1, <1>3, EndsFinite, OneMoreEnd
  <2> QED
    BY <2>1, <2>2, <1>3, <1>4
<1> QED
  BY <1>5, <1>6, <1>7, <1>8, <1>9 DEF Next, Step

(* Every register is in the pool or active, but for at most one for each    *)
(* shared end (RegistersAccounted of RegAlloc), whatever intervals there    *)
(* are.                                                                     *)
THEOREM EveryRegisterAccounted == Spec => []RegistersAccounted
BY InitAccounted, StepAccounted, IInvInvariant, PTL DEF Spec

LEMMA NatMinimum ==
  ASSUME NEW T \in SUBSET Nat, T # {}
  PROVE  \E x \in T : \A y \in T : x <= y
<1> DEFINE R == {ss \in Nat \X Nat : ss[1] < ss[2]}
<1>1. IsWellFoundedOn(R, Nat)
  BY NatLessThanWellFounded, Zenon DEF OpToRel
<1> HIDE DEF R
<1>2. PICK x \in T : \A y \in T : ~(<<y, x>> \in R)
  BY <1>1, WFMin, Zenon
<1>3. \A y \in T : ~(y < x)
  BY <1>2 DEF R
<1> QED
  BY <1>3

(* When expire_old_intervals has nothing to remove all active values are    *)
(* live at the start of the current one.                                   *)
LEMMA ActiveAreLive ==
  ASSUME IInv, cur \in Vals, ~HasExpired
  PROVE  m_active \cup {cur} \subseteq LiveAt(Begin(cur))
<1>1. /\ m_active \subseteq Placed /\ Placed \subseteq Vals
      /\ \A v \in Vals : Begin(v) \in Nat /\ End(v) \in Nat
  BY BeginEndType DEF IInv, TypeOK, Placed
<1>2. ASSUME NEW a \in m_active PROVE Begin(cur) < End(a)
  <2> DEFINE Ends == {End(b) : b \in m_active}
  <2>1. PICK e \in Ends : \A y \in Ends : e <= y
    BY <1>1, NatMinimum
  <2>2. PICK b \in m_active : e = End(b)
    OBVIOUS
  <2>3. IsFirstActive(b)
    BY <2>1, <2>2 DEF IsFirstActive
  <2>4. ~(End(b) <= Begin(cur))
    BY <2>3 DEF HasExpired, Expires
  <2> QED
    BY <2>1, <2>2, <2>4, <1>1
<1>3. \A a \in m_active : Begin(a) <= Begin(cur)
  BY <1>1 DEF IInv, ScanOrder, Ahead
<1>4. Begin(cur) < End(cur)
  BY DEF IInv, ScanOrder, Ahead
<1> QED
  BY <1>1, <1>2, <1>3, <1>4 DEF LiveAt

LEMMA FrozenFacts ==
  ASSUME UNCHANGED <<interval, cur, m_active, m_regmap>>
  PROVE  (HasExpired' <=> HasExpired) /\ (TooFewLeft' <=> TooFewLeft)
BY DEF HasExpired, Expires, IsFirstActive, TooFewLeft, SharedEnds, LiveAt, Begin, End,
       Placed

\* An undefined state is the last one: nothing is left to do in it.
Stuck ==
  undefined => /\ cur \in Vals /\ ~HasExpired /\ Cardinality(m_active) # RegsNum
               /\ TooFewLeft

LEMMA StepStuck == IInv /\ RegistersAccounted /\ Stuck /\ [Next]_vars => Stuck'
<1> SUFFICES ASSUME IInv, RegistersAccounted, Stuck, [Next]_vars, undefined'
             PROVE  (/\ cur \in Vals /\ ~HasExpired /\ Cardinality(m_active) # RegsNum
                     /\ TooFewLeft)'
  BY DEF Stuck
<1> USE RegsAssumption
<1>1. CASE TakeFromEmptyPool
  <2>1. /\ cur \in Vals /\ ~HasExpired /\ Cardinality(m_active) # RegsNum
        /\ m_reg_pool = << >>
    BY <1>1 DEF TakeFromEmptyPool
  <2>2. IsFiniteSet(m_active) /\ Cardinality(m_active) \in Nat
    BY ActiveFinite DEF IInv
  <2>3. SharedEnds(Placed) \in Int
    BY EndsFinite DEF IInv, TypeOK, Placed
  <2>4. /\ Cardinality(m_active) < RegsNum
        /\ RegsNum <= Cardinality(m_active) + SharedEnds(Placed)
    BY <2>1, <2>2, <2>3 DEF RegistersAccounted
  <2>5. cur \notin m_active
    BY <2>1 DEF IInv, ScanOrder, Ahead, TypeOK, Placed
  <2>6. Cardinality(m_active \cup {cur}) = Cardinality(m_active) + 1
    BY <2>2, <2>5, FS_AddElement
  <2>7. LiveAt(Begin(cur)) \in SUBSET Vals
    BY DEF LiveAt
  <2>8. IsFiniteSet(LiveAt(Begin(cur))) /\ Cardinality(LiveAt(Begin(cur))) \in Nat
    BY <2>7, EndsFinite
  <2>9. Cardinality(m_active \cup {cur}) <= Cardinality(LiveAt(Begin(cur)))
    BY <2>1, <2>8, ActiveAreLive, FS_Subset
  <2>10. TooFewLeft
    BY <2>1, <2>2, <2>3, <2>4, <2>6, <2>8, <2>9 DEF TooFewLeft
  <2> QED
    BY <2>1, <2>10, <1>1, FrozenFacts DEF TakeFromEmptyPool
<1>2. CASE undefined
  <2>1. UNCHANGED vars
    BY <1>2, RegsAssumption
       DEF Stuck, Next, Step, Done, vars, Fetch, ExpireOne, TakeRegister, HasExpired,
           TakeFromEmptyPool, SpillLastActive, SpillCurrent
  <2> QED
    BY <2>1, <1>2, FrozenFacts DEF Stuck, vars
<1> QED
  BY <1>1, <1>2 DEF Next, Step, Done, vars, Fetch, ExpireOne, TakeRegister,
                    SpillLastActive, SpillCurrent

(* A register is taken from an empty pool only when ends were shared and    *)
(* the values live at the current one are more than the registers that      *)
(* leaves (UnderflowOnlyAfterLoss of RegAlloc).                             *)
THEOREM UnderflowNeedsLoss == Spec => []UnderflowOnlyAfterLoss
<1>1. Init => Stuck
  BY DEF Init, Stuck
<1>2. Stuck => UnderflowOnlyAfterLoss
  BY DEF Stuck, UnderflowOnlyAfterLoss
<1> QED
  BY <1>1, <1>2, StepStuck, EveryRegisterAccounted, IInvInvariant, PTL DEF Spec

-----------------------------------------------------------------------------
(* Spilling happens only under register pressure.                          *)

LEMMA StepPressure ==
  IInv /\ SpillOnlyUnderPressure /\ [Next]_vars => SpillOnlyUnderPressure'
<1> SUFFICES ASSUME IInv, SpillOnlyUnderPressure, [Next]_vars
             PROVE  SpillOnlyUnderPressure'
  OBVIOUS
<1>1. interval' = interval
  BY DEF Next, Step, Done, vars, Fetch, ExpireOne, TakeRegister, TakeFromEmptyPool,
         SpillLastActive, SpillCurrent
<1>2. \A p : LiveAt(p)' = LiveAt(p)
  BY <1>1 DEF LiveAt, Begin, End
<1>3. CASE m_stack_loc' = m_stack_loc
  BY <1>2, <1>3 DEF SpillOnlyUnderPressure
<1>4. CASE SpillLastActive \/ SpillCurrent
  <2>1. /\ cur \in Vals /\ ~HasExpired /\ Cardinality(m_active) = RegsNum
    BY <1>4 DEF SpillLastActive, SpillCurrent
  <2> DEFINE p == Begin(cur)
  <2>2. p \in Points
    <3>1. interval[cur] \in Intervals
      BY <2>1 DEF IInv, TypeOK
    <3> QED
      BY <3>1 DEF Intervals, Begin
  <2>3. cur \notin m_active
    BY <2>1 DEF IInv, ScanOrder, Ahead, TypeOK, Placed
  <2>4. /\ IsFiniteSet(m_active)
        /\ Cardinality(m_active \cup {cur}) = RegsNum + 1
    BY <2>1, <2>3, ActiveFinite, FS_AddElement DEF IInv
  <2>5. LiveAt(p) \in SUBSET Vals
    BY DEF LiveAt
  <2>6. IsFiniteSet(LiveAt(p))
    BY <2>5, RegsAssumption, FS_Subset
  <2>7. Cardinality(m_active \cup {cur}) <= Cardinality(LiveAt(p))
    BY <2>1, <2>6, ActiveAreLive, FS_Subset
  <2>8. Cardinality(LiveAt(p)) \in Nat
    BY <2>6, FS_CardinalityType
  <2>9. Cardinality(LiveAt(p)) > RegsNum
    BY <2>4, <2>7, <2>8, RegsAssumption
  <2> QED
    BY <2>2, <2>9, <1>2 DEF SpillOnlyUnderPressure
<1> QED
  BY <1>3, <1>4 DEF Next, Step, Done, vars, Fetch, ExpireOne, TakeRegister,
                    TakeFromEmptyPool

(* Nothing is spilled unless more than RegsNum values are live at a point   *)
(* (SpillOnlyUnderPressure of RegAlloc).                                    *)
THEOREM SpillsNeedPressure == Spec => []SpillOnlyUnderPressure
<1>1. Init => SpillOnlyUnderPressure
  BY DEF Init, SpillOnlyUnderPressure
<1> QED
  BY <1>1, StepPressure, IInvInvariant, PTL DEF Spec
=============================================================================
