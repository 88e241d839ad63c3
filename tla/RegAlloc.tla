------------------------------ MODULE RegAlloc ------------------------------
(***************************************************************************)
(* The linear scan register allocator of include/analysis/reg_alloc.hh:    *)
(* RegAllocAnalyzer::linear_scan with expire_old_intervals and             *)
(* spill_at_inverval.                                                      *)
(*                                                                         *)
(* The live intervals the analyzer is constructed from are chosen in Init, *)
(* so that one behaviour exists for every assignment of intervals to       *)
(* values.  An iteration of linear_scan is Fetch, then ExpireOne as often  *)
(* as the loop of expire_old_intervals runs, then one of the actions that  *)
(* place the value.                                                        *)
(***************************************************************************)
EXTENDS Naturals, Sequences, FiniteSets

CONSTANTS
  Vals,      \* the ir::Value objects the liveness analyzer has ranges for
  NoVal,     \* "no value": linear_scan is between two iterations
  RegsNum,   \* the template parameter of RegAllocAnalyzer
  Points     \* the live numbers an interval may start or end at

ASSUME RegsAssumption == /\ RegsNum \in Nat \ {0}
                         /\ Points \subseteq Nat
                         /\ NoVal \notin Vals
                         /\ IsFiniteSet(Vals)

VARIABLES
  interval,   \* m_liveness.intervals(): value -> [begin, end]
  pending,    \* the values of m_data that linear_scan has not reached
  cur,        \* the value of the iteration linear_scan is in
  m_reg_pool, \* the free registers, taken from and returned to the back
  m_regmap,   \* value -> Location, for the values placed so far
  m_active,   \* the values whose intervals are in the set m_active
  m_stack_loc,\* the next stack slot
  undefined   \* back() was called on an empty m_reg_pool

vars == <<interval, pending, cur, m_reg_pool, m_regmap, m_active, m_stack_loc,
          undefined>>

Regs == 0 .. RegsNum - 1
Location == [id : Nat, on_stack : BOOLEAN]

Begin(v) == interval[v].begin
End(v) == interval[v].end

(***************************************************************************)
(* Every value of m_data has begin < end: the constructor drops an         *)
(* interval with begin = end, and the liveness analyzer starts a range at  *)
(* or before the number that ends it.                                      *)
(***************************************************************************)
Intervals == {i \in [begin : Points, end : Points] : i.begin <= i.end}

(* The std::iota of the constructor fills the pool from its back. *)
InitialPool_OneShort == [i \in 1 .. RegsNum - 1 |-> RegsNum - i]  \* mutant
InitialPool == [i \in 1 .. RegsNum |-> RegsNum - i]

(* The constructor. *)
Init ==
  /\ interval \in [Vals -> Intervals]
  /\ pending = {v \in Vals : Begin(v) # End(v)}
  /\ cur = NoVal
  /\ m_reg_pool = InitialPool
  /\ m_regmap = [v \in {} |-> [id |-> 0, on_stack |-> FALSE]]
  /\ m_active = {}
  /\ m_stack_loc = 0
  /\ undefined = FALSE

(***************************************************************************)
(* The order m_data is sorted in.  Intervals that are equal are equivalent *)
(* for the comparator, and std::sort may leave them in any order.          *)
(***************************************************************************)
SortedBefore(v, w) ==
  Begin(v) < Begin(w) \/ (Begin(v) = Begin(w) /\ End(v) < End(w))

(* m_active is a std::set whose comparator looks at end() only: an insert  *)
(* of an interval whose end is already there does nothing.                 *)
InsertActive_ByBegin(active, v) ==                              \* mutant
  IF \E a \in active : Begin(a) = Begin(v) THEN active ELSE active \cup {v}
InsertActive(active, v) ==
  IF \E a \in active : End(a) = End(v) THEN active ELSE active \cup {v}

IsFirstActive(a) == a \in m_active /\ \A b \in m_active : End(a) <= End(b)
IsLastActive(a)  == a \in m_active /\ \A b \in m_active : End(b) <= End(a)

Place(map, v, loc) == [w \in DOMAIN map \cup {v} |-> IF w = v THEN loc ELSE map[w]]
InRegister(r) == [id |-> r, on_stack |-> FALSE]
OnStack_FlagNotSet(s) == [id |-> s, on_stack |-> FALSE]          \* mutant
OnStack(s) == [id |-> s, on_stack |-> TRUE]

-----------------------------------------------------------------------------
(* The loop of linear_scan moves to the next element of m_data. *)
Fetch ==
  /\ cur = NoVal
  /\ \E v \in pending :
       /\ \A w \in pending : ~SortedBefore(w, v)
       /\ cur' = v
       /\ pending' = pending \ {v}
  /\ UNCHANGED <<interval, m_reg_pool, m_regmap, m_active, m_stack_loc, undefined>>

(* The loop of expire_old_intervals removes the first active interval as   *)
(* long as it ends at or before the begin of the current one.              *)
Expires_TooEarly(a) == IsFirstActive(a) /\ End(a) <= Begin(cur) + 1  \* mutant
Expires_TooLate(a) == IsFirstActive(a) /\ End(a) < Begin(cur)        \* mutant
Expires(a) == IsFirstActive(a) /\ End(a) <= Begin(cur)
HasExpired == \E a \in m_active : Expires(a)

(* One turn of the loop of expire_old_intervals. *)
ExpireOne ==
  /\ cur \in Vals
  /\ \E a \in m_active :
       /\ Expires(a)
       /\ m_reg_pool' = Append(m_reg_pool, m_regmap[a].id)
       /\ m_active' = m_active \ {a}
  /\ UNCHANGED <<interval, pending, cur, m_regmap, m_stack_loc, undefined>>

(* The else branch of linear_scan: the back of the pool is taken. *)
TakeRegister ==
  /\ cur \in Vals
  /\ ~undefined
  /\ ~HasExpired
  /\ Cardinality(m_active) # RegsNum
  /\ m_reg_pool # << >>
  /\ LET free_reg == m_reg_pool[Len(m_reg_pool)]
     IN m_regmap' = Place(m_regmap, cur, InRegister(free_reg))
  /\ m_reg_pool' = SubSeq(m_reg_pool, 1, Len(m_reg_pool) - 1)
  /\ m_active' = InsertActive(m_active, cur)
  /\ cur' = NoVal
  /\ UNCHANGED <<interval, pending, m_stack_loc, undefined>>

(***************************************************************************)
(* The same branch when the pool is empty: back() and pop_back() are       *)
(* undefined behaviour, and nothing is said of what happens afterwards.    *)
(***************************************************************************)
TakeFromEmptyPool ==
  /\ cur \in Vals
  /\ ~undefined
  /\ ~HasExpired
  /\ Cardinality(m_active) # RegsNum
  /\ m_reg_pool = << >>
  /\ undefined' = TRUE
  /\ UNCHANGED <<interval, pending, cur, m_reg_pool, m_regmap, m_active, m_stack_loc>>

(* spill_at_inverval when the last active interval ends after the current  *)
(* one: it gives its register up and moves to the stack.                   *)
SpillLastActive ==
  /\ cur \in Vals
  /\ ~HasExpired
  /\ Cardinality(m_active) = RegsNum
  /\ \E s \in m_active :
       /\ IsLastActive(s)
       /\ End(cur) < End(s)
       /\ m_regmap' = Place(Place(m_regmap, cur, InRegister(m_regmap[s].id)),
                            s, OnStack(m_stack_loc))
       /\ m_active' = InsertActive(m_active \ {s}, cur)
  /\ m_stack_loc' = m_stack_loc + 1
  /\ cur' = NoVal
  /\ UNCHANGED <<interval, pending, m_reg_pool, undefined>>

(* spill_at_inverval otherwise: the current value lives on the stack. *)
SpillCurrent ==
  /\ cur \in Vals
  /\ ~HasExpired
  /\ Cardinality(m_active) = RegsNum
  /\ \E s \in m_active : IsLastActive(s) /\ ~(End(cur) < End(s))
  /\ m_regmap' = Place(m_regmap, cur, OnStack(m_stack_loc))
  /\ m_stack_loc' = m_stack_loc + 1
  /\ cur' = NoVal
  /\ UNCHANGED <<interval, pending, m_reg_pool, m_active, undefined>>

(* linear_scan has returned, or its behaviour is undefined. *)
Stopped == undefined \/ (pending = {} /\ cur = NoVal)
Done == Stopped /\ UNCHANGED vars

Step == Fetch \/ ExpireOne \/ TakeRegister \/ TakeFromEmptyPool
        \/ SpillLastActive \/ SpillCurrent
Next == Step \/ Done

Spec == Init /\ [][Next]_vars /\ WF_vars(Step)

-----------------------------------------------------------------------------
(* Properties *)

Placed == DOMAIN m_regmap

(* Every variable has the type its declaration in reg_alloc.hh gives it;   *)
(* register ids stay below RegsNum.                                        *)
TypeOK ==
  /\ interval \in [Vals -> Intervals]
  /\ pending \subseteq Vals
  /\ cur \in Vals \cup {NoVal}
  /\ m_reg_pool \in Seq(Regs)
  /\ m_active \subseteq DOMAIN m_regmap
  /\ DOMAIN m_regmap \subseteq Vals
  /\ \A v \in DOMAIN m_regmap : m_regmap[v] \in Location
  /\ m_stack_loc \in Nat
  /\ undefined \in BOOLEAN

Overlap(v, w) == Begin(v) < End(w) /\ Begin(w) < End(v)

(***************************************************************************)
(* Two values that are live at the same time never share a register or a   *)
(* stack slot (reg_alloc.hh:91-106, 123-143).  It holds also when two      *)
(* intervals have the same end and m_active has lost one of them: the      *)
(* register of the lost one is never handed out again.                     *)
(***************************************************************************)
NoInterference ==
  \A v, w \in Placed : v # w /\ Overlap(v, w) => m_regmap[v] # m_regmap[w]

(***************************************************************************)
(* Each register is in the pool or belongs to one active interval, except  *)
(* that one may be gone for every placed value whose end is the end of     *)
(* another one: m_active does not take an interval whose end it holds, and *)
(* the register of that interval never comes back.  (reg_alloc.hh:96-103   *)
(* takes size() # RegsNum to mean that the pool is not empty.)             *)
(***************************************************************************)
SharedEnds(S) == Cardinality(S) - Cardinality({End(v) : v \in S})

RegistersAccounted ==
  /\ Len(m_reg_pool) + Cardinality(m_active) <= RegsNum
  /\ RegsNum <= Len(m_reg_pool) + Cardinality(m_active) + SharedEnds(Placed)

(***************************************************************************)
(* Nothing is spilled as long as at most RegsNum values are live at every  *)
(* point, whatever ends coincide.                                          *)
(***************************************************************************)
LiveAt(p) == {v \in Vals : Begin(v) <= p /\ p < End(v)}
SpillOnlyUnderPressure ==
  m_stack_loc > 0 => \E p \in Points : Cardinality(LiveAt(p)) > RegsNum

(***************************************************************************)
(* A location that was given out changes only by moving, once, from a      *)
(* register to the stack, and only while its value is still live: code     *)
(* before the current position was compiled against the old location.      *)
(***************************************************************************)
OnlyLiveValuesMove ==
  [][\A v \in Placed :
       \/ m_regmap'[v] = m_regmap[v]
       \/ /\ ~m_regmap[v].on_stack
          /\ m_regmap'[v].on_stack
          /\ cur \in Vals
          /\ Overlap(v, cur)]_vars

(***************************************************************************)
(* The pool is never empty when a register is taken from it                *)
(* (reg_alloc.hh:99-100), unless ends were shared before and, with as many *)
(* registers less, the values live at the current one are too many.        *)
(***************************************************************************)
TooFewLeft ==
  /\ cur \in Vals
  /\ SharedEnds(Placed) > 0
  /\ Cardinality(LiveAt(Begin(cur))) > RegsNum - SharedEnds(Placed)

UnderflowOnlyAfterLoss == undefined => TooFewLeft

(* linear_scan returns, and every value of a non-empty interval then has a *)
(* location (get_location uses at()); or it gets no further for want of    *)
(* the registers that intervals of equal ends have cost it.                *)
EveryValuePlaced ==
  <>[](\/ Placed = {v \in Vals : Begin(v) # End(v)}
       \/ undefined /\ TooFewLeft)
=============================================================================
