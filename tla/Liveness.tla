------------------------------- MODULE Liveness -------------------------------
(***************************************************************************)
(* The live intervals of include/analysis/liveness_analyzer.hh, computed   *)
(* along the linear order.  The analyses before it look at the graph only, *)
(* so the instructions of the function are chosen when it begins.          *)
(*                                                                         *)
(* A program is a record: code (block -> its instructions in order), op    *)
(* and inputs of each instruction, and the vars of a phi, a sequence of    *)
(* pairs of a value and the predecessor it comes from.                     *)
(***************************************************************************)
EXTENDS LinearOrder, FiniteSetsExt, Functions

CONSTANTS
  Ids,         \* instructions
  Programs(_)  \* the programs that fit a graph

(* The analysis is for functions in SSA form: an instruction is in the     *)
(* code once, and its definition is before its users in their block, or in *)
(* a block that dominates it; what a phi reads is defined before the end   *)
(* of the predecessor.  Phis begin a block; nothing reads a terminator.    *)
Terminators == {"BRANCH", "RET", "IF"}
DefinedAbove(p, g, v, b) ==
  \E d \in Nodes \ {b} : v \in Range(p.code[d]) /\ Dominates(g, Entry, d, b)
SSA(p, g) ==
  /\ p.code \in [Nodes -> Seq(Ids)]
  /\ \A b, c \in Nodes : \A j \in DOMAIN p.code[b], k \in DOMAIN p.code[c] :
       p.code[b][j] = p.code[c][k] => b = c /\ j = k
  /\ \A b \in Nodes : \A k \in DOMAIN p.code[b] :
       LET i == p.code[b][k] IN
       IF p.op[i] = "PHI"
       THEN /\ \A j \in 1 .. k : p.op[p.code[b][j]] = "PHI"
            /\ \A q \in Range(p.vars[i]) :
                 /\ p.op[q[1]] \notin Terminators
                 /\ q[1] \in Range(p.code[q[2]]) \/ DefinedAbove(p, g, q[1], q[2])
       ELSE \A v \in Range(p.inputs[i]) :
              /\ p.op[v] \notin Terminators
              /\ (\E j \in 1 .. k - 1 : p.code[b][j] = v) \/ DefinedAbove(p, g, v, b)
ASSUME ProgramsAssumption == \A g \in Graphs : \A p \in Programs(g) : SSA(p, g)

VARIABLES
  live_stage,  \* "none", then the parts of calc_life_ranges, then "done"
  program,
  ord_it,      \* the block of m_linear_order that is processed
  ins_it,      \* its instruction that process_instrs is at
  m_intervals, \* value -> its interval [b, e)
  m_live_sets  \* block -> the values live into it

live_vars == <<live_stage, program, ord_it, ins_it, m_intervals, m_live_sets>>
every_var == <<all_vars, live_vars>>

code(b) == program.code[b]
Here == m_linear_order[ord_it]
Instr == code(Here)[ins_it]
IsPhi(i) == program.op[i] = "PHI"

(* init_linear_num: instructions have even numbers along the order; those  *)
(* of a phi is the one its block begins with.                              *)
NonPhis(b, k) == Cardinality({j \in 1 .. k : ~IsPhi(code(b)[j])})
BbEnd[k \in 0 .. Len(m_linear_order)] ==
  IF k = 0 THEN 0
  ELSE LET b == m_linear_order[k] IN BbEnd[k - 1] + 2 * NonPhis(b, Len(code(b))) + 2
BbInterval(b) == [b |-> BbEnd[Pos(b) - 1], e |-> BbEnd[Pos(b)]]
live(b, k) == BbInterval(b).b + IF IsPhi(code(b)[k]) THEN 0 ELSE 2 * NonPhis(b, k)

(* set_live_interval, for each value in V.                                 *)
Update(old, new) == [b |-> Min({old.b, new.b}), e |-> Max({old.e, new.e})]
WithInterval(map, V, new) ==
  [v \in DOMAIN map \cup V |->
     IF v \notin V THEN map[v] ELSE IF v \notin DOMAIN map THEN new ELSE Update(map[v], new)]

(* The interval an instruction gets at its definition.                     *)
Defined(map, i, n) ==
  [v \in DOMAIN map \cup {i} |->
     IF v # i THEN map[v] ELSE IF i \in DOMAIN map THEN [map[i] EXCEPT !.b = n]
                               ELSE [b |-> n, e |-> n + 2]]

(* init_live_set: what is live into the successors that are processed, and *)
(* what their phis read from here; b counts as processed, with nothing.    *)
PhiReads(b, c) ==
  UNION {{p[1] : p \in {q \in Range(program.vars[i]) : q[2] = b}} :
           i \in {j \in Range(code(c)) : IsPhi(j)}}
LiveSet(c) == IF c \in DOMAIN m_live_sets THEN m_live_sets[c] ELSE {}
InitLiveSet_NoPhis(b) == UNION {LiveSet(c) : c \in Range(succs[b])}     \* mutant
InitLiveSet(b) ==
  UNION {LiveSet(c) \cup PhiReads(b, c) :
           c \in Range(succs[b]) \cap (DOMAIN m_live_sets \cup {b})}

-----------------------------------------------------------------------------
AInit ==
  /\ LInit
  /\ live_stage = "none" /\ program = << >>
  /\ ord_it = 0 /\ ins_it = 0
  /\ m_intervals = [v \in {} |-> 0] /\ m_live_sets = [b \in {} |-> {}]

BuildOrder == LStep /\ UNCHANGED live_vars

Start ==
  /\ Ordered /\ live_stage = "none"
  /\ program' \in Programs(succs)
  /\ live_stage' = "block"
  /\ ord_it' = Len(m_linear_order)
  /\ UNCHANGED <<all_vars, ins_it, m_intervals, m_live_sets>>

(* The blocks are processed backwards; what is live into a successor is    *)
(* live in all of the block.                                               *)
EnterBlock ==
  /\ live_stage = "block" /\ ord_it > 0
  /\ live_stage' = "instrs"
  /\ LET set == InitLiveSet(Here)
     IN /\ m_live_sets' = [b \in DOMAIN m_live_sets \cup {Here} |->
                             IF b = Here THEN set ELSE m_live_sets[b]]
        /\ m_intervals' = WithInterval(m_intervals, set, BbInterval(Here))
  /\ ins_it' = Len(code(Here))
  /\ UNCHANGED <<all_vars, program, ord_it>>

ProcessInstr ==
  /\ live_stage = "instrs" /\ ins_it > 0 /\ ~IsPhi(Instr)
  /\ LET n   == live(Here, ins_it)
         ins == Range(program.inputs[Instr])
     IN /\ m_intervals' = WithInterval(Defined(m_intervals, Instr, n), ins,
                                       [b |-> BbInterval(Here).b, e |-> n])
        /\ m_live_sets' = [m_live_sets EXCEPT ![Here] = (@ \ {Instr}) \cup ins]
  /\ ins_it' = ins_it - 1
  /\ UNCHANGED <<all_vars, live_stage, program, ord_it>>

(* At the first phi from the end, or the beginning, of the block: its phis *)
(* are not live into it, and in the header of a loop what is live into it  *)
(* is live in all of the loop.                                             *)
LiveInto_PhisKept(b) == m_live_sets[b]                            \* mutant
LiveInto(b) == m_live_sets[b] \ {i \in Range(code(b)) : IsPhi(i)}
LoopEnd(l) == Max({0} \cup {BbInterval(c).e : c \in Range(m_loops[l].body)})
LeaveBlock ==
  /\ live_stage = "instrs" /\ (ins_it > 0 => IsPhi(Instr))
  /\ LET set == LiveInto(Here)
     IN /\ m_live_sets' = [m_live_sets EXCEPT ![Here] = set]
        /\ m_intervals' = IF StartsLoop(Here)
                          THEN WithInterval(m_intervals, set, [b |-> BbInterval(Here).b,
                                                               e |-> LoopEnd(loop_of[Here])])
                          ELSE m_intervals
  /\ live_stage' = "block" /\ ord_it' = ord_it - 1
  /\ UNCHANGED <<all_vars, program, ins_it>>

(* Terminators have no value; their intervals are empty.                   *)
FillEmpty ==
  /\ live_stage = "block" /\ ord_it = 0
  /\ live_stage' = "done"
  /\ m_intervals' = [v \in DOMAIN m_intervals |->
                       IF program.op[v] \in Terminators
                       THEN [m_intervals[v] EXCEPT !.e = m_intervals[v].b] ELSE m_intervals[v]]
  /\ UNCHANGED <<all_vars, program, ord_it, ins_it, m_live_sets>>

AStopped == live_stage = "done" \/ (stage = "dom3" /\ phase \in {"threw", "undefined"})
ADone == AStopped /\ UNCHANGED every_var

AStep == BuildOrder \/ Start \/ EnterBlock \/ ProcessInstr \/ LeaveBlock \/ FillEmpty
ANext == AStep \/ ADone
ASpec == AInit /\ [][ANext]_every_var /\ WF_every_var(AStep)

-----------------------------------------------------------------------------
(* The type invariant; an interval does not end before it begins.          *)
ATypeOK ==
  /\ live_stage \in {"none", "block", "instrs", "done"}
  /\ ord_it \in 0 .. Len(m_linear_order)
  /\ DOMAIN m_intervals \subseteq Ids
  /\ \A v \in DOMAIN m_intervals :
       m_intervals[v].b \in 0 .. m_intervals[v].e /\ m_intervals[v].e \in Nat
  /\ DOMAIN m_live_sets \subseteq Reached
  /\ \A b \in DOMAIN m_live_sets : m_live_sets[b] \subseteq Ids

DefBlock(v) == CHOOSE b \in Nodes : v \in Range(code(b))

(* A value live into a block is defined in another one, on every path to   *)
(* it: along whatever order the live sets are made, no definition is       *)
(* passed (liveness_analyzer.hh:176-225, 262-267).                         *)
LiveSetsDominated ==
  live_stage \in {"block", "done"} =>
    \A b \in DOMAIN m_live_sets : \A v \in m_live_sets[b] :
      DefBlock(v) # b /\ Dom(DefBlock(v), b)

(* What is live: v is read on a path from here that does not pass its      *)
(* definition.  A phi reads at the end of the predecessor; with over TRUE  *)
(* also over back edges.                                                   *)
ReadIn(v, b) == \E i \in Range(code(b)) : ~IsPhi(i) /\ v \in Range(program.inputs[i])
ReadByPhi(v, b, over) ==
  \E c \in Range(succs[b]) : (<<b, c>> \in backEdges => over) /\ v \in PhiReads(b, c)
LiveIn(v, b, over) ==
  \E u \in ReachAvoiding(succs, {b}, {DefBlock(v)}) : ReadIn(v, u) \/ ReadByPhi(v, u, over)
LiveOut(v, b, over) ==
  ReadByPhi(v, b, over) \/ \E c \in Range(succs[b]) : LiveIn(v, c, over)
LiveAfter(v, b, k, over) ==
  /\ (\E j \in 1 .. k : code(b)[j] = v) \/ LiveIn(v, b, over)
  /\ \/ LiveOut(v, b, over)
     \/ \E j \in k + 1 .. Len(code(b)) : ~IsPhi(code(b)[j]) /\ v \in Range(program.inputs[code(b)[j]])

(* The interval of each value contains every instruction after which it is *)
(* live.                                                                   *)
Covered(over) ==
  \A b \in Reached : \A k \in DOMAIN code(b), v \in UNION {Range(code(c)) : c \in Nodes} :
    LiveAfter(v, b, k, over) =>
      /\ v \in DOMAIN m_intervals
      /\ live(b, k) \in m_intervals[v].b .. m_intervals[v].e - 1

(* What the algorithm relies on: dominators come first in the order, and   *)
(* every loop is recognised as reducible.  No graph with nested loops is   *)
(* well ordered: LinearOrder has the inner header, which is in the body    *)
(* of no other loop, behind the latches of the outer one.                  *)
WellOrdered ==
  /\ Reducible /\ KnownReducible /\ OneRoleEach
  /\ \A b, c \in Reached : IsEdge(succs, b, c) /\ <<b, c>> \notin backEdges => Pos(b) < Pos(c)

(* Then the intervals contain what is live, loops included, except for     *)
(* what only a phi reads over a back edge (liveness_analyzer.hh:99-279):   *)
(* two values that are live together have intervals that overlap, and the  *)
(* register allocator gives them different locations.                      *)
LiveValuesCovered == live_stage = "done" /\ WellOrdered => Covered(FALSE)

(* Without the exception.  Does not hold: init_live_set passes over the     *)
(* header a latch jumps back to (liveness_analyzer.hh:204-221).            *)
PhiInputsCovered == live_stage = "done" /\ WellOrdered => Covered(TRUE)
==============================================================================
