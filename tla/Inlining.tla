------------------------------- MODULE Inlining -------------------------------
(***************************************************************************)
(* The pass of include/opt_passes/inlining.hh: the blocks of a callee are  *)
(* moved to the place of the call, one call after the other.  The caller   *)
(* is changed in five stages that each leave the graph half done.          *)
(***************************************************************************)
EXTENDS Blocks, RecursiveSearch

CONSTANTS
  Ids, BBs, Funcs, None,
  NewIds,            \* the instructions that are not made yet, in order
  Caller,            \* the function the pass runs on
  kInlineInstrSize,
  Programs,          \* what can be compiled
  Source(_)          \* what it consists of: blocks, body, code, inputs and types

VARIABLES
  program,
  g, code, chains,
  m_instrs,          \* the calls still to be looked at, in order
  stage,
  call,              \* the one that is being inlined
  cont               \* call_cont_bb

vars == <<program, g, code, chains, m_instrs, stage, call, cont>>

Op(i) == code[i].op
Callee == code[call].callee
HeadOf(f) == Head(g.blocks[f])
BlockOf(i) == CHOOSE b \in BBs : Contains(g.body[b], i)
Unused == SelectSeq(NewIds, LAMBDA i : Op(i) = "NONE")

(* A program as the builder leaves it: a terminator is linked as it is made. *)
Built(p) ==
  LET listed == FlattenSeq(SetToSeq({p.blocks[f] : f \in Funcs}))
      idle   == [blocks  |-> p.blocks, body |-> p.body, defined |-> TRUE,
                 parent  |-> [b \in BBs |-> IF Contains(listed, b)
                               THEN CHOOSE f \in Funcs : Contains(p.blocks[f], b) ELSE None],
                 bb_id   |-> [b \in BBs |-> 0],
                 preds   |-> [b \in BBs |-> << >>], succs |-> [b \in BBs |-> << >>]]
  IN FoldLeft(LAMBDA h, b : LinkTargets(h, b, TargetsOf(h, p.code, b)), idle, listed)

(* Function::splice is followed by new ids for the blocks of the caller. *)
Renumber(h) ==
  [h EXCEPT !.bb_id = [b \in BBs |-> IF Contains(h.blocks[Caller], b)
                         THEN (CHOOSE k \in DOMAIN h.blocks[Caller] : h.blocks[Caller][k] = b) - 1
                         ELSE h.bb_id[b]]]

(* run: all calls of the caller have been visited. *)
Init ==
  \E p \in Programs :
    LET s == Source(p)
        h == Built(s)
        order == rpo(h.succs, Head(s.blocks[Caller]))
    IN /\ program = p
       /\ g = Renumber(h) /\ code = s.code
       /\ chains = ChainsOf(s.inputs, {i \in Ids : s.code[i].op # "NONE"})
       /\ m_instrs = SelectSeq(FlattenSeq([k \in DOMAIN order |-> h.body[order[k]]]),
                               LAMBDA i : s.code[i].op = "CALL")
       /\ stage = "next" /\ call = None /\ cont = None

-----------------------------------------------------------------------------
(* optimize                                                                *)

is_really_need_inlining(f) ==
  Len(FlattenSeq([k \in DOMAIN g.blocks[f] |-> g.body[g.blocks[f][k]]])) < kInlineInstrSize

Stage(from, to) == g.defined /\ stage = from /\ stage' = to /\ UNCHANGED program

Skip ==
  /\ Stage("next", "next") /\ m_instrs # << >>
  /\ ~is_really_need_inlining(code[Head(m_instrs)].callee)
  /\ m_instrs' = Tail(m_instrs)
  /\ UNCHANGED <<g, code, chains, call, cont>>

Split ==
  /\ Stage("next", "parameters") /\ m_instrs # << >>
  /\ is_really_need_inlining(code[Head(m_instrs)].callee)
  /\ call' = Head(m_instrs) /\ m_instrs' = Tail(m_instrs)
  /\ cont' = CHOOSE b \in BBs : g.parent[b] = None
  /\ g' = split_bb_after(g, code, BlockOf(call'), call', cont')
  /\ UNCHANGED <<code, chains>>

(* The users of each parameter become those of the argument; the front of  *)
(* an empty list is none.                                                  *)
update_parameters ==
  /\ Stage("parameters", "return")
  /\ IF g.blocks[Callee] = << >>
     THEN g' = [g EXCEPT !.defined = FALSE] /\ UNCHANGED chains
     ELSE LET root         == HeadOf(Callee)
              input_params == SelectSeq(g.body[root], LAMBDA i : Op(i) = "PARAM")
          IN /\ chains' = FoldLeftDomain(
                            LAMBDA c, k : ReplaceUsers(c, c.inputs[call][k], input_params[k]),
                            chains, input_params)
             /\ g' = FoldLeft(LAMBDA h, i : EraseInstr(h, root, i), g, input_params)
  /\ UNCHANGED <<code, m_instrs, call, cont>>

(* The returns in reverse postorder, each replaced by a branch; their      *)
(* values, or a phi of them, get the users of the call.                    *)
callee_return_OfHead ==                                           \* mutant
  SelectSeq(<<Last(g.body[HeadOf(Callee)])>>, LAMBDA i : Op(i) = "RET")
callee_return ==
  LET order == rpo(g.succs, HeadOf(Callee))
  IN SelectSeq([k \in DOMAIN order |-> Last(g.body[order[k]])], LAMBDA i : Op(i) = "RET")
Retval(ret) == chains.inputs[ret][1]

(* The new instructions are ids of Ids that were unused. *)
Phi == Unused[1]
Branch(k) == Unused[k + 1]
NewInstrs(rets, isPhi) ==
  LET pairs == [k \in DOMAIN rets |-> <<Retval(rets[k]), BlockOf(rets[k])>>]
  IN [i \in Ids |->
        CASE isPhi /\ i = Phi -> [code[i] EXCEPT !.op = "PHI", !.vars = pairs]
          [] \E k \in DOMAIN rets : i = Branch(k) -> [code[i] EXCEPT !.op = "BRANCH", !.to = <<cont>>]
          [] OTHER -> code[i]]

(* The value of the call: the value of the only return, or the new phi. *)
WithPhi(rets) == FoldLeft(LAMBDA c, r : AddInput(c, Phi, Retval(r)), chains, rets)
ReplaceCall_PhiUnused(rets) ==                                    \* mutant
  IF Len(rets) = 1 THEN ReplaceUsers(chains, Retval(rets[1]), call) ELSE WithPhi(rets)
ReplaceCall(rets) ==
  IF Len(rets) = 1 THEN ReplaceUsers(chains, Retval(rets[1]), call)
  ELSE ReplaceUsers(WithPhi(rets), Phi, call)

update_return ==
  /\ Stage("return", "merge")
  /\ IF Source(program).types[Callee] = "NONE" THEN UNCHANGED <<g, code, chains>>
     ELSE LET rets  == callee_return
              isPhi == Len(rets) # 1
              Replaced(h, k) == LET b == BlockOf(rets[k])
                                IN PushBack(EraseInstr(h, b, rets[k]), code', b, Branch(k))
          IN /\ code' = NewInstrs(rets, isPhi)
             /\ chains' = FoldLeft(CleanInputs, ReplaceCall(rets), rets)
             /\ g' = FoldLeftDomain(Replaced, IF isPhi THEN PushFront(g, cont, Phi) ELSE g, rets)
  /\ UNCHANGED <<m_instrs, call, cont>>

(* The head of the callee goes to the end of the block with the call, and  *)
(* is deleted.                                                             *)
merge ==
  /\ Stage("merge", "move")
  /\ LET head == HeadOf(Callee)
     IN g' = [SpliceToEnd(g, code, BlockOf(call), head, 0) EXCEPT !.blocks[Callee] = Tail(@)]
  /\ UNCHANGED <<code, chains, m_instrs, call, cont>>

(* The block before which the others go is in the list of some function. *)
make_inline ==
  /\ Stage("move", "next")
  /\ chains' = CleanInputs(chains, call)
  /\ g' = LET f == CHOOSE f \in Funcs : Contains(g.blocks[f], cont)
          IN Renumber(SpliceBlocks(EraseInstr(g, BlockOf(call), call), f, cont, Callee))
  /\ UNCHANGED <<code, m_instrs, call, cont>>

Next == Skip \/ Split \/ update_parameters \/ update_return \/ merge \/ make_inline
Spec == Init /\ [][Next]_vars

-----------------------------------------------------------------------------
(* Properties                                                              *)

Done == g.defined /\ stage = "next" /\ m_instrs = << >>
Before == Source(program)
WasIn(f, i) == \E b \in ToSet(Before.blocks[f]) : Contains(Before.body[b], i)
Calls == {i \in Ids : Before.code[i].op = "CALL" /\ WasIn(Caller, i)}
Inlined == {c \in Calls : ~\E b \in BBs : Contains(g.body[b], c)}

(***************************************************************************)
(* The programs the pass is right for: a block with a call ends the        *)
(* function, and the callee is not the callee of another call, has a value *)
(* and is not a loop from its head.  For the others see the README.        *)
(***************************************************************************)
FitToInline ==
  LET Ends(b)   == TargetsOf(Before, Before.code, b)
      HeadOf0(f) == Head(Before.blocks[f])
      Callee0(c) == Before.code[c].callee
  IN \A c \in Calls :
       /\ \A b \in BBs : Contains(Before.body[b], c) => Ends(b) = << >>
       /\ \A d \in Calls \ {c} : Callee0(c) # Callee0(d)
       /\ Before.types[Callee0(c)] # "NONE"
       /\ \A b \in BBs : ~Contains(Ends(b), HeadOf0(Callee0(c)))

(***************************************************************************)
(* What is executed next, for both sides: from an instruction to the next  *)
(* of its block or to the first of a block its terminator leads to.        *)
(***************************************************************************)
Following(body, c, i) ==
  LET b == CHOOSE b \in BBs : Contains(body[b], i)
      k == CHOOSE k \in DOMAIN body[b] : body[b][k] = i
  IN IF k < Len(body[b]) THEN {body[b][k + 1]} ELSE {body[t][1] : t \in ToSet(c[i].to)}

(* In the program a call that was inlined is followed by the callee, and a *)
(* return of the callee by what follows the call.                          *)
FollowingInProgram(i) ==
  IF i \in Inlined THEN {Before.body[Head(Before.blocks[Before.code[i].callee])][1]}
  ELSE LET calls == {c \in Inlined : WasIn(Before.code[c].callee, i)}
       IN IF Before.code[i].op = "RET" /\ calls # {}
          THEN UNION {Following(Before.body, Before.code, c) : c \in calls}
          ELSE Following(Before.body, Before.code, i)

(* Calls, parameters and returns that inlining removes, and what it adds,  *)
(* do nothing themselves.                                                  *)
Visible ==
  {i \in Ids : /\ Before.code[i].op \notin {"NONE", "BRANCH"}
               /\ i \notin Inlined
               /\ Before.code[i].op \in {"PARAM", "RET"} =>
                    ~\E c \in Inlined : WasIn(Before.code[c].callee, i)}
NextVisible(After(_), i) ==
  LET reach[k \in 0 .. Cardinality(Ids)] ==
        IF k = 0 THEN After(i)
        ELSE LET r == reach[k - 1] IN r \cup UNION {After(j) : j \in r \ Visible}
  IN reach[Cardinality(Ids)] \cap Visible

(***************************************************************************)
(* A caller that is fit executes after the pass what it did with its calls *)
(* carried out: the same instructions in the same orders, along all paths  *)
(* (inlining.hh:92-191), and nothing the pass does to it is undefined.     *)
(***************************************************************************)
PathsKept ==
  FitToInline =>
    /\ g.defined
    /\ Done => \A i \in {j \in Visible : \E b \in ToSet(g.blocks[Caller]) : Contains(g.body[b], j)} :
                 NextVisible(LAMBDA j : Following(g.body, code, j), i) = NextVisible(FollowingInProgram, i)

EdgesInto(b) == {u \in ToSet(g.blocks[Caller]) : Contains(TargetsOf(g, code, u), b)}
SuccsAgree(b) == g.succs[b] = TargetsOf(g, code, b)

(***************************************************************************)
(* Preds and succs of a block of a caller that is fit are those the        *)
(* terminators make, but for the head of a callee, which stays a           *)
(* predecessor of its successors after it is deleted (inlining.hh:145-148).*)
(* And each block control may reach is in the list of the caller, by the   *)
(* length of which the analyses size their arrays.                         *)
(***************************************************************************)
Heads == {Head(Before.blocks[Before.code[c].callee]) : c \in Inlined}
LinksAgreeButForHeads ==
  Done /\ FitToInline =>
    \A b \in ToSet(g.blocks[Caller]) :
      /\ SuccsAgree(b) /\ ToSet(g.succs[b]) \subseteq ToSet(g.blocks[Caller])
      /\ EdgesInto(b) \subseteq ToSet(g.preds[b])
      /\ ToSet(g.preds[b]) \subseteq EdgesInto(b) \cup Heads

(***************************************************************************)
(* An operand that was a parameter is the argument of the call, and one    *)
(* that was an inlined call is the value of its only return or a phi of    *)
(* the values of all, which its inputs and its m_vars agree on, with an    *)
(* entry for each block that leads to the rest of the caller; the sides of *)
(* every use agree (inlining.hh:61-137).                                   *)
(***************************************************************************)
Returns(f) == {i \in Ids : Before.code[i].op = "RET" /\ WasIn(f, i)}
Operand[v \in Ids] ==
  LET calls == {c \in Inlined : WasIn(Before.code[c].callee, v)}
  IN CASE Before.code[v].op = "PARAM" /\ calls # {} ->
            LET c      == CHOOSE c \in calls : TRUE
                params == SelectSeq(Before.body[Head(Before.blocks[Before.code[c].callee])],
                                    LAMBDA i : Before.code[i].op = "PARAM")
            IN Operand[Before.inputs[c][CHOOSE k \in DOMAIN params : params[k] = v]]
       [] v \in Inlined /\ Cardinality(Returns(Before.code[v].callee)) = 1 ->
            Operand[Before.inputs[CHOOSE r \in Returns(Before.code[v].callee) : TRUE][1]]
       [] OTHER -> v
IsPhiOf(i, c) ==
  /\ Op(i) = "PHI"
  /\ \A values \in {ToSet(chains.inputs[i]), {v[1] : v \in ToSet(code[i].vars)}} :
       values = {Operand[Before.inputs[r][1]] : r \in Returns(Before.code[c].callee)}
  /\ {v[2] : v \in ToSet(code[i].vars)} = EdgesInto(BlockOf(i))
DataFlowKept ==
  Done /\ FitToInline =>
    /\ \A i \in Visible : \A k \in DOMAIN chains.inputs[i] :
         LET v == Operand[Before.inputs[i][k]]
         IN IF v \in Inlined THEN IsPhiOf(chains.inputs[i][k], v) ELSE chains.inputs[i][k] = v
    /\ \A v \in Ids : chains.users[v] = {i \in Ids : Reads(chains, i, v)}
===============================================================================
