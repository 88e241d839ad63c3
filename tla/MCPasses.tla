------------------------------- MODULE MCPasses -------------------------------
(***************************************************************************)
(* Model checking instances of Passes: b1 goes to b2, which goes to b3 and *)
(* b4.  Arithmetic, checks, and both.                                      *)
(***************************************************************************)
EXTENDS Passes

RpoBlocks == <<"b1", "b2", "b4", "b3">>
TreeOfRpo == {<<"b1", b>> : b \in {"b2", "b3", "b4"}} \cup {<<"b2", b>> : b \in {"b3", "b4"}}

None == [op |-> "NONE", ty |-> "I64", val |-> 0, bb |-> "b1", pos |-> 0]
Instr(op, ty, val, bb, pos) == [op |-> op, ty |-> ty, val |-> val, bb |-> bb, pos |-> pos]

(* The instructions is with the operands args, the other ids to spare. *)
Program(is, args) ==
  [live   |-> DOMAIN is,
   code   |-> [i \in Ids |-> IF i \in DOMAIN is THEN is[i] ELSE None],
   inputs |-> [i \in Ids |-> IF i \in DOMAIN is THEN args[i] ELSE << >>]]

Phi == <<"PHI", 0>>
Const(v) == <<"CONST", v>>
Leaf(ty, v, pos) == Instr(v[1], ty, v[2], "b1", pos)

(* Two values, an operation on them, one on its result, both returned. *)
Arithmetic(ty, values, ops, more) ==
  LET leaves == {Const(v) : v \in values} \cup {Phi}
  IN {"arithmetic"} \X {ty} \X leaves \X leaves \X ops \X more
     \X {<<1, 2>>, <<1, 1>>} \X {<<3, 1>>, <<3, 3>>, <<2, 3>>}

(* Three checks of two values, anywhere. *)
CheckKinds == {"NULL_CHECK"} \X {<<1>>} \cup {"BOUNDS_CHECK"} \X {<<1, 2>>, <<2, 1>>, <<1, 1>>}
OnlyChecks == {"checks"} \X CheckKinds \X CheckKinds \X CheckKinds \X [1 .. 3 -> BBs]

(* Checks of a value, of what is computed from it and of a constant. *)
MixedKinds == {"NULL_CHECK"} \X {<<1>>, <<2>>, <<3>>} \cup {"BOUNDS_CHECK"} \X {<<1, 3>>}
Mixed == {"mixed"} \X {0, 1} \X {"MUL", "SHR", "XOR", "SUB"}
         \X {<<1, 2>>, <<1, 1>>, <<2, 2>>} \X MixedKinds \X MixedKinds

SourceOf(p) ==
  CASE p[1] = "arithmetic" ->
         Program(<<Leaf(p[2], p[3], 1), Leaf(p[2], p[4], 2), Instr(p[5], p[2], 0, "b1", 3),
                   Instr(p[6], p[2], 0, "b2", 1), Instr("RET", p[2], 0, "b3", 1),
                   Instr("RET", p[2], 0, "b4", 1)>>,
                 <<<< >>, << >>, p[7], p[8], <<3>>, <<4>> >>)
    [] p[1] = "checks" ->
         Program([i \in 1 .. 5 |-> IF i < 3 THEN Leaf("I64", Phi, i)
                                   ELSE Instr(p[i - 1][1], "I64", 0, p[5][i - 2], i)],
                 [i \in 1 .. 5 |-> IF i < 3 THEN << >> ELSE p[i - 1][2]])
    [] p[1] = "mixed" ->
         Program(<<Leaf("I64", Phi, 1), Leaf("I64", Const(p[2]), 2), Instr(p[3], "I64", 0, "b1", 3),
                   Instr(p[5][1], "I64", 0, "b1", 4), Instr(p[6][1], "I64", 0, "b3", 5),
                   Instr("RET", "I64", 0, "b3", 6)>>,
                 <<<< >>, << >>, p[4], p[5][2], p[6][2], <<3>> >>)

AllPrograms ==
  Arithmetic("I8", {-128, 0, 1, 3}, BinaryOps, {"MUL", "SHR", "XOR"})
  \cup Arithmetic("I64", {-4, 0, 1}, BinaryOps, {"ADD", "DIV", "LE", "GE"})
  \cup Arithmetic("I1", {0, 1}, {"MUL", "XOR", "EQ"}, {"MUL", "XOR", "EQ"})
  \cup OnlyChecks \cup Mixed
TwoOrders == {<<"peephole", "fold", "checks">>, <<"fold", "peephole", "checks">>}
===============================================================================
