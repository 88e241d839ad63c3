-------------------------------- MODULE Passes --------------------------------
(***************************************************************************)
(* The passes of include/opt_passes that change instructions, run by a     *)
(* PassManager one after the other on the same function: Peephole,         *)
(* ConstantFold and ChecksElimination.  What one leaves behind the next    *)
(* one reads.                                                              *)
(*                                                                         *)
(* A step is an iteration of the loop of optimize or eliminate; where the  *)
(* code reads an instruction it has deleted, casts one to a class it does  *)
(* not have, or returns no value from a function that has one, the run     *)
(* ends as undefined.  The asserts are those of a release build, that is   *)
(* none.                                                                   *)
(***************************************************************************)
EXTENDS ChecksElimination, Bitwise

CONSTANT Orders  \* what has been registered: sequences of passes

VARIABLES
  pass,       \* the one that runs
  queue,      \* those still to be run
  undefined,
  program     \* the function, Source(program) before the first pass

vars == <<live, code, chains, m_instrs, pass, queue, undefined, program>>

BinaryOps == {"ADD", "SUB", "MUL", "DIV", "SHR", "XOR", "EQ", "LE", "GE"}
Unfoldable == {"NONE", "RET", "BRANCH", "IF", "PHI", "CONST"}

(* visit_instr. *)
WorksOn(p, op) == CASE p = "peephole" -> op \in {"MUL", "SHR", "XOR"}
                    [] p = "fold"     -> op \notin Unfoldable
                    [] p = "checks"   -> op \in CheckOps

Start ==
  \E p \in Programs, order \in Orders :
    Load(p) /\ m_instrs = {} /\ pass = "none" /\ queue = order /\ undefined = FALSE /\ program = p

Run ==
  /\ m_instrs = {} /\ queue # << >>
  /\ pass' = Head(queue) /\ queue' = Tail(queue)
  /\ m_instrs' = {i \in live : WorksOn(Head(queue), Op(i))}
  /\ UNCHANGED <<live, code, chains, undefined, program>>

-----------------------------------------------------------------------------
(* What happens to the instruction i that is looked at.                    *)

IsConst(v) == Op(v) = "CONST"
Value(v) == code[v].val
Type(v) == code[v].ty
Stale(v) == chains.users[v] \ live # {}

Keep == UNCHANGED <<live, code, chains>>

(* replace_users and erase. *)
ReplaceByOperand_NotCleaned(i) ==                                 \* mutant
  /\ chains' = ReplaceUsers(chains, Input(i, 1), i)
  /\ live' = live \ {i}
  /\ UNCHANGED code
ReplaceByOperand(i) ==
  /\ chains' = CleanInputs(ReplaceUsers(chains, Input(i, 1), i), i)
  /\ live' = live \ {i}
  /\ UNCHANGED code

(* BasicBlock::replace_instr by a constant, an id of Ids that was unused;  *)
(* c is the chains it finds.                                               *)
ReplaceByConstant(c, i, ty, val) ==
  LET new == CHOOSE z \in Ids : Op(z) = "NONE"
  IN /\ code' = [code EXCEPT ![new] = [op |-> "CONST", ty |-> ty, val |-> val,
                                       bb |-> code[i].bb, pos |-> code[i].pos]]
     /\ chains' = ReplaceUsers(c, new, i)
     /\ live' = (live \ {i}) \cup {new}

(* x * 1, x >> 0 and x ^ 0; x ^ x and the xor of constants of one type and value. *)
IsNeutral_First(i) ==                                             \* mutant
  IsConst(Input(i, 1)) /\ Value(Input(i, 1)) = IF Op(i) = "MUL" THEN 1 ELSE 0
IsNeutral(i) ==
  IsConst(Input(i, 2)) /\ Value(Input(i, 2)) = IF Op(i) = "MUL" THEN 1 ELSE 0
IsZero(i) ==
  LET l == Input(i, 1)
      r == Input(i, 2)
  IN /\ Op(i) = "XOR"
     /\ \/ l = r
        \/ IsConst(l) /\ IsConst(r) /\ Type(l) = Type(r) /\ Value(l) = Value(r)

(* process_mul, process_shr and process_xor; of an xor both patterns are   *)
(* tried, the second after the instruction is gone on account of the       *)
(* first, and the second does not clean its inputs.                        *)
Peephole(i) ==
  \/ Keep /\ (chains.users[i] = {} \/ ~(IsNeutral(i) \/ IsZero(i)))
  \/ IsNeutral(i) /\ chains.users[i] # {} /\ ReplaceByOperand(i)
  \/ IsZero(i) /\ chains.users[i] # {} /\ ReplaceByConstant(chains, i, "I64", 0)
PeepholeUndefined(i) ==
  /\ chains.users[i] # {}
  /\ \/ IsNeutral(i) /\ (IsZero(i) \/ Stale(i) \/ Stale(Input(i, 1)))
     \/ IsZero(i) /\ Stale(i)

(* eval_binary_operation: C++ arithmetic, its result converted to the type *)
(* of the instruction (a 64 bit result never overflows here, TLC has 32).  *)
Wrap(ty, x) == CASE ty = "I1"  -> IF x = 0 THEN 0 ELSE 1
                 [] ty = "I8"  -> ((x + 128) % 256) - 128
                 [] ty = "I64" -> x
Digits == [I1 |-> 1, I8 |-> 7, I64 |-> 63]
AsInt(b) == IF b THEN 1 ELSE 0
Abs(x) == IF x < 0 THEN -x ELSE x
Quotient(l, r) == (IF (l < 0) = (r < 0) THEN 1 ELSE -1) * (Abs(l) \div Abs(r))
ShiftRight(l, r) == IF r > 30 THEN -AsInt(l < 0) ELSE l \div 2^r
XorBits(l, r) == LET magnitude(x) == IF x < 0 THEN -x - 1 ELSE x
                 bits == magnitude(l) ^^ magnitude(r)
             IN IF (l < 0) = (r < 0) THEN bits ELSE -bits - 1

(* Without the asserts a DIV by zero falls into the case SHR, a SHR out of *)
(* range into XOR; LE and GE are strict.                                   *)
Result(op, ty, l, r) ==
  CASE op = "ADD" -> l + r
    [] op = "SUB" -> l - r
    [] op = "MUL" -> l * r
    [] op = "DIV" -> IF r # 0 THEN Quotient(l, r) ELSE ShiftRight(l, r)
    [] op = "SHR" -> IF r \in 0 .. Digits[ty] - 1 THEN ShiftRight(l, r) ELSE XorBits(l, r)
    [] op = "XOR" -> XorBits(l, r)
    [] op = "EQ"  -> AsInt(l = r)
    [] op = "LE"  -> AsInt(l < r)
    [] op = "GE"  -> AsInt(l > r)
Folded(i) ==
  Wrap(Type(i), Result(Op(i), Type(i), Value(Input(i, 1)), Value(Input(i, 2))))

Foldable_Some(i) ==                                               \* mutant
  \E k \in DOMAIN chains.inputs[i] : IsConst(Input(i, k))
Foldable(i) == \A k \in DOMAIN chains.inputs[i] : IsConst(Input(i, k))
Fold(i) ==
  IF Foldable(i) THEN ReplaceByConstant(CleanInputs(chains, i), i, Type(i), Folded(i)) ELSE Keep
(* The operands are cast to constants of the type of the instruction; the  *)
(* zero of an xor is one of 64 bits.                                       *)
MiscastOperand(i) == \E k \in DOMAIN chains.inputs[i] : Type(Input(i, k)) # Type(i)
FoldUndefined(i) == Foldable(i) /\ (Op(i) \notin BinaryOps \/ Stale(i) \/ MiscastOperand(i))

Optimize(i) ==
  /\ \/ pass = "peephole" /\ ~PeepholeUndefined(i) /\ Peephole(i)
     \/ pass = "fold" /\ ~FoldUndefined(i) /\ Fold(i)
  /\ IsFirst(code, Rpo, m_instrs, i)
  /\ m_instrs' = m_instrs \ {i}

(* The search for a user ends at the first that fits, so that it may, and  *)
(* if none fits must, meet one that was deleted.                           *)
Check(i) == pass = "checks" /\ (Stale(Input(i, 1)) => Redundant(i)) /\ Eliminate(i)

Undefined(i) ==
  /\ IsFirst(code, Rpo, m_instrs, i)
  /\ \/ pass = "peephole" /\ PeepholeUndefined(i)
     \/ pass = "fold" /\ FoldUndefined(i)
     \/ pass = "checks" /\ Stale(Input(i, 1))
  /\ undefined' = TRUE /\ queue' = << >> /\ m_instrs' = {}
  /\ UNCHANGED <<live, code, chains, pass, program>>

Work == \E i \in m_instrs : Optimize(i) \/ Check(i)
RunNext ==
  \/ Run
  \/ Work /\ UNCHANGED <<pass, queue, undefined, program>>
  \/ \E i \in m_instrs : Undefined(i)
RunSpec == Start /\ [][RunNext]_vars

-----------------------------------------------------------------------------
(* Properties                                                              *)

(* What a binary operation denotes: no value where C++ defines none.       *)
Denotes(op, ty, l, r) ==
  LET truncates(q) == LET rest == l - q * r
                      IN Abs(rest) < Abs(r) /\ (rest # 0 => (rest < 0) = (l < 0))
      word(x) == x % 2^16
      values  == CASE op = "DIV" -> {q \in -Abs(l) .. Abs(l) : truncates(q)}
                   [] op = "SHR" -> IF r \in 0 .. Digits[ty] - 1 THEN {ShiftRight(l, r)} ELSE {}
                   [] op = "XOR" -> LET x == word(l) ^^ word(r)
                                    IN {IF x < 2^15 THEN x ELSE x - 2^16}
                   [] op = "LE"  -> {AsInt(l <= r)}
                   [] op = "GE"  -> {AsInt(l >= r)}
                   [] OTHER      -> {Result(op, ty, l, r)}
  IN {Wrap(ty, x) : x \in values}

(* The values of the instructions of a function, with those of its phis    *)
(* from env.                                                               *)
Meaning(c, inputs, env, Den(_, _, _, _)) ==
  LET m[i \in Ids] ==
        CASE c[i].op = "CONST" -> {c[i].val}
          [] c[i].op = "PHI"   -> {env[i]}
          [] c[i].op = "RET"   -> m[inputs[i][1]]
          [] c[i].op \in BinaryOps ->
               UNION {Den(c[i].op, c[i].ty, l, r) : l \in m[inputs[i][1]], r \in m[inputs[i][2]]}
          [] OTHER -> {}
  IN m

Values(ty) == IF ty = "I1" THEN {0, 1} ELSE {-1, 2}
Phis == {i \in Source(program).live : Source(program).code[i].op = "PHI"}
Envs == IF Phis = {} THEN {<< >>}
        ELSE {e \in [Phis -> {-1, 0, 1, 2}] : \A i \in Phis : e[i] \in Values(Type(i))}

Origin(i) == CHOOSE j \in Source(program).live :
               Source(program).code[j].bb = code[i].bb /\ Source(program).code[j].pos = code[i].pos

SameMeaning(Den(_, _, _, _)) ==
  m_instrs = {} /\ ~undefined =>
    \A env \in Envs :
      LET before == Meaning(Source(program).code, Source(program).inputs, env, Den)
          now    == Meaning(code, chains.inputs, env, Den)
      IN \A i \in live : before[Origin(i)] # {} => now[i] = before[Origin(i)]

(***************************************************************************)
(* After each pass an instruction has the value that had, before the first *)
(* pass, the one in its place (peephole.hh:127-201, constant_fold.hh:      *)
(* 52-157): a constant of the right value in the right place, and each     *)
(* user redirected to an operand of the same value.  Comparisons LE and GE *)
(* of equal values are left to FoldsToMeaning.                             *)
(***************************************************************************)
Agreed(op, ty, l, r) == IF op \in {"LE", "GE"} /\ l = r THEN {} ELSE Denotes(op, ty, l, r)
MeaningKept == SameMeaning(Agreed)

(***************************************************************************)
(* The same of every comparison: `cmp le` is `<=`, as IR.cc:14 and 112 of  *)
(* the tests have it.                                                      *)
(***************************************************************************)
FoldsToMeaning == SameMeaning(Denotes)

(***************************************************************************)
(* The two sides of a use agree between any two steps of any passes, but   *)
(* for an xor of equal operands that was replaced by zero: it is gone and  *)
(* its operands still count it as a user (peephole.hh:196-199).  Whatever  *)
(* a live instruction reads is live.                                       *)
(***************************************************************************)
LeftBehind(i) == i \notin live /\ Op(i) = "XOR" /\ IsZero(i)
ChainsKept ==
  /\ \A v \in Ids : \A i \in chains.users[v] :
       Reads(chains, i, v) /\ (i \in live \/ LeftBehind(i))
  /\ \A i \in live : \A k \in DOMAIN chains.inputs[i] :
       Input(i, k) \in live /\ i \in chains.users[Input(i, k)]

(***************************************************************************)
(* A function with no xor, in which whatever is folded and is not a binary *)
(* operation depends on a value that no constant can replace, goes through *)
(* any sequence of passes without undefined behaviour: the only ways there *)
(* are the two patterns of an xor (peephole.hh:154-199) and the missing    *)
(* return of fold_operation (constant_fold.hh:138-143).                    *)
(***************************************************************************)
Unknown(p) == LET u[i \in Ids] == \/ p.code[i].op = "PHI"
                                  \/ \E k \in DOMAIN p.inputs[i] : u[p.inputs[i][k]]
              IN {i \in p.live : u[i]}
Safe(p) == \A i \in p.live :
             /\ p.code[i].op # "XOR"
             /\ (p.code[i].op \in BinaryOps \cup Unfoldable \/ i \in Unknown(p))
DefinedOnSafe == Safe(Source(program)) => ~undefined
===============================================================================
