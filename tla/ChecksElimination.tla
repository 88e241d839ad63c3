--------------------------- MODULE ChecksElimination ---------------------------
(***************************************************************************)
(* The pass of include/opt_passes/checks_elimination.hh: a null check or   *)
(* bounds check goes when another check of the same value dominates it.    *)
(*                                                                         *)
(* The answers of the dominator tree are a constant, Tree, taken to be     *)
(* those of some tree; DomTree says which graphs get the right ones.       *)
(***************************************************************************)
EXTENDS Code

CONSTANTS
  Ids,      \* instructions
  BBs,      \* basic blocks
  Rpo,      \* the blocks in reverse postorder
  Tree,     \* the pairs of different blocks m_tree.dominates is true for
  Programs, \* the functions
  Source(_) \* what one consists of: a record of live, code and inputs

ASSUME TreeAssumption ==
  /\ Tree \subseteq BBs \X BBs
  /\ \A a, b, c \in BBs : <<a, b>> \in Tree /\ <<b, c>> \in Tree => <<a, c>> \in Tree
  /\ \A a \in BBs : <<a, a>> \notin Tree

CheckOps == {"NULL_CHECK", "BOUNDS_CHECK"}
Operands(op) == IF op = "NULL_CHECK" THEN 1 ELSE 2

(* A function: checks have their operands, places are different, ids to    *)
(* spare are of no opcode.                                                 *)
IsProgram(p) ==
  /\ p.live \subseteq Ids
  /\ p.inputs \in [Ids -> Seq(p.live)]
  /\ DOMAIN p.code = Ids /\ \A i \in Ids \ p.live : p.code[i].op = "NONE"
  /\ \A i \in Ids : p.code[i].bb \in BBs /\ p.code[i].pos \in Nat
  /\ \A i \in Ids : p.code[i].op \in CheckOps => Len(p.inputs[i]) = Operands(p.code[i].op)
  /\ \A i, j \in p.live :
       p.code[i].bb = p.code[j].bb /\ p.code[i].pos = p.code[j].pos => i = j

ASSUME ProgramsAssumption == \A p \in Programs : IsProgram(Source(p))

VARIABLES
  live,     \* the instructions that are in a block
  code,
  chains,
  m_instrs  \* those the pass has still to look at

pass_vars == <<live, code, chains, m_instrs>>

Op(i) == code[i].op
Input(i, k) == chains.inputs[i][k]
Checks == {i \in Ids : Op(i) \in CheckOps}

(* dominates: by the tree, or within the block from the dominator to the end. *)
dominates_Backwards(u, i) ==                                      \* mutant
  IF code[u].bb = code[i].bb THEN code[u].pos >= code[i].pos
  ELSE <<code[u].bb, code[i].bb>> \in Tree
dominates(u, i) ==
  IF code[u].bb = code[i].bb THEN code[u].pos <= code[i].pos
  ELSE <<code[u].bb, code[i].bb>> \in Tree

Redundant(i) ==
  \E u \in chains.users[Input(i, 1)] :
    /\ u # i /\ Op(u) = Op(i)
    /\ Op(i) = "BOUNDS_CHECK" => Input(u, 2) = Input(i, 2)
    /\ dominates(u, i)

(* NullCheck and BoundsCheck: the check leaves its operands and its block. *)
NullCheck(i) ==
  /\ Op(i) = "NULL_CHECK"
  /\ IF Redundant(i) THEN /\ chains' = RemoveUser(chains, Input(i, 1), i)
                          /\ live' = live \ {i}
                     ELSE UNCHANGED <<chains, live>>
BoundsCheck(i) ==
  /\ Op(i) = "BOUNDS_CHECK"
  /\ IF Redundant(i)
     THEN /\ chains' = RemoveUser(RemoveUser(chains, Input(i, 1), i), Input(i, 2), i)
          /\ live' = live \ {i}
     ELSE UNCHANGED <<chains, live>>

(* eliminate, for one check. *)
Eliminate(i) ==
  /\ IsFirst(code, Rpo, m_instrs, i)
  /\ NullCheck(i) \/ BoundsCheck(i)
  /\ m_instrs' = m_instrs \ {i}
  /\ UNCHANGED code

(* run: the function p, of which all checks have been visited. *)
Load(p) == LET f == Source(p)
           IN live = f.live /\ code = f.code /\ chains = ChainsOf(f.inputs, f.live)
Init == \E p \in Programs : Load(p) /\ m_instrs = {i \in live : Op(i) \in CheckOps}

Next == \E i \in m_instrs : Eliminate(i)
Spec == Init /\ [][Next]_pass_vars

-----------------------------------------------------------------------------
(* Properties                                                              *)

(***************************************************************************)
(* Of each check that is gone one is left that checks the same and runs    *)
(* before it, however many were removed on account of each other           *)
(* (checks_elimination.hh:39-53, 85-122).  A bounds check of a value       *)
(* against itself is excepted: it goes on account of any check with this   *)
(* bound, as the user found need not have the value as its index           *)
(* (checks_elimination.hh:103-114).                                        *)
(***************************************************************************)
SameCheck(k, i) == Op(k) = Op(i) /\ chains.inputs[k] = chains.inputs[i]
OfItself(i) == Op(i) = "BOUNDS_CHECK" /\ Input(i, 1) = Input(i, 2)
RunsBefore(k, i) ==
  \/ <<code[k].bb, code[i].bb>> \in Tree
  \/ code[k].bb = code[i].bb /\ code[k].pos < code[i].pos
Covered(i) == \E k \in live : SameCheck(k, i) /\ RunsBefore(k, i)
RemovedChecksCovered == \A i \in Checks : OfItself(i) \/ i \in live \/ Covered(i)
================================================================================
