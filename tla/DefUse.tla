-------------------------------- MODULE DefUse --------------------------------
(***************************************************************************)
(* The def-use chains of include/IR/instruction.hh: every instruction      *)
(* holds its operands (m_inputs), every value the set of instructions that *)
(* use it (m_users), and each operation changes both sides.  All values    *)
(* are instructions.                                                       *)
(*                                                                         *)
(* The guards are what the callers of these operations owe them: operands  *)
(* that exist, no other user left when an instruction is deleted, two      *)
(* different values to replace_users.  They owe replace_instr nothing: it  *)
(* deletes an instruction that may still be recorded as a user, and to     *)
(* write through such a user is undefined behaviour, after which nothing   *)
(* is said.                                                                *)
(***************************************************************************)
EXTENDS Naturals, Sequences, FiniteSets

CONSTANTS
  Instrs,    \* the instructions that may be made
  MaxInputs  \* a bound on the operands of one

ASSUME DefUseAssumption == MaxInputs \in Nat

VARIABLES
  created,   \* the instructions made so far
  live,      \* those not deleted
  m_inputs,  \* instruction -> its operands in order
  m_users,   \* instruction -> the instructions that have it as an operand
  abandoned, \* auxiliary: those deleted while they still had inputs
  undefined  \* an operation wrote through a deleted user

vars == <<created, live, m_inputs, m_users, abandoned, undefined>>

Uses(i, v) == \E k \in DOMAIN m_inputs[i] : m_inputs[i][k] = v
OperandLists == UNION {[1 .. n -> live] : n \in 0 .. MaxInputs}

Init ==
  /\ created = {} /\ live = {}
  /\ m_inputs = [i \in Instrs |-> << >>]
  /\ m_users = [i \in Instrs |-> {}]
  /\ abandoned = {} /\ undefined = FALSE

(* A constructor, which calls add_input for each operand. *)
Create(i, ops) ==
  /\ i \notin created
  /\ created' = created \cup {i}
  /\ live' = live \cup {i}
  /\ m_inputs' = [m_inputs EXCEPT ![i] = ops]
  /\ m_users' = [v \in Instrs |-> IF \E k \in DOMAIN ops : ops[k] = v
                                  THEN m_users[v] \cup {i} ELSE m_users[v]]
  /\ UNCHANGED <<abandoned, undefined>>

(* add_input: PhiInstr::add_node and CallInstr::add_arg. *)
AddInput(i, v) ==
  /\ Len(m_inputs[i]) < MaxInputs
  /\ m_inputs' = [m_inputs EXCEPT ![i] = Append(@, v)]
  /\ m_users' = [m_users EXCEPT ![v] = @ \cup {i}]
  /\ UNCHANGED <<created, live, abandoned, undefined>>

(* set_input: i stops being a user of the old operand if that was the only *)
(* one of its inputs to be it.                                             *)
UsedOnce_NotCounted(i, v) == Uses(i, v)                           \* mutant
UsedOnce(i, v) == Cardinality({k \in DOMAIN m_inputs[i] : m_inputs[i][k] = v}) = 1
SetInput(i, k, v) ==
  LET inp == m_inputs[i][k]
      without == IF UsedOnce(i, inp) THEN [m_users EXCEPT ![inp] = @ \ {i}] ELSE m_users
  IN /\ m_inputs' = [m_inputs EXCEPT ![i][k] = v]
     /\ m_users' = [without EXCEPT ![v] = @ \cup {i}]
     /\ UNCHANGED <<created, live, abandoned, undefined>>

(* clean_inputs. *)
Cleaned_Kept(i) == m_inputs                                       \* mutant
Cleaned(i) == [m_inputs EXCEPT ![i] = << >>]
CleanInputs(i) ==
  /\ m_inputs' = Cleaned(i)
  /\ m_users' = [v \in Instrs |-> IF Uses(i, v) THEN m_users[v] \ {i} ELSE m_users[v]]
  /\ UNCHANGED <<created, live, abandoned, undefined>>

(* v.replace_users(other): the users of other join those of v, and each of *)
(* them has other replaced by v.                                           *)
Moved(v, other) == m_users[v] \cup m_users[other]
Replaced_OwnUsersOnly(v, other) ==                                \* mutant
  [i \in Instrs |-> IF i \in m_users[v]
                    THEN [k \in DOMAIN m_inputs[i] |->
                            IF m_inputs[i][k] = other THEN v ELSE m_inputs[i][k]]
                    ELSE m_inputs[i]]
Replaced(v, other) ==
  [i \in Instrs |-> IF i \in Moved(v, other)
                    THEN [k \in DOMAIN m_inputs[i] |->
                            IF m_inputs[i][k] = other THEN v ELSE m_inputs[i][k]]
                    ELSE m_inputs[i]]
ReplaceUsers(v, other) ==
  /\ v # other
  /\ Moved(v, other) \subseteq live
  /\ m_users' = [m_users EXCEPT ![v] = Moved(v, other), ![other] = {}]
  /\ m_inputs' = Replaced(v, other)
  /\ UNCHANGED <<created, live, abandoned, undefined>>

(* erase(instr): clean_inputs, and the instruction is deleted. *)
Erase(i) ==
  /\ m_users[i] \cap live \subseteq {i}
  /\ live' = live \ {i}
  /\ m_inputs' = Cleaned(i)
  /\ m_users' = [v \in Instrs |-> IF v = i THEN {}
                                  ELSE IF Uses(i, v) THEN m_users[v] \ {i} ELSE m_users[v]]
  /\ UNCHANGED <<created, abandoned, undefined>>

(***************************************************************************)
(* BasicBlock::replace_instr(old, new): new, a constant just made, gets    *)
(* the users of old, which is deleted.  The inputs of old are not cleaned: *)
(* if the caller has not done it (constant_fold.hh has, peephole.hh has    *)
(* not), old stays among the users of its operands.                        *)
(***************************************************************************)
ReplaceInstr(old, new) ==
  /\ new \notin created
  /\ Moved(new, old) \subseteq live
  /\ created' = created \cup {new}
  /\ live' = (live \ {old}) \cup {new}
  /\ m_users' = [m_users EXCEPT ![new] = Moved(new, old), ![old] = {}]
  /\ m_inputs' = [Replaced(new, old) EXCEPT ![old] = << >>]
  /\ abandoned' = IF m_inputs[old] = << >> THEN abandoned ELSE abandoned \cup {old}
  /\ UNCHANGED undefined

(* replace_users, called alone or by replace_instr, when one of the users  *)
(* it writes through was deleted.                                          *)
WriteThroughDeleted(v, other) ==
  /\ ~(Moved(v, other) \subseteq live)
  /\ undefined' = TRUE
  /\ UNCHANGED <<created, live, m_inputs, m_users, abandoned>>

Next ==
  /\ ~undefined
  /\ \/ \E i \in Instrs, ops \in OperandLists : Create(i, ops)
     \/ \E i, v \in live : AddInput(i, v)
     \/ \E i, v \in live : \E k \in DOMAIN m_inputs[i] : SetInput(i, k, v)
     \/ \E i \in live : CleanInputs(i)
     \/ \E v, other \in live : ReplaceUsers(v, other)
     \/ \E i \in live : Erase(i)
     \/ \E old \in live, new \in Instrs : ReplaceInstr(old, new)
     \/ \E other \in live, v \in live \cup (Instrs \ created) :
          v # other /\ WriteThroughDeleted(v, other)

Spec == Init /\ [][Next]_vars

-----------------------------------------------------------------------------
(* Properties                                                              *)

(* Operands and users are instructions that were made; one that is not     *)
(* there has neither.                                                      *)
TypeOK ==
  /\ created \subseteq Instrs /\ live \subseteq created
  /\ m_inputs \in [Instrs -> Seq(created)]
  /\ m_users \in [Instrs -> SUBSET created]
  /\ \A i \in Instrs \ live : m_inputs[i] = << >> /\ m_users[i] = {}
  /\ abandoned \subseteq created \ live
  /\ undefined \in BOOLEAN

(***************************************************************************)
(* The two sides agree: an instruction is a user of exactly the values     *)
(* that are among its inputs, however often (instruction.hh:133-168),      *)
(* unless it was deleted with its inputs in place.                         *)
(***************************************************************************)
UsersMatchInputs ==
  \A i \in Instrs \ abandoned : \A v \in Instrs : i \in m_users[v] <=> Uses(i, v)

(***************************************************************************)
(* No operand is an instruction that was deleted, and a deleted user is    *)
(* always one that replace_instr deleted with its inputs in place          *)
(* (basic_block.hh:165-170): replace_users, clean_inputs and erase leave   *)
(* none (instruction.hh:149-168, basic_block.hh:288-297).  It takes such a *)
(* user of an instruction that is there to write through a deleted one.    *)
(***************************************************************************)
NoDangling ==
  /\ \A i \in live : /\ \A k \in DOMAIN m_inputs[i] : m_inputs[i][k] \in live
                     /\ m_users[i] \subseteq live \cup abandoned
  /\ undefined => \E i \in live : m_users[i] \cap abandoned # {}

(* Walking only the users that were recorded replaces a value everywhere,  *)
(* and deletes nothing that is still read.                                 *)
Abs == INSTANCE OperandSpec WITH operands <- m_inputs
ImplementsOperandSpec == Abs!Spec
=============================================================================
