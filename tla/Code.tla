--------------------------------- MODULE Code ---------------------------------
(***************************************************************************)
(* What the passes do to instructions, as operators: chains is the two     *)
(* sides of a use (m_inputs and m_users, whose invariants are those of     *)
(* DefUse), and the passes apply several operations to them in one step.   *)
(*                                                                         *)
(* A pass only removes instructions from their blocks or puts a new one in *)
(* the place of an old one, so that the order in a block is kept as a      *)
(* number: code gives each instruction its opcode, type, value (of a       *)
(* constant), block and pos.                                               *)
(***************************************************************************)
EXTENDS Integers, Sequences, FiniteSets

Reads(chains, i, v) == \E k \in DOMAIN chains.inputs[i] : chains.inputs[i][k] = v

(* The chains of live instructions with these inputs. *)
ChainsOf(inputs, live) ==
  [inputs |-> inputs,
   users  |-> [v \in DOMAIN inputs |->
                 {i \in live : \E k \in DOMAIN inputs[i] : inputs[i][k] = v}]]

AddInput(chains, i, v) ==
  [chains EXCEPT !.inputs[i] = Append(@, v), !.users[v] = @ \cup {i}]

RemoveUser(chains, v, i) == [chains EXCEPT !.users[v] = @ \ {i}]

CleanInputs(chains, i) ==
  [inputs |-> [chains.inputs EXCEPT ![i] = << >>],
   users  |-> [v \in DOMAIN chains.users |->
                 IF Reads(chains, i, v) THEN chains.users[v] \ {i} ELSE chains.users[v]]]

(* v.replace_users(other). *)
ReplaceUsers(chains, v, other) ==
  LET both == chains.users[v] \cup chains.users[other]
      Subst(s) == [k \in DOMAIN s |-> IF s[k] = other THEN v ELSE s[k]]
  IN [inputs |-> [i \in DOMAIN chains.inputs |->
                    IF i \in both THEN Subst(chains.inputs[i]) ELSE chains.inputs[i]],
      users  |-> [chains.users EXCEPT ![v] = both, ![other] = {}]]

(* PassVisitor visits the blocks in the order rpo and each from its front: *)
(* a work list is a set, of which the first instruction is processed next. *)
Precedes(code, rpo, i, j) ==
  \/ code[i].bb = code[j].bb /\ code[i].pos < code[j].pos
  \/ \E k, l \in DOMAIN rpo : k < l /\ rpo[k] = code[i].bb /\ rpo[l] = code[j].bb
IsFirst(code, rpo, m_instrs, i) ==
  i \in m_instrs /\ \A j \in m_instrs \ {i} : Precedes(code, rpo, i, j)
===============================================================================
