----------------------------- MODULE OperandSpec -----------------------------
(***************************************************************************)
(* What the def-use chains of include/IR promise: instructions with        *)
(* operands, where replacing a value replaces it in every instruction, and *)
(* only an instruction that no other uses is removed.                      *)
(***************************************************************************)
EXTENDS Naturals, Sequences

CONSTANT Instrs

VARIABLES
  live,     \* the instructions there are
  operands  \* instruction -> its operands in order

Subst(s, old, new) == [k \in DOMAIN s |-> IF s[k] = old THEN new ELSE s[k]]
Reads(i, v) == \E k \in DOMAIN operands[i] : operands[i][k] = v

Init == live = {} /\ operands = [i \in Instrs |-> << >>]

(* A new instruction of live operands. *)
Create(i) ==
  /\ i \notin live
  /\ live' = live \cup {i}
  /\ operands' = [operands EXCEPT ![i] = operands'[i]]
  /\ operands'[i] \in Seq(live)

(* The operands of i are extended, changed or dropped. *)
Change(i) ==
  /\ operands' = [operands EXCEPT ![i] = operands'[i]]
  /\ operands'[i] \in Seq(live)
  /\ UNCHANGED live

(* new stands in for old wherever old is read. *)
ReplaceAll(old, new) ==
  /\ operands' = [i \in Instrs |-> Subst(operands[i], old, new)]
  /\ UNCHANGED live

(* i goes; nothing else reads it. *)
Remove(i) ==
  /\ \A j \in live \ {i} : ~Reads(j, i)
  /\ live' = live \ {i}
  /\ operands' = [operands EXCEPT ![i] = << >>]

(* old goes and a new instruction is read in its place. *)
Exchange(old, new) ==
  /\ new \notin live
  /\ live' = (live \ {old}) \cup {new}
  /\ operands' = [i \in Instrs |->
                   IF i = old THEN << >> ELSE Subst(operands[i], old, new)]

Next ==
  \/ \E i \in Instrs : Create(i)
  \/ \E i \in live : Change(i) \/ Remove(i)
  \/ \E old, new \in live : ReplaceAll(old, new)
  \/ \E old \in live, new \in Instrs : Exchange(old, new)

Spec == Init /\ [][Next]_<<live, operands>>
=============================================================================
