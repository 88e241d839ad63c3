------------------------ MODULE ChecksEliminationProofs ------------------------
(***************************************************************************)
(* Proofs about ChecksElimination: for every function, dominator tree and  *)
(* number of checks, each check that was removed is still covered.         *)
(***************************************************************************)
EXTENDS ChecksElimination, TLAPS

-----------------------------------------------------------------------------
(* The inductive invariant                                                 *)

(* What does not change: where the instructions are and what they read. *)
Shape ==
  /\ \A i \in Ids : code[i].bb \in BBs /\ code[i].pos \in Nat
  /\ \A i \in Checks : Len(chains.inputs[i]) = Operands(Op(i))
  /\ \A i, j \in Checks :
       code[i].bb = code[j].bb /\ code[i].pos = code[j].pos => i = j

(* The two sides of every use agree, so that a user that is found is live. *)
ChainsAgree == \A v \in Ids : chains.users[v] = {i \in live : Reads(chains, i, v)}

TypeInv ==
  /\ live \subseteq Ids
  /\ m_instrs \subseteq live \cap Checks
  /\ chains \in [inputs : [Ids -> Seq(Ids)], users : [Ids -> SUBSET Ids]]

IInv == TypeInv /\ Shape /\ ChainsAgree /\ RemovedChecksCovered

-----------------------------------------------------------------------------

(***************************************************************************)
(* The order in which checks run is transitive (dominates,                 *)
(* checks_elimination.hh:37-53).                                           *)
(***************************************************************************)
LEMMA RunsBeforeTransitive ==
  ASSUME Shape, NEW a \in Ids, NEW b \in Ids, NEW c \in Ids,
         RunsBefore(a, b), RunsBefore(b, c)
  PROVE  RunsBefore(a, c)
<1>1. code[a].bb \in BBs /\ code[b].bb \in BBs /\ code[c].bb \in BBs
  BY DEF Shape
<1>2. code[a].pos \in Nat /\ code[b].pos \in Nat /\ code[c].pos \in Nat
  BY DEF Shape
<1>3. CASE code[a].bb = code[b].bb /\ code[b].bb = code[c].bb
  BY <1>1, <1>2, <1>3, TreeAssumption DEF RunsBefore
<1>4. CASE code[a].bb # code[b].bb \/ code[b].bb # code[c].bb
  BY <1>1, <1>4, TreeAssumption DEF RunsBefore
<1> QED  BY <1>3, <1>4

(***************************************************************************)
(* The user on account of which a check goes is live, checks the same and  *)
(* runs before it (checks_elimination.hh:85-122).                          *)
(***************************************************************************)
LEMMA RedundantIsCovered ==
  ASSUME TypeInv, Shape, ChainsAgree, NEW i \in m_instrs, Redundant(i), ~OfItself(i)
  PROVE  \E u \in live \ {i} : SameCheck(u, i) /\ RunsBefore(u, i)
<1>1. i \in Ids /\ i \in live /\ i \in Checks
  BY DEF TypeInv, Checks
<1>2. Len(chains.inputs[i]) = Operands(Op(i)) /\ chains.inputs[i] \in Seq(Ids)
  BY <1>1 DEF Shape, TypeInv
<1>3. Op(i) \in CheckOps
  BY <1>1 DEF Checks
<1>4. Input(i, 1) \in Ids
  BY <1>2, <1>3 DEF Operands, Input
<1>5. PICK u \in chains.users[Input(i, 1)] :
        /\ u # i /\ Op(u) = Op(i)
        /\ Op(i) = "BOUNDS_CHECK" => Input(u, 2) = Input(i, 2)
        /\ dominates(u, i)
  BY DEF Redundant
<1>6. u \in live /\ Reads(chains, u, Input(i, 1))
  BY <1>4, <1>5 DEF ChainsAgree
<1>7. u \in Ids /\ u \in Checks
  BY <1>3, <1>5, <1>6 DEF TypeInv, Checks
<1>8. Len(chains.inputs[u]) = Operands(Op(i)) /\ chains.inputs[u] \in Seq(Ids)
  BY <1>5, <1>7 DEF Shape, TypeInv
<1>9. RunsBefore(u, i)
  <2>1. code[u].bb = code[i].bb => code[u].pos # code[i].pos
    BY <1>1, <1>5, <1>7 DEF Shape
  <2>2. code[u].pos \in Nat /\ code[i].pos \in Nat
    BY <1>1, <1>7 DEF Shape
  <2> QED  BY <1>5, <2>1, <2>2 DEF dominates, RunsBefore
<1>10. chains.inputs[u] = chains.inputs[i]
  <2>1. PICK k \in DOMAIN chains.inputs[u] : chains.inputs[u][k] = Input(i, 1)
    BY <1>6 DEF Reads
  <2>2. CASE Op(i) = "NULL_CHECK"
    BY <1>2, <1>8, <2>1, <2>2 DEF Operands, Input
  <2>3. CASE Op(i) = "BOUNDS_CHECK"
    <3>1. Len(chains.inputs[u]) = 2 /\ Len(chains.inputs[i]) = 2
      BY <1>2, <1>8, <2>3 DEF Operands
    <3>2. chains.inputs[u][2] = chains.inputs[i][2]
      BY <1>5, <2>3 DEF Input
    <3>3. chains.inputs[i][1] # chains.inputs[i][2]
      BY <2>3 DEF OfItself, Input
    <3>4. k = 1 \/ k = 2
      BY <1>8, <2>1, <3>1
    <3>5. chains.inputs[u][1] = chains.inputs[i][1]
      BY <2>1, <3>2, <3>3, <3>4 DEF Input
    <3> QED  BY <1>2, <1>8, <3>1, <3>2, <3>5
  <2> QED  BY <1>3, <2>2, <2>3 DEF CheckOps
<1> QED  BY <1>5, <1>6, <1>9, <1>10 DEF SameCheck

(* What a step does to the uses, whichever check it looks at. *)
LEMMA EliminateEffect ==
  ASSUME TypeInv, Shape, ChainsAgree, NEW i \in m_instrs, Eliminate(i)
  PROVE  /\ code' = code /\ m_instrs' = m_instrs \ {i}
         /\ \/ live' = live /\ chains' = chains
            \/ /\ Redundant(i) /\ live' = live \ {i}
               /\ chains' \in [inputs : [Ids -> Seq(Ids)], users : [Ids -> SUBSET Ids]]
               /\ chains'.inputs = chains.inputs
               /\ \A v \in Ids : chains'.users[v] = chains.users[v] \ {i}
<1>1. code' = code /\ m_instrs' = m_instrs \ {i}
  BY DEF Eliminate
<1>2. i \in Ids /\ i \in live /\ i \in Checks
  BY DEF TypeInv, Checks
<1>3. Len(chains.inputs[i]) = Operands(Op(i)) /\ chains.inputs[i] \in Seq(Ids)
  BY <1>2 DEF Shape, TypeInv
<1>4. CASE NullCheck(i) /\ Redundant(i)
  <2>1. Len(chains.inputs[i]) = 1
    BY <1>3, <1>4 DEF NullCheck, Operands
  <2>2. chains' = [chains EXCEPT !.users[Input(i, 1)] = @ \ {i}] /\ live' = live \ {i}
    BY <1>4 DEF NullCheck, RemoveUser
  <2>3. \A v \in Ids : v # Input(i, 1) => i \notin chains.users[v]
    BY <1>3, <2>1 DEF ChainsAgree, Reads, Input
  <2> QED  BY <1>1, <1>4, <2>2, <2>3 DEF TypeInv
<1>5. CASE BoundsCheck(i) /\ Redundant(i)
  <2>1. Len(chains.inputs[i]) = 2
    BY <1>3, <1>5 DEF BoundsCheck, Operands
  <2>2. /\ chains' = RemoveUser(RemoveUser(chains, Input(i, 1), i), Input(i, 2), i)
        /\ live' = live \ {i}
    BY <1>5 DEF BoundsCheck
  <2>3. \A v \in Ids : v # Input(i, 1) /\ v # Input(i, 2) => i \notin chains.users[v]
    BY <1>3, <2>1 DEF ChainsAgree, Reads, Input
  <2> DEFINE once == RemoveUser(chains, Input(i, 1), i)
  <2>4. /\ once \in [inputs : [Ids -> Seq(Ids)], users : [Ids -> SUBSET Ids]]
        /\ once.inputs = chains.inputs
        /\ \A v \in Ids : once.users[v] = IF v = Input(i, 1) THEN chains.users[v] \ {i}
                                          ELSE chains.users[v]
    BY DEF TypeInv, RemoveUser
  <2>5. chains' = RemoveUser(once, Input(i, 2), i)
    BY <2>2
  <2> HIDE DEF once
  <2>6. /\ chains' \in [inputs : [Ids -> Seq(Ids)], users : [Ids -> SUBSET Ids]]
        /\ chains'.inputs = once.inputs
        /\ \A v \in Ids : chains'.users[v] = IF v = Input(i, 2) THEN once.users[v] \ {i}
                                             ELSE once.users[v]
    BY <2>4, <2>5 DEF RemoveUser
  <2> QED  BY <1>1, <1>5, <2>2, <2>3, <2>4, <2>6
<1>6. CASE ~Redundant(i)
  BY <1>1, <1>6 DEF Eliminate, NullCheck, BoundsCheck
<1> QED  BY <1>4, <1>5, <1>6 DEF Eliminate

-----------------------------------------------------------------------------

(***************************************************************************)
(* The functions the pass starts with satisfy the invariant.               *)
(***************************************************************************)
LEMMA InitInvariant == Init => IInv
<1> SUFFICES ASSUME Init PROVE IInv
  OBVIOUS
<1>1. PICK p \in Programs : Load(p) /\ m_instrs = {i \in live : Op(i) \in CheckOps}
  BY DEF Init
<1> DEFINE f == Source(p)
<1>2. IsProgram(f)
  BY ProgramsAssumption
<1>3. live = f.live /\ code = f.code /\ chains = ChainsOf(f.inputs, f.live)
  BY <1>1 DEF Load
<1> HIDE DEF f
<1>4. live \subseteq Ids
  BY <1>2, <1>3 DEF IsProgram
<1>5. f.inputs \in [Ids -> Seq(Ids)]
  <2>1. \A s : s \in Seq(live) => s \in Seq(Ids)
    BY <1>4
  <2> QED  BY <1>2, <1>3, <2>1 DEF IsProgram
<1>6. chains.inputs = f.inputs
  BY <1>3 DEF ChainsOf
<1>7. chains.users = [v \in Ids |-> {i \in live : \E k \in DOMAIN f.inputs[i] : f.inputs[i][k] = v}]
  BY <1>3, <1>5 DEF ChainsOf
<1>8. chains = [inputs |-> chains.inputs, users |-> chains.users]
  BY <1>3 DEF ChainsOf
<1>9. Checks \subseteq live
  BY <1>2, <1>3 DEF IsProgram, Checks, Op, CheckOps
<1>10. TypeInv
  <2>1. m_instrs \subseteq live \cap Checks
    BY <1>1, <1>4 DEF Checks
  <2>2. chains.users \in [Ids -> SUBSET Ids]
    BY <1>4, <1>7
  <2> QED  BY <1>4, <1>5, <1>6, <1>8, <2>1, <2>2 DEF TypeInv
<1>11. ChainsAgree
  BY <1>6, <1>7 DEF ChainsAgree, Reads
<1>12. Shape
  <2>1. \A i \in Ids : code[i].bb \in BBs /\ code[i].pos \in Nat
    BY <1>2, <1>3 DEF IsProgram
  <2>2. \A i \in Checks : Len(chains.inputs[i]) = Operands(Op(i))
    BY <1>2, <1>3, <1>6 DEF IsProgram, Checks, Op
  <2>3. \A i, j \in Checks : code[i].bb = code[j].bb /\ code[i].pos = code[j].pos => i = j
    BY <1>2, <1>3, <1>9 DEF IsProgram
  <2> QED  BY <2>1, <2>2, <2>3 DEF Shape
<1>13. RemovedChecksCovered
  BY <1>9 DEF RemovedChecksCovered
<1> QED  BY <1>10, <1>11, <1>12, <1>13 DEF IInv

(***************************************************************************)
(* A removed check stays covered: if what covered it goes too, what covers *)
(* that covers it.                                                         *)
(***************************************************************************)
LEMMA StepInvariant == IInv /\ [Next]_pass_vars => IInv'
<1> SUFFICES ASSUME IInv, [Next]_pass_vars PROVE IInv'
  OBVIOUS
<1> USE DEF IInv
<1>1. CASE UNCHANGED pass_vars
  BY <1>1 DEF pass_vars, TypeInv, Shape, ChainsAgree, RemovedChecksCovered, Checks, Op, Input,
              Reads, OfItself, Covered, SameCheck, RunsBefore
<1>2. ASSUME NEW i \in m_instrs, Eliminate(i) PROVE IInv'
  <2>1. /\ code' = code /\ m_instrs' = m_instrs \ {i}
        /\ \/ live' = live /\ chains' = chains
           \/ /\ Redundant(i) /\ live' = live \ {i}
              /\ chains' \in [inputs : [Ids -> Seq(Ids)], users : [Ids -> SUBSET Ids]]
              /\ chains'.inputs = chains.inputs
              /\ \A v \in Ids : chains'.users[v] = chains.users[v] \ {i}
    BY <1>2, EliminateEffect
  <2>2. chains'.inputs = chains.inputs
    BY <2>1
  <2>3. TypeInv'
    BY <2>1 DEF TypeInv, Checks, Op
  <2>4. Shape'
    BY <2>1, <2>2 DEF Shape, Checks, Op
  <2>5. ChainsAgree'
    BY <2>1, <2>2 DEF ChainsAgree, Reads
  <2>6. RemovedChecksCovered'
    <3>1. CASE live' = live /\ chains' = chains
      BY <2>1, <3>1 DEF RemovedChecksCovered, Checks, Op, Input, OfItself, Covered, SameCheck,
                        RunsBefore
    <3>2. CASE Redundant(i) /\ live' = live \ {i}
      <4>1. SUFFICES ASSUME NEW j \in Checks, ~OfItself(j), j \notin live'
                     PROVE  \E k \in live' : SameCheck(k, j) /\ RunsBefore(k, j)
        BY ZenonT(30), <2>1, <2>2 DEF RemovedChecksCovered, Checks, Op, Input, OfItself, Covered, SameCheck,
                          RunsBefore
      <4>2. CASE j = i
        BY <3>2, <4>1, <4>2, RedundantIsCovered
      <4>3. CASE j # i
        <5>1. PICK k \in live : SameCheck(k, j) /\ RunsBefore(k, j)
          BY <3>2, <4>1, <4>3 DEF RemovedChecksCovered, Covered
        <5>2. CASE k # i
          BY <3>2, <5>1, <5>2
        <5>3. CASE k = i
          <6>1. ~OfItself(i)
            BY <4>1, <5>1, <5>3 DEF OfItself, SameCheck, Input
          <6>2. PICK u \in live \ {i} : SameCheck(u, i) /\ RunsBefore(u, i)
            BY <3>2, <6>1, RedundantIsCovered
          <6>3. SameCheck(u, j)
            BY <5>1, <5>3, <6>2 DEF SameCheck
          <6>4. u \in Ids /\ i \in Ids /\ j \in Ids
            BY DEF TypeInv, Checks
          <6>5. RunsBefore(u, j)
            BY <5>1, <5>3, <6>2, <6>4, RunsBeforeTransitive
          <6> QED  BY <3>2, <6>2, <6>3, <6>5
        <5> QED  BY <5>2, <5>3
      <4> QED  BY <4>2, <4>3
    <3> QED  BY <2>1, <3>1, <3>2
  <2> QED  BY <2>3, <2>4, <2>5, <2>6
<1> QED  BY <1>1, <1>2 DEF Next

(***************************************************************************)
(* Every reachable state satisfies the invariant.                          *)
(***************************************************************************)
LEMMA Invariant == Spec => []IInv
BY InitInvariant, StepInvariant, PTL DEF Spec

(***************************************************************************)
(* Of each check that the pass removed, one that checks the same and runs  *)
(* before it is left (checks_elimination.hh:67-122), for any number of     *)
(* checks and any dominator tree.                                          *)
(***************************************************************************)
THEOREM ChecksStayCovered == Spec => []RemovedChecksCovered
<1>1. IInv => RemovedChecksCovered
  BY DEF IInv
<1> QED  BY <1>1, Invariant, PTL

(***************************************************************************)
(* The pass never meets a user that is no longer in a block                *)
(* (checks_elimination.hh:90-94, 107-114).                                 *)
(***************************************************************************)
UsersAreLive == \A v \in Ids : chains.users[v] \subseteq live
THEOREM UsersStayLive == Spec => []UsersAreLive
<1>1. IInv => UsersAreLive
  BY DEF IInv, ChainsAgree, UsersAreLive
<1> QED  BY <1>1, Invariant, PTL
================================================================================
