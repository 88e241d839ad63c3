----------------------------- MODULE DefUseProofs -----------------------------
(***************************************************************************)
(* Proofs about DefUse.  The inductive invariant has the operands of every *)
(* instruction among the live ones, its users among those and the          *)
(* abandoned ones, and the live users of a value are its readers: an       *)
(* operation that walks the users meets every reader, and an instruction   *)
(* without live users is safe to delete.                                   *)
(***************************************************************************)
EXTENDS DefUse, FiniteSetTheorems, TLAPS

LiveLinks ==
  /\ live \subseteq created /\ created \subseteq Instrs
  /\ m_inputs \in [Instrs -> Seq(live)]
  /\ m_users \in [Instrs -> SUBSET (live \cup abandoned)]
  /\ \A i \in Instrs \ live : m_inputs[i] = << >> /\ m_users[i] = {}
  /\ abandoned \subseteq created \ live
  /\ undefined \in BOOLEAN
DeletedUsers == undefined => \E i \in live : m_users[i] \cap abandoned # {}
Links == LiveLinks /\ UsersMatchInputs
IInv == Links /\ DeletedUsers

(* The operands of a constructor are a sequence of live instructions.      *)
LEMMA OperandListsAreSequences ==
  ASSUME NEW ops \in OperandLists
  PROVE  ops \in Seq(live)
  BY DefUseAssumption DEF OperandLists

LEMMA InitIInv == Init => IInv
  <1> SUFFICES ASSUME Init PROVE IInv
    OBVIOUS
  <1>1. /\ live = {} /\ created = {} /\ abandoned = {} /\ undefined = FALSE
        /\ m_inputs = [i \in Instrs |-> << >>] /\ m_users = [i \in Instrs |-> {}]
    BY DEF Init
  <1>2. LiveLinks
    <2>1. << >> \in Seq(live)
      OBVIOUS
    <2>2. m_inputs \in [Instrs -> Seq(live)]
      BY <1>1, <2>1
    <2> QED BY <1>1, <2>2 DEF LiveLinks
  <1>3. UsersMatchInputs
    BY <1>1 DEF UsersMatchInputs, Uses
  <1> QED BY <1>1, <1>2, <1>3 DEF IInv, Links, DeletedUsers

LEMMA IInvTypeOK == IInv => TypeOK
  <1> SUFFICES ASSUME IInv PROVE TypeOK
    OBVIOUS
  <1>1. Seq(live) \subseteq Seq(created)
    BY DEF IInv, Links, LiveLinks
  <1> QED BY <1>1 DEF IInv, Links, LiveLinks, TypeOK

LEMMA IInvNoDangling == IInv => NoDangling
  BY DEF IInv, Links, LiveLinks, DeletedUsers, NoDangling

(* Whoever reads a value is live and one of its users; a live instruction   *)
(* is a user of nothing else.                                              *)
LEMMA ReadersAreUsers ==
  ASSUME IInv, NEW j \in Instrs, NEW v \in Instrs
  PROVE  /\ Uses(j, v) => j \in live /\ j \in m_users[v]
         /\ j \in live => (j \in m_users[v] <=> Uses(j, v))
  <1>1. j \notin live => ~Uses(j, v)
    BY DEF IInv, Links, LiveLinks, Uses
  <1>2. j \in live => j \notin abandoned
    BY DEF IInv, Links, LiveLinks
  <1> QED BY <1>1, <1>2 DEF IInv, Links, UsersMatchInputs

-----------------------------------------------------------------------------
(* One lemma per action.                                                   *)

LEMMA CreateStep ==
  ASSUME IInv, NEW i \in Instrs, NEW ops \in OperandLists, Create(i, ops)
  PROVE  Links'
  <1> USE DEF IInv, Links, LiveLinks
  <1>a. abandoned' = abandoned /\ undefined' = undefined
    BY DEF Create
  <1>1. ops \in Seq(live)
    BY OperandListsAreSequences
  <1>2. i \notin live /\ m_inputs[i] = << >>
    BY DEF Create
  <1>3. LiveLinks'
    <2>1. Seq(live) \subseteq Seq(live')
      BY DEF Create
    <2>2. m_inputs' \in [Instrs -> Seq(live')]
      BY <1>1, <2>1 DEF Create
    <2>3. m_users' \in [Instrs -> SUBSET (live' \cup abandoned')]
      BY <1>a DEF Create
    <2>4. \A j \in Instrs \ live' : m_inputs'[j] = << >> /\ m_users'[j] = {}
      BY <1>1 DEF Create
    <2> QED BY <1>a, <2>2, <2>3, <2>4 DEF Create
  <1>4. ASSUME NEW j \in Instrs \ abandoned', NEW v \in Instrs
        PROVE  (j \in m_users[v] <=> Uses(j, v))'
    <2>1. j \in m_users[v] <=> Uses(j, v)
      BY <1>a DEF UsersMatchInputs
    <2>2. CASE j = i
      BY <1>2, <2>1, <2>2 DEF Create, Uses
    <2>3. CASE j # i
      BY <2>1, <2>3 DEF Create, Uses
    <2> QED BY <2>2, <2>3
  <1> QED BY <1>3, <1>4 DEF UsersMatchInputs

LEMMA AddInputStep ==
  ASSUME IInv, NEW i \in live, NEW v \in live, AddInput(i, v)
  PROVE  Links'
  <1> USE DEF IInv, Links, LiveLinks
  <1>a. abandoned' = abandoned /\ undefined' = undefined
    BY DEF AddInput
  <1>0. i \in Instrs /\ v \in Instrs
    OBVIOUS
  <1>1. LiveLinks'
    BY <1>a, <1>0 DEF AddInput
  <1>2. ASSUME NEW j \in Instrs \ abandoned', NEW w \in Instrs
        PROVE  (j \in m_users[w] <=> Uses(j, w))'
    <2>1. j \in m_users[w] <=> Uses(j, w)
      BY <1>a DEF UsersMatchInputs
    <2>2. CASE j = i
      <3>1. m_inputs'[j] = Append(m_inputs[i], v) /\ m_inputs[i] \in Seq(live)
        BY <1>0, <2>2 DEF AddInput
      <3>2. Uses(j, w)' <=> (Uses(j, w) \/ w = v)
        <4>1. DOMAIN m_inputs'[j] = (DOMAIN m_inputs[j]) \cup {Len(m_inputs[j]) + 1}
          BY <2>2, <3>1
        <4>2. \A k \in DOMAIN m_inputs[j] : m_inputs'[j][k] = m_inputs[j][k]
          BY <2>2, <3>1
        <4>3. m_inputs'[j][Len(m_inputs[j]) + 1] = v
          BY <2>2, <3>1
        <4> QED BY <4>1, <4>2, <4>3 DEF Uses
      <3> QED BY <1>0, <2>1, <2>2, <3>2 DEF AddInput
    <2>3. CASE j # i
      BY <1>0, <2>1, <2>3 DEF AddInput, Uses
    <2> QED BY <2>2, <2>3
  <1> QED BY <1>1, <1>2 DEF UsersMatchInputs

LEMMA CleanInputsStep ==
  ASSUME IInv, NEW i \in live, CleanInputs(i)
  PROVE  Links'
  <1> USE DEF IInv, Links, LiveLinks
  <1>a. abandoned' = abandoned /\ undefined' = undefined
    BY DEF CleanInputs
  <1>1. LiveLinks'
    BY <1>a DEF CleanInputs, Cleaned
  <1>2. ASSUME NEW j \in Instrs \ abandoned', NEW w \in Instrs
        PROVE  (j \in m_users[w] <=> Uses(j, w))'
    <2>1. j \in m_users[w] <=> Uses(j, w)
      BY <1>a DEF UsersMatchInputs
    <2>2. i \in m_users[w] <=> Uses(i, w)
      BY ReadersAreUsers
    <2>3. CASE j = i
      BY <2>1, <2>3 DEF CleanInputs, Cleaned, Uses
    <2>4. CASE j # i
      BY <2>1, <2>4 DEF CleanInputs, Cleaned, Uses
    <2> QED BY <2>3, <2>4
  <1> QED BY <1>1, <1>2 DEF UsersMatchInputs

LEMMA EraseStep ==
  ASSUME IInv, NEW i \in live, Erase(i)
  PROVE  Links'
  <1> USE DEF IInv, Links, LiveLinks
  <1>a. abandoned' = abandoned /\ undefined' = undefined
    BY DEF Erase
  <1>1. \A v \in Instrs : i \notin m_users'[v]
    BY ReadersAreUsers DEF Erase
  <1>2. \A j \in Instrs \ {i} : ~Uses(j, i)
    BY ReadersAreUsers DEF Erase
  <1>3. \A j \in Instrs : m_inputs'[j] = IF j = i THEN << >> ELSE m_inputs[j]
    BY DEF Erase, Cleaned
  <1>4. ASSUME NEW j \in Instrs
        PROVE  m_inputs'[j] \in Seq(live')
    <2>1. CASE j = i
      <3>1. << >> \in Seq(live')
        OBVIOUS
      <3> QED BY <1>3, <2>1, <3>1
    <2>2. CASE j # i
      <3>1. m_inputs[j] \in Seq(live)
        OBVIOUS
      <3>2. \A k \in DOMAIN m_inputs[j] : m_inputs[j][k] \in live \ {i}
        BY <1>2, <2>2, <3>1 DEF Uses
      <3>3. m_inputs[j] \in Seq(live \ {i})
        BY <3>1, <3>2
      <3> QED BY <1>3, <2>2, <3>3 DEF Erase
    <2> QED BY <2>1, <2>2
  <1>5. LiveLinks'
    <2>1. m_inputs' \in [Instrs -> Seq(live')]
      BY <1>4 DEF Erase, Cleaned
    <2>2. m_users' \in [Instrs -> SUBSET (live' \cup abandoned')]
      BY <1>a, <1>1 DEF Erase
    <2>3. \A j \in Instrs \ live' : m_inputs'[j] = << >> /\ m_users'[j] = {}
      <3>1. m_users'[i] = {}
        BY DEF Erase
      <3> QED BY <1>3, <3>1 DEF Erase
    <2> QED BY <1>a, <2>1, <2>2, <2>3 DEF Erase
  <1>6. ASSUME NEW j \in Instrs \ abandoned', NEW w \in Instrs
        PROVE  (j \in m_users[w] <=> Uses(j, w))'
    <2>1. j \in m_users[w] <=> Uses(j, w)
      BY <1>a DEF UsersMatchInputs
    <2>2. CASE j = i
      BY <1>1, <1>3, <2>2 DEF Uses
    <2>3. CASE j # i
      <3>1. Uses(j, w)' <=> Uses(j, w)
        BY <1>3, <2>3 DEF Uses
      <3>2. w # i => (j \in m_users'[w] <=> j \in m_users[w])
        BY <2>3 DEF Erase
      <3>3. w = i => m_users'[w] = {} /\ ~Uses(j, w)
        BY <1>2, <2>3 DEF Erase
      <3> QED BY <2>1, <3>1, <3>2, <3>3
    <2> QED BY <2>2, <2>3
  <1> QED BY <1>5, <1>6 DEF UsersMatchInputs

(***************************************************************************)
(* replace_users and replace_instr: what substituting v for old in the     *)
(* users of both does to who reads what.                                   *)
(***************************************************************************)
LEMMA SubstitutedReads ==
  ASSUME IInv, NEW v \in Instrs, NEW old \in Instrs, v # old,
         NEW j \in Instrs, NEW w \in Instrs
  PROVE  (\E k \in DOMAIN Replaced(v, old)[j] : Replaced(v, old)[j][k] = w)
           <=> \/ w = v /\ (Uses(j, v) \/ Uses(j, old))
               \/ w # v /\ w # old /\ Uses(j, w)
  <1> USE DEF IInv, Links, LiveLinks
  <1>1. CASE j \in Moved(v, old)
    <2>1. Replaced(v, old)[j] = [k \in DOMAIN m_inputs[j] |->
                            IF m_inputs[j][k] = old THEN v ELSE m_inputs[j][k]]
      BY <1>1 DEF Replaced
    <2>2. DOMAIN Replaced(v, old)[j] = DOMAIN m_inputs[j]
      BY <2>1
    <2>3. \A k \in DOMAIN m_inputs[j] :
            Replaced(v, old)[j][k] = IF m_inputs[j][k] = old THEN v ELSE m_inputs[j][k]
      BY <2>1
    <2> HIDE DEF Replaced
    <2> QED BY <2>2, <2>3 DEF Uses
  <1>2. CASE j \notin Moved(v, old)
    <2>1. Replaced(v, old)[j] = m_inputs[j]
      BY <1>2 DEF Replaced
    <2>2. ~Uses(j, v) /\ ~Uses(j, old)
      BY <1>2, ReadersAreUsers DEF Moved
    <2> QED BY <2>1, <2>2 DEF Uses
  <1> QED BY <1>1, <1>2

LEMMA SubstitutedInputs ==
  ASSUME IInv, NEW v \in Instrs, NEW old \in Instrs, v # old,
         NEW S, live \ {old} \subseteq S, v \in S
  PROVE  Replaced(v, old) \in [Instrs -> Seq(S)]
  <1> USE DEF IInv, Links, LiveLinks
  <1> SUFFICES ASSUME NEW j \in Instrs PROVE Replaced(v, old)[j] \in Seq(S)
    BY DEF Replaced
  <1>1. m_inputs[j] \in Seq(live)
    OBVIOUS
  <1>2. CASE j \in Moved(v, old)
    <2>1. Replaced(v, old)[j] = [k \in DOMAIN m_inputs[j] |->
                            IF m_inputs[j][k] = old THEN v ELSE m_inputs[j][k]]
      BY <1>2 DEF Replaced
    <2>2. Len(m_inputs[j]) \in Nat /\ DOMAIN m_inputs[j] = 1 .. Len(m_inputs[j])
      BY <1>1
    <2>3. \A k \in DOMAIN m_inputs[j] :
            (IF m_inputs[j][k] = old THEN v ELSE m_inputs[j][k]) \in S
      BY <1>1
    <2>4. Replaced(v, old)[j] \in [1 .. Len(m_inputs[j]) -> S]
      BY <2>1, <2>2, <2>3
    <2>5. \A n \in Nat : [1 .. n -> S] \subseteq Seq(S)
      OBVIOUS
    <2> QED BY <2>2, <2>4, <2>5
  <1>3. CASE j \notin Moved(v, old)
    <2>1. Replaced(v, old)[j] = m_inputs[j]
      BY <1>3 DEF Replaced
    <2>2. \A k \in DOMAIN m_inputs[j] : m_inputs[j][k] # old
      BY <1>3, ReadersAreUsers DEF Moved, Uses
    <2>3. \A k \in DOMAIN m_inputs[j] : m_inputs[j][k] \in S
      BY <1>1, <2>2
    <2> QED BY <1>1, <2>1, <2>3
  <1> QED BY <1>2, <1>3

LEMMA ReplaceUsersStep ==
  ASSUME IInv, NEW v \in live, NEW other \in live, ReplaceUsers(v, other)
  PROVE  Links'
  <1> USE DEF IInv, Links, LiveLinks
  <1>a. abandoned' = abandoned /\ undefined' = undefined
    BY DEF ReplaceUsers
  <1>0. v \in Instrs /\ other \in Instrs /\ v # other
    BY DEF ReplaceUsers
  <1>1. LiveLinks'
    <2>1. m_inputs' \in [Instrs -> Seq(live')]
      BY <1>0, SubstitutedInputs DEF ReplaceUsers
    <2>2. m_users' \in [Instrs -> SUBSET (live' \cup abandoned')]
      BY <1>a, <1>0 DEF ReplaceUsers, Moved
    <2>3. \A j \in Instrs \ live : m_inputs'[j] = << >> /\ m_users'[j] = {}
      BY <1>0 DEF ReplaceUsers, Moved, Replaced
    <2> QED BY <1>a, <2>1, <2>2, <2>3 DEF ReplaceUsers
  <1>2. ASSUME NEW j \in Instrs \ abandoned', NEW w \in Instrs
        PROVE  (j \in m_users[w] <=> Uses(j, w))'
    <2>1. Uses(j, w)' <=> \/ w = v /\ (Uses(j, v) \/ Uses(j, other))
                          \/ w # v /\ w # other /\ Uses(j, w)
      <3>1. m_inputs'[j] = Replaced(v, other)[j]
        BY DEF ReplaceUsers
      <3>2. Uses(j, w)' <=> \E k \in DOMAIN m_inputs'[j] : m_inputs'[j][k] = w
        BY DEF Uses
      <3> QED BY <1>0, <3>1, <3>2, SubstitutedReads
    <2>2. /\ j \in m_users[w] <=> Uses(j, w)
          /\ j \in m_users[v] <=> Uses(j, v)
          /\ j \in m_users[other] <=> Uses(j, other)
      BY <1>a, <1>0 DEF UsersMatchInputs
    <2> QED BY <1>0, <2>1, <2>2 DEF ReplaceUsers, Moved
  <1> QED BY <1>1, <1>2 DEF UsersMatchInputs

LEMMA ReplaceInstrStep ==
  ASSUME IInv, NEW old \in live, NEW new \in Instrs, ReplaceInstr(old, new)
  PROVE  Links'
  <1> USE DEF IInv, Links, LiveLinks
  <1>0. old \in Instrs /\ new # old /\ new \notin live /\ new \notin created
    BY DEF ReplaceInstr
  <1>1. m_inputs[new] = << >> /\ m_users[new] = {} /\ m_users[old] \subseteq live
    BY <1>0 DEF ReplaceInstr, Moved
  <1>2. /\ live' = (live \ {old}) \cup {new} /\ created' = created \cup {new}
        /\ abandoned' = IF m_inputs[old] = << >> THEN abandoned ELSE abandoned \cup {old}
        /\ m_users' = [m_users EXCEPT ![new] = m_users[old], ![old] = {}]
        /\ m_inputs' = [Replaced(new, old) EXCEPT ![old] = << >>]
    BY <1>1 DEF ReplaceInstr, Moved
  <1>3. \A w \in Instrs : old \in m_users[w] => old \in abandoned'
    <2>1. \A w \in Instrs : old \in m_users[w] => Uses(old, w)
      BY <1>0, ReadersAreUsers
    <2>2. \A w \in Instrs : Uses(old, w) => m_inputs[old] # << >>
      BY DEF Uses
    <2> QED BY <2>1, <2>2, <1>2
  <1>4. LiveLinks'
    <2>1. m_inputs' \in [Instrs -> Seq(live')]
      <3>1. Replaced(new, old) \in [Instrs -> Seq(live')]
        BY <1>0, <1>2, SubstitutedInputs
      <3>2. << >> \in Seq(live')
        OBVIOUS
      <3> QED BY <1>0, <1>2, <3>1, <3>2
    <2>2. m_users' \in [Instrs -> SUBSET (live' \cup abandoned')]
      <3>1. \A w \in Instrs : m_users[w] \subseteq live' \cup abandoned'
        BY <1>2, <1>3
      <3> QED BY <1>0, <1>2, <3>1
    <2>3. ASSUME NEW j \in Instrs \ live'
          PROVE  m_inputs'[j] = << >> /\ m_users'[j] = {}
      <3>1. j # new /\ (j = old \/ j \notin live)
        BY <1>2
      <3>2. j # old => m_inputs[j] = << >> /\ m_users[j] = {}
        BY <3>1
      <3>3. m_inputs'[j] = << >>
        BY <3>1, <3>2, <1>0, <1>2 DEF Replaced
      <3>4. m_users'[j] = {}
        BY <3>1, <3>2, <1>0, <1>2
      <3> QED BY <3>3, <3>4
    <2>4. abandoned' \subseteq created' \ live'
      BY <1>0, <1>2
    <2> QED BY <1>0, <1>2, <2>1, <2>2, <2>3, <2>4 DEF ReplaceInstr
  <1>5. ASSUME NEW j \in Instrs \ abandoned', NEW w \in Instrs
        PROVE  (j \in m_users[w] <=> Uses(j, w))'
    <2>1. /\ j \in m_users[w] <=> Uses(j, w)
          /\ j \in m_users[new] <=> Uses(j, new)
          /\ j \in m_users[old] <=> Uses(j, old)
      BY <1>0, <1>2 DEF UsersMatchInputs
    <2>2. CASE j = old
      <3>1. m_inputs[old] = << >> /\ \A u \in Instrs : old \notin m_users[u]
        BY <1>2, <1>3, <2>2
      <3>2. ~Uses(j, w)'
        BY <1>0, <1>2, <2>2, <3>1 DEF Replaced, Uses
      <3> QED BY <1>0, <1>2, <2>2, <3>1, <3>2
    <2>3. CASE j # old
      <3>1. Uses(j, w)' <=> \/ w = new /\ (Uses(j, new) \/ Uses(j, old))
                            \/ w # new /\ w # old /\ Uses(j, w)
        <4>1. m_inputs'[j] = Replaced(new, old)[j]
          BY <1>2, <2>3 DEF Replaced
        <4>2. Uses(j, w)' <=> \E k \in DOMAIN m_inputs'[j] : m_inputs'[j][k] = w
          BY DEF Uses
        <4> QED BY <4>1, <4>2, <1>0, SubstitutedReads
      <3> QED BY <1>0, <1>1, <1>2, <2>1, <3>1
    <2> QED BY <2>2, <2>3
  <1> QED BY <1>4, <1>5 DEF UsersMatchInputs

(***************************************************************************)
(* set_input: with one reader among the inputs that is changed, the old    *)
(* operand loses it; with several it keeps it.                             *)
(***************************************************************************)
LEMMA SetInputStep ==
  ASSUME IInv, NEW i \in live, NEW v \in live, NEW k \in DOMAIN m_inputs[i],
         SetInput(i, k, v)
  PROVE  Links'
  <1> USE DEF IInv, Links, LiveLinks
  <1>a. abandoned' = abandoned /\ undefined' = undefined
    BY DEF SetInput
  <1> DEFINE inp == m_inputs[i][k]
             at == {l \in DOMAIN m_inputs[i] : m_inputs[i][l] = inp}
             others == \E l \in DOMAIN m_inputs[i] : l # k /\ m_inputs[i][l] = inp
  <1>0. i \in Instrs /\ v \in Instrs /\ inp \in live /\ inp \in Instrs
    OBVIOUS
  <1>1. m_inputs[i] \in Seq(live) /\ DOMAIN m_inputs[i] = 1 .. Len(m_inputs[i])
    BY <1>0
  <1>2. UsedOnce(i, inp) <=> ~others
    <2>1. IsFiniteSet(at)
      <3>1. Len(m_inputs[i]) \in Nat
        BY <1>1
      <3>2. IsFiniteSet(DOMAIN m_inputs[i])
        BY <1>1, <3>1, FS_Interval
      <3>3. at \in SUBSET (DOMAIN m_inputs[i])
        OBVIOUS
      <3> HIDE DEF at
      <3> QED BY <3>2, <3>3, FS_Subset
    <2>2. CASE others
      <3>1. PICK l \in DOMAIN m_inputs[i] : l # k /\ m_inputs[i][l] = inp
        BY <2>2
      <3>2. k \in at /\ l \in at
        BY <3>1
      <3>3. Cardinality(at) # 1
        <4> HIDE DEF at
        <4> QED BY <2>1, <3>1, <3>2, FS_Singleton
      <3> QED BY <2>2, <3>3 DEF UsedOnce
    <2>3. CASE ~others
      <3>1. at = {k}
        BY <2>3
      <3>2. Cardinality(at) = 1
        BY <3>1, FS_Singleton
      <3> QED BY <2>3, <3>2 DEF UsedOnce
    <2> QED BY <2>2, <2>3
  <1>3. /\ m_inputs' = [m_inputs EXCEPT ![i] = [@ EXCEPT ![k] = v]]
        /\ created' = created /\ live' = live
    BY DEF SetInput
  <1>4. \A w \in Instrs :
          m_users'[w] = ((IF w = inp /\ ~others THEN m_users[w] \ {i} ELSE m_users[w])
                         \cup (IF w = v THEN {i} ELSE {}))
    BY <1>0, <1>2 DEF SetInput
  <1>5. m_inputs'[i] = [m_inputs[i] EXCEPT ![k] = v]
    BY <1>0, <1>3
  <1>6. LiveLinks'
    <2>1. m_inputs'[i] \in Seq(live)
      BY <1>1, <1>5
    <2>2. m_inputs' \in [Instrs -> Seq(live')]
      BY <1>3, <1>5, <2>1
    <2>3. m_users' \in [Instrs -> SUBSET (live' \cup abandoned')]
      BY <1>a, <1>0, <1>3 DEF SetInput
    <2>4. \A j \in Instrs \ live' : m_inputs'[j] = << >> /\ m_users'[j] = {}
      BY <1>0, <1>3, <1>4
    <2> QED BY <1>a, <1>3, <2>2, <2>3, <2>4
  <1>7. ASSUME NEW j \in Instrs \ abandoned', NEW w \in Instrs
        PROVE  (j \in m_users[w] <=> Uses(j, w))'
    <2>1. j \in m_users[w] <=> Uses(j, w)
      BY <1>a DEF UsersMatchInputs
    <2>2. CASE j # i
      <3>1. m_inputs'[j] = m_inputs[j]
        BY <1>3, <2>2
      <3> QED BY <1>4, <2>1, <2>2, <3>1 DEF Uses
    <2>3. CASE j = i
      <3>1. DOMAIN m_inputs'[i] = DOMAIN m_inputs[i] /\ m_inputs'[i][k] = v
        BY <1>5
      <3>2. \A l \in DOMAIN m_inputs[i] : l # k => m_inputs'[i][l] = m_inputs[i][l]
        BY <1>5
      <3>3. Uses(i, w)' <=> w = v \/ \E l \in DOMAIN m_inputs[i] : l # k /\ m_inputs[i][l] = w
        BY <3>1, <3>2 DEF Uses
      <3>4. CASE w = inp
        BY <1>4, <2>1, <2>3, <3>3, <3>4 DEF Uses
      <3>5. CASE w # inp
        BY <1>4, <2>1, <2>3, <3>3, <3>5 DEF Uses
      <3> QED BY <3>4, <3>5
    <2> QED BY <2>2, <2>3
  <1> QED BY <1>6, <1>7 DEF UsersMatchInputs

(* replace_users reaches a deleted user: nothing changes but undefined.     *)
LEMMA WriteThroughDeletedStep ==
  ASSUME IInv, NEW other \in live, NEW v \in live \cup (Instrs \ created),
         WriteThroughDeleted(v, other)
  PROVE  IInv'
  <1> USE DEF IInv, Links, LiveLinks
  <1>1. /\ UNCHANGED <<created, live, m_inputs, m_users, abandoned>>
        /\ undefined' = TRUE
    BY DEF WriteThroughDeleted
  <1>2. \E i \in live : m_users[i] \cap abandoned # {}
    <2>1. v \notin live => m_users[v] = {}
      OBVIOUS
    <2>2. ~(m_users[v] \subseteq live) \/ ~(m_users[other] \subseteq live)
      BY DEF WriteThroughDeleted, Moved
    <2>3. CASE ~(m_users[v] \subseteq live)
      BY <2>1, <2>3
    <2>4. CASE ~(m_users[other] \subseteq live)
      BY <2>4
    <2> QED BY <2>2, <2>3, <2>4
  <1> QED BY <1>1, <1>2 DEF UsersMatchInputs, Uses, DeletedUsers

(* Every step keeps the invariant.                                         *)
LEMMA StepIInv == IInv /\ [Next]_vars => IInv'
  <1> SUFFICES ASSUME IInv, [Next]_vars PROVE IInv'
    OBVIOUS
  <1>1. CASE UNCHANGED vars
    BY <1>1 DEF vars, IInv, Links, LiveLinks, UsersMatchInputs, Uses, DeletedUsers
  <1>2. CASE Next
    <2>1. ~undefined /\ live \subseteq Instrs
      BY <1>2 DEF Next, IInv, Links, LiveLinks
    <2>a. undefined' = undefined /\ Links' => IInv'
      BY <2>1 DEF IInv, DeletedUsers
    <2>2. CASE \E i \in Instrs, ops \in OperandLists : Create(i, ops)
      BY <2>1, <2>a, <2>2, CreateStep DEF Create
    <2>3. CASE \E i, v \in live : AddInput(i, v)
      BY <2>1, <2>a, <2>3, AddInputStep DEF AddInput
    <2>4. CASE \E i, v \in live : \E k \in DOMAIN m_inputs[i] : SetInput(i, k, v)
      BY <2>1, <2>a, <2>4, SetInputStep DEF SetInput
    <2>5. CASE \E i \in live : CleanInputs(i)
      BY <2>1, <2>a, <2>5, CleanInputsStep DEF CleanInputs
    <2>6. CASE \E v, other \in live : ReplaceUsers(v, other)
      BY <2>1, <2>a, <2>6, ReplaceUsersStep DEF ReplaceUsers
    <2>7. CASE \E i \in live : Erase(i)
      BY <2>1, <2>a, <2>7, EraseStep DEF Erase
    <2>8. CASE \E old \in live, new \in Instrs : ReplaceInstr(old, new)
      BY <2>1, <2>a, <2>8, ReplaceInstrStep DEF ReplaceInstr
    <2>9. CASE \E other \in live, v \in live \cup (Instrs \ created) :
                 v # other /\ WriteThroughDeleted(v, other)
      BY <2>9, WriteThroughDeletedStep
    <2> QED BY <1>2, <2>2, <2>3, <2>4, <2>5, <2>6, <2>7, <2>8, <2>9 DEF Next
  <1> QED BY <1>1, <1>2

LEMMA InductiveInvariant == Spec => []IInv
  BY InitIInv, StepIInv, PTL DEF Spec

-----------------------------------------------------------------------------

(* Operands, users and the sets of instructions keep their types           *)
(* (instruction.hh:53-159).                                                *)
THEOREM TypeCorrect == Spec => []TypeOK
  BY InductiveInvariant, IInvTypeOK, PTL

(* An instruction is a user of exactly its inputs, for any number of       *)
(* instructions and operands, unless it was deleted with its inputs in     *)
(* place (instruction.hh:133-168).                                         *)
THEOREM UsersAreReaders == Spec => []UsersMatchInputs
  <1>1. IInv => UsersMatchInputs
    BY DEF IInv, Links
  <1> QED BY <1>1, InductiveInvariant, PTL

(* No operand is a deleted instruction, every deleted user is one that     *)
(* replace_instr deleted with its inputs in place, and nothing else makes  *)
(* replace_users write through one (instruction.hh:149-168,                *)
(* basic_block.hh:165-170, 288-297).                                       *)
THEOREM NothingDangles == Spec => []NoDangling
  BY InductiveInvariant, IInvNoDangling, PTL

(***************************************************************************)
(* The chains implement operands that are replaced everywhere at once:     *)
(* walking the recorded users misses no reader (instruction.hh:161-168).   *)
(***************************************************************************)
LEMMA InitRefines == Init => Abs!Init
  BY DEF Init, Abs!Init

LEMMA ReplacedEverywhere ==
  ASSUME IInv, NEW v \in Instrs, NEW old \in Instrs
  PROVE  Replaced(v, old) = [i \in Instrs |-> Abs!Subst(m_inputs[i], old, v)]
  <1> SUFFICES ASSUME NEW i \in Instrs
               PROVE  Replaced(v, old)[i] = Abs!Subst(m_inputs[i], old, v)
    BY DEF Replaced
  <1>1. CASE i \in Moved(v, old)
    BY <1>1 DEF Replaced, Abs!Subst
  <1>2. CASE i \notin Moved(v, old)
    <2>1. m_inputs[i] \in Seq(live) /\ Replaced(v, old)[i] = m_inputs[i]
      BY <1>2 DEF Replaced, IInv, Links, LiveLinks
    <2>2. \A k \in DOMAIN m_inputs[i] : m_inputs[i][k] # old
      BY <1>2, ReadersAreUsers DEF Moved, Uses
    <2>3. Abs!Subst(m_inputs[i], old, v) = m_inputs[i]
      BY <2>1, <2>2 DEF Abs!Subst
    <2> QED BY <2>1, <2>3
  <1> QED BY <1>1, <1>2

LEMMA StepRefines ==
  IInv /\ IInv' /\ [Next]_vars => [Abs!Next]_<<live, m_inputs>>
  <1> SUFFICES ASSUME IInv, IInv', [Next]_vars PROVE [Abs!Next]_<<live, m_inputs>>
    OBVIOUS
  <1> USE DEF IInv, Links, LiveLinks
  <1>1. ASSUME NEW i \in Instrs, NEW ops \in OperandLists, Create(i, ops)
        PROVE  Abs!Create(i)
    BY <1>1, OperandListsAreSequences DEF Create, Abs!Create
  <1>2. ASSUME NEW i \in live, NEW v \in live, AddInput(i, v)
        PROVE  Abs!Change(i)
    BY <1>2 DEF AddInput, Abs!Change
  <1>3. ASSUME NEW i \in live, NEW v \in live, NEW k \in DOMAIN m_inputs[i],
               SetInput(i, k, v)
        PROVE  Abs!Change(i)
    BY <1>3 DEF SetInput, Abs!Change
  <1>4. ASSUME NEW i \in live, CleanInputs(i)
        PROVE  Abs!Change(i)
    BY <1>4 DEF CleanInputs, Cleaned, Abs!Change
  <1>5. ASSUME NEW v \in live, NEW other \in live, ReplaceUsers(v, other)
        PROVE  Abs!ReplaceAll(other, v)
    BY <1>5, ReplacedEverywhere DEF ReplaceUsers, Abs!ReplaceAll
  <1>6. ASSUME NEW i \in live, Erase(i)
        PROVE  Abs!Remove(i)
    BY <1>6, ReadersAreUsers DEF Erase, Cleaned, Abs!Remove, Abs!Reads, Uses
  <1>7. ASSUME NEW old \in live, NEW new \in Instrs, ReplaceInstr(old, new)
        PROVE  Abs!Exchange(old, new)
    <2>1. old \in Instrs /\ new \notin live
      BY <1>7 DEF ReplaceInstr
    <2>2. Replaced(new, old) = [i \in Instrs |-> Abs!Subst(m_inputs[i], old, new)]
      BY <2>1, ReplacedEverywhere
    <2>3. /\ live' = (live \ {old}) \cup {new}
          /\ m_inputs' = [Replaced(new, old) EXCEPT ![old] = << >>]
      BY <1>7 DEF ReplaceInstr
    <2>4. m_inputs' = [i \in Instrs |->
                         IF i = old THEN << >> ELSE Abs!Subst(m_inputs[i], old, new)]
      BY <2>2, <2>3
    <2> QED BY <2>1, <2>3, <2>4 DEF Abs!Exchange
  <1>8. CASE UNCHANGED vars
    BY <1>8 DEF vars
  <1>9. CASE Next
    BY <1>9, <1>1, <1>2, <1>3, <1>4, <1>5, <1>6, <1>7
       DEF Next, WriteThroughDeleted, Abs!Next
  <1> QED BY <1>8, <1>9

THEOREM Refinement == Spec => ImplementsOperandSpec
  BY InductiveInvariant, InitRefines, StepRefines, PTL
     DEF Spec, ImplementsOperandSpec, Abs!Spec
=============================================================================
