------------------------- MODULE GetRandomIdsProofs -------------------------
(***************************************************************************)
(* Proofs about Mode::getRandomIds for any ids, states, num and required   *)
(* state: the loop returns one of the choices RandomIds describes, which   *)
(* is what the model of the modes is built on.                             *)
(***************************************************************************)
EXTENDS GetRandomIds, FiniteSetTheorems, SequenceTheorems, TLAPS

Missable == Picked # {} \/ \E i \in Ids : ~Eligible(i)

(***************************************************************************)
(* The last conjunct but one carries the argument: a draw that added       *)
(* nothing was possible only because it could miss, and the backup ends    *)
(* the loop only after more draws than ids were wanted.                    *)
(***************************************************************************)
Inv ==
  /\ TypeOK
  /\ IsFiniteSet(Picked) /\ Cardinality(Picked) = Len(rnd_ids)
  /\ \A i \in Picked : Eligible(i)
  /\ Len(rnd_ids) <= Num /\ Len(rnd_ids) <= cnt
  /\ ~returned => cnt <= CntMax + 1
  /\ Len(rnd_ids) < cnt => Missable
  /\ returned => Len(rnd_ids) = Num \/ cnt = CntMax + 2

LEMMA CntMaxFact == CntMax \in Nat /\ Num \in Nat /\ Num <= CntMax
<1>1. Cardinality(Ids) \in Nat \ {0} /\ Num \in Nat
  BY GetRandomIdsAssumption, FS_CardinalityType, FS_EmptySet
<1>2. \A c \in Nat \ {0}, n \in Nat : c * n \in Nat /\ n <= c * n
  OBVIOUS
<1> QED  BY <1>1, <1>2 DEF CntMax

\* The range of a vector grows by the element pushed back.
LEMMA PushBack ==
  ASSUME TypeOK, NEW rnd \in Ids, rnd_ids' = Append(rnd_ids, rnd)
  PROVE  /\ Picked' = Picked \cup {rnd}
         /\ Len(rnd_ids') = Len(rnd_ids) + 1
<1>1. /\ Len(rnd_ids') = Len(rnd_ids) + 1
      /\ \A k \in 1 .. Len(rnd_ids) : rnd_ids'[k] = rnd_ids[k]
      /\ rnd_ids'[Len(rnd_ids) + 1] = rnd
  BY AppendProperties DEF TypeOK
<1>2. Len(rnd_ids) \in Nat
  BY DEF TypeOK
<1> QED  BY <1>1, <1>2 DEF Picked

LEMMA InvInit == Init => Inv
<1> SUFFICES ASSUME Init PROVE Inv
  OBVIOUS
<1>1. TypeOK /\ cnt = 0 /\ Len(rnd_ids) = 0 /\ ~returned
  <2>1. cnt = 0 /\ cnt \in 0 .. CntMax + 2  BY CntMaxFact DEF Init
  <2>2. rnd_ids \in Seq(Ids) /\ Len(rnd_ids) = 0  BY EmptySeq DEF Init
  <2>3. returned = FALSE /\ states \in [Ids -> OsatStates]  BY DEF Init
  <2> QED  BY <2>1, <2>2, <2>3 DEF TypeOK
<1>2. Picked = {}
  BY <1>1 DEF Picked
<1> QED  BY <1>1, <1>2, CntMaxFact, FS_EmptySet DEF Inv

LEMMA InvDraw ==
  ASSUME Inv, Draw
  PROVE  Inv'
<1> USE CntMaxFact DEF Inv
<1>1. PICK rnd \in Ids :
        rnd_ids' = IF Eligible(rnd) /\ rnd \notin Picked
                   THEN Append(rnd_ids, rnd) ELSE rnd_ids
  BY DEF Draw
<1>2. Len(rnd_ids) \in Nat /\ cnt \in Nat /\ cnt <= CntMax + 1 /\ cnt' = cnt + 1
      /\ Len(rnd_ids) < Num /\ UNCHANGED states /\ ~returned
  BY DEF Draw, TypeOK
<1>3. returned' \in BOOLEAN /\ (returned' <=> cnt > CntMax)
  <2>1. returned' = (cnt > CntMax)  BY DEF Draw
  <2>2. (cnt > CntMax) \in BOOLEAN  BY <1>2
  <2> QED  BY <2>1, <2>2, Zenon
<1>4. returned' => cnt' = CntMax + 2
  BY <1>2, <1>3
<1>5. ~returned' => cnt' <= CntMax + 1
  BY <1>2, <1>3
<1>6. CASE Eligible(rnd) /\ rnd \notin Picked
  <2>1. rnd_ids' = Append(rnd_ids, rnd)  BY <1>1, <1>6
  <2>2. Picked' = Picked \cup {rnd} /\ Len(rnd_ids') = Len(rnd_ids) + 1
    BY <2>1, PushBack
  <2>3. IsFiniteSet(Picked') /\ Cardinality(Picked') = Len(rnd_ids')
    BY <1>6, <2>2, FS_AddElement
  <2>4. TypeOK'
    BY <1>2, <1>3, <2>1, AppendProperties DEF TypeOK
  <2>5. (\A i \in Picked' : Eligible(i)') /\ Missable'
    BY <1>2, <1>6, <2>2 DEF Eligible, Missable
  <2> QED  BY <1>2, <1>4, <1>5, <2>2, <2>3, <2>4, <2>5
<1>7. CASE ~(Eligible(rnd) /\ rnd \notin Picked)
  <2>1. UNCHANGED <<rnd_ids, Picked>>
    BY <1>1, <1>7 DEF Picked
  <2>2. TypeOK'
    BY <1>2, <1>3, <2>1 DEF TypeOK
  <2>3. (\A i \in Picked' : Eligible(i)') /\ Missable'
    BY <1>2, <1>7, <2>1 DEF Eligible, Missable
  <2> QED  BY <1>2, <1>4, <1>5, <2>1, <2>2, <2>3
<1> QED  BY <1>6, <1>7

LEMMA InvReturn ==
  ASSUME Inv, Return \/ UNCHANGED vars
  PROVE  Inv'
<1>1. UNCHANGED <<states, rnd_ids, cnt, Picked>>
  BY DEF Return, vars, Picked
<1>2. CASE Return
  <2>1. returned' /\ Len(rnd_ids) = Num
    BY <1>2, CntMaxFact DEF Return, Inv, TypeOK
  <2> QED  BY <1>1, <1>2, <2>1 DEF Return, Inv, TypeOK, Eligible, Missable
<1>3. CASE UNCHANGED vars
  BY <1>1, <1>3 DEF vars, Inv, TypeOK, Eligible, Missable
<1> QED  BY <1>2, <1>3

LEMMA InvAlways == Spec => []Inv
<1>1. Inv /\ [Next]_vars => Inv'
  BY InvDraw, InvReturn DEF Next
<1> QED  BY <1>1, InvInit, PTL DEF Spec

\* The variables keep their types; with cnt, that a call makes no more than
\* CntMax + 2 draws, whatever it draws and whatever state is wanted
\* (Mode.h:210).
THEOREM CallTypes == Spec => []TypeOK
<1>1. Inv => TypeOK
  BY DEF Inv
<1> QED  BY <1>1, InvAlways, PTL

\* The vector never holds an id twice.
THEOREM NeverTwice == Spec => []NoneTwice
<1>1. Inv => NoneTwice
  BY DEF Inv, NoneTwice
<1> QED  BY <1>1, InvAlways, PTL

\* Whatever is drawn, a call returns one of the choices of RandomIds.
THEOREM LoopRefinesChoice == Spec => []ReturnsAChoice
<1>1. Inv => ReturnsAChoice
  <2> SUFFICES ASSUME Inv, returned
               PROVE  Picked \in RandomIds([cfg |-> [ids |-> Ids], states |-> states],
                                           Num, Required)
    BY DEF ReturnsAChoice
  <2> DEFINE eligible == {i \in Ids : Required \in {states[i], "ANY"}}
  <2>1. Picked \in SUBSET eligible
    <3> SUFFICES ASSUME NEW i \in Picked PROVE i \in eligible
      OBVIOUS
    <3>1. rnd_ids \in Seq(Ids) /\ Required \in {states[i], "ANY"}
      BY DEF Inv, TypeOK, Eligible
    <3>2. PICK k \in 1 .. Len(rnd_ids) : i = rnd_ids[k]
      BY DEF Picked
    <3>3. i \in Ids
      BY <3>1, <3>2, ElementOfSeq
    <3> QED  BY <3>1, <3>3
  <2>2. \/ Cardinality(Picked) = Num
        \/ Cardinality(Picked) < Num /\ (Picked # {} \/ eligible # Ids)
    <3>1. Len(rnd_ids) \in Nat  BY DEF Inv, TypeOK
    <3>2. CASE Len(rnd_ids) = Num  BY <3>2 DEF Inv
    <3>3. CASE Len(rnd_ids) < Num /\ cnt = CntMax + 2
      <4>1. Missable  BY <3>1, <3>3, CntMaxFact DEF Inv
      <4> QED  BY <3>3, <4>1 DEF Inv, Missable, Eligible
    <3> QED  BY <3>1, <3>2, <3>3, CntMaxFact DEF Inv
  <2> QED  BY <2>1, <2>2 DEF RandomIds
<1> QED  BY <1>1, InvAlways, PTL
=============================================================================
