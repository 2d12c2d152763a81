--------------------------- MODULE GetRandomIds ----------------------------
(***************************************************************************)
(* Mode::getRandomIds (osat_server/src/Mode.h), draw by draw. RandomIds of *)
(* module Modes says in one step what a call may return; this is the loop  *)
(* it stands for.                                                          *)
(***************************************************************************)
EXTENDS Modes, Sequences

CONSTANTS
  Ids,       \* _cfg.ids
  Num,       \* num
  Required   \* state_reqired, possibly "ANY"

ASSUME GetRandomIdsAssumption ==
  /\ IsFiniteSet(Ids) /\ Ids # {}
  /\ Num \in 0 .. 255

CntMax == Cardinality(Ids) * Num

VARIABLES
  states,    \* _states, which a call only reads
  rnd_ids,   \* the vector that will be returned
  cnt,       \* draws so far
  returned

vars == <<states, rnd_ids, cnt, returned>>

Picked == {rnd_ids[k] : k \in 1 .. Len(rnd_ids)}

\* Seeded fault: the state is not looked at.
SeededEligible(i) == i \in Ids

Eligible(i) == Required \in {states[i], "ANY"}

TypeOK ==
  /\ states \in [Ids -> OsatStates]
  /\ rnd_ids \in Seq(Ids)
  /\ cnt \in 0 .. CntMax + 2
  /\ returned \in BOOLEAN

Init ==
  /\ states \in [Ids -> OsatStates]
  /\ rnd_ids = <<>> /\ cnt = 0 /\ returned = FALSE

\* Seeded fault: the loop over what was drawn before is missing.
SeededDrawAgain ==
  /\ ~returned /\ Len(rnd_ids) < Num
  /\ \E rnd \in Ids :
       rnd_ids' = IF Eligible(rnd) THEN Append(rnd_ids, rnd) ELSE rnd_ids
  /\ cnt' = cnt + 1 /\ returned' = (cnt > CntMax)
  /\ UNCHANGED states

\* Seeded fault: no backup, only useful draws count.
SeededDrawForEver ==
  /\ ~returned /\ Len(rnd_ids) < Num
  /\ \E rnd \in Ids :
       rnd_ids' = IF Eligible(rnd) /\ rnd \notin Picked
                  THEN Append(rnd_ids, rnd) ELSE rnd_ids
  /\ UNCHANGED <<states, cnt, returned>>

\* Seeded fault: the backup looks at a count that was not reset.
SeededDrawPast ==
  /\ ~returned /\ Len(rnd_ids) < Num
  /\ \E rnd \in Ids :
       rnd_ids' = IF Eligible(rnd) /\ rnd \notin Picked
                  THEN Append(rnd_ids, rnd) ELSE rnd_ids
  /\ cnt' = cnt + 1 /\ returned' = (cnt > CntMax + 1)
  /\ UNCHANGED states

Draw ==
  /\ ~returned /\ Len(rnd_ids) < Num
  /\ \E rnd \in Ids :
       rnd_ids' = IF Eligible(rnd) /\ rnd \notin Picked
                  THEN Append(rnd_ids, rnd) ELSE rnd_ids
  /\ cnt' = cnt + 1
  /\ returned' = (cnt > CntMax)      \* the backup for a wrong configuration
  /\ UNCHANGED states

Return ==
  /\ ~returned /\ Len(rnd_ids) >= Num
  /\ returned' = TRUE
  /\ UNCHANGED <<states, rnd_ids, cnt>>

Next == Draw \/ Return
Spec == Init /\ [][Next]_vars /\ WF_vars(Next)

-----------------------------------------------------------------------------
\* No id is returned twice: a tick never spends two of its activations on
\* one Osat, however often the generator repeats itself (Mode.h:190-198).
NoneTwice == Cardinality(Picked) = Len(rnd_ids)

\* What a call returns is one of the choices RandomIds gives the modes. In
\* particular a call comes back with too few ids only if one of its draws
\* could miss, and never with an id in another state (Mode.h:201-213).
ReturnsAChoice ==
  returned =>
    Picked \in RandomIds([cfg |-> [ids |-> Ids], states |-> states], Num, Required)

\* A call comes back, whatever is drawn: the game loop never hangs in it,
\* even when no Osat is in the wanted state (Mode.h:210).
Returns == <>returned
=============================================================================
