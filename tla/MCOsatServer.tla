---------------------------- MODULE MCOsatServer ---------------------------
(***************************************************************************)
(* OsatServer on small instances: two devices, few hits, few commands.     *)
(***************************************************************************)
EXTENDS OsatServer, TLC
CONSTANTS o1, o2

Config(name, type, ids) ==
  [mode_name |-> name, mode_type |-> type, ids |-> ids,
   max_timeout_count |-> 2, activate_count |-> 1]

TwoOsats == {o1, o2}
OwnId == o1 :> 1 @@ o2 :> 2
SameId == o1 :> 1 @@ o2 :> 1
Own == {OwnId}
OwnOrSame == {OwnId, SameId}
RandomN == {Config("n", "random_n", {1, 2})}
Fills == {Config("f", "random_fill", {1, 2}), Config("r", "reverse_fill", {1, 2})}
OneN == {RandomN}
OneFills == {Fills}
Overlapping == {RandomN \cup {Config("m", "random_n", {1})}}
NOrFills == {RandomN, Fills}
AllOfOne == {Config("n", "random_n", {1}), Config("f", "random_fill", {1}),
             Config("r", "reverse_fill", {1})}
Mixed == {RandomN, Fills \cup {Malformed}, AllOfOne}
=============================================================================
