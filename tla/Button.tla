------------------------------- MODULE Button -------------------------------
(***************************************************************************)
(* What the server may believe of one Osat: a button that lights up on     *)
(* command and reports a hit or a timeout once per activation. A command   *)
(* can be lost only to a newer one, or to a power cut. The devices of      *)
(* OsatServer are such buttons; a connection to them may fail, too.        *)
(***************************************************************************)
EXTENDS Naturals, Sequences

CONSTANT Commands   \* records with a field kind

\* The states a command can ask for.
Lights == {"ACTIVE", "ACTIVE_TO", "INACTIVE", "FLASH"}

VARIABLES
  light,   \* the state the button is in
  heard,   \* commands written to it and not taken yet
  told     \* the hits and timeouts it has reported

Init == light = "IDLE" /\ heard = <<>> /\ told = <<>>

Command(c) == heard' = Append(heard, c) /\ UNCHANGED <<light, told>>

Take ==
  \E k \in 1 .. Len(heard) :
    /\ heard' = SubSeq(heard, k + 1, Len(heard))
    /\ light' = IF heard[k].kind \in Lights THEN heard[k].kind ELSE light
    /\ UNCHANGED told

Lose == Len(heard) > 1 /\ heard' = Tail(heard) /\ UNCHANGED <<light, told>>

Hit ==
  /\ light \in {"ACTIVE", "ACTIVE_TO", "FLASH"}
  /\ light' = IF light = "FLASH" THEN light ELSE "INACTIVE"
  /\ told' = Append(told, "hit")
  /\ UNCHANGED heard

Timeout ==
  /\ light = "ACTIVE_TO" /\ light' = "INACTIVE"
  /\ told' = Append(told, "timeout")
  /\ UNCHANGED heard

PowerCut == light' = "IDLE" /\ heard' = <<>> /\ UNCHANGED told

Next == (\E c \in Commands : Command(c)) \/ Take \/ Lose \/ Hit \/ Timeout \/ PowerCut

Spec == Init /\ [][Next]_<<light, heard, told>>
=============================================================================
