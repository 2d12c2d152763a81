----------------------------- MODULE MCFirmware -----------------------------
(***************************************************************************)
(* Firmware with the commands a game sends, FLASH, and an id out of range. *)
(* The clock advances in steps of the default timeout.                     *)
(***************************************************************************)
EXTENDS Firmware

Cmd(kind, value) == [kind |-> kind, value |-> value]

Timed == {Cmd("ACTIVE_TO", 0)}
Mixed == Timed \cup {Cmd("ACTIVE", 0), Cmd("INACTIVE", 0), Cmd("FLASH", 0),
                     Cmd("TIMEOUT", 1000), Cmd("ID", 256)}
=============================================================================
