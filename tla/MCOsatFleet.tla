---------------------------- MODULE MCOsatFleet ----------------------------
(***************************************************************************)
(* OsatFleet on a small instance: two devices at the addresses 2 and 4, no *)
(* device at 3. The first device has the id that the tool is to give.      *)
(***************************************************************************)
EXTENDS OsatFleet, TLC

TwoOsats == {2, 4}
OneVacant == {3}
Both(a, b) == 2 :> a @@ 4 :> b
Apart == Both([id |-> 1, hit_thresh |-> 50], [id |-> 2, hit_thresh |-> 60])
Cmd(k, v) == [kind |-> k, value |-> v]
Fleet(a, b, unread) == [saved |-> Apart, light |-> Both(a, b), toOsat |-> unread]

\* Devices as a game leaves them, and fresh ones of which a set-id tool that
\* was interrupted has written to one.
Left == {Fleet("INACTIVE", "ACTIVE", Both(<<>>, <<>>)),
         Fleet("IDLE", "IDLE", Both(<<>>, <<Cmd("CFG-ID", 1)>>))}

\* Cut to an accepted value, refused.
Values == {65586, 0}
=============================================================================
