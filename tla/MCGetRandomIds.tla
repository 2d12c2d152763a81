-------------------------- MODULE MCGetRandomIds ---------------------------
(***************************************************************************)
(* Three ids and two wanted: the states the call may meet include all, two,*)
(* one and none of the ids being eligible.                                 *)
(***************************************************************************)
EXTENDS GetRandomIds
ThreeIds == 1 .. 3
=============================================================================
