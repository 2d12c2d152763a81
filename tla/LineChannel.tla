---------------------------- MODULE LineChannel ----------------------------
(***************************************************************************)
(* What the read callback of a TcpServer is promised, seen from the        *)
(* callback alone: the bytes of each connection arrive once, in the order  *)
(* they were sent, cut into pieces that each hold at least one line end.   *)
(* A piece is not a line: it may start and end in the middle of one.       *)
(***************************************************************************)
EXTENDS Naturals, Sequences

CONSTANTS
  Endpoints,  \* the connections, each named by its ip and port
  LineLen     \* a line is LineLen bytes, the last of them its "\n"

VARIABLES
  sent,       \* sent[e]: bytes the peer has written so far
  calls       \* calls[e]: the pieces handed to the callback, as byte ranges

\* The range ends on or contains a line end.
HoldsLineEnd(first, last) == \E b \in first .. last : b % LineLen = 0

\* The last byte of e that the callback has seen.
Upto(e) == IF calls[e] = <<>> THEN 0 ELSE calls[e][Len(calls[e])].last

Init == /\ sent = [e \in Endpoints |-> 0]
        /\ calls = [e \in Endpoints |-> <<>>]

Send(e) == /\ sent' = [sent EXCEPT ![e] = @ + 1]
           /\ UNCHANGED calls

Deliver(e) ==
  \E last \in Upto(e) + 1 .. sent[e] :
    /\ HoldsLineEnd(Upto(e) + 1, last)
    /\ calls' = [calls EXCEPT ![e] =
                   Append(@, [first |-> Upto(e) + 1, last |-> last])]
    /\ UNCHANGED sent

Next == \E e \in Endpoints : Send(e) \/ Deliver(e)

Spec == Init /\ [][Next]_<<sent, calls>>
=============================================================================
