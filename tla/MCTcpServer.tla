---------------------------- MODULE MCTcpServer ----------------------------
(***************************************************************************)
(* TcpServer on small instances. Two connections on a server for one       *)
(* client are enough for every race between a leaving and an arriving      *)
(* client; three on a server for two let an erase meet a half-full map.    *)
(***************************************************************************)
EXTENDS TcpServer, TLC
CONSTANTS e1, e2, e3

TwoEndpoints == {e1, e2}
ThreeEndpoints == {e1, e2, e3}
Silent == {0}           \* OsatManager's callback writes nothing back
Terminal == {1, 2}      \* tcp_read_cb answers each command

\* Sound for the safety runs: no endpoint is told from another.
EndpointSymmetry == Permutations(ThreeEndpoints)
=============================================================================
