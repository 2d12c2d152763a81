----------------------------- MODULE ClientList -----------------------------
(***************************************************************************)
(* ClientList (osat_server/src/ClientList.h): a map from ids to maps from  *)
(* addresses to configurations. No inner map is ever empty, since insert   *)
(* makes one together with its first client, so a list is taken as one     *)
(* function on pairs of an id and an address. Ids and addresses are        *)
(* numbers in the order in which the maps keep them.                       *)
(***************************************************************************)
EXTENDS Naturals

EmptyList == [pair \in {} |-> {}]

Least(S) == CHOOSE n \in S : \A k \in S : n <= k

getIds(list) == {pair[1] : pair \in DOMAIN list}
At(list, id) == {pair[2] : pair \in {p \in DOMAIN list : p[1] = id}}
Contains(list, id, ip) == <<id, ip>> \in DOMAIN list

\* insert and update_config of the client <<id, ip>>.
Insert(list, id, ip, cfg) ==
  [pair \in DOMAIN list \cup {<<id, ip>>} |-> IF pair = <<id, ip>> THEN cfg ELSE list[pair]]
UpdateConfig(list, id, ip, cfg) == [list EXCEPT ![<<id, ip>>] = cfg]

\* at(id).begin() and front().begin(): the first configuration under an id
\* and under the first id.
First(list, id) == list[<<id, Least(At(list, id))>>]
Front(list) == First(list, Least(getIds(list)))
=============================================================================
