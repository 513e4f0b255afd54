------------------------------- MODULE MCAccounts -------------------------------
(***************************************************************************)
(* Two of everybody: people, links, timezones, slugs, event types and      *)
(* requests, and a team. The people are the hosts, and every part has the  *)
(* same requests. The run has invariants only, so that the symmetry is     *)
(* sound.                                                                  *)
(***************************************************************************)
EXTENDS Accounts, TLC

MCPolicies == {People, {}}

Interchangeable == UNION {Permutations(S) : S \in {People, Requests, Listings}}
================================================================================
