---------------------------- MODULE MCSyncCycle ----------------------------
(***************************************************************************)
(* SyncCycle with two calls: "q" is proposed by the match function of the  *)
(* second, every other match by that of the first.                         *)
(***************************************************************************)
EXTENDS SyncCycle

MCCallOf == [p \in Proposals |-> IF p = "q" THEN "c2" ELSE "c1"]

\* Every match has an id of its own.
MCDistinctIds == [p \in Proposals |-> p]

\* The match functions of the two calls use one id, next to ids of their own.
MCSharedId == [p \in Proposals |-> IF p = "p2" THEN "p2" ELSE "id"]
=============================================================================
