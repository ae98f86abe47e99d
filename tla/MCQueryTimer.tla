---------------------------- MODULE MCQueryTimer ----------------------------
(***************************************************************************)
(* QueryTimer for TLC, in units of 250 ms.                                 *)
(***************************************************************************)
EXTENDS QueryTimer, TLC

Symmetric == Permutations(Hosts)
=============================================================================
