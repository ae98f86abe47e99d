---------------------------- MODULE MCAmqpResolve ----------------------------
(***************************************************************************)
(* AmqpResolve for TLC.  Hosts, connections and names are interchangeable: *)
(* no definition tells two of a kind apart.                                *)
(***************************************************************************)
EXTENDS AmqpResolve, TLC

Symmetric == Permutations(Nodes) \cup Permutations(Conns) \cup Permutations(Names)
=============================================================================
