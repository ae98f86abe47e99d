--------------------------------- MODULE Lxd ---------------------------------
(***************************************************************************)
(* What a host's LXD reports for a container, as the callers of            *)
(* local_query (src/lxd.rs) see it: nothing, or the global IPv6 addresses  *)
(* of a running instance, possibly none.                                   *)
(***************************************************************************)
CONSTANT Addrs   \* global IPv6 addresses

(***************************************************************************)
(* Option<Vec<Ipv6Addr>>: no element for None, one for Some.               *)
(***************************************************************************)
None == {}

Some(a) == {a}

LocalResult == {None} \cup {Some(a) : a \in SUBSET Addrs}
=============================================================================
