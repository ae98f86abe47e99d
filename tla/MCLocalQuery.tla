----------------------------- MODULE MCLocalQuery -----------------------------
(***************************************************************************)
(* LocalQuery for TLC: "web1" is asked for on a host that can have "web1", *)
(* "web12", which matches too, and "web2", which does not.                 *)
(***************************************************************************)
EXTENDS LocalQuery

Name(digits) == [base |-> "web", digits |-> digits]

Web1 == Name(<<1>>)

Mixed == {Name(<<1>>), Name(<<1, 2>>), Name(<<2>>)}

Global1 == [addr |-> "a1", family |-> "inet6", scope |-> "global"]

Link1 == [addr |-> "fe80", family |-> "inet6", scope |-> "link"]

Legacy1 == [addr |-> "v4", family |-> "inet", scope |-> "global"]

Interfaces == {Global1, Link1, Legacy1}
=============================================================================
