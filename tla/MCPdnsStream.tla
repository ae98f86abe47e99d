----------------------------- MODULE MCPdnsStream -----------------------------
(***************************************************************************)
(* PdnsStream for TLC: the domain "a.b", the same with an upper case       *)
(* letter, and "b" alone.                                                  *)
(***************************************************************************)
EXTENDS PdnsStream

Text(t, u) == [text |-> t, upper |-> u]

DomainsAB ==
  {<<Text("a", FALSE), Text("b", FALSE)>>,
   <<Text("a", TRUE), Text("b", FALSE)>>,
   <<Text("b", FALSE)>>}
=============================================================================
