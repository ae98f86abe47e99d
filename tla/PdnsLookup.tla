------------------------------ MODULE PdnsLookup ------------------------------
(***************************************************************************)
(* What lxddns answers to a lookup of PowerDNS (src/pdns.rs):              *)
(* QueryParameters.type_for_domain, which decides from the name and type   *)
(* alone whether the backend must be asked, and SmartResponse.response and *)
(* DumbResponse.response, which make the records.                          *)
(*                                                                         *)
(* A DNS name is a sequence of labels.  The code cuts strings, always at a *)
(* dot, which is the same.                                                 *)
(***************************************************************************)
EXTENDS Lxd, Sequences, Naturals

LOCAL INSTANCE SequencesExt

CONSTANTS
  HostTexts,    \* texts made of letters, digits and dashes
  OtherTexts,   \* texts that are no container name, "_acme-challenge" excepted
  Domains,      \* values of --domain, as sequences of labels
  MaxLabels     \* bound of the model: labels of a name that PowerDNS asks for

Acme == "_acme-challenge"

ASSUME LookupAssumption == Acme \notin HostTexts /\ MaxLabels \in Nat

Texts == HostTexts \cup OtherTexts \cup {Acme}

(***************************************************************************)
(* A label is a text and whether it has upper case letters.                *)
(***************************************************************************)
Label == [text : Texts, upper : BOOLEAN]

Names == UNION {[1..k -> Label] : k \in 1..MaxLabels}

ASSUME DomainAssumption == \A d \in Domains : d \in Seq(Label) /\ d # <<>>

\* The types the code tells apart, and one that stands for all others.
QTypes == {"SOA", "ANY", "AAAA", "TXT"}

\* deserialize_string_lowercase; it is applied to the name, not to the domain.
Lower(q) == [k \in DOMAIN q |-> [q[k] EXCEPT !.upper = FALSE]]

\* ContainerName.from_str on what is left of a name.
IsContainer(r) == Len(r) = 1 /\ r[1].text \in HostTexts /\ ~ r[1].upper

Dumb(response) == [kind |-> "dumb", response |-> response]

Smart(container) == [kind |-> "smart", container |-> container]

Nxdomain == [kind |-> "nxdomain"]

Soa == [kind |-> "soa"]

NsTo(target) == [kind |-> "acme", target |-> target]

(***************************************************************************)
(* type_for_domain: a challenge below the domain, with r left of the name, *)
(* anything else below it, and any name.                                   *)
(***************************************************************************)
AcmeLookupRelative(r, t, d) ==   \* mistake: the target lacks the domain
  IF IsContainer(r) /\ t # "SOA" THEN Dumb(NsTo(r)) ELSE Dumb(Nxdomain)

AcmeLookup(r, t, d) ==
  IF IsContainer(r) /\ t # "SOA" THEN Dumb(NsTo(r \o d)) ELSE Dumb(Nxdomain)

ContainerLookup(r, t) ==
  IF IsContainer(r) /\ t \in {"ANY", "AAAA"} THEN Smart(r) ELSE Dumb(Nxdomain)

TypeForDomain(q, t, d) ==
  IF IsStrictSuffix(d, q)
  THEN LET r == SubSeq(q, 1, Len(q) - Len(d)) IN
       IF Len(r) > 1 /\ r[1] = [text |-> Acme, upper |-> FALSE]
       THEN AcmeLookup(Tail(r), t, d)
       ELSE ContainerLookup(r, t)
  ELSE IF q = d THEN Dumb(Soa) ELSE Dumb(Nxdomain)

(***************************************************************************)
(* The records of a response: each has the name asked for, a type and a    *)
(* content.                                                                *)
(***************************************************************************)
Record(q, t, content) == [qname |-> q, qtype |-> t, content |-> content]

DumbRecords(response, q, d) ==
  CASE response.kind = "acme"     -> {Record(q, "NS", response.target)}
    [] response.kind = "nxdomain" -> {}
    [] response.kind = "soa"      -> {Record(d, "SOA", d)}

\* mistake: one record for all addresses
SmartRecordsNested(q, found) == {Record(q, "AAAA", a) : a \in found}

SmartRecords(q, found) == {Record(q, "AAAA", a) : a \in UNION found}

Records(lookup, q, d, found) ==
  IF lookup.kind = "smart" THEN SmartRecords(q, found)
                           ELSE DumbRecords(lookup.response, q, d)
=============================================================================
