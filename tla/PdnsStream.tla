------------------------------ MODULE PdnsStream ------------------------------
(***************************************************************************)
(* PowerDNS's conversations, one after the other, on a pipe (Pipe.run of   *)
(* src/amqp/pipe.rs and src/http/pipe.rs) or a socket: the backend is      *)
(* opened, then a line is read, answered, and the answer written and       *)
(* flushed before the next is read (src/pdns_io.rs, Handler.run).  When    *)
(* the conversation has ended PowerDNS begins another.  The backend is     *)
(* any: it returns, fails, or is cut off by the limit.                     *)
(***************************************************************************)
EXTENDS PdnsLookup

VARIABLES
  phase,     \* open, read, backend, write: what is waited for; closed, failed
  domain,    \* --domain
  query,     \* the lookup being answered, or Other
  response,  \* what is to be written, or was last: records, or TRUE or FALSE
  returned   \* history: what the backend returned for the last lookup

vars == <<phase, domain, query, response, returned>>

Lookup(q, t) == [qname |-> q, qtype |-> t]

Other == Lookup(<<>>, "none")   \* a line that is no lookup

\* A response keeps records and result apart; a lookup has no result.
Result(b) == [result |-> {b}, records |-> {}]

RecordsOf(q, found) ==
  [result  |-> {},
   records |-> Records(TypeForDomain(q.qname, q.qtype, domain), q.qname, domain, found)]

Init ==
  /\ phase = "open"
  /\ domain \in Domains
  /\ query = Other
  /\ response = Result(FALSE)
  /\ returned = None

\* The channel and the response queue, or the HTTP client, are there.
Opened ==
  /\ phase = "open"
  /\ phase' = "read"
  /\ UNCHANGED <<domain, query, response, returned>>

\* The broker, or the making of the client, reports an error.
OpenFails ==
  /\ phase = "open"
  /\ phase' = "failed"
  /\ UNCHANGED <<domain, query, response, returned>>

\* PowerDNS runs the command of the pipe again, or connects again.
Relaunch ==
  /\ phase \in {"closed", "failed"}
  /\ phase' = "open"
  /\ query' = Other
  /\ response' = Result(FALSE)
  /\ UNCHANGED <<domain, returned>>

\* A lookup: only a container's goes to the backend.
ReadLookup(q, t) ==
  /\ phase = "read"
  /\ query' = Lookup(Lower(q), t)
  /\ returned' = None
  /\ LET lookup == TypeForDomain(Lower(q), t, domain) IN
     \/ /\ lookup.kind = "smart"
        /\ phase' = "backend"
        /\ UNCHANGED response
     \/ /\ lookup.kind = "dumb"
        /\ phase' = "write"
        /\ response' = RecordsOf(query', None)
  /\ UNCHANGED domain

\* initialize is granted, any other method is refused; both keep the stream.
ReadOther ==
  /\ phase = "read"
  /\ phase' = "write"
  /\ query' = Other
  /\ \E b \in BOOLEAN : response' = Result(b)
  /\ UNCHANGED <<domain, returned>>

\* End of input, a read error, or a line that does not parse.
ReadBreaks ==
  /\ phase = "read"
  /\ phase' = "closed"
  /\ UNCHANGED <<domain, query, response, returned>>

BackendReturns(found) ==
  /\ phase = "backend"
  /\ phase' = "write"
  /\ response' = RecordsOf(query, found)
  /\ returned' = found
  /\ UNCHANGED <<domain, query>>

\* mistake: a lookup that is cut off leaves the response of the one before
TimeoutKeeps ==
  /\ phase = "backend"
  /\ phase' = "write"
  /\ UNCHANGED <<domain, query, response, returned>>

\* The 4500 ms limit: as if the backend had found nothing.
BackendTimesOut ==
  /\ phase = "backend"
  /\ phase' = "write"
  /\ response' = RecordsOf(query, None)
  /\ UNCHANGED <<domain, query, returned>>

\* MessageQueueTaint: the error leaves run, nothing is written.
BackendFails ==
  /\ phase = "backend"
  /\ phase' = "failed"
  /\ UNCHANGED <<domain, query, response, returned>>

Write ==
  /\ phase = "write"
  /\ phase' = "read"
  /\ query' = Other
  /\ UNCHANGED <<domain, response, returned>>

WriteBreaks ==
  /\ phase = "write"
  /\ phase' = "closed"
  /\ UNCHANGED <<domain, query, response, returned>>

Next ==
  \/ Opened \/ OpenFails \/ Relaunch
  \/ \E q \in Names, t \in QTypes : ReadLookup(q, t)
  \/ ReadOther
  \/ ReadBreaks
  \/ \E found \in LocalResult : BackendReturns(found)
  \/ BackendTimesOut
  \/ BackendFails
  \/ Write
  \/ WriteBreaks

Spec == Init /\ [][Next]_vars
-----------------------------------------------------------------------------
TypeOK ==
  /\ phase \in {"open", "read", "backend", "write", "closed", "failed"}
  /\ domain \in Domains
  /\ query.qname \in Names \cup {<<>>} /\ query.qtype \in QTypes \cup {"none"}
  /\ response.result \in SUBSET BOOLEAN
  /\ returned \in LocalResult
  /\ \A x \in response.records :
       /\ x.qtype \in {"AAAA", "NS", "SOA"}
       /\ x.qname \in Names
       /\ x.content \in IF x.qtype = "AAAA" THEN Addrs ELSE Names

(***************************************************************************)
(* The zone as the comments of src/pdns.rs lay it out, stated on whole     *)
(* names instead of on what is left after cutting: the base domain has a   *)
(* SOA, a container has the AAAA records of what the backend returned for  *)
(* it, its challenge name an NS record that points at it, and everything   *)
(* else has nothing.                                                       *)
(***************************************************************************)
Plain(c) == [text |-> c, upper |-> FALSE]

ContainerAt(q) == \E c \in HostTexts : q = <<Plain(c)>> \o domain

ChallengeOf(q) == {<<Plain(c)>> \o domain : c \in {h \in HostTexts :
                     q = <<Plain(Acme), Plain(h)>> \o domain}}

Documented(q, t, found, r) ==
  \/ q = domain /\ r = {Record(domain, "SOA", domain)}
  \/ /\ ContainerAt(q) /\ t \in {"ANY", "AAAA"}
     /\ \/ found = None /\ r = {}
        \/ \E a \in SUBSET Addrs : /\ found = Some(a)
                                   /\ r = {Record(q, "AAAA", x) : x \in a}
  \/ t # "SOA" /\ \E c \in ChallengeOf(q) : r = {Record(q, "NS", c)}
  \/ /\ q # domain
     /\ ~ (ContainerAt(q) /\ t \in {"ANY", "AAAA"})
     /\ t = "SOA" \/ ChallengeOf(q) = {}
     /\ r = {}

(***************************************************************************)
(* What PowerDNS gets is the documented answer to the very line it wrote,  *)
(* whatever happened to the lookups before: nothing of an earlier response *)
(* is left over when the backend is cut off, not even one for the same     *)
(* container (pdns_io.rs:125, 142).                                        *)
(***************************************************************************)
AnswersAsDocumented ==
  phase = "write" /\ query # Other =>
    /\ response.result = {}
    /\ Documented(query.qname, query.qtype, returned, response.records)

(***************************************************************************)
(* A delegation leads somewhere: the target of an NS record that is        *)
(* written is a name for whose addresses this server asks the backend.     *)
(***************************************************************************)
DelegationResolves ==
  \A x \in response.records :
    x.qtype = "NS" => TypeForDomain(Lower(x.content), "AAAA", domain).kind = "smart"
=============================================================================
