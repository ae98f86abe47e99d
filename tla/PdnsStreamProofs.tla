--------------------------- MODULE PdnsStreamProofs ---------------------------
(***************************************************************************)
(* Proofs about PdnsStream for any names, domains and addresses.           *)
(***************************************************************************)
EXTENDS PdnsStream, SequenceTheorems, TLAPS

LOCAL INSTANCE SequencesExt

(***************************************************************************)
(* The inductive invariant: what is asked is in lower case, and the        *)
(* backend is asked for containers only, of which it has returned nothing  *)
(* yet.                                                                    *)
(***************************************************************************)
IsLower(q) == \A k \in DOMAIN q : ~ q[k].upper

LowerNames == {q \in Names : IsLower(q)}

Asked ==
  phase = "backend" =>
    /\ query.qname \in LowerNames /\ query.qtype \in QTypes
    /\ TypeForDomain(query.qname, query.qtype, domain).kind = "smart"
    /\ returned = None

IInv == TypeOK /\ Asked /\ AnswersAsDocumented /\ DelegationResolves

-----------------------------------------------------------------------------
(***************************************************************************)
(* Names, suffixes and what is left before them.                           *)
(***************************************************************************)
LEMMA NamesAreSeqs ==
  \A q : q \in Names <=> q \in Seq(Label) /\ Len(q) \in 1..MaxLabels
<1>1. ASSUME NEW q \in Names PROVE q \in Seq(Label) /\ Len(q) \in 1..MaxLabels
  <2>1. PICK k \in 1..MaxLabels : q \in [1..k -> Label]
    BY DEF Names
  <2>2. k \in Nat /\ q \in Seq(Label)
    BY <2>1, SeqDef, LookupAssumption
  <2>. QED BY <2>1, <2>2, LenProperties
<1>2. ASSUME NEW q \in Seq(Label), Len(q) \in 1..MaxLabels PROVE q \in Names
  BY <1>2, LenProperties DEF Names
<1>. QED BY <1>1, <1>2

LEMMA Minus == \A m, n \in Int : m = n - 1 <=> n = m + 1
OBVIOUS

LEMMA RestProperties ==
  ASSUME NEW S, NEW r \in Seq(S), Len(r) > 1
  PROVE  /\ Tail(r) \in Seq(S) /\ Len(r) = Len(Tail(r)) + 1
         /\ Tail(r)[1] = r[2]
<1>1. r # <<>> /\ Len(r) \in Nat
  BY LenProperties, EmptySeq
<1>2. /\ Tail(r) \in Seq(S) /\ Len(Tail(r)) = Len(r) - 1
      /\ \A i \in 1..Len(Tail(r)) : Tail(r)[i] = r[i + 1]
  BY <1>1, HeadTailProperties
<1>3. Len(Tail(r)) \in Nat
  BY <1>2, LenProperties
<1>4. Len(r) = Len(Tail(r)) + 1
  BY <1>1, <1>2, <1>3, Minus
<1>5. 1 \in 1..Len(Tail(r))
  BY <1>1, <1>3, <1>4
<1>. QED BY <1>2, <1>4, <1>5

LEMMA ReverseProperties ==
  ASSUME NEW S, NEW s \in Seq(S)
  PROVE  /\ Reverse(s) \in Seq(S) /\ Len(Reverse(s)) = Len(s)
         /\ \A i \in 1..Len(s) : Reverse(s)[i] = s[Len(s) - i + 1]
<1>1. Len(s) \in Nat /\ \A i \in 1..Len(s) : s[Len(s) - i + 1] \in S
  BY ElementOfSeq, LenProperties
<1>2. Reverse(s) \in [1..Len(s) -> S]
  BY <1>1 DEF Reverse
<1>3. Reverse(s) \in Seq(S)
  BY <1>1, <1>2, SeqDef
<1>4. DOMAIN Reverse(s) = 1..Len(Reverse(s)) /\ Len(Reverse(s)) \in Nat
  BY <1>3, LenProperties
<1>. QED BY <1>1, <1>2, <1>3, <1>4 DEF Reverse

LEMMA SuffixIsElementwise ==
  ASSUME NEW S, NEW d \in Seq(S), NEW q \in Seq(S)
  PROVE  IsSuffix(d, q) <=> /\ Len(d) <= Len(q)
                            /\ \A i \in 1..Len(d) : q[Len(q) - Len(d) + i] = d[i]
<1>. DEFINE rd == Reverse(d)
            rq == Reverse(q)
<1>1. /\ rd \in Seq(S) /\ Len(rd) = Len(d) /\ rq \in Seq(S) /\ Len(rq) = Len(q)
      /\ \A i \in 1..Len(d) : rd[i] = d[Len(d) - i + 1]
      /\ \A i \in 1..Len(q) : rq[i] = q[Len(q) - i + 1]
      /\ Len(d) \in Nat /\ Len(q) \in Nat
  BY ReverseProperties, LenProperties
<1>. HIDE DEF rd, rq
<1>2. SubSeq(rd, 1, Len(d)) = rd
  BY <1>1, SubSeqFull
<1>3. ASSUME Len(d) <= Len(q)
      PROVE  /\ SubSeq(rq, 1, Len(d)) \in Seq(S)
             /\ Len(SubSeq(rq, 1, Len(d))) = Len(d)
             /\ \A i \in 1..Len(d) : SubSeq(rq, 1, Len(d))[i] = q[Len(q) - i + 1]
  <2>1. \A i \in 1..Len(d) : rq[i] \in S
    BY <1>1, <1>3, ElementOfSeq
  <2>2. /\ SubSeq(rq, 1, Len(d)) \in Seq(S)
        /\ Len(SubSeq(rq, 1, Len(d))) = IF 1 <= Len(d) THEN Len(d) - 1 + 1 ELSE 0
        /\ \A i \in 1..(Len(d) - 1 + 1) : SubSeq(rq, 1, Len(d))[i] = rq[1 + i - 1]
    BY <1>1, <2>1, SubSeqProperties
  <2>. QED BY <1>1, <1>3, <2>2
<1>4. ASSUME IsSuffix(d, q)
      PROVE  Len(d) <= Len(q) /\ \A i \in 1..Len(d) : q[Len(q) - Len(d) + i] = d[i]
  <2>1. Len(d) <= Len(q) /\ rd = SubSeq(rq, 1, Len(d))
    BY <1>1, <1>2, <1>4 DEF IsSuffix, IsPrefix, rd, rq
  <2>2. ASSUME NEW i \in 1..Len(d) PROVE q[Len(q) - Len(d) + i] = d[i]
    <3>. DEFINE j == Len(d) - i + 1
    <3>1. /\ j \in 1..Len(d) /\ Len(d) - j + 1 = i
          /\ Len(q) - j + 1 = Len(q) - Len(d) + i
      BY <1>1
    <3>. QED BY <1>1, <1>3, <2>1, <3>1
  <2>. QED BY <2>1, <2>2
<1>5. ASSUME Len(d) <= Len(q), \A i \in 1..Len(d) : q[Len(q) - Len(d) + i] = d[i]
      PROVE  IsSuffix(d, q)
  <2>1. ASSUME NEW i \in 1..Len(d) PROVE rd[i] = SubSeq(rq, 1, Len(d))[i]
    <3>. DEFINE j == Len(d) - i + 1
    <3>1. j \in 1..Len(d) /\ Len(q) - i + 1 = Len(q) - Len(d) + j
      BY <1>1
    <3>2. q[Len(q) - Len(d) + j] = d[j]
      BY <1>5, <3>1
    <3>. QED BY <1>1, <1>3, <1>5, <3>1, <3>2
  <2>2. rd = SubSeq(rq, 1, Len(d))
    BY <1>1, <1>3, <1>5, <2>1, SeqEqual
  <2>. QED BY <1>1, <1>2, <1>5, <2>2 DEF IsSuffix, IsPrefix, rd, rq
<1>. QED BY <1>4, <1>5

(***************************************************************************)
(* A name that is cut at a suffix is what is left followed by the suffix.  *)
(***************************************************************************)
LEMMA CutAtSuffix ==
  ASSUME NEW S, NEW d \in Seq(S), NEW q \in Seq(S), IsStrictSuffix(d, q),
         NEW r, r = SubSeq(q, 1, Len(q) - Len(d))
  PROVE  r \in Seq(S) /\ Len(r) >= 1 /\ q = r \o d
<1>1. /\ Len(d) <= Len(q) /\ Len(d) \in Nat /\ Len(q) \in Nat
      /\ \A i \in 1..Len(d) : q[Len(q) - Len(d) + i] = d[i]
  BY SuffixIsElementwise, LenProperties DEF IsStrictSuffix
<1>2. Len(d) # Len(q)
  <2>. SUFFICES ASSUME Len(d) = Len(q) PROVE FALSE
    OBVIOUS
  <2>1. \A i \in 1..Len(d) : q[i] = d[i]
    BY <1>1
  <2>. QED BY <2>1, SeqEqual DEF IsStrictSuffix
<1>. DEFINE n == Len(q) - Len(d)
<1>3. n \in 1..Len(q)
  BY <1>1, <1>2
<1>4. \A i \in 1..n : q[i] \in S
  BY <1>1, <1>3, ElementOfSeq
<1>5. r \in Seq(S) /\ Len(r) = n /\ \A i \in 1..n : r[i] = q[i]
  <2>1. /\ r \in Seq(S) /\ Len(r) = IF 1 <= n THEN n - 1 + 1 ELSE 0
        /\ \A i \in 1..(n - 1 + 1) : r[i] = q[1 + i - 1]
    BY <1>3, <1>4, SubSeqProperties
  <2>. QED BY <1>3, <2>1
<1>6. /\ r \o d \in Seq(S) /\ Len(r \o d) = Len(r) + Len(d)
      /\ \A i \in 1..(Len(r) + Len(d)) :
           (r \o d)[i] = IF i <= Len(r) THEN r[i] ELSE d[i - Len(r)]
  BY <1>5, ConcatProperties
<1>7. ASSUME NEW i \in 1..Len(q) PROVE q[i] = (r \o d)[i]
  <2>1. CASE i <= n
    BY <1>1, <1>3, <1>5, <1>6, <2>1
  <2>2. CASE i > n
    <3>1. i - n \in 1..Len(d) /\ n + (i - n) = i
      BY <1>1, <2>2
    <3>2. q[n + (i - n)] = d[i - n]
      BY <1>1, <3>1
    <3>. QED BY <1>1, <1>3, <1>5, <1>6, <2>2, <3>1, <3>2
  <2>. QED BY <1>1, <1>3, <2>1, <2>2
<1>8. q = r \o d
  BY <1>1, <1>3, <1>5, <1>6, <1>7, SeqEqual
<1>9. Len(r) >= 1
  BY <1>1, <1>3, <1>5
<1>. QED BY <1>5, <1>8, <1>9

LEMMA SuffixOfConcat ==
  ASSUME NEW S, NEW d \in Seq(S), NEW r \in Seq(S), Len(r) >= 1
  PROVE  /\ IsStrictSuffix(d, r \o d)
         /\ SubSeq(r \o d, 1, Len(r \o d) - Len(d)) = r
<1>. DEFINE q == r \o d
<1>1. /\ q \in Seq(S) /\ Len(q) = Len(r) + Len(d) /\ Len(r) \in Nat /\ Len(d) \in Nat
      /\ \A i \in 1..(Len(r) + Len(d)) :
           q[i] = IF i <= Len(r) THEN r[i] ELSE d[i - Len(r)]
  BY ConcatProperties, LenProperties
<1>. HIDE DEF q
<1>2. \A i \in 1..Len(d) : q[Len(q) - Len(d) + i] = d[i]
  <2>. TAKE i \in 1..Len(d)
  <2>1. Len(q) - Len(d) + i = Len(r) + i /\ Len(r) + i \in 1..(Len(r) + Len(d))
    BY <1>1
  <2>2. ~ (Len(r) + i <= Len(r)) /\ (Len(r) + i) - Len(r) = i
    BY <1>1
  <2>. QED BY <1>1, <2>1, <2>2
<1>3. IsSuffix(d, q)
  <2>1. Len(d) <= Len(q)
    BY <1>1
  <2>2. q \in Seq(S)
    BY <1>1
  <2>. QED BY <1>2, <2>1, <2>2, SuffixIsElementwise
<1>4. IsStrictSuffix(d, q)
  BY <1>1, <1>3 DEF IsStrictSuffix
<1>5. Len(q) - Len(d) = Len(r)
  BY <1>1
<1>6. SubSeq(q, 1, Len(r)) = r
  <2>1. \A i \in 1..Len(r) : q[i] \in S /\ q[i] = r[i]
    BY <1>1, ElementOfSeq
  <2>2. /\ SubSeq(q, 1, Len(r)) \in Seq(S)
        /\ Len(SubSeq(q, 1, Len(r))) = IF 1 <= Len(r) THEN Len(r) - 1 + 1 ELSE 0
        /\ \A i \in 1..(Len(r) - 1 + 1) : SubSeq(q, 1, Len(r))[i] = q[1 + i - 1]
    BY <1>1, <2>1, SubSeqProperties
  <2>3. \A i \in 1..Len(r) : SubSeq(q, 1, Len(r))[i] = r[i]
    BY <1>1, <2>1, <2>2
  <2>. QED BY <1>1, <2>2, <2>3, SeqEqual
<1>. QED BY <1>4, <1>5, <1>6 DEF q

(***************************************************************************)
(* Names of one container, and of its challenge.                           *)
(***************************************************************************)
LEMMA PlainLabels ==
  ASSUME NEW c \in HostTexts \cup {Acme}
  PROVE  Plain(c) \in Label /\ Plain(c).text = c /\ ~ Plain(c).upper
BY DEF Plain, Label, Texts

Alone(c) == <<Plain(c)>>

Challenge(c) == <<Plain(Acme), Plain(c)>>

LEMMA PlainIsContainer ==
  ASSUME NEW c \in HostTexts
  PROVE  /\ Alone(c) \in Seq(Label) /\ Len(Alone(c)) = 1 /\ Alone(c)[1] = Plain(c)
         /\ Len(Alone(c)) >= 1 /\ ~ (Len(Alone(c)) > 1)
         /\ IsContainer(Alone(c))
BY PlainLabels DEF IsContainer, Alone

LEMMA ChallengeSeq ==
  ASSUME NEW c \in HostTexts
  PROVE  /\ Challenge(c) \in Seq(Label)
         /\ Len(Challenge(c)) = 2 /\ Len(Challenge(c)) >= 1
         /\ Challenge(c)[1] = Plain(Acme) /\ Challenge(c)[2] = Plain(c)
         /\ Tail(Challenge(c)) = Alone(c)
BY PlainLabels DEF Challenge, Alone

LEMMA IsContainerPlain ==
  ASSUME NEW r \in Seq(Label), IsContainer(r)
  PROVE  \E c \in HostTexts : r = Alone(c)
<1>1. Len(r) = 1 /\ r[1] \in Label
  BY ElementOfSeq, LenProperties DEF IsContainer
<1>2. PICK c \in HostTexts : r[1] = Plain(c)
  BY <1>1 DEF IsContainer, Label, Plain
<1>3. r = Alone(c)
  BY <1>1, <1>2, PlainIsContainer, SeqEqual
<1>. QED BY <1>3

LEMMA ZoneNames ==
  /\ \A q : ContainerAt(q) <=> \E c \in HostTexts : q = Alone(c) \o domain
  /\ \A q : ChallengeOf(q) =
              {Alone(c) \o domain : c \in {h \in HostTexts : q = Challenge(h) \o domain}}
BY DEF ContainerAt, ChallengeOf, Alone, Challenge

LEMMA LowerProperties ==
  ASSUME NEW q \in Seq(Label)
  PROVE  /\ Lower(q) \in Seq(Label) /\ Len(Lower(q)) = Len(q) /\ IsLower(Lower(q))
         /\ IsLower(q) => Lower(q) = q
<1>1. DOMAIN q = 1..Len(q) /\ Len(q) \in Nat /\ \A k \in DOMAIN q : q[k] \in Label
  BY LenProperties, ElementOfSeq
<1>2. \A x \in Label : /\ [x EXCEPT !.upper = FALSE] \in Label
                       /\ ~ [x EXCEPT !.upper = FALSE].upper
                       /\ ~ x.upper => [x EXCEPT !.upper = FALSE] = x
  BY DEF Label
<1>3. /\ Lower(q) \in [1..Len(q) -> Label] /\ IsLower(Lower(q))
      /\ IsLower(q) => \A k \in 1..Len(q) : Lower(q)[k] = q[k]
  BY <1>1, <1>2 DEF Lower, IsLower
<1>4. Lower(q) \in Seq(Label)
  BY <1>1, <1>3, SeqDef
<1>5. Len(Lower(q)) = Len(q)
  <2>1. DOMAIN Lower(q) = 1..Len(Lower(q)) /\ Len(Lower(q)) \in Nat
    BY <1>4, LenProperties
  <2>. QED BY <1>1, <1>3, <2>1
<1>. QED BY <1>3, <1>4, <1>5, SeqEqual

LEMMA LowerNamed ==
  ASSUME NEW q \in Names
  PROVE  Lower(q) \in LowerNames
BY NamesAreSeqs, LowerProperties DEF LowerNames

(***************************************************************************)
(* What the code decides of a name below the domain, in terms of what is   *)
(* left of it.                                                             *)
(***************************************************************************)
LEMMA TypeBelow ==
  ASSUME NEW d \in Seq(Label), NEW r \in Seq(Label), Len(r) >= 1, NEW t
  PROVE  TypeForDomain(r \o d, t, d) =
           IF Len(r) > 1 /\ r[1] = Plain(Acme) THEN AcmeLookup(Tail(r), t, d)
                                               ELSE ContainerLookup(r, t)
BY SuffixOfConcat DEF TypeForDomain, Plain

LEMMA SameRest ==
  ASSUME NEW d \in Seq(Label), NEW r \in Seq(Label), NEW s \in Seq(Label),
         Len(r) >= 1, Len(s) >= 1, r \o d = s \o d
  PROVE  r = s
<1>1. SubSeq(r \o d, 1, Len(r \o d) - Len(d)) = r
  BY SuffixOfConcat
<1>2. SubSeq(s \o d, 1, Len(s \o d) - Len(d)) = s
  BY SuffixOfConcat
<1>. QED BY <1>1, <1>2

LEMMA ContainersBelow ==
  ASSUME domain \in Seq(Label), NEW r \in Seq(Label), Len(r) >= 1
  PROVE  ContainerAt(r \o domain) <=> IsContainer(r)
<1>1. ASSUME NEW c \in HostTexts, r \o domain = Alone(c) \o domain
      PROVE  IsContainer(r)
  <2>1. r = Alone(c)
    BY <1>1, PlainIsContainer, SameRest
  <2>. QED BY <2>1, PlainIsContainer
<1>2. IsContainer(r) => ContainerAt(r \o domain)
  BY IsContainerPlain, ZoneNames
<1>. QED BY <1>1, <1>2, ZoneNames

LEMMA ChallengesBelow ==
  ASSUME domain \in Seq(Label), NEW r \in Seq(Label), Len(r) >= 1
  PROVE  ChallengeOf(r \o domain) =
           IF Len(r) > 1 /\ r[1] = Plain(Acme) /\ IsContainer(Tail(r))
           THEN {Tail(r) \o domain} ELSE {}
<1>1. ASSUME NEW h \in HostTexts,
             r \o domain = Challenge(h) \o domain
      PROVE  /\ Len(r) > 1 /\ r[1] = Plain(Acme) /\ IsContainer(Tail(r))
             /\ Tail(r) = Alone(h)
  <2>1. r = Challenge(h)
    BY <1>1, ChallengeSeq, SameRest
  <2>2. Len(r) = 2 /\ r[1] = Plain(Acme) /\ Tail(r) = Alone(h)
    BY <2>1, ChallengeSeq
  <2>3. IsContainer(Tail(r))
    BY <2>2, PlainIsContainer
  <2>. QED BY <2>2, <2>3
<1>2. ASSUME Len(r) > 1, r[1] = Plain(Acme), IsContainer(Tail(r))
      PROVE  \E h \in HostTexts : /\ Tail(r) = Alone(h)
                                  /\ r = Challenge(h)
  <2>1. Tail(r) \in Seq(Label) /\ Len(r) = Len(Tail(r)) + 1 /\ Tail(r)[1] = r[2]
    BY <1>2, RestProperties
  <2>2. PICK h \in HostTexts : Tail(r) = Alone(h)
    BY <1>2, <2>1, IsContainerPlain
  <2>3. Len(r) = 2 /\ r[2] = Plain(h)
    <3>1. Len(Tail(r)) = 1 /\ Tail(r)[1] = Plain(h)
      BY <2>2, PlainIsContainer
    <3>2. Len(r) = 1 + 1
      BY <2>1, <3>1
    <3>3. r[2] = Plain(h)
      BY <2>1, <3>1
    <3>. QED BY <3>2, <3>3
  <2>4. r = Challenge(h)
    BY <1>2, <2>3, ChallengeSeq, SeqEqual
  <2>. QED BY <2>2, <2>4
<1>. QED BY <1>1, <1>2, ZoneNames
-----------------------------------------------------------------------------
(***************************************************************************)
(* The answer to one lookup: documented, well-formed, and a delegation in  *)
(* it resolves.                                                            *)
(***************************************************************************)
RightTypes(records) ==
  \A x \in records : /\ x.qtype \in {"AAAA", "NS", "SOA"}
                     /\ x.qname \in Names
                     /\ x.content \in IF x.qtype = "AAAA" THEN Addrs ELSE Names

Resolving(records) ==
  \A x \in records :
    x.qtype = "NS" => TypeForDomain(Lower(x.content), "AAAA", domain).kind = "smart"

Good(q, t, found, records) ==
  Documented(q, t, found, records) /\ RightTypes(records) /\ Resolving(records)

\* The records of the answer to q.
Answered(q, t, found) == Records(TypeForDomain(q, t, domain), q, domain, found)

LEMMA FoundAddresses ==
  ASSUME NEW found \in LocalResult
  PROVE  UNION found \in SUBSET Addrs
BY DEF LocalResult, None, Some

\* A name below the domain is in lower case only if both parts are.
LEMMA LowerParts ==
  ASSUME NEW d \in Seq(Label), NEW r \in Seq(Label), IsLower(r \o d)
  PROVE  IsLower(d)
<1>1. /\ r \o d \in Seq(Label) /\ Len(r \o d) = Len(r) + Len(d)
      /\ \A i \in 1..(Len(r) + Len(d)) :
           (r \o d)[i] = IF i <= Len(r) THEN r[i] ELSE d[i - Len(r)]
      /\ Len(r) \in Nat /\ Len(d) \in Nat
      /\ DOMAIN (r \o d) = 1..(Len(r) + Len(d)) /\ DOMAIN d = 1..Len(d)
  BY ConcatProperties, LenProperties
<1>2. ASSUME NEW i \in DOMAIN d PROVE ~ d[i].upper
  <2>1. Len(r) + i \in 1..(Len(r) + Len(d)) /\ (Len(r) + i) - Len(r) = i
        /\ ~ (Len(r) + i <= Len(r))
    BY <1>1
  <2>2. (r \o d)[Len(r) + i] = d[i]
    BY <1>1, <2>1
  <2>. QED BY <1>1, <2>1, <2>2 DEF IsLower
<1>. QED BY <1>2 DEF IsLower

LEMMA TargetProperties ==
  ASSUME NEW d \in Seq(Label), NEW h \in HostTexts
  PROVE  /\ Alone(h) \o d \in Seq(Label) /\ Len(Alone(h) \o d) = 1 + Len(d)
         /\ (Alone(h) \o d)[1] = Plain(h)
         /\ \A i \in 2..(1 + Len(d)) : (Alone(h) \o d)[i] = d[i - 1]
         /\ DOMAIN (Alone(h) \o d) = 1..(1 + Len(d))
<1>1. /\ Alone(h) \o d \in Seq(Label) /\ Len(Alone(h) \o d) = 1 + Len(d)
      /\ \A i \in 1..(1 + Len(d)) :
           (Alone(h) \o d)[i] = IF i <= 1 THEN Alone(h)[i] ELSE d[i - 1]
      /\ Len(d) \in Nat
  BY PlainIsContainer, ConcatProperties, LenProperties
<1>2. DOMAIN (Alone(h) \o d) = 1..(1 + Len(d))
  BY <1>1, LenProperties
<1>3. (Alone(h) \o d)[1] = Plain(h)
  <2>1. Alone(h)[1] = Plain(h) /\ 1 \in 1..(1 + Len(d))
    BY <1>1, PlainIsContainer
  <2>. QED BY <1>1, <2>1
<1>4. ASSUME NEW i \in 2..(1 + Len(d)) PROVE (Alone(h) \o d)[i] = d[i - 1]
  BY <1>1
<1>. QED BY <1>1, <1>2, <1>3, <1>4

\* The target of a delegation is in lower case, and resolves.
LEMMA TargetResolves ==
  ASSUME domain \in Seq(Label), NEW h \in HostTexts, IsLower(domain)
  PROVE  TypeForDomain(Lower(Alone(h) \o domain), "AAAA", domain).kind = "smart"
<1>. DEFINE target == Alone(h) \o domain
<1>1. /\ target \in Seq(Label) /\ target[1] = Plain(h)
      /\ \A i \in 2..(1 + Len(domain)) : target[i] = domain[i - 1]
      /\ DOMAIN target = 1..(1 + Len(domain))
      /\ Len(domain) \in Nat /\ DOMAIN domain = 1..Len(domain)
  BY TargetProperties, LenProperties
<1>2. TypeForDomain(target, "AAAA", domain) = ContainerLookup(Alone(h), "AAAA")
  <2>1. ~ (Len(Alone(h)) > 1)
    BY PlainIsContainer
  <2>. QED BY <2>1, PlainIsContainer, TypeBelow
<1>3. ContainerLookup(Alone(h), "AAAA").kind = "smart"
  BY PlainIsContainer DEF ContainerLookup, Smart
<1>. HIDE DEF target
<1>4. IsLower(target)
  <2>. SUFFICES ASSUME NEW i \in DOMAIN target PROVE ~ target[i].upper
    BY DEF IsLower
  <2>1. CASE i = 1
    BY <1>1, <2>1, PlainLabels
  <2>2. CASE i # 1
    <3>1. i - 1 \in DOMAIN domain /\ target[i] = domain[i - 1]
      BY <1>1, <2>2
    <3>. QED BY <3>1 DEF IsLower
  <2>. QED BY <2>1, <2>2
<1>5. Lower(target) = target
  BY <1>1, <1>4, LowerProperties
<1>. QED BY <1>2, <1>3, <1>5 DEF target

LEMMA GoodBelow ==
  ASSUME domain \in Domains, NEW q \in LowerNames, NEW t \in QTypes,
         NEW found \in LocalResult, NEW r \in Seq(Label), Len(r) >= 1, q = r \o domain
  PROVE  Good(q, t, found, Answered(q, t, found))
<1>1. /\ domain \in Seq(Label) /\ Len(r) \in Nat /\ Len(domain) \in Nat
      /\ q \in Names /\ Len(q) = Len(r) + Len(domain) /\ Len(q) \in 1..MaxLabels
  BY DomainAssumption, NamesAreSeqs, ConcatProperties, LenProperties DEF LowerNames
<1>2. q # domain
  BY <1>1
<1>3. IsLower(domain)
  BY <1>1, LowerParts DEF LowerNames
<1>. DEFINE challenge == Len(r) > 1 /\ r[1] = Plain(Acme)
<1>4. /\ ContainerAt(q) <=> IsContainer(r)
      /\ ChallengeOf(q) = IF challenge /\ IsContainer(Tail(r))
                          THEN {Tail(r) \o domain} ELSE {}
  BY <1>1, ContainersBelow, ChallengesBelow
<1>5. TypeForDomain(q, t, domain) = IF challenge THEN AcmeLookup(Tail(r), t, domain)
                                                 ELSE ContainerLookup(r, t)
  BY <1>1, TypeBelow
<1>6. IsContainer(r) => Len(r) = 1
  BY DEF IsContainer
<1>7. ASSUME Answered(q, t, found) = {},
             t = "SOA" \/ ChallengeOf(q) = {}, ~ (ContainerAt(q) /\ t \in {"ANY", "AAAA"})
      PROVE  Good(q, t, found, Answered(q, t, found))
  BY <1>2, <1>7 DEF Good, Documented, RightTypes, Resolving
<1>8. CASE challenge
  <2>1. CASE IsContainer(Tail(r)) /\ t # "SOA"
    <3>1. PICK h \in HostTexts : Tail(r) = Alone(h)
      <4>1. Tail(r) \in Seq(Label)
        BY <1>1, <1>8, EmptySeq, HeadTailProperties
      <4>. QED BY <2>1, <4>1, IsContainerPlain
    <3>. DEFINE target == Alone(h) \o domain
    <3>2. Answered(q, t, found) = {Record(q, "NS", target)}
      <4>1. TypeForDomain(q, t, domain) = Dumb(NsTo(target))
        BY <1>5, <1>8, <2>1, <3>1 DEF AcmeLookup
      <4>2. Dumb(NsTo(target)).kind # "smart" /\ Dumb(NsTo(target)).response = NsTo(target)
        BY DEF Dumb
      <4>3. DumbRecords(NsTo(target), q, domain) = {Record(q, "NS", target)}
        BY DEF DumbRecords, NsTo
      <4>. QED BY <4>1, <4>2, <4>3 DEF Answered, Records
    <3>3. target \in Names
      <4>1. target \in Seq(Label) /\ Len(target) = 1 + Len(domain)
        BY <1>1, TargetProperties
      <4>2. 1 + Len(domain) \in 1..MaxLabels
        BY <1>1, <1>8, LookupAssumption
      <4>. QED BY <4>1, <4>2, NamesAreSeqs
    <3>4. TypeForDomain(Lower(target), "AAAA", domain).kind = "smart"
      BY <1>1, <1>3, TargetResolves
    <3>5. Documented(q, t, found, Answered(q, t, found))
      BY <1>4, <1>8, <2>1, <3>1, <3>2 DEF Documented
    <3>6. RightTypes(Answered(q, t, found)) /\ Resolving(Answered(q, t, found))
      BY <1>1, <3>2, <3>3, <3>4 DEF RightTypes, Resolving, Record
    <3>. QED BY <3>5, <3>6 DEF Good
  <2>2. CASE ~ (IsContainer(Tail(r)) /\ t # "SOA")
    <3>1. Answered(q, t, found) = {}
      BY <1>5, <1>8, <2>2
      DEF Answered, AcmeLookup, Records, DumbRecords, Dumb, Nxdomain
    <3>. QED BY <1>4, <1>6, <1>7, <1>8, <2>2, <3>1
  <2>. QED BY <2>1, <2>2
<1>9. CASE ~ challenge
  <2>1. CASE IsContainer(r) /\ t \in {"ANY", "AAAA"}
    <3>1. Answered(q, t, found) = {Record(q, "AAAA", x) : x \in UNION found}
      BY <1>5, <1>9, <2>1
      DEF Answered, ContainerLookup, Records, SmartRecords, Smart
    <3>2. UNION found \in SUBSET Addrs
      BY FoundAddresses
    <3>3. Documented(q, t, found, Answered(q, t, found))
      <4>1. CASE found = None
        BY <1>4, <2>1, <3>1, <4>1 DEF Documented, None
      <4>2. ASSUME NEW a \in SUBSET Addrs, found = Some(a)
            PROVE  Documented(q, t, found, Answered(q, t, found))
        <5>1. UNION found = a
          BY <4>2 DEF Some
        <5>. QED BY <1>4, <2>1, <3>1, <4>2, <5>1 DEF Documented
      <4>. QED BY <4>1, <4>2 DEF LocalResult
    <3>4. RightTypes(Answered(q, t, found)) /\ Resolving(Answered(q, t, found))
      <4>. SUFFICES ASSUME NEW x \in Answered(q, t, found)
                    PROVE  /\ x.qtype = "AAAA" /\ x.qname \in Names
                           /\ x.content \in Addrs
        BY DEF RightTypes, Resolving
      <4>1. PICK a \in UNION found : x = Record(q, "AAAA", a)
        BY <3>1
      <4>. QED BY <1>1, <3>2, <4>1 DEF Record
    <3>. QED BY <3>3, <3>4 DEF Good
  <2>2. CASE ~ (IsContainer(r) /\ t \in {"ANY", "AAAA"})
    <3>1. Answered(q, t, found) = {}
      BY <1>5, <1>9, <2>2
      DEF Answered, ContainerLookup, Records, DumbRecords, Dumb, Nxdomain
    <3>. QED BY <1>4, <1>7, <1>9, <2>2, <3>1
  <2>. QED BY <2>1, <2>2
<1>. QED BY <1>8, <1>9

LEMMA GoodElsewhere ==
  ASSUME domain \in Domains, NEW q \in LowerNames, NEW t \in QTypes,
         NEW found \in LocalResult, ~ IsStrictSuffix(domain, q)
  PROVE  Good(q, t, found, Answered(q, t, found))
<1>1. domain \in Seq(Label) /\ q \in Names
  BY DomainAssumption DEF LowerNames
<1>2. CASE q = domain
  <2>1. Answered(q, t, found) = {Record(domain, "SOA", domain)}
    BY <1>2 DEF Answered, TypeForDomain, Records, DumbRecords, Dumb, Soa
  <2>. QED BY <1>1, <1>2, <2>1 DEF Good, Documented, RightTypes, Resolving, Record
<1>3. CASE q # domain
  <2>1. Answered(q, t, found) = {}
    BY <1>3 DEF Answered, TypeForDomain, Records, DumbRecords, Dumb, Nxdomain
  <2>2. ~ ContainerAt(q)
    BY <1>1, PlainIsContainer, SuffixOfConcat, ZoneNames
  <2>3. ChallengeOf(q) = {}
    BY <1>1, ChallengeSeq, SuffixOfConcat, ZoneNames
  <2>. QED BY <1>3, <2>1, <2>2, <2>3 DEF Good, Documented, RightTypes, Resolving
<1>. QED BY <1>2, <1>3

LEMMA GoodAnswer ==
  ASSUME domain \in Domains, NEW q \in LowerNames, NEW t \in QTypes,
         NEW found \in LocalResult
  PROVE  Good(q, t, found, Answered(q, t, found))
<1>1. domain \in Seq(Label) /\ q \in Seq(Label)
  BY DomainAssumption, NamesAreSeqs DEF LowerNames
<1>2. CASE IsStrictSuffix(domain, q)
  BY <1>1, <1>2, CutAtSuffix, GoodBelow
<1>. QED BY <1>2, GoodElsewhere
-----------------------------------------------------------------------------
(***************************************************************************)
(* The steps.  The ones that write down a response are those that read a   *)
(* line and those with which the backend's part ends.                      *)
(***************************************************************************)
LEMMA ResultProperties ==
  ASSUME NEW b \in BOOLEAN
  PROVE  /\ Result(b).result \in SUBSET BOOLEAN
         /\ RightTypes(Result(b).records) /\ Resolving(Result(b).records)
BY DEF Result, RightTypes, Resolving

LEMMA TypeByParts ==
  TypeOK <=>
    /\ phase \in {"open", "read", "backend", "write", "closed", "failed"}
    /\ domain \in Domains
    /\ query.qname \in Names \cup {<<>>} /\ query.qtype \in QTypes \cup {"none"}
    /\ response.result \in SUBSET BOOLEAN
    /\ returned \in LocalResult
    /\ RightTypes(response.records)
BY DEF TypeOK, RightTypes

LEMMA AnswerOfLine ==
  ASSUME domain \in Domains, NEW q \in LowerNames, NEW t \in QTypes,
         NEW found \in LocalResult, NEW x, x.qname = q, x.qtype = t
  PROVE  /\ RecordsOf(x, found).result = {}
         /\ Good(q, t, found, RecordsOf(x, found).records)
<1>1. RecordsOf(x, found).result = {}
  BY DEF RecordsOf
<1>2. RecordsOf(x, found).records = Answered(q, t, found)
  BY DEF RecordsOf, Answered
<1>. QED BY <1>1, <1>2, GoodAnswer

\* A good answer to the line that is being answered keeps the invariant.
LEMMA Responded ==
  ASSUME domain \in Domains, domain' = domain, phase' = "write",
         query'.qname \in LowerNames, query'.qtype \in QTypes, returned' \in LocalResult,
         response'.result = {},
         Good(query'.qname, query'.qtype, returned', response'.records)
  PROVE  IInv'
<1>1. /\ Documented(query'.qname, query'.qtype, returned', response'.records)
      /\ RightTypes(response'.records) /\ Resolving(response'.records)
  BY DEF Good
<1>2. TypeOK'
  BY <1>1 DEF TypeOK, RightTypes, LowerNames
<1>3. AnswersAsDocumented'
  BY <1>1 DEF AnswersAsDocumented, Documented, ContainerAt, ChallengeOf
<1>4. DelegationResolves'
  BY <1>1 DEF DelegationResolves, Resolving
<1>. QED BY <1>2, <1>3, <1>4 DEF IInv, Asked

\* A step that leaves the response, to a phase in which none is awaited.
LEMMA Quiescent ==
  ASSUME IInv, UNCHANGED <<domain, response, returned>>,
         phase' \in {"open", "read", "closed", "failed"}, query' \in {query, Other}
  PROVE  IInv'
<1>1. TypeOK'
  BY DEF IInv, TypeOK, Other, Lookup
<1>. QED BY <1>1 DEF IInv, Asked, AnswersAsDocumented, DelegationResolves

LEMMA StreamInit == Init => IInv
<1>. SUFFICES ASSUME Init PROVE IInv
  OBVIOUS
<1>1. RightTypes(response.records) /\ response.result \in SUBSET BOOLEAN
      /\ Resolving(response.records) /\ returned \in LocalResult
  BY ResultProperties DEF Init, LocalResult
<1>2. TypeOK
  BY <1>1, TypeByParts DEF Init, Other, Lookup
<1>. QED BY <1>1, <1>2 DEF Init, IInv, Asked, AnswersAsDocumented,
       DelegationResolves, Resolving

LEMMA StepReadLookup ==
  ASSUME IInv, NEW q \in Names, NEW t \in QTypes, ReadLookup(q, t)
  PROVE  IInv'
<1>. DEFINE lookup == TypeForDomain(Lower(q), t, domain)
<1>1. /\ domain \in Domains /\ domain' = domain
      /\ query'.qname = Lower(q) /\ query'.qtype = t /\ Lower(q) \in LowerNames
      /\ returned' = None /\ None \in LocalResult
  BY LowerNamed DEF IInv, TypeOK, ReadLookup, Lookup, LocalResult
<1>2. CASE lookup.kind = "smart" /\ phase' = "backend" /\ UNCHANGED response
  <2>1. TypeOK'
    BY <1>1, <1>2 DEF IInv, TypeOK, LowerNames
  <2>. QED BY <1>1, <1>2, <2>1 DEF IInv, Asked, AnswersAsDocumented, DelegationResolves
<1>3. CASE phase' = "write" /\ response' = RecordsOf(query', None)
  <2>1. /\ RecordsOf(query', None).result = {}
        /\ Good(Lower(q), t, None, RecordsOf(query', None).records)
    BY <1>1, AnswerOfLine
  <2>. QED BY <1>1, <1>3, <2>1, Responded
<1>. QED BY <1>2, <1>3 DEF ReadLookup

LEMMA StepReadOther ==
  ASSUME IInv, ReadOther
  PROVE  IInv'
<1>1. PICK b \in BOOLEAN : response' = Result(b)
  BY DEF ReadOther
<1>2. /\ domain' = domain /\ domain \in Domains /\ phase' = "write" /\ query' = Other
      /\ response'.result \in SUBSET BOOLEAN /\ returned' \in LocalResult
      /\ RightTypes(response'.records) /\ Resolving(response'.records)
  BY <1>1, ResultProperties DEF ReadOther, IInv, TypeOK
<1>3. TypeOK'
  BY <1>2 DEF TypeOK, RightTypes, Other, Lookup
<1>. QED BY <1>2, <1>3 DEF IInv, Asked, AnswersAsDocumented, DelegationResolves,
       Resolving, Other, Lookup

LEMMA StepBackend ==
  ASSUME IInv, NEW found \in LocalResult, phase = "backend", phase' = "write",
         response' = RecordsOf(query, found), returned' = found,
         UNCHANGED <<domain, query>>
  PROVE  IInv'
<1>1. /\ domain \in Domains /\ query.qname \in LowerNames /\ query.qtype \in QTypes
  BY DEF IInv, TypeOK, Asked
<1>2. /\ RecordsOf(query, found).result = {}
      /\ Good(query.qname, query.qtype, found, RecordsOf(query, found).records)
  BY <1>1, AnswerOfLine
<1>. QED BY <1>1, <1>2, Responded

LEMMA StepRelaunch ==
  ASSUME IInv, Relaunch
  PROVE  IInv'
<1>1. /\ domain' = domain /\ domain \in Domains /\ phase' = "open" /\ query' = Other
      /\ response'.result \in SUBSET BOOLEAN /\ returned' \in LocalResult
      /\ RightTypes(response'.records) /\ Resolving(response'.records)
  BY ResultProperties DEF Relaunch, IInv, TypeOK
<1>2. TypeOK'
  BY <1>1 DEF TypeOK, RightTypes, Other, Lookup
<1>. QED BY <1>1, <1>2 DEF IInv, Asked, AnswersAsDocumented, DelegationResolves,
       Resolving

LEMMA StreamStep == IInv /\ [Next]_vars => IInv'
<1>. SUFFICES ASSUME IInv, [Next]_vars PROVE IInv'
  OBVIOUS
<1>1. CASE Opened \/ OpenFails \/ ReadBreaks \/ BackendFails \/ Write \/ WriteBreaks
  BY <1>1, Quiescent
  DEF Opened, OpenFails, ReadBreaks, BackendFails, Write, WriteBreaks
<1>2. ASSUME NEW q \in Names, NEW t \in QTypes, ReadLookup(q, t) PROVE IInv'
  BY <1>2, StepReadLookup
<1>3. CASE ReadOther
  BY <1>3, StepReadOther
<1>4. ASSUME NEW found \in LocalResult, BackendReturns(found) PROVE IInv'
  BY <1>4, StepBackend DEF BackendReturns
<1>5. CASE BackendTimesOut
  <2>1. None \in LocalResult
    BY DEF LocalResult
  <2>. QED BY <1>5, <2>1, StepBackend DEF BackendTimesOut, IInv, Asked
<1>6. CASE Relaunch
  BY <1>6, StepRelaunch
<1>7. CASE UNCHANGED vars
  <2>1. TypeOK'
    BY <1>7 DEF vars, IInv, TypeOK
  <2>2. Asked' /\ DelegationResolves'
    BY <1>7 DEF vars, IInv, Asked, DelegationResolves
  <2>3. AnswersAsDocumented'
    <3>1. ASSUME NEW q, NEW t, NEW found, NEW r, Documented(q, t, found, r)
          PROVE  Documented(q, t, found, r)'
      BY <1>7, <3>1 DEF vars, Documented, ContainerAt, ChallengeOf
    <3>. QED BY <1>7, <3>1 DEF vars, IInv, AnswersAsDocumented
  <2>. QED BY <2>1, <2>2, <2>3 DEF IInv
<1>. QED BY <1>1, <1>2, <1>3, <1>4, <1>5, <1>6, <1>7 DEF Next
-----------------------------------------------------------------------------
(***************************************************************************)
(* The state of a conversation is well-formed, and so are the records of   *)
(* every response (pdns.rs:561-609).                                       *)
(***************************************************************************)
THEOREM StreamTypeCorrect == Spec => []TypeOK
<1>1. IInv => TypeOK
  BY DEF IInv
<1>. QED BY <1>1, StreamInit, StreamStep, PTL DEF Spec

(***************************************************************************)
(* PowerDNS gets the documented answer to the line it wrote (pdns.rs:411,  *)
(* pdns_io.rs:142), for any domain, and names of any labels and length.    *)
(***************************************************************************)
THEOREM StreamAnswersDocumented == Spec => []AnswersAsDocumented
<1>1. IInv => AnswersAsDocumented
  BY DEF IInv
<1>. QED BY <1>1, StreamInit, StreamStep, PTL DEF Spec

(***************************************************************************)
(* The target of an NS record is a name this server answers for            *)
(* (pdns.rs:440), for any domain and name.                                 *)
(***************************************************************************)
THEOREM DelegationsResolve == Spec => []DelegationResolves
<1>1. IInv => DelegationResolves
  BY DEF IInv
<1>. QED BY <1>1, StreamInit, StreamStep, PTL DEF Spec
=============================================================================
