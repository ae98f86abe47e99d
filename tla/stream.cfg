CONSTANTS
  Addrs = {a1, a2}
  HostTexts = {"a", "b"}
  OtherTexts = {"_"}
  Domains <- DomainsAB
  MaxLabels = 4
SPECIFICATION Spec
INVARIANTS TypeOK AnswersAsDocumented DelegationResolves
