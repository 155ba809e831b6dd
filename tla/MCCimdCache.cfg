\* Three calls of obtain overtake each other while origin, DNS and clock move.
SPECIFICATION Spec
CONSTANTS
  Requests = {r1, r2, r3}
  Clients = {k1, k2}
  WellFormed = {k1}
  Addresses = {ip1, ip2, bad}
  Forbidden = {bad}
  Uris = {w1, w2}
  Usable = {w1}
  Headers <- SomeHeaders
  Versions = {v1, v2}
  Answers <- SomeAnswers
  Records <- SomeRecords
  MinTtl = 1
  MaxTtl = 2
  MaxTime = 2
  MaxChanges = 2
  None = None
  k1 = k1
  k2 = k2
  ip1 = ip1
  ip2 = ip2
  bad = bad
  w1 = w1
  w2 = w2
  v1 = v1
  v2 = v2
SYMMETRY RequestSymmetry
INVARIANTS
  TypeOK
  OnlyValidatedCached
  DialsOnlyChecked
  HitIsRecent
PROPERTIES
  FetchesSpaced
  ImplementsDocumentSource
