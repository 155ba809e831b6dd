\* A document served with no-store and a max-age.
SPECIFICATION Spec
CONSTANTS
  Requests = {r1, r2}
  Clients = {k1, k2}
  WellFormed = {k1}
  Addresses = {ip1, ip2, bad}
  Forbidden = {bad}
  Uris = {w1, w2}
  Usable = {w1}
  Headers <- MixedHeaders
  Versions = {v1, v2}
  Answers <- MixedAnswers
  Records <- SafeRecords
  MinTtl = 1
  MaxTtl = 3
  MaxTime = 3
  MaxChanges = 2
  None = None
  k1 = k1
  k2 = k2
  ip1 = ip1
  ip2 = ip2
  bad = bad
  w1 = w1
  w2 = w2
  v1 = v1
  v2 = v2
INVARIANTS
  NoStoreForcesMin
