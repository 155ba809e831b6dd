\* Two owners; a creation, a listing and two revocations of either.
SPECIFICATION Spec
CONSTANTS
  Creations = {c1}
  Listings = {l1}
  Revocations = {v1, v2}
  Exchanges = {}
  Owners = {o1, o2}
  Realms = {realmA, realmB}
  RealmOf <- OneRealm
  Orgs = {g1}
  Urls = {u1}
  Resources = {x1}
  Canon <- OneUrl
  Scopes = {s1}
  Defaults <- NoDefaults
  Configs <- OneConfig
  Rosters <- FullRoster
  Lifetimes = {1}
  LongLifetime = 1
  AssertionLife = 1
  Second = 1
  MaxTime = 1
  MaxChanges = 0
  None = None
  o1 = o1
  o2 = o2
  g1 = g1
  g2 = g2
  u1 = u1
  u2 = u2
  x1 = x1
  x2 = x2
  s1 = s1
  s2 = s2
  realmA = realmA
  realmB = realmB
SYMMETRY RevocationSymmetry
INVARIANTS
  OwnersIsolated
  RevokedOnce
