\* Two creations of one owner, which race for its link and may present the short
\* token of an exchange as bearer, across one change of roles, memberships, links,
\* sign-ins or deployment.
SPECIFICATION Spec
CONSTANTS
  Creations = {c1, c2}
  Listings = {}
  Revocations = {}
  Exchanges = {e1}
  Owners = {o1}
  Realms = {realmA, realmB}
  RealmOf <- OneRealm
  Orgs = {g1, g2}
  Urls = {u1}
  Resources = {x1}
  Canon <- OneUrl
  Scopes = {s1}
  Defaults <- NoDefaults
  Configs <- RealmMove
  Rosters <- SomeOrgs
  Lifetimes = {1}
  LongLifetime = 1
  AssertionLife = 1
  Second = 1
  MaxTime = 0
  MaxChanges = 1
  None = None
  o1 = o1
  o2 = o2
  g1 = g1
  g2 = g2
  u1 = u1
  u2 = u2
  x1 = x1
  x2 = x2
  s1 = s1
  s2 = s2
  realmA = realmA
  realmB = realmB
INVARIANTS
  MintedBySignedInOwner
PROPERTIES
  RequestsEnd
