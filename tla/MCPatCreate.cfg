\* One creation over two resources, and an exchange of its token, while roles,
\* memberships, links, sign-ins and the deployment change.
SPECIFICATION Spec
CONSTANTS
  Creations = {c1}
  Listings = {}
  Revocations = {}
  Exchanges = {e1}
  Owners = {o1}
  Realms = {realmA, realmB}
  RealmOf <- OneRealm
  Orgs = {g1, g2}
  Urls = {u1, u2}
  Resources = {x1, x2}
  Canon <- TwoUrls
  Scopes = {s1, s2}
  Defaults <- SomeDefaults
  Configs <- Redeployments
  Rosters <- MixedRosters
  Lifetimes = {0, 1, 2}
  LongLifetime = 1
  AssertionLife = 1
  Second = 1
  MaxTime = 1
  MaxChanges = 2
  None = None
  o1 = o1
  o2 = o2
  g1 = g1
  g2 = g2
  u1 = u1
  u2 = u2
  x1 = x1
  x2 = x2
  s1 = s1
  s2 = s2
  realmA = realmA
  realmB = realmB
INVARIANTS
  StoredSetWasGranted
  ShortTokenWithinRow
