\* Two flows, two callbacks, two redemptions and a refresh mixed up in every way, over time.
SPECIFICATION Spec
CONSTANTS
  Registrations = {}
  Flows = {f1, f2}
  Callbacks = {b1, b2}
  Redemptions = {t1, t2}
  Refreshes = {h1}
  CimdClients = {k1}
  Hosts = {web, local}
  Loopback = {local}
  Ports = {1, 2}
  Paths = {"cb"}
  Uris <- OneUri
  Secrets = {p1, p2}
  Resources = {x1}
  ClientIds = {i1, i2}
  Keys = {key1, key2}
  Configs <- OneDeployment
  Documents <- OneDocument
  StateTtl = 1
  CodeTtl = 1
  MaxTime = 2
  MaxChanges = 0
  None = None
  web = web
  local = local
  x1 = x1
  x2 = x2
  i1 = i1
  i2 = i2
  key1 = key1
  key2 = key2
SYMMETRY FlowSymmetry
INVARIANTS
  TokensOfOwnFlow
  RedeemedInTime
PROPERTIES
  ImplementsSignIn
