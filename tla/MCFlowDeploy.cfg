\* Registration, document changes, redeployments and refreshes around one flow.
SPECIFICATION Spec
CONSTANTS
  Registrations = {g1}
  Flows = {f1}
  Callbacks = {b1}
  Redemptions = {t1}
  Refreshes = {h1, h2}
  CimdClients = {k1}
  Hosts = {web, local}
  Loopback = {local}
  Ports = {1, 2}
  Paths = {"cb"}
  Uris <- ManyUris
  Secrets = {p1}
  Resources = {x1, x2}
  ClientIds = {i1, i2}
  Keys = {key1, key2}
  Configs <- Redeployments
  Documents <- TwoDocuments
  StateTtl = 1
  CodeTtl = 1
  MaxTime = 0
  MaxChanges = 1
  None = None
  web = web
  local = local
  x1 = x1
  x2 = x2
  i1 = i1
  i2 = i2
  key1 = key1
  key2 = key2
INVARIANTS
  TypeOK
  SentOnlyToRegistered
  RefreshKeepsResource
