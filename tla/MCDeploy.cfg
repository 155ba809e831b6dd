\* Two instances and two images through migrations and one key rotation.
SPECIFICATION Spec
CONSTANTS
  Instances = {i1, i2}
  Assertions = {a1}
  Releases = {1, 2}
  Bases <- GoodAndMistaken
  Rotation <- OldToNew
  MaxMigrations = 2
  MaxStops = 1
  Hosts = {host}
  Issuers = {issA, issB}
  Kids = {kidA, kidB}
  Last = 1
  None = None
  host = host
  issA = issA
  issB = issB
  kidA = kidA
  kidB = kidB
SYMMETRY InstanceSymmetry
INVARIANTS
  TypeOK
  SchemaCoversServing
  ConfigIsUsable
  FetchBringsTheKey
  ClearEndsOldKeys
