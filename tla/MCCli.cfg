\* A creation and a revocation or a listing, side by side or one after the other on one port.
SPECIFICATION FairSpec
CONSTANTS
  Commands = {k1, k2}
  Uses <- CreateAndOther
  Browsers = {b1, b2}
  Ports = {p1}
  Sites = {https, http}
  Strays <- LinkAndMixUp
  Secure = {https}
  None = None
  k1 = k1
  k2 = k2
INVARIANTS
  TypeOK
  OneRedirectCounts
  OwnCodeRedeemed
  NothingWasCreated
  SuccessIsReal
  SecretsStaySecure
PROPERTIES
  CommandsEnd
