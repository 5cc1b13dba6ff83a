SPECIFICATION FairSpec
CONSTANTS
  Calls = {c1, c2}
  Methods = {"", "none", "jwt", "oauth"}
  Nobody = nobody
  Outsider = outsider
INVARIANTS
  TypeOK
  RetryCarriesNewToken
  SessionNotLost
PROPERTIES
  OnlyTheCallbackBlocks
  ImplementsCallContract
