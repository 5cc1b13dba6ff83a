CHECK_DEADLOCK FALSE
SPECIFICATION FairSpec
CONSTANTS
  CustomTags = {"joe"}
  u1 = u1
  u2 = u2
  Users <- MCUsers
  Templated <- MCTemplated
  System <- MCSystem
  EnvType = "prod"
  Version <- MCVersion
  MaxCommands = 3
  MaxUploads = 2
  MaxDeletions = 2
INVARIANTS
  TypeOK
  DecisionsAgree
PROPERTIES
  InstalledIsUploaded
  DeletedIsGone
  SubscribesTagAsked
  ProcessedPushReturns
