SPECIFICATION Spec
CHECK_DEADLOCK FALSE
CONSTANTS
  Entities = {"e"}
  Kinds = {"knowledge", "service", "entity", "resourceMapping", "ecpList", "ecpDetails", "ecpHome"}
  Templated = {{}, {"name", "fmm"}, {"name", "fmm", "dashui", "zodiac"}}
  MaxCommands = 3
  MaxCrashes = 1
INVARIANTS
  TypeOK
  ManifestHolds
  TwoManifestsAgree
PROPERTIES
  ExtendDelivers
  FixKeepsOriginal
  ForkIsComplete
