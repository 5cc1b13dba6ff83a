SPECIFICATION Spec
CONSTANTS
  Processes = {p1, p2}
  Names = {d, x}
  Default = d
  Absent = absent
  Original = original
  Legacy = legacy
  NoName = noname
INVARIANTS
  TypeOK
  CurrentProfileExists
PROPERTIES
  WritesAreLocal
