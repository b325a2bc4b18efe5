SPECIFICATION Spec
CONSTANTS
  Ids = {v1, v2, v3}
  Names = {m}
  Admins = {a1, a2}
  None = None
  Backends = {"memory", "postgres"}
  Spellings = {"active", " active", "retired", "unknown"}
  MaxClock = 5
SYMMETRY Symmetry
INVARIANTS TypeOK QuietNameOneActive ActiveIsNewest
PROPERTIES StaysServed
CHECK_DEADLOCK FALSE
