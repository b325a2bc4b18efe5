SPECIFICATION Spec
CONSTANTS
  Admins = {a1, a2}
  Clients = {demo, shop}
  Registered = {demo}
  Ids = {i1, i2, i3}
  Seeds = {i1}
  None = None
  Ages = {0, 1}
  AuditCap = 2
  MaxItems = 2
  MaxChanges = 2
  MaxTroubles = 3
SYMMETRY Symmetry
INVARIANTS TypeOK ChangesAreTold
PROPERTIES StoredIsKept
CHECK_DEADLOCK FALSE
