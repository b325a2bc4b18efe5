SPECIFICATION Spec
CONSTANTS
  Admins = {a1, a2}
  Clients = {demo, shop}
  DemoClient = demo
  Ids = {i1, i2}
  DemoId = i1
  None = None
  MaxSecrets = 3
  MaxTroubles = 1
SYMMETRY Symmetry
INVARIANTS TypeOK SecretsInForce
PROPERTIES SecretsKept
CHECK_DEADLOCK FALSE
