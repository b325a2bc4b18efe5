SPECIFICATION Spec
CONSTANTS
  Values = {v1}
  Requests = {r1, r2, r3}
  scene = scene
  address = address
  account = account
  path = path
  x = x
  y = y
  Fields = {scene, address, account, path}
  Scope = {scene}
  Origin = {address}
  Way = {path}
  Marks = {x, y}
  Contexts <- MCContexts
  None = None
  TicketTTL = 0
  ClearanceTTL = 0
  Backends = {"redis", "memory"}
  MaxClock = 1
SYMMETRY Symmetry
CONSTRAINT OneTrouble
INVARIANTS TypeOK ClearancesHold
PROPERTIES RedemptionIsOneShot
CHECK_DEADLOCK FALSE
