SPECIFICATION Spec
CONSTANTS
  Sessions = {s1}
  Handlers = {h1, h2}
  TicketValues = {t1, t2}
  None = None
  MaxFailures = 5
  SessionTTL = 1
  TopLevel = 1
  Backends = {"memory"}
  MaxClock = 1
  MaxChallenges = 2
  MaxAttempts = 2
INVARIANTS OneTicketPerSession
