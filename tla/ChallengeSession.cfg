SPECIFICATION Spec
CONSTANTS
  Sessions = {s1}
  Handlers = {h1, h2}
  TicketValues = {t1, t2}
  None = None
  MaxFailures = 2
  SessionTTL = 0
  TopLevel = 2
  Backends = {"redis", "memory"}
  MaxClock = 2
  MaxChallenges = 3
  MaxAttempts = 3
SYMMETRY Symmetry
INVARIANTS TypeOK SessionsSound
PROPERTIES QuietSessionsOrderly
