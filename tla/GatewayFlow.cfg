SPECIFICATION Spec
CONSTANTS
  Requests = {"r1", "r2"}
  Tickets = {"t1"}
  TicketScene <- MCTicketScene
  Arrivals <- MCArrivals
  Answers <- MCAnswers
  Setups <- MCSetups
  Cooldown = 1
  MaxClock = 3
  MaxUpdates = 1
  Addresses = {"client", "mallory", "proxy"}
  Trusted = {"proxy"}
  None = None
  TokenSet = TRUE
  Junk = "unknown"
  Width = 8
  Raws <- MCRaws
  Decisions <- MCDecisions
  Snapshots <- MCSnapshots
INVARIANTS TypeOK RequestsJudged TrustedHopsOnly ContractKept
PROPERTIES BreakerHolds EveryRequestAnswered
CHECK_DEADLOCK FALSE
