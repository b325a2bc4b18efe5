SPECIFICATION LimiterSpec
CONSTANTS
  Servers = {s1, s2}
  Limit = 1
  Window = 2
  Strategies = {"fixed_window", "sliding_window", "token_bucket"}
  None = None
  MaxClock = 3
  MaxHits = 4
  MaxTroubles = 1
SYMMETRY Symmetry
CONSTRAINT FewerInTrouble
INVARIANTS LimiterTypeOK LimitsHold
CHECK_DEADLOCK FALSE
