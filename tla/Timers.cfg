CONSTANTS
  NewTimers <- MCNewTimers
  OnRoundComplete <- MCOnRoundComplete
  Reset <- MCReset
  initial_timeout = 4
  min_timeout = 3
  base_timeout = 2
  fixed_timeout = 10
  max_timeout = 12
  MaxRound = 3
  MaxElapsed = 12
SPECIFICATION Spec
INVARIANTS
  FullTimeout
PROPERTIES
  NewRoundUsesLatest
  KeepsTimingOut
