SPECIFICATION WrapSpec
CONSTANTS
  s1 = s1
  Works = {j1}
  ShotsOf <- MCShotsOf
  MaxSubmits = 1
  MaxReloads = 0
PROPERTY TurnedAwayIsSentAgain
CHECK_DEADLOCK FALSE
