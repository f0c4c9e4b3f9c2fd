SPECIFICATION HierSpec
CONSTANTS
  na = na nb = nb nl = nl
  Areas = {east, west}
  Density <- MCDensity
  MaxCrews = 0
  Accounts = {na, nb, nl, ns}
  TierOf <- MCTierOf
  Visits = {v1}
  Asks = {q1}
  Editors = {e1}
INVARIANT WaitingCanBeAnswered
CHECK_DEADLOCK FALSE
