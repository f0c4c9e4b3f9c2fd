SPECIFICATION Spec
CONSTANTS
  i1 = i1 i2 = i2 i3 = i3
  Ids = {i1, i2}
  Mutations <- MCSessions
  InitialStates = {"assigned"}
  MaxInFlight = 2
  MaxOffice = 0
  SignsInAgain = TRUE
  None = None
INVARIANT AppliedAtMostOnce
PROPERTY EveryIntentLeaves
