SPECIFICATION Spec
CONSTANTS
  i1 = i1 i2 = i2 i3 = i3
  Ids = {i1, i2}
  Mutations <- MCMutations
  InitialStates = {"assigned"}
  MaxInFlight = 2
  MaxOffice = 1
  SignsInAgain = FALSE
  None = None
PROPERTY NotSilentlyDiscarded
