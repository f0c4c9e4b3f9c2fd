SPECIFICATION Spec
CONSTANTS
  i1 = i1 i2 = i2 i3 = i3
  Ids = {i1, i2, i3}
  Mutations <- MCMutations
  InitialStates = {"assigned", "awaiting_customer"}
  MaxInFlight = 2
  MaxOffice = 1
  SignsInAgain = FALSE
  None = None
SYMMETRY Symmetry
CONSTRAINT MCMade
INVARIANTS
  UnsettledIsStored
  AppliedInDeviceOrder
PROPERTIES
  ImplementsLedger
