SPECIFICATION Spec
CONSTANTS
  Jobs = {j1}
  Crews = {c1, c2}
  Handlers = {h1, h2}
  Rows = {a1, a2}
  MutationIds = {i1}
  WrapUpIds = {}
  Photos = {}
  MinPhotos = 0
  JOB_MEDIA_MAX = 1
  MaxVersion = 6
  None = None
INVARIANT CrewMatchesState
PROPERTIES
  MovesAreLegal
  EveryRequestEnds
CHECK_DEADLOCK FALSE
