SPECIFICATION Spec
CONSTANTS
  h1 = h1 h2 = h2
  i1 = i1 i2 = i2
  a1 = a1 a2 = a2
  Jobs = {j1}
  Crews = {c1}
  Handlers = {h1, h2}
  Rows = {a1, a2}
  MutationIds = {i1, i2}
  WrapUpIds = {w1}
  Photos = {p1}
  MinPhotos = 1
  JOB_MEDIA_MAX = 1
  MaxVersion = 6
  None = None
SYMMETRY Symmetry
INVARIANTS
  TypeOK
  DispatchedIsAnswered
PROPERTIES
  HistoryIsTrue
  RetriedWrapUpIsRecognised
CHECK_DEADLOCK FALSE
