SPECIFICATION MCSpec
CONSTANTS
  Events = {e1, e2}
  Strays = {x1}
  Requests = {h1, h2}
  Relays = {r1, r2}
  BatchSize = 2
  PARKED = 2
  s1 = s1 s2 = s2 j1 = j1 j2 = j2 t1 = t1 t2 = t2
  Works = {j1, j2}
  ShotsOf <- MCShotsOf
  MaxSubmits = 2
  MaxReloads = 1
  Timers = {t1, t2}
  Window <- MCWindow
  Cascades = {w1, w2}
  SlaLimit = 1
  MaxTick = 5
INVARIANTS
  TypeOK
  EventsAreFacts
  NotifiedOnce
  OnlyStraysAreParked
  CompletionIsKept
  EscalationsChain
  BreachIsDue
PROPERTIES
  EveryEventIsPublished
  EveryCompletionSettles
  AnsweredIsNotPaged
  ConsumedIsBreached
CHECK_DEADLOCK FALSE
