SPECIFICATION Spec
CONSTANTS
  f1 = f1 c1 = c1 d1 = d1
  east = east na = na nb = nb nl = nl ra = ra w1 = w1 h1 = h1 h2 = h2
  Orders = {o1}
  Lines = {l1, l2}
  Ordered <- MCOrdered
  Returns = {r1}
  Clerks = {h1, h2}
  PriceIds = {p1, p2, p3}
  Deciders = {h1, h2}
  LastPriceDay = 1
  Invoices = {i1}
  Total <- MCTotal
  PaymentIds = {p1, p2, p3}
  Cashiers = {h1, h2}
  Statements = {s1}
  Partners = {h1, h2}
  Firms = {f1}
  Crews = {c1, c2}
  FirmOf <- MCFirmOf
  KindOf <- MCKindOf
  Docs = {d1, d2}
  DocOf <- MCDocOf
  Calls = {j1}
  WorkOf <- MCWorkOf
  FirstDay <- MCFirstDay
  LastDay <- MCLastDay
  Days = {1, 2}
  Desks = {h1, h2}
  Techs = {a1, a2}
  Employer <- MCEmployer
  Units = {u1}
  UnitKind <- MCUnitKind
  UnitFirm <- MCUnitFirm
  Offices = {h1, h2}
  Org = org
  RegionNodes = {ra, rb}
  Locations = {lo}
  Agreements = {k1}
  Amends <- MCAmends
  Ranks = {1, 2}
  LastDate = 2
  MaxRows = 2
  Authors = {h1, h2}
  Officers = {e1}
  Areas = {east, west}
  Density <- MCDensity
  MaxCrews = 1
  Accounts = {na, nb, nl, ns}
  TierOf <- MCTierOf
  Visits = {v1}
  Asks = {q1}
  Editors = {h1, h2}
  Leads = {e1}
  Converters = {h1, h2}
  Tickets = {t1}
  Pics = {m1, m2, m3}
  PHOTOS_PER_REQUEST = 2
  Spots = {x1}
  Wordings = {w1, w2}
  Locators = {h1, h2}
  Handsets = {b1}
  People = {n1}
  Grants = {g1}
  Sessions = {h1, h2}
  Claims = {w1, w2}
  TokenTtl = 2
  LastMoment = 3
  Doors = {e1}
  Papers = {c1, c2}
  EXPIRY_WARN_DAYS = {1, 2}
  Sweepers = {h1, h2}
  MaxDay = 2
  Reports = 3
  Openers = {h1, h2}
  QuoteLimit = 2
  MaxVersions = 3
  MaxFetches = 3
  MaxLoads = 2
SYMMETRY Symmetry
INVARIANTS
  QuantitiesAddUp
  OnePricePerDay
  PaidAddsUp
  SentIsCovered
  SeatsAreSound
  AdmittedTermsResolve
  TreeFollowsItsEdges
  OpenJobsFollowTheirSite
  OneHomePerLead
  PhotosAreSound
  PinIsForTheAddress
  AdmittedIsOnShift
  OneQuoteJob
  WarnedOncePerMark
PROPERTIES
  BilledIsKept
  DisputeIsNotAcknowledged
  HeldGoesForward
CHECK_DEADLOCK FALSE
