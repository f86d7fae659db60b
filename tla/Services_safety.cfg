CONSTANTS
  OtpRequests = {r1, r2}
  MaxCodes = 3
  MaxAttempts = 1
  MaxGuesses = 3
  MaxOtpAborts = 1
  Admins = {a1, a2}
  SalesExperts = {e1, e2}
  Nobody = Nobody
  Desks = {r1, r2}
  EnvPassword = TRUE
  CrmLeads = {l1, l2}
  NoLead = NoLead
  Visits = {r1, r2}
  LeadInputs <- MCInputs
  FirstRows <- MCRows
  RequireCall = TRUE
  CrmPeople = {a1, e1, e2}
  MaxVisits = 2
  MaxCrmAborts = 1
  Rounds = {r1, r2}
  Switched = {a1, e1}
  MaxRounds = 2
  MaxDigestFaults = 1
  RateRequests = {r1, r2}
  Limit = 2
  Window = 2
  SecondTicks = 2
  LastTick = 6
  MaxRateFaults = 1
  Handlers = {r1, r2}
  LastQuestion = 1
  MaxTests = 2
  MaxMishaps = 1
  Sweeps = {r1, r2}
  MaxLeads = 2
  MaxSessions = 2
  MaxSweeps = 2
  MaxTouches = 1
  DomainOf <- MCDomainOf
  LayerOf <- MCLayerOf
  Asked <- MCAsked
  Varied = {5, 7, 13, 16}
  Shapes <- MCShapes
  Usual <- MCUsual
  StageCounts = {0, 1, 7, 49, 160}
  MaxStages = 4
  Deltas <- MCDeltas
  Targets = {1, 49, 160}
  Unit = 20
  Cents = 10
SPECIFICATION ServicesSpec
SYMMETRY MCSymmetry
CHECK_DEADLOCK FALSE
INVARIANTS
  GuessesBounded
  AccountsBounded
  ActiveCodesBounded
  AnAdminRemains
  StatusIsBacked
  HistoryIsWhole
  OneDigestPerDay
  ClaimIsSpent
  WithinLimit
  RetryAfterIsTruthful
  PositionIsBacked
  OpenTestsBounded
  StageIsLatest
  ScoresAgree
  DiagnosisIsCoherent
  LeversStayClose
PROPERTY
  WorkIsSpared
