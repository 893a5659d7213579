SPECIFICATION BridgeSpec
CONSTANTS
  Roots = {m1, m2}
  Terms = {n1, n2}
  Datasets = {d1}
  OtherNetworks = {"botchain:mainnet"}
  Evidence <- MCEvidence
  \* Two calls, one fault.
  Calls = {m1, m2}
  ApiRoots = {"r1"}
  ApiDatasets = {"d1"}
  ApiTerms = {"t1", "t2"}
  ApiNetworks <- MCApiNetworks
  ApiResolves = TRUE
  MaxFaults = 1
  MaxPrice = 2
  PriceOf <- MCPriceOf
  \* Two clients of which the limiter tracks one; the day ends inside a window.
  Clients = {m1, m2}
  WindowMs = 2
  RequestsPerWindow = 2
  DailyLimit = 3
  MaxTrackedClients = 1
  Day = 3
  MaxTime = 4
  MaxCalls = 5
  None = None
INVARIANTS
  RecordIsEarned
  SpentOnWhatWasAsked
  SpendingIsLimited
PROPERTIES
  CallsAreAssessments
SYMMETRY Symmetry
CHECK_DEADLOCK FALSE
