SPECIFICATION ApiSpec
CONSTANTS
  \* Two verdicts and three transactions, so that a card can name a transaction
  \* that recorded the other verdict.
  Verdicts = {v1, v2}
  Transactions = {x1, x2, x3}
  Requests = {y1, y2}
  Limits = {1, 2}
  MaxSequence = 3
  MaxRestarts = 1
  \* Two buyers, two quotes of which one may be open, and two authorizations.
  Quotes = {v1, v2}
  Buyers = {y1, y2}
  Auths = {"a1", "a2"}
  ValidBefore <- MCValidBefore
  QuoteTtl = 2
  MaxActiveQuotes = 1
  Tries = 2
  FacilitatorRepeats = TRUE
  LastQuoteTime = 2
  MaxStarts = 1
  MaxBuys = 3
  \* Two tokens, of which one can be queried, and two loads.
  Keys = {"k1", "k2"}
  Loadable = {"k1"}
  Askers = {"p1"}
  Loads = {y1, y2}
  CacheTtl = 2
  FailureTtl = 1
  LastAssetTime = 2
  MaxChanges = 1
  \* Three clients for two buckets; the environment variable is missing, zero,
  \* usable or too large.
  Clients = {x1, x2, x3}
  RawLimits = {None, 0, 1, 3}
  DefaultLimit = 2
  MaxLimit = 2
  WindowMs = 3
  MaxKeys = 2
  Second = 2
  LastLimitTime = 4
  MaxRequests = 5
  None = None
INVARIANTS
  EntriesHaveCards
  ReportsArePaid
  ReadinessIsCurrent
  OverBudgetNeedsCrowd
PROPERTIES
  StorePromises
  SoldQuoteChargesNobody
SYMMETRY Symmetry
CHECK_DEADLOCK FALSE
