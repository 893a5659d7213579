SPECIFICATION RegistrySpec
CONSTANTS
  \* Two receipts and three transactions: one for each receipt, and one that could
  \* repeat a submission.
  Receipts = {m1, m2}
  Txs = {t1, t2, t3}
  Publishers = {p1}
  MaxAttempts = 2
  RetryBase = 1
  MaxRetry = 1
  BatchSize = 1
  MaxCrashes = 1
  MaxReopens = 1
  NoTx = NoTx
  NoReceipt = NoReceipt
  \* Two payments of which one is of a check; of two workers one has a publisher.
  Checks = {"c1", "c2"}
  Observations = {m1, m2}
  Payments = {"p1", "p2"}
  Pays <- MCPays
  Workers = {"w1", "w2"}
  Publishing = {"w1"}
  Shares = {"s1"}
  ShareTtl = 1
  LastShareTime = 1
  MaxReissues = 1
  NoCheck = "none"
  \* Two reports of which one capability is kept, and two record requests.
  Reports = {m1, m2}
  Decisions = {"approved", "rejected"}
  DecisionOf <- MCDecisionOf
  Calls = {n1, n2}
  TtlMs = 2
  MaxCapabilities = 1
  Tries = 1
  RegistryHash = "64 hex"
  LastBridgeTime = 2
  MaxBuys = 2
  MaxSent = 2
  MaxRestarts = 1
  None = None
INVARIANTS
  ConfirmedIsRecorded
  SubmissionsAccounted
  ReceiptsAgree
  RecordsAreBought
SYMMETRY Symmetry
CHECK_DEADLOCK FALSE
