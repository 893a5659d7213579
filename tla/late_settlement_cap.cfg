SPECIFICATION Spec
CONSTANTS
  k1 = k1  k2 = k2  k3 = k3  n1 = n1  n2 = n2  t1 = t1  t2 = t2
  Ids = {c1, c2}
  Workers = {w1}
  Polls = {p1}
  Keys = {k1, k2, k3}
  Nonces = {n1, n2}
  Txs = {t1}
  Executed = {t1}
  Charges <- BudgetCharges
  Policies <- BudgetPolicies
  Spends <- MCSpends
  DayLength = 3
  MaxTime = 2
  NoPolicy = NoPolicy  NoId = NoId  NoWorker = NoWorker  NoTx = NoTx
SYMMETRY Symmetry
INVARIANTS DailyCapHolds
