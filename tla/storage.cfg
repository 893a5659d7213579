SPECIFICATION StorageSpec
CONSTANTS
  Processes <- MCProcesses
  Supported <- MCSupported
  Created = {0, 4, 5}
  PolicyIds = {p1}
  MaxRevision = 2
  MaxFaults = 2
  \* Two transactions, an archive and two backups, and one failed command.
  MaxTx = 2
  MaxArchives = 1
  MaxBackups = 2
  MaxFailures = 1
  MaxKills = 0
  FreshHost = FALSE
  BetweenStarts = FALSE
  PsFails = FALSE
  \* Two workers and three challenges: the third may race the second.
  Operators = {o1}
  Workers = {n1, n2}
  Challenges = {m1, m2, m3}
  Kinds = {"policy", "provider", "issue", "revoke"}
  Texts = {k1, k2}
  ChallengeTtl = 1
  SessionTtl = 2
  HandedOn = "prefixed"
  LastRevision = 2
  MaxTime = 1
  None = None
INVARIANTS
  SchemaIsAPrefix
  CommittedIsSomewhere
  SignaturesAreSpentOnce
PROPERTIES
  SignedLogImplemented
SYMMETRY Symmetry
CHECK_DEADLOCK FALSE
