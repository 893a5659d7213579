SPECIFICATION ClientsSpec
CONSTANTS
  Attempts = {m1, m2}
  Terms = {n1, n2}
  StableKey = StableKey
  Foreign = Foreign
  Malformed = Malformed
  MaxPolls = 2
  MaxFaults = 1
  MaxLies = 1
  \* A page that reads one charge and has it checked twice, and one that reads two
  \* and has one checked; each with two requests in flight.
  PageKeys = {m1, m2}
  Nonces = {"n1"}
  Charges = {n1, n2}
  MaxProbes = 1
  MaxTasks = 2
  MaxPagePolls = 1
  OtherKeys = {m1}
  OtherProbes = 2
  \* Two operators; one tab and one command save limits of two tokens.
  Operators = {m1, m2}
  Tabs = {"t1"}
  Savers = {"c1"}
  Assets = {n1, n2}
  Series = {"policy"}
  Charge = 1
  MaxCap = 1
  Settings = {"web", "cli"}
  WebDefault = "web"
  CliDefault = "cli"
  MaxRevision = 2
  MaxSwitch = 1
  \* Two shells; of two files one names an idempotency key.
  Shells = {m1, m2}
  Files = {"keyed", "plain"}
  KeyedFiles = {"keyed"}
  Names = {"check", "verify-settlement", "session", "provider", "list"}
  Given <- MCGiven
  MaxRuns = 2
  SignsMessages = TRUE
  HashForm = "bare"
  None = None
INVARIANTS
  OnePaymentPerTrueKey
  ChargedWasApproved
  OnlyApprovedIsSent
  StoredIsOwn
  RerunsAgree
SYMMETRY Symmetry
CHECK_DEADLOCK FALSE
