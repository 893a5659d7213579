SPECIFICATION EvidenceSpec
CONSTANTS
  four = four  six = six  private = private  name = name
  Urls <- MCUrls
  Literals = {four, six, private}
  Names = {name}
  Permitted = {four, six}
  Family <- MCFamily
  Answers <- MCAnswers
  AllowHttp = FALSE
  TimeoutMs = 3
  MaxRedirects = 2
  MaxAddresses = 2
  \* Payments that differ in at most two fields from a right one; two calls fail.
  Offers <- MCOffers
  Loader = "any"
  MaxFaults = 2
  MaxTime = 2
  \* An account that changes twice while two calls are tried twice each.
  Attempts = 2
  DustMotes = 100
  MaxChanges = 2
  YoungBlocks = 1000
  YoungAccountBlocks = 5000
  Evidence <- MCRecords
  MaxLeaves = 3
  MaxProof = 3
  None = None
  Null = Null
  Junk = Junk
INVARIANTS
  SendsOnlyWherePermitted
  AnswersRestOnTheChain
  OnlyRecordsVerify
PROPERTIES
  RiskNeverHelps
CHECK_DEADLOCK FALSE
