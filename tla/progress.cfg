SPECIFICATION ProgressSpec
CONSTANT None = None
PROPERTIES
  BuysAreAnswered
  JobsEnd
  ReasonsLeadToReady
  RunsEnd
CHECK_DEADLOCK FALSE
