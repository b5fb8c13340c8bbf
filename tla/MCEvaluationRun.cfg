SPECIFICATION Spec
CONSTANTS
  p1 = p1
  p2 = p2
  k1 = k1
  k2 = k2
  Runner = {p1, p2}
  Config = {k1, k2}
  Selected <- MCSelected
  Status = {"answerable", "unanswerable"}
  MaxStarts = 3
  Expected <- MCExpected
  ProviderErrors = {"GroqRateLimitError", "GroqRequestError"}
  DatabaseErrors = {"timeout"}
  None = None
INVARIANTS
  ResultsDescribeTheirCase
  TransientFailuresAreRetried
  CasesCountOnce
  RatesAreBounded
  NoCaseRunTwice
  ReportsAreComplete
PROPERTY CompletedCasesRetained
SYMMETRY Symmetry
CHECK_DEADLOCK FALSE
