SPECIFICATION FairSpec
CONSTANTS
  r1 = r1
  r2 = r2
  c1 = c1
  Request = {r1, r2}
  Connection = {c1}
  Relation <- MCRelation
  Banking <- MCBanking
  Statement <- MCStatement
  ReadOnly <- MCReadOnly
  Analytical <- MCAnalytical
  Refs <- MCRefs
  StatementErrors <- MCStatementErrors
  ProviderErrors = {"GroqRateLimitError", "InvalidStructuredResponseError"}
  None = None
INVARIANTS
  TypeOK
  OnlyApprovedSQLRuns
  RepairFollowsCorrectableError
  PoolAccounting
  AnswerMatchesRuns
PROPERTIES
  ApprovedSQLResolves
  ImplementsSafeQuery
  EveryRequestAnswered
