SPECIFICATION Spec
CONSTANTS
  r1 = r1
  c1 = c1
  Request = {r1}
  Connection = {c1}
  Relation <- MCRelation
  Banking <- MCBanking
  Statement <- MCStatement
  ReadOnly <- MCReadOnly
  Analytical <- MCAnalytical
  Refs <- MCRefs
  StatementErrors <- MCStatementErrors
  ProviderErrors = {"GroqRateLimitError"}
  None = None
INVARIANTS
  SafetyRejectionRanNothing
