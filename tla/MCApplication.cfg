SPECIFICATION FairSpec
CONSTANTS
  s1 = s1
  q1 = q1
  q2 = q2
  q3 = q3
  Session = {s1}
  Question = {q1, q2, q3}
  RecentLimit = 2
  MaxAsked = 3
  None = None
INVARIANTS
  RecentQuestionsAreRemembered
  ErrorBesideAnswerIsOlder
  PageShowsLastOutcome
  CachedEngineIsDisposed
PROPERTY WaitingEnds
