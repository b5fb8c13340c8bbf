SPECIFICATION Spec
CONSTANTS
  Candidates <- MCCandidates
  f1 = f1
  f2 = f2
  Path = {f1, f2}
  s1 = s1
  s2 = s2
  Commit = {s1, s2}
  Conditions = {"medium", "high"}
  Selected <- MCSelected
  Romanian = {"clienti"}
  Hard = {"ranking"}
  Expected <- MCExpected
  Results <- MCResults
  EndToEndTie = 400000
  AccuracyTie = 5000
  None = None
INVARIANTS
  ComparedRunsAreControlled
  LowerAccuracyOnlyForLatency
  NeverDominated
SYMMETRY Symmetry
CHECK_DEADLOCK FALSE
