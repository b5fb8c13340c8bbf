SPECIFICATION ComparisonSpec
CONSTANTS
  Value <- MCValue
  QueryResults <- MCResults
  Modes = {"scalar", "ordered_rows", "unordered_rows"}
  Tolerances = {Absent, 0, 100}
  Absent = Absent
INVARIANT EqualNumbersMatch
