\* select_count over the counts whose arithmetic stays in range.
CONSTANTS
  Fuel = 40
  Mins = {1, 2, 3}
  Maxs = {1, 2, 3, 5, 8, 9, 17}
  Opers = {"+", "^"}
  Operands = {1, 2, 3}
  MaxQual = 17
  Requests <- SafeRequests
  Quals <- MCQuals
SPECIFICATION Spec
INVARIANT MatchesReference
