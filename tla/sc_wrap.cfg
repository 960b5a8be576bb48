\* '+' reductions whose operand exceeds the remaining count: unsigned wrap-around.
CONSTANTS
  Fuel = 40
  Mins = {1}
  Maxs = {6, 11}
  Opers = {"+"}
  Operands = {4, 7}
  MaxQual = 2
  Requests <- MCRequests
  Quals <- MCQuals
SPECIFICATION Spec
INVARIANT MatchesReference
