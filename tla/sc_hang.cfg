\* Parser-accepted counts for which the reduction loop of select_count never ends.
CONSTANTS
  Fuel = 40
  Mins = {1, 2}
  Maxs = {2, 4, 8}
  Opers = {"+", "^"}
  Operands = {0, 1, 2}
  MaxQual = 8
  Requests <- MCRequests
  Quals <- MCQuals
SPECIFICATION Spec
INVARIANT Terminates
