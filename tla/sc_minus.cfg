\* The parser accepts operator '-', which select_count does not reduce.
CONSTANTS
  Fuel = 40
  Mins = {1, 2}
  Maxs = {1, 2, 4, 8}
  Opers = {"-"}
  Operands = {1, 2}
  MaxQual = 8
  Requests <- MCRequests
  Quals <- MCQuals
SPECIFICATION Spec
INVARIANT CountWithinAvail
