SPECIFICATION Spec
CONSTANTS
  a = a  b = b  x = x  e1 = e1  e2 = e2  r1 = r1  r2 = r2
  Requests = {r1, r2}
  Designs = {a, b, x}
  Elements = {e1, e2}
  Molds <- KnownMolds
  Sold <- SoldElements
  DesignOf <- ElementDesign
  FoundBy <- Findings
  None = None
  MaxFaults = 1
  MaxLapses = 1
INVARIANTS StatusIsTrue AnswerIsWhole
SYMMETRY RequestSymmetry
CHECK_DEADLOCK FALSE
