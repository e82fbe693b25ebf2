SPECIFICATION Spec
CONSTANTS
  u1 = u1  u2 = u2  u3 = u3  u4 = u4
  Uploads = {u1, u2}
  Num <- TwoOfTwo
  MaxCases = 2
  Turns = TRUE
  Again = TRUE
INVARIANTS PublishedKeepsCases
CHECK_DEADLOCK FALSE
