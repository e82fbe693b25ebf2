SPECIFICATION Spec
CONSTANTS
  u1 = u1  u2 = u2  u3 = u3  u4 = u4
  Uploads = {u1, u2, u3, u4}
  Num <- OneToThree
  MaxCases = 3
  Turns = TRUE
  Again = FALSE
INVARIANTS TypeOK PublishedIsComplete NothingHidden
CHECK_DEADLOCK FALSE
