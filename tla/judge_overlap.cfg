SPECIFICATION Spec
CONSTANTS
  s1 = s1  s2 = s2  s3 = s3
  f1 = f1  f2 = f2
  p1 = p1  p2 = p2
  None = None
  Subs = {s1, s2}
  Files = {f1}
  FileOf <- FileOfSub
  Polls = {p1}
  NumCases = 2
  Tests = {0, 1}
  Rows <- Attempts
  MaxRows = 2
  Program <- Halves
  Size <- SizeOfSub
  Capacity = 2
  Overlap = TRUE
  OnePage = FALSE
  Expiry = FALSE
  MayWipe = FALSE
  MayRestart = FALSE
  Lossy = {}
  Failing = {}
INVARIANTS PassIsEarned
CHECK_DEADLOCK FALSE
