SPECIFICATION FairSpec
CONSTANTS
  s1 = s1  s2 = s2  s3 = s3
  f1 = f1  f2 = f2
  p1 = p1  p2 = p2
  None = None
  Subs = {s2, s3}
  Files = {f1, f2}
  FileOf <- FileOfSub
  Polls = {}
  NumCases = 2
  Tests = {0, 1}
  Rows <- Attempts
  MaxRows = 2
  Program <- Faulty
  Size <- SizeOfSub
  Capacity = 2
  Overlap = FALSE
  OnePage = FALSE
  Expiry = TRUE
  MayWipe = FALSE
  MayRestart = TRUE
  Lossy = {f2}
  Failing = {s2}
INVARIANTS SumIsEarned OthersDoNoHarm
PROPERTIES AcceptedIsJudged
CHECK_DEADLOCK FALSE
