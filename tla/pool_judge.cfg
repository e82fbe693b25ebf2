SPECIFICATION FairSpec
CONSTANTS
  s1 = s1  s2 = s2  s3 = s3
  t1 = t1  t2 = t2  t3 = t3
  NoTask = NoTask
  Slots <- TwoSlots
  Tasks <- TwoTasks
  minNum = 1
  IntMax = 4
  WaitTimes <- NoWaits
  ExitBound = 2
  CreateFails = FALSE
  MayDestroy = FALSE
INVARIANTS TypeOK
PROPERTIES EveryTaskRuns ShrinkEnds
