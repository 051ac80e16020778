\* Fair threads.  A destroyed pool stops.
SPECIFICATION FairPoolSpec
CONSTANTS
  w1 = w1  w2 = w2  w3 = w3
  t1 = t1  t2 = t2  t3 = t3
  Free = Free
  Workers <- ThreeWorkers
  Tasks <- TwoTasks
INVARIANT StrandedOnlyIfMissed
PROPERTIES TakenOrStranded NextPushRescues JoinEnds
CHECK_DEADLOCK FALSE
