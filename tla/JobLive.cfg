SPECIFICATION FairSpec
CONSTANTS
  NumThreads = 2
  Job = {j1, j2, j3}
  NoJob = NoJob
  WaitThreshold = 0
  ClientOps = {"push_waitable", "push_child", "wait"}
PROPERTIES WaitReturns QueuedRuns ImplementsForkJoin
CHECK_DEADLOCK FALSE
