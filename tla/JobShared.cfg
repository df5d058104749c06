SPECIFICATION FairSpec
CONSTANTS
  NumThreads = 3
  Job = {j1, j2}
  NoJob = NoJob
  WaitThreshold = 0
  ClientOps = {"push_waitable", "push_child", "wait", "increase_reference", "shutdown"}
PROPERTIES SharedJobsProgress ShutdownReturns
CHECK_DEADLOCK FALSE
