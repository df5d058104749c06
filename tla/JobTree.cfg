SPECIFICATION Spec
CONSTANTS
  NumThreads = 2
  Job = {j1, j2, j3}
  NoJob = NoJob
  WaitThreshold = 0
  ClientOps = {"push_waitable", "push_child", "push_waitable_child", "wait", "try_wait", "increase_reference", "decrease_reference"}
SYMMETRY Symmetry
INVARIANTS NoUseAfterFree DestroyedAfterTree ChildlessDestroyed
PROPERTIES WaitSound
CHECK_DEADLOCK FALSE
