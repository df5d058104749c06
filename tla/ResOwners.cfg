SPECIFICATION FairSpec
CONSTANTS
  Thread = {main, t1}
  Main = main
  Res = {r1, r2}
  NoRes = NoRes
  Ops = {"copy", "load_start_async", "load_sync", "update", "instantiate"}
INVARIANTS CounterExact NoUseAfterDelete LoadedOnce JobReaped StaleIsInvalidated
PROPERTIES LoadSyncSees LoadWaitsReturn
CHECK_DEADLOCK FALSE
