SPECIFICATION FairSpec
CONSTANTS
  Thread = {main, t1}
  Main = main
  Res = {r1}
  NoRes = NoRes
  Ops = {"load_start_async", "update"}
PROPERTIES LoadFinishes
