SPECIFICATION FairSpec
CONSTANTS
  log = log
  app = app
  runtime = runtime
  engine = engine
  options = options
  plugin = plugin
  w1 = w1
  w2 = w2
  Module = {log, app, runtime, engine, options, plugin}
  Requests <- MCRequests
  Roots <- MCRoots
  Log = log
  StartupFails = {plugin}
  FinalizeFails = {engine}
  Main = main
  Thread = {main, w1, w2}
  NoBuffer = NoBuffer
  ChunkSize = 3
  BatchSize = 2
  MaxMessages <- MCMessages
  MaxChunks = 2
  MaxImports = 2
  MaxLoads = 1
INVARIANTS ModulesNested MessagesIntact QueuesOutliveUsers
PROPERTIES ShutdownEnds
CHECK_DEADLOCK FALSE
