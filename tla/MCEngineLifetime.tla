--------------------------- MODULE MCEngineLifetime ---------------------------
EXTENDS EngineLifetimeInv, TLC

CONSTANTS log, app, runtime, engine, options, plugin, w1, w2

ByType(m) == [module |-> m, by |-> "type"]
ByPath(m) == [module |-> m, by |-> "path"]

\* The editor loads the runtime, which loads the engine through the graphics
\* module, and the options that the engine needs too; the project names its
\* plugin twice; init loads the engine once more (app.cpp:559-583).
MCRequests ==
  log :> <<>> @@ options :> <<>> @@ engine :> <<ByType(options)>>
    @@ runtime :> <<ByType(engine)>> @@ app :> <<ByType(runtime), ByType(options)>>
    @@ plugin :> <<ByType(runtime)>>
MCRoots == <<ByType(log), ByType(app), ByPath(plugin), ByPath(plugin), ByType(engine)>>
MCMessages == Main :> 2 @@ w1 :> 1 @@ w2 :> 1
===============================================================================
