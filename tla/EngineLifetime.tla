---------------------------- MODULE EngineLifetime ----------------------------
(***************************************************************************)
(* The lifetime of the editor (app.cpp): the job manager starts, the log   *)
(* module is loaded first, then the application's modules; the engine      *)
(* runs imports and loads as jobs; shutdown waits for the imports, but not *)
(* for the loads, shuts the modules down, the log last, and joins the      *)
(* workers.                                                                *)
(*                                                                         *)
(* This composes ModuleManager and LogQueue with the part of the job       *)
(* manager they meet: the queue of the main thread, that workers and the   *)
(* waits of the main thread both take from.  JobManager has its details.   *)
(***************************************************************************)
EXTENDS ModuleManager, LogQueue

CONSTANTS
  Main,        \* the main thread; the other threads are workers
  Log,         \* log_module
  Roots,       \* Seq(Request): what init loads, the log first
  MaxImports,  \* bound: imports
  MaxLoads     \* bound: loads the main thread starts

ASSUME MainAssumption == Main \in Thread
ASSUME BoundsAssumption == MaxImports \in Nat /\ MaxLoads \in Nat
ASSUME RootsAssumption ==
  /\ Roots \in Seq(Request) /\ Roots # <<>>
  /\ Roots[1] = [module |-> Log, by |-> "type"]

VARIABLES
  phase,       \* where the application is
  root,        \* how many of Roots it has asked for
  queue,       \* the job queue of the main thread
  running,     \* the job each thread runs
  waitFor,     \* the job the main thread waits for
  ended,       \* jobs that have ended
  pushed       \* how many imports and loads were pushed

lifeVars == <<phase, root, queue, running, waitFor, ended, pushed>>
vars == <<managerVars, logVars, lifeVars>>

Worker == Thread \ {Main}
FlushJob == <<"flush", 0>>
Import(i) == <<"import", i>>
LoadJob(i) == <<"load", i>>
NoJob == <<"none", 0>>
LoadJobs == {LoadJob(i) : i \in 1..MaxLoads}
Job == {FlushJob} \cup {Import(i) : i \in 1..MaxImports} \cup LoadJobs

TypeOK ==
  /\ ManagerTypeOK
  /\ LogTypeOK
  /\ phase \in {"init", "run", "closing", "modules", "flushing", "jobs", "down", "undefined"}
  /\ root \in 0..Len(Roots)
  /\ queue \in Seq(Job)
  /\ running \in [Thread -> Job \cup {NoJob}]
  /\ waitFor \in Job \cup {NoJob}
  /\ ended \subseteq Job
  /\ pushed \in [{"import", "load"} -> Nat]

\* job_manager::init has returned: the workers poll the queues.
Init ==
  /\ ManagerInit /\ LogInit
  /\ phase = "init"
  /\ root = 0
  /\ queue = <<>>
  /\ running = [t \in Thread |-> NoJob]
  /\ waitFor = NoJob
  /\ ended = {}
  /\ pushed = [k \in {"import", "load"} |-> 0]

\* The main thread is in its own code: in no wait and in no call of the log.
MainFree == waitFor = NoJob /\ writing[Main] = NoBuffer

-------------------------------------------------------------------------------
(* Start-up *)

\* init_log, then the loads of init.
LoadRoot ==
  /\ phase = "init" /\ MainFree
  /\ stack = <<>> /\ m_state = "idle"
  /\ root < Len(Roots)
  /\ Load(Roots[root + 1], stack)
  /\ root' = root + 1
  /\ UNCHANGED <<logVars, phase, queue, running, waitFor, ended, pushed>>

StartupStep ==
  /\ MainFree
  /\ \/ /\ StartupAsks
        /\ UNCHANGED <<logVars, queue>>
     \/ /\ StartupSucceeds(Log)
        /\ LogStartup
        /\ queue' = Append(queue, FlushJob)
     \/ \E m \in Module \ {Log} : StartupSucceeds(m) /\ UNCHANGED <<logVars, queue>>
     \/ \E m \in Module : StartupFailsWith(m) /\ UNCHANGED <<logVars, queue>>
  /\ UNCHANGED <<phase, root, running, waitFor, ended, pushed>>

\* project_load may fail once the first two roots are there.
ProjectFails ==
  /\ phase = "init" /\ MainFree
  /\ stack = <<>> /\ m_state = "idle" /\ root = 2
  /\ phase' = "closing"
  /\ UNCHANGED <<managerVars, logVars, root, queue, running, waitFor, ended, pushed>>

FinalizeModules ==
  /\ phase = "init" /\ MainFree
  /\ \/ /\ root = Len(Roots)
        /\ FinalizeBegins
        /\ UNCHANGED phase
     \/ /\ FinalizeStep
        /\ UNCHANGED phase
     \/ /\ m_state = "finalized" /\ phase' = "run"
        /\ UNCHANGED managerVars
     \/ /\ m_state = "failed" /\ phase' = "closing"
        /\ UNCHANGED managerVars
  /\ UNCHANGED <<logVars, root, queue, running, waitFor, ended, pushed>>

-------------------------------------------------------------------------------
(* Jobs *)

\* import and the reimports of update push a job and poll it with try_wait.
PushImport ==
  /\ phase = "run" /\ MainFree
  /\ pushed["import"] < MaxImports
  /\ pushed' = [pushed EXCEPT !["import"] = @ + 1]
  /\ queue' = Append(queue, Import(pushed'["import"]))
  /\ UNCHANGED <<managerVars, logVars, phase, root, running, waitFor, ended>>

\* load_start_async of a resource by the main thread (entity_hierarchy_system.cpp:46,
\* resource_cache.cpp:25), which goes on without waiting.
StartLoad ==
  /\ phase = "run" /\ MainFree
  /\ pushed["load"] < MaxLoads
  /\ pushed' = [pushed EXCEPT !["load"] = @ + 1]
  /\ queue' = Append(queue, LoadJob(pushed'["load"]))
  /\ UNCHANGED <<managerVars, logVars, phase, root, running, waitFor, ended>>

\* The main thread waits for a load: in load_sync, or because it drops the last
\* pointer, which it does only after the load has given up its own, about to end.
\* While the registries are destroyed there is only the latter.
WaitForLoad ==
  /\ MainFree
  /\ \E i \in 1..MaxLoads :
       /\ i <= pushed["load"] /\ LoadJob(i) \notin ended
       /\ \/ phase = "run"
          \/ phase = "closing" /\ \E w \in Worker : running[w] = LoadJob(i)
       /\ waitFor' = LoadJob(i)
  /\ UNCHANGED <<managerVars, logVars, phase, root, queue, running, ended, pushed>>

\* job_manager::wait runs the jobs of its own queue, whichever they are.
WaitEnds ==
  /\ waitFor \in ended /\ running[Main] = NoJob
  /\ waitFor' = NoJob
  /\ UNCHANGED <<managerVars, logVars, phase, root, queue, running, ended, pushed>>

\* Workers stop once the job manager shuts down.
MayTake(t) ==
  IF t = Main THEN waitFor \notin ended \cup {NoJob} ELSE phase \notin {"jobs", "down", "undefined"}

Take(t) ==
  /\ queue # <<>> /\ running[t] = NoJob
  /\ MayTake(t)
  /\ running' = [running EXCEPT ![t] = Head(queue)]
  /\ queue' = Tail(queue)
  /\ IF Head(queue) = FlushJob THEN FlushBegins ELSE UNCHANGED logVars
  /\ UNCHANGED <<managerVars, phase, root, waitFor, ended, pushed>>

RunFlush(t) ==
  /\ running[t] = FlushJob
  /\ FlushStep
  /\ UNCHANGED <<managerVars, lifeVars>>

EndJob(t) ==
  /\ phase # "undefined"
  /\ running[t] # NoJob /\ writing[t] = NoBuffer
  /\ running[t] = FlushJob => flush = "ended"
  /\ ended' = ended \cup {running[t]}
  /\ running' = [running EXCEPT ![t] = NoJob]
  /\ UNCHANGED <<managerVars, logVars, phase, root, queue, waitFor, pushed>>

\* The code of jobs logs, and so does the code of the main thread from init_log
\* to the shutdown of the log.  The flush job logs nothing.
LogBegins(t) ==
  /\ g_asyncQueues # "freed"
  /\ IF t = Main /\ running[Main] = NoJob
     THEN Log \in Loaded /\ waitFor = NoJob /\ phase \notin {"flushing", "jobs", "down", "undefined"}
     ELSE running[t] \notin {NoJob, FlushJob}
  /\ AcquireBuffer(t)
  /\ UNCHANGED <<managerVars, lifeVars>>

LogEnds(t) ==
  /\ g_asyncQueues # "freed"
  /\ EnqueueMessage(t)
  /\ UNCHANGED <<managerVars, lifeVars>>

\* A job that logs after the shutdown of the log, or is in sink_it when the
\* queues are freed, dereferences a null g_asyncQueues, g_isAsync being still
\* true.  Nothing is said of the program after that.
UseFreedQueues(t) ==
  /\ g_asyncQueues = "freed" /\ g_isAsync
  /\ running[t] \notin {NoJob, FlushJob} /\ phase # "undefined"
  /\ phase' = "undefined"
  /\ UNCHANGED <<managerVars, logVars, root, queue, running, waitFor, ended, pushed>>

-------------------------------------------------------------------------------
(* Shutdown *)

Close ==
  /\ phase = "run" /\ MainFree
  /\ phase' = "closing"
  /\ UNCHANGED <<managerVars, logVars, root, queue, running, waitFor, ended, pushed>>

\* Mutant: the registry is destroyed with its imports running.
CloseAssets_NoWait ==
  /\ phase = "closing" /\ MainFree
  /\ phase' = "modules"
  /\ ShutdownBegins
  /\ UNCHANGED <<logVars, root, queue, running, waitFor, ended, pushed>>

\* asset_registry::shutdown returns when update has seen the end of each import.
CloseAssets ==
  /\ phase = "closing" /\ MainFree
  /\ \A i \in 1..pushed["import"] : Import(i) \in ended
  /\ phase' = "modules"
  /\ ShutdownBegins
  /\ UNCHANGED <<logVars, root, queue, running, waitFor, ended, pushed>>

ShutdownModule ==
  /\ phase = "modules" /\ MainFree
  /\ \/ /\ \E m \in Module \ {Log} : ShutdownStep(m)
        /\ UNCHANGED <<logVars, phase, waitFor>>
     \/ /\ NextInReverse(Log)
        /\ phase' = "flushing"
        /\ LogStops
        /\ waitFor' = FlushJob
        /\ UNCHANGED managerVars
     \/ /\ sorted = {}
        /\ phase' = "jobs"
        /\ UNCHANGED <<managerVars, logVars, waitFor>>
  /\ UNCHANGED <<root, queue, running, ended, pushed>>

\* The wait of log_module::shutdown has returned.
LogShutdownEnds ==
  /\ phase = "flushing" /\ MainFree
  /\ LogFrees
  /\ ShutdownStep(Log)
  /\ phase' = "modules"
  /\ UNCHANGED <<root, queue, running, waitFor, ended, pushed>>

\* job_manager::shutdown joins the workers.
JobsShutdown ==
  /\ phase = "jobs"
  /\ \A w \in Worker : running[w] = NoJob
  /\ phase' = "down"
  /\ UNCHANGED <<managerVars, logVars, root, queue, running, waitFor, ended, pushed>>

-------------------------------------------------------------------------------
\* What the main thread does without being asked.
MainStep ==
  \/ LoadRoot \/ StartupStep \/ FinalizeModules
  \/ WaitEnds
  \/ CloseAssets \/ ShutdownModule \/ LogShutdownEnds \/ JobsShutdown

JobStep(t) == Take(t) \/ RunFlush(t) \/ EndJob(t)

Next ==
  \/ MainStep
  \/ ProjectFails \/ PushImport \/ StartLoad \/ WaitForLoad \/ Close
  \/ \E t \in Thread : JobStep(t) \/ LogBegins(t) \/ LogEnds(t) \/ UseFreedQueues(t)

Spec == Init /\ [][Next]_vars

\* Threads keep running, calls of the log return, and jobs end, except that the
\* end of a load is not promised: it may wait for itself (resource_ptr.cpp:33).
Fairness ==
  /\ WF_vars(MainStep)
  /\ \A t \in Thread :
       /\ WF_vars(Take(t) \/ RunFlush(t) \/ (running[t] \notin LoadJobs /\ EndJob(t)))
       /\ WF_vars(LogEnds(t) \/ (writing[t] # NoBuffer /\ UseFreedQueues(t)))

FairSpec == Spec /\ Fairness

-------------------------------------------------------------------------------
\* Once the queues of the log are freed (log_module.cpp:130) the flush job has
\* ended, the main thread is in no call of the log, and no import is left that
\* could log: whoever still runs a job or is in sink_it is a worker with a load,
\* which no step of the shutdown waits for.
QueuesOutliveUsers ==
  g_asyncQueues = "freed" =>
    /\ flush = "ended"
    /\ \A t \in Thread :
         running[t] # NoJob \/ writing[t] # NoBuffer => t # Main /\ running[t] \in LoadJobs

\* No load keeps its thread forever.
LoadsEnd == \A t \in Thread : []<>(running[t] \notin LoadJobs)

\* A shutdown that has begun ends, if the loads do: imports still queued are taken
\* by a worker other than the one that runs the flush job (asset_registry.cpp:455
\* runs no job itself), the flush job sees the stop, or is run by the wait for it if
\* no worker took it (log_module.cpp:126), and every worker comes back to be joined.
ShutdownEnds == LoadsEnd => (phase = "closing" ~> phase \in {"down", "undefined"})
===============================================================================
