--------------------------- MODULE EngineLifetimeInv ---------------------------
(***************************************************************************)
(* The inductive invariant of EngineLifetime, in parts that follow its     *)
(* three layers: the modules, the buffers and messages of the log, and the *)
(* jobs and phases of the application, which keep the first two apart.     *)
(***************************************************************************)
EXTENDS EngineLifetime

-------------------------------------------------------------------------------
(* Modules *)

\* The modules whose startup runs are those of the stack, each once.
StackInv ==
  /\ \A i, j \in DOMAIN stack : stack[i].module = stack[j].module => i = j
  /\ \A m \in Module :
       m_modules[m] = "starting" <=> \E i \in DOMAIN stack : stack[i].module = m
  /\ stack = <<>> <=> m_state # "loading"

\* The load order is a strict order of the loaded modules.
OrderInv ==
  /\ \A m \in Loaded : loadOrder[m] \in 1..m_nextLoadIndex
  /\ \A m, n \in Loaded : loadOrder[m] = loadOrder[n] => m = n

\* What a startup got from load is loaded, and comes before its module.
ObtainedInv ==
  \A m \in Module : m_modules[m] # "absent" =>
    \A d \in obtained[m] : d \in Loaded /\ (m \in Loaded => loadOrder[d] < loadOrder[m])

\* Modules are finalized by finalize, the first in the load order first.
FinalizedInv ==
  /\ m_state \in {"idle", "loading"} => \A m \in Module : m_modules[m] # "finalized"
  /\ \A m, n \in Loaded :
       m_modules[m] = "finalized" /\ loadOrder[n] < loadOrder[m] => m_modules[n] = "finalized"

ShuttingDown == {"modules", "flushing", "jobs", "down", "undefined"}

\* What finalize and shutdown have yet to reach.
SortedInv ==
  /\ sorted = IF phase \in ShuttingDown THEN Loaded
              ELSE IF m_state = "finalizing" THEN {m \in Loaded : m_modules[m] = "started"}
              ELSE {}
  /\ phase # "init" => stack = <<>> /\ m_state # "finalizing"

ModulesInv == StackInv /\ OrderInv /\ ObtainedInv /\ FinalizedInv /\ SortedInv

-------------------------------------------------------------------------------
(* The log *)

Allocated == (1..chunks) \X (1..ChunkSize)

\* The buffers that are queued by some thread.
Queued == UNION {ToSet(logs[t]) : t \in Thread}

\* Every buffer is in one place, and in no queue twice.
OwnedInv ==
  /\ Allocated = buffers \cup Queued \cup ToSet(batch) \cup ({writing[t] : t \in Thread} \ {NoBuffer})
  /\ \A t \in Thread : writing[t] \notin buffers \cup Queued \cup ToSet(batch)
  /\ buffers \cap Queued = {} /\ buffers \cap ToSet(batch) = {} /\ Queued \cap ToSet(batch) = {}
  /\ \A t, u \in Thread : writing[t] = writing[u] /\ writing[t] # NoBuffer => t = u
  /\ \A t, u \in Thread : \A i \in DOMAIN logs[t], j \in DOMAIN logs[u] :
       logs[t][i] = logs[u][j] => t = u /\ i = j
  /\ \A i, j \in DOMAIN batch : batch[i] = batch[j] => i = j

\* The messages that have left the queue of messages, those of the batch that
\* are not sunk yet after those that are.
Out ==
  [i \in 1..(Len(sunk) + Len(batch) - next) |->
     IF i <= Len(sunk) THEN sunk[i] ELSE data[batch[next + i - Len(sunk)]]]

\* How many of the first n messages of o are t's.
CountOf(o, t, n) == Cardinality({j \in 1..n : o[j].thread = t})

\* The messages of a thread are numbered through from the first that was sunk
\* to the one it is writing.
NumberInv ==
  /\ \A i \in DOMAIN Out : Out[i].number = CountOf(Out, Out[i].thread, i)
  /\ \A t \in Thread :
       LET left == CountOf(Out, t, Len(Out))
       IN  /\ logged[t] = left + Len(logs[t])
           /\ \A i \in DOMAIN logs[t] : data[logs[t][i]] = [thread |-> t, number |-> left + i]
           /\ writing[t] # NoBuffer => data[writing[t]] = [thread |-> t, number |-> logged[t] + 1]

LogInv == OwnedInv /\ NumberInv

-------------------------------------------------------------------------------
(* Jobs and phases *)

\* A job is in one place at most, and was pushed.
JobsInv ==
  /\ \A i, j \in DOMAIN queue : queue[i] = queue[j] => i = j
  /\ \A t, u \in Thread : running[t] = running[u] /\ running[t] # NoJob => t = u
  /\ \A t \in Thread : running[t] \notin ToSet(queue) \cup ended
  /\ ToSet(queue) \cap ended = {}
  /\ \A j \in ToSet(queue) \cup ended \cup {running[t] : t \in Thread} :
       \/ j = NoJob
       \/ j = FlushJob /\ (Log \in Loaded \/ phase \in ShuttingDown)
       \/ \E i \in 1..pushed["import"] : j = Import(i)
       \/ \E i \in 1..pushed["load"] : j = LoadJob(i)

\* The main thread waits for loads before the modules shut down, and for the
\* flush job; nothing but that job and loads is left when they do.
WaitInv ==
  /\ waitFor = FlushJob => phase = "flushing"
  /\ waitFor \notin {NoJob, FlushJob} => phase \in {"run", "closing"}
  /\ phase = "flushing" => waitFor = FlushJob \/ FlushJob \in ended
  /\ running[Main] # NoJob => waitFor # NoJob
  /\ phase \in ShuttingDown =>
       ToSet(queue) \cup {running[t] : t \in Thread} \subseteq {FlushJob, NoJob} \cup LoadJobs

\* Only a job that logs, or the main thread outside its waits, is in sink_it.
WritingInv ==
  \A t \in Thread : writing[t] # NoBuffer =>
    /\ running[t] # FlushJob
    /\ running[t] = NoJob =>
         /\ t = Main /\ Log \in Loaded /\ waitFor = NoJob
         /\ phase \notin {"flushing", "jobs", "down", "undefined"}

FreedInv ==
  /\ FlushJob \in ended => flush = "ended"
  /\ g_asyncQueues = "freed" =>
       FlushJob \in ended /\ Log \notin Loaded /\ phase \in ShuttingDown \ {"flushing"}

JobInv == JobsInv /\ WaitInv /\ WritingInv /\ FreedInv

IInv == TypeOK /\ ModulesInv /\ LogInv /\ JobInv
===============================================================================
