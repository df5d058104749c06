------------------------------ MODULE JobManager ------------------------------
(***************************************************************************)
(* The work-sharing job system of oblo/thread: job_manager.cpp.            *)
(*                                                                         *)
(* Thread 0 (Main) called job_manager::init and runs jobs only while it    *)
(* waits; threads 1 .. NumThreads-1 run worker_thread_run.  Every thread   *)
(* owns a FIFO queue it alone pushes to.  One atomic operation of the code *)
(* (a fetch_add, a fetch_sub, a load, an enqueue, a try_dequeue, a         *)
(* semaphore operation) is one step, so everything that can interleave in  *)
(* the code interleaves here.                                              *)
(*                                                                         *)
(* A job being executed is a frame of its thread's stack, because wait()   *)
(* executes other jobs on top of the function that called it.  The frame   *)
(* NoJob is the program that runs on Main outside every job.               *)
(***************************************************************************)
EXTENDS Integers, Sequences, FiniteSets

CONSTANTS
  NumThreads,     \* job_manager_config::numThreads
  Job,            \* the jobs that may ever be allocated (never reused)
  NoJob,          \* the null job_handle; as a frame, the main program
  WaitThreshold,  \* polls without a job before a worker sleeps (32 in the code)
  ClientOps       \* the operations the clients of this instance call

PushOps == {"push", "push_waitable", "push_child", "push_waitable_child",
            "push_fn", "push_child_fn"}
ClientOpNames ==
  PushOps \cup {"wait", "try_wait", "increase_reference",
                "decrease_reference", "shutdown"}

\* init() refuses fewer than two threads.
ASSUME ThreadsAssumption == NumThreads \in Nat /\ NumThreads >= 2
ASSUME JobAssumption == IsFiniteSet(Job) /\ NoJob \notin Job
ASSUME ThresholdAssumption == WaitThreshold \in Nat
ASSUME OpsAssumption == ClientOps \subseteq ClientOpNames

Thread == 0 .. NumThreads - 1
Main == 0
Worker == 1 .. NumThreads - 1
Frame == Job \cup {NoJob}

VARIABLES
  \* the jobs: the fields of job_impl, and where the job is
  status,      \* unborn, pushing, allocated, queued, running, executed
  parent,      \* job_impl::parent
  unfinished,  \* job_impl::unfinishedJobs
  refs,        \* job_impl::references (0 is the last one, -1 is freed)
  freed,       \* the jobs given to deallocate_job
  \* the threads
  pc, top, below, waitOn, cur, fresh, op, scan, misses, stop,
  queue,       \* worker_thread::queue
  permits,     \* impl::workReady
  \* what the clients own, and history
  holders,     \* the frames that own a reference to the job
  lineage,     \* the job and its ancestors
  owes         \* the jobs whose unfinished counter still counts this job

jobVars == <<status, parent, unfinished, refs, freed>>
countVars == <<holders, lineage, owes>>
stackVars == <<top, below, waitOn>>
pushVars == <<fresh, op>>
workerVars == <<scan, misses, stop>>
vars == <<jobVars, countVars, stackVars, pushVars, workerVars,
          pc, cur, queue, permits>>

ChildOps == {"push_child", "push_waitable_child", "push_child_fn"}
\* Mutant: push_waitable forgets the reference of the handle it returns.
Waitable_NoHandle(o) == o \notin {"push", "push_child", "push_waitable"}

\* The template push and push_child allocate with waitable = false; their
\* job_fn overloads allocate with waitable = true, yet return no handle.
Waitable(o) == o \notin {"push", "push_child"}
ReturnsHandle(o) == o \in {"push_waitable", "push_waitable_child"}

-----------------------------------------------------------------------------
\* init() while the worker threads start.
Init ==
  /\ status = [j \in Job |-> "unborn"]
  /\ parent = [j \in Job |-> NoJob]
  /\ unfinished = [j \in Job |-> 0]
  /\ refs = [j \in Job |-> 0]
  /\ freed = {}
  /\ pc = [t \in Thread |-> IF t = Main THEN "init" ELSE "uninitialized"]
  /\ top = [t \in Thread |-> NoJob]
  /\ below = [j \in Job |-> NoJob]
  /\ waitOn = [f \in Frame |-> NoJob]
  /\ cur = [t \in Thread |-> NoJob]
  /\ fresh = [t \in Thread |-> NoJob]
  /\ op = [t \in Thread |-> "push"]
  /\ scan = [t \in Thread |-> 1]
  /\ misses = [t \in Thread |-> 0]
  /\ stop = [t \in Thread |-> FALSE]
  /\ queue = [t \in Thread |-> <<>>]
  /\ permits = 0
  /\ holders = [j \in Job |-> {}]
  /\ lineage = [f \in Frame |-> {}]
  /\ owes = [j \in Job |-> {}]

\* worker_thread_init stores worker_state::ready, then the thread starts its loop.
WorkerInit(t) ==
  /\ pc[t] = "uninitialized"
  /\ pc' = [pc EXCEPT ![t] = "loop"]
  /\ UNCHANGED <<jobVars, countVars, stackVars, pushVars, workerVars,
                 cur, queue, permits>>

\* init() spins until no worker is uninitialized, and returns.
InitDone ==
  /\ pc[Main] = "init"
  /\ \A w \in Worker : pc[w] # "uninitialized"
  /\ pc' = [pc EXCEPT ![Main] = "run"]
  /\ UNCHANGED <<jobVars, countVars, stackVars, pushVars, workerVars,
                 cur, queue, permits>>

-----------------------------------------------------------------------------
(* Pushing a job: allocate_job_impl, then push_job_impl. *)

\* A client may push a child of the job it is running, or of a root job it
\* owns a reference to; both keep every ancestor the call walks allocated.
MayBeParent(f, p) ==
  p # NoJob /\ (p = f \/ (f \in holders[p] /\ parent[p] = NoJob))

PushBegin(t, o, p) ==
  /\ pc[t] = "run"
  /\ o \in ClientOps \cap PushOps
  /\ IF o \in ChildOps THEN MayBeParent(top[t], p) ELSE p = NoJob
  /\ \E x \in Job :
       /\ status[x] = "unborn"
       /\ status' = [status EXCEPT ![x] = "pushing"]
       /\ parent' = [parent EXCEPT ![x] = p]
       /\ fresh' = [fresh EXCEPT ![t] = x]
  /\ op' = [op EXCEPT ![t] = o]
  /\ cur' = [cur EXCEPT ![t] = p]
  /\ pc' = [pc EXCEPT ![t] = IF p = NoJob THEN "allocate" ELSE "count"]
  /\ UNCHANGED <<unfinished, refs, freed, countVars, stackVars, workerVars,
                 queue, permits>>

\* ancestor->unfinishedJobs.fetch_add(1)
CountAncestor(t) ==
  /\ pc[t] = "count"
  /\ unfinished' = [unfinished EXCEPT ![cur[t]] = @ + 1]
  /\ owes' = [owes EXCEPT ![fresh[t]] = @ \cup {cur[t]}]
  /\ pc' = [pc EXCEPT ![t] = "addref"]
  /\ UNCHANGED <<status, parent, refs, freed, holders, lineage, stackVars,
                 pushVars, workerVars, cur, queue, permits>>

\* Mutant: the child takes no reference to its ancestors.
RefAncestor_NoReference(t) ==
  /\ pc[t] = "addref"
  /\ cur' = [cur EXCEPT ![t] = parent[cur[t]]]
  /\ pc' = [pc EXCEPT ![t] = IF parent[cur[t]] = NoJob THEN "allocate" ELSE "count"]
  /\ UNCHANGED <<jobVars, countVars, stackVars, pushVars, workerVars, queue, permits>>

\* increase_reference(ancestor), then on to ancestor->parent
RefAncestor(t) ==
  /\ pc[t] = "addref"
  /\ refs' = [refs EXCEPT ![cur[t]] = @ + 1]
  /\ cur' = [cur EXCEPT ![t] = parent[cur[t]]]
  /\ pc' = [pc EXCEPT ![t] = IF parent[cur[t]] = NoJob THEN "allocate" ELSE "count"]
  /\ UNCHANGED <<status, parent, unfinished, freed, countVars, stackVars,
                 pushVars, workerVars, queue, permits>>

\* new (allocate_job()) job_impl{...}
Allocate(t) ==
  /\ pc[t] = "allocate"
  /\ LET x == fresh[t] IN
       /\ status' = [status EXCEPT ![x] = "allocated"]
       /\ unfinished' = [unfinished EXCEPT ![x] = 1]
       /\ refs' = [refs EXCEPT ![x] = IF Waitable(op[t]) THEN 1 ELSE 0]
       /\ holders' = [holders EXCEPT ![x] =
                        IF ReturnsHandle(op[t]) THEN {top[t]} ELSE {}]
       /\ lineage' = [lineage EXCEPT ![x] = {x} \cup lineage[parent[x]]]
       /\ owes' = [owes EXCEPT ![x] = @ \cup {x}]
  /\ pc' = [pc EXCEPT ![t] = "enqueue"]
  /\ UNCHANGED <<parent, freed, stackVars, pushVars, workerVars, cur, queue, permits>>

\* push_job_impl: the queue of the calling thread first, the semaphore second.
Enqueue(t) ==
  /\ pc[t] = "enqueue"
  /\ queue' = [queue EXCEPT ![t] = Append(@, fresh[t])]
  /\ status' = [status EXCEPT ![fresh[t]] = "queued"]
  /\ pc' = [pc EXCEPT ![t] = "signal"]
  /\ UNCHANGED <<parent, unfinished, refs, freed, countVars, stackVars,
                 pushVars, workerVars, cur, permits>>

\* Mutant: a push does not signal the semaphore.
Signal_NoPermit(t) ==
  /\ pc[t] = "signal"
  /\ fresh' = [fresh EXCEPT ![t] = NoJob]
  /\ op' = [op EXCEPT ![t] = "push"]
  /\ pc' = [pc EXCEPT ![t] = "run"]
  /\ UNCHANGED <<jobVars, countVars, stackVars, workerVars, cur, queue, permits>>

Signal(t) ==
  /\ pc[t] = "signal"
  /\ permits' = permits + 1
  /\ fresh' = [fresh EXCEPT ![t] = NoJob]
  /\ op' = [op EXCEPT ![t] = "push"]
  /\ pc' = [pc EXCEPT ![t] = "run"]
  /\ UNCHANGED <<jobVars, countVars, stackVars, workerVars, cur, queue>>

-----------------------------------------------------------------------------
(* Executing a job. *)

\* Thread t dequeues the head of the queue of q and enters its function, on
\* top of the frame it was in.
StartJob(t, q) ==
  LET j == Head(queue[q]) IN
    /\ queue[q] # <<>>
    /\ queue' = [queue EXCEPT ![q] = Tail(@)]
    /\ status' = [status EXCEPT ![j] = "running"]
    /\ below' = [below EXCEPT ![j] = top[t]]
    /\ top' = [top EXCEPT ![t] = j]
    /\ pc' = [pc EXCEPT ![t] = "run"]

\* execute: the function returns and the userdata is cleaned up.  A client
\* has given back every reference it owns by then.
JobReturn(t) ==
  /\ pc[t] = "run"
  /\ top[t] # NoJob
  /\ \A j \in Job : top[t] \notin holders[j]
  /\ status' = [status EXCEPT ![top[t]] = "executed"]
  /\ cur' = [cur EXCEPT ![t] = top[t]]
  /\ pc' = [pc EXCEPT ![t] = "finish"]
  /\ UNCHANGED <<parent, unfinished, refs, freed, countVars, stackVars,
                 pushVars, workerVars, queue, permits>>

\* Mutant: the parent is not told that its child has finished.
SignalParent_NotTold(t, a) ==
  /\ cur' = [cur EXCEPT ![t] = NoJob]
  /\ top' = [top EXCEPT ![t] = below[top[t]]]
  /\ below' = [below EXCEPT ![top[t]] = NoJob]
  /\ pc' = [pc EXCEPT ![t] =
               IF t = Main \/ below[top[t]] # NoJob THEN "wait" ELSE "loop"]

\* The tail of signal_finished_job(a): on to the parent, or out of the
\* recursion and back to the loop that dequeued the job.
SignalParent(t, a) ==
  IF parent[a] # NoJob
  THEN /\ cur' = [cur EXCEPT ![t] = parent[a]]
       /\ pc' = [pc EXCEPT ![t] = "finish"]
       /\ UNCHANGED <<top, below>>
  ELSE /\ cur' = [cur EXCEPT ![t] = NoJob]
       /\ top' = [top EXCEPT ![t] = below[top[t]]]
       /\ below' = [below EXCEPT ![top[t]] = NoJob]
       /\ pc' = [pc EXCEPT ![t] =
                   IF t = Main \/ below[top[t]] # NoJob THEN "wait" ELSE "loop"]

\* impl->unfinishedJobs.fetch_sub(1) == 1
FinishOne(t) ==
  LET a == cur[t] IN
    /\ pc[t] = "finish"
    /\ unfinished' = [unfinished EXCEPT ![a] = @ - 1]
    /\ owes' = [owes EXCEPT ![top[t]] = @ \ {a}]
    /\ IF unfinished[a] = 1
       THEN /\ pc' = [pc EXCEPT ![t] = "release"]
            /\ UNCHANGED <<cur, top, below>>
       ELSE SignalParent(t, a)
    /\ UNCHANGED <<status, parent, refs, freed, holders, lineage, waitOn,
                   pushVars, workerVars, queue, permits>>

\* Mutants: the reference that is not the last one deallocates, or none does.
DecreaseReference_Early(j) ==
  /\ refs' = [refs EXCEPT ![j] = @ - 1]
  /\ freed' = IF refs[j] = 1 THEN freed \cup {j} ELSE freed

DecreaseReference_Late(j) ==
  /\ refs' = [refs EXCEPT ![j] = @ - 1]
  /\ freed' = IF refs[j] = -1 THEN freed \cup {j} ELSE freed

\* decrease_reference: fetch_sub, and deallocate when it returns 0.
DecreaseReference(j) ==
  /\ refs' = [refs EXCEPT ![j] = @ - 1]
  /\ freed' = IF refs[j] = 0 THEN freed \cup {j} ELSE freed

FinishRelease(t) ==
  /\ pc[t] = "release"
  /\ DecreaseReference(cur[t])
  /\ SignalParent(t, cur[t])
  /\ UNCHANGED <<status, parent, unfinished, countVars, waitOn,
                 pushVars, workerVars, queue, permits>>

-----------------------------------------------------------------------------
(* worker_thread_run *)

\* The queues in the order a worker polls them: its own, then the others.
PollOrder(t, k) ==
  IF k = 1 THEN t ELSE IF k - 2 < t THEN k - 2 ELSE k - 1

LoopTest(t) ==
  /\ pc[t] = "loop"
  /\ pc' = [pc EXCEPT ![t] = IF stop[t] THEN "exited" ELSE "poll"]
  /\ UNCHANGED <<jobVars, countVars, stackVars, pushVars, workerVars,
                 cur, queue, permits>>

PollHit(t) ==
  /\ pc[t] = "poll"
  /\ StartJob(t, PollOrder(t, scan[t]))
  /\ misses' = [misses EXCEPT ![t] = 0]
  /\ scan' = [scan EXCEPT ![t] = 1]
  /\ UNCHANGED <<parent, unfinished, refs, freed, countVars, waitOn, pushVars,
                 stop, cur, permits>>

PollNext(t) ==
  /\ pc[t] = "poll"
  /\ queue[PollOrder(t, scan[t])] = <<>>
  /\ scan[t] < NumThreads
  /\ scan' = [scan EXCEPT ![t] = @ + 1]
  /\ UNCHANGED <<jobVars, countVars, stackVars, pushVars, misses, stop,
                 pc, cur, queue, permits>>

\* No queue had a job.  The counter is reset only by finding one, so that a
\* worker that slept once polls once per permit until then.
PollMiss(t) ==
  /\ pc[t] = "poll"
  /\ queue[PollOrder(t, scan[t])] = <<>>
  /\ scan[t] = NumThreads
  /\ misses' = [misses EXCEPT ![t] = IF @ > WaitThreshold THEN @ ELSE @ + 1]
  /\ scan' = [scan EXCEPT ![t] = 1]
  /\ pc' = [pc EXCEPT ![t] = IF misses[t] + 1 > WaitThreshold THEN "sleep" ELSE "loop"]
  /\ UNCHANGED <<jobVars, countVars, stackVars, pushVars, stop,
                 cur, queue, permits>>

\* workReady.wait()
Wake(t) ==
  /\ pc[t] = "sleep"
  /\ permits > 0
  /\ permits' = permits - 1
  /\ pc' = [pc EXCEPT ![t] = "loop"]
  /\ UNCHANGED <<jobVars, countVars, stackVars, pushVars, workerVars, cur, queue>>

-----------------------------------------------------------------------------
(* The references of the clients: wait, try_wait, increase, decrease. *)

WaitBegin(t, j) ==
  /\ pc[t] = "run"
  /\ "wait" \in ClientOps
  /\ top[t] \in holders[j]
  /\ waitOn' = [waitOn EXCEPT ![top[t]] = j]
  /\ pc' = [pc EXCEPT ![t] = "wait"]
  /\ UNCHANGED <<jobVars, countVars, top, below, pushVars, workerVars,
                 cur, queue, permits>>

\* Mutant: the loop stops with one job unfinished.
WaitLoad_OffByOne(t) ==
  /\ pc[t] = "wait"
  /\ pc' = [pc EXCEPT ![t] = IF unfinished[waitOn[top[t]]] > 1 THEN "help" ELSE "drop"]
  /\ UNCHANGED <<jobVars, countVars, stackVars, pushVars, workerVars,
                 cur, queue, permits>>

\* while (impl->unfinishedJobs.load() > 0)
WaitLoad(t) ==
  /\ pc[t] = "wait"
  /\ pc' = [pc EXCEPT ![t] = IF unfinished[waitOn[top[t]]] > 0 THEN "help" ELSE "drop"]
  /\ UNCHANGED <<jobVars, countVars, stackVars, pushVars, workerVars,
                 cur, queue, permits>>

\* Mutant: a worker that waits does not execute the jobs of its queue.
WaitHelp_MainOnly(t) ==
  /\ pc[t] = "help"
  /\ t = Main
  /\ StartJob(t, t)
  /\ UNCHANGED <<parent, unfinished, refs, freed, countVars, waitOn, pushVars,
                 workerVars, cur, permits>>

\* A waiting thread looks for jobs in its own queue only.
WaitHelp(t) ==
  /\ pc[t] = "help"
  /\ StartJob(t, t)
  /\ UNCHANGED <<parent, unfinished, refs, freed, countVars, waitOn, pushVars,
                 workerVars, cur, permits>>

WaitSpin(t) ==
  /\ pc[t] = "help"
  /\ queue[t] = <<>>
  /\ pc' = [pc EXCEPT ![t] = "wait"]
  /\ UNCHANGED <<jobVars, countVars, stackVars, pushVars, workerVars,
                 cur, queue, permits>>

\* The job is finished: give the reference back and return to the client.
WaitDrop(t) ==
  LET f == top[t]
      j == waitOn[f]
  IN
    /\ pc[t] = "drop"
    /\ DecreaseReference(j)
    /\ holders' = [holders EXCEPT ![j] = @ \ {f}]
    /\ waitOn' = [waitOn EXCEPT ![f] = NoJob]
    /\ pc' = [pc EXCEPT ![t] = "run"]
    /\ UNCHANGED <<status, parent, unfinished, lineage, owes, top, below,
                   pushVars, workerVars, cur, queue, permits>>

\* Mutant: try_wait does not read the counter.
TryWait_Unchecked(t, j) ==
  /\ pc[t] = "run"
  /\ "try_wait" \in ClientOps
  /\ top[t] \in holders[j]
  /\ waitOn' = [waitOn EXCEPT ![top[t]] = j]
  /\ pc' = [pc EXCEPT ![t] = "drop"]
  /\ UNCHANGED <<jobVars, countVars, top, below, pushVars, workerVars,
                 cur, queue, permits>>

\* try_wait that returns true; the one that returns false changes nothing.
TryWait(t, j) ==
  /\ pc[t] = "run"
  /\ "try_wait" \in ClientOps
  /\ top[t] \in holders[j]
  /\ unfinished[j] = 0
  /\ waitOn' = [waitOn EXCEPT ![top[t]] = j]
  /\ pc' = [pc EXCEPT ![t] = "drop"]
  /\ UNCHANGED <<jobVars, countVars, top, below, pushVars, workerVars,
                 cur, queue, permits>>

\* Mutant: the second owner of a job is not counted.
ClientIncrease_NotCounted(t, j, g) ==
  /\ pc[t] = "run"
  /\ "increase_reference" \in ClientOps
  /\ top[t] \in holders[j]
  /\ g \notin holders[j] /\ j \notin lineage[g]
  /\ g # NoJob => status[g] \in {"queued", "running"}
  /\ holders' = [holders EXCEPT ![j] = @ \cup {g}]
  /\ UNCHANGED <<jobVars, lineage, owes, stackVars, pushVars, workerVars,
                 pc, cur, queue, permits>>

\* increase_reference on behalf of frame g, the main program or a job that
\* has yet to return, which owns one reference to j from then on.
ClientIncrease(t, j, g) ==
  /\ pc[t] = "run"
  /\ "increase_reference" \in ClientOps
  /\ top[t] \in holders[j]
  /\ g \notin holders[j] /\ j \notin lineage[g]
  /\ g # NoJob => status[g] \in {"queued", "running"}
  /\ refs' = [refs EXCEPT ![j] = @ + 1]
  /\ holders' = [holders EXCEPT ![j] = @ \cup {g}]
  /\ UNCHANGED <<status, parent, unfinished, freed, lineage, owes, stackVars,
                 pushVars, workerVars, pc, cur, queue, permits>>

ClientDecrease(t, j) ==
  /\ pc[t] = "run"
  /\ "decrease_reference" \in ClientOps
  /\ top[t] \in holders[j]
  /\ DecreaseReference(j)
  /\ holders' = [holders EXCEPT ![j] = @ \ {top[t]}]
  /\ UNCHANGED <<status, parent, unfinished, lineage, owes, stackVars,
                 pushVars, workerVars, pc, cur, queue, permits>>

-----------------------------------------------------------------------------
(* shutdown(), called by the main program. *)

ShutdownBegin ==
  /\ pc[Main] = "run"
  /\ top[Main] = NoJob
  /\ "shutdown" \in ClientOps
  /\ pc' = [pc EXCEPT ![Main] = "stopping"]
  /\ UNCHANGED <<jobVars, countVars, stackVars, pushVars, workerVars,
                 cur, queue, permits>>

\* worker.state.store(stop_requested), worker by worker
ShutdownStop(w) ==
  /\ pc[Main] = "stopping"
  /\ ~stop[w]
  /\ \A v \in Worker : v < w => stop[v]
  /\ stop' = [stop EXCEPT ![w] = TRUE]
  /\ UNCHANGED <<jobVars, countVars, stackVars, pushVars, scan, misses,
                 pc, cur, queue, permits>>

\* Mutant: shutdown wakes one worker.
ShutdownSignal_One ==
  /\ pc[Main] = "stopping"
  /\ \A w \in Worker : stop[w]
  /\ permits' = permits + 1
  /\ pc' = [pc EXCEPT ![Main] = "join"]
  /\ UNCHANGED <<jobVars, countVars, stackVars, pushVars, workerVars, cur, queue>>

\* workReady.signal(workers.size())
ShutdownSignal ==
  /\ pc[Main] = "stopping"
  /\ \A w \in Worker : stop[w]
  /\ permits' = permits + (NumThreads - 1)
  /\ pc' = [pc EXCEPT ![Main] = "join"]
  /\ UNCHANGED <<jobVars, countVars, stackVars, pushVars, workerVars, cur, queue>>

\* Every worker is joined; m_impl is reset, and the jobs still queued leak.
ShutdownJoin ==
  /\ pc[Main] = "join"
  /\ \A w \in Worker : pc[w] = "exited"
  /\ pc' = [pc EXCEPT ![Main] = "down"]
  /\ UNCHANGED <<jobVars, countVars, stackVars, pushVars, workerVars,
                 cur, queue, permits>>

\* After shutdown nothing happens.
Down == pc[Main] = "down" /\ UNCHANGED vars

-----------------------------------------------------------------------------
\* The steps the job system takes by itself on thread t.
System(t) ==
  \/ CountAncestor(t) \/ RefAncestor(t) \/ Allocate(t) \/ Enqueue(t) \/ Signal(t)
  \/ FinishOne(t) \/ FinishRelease(t)
  \/ WaitLoad(t) \/ WaitHelp(t) \/ WaitSpin(t) \/ WaitDrop(t)

WorkerLoop(t) ==
  \/ WorkerInit(t) \/ LoopTest(t) \/ PollHit(t) \/ PollNext(t) \/ PollMiss(t) \/ Wake(t)

\* The calls made by the function that runs on top of thread t.
Client(t) ==
  \/ \E o \in PushOps, p \in Frame : PushBegin(t, o, p)
  \/ \E j \in Job : WaitBegin(t, j) \/ TryWait(t, j) \/ ClientDecrease(t, j)
  \/ \E j \in Job, g \in Frame : ClientIncrease(t, j, g)
  \/ JobReturn(t)

Lifecycle ==
  \/ InitDone \/ ShutdownBegin \/ (\E w \in Worker : ShutdownStop(w))
  \/ ShutdownSignal \/ ShutdownJoin

Next ==
  \/ \E t \in Thread : System(t) \/ WorkerLoop(t) \/ Client(t)
  \/ Lifecycle
  \/ Down

Spec == Init /\ [][Next]_vars

\* The operating system runs every thread, and a job function terminates: it
\* waits for what it owns, and returns.  Nothing is assumed of the main program
\* outside the calls it makes.
Fairness ==
  /\ \A t \in Thread : WF_vars(System(t)) /\ WF_vars(WorkerLoop(t))
  /\ \A t \in Thread :
       /\ WF_vars(top[t] # NoJob /\ \E j \in Job : WaitBegin(t, j))
       /\ SF_vars(JobReturn(t))
  /\ WF_vars(InitDone) /\ WF_vars(\E w \in Worker : ShutdownStop(w))
  /\ WF_vars(ShutdownSignal) /\ WF_vars(ShutdownJoin)

FairSpec == Spec /\ Fairness

-----------------------------------------------------------------------------
(* Properties. *)

PCs == {"init", "uninitialized", "run", "count", "addref", "allocate", "enqueue",
        "signal", "finish", "release", "loop", "poll", "sleep", "exited", "wait",
        "help", "drop", "stopping", "join", "down"}

\* Every variable has its type; in particular a reference count never goes
\* below -1, so that no job is deallocated twice.
TypeOK ==
  /\ status \in [Job -> {"unborn", "pushing", "allocated", "queued", "running", "executed"}]
  /\ parent \in [Job -> Frame]
  /\ unfinished \in [Job -> Nat]
  /\ refs \in [Job -> Nat \cup {-1}]
  /\ freed \in SUBSET Job
  /\ pc \in [Thread -> PCs]
  /\ top \in [Thread -> Frame]
  /\ below \in [Job -> Frame]
  /\ waitOn \in [Frame -> Frame]
  /\ cur \in [Thread -> Frame]
  /\ fresh \in [Thread -> Frame]
  /\ op \in [Thread -> PushOps]
  /\ scan \in [Thread -> 1 .. NumThreads]
  /\ misses \in [Thread -> 0 .. WaitThreshold + 1]
  /\ stop \in [Thread -> BOOLEAN]
  /\ queue \in [Thread -> Seq(Job)]
  /\ permits \in Nat
  /\ holders \in [Job -> SUBSET Frame]
  /\ lineage \in [Frame -> SUBSET Job]
  /\ owes \in [Job -> SUBSET Job]

\* The jobs whose memory the code may read or write from this state on without
\* asking anyone: the job a counter walk stands at, the job a frame waits for,
\* the job of every frame, every job in a queue, and the jobs clients own.
InUse ==
  {j \in Job :
     \/ status[j] \in {"allocated", "queued", "running"}
     \/ holders[j] # {}
     \/ \E t \in Thread : pc[t] \in {"count", "addref", "finish", "release"} /\ cur[t] = j
     \/ \E f \in Frame : waitOn[f] = j}

\* No job is touched after deallocate_job: not by the walk over the ancestors
\* in allocate_job_impl or signal_finished_job, not by a waiter, and not by a
\* client that still owns a reference.
NoUseAfterFree == InUse \cap freed = {}

\* wait() and try_wait() stop waiting for a job only when the job, and every
\* descendant whose push went past its allocation, has executed.
WaitSound ==
  [][\A t \in Thread :
       pc[t] # "drop" /\ pc'[t] = "drop" =>
         \A d \in Job : waitOn'[top[t]] \in lineage[d] => status[d] = "executed"]_vars

\* A job that was deallocated and all its descendants have executed, no client
\* owns a reference to it, and it never gets another descendant.
DestroyedAfterTree ==
  \A j \in freed :
    holders[j] = {} /\ \A d \in Job : j \in lineage[d] => status[d] = "executed"

\* A job nobody can reach any more.
Settled(j) ==
  /\ status[j] = "executed"
  /\ unfinished[j] = 0
  /\ holders[j] = {}
  /\ \A t \in Thread : ~(pc[t] \in {"count", "addref", "release"} /\ cur[t] = j)

\* A job that never had a child is deallocated as soon as it has executed and
\* the last reference to it was given back.
ChildlessDestroyed ==
  \A j \in Job : Settled(j) /\ (\A d \in Job : parent[d] # j) => j \in freed

\* The refinement mapping to ForkJoin: a job exists from its allocation on, and
\* a wait is granted when its thread has left the waiting loop.
Phase(s) ==
  CASE s \in {"unborn", "pushing"} -> "absent"
    [] s \in {"allocated", "queued"} -> "submitted"
    [] s = "running" -> "started"
    [] OTHER -> "completed"

AbstractState == [j \in Job |-> Phase(status[j])]

Granted == {f \in Frame : \E t \in Thread : pc[t] = "drop" /\ top[t] = f}

Abstract == INSTANCE ForkJoin WITH
  state <- AbstractState, tree <- lineage, owners <- holders,
  waiting <- waitOn, granted <- Granted, destroyed <- freed

\* The job manager implements ForkJoin.
ImplementsForkJoin == Abstract!Spec

\* No reference was handed out with increase_reference.
NeverShared == \A j \in Job : Cardinality(holders[j]) <= 1

\* While no client passes references on, every wait() returns.
WaitReturns ==
  []NeverShared => \A f \in Frame : waitOn[f] # NoJob ~> waitOn[f] = NoJob

\* While no client passes references on, every queued job is executed, whether
\* or not its pusher ever waits.
QueuedRuns ==
  []NeverShared => \A j \in Job : status[j] = "queued" ~> status[j] = "executed"

\* A worker is in worker_thread_run, where it polls the queue of every thread.
AWorkerIsFree == \E w \in Worker : top[w] = NoJob /\ pc[w] # "exited"

\* The jobs that must end before frame f goes on: those of the tree it waits
\* for, and the one that its thread executes inside that wait.
Blockers(f) ==
  {d \in Job :
     /\ waitOn[f] # NoJob
     /\ status[d] # "executed"
     /\ waitOn[f] \in lineage[d] \/ (status[d] = "running" /\ below[d] = f)}

\* Jobs wait for one another in a circle, as clients that pass references on
\* can make them do.
Circular == \E S \in SUBSET Job : S # {} /\ \A f \in S : Blockers(f) \cap S # {}

\* A waiting thread polls its own queue only, so that a job that waits in the
\* queue of an idle main thread needs a worker that is not waiting itself.
SafelyShared == []<>AWorkerIsFree /\ []~Circular

\* With references that are passed on, every wait() returns and every queued job
\* is executed as long as a worker comes back to its loop again and again, and
\* jobs do not wait in a circle.
SharedJobsProgress ==
  SafelyShared =>
    /\ \A f \in Frame : waitOn[f] # NoJob ~> waitOn[f] = NoJob
    /\ \A j \in Job : status[j] = "queued" ~> status[j] = "executed"

\* job_manager.cpp:404: shutdown() leaks the jobs that are still pending; it
\* does not wait for them, and returns, if no job waits for another meanwhile.
ShutdownReturns ==
  [](pc[Main] \in {"stopping", "join"} => \A j \in Job : waitOn[j] = NoJob) =>
    (pc[Main] = "stopping" ~> pc[Main] = "down")

=============================================================================
