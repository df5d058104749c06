----------------------------- MODULE ResourceLoad -----------------------------
(***************************************************************************)
(* Resources of oblo/resource: the intrusive counter behind resource_ptr,  *)
(* the load state machine with its job, and the entry resource_registry    *)
(* keeps for one uuid (entries of different uuids never interact).         *)
(*                                                                         *)
(* The actors are the threads that use resource_ptr and, for every         *)
(* resource, the job that loads it; the actor of a load job is the         *)
(* resource itself.  One atomic operation of the code is one step.  The    *)
(* job manager appears only through what JobManager shows of it: a pushed  *)
(* job may start, which nothing here promises, and wait() returns once the *)
(* job has been executed.                                                  *)
(***************************************************************************)
EXTENDS Integers, FiniteSets

CONSTANTS
  Thread,   \* the threads that own resource_ptr objects
  Main,     \* the thread that calls resource_registry::update
  Res,      \* the resource objects that may be created (never reused)
  NoRes,    \* the null pointer
  Ops       \* the operations the clients of this instance call

OpNames == {"copy", "load_start_async", "load_sync", "update", "instantiate"}

\* Besides the threads, a counted pointer is owned by the entry of the
\* registry, by the event update() is processing, and by the load job.
Others == {"registry", "event", "job"}
Owner == Thread \cup Others

ASSUME ResAssumption == NoRes \notin Res /\ Thread \cap Res = {}
ASSUME ThreadAssumption ==
  Main \in Thread /\ IsFiniteSet(Thread) /\ Thread \cap Others = {}
ASSUME OpsAssumption == Ops \subseteq OpNames

Actor == Thread \cup Res

VARIABLES
  loadState,    \* resource::loadState; "unborn" before resource_create
  counter,      \* resource::counter
  data,         \* resource::data: null, created, or filled by load or init
  invalidated,  \* resource::invalidated
  assigned,     \* whether resource::loadJob holds the handle of the job
  jobRefs,      \* the references to the load job (job_impl::references)
  deleted,      \* the resources that were deleted
  entry,        \* the handle m_resources stores for the uuid
  updating,     \* Main is inside update()
  fresh,        \* the resource update() created for the event it processes
  pc, cur,      \* what each actor does, and with which resource
  sync,         \* the call to resource_start_loading is load_sync's
  owners        \* ghost: who owns a counted pointer to each resource

objVars == <<loadState, counter, data, invalidated, assigned, jobRefs,
             deleted, owners>>
registryVars == <<entry, updating, fresh>>
vars == <<objVars, registryVars, pc, cur, sync>>

Init ==
  /\ loadState = [r \in Res |-> "unborn"]
  /\ counter = [r \in Res |-> 0]
  /\ data = [r \in Res |-> "null"]
  /\ invalidated = [r \in Res |-> FALSE]
  /\ assigned = [r \in Res |-> FALSE]
  /\ jobRefs = [r \in Res |-> 0]
  /\ deleted = {}
  /\ entry = NoRes
  /\ updating = FALSE
  /\ fresh = NoRes
  /\ pc = [a \in Actor |-> IF a \in Thread THEN "idle" ELSE "none"]
  /\ cur = [a \in Actor |-> IF a \in Thread THEN NoRes ELSE a]
  /\ sync = [t \in Thread |-> FALSE]
  /\ owners = [r \in Res |-> {}]

Goto(a, l) == pc' = [pc EXCEPT ![a] = l]

\* A thread that may make a call.
Free(t) == pc[t] = "idle" /\ ~(t = Main /\ updating)

-----------------------------------------------------------------------------
(* Counting: resource_acquire, resource_release, resource_ptr. *)

Acquire(r, o) ==
  /\ counter' = [counter EXCEPT ![r] = @ + 1]
  /\ owners' = [owners EXCEPT ![r] = @ \cup {o}]

\* Mutant: the job does not go on to its end after releasing the resource.
AfterRelease_NotJob(a) == IF a = Main /\ fresh # NoRes THEN "replace" ELSE "idle"

\* Where an actor continues after resource_release returned.
AfterRelease(a) ==
  CASE a \in Res -> "done"
    [] a = Main /\ fresh # NoRes -> "replace"
    [] OTHER -> "idle"

\* fetch_sub: who takes the last reference goes on to wait for the load job.
Release(a, r, o) ==
  /\ counter' = [counter EXCEPT ![r] = @ - 1]
  /\ owners' = [owners EXCEPT ![r] = @ \ {o}]
  /\ cur' = [cur EXCEPT ![a] = r]
  /\ Goto(a, IF counter[r] = 1 THEN "reap" ELSE AfterRelease(a))
  /\ UNCHANGED <<loadState, data, invalidated, assigned, jobRefs, deleted>>

\* if (resource->loadJob)
Reap(a) ==
  /\ pc[a] = "reap"
  /\ Goto(a, IF assigned[cur[a]] THEN "reap_wait" ELSE "destroy")
  /\ UNCHANGED <<objVars, registryVars, cur, sync>>

\* job_manager::wait(resource->loadJob) returns, one reference less.
ReapWait(a) ==
  /\ pc[a] = "reap_wait"
  /\ pc[cur[a]] = "done"
  /\ jobRefs' = [jobRefs EXCEPT ![cur[a]] = @ - 1]
  /\ Goto(a, "destroy")
  /\ UNCHANGED <<loadState, counter, data, invalidated, assigned, deleted,
                 owners, registryVars, cur, sync>>

\* descriptor->destroy(data), delete resource
Destroy(a) ==
  /\ pc[a] = "destroy"
  /\ deleted' = deleted \cup {cur[a]}
  /\ data' = [data EXCEPT ![cur[a]] = "null"]
  /\ Goto(a, AfterRelease(a))
  /\ UNCHANGED <<loadState, counter, invalidated, assigned, jobRefs, owners,
                 registryVars, cur, sync>>

\* get_resource: a copy of the handle of the entry.
Get(t) ==
  /\ pc[t] = "idle" /\ ~updating
  /\ entry # NoRes
  /\ t \notin owners[entry]
  /\ Acquire(entry, t)
  /\ UNCHANGED <<loadState, data, invalidated, assigned, jobRefs, deleted,
                 registryVars, pc, cur, sync>>

\* Mutant: the copy constructor does not acquire.
Copy_NotCounted(t, u, r) ==
  /\ "copy" \in Ops
  /\ Free(t) /\ t \in owners[r] /\ u \notin owners[r]
  /\ owners' = [owners EXCEPT ![r] = @ \cup {u}]
  /\ UNCHANGED <<loadState, counter, data, invalidated, assigned, jobRefs,
                 deleted, registryVars, pc, cur, sync>>

\* A thread hands a copy of its pointer to another one.
Copy(t, u, r) ==
  /\ "copy" \in Ops
  /\ Free(t) /\ t \in owners[r] /\ u \notin owners[r]
  /\ Acquire(r, u)
  /\ UNCHANGED <<loadState, data, invalidated, assigned, jobRefs, deleted,
                 registryVars, pc, cur, sync>>

\* The destructor of resource_ptr, reset(), and assignments over it.
Drop(t, r) ==
  /\ Free(t) /\ t \in owners[r]
  /\ Release(t, r, t)
  /\ UNCHANGED <<registryVars, sync>>

-----------------------------------------------------------------------------
(* Loading: resource_start_loading, resource_load_sync, the load job. *)

\* Mutant: the state is tested against "not loaded yet" and then stored.
StartLoading_NotExchanged(t, r, s) ==
  /\ (IF s THEN "load_sync" ELSE "load_start_async") \in Ops
  /\ Free(t) /\ t \in owners[r]
  /\ IF loadState[r] \in {"unloaded", "loading"}
     THEN /\ loadState' = [loadState EXCEPT ![r] = "loading"]
          /\ Goto(t, "acquire")
     ELSE /\ s
          /\ Goto(t, "check")
          /\ UNCHANGED loadState
  /\ cur' = [cur EXCEPT ![t] = r]
  /\ sync' = [sync EXCEPT ![t] = s]
  /\ UNCHANGED <<counter, data, invalidated, assigned, jobRefs, deleted, owners,
                 registryVars>>

\* compare_exchange_strong(unloaded, loading); load_start_async does nothing
\* when it fails.
StartLoading(t, r, s) ==
  /\ (IF s THEN "load_sync" ELSE "load_start_async") \in Ops
  /\ Free(t) /\ t \in owners[r]
  /\ IF loadState[r] = "unloaded"
     THEN /\ loadState' = [loadState EXCEPT ![r] = "loading"]
          /\ Goto(t, "acquire")
     ELSE /\ s
          /\ Goto(t, "check")
          /\ UNCHANGED loadState
  /\ cur' = [cur EXCEPT ![t] = r]
  /\ sync' = [sync EXCEPT ![t] = s]
  /\ UNCHANGED <<counter, data, invalidated, assigned, jobRefs, deleted, owners,
                 registryVars>>

\* Mutant: the job borrows the pointer of the caller, and still releases it.
AcquireForJob_NotAcquired(t) ==
  /\ pc[t] = "acquire"
  /\ owners' = [owners EXCEPT ![cur[t]] = @ \cup {"job"}]
  /\ Goto(t, "push")
  /\ UNCHANGED <<loadState, counter, data, invalidated, assigned, jobRefs,
                 deleted, registryVars, cur, sync>>

\* resource_acquire(resource), on behalf of the job.
AcquireForJob(t) ==
  /\ pc[t] = "acquire"
  /\ Acquire(cur[t], "job")
  /\ Goto(t, "push")
  /\ UNCHANGED <<loadState, data, invalidated, assigned, jobRefs, deleted,
                 registryVars, cur, sync>>

\* push_waitable: from here on the job may start.
PushJob(t) ==
  /\ pc[t] = "push"
  /\ pc' = [pc EXCEPT ![t] = "assign", ![cur[t]] = "create"]
  /\ jobRefs' = [jobRefs EXCEPT ![cur[t]] = @ + 1]
  /\ UNCHANGED <<loadState, counter, data, invalidated, assigned, deleted,
                 owners, registryVars, cur, sync>>

\* The handle push_waitable returned is stored in resource->loadJob.
AssignJob(t) ==
  /\ pc[t] = "assign"
  /\ assigned' = [assigned EXCEPT ![cur[t]] = TRUE]
  /\ Goto(t, IF sync[t] THEN "check" ELSE "idle")
  /\ UNCHANGED <<loadState, counter, data, invalidated, jobRefs, deleted,
                 owners, registryVars, cur, sync>>

\* Mutant: load_sync waits without a reference of its own.
CheckJob_NoReference(t) ==
  /\ pc[t] = "check"
  /\ Goto(t, IF assigned[cur[t]] THEN "sync_wait" ELSE "aborted")
  /\ UNCHANGED <<objVars, registryVars, cur, sync>>

\* OBLO_ASSERT(resource->loadJob), then increase_reference; without the
\* assertion increase_reference would dereference the null handle.
CheckJob(t) ==
  /\ pc[t] = "check"
  /\ IF assigned[cur[t]]
     THEN /\ jobRefs' = [jobRefs EXCEPT ![cur[t]] = @ + 1]
          /\ Goto(t, "sync_wait")
     ELSE /\ Goto(t, "aborted")
          /\ UNCHANGED jobRefs
  /\ UNCHANGED <<loadState, counter, data, invalidated, assigned, deleted,
                 owners, registryVars, cur, sync>>

\* Mutant: load_sync returns without waiting for the job.
SyncWait_Unchecked(t) ==
  /\ pc[t] = "sync_wait"
  /\ jobRefs' = [jobRefs EXCEPT ![cur[t]] = @ - 1]
  /\ Goto(t, "idle")
  /\ UNCHANGED <<loadState, counter, data, invalidated, assigned, deleted,
                 owners, registryVars, cur, sync>>

\* Mutant: load_sync waits for the state instead of the job.
SyncWait_UntilLoaded(t) ==
  /\ pc[t] = "sync_wait"
  /\ loadState[cur[t]] = "loaded"
  /\ jobRefs' = [jobRefs EXCEPT ![cur[t]] = @ - 1]
  /\ Goto(t, "idle")
  /\ UNCHANGED <<loadState, counter, data, invalidated, assigned, deleted,
                 owners, registryVars, cur, sync>>

\* The wait of load_sync returns.
SyncWait(t) ==
  /\ pc[t] = "sync_wait"
  /\ pc[cur[t]] = "done"
  /\ jobRefs' = [jobRefs EXCEPT ![cur[t]] = @ - 1]
  /\ Goto(t, "idle")
  /\ UNCHANGED <<loadState, counter, data, invalidated, assigned, deleted,
                 owners, registryVars, cur, sync>>

\* The job of r starts: resource->data = descriptor->create()
JobCreate(r) ==
  /\ pc[r] = "create"
  /\ data' = [data EXCEPT ![r] = "created"]
  /\ Goto(r, "load")
  /\ UNCHANGED <<loadState, counter, invalidated, assigned, jobRefs, deleted,
                 owners, registryVars, cur, sync>>

\* descriptor->load may fail; what it leaves in data is then not meaningful.
JobLoad(r) ==
  /\ pc[r] = "load"
  /\ \E d \in {"created", "filled"} : data' = [data EXCEPT ![r] = d]
  /\ Goto(r, "store")
  /\ UNCHANGED <<loadState, counter, invalidated, assigned, jobRefs, deleted,
                 owners, registryVars, cur, sync>>

\* loadState.store(finalState)
JobStore(r) ==
  /\ pc[r] = "store"
  /\ loadState' = [loadState EXCEPT
                     ![r] = IF data[r] = "filled" THEN "loaded" ELSE "failed"]
  /\ Goto(r, "release")
  /\ UNCHANGED <<counter, data, invalidated, assigned, jobRefs, deleted, owners,
                 registryVars, cur, sync>>

\* resource_release(resource) is the last statement of the job.
JobRelease(r) ==
  /\ pc[r] = "release"
  /\ Release(r, r, "job")
  /\ UNCHANGED <<registryVars, sync>>

-----------------------------------------------------------------------------
(* The registry: update(), one provider event at a time, and instantiate(). *)

\* resource_create and the resource_ptr made of it.
Create(r, o, state) ==
  /\ loadState[r] = "unborn"
  /\ loadState' = [loadState EXCEPT ![r] = state]
  /\ Acquire(r, o)

UpdateBegin ==
  /\ "update" \in Ops
  /\ pc[Main] = "idle" /\ ~updating
  /\ updating' = TRUE
  /\ UNCHANGED <<objVars, entry, fresh, pc, cur, sync>>

\* Every iterate_resource_events returned.
UpdateEnd ==
  /\ pc[Main] = "idle" /\ updating
  /\ updating' = FALSE
  /\ UNCHANGED <<objVars, entry, fresh, pc, cur, sync>>

\* resource_added_event: emplace keeps an entry that is already there, and the
\* new resource is deleted with the temporary that holds it.
Added(r) ==
  /\ pc[Main] = "idle" /\ updating
  /\ IF entry = NoRes
     THEN /\ Create(r, "registry", "unloaded")
          /\ entry' = r
          /\ UNCHANGED deleted
     ELSE /\ loadState[r] = "unborn"
          /\ loadState' = [loadState EXCEPT ![r] = "unloaded"]
          /\ deleted' = deleted \cup {r}
          /\ UNCHANGED <<counter, owners, entry>>
  /\ UNCHANGED <<data, invalidated, assigned, jobRefs, updating, fresh, pc, cur,
                 sync>>

\* resource_removed_event: invalidate the handle, then erase the entry.
Removed ==
  /\ pc[Main] = "idle" /\ updating
  /\ entry # NoRes
  /\ invalidated' = [invalidated EXCEPT ![entry] = TRUE]
  /\ cur' = [cur EXCEPT ![Main] = entry]
  /\ Goto(Main, "erase")
  /\ UNCHANGED <<loadState, counter, data, assigned, jobRefs, deleted, owners,
                 registryVars, sync>>

Erase ==
  /\ pc[Main] = "erase"
  /\ entry' = NoRes
  /\ Release(Main, cur[Main], "registry")
  /\ UNCHANGED <<updating, fresh, sync>>

\* resource_updated_event: events about unknown uuids are ignored.
Updated(r) ==
  /\ pc[Main] = "idle" /\ updating
  /\ entry # NoRes
  /\ Create(r, "event", "unloaded")
  /\ fresh' = r
  /\ cur' = [cur EXCEPT ![Main] = entry]
  /\ Goto(Main, "invalidate")
  /\ UNCHANGED <<data, invalidated, assigned, jobRefs, deleted, entry, updating,
                 sync>>

\* Mutant: the handle that is replaced is not invalidated.
Invalidate_Forgotten ==
  /\ pc[Main] = "invalidate"
  /\ Goto(Main, "replace_release")
  /\ UNCHANGED <<objVars, registryVars, cur, sync>>

\* entry.handle.invalidate()
Invalidate ==
  /\ pc[Main] = "invalidate"
  /\ invalidated' = [invalidated EXCEPT ![entry] = TRUE]
  /\ Goto(Main, "replace_release")
  /\ UNCHANGED <<loadState, counter, data, assigned, jobRefs, deleted, owners,
                 registryVars, cur, sync>>

\* The move assignment of the entry resets the old handle...
ReplaceRelease ==
  /\ pc[Main] = "replace_release"
  /\ Release(Main, cur[Main], "registry")
  /\ UNCHANGED <<registryVars, sync>>

\* ... and takes over the pointer to the new resource.
Replace ==
  /\ pc[Main] = "replace"
  /\ entry' = fresh
  /\ fresh' = NoRes
  /\ owners' = [owners EXCEPT ![fresh] = (@ \ {"event"}) \cup {"registry"}]
  /\ Goto(Main, "idle")
  /\ UNCHANGED <<loadState, counter, data, invalidated, assigned, jobRefs,
                 deleted, updating, cur, sync>>

\* instantiate: a resource without a file, born loaded and not in m_resources;
\* until it returns, no other thread can reach the resource.
Instantiate(t, r) ==
  /\ "instantiate" \in Ops
  /\ Free(t)
  /\ Create(r, t, "loaded")
  /\ data' = [data EXCEPT ![r] = "filled"]
  /\ UNCHANGED <<invalidated, assigned, jobRefs, deleted, registryVars, pc, cur,
                 sync>>

-----------------------------------------------------------------------------
ThreadStep(t) ==
  \/ Get(t)
  \/ \E u \in Thread, r \in Res : Copy(t, u, r)
  \/ \E r \in Res : Drop(t, r)
  \/ \E r \in Res, s \in BOOLEAN : StartLoading(t, r, s)
  \/ \E r \in Res : Instantiate(t, r)

\* What a thread does inside a call it has made.
ThreadCall(t) ==
  \/ AcquireForJob(t) \/ PushJob(t) \/ AssignJob(t)
  \/ CheckJob(t) \/ SyncWait(t)

UpdateStep ==
  \/ UpdateBegin \/ UpdateEnd
  \/ \E r \in Res : Added(r) \/ Updated(r)
  \/ Removed

UpdateCall == Erase \/ Invalidate \/ ReplaceRelease \/ Replace

ReleaseStep(a) == Reap(a) \/ ReapWait(a) \/ Destroy(a)

JobStep(r) == JobCreate(r) \/ JobLoad(r) \/ JobStore(r) \/ JobRelease(r)

Next ==
  \/ \E t \in Thread : ThreadStep(t) \/ ThreadCall(t)
  \/ UpdateStep \/ UpdateCall
  \/ \E a \in Actor : ReleaseStep(a)
  \/ \E r \in Res : JobStep(r)

Spec == Init /\ [][Next]_vars

\* A thread inside a call keeps running, and so does a job that has started.
\* That a pushed job starts is not assumed: a load_sync called by a job polls
\* the queue of its own thread only (job_manager.cpp:428), and the load job may
\* be in the queue of a main thread that does nothing.
Fairness ==
  /\ \A t \in Thread : WF_vars(ThreadCall(t) \/ ReleaseStep(t))
  /\ WF_vars(UpdateCall)
  /\ \A r \in Res : WF_vars((pc[r] # "create" /\ JobStep(r)) \/ ReleaseStep(r))

FairSpec == Spec /\ Fairness

-----------------------------------------------------------------------------
(* What must hold. *)

ThreadPCs == {"idle", "acquire", "push", "assign", "check", "sync_wait",
              "aborted", "reap", "reap_wait", "destroy", "erase",
              "invalidate", "replace_release", "replace"}
JobPCs == {"none", "create", "load", "store", "release", "reap", "reap_wait",
           "destroy", "done"}

\* The type of every variable: the fields of resource, the entry of the
\* registry, and where each thread and each load job is.
TypeOK ==
  /\ loadState \in
       [Res -> {"unborn", "unloaded", "loading", "failed", "loaded"}]
  /\ counter \in [Res -> Int]
  /\ data \in [Res -> {"null", "created", "filled"}]
  /\ invalidated \in [Res -> BOOLEAN]
  /\ assigned \in [Res -> BOOLEAN]
  /\ jobRefs \in [Res -> Int]
  /\ deleted \subseteq Res
  /\ entry \in Res \cup {NoRes}
  /\ updating \in BOOLEAN
  /\ fresh \in Res \cup {NoRes}
  /\ pc \in [Actor -> ThreadPCs \cup JobPCs]
  /\ \A t \in Thread : pc[t] \in ThreadPCs
  /\ \A r \in Res : pc[r] \in JobPCs
  /\ cur \in [Actor -> Res \cup {NoRes}]
  /\ sync \in [Thread -> BOOLEAN]
  /\ owners \in [Res -> SUBSET Owner]

\* The counter of a resource is the number of pointers that count, whichever
\* threads copy, drop, load and replace it at the same time.
CounterExact == \A r \in Res : counter[r] = Cardinality(owners[r])

\* The states in which the next step of an actor reads or writes the resource.
Uses(a) == pc[a] \notin {"none", "idle", "done", "aborted", "replace"}

\* No resource is deleted while a pointer to it exists, nor while a thread or
\* the load job is between two accesses to it; and it is deleted once.
NoUseAfterDelete ==
  /\ \A r \in deleted :
       owners[r] = {} /\ (r = entry => pc[Main] = "replace")
  /\ \A a \in Actor : Uses(a) => cur[a] \notin deleted

\* At most one thread starts the load of a resource, and what it asserts is
\* true: no job was assigned, and the job finds no data.
LoadedOnce ==
  \A t, u \in Thread :
    pc[t] \in {"acquire", "push", "assign"} =>
      /\ ~assigned[cur[t]]
      /\ pc[t] # "assign" => pc[cur[t]] = "none" /\ data[cur[t]] = "null"
      /\ pc[u] \in {"acquire", "push", "assign"} /\ cur[u] = cur[t] => u = t

\* A resource reported as successfully loaded has the data its owners read
\* through the pointer, until the last of them is gone.
LoadedIsFilled ==
  \A r \in Res :
    loadState[r] = "loaded" /\ owners[r] # {} => data[r] = "filled"

\* The load job is over when its resource is deleted and its last reference
\* was given back then, no earlier: whoever waits for the job has one.
JobReaped ==
  /\ \A r \in deleted : jobRefs[r] = 0 /\ pc[r] \in {"none", "done"}
  /\ \A a \in Actor : pc[a] \in {"sync_wait", "reap_wait"} =>
       jobRefs[cur[a]] > 0

Instantiated(r) == loadState[r] = "loaded" /\ pc[r] = "none"

\* A pointer to a resource of the registry that is no longer the entry says it
\* is invalidated, and get_resource never hands out an invalidated one.
StaleIsInvalidated ==
  /\ \A r \in Res :
       owners[r] \cap Thread # {} /\ r # entry /\ ~Instantiated(r) =>
         invalidated[r]
  /\ entry # NoRes /\ invalidated[entry] => updating

\* load_sync returns only when the load has succeeded or failed.
LoadSyncSees ==
  [][\A t \in Thread : pc[t] = "sync_wait" /\ pc'[t] = "idle" =>
       loadState[cur[t]] \in {"loaded", "failed"}]_vars

\* The waits for a load job return, whether the load succeeds or fails: that of
\* load_sync (line 145) once the job has started, and that of the thread that
\* gives up the last pointer (line 33), after which the resource is deleted.
LoadWaitsReturn ==
  \A t \in Thread :
    /\ pc[t] = "sync_wait" /\ pc[cur[t]] # "create" ~> pc[t] = "idle"
    /\ pc[t] = "reap" ~> cur[t] \in deleted

\* A load that has started comes to its end, whoever gives up the pointers to
\* the resource meanwhile.
LoadFinishes ==
  \A r \in Res : pc[r] = "load" ~> pc[r] = "done"
=============================================================================
