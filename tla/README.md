# A verification project for oblo

oblo is a C++ game engine with an editor. This directory holds TLA+ models of the
parts of it that are hard to test (jobs that wait for one another, resources
shared by threads that load and drop them, GPU work that finishes later than it
is submitted, imports that race with users who change files, entities that are
moved in memory, a frame graph that changes between frames, a shutdown in
reverse order), TLC configurations that check them on small instances, and
proofs that TLAPS checks for every value of the constants. All paths below are
relative to `src/oblo`.

## 1. The system

The repository has no documentation besides comments, assertions and tests; the
models are translated from the implementation files.

| component | state | operations | interacts with | what is hard | what makes it correct |
|---|---|---|---|---|---|
| job manager `thread` | per thread: a FIFO queue, its state; per job: parent, `unfinishedJobs`, `references`; one semaphore | `init`, six pushes, `wait`, `try_wait`, `increase_reference`, `decrease_reference`, `shutdown`, the worker loop | everybody pushes jobs | lock-free counters walked over ancestors, waits that execute other jobs, sleeping workers, shutdown | no job used after it is freed, a wait ends after the whole tree, no lost wakeup, waits return |
| parallel loops `thread/parallel_for` | none | `parallel_for`, `parallel_for_2d` | job manager | ranges, wrap-around | each element once |
| resources `resource` | per resource: counter, load state, data, job handle; registry: one entry per uuid | `acquire`, `release`, `load_start_async`, `load_sync`, `update`, `get_resource`, `instantiate` | job manager, providers, renderer | last release against load job, two loaders, entry replaced while owned | deleted once and last, loaded once, stale pointers know it |
| asset registry and importers `asset` | assets, file map, artifacts, running imports, meta and process files | `initialize`, `update`, `import`, `process`, `save_asset`, garbage collection | job manager, file watcher, resource providers | imports polled while files change, files written in several steps, crashes | one import per asset, artifacts handed out exist, the registry mirrors the files |
| tracked submits `gpu/core` | submit number, fences, last finished submit, objects to dispose of | `begin/end_tracked_queue_submit`, `wait_for_submit_completion`, `destroy_next_frame`, `end_frame` | Vulkan backend, every GPU object | the device finishes whenever it likes | no fence and no object reused before the device is done |
| staging and uploads `gpu/core`, `renderer/draw` | a ring of bytes, pending bytes, submitted bytes, lists of copies | `stage`, `stage_image`, `upload`, `submit_uploads`, `notify_finished_frames` | tracked submits | the ring fills, wraps, is padded; submits fail | no byte overwritten before it is copied; bytes are never lost; staging returns |
| frame loop `renderer`, `vulkan/engine` | semaphore set, `presentDoneSubmitIndex` | `acquire_images`, `begin_frame`, `execute`, `present`, `end_frame` | both above | frames in flight | bounded submits in flight |
| command and descriptor pools `gpu` | pools and the submit that used them | `allocate`, `acquire`, `on_submit` | tracked submits | pools retired with the wrong submit | reset after use |
| frame graph `renderer/graph` | graph of nodes and pins, storages, retained textures, downloads, passes, stable buffers | `instantiate`, `connect`, `remove`, `build`, `execute`, `frame_submitted` | GPU, nodes of the renderer | changes between frames, storage shared between pins, barriers over frames | runs what is needed, no storage lost or dangling, no hazard on the device |
| passes, meshes, draws `renderer/draw` | tables of meshes, pipelines, instances | `get_or_create_mesh`, `generate_draw_calls` | resources, ECS, GPU | recording | draws what there is |
| resource cache, texture registry `renderer/draw` | a texture slot per uuid | `get_or_add`, `update` | resources, uploads | invalidated while it loads | cache follows the resource |
| ECS `ecs` | archetypes, chunks, entity locations, tags, deferred commands | `create`, `destroy`, `add`, `remove`, `notify`, `apply` | scene, renderer, systems | entities moved into holes and to other archetypes | every handle finds its own entity with its own values |
| systems graph `ecs/systems` | a graph of barriers and systems | `build`, `instantiate`, `update` | ECS | cycles, order | a topological order |
| futures `core/thread` | a counted control block | `init`, `set_value`, `reset`, `get_future` | frame graph, metrics | order of settling and dropping | every future is settled or broken |
| handle pools, containers, subscribers `core` | sequential data | | all | generations wrap, changes during a dispatch | handles are owned once |
| log `log` | lock-free queues of buffers, sinks | `log`, flush job, `shutdown` | job manager | buffers go round between threads; flush and late messages against shutdown | nothing twice, nothing out of order, nobody left who uses freed queues |
| module manager `modules` | modules in load order | `load`, `finalize`, `shutdown` | all | loads nest and fail | used modules outlive their users |
| editor application `editor/app` | phases | `init`, `run`, `shutdown` | all | order of the shutdown | it ends |
| editor windows, scene, script, nodes, importers, properties, ... | data | | | user interface, data formats, compilers | left aside |

`PROJECT.json` lists every component with its status, and every hazard found in
the survey at its line.

## 2. The modules

| module | models |
|---|---|
| `ForkJoin` | what the job manager promises: a forest of jobs, each executed once, waits granted when a tree is complete |
| `JobManager` | `job_manager.cpp/.hpp`, one atomic operation per step, and its properties |
| `JobManagerInv` | the inductive invariant of `JobManager` |
| `JobManagerProofs` | proofs of the invariant, of the safety properties and of the refinement of `ForkJoin` |
| `ResourceLoad` | `resource_ptr.cpp/.hpp` and `resource_registry.cpp` for one uuid |
| `ResourceLoadInv`, `ResourceLoadProofs` | its inductive invariant, and the proofs |
| `TrackedQueue` | the tracked submits of `gpu_instance.cpp`, and the device |
| `StagingRing` | `staging_buffer.cpp` over `ring_buffer_tracker.hpp` |
| `UploadFrames` | the main thread's frame over both, with `upload_buffers.cpp` |
| `RecycledPools` | pools retired with a submit: `command_buffer_pool_manager.cpp`, `descriptor_set_pool.cpp` |
| `RendererFrames` | `UploadFrames` with three such pools and the downloads of the frame graph, over a second ring |
| `RendererFramesInv`, `StagingRingProofs`, `RendererFramesProofs` | its inductive invariant (of `UploadFrames` too), and the proofs: what the rings do, and the frames over them |
| `AssetFiles` | the files of the asset registry, and the steps in which `importer::finalize` writes them |
| `AssetRegistry` | `asset_registry.cpp` and `importer.cpp`, the watcher's events, the resource registry's view, users, crashes |
| `AssetRegistryInv`, `AssetRegistryProofs` | its inductive invariants, and the proofs |
| `EntityStore` | what the entity registry promises: a map from entities to typed values |
| `HandlePool` | `core/handle_pool.hpp` |
| `Archetypes` | the chunks and slots of `archetype_impl`, objects with their lifetimes |
| `EntityRegistry` | `entity_registry.cpp` and the deferred commands, over the two above |
| `EntityRegistryInv` | its inductive invariant |
| `EntityRegistryProofs` | lemmas about each operation on archetypes and registries; proofs of the invariant, the safety properties and the refinement of `EntityStore` |
| `FrameTopology` | `core/graph/directed_graph.hpp`, templates, topological order |
| `FrameGraph` | `frame_graph.cpp`: the graph, the storages of pins, what nodes ask for, over frames |
| `PassBarriers` | the passes of a frame, stable buffers (`resource_pool.cpp`), the barriers (`frame_graph.cpp:48`), and a device that checks them |
| `PassBarriersInv`, `PassBarriersProofs` | its inductive invariant, and the proofs |
| `ModuleManager` | `module_manager.cpp` with nested and failing loads |
| `LogQueue` | the asynchronous log of `log_module.cpp` |
| `EngineLifetime` | the application (`app.cpp`) over both, with the jobs it runs |
| `EngineLifetimeInv`, `EngineLifetimeProofs` | its inductive invariant, and the proofs |
| `MC...` | instances for TLC: symmetry sets, and definitions of constants |

`UploadFrames` composes `TrackedQueue` and `StagingRing`, and `RendererFrames` extends
it; `AssetRegistry` extends `AssetFiles`; `EntityRegistry` extends `HandlePool` and
`Archetypes`; `FrameGraph` extends `FrameTopology` and `HandlePool`; `EngineLifetime`
extends `ModuleManager` and `LogQueue`.

### JobManager

Thread 0 called `init` and runs jobs only inside `wait`; the others run
`worker_thread_run`. The stack of a thread is `top` and `below`: a job is
a frame, because `wait` executes jobs on top of the function that called it.
`pc` names the next atomic operation (a `fetch_add`, a load, an enqueue, a
semaphore operation), so everything that can interleave in the code does here.
`status`, `parent`, `unfinished`, `refs`, `freed`, `queue`, `permits`, `stop`,
`scan` and `misses` are fields of the code; `holders`, `lineage` and `owes` are
history that the properties and the proofs speak about (which frames own a
reference, the ancestors of a job, who is still counted by whom). The operations
`push` and `push_child` that take a `job_fn` (`push_fn`, `push_child_fn`) are
separate, because they allocate the job as waitable.

What clients are assumed to do, as the clients in `asset`, `resource`, `log` and
`parallel_for` do: a frame owns at most one reference to a job, and gives back
all its references before it returns; the parent of a child is the running job
or a root job the frame owns; a reference is never handed to the job itself or
to a descendant; jobs are finite in number and never reused (the addresses of
freed jobs are not confused with new ones; a use after free is what is looked
for). References are passed on by `increase_reference`, which is how `load_sync` inside a job
waits for a load that another thread started. A thread that waits polls its own queue
only (`job_manager.cpp:428`), and `Main` runs no job outside its waits, so that passing
references on makes waits that never return: with every worker waiting for jobs in the
queue of an idle `Main` (section 4), or with jobs that wait in a circle.
`WaitReturns` and `QueuedRuns` are therefore about clients that pass none on
(`NeverShared`), and `SharedJobsProgress` about all clients, on the
condition `SafelyShared`: some worker comes back to its loop again and again, and jobs
do not wait in a circle. `ShutdownReturns` has a condition too: no job waits for another
once `shutdown` has begun. Each is false without its condition.
`Main` may stop calling at any time, which is why these runs have
`CHECK_DEADLOCK FALSE`: with no job left to push every thread sleeps.
Atomics are sequentially consistent in the model.

### ResourceLoad

The actors are threads, one of which calls `update`, and the load job of each
resource. `owners` is the set of those who own a counted pointer (a thread,
the registry's entry, the event being processed, the load job), and `counter` is
the code's counter, a plain integer so that nothing is taken on trust about its
sign. `loadState`, `data`, `invalidated`, `assigned` (loadJob is not null),
`jobRefs` and `entry` are the fields of `resource` and of the registry. The job
manager appears through what was checked of it: `wait` returns when the job has run.
That a pushed job starts is not assumed: it may be in the queue of a main thread
that goes on without waiting. So `LoadWaitsReturn` is about a load job that has started,
and about one that never does `load_sync` promises nothing. A thread keeps one pointer per resource, and keeps it
during a call made through it; `get_resource` is not concurrent with `update`,
as the code requires (the map of the registry is not locked); entries of
different uuids are independent, so one is modelled. The list of updated
uuids, `register_type` and `register_provider` are left out. Resources run out
and a failed `OBLO_ASSERT` stops its thread: `CHECK_DEADLOCK FALSE`.

### TrackedQueue, StagingRing, UploadFrames

One thread submits, the device is the other actor (`Device`): submits finish in order,
and each signals its fence and the timeline semaphore at once. `UploadFrames` composes
the queue and the ring into a frame: `Acquire` waits for the frame that used the same
semaphores, `Begin` is `begin_frame` and the `begin_tracked_queue_submit` after each
upload submit, `Upload` is the first attempt of `stage_memory`, `Flush` and `FlushFails`
are `submit_uploads`, `Retry` and `Wait` its loop, `Execute`, `Present` and
`PresentFails` the rest of the frame. `copying` and `overwritten` are ghosts: the submit
that copies each byte of the ring (0 until it is made), and whether a byte was handed
out before it was copied. `Sums` and `Finished` are the loop of
`notify_finished_frames`, as the longest prefix of finished submits and the sum of its
sizes. Submits may fail, before anything is recorded or at `vkQueueSubmit`; builds with
assertions stop at the next `begin_tracked_queue_submit` then, the others go on as
modelled. Left out: swapchains that are recreated, failures of fence calls,
`destroy_deferred`, the renderer's own ring (`m_stagingBuffer`), the data itself and its
barriers.

### RecycledPools, RendererFrames

A pool is a list of retired pools with the number of a submit, and a current
one. In the model a pool is represented by the last submit whose commands use
it, which the code does not know: `ResetTooEarly` compares the two. What is
allocated from a pool, and the several kinds of descriptor sets, are left out.
`RendererFrames` gives one such list to the uploads, one to the frames and one to
descriptor sets. Submits that a frame records have no number yet (`Recording`);
`PresentFrame` gives it to them, `PresentFrameFails` leaves them without.
`Record` is `frame_graph::execute` as far as downloads go: those of a frame whose
submit failed stay on the list and are staged again, and their number stays 0. An
upload happens before `execute` or while it builds the graph, never after. A pool
of descriptor sets is not exhausted before any submit was made: the fallback
texture is uploaded first. Alignment padding inside a ring is left to the
parameters; the instance pads at the end of the ring only.

### AssetFiles, AssetRegistry

`AssetFiles` is what survives a crash: the meta file at each path, the process that each
asset's `.oproc` names, the artifact directories of processes, the source. `finalize`
writes them one at a time (`FinalizeArtifacts`, `FinalizeProcess`, `FinalizeMeta`,
`FinalizeSources`), and a crash may come between any two; a single file is written
whole. `AssetRegistry` is the thread that calls `update`: `main` says where in it the
thread is. Jobs end between updates; an import may fail to start or to finish, an
artifact may fail to be saved. Users delete, restore, rename and copy files at any
point, also while an update handles its events; only not between the writes of one
finalize. Those writes share nothing with what users do but the meta file, so such a
change is the same as one before or after all of them. A watcher hands over the events
since the last update in one batch; what they mean is read from the files when they are
handled. `view` is what the resource registry has made of the provider's events. A start
after a crash is `Discover`: `initialize`, `discover_assets` with garbage collection and
reprocessing, and the initial events. `raced` is the set of paths that the registry
may mistake for one another: a user renamed or copied a file while other work was under
way, and what the registry then reads of one path may belong to another, because it
cannot tell a rename it has not heard of from a removal. All places of such an asset
(where it is, where the registry knows it, where it may be restored) are raced together,
and `MirrorsDisk` leaves out the assets with a place among them until the next start. Left out: failures to write `.oproc` or meta files, hooks and formats of
importers, and what the Linux watcher reports as paths. Requests are bounded, so the
model may stop: `CHECK_DEADLOCK FALSE`.

### EntityStore, HandlePool, Archetypes, EntityRegistry

`Archetypes` tracks every component object through its lifetime: raw memory,
default, written, moved from; constructing over an object, or destroying raw
memory, makes it corrupt. `EntityRegistry` has every call of the registry
(create, create on a reserved id, destroy, `destroy_all`, add and remove of type
sets, notifications, `set_modification_id`), and the commands of
`deferred.hpp`, applied one at a time. Clients name live entities or ids they
reserved, which is what the registry asks for: a lookup compares the index of a
handle only, so that a handle kept after its entity was destroyed finds the
next owner of the index. `destroy_all` is called with nothing reserved or
deferred. Calls that change nothing are not counted by the bound; written
values are one abstract value. `OverreadMatches` is the outcome of reading one
word past the types of an archetype (`entity_registry.cpp:779`): FALSE in
`entities`, TRUE in `entity_overread`, which shows what the other outcome
does. The bounded calls run out: `CHECK_DEADLOCK FALSE`.

### FrameTopology, FrameGraph

`FrameTopology` has the graph as the code keeps it: lists, erased unordered, because
the topological order depends on them. `FrameGraph` has what clients do between
frames (instantiate and remove templates, connect, disconnect, enable outputs),
`build` (the nodes that contribute to an output, the order, the propagation of
storages along edges), what a node may call in it (`NodeCalls`), `execute`, and
`frame_submitted` or a submit that fails, after which `finish_frame` is not called.
Storages are found by the index of their handle, and generations wrap. What the
code asserts or what would touch memory that is not there leads to the phase
"broken", which `StorageAccounted` allows only once a submit has failed or in a
frame that destroyed a texture. Clients connect an input once, connect
no cycles, and a node creates what its own pins name. The model stops after its
frames: `CHECK_DEADLOCK FALSE`.

### PassBarriers

A frame is a list of passes and a list of usages of buffers by them (read, write,
upload, download). The resource pool gives a stable buffer back to its pin if the
last frame had it: such a buffer is named for its key and the frame it was created in,
the others for their place in the frame. `build_pass_barriers` goes through the usages
in order: `Tracked[k]` is what is known of each resource after the first k of them, and
the barriers so far (`TrackUsage` starts one, joins the last one, or only forwards what
was known), from what the last frame stored of stable buffers (`fetch_buffer_tracking`,
`StoreTracking`). `Ran[p]` is the device after the uploads and the first p passes, each
with its barrier. The `device` is external: it
follows the synchronisation rules of Vulkan (which accesses a barrier makes
available, and to which stages they are visible) and records a race when a use
is not ordered after an earlier one it conflicts with. A pass names a buffer
once; transfer passes only upload or download; the size in the key of a stable
buffer, the kinds of read-only access and the memory that transient buffers
share between frames are left out. The frames run out: `CHECK_DEADLOCK FALSE`.

### ModuleManager, LogQueue, EngineLifetime

`ModuleManager` has the C++ stack of nested startups; what a module's startup
loads is the constant `Requests`. `LogQueue` follows each buffer of the log: taken
by a thread, written, queued, dequeued by the flush job, sunk, given back. The
queues are `moodycamel::ConcurrentQueue`, external: first in, first out for each
thread that enqueues, in any order between them. A bulk dequeue is modelled as
takes one by one. `EngineLifetime` starts the log first, loads the other modules,
runs imports and loads as jobs that log, waits, and shuts everything down. The main
thread may take jobs while it waits; the flush job keeps the thread that took it.
`StartLoad` is `load_start_async`, after which the main thread goes on;
`WaitForLoad` is the wait of `load_sync`, or of the last release of a resource. Shutdown waits
for imports, not for loads, so that a load may be queued or running when the
log frees its queues. `g_isAsync` stays true: a load that logs then
uses a null pointer, which is the step `UseFreedQueues` to the phase "undefined", where
the model stops, because nothing can be said of the program from there on.
A program ends: `CHECK_DEADLOCK FALSE`. Hot reload, the lists of services, the
synchronous log and the sinks' output are left out.

## 3. The runs

| run | instance | states | shows |
|---|---|---|---|
| `job_tree` | 2 threads, 3 jobs, trees, nested waits, shared references, `try_wait` | 1.3 M | `NoUseAfterFree`, `DestroyedAfterTree`, `ChildlessDestroyed`, `WaitSound` |
| `job_live` | 2 threads, 3 jobs, waits, no `increase_reference` | 156 k | `WaitReturns`, `QueuedRuns`, and the refinement of `ForkJoin` |
| `job_shared` | 3 threads, 2 jobs, waits, references passed on, `shutdown` | 150 k | `SharedJobsProgress`, `ShutdownReturns` |
| `res_owners` | 2 threads, 2 resources, copies, loads, registry events | 493 k | counting, deletion, loading, invalidation, and that `load_sync` (once the load has started) and the last release return |
| `res_self_wait` | 2 threads, 1 resource | | finding |
| `gpu_frames` | 5 fences, 2 semaphore sets, a ring of 3, requests of 2 and 4, images of 2, a download ring of 3, 7 submits, 1 failure | 1.07 M | fences, bytes, objects, pools and downloads are not reused too early; staging returns |
| `assets` | 2 assets, 2 paths, 1 or 2 artifacts, 2 changes by users, 1 save, 1 crash | 7.3 M | `ArtifactsOnDisk`, `MapFollowsEntries`, `MirrorsDisk`, `ResourcesFollow`, `BusyIsImported` |
| `entities` | 3 entities, 2 components, 1 tag, chunks of 2, 5 calls, 1 deferred command, 2 generations | 1.09 M | `LocationsAgree`, `ConstructedExactly`, `IndicesOwnedOnce`, `NotifiedIsSeen`, and the refinement of `EntityStore` |
| `entity_overread` | the same, the word matches | | finding |
| `frame_graph` | 2 instances of 2 templates, 4 changes, 2 calls of nodes, 2 frames | 433 k | `RunsContributors`, `RefsFollowEdges`, `StorageAccounted` |
| `pass_barriers` | a stable and another buffer, 2 shader stages and transfers, 4 uses, 3 frames | 1.6 M | `Synchronized`, `StableKept` |
| `engine_lifetime` | main and 2 workers, 6 modules, 2 imports, 1 load, chunks of 3 buffers, batches of 2 | 790 k | `ModulesNested`, `MessagesIntact`, `QueuesOutliveUsers`, `ShutdownEnds` |

Why the bounds are enough to be interesting. Two threads are the least
`init` accepts, and make every race between a waiter and a finisher; three jobs
make a grandchild, or two siblings; the third thread of `job_shared` is a worker
that can be free while the other waits, and other than the one that is joined. `WaitThreshold` stands for 32: with 0 a worker
sleeps after the first empty round, with 1 it polls again. Two resources let an
event replace one with the other while both are owned. In `gpu_frames`, a ring
of 3 with requests of 2 wraps, skips its end and does not fit twice; 4 never fits
and is refused; `MaxSubmit` 7 goes round the 5 fences; one submit may fail; a
download ring of 3 has no space for a second download. `Slots` stands for 16, `Images`
for 3, `Size` for 1 GiB (`renderer.cpp:10`). Two paths and two assets make a copy, a
rename over nothing and a meta file in the way of an import; two changes by a user
and a crash meet every write of an import. Three entities in chunks of two put a
moved entity in the same chunk and in another one, and five calls empty and refill
a slot whose index has gone round its two generations. Four changes connect,
disconnect and remove an instance whose storage indices the next one takes, between
two frames. Four uses in three frames make a write, two joined reads and a write
again, over frames. In the log, a chunk of three buffers is the least the code
accepts.

`FenceIsIdle` depends on `Slots`: `submit_info::submitIndex` is never assigned,
so `begin_tracked_queue_submit` never waits, and the number of submits in flight
is bounded only by what fills the ring and by the semaphores. For the sizes of
`gpu_frames` five fences are enough (without objects and pools it also holds for 13
submits); other sizes need more, and images larger than the ring break it for any
number, because the list of images is submitted before staging is retried and such a
submit takes no bytes. Type invariants are in the modules or in the invariants of
the proofs; that of the frame graph was checked while the module was written, the
others are proved. None is a property of a run: the runs spend theirs on what could go wrong. Every inductive invariant
was checked by TLC on the instance of its run before it was proved.

Fairness. Job manager: the operating system runs every thread, a job function that is
not in a call goes on until it returns, and a job that wants to wait for a job does;
nothing is assumed of the main program between its calls. A job function may push
further jobs in between, so that its return is strongly fair (`JobReturn`). Resources: a
call in progress goes on, and so does a load job that has started; that one starts is
not assumed, and clients need not call or drop anything. GPU: the device
finishes what it was given, and a call of the main thread goes on. Engine: each
thread goes on, a call of the log returns, and jobs end except loads, which may
wait for themselves (`res_self_wait`): `ShutdownEnds` has the condition
`LoadsEnd`. All fairness but that of `JobReturn` is weak. The other runs check
safety only.

Each property of a passing run has a mutant: a variation of one definition, the
way a bug in that code would look, under which TLC finds the property violated.

## 4. Findings and observations

Findings, each with a run that shows it:

- `res_self_wait`: the release at the end of a load job waits for that job when it
  is the last one (`resource_ptr.cpp:118`, `:33`), although the comment at `:98` says
  that the acquired resource need not worry about being deleted while loading.
- `entity_overread`: `move_archetype` reads `components[numComponents]` of the old
  archetype (`entity_registry.cpp:779`); when that word equals an added component, it is
  moved from memory that is not one, against the comment at `:785`.

Observations made while modelling, which no run is spent on:

- Jobs: a job that had a child is never deallocated, against `job_manager.hpp:64`: a
  child takes a reference from each ancestor (`job_manager.cpp:317`), and an ancestor
  gives one back only when its count of unfinished jobs reaches zero (`:132`). The
  overloads of `push` and `push_child` that take a `job_fn` allocate with a reference
  that nobody owns (`:294`, `:300`), so that the job is never deallocated either,
  against `job_manager.hpp:82` and `:89`; no caller in the repository uses them. With
  `push_fn` among the `ClientOps` of `JobTree.cfg` `ChildlessDestroyed` is violated. A
  stopped worker leaves jobs in its queue, and a job elsewhere that waits for one of
  them never returns: a shutdown with such a wait hangs.
- Jobs: `increase_reference` is there "to let multiple threads wait for the same job"
  (`job_manager.hpp:146`). But a job on the only worker that waits for a job in the main
  thread's queue polls its own queue only (`job_manager.cpp:428`): while the main thread
  is in its own code the awaited job does not start and the wait does not return.
  `load_sync` inside a job is such a wait (`resource_ptr.cpp:144`). Two threads and two
  jobs with the `ClientOps` of `JobShared.cfg` are enough for TLC to find it, when
  `SharedJobsProgress` is stated without `SafelyShared`.
- Resources: `resource_load_sync` asserts a job handle (`resource_ptr.cpp:141`) that the
  thread that won the exchange of the state may not have stored yet (`:101`). In the
  model that thread stops ("aborted"); the properties are about the others.
- Engine: a load that nothing waits for (`entity_hierarchy_system.cpp:46`,
  `resource_cache.cpp:25`) may log (`ecs_serializer.cpp:313`, `:328`) after the shutdown
  of the log has reset `g_asyncQueues` (`log_module.cpp:130`), because `g_isAsync` stays
  true: the assertion of `unique_ptr::operator->` (`unique_ptr.hpp:167`) fails, and without
  assertions a null pointer is dereferenced (`UseFreedQueues`).
- Frames: downloads of a frame that was not submitted keep the number 0 and are settled
  with bytes nobody wrote; they stay on `bufferDownloads` and are staged again. Without
  space in the ring a download has no promise, and `set_value` asserts. Retained
  textures start each frame as undefined (`frame_graph.cpp:812`).
- Assets: an asset that is removed and added again while it is reimported fails an
  assertion (`asset_registry.cpp:1422`).
- Entities: a lookup ignores the generation of a handle. `.notified()` with the id just
  incremented visits nothing (`mesh_system.cpp:282`). A notified entity moved into a hole
  is in a chunk that is not visited (`entity_registry.cpp:714`).
- Frame graph: `disconnect` never removes the edge between nodes (`frame_graph.cpp:283`);
  `destroy_retained_texture` leaves its entry among the transients of the frame (`:1298`,
  `:817`); a submit that fails skips `finish_frame`; `try_get_output` uses the reference
  of the last build (`:1119`); `hasPathToOutput` tests the state of a pin and not of its
  node (`:1493`, against the comment at `:1476`).
- Engine: with one worker, imports starve behind the flush job; a wait of the main thread
  before a worker took the flush job captures it (`job_manager.cpp:432`); messages that
  are queued when the flush job stops are dropped; a load that waits for itself
  (`res_self_wait`) keeps its worker, and the join of the shutdown does not return; the terminator of a message of full length is written
  one past its buffer (`:65`); services of modules that were shut down stay listed
  (`module_manager.cpp:315`).

## 5. The proofs

TLAPS proves the theorems below for every value of the constants, under the
assumptions each module names on them (finite sets, distinct null values, at least
two threads, chunks and rings that are not empty, pins that are not the null id).

| module | theorems |
|---|---|
| `JobManagerProofs` | `Inductive`, `TypeCorrect`, `NeverUsedAfterFree`, `DestroyedLast`, `WaitIsSound`; with `OwnedPushes`: `CountedExactly`, `ChildlessGo`; `Refinement`: the job manager implements `ForkJoin` |
| `ResourceLoadProofs` | `ResourceInductive`, `ResourceTypes`, `CountedExactly`, `NeverUsedAfterDelete`, `LoadStartsOnce`, `LoadedHasData`, `JobIsReaped`, `StaleAreInvalidated`, `LoadSyncIsSound` |
| `RendererFramesProofs` | `AlwaysAccounted`, `BytesAccounted`, `ObjectsOutliveUse`, `DownloadsHeld`; as long as `FenceIsIdle`: `AlwaysInTime`, `BytesIntact`, `ReleasesFollowUse`, `DownloadsFollowWrites` |
| `AssetRegistryProofs` | `Inductive`, `PathsExist`, `ArtifactsOfEntries`, `NoneStuckInProcessing`, `ViewLeads`, `ResourcesInStep`, `KeepsUp`, `DiskMirrored` |
| `EntityRegistryProofs` | `Inductive`, `EntitiesFound`, `OneOwner`, `NotificationsSeen`; with `~OverreadMatches`: `ComponentsConstructed` and `Refinement`, the registry implements `EntityStore` |
| `PassBarriersProofs` | `BarriersHold`, `NoHazard`, `StableBuffersKept` |
| `EngineLifetimeProofs` | `Inductive`, `ModulesNest`, `MessagesStayIntact`, `QueuesOutlive` |

The job manager. "Nothing is used after it is freed" is not inductive: the
counters must be tied to who is counted. `CountInv` says that `unfinishedJobs` is
the number of jobs that still owe a decrement to it; `RefInv` that
`references` covers the owners, the threads about to give one back, and one more
for as long as some counted job is in the tree. `QueueInv`, `StackInv`,
`FrameInv`, `HolderInv`, `LineageInv`, `OwesInv`, `FinishInv` and `PushInv` say
where a job can be, and what a walk over ancestors has already done: they carry
the two counting invariants over the steps between the increments. From `RefInv`
a job in use has a reference left, hence is not freed; from `CountInv` a counter
at zero means that the whole tree has executed, which gives `WaitSound` and the
steps of the refinement (`Allocate` is `Submit`, a dequeue is `Start`, the exit
of the waiting loop is `Grant`, a decrement to -1 is `Destroy`, and the rest
stutters). `RefInv` is an inequality, as jobs with children keep references too many.
For those without, `ExactInv` makes it an equality: the owners, the thread about to
give one back, and one while the job owes itself. It needs that what a new job is
counted by has a child (`ChildInv`), and that every push hands out the reference it
allocates: `OwnedPushes` excludes the two overloads that take a `job_fn`, which
no client in the repository calls (section 4).

Resources. `CounterExact` ties the counter to `owners`; `UnbornInv` to
`ReapedInv` say who owns what at each point of a call, of a load and of an
update. A last release then finds no other owner, so that whoever deletes is
alone; the exchange of the load state leaves one starter; the entry is
invalidated before it changes hands. `LoadedHasData` (a resource reported as
loaded has its data for as long as somebody owns it) is proved and not checked
by a run.

Frames. The invariant has two parts. `Accounted` holds whatever the device does
and whatever submits fail: the bytes in use are those of the submits that are
remembered and those pending (`RingAccounted`), an object waits for a submit no
earlier than its last use (`DisposalInv`), a pool is retired with one no earlier
than its last use (`PoolsInv`; while a frame is recorded, with the number its submit
will have). As `lastFinished` is never ahead of the device, objects are destroyed in
time. `InTime` needs `[]FenceIsIdle`: without it a fence that was given to a second
submit is reset under the first, what it signals is taken for the other submit,
and `lastFinished` may run ahead. The code does not ensure that (section 3), so it
is a hypothesis of these theorems, which no constant decides; `gpu_frames` checks
it on its instance, where the hypothesis is true of every behaviour. Under it `FencesInv` says that
each submit in flight has its fence for itself and that it is not signaled, and
`CopiesInv` that a byte which is still to be copied lies among those in use, after
those of the submits before its own (`Held`, by how far it is `Behind` the first
unused byte): so the bytes that `stage` hands out are copied. The sums over the
list of submits are a recursive function, `Sums`; its facts are proved by a set of
indices where they fail, which would have a least element (`Induction`). The downloads
use a ring of the same kind: `DownloadsInv` (`Laid`) says that no two of those that
wait have a cell in common, that the cells of one are held until the submits of all
before it have finished, and that those which were staged again for the next frame lie
in what is pending. So no ring lets go of bytes that a download still needs, whatever
submits fail (`DownloadsHeld`), and as long as the fences are right the device has
written them when they are read (`DownloadsFollowWrites`).

Assets. `ArtifactsOnDisk`, `MapFollowsEntries` and `BusyIsImported` are inductive
together, with the types and `ProcessesKept`: the process an `.oproc` names is on
disk and of that asset, and so is the one a finalize has just written. That last
part is what a crash between two writes of `finalize` needs, and what lets
garbage collection at the next start keep what entries will name.

How the resource registry follows is `ViewInv`: the events of the provider that are not
read yet lead from what it believes to the map of artifacts (`Leads`), an artifact is
added when it is not there and removed or updated when it is, over any number of
events; without events left the two are equal, which is `ResourcesFollow`. How the
registry mirrors the disk is `MirrorInv`, an invariant about every sequence of events
not handled yet. At a path that is not raced they alternate between coming and going and lead from
what the registry knows to what is there (`Flips`); an asset whose places are not raced
is where the registry has it, or an event about that is pending (`Follows`); a rename that
races nothing is the only thing under way (`RenameInv`). `BirthInv` says that an asset which is
imported for the first time is nowhere yet, so that a reimport and a first import never
meet. The proof needed `raced` to be a set of paths: with assets in their place
`MirrorsDisk` is false after three changes by users, as a copy makes two paths hard to
tell apart.

Entities. `RegistryOK` says that `m_entities` and the ids in the slots are inverse
to each other (`EntityLocated`, `SlotLocated`), and that each archetype has objects
exactly below its count (`ArchetypeOK`). A call goes through registries that are
not between calls (a slot is created and not filled, an entity is moved and its hole is
not filled yet), so the parts are predicates of a registry, and of an archetype
with one hole (`ArchetypeBut`). Lemmas say, for each operation
(reserve, create, move, pop, destroy, notify), what it keeps of them. `OwnedOnce` is
about the pool of handles, `TouchedInv` about modification ids, `CommandsOK` about the
deferred commands: they name entities that will exist when they are applied.
Each call is described twice, by what it does to the
invariant and by what it does to the stored values, and the second maps it to a step
of `EntityStore`. `OverreadMatches` is the finding `entity_overread`: where the word
after the types matches, objects are corrupt and neither `ConstructedExactly` nor the
refinement holds, while the other theorems do (`Spoiled` is what the invariant
then admits).

Barriers. `BarriersInv` has what is known of a frame that is built (`BuildInv`: usages
come in the order of their passes, a pass uses a resource once, an upload is the first
use of a resource), of the pool (`PoolInv`: it has the stable buffers of one frame), and
of the device between frames (`DeviceInv`: what the pool has stored of a buffer covers
each access to it that a later one may have to wait for, `Covered`). What a frame
computes is proved first, by induction over its usages: barriers are only added or
joined, a barrier that no resource waits for any more is final (`Grows`, `Unused`), so
that the barrier of each usage continues the last one of its resource as that one will
be at the end (`UsageWaits`). Then the device: after m usages every access is behind the
first barrier of its resource, or the last one is for it (`Joined`, `ResourceOK`), which
`PassStep` carries over a pass and `FrameOK` over a frame. The barriers of one pass are
applied as one to all buffers, which only adds to what they order (`CoveredStill`,
`JoinedStill`). At the end of the frame `Joined` gives `Covered` for what
`store_buffer_tracking` keeps.

Engine. `ModulesInv`: the stack holds the modules that are starting, load
order is strict and follows what startups obtained, and `finalize` and `shutdown`
have a prefix of it behind them. `LogInv`: a buffer is in one place (`OwnedInv`), and
the messages of a thread are numbered through from the sunk ones over the batch and
its queue to the one being written (`NumberInv`). `JobInv` keeps the two apart: a
job is in one place, only the flush job and loads are left when modules shut down
(`WaitInv`), whoever is in `sink_it` is the main thread outside its waits or a job
that logs (`WritingInv`), and the queues are freed after the flush job has ended
(`FreedInv`). So whoever may still use freed queues is a worker with a load
(`QueuesOutlive`), and not nobody: that would be false (section 4).

Checked by TLC and not proved:

- liveness under fairness, which is out of the prover's reach;
- `FenceIsIdle`, which is false for other constants (section 3);
- the frame graph (`RunsContributors`, `RefsFollowEdges`, `StorageAccounted`): its depth
  first search and what it marks are recursive operators over a graph, which the prover
  does not reason about.

## 6. Not modelled

Weak memory orders (the models are sequentially consistent: a `release` decrement
without an acquire, `resource_ptr.cpp:27`, shows in none of them), the storage of
callables, the contents of data, Vulkan itself, image transitions, and the components
`PROJECT.json` lists as not modelled, each with its reason: sequential code without a
protocol (parallel loops, the systems graph, subscribers, the resource cache), the
recording of GPU work from data (passes, meshes, draws), user interface, data
formats and compilers.

## 7. Plan

1. Done: the modules above, their runs, and the proofs of section 5.
2. Proofs that are left: the storages of the frame graph (`StorageAccounted`), which do
   not depend on the order of nodes; they need the depth first search as a recursive
   function, and assumptions on templates and links (no cycles).
3. `FenceIsIdle` under a bound on the submits of a frame.
