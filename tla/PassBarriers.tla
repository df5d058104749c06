------------------------------ MODULE PassBarriers ------------------------------
(* The buffers of the frame graph on the GPU: while a frame is built, passes    *)
(* name the buffers they use (renderer/graph/frame_graph_context.cpp); the      *)
(* resource pool gives a stable buffer back to the pin that had it in the last  *)
(* frame (resource_pool.cpp); and before the passes run, the frame graph        *)
(* computes the barriers that each of them waits for (frame_graph.cpp:48).      *)
EXTENDS Integers, Sequences

CONSTANTS
  Pin,          \* pin storages
  StablePin,    \* those whose buffer is created as a stable one
  ShaderStage,  \* compute, graphics and raytracing
  MaxUsages,    \* bound on the usages of all frames
  MaxFrames

Stage == ShaderStage \cup {"transfer"}
PassKind == Stage \cup {"none"}

NoId == "none"

ASSUME PassBarriersAssumption == StablePin \subseteq Pin /\ NoId \notin Pin

VARIABLES
  passes,           \* kinds, in order
  bufferUsages,     \* [pass, pin, access, uploadedTo], in order
  resources,        \* m_bufferResources: [stableId, usage, buffer, framesAlive]
  transientBuffer,  \* pin |-> index of its resource, or 0
  stableBuffers,    \* m_stableBuffers: key |-> [buffer, creationTime, lastUsedTime,
                    \*   previousStages, previousAccess]
  m_frame,
  phase,            \* "build", "built" or "idle"
  device,           \* [log, raced]: see Access
  history           \* [usages, last]: how many so far; and the keys of the last frame

vars == <<passes, bufferUsages, resources, transientBuffer, stableBuffers, m_frame, phase,
          device, history>>

Init ==
  /\ passes = << >> /\ bufferUsages = << >> /\ resources = << >>
  /\ transientBuffer = [p \in Pin |-> 0]
  /\ stableBuffers = [k \in {} |-> 0]
  /\ m_frame = 0 /\ phase = "idle"
  /\ device = [log |-> [b \in {} |-> {}], raced |-> FALSE]
  /\ history = [usages |-> 0, last |-> {}]

----------------------------------------------------------------------------
(* frame_graph::build *)

begin_build ==
  /\ phase = "idle" /\ m_frame < MaxFrames
  /\ m_frame' = m_frame + 1
  /\ phase' = "build"
  /\ UNCHANGED <<passes, bufferUsages, resources, transientBuffer, stableBuffers, device, history>>

(* A pass that uses no buffer is of no consequence. *)
begin_pass(kind) ==
  /\ phase = "build" /\ history.usages < MaxUsages
  /\ Len(passes) > 0 => \E k \in DOMAIN bufferUsages : bufferUsages[k].pass = Len(passes)
  /\ passes' = Append(passes, kind)
  /\ UNCHANGED <<bufferUsages, resources, transientBuffer, stableBuffers, m_frame, phase, device,
                 history>>

BufferAccess == {"storage_read", "storage_write", "storage_upload", "download"}

(* convert_buffer_usage and convert_for_sync2. *)
UsageOf(access) == IF access = "download" THEN "transfer_source" ELSE "storage"
AccessesOf(access) ==
  CASE access = "storage_write" -> {"any_read", "any_write"}
    [] access = "storage_upload" -> {"any_write"}
    [] OTHER -> {"any_read"}
IsRead(access) == "any_write" \notin AccessesOf(access)
StagesOf(kind) == {kind} \ {"none"}

(* Transfer passes upload and download, other ones do not. *)
AddUsage(pin, access, uploadedTo) ==
  /\ phase = "build" /\ passes # << >>
  /\ history.usages < MaxUsages
  /\ access \in {"storage_upload", "download"} <=> passes[Len(passes)] = "transfer"
  /\ bufferUsages' = Append(bufferUsages, [pass |-> Len(passes), pin |-> pin, access |-> access,
                                           uploadedTo |-> uploadedTo])
  /\ history' = [history EXCEPT !.usages = @ + 1]
  /\ UNCHANGED <<passes, stableBuffers, m_frame, phase, device>>

(* The pin of a stable buffer is its id; data is uploaded to others only. *)
create(pin, access, upload) ==
  /\ transientBuffer[pin] = 0
  /\ upload => pin \notin StablePin
  /\ resources' = Append(resources,
       [stableId |-> IF pin \in StablePin THEN pin ELSE NoId,
        usage |-> {UsageOf(access)} \cup (IF upload THEN {"transfer_destination"} ELSE {}),
        buffer |-> << >>, framesAlive |-> 0])
  /\ transientBuffer' = [transientBuffer EXCEPT ![pin] = Len(resources) + 1]
  /\ AddUsage(pin, access, upload)

(* A pass names a buffer once. *)
acquire(pin, access) ==
  /\ transientBuffer[pin] # 0
  /\ \A k \in DOMAIN bufferUsages :
       bufferUsages[k].pass = Len(passes) => transientBuffer[bufferUsages[k].pin] # transientBuffer[pin]
  /\ resources' = [resources EXCEPT ![transientBuffer[pin]].usage = @ \cup {UsageOf(access)}]
  /\ UNCHANGED transientBuffer
  /\ AddUsage(pin, access, FALSE)

reroute(source, destination) ==
  /\ phase = "build" /\ history.usages < MaxUsages
  /\ transientBuffer[source] # 0 /\ transientBuffer[destination] = 0
  /\ transientBuffer' = [transientBuffer EXCEPT ![destination] = transientBuffer[source]]
  /\ UNCHANGED <<passes, bufferUsages, resources, stableBuffers, m_frame, phase, device, history>>

Key(r) == <<r.stableId, r.usage>>
is_stable(r) == r.stableId # NoId
StableKeys == {Key(resources[i]) : i \in {j \in DOMAIN resources : is_stable(resources[j])}}

(* The entry of a key that a resource of the frame has.  A buffer is named for  *)
(* its key and the frame it was created in.                                     *)
acquire_from_pool(k) ==
  IF k \in DOMAIN stableBuffers THEN [stableBuffers[k] EXCEPT !.lastUsedTime = m_frame]
  ELSE [buffer |-> <<"stable", k, m_frame>>, creationTime |-> m_frame, lastUsedTime |-> m_frame,
        previousStages |-> {}, previousAccess |-> {}]

FramesBeforeDeletingStableResources == 1

\* Mutant: one frame late.
free_stable_buffers_Late(pool) ==
  [k \in {l \in DOMAIN pool :
            m_frame - pool[l].lastUsedTime <= FramesBeforeDeletingStableResources} |-> pool[k]]

free_stable_buffers(pool) ==
  [k \in {l \in DOMAIN pool :
            m_frame - pool[l].lastUsedTime < FramesBeforeDeletingStableResources} |-> pool[k]]

end_build ==
  /\ phase = "build"
  /\ LET pool == [k \in DOMAIN stableBuffers \cup StableKeys |->
                    IF k \in StableKeys THEN acquire_from_pool(k) ELSE stableBuffers[k]]
     IN  /\ resources' = [i \in DOMAIN resources |->
              IF is_stable(resources[i])
              THEN [resources[i] EXCEPT
                      !.buffer = pool[Key(resources[i])].buffer,
                      !.framesAlive = m_frame - pool[Key(resources[i])].creationTime]
              ELSE [resources[i] EXCEPT !.buffer = <<"frame", i>>]]
         /\ stableBuffers' = free_stable_buffers(pool)
  /\ phase' = "built"
  /\ UNCHANGED <<passes, bufferUsages, transientBuffer, m_frame, device, history>>

----------------------------------------------------------------------------
(* frame_graph::execute: the barriers *)

Barrier(S1, A1, S2, A2) ==
  [previousPipelines |-> S1, previousAccesses |-> A1, nextPipelines |-> S2, nextAccesses |-> A2]

ResourceOf(u) == transientBuffer[u.pin]
BufferOf(u) == resources[ResourceOf(u)].buffer

(* What is known of resource r before its first usage: of a stable one, what    *)
(* the last frame stored.  barrier |-> the last one, or 0.                      *)
fetch_buffer_tracking(r) ==
  LET stored == stableBuffers[Key(resources[r])]
  IN  [previousStages |-> IF is_stable(resources[r]) THEN stored.previousStages ELSE {},
       previousAccess |-> IF is_stable(resources[r]) THEN stored.previousAccess ELSE {},
       barrier |-> 0, isRead |-> FALSE]

TrackingOf(st, u) ==
  IF u.uploadedTo THEN [st.tracking[ResourceOf(u)] EXCEPT !.previousStages = {"transfer"},
                                                          !.previousAccess = {"any_write"}]
  ELSE st.tracking[ResourceOf(u)]

(* The barrier that u waits for, of a resource that t is known of. *)
NewBarrier(st, t, u) ==
  IF t.barrier = 0
  THEN Barrier(t.previousStages, t.previousAccess, StagesOf(passes[u.pass]), AccessesOf(u.access))
  ELSE Barrier(st.barriers[t.barrier].nextPipelines, st.barriers[t.barrier].nextAccesses,
               StagesOf(passes[u.pass]), AccessesOf(u.access))

Forward(st, t, u) == [st EXCEPT !.tracking[ResourceOf(u)] = t]

Join(st, t, u) ==
  [st EXCEPT !.barriers[t.barrier].nextPipelines = @ \cup StagesOf(passes[u.pass]),
             !.barriers[t.barrier].nextAccesses = @ \cup AccessesOf(u.access)]

AddBarrier(st, t, u) ==
  [tracking |-> [st.tracking EXCEPT
                   ![ResourceOf(u)] = [t EXCEPT !.barrier = Len(st.barriers) + 1,
                                                !.isRead = IsRead(u.access)]],
   barriers |-> Append(st.barriers, NewBarrier(st, t, u)),
   pass |-> Append(st.pass, u.pass)]

\* Mutant: a read joins the last barrier.
TrackUsage_ReadJoins(st, u) ==
  LET t == TrackingOf(st, u)
  IN  IF StagesOf(passes[u.pass]) = {} THEN Forward(st, t, u)
      ELSE IF IsRead(u.access) /\ t.barrier # 0 THEN Join(st, t, u)
      ELSE AddBarrier(st, t, u)

(* A read joins the last barrier when that one is for reads too. *)
TrackUsage(st, u) ==
  LET t == TrackingOf(st, u)
  IN  IF StagesOf(passes[u.pass]) = {} THEN Forward(st, t, u)
      ELSE IF IsRead(u.access) /\ t.barrier # 0 /\ t.isRead THEN Join(st, t, u)
      ELSE AddBarrier(st, t, u)

(* After the first k usages; pass |-> the pass that waits for each barrier. *)
Tracked[k \in 0..Len(bufferUsages)] ==
  IF k = 0 THEN [tracking |-> [r \in DOMAIN resources |-> fetch_buffer_tracking(r)],
                 barriers |-> << >>, pass |-> << >>]
  ELSE TrackUsage(Tracked[k - 1], bufferUsages[k])

build_pass_barriers == Tracked[Len(bufferUsages)]

(* store_buffer_tracking, for the stable buffers that got a barrier. *)
StoreTracking(st) ==
  [k \in DOMAIN stableBuffers |->
     LET r == {i \in DOMAIN resources : is_stable(resources[i]) /\ Key(resources[i]) = k
                                          /\ st.tracking[i].barrier # 0}
     IN  IF r = {} THEN stableBuffers[k]
         ELSE LET b == st.barriers[st.tracking[CHOOSE i \in r : TRUE].barrier]
              IN  [stableBuffers[k] EXCEPT !.previousStages = b.nextPipelines,
                                           !.previousAccess = b.nextAccesses]]

----------------------------------------------------------------------------
(* The device, as Vulkan defines it.  The log of a buffer has the accesses that *)
(* later ones may have to wait for: after |-> the stages at which commands come *)
(* after it, available |-> whether what it wrote is, visible |-> the stages and *)
(* accesses that see it.                                                        *)

Ordered(x, b) == b.previousPipelines \cap ({x.stage} \cup x.after) # {}
Available(x, b) ==
  x.available \/ (x.stage \in b.previousPipelines /\ "any_write" \in b.previousAccesses)
Seen(x, b) ==
  [stage |-> x.stage, writes |-> x.writes,
   after |-> IF Ordered(x, b) THEN x.after \cup b.nextPipelines ELSE x.after,
   available |-> Available(x, b),
   visible |-> IF Ordered(x, b) /\ Available(x, b)
               THEN x.visible \cup (b.nextPipelines \X b.nextAccesses) ELSE x.visible]

(* A barrier of all buffers: cmd_apply_barriers makes one of all of a pass.     *)
Apply(d, b) ==
  [log |-> [buffer \in DOMAIN d.log |-> {Seen(x, b) : x \in d.log[buffer]}], raced |-> d.raced]

LogOf(d, buffer) == IF buffer \in DOMAIN d.log THEN d.log[buffer] ELSE {}

Safe(log, stage, accesses) ==
  \A x \in log :
    /\ x.writes \/ "any_write" \in accesses => stage \in x.after
    /\ x.writes => {stage} \X accesses \subseteq x.visible

Accessed(log, stage, accesses) ==
  {x \in log : "any_write" \notin accesses /\ (x.writes \/ x.stage # stage)}
    \cup {[stage |-> stage, writes |-> "any_write" \in accesses, after |-> {},
           available |-> FALSE, visible |-> {}]}

(* Commands of one stage; uses[b] |-> what they do with buffer b. *)
Access(d, stage, uses) ==
  [log |-> [b \in DOMAIN d.log \cup DOMAIN uses |->
              IF b \in DOMAIN uses THEN Accessed(LogOf(d, b), stage, uses[b]) ELSE d.log[b]],
   raced |-> d.raced \/ \E b \in DOMAIN uses : ~Safe(LogOf(d, b), stage, uses[b])]

UploadedTo == {k \in DOMAIN bufferUsages : bufferUsages[k].uploadedTo}

Uploads == [b \in {BufferOf(bufferUsages[k]) : k \in UploadedTo} |-> {"any_write"}]

UploadBarrier == Barrier({"transfer"}, {"any_write"}, Stage, {"any_read"})

flush_uploads(d) ==
  IF UploadedTo = {} THEN d
  ELSE LET before == Apply(d, Barrier(Stage, {"any_read", "any_write"}, {"transfer"}, {"any_write"}))
       IN  Apply(Access(before, "transfer", Uploads), UploadBarrier)

(* The barriers of a pass as one. *)
PassBarrier(pass, st) ==
  LET own == {k \in DOMAIN st.pass : st.pass[k] = pass}
  IN  Barrier(UNION {st.barriers[k].previousPipelines : k \in own},
              UNION {st.barriers[k].previousAccesses : k \in own},
              UNION {st.barriers[k].nextPipelines : k \in own},
              UNION {st.barriers[k].nextAccesses : k \in own})

UsagesOf(pass) == {k \in DOMAIN bufferUsages : bufferUsages[k].pass = pass /\ passes[pass] # "none"}

Uses(pass) ==
  [b \in {BufferOf(bufferUsages[k]) : k \in UsagesOf(pass)} |->
     UNION {AccessesOf(bufferUsages[k].access) :
              k \in {l \in UsagesOf(pass) : BufferOf(bufferUsages[l]) = b}}]

(* begin_pass_execution, and the commands of the pass. *)
RunPass(d, pass, st) == Access(Apply(d, PassBarrier(pass, st)), passes[pass], Uses(pass))

(* After the first passes. *)
Ran[pass \in 0..Len(passes)] ==
  IF pass = 0 THEN Apply(flush_uploads(device), UploadBarrier)
  ELSE RunPass(Ran[pass - 1], pass, build_pass_barriers)

(* The memory of other buffers may be that of any buffer of the next frame:     *)
(* their log ends with the frame.  What the next build clears goes now.         *)
execute ==
  /\ phase = "built"
  /\ LET done == Ran[Len(passes)]
         kept == {stableBuffers[k].buffer : k \in DOMAIN stableBuffers}
     IN  device' = [log |-> [b \in DOMAIN done.log \cap kept |-> done.log[b]], raced |-> done.raced]
  /\ stableBuffers' = StoreTracking(build_pass_barriers)
  /\ history' = [history EXCEPT !.last = StableKeys]
  /\ passes' = << >> /\ bufferUsages' = << >> /\ resources' = << >>
  /\ transientBuffer' = [p \in Pin |-> 0]
  /\ phase' = "idle"
  /\ UNCHANGED m_frame

Next ==
  \/ begin_build
  \/ \E kind \in PassKind : begin_pass(kind)
  \/ \E pin \in Pin, access \in BufferAccess, upload \in BOOLEAN : create(pin, access, upload)
  \/ \E pin \in Pin, access \in BufferAccess : acquire(pin, access)
  \/ \E source, destination \in Pin : reroute(source, destination)
  \/ end_build
  \/ execute

Spec == Init /\ [][Next]_vars

----------------------------------------------------------------------------
(* Properties *)

(* Whatever passes of whatever frames use a stable buffer, or passes of one     *)
(* frame another one, under whatever pins: a write waits for the accesses       *)
(* before it, and each access sees the writes before it (frame_graph.cpp:48).   *)
Synchronized == ~device.raced

(* Nodes clear a stable buffer in the frame that it is new in                   *)
(* (surfel_management.cpp:256): it is that one exactly when the last frame did  *)
(* not have the buffer of that pin for the same usages, and no other resource   *)
(* of the frame has the same buffer (resource_pool.cpp:488, 531).               *)
StableKept ==
  phase = "built" =>
    /\ \A i \in DOMAIN resources :
         is_stable(resources[i]) =>
           (resources[i].framesAlive # 0 <=> Key(resources[i]) \in history.last)
    /\ \A i, j \in DOMAIN resources : resources[i].buffer = resources[j].buffer => i = j
    /\ DOMAIN stableBuffers = StableKeys
=============================================================================
