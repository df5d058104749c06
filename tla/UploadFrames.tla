----------------------------- MODULE UploadFrames -----------------------------
(***************************************************************************)
(* A frame of the renderer, from acquire_images to present, with the       *)
(* uploads made during it: upload_buffers stages data in its ring, and     *)
(* submits what it has staged when the ring is full and at the end of the  *)
(* frame.  The main thread runs alone, against the device.                 *)
(***************************************************************************)
EXTENDS TrackedQueue, StagingRing

CONSTANTS
  Images,       \* g_SwapchainImages
  Align,        \* the alignment of images in the staging buffer
  Sizes,        \* the sizes of the uploads of buffers and of further levels
  ImageSizes,   \* the sizes of the first levels of images
  MaxSubmit,    \* bound: submits of an instance
  MaxFailures   \* bound: vkQueueSubmit calls that fail

ASSUME ImagesAssumption == Images \in Nat \ {0}
ASSUME AlignAssumption == Align \in Nat \ {0}
ASSUME SizesAssumption == Sizes \cup ImageSizes \subseteq Nat \ {0}
ASSUME BoundsAssumption == MaxSubmit \in Nat /\ MaxFailures \in Nat

VARIABLES
  pc,           \* where the main thread is
  after,        \* where it goes on after a flush or a begin
  executing,    \* execute has submitted the uploads, the frame graph is built
  request,      \* what stage_memory has to stage, inside its slow path
  queued,       \* m_immediateUploads or m_imageUploads is not empty
  semaphoreIndex,
  presentDone,  \* presentDoneSubmitIndex
  failures,     \* submits that failed
  copying,      \* ghost: the submit that copies each byte of the staging buffer,
                \* until it has finished: 0 before it is made, and NoSubmit for
                \* bytes that are not to be copied
  overwritten   \* ghost: a byte was handed out that was to be copied

callVars == <<after, executing, request>>
copyVars == <<copying, overwritten>>
frameVars == <<pc, callVars, queued, semaphoreIndex, presentDone, failures, copyVars>>
vars == <<queueVars, stagingVars, frameVars>>

\* A buffer upload is queued once it is staged, and so are the levels of an
\* image but the first: the image is queued before its data is staged.
Request == [kind : {"buffer", "level"}, size : Sizes] \cup
           [kind : {"image"}, size : ImageSizes]
NoRequest == [kind |-> "none", size |-> 0]
NoSubmit == -1
Alignment(q) == IF q.kind = "buffer" THEN 1 ELSE Align

Init ==
  /\ QueueInit /\ StagingInit
  /\ pc = "idle" /\ after = "frame"
  /\ executing = FALSE
  /\ request = NoRequest
  /\ queued = FALSE
  /\ semaphoreIndex = 0
  /\ presentDone = [i \in 0..(Images - 1) |-> 0]
  /\ failures = 0
  /\ copying = [c \in 0..(Size - 1) |-> NoSubmit]
  /\ overwritten = FALSE

\* Mutant: a new frame does not wait for the one that used its semaphores.
Acquire_NoWait ==
  /\ pc = "idle"
  /\ \/ pc' = "idle"
     \/ submitIndex + 2 <= MaxSubmit /\ pc' = "begin"
  /\ UNCHANGED <<queueVars, stagingVars, callVars, queued, semaphoreIndex,
                 presentDone, failures, copyVars>>

\* acquire_images waits for the frame presented Images frames ago; it returns
\* false when no swapchain has an image.
Acquire ==
  /\ pc = "idle"
  /\ AwaitSubmit(presentDone[semaphoreIndex])
  /\ \/ pc' = "idle"
     \/ submitIndex + 2 <= MaxSubmit /\ pc' = "begin"
  /\ UNCHANGED <<submitIndex, signaled, begun, nextFrame, toDispose, destroyed,
                 lastUse, timeline, stagingVars, callVars, queued,
                 semaphoreIndex, presentDone, failures, copyVars>>

Begin ==
  /\ pc = "begin"
  /\ BeginSubmit
  /\ pc' = after
  /\ after' = "frame"
  /\ UNCHANGED <<stagingVars, executing, request, queued, semaphoreIndex,
                 presentDone, failures, copyVars>>

\* destroy_next_frame is called while a frame is recorded.
Doom(o) ==
  /\ pc = "frame"
  /\ DestroyNextFrame(o)
  /\ UNCHANGED <<submitIndex, lastFinished, signaled, begun, toDispose,
                 destroyed, lastUse, timeline, stagingVars, frameVars>>

\* The data of q is in the ring, the copy is on the list of uploads.
Queue(r, q) ==
  /\ Stage(r, q.size, Alignment(q))
  /\ LET cells == StagedCells(r, q.size, Alignment(q)) IN
     /\ copying' = [c \in DOMAIN copying |-> IF c \in cells THEN 0 ELSE copying[c]]
     /\ overwritten' = (overwritten \/ \E c \in cells : copying[c] # NoSubmit)
  /\ queued' = TRUE

\* upload: the first attempt of stage_memory, without looking at what the
\* device has finished.
Upload(q) ==
  /\ pc = "frame" /\ submitIndex + 3 <= MaxSubmit
  /\ IF CanStage(ring, q.size, Alignment(q))
     THEN /\ Queue(ring, q)
          /\ UNCHANGED <<pc, after, request>>
     ELSE /\ queued' = (queued \/ q.kind = "image")
          /\ pc' = IF queued' THEN "flush" ELSE "retry"
          /\ after' = IF queued' THEN "retry" ELSE after
          /\ request' = q
          /\ UNCHANGED <<ring, pending, copyVars>>
  /\ UNCHANGED <<queueVars, submitted, executing, semaphoreIndex, presentDone,
                 failures>>

\* submit_uploads: the lists are cleared while the commands are recorded.
Flush ==
  /\ pc = "flush"
  /\ queued' = FALSE
  /\ EndSubmit
  /\ TakePending(submitIndex)
  /\ copying' = [c \in DOMAIN copying |-> IF copying[c] = 0 THEN submitIndex ELSE copying[c]]
  /\ pc' = "begin"
  /\ UNCHANGED <<lastFinished, signaled, nextFrame, toDispose, destroyed,
                 lastUse, timeline, ring, callVars, overwritten,
                 semaphoreIndex, presentDone, failures>>

\* It fails before it has recorded anything, or the copies it has recorded are
\* lost because vkQueueSubmit fails; the bytes stay pending.
FlushFails ==
  /\ pc = "flush" /\ failures < MaxFailures
  /\ \/ UNCHANGED <<queued, copying>>
     \/ /\ queued' = FALSE
        /\ copying' = [c \in DOMAIN copying |->
                         IF copying[c] = 0 THEN NoSubmit ELSE copying[c]]
  /\ failures' = failures + 1
  /\ pc' = after
  /\ after' = "frame"
  /\ UNCHANGED <<queueVars, stagingVars, executing, request, overwritten, semaphoreIndex,
                 presentDone>>

\* Mutant: the loop looks at the ring without notifying it.
Retry_NotNotified ==
  /\ pc = "retry"
  /\ IF CanStage(ring, request.size, Alignment(request))
     THEN /\ Queue(ring, request)
          /\ pc' = "frame"
     ELSE /\ pc' = IF submitted # <<>> THEN "wait" ELSE "frame"
          /\ UNCHANGED <<ring, pending, queued, copyVars>>
  /\ request' = IF pc' = "frame" THEN NoRequest ELSE request
  /\ UNCHANGED <<queueVars, submitted, after, executing, semaphoreIndex, presentDone,
                 failures>>

\* The loop of stage_memory: out of memory when nothing is left to wait for.
Retry ==
  /\ pc = "retry"
  /\ submitted' = Unfinished(lastFinished)
  /\ IF CanStage(Freed(lastFinished), request.size, Alignment(request))
     THEN /\ Queue(Freed(lastFinished), request)
          /\ pc' = "frame"
     ELSE /\ ring' = Freed(lastFinished)
          /\ pc' = IF submitted' # <<>> THEN "wait" ELSE "frame"
          /\ UNCHANGED <<pending, queued, copyVars>>
  /\ request' = IF pc' = "frame" THEN NoRequest ELSE request
  /\ UNCHANGED <<queueVars, after, executing, semaphoreIndex, presentDone,
                 failures>>

\* wait_for_submit_completion(get_first_pending_submit())
Wait ==
  /\ pc = "wait"
  /\ AwaitSubmit(Head(submitted).timelineId)
  /\ pc' = "retry"
  /\ UNCHANGED <<submitIndex, signaled, begun, nextFrame, toDispose, destroyed,
                 lastUse, timeline, stagingVars, callVars, queued,
                 semaphoreIndex, presentDone, failures, copyVars>>

\* renderer::execute submits the uploads before it builds the frame graph; what
\* that uploads waits for the next frame, unless it has to make space.
Execute ==
  /\ pc = "frame" /\ ~executing
  /\ executing' = TRUE
  /\ pc' = IF queued THEN "flush" ELSE "frame"
  /\ UNCHANGED <<queueVars, stagingVars, after, request, queued, semaphoreIndex,
                 presentDone, failures, copyVars>>

\* The end of present: end_frame defers the objects to the number of the next
\* submit, and another set of semaphores is used.
EndFrame(k) ==
  /\ toDispose' = Deferred(k)
  /\ nextFrame' = <<>>
  /\ semaphoreIndex' = (semaphoreIndex + 1) % Images
  /\ executing' = FALSE
  /\ pc' = "idle"

\* present: the submit of the frame is the last one before the next begin_frame.
Present ==
  /\ pc = "frame" /\ executing
  /\ EndSubmit
  /\ presentDone' = [presentDone EXCEPT ![semaphoreIndex] = submitIndex]
  /\ lastUse' = [o \in Object |->
                   IF o \in UsedByFrame THEN submitIndex ELSE lastUse[o]]
  /\ EndFrame(submitIndex')
  /\ UNCHANGED <<lastFinished, signaled, destroyed, timeline, stagingVars,
                 after, request, queued, failures, copyVars>>

\* The submit fails; the frame ends all the same.
PresentFails ==
  /\ pc = "frame" /\ executing /\ failures < MaxFailures
  /\ failures' = failures + 1
  /\ EndFrame(submitIndex)
  /\ UNCHANGED <<submitIndex, lastFinished, signaled, begun, destroyed,
                 lastUse, timeline, stagingVars, after, request, queued,
                 presentDone, copyVars>>

\* After wait_gpu_idle, shutdown_tracked_queue_context disposes of everything.
Shutdown ==
  /\ pc = "idle" /\ InFlight = {}
  /\ pc' = "down"
  /\ nextFrame' = <<>>
  /\ toDispose' = <<>>
  /\ destroyed' = destroyed \cup {d.object : d \in Range(Deferred(submitIndex))}
  /\ UNCHANGED <<submitIndex, lastFinished, signaled, begun, lastUse, timeline,
                 stagingVars, callVars, queued, semaphoreIndex,
                 presentDone, failures, copyVars>>

Down == pc = "down" /\ UNCHANGED vars

\* The device finishes a submit, and its copies with it.
Device ==
  /\ Finish
  /\ copying' = [c \in DOMAIN copying |->
                   IF copying[c] \in 1..timeline' THEN NoSubmit ELSE copying[c]]
  /\ UNCHANGED <<stagingVars, pc, callVars, overwritten, queued, semaphoreIndex,
                 presentDone, failures>>

\* What the main thread does inside a call it has made.
Call == Begin \/ Flush \/ FlushFails \/ Retry \/ Wait \/ Present \/ PresentFails

Next ==
  \/ Acquire \/ Execute \/ Shutdown \/ Down
  \/ \E q \in Request : Upload(q)
  \/ \E o \in Object : Doom(o)
  \/ Call
  \/ Device

Spec == Init /\ [][Next]_vars

\* The device finishes what it was given, and a call goes on.
FairSpec == Spec /\ WF_vars(Device) /\ WF_vars(Call)

-----------------------------------------------------------------------------
(* What must hold. *)

PCs == {"idle", "begin", "frame", "flush", "retry", "wait", "down"}

\* The type of every variable; lastFinished never runs ahead of the device.
TypeOK ==
  /\ submitIndex \in Nat \ {0}
  /\ timeline \in 0..(submitIndex - 1)
  /\ lastFinished \in 0..timeline
  /\ signaled \subseteq 0..(Slots - 1)
  /\ begun \in BOOLEAN
  /\ nextFrame \in Seq(Object)
  /\ toDispose \in Seq([object : Object, submit : Nat])
  /\ destroyed \subseteq Object
  /\ lastUse \in [Object -> Nat]
  /\ ring \in [first : 0..(Size - 1), used : 0..Size]
  /\ pending \in 0..Size
  /\ submitted \in Seq([timelineId : Nat, size : 1..Size])
  /\ pc \in PCs
  /\ after \in {"frame", "retry"}
  /\ executing \in BOOLEAN
  /\ request \in Request \cup {NoRequest}
  /\ queued \in BOOLEAN
  /\ semaphoreIndex \in 0..(Images - 1)
  /\ presentDone \in [0..(Images - 1) -> Nat]
  /\ failures \in 0..MaxFailures
  /\ copying \in [0..(Size - 1) -> {NoSubmit} \cup Nat]
  /\ overwritten \in BOOLEAN

\* The fence that the next submit will signal is not the fence of a submit the
\* device has not finished: it was reset, and would be signaled twice.
FenceIsIdle == begun => InFlightOn(Slot(submitIndex)) = {}

\* No byte of the staging buffer is handed out again before the submit that
\* copies it has finished.
StagedIntact == ~overwritten

\* The assertion of end_submit at every step: the bytes used in the ring are
\* those of the submits it remembers and those that are pending.
RingAccounted == ring.used = Total(submitted) + pending

\* An object is destroyed after the last submit that uses it has finished.
DestroyedAfterUse == \A o \in destroyed : lastUse[o] <= timeline

\* stage_memory and the waits it makes return.
StageReturns == pc \in {"flush", "retry", "wait"} ~> pc \in {"frame", "idle"}
=============================================================================
