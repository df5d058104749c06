---------------------------- MODULE RendererFrames ----------------------------
(***************************************************************************)
(* The frames of UploadFrames with what else the renderer gives to submits *)
(* and takes back: the pools of the command buffers of uploads and frames, *)
(* the pools of descriptor sets, and the downloads of the frame graph,     *)
(* which settle promises once the device has written their bytes.          *)
(*                                                                         *)
(* Every action is one of UploadFrames, with its effect on pools and       *)
(* downloads, but for OpenCommands and Record, parts of renderer::execute  *)
(* that UploadFrames leaves out.                                           *)
(***************************************************************************)
EXTENDS UploadFrames, RecycledPools

CONSTANTS
  DownloadRing,  \* g_downloadStagingSize
  DownloadSize,  \* the size of a download
  Loads,         \* what a frame may record: how many downloads, and whether
                 \* the sets it needs exhaust a pool
  MaxDownloads   \* bound: downloads a frame stages

ASSUME DownloadsAssumption ==
  DownloadRing \in Nat \ {0} /\ DownloadSize \in Nat \ {0} /\ MaxDownloads \in Nat
ASSUME LoadsAssumption == Loads \subseteq [downloads : Nat, exhausted : BOOLEAN]

VARIABLES
  phase,        \* how far execute is: "loop", "opened" or "recorded"
  uploadPools,  \* m_commandPools of upload_buffers
  framePools,   \* m_commandBufferPools of the renderer
  setPools,     \* one kind of m_perFrameSetPool
  earlyReset,   \* ghost: a pool was reset while the device needed it
  enqueued,     \* how many bufferDownloads there are
  downloads,    \* pendingDownloads
  dRing, dPending, dSubmitted,   \* downloadStaging
  earlyValue    \* ghost: a promise got its value before the bytes were written

poolVars == <<uploadPools, framePools, setPools, earlyReset>>
downloadVars == <<enqueued, downloads, dRing, dPending, dSubmitted, earlyValue>>
clientVars == <<phase, poolVars, downloadVars>>
rendererVars == <<vars, clientVars>>

D == INSTANCE StagingRing WITH Size <- DownloadRing, ring <- dRing,
                               pending <- dPending, submitted <- dSubmitted

\* The number of the submit of a frame, while the frame is being recorded.
Recording == MaxSubmit + 1

\* m_submitIndex of descriptor_set_pool: on_submit follows every submit.
SetSubmit == IF submitIndex = 1 THEN 0 ELSE submitIndex

RendererInit ==
  /\ Init /\ D!StagingInit
  /\ phase = "loop"
  /\ uploadPools = NoPools /\ framePools = NoPools /\ setPools = NoPools
  /\ earlyReset = FALSE
  /\ enqueued = 0
  /\ downloads = <<>>
  /\ earlyValue = FALSE

\* Mutant: the pool of an upload is retired with the submit before it.
SubmitUploads_Older ==
  LET m == WithCurrent(uploadPools, lastFinished)
  IN /\ Flush
     /\ uploadPools' = Retire(UsedBy(m, submitIndex), submitIndex - 1)
     /\ setPools' = Retire(setPools, submitIndex)
     /\ earlyReset' = (earlyReset \/ ResetTooEarly(uploadPools, lastFinished, timeline))
     /\ UNCHANGED <<phase, framePools, downloadVars>>

\* submit_uploads allocates a command buffer; its submit retires the sets that
\* were acquired since the last one.
SubmitUploads ==
  LET m == WithCurrent(uploadPools, lastFinished)
  IN /\ Flush
     /\ uploadPools' = Retire(UsedBy(m, submitIndex), submitIndex)
     /\ setPools' = Retire(setPools, submitIndex)
     /\ earlyReset' = (earlyReset \/ ResetTooEarly(uploadPools, lastFinished, timeline))
     /\ UNCHANGED <<phase, framePools, downloadVars>>

\* The buffer is not allocated, or its pool stays the current one.
SubmitUploadsFails ==
  /\ FlushFails
  /\ \/ queued' /\ UNCHANGED <<uploadPools, earlyReset>>
     \/ /\ uploadPools' = WithCurrent(uploadPools, lastFinished)
        /\ earlyReset' = (earlyReset \/ ResetTooEarly(uploadPools, lastFinished, timeline))
  /\ UNCHANGED <<phase, framePools, setPools, downloadVars>>

\* An upload is made before renderer::execute, or while it builds the graph.
StageUpload(q) ==
  /\ executing => phase = "opened"
  /\ Upload(q)
  /\ UNCHANGED clientVars

\* get_active_command_buffer, once the uploads were submitted.
OpenCommands ==
  /\ pc = "frame" /\ executing /\ phase = "loop"
  /\ phase' = "opened"
  /\ framePools' = UsedBy(WithCurrent(framePools, lastFinished), Recording)
  /\ earlyReset' = (earlyReset \/ ResetTooEarly(framePools, lastFinished, timeline))
  /\ UNCHANGED <<vars, uploadPools, setPools, downloadVars>>

\* descriptor_set_pool::acquire, when the current pool has no set left.
Exhausted(m) ==
  [current |-> NoPool, used |-> Append(m.used, [use |-> m.current, submit |-> SetSubmit])]

AcquireSets(m) == UsedBy(WithCurrent(m, lastFinished), Recording)

\* execute prepares a buffer for every download: without space for it the
\* download stays on the list, and its promise is never initialised.
StageDownload(s, use) ==
  IF D!CanStage(s.ring, DownloadSize, 1)
  THEN [ring |-> D!Staged(s.ring, DownloadSize, 1),
        list |-> Append(s.list, [submit |-> 0, use |-> use, promise |-> "waiting",
                                 cells |-> D!StagedCells(s.ring, DownloadSize, 1)])]
  ELSE [s EXCEPT !.list =
          Append(@, [submit |-> 0, use |-> use, promise |-> "none", cells |-> {}])]

\* n downloads are staged, one after the other.
StageDownloads(s, n, use) ==
  LET with[i \in 0..n] == IF i = 0 THEN s ELSE StageDownload(with[i - 1], use)
  IN with[n]

\* The graph has been built and is executed: the sets of the frame are acquired,
\* and n downloads are staged after those a frame that was not submitted has
\* left on the list, which nobody copies any more.
Record(n, exhausted) ==
  LET sets == AcquireSets(setPools)
      start == [ring |-> dRing, list |-> downloads]
      left == StageDownloads(start, enqueued, 0)
      staged == StageDownloads(left, n, Recording)
  IN /\ pc = "frame" /\ phase = "opened"
     /\ enqueued + n <= MaxDownloads
     /\ exhausted => SetSubmit # 0
     /\ phase' = "recorded"
     /\ setPools' = IF exhausted THEN AcquireSets(Exhausted(sets)) ELSE sets
     /\ earlyReset' = \/ earlyReset
                      \/ ResetTooEarly(setPools, lastFinished, timeline)
                      \/ exhausted /\ ResetTooEarly(Exhausted(sets), lastFinished, timeline)
     /\ enqueued' = enqueued + n
     /\ downloads' = staged.list
     /\ dRing' = staged.ring
     /\ dPending' = dPending + (staged.ring.used - dRing.used)
     /\ UNCHANGED <<vars, uploadPools, framePools, dSubmitted, earlyValue>>

\* frame_submitted gives the downloads of the frame, the last on the list, the
\* number of its submit.
Numbered(k) ==
  LET old == Len(downloads) - enqueued
  IN [i \in DOMAIN downloads |->
        LET d == downloads[i] IN
        [d EXCEPT !.use = IF @ = Recording THEN k ELSE @,
                  !.submit = IF i > old THEN k ELSE @]]

\* Mutant: a download is complete one submit too early.
Completed_OffByOne(list) ==
  LET Done(i) == \A j \in 1..i : lastFinished + 1 >= list[j].submit
  IN Cardinality({i \in DOMAIN list : Done(i)})

\* flush_downloads stops at the first download whose submit has not finished.
Completed(list) ==
  LET Done(i) == \A j \in 1..i : lastFinished >= list[j].submit
  IN Cardinality({i \in DOMAIN list : Done(i)})

\* renderer::end_frame, with the number of the submit of the frame.
PresentFrame ==
  LET k == submitIndex
      list == Numbered(k)
      n == Completed(list)
      taken == IF dPending = 0 THEN <<>> ELSE <<[timelineId |-> k, size |-> dPending]>>
  IN /\ phase = "recorded" /\ Present
     /\ phase' = "loop"
     /\ framePools' = Retire(Renumber(framePools, Recording, k), k)
     /\ setPools' = Retire(Renumber(setPools, Recording, k), k)
     /\ enqueued' = 0
     /\ downloads' = SubSeq(list, n + 1, Len(list))
     /\ earlyValue' = (earlyValue \/ \E i \in 1..n : list[i].use > timeline)
     /\ dRing' = D!Freed(lastFinished)
     /\ dSubmitted' = D!Unfinished(lastFinished) \o taken
     /\ dPending' = 0
     /\ UNCHANGED <<uploadPools, earlyReset>>

\* renderer::end_frame is not called: what was recorded is lost.
PresentFrameFails ==
  /\ phase = "recorded" /\ PresentFails
  /\ phase' = "loop"
  /\ framePools' = Renumber(framePools, Recording, 0)
  /\ setPools' = Renumber(setPools, Recording, 0)
  /\ downloads' = [i \in DOMAIN downloads |->
       [downloads[i] EXCEPT !.use = IF @ = Recording THEN 0 ELSE @]]
  /\ UNCHANGED <<uploadPools, earlyReset, enqueued, dRing, dPending, dSubmitted,
                 earlyValue>>

\* The pools are destroyed; promises that wait are broken with the list.
ShutdownRenderer ==
  /\ Shutdown
  /\ uploadPools' = NoPools /\ framePools' = NoPools /\ setPools' = NoPools
  /\ enqueued' = 0
  /\ downloads' = <<>>
  /\ UNCHANGED <<phase, earlyReset, dRing, dPending, dSubmitted, earlyValue>>

\* What does not touch pools and downloads.
Elsewhere ==
  /\ \/ Acquire \/ Execute \/ Down
     \/ \E o \in Object : Doom(o)
  /\ UNCHANGED clientVars

DeviceStep == Device /\ UNCHANGED clientVars

RendererCall ==
  \/ (Begin \/ Retry \/ Wait) /\ UNCHANGED clientVars
  \/ SubmitUploads \/ SubmitUploadsFails
  \/ OpenCommands
  \/ \E l \in Loads : Record(l.downloads, l.exhausted)
  \/ PresentFrame \/ PresentFrameFails

RendererNext ==
  \/ Elsewhere \/ ShutdownRenderer \/ DeviceStep \/ RendererCall
  \/ \E q \in Request : StageUpload(q)

RendererSpec == RendererInit /\ [][RendererNext]_rendererVars

\* The device finishes what it was given, and a call goes on.
FairRendererSpec ==
  RendererSpec /\ WF_rendererVars(DeviceStep) /\ WF_rendererVars(RendererCall)

-----------------------------------------------------------------------------
(* What must hold. *)

Pools == [current : {NoPool} \cup 0..Recording,
          used : Seq([use : 0..Recording, submit : Nat])]

\* The type of every variable this module adds.
ClientTypeOK ==
  /\ phase \in {"loop", "opened", "recorded"}
  /\ {uploadPools, framePools, setPools} \subseteq Pools
  /\ earlyReset \in BOOLEAN /\ earlyValue \in BOOLEAN
  /\ enqueued \in 0..MaxDownloads
  /\ downloads \in Seq([submit : Nat, use : 0..Recording,
                        promise : {"none", "waiting"},
                        cells : SUBSET (0..(DownloadRing - 1))])
  /\ dRing \in [first : 0..(DownloadRing - 1), used : 0..DownloadRing]
  /\ dPending \in 0..DownloadRing
  /\ dSubmitted \in Seq([timelineId : Nat, size : 1..DownloadRing])

\* Nothing the device still needs is taken away: an object is destroyed, and a
\* pool of command buffers or descriptor sets reset, after the last submit that
\* uses it has finished, whatever failed in between.
ReleasedAfterUse == DestroyedAfterUse /\ ~earlyReset

\* No two of the downloads on a list have a byte in common.
Apart(list) ==
  \A i, j \in DOMAIN list : i # j => list[i].cells \cap list[j].cells = {}

\* A download gets its value after the device has written its bytes, unless its
\* frame was never submitted, and until then no other download has them.
DownloadsIntact == ~earlyValue /\ Apart(downloads)
=============================================================================
