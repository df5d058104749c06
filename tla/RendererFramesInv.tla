--------------------------- MODULE RendererFramesInv ---------------------------
(* The inductive invariant of RendererFrames, in three parts: Accounted, which *)
(* holds of the bookkeeping of submits, bytes, objects and pools whatever the  *)
(* device does; DownloadsInv, which says of the downloads that wait where      *)
(* their bytes are; and InTime, which holds as long as no fence is reset while *)
(* a submit in flight has it (FenceIsIdle).                                    *)
EXTENDS RendererFrames

Doomed == [object : Object, submit : Nat]
Retired == [use : Nat, submit : Nat]
Pool == [current : {NoPool} \cup Nat, used : Seq(Retired)]

QueueTypes ==
  /\ submitIndex \in Nat \ {0} /\ timeline \in 0..(submitIndex - 1)
  /\ lastFinished \in 0..(submitIndex - 1)
  /\ begun \in BOOLEAN
  /\ nextFrame \in Seq(Object) /\ toDispose \in Seq(Doomed)
  /\ destroyed \subseteq Object
  /\ lastUse \in [Object -> 0..(submitIndex - 1)]

RingTypes ==
  /\ ring \in Ring /\ pending \in Nat
  /\ submitted \in Seq(Submitted)
  /\ \A i \in DOMAIN submitted : submitted[i].timelineId < submitIndex

FrameTypes ==
  /\ pc \in PCs /\ after \in {"frame", "retry"}
  /\ executing \in BOOLEAN /\ request \in Request \cup {NoRequest}
  /\ semaphoreIndex \in 0..(Images - 1)
  /\ presentDone \in [0..(Images - 1) -> 0..(submitIndex - 1)]

\* Where a frame is, and the submits it may still make.
FrameInv ==
  /\ phase \in {"loop", "opened", "recorded"}
  /\ pc \in {"frame", "flush", "retry", "wait"} => begun
  /\ executing => pc \notin {"idle", "down"}
  /\ phase # "loop" => executing
  /\ phase = "recorded" => pc = "frame"
  /\ pc = "wait" => submitted # << >>
  /\ pc \notin {"idle", "down"} =>
       submitIndex + (IF executing THEN 1 ELSE 2) + (IF pc = "flush" THEN 1 ELSE 0) <= MaxSubmit

\* A doomed object waits for a submit that is no earlier than its last use.
DisposalInv ==
  /\ \A i \in DOMAIN toDispose : lastUse[toDispose[i].object] <= toDispose[i].submit
  /\ DestroyedAfterUse

RetiredAfterUse(m) == \A i \in DOMAIN m.used : m.used[i].use <= m.used[i].submit

\* A pool is retired with a submit that is no earlier than its last use; that of
\* a frame still being recorded will be the next submit.
PoolsInv ==
  /\ uploadPools \in Pool /\ framePools \in Pool /\ setPools \in Pool
  /\ RetiredAfterUse(uploadPools) /\ RetiredAfterUse(framePools)
  /\ phase # "loop" => framePools.current = Recording
  /\ IF phase = "recorded" THEN setPools.current = Recording ELSE setPools.current \in {NoPool, 0}
  /\ \A i \in DOMAIN setPools.used :
       \/ setPools.used[i].use <= setPools.used[i].submit
       \/ phase = "recorded" /\ setPools.used[i] = [use |-> Recording, submit |-> submitIndex]

Accounted ==
  /\ QueueTypes /\ RingTypes /\ FrameTypes /\ FrameInv
  /\ DisposalInv /\ PoolsInv /\ RingAccounted

-----------------------------------------------------------------------------
Download == [submit : Nat, use : Nat, promise : {"none", "waiting"},
             cells : SUBSET (0..(DownloadRing - 1))]

\* With the ring r, the submits s and n bytes pending: the list goes on along the
\* ring, so that the bytes of a download are held until the submits of those
\* before it have finished, and those after the first `old` are pending.
Laid(r, s, n, list, old) ==
  /\ list \in Seq(Download) /\ Apart(list)
  /\ r \in D!Ring /\ n \in Nat /\ r.used = D!Total(s) + n
  /\ \A i \in DOMAIN list : \A c \in list[i].cells :
       /\ \A j \in 1..i : D!HeldUntil(r, s, c, list[j].submit)
       /\ i > old => D!Behind(r, c) <= n

\* A download is numbered with the submit that uses its bytes; those of the frame
\* that is recorded, the last ones, are not numbered yet.
NumbersInv ==
  /\ enqueued \in 0..Len(downloads)
  /\ \A i \in DOMAIN downloads :
       /\ downloads[i].submit < submitIndex
       /\ \/ downloads[i].use <= downloads[i].submit
          \/ /\ phase = "recorded" /\ i > Len(downloads) - enqueued
             /\ downloads[i].use = Recording

DownloadsInv ==
  /\ dSubmitted \in Seq(D!Submitted)
  /\ Laid(dRing, dSubmitted, dPending, downloads, Len(downloads) - enqueued)
  /\ NumbersInv

-----------------------------------------------------------------------------
\* A fence is signaled only when the submit it was last given to has finished.
FencesInv ==
  /\ lastFinished <= timeline
  /\ \A k \in InFlight : Slot(k) \notin signaled
  /\ \A k, l \in InFlight : Slot(k) = Slot(l) => k = l
  /\ begun => Slot(submitIndex) \notin signaled

\* With the ring r, the submits s and n bytes pending, byte c is where submit k
\* may copy it, or among the pending ones when its submit has not been made.
Held(r, s, n, c, k) ==
  /\ k = 0 => Behind(r, c) <= n
  /\ k > 0 => k \in InFlight /\ HeldUntil(r, s, c, k)

\* The bytes that are to be copied are in use.
CopiesInv ==
  /\ copying \in [0..(Size - 1) -> {NoSubmit} \cup Nat]
  /\ \A c \in 0..(Size - 1) : Held(ring, submitted, pending, c, copying[c])

InTime == FencesInv /\ CopiesInv /\ StagedIntact /\ ~earlyReset
=============================================================================
