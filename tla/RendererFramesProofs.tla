------------------------- MODULE RendererFramesProofs -------------------------
(* Accounted is an invariant of RendererFrames, and InTime is one as long as   *)
(* FenceIsIdle holds: the bytes of the staging buffer are accounted for, and   *)
(* nothing the device still needs is taken away.                               *)
EXTENDS RendererFramesInv, StagingRingProofs

-----------------------------------------------------------------------------
(* Accounted: what a step keeps. *)

LEMMA PoolsKept ==
  ASSUME PoolsInv, UNCHANGED <<phase, uploadPools, framePools, setPools, submitIndex>>
  PROVE  PoolsInv'
  BY DEF PoolsInv, RetiredAfterUse

LEMMA RingKept ==
  ASSUME RingTypes, RingAccounted, UNCHANGED <<ring, pending, submitted>>,
         submitIndex \in Nat, submitIndex' \in Nat, submitIndex' >= submitIndex
  PROVE  RingTypes' /\ RingAccounted'
  <1>1. \A i \in DOMAIN submitted : submitted[i].timelineId \in Nat
    BY SizesOf DEF RingTypes
  <1>. QED BY <1>1 DEF RingTypes, RingAccounted

LEMMA RingIsOK ==
  ASSUME RingTypes, RingAccounted
  PROVE  RingOK
  BY DEF RingTypes, RingAccounted, RingOK

LEMMA DisposalKept ==
  ASSUME DisposalInv, QueueTypes, UNCHANGED <<toDispose, destroyed, lastUse>>,
         timeline' \in Nat, timeline' >= timeline
  PROVE  DisposalInv'
  BY DEF DisposalInv, DestroyedAfterUse, QueueTypes

LEMMA Awaited ==
  ASSUME QueueTypes, NEW k \in 0..(submitIndex - 1), AwaitSubmit(k)
  PROVE  lastFinished' \in 0..(submitIndex - 1)
  BY DEF AwaitSubmit, QueueTypes

LEMMA AcquireAccounted ==
  ASSUME Accounted, Acquire, UNCHANGED clientVars
  PROVE  Accounted'
  <1>1. /\ pc = "idle" /\ AwaitSubmit(presentDone[semaphoreIndex])
        /\ pc' = "idle" \/ (pc' = "begin" /\ submitIndex + 2 <= MaxSubmit)
        /\ UNCHANGED <<submitIndex, begun, nextFrame, toDispose, destroyed, lastUse, timeline,
                       ring, pending, submitted, after, executing, request, semaphoreIndex, presentDone>>
        /\ UNCHANGED <<phase, uploadPools, framePools, setPools>>
    BY DEF Acquire, clientVars, poolVars, stagingVars, callVars
  <1>2. QueueTypes /\ RingTypes /\ FrameTypes /\ FrameInv /\ DisposalInv /\ PoolsInv /\ RingAccounted
    BY DEF Accounted
  <1>3. presentDone[semaphoreIndex] \in 0..(submitIndex - 1)
    BY <1>2 DEF FrameTypes
  <1>4. QueueTypes'
    <2>1. lastFinished' \in 0..(submitIndex - 1)
      BY <1>1, <1>2, <1>3, Awaited
    <2>. QED BY <1>1, <1>2, <2>1 DEF QueueTypes
  <1>5. FrameTypes' /\ FrameInv'
    BY <1>1, <1>2, BoundsAssumption DEF FrameTypes, FrameInv, PCs, QueueTypes
  <1>6. RingTypes' /\ RingAccounted' /\ DisposalInv' /\ PoolsInv'
    BY <1>1, <1>2, RingKept, DisposalKept, PoolsKept DEF QueueTypes
  <1>. QED BY <1>4, <1>5, <1>6 DEF Accounted

LEMMA ExecuteAccounted ==
  ASSUME Accounted, Execute, UNCHANGED clientVars
  PROVE  Accounted'
  <1>1. /\ pc = "frame" /\ ~executing /\ executing' = TRUE /\ pc' \in {"flush", "frame"}
        /\ UNCHANGED <<submitIndex, lastFinished, begun, nextFrame, toDispose, destroyed, lastUse, timeline,
                       ring, pending, submitted, after, request, semaphoreIndex, presentDone>>
        /\ UNCHANGED <<phase, uploadPools, framePools, setPools>>
    BY DEF Execute, clientVars, poolVars, stagingVars, queueVars
  <1>2. QueueTypes /\ RingTypes /\ FrameTypes /\ FrameInv /\ DisposalInv /\ PoolsInv /\ RingAccounted
    BY DEF Accounted
  <1>3. QueueTypes'
    BY <1>1, <1>2 DEF QueueTypes
  <1>4. FrameTypes' /\ FrameInv'
    BY <1>1, <1>2, BoundsAssumption DEF FrameTypes, FrameInv, PCs, QueueTypes
  <1>5. RingTypes' /\ RingAccounted' /\ DisposalInv' /\ PoolsInv'
    BY <1>1, <1>2, RingKept, DisposalKept, PoolsKept DEF QueueTypes
  <1>. QED BY <1>3, <1>4, <1>5 DEF Accounted

LEMMA StutterAccounted ==
  ASSUME Accounted, UNCHANGED vars, UNCHANGED clientVars
  PROVE  Accounted'
  <1>1. /\ UNCHANGED <<submitIndex, lastFinished, begun, nextFrame, toDispose, destroyed, lastUse, timeline,
                       ring, pending, submitted, pc, executing, after, request, semaphoreIndex, presentDone>>
        /\ UNCHANGED <<phase, uploadPools, framePools, setPools>>
    BY DEF vars, frameVars, callVars, clientVars, poolVars, stagingVars, queueVars
  <1>2. QueueTypes /\ RingTypes /\ FrameTypes /\ FrameInv /\ DisposalInv /\ PoolsInv /\ RingAccounted
    BY DEF Accounted
  <1>3. QueueTypes'
    BY <1>1, <1>2 DEF QueueTypes
  <1>4. FrameTypes' /\ FrameInv'
    BY <1>1, <1>2 DEF FrameTypes, FrameInv
  <1>5. RingTypes' /\ RingAccounted' /\ DisposalInv' /\ PoolsInv'
    BY <1>1, <1>2, RingKept, DisposalKept, PoolsKept DEF QueueTypes
  <1>. QED BY <1>3, <1>4, <1>5 DEF Accounted

LEMMA DoomAccounted ==
  ASSUME Accounted, NEW o \in Object, Doom(o), UNCHANGED clientVars
  PROVE  Accounted'
  <1>1. /\ nextFrame' = Append(nextFrame, o)
        /\ UNCHANGED <<submitIndex, lastFinished, begun, toDispose, destroyed, lastUse, timeline,
                       ring, pending, submitted, pc, executing, after, request, semaphoreIndex, presentDone>>
        /\ UNCHANGED <<phase, uploadPools, framePools, setPools>>
    BY DEF Doom, DestroyNextFrame, frameVars, callVars, clientVars, poolVars, stagingVars
  <1>2. QueueTypes /\ RingTypes /\ FrameTypes /\ FrameInv /\ DisposalInv /\ PoolsInv /\ RingAccounted
    BY DEF Accounted
  <1>3. QueueTypes'
    <2>1. nextFrame' \in Seq(Object)
      BY <1>1, <1>2 DEF QueueTypes
    <2>. QED BY <1>1, <1>2, <2>1 DEF QueueTypes
  <1>4. FrameTypes' /\ FrameInv'
    BY <1>1, <1>2 DEF FrameTypes, FrameInv
  <1>5. RingTypes' /\ RingAccounted' /\ DisposalInv' /\ PoolsInv'
    BY <1>1, <1>2, RingKept, DisposalKept, PoolsKept DEF QueueTypes
  <1>. QED BY <1>3, <1>4, <1>5 DEF Accounted

LEMMA DeviceAccounted ==
  ASSUME Accounted, DeviceStep
  PROVE  Accounted'
  <1>1. /\ InFlight # {} /\ timeline' = timeline + 1
        /\ UNCHANGED <<submitIndex, lastFinished, begun, nextFrame, toDispose, destroyed, lastUse,
                       ring, pending, submitted, pc, executing, after, request, semaphoreIndex, presentDone>>
        /\ UNCHANGED <<phase, uploadPools, framePools, setPools>>
    BY DEF DeviceStep, Device, Finish, callVars, clientVars, poolVars, stagingVars
  <1>2. QueueTypes /\ RingTypes /\ FrameTypes /\ FrameInv /\ DisposalInv /\ PoolsInv /\ RingAccounted
    BY DEF Accounted
  <1>3. timeline' \in 0..(submitIndex - 1) /\ timeline' >= timeline
    BY <1>1, <1>2 DEF InFlight, QueueTypes
  <1>4. QueueTypes'
    BY <1>1, <1>2, <1>3 DEF QueueTypes
  <1>5. FrameTypes' /\ FrameInv'
    BY <1>1, <1>2 DEF FrameTypes, FrameInv
  <1>6. DisposalInv'
    <2>1. timeline' \in Nat
      BY <1>3
    <2>. QED BY <1>1, <1>2, <1>3, <2>1, DisposalKept
  <1>7. RingTypes' /\ RingAccounted' /\ PoolsInv'
    BY <1>1, <1>2, RingKept, PoolsKept DEF QueueTypes
  <1>. QED BY <1>4, <1>5, <1>6, <1>7 DEF Accounted

-----------------------------------------------------------------------------
(* Accounted: the submits. *)

\* How many objects wait for submits that have finished.
ReadyCount(last) ==
  Cardinality({i \in 1..Len(toDispose) : \A j \in 1..i : toDispose[j].submit <= last})

LEMMA Ready ==
  ASSUME toDispose \in Seq(Doomed), NEW last
  PROVE  /\ ReadyCount(last) \in 0..Len(toDispose)
         /\ {i \in 1..Len(toDispose) : \A j \in 1..i : toDispose[j].submit <= last} = 1..ReadyCount(last)
         /\ \A i \in 1..ReadyCount(last) : toDispose[i].submit <= last
  <1> DEFINE P == {i \in 1..Len(toDispose) : \A j \in 1..i : toDispose[j].submit <= last}
  <1>1. Len(toDispose) \in Nat
    OBVIOUS
  <1>2. \A i \in P : i \in 1..i /\ \A j \in 1..i : j \in P
    BY <1>1
  <1>3. \A i \in P : toDispose[i].submit <= last
    BY <1>2
  <1>4. P \in SUBSET (1..Len(toDispose)) /\ Cardinality(P) = ReadyCount(last)
    BY DEF ReadyCount
  <1>. HIDE DEF P
  <1>5. Cardinality(P) \in 0..Len(toDispose) /\ P = 1..Cardinality(P)
    BY <1>1, <1>2, <1>4, Prefix
  <1>6. ReadyCount(last) \in 0..Len(toDispose) /\ P = 1..ReadyCount(last)
    BY <1>4, <1>5
  <1>. QED BY <1>3, <1>6 DEF P

LEMMA BeginAccounted ==
  ASSUME Accounted, Begin, UNCHANGED clientVars
  PROVE  Accounted'
  <1>1. /\ pc = "begin" /\ pc' = after /\ after' = "frame"
        /\ lastFinished' = timeline /\ begun' = TRUE /\ DestroyUntil(timeline)
        /\ UNCHANGED <<submitIndex, nextFrame, lastUse, timeline,
                       ring, pending, submitted, executing, request, semaphoreIndex, presentDone>>
        /\ UNCHANGED <<phase, uploadPools, framePools, setPools>>
    BY DEF Begin, BeginSubmit, clientVars, poolVars, stagingVars
  <1>2. QueueTypes /\ RingTypes /\ FrameTypes /\ FrameInv /\ DisposalInv /\ PoolsInv /\ RingAccounted
    BY DEF Accounted
  <1> DEFINE n == ReadyCount(timeline)
  <1>3. toDispose \in Seq(Doomed) /\ Len(toDispose) \in Nat /\ DOMAIN toDispose = 1..Len(toDispose)
    BY <1>2 DEF QueueTypes
  <1>4. n \in 0..Len(toDispose) /\ \A i \in 1..n : toDispose[i].submit <= timeline
    BY <1>3, Ready
  <1>5. /\ toDispose' = SubSeq(toDispose, n + 1, Len(toDispose))
        /\ destroyed' = destroyed \cup {toDispose[i].object : i \in 1..n}
    <2>1. /\ toDispose' = SubSeq(toDispose,
               Cardinality({i \in 1..Len(toDispose) : \A j \in 1..i : toDispose[j].submit <= timeline}) + 1,
               Len(toDispose))
          /\ destroyed' = destroyed \cup {toDispose[i].object : i \in
               {i \in 1..Len(toDispose) : \A j \in 1..i : toDispose[j].submit <= timeline}}
      BY <1>1 DEF DestroyUntil
    <2>2. {i \in 1..Len(toDispose) : \A j \in 1..i : toDispose[j].submit <= timeline} = 1..n
      BY <1>3, Ready
    <2>3. Cardinality(1..n) = n
      BY <1>3, <1>4, FS_Interval
    <2>. QED BY <2>1, <2>2, <2>3
  <1>6. /\ toDispose' \in Seq(Doomed) /\ DOMAIN toDispose' = 1..(Len(toDispose) - n)
        /\ \A i \in 1..(Len(toDispose) - n) : n + i \in DOMAIN toDispose /\ toDispose'[i] = toDispose[n + i]
    <2>. HIDE DEF n
    <2>. QED BY <1>3, <1>4, <1>5, Dropped
  <1>. HIDE DEF n
  <1>7. \A i \in 1..n : i \in DOMAIN toDispose /\ toDispose[i].object \in Object
    <2>1. \A i \in DOMAIN toDispose : toDispose[i] \in Doomed
      BY <1>3, Elements
    <2>. QED BY <1>3, <1>4, <2>1 DEF Doomed
  <1>8. QueueTypes'
    BY <1>1, <1>2, <1>5, <1>6, <1>7 DEF QueueTypes
  <1>9. DisposalInv'
    <2>1. \A i \in DOMAIN toDispose' : lastUse'[toDispose'[i].object] <= toDispose'[i].submit
      BY <1>1, <1>2, <1>6 DEF DisposalInv
    <2>2. ASSUME NEW o \in destroyed'
          PROVE  lastUse'[o] <= timeline'
      <3>1. CASE o \in destroyed
        BY <1>1, <1>2, <3>1 DEF DisposalInv, DestroyedAfterUse
      <3>2. CASE o \notin destroyed
        <4>1. PICK i \in 1..n : o = toDispose[i].object
          BY <1>5, <3>2
        <4>2. lastUse[o] <= toDispose[i].submit /\ toDispose[i].submit <= timeline /\ o \in Object
          BY <1>2, <1>4, <1>7, <4>1 DEF DisposalInv
        <4>3. lastUse[o] \in Int /\ toDispose[i].submit \in Int /\ timeline \in Int
          <5>1. toDispose[i] \in Doomed
            BY <1>3, <1>7, Elements
          <5>. QED BY <1>2, <4>2, <5>1 DEF QueueTypes, Doomed
        <4>. QED BY <1>1, <4>2, <4>3
      <3>. QED BY <3>1, <3>2
    <2>. QED BY <2>1, <2>2 DEF DisposalInv, DestroyedAfterUse
  <1>10. FrameTypes' /\ FrameInv'
    BY <1>1, <1>2 DEF FrameTypes, FrameInv, PCs, QueueTypes
  <1>11. RingTypes' /\ RingAccounted' /\ PoolsInv'
    BY <1>1, <1>2, RingKept, PoolsKept DEF QueueTypes
  <1>. QED BY <1>8, <1>9, <1>10, <1>11 DEF Accounted

-----------------------------------------------------------------------------
(* Accounted: the staging buffer. *)

LEMMA Requested ==
  ASSUME NEW q \in Request \cup {NoRequest}
  PROVE  q.size \in Nat /\ Alignment(q) \in Nat \ {0}
  BY SizesAssumption, AlignAssumption DEF Request, NoRequest, Alignment

LEMMA Queued ==
  ASSUME NEW r \in Ring, NEW q \in Request \cup {NoRequest},
         CanStage(r, q.size, Alignment(q)), Queue(r, q),
         pending \in Nat, NEW t \in Nat, r.used = t + pending
  PROVE  ring' \in Ring /\ pending' \in Nat /\ ring'.used = t + pending'
  <1>1. q.size \in Nat /\ Alignment(q) \in Nat \ {0}
    BY Requested
  <1> DEFINE s == Staged(r, q.size, Alignment(q))
  <1>2. ring' = s /\ pending' = pending + (s.used - r.used)
    BY DEF Queue, Stage
  <1>3. s \in Ring /\ s.used - r.used \in Nat
    BY <1>1, StageMoves
  <1>. HIDE DEF s
  <1>4. s.used \in Nat /\ r.used \in Nat
    BY <1>3, Rings
  <1>. QED BY <1>2, <1>3, <1>4

LEMMA UploadAccounted ==
  ASSUME Accounted, NEW q \in Request, StageUpload(q)
  PROVE  Accounted'
  <1>1. /\ pc = "frame" /\ submitIndex + 3 <= MaxSubmit /\ submitted' = submitted
        /\ UNCHANGED <<submitIndex, lastFinished, begun, nextFrame, toDispose, destroyed, lastUse, timeline,
                       executing, semaphoreIndex, presentDone>>
        /\ UNCHANGED <<phase, uploadPools, framePools, setPools>>
        /\ executing => phase = "opened"
    BY DEF StageUpload, Upload, queueVars, clientVars, poolVars
  <1>2. QueueTypes /\ RingTypes /\ FrameTypes /\ FrameInv /\ DisposalInv /\ PoolsInv /\ RingAccounted
    BY DEF Accounted
  <1>3. \/ /\ CanStage(ring, q.size, Alignment(q)) /\ Queue(ring, q)
           /\ UNCHANGED <<pc, after, request>>
        \/ /\ pc' \in {"flush", "retry"} /\ after' \in {"retry", after} /\ request' = q
           /\ UNCHANGED <<ring, pending>>
    BY DEF StageUpload, Upload
  <1>4. QueueTypes'
    BY <1>1, <1>2 DEF QueueTypes
  <1>5. FrameTypes' /\ FrameInv'
    BY <1>1, <1>2, <1>3, BoundsAssumption DEF FrameTypes, FrameInv, PCs, QueueTypes
  <1>6. RingTypes' /\ RingAccounted'
    <2>1. CASE UNCHANGED <<ring, pending>>
      BY <1>1, <1>2, <2>1, RingKept DEF QueueTypes
    <2>2. CASE CanStage(ring, q.size, Alignment(q)) /\ Queue(ring, q)
      <3>1. Total(submitted) \in Nat
        <4>1. submitted \in Seq(Submitted) /\ Len(submitted) \in 0..Len(submitted)
          BY <1>2 DEF RingTypes
        <4>. QED BY <4>1, SumsDefined DEF Total
      <3>2. ring \in Ring /\ pending \in Nat /\ ring.used = Total(submitted) + pending
        BY <1>2 DEF RingTypes, RingAccounted
      <3>3. ring' \in Ring /\ pending' \in Nat /\ ring'.used = Total(submitted) + pending'
        BY <2>2, <3>1, <3>2, Queued
      <3>. QED BY <1>1, <1>2, <3>3 DEF RingTypes, RingAccounted
    <2>. QED BY <1>3, <2>1, <2>2
  <1>7. DisposalInv' /\ PoolsInv'
    BY <1>1, <1>2, DisposalKept, PoolsKept DEF QueueTypes
  <1>. QED BY <1>4, <1>5, <1>6, <1>7 DEF Accounted

LEMMA RetryAccounted ==
  ASSUME Accounted, Retry, UNCHANGED clientVars
  PROVE  Accounted'
  <1> DEFINE r == Freed(lastFinished)
             left == Unfinished(lastFinished)
  <1>1. /\ pc = "retry" /\ submitted' = left
        /\ UNCHANGED <<submitIndex, lastFinished, begun, nextFrame, toDispose, destroyed, lastUse, timeline,
                       after, executing, semaphoreIndex, presentDone>>
        /\ UNCHANGED <<phase, uploadPools, framePools, setPools>>
        /\ request' \in {NoRequest, request}
    BY DEF Retry, queueVars, clientVars, poolVars
  <1>2. QueueTypes /\ RingTypes /\ FrameTypes /\ FrameInv /\ DisposalInv /\ PoolsInv /\ RingAccounted
    BY DEF Accounted
  <1>3. \/ /\ CanStage(r, request.size, Alignment(request)) /\ Queue(r, request)
           /\ pc' = "frame"
        \/ /\ ring' = r /\ pending' = pending
           /\ pc' \in {"wait", "frame"} /\ (pc' = "wait" => submitted' # << >>)
    BY DEF Retry
  <1>4. /\ left \in Seq(Submitted) /\ r \in Ring
        /\ \A i \in DOMAIN left : \E j \in DOMAIN submitted : left[i] = submitted[j]
        /\ r.used = Total(left) + pending /\ Total(left) \in Nat
    BY <1>2, FreedRing, RingIsOK
  <1>. HIDE DEF r, left
  <1>5. QueueTypes'
    BY <1>1, <1>2 DEF QueueTypes
  <1>6. FrameTypes' /\ FrameInv'
    BY <1>1, <1>2, <1>3, BoundsAssumption DEF FrameTypes, FrameInv, PCs, QueueTypes
  <1>7. RingTypes' /\ RingAccounted'
    <2>1. ring' \in Ring /\ pending' \in Nat /\ ring'.used = Total(left) + pending'
      <3>1. pending \in Nat /\ request \in Request \cup {NoRequest}
        BY <1>2 DEF RingTypes, FrameTypes
      <3>. QED BY <1>3, <1>4, <3>1, Queued
    <2>2. \A i \in DOMAIN left : left[i].timelineId < submitIndex
      BY <1>2, <1>4 DEF RingTypes
    <2>. QED BY <1>1, <1>4, <2>1, <2>2 DEF RingTypes, RingAccounted
  <1>8. DisposalInv' /\ PoolsInv'
    BY <1>1, <1>2, DisposalKept, PoolsKept DEF QueueTypes
  <1>. QED BY <1>5, <1>6, <1>7, <1>8 DEF Accounted

LEMMA FirstSubmitted ==
  ASSUME QueueTypes, RingTypes, submitted # << >>
  PROVE  Head(submitted).timelineId \in 0..(submitIndex - 1)
  <1>1. submitted \in Seq(Submitted)
    BY DEF RingTypes
  <1>2. 1 \in DOMAIN submitted /\ Head(submitted) = submitted[1] /\ 1 \in 1..Len(submitted)
    BY <1>1
  <1>3. submitted[1].timelineId \in Nat
    BY <1>1, <1>2, SizesOf
  <1>4. submitted[1].timelineId < submitIndex
    BY <1>2 DEF RingTypes
  <1>. QED BY <1>2, <1>3, <1>4 DEF QueueTypes

LEMMA WaitAccounted ==
  ASSUME Accounted, Wait, UNCHANGED clientVars
  PROVE  Accounted'
  <1>1. /\ pc = "wait" /\ pc' = "retry" /\ AwaitSubmit(Head(submitted).timelineId)
        /\ UNCHANGED <<submitIndex, begun, nextFrame, toDispose, destroyed, lastUse, timeline,
                       ring, pending, submitted, after, executing, request, semaphoreIndex, presentDone>>
        /\ UNCHANGED <<phase, uploadPools, framePools, setPools>>
    BY DEF Wait, clientVars, poolVars, stagingVars, callVars
  <1>2. QueueTypes /\ RingTypes /\ FrameTypes /\ FrameInv /\ DisposalInv /\ PoolsInv /\ RingAccounted
    BY DEF Accounted
  <1>3. Head(submitted).timelineId \in 0..(submitIndex - 1)
    BY <1>1, <1>2, FirstSubmitted DEF FrameInv
  <1>4. QueueTypes'
    <2>1. lastFinished' \in 0..(submitIndex - 1)
      BY <1>1, <1>2, <1>3, Awaited
    <2>. QED BY <1>1, <1>2, <2>1 DEF QueueTypes
  <1>5. FrameTypes' /\ FrameInv'
    BY <1>1, <1>2, BoundsAssumption DEF FrameTypes, FrameInv, PCs, QueueTypes
  <1>6. RingTypes' /\ RingAccounted' /\ DisposalInv' /\ PoolsInv'
    BY <1>1, <1>2, RingKept, DisposalKept, PoolsKept DEF QueueTypes
  <1>. QED BY <1>4, <1>5, <1>6 DEF Accounted

-----------------------------------------------------------------------------
(* Accounted: the pools. *)

LEMMA PoolIs ==
  ASSUME NEW m \in Pool
  PROVE  /\ m.used \in Seq(Retired) /\ m.current \in {NoPool} \cup Nat
         /\ m = [current |-> m.current, used |-> m.used]
         /\ Len(m.used) \in Nat /\ DOMAIN m.used = 1..Len(m.used)
         /\ \A i \in DOMAIN m.used : m.used[i].use \in Nat /\ m.used[i].submit \in Nat
                                     /\ m.used[i] = [use |-> m.used[i].use, submit |-> m.used[i].submit]
  <1>1. /\ m.used \in Seq(Retired) /\ m.current \in {NoPool} \cup Nat
        /\ m = [current |-> m.current, used |-> m.used]
    BY DEF Pool
  <1>2. /\ Len(m.used) \in Nat /\ DOMAIN m.used = 1..Len(m.used)
        /\ \A i \in DOMAIN m.used : m.used[i] \in Retired
    BY <1>1, Elements
  <1>3. \A u \in Retired : u.use \in Nat /\ u.submit \in Nat /\ u = [use |-> u.use, submit |-> u.submit]
    BY DEF Retired
  <1>. QED BY <1>1, <1>2, <1>3

\* The pools that are retired after a pool was taken were retired before.
LEMMA Taken ==
  ASSUME NEW m \in Pool, NEW last
  PROVE  /\ WithCurrent(m, last) \in Pool
         /\ \A i \in DOMAIN WithCurrent(m, last).used :
              \E j \in DOMAIN m.used : WithCurrent(m, last).used[i] = m.used[j]
  <1> DEFINE w == WithCurrent(m, last)
             u == m.used
  <1>1. /\ u \in Seq(Retired) /\ m.current \in {NoPool} \cup Nat /\ m = [current |-> m.current, used |-> u]
        /\ Len(u) \in Nat /\ DOMAIN u = 1..Len(u)
        /\ \A i \in DOMAIN u : u[i].use \in Nat
    BY PoolIs
  <1>2. \/ w = m
        \/ u # << >> /\ w = [current |-> Head(u).use, used |-> Tail(u)]
        \/ w = [m EXCEPT !.current = 0]
    BY DEF WithCurrent, Reusable
  <1>. HIDE DEF w
  <1>3. CASE w = m
    BY <1>1, <1>3 DEF w
  <1>4. CASE u # << >> /\ w = [current |-> Head(u).use, used |-> Tail(u)]
    <2>1. 1 \in DOMAIN u /\ Head(u) = u[1] /\ Head(u).use \in Nat
      <3>. HIDE DEF u
      <3>1. 1 \in DOMAIN u /\ Head(u) = u[1]
        BY <1>1, <1>4
      <3>. QED BY <1>1, <3>1
    <2>2. /\ Tail(u) \in Seq(Retired)
          /\ \A i \in DOMAIN Tail(u) : i + 1 \in DOMAIN u /\ Tail(u)[i] = u[i + 1]
      <3>. HIDE DEF u
      <3>. QED BY <1>1, <1>4
    <2>. HIDE DEF u
    <2>3. w \in Pool /\ w.used = Tail(u)
      BY <1>4, <2>1, <2>2 DEF Pool
    <2>. QED BY <2>2, <2>3 DEF u, w
  <1>5. CASE w = [m EXCEPT !.current = 0]
    <2>1. w = [current |-> 0, used |-> u]
      BY <1>1, <1>5
    <2>2. w \in Pool /\ w.used = u
      BY <1>1, <2>1 DEF Pool
    <2>. QED BY <2>2 DEF w
  <1>. QED BY <1>2, <1>3, <1>4, <1>5 DEF w

LEMMA TakenInOrder ==
  ASSUME NEW m \in Pool, NEW last, RetiredAfterUse(m)
  PROVE  RetiredAfterUse(WithCurrent(m, last))
  BY Taken DEF RetiredAfterUse

LEMMA Used ==
  ASSUME NEW m \in Pool, NEW k \in Nat
  PROVE  UsedBy(m, k) \in Pool /\ UsedBy(m, k).current = k /\ UsedBy(m, k).used = m.used
  <1>1. UsedBy(m, k) = [current |-> k, used |-> m.used]
    BY PoolIs DEF UsedBy
  <1>. QED BY <1>1, PoolIs DEF Pool

LEMMA Retires ==
  ASSUME NEW m \in Pool, NEW k \in Nat, m.current # NoPool => m.current <= k, RetiredAfterUse(m)
  PROVE  Retire(m, k) \in Pool /\ RetiredAfterUse(Retire(m, k)) /\ Retire(m, k).current = NoPool
  <1>1. CASE m.current = NoPool
    BY <1>1 DEF Retire
  <1>2. CASE m.current # NoPool
    <2> DEFINE e == [use |-> m.current, submit |-> k]
               u == m.used
               t == Append(u, e)
    <2>1. u \in Seq(Retired) /\ Len(u) \in Nat /\ m.current \in Nat
      BY <1>2, PoolIs
    <2>2. e \in Retired /\ e.use <= e.submit
      BY <1>2, <2>1 DEF Retired
    <2>3. Retire(m, k) = [current |-> NoPool, used |-> t]
      BY <1>2 DEF Retire
    <2>4. \A i \in DOMAIN u : u[i].use <= u[i].submit
      BY DEF RetiredAfterUse
    <2>. HIDE DEF e, u
    <2>5. /\ t \in Seq(Retired) /\ DOMAIN t = 1..(Len(u) + 1) /\ DOMAIN u = 1..Len(u)
          /\ \A i \in 1..Len(u) : t[i] = u[i]
          /\ t[Len(u) + 1] = e
      BY <2>1, <2>2, Appended
    <2>. HIDE DEF t
    <2>6. 1..(Len(u) + 1) = 1..Len(u) \cup {Len(u) + 1}
      BY <2>1
    <2>7. \A i \in DOMAIN t : t[i].use <= t[i].submit
      BY <2>2, <2>4, <2>5, <2>6
    <2>. QED BY <2>3, <2>5, <2>7 DEF Pool, RetiredAfterUse
  <1>. QED BY <1>1, <1>2

LEMMA Renumbered ==
  ASSUME NEW m \in Pool, NEW j \in Nat, NEW k \in Nat
  PROVE  /\ Renumber(m, j, k) \in Pool
         /\ Renumber(m, j, k).current = IF m.current = j THEN k ELSE m.current
         /\ DOMAIN Renumber(m, j, k).used = DOMAIN m.used
         /\ \A i \in DOMAIN m.used :
              /\ Renumber(m, j, k).used[i].use = IF m.used[i].use = j THEN k ELSE m.used[i].use
              /\ Renumber(m, j, k).used[i].submit = m.used[i].submit
  <1> DEFINE u == m.used
             t == [i \in DOMAIN u |-> [use |-> IF u[i].use = j THEN k ELSE u[i].use, submit |-> u[i].submit]]
             c == IF m.current = j THEN k ELSE m.current
  <1>1. /\ m.current \in {NoPool} \cup Nat
        /\ Len(u) \in Nat /\ DOMAIN u = 1..Len(u)
        /\ \A i \in DOMAIN u : u[i].use \in Nat /\ u[i].submit \in Nat /\ u[i] = [use |-> u[i].use, submit |-> u[i].submit]
    BY PoolIs
  <1>2. \A i \in DOMAIN u : [u[i] EXCEPT !.use = IF @ = j THEN k ELSE @]
                            = [use |-> IF u[i].use = j THEN k ELSE u[i].use, submit |-> u[i].submit]
    <2>. HIDE DEF u
    <2>. QED BY <1>1
  <1>3. Renumber(m, j, k) = [current |-> c, used |-> t]
    BY <1>2 DEF Renumber
  <1>. HIDE DEF u
  <1>4. \A i \in 1..Len(u) : [use |-> IF u[i].use = j THEN k ELSE u[i].use, submit |-> u[i].submit] \in Retired
    BY <1>1 DEF Retired
  <1>5. t \in Seq(Retired) /\ DOMAIN t = DOMAIN u
    BY <1>1, <1>4
  <1>6. \A i \in DOMAIN u : t[i].use = (IF u[i].use = j THEN k ELSE u[i].use) /\ t[i].submit = u[i].submit
    BY <1>1
  <1>7. c \in {NoPool} \cup Nat
    BY <1>1
  <1>. HIDE DEF t, c
  <1>. QED BY <1>3, <1>5, <1>6, <1>7 DEF Pool, u, c

\* A pool that was to be retired with a later submit can be so with this one.
LEMMA RenumberedInOrder ==
  ASSUME NEW m \in Pool, NEW j \in Nat, NEW k \in Nat, k <= j, RetiredAfterUse(m)
  PROVE  RetiredAfterUse(Renumber(m, j, k))
  <1> DEFINE v == Renumber(m, j, k)
  <1>1. /\ DOMAIN v.used = DOMAIN m.used
        /\ \A i \in DOMAIN m.used :
             /\ v.used[i].use = IF m.used[i].use = j THEN k ELSE m.used[i].use
             /\ v.used[i].submit = m.used[i].submit
    BY Renumbered
  <1>. HIDE DEF v
  <1>2. ASSUME NEW i \in DOMAIN m.used
        PROVE  v.used[i].use <= v.used[i].submit
    <2>1. m.used[i].use \in Nat /\ m.used[i].submit \in Nat /\ m.used[i].use <= m.used[i].submit
      BY PoolIs DEF RetiredAfterUse
    <2>. QED BY <1>1, <2>1
  <1>3. RetiredAfterUse(v)
    BY <1>1, <1>2 DEF RetiredAfterUse
  <1>. QED BY <1>3 DEF v

LEMMA SubmitAccounted ==
  ASSUME Accounted, SubmitUploads
  PROVE  Accounted'
  <1> DEFINE u == [timelineId |-> submitIndex, size |-> pending]
             m == WithCurrent(uploadPools, lastFinished)
  <1>1. /\ pc = "flush" /\ pc' = "begin" /\ submitIndex' = submitIndex + 1 /\ begun' = FALSE
        /\ submitted' = (IF pending = 0 THEN submitted ELSE Append(submitted, u)) /\ pending' = 0
        /\ uploadPools' = Retire(UsedBy(m, submitIndex), submitIndex)
        /\ setPools' = Retire(setPools, submitIndex)
        /\ UNCHANGED <<lastFinished, nextFrame, toDispose, destroyed, lastUse, timeline,
                       ring, after, executing, request, semaphoreIndex, presentDone>>
        /\ UNCHANGED <<phase, framePools>>
    BY DEF SubmitUploads, Flush, EndSubmit, TakePending, callVars
  <1>2. QueueTypes /\ RingTypes /\ FrameTypes /\ FrameInv /\ DisposalInv /\ PoolsInv /\ RingAccounted
    BY DEF Accounted
  <1>. HIDE DEF m
  <1>3. submitIndex \in Nat /\ timeline \in Nat
    BY <1>2 DEF QueueTypes
  <1>4. QueueTypes'
    <2>1. lastUse' \in [Object -> 0..submitIndex]
      BY <1>1, <1>2 DEF QueueTypes
    <2>2. submitIndex' - 1 = submitIndex
      BY <1>1, <1>3
    <2>3. lastFinished' \in 0..submitIndex /\ timeline' \in 0..submitIndex
      BY <1>1, <1>2 DEF QueueTypes
    <2>4. /\ lastUse' \in [Object -> 0..(submitIndex' - 1)]
          /\ lastFinished' \in 0..(submitIndex' - 1) /\ timeline' \in 0..(submitIndex' - 1)
      BY <2>1, <2>2, <2>3
    <2>5. submitIndex' \in Nat \ {0}
      BY <1>1, <1>3
    <2>. QED BY <1>1, <1>2, <2>4, <2>5 DEF QueueTypes
  <1>5. FrameTypes' /\ FrameInv'
    BY <1>1, <1>2, BoundsAssumption DEF FrameTypes, FrameInv, PCs, QueueTypes
  <1>6. DisposalInv'
    BY <1>1, <1>2, <1>3, DisposalKept
  <1>7. RingTypes' /\ RingAccounted'
    <2>1. /\ submitted \in Seq(Submitted) /\ ring \in Ring /\ pending \in Nat
          /\ ring.used = Total(submitted) + pending
          /\ \A i \in DOMAIN submitted : submitted[i].timelineId \in Nat /\ submitted[i].timelineId < submitIndex
      BY <1>2, SizesOf DEF RingTypes, RingAccounted
    <2>2. CASE pending = 0
      BY <1>1, <1>3, <2>1, <2>2 DEF RingTypes, RingAccounted
    <2>3. CASE pending # 0
      <3>1. Len(submitted) \in 0..Len(submitted) /\ Len(submitted) \in Nat
        BY <2>1
      <3>2. Total(submitted) \in Nat
        BY <2>1, <3>1, SumsDefined DEF Total
      <3>3. u \in Submitted /\ u.timelineId = submitIndex /\ u.size = pending
        <4>1. pending \in 1..Size
          BY <2>1, <2>3, <3>2, Rings
        <4>. QED BY <1>3, <4>1 DEF Submitted
      <3>. HIDE DEF u
      <3>4. submitted' = Append(submitted, u)
        BY <1>1, <2>3
      <3>5. /\ submitted' \in Seq(Submitted) /\ Len(submitted') = Len(submitted) + 1
            /\ DOMAIN submitted' = 1..(Len(submitted) + 1) /\ DOMAIN submitted = 1..Len(submitted)
            /\ \A i \in 1..Len(submitted) : submitted'[i] = submitted[i]
            /\ submitted'[Len(submitted) + 1] = u
        BY <2>1, <3>3, <3>4, Appended
      <3>6. Total(submitted') = Total(submitted) + pending
        BY <2>1, <3>3, <3>4, <3>5, SumsAppended DEF Total
      <3>7. 1..(Len(submitted) + 1) = 1..Len(submitted) \cup {Len(submitted) + 1}
        BY <3>1
      <3>8. \A i \in DOMAIN submitted' : submitted'[i].timelineId < submitIndex'
        BY <1>1, <1>3, <2>1, <3>3, <3>5, <3>7
      <3>. QED BY <1>1, <2>1, <3>2, <3>5, <3>6, <3>8 DEF RingTypes, RingAccounted
    <2>. QED BY <2>2, <2>3
  <1>8. PoolsInv'
    <2>1. phase \in {"loop", "opened"} /\ phase' = phase
      BY <1>1, <1>2 DEF FrameInv
    <2>2. uploadPools' \in Pool /\ RetiredAfterUse(uploadPools')
      <3>1. m \in Pool /\ RetiredAfterUse(m)
        BY <1>2, Taken, TakenInOrder DEF PoolsInv, m
      <3> DEFINE v == UsedBy(m, submitIndex)
      <3>2. v \in Pool /\ v.current = submitIndex /\ v.used = m.used
        BY <1>3, <3>1, Used
      <3>3. RetiredAfterUse(v) /\ uploadPools' = Retire(v, submitIndex)
        BY <1>1, <3>1, <3>2 DEF RetiredAfterUse
      <3>. HIDE DEF v
      <3>. QED BY <1>3, <3>2, <3>3, Retires
    <2>3. setPools' \in Pool /\ RetiredAfterUse(setPools') /\ setPools'.current = NoPool
      <3>1. setPools \in Pool /\ RetiredAfterUse(setPools) /\ setPools.current \in {NoPool, 0}
        BY <1>2, <2>1 DEF PoolsInv, RetiredAfterUse
      <3>2. setPools.current # NoPool => setPools.current <= submitIndex
        BY <1>3, <3>1
      <3>. QED BY <1>1, <1>3, <3>1, <3>2, Retires
    <2>4. /\ framePools' \in Pool /\ RetiredAfterUse(framePools')
          /\ phase' # "loop" => framePools'.current = Recording
      BY <1>1, <1>2 DEF PoolsInv
    <2>5. phase' # "recorded"
      BY <2>1
    <2>. QED BY <2>2, <2>3, <2>4, <2>5 DEF PoolsInv, RetiredAfterUse
  <1>. QED BY <1>4, <1>5, <1>6, <1>7, <1>8 DEF Accounted

LEMMA SubmitFailsAccounted ==
  ASSUME Accounted, SubmitUploadsFails
  PROVE  Accounted'
  <1>1. /\ pc = "flush" /\ pc' = after /\ after' = "frame"
        /\ UNCHANGED <<submitIndex, begun, lastFinished, nextFrame, toDispose, destroyed, lastUse, timeline,
                       ring, pending, submitted, executing, request, semaphoreIndex, presentDone>>
        /\ uploadPools' \in {uploadPools, WithCurrent(uploadPools, lastFinished)}
        /\ UNCHANGED <<phase, framePools, setPools>>
    BY DEF SubmitUploadsFails, FlushFails, stagingVars, queueVars
  <1>2. QueueTypes /\ RingTypes /\ FrameTypes /\ FrameInv /\ DisposalInv /\ PoolsInv /\ RingAccounted
    BY DEF Accounted
  <1>3. QueueTypes'
    BY <1>1, <1>2 DEF QueueTypes
  <1>4. FrameTypes' /\ FrameInv'
    BY <1>1, <1>2, BoundsAssumption DEF FrameTypes, FrameInv, PCs, QueueTypes
  <1>5. RingTypes' /\ RingAccounted' /\ DisposalInv'
    BY <1>1, <1>2, RingKept, DisposalKept DEF QueueTypes
  <1>6. PoolsInv'
    <2>1. uploadPools' \in Pool /\ RetiredAfterUse(uploadPools')
      BY <1>1, <1>2, Taken, TakenInOrder DEF PoolsInv
    <2>. QED BY <1>1, <1>2, <2>1 DEF PoolsInv, RetiredAfterUse
  <1>. QED BY <1>3, <1>4, <1>5, <1>6 DEF Accounted

LEMMA OpenAccounted ==
  ASSUME Accounted, OpenCommands
  PROVE  Accounted'
  <1> DEFINE m == WithCurrent(framePools, lastFinished)
  <1>1. /\ pc = "frame" /\ executing /\ phase = "loop" /\ phase' = "opened"
        /\ UNCHANGED <<submitIndex, begun, lastFinished, nextFrame, toDispose, destroyed, lastUse, timeline,
                       ring, pending, submitted, pc, after, executing, request, semaphoreIndex, presentDone>>
        /\ framePools' = UsedBy(m, Recording)
        /\ UNCHANGED <<uploadPools, setPools>>
    BY DEF OpenCommands, vars, frameVars, callVars, stagingVars, queueVars
  <1>2. QueueTypes /\ RingTypes /\ FrameTypes /\ FrameInv /\ DisposalInv /\ PoolsInv /\ RingAccounted
    BY DEF Accounted
  <1>3. QueueTypes'
    BY <1>1, <1>2 DEF QueueTypes
  <1>4. FrameTypes' /\ FrameInv'
    BY <1>1, <1>2, BoundsAssumption DEF FrameTypes, FrameInv, PCs, QueueTypes
  <1>5. RingTypes' /\ RingAccounted' /\ DisposalInv'
    BY <1>1, <1>2, RingKept, DisposalKept DEF QueueTypes
  <1>6. PoolsInv'
    <2>1. m \in Pool /\ RetiredAfterUse(m) /\ Recording \in Nat
      BY <1>2, Taken, TakenInOrder, BoundsAssumption DEF PoolsInv, Recording
    <2>. HIDE DEF m
    <2>2. framePools' \in Pool /\ framePools'.current = Recording /\ framePools'.used = m.used
      BY <1>1, <2>1, Used
    <2>3. RetiredAfterUse(framePools')
      BY <2>1, <2>2 DEF RetiredAfterUse
    <2>. QED BY <1>1, <1>2, <2>2, <2>3 DEF PoolsInv, RetiredAfterUse
  <1>. QED BY <1>3, <1>4, <1>5, <1>6 DEF Accounted

\* The sets of a frame are acquired: the pools that were current go to the
\* submit that is next.
LEMMA RecordAccounted ==
  ASSUME Accounted, NEW n, NEW exhausted \in BOOLEAN, Record(n, exhausted)
  PROVE  Accounted'
  <1> DEFINE Late(e) == e.use <= e.submit \/ e = [use |-> Recording, submit |-> submitIndex]
             w == WithCurrent(setPools, lastFinished)
             sets == UsedBy(w, Recording)
             x == Exhausted(sets)
             v == WithCurrent(x, lastFinished)
  <1>1. /\ pc = "frame" /\ phase = "opened" /\ phase' = "recorded"
        /\ UNCHANGED <<submitIndex, begun, lastFinished, nextFrame, toDispose, destroyed, lastUse, timeline,
                       ring, pending, submitted, pc, after, executing, request, semaphoreIndex, presentDone>>
        /\ exhausted => SetSubmit # 0
        /\ setPools' = IF exhausted THEN UsedBy(v, Recording) ELSE sets
        /\ UNCHANGED <<uploadPools, framePools>>
    BY DEF Record, AcquireSets, vars, frameVars, callVars, stagingVars, queueVars
  <1>2. QueueTypes /\ RingTypes /\ FrameTypes /\ FrameInv /\ DisposalInv /\ PoolsInv /\ RingAccounted
    BY DEF Accounted
  <1>3. QueueTypes'
    BY <1>1, <1>2 DEF QueueTypes
  <1>4. FrameTypes' /\ FrameInv'
    BY <1>1, <1>2, BoundsAssumption DEF FrameTypes, FrameInv, PCs, QueueTypes
  <1>5. RingTypes' /\ RingAccounted' /\ DisposalInv'
    BY <1>1, <1>2, RingKept, DisposalKept DEF QueueTypes
  <1>6. Recording \in Nat /\ submitIndex \in Nat
    BY <1>2, BoundsAssumption DEF Recording, QueueTypes
  <1>7. setPools \in Pool /\ RetiredAfterUse(setPools)
    BY <1>1, <1>2 DEF PoolsInv, RetiredAfterUse
  <1>8. w \in Pool /\ RetiredAfterUse(w)
    BY <1>7, Taken, TakenInOrder
  <1>. HIDE DEF w
  <1>9. sets \in Pool /\ sets.current = Recording /\ sets.used = w.used /\ RetiredAfterUse(sets)
    BY <1>6, <1>8, Used DEF RetiredAfterUse
  <1>. HIDE DEF sets
  <1>10. CASE ~exhausted
    <2>1. setPools' = sets
      BY <1>1, <1>10
    <2>. QED BY <1>1, <1>2, <1>3, <1>4, <1>5, <1>9, <2>1 DEF PoolsInv, RetiredAfterUse, Accounted
  <1>11. CASE exhausted
    <2> DEFINE e == [use |-> Recording, submit |-> submitIndex]
               u == sets.used
               t == Append(u, e)
    <2>1. u \in Seq(Retired) /\ Len(u) \in Nat /\ e \in Retired /\ Late(e)
      BY <1>6, <1>9, PoolIs DEF Retired
    <2>2. x = [current |-> NoPool, used |-> t]
      BY <1>1, <1>9, <1>11 DEF Exhausted, SetSubmit
    <2>3. \A i \in DOMAIN u : Late(u[i])
      BY <1>9 DEF RetiredAfterUse
    <2>. HIDE DEF u, e, Late
    <2>4. /\ t \in Seq(Retired) /\ DOMAIN t = 1..(Len(u) + 1) /\ DOMAIN u = 1..Len(u)
          /\ \A i \in 1..Len(u) : t[i] = u[i]
          /\ t[Len(u) + 1] = e
      BY <2>1, Appended
    <2>. HIDE DEF t
    <2>5. 1..(Len(u) + 1) = 1..Len(u) \cup {Len(u) + 1}
      BY <2>1
    <2>6. x \in Pool /\ x.used = t /\ \A i \in DOMAIN t : Late(t[i])
      BY <2>1, <2>2, <2>3, <2>4, <2>5 DEF Pool
    <2>. HIDE DEF x
    <2>7. v \in Pool /\ \A i \in DOMAIN v.used : Late(v.used[i])
      BY <2>6, Taken
    <2>. HIDE DEF v
    <2>8. setPools' \in Pool /\ setPools'.current = Recording /\ setPools'.used = v.used
      BY <1>1, <1>6, <1>11, <2>7, Used
    <2>9. \A i \in DOMAIN setPools'.used : Late(setPools'.used[i])
      BY <2>7, <2>8
    <2>10. PoolsInv'
      <3>1. uploadPools' \in Pool /\ framePools' \in Pool
            /\ RetiredAfterUse(uploadPools') /\ RetiredAfterUse(framePools') /\ framePools'.current = Recording
        BY <1>1, <1>2 DEF PoolsInv
      <3>2. submitIndex' = submitIndex
        BY <1>1
      <3>. QED BY <1>1, <2>8, <2>9, <3>1, <3>2 DEF PoolsInv, RetiredAfterUse, Late
    <2>. QED BY <1>3, <1>4, <1>5, <2>10 DEF Accounted
  <1>. QED BY <1>10, <1>11

\* What flush_deferred_disposal adds waits for submit k.
LEMMA DeferredObjects ==
  ASSUME QueueTypes, NEW k \in Nat
  PROVE  /\ Deferred(k) \in Seq(Doomed)
         /\ \A i \in DOMAIN Deferred(k) :
              \/ \E j \in DOMAIN toDispose : Deferred(k)[i] = toDispose[j]
              \/ Deferred(k)[i].object \in Object /\ Deferred(k)[i].submit = k
  <1> DEFINE q == [i \in 1..Len(nextFrame) |-> [object |-> nextFrame[i], submit |-> k]]
             p == toDispose
  <1>1. /\ p \in Seq(Doomed) /\ Len(p) \in Nat /\ DOMAIN p = 1..Len(p)
        /\ Len(nextFrame) \in Nat /\ \A i \in 1..Len(nextFrame) : nextFrame[i] \in Object
    BY DEF QueueTypes
  <1>2. \A i \in 1..Len(nextFrame) : [object |-> nextFrame[i], submit |-> k] \in Doomed
    BY <1>1 DEF Doomed
  <1>3. q \in Seq(Doomed) /\ Len(q) = Len(nextFrame)
    BY <1>1, <1>2
  <1>4. \A i \in 1..Len(q) : q[i].object \in Object /\ q[i].submit = k
    BY <1>1, <1>3
  <1>5. Deferred(k) = p \o q
    BY DEF Deferred
  <1>. HIDE DEF p, q
  <1> DEFINE d == p \o q
  <1>6. /\ d \in Seq(Doomed) /\ DOMAIN d = 1..(Len(p) + Len(q))
        /\ \A i \in 1..Len(p) : d[i] = p[i]
        /\ \A i \in 1..Len(q) : d[Len(p) + i] = q[i]
    <2>1. p \in Seq(Doomed) /\ q \in Seq(Doomed)
      BY <1>1, <1>3
    <2>. QED BY <2>1
  <1>. HIDE DEF d
  <1>7. ASSUME NEW i \in DOMAIN d
        PROVE  (\E j \in DOMAIN p : d[i] = p[j]) \/ (d[i].object \in Object /\ d[i].submit = k)
    <2>1. CASE i \in 1..Len(p)
      BY <1>1, <1>6, <2>1
    <2>2. CASE i \notin 1..Len(p)
      <3>1. i - Len(p) \in 1..Len(q) /\ Len(p) + (i - Len(p)) = i
        BY <1>1, <1>3, <1>6, <2>2
      <3>2. d[i] = q[i - Len(p)]
        BY <1>6, <3>1
      <3>. QED BY <1>4, <3>1, <3>2
    <2>. QED BY <2>1, <2>2
  <1>. QED BY <1>5, <1>6, <1>7 DEF d, p

\* An object that waits, or is destroyed, is not used by the frame.
LEMMA NotUsed ==
  ASSUME QueueTypes
  PROVE  /\ \A i \in DOMAIN toDispose :
              toDispose[i].object \in Object \ UsedByFrame /\ toDispose[i].submit \in Nat
         /\ \A o \in destroyed : o \in Object \ UsedByFrame
  <1>1. toDispose \in Seq(Doomed) /\ destroyed \subseteq Object
    BY DEF QueueTypes
  <1>2. DOMAIN toDispose = 1..Len(toDispose) /\ \A i \in DOMAIN toDispose : toDispose[i] \in Doomed
    BY <1>1, Elements
  <1>3. \A d \in Doomed : d.object \in Object /\ d.submit \in Nat
    BY DEF Doomed
  <1>. QED BY <1>1, <1>2, <1>3 DEF UsedByFrame

LEMMA PresentAccounted ==
  ASSUME Accounted, PresentFrame
  PROVE  Accounted'
  <1> DEFINE k == submitIndex
             f == Renumber(framePools, Recording, k)
             g == Renumber(setPools, Recording, k)
  <1>1. /\ pc = "frame" /\ executing /\ phase = "recorded" /\ phase' = "loop"
        /\ pc' = "idle" /\ executing' = FALSE /\ begun' = FALSE /\ submitIndex' = submitIndex + 1
        /\ toDispose' = Deferred(submitIndex') /\ nextFrame' = << >>
        /\ presentDone' = [presentDone EXCEPT ![semaphoreIndex] = submitIndex]
        /\ lastUse' = [o \in Object |-> IF o \in UsedByFrame THEN submitIndex ELSE lastUse[o]]
        /\ semaphoreIndex' = (semaphoreIndex + 1) % Images
        /\ framePools' = Retire(f, k) /\ setPools' = Retire(g, k)
        /\ UNCHANGED <<lastFinished, destroyed, timeline, ring, pending, submitted, after, request>>
        /\ uploadPools' = uploadPools
    BY DEF PresentFrame, Present, EndSubmit, EndFrame, stagingVars
  <1>2. QueueTypes /\ RingTypes /\ FrameTypes /\ FrameInv /\ DisposalInv /\ PoolsInv /\ RingAccounted
    BY DEF Accounted
  <1>3. /\ submitIndex \in Nat \ {0} /\ submitIndex' \in Nat \ {0} /\ submitIndex' - 1 = submitIndex
        /\ timeline \in 0..(submitIndex - 1) /\ lastFinished \in 0..(submitIndex - 1)
        /\ \A o \in Object : lastUse[o] \in 0..(submitIndex - 1)
    BY <1>1, <1>2 DEF QueueTypes
  <1>4. \A o \in Object : /\ lastUse'[o] = IF o \in UsedByFrame THEN submitIndex ELSE lastUse[o]
                          /\ lastUse'[o] \in 0..submitIndex
    BY <1>1, <1>3
  <1>5. /\ toDispose' \in Seq(Doomed)
        /\ \A i \in DOMAIN toDispose' :
              \/ \E j \in DOMAIN toDispose : toDispose'[i] = toDispose[j]
              \/ toDispose'[i].object \in Object /\ toDispose'[i].submit = submitIndex'
    BY <1>1, <1>2, <1>3, DeferredObjects
  <1>6. QueueTypes'
    <2>1. lastUse' \in [Object -> 0..(submitIndex' - 1)]
      BY <1>1, <1>3, <1>4
    <2>2. lastFinished' \in 0..(submitIndex' - 1) /\ timeline' \in 0..(submitIndex' - 1)
      BY <1>1, <1>3
    <2>3. destroyed' \subseteq Object /\ begun' \in BOOLEAN
      BY <1>1, <1>2 DEF QueueTypes
    <2>4. submitIndex' \in Nat \ {0} /\ toDispose' \in Seq(Doomed)
      BY <1>3, <1>5
    <2>5. nextFrame' \in Seq(Object)
      BY <1>1
    <2>. QED BY <2>1, <2>2, <2>3, <2>4, <2>5 DEF QueueTypes
  <1>7. DisposalInv'
    <2>1. ASSUME NEW i \in DOMAIN toDispose'
          PROVE  lastUse'[toDispose'[i].object] <= toDispose'[i].submit
      <3>1. CASE \E j \in DOMAIN toDispose : toDispose'[i] = toDispose[j]
        <4>1. PICK j \in DOMAIN toDispose : toDispose'[i] = toDispose[j]
          BY <3>1
        <4>2. toDispose[j].object \in Object \ UsedByFrame
          BY <1>2, NotUsed
        <4>3. lastUse[toDispose[j].object] <= toDispose[j].submit
          BY <1>2 DEF DisposalInv
        <4>. QED BY <1>4, <4>1, <4>2, <4>3
      <3>2. CASE toDispose'[i].object \in Object /\ toDispose'[i].submit = submitIndex'
        BY <1>1, <1>3, <1>4, <3>2
      <3>. QED BY <1>5, <3>1, <3>2
    <2>2. ASSUME NEW o \in destroyed'
          PROVE  lastUse'[o] <= timeline'
      <3>1. o \in destroyed /\ o \in Object \ UsedByFrame
        BY <1>1, <1>2, NotUsed
      <3>2. lastUse[o] <= timeline
        BY <1>2, <3>1 DEF DisposalInv, DestroyedAfterUse
      <3>. QED BY <1>1, <1>4, <3>1, <3>2
    <2>. QED BY <2>1, <2>2 DEF DisposalInv, DestroyedAfterUse
  <1>8. FrameTypes' /\ FrameInv'
    <2>1. semaphoreIndex' \in 0..(Images - 1)
      BY <1>1, <1>2, ImagesAssumption DEF FrameTypes
    <2>2. presentDone' \in [0..(Images - 1) -> 0..(submitIndex' - 1)]
      <3> DEFINE T == 0..(submitIndex' - 1)
      <3>1. presentDone \in [0..(Images - 1) -> 0..(submitIndex - 1)]
        BY <1>2 DEF FrameTypes
      <3>2. 0..(submitIndex - 1) \subseteq T /\ submitIndex \in T
        <4>1. T = 0..submitIndex
          BY <1>3
        <4>2. 0..(submitIndex - 1) \subseteq 0..submitIndex /\ submitIndex \in 0..submitIndex
          BY <1>3
        <4>. QED BY <4>1, <4>2
      <3>. HIDE DEF T
      <3>3. presentDone \in [0..(Images - 1) -> T]
        BY <3>1, <3>2
      <3>4. presentDone' \in [0..(Images - 1) -> T]
        BY <1>1, <3>2, <3>3
      <3>. QED BY <3>4 DEF T
    <2>3. pc' \in PCs /\ after' \in {"frame", "retry"} /\ executing' \in BOOLEAN
          /\ request' \in Request \cup {NoRequest}
      BY <1>1, <1>2 DEF FrameTypes, PCs
    <2>4. FrameInv'
      BY <1>1 DEF FrameInv
    <2>. QED BY <2>1, <2>2, <2>3, <2>4 DEF FrameTypes
  <1>9. RingTypes' /\ RingAccounted'
    BY <1>1, <1>2, <1>3, RingKept
  <1>10. PoolsInv'
    <2>1. Recording \in Nat /\ k \in Nat /\ k <= Recording
      BY <1>1, <1>2, <1>3, BoundsAssumption DEF FrameInv, Recording
    <2>2. framePools' \in Pool /\ RetiredAfterUse(framePools')
      <3>1. /\ framePools \in Pool /\ RetiredAfterUse(framePools) /\ framePools.current = Recording
        BY <1>1, <1>2 DEF PoolsInv
      <3>2. f \in Pool /\ f.current = k
        <4>1. f \in Pool /\ f.current = IF framePools.current = Recording THEN k ELSE framePools.current
          BY <2>1, <3>1, Renumbered
        <4>. QED BY <3>1, <4>1
      <3>3. RetiredAfterUse(f)
        BY <2>1, <3>1, RenumberedInOrder
      <3>. HIDE DEF f
      <3>. QED BY <1>1, <2>1, <3>2, <3>3, Retires
    <2>3. setPools' \in Pool /\ RetiredAfterUse(setPools') /\ setPools'.current = NoPool
      <3>1. /\ setPools \in Pool /\ setPools.current = Recording
            /\ \A i \in DOMAIN setPools.used :
                 \/ setPools.used[i].use <= setPools.used[i].submit
                 \/ setPools.used[i] = [use |-> Recording, submit |-> k]
        BY <1>1, <1>2 DEF PoolsInv
      <3>2. g \in Pool /\ g.current = k /\ DOMAIN g.used = DOMAIN setPools.used
        BY <2>1, <3>1, Renumbered
      <3>3. ASSUME NEW i \in DOMAIN setPools.used
            PROVE  g.used[i].use <= g.used[i].submit
        <4>1. setPools.used[i].use \in Nat /\ setPools.used[i].submit \in Nat
          BY <3>1, PoolIs
        <4>2. /\ g.used[i].use = IF setPools.used[i].use = Recording THEN k ELSE setPools.used[i].use
              /\ g.used[i].submit = setPools.used[i].submit
          BY <2>1, <3>1, Renumbered
        <4>. HIDE DEF g
        <4>3. CASE setPools.used[i].use <= setPools.used[i].submit
          BY <2>1, <4>1, <4>2, <4>3
        <4>4. CASE setPools.used[i] = [use |-> Recording, submit |-> k]
          <5>1. setPools.used[i].use = Recording /\ setPools.used[i].submit = k
            BY <4>4
          <5>. QED BY <2>1, <4>2, <5>1
        <4>. QED BY <3>1, <4>3, <4>4
      <3>. HIDE DEF g
      <3>4. RetiredAfterUse(g)
        BY <3>2, <3>3 DEF RetiredAfterUse
      <3>. QED BY <1>1, <2>1, <3>2, <3>4, Retires
    <2>. QED BY <1>1, <1>2, <2>2, <2>3 DEF PoolsInv, RetiredAfterUse
  <1>. QED BY <1>6, <1>7, <1>8, <1>9, <1>10 DEF Accounted

LEMMA PresentFailsAccounted ==
  ASSUME Accounted, PresentFrameFails
  PROVE  Accounted'
  <1> DEFINE f == Renumber(framePools, Recording, 0)
             g == Renumber(setPools, Recording, 0)
  <1>1. /\ pc = "frame" /\ executing /\ phase = "recorded" /\ phase' = "loop"
        /\ pc' = "idle" /\ executing' = FALSE
        /\ toDispose' = Deferred(submitIndex) /\ nextFrame' = << >>
        /\ semaphoreIndex' = (semaphoreIndex + 1) % Images
        /\ framePools' = f /\ setPools' = g
        /\ UNCHANGED <<submitIndex, begun, lastUse, presentDone,
                       lastFinished, destroyed, timeline, ring, pending, submitted, after, request>>
        /\ uploadPools' = uploadPools
    BY DEF PresentFrameFails, PresentFails, EndFrame, stagingVars
  <1>2. QueueTypes /\ RingTypes /\ FrameTypes /\ FrameInv /\ DisposalInv /\ PoolsInv /\ RingAccounted
    BY DEF Accounted
  <1>3. submitIndex \in Nat \ {0} /\ \A o \in Object : lastUse[o] \in 0..(submitIndex - 1)
    BY <1>2 DEF QueueTypes
  <1>4. /\ toDispose' \in Seq(Doomed)
        /\ \A i \in DOMAIN toDispose' :
              \/ \E j \in DOMAIN toDispose : toDispose'[i] = toDispose[j]
              \/ toDispose'[i].object \in Object /\ toDispose'[i].submit = submitIndex
    BY <1>1, <1>2, <1>3, DeferredObjects
  <1>5. QueueTypes'
    <2>1. nextFrame' \in Seq(Object)
      BY <1>1
    <2>. QED BY <1>1, <1>2, <1>4, <2>1 DEF QueueTypes
  <1>6. DisposalInv'
    <2>1. \A i \in DOMAIN toDispose' : lastUse[toDispose'[i].object] <= toDispose'[i].submit
      BY <1>2, <1>3, <1>4 DEF DisposalInv
    <2>. QED BY <1>1, <1>2, <2>1 DEF DisposalInv, DestroyedAfterUse
  <1>7. FrameTypes' /\ FrameInv'
    <2>1. semaphoreIndex' \in 0..(Images - 1)
      BY <1>1, <1>2, ImagesAssumption DEF FrameTypes
    <2>2. pc' \in PCs /\ executing' \in BOOLEAN /\ FrameInv'
      BY <1>1 DEF FrameInv, PCs
    <2>. QED BY <1>1, <1>2, <2>1, <2>2 DEF FrameTypes
  <1>8. RingTypes' /\ RingAccounted'
    BY <1>1, <1>2, <1>3, RingKept
  <1>9. PoolsInv'
    <2>1. Recording \in Nat /\ 0 <= Recording
      BY BoundsAssumption DEF Recording
    <2>2. framePools' \in Pool /\ RetiredAfterUse(framePools')
      <3>1. framePools \in Pool /\ RetiredAfterUse(framePools)
        BY <1>2 DEF PoolsInv
      <3>2. f \in Pool
        BY <2>1, <3>1, Renumbered
      <3>3. RetiredAfterUse(f)
        BY <2>1, <3>1, RenumberedInOrder
      <3>. QED BY <1>1, <3>2, <3>3
    <2>3. setPools' \in Pool /\ RetiredAfterUse(setPools') /\ setPools'.current = 0
      <3>1. /\ setPools \in Pool /\ setPools.current = Recording
            /\ \A i \in DOMAIN setPools.used :
                 \/ setPools.used[i].use <= setPools.used[i].submit
                 \/ setPools.used[i] = [use |-> Recording, submit |-> submitIndex]
        BY <1>1, <1>2 DEF PoolsInv
      <3>2. g \in Pool /\ g.current = 0 /\ DOMAIN g.used = DOMAIN setPools.used
        BY <2>1, <3>1, Renumbered
      <3>3. ASSUME NEW i \in DOMAIN setPools.used
            PROVE  g.used[i].use <= g.used[i].submit
        <4>1. setPools.used[i].use \in Nat /\ setPools.used[i].submit \in Nat
          BY <3>1, PoolIs
        <4>2. /\ g.used[i].use = IF setPools.used[i].use = Recording THEN 0 ELSE setPools.used[i].use
              /\ g.used[i].submit = setPools.used[i].submit
          BY <2>1, <3>1, Renumbered
        <4>. HIDE DEF g
        <4>3. CASE setPools.used[i].use <= setPools.used[i].submit
          BY <2>1, <4>1, <4>2, <4>3
        <4>4. CASE setPools.used[i] = [use |-> Recording, submit |-> submitIndex]
          <5>1. setPools.used[i].use = Recording /\ setPools.used[i].submit = submitIndex
            BY <4>4
          <5>. QED BY <1>3, <4>2, <5>1
        <4>. QED BY <3>1, <4>3, <4>4
      <3>. HIDE DEF g
      <3>4. RetiredAfterUse(g)
        BY <3>2, <3>3 DEF RetiredAfterUse
      <3>. QED BY <1>1, <3>2, <3>4
    <2>. QED BY <1>1, <1>2, <2>2, <2>3 DEF PoolsInv, RetiredAfterUse
  <1>. QED BY <1>5, <1>6, <1>7, <1>8, <1>9 DEF Accounted

LEMMA NoPoolsInOrder ==
  NoPools \in Pool /\ RetiredAfterUse(NoPools) /\ NoPools.current = NoPool /\ DOMAIN NoPools.used = {}
  <1>1. NoPools \in Pool /\ NoPools.current = NoPool
    BY DEF NoPools, Pool
  <1>2. NoPools.used = << >> /\ DOMAIN << >> = {}
    BY DEF NoPools
  <1>. QED BY <1>1, <1>2 DEF RetiredAfterUse

LEMMA ShutdownAccounted ==
  ASSUME Accounted, ShutdownRenderer
  PROVE  Accounted'
  <1>1. /\ pc = "idle" /\ InFlight = {} /\ pc' = "down"
        /\ toDispose' = << >> /\ nextFrame' = << >>
        /\ destroyed' = destroyed \cup {d.object : d \in Range(Deferred(submitIndex))}
        /\ uploadPools' = NoPools /\ framePools' = NoPools /\ setPools' = NoPools
        /\ UNCHANGED <<submitIndex, begun, lastUse, presentDone, semaphoreIndex, executing,
                       lastFinished, timeline, ring, pending, submitted, after, request, phase>>
    BY DEF ShutdownRenderer, Shutdown, stagingVars, callVars
  <1>2. QueueTypes /\ RingTypes /\ FrameTypes /\ FrameInv /\ DisposalInv /\ PoolsInv /\ RingAccounted
    BY DEF Accounted
  <1>3. /\ submitIndex \in Nat \ {0} /\ timeline \in 0..(submitIndex - 1)
        /\ \A o \in Object : lastUse[o] \in 0..(submitIndex - 1)
    BY <1>2 DEF QueueTypes
  <1>4. timeline = submitIndex - 1
    <2>1. CASE timeline < submitIndex - 1
      <3>1. timeline + 1 \in InFlight
        BY <1>3, <2>1 DEF InFlight
      <3>. QED BY <1>1, <3>1
    <2>. QED BY <1>3, <2>1
  <1>5. destroyed' \subseteq Object
    <2>1. /\ Deferred(submitIndex) \in Seq(Doomed)
          /\ destroyed \subseteq Object
      BY <1>2, <1>3, DeferredObjects DEF QueueTypes
    <2>2. \A i \in DOMAIN Deferred(submitIndex) : Deferred(submitIndex)[i].object \in Object
      <3>1. \A i \in DOMAIN Deferred(submitIndex) : Deferred(submitIndex)[i] \in Doomed
        BY <2>1, Elements
      <3>. QED BY <3>1 DEF Doomed
    <2>3. \A d \in Range(Deferred(submitIndex)) : d.object \in Object
      BY <2>2 DEF Range
    <2>. QED BY <1>1, <2>1, <2>3
  <1>6. QueueTypes'
    <2>1. nextFrame' \in Seq(Object) /\ toDispose' \in Seq(Doomed)
      BY <1>1
    <2>. QED BY <1>1, <1>2, <1>5, <2>1 DEF QueueTypes
  <1>7. DisposalInv'
    <2>1. \A o \in destroyed' : lastUse[o] <= timeline
      BY <1>3, <1>4, <1>5
    <2>2. DOMAIN toDispose' = {}
      BY <1>1
    <2>. QED BY <1>1, <2>1, <2>2 DEF DisposalInv, DestroyedAfterUse
  <1>8. FrameTypes' /\ FrameInv'
    BY <1>1, <1>2 DEF FrameTypes, FrameInv, PCs
  <1>9. RingTypes' /\ RingAccounted'
    BY <1>1, <1>2, <1>3, RingKept
  <1>10. PoolsInv'
    <2>1. phase' = "loop"
      BY <1>1, <1>2 DEF FrameInv
    <2>. QED BY <1>1, <2>1, NoPoolsInOrder DEF PoolsInv
  <1>. QED BY <1>6, <1>7, <1>8, <1>9, <1>10 DEF Accounted

LEMMA InitAccounted ==
  RendererInit => Accounted
  <1>. SUFFICES ASSUME RendererInit
                PROVE  Accounted
    OBVIOUS
  <1>1. /\ submitIndex = 1 /\ lastFinished = 0 /\ begun = FALSE /\ nextFrame = << >> /\ toDispose = << >>
        /\ destroyed = {} /\ lastUse = [o \in Object |-> 0] /\ timeline = 0
        /\ ring = [first |-> 0, used |-> 0] /\ pending = 0 /\ submitted = << >>
        /\ pc = "idle" /\ after = "frame" /\ executing = FALSE /\ request = NoRequest
        /\ semaphoreIndex = 0 /\ presentDone = [i \in 0..(Images - 1) |-> 0]
        /\ phase = "loop" /\ uploadPools = NoPools /\ framePools = NoPools /\ setPools = NoPools
    BY DEF RendererInit, Init, QueueInit, StagingInit
  <1>2. QueueTypes
    <2>1. nextFrame \in Seq(Object) /\ toDispose \in Seq(Doomed)
      BY <1>1
    <2>2. submitIndex - 1 = 0 /\ 0..0 = {0}
      BY <1>1
    <2>3. lastUse \in [Object -> 0..(submitIndex - 1)]
      BY <1>1, <2>2
    <2>4. submitIndex \in Nat \ {0} /\ timeline \in 0..(submitIndex - 1) /\ lastFinished \in 0..(submitIndex - 1)
      BY <1>1
    <2>. QED BY <1>1, <2>1, <2>3, <2>4 DEF QueueTypes
  <1>3. /\ submitted \in Seq(Submitted) /\ Len(submitted) = 0 /\ DOMAIN submitted = {}
    BY <1>1
  <1>4. RingTypes /\ RingAccounted
    <2>1. ring \in Ring
      BY <1>1, SizeAssumption DEF Ring
    <2>2. Total(submitted) = 0
      BY <1>3, SumsDefined DEF Total
    <2>. QED BY <1>1, <1>3, <2>1, <2>2 DEF RingTypes, RingAccounted
  <1>5. FrameTypes
    <2>1. 0 \in 0..(Images - 1) /\ 0 \in 0..(submitIndex - 1)
      BY <1>1, ImagesAssumption
    <2>2. presentDone \in [0..(Images - 1) -> 0..(submitIndex - 1)]
      BY <1>1, <2>1
    <2>. QED BY <1>1, <2>1, <2>2 DEF FrameTypes, PCs
  <1>6. DisposalInv
    <2>1. DOMAIN toDispose = {}
      BY <1>1
    <2>. QED BY <1>1, <2>1 DEF DisposalInv, DestroyedAfterUse
  <1>7. PoolsInv
    BY <1>1, NoPoolsInOrder DEF PoolsInv
  <1>8. FrameInv
    BY <1>1 DEF FrameInv
  <1>. QED BY <1>2, <1>4, <1>5, <1>6, <1>7, <1>8 DEF Accounted

LEMMA NextAccounted ==
  ASSUME Accounted, [RendererNext]_rendererVars
  PROVE  Accounted'
  <1>1. CASE Elsewhere
    BY <1>1, AcquireAccounted, ExecuteAccounted, StutterAccounted, DoomAccounted DEF Elsewhere, Down
  <1>2. CASE ShutdownRenderer
    BY <1>2, ShutdownAccounted
  <1>3. CASE DeviceStep
    BY <1>3, DeviceAccounted
  <1>4. CASE RendererCall
    <2>1. CASE (Begin \/ Retry \/ Wait) /\ UNCHANGED clientVars
      BY <2>1, BeginAccounted, RetryAccounted, WaitAccounted
    <2>2. CASE SubmitUploads \/ SubmitUploadsFails
      BY <2>2, SubmitAccounted, SubmitFailsAccounted
    <2>3. CASE OpenCommands
      BY <2>3, OpenAccounted
    <2>4. ASSUME NEW l \in Loads, Record(l.downloads, l.exhausted)
          PROVE  Accounted'
      <3>1. l.exhausted \in BOOLEAN
        BY LoadsAssumption
      <3>. QED BY <2>4, <3>1, RecordAccounted
    <2>5. CASE PresentFrame \/ PresentFrameFails
      BY <2>5, PresentAccounted, PresentFailsAccounted
    <2>. QED BY <1>4, <2>1, <2>2, <2>3, <2>4, <2>5 DEF RendererCall
  <1>5. ASSUME NEW q \in Request, StageUpload(q)
        PROVE  Accounted'
    BY <1>5, UploadAccounted
  <1>6. CASE UNCHANGED rendererVars
    BY <1>6, StutterAccounted DEF rendererVars
  <1>. QED BY <1>1, <1>2, <1>3, <1>4, <1>5, <1>6 DEF RendererNext

\* Accounted holds in every reachable state: the types of the submits, bytes,
\* objects and pools, and that each waits for a submit no earlier than its use.
THEOREM AlwaysAccounted ==
  RendererSpec => []Accounted
  BY InitAccounted, NextAccounted, PTL DEF RendererSpec

\* The assertion of staging_buffer::end_submit at every step: the bytes in use
\* are those of the submits it remembers and those that are pending.
THEOREM BytesAccounted ==
  RendererSpec => []RingAccounted
  <1>1. Accounted => RingAccounted
    BY DEF Accounted
  <1>. QED BY <1>1, AlwaysAccounted, PTL

-----------------------------------------------------------------------------
(* InTime: the fences. *)

LEMMA SubmitsAre ==
  ASSUME QueueTypes
  PROVE  /\ submitIndex \in Nat \ {0} /\ timeline \in Nat /\ timeline < submitIndex
         /\ lastFinished \in Nat
         /\ \A k : k \in InFlight <=> k \in Nat /\ timeline < k /\ k < submitIndex
  BY DEF QueueTypes, InFlight

\* A submit whose fence is signaled has finished.
LEMMA AwaitedHasFinished ==
  ASSUME QueueTypes, FencesInv, NEW k \in 0..(submitIndex - 1), AwaitSubmit(k)
  PROVE  lastFinished' <= timeline
  <1>1. lastFinished <= timeline /\ (Slot(k) \in signaled => k \notin InFlight)
    BY DEF FencesInv
  <1>2. k \notin InFlight => k <= timeline
    BY SubmitsAre
  <1>. QED BY <1>1, <1>2 DEF AwaitSubmit

LEMMA FencesKept ==
  ASSUME FencesInv, UNCHANGED <<submitIndex, signaled, begun, timeline>>, lastFinished' <= timeline
  PROVE  FencesInv'
  BY DEF FencesInv, InFlight

LEMMA BeginFences ==
  ASSUME QueueTypes, FencesInv, BeginSubmit
  PROVE  FencesInv'
  <1>1. /\ lastFinished' = timeline /\ signaled' = signaled \ {Slot(submitIndex)} /\ begun' = TRUE
        /\ UNCHANGED <<submitIndex, timeline>>
    BY DEF BeginSubmit
  <1>. QED BY <1>1, SubmitsAre DEF FencesInv, InFlight

\* The fence of the next submit was reset, and no submit in flight has it.
LEMMA EndFences ==
  ASSUME QueueTypes, FencesInv, FenceIsIdle, begun, EndSubmit, UNCHANGED <<lastFinished, signaled, timeline>>
  PROVE  FencesInv'
  <1>1. submitIndex' = submitIndex + 1 /\ begun' = FALSE
    BY DEF EndSubmit
  <1>2. \A k \in InFlight' : k \in InFlight \/ k = submitIndex
    BY <1>1, SubmitsAre DEF InFlight
  <1>3. Slot(submitIndex) \notin signaled /\ \A k \in InFlight : Slot(k) # Slot(submitIndex)
    BY DEF FencesInv, FenceIsIdle, InFlightOn
  <1>4. /\ \A k \in InFlight : Slot(k) \notin signaled
        /\ \A k, l \in InFlight : Slot(k) = Slot(l) => k = l
        /\ lastFinished <= timeline
    BY DEF FencesInv
  <1>5. \A k \in InFlight' : Slot(k) \notin signaled'
    BY <1>2, <1>3, <1>4
  <1>6. \A k, l \in InFlight' : Slot(k) = Slot(l) => k = l
    BY <1>2, <1>3, <1>4
  <1>. QED BY <1>1, <1>4, <1>5, <1>6 DEF FencesInv

LEMMA FinishFences ==
  ASSUME QueueTypes, FencesInv, FenceIsIdle, Finish
  PROVE  FencesInv'
  <1> DEFINE t == timeline + 1
  <1>1. /\ InFlight # {} /\ timeline' = t /\ signaled' = signaled \cup {Slot(t)}
        /\ UNCHANGED <<submitIndex, lastFinished, begun>>
    BY DEF Finish
  <1>2. /\ \A k \in InFlight : Slot(k) \notin signaled
        /\ \A k, l \in InFlight : Slot(k) = Slot(l) => k = l
        /\ lastFinished <= timeline
        /\ begun => Slot(submitIndex) \notin signaled
    BY DEF FencesInv
  <1>3. t \in InFlight /\ \A k \in InFlight' : k \in InFlight /\ k # t
    BY <1>1, SubmitsAre DEF InFlight
  <1>4. begun => Slot(submitIndex) # Slot(t)
    BY <1>3 DEF FenceIsIdle, InFlightOn
  <1>5. \A k \in InFlight' : Slot(k) \notin signaled'
    BY <1>1, <1>2, <1>3
  <1>6. \A k, l \in InFlight' : Slot(k) = Slot(l) => k = l
    BY <1>2, <1>3
  <1>7. lastFinished' <= timeline'
    BY <1>1, <1>2, SubmitsAre
  <1>8. begun' => Slot(submitIndex') \notin signaled'
    BY <1>1, <1>2, <1>4
  <1>. QED BY <1>5, <1>6, <1>7, <1>8 DEF FencesInv

-----------------------------------------------------------------------------
(* InTime: the copies. *)

LEMMA CopiesKept ==
  ASSUME QueueTypes, CopiesInv, UNCHANGED <<ring, pending, submitted, copying, timeline>>,
         submitIndex' \in Nat, submitIndex' >= submitIndex
  PROVE  CopiesInv'
  <1>1. ASSUME NEW k \in InFlight
        PROVE  k \in InFlight'
    <2>1. k \in (timeline + 1)..(submitIndex - 1)
      BY DEF InFlight
    <2>2. timeline' = timeline /\ submitIndex \in Nat /\ timeline \in Nat
      BY SubmitsAre
    <2>3. \A m \in Nat : m >= submitIndex => k \in (timeline + 1)..(m - 1)
      BY <2>1, <2>2
    <2>4. k \in (timeline + 1)..(submitIndex' - 1)
      BY <2>3
    <2>. QED BY <2>2, <2>4 DEF InFlight
  <1>2. ASSUME NEW c \in 0..(Size - 1)
        PROVE  Held(ring, submitted, pending, c, copying[c])'
    <2>1. Held(ring, submitted, pending, c, copying[c])
      BY DEF CopiesInv
    <2>. QED BY <1>1, <2>1 DEF Held
  <1>3. copying' \in [0..(Size - 1) -> {NoSubmit} \cup Nat]
    BY DEF CopiesInv
  <1>. QED BY <1>2, <1>3 DEF CopiesInv

\* What submits take from the ring, Held keeps when others are given back.
LEMMA CopiesWhenFreed ==
  ASSUME QueueTypes, RingTypes, RingAccounted, lastFinished <= timeline,
         NEW c \in 0..(Size - 1), NEW k \in {NoSubmit} \cup Nat,
         Held(ring, submitted, pending, c, k)
  PROVE  Held(Freed(lastFinished), Unfinished(lastFinished), pending, c, k)
  <1>1. RingOK
    BY RingIsOK
  <1>2. Behind(Freed(lastFinished), c) = Behind(ring, c)
    BY <1>1, FreedRing DEF Behind
  <1>3. ASSUME k > 0
        PROVE  k \in InFlight /\ HeldUntil(Freed(lastFinished), Unfinished(lastFinished), c, k)
    <2>1. k \in InFlight /\ HeldUntil(ring, submitted, c, k)
      BY <1>3 DEF Held
    <2>2. k \in Nat /\ lastFinished \in Nat /\ lastFinished < k
      BY <2>1, SubmitsAre
    <2>. QED BY <1>1, <2>1, <2>2, HeldWhenFreed
  <1>4. k = 0 => Behind(Freed(lastFinished), c) <= pending
    BY <1>2 DEF Held
  <1>. QED BY <1>3, <1>4 DEF Held

\* Staging hands out bytes nobody is to copy, and moves the others further behind.
LEMMA CopiesWhenStaged ==
  ASSUME NEW r \in Ring, NEW s \in Seq(Submitted), r.used = Total(s) + pending, pending \in Nat,
         NEW q \in Request \cup {NoRequest}, CanStage(r, q.size, Alignment(q)), Queue(r, q),
         copying \in [0..(Size - 1) -> {NoSubmit} \cup Nat],
         \A c \in 0..(Size - 1) : Held(r, s, pending, c, copying[c]),
         StagedIntact
  PROVE  /\ copying' \in [0..(Size - 1) -> {NoSubmit} \cup Nat]
         /\ \A c \in 0..(Size - 1) : Held(ring', s, pending', c, copying'[c])
         /\ StagedIntact'
  <1> DEFINE t == Staged(r, q.size, Alignment(q))
             cells == StagedCells(r, q.size, Alignment(q))
             d == t.used - r.used
  <1>1. q.size \in Nat /\ Alignment(q) \in Nat \ {0}
    BY Requested
  <1>2. /\ ring' = t /\ pending' = pending + d
        /\ copying' = [c \in DOMAIN copying |-> IF c \in cells THEN 0 ELSE copying[c]]
        /\ overwritten' = (overwritten \/ \E c \in cells : copying[c] # NoSubmit)
    BY DEF Queue, Stage
  <1>3. /\ t \in Ring /\ d \in Nat /\ q.size <= d
        /\ \A c \in 0..(Size - 1) : Behind(r, c) <= r.used => Behind(t, c) = Behind(r, c) + d
        /\ \A c \in cells : c \in 0..(Size - 1) /\ Behind(r, c) > r.used /\ Behind(t, c) <= q.size
    BY <1>1, StageMoves
  <1>. HIDE DEF t, cells
  <1>4. r.used \in Nat /\ t.used \in Nat /\ t.used = r.used + d
    BY <1>3, Rings
  <1>. HIDE DEF d
  <1>5. Len(s) \in Nat /\ \A p \in 0..Len(s) : Sums(s)[p] \in Nat
    BY SumsDefined
  <1>6. Total(s) \in Nat
    BY <1>5 DEF Total
  <1>7. ASSUME NEW c \in 0..(Size - 1), copying[c] # NoSubmit
        PROVE  Behind(r, c) <= r.used
    <2>1. Held(r, s, pending, c, copying[c]) /\ Behind(r, c) \in Nat
      BY BehindIs
    <2>2. CASE copying[c] = 0
      BY <1>4, <1>6, <2>1, <2>2 DEF Held
    <2>3. CASE copying[c] # 0
      <3>1. copying[c] > 0
        BY <1>7, <2>3
      <3>2. HeldUntil(r, s, c, copying[c])
        BY <2>1, <3>1 DEF Held
      <3>. QED BY <3>2, HeldIsUsed
    <2>. QED BY <2>2, <2>3
  <1>8. StagedIntact'
    <2>1. ASSUME NEW c \in cells
          PROVE  copying[c] = NoSubmit
      <3>1. c \in 0..(Size - 1) /\ Behind(r, c) > r.used /\ Behind(r, c) \in Nat
        BY <1>3, BehindIs
      <3>. QED BY <1>4, <1>7, <3>1
    <2>. QED BY <1>2, <2>1 DEF StagedIntact
  <1>9. ASSUME NEW c \in 0..(Size - 1)
        PROVE  Held(ring', s, pending', c, copying'[c])
    <2>1. Held(r, s, pending, c, copying[c]) /\ Behind(r, c) \in Nat /\ Behind(t, c) \in Nat
      BY <1>3, BehindIs
    <2>2. copying'[c] = IF c \in cells THEN 0 ELSE copying[c]
      BY <1>2
    <2>3. CASE c \in cells
      <3>1. copying'[c] = 0 /\ Behind(t, c) <= q.size
        BY <1>3, <2>2, <2>3
      <3>2. Behind(t, c) <= pending + d
        BY <1>1, <1>3, <2>1, <3>1
      <3>. QED BY <1>2, <3>1, <3>2 DEF Held
    <2>4. CASE c \notin cells
      <3>1. copying'[c] = copying[c]
        BY <2>2, <2>4
      <3>2. CASE copying[c] = NoSubmit
        BY <3>1, <3>2 DEF Held, NoSubmit
      <3>3. CASE copying[c] # NoSubmit
        <4>1. Behind(t, c) = Behind(r, c) + d
          BY <1>3, <1>7, <3>3
        <4>2. CASE copying[c] = 0
          <5>1. Behind(t, c) <= pending + d
            BY <1>3, <2>1, <4>1, <4>2 DEF Held
          <5>. QED BY <1>2, <3>1, <4>2, <5>1 DEF Held
        <4>3. CASE copying[c] # 0
          <5>1. copying[c] > 0 /\ copying[c] # 0
            BY <3>3, <4>3
          <5>2. copying[c] \in InFlight /\ HeldUntil(r, s, c, copying[c])
            BY <2>1, <5>1 DEF Held
          <5>3. HeldUntil(t, s, c, copying[c])
            BY <1>3, <1>4, <4>1, <5>2, HeldWhenMoved
          <5>. QED BY <1>2, <3>1, <5>1, <5>2, <5>3 DEF Held
        <4>. QED BY <4>2, <4>3
      <3>. QED BY <3>2, <3>3
    <2>. QED BY <2>3, <2>4
  <1>10. copying' \in [0..(Size - 1) -> {NoSubmit} \cup Nat]
    BY <1>2
  <1>. QED BY <1>8, <1>9, <1>10

\* The submit of the pending bytes comes after those before it.
LEMMA CopiesWhenSubmitted ==
  ASSUME QueueTypes, RingTypes, RingAccounted, CopiesInv, TakePending(submitIndex),
         submitIndex' = submitIndex + 1, UNCHANGED <<ring, timeline>>,
         copying' = [c \in DOMAIN copying |-> IF copying[c] = 0 THEN submitIndex ELSE copying[c]]
  PROVE  CopiesInv'
  <1> DEFINE u == [timelineId |-> submitIndex, size |-> pending]
             s == submitted
             t == submitted'
  <1>1. /\ s \in Seq(Submitted) /\ ring \in Ring /\ pending \in Nat /\ ring.used = Total(s) + pending
        /\ t = (IF pending = 0 THEN s ELSE Append(s, u)) /\ pending' = 0
    BY DEF RingTypes, RingAccounted, TakePending
  <1>2. submitIndex \in Nat /\ submitIndex > 0 /\ \A k \in InFlight : k \in Nat /\ k < submitIndex
    BY SubmitsAre
  <1>3. submitIndex \in InFlight' /\ \A k \in InFlight : k \in InFlight'
    BY SubmitsAre DEF InFlight
  <1>4. pending # 0 => u \in Submitted /\ u.timelineId = submitIndex
    <2>1. SUFFICES ASSUME pending # 0
                   PROVE  pending \in 1..Size
      BY <1>2 DEF Submitted
    <2>2. Total(s) \in Nat
      BY <1>1, SizesOf, SumsDefined DEF Total
    <2>. QED BY <1>1, <2>1, <2>2, Rings
  <1>5. copying \in [0..(Size - 1) -> {NoSubmit} \cup Nat]
    BY DEF CopiesInv
  <1>. HIDE DEF u, s, t
  <1>6. ASSUME NEW c \in 0..(Size - 1), NEW k \in Nat, k <= submitIndex, HeldUntil(ring, s, c, k)
        PROVE  HeldUntil(ring, t, c, k)
    <2>1. CASE pending = 0
      BY <1>1, <1>6, <2>1
    <2>2. CASE pending # 0
      <3>1. u \in Submitted /\ k <= u.timelineId /\ t = Append(s, u)
        BY <1>1, <1>4, <1>6, <2>2
      <3>. QED BY <1>1, <1>6, <3>1, HeldWhenTaken
    <2>. QED BY <2>1, <2>2
  <1>7. ASSUME NEW c \in 0..(Size - 1)
        PROVE  Held(ring, submitted, pending, c, copying[c])'
    <2>1. Held(ring, s, pending, c, copying[c])
      BY DEF CopiesInv, s
    <2>2. copying'[c] = IF copying[c] = 0 THEN submitIndex ELSE copying[c]
      BY <1>5
    <2>3. CASE copying[c] = 0
      <3>1. copying'[c] = submitIndex /\ Behind(ring, c) <= pending
        BY <2>1, <2>2, <2>3 DEF Held
      <3>2. HeldUntil(ring, s, c, submitIndex)
        BY <1>1, <3>1, PendingIsHeld
      <3>3. HeldUntil(ring, t, c, submitIndex)
        BY <1>2, <1>6, <3>2
      <3>. QED BY <1>2, <1>3, <3>1, <3>3 DEF Held, HeldUntil, t
    <2>4. CASE copying[c] # 0
      <3>1. copying'[c] = copying[c]
        BY <2>2, <2>4
      <3>2. CASE copying[c] = NoSubmit
        BY <3>1, <3>2 DEF Held, NoSubmit
      <3>3. CASE copying[c] # NoSubmit
        <4>1. copying[c] > 0 /\ copying[c] \in Nat
          BY <1>5, <2>4, <3>3
        <4>2. copying[c] \in InFlight /\ HeldUntil(ring, s, c, copying[c])
          BY <2>1, <4>1 DEF Held
        <4>3. HeldUntil(ring, t, c, copying[c])
          BY <1>2, <1>6, <4>1, <4>2
        <4>. QED BY <1>3, <3>1, <4>1, <4>2, <4>3 DEF Held, HeldUntil, t
      <3>. QED BY <3>2, <3>3
    <2>. QED BY <2>3, <2>4
  <1>8. copying' \in [0..(Size - 1) -> {NoSubmit} \cup Nat]
    BY <1>2, <1>5
  <1>. QED BY <1>7, <1>8 DEF CopiesInv

\* Bytes whose copies are lost, or made, are given up.
LEMMA HeldByFewer ==
  ASSUME CopiesInv, UNCHANGED <<ring, submitted, pending>>,
         copying' \in [0..(Size - 1) -> {NoSubmit} \cup Nat],
         \A c \in 0..(Size - 1) :
           \/ copying'[c] = NoSubmit
           \/ copying'[c] = copying[c] /\ (copying[c] \in InFlight => copying[c] \in InFlight')
  PROVE  CopiesInv'
  <1>1. ASSUME NEW c \in 0..(Size - 1)
        PROVE  Held(ring, submitted, pending, c, copying[c])'
    <2>1. Held(ring, submitted, pending, c, copying[c])
      BY DEF CopiesInv
    <2>2. CASE copying'[c] = NoSubmit
      BY <2>2 DEF Held, NoSubmit
    <2>3. CASE copying'[c] = copying[c] /\ (copying[c] \in InFlight => copying[c] \in InFlight')
      BY <2>1, <2>3 DEF Held
    <2>. QED BY <2>2, <2>3
  <1>. QED BY <1>1 DEF CopiesInv

-----------------------------------------------------------------------------
(* InTime: every action. *)

\* A pool that is retired no earlier than its use, or with a submit yet to be
\* made, is not reset too early.
LEMMA NotTooEarly ==
  ASSUME QueueTypes, lastFinished <= timeline, NEW m \in Pool,
         \A i \in DOMAIN m.used : \/ m.used[i].use <= m.used[i].submit
                                  \/ m.used[i].submit = submitIndex
  PROVE  ~ResetTooEarly(m, lastFinished, timeline)
  <1>1. SUFFICES ASSUME m.used # << >>, lastFinished >= Head(m.used).submit
                 PROVE  Head(m.used).use <= timeline
    <2>1. m.used # << >> => Head(m.used).use \in Nat
      <3>1. m.used \in Seq(Retired) /\ \A i \in DOMAIN m.used : m.used[i].use \in Nat
        BY PoolIs
      <3>. QED BY <3>1
    <2>2. timeline \in Nat
      BY SubmitsAre
    <2>. QED BY <2>1, <2>2 DEF ResetTooEarly, Reusable
  <1>2. 1 \in DOMAIN m.used /\ Head(m.used) = m.used[1]
    <2>1. m.used \in Seq(Retired)
      BY PoolIs
    <2>. QED BY <1>1, <2>1
  <1>3. m.used[1].use \in Nat /\ m.used[1].submit \in Nat
    BY <1>2, PoolIs
  <1>4. m.used[1].use <= m.used[1].submit \/ m.used[1].submit = submitIndex
    BY <1>2
  <1>5. lastFinished \in Nat /\ submitIndex \in Nat /\ timeline \in Nat /\ timeline < submitIndex
    BY SubmitsAre
  <1>. QED BY <1>1, <1>2, <1>3, <1>4, <1>5

LEMMA RetiredNotTooEarly ==
  ASSUME QueueTypes, lastFinished <= timeline, NEW m \in Pool, RetiredAfterUse(m)
  PROVE  ~ResetTooEarly(m, lastFinished, timeline)
  BY NotTooEarly DEF RetiredAfterUse

\* A wait for a submit that was made.
LEMMA AwaitInTime ==
  ASSUME QueueTypes, InTime, NEW k \in 0..(submitIndex - 1), AwaitSubmit(k),
         UNCHANGED <<submitIndex, signaled, begun, timeline, ring, pending, submitted, copying,
                     overwritten, earlyReset>>
  PROVE  InTime'
  <1>1. FencesInv'
    BY AwaitedHasFinished, FencesKept DEF InTime
  <1>2. CopiesInv'
    BY CopiesKept, SubmitsAre DEF InTime
  <1>. QED BY <1>1, <1>2 DEF InTime, StagedIntact

LEMMA AcquireInTime ==
  ASSUME Accounted, InTime, Acquire, UNCHANGED clientVars
  PROVE  InTime'
  <1>1. /\ AwaitSubmit(presentDone[semaphoreIndex])
        /\ UNCHANGED <<submitIndex, signaled, begun, timeline, ring, pending, submitted, copying,
                       overwritten, earlyReset>>
    BY DEF Acquire, stagingVars, copyVars, clientVars, poolVars
  <1>2. presentDone[semaphoreIndex] \in 0..(submitIndex - 1) /\ QueueTypes
    BY DEF Accounted, FrameTypes
  <1>. QED BY <1>1, <1>2, AwaitInTime

LEMMA WaitInTime ==
  ASSUME Accounted, InTime, Wait, UNCHANGED clientVars
  PROVE  InTime'
  <1>1. /\ pc = "wait" /\ AwaitSubmit(Head(submitted).timelineId)
        /\ UNCHANGED <<submitIndex, signaled, begun, timeline, ring, pending, submitted, copying,
                       overwritten, earlyReset>>
    BY DEF Wait, stagingVars, copyVars, clientVars, poolVars
  <1>2. QueueTypes /\ RingTypes /\ FrameInv
    BY DEF Accounted
  <1>3. Head(submitted).timelineId \in 0..(submitIndex - 1)
    BY <1>1, <1>2, FirstSubmitted DEF FrameInv
  <1>. QED BY <1>1, <1>2, <1>3, AwaitInTime

\* What leaves the queue, the staging buffer and the pools as they are.
LEMMA QuietInTime ==
  ASSUME QueueTypes, InTime,
         UNCHANGED <<submitIndex, lastFinished, signaled, begun, timeline, ring, pending, submitted,
                     copying, overwritten, earlyReset>>
  PROVE  InTime'
  <1>1. FencesInv'
    BY FencesKept DEF InTime, FencesInv
  <1>2. CopiesInv'
    BY CopiesKept, SubmitsAre DEF InTime
  <1>. QED BY <1>1, <1>2 DEF InTime, StagedIntact

LEMMA BeginInTime ==
  ASSUME Accounted, InTime, Begin, UNCHANGED clientVars
  PROVE  InTime'
  <1>1. /\ BeginSubmit
        /\ UNCHANGED <<submitIndex, timeline, ring, pending, submitted, copying, overwritten, earlyReset>>
    BY DEF Begin, BeginSubmit, stagingVars, copyVars, clientVars, poolVars
  <1>2. QueueTypes /\ FencesInv /\ CopiesInv /\ StagedIntact /\ ~earlyReset
    BY DEF Accounted, InTime
  <1>3. FencesInv'
    BY <1>1, <1>2, BeginFences
  <1>4. CopiesInv'
    BY <1>1, <1>2, CopiesKept, SubmitsAre
  <1>. QED BY <1>1, <1>2, <1>3, <1>4 DEF InTime, StagedIntact

LEMMA DeviceInTime ==
  ASSUME Accounted, InTime, FenceIsIdle, DeviceStep
  PROVE  InTime'
  <1>1. /\ Finish /\ timeline' = timeline + 1
        /\ copying' = [c \in DOMAIN copying |-> IF copying[c] \in 1..timeline' THEN NoSubmit ELSE copying[c]]
        /\ UNCHANGED <<submitIndex, ring, pending, submitted, overwritten, earlyReset>>
    BY DEF DeviceStep, Device, Finish, stagingVars, clientVars, poolVars
  <1>2. QueueTypes /\ FencesInv /\ CopiesInv /\ StagedIntact /\ ~earlyReset
    BY DEF Accounted, InTime
  <1>3. FencesInv'
    BY <1>1, <1>2, FinishFences
  <1>4. CopiesInv'
    <2>1. copying \in [0..(Size - 1) -> {NoSubmit} \cup Nat]
      BY <1>2 DEF CopiesInv
    <2>2. ASSUME NEW c \in 0..(Size - 1)
          PROVE  \/ copying'[c] = NoSubmit
                 \/ copying'[c] = copying[c] /\ (copying[c] \in InFlight => copying[c] \in InFlight')
      <3>1. CASE copying[c] \in 1..timeline'
        BY <1>1, <2>1, <3>1
      <3>2. CASE copying[c] \notin 1..timeline'
        <4>1. copying'[c] = copying[c]
          BY <1>1, <2>1, <3>2
        <4>2. ASSUME copying[c] \in InFlight
              PROVE  copying[c] \in InFlight'
          <5>1. copying[c] \in Nat /\ timeline < copying[c] /\ copying[c] < submitIndex
                /\ timeline \in Nat /\ submitIndex \in Nat
            BY <1>2, <4>2, SubmitsAre
          <5>2. timeline' < copying[c] /\ timeline' \in Nat
            BY <1>1, <3>2, <5>1
          <5>. QED BY <1>1, <5>1, <5>2 DEF InFlight
        <4>. QED BY <4>1, <4>2
      <3>. QED BY <3>1, <3>2
    <2>3. copying' \in [0..(Size - 1) -> {NoSubmit} \cup Nat]
      BY <1>1, <2>1
    <2>. QED BY <1>1, <1>2, <2>2, <2>3, HeldByFewer
  <1>. QED BY <1>1, <1>2, <1>3, <1>4 DEF InTime, StagedIntact

LEMMA UploadInTime ==
  ASSUME Accounted, InTime, NEW q \in Request, StageUpload(q)
  PROVE  InTime'
  <1>1. /\ UNCHANGED <<submitIndex, lastFinished, signaled, begun, timeline, submitted, earlyReset>>
        /\ \/ CanStage(ring, q.size, Alignment(q)) /\ Queue(ring, q)
           \/ UNCHANGED <<ring, pending, copying, overwritten>>
    BY DEF StageUpload, Upload, queueVars, copyVars, clientVars, poolVars
  <1>2. QueueTypes /\ RingTypes /\ RingAccounted /\ FencesInv /\ CopiesInv /\ StagedIntact /\ ~earlyReset
    BY DEF Accounted, InTime
  <1>3. CASE UNCHANGED <<ring, pending, copying, overwritten>>
    BY <1>1, <1>2, <1>3, QuietInTime
  <1>4. CASE CanStage(ring, q.size, Alignment(q)) /\ Queue(ring, q)
    <2>1. FencesInv'
      BY <1>1, <1>2, FencesKept DEF FencesInv
    <2>2. InFlight' = InFlight
      BY <1>1 DEF InFlight
    <2>3. /\ ring \in Ring /\ submitted \in Seq(Submitted) /\ pending \in Nat
          /\ ring.used = Total(submitted) + pending
          /\ copying \in [0..(Size - 1) -> {NoSubmit} \cup Nat]
          /\ \A c \in 0..(Size - 1) : Held(ring, submitted, pending, c, copying[c])
      BY <1>2 DEF RingTypes, RingAccounted, CopiesInv
    <2>4. /\ copying' \in [0..(Size - 1) -> {NoSubmit} \cup Nat]
          /\ \A c \in 0..(Size - 1) : Held(ring', submitted, pending', c, copying'[c])
          /\ StagedIntact'
      BY <1>2, <1>4, <2>3, CopiesWhenStaged
    <2>5. CopiesInv'
      BY <1>1, <2>2, <2>4 DEF CopiesInv, Held
    <2>. QED BY <1>1, <1>2, <2>1, <2>4, <2>5 DEF InTime
  <1>. QED BY <1>1, <1>3, <1>4

LEMMA RetryInTime ==
  ASSUME Accounted, InTime, Retry, UNCHANGED clientVars
  PROVE  InTime'
  <1> DEFINE r == Freed(lastFinished)
             left == Unfinished(lastFinished)
  <1>1. /\ submitted' = left
        /\ UNCHANGED <<submitIndex, lastFinished, signaled, begun, timeline, earlyReset>>
        /\ \/ CanStage(r, request.size, Alignment(request)) /\ Queue(r, request)
           \/ ring' = r /\ UNCHANGED <<pending, copying, overwritten>>
    BY DEF Retry, queueVars, copyVars, clientVars, poolVars
  <1>2. QueueTypes /\ RingTypes /\ RingAccounted /\ FencesInv /\ CopiesInv /\ StagedIntact /\ ~earlyReset
    BY DEF Accounted, InTime
  <1>3. FencesInv'
    BY <1>1, <1>2, FencesKept DEF FencesInv
  <1>4. InFlight' = InFlight
    BY <1>1 DEF InFlight
  <1>5. /\ r \in Ring /\ left \in Seq(Submitted) /\ pending \in Nat
        /\ r.used = Total(left) + pending
    BY <1>2, FreedRing, RingIsOK DEF RingTypes
  <1>6. copying \in [0..(Size - 1) -> {NoSubmit} \cup Nat]
    BY <1>2 DEF CopiesInv
  <1>7. ASSUME NEW c \in 0..(Size - 1)
        PROVE  Held(r, left, pending, c, copying[c])
    <2>1. Held(ring, submitted, pending, c, copying[c]) /\ lastFinished <= timeline
      BY <1>2 DEF CopiesInv, FencesInv
    <2>2. copying[c] \in {NoSubmit} \cup Nat
      BY <1>6
    <2>. QED BY <1>2, <2>1, <2>2, CopiesWhenFreed
  <1>. HIDE DEF r, left
  <1>8. CASE ring' = r /\ UNCHANGED <<pending, copying, overwritten>>
    <2>1. CopiesInv'
      BY <1>1, <1>4, <1>6, <1>7, <1>8 DEF CopiesInv, Held
    <2>. QED BY <1>1, <1>2, <1>3, <1>8, <2>1 DEF InTime, StagedIntact
  <1>9. CASE CanStage(r, request.size, Alignment(request)) /\ Queue(r, request)
    <2>1. request \in Request \cup {NoRequest}
      BY DEF Accounted, FrameTypes
    <2>2. /\ copying' \in [0..(Size - 1) -> {NoSubmit} \cup Nat]
          /\ \A c \in 0..(Size - 1) : Held(ring', left, pending', c, copying'[c])
          /\ StagedIntact'
      BY <1>2, <1>5, <1>6, <1>7, <1>9, <2>1, CopiesWhenStaged
    <2>3. CopiesInv'
      BY <1>1, <1>4, <2>2 DEF CopiesInv, Held
    <2>. QED BY <1>1, <1>2, <1>3, <2>2, <2>3 DEF InTime
  <1>. QED BY <1>1, <1>8, <1>9

LEMMA SubmitInTime ==
  ASSUME Accounted, InTime, FenceIsIdle, SubmitUploads
  PROVE  InTime'
  <1>1. /\ pc = "flush" /\ EndSubmit /\ submitIndex' = submitIndex + 1 /\ TakePending(submitIndex)
        /\ copying' = [c \in DOMAIN copying |-> IF copying[c] = 0 THEN submitIndex ELSE copying[c]]
        /\ earlyReset' = (earlyReset \/ ResetTooEarly(uploadPools, lastFinished, timeline))
        /\ UNCHANGED <<lastFinished, signaled, timeline, ring, overwritten>>
    BY DEF SubmitUploads, Flush, EndSubmit
  <1>2. /\ QueueTypes /\ RingTypes /\ RingAccounted /\ FrameInv /\ PoolsInv
        /\ FencesInv /\ CopiesInv /\ StagedIntact /\ ~earlyReset
    BY DEF Accounted, InTime
  <1>3. FencesInv'
    BY <1>1, <1>2, EndFences DEF FrameInv
  <1>4. CopiesInv'
    BY <1>1, <1>2, CopiesWhenSubmitted
  <1>5. ~earlyReset'
    BY <1>1, <1>2, RetiredNotTooEarly DEF PoolsInv, FencesInv
  <1>. QED BY <1>1, <1>2, <1>3, <1>4, <1>5 DEF InTime, StagedIntact

LEMMA SubmitFailsInTime ==
  ASSUME Accounted, InTime, SubmitUploadsFails
  PROVE  InTime'
  <1>1. /\ UNCHANGED <<submitIndex, lastFinished, signaled, begun, timeline, ring, pending, submitted, overwritten>>
        /\ copying' \in {copying, [c \in DOMAIN copying |-> IF copying[c] = 0 THEN NoSubmit ELSE copying[c]]}
        /\ earlyReset' \in {earlyReset, earlyReset \/ ResetTooEarly(uploadPools, lastFinished, timeline)}
    BY DEF SubmitUploadsFails, FlushFails, queueVars, stagingVars
  <1>2. QueueTypes /\ PoolsInv /\ FencesInv /\ CopiesInv /\ StagedIntact /\ ~earlyReset
    BY DEF Accounted, InTime
  <1>3. FencesInv'
    BY <1>1, <1>2, FencesKept DEF FencesInv
  <1>4. CopiesInv'
    <2>1. copying \in [0..(Size - 1) -> {NoSubmit} \cup Nat] /\ InFlight' = InFlight
      BY <1>1, <1>2 DEF CopiesInv, InFlight
    <2>2. /\ copying' \in [0..(Size - 1) -> {NoSubmit} \cup Nat]
          /\ \A c \in 0..(Size - 1) : copying'[c] \in {NoSubmit, copying[c]}
      BY <1>1, <2>1
    <2>. QED BY <1>1, <1>2, <2>1, <2>2, HeldByFewer
  <1>5. ~earlyReset'
    BY <1>1, <1>2, RetiredNotTooEarly DEF PoolsInv, FencesInv
  <1>. QED BY <1>1, <1>2, <1>3, <1>4, <1>5 DEF InTime, StagedIntact

\* What may reset pools, and nothing else that matters.
LEMMA ResetsInTime ==
  ASSUME QueueTypes, InTime, ~earlyReset',
         UNCHANGED <<submitIndex, lastFinished, signaled, begun, timeline, ring, pending, submitted,
                     copying, overwritten>>
  PROVE  InTime'
  <1>1. FencesInv'
    BY FencesKept DEF InTime, FencesInv
  <1>2. CopiesInv'
    BY CopiesKept, SubmitsAre DEF InTime
  <1>. QED BY <1>1, <1>2 DEF InTime, StagedIntact

LEMMA OpenInTime ==
  ASSUME Accounted, InTime, OpenCommands
  PROVE  InTime'
  <1>1. /\ UNCHANGED <<submitIndex, lastFinished, signaled, begun, timeline, ring, pending, submitted,
                       copying, overwritten>>
        /\ earlyReset' = (earlyReset \/ ResetTooEarly(framePools, lastFinished, timeline))
    BY DEF OpenCommands, vars, queueVars, stagingVars, frameVars, copyVars
  <1>2. QueueTypes /\ PoolsInv /\ FencesInv /\ ~earlyReset
    BY DEF Accounted, InTime
  <1>3. ~earlyReset'
    BY <1>1, <1>2, RetiredNotTooEarly DEF PoolsInv, FencesInv
  <1>. QED BY <1>1, <1>2, <1>3, ResetsInTime

LEMMA RecordInTime ==
  ASSUME Accounted, InTime, NEW n, NEW exhausted \in BOOLEAN, Record(n, exhausted)
  PROVE  InTime'
  <1> DEFINE w == WithCurrent(setPools, lastFinished)
             sets == UsedBy(w, Recording)
             x == Exhausted(sets)
  <1>1. /\ phase = "opened"
        /\ UNCHANGED <<submitIndex, lastFinished, signaled, begun, timeline, ring, pending, submitted,
                       copying, overwritten>>
        /\ exhausted => SetSubmit # 0
        /\ earlyReset' = \/ earlyReset
                         \/ ResetTooEarly(setPools, lastFinished, timeline)
                         \/ exhausted /\ ResetTooEarly(x, lastFinished, timeline)
    BY DEF Record, AcquireSets, vars, queueVars, stagingVars, frameVars, copyVars
  <1>2. QueueTypes /\ PoolsInv /\ FencesInv /\ ~earlyReset /\ lastFinished <= timeline
    BY DEF Accounted, InTime, FencesInv
  <1>3. setPools \in Pool /\ RetiredAfterUse(setPools)
    BY <1>1, <1>2 DEF PoolsInv, RetiredAfterUse
  <1>4. ~ResetTooEarly(setPools, lastFinished, timeline)
    BY <1>2, <1>3, RetiredNotTooEarly
  <1>5. w \in Pool /\ RetiredAfterUse(w)
    BY <1>3, Taken, TakenInOrder
  <1>. HIDE DEF w
  <1>6. Recording \in Nat /\ submitIndex \in Nat
    BY <1>2, BoundsAssumption DEF Recording, QueueTypes
  <1>7. sets \in Pool /\ sets.current = Recording /\ sets.used = w.used /\ RetiredAfterUse(sets)
    BY <1>5, <1>6, Used DEF RetiredAfterUse
  <1>. HIDE DEF sets
  <1>8. ASSUME exhausted
        PROVE  ~ResetTooEarly(x, lastFinished, timeline)
    <2> DEFINE e == [use |-> Recording, submit |-> submitIndex]
               u == sets.used
               t == Append(u, e)
    <2>1. u \in Seq(Retired) /\ Len(u) \in Nat /\ e \in Retired /\ e.submit = submitIndex
      BY <1>6, <1>7, PoolIs DEF Retired
    <2>2. x = [current |-> NoPool, used |-> t]
      BY <1>1, <1>7, <1>8 DEF Exhausted, SetSubmit
    <2>3. \A i \in DOMAIN u : u[i].use <= u[i].submit
      BY <1>7 DEF RetiredAfterUse
    <2>. HIDE DEF u, e
    <2>4. /\ t \in Seq(Retired) /\ DOMAIN t = 1..(Len(u) + 1) /\ DOMAIN u = 1..Len(u)
          /\ \A i \in 1..Len(u) : t[i] = u[i]
          /\ t[Len(u) + 1] = e
      BY <2>1, Appended
    <2>. HIDE DEF t
    <2>5. 1..(Len(u) + 1) = 1..Len(u) \cup {Len(u) + 1}
      BY <2>1
    <2>6. x \in Pool /\ \A i \in DOMAIN x.used : x.used[i].use <= x.used[i].submit \/ x.used[i].submit = submitIndex
      BY <2>1, <2>2, <2>3, <2>4, <2>5 DEF Pool
    <2>. HIDE DEF x
    <2>. QED BY <1>2, <2>6, NotTooEarly
  <1>9. ~earlyReset'
    BY <1>1, <1>2, <1>4, <1>8
  <1>. QED BY <1>1, <1>2, <1>9, ResetsInTime

\* The submit of the frame.
LEMMA PresentInTime ==
  ASSUME Accounted, InTime, FenceIsIdle, PresentFrame
  PROVE  InTime'
  <1>1. /\ pc = "frame" /\ EndSubmit /\ submitIndex' = submitIndex + 1
        /\ UNCHANGED <<lastFinished, signaled, timeline, ring, pending, submitted, copying, overwritten, earlyReset>>
    BY DEF PresentFrame, Present, EndSubmit, stagingVars, copyVars
  <1>2. QueueTypes /\ FrameInv /\ FencesInv /\ CopiesInv /\ StagedIntact /\ ~earlyReset
    BY DEF Accounted, InTime
  <1>3. FencesInv'
    BY <1>1, <1>2, EndFences DEF FrameInv
  <1>4. CopiesInv'
    BY <1>1, <1>2, CopiesKept, SubmitsAre
  <1>. QED BY <1>1, <1>2, <1>3, <1>4 DEF InTime, StagedIntact

LEMMA PresentFailsInTime ==
  ASSUME Accounted, InTime, PresentFrameFails
  PROVE  InTime'
  <1>1. UNCHANGED <<submitIndex, lastFinished, signaled, begun, timeline, ring, pending, submitted,
                    copying, overwritten, earlyReset>>
    BY DEF PresentFrameFails, PresentFails, stagingVars, copyVars
  <1>. QED BY <1>1, QuietInTime DEF Accounted

LEMMA ShutdownInTime ==
  ASSUME Accounted, InTime, ShutdownRenderer
  PROVE  InTime'
  <1>1. UNCHANGED <<submitIndex, lastFinished, signaled, begun, timeline, ring, pending, submitted,
                    copying, overwritten, earlyReset>>
    BY DEF ShutdownRenderer, Shutdown, stagingVars, copyVars
  <1>. QED BY <1>1, QuietInTime DEF Accounted

LEMMA ElsewhereInTime ==
  ASSUME Accounted, InTime, Elsewhere \/ UNCHANGED rendererVars
  PROVE  InTime'
  <1>1. CASE Acquire /\ UNCHANGED clientVars
    BY <1>1, AcquireInTime
  <1>2. CASE Execute /\ UNCHANGED clientVars
    <2>1. UNCHANGED <<submitIndex, lastFinished, signaled, begun, timeline, ring, pending, submitted,
                      copying, overwritten, earlyReset>>
      BY <1>2 DEF Execute, queueVars, stagingVars, copyVars, clientVars, poolVars
    <2>. QED BY <2>1, QuietInTime DEF Accounted
  <1>3. CASE UNCHANGED vars /\ UNCHANGED clientVars
    <2>1. UNCHANGED <<submitIndex, lastFinished, signaled, begun, timeline, ring, pending, submitted,
                      copying, overwritten, earlyReset>>
      BY <1>3 DEF vars, frameVars, queueVars, stagingVars, copyVars, clientVars, poolVars
    <2>. QED BY <2>1, QuietInTime DEF Accounted
  <1>4. ASSUME NEW o \in Object, Doom(o), UNCHANGED clientVars
        PROVE  InTime'
    <2>1. UNCHANGED <<submitIndex, lastFinished, signaled, begun, timeline, ring, pending, submitted,
                      copying, overwritten, earlyReset>>
      BY <1>4 DEF Doom, frameVars, queueVars, stagingVars, copyVars, clientVars, poolVars
    <2>. QED BY <2>1, QuietInTime DEF Accounted
  <1>. QED BY <1>1, <1>2, <1>3, <1>4 DEF Elsewhere, Down, rendererVars

LEMMA InitInTime ==
  RendererInit => InTime
  <1>. SUFFICES ASSUME RendererInit
                PROVE  InTime
    OBVIOUS
  <1>1. /\ submitIndex = 1 /\ lastFinished = 0 /\ begun = FALSE /\ timeline = 0
        /\ copying = [c \in 0..(Size - 1) |-> NoSubmit] /\ overwritten = FALSE /\ earlyReset = FALSE
    BY DEF RendererInit, Init, QueueInit
  <1>2. InFlight = {}
    BY <1>1 DEF InFlight
  <1>3. FencesInv
    BY <1>1, <1>2 DEF FencesInv
  <1>4. CopiesInv
    BY <1>1 DEF CopiesInv, Held, NoSubmit
  <1>. QED BY <1>1, <1>3, <1>4 DEF InTime, StagedIntact

LEMMA NextInTime ==
  ASSUME Accounted, InTime, FenceIsIdle, [RendererNext]_rendererVars
  PROVE  InTime'
  <1>1. CASE Elsewhere \/ UNCHANGED rendererVars
    BY <1>1, ElsewhereInTime
  <1>2. CASE ShutdownRenderer
    BY <1>2, ShutdownInTime
  <1>3. CASE DeviceStep
    BY <1>3, DeviceInTime
  <1>4. CASE RendererCall
    <2>1. CASE (Begin \/ Retry \/ Wait) /\ UNCHANGED clientVars
      BY <2>1, BeginInTime, RetryInTime, WaitInTime
    <2>2. CASE SubmitUploads \/ SubmitUploadsFails
      BY <2>2, SubmitInTime, SubmitFailsInTime
    <2>3. CASE OpenCommands
      BY <2>3, OpenInTime
    <2>4. ASSUME NEW l \in Loads, Record(l.downloads, l.exhausted)
          PROVE  InTime'
      <3>1. l.exhausted \in BOOLEAN
        BY LoadsAssumption
      <3>. QED BY <2>4, <3>1, RecordInTime
    <2>5. CASE PresentFrame \/ PresentFrameFails
      BY <2>5, PresentInTime, PresentFailsInTime
    <2>. QED BY <1>4, <2>1, <2>2, <2>3, <2>4, <2>5 DEF RendererCall
  <1>5. ASSUME NEW q \in Request, StageUpload(q)
        PROVE  InTime'
    BY <1>5, UploadInTime
  <1>. QED BY <1>1, <1>2, <1>3, <1>4, <1>5 DEF RendererNext

\* As long as no fence is reset that a submit in flight is to signal, the fences
\* tell which submits have finished, the bytes that are to be copied are in use,
\* and no pool is reset too early.
THEOREM AlwaysInTime ==
  RendererSpec /\ []FenceIsIdle => []InTime
  <1>1. RendererInit => InTime
    BY InitInTime
  <1>2. InTime /\ Accounted /\ FenceIsIdle /\ [RendererNext]_rendererVars => InTime'
    BY NextInTime
  <1>. QED BY <1>1, <1>2, AlwaysAccounted, PTL DEF RendererSpec

\* As long as no fence is reset that a submit in flight is to signal, no byte of
\* the staging buffer is handed out before the submit that copies it has finished.
THEOREM BytesIntact ==
  RendererSpec /\ []FenceIsIdle => []StagedIntact
  <1>1. InTime => StagedIntact
    BY DEF InTime
  <1>. QED BY <1>1, AlwaysInTime, PTL

\* Whatever the device does, an object of destroy_next_frame is destroyed after
\* the last submit that uses it has finished.
THEOREM ObjectsOutliveUse ==
  RendererSpec => []DestroyedAfterUse
  <1>1. Accounted => DestroyedAfterUse
    BY DEF Accounted, DisposalInv
  <1>. QED BY <1>1, AlwaysAccounted, PTL

\* As long as no fence is reset that a submit in flight is to signal, pools of
\* command buffers and descriptor sets are reset, and objects destroyed, after
\* the last submit that uses them has finished, whatever submits failed.
THEOREM ReleasesFollowUse ==
  RendererSpec /\ []FenceIsIdle => []ReleasedAfterUse
  <1>1. InTime /\ DestroyedAfterUse => ReleasedAfterUse
    BY DEF InTime, ReleasedAfterUse
  <1>. QED BY <1>1, AlwaysInTime, ObjectsOutliveUse, PTL

-----------------------------------------------------------------------------
(* Downloads: the ring. *)

DR == INSTANCE StagingRingProofs WITH Size <- DownloadRing, ring <- dRing,
                                      pending <- dPending, submitted <- dSubmitted

LEMMA SameRing ==
  /\ D!Ring = DR!Ring /\ D!Submitted = DR!Submitted
  /\ \A s : D!Sums(s) = DR!Sums(s) /\ D!Total(s) = DR!Total(s)
  /\ \A r, c : D!Behind(r, c) = DR!Behind(r, c)
  /\ \A r, s, c, k : D!HeldUntil(r, s, c, k) = DR!HeldUntil(r, s, c, k)
  <1>1. D!Ring = DR!Ring /\ D!Submitted = DR!Submitted
    BY DEF D!Ring, DR!Ring, D!Submitted, DR!Submitted
  <1>2. \A s : D!Sums(s) = DR!Sums(s)
    BY DEF D!Sums, DR!Sums
  <1>3. \A s : D!Total(s) = DR!Total(s)
    BY <1>2 DEF D!Total, DR!Total
  <1>4. \A r, c : D!Behind(r, c) = DR!Behind(r, c)
    BY DEF D!Behind, DR!Behind
  <1>5. \A r, s, c, k : D!HeldUntil(r, s, c, k) = DR!HeldUntil(r, s, c, k)
    BY <1>2, <1>4 DEF D!HeldUntil, DR!HeldUntil
  <1>. QED BY <1>1, <1>2, <1>3, <1>4, <1>5

\* What staging a download does to the ring.
LEMMA DownloadMoves ==
  ASSUME NEW r \in D!Ring, D!CanStage(r, DownloadSize, 1)
  PROVE  /\ D!Staged(r, DownloadSize, 1) \in D!Ring
         /\ D!Staged(r, DownloadSize, 1).used - r.used \in Nat
         /\ DownloadSize <= D!Staged(r, DownloadSize, 1).used - r.used
         /\ \A c \in 0..(DownloadRing - 1) :
              D!Behind(r, c) <= r.used =>
                D!Behind(D!Staged(r, DownloadSize, 1), c) =
                  D!Behind(r, c) + (D!Staged(r, DownloadSize, 1).used - r.used)
         /\ \A c \in D!StagedCells(r, DownloadSize, 1) :
              /\ c \in 0..(DownloadRing - 1) /\ D!Behind(r, c) > r.used
              /\ D!Behind(D!Staged(r, DownloadSize, 1), c) <= DownloadSize
  <1>1. DownloadSize \in Nat /\ 1 \in Nat \ {0} /\ r \in DR!Ring
    BY DownloadsAssumption, SameRing
  <1>2. \A q : D!FirstSegment(q) = DR!FirstSegment(q)
    BY DEF D!FirstSegment, DR!FirstSegment, D!Available, DR!Available
  <1>3. \A q, n : D!Fetch(q, n) = DR!Fetch(q, n) /\ D!Cells(q, n) = DR!Cells(q, n)
    BY <1>2 DEF D!Fetch, DR!Fetch, D!Cells, DR!Cells
  <1>4. D!Skipped(r, DownloadSize, 1) = DR!Skipped(r, DownloadSize, 1)
    BY <1>2 DEF D!Skipped, DR!Skipped, D!Padding, DR!Padding
  <1>5. DR!CanStage(r, DownloadSize, 1)
    BY <1>2 DEF D!CanStage, DR!CanStage, D!Padding, DR!Padding, D!Available, DR!Available
  <1>6. /\ D!Staged(r, DownloadSize, 1) = DR!Staged(r, DownloadSize, 1)
        /\ D!StagedCells(r, DownloadSize, 1) = DR!StagedCells(r, DownloadSize, 1)
    BY <1>3, <1>4 DEF D!Staged, DR!Staged, D!StagedCells, DR!StagedCells, D!Aligned, DR!Aligned
  <1>7. /\ DR!Staged(r, DownloadSize, 1) \in DR!Ring
        /\ DR!Staged(r, DownloadSize, 1).used - r.used \in Nat
        /\ DownloadSize <= DR!Staged(r, DownloadSize, 1).used - r.used
        /\ \A c \in 0..(DownloadRing - 1) :
             DR!Behind(r, c) <= r.used =>
               DR!Behind(DR!Staged(r, DownloadSize, 1), c) =
                 DR!Behind(r, c) + (DR!Staged(r, DownloadSize, 1).used - r.used)
        /\ \A c \in DR!StagedCells(r, DownloadSize, 1) :
             /\ c \in 0..(DownloadRing - 1) /\ DR!Behind(r, c) > r.used
             /\ DR!Behind(DR!Staged(r, DownloadSize, 1), c) <= DownloadSize
    BY <1>1, <1>5, DR!StageMoves, DownloadsAssumption
  <1>. QED BY <1>6, <1>7, SameRing

LEMMA DownloadHeld ==
  ASSUME NEW r \in D!Ring, NEW s \in Seq(D!Submitted), NEW c \in 0..(DownloadRing - 1)
  PROVE  /\ D!Behind(r, c) \in Nat /\ D!Behind(r, c) > 0 /\ r.used \in Nat
         /\ \A k : D!HeldUntil(r, s, c, k) => D!Behind(r, c) <= r.used
         /\ \A n \in Nat : r.used = D!Total(s) + n /\ D!Behind(r, c) <= n =>
              \A k : D!HeldUntil(r, s, c, k)
         /\ \A t \in D!Ring, d \in Nat :
              t.used = r.used + d /\ D!Behind(t, c) = D!Behind(r, c) + d =>
                \A k : D!HeldUntil(r, s, c, k) => D!HeldUntil(t, s, c, k)
         /\ \A k, l \in Nat : k <= l /\ D!HeldUntil(r, s, c, l) => D!HeldUntil(r, s, c, k)
  <1>1. r \in DR!Ring /\ s \in Seq(DR!Submitted)
    BY SameRing
  <1>2. DR!Behind(r, c) \in Nat /\ DR!Behind(r, c) > 0 /\ r.used \in Nat
    BY <1>1, DR!BehindIs, DR!Rings, DownloadsAssumption
  <1>3. \A k : DR!HeldUntil(r, s, c, k) => DR!Behind(r, c) <= r.used
    BY <1>1, DR!HeldIsUsed, DownloadsAssumption
  <1>4. \A n \in Nat : r.used = DR!Total(s) + n /\ DR!Behind(r, c) <= n =>
          \A k : DR!HeldUntil(r, s, c, k)
    BY <1>1, DR!PendingIsHeld, DownloadsAssumption
  <1>5. \A t \in DR!Ring, d \in Nat :
          t.used = r.used + d /\ DR!Behind(t, c) = DR!Behind(r, c) + d =>
            \A k : DR!HeldUntil(r, s, c, k) => DR!HeldUntil(t, s, c, k)
    BY <1>1, DR!HeldWhenMoved, DownloadsAssumption
  <1>6. \A k, l \in Nat : k <= l /\ DR!HeldUntil(r, s, c, l) => DR!HeldUntil(r, s, c, k)
    BY <1>1, DR!HeldEarlier, DownloadsAssumption
  <1>. QED BY <1>2, <1>3, <1>4, <1>5, <1>6, SameRing

\* What flush_finished_submissions gives back.
LEMMA DownloadsFreed ==
  ASSUME dRing \in D!Ring, dPending \in Nat, dSubmitted \in Seq(D!Submitted),
         dRing.used = D!Total(dSubmitted) + dPending, NEW f \in Nat
  PROVE  /\ D!Freed(f) \in D!Ring /\ D!Unfinished(f) \in Seq(D!Submitted)
         /\ D!Freed(f).used = D!Total(D!Unfinished(f)) + dPending
         /\ D!Total(D!Unfinished(f)) \in Nat
         /\ \A k \in Nat, c \in 0..(DownloadRing - 1) :
              f < k /\ D!HeldUntil(dRing, dSubmitted, c, k) =>
                D!HeldUntil(D!Freed(f), D!Unfinished(f), c, k)
  <1>1. DR!RingOK
    BY SameRing DEF DR!RingOK
  <1>2. D!Finished(f) = DR!Finished(f)
    BY DEF D!Finished, DR!Finished, D!Cardinality, DR!Cardinality
  <1>3. D!Freed(f) = DR!Freed(f) /\ D!Unfinished(f) = DR!Unfinished(f)
    BY <1>2, SameRing DEF D!Freed, DR!Freed, D!Unfinished, DR!Unfinished
  <1>4. /\ DR!Freed(f) \in DR!Ring /\ DR!Unfinished(f) \in Seq(DR!Submitted)
        /\ DR!Freed(f).used = DR!Total(DR!Unfinished(f)) + dPending
        /\ DR!Total(DR!Unfinished(f)) \in Nat
    BY <1>1, DR!FreedRing, DownloadsAssumption
  <1>5. \A k \in Nat, c \in 0..(DownloadRing - 1) :
          f < k /\ DR!HeldUntil(dRing, dSubmitted, c, k) =>
            DR!HeldUntil(DR!Freed(f), DR!Unfinished(f), c, k)
    BY <1>1, DR!HeldWhenFreed, DownloadsAssumption
  <1>. QED BY <1>3, <1>4, <1>5, SameRing

\* The submits, when submit k has taken the n bytes that were pending.
TakenBy(s, n, k) == s \o (IF n = 0 THEN <<>> ELSE <<[timelineId |-> k, size |-> n]>>)

LEMMA DownloadsTaken ==
  ASSUME NEW r \in D!Ring, NEW s \in Seq(D!Submitted), NEW n \in Nat, NEW k \in Nat,
         r.used = D!Total(s) + n, D!Total(s) \in Nat
  PROVE  /\ TakenBy(s, n, k) \in Seq(D!Submitted)
         /\ r.used = D!Total(TakenBy(s, n, k)) + 0
         /\ \A c \in 0..(DownloadRing - 1), l \in Nat :
              l <= k /\ D!HeldUntil(r, s, c, l) => D!HeldUntil(r, TakenBy(s, n, k), c, l)
  <1> DEFINE t == TakenBy(s, n, k)
  <1>1. CASE n = 0
    <2>1. t = s
      BY <1>1 DEF TakenBy
    <2>. HIDE DEF t
    <2>2. t \in Seq(D!Submitted) /\ r.used = D!Total(t) + 0
      BY <1>1, <2>1
    <2>. QED BY <2>1, <2>2 DEF t
  <1>2. CASE n # 0
    <2> DEFINE u == [timelineId |-> k, size |-> n]
    <2>1. r \in DR!Ring /\ s \in Seq(DR!Submitted) /\ r.used = DR!Total(s) + n /\ DR!Total(s) \in Nat
      BY SameRing
    <2>2. u \in DR!Submitted /\ u.timelineId = k /\ u.size = n
      <3>1. r.used \in 0..DownloadRing
        BY <2>1, DR!Rings, DownloadsAssumption
      <3>2. n \in 1..DownloadRing
        BY <1>2, <2>1, <3>1, DownloadsAssumption
      <3>. QED BY <3>2 DEF DR!Submitted
    <2>3. t = Append(s, u)
      BY <1>2 DEF TakenBy
    <2>. HIDE DEF t, u
    <2>4. t \in Seq(DR!Submitted) /\ Len(t) = Len(s) + 1
      BY <2>1, <2>2, <2>3
    <2>5. DR!Total(t) = DR!Total(s) + n
      <3>1. DR!Sums(Append(s, u))[Len(s) + 1] = DR!Sums(s)[Len(s)] + u.size
        BY <2>1, <2>2, DR!SumsAppended, DownloadsAssumption
      <3>. QED BY <2>2, <2>3, <2>4, <3>1 DEF DR!Total
    <2>6. \A c \in 0..(DownloadRing - 1), l \in Nat :
            l <= k /\ DR!HeldUntil(r, s, c, l) => DR!HeldUntil(r, t, c, l)
      BY <2>1, <2>2, <2>3, DR!HeldWhenTaken, DownloadsAssumption
    <2>7. /\ t \in Seq(D!Submitted) /\ r.used = D!Total(t) + 0
          /\ \A c \in 0..(DownloadRing - 1), l \in Nat :
               l <= k /\ D!HeldUntil(r, s, c, l) => D!HeldUntil(r, t, c, l)
      BY <2>1, <2>4, <2>5, <2>6, SameRing
    <2>. QED BY <2>7 DEF t
  <1>. QED BY <1>1, <1>2

-----------------------------------------------------------------------------
(* Downloads: staging. *)

LEMMA LaidIs ==
  ASSUME NEW r, NEW s, NEW n, NEW list, NEW old, Laid(r, s, n, list, old)
  PROVE  /\ list \in Seq(Download) /\ Len(list) \in Nat /\ DOMAIN list = 1..Len(list)
         /\ r \in D!Ring /\ n \in Nat /\ r.used = D!Total(s) + n
         /\ \A i \in 1..Len(list) :
              /\ list[i].submit \in Nat /\ list[i].use \in Nat
              /\ list[i].cells \subseteq 0..(DownloadRing - 1)
  <1>1. /\ list \in Seq(Download) /\ r \in D!Ring /\ n \in Nat /\ r.used = D!Total(s) + n
    BY DEF Laid
  <1>2. Len(list) \in Nat /\ DOMAIN list = 1..Len(list) /\ \A i \in DOMAIN list : list[i] \in Download
    BY <1>1, Elements
  <1>3. \A x \in Download : x.submit \in Nat /\ x.use \in Nat /\ x.cells \subseteq 0..(DownloadRing - 1)
    BY DEF Download
  <1>. QED BY <1>1, <1>2, <1>3

\* A download whose cells are none of those of the others is appended to the list.
LEMMA LaidAfter ==
  ASSUME NEW r, NEW s \in Seq(D!Submitted), NEW n, NEW list, NEW old \in 0..Len(list),
         Laid(r, s, n, list, old),
         NEW t \in D!Ring, NEW d \in Nat, t.used = r.used + d,
         \A c \in 0..(DownloadRing - 1) :
           D!Behind(r, c) <= r.used => D!Behind(t, c) = D!Behind(r, c) + d,
         NEW x \in Download,
         \A c \in x.cells : D!Behind(r, c) > r.used /\ D!Behind(t, c) <= d
  PROVE  Laid(t, s, n + d, Append(list, x), old)
  <1> DEFINE l == Append(list, x)
             m == Len(list)
  <1>1. /\ list \in Seq(Download) /\ m \in Nat /\ DOMAIN list = 1..m
        /\ r \in D!Ring /\ n \in Nat /\ r.used = D!Total(s) + n
        /\ \A i \in 1..m : list[i].submit \in Nat /\ list[i].cells \subseteq 0..(DownloadRing - 1)
    BY LaidIs
  <1>2. /\ l \in Seq(Download) /\ Len(l) = m + 1 /\ DOMAIN l = 1..(m + 1)
        /\ \A i \in 1..m : l[i] = list[i]
        /\ l[m + 1] = x
    BY <1>1, Appended
  <1>3. \A i \in 1..m : \A c \in list[i].cells :
          /\ \A j \in 1..i : D!HeldUntil(r, s, c, list[j].submit)
          /\ i > old => D!Behind(r, c) <= n
    BY <1>1 DEF Laid
  <1>4. x.cells \subseteq 0..(DownloadRing - 1)
    BY DEF Download
  <1>. HIDE DEF l, m
  <1>5. 1..(m + 1) = 1..m \cup {m + 1}
    BY <1>1
  <1>6. D!Total(s) \in Nat /\ t.used = D!Total(s) + (n + d) /\ n + d \in Nat
    <2>1. r.used \in Nat /\ DR!Total(s) \in Nat
      <3>1. s \in Seq(DR!Submitted) /\ r \in DR!Ring
        BY <1>1, SameRing
      <3>2. Len(s) \in 0..Len(s)
        BY <3>1
      <3>3. DR!Sums(s)[Len(s)] \in Nat
        BY <3>1, <3>2, DR!SumsDefined, DownloadsAssumption
      <3>4. r.used \in Nat
        BY <3>1, DR!Rings, DownloadsAssumption
      <3>. QED BY <3>3, <3>4 DEF DR!Total
    <2>2. D!Total(s) \in Nat
      BY <2>1, SameRing
    <2>. QED BY <1>1, <2>1, <2>2
  <1>7. ASSUME NEW i \in 1..m, NEW c \in list[i].cells
        PROVE  /\ D!Behind(r, c) \in Nat /\ D!Behind(r, c) <= r.used
               /\ D!Behind(t, c) = D!Behind(r, c) + d /\ c \in 0..(DownloadRing - 1)
    <2>1. c \in 0..(DownloadRing - 1)
      BY <1>1
    <2>2. i \in 1..i /\ D!HeldUntil(r, s, c, list[i].submit)
      BY <1>1, <1>3
    <2>3. D!Behind(r, c) \in Nat /\ D!Behind(r, c) <= r.used
      BY <1>1, <2>1, <2>2, DownloadHeld
    <2>. QED BY <2>1, <2>3
  <1>8. ASSUME NEW i \in 1..m
        PROVE  list[i].cells \cap x.cells = {}
    <2>1. ASSUME NEW c \in list[i].cells, c \in x.cells
          PROVE  FALSE
      <3>1. D!Behind(r, c) \in Nat /\ D!Behind(r, c) <= r.used /\ D!Behind(r, c) > r.used
        BY <1>7, <2>1
      <3>2. r.used \in Nat
        BY <1>1, <1>7, DownloadHeld
      <3>. QED BY <3>1, <3>2
    <2>. QED BY <2>1
  <1>9. Apart(l)
    <2>1. SUFFICES ASSUME NEW i \in 1..(m + 1), NEW j \in 1..(m + 1), i # j
                   PROVE  l[i].cells \cap l[j].cells = {}
      BY <1>2 DEF Apart
    <2>2. CASE i \in 1..m /\ j \in 1..m
      <3>1. list[i].cells \cap list[j].cells = {}
        BY <1>1, <2>1, <2>2 DEF Laid, Apart
      <3>. QED BY <1>2, <2>2, <3>1
    <2>3. CASE i = m + 1 /\ j \in 1..m
      BY <1>2, <1>8, <2>3
    <2>4. CASE i \in 1..m /\ j = m + 1
      BY <1>2, <1>8, <2>4
    <2>. QED BY <1>5, <2>1, <2>2, <2>3, <2>4
  <1>10. ASSUME NEW i \in 1..(m + 1), NEW c \in l[i].cells
         PROVE  /\ \A j \in 1..i : D!HeldUntil(t, s, c, l[j].submit)
                /\ i > old => D!Behind(t, c) <= n + d
    <2>1. CASE i \in 1..m
      <3>1. c \in list[i].cells /\ \A j \in 1..i : j \in 1..m /\ l[j] = list[j]
        BY <1>1, <1>2, <2>1
      <3>2. /\ D!Behind(r, c) \in Nat /\ D!Behind(r, c) <= r.used
            /\ D!Behind(t, c) = D!Behind(r, c) + d /\ c \in 0..(DownloadRing - 1)
        BY <1>7, <2>1, <3>1
      <3>3. \A j \in 1..i : D!HeldUntil(r, s, c, list[j].submit)
        BY <1>3, <2>1, <3>1
      <3>4. \A j \in 1..i : D!HeldUntil(t, s, c, list[j].submit)
        BY <1>1, <3>2, <3>3, DownloadHeld
      <3>5. i > old => D!Behind(r, c) <= n
        BY <1>3, <2>1, <3>1
      <3>6. i > old => D!Behind(t, c) <= n + d
        BY <1>1, <3>2, <3>5
      <3>. QED BY <3>1, <3>4, <3>6
    <2>2. CASE i = m + 1
      <3>1. c \in x.cells /\ c \in 0..(DownloadRing - 1)
        BY <1>2, <1>4, <2>2
      <3>2. D!Behind(t, c) <= d /\ D!Behind(t, c) \in Nat
        BY <3>1, DownloadHeld
      <3>3. D!Behind(t, c) <= n + d
        BY <1>1, <3>2
      <3>4. \A k : D!HeldUntil(t, s, c, k)
        BY <1>6, <3>1, <3>3, DownloadHeld
      <3>. QED BY <3>3, <3>4
    <2>. QED BY <1>5, <2>1, <2>2
  <1>11. Laid(t, s, n + d, l, old)
    BY <1>2, <1>6, <1>9, <1>10 DEF Laid
  <1>. QED BY <1>11 DEF l

\* The list and the ring of t are those of s with n more downloads, which the
\* submits so far and p pending bytes account for.
Staging(s, t, n, use, p, old) ==
  /\ t \in [ring : D!Ring, list : Seq(Download)]
  /\ Len(t.list) = Len(s.list) + n
  /\ \A i \in 1..Len(s.list) : t.list[i] = s.list[i]
  /\ \A i \in 1..Len(t.list) : i > Len(s.list) => t.list[i].use = use /\ t.list[i].submit = 0
  /\ t.ring.used - s.ring.used \in Nat
  /\ Laid(t.ring, dSubmitted, p + (t.ring.used - s.ring.used), t.list, old)

LEMMA StagesOne ==
  ASSUME dSubmitted \in Seq(D!Submitted), NEW s \in [ring : D!Ring, list : Seq(Download)],
         NEW p, NEW old \in 0..Len(s.list), NEW use \in Nat,
         Laid(s.ring, dSubmitted, p, s.list, old)
  PROVE  Staging(s, StageDownload(s, use), 1, use, p, old)
  <1> DEFINE t == StageDownload(s, use)
             r == D!Staged(s.ring, DownloadSize, 1)
             cells == D!StagedCells(s.ring, DownloadSize, 1)
             x == [submit |-> 0, use |-> use, promise |-> "waiting", cells |-> cells]
             y == [submit |-> 0, use |-> use, promise |-> "none", cells |-> {}]
  <1>1. /\ s.ring \in D!Ring /\ s.list \in Seq(Download) /\ p \in Nat /\ s.ring.used \in Nat
    <2>1. s.ring \in D!Ring /\ s.list \in Seq(Download) /\ p \in Nat
      BY LaidIs
    <2>2. \A q \in D!Ring : q.used \in Nat
      BY DownloadsAssumption DEF D!Ring
    <2>. QED BY <2>1, <2>2
  <1>2. CASE D!CanStage(s.ring, DownloadSize, 1)
    <2>1. t = [ring |-> r, list |-> Append(s.list, x)]
      BY <1>2 DEF StageDownload
    <2> DEFINE d == r.used - s.ring.used
    <2>2. /\ r \in D!Ring /\ d \in Nat /\ DownloadSize <= d
          /\ \A c \in 0..(DownloadRing - 1) :
               D!Behind(s.ring, c) <= s.ring.used => D!Behind(r, c) = D!Behind(s.ring, c) + d
          /\ \A c \in cells :
               /\ c \in 0..(DownloadRing - 1) /\ D!Behind(s.ring, c) > s.ring.used
               /\ D!Behind(r, c) <= DownloadSize
      BY <1>1, <1>2, DownloadMoves
    <2>3. x \in Download /\ x.cells = cells /\ x.use = use /\ x.submit = 0
      BY <2>2 DEF Download
    <2>4. r.used \in Nat /\ r.used = s.ring.used + d
      <3>1. \A q \in D!Ring : q.used \in Nat
        BY DownloadsAssumption DEF D!Ring
      <3>. QED BY <1>1, <2>2, <3>1
    <2>. HIDE DEF t, r, cells, x, d
    <2>5. \A c \in x.cells : D!Behind(s.ring, c) > s.ring.used /\ D!Behind(r, c) <= d
      <3>1. ASSUME NEW c \in x.cells
            PROVE  D!Behind(r, c) <= d
        <4>1. c \in 0..(DownloadRing - 1) /\ D!Behind(r, c) <= DownloadSize
          BY <2>2, <2>3
        <4>2. D!Behind(r, c) \in Nat
          BY <2>2, <4>1, DownloadHeld
        <4>. QED BY <2>2, <4>1, <4>2, DownloadsAssumption
      <3>. QED BY <2>2, <2>3, <3>1
    <2>6. Laid(r, dSubmitted, p + d, Append(s.list, x), old)
      BY <2>2, <2>3, <2>4, <2>5, LaidAfter
    <2>7. t.ring = r /\ t.list = Append(s.list, x) /\ t.ring.used - s.ring.used = d
      BY <2>1 DEF d
    <2>8. /\ Append(s.list, x) \in Seq(Download) /\ Len(Append(s.list, x)) = Len(s.list) + 1
          /\ \A i \in 1..Len(s.list) : Append(s.list, x)[i] = s.list[i]
          /\ Append(s.list, x)[Len(s.list) + 1] = x
      BY <1>1, <2>3, Appended
    <2>9. \A i \in 1..(Len(s.list) + 1) : i > Len(s.list) => i = Len(s.list) + 1
      BY <1>1
    <2>10. t \in [ring : D!Ring, list : Seq(Download)]
      BY <2>1, <2>2, <2>8
    <2>11. Staging(s, t, 1, use, p, old)
      BY <2>2, <2>3, <2>6, <2>7, <2>8, <2>9, <2>10 DEF Staging
    <2>. QED BY <2>11 DEF t
  <1>3. CASE ~ D!CanStage(s.ring, DownloadSize, 1)
    <2>1. t = [s EXCEPT !.list = Append(s.list, y)]
      BY <1>3 DEF StageDownload
    <2>2. y \in Download /\ y.cells = {} /\ y.use = use /\ y.submit = 0
      BY DEF Download
    <2>. HIDE DEF t, y
    <2>3. /\ Append(s.list, y) \in Seq(Download) /\ Len(Append(s.list, y)) = Len(s.list) + 1
          /\ \A i \in 1..Len(s.list) : Append(s.list, y)[i] = s.list[i]
          /\ Append(s.list, y)[Len(s.list) + 1] = y
      BY <1>1, <2>2, Appended
    <2>4. /\ t \in [ring : D!Ring, list : Seq(Download)]
          /\ t.ring = s.ring /\ t.list = Append(s.list, y)
      BY <2>1, <2>3
    <2>5. \A c \in 0..(DownloadRing - 1) : D!Behind(s.ring, c) + 0 = D!Behind(s.ring, c)
      BY <1>1, DownloadHeld
    <2>6. s.ring.used = s.ring.used + 0
      BY <1>1
    <2>7. Laid(s.ring, dSubmitted, p + 0, Append(s.list, y), old)
      BY <1>1, <2>2, <2>5, <2>6, LaidAfter
    <2>8. t.ring.used - s.ring.used = 0
      BY <1>1, <2>4
    <2>9. \A i \in 1..(Len(s.list) + 1) : i > Len(s.list) => i = Len(s.list) + 1
      BY <1>1
    <2>10. Staging(s, t, 1, use, p, old)
      BY <2>2, <2>3, <2>4, <2>7, <2>8, <2>9 DEF Staging
    <2>. QED BY <2>10 DEF t
  <1>. QED BY <1>2, <1>3

\* The states of StageDownloads, one after the other.
StagesTo(s, n, use, g) ==
  g = [i \in 0..n |-> IF i = 0 THEN s ELSE StageDownload(g[i - 1], use)]

LEMMA StagesExist ==
  ASSUME NEW s, NEW use
  PROVE  \A n \in Nat : \E g : StagesTo(s, n, use, g)
  <1> DEFINE T == {n \in Nat : \E g : StagesTo(s, n, use, g)}
  <1>1. 0 \in T
    <2> DEFINE g == [i \in 0..0 |-> s]
    <2>1. StagesTo(s, 0, use, g)
      BY DEF StagesTo
    <2>. QED BY <2>1
  <1>2. ASSUME NEW n \in Nat, n \in T
        PROVE  n + 1 \in T
    <2>1. PICK g : StagesTo(s, n, use, g)
      BY <1>2
    <2> DEFINE h == [i \in 0..(n + 1) |-> IF i = n + 1 THEN StageDownload(g[n], use) ELSE g[i]]
    <2>2. ASSUME NEW i \in 0..(n + 1)
          PROVE  h[i] = IF i = 0 THEN s ELSE StageDownload(h[i - 1], use)
      <3>1. CASE i = n + 1
        <4>1. i # 0 /\ i - 1 = n /\ i - 1 \in 0..(n + 1) /\ i - 1 # n + 1
          BY <3>1
        <4>. QED BY <3>1, <4>1
      <3>2. CASE i # n + 1
        <4>1. i \in 0..n /\ h[i] = g[i] /\ (i # 0 => h[i - 1] = g[i - 1])
          BY <3>2
        <4>2. g[i] = IF i = 0 THEN s ELSE StageDownload(g[i - 1], use)
          BY <2>1, <4>1 DEF StagesTo
        <4>. QED BY <4>1, <4>2
      <3>. QED BY <3>1, <3>2
    <2>3. h = [i \in 0..(n + 1) |-> h[i]]
      OBVIOUS
    <2>. HIDE DEF h
    <2>4. StagesTo(s, n + 1, use, h)
      BY <2>2, <2>3 DEF StagesTo
    <2>. QED BY <2>4
  <1>. HIDE DEF T
  <1>3. Nat \subseteq T
    BY <1>1, <1>2, Induction
  <1>. QED BY <1>3 DEF T

LEMMA StagesMany ==
  ASSUME dSubmitted \in Seq(D!Submitted), NEW s \in [ring : D!Ring, list : Seq(Download)],
         NEW p, NEW old \in 0..Len(s.list), NEW use \in Nat, NEW n \in Nat,
         Laid(s.ring, dSubmitted, p, s.list, old)
  PROVE  Staging(s, StageDownloads(s, n, use), n, use, p, old)
  <1>1. \E g : StagesTo(s, n, use, g)
    BY StagesExist
  <1> DEFINE g == CHOOSE h : StagesTo(s, n, use, h)
  <1>2. StageDownloads(s, n, use) = g[n]
    BY DEF StageDownloads, StagesTo
  <1>3. StagesTo(s, n, use, g)
    BY <1>1
  <1>. HIDE DEF g
  <1>4. \A i \in 0..n : g[i] = IF i = 0 THEN s ELSE StageDownload(g[i - 1], use)
    BY <1>3 DEF StagesTo
  <1> DEFINE T == {i \in Nat : i <= n => Staging(s, g[i], i, use, p, old)}
  <1>5. s.ring.used \in Nat /\ p \in Nat /\ Len(s.list) \in Nat /\ s.list \in Seq(Download)
    <2>1. p \in Nat /\ s.ring \in D!Ring /\ Len(s.list) \in Nat /\ s.list \in Seq(Download)
      BY LaidIs
    <2>2. \A q \in D!Ring : q.used \in Nat
      BY DownloadsAssumption DEF D!Ring
    <2>. QED BY <2>1, <2>2
  <1>6. 0 \in T
    <2>1. g[0] = s
      BY <1>4
    <2>2. s.ring.used - s.ring.used = 0 /\ p + 0 = p /\ Len(s.list) + 0 = Len(s.list)
      BY <1>5
    <2>3. \A i \in 1..Len(s.list) : ~ (i > Len(s.list))
      BY <1>5
    <2>4. Staging(s, s, 0, use, p, old)
      BY <2>2, <2>3 DEF Staging
    <2>. QED BY <2>1, <2>4
  <1>7. ASSUME NEW i \in Nat, i \in T
        PROVE  i + 1 \in T
    <2>1. SUFFICES ASSUME i + 1 <= n
                   PROVE  Staging(s, g[i + 1], i + 1, use, p, old)
      OBVIOUS
    <2> DEFINE t == g[i]
               e == StageDownload(t, use)
               q == p + (t.ring.used - s.ring.used)
    <2>2. g[i + 1] = e
      <3>1. i + 1 \in 0..n /\ i + 1 # 0 /\ (i + 1) - 1 = i
        BY <2>1
      <3>. QED BY <1>4, <3>1
    <2>3. Staging(s, t, i, use, p, old)
      BY <1>7, <2>1
    <2>. HIDE DEF t, e
    <2>4. /\ t \in [ring : D!Ring, list : Seq(Download)] /\ Len(t.list) = Len(s.list) + i
          /\ t.ring.used - s.ring.used \in Nat /\ t.ring.used \in Nat
          /\ Laid(t.ring, dSubmitted, q, t.list, old)
      <3>1. \A r \in D!Ring : r.used \in Nat
        BY DownloadsAssumption DEF D!Ring
      <3>. QED BY <2>3, <3>1 DEF Staging
    <2>5. old \in 0..Len(t.list)
      BY <1>5, <2>4
    <2>. HIDE DEF q
    <2>6. Staging(t, e, 1, use, q, old)
      BY <2>4, <2>5, StagesOne DEF e
    <2>7. /\ e \in [ring : D!Ring, list : Seq(Download)] /\ Len(e.list) = Len(t.list) + 1
          /\ e.ring.used - t.ring.used \in Nat /\ e.ring.used \in Nat
          /\ Laid(e.ring, dSubmitted, q + (e.ring.used - t.ring.used), e.list, old)
      <3>1. \A r \in D!Ring : r.used \in Nat
        BY DownloadsAssumption DEF D!Ring
      <3>. QED BY <2>6, <3>1 DEF Staging
    <2>8. /\ q + (e.ring.used - t.ring.used) = p + (e.ring.used - s.ring.used)
          /\ e.ring.used - s.ring.used \in Nat
      <3>1. \A x, y, z \in Nat :
              y - x \in Nat /\ z - y \in Nat =>
                (p + (y - x)) + (z - y) = p + (z - x) /\ z - x \in Nat
        BY <1>5
      <3>2. s.ring.used \in Nat /\ t.ring.used \in Nat /\ e.ring.used \in Nat
        BY <1>5, <2>4, <2>7
      <3>. QED BY <2>4, <2>7, <3>1, <3>2 DEF q
    <2>9. Len(e.list) = Len(s.list) + (i + 1)
      BY <1>5, <2>4, <2>7
    <2>10. \A j \in 1..Len(s.list) : e.list[j] = s.list[j]
      <3>1. \A j \in 1..Len(s.list) : j \in 1..Len(t.list)
        BY <1>5, <2>4
      <3>. QED BY <2>3, <2>6, <3>1 DEF Staging
    <2>11. ASSUME NEW j \in 1..Len(e.list), j > Len(s.list)
           PROVE  e.list[j].use = use /\ e.list[j].submit = 0
      <3>1. CASE j > Len(t.list)
        BY <2>6, <3>1 DEF Staging
      <3>2. CASE ~ (j > Len(t.list))
        <4>1. j \in 1..Len(t.list)
          BY <1>5, <2>4, <2>7, <3>2
        <4>. QED BY <2>3, <2>6, <2>11, <4>1 DEF Staging
      <3>. QED BY <3>1, <3>2
    <2>12. Staging(s, e, i + 1, use, p, old)
      BY <2>7, <2>8, <2>9, <2>10, <2>11 DEF Staging
    <2>. QED BY <2>2, <2>12
  <1>. HIDE DEF T
  <1>8. Nat \subseteq T
    BY <1>6, <1>7, Induction
  <1>9. Staging(s, g[n], n, use, p, old)
    BY <1>8 DEF T
  <1>. QED BY <1>2, <1>9

-----------------------------------------------------------------------------
(* Downloads: every action. *)

LEMMA DownloadsKept ==
  ASSUME DownloadsInv, QueueTypes, UNCHANGED downloadVars,
         submitIndex' \in {submitIndex, submitIndex + 1},
         phase = "recorded" => phase' = "recorded"
  PROVE  DownloadsInv'
  <1>1. UNCHANGED <<enqueued, downloads, dRing, dPending, dSubmitted>>
    BY DEF downloadVars
  <1>2. Laid(dRing', dSubmitted', dPending', downloads', Len(downloads') - enqueued')
    BY <1>1 DEF DownloadsInv
  <1>3. dSubmitted' \in Seq(D!Submitted)
    BY <1>1 DEF DownloadsInv
  <1>4. \A i \in DOMAIN downloads : downloads[i].submit \in Nat
    BY LaidIs DEF DownloadsInv
  <1>5. submitIndex \in Nat
    BY DEF QueueTypes
  <1>6. \A i \in DOMAIN downloads : downloads[i].submit < submitIndex'
    BY <1>4, <1>5 DEF DownloadsInv, NumbersInv
  <1>7. NumbersInv'
    BY <1>1, <1>6 DEF DownloadsInv, NumbersInv
  <1>. QED BY <1>2, <1>3, <1>7 DEF DownloadsInv

LEMMA QuietDownloads ==
  ASSUME DownloadsInv, Accounted,
         \/ Elsewhere \/ DeviceStep \/ UNCHANGED rendererVars
         \/ (Begin \/ Retry \/ Wait) /\ UNCHANGED clientVars
         \/ SubmitUploads \/ SubmitUploadsFails \/ OpenCommands
         \/ \E q \in Request : StageUpload(q)
  PROVE  DownloadsInv'
  <1>1. QueueTypes
    BY DEF Accounted
  <1>2. UNCHANGED downloadVars
    BY DEF Elsewhere, DeviceStep, rendererVars, clientVars, SubmitUploads, SubmitUploadsFails,
           OpenCommands, StageUpload
  <1>3. phase = "recorded" => phase' = "recorded"
    BY DEF Elsewhere, DeviceStep, rendererVars, clientVars, SubmitUploads, SubmitUploadsFails,
           OpenCommands, StageUpload
  <1>4. submitIndex' \in {submitIndex, submitIndex + 1}
    <2>1. CASE Elsewhere
      BY <2>1 DEF Elsewhere, Acquire, Execute, Down, Doom, vars, queueVars
    <2>2. CASE DeviceStep
      BY <2>2 DEF DeviceStep, Device, Finish
    <2>3. CASE UNCHANGED rendererVars
      BY <2>3 DEF rendererVars, vars, queueVars
    <2>4. CASE Begin \/ Retry \/ Wait
      BY <2>4 DEF Begin, BeginSubmit, Retry, Wait, queueVars
    <2>5. CASE SubmitUploads
      BY <2>5 DEF SubmitUploads, Flush, EndSubmit
    <2>6. CASE SubmitUploadsFails
      BY <2>6 DEF SubmitUploadsFails, FlushFails, queueVars
    <2>7. CASE OpenCommands
      BY <2>7 DEF OpenCommands, vars, queueVars
    <2>8. CASE \E q \in Request : StageUpload(q)
      BY <2>8 DEF StageUpload, Upload, queueVars
    <2>. QED BY <2>1, <2>2, <2>3, <2>4, <2>5, <2>6, <2>7, <2>8
  <1>. QED BY <1>1, <1>2, <1>3, <1>4, DownloadsKept

\* The lengths, and what the invariant says of the list.
LEMMA ListIs ==
  ASSUME DownloadsInv
  PROVE  /\ downloads \in Seq(Download) /\ Len(downloads) \in Nat
         /\ DOMAIN downloads = 1..Len(downloads)
         /\ enqueued \in Nat /\ enqueued <= Len(downloads)
         /\ dRing \in D!Ring /\ dPending \in Nat /\ dSubmitted \in Seq(D!Submitted)
         /\ dRing.used = D!Total(dSubmitted) + dPending /\ dRing.used \in Nat
         /\ \A i \in 1..Len(downloads) :
              /\ downloads[i] \in Download
              /\ downloads[i].submit \in Nat /\ downloads[i].use \in Nat
              /\ downloads[i].cells \subseteq 0..(DownloadRing - 1)
              /\ downloads[i].submit < submitIndex
              /\ \/ downloads[i].use <= downloads[i].submit
                 \/ phase = "recorded" /\ i > Len(downloads) - enqueued /\ downloads[i].use = Recording
  <1>1. dSubmitted \in Seq(D!Submitted) /\ NumbersInv
        /\ Laid(dRing, dSubmitted, dPending, downloads, Len(downloads) - enqueued)
    BY DEF DownloadsInv
  <1>2. /\ downloads \in Seq(Download) /\ Len(downloads) \in Nat
        /\ DOMAIN downloads = 1..Len(downloads)
        /\ dRing \in D!Ring /\ dPending \in Nat
        /\ dRing.used = D!Total(dSubmitted) + dPending
        /\ \A i \in 1..Len(downloads) :
             /\ downloads[i].submit \in Nat /\ downloads[i].use \in Nat
             /\ downloads[i].cells \subseteq 0..(DownloadRing - 1)
    BY <1>1, LaidIs
  <1>3. dRing.used \in Nat
    BY <1>2, DownloadsAssumption DEF D!Ring
  <1>. QED BY <1>1, <1>2, <1>3 DEF NumbersInv

LEMMA RecordDownloads ==
  ASSUME DownloadsInv, QueueTypes, NEW m \in Nat, NEW exhausted, Record(m, exhausted)
  PROVE  DownloadsInv'
  <1> DEFINE start == [ring |-> dRing, list |-> downloads]
             left == StageDownloads(start, enqueued, 0)
             staged == StageDownloads(left, m, Recording)
             old == Len(downloads)
             p == dPending
             q == p + (left.ring.used - start.ring.used)
  <1>1. /\ phase = "opened" /\ phase' = "recorded"
        /\ enqueued' = enqueued + m /\ downloads' = staged.list /\ dRing' = staged.ring
        /\ dPending' = dPending + (staged.ring.used - dRing.used)
        /\ UNCHANGED <<submitIndex, dSubmitted>>
    BY DEF Record, vars, queueVars
  <1>2. /\ downloads \in Seq(Download) /\ old \in Nat /\ enqueued \in Nat /\ enqueued <= old
        /\ dRing \in D!Ring /\ dPending \in Nat /\ dSubmitted \in Seq(D!Submitted)
        /\ dRing.used \in Nat /\ DOMAIN downloads = 1..old
    BY ListIs
  <1>3. start \in [ring : D!Ring, list : Seq(Download)] /\ start.ring = dRing /\ start.list = downloads
    BY <1>2
  <1>4. Laid(start.ring, dSubmitted, p, start.list, old)
    <2>1. Laid(dRing, dSubmitted, dPending, downloads, old - enqueued)
      BY DEF DownloadsInv
    <2>2. \A i \in DOMAIN downloads : ~ (i > old)
      BY <1>2
    <2>3. Laid(dRing, dSubmitted, dPending, downloads, old)
      BY <2>1, <2>2 DEF Laid
    <2>. QED BY <1>3, <2>3
  <1>5. Recording \in Nat
    BY BoundsAssumption DEF Recording
  <1>6. old \in 0..Len(start.list) /\ Len(start.list) = old
    BY <1>2, <1>3
  <1>. HIDE DEF start, p
  <1>7. Staging(start, left, enqueued, 0, p, old)
    BY <1>2, <1>3, <1>4, <1>6, StagesMany
  <1>. HIDE DEF left
  <1>8. /\ left \in [ring : D!Ring, list : Seq(Download)]
        /\ Laid(left.ring, dSubmitted, q, left.list, old)
        /\ Len(left.list) = old + enqueued /\ left.ring.used - dRing.used \in Nat
        /\ left.ring.used \in Nat /\ q = dPending + (left.ring.used - dRing.used)
    <2>1. \A r \in D!Ring : r.used \in Nat
      BY DownloadsAssumption DEF D!Ring
    <2>. QED BY <1>3, <1>6, <1>7, <2>1 DEF Staging, p
  <1>. HIDE DEF q
  <1>9. old \in 0..Len(left.list)
    BY <1>2, <1>8
  <1>10. Staging(left, staged, m, Recording, q, old)
    BY <1>2, <1>5, <1>8, <1>9, StagesMany
  <1>. HIDE DEF staged
  <1>11. /\ staged \in [ring : D!Ring, list : Seq(Download)]
         /\ Laid(staged.ring, dSubmitted, q + (staged.ring.used - left.ring.used), staged.list, old)
         /\ Len(staged.list) = old + enqueued + m /\ staged.ring.used - left.ring.used \in Nat
         /\ staged.ring.used \in Nat
    <2>1. \A r \in D!Ring : r.used \in Nat
      BY DownloadsAssumption DEF D!Ring
    <2>. QED BY <1>8, <1>10, <2>1 DEF Staging
  <1>12. q + (staged.ring.used - left.ring.used) = dPending'
    <2>1. \A x, y, z \in Nat : (dPending + (y - x)) + (z - y) = dPending + (z - x)
      BY <1>2
    <2>. QED BY <1>1, <1>2, <1>8, <1>11, <2>1
  <1>13. Len(downloads') - enqueued' = old /\ enqueued' \in 0..Len(downloads')
    BY <1>1, <1>2, <1>11
  <1>14. Laid(dRing', dSubmitted', dPending', downloads', Len(downloads') - enqueued')
    BY <1>1, <1>11, <1>12, <1>13
  <1>15. DOMAIN downloads' = 1..Len(downloads')
    BY <1>1, <1>11
  <1>16. ASSUME NEW i \in 1..Len(downloads')
         PROVE  /\ downloads'[i].submit < submitIndex'
                /\ \/ downloads'[i].use <= downloads'[i].submit
                   \/ i > old /\ downloads'[i].use = Recording
    <2>1. submitIndex \in Nat /\ submitIndex > 0
      BY DEF QueueTypes
    <2>2. CASE i > Len(left.list)
      <3>1. downloads'[i].use = Recording /\ downloads'[i].submit = 0
        BY <1>1, <1>10, <2>2 DEF Staging
      <3>. QED BY <1>1, <1>2, <1>8, <2>1, <2>2, <3>1
    <2>3. CASE ~ (i > Len(left.list))
      <3>1. i \in 1..Len(left.list) /\ downloads'[i] = left.list[i]
        <4>1. i \in 1..Len(left.list)
          BY <1>1, <1>2, <1>8, <1>11, <2>3
        <4>. QED BY <1>1, <1>10, <4>1 DEF Staging
      <3>2. CASE i > old
        <4>1. left.list[i].use = 0 /\ left.list[i].submit = 0
          BY <1>6, <1>7, <3>1, <3>2 DEF Staging
        <4>. QED BY <1>1, <2>1, <3>1, <4>1
      <3>3. CASE ~ (i > old)
        <4>1. i \in 1..old
          BY <1>2, <1>8, <3>1, <3>3
        <4>2. left.list[i] = downloads[i]
          BY <1>3, <1>6, <1>7, <4>1 DEF Staging
        <4>3. downloads[i].submit < submitIndex /\ downloads[i].use <= downloads[i].submit
          BY <1>1, <4>1, ListIs
        <4>. QED BY <1>1, <3>1, <4>2, <4>3
      <3>. QED BY <3>2, <3>3
    <2>. QED BY <2>2, <2>3
  <1>17. NumbersInv'
    BY <1>1, <1>13, <1>15, <1>16 DEF NumbersInv
  <1>18. dSubmitted' \in Seq(D!Submitted)
    BY <1>1, <1>2
  <1>. QED BY <1>14, <1>17, <1>18 DEF DownloadsInv

\* The downloads that are complete are the first ones, up to one whose submit has
\* not finished.
LEMMA CompletedFirst ==
  ASSUME NEW list \in Seq(Download), lastFinished \in Nat
  PROVE  /\ Completed(list) \in 0..Len(list)
         /\ \A i \in 1..Completed(list) : list[i].submit <= lastFinished
         /\ Completed(list) < Len(list) => lastFinished < list[Completed(list) + 1].submit
  <1> DEFINE P == {i \in DOMAIN list : \A j \in 1..i : lastFinished >= list[j].submit}
             n == Cardinality(P)
  <1>1. /\ Len(list) \in Nat /\ DOMAIN list = 1..Len(list)
        /\ \A i \in 1..Len(list) : list[i].submit \in Nat
    <2>1. \A x \in Download : x.submit \in Nat
      BY DEF Download
    <2>. QED BY <2>1
  <1>2. P \in SUBSET (1..Len(list)) /\ \A i \in P : i \in 1..i /\ \A j \in 1..i : j \in P
    BY <1>1
  <1>3. \A i \in P : list[i].submit <= lastFinished
    BY <1>1, <1>2
  <1>4. Completed(list) = n
    BY DEF Completed
  <1>5. \A i \in 1..Len(list) : i \notin P => \E j \in 1..i : lastFinished < list[j].submit
    <2>1. SUFFICES ASSUME NEW i \in 1..Len(list), \A j \in 1..i : ~ (lastFinished < list[j].submit)
                   PROVE  i \in P
      OBVIOUS
    <2>2. \A j \in 1..i : list[j].submit \in Nat
      BY <1>1
    <2>. QED BY <1>1, <2>1, <2>2
  <1>. HIDE DEF P
  <1>6. n \in 0..Len(list) /\ P = 1..n
    BY <1>1, <1>2, Prefix
  <1>7. ASSUME n < Len(list)
        PROVE  lastFinished < list[n + 1].submit
    <2>1. n + 1 \in 1..Len(list) /\ n + 1 \notin P
      BY <1>1, <1>6, <1>7
    <2>2. PICK j \in 1..(n + 1) : lastFinished < list[j].submit
      BY <1>5, <2>1
    <2>3. j \in Nat /\ (j \in 1..n \/ j = n + 1)
      BY <1>6
    <2>4. j \notin 1..n
      <3>1. ASSUME j \in 1..n
            PROVE  FALSE
        <4>1. list[j].submit <= lastFinished
          BY <1>3, <1>6, <3>1
        <4>2. list[j].submit \in Nat
          BY <1>1, <1>6, <3>1
        <4>. QED BY <2>2, <4>1, <4>2
      <3>. QED BY <3>1
    <2>. QED BY <2>2, <2>3, <2>4
  <1>8. \A i \in 1..n : list[i].submit <= lastFinished
    BY <1>3, <1>6
  <1>. QED BY <1>4, <1>6, <1>7, <1>8

\* The numbers frame_submitted gives.
LEMMA NumberedList ==
  ASSUME DownloadsInv, NEW k \in Nat
  PROVE  /\ Numbered(k) \in Seq(Download) /\ Len(Numbered(k)) = Len(downloads)
         /\ DOMAIN Numbered(k) = 1..Len(downloads)
         /\ \A i \in 1..Len(downloads) :
              /\ Numbered(k)[i].cells = downloads[i].cells
              /\ Numbered(k)[i].use = IF downloads[i].use = Recording THEN k ELSE downloads[i].use
              /\ Numbered(k)[i].submit =
                   IF i > Len(downloads) - enqueued THEN k ELSE downloads[i].submit
  <1> DEFINE list == Numbered(k)
             old == Len(downloads) - enqueued
             U(i) == IF downloads[i].use = Recording THEN k ELSE downloads[i].use
             S(i) == IF i > old THEN k ELSE downloads[i].submit
  <1>1. /\ Len(downloads) \in Nat /\ DOMAIN downloads = 1..Len(downloads)
        /\ \A i \in 1..Len(downloads) :
             downloads[i] \in Download /\ downloads[i].submit \in Nat /\ downloads[i].use \in Nat
    BY ListIs
  <1>2. list = [i \in 1..Len(downloads) |-> [downloads[i] EXCEPT !.use = U(i), !.submit = S(i)]]
    BY <1>1 DEF Numbered
  <1>4. \A i \in 1..Len(downloads) : U(i) \in Nat /\ S(i) \in Nat
    BY <1>1
  <1>. HIDE DEF list, U, S
  <1>5. ASSUME NEW i \in 1..Len(downloads)
        PROVE  /\ list[i] \in Download /\ list[i].cells = downloads[i].cells
               /\ list[i].use = U(i) /\ list[i].submit = S(i)
    <2> DEFINE d == downloads[i]
               u == U(i)
               s == S(i)
               e == list[i]
    <2>1. e = [d EXCEPT !.use = u, !.submit = s]
      BY <1>2
    <2>2. d \in Download /\ u \in Nat /\ s \in Nat
      BY <1>1, <1>4
    <2>. HIDE DEF d, u, s, e
    <2>3. e \in Download /\ e.cells = d.cells /\ e.use = u /\ e.submit = s
      BY <2>1, <2>2 DEF Download
    <2>. QED BY <2>3 DEF d, u, s, e
  <1>6. list \in Seq(Download) /\ Len(list) = Len(downloads) /\ DOMAIN list = 1..Len(downloads)
    <2>1. DOMAIN list = 1..Len(downloads) /\ list = [i \in 1..Len(downloads) |-> list[i]]
      BY <1>2
    <2>2. list \in Seq(Download) /\ Len(list) = Len(downloads)
      BY <1>1, <1>5, <2>1
    <2>. QED BY <2>1, <2>2
  <1>. QED BY <1>5, <1>6 DEF list, U, S

\* No number of a submit is that of the submit of the frame being recorded.
LEMMA RecordingIsLast ==
  ASSUME FrameInv, QueueTypes, phase = "recorded"
  PROVE  submitIndex < Recording
  <1>1. pc = "frame" /\ executing /\ submitIndex \in Nat
    BY DEF FrameInv, QueueTypes
  <1>2. submitIndex + 1 + 0 <= MaxSubmit
    BY <1>1 DEF FrameInv
  <1>. QED BY <1>1, <1>2, BoundsAssumption DEF Recording

\* Numbered, a download has its own submit or an earlier one that uses its bytes.
LEMMA NumberedUses ==
  ASSUME DownloadsInv, FrameInv, QueueTypes, phase = "recorded"
  PROVE  \A i \in 1..Len(downloads) :
           /\ Numbered(submitIndex)[i].use <= Numbered(submitIndex)[i].submit
           /\ Numbered(submitIndex)[i].submit \in 0..submitIndex
  <1>1. submitIndex \in Nat /\ submitIndex < Recording /\ Recording \in Nat
    BY RecordingIsLast, BoundsAssumption DEF QueueTypes, Recording
  <1>2. SUFFICES ASSUME NEW i \in 1..Len(downloads)
                 PROVE  /\ Numbered(submitIndex)[i].use <= Numbered(submitIndex)[i].submit
                        /\ Numbered(submitIndex)[i].submit \in 0..submitIndex
    OBVIOUS
  <1>3. /\ Numbered(submitIndex)[i].use =
             IF downloads[i].use = Recording THEN submitIndex ELSE downloads[i].use
        /\ Numbered(submitIndex)[i].submit =
             IF i > Len(downloads) - enqueued THEN submitIndex ELSE downloads[i].submit
    BY <1>1, NumberedList
  <1>4. /\ downloads[i].submit \in Nat /\ downloads[i].use \in Nat
        /\ downloads[i].submit < submitIndex
        /\ \/ downloads[i].use <= downloads[i].submit
           \/ i > Len(downloads) - enqueued /\ downloads[i].use = Recording
    BY ListIs
  <1>. QED BY <1>1, <1>3, <1>4

LEMMA PresentDownloads ==
  ASSUME DownloadsInv, Accounted, PresentFrame
  PROVE  DownloadsInv'
  <1> DEFINE k == submitIndex
             list == Numbered(k)
             n == Completed(list)
             m == Len(downloads)
             old == m - enqueued
             left == SubSeq(list, n + 1, Len(list))
             r == D!Freed(lastFinished)
             s == D!Unfinished(lastFinished)
             t == TakenBy(s, dPending, k)
  <1>1. /\ phase = "recorded" /\ phase' = "loop" /\ submitIndex' = k + 1
        /\ enqueued' = 0 /\ downloads' = left /\ dRing' = r /\ dSubmitted' = t /\ dPending' = 0
    BY DEF PresentFrame, Present, EndSubmit, TakenBy
  <1>2. k \in Nat /\ lastFinished \in Nat /\ QueueTypes /\ FrameInv
    BY DEF Accounted, QueueTypes
  <1>3. /\ m \in Nat /\ enqueued \in Nat /\ enqueued <= m
        /\ dRing \in D!Ring /\ dPending \in Nat /\ dSubmitted \in Seq(D!Submitted)
        /\ dRing.used = D!Total(dSubmitted) + dPending
        /\ \A i \in 1..m : downloads[i].submit \in Nat /\ downloads[i].cells \subseteq 0..(DownloadRing - 1)
    BY ListIs
  <1>4. /\ list \in Seq(Download) /\ Len(list) = m
        /\ \A i \in 1..m :
             /\ list[i].cells = downloads[i].cells
             /\ list[i].submit = IF i > old THEN k ELSE downloads[i].submit
    BY <1>2, NumberedList
  <1>5. \A i \in 1..m : list[i].use <= list[i].submit /\ list[i].submit \in 0..k
    BY <1>1, <1>2, NumberedUses
  <1>6. n \in 0..m /\ (n < m => lastFinished < list[n + 1].submit)
    BY <1>2, <1>4, CompletedFirst
  <1>7. /\ r \in D!Ring /\ s \in Seq(D!Submitted) /\ r.used = D!Total(s) + dPending /\ D!Total(s) \in Nat
        /\ \A l \in Nat, c \in 0..(DownloadRing - 1) :
             lastFinished < l /\ D!HeldUntil(dRing, dSubmitted, c, l) => D!HeldUntil(r, s, c, l)
    BY <1>2, <1>3, DownloadsFreed
  <1>. HIDE DEF r, s
  <1>8. /\ t \in Seq(D!Submitted) /\ r.used = D!Total(t) + 0
        /\ \A c \in 0..(DownloadRing - 1), l \in Nat :
             l <= k /\ D!HeldUntil(r, s, c, l) => D!HeldUntil(r, t, c, l)
    <2>1. r \in D!Ring /\ s \in Seq(D!Submitted) /\ dPending \in Nat /\ submitIndex \in Nat
      BY <1>2, <1>3, <1>7
    <2>2. r.used = D!Total(s) + dPending /\ D!Total(s) \in Nat
      BY <1>7
    <2>3. \A y \in Nat, j \in Nat : r.used = D!Total(s) + y =>
            /\ TakenBy(s, y, j) \in Seq(D!Submitted)
            /\ r.used = D!Total(TakenBy(s, y, j)) + 0
            /\ \A c \in 0..(DownloadRing - 1), l \in Nat :
                 l <= j /\ D!HeldUntil(r, s, c, l) => D!HeldUntil(r, TakenBy(s, y, j), c, l)
      BY <2>1, <2>2, DownloadsTaken
    <2>. QED BY <2>1, <2>2, <2>3
  <1>. HIDE DEF list, n, t
  <1>9. /\ left \in Seq(Download) /\ DOMAIN left = 1..(m - n) /\ Len(left) = m - n
        /\ \A i \in 1..(m - n) : n + i \in 1..m /\ left[i] = list[n + i]
    <2>1. /\ left \in Seq(Download) /\ DOMAIN left = 1..(Len(list) - n)
          /\ \A i \in 1..(Len(list) - n) : n + i \in DOMAIN list /\ left[i] = list[n + i]
      BY <1>4, <1>6, Dropped
    <2>2. DOMAIN list = 1..m
      BY <1>4
    <2>3. Len(left) = m - n
      BY <1>3, <1>4, <1>6
    <2>. QED BY <1>4, <2>1, <2>2, <2>3
  <1>. HIDE DEF left
  <1>10. ASSUME NEW i \in 1..m, NEW c \in list[i].cells, NEW j \in 1..i
         PROVE  D!HeldUntil(dRing, dSubmitted, c, list[j].submit) /\ c \in 0..(DownloadRing - 1)
    <2>1. c \in downloads[i].cells /\ c \in 0..(DownloadRing - 1) /\ j \in 1..m
      BY <1>3, <1>4
    <2>2. /\ D!HeldUntil(dRing, dSubmitted, c, downloads[j].submit)
          /\ i > old => D!Behind(dRing, c) <= dPending
      <3>1. i \in DOMAIN downloads
        BY ListIs
      <3>. QED BY <2>1, <3>1 DEF DownloadsInv, Laid
    <2>3. CASE j > old
      <3>1. i > old
        BY <1>3, <2>3
      <3>. QED BY <1>3, <2>1, <2>2, <3>1, DownloadHeld
    <2>4. CASE ~ (j > old)
      BY <1>4, <2>1, <2>2, <2>4
    <2>. QED BY <2>3, <2>4
  <1>11. ASSUME NEW i \in 1..(m - n), NEW c \in left[i].cells, NEW j \in 1..i
         PROVE  D!HeldUntil(r, t, c, left[j].submit)
    <2>1. /\ n + i \in 1..m /\ left[i] = list[n + i] /\ j \in 1..(m - n)
          /\ left[j] = list[n + j] /\ n + j \in 1..(n + i) /\ n + j \in 1..m
          /\ n + 1 \in 1..(n + i) /\ n + 1 \in 1..m /\ n < m
      BY <1>3, <1>6, <1>9
    <2>2. /\ D!HeldUntil(dRing, dSubmitted, c, list[n + j].submit)
          /\ D!HeldUntil(dRing, dSubmitted, c, list[n + 1].submit)
          /\ c \in 0..(DownloadRing - 1)
      BY <1>10, <2>1
    <2>3. /\ list[n + j].submit \in Nat /\ list[n + j].submit <= k
          /\ list[n + 1].submit \in Nat /\ lastFinished < list[n + 1].submit
      BY <1>2, <1>5, <1>6, <2>1
    <2>4. D!HeldUntil(r, s, c, list[n + j].submit)
      <3>1. CASE lastFinished < list[n + j].submit
        BY <1>7, <2>2, <2>3, <3>1
      <3>2. CASE ~ (lastFinished < list[n + j].submit)
        <4>1. list[n + j].submit <= list[n + 1].submit
          BY <1>2, <2>3, <3>2
        <4>2. D!HeldUntil(r, s, c, list[n + 1].submit)
          BY <1>7, <2>2, <2>3
        <4>. QED BY <1>7, <2>2, <2>3, <4>1, <4>2, DownloadHeld
      <3>. QED BY <3>1, <3>2
    <2>. QED BY <1>8, <2>1, <2>2, <2>3, <2>4
  <1>12. Apart(left)
    <2>1. SUFFICES ASSUME NEW i \in 1..(m - n), NEW j \in 1..(m - n), i # j
                   PROVE  left[i].cells \cap left[j].cells = {}
      BY <1>9 DEF Apart
    <2>2. n + i \in 1..m /\ n + j \in 1..m /\ n + i # n + j
      BY <1>6, <1>9, <2>1
    <2>3. downloads[n + i].cells \cap downloads[n + j].cells = {}
      <3>1. DOMAIN downloads = 1..m
        BY ListIs
      <3>. QED BY <2>2, <3>1 DEF DownloadsInv, Laid, Apart
    <2>. QED BY <1>4, <1>9, <2>2, <2>3
  <1>13. Laid(r, t, 0, left, Len(left) - 0)
    <2>1. \A i \in DOMAIN left : ~ (i > Len(left) - 0)
      BY <1>3, <1>6, <1>9
    <2>. QED BY <1>7, <1>8, <1>9, <1>11, <1>12, <2>1 DEF Laid
  <1>14. ASSUME NEW i \in 1..(m - n)
         PROVE  left[i].submit < k + 1 /\ left[i].use <= left[i].submit
    <2>1. left[i].submit \in 0..k /\ left[i].use <= left[i].submit
      BY <1>5, <1>9
    <2>. QED BY <1>2, <2>1
  <1>15. Laid(dRing', dSubmitted', dPending', downloads', Len(downloads') - enqueued')
    BY <1>1, <1>13
  <1>16. NumbersInv'
    <2>1. 0 \in 0..Len(left) /\ DOMAIN left = 1..(m - n)
      BY <1>3, <1>6, <1>9
    <2>. QED BY <1>1, <1>14, <2>1 DEF NumbersInv
  <1>. QED BY <1>1, <1>8, <1>15, <1>16 DEF DownloadsInv

LEMMA PresentFailsDownloads ==
  ASSUME DownloadsInv, Accounted, PresentFrameFails
  PROVE  DownloadsInv'
  <1> DEFINE old == Len(downloads) - enqueued
             list == [i \in DOMAIN downloads |->
                        [downloads[i] EXCEPT !.use = IF @ = Recording THEN 0 ELSE @]]
  <1>1. /\ phase' = "loop" /\ downloads' = list
        /\ UNCHANGED <<submitIndex, enqueued, dRing, dPending, dSubmitted>>
    BY DEF PresentFrameFails, PresentFails
  <1>2. /\ downloads \in Seq(Download) /\ Len(downloads) \in Nat
        /\ DOMAIN downloads = 1..Len(downloads) /\ enqueued \in Nat /\ enqueued <= Len(downloads)
        /\ dSubmitted \in Seq(D!Submitted)
        /\ \A i \in 1..Len(downloads) :
             /\ downloads[i] \in Download /\ downloads[i].submit \in Nat /\ downloads[i].use \in Nat
             /\ downloads[i].submit < submitIndex
             /\ downloads[i].use <= downloads[i].submit \/ downloads[i].use = Recording
    BY ListIs
  <1>3. ASSUME NEW d \in Download, NEW u \in Nat
        PROVE  LET e == [d EXCEPT !.use = u]
               IN e \in Download /\ e.cells = d.cells /\ e.use = u /\ e.submit = d.submit
    BY DEF Download
  <1>4. ASSUME NEW i \in 1..Len(downloads)
        PROVE  /\ list[i] \in Download /\ list[i].cells = downloads[i].cells
               /\ list[i].submit = downloads[i].submit /\ list[i].use <= list[i].submit
    <2> DEFINE u == IF downloads[i].use = Recording THEN 0 ELSE downloads[i].use
    <2>1. u \in Nat /\ u <= downloads[i].submit
      BY <1>2
    <2>2. list[i] = [downloads[i] EXCEPT !.use = u]
      BY <1>2
    <2>. HIDE DEF u, list
    <2>3. /\ list[i] \in Download /\ list[i].cells = downloads[i].cells /\ list[i].use = u
          /\ list[i].submit = downloads[i].submit
      BY <1>2, <1>3, <2>1, <2>2
    <2>. QED BY <2>1, <2>3
  <1>5. DOMAIN list = 1..Len(downloads)
    BY <1>2
  <1>6. list = [i \in 1..Len(downloads) |-> list[i]]
    BY <1>2
  <1>. HIDE DEF list
  <1>7. list \in Seq(Download) /\ Len(list) = Len(downloads)
    BY <1>2, <1>4, <1>6
  <1>8. Laid(dRing, dSubmitted, dPending, list, old)
    <2>1. Laid(dRing, dSubmitted, dPending, downloads, old)
      BY DEF DownloadsInv
    <2>2. Apart(list)
      BY <1>2, <1>4, <1>5, <2>1 DEF Laid, Apart
    <2>3. \A i \in 1..Len(downloads) : \A j \in 1..i : j \in 1..Len(downloads)
      BY <1>2
    <2>. QED BY <1>2, <1>4, <1>5, <1>7, <2>1, <2>2, <2>3 DEF Laid
  <1>9. Laid(dRing', dSubmitted', dPending', downloads', Len(downloads') - enqueued')
    BY <1>1, <1>7, <1>8
  <1>10. NumbersInv'
    <2>1. enqueued \in 0..Len(list)
      BY <1>2, <1>7
    <2>. QED BY <1>1, <1>2, <1>4, <1>5, <2>1 DEF NumbersInv
  <1>. QED BY <1>1, <1>2, <1>9, <1>10 DEF DownloadsInv

LEMMA ShutdownDownloads ==
  ASSUME DownloadsInv, ShutdownRenderer
  PROVE  DownloadsInv'
  <1>1. /\ enqueued' = 0 /\ downloads' = << >> /\ UNCHANGED <<dRing, dPending, dSubmitted>>
    BY DEF ShutdownRenderer
  <1>2. /\ dRing \in D!Ring /\ dPending \in Nat /\ dSubmitted \in Seq(D!Submitted)
        /\ dRing.used = D!Total(dSubmitted) + dPending
    BY ListIs
  <1>3. << >> \in Seq(Download) /\ Len(<< >>) = 0 /\ DOMAIN << >> = {}
    OBVIOUS
  <1>4. Laid(dRing, dSubmitted, dPending, << >>, Len(<< >>) - 0)
    BY <1>2, <1>3 DEF Laid, Apart
  <1>5. Laid(dRing', dSubmitted', dPending', downloads', Len(downloads') - enqueued')
    BY <1>1, <1>4
  <1>6. NumbersInv'
    BY <1>1, <1>3 DEF NumbersInv
  <1>. QED BY <1>1, <1>2, <1>5, <1>6 DEF DownloadsInv

LEMMA InitDownloads ==
  ASSUME RendererInit
  PROVE  DownloadsInv
  <1>1. /\ enqueued = 0 /\ downloads = << >>
        /\ dRing = [first |-> 0, used |-> 0] /\ dPending = 0 /\ dSubmitted = << >>
    BY DEF RendererInit, D!StagingInit
  <1>2. << >> \in Seq(Download) /\ Len(<< >>) = 0 /\ DOMAIN << >> = {} /\ << >> \in Seq(D!Submitted)
    OBVIOUS
  <1>3. dRing \in D!Ring /\ dRing.used = 0
    BY <1>1, DownloadsAssumption DEF D!Ring
  <1>4. D!Total(<< >>) = 0
    <2>1. << >> \in Seq(DR!Submitted) /\ Len(<< >>) = 0
      OBVIOUS
    <2>2. DR!Sums(<< >>)[0] = 0
      BY <2>1, DR!SumsDefined, DownloadsAssumption
    <2>3. DR!Total(<< >>) = 0
      BY <2>1, <2>2 DEF DR!Total
    <2>. QED BY <2>3, SameRing
  <1>5. Laid(dRing, dSubmitted, dPending, downloads, Len(downloads) - enqueued)
    BY <1>1, <1>2, <1>3, <1>4 DEF Laid, Apart
  <1>6. NumbersInv
    BY <1>1, <1>2 DEF NumbersInv
  <1>. QED BY <1>1, <1>2, <1>5, <1>6 DEF DownloadsInv

LEMMA NextDownloads ==
  ASSUME DownloadsInv, Accounted, [RendererNext]_rendererVars
  PROVE  DownloadsInv'
  <1>1. CASE Elsewhere \/ DeviceStep \/ UNCHANGED rendererVars
    BY <1>1, QuietDownloads
  <1>2. CASE ShutdownRenderer
    BY <1>2, ShutdownDownloads
  <1>3. CASE RendererCall
    <2>1. CASE (Begin \/ Retry \/ Wait) /\ UNCHANGED clientVars
      BY <2>1, QuietDownloads
    <2>2. CASE SubmitUploads \/ SubmitUploadsFails \/ OpenCommands
      BY <2>2, QuietDownloads
    <2>3. ASSUME NEW l \in Loads, Record(l.downloads, l.exhausted)
          PROVE  DownloadsInv'
      <3>1. l.downloads \in Nat /\ QueueTypes
        BY LoadsAssumption DEF Accounted
      <3>. QED BY <2>3, <3>1, RecordDownloads
    <2>4. CASE PresentFrame \/ PresentFrameFails
      BY <2>4, PresentDownloads, PresentFailsDownloads
    <2>. QED BY <1>3, <2>1, <2>2, <2>3, <2>4 DEF RendererCall
  <1>4. ASSUME NEW q \in Request, StageUpload(q)
        PROVE  DownloadsInv'
    BY <1>4, QuietDownloads
  <1>. QED BY <1>1, <1>2, <1>3, <1>4 DEF RendererNext

\* Whatever the device does and whatever submits fail, the bytes of a download
\* that waits on the list are in use in its ring until the submits of those
\* before it have finished, and no other download on the list has them.
THEOREM DownloadsHeld ==
  RendererSpec => []DownloadsInv
  <1>1. RendererInit => DownloadsInv
    BY InitDownloads
  <1>2. DownloadsInv /\ Accounted /\ [RendererNext]_rendererVars => DownloadsInv'
    BY NextDownloads
  <1>. QED BY <1>1, <1>2, AlwaysAccounted, PTL DEF RendererSpec

LEMMA NextValues ==
  ASSUME ~earlyValue, DownloadsInv, Accounted, InTime, [RendererNext]_rendererVars
  PROVE  ~earlyValue'
  <1>1. CASE PresentFrame
    <2> DEFINE list == Numbered(submitIndex)
               n == Completed(list)
    <2>1. /\ phase = "recorded"
          /\ earlyValue' = (earlyValue \/ \E i \in 1..n : list[i].use > timeline)
      BY <1>1 DEF PresentFrame
    <2>2. /\ submitIndex \in Nat /\ QueueTypes /\ FrameInv /\ lastFinished \in Nat /\ timeline \in Nat
          /\ lastFinished <= timeline
      BY DEF Accounted, QueueTypes, InTime, FencesInv
    <2>3. list \in Seq(Download) /\ Len(list) = Len(downloads) /\ Len(downloads) \in Nat
      BY <2>2, NumberedList, ListIs
    <2>4. n \in 0..Len(downloads) /\ \A i \in 1..n : list[i].submit <= lastFinished
      BY <2>2, <2>3, CompletedFirst
    <2>5. \A i \in 1..Len(downloads) : list[i].use <= list[i].submit /\ list[i].submit \in 0..submitIndex
      BY <2>1, <2>2, NumberedUses
    <2>6. \A i \in 1..Len(downloads) : list[i].use \in Nat
      <3>1. \A x \in Download : x.use \in Nat
        BY DEF Download
      <3>. QED BY <2>3, <3>1
    <2>. HIDE DEF list, n
    <2>7. ASSUME NEW i \in 1..n
          PROVE  ~ (list[i].use > timeline)
      <3>1. i \in 1..Len(downloads)
        BY <2>3, <2>4
      <3>. QED BY <2>2, <2>4, <2>5, <2>6, <3>1
    <2>. QED BY <2>1, <2>7
  <1>2. CASE ~ PresentFrame
    <2>1. earlyValue' = earlyValue
      BY <1>2 DEF RendererNext, RendererCall, Elsewhere, DeviceStep, ShutdownRenderer, StageUpload,
                  SubmitUploads, SubmitUploadsFails, OpenCommands, Record, PresentFrameFails,
                  clientVars, downloadVars, rendererVars
    <2>. QED BY <2>1
  <1>. QED BY <1>1, <1>2

\* As long as no fence is reset that a submit in flight is to signal, a promise
\* of a download gets its value after the device has written the bytes, and no
\* two downloads that wait have a byte in common.
THEOREM DownloadsFollowWrites ==
  RendererSpec /\ []FenceIsIdle => []DownloadsIntact
  <1>1. RendererInit => ~earlyValue
    BY DEF RendererInit
  <1>2. ~earlyValue /\ DownloadsInv /\ Accounted /\ InTime /\ [RendererNext]_rendererVars => ~earlyValue'
    BY NextValues
  <1>3. ~earlyValue /\ DownloadsInv => DownloadsIntact
    BY DEF DownloadsInv, Laid, DownloadsIntact
  <1>. QED BY <1>1, <1>2, <1>3, AlwaysAccounted, AlwaysInTime, DownloadsHeld, PTL DEF RendererSpec
=============================================================================
