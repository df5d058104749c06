--------------------------- MODULE JobManagerProofs ---------------------------
(***************************************************************************)
(* Proofs about JobManager, for every number of threads and jobs: IInv is  *)
(* inductive, and with it no job is used after it was deallocated, a wait  *)
(* returns only when the tree of its job has executed, and the job manager *)
(* implements ForkJoin.                                                    *)
(***************************************************************************)
EXTENDS JobManagerInv, FiniteSetTheorems, TLAPS

USE DEF Frame, jobVars, countVars, stackVars, pushVars, workerVars

-----------------------------------------------------------------------------
(* The counters. *)

\* Job x begins to be counted by a.
LEMMA CountAdd ==
  ASSUME TypeOK, CountInv, NEW x \in Job, NEW a \in Job, a \notin owes[x],
         unfinished' = [unfinished EXCEPT ![a] = @ + 1],
         owes' = [owes EXCEPT ![x] = @ \cup {a}]
  PROVE  CountInv'
<1> SUFFICES ASSUME NEW b \in Job
             PROVE  unfinished'[b] = Cardinality(Owing(b)')
  BY DEF CountInv
<1>1. IsFiniteSet(Owing(b))
  BY FS_Subset, JobAssumption DEF Owing
<1>2. unfinished[b] = Cardinality(Owing(b))
  BY DEF CountInv
<1>3. CASE b = a
  <2>1. Owing(b)' = Owing(b) \cup {x} /\ x \notin Owing(b)
    BY <1>3 DEF Owing, TypeOK
  <2>2. QED
    <3>1. Cardinality(Owing(b)') = Cardinality(Owing(b)) + 1
      BY <1>1, <2>1, FS_AddElement
    <3>2. unfinished'[b] = unfinished[b] + 1
      BY <1>3 DEF TypeOK
    <3> QED
      BY <1>2, <3>1, <3>2
<1>4. CASE b # a
  <2>1. Owing(b)' = Owing(b)
    BY <1>4 DEF Owing, TypeOK
  <2>2. QED
    BY <1>2, <1>4, <2>1 DEF TypeOK
<1> QED
  BY <1>3, <1>4

\* Job x ceases to be counted by a.
LEMMA CountRemove ==
  ASSUME TypeOK, CountInv, NEW x \in Job, NEW a \in Job, a \in owes[x],
         unfinished' = [unfinished EXCEPT ![a] = @ - 1],
         owes' = [owes EXCEPT ![x] = @ \ {a}]
  PROVE  /\ CountInv'
         /\ unfinished[a] >= 1
         /\ unfinished[a] = 1 => Owing(a)' = {}
<1>0. \A b \in Job : IsFiniteSet(Owing(b)) /\ unfinished[b] = Cardinality(Owing(b))
  BY FS_Subset, JobAssumption DEF Owing, CountInv
<1>1. Owing(a)' = Owing(a) \ {x} /\ x \in Owing(a)
  BY DEF Owing, TypeOK
<1>2. /\ IsFiniteSet(Owing(a)')
      /\ Cardinality(Owing(a)') = Cardinality(Owing(a)) - 1
  BY <1>0, <1>1, FS_RemoveElement
<1>3. Cardinality(Owing(a)') \in Nat
  BY <1>2, FS_CardinalityType
<1>4. unfinished[a] >= 1
  BY <1>0, <1>2, <1>3 DEF TypeOK
<1>5. unfinished[a] = 1 => Owing(a)' = {}
  BY <1>0, <1>2, FS_EmptySet
<1>6. ASSUME NEW b \in Job
      PROVE  unfinished'[b] = Cardinality(Owing(b)')
  <2>1. CASE b = a
    BY <1>0, <1>2, <2>1 DEF TypeOK
  <2>2. CASE b # a
    <3>1. Owing(b)' = Owing(b)
      BY <2>2 DEF Owing, TypeOK
    <3>2. QED
      BY <1>0, <2>2, <3>1 DEF TypeOK
  <2>3. QED
    BY <2>1, <2>2
<1>7. CountInv'
  BY <1>6 DEF CountInv
<1>8. QED
  BY <1>4, <1>5, <1>7

LEMMA ThreadFinite == IsFiniteSet(Thread) /\ Main \in Thread
BY FS_Interval, ThreadsAssumption DEF Thread, Main

\* The cardinalities in RefInv are numbers, and a number for a nonempty set is
\* not zero.
LEMMA RefSets ==
  ASSUME TypeOK, NEW a \in Job
  PROVE  /\ IsFiniteSet(holders[a]) /\ IsFiniteSet(Releasing(a))
         /\ Cardinality(holders[a]) \in Nat /\ Cardinality(Releasing(a)) \in Nat
         /\ holders[a] # {} => Cardinality(holders[a]) >= 1
         /\ Releasing(a) # {} => Cardinality(Releasing(a)) >= 1
<1>1. IsFiniteSet(Frame)
  BY FS_AddElement, JobAssumption
<1>2. IsFiniteSet(holders[a])
  BY <1>1, FS_Subset DEF TypeOK
<1>3. IsFiniteSet(Releasing(a))
  BY ThreadFinite, FS_Subset DEF Releasing
<1>4. /\ Cardinality(holders[a]) \in Nat /\ Cardinality(Releasing(a)) \in Nat
      /\ Cardinality(holders[a]) = 0 <=> holders[a] = {}
      /\ Cardinality(Releasing(a)) = 0 <=> Releasing(a) = {}
  BY <1>2, <1>3, FS_CardinalityType, FS_EmptySet
<1>5. QED
  BY <1>2, <1>3, <1>4

\* A job someone relies on has not been deallocated, and one more reference can
\* be dropped.
LEMMA ReliedOn ==
  ASSUME TypeOK, RefInv, NEW a \in Born,
         holders[a] # {} \/ Releasing(a) # {} \/ Firm(a) # {}
  PROVE  a \notin freed /\ refs[a] \in Nat
<1>1. a \in Job
  BY DEF Born
<1>2. refs[a] + 1 >= Cardinality(holders[a]) + Cardinality(Releasing(a)) + FirmUnit(a)
  BY DEF RefInv
<1>3. Cardinality(holders[a]) + Cardinality(Releasing(a)) + FirmUnit(a) >= 1
  BY <1>1, RefSets DEF FirmUnit
<1>4. refs[a] \in Nat \cup {-1}
  BY <1>1 DEF TypeOK
<1>5. Cardinality(holders[a]) \in Nat /\ Cardinality(Releasing(a)) \in Nat /\ FirmUnit(a) \in Nat
  BY <1>1, RefSets DEF FirmUnit
<1>6. refs[a] # -1
  BY <1>2, <1>3, <1>4, <1>5
<1>7. QED
  BY <1>4, <1>6 DEF RefInv

\* A job that has not finished is counted, firmly, by all its ancestors.
LEMMA LiveIsFirm ==
  ASSUME TypeOK, OwesInv, PushInv, NEW d \in Job, NEW a \in lineage[d],
         status[d] \in {"allocated", "queued", "running"}
  PROVE  d \in Firm(a)
BY DEF Firm, Owing, OwesInv, PushInv, Pushing

\* So is a job by the ancestor signal_finished_job stands at.
LEMMA FinishingIsFirm ==
  ASSUME TypeOK, FrameInv, LineageInv, FinishInv, PushInv,
         NEW t \in Thread, pc[t] = "finish"
  PROVE  /\ top[t] \in Job /\ cur[t] \in Born /\ cur[t] \in owes[top[t]]
         /\ top[t] \in Firm(cur[t])
<1>0. top[t] \in Job /\ status[top[t]] = "executed"
  BY DEF TypeOK, FrameInv, WorkerPCs, FramePCs, Finishing
<1>1. /\ top[t] \in Job /\ status[top[t]] = "executed" /\ cur[t] \in Born
      /\ cur[t] \in owes[top[t]]
  BY <1>0 DEF Finishing, FinishInv, LineageInv
<1>2. QED
  BY <1>1 DEF Firm, Owing, PushInv, Pushing

\* The walk of allocate_job_impl stands at a job that is there.
LEMMA WalkIsAlive ==
  ASSUME IInv, NEW t \in Thread, pc[t] \in {"count", "addref"}
  PROVE  /\ cur[t] \in Born /\ cur[t] \notin freed /\ refs[cur[t]] \in Nat
<1>0. /\ TypeOK /\ FrameInv /\ LineageInv /\ OwesInv /\ PushInv /\ RefInv
  BY DEF IInv
<1> DEFINE p == parent[fresh[t]]
<1>1. /\ fresh[t] \in Job /\ p \in Frame /\ cur[t] \in lineage[p]
      /\ p # NoJob => p \in Born /\ (p = top[t] \/ (top[t] \in holders[p] /\ parent[p] = NoJob))
  BY <1>0 DEF PushInv, Pushing, TypeOK
<1>2. p \in Born /\ cur[t] \in Born
  BY <1>0, <1>1 DEF LineageInv
<1>3. CASE p = top[t]
  <2>1. p \in Job /\ status[p] = "running"
    BY <1>0, <1>2, <1>3, JobAssumption DEF FrameInv, Finishing, Born
  <2>2. Firm(cur[t]) # {}
    BY <1>0, <1>1, <2>1, LiveIsFirm
  <2>3. QED
    BY <1>0, <1>2, <2>2, ReliedOn
<1>4. CASE top[t] \in holders[p] /\ parent[p] = NoJob
  <2>1. cur[t] = p
    BY <1>0, <1>1, <1>2, <1>4 DEF LineageInv
  <2>2. QED
    BY <1>0, <1>2, <1>4, <2>1, ReliedOn
<1>5. QED
  BY <1>1, <1>2, <1>3, <1>4, JobAssumption DEF Born

\* A queued job is at one place.
LEMMA QueuedOnce ==
  ASSUME QueueInv, NEW t \in Thread, NEW u \in Thread,
         NEW i \in 1 .. Len(queue[t]), NEW k \in 1 .. Len(queue[u]),
         queue[t][i] = queue[u][k]
  PROVE  t = u /\ i = k
BY DEF QueueInv

-----------------------------------------------------------------------------
(* The initial states. *)

LEMMA InitInv == Init => IInv
<1> SUFFICES ASSUME Init PROVE IInv
  OBVIOUS
<1> USE ThreadsAssumption, JobAssumption DEF Init, Thread, Main, Frame
<1>1. TypeOK
  BY ThresholdAssumption DEF TypeOK, PCs, PushOps
<1>2. Born = {}
  BY DEF Born
<1>3. \A t \in Thread : pc[t] \in {"init", "uninitialized"} /\ top[t] = NoJob
  OBVIOUS
<1>4. CountInv
  <2>1. \A a \in Job : Owing(a) = {}
    BY DEF Owing
  <2>2. QED
    BY <2>1, FS_EmptySet DEF CountInv
<1>5. QueueInv
  BY DEF QueueInv
<1>6. StackInv /\ FrameInv
  BY <1>3 DEF StackInv, FrameInv, WorkerPCs, FramePCs, Pushing, Finishing, Waiting
<1>7. HolderInv /\ LineageInv /\ OwesInv
  BY <1>2 DEF HolderInv, LineageInv, OwesInv
<1>8. FinishInv /\ PushInv
  BY <1>3 DEF FinishInv, PushInv, Pushing, Finishing
<1>9. RefInv
  BY <1>2 DEF RefInv
<1> QED
  BY <1>1, <1>4, <1>5, <1>6, <1>7, <1>8, <1>9 DEF IInv


-----------------------------------------------------------------------------
(* Steps that move one program counter and no job. *)

LEMMA QuietInv ==
  ASSUME IInv, TypeOK', NEW t \in Thread, NEW v,
         pc' = [pc EXCEPT ![t] = v],
         pc[t] \notin Pushing \cup Finishing, v \notin Pushing \cup Finishing,
         v \in Waiting <=> pc[t] \in Waiting,
         v \in FramePCs => pc[t] \in FramePCs \cup {"init"},
         top[t] # NoJob => v \in FramePCs,
         v \in {"stopping", "join", "down"} => t = Main, v # "init",
         v \in WorkerPCs => t # Main,
         \A u \in Thread : u # t => fresh'[u] = fresh[u],
         UNCHANGED <<jobVars, countVars, stackVars, cur, queue>>
  PROVE  IInv'
<1>1. /\ TypeOK /\ QueueInv /\ StackInv /\ FrameInv /\ HolderInv /\ LineageInv
      /\ OwesInv /\ FinishInv /\ PushInv /\ CountInv /\ RefInv
  BY DEF IInv
<1>2. Born' = Born
  BY DEF Born
<1>3. QueueInv' /\ StackInv'
  BY <1>1 DEF QueueInv, StackInv
<1>4. FrameInv'
  BY <1>1 DEF FrameInv, WorkerPCs, FramePCs, Pushing, Finishing, Waiting, TypeOK
<1>5. HolderInv' /\ LineageInv' /\ OwesInv'
  BY <1>1, <1>2 DEF HolderInv, LineageInv, OwesInv
<1>6. FinishInv'
  BY <1>1, <1>2 DEF FinishInv, TypeOK
<1>7. PushInv'
  BY <1>1, <1>2 DEF PushInv, Left, TypeOK, Pushing
<1>8. CountInv'
  BY <1>1 DEF CountInv, Owing
<1>9. RefInv'
  <2>0. \A u \in Thread :
          /\ pc'[u] = "addref" <=> pc[u] = "addref"
          /\ pc'[u] = "addref" => fresh'[u] = fresh[u] /\ cur'[u] = cur[u]
    BY <1>1 DEF TypeOK, Pushing
  <2>1. \A b \in Born : Firm(b)' = Firm(b)
    BY <2>0 DEF Firm, Owing
  <2>2. \A b \in Born : Releasing(b)' = Releasing(b)
    BY <1>1 DEF Releasing, TypeOK, Finishing
  <2>3. QED
    BY <1>1, <1>2, <2>1, <2>2 DEF RefInv, FirmUnit
<1>10. QED
  BY <1>3, <1>4, <1>5, <1>6, <1>7, <1>8, <1>9 DEF IInv

LEMMA WorkerLoopQuiet ==
  ASSUME IInv, NEW t \in Thread,
         WorkerInit(t) \/ LoopTest(t) \/ PollNext(t) \/ PollMiss(t) \/ Wake(t)
  PROVE  IInv'
<1>0. TypeOK
  BY DEF IInv
<1>1. TypeOK'
  <2>1. CASE WorkerInit(t)
    BY <1>0, <2>1 DEF WorkerInit, TypeOK, PCs
  <2>2. CASE LoopTest(t)
    BY <1>0, <2>2 DEF LoopTest, TypeOK, PCs
  <2>3. CASE PollNext(t)
    <3>1. scan[t] + 1 \in 1 .. NumThreads
      BY <1>0, <2>3, ThreadsAssumption DEF PollNext, TypeOK
    <3>2. QED
      BY <1>0, <2>3, <3>1 DEF PollNext, TypeOK
  <2>4. CASE PollMiss(t)
    <3>1. /\ 1 \in 1 .. NumThreads
          /\ (IF misses[t] > WaitThreshold THEN misses[t] ELSE misses[t] + 1)
               \in 0 .. WaitThreshold + 1
      BY <1>0, ThreadsAssumption, ThresholdAssumption DEF TypeOK
    <3>2. QED
      BY <1>0, <2>4, <3>1 DEF PollMiss, TypeOK, PCs
  <2>5. CASE Wake(t)
    BY <1>0, <2>5 DEF Wake, TypeOK, PCs
  <2>6. QED
    BY <2>1, <2>2, <2>3, <2>4, <2>5
<1>2. top[t] = NoJob
  BY DEF IInv, FrameInv, WorkerPCs, FramePCs, Pushing, Finishing, Waiting,
         WorkerInit, LoopTest, PollNext, PollMiss, Wake
<1>3. PICK v \in {"loop", "exited", "poll", "sleep"} : pc' = [pc EXCEPT ![t] = v]
  BY <1>0 DEF WorkerInit, LoopTest, PollNext, PollMiss, Wake, TypeOK
<1>4. /\ pc[t] \in {"uninitialized", "loop", "poll", "sleep"}
      /\ fresh' = fresh /\ t # Main
      /\ UNCHANGED <<jobVars, countVars, stackVars, cur, queue>>
  BY DEF IInv, FrameInv, WorkerPCs, WorkerInit, LoopTest, PollNext, PollMiss, Wake
<1>5. QED
  BY <1>1, <1>2, <1>3, <1>4, QuietInv
     DEF WorkerPCs, FramePCs, Pushing, Finishing, Waiting

LEMMA CallQuiet ==
  ASSUME IInv, NEW t \in Thread, Signal(t) \/ WaitLoad(t) \/ WaitSpin(t)
  PROVE  IInv'
<1>0. TypeOK
  BY DEF IInv
<1>1. TypeOK'
  <2>1. CASE Signal(t)
    BY <1>0, <2>1 DEF Signal, TypeOK, PCs, PushOps
  <2>2. CASE WaitLoad(t)
    BY <1>0, <2>2 DEF WaitLoad, TypeOK, PCs
  <2>3. CASE WaitSpin(t)
    BY <1>0, <2>3 DEF WaitSpin, TypeOK, PCs
  <2>4. QED
    BY <2>1, <2>2, <2>3
<1>3. PICK v \in {"run", "help", "drop", "wait"} :
        pc' = [pc EXCEPT ![t] = v] /\ (v \in Waiting <=> pc[t] \in Waiting)
  BY <1>0 DEF Signal, WaitLoad, WaitSpin, TypeOK, Waiting
<1>4. /\ pc[t] \in {"signal", "wait", "help"}
      /\ \A u \in Thread : u # t => fresh'[u] = fresh[u]
      /\ UNCHANGED <<jobVars, countVars, stackVars, cur, queue>>
  BY <1>0 DEF Signal, WaitLoad, WaitSpin, TypeOK
<1>5. QED
  BY <1>1, <1>3, <1>4, QuietInv DEF WorkerPCs, FramePCs, Pushing, Finishing, Waiting

LEMMA LifecycleInv ==
  ASSUME IInv, Lifecycle
  PROVE  IInv'
<1>0. TypeOK /\ FrameInv /\ Main \in Thread
  BY ThreadFinite DEF IInv
<1>1. TypeOK'
  <2>1. CASE InitDone
    BY <1>0, <2>1 DEF InitDone, TypeOK, PCs
  <2>2. CASE ShutdownBegin
    BY <1>0, <2>2 DEF ShutdownBegin, TypeOK, PCs
  <2>3. CASE \E w \in Worker : ShutdownStop(w)
    BY <1>0, <2>3, ThreadsAssumption DEF ShutdownStop, TypeOK, Worker, Thread
  <2>4. CASE ShutdownSignal
    <3>1. permits + (NumThreads - 1) \in Nat
      BY <1>0, ThreadsAssumption DEF TypeOK
    <3>2. QED
      BY <1>0, <2>4, <3>1 DEF ShutdownSignal, TypeOK, PCs
  <2>5. CASE ShutdownJoin
    BY <1>0, <2>5 DEF ShutdownJoin, TypeOK, PCs
  <2>6. QED
    BY <2>1, <2>2, <2>3, <2>4, <2>5 DEF Lifecycle
<1>2. /\ fresh' = fresh
      /\ UNCHANGED <<jobVars, countVars, stackVars, cur, queue>>
      /\ top[Main] = NoJob
      /\ \/ pc[Main] = "init" /\ pc' = [pc EXCEPT ![Main] = "run"]
         \/ /\ pc[Main] \in {"run", "stopping", "join"}
            /\ \E v \in {"stopping", "join", "down"} : pc' = [pc EXCEPT ![Main] = v]
  BY <1>0 DEF Lifecycle, InitDone, ShutdownBegin, ShutdownStop, ShutdownSignal,
              ShutdownJoin, TypeOK, FrameInv, WorkerPCs, FramePCs, Pushing, Finishing, Waiting
<1>3. QED
  BY <1>0, <1>1, <1>2, QuietInv DEF WorkerPCs, FramePCs, Pushing, Finishing, Waiting

-----------------------------------------------------------------------------
(* Pushing a job. *)

LEMMA CountAncestorInv ==
  ASSUME IInv, NEW t \in Thread, CountAncestor(t) PROVE IInv'
<1> DEFINE a == cur[t]
           x == fresh[t]
<1> USE JobAssumption, ThreadsAssumption
<1>1. /\ TypeOK /\ QueueInv /\ StackInv /\ FrameInv /\ HolderInv /\ LineageInv
      /\ OwesInv /\ FinishInv /\ PushInv /\ CountInv /\ RefInv
  BY DEF IInv
<1>0. /\ unfinished' = [unfinished EXCEPT ![a] = @ + 1]
      /\ owes' = [owes EXCEPT ![x] = @ \cup {a}]
      /\ pc' = [pc EXCEPT ![t] = "addref"]
      /\ pc[t] = "count"
      /\ UNCHANGED <<status, parent, refs, freed, holders, lineage, top, below, waitOn, fresh, op, scan, misses, stop, cur, queue, permits>>
  BY DEF CountAncestor
<1>2. /\ x \in Job /\ status[x] = "pushing" /\ a \in Born /\ a \in Job
      /\ a \notin owes[x] /\ x \notin Born
  <2>1. /\ x \in Job /\ status[x] = "pushing" /\ lineage[a] \cap owes[x] = {}
    BY <1>0, <1>1 DEF PushInv, Left, Pushing
  <2>2. a \in Born
    BY <1>0, WalkIsAlive
  <2>3. QED
    BY <1>1, <2>1, <2>2 DEF LineageInv, Born
<1>3. TypeOK'
  BY <1>0, <1>1, <1>2 DEF TypeOK, PCs
<1>4. QueueInv'
  BY <1>0, <1>1 DEF QueueInv
<1>5. StackInv'
  BY <1>0, <1>1 DEF StackInv
<1>6. FrameInv'
  BY <1>0, <1>1 DEF FrameInv, WorkerPCs, FramePCs, Pushing, Finishing, Waiting, TypeOK
<1>7. Born' = Born
  BY <1>0 DEF Born
<1>8. HolderInv' /\ LineageInv'
  BY <1>0, <1>1, <1>7 DEF HolderInv, LineageInv
<1>9. OwesInv'
  BY <1>0, <1>1, <1>2, <1>7 DEF OwesInv, TypeOK
<1>10. FinishInv'
  BY <1>0, <1>1, <1>2, <1>7 DEF FinishInv, FrameInv, Finishing, TypeOK, FramePCs
<1>11. PushInv'
  BY <1>0, <1>1, <1>2, <1>7 DEF PushInv, Left, Pushing, TypeOK, LineageInv
<1>12. CountInv'
  <2>1. /\ TypeOK /\ CountInv /\ x \in Job /\ a \in Job /\ a \notin owes[x]
        /\ unfinished' = [unfinished EXCEPT ![a] = @ + 1]
        /\ owes' = [owes EXCEPT ![x] = @ \cup {a}]
    BY <1>0, <1>1, <1>2
  <2>2. QED
    BY <2>1, CountAdd, Zenon
<1>13. RefInv'
  <2>1. \A b \in Born : Firm(b)' = Firm(b)
    BY <1>0, <1>1, <1>2 DEF Firm, Owing, TypeOK, PushInv, Pushing
  <2>2. \A b \in Born : Releasing(b)' = Releasing(b)
    BY <1>0, <1>1 DEF Releasing, TypeOK
  <2>3. QED
    BY <1>0, <1>1, <1>7, <2>1, <2>2 DEF RefInv, FirmUnit
<1> QED
  BY <1>3, <1>4, <1>5, <1>6, <1>8, <1>9, <1>10, <1>11, <1>12, <1>13 DEF IInv

LEMMA PushBeginInv ==
  ASSUME IInv, NEW t \in Thread, NEW o \in PushOps, NEW p \in Frame, PushBegin(t, o, p)
  PROVE  IInv'
<1> USE JobAssumption, ThreadsAssumption
<1>1. /\ TypeOK /\ QueueInv /\ StackInv /\ FrameInv /\ HolderInv /\ LineageInv
      /\ OwesInv /\ FinishInv /\ PushInv /\ CountInv /\ RefInv
  BY DEF IInv
<1>0. PICK x \in Job :
        /\ status[x] = "unborn"
        /\ status' = [status EXCEPT ![x] = "pushing"]
        /\ parent' = [parent EXCEPT ![x] = p]
        /\ fresh' = [fresh EXCEPT ![t] = x]
        /\ cur' = [cur EXCEPT ![t] = p]
        /\ op' = [op EXCEPT ![t] = o]
        /\ pc' = [pc EXCEPT ![t] = IF p = NoJob THEN "allocate" ELSE "count"]
        /\ pc[t] = "run"
        /\ p # NoJob => p = top[t] \/ (top[t] \in holders[p] /\ parent[p] = NoJob)
        /\ UNCHANGED <<unfinished, refs, freed, holders, lineage, owes, top, below,
                       waitOn, scan, misses, stop, queue, permits>>
  BY <1>1 DEF PushBegin, MayBeParent
<1>2. x \notin Born /\ owes[x] = {} /\ Born' = Born
  BY <1>0, <1>1 DEF Born, OwesInv, TypeOK
<1>3. p # NoJob => p \in Born
  BY <1>0, <1>1 DEF FrameInv, HolderInv, Born, Finishing
<1>4. TypeOK'
  BY <1>0, <1>1 DEF TypeOK, PCs
<1>5. QueueInv'
  BY <1>0, <1>1 DEF QueueInv, TypeOK
<1>6. StackInv'
  BY <1>0, <1>1 DEF StackInv, TypeOK
<1>7. FrameInv'
  BY <1>0, <1>1 DEF FrameInv, WorkerPCs, FramePCs, Pushing, Finishing, Waiting, TypeOK
<1>8. HolderInv' /\ LineageInv' /\ OwesInv'
  BY <1>0, <1>1, <1>2 DEF HolderInv, LineageInv, OwesInv, TypeOK, Born
<1>9. FinishInv'
  BY <1>0, <1>1, <1>2 DEF FinishInv, TypeOK, Finishing
<1>10. PushInv'
  <2>1. \A u \in Thread : pc[u] \in Pushing => fresh[u] # x
    BY <1>0, <1>1 DEF PushInv
  <2>2. p # NoJob => p \in lineage[p]
    BY <1>1, <1>3 DEF LineageInv
  <2>3. QED
    BY <1>0, <1>1, <1>2, <1>3, <2>1, <2>2 DEF PushInv, Left, Pushing, TypeOK, LineageInv
<1>11. CountInv'
  BY <1>0, <1>1 DEF CountInv, Owing
<1>12. RefInv'
  <2>1. \A b \in Born : Firm(b)' = Firm(b)
    BY <1>0, <1>1 DEF Firm, Owing, TypeOK
  <2>2. \A b \in Born : Releasing(b)' = Releasing(b)
    BY <1>0, <1>1 DEF Releasing, TypeOK
  <2>3. QED
    BY <1>0, <1>1, <1>2, <2>1, <2>2 DEF RefInv, FirmUnit
<1> QED
  BY <1>4, <1>5, <1>6, <1>7, <1>8, <1>9, <1>10, <1>11, <1>12 DEF IInv

LEMMA RefAncestorInv ==
  ASSUME IInv, NEW t \in Thread, RefAncestor(t) PROVE IInv'
<1> DEFINE a == cur[t]
           x == fresh[t]
<1> USE JobAssumption, ThreadsAssumption
<1>1. /\ TypeOK /\ QueueInv /\ StackInv /\ FrameInv /\ HolderInv /\ LineageInv
      /\ OwesInv /\ FinishInv /\ PushInv /\ CountInv /\ RefInv
  BY DEF IInv
<1>0. /\ refs' = [refs EXCEPT ![a] = @ + 1]
      /\ cur' = [cur EXCEPT ![t] = parent[a]]
      /\ pc' = [pc EXCEPT ![t] = IF parent[a] = NoJob THEN "allocate" ELSE "count"]
      /\ pc[t] = "addref"
      /\ UNCHANGED <<status, parent, unfinished, freed, holders, lineage, owes, top,
                     below, waitOn, fresh, op, scan, misses, stop, queue, permits>>
  BY DEF RefAncestor
<1>2. /\ x \in Job /\ status[x] = "pushing" /\ x \notin Born
      /\ a \in Born /\ a \in Job /\ a \notin freed /\ refs[a] \in Nat
      /\ parent[a] \in Frame
  BY <1>0, <1>1, WalkIsAlive DEF PushInv, Pushing, TypeOK, Born
<1>3. TypeOK'
  BY <1>0, <1>1, <1>2 DEF TypeOK, PCs
<1>4. QueueInv' /\ StackInv'
  BY <1>0, <1>1 DEF QueueInv, StackInv
<1>6. FrameInv'
  BY <1>0, <1>1 DEF FrameInv, WorkerPCs, FramePCs, Pushing, Finishing, Waiting, TypeOK
<1>7. Born' = Born
  BY <1>0 DEF Born
<1>8. HolderInv' /\ LineageInv' /\ OwesInv'
  BY <1>0, <1>1, <1>7 DEF HolderInv, LineageInv, OwesInv
<1>10. FinishInv'
  BY <1>0, <1>1, <1>7 DEF FinishInv, Finishing, TypeOK
<1>11. PushInv'
  <2>1. parent[a] # NoJob => parent[a] \in lineage[a] /\ parent[a] \in lineage[parent[fresh[t]]]
    <3>1. parent[a] # NoJob => parent[a] \in lineage[parent[a]]
      BY <1>1, <1>2 DEF LineageInv
    <3>2. lineage[parent[a]] \subseteq lineage[a]
      BY <1>1, <1>2 DEF LineageInv
    <3>3. lineage[parent[a]] \subseteq lineage[parent[fresh[t]]]
      BY <1>0, <1>1 DEF PushInv, Left, Pushing
    <3>4. QED
      BY <3>1, <3>2, <3>3
  <2>2. QED
    BY <1>0, <1>1, <1>2, <1>7, <2>1 DEF PushInv, Left, Pushing, TypeOK, LineageInv
<1>12. CountInv'
  BY <1>0, <1>1 DEF CountInv, Owing
<1>13. RefInv'
  <2>1. \A b \in Born : b # a => Firm(b)' = Firm(b)
    BY <1>0, <1>1, <1>2 DEF Firm, Owing, TypeOK
  <2>2. \A b \in Born : Releasing(b)' = Releasing(b)
    BY <1>0, <1>1 DEF Releasing, TypeOK
  <2>3. \A b \in Job : FirmUnit(b)' <= FirmUnit(b) + 1 /\ FirmUnit(b)' \in Nat /\ FirmUnit(b) \in Nat
    BY DEF FirmUnit
  <2>4. refs'[a] = refs[a] + 1
    BY <1>0, <1>1, <1>2 DEF TypeOK
  <2>5. \A b \in Born : b \in Job
    BY DEF Born
  <2>6. \A b \in Born : Cardinality(holders[b]) \in Nat /\ Cardinality(Releasing(b)) \in Nat
    BY <1>1, <2>5, RefSets
  <2>7. ASSUME NEW b \in Born
        PROVE  refs'[b] + 1 >= Cardinality(holders'[b]) + Cardinality(Releasing(b)') + FirmUnit(b)'
    <3>1. CASE b = a
      <4>1. refs[b] + 1 >= Cardinality(holders[b]) + Cardinality(Releasing(b)) + FirmUnit(b)
        BY <1>1 DEF RefInv
      <4>2. Releasing(b)' = Releasing(b) /\ holders'[b] = holders[b]
        BY <1>0, <2>2
      <4>3. /\ refs'[b] = refs[b] + 1 /\ refs[b] \in Nat
            /\ FirmUnit(b)' <= FirmUnit(b) + 1 /\ FirmUnit(b)' \in Nat /\ FirmUnit(b) \in Nat
        BY <1>2, <2>3, <2>4, <2>5, <3>1
      <4>4. QED
        BY <2>6, <4>1, <4>2, <4>3
    <3>2. CASE b # a
      BY <1>0, <1>1, <1>2, <2>1, <2>2, <2>5, <3>2 DEF RefInv, FirmUnit, TypeOK
    <3>3. QED
      BY <3>1, <3>2
  <2>8. QED
    BY <1>0, <1>1, <1>2, <1>7, <2>4, <2>5, <2>7 DEF RefInv, TypeOK
<1> QED
  BY <1>3, <1>4, <1>6, <1>8, <1>10, <1>11, <1>12, <1>13 DEF IInv

LEMMA AllocateInv ==
  ASSUME IInv, NEW t \in Thread, Allocate(t) PROVE IInv'
<1> USE JobAssumption, ThreadsAssumption
<1>1. /\ TypeOK /\ QueueInv /\ StackInv /\ FrameInv /\ HolderInv /\ LineageInv
      /\ OwesInv /\ FinishInv /\ PushInv /\ CountInv /\ RefInv
  BY DEF IInv
<1>2. PICK x : x = fresh[t]
  OBVIOUS
<1>3. PICK p : p = parent[x]
  OBVIOUS
<1>0. /\ status' = [status EXCEPT ![x] = "allocated"]
      /\ unfinished' = [unfinished EXCEPT ![x] = 1]
      /\ refs' = [refs EXCEPT ![x] = IF Waitable(op[t]) THEN 1 ELSE 0]
      /\ holders' = [holders EXCEPT ![x] = IF ReturnsHandle(op[t]) THEN {top[t]} ELSE {}]
      /\ lineage' = [lineage EXCEPT ![x] = {x} \cup lineage[p]]
      /\ owes' = [owes EXCEPT ![x] = @ \cup {x}]
      /\ pc' = [pc EXCEPT ![t] = "enqueue"]
      /\ pc[t] = "allocate"
      /\ UNCHANGED <<parent, freed, top, below, waitOn, fresh, op, scan, misses, stop,
                     cur, queue, permits>>
  BY <1>2, <1>3 DEF Allocate
<1>4. /\ x \in Job /\ status[x] = "pushing" /\ x \notin Born /\ p \in Born \cup {NoJob}
      /\ owes[x] = lineage[p]
      /\ p # NoJob => p = top[t] \/ (top[t] \in holders[p] /\ parent[p] = NoJob)
  <2>1. t \in Thread /\ pc[t] \in Pushing /\ pc[t] # "enqueue"
    BY <1>0 DEF Pushing
  <2>2. /\ x \in Job /\ status[x] = "pushing"
        /\ p # NoJob => p \in Born /\ (p = top[t] \/ (top[t] \in holders[p] /\ parent[p] = NoJob))
        /\ Left(t) \cup owes[x] = lineage[p]
    BY <1>1, <1>2, <1>3, <2>1 DEF PushInv
  <2>3. Left(t) = {}
    BY <1>0 DEF Left
  <2>4. QED
    BY <2>2, <2>3 DEF Born
<1>5. Born' = Born \cup {x}
  BY <1>0, <1>1, <1>4 DEF Born, TypeOK
<1>6. TypeOK'
  BY <1>0, <1>1, <1>4 DEF TypeOK, PCs
<1>7. QueueInv'
  BY <1>0, <1>1, <1>4 DEF QueueInv, TypeOK
<1>8. StackInv'
  BY <1>0, <1>1, <1>4 DEF StackInv, FrameInv, TypeOK
<1>9. FrameInv'
  BY <1>0, <1>1, <1>4 DEF FrameInv, WorkerPCs, FramePCs, Pushing, Finishing, Waiting, TypeOK
<1>10. HolderInv'
  BY <1>0, <1>1, <1>4, <1>5 DEF HolderInv, TypeOK
<1>11. LineageInv'
  <2>1. \A b \in Born \cup {NoJob} : b # x /\ lineage'[b] = lineage[b]
    BY <1>0, <1>1, <1>4 DEF TypeOK, Born
  <2>2. lineage'[x] = {x} \cup lineage[p]
    BY <1>0, <1>1, <1>4 DEF TypeOK
  <2>3. x \notin lineage[p] /\ lineage[p] \subseteq Born
    BY <1>1, <1>4 DEF LineageInv
  <2>4. ASSUME NEW j \in Born'
        PROVE  /\ parent'[j] \in Born' \cup {NoJob}
               /\ lineage'[j] = {j} \cup lineage'[parent'[j]]
               /\ j \notin lineage'[parent'[j]]
               /\ lineage'[j] \subseteq Born'
    <3>1. CASE j = x
      BY <1>0, <1>3, <1>4, <1>5, <2>1, <2>2, <2>3, <3>1
    <3>2. CASE j # x
      BY <1>0, <1>1, <1>5, <2>1, <3>2 DEF LineageInv
    <3>3. QED
      BY <3>1, <3>2
  <2>5. \A j \in Job : j \notin Born' => lineage'[j] = {} /\ j \notin freed'
    BY <1>0, <1>1, <1>4, <1>5 DEF LineageInv, TypeOK
  <2>6. QED
    BY <1>1, <2>1, <2>4, <2>5 DEF LineageInv
<1>12. OwesInv'
  <2>1. \A j \in Job : j # x => owes'[j] = owes[j] /\ lineage'[j] = lineage[j] /\ status'[j] = status[j]
    BY <1>0, <1>1 DEF TypeOK
  <2>2. /\ owes'[x] = lineage[p] \cup {x} /\ lineage'[x] = {x} \cup lineage[p]
        /\ status'[x] = "allocated"
    BY <1>0, <1>1, <1>4 DEF TypeOK
  <2>3. lineage[p] \subseteq Born
    BY <1>1, <1>4 DEF LineageInv
  <2>4. QED
    BY <1>1, <1>5, <2>1, <2>2, <2>3 DEF OwesInv
<1>13. FinishInv'
  <2>1. \A b \in Born \cup {NoJob} : lineage'[b] = lineage[b]
    BY <1>0, <1>1, <1>4 DEF TypeOK, Born
  <2>2. ASSUME NEW u \in Thread, pc'[u] \in Finishing
        PROVE  /\ cur'[u] \in Born'
               /\ owes'[top'[u]] = lineage'[IF pc'[u] = "finish" THEN cur'[u] ELSE parent'[cur'[u]]]
    <3>1. pc[u] \in Finishing /\ pc'[u] = pc[u]
      BY <1>0, <1>1, <2>2 DEF Finishing, TypeOK
    <3>2. top[u] \in Job /\ top[u] # x
      BY <1>1, <1>4, <3>1 DEF FrameInv, TypeOK, FramePCs
    <3>3. /\ cur[u] \in Born /\ parent[cur[u]] \in Born \cup {NoJob}
          /\ owes[top[u]] = lineage[IF pc[u] = "finish" THEN cur[u] ELSE parent[cur[u]]]
      BY <1>1, <3>1 DEF FinishInv, LineageInv
    <3>4. owes'[top[u]] = owes[top[u]]
      BY <1>0, <1>1, <3>2 DEF TypeOK
    <3>5. QED
      BY <1>0, <1>5, <2>1, <3>1, <3>3, <3>4
  <2>3. QED
    BY <2>2 DEF FinishInv
<1>14. PushInv'
  <2>1. ASSUME NEW u \in Thread, u # t, pc[u] \in Pushing
        PROVE  fresh[u] # x /\ fresh[u] \in Job
    BY <1>0, <1>1, <1>2, <2>1 DEF PushInv, Pushing
  <2>2. \A b \in Born \cup {NoJob} : b # x /\ lineage'[b] = lineage[b]
    BY <1>0, <1>1, <1>4 DEF TypeOK, Born
  <2>3. \A b \in Born : holders'[b] = holders[b] /\ parent[b] \in Born \cup {NoJob}
    BY <1>0, <1>1, <1>4 DEF TypeOK, Born, LineageInv
  <2>4. ASSUME NEW u \in Thread, u # t, pc[u] \in {"count", "addref"}
        PROVE  cur[u] \in Born
    BY <1>1, <2>4, WalkIsAlive
  <2>5. ASSUME NEW u \in Thread, u # t, pc[u] \in Pushing PROVE Left(u)' = Left(u)
    BY <1>0, <1>1, <2>2, <2>3, <2>4, <2>5 DEF Left, TypeOK
  <2>6. QED
    BY <1>0, <1>1, <1>2, <1>3, <1>4, <1>5, <2>1, <2>2, <2>3, <2>5
       DEF PushInv, Pushing, TypeOK
<1>15. CountInv'
  <2>1. Owing(x) = {} /\ Owing(x)' = {x}
    BY <1>0, <1>1, <1>4 DEF Owing, OwesInv, TypeOK
  <2>2. Cardinality(Owing(x)') = 1
    BY <2>1, FS_Singleton
  <2>3. ASSUME NEW b \in Job, b # x PROVE Owing(b)' = Owing(b)
    BY <1>0, <1>1, <2>3 DEF Owing, TypeOK
  <2>4. ASSUME NEW b \in Job PROVE unfinished'[b] = Cardinality(Owing(b)')
    <3>1. CASE b = x
      BY <1>0, <1>1, <1>4, <2>2, <3>1 DEF TypeOK
    <3>2. CASE b # x
      BY <1>0, <1>1, <2>3, <3>2 DEF TypeOK, CountInv
    <3>3. QED
      BY <3>1, <3>2
  <2>5. QED
    BY <2>4 DEF CountInv
<1>16. RefInv'
  <2>1. \A b \in Born : b # x /\ b \in Job /\ Firm(b)' = Firm(b)
    BY <1>0, <1>1, <1>4 DEF Firm, Owing, TypeOK, Born
  <2>2. \A b \in Job : Releasing(b)' = Releasing(b)
    BY <1>0, <1>1 DEF Releasing, TypeOK
  <2>3. Releasing(x) = {}
    BY <1>1, <1>4 DEF Releasing, FinishInv, Finishing
  <2>4. FirmUnit(x)' \in {0, 1}
    BY DEF FirmUnit
  <2>5. ASSUME NEW b \in Born'
        PROVE  /\ refs'[b] + 1 >= Cardinality(holders'[b]) + Cardinality(Releasing(b)') + FirmUnit(b)'
               /\ b \in freed' <=> refs'[b] = -1
    <3>1. CASE b = x
      <4>1. Cardinality(Releasing(b)') = 0
        BY <1>4, <2>2, <2>3, <3>1, FS_EmptySet
      <4>2. \/ refs'[b] = 1 /\ holders'[b] = {top[t]}
            \/ refs'[b] \in {0, 1} /\ holders'[b] = {}
        BY <1>0, <1>1, <1>4, <3>1 DEF TypeOK, Waitable, ReturnsHandle
      <4>3. \/ refs'[b] = 1 /\ Cardinality(holders'[b]) = 1
            \/ refs'[b] \in {0, 1} /\ Cardinality(holders'[b]) = 0
        BY <4>2, FS_EmptySet, FS_Singleton
      <4>4. b \notin freed'
        BY <1>0, <1>1, <1>4, <3>1 DEF LineageInv
      <4>5. QED
        BY <2>4, <3>1, <4>1, <4>3, <4>4
    <3>2. CASE b # x
      <4>1. b \in Born /\ b \in Job
        BY <1>5, <2>1, <3>2
      <4>2. refs'[b] = refs[b] /\ holders'[b] = holders[b]
        BY <1>0, <1>1, <3>2, <4>1 DEF TypeOK
      <4>3. Releasing(b)' = Releasing(b) /\ FirmUnit(b)' = FirmUnit(b)
        BY <2>1, <2>2, <4>1 DEF FirmUnit
      <4>4. QED
        BY <1>0, <1>1, <4>1, <4>2, <4>3 DEF RefInv
    <3>3. QED
      BY <3>1, <3>2
  <2>6. QED
    BY <2>5 DEF RefInv
<1> QED
  BY <1>6, <1>7, <1>8, <1>9, <1>10, <1>11, <1>12, <1>13, <1>14, <1>15, <1>16 DEF IInv

LEMMA EnqueueInv ==
  ASSUME IInv, NEW t \in Thread, Enqueue(t) PROVE IInv'
<1> USE JobAssumption, ThreadsAssumption
<1>1. /\ TypeOK /\ QueueInv /\ StackInv /\ FrameInv /\ HolderInv /\ LineageInv
      /\ OwesInv /\ FinishInv /\ PushInv /\ CountInv /\ RefInv
  BY DEF IInv
<1>2. PICK x : x = fresh[t]
  OBVIOUS
<1>0. /\ queue' = [queue EXCEPT ![t] = Append(@, x)]
      /\ status' = [status EXCEPT ![x] = "queued"]
      /\ pc' = [pc EXCEPT ![t] = "signal"]
      /\ pc[t] = "enqueue"
      /\ UNCHANGED <<parent, unfinished, refs, freed, holders, lineage, owes, top, below,
                     waitOn, fresh, op, scan, misses, stop, cur, permits>>
  BY <1>2 DEF Enqueue
<1>3. x \in Job /\ status[x] = "allocated"
  BY <1>0, <1>1, <1>2 DEF PushInv, Pushing
<1>4. Born' = Born
  BY <1>0, <1>1, <1>3 DEF Born, TypeOK
<1>5. TypeOK'
  BY <1>0, <1>1, <1>3 DEF TypeOK, PCs
<1>6. QueueInv'
  <2>1. /\ queue[t] \in Seq(Job)
        /\ queue'[t] = Append(queue[t], x)
        /\ \A u \in Thread : u # t => queue'[u] = queue[u]
    BY <1>0, <1>1 DEF TypeOK
  <2>2. /\ Len(queue'[t]) = Len(queue[t]) + 1 /\ Len(queue[t]) \in Nat
        /\ queue'[t][Len(queue[t]) + 1] = x
        /\ \A i \in 1 .. Len(queue[t]) : queue'[t][i] = queue[t][i]
    BY <2>1
  <2>3. \A u \in Thread : \A i \in 1 .. Len(queue[u]) :
          queue[u][i] # x /\ status'[queue[u][i]] = "queued"
    BY <1>0, <1>1, <1>3 DEF QueueInv, TypeOK
  <2>4. status'[x] = "queued"
    BY <1>0, <1>1, <1>3 DEF TypeOK
  <2>5. \A u \in Thread : \A i \in 1 .. Len(queue'[u]) :
          \/ i \in 1 .. Len(queue[u]) /\ queue'[u][i] = queue[u][i]
          \/ u = t /\ i = Len(queue[t]) + 1 /\ queue'[u][i] = x
    <3>1. ASSUME NEW i \in 1 .. Len(queue'[t])
          PROVE  \/ i \in 1 .. Len(queue[t]) /\ queue'[t][i] = queue[t][i]
                 \/ i = Len(queue[t]) + 1 /\ queue'[t][i] = x
      <4>1. i \in 1 .. Len(queue[t]) \/ i = Len(queue[t]) + 1
        BY <2>2, <3>1
      <4>2. QED
        BY <2>2, <4>1
    <3>2. QED
      BY <2>1, <3>1
  <2>6. QED
    <3>1. \A u \in Thread : \A i \in 1 .. Len(queue'[u]) : status'[queue'[u][i]] = "queued"
      BY <2>3, <2>4, <2>5
    <3>2. ASSUME NEW u \in Thread, NEW v \in Thread,
                 NEW i \in 1 .. Len(queue'[u]), NEW k \in 1 .. Len(queue'[v]),
                 queue'[u][i] = queue'[v][k]
          PROVE  u = v /\ i = k
      <4>1. CASE queue'[u][i] = x
        <5>1. u = t /\ i = Len(queue[t]) + 1
          BY <2>3, <2>5, <3>2, <4>1
        <5>2. queue'[v][k] = x
          BY <3>2, <4>1
        <5>3. v = t /\ k = Len(queue[t]) + 1
          BY <2>3, <2>5, <3>2, <5>2
        <5>4. QED
          BY <5>1, <5>3
      <4>2. CASE queue'[u][i] # x
        <5>1. /\ i \in 1 .. Len(queue[u]) /\ queue'[u][i] = queue[u][i]
              /\ k \in 1 .. Len(queue[v]) /\ queue'[v][k] = queue[v][k]
          BY <2>5, <3>2, <4>2
        <5>2. queue[u][i] = queue[v][k]
          BY <3>2, <5>1
        <5>3. QED
          BY <1>1, <5>1, <5>2, QueuedOnce
      <4>3. QED
        BY <4>1, <4>2
    <3>3. QED
      BY <3>1, <3>2 DEF QueueInv
<1>7. StackInv'
  BY <1>0, <1>1, <1>3 DEF StackInv, FrameInv, TypeOK
<1>8. FrameInv'
  BY <1>0, <1>1, <1>3 DEF FrameInv, WorkerPCs, FramePCs, Pushing, Finishing, Waiting, TypeOK
<1>9. HolderInv' /\ LineageInv' /\ OwesInv'
  <2>1. HolderInv'
    BY <1>0, <1>1, <1>3, <1>4 DEF HolderInv, TypeOK
  <2>2. LineageInv'
    BY <1>0, <1>1, <1>4 DEF LineageInv
  <2>3. OwesInv'
    BY <1>0, <1>1, <1>3, <1>4 DEF OwesInv, TypeOK
  <2>4. QED
    BY <2>1, <2>2, <2>3
<1>10. FinishInv'
  BY <1>0, <1>1, <1>4 DEF FinishInv, Finishing, TypeOK
<1>11. PushInv'
  <2>1. \A u \in Thread : u # t /\ pc[u] \in Pushing => fresh[u] # x
    BY <1>0, <1>1, <1>2 DEF PushInv, Pushing
  <2>2. QED
    BY <1>0, <1>1, <1>3, <1>4, <2>1 DEF PushInv, Left, Pushing, TypeOK
<1>12. CountInv'
  BY <1>0, <1>1 DEF CountInv, Owing
<1>13. RefInv'
  <2>1. \A b \in Born : Firm(b)' = Firm(b)
    BY <1>0, <1>1 DEF Firm, Owing, TypeOK
  <2>2. \A b \in Born : Releasing(b)' = Releasing(b)
    BY <1>0, <1>1 DEF Releasing, TypeOK
  <2>3. QED
    BY <1>0, <1>1, <1>4, <2>1, <2>2 DEF RefInv, FirmUnit
<1> QED
  BY <1>5, <1>6, <1>7, <1>8, <1>9, <1>10, <1>11, <1>12, <1>13 DEF IInv

-----------------------------------------------------------------------------
(* Executing a job. *)

LEMMA StartJobInv ==
  ASSUME IInv, NEW t \in Thread, NEW q \in Thread, StartJob(t, q), TypeOK',
         pc[t] = "help" \/ pc[t] = "poll",
         UNCHANGED <<parent, unfinished, refs, freed, countVars, waitOn, pushVars, cur>>
  PROVE  IInv'
<1> USE JobAssumption, ThreadsAssumption
<1>1. /\ TypeOK /\ QueueInv /\ StackInv /\ FrameInv /\ HolderInv /\ LineageInv
      /\ OwesInv /\ FinishInv /\ PushInv /\ CountInv /\ RefInv
  BY DEF IInv
<1>2. PICK j : j = Head(queue[q])
  OBVIOUS
<1>0. /\ queue[q] # <<>>
      /\ queue' = [queue EXCEPT ![q] = Tail(@)]
      /\ status' = [status EXCEPT ![j] = "running"]
      /\ below' = [below EXCEPT ![j] = top[t]]
      /\ top' = [top EXCEPT ![t] = j]
      /\ pc' = [pc EXCEPT ![t] = "run"]
  BY <1>2 DEF StartJob
<1>3. /\ queue[q] \in Seq(Job) /\ Len(queue[q]) \in Nat /\ Len(queue[q]) >= 1
      /\ j = queue[q][1] /\ j \in Job
  BY <1>0, <1>1, <1>2 DEF TypeOK
<1>4. status[j] = "queued"
  BY <1>1, <1>3 DEF QueueInv
<1>5. Born' = Born
  BY <1>0, <1>1, <1>3, <1>4 DEF Born, TypeOK
<1>6. QueueInv'
  <2>1. /\ queue'[q] = Tail(queue[q])
        /\ \A u \in Thread : u # q => queue'[u] = queue[u]
    BY <1>0, <1>1 DEF TypeOK
  <2>2. /\ Len(queue'[q]) = Len(queue[q]) - 1
        /\ \A i \in 1 .. Len(queue'[q]) : queue'[q][i] = queue[q][i + 1]
    BY <1>3, <2>1
  <2>3. \A u \in Thread : \A i \in 1 .. Len(queue'[u]) :
          LET k == IF u = q THEN i + 1 ELSE i IN
            /\ k \in 1 .. Len(queue[u]) /\ queue'[u][i] = queue[u][k]
            /\ queue'[u][i] # j /\ queue'[u][i] \in Job
    <3>1. ASSUME NEW u \in Thread, NEW i \in 1 .. Len(queue[u])
          PROVE  queue[u][i] \in Job /\ (queue[u][i] = j => u = q /\ i = 1)
      <4>1. queue[u] \in Seq(Job)
        BY <1>1 DEF TypeOK
      <4>2. 1 \in 1 .. Len(queue[q])
        BY <1>3
      <4>3. QED
        BY <1>1, <1>3, <4>1, <4>2 DEF QueueInv
    <3>2. ASSUME NEW u \in Thread, NEW i \in 1 .. Len(queue'[u])
          PROVE  LET k == IF u = q THEN i + 1 ELSE i IN
                   /\ k \in 1 .. Len(queue[u]) /\ queue'[u][i] = queue[u][k]
                   /\ queue'[u][i] # j /\ queue'[u][i] \in Job
      <4>1. CASE u = q
        <5>1. i + 1 \in 1 .. Len(queue[u]) /\ i + 1 # 1 /\ queue'[u][i] = queue[u][i + 1]
          BY <1>3, <2>2, <3>2, <4>1
        <5>2. QED
          BY <3>1, <4>1, <5>1
      <4>2. CASE u # q
        BY <2>1, <3>1, <3>2, <4>2
      <4>3. QED
        BY <4>1, <4>2
    <3>3. QED
      BY <3>2
  <2>4. \A u \in Thread : \A i \in 1 .. Len(queue'[u]) : status'[queue'[u][i]] = "queued"
    <3>1. ASSUME NEW u \in Thread, NEW i \in 1 .. Len(queue'[u])
          PROVE  status'[queue'[u][i]] = "queued"
      <4>1. status[queue'[u][i]] = "queued" /\ queue'[u][i] # j /\ queue'[u][i] \in Job
        BY <1>1, <2>3, <3>1 DEF QueueInv
      <4>2. QED
        BY <1>0, <1>1, <4>1 DEF TypeOK
    <3>2. QED
      BY <3>1
  <2>5. ASSUME NEW u \in Thread, NEW v \in Thread,
               NEW i \in 1 .. Len(queue'[u]), NEW k \in 1 .. Len(queue'[v]),
               queue'[u][i] = queue'[v][k]
        PROVE  u = v /\ i = k
    <3>1. PICK m \in 1 .. Len(queue[u]) :
            queue'[u][i] = queue[u][m] /\ m = IF u = q THEN i + 1 ELSE i
      BY <2>3, <2>5
    <3>2. PICK n \in 1 .. Len(queue[v]) :
            queue'[v][k] = queue[v][n] /\ n = IF v = q THEN k + 1 ELSE k
      BY <2>3, <2>5
    <3>3. queue[u][m] = queue[v][n]
      BY <2>5, <3>1, <3>2
    <3>5. u = v /\ m = n
      BY <1>1, <3>3, QueuedOnce
    <3>6. i \in Int /\ k \in Int
      OBVIOUS
    <3>4. QED
      BY <3>1, <3>2, <3>5, <3>6
  <2>6. QED
    BY <2>4, <2>5 DEF QueueInv
<1>7. \A u \in Thread : top[u] # j
  BY <1>1, <1>3, <1>4 DEF FrameInv
<1>8. StackInv'
  <2>1. top[t] # NoJob => pc[t] = "help" /\ waitOn[top[t]] # NoJob /\ status[top[t]] = "running"
    BY <1>1 DEF FrameInv, WorkerPCs, FramePCs, Pushing, Finishing, Waiting
  <2>2. top[t] = NoJob /\ t = Main => waitOn[NoJob] # NoJob
    BY <1>1 DEF FrameInv, WorkerPCs, Waiting
  <2>3. \A k \in Job : below[k] # j
    BY <1>1, <1>3, <1>4 DEF StackInv
  <2>4. /\ top'[t] = j /\ \A u \in Thread : u # t => top'[u] = top[u]
        /\ below'[j] = top[t] /\ \A k \in Job : k # j => below'[k] = below[k]
        /\ \A k \in Job : k # j => status'[k] = status[k]
    BY <1>0, <1>1, <1>3 DEF TypeOK
  <2>5. \A u, v \in Thread : top'[u] = top'[v] /\ top'[u] # NoJob => u = v
    BY <1>1, <1>7, <2>4 DEF StackInv
  <2>6. ASSUME NEW k \in Job, below'[k] # NoJob
        PROVE  /\ status'[below'[k]] = "running"
               /\ waitOn'[below'[k]] # NoJob
               /\ \A u \in Thread : top'[u] # below'[k]
               /\ \A i \in Job : below'[i] = below'[k] => i = k
    <3>1. CASE k = j
      <4>1. below'[k] = top[t] /\ top[t] # NoJob /\ top[t] \in Job /\ top[t] # j
        BY <1>1, <1>7, <2>4, <2>6, <3>1 DEF TypeOK
      <4>2. \A i \in Job : i # j => below[i] # top[t]
        BY <1>1, <4>1 DEF StackInv
      <4>3. QED
        BY <1>1, <2>1, <2>4, <3>1, <4>1, <4>2 DEF StackInv
    <3>2. CASE k # j
      <4>1. below'[k] = below[k] /\ below[k] # NoJob /\ below[k] \in Job /\ below[k] # j
        BY <1>1, <2>3, <2>4, <2>6, <3>2 DEF TypeOK
      <4>2. /\ status[below[k]] = "running" /\ waitOn[below[k]] # NoJob
            /\ \A u \in Thread : top[u] # below[k]
            /\ \A i \in Job : below[i] = below[k] => i = k
        BY <1>1, <4>1 DEF StackInv
      <4>3. QED
        BY <2>4, <4>1, <4>2
    <3>3. QED
      BY <3>1, <3>2
  <2>7. top'[Main] # NoJob => waitOn'[NoJob] # NoJob
    BY <1>1, <2>2, <2>4, ThreadFinite DEF StackInv
  <2>8. QED
    BY <2>5, <2>6, <2>7 DEF StackInv
<1>9. FrameInv'
  <2>1. waitOn'[j] = NoJob /\ status'[j] = "running" /\ top'[t] = j /\ pc'[t] = "run" /\ j # NoJob
    BY <1>0, <1>1, <1>3, <1>4 DEF HolderInv, TypeOK
  <2>2. ASSUME NEW u \in Thread, u # t
        PROVE  /\ top'[u] = top[u] /\ pc'[u] = pc[u] /\ waitOn'[top[u]] = waitOn[top[u]]
               /\ top[u] # NoJob => status'[top[u]] = status[top[u]]
    BY <1>0, <1>1, <1>7, <2>2 DEF TypeOK
  <2>3. QED
    BY <1>1, <2>1, <2>2 DEF FrameInv, WorkerPCs, FramePCs, Pushing, Finishing, Waiting
<1>10. HolderInv' /\ LineageInv' /\ OwesInv'
  <2>1. /\ status'[j] = "running"
        /\ \A i \in Job : i # j => status'[i] = status[i]
    BY <1>0, <1>1, <1>3 DEF TypeOK
  <2>2. HolderInv'
    BY <1>1, <1>5, <2>1 DEF HolderInv
  <2>3. LineageInv'
    BY <1>1, <1>5 DEF LineageInv
  <2>4. OwesInv'
    BY <1>1, <1>4, <1>5, <2>1 DEF OwesInv
  <2>5. QED
    BY <2>2, <2>3, <2>4
<1>11. FinishInv'
  BY <1>0, <1>1, <1>5 DEF FinishInv, Finishing, TypeOK
<1>12. PushInv'
  <2>1. \A u \in Thread : pc'[u] \in Pushing =>
          /\ u # t /\ pc'[u] = pc[u] /\ top'[u] = top[u] /\ pc[u] \in Pushing
          /\ fresh[u] # j /\ Left(u)' = Left(u)
    <3>1. ASSUME NEW u \in Thread, pc'[u] \in Pushing
          PROVE  u # t /\ pc'[u] = pc[u] /\ top'[u] = top[u] /\ pc[u] \in Pushing
      BY <1>0, <1>1, <3>1 DEF Pushing, TypeOK
    <3>2. \A u \in Thread : pc[u] \in Pushing => fresh[u] # j
      BY <1>1, <1>4 DEF PushInv, Pushing
    <3>3. \A u \in Thread : pc'[u] = pc[u] => Left(u)' = Left(u)
      BY DEF Left
    <3>4. QED
      BY <3>1, <3>2, <3>3
  <2>2. \A i \in Job : i # j => status'[i] = status[i]
    BY <1>0, <1>1 DEF TypeOK
  <2>3. QED
    BY <1>1, <1>5, <2>1, <2>2 DEF PushInv
<1>13. CountInv'
  BY <1>1 DEF CountInv, Owing
<1>14. RefInv'
  <2>0. \A u \in Thread : (pc'[u] = "addref") <=> (pc[u] = "addref")
    BY <1>0, <1>1 DEF TypeOK
  <2>1. \A b \in Born : Firm(b)' = Firm(b)
    BY <2>0 DEF Firm, Owing
  <2>2. \A b \in Born : Releasing(b)' = Releasing(b)
    BY <1>0, <1>1 DEF Releasing, TypeOK
  <2>3. QED
    BY <1>1, <1>5, <2>1, <2>2 DEF RefInv, FirmUnit
<1> QED
  BY <1>6, <1>8, <1>9, <1>10, <1>11, <1>12, <1>13, <1>14 DEF IInv

LEMMA WaitHelpInv ==
  ASSUME IInv, NEW t \in Thread, WaitHelp(t) \/ PollHit(t) PROVE IInv'
<1> USE ThreadsAssumption
<1>1. TypeOK
  BY DEF IInv
<1>2. PICK q \in Thread : StartJob(t, q)
  <2>1. CASE WaitHelp(t)
    BY <2>1 DEF WaitHelp
  <2>2. CASE PollHit(t)
    <3>1. scan[t] \in 1 .. NumThreads
      BY <1>1 DEF TypeOK
    <3>2. PollOrder(t, scan[t]) \in Thread
      BY <3>1 DEF PollOrder, Thread
    <3>3. QED
      BY <2>2, <3>2 DEF PollHit
  <2>3. QED
    BY <2>1, <2>2
<1>3. queue[q] \in Seq(Job) /\ queue[q] # <<>>
  BY <1>1, <1>2 DEF TypeOK, StartJob
<1>4. Head(queue[q]) \in Job /\ Tail(queue[q]) \in Seq(Job)
  BY <1>3
<1>5. /\ status' \in [Job -> {"unborn", "pushing", "allocated", "queued", "running", "executed"}]
      /\ pc' \in [Thread -> PCs] /\ top' \in [Thread -> Frame]
      /\ below' \in [Job -> Frame] /\ queue' \in [Thread -> Seq(Job)]
  BY <1>1, <1>2, <1>4 DEF StartJob, TypeOK, PCs
<1>6. UNCHANGED <<parent, unfinished, refs, freed, countVars, waitOn, pushVars, cur, stop, permits>>
  BY DEF WaitHelp, PollHit
<1>7. misses' \in [Thread -> 0 .. WaitThreshold + 1] /\ scan' \in [Thread -> 1 .. NumThreads]
  <2>1. 0 \in 0 .. WaitThreshold + 1 /\ 1 \in 1 .. NumThreads
    BY ThresholdAssumption
  <2>2. CASE WaitHelp(t)
    BY <1>1, <2>2 DEF WaitHelp, TypeOK
  <2>3. CASE PollHit(t)
    BY <1>1, <2>1, <2>3 DEF PollHit, TypeOK
  <2>4. QED
    BY <2>2, <2>3
<1>8. TypeOK'
  BY <1>1, <1>5, <1>6, <1>7 DEF TypeOK
<1>9. pc[t] = "help" \/ pc[t] = "poll"
  BY DEF WaitHelp, PollHit
<1>10. QED
  BY <1>2, <1>6, <1>8, <1>9, StartJobInv

\* Two threads in a frame are in different frames.
LEMMA FramesDiffer ==
  ASSUME StackInv, FrameInv, NEW t \in Thread, NEW u \in Thread,
         pc[t] \in FramePCs, pc[u] \in FramePCs, top[t] = top[u]
  PROVE  t = u
BY DEF StackInv, FrameInv

LEMMA JobReturnInv ==
  ASSUME IInv, NEW t \in Thread, JobReturn(t) PROVE IInv'
<1> USE JobAssumption
<1>1. /\ TypeOK /\ QueueInv /\ StackInv /\ FrameInv /\ HolderInv /\ LineageInv
      /\ OwesInv /\ FinishInv /\ PushInv /\ CountInv /\ RefInv
  BY DEF IInv
<1>2. PICK j : j = top[t]
  OBVIOUS
<1>0. /\ pc[t] = "run" /\ j # NoJob /\ j = top[t]
      /\ status' = [status EXCEPT ![j] = "executed"]
      /\ cur' = [cur EXCEPT ![t] = j]
      /\ pc' = [pc EXCEPT ![t] = "finish"]
      /\ UNCHANGED <<parent, unfinished, refs, freed, countVars, stackVars,
                     pushVars, workerVars, queue, permits>>
  BY <1>2 DEF JobReturn
<1>3. j \in Job /\ status[j] = "running" /\ waitOn[j] = NoJob /\ owes[j] = lineage[j]
  <2>1. j \in Job
    BY <1>0, <1>1 DEF TypeOK
  <2>2. status[j] = "running" /\ waitOn[j] = NoJob
    BY <1>0, <1>1 DEF FrameInv, Finishing, FramePCs, Waiting
  <2>3. QED
    BY <1>1, <2>1, <2>2 DEF OwesInv
<1>4. /\ status'[j] = "executed" /\ \A k \in Job : k # j => status'[k] = status[k]
      /\ pc'[t] = "finish" /\ cur'[t] = j
      /\ \A u \in Thread : u # t => pc'[u] = pc[u] /\ cur'[u] = cur[u]
  BY <1>0, <1>1, <1>3 DEF TypeOK
<1>5. Born' = Born /\ j \in Born
  BY <1>3, <1>4 DEF Born
<1>6. TypeOK'
  BY <1>0, <1>1, <1>3 DEF TypeOK, PCs
<1>7. QueueInv'
  <2>1. \A u \in Thread : \A i \in 1 .. Len(queue[u]) : queue[u][i] \in Job
    BY <1>1 DEF TypeOK
  <2>2. QED
    BY <1>0, <1>1, <1>3, <1>4, <2>1 DEF QueueInv
<1>8. StackInv'
  BY <1>0, <1>1, <1>4 DEF StackInv, TypeOK
<1>9. FrameInv'
  <2>1. \A u \in Thread : u # t => top[u] # j
    BY <1>0, <1>1 DEF StackInv
  <2>2. QED
    BY <1>0, <1>1, <1>3, <1>4, <2>1
       DEF FrameInv, WorkerPCs, FramePCs, Pushing, Finishing, Waiting, TypeOK
<1>10. HolderInv' /\ LineageInv' /\ OwesInv'
  BY <1>0, <1>1, <1>3, <1>4, <1>5 DEF HolderInv, LineageInv, OwesInv
<1>11. FinishInv'
  BY <1>0, <1>1, <1>3, <1>4, <1>5 DEF FinishInv, Finishing
<1>12. PushInv'
  <2>1. \A u \in Thread : pc'[u] \in Pushing =>
          /\ u # t /\ pc'[u] = pc[u] /\ pc[u] \in Pushing
          /\ fresh[u] # j /\ Left(u)' = Left(u)
    BY <1>0, <1>1, <1>3, <1>4 DEF PushInv, Left, Pushing
  <2>2. QED
    BY <1>0, <1>1, <1>4, <1>5, <2>1 DEF PushInv
<1>13. CountInv'
  BY <1>0, <1>1 DEF CountInv, Owing
<1>14. RefInv'
  <2>0. \A u \in Thread : (pc'[u] = "addref") <=> (u # t /\ pc[u] = "addref")
    BY <1>4
  <2>1. \A b \in Born : Firm(b)' = Firm(b)
    BY <1>0, <1>4, <2>0 DEF Firm, Owing
  <2>2. \A b \in Born : Releasing(b)' = Releasing(b)
    BY <1>0, <1>4 DEF Releasing
  <2>3. QED
    BY <1>0, <1>1, <1>5, <2>1, <2>2 DEF RefInv, FirmUnit
<1> QED
  BY <1>6, <1>7, <1>8, <1>9, <1>10, <1>11, <1>12, <1>13, <1>14 DEF IInv

-----------------------------------------------------------------------------
(* signal_finished_job. *)

\* One reference of job a is given back, by a client or by a finished job.
LEMMA DropReference ==
  ASSUME TypeOK, RefInv, NEW a \in Born, DecreaseReference(a), Born' = Born,
         \A b \in Born : Firm(b)' = Firm(b),
         \A b \in Born : b # a => holders'[b] = holders[b] /\ Releasing(b)' = Releasing(b),
         \/ /\ \E f \in holders[a] : holders'[a] = holders[a] \ {f}
            /\ Releasing(a)' = Releasing(a)
         \/ /\ \E t \in Releasing(a) : Releasing(a)' = Releasing(a) \ {t}
            /\ holders'[a] = holders[a]
  PROVE  /\ RefInv' /\ refs' \in [Job -> Nat \cup {-1}] /\ freed' \in SUBSET Job
         /\ freed' \subseteq freed \cup {a}
<1>1. a \in Job /\ \A b \in Born : b \in Job
  BY DEF Born
<1>2. a \notin freed /\ refs[a] \in Nat
  BY ReliedOn
<1>3. /\ refs'[a] = refs[a] - 1 /\ \A b \in Job : b # a => refs'[b] = refs[b]
      /\ refs' \in [Job -> Nat \cup {-1}]
  BY <1>1, <1>2 DEF DecreaseReference, TypeOK
<1>4. freed' = (IF refs[a] = 0 THEN freed \cup {a} ELSE freed) /\ freed' \in SUBSET Job
  BY <1>1 DEF DecreaseReference, TypeOK
<1>5. Cardinality(holders'[a]) + Cardinality(Releasing(a)')
        = Cardinality(holders[a]) + Cardinality(Releasing(a)) - 1
  <2>1. /\ IsFiniteSet(holders[a]) /\ IsFiniteSet(Releasing(a))
        /\ Cardinality(holders[a]) \in Nat /\ Cardinality(Releasing(a)) \in Nat
    BY <1>1, RefSets
  <2>2. CASE /\ \E f \in holders[a] : holders'[a] = holders[a] \ {f}
             /\ Releasing(a)' = Releasing(a)
    <3>1. PICK f \in holders[a] : holders'[a] = holders[a] \ {f}
      BY <2>2
    <3>2. Cardinality(holders'[a]) = Cardinality(holders[a]) - 1
      BY <2>1, <3>1, FS_RemoveElement
    <3>3. QED
      BY <2>1, <2>2, <3>2
  <2>3. CASE /\ \E t \in Releasing(a) : Releasing(a)' = Releasing(a) \ {t}
             /\ holders'[a] = holders[a]
    <3>1. PICK t \in Releasing(a) : Releasing(a)' = Releasing(a) \ {t}
      BY <2>3
    <3>2. Cardinality(Releasing(a)') = Cardinality(Releasing(a)) - 1
      BY <2>1, <3>1, FS_RemoveElement
    <3>3. QED
      BY <2>1, <2>3, <3>2
  <2>4. QED
    BY <2>2, <2>3
<1>6. ASSUME NEW b \in Born
      PROVE  /\ refs'[b] + 1 >= Cardinality(holders'[b]) + Cardinality(Releasing(b)') + FirmUnit(b)'
             /\ b \in freed' <=> refs'[b] = -1
  <2>1. /\ Cardinality(holders[b]) \in Nat /\ Cardinality(Releasing(b)) \in Nat
        /\ FirmUnit(b) \in Nat /\ FirmUnit(b)' = FirmUnit(b)
        /\ refs[b] \in Nat \cup {-1}
    BY <1>1, RefSets DEF FirmUnit, TypeOK
  <2>2. /\ refs[b] + 1 >= Cardinality(holders[b]) + Cardinality(Releasing(b)) + FirmUnit(b)
        /\ b \in freed <=> refs[b] = -1
    BY DEF RefInv
  <2>3. CASE b = a
    <3>1. refs'[b] + 1 >= Cardinality(holders[b]) + Cardinality(Releasing(b)) - 1 + FirmUnit(b)
      BY <1>2, <1>3, <2>1, <2>2, <2>3
    <3>2. refs'[b] + 1 >= Cardinality(holders'[b]) + Cardinality(Releasing(b)') + FirmUnit(b)'
      BY <1>5, <2>1, <2>3, <3>1
    <3>3. b \in freed' <=> refs'[b] = -1
      BY <1>2, <1>3, <1>4, <2>3
    <3>4. QED
      BY <3>2, <3>3
  <2>4. CASE b # a
    <3>1. refs'[b] = refs[b] /\ holders'[b] = holders[b] /\ Releasing(b)' = Releasing(b)
      BY <1>1, <1>3, <2>4
    <3>2. b \in freed' <=> b \in freed
      BY <1>4, <2>4
    <3>3. QED
      BY <2>1, <2>2, <3>1, <3>2
  <2>5. QED
    BY <2>3, <2>4
<1>7. RefInv'
  BY <1>6 DEF RefInv
<1>8. QED
  BY <1>3, <1>4, <1>7

\* The way from job a to its parent, or back to the frame below.
LEMMA SignalParentInv ==
  ASSUME TypeOK, StackInv, FrameInv, NEW t \in Thread, pc[t] \in Finishing,
         NEW a \in Job, SignalParent(t, a), UNCHANGED <<status, parent, waitOn>>
  PROVE  /\ StackInv' /\ FrameInv'
         /\ pc' \in [Thread -> PCs] /\ cur' \in [Thread -> Frame]
         /\ top' \in [Thread -> Frame] /\ below' \in [Job -> Frame]
         /\ \/ parent[a] # NoJob /\ pc'[t] = "finish" /\ cur'[t] = parent[a] /\ top'[t] = top[t]
            \/ parent[a] = NoJob /\ pc'[t] \in {"wait", "loop"}
         /\ \A u \in Thread : u # t =>
              pc'[u] = pc[u] /\ cur'[u] = cur[u] /\ top'[u] = top[u]
<1> USE JobAssumption
<1>1. PICK f : f = top[t]
  OBVIOUS
<1>2. f \in Job /\ status[f] = "executed"
  BY <1>1 DEF TypeOK, FrameInv, FramePCs, Finishing
<1>3. CASE parent[a] # NoJob
  <2>1. /\ cur' = [cur EXCEPT ![t] = parent[a]] /\ pc' = [pc EXCEPT ![t] = "finish"]
        /\ UNCHANGED <<top, below>>
    BY <1>3 DEF SignalParent
  <2>2. StackInv'
    BY <2>1 DEF StackInv
  <2>3. FrameInv'
    BY <2>1 DEF FrameInv, WorkerPCs, FramePCs, Pushing, Finishing, Waiting, TypeOK
  <2>4. QED
    BY <1>3, <2>1, <2>2, <2>3 DEF TypeOK, PCs
<1>4. CASE parent[a] = NoJob
  <2>1. PICK b : b = below[f]
    OBVIOUS
  <2>2. /\ cur' = [cur EXCEPT ![t] = NoJob]
        /\ top' = [top EXCEPT ![t] = b]
        /\ below' = [below EXCEPT ![f] = NoJob]
        /\ pc' = [pc EXCEPT ![t] = IF t = Main \/ b # NoJob THEN "wait" ELSE "loop"]
    BY <1>1, <1>4, <2>1 DEF SignalParent
  <2>3. /\ b \in Frame
        /\ top'[t] = b /\ below'[f] = NoJob
        /\ pc'[t] = (IF t = Main \/ b # NoJob THEN "wait" ELSE "loop")
        /\ \A u \in Thread : u # t =>
             top'[u] = top[u] /\ pc'[u] = pc[u] /\ cur'[u] = cur[u]
        /\ \A k \in Job : k # f => below'[k] = below[k]
    BY <1>2, <2>1, <2>2 DEF TypeOK
  <2>4. b # NoJob => /\ status[b] = "running" /\ waitOn[b] # NoJob
                     /\ \A u \in Thread : top[u] # b
                     /\ \A k \in Job : below[k] = b => k = f
    BY <1>2, <2>1 DEF StackInv
  <2>5. StackInv'
    <3>1. ASSUME NEW u \in Thread, NEW v \in Thread, top'[u] = top'[v], top'[u] # NoJob
          PROVE  u = v
      <4>1. CASE u = t
        BY <2>3, <2>4, <3>1, <4>1
      <4>2. CASE v = t
        BY <2>3, <2>4, <3>1, <4>2
      <4>3. CASE u # t /\ v # t
        BY <2>3, <3>1, <4>3 DEF StackInv
      <4>4. QED
        BY <4>1, <4>2, <4>3
    <3>2. ASSUME NEW j \in Job, below'[j] # NoJob
          PROVE  /\ status'[below'[j]] = "running"
                 /\ waitOn'[below'[j]] # NoJob
                 /\ \A u \in Thread : top'[u] # below'[j]
                 /\ \A k \in Job : below'[k] = below'[j] => k = j
      <4>1. j # f /\ below'[j] = below[j] /\ below[j] # NoJob
        BY <2>3, <3>2
      <4>2. /\ status[below[j]] = "running" /\ waitOn[below[j]] # NoJob
            /\ \A u \in Thread : top[u] # below[j]
            /\ \A k \in Job : below[k] = below[j] => k = j
        BY <4>1 DEF StackInv
      <4>3. below[j] # b
        BY <1>2, <2>1, <4>1, <4>2
      <4>4. QED
        BY <2>3, <4>1, <4>2, <4>3
    <3>3. top'[Main] # NoJob => waitOn'[NoJob] # NoJob
      <4>1. top'[Main] # NoJob => top[Main] # NoJob
        BY <1>1, <1>2, <2>3, ThreadFinite
      <4>2. QED
        BY <4>1 DEF StackInv
    <3>4. QED
      BY <3>1, <3>2, <3>3 DEF StackInv
  <2>6. FrameInv'
    <3>1. t = Main => waitOn[NoJob] # NoJob
      BY <1>1, <1>2 DEF StackInv
    <3>2. ASSUME NEW u \in Thread, u # t
          PROVE  /\ top'[u] = top[u] /\ pc'[u] = pc[u]
      BY <2>3, <3>2
    <3>3. /\ top'[t] # NoJob => pc'[t] = "wait" /\ status'[top'[t]] = "running" /\ waitOn'[top'[t]] # NoJob
          /\ top'[t] = NoJob => \/ t = Main /\ pc'[t] = "wait" /\ waitOn'[NoJob] # NoJob
                                \/ t # Main /\ pc'[t] = "loop"
      BY <2>3, <2>4, <3>1
    <3>4. QED
      BY <3>2, <3>3 DEF FrameInv, WorkerPCs, FramePCs, Pushing, Finishing, Waiting
  <2>7. QED
    BY <1>2, <1>4, <2>2, <2>3, <2>5, <2>6 DEF TypeOK, PCs
<1>5. QED
  BY <1>3, <1>4

LEMMA FinishReleaseInv ==
  ASSUME IInv, NEW t \in Thread, FinishRelease(t) PROVE IInv'
<1> USE JobAssumption
<1>1. /\ TypeOK /\ QueueInv /\ StackInv /\ FrameInv /\ HolderInv /\ LineageInv
      /\ OwesInv /\ FinishInv /\ PushInv /\ CountInv /\ RefInv
  BY DEF IInv
<1>2. PICK a : a = cur[t]
  OBVIOUS
<1>0. /\ pc[t] = "release" /\ DecreaseReference(a) /\ SignalParent(t, a)
      /\ UNCHANGED <<status, parent, unfinished, countVars, waitOn,
                     pushVars, workerVars, queue, permits>>
  BY <1>2 DEF FinishRelease
<1>3. a \in Born /\ a \in Job /\ owes[top[t]] = lineage[parent[a]]
  BY <1>0, <1>1, <1>2 DEF FinishInv, Finishing, Born
<1>4. pc[t] \in Finishing
  BY <1>0 DEF Finishing
<1>5. /\ StackInv' /\ FrameInv'
      /\ pc' \in [Thread -> PCs] /\ cur' \in [Thread -> Frame]
      /\ top' \in [Thread -> Frame] /\ below' \in [Job -> Frame]
      /\ \/ parent[a] # NoJob /\ pc'[t] = "finish" /\ cur'[t] = parent[a] /\ top'[t] = top[t]
         \/ parent[a] = NoJob /\ pc'[t] \in {"wait", "loop"}
      /\ \A u \in Thread : u # t =>
           pc'[u] = pc[u] /\ cur'[u] = cur[u] /\ top'[u] = top[u]
  BY <1>0, <1>1, <1>3, <1>4, SignalParentInv
<1>6. Born' = Born
  BY <1>0 DEF Born
<1>7. /\ RefInv' /\ refs' \in [Job -> Nat \cup {-1}] /\ freed' \in SUBSET Job
      /\ freed' \subseteq freed \cup {a}
  <2>1. \A u \in Thread : pc'[u] = "addref" <=> (u # t /\ pc[u] = "addref")
    BY <1>0, <1>5
  <2>2. \A b \in Born : Firm(b)' = Firm(b)
    BY <1>0, <1>5, <2>1 DEF Firm, Owing
  <2>3. \A b \in Job : b # a => Releasing(b)' = Releasing(b)
    BY <1>0, <1>2, <1>5 DEF Releasing
  <2>4. Releasing(a)' = Releasing(a) \ {t} /\ t \in Releasing(a)
    BY <1>0, <1>2, <1>5 DEF Releasing
  <2>5. \A b \in Born : b \in Job
    BY DEF Born
  <2>6. holders' = holders
    BY <1>0
  <2>7. QED
    BY <1>0, <1>1, <1>3, <1>6, <2>2, <2>3, <2>4, <2>5, <2>6, DropReference
<1>8. TypeOK'
  BY <1>0, <1>1, <1>5, <1>7 DEF TypeOK
<1>9. QueueInv' /\ HolderInv' /\ LineageInv' /\ OwesInv'
  <2>1. QueueInv'
    BY <1>0, <1>1 DEF QueueInv
  <2>2. HolderInv' /\ OwesInv'
    BY <1>0, <1>1, <1>6 DEF HolderInv, OwesInv
  <2>3. LineageInv'
    BY <1>0, <1>1, <1>3, <1>6, <1>7 DEF LineageInv
  <2>4. QED
    BY <2>1, <2>2, <2>3
<1>10. FinishInv'
  <2>1. parent[a] \in Born \cup {NoJob}
    BY <1>1, <1>3 DEF LineageInv
  <2>2. ASSUME NEW u \in Thread, pc'[u] \in Finishing
        PROVE  /\ cur'[u] \in Born
               /\ owes[top'[u]] = lineage[IF pc'[u] = "finish" THEN cur'[u] ELSE parent[cur'[u]]]
    <3>1. CASE u = t
      BY <1>3, <1>5, <2>1, <2>2, <3>1 DEF Finishing
    <3>2. CASE u # t
      BY <1>1, <1>5, <2>2, <3>2 DEF FinishInv
    <3>3. QED
      BY <3>1, <3>2
  <2>3. QED
    BY <1>0, <1>6, <2>2 DEF FinishInv
<1>11. PushInv'
  <2>1. \A u \in Thread : pc'[u] \in Pushing =>
          /\ u # t /\ pc'[u] = pc[u] /\ top'[u] = top[u] /\ cur'[u] = cur[u]
          /\ Left(u)' = Left(u)
    BY <1>0, <1>5 DEF Left, Pushing
  <2>2. QED
    BY <1>0, <1>1, <1>6, <2>1 DEF PushInv
<1>12. CountInv'
  BY <1>0, <1>1 DEF CountInv, Owing
<1> QED
  BY <1>5, <1>7, <1>8, <1>9, <1>10, <1>11, <1>12 DEF IInv

LEMMA FinishOneInv ==
  ASSUME IInv, NEW t \in Thread, FinishOne(t) PROVE IInv'
<1> USE JobAssumption
<1>1. /\ TypeOK /\ QueueInv /\ StackInv /\ FrameInv /\ HolderInv /\ LineageInv
      /\ OwesInv /\ FinishInv /\ PushInv /\ CountInv /\ RefInv
  BY DEF IInv
<1>2. PICK a, f : a = cur[t] /\ f = top[t]
  OBVIOUS
<1>0. /\ pc[t] = "finish"
      /\ unfinished' = [unfinished EXCEPT ![a] = @ - 1]
      /\ owes' = [owes EXCEPT ![f] = @ \ {a}]
      /\ \/ unfinished[a] = 1 /\ pc' = [pc EXCEPT ![t] = "release"] /\ UNCHANGED <<cur, top, below>>
         \/ SignalParent(t, a)
      /\ UNCHANGED <<status, parent, refs, freed, holders, lineage, waitOn,
                     pushVars, workerVars, queue, permits>>
  BY <1>2 DEF FinishOne
<1>3. /\ a \in Born /\ a \in Job /\ f \in Job /\ a \in owes[f] /\ f \in Firm(a)
      /\ owes[f] = lineage[a] /\ status[f] = "executed"
  <2>1. f \in Job /\ a \in Born /\ a \in owes[f] /\ f \in Firm(a)
    BY <1>0, <1>1, <1>2, FinishingIsFirm
  <2>2. owes[f] = lineage[a] /\ status[f] = "executed"
    BY <1>0, <1>1, <1>2, <2>1 DEF FinishInv, FrameInv, Finishing
  <2>3. QED
    BY <2>1, <2>2 DEF Born
<1>4. pc[t] \in Finishing
  BY <1>0 DEF Finishing
<1>5. /\ StackInv' /\ FrameInv'
      /\ pc' \in [Thread -> PCs] /\ cur' \in [Thread -> Frame]
      /\ top' \in [Thread -> Frame] /\ below' \in [Job -> Frame]
      /\ \/ parent[a] # NoJob /\ pc'[t] = "finish" /\ cur'[t] = parent[a] /\ top'[t] = f
         \/ parent[a] = NoJob /\ pc'[t] \in {"wait", "loop"}
         \/ pc'[t] = "release" /\ cur'[t] = a /\ top'[t] = f /\ unfinished[a] = 1
      /\ \A u \in Thread : u # t =>
           pc'[u] = pc[u] /\ cur'[u] = cur[u] /\ top'[u] = top[u]
  <2>1. CASE SignalParent(t, a)
    BY <1>0, <1>1, <1>2, <1>3, <1>4, <2>1, SignalParentInv
  <2>2. CASE /\ unfinished[a] = 1 /\ pc' = [pc EXCEPT ![t] = "release"]
             /\ UNCHANGED <<cur, top, below>>
    <3>1. StackInv'
      BY <1>0, <1>1, <2>2 DEF StackInv
    <3>2. FrameInv'
      BY <1>0, <1>1, <2>2 DEF FrameInv, WorkerPCs, FramePCs, Pushing, Finishing, Waiting, TypeOK
    <3>3. QED
      BY <1>1, <1>2, <2>2, <3>1, <3>2 DEF TypeOK, PCs
  <2>3. QED
    BY <1>0, <2>1, <2>2
<1>6. Born' = Born
  BY <1>0 DEF Born
<1>7. CountInv' /\ unfinished[a] >= 1 /\ (unfinished[a] = 1 => Owing(a)' = {})
  BY <1>0, <1>1, <1>3, CountRemove
<1>8. TypeOK'
  <2>1. unfinished' \in [Job -> Nat] /\ owes' \in [Job -> SUBSET Job]
    BY <1>0, <1>1, <1>3, <1>7 DEF TypeOK
  <2>2. QED
    BY <1>0, <1>1, <1>5, <2>1 DEF TypeOK
<1>13. owes'[f] = owes[f] \ {a} /\ \A d \in Job : d # f => owes'[d] = owes[d]
  BY <1>0, <1>1, <1>3 DEF TypeOK
<1>9. QueueInv' /\ HolderInv' /\ LineageInv' /\ OwesInv'
  <2>1. QueueInv'
    BY <1>0, <1>1 DEF QueueInv
  <2>2. HolderInv'
    BY <1>0, <1>1, <1>6 DEF HolderInv
  <2>3. LineageInv'
    BY <1>0, <1>1, <1>6 DEF LineageInv
  <2>4. OwesInv'
    BY <1>0, <1>1, <1>3, <1>6, <1>13 DEF OwesInv
  <2>5. QED
    BY <2>1, <2>2, <2>3, <2>4
<1>10. FinishInv'
  <2>1. /\ parent[a] \in Born \cup {NoJob}
        /\ lineage[a] = {a} \cup lineage[parent[a]] /\ a \notin lineage[parent[a]]
    BY <1>1, <1>3 DEF LineageInv
  <2>2. owes'[f] = lineage[parent[a]]
    BY <1>3, <1>13, <2>1
  <2>3. ASSUME NEW u \in Thread, pc'[u] \in Finishing
        PROVE  /\ cur'[u] \in Born
               /\ owes'[top'[u]] = lineage[IF pc'[u] = "finish" THEN cur'[u] ELSE parent[cur'[u]]]
    <3>1. CASE u = t
      BY <1>3, <1>5, <2>1, <2>2, <2>3, <3>1 DEF Finishing
    <3>2. CASE u # t
      <4>1. pc[u] \in Finishing /\ top[u] # f /\ top[u] \in Job
        BY <1>1, <1>2, <1>3, <1>5, <2>3, <3>2 DEF StackInv, FrameInv, FramePCs, TypeOK
      <4>2. QED
        BY <1>1, <1>5, <1>13, <3>2, <4>1 DEF FinishInv
    <3>3. QED
      BY <3>1, <3>2
  <2>4. QED
    BY <1>0, <1>6, <2>3 DEF FinishInv
<1>11. PushInv'
  <2>1. \A u \in Thread : pc'[u] \in Pushing =>
          /\ u # t /\ pc'[u] = pc[u] /\ top'[u] = top[u] /\ cur'[u] = cur[u]
          /\ Left(u)' = Left(u) /\ pc[u] \in Pushing
    BY <1>0, <1>5 DEF Left, Pushing
  <2>2. \A u \in Thread : pc[u] \in Pushing => fresh[u] \in Job /\ fresh[u] # f
    BY <1>1, <1>3 DEF PushInv
  <2>3. QED
    BY <1>0, <1>1, <1>6, <1>13, <2>1, <2>2 DEF PushInv
<1>12. RefInv'
  <2>1. \A u \in Thread : pc'[u] = "addref" <=> (u # t /\ pc[u] = "addref")
    BY <1>0, <1>5
  <2>2. \A b \in Job : b # a => Firm(b)' = Firm(b)
    BY <1>0, <1>3, <1>5, <1>13, <2>1 DEF Firm, Owing
  <2>3. \A b \in Job : b # a => Releasing(b)' = Releasing(b)
    BY <1>0, <1>2, <1>5 DEF Releasing
  <2>4. \A b \in Born : b \in Job
    BY DEF Born
  <2>5. /\ Cardinality(holders[a]) \in Nat /\ Cardinality(Releasing(a)) \in Nat
        /\ IsFiniteSet(Releasing(a))
    BY <1>1, <1>3, RefSets
  <2>6. FirmUnit(a) = 1 /\ FirmUnit(a)' \in {0, 1}
    BY <1>3 DEF FirmUnit
  <2>7. Cardinality(Releasing(a)') + FirmUnit(a)' <= Cardinality(Releasing(a)) + 1
    <3>1. CASE pc'[t] = "release" /\ cur'[t] = a /\ unfinished[a] = 1
      <4>1. Releasing(a)' = Releasing(a) \cup {t} /\ t \notin Releasing(a)
        BY <1>0, <1>5, <3>1 DEF Releasing
      <4>2. Cardinality(Releasing(a)') = Cardinality(Releasing(a)) + 1
        BY <2>5, <4>1, FS_AddElement
      <4>3. FirmUnit(a)' = 0
        BY <1>7, <3>1 DEF FirmUnit, Firm
      <4>4. QED
        BY <2>5, <4>2, <4>3
    <3>2. CASE pc'[t] # "release"
      <4>1. Releasing(a)' = Releasing(a)
        BY <1>0, <1>5, <3>2 DEF Releasing
      <4>2. QED
        BY <2>5, <2>6, <4>1
    <3>3. QED
      BY <1>5, <3>1, <3>2
  <2>9. Cardinality(Releasing(a)') \in Nat
    <3>1. IsFiniteSet(Releasing(a)')
      BY ThreadFinite, FS_Subset DEF Releasing
    <3>2. QED
      BY <3>1, FS_CardinalityType
  <2>8. ASSUME NEW b \in Born
        PROVE  /\ refs[b] + 1 >= Cardinality(holders[b]) + Cardinality(Releasing(b)') + FirmUnit(b)'
               /\ b \in freed <=> refs[b] = -1
    <3>1. /\ refs[b] + 1 >= Cardinality(holders[b]) + Cardinality(Releasing(b)) + FirmUnit(b)
          /\ b \in freed <=> refs[b] = -1
      BY <1>1 DEF RefInv
    <3>2. CASE b = a
      <4>1. refs[a] \in Nat \cup {-1}
        BY <1>1, <1>3 DEF TypeOK
      <4>2. QED
        BY <2>5, <2>6, <2>7, <2>9, <3>1, <3>2, <4>1
    <3>3. CASE b # a
      BY <2>2, <2>3, <2>4, <3>1, <3>3 DEF FirmUnit
    <3>4. QED
      BY <3>2, <3>3
  <2>10. QED
    BY <1>0, <1>6, <2>8 DEF RefInv
<1> QED
  BY <1>5, <1>7, <1>8, <1>9, <1>10, <1>11, <1>12 DEF IInv

-----------------------------------------------------------------------------
(* The references of the clients. *)

LEMMA WaitStartInv ==
  ASSUME IInv, NEW t \in Thread, NEW j \in Job, WaitBegin(t, j) \/ TryWait(t, j)
  PROVE  IInv'
<1> USE JobAssumption
<1>1. /\ TypeOK /\ QueueInv /\ StackInv /\ FrameInv /\ HolderInv /\ LineageInv
      /\ OwesInv /\ FinishInv /\ PushInv /\ CountInv /\ RefInv
  BY DEF IInv
<1>2. PICK f : f = top[t]
  OBVIOUS
<1>0. /\ pc[t] = "run" /\ f \in holders[j] /\ waitOn' = [waitOn EXCEPT ![f] = j]
      /\ UNCHANGED <<jobVars, countVars, top, below, pushVars, workerVars,
                     cur, queue, permits>>
      /\ \E v \in {"wait", "drop"} : pc' = [pc EXCEPT ![t] = v]
  BY <1>2 DEF WaitBegin, TryWait
<1>3. /\ f \in Frame /\ waitOn'[f] = j /\ \A g \in Frame : g # f => waitOn'[g] = waitOn[g]
      /\ pc'[t] \in {"wait", "drop"} /\ \A u \in Thread : u # t => pc'[u] = pc[u]
      /\ \A g \in Frame : waitOn[g] # NoJob => waitOn'[g] # NoJob
  BY <1>0, <1>1, <1>2 DEF TypeOK
<1>4. f # NoJob => status[f] = "running"
  BY <1>0, <1>1, <1>2 DEF FrameInv, Finishing
<1>5. Born' = Born
  BY <1>0 DEF Born
<1>6. TypeOK'
  <2>1. pc' \in [Thread -> PCs]
    BY <1>0, <1>1 DEF TypeOK, PCs
  <2>2. waitOn' \in [Frame -> Frame]
    BY <1>0, <1>1 DEF TypeOK
  <2>3. QED
    BY <1>0, <1>1, <2>1, <2>2 DEF TypeOK
<1>7. QueueInv'
  BY <1>0, <1>1 DEF QueueInv
<1>8. StackInv'
  BY <1>0, <1>1, <1>3 DEF StackInv, TypeOK
<1>9. FrameInv'
  <2>1. \A u \in Thread : u # t /\ pc[u] \in FramePCs => top[u] # f
    <3>1. pc[t] \in FramePCs
      BY <1>0 DEF FramePCs
    <3>2. QED
      BY <1>1, <1>2, <3>1, FramesDiffer
  <2>2. \A u \in Thread : top[u] = NoJob /\ pc[u] = "init" /\ u # t => f # NoJob
    BY <1>0, <1>1, <1>2 DEF FrameInv, FramePCs
  <2>3. ASSUME NEW u \in Thread, u # t
        PROVE  /\ top'[u] = top[u] /\ pc'[u] = pc[u] /\ top[u] \in Frame
               /\ pc[u] \in FramePCs => waitOn'[top[u]] = waitOn[top[u]]
               /\ pc[u] = "init" => waitOn'[top[u]] = waitOn[top[u]]
    <3>1. top'[u] = top[u] /\ pc'[u] = pc[u] /\ top[u] \in Frame
      BY <1>0, <1>1, <1>3, <2>3 DEF TypeOK
    <3>2. pc[u] \in FramePCs => waitOn'[top[u]] = waitOn[top[u]]
      BY <1>3, <2>1, <2>3, <3>1
    <3>3. pc[u] = "init" => top[u] = NoJob
      BY <1>1 DEF FrameInv, FramePCs, Pushing, Finishing, Waiting
    <3>4. pc[u] = "init" => waitOn'[top[u]] = waitOn[top[u]]
      BY <1>3, <2>2, <2>3, <3>1, <3>3
    <3>5. QED
      BY <3>1, <3>2, <3>4
  <2>4. /\ top'[t] = f /\ pc'[t] \in {"wait", "drop"} /\ waitOn'[f] # NoJob
        /\ f = NoJob => t = Main
    BY <1>0, <1>1, <1>2, <1>3 DEF FrameInv, FramePCs
  <2>5. QED
    BY <1>0, <1>1, <1>4, <2>3, <2>4
       DEF FrameInv, WorkerPCs, FramePCs, Pushing, Finishing, Waiting
<1>10. HolderInv' /\ LineageInv' /\ OwesInv'
  <2>1. HolderInv'
    BY <1>0, <1>1, <1>3, <1>4, <1>5 DEF HolderInv
  <2>2. LineageInv' /\ OwesInv'
    BY <1>0, <1>1, <1>5 DEF LineageInv, OwesInv
  <2>3. QED
    BY <2>1, <2>2
<1>11. FinishInv'
  BY <1>0, <1>1, <1>3, <1>5 DEF FinishInv, Finishing
<1>12. PushInv'
  <2>1. \A u \in Thread : pc'[u] \in Pushing => u # t /\ pc'[u] = pc[u] /\ Left(u)' = Left(u)
    BY <1>0, <1>3 DEF Left, Pushing
  <2>2. QED
    BY <1>0, <1>1, <1>5, <2>1 DEF PushInv
<1>13. CountInv'
  BY <1>0, <1>1 DEF CountInv, Owing
<1>14. RefInv'
  <2>0. \A u \in Thread : pc'[u] = "addref" <=> pc[u] = "addref"
    BY <1>0, <1>3
  <2>1. \A b \in Born : Firm(b)' = Firm(b)
    BY <1>0, <2>0 DEF Firm, Owing
  <2>2. \A b \in Born : Releasing(b)' = Releasing(b)
    BY <1>0, <1>3 DEF Releasing
  <2>3. QED
    BY <1>0, <1>1, <1>5, <2>1, <2>2 DEF RefInv, FirmUnit
<1> QED
  BY <1>6, <1>7, <1>8, <1>9, <1>10, <1>11, <1>12, <1>13, <1>14 DEF IInv

\* The frame that runs or waits on top of t gives its reference to j back.
LEMMA GiveBackInv ==
  ASSUME IInv, NEW t \in Thread, NEW j \in Job,
         DecreaseReference(j), top[t] \in holders[j],
         holders' = [holders EXCEPT ![j] = @ \ {top[t]}],
         \/ pc[t] = "run" /\ UNCHANGED <<pc, waitOn>>
         \/ /\ pc[t] = "drop" /\ waitOn[top[t]] = j
            /\ pc' = [pc EXCEPT ![t] = "run"]
            /\ waitOn' = [waitOn EXCEPT ![top[t]] = NoJob],
         UNCHANGED <<status, parent, unfinished, lineage, owes, top, below,
                     pushVars, workerVars, cur, queue, permits>>
  PROVE  IInv'
<1> USE JobAssumption
<1>1. /\ TypeOK /\ QueueInv /\ StackInv /\ FrameInv /\ HolderInv /\ LineageInv
      /\ OwesInv /\ FinishInv /\ PushInv /\ CountInv /\ RefInv
  BY DEF IInv
<1>2. PICK f : f = top[t]
  OBVIOUS
<1>3. /\ f \in Frame /\ f \in holders[j] /\ pc[t] \in {"run", "drop"} /\ pc[t] \in FramePCs
      /\ pc[t] = "run" => waitOn[f] = NoJob
      /\ f # NoJob => status[f] = "running"
      /\ f = NoJob => t = Main
  BY <1>1, <1>2 DEF TypeOK, FrameInv, FramePCs, Finishing, Waiting
<1>4. /\ pc'[t] = "run" /\ \A u \in Thread : u # t => pc'[u] = pc[u]
      /\ waitOn'[f] = NoJob /\ \A g \in Frame : g # f => waitOn'[g] = waitOn[g]
      /\ holders'[j] = holders[j] \ {f} /\ \A k \in Job : k # j => holders'[k] = holders[k]
      /\ pc' \in [Thread -> PCs] /\ waitOn' \in [Frame -> Frame]
      /\ holders' \in [Job -> SUBSET Frame]
  <2>1. holders'[j] = holders[j] \ {f} /\ \A k \in Job : k # j => holders'[k] = holders[k]
    BY <1>1, <1>2 DEF TypeOK
  <2>2. holders' \in [Job -> SUBSET Frame]
    BY <1>1 DEF TypeOK
  <2>3. CASE pc[t] = "run" /\ UNCHANGED <<pc, waitOn>>
    BY <1>1, <1>3, <2>1, <2>2, <2>3 DEF TypeOK
  <2>4. CASE /\ pc[t] = "drop" /\ pc' = [pc EXCEPT ![t] = "run"]
             /\ waitOn' = [waitOn EXCEPT ![f] = NoJob]
    BY <1>1, <1>3, <2>1, <2>2, <2>4 DEF TypeOK, PCs
  <2>5. QED
    BY <1>2, <2>3, <2>4
<1>5. Born' = Born /\ j \in Born
  BY <1>1, <1>3 DEF Born, HolderInv
<1>6. /\ RefInv' /\ refs' \in [Job -> Nat \cup {-1}] /\ freed' \in SUBSET Job
      /\ freed' \subseteq freed \cup {j}
  <2>0. \A u \in Thread : pc'[u] = "addref" <=> pc[u] = "addref"
    BY <1>3, <1>4
  <2>1. \A b \in Born : Firm(b)' = Firm(b)
    BY <2>0 DEF Firm, Owing
  <2>2. \A b \in Job : Releasing(b)' = Releasing(b)
    BY <1>3, <1>4 DEF Releasing
  <2>3. \A b \in Born : b \in Job
    BY DEF Born
  <2>4. \A b \in Born : b # j => holders'[b] = holders[b] /\ Releasing(b)' = Releasing(b)
    BY <1>4, <2>2, <2>3
  <2>5. \E g \in holders[j] : holders'[j] = holders[j] \ {g}
    BY <1>3, <1>4
  <2>6. QED
    BY <1>1, <1>5, <2>1, <2>2, <2>4, <2>5, DropReference
<1>7. TypeOK'
  BY <1>1, <1>4, <1>6 DEF TypeOK
<1>8. QueueInv'
  BY <1>1 DEF QueueInv
<1>9. StackInv'
  <2>1. \A k \in Job : below[k] # NoJob => below[k] \in Frame /\ below[k] # f
    BY <1>1, <1>2 DEF StackInv, TypeOK
  <2>2. top[Main] # NoJob => f # NoJob
    BY <1>2, <1>3
  <2>3. QED
    BY <1>1, <1>4, <2>1, <2>2 DEF StackInv
<1>10. FrameInv'
  <2>1. \A u \in Thread : u # t /\ pc[u] \in FramePCs => top[u] # f
    BY <1>1, <1>2, <1>3, FramesDiffer
  <2>2. ASSUME NEW u \in Thread, u # t
        PROVE  /\ top'[u] = top[u] /\ pc'[u] = pc[u] /\ top[u] \in Frame
               /\ pc[u] \in FramePCs => waitOn'[top[u]] = waitOn[top[u]]
               /\ waitOn[top[u]] = NoJob => waitOn'[top[u]] = NoJob
    <3>1. top'[u] = top[u] /\ pc'[u] = pc[u] /\ top[u] \in Frame
      BY <1>1, <1>4, <2>2 DEF TypeOK
    <3>2. QED
      BY <1>4, <2>1, <2>2, <3>1
  <2>3. QED
    BY <1>1, <1>2, <1>3, <1>4, <2>2
       DEF FrameInv, WorkerPCs, FramePCs, Pushing, Finishing, Waiting
<1>11. HolderInv' /\ LineageInv' /\ OwesInv'
  <2>1. \A g \in Frame : waitOn'[g] # NoJob => g \in holders'[waitOn'[g]]
    <3>1. ASSUME NEW g \in Frame, waitOn'[g] # NoJob PROVE g \in holders'[waitOn'[g]]
      <4>1. g # f /\ waitOn'[g] = waitOn[g] /\ waitOn[g] \in Job /\ g \in holders[waitOn[g]]
        BY <1>1, <1>4, <3>1 DEF HolderInv, TypeOK
      <4>2. QED
        BY <1>4, <4>1
    <3>2. QED
      BY <3>1
  <2>2. HolderInv'
    BY <1>1, <1>4, <1>5, <2>1 DEF HolderInv
  <2>3. LineageInv'
    BY <1>1, <1>5, <1>6 DEF LineageInv
  <2>4. OwesInv'
    BY <1>1, <1>5 DEF OwesInv
  <2>5. QED
    BY <2>2, <2>3, <2>4
<1>12. FinishInv'
  BY <1>1, <1>3, <1>4, <1>5 DEF FinishInv, Finishing
<1>13. PushInv'
  <2>1. \A u \in Thread : pc'[u] \in Pushing =>
          /\ u # t /\ pc'[u] = pc[u] /\ pc[u] \in Pushing /\ Left(u)' = Left(u)
    BY <1>3, <1>4 DEF Left, Pushing
  <2>2. \A u \in Thread : u # t /\ pc[u] \in Pushing => top[u] # f
    BY <1>1, <1>2, <1>3, FramesDiffer DEF FramePCs
  <2>3. \A k \in Born : k \in Job
    BY DEF Born
  <2>4. QED
    BY <1>1, <1>4, <1>5, <2>1, <2>2, <2>3 DEF PushInv
<1>14. CountInv'
  BY <1>1 DEF CountInv, Owing
<1> QED
  BY <1>6, <1>7, <1>8, <1>9, <1>10, <1>11, <1>12, <1>13, <1>14 DEF IInv

LEMMA ReferencesInv ==
  ASSUME IInv, NEW t \in Thread,
         WaitDrop(t) \/ \E j \in Job : ClientDecrease(t, j)
  PROVE  IInv'
<1>1. CASE WaitDrop(t)
  <2>1. PICK f, j : f = top[t] /\ j = waitOn[f]
    OBVIOUS
  <2>2. /\ pc[t] = "drop" /\ DecreaseReference(j)
        /\ holders' = [holders EXCEPT ![j] = @ \ {f}]
        /\ waitOn' = [waitOn EXCEPT ![f] = NoJob]
        /\ pc' = [pc EXCEPT ![t] = "run"]
        /\ UNCHANGED <<status, parent, unfinished, lineage, owes, top, below,
                       pushVars, workerVars, cur, queue, permits>>
    BY <1>1, <2>1 DEF WaitDrop
  <2>3. f \in Frame /\ j \in Frame /\ j # NoJob
    BY <2>1, <2>2 DEF IInv, TypeOK, FrameInv, Waiting
  <2>4. j \in Job /\ f \in holders[j]
    BY <2>1, <2>3 DEF IInv, HolderInv
  <2>5. QED
    BY <2>1, <2>2, <2>4, GiveBackInv
<1>2. CASE \E j \in Job : ClientDecrease(t, j)
  <2>1. PICK j \in Job : ClientDecrease(t, j)
    BY <1>2
  <2>2. QED
    BY <2>1, GiveBackInv DEF ClientDecrease
<1>3. QED
  BY <1>1, <1>2

LEMMA ClientIncreaseInv ==
  ASSUME IInv, NEW t \in Thread, NEW j \in Job, NEW g \in Frame, ClientIncrease(t, j, g)
  PROVE  IInv'
<1> USE JobAssumption
<1>1. /\ TypeOK /\ QueueInv /\ StackInv /\ FrameInv /\ HolderInv /\ LineageInv
      /\ OwesInv /\ FinishInv /\ PushInv /\ CountInv /\ RefInv
  BY DEF IInv
<1>0. /\ top[t] \in holders[j] /\ g \notin holders[j]
      /\ refs' = [refs EXCEPT ![j] = @ + 1]
      /\ holders' = [holders EXCEPT ![j] = @ \cup {g}]
      /\ UNCHANGED <<status, parent, unfinished, freed, lineage, owes, stackVars,
                     pushVars, workerVars, pc, cur, queue, permits>>
  BY DEF ClientIncrease
<1>2. j \in Born /\ Born' = Born
  BY <1>0, <1>1 DEF Born, HolderInv
<1>3. j \notin freed /\ refs[j] \in Nat
  BY <1>0, <1>1, <1>2, ReliedOn
<1>4. /\ refs'[j] = refs[j] + 1 /\ holders'[j] = holders[j] \cup {g}
      /\ \A k \in Job : k # j => refs'[k] = refs[k] /\ holders'[k] = holders[k]
      /\ \A k \in Job : holders[k] \subseteq holders'[k]
  BY <1>0, <1>1 DEF TypeOK
<1>5. TypeOK'
  <2>1. refs' \in [Job -> Nat \cup {-1}] /\ holders' \in [Job -> SUBSET Frame]
    BY <1>0, <1>1, <1>3 DEF TypeOK
  <2>2. QED
    BY <1>0, <1>1, <2>1 DEF TypeOK
<1>6. QueueInv' /\ StackInv' /\ FrameInv'
  BY <1>0, <1>1 DEF QueueInv, StackInv, FrameInv
<1>7. HolderInv'
  BY <1>0, <1>1, <1>2, <1>4 DEF HolderInv, TypeOK
<1>8. LineageInv' /\ OwesInv' /\ FinishInv'
  BY <1>0, <1>1, <1>2 DEF LineageInv, OwesInv, FinishInv
<1>9. PushInv'
  <2>1. \A u \in Thread : Left(u)' = Left(u)
    BY <1>0 DEF Left
  <2>2. \A k \in Born : k \in Job
    BY DEF Born
  <2>3. QED
    BY <1>0, <1>1, <1>2, <1>4, <2>1, <2>2 DEF PushInv
<1>10. CountInv'
  BY <1>0, <1>1 DEF CountInv, Owing
<1>11. RefInv'
  <2>1. \A b \in Born : b \in Job /\ Firm(b)' = Firm(b) /\ Releasing(b)' = Releasing(b)
    BY <1>0 DEF Firm, Owing, Releasing, Born
  <2>2. ASSUME NEW b \in Born
        PROVE  /\ refs'[b] + 1 >= Cardinality(holders'[b]) + Cardinality(Releasing(b)') + FirmUnit(b)'
               /\ b \in freed <=> refs'[b] = -1
    <3>1. /\ refs[b] + 1 >= Cardinality(holders[b]) + Cardinality(Releasing(b)) + FirmUnit(b)
          /\ b \in freed <=> refs[b] = -1
          /\ FirmUnit(b)' = FirmUnit(b) /\ Releasing(b)' = Releasing(b)
      BY <1>1, <2>1 DEF RefInv, FirmUnit
    <3>2. /\ IsFiniteSet(holders[b]) /\ Cardinality(holders[b]) \in Nat
          /\ Cardinality(Releasing(b)) \in Nat /\ FirmUnit(b) \in Nat
      BY <1>1, <2>1, RefSets DEF FirmUnit
    <3>3. CASE b = j
      <4>1. Cardinality(holders'[b]) = Cardinality(holders[b]) + 1
        <5>1. holders'[b] = holders[b] \cup {g} /\ g \notin holders[b]
          BY <1>0, <1>4, <3>3
        <5>2. QED
          BY <3>2, <5>1, FS_AddElement
      <4>2. QED
        BY <1>3, <1>4, <3>1, <3>2, <3>3, <4>1
    <3>4. CASE b # j
      BY <1>4, <2>1, <3>1, <3>4
    <3>5. QED
      BY <3>3, <3>4
  <2>3. QED
    BY <1>0, <1>2, <2>2 DEF RefInv
<1> QED
  BY <1>5, <1>6, <1>7, <1>8, <1>9, <1>10, <1>11 DEF IInv

-----------------------------------------------------------------------------
(* The theorems. *)

LEMMA StutterInv == ASSUME IInv, UNCHANGED vars PROVE IInv'
<1>1. /\ TypeOK /\ QueueInv /\ StackInv /\ FrameInv /\ HolderInv /\ LineageInv
      /\ OwesInv /\ FinishInv /\ PushInv /\ CountInv /\ RefInv
  BY DEF IInv
<1>2. Born' = Born /\ \A t \in Thread : Left(t)' = Left(t)
  BY DEF vars, Born, Left
<1>3. \A a \in Job : Owing(a)' = Owing(a) /\ Firm(a)' = Firm(a) /\ Releasing(a)' = Releasing(a)
  BY DEF vars, Owing, Firm, Releasing
<1>4. TypeOK' /\ QueueInv' /\ StackInv' /\ FrameInv'
  BY <1>1 DEF vars, TypeOK, QueueInv, StackInv, FrameInv
<1>5. HolderInv' /\ LineageInv' /\ OwesInv' /\ FinishInv'
  BY <1>1, <1>2 DEF vars, HolderInv, LineageInv, OwesInv, FinishInv
<1>6. PushInv'
  BY <1>1, <1>2 DEF vars, PushInv
<1>7. CountInv'
  BY <1>1, <1>3 DEF vars, CountInv
<1>8. RefInv'
  <2>1. \A a \in Born : a \in Job
    BY DEF Born
  <2>2. QED
    BY <1>1, <1>2, <1>3, <2>1 DEF vars, RefInv, FirmUnit
<1>9. QED
  BY <1>4, <1>5, <1>6, <1>7, <1>8 DEF IInv

\* Every step of the job manager and of its clients preserves IInv.
LEMMA NextInv == ASSUME IInv, [Next]_vars PROVE IInv'
<1>1. ASSUME NEW t \in Thread, System(t) PROVE IInv'
  BY <1>1, CountAncestorInv, RefAncestorInv, AllocateInv, EnqueueInv, CallQuiet,
     FinishOneInv, FinishReleaseInv, WaitHelpInv, ReferencesInv DEF System
<1>2. ASSUME NEW t \in Thread, WorkerLoop(t) PROVE IInv'
  BY <1>2, WorkerLoopQuiet, WaitHelpInv DEF WorkerLoop
<1>3. ASSUME NEW t \in Thread, Client(t) PROVE IInv'
  <2>1. CASE \E o \in PushOps, p \in Frame : PushBegin(t, o, p)
    BY <2>1, PushBeginInv
  <2>2. CASE \E j \in Job : WaitBegin(t, j) \/ TryWait(t, j) \/ ClientDecrease(t, j)
    BY <2>2, WaitStartInv, ReferencesInv
  <2>3. CASE \E j \in Job, g \in Frame : ClientIncrease(t, j, g)
    BY <2>3, ClientIncreaseInv
  <2>4. CASE JobReturn(t)
    BY <2>4, JobReturnInv
  <2>5. QED
    BY <1>3, <2>1, <2>2, <2>3, <2>4 DEF Client
<1>4. CASE Lifecycle
  BY <1>4, LifecycleInv
<1>5. CASE UNCHANGED vars
  BY <1>5, StutterInv
<1>6. QED
  BY <1>1, <1>2, <1>3, <1>4, <1>5 DEF Next, Down

\* The two counters of every job mean what CountInv and RefInv say of them
\* whatever the threads of job_manager.cpp do and in whatever order.
THEOREM Inductive == Spec => []IInv
<1>1. Init => IInv
  BY InitInv
<1>2. IInv /\ [Next]_vars => IInv'
  BY NextInv
<1>3. QED
  BY <1>1, <1>2, PTL DEF Spec

\* Every variable keeps its type: no reference count of decrease_reference goes
\* below -1, so no job is deallocated twice, and no counter of
\* signal_finished_job goes below zero.
THEOREM TypeCorrect == Spec => []TypeOK
<1>1. IInv => TypeOK
  BY DEF IInv
<1>2. QED
  BY <1>1, Inductive, PTL

\* A job that counts nothing has executed with all its descendants.
LEMMA CountedOut ==
  ASSUME IInv, NEW j \in Job, unfinished[j] = 0 \/ Firm(j) = {},
         NEW d \in Job, j \in lineage[d]
  PROVE  status[d] = "executed"
<1>1. /\ TypeOK /\ LineageInv /\ OwesInv /\ PushInv /\ CountInv
  BY DEF IInv
<1>2. status[d] \in {"allocated", "queued", "running", "executed"}
  <2>1. d \in Born
    BY <1>1 DEF LineageInv
  <2>2. QED
    BY <1>1, <2>1 DEF Born, TypeOK
<1>3. ASSUME status[d] # "executed" PROVE FALSE
  <2>1. d \in Firm(j)
    BY <1>1, <1>2, <1>3, LiveIsFirm
  <2>2. d \in Owing(j)
    BY <2>1 DEF Firm
  <2>3. IsFiniteSet(Owing(j))
    BY FS_Subset, JobAssumption DEF Owing
  <2>4. Cardinality(Owing(j)) # 0
    BY <2>2, <2>3, FS_EmptySet
  <2>5. QED
    BY <1>1, <2>1, <2>4 DEF CountInv
<1>4. QED
  BY <1>3

LEMMA InUseKept == IInv => NoUseAfterFree
<1> SUFFICES ASSUME IInv, NEW j \in InUse PROVE j \notin freed
  BY DEF NoUseAfterFree
<1> USE JobAssumption
<1>1. /\ TypeOK /\ FrameInv /\ HolderInv /\ LineageInv /\ OwesInv /\ FinishInv /\ PushInv /\ RefInv
  BY DEF IInv
<1>2. j \in Job
  BY DEF InUse
<1>3. CASE status[j] \in {"allocated", "queued", "running"}
  <2>1. j \in Born /\ j \in lineage[j]
    BY <1>1, <1>2, <1>3 DEF LineageInv, Born
  <2>2. Firm(j) # {}
    BY <1>1, <1>2, <1>3, <2>1, LiveIsFirm
  <2>3. QED
    BY <1>1, <2>1, <2>2, ReliedOn
<1>4. CASE holders[j] # {}
  <2>1. j \in Born
    BY <1>1, <1>2, <1>4 DEF HolderInv
  <2>2. QED
    BY <1>1, <1>4, <2>1, ReliedOn
<1>5. CASE \E t \in Thread : pc[t] \in {"count", "addref", "finish", "release"} /\ cur[t] = j
  <2>1. PICK t \in Thread : pc[t] \in {"count", "addref", "finish", "release"} /\ cur[t] = j
    BY <1>5
  <2>2. CASE pc[t] \in {"count", "addref"}
    BY <2>1, <2>2, WalkIsAlive
  <2>3. CASE pc[t] = "finish"
    <3>1. j \in Born /\ Firm(j) # {}
      BY <1>1, <2>1, <2>3, FinishingIsFirm
    <3>2. QED
      BY <1>1, <3>1, ReliedOn
  <2>4. CASE pc[t] = "release"
    <3>1. j \in Born /\ Releasing(j) # {}
      BY <1>1, <2>1, <2>4 DEF FinishInv, Finishing, Releasing
    <3>2. QED
      BY <1>1, <3>1, ReliedOn
  <2>5. QED
    BY <2>1, <2>2, <2>3, <2>4
<1>6. CASE \E f \in Frame : waitOn[f] = j
  <2>1. holders[j] # {} /\ j \in Born
    BY <1>1, <1>2, <1>6 DEF HolderInv
  <2>2. QED
    BY <1>1, <2>1, ReliedOn
<1>7. QED
  BY <1>3, <1>4, <1>5, <1>6 DEF InUse

LEMMA FreedTree == IInv => DestroyedAfterTree
<1> SUFFICES ASSUME IInv, NEW j \in freed
             PROVE  holders[j] = {} /\ \A d \in Job : j \in lineage[d] => status[d] = "executed"
  BY DEF DestroyedAfterTree
<1>1. TypeOK /\ LineageInv /\ RefInv
  BY DEF IInv
<1>2. j \in Job /\ j \in Born
  BY <1>1 DEF TypeOK, LineageInv
<1>3. holders[j] = {} /\ Firm(j) = {}
  BY <1>1, <1>2, ReliedOn
<1>4. QED
  BY <1>2, <1>3, CountedOut

\* A thread leaves a wait for job j only from a load that found 0 in its counter.
LEMMA EnterDrop ==
  ASSUME TypeOK, FrameInv, Next, NEW t \in Thread, pc[t] # "drop", pc'[t] = "drop"
  PROVE  (WaitLoad(t) /\ unfinished[waitOn[top[t]]] = 0) \/ \E j \in Job : TryWait(t, j)
<1>1. ASSUME NEW u \in Thread, WorkerLoop(u) PROVE FALSE
  BY <1>1 DEF TypeOK, WorkerLoop, WorkerInit, LoopTest, PollHit, StartJob, PollNext, PollMiss, Wake
<1>2. ASSUME NEW u \in Thread, System(u) PROVE WaitLoad(t) /\ unfinished[waitOn[top[t]]] = 0
  <2>1. CASE \/ CountAncestor(u) \/ RefAncestor(u) \/ Allocate(u) \/ Enqueue(u) \/ Signal(u)
             \/ WaitSpin(u) \/ WaitDrop(u)
    BY <2>1 DEF TypeOK, CountAncestor, RefAncestor, Allocate, Enqueue, Signal, WaitSpin, WaitDrop
  <2>2. CASE WaitHelp(u)
    BY <2>2 DEF TypeOK, WaitHelp, StartJob
  <2>3. CASE FinishOne(u) \/ FinishRelease(u)
    <3>1. \E v : v # "drop" /\ pc' = [pc EXCEPT ![u] = v]
      BY <2>3 DEF FinishOne, FinishRelease, SignalParent
    <3>2. QED
      BY <3>1 DEF TypeOK
  <2>4. CASE WaitLoad(u)
    <3>1. u = t /\ ~(unfinished[waitOn[top[t]]] > 0)
      BY <2>4 DEF TypeOK, WaitLoad
    <3>2. waitOn[top[t]] # NoJob => unfinished[waitOn[top[t]]] = 0
      BY <3>1 DEF TypeOK
    <3>3. QED
      BY <2>4, <3>1, <3>2 DEF TypeOK, FrameInv, WaitLoad, Waiting
  <2>5. QED
    BY <1>2, <2>1, <2>2, <2>3, <2>4 DEF System
<1>3. ASSUME NEW u \in Thread, Client(u) PROVE \E j \in Job : TryWait(t, j)
  <2>1. CASE \E o \in PushOps, p \in Frame : PushBegin(u, o, p)
    <3>1. \E v : v # "drop" /\ pc' = [pc EXCEPT ![u] = v]
      BY <2>1 DEF PushBegin
    <3>2. QED
      BY <3>1 DEF TypeOK
  <2>2. CASE \E j \in Job : WaitBegin(u, j) \/ TryWait(u, j) \/ ClientDecrease(u, j)
    <3>1. PICK j \in Job : WaitBegin(u, j) \/ TryWait(u, j) \/ ClientDecrease(u, j)
      BY <2>2
    <3>2. TryWait(u, j) /\ u = t
      BY <3>1 DEF TypeOK, WaitBegin, TryWait, ClientDecrease
    <3>3. QED
      BY <3>2
  <2>3. CASE \E j \in Job, g \in Frame : ClientIncrease(u, j, g)
    BY <2>3 DEF ClientIncrease
  <2>4. CASE JobReturn(u)
    BY <2>4 DEF TypeOK, JobReturn
  <2>5. QED
    BY <1>3, <2>1, <2>2, <2>3, <2>4 DEF Client
<1>4. ASSUME Lifecycle PROVE FALSE
  BY <1>4 DEF TypeOK, Lifecycle, InitDone, ShutdownBegin, ShutdownStop, ShutdownSignal, ShutdownJoin
<1>5. ASSUME Down PROVE FALSE
  BY <1>5 DEF Down, vars
<1>6. QED
  BY <1>1, <1>2, <1>3, <1>4, <1>5 DEF Next

\* No thread touches a job that deallocate_job returned to the pool, in
\* whatever order allocations, completions, waits and releases interleave.
THEOREM NeverUsedAfterFree == Spec => []NoUseAfterFree
BY Inductive, InUseKept, PTL

\* A job is deallocated only after its whole tree has executed and its last
\* client reference was given back.
THEOREM DestroyedLast == Spec => []DestroyedAfterTree
BY Inductive, FreedTree, PTL

\* wait and try_wait return only after the job and all its descendants have
\* executed, on any number of threads.
THEOREM WaitIsSound == Spec => WaitSound
<1>1. ASSUME IInv, [Next]_vars, NEW t \in Thread, pc[t] # "drop", pc'[t] = "drop",
             NEW d \in Job, waitOn'[top[t]] \in lineage[d]
      PROVE  status[d] = "executed"
  <2>1. TypeOK /\ FrameInv
    BY <1>1 DEF IInv
  <2>2. pc' # pc
    BY <1>1
  <2>3. (WaitLoad(t) /\ unfinished[waitOn[top[t]]] = 0) \/ \E j \in Job : TryWait(t, j)
    BY <1>1, <2>1, <2>2, EnterDrop DEF vars
  <2>4. CASE WaitLoad(t) /\ unfinished[waitOn[top[t]]] = 0
    <3>1. waitOn'[top[t]] = waitOn[top[t]] /\ waitOn[top[t]] \in Job
      BY <2>1, <2>4 DEF WaitLoad, FrameInv, Waiting, TypeOK
    <3>2. QED
      BY <1>1, <2>4, <3>1, CountedOut
  <2>5. CASE \E j \in Job : TryWait(t, j)
    <3>1. PICK j \in Job : TryWait(t, j)
      BY <2>5
    <3>2. unfinished[j] = 0 /\ waitOn'[top[t]] = j
      BY <2>1, <3>1 DEF TryWait, TypeOK
    <3>3. QED
      BY <1>1, <3>2, CountedOut
  <2>6. QED
    BY <2>3, <2>4, <2>5
<1>2. IInv /\ [Next]_vars =>
        [\A t \in Thread :
           pc[t] # "drop" /\ pc'[t] = "drop" =>
             \A d \in Job : waitOn'[top[t]] \in lineage[d] => status[d] = "executed"]_vars
  BY <1>1
<1>3. QED
  BY <1>2, Inductive, PTL DEF Spec, WaitSound


-----------------------------------------------------------------------------
(* The references of jobs without children. *)

\* push and push_child with a job_fn allocate a job with a reference that nobody
\* owns.
OwnedPushes == ClientOps \cap {"push_fn", "push_child_fn"} = {}

\* What the walk over the ancestors of a new job counts has a child.
LEMMA CountedHasChild ==
  ASSUME IInv, ChildInv, NEW t \in Thread, pc[t] \in {"count", "addref"}
  PROVE  HasChild(cur[t])
<1>1. /\ TypeOK /\ PushInv /\ LineageInv
  BY DEF IInv
<1> DEFINE x == fresh[t]
<1>2. x \in Job /\ cur[t] \in lineage[parent[x]] /\ parent[x] \in Frame
  BY <1>1 DEF PushInv, Pushing, TypeOK
<1>3. parent[x] \in Job
  BY <1>1, <1>2 DEF LineageInv
<1>4. cur[t] = parent[x] \/ HasChild(cur[t])
  BY <1>2, <1>3 DEF ChildInv
<1>5. HasChild(parent[x])
  BY <1>2 DEF HasChild
<1>6. QED
  BY <1>4, <1>5

\* A job that owes more than itself to a counter has an ancestor with a child.
LEMMA ChildKept ==
  ASSUME TypeOK, ChildInv, parent' = parent, lineage' = lineage,
         \A j \in Job : status'[j] = "unborn" => status[j] = "unborn",
         \A j \in Job : \A a \in owes'[j] : a = j \/ a \in owes[j] \/ HasChild(a),
         \A t \in Thread : pc'[t] \in Pushing => pc[t] \in Pushing /\ op'[t] = op[t]
  PROVE  ChildInv'
<1>1. \A a : HasChild(a)' = HasChild(a)
  BY DEF HasChild
<1>2. \A j \in Job : status'[j] = "unborn" => parent'[j] = NoJob
  BY DEF ChildInv
<1>3. \A j \in Job : \A a \in lineage'[j] \cup owes'[j] : a = j \/ HasChild(a)'
  BY <1>1 DEF ChildInv
<1>4. \A t \in Thread : pc'[t] \in Pushing => op'[t] \in ClientOps
  BY DEF ChildInv
<1>5. QED
  BY <1>2, <1>3, <1>4 DEF ChildInv

\* Steps that move no reference of a job without children.
LEMMA ExactKept ==
  ASSUME ExactInv, ChildInv', parent' = parent, Born' \subseteq Born,
         \A a \in Born : \/ HasChild(a)
                         \/ Balanced(a)'
                         \/ /\ refs'[a] = refs[a] /\ holders'[a] = holders[a]
                            /\ Releasing(a)' = Releasing(a)
                            /\ a \in owes'[a] <=> a \in owes[a]
  PROVE  ExactInv'
<1>1. \A a : HasChild(a)' = HasChild(a)
  BY DEF HasChild
<1>2. ASSUME NEW a \in Born, ~HasChild(a)
      PROVE  Balanced(a)'
  BY <1>2 DEF ExactInv, Balanced, OwnUnit
<1>3. QED
  BY <1>1, <1>2 DEF ExactInv

\* Steps of a thread that does not release, and begins no release.
LEMMA ExactQuiet ==
  ASSUME IInv, ExactInv, UNCHANGED <<parent, refs, holders, lineage, owes>>,
         \A j \in Job : status'[j] = "unborn" <=> status[j] = "unborn",
         \A j \in Job : status'[j] = "pushing" <=> status[j] = "pushing",
         \A t \in Thread : /\ pc'[t] \in Pushing => pc[t] \in Pushing /\ op'[t] = op[t]
                           /\ pc'[t] = "release" <=> pc[t] = "release"
                           /\ pc[t] = "release" => cur'[t] = cur[t]
  PROVE  ExactInv'
<1>1. TypeOK /\ ChildInv
  BY DEF IInv, ExactInv
<1>2. ChildInv'
  BY <1>1, ChildKept
<1>3. Born' = Born
  BY DEF Born
<1>4. \A a \in Born : Releasing(a)' = Releasing(a)
  BY DEF Releasing
<1>5. QED
  BY <1>2, <1>3, <1>4, ExactKept

LEMMA StillExact ==
  ASSUME IInv, ExactInv, NEW t \in Thread,
         \/ WorkerLoop(t)
         \/ Enqueue(t) \/ Signal(t) \/ WaitLoad(t) \/ WaitHelp(t) \/ WaitSpin(t)
         \/ \E j \in Job : WaitBegin(t, j) \/ TryWait(t, j)
         \/ JobReturn(t)
  PROVE  ExactInv'
<1>1. TypeOK /\ QueueInv /\ FrameInv /\ PushInv
  BY DEF IInv
<1>2. UNCHANGED <<parent, refs, holders, lineage, owes>>
  BY DEF WorkerLoop, WorkerInit, LoopTest, PollHit, PollNext, PollMiss, Wake, Enqueue, Signal,
         WaitLoad, WaitHelp, WaitSpin, WaitBegin, TryWait, JobReturn
<1>3. \A u \in Thread : u # t => /\ pc'[u] = pc[u] /\ cur'[u] = cur[u]
                                 /\ op'[u] = op[u]
  BY <1>1 DEF TypeOK, WorkerLoop, WorkerInit, LoopTest, PollHit, PollNext, PollMiss, Wake, Enqueue,
              Signal, WaitLoad, WaitHelp, WaitSpin, WaitBegin, TryWait, JobReturn, StartJob
<1>4. pc[t] # "release" /\ pc'[t] # "release" /\ pc'[t] \notin Pushing
  BY <1>1 DEF TypeOK, WorkerLoop, WorkerInit, LoopTest, PollHit, PollNext, PollMiss, Wake, Enqueue,
              Signal, WaitLoad, WaitHelp, WaitSpin, WaitBegin, TryWait, JobReturn, StartJob, Pushing
<1>5. ASSUME NEW j \in Job
      PROVE  /\ status'[j] = "unborn" <=> status[j] = "unborn"
             /\ status'[j] = "pushing" <=> status[j] = "pushing"
  <2>1. CASE status' = status
    BY <2>1
  <2>2. CASE Enqueue(t)
    <3>1. fresh[t] \in Job /\ status[fresh[t]] = "allocated"
      BY <1>1, <2>2 DEF PushInv, Pushing, Enqueue
    <3>2. QED
      BY <1>1, <2>2, <3>1 DEF Enqueue, TypeOK
  <2>3. ASSUME NEW q \in Thread, StartJob(t, q)
        PROVE  /\ status'[j] = "unborn" <=> status[j] = "unborn"
               /\ status'[j] = "pushing" <=> status[j] = "pushing"
    <3>1. queue[q] \in Seq(Job) /\ queue[q] # << >>
      BY <1>1, <2>3 DEF TypeOK, StartJob
    <3>2. Head(queue[q]) = queue[q][1] /\ 1 \in 1..Len(queue[q])
      BY <3>1
    <3>3. status[Head(queue[q])] = "queued"
      BY <1>1, <3>2 DEF QueueInv
    <3>4. QED
      BY <1>1, <2>3, <3>3 DEF StartJob, TypeOK
  <2>4. CASE JobReturn(t)
    <3>1. top[t] \in Job /\ status[top[t]] = "running"
      BY <1>1, <2>4 DEF JobReturn, FrameInv, TypeOK, Finishing
    <3>2. QED
      BY <1>1, <2>4, <3>1 DEF JobReturn, TypeOK
  <2>5. CASE PollHit(t)
    <3>0. scan[t] \in 1..NumThreads
      BY <1>1 DEF TypeOK
    <3>1. PollOrder(t, scan[t]) \in Thread
      BY <3>0, ThreadsAssumption DEF PollOrder, Thread
    <3>2. StartJob(t, PollOrder(t, scan[t]))
      BY <2>5 DEF PollHit
    <3>3. QED
      BY <2>3, <3>1, <3>2
  <2>6. CASE WaitHelp(t)
    BY <2>3, <2>6 DEF WaitHelp
  <2>7. QED
    <3>1. \/ status' = status \/ Enqueue(t) \/ JobReturn(t)
          \/ PollHit(t) \/ WaitHelp(t)
      BY DEF WorkerLoop, WorkerInit, LoopTest, PollNext, PollMiss, Wake, Signal,
             WaitLoad, WaitSpin, WaitBegin, TryWait
    <3>2. QED
      BY <2>1, <2>2, <2>4, <2>5, <2>6, <3>1
<1>6. \A u \in Thread : /\ pc'[u] \in Pushing => pc[u] \in Pushing /\ op'[u] = op[u]
                        /\ pc'[u] = "release" <=> pc[u] = "release"
                        /\ pc[u] = "release" => cur'[u] = cur[u]
  BY <1>3, <1>4
<1>7. QED
  BY <1>2, <1>5, <1>6, ExactQuiet

LEMMA PushBeginExact ==
  ASSUME IInv, ExactInv, NEW t \in Thread, NEW o \in PushOps, NEW p \in Frame, PushBegin(t, o, p)
  PROVE  ExactInv'
<1>1. TypeOK /\ ChildInv /\ OwesInv /\ LineageInv
  BY DEF IInv, ExactInv
<1>2. PICK x \in Job : /\ status[x] = "unborn"
                       /\ status' = [status EXCEPT ![x] = "pushing"]
                       /\ parent' = [parent EXCEPT ![x] = p]
  BY DEF PushBegin
<1>3. /\ pc[t] = "run" /\ o \in ClientOps /\ op' = [op EXCEPT ![t] = o]
      /\ cur' = [cur EXCEPT ![t] = p]
      /\ \E v \in {"allocate", "count"} : pc' = [pc EXCEPT ![t] = v]
      /\ UNCHANGED <<refs, holders, lineage, owes>>
  BY DEF PushBegin
<1>4. \A a : HasChild(a) /\ a # NoJob => HasChild(a)'
  <2>1. parent[x] = NoJob
    BY <1>1, <1>2 DEF ChildInv
  <2>2. QED
    BY <1>1, <1>2, <2>1 DEF HasChild, TypeOK
<1>5. Born' = Born /\ NoJob \notin Born /\ Born \subseteq Job
  BY <1>1, <1>2, JobAssumption DEF Born, TypeOK
<1>6. ChildInv'
  <2>1. \A j \in Job : status'[j] = "unborn" => parent'[j] = NoJob
    BY <1>1, <1>2 DEF ChildInv, TypeOK
  <2>2. ASSUME NEW j \in Job, NEW a \in lineage'[j] \cup owes'[j]
        PROVE  a = j \/ HasChild(a)'
    <3>1. a \in Job
      BY <1>1, <1>3, <2>2 DEF TypeOK
    <3>2. a = j \/ HasChild(a)
      BY <1>1, <1>3, <2>2 DEF ChildInv
    <3>3. QED
      BY <1>4, <3>1, <3>2, JobAssumption
  <2>3. \A u \in Thread : pc'[u] \in Pushing => op'[u] \in ClientOps
    BY <1>1, <1>3 DEF ChildInv, TypeOK
  <2>4. QED
    BY <2>1, <2>2, <2>3 DEF ChildInv
<1>7. \A a \in Born : Releasing(a)' = Releasing(a)
  BY <1>1, <1>3 DEF Releasing, TypeOK
<1>8. ASSUME NEW a \in Born'
      PROVE  HasChild(a)' \/ Balanced(a)'
  <2>1. HasChild(a) \/ Balanced(a)
    BY <1>5 DEF ExactInv
  <2>2. Balanced(a) => Balanced(a)'
    BY <1>3, <1>5, <1>7 DEF Balanced, OwnUnit
  <2>3. QED
    BY <1>4, <1>5, <2>1, <2>2
<1>9. QED
  BY <1>6, <1>8 DEF ExactInv

LEMMA CountAncestorExact ==
  ASSUME IInv, ExactInv, NEW t \in Thread, CountAncestor(t)
  PROVE  ExactInv'
<1>1. TypeOK /\ ChildInv /\ PushInv
  BY DEF IInv, ExactInv
<1>2. /\ pc[t] = "count" /\ pc' = [pc EXCEPT ![t] = "addref"]
      /\ owes' = [owes EXCEPT ![fresh[t]] = @ \cup {cur[t]}]
      /\ UNCHANGED <<status, parent, refs, holders, lineage, op, cur>>
  BY DEF CountAncestor
<1>3. HasChild(cur[t]) /\ fresh[t] \in Job /\ status[fresh[t]] = "pushing"
  BY <1>1, <1>2, CountedHasChild DEF PushInv, Pushing
<1>4. ChildInv'
  <2>1. \A j \in Job : \A a \in owes'[j] : a = j \/ a \in owes[j] \/ HasChild(a)
    BY <1>1, <1>2, <1>3 DEF TypeOK
  <2>2. \A u \in Thread : pc'[u] \in Pushing => pc[u] \in Pushing /\ op'[u] = op[u]
    BY <1>1, <1>2 DEF TypeOK, Pushing
  <2>3. QED
    BY <1>1, <1>2, <2>1, <2>2, ChildKept
<1>5. Born' = Born /\ fresh[t] \notin Born
  BY <1>2, <1>3 DEF Born
<1>6. \A a \in Born : Releasing(a)' = Releasing(a) /\ owes'[a] = owes[a]
  BY <1>1, <1>2, <1>5 DEF Releasing, TypeOK, Born
<1>7. QED
  BY <1>2, <1>4, <1>5, <1>6, ExactKept

LEMMA RefAncestorExact ==
  ASSUME IInv, ExactInv, NEW t \in Thread, RefAncestor(t)
  PROVE  ExactInv'
<1>1. TypeOK /\ ChildInv
  BY DEF IInv, ExactInv
<1>2. /\ pc[t] = "addref" /\ \E v \in {"allocate", "count"} : pc' = [pc EXCEPT ![t] = v]
      /\ cur' = [cur EXCEPT ![t] = parent[cur[t]]]
      /\ refs' = [refs EXCEPT ![cur[t]] = @ + 1]
      /\ UNCHANGED <<status, parent, holders, lineage, owes, op>>
  BY DEF RefAncestor
<1>3. HasChild(cur[t])
  BY <1>1, <1>2, CountedHasChild
<1>4. ChildInv'
  <2>1. \A u \in Thread : pc'[u] \in Pushing => pc[u] \in Pushing /\ op'[u] = op[u]
    BY <1>1, <1>2 DEF TypeOK, Pushing
  <2>2. QED
    BY <1>1, <1>2, <2>1, ChildKept
<1>5. Born' = Born /\ Born \subseteq Job
  BY <1>2 DEF Born
<1>6. \A a \in Born : Releasing(a)' = Releasing(a) /\ (a = cur[t] \/ refs'[a] = refs[a])
  BY <1>1, <1>2, <1>5 DEF Releasing, TypeOK
<1>7. QED
  BY <1>2, <1>3, <1>4, <1>5, <1>6, ExactKept

\* A new job has the reference of the handle that its push returns, and owes
\* itself one.
LEMMA AllocateExact ==
  ASSUME OwnedPushes, IInv, ExactInv, NEW t \in Thread, Allocate(t)
  PROVE  ExactInv'
<1>0. PICK x : x = fresh[t]
  OBVIOUS
<1>1. TypeOK /\ ChildInv /\ PushInv /\ FinishInv /\ LineageInv
  BY DEF IInv, ExactInv
<1>2. /\ pc[t] = "allocate" /\ pc' = [pc EXCEPT ![t] = "enqueue"]
      /\ status' = [status EXCEPT ![x] = "allocated"]
      /\ refs' = [refs EXCEPT ![x] = IF Waitable(op[t]) THEN 1 ELSE 0]
      /\ holders' = [holders EXCEPT ![x] = IF ReturnsHandle(op[t]) THEN {top[t]} ELSE {}]
      /\ lineage' = [lineage EXCEPT ![x] = {x} \cup lineage[parent[x]]]
      /\ owes' = [owes EXCEPT ![x] = @ \cup {x}]
      /\ UNCHANGED <<parent, cur, op>>
  BY <1>0 DEF Allocate
<1>3. x \in Job /\ x \notin Born /\ parent[x] \in Frame
  BY <1>0, <1>1, <1>2 DEF PushInv, Pushing, Born, TypeOK
<1>4. Born' = Born \cup {x} /\ Born \subseteq Job
  BY <1>1, <1>2, <1>3 DEF Born, TypeOK
<1>5. \A a : HasChild(a)' = HasChild(a)
  BY <1>2 DEF HasChild
<1>6. ChildInv'
  <2>1. \A j \in Job : status'[j] = "unborn" => parent'[j] = NoJob
    BY <1>1, <1>2 DEF ChildInv, TypeOK
  <2>2. ASSUME NEW j \in Job, NEW a \in lineage'[j] \cup owes'[j]
        PROVE  a = j \/ HasChild(a)'
    <3>1. a \in lineage[j] \cup owes[j] => a = j \/ HasChild(a)
      BY <1>1 DEF ChildInv
    <3>2. \/ a \in lineage[j] \cup owes[j]
          \/ j = x /\ (a = x \/ a \in lineage[parent[x]])
      BY <1>1, <1>2, <1>3, <2>2 DEF TypeOK
    <3>3. ASSUME j = x, a \in lineage[parent[x]]
          PROVE  HasChild(a)
      <4>1. parent[x] \in Job
        BY <1>1, <1>3, <3>3 DEF LineageInv
      <4>2. a = parent[x] \/ HasChild(a)
        BY <1>1, <3>3, <4>1 DEF ChildInv
      <4>3. QED
        BY <1>3, <4>2 DEF HasChild
    <3>4. QED
      BY <1>5, <3>1, <3>2, <3>3
  <2>3. \A u \in Thread : pc'[u] \in Pushing => op'[u] \in ClientOps
    BY <1>1, <1>2 DEF ChildInv, TypeOK, Pushing
  <2>4. QED
    BY <2>1, <2>2, <2>3 DEF ChildInv
<1>7. \A a \in Born' : Releasing(a)' = Releasing(a)
  BY <1>1, <1>2, <1>4 DEF Releasing, TypeOK
<1>8. Balanced(x)'
  <2>1. Waitable(op[t]) <=> ReturnsHandle(op[t])
    <3>1. op[t] \in ClientOps /\ op[t] \in PushOps
      BY <1>1, <1>2 DEF ChildInv, Pushing, TypeOK
    <3>2. QED
      BY <3>1 DEF OwnedPushes, Waitable, ReturnsHandle, PushOps
  <2>2. Releasing(x)' = {}
    <3>1. Releasing(x) = {}
      BY <1>1, <1>3 DEF Releasing, FinishInv, Finishing
    <3>2. x \in Born'
      BY <1>4
    <3>3. QED
      BY <1>7, <3>1, <3>2
  <2>3. OwnUnit(x)' = 1
    <3>1. owes'[x] = owes[x] \cup {x}
      BY <1>1, <1>2, <1>3 DEF TypeOK
    <3>2. QED
      BY <3>1 DEF OwnUnit
  <2>4. Cardinality(Releasing(x)') = 0
    BY <2>2, FS_EmptySet
  <2>5. Cardinality(holders'[x]) = refs'[x] /\ refs'[x] \in {0, 1}
    BY <1>1, <1>2, <1>3, <2>1, FS_EmptySet, FS_Singleton DEF TypeOK
  <2>6. QED
    BY <2>3, <2>4, <2>5 DEF Balanced
<1>9. ASSUME NEW a \in Born
      PROVE  HasChild(a)' \/ Balanced(a)'
  <2>1. HasChild(a) \/ Balanced(a)
    BY DEF ExactInv
  <2>2. /\ refs'[a] = refs[a] /\ holders'[a] = holders[a] /\ owes'[a] = owes[a]
        /\ Releasing(a)' = Releasing(a)
    BY <1>1, <1>2, <1>3, <1>4, <1>7 DEF TypeOK
  <2>3. Balanced(a) => Balanced(a)'
    BY <2>2 DEF Balanced, OwnUnit
  <2>4. QED
    BY <1>5, <2>1, <2>3
<1>10. QED
  <2>1. ASSUME NEW a \in Born' PROVE HasChild(a)' \/ Balanced(a)'
    <3>1. CASE a = x
      BY <1>8, <3>1
    <3>2. CASE a \in Born
      BY <1>9, <3>2
    <3>3. QED
      BY <1>4, <3>1, <3>2
  <2>2. QED
    BY <1>6, <2>1 DEF ExactInv

\* Where signal_finished_job goes on, nobody begins a release.
LEMMA SignalParentMoves ==
  ASSUME TypeOK, NEW t \in Thread, NEW a, SignalParent(t, a)
  PROVE  /\ \E v \in {"finish", "wait", "loop"} : pc' = [pc EXCEPT ![t] = v]
         /\ \A u \in Thread : u # t => cur'[u] = cur[u]
BY DEF SignalParent, TypeOK

LEMMA FinishOneExact ==
  ASSUME IInv, ExactInv, NEW t \in Thread, FinishOne(t)
  PROVE  ExactInv'
<1>0. PICK a, d : a = cur[t] /\ d = top[t]
  OBVIOUS
<1>1. TypeOK /\ ChildInv /\ FrameInv /\ LineageInv /\ FinishInv /\ PushInv /\ CountInv
  BY DEF IInv, ExactInv
<1>2. /\ pc[t] = "finish"
      /\ owes' = [owes EXCEPT ![d] = @ \ {a}]
      /\ UNCHANGED <<status, parent, refs, holders, lineage, op>>
      /\ unfinished[a] = 1 => cur' = cur /\ pc' = [pc EXCEPT ![t] = "release"]
      /\ unfinished[a] # 1 => SignalParent(t, a)
  BY <1>0 DEF FinishOne
<1>3. d \in Job /\ a \in Born /\ a \in Job /\ a \in owes[d]
  BY <1>0, <1>1, <1>2, FinishingIsFirm DEF Born
<1>4. /\ \E v \in {"finish", "wait", "loop", "release"} : pc' = [pc EXCEPT ![t] = v]
      /\ \A u \in Thread : u # t => cur'[u] = cur[u]
      /\ pc'[t] = "release" => cur'[t] = a
  <2>1. CASE unfinished[a] = 1
    BY <1>0, <1>1, <1>2, <2>1
  <2>2. CASE unfinished[a] # 1
    <3>1. PICK v \in {"finish", "wait", "loop"} : pc' = [pc EXCEPT ![t] = v]
      BY <1>1, <1>2, <2>2, SignalParentMoves
    <3>2. pc'[t] # "release"
      BY <1>1, <3>1 DEF TypeOK
    <3>3. QED
      BY <1>1, <1>2, <2>2, <3>1, <3>2, SignalParentMoves
  <2>3. QED
    BY <2>1, <2>2
<1>5. ChildInv'
  <2>1. \A j \in Job : \A b \in owes'[j] : b \in owes[j]
    BY <1>1, <1>2, <1>3 DEF TypeOK
  <2>2. \A u \in Thread : pc'[u] \in Pushing => pc[u] \in Pushing /\ op'[u] = op[u]
    BY <1>1, <1>2, <1>4 DEF TypeOK, Pushing
  <2>3. QED
    BY <1>1, <1>2, <2>1, <2>2, ChildKept
<1>6. ASSUME ~HasChild(a)
      PROVE  unfinished[a] = 1 /\ d = a
  <2>1. \A j \in Job : a \in owes[j] => j = a
    BY <1>1, <1>6 DEF ChildInv
  <2>2. Owing(a) = {a}
    BY <1>3, <2>1 DEF Owing
  <2>3. QED
    BY <1>1, <1>3, <2>1, <2>2, FS_Singleton DEF CountInv
<1>7. ASSUME ~HasChild(a)
      PROVE  Balanced(a)'
  <2>1. /\ unfinished[a] = 1 /\ d = a /\ cur' = cur /\ pc' = [pc EXCEPT ![t] = "release"]
        /\ Balanced(a)
    BY <1>2, <1>3, <1>6, <1>7 DEF ExactInv
  <2>2. Releasing(a)' = Releasing(a) \cup {t} /\ t \notin Releasing(a)
    BY <1>0, <1>1, <1>2, <2>1 DEF Releasing, TypeOK
  <2>3. Cardinality(Releasing(a)') = Cardinality(Releasing(a)) + 1
    BY <1>1, <1>3, <2>2, RefSets, FS_AddElement
  <2>4. OwnUnit(a) = 1 /\ OwnUnit(a)' = 0
    BY <1>1, <1>2, <1>3, <2>1 DEF OwnUnit, TypeOK
  <2>5. Cardinality(holders[a]) \in Nat /\ Cardinality(Releasing(a)) \in Nat
    BY <1>1, <1>3, RefSets
  <2>6. refs'[a] = refs[a] /\ holders'[a] = holders[a]
    BY <1>2
  <2>7. QED
    BY <2>1, <2>3, <2>4, <2>5, <2>6 DEF Balanced
<1>8. ASSUME NEW b \in Born, b # a
      PROVE  Releasing(b)' = Releasing(b) /\ (b \in owes'[b] <=> b \in owes[b])
  <2>1. Releasing(b)' = Releasing(b)
    <3>1. PICK v \in {"finish", "wait", "loop", "release"} : pc' = [pc EXCEPT ![t] = v]
      BY <1>4
    <3>2. \A u \in Thread :
            pc'[u] = "release" /\ cur'[u] = b <=> pc[u] = "release" /\ cur[u] = b
      BY <1>0, <1>1, <1>2, <1>4, <1>8, <3>1 DEF TypeOK
    <3>3. QED
      BY <3>2 DEF Releasing
  <2>2. b \in Job
    BY DEF Born
  <2>3. QED
    BY <1>1, <1>2, <1>3, <1>8, <2>1, <2>2 DEF TypeOK
<1>9. Born' = Born
  BY <1>2 DEF Born
<1>10. QED
  BY <1>2, <1>5, <1>7, <1>8, <1>9, ExactKept

\* A reference is dropped by one who had it: an owner, or the job itself.
LEMMA Dropped ==
  ASSUME IInv, ExactInv, NEW a \in Born, DecreaseReference(a),
         UNCHANGED <<status, parent, lineage, owes>>, ChildInv',
         \A b \in Born : b # a => holders'[b] = holders[b] /\ Releasing(b)' = Releasing(b),
         \/ /\ \E f \in holders[a] : holders'[a] = holders[a] \ {f}
            /\ Releasing(a)' = Releasing(a)
         \/ /\ \E t \in Releasing(a) : Releasing(a)' = Releasing(a) \ {t}
            /\ holders'[a] = holders[a]
  PROVE  ExactInv'
<1>1. TypeOK /\ RefInv
  BY DEF IInv
<1>2. a \in Job /\ Born' = Born /\ Born \subseteq Job
  BY DEF Born
<1>3. a \notin freed /\ refs[a] \in Nat
  BY <1>1, ReliedOn
<1>4. refs'[a] = refs[a] - 1 /\ \A b \in Job : b # a => refs'[b] = refs[b]
  BY <1>1, <1>2 DEF DecreaseReference, TypeOK
<1>5. /\ IsFiniteSet(holders[a]) /\ IsFiniteSet(Releasing(a))
      /\ Cardinality(holders[a]) \in Nat /\ Cardinality(Releasing(a)) \in Nat
  BY <1>1, <1>2, RefSets
<1>6. \/ /\ Cardinality(holders'[a]) = Cardinality(holders[a]) - 1
         /\ Cardinality(Releasing(a)') = Cardinality(Releasing(a))
      \/ /\ Cardinality(Releasing(a)') = Cardinality(Releasing(a)) - 1
         /\ Cardinality(holders'[a]) = Cardinality(holders[a])
  <2>1. CASE \E f \in holders[a] : holders'[a] = holders[a] \ {f} /\ Releasing(a)' = Releasing(a)
    BY <1>5, <2>1, FS_RemoveElement
  <2>2. CASE \E t \in Releasing(a) : Releasing(a)' = Releasing(a) \ {t} /\ holders'[a] = holders[a]
    BY <1>5, <2>2, FS_RemoveElement
  <2>3. QED
    BY <2>1, <2>2
<1>7. OwnUnit(a) \in Nat /\ OwnUnit(a)' = OwnUnit(a)
  BY DEF OwnUnit
<1>8. Balanced(a) => Balanced(a)'
  BY <1>3, <1>4, <1>5, <1>6, <1>7 DEF Balanced
<1>9. HasChild(a) \/ Balanced(a)
  BY DEF ExactInv
<1>10. QED
  BY <1>2, <1>4, <1>8, <1>9, ExactKept

LEMMA FinishReleaseExact ==
  ASSUME IInv, ExactInv, NEW t \in Thread, FinishRelease(t)
  PROVE  ExactInv'
<1>0. PICK a : a = cur[t]
  OBVIOUS
<1>1. TypeOK /\ ChildInv /\ FinishInv
  BY DEF IInv, ExactInv
<1>2. /\ pc[t] = "release" /\ DecreaseReference(a) /\ SignalParent(t, a)
      /\ UNCHANGED <<status, parent, holders, lineage, owes, op>>
  BY <1>0 DEF FinishRelease
<1>3. a \in Born
  BY <1>0, <1>1, <1>2 DEF FinishInv, Finishing
<1>4. /\ \E v \in {"finish", "wait", "loop"} : pc' = [pc EXCEPT ![t] = v]
      /\ \A u \in Thread : u # t => cur'[u] = cur[u]
  BY <1>1, <1>2, SignalParentMoves
<1>5. ChildInv'
  <2>1. \A u \in Thread : pc'[u] \in Pushing => pc[u] \in Pushing /\ op'[u] = op[u]
    BY <1>1, <1>2, <1>4 DEF TypeOK, Pushing
  <2>2. QED
    BY <1>1, <1>2, <2>1, ChildKept
<1>6. /\ Releasing(a)' = Releasing(a) \ {t} /\ t \in Releasing(a)
      /\ \A b \in Born : b # a => Releasing(b)' = Releasing(b)
  BY <1>0, <1>1, <1>2, <1>4 DEF Releasing, TypeOK
<1>7. QED
  BY <1>2, <1>3, <1>5, <1>6, Dropped

LEMMA GiveBackExact ==
  ASSUME IInv, ExactInv, NEW t \in Thread, WaitDrop(t) \/ \E j \in Job : ClientDecrease(t, j)
  PROVE  ExactInv'
<1>1. TypeOK /\ ChildInv /\ HolderInv /\ FrameInv
  BY DEF IInv, ExactInv
<1>2. PICK j \in Job : /\ DecreaseReference(j) /\ top[t] \in holders[j]
                       /\ holders' = [holders EXCEPT ![j] = @ \ {top[t]}]
                       /\ pc[t] \in {"run", "drop"} /\ pc' = [pc EXCEPT ![t] = "run"]
                       /\ UNCHANGED <<status, parent, lineage, owes, op, cur>>
  <2>1. CASE WaitDrop(t)
    <3>1. waitOn[top[t]] # NoJob /\ top[t] \in Frame
      BY <1>1, <2>1 DEF WaitDrop, FrameInv, Waiting, TypeOK
    <3>2. waitOn[top[t]] \in Job /\ top[t] \in holders[waitOn[top[t]]]
      BY <1>1, <3>1 DEF HolderInv, TypeOK
    <3>3. QED
      BY <2>1, <3>2 DEF WaitDrop
  <2>2. CASE \E j \in Job : ClientDecrease(t, j)
    <3>1. PICK j \in Job : ClientDecrease(t, j)
      BY <2>2
    <3>2. pc[t] = "run" /\ pc' = [pc EXCEPT ![t] = "run"]
      BY <1>1, <3>1 DEF ClientDecrease, TypeOK
    <3>3. QED
      BY <3>1, <3>2 DEF ClientDecrease
  <2>3. QED
    BY <2>1, <2>2
<1>3. j \in Born
  BY <1>1, <1>2 DEF HolderInv
<1>4. ChildInv'
  <2>1. \A u \in Thread : pc'[u] \in Pushing => pc[u] \in Pushing /\ op'[u] = op[u]
    BY <1>1, <1>2 DEF TypeOK, Pushing
  <2>2. QED
    BY <1>1, <1>2, <2>1, ChildKept
<1>5. /\ holders'[j] = holders[j] \ {top[t]}
      /\ \A b \in Born : b # j => holders'[b] = holders[b]
      /\ \A b \in Born : Releasing(b)' = Releasing(b)
  BY <1>1, <1>2 DEF Releasing, TypeOK, Born
<1>6. QED
  BY <1>2, <1>3, <1>4, <1>5, Dropped

LEMMA ClientIncreaseExact ==
  ASSUME IInv, ExactInv, NEW t \in Thread, NEW j \in Job, NEW g \in Frame, ClientIncrease(t, j, g)
  PROVE  ExactInv'
<1>1. TypeOK /\ ChildInv /\ HolderInv
  BY DEF IInv, ExactInv
<1>2. /\ top[t] \in holders[j] /\ g \notin holders[j]
      /\ refs' = [refs EXCEPT ![j] = @ + 1]
      /\ holders' = [holders EXCEPT ![j] = @ \cup {g}]
      /\ UNCHANGED <<status, parent, lineage, owes, op, pc, cur>>
  BY DEF ClientIncrease
<1>3. j \in Born /\ Born' = Born /\ Born \subseteq Job
  BY <1>1, <1>2 DEF HolderInv, Born
<1>4. ChildInv'
  BY <1>1, <1>2, ChildKept
<1>5. \A b \in Born : Releasing(b)' = Releasing(b)
  BY <1>2 DEF Releasing
<1>6. Balanced(j) => Balanced(j)'
  <2>1. refs'[j] = refs[j] + 1 /\ holders'[j] = holders[j] \cup {g} /\ refs[j] \in Int
    BY <1>1, <1>2 DEF TypeOK
  <2>2. Cardinality(holders'[j]) = Cardinality(holders[j]) + 1
    <3>1. IsFiniteSet(holders[j])
      BY <1>1, RefSets
    <3>2. QED
      BY <1>2, <2>1, <3>1, FS_AddElement
  <2>3. Cardinality(holders[j]) \in Nat /\ Cardinality(Releasing(j)) \in Nat
    BY <1>1, RefSets
  <2>4. Releasing(j)' = Releasing(j) /\ OwnUnit(j)' = OwnUnit(j) /\ OwnUnit(j) \in Nat
    BY <1>2, <1>3, <1>5 DEF OwnUnit
  <2>5. QED
    BY <2>1, <2>2, <2>3, <2>4 DEF Balanced
<1>7. HasChild(j) \/ Balanced(j)
  BY <1>3 DEF ExactInv
<1>8. \A b \in Born : b # j => refs'[b] = refs[b] /\ holders'[b] = holders[b]
  BY <1>1, <1>2, <1>3 DEF TypeOK
<1>9. QED
  BY <1>2, <1>3, <1>4, <1>5, <1>6, <1>7, <1>8, ExactKept

LEMMA LifecycleExact ==
  ASSUME IInv, ExactInv, Lifecycle \/ UNCHANGED vars
  PROVE  ExactInv'
<1>1. TypeOK /\ Main \in Thread
  BY ThreadFinite DEF IInv
<1>2. UNCHANGED <<status, parent, refs, holders, lineage, owes, op, cur>>
  BY DEF Lifecycle, InitDone, ShutdownBegin, ShutdownStop, ShutdownSignal, ShutdownJoin, vars
<1>3. \/ pc' = pc
      \/ /\ pc[Main] \in {"init", "run", "stopping", "join"}
         /\ \E v \in {"run", "stopping", "join", "down"} : pc' = [pc EXCEPT ![Main] = v]
  BY DEF Lifecycle, InitDone, ShutdownBegin, ShutdownStop, ShutdownSignal, ShutdownJoin, vars
<1>4. \A u \in Thread : /\ pc'[u] \in Pushing => pc[u] \in Pushing /\ op'[u] = op[u]
                        /\ pc'[u] = "release" <=> pc[u] = "release"
                        /\ pc[u] = "release" => cur'[u] = cur[u]
  BY <1>1, <1>2, <1>3 DEF TypeOK, Pushing
<1>5. QED
  BY <1>2, <1>4, ExactQuiet

LEMMA InitExact == Init => ExactInv
<1> SUFFICES ASSUME Init PROVE ExactInv
  OBVIOUS
<1>1. ChildInv
  BY DEF Init, ChildInv, Pushing
<1>2. Born = {}
  BY DEF Init, Born
<1>3. QED
  BY <1>1, <1>2 DEF ExactInv

LEMMA NextExact ==
  ASSUME OwnedPushes, IInv, ExactInv, [Next]_vars
  PROVE  ExactInv'
<1>1. ASSUME NEW t \in Thread, System(t) PROVE ExactInv'
  BY <1>1, CountAncestorExact, RefAncestorExact, AllocateExact, FinishOneExact,
     FinishReleaseExact, GiveBackExact, StillExact DEF System
<1>2. ASSUME NEW t \in Thread, WorkerLoop(t) PROVE ExactInv'
  BY <1>2, StillExact
<1>3. ASSUME NEW t \in Thread, Client(t) PROVE ExactInv'
  <2>1. CASE \E o \in PushOps, p \in Frame : PushBegin(t, o, p)
    BY <2>1, PushBeginExact
  <2>2. CASE \E j \in Job : WaitBegin(t, j) \/ TryWait(t, j) \/ ClientDecrease(t, j)
    BY <2>2, StillExact, GiveBackExact
  <2>3. CASE \E j \in Job, g \in Frame : ClientIncrease(t, j, g)
    BY <2>3, ClientIncreaseExact
  <2>4. CASE JobReturn(t)
    BY <2>4, StillExact
  <2>5. QED
    BY <1>3, <2>1, <2>2, <2>3, <2>4 DEF Client
<1>4. CASE Lifecycle \/ UNCHANGED vars
  BY <1>4, LifecycleExact
<1>5. QED
  BY <1>1, <1>2, <1>3, <1>4 DEF Next, Down

\* With pushes that return the handle they allocate for, the references of a job
\* that never had a child are those of its owners, of the thread about to drop
\* one, and its own while it has not finished.
THEOREM CountedExactly ==
  ASSUME OwnedPushes
  PROVE  Spec => []ExactInv
<1>1. Init => ExactInv
  BY InitExact
<1>2. IInv /\ ExactInv /\ [Next]_vars => ExactInv'
  BY NextExact
<1>3. QED
  BY <1>1, <1>2, Inductive, PTL DEF Spec

\* A job that never had a child is deallocated as soon as it has executed and
\* its last reference was given back.
THEOREM ChildlessGo ==
  ASSUME OwnedPushes
  PROVE  Spec => []ChildlessDestroyed
<1>1. ASSUME IInv, ExactInv, NEW j \in Job, Settled(j), \A d \in Job : parent[d] # j
      PROVE  j \in freed
  <2>1. TypeOK /\ CountInv /\ RefInv
    BY <1>1 DEF IInv
  <2>2. j \in Born /\ Balanced(j)
    BY <1>1 DEF Settled, Born, ExactInv, HasChild
  <2>3. holders[j] = {} /\ Releasing(j) = {}
    BY <1>1 DEF Settled, Releasing
  <2>4. OwnUnit(j) = 0
    <3>1. IsFiniteSet(Owing(j)) /\ Cardinality(Owing(j)) = 0
      BY <1>1, <2>1, FS_Subset, JobAssumption DEF Owing, CountInv, Settled
    <3>2. Owing(j) = {}
      BY <3>1, FS_EmptySet
    <3>3. QED
      BY <3>2 DEF Owing, OwnUnit
  <2>5. refs[j] + 1 = 0 /\ refs[j] \in Nat \cup {-1}
    BY <2>1, <2>2, <2>3, <2>4, FS_EmptySet DEF Balanced, TypeOK
  <2>6. QED
    BY <2>1, <2>2, <2>5 DEF RefInv
<1>2. IInv /\ ExactInv => ChildlessDestroyed
  BY <1>1 DEF ChildlessDestroyed
<1>3. QED
  BY <1>2, Inductive, CountedExactly, PTL

-----------------------------------------------------------------------------
(* JobManager implements ForkJoin: every step of the job manager is a step of *)
(* ForkJoin under the mapping of Abstract, or leaves the mapped state as it is. *)

\* The mapped state depends on the status of the jobs and on the threads that
\* stand at the end of a wait.
LEMMA MapStatus ==
  ASSUME TypeOK, NEW j \in Job
  PROVE  /\ status[j] \in {"unborn", "pushing"} => AbstractState[j] = "absent"
         /\ status[j] \in {"allocated", "queued"} => AbstractState[j] = "submitted"
         /\ status[j] = "running" => AbstractState[j] = "started"
         /\ status[j] = "executed" => AbstractState[j] = "completed"
BY DEF AbstractState, Phase

\* A change of the status of one job changes the mapped state of that job only.
LEMMA MapChange ==
  ASSUME NEW x \in Job, NEW s,
         \A j \in Job : j # x => status'[j] = status[j],
         AbstractState'[x] = s
  PROVE  AbstractState' = [AbstractState EXCEPT ![x] = s]
<1>1. AbstractState = [j \in Job |-> AbstractState[j]]
  BY DEF AbstractState
<1>2. AbstractState' = [j \in Job |-> AbstractState'[j]]
  BY DEF AbstractState
<1>3. \A j \in Job : j # x => AbstractState'[j] = AbstractState[j]
  BY DEF AbstractState
<1>4. QED
  BY <1>1, <1>2, <1>3

\* A step of a thread that is not at the end of a wait, and does not get there,
\* leaves the granted frames as they are.
LEMMA GrantedKept ==
  ASSUME NEW t \in Thread, pc[t] # "drop", pc'[t] # "drop",
         \A u \in Thread : u # t => pc'[u] = pc[u] /\ top'[u] = top[u]
  PROVE  Granted' = Granted
BY DEF Granted

LEMMA TreeComplete ==
  ASSUME IInv, NEW j \in Job, unfinished[j] = 0 \/ j \in freed
  PROVE  Abstract!Complete(j)
<1>1. \A d \in Job : j \in lineage[d] => status[d] = "executed"
  <2>1. CASE unfinished[j] = 0
    BY <2>1, CountedOut
  <2>2. CASE j \in freed
    BY <2>2, FreedTree DEF DestroyedAfterTree
  <2>3. QED
    BY <2>1, <2>2
<1>2. QED
  BY <1>1 DEF Abstract!Complete, AbstractState, Phase

LEMMA InitRefines == Init => Abstract!Init
BY DEF Init, Abstract!Init, Abstract!Frame, AbstractState, Phase, Granted, Thread

LEMMA AllocateRefines ==
  ASSUME IInv, NEW t \in Thread, Allocate(t) PROVE Abstract!Next
<1> USE JobAssumption
<1>1. TypeOK /\ FrameInv /\ HolderInv /\ LineageInv /\ OwesInv /\ PushInv /\ RefInv
  BY DEF IInv
<1>2. PICK x, p : x = fresh[t] /\ p = parent[x]
  OBVIOUS
<1>3. /\ x \in Job /\ status[x] = "pushing" /\ p \in Frame
      /\ p # NoJob => p \in Born /\ (p = top[t] \/ (top[t] \in holders[p] /\ parent[p] = NoJob))
  BY <1>1, <1>2 DEF Allocate, PushInv, Pushing, TypeOK
<1>4. PICK own \in SUBSET Frame : holders' = [holders EXCEPT ![x] = own]
  BY <1>1, <1>2 DEF Allocate, TypeOK
<1>5. /\ status' = [status EXCEPT ![x] = "allocated"]
      /\ lineage' = [lineage EXCEPT ![x] = {x} \cup lineage[p]]
      /\ pc' = [pc EXCEPT ![t] = "enqueue"] /\ pc[t] = "allocate"
      /\ UNCHANGED <<freed, top, below, waitOn>>
  BY <1>2 DEF Allocate
<1>6. lineage[p] \cap freed = {}
  <2>1. CASE p = NoJob
    BY <1>1, <2>1 DEF LineageInv
  <2>2. CASE p # NoJob /\ p = top[t]
    <3>1. status[p] = "running" /\ p \in Job
      BY <1>1, <1>3, <1>5, <2>2 DEF FrameInv, Finishing, Born
    <3>2. ASSUME NEW a \in lineage[p] PROVE a \notin freed
      <4>1. a \in Born
        BY <1>1, <1>3, <2>2 DEF LineageInv
      <4>2. Firm(a) # {}
        BY <1>1, <3>1, LiveIsFirm
      <4>3. QED
        BY <1>1, <4>1, <4>2, ReliedOn
    <3>3. QED
      BY <3>2
  <2>3. CASE p # NoJob /\ top[t] \in holders[p] /\ parent[p] = NoJob
    <3>1. p \in Born /\ lineage[p] = {p}
      BY <1>1, <1>3, <2>3 DEF LineageInv
    <3>2. p \notin freed
      BY <1>1, <2>3, <3>1, ReliedOn
    <3>3. QED
      BY <3>1, <3>2
  <2>4. QED
    BY <1>3, <2>1, <2>2, <2>3
<1>7. AbstractState[x] = "absent" /\ (p # NoJob => AbstractState[p] # "absent")
  <2>1. AbstractState[x] = "absent"
    BY <1>1, <1>3, MapStatus
  <2>2. ASSUME p # NoJob PROVE AbstractState[p] # "absent"
    <3>1. p \in Job /\ status[p] \in {"allocated", "queued", "running", "executed"}
      BY <1>1, <1>3, <2>2 DEF Born, TypeOK
    <3>2. QED
      BY <1>1, <3>1, MapStatus
  <2>3. QED
    BY <2>1, <2>2
<1>8. AbstractState' = [AbstractState EXCEPT ![x] = "submitted"]
  <2>1. status'[x] = "allocated" /\ \A j \in Job : j # x => status'[j] = status[j]
    BY <1>1, <1>3, <1>5 DEF TypeOK
  <2>2. AbstractState'[x] = "submitted"
    BY <1>3, <2>1 DEF AbstractState, Phase
  <2>3. QED
    BY <1>3, <2>1, <2>2, MapChange
<1>9. Granted' = Granted
  BY <1>1, <1>5, GrantedKept DEF TypeOK
<1>10. Abstract!Submit(x, p, own)
  BY <1>4, <1>5, <1>6, <1>7, <1>8, <1>9 DEF Abstract!Submit
<1>11. QED
  BY <1>3, <1>4, <1>10 DEF Abstract!Next, Abstract!Frame

LEMMA StartRefines ==
  ASSUME IInv, NEW t \in Thread, WaitHelp(t) \/ PollHit(t) PROVE Abstract!Next
<1> USE JobAssumption, ThreadsAssumption
<1>1. TypeOK /\ QueueInv
  BY DEF IInv
<1>2. PICK q \in Thread : StartJob(t, q)
  <2>1. CASE WaitHelp(t)
    BY <2>1 DEF WaitHelp
  <2>2. CASE PollHit(t)
    <3>1. scan[t] \in 1 .. NumThreads
      BY <1>1 DEF TypeOK
    <3>2. PollOrder(t, scan[t]) \in Thread
      BY <3>1 DEF PollOrder, Thread
    <3>3. QED
      BY <2>2, <3>2 DEF PollHit
  <2>3. QED
    BY <2>1, <2>2
<1>3. PICK j : j = Head(queue[q])
  OBVIOUS
<1>4. /\ queue[q] # <<>>
      /\ status' = [status EXCEPT ![j] = "running"]
      /\ top' = [top EXCEPT ![t] = j]
      /\ pc' = [pc EXCEPT ![t] = "run"]
      /\ pc[t] \in {"help", "poll"}
      /\ UNCHANGED <<lineage, holders, waitOn, freed>>
  BY <1>2, <1>3 DEF StartJob, WaitHelp, PollHit
<1>5. j \in Job /\ status[j] = "queued"
  <2>1. queue[q] \in Seq(Job)
    BY <1>1 DEF TypeOK
  <2>2. 1 \in 1 .. Len(queue[q]) /\ j = queue[q][1] /\ j \in Job
    BY <1>3, <1>4, <2>1
  <2>3. QED
    BY <1>1, <2>2 DEF QueueInv
<1>6. j \notin freed
  BY <1>5, InUseKept DEF NoUseAfterFree, InUse
<1>7. AbstractState[j] = "submitted" /\ AbstractState' = [AbstractState EXCEPT ![j] = "started"]
  <2>1. status'[j] = "running" /\ \A k \in Job : k # j => status'[k] = status[k]
    BY <1>1, <1>4, <1>5 DEF TypeOK
  <2>2. AbstractState'[j] = "started"
    BY <1>5, <2>1 DEF AbstractState, Phase
  <2>3. QED
    BY <1>1, <1>5, <2>1, <2>2, MapChange, MapStatus
<1>8. Granted' = Granted
  <2>1. \A u \in Thread : u # t => pc'[u] = pc[u] /\ top'[u] = top[u]
    BY <1>1, <1>4 DEF TypeOK
  <2>2. pc[t] # "drop" /\ pc'[t] # "drop"
    BY <1>1, <1>4 DEF TypeOK
  <2>3. QED
    BY <2>1, <2>2, GrantedKept
<1>9. Abstract!Start(j)
  BY <1>4, <1>6, <1>7, <1>8 DEF Abstract!Start
<1>10. QED
  BY <1>5, <1>9 DEF Abstract!Next

LEMMA JobReturnRefines ==
  ASSUME IInv, NEW t \in Thread, JobReturn(t) PROVE Abstract!Next
<1>1. TypeOK /\ FrameInv
  BY DEF IInv
<1>2. PICK j : j = top[t]
  OBVIOUS
<1>3. /\ pc[t] = "run" /\ j # NoJob /\ pc' = [pc EXCEPT ![t] = "finish"]
      /\ status' = [status EXCEPT ![j] = "executed"]
      /\ UNCHANGED <<lineage, holders, waitOn, freed, top>>
  BY <1>2 DEF JobReturn
<1>4. j \in Job /\ status[j] = "running"
  BY <1>1, <1>2, <1>3 DEF TypeOK, FrameInv, Finishing
<1>5. j \notin freed
  BY <1>4, InUseKept DEF NoUseAfterFree, InUse
<1>6. AbstractState[j] = "started" /\ AbstractState' = [AbstractState EXCEPT ![j] = "completed"]
  <2>1. status'[j] = "executed" /\ \A k \in Job : k # j => status'[k] = status[k]
    BY <1>1, <1>3, <1>4 DEF TypeOK
  <2>2. AbstractState'[j] = "completed"
    BY <1>4, <2>1 DEF AbstractState, Phase
  <2>3. QED
    BY <1>1, <1>4, <2>1, <2>2, MapChange, MapStatus
<1>7. Granted' = Granted
  BY <1>1, <1>3, GrantedKept DEF TypeOK
<1>8. Abstract!Finish(j)
  BY <1>3, <1>5, <1>6, <1>7 DEF Abstract!Finish
<1>9. QED
  BY <1>4, <1>8 DEF Abstract!Next

LEMMA WaitStartRefines ==
  ASSUME IInv, NEW t \in Thread, NEW j \in Job, WaitBegin(t, j) \/ TryWait(t, j)
  PROVE  Abstract!Next
<1> USE JobAssumption
<1>1. TypeOK /\ FrameInv
  BY DEF IInv
<1>2. PICK f : f = top[t]
  OBVIOUS
<1>3. /\ pc[t] = "run" /\ f \in holders[j] /\ waitOn' = [waitOn EXCEPT ![f] = j]
      /\ f \in Frame /\ waitOn[f] = NoJob
      /\ UNCHANGED <<status, lineage, holders, freed, top>>
  BY <1>1, <1>2 DEF WaitBegin, TryWait, TypeOK, FrameInv, FramePCs, Waiting
<1>4. AbstractState' = AbstractState
  BY <1>3 DEF AbstractState, Phase
<1>5. CASE WaitBegin(t, j)
  <2>1. Granted' = Granted
    BY <1>1, <1>3, <1>5, GrantedKept DEF WaitBegin, TypeOK
  <2>2. Abstract!Wait(f, j)
    BY <1>3, <1>4, <2>1 DEF Abstract!Wait
  <2>3. QED
    BY <1>3, <2>2 DEF Abstract!Next, Abstract!Frame
<1>6. CASE TryWait(t, j)
  <2>1. unfinished[j] = 0 /\ pc' = [pc EXCEPT ![t] = "drop"]
    BY <1>6 DEF TryWait
  <2>2. Abstract!Complete(j)
    BY <2>1, TreeComplete
  <2>3. Granted' = Granted \cup {f}
    BY <1>1, <1>2, <1>3, <2>1 DEF Granted, TypeOK
  <2>4. Abstract!TryWait(f, j)
    BY <1>3, <1>4, <2>2, <2>3 DEF Abstract!TryWait
  <2>5. QED
    BY <1>3, <2>4 DEF Abstract!Next, Abstract!Frame
<1>7. QED
  BY <1>5, <1>6

LEMMA WaitLoadRefines ==
  ASSUME IInv, NEW t \in Thread, WaitLoad(t)
  PROVE  Abstract!Next \/ UNCHANGED Abstract!vars
<1> USE JobAssumption
<1>1. TypeOK /\ FrameInv
  BY DEF IInv
<1>2. PICK f : f = top[t]
  OBVIOUS
<1>3. /\ pc[t] = "wait" /\ f \in Frame /\ waitOn[f] \in Job
      /\ UNCHANGED <<status, lineage, holders, waitOn, freed, top>>
  BY <1>1, <1>2 DEF WaitLoad, TypeOK, FrameInv, Waiting
<1>4. AbstractState' = AbstractState
  BY <1>3 DEF AbstractState, Phase
<1>5. CASE unfinished[waitOn[f]] > 0
  <2>1. Granted' = Granted
    BY <1>1, <1>2, <1>3, <1>5, GrantedKept DEF WaitLoad, TypeOK
  <2>2. QED
    BY <1>3, <1>4, <2>1 DEF Abstract!vars
<1>6. CASE ~(unfinished[waitOn[f]] > 0)
  <2>1. unfinished[waitOn[f]] = 0
    BY <1>1, <1>3, <1>6 DEF TypeOK
  <2>2. Abstract!Complete(waitOn[f])
    BY <1>3, <2>1, TreeComplete
  <2>3. pc' = [pc EXCEPT ![t] = "drop"]
    BY <1>2, <1>6 DEF WaitLoad
  <2>4. Granted' = Granted \cup {f}
    BY <1>1, <1>2, <1>3, <2>3 DEF Granted, TypeOK
  <2>5. Abstract!Grant(f)
    BY <1>3, <1>4, <2>2, <2>4 DEF Abstract!Grant
  <2>6. QED
    BY <1>3, <2>5 DEF Abstract!Next, Abstract!Frame
<1>7. QED
  BY <1>5, <1>6

\* Whatever reference is given back, only a job whose tree is complete and that
\* nobody owns is deallocated.
LEMMA MayDestroyed ==
  ASSUME IInv', NEW j \in Job, DecreaseReference(j), UNCHANGED <<status, lineage>>
  PROVE  Abstract!MayDestroy(j, holders'[j])
<1>1. freed' \in {freed, freed \cup {j}}
  BY DEF DecreaseReference
<1>2. DestroyedAfterTree'
  BY FreedTree, PTL
<1>3. ASSUME j \in freed' PROVE holders'[j] = {} /\ Abstract!Complete(j)
  <2>1. holders'[j] = {} /\ \A d \in Job : j \in lineage[d] => status[d] = "executed"
    BY <1>2, <1>3 DEF DestroyedAfterTree
  <2>2. QED
    BY <2>1 DEF Abstract!Complete, AbstractState, Phase
<1>4. QED
  BY <1>1, <1>3 DEF Abstract!MayDestroy

LEMMA WaitDropRefines ==
  ASSUME IInv, IInv', NEW t \in Thread, WaitDrop(t) PROVE Abstract!Next
<1> USE JobAssumption
<1>1. TypeOK /\ StackInv /\ FrameInv
  BY DEF IInv
<1>2. PICK f, j : f = top[t] /\ j = waitOn[f]
  OBVIOUS
<1>3. /\ pc[t] = "drop" /\ pc' = [pc EXCEPT ![t] = "run"] /\ DecreaseReference(j)
      /\ holders' = [holders EXCEPT ![j] = @ \ {f}]
      /\ waitOn' = [waitOn EXCEPT ![f] = NoJob]
      /\ UNCHANGED <<status, lineage, top>>
  BY <1>2 DEF WaitDrop
<1>4. f \in Frame /\ j \in Job
  BY <1>1, <1>2, <1>3 DEF TypeOK, FrameInv, Waiting
<1>5. AbstractState' = AbstractState
  BY <1>3 DEF AbstractState, Phase
<1>6. f \in Granted /\ Granted' = Granted \ {f}
  <2>1. f \in Granted
    BY <1>2, <1>3, <1>4 DEF Granted
  <2>2. \A u \in Thread : u # t /\ pc[u] = "drop" => top[u] # f
    BY <1>1, <1>2, <1>3, FramesDiffer DEF FramePCs, Waiting
  <2>3. pc'[t] = "run" /\ \A u \in Thread : u # t => pc'[u] = pc[u]
    BY <1>1, <1>3 DEF TypeOK
  <2>4. QED
    BY <1>2, <1>3, <2>1, <2>2, <2>3 DEF Granted
<1>7. holders'[j] = holders[j] \ {f}
  BY <1>1, <1>3, <1>4 DEF TypeOK
<1>8. Abstract!MayDestroy(j, holders[j] \ {f})
  BY <1>3, <1>4, <1>7, MayDestroyed
<1>9. Abstract!Return(f)
  BY <1>2, <1>3, <1>5, <1>6, <1>8 DEF Abstract!Return
<1>10. QED
  BY <1>4, <1>9 DEF Abstract!Next, Abstract!Frame

LEMMA ReferenceRefines ==
  ASSUME IInv, IInv', NEW t \in Thread, NEW j \in Job,
         ClientDecrease(t, j) \/ \E g \in Frame : ClientIncrease(t, j, g)
  PROVE  Abstract!Next
<1>1. TypeOK
  BY DEF IInv
<1>2. PICK f : f = top[t]
  OBVIOUS
<1>3. /\ f \in Frame /\ f \in holders[j]
      /\ UNCHANGED <<status, lineage, waitOn, top, pc>>
  BY <1>1, <1>2 DEF ClientDecrease, ClientIncrease, TypeOK
<1>4. AbstractState' = AbstractState /\ Granted' = Granted
  BY <1>3 DEF AbstractState, Phase, Granted
<1>5. CASE ClientDecrease(t, j)
  <2>1. DecreaseReference(j) /\ holders' = [holders EXCEPT ![j] = @ \ {f}]
    BY <1>2, <1>5 DEF ClientDecrease
  <2>2. holders'[j] = holders[j] \ {f}
    BY <1>1, <2>1 DEF TypeOK
  <2>3. Abstract!MayDestroy(j, holders[j] \ {f})
    BY <1>3, <2>1, <2>2, MayDestroyed
  <2>4. Abstract!GiveUp(f, j)
    BY <1>3, <1>4, <2>1, <2>3 DEF Abstract!GiveUp
  <2>5. QED
    BY <1>3, <2>4 DEF Abstract!Next, Abstract!Frame
<1>6. CASE \E g \in Frame : ClientIncrease(t, j, g)
  <2>1. PICK g \in Frame : ClientIncrease(t, j, g)
    BY <1>6
  <2>2. holders' = [holders EXCEPT ![j] = @ \cup {g}] /\ freed' = freed
    BY <2>1 DEF ClientIncrease
  <2>3. Abstract!Share(f, j, g)
    BY <1>3, <1>4, <2>2 DEF Abstract!Share
  <2>4. QED
    BY <1>3, <2>3 DEF Abstract!Next, Abstract!Frame
<1>7. QED
  BY <1>5, <1>6

LEMMA FinishRefines ==
  ASSUME IInv, IInv', NEW t \in Thread, FinishOne(t) \/ FinishRelease(t)
  PROVE  Abstract!Next \/ UNCHANGED Abstract!vars
<1>1. TypeOK /\ FrameInv /\ FinishInv /\ LineageInv /\ RefInv
  BY DEF IInv
<1>2. /\ pc[t] \in {"finish", "release"}
      /\ \E v, b : v # "drop" /\ pc' = [pc EXCEPT ![t] = v] /\ top' = [top EXCEPT ![t] = b]
      /\ UNCHANGED <<status, lineage, holders, waitOn>>
  <2>1. top = [top EXCEPT ![t] = top[t]]
    BY <1>1 DEF TypeOK
  <2>2. QED
    BY <2>1 DEF FinishOne, FinishRelease, SignalParent
<1>3. Granted' = Granted /\ AbstractState' = AbstractState
  <2>1. \A u \in Thread : u # t => pc'[u] = pc[u] /\ top'[u] = top[u]
    BY <1>1, <1>2 DEF TypeOK
  <2>2. pc[t] # "drop" /\ pc'[t] # "drop"
    BY <1>1, <1>2 DEF TypeOK
  <2>3. QED
    BY <1>2, <2>1, <2>2, GrantedKept DEF AbstractState, Phase
<1>4. CASE freed' = freed
  BY <1>2, <1>3, <1>4 DEF Abstract!vars
<1>5. CASE freed' # freed
  <2>1. PICK j : j = cur[t]
    OBVIOUS
  <2>2. pc[t] = "release" /\ DecreaseReference(j)
    BY <1>5, <2>1 DEF FinishOne, FinishRelease
  <2>3. j \in Born /\ j \in Job
    BY <1>1, <2>1, <2>2 DEF FinishInv, Finishing, Born
  <2>4. j \notin freed /\ j \in freed'
    BY <1>5, <2>2 DEF DecreaseReference
  <2>5. Abstract!MayDestroy(j, holders[j])
    BY <1>2, <2>2, <2>3, MayDestroyed
  <2>6. AbstractState[j] = "completed"
    <3>1. DestroyedAfterTree'
      BY FreedTree, PTL
    <3>2. status[j] = "executed"
      BY <1>1, <1>2, <2>3, <2>4, <3>1 DEF DestroyedAfterTree, LineageInv
    <3>3. QED
      BY <1>1, <2>3, <3>2, MapStatus
  <2>7. Abstract!Destroy(j)
    BY <1>2, <1>3, <2>4, <2>5, <2>6 DEF Abstract!Destroy
  <2>8. QED
    BY <2>3, <2>7 DEF Abstract!Next
<1>6. QED
  BY <1>4, <1>5

\* The steps that ForkJoin does not see.
LEMMA HiddenSteps ==
  ASSUME IInv,
         \/ \E t \in Thread :
              \/ CountAncestor(t) \/ RefAncestor(t) \/ Enqueue(t) \/ Signal(t) \/ WaitSpin(t)
              \/ WorkerInit(t) \/ LoopTest(t) \/ PollNext(t) \/ PollMiss(t) \/ Wake(t)
              \/ \E o \in PushOps, p \in Frame : PushBegin(t, o, p)
         \/ Lifecycle
         \/ UNCHANGED vars
  PROVE  UNCHANGED Abstract!vars
<1>1. TypeOK /\ PushInv
  BY DEF IInv
<1>2. /\ UNCHANGED <<lineage, holders, waitOn, freed, top>>
      /\ \/ pc' = pc
         \/ \E t \in Thread : \E v : pc[t] # "drop" /\ v # "drop" /\ pc' = [pc EXCEPT ![t] = v]
      /\ \/ status' = status
         \/ \E j \in Job : status[j] = "unborn" /\ status' = [status EXCEPT ![j] = "pushing"]
         \/ \E t \in Thread : Enqueue(t)
  <2>1. CASE \E t \in Thread :
               CountAncestor(t) \/ RefAncestor(t) \/ Enqueue(t) \/ Signal(t) \/ WaitSpin(t)
    BY <2>1 DEF CountAncestor, RefAncestor, Enqueue, Signal, WaitSpin
  <2>2. CASE \E t \in Thread :
               WorkerInit(t) \/ LoopTest(t) \/ PollNext(t) \/ PollMiss(t) \/ Wake(t)
    BY <2>2 DEF WorkerInit, LoopTest, PollNext, PollMiss, Wake
  <2>3. CASE \E t \in Thread : \E o \in PushOps, p \in Frame : PushBegin(t, o, p)
    BY <2>3 DEF PushBegin
  <2>4. CASE Lifecycle
    BY <2>4, ThreadFinite DEF Lifecycle, InitDone, ShutdownBegin, ShutdownStop, ShutdownSignal, ShutdownJoin
  <2>5. CASE UNCHANGED vars
    BY <2>5 DEF vars
  <2>6. QED
    BY <2>1, <2>2, <2>3, <2>4, <2>5
<1>3. Granted' = Granted
  <2>1. \A t \in Thread : pc'[t] = "drop" <=> pc[t] = "drop"
    BY <1>1, <1>2 DEF TypeOK
  <2>2. QED
    BY <1>2, <2>1 DEF Granted
<1>4. AbstractState' = AbstractState
  <2>1. \A j \in Job : Phase(status'[j]) = Phase(status[j])
    <3>1. CASE status' = status
      BY <3>1
    <3>2. CASE \E j \in Job : status[j] = "unborn" /\ status' = [status EXCEPT ![j] = "pushing"]
      BY <1>1, <3>2 DEF Phase, TypeOK
    <3>3. CASE \E t \in Thread : Enqueue(t)
      <4>1. PICK t \in Thread : Enqueue(t)
        BY <3>3
      <4>2. /\ fresh[t] \in Job /\ status[fresh[t]] = "allocated"
            /\ status' = [status EXCEPT ![fresh[t]] = "queued"]
        BY <1>1, <4>1 DEF Enqueue, PushInv, Pushing
      <4>3. QED
        BY <1>1, <4>2 DEF Phase, TypeOK
    <3>4. QED
      BY <1>2, <3>1, <3>2, <3>3
  <2>2. QED
    BY <2>1 DEF AbstractState
<1>5. QED
  BY <1>2, <1>3, <1>4 DEF Abstract!vars

LEMMA NextRefines ==
  ASSUME IInv, IInv', [Next]_vars PROVE [Abstract!Next]_(Abstract!vars)
<1>1. ASSUME NEW t \in Thread, System(t) PROVE [Abstract!Next]_(Abstract!vars)
  BY <1>1, AllocateRefines, StartRefines, WaitLoadRefines, WaitDropRefines, FinishRefines,
     HiddenSteps DEF System
<1>2. ASSUME NEW t \in Thread, WorkerLoop(t) PROVE [Abstract!Next]_(Abstract!vars)
  BY <1>2, StartRefines, HiddenSteps DEF WorkerLoop
<1>3. ASSUME NEW t \in Thread, Client(t) PROVE [Abstract!Next]_(Abstract!vars)
  <2>1. CASE \E o \in PushOps, p \in Frame : PushBegin(t, o, p)
    BY <2>1, HiddenSteps
  <2>2. CASE \E j \in Job : WaitBegin(t, j) \/ TryWait(t, j) \/ ClientDecrease(t, j)
    BY <2>2, WaitStartRefines, ReferenceRefines
  <2>3. CASE \E j \in Job, g \in Frame : ClientIncrease(t, j, g)
    BY <2>3, ReferenceRefines
  <2>4. CASE JobReturn(t)
    BY <2>4, JobReturnRefines
  <2>5. QED
    BY <1>3, <2>1, <2>2, <2>3, <2>4 DEF Client
<1>4. CASE Lifecycle \/ UNCHANGED vars
  BY <1>4, HiddenSteps
<1>5. QED
  BY <1>1, <1>2, <1>3, <1>4 DEF Next, Down

\* The job manager, its queues, its two counters and its helping waits implement
\* a fork-join of jobs: each runs once, a wait is granted when the tree under
\* its job is complete, and only complete jobs that nobody owns are destroyed.
THEOREM Refinement == Spec => ImplementsForkJoin
<1>1. Init => Abstract!Init
  BY InitRefines
<1>2. IInv /\ IInv' /\ [Next]_vars => [Abstract!Next]_(Abstract!vars)
  BY NextRefines
<1>3. QED
  BY <1>1, <1>2, Inductive, PTL DEF Spec, ImplementsForkJoin, Abstract!Spec

=============================================================================
