---------------------------- MODULE JobManagerInv ----------------------------
(***************************************************************************)
(* The inductive invariant of JobManager.  CountInv and RefInv say what    *)
(* the two counters of a job mean; the other parts say where a job and a   *)
(* frame can be, and what the thread that walks the ancestors of a job has *)
(* already counted.                                                        *)
(***************************************************************************)
EXTENDS JobManager

Born == {j \in Job : status[j] \notin {"unborn", "pushing"}}
Pushing == {"count", "addref", "allocate", "enqueue"}
Finishing == {"finish", "release"}
Waiting == {"wait", "help", "drop"}
WorkerPCs == {"uninitialized", "loop", "poll", "sleep", "exited"}
FramePCs == {"run", "signal"} \cup Pushing \cup Finishing \cup Waiting

\* A job is in at most one place of one queue, and only while it is queued.
QueueInv ==
  /\ \A t \in Thread : \A i \in 1 .. Len(queue[t]) : status[queue[t][i]] = "queued"
  /\ \A t, u \in Thread : \A i \in 1 .. Len(queue[t]), k \in 1 .. Len(queue[u]) :
       queue[t][i] = queue[u][k] => t = u /\ i = k

\* The stacks of the threads are disjoint, and every frame below the top of
\* one waits.
StackInv ==
  /\ \A t, u \in Thread : top[t] = top[u] /\ top[t] # NoJob => t = u
  /\ \A j \in Job : below[j] # NoJob =>
       /\ status[below[j]] = "running"
       /\ waitOn[below[j]] # NoJob
       /\ \A t \in Thread : top[t] # below[j]
       /\ \A k \in Job : below[k] = below[j] => k = j
  /\ top[Main] # NoJob => waitOn[NoJob] # NoJob

FrameInv ==
  \A t \in Thread :
    /\ top[t] # NoJob => pc[t] \in FramePCs
    /\ pc[t] \in FramePCs /\ top[t] = NoJob => t = Main /\ pc[t] \notin Finishing
    /\ top[t] # NoJob =>
         status[top[t]] = IF pc[t] \in Finishing THEN "executed" ELSE "running"
    /\ pc[t] \in Waiting => waitOn[top[t]] # NoJob
    /\ pc[t] \in {"init"} \cup (FramePCs \ Waiting) => waitOn[top[t]] = NoJob
    /\ pc[t] \in {"stopping", "join", "down", "init"} => t = Main
    /\ pc[t] \in WorkerPCs => t # Main

HolderInv ==
  /\ \A f \in Frame : waitOn[f] # NoJob => f \in holders[waitOn[f]]
  /\ \A j \in Job : status[j] # "running" => waitOn[j] = NoJob
  /\ \A j \in Job : holders[j] # {} => j \in Born

LineageInv ==
  /\ lineage[NoJob] = {}
  /\ \A j \in Job : j \notin Born => lineage[j] = {} /\ j \notin freed
  /\ \A j \in Born :
       /\ parent[j] \in Born \cup {NoJob}
       /\ lineage[j] = {j} \cup lineage[parent[j]]
       /\ j \notin lineage[parent[j]]
       /\ lineage[j] \subseteq Born

OwesInv ==
  /\ \A j \in Job : owes[j] \subseteq Born
  /\ \A j \in Job : status[j] = "unborn" => owes[j] = {}
  /\ \A j \in Job : status[j] \in {"allocated", "queued", "running"} => owes[j] = lineage[j]

\* What signal_finished_job has left to do, and what allocate_job_impl has done.
FinishInv ==
  \A t \in Thread : pc[t] \in Finishing =>
    /\ cur[t] \in Born
    /\ owes[top[t]] = lineage[IF pc[t] = "finish" THEN cur[t] ELSE parent[cur[t]]]

\* The ancestors thread t has yet to count for the job it pushes.
Left(t) ==
  IF pc[t] = "count" THEN lineage[cur[t]]
  ELSE IF pc[t] = "addref" THEN lineage[parent[cur[t]]] ELSE {}

PushInv ==
  /\ \A t \in Thread : pc[t] \in Pushing =>
       LET x == fresh[t]
           p == parent[fresh[t]]
       IN  /\ x \in Job
           /\ status[x] = IF pc[t] = "enqueue" THEN "allocated" ELSE "pushing"
           /\ p # NoJob => /\ p \in Born
                           /\ p = top[t] \/ (top[t] \in holders[p] /\ parent[p] = NoJob)
           /\ pc[t] \in {"count", "addref"} => cur[t] \in lineage[p]
           /\ pc[t] = "addref" => cur[t] \in owes[x]
           /\ pc[t] # "enqueue" => Left(t) \cap owes[x] = {} /\ Left(t) \cup owes[x] = lineage[p]
  /\ \A t, u \in Thread :
       pc[t] \in Pushing /\ pc[u] \in Pushing /\ fresh[t] = fresh[u] => t = u

\* The jobs that job_impl::unfinishedJobs of a counts.
Owing(a) == {d \in Job : a \in owes[d]}

CountInv == \A a \in Job : unfinished[a] = Cardinality(Owing(a))

\* The jobs a counts whose push has also taken its reference to a.
Firm(a) ==
  {d \in Owing(a) : ~\E t \in Thread : pc[t] = "addref" /\ fresh[t] = d /\ cur[t] = a}
Releasing(a) == {t \in Thread : pc[t] = "release" /\ cur[t] = a}
FirmUnit(a) == IF Firm(a) = {} THEN 0 ELSE 1

\* The references of a job cover those its clients own, those that threads are
\* about to drop, and one for as long as the job counts anything.
RefInv ==
  \A a \in Born :
    /\ refs[a] + 1 >= Cardinality(holders[a]) + Cardinality(Releasing(a)) + FirmUnit(a)
    /\ a \in freed <=> refs[a] = -1

IInv ==
  /\ TypeOK /\ QueueInv /\ StackInv /\ FrameInv /\ HolderInv /\ LineageInv
  /\ OwesInv /\ FinishInv /\ PushInv /\ CountInv /\ RefInv

\* A job with a child keeps a reference too many for each (README, section 4).
\* Those of a job that never had one are counted exactly, if no push returns a
\* job whose reference nobody owns.
HasChild(a) == \E d \in Job : parent[d] = a
OwnUnit(a) == IF a \in owes[a] THEN 1 ELSE 0

Balanced(a) == refs[a] + 1 = Cardinality(holders[a]) + Cardinality(Releasing(a)) + OwnUnit(a)

ChildInv ==
  /\ \A j \in Job : status[j] = "unborn" => parent[j] = NoJob
  /\ \A j \in Job : \A a \in lineage[j] \cup owes[j] : a = j \/ HasChild(a)
  /\ \A t \in Thread : pc[t] \in Pushing => op[t] \in ClientOps

ExactInv == ChildInv /\ \A a \in Born : HasChild(a) \/ Balanced(a)

=============================================================================
