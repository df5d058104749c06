------------------------------- MODULE ForkJoin -------------------------------
(***************************************************************************)
(* What oblo's job manager promises its clients, with no threads, queues   *)
(* or counters: a forest of jobs grows by submission, every job runs once, *)
(* a frame waits for a job it owns a reference to, and a wait is granted   *)
(* only when the whole tree under the job has completed.  A job may be     *)
(* destroyed when its tree is complete and nobody owns it.                 *)
(*                                                                         *)
(* JobManager implements this specification.                               *)
(***************************************************************************)
EXTENDS FiniteSets

CONSTANTS Job, NoJob

Frame == Job \cup {NoJob}

VARIABLES
  state,      \* absent, submitted, started, completed
  tree,       \* the job and its ancestors
  owners,     \* the frames that own a reference to the job
  waiting,    \* the job a frame waits for
  granted,    \* the frames whose wait is over
  destroyed   \* the jobs that are gone

vars == <<state, tree, owners, waiting, granted, destroyed>>

Complete(j) == \A d \in Job : j \in tree[d] => state[d] = "completed"

Init ==
  /\ state = [j \in Job |-> "absent"]
  /\ tree = [f \in Frame |-> {}]
  /\ owners = [j \in Job |-> {}]
  /\ waiting = [f \in Frame |-> NoJob]
  /\ granted = {}
  /\ destroyed = {}

\* A job is submitted as a root or under a parent that still exists.
Submit(j, p, own) ==
  /\ state[j] = "absent"
  /\ p # NoJob => state[p] # "absent"
  /\ tree[p] \cap destroyed = {}
  /\ state' = [state EXCEPT ![j] = "submitted"]
  /\ tree' = [tree EXCEPT ![j] = {j} \cup tree[p]]
  /\ owners' = [owners EXCEPT ![j] = own]
  /\ UNCHANGED <<waiting, granted, destroyed>>

Start(j) ==
  /\ state[j] = "submitted"
  /\ j \notin destroyed
  /\ state' = [state EXCEPT ![j] = "started"]
  /\ UNCHANGED <<tree, owners, waiting, granted, destroyed>>

Finish(j) ==
  /\ state[j] = "started"
  /\ j \notin destroyed
  /\ state' = [state EXCEPT ![j] = "completed"]
  /\ UNCHANGED <<tree, owners, waiting, granted, destroyed>>

Wait(f, j) ==
  /\ waiting[f] = NoJob
  /\ f \in owners[j]
  /\ waiting' = [waiting EXCEPT ![f] = j]
  /\ UNCHANGED <<state, tree, owners, granted, destroyed>>

Grant(f) ==
  /\ waiting[f] # NoJob
  /\ Complete(waiting[f])
  /\ granted' = granted \cup {f}
  /\ UNCHANGED <<state, tree, owners, waiting, destroyed>>

\* try_wait that succeeds: waits for a job that is complete already.
TryWait(f, j) ==
  /\ waiting[f] = NoJob
  /\ f \in owners[j]
  /\ Complete(j)
  /\ waiting' = [waiting EXCEPT ![f] = j]
  /\ granted' = granted \cup {f}
  /\ UNCHANGED <<state, tree, owners, destroyed>>

\* The jobs that may go when j is left with the owners own.
MayDestroy(j, own) ==
  /\ destroyed' \in {destroyed, destroyed \cup {j}}
  /\ j \in destroyed' => own = {} /\ Complete(j)

Return(f) ==
  /\ f \in granted
  /\ granted' = granted \ {f}
  /\ waiting' = [waiting EXCEPT ![f] = NoJob]
  /\ owners' = [owners EXCEPT ![waiting[f]] = @ \ {f}]
  /\ MayDestroy(waiting[f], owners[waiting[f]] \ {f})
  /\ UNCHANGED <<state, tree>>

Share(f, j, g) ==
  /\ f \in owners[j]
  /\ owners' = [owners EXCEPT ![j] = @ \cup {g}]
  /\ UNCHANGED <<state, tree, waiting, granted, destroyed>>

GiveUp(f, j) ==
  /\ f \in owners[j]
  /\ owners' = [owners EXCEPT ![j] = @ \ {f}]
  /\ MayDestroy(j, owners[j] \ {f})
  /\ UNCHANGED <<state, tree, waiting, granted>>

Destroy(j) ==
  /\ j \notin destroyed
  /\ MayDestroy(j, owners[j])
  /\ state[j] = "completed"
  /\ UNCHANGED <<state, tree, owners, waiting, granted>>

Next ==
  \/ \E j \in Job, p \in Frame, own \in SUBSET Frame : Submit(j, p, own)
  \/ \E j \in Job : Start(j) \/ Finish(j) \/ Destroy(j)
  \/ \E f \in Frame, j \in Job : Wait(f, j) \/ TryWait(f, j) \/ GiveUp(f, j)
  \/ \E f \in Frame : Grant(f) \/ Return(f)
  \/ \E f, g \in Frame, j \in Job : Share(f, j, g)

Spec == Init /\ [][Next]_vars

=============================================================================
