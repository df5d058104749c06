---------------------------- MODULE ResourceLoadInv ----------------------------
(* The inductive invariant of ResourceLoad.  Its parts say who owns what in    *)
(* every state of a call; together they imply that the counter is exact, that  *)
(* a load starts once, and that nothing is used after it was deleted.          *)
EXTENDS ResourceLoad

CallPCs == {"acquire", "push", "assign", "check", "sync_wait", "aborted"}
StartPCs == {"acquire", "push", "assign"}
ReapPCs == {"reap", "reap_wait", "destroy"}
RunPCs == {"create", "load", "store", "release"}
UpdatePCs == {"erase", "invalidate", "replace_release", "replace"}

\* A resource that was not created is nobody's, and nothing happened to it.
UnbornInv ==
  \A r \in Res : loadState[r] = "unborn" =>
    /\ owners[r] = {} /\ r \notin deleted /\ pc[r] = "none"
    /\ data[r] = "null" /\ ~assigned[r] /\ ~invalidated[r]

\* Only a created resource is owned, and no owned resource is deleted.
OwnedInv == \A r \in deleted : owners[r] = {}

\* A thread inside a load call keeps the pointer it made the call through.
CallInv ==
  \A t \in Thread : pc[t] \in CallPCs => cur[t] \in Res /\ t \in owners[cur[t]]

\* Whoever starts a load is alone, and owns the job's pointer until it runs.
StartInv ==
  \A t \in Thread : pc[t] \in StartPCs =>
    /\ loadState[cur[t]] # "unloaded"
    /\ ~assigned[cur[t]]
    /\ pc[t] # "assign" =>
         /\ pc[cur[t]] = "none" /\ data[cur[t]] = "null"
         /\ loadState[cur[t]] = "loading"
    /\ pc[t] = "acquire" => "job" \notin owners[cur[t]]
    /\ pc[t] = "push" => "job" \in owners[cur[t]]
    /\ pc[t] = "assign" => pc[cur[t]] # "none"
    /\ \A u \in Thread : pc[u] \in StartPCs /\ cur[u] = cur[t] => u = t

\* What is not loaded has no job, no data and no handle.
UnloadedInv ==
  \A r \in Res : loadState[r] = "unloaded" =>
    pc[r] = "none" /\ data[r] = "null" /\ ~assigned[r] /\ "job" \notin owners[r]

\* A load job owns a pointer from its push to its release.
JobInv ==
  /\ \A r \in Res : cur[r] = r
  /\ \A r \in Res : pc[r] \in RunPCs => "job" \in owners[r]
  /\ \A r \in Res : pc[r] \in {"done"} \cup ReapPCs => "job" \notin owners[r]
  /\ \A r \in Res : pc[r] = "none" => ~assigned[r]
  /\ \A r \in Res : pc[r] = "create" => data[r] = "null"

\* The last owner is the only one to wait for the job and to delete.
ReapInv ==
  \A a \in Actor : pc[a] \in ReapPCs =>
    /\ cur[a] \in Res
    /\ loadState[cur[a]] # "unborn"
    /\ owners[cur[a]] = {}
    /\ cur[a] \notin deleted
    /\ \A b \in Actor : pc[b] \in ReapPCs /\ cur[b] = cur[a] => b = a

\* The entry owns its resource, except while update() replaces it.
EntryInv ==
  /\ \A t \in Thread : pc[t] \in UpdatePCs => t = Main
  /\ entry # NoRes =>
       ("registry" \notin owners[entry] <=>
          fresh # NoRes /\ pc[Main] \in {"replace"} \cup ReapPCs)
  /\ \A r \in Res : "registry" \in owners[r] => r = entry
  /\ pc[Main] \in {"erase", "invalidate", "replace_release"} =>
       entry # NoRes /\ cur[Main] = entry /\ "registry" \in owners[entry]
  /\ fresh # NoRes /\ pc[Main] \in ReapPCs => cur[Main] = entry
  /\ pc[Main] \in UpdatePCs \/ fresh # NoRes => updating

\* While update() replaces an entry it owns the new resource.
FreshInv ==
  /\ fresh # NoRes <=>
       \/ pc[Main] \in {"invalidate", "replace_release", "replace"}
       \/ fresh # NoRes /\ pc[Main] \in ReapPCs
  /\ fresh # NoRes =>
       /\ entry # NoRes /\ fresh # entry
       /\ "event" \in owners[fresh] /\ "registry" \notin owners[fresh]
       /\ ~invalidated[fresh]
  /\ \A r \in Res : "event" \in owners[r] => r = fresh

\* The load state is settled by the job alone, after the data.
LoadedInv ==
  /\ LoadedIsFilled
  /\ \A r \in Res : pc[r] \in {"create", "load", "store"} =>
       loadState[r] = "loading"
  /\ \A r \in Res : pc[r] \in {"release", "done"} \cup ReapPCs =>
       loadState[r] \in {"loaded", "failed"}

\* update() has invalidated the entry it is removing or replacing, and no other.
Retiring ==
  \/ pc[Main] \in {"erase", "replace_release"}
  \/ fresh # NoRes /\ pc[Main] \in {"replace"} \cup ReapPCs

StaleInv ==
  /\ \A r \in Res :
       owners[r] \cap Thread # {} /\ r # entry /\ ~Instantiated(r) =>
         invalidated[r]
  /\ entry # NoRes => (invalidated[entry] <=> Retiring)

\* A job whose handle is not in loadJob yet has the thread that pushed it.
AssignedInv ==
  \A r \in Res : pc[r] # "none" =>
    assigned[r] \/ \E t \in Thread : pc[t] = "assign" /\ cur[t] = r

\* A resource is deleted when its job, if any, is over.
ReapedInv ==
  /\ \A a \in Actor : pc[a] = "reap_wait" => assigned[cur[a]]
  /\ \A a \in Actor : pc[a] = "destroy" => pc[cur[a]] \in {"none", "done"}
  /\ \A r \in deleted : pc[r] \in {"none", "done"}

\* The references to a load job: one for each load_sync that waits for it, and
\* the one of the handle until it is reaped.
Waiters(r) == {t \in Thread : pc[t] = "sync_wait" /\ cur[t] = r}
HandleGone(r) ==
  \/ pc[r] = "none" \/ r \in deleted
  \/ \E a \in Actor : pc[a] = "destroy" /\ cur[a] = r

HandleInv ==
  \A r \in Res :
    jobRefs[r] = Cardinality(Waiters(r)) + (IF HandleGone(r) THEN 0 ELSE 1)

IInv ==
  /\ TypeOK
  /\ CounterExact
  /\ UnbornInv
  /\ OwnedInv
  /\ CallInv
  /\ StartInv
  /\ UnloadedInv
  /\ JobInv
  /\ ReapInv
  /\ EntryInv
  /\ FreshInv
  /\ LoadedInv
  /\ StaleInv
  /\ AssignedInv
  /\ ReapedInv
  /\ HandleInv
=============================================================================
