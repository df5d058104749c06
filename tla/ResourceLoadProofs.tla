-------------------------- MODULE ResourceLoadProofs --------------------------
(***************************************************************************)
(* Proofs about ResourceLoad, for any set of threads and any finite or     *)
(* infinite set of resources: the counter of a resource is the number of   *)
(* its owners, a load starts once, and nothing is used after it was        *)
(* deleted.  IInv of ResourceLoadInv is inductive; its parts are proved    *)
(* one lemma each, one step per action.                                    *)
(***************************************************************************)
EXTENDS ResourceLoadInv, FiniteSetTheorems, TLAPS

USE DEF objVars, registryVars

-----------------------------------------------------------------------------
\* An owner is a thread or one of three others.
LEMMA OwnersFinite ==
  ASSUME TypeOK, NEW r \in Res
  PROVE  IsFiniteSet(owners[r])
<1>1. IsFiniteSet(Thread \cup {"registry"})
  BY ThreadAssumption, FS_AddElement
<1>2. IsFiniteSet((Thread \cup {"registry"}) \cup {"event"})
  BY <1>1, FS_AddElement
<1>3. IsFiniteSet(((Thread \cup {"registry"}) \cup {"event"}) \cup {"job"})
  BY <1>2, FS_AddElement
<1>4. owners[r] \in
        SUBSET (((Thread \cup {"registry"}) \cup {"event"}) \cup {"job"})
  BY DEF TypeOK, Owner, Others
<1> QED
  BY <1>3, <1>4, FS_Subset

\* fetch_sub returns 1 to the actor that gives up the last pointer.
LEMMA LastOwner ==
  ASSUME TypeOK, CounterExact, NEW r \in Res, NEW o \in owners[r]
  PROVE  counter[r] = 1 <=> owners[r] \ {o} = {}
<1>1. IsFiniteSet(owners[r])
  BY OwnersFinite
<1>2. Cardinality(owners[r] \ {o}) = Cardinality(owners[r]) - 1
      /\ IsFiniteSet(owners[r] \ {o})
  BY <1>1, FS_RemoveElement
<1> QED
  BY <1>1, <1>2, FS_EmptySet, FS_CardinalityType DEF CounterExact

\* Every step keeps every variable of its type.
LEMMA TypeStep ==
  ASSUME TypeOK, CallInv, ReapInv, EntryInv, [Next]_vars
  PROVE  TypeOK'
<1>1. ASSUME NEW t \in Thread, Get(t) PROVE TypeOK'
  BY <1>1, ResAssumption, ThreadAssumption
     DEF Get, TypeOK, ThreadPCs, JobPCs, Actor, Owner, Others, Acquire, Goto
<1>2. ASSUME NEW t \in Thread, NEW u \in Thread, NEW r \in Res, Copy(t, u, r)
      PROVE TypeOK'
  BY <1>2, ResAssumption, ThreadAssumption
     DEF Copy, TypeOK, ThreadPCs, JobPCs, Actor, Owner, Others, Acquire, Goto,
         Free
<1>3. ASSUME NEW t \in Thread, NEW r \in Res, Drop(t, r) PROVE TypeOK'
  BY <1>3, ResAssumption, ThreadAssumption
     DEF Drop, TypeOK, ThreadPCs, JobPCs, Actor, Owner, Others, Release,
         AfterRelease, Goto, Free
<1>4. ASSUME NEW t \in Thread, NEW r \in Res, NEW s \in BOOLEAN, StartLoading(t, r, s)
      PROVE TypeOK'
  BY <1>4, ResAssumption, ThreadAssumption
     DEF StartLoading, TypeOK, ThreadPCs, JobPCs, Actor, Owner, Others, Goto,
         Free
<1>5. ASSUME NEW t \in Thread, NEW r \in Res, Instantiate(t, r) PROVE TypeOK'
  BY <1>5, ResAssumption, ThreadAssumption
     DEF Instantiate, TypeOK, ThreadPCs, JobPCs, Actor, Owner, Others, Acquire,
         Create, Goto, Free
<1>6. ASSUME NEW t \in Thread, AcquireForJob(t) PROVE TypeOK'
  BY <1>6, ResAssumption, ThreadAssumption
     DEF AcquireForJob, TypeOK, ThreadPCs, JobPCs, Actor, Owner, Others,
         CallInv, CallPCs, Acquire, Goto
<1>7. ASSUME NEW t \in Thread, PushJob(t) PROVE TypeOK'
  BY <1>7, ResAssumption, ThreadAssumption
     DEF PushJob, TypeOK, ThreadPCs, JobPCs, Actor, Owner, Others, CallInv,
         CallPCs, Goto
<1>8. ASSUME NEW t \in Thread, AssignJob(t) PROVE TypeOK'
  BY <1>8, ResAssumption, ThreadAssumption
     DEF AssignJob, TypeOK, ThreadPCs, JobPCs, Actor, Owner, Others, CallInv,
         CallPCs, Goto
<1>9. ASSUME NEW t \in Thread, CheckJob(t) PROVE TypeOK'
  BY <1>9, ResAssumption, ThreadAssumption
     DEF CheckJob, TypeOK, ThreadPCs, JobPCs, Actor, Owner, Others, CallInv,
         CallPCs, Goto
<1>10. ASSUME NEW t \in Thread, SyncWait(t) PROVE TypeOK'
  BY <1>10, ResAssumption, ThreadAssumption
     DEF SyncWait, TypeOK, ThreadPCs, JobPCs, Actor, Owner, Others, CallInv,
         CallPCs, Goto
<1>11. ASSUME UpdateBegin PROVE TypeOK'
  BY <1>11, ResAssumption, ThreadAssumption
     DEF UpdateBegin, TypeOK, ThreadPCs, JobPCs, Actor, Owner, Others, Goto
<1>12. ASSUME UpdateEnd PROVE TypeOK'
  BY <1>12, ResAssumption, ThreadAssumption
     DEF UpdateEnd, TypeOK, ThreadPCs, JobPCs, Actor, Owner, Others, Goto
<1>13. ASSUME NEW r \in Res, Added(r) PROVE TypeOK'
  BY <1>13, ResAssumption, ThreadAssumption
     DEF Added, TypeOK, ThreadPCs, JobPCs, Actor, Owner, Others, Acquire,
         Create, Goto
<1>14. ASSUME NEW r \in Res, Updated(r) PROVE TypeOK'
  BY <1>14, ResAssumption, ThreadAssumption
     DEF Updated, TypeOK, ThreadPCs, JobPCs, Actor, Owner, Others, Acquire,
         Create, Goto
<1>15. ASSUME Removed PROVE TypeOK'
  BY <1>15, ResAssumption, ThreadAssumption
     DEF Removed, TypeOK, ThreadPCs, JobPCs, Actor, Owner, Others, Goto
<1>16. ASSUME Erase PROVE TypeOK'
  BY <1>16, ResAssumption, ThreadAssumption
     DEF Erase, TypeOK, ThreadPCs, JobPCs, Actor, Owner, Others, EntryInv,
         UpdatePCs, Release, AfterRelease, Goto
<1>17. ASSUME Invalidate PROVE TypeOK'
  BY <1>17, ResAssumption, ThreadAssumption
     DEF Invalidate, TypeOK, ThreadPCs, JobPCs, Actor, Owner, Others, EntryInv,
         UpdatePCs, Goto
<1>18. ASSUME ReplaceRelease PROVE TypeOK'
  BY <1>18, ResAssumption, ThreadAssumption
     DEF ReplaceRelease, TypeOK, ThreadPCs, JobPCs, Actor, Owner, Others,
         EntryInv, UpdatePCs, Release, AfterRelease, Goto
<1>19. ASSUME Replace PROVE TypeOK'
  BY <1>19, ResAssumption, ThreadAssumption
     DEF Replace, TypeOK, ThreadPCs, JobPCs, Actor, Owner, Others, EntryInv,
         UpdatePCs, Goto
<1>20. ASSUME NEW a \in Actor, Reap(a) PROVE TypeOK'
  BY <1>20, ResAssumption, ThreadAssumption
     DEF Reap, TypeOK, ThreadPCs, JobPCs, Actor, Owner, Others, ReapInv,
         ReapPCs, Goto
<1>21. ASSUME NEW a \in Actor, ReapWait(a) PROVE TypeOK'
  BY <1>21, ResAssumption, ThreadAssumption
     DEF ReapWait, TypeOK, ThreadPCs, JobPCs, Actor, Owner, Others, ReapInv,
         ReapPCs, Goto
<1>22. ASSUME NEW a \in Actor, Destroy(a) PROVE TypeOK'
  BY <1>22, ResAssumption, ThreadAssumption
     DEF Destroy, TypeOK, ThreadPCs, JobPCs, Actor, Owner, Others, ReapInv,
         ReapPCs, AfterRelease, Goto
<1>23. ASSUME NEW r \in Res, JobCreate(r) PROVE TypeOK'
  BY <1>23, ResAssumption, ThreadAssumption
     DEF JobCreate, TypeOK, ThreadPCs, JobPCs, Actor, Owner, Others, Goto
<1>24. ASSUME NEW r \in Res, JobLoad(r) PROVE TypeOK'
  BY <1>24, ResAssumption, ThreadAssumption
     DEF JobLoad, TypeOK, ThreadPCs, JobPCs, Actor, Owner, Others, Goto
<1>25. ASSUME NEW r \in Res, JobStore(r) PROVE TypeOK'
  BY <1>25, ResAssumption, ThreadAssumption
     DEF JobStore, TypeOK, ThreadPCs, JobPCs, Actor, Owner, Others, Goto
<1>26. ASSUME NEW r \in Res, JobRelease(r) PROVE TypeOK'
  BY <1>26, ResAssumption, ThreadAssumption
     DEF JobRelease, TypeOK, ThreadPCs, JobPCs, Actor, Owner, Others, Release,
         AfterRelease, Goto
<1>27. CASE UNCHANGED vars
  BY <1>27 DEF vars, TypeOK, ThreadPCs, JobPCs, Actor, Owner, Others
<1> QED
  BY <1>1, <1>2, <1>3, <1>4, <1>5, <1>6, <1>7, <1>8, <1>9, <1>10, <1>11, <1>12,
     <1>13, <1>14, <1>15, <1>16, <1>17, <1>18, <1>19, <1>20, <1>21, <1>22,
     <1>23, <1>24, <1>25, <1>26, <1>27
     DEF Next, ThreadStep, ThreadCall, UpdateStep, UpdateCall, ReleaseStep, JobStep

\* What was not created stays untouched until it is created.
LEMMA UnbornStep ==
  ASSUME TypeOK, UnbornInv, OwnedInv, CallInv, StartInv, UnloadedInv, JobInv,
         ReapInv, EntryInv, FreshInv, [Next]_vars
  PROVE  UnbornInv'
<1>1. ASSUME NEW t \in Thread, Get(t) PROVE UnbornInv'
  BY <1>1, ResAssumption, ThreadAssumption
     DEF Get, UnbornInv, TypeOK, ThreadPCs, JobPCs, Actor, EntryInv, UpdatePCs,
         Acquire, Goto
<1>2. ASSUME NEW t \in Thread, NEW u \in Thread, NEW r \in Res, Copy(t, u, r)
      PROVE UnbornInv'
  BY <1>2, ResAssumption, ThreadAssumption
     DEF Copy, UnbornInv, TypeOK, ThreadPCs, JobPCs, Actor, Acquire, Goto, Free
<1>3. ASSUME NEW t \in Thread, NEW r \in Res, Drop(t, r) PROVE UnbornInv'
  BY <1>3, ResAssumption, ThreadAssumption
     DEF Drop, UnbornInv, TypeOK, ThreadPCs, JobPCs, Actor, Release,
         AfterRelease, Goto, Free
<1>4. ASSUME NEW t \in Thread, NEW r \in Res, NEW s \in BOOLEAN, StartLoading(t, r, s)
      PROVE UnbornInv'
  BY <1>4, ResAssumption, ThreadAssumption
     DEF StartLoading, UnbornInv, TypeOK, ThreadPCs, JobPCs, Actor, Goto, Free
<1>5. ASSUME NEW t \in Thread, NEW r \in Res, Instantiate(t, r) PROVE UnbornInv'
  BY <1>5, ResAssumption, ThreadAssumption
     DEF Instantiate, UnbornInv, TypeOK, ThreadPCs, JobPCs, Actor, Acquire,
         Create, Goto, Free
<1>6. ASSUME NEW t \in Thread, AcquireForJob(t) PROVE UnbornInv'
  BY <1>6, ResAssumption, ThreadAssumption
     DEF AcquireForJob, UnbornInv, TypeOK, ThreadPCs, JobPCs, Actor, CallInv,
         CallPCs, Acquire, Goto
<1>7. ASSUME NEW t \in Thread, PushJob(t) PROVE UnbornInv'
  BY <1>7, ResAssumption, ThreadAssumption
     DEF PushJob, UnbornInv, TypeOK, ThreadPCs, JobPCs, Actor, CallInv, CallPCs,
         Goto
<1>8. ASSUME NEW t \in Thread, AssignJob(t) PROVE UnbornInv'
  BY <1>8, ResAssumption, ThreadAssumption
     DEF AssignJob, UnbornInv, TypeOK, ThreadPCs, JobPCs, Actor, CallInv,
         CallPCs, Goto
<1>9. ASSUME NEW t \in Thread, CheckJob(t) PROVE UnbornInv'
  BY <1>9, ResAssumption, ThreadAssumption
     DEF CheckJob, UnbornInv, TypeOK, ThreadPCs, JobPCs, Actor, CallInv,
         CallPCs, Goto
<1>10. ASSUME NEW t \in Thread, SyncWait(t) PROVE UnbornInv'
  BY <1>10, ResAssumption, ThreadAssumption
     DEF SyncWait, UnbornInv, TypeOK, ThreadPCs, JobPCs, Actor, CallInv,
         CallPCs, Goto
<1>11. ASSUME UpdateBegin PROVE UnbornInv'
  BY <1>11, ResAssumption, ThreadAssumption
     DEF UpdateBegin, UnbornInv, TypeOK, ThreadPCs, JobPCs, Actor, Goto
<1>12. ASSUME UpdateEnd PROVE UnbornInv'
  BY <1>12, ResAssumption, ThreadAssumption
     DEF UpdateEnd, UnbornInv, TypeOK, ThreadPCs, JobPCs, Actor, Goto
<1>13. ASSUME NEW r \in Res, Added(r) PROVE UnbornInv'
  BY <1>13, ResAssumption, ThreadAssumption
     DEF Added, UnbornInv, TypeOK, ThreadPCs, JobPCs, Actor, Acquire, Create,
         Goto
<1>14. ASSUME NEW r \in Res, Updated(r) PROVE UnbornInv'
  BY <1>14, ResAssumption, ThreadAssumption
     DEF Updated, UnbornInv, TypeOK, ThreadPCs, JobPCs, Actor, Acquire, Create,
         Goto
<1>15. ASSUME Removed PROVE UnbornInv'
  BY <1>15, ResAssumption, ThreadAssumption
     DEF Removed, UnbornInv, TypeOK, ThreadPCs, JobPCs, Actor, EntryInv,
         UpdatePCs, FreshInv, ReapPCs, Goto
<1>16. ASSUME Erase PROVE UnbornInv'
  BY <1>16, ResAssumption, ThreadAssumption
     DEF Erase, UnbornInv, TypeOK, ThreadPCs, JobPCs, Actor, EntryInv,
         UpdatePCs, Release, AfterRelease, Goto
<1>17. ASSUME Invalidate PROVE UnbornInv'
  BY <1>17, ResAssumption, ThreadAssumption
     DEF Invalidate, UnbornInv, TypeOK, ThreadPCs, JobPCs, Actor, EntryInv,
         UpdatePCs, Goto
<1>18. ASSUME ReplaceRelease PROVE UnbornInv'
  BY <1>18, ResAssumption, ThreadAssumption
     DEF ReplaceRelease, UnbornInv, TypeOK, ThreadPCs, JobPCs, Actor, EntryInv,
         UpdatePCs, Release, AfterRelease, Goto
<1>19. ASSUME Replace PROVE UnbornInv'
  BY <1>19, ResAssumption, ThreadAssumption
     DEF Replace, UnbornInv, TypeOK, ThreadPCs, JobPCs, Actor, EntryInv,
         UpdatePCs, FreshInv, Goto
<1>20. ASSUME NEW a \in Actor, Reap(a) PROVE UnbornInv'
  BY <1>20, ResAssumption, ThreadAssumption
     DEF Reap, UnbornInv, TypeOK, ThreadPCs, JobPCs, Actor, ReapInv, ReapPCs,
         Goto
<1>21. ASSUME NEW a \in Actor, ReapWait(a) PROVE UnbornInv'
  BY <1>21, ResAssumption, ThreadAssumption
     DEF ReapWait, UnbornInv, TypeOK, ThreadPCs, JobPCs, Actor, ReapInv,
         ReapPCs, Goto
<1>22. ASSUME NEW a \in Actor, Destroy(a) PROVE UnbornInv'
  BY <1>22, ResAssumption, ThreadAssumption
     DEF Destroy, UnbornInv, TypeOK, ThreadPCs, JobPCs, Actor, ReapInv, ReapPCs,
         AfterRelease, Goto
<1>23. ASSUME NEW r \in Res, JobCreate(r) PROVE UnbornInv'
  BY <1>23, ResAssumption, ThreadAssumption
     DEF JobCreate, UnbornInv, TypeOK, ThreadPCs, JobPCs, Actor, Goto
<1>24. ASSUME NEW r \in Res, JobLoad(r) PROVE UnbornInv'
  BY <1>24, ResAssumption, ThreadAssumption
     DEF JobLoad, UnbornInv, TypeOK, ThreadPCs, JobPCs, Actor, Goto
<1>25. ASSUME NEW r \in Res, JobStore(r) PROVE UnbornInv'
  BY <1>25, ResAssumption, ThreadAssumption
     DEF JobStore, UnbornInv, TypeOK, ThreadPCs, JobPCs, Actor, Goto
<1>26. ASSUME NEW r \in Res, JobRelease(r) PROVE UnbornInv'
  BY <1>26, ResAssumption, ThreadAssumption
     DEF JobRelease, UnbornInv, TypeOK, ThreadPCs, JobPCs, Actor, Release,
         AfterRelease, Goto
<1>27. CASE UNCHANGED vars
  BY <1>27 DEF vars, UnbornInv, TypeOK, ThreadPCs, JobPCs, Actor
<1> QED
  BY <1>1, <1>2, <1>3, <1>4, <1>5, <1>6, <1>7, <1>8, <1>9, <1>10, <1>11, <1>12,
     <1>13, <1>14, <1>15, <1>16, <1>17, <1>18, <1>19, <1>20, <1>21, <1>22,
     <1>23, <1>24, <1>25, <1>26, <1>27
     DEF Next, ThreadStep, ThreadCall, UpdateStep, UpdateCall, ReleaseStep, JobStep

\* Nobody takes a pointer to a deleted resource.
LEMMA OwnedStep ==
  ASSUME TypeOK, UnbornInv, OwnedInv, CallInv, StartInv, UnloadedInv, JobInv,
         ReapInv, EntryInv, FreshInv, [Next]_vars
  PROVE  OwnedInv'
<1>1. ASSUME NEW t \in Thread, Get(t) PROVE OwnedInv'
  BY <1>1, ResAssumption, ThreadAssumption
     DEF Get, OwnedInv, TypeOK, ThreadPCs, JobPCs, Actor, EntryInv, UpdatePCs,
         Acquire, Goto
<1>2. ASSUME NEW t \in Thread, NEW u \in Thread, NEW r \in Res, Copy(t, u, r)
      PROVE OwnedInv'
  BY <1>2, ResAssumption, ThreadAssumption
     DEF Copy, OwnedInv, TypeOK, ThreadPCs, JobPCs, Actor, Acquire, Goto, Free
<1>3. ASSUME NEW t \in Thread, NEW r \in Res, Drop(t, r) PROVE OwnedInv'
  BY <1>3, ResAssumption, ThreadAssumption
     DEF Drop, OwnedInv, TypeOK, ThreadPCs, JobPCs, Actor, Release,
         AfterRelease, Goto, Free
<1>4. ASSUME NEW t \in Thread, NEW r \in Res, NEW s \in BOOLEAN, StartLoading(t, r, s)
      PROVE OwnedInv'
  BY <1>4, ResAssumption, ThreadAssumption
     DEF StartLoading, OwnedInv, TypeOK, ThreadPCs, JobPCs, Actor, Goto, Free
<1>5. ASSUME NEW t \in Thread, NEW r \in Res, Instantiate(t, r) PROVE OwnedInv'
  BY <1>5, ResAssumption, ThreadAssumption
     DEF Instantiate, OwnedInv, TypeOK, ThreadPCs, JobPCs, Actor, UnbornInv,
         Acquire, Create, Goto, Free
<1>6. ASSUME NEW t \in Thread, AcquireForJob(t) PROVE OwnedInv'
  BY <1>6, ResAssumption, ThreadAssumption
     DEF AcquireForJob, OwnedInv, TypeOK, ThreadPCs, JobPCs, Actor, CallInv,
         CallPCs, StartInv, StartPCs, Acquire, Goto
<1>7. ASSUME NEW t \in Thread, PushJob(t) PROVE OwnedInv'
  BY <1>7, ResAssumption, ThreadAssumption
     DEF PushJob, OwnedInv, TypeOK, ThreadPCs, JobPCs, Actor, CallInv, CallPCs,
         Goto
<1>8. ASSUME NEW t \in Thread, AssignJob(t) PROVE OwnedInv'
  BY <1>8, ResAssumption, ThreadAssumption
     DEF AssignJob, OwnedInv, TypeOK, ThreadPCs, JobPCs, Actor, CallInv,
         CallPCs, Goto
<1>9. ASSUME NEW t \in Thread, CheckJob(t) PROVE OwnedInv'
  BY <1>9, ResAssumption, ThreadAssumption
     DEF CheckJob, OwnedInv, TypeOK, ThreadPCs, JobPCs, Actor, CallInv, CallPCs,
         Goto
<1>10. ASSUME NEW t \in Thread, SyncWait(t) PROVE OwnedInv'
  BY <1>10, ResAssumption, ThreadAssumption
     DEF SyncWait, OwnedInv, TypeOK, ThreadPCs, JobPCs, Actor, CallInv, CallPCs,
         Goto
<1>11. ASSUME UpdateBegin PROVE OwnedInv'
  BY <1>11, ResAssumption, ThreadAssumption
     DEF UpdateBegin, OwnedInv, TypeOK, ThreadPCs, JobPCs, Actor, Goto
<1>12. ASSUME UpdateEnd PROVE OwnedInv'
  BY <1>12, ResAssumption, ThreadAssumption
     DEF UpdateEnd, OwnedInv, TypeOK, ThreadPCs, JobPCs, Actor, Goto
<1>13. ASSUME NEW r \in Res, Added(r) PROVE OwnedInv'
  BY <1>13, ResAssumption, ThreadAssumption
     DEF Added, OwnedInv, TypeOK, ThreadPCs, JobPCs, Actor, UnbornInv, Acquire,
         Create, Goto
<1>14. ASSUME NEW r \in Res, Updated(r) PROVE OwnedInv'
  BY <1>14, ResAssumption, ThreadAssumption
     DEF Updated, OwnedInv, TypeOK, ThreadPCs, JobPCs, Actor, UnbornInv,
         Acquire, Create, Goto
<1>15. ASSUME Removed PROVE OwnedInv'
  BY <1>15, ResAssumption, ThreadAssumption
     DEF Removed, OwnedInv, TypeOK, ThreadPCs, JobPCs, Actor, Goto
<1>16. ASSUME Erase PROVE OwnedInv'
  BY <1>16, ResAssumption, ThreadAssumption
     DEF Erase, OwnedInv, TypeOK, ThreadPCs, JobPCs, Actor, EntryInv, UpdatePCs,
         Release, AfterRelease, Goto
<1>17. ASSUME Invalidate PROVE OwnedInv'
  BY <1>17, ResAssumption, ThreadAssumption
     DEF Invalidate, OwnedInv, TypeOK, ThreadPCs, JobPCs, Actor, EntryInv,
         UpdatePCs, Goto
<1>18. ASSUME ReplaceRelease PROVE OwnedInv'
  BY <1>18, ResAssumption, ThreadAssumption
     DEF ReplaceRelease, OwnedInv, TypeOK, ThreadPCs, JobPCs, Actor, EntryInv,
         UpdatePCs, Release, AfterRelease, Goto
<1>19. ASSUME Replace PROVE OwnedInv'
  BY <1>19, ResAssumption, ThreadAssumption
     DEF Replace, OwnedInv, TypeOK, ThreadPCs, JobPCs, Actor, EntryInv,
         UpdatePCs, FreshInv, Goto
<1>20. ASSUME NEW a \in Actor, Reap(a) PROVE OwnedInv'
  BY <1>20, ResAssumption, ThreadAssumption
     DEF Reap, OwnedInv, TypeOK, ThreadPCs, JobPCs, Actor, ReapInv, ReapPCs,
         Goto
<1>21. ASSUME NEW a \in Actor, ReapWait(a) PROVE OwnedInv'
  BY <1>21, ResAssumption, ThreadAssumption
     DEF ReapWait, OwnedInv, TypeOK, ThreadPCs, JobPCs, Actor, ReapInv, ReapPCs,
         Goto
<1>22. ASSUME NEW a \in Actor, Destroy(a) PROVE OwnedInv'
  BY <1>22, ResAssumption, ThreadAssumption
     DEF Destroy, OwnedInv, TypeOK, ThreadPCs, JobPCs, Actor, ReapInv, ReapPCs,
         AfterRelease, Goto
<1>23. ASSUME NEW r \in Res, JobCreate(r) PROVE OwnedInv'
  BY <1>23, ResAssumption, ThreadAssumption
     DEF JobCreate, OwnedInv, TypeOK, ThreadPCs, JobPCs, Actor, Goto
<1>24. ASSUME NEW r \in Res, JobLoad(r) PROVE OwnedInv'
  BY <1>24, ResAssumption, ThreadAssumption
     DEF JobLoad, OwnedInv, TypeOK, ThreadPCs, JobPCs, Actor, Goto
<1>25. ASSUME NEW r \in Res, JobStore(r) PROVE OwnedInv'
  BY <1>25, ResAssumption, ThreadAssumption
     DEF JobStore, OwnedInv, TypeOK, ThreadPCs, JobPCs, Actor, Goto
<1>26. ASSUME NEW r \in Res, JobRelease(r) PROVE OwnedInv'
  BY <1>26, ResAssumption, ThreadAssumption
     DEF JobRelease, OwnedInv, TypeOK, ThreadPCs, JobPCs, Actor, Release,
         AfterRelease, Goto
<1>27. CASE UNCHANGED vars
  BY <1>27 DEF vars, OwnedInv, TypeOK, ThreadPCs, JobPCs, Actor
<1> QED
  BY <1>1, <1>2, <1>3, <1>4, <1>5, <1>6, <1>7, <1>8, <1>9, <1>10, <1>11, <1>12,
     <1>13, <1>14, <1>15, <1>16, <1>17, <1>18, <1>19, <1>20, <1>21, <1>22,
     <1>23, <1>24, <1>25, <1>26, <1>27
     DEF Next, ThreadStep, ThreadCall, UpdateStep, UpdateCall, ReleaseStep, JobStep

\* A thread inside a load call keeps its pointer.
LEMMA CallStep ==
  ASSUME TypeOK, UnbornInv, OwnedInv, CallInv, StartInv, UnloadedInv, JobInv,
         ReapInv, EntryInv, FreshInv, [Next]_vars
  PROVE  CallInv'
<1>1. ASSUME NEW t \in Thread, Get(t) PROVE CallInv'
  BY <1>1, ResAssumption, ThreadAssumption
     DEF Get, CallInv, CallPCs, Owner, Others, TypeOK, ThreadPCs, JobPCs, Actor,
         Acquire, Goto
<1>2. ASSUME NEW t \in Thread, NEW u \in Thread, NEW r \in Res, Copy(t, u, r)
      PROVE CallInv'
  BY <1>2, ResAssumption, ThreadAssumption
     DEF Copy, CallInv, CallPCs, Owner, Others, TypeOK, ThreadPCs, JobPCs,
         Actor, Acquire, Goto, Free
<1>3. ASSUME NEW t \in Thread, NEW r \in Res, Drop(t, r) PROVE CallInv'
  BY <1>3, ResAssumption, ThreadAssumption
     DEF Drop, CallInv, CallPCs, Owner, Others, TypeOK, ThreadPCs, JobPCs,
         Actor, Release, AfterRelease, Goto, Free
<1>4. ASSUME NEW t \in Thread, NEW r \in Res, NEW s \in BOOLEAN, StartLoading(t, r, s)
      PROVE CallInv'
  BY <1>4, ResAssumption, ThreadAssumption
     DEF StartLoading, CallInv, CallPCs, Owner, Others, TypeOK, ThreadPCs,
         JobPCs, Actor, Goto, Free
<1>5. ASSUME NEW t \in Thread, NEW r \in Res, Instantiate(t, r) PROVE CallInv'
  BY <1>5, ResAssumption, ThreadAssumption
     DEF Instantiate, CallInv, CallPCs, Owner, Others, TypeOK, ThreadPCs,
         JobPCs, Actor, Acquire, Create, Goto, Free
<1>6. ASSUME NEW t \in Thread, AcquireForJob(t) PROVE CallInv'
  BY <1>6, ResAssumption, ThreadAssumption
     DEF AcquireForJob, CallInv, CallPCs, Owner, Others, TypeOK, ThreadPCs,
         JobPCs, Actor, Acquire, Goto
<1>7. ASSUME NEW t \in Thread, PushJob(t) PROVE CallInv'
  BY <1>7, ResAssumption, ThreadAssumption
     DEF PushJob, CallInv, CallPCs, Owner, Others, TypeOK, ThreadPCs, JobPCs,
         Actor, Goto
<1>8. ASSUME NEW t \in Thread, AssignJob(t) PROVE CallInv'
  BY <1>8, ResAssumption, ThreadAssumption
     DEF AssignJob, CallInv, CallPCs, Owner, Others, TypeOK, ThreadPCs, JobPCs,
         Actor, Goto
<1>9. ASSUME NEW t \in Thread, CheckJob(t) PROVE CallInv'
  BY <1>9, ResAssumption, ThreadAssumption
     DEF CheckJob, CallInv, CallPCs, Owner, Others, TypeOK, ThreadPCs, JobPCs,
         Actor, Goto
<1>10. ASSUME NEW t \in Thread, SyncWait(t) PROVE CallInv'
  BY <1>10, ResAssumption, ThreadAssumption
     DEF SyncWait, CallInv, CallPCs, Owner, Others, TypeOK, ThreadPCs, JobPCs,
         Actor, Goto
<1>11. ASSUME UpdateBegin PROVE CallInv'
  BY <1>11, ResAssumption, ThreadAssumption
     DEF UpdateBegin, CallInv, CallPCs, Owner, Others, TypeOK, ThreadPCs,
         JobPCs, Actor, Goto
<1>12. ASSUME UpdateEnd PROVE CallInv'
  BY <1>12, ResAssumption, ThreadAssumption
     DEF UpdateEnd, CallInv, CallPCs, Owner, Others, TypeOK, ThreadPCs, JobPCs,
         Actor, Goto
<1>13. ASSUME NEW r \in Res, Added(r) PROVE CallInv'
  BY <1>13, ResAssumption, ThreadAssumption
     DEF Added, CallInv, CallPCs, Owner, Others, TypeOK, ThreadPCs, JobPCs,
         Actor, Acquire, Create, Goto
<1>14. ASSUME NEW r \in Res, Updated(r) PROVE CallInv'
  BY <1>14, ResAssumption, ThreadAssumption
     DEF Updated, CallInv, CallPCs, Owner, Others, TypeOK, ThreadPCs, JobPCs,
         Actor, Acquire, Create, Goto
<1>15. ASSUME Removed PROVE CallInv'
  BY <1>15, ResAssumption, ThreadAssumption
     DEF Removed, CallInv, CallPCs, Owner, Others, TypeOK, ThreadPCs, JobPCs,
         Actor, Goto
<1>16. ASSUME Erase PROVE CallInv'
  BY <1>16, ResAssumption, ThreadAssumption
     DEF Erase, CallInv, CallPCs, Owner, Others, TypeOK, ThreadPCs, JobPCs,
         Actor, EntryInv, UpdatePCs, Release, AfterRelease, Goto
<1>17. ASSUME Invalidate PROVE CallInv'
  BY <1>17, ResAssumption, ThreadAssumption
     DEF Invalidate, CallInv, CallPCs, Owner, Others, TypeOK, ThreadPCs, JobPCs,
         Actor, EntryInv, UpdatePCs, Goto
<1>18. ASSUME ReplaceRelease PROVE CallInv'
  BY <1>18, ResAssumption, ThreadAssumption
     DEF ReplaceRelease, CallInv, CallPCs, Owner, Others, TypeOK, ThreadPCs,
         JobPCs, Actor, EntryInv, UpdatePCs, Release, AfterRelease, Goto
<1>19. ASSUME Replace PROVE CallInv'
  BY <1>19, ResAssumption, ThreadAssumption
     DEF Replace, CallInv, CallPCs, Owner, Others, TypeOK, ThreadPCs, JobPCs,
         Actor, EntryInv, UpdatePCs, FreshInv, Goto
<1>20. ASSUME NEW a \in Actor, Reap(a) PROVE CallInv'
  BY <1>20, ResAssumption, ThreadAssumption
     DEF Reap, CallInv, CallPCs, Owner, Others, TypeOK, ThreadPCs, JobPCs,
         Actor, ReapInv, ReapPCs, Goto
<1>21. ASSUME NEW a \in Actor, ReapWait(a) PROVE CallInv'
  BY <1>21, ResAssumption, ThreadAssumption
     DEF ReapWait, CallInv, CallPCs, Owner, Others, TypeOK, ThreadPCs, JobPCs,
         Actor, ReapInv, ReapPCs, Goto
<1>22. ASSUME NEW a \in Actor, Destroy(a) PROVE CallInv'
  BY <1>22, ResAssumption, ThreadAssumption
     DEF Destroy, CallInv, CallPCs, Owner, Others, TypeOK, ThreadPCs, JobPCs,
         Actor, ReapInv, ReapPCs, AfterRelease, Goto
<1>23. ASSUME NEW r \in Res, JobCreate(r) PROVE CallInv'
  BY <1>23, ResAssumption, ThreadAssumption
     DEF JobCreate, CallInv, CallPCs, Owner, Others, TypeOK, ThreadPCs, JobPCs,
         Actor, Goto
<1>24. ASSUME NEW r \in Res, JobLoad(r) PROVE CallInv'
  BY <1>24, ResAssumption, ThreadAssumption
     DEF JobLoad, CallInv, CallPCs, Owner, Others, TypeOK, ThreadPCs, JobPCs,
         Actor, Goto
<1>25. ASSUME NEW r \in Res, JobStore(r) PROVE CallInv'
  BY <1>25, ResAssumption, ThreadAssumption
     DEF JobStore, CallInv, CallPCs, Owner, Others, TypeOK, ThreadPCs, JobPCs,
         Actor, Goto
<1>26. ASSUME NEW r \in Res, JobRelease(r) PROVE CallInv'
  BY <1>26, ResAssumption, ThreadAssumption
     DEF JobRelease, CallInv, CallPCs, Owner, Others, TypeOK, ThreadPCs, JobPCs,
         Actor, Release, AfterRelease, Goto
<1>27. CASE UNCHANGED vars
  BY <1>27
     DEF vars, CallInv, CallPCs, Owner, Others, TypeOK, ThreadPCs, JobPCs, Actor
<1> QED
  BY <1>1, <1>2, <1>3, <1>4, <1>5, <1>6, <1>7, <1>8, <1>9, <1>10, <1>11, <1>12,
     <1>13, <1>14, <1>15, <1>16, <1>17, <1>18, <1>19, <1>20, <1>21, <1>22,
     <1>23, <1>24, <1>25, <1>26, <1>27
     DEF Next, ThreadStep, ThreadCall, UpdateStep, UpdateCall, ReleaseStep, JobStep

\* Whoever starts a load stays alone with it.
LEMMA StartStep ==
  ASSUME TypeOK, UnbornInv, OwnedInv, CallInv, StartInv, UnloadedInv, JobInv,
         ReapInv, EntryInv, FreshInv, [Next]_vars
  PROVE  StartInv'
<1>1. ASSUME NEW t \in Thread, Get(t) PROVE StartInv'
  BY <1>1, ResAssumption, ThreadAssumption
     DEF Get, StartInv, StartPCs, CallInv, CallPCs, Owner, Others, TypeOK,
         ThreadPCs, JobPCs, Actor, Acquire, Goto
<1>2. ASSUME NEW t \in Thread, NEW u \in Thread, NEW r \in Res, Copy(t, u, r)
      PROVE StartInv'
  BY <1>2, ResAssumption, ThreadAssumption
     DEF Copy, StartInv, StartPCs, CallInv, CallPCs, Owner, Others, TypeOK,
         ThreadPCs, JobPCs, Actor, Acquire, Goto, Free
<1>3. ASSUME NEW t \in Thread, NEW r \in Res, Drop(t, r) PROVE StartInv'
  BY <1>3, ResAssumption, ThreadAssumption
     DEF Drop, StartInv, StartPCs, CallInv, CallPCs, Owner, Others, TypeOK,
         ThreadPCs, JobPCs, Actor, Release, AfterRelease, Goto, Free
<1>4. ASSUME NEW t \in Thread, NEW r \in Res, NEW s \in BOOLEAN, StartLoading(t, r, s)
      PROVE StartInv'
  BY <1>4, ResAssumption, ThreadAssumption
     DEF StartLoading, StartInv, StartPCs, CallInv, CallPCs, Owner, Others,
         TypeOK, ThreadPCs, JobPCs, Actor, UnloadedInv, Goto, Free
<1>5. ASSUME NEW t \in Thread, NEW r \in Res, Instantiate(t, r) PROVE StartInv'
  BY <1>5, ResAssumption, ThreadAssumption
     DEF Instantiate, StartInv, StartPCs, CallInv, CallPCs, Owner, Others,
         TypeOK, ThreadPCs, JobPCs, Actor, UnbornInv, Acquire, Create, Goto,
         Free
<1>6. ASSUME NEW t \in Thread, AcquireForJob(t) PROVE StartInv'
  BY <1>6, ResAssumption, ThreadAssumption
     DEF AcquireForJob, StartInv, StartPCs, CallInv, CallPCs, Owner, Others,
         TypeOK, ThreadPCs, JobPCs, Actor, Acquire, Goto
<1>7. ASSUME NEW t \in Thread, PushJob(t) PROVE StartInv'
  BY <1>7, ResAssumption, ThreadAssumption
     DEF PushJob, StartInv, StartPCs, CallInv, CallPCs, Owner, Others, TypeOK,
         ThreadPCs, JobPCs, Actor, Goto
<1>8. ASSUME NEW t \in Thread, AssignJob(t) PROVE StartInv'
  BY <1>8, ResAssumption, ThreadAssumption
     DEF AssignJob, StartInv, StartPCs, CallInv, CallPCs, Owner, Others, TypeOK,
         ThreadPCs, JobPCs, Actor, Goto
<1>9. ASSUME NEW t \in Thread, CheckJob(t) PROVE StartInv'
  BY <1>9, ResAssumption, ThreadAssumption
     DEF CheckJob, StartInv, StartPCs, CallInv, CallPCs, Owner, Others, TypeOK,
         ThreadPCs, JobPCs, Actor, Goto
<1>10. ASSUME NEW t \in Thread, SyncWait(t) PROVE StartInv'
  BY <1>10, ResAssumption, ThreadAssumption
     DEF SyncWait, StartInv, StartPCs, CallInv, CallPCs, Owner, Others, TypeOK,
         ThreadPCs, JobPCs, Actor, Goto
<1>11. ASSUME UpdateBegin PROVE StartInv'
  BY <1>11, ResAssumption, ThreadAssumption
     DEF UpdateBegin, StartInv, StartPCs, CallInv, CallPCs, Owner, Others,
         TypeOK, ThreadPCs, JobPCs, Actor, Goto
<1>12. ASSUME UpdateEnd PROVE StartInv'
  BY <1>12, ResAssumption, ThreadAssumption
     DEF UpdateEnd, StartInv, StartPCs, CallInv, CallPCs, Owner, Others, TypeOK,
         ThreadPCs, JobPCs, Actor, Goto
<1>13. ASSUME NEW r \in Res, Added(r) PROVE StartInv'
  BY <1>13, ResAssumption, ThreadAssumption
     DEF Added, StartInv, StartPCs, CallInv, CallPCs, Owner, Others, TypeOK,
         ThreadPCs, JobPCs, Actor, UnbornInv, Acquire, Create, Goto
<1>14. ASSUME NEW r \in Res, Updated(r) PROVE StartInv'
  BY <1>14, ResAssumption, ThreadAssumption
     DEF Updated, StartInv, StartPCs, CallInv, CallPCs, Owner, Others, TypeOK,
         ThreadPCs, JobPCs, Actor, UnbornInv, Acquire, Create, Goto
<1>15. ASSUME Removed PROVE StartInv'
  BY <1>15, ResAssumption, ThreadAssumption
     DEF Removed, StartInv, StartPCs, CallInv, CallPCs, Owner, Others, TypeOK,
         ThreadPCs, JobPCs, Actor, Goto
<1>16. ASSUME Erase PROVE StartInv'
  BY <1>16, ResAssumption, ThreadAssumption
     DEF Erase, StartInv, StartPCs, CallInv, CallPCs, Owner, Others, TypeOK,
         ThreadPCs, JobPCs, Actor, EntryInv, UpdatePCs, Release, AfterRelease,
         Goto
<1>17. ASSUME Invalidate PROVE StartInv'
  BY <1>17, ResAssumption, ThreadAssumption
     DEF Invalidate, StartInv, StartPCs, CallInv, CallPCs, Owner, Others,
         TypeOK, ThreadPCs, JobPCs, Actor, EntryInv, UpdatePCs, Goto
<1>18. ASSUME ReplaceRelease PROVE StartInv'
  BY <1>18, ResAssumption, ThreadAssumption
     DEF ReplaceRelease, StartInv, StartPCs, CallInv, CallPCs, Owner, Others,
         TypeOK, ThreadPCs, JobPCs, Actor, EntryInv, UpdatePCs, Release,
         AfterRelease, Goto
<1>19. ASSUME Replace PROVE StartInv'
  BY <1>19, ResAssumption, ThreadAssumption
     DEF Replace, StartInv, StartPCs, CallInv, CallPCs, Owner, Others, TypeOK,
         ThreadPCs, JobPCs, Actor, EntryInv, UpdatePCs, FreshInv, Goto
<1>20. ASSUME NEW a \in Actor, Reap(a) PROVE StartInv'
  BY <1>20, ResAssumption, ThreadAssumption
     DEF Reap, StartInv, StartPCs, CallInv, CallPCs, Owner, Others, TypeOK,
         ThreadPCs, JobPCs, Actor, ReapInv, ReapPCs, Goto
<1>21. ASSUME NEW a \in Actor, ReapWait(a) PROVE StartInv'
  BY <1>21, ResAssumption, ThreadAssumption
     DEF ReapWait, StartInv, StartPCs, CallInv, CallPCs, Owner, Others, TypeOK,
         ThreadPCs, JobPCs, Actor, ReapInv, ReapPCs, Goto
<1>22. ASSUME NEW a \in Actor, Destroy(a) PROVE StartInv'
  BY <1>22, ResAssumption, ThreadAssumption
     DEF Destroy, StartInv, StartPCs, CallInv, CallPCs, Owner, Others, TypeOK,
         ThreadPCs, JobPCs, Actor, ReapInv, ReapPCs, AfterRelease, Goto
<1>23. ASSUME NEW r \in Res, JobCreate(r) PROVE StartInv'
  BY <1>23, ResAssumption, ThreadAssumption
     DEF JobCreate, StartInv, StartPCs, CallInv, CallPCs, Owner, Others, TypeOK,
         ThreadPCs, JobPCs, Actor, JobInv, RunPCs, Goto
<1>24. ASSUME NEW r \in Res, JobLoad(r) PROVE StartInv'
  BY <1>24, ResAssumption, ThreadAssumption
     DEF JobLoad, StartInv, StartPCs, CallInv, CallPCs, Owner, Others, TypeOK,
         ThreadPCs, JobPCs, Actor, JobInv, RunPCs, Goto
<1>25. ASSUME NEW r \in Res, JobStore(r) PROVE StartInv'
  BY <1>25, ResAssumption, ThreadAssumption
     DEF JobStore, StartInv, StartPCs, CallInv, CallPCs, Owner, Others, TypeOK,
         ThreadPCs, JobPCs, Actor, Goto
<1>26. ASSUME NEW r \in Res, JobRelease(r) PROVE StartInv'
  BY <1>26, ResAssumption, ThreadAssumption
     DEF JobRelease, StartInv, StartPCs, CallInv, CallPCs, Owner, Others,
         TypeOK, ThreadPCs, JobPCs, Actor, JobInv, RunPCs, Release,
         AfterRelease, Goto
<1>27. CASE UNCHANGED vars
  BY <1>27
     DEF vars, StartInv, StartPCs, CallInv, CallPCs, Owner, Others, TypeOK,
         ThreadPCs, JobPCs, Actor
<1> QED
  BY <1>1, <1>2, <1>3, <1>4, <1>5, <1>6, <1>7, <1>8, <1>9, <1>10, <1>11, <1>12,
     <1>13, <1>14, <1>15, <1>16, <1>17, <1>18, <1>19, <1>20, <1>21, <1>22,
     <1>23, <1>24, <1>25, <1>26, <1>27
     DEF Next, ThreadStep, ThreadCall, UpdateStep, UpdateCall, ReleaseStep, JobStep

\* What is not loaded has no job.
LEMMA UnloadedStep ==
  ASSUME TypeOK, UnbornInv, OwnedInv, CallInv, StartInv, UnloadedInv, JobInv,
         ReapInv, EntryInv, FreshInv, [Next]_vars
  PROVE  UnloadedInv'
<1>1. ASSUME NEW t \in Thread, Get(t) PROVE UnloadedInv'
  BY <1>1, ResAssumption, ThreadAssumption
     DEF Get, UnloadedInv, TypeOK, ThreadPCs, JobPCs, Actor, Others, Acquire,
         Goto
<1>2. ASSUME NEW t \in Thread, NEW u \in Thread, NEW r \in Res, Copy(t, u, r)
      PROVE UnloadedInv'
  BY <1>2, ResAssumption, ThreadAssumption
     DEF Copy, UnloadedInv, TypeOK, ThreadPCs, JobPCs, Actor, Others, Acquire,
         Goto, Free
<1>3. ASSUME NEW t \in Thread, NEW r \in Res, Drop(t, r) PROVE UnloadedInv'
  BY <1>3, ResAssumption, ThreadAssumption
     DEF Drop, UnloadedInv, TypeOK, ThreadPCs, JobPCs, Actor, Others, Release,
         AfterRelease, Goto, Free
<1>4. ASSUME NEW t \in Thread, NEW r \in Res, NEW s \in BOOLEAN, StartLoading(t, r, s)
      PROVE UnloadedInv'
  BY <1>4, ResAssumption, ThreadAssumption
     DEF StartLoading, UnloadedInv, TypeOK, ThreadPCs, JobPCs, Actor, Goto, Free
<1>5. ASSUME NEW t \in Thread, NEW r \in Res, Instantiate(t, r)
      PROVE UnloadedInv'
  BY <1>5, ResAssumption, ThreadAssumption
     DEF Instantiate, UnloadedInv, TypeOK, ThreadPCs, JobPCs, Actor, UnbornInv,
         Others, Acquire, Create, Goto, Free
<1>6. ASSUME NEW t \in Thread, AcquireForJob(t) PROVE UnloadedInv'
  BY <1>6, ResAssumption, ThreadAssumption
     DEF AcquireForJob, UnloadedInv, TypeOK, ThreadPCs, JobPCs, Actor, CallInv,
         CallPCs, StartInv, StartPCs, Acquire, Goto
<1>7. ASSUME NEW t \in Thread, PushJob(t) PROVE UnloadedInv'
  BY <1>7, ResAssumption, ThreadAssumption
     DEF PushJob, UnloadedInv, TypeOK, ThreadPCs, JobPCs, Actor, CallInv,
         CallPCs, StartInv, StartPCs, Goto
<1>8. ASSUME NEW t \in Thread, AssignJob(t) PROVE UnloadedInv'
  BY <1>8, ResAssumption, ThreadAssumption
     DEF AssignJob, UnloadedInv, TypeOK, ThreadPCs, JobPCs, Actor, CallInv,
         CallPCs, StartInv, StartPCs, Goto
<1>9. ASSUME NEW t \in Thread, CheckJob(t) PROVE UnloadedInv'
  BY <1>9, ResAssumption, ThreadAssumption
     DEF CheckJob, UnloadedInv, TypeOK, ThreadPCs, JobPCs, Actor, CallInv,
         CallPCs, Goto
<1>10. ASSUME NEW t \in Thread, SyncWait(t) PROVE UnloadedInv'
  BY <1>10, ResAssumption, ThreadAssumption
     DEF SyncWait, UnloadedInv, TypeOK, ThreadPCs, JobPCs, Actor, CallInv,
         CallPCs, Goto
<1>11. ASSUME UpdateBegin PROVE UnloadedInv'
  BY <1>11, ResAssumption, ThreadAssumption
     DEF UpdateBegin, UnloadedInv, TypeOK, ThreadPCs, JobPCs, Actor, Goto
<1>12. ASSUME UpdateEnd PROVE UnloadedInv'
  BY <1>12, ResAssumption, ThreadAssumption
     DEF UpdateEnd, UnloadedInv, TypeOK, ThreadPCs, JobPCs, Actor, Goto
<1>13. ASSUME NEW r \in Res, Added(r) PROVE UnloadedInv'
  BY <1>13, ResAssumption, ThreadAssumption
     DEF Added, UnloadedInv, TypeOK, ThreadPCs, JobPCs, Actor, UnbornInv,
         Others, Acquire, Create, Goto
<1>14. ASSUME NEW r \in Res, Updated(r) PROVE UnloadedInv'
  BY <1>14, ResAssumption, ThreadAssumption
     DEF Updated, UnloadedInv, TypeOK, ThreadPCs, JobPCs, Actor, UnbornInv,
         Others, Acquire, Create, Goto
<1>15. ASSUME Removed PROVE UnloadedInv'
  BY <1>15, ResAssumption, ThreadAssumption
     DEF Removed, UnloadedInv, TypeOK, ThreadPCs, JobPCs, Actor, Goto
<1>16. ASSUME Erase PROVE UnloadedInv'
  BY <1>16, ResAssumption, ThreadAssumption
     DEF Erase, UnloadedInv, TypeOK, ThreadPCs, JobPCs, Actor, EntryInv,
         UpdatePCs, Release, AfterRelease, Goto
<1>17. ASSUME Invalidate PROVE UnloadedInv'
  BY <1>17, ResAssumption, ThreadAssumption
     DEF Invalidate, UnloadedInv, TypeOK, ThreadPCs, JobPCs, Actor, EntryInv,
         UpdatePCs, Goto
<1>18. ASSUME ReplaceRelease PROVE UnloadedInv'
  BY <1>18, ResAssumption, ThreadAssumption
     DEF ReplaceRelease, UnloadedInv, TypeOK, ThreadPCs, JobPCs, Actor,
         EntryInv, UpdatePCs, Release, AfterRelease, Goto
<1>19. ASSUME Replace PROVE UnloadedInv'
  BY <1>19, ResAssumption, ThreadAssumption
     DEF Replace, UnloadedInv, TypeOK, ThreadPCs, JobPCs, Actor, EntryInv,
         UpdatePCs, FreshInv, Goto
<1>20. ASSUME NEW a \in Actor, Reap(a) PROVE UnloadedInv'
  BY <1>20, ResAssumption, ThreadAssumption
     DEF Reap, UnloadedInv, TypeOK, ThreadPCs, JobPCs, Actor, ReapInv, ReapPCs,
         Goto
<1>21. ASSUME NEW a \in Actor, ReapWait(a) PROVE UnloadedInv'
  BY <1>21, ResAssumption, ThreadAssumption
     DEF ReapWait, UnloadedInv, TypeOK, ThreadPCs, JobPCs, Actor, ReapInv,
         ReapPCs, Goto
<1>22. ASSUME NEW a \in Actor, Destroy(a) PROVE UnloadedInv'
  BY <1>22, ResAssumption, ThreadAssumption
     DEF Destroy, UnloadedInv, TypeOK, ThreadPCs, JobPCs, Actor, ReapInv,
         ReapPCs, AfterRelease, Goto
<1>23. ASSUME NEW r \in Res, JobCreate(r) PROVE UnloadedInv'
  BY <1>23, ResAssumption, ThreadAssumption
     DEF JobCreate, UnloadedInv, TypeOK, ThreadPCs, JobPCs, Actor, Goto
<1>24. ASSUME NEW r \in Res, JobLoad(r) PROVE UnloadedInv'
  BY <1>24, ResAssumption, ThreadAssumption
     DEF JobLoad, UnloadedInv, TypeOK, ThreadPCs, JobPCs, Actor, Goto
<1>25. ASSUME NEW r \in Res, JobStore(r) PROVE UnloadedInv'
  BY <1>25, ResAssumption, ThreadAssumption
     DEF JobStore, UnloadedInv, TypeOK, ThreadPCs, JobPCs, Actor, Goto
<1>26. ASSUME NEW r \in Res, JobRelease(r) PROVE UnloadedInv'
  BY <1>26, ResAssumption, ThreadAssumption
     DEF JobRelease, UnloadedInv, TypeOK, ThreadPCs, JobPCs, Actor, Release,
         AfterRelease, Goto
<1>27. CASE UNCHANGED vars
  BY <1>27 DEF vars, UnloadedInv, TypeOK, ThreadPCs, JobPCs, Actor
<1> QED
  BY <1>1, <1>2, <1>3, <1>4, <1>5, <1>6, <1>7, <1>8, <1>9, <1>10, <1>11, <1>12,
     <1>13, <1>14, <1>15, <1>16, <1>17, <1>18, <1>19, <1>20, <1>21, <1>22,
     <1>23, <1>24, <1>25, <1>26, <1>27
     DEF Next, ThreadStep, ThreadCall, UpdateStep, UpdateCall, ReleaseStep, JobStep

\* The load job owns a pointer exactly while it runs.
LEMMA JobInvStep ==
  ASSUME TypeOK, UnbornInv, OwnedInv, CallInv, StartInv, UnloadedInv, JobInv,
         ReapInv, EntryInv, FreshInv, [Next]_vars
  PROVE  JobInv'
<1>1. ASSUME NEW t \in Thread, Get(t) PROVE JobInv'
  BY <1>1, ResAssumption, ThreadAssumption
     DEF Get, JobInv, RunPCs, ReapPCs, Owner, Others, TypeOK, ThreadPCs, JobPCs,
         Actor, EntryInv, UpdatePCs, Acquire, Goto
<1>2. ASSUME NEW t \in Thread, NEW u \in Thread, NEW r \in Res, Copy(t, u, r)
      PROVE JobInv'
  BY <1>2, ResAssumption, ThreadAssumption
     DEF Copy, JobInv, RunPCs, ReapPCs, Owner, Others, TypeOK, ThreadPCs,
         JobPCs, Actor, Acquire, Goto, Free
<1>3. ASSUME NEW t \in Thread, NEW r \in Res, Drop(t, r) PROVE JobInv'
  BY <1>3, ResAssumption, ThreadAssumption
     DEF Drop, JobInv, RunPCs, ReapPCs, Owner, Others, TypeOK, ThreadPCs,
         JobPCs, Actor, Release, AfterRelease, Goto, Free
<1>4. ASSUME NEW t \in Thread, NEW r \in Res, NEW s \in BOOLEAN, StartLoading(t, r, s)
      PROVE JobInv'
  BY <1>4, ResAssumption, ThreadAssumption
     DEF StartLoading, JobInv, RunPCs, ReapPCs, Owner, Others, TypeOK,
         ThreadPCs, JobPCs, Actor, Goto, Free
<1>5. ASSUME NEW t \in Thread, NEW r \in Res, Instantiate(t, r) PROVE JobInv'
  BY <1>5, ResAssumption, ThreadAssumption
     DEF Instantiate, JobInv, RunPCs, ReapPCs, Owner, Others, TypeOK, ThreadPCs,
         JobPCs, Actor, UnbornInv, Acquire, Create, Goto, Free
<1>6. ASSUME NEW t \in Thread, AcquireForJob(t) PROVE JobInv'
  BY <1>6, ResAssumption, ThreadAssumption
     DEF AcquireForJob, JobInv, RunPCs, ReapPCs, Owner, Others, TypeOK,
         ThreadPCs, JobPCs, Actor, CallInv, CallPCs, StartInv, StartPCs,
         Acquire, Goto
<1>7. ASSUME NEW t \in Thread, PushJob(t) PROVE JobInv'
  BY <1>7, ResAssumption, ThreadAssumption
     DEF PushJob, JobInv, RunPCs, ReapPCs, Owner, Others, TypeOK, ThreadPCs,
         JobPCs, Actor, CallInv, CallPCs, StartInv, StartPCs, Goto
<1>8. ASSUME NEW t \in Thread, AssignJob(t) PROVE JobInv'
  BY <1>8, ResAssumption, ThreadAssumption
     DEF AssignJob, JobInv, RunPCs, ReapPCs, Owner, Others, TypeOK, ThreadPCs,
         JobPCs, Actor, CallInv, CallPCs, StartInv, StartPCs, Goto
<1>9. ASSUME NEW t \in Thread, CheckJob(t) PROVE JobInv'
  BY <1>9, ResAssumption, ThreadAssumption
     DEF CheckJob, JobInv, RunPCs, ReapPCs, Owner, Others, TypeOK, ThreadPCs,
         JobPCs, Actor, CallInv, CallPCs, Goto
<1>10. ASSUME NEW t \in Thread, SyncWait(t) PROVE JobInv'
  BY <1>10, ResAssumption, ThreadAssumption
     DEF SyncWait, JobInv, RunPCs, ReapPCs, Owner, Others, TypeOK, ThreadPCs,
         JobPCs, Actor, CallInv, CallPCs, Goto
<1>11. ASSUME UpdateBegin PROVE JobInv'
  BY <1>11, ResAssumption, ThreadAssumption
     DEF UpdateBegin, JobInv, RunPCs, ReapPCs, Owner, Others, TypeOK, ThreadPCs,
         JobPCs, Actor, Goto
<1>12. ASSUME UpdateEnd PROVE JobInv'
  BY <1>12, ResAssumption, ThreadAssumption
     DEF UpdateEnd, JobInv, RunPCs, ReapPCs, Owner, Others, TypeOK, ThreadPCs,
         JobPCs, Actor, Goto
<1>13. ASSUME NEW r \in Res, Added(r) PROVE JobInv'
  BY <1>13, ResAssumption, ThreadAssumption
     DEF Added, JobInv, RunPCs, ReapPCs, Owner, Others, TypeOK, ThreadPCs,
         JobPCs, Actor, UnbornInv, Acquire, Create, Goto
<1>14. ASSUME NEW r \in Res, Updated(r) PROVE JobInv'
  BY <1>14, ResAssumption, ThreadAssumption
     DEF Updated, JobInv, RunPCs, ReapPCs, Owner, Others, TypeOK, ThreadPCs,
         JobPCs, Actor, UnbornInv, Acquire, Create, Goto
<1>15. ASSUME Removed PROVE JobInv'
  BY <1>15, ResAssumption, ThreadAssumption
     DEF Removed, JobInv, RunPCs, ReapPCs, Owner, Others, TypeOK, ThreadPCs,
         JobPCs, Actor, Goto
<1>16. ASSUME Erase PROVE JobInv'
  BY <1>16, ResAssumption, ThreadAssumption
     DEF Erase, JobInv, RunPCs, ReapPCs, Owner, Others, TypeOK, ThreadPCs,
         JobPCs, Actor, EntryInv, UpdatePCs, Release, AfterRelease, Goto
<1>17. ASSUME Invalidate PROVE JobInv'
  BY <1>17, ResAssumption, ThreadAssumption
     DEF Invalidate, JobInv, RunPCs, ReapPCs, Owner, Others, TypeOK, ThreadPCs,
         JobPCs, Actor, EntryInv, UpdatePCs, Goto
<1>18. ASSUME ReplaceRelease PROVE JobInv'
  BY <1>18, ResAssumption, ThreadAssumption
     DEF ReplaceRelease, JobInv, RunPCs, ReapPCs, Owner, Others, TypeOK,
         ThreadPCs, JobPCs, Actor, EntryInv, UpdatePCs, Release, AfterRelease,
         Goto
<1>19. ASSUME Replace PROVE JobInv'
  BY <1>19, ResAssumption, ThreadAssumption
     DEF Replace, JobInv, RunPCs, ReapPCs, Owner, Others, TypeOK, ThreadPCs,
         JobPCs, Actor, EntryInv, UpdatePCs, FreshInv, Goto
<1>20. ASSUME NEW a \in Actor, Reap(a) PROVE JobInv'
  BY <1>20, ResAssumption, ThreadAssumption
     DEF Reap, JobInv, RunPCs, ReapPCs, Owner, Others, TypeOK, ThreadPCs,
         JobPCs, Actor, ReapInv, Goto
<1>21. ASSUME NEW a \in Actor, ReapWait(a) PROVE JobInv'
  BY <1>21, ResAssumption, ThreadAssumption
     DEF ReapWait, JobInv, RunPCs, ReapPCs, Owner, Others, TypeOK, ThreadPCs,
         JobPCs, Actor, ReapInv, Goto
<1>22. ASSUME NEW a \in Actor, Destroy(a) PROVE JobInv'
  BY <1>22, ResAssumption, ThreadAssumption
     DEF Destroy, JobInv, RunPCs, ReapPCs, Owner, Others, TypeOK, ThreadPCs,
         JobPCs, Actor, ReapInv, AfterRelease, Goto
<1>23. ASSUME NEW r \in Res, JobCreate(r) PROVE JobInv'
  BY <1>23, ResAssumption, ThreadAssumption
     DEF JobCreate, JobInv, RunPCs, ReapPCs, Owner, Others, TypeOK, ThreadPCs,
         JobPCs, Actor, Goto
<1>24. ASSUME NEW r \in Res, JobLoad(r) PROVE JobInv'
  BY <1>24, ResAssumption, ThreadAssumption
     DEF JobLoad, JobInv, RunPCs, ReapPCs, Owner, Others, TypeOK, ThreadPCs,
         JobPCs, Actor, Goto
<1>25. ASSUME NEW r \in Res, JobStore(r) PROVE JobInv'
  BY <1>25, ResAssumption, ThreadAssumption
     DEF JobStore, JobInv, RunPCs, ReapPCs, Owner, Others, TypeOK, ThreadPCs,
         JobPCs, Actor, Goto
<1>26. ASSUME NEW r \in Res, JobRelease(r) PROVE JobInv'
  BY <1>26, ResAssumption, ThreadAssumption
     DEF JobRelease, JobInv, RunPCs, ReapPCs, Owner, Others, TypeOK, ThreadPCs,
         JobPCs, Actor, Release, AfterRelease, Goto
<1>27. CASE UNCHANGED vars
  BY <1>27
     DEF vars, JobInv, RunPCs, ReapPCs, Owner, Others, TypeOK, ThreadPCs,
         JobPCs, Actor
<1> QED
  BY <1>1, <1>2, <1>3, <1>4, <1>5, <1>6, <1>7, <1>8, <1>9, <1>10, <1>11, <1>12,
     <1>13, <1>14, <1>15, <1>16, <1>17, <1>18, <1>19, <1>20, <1>21, <1>22,
     <1>23, <1>24, <1>25, <1>26, <1>27
     DEF Next, ThreadStep, ThreadCall, UpdateStep, UpdateCall, ReleaseStep, JobStep

\* Only one actor takes the last reference, and nobody comes back after it.
LEMMA ReapStep ==
  ASSUME TypeOK, UnbornInv, OwnedInv, CallInv, StartInv, UnloadedInv, JobInv,
         ReapInv, EntryInv, FreshInv, CounterExact, [Next]_vars
  PROVE  ReapInv'
<1>1. ASSUME NEW t \in Thread, Get(t) PROVE ReapInv'
  BY <1>1, ResAssumption, ThreadAssumption
     DEF Get, ReapInv, ReapPCs, TypeOK, ThreadPCs, JobPCs, Actor, EntryInv,
         UpdatePCs, Acquire, Goto
<1>2. ASSUME NEW t \in Thread, NEW u \in Thread, NEW r \in Res, Copy(t, u, r)
      PROVE ReapInv'
  BY <1>2, ResAssumption, ThreadAssumption
     DEF Copy, ReapInv, ReapPCs, TypeOK, ThreadPCs, JobPCs, Actor, Acquire,
         Goto, Free
<1>3. ASSUME NEW t \in Thread, NEW r \in Res, Drop(t, r) PROVE ReapInv'
  BY <1>3, ResAssumption, ThreadAssumption, LastOwner
     DEF Drop, ReapInv, ReapPCs, TypeOK, ThreadPCs, JobPCs, Actor, OwnedInv,
         UnbornInv, Release, AfterRelease, Goto, Free
<1>4. ASSUME NEW t \in Thread, NEW r \in Res, NEW s \in BOOLEAN, StartLoading(t, r, s)
      PROVE ReapInv'
  BY <1>4, ResAssumption, ThreadAssumption
     DEF StartLoading, ReapInv, ReapPCs, TypeOK, ThreadPCs, JobPCs, Actor, Goto,
         Free
<1>5. ASSUME NEW t \in Thread, NEW r \in Res, Instantiate(t, r) PROVE ReapInv'
  BY <1>5, ResAssumption, ThreadAssumption
     DEF Instantiate, ReapInv, ReapPCs, TypeOK, ThreadPCs, JobPCs, Actor,
         UnbornInv, Acquire, Create, Goto, Free
<1>6. ASSUME NEW t \in Thread, AcquireForJob(t) PROVE ReapInv'
  BY <1>6, ResAssumption, ThreadAssumption
     DEF AcquireForJob, ReapInv, ReapPCs, TypeOK, ThreadPCs, JobPCs, Actor,
         CallInv, CallPCs, StartInv, StartPCs, Acquire, Goto
<1>7. ASSUME NEW t \in Thread, PushJob(t) PROVE ReapInv'
  BY <1>7, ResAssumption, ThreadAssumption
     DEF PushJob, ReapInv, ReapPCs, TypeOK, ThreadPCs, JobPCs, Actor, CallInv,
         CallPCs, Goto
<1>8. ASSUME NEW t \in Thread, AssignJob(t) PROVE ReapInv'
  BY <1>8, ResAssumption, ThreadAssumption
     DEF AssignJob, ReapInv, ReapPCs, TypeOK, ThreadPCs, JobPCs, Actor, CallInv,
         CallPCs, Goto
<1>9. ASSUME NEW t \in Thread, CheckJob(t) PROVE ReapInv'
  BY <1>9, ResAssumption, ThreadAssumption
     DEF CheckJob, ReapInv, ReapPCs, TypeOK, ThreadPCs, JobPCs, Actor, CallInv,
         CallPCs, Goto
<1>10. ASSUME NEW t \in Thread, SyncWait(t) PROVE ReapInv'
  BY <1>10, ResAssumption, ThreadAssumption
     DEF SyncWait, ReapInv, ReapPCs, TypeOK, ThreadPCs, JobPCs, Actor, CallInv,
         CallPCs, Goto
<1>11. ASSUME UpdateBegin PROVE ReapInv'
  BY <1>11, ResAssumption, ThreadAssumption
     DEF UpdateBegin, ReapInv, ReapPCs, TypeOK, ThreadPCs, JobPCs, Actor, Goto
<1>12. ASSUME UpdateEnd PROVE ReapInv'
  BY <1>12, ResAssumption, ThreadAssumption
     DEF UpdateEnd, ReapInv, ReapPCs, TypeOK, ThreadPCs, JobPCs, Actor, Goto
<1>13. ASSUME NEW r \in Res, Added(r) PROVE ReapInv'
  BY <1>13, ResAssumption, ThreadAssumption
     DEF Added, ReapInv, ReapPCs, TypeOK, ThreadPCs, JobPCs, Actor, UnbornInv,
         Acquire, Create, Goto
<1>14. ASSUME NEW r \in Res, Updated(r) PROVE ReapInv'
  BY <1>14, ResAssumption, ThreadAssumption
     DEF Updated, ReapInv, ReapPCs, TypeOK, ThreadPCs, JobPCs, Actor, UnbornInv,
         Acquire, Create, Goto
<1>15. ASSUME Removed PROVE ReapInv'
  BY <1>15, ResAssumption, ThreadAssumption
     DEF Removed, ReapInv, ReapPCs, TypeOK, ThreadPCs, JobPCs, Actor, Goto
<1>16. ASSUME Erase PROVE ReapInv'
  BY <1>16, ResAssumption, ThreadAssumption, LastOwner
     DEF Erase, ReapInv, ReapPCs, TypeOK, ThreadPCs, JobPCs, Actor, EntryInv,
         UpdatePCs, OwnedInv, UnbornInv, Release, AfterRelease, Goto
<1>17. ASSUME Invalidate PROVE ReapInv'
  BY <1>17, ResAssumption, ThreadAssumption
     DEF Invalidate, ReapInv, ReapPCs, TypeOK, ThreadPCs, JobPCs, Actor,
         EntryInv, UpdatePCs, Goto
<1>18. ASSUME ReplaceRelease PROVE ReapInv'
  BY <1>18, ResAssumption, ThreadAssumption, LastOwner
     DEF ReplaceRelease, ReapInv, ReapPCs, TypeOK, ThreadPCs, JobPCs, Actor,
         EntryInv, UpdatePCs, OwnedInv, UnbornInv, Release, AfterRelease, Goto
<1>19. ASSUME Replace PROVE ReapInv'
  BY <1>19, ResAssumption, ThreadAssumption
     DEF Replace, ReapInv, ReapPCs, TypeOK, ThreadPCs, JobPCs, Actor, EntryInv,
         UpdatePCs, FreshInv, Goto
<1>20. ASSUME NEW a \in Actor, Reap(a) PROVE ReapInv'
  BY <1>20, ResAssumption, ThreadAssumption
     DEF Reap, ReapInv, ReapPCs, TypeOK, ThreadPCs, JobPCs, Actor, Goto
<1>21. ASSUME NEW a \in Actor, ReapWait(a) PROVE ReapInv'
  BY <1>21, ResAssumption, ThreadAssumption
     DEF ReapWait, ReapInv, ReapPCs, TypeOK, ThreadPCs, JobPCs, Actor, Goto
<1>22. ASSUME NEW a \in Actor, Destroy(a) PROVE ReapInv'
  BY <1>22, ResAssumption, ThreadAssumption
     DEF Destroy, ReapInv, ReapPCs, TypeOK, ThreadPCs, JobPCs, Actor,
         AfterRelease, Goto
<1>23. ASSUME NEW r \in Res, JobCreate(r) PROVE ReapInv'
  BY <1>23, ResAssumption, ThreadAssumption
     DEF JobCreate, ReapInv, ReapPCs, TypeOK, ThreadPCs, JobPCs, Actor, Goto
<1>24. ASSUME NEW r \in Res, JobLoad(r) PROVE ReapInv'
  BY <1>24, ResAssumption, ThreadAssumption
     DEF JobLoad, ReapInv, ReapPCs, TypeOK, ThreadPCs, JobPCs, Actor, Goto
<1>25. ASSUME NEW r \in Res, JobStore(r) PROVE ReapInv'
  BY <1>25, ResAssumption, ThreadAssumption
     DEF JobStore, ReapInv, ReapPCs, TypeOK, ThreadPCs, JobPCs, Actor, Goto
<1>26. ASSUME NEW r \in Res, JobRelease(r) PROVE ReapInv'
  BY <1>26, ResAssumption, ThreadAssumption, LastOwner
     DEF JobRelease, ReapInv, ReapPCs, TypeOK, ThreadPCs, JobPCs, Actor, JobInv,
         RunPCs, OwnedInv, UnbornInv, Release, AfterRelease, Goto
<1>27. CASE UNCHANGED vars
  BY <1>27 DEF vars, ReapInv, ReapPCs, TypeOK, ThreadPCs, JobPCs, Actor
<1> QED
  BY <1>1, <1>2, <1>3, <1>4, <1>5, <1>6, <1>7, <1>8, <1>9, <1>10, <1>11, <1>12,
     <1>13, <1>14, <1>15, <1>16, <1>17, <1>18, <1>19, <1>20, <1>21, <1>22,
     <1>23, <1>24, <1>25, <1>26, <1>27
     DEF Next, ThreadStep, ThreadCall, UpdateStep, UpdateCall, ReleaseStep, JobStep

\* The entry owns its resource, except while it is replaced.
LEMMA EntryStep ==
  ASSUME TypeOK, UnbornInv, OwnedInv, CallInv, StartInv, UnloadedInv, JobInv,
         ReapInv, EntryInv, FreshInv, [Next]_vars
  PROVE  EntryInv'
<1>1. ASSUME NEW t \in Thread, Get(t) PROVE EntryInv'
  BY <1>1, ResAssumption, ThreadAssumption
     DEF Get, EntryInv, UpdatePCs, ReapPCs, Others, TypeOK, ThreadPCs, JobPCs,
         Actor, FreshInv, Acquire, Goto
<1>2. ASSUME NEW t \in Thread, NEW u \in Thread, NEW r \in Res, Copy(t, u, r)
      PROVE EntryInv'
  BY <1>2, ResAssumption, ThreadAssumption
     DEF Copy, EntryInv, UpdatePCs, ReapPCs, Others, TypeOK, ThreadPCs, JobPCs,
         Actor, FreshInv, Acquire, Goto, Free
<1>3. ASSUME NEW t \in Thread, NEW r \in Res, Drop(t, r) PROVE EntryInv'
  BY <1>3, ResAssumption, ThreadAssumption
     DEF Drop, EntryInv, UpdatePCs, ReapPCs, Others, TypeOK, ThreadPCs, JobPCs,
         Actor, FreshInv, Release, AfterRelease, Goto, Free
<1>4. ASSUME NEW t \in Thread, NEW r \in Res, NEW s \in BOOLEAN, StartLoading(t, r, s)
      PROVE EntryInv'
  BY <1>4, ResAssumption, ThreadAssumption
     DEF StartLoading, EntryInv, UpdatePCs, ReapPCs, Others, TypeOK, ThreadPCs,
         JobPCs, Actor, FreshInv, Goto, Free
<1>5. ASSUME NEW t \in Thread, NEW r \in Res, Instantiate(t, r) PROVE EntryInv'
  BY <1>5, ResAssumption, ThreadAssumption
     DEF Instantiate, EntryInv, UpdatePCs, ReapPCs, Others, TypeOK, ThreadPCs,
         JobPCs, Actor, FreshInv, UnbornInv, Acquire, Create, Goto, Free
<1>6. ASSUME NEW t \in Thread, AcquireForJob(t) PROVE EntryInv'
  BY <1>6, ResAssumption, ThreadAssumption
     DEF AcquireForJob, EntryInv, UpdatePCs, ReapPCs, Others, TypeOK, ThreadPCs,
         JobPCs, Actor, CallInv, CallPCs, FreshInv, Acquire, Goto
<1>7. ASSUME NEW t \in Thread, PushJob(t) PROVE EntryInv'
  BY <1>7, ResAssumption, ThreadAssumption
     DEF PushJob, EntryInv, UpdatePCs, ReapPCs, Others, TypeOK, ThreadPCs,
         JobPCs, Actor, CallInv, CallPCs, FreshInv, Goto
<1>8. ASSUME NEW t \in Thread, AssignJob(t) PROVE EntryInv'
  BY <1>8, ResAssumption, ThreadAssumption
     DEF AssignJob, EntryInv, UpdatePCs, ReapPCs, Others, TypeOK, ThreadPCs,
         JobPCs, Actor, CallInv, CallPCs, FreshInv, Goto
<1>9. ASSUME NEW t \in Thread, CheckJob(t) PROVE EntryInv'
  BY <1>9, ResAssumption, ThreadAssumption
     DEF CheckJob, EntryInv, UpdatePCs, ReapPCs, Others, TypeOK, ThreadPCs,
         JobPCs, Actor, CallInv, CallPCs, FreshInv, Goto
<1>10. ASSUME NEW t \in Thread, SyncWait(t) PROVE EntryInv'
  BY <1>10, ResAssumption, ThreadAssumption
     DEF SyncWait, EntryInv, UpdatePCs, ReapPCs, Others, TypeOK, ThreadPCs,
         JobPCs, Actor, CallInv, CallPCs, FreshInv, Goto
<1>11. ASSUME UpdateBegin PROVE EntryInv'
  BY <1>11, ResAssumption, ThreadAssumption
     DEF UpdateBegin, EntryInv, UpdatePCs, ReapPCs, Others, TypeOK, ThreadPCs,
         JobPCs, Actor, FreshInv, Goto
<1>12. ASSUME UpdateEnd PROVE EntryInv'
  BY <1>12, ResAssumption, ThreadAssumption
     DEF UpdateEnd, EntryInv, UpdatePCs, ReapPCs, Others, TypeOK, ThreadPCs,
         JobPCs, Actor, FreshInv, Goto
<1>13. ASSUME NEW r \in Res, Added(r) PROVE EntryInv'
  BY <1>13, ResAssumption, ThreadAssumption
     DEF Added, EntryInv, UpdatePCs, ReapPCs, Others, TypeOK, ThreadPCs, JobPCs,
         Actor, FreshInv, UnbornInv, Acquire, Create, Goto
<1>14. ASSUME NEW r \in Res, Updated(r) PROVE EntryInv'
  BY <1>14, ResAssumption, ThreadAssumption
     DEF Updated, EntryInv, UpdatePCs, ReapPCs, Others, TypeOK, ThreadPCs,
         JobPCs, Actor, FreshInv, UnbornInv, Acquire, Create, Goto
<1>15. ASSUME Removed PROVE EntryInv'
  BY <1>15, ResAssumption, ThreadAssumption
     DEF Removed, EntryInv, UpdatePCs, ReapPCs, Others, TypeOK, ThreadPCs,
         JobPCs, Actor, FreshInv, Goto
<1>16. ASSUME Erase PROVE EntryInv'
  BY <1>16, ResAssumption, ThreadAssumption
     DEF Erase, EntryInv, UpdatePCs, ReapPCs, Others, TypeOK, ThreadPCs, JobPCs,
         Actor, FreshInv, Release, AfterRelease, Goto
<1>17. ASSUME Invalidate PROVE EntryInv'
  BY <1>17, ResAssumption, ThreadAssumption
     DEF Invalidate, EntryInv, UpdatePCs, ReapPCs, Others, TypeOK, ThreadPCs,
         JobPCs, Actor, FreshInv, Goto
<1>18. ASSUME ReplaceRelease PROVE EntryInv'
  <2>1. /\ entry # NoRes /\ cur[Main] = entry /\ fresh # NoRes /\ updating
        /\ entry \in Res /\ Main \in Thread /\ Main \notin Res
    BY <1>18, ResAssumption, ThreadAssumption
       DEF ReplaceRelease, EntryInv, FreshInv, UpdatePCs, TypeOK
  <2>2. pc'[Main] \in {"replace", "reap"} /\ cur'[Main] = entry
    BY <1>18, <2>1
       DEF ReplaceRelease, Release, AfterRelease, Goto, TypeOK, Actor
  <2>3. /\ \A t \in Thread : t # Main => pc'[t] = pc[t]
        /\ entry' = entry /\ fresh' = fresh /\ updating'
    BY <1>18, <2>1
       DEF ReplaceRelease, Release, Goto, TypeOK, Actor
  <2>4. /\ "registry" \notin owners'[entry]
        /\ \A r \in Res : "registry" \in owners'[r] => "registry" \in owners[r]
    <3>1. owners' = [owners EXCEPT ![entry] = @ \ {"registry"}]
      BY <1>18, <2>1 DEF ReplaceRelease, Release
    <3> QED
      BY <2>1, <3>1 DEF TypeOK
  <2> QED
    BY <2>1, <2>2, <2>3, <2>4 DEF EntryInv, UpdatePCs, ReapPCs
<1>19. ASSUME Replace PROVE EntryInv'
  BY <1>19, ResAssumption, ThreadAssumption
     DEF Replace, EntryInv, UpdatePCs, ReapPCs, Others, TypeOK, ThreadPCs,
         JobPCs, Actor, FreshInv, Goto
<1>20. ASSUME NEW a \in Actor, Reap(a) PROVE EntryInv'
  BY <1>20, ResAssumption, ThreadAssumption
     DEF Reap, EntryInv, UpdatePCs, ReapPCs, Others, TypeOK, ThreadPCs, JobPCs,
         Actor, ReapInv, FreshInv, Goto
<1>21. ASSUME NEW a \in Actor, ReapWait(a) PROVE EntryInv'
  BY <1>21, ResAssumption, ThreadAssumption
     DEF ReapWait, EntryInv, UpdatePCs, ReapPCs, Others, TypeOK, ThreadPCs,
         JobPCs, Actor, ReapInv, FreshInv, Goto
<1>22. ASSUME NEW a \in Actor, Destroy(a) PROVE EntryInv'
  BY <1>22, ResAssumption, ThreadAssumption
     DEF Destroy, EntryInv, UpdatePCs, ReapPCs, Others, TypeOK, ThreadPCs,
         JobPCs, Actor, ReapInv, FreshInv, AfterRelease, Goto
<1>23. ASSUME NEW r \in Res, JobCreate(r) PROVE EntryInv'
  BY <1>23, ResAssumption, ThreadAssumption
     DEF JobCreate, EntryInv, UpdatePCs, ReapPCs, Others, TypeOK, ThreadPCs,
         JobPCs, Actor, FreshInv, JobInv, RunPCs, Goto
<1>24. ASSUME NEW r \in Res, JobLoad(r) PROVE EntryInv'
  BY <1>24, ResAssumption, ThreadAssumption
     DEF JobLoad, EntryInv, UpdatePCs, ReapPCs, Others, TypeOK, ThreadPCs,
         JobPCs, Actor, FreshInv, JobInv, RunPCs, Goto
<1>25. ASSUME NEW r \in Res, JobStore(r) PROVE EntryInv'
  BY <1>25, ResAssumption, ThreadAssumption
     DEF JobStore, EntryInv, UpdatePCs, ReapPCs, Others, TypeOK, ThreadPCs,
         JobPCs, Actor, FreshInv, JobInv, RunPCs, Goto
<1>26. ASSUME NEW r \in Res, JobRelease(r) PROVE EntryInv'
  BY <1>26, ResAssumption, ThreadAssumption
     DEF JobRelease, EntryInv, UpdatePCs, ReapPCs, Others, TypeOK, ThreadPCs,
         JobPCs, Actor, FreshInv, JobInv, RunPCs, Release, AfterRelease, Goto
<1>27. CASE UNCHANGED vars
  BY <1>27
     DEF vars, EntryInv, UpdatePCs, ReapPCs, Others, TypeOK, ThreadPCs, JobPCs,
         Actor
<1> QED
  BY <1>1, <1>2, <1>3, <1>4, <1>5, <1>6, <1>7, <1>8, <1>9, <1>10, <1>11, <1>12,
     <1>13, <1>14, <1>15, <1>16, <1>17, <1>18, <1>19, <1>20, <1>21, <1>22,
     <1>23, <1>24, <1>25, <1>26, <1>27
     DEF Next, ThreadStep, ThreadCall, UpdateStep, UpdateCall, ReleaseStep, JobStep

\* update() keeps the resource it created until the entry takes it.
LEMMA FreshStep ==
  ASSUME TypeOK, UnbornInv, OwnedInv, CallInv, StartInv, UnloadedInv, JobInv,
         ReapInv, EntryInv, FreshInv, [Next]_vars
  PROVE  FreshInv'
<1>1. ASSUME NEW t \in Thread, Get(t) PROVE FreshInv'
  BY <1>1, ResAssumption, ThreadAssumption
     DEF Get, FreshInv, EntryInv, UpdatePCs, ReapPCs, Others, TypeOK, ThreadPCs,
         JobPCs, Actor, Acquire, Goto
<1>2. ASSUME NEW t \in Thread, NEW u \in Thread, NEW r \in Res, Copy(t, u, r)
      PROVE FreshInv'
  BY <1>2, ResAssumption, ThreadAssumption
     DEF Copy, FreshInv, EntryInv, UpdatePCs, ReapPCs, Others, TypeOK,
         ThreadPCs, JobPCs, Actor, Acquire, Goto, Free
<1>3. ASSUME NEW t \in Thread, NEW r \in Res, Drop(t, r) PROVE FreshInv'
  BY <1>3, ResAssumption, ThreadAssumption
     DEF Drop, FreshInv, EntryInv, UpdatePCs, ReapPCs, Others, TypeOK,
         ThreadPCs, JobPCs, Actor, Release, AfterRelease, Goto, Free
<1>4. ASSUME NEW t \in Thread, NEW r \in Res, NEW s \in BOOLEAN, StartLoading(t, r, s)
      PROVE FreshInv'
  BY <1>4, ResAssumption, ThreadAssumption
     DEF StartLoading, FreshInv, EntryInv, UpdatePCs, ReapPCs, Others, TypeOK,
         ThreadPCs, JobPCs, Actor, Goto, Free
<1>5. ASSUME NEW t \in Thread, NEW r \in Res, Instantiate(t, r) PROVE FreshInv'
  BY <1>5, ResAssumption, ThreadAssumption
     DEF Instantiate, FreshInv, EntryInv, UpdatePCs, ReapPCs, Others, TypeOK,
         ThreadPCs, JobPCs, Actor, UnbornInv, Acquire, Create, Goto, Free
<1>6. ASSUME NEW t \in Thread, AcquireForJob(t) PROVE FreshInv'
  BY <1>6, ResAssumption, ThreadAssumption
     DEF AcquireForJob, FreshInv, EntryInv, UpdatePCs, ReapPCs, Others, TypeOK,
         ThreadPCs, JobPCs, Actor, CallInv, CallPCs, Acquire, Goto
<1>7. ASSUME NEW t \in Thread, PushJob(t) PROVE FreshInv'
  BY <1>7, ResAssumption, ThreadAssumption
     DEF PushJob, FreshInv, EntryInv, UpdatePCs, ReapPCs, Others, TypeOK,
         ThreadPCs, JobPCs, Actor, CallInv, CallPCs, Goto
<1>8. ASSUME NEW t \in Thread, AssignJob(t) PROVE FreshInv'
  BY <1>8, ResAssumption, ThreadAssumption
     DEF AssignJob, FreshInv, EntryInv, UpdatePCs, ReapPCs, Others, TypeOK,
         ThreadPCs, JobPCs, Actor, CallInv, CallPCs, Goto
<1>9. ASSUME NEW t \in Thread, CheckJob(t) PROVE FreshInv'
  BY <1>9, ResAssumption, ThreadAssumption
     DEF CheckJob, FreshInv, EntryInv, UpdatePCs, ReapPCs, Others, TypeOK,
         ThreadPCs, JobPCs, Actor, CallInv, CallPCs, Goto
<1>10. ASSUME NEW t \in Thread, SyncWait(t) PROVE FreshInv'
  BY <1>10, ResAssumption, ThreadAssumption
     DEF SyncWait, FreshInv, EntryInv, UpdatePCs, ReapPCs, Others, TypeOK,
         ThreadPCs, JobPCs, Actor, CallInv, CallPCs, Goto
<1>11. ASSUME UpdateBegin PROVE FreshInv'
  BY <1>11, ResAssumption, ThreadAssumption
     DEF UpdateBegin, FreshInv, EntryInv, UpdatePCs, ReapPCs, Others, TypeOK,
         ThreadPCs, JobPCs, Actor, Goto
<1>12. ASSUME UpdateEnd PROVE FreshInv'
  BY <1>12, ResAssumption, ThreadAssumption
     DEF UpdateEnd, FreshInv, EntryInv, UpdatePCs, ReapPCs, Others, TypeOK,
         ThreadPCs, JobPCs, Actor, Goto
<1>13. ASSUME NEW r \in Res, Added(r) PROVE FreshInv'
  BY <1>13, ResAssumption, ThreadAssumption
     DEF Added, FreshInv, EntryInv, UpdatePCs, ReapPCs, Others, TypeOK,
         ThreadPCs, JobPCs, Actor, UnbornInv, Acquire, Create, Goto
<1>14. ASSUME NEW r \in Res, Updated(r) PROVE FreshInv'
  BY <1>14, ResAssumption, ThreadAssumption
     DEF Updated, FreshInv, EntryInv, UpdatePCs, ReapPCs, Others, TypeOK,
         ThreadPCs, JobPCs, Actor, UnbornInv, Acquire, Create, Goto
<1>15. ASSUME Removed PROVE FreshInv'
  BY <1>15, ResAssumption, ThreadAssumption
     DEF Removed, FreshInv, EntryInv, UpdatePCs, ReapPCs, Others, TypeOK,
         ThreadPCs, JobPCs, Actor, Goto
<1>16. ASSUME Erase PROVE FreshInv'
  BY <1>16, ResAssumption, ThreadAssumption
     DEF Erase, FreshInv, EntryInv, UpdatePCs, ReapPCs, Others, TypeOK,
         ThreadPCs, JobPCs, Actor, Release, AfterRelease, Goto
<1>17. ASSUME Invalidate PROVE FreshInv'
  BY <1>17, ResAssumption, ThreadAssumption
     DEF Invalidate, FreshInv, EntryInv, UpdatePCs, ReapPCs, Others, TypeOK,
         ThreadPCs, JobPCs, Actor, Goto
<1>18. ASSUME ReplaceRelease PROVE FreshInv'
  BY <1>18, ResAssumption, ThreadAssumption
     DEF ReplaceRelease, FreshInv, EntryInv, UpdatePCs, ReapPCs, Others, TypeOK,
         ThreadPCs, JobPCs, Actor, Release, AfterRelease, Goto
<1>19. ASSUME Replace PROVE FreshInv'
  BY <1>19, ResAssumption, ThreadAssumption
     DEF Replace, FreshInv, EntryInv, UpdatePCs, ReapPCs, Others, TypeOK,
         ThreadPCs, JobPCs, Actor, Goto
<1>20. ASSUME NEW a \in Actor, Reap(a) PROVE FreshInv'
  BY <1>20, ResAssumption, ThreadAssumption
     DEF Reap, FreshInv, EntryInv, UpdatePCs, ReapPCs, Others, TypeOK,
         ThreadPCs, JobPCs, Actor, ReapInv, Goto
<1>21. ASSUME NEW a \in Actor, ReapWait(a) PROVE FreshInv'
  BY <1>21, ResAssumption, ThreadAssumption
     DEF ReapWait, FreshInv, EntryInv, UpdatePCs, ReapPCs, Others, TypeOK,
         ThreadPCs, JobPCs, Actor, ReapInv, Goto
<1>22. ASSUME NEW a \in Actor, Destroy(a) PROVE FreshInv'
  BY <1>22, ResAssumption, ThreadAssumption
     DEF Destroy, FreshInv, EntryInv, UpdatePCs, ReapPCs, Others, TypeOK,
         ThreadPCs, JobPCs, Actor, ReapInv, AfterRelease, Goto
<1>23. ASSUME NEW r \in Res, JobCreate(r) PROVE FreshInv'
  BY <1>23, ResAssumption, ThreadAssumption
     DEF JobCreate, FreshInv, EntryInv, UpdatePCs, ReapPCs, Others, TypeOK,
         ThreadPCs, JobPCs, Actor, Goto
<1>24. ASSUME NEW r \in Res, JobLoad(r) PROVE FreshInv'
  BY <1>24, ResAssumption, ThreadAssumption
     DEF JobLoad, FreshInv, EntryInv, UpdatePCs, ReapPCs, Others, TypeOK,
         ThreadPCs, JobPCs, Actor, Goto
<1>25. ASSUME NEW r \in Res, JobStore(r) PROVE FreshInv'
  BY <1>25, ResAssumption, ThreadAssumption
     DEF JobStore, FreshInv, EntryInv, UpdatePCs, ReapPCs, Others, TypeOK,
         ThreadPCs, JobPCs, Actor, Goto
<1>26. ASSUME NEW r \in Res, JobRelease(r) PROVE FreshInv'
  BY <1>26, ResAssumption, ThreadAssumption
     DEF JobRelease, FreshInv, EntryInv, UpdatePCs, ReapPCs, Others, TypeOK,
         ThreadPCs, JobPCs, Actor, Release, AfterRelease, Goto
<1>27. CASE UNCHANGED vars
  BY <1>27
     DEF vars, FreshInv, EntryInv, UpdatePCs, ReapPCs, Others, TypeOK,
         ThreadPCs, JobPCs, Actor
<1> QED
  BY <1>1, <1>2, <1>3, <1>4, <1>5, <1>6, <1>7, <1>8, <1>9, <1>10, <1>11, <1>12,
     <1>13, <1>14, <1>15, <1>16, <1>17, <1>18, <1>19, <1>20, <1>21, <1>22,
     <1>23, <1>24, <1>25, <1>26, <1>27
     DEF Next, ThreadStep, ThreadCall, UpdateStep, UpdateCall, ReleaseStep, JobStep

\* A loaded resource is filled: only its job settles the state.
LEMMA LoadedStep ==
  ASSUME TypeOK, UnbornInv, OwnedInv, CallInv, StartInv, UnloadedInv, JobInv,
         ReapInv, EntryInv, FreshInv, LoadedInv, StaleInv, AssignedInv,
         ReapedInv, [Next]_vars
  PROVE  LoadedInv'
<1>1. ASSUME NEW t \in Thread, Get(t) PROVE LoadedInv'
  BY <1>1, ResAssumption, ThreadAssumption
     DEF Get, LoadedInv, LoadedIsFilled, ReapPCs, TypeOK, ThreadPCs, JobPCs,
         Actor, EntryInv, UpdatePCs, Acquire, Goto
<1>2. ASSUME NEW t \in Thread, NEW u \in Thread, NEW r \in Res, Copy(t, u, r)
      PROVE LoadedInv'
  BY <1>2, ResAssumption, ThreadAssumption
     DEF Copy, LoadedInv, LoadedIsFilled, ReapPCs, TypeOK, ThreadPCs, JobPCs,
         Actor, Acquire, Goto, Free
<1>3. ASSUME NEW t \in Thread, NEW r \in Res, Drop(t, r) PROVE LoadedInv'
  BY <1>3, ResAssumption, ThreadAssumption
     DEF Drop, LoadedInv, LoadedIsFilled, ReapPCs, TypeOK, ThreadPCs, JobPCs,
         Actor, Release, AfterRelease, Goto, Free
<1>4. ASSUME NEW t \in Thread, NEW r \in Res, NEW s \in BOOLEAN, StartLoading(t, r, s)
      PROVE LoadedInv'
  BY <1>4, ResAssumption, ThreadAssumption
     DEF StartLoading, LoadedInv, LoadedIsFilled, ReapPCs, TypeOK, ThreadPCs,
         JobPCs, Actor, UnloadedInv, Goto, Free
<1>5. ASSUME NEW t \in Thread, NEW r \in Res, Instantiate(t, r) PROVE LoadedInv'
  BY <1>5, ResAssumption, ThreadAssumption
     DEF Instantiate, LoadedInv, LoadedIsFilled, ReapPCs, TypeOK, ThreadPCs,
         JobPCs, Actor, UnbornInv, Acquire, Create, Goto, Free
<1>6. ASSUME NEW t \in Thread, AcquireForJob(t) PROVE LoadedInv'
  BY <1>6, ResAssumption, ThreadAssumption
     DEF AcquireForJob, LoadedInv, LoadedIsFilled, ReapPCs, TypeOK, ThreadPCs,
         JobPCs, Actor, CallInv, CallPCs, StartInv, StartPCs, Acquire, Goto
<1>7. ASSUME NEW t \in Thread, PushJob(t) PROVE LoadedInv'
  BY <1>7, ResAssumption, ThreadAssumption
     DEF PushJob, LoadedInv, LoadedIsFilled, ReapPCs, TypeOK, ThreadPCs, JobPCs,
         Actor, CallInv, CallPCs, StartInv, StartPCs, Goto
<1>8. ASSUME NEW t \in Thread, AssignJob(t) PROVE LoadedInv'
  BY <1>8, ResAssumption, ThreadAssumption
     DEF AssignJob, LoadedInv, LoadedIsFilled, ReapPCs, TypeOK, ThreadPCs,
         JobPCs, Actor, CallInv, CallPCs, Goto
<1>9. ASSUME NEW t \in Thread, CheckJob(t) PROVE LoadedInv'
  BY <1>9, ResAssumption, ThreadAssumption
     DEF CheckJob, LoadedInv, LoadedIsFilled, ReapPCs, TypeOK, ThreadPCs,
         JobPCs, Actor, CallInv, CallPCs, Goto
<1>10. ASSUME NEW t \in Thread, SyncWait(t) PROVE LoadedInv'
  BY <1>10, ResAssumption, ThreadAssumption
     DEF SyncWait, LoadedInv, LoadedIsFilled, ReapPCs, TypeOK, ThreadPCs,
         JobPCs, Actor, CallInv, CallPCs, Goto
<1>11. ASSUME UpdateBegin PROVE LoadedInv'
  BY <1>11, ResAssumption, ThreadAssumption
     DEF UpdateBegin, LoadedInv, LoadedIsFilled, ReapPCs, TypeOK, ThreadPCs,
         JobPCs, Actor, Goto
<1>12. ASSUME UpdateEnd PROVE LoadedInv'
  BY <1>12, ResAssumption, ThreadAssumption
     DEF UpdateEnd, LoadedInv, LoadedIsFilled, ReapPCs, TypeOK, ThreadPCs,
         JobPCs, Actor, Goto
<1>13. ASSUME NEW r \in Res, Added(r) PROVE LoadedInv'
  BY <1>13, ResAssumption, ThreadAssumption
     DEF Added, LoadedInv, LoadedIsFilled, ReapPCs, TypeOK, ThreadPCs, JobPCs,
         Actor, UnbornInv, Acquire, Create, Goto
<1>14. ASSUME NEW r \in Res, Updated(r) PROVE LoadedInv'
  BY <1>14, ResAssumption, ThreadAssumption
     DEF Updated, LoadedInv, LoadedIsFilled, ReapPCs, TypeOK, ThreadPCs, JobPCs,
         Actor, UnbornInv, Acquire, Create, Goto
<1>15. ASSUME Removed PROVE LoadedInv'
  BY <1>15, ResAssumption, ThreadAssumption
     DEF Removed, LoadedInv, LoadedIsFilled, ReapPCs, TypeOK, ThreadPCs, JobPCs,
         Actor, Goto
<1>16. ASSUME Erase PROVE LoadedInv'
  BY <1>16, ResAssumption, ThreadAssumption
     DEF Erase, LoadedInv, LoadedIsFilled, ReapPCs, TypeOK, ThreadPCs, JobPCs,
         Actor, EntryInv, UpdatePCs, Release, AfterRelease, Goto
<1>17. ASSUME Invalidate PROVE LoadedInv'
  BY <1>17, ResAssumption, ThreadAssumption
     DEF Invalidate, LoadedInv, LoadedIsFilled, ReapPCs, TypeOK, ThreadPCs,
         JobPCs, Actor, EntryInv, UpdatePCs, Goto
<1>18. ASSUME ReplaceRelease PROVE LoadedInv'
  BY <1>18, ResAssumption, ThreadAssumption
     DEF ReplaceRelease, LoadedInv, LoadedIsFilled, ReapPCs, TypeOK, ThreadPCs,
         JobPCs, Actor, EntryInv, UpdatePCs, Release, AfterRelease, Goto
<1>19. ASSUME Replace PROVE LoadedInv'
  BY <1>19, ResAssumption, ThreadAssumption
     DEF Replace, LoadedInv, LoadedIsFilled, ReapPCs, TypeOK, ThreadPCs, JobPCs,
         Actor, EntryInv, UpdatePCs, FreshInv, Goto
<1>20. ASSUME NEW a \in Actor, Reap(a) PROVE LoadedInv'
  BY <1>20, ResAssumption, ThreadAssumption
     DEF Reap, LoadedInv, LoadedIsFilled, ReapPCs, TypeOK, ThreadPCs, JobPCs,
         Actor, ReapInv, Goto
<1>21. ASSUME NEW a \in Actor, ReapWait(a) PROVE LoadedInv'
  BY <1>21, ResAssumption, ThreadAssumption
     DEF ReapWait, LoadedInv, LoadedIsFilled, ReapPCs, TypeOK, ThreadPCs,
         JobPCs, Actor, ReapInv, Goto
<1>22. ASSUME NEW a \in Actor, Destroy(a) PROVE LoadedInv'
  BY <1>22, ResAssumption, ThreadAssumption
     DEF Destroy, LoadedInv, LoadedIsFilled, ReapPCs, TypeOK, ThreadPCs, JobPCs,
         Actor, ReapInv, AfterRelease, Goto
<1>23. ASSUME NEW r \in Res, JobCreate(r) PROVE LoadedInv'
  BY <1>23, ResAssumption, ThreadAssumption
     DEF JobCreate, LoadedInv, LoadedIsFilled, ReapPCs, TypeOK, ThreadPCs,
         JobPCs, Actor, JobInv, RunPCs, Goto
<1>24. ASSUME NEW r \in Res, JobLoad(r) PROVE LoadedInv'
  BY <1>24, ResAssumption, ThreadAssumption
     DEF JobLoad, LoadedInv, LoadedIsFilled, ReapPCs, TypeOK, ThreadPCs, JobPCs,
         Actor, JobInv, RunPCs, Goto
<1>25. ASSUME NEW r \in Res, JobStore(r) PROVE LoadedInv'
  BY <1>25, ResAssumption, ThreadAssumption
     DEF JobStore, LoadedInv, LoadedIsFilled, ReapPCs, TypeOK, ThreadPCs,
         JobPCs, Actor, JobInv, RunPCs, Goto
<1>26. ASSUME NEW r \in Res, JobRelease(r) PROVE LoadedInv'
  BY <1>26, ResAssumption, ThreadAssumption
     DEF JobRelease, LoadedInv, LoadedIsFilled, ReapPCs, TypeOK, ThreadPCs,
         JobPCs, Actor, JobInv, RunPCs, Release, AfterRelease, Goto
<1>27. CASE UNCHANGED vars
  BY <1>27
     DEF vars, LoadedInv, LoadedIsFilled, ReapPCs, TypeOK, ThreadPCs, JobPCs,
         Actor
<1> QED
  BY <1>1, <1>2, <1>3, <1>4, <1>5, <1>6, <1>7, <1>8, <1>9, <1>10, <1>11, <1>12,
     <1>13, <1>14, <1>15, <1>16, <1>17, <1>18, <1>19, <1>20, <1>21, <1>22,
     <1>23, <1>24, <1>25, <1>26, <1>27
     DEF Next, ThreadStep, ThreadCall, UpdateStep, UpdateCall, ReleaseStep, JobStep

\* A replaced or erased entry stays invalidated, the current one is valid.
LEMMA StaleStep ==
  ASSUME TypeOK, UnbornInv, OwnedInv, CallInv, StartInv, UnloadedInv, JobInv,
         ReapInv, EntryInv, FreshInv, LoadedInv, StaleInv, AssignedInv,
         ReapedInv, [Next]_vars
  PROVE  StaleInv'
<1>1. ASSUME NEW t \in Thread, Get(t) PROVE StaleInv'
  BY <1>1, ResAssumption, ThreadAssumption
     DEF Get, StaleInv, Retiring, ReapPCs, Instantiated, Others, TypeOK,
         ThreadPCs, JobPCs, Actor, EntryInv, UpdatePCs, FreshInv, Acquire, Goto
<1>2. ASSUME NEW t \in Thread, NEW u \in Thread, NEW r \in Res, Copy(t, u, r)
      PROVE StaleInv'
  BY <1>2, ResAssumption, ThreadAssumption
     DEF Copy, StaleInv, Retiring, ReapPCs, Instantiated, Others, TypeOK,
         ThreadPCs, JobPCs, Actor, EntryInv, UpdatePCs, FreshInv, Acquire, Goto,
         Free
<1>3. ASSUME NEW t \in Thread, NEW r \in Res, Drop(t, r) PROVE StaleInv'
  BY <1>3, ResAssumption, ThreadAssumption
     DEF Drop, StaleInv, Retiring, ReapPCs, Instantiated, Others, TypeOK,
         ThreadPCs, JobPCs, Actor, EntryInv, UpdatePCs, FreshInv, Release,
         AfterRelease, Goto, Free
<1>4. ASSUME NEW t \in Thread, NEW r \in Res, NEW s \in BOOLEAN, StartLoading(t, r, s)
      PROVE StaleInv'
  BY <1>4, ResAssumption, ThreadAssumption
     DEF StartLoading, StaleInv, Retiring, ReapPCs, Instantiated, Others,
         TypeOK, ThreadPCs, JobPCs, Actor, EntryInv, UpdatePCs, FreshInv,
         UnloadedInv, Goto, Free
<1>5. ASSUME NEW t \in Thread, NEW r \in Res, Instantiate(t, r) PROVE StaleInv'
  BY <1>5, ResAssumption, ThreadAssumption
     DEF Instantiate, StaleInv, Retiring, ReapPCs, Instantiated, Others, TypeOK,
         ThreadPCs, JobPCs, Actor, UnbornInv, EntryInv, UpdatePCs, FreshInv,
         Acquire, Create, Goto, Free
<1>6. ASSUME NEW t \in Thread, AcquireForJob(t) PROVE StaleInv'
  BY <1>6, ResAssumption, ThreadAssumption
     DEF AcquireForJob, StaleInv, Retiring, ReapPCs, Instantiated, Others,
         TypeOK, ThreadPCs, JobPCs, Actor, CallInv, CallPCs, EntryInv,
         UpdatePCs, FreshInv, StartInv, StartPCs, Acquire, Goto
<1>7. ASSUME NEW t \in Thread, PushJob(t) PROVE StaleInv'
  BY <1>7, ResAssumption, ThreadAssumption
     DEF PushJob, StaleInv, Retiring, ReapPCs, Instantiated, Others, TypeOK,
         ThreadPCs, JobPCs, Actor, CallInv, CallPCs, EntryInv, UpdatePCs,
         FreshInv, StartInv, StartPCs, Goto
<1>8. ASSUME NEW t \in Thread, AssignJob(t) PROVE StaleInv'
  BY <1>8, ResAssumption, ThreadAssumption
     DEF AssignJob, StaleInv, Retiring, ReapPCs, Instantiated, Others, TypeOK,
         ThreadPCs, JobPCs, Actor, CallInv, CallPCs, EntryInv, UpdatePCs,
         FreshInv, Goto
<1>9. ASSUME NEW t \in Thread, CheckJob(t) PROVE StaleInv'
  BY <1>9, ResAssumption, ThreadAssumption
     DEF CheckJob, StaleInv, Retiring, ReapPCs, Instantiated, Others, TypeOK,
         ThreadPCs, JobPCs, Actor, CallInv, CallPCs, EntryInv, UpdatePCs,
         FreshInv, Goto
<1>10. ASSUME NEW t \in Thread, SyncWait(t) PROVE StaleInv'
  BY <1>10, ResAssumption, ThreadAssumption
     DEF SyncWait, StaleInv, Retiring, ReapPCs, Instantiated, Others, TypeOK,
         ThreadPCs, JobPCs, Actor, CallInv, CallPCs, EntryInv, UpdatePCs,
         FreshInv, Goto
<1>11. ASSUME UpdateBegin PROVE StaleInv'
  BY <1>11, ResAssumption, ThreadAssumption
     DEF UpdateBegin, StaleInv, Retiring, ReapPCs, Instantiated, Others, TypeOK,
         ThreadPCs, JobPCs, Actor, EntryInv, UpdatePCs, FreshInv, Goto
<1>12. ASSUME UpdateEnd PROVE StaleInv'
  BY <1>12, ResAssumption, ThreadAssumption
     DEF UpdateEnd, StaleInv, Retiring, ReapPCs, Instantiated, Others, TypeOK,
         ThreadPCs, JobPCs, Actor, EntryInv, UpdatePCs, FreshInv, Goto
<1>13. ASSUME NEW r \in Res, Added(r) PROVE StaleInv'
  BY <1>13, ResAssumption, ThreadAssumption
     DEF Added, StaleInv, Retiring, ReapPCs, Instantiated, Others, TypeOK,
         ThreadPCs, JobPCs, Actor, UnbornInv, EntryInv, UpdatePCs, FreshInv,
         Acquire, Create, Goto
<1>14. ASSUME NEW r \in Res, Updated(r) PROVE StaleInv'
  BY <1>14, ResAssumption, ThreadAssumption
     DEF Updated, StaleInv, Retiring, ReapPCs, Instantiated, Others, TypeOK,
         ThreadPCs, JobPCs, Actor, UnbornInv, EntryInv, UpdatePCs, FreshInv,
         Acquire, Create, Goto
<1>15. ASSUME Removed PROVE StaleInv'
  BY <1>15, ResAssumption, ThreadAssumption
     DEF Removed, StaleInv, Retiring, ReapPCs, Instantiated, Others, TypeOK,
         ThreadPCs, JobPCs, Actor, EntryInv, UpdatePCs, FreshInv, Goto
<1>16. ASSUME Erase PROVE StaleInv'
  BY <1>16, ResAssumption, ThreadAssumption
     DEF Erase, StaleInv, Retiring, ReapPCs, Instantiated, Others, TypeOK,
         ThreadPCs, JobPCs, Actor, EntryInv, UpdatePCs, FreshInv, Release,
         AfterRelease, Goto
<1>17. ASSUME Invalidate PROVE StaleInv'
  BY <1>17, ResAssumption, ThreadAssumption
     DEF Invalidate, StaleInv, Retiring, ReapPCs, Instantiated, Others, TypeOK,
         ThreadPCs, JobPCs, Actor, EntryInv, UpdatePCs, FreshInv, Goto
<1>18. ASSUME ReplaceRelease PROVE StaleInv'
  BY <1>18, ResAssumption, ThreadAssumption
     DEF ReplaceRelease, StaleInv, Retiring, ReapPCs, Instantiated, Others,
         TypeOK, ThreadPCs, JobPCs, Actor, EntryInv, UpdatePCs, FreshInv,
         Release, AfterRelease, Goto
<1>19. ASSUME Replace PROVE StaleInv'
  BY <1>19, ResAssumption, ThreadAssumption
     DEF Replace, StaleInv, Retiring, ReapPCs, Instantiated, Others, TypeOK,
         ThreadPCs, JobPCs, Actor, EntryInv, UpdatePCs, FreshInv, Goto
<1>20. ASSUME NEW a \in Actor, Reap(a) PROVE StaleInv'
  BY <1>20, ResAssumption, ThreadAssumption
     DEF Reap, StaleInv, Retiring, ReapPCs, Instantiated, Others, TypeOK,
         ThreadPCs, JobPCs, Actor, ReapInv, EntryInv, UpdatePCs, FreshInv, Goto
<1>21. ASSUME NEW a \in Actor, ReapWait(a) PROVE StaleInv'
  BY <1>21, ResAssumption, ThreadAssumption
     DEF ReapWait, StaleInv, Retiring, ReapPCs, Instantiated, Others, TypeOK,
         ThreadPCs, JobPCs, Actor, ReapInv, EntryInv, UpdatePCs, FreshInv, Goto
<1>22. ASSUME NEW a \in Actor, Destroy(a) PROVE StaleInv'
  BY <1>22, ResAssumption, ThreadAssumption
     DEF Destroy, StaleInv, Retiring, ReapPCs, Instantiated, Others, TypeOK,
         ThreadPCs, JobPCs, Actor, ReapInv, EntryInv, UpdatePCs, FreshInv,
         AfterRelease, Goto
<1>23. ASSUME NEW r \in Res, JobCreate(r) PROVE StaleInv'
  BY <1>23, ResAssumption, ThreadAssumption
     DEF JobCreate, StaleInv, Retiring, ReapPCs, Instantiated, Others, TypeOK,
         ThreadPCs, JobPCs, Actor, EntryInv, UpdatePCs, FreshInv, JobInv,
         RunPCs, Goto
<1>24. ASSUME NEW r \in Res, JobLoad(r) PROVE StaleInv'
  BY <1>24, ResAssumption, ThreadAssumption
     DEF JobLoad, StaleInv, Retiring, ReapPCs, Instantiated, Others, TypeOK,
         ThreadPCs, JobPCs, Actor, EntryInv, UpdatePCs, FreshInv, JobInv,
         RunPCs, Goto
<1>25. ASSUME NEW r \in Res, JobStore(r) PROVE StaleInv'
  BY <1>25, ResAssumption, ThreadAssumption
     DEF JobStore, StaleInv, Retiring, ReapPCs, Instantiated, Others, TypeOK,
         ThreadPCs, JobPCs, Actor, EntryInv, UpdatePCs, FreshInv, JobInv,
         RunPCs, Goto
<1>26. ASSUME NEW r \in Res, JobRelease(r) PROVE StaleInv'
  BY <1>26, ResAssumption, ThreadAssumption
     DEF JobRelease, StaleInv, Retiring, ReapPCs, Instantiated, Others, TypeOK,
         ThreadPCs, JobPCs, Actor, EntryInv, UpdatePCs, FreshInv, JobInv,
         RunPCs, Release, AfterRelease, Goto
<1>27. CASE UNCHANGED vars
  BY <1>27
     DEF vars, StaleInv, Retiring, ReapPCs, Instantiated, Others, TypeOK,
         ThreadPCs, JobPCs, Actor
<1> QED
  BY <1>1, <1>2, <1>3, <1>4, <1>5, <1>6, <1>7, <1>8, <1>9, <1>10, <1>11, <1>12,
     <1>13, <1>14, <1>15, <1>16, <1>17, <1>18, <1>19, <1>20, <1>21, <1>22,
     <1>23, <1>24, <1>25, <1>26, <1>27
     DEF Next, ThreadStep, ThreadCall, UpdateStep, UpdateCall, ReleaseStep, JobStep

\* Until loadJob is assigned, the thread that pushed the job is there.
LEMMA AssignedStep ==
  ASSUME TypeOK, UnbornInv, OwnedInv, CallInv, StartInv, UnloadedInv, JobInv,
         ReapInv, EntryInv, FreshInv, LoadedInv, StaleInv, AssignedInv,
         ReapedInv, [Next]_vars
  PROVE  AssignedInv'
<1>1. ASSUME NEW t \in Thread, Get(t) PROVE AssignedInv'
  BY <1>1, ResAssumption, ThreadAssumption
     DEF Get, AssignedInv, TypeOK, ThreadPCs, JobPCs, Actor, Acquire, Goto
<1>2. ASSUME NEW t \in Thread, NEW u \in Thread, NEW r \in Res, Copy(t, u, r)
      PROVE AssignedInv'
  BY <1>2, ResAssumption, ThreadAssumption
     DEF Copy, AssignedInv, TypeOK, ThreadPCs, JobPCs, Actor, Acquire, Goto,
         Free
<1>3. ASSUME NEW t \in Thread, NEW r \in Res, Drop(t, r) PROVE AssignedInv'
  BY <1>3, ResAssumption, ThreadAssumption
     DEF Drop, AssignedInv, TypeOK, ThreadPCs, JobPCs, Actor, Release,
         AfterRelease, Goto, Free
<1>4. ASSUME NEW t \in Thread, NEW r \in Res, NEW s \in BOOLEAN, StartLoading(t, r, s)
      PROVE AssignedInv'
  <2>1. /\ \A x \in Thread : pc[x] = "assign" => pc'[x] = "assign" /\ cur'[x] = cur[x]
        /\ \A x \in Res : pc'[x] = pc[x]
    BY <1>4, ResAssumption DEF StartLoading, Goto, Free, TypeOK, Actor
  <2> QED
    BY <1>4, <2>1 DEF StartLoading, AssignedInv
<1>5. ASSUME NEW t \in Thread, NEW r \in Res, Instantiate(t, r)
      PROVE AssignedInv'
  BY <1>5, ResAssumption, ThreadAssumption
     DEF Instantiate, AssignedInv, TypeOK, ThreadPCs, JobPCs, Actor, UnbornInv,
         Acquire, Create, Goto, Free
<1>6. ASSUME NEW t \in Thread, AcquireForJob(t) PROVE AssignedInv'
  BY <1>6, ResAssumption, ThreadAssumption
     DEF AcquireForJob, AssignedInv, TypeOK, ThreadPCs, JobPCs, Actor, CallInv,
         CallPCs, Acquire, Goto
<1>7. ASSUME NEW t \in Thread, PushJob(t) PROVE AssignedInv'
  BY <1>7, ResAssumption, ThreadAssumption
     DEF PushJob, AssignedInv, TypeOK, ThreadPCs, JobPCs, Actor, CallInv,
         CallPCs, StartInv, StartPCs, Goto
<1>8. ASSUME NEW t \in Thread, AssignJob(t) PROVE AssignedInv'
  <2>1. cur[t] \in Res
    BY <1>8 DEF AssignJob, CallInv, CallPCs
  <2>2. /\ \A x \in Thread : x # t => pc'[x] = pc[x]
        /\ \A x \in Res : pc'[x] = pc[x]
        /\ \A x \in Res : assigned'[x] <=> assigned[x] \/ x = cur[t]
        /\ cur' = cur
    BY <1>8, <2>1, ResAssumption DEF AssignJob, Goto, TypeOK, Actor
  <2>3. SUFFICES ASSUME NEW x \in Res, pc'[x] # "none", ~assigned'[x]
                 PROVE  \E u \in Thread : pc'[u] = "assign" /\ cur'[u] = x
    BY DEF AssignedInv
  <2>4. PICK u \in Thread : pc[u] = "assign" /\ cur[u] = x
    BY <2>2, <2>3 DEF AssignedInv
  <2> QED
    BY <2>2, <2>3, <2>4
<1>9. ASSUME NEW t \in Thread, CheckJob(t) PROVE AssignedInv'
  BY <1>9, ResAssumption, ThreadAssumption
     DEF CheckJob, AssignedInv, TypeOK, ThreadPCs, JobPCs, Actor, CallInv,
         CallPCs, Goto
<1>10. ASSUME NEW t \in Thread, SyncWait(t) PROVE AssignedInv'
  BY <1>10, ResAssumption, ThreadAssumption
     DEF SyncWait, AssignedInv, TypeOK, ThreadPCs, JobPCs, Actor, CallInv,
         CallPCs, Goto
<1>11. ASSUME UpdateBegin PROVE AssignedInv'
  BY <1>11, ResAssumption, ThreadAssumption
     DEF UpdateBegin, AssignedInv, TypeOK, ThreadPCs, JobPCs, Actor, Goto
<1>12. ASSUME UpdateEnd PROVE AssignedInv'
  BY <1>12, ResAssumption, ThreadAssumption
     DEF UpdateEnd, AssignedInv, TypeOK, ThreadPCs, JobPCs, Actor, Goto
<1>13. ASSUME NEW r \in Res, Added(r) PROVE AssignedInv'
  BY <1>13, ResAssumption, ThreadAssumption
     DEF Added, AssignedInv, TypeOK, ThreadPCs, JobPCs, Actor, UnbornInv,
         Acquire, Create, Goto
<1>14. ASSUME NEW r \in Res, Updated(r) PROVE AssignedInv'
  BY <1>14, ResAssumption, ThreadAssumption
     DEF Updated, AssignedInv, TypeOK, ThreadPCs, JobPCs, Actor, UnbornInv,
         Acquire, Create, Goto
<1>15. ASSUME Removed PROVE AssignedInv'
  BY <1>15, ResAssumption, ThreadAssumption
     DEF Removed, AssignedInv, TypeOK, ThreadPCs, JobPCs, Actor, Goto
<1>16. ASSUME Erase PROVE AssignedInv'
  BY <1>16, ResAssumption, ThreadAssumption
     DEF Erase, AssignedInv, TypeOK, ThreadPCs, JobPCs, Actor, EntryInv,
         UpdatePCs, Release, AfterRelease, Goto
<1>17. ASSUME Invalidate PROVE AssignedInv'
  BY <1>17, ResAssumption, ThreadAssumption
     DEF Invalidate, AssignedInv, TypeOK, ThreadPCs, JobPCs, Actor, EntryInv,
         UpdatePCs, Goto
<1>18. ASSUME ReplaceRelease PROVE AssignedInv'
  BY <1>18, ResAssumption, ThreadAssumption
     DEF ReplaceRelease, AssignedInv, TypeOK, ThreadPCs, JobPCs, Actor,
         EntryInv, UpdatePCs, Release, AfterRelease, Goto
<1>19. ASSUME Replace PROVE AssignedInv'
  BY <1>19, ResAssumption, ThreadAssumption
     DEF Replace, AssignedInv, TypeOK, ThreadPCs, JobPCs, Actor, EntryInv,
         UpdatePCs, Goto
<1>20. ASSUME NEW a \in Actor, Reap(a) PROVE AssignedInv'
  BY <1>20, ResAssumption, ThreadAssumption
     DEF Reap, AssignedInv, TypeOK, ThreadPCs, JobPCs, Actor, ReapInv, ReapPCs,
         Goto
<1>21. ASSUME NEW a \in Actor, ReapWait(a) PROVE AssignedInv'
  BY <1>21, ResAssumption, ThreadAssumption
     DEF ReapWait, AssignedInv, TypeOK, ThreadPCs, JobPCs, Actor, ReapInv,
         ReapPCs, Goto
<1>22. ASSUME NEW a \in Actor, Destroy(a) PROVE AssignedInv'
  BY <1>22, ResAssumption, ThreadAssumption
     DEF Destroy, AssignedInv, TypeOK, ThreadPCs, JobPCs, Actor, ReapInv,
         ReapPCs, AfterRelease, Goto
<1>23. ASSUME NEW r \in Res, JobCreate(r) PROVE AssignedInv'
  BY <1>23, ResAssumption, ThreadAssumption
     DEF JobCreate, AssignedInv, TypeOK, ThreadPCs, JobPCs, Actor, Goto
<1>24. ASSUME NEW r \in Res, JobLoad(r) PROVE AssignedInv'
  BY <1>24, ResAssumption, ThreadAssumption
     DEF JobLoad, AssignedInv, TypeOK, ThreadPCs, JobPCs, Actor, Goto
<1>25. ASSUME NEW r \in Res, JobStore(r) PROVE AssignedInv'
  BY <1>25, ResAssumption, ThreadAssumption
     DEF JobStore, AssignedInv, TypeOK, ThreadPCs, JobPCs, Actor, Goto
<1>26. ASSUME NEW r \in Res, JobRelease(r) PROVE AssignedInv'
  BY <1>26, ResAssumption, ThreadAssumption
     DEF JobRelease, AssignedInv, TypeOK, ThreadPCs, JobPCs, Actor, Release,
         AfterRelease, Goto
<1>27. CASE UNCHANGED vars
  BY <1>27 DEF vars, AssignedInv, TypeOK, ThreadPCs, JobPCs, Actor
<1> QED
  BY <1>1, <1>2, <1>3, <1>4, <1>5, <1>6, <1>7, <1>8, <1>9, <1>10, <1>11, <1>12,
     <1>13, <1>14, <1>15, <1>16, <1>17, <1>18, <1>19, <1>20, <1>21, <1>22,
     <1>23, <1>24, <1>25, <1>26, <1>27
     DEF Next, ThreadStep, ThreadCall, UpdateStep, UpdateCall, ReleaseStep, JobStep

\* Nothing is deleted before its load job is over.
LEMMA ReapedStep ==
  ASSUME TypeOK, UnbornInv, OwnedInv, CallInv, StartInv, UnloadedInv, JobInv,
         ReapInv, EntryInv, FreshInv, LoadedInv, StaleInv, AssignedInv,
         ReapedInv, [Next]_vars
  PROVE  ReapedInv'
<1>1. ASSUME NEW t \in Thread, Get(t) PROVE ReapedInv'
  BY <1>1, ResAssumption, ThreadAssumption
     DEF Get, ReapedInv, TypeOK, ThreadPCs, JobPCs, Actor, Acquire, Goto
<1>2. ASSUME NEW t \in Thread, NEW u \in Thread, NEW r \in Res, Copy(t, u, r)
      PROVE ReapedInv'
  BY <1>2, ResAssumption, ThreadAssumption
     DEF Copy, ReapedInv, TypeOK, ThreadPCs, JobPCs, Actor, ReapInv, ReapPCs,
         Acquire, Goto, Free
<1>3. ASSUME NEW t \in Thread, NEW r \in Res, Drop(t, r) PROVE ReapedInv'
  BY <1>3, ResAssumption, ThreadAssumption
     DEF Drop, ReapedInv, TypeOK, ThreadPCs, JobPCs, Actor, ReapInv, ReapPCs,
         Release, AfterRelease, Goto, Free
<1>4. ASSUME NEW t \in Thread, NEW r \in Res, NEW s \in BOOLEAN, StartLoading(t, r, s)
      PROVE ReapedInv'
  BY <1>4, ResAssumption, ThreadAssumption
     DEF StartLoading, ReapedInv, TypeOK, ThreadPCs, JobPCs, Actor, ReapInv,
         ReapPCs, Goto, Free
<1>5. ASSUME NEW t \in Thread, NEW r \in Res, Instantiate(t, r) PROVE ReapedInv'
  BY <1>5, ResAssumption, ThreadAssumption
     DEF Instantiate, ReapedInv, TypeOK, ThreadPCs, JobPCs, Actor, UnbornInv,
         Acquire, Create, Goto, Free
<1>6. ASSUME NEW t \in Thread, AcquireForJob(t) PROVE ReapedInv'
  BY <1>6, ResAssumption, ThreadAssumption
     DEF AcquireForJob, ReapedInv, TypeOK, ThreadPCs, JobPCs, Actor, CallInv,
         CallPCs, JobInv, RunPCs, ReapInv, ReapPCs, OwnedInv, Acquire, Goto
<1>7. ASSUME NEW t \in Thread, PushJob(t) PROVE ReapedInv'
  BY <1>7, ResAssumption, ThreadAssumption
     DEF PushJob, ReapedInv, TypeOK, ThreadPCs, JobPCs, Actor, CallInv, CallPCs,
         StartInv, StartPCs, OwnedInv, ReapInv, ReapPCs, Goto
<1>8. ASSUME NEW t \in Thread, AssignJob(t) PROVE ReapedInv'
  BY <1>8, ResAssumption, ThreadAssumption
     DEF AssignJob, ReapedInv, TypeOK, ThreadPCs, JobPCs, Actor, CallInv,
         CallPCs, ReapInv, ReapPCs, Goto
<1>9. ASSUME NEW t \in Thread, CheckJob(t) PROVE ReapedInv'
  BY <1>9, ResAssumption, ThreadAssumption
     DEF CheckJob, ReapedInv, TypeOK, ThreadPCs, JobPCs, Actor, CallInv,
         CallPCs, JobInv, RunPCs, ReapInv, ReapPCs, OwnedInv, Goto
<1>10. ASSUME NEW t \in Thread, SyncWait(t) PROVE ReapedInv'
  BY <1>10, ResAssumption, ThreadAssumption
     DEF SyncWait, ReapedInv, TypeOK, ThreadPCs, JobPCs, Actor, CallInv,
         CallPCs, JobInv, RunPCs, ReapInv, ReapPCs, OwnedInv, Goto
<1>11. ASSUME UpdateBegin PROVE ReapedInv'
  BY <1>11, ResAssumption, ThreadAssumption
     DEF UpdateBegin, ReapedInv, TypeOK, ThreadPCs, JobPCs, Actor, Goto
<1>12. ASSUME UpdateEnd PROVE ReapedInv'
  BY <1>12, ResAssumption, ThreadAssumption
     DEF UpdateEnd, ReapedInv, TypeOK, ThreadPCs, JobPCs, Actor, Goto
<1>13. ASSUME NEW r \in Res, Added(r) PROVE ReapedInv'
  BY <1>13, ResAssumption, ThreadAssumption
     DEF Added, ReapedInv, TypeOK, ThreadPCs, JobPCs, Actor, UnbornInv, Acquire,
         Create, Goto
<1>14. ASSUME NEW r \in Res, Updated(r) PROVE ReapedInv'
  BY <1>14, ResAssumption, ThreadAssumption
     DEF Updated, ReapedInv, TypeOK, ThreadPCs, JobPCs, Actor, UnbornInv,
         JobInv, RunPCs, ReapInv, ReapPCs, OwnedInv, Acquire, Create, Goto
<1>15. ASSUME Removed PROVE ReapedInv'
  BY <1>15, ResAssumption, ThreadAssumption
     DEF Removed, ReapedInv, TypeOK, ThreadPCs, JobPCs, Actor, JobInv, RunPCs,
         ReapInv, ReapPCs, OwnedInv, Goto
<1>16. ASSUME Erase PROVE ReapedInv'
  BY <1>16, ResAssumption, ThreadAssumption
     DEF Erase, ReapedInv, TypeOK, ThreadPCs, JobPCs, Actor, EntryInv,
         UpdatePCs, JobInv, RunPCs, ReapInv, ReapPCs, OwnedInv, Release,
         AfterRelease, Goto
<1>17. ASSUME Invalidate PROVE ReapedInv'
  BY <1>17, ResAssumption, ThreadAssumption
     DEF Invalidate, ReapedInv, TypeOK, ThreadPCs, JobPCs, Actor, EntryInv,
         UpdatePCs, Goto
<1>18. ASSUME ReplaceRelease PROVE ReapedInv'
  BY <1>18, ResAssumption, ThreadAssumption
     DEF ReplaceRelease, ReapedInv, TypeOK, ThreadPCs, JobPCs, Actor, EntryInv,
         UpdatePCs, JobInv, RunPCs, ReapInv, ReapPCs, OwnedInv, Release,
         AfterRelease, Goto
<1>19. ASSUME Replace PROVE ReapedInv'
  BY <1>19, ResAssumption, ThreadAssumption
     DEF Replace, ReapedInv, TypeOK, ThreadPCs, JobPCs, Actor, EntryInv,
         UpdatePCs, Goto
<1>20. ASSUME NEW a \in Actor, Reap(a) PROVE ReapedInv'
  BY <1>20, ResAssumption, ThreadAssumption
     DEF Reap, ReapedInv, TypeOK, ThreadPCs, JobPCs, Actor, ReapInv, ReapPCs,
         CallInv, CallPCs, AssignedInv, Goto
<1>21. ASSUME NEW a \in Actor, ReapWait(a) PROVE ReapedInv'
  BY <1>21, ResAssumption, ThreadAssumption
     DEF ReapWait, ReapedInv, TypeOK, ThreadPCs, JobPCs, Actor, ReapInv,
         ReapPCs, CallInv, CallPCs, AssignedInv, Goto
<1>22. ASSUME NEW a \in Actor, Destroy(a) PROVE ReapedInv'
  BY <1>22, ResAssumption, ThreadAssumption
     DEF Destroy, ReapedInv, TypeOK, ThreadPCs, JobPCs, Actor, ReapInv, ReapPCs,
         CallInv, CallPCs, AssignedInv, AfterRelease, Goto
<1>23. ASSUME NEW r \in Res, JobCreate(r) PROVE ReapedInv'
  BY <1>23, ResAssumption, ThreadAssumption
     DEF JobCreate, ReapedInv, TypeOK, ThreadPCs, JobPCs, Actor, JobInv, RunPCs,
         ReapInv, ReapPCs, OwnedInv, Goto
<1>24. ASSUME NEW r \in Res, JobLoad(r) PROVE ReapedInv'
  BY <1>24, ResAssumption, ThreadAssumption
     DEF JobLoad, ReapedInv, TypeOK, ThreadPCs, JobPCs, Actor, JobInv, RunPCs,
         ReapInv, ReapPCs, OwnedInv, Goto
<1>25. ASSUME NEW r \in Res, JobStore(r) PROVE ReapedInv'
  BY <1>25, ResAssumption, ThreadAssumption
     DEF JobStore, ReapedInv, TypeOK, ThreadPCs, JobPCs, Actor, JobInv, RunPCs,
         ReapInv, ReapPCs, OwnedInv, Goto
<1>26. ASSUME NEW r \in Res, JobRelease(r) PROVE ReapedInv'
  BY <1>26, ResAssumption, ThreadAssumption
     DEF JobRelease, ReapedInv, TypeOK, ThreadPCs, JobPCs, Actor, JobInv,
         RunPCs, ReapInv, ReapPCs, OwnedInv, Release, AfterRelease, Goto
<1>27. CASE UNCHANGED vars
  BY <1>27 DEF vars, ReapedInv, TypeOK, ThreadPCs, JobPCs, Actor
<1> QED
  BY <1>1, <1>2, <1>3, <1>4, <1>5, <1>6, <1>7, <1>8, <1>9, <1>10, <1>11, <1>12,
     <1>13, <1>14, <1>15, <1>16, <1>17, <1>18, <1>19, <1>20, <1>21, <1>22,
     <1>23, <1>24, <1>25, <1>26, <1>27
     DEF Next, ThreadStep, ThreadCall, UpdateStep, UpdateCall, ReleaseStep, JobStep

\* A new owner takes a pointer.
LEMMA CountAdd ==
  ASSUME TypeOK, CounterExact, NEW r \in Res, NEW o, o \notin owners[r],
         Acquire(r, o)
  PROVE  CounterExact'
<1> SUFFICES ASSUME NEW x \in Res
             PROVE  counter'[x] = Cardinality(owners'[x])
  BY DEF CounterExact
<1>1. CASE x = r
  <2>1. Cardinality(owners[r] \cup {o}) = Cardinality(owners[r]) + 1
    BY OwnersFinite, FS_AddElement
  <2>2. counter'[r] = counter[r] + 1 /\ owners'[r] = owners[r] \cup {o}
    BY DEF Acquire, TypeOK
  <2> QED
    BY <1>1, <2>1, <2>2 DEF CounterExact
<1>2. CASE x # r
  BY <1>2 DEF Acquire, TypeOK, CounterExact
<1> QED
  BY <1>1, <1>2

\* An owner gives up its pointer.
LEMMA CountRemove ==
  ASSUME TypeOK, CounterExact, NEW r \in Res, NEW o, o \in owners[r],
         NEW a, Release(a, r, o)
  PROVE  CounterExact'
<1> SUFFICES ASSUME NEW x \in Res
             PROVE  counter'[x] = Cardinality(owners'[x])
  BY DEF CounterExact
<1>1. CASE x = r
  <2>1. Cardinality(owners[r] \ {o}) = Cardinality(owners[r]) - 1
    BY OwnersFinite, FS_RemoveElement
  <2>2. counter'[r] = counter[r] - 1 /\ owners'[r] = owners[r] \ {o}
    BY DEF Release, TypeOK
  <2> QED
    BY <1>1, <2>1, <2>2 DEF CounterExact
<1>2. CASE x # r
  BY <1>2 DEF Release, TypeOK, CounterExact
<1> QED
  BY <1>1, <1>2

\* The pointer of update()'s event becomes the pointer of the entry.
LEMMA CountReplace ==
  ASSUME TypeOK, CounterExact, EntryInv, FreshInv, Replace
  PROVE  CounterExact'
<1>1. /\ fresh \in Res /\ "event" \in owners[fresh]
      /\ "registry" \notin owners[fresh] \ {"event"}
  BY DEF Replace, FreshInv, TypeOK
<1>2. /\ IsFiniteSet(owners[fresh] \ {"event"})
      /\ Cardinality(owners[fresh] \ {"event"}) = Cardinality(owners[fresh]) - 1
  BY <1>1, OwnersFinite, FS_RemoveElement
<1>3. Cardinality((owners[fresh] \ {"event"}) \cup {"registry"})
        = Cardinality(owners[fresh] \ {"event"}) + 1
  BY <1>1, <1>2, FS_AddElement
<1>4. Cardinality(owners[fresh]) \in Nat
  BY <1>1, OwnersFinite, FS_CardinalityType
<1>5. Cardinality((owners[fresh] \ {"event"}) \cup {"registry"})
        = Cardinality(owners[fresh])
  BY <1>2, <1>3, <1>4
<1>6. /\ owners'[fresh] = (owners[fresh] \ {"event"}) \cup {"registry"}
      /\ \A x \in Res : x # fresh => owners'[x] = owners[x]
      /\ counter' = counter
  BY <1>1 DEF Replace, TypeOK
<1> QED
  BY <1>5, <1>6, <1>1 DEF CounterExact

\* The counter stays the number of owners.
LEMMA CounterStep ==
  ASSUME CounterExact, TypeOK, UnbornInv, OwnedInv, CallInv, StartInv,
         UnloadedInv, JobInv, ReapInv, EntryInv, FreshInv, LoadedInv, StaleInv,
         AssignedInv, ReapedInv, [Next]_vars
  PROVE  CounterExact'
<1>1. ASSUME NEW t \in Thread, Get(t) PROVE CounterExact'
  <2>1. entry \in Res /\ t \notin owners[entry]
    BY <1>1, ThreadAssumption DEF Get, TypeOK, Owner
  <2> QED
    BY <1>1, <2>1, CountAdd DEF Get
<1>2. ASSUME NEW t \in Thread, NEW u \in Thread, NEW r \in Res, Copy(t, u, r)
      PROVE CounterExact'
  <2>1. u \notin owners[r]
    BY <1>2, ThreadAssumption DEF Copy, TypeOK, Owner
  <2> QED
    BY <1>2, <2>1, CountAdd DEF Copy
<1>3. ASSUME NEW t \in Thread, NEW r \in Res, Drop(t, r) PROVE CounterExact'
  <2>1. t \in owners[r]
    BY <1>3, ThreadAssumption DEF Drop, TypeOK, Owner
  <2> QED
    BY <1>3, <2>1, CountRemove DEF Drop
<1>4. ASSUME NEW t \in Thread, NEW r \in Res, NEW s \in BOOLEAN, StartLoading(t, r, s)
      PROVE CounterExact'
  BY <1>4, ResAssumption, ThreadAssumption
     DEF StartLoading, CounterExact, Goto, Free
<1>5. ASSUME NEW t \in Thread, NEW r \in Res, Instantiate(t, r)
      PROVE CounterExact'
  <2>1. t \notin owners[r] /\ Acquire(r, t)
    BY <1>5, ThreadAssumption DEF Instantiate, TypeOK, Create, UnbornInv
  <2> QED
    BY <1>5, <2>1, CountAdd DEF Instantiate
<1>6. ASSUME NEW t \in Thread, AcquireForJob(t) PROVE CounterExact'
  <2>1. cur[t] \in Res /\ "job" \notin owners[cur[t]]
    BY <1>6, ThreadAssumption
       DEF AcquireForJob, TypeOK, CallInv, CallPCs, StartInv, StartPCs
  <2> QED
    BY <1>6, <2>1, CountAdd DEF AcquireForJob
<1>7. ASSUME NEW t \in Thread, PushJob(t) PROVE CounterExact'
  BY <1>7, ResAssumption, ThreadAssumption DEF PushJob, CounterExact, Goto
<1>8. ASSUME NEW t \in Thread, AssignJob(t) PROVE CounterExact'
  BY <1>8, ResAssumption, ThreadAssumption DEF AssignJob, CounterExact, Goto
<1>9. ASSUME NEW t \in Thread, CheckJob(t) PROVE CounterExact'
  BY <1>9, ResAssumption, ThreadAssumption DEF CheckJob, CounterExact, Goto
<1>10. ASSUME NEW t \in Thread, SyncWait(t) PROVE CounterExact'
  BY <1>10, ResAssumption, ThreadAssumption DEF SyncWait, CounterExact, Goto
<1>11. ASSUME UpdateBegin PROVE CounterExact'
  BY <1>11, ResAssumption, ThreadAssumption DEF UpdateBegin, CounterExact, Goto
<1>12. ASSUME UpdateEnd PROVE CounterExact'
  BY <1>12, ResAssumption, ThreadAssumption DEF UpdateEnd, CounterExact, Goto
<1>13. ASSUME NEW r \in Res, Added(r) PROVE CounterExact'
  <2>1. CASE entry = NoRes
    <3>1. "registry" \notin owners[r] /\ Acquire(r, "registry")
      BY <1>13, <2>1 DEF Added, Create, UnbornInv
    <3> QED
      BY <3>1, CountAdd
  <2>2. CASE entry # NoRes
    BY <1>13, <2>2 DEF Added, CounterExact
  <2> QED
    BY <2>1, <2>2
<1>14. ASSUME NEW r \in Res, Updated(r) PROVE CounterExact'
  <2>1. "event" \notin owners[r] /\ Acquire(r, "event")
    BY <1>14, ThreadAssumption DEF Updated, TypeOK, Create, UnbornInv
  <2> QED
    BY <1>14, <2>1, CountAdd DEF Updated
<1>15. ASSUME Removed PROVE CounterExact'
  BY <1>15, ResAssumption, ThreadAssumption DEF Removed, CounterExact, Goto
<1>16. ASSUME Erase PROVE CounterExact'
  <2>1. cur[Main] \in Res /\ "registry" \in owners[cur[Main]]
    BY <1>16, ThreadAssumption DEF Erase, TypeOK, EntryInv, UpdatePCs
  <2> QED
    BY <1>16, <2>1, CountRemove DEF Erase
<1>17. ASSUME Invalidate PROVE CounterExact'
  BY <1>17, ResAssumption, ThreadAssumption DEF Invalidate, CounterExact, Goto
<1>18. ASSUME ReplaceRelease PROVE CounterExact'
  <2>1. cur[Main] \in Res /\ "registry" \in owners[cur[Main]]
    BY <1>18, ThreadAssumption DEF ReplaceRelease, TypeOK, EntryInv, UpdatePCs
  <2> QED
    BY <1>18, <2>1, CountRemove DEF ReplaceRelease
<1>19. ASSUME Replace PROVE CounterExact'
  BY <1>19, CountReplace
<1>20. ASSUME NEW a \in Actor, Reap(a) PROVE CounterExact'
  BY <1>20, ResAssumption, ThreadAssumption DEF Reap, CounterExact, Goto
<1>21. ASSUME NEW a \in Actor, ReapWait(a) PROVE CounterExact'
  BY <1>21, ResAssumption, ThreadAssumption DEF ReapWait, CounterExact, Goto
<1>22. ASSUME NEW a \in Actor, Destroy(a) PROVE CounterExact'
  BY <1>22, ResAssumption, ThreadAssumption
     DEF Destroy, CounterExact, AfterRelease, Goto
<1>23. ASSUME NEW r \in Res, JobCreate(r) PROVE CounterExact'
  BY <1>23, ResAssumption, ThreadAssumption DEF JobCreate, CounterExact, Goto
<1>24. ASSUME NEW r \in Res, JobLoad(r) PROVE CounterExact'
  BY <1>24, ResAssumption, ThreadAssumption DEF JobLoad, CounterExact, Goto
<1>25. ASSUME NEW r \in Res, JobStore(r) PROVE CounterExact'
  BY <1>25, ResAssumption, ThreadAssumption DEF JobStore, CounterExact, Goto
<1>26. ASSUME NEW r \in Res, JobRelease(r) PROVE CounterExact'
  <2>1. "job" \in owners[r]
    BY <1>26, ThreadAssumption DEF JobRelease, TypeOK, JobInv, RunPCs
  <2> QED
    BY <1>26, <2>1, CountRemove DEF JobRelease
<1>27. CASE UNCHANGED vars
  BY <1>27 DEF vars, CounterExact
<1> QED
  BY <1>1, <1>2, <1>3, <1>4, <1>5, <1>6, <1>7, <1>8, <1>9, <1>10, <1>11, <1>12,
     <1>13, <1>14, <1>15, <1>16, <1>17, <1>18, <1>19, <1>20, <1>21, <1>22,
     <1>23, <1>24, <1>25, <1>26, <1>27
     DEF Next, ThreadStep, ThreadCall, UpdateStep, UpdateCall, ReleaseStep, JobStep

\* Waiters are threads.
LEMMA WaitersFinite ==
  ASSUME NEW r \in Res
  PROVE  IsFiniteSet(Waiters(r))
  BY ThreadAssumption, FS_Subset DEF Waiters

\* A step that leaves the references to a job alone keeps them exact.
LEMMA HandleKept ==
  ASSUME HandleInv,
         jobRefs' = jobRefs,
         \A r \in Res : /\ Waiters(r)' = Waiters(r)
                        /\ HandleGone(r)' <=> HandleGone(r)
  PROVE  HandleInv'
  BY DEF HandleInv

\* Only a push, a load_sync and the last release change the references to a job.
LEMMA HandleStep ==
  ASSUME HandleInv, TypeOK, UnbornInv, OwnedInv, CallInv, StartInv, UnloadedInv,
         JobInv, ReapInv, EntryInv, FreshInv, LoadedInv, StaleInv, AssignedInv,
         ReapedInv, [Next]_vars
  PROVE  HandleInv'
<1>1. ASSUME NEW t \in Thread, Get(t) PROVE HandleInv'
  <2>1. jobRefs' = jobRefs
    BY <1>1 DEF Get, Acquire, Goto
  <2>2. \A x \in Res : Waiters(x)' = Waiters(x)
    BY <1>1, ResAssumption, ThreadAssumption
       DEF Waiters, TypeOK, Actor, Get, Acquire, Goto
  <2>3. \A x \in Res : HandleGone(x)' <=> HandleGone(x)
    BY <1>1, ResAssumption, ThreadAssumption
       DEF HandleGone, TypeOK, Actor, Get, Acquire, Goto
  <2> QED
    BY <2>1, <2>2, <2>3, HandleKept
<1>2. ASSUME NEW t \in Thread, NEW u \in Thread, NEW r \in Res, Copy(t, u, r)
      PROVE HandleInv'
  <2>1. jobRefs' = jobRefs
    BY <1>2 DEF Copy, Acquire, Goto, Free
  <2>2. \A x \in Res : Waiters(x)' = Waiters(x)
    BY <1>2, ResAssumption, ThreadAssumption
       DEF Waiters, TypeOK, Actor, Copy, Acquire, Goto, Free
  <2>3. \A x \in Res : HandleGone(x)' <=> HandleGone(x)
    BY <1>2, ResAssumption, ThreadAssumption
       DEF HandleGone, TypeOK, Actor, Copy, Acquire, Goto, Free
  <2> QED
    BY <2>1, <2>2, <2>3, HandleKept
<1>3. ASSUME NEW t \in Thread, NEW r \in Res, Drop(t, r) PROVE HandleInv'
  <2>1. jobRefs' = jobRefs
    BY <1>3 DEF Drop, Release, AfterRelease, Goto, Free
  <2>2. \A x \in Res : Waiters(x)' = Waiters(x)
    BY <1>3, ResAssumption, ThreadAssumption
       DEF Waiters, TypeOK, Actor, Drop, Release, AfterRelease, Goto, Free
  <2>3. \A x \in Res : HandleGone(x)' <=> HandleGone(x)
    BY <1>3, ResAssumption, ThreadAssumption
       DEF HandleGone, TypeOK, Actor, Drop, Release, AfterRelease, Goto, Free
  <2> QED
    BY <2>1, <2>2, <2>3, HandleKept
<1>4. ASSUME NEW t \in Thread, NEW r \in Res, NEW s \in BOOLEAN, StartLoading(t, r, s)
      PROVE HandleInv'
  <2>1. jobRefs' = jobRefs
    BY <1>4 DEF StartLoading, Goto, Free
  <2>2. \A x \in Res : Waiters(x)' = Waiters(x)
    BY <1>4, ResAssumption, ThreadAssumption
       DEF Waiters, TypeOK, Actor, StartLoading, Goto, Free
  <2>3. \A x \in Res : HandleGone(x)' <=> HandleGone(x)
    BY <1>4, ResAssumption, ThreadAssumption
       DEF HandleGone, TypeOK, Actor, StartLoading, Goto, Free
  <2> QED
    BY <2>1, <2>2, <2>3, HandleKept
<1>5. ASSUME NEW t \in Thread, NEW r \in Res, Instantiate(t, r) PROVE HandleInv'
  <2>1. jobRefs' = jobRefs
    BY <1>5 DEF Instantiate, Acquire, Create, Goto, Free, UnbornInv
  <2>2. \A x \in Res : Waiters(x)' = Waiters(x)
    BY <1>5, ResAssumption, ThreadAssumption
       DEF Waiters, TypeOK, Actor, Instantiate, Acquire, Create, Goto, Free, UnbornInv
  <2>3. \A x \in Res : HandleGone(x)' <=> HandleGone(x)
    BY <1>5, ResAssumption, ThreadAssumption
       DEF HandleGone, TypeOK, Actor, Instantiate, Acquire, Create, Goto, Free, UnbornInv
  <2> QED
    BY <2>1, <2>2, <2>3, HandleKept
<1>6. ASSUME NEW t \in Thread, AcquireForJob(t) PROVE HandleInv'
  <2>1. jobRefs' = jobRefs
    BY <1>6
       DEF AcquireForJob, Acquire, Goto, CallInv, CallPCs, StartInv, StartPCs
  <2>2. \A x \in Res : Waiters(x)' = Waiters(x)
    BY <1>6, ResAssumption, ThreadAssumption
       DEF Waiters, TypeOK, Actor, AcquireForJob, Acquire, Goto, CallInv, CallPCs, StartInv, StartPCs
  <2>3. \A x \in Res : HandleGone(x)' <=> HandleGone(x)
    BY <1>6, ResAssumption, ThreadAssumption
       DEF HandleGone, TypeOK, Actor, AcquireForJob, Acquire, Goto, CallInv, CallPCs, StartInv, StartPCs
  <2> QED
    BY <2>1, <2>2, <2>3, HandleKept
<1>7. ASSUME NEW t \in Thread, PushJob(t) PROVE HandleInv'
  <2>1. /\ cur[t] \in Res /\ t \in owners[cur[t]] /\ pc[cur[t]] = "none"
        /\ cur[t] \notin deleted
    BY <1>7 DEF PushJob, CallInv, CallPCs, StartInv, StartPCs, OwnedInv
  <2>2. pc' = [pc EXCEPT ![t] = "assign", ![cur[t]] = "create"]
        /\ jobRefs' = [jobRefs EXCEPT ![cur[t]] = @ + 1]
        /\ cur' = cur /\ deleted' = deleted /\ pc[t] = "push"
    BY <1>7 DEF PushJob
  <2>3. \A x \in Res : Waiters(x)' = Waiters(x)
    BY <2>1, <2>2, ResAssumption DEF Waiters, TypeOK, Actor
  <2>4. ~ \E a \in Actor : pc[a] = "destroy" /\ cur[a] = cur[t]
    BY <2>1 DEF ReapInv, ReapPCs
  <2>5. \A x \in Res : x = cur[t] => HandleGone(x) /\ ~HandleGone(x)'
    BY <2>1, <2>2, <2>4, ResAssumption DEF HandleGone, TypeOK, Actor
  <2>6. \A x \in Res : x # cur[t] => (HandleGone(x)' <=> HandleGone(x))
    BY <2>1, <2>2, ResAssumption DEF HandleGone, TypeOK, Actor
  <2>7. \A x \in Res : Cardinality(Waiters(x)) \in Nat
    BY WaitersFinite, FS_CardinalityType
  <2>8. \A x \in Res :
          jobRefs'[x] = IF x = cur[t] THEN jobRefs[x] + 1 ELSE jobRefs[x]
    BY <2>1, <2>2 DEF TypeOK
  <2> SUFFICES ASSUME NEW x \in Res
               PROVE  jobRefs'[x] = Cardinality(Waiters(x)') +
                                      (IF HandleGone(x)' THEN 0 ELSE 1)
    BY DEF HandleInv
  <2>9. jobRefs[x] = Cardinality(Waiters(x)) + (IF HandleGone(x) THEN 0 ELSE 1)
    BY DEF HandleInv
  <2> QED
    BY <2>3, <2>5, <2>6, <2>7, <2>8, <2>9
<1>8. ASSUME NEW t \in Thread, AssignJob(t) PROVE HandleInv'
  <2>1. jobRefs' = jobRefs
    BY <1>8 DEF AssignJob, Goto, CallInv, CallPCs
  <2>2. \A x \in Res : Waiters(x)' = Waiters(x)
    BY <1>8, ResAssumption, ThreadAssumption
       DEF Waiters, TypeOK, Actor, AssignJob, Goto, CallInv, CallPCs
  <2>3. \A x \in Res : HandleGone(x)' <=> HandleGone(x)
    BY <1>8, ResAssumption, ThreadAssumption
       DEF HandleGone, TypeOK, Actor, AssignJob, Goto, CallInv, CallPCs
  <2> QED
    BY <2>1, <2>2, <2>3, HandleKept
<1>9. ASSUME NEW t \in Thread, CheckJob(t) PROVE HandleInv'
  <2>1. cur[t] \in Res /\ cur' = cur /\ deleted' = deleted
    BY <1>9 DEF CheckJob, CallInv, CallPCs
  <2>2. /\ \A x \in Actor : x # t => pc'[x] = pc[x]
        /\ pc[t] # "destroy" /\ pc'[t] # "destroy"
    BY <1>9, ResAssumption DEF CheckJob, Goto, TypeOK, Actor
  <2>3. \A x \in Res : HandleGone(x)' <=> HandleGone(x)
    BY <2>1, <2>2, ResAssumption DEF HandleGone, Actor
  <2>4. \A x \in Res : x # cur[t] => Waiters(x)' = Waiters(x)
    BY <2>1, <2>2 DEF Waiters, Actor
  <2>5. CASE assigned[cur[t]]
    <3>1. /\ jobRefs' = [jobRefs EXCEPT ![cur[t]] = @ + 1]
          /\ pc[t] = "check" /\ pc'[t] = "sync_wait"
      BY <1>9, <2>5 DEF CheckJob, Goto, TypeOK, Actor
    <3>2. \A x \in Res : x = cur[t] =>
            Waiters(x)' = Waiters(x) \cup {t} /\ t \notin Waiters(x)
      BY <2>1, <2>2, <3>1 DEF Waiters, Actor
    <3>3. \A x \in Res : x = cur[t] =>
            Cardinality(Waiters(x)') = Cardinality(Waiters(x)) + 1
      BY <2>1, <3>2, WaitersFinite, FS_AddElement
    <3>4. \A x \in Res : Cardinality(Waiters(x)) \in Nat
      BY WaitersFinite, FS_CardinalityType
    <3>5. \A x \in Res :
            jobRefs'[x] = IF x = cur[t] THEN jobRefs[x] + 1 ELSE jobRefs[x]
      BY <2>1, <3>1 DEF TypeOK
    <3> SUFFICES ASSUME NEW x \in Res
                 PROVE  jobRefs'[x] = Cardinality(Waiters(x)') +
                                        (IF HandleGone(x)' THEN 0 ELSE 1)
      BY DEF HandleInv
    <3>6. jobRefs[x] = Cardinality(Waiters(x)) + (IF HandleGone(x) THEN 0 ELSE 1)
      BY DEF HandleInv
    <3> QED
      BY <2>3, <2>4, <3>3, <3>4, <3>5, <3>6
  <2>6. CASE ~assigned[cur[t]]
    <3>1. jobRefs' = jobRefs /\ pc[t] = "check" /\ pc'[t] = "aborted"
      BY <1>9, <2>6 DEF CheckJob, Goto, TypeOK, Actor
    <3>2. \A x \in Res : x = cur[t] => Waiters(x)' = Waiters(x)
      BY <2>1, <2>2, <3>1 DEF Waiters, Actor
    <3> QED
      BY <2>3, <2>4, <3>1, <3>2, HandleKept
  <2> QED
    BY <2>5, <2>6
<1>10. ASSUME NEW t \in Thread, SyncWait(t) PROVE HandleInv'
  <2>1. cur[t] \in Res /\ cur' = cur /\ deleted' = deleted
    BY <1>10 DEF SyncWait, CallInv, CallPCs
  <2>2. /\ \A x \in Actor : x # t => pc'[x] = pc[x]
        /\ pc[t] # "destroy" /\ pc'[t] # "destroy"
    BY <1>10, ResAssumption DEF SyncWait, Goto, TypeOK, Actor
  <2>3. \A x \in Res : HandleGone(x)' <=> HandleGone(x)
    BY <2>1, <2>2, ResAssumption DEF HandleGone, Actor
  <2>4. \A x \in Res : x # cur[t] => Waiters(x)' = Waiters(x)
    BY <2>1, <2>2 DEF Waiters, Actor
  <2>5. /\ jobRefs' = [jobRefs EXCEPT ![cur[t]] = @ - 1]
        /\ pc[t] = "sync_wait" /\ pc'[t] = "idle"
    BY <1>10 DEF SyncWait, Goto, TypeOK, Actor
  <2>6. \A x \in Res : x = cur[t] =>
          Waiters(x)' = Waiters(x) \ {t} /\ t \in Waiters(x)
    BY <2>1, <2>2, <2>5 DEF Waiters, Actor
  <2>7. \A x \in Res : x = cur[t] =>
          Cardinality(Waiters(x)') = Cardinality(Waiters(x)) - 1
    BY <2>1, <2>6, WaitersFinite, FS_RemoveElement
  <2>8. \A x \in Res : Cardinality(Waiters(x)) \in Nat
    BY WaitersFinite, FS_CardinalityType
  <2>9. \A x \in Res :
          jobRefs'[x] = IF x = cur[t] THEN jobRefs[x] - 1 ELSE jobRefs[x]
    BY <2>1, <2>5 DEF TypeOK
  <2> SUFFICES ASSUME NEW x \in Res
               PROVE  jobRefs'[x] = Cardinality(Waiters(x)') +
                                      (IF HandleGone(x)' THEN 0 ELSE 1)
    BY DEF HandleInv
  <2>10. jobRefs[x] = Cardinality(Waiters(x)) + (IF HandleGone(x) THEN 0 ELSE 1)
    BY DEF HandleInv
  <2> QED
    BY <2>3, <2>4, <2>7, <2>8, <2>9, <2>10
<1>11. ASSUME UpdateBegin PROVE HandleInv'
  <2>1. jobRefs' = jobRefs
    BY <1>11 DEF UpdateBegin, Goto
  <2>2. \A x \in Res : Waiters(x)' = Waiters(x)
    BY <1>11, ResAssumption, ThreadAssumption
       DEF Waiters, TypeOK, Actor, UpdateBegin, Goto
  <2>3. \A x \in Res : HandleGone(x)' <=> HandleGone(x)
    BY <1>11, ResAssumption, ThreadAssumption
       DEF HandleGone, TypeOK, Actor, UpdateBegin, Goto
  <2> QED
    BY <2>1, <2>2, <2>3, HandleKept
<1>12. ASSUME UpdateEnd PROVE HandleInv'
  <2>1. jobRefs' = jobRefs
    BY <1>12 DEF UpdateEnd, Goto
  <2>2. \A x \in Res : Waiters(x)' = Waiters(x)
    BY <1>12, ResAssumption, ThreadAssumption
       DEF Waiters, TypeOK, Actor, UpdateEnd, Goto
  <2>3. \A x \in Res : HandleGone(x)' <=> HandleGone(x)
    BY <1>12, ResAssumption, ThreadAssumption
       DEF HandleGone, TypeOK, Actor, UpdateEnd, Goto
  <2> QED
    BY <2>1, <2>2, <2>3, HandleKept
<1>13. ASSUME NEW r \in Res, Added(r) PROVE HandleInv'
  <2>1. jobRefs' = jobRefs
    BY <1>13 DEF Added, Acquire, Create, Goto, UnbornInv
  <2>2. \A x \in Res : Waiters(x)' = Waiters(x)
    BY <1>13, ResAssumption, ThreadAssumption
       DEF Waiters, TypeOK, Actor, Added, Acquire, Create, Goto, UnbornInv
  <2>3. \A x \in Res : HandleGone(x)' <=> HandleGone(x)
    BY <1>13, ResAssumption, ThreadAssumption
       DEF HandleGone, TypeOK, Actor, Added, Acquire, Create, Goto, UnbornInv
  <2> QED
    BY <2>1, <2>2, <2>3, HandleKept
<1>14. ASSUME NEW r \in Res, Updated(r) PROVE HandleInv'
  <2>1. jobRefs' = jobRefs
    BY <1>14 DEF Updated, Acquire, Create, Goto, UnbornInv
  <2>2. \A x \in Res : Waiters(x)' = Waiters(x)
    BY <1>14, ResAssumption, ThreadAssumption
       DEF Waiters, TypeOK, Actor, Updated, Acquire, Create, Goto, UnbornInv
  <2>3. \A x \in Res : HandleGone(x)' <=> HandleGone(x)
    BY <1>14, ResAssumption, ThreadAssumption
       DEF HandleGone, TypeOK, Actor, Updated, Acquire, Create, Goto, UnbornInv
  <2> QED
    BY <2>1, <2>2, <2>3, HandleKept
<1>15. ASSUME Removed PROVE HandleInv'
  <2>1. jobRefs' = jobRefs
    BY <1>15 DEF Removed, Goto
  <2>2. \A x \in Res : Waiters(x)' = Waiters(x)
    BY <1>15, ResAssumption, ThreadAssumption
       DEF Waiters, TypeOK, Actor, Removed, Goto
  <2>3. \A x \in Res : HandleGone(x)' <=> HandleGone(x)
    BY <1>15, ResAssumption, ThreadAssumption
       DEF HandleGone, TypeOK, Actor, Removed, Goto
  <2> QED
    BY <2>1, <2>2, <2>3, HandleKept
<1>16. ASSUME Erase PROVE HandleInv'
  <2>1. jobRefs' = jobRefs
    BY <1>16 DEF Erase, Release, AfterRelease, Goto, EntryInv, UpdatePCs
  <2>2. \A x \in Res : Waiters(x)' = Waiters(x)
    BY <1>16, ResAssumption, ThreadAssumption
       DEF Waiters, TypeOK, Actor, Erase, Release, AfterRelease, Goto, EntryInv, UpdatePCs
  <2>3. \A x \in Res : HandleGone(x)' <=> HandleGone(x)
    BY <1>16, ResAssumption, ThreadAssumption
       DEF HandleGone, TypeOK, Actor, Erase, Release, AfterRelease, Goto, EntryInv, UpdatePCs
  <2> QED
    BY <2>1, <2>2, <2>3, HandleKept
<1>17. ASSUME Invalidate PROVE HandleInv'
  <2>1. jobRefs' = jobRefs
    BY <1>17 DEF Invalidate, Goto, EntryInv, UpdatePCs
  <2>2. \A x \in Res : Waiters(x)' = Waiters(x)
    BY <1>17, ResAssumption, ThreadAssumption
       DEF Waiters, TypeOK, Actor, Invalidate, Goto, EntryInv, UpdatePCs
  <2>3. \A x \in Res : HandleGone(x)' <=> HandleGone(x)
    BY <1>17, ResAssumption, ThreadAssumption
       DEF HandleGone, TypeOK, Actor, Invalidate, Goto, EntryInv, UpdatePCs
  <2> QED
    BY <2>1, <2>2, <2>3, HandleKept
<1>18. ASSUME ReplaceRelease PROVE HandleInv'
  <2>1. jobRefs' = jobRefs
    BY <1>18
       DEF ReplaceRelease, Release, AfterRelease, Goto, EntryInv, UpdatePCs
  <2>2. \A x \in Res : Waiters(x)' = Waiters(x)
    BY <1>18, ResAssumption, ThreadAssumption
       DEF Waiters, TypeOK, Actor, ReplaceRelease, Release, AfterRelease, Goto, EntryInv, UpdatePCs
  <2>3. \A x \in Res : HandleGone(x)' <=> HandleGone(x)
    BY <1>18, ResAssumption, ThreadAssumption
       DEF HandleGone, TypeOK, Actor, ReplaceRelease, Release, AfterRelease, Goto, EntryInv, UpdatePCs
  <2> QED
    BY <2>1, <2>2, <2>3, HandleKept
<1>19. ASSUME Replace PROVE HandleInv'
  <2>1. jobRefs' = jobRefs
    BY <1>19 DEF Replace, Goto, EntryInv, UpdatePCs
  <2>2. \A x \in Res : Waiters(x)' = Waiters(x)
    BY <1>19, ResAssumption, ThreadAssumption
       DEF Waiters, TypeOK, Actor, Replace, Goto, EntryInv, UpdatePCs
  <2>3. \A x \in Res : HandleGone(x)' <=> HandleGone(x)
    BY <1>19, ResAssumption, ThreadAssumption
       DEF HandleGone, TypeOK, Actor, Replace, Goto, EntryInv, UpdatePCs
  <2> QED
    BY <2>1, <2>2, <2>3, HandleKept
<1>20. ASSUME NEW a \in Actor, Reap(a) PROVE HandleInv'
  <2>1. jobRefs' = jobRefs
    BY <1>20 DEF Reap, Goto, ReapInv, ReapPCs, AssignedInv, CallInv, CallPCs
  <2>2. \A x \in Res : Waiters(x)' = Waiters(x)
    BY <1>20, ResAssumption, ThreadAssumption
       DEF Waiters, TypeOK, Actor, Reap, Goto, ReapInv, ReapPCs, AssignedInv, CallInv, CallPCs
  <2>3. \A x \in Res : HandleGone(x)' <=> HandleGone(x)
    BY <1>20, ResAssumption, ThreadAssumption
       DEF HandleGone, TypeOK, Actor, Reap, Goto, ReapInv, ReapPCs, AssignedInv, CallInv, CallPCs
  <2> QED
    BY <2>1, <2>2, <2>3, HandleKept
<1>21. ASSUME NEW a \in Actor, ReapWait(a) PROVE HandleInv'
  <2>1. /\ cur[a] \in Res /\ pc[cur[a]] = "done" /\ cur[a] \notin deleted
        /\ \A b \in Actor : pc[b] = "destroy" /\ cur[b] = cur[a] => b = a
        /\ pc[a] = "reap_wait"
    BY <1>21 DEF ReapWait, ReapInv, ReapPCs
  <2>2. pc' = [pc EXCEPT ![a] = "destroy"]
        /\ jobRefs' = [jobRefs EXCEPT ![cur[a]] = @ - 1]
        /\ cur' = cur /\ deleted' = deleted
    BY <1>21 DEF ReapWait, Goto
  <2>3. \A x \in Res : Waiters(x)' = Waiters(x)
    BY <2>1, <2>2, ResAssumption DEF Waiters, TypeOK, Actor
  <2>5. \A x \in Res : x = cur[a] => ~HandleGone(x) /\ HandleGone(x)'
    BY <2>1, <2>2, ResAssumption DEF HandleGone, TypeOK, Actor
  <2>6. \A x \in Res : x # cur[a] => (HandleGone(x)' <=> HandleGone(x))
    <3>1. \A x \in Res : x # a => pc'[x] = pc[x]
      BY <2>2 DEF TypeOK, Actor
    <3>2. \A b \in Actor : b # a => pc'[b] = pc[b]
      BY <2>2 DEF TypeOK, Actor
    <3>3. pc'[a] = "destroy"
      BY <2>2 DEF TypeOK, Actor
    <3> QED
      BY <2>1, <2>2, <3>1, <3>2, <3>3, ResAssumption DEF HandleGone, Actor
  <2>7. \A x \in Res : Cardinality(Waiters(x)) \in Nat
    BY WaitersFinite, FS_CardinalityType
  <2>8. \A x \in Res :
          jobRefs'[x] = IF x = cur[a] THEN jobRefs[x] - 1 ELSE jobRefs[x]
    BY <2>1, <2>2 DEF TypeOK
  <2> SUFFICES ASSUME NEW x \in Res
               PROVE  jobRefs'[x] = Cardinality(Waiters(x)') +
                                      (IF HandleGone(x)' THEN 0 ELSE 1)
    BY DEF HandleInv
  <2>9. jobRefs[x] = Cardinality(Waiters(x)) + (IF HandleGone(x) THEN 0 ELSE 1)
    BY DEF HandleInv
  <2> QED
    BY <2>3, <2>5, <2>6, <2>7, <2>8, <2>9
<1>22. ASSUME NEW a \in Actor, Destroy(a) PROVE HandleInv'
  <2>1. jobRefs' = jobRefs
    BY <1>22 DEF Destroy, AfterRelease, Goto, ReapInv, ReapPCs
  <2>2. \A x \in Res : Waiters(x)' = Waiters(x)
    BY <1>22, ResAssumption, ThreadAssumption
       DEF Waiters, TypeOK, Actor, Destroy, AfterRelease, Goto, ReapInv, ReapPCs
  <2>3. \A x \in Res : HandleGone(x)' <=> HandleGone(x)
    BY <1>22, ResAssumption, ThreadAssumption
       DEF HandleGone, TypeOK, Actor, Destroy, AfterRelease, Goto, ReapInv, ReapPCs
  <2> QED
    BY <2>1, <2>2, <2>3, HandleKept
<1>23. ASSUME NEW r \in Res, JobCreate(r) PROVE HandleInv'
  <2>1. jobRefs' = jobRefs
    BY <1>23 DEF JobCreate, Goto, JobInv, RunPCs
  <2>2. \A x \in Res : Waiters(x)' = Waiters(x)
    BY <1>23, ResAssumption, ThreadAssumption
       DEF Waiters, TypeOK, Actor, JobCreate, Goto, JobInv, RunPCs
  <2>3. \A x \in Res : HandleGone(x)' <=> HandleGone(x)
    BY <1>23, ResAssumption, ThreadAssumption
       DEF HandleGone, TypeOK, Actor, JobCreate, Goto, JobInv, RunPCs
  <2> QED
    BY <2>1, <2>2, <2>3, HandleKept
<1>24. ASSUME NEW r \in Res, JobLoad(r) PROVE HandleInv'
  <2>1. jobRefs' = jobRefs
    BY <1>24 DEF JobLoad, Goto, JobInv, RunPCs
  <2>2. \A x \in Res : Waiters(x)' = Waiters(x)
    BY <1>24, ResAssumption, ThreadAssumption
       DEF Waiters, TypeOK, Actor, JobLoad, Goto, JobInv, RunPCs
  <2>3. \A x \in Res : HandleGone(x)' <=> HandleGone(x)
    BY <1>24, ResAssumption, ThreadAssumption
       DEF HandleGone, TypeOK, Actor, JobLoad, Goto, JobInv, RunPCs
  <2> QED
    BY <2>1, <2>2, <2>3, HandleKept
<1>25. ASSUME NEW r \in Res, JobStore(r) PROVE HandleInv'
  <2>1. jobRefs' = jobRefs
    BY <1>25 DEF JobStore, Goto, JobInv, RunPCs
  <2>2. \A x \in Res : Waiters(x)' = Waiters(x)
    BY <1>25, ResAssumption, ThreadAssumption
       DEF Waiters, TypeOK, Actor, JobStore, Goto, JobInv, RunPCs
  <2>3. \A x \in Res : HandleGone(x)' <=> HandleGone(x)
    BY <1>25, ResAssumption, ThreadAssumption
       DEF HandleGone, TypeOK, Actor, JobStore, Goto, JobInv, RunPCs
  <2> QED
    BY <2>1, <2>2, <2>3, HandleKept
<1>26. ASSUME NEW r \in Res, JobRelease(r) PROVE HandleInv'
  <2>1. jobRefs' = jobRefs
    BY <1>26 DEF JobRelease, Release, AfterRelease, Goto, JobInv, RunPCs
  <2>2. \A x \in Res : Waiters(x)' = Waiters(x)
    BY <1>26, ResAssumption, ThreadAssumption
       DEF Waiters, TypeOK, Actor, JobRelease, Release, AfterRelease, Goto, JobInv, RunPCs
  <2>3. \A x \in Res : HandleGone(x)' <=> HandleGone(x)
    BY <1>26, ResAssumption, ThreadAssumption
       DEF HandleGone, TypeOK, Actor, JobRelease, Release, AfterRelease, Goto, JobInv, RunPCs
  <2> QED
    BY <2>1, <2>2, <2>3, HandleKept
<1>27. CASE UNCHANGED vars
  BY <1>27 DEF vars, HandleInv, Waiters, HandleGone
<1> QED
  BY <1>1, <1>2, <1>3, <1>4, <1>5, <1>6, <1>7, <1>8, <1>9, <1>10, <1>11, <1>12,
     <1>13, <1>14, <1>15, <1>16, <1>17, <1>18, <1>19, <1>20, <1>21, <1>22,
     <1>23, <1>24, <1>25, <1>26, <1>27
     DEF Next, ThreadStep, ThreadCall, UpdateStep, UpdateCall, ReleaseStep, JobStep

-----------------------------------------------------------------------------
(* The theorems. *)

\* The initial state satisfies the invariant.
LEMMA InitInv == Init => IInv
<1> SUFFICES ASSUME Init PROVE IInv
  OBVIOUS
<1>1. /\ \A r \in Res : pc[r] = "none" /\ owners[r] = {} /\ cur[r] = r
      /\ \A t \in Thread : pc[t] = "idle" /\ cur[t] = NoRes
  BY ResAssumption DEF Init, Actor
<1>2. TypeOK
  <2>1. /\ pc \in [Actor -> ThreadPCs \cup JobPCs]
        /\ cur \in [Actor -> Res \cup {NoRes}]
    BY DEF Init, Actor, ThreadPCs, JobPCs
  <2>2. owners \in [Res -> SUBSET Owner]
    BY DEF Init
  <2>3. /\ loadState \in
             [Res -> {"unborn", "unloaded", "loading", "failed", "loaded"}]
        /\ counter \in [Res -> Int] /\ jobRefs \in [Res -> Int]
        /\ data \in [Res -> {"null", "created", "filled"}]
    BY DEF Init
  <2>4. /\ invalidated \in [Res -> BOOLEAN] /\ assigned \in [Res -> BOOLEAN]
        /\ sync \in [Thread -> BOOLEAN] /\ deleted \subseteq Res
        /\ entry \in Res \cup {NoRes} /\ fresh \in Res \cup {NoRes}
        /\ updating \in BOOLEAN
    BY DEF Init
  <2>5. /\ \A t \in Thread : pc[t] \in ThreadPCs
        /\ \A r \in Res : pc[r] \in JobPCs
    BY <1>1 DEF ThreadPCs, JobPCs
  <2> QED
    BY <2>1, <2>2, <2>3, <2>4, <2>5 DEF TypeOK
<1>3. CounterExact
  BY FS_EmptySet DEF Init, CounterExact
<1>4. UnbornInv /\ OwnedInv /\ UnloadedInv /\ AssignedInv
  BY <1>1 DEF Init, UnbornInv, OwnedInv, UnloadedInv, AssignedInv
<1>5. CallInv /\ StartInv
  BY <1>1 DEF CallInv, CallPCs, StartInv, StartPCs
<1>6. JobInv /\ ReapInv /\ ReapedInv
  BY <1>1 DEF Init, Actor, JobInv, RunPCs, ReapInv, ReapPCs, ReapedInv
<1>7. EntryInv /\ FreshInv /\ StaleInv
  BY <1>1, ThreadAssumption
     DEF Init, EntryInv, UpdatePCs, FreshInv, ReapPCs, StaleInv, Retiring
<1>8. LoadedInv
  BY <1>1 DEF Init, LoadedInv, LoadedIsFilled, ReapPCs
<1>9. HandleInv
  <2>1. \A r \in Res : Waiters(r) = {} /\ HandleGone(r)
    BY <1>1 DEF Waiters, HandleGone
  <2> QED
    BY <2>1, FS_EmptySet DEF Init, HandleInv
<1> QED
  BY <1>2, <1>3, <1>4, <1>5, <1>6, <1>7, <1>8, <1>9 DEF IInv

\* Every step keeps the invariant.
LEMMA NextInv == IInv /\ [Next]_vars => IInv'
<1> SUFFICES ASSUME IInv, [Next]_vars PROVE IInv'
  OBVIOUS
<1> USE DEF IInv
<1>1. TypeOK'
  BY TypeStep
<1>2. CounterExact'
  BY CounterStep
<1>3. UnbornInv'
  BY UnbornStep
<1>4. OwnedInv'
  BY OwnedStep
<1>5. CallInv'
  BY CallStep
<1>6. StartInv'
  BY StartStep
<1>7. UnloadedInv'
  BY UnloadedStep
<1>8. JobInv'
  BY JobInvStep
<1>9. ReapInv'
  BY ReapStep
<1>10. EntryInv'
  BY EntryStep
<1>11. FreshInv'
  BY FreshStep
<1>12. LoadedInv'
  BY LoadedStep
<1>13. StaleInv'
  BY StaleStep
<1>14. AssignedInv'
  BY AssignedStep
<1>15. ReapedInv'
  BY ReapedStep
<1>16. HandleInv'
  BY HandleStep
<1> QED
  BY <1>1, <1>2, <1>3, <1>4, <1>5, <1>6, <1>7, <1>8, <1>9, <1>10, <1>11, <1>12,
     <1>13, <1>14, <1>15, <1>16

\* IInv holds in every reachable state.
THEOREM ResourceInductive == Spec => []IInv
<1> QED
  BY InitInv, NextInv, PTL DEF Spec

\* The variables keep their types.
THEOREM ResourceTypes == Spec => []TypeOK
<1>1. IInv => TypeOK
  BY DEF IInv
<1> QED
  BY <1>1, ResourceInductive, PTL

\* resource::counter is the number of the pointers that count.
THEOREM CountedExactly == Spec => []CounterExact
<1>1. IInv => CounterExact
  BY DEF IInv
<1> QED
  BY <1>1, ResourceInductive, PTL

\* No resource is used after it was deleted, by any thread or load job.
THEOREM NeverUsedAfterDelete == Spec => []NoUseAfterDelete
<1>1. ASSUME IInv PROVE NoUseAfterDelete
  <2> USE <1>1 DEF IInv
  <2>1. ASSUME NEW r \in deleted
        PROVE  owners[r] = {} /\ (r = entry => pc[Main] = "replace")
    <3>1. owners[r] = {} /\ r \in Res
      BY DEF OwnedInv, TypeOK
    <3>2. r = entry => pc[Main] = "replace"
      BY <3>1, ThreadAssumption, ResAssumption
         DEF EntryInv, ReapInv, ReapPCs, Actor
    <3> QED
      BY <3>1, <3>2
  <2>2. ASSUME NEW r \in Res, Uses(r) PROVE cur[r] \notin deleted
    <3>1. pc[r] \in RunPCs \cup ReapPCs /\ r \in Actor
      BY <2>2 DEF Uses, TypeOK, JobPCs, RunPCs, ReapPCs, Actor
    <3> QED
      BY <3>1 DEF JobInv, OwnedInv, ReapInv
  <2>3. ASSUME NEW t \in Thread, Uses(t) PROVE cur[t] \notin deleted
    <3>1. t \in Actor /\ pc[t] \in CallPCs \cup ReapPCs \cup UpdatePCs
      BY <2>3 DEF Uses, TypeOK, ThreadPCs, CallPCs, ReapPCs, UpdatePCs, Actor
    <3>2. CASE pc[t] \in CallPCs
      BY <3>2 DEF CallInv, OwnedInv
    <3>3. CASE pc[t] \in ReapPCs
      BY <3>1, <3>3 DEF ReapInv
    <3>4. CASE pc[t] \in UpdatePCs
      BY <2>3, <3>4 DEF EntryInv, UpdatePCs, OwnedInv, Uses
    <3> QED
      BY <3>1, <3>2, <3>3, <3>4
  <2> QED
    BY <2>1, <2>2, <2>3 DEF NoUseAfterDelete, Actor
<1> QED
  BY <1>1, ResourceInductive, PTL

\* A load is started by one thread, once.
THEOREM LoadStartsOnce == Spec => []LoadedOnce
<1>1. ASSUME IInv PROVE LoadedOnce
  BY <1>1 DEF IInv, StartInv, StartPCs, LoadedOnce
<1> QED
  BY <1>1, ResourceInductive, PTL

\* The data of a resource reported as loaded is there.
THEOREM LoadedHasData == Spec => []LoadedIsFilled
<1>1. IInv => LoadedIsFilled
  BY DEF IInv, LoadedInv
<1> QED
  BY <1>1, ResourceInductive, PTL

\* The reference to the load job is given back once, when it is over.
THEOREM JobIsReaped == Spec => []JobReaped
<1>1. ASSUME IInv PROVE JobReaped
  <2> USE <1>1 DEF IInv
  <2>1. \A r \in Res : Cardinality(Waiters(r)) \in Nat
    BY WaitersFinite, FS_CardinalityType
  <2>2. ASSUME NEW r \in deleted
        PROVE  jobRefs[r] = 0 /\ pc[r] \in {"none", "done"}
    <3>1. r \in Res /\ Waiters(r) = {} /\ HandleGone(r)
      BY DEF TypeOK, OwnedInv, CallInv, CallPCs, Waiters, HandleGone
    <3> QED
      BY <3>1, FS_EmptySet DEF HandleInv, ReapedInv
  <2>3. ASSUME NEW t \in Thread, pc[t] = "sync_wait"
        PROVE  jobRefs[cur[t]] > 0
    <3>1. cur[t] \in Res /\ t \in Waiters(cur[t])
      BY <2>3 DEF CallInv, CallPCs, Waiters
    <3>2. Cardinality(Waiters(cur[t])) # 0
      BY <3>1, WaitersFinite, FS_EmptySet
    <3> QED
      BY <2>1, <3>1, <3>2 DEF HandleInv
  <2>4. ASSUME NEW a \in Actor, pc[a] = "reap_wait"
        PROVE  jobRefs[cur[a]] > 0
    <3>1. /\ cur[a] \in Res /\ cur[a] \notin deleted /\ assigned[cur[a]]
          /\ \A b \in Actor : pc[b] = "destroy" => cur[b] # cur[a]
      BY <2>4 DEF ReapInv, ReapPCs, ReapedInv
    <3>2. ~HandleGone(cur[a])
      BY <3>1 DEF HandleGone, JobInv
    <3> QED
      BY <2>1, <3>1, <3>2 DEF HandleInv
  <2>5. \A r \in Res : pc[r] # "sync_wait"
    BY DEF TypeOK, JobPCs
  <2> QED
    BY <2>2, <2>3, <2>4, <2>5 DEF JobReaped, Actor
<1> QED
  BY <1>1, ResourceInductive, PTL

\* Who holds a resource that is no longer the entry is told so.
THEOREM StaleAreInvalidated == Spec => []StaleIsInvalidated
<1>1. ASSUME IInv PROVE StaleIsInvalidated
  BY <1>1 DEF IInv, StaleInv, Retiring, EntryInv, UpdatePCs, StaleIsInvalidated
<1> QED
  BY <1>1, ResourceInductive, PTL

\* load_sync returns when the resource is loaded, or failed to.
THEOREM LoadSyncIsSound == Spec => LoadSyncSees
<1>1. ASSUME IInv, [Next]_vars, NEW t \in Thread,
             pc[t] = "sync_wait", pc'[t] = "idle"
      PROVE  loadState[cur[t]] \in {"loaded", "failed"}
  <2>1. pc[cur[t]] = "done" /\ cur[t] \in Res
    <3> USE <1>1, ResAssumption, ThreadAssumption
        DEF IInv, TypeOK, Actor, Goto
    <3>1. cur[t] \in Res /\ t \in Actor
      BY DEF CallInv, CallPCs
    <3>2. ASSUME NEW u \in Thread, ThreadStep(u) PROVE FALSE
      BY <3>2 DEF ThreadStep, Get, Copy, Drop, StartLoading, Instantiate, Free,
                  Release, AfterRelease
    <3>3. ASSUME NEW u \in Thread, ThreadCall(u) PROVE pc[cur[t]] = "done"
      BY <3>3 DEF ThreadCall, AcquireForJob, PushJob, AssignJob, CheckJob,
                  SyncWait, CallInv, CallPCs
    <3>4. UpdateStep \/ UpdateCall => FALSE
      BY DEF UpdateStep, UpdateCall, UpdateBegin, UpdateEnd, Added, Updated,
             Removed, Erase, Invalidate, ReplaceRelease, Replace, Release,
             AfterRelease
    <3>5. ASSUME NEW a \in Actor, ReleaseStep(a) PROVE FALSE
      BY <3>5 DEF ReleaseStep, Reap, ReapWait, Destroy, AfterRelease
    <3>6. ASSUME NEW r \in Res, JobStep(r) PROVE FALSE
      BY <3>6 DEF JobStep, JobCreate, JobLoad, JobStore, JobRelease, Release,
                  AfterRelease
    <3>7. ~ UNCHANGED vars
      BY DEF vars
    <3> QED
      BY <3>1, <3>2, <3>3, <3>4, <3>5, <3>6, <3>7 DEF Next
  <2> QED
    BY <1>1, <2>1 DEF IInv, LoadedInv
<1>2. IInv /\ [Next]_vars =>
        [\A t \in Thread : pc[t] = "sync_wait" /\ pc'[t] = "idle" =>
           loadState[cur[t]] \in {"loaded", "failed"}]_vars
  BY <1>1
<1> QED
  BY <1>2, ResourceInductive, PTL DEF Spec, LoadSyncSees
=============================================================================
