---------------------------- MODULE PassBarriersInv ----------------------------
(* The inductive invariant of PassBarriers: what is true of a frame that is     *)
(* being built, of the pool of stable buffers, and of the accesses that the     *)
(* device has yet to wait for.                                                  *)
EXTENDS PassBarriers

BufferUsageFlag == {"storage", "transfer_source", "transfer_destination"}
AccessType == {"any_read", "any_write"}
BufferKey == (StablePin \cup {NoId}) \X SUBSET BufferUsageFlag
Buffer == {<< >>} \cup ({"frame"} \X Nat) \cup ({"stable"} \X BufferKey \X Nat)

Usage == [pass : Nat, pin : Pin, access : BufferAccess, uploadedTo : BOOLEAN]
Resource == [stableId : StablePin \cup {NoId}, usage : SUBSET BufferUsageFlag, buffer : Buffer,
             framesAlive : Int]
Stored == [buffer : Buffer, creationTime : Nat, lastUsedTime : Nat,
           previousStages : SUBSET Stage, previousAccess : SUBSET AccessType]

TypeInv ==
  /\ passes \in Seq(PassKind) /\ bufferUsages \in Seq(Usage) /\ resources \in Seq(Resource)
  /\ transientBuffer \in [Pin -> Nat]
  /\ DOMAIN stableBuffers \subseteq BufferKey
  /\ stableBuffers \in [DOMAIN stableBuffers -> Stored]
  /\ m_frame \in Nat /\ phase \in {"idle", "build", "built"}
  /\ history \in [usages : Nat, last : SUBSET BufferKey]

\* Usages come in the order of their passes, a pass uses a resource once, an
\* upload is the first use of its resource, and a pin has one stable buffer.
BuildInv ==
  /\ phase = "idle" => passes = << >> /\ bufferUsages = << >> /\ resources = << >>
  /\ \A p \in Pin : transientBuffer[p] \in 0..Len(resources)
  /\ \A k \in DOMAIN bufferUsages :
       /\ bufferUsages[k].pass \in 1..Len(passes)
       /\ ResourceOf(bufferUsages[k]) \in DOMAIN resources
       /\ bufferUsages[k].uploadedTo => ~is_stable(resources[ResourceOf(bufferUsages[k])])
  /\ \A j, k \in DOMAIN bufferUsages :
       j < k =>
         /\ bufferUsages[j].pass <= bufferUsages[k].pass
         /\ bufferUsages[j].pass = bufferUsages[k].pass \/ bufferUsages[k].uploadedTo =>
              ResourceOf(bufferUsages[j]) # ResourceOf(bufferUsages[k])
  /\ \A r \in DOMAIN resources :
       is_stable(resources[r]) => transientBuffer[resources[r].stableId] = r

\* The pool has the stable buffers of one frame: the last one, until this one has
\* taken its own.
PoolInv ==
  /\ \A k \in DOMAIN stableBuffers :
       /\ stableBuffers[k].buffer = <<"stable", k, stableBuffers[k].creationTime>>
       /\ stableBuffers[k].creationTime <= stableBuffers[k].lastUsedTime
       /\ stableBuffers[k].lastUsedTime = IF phase = "build" THEN m_frame - 1 ELSE m_frame
  /\ phase # "built" => DOMAIN stableBuffers = history.last
  /\ phase = "built" =>
       /\ DOMAIN stableBuffers = StableKeys
       /\ \A k \in DOMAIN stableBuffers :
            stableBuffers[k].creationTime = m_frame <=> k \notin history.last
       /\ \A r \in DOMAIN resources :
            IF is_stable(resources[r])
            THEN /\ resources[r].buffer = stableBuffers[Key(resources[r])].buffer
                 /\ resources[r].framesAlive = m_frame - stableBuffers[Key(resources[r])].creationTime
            ELSE resources[r].buffer = <<"frame", r>>

\* A barrier whose first half is S and A orders what comes next after log, and
\* makes what was written available.
Covered(log, S, A) ==
  \A x \in log :
    /\ S \cap ({x.stage} \cup x.after) # {}
    /\ x.writes => x.available \/ (x.stage \in S /\ "any_write" \in A)

\* Access x was waited for by a barrier whose second half is N and M.
Waited(x, N, M) ==
  /\ N \subseteq x.after
  /\ x.writes => x.available /\ N \X M \subseteq x.visible

\* Such a barrier was waited for by what is in the log, or is for it.
Joined(log, N, M, isRead) ==
  \A x \in log :
    \/ x.stage \in N /\ (x.writes => "any_write" \in M /\ ~isRead)
    \/ Waited(x, N, M)

\* The device knows stable buffers of earlier frames, and what the pool has stored
\* of each covers it.
DeviceInv ==
  /\ ~device.raced
  /\ \A b \in DOMAIN device.log :
       /\ b[1] = "stable" /\ b[3] \in Nat /\ b[3] <= m_frame
       /\ phase # "idle" => b[3] # m_frame
  /\ \A k \in DOMAIN stableBuffers :
       Covered(LogOf(device, stableBuffers[k].buffer), stableBuffers[k].previousStages,
               stableBuffers[k].previousAccess)

BarriersInv == TypeInv /\ BuildInv /\ PoolInv /\ DeviceInv
=============================================================================
