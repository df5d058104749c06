-------------------------- MODULE PassBarriersProofs --------------------------
(* StableKept and Synchronized are invariants of PassBarriers: first what       *)
(* build_pass_barriers computes, then that the device that waits for it sees no *)
(* hazard, and that each action keeps BarriersInv.                              *)
EXTENDS PassBarriersInv, WellFoundedInduction, TLAPS

-----------------------------------------------------------------------------
(* Numbers and sequences *)

LEMMA Induction ==
  ASSUME NEW T, 0 \in T, \A n \in Nat : n \in T => n + 1 \in T
  PROVE  Nat \subseteq T
  <1> DEFINE R == OpToRel(<, Nat)
             S == Nat \ T
  <1>1. SUFFICES ASSUME S # {}
                 PROVE  FALSE
    OBVIOUS
  <1>2. \A x, y \in Nat : y < x => <<y, x>> \in R
    BY DEF OpToRel
  <1>3. IsWellFoundedOn(R, Nat) /\ S \subseteq Nat
    BY NatLessThanWellFounded
  <1>. HIDE DEF R
  <1>4. \E x \in S : \A y \in S : <<y, x>> \notin R
    BY <1>1, <1>3, WFMin
  <1>5. PICK x \in S : \A y \in S : <<y, x>> \notin R
    BY <1>4
  <1>6. x \in Nat /\ x # 0 /\ x - 1 \in Nat /\ x - 1 < x /\ (x - 1) + 1 = x
    OBVIOUS
  <1>7. x - 1 \in T
    BY <1>2, <1>5, <1>6
  <1>8. x \in T
    BY <1>6, <1>7
  <1>. QED BY <1>5, <1>8

LEMMA Elements ==
  ASSUME NEW S, NEW s \in Seq(S)
  PROVE  Len(s) \in Nat /\ DOMAIN s = 1..Len(s) /\ \A i \in DOMAIN s : s[i] \in S
  OBVIOUS

LEMMA Appended ==
  ASSUME NEW S, NEW s \in Seq(S), NEW x \in S
  PROVE  /\ Append(s, x) \in Seq(S) /\ Len(s) \in Nat /\ Len(Append(s, x)) = Len(s) + 1
         /\ \A i \in 1..Len(s) : Append(s, x)[i] = s[i]
         /\ Append(s, x)[Len(s) + 1] = x
  OBVIOUS

LEMMA Replaced ==
  ASSUME NEW S, NEW s \in Seq(S), NEW i \in 1..Len(s), NEW x \in S
  PROVE  /\ [s EXCEPT ![i] = x] \in Seq(S) /\ Len([s EXCEPT ![i] = x]) = Len(s)
         /\ [s EXCEPT ![i] = x][i] = x
         /\ \A j \in 1..Len(s) : j # i => [s EXCEPT ![i] = x][j] = s[j]
  OBVIOUS

LEMMA SeqOf ==
  ASSUME NEW S, NEW n \in Nat, NEW f \in [1..n -> S]
  PROVE  f \in Seq(S) /\ Len(f) = n
  OBVIOUS

-----------------------------------------------------------------------------
(* What is computed of a frame that is built *)

Built == TypeInv /\ BuildInv /\ PoolInv /\ phase = "built"

Tracking == [previousStages : SUBSET Stage, previousAccess : SUBSET AccessType, barrier : Nat,
             isRead : BOOLEAN]
BarrierType == [previousPipelines : SUBSET Stage, previousAccesses : SUBSET AccessType,
                nextPipelines : SUBSET Stage, nextAccesses : SUBSET AccessType]
TrackState == [tracking : [DOMAIN resources -> Tracking], barriers : Seq(BarrierType),
               pass : Seq(Nat)]

\* Resources wait for barriers of their own.
TrackOK(st) ==
  /\ st \in TrackState /\ Len(st.pass) = Len(st.barriers)
  /\ \A r \in DOMAIN resources : st.tracking[r].barrier \in 0..Len(st.barriers)
  /\ \A q, r \in DOMAIN resources :
       st.tracking[q].barrier = st.tracking[r].barrier => q = r \/ st.tracking[r].barrier = 0

\* The barriers of st are in nt, and those that no resource waits for are left alone.
Unused(st, j) == \A r \in DOMAIN resources : st.tracking[r].barrier # j

Grows(st, nt) ==
  /\ Len(st.barriers) <= Len(nt.barriers)
  /\ \A j \in 1..Len(st.barriers) :
       /\ nt.pass[j] = st.pass[j]
       /\ nt.barriers[j].previousPipelines = st.barriers[j].previousPipelines
       /\ nt.barriers[j].previousAccesses = st.barriers[j].previousAccesses
       /\ st.barriers[j].nextPipelines \subseteq nt.barriers[j].nextPipelines
       /\ st.barriers[j].nextAccesses \subseteq nt.barriers[j].nextAccesses
       /\ Unused(st, j) => Unused(nt, j) /\ nt.barriers[j] = st.barriers[j]

LEMMA AccessFacts ==
  ASSUME NEW a \in BufferAccess
  PROVE  /\ AccessesOf(a) \subseteq AccessType /\ AccessesOf(a) # {}
         /\ IsRead(a) \in BOOLEAN /\ (IsRead(a) <=> "any_write" \notin AccessesOf(a))
         /\ UsageOf(a) \in BufferUsageFlag
  BY DEF BufferAccess, AccessesOf, AccessType, IsRead, UsageOf, BufferUsageFlag

LEMMA UsageFacts ==
  ASSUME Built, NEW k \in DOMAIN bufferUsages
  PROVE  /\ Len(bufferUsages) \in Nat /\ k \in 1..Len(bufferUsages) /\ bufferUsages[k] \in Usage
         /\ bufferUsages[k].access \in BufferAccess
         /\ bufferUsages[k].pass \in Nat /\ bufferUsages[k].pass \in DOMAIN passes
         /\ passes[bufferUsages[k].pass] \in PassKind
         /\ ResourceOf(bufferUsages[k]) \in DOMAIN resources
         /\ StagesOf(passes[bufferUsages[k].pass]) \subseteq Stage
  <1>1. bufferUsages \in Seq(Usage) /\ passes \in Seq(PassKind)
    BY DEF Built, TypeInv
  <1>2. bufferUsages[k] \in Usage /\ Len(bufferUsages) \in Nat /\ k \in 1..Len(bufferUsages)
    BY <1>1, Elements
  <1>3. bufferUsages[k].pass \in 1..Len(passes) /\ ResourceOf(bufferUsages[k]) \in DOMAIN resources
    BY DEF Built, BuildInv
  <1>4. bufferUsages[k].pass \in DOMAIN passes /\ passes[bufferUsages[k].pass] \in PassKind
    BY <1>1, <1>3, Elements
  <1>5. StagesOf(passes[bufferUsages[k].pass]) \subseteq Stage
    BY <1>4 DEF StagesOf, PassKind
  <1>. QED BY <1>2, <1>3, <1>4, <1>5 DEF Usage

LEMMA StableEntry ==
  ASSUME Built, NEW r \in DOMAIN resources, is_stable(resources[r])
  PROVE  /\ Key(resources[r]) \in DOMAIN stableBuffers
         /\ stableBuffers[Key(resources[r])] \in Stored
  BY DEF Built, PoolInv, TypeInv, StableKeys

FirstTracked ==
  [tracking |-> [r \in DOMAIN resources |-> fetch_buffer_tracking(r)],
   barriers |-> << >>, pass |-> << >>]

LEMMA FirstOK ==
  ASSUME Built
  PROVE  /\ TrackOK(FirstTracked)
         /\ \A r \in DOMAIN resources : FirstTracked.tracking[r] = fetch_buffer_tracking(r)
  <1>1. ASSUME NEW r \in DOMAIN resources
        PROVE  fetch_buffer_tracking(r) \in Tracking
    <2>1. CASE is_stable(resources[r])
      BY <2>1, StableEntry DEF fetch_buffer_tracking, Tracking, Stored
    <2>2. CASE ~is_stable(resources[r])
      BY <2>2 DEF fetch_buffer_tracking, Tracking
    <2>. QED BY <2>1, <2>2
  <1>2. << >> \in Seq(BarrierType) /\ << >> \in Seq(Nat) /\ Len(<< >>) = 0
    OBVIOUS
  <1>3. \A r \in DOMAIN resources : fetch_buffer_tracking(r).barrier = 0
    BY DEF fetch_buffer_tracking
  <1>4. FirstTracked \in TrackState
    BY <1>1, <1>2 DEF FirstTracked, TrackState
  <1>5. /\ \A r \in DOMAIN resources : FirstTracked.tracking[r] = fetch_buffer_tracking(r)
        /\ Len(FirstTracked.barriers) = 0 /\ Len(FirstTracked.pass) = 0
    BY <1>2 DEF FirstTracked
  <1>6. \A r \in DOMAIN resources : FirstTracked.tracking[r].barrier = 0 /\ 0 \in 0..0
    BY <1>3, <1>5
  <1>. QED BY <1>4, <1>5, <1>6 DEF TrackOK

LEMMA TrackingOfIs ==
  ASSUME Built, NEW st, TrackOK(st), NEW k \in DOMAIN bufferUsages
  PROVE  LET u == bufferUsages[k]
             t == TrackingOf(st, u)
             s == st.tracking[ResourceOf(u)]
         IN  /\ t \in Tracking /\ t.barrier = s.barrier /\ t.isRead = s.isRead
             /\ t.previousStages = IF u.uploadedTo THEN {"transfer"} ELSE s.previousStages
             /\ t.previousAccess = IF u.uploadedTo THEN {"any_write"} ELSE s.previousAccess
  <1> DEFINE u == bufferUsages[k]
             s == st.tracking[ResourceOf(u)]
  <1>1. ResourceOf(u) \in DOMAIN resources /\ s \in Tracking
    BY UsageFacts DEF TrackOK, TrackState
  <1>2. {"transfer"} \subseteq Stage /\ {"any_write"} \subseteq AccessType
    BY DEF Stage, AccessType
  <1>3. CASE u.uploadedTo
    <2>1. TrackingOf(st, u) = [s EXCEPT !.previousStages = {"transfer"}, !.previousAccess = {"any_write"}]
      BY <1>3 DEF TrackingOf
    <2>. HIDE DEF u, s
    <2>2. /\ TrackingOf(st, u) \in Tracking /\ TrackingOf(st, u).barrier = s.barrier
          /\ TrackingOf(st, u).isRead = s.isRead
          /\ TrackingOf(st, u).previousStages = {"transfer"}
          /\ TrackingOf(st, u).previousAccess = {"any_write"}
      BY <1>1, <1>2, <2>1 DEF Tracking
    <2>. QED BY <1>3, <2>2 DEF u, s
  <1>4. CASE ~u.uploadedTo
    <2>1. TrackingOf(st, u) = s
      BY <1>4 DEF TrackingOf
    <2>. QED BY <1>1, <1>4, <2>1
  <1>. QED BY <1>3, <1>4

LEMMA ForwardStep ==
  ASSUME Built, NEW st, TrackOK(st), NEW k \in DOMAIN bufferUsages
  PROVE  LET u == bufferUsages[k]
             t == TrackingOf(st, u)
             nt == Forward(st, t, u)
         IN  /\ TrackOK(nt) /\ Grows(st, nt)
             /\ nt.tracking[ResourceOf(u)] = t
             /\ \A q \in DOMAIN resources : q # ResourceOf(u) => nt.tracking[q] = st.tracking[q]
  <1> DEFINE u == bufferUsages[k]
             r == ResourceOf(u)
             t == TrackingOf(st, u)
             nt == Forward(st, t, u)
  <1>1. r \in DOMAIN resources /\ t \in Tracking /\ t.barrier = st.tracking[r].barrier
    BY UsageFacts, TrackingOfIs
  <1>2. st \in TrackState
    BY DEF TrackOK
  <1>3. /\ nt \in TrackState /\ nt.barriers = st.barriers /\ nt.pass = st.pass
        /\ nt.tracking = [st.tracking EXCEPT ![r] = t]
    <2>. HIDE DEF u, t, r
    <2>1. nt = [st EXCEPT !.tracking[r] = t]
      BY DEF Forward, r
    <2>. HIDE DEF nt
    <2>. QED BY <1>1, <1>2, <2>1 DEF TrackState
  <1>4. st.tracking \in [DOMAIN resources -> Tracking]
    BY <1>2 DEF TrackState
  <1>. HIDE DEF u, t, r, nt
  <1>5. /\ nt.tracking[r] = t
        /\ \A q \in DOMAIN resources : q # r => nt.tracking[q] = st.tracking[q]
    BY <1>1, <1>3, <1>4
  <1>6. \A q \in DOMAIN resources : nt.tracking[q].barrier = st.tracking[q].barrier
    BY <1>1, <1>5
  <1>7. TrackOK(nt)
    BY <1>3, <1>6 DEF TrackOK
  <1>8. Grows(st, nt)
    <2>1. Len(st.barriers) \in Nat
      BY <1>2, Elements DEF TrackState
    <2>. QED BY <1>3, <1>6, <2>1 DEF Grows, Unused
  <1>. QED BY <1>5, <1>7, <1>8 DEF u, t, r, nt

LEMMA JoinStep ==
  ASSUME Built, NEW st, TrackOK(st), NEW k \in DOMAIN bufferUsages,
         st.tracking[ResourceOf(bufferUsages[k])].barrier # 0
  PROVE  LET u == bufferUsages[k]
             nt == Join(st, TrackingOf(st, u), u)
             j == st.tracking[ResourceOf(u)].barrier
         IN  /\ TrackOK(nt) /\ Grows(st, nt) /\ nt.tracking = st.tracking
             /\ StagesOf(passes[u.pass]) \subseteq nt.barriers[j].nextPipelines
             /\ AccessesOf(u.access) \subseteq nt.barriers[j].nextAccesses
  <1> DEFINE u == bufferUsages[k]
             r == ResourceOf(u)
             t == TrackingOf(st, u)
             nt == Join(st, t, u)
             j == st.tracking[r].barrier
             S == StagesOf(passes[u.pass])
             A == AccessesOf(u.access)
             b == [st.barriers[j] EXCEPT !.nextPipelines = @ \cup S, !.nextAccesses = @ \cup A]
  <1>1. r \in DOMAIN resources /\ t.barrier = j /\ S \subseteq Stage /\ A \subseteq AccessType
    BY UsageFacts, TrackingOfIs, AccessFacts
  <1>2. st \in TrackState /\ j \in 1..Len(st.barriers)
    <2>1. st \in TrackState /\ j \in 0..Len(st.barriers) /\ Len(st.barriers) \in Nat
      BY <1>1, Elements DEF TrackOK, TrackState
    <2>. QED BY <2>1
  <1>3. nt = [st EXCEPT !.barriers = [st.barriers EXCEPT ![j] = b]]
    <2>1. st.barriers \in Seq(BarrierType) /\ st.barriers[j] \in BarrierType
          /\ j \in DOMAIN st.barriers
      BY <1>2, Elements DEF TrackState
    <2>2. nt = [st EXCEPT !.barriers[j].nextPipelines = @ \cup S, !.barriers[j].nextAccesses = @ \cup A]
      BY <1>1 DEF Join
    <2> DEFINE one == [st.barriers[j] EXCEPT !.nextPipelines = @ \cup S]
               st1 == [st EXCEPT !.barriers = [st.barriers EXCEPT ![j] = one]]
    <2>. HIDE DEF u, r, j, t, S, A, nt
    <2>3. /\ nt = [st1 EXCEPT !.barriers[j].nextAccesses = @ \cup A]
          /\ st1.barriers = [st.barriers EXCEPT ![j] = one] /\ st1.barriers[j] = one
      BY <1>2, <2>1, <2>2 DEF TrackState
    <2>4. one.nextAccesses = st.barriers[j].nextAccesses
          /\ b = [one EXCEPT !.nextAccesses = @ \cup A]
      BY <2>1 DEF BarrierType
    <2>5. DOMAIN st1.barriers = DOMAIN st.barriers
      BY <2>3
    <2>. HIDE DEF st1, one, b
    <2>6. nt = [st1 EXCEPT !.barriers = [st1.barriers EXCEPT ![j] = b]]
      BY <2>1, <2>3, <2>4, <2>5
    <2>7. [st1.barriers EXCEPT ![j] = b] = [st.barriers EXCEPT ![j] = b]
      BY <2>1, <2>3
    <2>8. [st1 EXCEPT !.barriers = [st.barriers EXCEPT ![j] = b]] =
            [st EXCEPT !.barriers = [st.barriers EXCEPT ![j] = b]]
      BY <1>2 DEF st1, TrackState
    <2>. QED BY <2>6, <2>7, <2>8
  <1>. HIDE DEF u, r, t, nt, j, S, A
  <1>4. st.barriers \in Seq(BarrierType) /\ st.barriers[j] \in BarrierType
    BY <1>2, Elements DEF TrackState
  <1>5. /\ b \in BarrierType
        /\ b.previousPipelines = st.barriers[j].previousPipelines
        /\ b.previousAccesses = st.barriers[j].previousAccesses
        /\ b.nextPipelines = st.barriers[j].nextPipelines \cup S
        /\ b.nextAccesses = st.barriers[j].nextAccesses \cup A
    BY <1>1, <1>4 DEF BarrierType
  <1>. HIDE DEF b
  <1>6. /\ nt.tracking = st.tracking /\ nt.pass = st.pass
        /\ nt.barriers = [st.barriers EXCEPT ![j] = b]
    BY <1>2, <1>3 DEF TrackState
  <1>7. /\ nt.barriers \in Seq(BarrierType) /\ Len(nt.barriers) = Len(st.barriers)
        /\ nt.barriers[j] = b
        /\ \A i \in 1..Len(st.barriers) : i # j => nt.barriers[i] = st.barriers[i]
    BY <1>2, <1>4, <1>5, <1>6, Replaced
  <1>8. nt \in TrackState
    BY <1>2, <1>3, <1>6, <1>7 DEF TrackState
  <1>9. TrackOK(nt)
    BY <1>6, <1>7, <1>8 DEF TrackOK
  <1>10. Grows(st, nt)
    <2>1. Len(st.barriers) \in Nat
      BY <1>4, Elements
    <2>2. ~Unused(st, j)
      BY <1>1 DEF Unused, j
    <2>3. \A i \in DOMAIN resources : nt.tracking[i] = st.tracking[i]
      BY <1>6
    <2>4. \A i : Unused(st, i) => Unused(nt, i)
      BY <2>3 DEF Unused
    <2>5. ASSUME NEW i \in 1..Len(st.barriers)
          PROVE  /\ nt.pass[i] = st.pass[i]
                 /\ nt.barriers[i].previousPipelines = st.barriers[i].previousPipelines
                 /\ nt.barriers[i].previousAccesses = st.barriers[i].previousAccesses
                 /\ st.barriers[i].nextPipelines \subseteq nt.barriers[i].nextPipelines
                 /\ st.barriers[i].nextAccesses \subseteq nt.barriers[i].nextAccesses
                 /\ Unused(st, i) => Unused(nt, i) /\ nt.barriers[i] = st.barriers[i]
      <3>1. CASE i = j
        BY <1>5, <1>6, <1>7, <2>2, <3>1
      <3>2. CASE i # j
        BY <1>6, <1>7, <2>4, <3>2
      <3>. QED BY <3>1, <3>2
    <2>. QED BY <1>7, <2>1, <2>5 DEF Grows
  <1>11. S \subseteq nt.barriers[j].nextPipelines /\ A \subseteq nt.barriers[j].nextAccesses
    BY <1>5, <1>7
  <1>. QED BY <1>6, <1>9, <1>10, <1>11 DEF u, r, t, nt, j, S, A

\* The barrier that AddBarrier makes, for a resource that has one or not.
PreviousOf(st, t) ==
  IF t.barrier = 0 THEN [stages |-> t.previousStages, access |-> t.previousAccess]
  ELSE [stages |-> st.barriers[t.barrier].nextPipelines,
        access |-> st.barriers[t.barrier].nextAccesses]

LEMMA NewBarrierIs ==
  ASSUME Built, NEW st, TrackOK(st), NEW k \in DOMAIN bufferUsages
  PROVE  LET u == bufferUsages[k]
             t == TrackingOf(st, u)
             b == NewBarrier(st, t, u)
         IN  /\ b \in BarrierType
             /\ b.previousPipelines = PreviousOf(st, t).stages
             /\ b.previousAccesses = PreviousOf(st, t).access
             /\ b.nextPipelines = StagesOf(passes[u.pass]) /\ b.nextAccesses = AccessesOf(u.access)
  <1> DEFINE u == bufferUsages[k]
             t == TrackingOf(st, u)
             S == StagesOf(passes[u.pass])
             A == AccessesOf(u.access)
  <1>1. /\ S \subseteq Stage /\ A \subseteq AccessType /\ t \in Tracking
        /\ t.barrier = st.tracking[ResourceOf(u)].barrier /\ ResourceOf(u) \in DOMAIN resources
    BY UsageFacts, TrackingOfIs, AccessFacts
  <1>2. t.barrier \in 0..Len(st.barriers) /\ st.barriers \in Seq(BarrierType)
    BY <1>1 DEF TrackOK, TrackState
  <1>3. NewBarrier(st, t, u) = Barrier(PreviousOf(st, t).stages, PreviousOf(st, t).access, S, A)
    BY DEF NewBarrier, PreviousOf
  <1>. HIDE DEF u, t, S, A
  <1>4. PreviousOf(st, t).stages \subseteq Stage /\ PreviousOf(st, t).access \subseteq AccessType
    <2>1. CASE t.barrier = 0
      BY <1>1, <2>1 DEF PreviousOf, Tracking
    <2>2. CASE t.barrier # 0
      <3>1. t.barrier \in 1..Len(st.barriers) /\ st.barriers[t.barrier] \in BarrierType
        BY <1>2, <2>2, Elements
      <3>. QED BY <2>2, <3>1 DEF PreviousOf, BarrierType
    <2>. QED BY <2>1, <2>2
  <1>. QED BY <1>1, <1>3, <1>4 DEF Barrier, BarrierType, u, t, S, A

LEMMA AddStep ==
  ASSUME Built, NEW st, TrackOK(st), NEW k \in DOMAIN bufferUsages
  PROVE  LET u == bufferUsages[k]
             t == TrackingOf(st, u)
             nt == AddBarrier(st, t, u)
             r == ResourceOf(u)
             j == nt.tracking[r].barrier
         IN  /\ TrackOK(nt) /\ Grows(st, nt)
             /\ \A q \in DOMAIN resources : q # r => nt.tracking[q] = st.tracking[q]
             /\ j \in 1..Len(nt.barriers) /\ nt.tracking[r].isRead = IsRead(u.access)
             /\ nt.barriers[j] = NewBarrier(st, t, u) /\ nt.pass[j] = u.pass
             /\ t.barrier # 0 => Unused(nt, t.barrier) /\ nt.barriers[t.barrier] = st.barriers[t.barrier]
  <1> DEFINE u == bufferUsages[k]
             r == ResourceOf(u)
             t == TrackingOf(st, u)
             nt == AddBarrier(st, t, u)
             n == Len(st.barriers)
             nb == NewBarrier(st, t, u)
             s == [t EXCEPT !.barrier = n + 1, !.isRead = IsRead(u.access)]
  <1>1. /\ r \in DOMAIN resources /\ t \in Tracking /\ t.barrier = st.tracking[r].barrier
        /\ u.pass \in Nat /\ nb \in BarrierType /\ IsRead(u.access) \in BOOLEAN
    BY UsageFacts, TrackingOfIs, AccessFacts, NewBarrierIs
  <1>2. /\ st.tracking \in [DOMAIN resources -> Tracking] /\ st.barriers \in Seq(BarrierType)
        /\ st.pass \in Seq(Nat) /\ Len(st.pass) = n
    BY DEF TrackOK, TrackState
  <1>3. /\ nt = [tracking |-> [st.tracking EXCEPT ![r] = s], barriers |-> Append(st.barriers, nb),
                 pass |-> Append(st.pass, u.pass)]
    BY DEF AddBarrier
  <1>. HIDE DEF u, r, t, nt, nb
  <1>4. nt.barriers = Append(st.barriers, nb) /\ nt.pass = Append(st.pass, u.pass)
        /\ nt.tracking = [st.tracking EXCEPT ![r] = s]
    BY <1>3
  <1>5. n \in Nat /\ s \in Tracking /\ s.barrier = n + 1 /\ s.isRead = IsRead(u.access)
    <2>1. n \in Nat
      BY <1>2, Elements
    <2>2. n + 1 \in Nat /\ IsRead(u.access) \in BOOLEAN /\ t \in Tracking
      BY <1>1, <2>1
    <2> DEFINE m == n + 1
               w == IsRead(u.access)
    <2>3. s = [t EXCEPT !.barrier = m, !.isRead = w] /\ m \in Nat /\ w \in BOOLEAN
      BY <2>2
    <2>. HIDE DEF s, m, w
    <2>4. s \in Tracking /\ s.barrier = m /\ s.isRead = w
      BY <2>2, <2>3 DEF Tracking
    <2>. QED BY <2>1, <2>4 DEF m, w
  <1>. HIDE DEF s
  <1>6. /\ nt.barriers \in Seq(BarrierType) /\ nt.pass \in Seq(Nat)
        /\ Len(nt.barriers) = n + 1 /\ Len(nt.pass) = n + 1
        /\ \A i \in 1..n : nt.barriers[i] = st.barriers[i] /\ nt.pass[i] = st.pass[i]
        /\ nt.barriers[n + 1] = nb /\ nt.pass[n + 1] = u.pass
    BY <1>1, <1>2, <1>4, Appended
  <1>7. /\ nt.tracking \in [DOMAIN resources -> Tracking] /\ nt.tracking[r] = s
        /\ \A q \in DOMAIN resources : q # r => nt.tracking[q] = st.tracking[q]
    BY <1>1, <1>2, <1>4, <1>5
  <1>8. nt \in TrackState
    BY <1>3, <1>4, <1>6, <1>7 DEF TrackState
  <1>9. \A q \in DOMAIN resources : st.tracking[q].barrier \in 0..n
    BY DEF TrackOK
  <1>10. TrackOK(nt)
    <2>1. \A q \in DOMAIN resources : nt.tracking[q].barrier \in 0..(n + 1)
      BY <1>5, <1>7, <1>9
    <2>2. ASSUME NEW p \in DOMAIN resources, NEW q \in DOMAIN resources,
                 nt.tracking[p].barrier = nt.tracking[q].barrier, p # q
          PROVE  nt.tracking[q].barrier = 0
      <3>1. CASE p = r
        BY <1>5, <1>7, <1>9, <2>2, <3>1
      <3>2. CASE q = r
        BY <1>5, <1>7, <1>9, <2>2, <3>2
      <3>3. CASE p # r /\ q # r
        BY <1>7, <2>2, <3>3 DEF TrackOK
      <3>. QED BY <3>1, <3>2, <3>3
    <2>. HIDE DEF n
    <2>. QED BY <1>6, <1>8, <2>1, <2>2 DEF TrackOK
  <1>11. ASSUME NEW i \in 1..n, Unused(st, i) \/ i = t.barrier
         PROVE  Unused(nt, i)
    <2>1. \A q \in DOMAIN resources : q # r => st.tracking[q].barrier # i
      <3>1. CASE Unused(st, i)
        BY <3>1 DEF Unused
      <3>2. CASE i = t.barrier
        <4>1. i = st.tracking[r].barrier /\ i # 0
          BY <1>1, <1>5, <3>2
        <4>. QED BY <1>1, <4>1 DEF TrackOK
      <3>. QED BY <1>11, <3>1, <3>2
    <2>2. nt.tracking[r].barrier # i
      BY <1>5, <1>7, <1>11
    <2>. QED BY <1>7, <2>1, <2>2 DEF Unused
  <1>12. Grows(st, nt)
    <2>. HIDE DEF n
    <2>1. n <= n + 1
      BY <1>5
    <2>. QED BY <1>6, <1>11, <2>1 DEF Grows, n
  <1>13. t.barrier # 0 => Unused(nt, t.barrier) /\ nt.barriers[t.barrier] = st.barriers[t.barrier]
    <2>1. t.barrier # 0 => t.barrier \in 1..n
      BY <1>1, <1>5, <1>9
    <2>. QED BY <1>6, <1>11, <2>1
  <1>. QED BY <1>5, <1>6, <1>7, <1>10, <1>12, <1>13 DEF u, r, t, nt, nb

-----------------------------------------------------------------------------
(* One usage *)

\* Of usage u, st and nt being what is known before and after it: its resource
\* has a barrier that is for it, the one that it had or a new one.
Waits(st, nt, u) ==
  LET r == ResourceOf(u)
      t == TrackingOf(st, u)
      j == nt.tracking[r].barrier
  IN  /\ j \in 1..Len(nt.barriers) /\ nt.tracking[r].isRead = IsRead(u.access)
      /\ StagesOf(passes[u.pass]) \subseteq nt.barriers[j].nextPipelines
      /\ AccessesOf(u.access) \subseteq nt.barriers[j].nextAccesses
      /\ \/ j = t.barrier /\ t.isRead /\ IsRead(u.access)
         \/ /\ nt.pass[j] = u.pass
            /\ nt.barriers[j].previousPipelines = PreviousOf(st, t).stages
            /\ nt.barriers[j].previousAccesses = PreviousOf(st, t).access
            /\ t.barrier # 0 => Unused(nt, t.barrier) /\ nt.barriers[t.barrier] = st.barriers[t.barrier]

LEMMA UsageStep ==
  ASSUME Built, NEW st, TrackOK(st), NEW k \in DOMAIN bufferUsages
  PROVE  LET u == bufferUsages[k]
             r == ResourceOf(u)
             nt == TrackUsage(st, u)
         IN  /\ TrackOK(nt) /\ Grows(st, nt)
             /\ \A q \in DOMAIN resources : q # r => nt.tracking[q] = st.tracking[q]
             /\ StagesOf(passes[u.pass]) = {} => nt.tracking[r] = TrackingOf(st, u)
             /\ StagesOf(passes[u.pass]) # {} => Waits(st, nt, u)
  <1> DEFINE u == bufferUsages[k]
             r == ResourceOf(u)
             t == TrackingOf(st, u)
             nt == TrackUsage(st, u)
             S == StagesOf(passes[u.pass])
  <1>1. t.barrier = st.tracking[r].barrier /\ t.isRead = st.tracking[r].isRead /\ t \in Tracking
        /\ r \in DOMAIN resources /\ IsRead(u.access) \in BOOLEAN
    BY UsageFacts, TrackingOfIs, AccessFacts
  <1>2. CASE S = {}
    <2>1. nt = Forward(st, t, u)
      BY <1>2 DEF TrackUsage
    <2>. QED BY <1>2, <2>1, ForwardStep
  <1>3. CASE S # {} /\ IsRead(u.access) /\ t.barrier # 0 /\ t.isRead
    <2>1. nt = Join(st, t, u)
      BY <1>3 DEF TrackUsage
    <2>2. /\ TrackOK(nt) /\ Grows(st, nt) /\ nt.tracking = st.tracking
          /\ S \subseteq nt.barriers[t.barrier].nextPipelines
          /\ AccessesOf(u.access) \subseteq nt.barriers[t.barrier].nextAccesses
      BY <1>1, <1>3, <2>1, JoinStep
    <2>3. t.barrier \in 0..Len(nt.barriers) /\ Len(nt.barriers) \in Nat
      <3>1. nt.barriers \in Seq(BarrierType) /\ nt.tracking[r].barrier \in 0..Len(nt.barriers)
        BY <1>1, <2>2 DEF TrackOK, TrackState
      <3>. HIDE DEF nt
      <3>. QED BY <1>1, <2>2, <3>1, Elements
    <2>4. t.barrier \in 1..Len(nt.barriers)
      BY <1>3, <2>3
    <2>5. nt.tracking[r].barrier = t.barrier /\ nt.tracking[r].isRead = IsRead(u.access)
      BY <1>1, <1>3, <2>2
    <2>. HIDE DEF nt, u, t, r, S
    <2>6. Waits(st, nt, u)
      BY <1>3, <2>2, <2>4, <2>5 DEF Waits, t, r, S
    <2>. QED BY <1>3, <2>2, <2>6 DEF nt, u, t, r, S
  <1>4. CASE S # {} /\ ~(IsRead(u.access) /\ t.barrier # 0 /\ t.isRead)
    <2>1. nt = AddBarrier(st, t, u)
      BY <1>4 DEF TrackUsage
    <2> DEFINE j == nt.tracking[r].barrier
    <2>2. /\ TrackOK(nt) /\ Grows(st, nt)
          /\ \A q \in DOMAIN resources : q # r => nt.tracking[q] = st.tracking[q]
          /\ j \in 1..Len(nt.barriers) /\ nt.tracking[r].isRead = IsRead(u.access)
          /\ nt.barriers[j] = NewBarrier(st, t, u) /\ nt.pass[j] = u.pass
          /\ t.barrier # 0 => Unused(nt, t.barrier) /\ nt.barriers[t.barrier] = st.barriers[t.barrier]
      BY <2>1, AddStep
    <2>3. /\ nt.barriers[j].previousPipelines = PreviousOf(st, t).stages
          /\ nt.barriers[j].previousAccesses = PreviousOf(st, t).access
          /\ nt.barriers[j].nextPipelines = S /\ nt.barriers[j].nextAccesses = AccessesOf(u.access)
      BY <2>2, NewBarrierIs
    <2>. HIDE DEF nt, u, t, r, S, j
    <2>4. Waits(st, nt, u)
      BY <2>2, <2>3 DEF Waits, t, r, S, j
    <2>. QED BY <1>4, <2>2, <2>4 DEF nt, u, t, r, S
  <1>. QED BY <1>2, <1>3, <1>4

-----------------------------------------------------------------------------
(* All usages *)

N == Len(bufferUsages)

TracksTo(n, g) ==
  g = [k \in 0..n |-> IF k = 0 THEN FirstTracked ELSE TrackUsage(g[k - 1], bufferUsages[k])]

LEMMA TracksExist ==
  ASSUME NEW n \in Nat
  PROVE  \E g : TracksTo(n, g)
  <1> DEFINE T == {k \in Nat : \E g : TracksTo(k, g)}
  <1>1. 0 \in T
    <2> DEFINE g == [k \in 0..0 |-> FirstTracked]
    <2>1. 0..0 = {0}
      OBVIOUS
    <2>2. TracksTo(0, g)
      BY <2>1 DEF TracksTo
    <2>. QED BY <2>2
  <1>2. ASSUME NEW m \in Nat, m \in T
        PROVE  m + 1 \in T
    <2>1. PICK g : TracksTo(m, g)
      BY <1>2
    <2>2. \A k \in 0..m : g[k] = IF k = 0 THEN FirstTracked ELSE TrackUsage(g[k - 1], bufferUsages[k])
      BY <2>1 DEF TracksTo
    <2> DEFINE h == [k \in 0..(m + 1) |->
                       IF k = m + 1 THEN TrackUsage(g[m], bufferUsages[k]) ELSE g[k]]
    <2>3. ASSUME NEW k \in 0..(m + 1)
          PROVE  h[k] = IF k = 0 THEN FirstTracked ELSE TrackUsage(h[k - 1], bufferUsages[k])
      <3>1. CASE k = m + 1
        <4>1. k # 0 /\ k - 1 = m /\ m \in 0..(m + 1) /\ m # m + 1
          BY <3>1
        <4>2. h[m] = g[m] /\ h[k] = TrackUsage(g[m], bufferUsages[k])
          BY <3>1, <4>1
        <4>. HIDE DEF h
        <4>. QED BY <4>1, <4>2
      <3>2. CASE k # m + 1
        <4>1. k \in 0..m /\ h[k] = g[k]
          BY <3>2
        <4>2. CASE k = 0
          BY <2>2, <4>1, <4>2
        <4>3. CASE k # 0
          <5>1. k - 1 \in 0..(m + 1) /\ k - 1 # m + 1
            BY <4>1, <4>3
          <5>2. h[k - 1] = g[k - 1]
            BY <5>1
          <5>. HIDE DEF h
          <5>. QED BY <2>2, <4>1, <4>3, <5>2
        <4>. QED BY <4>2, <4>3
      <3>. QED BY <3>1, <3>2
    <2>4. h = [k \in 0..(m + 1) |-> h[k]]
      OBVIOUS
    <2>. HIDE DEF h
    <2>5. TracksTo(m + 1, h)
      BY <2>3, <2>4 DEF TracksTo
    <2>. QED BY <2>5
  <1>. HIDE DEF T
  <1>3. n \in T
    BY <1>1, <1>2, Induction
  <1>. QED BY <1>3 DEF T

LEMMA TrackedIs ==
  ASSUME Built
  PROVE  /\ N \in Nat /\ DOMAIN bufferUsages = 1..N
         /\ \A k \in 0..N : TrackOK(Tracked[k])
         /\ Tracked[0] = FirstTracked
         /\ \A k \in 1..N : Tracked[k] = TrackUsage(Tracked[k - 1], bufferUsages[k])
  <1>1. N \in Nat /\ DOMAIN bufferUsages = 1..N
    BY Elements DEF Built, TypeInv, N
  <1>2. \E g : TracksTo(N, g)
    BY <1>1, TracksExist
  <1>3. Tracked = CHOOSE g : TracksTo(N, g)
    BY DEF Tracked, TracksTo, FirstTracked, N
  <1>4. TracksTo(N, Tracked)
    BY <1>2, <1>3
  <1>5. \A k \in 0..N : Tracked[k] = IF k = 0 THEN FirstTracked
                                     ELSE TrackUsage(Tracked[k - 1], bufferUsages[k])
    BY <1>4 DEF TracksTo
  <1>6. Tracked[0] = FirstTracked
    BY <1>1, <1>5
  <1>7. \A k \in 1..N : Tracked[k] = TrackUsage(Tracked[k - 1], bufferUsages[k])
    BY <1>1, <1>5
  <1> DEFINE T == {k \in Nat : k <= N => TrackOK(Tracked[k])}
  <1>8. 0 \in T
    BY <1>6, FirstOK
  <1>9. ASSUME NEW k \in Nat, k \in T
        PROVE  k + 1 \in T
    <2>1. CASE k + 1 <= N
      <3>1. k <= N /\ k + 1 \in 1..N /\ (k + 1) - 1 = k
        BY <1>1, <2>1
      <3>2. TrackOK(Tracked[k]) /\ Tracked[k + 1] = TrackUsage(Tracked[k], bufferUsages[k + 1])
        BY <1>7, <1>9, <3>1
      <3>3. TrackOK(Tracked[k + 1])
        BY <1>1, <3>1, <3>2, UsageStep
      <3>. QED BY <3>3
    <2>. QED BY <2>1
  <1>. HIDE DEF T
  <1>10. Nat \subseteq T
    BY <1>8, <1>9, Induction
  <1>11. \A k \in 0..N : TrackOK(Tracked[k])
    BY <1>1, <1>10 DEF T
  <1>. QED BY <1>1, <1>6, <1>7, <1>11

\* What is known after usage k, from what was known before it.
LEMMA TrackedStep ==
  ASSUME Built, NEW k \in 1..N
  PROVE  LET u == bufferUsages[k]
             st == Tracked[k - 1]
             nt == Tracked[k]
         IN  /\ k \in DOMAIN bufferUsages /\ k - 1 \in 0..N
             /\ TrackOK(st) /\ TrackOK(nt) /\ Grows(st, nt)
             /\ \A q \in DOMAIN resources : q # ResourceOf(u) => nt.tracking[q] = st.tracking[q]
             /\ StagesOf(passes[u.pass]) = {} => nt.tracking[ResourceOf(u)] = TrackingOf(st, u)
             /\ StagesOf(passes[u.pass]) # {} => Waits(st, nt, u)
  <1>1. k \in DOMAIN bufferUsages /\ k - 1 \in 0..N
    BY TrackedIs
  <1>2. TrackOK(Tracked[k - 1]) /\ Tracked[k] = TrackUsage(Tracked[k - 1], bufferUsages[k])
    BY <1>1, TrackedIs
  <1>. QED BY <1>1, <1>2, UsageStep

LEMMA GrowsTransitive ==
  ASSUME NEW a, NEW b, NEW c, TrackOK(a), TrackOK(b), TrackOK(c), Grows(a, b), Grows(b, c)
  PROVE  Grows(a, c)
  <1>1. Len(a.barriers) \in Nat /\ Len(b.barriers) \in Nat /\ Len(c.barriers) \in Nat
    BY Elements DEF TrackOK, TrackState
  <1>2. Len(a.barriers) <= Len(c.barriers)
    BY <1>1 DEF Grows
  <1>3. ASSUME NEW j \in 1..Len(a.barriers)
        PROVE  j \in 1..Len(b.barriers)
    BY <1>1 DEF Grows
  <1>. QED BY <1>2, <1>3 DEF Grows

\* Barriers only grow, and what is known of a resource changes with its usages.
LEMMA TrackedGrows ==
  ASSUME Built, NEW m \in 0..N, NEW n \in 0..N, m <= n
  PROVE  /\ Grows(Tracked[m], Tracked[n])
         /\ \A q \in DOMAIN resources :
              (\A k \in (m + 1)..n : ResourceOf(bufferUsages[k]) # q) =>
                Tracked[n].tracking[q] = Tracked[m].tracking[q]
  <1> DEFINE Alone(i, q) == \A k \in (m + 1)..i : ResourceOf(bufferUsages[k]) # q
             T == {i \in Nat : m <= i /\ i <= N =>
                     /\ Grows(Tracked[m], Tracked[i])
                     /\ \A q \in DOMAIN resources :
                          Alone(i, q) => Tracked[i].tracking[q] = Tracked[m].tracking[q]}
  <1>1. N \in Nat /\ m \in Nat /\ n \in Nat
    BY TrackedIs
  <1>2. Grows(Tracked[m], Tracked[m])
    <2>1. Len(Tracked[m].barriers) \in Nat
      BY TrackedIs, Elements DEF TrackOK, TrackState
    <2>. QED BY <2>1 DEF Grows
  <1>3. 0 \in T
    <2>1. m <= 0 => m = 0
      BY <1>1
    <2>. QED BY <1>2, <2>1
  <1>4. ASSUME NEW i \in Nat, i \in T
        PROVE  i + 1 \in T
    <2>1. CASE m = i + 1
      BY <1>2, <2>1
    <2>2. CASE m <= i /\ i + 1 <= N
      <3>1. i \in 0..N /\ i + 1 \in 1..N /\ (i + 1) - 1 = i /\ i + 1 \in 0..N
        BY <1>1, <2>2
      <3>2. /\ Grows(Tracked[m], Tracked[i])
            /\ \A q \in DOMAIN resources :
                 Alone(i, q) => Tracked[i].tracking[q] = Tracked[m].tracking[q]
        BY <1>4, <2>2, <3>1
      <3>3. /\ Grows(Tracked[i], Tracked[i + 1])
            /\ \A q \in DOMAIN resources : q # ResourceOf(bufferUsages[i + 1]) =>
                 Tracked[i + 1].tracking[q] = Tracked[i].tracking[q]
        BY <3>1, TrackedStep
      <3>4. Grows(Tracked[m], Tracked[i + 1])
        BY <3>1, <3>2, <3>3, TrackedIs, GrowsTransitive
      <3>5. ASSUME NEW q \in DOMAIN resources, Alone(i + 1, q)
            PROVE  Tracked[i + 1].tracking[q] = Tracked[m].tracking[q]
        <4>1. \A k \in (m + 1)..i : k \in (m + 1)..(i + 1)
          BY <1>1
        <4>2. i + 1 \in (m + 1)..(i + 1)
          BY <1>1, <2>2
        <4>. QED BY <3>2, <3>3, <3>5, <4>1, <4>2
      <3>. QED BY <3>4, <3>5
    <2>3. m <= i + 1 /\ i + 1 <= N => m = i + 1 \/ (m <= i /\ i + 1 <= N)
      BY <1>1
    <2>. QED BY <2>1, <2>2, <2>3
  <1>. HIDE DEF T
  <1>5. n \in T
    BY <1>1, <1>3, <1>4, Induction
  <1>6. n <= N
    BY <1>1
  <1>. QED BY <1>5, <1>6 DEF T

-----------------------------------------------------------------------------
(* The barrier of each usage, once all are known *)

\* What the first barrier of r waits for, if the first k usages are all.
Told(k, r) ==
  IF \E i \in 1..k : bufferUsages[i].uploadedTo /\ ResourceOf(bufferUsages[i]) = r
  THEN [stages |-> {"transfer"}, access |-> {"any_write"}]
  ELSE [stages |-> fetch_buffer_tracking(r).previousStages,
        access |-> fetch_buffer_tracking(r).previousAccess]

LEMMA ToldIs ==
  ASSUME Built, NEW k \in 0..N, NEW r \in DOMAIN resources, Tracked[k].tracking[r].barrier = 0
  PROVE  /\ Tracked[k].tracking[r].previousStages = Told(k, r).stages
         /\ Tracked[k].tracking[r].previousAccess = Told(k, r).access
  <1> DEFINE OK(i, q) ==
               Tracked[i].tracking[q].barrier = 0 =>
                 /\ Tracked[i].tracking[q].previousStages = Told(i, q).stages
                 /\ Tracked[i].tracking[q].previousAccess = Told(i, q).access
             T == {i \in Nat : i <= N => \A q \in DOMAIN resources : OK(i, q)}
  <1>1. N \in Nat /\ k \in Nat /\ k <= N
    BY TrackedIs
  <1>2. 0 \in T
    <2>1. ASSUME NEW q \in DOMAIN resources
          PROVE  OK(0, q)
      <3>1. Tracked[0].tracking[q] = fetch_buffer_tracking(q)
        BY TrackedIs, FirstOK
      <3>2. Told(0, q) = [stages |-> fetch_buffer_tracking(q).previousStages,
                          access |-> fetch_buffer_tracking(q).previousAccess]
        BY DEF Told
      <3>. QED BY <3>1, <3>2
    <2>. QED BY <2>1
  <1>3. ASSUME NEW i \in Nat, i \in T
        PROVE  i + 1 \in T
    <2> DEFINE u == bufferUsages[i + 1]
               p == ResourceOf(u)
    <2>1. CASE i + 1 <= N
      <3>1. i \in 0..N /\ i + 1 \in 1..N /\ (i + 1) - 1 = i /\ 1..(i + 1) = 1..i \cup {i + 1}
        BY <1>1, <2>1
      <3>2. /\ TrackOK(Tracked[i]) /\ TrackOK(Tracked[i + 1]) /\ i + 1 \in DOMAIN bufferUsages
            /\ \A q \in DOMAIN resources : q # p => Tracked[i + 1].tracking[q] = Tracked[i].tracking[q]
            /\ StagesOf(passes[u.pass]) = {} => Tracked[i + 1].tracking[p] = TrackingOf(Tracked[i], u)
            /\ StagesOf(passes[u.pass]) # {} => Waits(Tracked[i], Tracked[i + 1], u)
        <4>1. /\ i + 1 \in DOMAIN bufferUsages /\ TrackOK(Tracked[(i + 1) - 1]) /\ TrackOK(Tracked[i + 1])
              /\ \A q \in DOMAIN resources :
                   q # p => Tracked[i + 1].tracking[q] = Tracked[(i + 1) - 1].tracking[q]
              /\ StagesOf(passes[u.pass]) = {} =>
                   Tracked[i + 1].tracking[p] = TrackingOf(Tracked[(i + 1) - 1], u)
              /\ StagesOf(passes[u.pass]) # {} => Waits(Tracked[(i + 1) - 1], Tracked[i + 1], u)
          BY <3>1, TrackedStep
        <4>. HIDE DEF u, p
        <4>. QED BY <3>1, <4>1
      <3>3. \A q \in DOMAIN resources : OK(i, q)
        BY <1>3, <3>1
      <3>4. ASSUME NEW q \in DOMAIN resources
            PROVE  OK(i + 1, q)
        <4>1. CASE q # p \/ ~u.uploadedTo
          <5>1. Told(i + 1, q) = Told(i, q)
            BY <3>1, <4>1 DEF Told
          <5>2. CASE q # p
            BY <3>2, <3>3, <5>1, <5>2
          <5>3. CASE q = p /\ ~u.uploadedTo
            <6>1. CASE StagesOf(passes[u.pass]) = {}
              <7>1. Tracked[i + 1].tracking[q] = Tracked[i].tracking[q]
                BY <3>2, <5>3, <6>1 DEF TrackingOf
              <7>. QED BY <3>3, <5>1, <7>1
            <6>2. CASE StagesOf(passes[u.pass]) # {}
              <7>1. Tracked[i + 1].tracking[q].barrier \in 1..Len(Tracked[i + 1].barriers)
                BY <3>2, <5>3, <6>2 DEF Waits
              <7>2. Tracked[i + 1].tracking[q].barrier # 0
                BY <7>1
              <7>. QED BY <7>2
            <6>. QED BY <6>1, <6>2
          <5>. QED BY <4>1, <5>2, <5>3
        <4>2. CASE q = p /\ u.uploadedTo
          <5>1. Told(i + 1, q) = [stages |-> {"transfer"}, access |-> {"any_write"}]
            BY <3>1, <4>2 DEF Told
          <5>2. CASE StagesOf(passes[u.pass]) = {}
            <6>1. /\ Tracked[i + 1].tracking[q].previousStages = {"transfer"}
                  /\ Tracked[i + 1].tracking[q].previousAccess = {"any_write"}
              BY <3>2, <4>2, <5>2, TrackingOfIs
            <6>. QED BY <5>1, <6>1
          <5>3. CASE StagesOf(passes[u.pass]) # {}
            <6>1. Tracked[i + 1].tracking[q].barrier \in 1..Len(Tracked[i + 1].barriers)
              BY <3>2, <4>2, <5>3 DEF Waits
            <6>2. Tracked[i + 1].tracking[q].barrier # 0
              BY <6>1
            <6>. QED BY <6>2
          <5>. QED BY <5>2, <5>3
        <4>. QED BY <4>1, <4>2
      <3>. QED BY <3>4
    <2>. QED BY <2>1
  <1>. HIDE DEF T, OK
  <1>4. k \in T
    BY <1>1, <1>2, <1>3, Induction
  <1>5. OK(k, r)
    BY <1>1, <1>4 DEF T
  <1>. QED BY <1>5 DEF OK

\* The first usage of r is known to be the upload, if there is one.
LEMMA ToldAll ==
  ASSUME Built, NEW k \in 1..N
  PROVE  LET u == bufferUsages[k]
         IN  Told(N, ResourceOf(u)) =
               IF u.uploadedTo THEN [stages |-> {"transfer"}, access |-> {"any_write"}]
               ELSE Told(k - 1, ResourceOf(u))
  <1> DEFINE u == bufferUsages[k]
             r == ResourceOf(u)
             Up(i) == bufferUsages[i].uploadedTo /\ ResourceOf(bufferUsages[i]) = r
  <1>1. N \in Nat /\ DOMAIN bufferUsages = 1..N /\ 1..(k - 1) \subseteq 1..N
    BY TrackedIs
  <1>2. CASE u.uploadedTo
    BY <1>1, <1>2 DEF Told
  <1>3. CASE ~u.uploadedTo
    <2>1. ASSUME NEW i \in 1..N, Up(i)
          PROVE  i \in 1..(k - 1)
      <3>1. i # k
        BY <1>3, <2>1
      <3>2. ~(k < i)
        BY <1>1, <2>1 DEF Built, BuildInv
      <3>. QED BY <1>1, <3>1, <3>2
    <2>2. (\E i \in 1..N : Up(i)) <=> (\E i \in 1..(k - 1) : Up(i))
      BY <1>1, <2>1
    <2>. QED BY <1>3, <2>2 DEF Told
  <1>. QED BY <1>2, <1>3

\* Usage k of resource r waits for barrier j, that was there or is of its pass: the
\* first half of a new one is the second half of the last one.
LEMMA UsageWaits ==
  ASSUME Built, NEW k \in 1..N, StagesOf(passes[bufferUsages[k].pass]) # {}
  PROVE  LET u == bufferUsages[k]
             r == ResourceOf(u)
             t == Tracked[k - 1].tracking[r]
             nt == Tracked[k].tracking[r]
             f == Tracked[N]
             b == f.barriers[nt.barrier]
         IN  /\ nt.barrier \in 1..Len(f.barriers) /\ nt.isRead = IsRead(u.access)
             /\ StagesOf(passes[u.pass]) \subseteq b.nextPipelines
             /\ AccessesOf(u.access) \subseteq b.nextAccesses
             /\ \/ nt.barrier = t.barrier /\ t.isRead /\ IsRead(u.access)
                \/ /\ f.pass[nt.barrier] = u.pass
                   /\ b.previousPipelines = IF t.barrier = 0 THEN Told(N, r).stages
                                            ELSE f.barriers[t.barrier].nextPipelines
                   /\ b.previousAccesses = IF t.barrier = 0 THEN Told(N, r).access
                                           ELSE f.barriers[t.barrier].nextAccesses
  <1> DEFINE u == bufferUsages[k]
             r == ResourceOf(u)
             st == Tracked[k - 1]
             nt == Tracked[k]
             t == TrackingOf(st, u)
             j == nt.tracking[r].barrier
             f == Tracked[N]
  <1>1. /\ N \in Nat /\ k \in 0..N /\ N \in 0..N /\ k <= N /\ k - 1 \in 0..N
        /\ k \in DOMAIN bufferUsages /\ r \in DOMAIN resources
    BY TrackedIs, UsageFacts
  <1>2. /\ TrackOK(st) /\ TrackOK(nt) /\ TrackOK(f) /\ Grows(st, nt) /\ Waits(st, nt, u)
        /\ Grows(nt, f)
    BY <1>1, TrackedIs, TrackedStep, TrackedGrows
  <1>3. /\ t.barrier = st.tracking[r].barrier /\ t.isRead = st.tracking[r].isRead
        /\ t.previousStages = IF u.uploadedTo THEN {"transfer"} ELSE st.tracking[r].previousStages
        /\ t.previousAccess = IF u.uploadedTo THEN {"any_write"} ELSE st.tracking[r].previousAccess
    BY <1>1, <1>2, TrackingOfIs
  <1>4. t.barrier = 0 => t.previousStages = Told(N, r).stages /\ t.previousAccess = Told(N, r).access
    <2>1. SUFFICES ASSUME t.barrier = 0
                   PROVE  t.previousStages = Told(N, r).stages /\ t.previousAccess = Told(N, r).access
      OBVIOUS
    <2>2. /\ st.tracking[r].previousStages = Told(k - 1, r).stages
          /\ st.tracking[r].previousAccess = Told(k - 1, r).access
      BY <1>1, <1>3, <2>1, ToldIs
    <2>3. Told(N, r) = IF u.uploadedTo THEN [stages |-> {"transfer"}, access |-> {"any_write"}]
                       ELSE Told(k - 1, r)
      BY ToldAll
    <2>4. CASE u.uploadedTo
      BY <1>3, <2>3, <2>4
    <2>5. CASE ~u.uploadedTo
      BY <1>3, <2>2, <2>3, <2>5
    <2>. QED BY <2>4, <2>5
  <1>5. /\ Len(st.barriers) \in Nat /\ Len(nt.barriers) \in Nat /\ Len(f.barriers) \in Nat
        /\ st.tracking[r].barrier \in 0..Len(st.barriers)
        /\ Len(st.barriers) <= Len(nt.barriers) /\ Len(nt.barriers) <= Len(f.barriers)
    BY <1>1, <1>2, Elements DEF TrackOK, TrackState, Grows
  <1>. HIDE DEF u, r, st, nt, t, f
  <1>6. /\ j \in 1..Len(nt.barriers) /\ nt.tracking[r].isRead = IsRead(u.access)
        /\ StagesOf(passes[u.pass]) \subseteq nt.barriers[j].nextPipelines
        /\ AccessesOf(u.access) \subseteq nt.barriers[j].nextAccesses
        /\ \/ j = t.barrier /\ t.isRead /\ IsRead(u.access)
           \/ /\ nt.pass[j] = u.pass
              /\ nt.barriers[j].previousPipelines = PreviousOf(st, t).stages
              /\ nt.barriers[j].previousAccesses = PreviousOf(st, t).access
              /\ t.barrier # 0 => Unused(nt, t.barrier) /\ nt.barriers[t.barrier] = st.barriers[t.barrier]
    BY <1>2 DEF Waits, r, t
  <1>. HIDE DEF j
  <1>7. /\ f.pass[j] = nt.pass[j]
        /\ f.barriers[j].previousPipelines = nt.barriers[j].previousPipelines
        /\ f.barriers[j].previousAccesses = nt.barriers[j].previousAccesses
        /\ nt.barriers[j].nextPipelines \subseteq f.barriers[j].nextPipelines
        /\ nt.barriers[j].nextAccesses \subseteq f.barriers[j].nextAccesses
        /\ j \in 1..Len(f.barriers)
    BY <1>2, <1>5, <1>6 DEF Grows
  <1>8. CASE j = t.barrier /\ t.isRead /\ IsRead(u.access)
    BY <1>3, <1>6, <1>7, <1>8 DEF u, r, st, nt, f, j
  <1>9. CASE /\ nt.pass[j] = u.pass
             /\ nt.barriers[j].previousPipelines = PreviousOf(st, t).stages
             /\ nt.barriers[j].previousAccesses = PreviousOf(st, t).access
             /\ t.barrier # 0 => Unused(nt, t.barrier) /\ nt.barriers[t.barrier] = st.barriers[t.barrier]
    <2>1. CASE t.barrier = 0
      <3>1. f.barriers[j].previousPipelines = Told(N, r).stages
            /\ f.barriers[j].previousAccesses = Told(N, r).access
        BY <1>4, <1>7, <1>9, <2>1 DEF PreviousOf
      <3>. QED BY <1>3, <1>6, <1>7, <1>9, <2>1, <3>1 DEF u, r, st, nt, f, j
    <2>2. CASE t.barrier # 0
      <3>1. t.barrier \in 1..Len(nt.barriers)
        BY <1>3, <1>5, <2>2
      <3>2. f.barriers[t.barrier] = nt.barriers[t.barrier]
        BY <1>2, <1>9, <2>2, <3>1 DEF Grows
      <3>3. /\ f.barriers[j].previousPipelines = f.barriers[t.barrier].nextPipelines
            /\ f.barriers[j].previousAccesses = f.barriers[t.barrier].nextAccesses
        BY <1>7, <1>9, <2>2, <3>2 DEF PreviousOf
      <3>. QED BY <1>3, <1>6, <1>7, <1>9, <2>2, <3>3 DEF u, r, st, nt, f, j
    <2>. QED BY <2>1, <2>2
  <1>. QED BY <1>6, <1>8, <1>9

-----------------------------------------------------------------------------
(* Barriers and accesses of the device *)

LEMMA SeenMore ==
  ASSUME NEW x, NEW b
  PROVE  /\ Seen(x, b).stage = x.stage /\ Seen(x, b).writes = x.writes
         /\ x.after \subseteq Seen(x, b).after /\ x.visible \subseteq Seen(x, b).visible
         /\ x.available => Seen(x, b).available
  BY DEF Seen, Available

LEMMA Applied ==
  ASSUME NEW d, NEW b, NEW buffer
  PROVE  /\ LogOf(Apply(d, b), buffer) = {Seen(x, b) : x \in LogOf(d, buffer)}
         /\ DOMAIN Apply(d, b).log = DOMAIN d.log /\ Apply(d, b).raced = d.raced
  <1>1. /\ Apply(d, b).log = [c \in DOMAIN d.log |-> {Seen(x, b) : x \in d.log[c]}]
        /\ Apply(d, b).raced = d.raced
    BY DEF Apply
  <1>2. DOMAIN Apply(d, b).log = DOMAIN d.log
    BY <1>1
  <1>3. CASE buffer \in DOMAIN d.log
    BY <1>1, <1>2, <1>3 DEF LogOf
  <1>4. CASE buffer \notin DOMAIN d.log
    BY <1>1, <1>2, <1>4 DEF LogOf
  <1>. QED BY <1>3, <1>4

\* A barrier keeps what is known of a log.
LEMMA CoveredStill ==
  ASSUME NEW d, NEW b, NEW buffer, NEW S, NEW A, Covered(LogOf(d, buffer), S, A)
  PROVE  Covered(LogOf(Apply(d, b), buffer), S, A)
  <1>1. ASSUME NEW x \in LogOf(d, buffer)
        PROVE  LET y == Seen(x, b)
               IN  /\ S \cap ({y.stage} \cup y.after) # {}
                   /\ y.writes => y.available \/ (y.stage \in S /\ "any_write" \in A)
    <2> DEFINE y == Seen(x, b)
    <2>1. /\ y.stage = x.stage /\ y.writes = x.writes /\ x.after \subseteq y.after
          /\ x.available => y.available
      BY SeenMore
    <2>2. /\ S \cap ({x.stage} \cup x.after) # {}
          /\ x.writes => x.available \/ (x.stage \in S /\ "any_write" \in A)
      BY DEF Covered
    <2>. HIDE DEF y
    <2>3. S \cap ({y.stage} \cup y.after) # {}
      BY <2>1, <2>2
    <2>4. y.writes => y.available \/ (y.stage \in S /\ "any_write" \in A)
      BY <2>1, <2>2
    <2>. QED BY <2>3, <2>4 DEF y
  <1>2. \A y \in LogOf(Apply(d, b), buffer) : \E x \in LogOf(d, buffer) : y = Seen(x, b)
    BY Applied
  <1>. QED BY <1>1, <1>2 DEF Covered

LEMMA JoinedStill ==
  ASSUME NEW d, NEW b, NEW buffer, NEW S, NEW A, NEW isRead, Joined(LogOf(d, buffer), S, A, isRead)
  PROVE  Joined(LogOf(Apply(d, b), buffer), S, A, isRead)
  <1>1. ASSUME NEW x \in LogOf(d, buffer)
        PROVE  LET y == Seen(x, b)
               IN  \/ y.stage \in S /\ (y.writes => "any_write" \in A /\ ~isRead)
                   \/ Waited(y, S, A)
    <2> DEFINE y == Seen(x, b)
    <2>1. /\ y.stage = x.stage /\ y.writes = x.writes /\ x.after \subseteq y.after
          /\ x.visible \subseteq y.visible
          /\ x.available => y.available
      BY SeenMore
    <2>. HIDE DEF y
    <2>2. Waited(x, S, A) => Waited(y, S, A)
      BY <2>1 DEF Waited
    <2>3. \/ x.stage \in S /\ (x.writes => "any_write" \in A /\ ~isRead)
          \/ Waited(x, S, A)
      BY DEF Joined
    <2>4. \/ y.stage \in S /\ (y.writes => "any_write" \in A /\ ~isRead)
          \/ Waited(y, S, A)
      BY <2>1, <2>2, <2>3
    <2>. QED BY <2>4 DEF y
  <1>2. \A y \in LogOf(Apply(d, b), buffer) : \E x \in LogOf(d, buffer) : y = Seen(x, b)
    BY Applied
  <1>. QED BY <1>1, <1>2 DEF Joined

\* A barrier that includes one that covers a log is waited for by all of it.
LEMMA AllWaited ==
  ASSUME NEW d, NEW b, NEW buffer, NEW S, NEW A, NEW T, NEW B, Covered(LogOf(d, buffer), S, A),
         S \subseteq b.previousPipelines, A \subseteq b.previousAccesses,
         T \subseteq b.nextPipelines, B \subseteq b.nextAccesses
  PROVE  \A y \in LogOf(Apply(d, b), buffer) : Waited(y, T, B)
  <1>1. ASSUME NEW x \in LogOf(d, buffer)
        PROVE  Waited(Seen(x, b), T, B)
    <2>1. /\ S \cap ({x.stage} \cup x.after) # {}
          /\ x.writes => x.available \/ (x.stage \in S /\ "any_write" \in A)
      BY DEF Covered
    <2>2. Ordered(x, b) /\ (x.writes => Available(x, b))
      BY <2>1 DEF Ordered, Available
    <2> DEFINE y == Seen(x, b)
    <2>3. /\ y.after = x.after \cup b.nextPipelines /\ y.writes = x.writes
          /\ x.writes => y.available /\ y.visible = x.visible \cup (b.nextPipelines \X b.nextAccesses)
      BY <2>2 DEF Seen
    <2>. HIDE DEF y
    <2>4. T \X B \subseteq b.nextPipelines \X b.nextAccesses
      OBVIOUS
    <2>5. Waited(y, T, B)
      BY <2>3, <2>4 DEF Waited
    <2>. QED BY <2>5 DEF y
  <1>2. \A y \in LogOf(Apply(d, b), buffer) : \E x \in LogOf(d, buffer) : y = Seen(x, b)
    BY Applied
  <1>. QED BY <1>1, <1>2

LEMMA JoinedCovers ==
  ASSUME NEW log, NEW S, NEW A, NEW isRead, Joined(log, S, A, isRead), S # {}
  PROVE  Covered(log, S, A)
  <1>1. ASSUME NEW x \in log
        PROVE  /\ S \cap ({x.stage} \cup x.after) # {}
               /\ x.writes => x.available \/ (x.stage \in S /\ "any_write" \in A)
    <2>1. \/ x.stage \in S /\ (x.writes => "any_write" \in A)
          \/ S \subseteq x.after /\ (x.writes => x.available)
      BY DEF Joined, Waited
    <2>. QED BY <2>1
  <1>. QED BY <1>1 DEF Covered

\* An access after a barrier that is for it, or a read after one for reads.
LEMMA SafeAccess ==
  ASSUME NEW log, NEW S, NEW A, NEW stage \in S, NEW accesses, accesses \subseteq A,
         \/ \A x \in log : Waited(x, S, A)
         \/ Joined(log, S, A, TRUE) /\ "any_write" \notin accesses
  PROVE  /\ Safe(log, stage, accesses)
         /\ Joined(Accessed(log, stage, accesses), S, A, "any_write" \notin accesses)
  <1> DEFINE new == [stage |-> stage, writes |-> "any_write" \in accesses, after |-> {},
                     available |-> FALSE, visible |-> {}]
  <1>1. ASSUME NEW x \in log
        PROVE  \/ Waited(x, S, A)
               \/ x.stage \in S /\ ~x.writes /\ "any_write" \notin accesses
    BY DEF Joined
  <1>2. {stage} \X accesses \subseteq S \X A
    OBVIOUS
  <1>3. ASSUME NEW x \in log
        PROVE  /\ x.writes \/ "any_write" \in accesses => stage \in x.after
               /\ x.writes => {stage} \X accesses \subseteq x.visible
    BY <1>1, <1>2 DEF Waited
  <1>4. Safe(log, stage, accesses)
    BY <1>3 DEF Safe
  <1>5. new.stage \in S /\ (new.writes => "any_write" \in A /\ ~("any_write" \notin accesses))
    OBVIOUS
  <1>6. \A x \in Accessed(log, stage, accesses) : x \in log \/ x = new
    BY DEF Accessed
  <1>. HIDE DEF new
  <1>7. Joined(Accessed(log, stage, accesses), S, A, "any_write" \notin accesses)
    <2>1. ASSUME NEW x \in Accessed(log, stage, accesses)
          PROVE  \/ x.stage \in S /\ (x.writes => "any_write" \in A /\ ~("any_write" \notin accesses))
                 \/ Waited(x, S, A)
      BY <1>1, <1>5, <1>6
    <2>. QED BY <2>1 DEF Joined
  <1>. QED BY <1>4, <1>7

LEMMA AccessedLogs ==
  ASSUME NEW d, NEW stage, NEW uses
  PROVE  /\ DOMAIN Access(d, stage, uses).log = DOMAIN d.log \cup DOMAIN uses
         /\ \A b : LogOf(Access(d, stage, uses), b) =
              IF b \in DOMAIN uses THEN Accessed(LogOf(d, b), stage, uses[b]) ELSE LogOf(d, b)
         /\ ~d.raced /\ (\A b \in DOMAIN uses : Safe(LogOf(d, b), stage, uses[b])) =>
              ~Access(d, stage, uses).raced
  <1> DEFINE L == DOMAIN d.log \cup DOMAIN uses
             e == Access(d, stage, uses)
  <1>1. /\ e.log = [b \in L |-> IF b \in DOMAIN uses THEN Accessed(LogOf(d, b), stage, uses[b])
                                ELSE d.log[b]]
        /\ e.raced <=> (d.raced \/ \E b \in DOMAIN uses : ~Safe(LogOf(d, b), stage, uses[b]))
    BY DEF Access
  <1>. HIDE DEF e
  <1>2. DOMAIN e.log = L
    BY <1>1
  <1>3. ASSUME NEW b
        PROVE  LogOf(e, b) = IF b \in DOMAIN uses THEN Accessed(LogOf(d, b), stage, uses[b])
                             ELSE LogOf(d, b)
    <2>1. CASE b \in DOMAIN uses
      <3>1. LogOf(e, b) = e.log[b]
        BY <1>2, <2>1 DEF LogOf
      <3>. QED BY <1>1, <2>1, <3>1
    <2>2. CASE b \notin DOMAIN uses /\ b \in DOMAIN d.log
      <3>1. LogOf(e, b) = e.log[b] /\ LogOf(d, b) = d.log[b]
        BY <1>2, <2>2 DEF LogOf
      <3>. QED BY <1>1, <2>2, <3>1
    <2>3. CASE b \notin DOMAIN uses /\ b \notin DOMAIN d.log
      BY <1>2, <2>3 DEF LogOf
    <2>. QED BY <2>1, <2>2, <2>3
  <1>. QED BY <1>1, <1>2, <1>3 DEF e

-----------------------------------------------------------------------------
(* The commands of a frame *)

LEMMA SameKey ==
  ASSUME TypeInv, BuildInv, NEW q \in DOMAIN resources, NEW r \in DOMAIN resources,
         is_stable(resources[q]), is_stable(resources[r]), Key(resources[q]) = Key(resources[r])
  PROVE  q = r
  <1>1. resources[q].stableId = resources[r].stableId
    BY DEF Key
  <1>. QED BY <1>1 DEF BuildInv

LEMMA BuffersApart ==
  ASSUME Built, NEW q \in DOMAIN resources, NEW r \in DOMAIN resources,
         resources[q].buffer = resources[r].buffer
  PROVE  q = r
  <1>1. \A i \in DOMAIN resources :
          IF is_stable(resources[i])
          THEN \E t : resources[i].buffer = <<"stable", Key(resources[i]), t>>
          ELSE resources[i].buffer = <<"frame", i>>
    <2>1. ASSUME NEW i \in DOMAIN resources, is_stable(resources[i])
          PROVE  \E t : resources[i].buffer = <<"stable", Key(resources[i]), t>>
      <3>1. Key(resources[i]) \in DOMAIN stableBuffers
        BY <2>1, StableEntry
      <3>. QED BY <2>1, <3>1 DEF Built, PoolInv
    <2>2. ASSUME NEW i \in DOMAIN resources, ~is_stable(resources[i])
          PROVE  resources[i].buffer = <<"frame", i>>
      BY <2>2 DEF Built, PoolInv
    <2>. QED BY <2>1, <2>2
  <1>2. CASE is_stable(resources[q]) /\ is_stable(resources[r])
    <2>1. Key(resources[q]) = Key(resources[r])
      BY <1>1, <1>2
    <2>. QED BY <1>2, <2>1, SameKey DEF Built
  <1>3. CASE ~is_stable(resources[q]) /\ ~is_stable(resources[r])
    BY <1>1, <1>3
  <1>4. CASE is_stable(resources[q]) /\ ~is_stable(resources[r])
    <2>1. PICK t : resources[q].buffer = <<"stable", Key(resources[q]), t>>
      BY <1>1, <1>4
    <2>2. resources[q].buffer = <<"frame", r>>
      BY <1>1, <1>4
    <2>3. resources[q].buffer[1] = "stable" /\ resources[q].buffer[1] = "frame"
      BY <2>1, <2>2
    <2>. QED BY <2>3
  <1>5. CASE ~is_stable(resources[q]) /\ is_stable(resources[r])
    <2>1. PICK t : resources[r].buffer = <<"stable", Key(resources[r]), t>>
      BY <1>1, <1>5
    <2>2. resources[r].buffer = <<"frame", q>>
      BY <1>1, <1>5
    <2>3. resources[r].buffer[1] = "stable" /\ resources[r].buffer[1] = "frame"
      BY <2>1, <2>2
    <2>. QED BY <2>3
  <1>. QED BY <1>2, <1>3, <1>4, <1>5

\* After m usages, device d has all accesses of resource r behind the first barrier
\* of r, or the last one is for them.
ResourceOK(d, m, r) ==
  LET t == Tracked[m].tracking[r]
      b == Tracked[N].barriers[t.barrier]
      log == LogOf(d, resources[r].buffer)
  IN  IF t.barrier = 0 THEN Covered(log, Told(N, r).stages, Told(N, r).access)
      ELSE b.nextPipelines # {} /\ Joined(log, b.nextPipelines, b.nextAccesses, t.isRead)

DeviceOK(d, m) == ~d.raced /\ \A r \in DOMAIN resources : ResourceOK(d, m, r)

LEMMA FirstBarrier ==
  ASSUME Built, NEW d, NEW r \in DOMAIN resources,
         Covered(LogOf(d, resources[r].buffer), Told(N, r).stages, Told(N, r).access)
  PROVE  ResourceOK(d, 0, r)
  <1>1. Tracked[0].tracking[r] = fetch_buffer_tracking(r)
    BY TrackedIs, FirstOK
  <1>2. Tracked[0].tracking[r].barrier = 0
    BY <1>1 DEF fetch_buffer_tracking
  <1>. QED BY <1>2 DEF ResourceOK

\* The log of a resource before the frame's uploads.
LEMMA BeforeUploads ==
  ASSUME Built, DeviceInv, NEW r \in DOMAIN resources
  PROVE  LET log == LogOf(device, resources[r].buffer)
             t == fetch_buffer_tracking(r)
         IN  /\ Covered(log, t.previousStages, t.previousAccess)
             /\ ~is_stable(resources[r]) => log = {}
  <1>1. CASE is_stable(resources[r])
    <2> DEFINE k == Key(resources[r])
    <2>1. k \in DOMAIN stableBuffers /\ resources[r].buffer = stableBuffers[k].buffer
      BY <1>1, StableEntry DEF Built, PoolInv
    <2>2. Covered(LogOf(device, stableBuffers[k].buffer), stableBuffers[k].previousStages,
                  stableBuffers[k].previousAccess)
      BY <2>1 DEF DeviceInv
    <2>. QED BY <1>1, <2>1, <2>2 DEF fetch_buffer_tracking
  <1>2. CASE ~is_stable(resources[r])
    <2>1. resources[r].buffer = <<"frame", r>>
      BY <1>2 DEF Built, PoolInv
    <2>2. resources[r].buffer[1] # "stable"
      BY <2>1
    <2>3. LogOf(device, resources[r].buffer) = {}
      BY <2>2 DEF DeviceInv, LogOf
    <2>. QED BY <1>2, <2>3 DEF Covered
  <1>. QED BY <1>1, <1>2

Flushed == Apply(flush_uploads(device), UploadBarrier)

LEMMA FlushedOK ==
  ASSUME Built, DeviceInv
  PROVE  DeviceOK(Flushed, 0)
  <1> DEFINE C(d, r) == Covered(LogOf(d, resources[r].buffer), Told(N, r).stages, Told(N, r).access)
  <1>1. DOMAIN bufferUsages = 1..N /\ ~device.raced
    BY TrackedIs DEF DeviceInv
  <1>2. CASE UploadedTo = {}
    <2>1. flush_uploads(device) = device
      BY <1>2 DEF flush_uploads
    <2>2. ASSUME NEW r \in DOMAIN resources
          PROVE  C(Flushed, r)
      <3>1. Told(N, r) = [stages |-> fetch_buffer_tracking(r).previousStages,
                          access |-> fetch_buffer_tracking(r).previousAccess]
        BY <1>1, <1>2 DEF Told, UploadedTo
      <3>2. C(device, r)
        BY <3>1, BeforeUploads
      <3>. QED BY <2>1, <3>2, CoveredStill DEF Flushed
    <2>3. ~Flushed.raced
      BY <1>1, <2>1, Applied DEF Flushed
    <2>. QED BY <2>2, <2>3, FirstBarrier DEF DeviceOK
  <1>3. CASE UploadedTo # {}
    <2> DEFINE first == Barrier(Stage, {"any_read", "any_write"}, {"transfer"}, {"any_write"})
               before == Apply(device, first)
               copied == Access(before, "transfer", Uploads)
    <2>1. flush_uploads(device) = Apply(copied, UploadBarrier)
      BY <1>3 DEF flush_uploads
    <2>2. /\ DOMAIN Uploads = {BufferOf(bufferUsages[k]) : k \in UploadedTo}
          /\ \A b \in DOMAIN Uploads : Uploads[b] = {"any_write"}
      BY DEF Uploads
    <2>3. ASSUME NEW k \in UploadedTo
          PROVE  /\ k \in 1..N /\ bufferUsages[k].uploadedTo
                 /\ ResourceOf(bufferUsages[k]) \in DOMAIN resources
                 /\ BufferOf(bufferUsages[k]) = resources[ResourceOf(bufferUsages[k])].buffer
                 /\ LogOf(before, BufferOf(bufferUsages[k])) = {}
      <3> DEFINE r == ResourceOf(bufferUsages[k])
      <3>1. k \in 1..N /\ bufferUsages[k].uploadedTo /\ r \in DOMAIN resources /\ ~is_stable(resources[r])
        BY <1>1 DEF UploadedTo, Built, BuildInv
      <3>2. LogOf(device, resources[r].buffer) = {}
        BY <3>1, BeforeUploads
      <3>3. LogOf(before, resources[r].buffer) = {}
        BY <3>2, Applied
      <3>. QED BY <3>1, <3>3 DEF BufferOf
    <2>4. \A b \in DOMAIN Uploads : Safe(LogOf(before, b), "transfer", Uploads[b])
      BY <2>2, <2>3 DEF Safe
    <2>5. ~before.raced
      BY <1>1, Applied
    <2>. HIDE DEF before
    <2>6. ~copied.raced
      BY <2>4, <2>5, AccessedLogs
    <2>7. ASSUME NEW r \in DOMAIN resources
          PROVE  C(copied, r)
      <3> DEFINE b == resources[r].buffer
      <3>1. CASE b \in DOMAIN Uploads
        <4>1. PICK k \in UploadedTo : b = BufferOf(bufferUsages[k])
          BY <2>2, <3>1
        <4>2. ResourceOf(bufferUsages[k]) = r
          BY <2>3, <4>1, BuffersApart
        <4>3. Told(N, r) = [stages |-> {"transfer"}, access |-> {"any_write"}]
          BY <2>3, <4>2 DEF Told
        <4>4. LogOf(before, b) = {}
          BY <2>3, <4>1
        <4>5. LogOf(copied, b) = Accessed({}, "transfer", {"any_write"})
          <5>1. LogOf(copied, b) = Accessed(LogOf(before, b), "transfer", Uploads[b])
            BY <3>1, AccessedLogs
          <5>2. Uploads[b] = {"any_write"}
            BY <2>2, <3>1
          <5>. HIDE DEF copied, b
          <5>. QED BY <4>4, <5>1, <5>2
        <4>6. \A x \in LogOf(copied, b) : x.stage = "transfer"
          BY <4>5 DEF Accessed
        <4>. HIDE DEF copied, b
        <4>7. Covered(LogOf(copied, b), {"transfer"}, {"any_write"})
          BY <4>6 DEF Covered
        <4>. QED BY <4>3, <4>7 DEF b
      <3>2. CASE b \notin DOMAIN Uploads
        <4>1. \A k \in 1..N :
                ~(bufferUsages[k].uploadedTo /\ ResourceOf(bufferUsages[k]) = r)
          BY <1>1, <2>2, <3>2 DEF UploadedTo, BufferOf
        <4>2. Told(N, r) = [stages |-> fetch_buffer_tracking(r).previousStages,
                            access |-> fetch_buffer_tracking(r).previousAccess]
          BY <4>1 DEF Told
        <4>3. C(device, r)
          BY <4>2, BeforeUploads
        <4>4. C(before, r)
          BY <4>3, CoveredStill DEF before
        <4>5. LogOf(copied, b) = LogOf(before, b)
          BY <3>2, AccessedLogs
        <4>. QED BY <4>4, <4>5
      <3>. QED BY <3>1, <3>2
    <2>. HIDE DEF copied
    <2>8. \A r \in DOMAIN resources : C(Flushed, r)
      BY <2>1, <2>7, CoveredStill DEF Flushed
    <2>9. ~Flushed.raced
      <3>1. Apply(copied, UploadBarrier).raced = copied.raced
        BY Applied
      <3>2. Apply(Apply(copied, UploadBarrier), UploadBarrier).raced =
              Apply(copied, UploadBarrier).raced
        BY Applied
      <3>. QED BY <2>1, <2>6, <3>1, <3>2 DEF Flushed
    <2>10. \A r \in DOMAIN resources : ResourceOK(Flushed, 0, r)
      BY <2>8, FirstBarrier
    <2>. QED BY <2>9, <2>10 DEF DeviceOK
  <1>. QED BY <1>2, <1>3

\* m is the number of usages of the first p passes.
UsagesUpTo(p, m) ==
  m \in 0..N /\ \A k \in 1..N : bufferUsages[k].pass <= p <=> k <= m

LEMMA UsagesUpToExist ==
  ASSUME Built, NEW p \in Nat
  PROVE  \E m : UsagesUpTo(p, m)
  <1> DEFINE T == {n \in Nat : n <= N =>
                     \E m \in 0..n : \A k \in 1..n : bufferUsages[k].pass <= p <=> k <= m}
  <1>1. /\ N \in Nat /\ DOMAIN bufferUsages = 1..N
        /\ \A k \in 1..N : bufferUsages[k].pass \in Nat
        /\ \A j, k \in 1..N : j < k => bufferUsages[j].pass <= bufferUsages[k].pass
    <2>1. N \in Nat /\ DOMAIN bufferUsages = 1..N
      BY TrackedIs
    <2>. QED BY <2>1, UsageFacts DEF Built, BuildInv
  <1>2. 0 \in T
    OBVIOUS
  <1>3. ASSUME NEW n \in Nat, n \in T
        PROVE  n + 1 \in T
    <2>1. CASE n + 1 <= N
      <3>1. PICK m \in 0..n : \A k \in 1..n : bufferUsages[k].pass <= p <=> k <= m
        BY <1>1, <1>3, <2>1
      <3>2. CASE bufferUsages[n + 1].pass <= p
        <4>1. ASSUME NEW k \in 1..(n + 1)
              PROVE  bufferUsages[k].pass <= p
          <5>1. CASE k = n + 1
            BY <3>2, <5>1
          <5>2. CASE k # n + 1
            <6>1. k \in 1..N /\ n + 1 \in 1..N /\ k < n + 1
              BY <1>1, <2>1, <5>2
            <6>2. bufferUsages[k].pass \in Nat /\ bufferUsages[n + 1].pass \in Nat
                  /\ bufferUsages[k].pass <= bufferUsages[n + 1].pass
              BY <1>1, <6>1
            <6>. QED BY <3>2, <6>2
          <5>. QED BY <5>1, <5>2
        <4>2. n + 1 \in 0..(n + 1) /\ \A k \in 1..(n + 1) : k <= n + 1
          OBVIOUS
        <4>. QED BY <4>1, <4>2
      <3>3. CASE ~(bufferUsages[n + 1].pass <= p)
        <4>1. m \in 0..(n + 1) /\ ~(n + 1 <= m)
          OBVIOUS
        <4>2. ASSUME NEW k \in 1..(n + 1)
              PROVE  bufferUsages[k].pass <= p <=> k <= m
          <5>1. CASE k = n + 1
            BY <3>3, <4>1, <5>1
          <5>2. CASE k # n + 1
            <6>1. k \in 1..n
              BY <5>2
            <6>. QED BY <3>1, <6>1
          <5>. QED BY <5>1, <5>2
        <4>. QED BY <4>1, <4>2
      <3>. QED BY <3>2, <3>3
    <2>. QED BY <2>1
  <1>. HIDE DEF T
  <1>4. N \in T
    BY <1>1, <1>2, <1>3, Induction
  <1>5. N <= N
    BY <1>1
  <1>. QED BY <1>4, <1>5 DEF T, UsagesUpTo

\* The barrier of a pass has all barriers that are of it.
LEMMA PassBarrierHas ==
  ASSUME NEW st, NEW p, NEW j \in DOMAIN st.pass, st.pass[j] = p
  PROVE  LET b == PassBarrier(p, st)
         IN  /\ st.barriers[j].previousPipelines \subseteq b.previousPipelines
             /\ st.barriers[j].previousAccesses \subseteq b.previousAccesses
             /\ st.barriers[j].nextPipelines \subseteq b.nextPipelines
             /\ st.barriers[j].nextAccesses \subseteq b.nextAccesses
  <1> DEFINE own == {k \in DOMAIN st.pass : st.pass[k] = p}
             b == PassBarrier(p, st)
  <1>1. /\ b.previousPipelines = UNION {st.barriers[k].previousPipelines : k \in own}
        /\ b.previousAccesses = UNION {st.barriers[k].previousAccesses : k \in own}
        /\ b.nextPipelines = UNION {st.barriers[k].nextPipelines : k \in own}
        /\ b.nextAccesses = UNION {st.barriers[k].nextAccesses : k \in own}
    BY DEF PassBarrier, Barrier
  <1>2. j \in own
    OBVIOUS
  <1>. HIDE DEF b, own
  <1>3. st.barriers[j].previousPipelines \subseteq b.previousPipelines
    BY <1>1, <1>2
  <1>4. st.barriers[j].previousAccesses \subseteq b.previousAccesses
    BY <1>1, <1>2
  <1>5. st.barriers[j].nextPipelines \subseteq b.nextPipelines
    BY <1>1, <1>2
  <1>6. st.barriers[j].nextAccesses \subseteq b.nextAccesses
    BY <1>1, <1>2
  <1>. QED BY <1>3, <1>4, <1>5, <1>6 DEF b

\* What a pass does with the buffers that it names, each of them once.
LEMMA UsesOf ==
  ASSUME Built, NEW p \in DOMAIN passes
  PROVE  /\ \A b \in DOMAIN Uses(p) : \E k \in UsagesOf(p) : b = BufferOf(bufferUsages[k])
         /\ \A k \in UsagesOf(p) :
              /\ k \in 1..N /\ bufferUsages[k].pass = p /\ passes[p] # "none"
              /\ BufferOf(bufferUsages[k]) \in DOMAIN Uses(p)
              /\ Uses(p)[BufferOf(bufferUsages[k])] = AccessesOf(bufferUsages[k].access)
  <1>1. DOMAIN Uses(p) = {BufferOf(bufferUsages[k]) : k \in UsagesOf(p)}
    BY DEF Uses
  <1>2. ASSUME NEW k \in UsagesOf(p)
        PROVE  /\ k \in 1..N /\ bufferUsages[k].pass = p /\ passes[p] # "none"
               /\ BufferOf(bufferUsages[k]) \in DOMAIN Uses(p)
               /\ Uses(p)[BufferOf(bufferUsages[k])] = AccessesOf(bufferUsages[k].access)
    <2> DEFINE b == BufferOf(bufferUsages[k])
               same == {l \in UsagesOf(p) : BufferOf(bufferUsages[l]) = b}
    <2>1. k \in 1..N /\ bufferUsages[k].pass = p /\ passes[p] # "none" /\ b \in DOMAIN Uses(p)
      BY <1>1, TrackedIs DEF UsagesOf
    <2>2. ASSUME NEW l \in same
          PROVE  l = k
      <3>1. l \in DOMAIN bufferUsages /\ k \in DOMAIN bufferUsages
            /\ bufferUsages[l].pass = p /\ bufferUsages[k].pass = p
            /\ BufferOf(bufferUsages[l]) = BufferOf(bufferUsages[k])
        BY DEF UsagesOf
      <3>2. ResourceOf(bufferUsages[l]) = ResourceOf(bufferUsages[k])
        BY <3>1, UsageFacts, BuffersApart DEF BufferOf
      <3>3. l \in Nat /\ k \in Nat /\ (l < k \/ k < l \/ l = k)
        BY <3>1, TrackedIs
      <3>. QED BY <3>1, <3>2, <3>3 DEF Built, BuildInv
    <2>3. same = {k}
      BY <2>2
    <2>4. Uses(p)[b] = UNION {AccessesOf(bufferUsages[l].access) : l \in same}
      BY <1>1, <2>1 DEF Uses
    <2>. HIDE DEF same, b
    <2>5. Uses(p)[b] = AccessesOf(bufferUsages[k].access)
      BY <2>3, <2>4
    <2>. QED BY <2>1, <2>5 DEF b
  <1>. QED BY <1>1, <1>2

LEMMA UsagesOfPass ==
  ASSUME Built, NEW p \in DOMAIN passes, NEW m, NEW n, UsagesUpTo(p - 1, m), UsagesUpTo(p, n)
  PROVE  /\ m \in 0..N /\ n \in 0..N /\ m <= n
         /\ \A k \in 1..N : bufferUsages[k].pass = p <=> k \in (m + 1)..n
         /\ \A j, k \in (m + 1)..n :
              ResourceOf(bufferUsages[j]) = ResourceOf(bufferUsages[k]) => j = k
  <1>1. /\ N \in Nat /\ DOMAIN bufferUsages = 1..N /\ p \in Nat
        /\ \A k \in 1..N : bufferUsages[k].pass \in Nat
    <2>1. N \in Nat /\ DOMAIN bufferUsages = 1..N
      BY TrackedIs
    <2>2. p \in Nat
      BY Elements DEF Built, TypeInv
    <2>. QED BY <2>1, <2>2, UsageFacts
  <1>2. /\ m \in 0..N /\ n \in 0..N
        /\ \A k \in 1..N : bufferUsages[k].pass <= p - 1 <=> k <= m
        /\ \A k \in 1..N : bufferUsages[k].pass <= p <=> k <= n
    BY DEF UsagesUpTo
  <1>3. m <= n
    <2>1. CASE m = 0
      BY <1>2, <2>1
    <2>2. CASE m # 0
      <3>1. m \in 1..N /\ bufferUsages[m].pass <= p - 1 /\ bufferUsages[m].pass \in Nat
        BY <1>1, <1>2, <2>2
      <3>2. bufferUsages[m].pass <= p
        BY <1>1, <3>1
      <3>. QED BY <1>2, <3>1, <3>2
    <2>. QED BY <2>1, <2>2
  <1>4. ASSUME NEW k \in 1..N
        PROVE  bufferUsages[k].pass = p <=> k \in (m + 1)..n
    <2>1. \A q \in Nat : q = p <=> q <= p /\ ~(q <= p - 1)
      BY <1>1
    <2>2. bufferUsages[k].pass = p <=> k <= n /\ ~(k <= m)
      BY <1>1, <1>2, <2>1
    <2>3. k \in (m + 1)..n <=> k <= n /\ ~(k <= m)
      BY <1>2
    <2>. QED BY <2>2, <2>3
  <1>5. ASSUME NEW j \in (m + 1)..n, NEW k \in (m + 1)..n,
               ResourceOf(bufferUsages[j]) = ResourceOf(bufferUsages[k])
        PROVE  j = k
    <2>1. j \in 1..N /\ k \in 1..N
      BY <1>1, <1>2
    <2>2. bufferUsages[j].pass = p /\ bufferUsages[k].pass = p
      BY <1>4, <2>1
    <2>3. j < k \/ k < j \/ j = k
      BY <2>1
    <2>. QED BY <1>1, <1>5, <2>1, <2>2, <2>3 DEF Built, BuildInv
  <1>. QED BY <1>2, <1>3, <1>4, <1>5

\* What the barrier of usage k, of resource r, leaves: an access that is safe, and a
\* log that the barrier is for.
LEMMA UsageSafe ==
  ASSUME Built, NEW k \in 1..N, StagesOf(passes[bufferUsages[k].pass]) # {}, NEW d,
         ResourceOK(d, k - 1, ResourceOf(bufferUsages[k]))
  PROVE  LET u == bufferUsages[k]
             r == ResourceOf(u)
             e == Apply(d, PassBarrier(u.pass, Tracked[N]))
             log == LogOf(e, resources[r].buffer)
             t == Tracked[k].tracking[r]
             b == Tracked[N].barriers[t.barrier]
         IN  /\ Safe(log, passes[u.pass], AccessesOf(u.access))
             /\ t.barrier # 0 /\ b.nextPipelines # {}
             /\ Joined(Accessed(log, passes[u.pass], AccessesOf(u.access)), b.nextPipelines,
                       b.nextAccesses, t.isRead)
  <1> DEFINE u == bufferUsages[k]
             r == ResourceOf(u)
             f == Tracked[N]
             e == Apply(d, PassBarrier(u.pass, f))
             log == LogOf(e, resources[r].buffer)
             old == LogOf(d, resources[r].buffer)
             s == Tracked[k - 1].tracking[r]
             t == Tracked[k].tracking[r]
             b == f.barriers[t.barrier]
             P == f.barriers[s.barrier]
             stage == passes[u.pass]
             A == AccessesOf(u.access)
  <1>1. /\ t.barrier \in 1..Len(f.barriers) /\ t.isRead = IsRead(u.access)
        /\ StagesOf(stage) \subseteq b.nextPipelines /\ A \subseteq b.nextAccesses
        /\ \/ t.barrier = s.barrier /\ s.isRead /\ IsRead(u.access)
           \/ /\ f.pass[t.barrier] = u.pass
              /\ b.previousPipelines = IF s.barrier = 0 THEN Told(N, r).stages ELSE P.nextPipelines
              /\ b.previousAccesses = IF s.barrier = 0 THEN Told(N, r).access ELSE P.nextAccesses
    BY UsageWaits
  <1>2. IF s.barrier = 0 THEN Covered(old, Told(N, r).stages, Told(N, r).access)
        ELSE P.nextPipelines # {} /\ Joined(old, P.nextPipelines, P.nextAccesses, s.isRead)
    BY DEF ResourceOK
  <1>3. stage \in b.nextPipelines
    BY <1>1 DEF StagesOf
  <1>4. t.barrier # 0 /\ t.barrier \in DOMAIN f.pass
    <2>1. N \in 0..N
      BY TrackedIs
    <2>2. TrackOK(f)
      BY <2>1, TrackedIs
    <2> DEFINE j == t.barrier
    <2>3. j \in 1..Len(f.barriers)
      BY <1>1
    <2>. HIDE DEF f, j
    <2>4. f.pass \in Seq(Nat) /\ f.barriers \in Seq(BarrierType) /\ Len(f.pass) = Len(f.barriers)
      BY <2>2 DEF TrackOK, TrackState
    <2>5. DOMAIN f.pass = 1..Len(f.barriers) /\ Len(f.barriers) \in Nat
      BY <2>4, Elements
    <2>6. j # 0 /\ j \in DOMAIN f.pass
      BY <2>3, <2>5
    <2>. QED BY <2>6 DEF f, j
  <1>5. t.isRead = ("any_write" \notin A)
    BY <1>1 DEF IsRead
  <1>6. \/ \A x \in log : Waited(x, b.nextPipelines, b.nextAccesses)
        \/ Joined(log, b.nextPipelines, b.nextAccesses, TRUE) /\ "any_write" \notin A
    <2>1. CASE t.barrier = s.barrier /\ s.isRead /\ IsRead(u.access)
      <3>1. s.isRead = TRUE
        <4>1. t.isRead \in BOOLEAN /\ s.isRead \in BOOLEAN
          <5>1. k \in 0..N /\ k - 1 \in 0..N /\ r \in DOMAIN resources
            BY TrackedStep, TrackedIs, UsageFacts
          <5>. QED BY <5>1, TrackedIs DEF TrackOK, TrackState, Tracking
        <4>. QED BY <2>1, <4>1
      <3>2. Joined(old, b.nextPipelines, b.nextAccesses, TRUE)
        BY <1>2, <1>4, <2>1, <3>1
      <3>3. Joined(log, b.nextPipelines, b.nextAccesses, TRUE)
        BY <3>2, JoinedStill
      <3>. QED BY <2>1, <3>3 DEF IsRead
    <2>2. CASE /\ f.pass[t.barrier] = u.pass
               /\ b.previousPipelines = IF s.barrier = 0 THEN Told(N, r).stages ELSE P.nextPipelines
               /\ b.previousAccesses = IF s.barrier = 0 THEN Told(N, r).access ELSE P.nextAccesses
      <3>1. Covered(old, b.previousPipelines, b.previousAccesses)
        <4>1. CASE s.barrier = 0
          BY <1>2, <2>2, <4>1
        <4>2. CASE s.barrier # 0
          <5>1. Covered(old, P.nextPipelines, P.nextAccesses)
            BY <1>2, <4>2, JoinedCovers
          <5>. QED BY <2>2, <4>2, <5>1
        <4>. QED BY <4>1, <4>2
      <3>2. LET c == PassBarrier(u.pass, f)
            IN  /\ b.previousPipelines \subseteq c.previousPipelines
                /\ b.previousAccesses \subseteq c.previousAccesses
                /\ b.nextPipelines \subseteq c.nextPipelines
                /\ b.nextAccesses \subseteq c.nextAccesses
        BY <1>4, <2>2, PassBarrierHas
      <3>. QED BY <3>1, <3>2, AllWaited
    <2>. QED BY <1>1, <2>1, <2>2
  <1>. HIDE DEF stage, A, b, log, t
  <1>7. /\ Safe(log, stage, A)
        /\ Joined(Accessed(log, stage, A), b.nextPipelines, b.nextAccesses, "any_write" \notin A)
    BY <1>1, <1>3, <1>6, SafeAccess
  <1>8. Joined(Accessed(log, stage, A), b.nextPipelines, b.nextAccesses, t.isRead)
    BY <1>5, <1>7
  <1>. QED BY <1>3, <1>4, <1>7, <1>8 DEF stage, A, b, log, t

LEMMA SameTracking ==
  ASSUME NEW d, NEW e, NEW m, NEW n, NEW r, ResourceOK(d, m, r), NEW b,
         LogOf(e, resources[r].buffer) = LogOf(Apply(d, b), resources[r].buffer),
         Tracked[n].tracking[r].barrier = Tracked[m].tracking[r].barrier,
         Tracked[n].tracking[r].isRead = Tracked[m].tracking[r].isRead
  PROVE  ResourceOK(e, n, r)
  <1>1. CASE Tracked[m].tracking[r].barrier = 0
    BY <1>1, CoveredStill DEF ResourceOK
  <1>2. CASE Tracked[m].tracking[r].barrier # 0
    BY <1>2, JoinedStill DEF ResourceOK
  <1>. QED BY <1>1, <1>2

LEMMA PassStep ==
  ASSUME Built, NEW p \in DOMAIN passes, NEW m, NEW n, UsagesUpTo(p - 1, m), UsagesUpTo(p, n),
         NEW d, DeviceOK(d, m)
  PROVE  DeviceOK(RunPass(d, p, Tracked[N]), n)
  <1> DEFINE e == Apply(d, PassBarrier(p, Tracked[N]))
             next == RunPass(d, p, Tracked[N])
             used(k) == bufferUsages[k]
  <1>1. next = Access(e, passes[p], Uses(p))
    BY DEF RunPass
  <1>2. /\ m \in 0..N /\ n \in 0..N /\ m <= n /\ N \in Nat
        /\ \A k \in 1..N : used(k).pass = p <=> k \in (m + 1)..n
        /\ \A j, k \in (m + 1)..n : ResourceOf(used(j)) = ResourceOf(used(k)) => j = k
        /\ (m + 1)..n \subseteq 1..N /\ DOMAIN bufferUsages = 1..N
    <2>1. N \in Nat /\ DOMAIN bufferUsages = 1..N
      BY TrackedIs
    <2>2. /\ m \in 0..N /\ n \in 0..N /\ m <= n
          /\ \A k \in 1..N : used(k).pass = p <=> k \in (m + 1)..n
          /\ \A j, k \in (m + 1)..n : ResourceOf(used(j)) = ResourceOf(used(k)) => j = k
      BY UsagesOfPass
    <2>3. (m + 1)..n \subseteq 1..N
      BY <2>1, <2>2
    <2>. QED BY <2>1, <2>2, <2>3
  <1>3. ASSUME NEW k \in (m + 1)..n
        PROVE  LET r == ResourceOf(used(k))
               IN  /\ k \in 1..N /\ used(k).pass = p /\ r \in DOMAIN resources
                   /\ k - 1 \in 0..N /\ k \in 0..N
                   /\ Tracked[k - 1].tracking[r] = Tracked[m].tracking[r]
                   /\ Tracked[n].tracking[r] = Tracked[k].tracking[r]
                   /\ ResourceOK(d, k - 1, r)
    <2> DEFINE r == ResourceOf(used(k))
    <2>1. k \in 1..N /\ used(k).pass = p /\ r \in DOMAIN resources /\ k - 1 \in 0..N /\ k \in 0..N
      BY <1>2, UsageFacts
    <2>2. \A i \in (m + 1)..(k - 1) : i \in (m + 1)..n /\ i # k
      BY <1>2
    <2>3. \A i \in (k + 1)..n : i \in (m + 1)..n /\ i # k
      BY <1>2
    <2>4. \A i \in (m + 1)..(k - 1) : ResourceOf(used(i)) # r
      BY <1>2, <2>2
    <2>5. \A i \in (k + 1)..n : ResourceOf(used(i)) # r
      BY <1>2, <2>3
    <2>6. m <= k - 1 /\ k <= n
      BY <1>2
    <2>7. Tracked[k - 1].tracking[r] = Tracked[m].tracking[r]
      BY <1>2, <2>1, <2>4, <2>6, TrackedGrows
    <2>8. Tracked[n].tracking[r] = Tracked[k].tracking[r]
      BY <1>2, <2>1, <2>5, <2>6, TrackedGrows
    <2>9. ResourceOK(d, k - 1, r)
      BY <2>1, <2>7 DEF DeviceOK, ResourceOK
    <2>. QED BY <2>1, <2>7, <2>8, <2>9
  <1>4. ASSUME NEW k \in UsagesOf(p)
        PROVE  LET r == ResourceOf(used(k))
                   b == resources[r].buffer
               IN  /\ Safe(LogOf(e, b), passes[p], Uses(p)[b])
                   /\ ResourceOK(next, n, r)
    <2> DEFINE r == ResourceOf(used(k))
               b == resources[r].buffer
               t == Tracked[k].tracking[r]
               g == Tracked[N].barriers[t.barrier]
    <2>1. /\ k \in (m + 1)..n /\ used(k).pass = p /\ passes[p] # "none" /\ BufferOf(used(k)) = b
          /\ b \in DOMAIN Uses(p) /\ Uses(p)[b] = AccessesOf(used(k).access)
      BY <1>2, UsesOf DEF BufferOf
    <2>2. StagesOf(passes[p]) # {}
      BY <2>1 DEF StagesOf
    <2>3. k \in 1..N /\ ResourceOK(d, k - 1, r) /\ Tracked[n].tracking[r] = t
      BY <1>3, <2>1
    <2>4. /\ Safe(LogOf(e, b), passes[p], AccessesOf(used(k).access))
          /\ t.barrier # 0 /\ g.nextPipelines # {}
          /\ Joined(Accessed(LogOf(e, b), passes[p], AccessesOf(used(k).access)), g.nextPipelines,
                    g.nextAccesses, t.isRead)
      BY <2>1, <2>2, <2>3, UsageSafe
    <2>5. LogOf(next, b) = Accessed(LogOf(e, b), passes[p], AccessesOf(used(k).access))
      <3>. HIDE DEF e, b
      <3>1. LogOf(next, b) = Accessed(LogOf(e, b), passes[p], Uses(p)[b])
        BY <1>1, <2>1, AccessedLogs
      <3>. QED BY <2>1, <3>1
    <2>6. ResourceOK(next, n, r)
      <3>. HIDE DEF next, r
      <3>. QED BY <2>3, <2>4, <2>5 DEF ResourceOK
    <2>. QED BY <2>1, <2>4, <2>6
  <1>5. ASSUME NEW r \in DOMAIN resources, \A k \in UsagesOf(p) : ResourceOf(used(k)) # r
        PROVE  ResourceOK(next, n, r)
    <2> DEFINE b == resources[r].buffer
    <2>1. ResourceOK(d, m, r)
      BY DEF DeviceOK
    <2>2. b \notin DOMAIN Uses(p)
      <3>1. SUFFICES ASSUME b \in DOMAIN Uses(p)
                     PROVE  FALSE
        OBVIOUS
      <3>2. PICK k \in UsagesOf(p) : b = BufferOf(used(k))
        BY <3>1, UsesOf
      <3>3. k \in DOMAIN bufferUsages /\ ResourceOf(used(k)) \in DOMAIN resources
        BY UsageFacts DEF UsagesOf
      <3>. QED BY <1>5, <3>2, <3>3, BuffersApart DEF BufferOf
    <2>3. LogOf(next, b) = LogOf(e, b)
      BY <1>1, <2>2, AccessedLogs
    <2>4. CASE \E k \in (m + 1)..n : ResourceOf(used(k)) = r
      <3>1. PICK k \in (m + 1)..n : ResourceOf(used(k)) = r
        BY <2>4
      <3>2. /\ k \in 1..N /\ used(k).pass = p /\ Tracked[k - 1].tracking[r] = Tracked[m].tracking[r]
            /\ Tracked[n].tracking[r] = Tracked[k].tracking[r] /\ k - 1 \in 0..N
        BY <1>3, <3>1
      <3>3. passes[p] = "none"
        BY <1>2, <1>5, <3>1, <3>2 DEF UsagesOf
      <3>4. StagesOf(passes[used(k).pass]) = {}
        BY <3>2, <3>3 DEF StagesOf
      <3>5. Tracked[k].tracking[r] = TrackingOf(Tracked[k - 1], used(k))
        BY <3>1, <3>2, <3>4, TrackedStep
      <3>6. /\ Tracked[k].tracking[r].barrier = Tracked[k - 1].tracking[r].barrier
            /\ Tracked[k].tracking[r].isRead = Tracked[k - 1].tracking[r].isRead
        <4>1. k \in DOMAIN bufferUsages /\ TrackOK(Tracked[k - 1])
          BY <1>2, <3>2, TrackedIs
        <4>. QED BY <3>1, <3>5, <4>1, TrackingOfIs
      <3>. HIDE DEF next
      <3>. QED BY <2>1, <2>3, <3>2, <3>6, SameTracking
    <2>5. CASE \A k \in (m + 1)..n : ResourceOf(used(k)) # r
      <3>1. Tracked[n].tracking[r] = Tracked[m].tracking[r]
        BY <1>2, <2>5, TrackedGrows
      <3>. HIDE DEF next
      <3>. QED BY <2>1, <2>3, <3>1, SameTracking
    <2>. QED BY <2>4, <2>5
  <1>6. ~next.raced
    <2>1. ASSUME NEW b \in DOMAIN Uses(p)
          PROVE  Safe(LogOf(e, b), passes[p], Uses(p)[b])
      <3>1. PICK k \in UsagesOf(p) : b = BufferOf(used(k))
        BY UsesOf
      <3>. QED BY <1>4, <3>1 DEF BufferOf
    <2>2. ~e.raced
      BY Applied DEF DeviceOK
    <2>. HIDE DEF e
    <2>. QED BY <1>1, <2>1, <2>2, AccessedLogs
  <1>7. \A r \in DOMAIN resources : ResourceOK(next, n, r)
    BY <1>4, <1>5
  <1>. QED BY <1>6, <1>7 DEF DeviceOK

RunsTo(n, g) ==
  g = [p \in 0..n |-> IF p = 0 THEN Flushed ELSE RunPass(g[p - 1], p, Tracked[N])]

LEMMA RunsExist ==
  ASSUME NEW n \in Nat
  PROVE  \E g : RunsTo(n, g)
  <1> DEFINE T == {k \in Nat : \E g : RunsTo(k, g)}
  <1>1. 0 \in T
    <2> DEFINE g == [k \in 0..0 |-> Flushed]
    <2>1. 0..0 = {0}
      OBVIOUS
    <2>2. RunsTo(0, g)
      BY <2>1 DEF RunsTo
    <2>. QED BY <2>2
  <1>2. ASSUME NEW m \in Nat, m \in T
        PROVE  m + 1 \in T
    <2>1. PICK g : RunsTo(m, g)
      BY <1>2
    <2>2. \A k \in 0..m : g[k] = IF k = 0 THEN Flushed ELSE RunPass(g[k - 1], k, Tracked[N])
      BY <2>1 DEF RunsTo
    <2> DEFINE h == [k \in 0..(m + 1) |-> IF k = m + 1 THEN RunPass(g[m], k, Tracked[N]) ELSE g[k]]
    <2>3. ASSUME NEW k \in 0..(m + 1)
          PROVE  h[k] = IF k = 0 THEN Flushed ELSE RunPass(h[k - 1], k, Tracked[N])
      <3>1. CASE k = m + 1
        <4>1. k # 0 /\ k - 1 = m /\ m \in 0..(m + 1) /\ m # m + 1
          BY <3>1
        <4>2. h[m] = g[m] /\ h[k] = RunPass(g[m], k, Tracked[N])
          BY <3>1, <4>1
        <4>. HIDE DEF h
        <4>. QED BY <4>1, <4>2
      <3>2. CASE k # m + 1
        <4>1. k \in 0..m /\ h[k] = g[k]
          BY <3>2
        <4>2. CASE k = 0
          BY <2>2, <4>1, <4>2
        <4>3. CASE k # 0
          <5>1. k - 1 \in 0..(m + 1) /\ k - 1 # m + 1
            BY <4>1, <4>3
          <5>2. h[k - 1] = g[k - 1]
            BY <5>1
          <5>. HIDE DEF h
          <5>. QED BY <2>2, <4>1, <4>3, <5>2
        <4>. QED BY <4>2, <4>3
      <3>. QED BY <3>1, <3>2
    <2>4. h = [k \in 0..(m + 1) |-> h[k]]
      OBVIOUS
    <2>. HIDE DEF h
    <2>5. RunsTo(m + 1, h)
      BY <2>3, <2>4 DEF RunsTo
    <2>. QED BY <2>5
  <1>. HIDE DEF T
  <1>3. n \in T
    BY <1>1, <1>2, Induction
  <1>. QED BY <1>3 DEF T

\* The device after all passes, with all usages known.
LEMMA FrameOK ==
  ASSUME Built, DeviceInv
  PROVE  DeviceOK(Ran[Len(passes)], N)
  <1>1. /\ Len(passes) \in Nat /\ DOMAIN passes = 1..Len(passes)
        /\ N \in Nat /\ DOMAIN bufferUsages = 1..N
    BY TrackedIs, Elements DEF Built, TypeInv
  <1>2. \E g : RunsTo(Len(passes), g)
    BY <1>1, RunsExist
  <1>3. Ran = CHOOSE g : RunsTo(Len(passes), g)
    BY DEF Ran, RunsTo, Flushed, build_pass_barriers, N
  <1>4. RunsTo(Len(passes), Ran)
    BY <1>2, <1>3
  <1>5. \A p \in 0..Len(passes) :
          Ran[p] = IF p = 0 THEN Flushed ELSE RunPass(Ran[p - 1], p, Tracked[N])
    BY <1>4 DEF RunsTo
  <1> DEFINE T == {p \in Nat : p <= Len(passes) => \E m : UsagesUpTo(p, m) /\ DeviceOK(Ran[p], m)}
  <1>6. 0 \in T
    <2>1. Ran[0] = Flushed
      BY <1>1, <1>5
    <2>2. \A k \in 1..N : bufferUsages[k].pass \in 1..Len(passes)
      BY <1>1 DEF Built, BuildInv
    <2>3. \A k \in 1..N : ~(bufferUsages[k].pass <= 0) /\ ~(k <= 0)
      BY <1>1, <2>2
    <2>4. UsagesUpTo(0, 0)
      BY <1>1, <2>3 DEF UsagesUpTo
    <2>. QED BY <2>1, <2>4, FlushedOK
  <1>7. ASSUME NEW p \in Nat, p \in T
        PROVE  p + 1 \in T
    <2>1. CASE p + 1 <= Len(passes)
      <3>1. p <= Len(passes) /\ p + 1 \in 1..Len(passes) /\ (p + 1) - 1 = p /\ p + 1 # 0
            /\ p + 1 \in 0..Len(passes) /\ p + 1 \in Nat
        BY <1>1, <2>1
      <3>2. PICK m : UsagesUpTo(p, m) /\ DeviceOK(Ran[p], m)
        BY <1>7, <3>1
      <3>3. PICK n : UsagesUpTo(p + 1, n)
        BY <3>1, UsagesUpToExist
      <3>4. Ran[p + 1] = RunPass(Ran[p], p + 1, Tracked[N])
        BY <1>5, <3>1
      <3>5. DeviceOK(Ran[p + 1], n)
        BY <1>1, <3>1, <3>2, <3>3, <3>4, PassStep
      <3>. QED BY <3>3, <3>5
    <2>. QED BY <2>1
  <1>. HIDE DEF T
  <1>8. Len(passes) \in T /\ Len(passes) <= Len(passes)
    BY <1>1, <1>6, <1>7, Induction
  <1>9. PICK m : UsagesUpTo(Len(passes), m) /\ DeviceOK(Ran[Len(passes)], m)
    BY <1>8 DEF T
  <1>10. m = N
    <2>1. m \in 0..N /\ \A k \in 1..N : bufferUsages[k].pass <= Len(passes) <=> k <= m
      BY <1>9 DEF UsagesUpTo
    <2>2. N # 0 => bufferUsages[N].pass \in 1..Len(passes) /\ N \in 1..N
      BY <1>1 DEF Built, BuildInv
    <2>3. N # 0 => N <= m
      BY <1>1, <2>1, <2>2
    <2>. QED BY <1>1, <2>1, <2>3
  <1>. QED BY <1>9, <1>10

-----------------------------------------------------------------------------
(* The steps of a build *)

LEMMA PoolKept ==
  ASSUME PoolInv, DeviceInv, phase # "built", history'.last = history.last,
         UNCHANGED <<stableBuffers, m_frame, phase, device>>
  PROVE  PoolInv' /\ DeviceInv'
  BY DEF PoolInv, DeviceInv, LogOf

LEMMA BeginBuild ==
  ASSUME BarriersInv, begin_build
  PROVE  BarriersInv'
  <1>1. /\ phase = "idle" /\ phase' = "build" /\ m_frame' = m_frame + 1 /\ m_frame \in Nat
        /\ UNCHANGED <<passes, bufferUsages, resources, transientBuffer, stableBuffers, device, history>>
    BY DEF begin_build, BarriersInv, TypeInv
  <1>2. TypeInv'
    BY <1>1 DEF BarriersInv, TypeInv
  <1>3. BuildInv'
    BY <1>1 DEF BarriersInv, BuildInv, ResourceOf
  <1>4. PoolInv'
    <2>1. m_frame' - 1 = m_frame
      BY <1>1
    <2>. QED BY <1>1, <2>1 DEF BarriersInv, PoolInv
  <1>5. DeviceInv'
    <2>1. \A n \in Nat : n <= m_frame => n <= m_frame' /\ n # m_frame'
      BY <1>1
    <2>2. \A b \in DOMAIN device.log :
            b[1] = "stable" /\ b[3] \in Nat /\ b[3] <= m_frame' /\ b[3] # m_frame'
      BY <2>1 DEF BarriersInv, DeviceInv
    <2>. QED BY <1>1, <2>2 DEF BarriersInv, DeviceInv, LogOf
  <1>. QED BY <1>2, <1>3, <1>4, <1>5 DEF BarriersInv

LEMMA BeginPass ==
  ASSUME BarriersInv, NEW kind \in PassKind, begin_pass(kind)
  PROVE  BarriersInv'
  <1>1. /\ phase = "build" /\ passes' = Append(passes, kind)
        /\ UNCHANGED <<bufferUsages, resources, transientBuffer, stableBuffers, m_frame, phase, device,
                       history>>
    BY DEF begin_pass
  <1>2. passes' \in Seq(PassKind) /\ Len(passes) \in Nat /\ Len(passes') = Len(passes) + 1
    BY <1>1, Appended DEF BarriersInv, TypeInv
  <1>3. TypeInv'
    BY <1>1, <1>2 DEF BarriersInv, TypeInv
  <1>4. BuildInv'
    <2>1. \A n : n \in 1..Len(passes) => n \in 1..Len(passes')
      BY <1>2
    <2>2. phase' # "idle"
      BY <1>1
    <2>. QED BY <1>1, <2>1, <2>2 DEF BarriersInv, BuildInv, ResourceOf
  <1>5. PoolInv' /\ DeviceInv'
    BY <1>1, PoolKept DEF BarriersInv
  <1>. QED BY <1>3, <1>4, <1>5 DEF BarriersInv

\* A usage of a resource that no other of its pass has, and that is new if data is
\* uploaded to it; pins keep their resources.
LEMMA UsageAdded ==
  ASSUME TypeInv, BuildInv, NEW u \in Usage, bufferUsages' = Append(bufferUsages, u),
         phase' # "idle", passes' = passes, u.pass = Len(passes), passes # << >>,
         Len(resources') \in Nat, Len(resources) <= Len(resources'),
         DOMAIN resources' = 1..Len(resources'),
         \A p \in Pin : /\ transientBuffer'[p] \in 0..Len(resources')
                        /\ transientBuffer[p] # 0 => transientBuffer'[p] = transientBuffer[p],
         \A r \in DOMAIN resources : resources'[r].stableId = resources[r].stableId,
         \A r \in DOMAIN resources' :
           r \notin DOMAIN resources /\ resources'[r].stableId # NoId =>
             transientBuffer'[resources'[r].stableId] = r,
         transientBuffer'[u.pin] \in DOMAIN resources',
         u.uploadedTo => /\ resources'[transientBuffer'[u.pin]].stableId = NoId
                         /\ transientBuffer'[u.pin] \notin DOMAIN resources,
         \A k \in DOMAIN bufferUsages :
           bufferUsages[k].pass = Len(passes) => ResourceOf(bufferUsages[k]) # transientBuffer'[u.pin]
  PROVE  BuildInv'
  <1> DEFINE n == Len(bufferUsages)
             L == Len(passes)
             Res(v) == transientBuffer'[v.pin]
  <1>1. /\ n \in Nat /\ DOMAIN bufferUsages = 1..n /\ DOMAIN bufferUsages' = 1..(n + 1)
        /\ bufferUsages'[n + 1] = u /\ \A k \in 1..n : bufferUsages'[k] = bufferUsages[k]
    <2>1. bufferUsages \in Seq(Usage)
      BY DEF TypeInv
    <2>2. bufferUsages' \in Seq(Usage) /\ Len(bufferUsages') = n + 1
      BY <2>1, Appended
    <2>. QED BY <2>1, <2>2, Appended, Elements
  <1>2. L \in Nat /\ L \in 1..L /\ Len(resources) \in Nat /\ DOMAIN resources = 1..Len(resources)
    <2>1. passes \in Seq(PassKind) /\ resources \in Seq(Resource)
      BY DEF TypeInv
    <2>2. L \in Nat /\ L # 0
      BY <2>1
    <2>. QED BY <2>1, <2>2, Elements
  <1>3. ASSUME NEW k \in 1..n
        PROVE  /\ bufferUsages[k].pass \in 1..L /\ bufferUsages[k].pin \in Pin
               /\ Res(bufferUsages[k]) = ResourceOf(bufferUsages[k])
               /\ ResourceOf(bufferUsages[k]) \in 1..Len(resources)
               /\ bufferUsages[k].uploadedTo => resources[ResourceOf(bufferUsages[k])].stableId = NoId
    <2>1. bufferUsages[k] \in Usage
      BY <1>1, Elements DEF TypeInv
    <2>2. /\ bufferUsages[k].pass \in 1..L /\ ResourceOf(bufferUsages[k]) \in DOMAIN resources
          /\ bufferUsages[k].uploadedTo => ~is_stable(resources[ResourceOf(bufferUsages[k])])
      BY <1>1 DEF BuildInv
    <2>3. bufferUsages[k].pin \in Pin
      BY <2>1 DEF Usage
    <2>4. ResourceOf(bufferUsages[k]) \in 1..Len(resources) /\ ResourceOf(bufferUsages[k]) # 0
      BY <1>2, <2>2
    <2>. QED BY <2>2, <2>3, <2>4 DEF ResourceOf, is_stable
  <1>4. \A k \in 1..(n + 1) : k \in 1..n \/ k = n + 1
    BY <1>1
  <1>5. ASSUME NEW k \in 1..(n + 1)
        PROVE  /\ bufferUsages'[k].pass \in 1..L
               /\ Res(bufferUsages'[k]) \in DOMAIN resources'
               /\ bufferUsages'[k].uploadedTo => resources'[Res(bufferUsages'[k])].stableId = NoId
    <2>1. CASE k \in 1..n
      <3>1. bufferUsages'[k] = bufferUsages[k]
        BY <1>1, <2>1
      <3>2. Res(bufferUsages[k]) \in DOMAIN resources /\ Res(bufferUsages[k]) \in DOMAIN resources'
        BY <1>2, <1>3, <2>1
      <3>. QED BY <1>3, <2>1, <3>1, <3>2
    <2>2. CASE k = n + 1
      BY <1>1, <1>2, <2>2
    <2>. QED BY <1>4, <2>1, <2>2
  <1>6. ASSUME NEW j \in 1..(n + 1), NEW k \in 1..(n + 1), j < k
        PROVE  /\ bufferUsages'[j].pass <= bufferUsages'[k].pass
               /\ bufferUsages'[j].pass = bufferUsages'[k].pass \/ bufferUsages'[k].uploadedTo =>
                    Res(bufferUsages'[j]) # Res(bufferUsages'[k])
    <2>1. j \in 1..n /\ bufferUsages'[j] = bufferUsages[j]
      BY <1>1, <1>6
    <2>2. CASE k \in 1..n
      <3>1. bufferUsages'[k] = bufferUsages[k]
        BY <1>1, <2>2
      <3>2. /\ bufferUsages[j].pass <= bufferUsages[k].pass
            /\ bufferUsages[j].pass = bufferUsages[k].pass \/ bufferUsages[k].uploadedTo =>
                 ResourceOf(bufferUsages[j]) # ResourceOf(bufferUsages[k])
        BY <1>1, <1>6, <2>1, <2>2 DEF BuildInv
      <3>. QED BY <1>3, <2>1, <2>2, <3>1, <3>2
    <2>3. CASE k = n + 1
      <3>1. bufferUsages'[k] = u /\ u.pass = L /\ bufferUsages[j].pass <= L
        BY <1>1, <1>2, <1>3, <2>1, <2>3
      <3>2. Res(bufferUsages[j]) = ResourceOf(bufferUsages[j]) /\ Res(bufferUsages[j]) \in DOMAIN resources
        BY <1>2, <1>3, <2>1
      <3>. QED BY <1>1, <2>1, <3>1, <3>2
    <2>. QED BY <1>4, <2>2, <2>3
  <1>7. ASSUME NEW r \in DOMAIN resources', resources'[r].stableId # NoId
        PROVE  transientBuffer'[resources'[r].stableId] = r
    <2>1. CASE r \in DOMAIN resources
      <3>1. resources[r].stableId # NoId /\ resources[r] \in Resource
        BY <1>7, <2>1, Elements DEF TypeInv
      <3>2. resources[r].stableId \in Pin /\ transientBuffer[resources[r].stableId] = r
        BY <2>1, <3>1, PassBarriersAssumption DEF Resource, BuildInv, is_stable
      <3>3. r # 0
        BY <1>2, <2>1
      <3>. QED BY <2>1, <3>2, <3>3
    <2>2. CASE r \notin DOMAIN resources
      BY <1>7, <2>2
    <2>. QED BY <2>1, <2>2
  <1>. HIDE DEF n
  <1>. QED BY <1>1, <1>5, <1>6, <1>7 DEF BuildInv, ResourceOf, is_stable

LEMMA AddUsageIs ==
  ASSUME BarriersInv, NEW pin \in Pin, NEW access \in BufferAccess, NEW upload \in BOOLEAN,
         AddUsage(pin, access, upload)
  PROVE  LET u == [pass |-> Len(passes), pin |-> pin, access |-> access, uploadedTo |-> upload]
         IN  /\ u \in Usage /\ bufferUsages' = Append(bufferUsages, u) /\ bufferUsages' \in Seq(Usage)
             /\ phase = "build" /\ passes # << >>
             /\ history' \in [usages : Nat, last : SUBSET BufferKey] /\ history'.last = history.last
             /\ UNCHANGED <<passes, stableBuffers, m_frame, phase, device>>
  <1> DEFINE u == [pass |-> Len(passes), pin |-> pin, access |-> access, uploadedTo |-> upload]
  <1>1. /\ bufferUsages' = Append(bufferUsages, u) /\ phase = "build" /\ passes # << >>
        /\ history' = [history EXCEPT !.usages = @ + 1]
        /\ UNCHANGED <<passes, stableBuffers, m_frame, phase, device>>
    BY DEF AddUsage
  <1>2. passes \in Seq(PassKind) /\ bufferUsages \in Seq(Usage)
        /\ history \in [usages : Nat, last : SUBSET BufferKey]
    BY DEF BarriersInv, TypeInv
  <1>3. u \in Usage
    <2>1. Len(passes) \in Nat
      BY <1>2, Elements
    <2>. QED BY <2>1 DEF Usage
  <1>4. history' \in [usages : Nat, last : SUBSET BufferKey] /\ history'.last = history.last
    <2>1. history.usages + 1 \in Nat /\ history.last \in SUBSET BufferKey
      BY <1>2
    <2>2. history' = [usages |-> history.usages + 1, last |-> history.last]
      BY <1>1, <1>2
    <2>. QED BY <2>1, <2>2
  <1>. HIDE DEF u
  <1>5. bufferUsages' \in Seq(Usage)
    BY <1>1, <1>2, <1>3, Appended
  <1>. QED BY <1>1, <1>3, <1>4, <1>5 DEF u

LEMMA Create ==
  ASSUME BarriersInv, NEW pin \in Pin, NEW access \in BufferAccess, NEW upload \in BOOLEAN,
         create(pin, access, upload)
  PROVE  BarriersInv'
  <1> DEFINE u == [pass |-> Len(passes), pin |-> pin, access |-> access, uploadedTo |-> upload]
             new == [stableId |-> IF pin \in StablePin THEN pin ELSE NoId,
                     usage |-> {UsageOf(access)} \cup (IF upload THEN {"transfer_destination"} ELSE {}),
                     buffer |-> << >>, framesAlive |-> 0]
             n == Len(resources) + 1
  <1>1. /\ transientBuffer[pin] = 0 /\ (upload => pin \notin StablePin)
        /\ resources' = Append(resources, new)
        /\ transientBuffer' = [transientBuffer EXCEPT ![pin] = n]
        /\ AddUsage(pin, access, upload)
    BY DEF create
  <1>2. /\ u \in Usage /\ bufferUsages' = Append(bufferUsages, u) /\ bufferUsages' \in Seq(Usage)
        /\ phase = "build" /\ passes # << >>
        /\ history' \in [usages : Nat, last : SUBSET BufferKey] /\ history'.last = history.last
        /\ UNCHANGED <<passes, stableBuffers, m_frame, phase, device>>
    BY <1>1, AddUsageIs
  <1>3. new \in Resource
    <2>1. {UsageOf(access)} \cup (IF upload THEN {"transfer_destination"} ELSE {}) \subseteq BufferUsageFlag
      BY AccessFacts DEF BufferUsageFlag
    <2>2. << >> \in Buffer /\ 0 \in Int
      BY DEF Buffer
    <2>. QED BY <2>1, <2>2 DEF Resource
  <1>4. /\ resources \in Seq(Resource) /\ transientBuffer \in [Pin -> Nat]
        /\ \A p \in Pin : transientBuffer[p] \in 0..Len(resources)
        /\ Len(resources) \in Nat /\ DOMAIN resources = 1..Len(resources)
    BY Elements DEF BarriersInv, TypeInv, BuildInv
  <1>5. /\ new.stableId = IF pin \in StablePin THEN pin ELSE NoId
    OBVIOUS
  <1>6. u.pass = Len(passes) /\ u.pin = pin /\ u.uploadedTo = upload
    OBVIOUS
  <1>. HIDE DEF new, u
  <1>7. /\ resources' \in Seq(Resource) /\ Len(resources') = n /\ n \in Nat /\ DOMAIN resources' = 1..n
        /\ \A r \in DOMAIN resources : resources'[r] = resources[r]
        /\ resources'[n] = new /\ n \notin DOMAIN resources
    <2>1. /\ resources' \in Seq(Resource) /\ Len(resources') = n /\ resources'[n] = new
          /\ \A r \in DOMAIN resources : resources'[r] = resources[r]
      BY <1>1, <1>3, <1>4, Appended
    <2>. QED BY <1>4, <2>1, Elements
  <1>8. /\ transientBuffer' \in [Pin -> Nat] /\ transientBuffer'[pin] = n
        /\ \A p \in Pin : p # pin => transientBuffer'[p] = transientBuffer[p]
    BY <1>1, <1>4, <1>7
  <1>9. TypeInv'
    BY <1>2, <1>7, <1>8 DEF BarriersInv, TypeInv
  <1>10. BuildInv'
    <2>1. \A p \in Pin : /\ transientBuffer'[p] \in 0..Len(resources')
                         /\ transientBuffer[p] # 0 => transientBuffer'[p] = transientBuffer[p]
      <3>1. \A i \in 0..Len(resources) : i \in 0..n
        BY <1>4
      <3>2. n \in 0..n
        BY <1>7
      <3>. QED BY <1>1, <1>4, <1>7, <1>8, <3>1, <3>2
    <2>2. \A r \in DOMAIN resources' : r \notin DOMAIN resources => r = n
      BY <1>4, <1>7
    <2>3. new.stableId # NoId => new.stableId = pin
      BY <1>5
    <2>4. \A r \in DOMAIN resources' :
            r \notin DOMAIN resources /\ resources'[r].stableId # NoId =>
              transientBuffer'[resources'[r].stableId] = r
      BY <1>7, <1>8, <2>2, <2>3
    <2>5. \A k \in DOMAIN bufferUsages : ResourceOf(bufferUsages[k]) # n
      BY <1>7 DEF BarriersInv, BuildInv
    <2>6. Len(resources) <= Len(resources') /\ n \in DOMAIN resources'
      BY <1>4, <1>7
    <2>7. u.uploadedTo => new.stableId = NoId
      BY <1>1, <1>5, <1>6
    <2>8. phase' # "idle" /\ passes' = passes
      BY <1>2
    <2>9. \A r \in DOMAIN resources : resources'[r].stableId = resources[r].stableId
      BY <1>7
    <2>10. u.uploadedTo => /\ resources'[transientBuffer'[u.pin]].stableId = NoId
                           /\ transientBuffer'[u.pin] \notin DOMAIN resources
      BY <1>6, <1>7, <1>8, <2>7
    <2>11. /\ transientBuffer'[u.pin] \in DOMAIN resources'
           /\ \A k \in DOMAIN bufferUsages :
                bufferUsages[k].pass = Len(passes) => ResourceOf(bufferUsages[k]) # transientBuffer'[u.pin]
      BY <1>6, <1>8, <2>5, <2>6
    <2>12. Len(resources') \in Nat /\ DOMAIN resources' = 1..Len(resources')
      BY <1>7
    <2>. QED BY <1>2, <1>6, <2>1, <2>4, <2>6, <2>8, <2>9, <2>10, <2>11, <2>12, UsageAdded DEF BarriersInv
  <1>11. PoolInv' /\ DeviceInv'
    BY <1>2, PoolKept DEF BarriersInv
  <1>. QED BY <1>9, <1>10, <1>11 DEF BarriersInv

LEMMA Acquire ==
  ASSUME BarriersInv, NEW pin \in Pin, NEW access \in BufferAccess, acquire(pin, access)
  PROVE  BarriersInv'
  <1> DEFINE u == [pass |-> Len(passes), pin |-> pin, access |-> access, uploadedTo |-> FALSE]
             i == transientBuffer[pin]
             new == [resources[i] EXCEPT !.usage = @ \cup {UsageOf(access)}]
  <1>1. /\ i # 0 /\ transientBuffer' = transientBuffer
        /\ \A k \in DOMAIN bufferUsages :
             bufferUsages[k].pass = Len(passes) => ResourceOf(bufferUsages[k]) # i
        /\ resources' = [resources EXCEPT ![i] = new]
        /\ AddUsage(pin, access, FALSE)
    BY DEF acquire, ResourceOf
  <1>2. /\ u \in Usage /\ bufferUsages' = Append(bufferUsages, u) /\ bufferUsages' \in Seq(Usage)
        /\ phase = "build" /\ passes # << >>
        /\ history' \in [usages : Nat, last : SUBSET BufferKey] /\ history'.last = history.last
        /\ UNCHANGED <<passes, stableBuffers, m_frame, phase, device>>
    BY <1>1, AddUsageIs
  <1>3. /\ resources \in Seq(Resource) /\ transientBuffer \in [Pin -> Nat]
        /\ \A p \in Pin : transientBuffer[p] \in 0..Len(resources)
        /\ Len(resources) \in Nat /\ DOMAIN resources = 1..Len(resources)
    BY Elements DEF BarriersInv, TypeInv, BuildInv
  <1>4. i \in 1..Len(resources) /\ resources[i] \in Resource
    <2>1. i \in 0..Len(resources) /\ i # 0
      BY <1>1, <1>3
    <2>2. i \in 1..Len(resources)
      BY <1>3, <2>1
    <2>. QED BY <1>3, <2>2, Elements
  <1>5. new \in Resource /\ new.stableId = resources[i].stableId
    BY <1>4, AccessFacts DEF Resource
  <1>6. u.pass = Len(passes) /\ u.pin = pin /\ u.uploadedTo = FALSE
    OBVIOUS
  <1>. HIDE DEF new, u
  <1>7. /\ resources' \in Seq(Resource) /\ Len(resources') = Len(resources)
        /\ DOMAIN resources' = DOMAIN resources
        /\ \A r \in DOMAIN resources : resources'[r].stableId = resources[r].stableId
    <2>1. /\ resources' \in Seq(Resource) /\ Len(resources') = Len(resources) /\ resources'[i] = new
          /\ \A r \in 1..Len(resources) : r # i => resources'[r] = resources[r]
      BY <1>1, <1>3, <1>4, <1>5, Replaced
    <2>2. DOMAIN resources' = 1..Len(resources')
      BY <2>1, Elements
    <2>. QED BY <1>3, <1>5, <2>1, <2>2
  <1>8. TypeInv'
    BY <1>1, <1>2, <1>7 DEF BarriersInv, TypeInv
  <1>9. BuildInv'
    <2>1. /\ transientBuffer'[u.pin] = i /\ i \in DOMAIN resources'
          /\ \A p \in Pin : transientBuffer'[p] = transientBuffer[p]
      BY <1>1, <1>3, <1>4, <1>6, <1>7
    <2>2. \A p \in Pin : /\ transientBuffer'[p] \in 0..Len(resources')
                         /\ transientBuffer[p] # 0 => transientBuffer'[p] = transientBuffer[p]
      BY <1>3, <1>7, <2>1
    <2>3. \A r \in DOMAIN resources' :
            r \notin DOMAIN resources /\ resources'[r].stableId # NoId =>
              transientBuffer'[resources'[r].stableId] = r
      BY <1>7
    <2>4. Len(resources) <= Len(resources') /\ Len(resources') \in Nat
          /\ DOMAIN resources' = 1..Len(resources')
      BY <1>3, <1>7
    <2>5. phase' # "idle" /\ passes' = passes
      BY <1>2
    <2>6. \A k \in DOMAIN bufferUsages :
            bufferUsages[k].pass = Len(passes) => ResourceOf(bufferUsages[k]) # transientBuffer'[u.pin]
      BY <1>1, <2>1
    <2>7. transientBuffer'[u.pin] \in DOMAIN resources'
      BY <2>1
    <2>8. u.uploadedTo => /\ resources'[transientBuffer'[u.pin]].stableId = NoId
                          /\ transientBuffer'[u.pin] \notin DOMAIN resources
      BY <1>6
    <2>. QED BY <1>2, <1>6, <1>7, <2>2, <2>3, <2>4, <2>5, <2>6, <2>7, <2>8, UsageAdded DEF BarriersInv
  <1>10. PoolInv' /\ DeviceInv'
    BY <1>2, PoolKept DEF BarriersInv
  <1>. QED BY <1>8, <1>9, <1>10 DEF BarriersInv

LEMMA Reroute ==
  ASSUME BarriersInv, NEW source \in Pin, NEW destination \in Pin, reroute(source, destination)
  PROVE  BarriersInv'
  <1>1. /\ phase = "build" /\ transientBuffer[source] # 0 /\ transientBuffer[destination] = 0
        /\ transientBuffer' = [transientBuffer EXCEPT ![destination] = transientBuffer[source]]
        /\ UNCHANGED <<passes, bufferUsages, resources, stableBuffers, m_frame, phase, device, history>>
    BY DEF reroute
  <1>2. /\ bufferUsages \in Seq(Usage) /\ resources \in Seq(Resource) /\ transientBuffer \in [Pin -> Nat]
        /\ \A p \in Pin : transientBuffer[p] \in 0..Len(resources)
        /\ DOMAIN resources = 1..Len(resources)
    BY Elements DEF BarriersInv, TypeInv, BuildInv
  <1>3. /\ transientBuffer' \in [Pin -> Nat]
        /\ \A p \in Pin : /\ transientBuffer'[p] \in 0..Len(resources)
                          /\ transientBuffer[p] # 0 => transientBuffer'[p] = transientBuffer[p]
    BY <1>1, <1>2
  <1>4. TypeInv'
    BY <1>1, <1>3 DEF BarriersInv, TypeInv
  <1>5. \A k \in DOMAIN bufferUsages :
          transientBuffer'[bufferUsages[k].pin] = ResourceOf(bufferUsages[k])
    <2>1. ASSUME NEW k \in DOMAIN bufferUsages
          PROVE  transientBuffer'[bufferUsages[k].pin] = ResourceOf(bufferUsages[k])
      <3>1. bufferUsages[k] \in Usage /\ ResourceOf(bufferUsages[k]) \in 1..Len(resources)
        BY <1>2, Elements DEF BarriersInv, BuildInv
      <3>2. bufferUsages[k].pin \in Pin /\ transientBuffer[bufferUsages[k].pin] # 0
        BY <3>1 DEF Usage, ResourceOf
      <3>. QED BY <1>3, <3>2 DEF ResourceOf
    <2>. QED BY <2>1
  <1>6. \A r \in DOMAIN resources :
          is_stable(resources[r]) => transientBuffer'[resources[r].stableId] = r
    <2>1. ASSUME NEW r \in DOMAIN resources, is_stable(resources[r])
          PROVE  transientBuffer'[resources[r].stableId] = r
      <3>1. resources[r] \in Resource
        BY <1>2, Elements
      <3>2. resources[r].stableId \in Pin /\ transientBuffer[resources[r].stableId] = r /\ r # 0
        BY <1>2, <2>1, <3>1, PassBarriersAssumption DEF Resource, is_stable, BarriersInv, BuildInv
      <3>. QED BY <1>3, <3>2
    <2>. QED BY <2>1
  <1>7. BuildInv'
    <2>1. /\ \A k \in DOMAIN bufferUsages :
               /\ bufferUsages[k].pass \in 1..Len(passes)
               /\ ResourceOf(bufferUsages[k]) \in DOMAIN resources
               /\ bufferUsages[k].uploadedTo => ~is_stable(resources[ResourceOf(bufferUsages[k])])
          /\ \A j, k \in DOMAIN bufferUsages :
               j < k =>
                 /\ bufferUsages[j].pass <= bufferUsages[k].pass
                 /\ bufferUsages[j].pass = bufferUsages[k].pass \/ bufferUsages[k].uploadedTo =>
                      ResourceOf(bufferUsages[j]) # ResourceOf(bufferUsages[k])
      BY DEF BarriersInv, BuildInv
    <2>. QED BY <1>1, <1>3, <1>5, <1>6, <2>1 DEF BuildInv, ResourceOf, is_stable
  <1>8. PoolInv' /\ DeviceInv'
    BY <1>1, PoolKept DEF BarriersInv
  <1>. QED BY <1>4, <1>7, <1>8 DEF BarriersInv

-----------------------------------------------------------------------------
(* The end of a build *)

Pool ==
  [k \in DOMAIN stableBuffers \cup StableKeys |->
     IF k \in StableKeys THEN acquire_from_pool(k) ELSE stableBuffers[k]]

LEMMA PoolIs ==
  ASSUME BarriersInv, phase = "build", NEW k \in StableKeys
  PROVE  /\ k \in BufferKey /\ k \in DOMAIN Pool
         /\ Pool[k] \in Stored /\ Pool[k].lastUsedTime = m_frame
         /\ Pool[k].buffer = <<"stable", k, Pool[k].creationTime>>
         /\ Pool[k].creationTime <= m_frame
         /\ Pool[k].creationTime = m_frame <=> k \notin history.last
         /\ Covered(LogOf(device, Pool[k].buffer), Pool[k].previousStages, Pool[k].previousAccess)
  <1>1. k \in BufferKey
    <2>1. PICK i \in DOMAIN resources : is_stable(resources[i]) /\ k = Key(resources[i])
      BY DEF StableKeys
    <2>2. resources[i] \in Resource
      BY Elements DEF BarriersInv, TypeInv
    <2>. QED BY <2>1, <2>2 DEF Key, Resource, BufferKey
  <1>2. k \in DOMAIN Pool /\ Pool[k] = acquire_from_pool(k) /\ m_frame \in Nat
    BY DEF Pool, BarriersInv, TypeInv
  <1>3. CASE k \in DOMAIN stableBuffers
    <2> DEFINE s == stableBuffers[k]
    <2>1. Pool[k] = [s EXCEPT !.lastUsedTime = m_frame] /\ s \in Stored
      BY <1>2, <1>3 DEF acquire_from_pool, BarriersInv, TypeInv
    <2>2. /\ s.buffer = <<"stable", k, s.creationTime>> /\ k \in history.last
          /\ s.creationTime <= s.lastUsedTime /\ s.lastUsedTime = m_frame - 1
          /\ Covered(LogOf(device, s.buffer), s.previousStages, s.previousAccess)
      BY <1>3 DEF BarriersInv, PoolInv, DeviceInv
    <2>. HIDE DEF s
    <2>3. /\ Pool[k] \in Stored /\ Pool[k].lastUsedTime = m_frame /\ Pool[k].buffer = s.buffer
          /\ Pool[k].creationTime = s.creationTime /\ Pool[k].previousStages = s.previousStages
          /\ Pool[k].previousAccess = s.previousAccess
      BY <1>2, <2>1 DEF Stored
    <2>4. s.creationTime \in Nat /\ s.lastUsedTime \in Nat
      BY <2>1 DEF Stored
    <2>5. s.creationTime <= m_frame /\ s.creationTime # m_frame
      BY <1>2, <2>2, <2>4
    <2>. QED BY <1>1, <1>2, <2>2, <2>3, <2>5
  <1>4. CASE k \notin DOMAIN stableBuffers
    <2>1. Pool[k] = [buffer |-> <<"stable", k, m_frame>>, creationTime |-> m_frame,
                     lastUsedTime |-> m_frame, previousStages |-> {}, previousAccess |-> {}]
      BY <1>2, <1>4 DEF acquire_from_pool
    <2>2. k \notin history.last
      BY <1>4 DEF BarriersInv, PoolInv
    <2> DEFINE b == <<"stable", k, m_frame>>
    <2>3. b \in Buffer /\ b[3] = m_frame
      BY <1>1, <1>2 DEF Buffer
    <2>4. b \notin DOMAIN device.log
      BY <2>3 DEF BarriersInv, DeviceInv
    <2>5. LogOf(device, b) = {}
      BY <2>4 DEF LogOf
    <2>. HIDE DEF b
    <2>6. Covered(LogOf(device, b), {}, {})
      BY <2>5 DEF Covered
    <2>7. Pool[k].buffer = b /\ Pool[k] \in Stored
      BY <1>2, <2>1, <2>3 DEF Stored, b
    <2>8. m_frame <= m_frame
      BY <1>2
    <2>. QED BY <1>1, <1>2, <2>1, <2>2, <2>6, <2>7, <2>8
  <1>. QED BY <1>3, <1>4

LEMMA EndBuild ==
  ASSUME BarriersInv, end_build
  PROVE  BarriersInv'
  <1>1. /\ phase = "build" /\ phase' = "built"
        /\ resources' = [i \in DOMAIN resources |->
              IF is_stable(resources[i])
              THEN [resources[i] EXCEPT !.buffer = Pool[Key(resources[i])].buffer,
                      !.framesAlive = m_frame - Pool[Key(resources[i])].creationTime]
              ELSE [resources[i] EXCEPT !.buffer = <<"frame", i>>]]
        /\ stableBuffers' = free_stable_buffers(Pool)
        /\ UNCHANGED <<passes, bufferUsages, transientBuffer, m_frame, device, history>>
    BY DEF end_build, Pool
  <1>2. /\ resources \in Seq(Resource) /\ m_frame \in Nat
        /\ Len(resources) \in Nat /\ DOMAIN resources = 1..Len(resources)
        /\ \A i \in DOMAIN resources : resources[i] \in Resource
    BY Elements DEF BarriersInv, TypeInv
  <1>3. ASSUME NEW i \in DOMAIN resources
        PROVE  /\ resources'[i] \in Resource
               /\ resources'[i].stableId = resources[i].stableId
               /\ resources'[i].usage = resources[i].usage
               /\ is_stable(resources[i]) =>
                    /\ resources'[i].buffer = Pool[Key(resources[i])].buffer
                    /\ resources'[i].framesAlive = m_frame - Pool[Key(resources[i])].creationTime
               /\ ~is_stable(resources[i]) => resources'[i].buffer = <<"frame", i>>
    <2>1. CASE is_stable(resources[i])
      <3> DEFINE b == Pool[Key(resources[i])].buffer
                 a == m_frame - Pool[Key(resources[i])].creationTime
      <3>1. Key(resources[i]) \in StableKeys
        BY <2>1 DEF StableKeys
      <3>2. Pool[Key(resources[i])] \in Stored
        BY <1>1, <3>1, PoolIs
      <3>3. b \in Buffer /\ a \in Int
        BY <1>2, <3>2 DEF Stored
      <3>4. resources'[i] = [resources[i] EXCEPT !.buffer = b, !.framesAlive = a]
        BY <1>1, <2>1
      <3>. HIDE DEF a, b
      <3>5. resources[i] \in Resource
        BY <1>2
      <3>6. /\ resources'[i] \in Resource /\ resources'[i].stableId = resources[i].stableId
            /\ resources'[i].usage = resources[i].usage
            /\ resources'[i].buffer = b /\ resources'[i].framesAlive = a
        BY <3>3, <3>4, <3>5 DEF Resource
      <3>. QED BY <2>1, <3>6 DEF a, b
    <2>2. CASE ~is_stable(resources[i])
      <3> DEFINE b == <<"frame", i>>
      <3>1. b \in Buffer
        BY <1>2 DEF Buffer
      <3>2. resources'[i] = [resources[i] EXCEPT !.buffer = b]
        BY <1>1, <2>2
      <3>. HIDE DEF b
      <3>3. resources[i] \in Resource
        BY <1>2
      <3>4. /\ resources'[i] \in Resource /\ resources'[i].stableId = resources[i].stableId
            /\ resources'[i].usage = resources[i].usage /\ resources'[i].buffer = b
        BY <3>1, <3>2, <3>3 DEF Resource
      <3>. QED BY <2>2, <3>4 DEF b
    <2>. QED BY <2>1, <2>2
  <1>4. resources' \in Seq(Resource) /\ Len(resources') = Len(resources)
        /\ DOMAIN resources' = DOMAIN resources
    <2>1. resources' \in [1..Len(resources) -> Resource]
      BY <1>1, <1>2, <1>3
    <2>. QED BY <1>2, <2>1, SeqOf
  <1>5. \A i \in DOMAIN resources :
          Key(resources'[i]) = Key(resources[i]) /\ (is_stable(resources'[i]) <=> is_stable(resources[i]))
    BY <1>3 DEF Key, is_stable
  <1>6. StableKeys' = StableKeys
    BY <1>4, <1>5 DEF StableKeys, Key, is_stable
  <1>7. DOMAIN stableBuffers' = StableKeys /\ \A k \in StableKeys : stableBuffers'[k] = Pool[k]
    <2>1. stableBuffers' = [k \in {l \in DOMAIN Pool : m_frame - Pool[l].lastUsedTime < 1} |-> Pool[k]]
      BY <1>1 DEF free_stable_buffers, FramesBeforeDeletingStableResources
    <2>2. \A k \in StableKeys : k \in DOMAIN Pool /\ m_frame - Pool[k].lastUsedTime < 1
      <3>1. \A k \in StableKeys : k \in DOMAIN Pool /\ Pool[k].lastUsedTime = m_frame
        BY <1>1, PoolIs
      <3>2. m_frame - m_frame < 1
        BY <1>2
      <3>. QED BY <3>1, <3>2
    <2>3. ASSUME NEW k \in DOMAIN Pool, k \notin StableKeys
          PROVE  ~(m_frame - Pool[k].lastUsedTime < 1)
      <3>1. k \in DOMAIN stableBuffers /\ Pool[k] = stableBuffers[k]
        BY <2>3 DEF Pool
      <3>2. Pool[k].lastUsedTime = m_frame - 1
        BY <1>1, <3>1 DEF BarriersInv, PoolInv
      <3>. QED BY <1>2, <3>2
    <2>4. {l \in DOMAIN Pool : m_frame - Pool[l].lastUsedTime < 1} = StableKeys
      BY <2>2, <2>3
    <2>. QED BY <2>1, <2>4
  <1>8. TypeInv'
    <2>1. DOMAIN stableBuffers' \subseteq BufferKey
          /\ \A k \in DOMAIN stableBuffers' : stableBuffers'[k] \in Stored
      BY <1>1, <1>7, PoolIs
    <2>2. stableBuffers' = [k \in DOMAIN stableBuffers' |-> stableBuffers'[k]]
      BY <1>1 DEF free_stable_buffers
    <2>3. stableBuffers' \in [DOMAIN stableBuffers' -> Stored]
      BY <2>1, <2>2
    <2>. QED BY <1>1, <1>4, <2>1, <2>3 DEF BarriersInv, TypeInv
  <1>9. BuildInv'
    <2>1. \A k \in DOMAIN bufferUsages :
            /\ ResourceOf(bufferUsages[k]) \in DOMAIN resources
            /\ bufferUsages[k].uploadedTo => ~is_stable(resources'[ResourceOf(bufferUsages[k])])
      BY <1>5 DEF BarriersInv, BuildInv
    <2>2. \A r \in DOMAIN resources :
            is_stable(resources'[r]) => transientBuffer[resources'[r].stableId] = r
      BY <1>3, <1>5 DEF BarriersInv, BuildInv
    <2>3. phase' # "idle"
      BY <1>1
    <2>4. /\ \A p \in Pin : transientBuffer[p] \in 0..Len(resources)
          /\ \A k \in DOMAIN bufferUsages : bufferUsages[k].pass \in 1..Len(passes)
          /\ \A j, k \in DOMAIN bufferUsages :
               j < k =>
                 /\ bufferUsages[j].pass <= bufferUsages[k].pass
                 /\ bufferUsages[j].pass = bufferUsages[k].pass \/ bufferUsages[k].uploadedTo =>
                      ResourceOf(bufferUsages[j]) # ResourceOf(bufferUsages[k])
      BY DEF BarriersInv, BuildInv
    <2>. QED BY <1>1, <1>4, <2>1, <2>2, <2>3, <2>4 DEF BuildInv, ResourceOf, is_stable
  <1>10. PoolInv'
    <2>1. ASSUME NEW k \in DOMAIN stableBuffers'
          PROVE  /\ stableBuffers'[k].buffer = <<"stable", k, stableBuffers'[k].creationTime>>
                 /\ stableBuffers'[k].creationTime <= stableBuffers'[k].lastUsedTime
                 /\ stableBuffers'[k].lastUsedTime = m_frame
                 /\ stableBuffers'[k].creationTime = m_frame <=> k \notin history.last
      <3>1. k \in StableKeys /\ stableBuffers'[k] = Pool[k]
        BY <1>7
      <3>. QED BY <1>1, <3>1, PoolIs
    <2>2. ASSUME NEW r \in DOMAIN resources'
          PROVE  IF is_stable(resources'[r])
                 THEN /\ resources'[r].buffer = stableBuffers'[Key(resources'[r])].buffer
                      /\ resources'[r].framesAlive = m_frame - stableBuffers'[Key(resources'[r])].creationTime
                 ELSE resources'[r].buffer = <<"frame", r>>
      <3>1. r \in DOMAIN resources
        BY <1>4
      <3>2. CASE is_stable(resources[r])
        <4>1. Key(resources[r]) \in StableKeys
          BY <3>1, <3>2 DEF StableKeys
        <4>. QED BY <1>3, <1>5, <1>7, <3>1, <3>2, <4>1
      <3>3. CASE ~is_stable(resources[r])
        BY <1>3, <1>5, <3>1, <3>3
      <3>. QED BY <3>2, <3>3
    <2>3. phase' = "built" /\ m_frame' = m_frame /\ history' = history
      BY <1>1
    <2>. QED BY <1>6, <1>7, <2>1, <2>2, <2>3 DEF PoolInv, Key, is_stable
  <1>11. DeviceInv'
    <2>1. \A k \in StableKeys :
            Covered(LogOf(device, stableBuffers'[k].buffer), stableBuffers'[k].previousStages,
                    stableBuffers'[k].previousAccess)
      BY <1>1, <1>7, PoolIs
    <2>2. phase # "idle" /\ device' = device /\ m_frame' = m_frame
      BY <1>1
    <2>. QED BY <1>7, <2>1, <2>2 DEF BarriersInv, DeviceInv, LogOf, Covered
  <1>. QED BY <1>8, <1>9, <1>10, <1>11 DEF BarriersInv

-----------------------------------------------------------------------------
(* The end of a frame *)

\* What the frame leaves of the buffer of a stable resource.
Left(r) ==
  LET t == Tracked[N].tracking[r]
      b == Tracked[N].barriers[t.barrier]
      stored == stableBuffers[Key(resources[r])]
  IN  IF t.barrier = 0 THEN stored
      ELSE [stored EXCEPT !.previousStages = b.nextPipelines, !.previousAccess = b.nextAccesses]

LEMMA StoredIs ==
  ASSUME Built, NEW r \in DOMAIN resources, is_stable(resources[r])
  PROVE  /\ Key(resources[r]) \in DOMAIN stableBuffers
         /\ StoreTracking(Tracked[N])[Key(resources[r])] = Left(r)
  <1> DEFINE k == Key(resources[r])
             R == {i \in DOMAIN resources : is_stable(resources[i]) /\ Key(resources[i]) = k
                                              /\ Tracked[N].tracking[i].barrier # 0}
  <1>1. k \in DOMAIN stableBuffers
    BY StableEntry
  <1>2. \A i \in R : i = r
    BY SameKey DEF Built
  <1>3. StoreTracking(Tracked[N])[k] =
          IF R = {} THEN stableBuffers[k]
          ELSE LET b == Tracked[N].barriers[Tracked[N].tracking[CHOOSE i \in R : TRUE].barrier]
               IN  [stableBuffers[k] EXCEPT !.previousStages = b.nextPipelines,
                                            !.previousAccess = b.nextAccesses]
    BY <1>1 DEF StoreTracking
  <1>4. CASE Tracked[N].tracking[r].barrier = 0
    <2>1. R = {}
      BY <1>2, <1>4
    <2>. HIDE DEF R
    <2>. QED BY <1>1, <1>3, <1>4, <2>1 DEF Left
  <1>5. CASE Tracked[N].tracking[r].barrier # 0
    <2>1. r \in R
      BY <1>5
    <2>. HIDE DEF R
    <2>2. (CHOOSE i \in R : TRUE) = r /\ R # {}
      BY <1>2, <2>1
    <2>. QED BY <1>1, <1>3, <1>5, <2>2 DEF Left
  <1>. QED BY <1>4, <1>5

LEMMA LeftCovers ==
  ASSUME Built, DeviceInv, NEW r \in DOMAIN resources, is_stable(resources[r])
  PROVE  LET stored == stableBuffers[Key(resources[r])]
         IN  /\ Left(r) \in Stored /\ Left(r).buffer = stored.buffer
             /\ Left(r).creationTime = stored.creationTime
             /\ Left(r).lastUsedTime = stored.lastUsedTime
             /\ Covered(LogOf(Ran[Len(passes)], stored.buffer), Left(r).previousStages,
                        Left(r).previousAccess)
  <1> DEFINE stored == stableBuffers[Key(resources[r])]
             d == Ran[Len(passes)]
             t == Tracked[N].tracking[r]
             b == Tracked[N].barriers[t.barrier]
  <1>1. stored \in Stored /\ stored.buffer = resources[r].buffer
    BY StableEntry DEF Built, PoolInv
  <1>2. ResourceOK(d, N, r)
    BY FrameOK DEF DeviceOK
  <1>3. N \in Nat /\ N \in 0..N /\ TrackOK(Tracked[N])
    BY TrackedIs
  <1>4. CASE t.barrier = 0
    <2>1. Covered(LogOf(d, resources[r].buffer), Told(N, r).stages, Told(N, r).access)
      BY <1>2, <1>4 DEF ResourceOK
    <2>2. \A i \in DOMAIN bufferUsages : bufferUsages[i].uploadedTo => ResourceOf(bufferUsages[i]) # r
      BY DEF Built, BuildInv
    <2>3. DOMAIN bufferUsages = 1..N
      BY TrackedIs
    <2>4. Told(N, r) = [stages |-> fetch_buffer_tracking(r).previousStages,
                        access |-> fetch_buffer_tracking(r).previousAccess]
      BY <2>2, <2>3 DEF Told
    <2>5. /\ fetch_buffer_tracking(r).previousStages = stored.previousStages
          /\ fetch_buffer_tracking(r).previousAccess = stored.previousAccess
      BY DEF fetch_buffer_tracking
    <2>6. Left(r) = stored
      BY <1>4 DEF Left
    <2>. QED BY <1>1, <2>1, <2>4, <2>5, <2>6
  <1>5. CASE t.barrier # 0
    <2>1. b.nextPipelines # {} /\ Joined(LogOf(d, resources[r].buffer), b.nextPipelines,
                                         b.nextAccesses, t.isRead)
      BY <1>2, <1>5 DEF ResourceOK
    <2>2. Covered(LogOf(d, resources[r].buffer), b.nextPipelines, b.nextAccesses)
      BY <2>1, JoinedCovers
    <2>3. t.barrier \in 1..Len(Tracked[N].barriers) /\ Tracked[N].barriers \in Seq(BarrierType)
      BY <1>3, <1>5, Elements DEF TrackOK, TrackState
    <2>4. b \in BarrierType
      BY <2>3, Elements
    <2>5. b.nextPipelines \subseteq Stage /\ b.nextAccesses \subseteq AccessType
      BY <2>4 DEF BarrierType
    <2> DEFINE S == b.nextPipelines
               A == b.nextAccesses
    <2>6. Left(r) = [stored EXCEPT !.previousStages = S, !.previousAccess = A]
      BY <1>5 DEF Left
    <2>7. /\ S \subseteq Stage /\ A \subseteq AccessType
          /\ Covered(LogOf(d, stored.buffer), S, A)
      BY <1>1, <2>2, <2>5
    <2>. HIDE DEF S, A, stored, d
    <2>8. /\ Left(r) \in Stored /\ Left(r).previousStages = S /\ Left(r).previousAccess = A
          /\ Left(r).buffer = stored.buffer /\ Left(r).creationTime = stored.creationTime
          /\ Left(r).lastUsedTime = stored.lastUsedTime
      BY <1>1, <2>6, <2>7 DEF Stored
    <2>. QED BY <2>7, <2>8 DEF stored, d
  <1>. QED BY <1>4, <1>5

LEMMA Execute ==
  ASSUME BarriersInv, execute
  PROVE  BarriersInv'
  <1> DEFINE done == Ran[Len(passes)]
             kept == {stableBuffers[k].buffer : k \in DOMAIN stableBuffers}
  <1>1. /\ phase = "built" /\ phase' = "idle" /\ m_frame' = m_frame
        /\ device' = [log |-> [b \in DOMAIN done.log \cap kept |-> done.log[b]],
                      raced |-> done.raced]
        /\ stableBuffers' = StoreTracking(Tracked[N])
        /\ history' = [history EXCEPT !.last = StableKeys]
        /\ passes' = << >> /\ bufferUsages' = << >> /\ resources' = << >>
        /\ transientBuffer' = [p \in Pin |-> 0]
    BY DEF execute, build_pass_barriers, N
  <1>2. Built /\ DeviceInv
    BY <1>1 DEF BarriersInv, Built
  <1>3. DOMAIN stableBuffers' = DOMAIN stableBuffers /\ DOMAIN stableBuffers = StableKeys
    BY <1>1, <1>2 DEF StoreTracking, Built, PoolInv
  <1>4. ASSUME NEW k \in DOMAIN stableBuffers
        PROVE  /\ stableBuffers'[k] \in Stored /\ stableBuffers[k] \in Stored
               /\ stableBuffers'[k].buffer = stableBuffers[k].buffer
               /\ stableBuffers'[k].creationTime = stableBuffers[k].creationTime
               /\ stableBuffers'[k].lastUsedTime = stableBuffers[k].lastUsedTime
               /\ Covered(LogOf(done, stableBuffers[k].buffer), stableBuffers'[k].previousStages,
                          stableBuffers'[k].previousAccess)
    <2>1. PICK r \in DOMAIN resources : is_stable(resources[r]) /\ Key(resources[r]) = k
      BY <1>3 DEF StableKeys
    <2>2. stableBuffers'[k] = Left(r)
      BY <1>1, <1>2, <2>1, StoredIs
    <2>3. stableBuffers[k] \in Stored
      BY <1>2, <2>1, StableEntry
    <2>. QED BY <1>2, <2>1, <2>2, <2>3, LeftCovers
  <1>5. ASSUME NEW k \in DOMAIN stableBuffers
        PROVE  LogOf(device', stableBuffers[k].buffer) = LogOf(done, stableBuffers[k].buffer)
    <2>1. stableBuffers[k].buffer \in kept
      OBVIOUS
    <2>2. /\ DOMAIN device'.log = DOMAIN done.log \cap kept
          /\ \A b \in DOMAIN done.log \cap kept : device'.log[b] = done.log[b]
      BY <1>1
    <2>. HIDE DEF kept, done
    <2>. QED BY <2>1, <2>2 DEF LogOf
  <1>6. ~device'.raced
    BY <1>1, <1>2, FrameOK DEF DeviceOK
  <1>7. TypeInv'
    <2>1. stableBuffers' = [k \in DOMAIN stableBuffers' |-> stableBuffers'[k]]
      BY <1>1 DEF StoreTracking
    <2>2. stableBuffers' \in [DOMAIN stableBuffers' -> Stored]
      BY <1>3, <1>4, <2>1
    <2>3. /\ DOMAIN stableBuffers \subseteq BufferKey /\ m_frame \in Nat
          /\ history \in [usages : Nat, last : SUBSET BufferKey]
      BY DEF BarriersInv, TypeInv
    <2>4. history' \in [usages : Nat, last : SUBSET BufferKey]
      BY <1>1, <1>3, <2>3
    <2>5. /\ passes' \in Seq(PassKind) /\ bufferUsages' \in Seq(Usage) /\ resources' \in Seq(Resource)
          /\ transientBuffer' \in [Pin -> Nat]
      BY <1>1
    <2>. QED BY <1>1, <1>3, <2>2, <2>3, <2>4, <2>5 DEF TypeInv
  <1>8. BuildInv'
    BY <1>1 DEF BuildInv
  <1>9. PoolInv'
    <2>1. history'.last = StableKeys
      BY <1>1 DEF BarriersInv, TypeInv
    <2>2. \A k \in DOMAIN stableBuffers :
            /\ stableBuffers[k].buffer = <<"stable", k, stableBuffers[k].creationTime>>
            /\ stableBuffers[k].creationTime <= stableBuffers[k].lastUsedTime
            /\ stableBuffers[k].lastUsedTime = m_frame
      BY <1>1, <1>2 DEF Built, PoolInv
    <2>. QED BY <1>1, <1>3, <1>4, <2>1, <2>2 DEF PoolInv
  <1>10. DeviceInv'
    <2>1. ASSUME NEW b \in DOMAIN device'.log
          PROVE  b[1] = "stable" /\ b[3] \in Nat /\ b[3] <= m_frame
      <3>1. PICK k \in DOMAIN stableBuffers : b = stableBuffers[k].buffer
        BY <1>1
      <3>2. /\ b = <<"stable", k, stableBuffers[k].creationTime>>
            /\ stableBuffers[k].creationTime <= m_frame
        BY <1>1, <1>2, <3>1 DEF Built, PoolInv
      <3>3. stableBuffers[k].creationTime \in Nat
        BY <1>4 DEF Stored
      <3>. QED BY <3>2, <3>3
    <2>2. \A k \in DOMAIN stableBuffers' :
            Covered(LogOf(device', stableBuffers'[k].buffer), stableBuffers'[k].previousStages,
                    stableBuffers'[k].previousAccess)
      BY <1>3, <1>4, <1>5
    <2>. QED BY <1>1, <1>6, <2>1, <2>2 DEF DeviceInv
  <1>. QED BY <1>7, <1>8, <1>9, <1>10 DEF BarriersInv

-----------------------------------------------------------------------------
(* The specification *)

LEMMA Initial ==
  ASSUME Init
  PROVE  BarriersInv
  <1>1. TypeInv
    BY DEF Init, TypeInv
  <1>2. BuildInv /\ PoolInv /\ DeviceInv
    BY DEF Init, BuildInv, PoolInv, DeviceInv
  <1>. QED BY <1>1, <1>2 DEF BarriersInv

LEMMA Stutter ==
  ASSUME BarriersInv, UNCHANGED vars
  PROVE  BarriersInv'
  <1>1. TypeInv'
    BY DEF BarriersInv, TypeInv, vars
  <1>2. BuildInv'
    BY DEF BarriersInv, BuildInv, vars, ResourceOf, is_stable
  <1>3. PoolInv'
    BY DEF BarriersInv, PoolInv, vars, StableKeys, Key, is_stable
  <1>4. DeviceInv'
    BY DEF BarriersInv, DeviceInv, vars, LogOf, Covered
  <1>. QED BY <1>1, <1>2, <1>3, <1>4 DEF BarriersInv

LEMMA Step ==
  ASSUME BarriersInv, [Next]_vars
  PROVE  BarriersInv'
  <1>1. CASE begin_build
    BY <1>1, BeginBuild
  <1>2. ASSUME NEW kind \in PassKind, begin_pass(kind)
        PROVE  BarriersInv'
    BY <1>2, BeginPass
  <1>3. ASSUME NEW pin \in Pin, NEW access \in BufferAccess, NEW upload \in BOOLEAN,
               create(pin, access, upload)
        PROVE  BarriersInv'
    BY <1>3, Create
  <1>4. ASSUME NEW pin \in Pin, NEW access \in BufferAccess, acquire(pin, access)
        PROVE  BarriersInv'
    BY <1>4, Acquire
  <1>5. ASSUME NEW source \in Pin, NEW destination \in Pin, reroute(source, destination)
        PROVE  BarriersInv'
    BY <1>5, Reroute
  <1>6. CASE end_build
    BY <1>6, EndBuild
  <1>7. CASE execute
    BY <1>7, Execute
  <1>8. CASE UNCHANGED vars
    BY <1>8, Stutter
  <1>. QED BY <1>1, <1>2, <1>3, <1>4, <1>5, <1>6, <1>7, <1>8 DEF Next

LEMMA Keeps ==
  ASSUME BarriersInv
  PROVE  StableKept
  <1>1. SUFFICES ASSUME phase = "built"
                 PROVE  StableKept
    BY DEF StableKept
  <1>2. Built
    BY <1>1 DEF BarriersInv, Built
  <1>3. ASSUME NEW i \in DOMAIN resources, is_stable(resources[i])
        PROVE  resources[i].framesAlive # 0 <=> Key(resources[i]) \in history.last
    <2> DEFINE k == Key(resources[i])
    <2>1. k \in DOMAIN stableBuffers /\ stableBuffers[k] \in Stored /\ m_frame \in Nat
      BY <1>2, <1>3, StableEntry DEF Built, TypeInv
    <2>2. /\ stableBuffers[k].creationTime = m_frame <=> k \notin history.last
          /\ resources[i].framesAlive = m_frame - stableBuffers[k].creationTime
      BY <1>2, <1>3, <2>1 DEF Built, PoolInv
    <2>3. stableBuffers[k].creationTime \in Nat
      BY <2>1 DEF Stored
    <2>. HIDE DEF k
    <2>4. resources[i].framesAlive # 0 <=> k \in history.last
      BY <2>1, <2>2, <2>3
    <2>. QED BY <2>4 DEF k
  <1>4. \A i, j \in DOMAIN resources : resources[i].buffer = resources[j].buffer => i = j
    BY <1>2, BuffersApart
  <1>5. DOMAIN stableBuffers = StableKeys
    BY <1>2 DEF Built, PoolInv
  <1>. QED BY <1>3, <1>4, <1>5 DEF StableKept

\* What BarriersInv says of the frame that is built, of the pool of stable buffers and
\* of the accesses yet to wait for is so in every state: for any pins, shader stages,
\* passes, usages and number of frames (frame_graph.cpp:48, resource_pool.cpp:488).
THEOREM BarriersHold == Spec => []BarriersInv
  <1>1. Init => BarriersInv
    BY Initial
  <1>2. BarriersInv /\ [Next]_vars => BarriersInv'
    BY Step
  <1>. QED BY <1>1, <1>2, PTL DEF Spec

\* A write waits for the accesses before it, and each access sees the writes before it:
\* no command of any frame has a hazard with an earlier one (frame_graph.cpp:48).
THEOREM NoHazard == Spec => []Synchronized
  <1>1. BarriersInv => Synchronized
    BY DEF BarriersInv, DeviceInv, Synchronized
  <1>. QED BY <1>1, BarriersHold, PTL

\* A stable buffer is new in a frame exactly when the last one did not have the buffer
\* of that pin for the same usages, and no other resource has it (resource_pool.cpp:488).
THEOREM StableBuffersKept == Spec => []StableKept
  <1>1. BarriersInv => StableKept
    BY Keeps
  <1>. QED BY <1>1, BarriersHold, PTL
=============================================================================
