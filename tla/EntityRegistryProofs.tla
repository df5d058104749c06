------------------------ MODULE EntityRegistryProofs ------------------------
(* The invariants of EntityRegistry, and that it implements EntityStore when no *)
(* overread matches, for any instance.  First what the operations do to a       *)
(* registry that is as IInv says, each by a predicate (Creates, Destroys,       *)
(* Moves...) over the registry before and after it, for the chunks of an        *)
(* archetype and then for a registry; then the pool; then IInv, with one step   *)
(* per action.                                                                  *)
EXTENDS EntityRegistryInv, FiniteSetTheorems, TLAPS

-----------------------------------------------------------------------------
(* Chunks *)

LEMMA ChunkBounds ==
  ASSUME NEW i \in Nat, NEW k \in Nat
  PROVE  /\ ChunkOf(i) = k <=> (k - 1) * ChunkCapacity <= i /\ i < k * ChunkCapacity
         /\ ChunkOf(i) \in Nat \ {0}
  BY ArchetypesAssumption DEF ChunkOf

LEMMA ChunkInRange ==
  ASSUME NEW n \in Nat, NEW i \in Nat, i < n * ChunkCapacity
  PROVE  ChunkOf(i) \in 1..n
  BY ArchetypesAssumption DEF ChunkOf

LEMMA ChunkCovers ==
  ASSUME NEW i \in Nat, NEW n \in Nat, n >= ChunkOf(i)
  PROVE  i < n * ChunkCapacity
  BY ArchetypesAssumption DEF ChunkOf

LEMMA ChunkMonotonic ==
  ASSUME NEW i \in Nat, NEW j \in Nat, i <= j
  PROVE  ChunkOf(i) <= ChunkOf(j)
  BY ArchetypesAssumption DEF ChunkOf

LEMMA ChunksForBounds ==
  ASSUME NEW n \in Nat
  PROVE  /\ ChunksFor(n) \in Nat
         /\ n <= ChunksFor(n) * ChunkCapacity
         /\ \A i \in 0..(n - 1) : ChunkOf(i) \in 1..ChunksFor(n)
  <1>1. ChunksFor(n) \in Nat /\ n <= ChunksFor(n) * ChunkCapacity
    BY ArchetypesAssumption DEF ChunksFor
  <1>2. ASSUME NEW i \in 0..(n - 1)
        PROVE  ChunkOf(i) \in 1..ChunksFor(n)
    <2>1. i \in Nat /\ i < ChunksFor(n) * ChunkCapacity
      BY <1>1, ArchetypesAssumption
    <2>. QED BY <1>1, <2>1, ChunkInRange
  <1>. QED BY <1>1, <1>2

LEMMA SlotsMonotonic ==
  ASSUME NEW m \in Nat, NEW n \in Nat, m <= n
  PROVE  m * ChunkCapacity \in Nat /\ m * ChunkCapacity <= n * ChunkCapacity
  BY ArchetypesAssumption

LEMMA InChunkFinite ==
  ASSUME NEW n \in Nat, NEW k
  PROVE  IsFiniteSet(InChunk(n, k)) /\ Cardinality(InChunk(n, k)) \in Nat
  <1>1. IsFiniteSet(0..(n - 1))
    BY FS_Interval
  <1>2. InChunk(n, k) \subseteq 0..(n - 1)
    BY DEF InChunk
  <1>. QED BY <1>1, <1>2, FS_Subset, FS_CardinalityType

(* The slots that are filled from `first` on, in chunk k.                       *)
Filled(first, end, k) == {i \in first..(end - 1) : ChunkOf(i) = k}

LEMMA InChunkGrows ==
  ASSUME NEW first \in Nat, NEW end \in Nat, first <= end, NEW k
  PROVE  /\ Cardinality(Filled(first, end, k)) \in Nat
         /\ Cardinality(InChunk(end, k)) =
              Cardinality(InChunk(first, k)) + Cardinality(Filled(first, end, k))
  <1>1. IsFiniteSet(Filled(first, end, k))
    <2>1. IsFiniteSet(first..(end - 1)) /\ Filled(first, end, k) \subseteq first..(end - 1)
      BY FS_Interval DEF Filled
    <2>. QED BY <2>1, FS_Subset
  <1>2. InChunk(end, k) = InChunk(first, k) \cup Filled(first, end, k)
    BY DEF InChunk, Filled
  <1>3. InChunk(first, k) \cap Filled(first, end, k) = {}
    BY DEF InChunk, Filled
  <1>4. /\ IsFiniteSet(InChunk(first, k))
        /\ Cardinality(InChunk(first, k)) \in Nat
        /\ Cardinality(Filled(first, end, k)) \in Nat
    BY <1>1, InChunkFinite, FS_CardinalityType
  <1>5. Cardinality({}) = 0
    BY FS_EmptySet
  <1>6. Cardinality(InChunk(first, k) \cup Filled(first, end, k)) =
          Cardinality(InChunk(first, k)) + Cardinality(Filled(first, end, k))
            - Cardinality(InChunk(first, k) \cap Filled(first, end, k))
    BY <1>1, <1>4, FS_Union
  <1>7. Cardinality(InChunk(end, k)) =
          Cardinality(InChunk(first, k)) + Cardinality(Filled(first, end, k)) - Cardinality({})
    BY <1>2, <1>3, <1>6, Zenon
  <1>. QED BY <1>4, <1>5, <1>7

LEMMA FilledOne ==
  ASSUME NEW i \in Nat, NEW k
  PROVE  Cardinality(Filled(i, i + 1, k)) = IF ChunkOf(i) = k THEN 1 ELSE 0
  <1>1. CASE ChunkOf(i) = k
    <2>1. Filled(i, i + 1, k) = {i}
      BY <1>1 DEF Filled
    <2>. QED BY <1>1, <2>1, FS_Singleton
  <1>2. CASE ChunkOf(i) # k
    <2>1. Filled(i, i + 1, k) = {}
      BY <1>2 DEF Filled
    <2>. QED BY <1>2, <2>1, FS_EmptySet
  <1>. QED BY <1>1, <1>2

LEMMA FilledNone ==
  ASSUME NEW first \in Nat, NEW end \in Nat, first < end, NEW k,
         k \notin ChunkOf(first)..ChunkOf(end - 1), k \in Nat
  PROVE  Cardinality(Filled(first, end, k)) = 0
  <1>1. Filled(first, end, k) = {}
    <2>1. ASSUME NEW i \in first..(end - 1)
          PROVE  ChunkOf(i) # k
      <3>1. i \in Nat /\ end - 1 \in Nat /\ first <= i /\ i <= end - 1
        OBVIOUS
      <3>2. ChunkOf(first) <= ChunkOf(i) /\ ChunkOf(i) <= ChunkOf(end - 1)
        BY <3>1, ChunkMonotonic
      <3>3. ChunkOf(first) \in Nat /\ ChunkOf(i) \in Nat /\ ChunkOf(end - 1) \in Nat
        BY <3>1, ChunkBounds
      <3>. QED BY <3>2, <3>3
    <2>. QED BY <2>1 DEF Filled
  <1>. QED BY <1>1, FS_EmptySet

(* What destroy_slots takes for the slots in use are those of entities.         *)
LEMMA InUse ==
  ASSUME NEW n \in Nat, NEW i \in Nat
  PROVE  /\ i % ChunkCapacity < Cardinality(InChunk(n, ChunkOf(i))) <=> i < n
         /\ i < n => ChunkOf(i) \in 1..ChunksFor(n)
  <1> DEFINE k == ChunkOf(i)
             low == (k - 1) * ChunkCapacity
             high == IF n < k * ChunkCapacity THEN n ELSE k * ChunkCapacity
  <1>1. k \in Nat \ {0} /\ low <= i /\ i < k * ChunkCapacity /\ low \in Nat
    BY ChunkBounds, ArchetypesAssumption DEF ChunkOf
  <1>2. i % ChunkCapacity = i - low
    BY ArchetypesAssumption DEF ChunkOf
  <1>3. k * ChunkCapacity = low + ChunkCapacity
    BY <1>1, ArchetypesAssumption
  <1>4. InChunk(n, k) = low..(high - 1)
    <2>1. ASSUME NEW j \in Nat
          PROVE  ChunkOf(j) = k <=> low <= j /\ j < k * ChunkCapacity
      BY <1>1, ChunkBounds
    <2>. HIDE DEF k, low
    <2>2. k * ChunkCapacity \in Nat
      BY <1>1, <1>3, ArchetypesAssumption
    <2>. QED BY <2>1, <2>2, <1>1 DEF InChunk
  <1>5. Cardinality(low..(high - 1)) = IF low > high - 1 THEN 0 ELSE high - 1 - low + 1
    <2>. HIDE DEF k, low
    <2>1. low \in Int /\ high - 1 \in Int
      BY <1>1, <1>3, ArchetypesAssumption
    <2>. HIDE DEF high
    <2>. QED BY <2>1, FS_Interval
  <1>6. i % ChunkCapacity < Cardinality(InChunk(n, k)) <=> i < n
    <2>. HIDE DEF k, low
    <2>. QED BY <1>1, <1>2, <1>3, <1>4, <1>5, ArchetypesAssumption
  <1>7. i < n => k \in 1..ChunksFor(n)
    BY ChunksForBounds
  <1>. QED BY <1>6, <1>7

-----------------------------------------------------------------------------
(* Archetypes *)

LEMMA NewArchetype ==
  ASSUME NEW types, NEW m \in Nat
  PROVE  /\ ArchetypeOK(types, create_archetype_impl, m)
         /\ create_archetype_impl.numCurrentEntities = 0
  <1> DEFINE a == create_archetype_impl
  <1>1. /\ DOMAIN a = {"numCurrentEntities", "modificationId", "chunks", "slots"}
        /\ a.chunks = << >> /\ a.numCurrentEntities = 0 /\ a.modificationId = 0
        /\ DOMAIN a.slots = {}
    BY DEF create_archetype_impl
  <1>2. Len(a.chunks) = 0 /\ DOMAIN a.chunks = {}
        /\ a.chunks \in Seq([numEntities : Nat, modificationId : 0..m])
    BY <1>1
  <1>3. 0 * ChunkCapacity = 0
    BY ArchetypesAssumption
  <1>. HIDE DEF a
  <1>. QED BY <1>1, <1>2, <1>3 DEF ArchetypeOK, ArchetypeBut, a

(* b is a with memory for n chunks or more.                                     *)
Reserves(a, b, n) ==
  /\ b.numCurrentEntities = a.numCurrentEntities
  /\ b.modificationId = a.modificationId
  /\ Len(b.chunks) >= n
  /\ Len(b.chunks) >= Len(a.chunks)
  /\ \A i \in DOMAIN a.slots : i \in DOMAIN b.slots /\ b.slots[i] = a.slots[i]
  /\ \A k \in DOMAIN a.chunks : k \in DOMAIN b.chunks /\ b.chunks[k] = a.chunks[k]

LEMMA ReservedChunks ==
  ASSUME NEW types, NEW m \in Nat, NEW a, ArchetypeOK(types, a, m), NEW n \in Nat
  PROVE  /\ ArchetypeOK(types, reserve_chunks(a, types, n), m)
         /\ Reserves(a, reserve_chunks(a, types, n), n)
  <1> DEFINE b == reserve_chunks(a, types, n)
             Chunk == [numEntities : Nat, modificationId : 0..m]
             num == a.numCurrentEntities
             C == ChunkCapacity
  <1>1. CASE n <= Len(a.chunks)
    <2>1. b = a
      BY <1>1 DEF reserve_chunks
    <2>2. Len(a.chunks) \in Nat
      BY DEF ArchetypeOK, ArchetypeBut
    <2>. HIDE DEF b
    <2>. QED BY <1>1, <2>1, <2>2 DEF b, Reserves
  <1>2. CASE ~ (n <= Len(a.chunks))
    <2>1. /\ DOMAIN a = {"numCurrentEntities", "modificationId", "chunks", "slots"}
          /\ a.chunks \in Seq(Chunk) /\ Len(a.chunks) \in Nat /\ DOMAIN a.chunks = 1..Len(a.chunks)
          /\ num \in 0..(Len(a.chunks) * C)
          /\ DOMAIN a.slots = 0..(Len(a.chunks) * C - 1)
      BY DEF ArchetypeOK, ArchetypeBut
    <2>2. /\ DOMAIN b = {"numCurrentEntities", "modificationId", "chunks", "slots"}
          /\ b.numCurrentEntities = num
          /\ b.modificationId = a.modificationId
          /\ b.chunks = [k \in 1..n |-> IF k <= Len(a.chunks) THEN a.chunks[k]
                                       ELSE [numEntities |-> 0, modificationId |-> 0]]
          /\ b.slots = [i \in 0..(n * C - 1) |->
                          IF i \in DOMAIN a.slots THEN a.slots[i] ELSE EmptySlot(types)]
      BY <1>2, <2>1 DEF reserve_chunks
    <2>. HIDE DEF b
    <2>3. b.chunks \in Seq(Chunk) /\ Len(b.chunks) = n /\ DOMAIN b.chunks = 1..n
      <3>1. ASSUME NEW k \in 1..n
            PROVE  b.chunks[k] \in Chunk
        <4>1. CASE k <= Len(a.chunks)
          <5>. HIDE DEF Chunk
          <5>1. a.chunks[k] \in Chunk
            BY <2>1, <4>1
          <5>. QED BY <2>2, <4>1, <5>1
        <4>2. CASE ~ (k <= Len(a.chunks))
          BY <2>2, <4>2
        <4>. QED BY <4>1, <4>2
      <3>2. b.chunks = [k \in 1..n |-> b.chunks[k]]
        BY <2>2
      <3>. HIDE DEF Chunk
      <3>3. b.chunks \in [1..n -> Chunk]
        BY <3>1, <3>2
      <3>. QED BY <3>3
    <2>4. Len(a.chunks) * C \in Nat /\ Len(a.chunks) * C <= n * C /\ n * C \in Nat
      BY <1>2, <2>1, SlotsMonotonic
    <2>5. num \in 0..(n * C)
      BY <2>1, <2>4
    <2>6. ASSUME NEW i \in DOMAIN b.slots
          PROVE  /\ DOMAIN b.slots[i] = {"id", "data"}
                 /\ b.slots[i].data \in [Components(types) -> IF i >= num THEN FreeObject
                                         ELSE IF i = NoHole THEN LiveObject \cup {Moved} ELSE LiveObject]
      <3>1. CASE i \in DOMAIN a.slots
        BY <2>2, <2>6, <3>1 DEF ArchetypeOK, ArchetypeBut
      <3>2. CASE i \notin DOMAIN a.slots
        <4>1. i >= num /\ b.slots[i] = EmptySlot(types)
          BY <2>1, <2>2, <2>4, <2>6, <3>2
        <4>. QED BY <4>1 DEF EmptySlot, FreeObject
      <3>. QED BY <3>1, <3>2
    <2>7. ASSUME NEW k \in DOMAIN b.chunks
          PROVE  b.chunks[k].numEntities = Cardinality(InChunk(num, k))
      <3>1. CASE k \in DOMAIN a.chunks
        BY <2>1, <2>2, <2>3, <2>7, <3>1 DEF ArchetypeOK, ArchetypeBut
      <3>2. CASE k \notin DOMAIN a.chunks
        <4>1. k \in Nat /\ k > Len(a.chunks) /\ b.chunks[k].numEntities = 0
          BY <2>1, <2>2, <2>3, <2>7, <3>2
        <4>2. ASSUME NEW i \in 0..(num - 1)
              PROVE  ChunkOf(i) # k
          <5>1. i \in Nat /\ i < Len(a.chunks) * C
            BY <2>1, <2>4
          <5>2. ChunkOf(i) \in 1..Len(a.chunks)
            BY <2>1, <5>1, ChunkInRange
          <5>. QED BY <2>1, <4>1, <5>2
        <4>3. InChunk(num, k) = {}
          BY <4>2 DEF InChunk
        <4>. QED BY <4>1, <4>3, FS_EmptySet
      <3>. QED BY <3>1, <3>2
    <2>8. ArchetypeOK(types, b, m)
      <3>1. a.modificationId \in 0..m
        BY DEF ArchetypeOK, ArchetypeBut
      <3>2. DOMAIN b.slots = 0..(n * C - 1)
        BY <2>2
      <3>. QED BY <2>2, <2>3, <2>5, <2>6, <2>7, <3>1, <3>2 DEF ArchetypeOK, ArchetypeBut
    <2>9. \A i \in DOMAIN a.slots : i \in DOMAIN b.slots /\ b.slots[i] = a.slots[i]
      BY <2>1, <2>2, <2>4
    <2>10. \A k \in DOMAIN a.chunks : k \in DOMAIN b.chunks /\ b.chunks[k] = a.chunks[k]
      BY <1>2, <2>1, <2>2, <2>3
    <2>11. Len(b.chunks) >= n /\ Len(b.chunks) >= Len(a.chunks)
      <3>. HIDE DEF Chunk
      <3>. QED BY <1>2, <2>1, <2>3
    <2>12. b.numCurrentEntities = a.numCurrentEntities /\ b.modificationId = a.modificationId
      BY <2>2
    <2>13. Reserves(a, b, n)
      <3>. HIDE DEF Chunk, num
      <3>. QED BY <2>9, <2>10, <2>11, <2>12 DEF Reserves
    <2>. QED BY <2>8, <2>13 DEF b
  <1>. QED BY <1>1, <1>2

LEMMA CreatedObject ==
  ASSUME NEW x \in FreeObject
  PROVE  do_create(x) \in LiveObject /\ (~OverreadMatches => do_create(x) = Default)
  BY ArchetypesAssumption DEF do_create, FreeObject, LiveObject, Spoiled, Raw, Corrupt

(* b is a with the entities `ids` behind its own.                               *)
Emplaces(types, a, b, ids, m) ==
  LET num == a.numCurrentEntities
  IN  /\ b.numCurrentEntities = num + Len(ids)
      /\ b.modificationId = m
      /\ \A i \in 0..(num - 1) : b.slots[i] = a.slots[i]
      /\ \A j \in 1..Len(ids) :
           /\ b.slots[num + j - 1].id = ids[j]
           /\ ~OverreadMatches =>
                b.slots[num + j - 1].data = [c \in Components(types) |-> Default]
      /\ \A k \in DOMAIN a.chunks :
           k \in DOMAIN b.chunks /\ b.chunks[k].modificationId >= a.chunks[k].modificationId

LEMMA Emplaced ==
  ASSUME NEW types, NEW m \in Nat, NEW a, ArchetypeOK(types, a, m),
         NEW ids \in Seq(AnyHandle), ids # << >>
  PROVE  /\ ArchetypeOK(types, emplace_entities(a, types, ids, m), m)
         /\ Emplaces(types, a, emplace_entities(a, types, ids, m), ids, m)
  <1> DEFINE num == a.numCurrentEntities
             end == num + Len(ids)
             C == ChunkCapacity
             Chunk == [numEntities : Nat, modificationId : 0..m]
             n == ChunksFor(end)
             b0 == reserve_chunks(a, types, n)
             b == emplace_entities(a, types, ids, m)
             InRange(k) == k \in ChunkOf(num)..ChunkOf(end - 1)
  <1>1. num \in Nat /\ Len(ids) \in Nat \ {0} /\ end \in Nat /\ num < end
    <2>1. num \in Nat /\ Len(a.chunks) \in Nat
      BY ArchetypesAssumption DEF ArchetypeOK, ArchetypeBut
    <2>2. Len(ids) \in Nat \ {0}
      OBVIOUS
    <2>. QED BY <2>1, <2>2
  <1>2. ChunksFor(end) \in Nat /\ end <= ChunksFor(end) * C
    BY <1>1, ChunksForBounds
  <1>3. /\ ArchetypeOK(types, b0, m)
        /\ b0.numCurrentEntities = num
        /\ Len(b0.chunks) >= n
        /\ \A i \in DOMAIN a.slots : i \in DOMAIN b0.slots /\ b0.slots[i] = a.slots[i]
        /\ \A k \in DOMAIN a.chunks : k \in DOMAIN b0.chunks /\ b0.chunks[k] = a.chunks[k]
    <2>1. ArchetypeOK(types, b0, m) /\ Reserves(a, b0, n)
      BY <1>2, ReservedChunks
    <2>. HIDE DEF b0, n
    <2>. QED BY <2>1 DEF Reserves
  <1>4. /\ DOMAIN b0 = {"numCurrentEntities", "modificationId", "chunks", "slots"}
        /\ b0.chunks \in Seq(Chunk) /\ Len(b0.chunks) \in Nat /\ DOMAIN b0.chunks = 1..Len(b0.chunks)
        /\ DOMAIN b0.slots = 0..(Len(b0.chunks) * C - 1)
    BY <1>3 DEF ArchetypeOK, ArchetypeBut
  <1>5. end <= Len(b0.chunks) * C /\ Len(b0.chunks) * C \in Nat
    <2>1. n \in Nat /\ Len(b0.chunks) \in Nat /\ n <= Len(b0.chunks)
      BY <1>2, <1>3, <1>4
    <2>2. end \in Nat /\ end <= n * C
      BY <1>1, <1>2
    <2>. HIDE DEF b0, end, n
    <2>3. n * C \in Nat /\ Len(b0.chunks) * C \in Nat /\ n * C <= Len(b0.chunks) * C
      BY <2>1, SlotsMonotonic
    <2>. HIDE DEF C
    <2>. QED BY <2>2, <2>3
  <1>. HIDE DEF b0
  <1>6. /\ DOMAIN b = {"numCurrentEntities", "modificationId", "chunks", "slots"}
        /\ b.numCurrentEntities = end
        /\ b.modificationId = m
        /\ b.slots = [i \in DOMAIN b0.slots |->
             IF i \in num..(end - 1)
             THEN [id |-> ids[i - num + 1],
                   data |-> [c \in Components(types) |-> do_create(b0.slots[i].data[c])]]
             ELSE b0.slots[i]]
        /\ b.chunks = [k \in DOMAIN b0.chunks |->
             IF InRange(k)
             THEN [numEntities |-> b0.chunks[k].numEntities + Cardinality(Filled(num, end, k)),
                   modificationId |-> m]
             ELSE b0.chunks[k]]
    BY <1>4 DEF emplace_entities, b0, Filled
  <1>. HIDE DEF b
  <1>7. ASSUME NEW k \in DOMAIN b0.chunks
        PROVE  /\ b.chunks[k] \in Chunk
               /\ b.chunks[k].modificationId >= b0.chunks[k].modificationId
               /\ b.chunks[k].numEntities = Cardinality(InChunk(end, k))
    <2>1. /\ Cardinality(Filled(num, end, k)) \in Nat
          /\ Cardinality(InChunk(end, k)) =
               Cardinality(InChunk(num, k)) + Cardinality(Filled(num, end, k))
      BY <1>1, InChunkGrows
    <2>2. b0.chunks[k] \in Chunk /\ k \in Nat
      <3>. HIDE DEF Chunk
      <3>. QED BY <1>4
    <2>3. b0.chunks[k].numEntities = Cardinality(InChunk(num, k))
      BY <1>3 DEF ArchetypeOK, ArchetypeBut
    <2>4. CASE InRange(k)
      BY <1>6, <2>1, <2>2, <2>3, <2>4
    <2>5. CASE ~InRange(k)
      <3>1. Cardinality(Filled(num, end, k)) = 0
        BY <1>1, <2>2, <2>5, FilledNone
      <3>. QED BY <1>6, <2>1, <2>2, <2>3, <2>5, <3>1
    <2>. QED BY <2>4, <2>5
  <1>8. b.chunks \in Seq(Chunk) /\ Len(b.chunks) = Len(b0.chunks) /\ DOMAIN b.chunks = DOMAIN b0.chunks
    <2>1. DOMAIN b.chunks = 1..Len(b0.chunks) /\ b.chunks = [k \in 1..Len(b0.chunks) |-> b.chunks[k]]
      BY <1>4, <1>6
    <2>. HIDE DEF Chunk
    <2>2. b.chunks \in [1..Len(b0.chunks) -> Chunk]
      BY <1>4, <1>7, <2>1
    <2>. QED BY <1>4, <2>1, <2>2
  <1>9. ASSUME NEW i \in DOMAIN b0.slots
        PROVE  /\ DOMAIN b.slots[i] = {"id", "data"}
               /\ b.slots[i].data \in [Components(types) -> IF i >= end THEN FreeObject
                                       ELSE IF i = NoHole THEN LiveObject \cup {Moved} ELSE LiveObject]
    <2>1. /\ DOMAIN b0.slots[i] = {"id", "data"}
          /\ i \in Nat
          /\ b0.slots[i].data \in [Components(types) -> IF i >= num THEN FreeObject ELSE LiveObject]
      BY <1>3, <1>4 DEF ArchetypeOK, ArchetypeBut, NoHole
    <2>2. CASE i \in num..(end - 1)
      <3>1. /\ DOMAIN b.slots[i] = {"id", "data"}
            /\ b.slots[i].data = [c \in Components(types) |-> do_create(b0.slots[i].data[c])]
        BY <1>6, <2>2
      <3>2. ASSUME NEW c \in Components(types)
            PROVE  do_create(b0.slots[i].data[c]) \in LiveObject
        <4>1. b0.slots[i].data[c] \in FreeObject
          BY <1>1, <2>1, <2>2
        <4>. QED BY <4>1, CreatedObject
      <3>3. i # NoHole /\ ~ (i >= end)
        BY <1>1, <2>1, <2>2 DEF NoHole
      <3>. QED BY <3>1, <3>2, <3>3
    <2>3. CASE i \notin num..(end - 1)
      <3>1. b.slots[i] = b0.slots[i] /\ i # NoHole /\ (i >= end <=> i >= num)
        BY <1>1, <1>6, <2>1, <2>3 DEF NoHole
      <3>. QED BY <2>1, <3>1
    <2>. QED BY <2>2, <2>3
  <1>10. ArchetypeOK(types, b, m)
    <2>1. DOMAIN b.slots = 0..(Len(b.chunks) * C - 1) /\ DOMAIN b.slots = DOMAIN b0.slots
      BY <1>4, <1>6, <1>8
    <2>2. end \in 0..(Len(b.chunks) * C) /\ m \in 0..m
      BY <1>1, <1>5, <1>8
    <2>3. \A i \in DOMAIN b.slots :
            /\ DOMAIN b.slots[i] = {"id", "data"}
            /\ b.slots[i].data \in
                 [Components(types) -> IF i >= b.numCurrentEntities THEN FreeObject
                                       ELSE IF i = NoHole THEN LiveObject \cup {Moved} ELSE LiveObject]
      BY <1>6, <1>9, <2>1
    <2>4. \A k \in DOMAIN b.chunks :
            b.chunks[k].numEntities = Cardinality(InChunk(b.numCurrentEntities, k))
      BY <1>6, <1>7, <1>8
    <2>5. b.modificationId \in 0..m /\ b.numCurrentEntities \in 0..(Len(b.chunks) * C)
      BY <1>6, <2>2
    <2>. HIDE DEF InRange, end, num
    <2>. QED BY <1>6, <1>8, <2>1, <2>3, <2>4, <2>5 DEF ArchetypeOK, ArchetypeBut
  <1>11. ASSUME NEW i \in 0..(num - 1)
         PROVE  b.slots[i] = a.slots[i]
    <2>1. i \in DOMAIN a.slots
      <3>1. /\ Len(a.chunks) \in Nat /\ num \in 0..(Len(a.chunks) * C)
            /\ DOMAIN a.slots = 0..(Len(a.chunks) * C - 1)
        BY DEF ArchetypeOK, ArchetypeBut
      <3>2. Len(a.chunks) * C \in Nat
        BY <3>1, ArchetypesAssumption
      <3>. QED BY <1>1, <3>1, <3>2
    <2>. QED BY <1>1, <1>3, <1>6, <2>1
  <1>12. ASSUME NEW j \in 1..Len(ids)
         PROVE  /\ b.slots[num + j - 1].id = ids[j]
                /\ ~OverreadMatches =>
                     b.slots[num + j - 1].data = [c \in Components(types) |-> Default]
    <2> DEFINE i == num + j - 1
    <2>1. i \in DOMAIN b0.slots /\ i \in num..(end - 1) /\ i - num + 1 = j /\ i >= num
      BY <1>1, <1>4, <1>5
    <2>. HIDE DEF i
    <2>2. /\ b.slots[i].id = ids[j]
          /\ b.slots[i].data = [c \in Components(types) |-> do_create(b0.slots[i].data[c])]
      BY <1>6, <2>1
    <2>3. b0.slots[i].data \in [Components(types) -> FreeObject]
      BY <1>3, <2>1 DEF ArchetypeOK, ArchetypeBut
    <2>4. ASSUME NEW c \in Components(types), ~OverreadMatches
          PROVE  do_create(b0.slots[i].data[c]) = Default
      BY <2>3, <2>4, CreatedObject
    <2>. QED BY <2>2, <2>4 DEF i
  <1>13. \A k \in DOMAIN a.chunks :
           k \in DOMAIN b.chunks /\ b.chunks[k].modificationId >= a.chunks[k].modificationId
    BY <1>3, <1>7, <1>8
  <1>14. Emplaces(types, a, b, ids, m)
    BY <1>6, <1>11, <1>12, <1>13 DEF Emplaces
  <1>. QED BY <1>10, <1>14 DEF b

(* b is a without the entity of slot i, whose slot the last entity has taken.   *)
Pops(a, b, i, m) ==
  LET last == a.numCurrentEntities - 1
  IN  /\ b.numCurrentEntities = last
      /\ b.modificationId = m
      /\ \A j \in 0..(last - 1) :
           /\ b.slots[j].id = IF j = i THEN a.slots[last].id ELSE a.slots[j].id
           /\ b.slots[j].data = IF j = i THEN a.slots[last].data ELSE a.slots[j].data
      /\ DOMAIN b.chunks = DOMAIN a.chunks
      /\ \A k \in DOMAIN a.chunks : b.chunks[k].modificationId >= a.chunks[k].modificationId

LEMMA Popped ==
  ASSUME NEW types, NEW m \in Nat, NEW a, NEW i \in 0..(a.numCurrentEntities - 1),
         ArchetypeBut(types, a, m, i)
  PROVE  /\ ArchetypeOK(types, move_last_and_pop(a, i, m), m)
         /\ Pops(a, move_last_and_pop(a, i, m), i, m)
  <1> DEFINE num == a.numCurrentEntities
             last == num - 1
             C == ChunkCapacity
             Chunk == [numEntities : Nat, modificationId : 0..m]
             filled == taken_over(a.slots[i], a.slots[last])
             b == move_last_and_pop(a, i, m)
             h == ChunkOf(last)
  <1>1. /\ DOMAIN a = {"numCurrentEntities", "modificationId", "chunks", "slots"}
        /\ a.chunks \in Seq(Chunk) /\ Len(a.chunks) \in Nat /\ DOMAIN a.chunks = 1..Len(a.chunks)
        /\ DOMAIN a.slots = 0..(Len(a.chunks) * C - 1)
        /\ num \in 0..(Len(a.chunks) * C)
    BY DEF ArchetypeBut
  <1>2. Len(a.chunks) * C \in Nat
    BY <1>1, ArchetypesAssumption
  <1>3. /\ num \in Nat /\ last \in Nat /\ i \in Nat /\ i <= last /\ num = last + 1
        /\ i \in DOMAIN a.slots /\ last \in DOMAIN a.slots
    BY <1>1, <1>2
  <1>4. h \in DOMAIN a.chunks /\ h \in Nat
    <2>1. h \in 1..Len(a.chunks)
      BY <1>1, <1>2, <1>3, ChunkInRange
    <2>. QED BY <1>1, <2>1
  <1>5. /\ DOMAIN b = {"numCurrentEntities", "modificationId", "chunks", "slots"}
        /\ b.numCurrentEntities = last
        /\ b.modificationId = m
        /\ b.slots = IF i = last THEN [a.slots EXCEPT ![i] = gone(a.slots[i])]
                     ELSE [a.slots EXCEPT ![i] = filled, ![last] = gone(a.slots[last])]
        /\ b.chunks = [a.chunks EXCEPT ![h] =
                         [numEntities |-> @.numEntities - 1, modificationId |-> m]]
    <2>1. /\ DOMAIN b = {"numCurrentEntities", "modificationId", "chunks", "slots"}
          /\ b.numCurrentEntities = last
          /\ b.modificationId = m
          /\ b.slots = popped_slots(a.slots, i, last)
          /\ b.chunks = [a.chunks EXCEPT ![h] = popped_chunk(@, m)]
      BY <1>1 DEF move_last_and_pop
    <2>. HIDE DEF b
    <2>. QED BY <2>1 DEF popped_slots, popped_chunk
  <1>. HIDE DEF b
  <1>6. /\ DOMAIN b.slots = DOMAIN a.slots
        /\ \A j \in DOMAIN a.slots :
             b.slots[j] = IF j = last THEN gone(a.slots[j])
                          ELSE IF j = i THEN filled ELSE a.slots[j]
    BY <1>3, <1>5
  <1>7. ASSUME NEW j \in DOMAIN a.slots
        PROVE  /\ DOMAIN a.slots[j] = {"id", "data"}
               /\ j > last => a.slots[j].data \in [Components(types) -> FreeObject]
               /\ j = i => a.slots[j].data \in [Components(types) -> LiveObject \cup {Moved}]
               /\ j <= last /\ j # i => a.slots[j].data \in [Components(types) -> LiveObject]
    BY <1>1, <1>3 DEF ArchetypeBut
  <1>8. gone(a.slots[last]).data \in [Components(types) -> FreeObject]
    <2>1. a.slots[last].data \in [Components(types) -> LiveObject \cup {Moved}]
      BY <1>3, <1>7
    <2>2. ASSUME NEW x \in LiveObject \cup {Moved}
          PROVE  do_destroy(x) \in FreeObject
      BY ArchetypesAssumption DEF LiveObject, FreeObject, Spoiled, do_destroy, Raw, Moved, Corrupt
    <2>. QED BY <2>1, <2>2 DEF gone
  <1>9. i # last => filled.data = a.slots[last].data
    <2>1. SUFFICES ASSUME i # last
                   PROVE  filled.data = a.slots[last].data
      OBVIOUS
    <2>2. /\ a.slots[last].data \in [Components(types) -> LiveObject]
          /\ a.slots[i].data \in [Components(types) -> LiveObject \cup {Moved}]
      BY <1>3, <1>7, <2>1
    <2>3. ASSUME NEW x \in LiveObject \cup {Moved}, NEW y \in LiveObject
          PROVE  do_move_assign(x, y) = y
      BY ArchetypesAssumption DEF LiveObject, Spoiled, do_move_assign, Raw, Moved, Corrupt
    <2>. QED BY <2>2, <2>3 DEF taken_over
  <1>10. ASSUME NEW j \in DOMAIN a.slots
         PROVE  /\ DOMAIN b.slots[j] = {"id", "data"}
                /\ b.slots[j].data \in [Components(types) -> IF j >= last THEN FreeObject
                                        ELSE IF j = NoHole THEN LiveObject \cup {Moved} ELSE LiveObject]
    <2>1. j \in Nat /\ j # NoHole
      BY <1>1, <1>2 DEF NoHole
    <2>2. CASE j = last
      <3>1. b.slots[j] = gone(a.slots[last])
        BY <1>6, <2>2
      <3>2. DOMAIN gone(a.slots[last]) = {"id", "data"}
        BY DEF gone
      <3>. QED BY <1>3, <1>8, <2>1, <2>2, <3>1, <3>2
    <2>3. CASE j = i /\ j # last
      <3>1. b.slots[j] = filled
        BY <1>6, <2>3
      <3>2. filled.data \in [Components(types) -> LiveObject] /\ DOMAIN filled = {"id", "data"}
        BY <1>3, <1>7, <1>9, <2>3 DEF taken_over
      <3>. HIDE DEF filled
      <3>. QED BY <1>3, <2>1, <2>3, <3>1, <3>2
    <2>4. CASE j # i /\ j # last
      <3>1. b.slots[j] = a.slots[j]
        BY <1>6, <2>4
      <3>. QED BY <1>3, <1>7, <2>1, <2>4, <3>1
    <2>. QED BY <2>2, <2>3, <2>4
  <1>11. ASSUME NEW k \in DOMAIN a.chunks
         PROVE  /\ b.chunks[k] \in Chunk
                /\ b.chunks[k].modificationId >= a.chunks[k].modificationId
                /\ b.chunks[k].numEntities = Cardinality(InChunk(last, k))
    <2>1. /\ Cardinality(InChunk(last, k)) \in Nat
          /\ Cardinality(InChunk(num, k)) =
               Cardinality(InChunk(last, k)) + IF h = k THEN 1 ELSE 0
      <3>1. Cardinality(InChunk(last + 1, k)) =
              Cardinality(InChunk(last, k)) + Cardinality(Filled(last, last + 1, k))
        BY <1>3, InChunkGrows
      <3>2. Cardinality(Filled(last, last + 1, k)) = IF h = k THEN 1 ELSE 0
        BY <1>3, FilledOne
      <3>3. Cardinality(InChunk(last, k)) \in Nat
        BY <1>3, InChunkFinite
      <3>. QED BY <1>3, <3>1, <3>2, <3>3
    <2>2. a.chunks[k] \in Chunk
      <3>. HIDE DEF Chunk
      <3>. QED BY <1>1
    <2>3. a.chunks[k].numEntities = Cardinality(InChunk(num, k))
      BY DEF ArchetypeBut
    <2>4. b.chunks[k] = IF k = h THEN [numEntities |-> a.chunks[k].numEntities - 1, modificationId |-> m]
                        ELSE a.chunks[k]
      BY <1>5
    <2>. HIDE DEF num, last, h
    <2>5. CASE k = h
      BY <2>1, <2>2, <2>3, <2>4, <2>5
    <2>6. CASE k # h
      BY <2>1, <2>2, <2>3, <2>4, <2>6
    <2>. QED BY <2>5, <2>6
  <1>12. b.chunks \in Seq(Chunk) /\ Len(b.chunks) = Len(a.chunks) /\ DOMAIN b.chunks = DOMAIN a.chunks
    <2>1. DOMAIN b.chunks = 1..Len(a.chunks) /\ b.chunks = [k \in 1..Len(a.chunks) |-> b.chunks[k]]
      BY <1>1, <1>5
    <2>. HIDE DEF Chunk
    <2>2. b.chunks \in [1..Len(a.chunks) -> Chunk]
      BY <1>1, <1>11, <2>1
    <2>. QED BY <1>1, <2>1, <2>2
  <1>13. ArchetypeOK(types, b, m)
    <2>1. DOMAIN b.slots = 0..(Len(b.chunks) * C - 1)
      BY <1>1, <1>6, <1>12
    <2>2. b.numCurrentEntities \in 0..(Len(b.chunks) * C) /\ b.modificationId \in 0..m
      BY <1>1, <1>2, <1>3, <1>5, <1>12
    <2>3. \A j \in DOMAIN b.slots :
            /\ DOMAIN b.slots[j] = {"id", "data"}
            /\ b.slots[j].data \in
                 [Components(types) -> IF j >= b.numCurrentEntities THEN FreeObject
                                       ELSE IF j = NoHole THEN LiveObject \cup {Moved} ELSE LiveObject]
      BY <1>5, <1>6, <1>10
    <2>4. \A k \in DOMAIN b.chunks :
            b.chunks[k].numEntities = Cardinality(InChunk(b.numCurrentEntities, k))
      BY <1>5, <1>11, <1>12
    <2>. HIDE DEF num, last
    <2>. QED BY <1>5, <1>12, <2>1, <2>2, <2>3, <2>4 DEF ArchetypeOK, ArchetypeBut
  <1>14. Pops(a, b, i, m)
    <2>1. ASSUME NEW j \in 0..(last - 1)
          PROVE  /\ b.slots[j].id = IF j = i THEN a.slots[last].id ELSE a.slots[j].id
                 /\ b.slots[j].data = IF j = i THEN a.slots[last].data ELSE a.slots[j].data
      <3>1. j \in DOMAIN a.slots /\ j # last
        BY <1>1, <1>2, <1>3
      <3>2. CASE j = i
        <4>1. b.slots[j] = filled /\ i # last
          BY <1>6, <3>1, <3>2
        <4>2. filled.id = a.slots[last].id /\ filled.data = a.slots[last].data
          BY <1>9, <4>1 DEF taken_over
        <4>. HIDE DEF filled
        <4>. QED BY <3>2, <4>1, <4>2
      <3>3. CASE j # i
        BY <1>6, <3>1, <3>3
      <3>. QED BY <3>2, <3>3
    <2>. QED BY <1>5, <1>11, <1>12, <2>1 DEF Pops
  <1>. QED BY <1>13, <1>14 DEF b

(* b keeps the entities of a and their notifications.                           *)
Extends(a, b) ==
  /\ b.numCurrentEntities >= a.numCurrentEntities
  /\ \A i \in 0..(a.numCurrentEntities - 1) : b.slots[i] = a.slots[i]
  /\ b.modificationId >= a.modificationId
  /\ \A k \in DOMAIN a.chunks :
       k \in DOMAIN b.chunks /\ b.chunks[k].modificationId >= a.chunks[k].modificationId

LEMMA DestroyedSlots ==
  ASSUME NEW types, NEW m \in Nat, NEW a, ArchetypeOK(types, a, m)
  PROVE  /\ ArchetypeOK(types, destroy_slots(a, m), m)
         /\ destroy_slots(a, m).numCurrentEntities = 0
  <1> DEFINE num == a.numCurrentEntities
             C == ChunkCapacity
             Chunk == [numEntities : Nat, modificationId : 0..m]
             b == destroy_slots(a, m)
             used == 1..ChunksFor(num)
             inUse(i) == i % C < a.chunks[ChunkOf(i)].numEntities /\ ChunkOf(i) \in used
  <1>1. /\ DOMAIN a = {"numCurrentEntities", "modificationId", "chunks", "slots"}
        /\ a.chunks \in Seq(Chunk) /\ Len(a.chunks) \in Nat /\ DOMAIN a.chunks = 1..Len(a.chunks)
        /\ DOMAIN a.slots = 0..(Len(a.chunks) * C - 1)
        /\ num \in 0..(Len(a.chunks) * C)
    BY DEF ArchetypeOK, ArchetypeBut
  <1>2. num \in Nat /\ Len(a.chunks) * C \in Nat
    BY <1>1, ArchetypesAssumption
  <1>3. /\ DOMAIN b = {"numCurrentEntities", "modificationId", "chunks", "slots"}
        /\ b.numCurrentEntities = 0
        /\ b.modificationId = m
        /\ b.slots = [i \in DOMAIN a.slots |-> IF inUse(i) THEN gone(a.slots[i]) ELSE a.slots[i]]
        /\ b.chunks = [k \in DOMAIN a.chunks |->
                         IF k \in used THEN [numEntities |-> 0, modificationId |-> m] ELSE a.chunks[k]]
    BY <1>1 DEF destroy_slots
  <1>. HIDE DEF b
  <1>4. ASSUME NEW i \in DOMAIN a.slots
        PROVE  inUse(i) <=> i < num
    <2>1. i \in Nat /\ i < Len(a.chunks) * C
      BY <1>1, <1>2
    <2>2. ChunkOf(i) \in DOMAIN a.chunks
      BY <1>1, <2>1, ChunkInRange
    <2>3. a.chunks[ChunkOf(i)].numEntities = Cardinality(InChunk(num, ChunkOf(i)))
      BY <2>2 DEF ArchetypeOK, ArchetypeBut
    <2>. HIDE DEF num
    <2>. QED BY <1>2, <2>1, <2>3, InUse
  <1>5. ASSUME NEW i \in DOMAIN a.slots
        PROVE  /\ DOMAIN b.slots[i] = {"id", "data"}
               /\ b.slots[i].data \in [Components(types) -> FreeObject]
    <2>1. i \in Nat
      BY <1>1, <1>2
    <2>2. CASE i < num
      <3>1. b.slots[i] = gone(a.slots[i])
        BY <1>3, <1>4, <2>2
      <3>2. a.slots[i].data \in [Components(types) -> LiveObject]
        BY <1>2, <2>1, <2>2 DEF ArchetypeOK, ArchetypeBut, NoHole
      <3>3. ASSUME NEW x \in LiveObject
            PROVE  do_destroy(x) \in FreeObject
        BY ArchetypesAssumption DEF LiveObject, FreeObject, Spoiled, do_destroy, Raw, Moved, Corrupt
      <3>. QED BY <3>1, <3>2, <3>3 DEF gone
    <2>3. CASE ~ (i < num)
      <3>1. b.slots[i] = a.slots[i]
        BY <1>3, <1>4, <2>3
      <3>2. i >= num
        BY <1>2, <2>1, <2>3
      <3>. QED BY <3>1, <3>2 DEF ArchetypeOK, ArchetypeBut
    <2>. QED BY <2>2, <2>3
  <1>6. ASSUME NEW k \in DOMAIN a.chunks
        PROVE  b.chunks[k] \in Chunk /\ b.chunks[k].numEntities = Cardinality(InChunk(0, k))
    <2>1. InChunk(0, k) = {}
      BY DEF InChunk
    <2>2. Cardinality(InChunk(0, k)) = 0
      BY <2>1, FS_EmptySet
    <2>3. CASE k \in used
      BY <1>3, <2>2, <2>3
    <2>4. CASE k \notin used
      <3>1. b.chunks[k] = a.chunks[k] /\ a.chunks[k].numEntities = Cardinality(InChunk(num, k))
        BY <1>3, <2>4 DEF ArchetypeOK, ArchetypeBut
      <3>2. InChunk(num, k) = {}
        BY <1>2, <2>4, ChunksForBounds DEF InChunk
      <3>3. Cardinality(InChunk(num, k)) = 0
        BY <3>2, FS_EmptySet
      <3>4. a.chunks[k] \in Chunk
        <4>. HIDE DEF Chunk
        <4>. QED BY <1>1
      <3>. HIDE DEF Chunk
      <3>. QED BY <2>2, <3>1, <3>3, <3>4
    <2>. QED BY <2>3, <2>4
  <1>7. b.chunks \in Seq(Chunk) /\ Len(b.chunks) = Len(a.chunks) /\ DOMAIN b.chunks = DOMAIN a.chunks
    <2>1. DOMAIN b.chunks = 1..Len(a.chunks) /\ b.chunks = [k \in 1..Len(a.chunks) |-> b.chunks[k]]
      BY <1>1, <1>3
    <2>. HIDE DEF Chunk
    <2>2. b.chunks \in [1..Len(a.chunks) -> Chunk]
      BY <1>1, <1>6, <2>1
    <2>. QED BY <1>1, <2>1, <2>2
  <1>8. \A i \in DOMAIN b.slots :
          /\ DOMAIN b.slots[i] = {"id", "data"}
          /\ b.slots[i].data \in
               [Components(types) -> IF i >= b.numCurrentEntities THEN FreeObject
                                     ELSE IF i = NoHole THEN LiveObject \cup {Moved} ELSE LiveObject]
    BY <1>1, <1>2, <1>3, <1>5
  <1>9. DOMAIN b.slots = 0..(Len(b.chunks) * C - 1) /\ b.numCurrentEntities \in 0..(Len(b.chunks) * C)
    BY <1>1, <1>2, <1>3, <1>7
  <1>10. \A k \in DOMAIN b.chunks :
           b.chunks[k].numEntities = Cardinality(InChunk(b.numCurrentEntities, k))
    BY <1>3, <1>6, <1>7
  <1>11. ArchetypeOK(types, b, m)
    <2>1. b.modificationId \in 0..m
      BY <1>3
    <2>. QED BY <1>3, <1>7, <1>8, <1>9, <1>10, <2>1 DEF ArchetypeOK, ArchetypeBut
  <1>. QED BY <1>3, <1>11 DEF b

(* b is a with the entity of `slot` behind its own.                             *)
Places(a, b, slot, m) ==
  /\ Extends(a, b)
  /\ b.numCurrentEntities = a.numCurrentEntities + 1
  /\ b.slots[a.numCurrentEntities] = slot
  /\ b.modificationId = m

LEMMA Placed ==
  ASSUME NEW types, NEW m \in Nat, NEW a, ArchetypeOK(types, a, m),
         Len(a.chunks) >= ChunkOf(a.numCurrentEntities),
         NEW slot, DOMAIN slot = {"id", "data"},
         slot.data \in [Components(types) -> LiveObject]
  PROVE  /\ ArchetypeOK(types, place(a, slot, m), m)
         /\ Places(a, place(a, slot, m), slot, m)
  <1> DEFINE num == a.numCurrentEntities
             C == ChunkCapacity
             Chunk == [numEntities : Nat, modificationId : 0..m]
             b == place(a, slot, m)
             h == ChunkOf(num)
  <1>1. /\ DOMAIN a = {"numCurrentEntities", "modificationId", "chunks", "slots"}
        /\ a.chunks \in Seq(Chunk) /\ Len(a.chunks) \in Nat /\ DOMAIN a.chunks = 1..Len(a.chunks)
        /\ DOMAIN a.slots = 0..(Len(a.chunks) * C - 1)
        /\ num \in 0..(Len(a.chunks) * C)
        /\ a.modificationId \in 0..m
    BY DEF ArchetypeOK, ArchetypeBut
  <1>2. num \in Nat /\ Len(a.chunks) * C \in Nat
    BY <1>1, ArchetypesAssumption
  <1>3. num < Len(a.chunks) * C
    BY <1>1, <1>2, ChunkCovers
  <1>4. h \in Nat \ {0} /\ h \in DOMAIN a.chunks /\ num \in DOMAIN a.slots
    <2>1. h \in Nat \ {0}
      BY <1>2, ChunkBounds
    <2>. QED BY <1>1, <1>2, <1>3, <2>1
  <1>5. /\ DOMAIN b = {"numCurrentEntities", "modificationId", "chunks", "slots"}
        /\ b.numCurrentEntities = num + 1
        /\ b.modificationId = m
        /\ b.slots = [a.slots EXCEPT ![num] = slot]
        /\ b.chunks = [a.chunks EXCEPT ![h] = placed_chunk(@, m)]
    BY <1>1 DEF place
  <1>. HIDE DEF b
  <1>6. ASSUME NEW i \in DOMAIN a.slots
        PROVE  /\ DOMAIN b.slots[i] = {"id", "data"}
               /\ b.slots[i].data \in [Components(types) -> IF i >= num + 1 THEN FreeObject
                                       ELSE IF i = NoHole THEN LiveObject \cup {Moved} ELSE LiveObject]
    <2>1. i \in Nat /\ i # NoHole
      BY <1>1, <1>2 DEF NoHole
    <2>2. CASE i = num
      <3>1. b.slots[i] = slot
        BY <1>5, <2>2
      <3>. QED BY <1>2, <2>1, <2>2, <3>1
    <2>3. CASE i # num
      <3>1. b.slots[i] = a.slots[i]
        BY <1>5, <2>3
      <3>2. /\ DOMAIN a.slots[i] = {"id", "data"}
            /\ a.slots[i].data \in [Components(types) -> IF i >= num THEN FreeObject ELSE LiveObject]
        BY <2>1 DEF ArchetypeOK, ArchetypeBut
      <3>. QED BY <1>2, <2>1, <2>3, <3>1, <3>2
    <2>. QED BY <2>2, <2>3
  <1>7. ASSUME NEW k \in DOMAIN a.chunks
        PROVE  /\ b.chunks[k] \in Chunk
               /\ b.chunks[k].modificationId >= a.chunks[k].modificationId
               /\ b.chunks[k].numEntities = Cardinality(InChunk(num + 1, k))
    <2>1. /\ Cardinality(InChunk(num, k)) \in Nat
          /\ Cardinality(InChunk(num + 1, k)) =
               Cardinality(InChunk(num, k)) + IF h = k THEN 1 ELSE 0
      <3>1. Cardinality(InChunk(num + 1, k)) =
              Cardinality(InChunk(num, k)) + Cardinality(Filled(num, num + 1, k))
        BY <1>2, InChunkGrows
      <3>2. Cardinality(Filled(num, num + 1, k)) = IF h = k THEN 1 ELSE 0
        BY <1>2, FilledOne
      <3>3. Cardinality(InChunk(num, k)) \in Nat
        BY <1>2, InChunkFinite
      <3>. QED BY <3>1, <3>2, <3>3
    <2>2. a.chunks[k] \in Chunk
      <3>. HIDE DEF Chunk
      <3>. QED BY <1>1
    <2>3. a.chunks[k].numEntities = Cardinality(InChunk(num, k))
      BY DEF ArchetypeOK, ArchetypeBut
    <2>4. b.chunks[k] = IF k = h THEN [numEntities |-> a.chunks[k].numEntities + 1, modificationId |-> m]
                        ELSE a.chunks[k]
      BY <1>5 DEF placed_chunk
    <2>. HIDE DEF num, h
    <2>5. CASE k = h
      BY <2>1, <2>2, <2>3, <2>4, <2>5
    <2>6. CASE k # h
      BY <2>1, <2>2, <2>3, <2>4, <2>6
    <2>. QED BY <2>5, <2>6
  <1>8. b.chunks \in Seq(Chunk) /\ Len(b.chunks) = Len(a.chunks) /\ DOMAIN b.chunks = DOMAIN a.chunks
    <2>1. DOMAIN b.chunks = 1..Len(a.chunks) /\ b.chunks = [k \in 1..Len(a.chunks) |-> b.chunks[k]]
      BY <1>1, <1>5
    <2>. HIDE DEF Chunk
    <2>2. b.chunks \in [1..Len(a.chunks) -> Chunk]
      BY <1>1, <1>7, <2>1
    <2>. QED BY <1>1, <2>1, <2>2
  <1>9. ArchetypeOK(types, b, m)
    <2>1. DOMAIN b.slots = 0..(Len(b.chunks) * C - 1)
      BY <1>1, <1>5, <1>8
    <2>2. b.numCurrentEntities \in 0..(Len(b.chunks) * C) /\ b.modificationId \in 0..m
      BY <1>2, <1>3, <1>5, <1>8
    <2>3. \A i \in DOMAIN b.slots :
            /\ DOMAIN b.slots[i] = {"id", "data"}
            /\ b.slots[i].data \in
                 [Components(types) -> IF i >= b.numCurrentEntities THEN FreeObject
                                       ELSE IF i = NoHole THEN LiveObject \cup {Moved} ELSE LiveObject]
      BY <1>5, <1>6
    <2>4. \A k \in DOMAIN b.chunks :
            b.chunks[k].numEntities = Cardinality(InChunk(b.numCurrentEntities, k))
      BY <1>5, <1>7, <1>8
    <2>. HIDE DEF num
    <2>. QED BY <1>5, <1>8, <2>1, <2>2, <2>3, <2>4 DEF ArchetypeOK, ArchetypeBut
  <1>10. Extends(a, b)
    <2>1. \A i \in 0..(num - 1) : b.slots[i] = a.slots[i]
      BY <1>1, <1>2, <1>5
    <2>2. b.numCurrentEntities >= num /\ b.modificationId >= a.modificationId
      BY <1>1, <1>2, <1>5
    <2>. QED BY <1>7, <1>8, <2>1, <2>2 DEF Extends
  <1>11. Places(a, b, slot, m)
    BY <1>4, <1>5, <1>10 DEF Places
  <1>. QED BY <1>9, <1>11 DEF b

LEMMA MarkedChunk ==
  ASSUME NEW types, NEW m \in Nat, NEW a, ArchetypeOK(types, a, m), NEW k \in DOMAIN a.chunks
  PROVE  /\ ArchetypeOK(types, mark_chunk(a, k, m), m)
         /\ Extends(a, mark_chunk(a, k, m))
         /\ mark_chunk(a, k, m).numCurrentEntities = a.numCurrentEntities
         /\ mark_chunk(a, k, m).chunks[k].modificationId = m
         /\ mark_chunk(a, k, m).slots = a.slots
  <1> DEFINE b == mark_chunk(a, k, m)
             Chunk == [numEntities : Nat, modificationId : 0..m]
  <1>1. /\ DOMAIN a = {"numCurrentEntities", "modificationId", "chunks", "slots"}
        /\ a.chunks \in Seq(Chunk) /\ Len(a.chunks) \in Nat /\ DOMAIN a.chunks = 1..Len(a.chunks)
        /\ a.numCurrentEntities \in 0..(Len(a.chunks) * ChunkCapacity)
        /\ a.modificationId \in 0..m
    BY DEF ArchetypeOK, ArchetypeBut
  <1>2. /\ DOMAIN b = {"numCurrentEntities", "modificationId", "chunks", "slots"}
        /\ b.numCurrentEntities = a.numCurrentEntities
        /\ b.modificationId = a.modificationId
        /\ b.slots = a.slots
        /\ b.chunks = [a.chunks EXCEPT ![k].modificationId = m]
    BY <1>1 DEF mark_chunk
  <1>. HIDE DEF b
  <1>3. ASSUME NEW j \in DOMAIN a.chunks
        PROVE  /\ b.chunks[j] \in Chunk
               /\ b.chunks[j].modificationId >= a.chunks[j].modificationId
               /\ b.chunks[j].numEntities = a.chunks[j].numEntities
               /\ j = k => b.chunks[j].modificationId = m
    <2>1. a.chunks[j] \in Chunk
      <3>. HIDE DEF Chunk
      <3>. QED BY <1>1
    <2>2. CASE j = k
      BY <1>2, <2>1, <2>2
    <2>3. CASE j # k
      BY <1>2, <2>1, <2>3
    <2>. QED BY <2>2, <2>3
  <1>4. b.chunks \in Seq(Chunk) /\ Len(b.chunks) = Len(a.chunks) /\ DOMAIN b.chunks = DOMAIN a.chunks
    <2>1. DOMAIN b.chunks = 1..Len(a.chunks) /\ b.chunks = [j \in 1..Len(a.chunks) |-> b.chunks[j]]
      BY <1>1, <1>2
    <2>. HIDE DEF Chunk
    <2>2. b.chunks \in [1..Len(a.chunks) -> Chunk]
      BY <1>1, <1>3, <2>1
    <2>. QED BY <1>1, <2>1, <2>2
  <1>5. ArchetypeOK(types, b, m)
    BY <1>1, <1>2, <1>3, <1>4 DEF ArchetypeOK, ArchetypeBut
  <1>6. Extends(a, b)
    <2>1. a.numCurrentEntities \in Int /\ a.modificationId \in Int
      BY <1>1, ArchetypesAssumption
    <2>. QED BY <1>2, <1>3, <1>4, <2>1 DEF Extends
  <1>. QED BY <1>2, <1>3, <1>5, <1>6 DEF b

LEMMA MarkedArchetype ==
  ASSUME NEW types, NEW m \in Nat, NEW a, ArchetypeOK(types, a, m)
  PROVE  /\ ArchetypeOK(types, [a EXCEPT !.modificationId = m], m)
         /\ Extends(a, [a EXCEPT !.modificationId = m])
         /\ [a EXCEPT !.modificationId = m].modificationId = m
  <1> DEFINE b == [a EXCEPT !.modificationId = m]
             Chunk == [numEntities : Nat, modificationId : 0..m]
  <1>1. /\ DOMAIN a = {"numCurrentEntities", "modificationId", "chunks", "slots"}
        /\ a.chunks \in Seq(Chunk) /\ Len(a.chunks) \in Nat /\ DOMAIN a.chunks = 1..Len(a.chunks)
        /\ a.numCurrentEntities \in 0..(Len(a.chunks) * ChunkCapacity)
        /\ a.modificationId \in 0..m
    BY DEF ArchetypeOK, ArchetypeBut
  <1>2. /\ DOMAIN b = {"numCurrentEntities", "modificationId", "chunks", "slots"}
        /\ b.numCurrentEntities = a.numCurrentEntities
        /\ b.modificationId = m
        /\ b.slots = a.slots
        /\ b.chunks = a.chunks
    BY <1>1
  <1>. HIDE DEF b
  <1>3. ArchetypeOK(types, b, m)
    <2>1. b.modificationId \in 0..m
      BY <1>2
    <2>2. b.chunks \in Seq(Chunk) /\ b.numCurrentEntities \in 0..(Len(b.chunks) * ChunkCapacity)
      BY <1>1, <1>2
    <2>3. /\ DOMAIN b.slots = 0..(Len(b.chunks) * ChunkCapacity - 1)
          /\ \A i \in DOMAIN b.slots :
               /\ DOMAIN b.slots[i] = {"id", "data"}
               /\ b.slots[i].data \in
                    [Components(types) -> IF i >= b.numCurrentEntities THEN FreeObject
                                          ELSE IF i = NoHole THEN LiveObject \cup {Moved} ELSE LiveObject]
          /\ \A k \in DOMAIN b.chunks :
               b.chunks[k].numEntities = Cardinality(InChunk(b.numCurrentEntities, k))
      <3>. HIDE DEF Chunk
      <3>. QED BY <1>2 DEF ArchetypeOK, ArchetypeBut
    <2>. QED BY <1>2, <2>1, <2>2, <2>3 DEF ArchetypeOK, ArchetypeBut
  <1>4. Extends(a, b)
    <2>1. a.numCurrentEntities \in Int /\ a.modificationId \in Int
      BY <1>1, ArchetypesAssumption
    <2>2. ASSUME NEW k \in DOMAIN a.chunks
          PROVE  a.chunks[k].modificationId \in Int
      <3>1. a.chunks[k] \in Chunk
        <4>. HIDE DEF Chunk
        <4>. QED BY <1>1
      <3>. QED BY <3>1
    <2>. QED BY <1>1, <1>2, <2>1, <2>2 DEF Extends
  <1>. QED BY <1>2, <1>3, <1>4 DEF b

(* Archetypes are as good for a later modification id.                          *)
LEMMA OlderArchetype ==
  ASSUME NEW types, NEW m \in Nat, NEW n \in Nat, m <= n, NEW a, ArchetypeOK(types, a, m)
  PROVE  ArchetypeOK(types, a, n)
  <1>1. 0..m \subseteq 0..n
    OBVIOUS
  <1>2. [numEntities : Nat, modificationId : 0..m] \subseteq [numEntities : Nat, modificationId : 0..n]
    BY <1>1
  <1>3. a.chunks \in Seq([numEntities : Nat, modificationId : 0..m])
    BY DEF ArchetypeOK, ArchetypeBut
  <1>4. a.chunks \in Seq([numEntities : Nat, modificationId : 0..n])
    <2> DEFINE S == [numEntities : Nat, modificationId : 0..m]
               T == [numEntities : Nat, modificationId : 0..n]
    <2>1. S \subseteq T /\ a.chunks \in Seq(S)
      BY <1>2, <1>3
    <2>. HIDE DEF S, T
    <2>2. a.chunks \in Seq(T)
      BY <2>1
    <2>. QED BY <2>2 DEF T
  <1>. QED BY <1>1, <1>4 DEF ArchetypeOK, ArchetypeBut

LEMMA ExtendsItself ==
  ASSUME NEW types, NEW m \in Nat, NEW a, ArchetypeOK(types, a, m)
  PROVE  Extends(a, a)
  <1> DEFINE Chunk == [numEntities : Nat, modificationId : 0..m]
  <1>1. a.numCurrentEntities \in Int /\ a.modificationId \in Int /\ a.chunks \in Seq(Chunk)
    BY ArchetypesAssumption DEF ArchetypeOK, ArchetypeBut
  <1>2. ASSUME NEW k \in DOMAIN a.chunks
        PROVE  a.chunks[k].modificationId \in Int
    <2>1. a.chunks[k] \in Chunk
      <3>. HIDE DEF Chunk
      <3>. QED BY <1>1
    <2>. QED BY <2>1
  <1>. QED BY <1>1, <1>2 DEF Extends

LEMMA ReservesExtends ==
  ASSUME NEW types, NEW m \in Nat, NEW a, ArchetypeOK(types, a, m), NEW b, NEW n,
         Reserves(a, b, n)
  PROVE  Extends(a, b)
  <1>1. Extends(a, a)
    BY ExtendsItself
  <1>2. \A i \in 0..(a.numCurrentEntities - 1) : i \in DOMAIN a.slots
    <2>1. /\ Len(a.chunks) \in Nat
          /\ a.numCurrentEntities \in 0..(Len(a.chunks) * ChunkCapacity)
          /\ DOMAIN a.slots = 0..(Len(a.chunks) * ChunkCapacity - 1)
      BY DEF ArchetypeOK, ArchetypeBut
    <2>2. Len(a.chunks) * ChunkCapacity \in Nat
      BY <2>1, ArchetypesAssumption
    <2>. QED BY <2>1, <2>2
  <1>. QED BY <1>1, <1>2 DEF Extends, Reserves

LEMMA EmplacesExtends ==
  ASSUME NEW types, NEW m \in Nat, NEW a, ArchetypeOK(types, a, m), NEW b,
         NEW ids \in Seq(AnyHandle), Emplaces(types, a, b, ids, m)
  PROVE  Extends(a, b)
  <1>1. a.numCurrentEntities \in Nat /\ a.modificationId \in 0..m /\ Len(ids) \in Nat
    BY ArchetypesAssumption DEF ArchetypeOK, ArchetypeBut
  <1>. QED BY <1>1 DEF Emplaces, Extends

(* What an entity takes along to an archetype of `types`.                       *)
TakenAlong(types, old) ==
  [c \in Components(types) |-> IF c \in DOMAIN old THEN old[c] ELSE Default]

LEMMA MovedObjects ==
  ASSUME NEW types, NEW from, NEW dst \in [Components(types) -> FreeObject],
         NEW old \in [Components(from) -> LiveObject],
         NEW overread, overread # {} => OverreadMatches
  PROVE  /\ moved_objects(types, dst, old, overread) \in [Components(types) -> LiveObject]
         /\ ~OverreadMatches => moved_objects(types, dst, old, overread) = TakenAlong(types, old)
  <1> DEFINE new == moved_objects(types, dst, old, overread)
             object(c) == IF c \in overread THEN Corrupt
                          ELSE IF c \in DOMAIN old THEN do_move(dst[c], old[c])
                          ELSE do_create(dst[c])
  <1>1. new = [c \in Components(types) |-> object(c)]
    BY DEF moved_objects
  <1>2. ASSUME NEW c \in Components(types)
        PROVE  /\ object(c) \in LiveObject
               /\ ~OverreadMatches => object(c) = IF c \in DOMAIN old THEN old[c] ELSE Default
    <2>1. CASE c \in overread
      BY <2>1 DEF LiveObject, Spoiled
    <2>2. CASE c \notin overread /\ c \in DOMAIN old
      <3>1. dst[c] \in FreeObject /\ old[c] \in LiveObject
        BY <2>2
      <3>2. ASSUME NEW x \in FreeObject, NEW y \in LiveObject
            PROVE  do_move(x, y) \in LiveObject /\ (~OverreadMatches => do_move(x, y) = y)
        BY ArchetypesAssumption DEF do_move, LiveObject, FreeObject, Spoiled, Raw, Corrupt
      <3>. QED BY <2>2, <3>1, <3>2
    <2>3. CASE c \notin overread /\ c \notin DOMAIN old
      <3>1. dst[c] \in FreeObject
        OBVIOUS
      <3>. QED BY <2>3, <3>1, CreatedObject
    <2>. QED BY <2>1, <2>2, <2>3
  <1>. HIDE DEF object
  <1>3. new \in [Components(types) -> LiveObject]
    BY <1>1, <1>2
  <1>4. ASSUME ~OverreadMatches
        PROVE  new = TakenAlong(types, old)
    BY <1>1, <1>2, <1>4 DEF TakenAlong
  <1>. QED BY <1>3, <1>4

LEMMA MovedFrom ==
  ASSUME NEW types, NEW from, NEW old \in [Components(from) -> LiveObject]
  PROVE  moved_from(old, types) \in [Components(from) -> LiveObject \cup {Moved}]
  BY DEF moved_from

-----------------------------------------------------------------------------
(* Registries *)

(* Where an entity is, there is a slot with its objects.                        *)
LEMMA Place ==
  ASSUME NEW r, NEW x, EntityLocated(r, x), NEW m \in Nat,
         ArchetypeOK(r.entities[x].archetype, ArchetypeOf(r, x), m)
  PROVE  /\ r.entities[x].archetypeIndex \in Nat
         /\ r.entities[x].archetypeIndex < ArchetypeOf(r, x).numCurrentEntities
         /\ r.entities[x].archetypeIndex \in DOMAIN ArchetypeOf(r, x).slots
         /\ ChunkOf(r.entities[x].archetypeIndex) \in DOMAIN ArchetypeOf(r, x).chunks
         /\ DataOf(r, x) \in [Components(r.entities[x].archetype) -> LiveObject]
  <1> DEFINE a == ArchetypeOf(r, x)
             t == r.entities[x].archetype
             i == r.entities[x].archetypeIndex
  <1>1. t \in DOMAIN r.archetypes /\ i \in 0..(a.numCurrentEntities - 1)
    BY DEF EntityLocated, ArchetypeOf
  <1>2. ArchetypeOK(t, a, m)
    OBVIOUS
  <1>. HIDE DEF a, t, i
  <1>3. /\ a.numCurrentEntities \in 0..(Len(a.chunks) * ChunkCapacity)
        /\ DOMAIN a.slots = 0..(Len(a.chunks) * ChunkCapacity - 1)
        /\ Len(a.chunks) \in Nat /\ DOMAIN a.chunks = 1..Len(a.chunks)
    BY <1>2 DEF ArchetypeOK, ArchetypeBut
  <1>4. Len(a.chunks) * ChunkCapacity \in Nat
    BY <1>3, ArchetypesAssumption
  <1>5. i \in Nat /\ i < a.numCurrentEntities /\ i < Len(a.chunks) * ChunkCapacity
        /\ a.numCurrentEntities \in Nat
    BY <1>1, <1>3, <1>4
  <1>6. i \in DOMAIN a.slots /\ ChunkOf(i) \in DOMAIN a.chunks
    BY <1>3, <1>4, <1>5, ChunkInRange
  <1>7. a.slots[i].data \in [Components(t) -> LiveObject]
    <2>1. i # NoHole /\ ~ (i >= a.numCurrentEntities)
      BY <1>5 DEF NoHole
    <2>. QED BY <1>2, <1>6, <2>1 DEF ArchetypeOK, ArchetypeBut
  <1>8. DataOf(r, x) = a.slots[i].data
    BY DEF DataOf, a, i
  <1>. QED BY <1>1, <1>5, <1>6, <1>7, <1>8 DEF a, t, i

LEMMA Location ==
  ASSUME NEW r, RegistryOK(r), NEW x \in DOMAIN r.entities
  PROVE  /\ r.modificationId \in Nat
         /\ r.entities[x].archetype \in DOMAIN r.archetypes
         /\ r.entities[x].archetype \subseteq Types
         /\ ArchetypeOK(r.entities[x].archetype, ArchetypeOf(r, x), r.modificationId)
         /\ EntityLocated(r, x)
         /\ r.entities[x].archetypeIndex \in Nat
         /\ r.entities[x].archetypeIndex < ArchetypeOf(r, x).numCurrentEntities
         /\ r.entities[x].archetypeIndex \in DOMAIN ArchetypeOf(r, x).slots
         /\ ChunkOf(r.entities[x].archetypeIndex) \in DOMAIN ArchetypeOf(r, x).chunks
         /\ DataOf(r, x) \in [Components(r.entities[x].archetype) -> LiveObject]
  <1>1. r.modificationId \in Nat /\ EntityLocated(r, x)
    BY DEF RegistryOK
  <1>2. r.entities[x].archetype \in DOMAIN r.archetypes
    BY <1>1 DEF EntityLocated
  <1>3. /\ r.entities[x].archetype \subseteq Types
        /\ ArchetypeOK(r.entities[x].archetype, ArchetypeOf(r, x), r.modificationId)
    BY <1>2 DEF RegistryOK, ArchetypeOf
  <1>. QED BY <1>1, <1>2, <1>3, Place

(* Entity x is in s what it is in r, wherever it is.                            *)
Kept(r, s, x) ==
  /\ x \in DOMAIN s.entities
  /\ s.entities[x].key = r.entities[x].key
  /\ s.entities[x].archetype = r.entities[x].archetype
  /\ DataOf(s, x) = DataOf(r, x)
  /\ \A id \in Nat : Seen(r, x, id) => Seen(s, x, id)

LEMMA KeptTransitive ==
  ASSUME NEW r, NEW s, NEW u, NEW x, Kept(r, s, x), Kept(s, u, x)
  PROVE  Kept(r, u, x)
  BY DEF Kept

LEMMA KeptWhereItIs ==
  ASSUME NEW r, NEW x, EntityLocated(r, x), NEW n \in Nat,
         ArchetypeOK(r.entities[x].archetype, ArchetypeOf(r, x), n), NEW s, NEW m \in Nat,
         x \in DOMAIN s.entities, s.entities[x] = r.entities[x],
         r.entities[x].archetype \in DOMAIN s.archetypes,
         ArchetypeOK(r.entities[x].archetype, ArchetypeOf(s, x), m),
         Extends(ArchetypeOf(r, x), ArchetypeOf(s, x))
  PROVE  Kept(r, s, x) /\ EntityLocated(s, x)
  <1> DEFINE a == ArchetypeOf(r, x)
             b == ArchetypeOf(s, x)
             i == r.entities[x].archetypeIndex
             k == ChunkOf(i)
  <1>1. i \in Nat /\ i < a.numCurrentEntities /\ k \in DOMAIN a.chunks
        /\ ArchetypeOK(r.entities[x].archetype, a, n)
    BY Place
  <1>2. EntityLocated(r, x)
    OBVIOUS
  <1>3. a.numCurrentEntities \in Int /\ b.numCurrentEntities \in Int
        /\ a.modificationId \in Int /\ b.modificationId \in Int
    BY <1>1, ArchetypesAssumption DEF ArchetypeOK, ArchetypeBut
  <1>4. /\ i \in 0..(a.numCurrentEntities - 1) /\ i \in 0..(b.numCurrentEntities - 1)
        /\ b.slots[i] = a.slots[i]
        /\ b.modificationId >= a.modificationId
        /\ b.chunks[k].modificationId >= a.chunks[k].modificationId
        /\ k \in DOMAIN b.chunks
    <2>. HIDE DEF a, b, i, k
    <2>. QED BY <1>1, <1>3 DEF Extends, a, b
  <1>5. a.chunks[k].modificationId \in Int /\ b.chunks[k].modificationId \in Int
    <2>1. ASSUME NEW c, NEW o \in Nat, ArchetypeOK(r.entities[x].archetype, c, o), k \in DOMAIN c.chunks
          PROVE  c.chunks[k].modificationId \in Int
      <3> DEFINE Chunk == [numEntities : Nat, modificationId : 0..o]
      <3>1. c.chunks \in Seq(Chunk)
        BY <2>1 DEF ArchetypeOK, ArchetypeBut
      <3>2. c.chunks[k] \in Chunk
        <4>. HIDE DEF Chunk, k
        <4>. QED BY <2>1, <3>1
      <3>. QED BY <3>2
    <2>. QED BY <1>1, <1>4, <2>1
  <1>6. DataOf(s, x) = DataOf(r, x)
    BY <1>4 DEF DataOf
  <1>7. \A id \in Nat : Seen(r, x, id) => Seen(s, x, id)
    <2>1. ASSUME NEW id \in Nat, Seen(r, x, id)
          PROVE  Seen(s, x, id)
      <3>1. a.modificationId >= id \/ a.chunks[k].modificationId >= id
        BY <2>1 DEF Seen
      <3>. HIDE DEF a, b, i, k
      <3>2. b.modificationId >= id \/ b.chunks[k].modificationId >= id
        BY <1>3, <1>4, <1>5, <3>1
      <3>. QED BY <3>2 DEF Seen, b, k, i
    <2>. QED BY <2>1
  <1>8. Kept(r, s, x)
    BY <1>6, <1>7 DEF Kept
  <1>9. EntityLocated(s, x)
    <2>1. b = s.archetypes[s.entities[x].archetype]
      BY DEF ArchetypeOf
    <2>2. a = r.archetypes[r.entities[x].archetype]
      BY DEF ArchetypeOf
    <2>. HIDE DEF a, b, i, k
    <2>. QED BY <1>2, <1>4, <2>1, <2>2 DEF EntityLocated, i
  <1>. QED BY <1>8, <1>9

LEMMA KeptInPlace ==
  ASSUME NEW r, RegistryOK(r), NEW x \in DOMAIN r.entities, NEW s, NEW m \in Nat,
         x \in DOMAIN s.entities, s.entities[x] = r.entities[x],
         r.entities[x].archetype \in DOMAIN s.archetypes,
         ArchetypeOK(r.entities[x].archetype, ArchetypeOf(s, x), m),
         Extends(ArchetypeOf(r, x), ArchetypeOf(s, x))
  PROVE  Kept(r, s, x) /\ EntityLocated(s, x)
  <1>1. /\ EntityLocated(r, x) /\ r.modificationId \in Nat
        /\ ArchetypeOK(r.entities[x].archetype, ArchetypeOf(r, x), r.modificationId)
    BY Location
  <1>. QED BY <1>1, KeptWhereItIs

(* The entities of r that are still in s, but those of X, are what they were.   *)
Changes(r, s, X) ==
  /\ RegistryOK(s)
  /\ s.modificationId = r.modificationId
  /\ \A x \in DOMAIN s.entities \ X : x \in DOMAIN r.entities /\ Kept(r, s, x)

FindsStorage(r, s, types) ==
  /\ Changes(r, s, {})
  /\ s.pool = r.pool
  /\ s.entities = r.entities
  /\ types \in DOMAIN s.archetypes
  /\ \A t \in DOMAIN r.archetypes : t \in DOMAIN s.archetypes /\ s.archetypes[t] = r.archetypes[t]

LEMMA StorageFound ==
  ASSUME NEW r, RegistryOK(r), NEW types, types \subseteq Types
  PROVE  FindsStorage(r, find_or_create_storage(r, types), types)
  <1> DEFINE s == find_or_create_storage(r, types)
             m == r.modificationId
  <1>1. CASE types \in DOMAIN r.archetypes
    <2>1. s = r
      BY <1>1 DEF find_or_create_storage
    <2>2. Changes(r, r, {})
      BY DEF Changes, Kept
    <2>. HIDE DEF s
    <2>. QED BY <1>1, <2>1, <2>2 DEF FindsStorage, s
  <1>2. CASE types \notin DOMAIN r.archetypes
    <2>1. /\ DOMAIN r = {"pool", "entities", "archetypes", "modificationId"}
          /\ m \in Nat
      BY DEF RegistryOK
    <2>2. /\ DOMAIN s = {"pool", "entities", "archetypes", "modificationId"}
          /\ s.pool = r.pool /\ s.entities = r.entities /\ s.modificationId = m
          /\ s.archetypes = emplace(r.archetypes, [t \in {types} |-> create_archetype_impl])
      BY <1>2, <2>1 DEF find_or_create_storage
    <2>. HIDE DEF s
    <2>3. /\ DOMAIN s.archetypes = DOMAIN r.archetypes \cup {types}
          /\ s.archetypes[types] = create_archetype_impl
          /\ \A t \in DOMAIN r.archetypes : s.archetypes[t] = r.archetypes[t]
      BY <1>2, <2>2 DEF emplace
    <2>4. ASSUME NEW t \in DOMAIN s.archetypes
          PROVE  t \subseteq Types /\ ArchetypeOK(t, s.archetypes[t], m)
      <3>1. CASE t = types
        BY <2>1, <2>3, <3>1, NewArchetype
      <3>2. CASE t # types
        BY <2>3, <3>2 DEF RegistryOK
      <3>. QED BY <3>1, <3>2
    <2>5. ASSUME NEW x \in DOMAIN r.entities
          PROVE  Kept(r, s, x) /\ EntityLocated(s, x)
      <3>1. /\ r.entities[x].archetype \in DOMAIN r.archetypes
            /\ ArchetypeOK(r.entities[x].archetype, ArchetypeOf(r, x), m)
        BY Location
      <3>2. ArchetypeOf(s, x) = ArchetypeOf(r, x)
        BY <2>2, <2>3, <3>1 DEF ArchetypeOf
      <3>3. Extends(ArchetypeOf(r, x), ArchetypeOf(s, x))
        BY <2>1, <3>1, <3>2, ExtendsItself
      <3>. HIDE DEF m
      <3>. QED BY <2>1, <2>2, <2>3, <3>1, <3>2, <3>3, KeptInPlace DEF m
    <2>6. ASSUME NEW t \in DOMAIN s.archetypes, NEW i \in 0..(s.archetypes[t].numCurrentEntities - 1)
          PROVE  SlotLocated(s, t, i)
      <3>1. t # types
        BY <2>1, <2>3, <2>6, NewArchetype
      <3>2. t \in DOMAIN r.archetypes /\ s.archetypes[t] = r.archetypes[t]
        BY <2>3, <3>1
      <3>3. SlotLocated(r, t, i)
        BY <2>6, <3>2 DEF RegistryOK
      <3>. QED BY <2>2, <3>2, <3>3 DEF SlotLocated
    <2>7. RegistryOK(s)
      BY <2>1, <2>2, <2>4, <2>5, <2>6 DEF RegistryOK
    <2>8. Changes(r, s, {})
      BY <2>2, <2>5, <2>7 DEF Changes
    <2>. QED BY <2>2, <2>3, <2>8 DEF FindsStorage, s
  <1>. QED BY <1>1, <1>2

(* What create_entities does to r.                                              *)
Creates(r, s, types, ids) ==
  /\ Changes(r, s, Indices(ids))
  /\ s.pool = r.pool
  /\ DOMAIN s.entities = DOMAIN r.entities \cup Indices(ids)
  /\ \A k \in DOMAIN ids :
       LET x == ids[k].index
       IN  /\ s.entities[x].key = ids[k]
           /\ s.entities[x].archetype = types
           /\ ~OverreadMatches => DataOf(s, x) = [c \in Components(types) |-> Default]
           /\ Seen(s, x, r.modificationId)

LEMMA NewEntities ==
  ASSUME NEW types, NEW ids \in Seq(AnyHandle), NEW first,
         \A j, k \in DOMAIN ids : j # k => ids[j].index # ids[k].index
  PROVE  /\ DOMAIN new_entities(types, ids, first) = Indices(ids)
         /\ \A k \in DOMAIN ids :
              new_entities(types, ids, first)[ids[k].index] =
                [key |-> ids[k], archetype |-> types, archetypeIndex |-> first + k - 1]
  <1> DEFINE entry(x) == LET k == CHOOSE j \in DOMAIN ids : ids[j].index = x
                         IN  [key |-> ids[k], archetype |-> types, archetypeIndex |-> first + k - 1]
  <1>1. new_entities(types, ids, first) = [x \in Indices(ids) |-> entry(x)]
    BY DEF new_entities, Indices
  <1>2. ASSUME NEW k \in DOMAIN ids
        PROVE  entry(ids[k].index) =
                 [key |-> ids[k], archetype |-> types, archetypeIndex |-> first + k - 1]
    <2>1. (CHOOSE j \in DOMAIN ids : ids[j].index = ids[k].index) = k
      OBVIOUS
    <2>. QED BY <2>1
  <1>3. \A k \in DOMAIN ids : ids[k].index \in Indices(ids)
    BY DEF Indices
  <1>. HIDE DEF entry
  <1>. QED BY <1>1, <1>2, <1>3

LEMMA Created ==
  ASSUME NEW r, RegistryOK(r), NEW types, types \subseteq Types,
         NEW ids \in Seq(AnyHandle), ids # << >>,
         \A j, k \in DOMAIN ids : j # k => ids[j].index # ids[k].index,
         Indices(ids) \cap DOMAIN r.entities = {}
  PROVE  Creates(r, create_entities(r, types, ids), types, ids)
  <1> DEFINE s == find_or_create_storage(r, types)
             u == create_entities(r, types, ids)
             a == s.archetypes[types]
             num == a.numCurrentEntities
             new == new_entities(types, ids, num)
             b == emplace_entities(a, types, ids, r.modificationId)
             m == r.modificationId
             n == Len(ids)
  <1>1. FindsStorage(r, s, types)
    BY StorageFound
  <1>2. /\ RegistryOK(s) /\ s.modificationId = m /\ m \in Nat
        /\ s.pool = r.pool /\ s.entities = r.entities
        /\ types \in DOMAIN s.archetypes
        /\ \A x \in DOMAIN r.entities : Kept(r, s, x)
    <2>. HIDE DEF s
    <2>. QED BY <1>1 DEF FindsStorage, Changes, RegistryOK
  <1>. HIDE DEF s
  <1>3. /\ DOMAIN s = {"pool", "entities", "archetypes", "modificationId"}
        /\ ArchetypeOK(types, a, m)
    BY <1>2 DEF RegistryOK
  <1>4. num \in Nat
    BY <1>3, ArchetypesAssumption DEF ArchetypeOK, ArchetypeBut
  <1>5. n \in Nat \ {0} /\ DOMAIN ids = 1..n
    OBVIOUS
  <1>6. /\ ArchetypeOK(types, b, m) /\ Emplaces(types, a, b, ids, m) /\ Extends(a, b)
    <2>1. ArchetypeOK(types, b, m) /\ Emplaces(types, a, b, ids, m)
      BY <1>2, <1>3, Emplaced
    <2>. QED BY <1>2, <1>3, <2>1, EmplacesExtends
  <1>7. /\ DOMAIN u = {"pool", "entities", "archetypes", "modificationId"}
        /\ u.pool = r.pool /\ u.modificationId = m
        /\ u.archetypes = [s.archetypes EXCEPT ![types] = b]
        /\ u.entities = emplace(r.entities, new)
    <2>. HIDE DEF new, b
    <2>. QED BY <1>2, <1>3 DEF create_entities, s, new, b
  <1>. HIDE DEF u
  <1>8. /\ DOMAIN new = Indices(ids)
        /\ \A k \in DOMAIN ids :
             new[ids[k].index] = [key |-> ids[k], archetype |-> types, archetypeIndex |-> num + k - 1]
    BY NewEntities
  <1>9. /\ DOMAIN u.entities = DOMAIN r.entities \cup Indices(ids)
        /\ \A x \in DOMAIN r.entities : u.entities[x] = r.entities[x]
        /\ \A k \in DOMAIN ids :
             /\ ids[k].index \in DOMAIN u.entities
             /\ ids[k].index \notin DOMAIN r.entities
             /\ u.entities[ids[k].index] =
                  [key |-> ids[k], archetype |-> types, archetypeIndex |-> num + k - 1]
    <2>. HIDE DEF new
    <2>. QED BY <1>7, <1>8 DEF emplace, Indices
  <1>10. /\ DOMAIN u.archetypes = DOMAIN s.archetypes
         /\ u.archetypes[types] = b
         /\ \A t \in DOMAIN s.archetypes : t # types => u.archetypes[t] = s.archetypes[t]
    BY <1>2, <1>7
  <1>11. /\ b.numCurrentEntities = num + n
         /\ b.modificationId = m
         /\ \A i \in 0..(num - 1) : b.slots[i] = a.slots[i]
         /\ \A j \in 1..n :
              /\ b.slots[num + j - 1].id = ids[j]
              /\ ~OverreadMatches => b.slots[num + j - 1].data = [c \in Components(types) |-> Default]
    BY <1>6 DEF Emplaces
  <1>. HIDE DEF new, b
  <1>12. ASSUME NEW t \in DOMAIN u.archetypes
         PROVE  /\ t \subseteq Types /\ ArchetypeOK(t, u.archetypes[t], m)
                /\ Extends(s.archetypes[t], u.archetypes[t])
    <2>1. t \subseteq Types /\ ArchetypeOK(t, s.archetypes[t], m)
      BY <1>2, <1>10 DEF RegistryOK
    <2>2. CASE t = types
      BY <1>6, <1>10, <2>1, <2>2
    <2>3. CASE t # types
      BY <1>2, <1>10, <2>1, <2>3, ExtendsItself
    <2>. QED BY <2>2, <2>3
  <1>13. ASSUME NEW x \in DOMAIN r.entities
         PROVE  Kept(r, u, x) /\ EntityLocated(u, x)
    <2>1. s.entities[x].archetype \in DOMAIN s.archetypes /\ x \in DOMAIN s.entities
      BY <1>2, Location
    <2>2. /\ ArchetypeOK(s.entities[x].archetype, ArchetypeOf(u, x), m)
          /\ Extends(ArchetypeOf(s, x), ArchetypeOf(u, x))
      BY <1>2, <1>9, <1>10, <1>12, <2>1 DEF ArchetypeOf
    <2>3. Kept(s, u, x) /\ EntityLocated(u, x)
      <3>. HIDE DEF m
      <3>. QED BY <1>2, <1>9, <1>10, <2>1, <2>2, KeptInPlace
    <2>. QED BY <1>2, <2>3, KeptTransitive
  <1>14. ASSUME NEW k \in DOMAIN ids
         PROVE  LET x == ids[k].index
                IN  /\ EntityLocated(u, x)
                    /\ u.entities[x].key = ids[k]
                    /\ u.entities[x].archetype = types
                    /\ ~OverreadMatches => DataOf(u, x) = [c \in Components(types) |-> Default]
                    /\ Seen(u, x, m)
    <2> DEFINE x == ids[k].index
    <2>1. /\ u.entities[x] = [key |-> ids[k], archetype |-> types, archetypeIndex |-> num + k - 1]
          /\ ids[k] \in AnyHandle /\ k \in 1..n
      BY <1>5, <1>9
    <2>2. /\ u.entities[x].key = ids[k] /\ u.entities[x].archetype = types
          /\ u.entities[x].archetypeIndex = num + k - 1
          /\ u.entities[x] = [key |-> u.entities[x].key, archetype |-> u.entities[x].archetype,
                              archetypeIndex |-> u.entities[x].archetypeIndex]
      BY <2>1
    <2>3. num + k - 1 \in 0..(b.numCurrentEntities - 1)
      BY <1>4, <1>5, <1>11, <2>1
    <2>4. EntityLocated(u, x)
      BY <1>2, <1>10, <1>11, <2>1, <2>2, <2>3 DEF EntityLocated
    <2>5. ~OverreadMatches => DataOf(u, x) = [c \in Components(types) |-> Default]
      BY <1>10, <1>11, <2>1, <2>2 DEF DataOf, ArchetypeOf
    <2>6. Seen(u, x, m)
      BY <1>2, <1>10, <1>11, <2>2 DEF Seen, ArchetypeOf
    <2>. QED BY <2>2, <2>4, <2>5, <2>6
  <1>15. ASSUME NEW t \in DOMAIN u.archetypes, NEW i \in 0..(u.archetypes[t].numCurrentEntities - 1)
         PROVE  SlotLocated(u, t, i)
    <2>1. CASE t # types \/ i < num
      <3>1. i \in 0..(s.archetypes[t].numCurrentEntities - 1) /\ t \in DOMAIN s.archetypes
        BY <1>4, <1>10, <1>15, <2>1
      <3>2. SlotLocated(s, t, i)
        BY <1>2, <3>1 DEF RegistryOK
      <3>3. u.archetypes[t].slots[i] = s.archetypes[t].slots[i]
        BY <1>10, <1>11, <2>1, <3>1
      <3>. QED BY <1>2, <1>9, <3>2, <3>3 DEF SlotLocated
    <2>2. CASE t = types /\ i >= num
      <3> DEFINE j == i - num + 1
      <3>1. j \in 1..n /\ i = num + j - 1
        BY <1>4, <1>5, <1>10, <1>11, <2>2
      <3>. HIDE DEF j
      <3>2. u.archetypes[t].slots[i].id = ids[j] /\ j \in DOMAIN ids
        BY <1>5, <1>10, <1>11, <2>2, <3>1
      <3>3. /\ ids[j].index \in DOMAIN u.entities
            /\ u.entities[ids[j].index] =
                  [key |-> ids[j], archetype |-> types, archetypeIndex |-> num + j - 1]
        BY <1>9, <3>2
      <3>. QED BY <2>2, <3>1, <3>2, <3>3 DEF SlotLocated
    <2>. QED BY <1>4, <2>1, <2>2
  <1>16. ASSUME NEW x \in DOMAIN u.entities
         PROVE  EntityLocated(u, x)
    <2>1. CASE x \in DOMAIN r.entities
      BY <1>13, <2>1
    <2>2. CASE x \notin DOMAIN r.entities
      <3>1. PICK k \in DOMAIN ids : x = ids[k].index
        BY <1>9, <2>2 DEF Indices
      <3>. QED BY <1>14, <3>1
    <2>. QED BY <2>1, <2>2
  <1>17. RegistryOK(u)
    BY <1>2, <1>7, <1>12, <1>15, <1>16 DEF RegistryOK
  <1>18. Changes(r, u, Indices(ids))
    BY <1>7, <1>9, <1>13, <1>17 DEF Changes
  <1>19. Creates(r, u, types, ids)
    BY <1>7, <1>9, <1>14, <1>18 DEF Creates
  <1>. QED BY <1>19 DEF u

(* Nothing is seen later than the registry's modification id.                   *)
LEMMA SeenInTime ==
  ASSUME NEW r, RegistryOK(r), NEW x \in DOMAIN r.entities, NEW id \in Nat, Seen(r, x, id)
  PROVE  id <= r.modificationId
  <1> DEFINE a == ArchetypeOf(r, x)
             k == ChunkOf(r.entities[x].archetypeIndex)
             Chunk == [numEntities : Nat, modificationId : 0..r.modificationId]
  <1>1. /\ ArchetypeOK(r.entities[x].archetype, a, r.modificationId)
        /\ k \in DOMAIN a.chunks /\ r.modificationId \in Nat
    BY Location
  <1>2. a.modificationId \in 0..r.modificationId /\ a.chunks \in Seq(Chunk)
    BY <1>1 DEF ArchetypeOK, ArchetypeBut
  <1>3. a.chunks[k] \in Chunk
    <2>. HIDE DEF Chunk, k, a
    <2>. QED BY <1>1, <1>2
  <1>4. a.modificationId >= id \/ a.chunks[k].modificationId >= id
    BY DEF Seen
  <1>. HIDE DEF a, k
  <1>. QED BY <1>1, <1>2, <1>3, <1>4

(* q is r, but what is in the slot of entity x may have been moved from.        *)
HoleAt(r, q, x) ==
  LET t == r.entities[x].archetype
      i == r.entities[x].archetypeIndex
      a == r.archetypes[t]
      b == q.archetypes[t]
  IN  /\ DOMAIN q = {"pool", "entities", "archetypes", "modificationId"}
      /\ q.pool = r.pool /\ q.entities = r.entities /\ q.modificationId = r.modificationId
      /\ DOMAIN q.archetypes = DOMAIN r.archetypes
      /\ \A u \in DOMAIN r.archetypes : u # t => q.archetypes[u] = r.archetypes[u]
      /\ ArchetypeBut(t, b, r.modificationId, i)
      /\ b.numCurrentEntities = a.numCurrentEntities
      /\ b.chunks = a.chunks
      /\ \A j \in 0..(a.numCurrentEntities - 1) :
           b.slots[j].id = a.slots[j].id /\ (j # i => b.slots[j].data = a.slots[j].data)

(* s is r without the place of entity x, which m_entities still knows.          *)
Unplaces(r, s, x) ==
  LET t == r.entities[x].archetype
  IN  /\ DOMAIN s = {"pool", "entities", "archetypes", "modificationId"}
      /\ s.pool = r.pool /\ s.modificationId = r.modificationId
      /\ DOMAIN s.entities = DOMAIN r.entities
      /\ DOMAIN s.archetypes = DOMAIN r.archetypes
      /\ \A u \in DOMAIN r.archetypes : u # t => s.archetypes[u] = r.archetypes[u]
      /\ ArchetypeOK(t, s.archetypes[t], r.modificationId)
      /\ DOMAIN s.archetypes[t].chunks = DOMAIN r.archetypes[t].chunks
      /\ \A y \in DOMAIN r.entities \ {x} : Kept(r, s, y) /\ EntityLocated(s, y)
      /\ \A u \in DOMAIN s.archetypes :
           \A j \in 0..(s.archetypes[u].numCurrentEntities - 1) :
             SlotLocated(s, u, j) /\ s.archetypes[u].slots[j].id.index # x

LEMMA PoppedAway ==
  ASSUME NEW r, RegistryOK(r), NEW x \in DOMAIN r.entities, NEW q, HoleAt(r, q, x)
  PROVE  Unplaces(r, pop(q, r.entities[x]), x)
  <1> DEFINE at == r.entities[x]
             t == at.archetype
             i == at.archetypeIndex
             m == r.modificationId
             a == r.archetypes[t]
             d == q.archetypes[t]
             last == a.numCurrentEntities - 1
             l == a.slots[last].id.index
             s == pop(q, at)
             b == move_last_and_pop(d, i, m)
  <1>1. /\ m \in Nat /\ t \in DOMAIN r.archetypes
        /\ ArchetypeOK(t, a, m)
        /\ i \in Nat /\ i < a.numCurrentEntities
    BY Location DEF ArchetypeOf
  <1>2. /\ DOMAIN q = {"pool", "entities", "archetypes", "modificationId"}
        /\ q.pool = r.pool /\ q.entities = r.entities /\ q.modificationId = m
        /\ DOMAIN q.archetypes = DOMAIN r.archetypes
        /\ \A u \in DOMAIN r.archetypes : u # t => q.archetypes[u] = r.archetypes[u]
        /\ ArchetypeBut(t, d, m, i)
        /\ d.numCurrentEntities = a.numCurrentEntities
        /\ d.chunks = a.chunks
        /\ \A j \in 0..(a.numCurrentEntities - 1) :
             d.slots[j].id = a.slots[j].id /\ (j # i => d.slots[j].data = a.slots[j].data)
    BY DEF HoleAt
  <1>a. /\ at = r.entities[x] /\ t = at.archetype /\ i = at.archetypeIndex
        /\ a = r.archetypes[t] /\ d = q.archetypes[t]
    OBVIOUS
  <1>b. last = a.numCurrentEntities - 1
    OBVIOUS
  <1>c. l = a.slots[last].id.index
    OBVIOUS
  <1>. HIDE DEF at, t, i, a, d, m, last, l
  <1>3. a.numCurrentEntities \in Nat /\ last \in Nat /\ i <= last /\ i \in 0..(a.numCurrentEntities - 1)
    <2>1. a.numCurrentEntities \in 0..(Len(a.chunks) * ChunkCapacity) /\ Len(a.chunks) \in Nat
      BY <1>1 DEF ArchetypeOK, ArchetypeBut
    <2>2. a.numCurrentEntities \in Nat
      BY <2>1, ArchetypesAssumption
    <2>. QED BY <1>1, <1>b, <2>2
  <1>4. ArchetypeOK(t, b, m) /\ Pops(d, b, i, m)
    <2>1. i \in 0..(d.numCurrentEntities - 1)
      BY <1>2, <1>3
    <2>. QED BY <1>1, <1>2, <2>1, Popped
  <1>. HIDE DEF b
  <1>5. /\ b.numCurrentEntities = last
        /\ b.modificationId = m
        /\ \A j \in 0..(last - 1) :
             /\ b.slots[j].id = IF j = i THEN a.slots[last].id ELSE a.slots[j].id
             /\ b.slots[j].data = IF j = i THEN a.slots[last].data ELSE a.slots[j].data
        /\ DOMAIN b.chunks = DOMAIN a.chunks
    <2>1. last = d.numCurrentEntities - 1
      BY <1>2, <1>b
    <2>2. d.slots[last].id = a.slots[last].id /\ (last # i => d.slots[last].data = a.slots[last].data)
      BY <1>2, <1>3, <1>b
    <2>3. \A j \in 0..(last - 1) :
            d.slots[j].id = a.slots[j].id /\ (j # i => d.slots[j].data = a.slots[j].data)
      BY <1>2, <1>3, <1>b
    <2>4. \A j \in 0..(last - 1) : j = i => last # i
      BY <1>3
    <2>. QED BY <1>2, <1>4, <2>1, <2>2, <2>3, <2>4 DEF Pops
  <1>6. /\ DOMAIN s = {"pool", "entities", "archetypes", "modificationId"}
        /\ s.pool = r.pool /\ s.modificationId = m
        /\ s.archetypes = [q.archetypes EXCEPT ![t] = b]
        /\ s.entities = IF i = last THEN r.entities
                        ELSE [r.entities EXCEPT ![l].archetypeIndex = i]
    <2>1. d.slots[last].id = a.slots[last].id /\ d.numCurrentEntities - 1 = last
      BY <1>2, <1>3, <1>b
    <2>. QED BY <1>2, <1>a, <1>c, <2>1 DEF pop, b
  <1>. HIDE DEF s
  <1>7. /\ DOMAIN s.archetypes = DOMAIN r.archetypes
        /\ s.archetypes[t] = b
        /\ \A u \in DOMAIN r.archetypes : u # t => s.archetypes[u] = r.archetypes[u]
    BY <1>1, <1>2, <1>6
  <1>8. /\ l \in DOMAIN r.entities
        /\ r.entities[l] = [key |-> a.slots[last].id, archetype |-> t, archetypeIndex |-> last]
    <2>1. last \in 0..(r.archetypes[t].numCurrentEntities - 1)
      BY <1>3, <1>a, <1>b
    <2>2. SlotLocated(r, t, last)
      BY <1>1, <2>1 DEF RegistryOK
    <2>3. l \in DOMAIN r.entities /\ r.entities[l].key = a.slots[last].id
          /\ r.entities[l].archetype = t /\ r.entities[l].archetypeIndex = last
      BY <2>2, <1>a, <1>c DEF SlotLocated
    <2>4. EntityLocated(r, l)
      BY <2>3 DEF RegistryOK
    <2>. QED BY <2>3, <2>4 DEF EntityLocated
  <1>9. /\ DOMAIN s.entities = DOMAIN r.entities
        /\ \A y \in DOMAIN r.entities : y # l \/ i = last => s.entities[y] = r.entities[y]
        /\ i # last => s.entities[l] = [key |-> a.slots[last].id, archetype |-> t, archetypeIndex |-> i]
    <2>1. CASE i = last
      BY <1>6, <2>1
    <2>2. CASE i # last
      BY <1>6, <1>8, <2>2
    <2>. QED BY <2>1, <2>2
  <1>10. a.slots[i].id.index = x
    BY <1>a DEF RegistryOK, EntityLocated
  <1>11. ASSUME NEW y \in DOMAIN r.entities \ {x}
         PROVE  Kept(r, s, y) /\ EntityLocated(s, y)
    <2>1. EntityLocated(r, y)
      BY DEF RegistryOK
    <2>2. CASE r.entities[y].archetype # t
      <3>1. y # l
        BY <1>8, <2>2
      <3>2. s.entities[y] = r.entities[y] /\ y \in DOMAIN s.entities
        BY <1>9, <3>1
      <3>3. /\ r.entities[y].archetype \in DOMAIN s.archetypes
            /\ ArchetypeOf(s, y) = ArchetypeOf(r, y)
            /\ ArchetypeOK(r.entities[y].archetype, ArchetypeOf(r, y), m)
        BY <1>7, <2>2, <3>2, Location DEF ArchetypeOf, m
      <3>4. Extends(ArchetypeOf(r, y), ArchetypeOf(s, y))
        BY <1>1, <3>3, ExtendsItself
      <3>. QED BY <1>1, <3>2, <3>3, <3>4, KeptInPlace
    <2>3. CASE r.entities[y].archetype = t
      <3> DEFINE j == r.entities[y].archetypeIndex
                 k == s.entities[y].archetypeIndex
      <3>1. /\ j \in 0..last /\ a.slots[j].id = r.entities[y].key /\ r.entities[y].key.index = y
            /\ r.entities[y].key \in AnyHandle
        BY <1>3, <1>a, <1>b, <2>1, <2>3 DEF EntityLocated
      <3>2. j # i
        BY <1>10, <3>1
      <3>3. /\ y \in DOMAIN s.entities
            /\ s.entities[y] = [key |-> r.entities[y].key, archetype |-> t, archetypeIndex |-> k]
            /\ k \in 0..(last - 1)
            /\ b.slots[k].id = r.entities[y].key
            /\ b.slots[k].data = a.slots[j].data
        <4>1. CASE j = last
          <5>1. y = l /\ i # last
            BY <1>c, <3>1, <3>2, <4>1
          <5>2. s.entities[y] = [key |-> a.slots[last].id, archetype |-> t, archetypeIndex |-> i]
                /\ r.entities[y].key = a.slots[last].id
            BY <1>8, <1>9, <5>1
          <5>3. k = i /\ i \in 0..(last - 1)
            BY <1>3, <5>1, <5>2
          <5>4. b.slots[i].id = a.slots[last].id /\ b.slots[i].data = a.slots[last].data
            BY <1>5, <5>3
          <5>5. y \in DOMAIN s.entities
            BY <1>9
          <5>. HIDE DEF k, j
          <5>. QED BY <4>1, <5>2, <5>3, <5>4, <5>5
        <4>2. CASE j # last
          <5>1. y # l
            BY <1>8, <4>2
          <5>2. s.entities[y] = r.entities[y] /\ y \in DOMAIN s.entities
            BY <1>9, <5>1
          <5>3. k = j /\ j \in 0..(last - 1)
            BY <1>3, <3>1, <4>2, <5>2
          <5>4. b.slots[j].id = a.slots[j].id /\ b.slots[j].data = a.slots[j].data
            BY <1>5, <3>2, <5>3
          <5>. QED BY <2>1, <2>3, <3>1, <5>2, <5>3, <5>4 DEF EntityLocated
        <4>. QED BY <4>1, <4>2
      <3>4. /\ s.entities[y].key = r.entities[y].key
            /\ s.entities[y].archetype = t
            /\ s.entities[y] = [key |-> s.entities[y].key, archetype |-> s.entities[y].archetype,
                                archetypeIndex |-> s.entities[y].archetypeIndex]
        BY <3>3
      <3>5. DataOf(s, y) = DataOf(r, y)
        BY <1>7, <1>a, <2>3, <3>3, <3>4 DEF DataOf, ArchetypeOf
      <3>6. EntityLocated(s, y)
        <4>. HIDE DEF k
        <4>. QED BY <1>1, <1>5, <1>7, <3>1, <3>3, <3>4 DEF EntityLocated, k
      <3>7. \A id \in Nat : Seen(r, y, id) => Seen(s, y, id)
        <4>1. ASSUME NEW id \in Nat, Seen(r, y, id)
              PROVE  Seen(s, y, id)
          <5>1. id <= m
            BY <4>1, SeenInTime DEF m
          <5>2. ArchetypeOf(s, y).modificationId = m
            BY <1>5, <1>7, <3>4 DEF ArchetypeOf
          <5>. QED BY <1>1, <5>1, <5>2 DEF Seen
        <4>. QED BY <4>1
      <3>. QED BY <2>3, <3>3, <3>4, <3>5, <3>6, <3>7 DEF Kept
    <2>. QED BY <2>2, <2>3
  <1>12. ASSUME NEW u \in DOMAIN s.archetypes, NEW j \in 0..(s.archetypes[u].numCurrentEntities - 1)
         PROVE  SlotLocated(s, u, j) /\ s.archetypes[u].slots[j].id.index # x
    <2>1. CASE u # t
      <3>1. u \in DOMAIN r.archetypes /\ s.archetypes[u] = r.archetypes[u]
        BY <1>7, <2>1
      <3>2. SlotLocated(r, u, j)
        BY <1>12, <3>1 DEF RegistryOK
      <3> DEFINE y == r.archetypes[u].slots[j].id.index
      <3>3. y \in DOMAIN r.entities /\ r.entities[y].archetype = u /\ r.entities[y].archetypeIndex = j
            /\ r.entities[y].key = r.archetypes[u].slots[j].id
        BY <3>2 DEF SlotLocated
      <3>4. y # x /\ y # l
        <4>1. r.entities[x].archetype = t /\ (i # last => r.entities[l].archetype = t)
          BY <1>8, <1>a
        <4>2. y # x
          BY <2>1, <3>3, <4>1
        <4>3. CASE i # last
          BY <2>1, <3>3, <4>1, <4>2, <4>3
        <4>4. CASE i = last
          <5>1. l = x
            BY <1>10, <4>4, <1>c
          <5>. QED BY <4>2, <5>1
        <4>. QED BY <4>2, <4>3, <4>4
      <3>5. s.entities[y] = r.entities[y] /\ y \in DOMAIN s.entities
        BY <1>9, <3>3, <3>4
      <3>. QED BY <3>1, <3>3, <3>4, <3>5 DEF SlotLocated
    <2>2. CASE u = t
      <3> DEFINE k == IF j = i THEN last ELSE j
                 y == a.slots[k].id.index
      <3>1. j \in 0..(last - 1) /\ k \in 0..(a.numCurrentEntities - 1) /\ k # i
        BY <1>3, <1>5, <1>7, <1>12, <1>b, <2>2
      <3>2. b.slots[j].id = a.slots[k].id
        BY <1>5, <3>1
      <3>3. SlotLocated(r, t, k)
        <4>. HIDE DEF k
        <4>. QED BY <1>1, <1>a, <3>1 DEF RegistryOK
      <3>4. y \in DOMAIN r.entities /\ r.entities[y].archetype = t /\ r.entities[y].archetypeIndex = k
            /\ r.entities[y].key = a.slots[k].id
        BY <1>a, <3>3 DEF SlotLocated
      <3>5. y # x
        BY <1>a, <3>1, <3>4
      <3>6. y \in DOMAIN s.entities /\ s.entities[y].archetype = t /\ s.entities[y].archetypeIndex = j
            /\ s.entities[y].key = a.slots[k].id
        <4>1. CASE j = i
          <5>1. y = l /\ i # last /\ k = last
            BY <1>3, <1>c, <3>1, <4>1
          <5>. QED BY <1>8, <1>9, <4>1, <5>1
        <4>2. CASE j # i
          <5>1. k = j /\ j # last
            BY <1>3, <3>1, <4>2
          <5>2. y # l
            BY <1>8, <3>4, <5>1
          <5>. QED BY <1>9, <3>4, <5>1, <5>2
        <4>. QED BY <4>1, <4>2
      <3>. HIDE DEF k
      <3>. QED BY <1>7, <2>2, <3>2, <3>5, <3>6 DEF SlotLocated
    <2>. QED BY <2>1, <2>2
  <1>13. Unplaces(r, s, x)
    <2>1. ArchetypeOK(t, s.archetypes[t], m) /\ DOMAIN s.archetypes[t].chunks = DOMAIN a.chunks
      BY <1>4, <1>5, <1>7
    <2>. QED BY <1>6, <1>7, <1>9, <1>11, <1>12, <1>a, <2>1 DEF Unplaces, m
  <1>. QED BY <1>13, <1>a DEF s

LEMMA AnyHole ==
  ASSUME NEW types, NEW a, NEW m, ArchetypeOK(types, a, m), NEW i
  PROVE  ArchetypeBut(types, a, m, i)
  <1>1. ASSUME NEW j \in DOMAIN a.slots
        PROVE  a.slots[j].data \in
                 [Components(types) -> IF j >= a.numCurrentEntities THEN FreeObject
                                       ELSE IF j = i THEN LiveObject \cup {Moved} ELSE LiveObject]
    <2>1. j # NoHole
      <3>1. DOMAIN a.slots = 0..(Len(a.chunks) * ChunkCapacity - 1)
        BY DEF ArchetypeOK, ArchetypeBut
      <3>. QED BY <3>1 DEF NoHole
    <2>2. a.slots[j].data \in [Components(types) -> IF j >= a.numCurrentEntities THEN FreeObject
                                                    ELSE LiveObject]
      BY <2>1 DEF ArchetypeOK, ArchetypeBut
    <2>. QED BY <2>2
  <1>. QED BY <1>1 DEF ArchetypeOK, ArchetypeBut

(* What destroy does to r.                                                      *)
Destroys(r, s, e) ==
  /\ Changes(r, s, {})
  /\ DOMAIN s.entities = DOMAIN r.entities \ {e.index}
  /\ s.pool = release(r.pool, e)

LEMMA Destroyed ==
  ASSUME NEW r, RegistryOK(r), NEW e, e.index \in DOMAIN r.entities
  PROVE  Destroys(r, destroy(r, e), e)
  <1> DEFINE x == e.index
             u == pop(r, r.entities[x])
             s == destroy(r, e)
             t == r.entities[x].archetype
             m == r.modificationId
  <1>1. /\ m \in Nat /\ t \in DOMAIN r.archetypes
        /\ ArchetypeOK(t, r.archetypes[t], m)
    BY Location DEF ArchetypeOf
  <1>2. HoleAt(r, r, x)
    <2>1. ArchetypeBut(t, r.archetypes[t], m, r.entities[x].archetypeIndex)
      BY <1>1, AnyHole
    <2>. QED BY <2>1 DEF HoleAt, RegistryOK
  <1>3. Unplaces(r, u, x)
    BY <1>2, PoppedAway
  <1>. HIDE DEF u
  <1>4. /\ DOMAIN u = {"pool", "entities", "archetypes", "modificationId"}
        /\ u.pool = r.pool /\ u.modificationId = m
        /\ DOMAIN u.entities = DOMAIN r.entities
        /\ DOMAIN u.archetypes = DOMAIN r.archetypes
        /\ \A v \in DOMAIN r.archetypes : v # t => u.archetypes[v] = r.archetypes[v]
        /\ ArchetypeOK(t, u.archetypes[t], m)
        /\ \A y \in DOMAIN r.entities \ {x} : Kept(r, u, y) /\ EntityLocated(u, y)
        /\ \A v \in DOMAIN u.archetypes :
             \A j \in 0..(u.archetypes[v].numCurrentEntities - 1) :
               SlotLocated(u, v, j) /\ u.archetypes[v].slots[j].id.index # x
    BY <1>3 DEF Unplaces
  <1>5. /\ DOMAIN s = {"pool", "entities", "archetypes", "modificationId"}
        /\ s.pool = release(r.pool, e) /\ s.modificationId = m
        /\ s.archetypes = u.archetypes
        /\ s.entities = [y \in DOMAIN r.entities \ {x} |-> u.entities[y]]
    BY <1>4 DEF destroy, find, u
  <1>. HIDE DEF s
  <1>6. ASSUME NEW y \in DOMAIN s.entities
        PROVE  Kept(r, s, y) /\ EntityLocated(s, y)
    <2>1. s.entities[y] = u.entities[y] /\ y \in DOMAIN r.entities \ {x}
      BY <1>5
    <2>2. Kept(r, u, y) /\ EntityLocated(u, y)
      BY <1>4, <2>1
    <2>. QED BY <1>5, <2>1, <2>2 DEF Kept, EntityLocated, Seen, DataOf, ArchetypeOf
  <1>7. ASSUME NEW v \in DOMAIN s.archetypes
        PROVE  v \subseteq Types /\ ArchetypeOK(v, s.archetypes[v], m)
    BY <1>4, <1>5 DEF RegistryOK
  <1>8. ASSUME NEW v \in DOMAIN s.archetypes, NEW j \in 0..(s.archetypes[v].numCurrentEntities - 1)
        PROVE  SlotLocated(s, v, j)
    <2>1. SlotLocated(u, v, j) /\ u.archetypes[v].slots[j].id.index # x
      BY <1>4, <1>5
    <2> DEFINE id == u.archetypes[v].slots[j].id
    <2>2. /\ id.index \in DOMAIN u.entities /\ id.index # x
          /\ u.entities[id.index].key = id
          /\ u.entities[id.index].archetype = v
          /\ u.entities[id.index].archetypeIndex = j
      BY <2>1 DEF SlotLocated
    <2>3. s.archetypes[v].slots[j].id = id
      BY <1>5
    <2>. HIDE DEF id, x
    <2>4. id.index \in DOMAIN s.entities /\ s.entities[id.index] = u.entities[id.index]
      BY <1>4, <1>5, <2>2
    <2>. QED BY <2>2, <2>3, <2>4 DEF SlotLocated
  <1>9. RegistryOK(s)
    BY <1>1, <1>5, <1>6, <1>7, <1>8 DEF RegistryOK
  <1>10. Destroys(r, s, e)
    BY <1>5, <1>6, <1>9 DEF Destroys, Changes
  <1>. QED BY <1>10 DEF s

(* What move_archetype does to r.                                               *)
Moves(r, s, x, types) ==
  /\ Changes(r, s, {x})
  /\ s.pool = r.pool
  /\ DOMAIN s.entities = DOMAIN r.entities
  /\ s.entities[x].key = r.entities[x].key
  /\ s.entities[x].archetype = types
  /\ IF r.entities[x].archetype = types THEN Kept(r, s, x) ELSE Seen(s, x, r.modificationId)
  /\ ~OverreadMatches => DataOf(s, x) = TakenAlong(types, DataOf(r, x))

LEMMA MovedNowhere ==
  ASSUME NEW r, RegistryOK(r), NEW e, e.index \in DOMAIN r.entities, NEW types,
         r.entities[e.index].archetype = types, NEW overread
  PROVE  move_archetype(r, e, types, overread) = r /\ Moves(r, r, e.index, types)
  <1>1. types \in DOMAIN r.archetypes /\ DataOf(r, e.index) \in [Components(types) -> LiveObject]
    BY Location
  <1>2. move_archetype(r, e, types, overread) = r
    BY <1>1 DEF move_archetype, find, find_or_create_storage
  <1>3. TakenAlong(types, DataOf(r, e.index)) = DataOf(r, e.index)
    BY <1>1 DEF TakenAlong
  <1>. QED BY <1>2, <1>3 DEF Moves, Changes, Kept

LEMMA MovedAway ==
  ASSUME NEW r, RegistryOK(r), NEW e, e.index \in DOMAIN r.entities,
         NEW types, types \subseteq Types, r.entities[e.index].archetype # types,
         NEW overread, overread # {} => OverreadMatches
  PROVE  Moves(r, move_archetype(r, e, types, overread), e.index, types)
  <1> DEFINE x == e.index
             at == r.entities[x]
             t == at.archetype
             i == at.archetypeIndex
             m == r.modificationId
             u == find_or_create_storage(r, types)
             a == u.archetypes[types]
             num == a.numCurrentEntities
             b == reserve_chunks(a, types, ChunkOf(num))
             old == u.archetypes[t].slots[i].data
             data == moved_objects(types, b.slots[num].data, old, overread)
             slot == [id |-> at.key, data |-> data]
             left == [u EXCEPT !.archetypes[t].slots[i].data = moved_from(old, types)]
             p == pop(left, at)
             c == place(b, slot, m)
             d == mark_chunk(p.archetypes[t], ChunkOf(i), m)
             s == move_archetype(r, e, types, overread)
  <1>a. /\ x \in DOMAIN r.entities /\ t # types
        /\ at = r.entities[x] /\ t = at.archetype /\ i = at.archetypeIndex
    OBVIOUS
  <1>1. FindsStorage(r, u, types)
    BY StorageFound
  <1>2. s = [p EXCEPT !.entities[x] = [key |-> at.key, archetype |-> types, archetypeIndex |-> num],
                      !.archetypes[types] = c,
                      !.archetypes[t] = mark_chunk(@, ChunkOf(i), m)]
    <2>. HIDE DEF c, p
    <2>. QED BY DEF move_archetype, find, c, p
  <1>. HIDE DEF s, u
  <1>3. /\ RegistryOK(u) /\ u.modificationId = m /\ m \in Nat
        /\ u.pool = r.pool /\ u.entities = r.entities
        /\ types \in DOMAIN u.archetypes
        /\ \A t1 \in DOMAIN r.archetypes : t1 \in DOMAIN u.archetypes /\ u.archetypes[t1] = r.archetypes[t1]
        /\ \A y \in DOMAIN r.entities : Kept(r, u, y)
    BY <1>1 DEF FindsStorage, Changes, RegistryOK
  <1>4. /\ DOMAIN u = {"pool", "entities", "archetypes", "modificationId"}
        /\ ArchetypeOK(types, a, m)
    BY <1>3 DEF RegistryOK
  <1>5. /\ t \in DOMAIN u.archetypes /\ ArchetypeOK(t, u.archetypes[t], m)
        /\ i \in Nat /\ i < u.archetypes[t].numCurrentEntities
        /\ i \in DOMAIN u.archetypes[t].slots /\ ChunkOf(i) \in DOMAIN u.archetypes[t].chunks
        /\ old \in [Components(t) -> LiveObject]
        /\ old = DataOf(u, x) /\ DataOf(u, x) = DataOf(r, x)
        /\ EntityLocated(u, x)
    <2>1. x \in DOMAIN u.entities /\ u.entities[x] = at
      BY <1>3, <1>a
    <2>2. old = DataOf(u, x) /\ ArchetypeOf(u, x) = u.archetypes[t]
      BY <2>1 DEF DataOf, ArchetypeOf
    <2>. HIDE DEF x, at, t, i, m, old
    <2>. QED BY <1>3, <1>a, <2>1, <2>2, Location DEF Kept
  <1>. HIDE DEF x, at, t, i, m, a, num, old
  <1>6. /\ ArchetypeOK(types, b, m) /\ Reserves(a, b, ChunkOf(num)) /\ Extends(a, b)
        /\ num \in Nat /\ ChunkOf(num) \in Nat
    <2>1. num \in Nat
      BY <1>4, ArchetypesAssumption DEF ArchetypeOK, ArchetypeBut, num
    <2>2. ChunkOf(num) \in Nat
      BY <2>1, ChunkBounds
    <2>3. ArchetypeOK(types, b, m) /\ Reserves(a, b, ChunkOf(num))
      BY <1>3, <1>4, <2>2, ReservedChunks
    <2>. HIDE DEF b
    <2>. QED BY <1>3, <1>4, <2>1, <2>2, <2>3, ReservesExtends
  <1>. HIDE DEF b
  <1>7. /\ b.numCurrentEntities = num /\ Len(b.chunks) >= ChunkOf(b.numCurrentEntities)
        /\ b.slots[num].data \in [Components(types) -> FreeObject]
    <2>1. b.numCurrentEntities = num /\ Len(b.chunks) >= ChunkOf(num)
      BY <1>6 DEF Reserves, num
    <2>2. /\ DOMAIN b.slots = 0..(Len(b.chunks) * ChunkCapacity - 1)
          /\ Len(b.chunks) \in Nat
      BY <1>6 DEF ArchetypeOK, ArchetypeBut
    <2>3. num < Len(b.chunks) * ChunkCapacity /\ Len(b.chunks) * ChunkCapacity \in Nat
      BY <1>6, <2>1, <2>2, ChunkCovers, ArchetypesAssumption
    <2>4. num \in DOMAIN b.slots /\ num >= b.numCurrentEntities
      BY <1>6, <2>1, <2>2, <2>3
    <2>. QED BY <1>6, <2>1, <2>4 DEF ArchetypeOK, ArchetypeBut
  <1>8. /\ data \in [Components(types) -> LiveObject]
        /\ ~OverreadMatches => data = TakenAlong(types, DataOf(r, x))
    <2>1. /\ data \in [Components(types) -> LiveObject]
          /\ ~OverreadMatches => data = TakenAlong(types, old)
      BY <1>5, <1>7, MovedObjects
    <2>. HIDE DEF data
    <2>. QED BY <1>5, <2>1
  <1>. HIDE DEF data
  <1>9. ArchetypeOK(types, c, m) /\ Places(b, c, slot, m)
    <2>1. DOMAIN slot = {"id", "data"} /\ slot.data \in [Components(types) -> LiveObject]
      BY <1>8
    <2>. HIDE DEF slot
    <2>. QED BY <1>3, <1>6, <1>7, <2>1, Placed
  <1>10. HoleAt(u, left, x)
    <2> DEFINE v == u.archetypes[t]
               w == left.archetypes[t]
    <2>1. /\ DOMAIN v = {"numCurrentEntities", "modificationId", "chunks", "slots"}
          /\ DOMAIN v.slots[i] = {"id", "data"}
      BY <1>5 DEF ArchetypeOK, ArchetypeBut
    <2>2. moved_from(old, types) \in [Components(t) -> LiveObject \cup {Moved}]
      BY <1>5, MovedFrom
    <2>3. /\ DOMAIN left = {"pool", "entities", "archetypes", "modificationId"}
          /\ left.pool = u.pool /\ left.entities = u.entities
          /\ left.modificationId = u.modificationId
          /\ left.archetypes = [u.archetypes EXCEPT ![t].slots[i].data = moved_from(old, types)]
      BY <1>4
    <2>. HIDE DEF left
    <2>4. /\ DOMAIN left.archetypes = DOMAIN u.archetypes
          /\ \A t1 \in DOMAIN u.archetypes : t1 # t => left.archetypes[t1] = u.archetypes[t1]
          /\ w = [v EXCEPT !.slots[i].data = moved_from(old, types)]
      BY <1>5, <2>3
    <2>. HIDE DEF v, w
    <2>5. /\ DOMAIN w = {"numCurrentEntities", "modificationId", "chunks", "slots"}
          /\ w.numCurrentEntities = v.numCurrentEntities
          /\ w.modificationId = v.modificationId
          /\ w.chunks = v.chunks
          /\ w.slots = [v.slots EXCEPT ![i].data = moved_from(old, types)]
      BY <2>1, <2>4
    <2>6. /\ DOMAIN w.slots = DOMAIN v.slots
          /\ \A j \in DOMAIN v.slots : j # i => w.slots[j] = v.slots[j]
          /\ w.slots[i] = [v.slots[i] EXCEPT !.data = moved_from(old, types)]
      BY <1>5, <2>5 DEF v
    <2>7. /\ DOMAIN w.slots[i] = {"id", "data"}
          /\ w.slots[i].id = v.slots[i].id
          /\ w.slots[i].data = moved_from(old, types)
      BY <2>1, <2>6
    <2>8. ArchetypeOK(t, v, m) /\ ArchetypeBut(t, v, m, i) /\ i < v.numCurrentEntities /\ i \in Nat
      BY <1>5, AnyHole DEF v
    <2>9. ASSUME NEW j \in DOMAIN w.slots
          PROVE  /\ DOMAIN w.slots[j] = {"id", "data"}
                 /\ w.slots[j].data \in
                      [Components(t) -> IF j >= w.numCurrentEntities THEN FreeObject
                                        ELSE IF j = i THEN LiveObject \cup {Moved} ELSE LiveObject]
      <3>1. CASE j = i
        <4>1. ~ (i >= v.numCurrentEntities)
          BY <2>8, ArchetypesAssumption DEF ArchetypeOK, ArchetypeBut
        <4>. QED BY <2>2, <2>5, <2>7, <3>1, <4>1
      <3>2. CASE j # i
        BY <2>5, <2>6, <2>8, <2>9, <3>2 DEF ArchetypeBut
      <3>. QED BY <3>1, <3>2
    <2>10. ArchetypeBut(t, w, m, i)
      BY <2>5, <2>6, <2>8, <2>9 DEF ArchetypeBut
    <2>11. \A j \in 0..(v.numCurrentEntities - 1) :
             w.slots[j].id = v.slots[j].id /\ (j # i => w.slots[j].data = v.slots[j].data)
      <3>1. \A j \in 0..(v.numCurrentEntities - 1) : j \in DOMAIN v.slots
        <4>1. /\ Len(v.chunks) \in Nat
              /\ v.numCurrentEntities \in 0..(Len(v.chunks) * ChunkCapacity)
              /\ DOMAIN v.slots = 0..(Len(v.chunks) * ChunkCapacity - 1)
          BY <2>8 DEF ArchetypeOK, ArchetypeBut
        <4>2. Len(v.chunks) * ChunkCapacity \in Nat
          BY <4>1, ArchetypesAssumption
        <4>. QED BY <4>1, <4>2
      <3>. QED BY <2>6, <2>7, <3>1
    <2>12. u.entities[x].archetype = t /\ u.entities[x].archetypeIndex = i
      BY <1>3, <1>a
    <2>. QED BY <1>3, <2>3, <2>4, <2>5, <2>10, <2>11, <2>12 DEF HoleAt, v, w
  <1>11. Unplaces(u, p, x)
    <2>1. u.entities[x] = at /\ x \in DOMAIN u.entities
      BY <1>3, <1>a
    <2>. HIDE DEF left
    <2>. QED BY <1>3, <1>10, <2>1, PoppedAway
  <1>. HIDE DEF p
  <1>12. /\ DOMAIN p = {"pool", "entities", "archetypes", "modificationId"}
         /\ p.pool = r.pool /\ p.modificationId = m
         /\ DOMAIN p.entities = DOMAIN r.entities
         /\ DOMAIN p.archetypes = DOMAIN u.archetypes
         /\ \A v \in DOMAIN u.archetypes : v # t => p.archetypes[v] = u.archetypes[v]
         /\ ArchetypeOK(t, p.archetypes[t], m)
         /\ ChunkOf(i) \in DOMAIN p.archetypes[t].chunks
         /\ \A y \in DOMAIN r.entities \ {x} : Kept(u, p, y) /\ EntityLocated(p, y)
         /\ \A v \in DOMAIN p.archetypes :
              \A j \in 0..(p.archetypes[v].numCurrentEntities - 1) :
                SlotLocated(p, v, j) /\ p.archetypes[v].slots[j].id.index # x
    BY <1>3, <1>5, <1>11, <1>a DEF Unplaces
  <1>13. /\ ArchetypeOK(t, d, m) /\ Extends(p.archetypes[t], d)
         /\ d.numCurrentEntities = p.archetypes[t].numCurrentEntities
         /\ d.slots = p.archetypes[t].slots
    <2> DEFINE o == p.archetypes[t]
               k == ChunkOf(i)
    <2>1. ArchetypeOK(t, o, m) /\ k \in DOMAIN o.chunks /\ m \in Nat
      BY <1>3, <1>12
    <2>. HIDE DEF o, k
    <2>2. /\ ArchetypeOK(t, mark_chunk(o, k, m), m) /\ Extends(o, mark_chunk(o, k, m))
          /\ mark_chunk(o, k, m).numCurrentEntities = o.numCurrentEntities
          /\ mark_chunk(o, k, m).slots = o.slots
      BY <2>1, MarkedChunk
    <2>. QED BY <2>2 DEF o, k
  <1>14. /\ DOMAIN s = {"pool", "entities", "archetypes", "modificationId"}
         /\ s.pool = r.pool /\ s.modificationId = m
         /\ s.entities = [p.entities EXCEPT ![x] =
                            [key |-> at.key, archetype |-> types, archetypeIndex |-> num]]
         /\ s.archetypes = [p.archetypes EXCEPT ![types] = c, ![t] = d]
    <2>1. [p.archetypes EXCEPT ![types] = c, ![t] = d] =
            [p.archetypes EXCEPT ![types] = c, ![t] = mark_chunk(@, ChunkOf(i), m)]
      <3>. HIDE DEF c
      <3>. QED BY <1>3, <1>5, <1>12, <1>a
    <2>. HIDE DEF c, d
    <2>. QED BY <1>2, <1>12, <2>1
  <1>. HIDE DEF c, d
  <1>15. /\ DOMAIN s.archetypes = DOMAIN u.archetypes
         /\ s.archetypes[types] = c /\ s.archetypes[t] = d
         /\ \A v \in DOMAIN u.archetypes : v # t /\ v # types => s.archetypes[v] = p.archetypes[v]
         /\ p.archetypes[types] = a
    BY <1>3, <1>5, <1>12, <1>14, <1>a DEF a
  <1>16. /\ DOMAIN s.entities = DOMAIN r.entities
         /\ s.entities[x] = [key |-> at.key, archetype |-> types, archetypeIndex |-> num]
         /\ \A y \in DOMAIN r.entities : y # x => s.entities[y] = p.entities[y]
    BY <1>12, <1>14, <1>a
  <1>17. /\ c.numCurrentEntities = num + 1 /\ c.modificationId = m
         /\ c.slots[num] = slot /\ Extends(a, c)
         /\ \A j \in 0..(num - 1) : c.slots[j] = a.slots[j]
    <2>1. c.numCurrentEntities = num + 1 /\ c.modificationId = m /\ c.slots[num] = slot /\ Extends(b, c)
      BY <1>7, <1>9 DEF Places
    <2>2. \A j \in 0..(num - 1) : c.slots[j] = a.slots[j]
      BY <1>6, <1>7, <2>1 DEF Extends, num
    <2>3. c.modificationId >= a.modificationId /\ c.numCurrentEntities >= num
      <3>1. a.modificationId \in 0..m
        BY <1>4 DEF ArchetypeOK, ArchetypeBut
      <3>. QED BY <1>3, <1>6, <2>1, <3>1
    <2>4. ASSUME NEW k \in DOMAIN a.chunks
          PROVE  k \in DOMAIN c.chunks /\ c.chunks[k].modificationId >= a.chunks[k].modificationId
      <3>1. k \in DOMAIN b.chunks /\ b.chunks[k] = a.chunks[k]
        BY <1>6 DEF Reserves
      <3>. QED BY <2>1, <3>1 DEF Extends
    <2>. QED BY <2>1, <2>2, <2>3, <2>4 DEF Extends, num
  <1>18. ASSUME NEW v \in DOMAIN s.archetypes
         PROVE  /\ v \subseteq Types /\ ArchetypeOK(v, s.archetypes[v], m)
                /\ ArchetypeOK(v, p.archetypes[v], m)
                /\ Extends(p.archetypes[v], s.archetypes[v])
    <2>1. v \subseteq Types /\ ArchetypeOK(v, p.archetypes[v], m)
      BY <1>3, <1>12, <1>15 DEF RegistryOK
    <2>2. CASE v = types
      BY <1>9, <1>15, <1>17, <2>1, <2>2
    <2>3. CASE v = t
      BY <1>13, <1>15, <2>1, <2>3
    <2>4. CASE v # types /\ v # t
      BY <1>3, <1>15, <2>1, <2>4, ExtendsItself
    <2>. QED BY <2>2, <2>3, <2>4
  <1>19. ASSUME NEW y \in DOMAIN r.entities \ {x}
         PROVE  Kept(r, s, y) /\ EntityLocated(s, y)
    <2>1. Kept(r, u, y) /\ Kept(u, p, y) /\ EntityLocated(p, y)
      BY <1>3, <1>12
    <2>2. s.entities[y] = p.entities[y] /\ y \in DOMAIN s.entities
      BY <1>16
    <2>3. p.entities[y].archetype \in DOMAIN s.archetypes
      BY <1>12, <1>15, <2>1 DEF EntityLocated
    <2>4. /\ ArchetypeOK(p.entities[y].archetype, ArchetypeOf(p, y), m)
          /\ ArchetypeOK(p.entities[y].archetype, ArchetypeOf(s, y), m)
          /\ Extends(ArchetypeOf(p, y), ArchetypeOf(s, y))
      BY <1>18, <2>2, <2>3 DEF ArchetypeOf
    <2>5. Kept(p, s, y) /\ EntityLocated(s, y)
      BY <1>3, <2>1, <2>2, <2>3, <2>4, KeptWhereItIs
    <2>6. Kept(r, p, y)
      BY <2>1, KeptTransitive
    <2>. QED BY <2>5, <2>6, KeptTransitive
  <1>20. /\ EntityLocated(s, x)
         /\ s.entities[x].key = at.key /\ s.entities[x].archetype = types
         /\ DataOf(s, x) = data /\ Seen(s, x, m)
    <2>1. /\ s.entities[x].key = at.key /\ s.entities[x].archetype = types
          /\ s.entities[x].archetypeIndex = num
          /\ s.entities[x] = [key |-> s.entities[x].key, archetype |-> s.entities[x].archetype,
                              archetypeIndex |-> s.entities[x].archetypeIndex]
      BY <1>16
    <2>2. at.key \in AnyHandle /\ at.key.index = x
      BY <1>3, <1>5, <1>a DEF EntityLocated
    <2>3. slot.id = at.key /\ slot.data = data
      OBVIOUS
    <2>. HIDE DEF slot
    <2>4. num \in 0..(c.numCurrentEntities - 1)
      BY <1>6, <1>17
    <2>5. EntityLocated(s, x)
      BY <1>3, <1>15, <1>17, <2>1, <2>2, <2>3, <2>4 DEF EntityLocated
    <2>6. DataOf(s, x) = data
      BY <1>15, <1>17, <2>1, <2>3 DEF DataOf, ArchetypeOf
    <2>7. Seen(s, x, m)
      BY <1>3, <1>15, <1>17, <2>1 DEF Seen, ArchetypeOf
    <2>. QED BY <2>1, <2>5, <2>6, <2>7
  <1>21. ASSUME NEW v \in DOMAIN s.archetypes, NEW j \in 0..(s.archetypes[v].numCurrentEntities - 1)
         PROVE  SlotLocated(s, v, j)
    <2>1. CASE v # types \/ j # num
      <3>1. /\ v \in DOMAIN p.archetypes
            /\ j \in 0..(p.archetypes[v].numCurrentEntities - 1)
            /\ s.archetypes[v].slots[j] = p.archetypes[v].slots[j]
        <4>1. CASE v = types
          BY <1>6, <1>12, <1>15, <1>17, <1>21, <2>1, <4>1 DEF num
        <4>2. CASE v = t
          BY <1>12, <1>13, <1>15, <1>21, <4>2
        <4>3. CASE v # types /\ v # t
          BY <1>12, <1>15, <1>21, <4>3
        <4>. QED BY <4>1, <4>2, <4>3
      <3> DEFINE id == p.archetypes[v].slots[j].id
      <3>2. /\ id.index \in DOMAIN p.entities /\ id.index # x
            /\ p.entities[id.index].key = id
            /\ p.entities[id.index].archetype = v
            /\ p.entities[id.index].archetypeIndex = j
        BY <1>12, <3>1 DEF SlotLocated
      <3>3. s.archetypes[v].slots[j].id = id
        BY <3>1
      <3>. HIDE DEF id
      <3>4. s.entities[id.index] = p.entities[id.index] /\ id.index \in DOMAIN s.entities
        BY <1>12, <1>16, <3>2
      <3>. QED BY <3>2, <3>3, <3>4 DEF SlotLocated
    <2>2. CASE v = types /\ j = num
      <3>1. s.archetypes[v].slots[j].id = at.key
        BY <1>15, <1>17, <2>2
      <3>2. at.key.index = x
        BY <1>3, <1>5, <1>a DEF EntityLocated
      <3>. QED BY <1>16, <1>a, <2>2, <3>1, <3>2 DEF SlotLocated
    <2>. QED BY <2>1, <2>2
  <1>22. RegistryOK(s)
    <2>1. \A y \in DOMAIN s.entities : EntityLocated(s, y)
      BY <1>16, <1>19, <1>20
    <2>. QED BY <1>3, <1>14, <1>18, <1>21, <2>1 DEF RegistryOK
  <1>23. Moves(r, s, x, types)
    <2>1. Changes(r, s, {x})
      BY <1>14, <1>16, <1>19, <1>22 DEF Changes, m
    <2>. QED BY <1>8, <1>14, <1>16, <1>20, <1>a, <2>1 DEF Moves, m
  <1>. QED BY <1>23 DEF s, x

LEMMA MovedEntity ==
  ASSUME NEW r, RegistryOK(r), NEW e, e.index \in DOMAIN r.entities,
         NEW types, types \subseteq Types, NEW overread, overread # {} => OverreadMatches
  PROVE  Moves(r, move_archetype(r, e, types, overread), e.index, types)
  <1>1. CASE r.entities[e.index].archetype = types
    <2>1. move_archetype(r, e, types, overread) = r /\ Moves(r, r, e.index, types)
      BY <1>1, MovedNowhere
    <2>. QED BY <2>1
  <1>2. CASE r.entities[e.index].archetype # types
    BY <1>2, MovedAway
  <1>. QED BY <1>1, <1>2

(* r with archetype b for entities of types t.                                  *)
WithArchetype(r, t, b) == [r EXCEPT !.archetypes[t] = b]

(* What calls that notify entities of r do: those of X are seen.                *)
Notifies(r, s, X) ==
  /\ Changes(r, s, {})
  /\ s.pool = r.pool
  /\ s.entities = r.entities
  /\ \A x \in X : Seen(s, x, r.modificationId)

LEMMA ArchetypeReplaced ==
  ASSUME NEW r, RegistryOK(r), NEW t \in DOMAIN r.archetypes, NEW b,
         ArchetypeOK(t, b, r.modificationId), Extends(r.archetypes[t], b),
         b.numCurrentEntities = r.archetypes[t].numCurrentEntities
  PROVE  /\ Notifies(r, WithArchetype(r, t, b), {})
         /\ WithArchetype(r, t, b).archetypes[t] = b
  <1> DEFINE s == WithArchetype(r, t, b)
             m == r.modificationId
  <1>1. /\ DOMAIN r = {"pool", "entities", "archetypes", "modificationId"} /\ m \in Nat
        /\ \A u \in DOMAIN r.archetypes : u \subseteq Types /\ ArchetypeOK(u, r.archetypes[u], m)
    BY DEF RegistryOK
  <1>2. /\ DOMAIN s = {"pool", "entities", "archetypes", "modificationId"}
        /\ s.pool = r.pool /\ s.entities = r.entities /\ s.modificationId = m
        /\ DOMAIN s.archetypes = DOMAIN r.archetypes
        /\ s.archetypes[t] = b
        /\ \A u \in DOMAIN r.archetypes : u # t => s.archetypes[u] = r.archetypes[u]
    BY <1>1 DEF WithArchetype
  <1>. HIDE DEF s
  <1>3. ASSUME NEW u \in DOMAIN s.archetypes
        PROVE  /\ u \subseteq Types /\ ArchetypeOK(u, s.archetypes[u], m)
               /\ Extends(r.archetypes[u], s.archetypes[u])
               /\ s.archetypes[u].numCurrentEntities = r.archetypes[u].numCurrentEntities
    <2>1. CASE u = t
      BY <1>1, <1>2, <2>1
    <2>2. CASE u # t
      BY <1>1, <1>2, <2>2, ExtendsItself
    <2>. QED BY <2>1, <2>2
  <1>4. ASSUME NEW x \in DOMAIN r.entities
        PROVE  Kept(r, s, x) /\ EntityLocated(s, x)
    <2>1. r.entities[x].archetype \in DOMAIN s.archetypes
      BY <1>2, Location
    <2>2. /\ ArchetypeOK(r.entities[x].archetype, ArchetypeOf(s, x), m)
          /\ Extends(ArchetypeOf(r, x), ArchetypeOf(s, x))
      BY <1>2, <1>3, <2>1 DEF ArchetypeOf
    <2>. QED BY <1>1, <1>2, <2>1, <2>2, KeptInPlace
  <1>5. ASSUME NEW u \in DOMAIN s.archetypes, NEW i \in 0..(s.archetypes[u].numCurrentEntities - 1)
        PROVE  SlotLocated(s, u, i)
    <2>1. i \in 0..(r.archetypes[u].numCurrentEntities - 1) /\ u \in DOMAIN r.archetypes
      BY <1>2, <1>3
    <2>2. SlotLocated(r, u, i) /\ s.archetypes[u].slots[i] = r.archetypes[u].slots[i]
      BY <1>3, <2>1 DEF RegistryOK, Extends
    <2>. QED BY <1>2, <2>2 DEF SlotLocated
  <1>6. RegistryOK(s)
    BY <1>1, <1>2, <1>3, <1>4, <1>5 DEF RegistryOK
  <1>7. Notifies(r, s, {})
    BY <1>2, <1>4, <1>6 DEF Notifies, Changes
  <1>. QED BY <1>2, <1>7 DEF s

LEMMA NotifiedEntity ==
  ASSUME NEW r, RegistryOK(r), NEW e, e.index \in DOMAIN r.entities
  PROVE  Notifies(r, notify(r, e), {e.index})
  <1> DEFINE x == e.index
             at == r.entities[x]
             a == r.archetypes[at.archetype]
             m == r.modificationId
             k == ChunkOf(at.archetypeIndex)
             b == mark_chunk(a, k, m)
             c == [b EXCEPT !.modificationId = m]
             s == notify(r, e)
  <1>1. /\ m \in Nat /\ at.archetype \in DOMAIN r.archetypes
        /\ ArchetypeOK(at.archetype, a, m) /\ k \in DOMAIN a.chunks
    BY Location DEF ArchetypeOf
  <1>2. /\ ArchetypeOK(at.archetype, b, m) /\ Extends(a, b)
        /\ b.numCurrentEntities = a.numCurrentEntities
    <2>. HIDE DEF a, k, m, at
    <2>. QED BY <1>1, MarkedChunk
  <1>. HIDE DEF b
  <1>3. /\ ArchetypeOK(at.archetype, c, m) /\ Extends(b, c) /\ c.modificationId = m
        /\ c.numCurrentEntities = b.numCurrentEntities
    <2>1. DOMAIN b = {"numCurrentEntities", "modificationId", "chunks", "slots"}
      BY <1>2 DEF ArchetypeOK, ArchetypeBut
    <2>2. c.numCurrentEntities = b.numCurrentEntities
      BY <2>1
    <2>. HIDE DEF m, at
    <2>. QED BY <1>1, <1>2, <2>2, MarkedArchetype
  <1>. HIDE DEF c
  <1>4. Extends(a, c)
    <2>1. ASSUME NEW j \in DOMAIN a.chunks
          PROVE  j \in DOMAIN c.chunks /\ c.chunks[j].modificationId >= a.chunks[j].modificationId
      <3>1. /\ j \in DOMAIN b.chunks /\ b.chunks[j].modificationId >= a.chunks[j].modificationId
            /\ j \in DOMAIN c.chunks /\ c.chunks[j].modificationId >= b.chunks[j].modificationId
        BY <1>2, <1>3 DEF Extends
      <3>2. ASSUME NEW d, ArchetypeOK(at.archetype, d, m), j \in DOMAIN d.chunks
            PROVE  d.chunks[j].modificationId \in Int
        <4> DEFINE Chunk == [numEntities : Nat, modificationId : 0..m]
        <4>1. d.chunks \in Seq(Chunk)
          BY <3>2 DEF ArchetypeOK, ArchetypeBut
        <4>2. d.chunks[j] \in Chunk
          <5>. HIDE DEF Chunk
          <5>. QED BY <3>2, <4>1
        <4>. QED BY <4>2
      <3>3. /\ a.chunks[j].modificationId \in Int /\ b.chunks[j].modificationId \in Int
            /\ c.chunks[j].modificationId \in Int
        <4>. HIDE DEF a, m, at
        <4>. QED BY <1>1, <1>2, <1>3, <3>1, <3>2
      <3>. HIDE DEF a
      <3>. QED BY <3>1, <3>3
    <2>. HIDE DEF a, m, at, k
    <2>2. a.modificationId \in 0..m /\ a.numCurrentEntities \in Int
      BY <1>1, ArchetypesAssumption DEF ArchetypeOK, ArchetypeBut
    <2>3. c.modificationId >= a.modificationId /\ c.numCurrentEntities >= a.numCurrentEntities
      BY <1>1, <1>2, <1>3, <2>2
    <2>. QED BY <1>2, <1>3, <2>1, <2>3 DEF Extends
  <1>5. s = WithArchetype(r, at.archetype, c)
    BY DEF notify, find, WithArchetype, b, c
  <1>6. /\ Notifies(r, s, {}) /\ s.archetypes[at.archetype] = c
    <2>1. /\ ArchetypeOK(at.archetype, c, r.modificationId)
          /\ Extends(r.archetypes[at.archetype], c)
          /\ c.numCurrentEntities = r.archetypes[at.archetype].numCurrentEntities
      BY <1>2, <1>3, <1>4
    <2>. HIDE DEF s, m, at
    <2>. QED BY <1>1, <1>5, <2>1, ArchetypeReplaced
  <1>. HIDE DEF s
  <1>7. Seen(s, x, m)
    BY <1>1, <1>3, <1>6 DEF Notifies, Seen, ArchetypeOf
  <1>. QED BY <1>6, <1>7 DEF Notifies, s

LEMMA NotifiedChunk ==
  ASSUME NEW r, RegistryOK(r), NEW t \in DOMAIN r.archetypes,
         NEW k \in 1..ChunksFor(r.archetypes[t].numCurrentEntities)
  PROVE  Notifies(r, [r EXCEPT !.archetypes[t] = mark_chunk(@, k, r.modificationId)],
                  {x \in DOMAIN r.entities : /\ r.entities[x].archetype = t
                                            /\ ChunkOf(r.entities[x].archetypeIndex) = k})
  <1> DEFINE a == r.archetypes[t]
             m == r.modificationId
             b == mark_chunk(a, k, m)
             s == WithArchetype(r, t, b)
  <1>1. m \in Nat /\ ArchetypeOK(t, a, m)
    BY DEF RegistryOK
  <1>2. k \in DOMAIN a.chunks
    <2>1. /\ Len(a.chunks) \in Nat /\ DOMAIN a.chunks = 1..Len(a.chunks)
          /\ a.numCurrentEntities \in 0..(Len(a.chunks) * ChunkCapacity)
      BY <1>1 DEF ArchetypeOK, ArchetypeBut
    <2>2. ASSUME NEW l \in Nat, NEW n \in 0..(l * ChunkCapacity)
          PROVE  ChunksFor(n) <= l /\ ChunksFor(n) \in Nat
      BY ArchetypesAssumption DEF ChunksFor
    <2>3. ChunksFor(a.numCurrentEntities) <= Len(a.chunks) /\ ChunksFor(a.numCurrentEntities) \in Nat
      <3>. HIDE DEF a
      <3>. QED BY <2>1, <2>2
    <2>. QED BY <2>1, <2>3
  <1>3. /\ ArchetypeOK(t, b, m) /\ Extends(a, b)
        /\ b.numCurrentEntities = a.numCurrentEntities
        /\ b.chunks[k].modificationId = m
    <2>. HIDE DEF a, m
    <2>. QED BY <1>1, <1>2, MarkedChunk
  <1>. HIDE DEF b
  <1>4. Notifies(r, s, {}) /\ s.archetypes[t] = b
    BY <1>3, ArchetypeReplaced
  <1>. HIDE DEF s
  <1>5. ASSUME NEW x \in DOMAIN r.entities, r.entities[x].archetype = t,
               ChunkOf(r.entities[x].archetypeIndex) = k
        PROVE  Seen(s, x, m)
    BY <1>1, <1>3, <1>4, <1>5 DEF Notifies, Seen, ArchetypeOf
  <1>6. s = [r EXCEPT !.archetypes[t] = mark_chunk(@, k, m)]
    BY DEF s, b, WithArchetype
  <1>7. Notifies(r, s, {x \in DOMAIN r.entities : /\ r.entities[x].archetype = t
                                                  /\ ChunkOf(r.entities[x].archetypeIndex) = k})
    BY <1>4, <1>5 DEF Notifies
  <1>. QED BY <1>6, <1>7

(* What a client that writes components of entity x does to r.                  *)
Assigns(r, s, x, components, v) ==
  /\ Changes(r, s, {x})
  /\ s.pool = r.pool
  /\ s.entities = r.entities
  /\ \A id \in Nat : Seen(r, x, id) => Seen(s, x, id)
  /\ DataOf(s, x) = [c \in DOMAIN DataOf(r, x) |-> IF c \in components THEN v ELSE DataOf(r, x)[c]]

LEMMA Assigned ==
  ASSUME NEW r, RegistryOK(r), NEW e, e.index \in DOMAIN r.entities,
         NEW components, NEW v \in Value
  PROVE  Assigns(r, assign(r, e, components, v), e.index, components, v)
  <1> DEFINE x == e.index
             at == r.entities[x]
             t == at.archetype
             i == at.archetypeIndex
             a == r.archetypes[t]
             m == r.modificationId
             old == a.slots[i].data
             new == [c \in DOMAIN old |-> IF c \in components THEN v ELSE old[c]]
             b == [a EXCEPT !.slots[i].data = new]
             s == assign(r, e, components, v)
  <1>a. x \in DOMAIN r.entities /\ at = r.entities[x] /\ t = at.archetype /\ i = at.archetypeIndex
        /\ a = r.archetypes[t] /\ old = a.slots[i].data /\ old = DataOf(r, x) /\ ArchetypeOf(r, x) = a
    BY DEF DataOf, ArchetypeOf
  <1>1. /\ m \in Nat /\ t \in DOMAIN r.archetypes /\ t \subseteq Types
        /\ ArchetypeOK(t, a, m)
        /\ i \in Nat /\ i < a.numCurrentEntities /\ i \in DOMAIN a.slots
        /\ old \in [Components(t) -> LiveObject]
    BY <1>a, Location
  <1>2. s.archetypes = [r.archetypes EXCEPT ![t].slots[i].data = new]
        /\ DOMAIN s = {"pool", "entities", "archetypes", "modificationId"}
        /\ s.pool = r.pool /\ s.entities = r.entities /\ s.modificationId = m
    <2>1. DOMAIN r = {"pool", "entities", "archetypes", "modificationId"}
      BY DEF RegistryOK
    <2>. QED BY <2>1 DEF assign, find
  <1>. HIDE DEF s, x, at, t, i, a, m, old
  <1>3. new \in [Components(t) -> LiveObject]
    BY <1>1 DEF LiveObject
  <1>4. new = [c \in DOMAIN DataOf(r, x) |-> IF c \in components THEN v ELSE DataOf(r, x)[c]]
    BY <1>a
  <1>. HIDE DEF new
  <1>5. /\ DOMAIN a = {"numCurrentEntities", "modificationId", "chunks", "slots"}
        /\ DOMAIN a.slots[i] = {"id", "data"}
    BY <1>1 DEF ArchetypeOK, ArchetypeBut
  <1>6. /\ DOMAIN s.archetypes = DOMAIN r.archetypes
        /\ \A u \in DOMAIN r.archetypes : u # t => s.archetypes[u] = r.archetypes[u]
        /\ s.archetypes[t] = b
    <2>1. s.archetypes = [r.archetypes EXCEPT ![t] = b]
      BY <1>2, <1>a
    <2>. HIDE DEF b
    <2>. QED BY <1>1, <2>1
  <1>7. /\ DOMAIN b = {"numCurrentEntities", "modificationId", "chunks", "slots"}
        /\ b.numCurrentEntities = a.numCurrentEntities
        /\ b.modificationId = a.modificationId
        /\ b.chunks = a.chunks
        /\ b.slots = [a.slots EXCEPT ![i].data = new]
    BY <1>5
  <1>. HIDE DEF b
  <1>8. /\ DOMAIN b.slots = DOMAIN a.slots
        /\ \A j \in DOMAIN a.slots : j # i => b.slots[j] = a.slots[j]
        /\ b.slots[i] = [a.slots[i] EXCEPT !.data = new]
    BY <1>1, <1>7
  <1>9. DOMAIN b.slots[i] = {"id", "data"} /\ b.slots[i].id = a.slots[i].id /\ b.slots[i].data = new
    BY <1>5, <1>8
  <1>10. ArchetypeOK(t, b, m)
    <2>1. ASSUME NEW j \in DOMAIN b.slots
          PROVE  /\ DOMAIN b.slots[j] = {"id", "data"}
                 /\ b.slots[j].data \in
                      [Components(t) -> IF j >= b.numCurrentEntities THEN FreeObject
                                        ELSE IF j = NoHole THEN LiveObject \cup {Moved} ELSE LiveObject]
      <3>1. CASE j = i
        <4>1. ~ (i >= a.numCurrentEntities) /\ i # NoHole
          BY <1>1, ArchetypesAssumption DEF ArchetypeOK, ArchetypeBut, NoHole
        <4>. QED BY <1>3, <1>7, <1>9, <3>1, <4>1
      <3>2. CASE j # i
        BY <1>1, <1>7, <1>8, <3>2 DEF ArchetypeOK, ArchetypeBut
      <3>. QED BY <3>1, <3>2
    <2>. QED BY <1>1, <1>7, <1>8, <2>1 DEF ArchetypeOK, ArchetypeBut
  <1>11. ASSUME NEW u \in DOMAIN s.archetypes
         PROVE  /\ u \subseteq Types /\ ArchetypeOK(u, s.archetypes[u], m)
                /\ s.archetypes[u].numCurrentEntities = r.archetypes[u].numCurrentEntities
                /\ s.archetypes[u].chunks = r.archetypes[u].chunks
                /\ s.archetypes[u].modificationId = r.archetypes[u].modificationId
    <2>1. CASE u = t
      BY <1>1, <1>6, <1>7, <1>10, <1>a, <2>1
    <2>2. CASE u # t
      BY <1>6, <2>2 DEF RegistryOK, m
    <2>. QED BY <2>1, <2>2
  <1>12. ASSUME NEW u \in DOMAIN s.archetypes, NEW j \in 0..(r.archetypes[u].numCurrentEntities - 1)
         PROVE  /\ s.archetypes[u].slots[j].id = r.archetypes[u].slots[j].id
                /\ u # t \/ j # i => s.archetypes[u].slots[j] = r.archetypes[u].slots[j]
    <2>1. CASE u = t
      <3>1. j \in DOMAIN a.slots
        <4>1. /\ a.numCurrentEntities \in 0..(Len(a.chunks) * ChunkCapacity)
              /\ DOMAIN a.slots = 0..(Len(a.chunks) * ChunkCapacity - 1)
              /\ Len(a.chunks) \in Nat
          BY <1>1 DEF ArchetypeOK, ArchetypeBut
        <4>2. Len(a.chunks) * ChunkCapacity \in Nat
          BY <4>1, ArchetypesAssumption
        <4>. QED BY <1>12, <1>a, <2>1, <4>1, <4>2
      <3>2. s.archetypes[u] = b /\ r.archetypes[u] = a
        BY <1>6, <1>a, <2>1
      <3>3. CASE j = i
        BY <1>9, <2>1, <3>2, <3>3
      <3>4. CASE j # i
        BY <1>8, <3>1, <3>2, <3>4
      <3>. QED BY <3>3, <3>4
    <2>2. CASE u # t
      BY <1>6, <2>2
    <2>. QED BY <2>1, <2>2
  <1>13. ASSUME NEW y \in DOMAIN r.entities
         PROVE  /\ EntityLocated(s, y)
                /\ \A id \in Nat : Seen(r, y, id) => Seen(s, y, id)
                /\ y # x => DataOf(s, y) = DataOf(r, y)
    <2>1. EntityLocated(r, y)
      BY DEF RegistryOK
    <2> DEFINE u == r.entities[y].archetype
               j == r.entities[y].archetypeIndex
    <2>2. u \in DOMAIN r.archetypes /\ j \in 0..(r.archetypes[u].numCurrentEntities - 1)
          /\ r.archetypes[u].slots[j].id = r.entities[y].key /\ r.entities[y].key.index = y
      BY <2>1 DEF EntityLocated
    <2>3. s.archetypes[u].slots[j].id = r.entities[y].key /\ u \in DOMAIN s.archetypes
      BY <1>6, <1>12, <2>2
    <2>4. j \in 0..(s.archetypes[u].numCurrentEntities - 1)
      BY <1>11, <2>2, <2>3
    <2>5. EntityLocated(s, y)
      BY <1>2, <2>1, <2>3, <2>4 DEF EntityLocated
    <2>6. \A id \in Nat : Seen(r, y, id) => Seen(s, y, id)
      BY <1>2, <1>11, <2>3 DEF Seen, ArchetypeOf
    <2>7. ASSUME y # x
          PROVE  DataOf(s, y) = DataOf(r, y)
      <3>1. u # t \/ j # i
        <4>1. SUFFICES ASSUME u = t, j = i
                       PROVE  FALSE
          OBVIOUS
        <4>2. a.slots[i].id.index = x
          <5>1. EntityLocated(r, x)
            BY <1>a DEF RegistryOK
          <5>. QED BY <1>a, <5>1 DEF EntityLocated
        <4>3. a.slots[i].id.index = y
          BY <1>a, <2>2, <4>1
        <4>. QED BY <2>7, <4>2, <4>3
      <3>2. s.archetypes[u].slots[j] = r.archetypes[u].slots[j]
        BY <1>12, <2>2, <2>3, <3>1
      <3>. QED BY <1>2, <3>2 DEF DataOf, ArchetypeOf
    <2>. QED BY <2>5, <2>6, <2>7
  <1>14. ASSUME NEW u \in DOMAIN s.archetypes, NEW j \in 0..(s.archetypes[u].numCurrentEntities - 1)
         PROVE  SlotLocated(s, u, j)
    <2>1. u \in DOMAIN r.archetypes /\ j \in 0..(r.archetypes[u].numCurrentEntities - 1)
      BY <1>6, <1>11
    <2>2. SlotLocated(r, u, j) /\ s.archetypes[u].slots[j].id = r.archetypes[u].slots[j].id
      BY <1>12, <2>1 DEF RegistryOK
    <2>. QED BY <1>2, <2>2 DEF SlotLocated
  <1>15. RegistryOK(s)
    BY <1>1, <1>2, <1>11, <1>13, <1>14 DEF RegistryOK
  <1>16. DataOf(s, x) = new
    BY <1>2, <1>6, <1>9, <1>a DEF DataOf, ArchetypeOf
  <1>17. Changes(r, s, {x})
    BY <1>2, <1>13, <1>15 DEF Changes, Kept, m
  <1>18. Assigns(r, s, x, components, v)
    BY <1>2, <1>4, <1>13, <1>16, <1>17, <1>a DEF Assigns
  <1>. QED BY <1>18 DEF s, x

LEMMA AllDestroyed ==
  ASSUME NEW r, RegistryOK(r)
  PROVE  /\ Changes(r, destroy_all(r), {})
         /\ DOMAIN destroy_all(r).entities = {}
         /\ destroy_all(r).pool = EmptyPool
  <1> DEFINE s == destroy_all(r)
             m == r.modificationId
  <1>1. DOMAIN r = {"pool", "entities", "archetypes", "modificationId"} /\ m \in Nat
    BY DEF RegistryOK
  <1>2. /\ DOMAIN s = {"pool", "entities", "archetypes", "modificationId"}
        /\ s.pool = EmptyPool /\ s.entities = [x \in {} |-> 0] /\ s.modificationId = m
        /\ s.archetypes = [t \in DOMAIN r.archetypes |-> destroy_slots(r.archetypes[t], m)]
    BY <1>1 DEF destroy_all
  <1>. HIDE DEF s
  <1>3. ASSUME NEW t \in DOMAIN s.archetypes
        PROVE  /\ t \subseteq Types /\ ArchetypeOK(t, s.archetypes[t], m)
               /\ s.archetypes[t].numCurrentEntities = 0
    <2>1. t \subseteq Types /\ ArchetypeOK(t, r.archetypes[t], m) /\ t \in DOMAIN r.archetypes
      BY <1>2 DEF RegistryOK
    <2>. QED BY <1>1, <1>2, <2>1, DestroyedSlots
  <1>4. RegistryOK(s)
    <2>1. \A t \in DOMAIN s.archetypes : \A i \in 0..(s.archetypes[t].numCurrentEntities - 1) : FALSE
      BY <1>3
    <2>. QED BY <1>1, <1>2, <1>3, <2>1 DEF RegistryOK
  <1>5. DOMAIN s.entities = {}
    BY <1>2
  <1>. QED BY <1>2, <1>4, <1>5 DEF Changes, s

-----------------------------------------------------------------------------
(* The pool *)

(* q is the pool after the handles `new` were acquired from it.                 *)
Acquires(pool, q, new, n) ==
  /\ PoolOK(q) /\ Distinct(q.handles)
  /\ new \in Seq(AnyHandle) /\ Len(new) = n /\ Distinct(new)
  /\ Indices(new) \cap Indices(q.handles) = {}
  /\ Indices(pool.handles) \subseteq Indices(new) \cup Indices(q.handles)
  /\ Indices(q.handles) \subseteq Indices(pool.handles)
  /\ \A x \in Indices(new) : x \in Indices(pool.handles) \/ x \notin 1..pool.lastHandle
  /\ 1..q.lastHandle = 1..pool.lastHandle \cup Indices(new)

LEMMA PoolAcquired ==
  ASSUME NEW pool, PoolOK(pool), Distinct(pool.handles),
         Indices(pool.handles) \subseteq 1..pool.lastHandle, NEW n \in Nat
  PROVE  Acquires(pool, acquire(pool, n), acquired(pool, n), n)
  <1> DEFINE free == pool.handles
             f == Len(free)
             top == pool.lastHandle
             new == acquired(pool, n)
             q == acquire(pool, n)
  <1>1. /\ DOMAIN pool = {"handles", "lastHandle"}
        /\ free \in Seq(AnyHandle) /\ f \in Nat /\ DOMAIN free = 1..f /\ top \in Nat
    BY DEF PoolOK
  <1>2. \A k \in 1..f : free[k] \in AnyHandle /\ free[k].index \in 1..top
    BY <1>1 DEF Indices
  <1>3. \A j, k \in 1..f : j # k => free[j].index # free[k].index
    BY <1>1 DEF Distinct
  <1>4. new = [k \in 1..n |-> IF k <= f THEN free[k] ELSE [index |-> top + k - f, gen |-> 0]]
    BY DEF acquired
  <1>. HIDE DEF new
  <1>5. /\ DOMAIN new = 1..n
        /\ \A k \in 1..n : k <= f => new[k] = free[k]
        /\ \A k \in 1..n : k > f => new[k] = [index |-> top + k - f, gen |-> 0]
    BY <1>1, <1>4
  <1>6. \A k \in 1..n : new[k] \in AnyHandle
    <2>1. ASSUME NEW k \in 1..n
          PROVE  new[k] \in AnyHandle
      <3>1. CASE k <= f
        <4>1. k \in 1..f
          BY <1>1, <3>1
        <4>. QED BY <1>2, <1>5, <3>1, <4>1
      <3>2. CASE ~ (k <= f)
        <4>1. top + k - f \in Nat /\ k > f
          BY <1>1, <3>2
        <4>. QED BY <1>5, <4>1 DEF AnyHandle
      <3>. QED BY <3>1, <3>2
    <2>. QED BY <2>1
  <1>7. new \in Seq(AnyHandle) /\ Len(new) = n
    <2>1. new \in [1..n -> AnyHandle]
      BY <1>4, <1>6
    <2>. QED BY <2>1
  <1>. HIDE DEF free, f, top
  <1>8. Distinct(new)
    <2>1. ASSUME NEW j \in 1..n, NEW k \in 1..n, j < k
          PROVE  new[j].index # new[k].index
      <3>1. CASE k <= f
        <4>1. j \in 1..f /\ k \in 1..f /\ j <= f
          BY <1>1, <2>1, <3>1
        <4>. QED BY <1>3, <1>5, <2>1, <3>1, <4>1
      <3>2. CASE ~ (k <= f) /\ j <= f
        <4>1. j \in 1..f /\ k > f
          BY <1>1, <3>2
        <4>2. new[j].index \in 1..top /\ new[k].index = top + k - f
          BY <1>2, <1>5, <3>2, <4>1
        <4>. QED BY <1>1, <4>1, <4>2
      <3>3. CASE ~ (k <= f) /\ ~ (j <= f)
        <4>1. k > f /\ j > f
          BY <1>1, <3>3
        <4>2. new[j].index = top + j - f /\ new[k].index = top + k - f
          BY <1>5, <4>1
        <4>. QED BY <1>1, <2>1, <4>1, <4>2
      <3>. QED BY <3>1, <3>2, <3>3
    <2>2. ASSUME NEW j \in 1..n, NEW k \in 1..n, j # k
          PROVE  new[j].index # new[k].index
      <3>1. j < k \/ k < j
        BY <2>2
      <3>. QED BY <2>1, <3>1
    <2>. QED BY <1>5, <2>2 DEF Distinct
  <1>9. CASE n <= f
    <2>1. /\ DOMAIN q = {"handles", "lastHandle"} /\ q.lastHandle = top
          /\ q.handles = SubSeq(free, n + 1, f)
      BY <1>1, <1>9 DEF acquire, free, f, top
    <2>. HIDE DEF q
    <2>2. /\ q.handles \in Seq(AnyHandle) /\ Len(q.handles) = f - n /\ DOMAIN q.handles = 1..(f - n)
          /\ \A k \in 1..(f - n) : q.handles[k] = free[n + k]
      BY <1>1, <1>9, <2>1 DEF f
    <2>3. Distinct(q.handles)
      <3>1. ASSUME NEW j \in 1..(f - n), NEW k \in 1..(f - n), j # k
            PROVE  q.handles[j].index # q.handles[k].index
        <4>1. n + j \in 1..f /\ n + k \in 1..f /\ n + j # n + k
          BY <1>1, <1>9, <3>1
        <4>. QED BY <1>3, <2>2, <4>1
      <3>. QED BY <2>2, <3>1 DEF Distinct
    <2>4. Indices(new) \cap Indices(q.handles) = {}
      <3>1. ASSUME NEW j \in 1..n, NEW k \in 1..(f - n)
            PROVE  new[j].index # q.handles[k].index
        <4>1. j \in 1..f /\ n + k \in 1..f /\ j # n + k /\ j <= f
          BY <1>1, <1>9
        <4>. QED BY <1>3, <1>5, <2>2, <4>1
      <3>. QED BY <1>5, <2>2, <3>1 DEF Indices
    <2>5. Indices(free) \subseteq Indices(new) \cup Indices(q.handles)
      <3>1. ASSUME NEW k \in 1..f
            PROVE  free[k].index \in Indices(new) \cup Indices(q.handles)
        <4>1. CASE k <= n
          <5>1. k \in 1..n /\ k <= f
            BY <1>1, <4>1
          <5>. QED BY <1>5, <5>1 DEF Indices
        <4>2. CASE ~ (k <= n)
          <5>1. k - n \in 1..(f - n) /\ n + (k - n) = k
            BY <1>1, <4>2
          <5>2. q.handles[k - n] = free[k]
            BY <2>2, <5>1
          <5>. QED BY <2>2, <5>1, <5>2 DEF Indices
        <4>. QED BY <4>1, <4>2
      <3>. QED BY <1>1, <3>1 DEF Indices
    <2>6. Indices(q.handles) \subseteq Indices(free)
      <3>1. ASSUME NEW k \in 1..(f - n)
            PROVE  q.handles[k].index \in Indices(free)
        <4>1. n + k \in 1..f
          BY <1>1, <1>9
        <4>. QED BY <1>1, <2>2, <4>1 DEF Indices
      <3>. QED BY <2>2, <3>1 DEF Indices
    <2>7. Indices(new) \subseteq Indices(free)
      <3>1. ASSUME NEW k \in 1..n
            PROVE  new[k].index \in Indices(free)
        <4>1. k \in 1..f /\ k <= f
          BY <1>1, <1>9
        <4>. QED BY <1>1, <1>5, <4>1 DEF Indices
      <3>. QED BY <1>5, <3>1 DEF Indices
    <2>8. Indices(free) \subseteq 1..top
      BY <1>1, <1>2 DEF Indices
    <2>9. PoolOK(q)
      BY <1>1, <2>1, <2>2 DEF PoolOK
    <2>. QED BY <1>7, <1>8, <2>1, <2>3, <2>4, <2>5, <2>6, <2>7, <2>8, <2>9 DEF Acquires, q, new, free, top
  <1>10. CASE ~ (n <= f)
    <2>1. q = [handles |-> << >>, lastHandle |-> top + n - f]
      BY <1>1, <1>10 DEF acquire, free, f, top
    <2>. HIDE DEF q
    <2>2. DOMAIN q.handles = {} /\ q.handles = << >> /\ q.lastHandle = top + n - f /\ top + n - f \in Nat
      BY <1>1, <1>10, <2>1
    <2>3. PoolOK(q) /\ Distinct(q.handles) /\ Indices(q.handles) = {}
      <3>1. q.handles \in Seq(AnyHandle)
        BY <2>2
      <3>. QED BY <2>1, <2>2, <3>1 DEF PoolOK, Distinct, Indices
    <2>4. Indices(free) \subseteq Indices(new)
      <3>1. ASSUME NEW k \in 1..f
            PROVE  free[k].index \in Indices(new)
        <4>1. k \in 1..n /\ k <= f
          BY <1>1, <1>10
        <4>. QED BY <1>5, <4>1 DEF Indices
      <3>. QED BY <1>1, <3>1 DEF Indices
    <2>5. \A x \in Indices(new) : x \in Indices(free) \/ x \in (top + 1)..(top + n - f)
      <3>1. ASSUME NEW k \in 1..n
            PROVE  new[k].index \in Indices(free) \/ new[k].index \in (top + 1)..(top + n - f)
        <4>1. CASE k <= f
          <5>1. k \in 1..f
            BY <1>1, <4>1
          <5>. QED BY <1>1, <1>5, <4>1, <5>1 DEF Indices
        <4>2. CASE ~ (k <= f)
          <5>1. k > f /\ new[k].index = top + k - f
            BY <1>1, <1>5, <4>2
          <5>. QED BY <1>1, <1>10, <5>1
        <4>. QED BY <4>1, <4>2
      <3>. QED BY <1>5, <3>1 DEF Indices
    <2>6. \A x \in (top + 1)..(top + n - f) : x \in Indices(new)
      <3>1. ASSUME NEW x \in (top + 1)..(top + n - f)
            PROVE  x \in Indices(new)
        <4> DEFINE k == x - top + f
        <4>1. k \in 1..n /\ k > f /\ top + k - f = x
          BY <1>1, <1>10
        <4>. HIDE DEF k
        <4>. QED BY <1>5, <4>1 DEF Indices
      <3>. QED BY <3>1
    <2>7. Indices(free) \subseteq 1..top
      BY <1>1, <1>2 DEF Indices
    <2>8. 1..q.lastHandle = 1..top \cup Indices(new)
      <3>1. 1..q.lastHandle = 1..top \cup (top + 1)..(top + n - f)
        BY <1>1, <1>10, <2>2
      <3>2. 1..top \cup Indices(new) = 1..top \cup (top + 1)..(top + n - f)
        BY <2>5, <2>6, <2>7
      <3>. QED BY <3>1, <3>2
    <2>9. \A x \in Indices(new) : x \in Indices(free) \/ x \notin 1..top
      BY <1>1, <2>5
    <2>. QED BY <1>7, <1>8, <2>3, <2>4, <2>8, <2>9 DEF Acquires, q, new, free, top
  <1>. QED BY <1>9, <1>10

LEMMA PoolReleased ==
  ASSUME NEW pool, PoolOK(pool), Distinct(pool.handles), NEW e \in AnyHandle,
         e.index \notin Indices(pool.handles)
  PROVE  /\ PoolOK(release(pool, e)) /\ Distinct(release(pool, e).handles)
         /\ Indices(release(pool, e).handles) = Indices(pool.handles) \cup {e.index}
         /\ release(pool, e).lastHandle = pool.lastHandle
  <1> DEFINE free == pool.handles
             h == increment_gen(e)
             q == release(pool, e)
  <1>1. DOMAIN pool = {"handles", "lastHandle"} /\ free \in Seq(AnyHandle) /\ pool.lastHandle \in Nat
    BY DEF PoolOK
  <1>2. h \in AnyHandle /\ h.index = e.index
    BY HandlePoolAssumption DEF increment_gen, AnyHandle
  <1>3. DOMAIN q = {"handles", "lastHandle"} /\ q.handles = Append(free, h)
        /\ q.lastHandle = pool.lastHandle
    BY <1>1 DEF release
  <1>. HIDE DEF q, h, free
  <1>4. /\ q.handles \in Seq(AnyHandle) /\ DOMAIN q.handles = 1..(Len(free) + 1) /\ Len(free) \in Nat
        /\ DOMAIN free = 1..Len(free)
        /\ \A k \in 1..Len(free) : q.handles[k] = free[k]
        /\ q.handles[Len(free) + 1] = h
    BY <1>1, <1>2, <1>3
  <1>5. Indices(q.handles) = Indices(free) \cup {e.index}
    BY <1>2, <1>4 DEF Indices
  <1>6. Distinct(q.handles)
    <2>1. ASSUME NEW j \in 1..(Len(free) + 1), NEW k \in 1..(Len(free) + 1), j # k
          PROVE  q.handles[j].index # q.handles[k].index
      <3>1. CASE j \in 1..Len(free) /\ k \in 1..Len(free)
        BY <1>4, <2>1, <3>1 DEF Distinct, free
      <3>2. CASE j = Len(free) + 1 /\ k \in 1..Len(free)
        BY <1>2, <1>4, <3>2 DEF Indices, free
      <3>3. CASE k = Len(free) + 1 /\ j \in 1..Len(free)
        BY <1>2, <1>4, <3>3 DEF Indices, free
      <3>. QED BY <1>4, <2>1, <3>1, <3>2, <3>3
    <2>. QED BY <1>4, <2>1 DEF Distinct
  <1>. QED BY <1>1, <1>3, <1>4, <1>5, <1>6 DEF PoolOK, q, free

(* An index that is acquired has no owner.                                      *)
LEMMA AcquiredUnowned ==
  ASSUME NEW pool, NEW used, NEW ids, OwnedOnce(pool, used, ids), NEW n \in Nat
  PROVE  /\ Acquires(pool, acquire(pool, n), acquired(pool, n), n)
         /\ Indices(acquired(pool, n)) \cap (used \cup {e.index : e \in ids}) = {}
  <1>1. Indices(pool.handles) \subseteq 1..pool.lastHandle
    BY DEF OwnedOnce
  <1>2. Acquires(pool, acquire(pool, n), acquired(pool, n), n)
    BY <1>1, PoolAcquired DEF OwnedOnce
  <1> DEFINE new == acquired(pool, n)
             given == used \cup {e.index : e \in ids}
  <1>. HIDE DEF new
  <1>3. \A x \in Indices(new) : x \in Indices(pool.handles) \/ x \notin 1..pool.lastHandle
    BY <1>2 DEF Acquires, new
  <1>4. given \cap Indices(pool.handles) = {} /\ given \subseteq 1..pool.lastHandle
    BY DEF OwnedOnce
  <1>. QED BY <1>2, <1>3, <1>4 DEF new

LEMMA OwnedByNew ==
  ASSUME NEW pool, NEW used, NEW ids, OwnedOnce(pool, used, ids), NEW n \in Nat
  PROVE  OwnedOnce(acquire(pool, n), used \cup Indices(acquired(pool, n)), ids)
  <1> DEFINE new == acquired(pool, n)
             q == acquire(pool, n)
             given == {e.index : e \in ids}
  <1>1. Acquires(pool, q, new, n) /\ Indices(new) \cap (used \cup given) = {}
    BY AcquiredUnowned
  <1>. HIDE DEF new, q
  <1>2. /\ ids \subseteq AnyHandle
        /\ \A d, e \in ids : d.index = e.index => d = e
        /\ used \cap given = {}
        /\ (used \cup given) \cap Indices(pool.handles) = {}
        /\ 1..pool.lastHandle = used \cup given \cup Indices(pool.handles)
    BY DEF OwnedOnce
  <1>3. /\ PoolOK(q) /\ Distinct(q.handles)
        /\ Indices(new) \cap Indices(q.handles) = {}
        /\ Indices(pool.handles) \subseteq Indices(new) \cup Indices(q.handles)
        /\ Indices(q.handles) \subseteq Indices(pool.handles)
        /\ 1..q.lastHandle = 1..pool.lastHandle \cup Indices(new)
    BY <1>1 DEF Acquires
  <1>. HIDE DEF given
  <1>4. (used \cup Indices(new)) \cap given = {}
    BY <1>1, <1>2
  <1>5. (used \cup Indices(new) \cup given) \cap Indices(q.handles) = {}
    BY <1>2, <1>3
  <1>6. 1..q.lastHandle = used \cup Indices(new) \cup given \cup Indices(q.handles)
    BY <1>2, <1>3
  <1>7. OwnedOnce(q, used \cup Indices(new), ids)
    BY <1>2, <1>3, <1>4, <1>5, <1>6 DEF OwnedOnce, given
  <1>. QED BY <1>7 DEF q, new

LEMMA OwnedByClient ==
  ASSUME NEW pool, NEW used, NEW ids, OwnedOnce(pool, used, ids)
  PROVE  LET e == acquired(pool, 1)[1]
         IN  /\ e \in AnyHandle /\ e.index \notin used /\ e \notin ids
             /\ OwnedOnce(acquire(pool, 1), used, ids \cup {e})
  <1> DEFINE new == acquired(pool, 1)
             q == acquire(pool, 1)
             given == {d.index : d \in ids}
             e == new[1]
             with == ids \cup {e}
  <1>1. Acquires(pool, q, new, 1) /\ Indices(new) \cap (used \cup given) = {}
    BY AcquiredUnowned
  <1>. HIDE DEF new, q
  <1>2. /\ ids \subseteq AnyHandle
        /\ \A c, d \in ids : c.index = d.index => c = d
        /\ used \cap given = {}
        /\ (used \cup given) \cap Indices(pool.handles) = {}
        /\ 1..pool.lastHandle = used \cup given \cup Indices(pool.handles)
    BY DEF OwnedOnce
  <1>3. /\ PoolOK(q) /\ Distinct(q.handles)
        /\ new \in Seq(AnyHandle) /\ Len(new) = 1
        /\ Indices(new) \cap Indices(q.handles) = {}
        /\ Indices(pool.handles) \subseteq Indices(new) \cup Indices(q.handles)
        /\ Indices(q.handles) \subseteq Indices(pool.handles)
        /\ 1..q.lastHandle = 1..pool.lastHandle \cup Indices(new)
    BY <1>1 DEF Acquires
  <1>4. DOMAIN new = {1} /\ e \in AnyHandle
    BY <1>3
  <1>. HIDE DEF e
  <1>5. Indices(new) = {e.index}
    BY <1>4 DEF Indices, e
  <1>6. {d.index : d \in with} = given \cup {e.index}
    OBVIOUS
  <1>7. \A c, d \in with : c.index = d.index => c = d
    <2>1. \A d \in ids : d.index \in given
      OBVIOUS
    <2>. HIDE DEF given
    <2>. QED BY <1>1, <1>2, <1>5, <2>1
  <1>8. e.index \notin used /\ e \notin ids
    BY <1>1, <1>5
  <1>. HIDE DEF given, with
  <1>9. used \cap {d.index : d \in with} = {}
    BY <1>1, <1>2, <1>5, <1>6
  <1>10. (used \cup {d.index : d \in with}) \cap Indices(q.handles) = {}
    BY <1>2, <1>3, <1>5, <1>6
  <1>11. 1..q.lastHandle = used \cup {d.index : d \in with} \cup Indices(q.handles)
    BY <1>2, <1>3, <1>5, <1>6
  <1>12. with \subseteq AnyHandle
    BY <1>2, <1>4 DEF with
  <1>13. OwnedOnce(q, used, with)
    BY <1>3, <1>7, <1>9, <1>10, <1>11, <1>12 DEF OwnedOnce
  <1>. QED BY <1>4, <1>8, <1>13 DEF with, e, q, new

LEMMA OwnedByPool ==
  ASSUME NEW pool, NEW used, NEW ids, OwnedOnce(pool, used, ids), NEW e \in AnyHandle
  PROVE  /\ e \in ids => OwnedOnce(release(pool, e), used, ids \ {e})
         /\ e.index \in used => OwnedOnce(release(pool, e), used \ {e.index}, ids)
  <1> DEFINE q == release(pool, e)
             given == {d.index : d \in ids}
  <1>1. /\ PoolOK(pool) /\ Distinct(pool.handles)
        /\ ids \subseteq AnyHandle
        /\ \A c, d \in ids : c.index = d.index => c = d
        /\ used \cap given = {}
        /\ (used \cup given) \cap Indices(pool.handles) = {}
        /\ 1..pool.lastHandle = used \cup given \cup Indices(pool.handles)
    BY DEF OwnedOnce
  <1>2. ASSUME e.index \notin Indices(pool.handles)
        PROVE  /\ PoolOK(q) /\ Distinct(q.handles)
               /\ Indices(q.handles) = Indices(pool.handles) \cup {e.index}
               /\ q.lastHandle = pool.lastHandle
    BY <1>1, <1>2, PoolReleased
  <1>. HIDE DEF q
  <1>3. ASSUME e \in ids
        PROVE  OwnedOnce(q, used, ids \ {e})
    <2>1. {d.index : d \in ids \ {e}} = given \ {e.index} /\ e.index \in given
      BY <1>1, <1>3
    <2>. HIDE DEF given
    <2>2. e.index \notin Indices(pool.handles)
      BY <1>1, <2>1
    <2>3. used \cap {d.index : d \in ids \ {e}} = {}
      BY <1>1, <2>1
    <2>4. (used \cup {d.index : d \in ids \ {e}}) \cap Indices(q.handles) = {}
      BY <1>1, <1>2, <2>1, <2>2
    <2>5. 1..q.lastHandle = used \cup {d.index : d \in ids \ {e}} \cup Indices(q.handles)
      BY <1>1, <1>2, <2>1, <2>2
    <2>. QED BY <1>1, <1>2, <2>2, <2>3, <2>4, <2>5 DEF OwnedOnce
  <1>4. ASSUME e.index \in used
        PROVE  OwnedOnce(q, used \ {e.index}, ids)
    <2>. HIDE DEF given
    <2>1. e.index \notin Indices(pool.handles)
      BY <1>1, <1>4
    <2>2. (used \ {e.index}) \cap given = {}
      BY <1>1
    <2>3. ((used \ {e.index}) \cup given) \cap Indices(q.handles) = {}
      BY <1>1, <1>2, <1>4, <2>1
    <2>4. 1..q.lastHandle = (used \ {e.index}) \cup given \cup Indices(q.handles)
      BY <1>1, <1>2, <1>4, <2>1
    <2>. QED BY <1>1, <1>2, <2>1, <2>2, <2>3, <2>4 DEF OwnedOnce, given
  <1>. QED BY <1>3, <1>4 DEF q

LEMMA OwnedByCreated ==
  ASSUME NEW pool, NEW used, NEW ids, OwnedOnce(pool, used, ids), NEW e \in ids
  PROVE  OwnedOnce(pool, used \cup {e.index}, ids \ {e})
  <1> DEFINE given == {d.index : d \in ids}
  <1>1. /\ PoolOK(pool) /\ Distinct(pool.handles)
        /\ ids \subseteq AnyHandle
        /\ \A c, d \in ids : c.index = d.index => c = d
        /\ used \cap given = {}
        /\ (used \cup given) \cap Indices(pool.handles) = {}
        /\ 1..pool.lastHandle = used \cup given \cup Indices(pool.handles)
    BY DEF OwnedOnce
  <1>2. {d.index : d \in ids \ {e}} = given \ {e.index} /\ e.index \in given
    BY <1>1
  <1>. HIDE DEF given
  <1>. QED BY <1>1, <1>2 DEF OwnedOnce

LEMMA OwnedByNobody ==
  OwnedOnce(EmptyPool, {}, {})
  <1>1. EmptyPool.handles = << >> /\ EmptyPool.lastHandle = 0
        /\ DOMAIN EmptyPool = {"handles", "lastHandle"}
    BY DEF EmptyPool
  <1>2. EmptyPool.handles \in Seq(AnyHandle) /\ DOMAIN EmptyPool.handles = {}
    BY <1>1
  <1>3. Indices(EmptyPool.handles) = {} /\ Distinct(EmptyPool.handles) /\ PoolOK(EmptyPool)
    BY <1>1, <1>2 DEF Indices, Distinct, PoolOK
  <1>4. {e.index : e \in {}} = {}
    OBVIOUS
  <1>. QED BY <1>1, <1>3, <1>4 DEF OwnedOnce

-----------------------------------------------------------------------------
(* Notifications *)

LEMMA SeenEarlier ==
  ASSUME NEW r, RegistryOK(r), NEW x \in DOMAIN r.entities, NEW id \in Nat, Seen(r, x, id),
         NEW before \in Nat, before <= id
  PROVE  Seen(r, x, before)
  <1> DEFINE a == ArchetypeOf(r, x)
             k == ChunkOf(r.entities[x].archetypeIndex)
             Chunk == [numEntities : Nat, modificationId : 0..r.modificationId]
  <1>1. /\ ArchetypeOK(r.entities[x].archetype, a, r.modificationId)
        /\ k \in DOMAIN a.chunks /\ r.modificationId \in Nat
    BY Location
  <1>2. a.modificationId \in 0..r.modificationId /\ a.chunks \in Seq(Chunk)
    BY <1>1 DEF ArchetypeOK, ArchetypeBut
  <1>3. a.chunks[k] \in Chunk
    <2>. HIDE DEF Chunk, k, a
    <2>. QED BY <1>1, <1>2
  <1>4. a.modificationId >= id \/ a.chunks[k].modificationId >= id
    BY DEF Seen
  <1>. HIDE DEF a, k
  <1>5. a.modificationId >= before \/ a.chunks[k].modificationId >= before
    BY <1>1, <1>2, <1>3, <1>4
  <1>. QED BY <1>5 DEF Seen, a, k

(* The entities of s are notified as touched will say if those of `marked` are. *)
Shows(s, marked) ==
  \A x \in DOMAIN s.entities :
    \/ Seen(s, x, s.modificationId)
    \/ /\ x \in DOMAIN reg.entities
       /\ s.entities[x].key = reg.entities[x].key
       /\ s.entities[x].key \notin marked
       /\ \A id \in Nat : Seen(reg, x, id) => Seen(s, x, id)

LEMMA TouchedKept ==
  ASSUME RegistryOK(reg), TouchedInv, NEW s, RegistryOK(s),
         s.modificationId = reg.modificationId, NEW marked, Shows(s, marked), Becomes(s, marked)
  PROVE  TouchedInv'
  <1> DEFINE keys == {s.entities[x].key : x \in DOMAIN s.entities}
             m == s.modificationId
  <1>1. /\ reg' = s /\ m \in Nat
        /\ touched' = [e \in keys |-> IF e \in marked \/ e \notin DOMAIN touched THEN m ELSE touched[e]]
    BY DEF Becomes, RegistryOK
  <1>2. DOMAIN touched' = Live'
    BY <1>1 DEF Live
  <1>3. ASSUME NEW x \in DOMAIN s.entities
        PROVE  LET e == s.entities[x].key
               IN  touched'[e] \in 0..m /\ Seen(s, x, touched'[e])
    <2> DEFINE e == s.entities[x].key
    <2>1. touched'[e] = IF e \in marked \/ e \notin DOMAIN touched THEN m ELSE touched[e]
      BY <1>1
    <2>2. ASSUME e \in DOMAIN touched
          PROVE  touched[e] \in 0..m
      <3>1. PICK y \in DOMAIN reg.entities : reg.entities[y].key = e
        BY <2>2 DEF TouchedInv, Live
      <3>. QED BY <3>1 DEF TouchedInv
    <2>3. touched'[e] \in 0..m
      BY <1>1, <2>1, <2>2
    <2>4. CASE Seen(s, x, m)
      <3>1. touched'[e] \in Nat /\ touched'[e] <= m
        BY <1>1, <2>3
      <3>2. Seen(s, x, touched'[e])
        BY <1>1, <2>4, <3>1, SeenEarlier
      <3>. QED BY <2>3, <3>2
    <2>5. CASE ~Seen(s, x, m)
      <3>1. /\ x \in DOMAIN reg.entities /\ e = reg.entities[x].key /\ e \notin marked
            /\ \A id \in Nat : Seen(reg, x, id) => Seen(s, x, id)
        BY <2>5 DEF Shows
      <3>2. e \in DOMAIN touched
        BY <3>1 DEF TouchedInv, Live
      <3>3. touched[e] \in Nat /\ Seen(reg, x, touched[e])
        BY <1>1, <3>1 DEF TouchedInv
      <3>4. touched'[e] = touched[e]
        BY <2>1, <3>1, <3>2
      <3>5. Seen(s, x, touched'[e])
        BY <3>1, <3>3, <3>4
      <3>. QED BY <2>3, <3>5
    <2>. QED BY <2>4, <2>5
  <1>. QED BY <1>1, <1>2, <1>3 DEF TouchedInv, Seen, ArchetypeOf

-----------------------------------------------------------------------------
(* Commands *)

LEMMA CommandsStay ==
  ASSUME NEW queue, NEW ids, NEW live, CommandsOK(queue, ids, live), NEW ids2, NEW live2,
         \A k \in DOMAIN queue : queue[k].e \in ids => queue[k].e \in ids2,
         \A k \in DOMAIN queue : queue[k].e \in live => queue[k].e \in live2
  PROVE  CommandsOK(queue, ids2, live2)
  BY DEF CommandsOK

LEMMA CommandsAppended ==
  ASSUME NEW queue, NEW ids, NEW live, CommandsOK(queue, ids, live), NEW c \in Command,
         c.op = "create_reserved" =>
           c.e \in ids /\ \A j \in DOMAIN queue : queue[j].op # "create" => queue[j].e # c.e,
         c.op \in {"add", "remove", "destroy"} =>
           /\ \/ c.e \in live
              \/ \E j \in DOMAIN queue : queue[j].op = "create_reserved" /\ queue[j].e = c.e
           /\ \A j \in DOMAIN queue : queue[j].op = "destroy" => queue[j].e # c.e
  PROVE  CommandsOK(Append(queue, c), ids, live)
  <1> DEFINE new == Append(queue, c)
             n == Len(queue)
  <1>1. queue \in Seq(Command) /\ n \in Nat /\ DOMAIN queue = 1..n
    BY DEF CommandsOK
  <1>2. /\ new \in Seq(Command) /\ DOMAIN new = 1..(n + 1)
        /\ \A k \in 1..n : new[k] = queue[k]
        /\ new[n + 1] = c
    BY <1>1
  <1>. HIDE DEF new
  <1>3. ASSUME NEW k \in 1..(n + 1)
        PROVE  /\ new[k].op = "create_reserved" =>
                    /\ new[k].e \in ids
                    /\ \A j \in 1..(k - 1) : new[j].op # "create" => new[j].e # new[k].e
               /\ new[k].op \in {"add", "remove", "destroy"} =>
                    /\ \/ new[k].e \in live
                       \/ \E j \in 1..(k - 1) : new[j].op = "create_reserved" /\ new[j].e = new[k].e
                    /\ \A j \in 1..(k - 1) : new[j].op = "destroy" => new[j].e # new[k].e
    <2>. HIDE DEF n
    <2>1. \A j \in 1..(k - 1) : j \in 1..n /\ new[j] = queue[j]
      BY <1>1, <1>2
    <2>2. CASE k \in 1..n
      <3>1. new[k] = queue[k]
        BY <1>2, <2>2
      <3>. QED BY <1>1, <2>1, <2>2, <3>1 DEF CommandsOK
    <2>3. CASE k = n + 1
      <3>1. new[k] = c /\ 1..(k - 1) = 1..n
        BY <1>1, <1>2, <2>3
      <3>. QED BY <1>1, <2>1, <3>1
    <2>. QED BY <1>1, <2>2, <2>3
  <1>. QED BY <1>2, <1>3 DEF CommandsOK, new

(* The first command was applied: it created its entity, or destroyed it.       *)
LEMMA CommandsTail ==
  ASSUME NEW queue, NEW ids, NEW live, CommandsOK(queue, ids, live), queue # << >>,
         NEW ids2, NEW live2,
         \A e \in ids : e \in ids2 \/ (Head(queue).op = "create_reserved" /\ e = Head(queue).e),
         \A e \in live : e \in live2 \/ (Head(queue).op = "destroy" /\ e = Head(queue).e),
         Head(queue).op = "create_reserved" => Head(queue).e \in live2
  PROVE  CommandsOK(Tail(queue), ids2, live2)
  <1> DEFINE new == Tail(queue)
             n == Len(queue)
  <1>1. queue \in Seq(Command) /\ n \in Nat \ {0} /\ DOMAIN queue = 1..n
    BY DEF CommandsOK
  <1>2. /\ new \in Seq(Command) /\ DOMAIN new = 1..(n - 1)
        /\ \A k \in 1..(n - 1) : new[k] = queue[k + 1]
        /\ Head(queue) = queue[1]
    BY <1>1
  <1>. HIDE DEF new
  <1>3. ASSUME NEW k \in 1..(n - 1)
        PROVE  /\ new[k].op = "create_reserved" =>
                    /\ new[k].e \in ids2
                    /\ \A j \in 1..(k - 1) : new[j].op # "create" => new[j].e # new[k].e
               /\ new[k].op \in {"add", "remove", "destroy"} =>
                    /\ \/ new[k].e \in live2
                       \/ \E j \in 1..(k - 1) : new[j].op = "create_reserved" /\ new[j].e = new[k].e
                    /\ \A j \in 1..(k - 1) : new[j].op = "destroy" => new[j].e # new[k].e
    <2> DEFINE l == k + 1
    <2>. HIDE DEF n
    <2>1. /\ l \in 1..n /\ new[k] = queue[l] /\ 1 \in 1..(l - 1)
          /\ \A j \in 1..(k - 1) : j + 1 \in 1..(l - 1) /\ new[j] = queue[j + 1]
          /\ \A j \in 1..(l - 1) : j # 1 => j - 1 \in 1..(k - 1) /\ new[j - 1] = queue[j]
      BY <1>1, <1>2
    <2>2. /\ queue[l].op = "create_reserved" =>
               /\ queue[l].e \in ids
               /\ \A j \in 1..(l - 1) : queue[j].op # "create" => queue[j].e # queue[l].e
          /\ queue[l].op \in {"add", "remove", "destroy"} =>
               /\ \/ queue[l].e \in live
                  \/ \E j \in 1..(l - 1) : queue[j].op = "create_reserved" /\ queue[j].e = queue[l].e
               /\ \A j \in 1..(l - 1) : queue[j].op = "destroy" => queue[j].e # queue[l].e
      BY <1>1, <2>1 DEF CommandsOK
    <2>. HIDE DEF l
    <2>3. ASSUME new[k].op = "create_reserved"
          PROVE  /\ new[k].e \in ids2
                 /\ \A j \in 1..(k - 1) : new[j].op # "create" => new[j].e # new[k].e
      <3>1. queue[1].op = "create_reserved" => queue[1].e # queue[l].e
        BY <2>1, <2>2, <2>3
      <3>2. new[k].e \in ids2
        BY <1>2, <2>1, <2>2, <2>3, <3>1
      <3>. QED BY <2>1, <2>2, <2>3, <3>2
    <2>4. ASSUME new[k].op \in {"add", "remove", "destroy"}
          PROVE  /\ \/ new[k].e \in live2
                    \/ \E j \in 1..(k - 1) : new[j].op = "create_reserved" /\ new[j].e = new[k].e
                 /\ \A j \in 1..(k - 1) : new[j].op = "destroy" => new[j].e # new[k].e
      <3>1. \A j \in 1..(k - 1) : new[j].op = "destroy" => new[j].e # new[k].e
        BY <2>1, <2>2, <2>4
      <3>2. CASE queue[l].e \in live
        <4>1. queue[1].op = "destroy" => queue[1].e # queue[l].e
          BY <2>1, <2>2, <2>4
        <4>. QED BY <1>2, <2>1, <3>1, <3>2, <4>1
      <3>3. CASE \E j \in 1..(l - 1) : queue[j].op = "create_reserved" /\ queue[j].e = queue[l].e
        <4>1. PICK j \in 1..(l - 1) : queue[j].op = "create_reserved" /\ queue[j].e = queue[l].e
          BY <3>3
        <4>2. CASE j = 1
          BY <1>2, <2>1, <3>1, <4>1, <4>2
        <4>3. CASE j # 1
          <5>1. j - 1 \in 1..(k - 1) /\ new[j - 1] = queue[j]
            BY <2>1, <4>3
          <5>. QED BY <2>1, <3>1, <4>1, <5>1
        <4>. QED BY <4>2, <4>3
      <3>. QED BY <2>1, <2>2, <2>4, <3>2, <3>3
    <2>. QED BY <2>3, <2>4
  <1>. QED BY <1>2, <1>3 DEF CommandsOK, new

-----------------------------------------------------------------------------
(* Steps *)

LEMMA LiveEntities ==
  ASSUME NEW r, RegistryOK(r), NEW e,
         e \in {r.entities[x].key : x \in DOMAIN r.entities}
  PROVE  /\ e.index \in DOMAIN r.entities /\ r.entities[e.index].key = e /\ e \in AnyHandle
  BY DEF RegistryOK, EntityLocated

Keys(r) == {r.entities[x].key : x \in DOMAIN r.entities}

(* A step leaves the registry as s.                                             *)
LEMMA StepTaken ==
  ASSUME IData, NEW s, NEW X, Changes(reg, s, X), NEW marked, Becomes(s, marked), Shows(s, marked),
         OwnedOnce(s.pool, DOMAIN s.entities, reserved'),
         CommandsOK(commands', reserved', Keys(s))
  PROVE  IData'
  <1>1. reg' = s
    BY DEF Becomes
  <1>2. TouchedInv'
    BY TouchedKept DEF IData, Changes
  <1>3. Live' = Keys(s)
    BY <1>1 DEF Live, Keys
  <1>4. CommandsOK(commands', reserved', Live')
    BY <1>3
  <1>5. RegistryOK(reg') /\ OwnedOnce(reg'.pool, DOMAIN reg'.entities, reserved')
    BY <1>1 DEF Changes
  <1>. QED BY <1>2, <1>4, <1>5 DEF IData, RegistryOK, EntityLocated, SlotLocated

LEMMA ChangesTransitive ==
  ASSUME NEW r, NEW s, NEW u, NEW X, NEW Y, Changes(r, s, X), Changes(s, u, Y)
  PROVE  Changes(r, u, X \cup Y)
  <1>1. ASSUME NEW x \in DOMAIN u.entities \ (X \cup Y)
        PROVE  x \in DOMAIN r.entities /\ Kept(r, u, x)
    <2>1. x \in DOMAIN s.entities /\ Kept(s, u, x)
      BY DEF Changes
    <2>2. x \in DOMAIN r.entities /\ Kept(r, s, x)
      BY <2>1 DEF Changes
    <2>. QED BY <2>1, <2>2, KeptTransitive
  <1>. QED BY <1>1 DEF Changes

LEMMA Repooled ==
  ASSUME NEW r, RegistryOK(r), NEW q
  PROVE  /\ Changes(r, [r EXCEPT !.pool = q], {})
         /\ [r EXCEPT !.pool = q].pool = q
         /\ [r EXCEPT !.pool = q].entities = r.entities
  <1> DEFINE s == [r EXCEPT !.pool = q]
  <1>1. DOMAIN r = {"pool", "entities", "archetypes", "modificationId"}
    BY DEF RegistryOK
  <1>2. /\ DOMAIN s = DOMAIN r /\ s.pool = q /\ s.entities = r.entities
        /\ s.archetypes = r.archetypes /\ s.modificationId = r.modificationId
    BY <1>1
  <1>. HIDE DEF s
  <1>3. RegistryOK(s)
    <2>1. \A x \in DOMAIN s.entities : EntityLocated(s, x)
      <3>1. \A x \in DOMAIN r.entities : EntityLocated(r, x)
        BY DEF RegistryOK
      <3>. QED BY <1>2, <3>1 DEF EntityLocated
    <2>2. \A t \in DOMAIN s.archetypes :
            \A i \in 0..(s.archetypes[t].numCurrentEntities - 1) : SlotLocated(s, t, i)
      <3>1. \A t \in DOMAIN r.archetypes :
              \A i \in 0..(r.archetypes[t].numCurrentEntities - 1) : SlotLocated(r, t, i)
        BY DEF RegistryOK
      <3>2. ASSUME NEW t \in DOMAIN s.archetypes,
                   NEW i \in 0..(s.archetypes[t].numCurrentEntities - 1)
            PROVE  SlotLocated(s, t, i)
        <4>1. SlotLocated(r, t, i)
          BY <1>2, <3>1
        <4>. QED BY <1>2, <4>1 DEF SlotLocated
      <3>. QED BY <3>2
    <2>. QED BY <1>1, <1>2, <2>1, <2>2 DEF RegistryOK
  <1>4. \A x \in DOMAIN s.entities : x \in DOMAIN r.entities /\ Kept(r, s, x)
    BY <1>2 DEF Kept, Seen, DataOf, ArchetypeOf
  <1>5. Changes(r, s, {})
    BY <1>2, <1>3, <1>4 DEF Changes
  <1>. QED BY <1>2, <1>5 DEF s

(* Entities `ids` are in s besides those of r, with `types` and the value v.    *)
Makes(r, s, types, ids, v) ==
  /\ Changes(r, s, Indices(ids))
  /\ DOMAIN s.entities = DOMAIN r.entities \cup Indices(ids)
  /\ Indices(ids) \cap DOMAIN r.entities = {}
  /\ \A k \in DOMAIN ids :
       LET x == ids[k].index
       IN  /\ s.entities[x].key = ids[k]
           /\ s.entities[x].archetype = types
           /\ ~OverreadMatches => DataOf(s, x) = [c \in Components(types) |-> v]
           /\ Seen(s, x, s.modificationId)

(* Entity x of r has `types` and the objects `data` in s.                       *)
Turns(r, s, x, types, data) ==
  /\ Changes(r, s, {x})
  /\ s.pool = r.pool
  /\ DOMAIN s.entities = DOMAIN r.entities
  /\ s.entities[x].key = r.entities[x].key
  /\ s.entities[x].archetype = types
  /\ ~OverreadMatches => DataOf(s, x) = data
  /\ \/ Seen(s, x, s.modificationId)
     \/ types = r.entities[x].archetype /\ \A id \in Nat : Seen(r, x, id) => Seen(s, x, id)

LEMMA MakesStep ==
  ASSUME IData, NEW s, NEW types, NEW ids, NEW v, Makes(reg, s, types, ids, v), Becomes(s, {}),
         OwnedOnce(s.pool, DOMAIN s.entities, reserved'),
         CommandsOK(commands', reserved', Keys(s))
  PROVE  IData'
  <1>1. Shows(s, {})
    <2>1. ASSUME NEW x \in DOMAIN s.entities, x \in Indices(ids)
          PROVE  Seen(s, x, s.modificationId)
      BY <2>1 DEF Makes, Indices
    <2>2. ASSUME NEW x \in DOMAIN s.entities, x \notin Indices(ids)
          PROVE  x \in DOMAIN reg.entities /\ Kept(reg, s, x)
      BY <2>2 DEF Makes, Changes
    <2>. QED BY <2>1, <2>2 DEF Shows, Kept
  <1>. QED BY <1>1, StepTaken DEF Makes

LEMMA MakesKeys ==
  ASSUME NEW r, RegistryOK(r), NEW s, NEW types, NEW ids, NEW v, Makes(r, s, types, ids, v)
  PROVE  Keys(s) = Keys(r) \cup {ids[k] : k \in DOMAIN ids}
  <1>1. \A x \in DOMAIN r.entities : x \in DOMAIN s.entities /\ s.entities[x].key = r.entities[x].key
    BY DEF Makes, Changes, Kept
  <1>2. \A x \in Indices(ids) : \E k \in DOMAIN ids : x = ids[k].index /\ s.entities[x].key = ids[k]
    BY DEF Makes, Indices
  <1>3. \A k \in DOMAIN ids : ids[k].index \in DOMAIN s.entities /\ s.entities[ids[k].index].key = ids[k]
    BY DEF Makes, Indices
  <1>4. \A x \in DOMAIN s.entities : x \in DOMAIN r.entities \/ x \in Indices(ids)
    BY DEF Makes
  <1>. QED BY <1>1, <1>2, <1>3, <1>4 DEF Keys

LEMMA TurnsKeys ==
  ASSUME NEW r, NEW s, NEW x, NEW types, NEW data, Turns(r, s, x, types, data)
  PROVE  Keys(s) = Keys(r)
  <1>1. \A y \in DOMAIN s.entities : s.entities[y].key = r.entities[y].key
    BY DEF Turns, Changes, Kept
  <1>. QED BY <1>1 DEF Turns, Keys

LEMMA TurnsStep ==
  ASSUME IData, NEW e \in Live, NEW s, NEW types, NEW data, Turns(reg, s, e.index, types, data),
         NEW marked, marked \subseteq {e},
         marked # {} => types # reg.entities[e.index].archetype,
         Becomes(s, marked), UNCHANGED reserved, CommandsOK(commands', reserved, Live)
  PROVE  IData'
  <1> DEFINE x == e.index
  <1>1. RegistryOK(reg) /\ x \in DOMAIN reg.entities /\ reg.entities[x].key = e
    BY LiveEntities DEF IData, Live
  <1>2. \A y \in DOMAIN reg.entities : reg.entities[y].key.index = y
    BY <1>1 DEF RegistryOK, EntityLocated
  <1>. HIDE DEF x
  <1>3. Turns(reg, s, x, types, data)
    BY DEF x
  <1>4. ASSUME NEW y \in DOMAIN s.entities
        PROVE  \/ Seen(s, y, s.modificationId)
               \/ /\ y \in DOMAIN reg.entities
                  /\ s.entities[y].key = reg.entities[y].key
                  /\ s.entities[y].key \notin marked
                  /\ \A id \in Nat : Seen(reg, y, id) => Seen(s, y, id)
    <2>1. CASE y = x
      BY <1>1, <1>3, <2>1 DEF Turns, x
    <2>2. CASE y # x
      <3>1. y \in DOMAIN reg.entities /\ Kept(reg, s, y)
        BY <1>3, <2>2 DEF Turns, Changes
      <3>2. s.entities[y].key # e
        BY <1>2, <2>2, <3>1 DEF Kept, x
      <3>. QED BY <3>1, <3>2 DEF Kept
    <2>. QED BY <2>1, <2>2
  <1>5. Shows(s, marked)
    BY <1>4 DEF Shows
  <1>6. Keys(s) = Live
    <2>1. Keys(s) = Keys(reg)
      BY <1>3, TurnsKeys
    <2>. QED BY <2>1 DEF Live, Keys
  <1>7. OwnedOnce(s.pool, DOMAIN s.entities, reserved')
    BY <1>3 DEF Turns, IData
  <1>8. CommandsOK(commands', reserved', Keys(s))
    BY <1>6
  <1>. QED BY <1>3, <1>5, <1>7, <1>8, StepTaken DEF Turns

-----------------------------------------------------------------------------
(* Operations *)

LEMMA CreatesMakes ==
  ASSUME NEW r, RegistryOK(r), NEW types, types \subseteq Types,
         NEW ids \in Seq(AnyHandle), ids # << >>, Distinct(ids),
         Indices(ids) \cap DOMAIN r.entities = {}
  PROVE  /\ Makes(r, create_entities(r, types, ids), types, ids, Default)
         /\ create_entities(r, types, ids).pool = r.pool
  <1> DEFINE s == create_entities(r, types, ids)
  <1>1. Creates(r, s, types, ids)
    BY Created DEF Distinct
  <1>. HIDE DEF s
  <1>2. Makes(r, s, types, ids, Default)
    BY <1>1 DEF Creates, Makes, Changes
  <1>. QED BY <1>1, <1>2 DEF Creates, s

LEMMA MakesAfter ==
  ASSUME NEW r, NEW q, Changes(r, q, {}), q.entities = r.entities,
         NEW s, NEW types, NEW ids, NEW v, Makes(q, s, types, ids, v)
  PROVE  Makes(r, s, types, ids, v)
  <1>1. Changes(r, s, {} \cup Indices(ids))
    BY ChangesTransitive DEF Makes
  <1>2. {} \cup Indices(ids) = Indices(ids)
    OBVIOUS
  <1>3. Changes(r, s, Indices(ids))
    BY <1>1, <1>2
  <1>. QED BY <1>3 DEF Makes

LEMMA OneIndex ==
  ASSUME NEW e \in AnyHandle
  PROVE  /\ <<e>> \in Seq(AnyHandle) /\ <<e>> # << >> /\ Distinct(<<e>>)
         /\ Indices(<<e>>) = {e.index} /\ {<<e>>[k] : k \in DOMAIN <<e>>} = {e}
  <1>1. DOMAIN <<e>> = {1} /\ <<e>>[1] = e
    OBVIOUS
  <1>2. <<e>> \in Seq(AnyHandle) /\ <<e>> # << >>
    OBVIOUS
  <1>3. Distinct(<<e>>)
    BY <1>1 DEF Distinct
  <1>4. Indices(<<e>>) = {e.index}
    BY <1>1 DEF Indices
  <1>5. {<<e>>[k] : k \in DOMAIN <<e>>} = {e}
    BY <1>1
  <1>. QED BY <1>2, <1>3, <1>4, <1>5

LEMMA OnlyIndex ==
  ASSUME NEW ids, ids \in Seq(AnyHandle), Len(ids) = 1
  PROVE  ids = <<ids[1]>> /\ ids[1] \in AnyHandle
  <1>1. ids[1] \in AnyHandle
    <2>1. 1 \in DOMAIN ids
      OBVIOUS
    <2>2. \A k \in DOMAIN ids : ids[k] \in AnyHandle
      OBVIOUS
    <2>. QED BY <2>1, <2>2
  <1>2. DOMAIN ids = 1..1
    OBVIOUS
  <1> DEFINE e == ids[1]
  <1>3. ids = [k \in {1} |-> e] /\ <<e>> = [k \in {1} |-> e]
    BY <1>2
  <1>. QED BY <1>1, <1>3

(* A command that creates an entity adds its types again, which does nothing,   *)
(* and writes its components.                                                   *)
LEMMA EntityMade ==
  ASSUME NEW r, RegistryOK(r), NEW types, types \subseteq Types, NEW e \in AnyHandle,
         e.index \notin DOMAIN r.entities, NEW v \in Value
  PROVE  LET s == add(create_entities(r, types, <<e>>), e, types, {})
             u == assign(s, e, types, v)
         IN  Makes(r, u, types, <<e>>, v) /\ u.pool = r.pool
  <1> DEFINE ids == <<e>>
             x == e.index
             q == create_entities(r, types, ids)
             s == add(q, e, types, {})
             u == assign(q, e, types, v)
  <1>1. /\ ids \in Seq(AnyHandle) /\ ids # << >> /\ Distinct(ids) /\ Indices(ids) = {x}
        /\ DOMAIN ids = {1} /\ ids[1] = e
    BY OneIndex
  <1>. HIDE DEF ids, x
  <1>2. Makes(r, q, types, ids, Default) /\ q.pool = r.pool
    BY <1>1, CreatesMakes DEF x
  <1>. HIDE DEF q
  <1>3. /\ RegistryOK(q) /\ x \in DOMAIN q.entities /\ q.modificationId = r.modificationId
        /\ q.entities[x].archetype = types /\ q.entities[x].key = e
        /\ Seen(q, x, q.modificationId)
        /\ ~OverreadMatches => DataOf(q, x) = [c \in Components(types) |-> Default]
    BY <1>1, <1>2 DEF Makes, Changes, x
  <1>4. s = q
    <2>1. find(q, e).archetype \cup types = types
      BY <1>3 DEF find, x
    <2>. QED BY <1>3, <2>1, MovedNowhere DEF add, x
  <1>5. Assigns(q, u, x, types, v)
    BY <1>3, Assigned DEF x
  <1>. HIDE DEF u
  <1>6. Changes(r, u, {x} \cup {x})
    BY <1>1, <1>2, <1>5, ChangesTransitive DEF Makes, Assigns
  <1>7. Changes(r, u, Indices(ids))
    BY <1>1, <1>6
  <1>8. /\ u.entities = q.entities /\ u.pool = r.pool
        /\ Seen(u, x, u.modificationId)
    BY <1>2, <1>3, <1>5, <1>7 DEF Assigns, Changes, RegistryOK
  <1>9. ~OverreadMatches => DataOf(u, x) = [c \in Components(types) |-> v]
    <2>1. ASSUME ~OverreadMatches
          PROVE  DataOf(u, x) = [c \in Components(types) |-> v]
      <3> DEFINE old == DataOf(q, x)
      <3>1. old = [c \in Components(types) |-> Default]
        BY <1>3, <2>1
      <3>. HIDE DEF old
      <3>2. DataOf(u, x) = [c \in DOMAIN old |-> IF c \in types THEN v ELSE old[c]]
        BY <1>5 DEF Assigns, old
      <3>3. DOMAIN old = Components(types) /\ \A c \in Components(types) : c \in types
        BY <3>1 DEF Components
      <3>. QED BY <3>2, <3>3
    <2>. QED BY <2>1
  <1>10. Makes(r, u, types, ids, v)
    BY <1>1, <1>2, <1>3, <1>7, <1>8, <1>9 DEF Makes, x
  <1>. QED BY <1>4, <1>8, <1>10 DEF ids, u, s, q

(* The objects of an entity after v was written to its `components`.            *)
Written(data, components, v) == [c \in DOMAIN data |-> IF c \in components THEN v ELSE data[c]]

LEMMA MovesTurns ==
  ASSUME NEW r, RegistryOK(r), NEW e, e.index \in DOMAIN r.entities,
         NEW types, types \subseteq Types, NEW overread, overread # {} => OverreadMatches
  PROVE  Turns(r, move_archetype(r, e, types, overread), e.index, types,
               TakenAlong(types, DataOf(r, e.index)))
  <1> DEFINE s == move_archetype(r, e, types, overread)
             x == e.index
  <1>1. Moves(r, s, x, types)
    BY MovedEntity
  <1>. HIDE DEF s, x
  <1>2. Turns(r, s, x, types, TakenAlong(types, DataOf(r, x)))
    BY <1>1 DEF Moves, Turns, Changes, Kept
  <1>. QED BY <1>2 DEF s, x

LEMMA AssignsTurns ==
  ASSUME NEW r, RegistryOK(r), NEW e, e.index \in DOMAIN r.entities,
         NEW components, NEW v \in Value
  PROVE  Turns(r, assign(r, e, components, v), e.index, r.entities[e.index].archetype,
               Written(DataOf(r, e.index), components, v))
  <1> DEFINE s == assign(r, e, components, v)
             x == e.index
  <1>1. Assigns(r, s, x, components, v)
    BY Assigned
  <1>. HIDE DEF s, x
  <1>2. Turns(r, s, x, r.entities[x].archetype, Written(DataOf(r, x), components, v))
    BY <1>1 DEF Assigns, Turns, Changes, Written
  <1>. QED BY <1>2 DEF s, x

LEMMA TurnsTwice ==
  ASSUME NEW r, RegistryOK(r), NEW s, NEW u, NEW x, NEW types, NEW data, NEW written,
         Turns(r, s, x, types, data), Turns(s, u, x, types, written)
  PROVE  Turns(r, u, x, types, written)
  <1>1. Changes(r, u, {x} \cup {x})
    BY ChangesTransitive DEF Turns
  <1>2. Changes(r, u, {x})
    BY <1>1
  <1>3. /\ RegistryOK(s) /\ s.modificationId = r.modificationId
        /\ u.modificationId = r.modificationId /\ r.modificationId \in Nat
        /\ s.entities[x].archetype = types
    BY <1>2 DEF Turns, Changes, RegistryOK
  <1>4. \/ Seen(u, x, u.modificationId)
        \/ types = r.entities[x].archetype /\ \A id \in Nat : Seen(r, x, id) => Seen(u, x, id)
    BY <1>3 DEF Turns
  <1>. QED BY <1>2, <1>4 DEF Turns


-----------------------------------------------------------------------------
(* The entities of EntityStore *)

StoreOf(r) ==
  [e \in Keys(r) |-> [types |-> r.entities[e.index].archetype, values |-> DataOf(r, e.index)]]

LEMMA Mapped == EntityMap = StoreOf(reg)
  BY DEF EntityMap, StoreOf, Live, Keys, find, DataOf, ArchetypeOf

LEMMA MappedNext ==
  ASSUME NEW s, reg' = s
  PROVE  EntityMap' = StoreOf(s)
  <1>1. EntityMap' = StoreOf(reg')
    BY DEF EntityMap, StoreOf, Live, Keys, find, DataOf, ArchetypeOf
  <1>. QED BY <1>1

LEMMA LiveKeys == Live = Keys(reg)
  BY DEF Live, Keys

(* What a step does, apart from `applying` and `calls`.                         *)
Stored == ~OverreadMatches => Store!Next \/ UNCHANGED EntityMap

LEMMA KeptStored ==
  ASSUME NEW r, RegistryOK(r), NEW s, NEW e \in Keys(r), Kept(r, s, e.index)
  PROVE  e \in Keys(s) /\ StoreOf(s)[e] = StoreOf(r)[e]
  <1>1. e.index \in DOMAIN r.entities /\ r.entities[e.index].key = e
    BY LiveEntities DEF Keys
  <1>2. e \in Keys(s)
    BY <1>1 DEF Keys, Kept
  <1>. QED BY <1>1, <1>2 DEF StoreOf, Kept

LEMMA SameStored ==
  ASSUME NEW r, RegistryOK(r), NEW s, Changes(r, s, {}), DOMAIN s.entities = DOMAIN r.entities
  PROVE  StoreOf(s) = StoreOf(r)
  <1>1. \A e \in Keys(r) : e \in Keys(s) /\ StoreOf(s)[e] = StoreOf(r)[e]
    <2>1. ASSUME NEW e \in Keys(r)
          PROVE  Kept(r, s, e.index)
      <3>1. e.index \in DOMAIN r.entities
        BY LiveEntities DEF Keys
      <3>. QED BY <3>1 DEF Changes
    <2>. QED BY <2>1, KeptStored
  <1>2. Keys(s) \subseteq Keys(r)
    BY DEF Keys, Changes, Kept
  <1>. QED BY <1>1, <1>2 DEF StoreOf

LEMMA MakesStored ==
  ASSUME RegistryOK(reg), NEW s, NEW types \in Signatures, NEW ids, NEW v \in Value,
         Makes(reg, s, types, ids, v), reg' = s
  PROVE  Stored
  <1>1. SUFFICES ASSUME ~OverreadMatches PROVE Store!Create(types, v)
    BY DEF Stored, Store!Next
  <1>2. Keys(s) = Keys(reg) \cup {ids[k] : k \in DOMAIN ids}
    BY MakesKeys
  <1>3. ASSUME NEW e \in Keys(reg)
        PROVE  StoreOf(s)[e] = StoreOf(reg)[e]
    <2>1. e.index \in DOMAIN reg.entities
      BY LiveEntities DEF Keys
    <2>2. Kept(reg, s, e.index)
      BY <2>1 DEF Makes, Changes
    <2>. QED BY <2>2, KeptStored
  <1>4. ASSUME NEW k \in DOMAIN ids
        PROVE  /\ StoreOf(s)[ids[k]] = [types |-> types, values |-> [c \in Components(types) |-> v]]
               /\ ids[k] \notin Keys(reg)
    <2>1. ids[k].index \in Indices(ids)
      BY DEF Indices
    <2>2. ids[k].index \notin DOMAIN reg.entities
      BY <2>1 DEF Makes
    <2>3. ids[k] \notin Keys(reg)
      BY <2>2, LiveEntities DEF Keys
    <2>. QED BY <1>1, <1>2, <2>3 DEF StoreOf, Makes
  <1>5. StoreOf(s) = [e \in Keys(s) |->
                        IF e \in Keys(reg) THEN StoreOf(reg)[e]
                        ELSE [types |-> types, values |-> [c \in Components(types) |-> v]]]
    <2>1. \A e \in Keys(s) : StoreOf(s)[e] =
             IF e \in Keys(reg) THEN StoreOf(reg)[e]
             ELSE [types |-> types, values |-> [c \in Components(types) |-> v]]
      BY <1>2, <1>3, <1>4
    <2>. QED BY <2>1 DEF StoreOf
  <1>6. EntityMap = StoreOf(reg) /\ EntityMap' = StoreOf(s)
    BY Mapped, MappedNext
  <1>7. DOMAIN EntityMap = Keys(reg) /\ DOMAIN EntityMap' = Keys(s)
    BY <1>6 DEF StoreOf
  <1>. QED BY <1>2, <1>5, <1>6, <1>7 DEF Store!Create, Components

Replaced(map, e, types, data) == [map EXCEPT ![e] = [types |-> types, values |-> data]]

LEMMA TurnsStored ==
  ASSUME NEW r, RegistryOK(r), NEW e \in Keys(r), NEW s, NEW types, NEW data,
         Turns(r, s, e.index, types, data), ~OverreadMatches
  PROVE  StoreOf(s) = Replaced(StoreOf(r), e, types, data)
  <1>1. e.index \in DOMAIN r.entities /\ r.entities[e.index].key = e
    BY LiveEntities DEF Keys
  <1>2. Keys(s) = Keys(r)
    BY TurnsKeys
  <1>3. StoreOf(s)[e] = [types |-> types, values |-> data]
    BY <1>2 DEF StoreOf, Turns
  <1>4. ASSUME NEW d \in Keys(r), d # e
        PROVE  StoreOf(s)[d] = StoreOf(r)[d]
    <2>1. d.index \in DOMAIN r.entities /\ r.entities[d.index].key = d
      BY LiveEntities DEF Keys
    <2>2. d.index # e.index
      BY <1>1, <1>4, <2>1
    <2>3. Kept(r, s, d.index)
      BY <2>1, <2>2 DEF Turns, Changes
    <2>. QED BY <2>3, KeptStored
  <1>. QED BY <1>2, <1>3, <1>4 DEF StoreOf, Replaced

-----------------------------------------------------------------------------
(* Actions *)

LEMMA SignatureTypes ==
  ASSUME NEW types \in Signatures
  PROVE  types \subseteq Types
  BY EntityRegistryAssumption DEF Types

(* New entities leave the commands as good as they were.                        *)
LEMMA CreateStep ==
  ASSUME IData, NEW types \in Signatures, NEW n \in Nat \ {0}, Create(types, n)
  PROVE  IData' /\ Stored
  <1> DEFINE q == reserve_ids(reg, n)
             ids == acquired(reg.pool, n)
             s == create_entities(q, types, ids)
             used == DOMAIN reg.entities
  <1>1. RegistryOK(reg) /\ OwnedOnce(reg.pool, used, reserved) /\ types \subseteq Types
    BY SignatureTypes DEF IData
  <1>2. Becomes(s, {}) /\ UNCHANGED <<reserved, commands>>
    BY DEF Create, create
  <1>3. Changes(reg, q, {}) /\ q.pool = acquire(reg.pool, n) /\ q.entities = reg.entities
    BY <1>1, Repooled DEF reserve_ids
  <1>4. /\ ids \in Seq(AnyHandle) /\ Len(ids) = n /\ Distinct(ids)
        /\ Indices(ids) \cap used = {}
    BY <1>1, AcquiredUnowned DEF Acquires
  <1>5. OwnedOnce(acquire(reg.pool, n), used \cup Indices(ids), reserved)
    BY <1>1, OwnedByNew
  <1>. HIDE DEF q, ids
  <1>6. ids # << >>
    BY <1>4
  <1>7. Makes(q, s, types, ids, Default) /\ s.pool = q.pool
    BY <1>1, <1>3, <1>4, <1>6, CreatesMakes DEF Changes
  <1>. HIDE DEF s
  <1>8. Makes(reg, s, types, ids, Default)
    BY <1>3, <1>7, MakesAfter
  <1>9. OwnedOnce(s.pool, DOMAIN s.entities, reserved')
    BY <1>2, <1>3, <1>5, <1>7, <1>8 DEF Makes
  <1>10. CommandsOK(commands', reserved', Keys(s))
    <2>1. Keys(s) = Live \cup {ids[k] : k \in DOMAIN ids}
      BY <1>1, <1>8, MakesKeys, LiveKeys
    <2>. QED BY <1>2, <2>1, CommandsStay DEF IData
  <1>11. IData'
    BY <1>2, <1>8, <1>9, <1>10, MakesStep
  <1>12. Stored
    BY <1>1, <1>2, <1>8, MakesStored, ArchetypesAssumption DEF Becomes
  <1>. QED BY <1>11, <1>12

(* s differs from the registry in its pool, and in the ids of clients.          *)
LEMMA PoolStep ==
  ASSUME IData, NEW q, Becomes([reg EXCEPT !.pool = q], {}),
         OwnedOnce(q, DOMAIN reg.entities, reserved'),
         CommandsOK(commands', reserved', Live)
  PROVE  IData' /\ Stored
  <1> DEFINE s == [reg EXCEPT !.pool = q]
  <1>1. RegistryOK(reg)
    BY DEF IData
  <1>2. Changes(reg, s, {}) /\ s.pool = q /\ s.entities = reg.entities
    BY <1>1, Repooled
  <1>. HIDE DEF s
  <1>3. Becomes(s, {})
    BY DEF s
  <1>4. Shows(s, {})
    BY <1>2 DEF Shows, Changes, Kept
  <1>5. Keys(s) = Live
    BY <1>2 DEF Keys, Live
  <1>6. IData'
    BY <1>2, <1>3, <1>4, <1>5, StepTaken
  <1>7. EntityMap' = StoreOf(s)
    BY <1>3, MappedNext DEF Becomes
  <1>8. Stored
    BY <1>1, <1>2, <1>7, Mapped, SameStored DEF Stored
  <1>. QED BY <1>6, <1>8

LEMMA ReserveStep ==
  ASSUME IData, Reserve
  PROVE  IData' /\ Stored
  <1> DEFINE e == acquired(reg.pool, 1)[1]
             q == acquire(reg.pool, 1)
  <1>1. OwnedOnce(q, DOMAIN reg.entities, reserved \cup {e})
    BY OwnedByClient DEF IData
  <1>. HIDE DEF e, q
  <1>2. /\ Becomes([reg EXCEPT !.pool = q], {}) /\ reserved' = reserved \cup {e}
        /\ commands' = commands
    BY DEF Reserve, reserve_ids, e, q
  <1>3. CommandsOK(commands', reserved', Live)
    BY <1>2, CommandsStay DEF IData
  <1>. QED BY <1>1, <1>2, <1>3, PoolStep

LEMMA ReleaseReservedStep ==
  ASSUME IData, NEW e \in reserved \ Targeted, ReleaseReserved(e)
  PROVE  IData' /\ Stored
  <1> DEFINE q == release(reg.pool, e)
  <1>1. e \in AnyHandle
    BY DEF IData, OwnedOnce
  <1>2. OwnedOnce(q, DOMAIN reg.entities, reserved \ {e})
    BY <1>1, OwnedByPool DEF IData
  <1>. HIDE DEF q
  <1>3. Becomes([reg EXCEPT !.pool = q], {}) /\ reserved' = reserved \ {e} /\ commands' = commands
    BY DEF ReleaseReserved, q
  <1>4. CommandsOK(commands', reserved', Live)
    BY <1>3, CommandsStay DEF IData, Targeted
  <1>. QED BY <1>2, <1>3, <1>4, PoolStep

LEMMA CreateReservedStep ==
  ASSUME IData, NEW types \in Signatures, NEW e \in reserved \ Targeted, CreateReserved(types, e)
  PROVE  IData' /\ Stored
  <1> DEFINE s == create_entities(reg, types, <<e>>)
             used == DOMAIN reg.entities
  <1>1. RegistryOK(reg) /\ OwnedOnce(reg.pool, used, reserved) /\ types \subseteq Types
    BY SignatureTypes DEF IData
  <1>2. e \in AnyHandle /\ e.index \notin used
    BY <1>1 DEF OwnedOnce
  <1>3. Makes(reg, s, types, <<e>>, Default) /\ s.pool = reg.pool
    BY <1>1, <1>2, OneIndex, CreatesMakes
  <1>4. Becomes(s, {}) /\ reserved' = reserved \ {e} /\ commands' = commands
    BY DEF CreateReserved
  <1>. HIDE DEF s
  <1>5. OwnedOnce(s.pool, DOMAIN s.entities, reserved')
    BY <1>1, <1>2, <1>3, <1>4, OneIndex, OwnedByCreated DEF Makes
  <1>6. CommandsOK(commands', reserved', Keys(s))
    <2>1. Keys(s) = Live \cup {<<e>>[k] : k \in DOMAIN <<e>>}
      BY <1>1, <1>3, MakesKeys, LiveKeys
    <2>2. \A k \in DOMAIN commands : commands[k].e # e
      BY DEF Targeted
    <2>. QED BY <1>4, <2>1, <2>2, CommandsStay DEF IData
  <1>7. IData'
    BY <1>3, <1>4, <1>5, <1>6, MakesStep
  <1>8. Stored
    BY <1>1, <1>3, <1>4, MakesStored, ArchetypesAssumption DEF Becomes
  <1>. QED BY <1>7, <1>8

(* An entity goes, with its index, in a call or a command.                      *)
LEMMA Gone ==
  ASSUME IData, NEW e \in Live, Becomes(destroy(reg, e), {}), UNCHANGED reserved,
         CommandsOK(commands', reserved, Live \ {e})
  PROVE  IData' /\ Stored
  <1> DEFINE s == destroy(reg, e)
             x == e.index
  <1>1. /\ RegistryOK(reg) /\ x \in DOMAIN reg.entities /\ reg.entities[x].key = e /\ e \in AnyHandle
        /\ \A y \in DOMAIN reg.entities : reg.entities[y].key.index = y
    <2>1. RegistryOK(reg)
      BY DEF IData
    <2>2. x \in DOMAIN reg.entities /\ reg.entities[x].key = e /\ e \in AnyHandle
      BY <2>1, LiveEntities DEF Live
    <2>3. \A y \in DOMAIN reg.entities : reg.entities[y].key.index = y
      BY <2>1 DEF RegistryOK, EntityLocated
    <2>. QED BY <2>1, <2>2, <2>3
  <1>2. Destroys(reg, s, e) /\ Becomes(s, {})
    BY <1>1, Destroyed
  <1>. HIDE DEF s, x
  <1>3. /\ Changes(reg, s, {}) /\ DOMAIN s.entities = DOMAIN reg.entities \ {x}
        /\ s.pool = release(reg.pool, e)
        /\ \A y \in DOMAIN s.entities : Kept(reg, s, y)
    BY <1>2 DEF Destroys, Changes, x
  <1>4. Keys(s) = Live \ {e}
    <2>1. \A y \in DOMAIN s.entities : s.entities[y].key = reg.entities[y].key
      BY <1>3 DEF Kept
    <2>2. \A y \in DOMAIN reg.entities : y \in DOMAIN s.entities <=> reg.entities[y].key # e
      BY <1>1, <1>3 DEF x
    <2>3. DOMAIN s.entities \subseteq DOMAIN reg.entities
      BY <1>3
    <2>. QED BY <2>1, <2>2, <2>3 DEF Keys, Live
  <1>5. Shows(s, {})
    BY <1>3 DEF Shows, Kept
  <1>6. OwnedOnce(s.pool, DOMAIN s.entities, reserved')
    <2>1. OwnedOnce(release(reg.pool, e), DOMAIN reg.entities \ {e.index}, reserved)
      BY <1>1, OwnedByPool DEF IData, x
    <2>. QED BY <1>3, <2>1 DEF x
  <1>7. CommandsOK(commands', reserved', Keys(s))
    BY <1>4
  <1>8. IData'
    BY <1>2, <1>3, <1>5, <1>6, <1>7, StepTaken
  <1>9. Stored
    <2>1. EntityMap = StoreOf(reg) /\ EntityMap' = StoreOf(s)
      BY <1>2, Mapped, MappedNext DEF Becomes
    <2>2. ASSUME NEW d \in Keys(s)
          PROVE  StoreOf(s)[d] = StoreOf(reg)[d]
      <3>1. d \in Keys(reg) /\ d # e
        BY <1>4, LiveKeys
      <3>2. d.index \in DOMAIN reg.entities /\ reg.entities[d.index].key = d
        BY <1>1, <3>1, LiveEntities DEF Keys
      <3>3. d.index \in DOMAIN s.entities
        BY <1>1, <1>3, <3>1, <3>2 DEF x
      <3>. QED BY <1>1, <1>3, <3>1, <3>3, KeptStored
    <2>3. StoreOf(s) = [d \in Live \ {e} |-> StoreOf(reg)[d]]
      BY <1>4, <2>2 DEF StoreOf
    <2>4. DOMAIN EntityMap = Live
      BY DEF EntityMap
    <2>. QED BY <2>1, <2>3, <2>4 DEF Stored, Store!Next, Store!Destroy
  <1>. QED BY <1>8, <1>9

LEMMA DestroyStep ==
  ASSUME IData, NEW e \in Live, Destroy(e)
  PROVE  IData' /\ Stored
  <1>1. CommandsOK(commands', reserved, Live \ {e})
    BY CommandsStay DEF IData, Destroy, Targeted
  <1>. QED BY <1>1, Gone DEF Destroy

LEMMA DestroyAllStep ==
  ASSUME IData, DestroyAll
  PROVE  IData' /\ Stored
  <1> DEFINE s == destroy_all(reg)
  <1>1. /\ Changes(reg, s, {}) /\ DOMAIN s.entities = {} /\ s.pool = EmptyPool
    BY AllDestroyed DEF IData
  <1>2. Becomes(s, {}) /\ reserved' = {} /\ commands' = << >> /\ commands = << >>
    BY DEF DestroyAll
  <1>. HIDE DEF s
  <1>3. Keys(s) = {} /\ Shows(s, {})
    BY <1>1 DEF Keys, Shows
  <1>4. CommandsOK(commands', reserved', Keys(s))
    <2>1. DOMAIN commands = {}
      BY <1>2
    <2>. QED BY <1>2, <2>1, CommandsStay DEF IData
  <1>5. IData'
    BY <1>1, <1>2, <1>3, <1>4, OwnedByNobody, StepTaken
  <1>6. EntityMap' = StoreOf(s)
    BY <1>2, MappedNext DEF Becomes
  <1>7. EntityMap' = [e \in {} |-> {}]
    BY <1>3, <1>6 DEF StoreOf
  <1>8. Stored
    BY <1>7 DEF Stored, Store!Next, Store!DestroyAll
  <1>. QED BY <1>5, <1>8

(* The entity of the store that changes has its components.                     *)
LEMMA StoredEntity ==
  ASSUME RegistryOK(reg), NEW e \in Live
  PROVE  /\ e \in Keys(reg) /\ e.index \in DOMAIN reg.entities
         /\ reg.entities[e.index].archetype \subseteq Types
         /\ EntityMap[e] = [types |-> reg.entities[e.index].archetype,
                            values |-> DataOf(reg, e.index)]
         /\ DataOf(reg, e.index) \in [Components(reg.entities[e.index].archetype) -> LiveObject]
         /\ DOMAIN EntityMap = Live
  <1>1. e \in Keys(reg) /\ e.index \in DOMAIN reg.entities
    BY LiveKeys, LiveEntities DEF Live
  <1>2. EntityMap[e] = [types |-> reg.entities[e.index].archetype, values |-> DataOf(reg, e.index)]
    BY <1>1, Mapped DEF StoreOf
  <1>. QED BY <1>1, <1>2, Location DEF EntityMap

LEMMA TurnsEntityMap ==
  ASSUME RegistryOK(reg), ~OverreadMatches, NEW e \in Live, NEW s, reg' = s, NEW types, NEW data,
         Turns(reg, s, e.index, types, data)
  PROVE  EntityMap' = Replaced(EntityMap, e, types, data)
  <1>1. e \in Keys(reg)
    BY LiveKeys
  <1>2. EntityMap = StoreOf(reg) /\ EntityMap' = StoreOf(s)
    BY Mapped, MappedNext
  <1>3. StoreOf(s) = Replaced(StoreOf(reg), e, types, data)
    BY <1>1, TurnsStored
  <1>. QED BY <1>2, <1>3

LEMMA AddStored ==
  ASSUME RegistryOK(reg), NEW e \in Live, NEW s, reg' = s, NEW types \in Signatures, NEW all,
         all = reg.entities[e.index].archetype \cup types, NEW data,
         Turns(reg, s, e.index, all, data), NEW v \in Value, NEW written, written \in {{}, {v}},
         data = IF written = {} THEN TakenAlong(all, DataOf(reg, e.index))
                ELSE Written(TakenAlong(all, DataOf(reg, e.index)), types, v)
  PROVE  Stored
  <1>1. SUFFICES ASSUME ~OverreadMatches PROVE Store!Add(e, types, written)
    <2>1. e \in DOMAIN EntityMap
      BY StoredEntity
    <2>2. ASSUME Store!Add(e, types, written)
          PROVE  Store!Next
      <3>1. CASE written = {}
        BY <2>1, <2>2, <3>1 DEF Store!Next
      <3>2. CASE written = {v}
        BY <2>1, <2>2, <3>2 DEF Store!Next
      <3>. QED BY <3>1, <3>2
    <2>. QED BY <2>2 DEF Stored
  <1> DEFINE old == DataOf(reg, e.index)
             had == reg.entities[e.index].archetype
  <1>2. EntityMap[e] = [types |-> had, values |-> old] /\ DOMAIN old = Components(had)
    BY StoredEntity
  <1>3. EntityMap' = Replaced(EntityMap, e, all, data)
    BY <1>1, TurnsEntityMap
  <1>. HIDE DEF old, had
  <1>4. \A c \in Components(all) : c \in DOMAIN old <=> c \in had
    BY <1>2 DEF Components
  <1>5. data = [c \in all \cap Component |->
                  IF c \in types /\ written # {} THEN CHOOSE w \in written : TRUE
                  ELSE IF c \in had THEN old[c] ELSE Default]
    <2>1. TakenAlong(all, old) = [c \in Components(all) |-> IF c \in had THEN old[c] ELSE Default]
      BY <1>4 DEF TakenAlong
    <2>2. CASE written = {}
      BY <2>1, <2>2 DEF old, Components
    <2>3. CASE written = {v}
      <3>1. (CHOOSE w \in written : TRUE) = v /\ written # {}
        BY <2>3
      <3>2. data = Written(TakenAlong(all, old), types, v)
        BY <3>1 DEF old
      <3>. QED BY <2>1, <3>1, <3>2 DEF Written, Components
    <2>. QED BY <2>2, <2>3
  <1>6. all = EntityMap[e].types \cup types /\ EntityMap[e].types = had /\ EntityMap[e].values = old
    BY <1>2 DEF had
  <1>. QED BY <1>3, <1>5, <1>6 DEF Store!Add, Replaced

LEMMA OverreadSometimes ==
  ASSUME NEW old, NEW new, NEW overread \in Overread(old, new)
  PROVE  overread # {} => OverreadMatches
  BY DEF Overread

LEMMA RetypedOnly ==
  ASSUME NEW s, NEW e
  PROVE  /\ Retyped(s, e) \subseteq {e}
         /\ Retyped(s, e) # {} => s.entities[e.index].archetype # reg.entities[e.index].archetype
  BY DEF Retyped, find

(* Types are added to an entity, and removed, in a call or a command.           *)
LEMMA Added ==
  ASSUME IData, NEW e \in Live, NEW types \in Signatures,
         NEW overread \in Overread(find(reg, e).archetype, find(reg, e).archetype \cup types),
         LET s == add(reg, e, types, overread) IN Becomes(s, Retyped(s, e)),
         UNCHANGED reserved, CommandsOK(commands', reserved, Live)
  PROVE  IData' /\ Stored
  <1> DEFINE x == e.index
             all == reg.entities[x].archetype \cup types
             s == move_archetype(reg, e, all, overread)
             data == TakenAlong(all, DataOf(reg, x))
  <1>1. RegistryOK(reg) /\ x \in DOMAIN reg.entities /\ all \subseteq Types
    BY StoredEntity, SignatureTypes DEF IData
  <1>2. Becomes(s, Retyped(s, e))
    BY DEF add, find
  <1>3. Turns(reg, s, x, all, data)
    BY <1>1, MovesTurns, OverreadSometimes
  <1>. HIDE DEF s
  <1>4. s.entities[x].archetype = all
    BY <1>3 DEF Turns
  <1>. HIDE DEF all, data
  <1>5. IData'
    <2> DEFINE marked == Retyped(s, e)
    <2>1. marked \subseteq {e} /\ (marked # {} => all # reg.entities[e.index].archetype)
      BY <1>4, RetypedOnly
    <2>2. Becomes(s, marked)
      BY <1>2
    <2>. HIDE DEF marked
    <2>. QED BY <1>3, <2>1, <2>2, TurnsStep
  <1>6. Stored
    BY <1>1, <1>2, <1>3, AddStored, ArchetypesAssumption DEF Becomes, all, data
  <1>. QED BY <1>5, <1>6

LEMMA AddedAndWritten ==
  ASSUME IData, NEW e \in Live, NEW types \in Signatures, NEW v \in Value,
         NEW overread \in Overread(find(reg, e).archetype, find(reg, e).archetype \cup types),
         LET s == add(reg, e, types, overread)
         IN  Becomes(assign(s, e, types, v), Retyped(s, e)),
         UNCHANGED reserved, CommandsOK(commands', reserved, Live)
  PROVE  IData' /\ Stored
  <1> DEFINE x == e.index
             all == reg.entities[x].archetype \cup types
             s == move_archetype(reg, e, all, overread)
             u == assign(s, e, types, v)
             taken == TakenAlong(all, DataOf(reg, x))
             data == Written(taken, types, v)
  <1>1. RegistryOK(reg) /\ x \in DOMAIN reg.entities /\ all \subseteq Types
    BY StoredEntity, SignatureTypes DEF IData
  <1>2. Becomes(u, Retyped(s, e))
    BY DEF add, find
  <1>3. Turns(reg, s, x, all, taken)
    BY <1>1, MovesTurns, OverreadSometimes
  <1>. HIDE DEF s, all, taken
  <1>4. s.entities[x].archetype = all /\ RegistryOK(s) /\ x \in DOMAIN s.entities
    BY <1>1, <1>3 DEF Turns, Changes
  <1>5. Turns(s, u, x, all, Written(DataOf(s, x), types, v))
    BY <1>4, AssignsTurns
  <1>. HIDE DEF u, data
  <1>6. Turns(s, u, x, all, data)
    <2>1. ~OverreadMatches => DataOf(s, x) = taken
      BY <1>3 DEF Turns
    <2>. QED BY <1>5, <2>1 DEF Turns, data
  <1>7. Turns(reg, u, x, all, data)
    BY <1>1, <1>3, <1>6, TurnsTwice
  <1>8. IData'
    <2> DEFINE marked == Retyped(s, e)
    <2>1. marked \subseteq {e} /\ (marked # {} => all # reg.entities[e.index].archetype)
      BY <1>4, RetypedOnly
    <2>2. Becomes(u, marked)
      BY <1>2
    <2>. HIDE DEF marked
    <2>. QED BY <1>7, <2>1, <2>2, TurnsStep
  <1>9. Stored
    <2> DEFINE written == {v}
    <2>1. reg' = u
      BY <1>2 DEF Becomes
    <2>2. all = reg.entities[e.index].archetype \cup types
      BY DEF all
    <2>3. /\ written \in {{}, {v}}
          /\ data = IF written = {} THEN TakenAlong(all, DataOf(reg, e.index))
                    ELSE Written(TakenAlong(all, DataOf(reg, e.index)), types, v)
      BY DEF data, taken
    <2>. HIDE DEF written
    <2>. QED BY <1>1, <1>7, <2>1, <2>2, <2>3, AddStored
  <1>. QED BY <1>8, <1>9

LEMMA RemoveStored ==
  ASSUME RegistryOK(reg), NEW e \in Live, NEW s, reg' = s, NEW types \in Signatures, NEW left,
         left = reg.entities[e.index].archetype \ types,
         Turns(reg, s, e.index, left, TakenAlong(left, DataOf(reg, e.index)))
  PROVE  Stored
  <1>1. SUFFICES ASSUME ~OverreadMatches PROVE Store!Remove(e, types)
    BY StoredEntity DEF Stored, Store!Next
  <1> DEFINE old == DataOf(reg, e.index)
             had == reg.entities[e.index].archetype
             data == TakenAlong(left, old)
  <1>2. EntityMap[e] = [types |-> had, values |-> old] /\ DOMAIN old = Components(had)
    BY StoredEntity
  <1>3. EntityMap' = Replaced(EntityMap, e, left, data)
    BY <1>1, TurnsEntityMap
  <1>. HIDE DEF old, had
  <1>4. \A c \in Components(left) : c \in DOMAIN old
    BY <1>2 DEF Components, had
  <1>5. data = [c \in left \cap Component |-> old[c]]
    BY <1>4 DEF TakenAlong, Components
  <1>. HIDE DEF data
  <1>6. left = EntityMap[e].types \ types /\ EntityMap[e].values = old
    BY <1>2 DEF had
  <1>7. Replaced(EntityMap, e, left, data) =
          [EntityMap EXCEPT ![e] = [types |-> left, values |-> [c \in left \cap Component |-> @.values[c]]]]
    BY <1>5, <1>6 DEF Replaced
  <1>. QED BY <1>3, <1>6, <1>7 DEF Store!Remove

LEMMA Removed ==
  ASSUME IData, NEW e \in Live, NEW types \in Signatures,
         LET s == remove(reg, e, types) IN Becomes(s, Retyped(s, e)),
         UNCHANGED reserved, CommandsOK(commands', reserved, Live)
  PROVE  IData' /\ Stored
  <1> DEFINE x == e.index
             left == reg.entities[x].archetype \ types
             s == move_archetype(reg, e, left, {})
             data == TakenAlong(left, DataOf(reg, x))
  <1>1. RegistryOK(reg) /\ x \in DOMAIN reg.entities /\ left \subseteq Types
    BY StoredEntity DEF IData
  <1>2. Becomes(s, Retyped(s, e))
    BY DEF remove, find
  <1>3. Turns(reg, s, x, left, data)
    BY <1>1, MovesTurns
  <1>. HIDE DEF s
  <1>4. s.entities[x].archetype = left
    BY <1>3 DEF Turns
  <1>. HIDE DEF left, data
  <1>5. IData'
    <2> DEFINE marked == Retyped(s, e)
    <2>1. marked \subseteq {e} /\ (marked # {} => left # reg.entities[e.index].archetype)
      BY <1>4, RetypedOnly
    <2>2. Becomes(s, marked)
      BY <1>2
    <2>. HIDE DEF marked
    <2>. QED BY <1>3, <2>1, <2>2, TurnsStep
  <1>6. Stored
    BY <1>1, <1>2, <1>3, RemoveStored DEF Becomes, left, data
  <1>. QED BY <1>5, <1>6

LEMMA AddStep ==
  ASSUME IData, NEW e \in Live, NEW types \in Signatures, Add(e, types)
  PROVE  IData' /\ Stored
  <1>1. CommandsOK(commands', reserved, Live)
    BY DEF Add, IData
  <1>. QED BY <1>1, Added DEF Add

LEMMA RemoveStep ==
  ASSUME IData, NEW e \in Live, NEW types \in Signatures, Remove(e, types)
  PROVE  IData' /\ Stored
  <1>1. CommandsOK(commands', reserved, Live)
    BY DEF Remove, IData
  <1>. QED BY <1>1, Removed DEF Remove

LEMMA WriteStep ==
  ASSUME IData, NEW e \in Live, NEW v \in Value, Write(e, v)
  PROVE  IData' /\ Stored
  <1> DEFINE x == e.index
             had == reg.entities[x].archetype
             old == DataOf(reg, x)
  <1>1. PICK c \in Components(had) :
          Becomes(assign(reg, e, {c}, v), {}) /\ UNCHANGED <<reserved, commands>>
    BY DEF Write, find
  <1> DEFINE s == assign(reg, e, {c}, v)
             data == Written(old, {c}, v)
  <1>2. RegistryOK(reg) /\ x \in DOMAIN reg.entities
    BY StoredEntity DEF IData
  <1>3. Turns(reg, s, x, had, data)
    BY <1>2, AssignsTurns
  <1>. HIDE DEF s, had
  <1>4. IData'
    <2>1. CommandsOK(commands', reserved, Live) /\ Becomes(s, {}) /\ UNCHANGED reserved
      BY <1>1 DEF IData, s
    <2>. HIDE DEF data
    <2>. QED BY <1>3, <2>1, TurnsStep
  <1>5. Stored
    <2>1. SUFFICES ASSUME ~OverreadMatches PROVE Store!Next
      BY DEF Stored
    <2>2. EntityMap[e] = [types |-> had, values |-> old] /\ DOMAIN old = Components(had)
          /\ e \in DOMAIN EntityMap
      BY <1>2, StoredEntity DEF had
    <2>3. EntityMap' = Replaced(EntityMap, e, had, data)
      BY <1>1, <1>2, <1>3, <2>1, TurnsEntityMap DEF Becomes, s
    <2>. HIDE DEF old
    <2>4. data = [old EXCEPT ![c] = v] /\ c \in DOMAIN old
      BY <2>2 DEF Written
    <2>. HIDE DEF data
    <2>5. EntityMap' = [EntityMap EXCEPT ![e].values[c] = v]
      <3>1. [EntityMap[e] EXCEPT !.values[c] = v] = [types |-> had, values |-> data]
        BY <2>2, <2>4
      <3>. QED BY <2>2, <2>3, <3>1 DEF Replaced
    <2>6. Store!Write(e, c, v) /\ c \in DOMAIN EntityMap[e].values
      BY <2>2, <2>4, <2>5 DEF Store!Write
    <2>. QED BY <2>2, <2>6 DEF Store!Next
  <1>. QED BY <1>4, <1>5

LEMMA Notified ==
  ASSUME IData, NEW s, NEW X, Notifies(reg, s, X), NEW marked,
         \A x \in DOMAIN reg.entities : reg.entities[x].key \in marked => x \in X,
         Becomes(s, marked), UNCHANGED <<reserved, commands>>
  PROVE  IData' /\ Stored
  <1>1. /\ Changes(reg, s, {}) /\ s.pool = reg.pool /\ s.entities = reg.entities
        /\ \A x \in X : Seen(s, x, s.modificationId)
    BY DEF Notifies, Changes
  <1>2. Shows(s, marked)
    BY <1>1 DEF Shows, Changes, Kept
  <1>3. Keys(s) = Live
    BY <1>1 DEF Keys, Live
  <1>4. OwnedOnce(s.pool, DOMAIN s.entities, reserved') /\ CommandsOK(commands', reserved', Keys(s))
    BY <1>1, <1>3 DEF IData
  <1>5. IData'
    BY <1>1, <1>2, <1>4, StepTaken
  <1>6. Stored
    <2>1. EntityMap' = StoreOf(s)
      BY MappedNext DEF Becomes
    <2>. QED BY <1>1, <2>1, Mapped, SameStored DEF Stored, IData
  <1>. QED BY <1>5, <1>6

LEMMA NotifyStep ==
  ASSUME IData, NEW e \in Live, Notify(e)
  PROVE  IData' /\ Stored
  <1>1. RegistryOK(reg) /\ e.index \in DOMAIN reg.entities
    BY StoredEntity DEF IData
  <1>2. Notifies(reg, notify(reg, e), {e.index})
    BY <1>1, NotifiedEntity
  <1>3. \A x \in DOMAIN reg.entities : reg.entities[x].key \in {e} => x \in {e.index}
    BY <1>1 DEF RegistryOK, EntityLocated
  <1>. QED BY <1>2, <1>3, Notified DEF Notify

LEMMA NotifyChunkStep ==
  ASSUME IData, NEW t \in DOMAIN reg.archetypes, NEW k, NotifyChunk(t, k)
  PROVE  IData' /\ Stored
  <1> DEFINE num == reg.archetypes[t].numCurrentEntities
             s == [reg EXCEPT !.archetypes[t] = mark_chunk(@, k, reg.modificationId)]
             X == {x \in DOMAIN reg.entities :
                     /\ reg.entities[x].archetype = t
                     /\ ChunkOf(reg.entities[x].archetypeIndex) = k}
             marked == {reg.archetypes[t].slots[i].id : i \in {j \in 0..(num - 1) : ChunkOf(j) = k}}
  <1>1. RegistryOK(reg)
    BY DEF IData
  <1>2. /\ k \in 1..ChunksFor(num) /\ Becomes(s, marked) /\ UNCHANGED <<reserved, commands>>
    BY DEF NotifyChunk
  <1>3. Notifies(reg, s, X)
    BY <1>1, <1>2, NotifiedChunk
  <1>4. ASSUME NEW x \in DOMAIN reg.entities, reg.entities[x].key \in marked
        PROVE  x \in X
    <2>1. PICK i \in 0..(num - 1) : ChunkOf(i) = k /\ reg.archetypes[t].slots[i].id = reg.entities[x].key
      BY <1>4
    <2>2. SlotLocated(reg, t, i) /\ EntityLocated(reg, x)
      BY <1>1 DEF RegistryOK
    <2>. QED BY <2>1, <2>2 DEF SlotLocated, EntityLocated
  <1>. HIDE DEF s, X, marked
  <1>. QED BY <1>2, <1>3, <1>4, Notified

LEMMA NextSystemStep ==
  ASSUME IData, NextSystem
  PROVE  IData' /\ Stored
  <1> DEFINE s == [reg EXCEPT !.modificationId = @ + 1]
             m == reg.modificationId
  <1>1. RegistryOK(reg) /\ m \in Nat /\ DOMAIN reg = {"pool", "entities", "archetypes", "modificationId"}
    BY DEF IData, RegistryOK
  <1>2. reg' = s /\ UNCHANGED <<reserved, commands, touched>>
    BY DEF NextSystem
  <1>3. /\ DOMAIN s = DOMAIN reg /\ s.pool = reg.pool /\ s.entities = reg.entities
        /\ s.archetypes = reg.archetypes /\ s.modificationId = m + 1
    BY <1>1
  <1>. HIDE DEF s
  <1>4. RegistryOK(s)
    <2>1. \A x \in DOMAIN s.entities : EntityLocated(s, x)
      <3>1. \A x \in DOMAIN reg.entities : EntityLocated(reg, x)
        BY <1>1 DEF RegistryOK
      <3>. QED BY <1>3, <3>1 DEF EntityLocated
    <2>2. ASSUME NEW t \in DOMAIN s.archetypes,
                 NEW i \in 0..(s.archetypes[t].numCurrentEntities - 1)
          PROVE  SlotLocated(s, t, i)
      <3>1. SlotLocated(reg, t, i)
        BY <1>1, <1>3 DEF RegistryOK
      <3>. QED BY <1>3, <3>1 DEF SlotLocated
    <2>3. ASSUME NEW t \in DOMAIN s.archetypes
          PROVE  t \subseteq Types /\ ArchetypeOK(t, s.archetypes[t], m + 1)
      <3>1. t \subseteq Types /\ ArchetypeOK(t, reg.archetypes[t], m)
        BY <1>1, <1>3 DEF RegistryOK
      <3>2. m + 1 \in Nat /\ m <= m + 1
        BY <1>1
      <3>3. ArchetypeOK(t, reg.archetypes[t], m + 1)
        BY <1>1, <3>1, <3>2, OlderArchetype
      <3>. QED BY <1>3, <3>1, <3>3
    <2>. QED BY <1>1, <1>3, <2>1, <2>2, <2>3 DEF RegistryOK
  <1>5. Live' = Live
    BY <1>2, <1>3 DEF Live
  <1>6. TouchedInv'
    <2>1. ASSUME NEW x \in DOMAIN reg.entities
          PROVE  LET e == s.entities[x].key
                 IN  touched[e] \in 0..(m + 1) /\ Seen(s, x, touched[e])
      <3> DEFINE e == reg.entities[x].key
      <3>1. touched[e] \in 0..m /\ Seen(reg, x, touched[e])
        BY DEF IData, TouchedInv
      <3>2. Seen(s, x, touched[e])
        BY <1>3, <3>1 DEF Seen, ArchetypeOf
      <3>. QED BY <1>1, <1>3, <3>1, <3>2
    <2>2. DOMAIN touched' = Live'
      BY <1>2, <1>5 DEF IData, TouchedInv
    <2>. QED BY <1>2, <1>3, <2>1, <2>2 DEF TouchedInv, Seen, ArchetypeOf
  <1>7. RegistryOK(reg') /\ OwnedOnce(reg'.pool, DOMAIN reg'.entities, reserved')
        /\ CommandsOK(commands', reserved', Live')
    BY <1>2, <1>3, <1>4, <1>5 DEF IData
  <1>8. IData'
    BY <1>6, <1>7 DEF IData, RegistryOK, EntityLocated, SlotLocated
  <1>9. Stored
    BY <1>2, <1>3 DEF Stored, EntityMap, Live, find
  <1>. QED BY <1>8, <1>9

(* What changes is deferred.                                                    *)
LEMMA CommandsOnly ==
  ASSUME IData, UNCHANGED <<reg, touched, reserved>>, CommandsOK(commands', reserved, Live)
  PROVE  IData' /\ Stored
  <1>1. Live' = Live /\ EntityMap' = EntityMap
    BY DEF Live, EntityMap, find
  <1>2. TouchedInv'
    BY <1>1 DEF IData, TouchedInv, Seen, ArchetypeOf
  <1>3. RegistryOK(reg') /\ OwnedOnce(reg'.pool, DOMAIN reg'.entities, reserved')
        /\ CommandsOK(commands', reserved', Live')
    BY <1>1 DEF IData
  <1>4. IData'
    BY <1>2, <1>3 DEF IData, RegistryOK, EntityLocated, SlotLocated
  <1>. QED BY <1>1, <1>4 DEF Stored

LEMMA DeferStep ==
  ASSUME IData, NEW c \in Command, Defer(c), UNCHANGED reserved, c.op # "create_reserved",
         c.op \in {"add", "remove", "destroy"} => c.e \in Usable
  PROVE  IData' /\ Stored
  <1>1. CommandsOK(commands, reserved, Live)
    BY DEF IData
  <1>2. commands' = Append(commands, c) /\ UNCHANGED <<reg, touched>>
    BY DEF Defer
  <1>3. ASSUME c.op \in {"add", "remove", "destroy"}
        PROVE  /\ \/ c.e \in Live
                  \/ \E j \in DOMAIN commands : commands[j].op = "create_reserved" /\ commands[j].e = c.e
               /\ \A j \in DOMAIN commands : commands[j].op = "destroy" => commands[j].e # c.e
    BY <1>3 DEF Usable, Pending
  <1>4. CommandsOK(Append(commands, c), reserved, Live)
    BY <1>1, <1>3, CommandsAppended
  <1>. QED BY <1>2, <1>4, CommandsOnly

LEMMA UsableHandle ==
  ASSUME IData, NEW e \in Usable
  PROVE  e \in AnyHandle
  <1>1. Live \subseteq AnyHandle
    BY LiveEntities DEF IData, Live
  <1>2. Pending("create_reserved") \subseteq AnyHandle
    BY DEF IData, CommandsOK, OwnedOnce, Pending
  <1>. QED BY <1>1, <1>2 DEF Usable

LEMMA DeferSteps ==
  ASSUME IData, NEW types \in Signatures, NEW v \in Value, NEW e \in Usable
  PROVE  /\ DeferAdd(e, types, v) => IData' /\ Stored
         /\ DeferRemove(e, types) => IData' /\ Stored
         /\ DeferDestroy(e) => IData' /\ Stored
  <1> DEFINE c(op, t, w) == [op |-> op, e |-> e, types |-> t, value |-> w]
  <1>1. e \in AnyHandle
    BY UsableHandle
  <1>2. c("add", types, v) \in Command /\ c("remove", types, Default) \in Command
        /\ c("destroy", {}, Default) \in Command
    BY <1>1, ArchetypesAssumption DEF Command, CommandOf
  <1>3. ASSUME NEW op, NEW t, NEW w, c(op, t, w) \in Command, op \in {"add", "remove", "destroy"},
               Defer(c(op, t, w)), UNCHANGED reserved
        PROVE  IData' /\ Stored
    <2> DEFINE d == c(op, t, w)
    <2>1. d.op = op /\ d.e = e /\ d \in Command /\ Defer(d)
      BY <1>3
    <2>. HIDE DEF d
    <2>2. d.op # "create_reserved" /\ (d.op \in {"add", "remove", "destroy"} => d.e \in Usable)
      BY <1>3, <2>1
    <2>. QED BY <1>3, <2>1, <2>2, DeferStep
  <1>4. DeferAdd(e, types, v) => Defer(c("add", types, v)) /\ UNCHANGED reserved
    BY DEF DeferAdd
  <1>5. DeferRemove(e, types) => Defer(c("remove", types, Default)) /\ UNCHANGED reserved
    BY DEF DeferRemove
  <1>6. DeferDestroy(e) => Defer(c("destroy", {}, Default)) /\ UNCHANGED reserved
    BY DEF DeferDestroy
  <1>. HIDE DEF c
  <1>. QED BY <1>2, <1>3, <1>4, <1>5, <1>6

LEMMA DeferCreateStep ==
  ASSUME IData, NEW types \in Signatures, NEW v \in Value, DeferCreate(types, v)
  PROVE  IData' /\ Stored
  <1> DEFINE c == [op |-> "create", e |-> NoEntity, types |-> types, value |-> v]
  <1>1. c \in Command /\ c.op = "create" /\ Defer(c) /\ UNCHANGED reserved
    BY DEF Command, CommandOf, DeferCreate
  <1>. HIDE DEF c
  <1>2. c.op # "create_reserved" /\ c.op \notin {"add", "remove", "destroy"}
    BY <1>1
  <1>. QED BY <1>1, <1>2, DeferStep

(* No command names an id that was not reserved yet.                            *)
LEMMA NamedEarlier ==
  ASSUME NEW queue, NEW ids, NEW live, CommandsOK(queue, ids, live), NEW j \in DOMAIN queue,
         queue[j].op # "create"
  PROVE  queue[j].e \in ids \cup live
  <1>1. queue \in Seq(Command) /\ queue[j].op \in {"create", "create_reserved", "add", "remove", "destroy"}
    BY DEF CommandsOK, Command, CommandOf
  <1>2. CASE queue[j].op = "create_reserved"
    BY <1>2 DEF CommandsOK
  <1>3. CASE queue[j].op \in {"add", "remove", "destroy"}
    <2>1. CASE \E k \in 1..(j - 1) : queue[k].op = "create_reserved" /\ queue[k].e = queue[j].e
      <3>1. PICK k \in 1..(j - 1) : queue[k].op = "create_reserved" /\ queue[k].e = queue[j].e
        BY <2>1
      <3>2. k \in DOMAIN queue
        BY <1>1, <3>1
      <3>. QED BY <3>1, <3>2 DEF CommandsOK
    <2>. QED BY <1>3, <2>1 DEF CommandsOK
  <1>. QED BY <1>1, <1>2, <1>3

LEMMA DeferCreateReservedStep ==
  ASSUME IData, NEW types \in Signatures, NEW v \in Value, DeferCreateReserved(types, v)
  PROVE  IData' /\ Stored
  <1> DEFINE e == acquired(reg.pool, 1)[1]
             q == acquire(reg.pool, 1)
             c == [op |-> "create_reserved", e |-> e, types |-> types, value |-> v]
             ids == reserved \cup {e}
  <1>1. /\ e \in AnyHandle /\ e.index \notin DOMAIN reg.entities /\ e \notin reserved
        /\ OwnedOnce(q, DOMAIN reg.entities, reserved \cup {e})
    BY OwnedByClient DEF IData
  <1>2. /\ Becomes([reg EXCEPT !.pool = q], {}) /\ reserved' = reserved \cup {e}
        /\ commands' = Append(commands, c)
    BY DEF DeferCreateReserved, reserve_ids
  <1>. HIDE DEF e, q
  <1>3. e \notin Live
    BY <1>1, LiveEntities DEF IData, Live
  <1>4. c \in Command /\ c.op = "create_reserved" /\ c.e = e
    BY <1>1 DEF Command, CommandOf
  <1>. HIDE DEF c
  <1>5. \A j \in DOMAIN commands : commands[j].op # "create" => commands[j].e # c.e
    BY <1>1, <1>3, <1>4, NamedEarlier DEF IData
  <1>6. e \in ids /\ ids = reserved \cup {e}
    OBVIOUS
  <1>. HIDE DEF ids
  <1>7. CommandsOK(commands, ids, Live)
    BY <1>6, CommandsStay DEF IData
  <1>8. CommandsOK(Append(commands, c), ids, Live)
    BY <1>4, <1>5, <1>6, <1>7, CommandsAppended
  <1>. QED BY <1>1, <1>2, <1>6, <1>8, PoolStep

LEMMA ClearStep ==
  ASSUME IData, Clear
  PROVE  IData' /\ Stored
  <1>1. << >> \in Seq(Command) /\ DOMAIN << >> = {}
    OBVIOUS
  <1>2. CommandsOK(<< >>, reserved, Live)
    BY <1>1 DEF CommandsOK
  <1>. QED BY <1>2, CommandsOnly DEF Clear

LEMMA ApplyStep ==
  ASSUME IData, Apply
  PROVE  IData' /\ Stored
  BY CommandsOnly DEF Apply, IData

-----------------------------------------------------------------------------
(* Commands that are applied *)

FirstCommand ==
  LET c == Head(commands)
  IN  /\ c \in Command
      /\ c.op = "create_reserved" => c.e \in reserved
      /\ c.op \in {"add", "remove", "destroy"} => c.e \in Live
      /\ c.op \in {"create", "create_reserved", "add", "remove"} =>
           c.types \in Signatures /\ c.value \in Value

LEMMA First ==
  ASSUME IData, commands # << >>
  PROVE  FirstCommand
  <1> DEFINE c == Head(commands)
  <1>1. commands \in Seq(Command)
    BY DEF IData, CommandsOK
  <1>2. c = commands[1] /\ 1 \in DOMAIN commands /\ c \in Command
    BY <1>1
  <1>3. c.op \in {"create", "create_reserved", "add", "remove"} =>
          c.types \in Signatures /\ c.value \in Value
    BY <1>2 DEF Command, CommandOf
  <1>. HIDE DEF c
  <1>4. /\ c.op = "create_reserved" => c.e \in reserved
        /\ c.op \in {"add", "remove", "destroy"} => c.e \in Live
    <2>1. ~ \E j \in 1..(1 - 1) : TRUE
      OBVIOUS
    <2>. QED BY <1>2, <2>1 DEF IData, CommandsOK
  <1>. QED BY <1>2, <1>3, <1>4 DEF FirstCommand, c

LEMMA ApplyCreate ==
  ASSUME IData, commands # << >>, NEW types \in Signatures, NEW v \in Value,
         Head(commands).op = "create", commands' = Tail(commands), UNCHANGED reserved,
         LET e == acquired(reg.pool, 1)[1]
             r == add(create(reg, types, 1), e, types, {})
         IN  Becomes(assign(r, e, types, v), {})
  PROVE  IData' /\ Stored
  <1> DEFINE q == reserve_ids(reg, 1)
             ids == acquired(reg.pool, 1)
             e == ids[1]
             r == add(create_entities(q, types, <<e>>), e, types, {})
             s == assign(r, e, types, v)
             used == DOMAIN reg.entities
  <1>1. RegistryOK(reg) /\ OwnedOnce(reg.pool, used, reserved) /\ types \subseteq Types
    BY SignatureTypes DEF IData
  <1>2. Changes(reg, q, {}) /\ q.pool = acquire(reg.pool, 1) /\ q.entities = reg.entities
    BY <1>1, Repooled DEF reserve_ids
  <1>3. /\ ids \in Seq(AnyHandle) /\ Len(ids) = 1 /\ Indices(ids) \cap used = {}
        /\ OwnedOnce(acquire(reg.pool, 1), used \cup Indices(ids), reserved)
    BY <1>1, AcquiredUnowned, OwnedByNew DEF Acquires
  <1>4. ids = <<e>> /\ e \in AnyHandle
    <2>. HIDE DEF ids
    <2>. QED BY <1>3, OnlyIndex
  <1>5. Becomes(s, {})
    BY <1>4 DEF create
  <1>. HIDE DEF q, ids
  <1>6. Indices(ids) = {e.index} /\ {ids[k] : k \in DOMAIN ids} = {e}
    BY <1>4, OneIndex
  <1>7. Makes(q, s, types, <<e>>, v) /\ s.pool = q.pool
    <2>1. RegistryOK(q) /\ e.index \notin DOMAIN q.entities
      BY <1>2, <1>3, <1>6 DEF Changes
    <2>. QED BY <1>1, <1>4, <2>1, EntityMade
  <1>. HIDE DEF s, r, e
  <1>8. Makes(reg, s, types, ids, v)
    BY <1>2, <1>4, <1>7, MakesAfter
  <1>9. OwnedOnce(s.pool, DOMAIN s.entities, reserved')
    BY <1>2, <1>3, <1>7, <1>8 DEF Makes
  <1>10. CommandsOK(commands', reserved', Keys(s))
    <2>1. Keys(s) = Live \cup {e}
      <3>1. Keys(s) = Keys(reg) \cup {ids[k] : k \in DOMAIN ids}
        BY <1>1, <1>8, MakesKeys
      <3>. QED BY <1>6, <3>1, LiveKeys
    <2>2. CommandsOK(commands, reserved, Live)
      BY DEF IData
    <2>3. CommandsOK(Tail(commands), reserved, Live \cup {e})
      BY <2>2, CommandsTail
    <2>. QED BY <2>1, <2>3
  <1>11. IData'
    BY <1>5, <1>8, <1>9, <1>10, MakesStep
  <1>12. Stored
    BY <1>1, <1>5, <1>8, MakesStored DEF Becomes
  <1>. QED BY <1>11, <1>12

LEMMA ApplyCreateReserved ==
  ASSUME IData, commands # << >>, NEW types \in Signatures, NEW v \in Value, NEW e \in reserved,
         Head(commands).op = "create_reserved", Head(commands).e = e,
         commands' = Tail(commands), reserved' = reserved \ {e},
         LET r == add(create_entities(reg, types, <<e>>), e, types, {})
         IN  Becomes(assign(r, e, types, v), {})
  PROVE  IData' /\ Stored
  <1> DEFINE r == add(create_entities(reg, types, <<e>>), e, types, {})
             s == assign(r, e, types, v)
             used == DOMAIN reg.entities
  <1>1. RegistryOK(reg) /\ OwnedOnce(reg.pool, used, reserved) /\ types \subseteq Types
    BY SignatureTypes DEF IData
  <1>2. e \in AnyHandle /\ e.index \notin used
    BY <1>1 DEF OwnedOnce
  <1>3. Makes(reg, s, types, <<e>>, v) /\ s.pool = reg.pool
    BY <1>1, <1>2, EntityMade
  <1>4. Becomes(s, {})
    OBVIOUS
  <1>. HIDE DEF s
  <1>5. OwnedOnce(s.pool, DOMAIN s.entities, reserved')
    BY <1>1, <1>2, <1>3, OneIndex, OwnedByCreated DEF Makes
  <1>6. CommandsOK(commands', reserved', Keys(s))
    <2>1. Keys(s) = Live \cup {<<e>>[k] : k \in DOMAIN <<e>>}
      BY <1>1, <1>3, MakesKeys, LiveKeys
    <2>2. Keys(s) = Live \cup {e}
      BY <1>2, <2>1, OneIndex
    <2>. QED BY <2>2, CommandsTail DEF IData
  <1>7. IData'
    BY <1>3, <1>4, <1>5, <1>6, MakesStep
  <1>8. Stored
    BY <1>1, <1>3, <1>4, MakesStored DEF Becomes
  <1>. QED BY <1>7, <1>8

LEMMA ApplyCommandStep ==
  ASSUME IData, commands # << >>, ApplyCommand
  PROVE  IData' /\ Stored /\ applying' \in BOOLEAN /\ (applying' => commands' # << >>)
  <1> DEFINE c == Head(commands)
  <1>1. FirstCommand
    BY First
  <1>2. commands' = Tail(commands) /\ applying' = (Tail(commands) # << >>)
    BY DEF ApplyCommand
  <1>3. c.op \in {"add", "remove"} => CommandsOK(commands', reserved, Live)
    <2>. HIDE DEF c
    <2>1. CommandsOK(commands, reserved, Live)
      BY DEF IData
    <2>. QED BY <1>2, <2>1, CommandsTail DEF c
  <1>4. c.op = "destroy" => CommandsOK(commands', reserved, Live \ {c.e})
    <2>1. CommandsOK(commands, reserved, Live)
      BY DEF IData
    <2>. QED BY <1>2, <2>1, CommandsTail
  <1>5. IData' /\ Stored
    <2>1. CASE /\ c.op = "create" /\ UNCHANGED reserved
               /\ LET e == acquired(reg.pool, 1)[1]
                      r == add(create(reg, c.types, 1), e, c.types, {})
                  IN  Becomes(assign(r, e, c.types, c.value), {})
      BY <1>1, <1>2, <2>1, ApplyCreate DEF FirstCommand
    <2>2. CASE /\ c.op = "create_reserved" /\ reserved' = reserved \ {c.e}
               /\ LET r == add(create_entities(reg, c.types, <<c.e>>), c.e, c.types, {})
                  IN  Becomes(assign(r, c.e, c.types, c.value), {})
      BY <1>1, <1>2, <2>2, ApplyCreateReserved DEF FirstCommand
    <2>3. CASE /\ c.op = "add" /\ UNCHANGED reserved
               /\ \E overread \in Overread(find(reg, c.e).archetype,
                                           find(reg, c.e).archetype \cup c.types) :
                    LET r == add(reg, c.e, c.types, overread)
                    IN  Becomes(assign(r, c.e, c.types, c.value), Retyped(r, c.e))
      BY <1>1, <1>3, <2>3, AddedAndWritten DEF FirstCommand
    <2>4. CASE /\ c.op = "remove" /\ UNCHANGED reserved
               /\ LET r == remove(reg, c.e, c.types) IN Becomes(r, Retyped(r, c.e))
      BY <1>1, <1>3, <2>4, Removed DEF FirstCommand
    <2>5. CASE c.op = "destroy" /\ UNCHANGED reserved /\ Becomes(destroy(reg, c.e), {})
      BY <1>1, <1>4, <2>5, Gone DEF FirstCommand
    <2>. QED BY <2>1, <2>2, <2>3, <2>4, <2>5 DEF ApplyCommand
  <1>. QED BY <1>2, <1>5

-----------------------------------------------------------------------------
(* The invariant *)

LEMMA InitHolds ==
  ASSUME Init
  PROVE  IInv
  <1>1. /\ DOMAIN reg = {"pool", "entities", "archetypes", "modificationId"}
        /\ reg.pool = EmptyPool /\ reg.modificationId = 0
        /\ DOMAIN reg.entities = {} /\ DOMAIN reg.archetypes = {}
        /\ reserved = {} /\ commands = << >> /\ applying = FALSE /\ DOMAIN touched = {}
    BY DEF Init
  <1>2. RegistryOK(reg)
    BY <1>1 DEF RegistryOK
  <1>3. TouchedInv
    BY <1>1 DEF TouchedInv, Live
  <1>4. CommandsOK(commands, reserved, Live)
    <2>1. << >> \in Seq(Command) /\ DOMAIN << >> = {}
      OBVIOUS
    <2>. QED BY <1>1, <2>1 DEF CommandsOK
  <1>5. OwnedOnce(reg.pool, DOMAIN reg.entities, reserved)
    BY <1>1, OwnedByNobody
  <1>. QED BY <1>1, <1>2, <1>3, <1>4, <1>5 DEF IInv, IData

LEMMA DirectSteps ==
  ASSUME IData, Direct
  PROVE  IData' /\ Stored
  <1>1. CASE \E types \in Signatures, n \in 1..ChunkCapacity : Create(types, n)
    <2>1. PICK types \in Signatures, n \in 1..ChunkCapacity : Create(types, n)
      BY <1>1
    <2>2. n \in Nat \ {0}
      BY ArchetypesAssumption
    <2>. QED BY <2>1, <2>2, CreateStep
  <1>2. CASE Reserve
    BY <1>2, ReserveStep
  <1>3. CASE \E e \in reserved \ Targeted :
                \/ ReleaseReserved(e)
                \/ \E types \in Signatures : CreateReserved(types, e)
    BY <1>3, ReleaseReservedStep, CreateReservedStep
  <1>4. CASE \E e \in Live : Destroy(e)
    BY <1>4, DestroyStep
  <1>5. CASE DestroyAll
    BY <1>5, DestroyAllStep
  <1>6. CASE \E e \in Live, types \in Signatures : Add(e, types) \/ Remove(e, types)
    BY <1>6, AddStep, RemoveStep
  <1>7. CASE \E e \in Live, v \in Value \ {Default} : Write(e, v)
    BY <1>7, WriteStep
  <1>8. CASE \E e \in Live : Notify(e)
    BY <1>8, NotifyStep
  <1>9. CASE \E types \in DOMAIN reg.archetypes, k \in 1..MaxEntities : NotifyChunk(types, k)
    BY <1>9, NotifyChunkStep
  <1>. QED BY <1>1, <1>2, <1>3, <1>4, <1>5, <1>6, <1>7, <1>8, <1>9 DEF Direct

LEMMA DeferredSteps ==
  ASSUME IData, Deferred
  PROVE  IData' /\ Stored
  <1>1. CASE \E types \in Signatures, v \in Value \ {Default} :
                DeferCreate(types, v) \/ DeferCreateReserved(types, v)
    BY <1>1, DeferCreateStep, DeferCreateReservedStep
  <1>2. CASE \E e \in Usable, types \in Signatures :
                \/ \E v \in Value \ {Default} : DeferAdd(e, types, v)
                \/ DeferRemove(e, types)
    BY <1>2, DeferSteps, ArchetypesAssumption
  <1>3. CASE \E e \in Usable : DeferDestroy(e)
    <2>1. PICK e \in Usable : DeferDestroy(e)
      BY <1>3
    <2> DEFINE c == [op |-> "destroy", e |-> e, types |-> {}, value |-> Default]
    <2>2. Defer(c) /\ UNCHANGED reserved
      BY <2>1 DEF DeferDestroy
    <2>3. c \in Command /\ c.op = "destroy" /\ c.e = e
      BY ArchetypesAssumption, UsableHandle DEF Command, CommandOf
    <2>. HIDE DEF c
    <2>4. c.op # "create_reserved" /\ c.e \in Usable
      BY <2>3
    <2>. QED BY <2>2, <2>3, <2>4, DeferStep
  <1>4. CASE Clear
    BY <1>4, ClearStep
  <1>. QED BY <1>1, <1>2, <1>3, <1>4 DEF Deferred

LEMMA NextHolds ==
  ASSUME IInv, [Next]_vars
  PROVE  IInv' /\ Stored
  <1>1. CASE ~applying /\ (Direct \/ Deferred) /\ UNCHANGED applying
    <2>1. IData' /\ Stored
      BY <1>1, DirectSteps, DeferredSteps DEF IInv
    <2>. QED BY <1>1, <2>1 DEF IInv
  <1>2. CASE ~applying /\ NextSystem
    <2>1. IData' /\ Stored /\ UNCHANGED applying
      BY <1>2, NextSystemStep DEF IInv, NextSystem
    <2>. QED BY <1>2, <2>1 DEF IInv
  <1>3. CASE Apply
    <2>1. IData' /\ Stored /\ applying' = TRUE /\ commands' # << >>
      BY <1>3, ApplyStep DEF IInv, Apply
    <2>. QED BY <2>1 DEF IInv
  <1>4. CASE applying /\ ApplyCommand
    BY <1>4, ApplyCommandStep DEF IInv
  <1>5. CASE UNCHANGED vars
    <2>1. IData' /\ Stored
      BY <1>5, CommandsOnly DEF IInv, IData, vars
    <2>. QED BY <1>5, <2>1 DEF IInv, vars
  <1>. QED BY <1>1, <1>2, <1>3, <1>4, <1>5 DEF Next

(* What the registry, its pool, the deferred commands and the notifications say *)
(* of each other is so in every state, whatever is called or deferred.          *)
THEOREM Inductive == Spec => []IInv
  <1>1. Init => IInv
    BY InitHolds
  <1>2. IInv /\ [Next]_vars => IInv'
    BY NextHolds
  <1>. QED BY <1>1, <1>2, PTL DEF Spec

-----------------------------------------------------------------------------
(* Theorems *)

(* Where m_entities says an entity is, that entity is, and nowhere else.        *)
THEOREM EntitiesFound == Spec => []LocationsAgree
  <1>1. ASSUME IInv
        PROVE  LocationsAgree
    <2>1. RegistryOK(reg)
      BY <1>1 DEF IInv, IData
    <2>2. ASSUME NEW x \in DOMAIN reg.entities
          PROVE  LET at == reg.entities[x]
                 IN  /\ at.key.index = x
                     /\ at.archetype \in DOMAIN reg.archetypes
                     /\ at.archetypeIndex < reg.archetypes[at.archetype].numCurrentEntities
                     /\ reg.archetypes[at.archetype].slots[at.archetypeIndex].id = at.key
      BY <2>1, Location DEF EntityLocated, ArchetypeOf
    <2>3. ASSUME NEW t \in DOMAIN reg.archetypes,
                 NEW i \in 0..(reg.archetypes[t].numCurrentEntities - 1)
          PROVE  LET id == reg.archetypes[t].slots[i].id
                 IN  /\ contains(id)
                     /\ find(reg, id) = [key |-> id, archetype |-> t, archetypeIndex |-> i]
      <3>1. SlotLocated(reg, t, i)
        BY <2>1 DEF RegistryOK
      <3> DEFINE id == reg.archetypes[t].slots[i].id
                 at == reg.entities[id.index]
      <3>2. EntityLocated(reg, id.index)
        BY <2>1, <3>1 DEF RegistryOK, SlotLocated
      <3>3. at = [key |-> at.key, archetype |-> at.archetype, archetypeIndex |-> at.archetypeIndex]
        BY <3>2 DEF EntityLocated
      <3>. QED BY <3>1, <3>3 DEF SlotLocated, contains, find
    <2>. QED BY <2>2, <2>3 DEF LocationsAgree
  <1>. QED BY <1>1, Inductive, PTL

(* Components exist exactly in the slots of entities, if no overread matches.   *)
THEOREM ComponentsConstructed ==
  ASSUME ~OverreadMatches
  PROVE  Spec => []ConstructedExactly
  <1>1. ASSUME IInv
        PROVE  ConstructedExactly
    <2>1. SUFFICES ASSUME NEW t \in DOMAIN reg.archetypes
                   PROVE  LET a == reg.archetypes[t]
                              used == 0..(a.numCurrentEntities - 1)
                          IN  /\ \A i \in DOMAIN a.slots, c \in Components(t) :
                                   a.slots[i].data[c] \in IF i \in used THEN Value ELSE {Raw}
                              /\ \A k \in DOMAIN a.chunks :
                                   a.chunks[k].numEntities = Cardinality({i \in used : ChunkOf(i) = k})
      BY DEF ConstructedExactly
    <2> DEFINE a == reg.archetypes[t]
    <2>2. ArchetypeBut(t, a, reg.modificationId, NoHole)
      BY <1>1 DEF IInv, IData, RegistryOK, ArchetypeOK
    <2>. HIDE DEF a
    <2>3. a.chunks \in Seq([numEntities : Nat, modificationId : 0..reg.modificationId])
      BY <2>2 DEF ArchetypeBut
    <2>4. /\ a.numCurrentEntities \in 0..(Len(a.chunks) * ChunkCapacity)
          /\ DOMAIN a.slots = 0..(Len(a.chunks) * ChunkCapacity - 1)
      BY <2>2 DEF ArchetypeBut
    <2>5. a.numCurrentEntities \in Nat /\ DOMAIN a.slots \subseteq Nat
      BY <2>4
    <2>6. ASSUME NEW i \in DOMAIN a.slots, NEW c \in Components(t)
          PROVE  a.slots[i].data[c] \in IF i \in 0..(a.numCurrentEntities - 1) THEN Value ELSE {Raw}
      <3>1. i \in Nat /\ i # NoHole
        BY <2>5 DEF NoHole
      <3>2. FreeObject = {Raw} /\ LiveObject = Value
        BY DEF FreeObject, LiveObject, Spoiled
      <3>3. a.slots[i].data \in [Components(t) -> IF i >= a.numCurrentEntities THEN {Raw} ELSE Value]
        BY <2>2, <3>1, <3>2 DEF ArchetypeBut
      <3>. QED BY <2>5, <3>1, <3>3
    <2>7. \A k \in DOMAIN a.chunks :
            a.chunks[k].numEntities = Cardinality({i \in 0..(a.numCurrentEntities - 1) : ChunkOf(i) = k})
      BY <2>2 DEF ArchetypeBut, InChunk
    <2>. QED BY <2>6, <2>7 DEF a
  <1>. QED BY <1>1, Inductive, PTL

(* An index belongs to one entity, to one reserved id, or to the pool once.     *)
THEOREM OneOwner == Spec => []IndicesOwnedOnce
  <1>1. ASSUME IInv
        PROVE  IndicesOwnedOnce
    <2>1. OwnedOnce(reg.pool, DOMAIN reg.entities, reserved)
      BY <1>1 DEF IInv, IData
    <2>2. Distinct(reg.pool.handles)
      BY <2>1 DEF OwnedOnce
    <2> DEFINE free == {reg.pool.handles[k].index : k \in DOMAIN reg.pool.handles}
               ids == {e.index : e \in reserved}
               used == DOMAIN reg.entities
    <2>3. /\ used \cap ids = {} /\ (used \cup ids) \cap free = {}
          /\ 1..reg.pool.lastHandle = used \cup ids \cup free
      BY <2>1 DEF OwnedOnce, Indices
    <2>. HIDE DEF free, ids, used
    <2>4. (ids \cup used) \cap free = {} /\ ids \cap used = {} /\ ids \cup used \cup free = 1..reg.pool.lastHandle
      BY <2>3
    <2>. QED BY <2>2, <2>4 DEF IndicesOwnedOnce, Distinct, free, ids, used
  <1>. QED BY <1>1, Inductive, PTL

(* is_notified sees every notification since the id it is asked about.          *)
THEOREM NotificationsSeen == Spec => []NotifiedIsSeen
  <1>1. ASSUME IInv
        PROVE  NotifiedIsSeen
    <2>1. ASSUME NEW e \in Live
          PROVE  is_notified(e, touched[e])
      <3>1. RegistryOK(reg) /\ TouchedInv
        BY <1>1 DEF IInv, IData
      <3>2. e.index \in DOMAIN reg.entities /\ reg.entities[e.index].key = e
        BY <3>1, LiveEntities DEF Live
      <3>3. Seen(reg, e.index, touched[e])
        BY <3>1, <3>2 DEF TouchedInv
      <3>. QED BY <3>3 DEF Seen, ArchetypeOf, is_notified, find
    <2>. QED BY <2>1 DEF NotifiedIsSeen
  <1>. QED BY <1>1, Inductive, PTL

(* The registry and its deferred commands implement the map from entities to    *)
(* their components, if no overread matches.                                    *)
THEOREM Refinement ==
  ASSUME ~OverreadMatches
  PROVE  Spec => ImplementsEntityStore
  <1>1. Init => Store!Init
    <2>1. SUFFICES ASSUME Init PROVE Store!Init
      OBVIOUS
    <2>2. Live = {}
      BY <2>1 DEF Init, Live
    <2>. QED BY <2>2 DEF Store!Init, EntityMap
  <1>2. IInv /\ [Next]_vars => [Store!Next]_EntityMap
    BY NextHolds DEF Stored
  <1>. QED BY <1>1, <1>2, Inductive, PTL DEF Spec, ImplementsEntityStore, Store!Spec
=============================================================================
