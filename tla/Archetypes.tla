------------------------------ MODULE Archetypes ------------------------------
(* The memory of an archetype (ecs/archetype_impl): chunks of slots, a slot for *)
(* each entity with the id of the entity and one object per component.  The     *)
(* objects are tracked through their lifetime: what is done to an object that   *)
(* is not there, or is there already, leaves a corrupt one.                     *)
(* The tags column is written and never read, and is left out.                  *)
EXTENDS Integers, Sequences, FiniteSets

CONSTANTS
  Component,      \* component types, naturals: archetypes keep them sorted
  Tag,            \* tag types
  Value,          \* values of components
  Default,        \* what a component is created with
  ChunkCapacity,  \* numEntitiesPerChunk
  NoEntity        \* the id in a slot that is not used

Raw == "raw"          \* no object
Moved == "moved"      \* an object that was moved from
Corrupt == "corrupt"

ASSUME ArchetypesAssumption ==
  /\ Component \subseteq Nat
  /\ Default \in Value
  /\ Value \cap {Raw, Moved, Corrupt} = {}
  /\ ChunkCapacity \in Nat \ {0}

Object == Value \cup {Raw, Moved, Corrupt}

(* component_fn_table: create and move construct, move_assign needs an object. *)
do_create(dst) == IF dst = Raw THEN Default ELSE Corrupt
do_destroy(dst) == IF dst \in {Raw, Corrupt} THEN Corrupt ELSE Raw
do_move(dst, src) == IF dst = Raw /\ src # Raw THEN src ELSE Corrupt
\* Mutant: the destination keeps its own value.
do_move_assign_Lost(dst, src) == IF Raw \in {dst, src} THEN Corrupt ELSE dst
do_move_assign(dst, src) == IF Raw \in {dst, src} THEN Corrupt ELSE src

Components(types) == types \cap Component

EmptySlot(types) == [id |-> NoEntity, data |-> [c \in Components(types) |-> Raw]]

create_archetype_impl ==
  [numCurrentEntities |-> 0, modificationId |-> 0, chunks |-> << >>, slots |-> [i \in {} |-> 0]]

(* The chunk, from 1, that slot i is in; the number of chunks for n slots. *)
ChunkOf(i) == i \div ChunkCapacity + 1
ChunksFor(n) == (n + ChunkCapacity - 1) \div ChunkCapacity

reserve_chunks(a, types, n) ==
  IF n <= Len(a.chunks) THEN a
  ELSE [a EXCEPT
          !.chunks = [k \in 1..n |->
             IF k <= Len(a.chunks) THEN a.chunks[k] ELSE [numEntities |-> 0, modificationId |-> 0]],
          !.slots = [i \in 0..(n * ChunkCapacity - 1) |->
             IF i \in DOMAIN a.slots THEN a.slots[i] ELSE EmptySlot(types)]]

(* Entities `ids` are created behind those of archetype a. *)
emplace_entities(a, types, ids, modificationId) ==
  LET first == a.numCurrentEntities
      end   == first + Len(ids)
      b     == reserve_chunks(a, types, ChunksFor(end))
  IN  [b EXCEPT
         !.slots = [i \in DOMAIN @ |->
            IF i \in first..(end - 1)
            THEN [id |-> ids[i - first + 1], data |-> [c \in Components(types) |-> do_create(@[i].data[c])]]
            ELSE @[i]],
         !.chunks = [k \in DOMAIN @ |->
            IF k \in ChunkOf(first)..ChunkOf(end - 1)
            THEN [numEntities |-> @[k].numEntities + Cardinality({i \in first..(end - 1) : ChunkOf(i) = k}),
                  modificationId |-> modificationId]
            ELSE @[k]],
         !.numCurrentEntities = end,
         !.modificationId = modificationId]

(* An entity leaves its slot, or another one moves into it.                     *)
gone(slot) == [id |-> NoEntity, data |-> [c \in DOMAIN slot.data |-> do_destroy(slot.data[c])]]
taken_over(slot, from) ==
  [id   |-> from.id,
   data |-> [c \in DOMAIN slot.data |-> do_move_assign(slot.data[c], from.data[c])]]

\* Mutant: the last entity is moved from and not destroyed.
popped_slots_SourceKept(slots, i, last) ==
  IF i = last THEN [slots EXCEPT ![i] = gone(@)]
  ELSE [slots EXCEPT ![i] = taken_over(@, slots[last]), ![last].id = NoEntity]

popped_slots(slots, i, last) ==
  IF i = last THEN [slots EXCEPT ![i] = gone(@)]
  ELSE [slots EXCEPT ![i] = taken_over(@, slots[last]), ![last] = gone(@)]

popped_chunk(chunk, modificationId) ==
  [numEntities |-> chunk.numEntities - 1, modificationId |-> modificationId]

\* Mutant: only the chunk is marked.
move_last_and_pop_ArchetypeNotMarked(a, i, modificationId) ==
  LET last == a.numCurrentEntities - 1
  IN  [a EXCEPT !.slots = popped_slots(@, i, last),
                !.chunks[ChunkOf(last)] = popped_chunk(@, modificationId),
                !.numCurrentEntities = last]

(* The entity in slot i goes, the last entity of the archetype takes its slot. *)
move_last_and_pop(a, i, modificationId) ==
  LET last == a.numCurrentEntities - 1
  IN  [a EXCEPT !.slots = popped_slots(@, i, last),
                !.chunks[ChunkOf(last)] = popped_chunk(@, modificationId),
                !.numCurrentEntities = last,
                !.modificationId = modificationId]

(* move_archetype: the objects of an entity that gets `types`, of those it had   *)
(* and the memory of its new slot; what is left of the old ones; the archetype   *)
(* with the entity behind its own.                                              *)
moved_objects(types, dst, old, overread) ==
  [c \in Components(types) |->
     IF c \in overread THEN Corrupt
     ELSE IF c \in DOMAIN old THEN do_move(dst[c], old[c])
     ELSE do_create(dst[c])]

moved_from(old, types) == [c \in DOMAIN old |-> IF c \in types THEN Moved ELSE old[c]]

placed_chunk(chunk, modificationId) ==
  [numEntities |-> chunk.numEntities + 1, modificationId |-> modificationId]

place(a, slot, modificationId) ==
  LET i == a.numCurrentEntities
  IN  [a EXCEPT !.slots[i] = slot,
                !.chunks[ChunkOf(i)] = placed_chunk(@, modificationId),
                !.numCurrentEntities = i + 1,
                !.modificationId = modificationId]

mark_chunk(a, k, modificationId) == [a EXCEPT !.chunks[k].modificationId = modificationId]

(* destroy_all: the components of every used chunk are destroyed. *)
destroy_slots(a, modificationId) ==
  LET used == 1..ChunksFor(a.numCurrentEntities)
      inUse(i) == i % ChunkCapacity < a.chunks[ChunkOf(i)].numEntities /\ ChunkOf(i) \in used
  IN  [a EXCEPT
         !.slots = [i \in DOMAIN @ |-> IF inUse(i) THEN gone(@[i]) ELSE @[i]],
         !.chunks = [k \in DOMAIN @ |->
            IF k \in used THEN [numEntities |-> 0, modificationId |-> modificationId] ELSE @[k]],
         !.numCurrentEntities = 0,
         !.modificationId = modificationId]
=============================================================================
