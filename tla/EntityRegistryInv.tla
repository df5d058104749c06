-------------------------- MODULE EntityRegistryInv --------------------------
(* The inductive invariant of EntityRegistry.  Its parts are about a registry   *)
(* r, so that they can be stated of the registries that an operation goes       *)
(* through, and not only of the one before and the one after it.                *)
EXTENDS EntityRegistry

AnyHandle == [index : Nat, gen : Nat]
Types == Component \cup Tag

(* What may be in the slot of an entity, and in one that is free: an overread   *)
(* that matches leaves corrupt objects in both.                                 *)
Spoiled == IF OverreadMatches THEN {Corrupt} ELSE {}
LiveObject == Value \cup Spoiled
FreeObject == {Raw} \cup Spoiled

(* The slots below n that are in chunk k.                                       *)
InChunk(n, k) == {i \in 0..(n - 1) : ChunkOf(i) = k}

(* The memory of an archetype of entities with `types`, whose ids are at most   *)
(* m.  The objects of slot `hole` may have been moved from.                     *)
ArchetypeBut(types, a, m, hole) ==
  /\ DOMAIN a = {"numCurrentEntities", "modificationId", "chunks", "slots"}
  /\ a.chunks \in Seq([numEntities : Nat, modificationId : 0..m])
  /\ a.modificationId \in 0..m
  /\ a.numCurrentEntities \in 0..(Len(a.chunks) * ChunkCapacity)
  /\ DOMAIN a.slots = 0..(Len(a.chunks) * ChunkCapacity - 1)
  /\ \A i \in DOMAIN a.slots :
       /\ DOMAIN a.slots[i] = {"id", "data"}
       /\ a.slots[i].data \in
            [Components(types) -> IF i >= a.numCurrentEntities THEN FreeObject
                                  ELSE IF i = hole THEN LiveObject \cup {Moved} ELSE LiveObject]
  /\ \A k \in DOMAIN a.chunks :
       a.chunks[k].numEntities = Cardinality(InChunk(a.numCurrentEntities, k))

NoHole == -1
ArchetypeOK(types, a, m) == ArchetypeBut(types, a, m, NoHole)

(* m_entities and the ids in the slots say the same.                            *)
EntityLocated(r, x) ==
  LET at == r.entities[x]
  IN  /\ at = [key |-> at.key, archetype |-> at.archetype, archetypeIndex |-> at.archetypeIndex]
      /\ at.key \in AnyHandle
      /\ at.key.index = x
      /\ at.archetype \in DOMAIN r.archetypes
      /\ at.archetypeIndex \in 0..(r.archetypes[at.archetype].numCurrentEntities - 1)
      /\ r.archetypes[at.archetype].slots[at.archetypeIndex].id = at.key

SlotLocated(r, t, i) ==
  LET id == r.archetypes[t].slots[i].id
  IN  /\ id.index \in DOMAIN r.entities
      /\ r.entities[id.index].key = id
      /\ r.entities[id.index].archetype = t
      /\ r.entities[id.index].archetypeIndex = i

RegistryOK(r) ==
  /\ DOMAIN r = {"pool", "entities", "archetypes", "modificationId"}
  /\ r.modificationId \in Nat
  /\ \A t \in DOMAIN r.archetypes :
       t \subseteq Types /\ ArchetypeOK(t, r.archetypes[t], r.modificationId)
  /\ \A x \in DOMAIN r.entities : EntityLocated(r, x)
  /\ \A t \in DOMAIN r.archetypes :
       \A i \in 0..(r.archetypes[t].numCurrentEntities - 1) : SlotLocated(r, t, i)

PoolOK(pool) ==
  /\ DOMAIN pool = {"handles", "lastHandle"}
  /\ pool.handles \in Seq(AnyHandle)
  /\ pool.lastHandle \in Nat

(* Each index that was handed out has one owner: the pool, an entity with an     *)
(* index in `used`, or a client that reserved one of `ids`.                     *)
Indices(handles) == {handles[k].index : k \in DOMAIN handles}
Distinct(handles) ==
  \A j, k \in DOMAIN handles : j # k => handles[j].index # handles[k].index

OwnedOnce(pool, used, ids) ==
  /\ PoolOK(pool)
  /\ Distinct(pool.handles)
  /\ ids \subseteq AnyHandle
  /\ \A d, e \in ids : d.index = e.index => d = e
  /\ used \cap {e.index : e \in ids} = {}
  /\ (used \cup {e.index : e \in ids}) \cap Indices(pool.handles) = {}
  /\ 1..pool.lastHandle = used \cup {e.index : e \in ids} \cup Indices(pool.handles)

(* The entity with index x, its types and its components.                       *)
ArchetypeOf(r, x) == r.archetypes[r.entities[x].archetype]
DataOf(r, x) == ArchetypeOf(r, x).slots[r.entities[x].archetypeIndex].data

(* is_notified *)
Seen(r, x, id) ==
  \/ ArchetypeOf(r, x).modificationId >= id
  \/ ArchetypeOf(r, x).chunks[ChunkOf(r.entities[x].archetypeIndex)].modificationId >= id

(* Every entity has been notified since touched says so.                        *)
TouchedInv ==
  /\ DOMAIN touched = Live
  /\ \A x \in DOMAIN reg.entities :
       LET e == reg.entities[x].key
       IN  touched[e] \in 0..reg.modificationId /\ Seen(reg, x, touched[e])

(* The commands that are deferred name reserved ids, one command each that will *)
(* create it, and entities that will exist when the command is applied.         *)
CommandOf(ops, types) ==
  [op : ops, e : AnyHandle \cup {NoEntity}, types : types, value : Value]
Command == CommandOf({"create", "create_reserved", "add", "remove"}, Signatures)
             \cup CommandOf({"destroy"}, {{}})

CommandsOK(queue, ids, live) ==
  /\ queue \in Seq(Command)
  /\ \A k \in DOMAIN queue :
       /\ queue[k].op = "create_reserved" =>
            /\ queue[k].e \in ids
            /\ \A j \in 1..(k - 1) : queue[j].op # "create" => queue[j].e # queue[k].e
       /\ queue[k].op \in {"add", "remove", "destroy"} =>
            /\ \/ queue[k].e \in live
               \/ \E j \in 1..(k - 1) :
                    queue[j].op = "create_reserved" /\ queue[j].e = queue[k].e
            /\ \A j \in 1..(k - 1) : queue[j].op = "destroy" => queue[j].e # queue[k].e

IData ==
  /\ RegistryOK(reg)
  /\ OwnedOnce(reg.pool, DOMAIN reg.entities, reserved)
  /\ TouchedInv
  /\ CommandsOK(commands, reserved, Live)

IInv ==
  /\ IData
  /\ applying \in BOOLEAN
  /\ applying => commands # << >>
=============================================================================
