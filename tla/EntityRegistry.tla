---------------------------- MODULE EntityRegistry ----------------------------
(* The entity registry (ecs/entity_registry.cpp) and the commands that systems *)
(* defer (ecs/utility/deferred.hpp).  `reg` is the registry: its pool of       *)
(* handles, m_entities (the map from the index of a handle to where the entity *)
(* is), its archetypes by the types of their entities, and its modification id.*)
(* One thread uses it: what is hard is that an operation on one entity moves   *)
(* others, and that handles, reserved ids and commands outlive what they name. *)
EXTENDS HandlePool, Archetypes

CONSTANTS
  Signatures,         \* the sets of types that clients name in a call
  MaxEntities,        \* bound on the entities and reserved ids at a time
  MaxCommands,        \* bound on the commands deferred together
  MaxCalls,           \* bound on the calls, deferred or not, that change something
  MaxModificationId,  \* bound on the modification id
  OverreadMatches     \* whether the word behind an archetype's components may
                      \* happen to be the id of a component that is added

ASSUME EntityRegistryAssumption ==
  /\ Signatures \subseteq SUBSET (Component \cup Tag)
  /\ OverreadMatches \in BOOLEAN

VARIABLES
  reg,
  reserved,  \* ids reserved by clients and not used yet
  commands,  \* m_commands: what is deferred
  applying,  \* deferred::apply is running
  touched,   \* for each entity, the modification id when it was last notified,
             \* created, or given other types
  calls      \* the calls made so far

vars == <<reg, reserved, commands, applying, touched, calls>>

Init ==
  /\ reg = [pool |-> EmptyPool, entities |-> [x \in {} |-> 0],
            archetypes |-> [x \in {} |-> 0], modificationId |-> 0]
  /\ reserved = {}
  /\ commands = << >>
  /\ applying = FALSE
  /\ calls = 0
  /\ touched = [e \in {} |-> 0]

(* m_entities.try_find compares the index of a handle, and not its generation. *)
contains(e) == e.index \in DOMAIN reg.entities
find(r, e) == r.entities[e.index]

Live == {reg.entities[x].key : x \in DOMAIN reg.entities}

(* Map f with the entries of g; emplace keeps an entry that is there already.   *)
emplace(f, g) == [x \in DOMAIN f \cup DOMAIN g |-> IF x \in DOMAIN f THEN f[x] ELSE g[x]]

find_or_create_storage(r, types) ==
  IF types \in DOMAIN r.archetypes THEN r
  ELSE [r EXCEPT !.archetypes = emplace(@, [t \in {types} |-> create_archetype_impl])]

new_entities(types, ids, first) ==
  [x \in {ids[k].index : k \in DOMAIN ids} |->
     LET k == CHOOSE j \in DOMAIN ids : ids[j].index = x
     IN  [key |-> ids[k], archetype |-> types, archetypeIndex |-> first + k - 1]]

create_entities(r, types, ids) ==
  LET s     == find_or_create_storage(r, types)
      first == s.archetypes[types].numCurrentEntities
  IN  [s EXCEPT !.archetypes[types] = emplace_entities(@, types, ids, r.modificationId),
                !.entities = emplace(@, new_entities(types, ids, first))]

reserve_ids(r, n) == [r EXCEPT !.pool = acquire(@, n)]
create(r, types, n) == create_entities(reserve_ids(r, n), types, acquired(r.pool, n))

\* Mutant: m_entities is not told of the move.
pop_LocationKept(r, at) ==
  [r EXCEPT
     !.archetypes[at.archetype] = move_last_and_pop(@, at.archetypeIndex, r.modificationId)]

(* move_last_and_pop, with the new location of the entity that was the last. *)
pop(r, at) ==
  LET a    == r.archetypes[at.archetype]
      last == a.numCurrentEntities - 1
  IN  [r EXCEPT
         !.archetypes[at.archetype] = move_last_and_pop(@, at.archetypeIndex, r.modificationId),
         !.entities = IF at.archetypeIndex = last THEN @
                      ELSE [@ EXCEPT ![a.slots[last].id.index].archetypeIndex = at.archetypeIndex]]

destroy(r, e) ==
  LET s == pop(r, find(r, e))
  IN  IF e.index \notin DOMAIN r.entities THEN r
      ELSE [s EXCEPT !.entities = [x \in DOMAIN @ \ {e.index} |-> @[x]],
                     !.pool = release(@, e)]

\* Mutant: the pool restarts with the handles it was given back.
destroy_all_HandlesKept(r) ==
  [r EXCEPT !.archetypes = [t \in DOMAIN @ |-> destroy_slots(@[t], r.modificationId)],
            !.entities = [x \in {} |-> 0],
            !.pool.lastHandle = 0]

destroy_all(r) ==
  [r EXCEPT !.archetypes = [t \in DOMAIN @ |-> destroy_slots(@[t], r.modificationId)],
            !.entities = [x \in {} |-> 0],
            !.pool = EmptyPool]

(* The component of `new` that move_archetype takes for one of `old`, if any:   *)
(* behind the last old component the loop reads one word past the end.          *)
Overread(old, new) ==
  {{}} \cup IF OverreadMatches
            THEN {{c} : c \in {x \in Components(new) : \A y \in Components(old) : y < x}}
            ELSE {}

move_archetype(r, e, types, overread) ==
  LET s    == find_or_create_storage(r, types)
      at   == find(r, e)
      old  == s.archetypes[at.archetype].slots[at.archetypeIndex].data
      i    == s.archetypes[types].numCurrentEntities
      b    == reserve_chunks(s.archetypes[types], types, ChunkOf(i))
      slot == [id |-> at.key, data |-> moved_objects(types, b.slots[i].data, old, overread)]
      left == [s EXCEPT !.archetypes[at.archetype].slots[at.archetypeIndex].data =
                 moved_from(old, types)]
  IN  IF at.archetype = types THEN s
      ELSE [pop(left, at) EXCEPT
              !.entities[e.index] = [key |-> at.key, archetype |-> types, archetypeIndex |-> i],
              !.archetypes[types] = place(b, slot, r.modificationId),
              !.archetypes[at.archetype] =
                 mark_chunk(@, ChunkOf(at.archetypeIndex), r.modificationId)]

add(r, e, types, overread) == move_archetype(r, e, find(r, e).archetype \cup types, overread)
remove(r, e, types) == move_archetype(r, e, find(r, e).archetype \ types, {})

(* What a client does with the references that get returns. *)
assign(r, e, components, v) ==
  LET at == find(r, e)
  IN  [r EXCEPT !.archetypes[at.archetype].slots[at.archetypeIndex].data =
         [c \in DOMAIN @ |-> IF c \in components THEN v ELSE @[c]]]

notify(r, e) ==
  LET at == find(r, e)
  IN  [r EXCEPT !.archetypes[at.archetype] =
         [mark_chunk(@, ChunkOf(at.archetypeIndex), r.modificationId)
            EXCEPT !.modificationId = r.modificationId]]

is_notified(e, id) ==
  LET at == find(reg, e)
      a  == reg.archetypes[at.archetype]
  IN  \/ a.modificationId >= id
      \/ a.chunks[ChunkOf(at.archetypeIndex)].modificationId >= id

-----------------------------------------------------------------------------
(* Clients.  They name entities that exist, or will when the command they defer *)
(* is applied, and no entity they have destroyed.                               *)

Pending(op) == {commands[k].e : k \in {j \in DOMAIN commands : commands[j].op = op}}
Targeted == {commands[k].e : k \in DOMAIN commands}
Usable == (Live \cup Pending("create_reserved")) \ Pending("destroy")

(* There is room for n more ids; handles are released before more are made. *)
Room(n) ==
  Cardinality(Live) + Cardinality(reserved)
    + Cardinality({k \in DOMAIN commands : commands[k].op = "create"}) + n <= MaxEntities

(* The registry becomes r, and the entities of `marked` are as good as notified. *)
Becomes(r, marked) ==
  /\ reg' = r
  /\ touched' = [e \in {r.entities[x].key : x \in DOMAIN r.entities} |->
                   IF e \in marked \/ e \notin DOMAIN touched THEN r.modificationId ELSE touched[e]]

(* An entity is notified by a change of its types. *)
Retyped(r, e) == IF find(r, e).archetype # find(reg, e).archetype THEN {e} ELSE {}

Create(types, n) ==
  /\ Room(n)
  /\ Becomes(create(reg, types, n), {})
  /\ UNCHANGED <<reserved, commands>>

Reserve ==
  /\ Room(1)
  /\ Becomes(reserve_ids(reg, 1), {})
  /\ reserved' = reserved \cup {acquired(reg.pool, 1)[1]}
  /\ UNCHANGED commands

ReleaseReserved(e) ==
  /\ Becomes([reg EXCEPT !.pool = release(@, e)], {})
  /\ reserved' = reserved \ {e}
  /\ UNCHANGED commands

CreateReserved(types, e) ==
  /\ Becomes(create_entities(reg, types, <<e>>), {})
  /\ reserved' = reserved \ {e}
  /\ UNCHANGED commands

Destroy(e) ==
  /\ e \notin Targeted
  /\ Becomes(destroy(reg, e), {})
  /\ UNCHANGED <<reserved, commands>>

DestroyAll ==
  /\ reserved = {} /\ commands = << >>
  /\ Becomes(destroy_all(reg), {})
  /\ UNCHANGED <<reserved, commands>>

Add(e, types) ==
  \E overread \in Overread(find(reg, e).archetype, find(reg, e).archetype \cup types) :
     LET r == add(reg, e, types, overread)
     IN  Becomes(r, Retyped(r, e)) /\ UNCHANGED <<reserved, commands>>

Remove(e, types) ==
  LET r == remove(reg, e, types)
  IN  Becomes(r, Retyped(r, e)) /\ UNCHANGED <<reserved, commands>>

Write(e, v) ==
  \E c \in Components(find(reg, e).archetype) :
     Becomes(assign(reg, e, {c}, v), {}) /\ UNCHANGED <<reserved, commands>>

Notify(e) == Becomes(notify(reg, e), {e}) /\ UNCHANGED <<reserved, commands>>

(* chunk::notify of a range: the chunk is marked, and not its archetype (nobody   *)
(* asks for that).                                                              *)
NotifyChunk(types, k) ==
  LET a == reg.archetypes[types]
  IN  /\ k \in 1..ChunksFor(a.numCurrentEntities)
      /\ Becomes([reg EXCEPT !.archetypes[types] = mark_chunk(@, k, reg.modificationId)],
                 {a.slots[i].id : i \in {j \in 0..(a.numCurrentEntities - 1) : ChunkOf(j) = k}})
      /\ UNCHANGED <<reserved, commands>>

(* The executor gives each system a modification id of its own. *)
NextSystem ==
  /\ reg.modificationId < MaxModificationId
  /\ reg' = [reg EXCEPT !.modificationId = @ + 1]
  /\ UNCHANGED <<reserved, commands, applying, touched>>

-----------------------------------------------------------------------------
(* deferred *)

Defer(command) ==
  /\ Len(commands) < MaxCommands
  /\ commands' = Append(commands, command)
  /\ UNCHANGED <<reg, touched>>

DeferCreate(types, v) ==
  /\ Room(1)
  /\ Defer([op |-> "create", e |-> NoEntity, types |-> types, value |-> v])
  /\ UNCHANGED reserved

(* create_with_reserved_id reserves the id at once. *)
DeferCreateReserved(types, v) ==
  LET e == acquired(reg.pool, 1)[1]
  IN  /\ Room(1)
      /\ Len(commands) < MaxCommands
      /\ Becomes(reserve_ids(reg, 1), {})
      /\ reserved' = reserved \cup {e}
      /\ commands' = Append(commands, [op |-> "create_reserved", e |-> e, types |-> types, value |-> v])

DeferAdd(e, types, v) ==
  Defer([op |-> "add", e |-> e, types |-> types, value |-> v]) /\ UNCHANGED reserved

DeferRemove(e, types) ==
  Defer([op |-> "remove", e |-> e, types |-> types, value |-> Default]) /\ UNCHANGED reserved

DeferDestroy(e) ==
  Defer([op |-> "destroy", e |-> e, types |-> {}, value |-> Default]) /\ UNCHANGED reserved

(* deferred::clear keeps the reserved ids reserved. *)
Clear == commands # << >> /\ commands' = << >> /\ UNCHANGED <<reg, reserved, touched>>

Apply == commands # << >> /\ applying' = TRUE /\ UNCHANGED <<reg, reserved, commands, touched>>

(* The lambdas of add_or_create, remove and destroy: a created entity gets its   *)
(* types again from add, and then the components that were written meanwhile.    *)
ApplyCommand ==
  LET command == Head(commands)
      types   == command.types
  IN  /\ commands' = Tail(commands)
      /\ applying' = (Tail(commands) # << >>)
      /\ \/ /\ command.op = "create"
            /\ LET e == acquired(reg.pool, 1)[1]
                   r == add(create(reg, types, 1), e, types, {})
               IN  Becomes(assign(r, e, types, command.value), {})
            /\ UNCHANGED reserved
         \/ /\ command.op = "create_reserved"
            /\ LET r == add(create_entities(reg, types, <<command.e>>), command.e, types, {})
               IN  Becomes(assign(r, command.e, types, command.value), {})
            /\ reserved' = reserved \ {command.e}
         \/ /\ command.op = "add"
            /\ \E overread \in Overread(find(reg, command.e).archetype,
                                        find(reg, command.e).archetype \cup types) :
                 LET r == add(reg, command.e, types, overread)
                 IN  Becomes(assign(r, command.e, types, command.value), Retyped(r, command.e))
            /\ UNCHANGED reserved
         \/ /\ command.op = "remove"
            /\ LET r == remove(reg, command.e, types)
               IN  Becomes(r, Retyped(r, command.e))
            /\ UNCHANGED reserved
         \/ /\ command.op = "destroy"
            /\ Becomes(destroy(reg, command.e), {})
            /\ UNCHANGED reserved

-----------------------------------------------------------------------------
Direct ==
  \/ \E types \in Signatures, n \in 1..ChunkCapacity : Create(types, n)
  \/ Reserve
  \/ \E e \in reserved \ Targeted :
       \/ ReleaseReserved(e)
       \/ \E types \in Signatures : CreateReserved(types, e)
  \/ \E e \in Live : Destroy(e)
  \/ DestroyAll
  \/ \E e \in Live, types \in Signatures : Add(e, types) \/ Remove(e, types)
  \/ \E e \in Live, v \in Value \ {Default} : Write(e, v)
  \/ \E e \in Live : Notify(e)
  \/ \E types \in DOMAIN reg.archetypes, k \in 1..MaxEntities : NotifyChunk(types, k)

Deferred ==
  \/ \E types \in Signatures, v \in Value \ {Default} :
       \/ DeferCreate(types, v)
       \/ DeferCreateReserved(types, v)
  \/ \E e \in Usable, types \in Signatures :
       \/ \E v \in Value \ {Default} : DeferAdd(e, types, v)
       \/ DeferRemove(e, types)
  \/ \E e \in Usable : DeferDestroy(e)
  \/ Clear

Next ==
  \/ /\ ~applying
     /\ Direct \/ Deferred
     /\ calls < MaxCalls
     /\ calls' = IF UNCHANGED <<reg, reserved, commands>> THEN calls ELSE calls + 1
     /\ UNCHANGED applying
  \/ /\ ~applying
     /\ NextSystem \/ Apply
     /\ UNCHANGED calls
  \/ /\ applying
     /\ ApplyCommand
     /\ UNCHANGED calls

Spec == Init /\ [][Next]_vars

-----------------------------------------------------------------------------
Handle == [index : 1..MaxEntities, gen : 0..(Generations - 1)]

(* Every variable has its type, every archetype the memory of its chunks. *)
TypeOK ==
  /\ reg.pool.handles \in Seq(Handle)
  /\ reg.pool.lastHandle \in 0..MaxEntities
  /\ reg.modificationId \in 0..MaxModificationId
  /\ DOMAIN reg.entities \subseteq 1..MaxEntities
  /\ \A t \in DOMAIN reg.archetypes :
       LET a == reg.archetypes[t]
       IN  /\ t \subseteq Component \cup Tag
           /\ a.numCurrentEntities \in 0..(Len(a.chunks) * ChunkCapacity)
           /\ DOMAIN a.slots = 0..(Len(a.chunks) * ChunkCapacity - 1)
           /\ \A i \in DOMAIN a.slots : a.slots[i].data \in [Components(t) -> Object]
  /\ reserved \subseteq Handle
  /\ applying => commands # << >>
  /\ touched \in [Live -> 0..MaxModificationId]

(* Where m_entities says an entity is, that entity is, and nowhere else: an      *)
(* entity moved into a hole, or to other types, is found in its new place        *)
(* (move_last_and_pop and move_archetype update the locations of two entities).  *)
LocationsAgree ==
  /\ \A x \in DOMAIN reg.entities :
       LET at == reg.entities[x]
       IN  /\ at.key.index = x
           /\ at.archetype \in DOMAIN reg.archetypes
           /\ at.archetypeIndex < reg.archetypes[at.archetype].numCurrentEntities
           /\ reg.archetypes[at.archetype].slots[at.archetypeIndex].id = at.key
  /\ \A t \in DOMAIN reg.archetypes :
       \A i \in 0..(reg.archetypes[t].numCurrentEntities - 1) :
         LET id == reg.archetypes[t].slots[i].id
         IN  /\ contains(id)
             /\ find(reg, id) = [key |-> id, archetype |-> t, archetypeIndex |-> i]

(* Components exist exactly in the slots of entities, whatever was moved, popped *)
(* and reused, and the chunks count the same entities as the archetype: nothing  *)
(* is destroyed twice, leaked, or visited by a range after its end.              *)
ConstructedExactly ==
  \A t \in DOMAIN reg.archetypes :
    LET a == reg.archetypes[t]
        used == 0..(a.numCurrentEntities - 1)
    IN  /\ \A i \in DOMAIN a.slots, c \in Components(t) :
             a.slots[i].data[c] \in IF i \in used THEN Value ELSE {Raw}
        /\ \A k \in DOMAIN a.chunks :
             a.chunks[k].numEntities = Cardinality({i \in used : ChunkOf(i) = k})

(* An index belongs to one entity, to one reserved id, or to the pool once: ids  *)
(* that are reserved, deferred, released or restarted by destroy_all are never   *)
(* given out twice.                                                              *)
IndicesOwnedOnce ==
  LET free == reg.pool.handles
      given == {e.index : e \in reserved} \cup DOMAIN reg.entities
  IN  /\ \A j, k \in DOMAIN free : j # k => free[j].index # free[k].index
      /\ given \cap {free[k].index : k \in DOMAIN free} = {}
      /\ {e.index : e \in reserved} \cap DOMAIN reg.entities = {}
      /\ given \cup {free[k].index : k \in DOMAIN free} = 1..reg.pool.lastHandle

(* is_notified sees every notification since the id it is asked about, although  *)
(* the entity may have been moved to a chunk that was not notified.              *)
NotifiedIsSeen == \A e \in Live : is_notified(e, touched[e])

EntityMap ==
  [e \in Live |->
     LET at == find(reg, e)
     IN  [types |-> at.archetype,
          values |-> reg.archetypes[at.archetype].slots[at.archetypeIndex].data]]

Store == INSTANCE EntityStore WITH store <- EntityMap

(* Entities keep their components and values while others come, go and move, and *)
(* deferred commands do what they say: the registry implements EntityStore.      *)
ImplementsEntityStore == Store!Spec
=============================================================================
