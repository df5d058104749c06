------------------------------ MODULE FrameGraph ------------------------------
(* The frame graph (renderer/graph/frame_graph.cpp): instances of templates    *)
(* that clients add, connect and remove between frames, the storages of their  *)
(* pins, and the resources that nodes ask for while a frame is built, which    *)
(* are those of the frame, of a node over frames (retained textures), or of    *)
(* another pin (reroutes).  A frame is built, executed and submitted; the loop *)
(* of the engine goes on when the submit fails (vulkan_engine_module.cpp:621). *)
(* What the code asserts, and what reaches memory that is not there or belongs *)
(* to something else, ends a behaviour in the phase "broken".                  *)
EXTENDS FrameTopology, HandlePool, FiniteSetsExt, TLC

CONSTANTS
  Subgraph,   \* instances
  Links,      \* <<output, input>>: names of pins that clients connect
  NodeCalls,  \* what nodes call while a frame is built
  NoHandle,
  NoData,
  MaxEdits,   \* bound on the changes between frames
  MaxCalls,   \* bound on the calls of nodes
  MaxFrames   \* bound on the frames

ASSUME FrameGraphAssumption ==
  NodeCalls \subseteq {"create", "create_dynamic_buffer", "create_retained_texture",
                       "destroy_retained_texture", "reroute", "submit_fails"}

VARIABLES
  subgraphs,    \* instance |-> [template, dynamicStorage]
  graph,
  disabled,     \* output pins whose vertex is disabled
  initialized,  \* nodes
  pins,         \* pin |-> [ownedStorage, referencedPin]
  mem,          \* storages, and what they own: see EmptyMemory
  frame,        \* what belongs to a frame: see EmptyFrame
  phase,        \* "idle", "build", "built", "executed", "down" or "broken"
  bounds        \* [edits, calls, frames] so far, and whether a submit failed

vars == <<subgraphs, graph, disabled, initialized, pins, mem, frame, phase, bounds>>

(* storage |-> pinStorage by the index of the handle, heap |-> the blocks of    *)
(* memoryPool, images |-> those of retained textures that are not destroyed.    *)
EmptyMemory ==
  [handles |-> EmptyPool, storage |-> [x \in {} |-> 0], heap |-> {}, retained |-> {},
   pendingTextures |-> << >>, images |-> {}, ok |-> TRUE]

(* transients |-> entries <<storage, index in the resource pool>>; resources |->*)
(* the pool, by what each was made for; destroyed |-> whether this frame        *)
(* destroyed a texture (only properties read it).                               *)
EmptyFrame ==
  [sortedNodes |-> << >>, at |-> 0, dynamicPins |-> << >>, rerouteStash |-> << >>,
   transients |-> [texture |-> << >>, buffer |-> << >>],
   resources |-> [texture |-> << >>, buffer |-> << >>], destroyed |-> FALSE]

Init ==
  /\ subgraphs = [g \in {} |-> 0] /\ graph = EmptyGraph
  /\ disabled = {} /\ initialized = {}
  /\ pins = [p \in {} |-> 0]
  /\ mem = EmptyMemory /\ frame = EmptyFrame
  /\ phase = "idle"
  /\ bounds = [edits |-> 0, calls |-> 0, frames |-> 0, failed |-> FALSE]

(* A block: the storage it was allocated for, from memoryPool or not.           *)
Block(h, fromFrame) == [of |-> h, fromFrame |-> fromFrame]

(* pinStorage.try_find compares the index of a handle only.                     *)
Found(m, h) == h.index \in DOMAIN m.storage

emplace(m, owner) ==
  LET h == acquired(m.handles, 1)[1]
  IN  [m EXCEPT !.handles = acquire(@, 1),
                !.storage = @ @@ (h.index :> [key |-> h, owner |-> owner, data |-> NoData,
                                              isOwnedTexture |-> FALSE])]
Newest(m) == acquired(m.handles, 1)[1]

erase(m, h) ==
  [m EXCEPT !.storage = [x \in DOMAIN @ \ {h.index} |-> @[x]], !.handles = release(@, h)]

allocate(m, h) ==
  IF m.storage[h.index].data # NoData THEN m
  ELSE [m EXCEPT !.storage[h.index].data = Block(m.storage[h.index].key, FALSE),
                 !.heap = @ \cup {Block(m.storage[h.index].key, FALSE)}]

deallocate(m, block) == [m EXCEPT !.heap = @ \ {block}, !.ok = @ /\ block \in m.heap]

destroy_next_frame(m, image) == [m EXCEPT !.images = @ \ {image}, !.ok = @ /\ image \in m.images]

retained_erase(m, h) == [m EXCEPT !.retained = {r \in @ : r.index # h.index}]

free_pin_storage(m, h, isFrameAllocated) ==
  LET s == m.storage[h.index]
      n == IF s.isOwnedTexture
           THEN [retained_erase(m, h) EXCEPT !.pendingTextures = Append(@, s.data.of)]
           ELSE m
  IN  IF s.data = NoData THEN m
      ELSE IF isFrameAllocated # s.data.fromFrame THEN [n EXCEPT !.ok = FALSE]
      ELSE IF isFrameAllocated THEN n ELSE deallocate(n, s.data)

(* For each handle in hs, free_pin_storage and then erase. *)
free_and_erase(m, hs, isFrameAllocated) ==
  FoldLeft(LAMBDA a, h : IF ~Found(a, h) THEN [a EXCEPT !.ok = FALSE]
                         ELSE erase(free_pin_storage(a, h, isFrameAllocated), h), m, hs)

free_pending_textures(m) ==
  [FoldLeft(destroy_next_frame, m, m.pendingTextures) EXCEPT !.pendingTextures = << >>]

----------------------------------------------------------------------------
(* Between frames. *)

(* A call that changes nothing is not counted. *)
Edit ==
  /\ bounds' = IF UNCHANGED <<graph, disabled, mem>> THEN bounds
               ELSE [bounds EXCEPT !.edits = @ + 1]

PinsOf(i, t) == SelectSeq(TemplateVertices(i, t), IsPin)

instantiate(i, t) ==
  /\ i \notin DOMAIN subgraphs
  /\ subgraphs' = subgraphs @@ (i :> [template |-> t, dynamicStorage |-> << >>])
  /\ graph' = instantiate_template(graph, i, t)
  /\ LET ps == PinsOf(i, t)
         hs == acquired(mem.handles, Len(ps))
         bound == SelectSeq(hs, LAMBDA h : \E k \in DOMAIN ps :
                                  hs[k] = h /\ ps[k][2] \in Templates[t].bound)
     IN  /\ pins' = pins @@ [p \in ToSet(ps) |->
                      [ownedStorage |-> hs[CHOOSE k \in DOMAIN ps : ps[k] = p],
                       referencedPin |-> NoHandle]]
         /\ mem' = FoldLeft(allocate, FoldLeft(emplace, mem, ps), bound)
  /\ UNCHANGED <<disabled, initialized, frame, phase>>
  /\ Edit

(* The vertices go in order; what they own and the dynamic storages go with     *)
(* them, the textures of these at the next build.                               *)
remove(i) ==
  /\ i \in DOMAIN subgraphs
  /\ LET vs == TemplateVertices(i, subgraphs[i].template)
         own == [k \in DOMAIN SelectSeq(vs, IsPin) |-> pins[SelectSeq(vs, IsPin)[k]].ownedStorage]
         m == free_and_erase(free_and_erase(mem, subgraphs[i].dynamicStorage, FALSE), own, FALSE)
     IN  /\ mem' = m
         /\ phase' = IF m.ok THEN "idle" ELSE "broken"
         /\ graph' = FoldLeft(remove_vertex, graph, vs)
         /\ pins' = [p \in DOMAIN pins \ ToSet(vs) |-> pins[p]]
         /\ disabled' = disabled \ ToSet(vs)
         /\ initialized' = initialized \ ToSet(vs)
  /\ subgraphs' = [j \in DOMAIN subgraphs \ {i} |-> subgraphs[j]]
  /\ UNCHANGED frame
  /\ Edit

(* p and q are an output and an input that Links names; clients connect an      *)
(* input once.                                                                  *)
Linked(p, q) == <<p[2], q[2]>> \in Links /\ p[1] # q[1]

connect(p, q) ==
  /\ Linked(p, q)
  /\ \A u \in ToSet(graph.in[q]) : ~IsPin(u)
  /\ \A u \in ToSet(graph.out[p]) : IsSink(u) => ~IsPin(u)
  /\ graph' = connect_pins(graph, p, q)
  /\ UNCHANGED <<subgraphs, disabled, initialized, pins, mem, frame, phase>>
  /\ Edit

(* The edge of the nodes is kept: the loop that looks for another edge between  *)
(* their pins goes over the edges of the nodes, and finds this one.             *)
disconnect(p, q) ==
  /\ Linked(p, q) /\ has_edge(graph, p, q)
  /\ graph' = LET g == remove_edge(graph, p, q)
                  stillConnected == has_edge(g, NodeOf(p), NodeOf(q))
              IN  IF stillConnected THEN g ELSE remove_edge(g, NodeOf(p), NodeOf(q))
  /\ UNCHANGED <<subgraphs, disabled, initialized, pins, mem, frame, phase>>
  /\ Edit

Outputs(i) == {<<i, name>> : name \in Templates[subgraphs[i].template].outputs}
Inputs(i) == {<<i, name>> : name \in Templates[subgraphs[i].template].inputs}

disable_all_outputs(i) ==
  /\ disabled' = disabled \cup Outputs(i)
  /\ UNCHANGED <<subgraphs, graph, initialized, pins, mem, frame, phase>>
  /\ Edit

set_output_state(p, enable) ==
  /\ disabled' = IF enable THEN disabled \ {p} ELSE disabled \cup {p}
  /\ UNCHANGED <<subgraphs, graph, initialized, pins, mem, frame, phase>>
  /\ Edit

try_get_input(p) ==
  /\ mem' = allocate(mem, pins[p].ownedStorage)
  /\ UNCHANGED <<subgraphs, graph, disabled, initialized, pins, frame, phase>>
  /\ Edit

(* The storage that the last build found for the pin, if there is one at that   *)
(* index; another type is turned down.                                          *)
try_get_output(p) ==
  LET r == pins[p].referencedPin
      h == IF r # NoHandle /\ Found(mem, r) THEN r ELSE pins[p].ownedStorage
      o == mem.storage[h.index].owner
  IN  /\ o # NoHandle /\ PinDesc[o[2]].kind = PinDesc[p[2]].kind
      /\ mem' = allocate(mem, h)
      /\ UNCHANGED <<subgraphs, graph, disabled, initialized, pins, frame, phase>>
      /\ Edit

shutdown ==
  /\ LET m == free_pending_textures(
                FoldSet(LAMBDA x, a : free_pin_storage(a, mem.storage[x].key, FALSE),
                        mem, DOMAIN mem.storage))
     IN  /\ mem' = [m EXCEPT !.storage = [x \in {} |-> 0]]
         /\ phase' = IF m.ok THEN "down" ELSE "broken"
  /\ UNCHANGED <<subgraphs, graph, disabled, initialized, pins, frame>>
  /\ Edit

----------------------------------------------------------------------------
(* build() *)

(* One step of propagatePins: the pin takes the storage of the first pin that   *)
(* `from` lists, or its own one.                                                *)
Propagate(st, p, from) ==
  LET sources == SelectSeq(from, IsPin)
      inherited == IF sources = << >> THEN NoHandle ELSE st.ref[sources[1]]
      own == pins[p].ownedStorage
  IN  IF inherited # NoHandle THEN [st EXCEPT !.ref[p] = inherited]
      ELSE [ref |-> [st.ref EXCEPT ![p] = own], mem |-> allocate(st.mem, own)]

\* Mutant: sinks are propagated in the order of the other pins.
propagatePins_SameOrder(sortedPins, m) ==
  LET regular == FoldLeft(LAMBDA st, p : IF IsSink(p) THEN st ELSE Propagate(st, p, graph.in[p]),
                          [ref |-> [p \in DOMAIN pins |-> NoHandle], mem |-> m], sortedPins)
  IN  FoldLeft(LAMBDA st, p : IF IsSink(p) THEN Propagate(st, p, graph.out[p]) ELSE st,
               regular, sortedPins)

propagatePins(sortedPins, m) ==
  LET regular == FoldLeft(LAMBDA st, p : IF IsSink(p) THEN st ELSE Propagate(st, p, graph.in[p]),
                          [ref |-> [p \in DOMAIN pins |-> NoHandle], mem |-> m], sortedPins)
  IN  FoldLeft(LAMBDA st, p : IF IsSink(p) THEN Propagate(st, p, graph.out[p]) ELSE st,
               regular, Reverse(sortedPins))

EnabledOutputs == UNION {Outputs(i) : i \in DOMAIN subgraphs} \ disabled

\* Mutant: only the owners of the outputs are marked.
ActiveNodes_Owners == {NodeOf(p) : p \in EnabledOutputs}

ActiveNodes ==
  MarkActive(graph, {u \in UNION {ToSet(graph.in[p]) : p \in EnabledOutputs} : ~IsPin(u)})

(* The textures retained from earlier frames come first in the new pool; what a *)
(* frame that was not submitted left in transientTextures is still there.       *)
begin_build ==
  /\ phase = "idle"
  /\ bounds.frames < MaxFrames
  /\ bounds' = [bounds EXCEPT !.frames = @ + 1]
  /\ LET order == PostOrder(graph)
         active == ActiveNodes
         sorted == SelectSeq(order, LAMBDA v : ~IsPin(v) /\ v \in active)
         built == propagatePins(SelectSeq(order, IsPin), free_pending_textures(mem))
         textures == SetToSeq(built.mem.retained)
     IN  /\ mem' = built.mem
         /\ pins' = [p \in DOMAIN pins |-> [pins[p] EXCEPT !.referencedPin = built.ref[p]]]
         /\ initialized' = initialized \cup ToSet(sorted)
         /\ frame' = [frame EXCEPT !.sortedNodes = sorted, !.at = 1,
                        !.resources = [texture |-> textures, buffer |-> << >>],
                        !.transients.texture = @ \o [k \in DOMAIN textures |-> <<textures[k], k>>]]
         /\ phase' = IF ~built.mem.ok THEN "broken" ELSE IF sorted = << >> THEN "built" ELSE "build"
  /\ UNCHANGED <<subgraphs, graph, disabled>>

currentNode == frame.sortedNodes[frame.at]

Call(name) ==
  /\ phase = "build"
  /\ name \in NodeCalls
  /\ bounds.calls < MaxCalls
  /\ bounds' = [bounds EXCEPT !.calls = @ + 1]
  /\ UNCHANGED <<graph, disabled, initialized, pins>>

AddResource(f, h, kind) ==
  [f EXCEPT !.resources[kind] = Append(@, h),
            !.transients[kind] = Append(@, <<h, Len(f.resources[kind]) + 1>>)]

IsCreated(h) == \E kind \in DOMAIN frame.resources : Contains(frame.resources[kind], h)

(* A node creates the resource of a pin of its own that has no source, once. *)
create(p) ==
  /\ Call("create")
  /\ NodeOf(p) = currentNode /\ PinDesc[p[2]].kind \in {"texture", "buffer"}
  /\ pins[p].referencedPin = pins[p].ownedStorage
  /\ ~IsCreated(pins[p].ownedStorage)
  /\ \A k \in DOMAIN frame.rerouteStash : frame.rerouteStash[k][1] # pins[p].ownedStorage
  /\ frame' = AddResource(frame, pins[p].ownedStorage, PinDesc[p[2]].kind)
  /\ UNCHANGED <<subgraphs, mem, phase>>

create_dynamic_buffer ==
  /\ Call("create_dynamic_buffer")
  /\ mem' = emplace(mem, NoHandle)
  /\ frame' = [AddResource(frame, Newest(mem), "buffer")
                 EXCEPT !.dynamicPins = Append(@, Newest(mem))]
  /\ UNCHANGED <<subgraphs, phase>>

create_retained_texture ==
  /\ Call("create_retained_texture")
  /\ LET h == Newest(mem)
         m == allocate(emplace(mem, NoHandle), h)
     IN  /\ mem' = [m EXCEPT !.storage[h.index].isOwnedTexture = TRUE,
                             !.retained = @ \cup {h}, !.images = @ \cup {h}]
         /\ frame' = AddResource(frame, h, "texture")
         /\ subgraphs' = [subgraphs EXCEPT ![currentNode[1]].dynamicStorage = Append(@, h)]
  /\ UNCHANGED phase

(* The entry of the texture in transientTextures is left. *)
destroy_retained_texture(h) ==
  /\ Call("destroy_retained_texture")
  /\ Contains(subgraphs[currentNode[1]].dynamicStorage, h)
  /\ LET m == deallocate(destroy_next_frame(mem, mem.storage[h.index].data.of),
                         mem.storage[h.index].data)
     IN  mem' = retained_erase(erase(m, h), h)
  /\ subgraphs' = [subgraphs EXCEPT ![currentNode[1]].dynamicStorage = EraseUnordered(@, h)]
  /\ frame' = [frame EXCEPT !.destroyed = TRUE]
  /\ UNCHANGED phase

(* Only the node that owns the destination reroutes, which is asserted; clients *)
(* reroute a pin once a frame.                                                  *)
reroute(p, q) ==
  LET src == pins[p].referencedPin
      dst == pins[q].referencedPin
  IN  /\ Call("reroute")
      /\ NodeOf(p) = currentNode /\ NodeOf(q) = currentNode /\ src # dst
      /\ PinDesc[p[2]].kind = PinDesc[q[2]].kind /\ PinDesc[p[2]].kind \in {"texture", "buffer"}
      /\ dst = pins[q].ownedStorage /\ ~IsCreated(dst)
      /\ bounds.failed \/ \A k \in DOMAIN frame.rerouteStash : frame.rerouteStash[k][1] # dst
      /\ IF mem.storage[dst.index].owner[1] # q[1] \/ NodeOf(mem.storage[dst.index].owner) # currentNode
         THEN phase' = "broken" /\ UNCHANGED <<mem, frame>>
         ELSE /\ frame' = [frame EXCEPT !.rerouteStash = Append(@, <<dst, mem.storage[dst.index]>>)]
              /\ mem' = [mem EXCEPT !.storage[dst.index] = [mem.storage[src.index] EXCEPT !.key = dst]]
              /\ UNCHANGED phase
      /\ UNCHANGED subgraphs

(* The build of the current node returns. *)
node_built ==
  /\ phase = "build"
  /\ frame' = [frame EXCEPT !.at = @ + 1]
  /\ phase' = IF frame.at = Len(frame.sortedNodes) THEN "built" ELSE "build"
  /\ UNCHANGED <<subgraphs, graph, disabled, initialized, pins, mem, bounds>>

----------------------------------------------------------------------------
(* execute() and frame_submitted() *)

(* An entry must find its storage, with memory of its own to write to, and the  *)
(* resource made for it; a retained texture is only looked at.                  *)
Usable(m, kind, e) ==
  /\ Found(m, e[1])
  /\ e[2] \in DOMAIN frame.resources[kind]
  /\ LET s == m.storage[e[1].index]
     IN  \/ kind = "texture" /\ s.isOwnedTexture
         \/ s.key = e[1] /\ frame.resources[kind][e[2]] = e[1] /\ s.data # NoData

(* Dynamic buffers get memory of the frame. *)
allocate_buffers(m) ==
  FoldLeft(LAMBDA a, e :
             IF Found(a, e[1]) /\ a.storage[e[1].index].data = NoData
             THEN [a EXCEPT !.storage[e[1].index].data = Block(e[1], TRUE)] ELSE a,
           m, frame.transients.buffer)

execute ==
  /\ phase = "built"
  /\ mem' = allocate_buffers(mem)
  /\ phase' = IF \A kind \in DOMAIN frame.transients :
                   \A e \in ToSet(frame.transients[kind]) : Usable(mem', kind, e)
              THEN "executed" ELSE "broken"
  /\ UNCHANGED <<subgraphs, graph, disabled, initialized, pins, frame, bounds>>

(* The value of a stash entry goes back to its storage. *)
restore(m, e) ==
  IF ~Found(m, e[1]) \/ m.storage[e[1].index].key # e[1] THEN [m EXCEPT !.ok = FALSE]
  ELSE [m EXCEPT !.storage[e[1].index] = e[2]]

\* Mutant: reroutes stay.
finish_frame_Rerouted ==
  LET m == free_and_erase(mem, frame.dynamicPins, TRUE)
  IN  /\ mem' = m
      /\ frame' = [EmptyFrame EXCEPT !.resources = frame.resources]
      /\ phase' = IF m.ok THEN "idle" ELSE "broken"

finish_frame ==
  LET m == free_and_erase(FoldLeft(restore, mem, Reverse(frame.rerouteStash)),
                          frame.dynamicPins, TRUE)
  IN  /\ mem' = m
      /\ frame' = [EmptyFrame EXCEPT !.resources = frame.resources]
      /\ phase' = IF m.ok THEN "idle" ELSE "broken"

frame_submitted ==
  /\ phase = "executed"
  /\ finish_frame
  /\ UNCHANGED <<subgraphs, graph, disabled, initialized, pins, bounds>>

(* The engine goes on with the next frame, and finish_frame is not called. *)
submit_fails ==
  /\ phase = "executed"
  /\ "submit_fails" \in NodeCalls
  /\ phase' = "idle"
  /\ bounds' = [bounds EXCEPT !.failed = TRUE]
  /\ UNCHANGED <<subgraphs, graph, disabled, initialized, pins, mem, frame>>

EditGraph ==
  \/ \E i \in Subgraph, t \in DOMAIN Templates : instantiate(i, t)
  \/ \E i \in DOMAIN subgraphs : remove(i)
  \/ \E i \in DOMAIN subgraphs : disable_all_outputs(i)
  \/ \E i, j \in DOMAIN subgraphs : \E p \in Outputs(i), q \in Inputs(j) : connect(p, q)
  \/ \E i, j \in DOMAIN subgraphs : \E p \in Outputs(i), q \in Inputs(j) : disconnect(p, q)
  \/ \E i \in DOMAIN subgraphs : \E p \in Outputs(i), enable \in BOOLEAN : set_output_state(p, enable)
  \/ \E i \in DOMAIN subgraphs : \E p \in Outputs(i) : try_get_output(p)
  \/ \E i \in DOMAIN subgraphs : \E p \in Inputs(i) : try_get_input(p)
  \/ shutdown

CallOfNode ==
  \/ \E p \in DOMAIN pins : create(p)
  \/ create_dynamic_buffer
  \/ create_retained_texture
  \/ \E h \in mem.retained : destroy_retained_texture(h)
  \/ \E p, q \in DOMAIN pins : reroute(p, q)

Next ==
  \/ phase = "idle" /\ bounds.edits < MaxEdits /\ EditGraph
  \/ CallOfNode
  \/ begin_build
  \/ node_built
  \/ execute
  \/ frame_submitted
  \/ submit_fails

Spec == Init /\ [][Next]_vars

----------------------------------------------------------------------------
(* Properties *)

InFrame == phase \in {"build", "built", "executed"}

PinEdges == UNION {{p} \X ToSet(graph.out[p]) : p \in DOMAIN pins}

(* <<from, to>> of nodes: one takes a pin of the other; an edge that the graph  *)
(* keeps when all of those were disconnected.                                   *)
Takes == {<<NodeOf(e[1]), NodeOf(e[2])>> : e \in PinEdges}
StaleEdges ==
  UNION {{v} \X {w \in ToSet(graph.out[v]) : ~IsPin(w)} : v \in DOMAIN graph.out \ DOMAIN pins}
    \ Takes

(* The nodes that an enabled output depends on, through pins. *)
RECURSIVE DependsOn(_, _)
DependsOn(nodes, takes) ==
  LET next == nodes \cup {e[1] : e \in {d \in takes : d[2] \in nodes}}
  IN  IF next = nodes THEN nodes ELSE DependsOn(next, takes)

Contributors == DependsOn({NodeOf(p) : p \in EnabledOutputs}, Takes)

(* A frame runs every node an enabled output depends on, once and after the     *)
(* nodes it takes pins from, and no other node unless pins were disconnected    *)
(* (frame_graph.cpp:1537 marks over edges of nodes, 1374 sorts).                *)
RunsContributors ==
  InFrame =>
    LET nodes == frame.sortedNodes
        contributors == Contributors
    IN  /\ IsInjective(nodes)
        /\ contributors \subseteq ToSet(nodes)
        /\ StaleEdges = {} => ToSet(nodes) = contributors
        /\ ToSet(nodes) \subseteq initialized
        /\ \A e \in Takes : \A j, k \in DOMAIN nodes :
             nodes[j] = e[1] /\ nodes[k] = e[2] => j < k

(* In a frame, connected pins share one storage, which is there and has memory: *)
(* that of the first pin of the chain, or of the last one for data sinks        *)
(* (frame_graph.cpp:1440).                                                      *)
RefsFollowEdges ==
  InFrame =>
    /\ LET linked == {IF IsSink(e[1]) THEN e[1] ELSE e[2] : e \in PinEdges}
       IN  \A p \in DOMAIN pins :
         LET r == pins[p].referencedPin
         IN  /\ r # NoHandle /\ Found(mem, r) /\ mem.storage[r.index].key = r
             /\ mem.storage[r.index].data # NoData
             /\ p \notin linked => r = pins[p].ownedStorage
    /\ \A e \in PinEdges : pins[e[1]].referencedPin = pins[e[2]].referencedPin

Datas == {mem.storage[x].data : x \in DOMAIN mem.storage} \ {NoData}

(* Between frames, whatever was rerouted, retained, destroyed and removed: each *)
(* storage is that of one pin or of one retained texture of one subgraph, its   *)
(* memory is its own, nothing else is allocated, and an image lives as long as  *)
(* its texture, or waits in pendingTexturesToFree.  Nothing is left after       *)
(* shutdown.  A frame comes to harm only through a submit that failed or a      *)
(* texture that it destroyed (frame_graph.cpp:450, 584, 1261, 1680, 1708).      *)
StorageAccounted ==
  /\ phase = "broken" => bounds.failed \/ frame.destroyed
  /\ phase = "down" => mem.heap = {} /\ mem.images = {}
  /\ phase = "idle" /\ ~bounds.failed =>
       /\ {mem.storage[x].key : x \in DOMAIN mem.storage}
            = {pins[p].ownedStorage : p \in DOMAIN pins} \cup mem.retained
       /\ mem.heap = Datas
       /\ \A x, y \in DOMAIN mem.storage :
            mem.storage[x].data = mem.storage[y].data => x = y \/ mem.storage[x].data = NoData
       /\ mem.retained = {mem.storage[x].key : x \in {y \in DOMAIN mem.storage : mem.storage[y].isOwnedTexture}}
       /\ \A h \in mem.retained :
            Cardinality({i \in DOMAIN subgraphs : Contains(subgraphs[i].dynamicStorage, h)}) = 1
       /\ IsInjective(mem.pendingTextures)
       /\ ToSet(mem.pendingTextures) \cap mem.retained = {}
       /\ mem.images = mem.retained \cup ToSet(mem.pendingTextures)
=============================================================================
