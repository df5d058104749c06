----------------------------- MODULE EntityStore -----------------------------
(* What the entity registry promises: a map from entities to the components   *)
(* and tags they have.  An entity keeps the values of its components whatever *)
(* happens to the others and whatever it is given or loses besides; a         *)
(* component that is added and not written has its default value; a new       *)
(* entity is none of those that exist.                                        *)
EXTENDS FiniteSets

CONSTANTS
  Component,   \* component types, which have a value in each entity
  Tag,         \* tag types, which have none
  Value,       \* values of components
  Default,     \* the value of a component that nobody has written
  Signatures   \* the sets of types a call may name

VARIABLE store

Init == store = [e \in {} |-> {}]

(* New entities with the same types; those that existed are what they were. *)
Create(types, v) ==
  /\ DOMAIN store \subseteq DOMAIN store'
  /\ store' = [e \in DOMAIN store' |->
                 IF e \in DOMAIN store THEN store[e]
                 ELSE [types |-> types, values |-> [c \in types \cap Component |-> v]]]

(* Types are added, and the components they name may be written at once. *)
Add(e, types, written) ==
  LET all == store[e].types \cup types
  IN  store' = [store EXCEPT ![e] =
        [types  |-> all,
         values |-> [c \in all \cap Component |->
                       IF c \in types /\ written # {} THEN CHOOSE v \in written : TRUE
                       ELSE IF c \in store[e].types THEN store[e].values[c]
                       ELSE Default]]]

Remove(e, types) ==
  LET left == store[e].types \ types
  IN  store' = [store EXCEPT ![e] =
        [types |-> left, values |-> [c \in left \cap Component |-> @.values[c]]]]

Write(e, c, v) == store' = [store EXCEPT ![e].values[c] = v]

Destroy(e) == store' = [x \in DOMAIN store \ {e} |-> store[x]]

DestroyAll == store' = [e \in {} |-> {}]

Next ==
  \/ \E types \in Signatures, v \in Value : Create(types, v)
  \/ \E e \in DOMAIN store :
       \/ Destroy(e)
       \/ \E types \in Signatures :
            \/ Remove(e, types)
            \/ Add(e, types, {})
            \/ \E v \in Value : Add(e, types, {v})
       \/ \E c \in DOMAIN store[e].values, v \in Value : Write(e, c, v)
  \/ DestroyAll

Spec == Init /\ [][Next]_store
=============================================================================
