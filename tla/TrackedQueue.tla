----------------------------- MODULE TrackedQueue -----------------------------
(***************************************************************************)
(* The tracked queue of gpu_instance: submits are numbered, a fence of a   *)
(* small array and a timeline semaphore tell when each has finished, and   *)
(* objects given to destroy_next_frame wait for the submits that use them. *)
(*                                                                         *)
(* One thread submits.  The device is the other actor (Finish): submits of *)
(* one queue finish in order, each signals its fence and the semaphore.    *)
(***************************************************************************)
EXTENDS Integers, Sequences, SequencesExt

CONSTANTS
  Slots,    \* s_MaxTrackedSubmitsInFlight
  Object    \* objects the frames use, until destroy_next_frame

ASSUME SlotsAssumption == Slots \in Nat \ {0}

VARIABLES
  submitIndex,   \* m_submitIndex: the number of the next submit
  lastFinished,  \* m_lastFinishedSubmit
  signaled,      \* the slots of m_submitInfo whose fence is signaled
  begun,         \* begin_tracked_queue_submit was called for submitIndex
  nextFrame,     \* m_objectsToDisposeNextFrame
  toDispose,     \* m_objectsToDispose
  destroyed,     \* the objects destroyed so far
  lastUse,       \* ghost: the last submit that uses each object
  timeline       \* device: the last submit that finished

queueVars == <<submitIndex, lastFinished, signaled, begun, nextFrame,
               toDispose, destroyed, lastUse, timeline>>

Slot(k) == k % Slots
InFlight == (timeline + 1)..(submitIndex - 1)
InFlightOn(s) == {k \in InFlight : Slot(k) = s}

QueueInit ==
  /\ submitIndex = 1
  /\ lastFinished = 0
  /\ signaled = 0..(Slots - 1)
  /\ begun = FALSE
  /\ nextFrame = <<>>
  /\ toDispose = <<>>
  /\ destroyed = {}
  /\ lastUse = [o \in Object |-> 0]
  /\ timeline = 0

\* The device finishes the oldest submit.
Finish ==
  /\ InFlight # {}
  /\ timeline' = timeline + 1
  /\ signaled' = signaled \cup {Slot(timeline + 1)}
  /\ UNCHANGED <<submitIndex, lastFinished, begun, nextFrame, toDispose,
                 destroyed, lastUse>>

\* destroy_tracked_queue_resources_until: stops at the first object in use.
DestroyUntil(last) ==
  LET Ready(i) == \A j \in 1..i : toDispose[j].submit <= last
      ready == {i \in 1..Len(toDispose) : Ready(i)}
  IN /\ toDispose' = SubSeq(toDispose, Cardinality(ready) + 1, Len(toDispose))
     /\ destroyed' = destroyed \cup {toDispose[i].object : i \in ready}

\* begin_tracked_queue_submit.  It would wait for the fence if the submit its
\* slot was last used for had not finished, but submit_info::submitIndex is
\* never assigned: it stays 0, and the test never succeeds.
BeginSubmit ==
  /\ lastFinished' = timeline
  /\ DestroyUntil(timeline)
  /\ signaled' = signaled \ {Slot(submitIndex)}
  /\ begun' = TRUE
  /\ UNCHANGED <<submitIndex, nextFrame, lastUse, timeline>>

\* vkQueueSubmit succeeded: end_tracked_queue_submit.
EndSubmit ==
  /\ submitIndex' = submitIndex + 1
  /\ begun' = FALSE

\* wait_for_submit_completion
AwaitSubmit(k) ==
  IF k <= lastFinished
  THEN UNCHANGED lastFinished
  ELSE Slot(k) \in signaled /\ lastFinished' = k

\* destroy_next_frame
DestroyNextFrame(o) ==
  /\ o \notin destroyed
  /\ o \notin Range(nextFrame)
  /\ \A i \in 1..Len(toDispose) : toDispose[i].object # o
  /\ nextFrame' = Append(nextFrame, o)

\* flush_deferred_disposal, of end_frame and of the shutdown
Deferred(k) ==
  toDispose \o [i \in 1..Len(nextFrame) |-> [object |-> nextFrame[i], submit |-> k]]

\* The commands of a frame may use every object nobody had destroyed before it.
UsedByFrame ==
  {o \in Object : o \notin destroyed /\ \A i \in 1..Len(toDispose) : toDispose[i].object # o}
=============================================================================
