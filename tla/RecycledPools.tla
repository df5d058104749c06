----------------------------- MODULE RecycledPools -----------------------------
(***************************************************************************)
(* Pools of command buffers and of descriptor sets, given back to the      *)
(* device once a frame: the current pool is retired with the number of a   *)
(* submit, and taken again, reset, when that submit has finished.  The     *)
(* command_buffer_pool_manager and each kind of descriptor_set_pool work   *)
(* this way.                                                               *)
(*                                                                         *)
(* A pool is represented by the last submit whose commands need it, which  *)
(* the code does not know (it is what the properties speak about): 0 if    *)
(* there is none.                                                          *)
(***************************************************************************)
EXTENDS Integers, Sequences, SequencesExt

NoPool == -1

\* m_currentPool and m_usedPools, or current and usedPools.
NoPools == [current |-> NoPool, used |-> <<>>]

Reusable(m, last) == m.used # <<>> /\ last >= Head(m.used).submit

\* get_or_create_current_pool and acquire_pool: the current pool, or the one
\* retired first, or a new one.
WithCurrent(m, last) ==
  IF m.current # NoPool THEN m
  ELSE IF Reusable(m, last)
       THEN [current |-> Head(m.used).use, used |-> Tail(m.used)]
       ELSE [m EXCEPT !.current = 0]

\* That call resets a pool whose commands the device may still execute.
ResetTooEarly(m, last, finished) ==
  m.current = NoPool /\ Reusable(m, last) /\ Head(m.used).use > finished

\* The current pool is used by the commands of submit k.
UsedBy(m, k) == [m EXCEPT !.current = k]

\* frame_submitted and on_submit.
Retire(m, k) ==
  IF m.current = NoPool THEN m
  ELSE [current |-> NoPool,
        used |-> Append(m.used, [use |-> m.current, submit |-> k])]

\* The commands that were being recorded as submit j have become submit k.
Renumber(m, j, k) ==
  LET N(use) == IF use = j THEN k ELSE use
  IN [current |-> N(m.current),
      used |-> [i \in DOMAIN m.used |-> [m.used[i] EXCEPT !.use = N(@)]]]
=============================================================================
