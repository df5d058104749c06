------------------------------ MODULE HandlePool ------------------------------
(* The pool that entity handles come from (core/handle_pool.hpp, fifo policy). *)
(* A handle is an index with a generation that is incremented, and wraps, each *)
(* time the handle is released; released handles are reused in that order.     *)
EXTENDS Integers, Sequences

CONSTANT Generations  \* 2^GenBits

ASSUME HandlePoolAssumption == Generations \in Nat \ {0}

EmptyPool == [handles |-> << >>, lastHandle |-> 0]

increment_gen(h) == [h EXCEPT !.gen = (@ + 1) % Generations]

(* What the next n calls of acquire return, and the pool after them. *)
acquired(pool, n) ==
  [k \in 1..n |->
     IF k <= Len(pool.handles) THEN pool.handles[k]
     ELSE [index |-> pool.lastHandle + k - Len(pool.handles), gen |-> 0]]

acquire(pool, n) ==
  IF n <= Len(pool.handles)
  THEN [pool EXCEPT !.handles = SubSeq(@, n + 1, Len(@))]
  ELSE [handles |-> << >>, lastHandle |-> pool.lastHandle + n - Len(pool.handles)]

release(pool, h) == [pool EXCEPT !.handles = Append(@, increment_gen(h))]
=============================================================================
