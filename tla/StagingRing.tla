------------------------------ MODULE StagingRing ------------------------------
(***************************************************************************)
(* staging_buffer: a ring of Size bytes the host writes and submits read.  *)
(* What was staged since the last submit is pending; each submit takes the *)
(* pending bytes, and gives them back when it has finished.                *)
(***************************************************************************)
EXTENDS Integers, Sequences, SequencesExt

CONSTANT Size   \* m_size of ring_buffer_tracker

ASSUME SizeAssumption == Size \in Nat \ {0}

VARIABLES
  ring,       \* ring_buffer_tracker: m_firstUnused and m_usedCount
  pending,    \* pendingBytes
  submitted   \* submittedUploads: timelineId and size of each submit

stagingVars == <<ring, pending, submitted>>

StagingInit ==
  /\ ring = [first |-> 0, used |-> 0]
  /\ pending = 0
  /\ submitted = <<>>

Available(r) == Size - r.used
FirstSegment(r) == LET end == Size - r.first
                   IN IF end <= Available(r) THEN end ELSE Available(r)

\* ring_buffer_tracker::fetch
Fetch(r, n) ==
  [first |-> IF n <= FirstSegment(r) THEN (r.first + n) % Size
             ELSE n - FirstSegment(r),
   used |-> r.used + n]

\* The bytes fetch hands out, in one segment or two.
Cells(r, n) ==
  IF n <= FirstSegment(r) THEN r.first..(r.first + n - 1)
  ELSE r.first..(r.first + FirstSegment(r) - 1) \cup 0..(n - FirstSegment(r) - 1)

Padding(r, align) == (align - (r.first % align)) % align

\* The bytes stage_allocate_contiguous_aligned skips before it allocates: up to
\* the alignment, or up to the end of the buffer.
Skipped(r, n, align) ==
  IF FirstSegment(r) >= Padding(r, align) + n
  THEN Padding(r, align)
  ELSE FirstSegment(r)

CanStage(r, n, align) ==
  /\ Available(r) >= n
  /\ \/ FirstSegment(r) >= Padding(r, align) + n
     \/ Available(r) - FirstSegment(r) >= Padding(r, align) + n

\* What the ring is after staging n bytes, and where they are.
Aligned(r, n, align) == Fetch(r, Skipped(r, n, align))
Staged(r, n, align) == Fetch(Aligned(r, n, align), n)
StagedCells(r, n, align) == Cells(Aligned(r, n, align), n)

Stage(r, n, align) ==
  /\ ring' = Staged(r, n, align)
  /\ pending' = pending + (Staged(r, n, align).used - r.used)

\* staging_buffer::end_submit
TakePending(k) ==
  /\ submitted' = IF pending = 0 THEN submitted
                  ELSE Append(submitted, [timelineId |-> k, size |-> pending])
  /\ pending' = 0

\* The sizes of the first i submits of s, added up.
Sums(s) ==
  LET sum[i \in 0..Len(s)] == IF i = 0 THEN 0 ELSE sum[i - 1] + s[i].size
  IN sum
Total(s) == Sums(s)[Len(s)]

\* Mutant: a submit is taken for finished one too early.
Finished_OffByOne(k) ==
  Cardinality({i \in DOMAIN submitted : \A j \in 1..i : submitted[j].timelineId <= k + 1})

\* free_submissions(k) releases the submits before the first with a number above k.
Finished(k) ==
  Cardinality({i \in DOMAIN submitted : \A j \in 1..i : submitted[j].timelineId <= k})
Unfinished(k) == SubSeq(submitted, Finished(k) + 1, Len(submitted))
Freed(k) == [ring EXCEPT !.used = @ - Sums(submitted)[Finished(k)]]
-----------------------------------------------------------------------------
(* What is said of a ring. *)

Ring == [first : 0..(Size - 1), used : 0..Size]
Submitted == [timelineId : Nat, size : 1..Size]

\* The bytes in use are those of the submits and those that are pending.
RingOK ==
  /\ ring \in Ring /\ pending \in Nat /\ submitted \in Seq(Submitted)
  /\ ring.used = Total(submitted) + pending

\* How far byte c is behind the first unused one.
Behind(r, c) == IF c < r.first THEN r.first - c ELSE r.first - c + Size

\* With the ring r and the submits s, byte c is given back with submit k or a
\* later one: it is in use, after the bytes of the submits before k.
HeldUntil(r, s, c, k) ==
  \E p \in 0..Len(s) :
    /\ \A j \in DOMAIN s : s[j].timelineId < k => j <= p
    /\ Behind(r, c) <= r.used - Sums(s)[p]
=============================================================================
