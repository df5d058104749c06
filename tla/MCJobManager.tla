----------------------------- MODULE MCJobManager -----------------------------
(* Small instances of JobManager for TLC.  A job is never reused, so that the  *)
(* jobs are interchangeable in the runs that check no liveness.                *)
EXTENDS JobManagerInv, TLC

Symmetry == Permutations(Job)
=============================================================================
