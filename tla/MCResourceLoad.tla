---------------------------- MODULE MCResourceLoad ----------------------------
(* Small instances of ResourceLoad for TLC.  Resources are interchangeable, and *)
(* so are the threads that never call update().                                *)
EXTENDS ResourceLoadInv, TLC

Symmetry == Permutations(Res) \cup Permutations(Thread \ {Main})
=============================================================================
