----------------------------- MODULE MCPassBarriers ------------------------------
(* A small instance of PassBarriers for TLC: a pin with a stable buffer, and one  *)
(* with a buffer of the frame or that is rerouted to.                            *)
EXTENDS PassBarriers, TLC

MCSymmetry == Permutations(ShaderStage)
=============================================================================
