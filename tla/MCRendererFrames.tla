--------------------------- MODULE MCRendererFrames ---------------------------
(* A small instance of RendererFrames for TLC. *)
EXTENDS RendererFrames

LightAndHeavy == {[downloads |-> 0, exhausted |-> FALSE],
                  [downloads |-> 1, exhausted |-> TRUE]}
=============================================================================
