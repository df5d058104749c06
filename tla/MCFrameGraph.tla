----------------------------- MODULE MCFrameGraph ------------------------------
(* A small instance of FrameGraph for TLC: a view of two nodes, and a target    *)
(* whose first node hands what it shows on to its second one, and which takes   *)
(* the data that a view pushes.                                                 *)
EXTENDS FrameGraph

Pin(name, node, kind) == [name |-> name, node |-> node, kind |-> kind]

MCTemplates ==
  [view |->
     [nodes |-> <<"light", "geometry">>,
      pins |-> <<Pin("inGBuffer", "light", "texture"), Pin("outLit", "light", "texture"),
                 Pin("outGBuffer", "geometry", "texture"), Pin("sink", "light", "sink")>>,
      edges |-> << <<"outGBuffer", "inGBuffer">> >>,
      inputs |-> {}, outputs |-> {"outLit", "sink"}, bound |-> {"outGBuffer"}],
   target |->
     [nodes |-> <<"blit", "overlay">>,
      pins |-> <<Pin("inImage", "blit", "texture"), Pin("inData", "blit", "sink"),
                 Pin("inLit", "overlay", "texture")>>,
      edges |-> << <<"inLit", "inImage">> >>,
      inputs |-> {"inLit", "inData"}, outputs |-> {"inImage"}, bound |-> {}]]

MCLinks == {<<"outLit", "inLit">>, <<"sink", "inData">>}

MCSymmetry == Permutations(Subgraph)
=============================================================================
