--------------------------- MODULE MCAssetRegistry ---------------------------
(* Small instances of AssetRegistry for TLC.                                   *)
EXTENDS AssetRegistry, TLC

\* An import finds one artifact or two.
TwoContents == {{"n1"}, {"n1", "n2"}}

\* Paths are interchangeable.
Symmetry == Permutations(Path)
=============================================================================
