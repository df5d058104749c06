------------------------------ MODULE AssetFiles ------------------------------
(* The files of the asset registry, and the steps in which                     *)
(* importer::finalize writes them.  Everything here survives a crash.          *)
(*                                                                             *)
(*   metaAt[p]   the asset whose meta file is at path p of the assets          *)
(*               directory (NoAsset: no file there)                            *)
(*   proc[a]     the process named by <artifacts>/<a>.oproc (0: no file)       *)
(*   builds      the processes so far: each wrote the artifacts `nodes` of     *)
(*               `asset` to a directory of its own, and `dirs` are those       *)
(*               directories that still exist                                  *)
(*   source[a]   what the source file of the asset holds, as the set of        *)
(*               artifacts an import makes of it ({}: no import config)        *)
(*                                                                             *)
(* Assets and processes are numbered in the order their uuids are generated.   *)
(* An artifact is a pair of asset and node, as its uuid is in the namespace of *)
(* the asset.                                                                  *)
EXTENDS Naturals, Sequences, FiniteSets

CONSTANTS
  MaxAssets,  \* uuids of assets that may be generated
  Path,       \* paths of the assets directory
  Contents    \* contents of a source file: the nodes an import finds in it

ASSUME AssetFilesAssumption ==
  /\ MaxAssets \in Nat \ {0}
  /\ IsFiniteSet(Contents)
  /\ \A c \in Contents : c # {} /\ IsFiniteSet(c)

Asset == 1..MaxAssets
NoAsset == 0
Node == UNION Contents

VARIABLES metaAt, proc, builds, dirs, source
diskVars == <<metaAt, proc, builds, dirs, source>>

DiskTypeOK ==
  /\ metaAt \in [Path -> Asset \cup {NoAsset}]
  /\ \A k \in 1..Len(builds) : builds[k].asset \in Asset /\ builds[k].nodes \subseteq Node
  /\ dirs \subseteq 1..Len(builds)
  /\ proc \in [Asset -> 0..Len(builds)]
  /\ source \in [Asset -> Contents \cup {{}}]

DiskInit ==
  /\ metaAt = [p \in Path |-> NoAsset]
  /\ proc = [a \in Asset |-> 0]
  /\ builds = <<>>
  /\ dirs = {}
  /\ source = [a \in Asset |-> {}]

\* load_artifact_meta: the artifacts of process k whose meta is on disk.
OnDisk(k) == IF k \in dirs THEN builds[k].nodes ELSE {}

-----------------------------------------------------------------------------
(* The steps of finalize, in its order. *)

\* Variant: the directories of earlier processes of the asset are cleaned up.
SaveArtifacts_CleansUp(a, nodes) ==
  /\ builds' = Append(builds, [asset |-> a, nodes |-> nodes])
  /\ dirs' = {k \in dirs : builds[k].asset # a} \cup {Len(builds) + 1}
  /\ UNCHANGED <<metaAt, proc, source>>

\* A fresh process directory, and the artifacts that could be saved to it.
SaveArtifacts(a, nodes) ==
  /\ builds' = Append(builds, [asset |-> a, nodes |-> nodes])
  /\ dirs' = dirs \cup {Len(builds) + 1}
  /\ UNCHANGED <<metaAt, proc, source>>

SaveProcessInfo(a, k) ==
  /\ proc' = [proc EXCEPT ![a] = k]
  /\ UNCHANGED <<metaAt, builds, dirs, source>>

\* The meta file; a first import does not overwrite one.
MayWriteMeta(p, reimport) == reimport \/ metaAt[p] = NoAsset
SaveMeta(p, a, reimport) ==
  /\ metaAt' = IF MayWriteMeta(p, reimport) THEN [metaAt EXCEPT ![p] = a] ELSE metaAt
  /\ UNCHANGED <<proc, builds, dirs, source>>

\* write_source_files: sources that are already in place are not copied.
WriteSourceFiles(a, content) ==
  /\ source' = [source EXCEPT ![a] = IF @ = {} THEN content ELSE @]
  /\ UNCHANGED <<metaAt, proc, builds, dirs>>

\* desc.save: the source file of an asset is overwritten in place.
SaveSource(a, content) ==
  /\ source' = [source EXCEPT ![a] = content]
  /\ UNCHANGED <<metaAt, proc, builds, dirs>>

\* The garbage collection of discover_assets: sources, process information and
\* artifacts of the assets that are not `known`.
Collect(known) ==
  /\ source' = [a \in Asset |-> IF a \in known THEN source[a] ELSE {}]
  /\ proc' = [a \in Asset |-> IF a \in known THEN proc[a] ELSE 0]
  /\ dirs' = {k \in dirs : builds[k].asset \in known}
  /\ UNCHANGED <<metaAt, builds>>
=============================================================================
