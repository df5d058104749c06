--------------------------- MODULE AssetRegistryInv ---------------------------
(* The inductive invariants of AssetRegistry: IInv, its types, what a process  *)
(* leaves on disk, and how the memory of the registry follows it; ViewInv, how *)
(* the resource registry follows that memory; BirthInv and MirrorInv, how the  *)
(* registry keeps up with files that come, go and change.                      *)
EXTENDS AssetRegistry

ImportJob ==
  [asset : Asset, path : Path, nodes : SUBSET Node, reimport : BOOLEAN,
   state : {"running", "succeeded", "failed"}]
Event == [kind : {"added", "removed", "renamed", "modified"}, path : Path]
Entry == [path : Path, nodes : SUBSET Node, busy : BOOLEAN]
Finalizing == [at : {"artifacts", "process", "meta", "sources"}, import : ImportJob]
Working == [at : {"idle", "imports", "events", "off"}] \cup Finalizing

DiskTypes ==
  /\ metaAt \in [Path -> Asset \cup {NoAsset}]
  /\ builds \in Seq([asset : Asset, nodes : SUBSET Node])
  /\ dirs \subseteq 1..Len(builds)
  /\ proc \in [Asset -> 0..Len(builds)]
  /\ source \in [Asset -> SUBSET Node]

\* The variables but those that only the resource registry reads.
MemTypes ==
  /\ files \in [Path -> Asset \cup {NoAsset}]
  /\ Known \subseteq Asset /\ entries \in [Known -> Entry]
  /\ artifacts \in [Asset -> [Node -> Nat]]
  /\ imports \in Seq(ImportJob)
  /\ main \in Working
  /\ events \in Seq(Event) /\ batch \in Seq(Event)
  /\ born \in 0..MaxAssets
  /\ trash \in [Path -> Asset \cup {NoAsset}]

\* The process of an asset is one of its own, and nobody has collected it; that
\* of the import being finalized is the last one.
ProcessesKept ==
  /\ \A a \in Asset : proc[a] # 0 => proc[a] \in dirs /\ builds[proc[a]].asset = a
  /\ main.at = "process" => Len(builds) \in dirs /\ builds[Len(builds)].asset = main.import.asset

IInv ==
  /\ DiskTypes /\ MemTypes
  /\ ProcessesKept
  /\ ArtifactsOnDisk /\ MapFollowsEntries /\ BusyIsImported

-----------------------------------------------------------------------------
(* How the resource registry follows the map of artifacts. *)

Change == [kind : {"add", "remove", "update"}, asset : Asset, node : Node]

\* The changes of one artifact.
About(q, a, n) == {i \in DOMAIN q : q[i].asset = a /\ q[i].node = n}

\* Whether the resource registry, which believes v, has the artifact once it has
\* read the first i changes.
Has(v, q, a, n, i) ==
  IF \A j \in About(q, a, n) : j > i THEN v[a][n] # 0
  ELSE \E j \in About(q, a, n) :
         j <= i /\ q[j].kind # "remove" /\ \A l \in About(q, a, n) : l <= i => l <= j

\* The changes lead from v to the map m: an artifact is added when it is not
\* there, removed or updated when it is, and what has not changed is known.
Leads(v, q, m) ==
  \A a \in Asset, n \in Node :
    /\ \A i \in About(q, a, n) : q[i].kind = "add" <=> ~Has(v, q, a, n, i - 1)
    /\ Has(v, q, a, n, Len(q)) <=> m[a][n] # 0
    /\ About(q, a, n) = {} => v[a][n] = m[a][n]

ViewInv ==
  /\ queue \in Seq(Change) /\ view \in [Asset -> [Node -> Nat]]
  /\ Leads(view, queue, artifacts)
  /\ main.at = "off" => queue = << >> /\ view = NoArtifacts /\ artifacts = NoArtifacts
-----------------------------------------------------------------------------
(* How the registry keeps up with the files. *)

\* The registry knows asset a at path p.
At(a, p) == a \in Known /\ entries[a].path = p

\* An asset that is imported for the first time is nowhere until its meta file is
\* written, and no other import is of it; a reimport is written where its asset is.
Untouched(a) == a \notin Known /\ \A p \in Path : a \notin {metaAt[p], files[p], trash[p]}
NewImports ==
  \A k \in DOMAIN imports :
    /\ imports[k].asset <= born
    /\ ~imports[k].reimport =>
         /\ Untouched(imports[k].asset)
         /\ \A l \in DOMAIN imports \ {k} : ~imports[l].reimport => imports[l].asset # imports[k].asset
NewMeta ==
  main.at \in {"artifacts", "process", "meta"} =>
    LET i == main.import IN
    /\ i.asset <= born
    /\ i.reimport => At(i.asset, i.path)
    /\ ~i.reimport =>
         /\ Untouched(i.asset)
         /\ \A k \in DOMAIN imports : ~imports[k].reimport => imports[k].asset # i.asset
BirthInv ==
  /\ \A a \in Asset : a > born => Untouched(a)
  /\ NewImports /\ NewMeta
  /\ batch # << >> => main.at = "events"
  /\ main.at = "off" => imports = << >> /\ events = << >>

\* The events that have not been handled.
Pending == batch \o events

\* The events of q that say that the file of path p comes or goes.
Changes(q, p) == {i \in DOMAIN q : q[i].path = p /\ q[i].kind \in {"added", "removed"}}

\* They lead from a file that is there or not (before) to one that is (now).
Flips(q, p, before, now) ==
  /\ \A i \in Changes(q, p) :
       /\ before /\ (\A j \in Changes(q, p) : i <= j) => q[i].kind = "removed"
       /\ (\A j \in Changes(q, p) : j <= i) => (q[i].kind = "added" <=> now)
  /\ \A i, j \in Changes(q, p) :
       i < j /\ (\A l \in Changes(q, p) : l <= i \/ j <= l) => q[i].kind # q[j].kind

ModifiedAt(q, p) == \E i \in DOMAIN q : q[i].path = p /\ q[i].kind = "modified"
RenamedTo(q, p) == q # << >> /\ q[1].kind = "renamed" /\ q[1].path = p

\* The map has the artifacts of the last process of the asset, or is about to hear
\* of them: the meta file is the next to be written.
Matches(a) == \A n \in Node : artifacts[a][n] = IF n \in OnDisk(proc[a]) THEN proc[a] ELSE 0
Fresh(a) == proc[a] = 0 \/ Matches(a) \/ (main.at = "meta" /\ main.import.asset = a)

\* Assets are raced with all their places.
Clean(a) == Places(a) \cap raced = {}
PlacesInv == \A a \in Asset : Places(a) \subseteq raced \/ Clean(a)

\* A rename that races nothing has been the only event since, and nothing is left
\* at the path that it is about.
RenameInv ==
  \A i \in DOMAIN Pending : Pending[i].kind = "renamed" /\ Pending[i].path \notin raced =>
    /\ i = 1 /\ \A j \in DOMAIN Pending : j # 1 => Pending[j].path \in raced
    /\ \A a \in Asset, old \in Path : metaAt[Pending[i].path] = a /\ At(a, old) =>
         old # Pending[i].path /\ metaAt[old] = NoAsset

FlipsInv ==
  \A p \in Path \ raced : Flips(Pending, p, files[p] # NoAsset, metaAt[p] # NoAsset)

\* What is known of an asset that is not raced: the map of files and the entries
\* agree, and where they differ from the disk an event is pending.
Follows(a) ==
  /\ \A p \in Path : files[p] = a <=> At(a, p)
  /\ \A p, q \in Path : metaAt[p] = a /\ metaAt[q] = a => p = q
  /\ \A p, q \in Path : metaAt[p] = a /\ At(a, q) => p = q \/ RenamedTo(Pending, p)
  /\ \A p \in Path : At(a, p) /\ metaAt[p] # a =>
       \/ Changes(Pending, p) # {}
       \/ \E q \in Path : RenamedTo(Pending, q) /\ metaAt[q] = a
  /\ \A p \in Path : metaAt[p] = a /\ proc[a] # 0 =>
       Changes(Pending, p) # {} \/ \E q \in Path : At(a, q)
  /\ \A p \in Path : At(a, p) =>
       Fresh(a) \/ ModifiedAt(Pending, p) \/ Changes(Pending, p) # {}

Mirror ==
  /\ PlacesInv /\ RenameInv /\ FlipsInv
  /\ \A a \in Asset : Clean(a) => Follows(a)

MirrorInv == main.at # "off" => Mirror
=============================================================================
