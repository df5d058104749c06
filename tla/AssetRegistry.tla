---------------------------- MODULE AssetRegistry ----------------------------
(* The asset registry of the editor (asset_registry.cpp, importer.cpp): the    *)
(* assets it knows in memory, the imports it runs on the job manager, the      *)
(* changes of files it learns from a directory watcher, and the artifacts it   *)
(* announces to the resource registry.                                         *)
(*                                                                             *)
(* `main` is the thread that calls the registry: update() finalises finished   *)
(* imports, then handles the events of the watcher, and the resource registry  *)
(* reads the provider's events right after (app::update_registries).  Jobs     *)
(* finish, users change files and the process may crash between any two steps  *)
(* of it.  Files are those of AssetFiles.                                      *)
EXTENDS AssetFiles, SequencesExt

CONSTANTS
  UserOps,     \* what users do to files: "delete", "restore", "rename", "copy"
  MaxUserOps,  \* bound on them
  MaxSaves,    \* bound on calls of process() and save_asset()
  MaxCrashes   \* bound on crashes

ASSUME AssetRegistryAssumption ==
  UserOps \subseteq {"delete", "restore", "rename", "copy"}

VARIABLES
  files,      \* assetFileMap
  entries,    \* assets: the known ones, as a function
  artifacts,  \* artifactsMap: the process of every artifact, 0 when unknown
  imports,    \* currentImports
  main,       \* where update() is, and the import it finalises
  events,     \* what the watcher has not read yet
  batch,      \* what it has read and not handled yet
  queue,      \* m_events of the resource provider
  view,       \* what the resource registry believes of `artifacts`
  born,       \* number of assets created so far
  trash,      \* what users took away from each path
  userOps, saves, crashes,  \* the bounded counts
  raced       \* the paths that the registry may mistake for one another

memVars == <<files, entries, artifacts, imports, main, events, batch, queue, view>>
boundVars == <<born, trash, userOps, saves, crashes, raced>>
vars == <<diskVars, memVars, boundVars>>

Known == DOMAIN entries
NoArtifacts == [a \in Asset |-> [n \in Node |-> 0]]
Idle == [at |-> "idle"]

Init ==
  /\ DiskInit
  /\ files = [p \in Path |-> NoAsset]
  /\ entries = << >>
  /\ artifacts = NoArtifacts
  /\ imports = << >>
  /\ main = Idle
  /\ events = << >> /\ batch = << >>
  /\ queue = << >>
  /\ view = NoArtifacts
  /\ born = 0
  /\ trash = [p \in Path |-> NoAsset]
  /\ userOps = 0 /\ saves = 0 /\ crashes = 0
  /\ raced = {}

-----------------------------------------------------------------------------
(* Functions on what the registry knows. *)

Forget(a) == [b \in Known \ {a} |-> entries[b]]
Learn(a, e) == [b \in Known \cup {a} |-> IF b = a THEN e ELSE entries[b]]
SetBusy(a, busy) == [entries EXCEPT ![a].busy = busy]

Announce(kind, a, nodes) ==
  SetToSeq({[kind |-> kind, asset |-> a, node |-> n] : n \in nodes})

Renaming == \E e \in Range(batch \o events) : e.kind = "renamed"
Quiet == main.at = "idle" /\ imports = << >> /\ events = << >>

\* Where asset a is, on disk and for the registry.
Places(a) ==
  {p \in Path : metaAt[p] = a \/ files[p] = a \/ (a \in Known /\ entries[a].path = p)}

\* Asset a changes at path p while the registry has it elsewhere, or has not heard
\* of a rename yet: it may mistake the places of a and of what it has at p.
Race(a, p) ==
  raced \cup {p} \cup UNION {Places(b) : b \in {a} \cup {b \in Asset : p \in Places(b)}}
RaceIf(risky, a, p) == raced' = IF risky THEN Race(a, p) ELSE raced
Elsewhere(a, p) == Places(a) \ {p} # {}

-----------------------------------------------------------------------------
(* Requests, between updates. *)

\* push_import_process: an asset that is being processed gets no second one.
PushImport(a, p, nodes, reimport) ==
  IF reimport /\ entries[a].busy
  THEN UNCHANGED <<entries, imports>>
  ELSE /\ imports' = Append(imports,
            [asset |-> a, path |-> p, nodes |-> nodes, reimport |-> reimport,
             state |-> "running"])
       /\ entries' = IF reimport THEN SetBusy(a, TRUE) ELSE entries

\* import, create_asset: a fresh asset, known once its meta file is noticed.
Import ==
  /\ main.at = "idle"
  /\ born < MaxAssets
  /\ born' = born + 1
  /\ \E p \in Path, c \in Contents : PushImport(born + 1, p, c, FALSE)
  /\ UNCHANGED <<diskVars, files, artifacts, main, events, batch, queue, view, trash,
                 userOps, saves, crashes, raced>>

\* process: an asset that is not being processed is imported from its source.
Process(a) ==
  /\ main.at = "idle" /\ saves < MaxSaves
  /\ a \in Known /\ ~entries[a].busy /\ source[a] # {}
  /\ PushImport(a, entries[a].path, source[a], TRUE)
  /\ saves' = saves + 1
  /\ UNCHANGED <<diskVars, files, artifacts, main, events, batch, queue, view, born,
                 trash, userOps, crashes, raced>>

\* save_asset: the source is overwritten, then imported.
SaveAsset(a) ==
  /\ main.at = "idle" /\ saves < MaxSaves
  /\ a \in Known /\ source[a] # {}
  /\ \E c \in Contents \ {source[a]} :
       /\ SaveSource(a, c)
       /\ PushImport(a, entries[a].path, c, TRUE)
  /\ saves' = saves + 1
  /\ UNCHANGED <<files, artifacts, main, events, batch, queue, view, born, trash,
                 userOps, crashes, raced>>

\* The job of an import ends; it may have failed.  update looks at it once, so
\* that an end during an update is one before or after it.
JobEnds(k) ==
  /\ main.at = "idle"
  /\ imports[k].state = "running"
  /\ \E s \in {"succeeded", "failed"} : imports' = [imports EXCEPT ![k].state = s]
  /\ UNCHANGED <<diskVars, files, entries, artifacts, main, events, batch, queue, view,
                 boundVars>>

-----------------------------------------------------------------------------
(* update(): the imports whose job has ended. *)

\* A round of the frame with nothing to do is not worth a step.
UpdateBegin ==
  /\ main.at = "idle"
  /\ events # << >> \/ queue # << >> \/ \E i \in Range(imports) : i.state # "running"
  /\ main' = [at |-> "imports"]
  /\ UNCHANGED <<diskVars, files, entries, artifacts, imports, events, batch, queue, view,
                 boundVars>>

Ended(k) == main.at = "imports" /\ imports[k].state # "running"

\* Variant: a failed import does not clear isProcessing.
ImportFails_StaysBusy(k) ==
  LET i == imports[k] IN
  /\ Ended(k)
  /\ i.state = "failed" \/ (i.reimport /\ i.asset \notin Known)
  /\ imports' = RemoveAt(imports, k)
  /\ UNCHANGED <<diskVars, files, entries, artifacts, main, events, batch, queue, view, boundVars>>

\* The import failed, or its asset is gone: nothing is written.
ImportFails(k) ==
  LET i == imports[k] IN
  /\ Ended(k)
  /\ i.state = "failed" \/ (i.reimport /\ i.asset \notin Known)
  /\ imports' = RemoveAt(imports, k)
  /\ entries' = IF i.reimport /\ i.asset \in Known THEN SetBusy(i.asset, FALSE) ELSE entries
  /\ UNCHANGED <<diskVars, files, artifacts, main, events, batch, queue, view, boundVars>>

\* A reimport is written where its asset is now.
FinalizeBegin(k) ==
  LET i == imports[k] IN
  /\ Ended(k)
  /\ i.state = "succeeded" /\ (i.reimport => i.asset \in Known)
  /\ imports' = RemoveAt(imports, k)
  /\ entries' = IF i.reimport THEN SetBusy(i.asset, FALSE) ELSE entries
  /\ main' = [at |-> "artifacts",
              import |-> IF i.reimport THEN [i EXCEPT !.path = entries[i.asset].path] ELSE i]
  /\ UNCHANGED <<diskVars, files, artifacts, events, batch, queue, view, boundVars>>

\* Artifacts that cannot be saved are skipped.
FinalizeArtifacts ==
  /\ main.at = "artifacts"
  /\ \E nodes \in SUBSET main.import.nodes : SaveArtifacts(main.import.asset, nodes)
  /\ main' = [main EXCEPT !.at = "process"]
  /\ UNCHANGED <<files, entries, artifacts, imports, events, batch, queue, view, boundVars>>

FinalizeProcess ==
  /\ main.at = "process"
  /\ SaveProcessInfo(main.import.asset, Len(builds))
  /\ main' = [main EXCEPT !.at = "meta"]
  /\ UNCHANGED <<files, entries, artifacts, imports, events, batch, queue, view, boundVars>>

\* A new file shows up, and a written one is modified.
FileWritten(p) ==
  (IF metaAt[p] = NoAsset THEN <<[kind |-> "added", path |-> p]>> ELSE << >>)
     \o <<[kind |-> "modified", path |-> p]>>

FinalizeMeta ==
  LET i == main.import IN
  /\ main.at = "meta"
  /\ SaveMeta(i.path, i.asset, i.reimport)
  /\ events' = IF MayWriteMeta(i.path, i.reimport) THEN events \o FileWritten(i.path) ELSE events
  /\ main' = [main EXCEPT !.at = "sources"]
  /\ RaceIf(MayWriteMeta(i.path, i.reimport) /\ (Renaming \/ Elsewhere(i.asset, i.path)),
            i.asset, i.path)
  /\ UNCHANGED <<files, entries, artifacts, imports, batch, queue, view, born, trash,
                 userOps, saves, crashes>>

FinalizeSources ==
  /\ main.at = "sources"
  /\ WriteSourceFiles(main.import.asset, main.import.nodes)
  /\ main' = [at |-> "imports"]
  /\ UNCHANGED <<files, entries, artifacts, imports, events, batch, queue, view, boundVars>>

\* try_wait has said no for all that is left; the watcher reads its events.
ReadEvents ==
  /\ main.at = "imports"
  /\ \A i \in Range(imports) : i.state = "running"
  /\ batch' = events /\ events' = << >>
  /\ main' = [at |-> "events"]
  /\ UNCHANGED <<diskVars, files, entries, artifacts, imports, queue, view, boundVars>>

-----------------------------------------------------------------------------
(* update(): the events of the watcher.  An event names a path; what the file   *)
(* holds is read when the event is handled.                                     *)

Handle(kind) ==
  /\ main.at = "events" /\ batch # << >> /\ Head(batch).kind = kind
  /\ batch' = Tail(batch)
  /\ UNCHANGED <<diskVars, imports, main, events, view, boundVars>>

\* on_new_asset_discovered: artifacts without a meta file are left out.
Discovered(a) == IF proc[a] = 0 THEN {} ELSE OnDisk(proc[a])
AddArtifacts(a, nodes) ==
  /\ artifacts' = [artifacts EXCEPT ![a] =
       [n \in Node |-> IF n \in nodes /\ @[n] = 0 THEN proc[a] ELSE @[n]]]
  /\ queue' = queue \o Announce("add", a, nodes)

FileAdded ==
  LET p == Head(batch).path  a == metaAt[p]
      inserted == IF files[p] = NoAsset THEN a ELSE files[p] IN
  /\ Handle("added")
  /\ \/ a = NoAsset /\ UNCHANGED <<files, entries, artifacts, queue>>
     \/ /\ a \in Known
        /\ files' = [files EXCEPT ![p] = inserted]
        /\ UNCHANGED <<entries, artifacts, queue>>
     \/ /\ a \in Asset \ Known /\ proc[a] = 0
        /\ files' = [files EXCEPT ![p] = NoAsset]
        /\ UNCHANGED <<entries, artifacts, queue>>
     \/ /\ a \in Asset \ Known /\ proc[a] # 0
        /\ files' = [files EXCEPT ![p] = inserted]
        /\ entries' = Learn(a, [path |-> p, nodes |-> Discovered(a), busy |-> FALSE])
        /\ AddArtifacts(a, Discovered(a))

\* Variant: the resource provider is not told.
FileRemoved_NotAnnounced ==
  LET p == Head(batch).path  a == files[p] IN
  /\ Handle("removed")
  /\ files' = [files EXCEPT ![p] = NoAsset]
  /\ IF a \in Known
     THEN /\ entries' = Forget(a)
          /\ artifacts' = [artifacts EXCEPT ![a] = [n \in Node |->
               IF n \in entries[a].nodes THEN 0 ELSE @[n]]]
     ELSE UNCHANGED <<entries, artifacts>>
  /\ UNCHANGED queue

FileRemoved ==
  LET p == Head(batch).path  a == files[p] IN
  /\ Handle("removed")
  /\ files' = [files EXCEPT ![p] = NoAsset]
  /\ IF a \in Known
     THEN /\ entries' = Forget(a)
          /\ artifacts' = [artifacts EXCEPT ![a] = [n \in Node |->
               IF n \in entries[a].nodes THEN 0 ELSE @[n]]]
          /\ queue' = queue \o Announce("remove", a, entries[a].nodes)
     ELSE UNCHANGED <<entries, artifacts, queue>>

\* Variant: the map of files follows the rename, the entry does not.
FileRenamed_PathKept ==
  LET q == Head(batch).path  a == metaAt[q] IN
  /\ Handle("renamed")
  /\ IF a \in Known
     THEN LET old == entries[a].path  left == [files EXCEPT ![old] = NoAsset] IN
          files' = IF files[old] # NoAsset /\ left[q] = NoAsset
                   THEN [left EXCEPT ![q] = a] ELSE left
     ELSE UNCHANGED files
  /\ UNCHANGED <<entries, artifacts, queue>>

\* handle_asset_rename: the entry's file is moved to the new path in the map,
\* and dropped when the map has a file there.
FileRenamed ==
  LET q == Head(batch).path  a == metaAt[q] IN
  /\ Handle("renamed")
  /\ IF a \in Known
     THEN LET old == entries[a].path  left == [files EXCEPT ![old] = NoAsset] IN
          /\ files' = IF files[old] # NoAsset /\ left[q] = NoAsset
                      THEN [left EXCEPT ![q] = a] ELSE left
          /\ entries' = [entries EXCEPT ![a].path = q]
     ELSE UNCHANGED <<files, entries>>
  /\ UNCHANGED <<artifacts, queue>>

\* Variant: the entry keeps its list of artifacts.
FileModified_EntryKept ==
  LET p == Head(batch).path  a == metaAt[p] IN
  /\ Handle("modified")
  /\ IF a \in Known /\ files[p] # NoAsset /\ proc[a] # 0
     THEN LET k == proc[a]  old == entries[a].nodes  new == builds[k].nodes
              added == (new \ old) \cap OnDisk(k) IN
          /\ artifacts' = [artifacts EXCEPT ![a] = [n \in Node |->
               IF n \in old \ new THEN 0
               ELSE IF n \in added \/ (n \in old \cap new /\ @[n] # 0) THEN k ELSE @[n]]]
          /\ queue' = queue \o Announce("remove", a, old \ new)
                           \o Announce("add", a, added)
                           \o Announce("update", a, old \cap new)
     ELSE UNCHANGED <<artifacts, queue>>
  /\ UNCHANGED <<files, entries>>

\* The artifacts of the last process replace those of the entry: those that are
\* gone are removed, new ones added, and the common ones modified.
FileModified ==
  LET p == Head(batch).path  a == metaAt[p] IN
  /\ Handle("modified")
  /\ IF a \in Known /\ files[p] # NoAsset /\ proc[a] # 0
     THEN LET k == proc[a]  old == entries[a].nodes  new == builds[k].nodes
              added == (new \ old) \cap OnDisk(k) IN
          /\ artifacts' = [artifacts EXCEPT ![a] = [n \in Node |->
               IF n \in old \ new THEN 0
               ELSE IF n \in added \/ (n \in old \cap new /\ @[n] # 0) THEN k ELSE @[n]]]
          /\ queue' = queue \o Announce("remove", a, old \ new)
                           \o Announce("add", a, added)
                           \o Announce("update", a, old \cap new)
          /\ entries' = [entries EXCEPT ![a].nodes = new]
     ELSE UNCHANGED <<artifacts, queue, entries>>
  /\ UNCHANGED files

-----------------------------------------------------------------------------
(* The resource registry reads the provider's events: an artifact that is not   *)
(* in the map any more is skipped, and its path is the current one.             *)

Follow(v, e) ==
  LET k == artifacts[e.asset][e.node]  seen == v[e.asset][e.node] IN
  [v EXCEPT ![e.asset][e.node] =
     CASE e.kind = "add" -> IF seen = 0 THEN k ELSE seen
       [] e.kind = "remove" -> 0
       [] e.kind = "update" -> IF seen # 0 /\ k # 0 THEN k ELSE seen]

\* What the resource registry believes after each event of q.
Followed(v, q) ==
  LET seen[i \in 0..Len(q)] == IF i = 0 THEN v ELSE Follow(seen[i - 1], q[i])
  IN seen

ResourceUpdate ==
  /\ main.at = "events" /\ batch = << >>
  /\ view' = Followed(view, queue)[Len(queue)]
  /\ queue' = << >>
  /\ main' = Idle
  /\ UNCHANGED <<diskVars, files, entries, artifacts, imports, events, batch, boundVars>>

-----------------------------------------------------------------------------
(* Users, at any time.  The steps of finalize but the one that writes the meta  *)
(* file have nothing in common with what users do: a change while one of them   *)
(* runs is one before or after all of them.                                     *)

User(op) ==
  /\ op \in UserOps /\ userOps < MaxUserOps
  /\ main.at \in {"idle", "imports", "events", "off"}
  /\ userOps' = userOps + 1
  /\ UNCHANGED <<proc, builds, dirs, source, files, entries, artifacts, imports, main,
                 batch, queue, view, born, saves, crashes>>

\* Nobody watches while the program is not running.
Notify(seen) == events' = IF main.at = "off" THEN events ELSE events \o seen

Delete(p) ==
  /\ User("delete")
  /\ metaAt[p] # NoAsset
  /\ metaAt' = [metaAt EXCEPT ![p] = NoAsset]
  /\ trash' = [trash EXCEPT ![p] = metaAt[p]]
  /\ Notify(<<[kind |-> "removed", path |-> p]>>)
  /\ RaceIf(Renaming, metaAt[p], p)

Restore(p) ==
  /\ User("restore")
  /\ metaAt[p] = NoAsset /\ trash[p] # NoAsset
  /\ metaAt' = [metaAt EXCEPT ![p] = trash[p]]
  /\ trash' = [trash EXCEPT ![p] = NoAsset]
  /\ Notify(<<[kind |-> "added", path |-> p]>>)
  /\ RaceIf(Renaming \/ Elsewhere(trash[p], p), trash[p], p)

Rename(p, q) ==
  /\ User("rename")
  /\ metaAt[p] # NoAsset /\ metaAt[q] = NoAsset
  /\ metaAt' = [metaAt EXCEPT ![p] = NoAsset, ![q] = metaAt[p]]
  /\ Notify(<<[kind |-> "renamed", path |-> q]>>)
  /\ RaceIf(~Quiet \/ {p, q} \cap raced # {}, metaAt[p], q)
  /\ UNCHANGED trash

Copy(p, q) ==
  /\ User("copy")
  /\ metaAt[p] # NoAsset /\ metaAt[q] = NoAsset
  /\ metaAt' = [metaAt EXCEPT ![q] = metaAt[p]]
  /\ Notify(FileWritten(q))
  /\ RaceIf(TRUE, metaAt[p], q)
  /\ UNCHANGED trash

-----------------------------------------------------------------------------
(* A crash, and the next start: initialize, discover_assets with reprocess_dirty *)
(* and garbage_collect, and initialize_resource_provider.                        *)

Crash ==
  /\ crashes < MaxCrashes /\ main.at # "off"
  /\ crashes' = crashes + 1
  /\ main' = [at |-> "off"]
  /\ files' = [p \in Path |-> NoAsset]
  /\ entries' = << >>
  /\ artifacts' = NoArtifacts
  /\ imports' = << >>
  /\ events' = << >> /\ batch' = << >> /\ queue' = << >>
  /\ view' = NoArtifacts
  /\ UNCHANGED <<diskVars, born, trash, userOps, saves, raced>>

\* Assets that miss their process information, or artifacts of it, and that have
\* a source are imported again.
Dirty(a) == proc[a] = 0 \/ Discovered(a) # builds[proc[a]].nodes

Discover ==
  LET found == Range(metaAt) \ {NoAsset}
      paths(a) == {p \in Path : metaAt[p] = a}
      again == {a \in found : Dirty(a) /\ source[a] # {}} IN
  /\ main.at = "off"
  /\ files' = metaAt
  /\ \E path \in [found -> Path] :
       /\ \A a \in found : path[a] \in paths(a)
       /\ entries' = [a \in found |->
            [path |-> path[a], nodes |-> Discovered(a), busy |-> a \in again]]
       /\ imports' = SetToSeq({[asset |-> a, path |-> path[a], nodes |-> source[a],
                                reimport |-> TRUE, state |-> "running"] : a \in again})
  /\ artifacts' = [a \in Asset |-> [n \in Node |->
       IF a \in found /\ n \in Discovered(a) THEN proc[a] ELSE 0]]
  /\ queue' = SetToSeq({e \in [kind : {"add"}, asset : found, node : Node] :
                          e.node \in Discovered(e.asset)})
  /\ Collect(found)
  /\ main' = Idle
  /\ raced' = {p \in Path : metaAt[p] \in found /\ paths(metaAt[p]) # {p}}
  /\ UNCHANGED <<events, batch, view, born, trash, userOps, saves, crashes>>

-----------------------------------------------------------------------------
Update ==
  \/ UpdateBegin \/ ReadEvents
  \/ \E k \in DOMAIN imports : ImportFails(k) \/ FinalizeBegin(k)
  \/ FinalizeArtifacts \/ FinalizeProcess \/ FinalizeMeta \/ FinalizeSources
  \/ FileAdded \/ FileRemoved \/ FileRenamed \/ FileModified
  \/ ResourceUpdate

Requests == Import \/ (\E a \in Asset : Process(a) \/ SaveAsset(a))

Users ==
  \E p, q \in Path : Delete(p) \/ Restore(p) \/ Rename(p, q) \/ Copy(p, q)

Next ==
  \/ Update \/ Requests \/ Users \/ Crash \/ Discover
  \/ \E k \in DOMAIN imports : JobEnds(k)

Spec == Init /\ [][Next]_vars

-----------------------------------------------------------------------------
(* Types. *)
TypeOK ==
  /\ DiskTypeOK
  /\ files \in [Path -> Asset \cup {NoAsset}]
  /\ \A a \in Known : a \in Asset /\ entries[a].path \in Path /\ entries[a].nodes \subseteq Node
  /\ artifacts \in [Asset -> [Node -> 0..Len(builds)]]
  /\ view \in [Asset -> [Node -> 0..Len(builds)]]
  /\ raced \subseteq Path

\* A path handed out for an artifact (get_artifact_path, the resource events) is
\* that of a file an import of the same asset has written and nobody collected,
\* whatever reimports, restarts and collections happened since.
ArtifactsOnDisk ==
  \A a \in Asset, n \in Node : artifacts[a][n] # 0 =>
    n \in OnDisk(artifacts[a][n]) /\ builds[artifacts[a][n]].asset = a

\* artifactsMap holds exactly the artifacts of the entries: on_artifact_added
\* never meets an artifact that is already there, and on_artifact_removed
\* never misses one (the assertions at asset_registry.cpp:692 and :705), and no
\* artifact outlives its asset.
MapFollowsEntries ==
  \A a \in Asset :
    {n \in Node : artifacts[a][n] # 0} = IF a \in Known THEN entries[a].nodes ELSE {}

\* Once the events of the files have been handled, the registry knows the assets
\* that have a meta file and process information, where they are, and the
\* artifacts of their last process, whatever was imported, deleted and restored
\* meanwhile.  Renames and copies must not have met other work where the asset is.
MirrorsDisk ==
  Quiet => \A a \in {b \in Asset : Places(b) \cap raced = {}} :
    /\ a \in Known => metaAt[entries[a].path] = a
    /\ a \in Known /\ proc[a] # 0 => \A n \in Node :
         artifacts[a][n] = IF n \in OnDisk(proc[a]) THEN proc[a] ELSE 0
    /\ proc[a] # 0 /\ a \in Range(metaAt) => a \in Known

\* After each frame the resource registry has exactly the artifacts of the map, at
\* their current paths, although it reads the events of several updates of the
\* same artifact later than they were pushed, with the map of that moment.
ResourcesFollow == queue = << >> => view = artifacts

\* An import that ends, well or not, leaves its asset ready for the next one: an
\* asset is in processing, where process() refuses it and save_asset() does not
\* import what it saves, only as long as one of its imports is in the list.
BusyIsImported ==
  \A a \in Known : entries[a].busy =>
    \E i \in Range(imports) : i.asset = a /\ i.reimport
=============================================================================
