-------------------------- MODULE AssetRegistryProofs --------------------------
(* The invariants of AssetRegistry: IInv (the artifacts the registry hands out  *)
(* are on disk, its map follows its entries, and an asset in processing has an  *)
(* import), ViewInv (the resource registry can follow the map), and BirthInv    *)
(* with MirrorInv (the registry keeps up with the files).                       *)
EXTENDS AssetRegistryInv, FiniteSetTheorems, WellFoundedInduction, TLAPS

-----------------------------------------------------------------------------
(* Sequences. *)

LEMMA Elements ==
  ASSUME NEW S, NEW s \in Seq(S)
  PROVE  Len(s) \in Nat /\ DOMAIN s = 1..Len(s) /\ \A i \in DOMAIN s : s[i] \in S
  OBVIOUS

LEMMA Appended ==
  ASSUME NEW S, NEW s \in Seq(S), NEW x \in S
  PROVE  /\ Append(s, x) \in Seq(S)
         /\ Len(Append(s, x)) = Len(s) + 1
         /\ DOMAIN Append(s, x) = 1..(Len(s) + 1)
         /\ \A i \in DOMAIN s : i \in DOMAIN Append(s, x) /\ Append(s, x)[i] = s[i]
         /\ Append(s, x)[Len(s) + 1] = x
         /\ Range(s) \subseteq Range(Append(s, x)) /\ x \in Range(Append(s, x))
  <1>1. /\ Append(s, x) \in Seq(S)
        /\ Len(Append(s, x)) = Len(s) + 1
        /\ Len(s) \in Nat
        /\ DOMAIN Append(s, x) = 1..(Len(s) + 1) /\ DOMAIN s = 1..Len(s)
    OBVIOUS
  <1>2. /\ \A i \in DOMAIN s : i \in DOMAIN Append(s, x) /\ Append(s, x)[i] = s[i]
        /\ Append(s, x)[Len(s) + 1] = x /\ Len(s) + 1 \in DOMAIN Append(s, x)
    BY <1>1
  <1> DEFINE a == Append(s, x)
  <1>. HIDE DEF a
  <1>3. Range(s) \subseteq Range(a) /\ x \in Range(a)
    BY <1>2 DEF Range, a
  <1>. QED BY <1>1, <1>2, <1>3 DEF a

LEMMA Joined ==
  ASSUME NEW S, NEW p \in Seq(S), NEW q \in Seq(S)
  PROVE  /\ p \o q \in Seq(S) /\ Len(p \o q) = Len(p) + Len(q) /\ DOMAIN (p \o q) = 1..(Len(p) + Len(q))
         /\ \A i \in 1..Len(p) : (p \o q)[i] = p[i]
         /\ \A i \in 1..Len(q) : (p \o q)[Len(p) + i] = q[i]
  OBVIOUS

\* What is left when the k-th element is removed.
LEMMA Removed ==
  ASSUME NEW S, NEW s \in Seq(S), NEW k \in DOMAIN s
  PROVE  /\ RemoveAt(s, k) \in Seq(S)
         /\ \A i \in DOMAIN s : i # k => s[i] \in Range(RemoveAt(s, k))
  <1>1. Len(s) \in Nat /\ k \in 1..Len(s) /\ DOMAIN s = 1..Len(s)
    OBVIOUS
  <1> DEFINE p == SubSeq(s, 1, k - 1)
             q == SubSeq(s, k + 1, Len(s))
  <1>2. /\ p \in Seq(S) /\ Len(p) = k - 1
        /\ \A i \in 1..(k - 1) : p[i] = s[i]
    BY <1>1
  <1>3. /\ q \in Seq(S) /\ Len(q) = Len(s) - k
        /\ \A i \in 1..(Len(s) - k) : q[i] = s[k + i]
    BY <1>1
  <1> DEFINE r == p \o q
  <1>4. /\ r \in Seq(S) /\ Len(r) = Len(s) - 1 /\ DOMAIN r = 1..(Len(s) - 1)
        /\ \A i \in 1..(k - 1) : r[i] = p[i]
        /\ \A i \in 1..(Len(s) - k) : r[k - 1 + i] = q[i]
    <2>. HIDE DEF p, q
    <2>1. Len(p) + Len(q) = Len(s) - 1
      BY <1>1, <1>2, <1>3
    <2>2. /\ r \in Seq(S) /\ Len(r) = Len(p) + Len(q) /\ DOMAIN r = 1..(Len(p) + Len(q))
          /\ \A i \in 1..Len(p) : r[i] = p[i]
          /\ \A i \in 1..Len(q) : r[Len(p) + i] = q[i]
      <3>1. p \in Seq(S) /\ q \in Seq(S)
        BY <1>2, <1>3
      <3>. HIDE DEF p, q
      <3>. QED BY <3>1, Joined
    <2>. HIDE DEF r
    <2>. QED BY <1>2, <1>3, <2>1, <2>2
  <1>5. RemoveAt(s, k) = r
    BY DEF RemoveAt
  <1>. HIDE DEF p, q, r
  <1>6. ASSUME NEW i \in DOMAIN s, i # k
        PROVE  s[i] \in Range(r)
    <2>1. CASE i < k
      <3>1. i \in 1..(k - 1) /\ i \in DOMAIN r
        BY <1>1, <1>4, <2>1
      <3>2. r[i] = s[i]
        BY <1>2, <1>4, <3>1
      <3>. QED BY <3>1, <3>2 DEF Range
    <2>2. CASE i > k
      <3>1. /\ i - k \in 1..(Len(s) - k) /\ i - 1 \in 1..(Len(s) - 1)
            /\ k - 1 + (i - k) = i - 1 /\ k + (i - k) = i
        BY <1>1, <2>2
      <3>2. i - 1 \in DOMAIN r /\ r[k - 1 + (i - k)] = s[k + (i - k)]
        BY <1>3, <1>4, <3>1
      <3>. QED BY <3>1, <3>2 DEF Range
    <2>. QED BY <1>1, <1>6, <2>1, <2>2
  <1>. QED BY <1>4, <1>5, <1>6

LEMMA Tailed ==
  ASSUME NEW S, NEW s \in Seq(S), s # <<>>
  PROVE  Tail(s) \in Seq(S) /\ Head(s) \in S
  OBVIOUS

\* SetToSeq lists a finite set.
LEMMA Listed ==
  ASSUME NEW S, IsFiniteSet(S)
  PROVE  /\ SetToSeq(S) \in Seq(S) /\ Range(SetToSeq(S)) = S
         /\ IsInjective(SetToSeq(S))
  <1>1. Cardinality(S) \in Nat /\ ExistsBijection(1..Cardinality(S), S)
    BY FS_CardinalityType
  <1>2. \E f \in [1..Cardinality(S) -> S] : IsInjective(f)
    BY <1>1 DEF ExistsBijection, Bijection, Injection, IsInjective
  <1> DEFINE s == SetToSeq(S)
  <1>3. s \in [1..Cardinality(S) -> S] /\ IsInjective(s)
    BY <1>2 DEF SetToSeq
  <1>. HIDE DEF s
  <1>4. s \in Seq(S)
    BY <1>1, <1>3
  <1>5. Range(s) = S
    <2>1. Range(s) \subseteq S
      BY <1>3 DEF Range
    <2>2. s \in Bijection(1..Cardinality(S), Range(s))
      BY <1>3 DEF Bijection, Injection, Surjection, IsInjective, Range
    <2>3. ExistsBijection(1..Cardinality(S), Range(s))
      BY <2>2 DEF ExistsBijection
    <2>4. Cardinality(Range(s)) = Cardinality(S)
      BY <1>1, <2>3, FS_CountingElements
    <2>. QED BY <2>1, <2>4, FS_Subset
  <1>. QED BY <1>3, <1>4, <1>5 DEF s

-----------------------------------------------------------------------------
(* Requests, and the ends of jobs. *)

\* A step that changes neither processes, nor entries, nor artifacts, nor imports.
LEMMA Kept ==
  ASSUME IInv, DiskTypes', MemTypes',
         UNCHANGED <<proc, builds, dirs, entries, artifacts, imports>>,
         main'.at = "process" => main' = main
  PROVE  IInv'
  <1>1. \A k : OnDisk(k)' = OnDisk(k)
    BY DEF OnDisk
  <1>2. ProcessesKept'
    BY DEF IInv, ProcessesKept
  <1>3. ArtifactsOnDisk' /\ MapFollowsEntries' /\ BusyIsImported'
    BY <1>1 DEF IInv, ArtifactsOnDisk, MapFollowsEntries, BusyIsImported, Known
  <1>. QED BY <1>2, <1>3 DEF IInv

LEMMA BusySet ==
  ASSUME MemTypes, NEW a \in Known, NEW busy \in BOOLEAN, entries' = SetBusy(a, busy)
  PROVE  /\ Known' = Known /\ entries' \in [Known -> Entry]
         /\ \A b \in Known : entries'[b].nodes = entries[b].nodes /\ entries'[b].path = entries[b].path
         /\ \A b \in Known : entries'[b].busy = IF b = a THEN busy ELSE entries[b].busy
  <1>1. entries \in [Known -> Entry] /\ entries[a] \in Entry
    BY DEF MemTypes
  <1> DEFINE e == [entries[a] EXCEPT !.busy = busy]
  <1>2. e \in Entry /\ e.nodes = entries[a].nodes /\ e.path = entries[a].path /\ e.busy = busy
    BY <1>1 DEF Entry
  <1>3. entries' = [entries EXCEPT ![a] = e]
    BY DEF SetBusy
  <1>. HIDE DEF e
  <1>4. Known' = Known
    BY <1>1, <1>3 DEF Known
  <1>. QED BY <1>1, <1>2, <1>3, <1>4

LEMMA Pushed ==
  ASSUME MemTypes, MapFollowsEntries, BusyIsImported,
         NEW a \in Asset, NEW p \in Path, NEW nodes \in SUBSET Node, NEW reimport \in BOOLEAN,
         reimport => a \in Known,
         PushImport(a, p, nodes, reimport), UNCHANGED artifacts
  PROVE  /\ imports' \in Seq(ImportJob)
         /\ Known' = Known /\ entries' \in [Known -> Entry]
         /\ MapFollowsEntries' /\ BusyIsImported'
  <1>1. imports \in Seq(ImportJob) /\ entries \in [Known -> Entry]
    BY DEF MemTypes
  <1>2. CASE reimport /\ entries[a].busy
    <2>1. UNCHANGED <<entries, imports>>
      BY <1>2 DEF PushImport
    <2>. QED BY <1>1, <2>1 DEF MapFollowsEntries, BusyIsImported, Known
  <1>3. CASE ~ (reimport /\ entries[a].busy)
    <2> DEFINE job == [asset |-> a, path |-> p, nodes |-> nodes, reimport |-> reimport, state |-> "running"]
    <2>1. imports' = Append(imports, job) /\ entries' = IF reimport THEN SetBusy(a, TRUE) ELSE entries
      BY <1>3 DEF PushImport
    <2>2. job \in ImportJob /\ job.asset = a /\ job.reimport = reimport
      BY DEF ImportJob
    <2>. HIDE DEF job
    <2>3. imports' \in Seq(ImportJob) /\ Range(imports) \subseteq Range(imports') /\ job \in Range(imports')
      BY <1>1, <2>1, <2>2, Appended
    <2>4. CASE reimport
      <3>1. entries' = SetBusy(a, TRUE) /\ a \in Known
        BY <2>1, <2>4
      <3>2. /\ Known' = Known /\ entries' \in [Known -> Entry]
            /\ \A b \in Known : entries'[b].nodes = entries[b].nodes
            /\ \A b \in Known : entries'[b].busy = IF b = a THEN TRUE ELSE entries[b].busy
        BY <3>1, BusySet
      <3>3. MapFollowsEntries'
        BY <3>2 DEF MapFollowsEntries
      <3>4. BusyIsImported'
        BY <2>2, <2>3, <2>4, <3>2 DEF BusyIsImported
      <3>. QED BY <2>3, <3>2, <3>3, <3>4
    <2>5. CASE ~reimport
      <3>1. entries' = entries /\ Known' = Known
        BY <2>1, <2>5 DEF Known
      <3>2. MapFollowsEntries'
        BY <3>1 DEF MapFollowsEntries
      <3>3. BusyIsImported'
        BY <2>3, <3>1 DEF BusyIsImported
      <3>. QED BY <1>1, <2>3, <3>1, <3>2, <3>3
    <2>. QED BY <2>4, <2>5
  <1>. QED BY <1>2, <1>3

\* A step that changes sources, imports and what is in processing.
LEMMA Requested ==
  ASSUME IInv, MemTypes', MapFollowsEntries', BusyIsImported', source' \in [Asset -> SUBSET Node],
         UNCHANGED <<metaAt, proc, builds, dirs, artifacts, main>>
  PROVE  IInv'
  <1>1. \A k : OnDisk(k)' = OnDisk(k)
    BY DEF OnDisk
  <1>2. DiskTypes' /\ ProcessesKept'
    BY DEF IInv, DiskTypes, ProcessesKept
  <1>3. ArtifactsOnDisk'
    BY <1>1 DEF IInv, ArtifactsOnDisk
  <1>. QED BY <1>2, <1>3 DEF IInv

LEMMA Imported ==
  ASSUME IInv, Import
  PROVE  IInv'
  <1>1. /\ born < MaxAssets /\ born' = born + 1
        /\ UNCHANGED <<diskVars, files, artifacts, main, events, batch, queue, view, trash,
                       userOps, saves, crashes, raced>>
    BY DEF Import
  <1>2. PICK p \in Path, c \in Contents : PushImport(born + 1, p, c, FALSE)
    BY DEF Import
  <1>3. MemTypes /\ MapFollowsEntries /\ BusyIsImported /\ DiskTypes
    BY DEF IInv
  <1>4. born + 1 \in Asset /\ born' \in 0..MaxAssets
    BY <1>1, <1>3, AssetFilesAssumption DEF MemTypes, Asset
  <1>5. c \subseteq Node
    BY DEF Node
  <1>6. /\ imports' \in Seq(ImportJob)
        /\ Known' = Known /\ entries' \in [Known -> Entry]
        /\ MapFollowsEntries' /\ BusyIsImported'
    BY <1>1, <1>2, <1>3, <1>4, <1>5, Pushed
  <1>7. MemTypes'
    BY <1>1, <1>3, <1>4, <1>6 DEF MemTypes
  <1>. QED BY <1>1, <1>3, <1>6, <1>7, Requested DEF diskVars, DiskTypes

LEMMA Processed ==
  ASSUME IInv, NEW a \in Asset, Process(a) \/ SaveAsset(a)
  PROVE  IInv'
  <1>1. MemTypes /\ MapFollowsEntries /\ BusyIsImported /\ DiskTypes
    BY DEF IInv
  <1>2. /\ a \in Known
        /\ UNCHANGED <<metaAt, proc, builds, dirs, files, artifacts, main, events, batch, queue, view, born, trash>>
    BY DEF Process, SaveAsset, SaveSource, diskVars
  <1>3. entries[a].path \in Path
    BY <1>1, <1>2 DEF MemTypes, Entry
  <1>4. \E nodes \in SUBSET Node :
          PushImport(a, entries[a].path, nodes, TRUE) /\ source' \in [Asset -> SUBSET Node]
    <2>1. CASE Process(a)
      BY <1>1, <2>1 DEF Process, diskVars, DiskTypes
    <2>2. CASE SaveAsset(a)
      <3>1. PICK c \in Contents : SaveSource(a, c) /\ PushImport(a, entries[a].path, c, TRUE)
        BY <2>2 DEF SaveAsset
      <3>2. c \subseteq Node
        BY DEF Node
      <3>. QED BY <1>1, <3>1, <3>2 DEF SaveSource, DiskTypes
    <2>. QED BY <2>1, <2>2
  <1>5. /\ imports' \in Seq(ImportJob)
        /\ Known' = Known /\ entries' \in [Known -> Entry]
        /\ MapFollowsEntries' /\ BusyIsImported'
    BY <1>1, <1>2, <1>3, <1>4, Pushed
  <1>6. MemTypes'
    BY <1>1, <1>2, <1>5 DEF MemTypes
  <1>. QED BY <1>1, <1>2, <1>4, <1>5, <1>6, Requested

LEMMA JobEnded ==
  ASSUME IInv, NEW k \in DOMAIN imports, JobEnds(k)
  PROVE  IInv'
  <1>1. MemTypes /\ MapFollowsEntries /\ BusyIsImported /\ DiskTypes
    BY DEF IInv
  <1>2. PICK s \in {"succeeded", "failed"} : imports' = [imports EXCEPT ![k].state = s]
    BY DEF JobEnds
  <1>3. UNCHANGED <<metaAt, proc, builds, dirs, source, files, entries, artifacts, main, events, batch, born, trash>>
    BY DEF JobEnds, diskVars, boundVars
  <1>4. imports \in Seq(ImportJob) /\ imports[k] \in ImportJob
    BY <1>1, Elements DEF MemTypes
  <1> DEFINE job == [imports[k] EXCEPT !.state = s]
  <1>5. job \in ImportJob /\ job.asset = imports[k].asset /\ job.reimport = imports[k].reimport
    BY <1>4 DEF ImportJob
  <1>6. imports' = [imports EXCEPT ![k] = job]
    BY <1>2
  <1>. HIDE DEF job
  <1>7. imports' \in Seq(ImportJob)
    BY <1>4, <1>5, <1>6
  <1>8. \A i \in DOMAIN imports : /\ i \in DOMAIN imports'
                                  /\ imports'[i].asset = imports[i].asset
                                  /\ imports'[i].reimport = imports[i].reimport
    BY <1>4, <1>5, <1>6
  <1>9. BusyIsImported'
    <2>1. ASSUME NEW a \in Known, entries[a].busy
          PROVE  \E i \in Range(imports') : i.asset = a /\ i.reimport
      <3>1. PICK i \in DOMAIN imports : imports[i].asset = a /\ imports[i].reimport
        BY <1>1, <2>1 DEF BusyIsImported, Range
      <3>. QED BY <1>8, <3>1 DEF Range
    <2>. QED BY <1>3, <2>1 DEF BusyIsImported, Known
  <1>10. MapFollowsEntries' /\ MemTypes'
    BY <1>1, <1>3, <1>7 DEF MapFollowsEntries, MemTypes, Known
  <1>. QED BY <1>1, <1>3, <1>9, <1>10, Requested DEF DiskTypes

-----------------------------------------------------------------------------
(* The end of an import. *)

\* An import leaves the list, and its asset is not in processing any more.
LEMMA ImportLeaves ==
  ASSUME MemTypes, MapFollowsEntries, BusyIsImported, NEW k \in DOMAIN imports,
         imports' = RemoveAt(imports, k),
         entries' = IF imports[k].reimport /\ imports[k].asset \in Known
                    THEN SetBusy(imports[k].asset, FALSE) ELSE entries,
         UNCHANGED artifacts
  PROVE  /\ imports' \in Seq(ImportJob) /\ imports[k] \in ImportJob
         /\ Known' = Known /\ entries' \in [Known -> Entry]
         /\ MapFollowsEntries' /\ BusyIsImported'
  <1>1. imports \in Seq(ImportJob) /\ entries \in [Known -> Entry]
    BY DEF MemTypes
  <1>2. /\ imports' \in Seq(ImportJob) /\ imports[k] \in ImportJob
        /\ \A i \in DOMAIN imports : i # k => imports[i] \in Range(imports')
    BY <1>1, Elements, Removed
  <1>3. ASSUME NEW a \in Known, entries[a].busy, ~ (imports[k].reimport /\ imports[k].asset = a)
        PROVE  \E i \in Range(imports') : i.asset = a /\ i.reimport
    <2>1. PICK i \in DOMAIN imports : imports[i].asset = a /\ imports[i].reimport
      BY <1>3 DEF BusyIsImported, Range
    <2>2. i # k
      BY <1>3, <2>1
    <2>. QED BY <1>2, <2>1, <2>2
  <1>4. CASE imports[k].reimport /\ imports[k].asset \in Known
    <2>1. /\ Known' = Known /\ entries' \in [Known -> Entry]
          /\ \A b \in Known : entries'[b].nodes = entries[b].nodes
          /\ \A b \in Known : entries'[b].busy = IF b = imports[k].asset THEN FALSE ELSE entries[b].busy
      BY <1>4, BusySet
    <2>2. MapFollowsEntries'
      BY <2>1 DEF MapFollowsEntries
    <2>3. BusyIsImported'
      BY <1>3, <2>1 DEF BusyIsImported
    <2>. QED BY <1>2, <2>1, <2>2, <2>3
  <1>5. CASE ~ (imports[k].reimport /\ imports[k].asset \in Known)
    <2>1. entries' = entries /\ Known' = Known
      BY <1>5 DEF Known
    <2>2. MapFollowsEntries'
      BY <2>1 DEF MapFollowsEntries
    <2>3. BusyIsImported'
      BY <1>3, <1>5, <2>1 DEF BusyIsImported
    <2>. QED BY <1>1, <1>2, <2>1, <2>2, <2>3
  <1>. QED BY <1>4, <1>5

LEMMA ImportFailed ==
  ASSUME IInv, NEW k \in DOMAIN imports, ImportFails(k)
  PROVE  IInv'
  <1>1. MemTypes /\ MapFollowsEntries /\ BusyIsImported /\ DiskTypes
    BY DEF IInv
  <1>2. /\ imports' = RemoveAt(imports, k)
        /\ entries' = IF imports[k].reimport /\ imports[k].asset \in Known
                      THEN SetBusy(imports[k].asset, FALSE) ELSE entries
        /\ UNCHANGED <<diskVars, files, artifacts, main, events, batch, queue, view, boundVars>>
    BY DEF ImportFails
  <1>3. /\ imports' \in Seq(ImportJob)
        /\ Known' = Known /\ entries' \in [Known -> Entry]
        /\ MapFollowsEntries' /\ BusyIsImported'
    BY <1>1, <1>2, ImportLeaves
  <1>4. MemTypes'
    BY <1>1, <1>2, <1>3 DEF MemTypes, boundVars
  <1>. QED BY <1>1, <1>2, <1>3, <1>4, Requested DEF diskVars, DiskTypes

LEMMA Begun ==
  ASSUME IInv, NEW k \in DOMAIN imports, FinalizeBegin(k)
  PROVE  IInv'
  <1> DEFINE i == imports[k]
  <1>1. MemTypes /\ MapFollowsEntries /\ BusyIsImported /\ DiskTypes
    BY DEF IInv
  <1>2. /\ i.reimport => i.asset \in Known
        /\ imports' = RemoveAt(imports, k)
        /\ entries' = IF i.reimport THEN SetBusy(i.asset, FALSE) ELSE entries
        /\ main' = [at |-> "artifacts",
                    import |-> IF i.reimport THEN [i EXCEPT !.path = entries[i.asset].path] ELSE i]
        /\ UNCHANGED <<diskVars, files, artifacts, events, batch, queue, view, boundVars>>
    BY DEF FinalizeBegin
  <1>3. /\ imports' \in Seq(ImportJob) /\ i \in ImportJob
        /\ Known' = Known /\ entries' \in [Known -> Entry]
        /\ MapFollowsEntries' /\ BusyIsImported'
    BY <1>1, <1>2, ImportLeaves
  <1>. HIDE DEF i
  <1>4. main' \in Finalizing
    <2>1. i.reimport => entries[i.asset].path \in Path
      BY <1>1, <1>2 DEF MemTypes, Entry
    <2>2. i.reimport => [i EXCEPT !.path = entries[i.asset].path] \in ImportJob
      BY <1>3, <2>1 DEF ImportJob
    <2>. QED BY <1>2, <1>3, <2>2 DEF Finalizing
  <1>5. MemTypes'
    BY <1>1, <1>2, <1>3, <1>4 DEF MemTypes, boundVars, Working
  <1>6. ProcessesKept'
    BY <1>2 DEF IInv, ProcessesKept, diskVars
  <1>7. ArtifactsOnDisk'
    BY <1>2 DEF IInv, ArtifactsOnDisk, OnDisk, diskVars
  <1>. QED BY <1>1, <1>2, <1>3, <1>5, <1>6, <1>7 DEF IInv, DiskTypes, diskVars

\* The import that is being finalized.
LEMMA Current ==
  ASSUME MemTypes, main.at \in {"artifacts", "process", "meta", "sources"}
  PROVE  /\ main \in Finalizing
         /\ main.import \in ImportJob /\ main.import.asset \in Asset
         /\ main.import.path \in Path /\ main.import.nodes \subseteq Node
         /\ main.import.reimport \in BOOLEAN
  <1>1. main \in Finalizing
    BY DEF MemTypes, Working
  <1>. QED BY <1>1 DEF Finalizing, ImportJob

LEMMA GoesOn ==
  ASSUME MemTypes, main \in Finalizing, NEW at \in {"artifacts", "process", "meta", "sources"},
         main' = [main EXCEPT !.at = at]
  PROVE  main' \in Working /\ main'.at = at /\ main'.import = main.import
  BY DEF Working, Finalizing

LEMMA ArtifactsSaved ==
  ASSUME IInv, FinalizeArtifacts
  PROVE  IInv'
  <1>1. MemTypes /\ DiskTypes
    BY DEF IInv
  <1>2. /\ main.at = "artifacts" /\ main' = [main EXCEPT !.at = "process"]
        /\ UNCHANGED <<files, entries, artifacts, imports, events, batch, queue, view, boundVars>>
    BY DEF FinalizeArtifacts
  <1>3. PICK nodes \in SUBSET main.import.nodes : SaveArtifacts(main.import.asset, nodes)
    BY DEF FinalizeArtifacts
  <1> DEFINE a == main.import.asset
             build == [asset |-> a, nodes |-> nodes]
  <1>4. a \in Asset /\ main.import.nodes \subseteq Node /\ main \in Finalizing
    BY <1>1, <1>2, Current
  <1>5. build \in [asset : Asset, nodes : SUBSET Node] /\ build.asset = a
    BY <1>3, <1>4
  <1>6. /\ builds' = Append(builds, build) /\ dirs' = dirs \cup {Len(builds) + 1}
        /\ UNCHANGED <<metaAt, proc, source>>
    BY <1>3 DEF SaveArtifacts
  <1>7. builds \in Seq([asset : Asset, nodes : SUBSET Node]) /\ Len(builds) \in Nat /\ DOMAIN builds = 1..Len(builds)
    BY <1>1 DEF DiskTypes
  <1>8. main' \in Working /\ main'.at = "process" /\ main'.import.asset = a
    BY <1>1, <1>2, <1>4, GoesOn
  <1>. HIDE DEF a, build
  <1>9. /\ builds' \in Seq([asset : Asset, nodes : SUBSET Node]) /\ Len(builds') = Len(builds) + 1
        /\ \A k \in 1..Len(builds) : builds'[k] = builds[k]
        /\ builds'[Len(builds) + 1] = build
    BY <1>5, <1>6, <1>7, Appended
  <1>10. DiskTypes'
    <2>1. dirs' \subseteq 1..Len(builds')
      <3>1. 1..Len(builds') = 1..Len(builds) \cup {Len(builds) + 1}
        BY <1>7, <1>9
      <3>. QED BY <1>1, <1>6, <3>1 DEF DiskTypes
    <2>2. proc' \in [Asset -> 0..Len(builds')]
      BY <1>1, <1>6, <1>7, <1>9 DEF DiskTypes
    <2>. QED BY <1>1, <1>6, <1>9, <2>1, <2>2 DEF DiskTypes
  <1>11. MemTypes'
    BY <1>1, <1>2, <1>8 DEF MemTypes, boundVars, Known
  <1>12. \A k \in dirs : k \in 1..Len(builds) /\ k \in dirs' /\ builds'[k] = builds[k]
    BY <1>1, <1>6, <1>9 DEF DiskTypes
  <1>13. ProcessesKept'
    <2>1. \A b \in Asset : proc'[b] # 0 => proc'[b] \in dirs' /\ builds'[proc'[b]].asset = b
      BY <1>6, <1>12 DEF IInv, ProcessesKept
    <2>2. Len(builds') \in dirs' /\ builds'[Len(builds')].asset = a
      BY <1>5, <1>6, <1>7, <1>9
    <2>. QED BY <1>8, <2>1, <2>2 DEF ProcessesKept
  <1>14. ArtifactsOnDisk'
    BY <1>2, <1>12 DEF IInv, ArtifactsOnDisk, OnDisk
  <1>15. MapFollowsEntries' /\ BusyIsImported'
    BY <1>2 DEF IInv, MapFollowsEntries, BusyIsImported, Known
  <1>. QED BY <1>10, <1>11, <1>13, <1>14, <1>15 DEF IInv

LEMMA ProcessSaved ==
  ASSUME IInv, FinalizeProcess
  PROVE  IInv'
  <1>1. MemTypes /\ DiskTypes
    BY DEF IInv
  <1>2. /\ main.at = "process" /\ main' = [main EXCEPT !.at = "meta"]
        /\ proc' = [proc EXCEPT ![main.import.asset] = Len(builds)]
        /\ UNCHANGED <<metaAt, builds, dirs, source>>
        /\ UNCHANGED <<files, entries, artifacts, imports, events, batch, queue, view, boundVars>>
    BY DEF FinalizeProcess, SaveProcessInfo
  <1>3. main.import.asset \in Asset /\ main \in Finalizing
    BY <1>1, <1>2, Current
  <1>4. main' \in Working /\ main'.at = "meta"
    BY <1>1, <1>2, <1>3, GoesOn
  <1>5. MemTypes'
    BY <1>1, <1>2, <1>4 DEF MemTypes, boundVars, Known
  <1>6. DiskTypes'
    <2>1. Len(builds) \in 0..Len(builds)
      BY <1>1 DEF DiskTypes
    <2>. QED BY <1>1, <1>2, <2>1 DEF DiskTypes
  <1>7. ProcessesKept'
    BY <1>1, <1>2, <1>3, <1>4 DEF IInv, ProcessesKept, DiskTypes
  <1>8. ArtifactsOnDisk'
    BY <1>2 DEF IInv, ArtifactsOnDisk, OnDisk
  <1>9. MapFollowsEntries' /\ BusyIsImported'
    BY <1>2 DEF IInv, MapFollowsEntries, BusyIsImported, Known
  <1>. QED BY <1>5, <1>6, <1>7, <1>8, <1>9 DEF IInv

LEMMA Noticed ==
  ASSUME NEW p \in Path
  PROVE  FileWritten(p) \in Seq(Event) /\ \A kind \in {"added", "removed", "renamed", "modified"} :
                                            <<[kind |-> kind, path |-> p]>> \in Seq(Event)
  <1>1. \A kind \in {"added", "removed", "renamed", "modified"} : [kind |-> kind, path |-> p] \in Event
    BY DEF Event
  <1>2. \A e \in Event : <<e>> \in Seq(Event)
    OBVIOUS
  <1>3. <<[kind |-> "added", path |-> p]>> \in Seq(Event) /\ <<[kind |-> "modified", path |-> p]>> \in Seq(Event)
    BY <1>1, <1>2
  <1>4. (IF metaAt[p] = NoAsset THEN <<[kind |-> "added", path |-> p]>> ELSE << >>) \in Seq(Event)
    BY <1>3
  <1>5. FileWritten(p) \in Seq(Event)
    BY <1>3, <1>4, Joined DEF FileWritten
  <1>. QED BY <1>1, <1>2, <1>5

LEMMA MetaSaved ==
  ASSUME IInv, FinalizeMeta
  PROVE  IInv'
  <1>1. MemTypes /\ DiskTypes
    BY DEF IInv
  <1>2. /\ main.at = "meta" /\ main' = [main EXCEPT !.at = "sources"]
        /\ SaveMeta(main.import.path, main.import.asset, main.import.reimport)
        /\ events' = IF MayWriteMeta(main.import.path, main.import.reimport)
                     THEN events \o FileWritten(main.import.path) ELSE events
        /\ UNCHANGED <<files, entries, artifacts, imports, batch, queue, view, born, trash>>
    BY DEF FinalizeMeta
  <1>3. main.import.asset \in Asset /\ main.import.path \in Path /\ main \in Finalizing
    BY <1>1, <1>2, Current
  <1>4. main' \in Working /\ main'.at = "sources"
    BY <1>1, <1>2, <1>3, GoesOn
  <1>5. events' \in Seq(Event)
    <2>1. FileWritten(main.import.path) \in Seq(Event)
      BY <1>3, Noticed
    <2>. QED BY <1>1, <1>2, <2>1, Joined DEF MemTypes
  <1>6. MemTypes'
    BY <1>1, <1>2, <1>4, <1>5 DEF MemTypes, Known
  <1>7. UNCHANGED <<proc, builds, dirs, source>> /\ metaAt' \in [Path -> Asset \cup {NoAsset}]
    BY <1>1, <1>2, <1>3 DEF SaveMeta, DiskTypes
  <1>8. DiskTypes'
    BY <1>1, <1>7 DEF DiskTypes
  <1>. QED BY <1>2, <1>4, <1>6, <1>7, <1>8, Kept

LEMMA SourcesWritten ==
  ASSUME IInv, FinalizeSources
  PROVE  IInv'
  <1>1. MemTypes /\ DiskTypes
    BY DEF IInv
  <1>2. /\ main.at = "sources" /\ main' = [at |-> "imports"]
        /\ WriteSourceFiles(main.import.asset, main.import.nodes)
        /\ UNCHANGED <<files, entries, artifacts, imports, events, batch, queue, view, boundVars>>
    BY DEF FinalizeSources
  <1>3. main.import.asset \in Asset /\ main.import.nodes \subseteq Node
    BY <1>1, <1>2, Current
  <1>4. UNCHANGED <<metaAt, proc, builds, dirs>> /\ source' \in [Asset -> SUBSET Node]
    BY <1>1, <1>2, <1>3 DEF WriteSourceFiles, DiskTypes
  <1>5. MemTypes'
    BY <1>1, <1>2 DEF MemTypes, boundVars, Known, Working
  <1>6. DiskTypes'
    BY <1>1, <1>4 DEF DiskTypes
  <1>. QED BY <1>2, <1>4, <1>5, <1>6, Kept

LEMMA UpdateBegun ==
  ASSUME IInv, UpdateBegin
  PROVE  IInv'
  <1>1. MemTypes /\ DiskTypes
    BY DEF IInv
  <1>2. /\ main' = [at |-> "imports"]
        /\ UNCHANGED <<diskVars, files, entries, artifacts, imports, events, batch, queue, view,
                       boundVars>>
    BY DEF UpdateBegin
  <1>3. MemTypes'
    BY <1>1, <1>2 DEF MemTypes, Working, boundVars, Known
  <1>4. DiskTypes'
    BY <1>1, <1>2 DEF DiskTypes, diskVars
  <1>. QED BY <1>2, <1>3, <1>4, Kept DEF diskVars

LEMMA EventsRead ==
  ASSUME IInv, ReadEvents
  PROVE  IInv'
  <1>1. MemTypes /\ DiskTypes
    BY DEF IInv
  <1>2. /\ main' = [at |-> "events"] /\ batch' = events /\ events' = << >>
        /\ UNCHANGED <<diskVars, files, entries, artifacts, imports, queue, view, boundVars>>
    BY DEF ReadEvents
  <1>3. MemTypes'
    BY <1>1, <1>2 DEF MemTypes, Working, boundVars, Known
  <1>4. DiskTypes'
    BY <1>1, <1>2 DEF DiskTypes, diskVars
  <1>. QED BY <1>2, <1>3, <1>4, Kept DEF diskVars

-----------------------------------------------------------------------------
(* The events of the watcher. *)

\* An event changes what is known of one asset, whose artifacts are then `row`.
LEMMA Handled ==
  ASSUME IInv, NEW kind, Handle(kind), NEW a \in Asset, NEW row \in [Node -> Nat],
         artifacts' = [artifacts EXCEPT ![a] = row],
         \A n \in Node : row[n] # 0 => n \in OnDisk(row[n]) /\ builds[row[n]].asset = a,
         {n \in Node : row[n] # 0} = IF a \in Known' THEN entries'[a].nodes ELSE {},
         files' \in [Path -> Asset \cup {NoAsset}],
         Known' \subseteq Asset, entries' \in [Known' -> Entry], Known' \ {a} = Known \ {a},
         \A b \in Known \ {a} : entries'[b] = entries[b],
         a \in Known' => entries'[a].busy = (a \in Known /\ entries[a].busy)
  PROVE  IInv'
  <1>1. MemTypes /\ DiskTypes
    BY DEF IInv
  <1>2. batch' = Tail(batch) /\ batch # << >> /\ UNCHANGED <<diskVars, imports, main, events, born, trash>>
    BY DEF Handle, boundVars
  <1>3. MemTypes'
    <2>1. artifacts' \in [Asset -> [Node -> Nat]]
      BY <1>1 DEF MemTypes
    <2>2. batch' \in Seq(Event)
      BY <1>1, <1>2, Tailed DEF MemTypes
    <2>. QED BY <1>1, <1>2, <2>1, <2>2 DEF MemTypes
  <1>4. DiskTypes' /\ ProcessesKept' /\ \A k : OnDisk(k)' = OnDisk(k)
    BY <1>2 DEF IInv, DiskTypes, ProcessesKept, diskVars, OnDisk
  <1>5. /\ artifacts \in [Asset -> [Node -> Nat]]
        /\ \A b \in Asset : artifacts'[b] = IF b = a THEN row ELSE artifacts[b]
    BY <1>1 DEF MemTypes
  <1>6. ArtifactsOnDisk'
    <2>1. builds' = builds
      BY <1>2 DEF diskVars
    <2>. QED BY <1>4, <1>5, <2>1 DEF IInv, ArtifactsOnDisk
  <1>7. MapFollowsEntries'
    <2>1. ASSUME NEW b \in Asset
          PROVE  {n \in Node : artifacts'[b][n] # 0} = IF b \in Known' THEN entries'[b].nodes ELSE {}
      <3>1. CASE b = a
        BY <1>5, <3>1
      <3>2. CASE b # a
        <4>1. artifacts'[b] = artifacts[b] /\ (b \in Known' <=> b \in Known)
              /\ (b \in Known => entries'[b] = entries[b])
          BY <1>5, <3>2
        <4>2. {n \in Node : artifacts[b][n] # 0} = IF b \in Known THEN entries[b].nodes ELSE {}
          BY DEF IInv, MapFollowsEntries
        <4>. QED BY <4>1, <4>2
      <3>. QED BY <3>1, <3>2
    <2>. QED BY <2>1 DEF MapFollowsEntries
  <1>8. BusyIsImported'
    BY <1>2 DEF IInv, BusyIsImported
  <1>. QED BY <1>3, <1>4, <1>6, <1>7, <1>8 DEF IInv

\* An event that changes no more than the map of files.
LEMMA HandledFiles ==
  ASSUME IInv, NEW kind, Handle(kind), files' \in [Path -> Asset \cup {NoAsset}],
         UNCHANGED <<entries, artifacts>>
  PROVE  IInv'
  <1>1. MemTypes /\ DiskTypes
    BY DEF IInv
  <1>2. batch' = Tail(batch) /\ batch # << >> /\ UNCHANGED <<diskVars, imports, main, events, born, trash>>
    BY DEF Handle, boundVars
  <1>3. MemTypes'
    <2>1. batch' \in Seq(Event)
      BY <1>1, <1>2, Tailed DEF MemTypes
    <2>. QED BY <1>1, <1>2, <2>1 DEF MemTypes, Known
  <1>4. DiskTypes'
    BY <1>1, <1>2 DEF DiskTypes, diskVars
  <1>. QED BY <1>2, <1>3, <1>4, Kept DEF diskVars

\* The path an event names, and what a path holds.
LEMMA Named ==
  ASSUME IInv, NEW kind, Handle(kind)
  PROVE  Head(batch).path \in Path
  <1>1. batch \in Seq(Event) /\ batch # << >>
    BY DEF IInv, MemTypes, Handle
  <1>2. Head(batch) \in Event
    BY <1>1, Tailed
  <1>. QED BY <1>2 DEF Event

\* What the process of an asset left on disk.
LEMMA ProcessOnDisk ==
  ASSUME IInv, NEW a \in Asset, proc[a] # 0
  PROVE  /\ proc[a] \in Nat /\ OnDisk(proc[a]) = builds[proc[a]].nodes
         /\ builds[proc[a]].asset = a /\ builds[proc[a]].nodes \subseteq Node
  <1>1. /\ proc[a] \in dirs /\ builds[proc[a]].asset = a
        /\ dirs \subseteq 1..Len(builds)
        /\ builds \in Seq([asset : Asset, nodes : SUBSET Node])
    BY DEF IInv, ProcessesKept, DiskTypes
  <1>2. builds[proc[a]] \in [asset : Asset, nodes : SUBSET Node] /\ proc[a] \in Nat
    <2> DEFINE build == [asset : Asset, nodes : SUBSET Node]
    <2>1. builds \in Seq(build)
      BY <1>1
    <2>. HIDE DEF build
    <2>2. Len(builds) \in Nat /\ DOMAIN builds = 1..Len(builds) /\ \A i \in DOMAIN builds : builds[i] \in build
      BY <2>1, Elements
    <2>3. proc[a] \in DOMAIN builds /\ proc[a] \in Nat
      <3>1. proc[a] \in 1..Len(builds)
        BY <1>1
      <3>. QED BY <2>2, <3>1
    <2>4. builds[proc[a]] \in build
      BY <2>2, <2>3
    <2>. QED BY <2>3, <2>4 DEF build
  <1>. QED BY <1>1, <1>2 DEF OnDisk

LEMMA Added ==
  ASSUME IInv, FileAdded
  PROVE  IInv'
  <1> DEFINE p == Head(batch).path
             a == metaAt[p]
             inserted == IF files[p] = NoAsset THEN a ELSE files[p]
  <1>1. MemTypes /\ DiskTypes /\ MapFollowsEntries
    BY DEF IInv
  <1>2. Handle("added")
    BY DEF FileAdded
  <1>3. p \in Path /\ a \in Asset \cup {NoAsset} /\ inserted \in Asset \cup {NoAsset}
    <2>1. p \in Path
      BY <1>2, Named
    <2>. QED BY <1>1, <2>1 DEF MemTypes, DiskTypes
  <1>4. \/ a = NoAsset /\ UNCHANGED <<files, entries, artifacts, queue>>
        \/ /\ a \in Known
           /\ files' = [files EXCEPT ![p] = inserted]
           /\ UNCHANGED <<entries, artifacts, queue>>
        \/ /\ a \in Asset \ Known /\ proc[a] = 0
           /\ files' = [files EXCEPT ![p] = NoAsset]
           /\ UNCHANGED <<entries, artifacts, queue>>
        \/ /\ a \in Asset \ Known /\ proc[a] # 0
           /\ files' = [files EXCEPT ![p] = inserted]
           /\ entries' = Learn(a, [path |-> p, nodes |-> Discovered(a), busy |-> FALSE])
           /\ AddArtifacts(a, Discovered(a))
    BY DEF FileAdded
  <1>. HIDE DEF p, a, inserted
  <1>5. ASSUME NEW v \in Asset \cup {NoAsset}
        PROVE  [files EXCEPT ![p] = v] \in [Path -> Asset \cup {NoAsset}]
    BY <1>1, <1>3 DEF MemTypes
  <1>6. NoAsset \in Asset \cup {NoAsset}
    OBVIOUS
  <1>7. CASE UNCHANGED <<entries, artifacts>>
    <2>1. files' \in [Path -> Asset \cup {NoAsset}]
      <3>1. files \in [Path -> Asset \cup {NoAsset}]
        BY <1>1 DEF MemTypes
      <3>2. CASE files' = files
        BY <3>1, <3>2
      <3>3. CASE files' = [files EXCEPT ![p] = inserted]
        BY <1>3, <1>5, <3>3
      <3>4. CASE files' = [files EXCEPT ![p] = NoAsset]
        BY <1>5, <1>6, <3>4
      <3>. QED BY <1>4, <3>2, <3>3, <3>4
    <2>. QED BY <1>2, <1>7, <2>1, HandledFiles
  <1>8. CASE /\ a \in Asset \ Known /\ proc[a] # 0
             /\ files' = [files EXCEPT ![p] = inserted]
             /\ entries' = Learn(a, [path |-> p, nodes |-> Discovered(a), busy |-> FALSE])
             /\ AddArtifacts(a, Discovered(a))
    <2> DEFINE e == [path |-> p, nodes |-> Discovered(a), busy |-> FALSE]
               row == [n \in Node |-> IF n \in Discovered(a) /\ artifacts[a][n] = 0
                                      THEN proc[a] ELSE artifacts[a][n]]
    <2>1. /\ proc[a] \in Nat /\ OnDisk(proc[a]) = builds[proc[a]].nodes
          /\ builds[proc[a]].asset = a /\ builds[proc[a]].nodes \subseteq Node
      BY <1>8, ProcessOnDisk
    <2>2. Discovered(a) = OnDisk(proc[a]) /\ Discovered(a) \subseteq Node
      BY <1>8, <2>1 DEF Discovered
    <2>3. /\ e \in Entry /\ e.nodes = Discovered(a) /\ e.busy = FALSE
      BY <1>3, <2>2 DEF Entry
    <2>4. artifacts[a] \in [Node -> Nat] /\ \A n \in Node : artifacts[a][n] = 0
      <3>1. {n \in Node : artifacts[a][n] # 0} = {}
        BY <1>1, <1>8 DEF MapFollowsEntries
      <3>. QED BY <1>1, <1>8, <3>1 DEF MemTypes
    <2>5. row \in [Node -> Nat] /\ \A n \in Node : row[n] = IF n \in Discovered(a) THEN proc[a] ELSE 0
      BY <2>1, <2>4
    <2>6. artifacts' = [artifacts EXCEPT ![a] = row]
      BY <1>1, <1>8 DEF AddArtifacts, MemTypes
    <2>7. entries' = Learn(a, e)
      BY <1>8
    <2>. HIDE DEF e, row
    <2>8. /\ Known' = Known \cup {a} /\ entries'[a] = e /\ entries' \in [Known' -> Entry]
          /\ \A b \in Known \ {a} : entries'[b] = entries[b]
      BY <1>1, <2>3, <2>7 DEF Learn, Known, MemTypes
    <2>9. {n \in Node : row[n] # 0} = entries'[a].nodes
      BY <1>8, <2>2, <2>3, <2>5, <2>8
    <2>10. \A n \in Node : row[n] # 0 => n \in OnDisk(row[n]) /\ builds[row[n]].asset = a
      BY <2>1, <2>2, <2>5
    <2>11. files' \in [Path -> Asset \cup {NoAsset}]
      BY <1>3, <1>5, <1>8
    <2>12. Known' \subseteq Asset /\ Known' \ {a} = Known \ {a}
      BY <1>1, <1>8, <2>8 DEF MemTypes
    <2>13. a \in Asset /\ a \in Known' /\ entries'[a].busy = (a \in Known /\ entries[a].busy)
      BY <1>8, <2>3, <2>8
    <2>. QED BY <1>2, <2>5, <2>6, <2>8, <2>9, <2>10, <2>11, <2>12, <2>13, Handled
  <1>. QED BY <1>4, <1>7, <1>8

LEMMA Gone ==
  ASSUME IInv, FileRemoved
  PROVE  IInv'
  <1> DEFINE p == Head(batch).path
             a == files[p]
  <1>1. MemTypes /\ DiskTypes /\ MapFollowsEntries
    BY DEF IInv
  <1>2. Handle("removed") /\ files' = [files EXCEPT ![p] = NoAsset]
    BY DEF FileRemoved
  <1>3. files' \in [Path -> Asset \cup {NoAsset}]
    BY <1>1, <1>2 DEF MemTypes
  <1>4. IF a \in Known
        THEN /\ entries' = Forget(a)
             /\ artifacts' = [artifacts EXCEPT ![a] = [n \in Node |->
                  IF n \in entries[a].nodes THEN 0 ELSE @[n]]]
        ELSE UNCHANGED <<entries, artifacts>>
    BY DEF FileRemoved
  <1>. HIDE DEF a, p
  <1>5. CASE a \notin Known
    BY <1>2, <1>3, <1>4, <1>5, HandledFiles
  <1>6. CASE a \in Known
    <2> DEFINE row == [n \in Node |-> IF n \in entries[a].nodes THEN 0 ELSE artifacts[a][n]]
    <2>1. a \in Asset /\ artifacts[a] \in [Node -> Nat]
      BY <1>1, <1>6 DEF MemTypes
    <2>2. {n \in Node : artifacts[a][n] # 0} = entries[a].nodes
      BY <1>1, <1>6, <2>1 DEF MapFollowsEntries
    <2>3. row \in [Node -> Nat] /\ \A n \in Node : row[n] = 0
      BY <2>1, <2>2
    <2>4. artifacts' = [artifacts EXCEPT ![a] = row]
      BY <1>1, <1>4, <1>6, <2>1 DEF MemTypes
    <2>. HIDE DEF row
    <2>5. /\ Known' = Known \ {a} /\ entries' \in [Known' -> Entry]
          /\ \A b \in Known \ {a} : entries'[b] = entries[b]
      BY <1>1, <1>4, <1>6 DEF Forget, Known, MemTypes
    <2>6. Known' \subseteq Asset /\ Known' \ {a} = Known \ {a} /\ a \notin Known'
      BY <1>1, <2>5 DEF MemTypes
    <2>7. {n \in Node : row[n] # 0} = IF a \in Known' THEN entries'[a].nodes ELSE {}
      BY <2>3, <2>6
    <2>8. \A n \in Node : row[n] # 0 => n \in OnDisk(row[n]) /\ builds[row[n]].asset = a
      BY <2>3
    <2>9. row \in [Node -> Nat]
      BY <2>3
    <2>10. a \in Known' => entries'[a].busy = (a \in Known /\ entries[a].busy)
      BY <2>6
    <2>. QED BY <1>2, <1>3, <2>1, <2>4, <2>5, <2>6, <2>7, <2>8, <2>9, <2>10, Handled
  <1>. QED BY <1>5, <1>6

LEMMA Moved ==
  ASSUME IInv, FileRenamed
  PROVE  IInv'
  <1> DEFINE q == Head(batch).path
             a == metaAt[q]
             old == entries[a].path
             left == [files EXCEPT ![old] = NoAsset]
  <1>1. MemTypes /\ DiskTypes /\ MapFollowsEntries /\ ArtifactsOnDisk
    BY DEF IInv
  <1>2. Handle("renamed") /\ artifacts' = artifacts
    BY DEF FileRenamed
  <1>3. IF a \in Known
        THEN /\ files' = IF files[old] # NoAsset /\ left[q] = NoAsset
                         THEN [left EXCEPT ![q] = a] ELSE left
             /\ entries' = [entries EXCEPT ![a].path = q]
        ELSE UNCHANGED <<files, entries>>
    BY DEF FileRenamed
  <1>4. q \in Path
    BY <1>2, Named
  <1>5. files \in [Path -> Asset \cup {NoAsset}] /\ left \in [Path -> Asset \cup {NoAsset}]
    BY <1>1 DEF MemTypes
  <1>. HIDE DEF a, q, old, left
  <1>6. CASE a \notin Known
    BY <1>2, <1>3, <1>5, <1>6, HandledFiles
  <1>7. CASE a \in Known
    <2> DEFINE e == [entries[a] EXCEPT !.path = q]
    <2>1. a \in Asset /\ artifacts[a] \in [Node -> Nat] /\ entries \in [Known -> Entry]
      BY <1>1, <1>7 DEF MemTypes
    <2>2. e \in Entry /\ e.nodes = entries[a].nodes /\ e.busy = entries[a].busy
      BY <1>4, <1>7, <2>1 DEF Entry
    <2>3. entries' = [entries EXCEPT ![a] = e]
      BY <1>3, <1>7
    <2>. HIDE DEF e
    <2>4. /\ Known' = Known /\ entries' \in [Known' -> Entry] /\ entries'[a] = e
          /\ \A b \in Known \ {a} : entries'[b] = entries[b]
      <3>1. Known' = Known
        BY <2>1, <2>3 DEF Known
      <3>. QED BY <1>7, <2>1, <2>2, <2>3, <3>1
    <2>5. files' \in [Path -> Asset \cup {NoAsset}]
      BY <1>3, <1>5, <1>7, <2>1
    <2>6. artifacts' = [artifacts EXCEPT ![a] = artifacts[a]]
      BY <1>1, <1>2 DEF MemTypes
    <2>7. {n \in Node : artifacts[a][n] # 0} = entries'[a].nodes
      BY <1>1, <1>7, <2>1, <2>2, <2>4 DEF MapFollowsEntries
    <2>8. \A n \in Node : artifacts[a][n] # 0 =>
            n \in OnDisk(artifacts[a][n]) /\ builds[artifacts[a][n]].asset = a
      BY <1>1, <2>1 DEF ArtifactsOnDisk
    <2>9. Known' \subseteq Asset /\ Known' \ {a} = Known \ {a} /\ a \in Known'
          /\ entries'[a].busy = (a \in Known /\ entries[a].busy)
      <3>1. entries[a].busy \in BOOLEAN
        BY <1>7, <2>1 DEF Entry
      <3>. QED BY <1>1, <1>7, <2>2, <2>4, <3>1 DEF MemTypes
    <2>. QED BY <1>2, <2>1, <2>4, <2>5, <2>6, <2>7, <2>8, <2>9, Handled
  <1>. QED BY <1>6, <1>7

LEMMA Changed ==
  ASSUME IInv, FileModified
  PROVE  IInv'
  <1> DEFINE p == Head(batch).path
             a == metaAt[p]
             k == proc[a]
             old == entries[a].nodes
             new == builds[k].nodes
             added == (new \ old) \cap OnDisk(k)
  <1>1. MemTypes /\ DiskTypes /\ MapFollowsEntries /\ ArtifactsOnDisk
    BY DEF IInv
  <1>2. Handle("modified") /\ files' = files
    BY DEF FileModified
  <1>3. \/ /\ a \in Known /\ k # 0
           /\ artifacts' = [artifacts EXCEPT ![a] = [n \in Node |->
                IF n \in old \ new THEN 0
                ELSE IF n \in added \/ (n \in old \cap new /\ @[n] # 0) THEN k ELSE @[n]]]
           /\ entries' = [entries EXCEPT ![a].nodes = new]
        \/ UNCHANGED <<artifacts, entries>>
    BY DEF FileModified
  <1>4. files \in [Path -> Asset \cup {NoAsset}]
    BY <1>1 DEF MemTypes
  <1>. HIDE DEF p, a
  <1>5. CASE UNCHANGED <<artifacts, entries>>
    BY <1>2, <1>4, <1>5, HandledFiles
  <1>6. CASE /\ a \in Known /\ k # 0
             /\ artifacts' = [artifacts EXCEPT ![a] = [n \in Node |->
                  IF n \in old \ new THEN 0
                  ELSE IF n \in added \/ (n \in old \cap new /\ @[n] # 0) THEN k ELSE @[n]]]
             /\ entries' = [entries EXCEPT ![a].nodes = new]
    <2> DEFINE e == [entries[a] EXCEPT !.nodes = new]
               row == [n \in Node |->
                 IF n \in old \ new THEN 0
                 ELSE IF n \in added \/ (n \in old \cap new /\ artifacts[a][n] # 0)
                      THEN k ELSE artifacts[a][n]]
    <2>1. a \in Asset /\ artifacts[a] \in [Node -> Nat] /\ entries \in [Known -> Entry]
      BY <1>1, <1>6 DEF MemTypes
    <2>2. k \in Nat /\ OnDisk(k) = new /\ builds[k].asset = a /\ new \subseteq Node
      BY <1>6, <2>1, ProcessOnDisk
    <2>3. e \in Entry /\ e.nodes = new /\ e.busy = entries[a].busy
      BY <1>6, <2>1, <2>2 DEF Entry
    <2>4. {n \in Node : artifacts[a][n] # 0} = old
      BY <1>1, <1>6, <2>1 DEF MapFollowsEntries
    <2>5. row \in [Node -> Nat]
      BY <2>1, <2>2
    <2>6. ASSUME NEW n \in Node
          PROVE  row[n] = IF n \in new THEN k ELSE 0
      <3>1. artifacts[a][n] # 0 <=> n \in old
        BY <2>4
      <3>. QED BY <2>2, <3>1
    <2>7. artifacts' = [artifacts EXCEPT ![a] = row]
      BY <1>1, <1>6, <2>1 DEF MemTypes
    <2>8. entries' = [entries EXCEPT ![a] = e]
      BY <1>6
    <2>. HIDE DEF e, row, k, new
    <2>9. /\ Known' = Known /\ entries' \in [Known' -> Entry] /\ entries'[a] = e
          /\ \A b \in Known \ {a} : entries'[b] = entries[b]
      <3>1. Known' = Known
        BY <2>1, <2>8 DEF Known
      <3>. QED BY <1>6, <2>1, <2>3, <2>8, <3>1
    <2>10. {n \in Node : row[n] # 0} = entries'[a].nodes
      BY <1>6, <2>2, <2>3, <2>6, <2>9
    <2>11. \A n \in Node : row[n] # 0 => n \in OnDisk(row[n]) /\ builds[row[n]].asset = a
      BY <2>2, <2>6
    <2>12. Known' \subseteq Asset /\ Known' \ {a} = Known \ {a} /\ a \in Known'
           /\ entries'[a].busy = (a \in Known /\ entries[a].busy)
      <3>1. entries[a].busy \in BOOLEAN
        BY <1>6, <2>1 DEF Entry
      <3>. QED BY <1>1, <1>6, <2>3, <2>9, <3>1 DEF MemTypes
    <2>13. files' \in [Path -> Asset \cup {NoAsset}]
      BY <1>2, <1>4
    <2>. QED BY <1>2, <2>1, <2>5, <2>7, <2>9, <2>10, <2>11, <2>12, <2>13, Handled
  <1>. QED BY <1>3, <1>5, <1>6

LEMMA ResourcesRead ==
  ASSUME IInv, ResourceUpdate
  PROVE  IInv'
  <1>1. MemTypes /\ DiskTypes
    BY DEF IInv
  <1>2. /\ main' = [at |-> "idle"]
        /\ UNCHANGED <<diskVars, files, entries, artifacts, imports, events, batch, boundVars>>
    BY DEF ResourceUpdate, Idle
  <1>3. MemTypes'
    BY <1>1, <1>2 DEF MemTypes, Working, boundVars, Known
  <1>4. DiskTypes'
    BY <1>1, <1>2 DEF DiskTypes, diskVars
  <1>. QED BY <1>2, <1>3, <1>4, Kept DEF diskVars

-----------------------------------------------------------------------------
(* Users. *)

\* Users change meta files, what they took away and the events to be read.
LEMMA Used ==
  ASSUME IInv, NEW op, User(op),
         metaAt' \in [Path -> Asset \cup {NoAsset}], trash' \in [Path -> Asset \cup {NoAsset}],
         NEW seen \in Seq(Event), Notify(seen)
  PROVE  IInv'
  <1>1. MemTypes /\ DiskTypes
    BY DEF IInv
  <1>2. /\ main.at \in {"idle", "imports", "events", "off"}
        /\ UNCHANGED <<proc, builds, dirs, source, files, entries, artifacts, imports, main, batch, born>>
    BY DEF User
  <1>3. events' \in Seq(Event)
    BY <1>1, Joined DEF Notify, MemTypes
  <1>4. MemTypes'
    BY <1>1, <1>2, <1>3 DEF MemTypes, Known
  <1>5. DiskTypes'
    BY <1>1, <1>2 DEF DiskTypes
  <1>. QED BY <1>2, <1>4, <1>5, Kept

LEMMA UserMoves ==
  ASSUME IInv, NEW p \in Path, NEW q \in Path, Delete(p) \/ Restore(p) \/ Rename(p, q) \/ Copy(p, q)
  PROVE  IInv'
  <1>1. /\ metaAt \in [Path -> Asset \cup {NoAsset}] /\ trash \in [Path -> Asset \cup {NoAsset}]
        /\ metaAt[p] \in Asset \cup {NoAsset} /\ trash[p] \in Asset \cup {NoAsset}
    BY DEF IInv, MemTypes, DiskTypes
  <1>2. CASE Delete(p)
    <2>1. /\ User("delete") /\ Notify(<<[kind |-> "removed", path |-> p]>>)
          /\ metaAt' = [metaAt EXCEPT ![p] = NoAsset] /\ trash' = [trash EXCEPT ![p] = metaAt[p]]
      BY <1>2 DEF Delete
    <2>2. /\ metaAt' \in [Path -> Asset \cup {NoAsset}] /\ trash' \in [Path -> Asset \cup {NoAsset}]
          /\ <<[kind |-> "removed", path |-> p]>> \in Seq(Event)
      BY <1>1, <2>1, Noticed
    <2>. QED BY <2>1, <2>2, Used
  <1>3. CASE Restore(p)
    <2>1. /\ User("restore") /\ Notify(<<[kind |-> "added", path |-> p]>>)
          /\ metaAt' = [metaAt EXCEPT ![p] = trash[p]] /\ trash' = [trash EXCEPT ![p] = NoAsset]
      BY <1>3 DEF Restore
    <2>2. /\ metaAt' \in [Path -> Asset \cup {NoAsset}] /\ trash' \in [Path -> Asset \cup {NoAsset}]
          /\ <<[kind |-> "added", path |-> p]>> \in Seq(Event)
      BY <1>1, <2>1, Noticed
    <2>. QED BY <2>1, <2>2, Used
  <1>4. CASE Rename(p, q)
    <2>1. /\ User("rename") /\ Notify(<<[kind |-> "renamed", path |-> q]>>)
          /\ metaAt' = [metaAt EXCEPT ![p] = NoAsset, ![q] = metaAt[p]] /\ trash' = trash
      BY <1>4 DEF Rename
    <2>2. /\ metaAt' \in [Path -> Asset \cup {NoAsset}] /\ trash' \in [Path -> Asset \cup {NoAsset}]
          /\ <<[kind |-> "renamed", path |-> q]>> \in Seq(Event)
      BY <1>1, <2>1, Noticed
    <2>. QED BY <2>1, <2>2, Used
  <1>5. CASE Copy(p, q)
    <2>1. /\ User("copy") /\ Notify(FileWritten(q))
          /\ metaAt' = [metaAt EXCEPT ![q] = metaAt[p]] /\ trash' = trash
      BY <1>5 DEF Copy
    <2>2. /\ metaAt' \in [Path -> Asset \cup {NoAsset}] /\ trash' \in [Path -> Asset \cup {NoAsset}]
          /\ FileWritten(q) \in Seq(Event)
      BY <1>1, <2>1, Noticed
    <2>. QED BY <2>1, <2>2, Used
  <1>. QED BY <1>2, <1>3, <1>4, <1>5

-----------------------------------------------------------------------------
(* A crash, and the next start. *)

LEMMA Crashed ==
  ASSUME IInv, Crash
  PROVE  IInv'
  <1>1. MemTypes /\ DiskTypes
    BY DEF IInv
  <1>2. /\ main' = [at |-> "off"] /\ files' = [p \in Path |-> NoAsset]
        /\ entries' = << >> /\ artifacts' = NoArtifacts /\ imports' = << >>
        /\ events' = << >> /\ batch' = << >>
        /\ UNCHANGED <<diskVars, born, trash>>
    BY DEF Crash
  <1>3. Known' = {} /\ entries' \in [Known' -> Entry]
    BY <1>2 DEF Known
  <1>4. /\ artifacts' \in [Asset -> [Node -> Nat]]
        /\ \A a \in Asset : \A n \in Node : artifacts'[a][n] = 0
    BY <1>2 DEF NoArtifacts
  <1>5. MemTypes'
    BY <1>1, <1>2, <1>3, <1>4 DEF MemTypes, Working
  <1>6. DiskTypes'
    BY <1>1, <1>2 DEF DiskTypes, diskVars
  <1>7. ProcessesKept'
    BY <1>2 DEF IInv, ProcessesKept, diskVars
  <1>8. ArtifactsOnDisk'
    BY <1>4 DEF ArtifactsOnDisk
  <1>9. MapFollowsEntries'
    BY <1>3, <1>4 DEF MapFollowsEntries
  <1>10. BusyIsImported'
    BY <1>3 DEF BusyIsImported
  <1>. QED BY <1>5, <1>6, <1>7, <1>8, <1>9, <1>10 DEF IInv

\* The reimports that a start begins.
Reimport(path, a) ==
  [asset |-> a, path |-> path[a], nodes |-> source[a], reimport |-> TRUE, state |-> "running"]
Reimports(path, again) == SetToSeq({Reimport(path, a) : a \in again})

LEMMA Reimported ==
  ASSUME DiskTypes, NEW again \in SUBSET Asset, NEW found, again \subseteq found, NEW path \in [found -> Path]
  PROVE  /\ Reimports(path, again) \in Seq(ImportJob)
         /\ \A a \in again : \E i \in Range(Reimports(path, again)) : i.asset = a /\ i.reimport
         /\ \A i \in Range(Reimports(path, again)) : i.asset \in again /\ i.reimport
  <1> DEFINE S == {Reimport(path, a) : a \in again}
             f == [a \in again |-> Reimport(path, a)]
  <1>1. IsFiniteSet(again)
    <2>1. IsFiniteSet(Asset)
      BY AssetFilesAssumption, FS_Interval DEF Asset
    <2>. QED BY <2>1, FS_Subset
  <1>2. f \in Surjection(again, S)
    BY DEF Surjection
  <1>3. ASSUME NEW a \in again
        PROVE  Reimport(path, a) \in ImportJob /\ Reimport(path, a).asset = a /\ Reimport(path, a).reimport
    <2>1. path[a] \in Path /\ source[a] \in SUBSET Node /\ a \in Asset
      BY DEF DiskTypes
    <2>. QED BY <2>1 DEF Reimport, ImportJob
  <1>4. /\ S \subseteq ImportJob /\ \A a \in again : \E i \in S : i.asset = a /\ i.reimport
        /\ \A i \in S : i.asset \in again /\ i.reimport
    BY <1>3
  <1>. HIDE DEF S, f
  <1>5. IsFiniteSet(S)
    BY <1>1, <1>2, FS_Surjection
  <1>6. SetToSeq(S) \in Seq(S) /\ Range(SetToSeq(S)) = S
    BY <1>5, Listed
  <1>7. SetToSeq(S) \in Seq(ImportJob)
    BY <1>4, <1>6
  <1>8. \A a \in again : \E i \in Range(SetToSeq(S)) : i.asset = a /\ i.reimport
    BY <1>4, <1>6
  <1>9. \A i \in Range(SetToSeq(S)) : i.asset \in again /\ i.reimport
    BY <1>4, <1>6
  <1>. QED BY <1>7, <1>8, <1>9 DEF S, Reimports

LEMMA Started ==
  ASSUME IInv, Discover
  PROVE  IInv'
  <1> DEFINE found == Range(metaAt) \ {NoAsset}
             again == {a \in found : Dirty(a) /\ source[a] # {}}
             jobs(path) == SetToSeq({[asset |-> a, path |-> path[a], nodes |-> source[a],
                                      reimport |-> TRUE, state |-> "running"] : a \in again})
  <1>1. MemTypes /\ DiskTypes
    BY DEF IInv
  <1>2. found \in SUBSET Asset /\ again \in SUBSET Asset /\ again \subseteq found
    BY <1>1 DEF DiskTypes, Range
  <1>3. /\ files' = metaAt
        /\ artifacts' = [a \in Asset |-> [n \in Node |->
             IF a \in found /\ n \in Discovered(a) THEN proc[a] ELSE 0]]
        /\ Collect(found)
        /\ main' = [at |-> "idle"]
        /\ UNCHANGED <<events, batch, born, trash>>
    BY DEF Discover, Idle
  <1>4. \E path \in [found -> Path] :
          /\ entries' = [a \in found |->
               [path |-> path[a], nodes |-> Discovered(a), busy |-> a \in again]]
          /\ imports' = jobs(path)
    BY DEF Discover
  <1>5. PICK path \in [found -> Path] :
          /\ entries' = [a \in found |->
               [path |-> path[a], nodes |-> Discovered(a), busy |-> a \in again]]
          /\ imports' = Reimports(path, again)
    BY <1>4 DEF Reimport, Reimports
  <1>. HIDE DEF found, again
  <1>6. /\ imports' \in Seq(ImportJob)
        /\ \A a \in again : \E i \in Range(imports') : i.asset = a /\ i.reimport
    BY <1>1, <1>2, <1>5, Reimported
  <1>7. ASSUME NEW a \in Asset
        PROVE  /\ Discovered(a) \subseteq Node
               /\ Discovered(a) # {} => proc[a] # 0
               /\ proc[a] # 0 => Discovered(a) = OnDisk(proc[a])
    BY ProcessOnDisk DEF Discovered
  <1>8. Known' = found /\ entries' \in [Known' -> Entry] /\ Known' \subseteq Asset
    <2>1. Known' = found
      BY <1>5 DEF Known
    <2>2. \A a \in found : [path |-> path[a], nodes |-> Discovered(a), busy |-> a \in again] \in Entry
      BY <1>2, <1>7 DEF Entry
    <2>. QED BY <1>2, <1>5, <2>1, <2>2
  <1>9. \A a \in Asset : proc[a] \in Nat /\ proc[a] \in 0..Len(builds)
    BY <1>1 DEF DiskTypes
  <1>10. artifacts' \in [Asset -> [Node -> Nat]]
    BY <1>3, <1>9
  <1>11. MemTypes'
    <2>1. files' \in [Path -> Asset \cup {NoAsset}]
      BY <1>1, <1>3 DEF DiskTypes
    <2>. QED BY <1>1, <1>3, <1>6, <1>8, <1>10, <2>1 DEF MemTypes, Working
  <1>12. /\ source' = [a \in Asset |-> IF a \in found THEN source[a] ELSE {}]
         /\ proc' = [a \in Asset |-> IF a \in found THEN proc[a] ELSE 0]
         /\ dirs' = {k \in dirs : builds[k].asset \in found}
         /\ UNCHANGED <<metaAt, builds>>
    BY <1>3 DEF Collect
  <1>13. DiskTypes'
    <2>1. source' \in [Asset -> SUBSET Node]
      BY <1>1, <1>12 DEF DiskTypes
    <2>2. proc' \in [Asset -> 0..Len(builds)]
      <3>1. 0 \in 0..Len(builds)
        BY <1>1 DEF DiskTypes
      <3>. QED BY <1>9, <1>12, <3>1
    <2>. QED BY <1>1, <1>12, <2>1, <2>2 DEF DiskTypes
  <1>14. \A a \in Asset : proc[a] # 0 => proc[a] \in dirs /\ builds[proc[a]].asset = a
    BY DEF IInv, ProcessesKept
  <1>15. ProcessesKept'
    BY <1>3, <1>12, <1>14 DEF ProcessesKept
  <1>16. ArtifactsOnDisk'
    <2>1. ASSUME NEW a \in Asset, NEW n \in Node, artifacts'[a][n] # 0
          PROVE  (n \in OnDisk(artifacts[a][n]) /\ builds[artifacts[a][n]].asset = a)'
      <3>1. a \in found /\ n \in Discovered(a) /\ artifacts'[a][n] = proc[a]
        BY <1>3, <2>1
      <3>2. proc[a] \in dirs /\ builds[proc[a]].asset = a /\ n \in OnDisk(proc[a])
        BY <1>7, <1>14, <3>1
      <3>3. proc[a] \in dirs'
        BY <1>12, <3>1, <3>2
      <3>. QED BY <1>12, <3>1, <3>2, <3>3 DEF OnDisk
    <2>. QED BY <2>1 DEF ArtifactsOnDisk
  <1>17. MapFollowsEntries'
    <2>1. ASSUME NEW a \in Asset
          PROVE  {n \in Node : artifacts'[a][n] # 0} = IF a \in Known' THEN entries'[a].nodes ELSE {}
      <3>1. \A n \in Node : artifacts'[a][n] # 0 <=> a \in found /\ n \in Discovered(a)
        BY <1>3, <1>7
      <3>2. a \in found => entries'[a].nodes = Discovered(a)
        BY <1>5
      <3>. QED BY <1>7, <1>8, <3>1, <3>2
    <2>. QED BY <2>1 DEF MapFollowsEntries
  <1>18. BusyIsImported'
    BY <1>5, <1>6, <1>8 DEF BusyIsImported
  <1>. QED BY <1>11, <1>13, <1>15, <1>16, <1>17, <1>18 DEF IInv

-----------------------------------------------------------------------------
(* The invariant. *)

LEMMA Initial ==
  ASSUME Init
  PROVE  IInv
  <1>1. DiskTypes
    <2>1. builds = << >> /\ dirs = {} /\ proc = [a \in Asset |-> 0] /\ source = [a \in Asset |-> {}]
          /\ metaAt = [p \in Path |-> NoAsset]
      BY DEF Init, DiskInit
    <2>2. builds \in Seq([asset : Asset, nodes : SUBSET Node]) /\ Len(builds) = 0
      BY <2>1
    <2>3. 0 \in 0..Len(builds)
      BY <2>2
    <2>. QED BY <2>1, <2>2, <2>3 DEF DiskTypes
  <1>2. Known = {} /\ \A a \in Asset : artifacts[a] \in [Node -> Nat] /\ \A n \in Node : artifacts[a][n] = 0
    BY DEF Init, Known, NoArtifacts
  <1>3. MemTypes
    <2>1. 0 \in 0..MaxAssets
      BY AssetFilesAssumption
    <2>2. main \in Working
      BY DEF Init, Idle, Working
    <2>3. entries \in [Known -> Entry]
      BY <1>2 DEF Init
    <2>4. artifacts \in [Asset -> [Node -> Nat]]
      BY DEF Init, NoArtifacts
    <2>5. << >> \in Seq(ImportJob) /\ << >> \in Seq(Event)
      OBVIOUS
    <2>. QED BY <1>2, <2>1, <2>2, <2>3, <2>4, <2>5 DEF Init, MemTypes
  <1>4. ProcessesKept
    BY DEF Init, DiskInit, Idle, ProcessesKept
  <1>5. ArtifactsOnDisk /\ MapFollowsEntries /\ BusyIsImported
    BY <1>2 DEF ArtifactsOnDisk, MapFollowsEntries, BusyIsImported
  <1>. QED BY <1>1, <1>3, <1>4, <1>5 DEF IInv

LEMMA Stuttered ==
  ASSUME IInv, UNCHANGED vars
  PROVE  IInv'
  <1>1. MemTypes' /\ DiskTypes'
    BY DEF IInv, vars, diskVars, memVars, boundVars, MemTypes, DiskTypes, Known
  <1>. QED BY <1>1, Kept DEF vars, diskVars, memVars, boundVars

\* IInv holds in every reachable state, for any assets, paths, contents and any
\* users, saves and crashes.
THEOREM Inductive == Spec => []IInv
  <1>1. Init => IInv
    BY Initial
  <1>2. IInv /\ [Next]_vars => IInv'
    <2>. SUFFICES ASSUME IInv, [Next]_vars
                  PROVE  IInv'
      OBVIOUS
    <2>1. CASE UpdateBegin
      BY <2>1, UpdateBegun
    <2>2. CASE ReadEvents
      BY <2>2, EventsRead
    <2>3. ASSUME NEW k \in DOMAIN imports, ImportFails(k)
          PROVE  IInv'
      BY <2>3, ImportFailed
    <2>4. ASSUME NEW k \in DOMAIN imports, FinalizeBegin(k)
          PROVE  IInv'
      BY <2>4, Begun
    <2>5. CASE FinalizeArtifacts
      BY <2>5, ArtifactsSaved
    <2>6. CASE FinalizeProcess
      BY <2>6, ProcessSaved
    <2>7. CASE FinalizeMeta
      BY <2>7, MetaSaved
    <2>8. CASE FinalizeSources
      BY <2>8, SourcesWritten
    <2>9. CASE FileAdded
      BY <2>9, Added
    <2>10. CASE FileRemoved
      BY <2>10, Gone
    <2>11. CASE FileRenamed
      BY <2>11, Moved
    <2>12. CASE FileModified
      BY <2>12, Changed
    <2>13. CASE ResourceUpdate
      BY <2>13, ResourcesRead
    <2>14. CASE Import
      BY <2>14, Imported
    <2>15. ASSUME NEW a \in Asset, Process(a) \/ SaveAsset(a)
           PROVE  IInv'
      BY <2>15, Processed
    <2>16. ASSUME NEW p \in Path, NEW q \in Path, Delete(p) \/ Restore(p) \/ Rename(p, q) \/ Copy(p, q)
           PROVE  IInv'
      BY <2>16, UserMoves
    <2>17. CASE Crash
      BY <2>17, Crashed
    <2>18. CASE Discover
      BY <2>18, Started
    <2>19. ASSUME NEW k \in DOMAIN imports, JobEnds(k)
           PROVE  IInv'
      BY <2>19, JobEnded
    <2>20. CASE UNCHANGED vars
      BY <2>20, Stuttered
    <2>21. CASE Update
      BY <2>1, <2>2, <2>3, <2>4, <2>5, <2>6, <2>7, <2>8, <2>9, <2>10, <2>11, <2>12, <2>13, <2>21 DEF Update
    <2>22. CASE Requests
      BY <2>14, <2>15, <2>22 DEF Requests
    <2>23. CASE Users
      BY <2>16, <2>23 DEF Users
    <2>. QED BY <2>17, <2>18, <2>19, <2>20, <2>21, <2>22, <2>23 DEF Next
  <1>. QED BY <1>1, <1>2, PTL DEF Spec

\* An artifact path the registry hands out is that of a file some import of the
\* asset wrote and no collection removed (get_artifact_path, finalize,
\* discover_assets).
THEOREM PathsExist == Spec => []ArtifactsOnDisk
  <1>1. IInv => ArtifactsOnDisk
    BY DEF IInv
  <1>. QED BY <1>1, Inductive, PTL

\* The map of artifacts is that of the entries: the assertions of
\* on_artifact_added and on_artifact_removed never fail.
THEOREM ArtifactsOfEntries == Spec => []MapFollowsEntries
  <1>1. IInv => MapFollowsEntries
    BY DEF IInv
  <1>. QED BY <1>1, Inductive, PTL

\* An asset in processing has an import in currentImports, which update() will
\* take out of processing when it ends.
THEOREM NoneStuckInProcessing == Spec => []BusyIsImported
  <1>1. IInv => BusyIsImported
    BY DEF IInv
  <1>. QED BY <1>1, Inductive, PTL

-----------------------------------------------------------------------------
(* How the resource registry follows the map. *)

View == [Asset -> [Node -> Nat]]

LEMMA AboutIs ==
  ASSUME NEW q \in Seq(Change), NEW a, NEW n
  PROVE  /\ About(q, a, n) \subseteq 1..Len(q) /\ About(q, a, n) \subseteq Nat
         /\ Len(q) \in Nat /\ DOMAIN q = 1..Len(q)
  BY Elements DEF About

\* Whether the artifact is there depends on the changes read so far.
LEMMA HasSame ==
  ASSUME NEW q \in Seq(Change), NEW r \in Seq(Change), NEW v, NEW a, NEW n,
         NEW i \in Nat, NEW j \in Nat,
         \A k \in Nat : (k \in About(q, a, n) /\ k <= i) <=> (k \in About(r, a, n) /\ k <= j),
         \A k \in About(q, a, n) : k <= i => q[k].kind = r[k].kind
  PROVE  Has(v, q, a, n, i) <=> Has(v, r, a, n, j)
  <1>1. About(q, a, n) \subseteq Nat /\ About(r, a, n) \subseteq Nat
    BY AboutIs
  <1> DEFINE A == {k \in About(q, a, n) : k <= i}
             B == {k \in About(r, a, n) : k <= j}
  <1>2. A = B
    BY <1>1
  <1>3. (\A k \in About(q, a, n) : k > i) <=> A = {}
    BY <1>1
  <1>4. (\A k \in About(r, a, n) : k > j) <=> B = {}
    BY <1>1
  <1>5. (\E k \in About(q, a, n) : k <= i /\ q[k].kind # "remove"
                                   /\ \A l \in About(q, a, n) : l <= i => l <= k)
        <=> \E k \in A : q[k].kind # "remove" /\ \A l \in A : l <= k
    OBVIOUS
  <1>6. (\E k \in About(r, a, n) : k <= j /\ r[k].kind # "remove"
                                   /\ \A l \in About(r, a, n) : l <= j => l <= k)
        <=> \E k \in B : r[k].kind # "remove" /\ \A l \in B : l <= k
    OBVIOUS
  <1>7. \A k \in A : q[k].kind = r[k].kind
    OBVIOUS
  <1>8. Has(v, q, a, n, i) <=>
          IF A = {} THEN v[a][n] # 0
          ELSE \E k \in A : q[k].kind # "remove" /\ \A l \in A : l <= k
    BY <1>3, <1>5 DEF Has
  <1>9. Has(v, r, a, n, j) <=>
          IF B = {} THEN v[a][n] # 0
          ELSE \E k \in B : r[k].kind # "remove" /\ \A l \in B : l <= k
    BY <1>4, <1>6 DEF Has
  <1>. HIDE DEF A, B
  <1>. QED BY <1>2, <1>7, <1>8, <1>9

\* After a change of it, an artifact is there unless it was removed.
LEMMA HasAfter ==
  ASSUME NEW q \in Seq(Change), NEW v, NEW a, NEW n, NEW i \in About(q, a, n)
  PROVE  Has(v, q, a, n, i) <=> q[i].kind # "remove"
  <1>1. About(q, a, n) \subseteq Nat
    BY AboutIs
  <1>2. Has(v, q, a, n, i) <=>
          \E j \in About(q, a, n) :
            j <= i /\ q[j].kind # "remove" /\ \A l \in About(q, a, n) : l <= i => l <= j
    BY <1>1 DEF Has
  <1>3. \A j \in About(q, a, n) : j <= i /\ i <= j => j = i
    BY <1>1
  <1>4. i <= i
    BY <1>1
  <1>. QED BY <1>2, <1>3, <1>4

\* A change of another artifact leaves it where it is.
LEMMA HasKept ==
  ASSUME NEW q \in Seq(Change), NEW v, NEW a, NEW n, NEW i \in Nat, i + 1 \notin About(q, a, n)
  PROVE  Has(v, q, a, n, i + 1) <=> Has(v, q, a, n, i)
  <1>1. \A k \in Nat : (k \in About(q, a, n) /\ k <= i + 1) <=> (k \in About(q, a, n) /\ k <= i)
    OBVIOUS
  <1>2. i + 1 \in Nat
    OBVIOUS
  <1>. QED BY <1>1, <1>2, HasSame

\* The changes E, all of one kind, lead from the map m to m2.
Alters(E, kind, m, m2) ==
  /\ \A e \in E : /\ e.kind = kind
                  /\ m[e.asset][e.node] = 0 <=> kind = "add"
                  /\ m2[e.asset][e.node] = 0 <=> kind = "remove"
  /\ \A b \in Asset, n \in Node :
       m2[b][n] = m[b][n] \/ \E e \in E : e.asset = b /\ e.node = n

\* Changes of one kind, of different artifacts, are announced after the others.
LEMMA Announced ==
  ASSUME NEW q \in Seq(Change), NEW v \in View, NEW m \in View, NEW m2 \in View,
         NEW kind, NEW E \in SUBSET Change, IsFiniteSet(E), Leads(v, q, m),
         Alters(E, kind, m, m2)
  PROVE  /\ q \o SetToSeq(E) \in Seq(Change)
         /\ Leads(v, q \o SetToSeq(E), m2)
  <1> DEFINE t == SetToSeq(E)
             r == q \o t
             L == Len(q)
             M == Len(t)
  <1>1. t \in Seq(Change) /\ Range(t) = E /\ IsInjective(t)
    <2>1. SetToSeq(E) \in Seq(E) /\ Range(SetToSeq(E)) = E /\ IsInjective(SetToSeq(E))
      BY Listed
    <2>. QED BY <2>1
  <1>. HIDE DEF t
  <1>2. /\ r \in Seq(Change) /\ Len(r) = L + M /\ DOMAIN r = 1..(L + M) /\ L \in Nat /\ M \in Nat
        /\ \A i \in 1..L : r[i] = q[i]
        /\ \A i \in 1..M : r[L + i] = t[i]
    BY <1>1, Joined
  <1>3. DOMAIN t = 1..M /\ DOMAIN q = 1..L /\ \A i \in 1..M : t[i] \in E
    BY <1>1 DEF Range
  <1>. HIDE DEF r, L, M
  <1>4. ASSUME NEW b \in Asset, NEW n \in Node
        PROVE  /\ \A i \in About(r, b, n) : r[i].kind = "add" <=> ~Has(v, r, b, n, i - 1)
               /\ Has(v, r, b, n, L + M) <=> m2[b][n] # 0
               /\ About(r, b, n) = {} => v[b][n] = m2[b][n]
    <2>1. About(q, b, n) \subseteq 1..L /\ About(r, b, n) \subseteq 1..(L + M)
      BY <1>2, <1>3, AboutIs DEF L
    <2>2. \A i \in 1..L : i \in About(q, b, n) <=> i \in About(r, b, n)
      BY <1>2, <1>3 DEF About
    <2>3. \A i \in 1..M : L + i \in About(r, b, n) <=> t[i].asset = b /\ t[i].node = n
      BY <1>2, <1>3 DEF About
    <2>4. \A i \in 1..(L + M) : i \in 1..L \/ \E j \in 1..M : i = L + j
      <3>1. \A i \in 1..(L + M) : i \in 1..L \/ (i - L \in 1..M /\ i = L + (i - L))
        BY <1>2
      <3>. QED BY <3>1
    <2>5. \A i \in 0..L : Has(v, r, b, n, i) <=> Has(v, q, b, n, i)
      <3>1. ASSUME NEW i \in 0..L
            PROVE  Has(v, r, b, n, i) <=> Has(v, q, b, n, i)
        <4>1. \A k \in Nat : (k \in About(r, b, n) /\ k <= i) <=> (k \in About(q, b, n) /\ k <= i)
          BY <1>2, <2>1, <2>2
        <4>2. \A k \in About(r, b, n) : k <= i => r[k].kind = q[k].kind
          BY <1>2, <2>1
        <4>. QED BY <1>2, <4>1, <4>2, HasSame
      <3>. QED BY <3>1
    <2>6. /\ \A i \in About(q, b, n) : q[i].kind = "add" <=> ~Has(v, q, b, n, i - 1)
          /\ Has(v, q, b, n, L) <=> m[b][n] # 0
          /\ About(q, b, n) = {} => v[b][n] = m[b][n]
      BY DEF Leads, L
    <2>7. ASSUME NEW i \in About(r, b, n), i \in 1..L
          PROVE  r[i].kind = "add" <=> ~Has(v, r, b, n, i - 1)
      <3>1. i - 1 \in 0..L /\ i \in About(q, b, n)
        BY <1>2, <2>2, <2>7
      <3>. QED BY <1>2, <2>5, <2>6, <2>7, <3>1
    <2>8. CASE \A i \in 1..M : L + i \notin About(r, b, n)
      <3>1. \A e \in E : ~(e.asset = b /\ e.node = n)
        BY <1>1, <1>3, <2>3, <2>8 DEF Range
      <3>2. m2[b][n] = m[b][n]
        BY <3>1 DEF Alters
      <3>3. About(r, b, n) = About(q, b, n)
        <4>1. \A i \in About(r, b, n) : i \in 1..L
          BY <2>1, <2>4, <2>8
        <4>. QED BY <2>1, <2>2, <4>1
      <3>4. Has(v, r, b, n, L + M) <=> Has(v, q, b, n, L)
        <4>1. \A k \in Nat : (k \in About(r, b, n) /\ k <= L + M) <=> (k \in About(q, b, n) /\ k <= L)
          BY <1>2, <2>1, <3>3
        <4>2. \A k \in About(r, b, n) : k <= L + M => r[k].kind = q[k].kind
          BY <1>2, <2>1, <3>3
        <4>. QED BY <1>2, <4>1, <4>2, HasSame
      <3>5. \A i \in About(r, b, n) : r[i].kind = "add" <=> ~Has(v, r, b, n, i - 1)
        BY <2>1, <2>7, <3>3
      <3>. QED BY <2>6, <3>2, <3>3, <3>4, <3>5
    <2>9. CASE \E j \in 1..M : L + j \in About(r, b, n)
      <3>1. PICK j \in 1..M : L + j \in About(r, b, n)
        BY <2>9
      <3>2. t[j] \in E /\ t[j].asset = b /\ t[j].node = n /\ r[L + j] = t[j]
        BY <1>2, <1>3, <2>3, <3>1
      <3>3. /\ r[L + j].kind = kind
            /\ m[b][n] = 0 <=> kind = "add"
            /\ m2[b][n] = 0 <=> kind = "remove"
        BY <3>2 DEF Alters
      <3>4. ASSUME NEW i \in 1..M, L + i \in About(r, b, n)
            PROVE  i = j
        <4>1. t[i] \in E /\ t[i].asset = b /\ t[i].node = n
          BY <1>3, <2>3, <3>4
        <4>2. t[i] = t[j]
          <5>1. t[i].kind = kind /\ t[j].kind = kind
            BY <3>2, <4>1 DEF Alters
          <5>2. t[i] \in Change /\ t[j] \in Change
            BY <3>2, <4>1
          <5>. QED BY <3>2, <4>1, <5>1, <5>2 DEF Change
        <4>. QED BY <1>1, <1>3, <4>2 DEF IsInjective
      <3>5. \A k \in About(r, b, n) : k \in 1..L \/ k = L + j
        BY <2>1, <2>4, <3>4
      <3>6. Has(v, r, b, n, (L + j) - 1) <=> Has(v, q, b, n, L)
        <4>1. \A k \in Nat : (k \in About(r, b, n) /\ k <= (L + j) - 1) <=> (k \in About(q, b, n) /\ k <= L)
          BY <1>2, <2>1, <2>2, <3>5
        <4>2. \A k \in About(r, b, n) : k <= (L + j) - 1 => r[k].kind = q[k].kind
          BY <1>2, <3>5
        <4>3. (L + j) - 1 \in Nat
          BY <1>2
        <4>. QED BY <1>2, <4>1, <4>2, <4>3, HasSame
      <3>7. Has(v, r, b, n, L + M) <=> Has(v, r, b, n, L + j)
        <4>1. \A k \in Nat : (k \in About(r, b, n) /\ k <= L + M) <=> (k \in About(r, b, n) /\ k <= L + j)
          BY <1>2, <2>1, <3>5
        <4>2. L + M \in Nat /\ L + j \in Nat
          BY <1>2
        <4>. QED BY <1>2, <4>1, <4>2, HasSame
      <3>8. Has(v, r, b, n, L + j) <=> kind # "remove"
        BY <1>2, <3>1, <3>3, HasAfter
      <3>9. \A i \in About(r, b, n) : r[i].kind = "add" <=> ~Has(v, r, b, n, i - 1)
        <4> DEFINE G(i) == r[i].kind = "add" <=> ~Has(v, r, b, n, i - 1)
        <4>1. G(L + j)
          BY <2>6, <3>3, <3>6
        <4>2. \A i \in About(r, b, n) : i \in 1..L => G(i)
          BY <2>7
        <4>. HIDE DEF G
        <4>3. \A i \in About(r, b, n) : G(i)
          BY <3>5, <4>1, <4>2
        <4>. QED BY <4>3 DEF G
      <3>. QED BY <3>1, <3>3, <3>7, <3>8, <3>9
    <2>. QED BY <2>8, <2>9
  <1>5. Leads(v, r, m2)
    BY <1>2, <1>4 DEF Leads
  <1>. QED BY <1>2, <1>5 DEF r, t

\* What an artifact is seen as after change e, when it was seen as s before.
Becomes(e, b, n, s) ==
  IF b = e.asset /\ n = e.node
  THEN CASE e.kind = "add" -> IF s = 0 THEN artifacts[b][n] ELSE s
         [] e.kind = "remove" -> 0
         [] e.kind = "update" -> IF s # 0 /\ artifacts[b][n] # 0 THEN artifacts[b][n] ELSE s
  ELSE s

LEMMA FollowIs ==
  ASSUME artifacts \in View, NEW v \in View, NEW e \in Change
  PROVE  /\ Follow(v, e) \in View
         /\ \A b \in Asset, n \in Node : Follow(v, e)[b][n] = Becomes(e, b, n, v[b][n])
  <1> DEFINE a == e.asset
             x == CASE e.kind = "add" -> IF v[a][e.node] = 0 THEN artifacts[a][e.node] ELSE v[a][e.node]
                    [] e.kind = "remove" -> 0
                    [] e.kind = "update" -> IF v[a][e.node] # 0 /\ artifacts[a][e.node] # 0
                                            THEN artifacts[a][e.node] ELSE v[a][e.node]
             row == [v[a] EXCEPT ![e.node] = x]
  <1>1. a \in Asset /\ e.node \in Node /\ e.kind \in {"add", "remove", "update"}
    BY DEF Change
  <1>2. v[a] \in [Node -> Nat] /\ artifacts[a] \in [Node -> Nat]
    BY <1>1 DEF View
  <1>3. x \in Nat
    <2>1. v[a][e.node] \in Nat /\ artifacts[a][e.node] \in Nat
      BY <1>1, <1>2
    <2>. QED BY <1>1, <2>1
  <1>4. Follow(v, e) = [v EXCEPT ![a] = row]
    BY DEF Follow
  <1>. HIDE DEF x
  <1>5. row \in [Node -> Nat] /\ \A n \in Node : row[n] = IF n = e.node THEN x ELSE v[a][n]
    BY <1>1, <1>2, <1>3
  <1>. HIDE DEF row
  <1>6. /\ Follow(v, e) \in View
        /\ \A b \in Asset : Follow(v, e)[b] = IF b = a THEN row ELSE v[b]
    BY <1>1, <1>4, <1>5 DEF View
  <1>7. \A b \in Asset, n \in Node :
          Follow(v, e)[b][n] = IF b = a /\ n = e.node THEN x ELSE v[b][n]
    BY <1>5, <1>6
  <1>8. ASSUME NEW b \in Asset, NEW n \in Node, b = a, n = e.node
        PROVE  x = CASE e.kind = "add" -> IF v[b][n] = 0 THEN artifacts[b][n] ELSE v[b][n]
                     [] e.kind = "remove" -> 0
                     [] e.kind = "update" ->
                          IF v[b][n] # 0 /\ artifacts[b][n] # 0 THEN artifacts[b][n] ELSE v[b][n]
    BY <1>1, <1>8 DEF x
  <1>. HIDE DEF a
  <1>9. Follow(v, e) \in View
    BY <1>6
  <1>10. ASSUME NEW b \in Asset, NEW n \in Node
         PROVE  Follow(v, e)[b][n] = Becomes(e, b, n, v[b][n])
    <2>1. Follow(v, e)[b][n] = IF b = a /\ n = e.node THEN x ELSE v[b][n]
      BY <1>7
    <2>2. CASE b = a /\ n = e.node
      BY <1>8, <2>1, <2>2 DEF a, Becomes
    <2>3. CASE ~(b = a /\ n = e.node)
      BY <2>1, <2>3 DEF a, Becomes
    <2>. QED BY <2>2, <2>3
  <1>. QED BY <1>9, <1>10

LEMMA Induction ==
  ASSUME NEW T, 0 \in T, \A n \in Nat : n \in T => n + 1 \in T
  PROVE  Nat \subseteq T
  <1> DEFINE R == OpToRel(<, Nat)
             S == Nat \ T
  <1>1. SUFFICES ASSUME S # {}
                 PROVE  FALSE
    OBVIOUS
  <1>2. \A x, y \in Nat : y < x => <<y, x>> \in R
    BY DEF OpToRel
  <1>3. IsWellFoundedOn(R, Nat) /\ S \subseteq Nat
    BY NatLessThanWellFounded
  <1>. HIDE DEF R
  <1>4. PICK x \in S : \A y \in S : <<y, x>> \notin R
    BY <1>1, <1>3, WFMin
  <1>5. x \in Nat /\ x # 0 /\ x - 1 \in Nat /\ x - 1 < x /\ (x - 1) + 1 = x
    OBVIOUS
  <1>6. x - 1 \in T
    BY <1>2, <1>4, <1>5
  <1>7. x \in T
    BY <1>5, <1>6
  <1>. QED BY <1>4, <1>7

Seen(v, q, k, g) == g = [i \in 0..k |-> IF i = 0 THEN v ELSE Follow(g[i - 1], q[i])]

LEMMA SeenExists ==
  ASSUME artifacts \in View, NEW v \in View, NEW q \in Seq(Change)
  PROVE  \A k \in 0..Len(q) : \E g \in [0..k -> View] : Seen(v, q, k, g)
  <1> DEFINE T == {k \in Nat : k <= Len(q) => \E g \in [0..k -> View] : Seen(v, q, k, g)}
  <1>0. Len(q) \in Nat /\ DOMAIN q = 1..Len(q) /\ \A i \in 1..Len(q) : q[i] \in Change
    BY Elements
  <1>1. 0 \in T
    <2> DEFINE g == [i \in 0..0 |-> v]
    <2>1. 0..0 = {0}
      OBVIOUS
    <2>2. g \in [0..0 -> View] /\ Seen(v, q, 0, g)
      BY <2>1 DEF Seen
    <2>. QED BY <2>2
  <1>2. ASSUME NEW k \in Nat, k \in T
        PROVE  k + 1 \in T
    <2>1. SUFFICES ASSUME k + 1 <= Len(q)
                   PROVE  \E g \in [0..(k + 1) -> View] : Seen(v, q, k + 1, g)
      OBVIOUS
    <2>2. k <= Len(q) /\ k + 1 \in 1..Len(q) /\ q[k + 1] \in Change
      BY <1>0, <2>1
    <2>3. PICK g \in [0..k -> View] : Seen(v, q, k, g)
      BY <1>2, <2>2
    <2>4. g[k] \in View /\ Follow(g[k], q[k + 1]) \in View
      <3>1. g[k] \in View
        BY <2>3
      <3>. QED BY <2>2, <3>1, FollowIs
    <2> DEFINE h == [i \in 0..(k + 1) |-> IF i = k + 1 THEN Follow(g[k], q[k + 1]) ELSE g[i]]
    <2>5. h \in [0..(k + 1) -> View]
      <3>1. ASSUME NEW i \in 0..(k + 1)
            PROVE  (IF i = k + 1 THEN Follow(g[k], q[k + 1]) ELSE g[i]) \in View
        <4>1. CASE i = k + 1
          BY <2>4, <4>1
        <4>2. CASE i # k + 1
          <5>1. i \in 0..k
            BY <4>2
          <5>. QED BY <2>3, <4>2, <5>1
        <4>. QED BY <4>1, <4>2
      <3>. QED BY <3>1
    <2>6. ASSUME NEW i \in 0..(k + 1)
          PROVE  h[i] = IF i = 0 THEN v ELSE Follow(h[i - 1], q[i])
      <3>1. CASE i = k + 1
        <4>1. i # 0 /\ i - 1 = k /\ k \in 0..(k + 1) /\ k # k + 1
          BY <3>1
        <4>2. h[k] = g[k] /\ h[i] = Follow(g[k], q[k + 1])
          BY <3>1, <4>1
        <4>. HIDE DEF h
        <4>. QED BY <3>1, <4>1, <4>2
      <3>2. CASE i # k + 1
        <4>1. i \in 0..k /\ h[i] = g[i]
          BY <3>2
        <4>2. g[i] = IF i = 0 THEN v ELSE Follow(g[i - 1], q[i])
          BY <2>3, <4>1 DEF Seen
        <4>3. i # 0 => i - 1 \in 0..(k + 1) /\ i - 1 # k + 1
          BY <4>1
        <4>4. i # 0 => h[i - 1] = g[i - 1]
          BY <4>3
        <4>. HIDE DEF h
        <4>. QED BY <4>1, <4>2, <4>4
      <3>. QED BY <3>1, <3>2
    <2>7. Seen(v, q, k + 1, h)
      <3>1. h = [i \in 0..(k + 1) |-> h[i]]
        OBVIOUS
      <3>. HIDE DEF h
      <3>. QED BY <2>6, <3>1 DEF Seen
    <2>. QED BY <2>5, <2>7
  <1>. HIDE DEF T
  <1>3. Nat \subseteq T
    BY <1>1, <1>2, Induction
  <1>. QED BY <1>0, <1>3 DEF T

\* The registry reads the changes one by one.
LEMMA FollowedIs ==
  ASSUME artifacts \in View, NEW v \in View, NEW q \in Seq(Change)
  PROVE  /\ Followed(v, q)[0] = v
         /\ \A i \in 1..Len(q) : Followed(v, q)[i] = Follow(Followed(v, q)[i - 1], q[i])
         /\ \A i \in 0..Len(q) : Followed(v, q)[i] \in View
  <1>1. Len(q) \in Nat /\ Len(q) \in 0..Len(q)
    OBVIOUS
  <1>2. \E g \in [0..Len(q) -> View] : Seen(v, q, Len(q), g)
    BY <1>1, SeenExists
  <1>3. Followed(v, q) = CHOOSE g : Seen(v, q, Len(q), g)
    BY DEF Followed, Seen
  <1>4. Seen(v, q, Len(q), Followed(v, q))
    BY <1>2, <1>3
  <1> DEFINE g == Followed(v, q)
  <1>5. g = [i \in 0..Len(q) |-> IF i = 0 THEN v ELSE Follow(g[i - 1], q[i])]
    BY <1>4 DEF Seen
  <1>. HIDE DEF g
  <1>6. \A i \in 0..Len(q) : g[i] = IF i = 0 THEN v ELSE Follow(g[i - 1], q[i])
    BY <1>5
  <1>7. g[0] = v /\ \A i \in 1..Len(q) : g[i] = Follow(g[i - 1], q[i])
    BY <1>1, <1>6
  <1> DEFINE T == {k \in Nat : k <= Len(q) => g[k] \in View}
  <1>8. 0 \in T
    BY <1>7
  <1>9. ASSUME NEW k \in Nat, k \in T
        PROVE  k + 1 \in T
    <2>1. CASE k + 1 <= Len(q)
      <3>1. k <= Len(q) /\ k + 1 \in 1..Len(q) /\ (k + 1) - 1 = k /\ q[k + 1] \in Change
        BY <1>1, <2>1
      <3>2. g[k + 1] = Follow(g[k], q[k + 1]) /\ g[k] \in View
        BY <1>7, <1>9, <3>1
      <3>3. g[k + 1] \in View
        BY <3>1, <3>2, FollowIs
      <3>. QED BY <3>3
    <2>. QED BY <2>1
  <1>. HIDE DEF T
  <1>10. Nat \subseteq T
    BY <1>8, <1>9, Induction
  <1>11. \A i \in 0..Len(q) : g[i] \in View
    BY <1>1, <1>10 DEF T
  <1>. QED BY <1>7, <1>11 DEF g

\* Once it has read the changes, the resource registry has what the map says.
LEMMA ViewFollows ==
  ASSUME artifacts \in View, NEW v \in View, NEW q \in Seq(Change), Leads(v, q, artifacts)
  PROVE  Followed(v, q)[Len(q)] = artifacts
  <1> DEFINE g == Followed(v, q)
             L == Len(q)
  <1>1. /\ L \in Nat /\ g[0] = v /\ \A i \in 0..L : g[i] \in View
        /\ \A i \in 1..L : g[i] = Follow(g[i - 1], q[i]) /\ q[i] \in Change
    BY Elements, FollowedIs
  <1>2. DOMAIN q = 1..L
    BY Elements
  <1>. HIDE DEF g, L
  <1>3. ASSUME NEW a \in Asset, NEW n \in Node
        PROVE  g[L][a][n] = artifacts[a][n]
    <2> DEFINE A == About(q, a, n)
               H(i) == Has(v, q, a, n, i)
               m == artifacts[a][n]
               Q(i) == /\ ~H(i) => g[i][a][n] = 0
                       /\ H(i) /\ m # 0 => g[i][a][n] = IF \A j \in A : j > i THEN v[a][n] ELSE m
               T == {k \in Nat : k <= L => Q(k)}
    <2>1. /\ A \subseteq 1..L /\ A \subseteq Nat
          /\ \A i \in A : q[i].kind = "add" <=> ~H(i - 1)
          /\ H(L) <=> m # 0
          /\ A = {} => v[a][n] = m
      BY AboutIs DEF Leads, L
    <2>2. m \in Nat /\ v[a][n] \in Nat /\ \A i \in 0..L : g[i][a][n] \in Nat
      BY <1>1 DEF View
    <2>3. \A i \in A : H(i) <=> q[i].kind # "remove"
      BY HasAfter
    <2>4. \A i \in Nat : i + 1 \notin A => (H(i + 1) <=> H(i))
      BY HasKept
    <2>5. H(0) <=> v[a][n] # 0
      <3>1. \A j \in A : j > 0
        BY <2>1
      <3>. QED BY <3>1 DEF Has
    <2>6. \A i \in 1..L : i \in A <=> q[i].asset = a /\ q[i].node = n
      BY <1>2 DEF About
    <2>. HIDE DEF A, H, m
    <2>7. 0 \in T
      <3>1. \A j \in A : j > 0
        BY <2>1
      <3>. QED BY <1>1, <2>5, <3>1
    <2>8. ASSUME NEW k \in Nat, k \in T
          PROVE  k + 1 \in T
      <3>1. SUFFICES ASSUME k + 1 <= L
                     PROVE  Q(k + 1)
        OBVIOUS
      <3>2. k \in 0..L /\ k + 1 \in 1..L /\ (k + 1) - 1 = k /\ Q(k)
        BY <1>1, <2>8, <3>1
      <3>3. /\ g[k + 1] = Follow(g[k], q[k + 1]) /\ q[k + 1] \in Change /\ g[k] \in View
        BY <1>1, <3>2
      <3> DEFINE x == g[k]
                 e == q[k + 1]
      <3>6. /\ x \in View /\ e \in Change /\ g[k + 1] = Follow(x, e)
            /\ k + 1 \in A <=> a = e.asset /\ n = e.node
        BY <2>6, <3>2, <3>3
      <3>. HIDE DEF x, e
      <3>7. g[k + 1][a][n] = Becomes(e, a, n, x[a][n])
        BY <3>6, FollowIs
      <3>4. CASE k + 1 \notin A
        <4>1. g[k + 1][a][n] = g[k][a][n]
          BY <3>4, <3>6, <3>7 DEF x, Becomes
        <4>2. (\A j \in A : j > k + 1) <=> (\A j \in A : j > k)
          BY <2>1, <3>4
        <4>3. H(k + 1) <=> H(k)
          BY <2>4, <3>4
        <4>. QED BY <3>2, <4>1, <4>2, <4>3
      <3>5. CASE k + 1 \in A
        <4>1. g[k + 1][a][n] =
                CASE q[k + 1].kind = "add" -> IF g[k][a][n] = 0 THEN m ELSE g[k][a][n]
                  [] q[k + 1].kind = "remove" -> 0
                  [] q[k + 1].kind = "update" -> IF g[k][a][n] # 0 /\ m # 0 THEN m ELSE g[k][a][n]
          BY <3>5, <3>6, <3>7 DEF m, x, e, Becomes
        <4>2. q[k + 1].kind \in {"add", "remove", "update"}
          BY <3>3 DEF Change
        <4>3. ~(\A j \in A : j > k + 1)
          BY <3>5
        <4>4. q[k + 1].kind = "add" <=> ~H(k)
          BY <2>1, <3>2, <3>5
        <4>5. H(k + 1) <=> q[k + 1].kind # "remove"
          BY <2>3, <3>5
        <4>6. H(k) /\ m # 0 => g[k][a][n] # 0
          <5>1. H(k) /\ (\A j \in A : j > k) => v[a][n] # 0
            <6>1. ASSUME \A j \in A : j > k, H(k)
                  PROVE  v[a][n] # 0
              BY <6>1 DEF H, Has, A
            <6>. QED BY <6>1
          <5>. QED BY <3>2, <5>1
        <4>7. CASE q[k + 1].kind = "add"
          BY <3>2, <4>1, <4>3, <4>4, <4>5, <4>7
        <4>8. CASE q[k + 1].kind = "remove"
          BY <4>1, <4>5, <4>8
        <4>9. CASE q[k + 1].kind = "update"
          BY <4>1, <4>3, <4>4, <4>5, <4>6, <4>9
        <4>. QED BY <4>2, <4>7, <4>8, <4>9
      <3>. QED BY <3>4, <3>5
    <2>. HIDE DEF T, Q
    <2>9. Nat \subseteq T
      BY <2>7, <2>8, Induction
    <2>10. Q(L)
      BY <1>1, <2>9 DEF T
    <2>11. (\A j \in A : j > L) => A = {}
      BY <1>1, <2>1
    <2>. QED BY <2>1, <2>10, <2>11 DEF Q, m
  <1>4. g[L] \in View
    BY <1>1
  <1>. QED BY <1>3, <1>4 DEF View, g, L

LEMMA FiniteChanges == IsFiniteSet(Change)
  <1> DEFINE K == {"add", "remove", "update"}
             S == K \X (Asset \X Node)
             f == [x \in S |-> [kind |-> x[1], asset |-> x[2][1], node |-> x[2][2]]]
  <1>1. IsFiniteSet(Asset)
    BY AssetFilesAssumption, FS_Interval DEF Asset
  <1>2. IsFiniteSet(Node)
    BY AssetFilesAssumption, FS_UNION DEF Node
  <1>3. IsFiniteSet(K)
    <2>1. IsFiniteSet({"add"}) /\ IsFiniteSet({"remove"}) /\ IsFiniteSet({"update"})
      BY FS_Singleton
    <2>2. IsFiniteSet({"add"} \cup {"remove"})
      BY <2>1, FS_Union
    <2>3. IsFiniteSet(({"add"} \cup {"remove"}) \cup {"update"})
      BY <2>1, <2>2, FS_Union
    <2>4. K = ({"add"} \cup {"remove"}) \cup {"update"}
      OBVIOUS
    <2>. QED BY <2>3, <2>4
  <1>. HIDE DEF K
  <1>4. IsFiniteSet(Asset \X Node)
    BY <1>1, <1>2, FS_Product
  <1>5. IsFiniteSet(S)
    BY <1>3, <1>4, FS_Product
  <1>6. f \in Surjection(S, Change)
    <2>1. f \in [S -> Change]
      BY DEF Change, K
    <2>2. ASSUME NEW e \in Change
          PROVE  \E x \in S : f[x] = e
      <3>1. <<e.kind, <<e.asset, e.node>>>> \in S
        BY DEF Change, K
      <3>2. f[<<e.kind, <<e.asset, e.node>>>>] = e
        BY <3>1 DEF Change
      <3>. QED BY <3>1, <3>2
    <2>. HIDE DEF f, S
    <2>. QED BY <2>1, <2>2 DEF Surjection
  <1>. HIDE DEF f, S
  <1>. QED BY <1>5, <1>6, FS_Surjection

\* The artifacts `nodes` of asset a change from the map m to m2.
AltersNodes(kind, a, nodes, m, m2) ==
  /\ \A n \in nodes : /\ m[a][n] = 0 <=> kind = "add"
                      /\ m2[a][n] = 0 <=> kind = "remove"
  /\ \A b \in Asset, n \in Node : m2[b][n] = m[b][n] \/ (b = a /\ n \in nodes)

\* Changes of one kind of the artifacts `nodes` of asset a.
LEMMA AnnouncedNodes ==
  ASSUME NEW q \in Seq(Change), NEW v \in View, NEW m \in View, NEW m2 \in View,
         NEW kind \in {"add", "remove", "update"}, NEW a \in Asset, NEW nodes \in SUBSET Node,
         Leads(v, q, m), AltersNodes(kind, a, nodes, m, m2)
  PROVE  /\ q \o Announce(kind, a, nodes) \in Seq(Change)
         /\ Leads(v, q \o Announce(kind, a, nodes), m2)
  <1> DEFINE E == {[kind |-> kind, asset |-> a, node |-> n] : n \in nodes}
  <1>1. E \in SUBSET Change
    BY DEF Change
  <1>2. IsFiniteSet(E)
    BY <1>1, FiniteChanges, FS_Subset
  <1>3. \A e \in E : /\ e.kind = kind
                     /\ m[e.asset][e.node] = 0 <=> kind = "add"
                     /\ m2[e.asset][e.node] = 0 <=> kind = "remove"
    BY DEF AltersNodes
  <1>4. \A b \in Asset, n \in Node : m2[b][n] = m[b][n] \/ \E e \in E : e.asset = b /\ e.node = n
    <2>1. ASSUME NEW n \in nodes
          PROVE  \E e \in E : e.asset = a /\ e.node = n
      <3>1. [kind |-> kind, asset |-> a, node |-> n] \in E
        OBVIOUS
      <3>. QED BY <3>1
    <2>. HIDE DEF E
    <2>. QED BY <2>1 DEF AltersNodes
  <1>5. Announce(kind, a, nodes) = SetToSeq(E)
    BY DEF Announce
  <1>. HIDE DEF E
  <1>6. Alters(E, kind, m, m2)
    BY <1>3, <1>4 DEF Alters
  <1>. QED BY <1>1, <1>2, <1>5, <1>6, Announced

\* Steps that neither change the map, nor announce, nor read.
LEMMA ViewKept ==
  ASSUME ViewInv, UNCHANGED <<artifacts, queue, view>>, main'.at = "off" => main.at = "off"
  PROVE  ViewInv'
  BY DEF ViewInv

LEMMA ViewAdded ==
  ASSUME IInv, ViewInv, FileAdded
  PROVE  ViewInv'
  <1> DEFINE a == metaAt[Head(batch).path]
  <1>1. UNCHANGED <<main, view>> /\ main.at # "off"
    BY DEF FileAdded, Handle
  <1>2. CASE UNCHANGED <<artifacts, queue>>
    BY <1>1, <1>2, ViewKept
  <1>3. CASE a \in Asset \ Known /\ proc[a] # 0 /\ AddArtifacts(a, Discovered(a))
    <2>. HIDE DEF a
    <2>1. /\ proc[a] \in Nat /\ OnDisk(proc[a]) = builds[proc[a]].nodes
          /\ builds[proc[a]].nodes \subseteq Node
      BY <1>3, ProcessOnDisk
    <2>2. Discovered(a) \in SUBSET Node
      BY <1>3, <2>1 DEF Discovered
    <2>3. artifacts \in View /\ artifacts[a] \in [Node -> Nat] /\ \A n \in Node : artifacts[a][n] = 0
      <3>1. {n \in Node : artifacts[a][n] # 0} = {}
        BY <1>3 DEF IInv, MapFollowsEntries
      <3>. QED BY <1>3, <3>1 DEF IInv, MemTypes, View
    <2>4. /\ artifacts' = [artifacts EXCEPT ![a] =
               [n \in Node |-> IF n \in Discovered(a) /\ @[n] = 0 THEN proc[a] ELSE @[n]]]
          /\ queue' = queue \o Announce("add", a, Discovered(a))
      BY <1>3 DEF AddArtifacts
    <2> DEFINE row == [n \in Node |-> IF n \in Discovered(a) /\ artifacts[a][n] = 0
                                      THEN proc[a] ELSE artifacts[a][n]]
    <2>5. row \in [Node -> Nat] /\ \A n \in Node : row[n] = IF n \in Discovered(a) THEN proc[a] ELSE 0
      BY <2>1, <2>3
    <2>6. artifacts' = [artifacts EXCEPT ![a] = row]
      BY <2>3, <2>4
    <2>. HIDE DEF row
    <2>7. artifacts' \in View /\ \A b \in Asset : artifacts'[b] = IF b = a THEN row ELSE artifacts[b]
      BY <1>3, <2>3, <2>5, <2>6 DEF View
    <2>8. \A n \in Discovered(a) : artifacts[a][n] = 0 /\ artifacts'[a][n] # 0
      BY <1>3, <2>2, <2>3, <2>5, <2>7
    <2>9. \A b \in Asset, n \in Node : artifacts'[b][n] = artifacts[b][n] \/ (b = a /\ n \in Discovered(a))
      BY <2>3, <2>5, <2>7
    <2>10. queue' \in Seq(Change) /\ Leads(view, queue', artifacts')
      <3>1. queue \in Seq(Change) /\ view \in View /\ Leads(view, queue, artifacts)
        BY DEF ViewInv, View
      <3>2. AltersNodes("add", a, Discovered(a), artifacts, artifacts')
        BY <2>8, <2>9 DEF AltersNodes
      <3>. QED BY <1>3, <2>2, <2>3, <2>4, <2>7, <3>1, <3>2, AnnouncedNodes
    <2>. QED BY <1>1, <2>10 DEF ViewInv
  <1>. QED BY <1>2, <1>3 DEF FileAdded

LEMMA ViewGone ==
  ASSUME IInv, ViewInv, FileRemoved
  PROVE  ViewInv'
  <1> DEFINE a == files[Head(batch).path]
  <1>1. UNCHANGED <<main, view>> /\ main.at # "off"
    BY DEF FileRemoved, Handle
  <1>2. CASE a \notin Known
    BY <1>1, <1>2, ViewKept DEF FileRemoved
  <1>3. CASE a \in Known
    <2>1. /\ artifacts' = [artifacts EXCEPT ![a] = [n \in Node |->
               IF n \in entries[a].nodes THEN 0 ELSE @[n]]]
          /\ queue' = queue \o Announce("remove", a, entries[a].nodes)
      BY <1>3 DEF FileRemoved
    <2>. HIDE DEF a
    <2>2. /\ a \in Asset /\ artifacts \in View /\ artifacts[a] \in [Node -> Nat]
          /\ {n \in Node : artifacts[a][n] # 0} = entries[a].nodes
      <3>1. a \in Asset /\ artifacts \in [Asset -> [Node -> Nat]]
        BY <1>3 DEF IInv, MemTypes
      <3>2. {n \in Node : artifacts[a][n] # 0} = entries[a].nodes
        BY <1>3, <3>1 DEF IInv, MapFollowsEntries
      <3>. QED BY <3>1, <3>2 DEF View
    <2> DEFINE row == [n \in Node |-> IF n \in entries[a].nodes THEN 0 ELSE artifacts[a][n]]
    <2>3. row \in [Node -> Nat] /\ \A n \in Node : row[n] = 0
      BY <2>2
    <2>4. artifacts' = [artifacts EXCEPT ![a] = row]
      BY <2>1, <2>2
    <2>. HIDE DEF row
    <2>5. artifacts' \in View /\ \A b \in Asset : artifacts'[b] = IF b = a THEN row ELSE artifacts[b]
      BY <2>2, <2>3, <2>4 DEF View
    <2>6. entries[a].nodes \in SUBSET Node /\ \A n \in entries[a].nodes : artifacts[a][n] # 0 /\ artifacts'[a][n] = 0
      BY <2>2, <2>3, <2>5
    <2>7. \A b \in Asset, n \in Node : artifacts'[b][n] = artifacts[b][n] \/ (b = a /\ n \in entries[a].nodes)
      BY <2>2, <2>3, <2>5
    <2>8. queue' \in Seq(Change) /\ Leads(view, queue', artifacts')
      <3>1. queue \in Seq(Change) /\ view \in View /\ Leads(view, queue, artifacts)
        BY DEF ViewInv, View
      <3>2. AltersNodes("remove", a, entries[a].nodes, artifacts, artifacts')
        BY <2>6, <2>7 DEF AltersNodes
      <3>. QED BY <2>1, <2>2, <2>5, <2>6, <3>1, <3>2, AnnouncedNodes
    <2>. QED BY <1>1, <2>8 DEF ViewInv
  <1>. QED BY <1>2, <1>3

LEMMA ViewModified ==
  ASSUME IInv, ViewInv, FileModified
  PROVE  ViewInv'
  <1> DEFINE p == Head(batch).path
             a == metaAt[p]
             k == proc[a]
             old == entries[a].nodes
             new == builds[k].nodes
             added == (new \ old) \cap OnDisk(k)
  <1>1. UNCHANGED <<main, view>> /\ main.at # "off"
    BY DEF FileModified, Handle
  <1>2. CASE ~(a \in Known /\ files[p] # NoAsset /\ k # 0)
    BY <1>1, <1>2, ViewKept DEF FileModified
  <1>3. CASE a \in Known /\ files[p] # NoAsset /\ k # 0
    <2>1. /\ artifacts' = [artifacts EXCEPT ![a] = [n \in Node |->
               IF n \in old \ new THEN 0
               ELSE IF n \in added \/ (n \in old \cap new /\ @[n] # 0) THEN k ELSE @[n]]]
          /\ queue' = queue \o Announce("remove", a, old \ new)
                            \o Announce("add", a, added)
                            \o Announce("update", a, old \cap new)
      BY <1>3 DEF FileModified
    <2>. HIDE DEF p, a
    <2>2. /\ a \in Asset /\ artifacts \in View /\ artifacts[a] \in [Node -> Nat]
          /\ {n \in Node : artifacts[a][n] # 0} = old
      <3>1. a \in Asset /\ artifacts \in [Asset -> [Node -> Nat]]
        BY <1>3 DEF IInv, MemTypes
      <3>2. {n \in Node : artifacts[a][n] # 0} = old
        BY <1>3, <3>1 DEF IInv, MapFollowsEntries
      <3>. QED BY <3>1, <3>2 DEF View
    <2>3. k \in Nat /\ OnDisk(k) = new /\ new \subseteq Node /\ k # 0
      BY <1>3, <2>2, ProcessOnDisk
    <2>. HIDE DEF k, old, new
    <2>4. /\ added = new \ old /\ added \in SUBSET Node
          /\ old \ new \in SUBSET Node /\ old \cap new \in SUBSET Node
      BY <2>2, <2>3
    <2> DEFINE row == [n \in Node |->
                 IF n \in old \ new THEN 0
                 ELSE IF n \in added \/ (n \in old \cap new /\ artifacts[a][n] # 0)
                      THEN k ELSE artifacts[a][n]]
    <2>5. artifacts' = [artifacts EXCEPT ![a] = row]
      BY <2>1, <2>2
    <2>. HIDE DEF added
    <2>6. row \in [Node -> Nat] /\ \A n \in Node : row[n] = IF n \in new THEN k ELSE 0
      BY <2>2, <2>3, <2>4
    <2>. HIDE DEF row
    <2> DEFINE r1 == [n \in Node |-> IF n \in new THEN artifacts[a][n] ELSE 0]
               m1 == [artifacts EXCEPT ![a] = r1]
               r2 == [n \in Node |-> IF n \in added THEN k ELSE r1[n]]
               m2 == [artifacts EXCEPT ![a] = r2]
    <2>7. r1 \in [Node -> Nat] /\ r2 \in [Node -> Nat]
      BY <2>2, <2>3
    <2>8. /\ m1 \in View /\ \A b \in Asset : m1[b] = IF b = a THEN r1 ELSE artifacts[b]
          /\ m2 \in View /\ \A b \in Asset : m2[b] = IF b = a THEN r2 ELSE artifacts[b]
          /\ artifacts' \in View /\ \A b \in Asset : artifacts'[b] = IF b = a THEN row ELSE artifacts[b]
      <3>. HIDE DEF r1, r2
      <3>. QED BY <2>2, <2>5, <2>6, <2>7 DEF View
    <2>9. \A n \in Node : artifacts[a][n] # 0 <=> n \in old
      BY <2>2
    <2>10. /\ \A n \in Node : r1[n] = IF n \in new THEN artifacts[a][n] ELSE 0
           /\ \A n \in Node : r2[n] = IF n \in added THEN k ELSE r1[n]
      OBVIOUS
    <2>. HIDE DEF r1, r2, m1, m2
    <2>11. AltersNodes("remove", a, old \ new, artifacts, m1)
      BY <2>2, <2>4, <2>8, <2>9, <2>10 DEF AltersNodes
    <2>12. AltersNodes("add", a, added, m1, m2)
      <3>1. \A n \in added : m1[a][n] = 0 /\ m2[a][n] # 0
        BY <2>2, <2>3, <2>4, <2>8, <2>9, <2>10
      <3>2. \A b \in Asset, n \in Node : m2[b][n] = m1[b][n] \/ (b = a /\ n \in added)
        BY <2>8, <2>10
      <3>. QED BY <3>1, <3>2 DEF AltersNodes
    <2>13. AltersNodes("update", a, old \cap new, m2, artifacts')
      <3>1. ASSUME NEW n \in Node
            PROVE  m2[a][n] = IF n \in new THEN (IF n \in old THEN artifacts[a][n] ELSE k) ELSE 0
        BY <2>2, <2>4, <2>8, <2>10
      <3>2. \A n \in Node : artifacts'[a][n] = IF n \in new THEN k ELSE 0
        BY <2>2, <2>6, <2>8
      <3>3. \A n \in old \cap new : m2[a][n] # 0 /\ artifacts'[a][n] # 0
        BY <2>3, <2>4, <2>9, <3>1, <3>2
      <3>4. \A b \in Asset, n \in Node : artifacts'[b][n] = m2[b][n] \/ (b = a /\ n \in old \cap new)
        BY <2>8, <3>1, <3>2
      <3>. QED BY <3>3, <3>4 DEF AltersNodes
    <2> DEFINE q1 == queue \o Announce("remove", a, old \ new)
               q2 == q1 \o Announce("add", a, added)
               q3 == q2 \o Announce("update", a, old \cap new)
    <2>14. view \in View /\ queue \in Seq(Change) /\ Leads(view, queue, artifacts)
      BY DEF ViewInv, View
    <2>15. q1 \in Seq(Change) /\ Leads(view, q1, m1)
      BY <2>2, <2>4, <2>8, <2>11, <2>14, AnnouncedNodes
    <2>. HIDE DEF q1
    <2>16. q2 \in Seq(Change) /\ Leads(view, q2, m2)
      BY <2>2, <2>4, <2>8, <2>12, <2>14, <2>15, AnnouncedNodes
    <2>. HIDE DEF q2
    <2>17. q3 \in Seq(Change) /\ Leads(view, q3, artifacts')
      BY <2>2, <2>4, <2>8, <2>13, <2>14, <2>16, AnnouncedNodes
    <2>18. queue' = q3
      BY <2>1 DEF q1, q2, added
    <2>. QED BY <1>1, <2>14, <2>17, <2>18 DEF ViewInv, View
  <1>. QED BY <1>2, <1>3

\* The view is the map, and nothing is left to be read.
LEMMA ViewRead ==
  ASSUME NEW v, NEW m, v = m
  PROVE  Leads(v, << >>, m)
  <1>1. \A a, n : About(<< >>, a, n) = {}
    BY DEF About
  <1>2. \A a, n : Has(v, << >>, a, n, Len(<< >>)) <=> v[a][n] # 0
    BY <1>1 DEF Has
  <1>. QED BY <1>1, <1>2 DEF Leads

LEMMA ViewUpdated ==
  ASSUME IInv, ViewInv, ResourceUpdate
  PROVE  ViewInv'
  <1>1. /\ view' = Followed(view, queue)[Len(queue)] /\ queue' = << >>
        /\ artifacts' = artifacts /\ main' = [at |-> "idle"]
    BY DEF ResourceUpdate, Idle
  <1>2. artifacts \in View /\ view \in View /\ queue \in Seq(Change) /\ Leads(view, queue, artifacts)
    BY DEF ViewInv, View, IInv, MemTypes
  <1>3. view' = artifacts
    BY <1>1, <1>2, ViewFollows
  <1>4. Leads(view', queue', artifacts')
    BY <1>1, <1>3, ViewRead
  <1>5. queue' \in Seq(Change) /\ view' \in View /\ main'.at # "off"
    BY <1>1, <1>2, <1>3
  <1>. QED BY <1>4, <1>5 DEF ViewInv, View

LEMMA NothingKnown == NoArtifacts \in View /\ Leads(NoArtifacts, << >>, NoArtifacts)
  BY ViewRead DEF NoArtifacts, View

LEMMA ViewCrashed ==
  ASSUME Crash
  PROVE  ViewInv'
  <1>1. view' = NoArtifacts /\ artifacts' = NoArtifacts /\ queue' = << >>
    BY DEF Crash
  <1>2. << >> \in Seq(Change)
    OBVIOUS
  <1>. QED BY <1>1, <1>2, NothingKnown DEF ViewInv, View

LEMMA ViewStarted ==
  ASSUME IInv, ViewInv, Discover
  PROVE  ViewInv'
  <1> DEFINE found == Range(metaAt) \ {NoAsset}
             E == {e \in [kind : {"add"}, asset : found, node : Node] : e.node \in Discovered(e.asset)}
  <1>1. /\ main.at = "off" /\ main' = [at |-> "idle"] /\ view' = view
        /\ queue' = SetToSeq(E)
        /\ artifacts' = [a \in Asset |-> [n \in Node |->
             IF a \in found /\ n \in Discovered(a) THEN proc[a] ELSE 0]]
    BY DEF Discover, Idle
  <1>2. found \subseteq Asset /\ proc \in [Asset -> Nat]
    BY DEF IInv, DiskTypes, Range
  <1>3. view = NoArtifacts /\ queue = << >> /\ Leads(NoArtifacts, << >>, NoArtifacts) /\ NoArtifacts \in View
    BY <1>1, NothingKnown DEF ViewInv
  <1>4. E \in SUBSET Change /\ IsFiniteSet(E)
    <2>1. E \in SUBSET Change
      BY <1>2 DEF Change
    <2>. HIDE DEF E
    <2>. QED BY <2>1, FiniteChanges, FS_Subset
  <1>5. artifacts' \in View
    BY <1>1, <1>2 DEF View
  <1>6. Alters(E, "add", NoArtifacts, artifacts')
    <2>1. ASSUME NEW e \in E
          PROVE  e.kind = "add" /\ NoArtifacts[e.asset][e.node] = 0 /\ artifacts'[e.asset][e.node] # 0
      <3>1. e.kind = "add" /\ e.asset \in found /\ e.asset \in Asset /\ e.node \in Node /\ e.node \in Discovered(e.asset)
        BY <1>2
      <3>2. proc[e.asset] # 0
        BY <3>1 DEF Discovered
      <3>. HIDE DEF found, E
      <3>. QED BY <1>1, <3>1, <3>2 DEF NoArtifacts
    <2>2. ASSUME NEW b \in Asset, NEW n \in Node
          PROVE  artifacts'[b][n] = NoArtifacts[b][n] \/ \E e \in E : e.asset = b /\ e.node = n
      <3>1. CASE b \in found /\ n \in Discovered(b)
        <4>1. [kind |-> "add", asset |-> b, node |-> n] \in E
          BY <3>1
        <4>. HIDE DEF E
        <4>. QED BY <4>1
      <3>2. CASE ~(b \in found /\ n \in Discovered(b))
        <4>. HIDE DEF found, E
        <4>. QED BY <1>1, <3>2 DEF NoArtifacts
      <3>. QED BY <3>1, <3>2
    <2>. HIDE DEF E
    <2>. QED BY <2>1, <2>2 DEF Alters
  <1>. HIDE DEF E
  <1>7. << >> \in Seq(Change)
    OBVIOUS
  <1>8. << >> \o SetToSeq(E) \in Seq(Change) /\ Leads(NoArtifacts, << >> \o SetToSeq(E), artifacts')
    BY <1>3, <1>4, <1>5, <1>6, <1>7, Announced
  <1>9. SetToSeq(E) \in Seq(E)
    BY <1>4, Listed
  <1>10. << >> \o SetToSeq(E) = SetToSeq(E)
    BY <1>9
  <1>. QED BY <1>1, <1>3, <1>8, <1>10 DEF ViewInv, View

LEMMA ViewInitial ==
  ASSUME Init
  PROVE  ViewInv
  <1>1. view = NoArtifacts /\ artifacts = NoArtifacts /\ queue = << >>
    BY DEF Init
  <1>2. << >> \in Seq(Change)
    OBVIOUS
  <1>. QED BY <1>1, <1>2, NothingKnown DEF ViewInv, View

\* The resource registry can always follow the map of artifacts.
THEOREM ViewLeads == Spec => []ViewInv
  <1>1. Init => ViewInv
    BY ViewInitial
  <1>2. IInv /\ ViewInv /\ [Next]_vars => ViewInv'
    <2>. SUFFICES ASSUME IInv, ViewInv, [Next]_vars
                  PROVE  ViewInv'
      OBVIOUS
    <2>1. CASE UpdateBegin
      BY <2>1, ViewKept DEF UpdateBegin
    <2>2. CASE ReadEvents
      BY <2>2, ViewKept DEF ReadEvents
    <2>3. ASSUME NEW k \in DOMAIN imports, ImportFails(k)
          PROVE  ViewInv'
      BY <2>3, ViewKept DEF ImportFails
    <2>4. ASSUME NEW k \in DOMAIN imports, FinalizeBegin(k)
          PROVE  ViewInv'
      BY <2>4, ViewKept DEF FinalizeBegin
    <2>5. CASE FinalizeArtifacts
      <3>1. main'.at = "process"
        BY <2>5 DEF FinalizeArtifacts, IInv, MemTypes, Working, Finalizing
      <3>. QED BY <2>5, <3>1, ViewKept DEF FinalizeArtifacts
    <2>6. CASE FinalizeProcess
      <3>1. main'.at = "meta"
        BY <2>6 DEF FinalizeProcess, IInv, MemTypes, Working, Finalizing
      <3>. QED BY <2>6, <3>1, ViewKept DEF FinalizeProcess
    <2>7. CASE FinalizeMeta
      <3>1. main'.at = "sources"
        BY <2>7 DEF FinalizeMeta, IInv, MemTypes, Working, Finalizing
      <3>. QED BY <2>7, <3>1, ViewKept DEF FinalizeMeta
    <2>8. CASE FinalizeSources
      BY <2>8, ViewKept DEF FinalizeSources
    <2>9. CASE FileAdded
      BY <2>9, ViewAdded
    <2>10. CASE FileRemoved
      BY <2>10, ViewGone
    <2>11. CASE FileRenamed
      BY <2>11, ViewKept DEF FileRenamed, Handle
    <2>12. CASE FileModified
      BY <2>12, ViewModified
    <2>13. CASE ResourceUpdate
      BY <2>13, ViewUpdated
    <2>14. CASE Import
      BY <2>14, ViewKept DEF Import
    <2>15. ASSUME NEW a \in Asset, Process(a) \/ SaveAsset(a)
           PROVE  ViewInv'
      BY <2>15, ViewKept DEF Process, SaveAsset
    <2>16. ASSUME NEW p \in Path, NEW q \in Path, Delete(p) \/ Restore(p) \/ Rename(p, q) \/ Copy(p, q)
           PROVE  ViewInv'
      BY <2>16, ViewKept DEF Delete, Restore, Rename, Copy, User
    <2>17. CASE Crash
      BY <2>17, ViewCrashed
    <2>18. CASE Discover
      BY <2>18, ViewStarted
    <2>19. ASSUME NEW k \in DOMAIN imports, JobEnds(k)
           PROVE  ViewInv'
      BY <2>19, ViewKept DEF JobEnds
    <2>20. CASE UNCHANGED vars
      BY <2>20, ViewKept DEF vars, memVars
    <2>21. CASE Update
      BY <2>1, <2>2, <2>3, <2>4, <2>5, <2>6, <2>7, <2>8, <2>9, <2>10, <2>11, <2>12, <2>13, <2>21 DEF Update
    <2>22. CASE Requests
      BY <2>14, <2>15, <2>22 DEF Requests
    <2>23. CASE Users
      BY <2>16, <2>23 DEF Users
    <2>. QED BY <2>17, <2>18, <2>19, <2>20, <2>21, <2>22, <2>23 DEF Next
  <1>. QED BY <1>1, <1>2, Inductive, PTL DEF Spec

\* When the resource registry has read the provider's events, it has exactly the
\* artifacts of the map, at their current paths (iterate_resource_events).
THEOREM ResourcesInStep == Spec => []ResourcesFollow
  <1>1. IInv /\ ViewInv => ResourcesFollow
    <2>. SUFFICES ASSUME IInv, ViewInv, queue = << >>
                  PROVE  view = artifacts
      BY DEF ResourcesFollow
    <2>1. view \in View /\ artifacts \in View /\ Leads(view, queue, artifacts)
      BY DEF ViewInv, View, IInv, MemTypes
    <2>2. \A a, n : About(<< >>, a, n) = {}
      BY DEF About
    <2>3. \A a \in Asset, n \in Node : view[a][n] = artifacts[a][n]
      BY <2>1, <2>2 DEF Leads
    <2>. QED BY <2>1, <2>3 DEF View
  <1>. QED BY <1>1, Inductive, ViewLeads, PTL

-----------------------------------------------------------------------------
(* Assets that are imported for the first time. *)

\* What is left when the k-th element is removed, and where it was.
LEMMA RemovedFrom ==
  ASSUME NEW S, NEW s \in Seq(S), NEW k \in DOMAIN s
  PROVE  \E f \in [DOMAIN RemoveAt(s, k) -> DOMAIN s \ {k}] :
           /\ \A i \in DOMAIN RemoveAt(s, k) : RemoveAt(s, k)[i] = s[f[i]]
           /\ \A i, j \in DOMAIN RemoveAt(s, k) : f[i] = f[j] => i = j
  <1>1. Len(s) \in Nat /\ k \in 1..Len(s) /\ DOMAIN s = 1..Len(s)
    OBVIOUS
  <1> DEFINE p == SubSeq(s, 1, k - 1)
             q == SubSeq(s, k + 1, Len(s))
             r == p \o q
             f == [i \in 1..(Len(s) - 1) |-> IF i < k THEN i ELSE i + 1]
  <1>2. /\ p \in Seq(S) /\ Len(p) = k - 1
        /\ \A i \in 1..(k - 1) : p[i] = s[i]
    BY <1>1
  <1>3. /\ q \in Seq(S) /\ Len(q) = Len(s) - k
        /\ \A i \in 1..(Len(s) - k) : q[i] = s[k + i]
    BY <1>1
  <1>4. /\ Len(r) = Len(s) - 1 /\ DOMAIN r = 1..(Len(s) - 1)
        /\ \A i \in 1..(k - 1) : r[i] = p[i]
        /\ \A i \in 1..(Len(s) - k) : r[(k - 1) + i] = q[i]
    <2>. HIDE DEF p, q
    <2>1. Len(p) + Len(q) = Len(s) - 1
      BY <1>1, <1>2, <1>3
    <2>2. /\ Len(r) = Len(p) + Len(q) /\ DOMAIN r = 1..(Len(p) + Len(q))
          /\ \A i \in 1..Len(p) : r[i] = p[i]
          /\ \A i \in 1..Len(q) : r[Len(p) + i] = q[i]
      <3>1. p \in Seq(S) /\ q \in Seq(S)
        BY <1>2, <1>3
      <3>. HIDE DEF p, q
      <3>. QED BY <3>1, Joined
    <2>. HIDE DEF r
    <2>. QED BY <1>2, <1>3, <2>1, <2>2
  <1>5. RemoveAt(s, k) = r
    BY DEF RemoveAt
  <1>. HIDE DEF p, q, r
  <1>6. ASSUME NEW i \in DOMAIN r
        PROVE  r[i] = s[f[i]] /\ f[i] \in DOMAIN s \ {k} /\ f[i] = IF i < k THEN i ELSE i + 1
    <2>1. i \in 1..(Len(s) - 1) /\ f[i] = IF i < k THEN i ELSE i + 1
      BY <1>4
    <2>2. CASE i < k
      <3>1. i \in 1..(k - 1) /\ i \in DOMAIN s
        BY <1>1, <2>1, <2>2
      <3>. QED BY <1>2, <1>4, <2>1, <2>2, <3>1
    <2>3. CASE ~ (i < k)
      <3>1. (i - k) + 1 \in 1..(Len(s) - k) /\ (k - 1) + ((i - k) + 1) = i /\ k + ((i - k) + 1) = i + 1
            /\ i + 1 \in 1..Len(s) /\ i + 1 # k
        BY <1>1, <2>1, <2>3
      <3>2. r[(k - 1) + ((i - k) + 1)] = s[k + ((i - k) + 1)]
        BY <1>3, <1>4, <3>1
      <3>. QED BY <1>1, <2>1, <2>3, <3>1, <3>2
    <2>. QED BY <2>2, <2>3
  <1>7. f \in [DOMAIN r -> DOMAIN s \ {k}]
    BY <1>4, <1>6
  <1>8. \A i, j \in DOMAIN r : f[i] = f[j] => i = j
    <2>1. \A i, j \in 1..(Len(s) - 1) :
            (IF i < k THEN i ELSE i + 1) = (IF j < k THEN j ELSE j + 1) => i = j
      BY <1>1
    <2>. QED BY <1>4, <1>6, <2>1
  <1>. HIDE DEF f
  <1>. QED BY <1>5, <1>6, <1>7, <1>8

\* A step that changes neither files nor where the registry knows assets to be.
Still ==
  /\ UNCHANGED <<metaAt, files, raced, trash, artifacts>>
  /\ Known' = Known /\ \A b \in Known : entries'[b].path = entries[b].path

LEMMA StillThere ==
  ASSUME Still
  PROVE  /\ \A a, p : At(a, p)' <=> At(a, p)
         /\ \A a : Untouched(a)' <=> Untouched(a)
         /\ \A a : Places(a)' = Places(a)
         /\ \A a : Clean(a)' <=> Clean(a)
  <1>1. \A a, p : At(a, p)' <=> At(a, p)
    BY DEF Still, At
  <1>2. \A a : Untouched(a)' <=> Untouched(a)
    BY DEF Still, Untouched
  <1>3. ASSUME NEW a
        PROVE  Places(a)' = Places(a)
    BY DEF Still, Places
  <1>4. \A a : Clean(a)' <=> Clean(a)
    BY <1>3 DEF Still, Clean
  <1>. QED BY <1>1, <1>2, <1>3, <1>4

LEMMA StillSame ==
  ASSUME UNCHANGED <<metaAt, files, entries, raced, trash, artifacts>>
  PROVE  Still
  BY DEF Still, Known

LEMMA StillBusy ==
  ASSUME MemTypes, NEW a \in Known, NEW busy \in BOOLEAN, entries' = SetBusy(a, busy),
         UNCHANGED <<metaAt, files, raced, trash, artifacts>>
  PROVE  Still
  BY BusySet DEF Still

LEMMA StillPushed ==
  ASSUME MemTypes, NEW a, NEW p, NEW nodes, NEW reimport \in BOOLEAN, reimport => a \in Known,
         PushImport(a, p, nodes, reimport),
         UNCHANGED <<metaAt, files, raced, trash, artifacts>>
  PROVE  Still
  <1>1. CASE entries' = entries
    BY <1>1, StillSame
  <1>2. CASE reimport /\ entries' = SetBusy(a, TRUE)
    BY <1>2, StillBusy
  <1>. QED BY <1>1, <1>2 DEF PushImport

\* A step with the same imports, that leaves alone what was untouched.
LEMMA BirthKept ==
  ASSUME IInv, BirthInv,
         UNCHANGED <<imports, born>>, \A a \in Asset : Untouched(a) => Untouched(a)',
         \/ main' = main /\ (\A a, p : At(a, p) => At(a, p)')
         \/ main'.at \notin {"artifacts", "process", "meta", "off"},
         batch' # << >> => main'.at = "events",
         main'.at = "off" => events' = events
  PROVE  BirthInv'
  <1>1. \A a \in Asset : a > born' => Untouched(a)'
    BY DEF BirthInv
  <1>2. NewImports'
    <2>1. imports \in Seq(ImportJob)
      BY DEF IInv, MemTypes
    <2>2. \A k \in DOMAIN imports : imports[k].asset \in Asset
      <3>1. \A k \in DOMAIN imports : imports[k] \in ImportJob
        BY <2>1, Elements
      <3>. QED BY <3>1 DEF ImportJob
    <2>. QED BY <2>2 DEF BirthInv, NewImports
  <1>3. NewMeta'
    <2>1. main.at \in {"artifacts", "process", "meta"} => main.import.asset \in Asset
      BY Current DEF IInv
    <2>. QED BY <2>1 DEF BirthInv, NewMeta
  <1>4. main'.at = "off" => imports' = << >> /\ events' = << >>
    BY DEF BirthInv
  <1>. QED BY <1>1, <1>2, <1>3, <1>4 DEF BirthInv

\* Imports that are among those there were.
LEMMA ImportsFrom ==
  ASSUME NewImports, UNCHANGED born, \A a : Untouched(a) => Untouched(a)',
         NEW f \in [DOMAIN imports' -> DOMAIN imports],
         \A i \in DOMAIN imports' :
           imports'[i].asset = imports[f[i]].asset /\ imports'[i].reimport = imports[f[i]].reimport,
         \A i, j \in DOMAIN imports' : f[i] = f[j] => i = j
  PROVE  NewImports'
  <1>1. ASSUME NEW k \in DOMAIN imports'
        PROVE  imports'[k].asset <= born'
    BY <1>1 DEF NewImports
  <1>2. ASSUME NEW k \in DOMAIN imports', ~imports'[k].reimport
        PROVE  Untouched(imports[k].asset)'
    <2>1. Untouched(imports[f[k]].asset)
      BY <1>2 DEF NewImports
    <2>2. imports'[k].asset = imports[f[k]].asset
      OBVIOUS
    <2>3. \A a : Untouched(a) => a \notin Known' /\ \A p \in Path : a \notin {metaAt'[p], files'[p], trash'[p]}
      BY DEF Untouched
    <2>4. /\ imports'[k].asset \notin Known'
          /\ \A p \in Path : imports'[k].asset \notin {metaAt'[p], files'[p], trash'[p]}
      BY <2>1, <2>2, <2>3
    <2>. QED BY <2>4 DEF Untouched
  <1>3. ASSUME NEW k \in DOMAIN imports', ~imports'[k].reimport,
               NEW l \in DOMAIN imports' \ {k}, ~imports'[l].reimport
        PROVE  imports'[l].asset # imports'[k].asset
    <2>1. f[l] \in DOMAIN imports \ {f[k]}
      BY <1>3
    <2>. QED BY <1>3, <2>1 DEF NewImports
  <1>. QED BY <1>1, <1>2, <1>3 DEF NewImports

\* An import of an asset that was known before, or is the last one born.
LEMMA ImportsGrow ==
  ASSUME IInv, BirthInv, Still, born' \in Nat, born <= born',
         NEW job \in ImportJob, imports' = Append(imports, job), job.asset <= born',
         ~job.reimport => job.asset > born
  PROVE  NewImports'
  <1>1. imports \in Seq(ImportJob) /\ born \in Nat
    BY DEF IInv, MemTypes
  <1>2. Len(imports) \in Nat /\ DOMAIN imports = 1..Len(imports)
        /\ \A k \in DOMAIN imports : imports[k] \in ImportJob
    BY <1>1, Elements
  <1>3. /\ DOMAIN imports' = 1..(Len(imports) + 1)
        /\ \A k \in DOMAIN imports : imports'[k] = imports[k]
        /\ imports'[Len(imports) + 1] = job
    BY <1>1, Appended
  <1>4. \A k \in DOMAIN imports' : k \in DOMAIN imports \/ (k = Len(imports) + 1 /\ imports'[k] = job)
    BY <1>2, <1>3
  <1>5. NewImports /\ \A a \in Asset : a > born => Untouched(a)
    BY DEF BirthInv
  <1>6. \A x \in Asset : x \in Nat
    BY AssetFilesAssumption DEF Asset
  <1>7. \A j \in ImportJob : j.asset \in Asset
    BY DEF ImportJob
  <1>8. \A k \in DOMAIN imports : imports[k].asset <= born /\ imports[k].asset \in Nat
    BY <1>2, <1>5, <1>6, <1>7 DEF NewImports
  <1>9. \A x, y, z \in Nat : x <= y /\ y <= z => x <= z
    OBVIOUS
  <1>10. \A k \in DOMAIN imports' : imports'[k].asset <= born'
    <2>1. \A k \in DOMAIN imports : imports[k].asset <= born'
      BY <1>1, <1>8, <1>9
    <2>. QED BY <1>3, <1>4, <2>1
  <1>11. \A k \in DOMAIN imports' : ~imports'[k].reimport => Untouched(imports'[k].asset)
    BY <1>3, <1>4, <1>5, <1>7 DEF NewImports
  <1>12. ASSUME NEW k \in DOMAIN imports', ~imports'[k].reimport,
                NEW l \in DOMAIN imports' \ {k}, ~imports'[l].reimport
         PROVE  imports'[l].asset # imports'[k].asset
    <2>1. \A x, y \in Nat : x <= born /\ y > born => x # y
      BY <1>1
    <2>2. job.asset \in Nat
      BY <1>6, <1>7
    <2>3. CASE k \in DOMAIN imports /\ l \in DOMAIN imports
      BY <1>3, <1>5, <1>12, <2>3 DEF NewImports
    <2>4. CASE k \notin DOMAIN imports
      <3>1. l \in DOMAIN imports
        BY <1>4, <1>12, <2>4
      <3>. QED BY <1>3, <1>4, <1>8, <1>12, <2>1, <2>2, <2>4, <3>1
    <2>5. CASE l \notin DOMAIN imports
      <3>1. k \in DOMAIN imports
        BY <1>4, <1>12, <2>5
      <3>. QED BY <1>3, <1>4, <1>8, <1>12, <2>1, <2>2, <2>5, <3>1
    <2>. QED BY <2>3, <2>4, <2>5
  <1>13. \A a : Untouched(a) => a \notin Known' /\ \A p \in Path : a \notin {metaAt'[p], files'[p], trash'[p]}
    BY DEF Untouched, Still
  <1>. QED BY <1>10, <1>11, <1>12, <1>13 DEF NewImports, Untouched

LEMMA BirthImported ==
  ASSUME IInv, BirthInv, Import
  PROVE  BirthInv'
  <1>1. MemTypes
    BY DEF IInv
  <1>2. /\ main.at = "idle" /\ born < MaxAssets /\ born' = born + 1
        /\ UNCHANGED <<diskVars, files, artifacts, main, events, batch, queue, view, trash,
                       userOps, saves, crashes, raced>>
    BY DEF Import
  <1>3. PICK p \in Path, c \in Contents : PushImport(born + 1, p, c, FALSE)
    BY DEF Import
  <1> DEFINE job == [asset |-> born + 1, path |-> p, nodes |-> c, reimport |-> FALSE, state |-> "running"]
  <1>4. imports' = Append(imports, job) /\ entries' = entries
    BY <1>3 DEF PushImport
  <1>5. Still
    BY <1>2, <1>4, StillSame DEF diskVars
  <1>6. /\ born \in Nat /\ born' \in Nat /\ born <= born' /\ born + 1 \in Asset /\ born + 1 > born
        /\ born + 1 <= born'
    BY <1>1, <1>2, AssetFilesAssumption DEF MemTypes, Asset
  <1>7. c \subseteq Node
    BY DEF Node
  <1>8. job \in ImportJob /\ job.asset = born + 1 /\ ~job.reimport
    BY <1>6, <1>7 DEF ImportJob
  <1>. HIDE DEF job
  <1>9. NewImports'
    BY <1>4, <1>5, <1>6, <1>8, ImportsGrow
  <1>10. \A a \in Asset : a > born' => Untouched(a)'
    <2>1. \A a \in Asset : a > born + 1 => a > born
      BY <1>6 DEF Asset
    <2>. QED BY <1>2, <1>5, <2>1, StillThere DEF BirthInv
  <1>11. NewMeta'
    BY <1>2 DEF NewMeta
  <1>. QED BY <1>2, <1>9, <1>10, <1>11 DEF BirthInv

LEMMA KnownBorn ==
  ASSUME IInv, BirthInv, NEW a \in Asset, ~Untouched(a)
  PROVE  a <= born
  <1>1. a \in Nat /\ born \in Nat
    BY AssetFilesAssumption DEF IInv, MemTypes, Asset
  <1>2. ~ (a > born)
    BY DEF BirthInv
  <1>. QED BY <1>1, <1>2

LEMMA BirthProcessed ==
  ASSUME IInv, BirthInv, NEW a \in Asset, Process(a) \/ SaveAsset(a)
  PROVE  BirthInv'
  <1>1. MemTypes
    BY DEF IInv
  <1>2. /\ main.at = "idle" /\ a \in Known
        /\ UNCHANGED <<metaAt, files, artifacts, main, events, batch, born, trash, raced>>
    BY DEF Process, SaveAsset, SaveSource, diskVars
  <1>3. \E nodes \in SUBSET Node : PushImport(a, entries[a].path, nodes, TRUE)
    <2>1. CASE Process(a)
      BY <1>1, <2>1 DEF Process, IInv, DiskTypes
    <2>2. CASE SaveAsset(a)
      BY <2>2 DEF SaveAsset, Node
    <2>. QED BY <2>1, <2>2
  <1>4. PICK nodes \in SUBSET Node : PushImport(a, entries[a].path, nodes, TRUE)
    BY <1>3
  <1>5. Still
    BY <1>1, <1>2, <1>4, StillPushed
  <1>6. NewImports'
    <2>1. CASE imports' = imports
      BY <1>2, <1>5, <2>1, StillThere DEF BirthInv, NewImports
    <2>2. CASE imports' # imports
      <3> DEFINE job == [asset |-> a, path |-> entries[a].path, nodes |-> nodes, reimport |-> TRUE,
                         state |-> "running"]
      <3>1. imports' = Append(imports, job)
        BY <1>4, <2>2 DEF PushImport
      <3>2. entries[a].path \in Path
        BY <1>1, <1>2 DEF MemTypes, Entry
      <3>3. job \in ImportJob /\ job.asset = a /\ job.reimport
        BY <3>2 DEF ImportJob
      <3>. HIDE DEF job
      <3>4. a <= born /\ born' \in Nat /\ born <= born'
        BY <1>1, <1>2, KnownBorn DEF Untouched, MemTypes
      <3>. QED BY <1>2, <1>5, <3>1, <3>3, <3>4, ImportsGrow
    <2>. QED BY <2>1, <2>2
  <1>7. \A b \in Asset : b > born' => Untouched(b)'
    BY <1>2, <1>5, StillThere DEF BirthInv
  <1>8. NewMeta'
    BY <1>2 DEF NewMeta
  <1>. QED BY <1>2, <1>6, <1>7, <1>8 DEF BirthInv

LEMMA BirthJobEnded ==
  ASSUME IInv, BirthInv, NEW k \in DOMAIN imports, JobEnds(k)
  PROVE  BirthInv'
  <1>1. MemTypes
    BY DEF IInv
  <1>2. PICK s \in {"succeeded", "failed"} : imports' = [imports EXCEPT ![k].state = s]
    BY DEF JobEnds
  <1>3. main.at = "idle"
        /\ UNCHANGED <<metaAt, files, entries, artifacts, main, events, batch, born, trash, raced>>
    BY DEF JobEnds, diskVars, boundVars
  <1>4. imports \in Seq(ImportJob) /\ imports[k] \in ImportJob
    BY <1>1, Elements DEF MemTypes
  <1> DEFINE job == [imports[k] EXCEPT !.state = s]
  <1>5. job.asset = imports[k].asset /\ job.reimport = imports[k].reimport
    BY <1>4 DEF ImportJob
  <1>6. imports' = [imports EXCEPT ![k] = job]
    BY <1>2
  <1>. HIDE DEF job
  <1>7. DOMAIN imports' = DOMAIN imports
        /\ \A i \in DOMAIN imports : /\ imports'[i].asset = imports[i].asset
                                     /\ imports'[i].reimport = imports[i].reimport
    BY <1>4, <1>5, <1>6
  <1>8. Still
    BY <1>3, StillSame
  <1> DEFINE f == [i \in DOMAIN imports |-> i]
  <1>9. NewImports'
    <2>1. f \in [DOMAIN imports' -> DOMAIN imports]
      BY <1>7
    <2>2. \A i \in DOMAIN imports' :
            imports'[i].asset = imports[f[i]].asset /\ imports'[i].reimport = imports[f[i]].reimport
      BY <1>7
    <2>3. \A i, j \in DOMAIN imports' : f[i] = f[j] => i = j
      BY <1>7
    <2>. HIDE DEF f
    <2>. QED BY <1>3, <1>8, <2>1, <2>2, <2>3, StillThere, ImportsFrom DEF BirthInv
  <1>10. \A b \in Asset : b > born' => Untouched(b)'
    BY <1>3, <1>8, StillThere DEF BirthInv
  <1>11. NewMeta'
    BY <1>3 DEF NewMeta
  <1>. QED BY <1>3, <1>9, <1>10, <1>11 DEF BirthInv

\* An import leaves the list: no other first import is of its asset.
LEMMA BirthLeaves ==
  ASSUME IInv, BirthInv, NEW k \in DOMAIN imports, imports' = RemoveAt(imports, k),
         Still, UNCHANGED born
  PROVE  /\ NewImports'
         /\ ~imports[k].reimport =>
              \A l \in DOMAIN imports' : ~imports'[l].reimport => imports'[l].asset # imports[k].asset
  <1>1. imports \in Seq(ImportJob)
    BY DEF IInv, MemTypes
  <1>2. PICK f \in [DOMAIN imports' -> DOMAIN imports \ {k}] :
          /\ \A i \in DOMAIN imports' : imports'[i] = imports[f[i]]
          /\ \A i, j \in DOMAIN imports' : f[i] = f[j] => i = j
    BY <1>1, RemovedFrom
  <1>3. f \in [DOMAIN imports' -> DOMAIN imports]
    BY <1>2
  <1>4. NewImports'
    BY <1>2, <1>3, StillThere, ImportsFrom DEF BirthInv
  <1>5. ASSUME ~imports[k].reimport, NEW l \in DOMAIN imports', ~imports'[l].reimport
        PROVE  imports'[l].asset # imports[k].asset
    <2>1. f[l] \in DOMAIN imports \ {k} /\ imports'[l] = imports[f[l]]
      BY <1>2
    <2>. QED BY <1>5, <2>1 DEF BirthInv, NewImports
  <1>. QED BY <1>4, <1>5

LEMMA BirthFailed ==
  ASSUME IInv, BirthInv, NEW k \in DOMAIN imports, ImportFails(k)
  PROVE  BirthInv' /\ Still
  <1>1. MemTypes
    BY DEF IInv
  <1>2. /\ main.at = "imports" /\ imports' = RemoveAt(imports, k)
        /\ entries' = IF imports[k].reimport /\ imports[k].asset \in Known
                      THEN SetBusy(imports[k].asset, FALSE) ELSE entries
        /\ UNCHANGED <<metaAt, files, artifacts, main, events, batch, born, trash, raced>>
    BY DEF ImportFails, Ended, diskVars, boundVars
  <1>3. Still
    BY <1>1, <1>2, StillSame, StillBusy
  <1>4. NewImports'
    BY <1>2, <1>3, BirthLeaves
  <1>5. \A b \in Asset : b > born' => Untouched(b)'
    BY <1>2, <1>3, StillThere DEF BirthInv
  <1>6. NewMeta'
    BY <1>2 DEF NewMeta
  <1>. QED BY <1>2, <1>3, <1>4, <1>5, <1>6 DEF BirthInv

LEMMA BirthBegun ==
  ASSUME IInv, BirthInv, NEW k \in DOMAIN imports, FinalizeBegin(k)
  PROVE  BirthInv' /\ Still
  <1> DEFINE i == imports[k]
             j == IF i.reimport THEN [i EXCEPT !.path = entries[i.asset].path] ELSE i
  <1>1. MemTypes
    BY DEF IInv
  <1>2. /\ main.at = "imports" /\ imports' = RemoveAt(imports, k)
        /\ i.reimport => i.asset \in Known
        /\ entries' = IF i.reimport THEN SetBusy(i.asset, FALSE) ELSE entries
        /\ main' = [at |-> "artifacts", import |-> j]
        /\ UNCHANGED <<metaAt, files, artifacts, events, batch, born, trash, raced>>
    BY DEF FinalizeBegin, Ended, diskVars, boundVars
  <1>3. i \in ImportJob
    BY <1>1, Elements DEF MemTypes
  <1>4. /\ j.asset = i.asset /\ j.reimport = i.reimport
        /\ i.reimport => j.path = entries[i.asset].path
    BY <1>3 DEF ImportJob
  <1>5. i.asset <= born /\ (~i.reimport => Untouched(i.asset))
    BY DEF BirthInv, NewImports
  <1>. HIDE DEF i
  <1>6. Still
    BY <1>1, <1>2, StillSame, StillBusy
  <1>7. NewImports'
    BY <1>2, <1>6, BirthLeaves
  <1>8. ~i.reimport => \A l \in DOMAIN imports' : ~imports'[l].reimport => imports'[l].asset # i.asset
    BY <1>2, <1>6, BirthLeaves DEF i
  <1>. HIDE DEF j
  <1>9. main'.at = "artifacts" /\ main'.import = j
    BY <1>2
  <1>10. NewMeta'
    <2>1. j.asset <= born'
      BY <1>2, <1>4, <1>5
    <2>2. j.reimport => j.asset \in Known' /\ entries'[j.asset].path = j.path
      BY <1>2, <1>4, <1>6 DEF Still
    <2>3. ~j.reimport => j.asset \notin Known' /\ \A p \in Path : j.asset \notin {metaAt'[p], files'[p], trash'[p]}
      BY <1>4, <1>5, <1>6 DEF Still, Untouched
    <2>4. ~j.reimport => \A l \in DOMAIN imports' : ~imports'[l].reimport => imports'[l].asset # j.asset
      BY <1>4, <1>8
    <2>. QED BY <1>9, <2>1, <2>2, <2>3, <2>4 DEF NewMeta, At, Untouched
  <1>11. \A b \in Asset : b > born' => Untouched(b)'
    BY <1>2, <1>6, StillThere DEF BirthInv
  <1>12. (batch' # << >> => main'.at = "events") /\ main'.at # "off"
    BY <1>2, <1>9 DEF BirthInv
  <1>. QED BY <1>6, <1>7, <1>10, <1>11, <1>12 DEF BirthInv

\* The next step of an import that is being finalized.
LEMMA BirthGoesOn ==
  ASSUME IInv, BirthInv, main.at \in {"artifacts", "process"}, NEW at \in {"process", "meta"},
         main' = [main EXCEPT !.at = at], Still, UNCHANGED <<imports, events, batch, born>>
  PROVE  BirthInv'
  <1>1. main'.at = at /\ main'.import = main.import
    BY Current, GoesOn DEF IInv
  <1>2. NewMeta'
    <2> DEFINE i == main.import
    <2>1. /\ i.asset <= born
          /\ i.reimport => At(i.asset, i.path)
          /\ ~i.reimport =>
               /\ Untouched(i.asset)
               /\ \A k \in DOMAIN imports : ~imports[k].reimport => imports[k].asset # i.asset
      BY DEF BirthInv, NewMeta
    <2>2. main'.import = i /\ i.asset <= born'
      BY <1>1, <2>1
    <2>3. i.reimport => i.asset \in Known' /\ entries'[i.asset].path = i.path
      BY <2>1 DEF Still, At
    <2>4. ~i.reimport => /\ i.asset \notin Known' /\ \A p \in Path : i.asset \notin {metaAt'[p], files'[p], trash'[p]}
                         /\ \A k \in DOMAIN imports' : ~imports'[k].reimport => imports'[k].asset # i.asset
      BY <2>1 DEF Still, Untouched
    <2>. HIDE DEF i
    <2>. QED BY <2>2, <2>3, <2>4 DEF NewMeta, At, Untouched
  <1>3. NewImports' /\ \A b \in Asset : b > born' => Untouched(b)'
    BY StillThere DEF BirthInv, NewImports
  <1>4. batch' = << >> /\ main'.at # "off"
    BY <1>1 DEF BirthInv
  <1>. QED BY <1>2, <1>3, <1>4 DEF BirthInv

LEMMA BirthMeta ==
  ASSUME IInv, BirthInv, FinalizeMeta
  PROVE  BirthInv'
  <1> DEFINE i == main.import
  <1>1. /\ main.at = "meta" /\ main' = [main EXCEPT !.at = "sources"]
        /\ metaAt' = IF MayWriteMeta(i.path, i.reimport) THEN [metaAt EXCEPT ![i.path] = i.asset] ELSE metaAt
        /\ UNCHANGED <<files, entries, imports, batch, born, trash>>
    BY DEF FinalizeMeta, SaveMeta
  <1>2. main'.at = "sources" /\ i \in ImportJob
    BY <1>1, Current, GoesOn DEF IInv
  <1>3. /\ i.asset <= born
        /\ i.reimport => At(i.asset, i.path)
        /\ ~i.reimport => \A k \in DOMAIN imports : ~imports[k].reimport => imports[k].asset # i.asset
    BY <1>1 DEF BirthInv, NewMeta
  <1>. HIDE DEF i
  <1>4. Known' = Known /\ metaAt \in [Path -> Asset \cup {NoAsset}]
    BY <1>1 DEF Known, IInv, DiskTypes
  <1>5. \A a : Untouched(a) /\ a # i.asset => Untouched(a)'
    BY <1>1, <1>4 DEF Untouched
  <1>6. ASSUME NEW a \in Asset, a > born'
        PROVE  Untouched(a)'
    <2>1. i.asset \in Nat /\ a \in Nat /\ born \in Nat /\ born' = born
      BY <1>1, <1>2, AssetFilesAssumption DEF ImportJob, Asset, IInv, MemTypes
    <2>2. a # i.asset
      BY <1>3, <1>6, <2>1
    <2>. QED BY <1>5, <1>6, <2>1, <2>2 DEF BirthInv
  <1>7. NewImports'
    <2>1. \A k \in DOMAIN imports : ~imports[k].reimport => imports[k].asset # i.asset
      <3>1. CASE i.reimport
        BY <1>3, <3>1 DEF At, BirthInv, NewImports, Untouched
      <3>. QED BY <1>3, <3>1
    <2>. QED BY <1>1, <1>5, <2>1 DEF BirthInv, NewImports
  <1>8. NewMeta' /\ batch' = << >>
    BY <1>1, <1>2 DEF NewMeta, BirthInv
  <1>. QED BY <1>2, <1>6, <1>7, <1>8 DEF BirthInv

\* An event is handled: it is of a path where an asset is, or was.
LEMMA BirthHandled ==
  ASSUME IInv, BirthInv, FileAdded \/ FileRemoved \/ FileRenamed \/ FileModified
  PROVE  BirthInv'
  <1>1. PICK kind : Handle(kind)
    BY DEF FileAdded, FileRemoved, FileRenamed, FileModified
  <1>2. /\ main.at = "events" /\ batch # << >> /\ batch' = Tail(batch)
        /\ UNCHANGED <<metaAt, proc, imports, main, events, born, trash, raced>>
    BY <1>1 DEF Handle, diskVars, boundVars
  <1> DEFINE p == Head(batch).path
  <1>3. p \in Path
    BY <1>1, Named
  <1>4. /\ metaAt \in [Path -> Asset \cup {NoAsset}] /\ files \in [Path -> Asset \cup {NoAsset}]
        /\ entries \in [Known -> Entry]
    BY DEF IInv, DiskTypes, MemTypes
  <1>5. ASSUME NEW a \in Asset, Untouched(a)
        PROVE  Untouched(a)'
    <2>1. a \notin Known /\ \A q \in Path : metaAt[q] # a /\ files[q] # a /\ trash[q] # a
      BY <1>5 DEF Untouched
    <2>2. NoAsset \notin Asset
      BY AssetFilesAssumption DEF NoAsset, Asset
    <2>3. a \notin Known' /\ \A q \in Path : files'[q] # a
      <3>1. CASE FileAdded
        BY <1>3, <1>4, <2>1, <2>2, <3>1 DEF FileAdded, Learn, Known
      <3>2. CASE FileRemoved
        BY <1>3, <1>4, <2>1, <2>2, <3>2 DEF FileRemoved, Forget, Known
      <3>3. CASE FileRenamed
        BY <1>3, <1>4, <2>1, <2>2, <3>3 DEF FileRenamed, Known
      <3>4. CASE FileModified
        BY <1>3, <1>4, <2>1, <3>4 DEF FileModified, Known
      <3>. QED BY <3>1, <3>2, <3>3, <3>4
    <2>. QED BY <1>2, <2>1, <2>3 DEF Untouched
  <1>6. main'.at = "events"
    BY <1>2
  <1>. QED BY <1>2, <1>5, <1>6, BirthKept

\* What users take away they may put back: nothing of it was untouched.
LEMMA BirthUsed ==
  ASSUME IInv, BirthInv, NEW p \in Path, NEW q \in Path,
         Delete(p) \/ Restore(p) \/ Rename(p, q) \/ Copy(p, q)
  PROVE  BirthInv'
  <1>1. /\ UNCHANGED <<proc, files, entries, artifacts, imports, main, batch, born>>
        /\ \E seen : Notify(seen)
    BY DEF Delete, Restore, Rename, Copy, User
  <1>2. metaAt \in [Path -> Asset \cup {NoAsset}] /\ trash \in [Path -> Asset \cup {NoAsset}]
    BY DEF IInv, DiskTypes, MemTypes
  <1>3. ASSUME NEW a \in Asset, Untouched(a)
        PROVE  Untouched(a)'
    <2>1. a \notin Known /\ \A r \in Path : metaAt[r] # a /\ files[r] # a /\ trash[r] # a
      BY <1>3 DEF Untouched
    <2>2. NoAsset # a
      BY AssetFilesAssumption DEF NoAsset, Asset
    <2>3. \A r \in Path : metaAt'[r] # a /\ trash'[r] # a
      <3>1. CASE Delete(p)
        BY <1>2, <2>1, <2>2, <3>1 DEF Delete
      <3>2. CASE Restore(p)
        BY <1>2, <2>1, <2>2, <3>2 DEF Restore
      <3>3. CASE Rename(p, q)
        BY <1>2, <2>1, <2>2, <3>3 DEF Rename
      <3>4. CASE Copy(p, q)
        BY <1>2, <2>1, <2>2, <3>4 DEF Copy
      <3>. QED BY <3>1, <3>2, <3>3, <3>4
    <2>. QED BY <1>1, <2>1, <2>3 DEF Untouched, Known
  <1>4. \A a, r : At(a, r) => At(a, r)'
    BY <1>1 DEF At, Known
  <1>5. main'.at = "off" => events' = events
    BY <1>1 DEF Notify
  <1>6. batch' # << >> => main'.at = "events"
    BY <1>1 DEF BirthInv
  <1>. QED BY <1>1, <1>3, <1>4, <1>5, <1>6, BirthKept

LEMMA BirthCrashed ==
  ASSUME IInv, BirthInv, Crash
  PROVE  BirthInv'
  <1>1. /\ main' = [at |-> "off"] /\ imports' = << >> /\ events' = << >> /\ batch' = << >>
        /\ files' = [p \in Path |-> NoAsset] /\ entries' = << >>
        /\ UNCHANGED <<metaAt, born, trash>>
    BY DEF Crash, diskVars
  <1>2. Known' = {} /\ \A k : k \notin DOMAIN imports'
    BY <1>1 DEF Known
  <1>3. ASSUME NEW a \in Asset, a > born'
        PROVE  Untouched(a)'
    <2>1. Untouched(a) /\ NoAsset # a
      BY <1>1, <1>3, AssetFilesAssumption DEF BirthInv, NoAsset, Asset
    <2>. QED BY <1>1, <1>2, <2>1 DEF Untouched
  <1>4. NewImports' /\ NewMeta'
    BY <1>1, <1>2 DEF NewImports, NewMeta
  <1>. QED BY <1>1, <1>3, <1>4 DEF BirthInv

LEMMA BirthStarted ==
  ASSUME IInv, BirthInv, Discover
  PROVE  BirthInv'
  <1> DEFINE found == Range(metaAt) \ {NoAsset}
             again == {a \in found : Dirty(a) /\ source[a] # {}}
             jobs(path) == SetToSeq({[asset |-> a, path |-> path[a], nodes |-> source[a],
                                      reimport |-> TRUE, state |-> "running"] : a \in again})
  <1>1. MemTypes /\ DiskTypes
    BY DEF IInv
  <1>2. found \in SUBSET Asset /\ again \in SUBSET Asset /\ again \subseteq found
    BY <1>1 DEF DiskTypes, Range
  <1>3. /\ main.at = "off" /\ files' = metaAt /\ main' = [at |-> "idle"]
        /\ UNCHANGED <<metaAt, events, batch, born, trash>>
    BY DEF Discover, Idle, Collect
  <1>4. \E path \in [found -> Path] :
          /\ entries' = [a \in found |->
               [path |-> path[a], nodes |-> Discovered(a), busy |-> a \in again]]
          /\ imports' = jobs(path)
    BY DEF Discover
  <1>5. PICK path \in [found -> Path] :
          /\ entries' = [a \in found |->
               [path |-> path[a], nodes |-> Discovered(a), busy |-> a \in again]]
          /\ imports' = Reimports(path, again)
    BY <1>4 DEF Reimport, Reimports
  <1>6. \A a \in found : \E p \in Path : metaAt[p] = a
    BY <1>1 DEF DiskTypes, Range
  <1>. HIDE DEF found, again
  <1>7. \A i \in Range(imports') : i.asset \in again /\ i.reimport
    BY <1>1, <1>2, <1>5, Reimported
  <1>8. ASSUME NEW a \in Asset, Untouched(a)
        PROVE  Untouched(a)'
    <2>1. a \notin Known'
      BY <1>5, <1>6, <1>8 DEF Known, Untouched
    <2>. QED BY <1>3, <1>8, <2>1 DEF Untouched
  <1>9. NewImports'
    <2>1. ASSUME NEW k \in DOMAIN imports'
          PROVE  imports'[k].asset <= born' /\ imports'[k].reimport
      <3>1. imports'[k] \in Range(imports')
        BY DEF Range
      <3>2. imports'[k].asset \in found /\ imports'[k].reimport
        BY <1>2, <1>7, <3>1
      <3>3. \A a \in found : a <= born
        BY <1>2, <1>6, KnownBorn DEF Untouched
      <3>. QED BY <1>3, <3>2, <3>3
    <2>. QED BY <2>1 DEF NewImports
  <1>10. NewMeta' /\ batch' = << >>
    BY <1>3 DEF NewMeta, BirthInv
  <1>11. \A a \in Asset : a > born' => Untouched(a)'
    BY <1>3, <1>8 DEF BirthInv
  <1>12. main'.at = "idle"
    BY <1>3
  <1>. QED BY <1>9, <1>10, <1>11, <1>12 DEF BirthInv

LEMMA BirthInitial ==
  ASSUME Init
  PROVE  BirthInv
  <1>1. /\ main = [at |-> "idle"] /\ imports = << >> /\ events = << >> /\ batch = << >>
        /\ files = [p \in Path |-> NoAsset] /\ entries = << >>
        /\ metaAt = [p \in Path |-> NoAsset] /\ trash = [p \in Path |-> NoAsset]
    BY DEF Init, DiskInit, Idle
  <1>2. Known = {} /\ NoAsset \notin Asset
    BY <1>1, AssetFilesAssumption DEF Known, NoAsset, Asset
  <1>3. \A a \in Asset : Untouched(a)
    BY <1>1, <1>2 DEF Untouched
  <1>4. NewImports /\ NewMeta
    BY <1>1 DEF NewImports, NewMeta
  <1>. QED BY <1>1, <1>3, <1>4 DEF BirthInv

\* The steps that change neither files nor where the registry knows assets to be.
LEMMA BirthStill ==
  ASSUME IInv, BirthInv,
         UpdateBegin \/ ReadEvents \/ FinalizeArtifacts \/ FinalizeProcess \/ FinalizeSources \/ ResourceUpdate
  PROVE  BirthInv' /\ Still
  <1>1. Still
    BY StillSame DEF UpdateBegin, ReadEvents, FinalizeArtifacts, SaveArtifacts, FinalizeProcess, SaveProcessInfo,
       FinalizeSources, WriteSourceFiles, ResourceUpdate, diskVars, boundVars
  <1>2. \A a : Untouched(a) => Untouched(a)'
    BY <1>1, StillThere
  <1>3. CASE UpdateBegin
    <2>1. UNCHANGED <<imports, born, events, batch>> /\ main.at = "idle" /\ main'.at = "imports"
      BY <1>3 DEF UpdateBegin, boundVars
    <2>2. batch' = << >>
      BY <2>1 DEF BirthInv
    <2>. QED BY <1>1, <1>2, <2>1, <2>2, BirthKept
  <1>4. CASE ReadEvents
    <2>1. UNCHANGED <<imports, born>> /\ main.at = "imports" /\ main'.at = "events"
      BY <1>4 DEF ReadEvents, boundVars
    <2>. QED BY <1>1, <1>2, <2>1, BirthKept
  <1>5. CASE FinalizeArtifacts \/ FinalizeProcess
    <2>1. \E at \in {"process", "meta"} : main' = [main EXCEPT !.at = at]
      BY <1>5 DEF FinalizeArtifacts, FinalizeProcess
    <2>2. main.at \in {"artifacts", "process"} /\ UNCHANGED <<imports, events, batch, born>>
      BY <1>5 DEF FinalizeArtifacts, FinalizeProcess, boundVars
    <2>. QED BY <1>1, <2>1, <2>2, BirthGoesOn
  <1>6. CASE FinalizeSources
    <2>1. UNCHANGED <<imports, born, events, batch>> /\ main.at = "sources" /\ main'.at = "imports"
      BY <1>6 DEF FinalizeSources, boundVars
    <2>2. batch' = << >>
      BY <2>1 DEF BirthInv
    <2>. QED BY <1>1, <1>2, <2>1, <2>2, BirthKept
  <1>7. CASE ResourceUpdate
    <2>1. UNCHANGED <<imports, born, events, batch>> /\ batch = << >> /\ main'.at = "idle"
      BY <1>7 DEF ResourceUpdate, boundVars, Idle
    <2>. QED BY <1>1, <1>2, <2>1, BirthKept
  <1>. QED BY <1>1, <1>3, <1>4, <1>5, <1>6, <1>7

LEMMA BirthStuttered ==
  ASSUME IInv, BirthInv, UNCHANGED vars
  PROVE  BirthInv'
  <1>1. UNCHANGED <<metaAt, files, entries, artifacts, imports, main, events, batch, born, trash, raced>>
    BY DEF vars, diskVars, memVars, boundVars
  <1>2. Still
    BY <1>1, StillSame
  <1>. QED BY <1>1, <1>2, StillThere, BirthKept DEF BirthInv

-----------------------------------------------------------------------------
(* The events of one path. *)

LEMMA TailIs ==
  ASSUME NEW q \in Seq(Event), q # << >>
  PROVE  /\ Tail(q) \in Seq(Event) /\ q[1] = Head(q) /\ 1 \in DOMAIN q
         /\ DOMAIN q \subseteq Nat /\ DOMAIN Tail(q) \subseteq Nat
         /\ \A i \in DOMAIN Tail(q) : i + 1 \in DOMAIN q /\ i + 1 # 1 /\ Tail(q)[i] = q[i + 1]
         /\ \A i \in DOMAIN q : i = 1 \/ (i - 1 \in DOMAIN Tail(q) /\ Tail(q)[i - 1] = q[i])
  <1>1. Len(q) \in Nat /\ Len(q) # 0 /\ DOMAIN q = 1..Len(q)
    OBVIOUS
  <1>2. Tail(q) \in Seq(Event) /\ Len(Tail(q)) = Len(q) - 1 /\ q[1] = Head(q)
        /\ \A i \in 1..(Len(q) - 1) : Tail(q)[i] = q[i + 1]
    BY <1>1
  <1> DEFINE t == Tail(q)
  <1>. HIDE DEF t
  <1>3. DOMAIN t = 1..(Len(q) - 1)
    BY <1>1, <1>2, Elements DEF t
  <1>4. 1 \in DOMAIN q /\ DOMAIN q \subseteq Nat /\ DOMAIN t \subseteq Nat
    BY <1>1, <1>3
  <1>5. \A i \in DOMAIN t : i + 1 \in DOMAIN q /\ i + 1 # 1 /\ t[i] = q[i + 1]
    BY <1>1, <1>2, <1>3 DEF t
  <1>6. ASSUME NEW i \in DOMAIN q, i # 1
        PROVE  i - 1 \in DOMAIN t /\ t[i - 1] = q[i]
    <2>1. i - 1 \in DOMAIN t /\ (i - 1) + 1 = i
      BY <1>1, <1>3, <1>6
    <2>. QED BY <1>5, <2>1
  <1>. QED BY <1>2, <1>4, <1>5, <1>6 DEF t

LEMMA ChangesTail ==
  ASSUME NEW q \in Seq(Event), q # << >>, NEW p
  PROVE  /\ \A i \in Changes(Tail(q), p) : i + 1 \in Changes(q, p)
         /\ \A i \in Changes(q, p) : i = 1 \/ i - 1 \in Changes(Tail(q), p)
         /\ 1 \in Changes(q, p) <=> Head(q).path = p /\ Head(q).kind \in {"added", "removed"}
  <1> DEFINE t == Tail(q)
  <1>1. /\ t \in Seq(Event) /\ q[1] = Head(q) /\ 1 \in DOMAIN q
        /\ \A i \in DOMAIN t : i + 1 \in DOMAIN q /\ t[i] = q[i + 1]
        /\ \A i \in DOMAIN q : i = 1 \/ (i - 1 \in DOMAIN t /\ t[i - 1] = q[i])
    BY TailIs
  <1>. HIDE DEF t
  <1>2. \A i \in Changes(t, p) : i + 1 \in Changes(q, p)
    BY <1>1 DEF Changes
  <1>3. \A i \in Changes(q, p) : i = 1 \/ i - 1 \in Changes(t, p)
    BY <1>1 DEF Changes
  <1>4. 1 \in Changes(q, p) <=> Head(q).path = p /\ Head(q).kind \in {"added", "removed"}
    BY <1>1 DEF Changes
  <1>. QED BY <1>2, <1>3, <1>4 DEF t

\* Once the first event is handled, the rest leads on from what it said.
LEMMA FlipsTail ==
  ASSUME NEW q \in Seq(Event), q # << >>, NEW p,
         NEW before \in BOOLEAN, NEW now \in BOOLEAN, Flips(q, p, before, now),
         NEW next \in BOOLEAN,
         IF 1 \in Changes(q, p) THEN next => Head(q).kind = "added" ELSE next => before
  PROVE  Flips(Tail(q), p, next, now)
  <1> DEFINE t == Tail(q)  c == Changes(q, p)  d == Changes(t, p)
  <1>1. /\ DOMAIN q \subseteq Nat /\ DOMAIN t \subseteq Nat /\ q[1] = Head(q) /\ 1 \in DOMAIN q
        /\ \A i \in DOMAIN t : i + 1 \in DOMAIN q /\ i + 1 # 1 /\ t[i] = q[i + 1]
    BY TailIs
  <1>2. /\ \A i \in d : i + 1 \in c
        /\ \A i \in c : i = 1 \/ i - 1 \in d
    BY ChangesTail
  <1>3. c \subseteq DOMAIN q /\ d \subseteq DOMAIN t
    BY DEF Changes
  <1>4. /\ \A i \in c : before /\ (\A j \in c : i <= j) => q[i].kind = "removed"
        /\ \A i \in c : (\A j \in c : j <= i) => (q[i].kind = "added" <=> now)
        /\ \A i, j \in c : i < j /\ (\A l \in c : l <= i \/ j <= l) => q[i].kind # q[j].kind
        /\ \A i \in c : q[i].kind \in {"added", "removed"}
    BY DEF Flips, Changes
  <1>. HIDE DEF t, c, d
  <1>5. /\ c \subseteq Nat /\ d \subseteq Nat /\ \A i \in c : i >= 1
        /\ \A i \in d : t[i] = q[i + 1] /\ i >= 1
    <2>1. c \subseteq Nat /\ d \subseteq Nat /\ \A i \in d : t[i] = q[i + 1]
      BY <1>1, <1>3
    <2>2. \A i \in DOMAIN q : i >= 1
      <3>1. DOMAIN q = 1..Len(q) /\ Len(q) \in Nat
        OBVIOUS
      <3>. QED BY <3>1
    <2>3. \A i \in DOMAIN t : i >= 1
      BY <1>1, <2>2
    <2>. QED BY <1>3, <2>1, <2>2, <2>3
  <1>6. ASSUME NEW i \in d, next, \A j \in d : i <= j
        PROVE  t[i].kind = "removed"
    <2>1. i + 1 \in c /\ t[i] = q[i + 1] /\ i \in Nat /\ i >= 1
      BY <1>2, <1>5
    <2>2. \A j \in c : j = 1 \/ i + 1 <= j
      BY <1>2, <1>5, <1>6
    <2>3. CASE 1 \in c
      <3>1. 1 < i + 1 /\ \A l \in c : l <= 1 \/ i + 1 <= l
        BY <1>5, <2>1, <2>2
      <3>2. q[1].kind # q[i + 1].kind
        BY <1>4, <2>1, <2>3, <3>1
      <3>3. q[1].kind = "added"
        BY <1>1, <1>6, <2>3 DEF c
      <3>. QED BY <1>4, <2>1, <3>2, <3>3
    <2>4. CASE 1 \notin c
      <3>1. \A j \in c : i + 1 <= j
        BY <2>2, <2>4
      <3>. QED BY <1>4, <1>6, <2>1, <2>4, <3>1 DEF c
    <2>. QED BY <2>3, <2>4
  <1>7. ASSUME NEW i \in d, \A j \in d : j <= i
        PROVE  t[i].kind = "added" <=> now
    <2>1. i + 1 \in c /\ t[i] = q[i + 1] /\ i \in Nat /\ i >= 1
      BY <1>2, <1>5
    <2>2. \A j \in c : j <= i + 1
      BY <1>2, <1>5, <1>7
    <2>. QED BY <1>4, <2>1, <2>2
  <1>8. ASSUME NEW i \in d, NEW j \in d, i < j, \A l \in d : l <= i \/ j <= l
        PROVE  t[i].kind # t[j].kind
    <2>1. /\ i + 1 \in c /\ t[i] = q[i + 1] /\ i \in Nat /\ i >= 1
          /\ j + 1 \in c /\ t[j] = q[j + 1] /\ j \in Nat
      BY <1>2, <1>5
    <2>2. \A l \in c : l <= i + 1 \/ j + 1 <= l
      BY <1>2, <1>5, <1>8
    <2>3. i + 1 < j + 1
      BY <1>8, <2>1
    <2>. QED BY <1>4, <2>1, <2>2, <2>3
  <1>. QED BY <1>6, <1>7, <1>8 DEF Flips, d, t

\* What the first event says of its path.
LEMMA FlipsHead ==
  ASSUME NEW q \in Seq(Event), q # << >>, NEW p,
         NEW before \in BOOLEAN, NEW now \in BOOLEAN, Flips(q, p, before, now),
         1 \in Changes(q, p)
  PROVE  /\ before => Head(q).kind = "removed"
         /\ Changes(Tail(q), p) = {} => (Head(q).kind = "added" <=> now)
  <1>1. q[1] = Head(q) /\ DOMAIN q = 1..Len(q) /\ Len(q) \in Nat
    OBVIOUS
  <1>2. \A j \in Changes(q, p) : j \in Nat /\ 1 <= j
    BY <1>1 DEF Changes
  <1>3. Changes(Tail(q), p) = {} => \A j \in Changes(q, p) : j <= 1
    <2>1. \A j \in Changes(q, p) : j = 1 \/ j - 1 \in Changes(Tail(q), p)
      BY ChangesTail
    <2>. QED BY <2>1
  <1>. QED BY <1>1, <1>2, <1>3 DEF Flips

LEMMA ChangesAppend ==
  ASSUME NEW q \in Seq(Event), NEW e \in Event, NEW p
  PROVE  /\ Append(q, e) \in Seq(Event) /\ Len(q) \in Nat
         /\ \A i \in DOMAIN q : i \in Nat /\ i <= Len(q) /\ i \in DOMAIN Append(q, e) /\ Append(q, e)[i] = q[i]
         /\ \A i \in DOMAIN Append(q, e) : i \in DOMAIN q \/ i = Len(q) + 1
         /\ Len(q) + 1 \in DOMAIN Append(q, e) /\ Append(q, e)[Len(q) + 1] = e
         /\ \A i \in Changes(q, p) : i \in DOMAIN q /\ i \in Changes(Append(q, e), p)
         /\ \A i \in Changes(Append(q, e), p) :
              i \in Changes(q, p) \/ (i = Len(q) + 1 /\ e.path = p /\ e.kind \in {"added", "removed"})
         /\ e.path = p /\ e.kind \in {"added", "removed"} => Len(q) + 1 \in Changes(Append(q, e), p)
  <1> DEFINE s == Append(q, e)
  <1>1. /\ s \in Seq(Event) /\ DOMAIN s = 1..(Len(q) + 1)
        /\ \A i \in DOMAIN q : i \in DOMAIN s /\ s[i] = q[i]
        /\ s[Len(q) + 1] = e
    BY Appended
  <1>2. Len(q) \in Nat /\ DOMAIN q = 1..Len(q)
    OBVIOUS
  <1>. HIDE DEF s
  <1>3. /\ \A i \in DOMAIN q : i \in Nat /\ i <= Len(q)
        /\ \A i \in DOMAIN s : i \in DOMAIN q \/ i = Len(q) + 1
        /\ Len(q) + 1 \in DOMAIN s
    BY <1>1, <1>2
  <1>4. /\ \A i \in Changes(q, p) : i \in DOMAIN q /\ i \in Changes(s, p)
        /\ \A i \in Changes(s, p) :
             i \in Changes(q, p) \/ (i = Len(q) + 1 /\ e.path = p /\ e.kind \in {"added", "removed"})
        /\ e.path = p /\ e.kind \in {"added", "removed"} => Len(q) + 1 \in Changes(s, p)
    BY <1>1, <1>3 DEF Changes
  <1>. QED BY <1>1, <1>2, <1>3, <1>4 DEF s

\* A file that was not there comes, or one that was there goes.
LEMMA FlipsAppend ==
  ASSUME NEW q \in Seq(Event), NEW e \in Event, e.kind \in {"added", "removed"},
         NEW before \in BOOLEAN, NEW now \in BOOLEAN, Flips(q, e.path, before, now),
         now <=> e.kind = "removed",
         before /\ Changes(q, e.path) = {} => e.kind = "removed"
  PROVE  /\ Flips(Append(q, e), e.path, before, e.kind = "added")
         /\ Changes(Append(q, e), e.path) # {}
  <1> DEFINE s == Append(q, e)  c == Changes(q, e.path)  d == Changes(s, e.path)
  <1>1. /\ Len(q) \in Nat
        /\ \A i \in DOMAIN q : i \in Nat /\ i <= Len(q) /\ s[i] = q[i]
        /\ s[Len(q) + 1] = e
        /\ \A i \in c : i \in DOMAIN q /\ i \in d
        /\ \A i \in d : i \in c \/ i = Len(q) + 1
        /\ Len(q) + 1 \in d
    BY ChangesAppend
  <1>2. /\ \A i \in c : before /\ (\A j \in c : i <= j) => q[i].kind = "removed"
        /\ \A i \in c : (\A j \in c : j <= i) => (q[i].kind = "added" <=> now)
        /\ \A i, j \in c : i < j /\ (\A l \in c : l <= i \/ j <= l) => q[i].kind # q[j].kind
        /\ \A i \in c : q[i].kind \in {"added", "removed"}
    BY DEF Flips, Changes
  <1>. HIDE DEF s, c, d
  <1>3. \A i \in c : i \in Nat /\ i <= Len(q) /\ i < Len(q) + 1 /\ s[i] = q[i]
    BY <1>1
  <1>4. ASSUME NEW i \in d, before, \A j \in d : i <= j
        PROVE  s[i].kind = "removed"
    <2>1. CASE i \in c
      BY <1>1, <1>2, <1>3, <1>4, <2>1
    <2>2. CASE i \notin c
      <3>1. i = Len(q) + 1
        BY <1>1, <2>2
      <3>2. \A j \in c : FALSE
        BY <1>1, <1>3, <1>4, <3>1
      <3>. QED BY <1>1, <1>4, <3>1, <3>2 DEF c
    <2>. QED BY <2>1, <2>2
  <1>5. ASSUME NEW i \in d, \A j \in d : j <= i
        PROVE  s[i].kind = "added" <=> e.kind = "added"
    <2>1. i = Len(q) + 1
      BY <1>1, <1>3, <1>5
    <2>. QED BY <1>1, <2>1
  <1>6. ASSUME NEW i \in d, NEW j \in d, i < j, \A l \in d : l <= i \/ j <= l
        PROVE  s[i].kind # s[j].kind
    <2>1. i \in c
      BY <1>1, <1>3, <1>6
    <2>2. CASE j \in c
      BY <1>1, <1>2, <1>3, <1>6, <2>1, <2>2
    <2>3. CASE j = Len(q) + 1
      <3>1. \A l \in c : l <= i
        BY <1>1, <1>3, <1>6, <2>3
      <3>2. q[i].kind = "added" <=> now
        BY <1>2, <2>1, <3>1
      <3>. QED BY <1>1, <1>2, <1>3, <2>1, <2>3, <3>2
    <2>. QED BY <1>1, <2>2, <2>3
  <1>7. d # {}
    BY <1>1
  <1>. QED BY <1>4, <1>5, <1>6, <1>7 DEF Flips, d, s

LEMMA FlipsOther ==
  ASSUME NEW q \in Seq(Event), NEW e \in Event, NEW p, e.path # p \/ e.kind \notin {"added", "removed"},
         NEW before, NEW now, Flips(q, p, before, now)
  PROVE  Flips(Append(q, e), p, before, now)
  <1> DEFINE s == Append(q, e)
  <1>1. /\ \A i \in DOMAIN q : s[i] = q[i]
        /\ \A i \in Changes(q, p) : i \in DOMAIN q /\ i \in Changes(s, p)
        /\ \A i \in Changes(s, p) : i \in Changes(q, p)
    BY ChangesAppend
  <1>. HIDE DEF s
  <1>2. Changes(s, p) = Changes(q, p) /\ \A i \in Changes(q, p) : s[i] = q[i]
    BY <1>1
  <1>. QED BY <1>2 DEF Flips, s

-----------------------------------------------------------------------------
(* More events than there were. *)

\* q is the beginning of s, and the rest of s is about paths of N.
Longer(q, s, N) ==
  /\ s \in Seq(Event)
  /\ \A i \in DOMAIN q : i \in DOMAIN s /\ s[i] = q[i]
  /\ \A i \in DOMAIN s : i \in DOMAIN q \/ s[i].path \in N
  /\ \A p : Changes(q, p) # {} => Changes(s, p) # {}
  /\ \A p : ModifiedAt(q, p) => ModifiedAt(s, p)
  /\ \A p : RenamedTo(q, p) => RenamedTo(s, p)
  /\ \A p : p \notin N => \A before, now : Flips(q, p, before, now) => Flips(s, p, before, now)

LEMMA LongerAppend ==
  ASSUME NEW q \in Seq(Event), NEW e \in Event, NEW N, e.path \in N
  PROVE  Longer(q, Append(q, e), N)
  <1> DEFINE s == Append(q, e)
  <1>1. /\ s \in Seq(Event)
        /\ \A i \in DOMAIN q : i \in DOMAIN s /\ s[i] = q[i]
        /\ \A i \in DOMAIN s : i \in DOMAIN q \/ s[i] = e
    BY ChangesAppend
  <1>2. \A p : \A i \in Changes(q, p) : i \in Changes(s, p)
    BY ChangesAppend
  <1>3. \A p : p \notin N => \A before, now : Flips(q, p, before, now) => Flips(s, p, before, now)
    BY FlipsOther
  <1>4. q # << >> => 1 \in DOMAIN q
    OBVIOUS
  <1>. HIDE DEF s
  <1>5. \A p : ModifiedAt(q, p) => ModifiedAt(s, p)
    BY <1>1 DEF ModifiedAt
  <1>6. \A p : RenamedTo(q, p) => RenamedTo(s, p)
    BY <1>1, <1>4 DEF RenamedTo
  <1>. QED BY <1>1, <1>2, <1>3, <1>5, <1>6 DEF Longer, s

LEMMA LongerTwice ==
  ASSUME NEW q, NEW r, NEW s, NEW N, Longer(q, r, N), Longer(r, s, N)
  PROVE  Longer(q, s, N)
  BY DEF Longer

LEMMA PendingIs ==
  ASSUME MemTypes
  PROVE  Pending \in Seq(Event) /\ (Renaming <=> \E i \in DOMAIN Pending : Pending[i].kind = "renamed")
  <1>1. Pending \in Seq(Event)
    BY Joined DEF MemTypes, Pending
  <1>2. Range(batch \o events) = {Pending[i] : i \in DOMAIN Pending}
    BY DEF Range, Pending
  <1>. QED BY <1>1, <1>2 DEF Renaming

LEMMA PendingPath ==
  ASSUME MemTypes, NEW i \in DOMAIN Pending
  PROVE  Pending[i] \in Event /\ Pending[i].path \in Path
  <1>1. Pending \in Seq(Event)
    BY PendingIs
  <1>2. Pending[i] \in Event
    BY <1>1, Elements
  <1>. QED BY <1>2 DEF Event

LEMMA PendingMore ==
  ASSUME MemTypes, NEW e \in Event, NEW f \in Event, batch' = batch
  PROVE  /\ events' = events \o <<e>> => Pending' = Append(Pending, e)
         /\ events' = events \o (<<e>> \o <<f>>) => Pending' = Append(Append(Pending, e), f)
  <1>1. batch \in Seq(Event) /\ events \in Seq(Event)
    BY DEF MemTypes
  <1>2. batch \o (events \o <<e>>) = Append(batch \o events, e)
    BY <1>1
  <1>3. batch \o (events \o (<<e>> \o <<f>>)) = Append(Append(batch \o events, e), f)
    <2>1. \A s, t \in Seq(Event) : \A x \in Event : s \o Append(t, x) = Append(s \o t, x)
      OBVIOUS
    <2>2. events \o (<<e>> \o <<f>>) = Append(Append(events, e), f)
      <3>1. <<e>> \in Seq(Event) /\ <<f>> \in Seq(Event) /\ <<e>> \o <<f>> = Append(<<e>>, f)
        OBVIOUS
      <3>2. events \o Append(<<e>>, f) = Append(events \o <<e>>, f)
        BY <1>1, <2>1, <3>1
      <3>3. events \o <<e>> = Append(events, e)
        BY <1>1
      <3>. QED BY <3>1, <3>2, <3>3
    <2>3. Append(events, e) \in Seq(Event)
      BY <1>1
    <2>4. batch \o Append(Append(events, e), f) = Append(batch \o Append(events, e), f)
      BY <1>1, <2>1, <2>3
    <2>5. batch \o Append(events, e) = Append(batch \o events, e)
      BY <1>1, <2>1
    <2>. QED BY <2>2, <2>4, <2>5
  <1>. QED BY <1>2, <1>3 DEF Pending

LEMMA PendingTail ==
  ASSUME MemTypes, batch # << >>, batch' = Tail(batch), events' = events
  PROVE  Pending # << >> /\ Head(Pending) = Head(batch) /\ Pending' = Tail(Pending)
  <1>1. batch \in Seq(Event) /\ events \in Seq(Event)
    BY DEF MemTypes
  <1>2. batch \o events # << >> /\ Head(batch \o events) = Head(batch)
        /\ Tail(batch) \o events = Tail(batch \o events)
    BY <1>1
  <1>. QED BY <1>2 DEF Pending

-----------------------------------------------------------------------------
(* Assets that a step leaves where they are. *)

LEMMA PlacesAre ==
  ASSUME NEW a
  PROVE  /\ \A p : p \in Places(a) <=> p \in Path /\ (metaAt[p] = a \/ files[p] = a \/ At(a, p))
         /\ \A p : p \in Places(a)' <=> p \in Path /\ (metaAt'[p] = a \/ files'[p] = a \/ At(a, p)')
  BY DEF Places, At

LEMMA NoAssetIsNone == NoAsset \notin Asset
  BY AssetFilesAssumption DEF NoAsset, Asset

\* An asset that is nowhere has nothing to follow.
LEMMA NowhereFollows ==
  ASSUME NEW a, \A p \in Path : metaAt'[p] # a /\ files'[p] # a /\ ~At(a, p)'
  PROVE  Follows(a)'
  BY DEF Follows

Keeps(a) ==
  /\ \A p \in Path : /\ metaAt'[p] = a <=> metaAt[p] = a
                     /\ files'[p] = a <=> files[p] = a
                     /\ At(a, p)' <=> At(a, p)
  /\ Fresh(a) => Fresh(a)'
  /\ proc'[a] # 0 => proc[a] # 0 \/ (\E p \in Path : At(a, p)) \/ \A p \in Path : metaAt[p] # a

Hears(a) ==
  /\ \A p \in Places(a) : Changes(Pending, p) # {} => Changes(Pending', p) # {}
  /\ \A p \in Path : At(a, p) /\ ModifiedAt(Pending, p) =>
       ModifiedAt(Pending', p) \/ Changes(Pending', p) # {}
  /\ \A p, q \in Path : metaAt[p] = a /\ At(a, q) /\ RenamedTo(Pending, p) => RenamedTo(Pending', p)

LEMMA FollowsKept ==
  ASSUME NEW a, Follows(a), Keeps(a), Hears(a)
  PROVE  Follows(a)'
  <1>1. \A p \in Path : metaAt[p] = a \/ At(a, p) => (Changes(Pending, p) # {} => Changes(Pending', p) # {})
    BY PlacesAre DEF Hears
  <1>2. \A p \in Path : files'[p] = a <=> At(a, p)'
    BY DEF Follows, Keeps
  <1>3. \A p, q \in Path : metaAt'[p] = a /\ metaAt'[q] = a => p = q
    BY DEF Follows, Keeps
  <1>4. \A p, q \in Path : metaAt'[p] = a /\ At(a, q)' => p = q \/ RenamedTo(Pending', p)
    BY DEF Follows, Keeps, Hears
  <1>5. \A p \in Path : At(a, p)' /\ metaAt'[p] # a =>
          \/ Changes(Pending', p) # {}
          \/ \E q \in Path : RenamedTo(Pending', q) /\ metaAt'[q] = a
    BY <1>1 DEF Follows, Keeps, Hears
  <1>6. \A p \in Path : metaAt'[p] = a /\ proc'[a] # 0 =>
          Changes(Pending', p) # {} \/ \E q \in Path : At(a, q)'
    BY <1>1 DEF Follows, Keeps
  <1>7. \A p \in Path : At(a, p)' =>
          Fresh(a)' \/ ModifiedAt(Pending', p) \/ Changes(Pending', p) # {}
    BY <1>1 DEF Follows, Keeps, Hears
  <1>. QED BY <1>2, <1>3, <1>4, <1>5, <1>6, <1>7 DEF Follows

LEMMA MirrorStill ==
  ASSUME Mirror, Still, Pending' = Pending, \A a \in Asset : Keeps(a)
  PROVE  Mirror'
  <1>1. UNCHANGED <<metaAt, files, raced>>
    BY DEF Still
  <1>2. PlacesInv'
    BY <1>1, StillThere DEF Mirror, PlacesInv
  <1>3. RenameInv'
    BY <1>1, StillThere DEF Mirror, RenameInv
  <1>4. FlipsInv'
    BY <1>1 DEF Mirror, FlipsInv
  <1>5. ASSUME NEW a \in Asset, Clean(a)'
        PROVE  Follows(a)'
    <2>1. Clean(a) /\ Follows(a) /\ Keeps(a)
      BY <1>5, StillThere DEF Mirror
    <2>2. Hears(a)
      BY DEF Hears
    <2>. QED BY <2>1, <2>2, FollowsKept
  <1>. QED BY <1>2, <1>3, <1>4, <1>5 DEF Mirror

-----------------------------------------------------------------------------
(* The steps that leave files and what is known alone. *)

LEMMA StillKeeps ==
  ASSUME Still, UNCHANGED proc, \A a \in Asset : proc[a] # 0 => OnDisk(proc[a])' = OnDisk(proc[a]),
         main.at # "meta"
  PROVE  \A a \in Asset : Keeps(a)
  <1>1. ASSUME NEW a \in Asset
        PROVE  Fresh(a) => Fresh(a)'
    <2>1. artifacts' = artifacts /\ proc' = proc
      BY DEF Still
    <2>2. proc[a] = 0 => Fresh(a)'
      BY <2>1 DEF Fresh
    <2>3. proc[a] # 0 /\ Matches(a) => Matches(a)'
      BY <2>1 DEF Matches
    <2>. QED BY <2>2, <2>3 DEF Fresh
  <1>2. UNCHANGED <<metaAt, files>>
    BY DEF Still
  <1>. QED BY <1>1, <1>2, StillThere DEF Keeps

LEMMA MirrorRequested ==
  ASSUME IInv, Mirror, Import \/ (\E a \in Asset : Process(a) \/ SaveAsset(a)) \/ \E k \in DOMAIN imports : JobEnds(k)
  PROVE  Mirror'
  <1>1. /\ main.at = "idle"
        /\ UNCHANGED <<metaAt, proc, builds, dirs, files, artifacts, events, batch, trash, raced>>
    BY DEF Import, Process, SaveAsset, SaveSource, JobEnds, diskVars, boundVars
  <1>2. Still
    <2>1. CASE Import
      <3>1. PICK p \in Path, c \in Contents : PushImport(born + 1, p, c, FALSE)
        BY <2>1 DEF Import
      <3>. QED BY <1>1, <3>1, StillPushed DEF IInv
    <2>2. ASSUME NEW a \in Asset, Process(a) \/ SaveAsset(a)
          PROVE  Still
      <3>1. a \in Known /\ \E nodes : PushImport(a, entries[a].path, nodes, TRUE)
        BY <2>2 DEF Process, SaveAsset
      <3>. QED BY <1>1, <3>1, StillPushed DEF IInv
    <2>3. ASSUME NEW k \in DOMAIN imports, JobEnds(k)
          PROVE  Still
      BY <1>1, <2>3, StillSame DEF JobEnds
    <2>. QED BY <2>1, <2>2, <2>3
  <1>3. \A k : OnDisk(k)' = OnDisk(k)
    BY <1>1 DEF OnDisk
  <1>4. Pending' = Pending
    BY <1>1 DEF Pending
  <1>5. \A a \in Asset : Keeps(a)
    BY <1>1, <1>2, <1>3, StillKeeps
  <1>. QED BY <1>2, <1>4, <1>5, MirrorStill

LEMMA MirrorUpdated ==
  ASSUME IInv, BirthInv, Mirror,
         \/ UpdateBegin \/ ReadEvents \/ FinalizeArtifacts \/ FinalizeSources \/ ResourceUpdate
         \/ \E k \in DOMAIN imports : ImportFails(k) \/ FinalizeBegin(k)
  PROVE  Mirror'
  <1>1. main.at \notin {"meta", "off"} /\ UNCHANGED proc
    BY DEF UpdateBegin, ReadEvents, FinalizeArtifacts, SaveArtifacts, FinalizeSources, WriteSourceFiles,
       ResourceUpdate, ImportFails, FinalizeBegin, Ended, diskVars
  <1>2. Still
    BY BirthStill, BirthFailed, BirthBegun
  <1>3. Pending' = Pending
    <2>1. CASE ReadEvents
      <3>1. batch = << >>
        BY <2>1 DEF ReadEvents, BirthInv
      <3>2. events \in Seq(Event) /\ batch' = events /\ events' = << >>
        BY <2>1 DEF ReadEvents, IInv, MemTypes
      <3>. QED BY <3>1, <3>2 DEF Pending
    <2>2. CASE ~ReadEvents
      <3>1. UNCHANGED <<events, batch>>
        BY <2>2 DEF UpdateBegin, FinalizeArtifacts, FinalizeSources, ResourceUpdate, ImportFails, FinalizeBegin
      <3>. QED BY <3>1 DEF Pending
    <2>. QED BY <2>1, <2>2
  <1>4. \A a \in Asset : proc[a] # 0 => OnDisk(proc[a])' = OnDisk(proc[a])
    <2>1. CASE FinalizeArtifacts
      <3>1. PICK nodes : SaveArtifacts(main.import.asset, nodes)
        BY <2>1 DEF FinalizeArtifacts
      <3> DEFINE b == [asset |-> main.import.asset, nodes |-> nodes]
      <3>2. builds' = Append(builds, b) /\ dirs' = dirs \cup {Len(builds) + 1} /\ proc' = proc
        BY <3>1 DEF SaveArtifacts
      <3>. HIDE DEF b
      <3>3. ASSUME NEW a \in Asset, proc[a] # 0
            PROVE  OnDisk(proc[a])' = OnDisk(proc[a])
        <4>1. proc[a] \in dirs /\ dirs \subseteq 1..Len(builds)
          BY <3>3 DEF IInv, ProcessesKept, DiskTypes
        <4>2. builds'[proc[a]] = builds[proc[a]]
          <5>1. builds \in Seq([asset : Asset, nodes : SUBSET Node])
            BY DEF IInv, DiskTypes
          <5>2. \A S : \A s \in Seq(S) : \A x : \A i \in 1..Len(s) : Append(s, x)[i] = s[i]
            OBVIOUS
          <5>. QED BY <3>2, <4>1, <5>1, <5>2
        <4>. QED BY <3>2, <4>1, <4>2 DEF OnDisk
      <3>. QED BY <3>3
    <2>2. CASE ~FinalizeArtifacts
      <3>1. UNCHANGED <<proc, builds, dirs>>
        BY <2>2 DEF UpdateBegin, ReadEvents, FinalizeSources, WriteSourceFiles, ResourceUpdate, ImportFails,
           FinalizeBegin, diskVars
      <3>. QED BY <3>1 DEF OnDisk
    <2>. QED BY <2>1, <2>2
  <1>5. \A a \in Asset : Keeps(a)
    BY <1>1, <1>2, <1>4, StillKeeps
  <1>. QED BY <1>2, <1>3, <1>5, MirrorStill

\* An asset whose process is new has its meta file written next.
LEMMA MirrorProcessed ==
  ASSUME IInv, BirthInv, Mirror, FinalizeProcess
  PROVE  Mirror'
  <1> DEFINE i == main.import
  <1>1. /\ main.at = "process" /\ main' = [main EXCEPT !.at = "meta"]
        /\ proc' = [proc EXCEPT ![i.asset] = Len(builds)]
        /\ UNCHANGED <<builds, dirs, events, batch>>
    BY DEF FinalizeProcess, SaveProcessInfo
  <1>2. Still
    BY BirthStill
  <1>3. main'.at = "meta" /\ main'.import = i
    BY <1>1, Current, GoesOn DEF IInv
  <1>4. proc \in [Asset -> 0..Len(builds)]
    BY DEF IInv, DiskTypes
  <1>5. /\ i.reimport => At(i.asset, i.path) /\ i.path \in Path
        /\ ~i.reimport => Untouched(i.asset)
    BY <1>1, Current DEF BirthInv, NewMeta, IInv
  <1>. HIDE DEF i
  <1>6. ASSUME NEW a \in Asset
        PROVE  Keeps(a)
    <2>1. Fresh(a) => Fresh(a)'
      <3>1. CASE a = i.asset
        BY <1>3, <3>1 DEF Fresh
      <3>2. CASE a # i.asset
        <4>1. proc'[a] = proc[a] /\ artifacts' = artifacts
          BY <1>1, <1>2, <1>4, <3>2 DEF Still
        <4>2. \A k : OnDisk(k)' = OnDisk(k)
          BY <1>1 DEF OnDisk
        <4>. QED BY <1>1, <4>1, <4>2 DEF Fresh, Matches
      <3>. QED BY <3>1, <3>2
    <2>2. proc'[a] # 0 => proc[a] # 0 \/ (\E p \in Path : At(a, p)) \/ \A p \in Path : metaAt[p] # a
      <3>1. CASE a = i.asset
        BY <1>5, <3>1 DEF Untouched
      <3>2. CASE a # i.asset
        BY <1>1, <1>4, <3>2
      <3>. QED BY <3>1, <3>2
    <2>3. UNCHANGED <<metaAt, files>>
      BY <1>2 DEF Still
    <2>. QED BY <1>2, <2>1, <2>2, <2>3, StillThere DEF Keeps
  <1>7. Pending' = Pending
    BY <1>1 DEF Pending
  <1>. QED BY <1>2, <1>6, <1>7, MirrorStill

-----------------------------------------------------------------------------
(* Assets that are raced. *)

\* A rename that races nothing is alone.
LEMMA RenamedAlone ==
  ASSUME IInv, Mirror, NEW p \in Path \ raced, RenamedTo(Pending, p)
  PROVE  /\ \A r \in Path \ raced : Changes(Pending, r) = {} /\ ~ModifiedAt(Pending, r)
         /\ \A r : RenamedTo(Pending, r) => r = p
         /\ \A a \in Asset, old \in Path : metaAt[p] = a /\ At(a, old) => old # p /\ metaAt[old] = NoAsset
  <1>1. Pending \in Seq(Event)
    BY PendingIs DEF IInv
  <1>2. 1 \in DOMAIN Pending /\ Pending[1].kind = "renamed" /\ Pending[1].path = p
    <2>1. \A q \in Seq(Event) : q # << >> => 1 \in DOMAIN q
      OBVIOUS
    <2>. QED BY <1>1, <2>1 DEF RenamedTo
  <1>3. /\ \A j \in DOMAIN Pending : j # 1 => Pending[j].path \in raced
        /\ \A a \in Asset, old \in Path : metaAt[p] = a /\ At(a, old) => old # p /\ metaAt[old] = NoAsset
    BY <1>2 DEF Mirror, RenameInv
  <1>. QED BY <1>2, <1>3 DEF Changes, ModifiedAt, RenamedTo

\* Two assets at one path are nowhere else.
LEMMA TwoAtOnePath ==
  ASSUME IInv, Mirror, NEW a \in Asset, NEW c \in Asset, a # c, Clean(a), Clean(c),
         NEW r \in Places(a), r \in Places(c)
  PROVE  Places(a) = {r}
  <1>1. r \in Path \ raced /\ Follows(a) /\ Follows(c)
    BY DEF Clean, Places, Mirror
  <1>2. ASSUME NEW q \in Places(a), q # r
        PROVE  FALSE
    <2>1. q \in Path \ raced
      BY DEF Clean, Places
    <2>2. \A x \in Path : files[x] = a <=> At(a, x)
      BY <1>1 DEF Follows
    <2>3. \A x \in Path : files[x] = c <=> At(c, x)
      BY <1>1 DEF Follows
    <2>4. \A x, y : At(a, x) /\ At(a, y) => x = y
      BY DEF At
    <2>5. (At(a, r) /\ metaAt[r] = c) \/ (At(c, r) /\ metaAt[r] = a)
      BY <1>1, <2>2, <2>3, PlacesAre
    <2>6. CASE At(a, r) /\ metaAt[r] = c
      <3>1. metaAt[q] = a
        BY <1>2, <2>1, <2>2, <2>4, <2>6, PlacesAre
      <3>2. RenamedTo(Pending, q)
        BY <1>1, <1>2, <2>1, <2>6, <3>1 DEF Follows
      <3>3. metaAt[r] = NoAsset
        BY <1>1, <2>1, <2>6, <3>1, <3>2, RenamedAlone
      <3>. QED BY <2>6, <3>3, NoAssetIsNone
    <2>7. CASE At(c, r) /\ metaAt[r] = a
      <3>1. metaAt[q] # a
        BY <1>1, <1>2, <2>1, <2>7 DEF Follows
      <3>2. At(a, q)
        BY <2>1, <2>2, <3>1, PlacesAre
      <3>3. RenamedTo(Pending, r)
        BY <1>1, <1>2, <2>1, <2>7, <3>2 DEF Follows
      <3>4. Changes(Pending, r) = {} /\ \A x : RenamedTo(Pending, x) => x = r
        BY <1>1, <3>3, RenamedAlone
      <3>. QED BY <1>1, <2>7, <3>4 DEF Follows
    <2>. QED BY <2>5, <2>6, <2>7
  <1>. QED BY <1>2

LEMMA RaceWhole ==
  ASSUME IInv, Mirror, NEW a \in Asset, NEW p \in Path
  PROVE  /\ raced \subseteq Race(a, p) /\ p \in Race(a, p) /\ Places(a) \subseteq Race(a, p)
         /\ \A c \in Asset : Places(c) \subseteq Race(a, p) \/ Places(c) \cap Race(a, p) = {}
  <1> DEFINE S == {a} \cup {b \in Asset : p \in Places(b)}
  <1>1. Race(a, p) = raced \cup {p} \cup UNION {Places(b) : b \in S}
    BY DEF Race
  <1>2. \A b \in S : b \in Asset /\ Places(b) \subseteq Race(a, p)
    BY <1>1
  <1>3. raced \subseteq Race(a, p) /\ p \in Race(a, p) /\ Places(a) \subseteq Race(a, p)
    BY <1>1, <1>2
  <1>4. ASSUME NEW c \in Asset, NEW r \in Places(c) \cap Race(a, p)
        PROVE  Places(c) \subseteq Race(a, p)
    <2>1. CASE r \in raced
      BY <1>3, <1>4, <2>1 DEF Mirror, PlacesInv, Clean
    <2>2. CASE r = p
      BY <1>2, <1>4, <2>2
    <2>3. CASE r \notin raced /\ \E b \in S : r \in Places(b)
      <3>1. PICK b \in S : r \in Places(b)
        BY <2>3
      <3>2. CASE b = c
        BY <1>2, <3>1, <3>2
      <3>3. CASE b # c
        <4>1. Clean(b) /\ Clean(c)
          BY <1>2, <1>4, <2>3, <3>1 DEF Mirror, PlacesInv, Clean
        <4>2. Places(c) = {r}
          BY <1>2, <1>4, <3>1, <3>3, <4>1, TwoAtOnePath
        <4>. QED BY <1>4, <4>2
      <3>. QED BY <3>2, <3>3
    <2>. QED BY <1>1, <1>4, <2>1, <2>2, <2>3
  <1>. HIDE DEF S
  <1>. QED BY <1>3, <1>4

\* A meta file comes or goes where that races assets: they are all left out.
LEMMA MirrorRaced ==
  ASSUME IInv, Mirror, NEW a \in Asset, NEW p \in Path, raced' = Race(a, p),
         UNCHANGED <<files, entries, proc>>,
         \A r \in Path : metaAt'[r] = metaAt[r] \/ (r \in raced' /\ metaAt'[r] \in {a, NoAsset}),
         Longer(Pending, Pending', raced'),
         \A c \in Asset : c # a /\ Fresh(c) => Fresh(c)'
  PROVE  Mirror'
  <1>1. /\ raced \subseteq raced' /\ Places(a) \subseteq raced'
        /\ \A c \in Asset : Places(c) \subseteq raced' \/ Places(c) \cap raced' = {}
    BY RaceWhole
  <1>2. \A c, r : At(c, r)' <=> At(c, r)
    BY DEF At, Known
  <1>3. ASSUME NEW c \in Asset
        PROVE  Places(c)' \subseteq Places(c) \/ (c = a /\ Places(c)' \subseteq raced')
    <2>1. \A r \in Places(c)' : r \in Places(c) \/ (c = a /\ r \in raced')
      BY <1>2, NoAssetIsNone, PlacesAre
    <2>. QED BY <1>1, <2>1
  <1>4. PlacesInv'
    <2>1. \A c \in Asset : Places(c)' \subseteq raced' \/ Places(c)' \cap raced' = {}
      BY <1>1, <1>3
    <2>. QED BY <2>1 DEF PlacesInv, Clean
  <1>5. \A r \in Path \ raced' : metaAt'[r] = metaAt[r]
    OBVIOUS
  <1>6. RenameInv'
    <2>1. ASSUME NEW i \in DOMAIN Pending', Pending'[i].kind = "renamed", Pending'[i].path \notin raced'
          PROVE  /\ i = 1 /\ \A j \in DOMAIN Pending' : j # 1 => Pending'[j].path \in raced'
                 /\ \A c \in Asset, old \in Path : metaAt'[Pending'[i].path] = c /\ At(c, old)' =>
                      old # Pending'[i].path /\ metaAt'[old] = NoAsset
      <3>1. i \in DOMAIN Pending /\ Pending'[i] = Pending[i]
        BY <2>1 DEF Longer
      <3>2. Pending[i].kind = "renamed" /\ Pending[i].path \notin raced /\ Pending[i].path \notin raced'
        BY <1>1, <2>1, <3>1
      <3>3. /\ i = 1 /\ \A j \in DOMAIN Pending : j # 1 => Pending[j].path \in raced
            /\ \A c \in Asset, old \in Path : metaAt[Pending[i].path] = c /\ At(c, old) =>
                 old # Pending[i].path /\ metaAt[old] = NoAsset
        BY <3>1, <3>2 DEF Mirror, RenameInv
      <3>4. \A j \in DOMAIN Pending' : j # 1 => Pending'[j].path \in raced'
        BY <1>1, <3>3 DEF Longer
      <3>5. Pending[i].path \in Path
        BY <3>1, PendingPath DEF IInv
      <3>6. ASSUME NEW c \in Asset, NEW old \in Path, metaAt'[Pending[i].path] = c, At(c, old)'
            PROVE  old # Pending[i].path /\ metaAt'[old] = NoAsset
        <4>1. metaAt[Pending[i].path] = c /\ At(c, old)
          BY <1>2, <1>5, <3>2, <3>5, <3>6
        <4>2. Pending[i].path \in Places(c) /\ old \in Places(c)
          BY <3>5, <4>1, PlacesAre
        <4>3. old \notin raced'
          BY <1>1, <3>2, <4>2
        <4>. QED BY <1>5, <3>3, <4>1, <4>3
      <3>. QED BY <3>1, <3>3, <3>4, <3>6
    <2>. QED BY <2>1 DEF RenameInv
  <1>7. FlipsInv'
    <2>1. ASSUME NEW r \in Path \ raced'
          PROVE  Flips(Pending', r, files'[r] # NoAsset, metaAt'[r] # NoAsset)
      <3>1. Flips(Pending, r, files[r] # NoAsset, metaAt[r] # NoAsset)
        BY <1>1 DEF Mirror, FlipsInv
      <3>. QED BY <1>5, <3>1 DEF Longer
    <2>. QED BY <2>1 DEF FlipsInv
  <1>8. ASSUME NEW c \in Asset, Clean(c)'
        PROVE  Follows(c)'
    <2>1. Places(c)' \cap raced' = {}
      BY <1>8 DEF Clean
    <2>2. CASE Places(c)' = {}
      BY <2>2, PlacesAre, NowhereFollows
    <2>3. CASE Places(c)' # {}
      <3>1. c # a /\ Places(c) \cap raced' = {}
        BY <1>1, <1>3, <2>1, <2>3
      <3>2. Follows(c)
        BY <1>1, <3>1 DEF Mirror, Clean
      <3>3. \A r \in Path : metaAt'[r] = c <=> metaAt[r] = c
        BY <3>1, NoAssetIsNone, PlacesAre
      <3>4. Keeps(c)
        BY <1>2, <3>1, <3>3 DEF Keeps
      <3>5. Hears(c)
        BY DEF Hears, Longer
      <3>. QED BY <3>2, <3>4, <3>5, FollowsKept
    <2>. QED BY <2>2, <2>3
  <1>. QED BY <1>4, <1>6, <1>7, <1>8 DEF Mirror

-----------------------------------------------------------------------------
(* Meta files that come and go where the registry expects them. *)

\* Nothing was renamed: only events that come or go explain a difference.
LEMMA CalmFollows ==
  ASSUME IInv, ~Renaming, NEW a, Follows(a)
  PROVE  /\ \A p, q \in Path : metaAt[p] = a /\ At(a, q) => p = q
         /\ \A p \in Path : At(a, p) /\ metaAt[p] # a => Changes(Pending, p) # {}
         /\ \A p : ~RenamedTo(Pending, p)
  <1>1. \A i \in DOMAIN Pending : Pending[i].kind # "renamed"
    BY PendingIs DEF IInv
  <1>2. \A p : ~RenamedTo(Pending, p)
    <2>1. \A q \in Seq(Event) : q # << >> => 1 \in DOMAIN q
      OBVIOUS
    <2>2. Pending # << >> => 1 \in DOMAIN Pending
      BY <2>1, PendingIs DEF IInv
    <2>. QED BY <1>1, <2>2 DEF RenamedTo
  <1>. QED BY <1>2 DEF Follows

\* The meta file of an asset is written where it is, or where it comes to be.
LEMMA MirrorPut ==
  ASSUME IInv, Mirror, ~Renaming, NEW a \in Asset, NEW p \in Path,
         metaAt' = [metaAt EXCEPT ![p] = a], Places(a) \subseteq {p},
         metaAt[p] # NoAsset => At(a, p),
         UNCHANGED <<files, entries, proc, raced>>,
         Longer(Pending, Pending', {p}), \A i \in DOMAIN Pending' : Pending'[i].kind # "renamed",
         Flips(Pending, p, files[p] # NoAsset, metaAt[p] # NoAsset) /\ p \notin raced =>
           Flips(Pending', p, files[p] # NoAsset, TRUE),
         metaAt[p] = NoAsset => Changes(Pending', p) # {},
         metaAt[p] # NoAsset => ModifiedAt(Pending', p),
         \A c \in Asset : c # a /\ Fresh(c) => Fresh(c)'
  PROVE  Mirror'
  <1>1. metaAt \in [Path -> Asset \cup {NoAsset}] /\ files \in [Path -> Asset \cup {NoAsset}]
    BY DEF IInv, DiskTypes, MemTypes
  <1>2. \A c, r : At(c, r)' <=> At(c, r)
    BY DEF At, Known
  <1>3. \A r \in Path : metaAt'[r] = IF r = p THEN a ELSE metaAt[r]
    BY <1>1
  <1>4. \A c \in Asset : c # a => Places(c)' \subseteq Places(c)
    BY <1>2, <1>3, PlacesAre
  <1>5. Places(a)' = {p}
    <2>1. \A r \in Places(a)' : r = p
      BY <1>2, <1>3, PlacesAre
    <2>2. p \in Places(a)'
      BY <1>3, PlacesAre
    <2>. QED BY <2>1, <2>2
  <1>6. PlacesInv'
    <2>1. \A c \in Asset : Places(c)' \subseteq raced' \/ Places(c)' \cap raced' = {}
      BY <1>4, <1>5 DEF Mirror, PlacesInv, Clean
    <2>. QED BY <2>1 DEF PlacesInv, Clean
  <1>7. RenameInv'
    BY DEF RenameInv
  <1>8. FlipsInv'
    <2>1. ASSUME NEW r \in Path \ raced'
          PROVE  Flips(Pending', r, files'[r] # NoAsset, metaAt'[r] # NoAsset)
      <3>1. Flips(Pending, r, files[r] # NoAsset, metaAt[r] # NoAsset)
        BY DEF Mirror, FlipsInv
      <3>2. CASE r = p
        <4>1. metaAt'[r] # NoAsset <=> TRUE
          BY <1>3, <3>2, NoAssetIsNone
        <4>2. Flips(Pending', p, files[p] # NoAsset, TRUE)
          BY <3>1, <3>2
        <4>. QED BY <3>2, <4>1, <4>2 DEF Flips
      <3>3. CASE r # p
        BY <1>3, <3>1, <3>3 DEF Longer
      <3>. QED BY <3>2, <3>3
    <2>. QED BY <2>1 DEF FlipsInv
  <1>9. ASSUME NEW c \in Asset, Clean(c)', c # a
        PROVE  Follows(c)'
    <2>1. Places(c)' \cap raced = {}
      BY <1>9 DEF Clean
    <2>2. CASE Places(c)' = {}
      BY <2>2, PlacesAre, NowhereFollows
    <2>3. CASE Places(c)' # {}
      <3>1. Clean(c)
        BY <1>4, <1>9, <2>1, <2>3 DEF Mirror, PlacesInv, Clean
      <3>2. Follows(c)
        BY <3>1 DEF Mirror
      <3>3. metaAt[p] # c
        <4>1. SUFFICES ASSUME metaAt[p] = c
                       PROVE  FALSE
          OBVIOUS
        <4>2. At(a, p)
          BY <1>9, <4>1, NoAssetIsNone
        <4>3. p \notin raced
          BY <3>1, <4>1, PlacesAre DEF Clean
        <4>4. Follows(a)
          BY <4>3 DEF Mirror, Clean
        <4>5. files[p] = a
          BY <4>2, <4>4 DEF Follows
        <4>6. \A x \in Path : ~At(c, x)
          <5>1. \A x \in Path : At(c, x) => x = p
            BY <3>2, <4>1, CalmFollows
          <5>2. ~At(c, p)
            BY <1>9, <3>2, <4>5 DEF Follows
          <5>. QED BY <5>1, <5>2
        <4>7. Places(c)' = {}
          <5>1. \A x \in Path : metaAt[x] = c => x = p
            BY <3>2, <4>1 DEF Follows
          <5>2. \A x \in Path : files[x] # c
            BY <3>2, <4>6 DEF Follows
          <5>. QED BY <1>2, <1>3, <1>9, <4>6, <5>1, <5>2, PlacesAre
        <4>. QED BY <2>3, <4>7
      <3>4. \A r \in Path : metaAt'[r] = c <=> metaAt[r] = c
        BY <1>3, <1>9, <3>3
      <3>5. Keeps(c)
        BY <1>2, <1>9, <3>4 DEF Keeps
      <3>6. Hears(c)
        BY DEF Hears, Longer
      <3>. QED BY <3>2, <3>5, <3>6, FollowsKept
    <2>. QED BY <2>2, <2>3
  <1>10. ASSUME Clean(a)'
         PROVE  Follows(a)'
    <2>1. p \notin raced
      BY <1>5, <1>10 DEF Clean
    <2>2. Follows(a)
      BY <2>1 DEF Mirror, Clean
    <2>3. \A x \in Path : metaAt'[x] = a <=> x = p
      BY <1>5, <1>3, PlacesAre
    <2>4. \A x \in Path : At(a, x) => x = p
      BY PlacesAre
    <2>5. \A x \in Path : files'[x] = a <=> At(a, x)'
      BY <1>2, <2>2 DEF Follows
    <2>. QED BY <1>2, <2>3, <2>4, <2>5 DEF Follows
  <1>. QED BY <1>6, <1>7, <1>8, <1>9, <1>10 DEF Mirror

\* A meta file is taken away.
LEMMA MirrorTaken ==
  ASSUME IInv, Mirror, ~Renaming, NEW p \in Path, metaAt[p] # NoAsset,
         metaAt' = [metaAt EXCEPT ![p] = NoAsset],
         UNCHANGED <<files, entries, proc, raced>>,
         Longer(Pending, Pending', {p}), \A i \in DOMAIN Pending' : Pending'[i].kind # "renamed",
         Flips(Pending, p, files[p] # NoAsset, TRUE) => Flips(Pending', p, files[p] # NoAsset, FALSE),
         Changes(Pending', p) # {},
         \A c \in Asset : Fresh(c) => Fresh(c)'
  PROVE  Mirror'
  <1>1. metaAt \in [Path -> Asset \cup {NoAsset}]
    BY DEF IInv, DiskTypes
  <1>2. \A c, r : At(c, r)' <=> At(c, r)
    BY DEF At, Known
  <1>3. \A r \in Path : metaAt'[r] = IF r = p THEN NoAsset ELSE metaAt[r]
    BY <1>1
  <1>4. \A c \in Asset : Places(c)' \subseteq Places(c)
    BY <1>2, <1>3, NoAssetIsNone, PlacesAre
  <1>5. PlacesInv'
    <2>1. \A c \in Asset : Places(c)' \subseteq raced' \/ Places(c)' \cap raced' = {}
      BY <1>4 DEF Mirror, PlacesInv, Clean
    <2>. QED BY <2>1 DEF PlacesInv, Clean
  <1>6. RenameInv'
    BY DEF RenameInv
  <1>7. FlipsInv'
    <2>1. ASSUME NEW r \in Path \ raced'
          PROVE  Flips(Pending', r, files'[r] # NoAsset, metaAt'[r] # NoAsset)
      <3>1. Flips(Pending, r, files[r] # NoAsset, metaAt[r] # NoAsset)
        BY DEF Mirror, FlipsInv
      <3>2. CASE r = p
        <4>1. Flips(Pending, p, files[p] # NoAsset, TRUE)
          BY <3>1, <3>2 DEF Flips
        <4>2. Flips(Pending', p, files[p] # NoAsset, FALSE)
          BY <4>1
        <4>. QED BY <1>3, <3>2, <4>2 DEF Flips
      <3>3. CASE r # p
        BY <1>3, <3>1, <3>3 DEF Longer
      <3>. QED BY <3>2, <3>3
    <2>. QED BY <2>1 DEF FlipsInv
  <1>8. ASSUME NEW c \in Asset, Clean(c)'
        PROVE  Follows(c)'
    <2>1. CASE Places(c)' = {}
      BY <2>1, PlacesAre, NowhereFollows
    <2>2. CASE Places(c)' # {}
      <3>1. Follows(c)
        BY <1>4, <1>8, <2>2 DEF Mirror, PlacesInv, Clean
      <3>2. \A r \in Path : metaAt'[r] = c <=> metaAt[r] = c /\ r # p
        BY <1>3, NoAssetIsNone
      <3>3. CASE metaAt[p] # c
        <4>1. Keeps(c)
          BY <1>2, <3>2, <3>3 DEF Keeps
        <4>2. Hears(c)
          BY DEF Hears, Longer
        <4>. QED BY <3>1, <4>1, <4>2, FollowsKept
      <3>4. CASE metaAt[p] = c
        <4>1. \A r \in Path : metaAt'[r] # c
          BY <3>1, <3>2, <3>4 DEF Follows
        <4>2. \A r \in Path : At(c, r) => r = p
          BY <3>1, <3>4, CalmFollows
        <4>3. \A r \in Path : files'[r] = c <=> At(c, r)'
          BY <1>2, <3>1 DEF Follows
        <4>. QED BY <1>2, <4>1, <4>2, <4>3 DEF Follows
      <3>. QED BY <3>3, <3>4
    <2>. QED BY <2>1, <2>2
  <1>. QED BY <1>5, <1>6, <1>7, <1>8 DEF Mirror

\* What the steps that end an import, and those of users, leave alone.
LEMMA FreshKept ==
  ASSUME UNCHANGED <<artifacts, proc, builds, dirs>>, NEW c,
         Fresh(c), main' = main \/ main.at # "meta" \/ main.import.asset # c
  PROVE  Fresh(c)'
  <1>1. \A k : OnDisk(k)' = OnDisk(k)
    BY DEF OnDisk
  <1>2. proc[c] = 0 => Fresh(c)'
    BY DEF Fresh
  <1>3. Matches(c) => Matches(c)'
    BY <1>1 DEF Matches
  <1>. QED BY <1>2, <1>3 DEF Fresh

\* Calm events, and one more.
LEMMA CalmMore ==
  ASSUME NEW q \in Seq(Event), \A i \in DOMAIN q : q[i].kind # "renamed",
         NEW e \in Event, e.kind # "renamed"
  PROVE  \A i \in DOMAIN Append(q, e) : Append(q, e)[i].kind # "renamed"
  BY ChangesAppend

LEMMA MirrorMeta ==
  ASSUME IInv, BirthInv, Mirror, FinalizeMeta
  PROVE  Mirror'
  <1> DEFINE a == main.import.asset  p == main.import.path  again == main.import.reimport
             f == [kind |-> "modified", path |-> p]  e == [kind |-> "added", path |-> p]
  <1>1. /\ main.at = "meta" /\ main' = [main EXCEPT !.at = "sources"]
        /\ metaAt' = IF MayWriteMeta(p, again) THEN [metaAt EXCEPT ![p] = a] ELSE metaAt
        /\ UNCHANGED <<proc, builds, dirs, files, entries, artifacts, batch, trash>>
        /\ events' = IF MayWriteMeta(p, again) THEN events \o FileWritten(p) ELSE events
        /\ raced' = IF MayWriteMeta(p, again) /\ (Renaming \/ Elsewhere(a, p)) THEN Race(a, p) ELSE raced
    BY DEF FinalizeMeta, SaveMeta, RaceIf
  <1>2. a \in Asset /\ p \in Path /\ e \in Event /\ f \in Event
        /\ e.kind = "added" /\ e.path = p /\ f.kind = "modified" /\ f.path = p
    BY <1>1, Current DEF IInv, Event
  <1>3. /\ again => At(a, p)
        /\ ~again => Untouched(a)
    BY <1>1 DEF BirthInv, NewMeta
  <1>4. Pending \in Seq(Event) /\ metaAt \in [Path -> Asset \cup {NoAsset}]
    BY PendingIs DEF IInv, DiskTypes
  <1>5. events' = (IF MayWriteMeta(p, again)
                   THEN IF metaAt[p] = NoAsset THEN events \o (<<e>> \o <<f>>) ELSE events \o <<f>>
                   ELSE events)
    <2>1. FileWritten(p) = IF metaAt[p] = NoAsset THEN <<e>> \o <<f>> ELSE <<f>>
      <3>1. \A x \in Event : << >> \o <<x>> = <<x>>
        OBVIOUS
      <3>2. FileWritten(p) = (IF metaAt[p] = NoAsset THEN <<e>> ELSE << >>) \o <<f>>
        BY DEF FileWritten
      <3>. HIDE DEF e, f
      <3>. QED BY <1>2, <3>1, <3>2
    <2>. QED BY <1>1, <2>1
  <1>6. \A c \in Asset : c # a /\ Fresh(c) => Fresh(c)'
    BY <1>1, FreshKept
  <1>. HIDE DEF a, p, again, e, f
  <1>7. CASE ~MayWriteMeta(p, again)
    <2>1. Still /\ Pending' = Pending /\ ~again
      BY <1>1, <1>7, StillSame DEF Pending, MayWriteMeta
    <2>2. \A r \in Path : metaAt[r] # a /\ files[r] # a /\ ~At(a, r)
      BY <1>3, <2>1 DEF Untouched, At
    <2>3. UNCHANGED <<metaAt, files, raced>>
      BY <2>1 DEF Still
    <2>4. PlacesInv' /\ RenameInv' /\ FlipsInv'
      BY <2>1, <2>3, StillThere DEF Mirror, PlacesInv, RenameInv, FlipsInv
    <2>5. ASSUME NEW c \in Asset, Clean(c)'
          PROVE  Follows(c)'
      <3>1. CASE c = a
        BY <2>1, <2>2, <2>3, <3>1, StillThere, NowhereFollows
      <3>2. CASE c # a
        <4>1. Follows(c)
          BY <2>1, <2>5, StillThere DEF Mirror
        <4>2. Keeps(c)
          BY <1>1, <1>6, <2>1, <2>3, <3>2, StillThere DEF Keeps
        <4>3. Hears(c)
          BY <2>1 DEF Hears
        <4>. QED BY <4>1, <4>2, <4>3, FollowsKept
      <3>. QED BY <3>1, <3>2
    <2>. QED BY <2>4, <2>5 DEF Mirror
  <1>8. CASE MayWriteMeta(p, again)
    <2>1. Pending' = IF metaAt[p] = NoAsset THEN Append(Append(Pending, e), f) ELSE Append(Pending, f)
      BY <1>1, <1>2, <1>5, <1>8, PendingMore DEF IInv
    <2>2. \A N : p \in N => Longer(Pending, Pending', N)
      <3>1. ASSUME NEW N, p \in N
            PROVE  Longer(Pending, Pending', N)
        <4>1. CASE metaAt[p] # NoAsset
          BY <1>2, <1>4, <2>1, <3>1, <4>1, LongerAppend
        <4>2. CASE metaAt[p] = NoAsset
          <5>1. Longer(Pending, Append(Pending, e), N) /\ Append(Pending, e) \in Seq(Event)
            BY <1>2, <1>4, <3>1, LongerAppend, ChangesAppend
          <5>2. Longer(Append(Pending, e), Append(Append(Pending, e), f), N)
            BY <1>2, <3>1, <5>1, LongerAppend
          <5>. QED BY <2>1, <4>2, <5>1, <5>2, LongerTwice
        <4>. QED BY <4>1, <4>2
      <3>. QED BY <3>1
    <2>3. metaAt' = [metaAt EXCEPT ![p] = a]
      BY <1>1, <1>8
    <2>4. CASE Renaming \/ Elsewhere(a, p)
      <3>1. raced' = Race(a, p) /\ p \in raced'
        BY <1>1, <1>2, <1>8, <2>4, RaceWhole
      <3>2. \A r \in Path : metaAt'[r] = metaAt[r] \/ (r \in raced' /\ metaAt'[r] \in {a, NoAsset})
        BY <1>4, <2>3, <3>1
      <3>. QED BY <1>1, <1>2, <1>6, <2>2, <3>1, <3>2, MirrorRaced
    <2>5. CASE ~Renaming /\ ~Elsewhere(a, p)
      <3>1. raced' = raced /\ Places(a) \subseteq {p}
        BY <1>1, <1>8, <2>5 DEF Elsewhere
      <3>2. metaAt[p] # NoAsset => At(a, p)
        BY <1>3, <1>8 DEF MayWriteMeta
      <3>3. \A i \in DOMAIN Pending : Pending[i].kind # "renamed"
        BY <2>5, PendingIs DEF IInv
      <3>4. /\ Append(Pending, e) \in Seq(Event)
            /\ \A i \in DOMAIN Append(Pending, e) : Append(Pending, e)[i].kind # "renamed"
        BY <1>2, <1>4, <3>3, CalmMore, ChangesAppend
      <3>5. \A i \in DOMAIN Pending' : Pending'[i].kind # "renamed"
        BY <1>2, <1>4, <2>1, <3>3, <3>4, CalmMore
      <3>6. ModifiedAt(Pending', p)
        <4>1. \A q \in Seq(Event) : ModifiedAt(Append(q, f), p)
          BY <1>2, ChangesAppend DEF ModifiedAt
        <4>. QED BY <1>4, <2>1, <3>4, <4>1
      <3>7. ASSUME metaAt[p] = NoAsset, p \notin raced, Flips(Pending, p, files[p] # NoAsset, metaAt[p] # NoAsset)
            PROVE  /\ Flips(Append(Pending, e), p, files[p] # NoAsset, TRUE)
                   /\ Changes(Append(Pending, e), p) # {}
        <4>1. files[p] # NoAsset => Changes(Pending, p) # {}
          <5>1. SUFFICES ASSUME files[p] # NoAsset
                         PROVE  Changes(Pending, p) # {}
            OBVIOUS
          <5>2. files[p] \in Asset
            BY <1>2, <5>1 DEF IInv, MemTypes
          <5>3. PICK b \in Asset : b = files[p]
            BY <5>2
          <5>4. Follows(b)
            BY <1>2, <3>7, <5>3, PlacesAre DEF Mirror, PlacesInv
          <5>5. At(b, p) /\ metaAt[p] # b
            BY <1>2, <3>7, <5>3, <5>4, NoAssetIsNone DEF Follows
          <5>. QED BY <1>2, <2>5, <5>4, <5>5, CalmFollows
        <4>2. Flips(Pending, p, files[p] # NoAsset, FALSE)
          BY <3>7 DEF Flips
        <4>3. /\ Flips(Append(Pending, e), e.path, files[p] # NoAsset, e.kind = "added")
              /\ Changes(Append(Pending, e), e.path) # {}
          BY <1>2, <1>4, <4>1, <4>2, FlipsAppend
        <4>. QED BY <1>2, <4>3 DEF Flips
      <3>8. metaAt[p] = NoAsset => Changes(Pending', p) # {}
        <4>1. Len(Pending) + 1 \in Changes(Append(Pending, e), p)
          BY <1>2, <1>4, ChangesAppend
        <4>2. metaAt[p] = NoAsset => Len(Pending) + 1 \in Changes(Pending', p)
          <5>1. \A i \in Changes(Append(Pending, e), p) : i \in Changes(Append(Append(Pending, e), f), p)
            BY <1>2, <3>4, ChangesAppend
          <5>2. metaAt[p] = NoAsset => Pending' = Append(Append(Pending, e), f)
            BY <2>1
          <5>. QED BY <4>1, <5>1, <5>2
        <4>. QED BY <4>2
      <3>9. Flips(Pending, p, files[p] # NoAsset, metaAt[p] # NoAsset) /\ p \notin raced =>
              Flips(Pending', p, files[p] # NoAsset, TRUE)
        <4>1. SUFFICES ASSUME Flips(Pending, p, files[p] # NoAsset, metaAt[p] # NoAsset), p \notin raced
                       PROVE  Flips(Pending', p, files[p] # NoAsset, TRUE)
          OBVIOUS
        <4>2. CASE metaAt[p] = NoAsset
          BY <1>2, <2>1, <3>4, <3>7, <4>1, <4>2, FlipsOther
        <4>3. CASE metaAt[p] # NoAsset
          <5>1. Flips(Pending, p, files[p] # NoAsset, TRUE)
            BY <4>1, <4>3 DEF Flips
          <5>. QED BY <1>2, <1>4, <2>1, <4>3, <5>1, FlipsOther
        <4>. QED BY <4>2, <4>3
      <3>. QED BY <1>1, <1>2, <1>6, <2>2, <2>3, <2>5, <3>1, <3>2, <3>5, <3>6, <3>8, <3>9, MirrorPut
    <2>. QED BY <2>4, <2>5
  <1>. QED BY <1>7, <1>8

\* What the registry has at a path where no file is, it is about to hear of.
LEMMA Noticeable ==
  ASSUME IInv, Mirror, ~Renaming, NEW p \in Path \ raced, metaAt[p] = NoAsset, files[p] # NoAsset
  PROVE  Changes(Pending, p) # {}
  <1>1. files[p] \in Asset
    BY DEF IInv, MemTypes
  <1>2. PICK b \in Asset : b = files[p]
    BY <1>1
  <1>3. Follows(b)
    BY <1>2, PlacesAre DEF Mirror, PlacesInv
  <1>4. At(b, p) /\ metaAt[p] # b
    BY <1>2, <1>3, NoAssetIsNone DEF Follows
  <1>. QED BY <1>3, <1>4, CalmFollows

\* A file is renamed while nothing else is on its way.
LEMMA MirrorMoved ==
  ASSUME IInv, Mirror, Pending = << >>, main.at # "meta", NEW p \in Path \ raced, NEW q \in Path \ raced,
         metaAt[p] # NoAsset, metaAt[q] = NoAsset,
         metaAt' = [metaAt EXCEPT ![p] = NoAsset, ![q] = metaAt[p]],
         UNCHANGED <<files, entries, proc, raced>>,
         NEW e \in Event, e.kind = "renamed", e.path = q, Pending' = Append(Pending, e),
         \A c \in Asset : Fresh(c) => Fresh(c)'
  PROVE  Mirror'
  <1>0. metaAt \in [Path -> Asset \cup {NoAsset}]
    BY DEF IInv, DiskTypes
  <1> PICK a \in Asset : a = metaAt[p]
    BY <1>0
  <1>1. metaAt \in [Path -> Asset \cup {NoAsset}] /\ a \in Asset /\ p # q
    BY <1>0
  <1>2. \A c, r : At(c, r)' <=> At(c, r)
    BY DEF At, Known
  <1>3. \A r \in Path : metaAt'[r] = IF r = q THEN a ELSE IF r = p THEN NoAsset ELSE metaAt[r]
    BY <1>1
  <1>4. \A c \in Asset : c # a => Places(c)' = Places(c)
    <2>1. \A c \in Asset : c # a => \A r : r \in Places(c)' <=> r \in Places(c)
      BY <1>1, <1>2, <1>3, NoAssetIsNone, PlacesAre
    <2>. QED BY <2>1
  <1>5. Places(a)' \subseteq Places(a) \cup {q} /\ p \in Places(a)
    BY <1>1, <1>2, <1>3, NoAssetIsNone, PlacesAre
  <1>6. Clean(a) /\ Clean(a)'
    BY <1>1, <1>5 DEF Mirror, PlacesInv, Clean
  <1>7. PlacesInv'
    BY <1>4, <1>6 DEF Mirror, PlacesInv, Clean
  <1>8. Pending' = <<e>> /\ DOMAIN Pending' = {1} /\ Pending'[1] = e
    <2>1. Pending' = <<e>>
      OBVIOUS
    <2>2. DOMAIN <<e>> = {1} /\ <<e>>[1] = e
      OBVIOUS
    <2>. QED BY <2>1, <2>2
  <1>9. /\ \A r : Changes(Pending', r) = {} /\ Changes(Pending, r) = {}
        /\ \A r : RenamedTo(Pending', r) <=> r = q
        /\ \A r : ~RenamedTo(Pending, r) /\ ~ModifiedAt(Pending, r)
    BY <1>8 DEF Changes, RenamedTo, ModifiedAt
  <1>10. ASSUME NEW c \in Asset, Clean(c)
         PROVE  /\ Follows(c)
                /\ \A r, s \in Path : metaAt[r] = c /\ At(c, s) => r = s
                /\ \A r \in Path : At(c, r) => metaAt[r] = c /\ Fresh(c)
                /\ \A r \in Path : metaAt[r] = c /\ proc[c] # 0 => \E s \in Path : At(c, s)
    BY <1>9, <1>10 DEF Mirror, Follows
  <1>11. RenameInv'
    <2>1. \A old \in Path : At(a, old)' => old = p
      BY <1>2, <1>6, <1>10
    <2>2. metaAt'[q] = a /\ metaAt'[p] = NoAsset
      BY <1>1, <1>3
    <2>. QED BY <1>1, <1>8, <2>1, <2>2 DEF RenameInv
  <1>12. FlipsInv'
    BY <1>9 DEF FlipsInv, Flips
  <1>13. ASSUME NEW c \in Asset, Clean(c)', c # a
         PROVE  Follows(c)'
    <2>1. Clean(c) /\ \A r \in Path : metaAt'[r] = c <=> metaAt[r] = c
      BY <1>1, <1>3, <1>4, <1>13, NoAssetIsNone DEF Clean
    <2>2. Keeps(c)
      BY <1>2, <2>1 DEF Keeps
    <2>3. Hears(c)
      BY <1>9 DEF Hears
    <2>. QED BY <1>10, <2>1, <2>2, <2>3, FollowsKept
  <1>14. Follows(a)'
    <2>1. \A r \in Path : metaAt'[r] = a <=> r = q
      BY <1>1, <1>3, <1>6, <1>10, NoAssetIsNone DEF Follows
    <2>2. \A r \in Path : files'[r] = a <=> At(a, r)'
      BY <1>2, <1>6, <1>10 DEF Follows
    <2>3. \A r \in Path : At(a, r)' => Fresh(a)'
      BY <1>1, <1>2, <1>6, <1>10
    <2>4. proc'[a] # 0 => \E s \in Path : At(a, s)'
      BY <1>1, <1>2, <1>6, <1>10
    <2>. QED BY <1>9, <2>1, <2>2, <2>3, <2>4 DEF Follows
  <1>. QED BY <1>7, <1>11, <1>12, <1>13, <1>14 DEF Mirror

\* The program is off, so that nobody hears of it; or it is not, and the event is
\* the last one.
LEMMA MirrorUsed ==
  ASSUME IInv, BirthInv, Mirror, main.at # "off", NEW p \in Path, NEW q \in Path,
         Delete(p) \/ Restore(p) \/ Rename(p, q) \/ Copy(p, q)
  PROVE  Mirror'
  <1>1. /\ UNCHANGED <<proc, builds, dirs, files, entries, artifacts, main, batch>>
        /\ main.at \in {"idle", "imports", "events", "off"}
    BY DEF Delete, Restore, Rename, Copy, User
  <1>2. Pending \in Seq(Event) /\ metaAt \in [Path -> Asset \cup {NoAsset}] /\ trash \in [Path -> Asset \cup {NoAsset}]
    BY PendingIs DEF IInv, DiskTypes, MemTypes
  <1>3. \A c \in Asset : Fresh(c) => Fresh(c)'
    BY <1>1, FreshKept
  <1>4. ~Renaming => \A i \in DOMAIN Pending : Pending[i].kind # "renamed"
    BY PendingIs DEF IInv
  <1>5. CASE Delete(p)
    <2> DEFINE e == [kind |-> "removed", path |-> p]
    <2>1. /\ metaAt[p] # NoAsset /\ metaAt' = [metaAt EXCEPT ![p] = NoAsset]
          /\ events' = events \o <<e>>
          /\ raced' = IF Renaming THEN Race(metaAt[p], p) ELSE raced
      BY <1>1, <1>5 DEF Delete, Notify, RaceIf
    <2>2. e \in Event /\ e.path = p /\ e.kind = "removed"
      BY DEF Event
    <2>. HIDE DEF e
    <2>3. Pending' = Append(Pending, e) /\ metaAt[p] \in Asset
      BY <1>1, <1>2, <2>1, <2>2, PendingMore DEF IInv
    <2>4. CASE Renaming
      <3>1. raced' = Race(metaAt[p], p) /\ p \in raced'
        BY <2>1, <2>3, <2>4, RaceWhole
      <3>2. Longer(Pending, Pending', raced')
        BY <1>2, <2>2, <2>3, <3>1, LongerAppend
      <3>3. \A r \in Path : metaAt'[r] = metaAt[r] \/ (r \in raced' /\ metaAt'[r] \in {metaAt[p], NoAsset})
        BY <1>2, <2>1, <3>1
      <3>. QED BY <1>1, <1>3, <2>3, <3>1, <3>2, <3>3, MirrorRaced
    <2>5. CASE ~Renaming
      <3>1. raced' = raced /\ Longer(Pending, Pending', {p})
            /\ \A i \in DOMAIN Pending' : Pending'[i].kind # "renamed"
        BY <1>2, <1>4, <2>1, <2>2, <2>3, <2>5, LongerAppend, CalmMore
      <3>2. Changes(Pending', p) # {}
        <4>1. /\ Len(Pending) + 1 \in DOMAIN Append(Pending, e)
              /\ Append(Pending, e)[Len(Pending) + 1] = e
          BY <1>2, <2>2, ChangesAppend
        <4>2. Len(Pending) + 1 \in Changes(Pending', p)
          BY <2>2, <2>3, <4>1 DEF Changes
        <4>. QED BY <4>2
      <3>3. Flips(Pending, p, files[p] # NoAsset, TRUE) => Flips(Pending', p, files[p] # NoAsset, FALSE)
        <4>1. SUFFICES ASSUME Flips(Pending, p, files[p] # NoAsset, TRUE)
                       PROVE  Flips(Pending', p, files[p] # NoAsset, FALSE)
          OBVIOUS
        <4>2. Flips(Append(Pending, e), e.path, files[p] # NoAsset, e.kind = "added")
          BY <1>2, <2>2, <4>1, FlipsAppend
        <4>3. (e.kind = "added") = FALSE
          BY <2>2
        <4>. QED BY <2>2, <2>3, <4>2, <4>3
      <3>. QED BY <1>1, <1>3, <2>1, <2>5, <3>1, <3>2, <3>3, MirrorTaken
    <2>. QED BY <2>4, <2>5
  <1>6. CASE Restore(p)
    <2> DEFINE e == [kind |-> "added", path |-> p]
               a == trash[p]
    <2>1. /\ metaAt[p] = NoAsset /\ a # NoAsset /\ metaAt' = [metaAt EXCEPT ![p] = a]
          /\ events' = events \o <<e>>
          /\ raced' = IF Renaming \/ Elsewhere(a, p) THEN Race(a, p) ELSE raced
      BY <1>1, <1>6 DEF Restore, Notify, RaceIf
    <2>2. e \in Event /\ e.path = p /\ e.kind = "added"
      BY DEF Event
    <2>. HIDE DEF e
    <2>3. Pending' = Append(Pending, e) /\ a \in Asset
      BY <1>1, <1>2, <2>1, <2>2, PendingMore DEF IInv
    <2>. HIDE DEF a
    <2>4. CASE Renaming \/ Elsewhere(a, p)
      <3>1. raced' = Race(a, p) /\ p \in raced'
        BY <2>1, <2>3, <2>4, RaceWhole
      <3>2. Longer(Pending, Pending', raced')
        BY <1>2, <2>2, <2>3, <3>1, LongerAppend
      <3>3. \A r \in Path : metaAt'[r] = metaAt[r] \/ (r \in raced' /\ metaAt'[r] \in {a, NoAsset})
        BY <1>2, <2>1, <3>1
      <3>. QED BY <1>1, <1>3, <2>3, <3>1, <3>2, <3>3, MirrorRaced
    <2>5. CASE ~Renaming /\ ~Elsewhere(a, p)
      <3>1. raced' = raced /\ Longer(Pending, Pending', {p}) /\ Places(a) \subseteq {p}
            /\ \A i \in DOMAIN Pending' : Pending'[i].kind # "renamed"
        BY <1>2, <1>4, <2>1, <2>2, <2>3, <2>5, LongerAppend, CalmMore DEF Elsewhere
      <3>2. Changes(Pending', p) # {}
        BY <1>2, <2>2, <2>3, ChangesAppend
      <3>3. Flips(Pending, p, files[p] # NoAsset, metaAt[p] # NoAsset) /\ p \notin raced =>
              Flips(Pending', p, files[p] # NoAsset, TRUE)
        <4>1. SUFFICES ASSUME Flips(Pending, p, files[p] # NoAsset, metaAt[p] # NoAsset), p \notin raced
                       PROVE  Flips(Pending', p, files[p] # NoAsset, TRUE)
          OBVIOUS
        <4>2. files[p] # NoAsset => Changes(Pending, p) # {}
          BY <2>1, <2>5, <4>1, Noticeable
        <4>3. Flips(Pending, p, files[p] # NoAsset, FALSE)
          BY <2>1, <4>1 DEF Flips
        <4>4. Flips(Append(Pending, e), e.path, files[p] # NoAsset, e.kind = "added")
          BY <1>2, <2>2, <4>2, <4>3, FlipsAppend
        <4>. QED BY <2>2, <2>3, <4>4 DEF Flips
      <3>. QED BY <1>1, <1>3, <2>1, <2>3, <2>5, <3>1, <3>2, <3>3, MirrorPut
    <2>. QED BY <2>4, <2>5
  <1>7. CASE Copy(p, q)
    <2> DEFINE a == metaAt[p]
               e == [kind |-> "added", path |-> q]  f == [kind |-> "modified", path |-> q]
    <2>1. /\ a # NoAsset /\ metaAt[q] = NoAsset /\ metaAt' = [metaAt EXCEPT ![q] = a]
          /\ events' = events \o (<<e>> \o <<f>>)
          /\ raced' = Race(a, q)
      BY <1>1, <1>7 DEF Copy, Notify, FileWritten, RaceIf
    <2>2. e \in Event /\ e.path = q /\ f \in Event /\ f.path = q
      BY DEF Event
    <2>. HIDE DEF e, f
    <2>3. Pending' = Append(Append(Pending, e), f) /\ a \in Asset
      BY <1>1, <1>2, <2>1, <2>2, PendingMore DEF IInv
    <2>4. q \in raced'
      BY <2>1, <2>3, RaceWhole
    <2>5. Longer(Pending, Pending', raced')
      <3>1. Longer(Pending, Append(Pending, e), raced') /\ Append(Pending, e) \in Seq(Event)
        BY <1>2, <2>2, <2>4, LongerAppend, ChangesAppend
      <3>2. Longer(Append(Pending, e), Append(Append(Pending, e), f), raced')
        BY <2>2, <2>4, <3>1, LongerAppend
      <3>. QED BY <2>3, <3>1, <3>2, LongerTwice
    <2>6. \A r \in Path : metaAt'[r] = metaAt[r] \/ (r \in raced' /\ metaAt'[r] \in {a, NoAsset})
      BY <1>2, <2>1, <2>4
    <2>. QED BY <1>1, <1>3, <2>1, <2>3, <2>5, <2>6, MirrorRaced
  <1>8. CASE Rename(p, q)
    <2> DEFINE a == metaAt[p]
               e == [kind |-> "renamed", path |-> q]
    <2>1. /\ a # NoAsset /\ metaAt[q] = NoAsset
          /\ metaAt' = [metaAt EXCEPT ![p] = NoAsset, ![q] = a]
          /\ events' = events \o <<e>>
          /\ raced' = IF ~Quiet \/ {p, q} \cap raced # {} THEN Race(a, q) ELSE raced
      BY <1>1, <1>8 DEF Rename, Notify, RaceIf
    <2>2. e \in Event /\ e.path = q /\ e.kind = "renamed"
      BY DEF Event
    <2>. HIDE DEF e
    <2>3. Pending' = Append(Pending, e) /\ a \in Asset
      BY <1>1, <1>2, <2>1, <2>2, PendingMore DEF IInv
    <2>4. CASE ~Quiet \/ {p, q} \cap raced # {}
      <3>1. raced' = Race(a, q) /\ q \in raced' /\ p \in raced'
        BY <2>1, <2>3, <2>4, RaceWhole, PlacesAre
      <3>2. Longer(Pending, Pending', raced')
        BY <1>2, <2>2, <2>3, <3>1, LongerAppend
      <3>3. \A r \in Path : metaAt'[r] = metaAt[r] \/ (r \in raced' /\ metaAt'[r] \in {a, NoAsset})
        BY <1>2, <2>1, <3>1
      <3>. QED BY <1>1, <1>3, <2>3, <3>1, <3>2, <3>3, MirrorRaced
    <2>5. CASE Quiet /\ p \notin raced /\ q \notin raced
      <3>1. Pending = << >>
        <4>1. batch = << >> /\ events = << >>
          BY <2>5 DEF Quiet, BirthInv
        <4>. QED BY <4>1 DEF Pending
      <3>. QED BY <1>1, <1>3, <2>1, <2>2, <2>3, <2>5, <3>1, MirrorMoved DEF Quiet
    <2>. QED BY <2>1, <2>4, <2>5
  <1>. QED BY <1>5, <1>6, <1>7, <1>8

-----------------------------------------------------------------------------
(* Events that are handled. *)

LEMMA TailHears ==
  ASSUME NEW q \in Seq(Event), q # << >>, NEW p
  PROVE  /\ Changes(q, p) # {} /\ (Head(q).path # p \/ Head(q).kind \notin {"added", "removed"}) =>
              Changes(Tail(q), p) # {}
         /\ ModifiedAt(q, p) /\ (Head(q).path # p \/ Head(q).kind # "modified") => ModifiedAt(Tail(q), p)
         /\ RenamedTo(q, p) => Head(q).path = p /\ Head(q).kind = "renamed"
  <1>1. Changes(q, p) # {} /\ (Head(q).path # p \/ Head(q).kind \notin {"added", "removed"}) =>
          Changes(Tail(q), p) # {}
    BY ChangesTail
  <1>2. ModifiedAt(q, p) /\ (Head(q).path # p \/ Head(q).kind # "modified") => ModifiedAt(Tail(q), p)
    <2>1. SUFFICES ASSUME ModifiedAt(q, p), Head(q).path # p \/ Head(q).kind # "modified"
                   PROVE  ModifiedAt(Tail(q), p)
      OBVIOUS
    <2>2. PICK i \in DOMAIN q : q[i].path = p /\ q[i].kind = "modified"
      BY <2>1 DEF ModifiedAt
    <2>3. i # 1
      BY <2>1, <2>2, TailIs
    <2>4. i - 1 \in DOMAIN Tail(q) /\ Tail(q)[i - 1] = q[i]
      BY <2>3, TailIs
    <2>. QED BY <2>2, <2>4 DEF ModifiedAt
  <1>3. RenamedTo(q, p) => Head(q).path = p /\ Head(q).kind = "renamed"
    BY TailIs DEF RenamedTo
  <1>. QED BY <1>1, <1>2, <1>3

\* What all events have in common when they are handled.
LEMMA HandleIs ==
  ASSUME IInv, NEW kind, Handle(kind)
  PROVE  /\ Pending \in Seq(Event) /\ Pending # << >> /\ Pending' = Tail(Pending)
         /\ Head(Pending) = Head(batch) /\ Head(Pending).kind = kind /\ Head(batch).path \in Path
         /\ main.at = "events" /\ UNCHANGED <<metaAt, proc, builds, dirs, raced, main>>
         /\ metaAt \in [Path -> Asset \cup {NoAsset}] /\ files \in [Path -> Asset \cup {NoAsset}]
  <1>1. /\ batch # << >> /\ batch' = Tail(batch) /\ events' = events /\ Head(batch).kind = kind
        /\ main.at = "events" /\ UNCHANGED <<metaAt, proc, builds, dirs, raced, main>>
    BY DEF Handle, diskVars, boundVars
  <1>2. Pending # << >> /\ Head(Pending) = Head(batch) /\ Pending' = Tail(Pending)
    BY <1>1, PendingTail DEF IInv
  <1>. QED BY <1>1, <1>2, Named, PendingIs DEF IInv, DiskTypes, MemTypes

LEMMA KeepsHandled ==
  ASSUME UNCHANGED <<metaAt, proc, builds, dirs, main>>, NEW c, artifacts'[c] = artifacts[c],
         \A r \in Path : (files'[r] = c <=> files[r] = c) /\ (At(c, r)' <=> At(c, r))
  PROVE  Keeps(c) /\ Places(c)' = Places(c)
  <1>1. \A k : OnDisk(k)' = OnDisk(k)
    BY DEF OnDisk
  <1>2. Fresh(c) => Fresh(c)'
    BY <1>1 DEF Fresh, Matches
  <1>3. \A r : r \in Places(c)' <=> r \in Places(c)
    BY PlacesAre
  <1>. QED BY <1>2, <1>3 DEF Keeps

\* An event of a path where the asset is not.
LEMMA HearsElsewhere ==
  ASSUME IInv, Pending # << >>, Pending' = Tail(Pending), NEW c, Head(Pending).path \notin Places(c)
  PROVE  Hears(c)
  <1>1. Pending \in Seq(Event)
    BY PendingIs DEF IInv
  <1>. QED BY <1>1, TailHears, PlacesAre DEF Hears

LEMMA MirrorHandled ==
  ASSUME IInv, Mirror, Pending # << >>, Pending' = Tail(Pending), UNCHANGED <<metaAt, raced>>,
         \A r \in Path \ raced :
           \/ Changes(Tail(Pending), r) = {}
           \/ IF 1 \in Changes(Pending, r) THEN files'[r] # NoAsset => Head(Pending).kind = "added"
              ELSE files'[r] # NoAsset => files[r] # NoAsset,
         \A c \in Asset : Places(c)' \subseteq raced \/ (Places(c)' \cap raced = {} /\ Follows(c)')
  PROVE  Mirror'
  <1>1. Pending \in Seq(Event)
    BY PendingIs DEF IInv
  <1>2. PlacesInv'
    BY DEF PlacesInv, Clean
  <1>3. RenameInv'
    <2>1. ASSUME NEW i \in DOMAIN Tail(Pending), Tail(Pending)[i].kind = "renamed",
                 Tail(Pending)[i].path \notin raced
          PROVE  FALSE
      <3>1. i + 1 \in DOMAIN Pending /\ Tail(Pending)[i] = Pending[i + 1] /\ i + 1 # 1
        BY <1>1, TailIs
      <3>. QED BY <2>1, <3>1 DEF Mirror, RenameInv
    <2>. QED BY <2>1 DEF RenameInv
  <1>4. FlipsInv'
    <2>1. ASSUME NEW r \in Path \ raced
          PROVE  Flips(Tail(Pending), r, files'[r] # NoAsset, metaAt[r] # NoAsset)
      <3>1. CASE Changes(Tail(Pending), r) = {}
        BY <3>1 DEF Flips
      <3>2. CASE Changes(Tail(Pending), r) # {}
        <4>1. Flips(Pending, r, files[r] # NoAsset, metaAt[r] # NoAsset)
          BY DEF Mirror, FlipsInv
        <4>2. IF 1 \in Changes(Pending, r) THEN (files'[r] # NoAsset) => Head(Pending).kind = "added"
              ELSE (files'[r] # NoAsset) => (files[r] # NoAsset)
          BY <3>2
        <4>3. (files[r] # NoAsset) \in BOOLEAN /\ (files'[r] # NoAsset) \in BOOLEAN
              /\ (metaAt[r] # NoAsset) \in BOOLEAN
          OBVIOUS
        <4>. QED BY <1>1, <4>1, <4>2, <4>3, FlipsTail
      <3>. QED BY <3>1, <3>2
    <2>. QED BY <2>1 DEF FlipsInv
  <1>5. ASSUME NEW c \in Asset, Clean(c)'
        PROVE  Follows(c)'
    <2>1. CASE Places(c)' = {}
      BY <2>1, PlacesAre, NowhereFollows
    <2>2. CASE Places(c)' # {}
      BY <1>5, <2>2 DEF Clean
    <2>. QED BY <2>1, <2>2
  <1>. QED BY <1>2, <1>3, <1>4, <1>5 DEF Mirror

\* An event of a path that is raced leaves the other assets alone.
LEMMA MirrorOfRaced ==
  ASSUME IInv, Mirror, Pending # << >>, Pending' = Tail(Pending),
         UNCHANGED <<metaAt, proc, builds, dirs, raced, main>>,
         Head(Pending).path \in raced,
         \A r \in Path \ raced : files'[r] = files[r],
         \A c \in Asset : Clean(c) /\ ~(Places(c) \subseteq raced) =>
           /\ artifacts'[c] = artifacts[c]
           /\ \A r \in Path : (files'[r] = c <=> files[r] = c) /\ (At(c, r)' <=> At(c, r)),
         \A c \in Asset : Places(c) \subseteq raced => Places(c)' \subseteq raced
  PROVE  Mirror'
  <1>1. Pending \in Seq(Event)
    BY PendingIs DEF IInv
  <1>2. \A r \in Path \ raced : 1 \notin Changes(Pending, r)
    BY <1>1, ChangesTail
  <1>3. ASSUME NEW c \in Asset
        PROVE  Places(c)' \subseteq raced \/ (Places(c)' \cap raced = {} /\ Follows(c)')
    <2>1. CASE Places(c) \subseteq raced
      BY <2>1
    <2>2. CASE ~(Places(c) \subseteq raced)
      <3>1. Clean(c) /\ Follows(c)
        BY <2>2 DEF Mirror, PlacesInv
      <3>2. Keeps(c) /\ Places(c)' = Places(c)
        BY <2>2, <3>1, KeepsHandled
      <3>3. Hears(c)
        BY <3>1, HearsElsewhere DEF Clean
      <3>. QED BY <3>1, <3>2, <3>3, FollowsKept DEF Clean
    <2>. QED BY <2>1, <2>2
  <1>. QED BY <1>2, <1>3, MirrorHandled

LEMMA MirrorAdded ==
  ASSUME IInv, Mirror, FileAdded
  PROVE  Mirror'
  <1>1. PICK p \in Path : p = Head(batch).path
    BY HandleIs DEF FileAdded
  <1>2. /\ Pending \in Seq(Event) /\ Pending # << >> /\ Pending' = Tail(Pending)
        /\ Head(Pending).path = p /\ Head(Pending).kind = "added"
        /\ UNCHANGED <<metaAt, proc, builds, dirs, raced, main>>
        /\ metaAt \in [Path -> Asset \cup {NoAsset}] /\ files \in [Path -> Asset \cup {NoAsset}]
    BY <1>1, HandleIs DEF FileAdded
  <1>3. PICK a \in Asset \cup {NoAsset} : a = metaAt[p]
    BY <1>2
  <1> DEFINE inserted == IF files[p] = NoAsset THEN a ELSE files[p]
             learnt == [path |-> p, nodes |-> Discovered(a), busy |-> FALSE]
             row == [n \in Node |-> IF n \in Discovered(a) /\ artifacts[a][n] = 0 THEN proc[a] ELSE artifacts[a][n]]
  <1>4. \/ a = NoAsset /\ UNCHANGED <<files, entries, artifacts>>
        \/ a \in Known /\ files' = [files EXCEPT ![p] = inserted] /\ UNCHANGED <<entries, artifacts>>
        \/ a \in Asset \ Known /\ proc[a] = 0 /\ files' = [files EXCEPT ![p] = NoAsset] /\ UNCHANGED <<entries, artifacts>>
        \/ /\ a \in Asset \ Known /\ proc[a] # 0 /\ files' = [files EXCEPT ![p] = inserted]
           /\ entries' = Learn(a, learnt) /\ artifacts' = [artifacts EXCEPT ![a] = row]
    BY <1>1, <1>3 DEF FileAdded, AddArtifacts
  <1>5. NoAsset \notin Known /\ artifacts \in [Asset -> [Node -> Nat]] /\ Known \subseteq Asset
    BY NoAssetIsNone DEF IInv, MemTypes
  <1>6. learnt.path = p
    OBVIOUS
  <1>. HIDE DEF learnt, row
  <1>7. \A r \in Path : r # p => files'[r] = files[r]
    BY <1>2, <1>4
  <1>8. files'[p] \in {files[p], NoAsset, a}
    BY <1>2, <1>4
  <1>9. \A c \in Asset : c # a => artifacts'[c] = artifacts[c] /\ \A r : At(c, r)' <=> At(c, r)
    BY <1>4, <1>5 DEF At, Learn, Known
  <1>10. \A r : At(a, r)' => At(a, r) \/ r = p
    BY <1>4, <1>5, <1>6 DEF At, Learn, Known
  <1>11. \A c \in Asset : Places(c)' \subseteq Places(c) \cup {p}
    <2>1. \A c \in Asset : \A r \in Places(c)' : r \in Places(c) \/ r = p
      BY <1>2, <1>7, <1>9, <1>10, PlacesAre
    <2>. QED BY <2>1
  <1>12. CASE p \in raced
    <2>1. ASSUME NEW c \in Asset, Clean(c), ~(Places(c) \subseteq raced)
          PROVE  /\ artifacts'[c] = artifacts[c]
                 /\ \A r \in Path : (files'[r] = c <=> files[r] = c) /\ (At(c, r)' <=> At(c, r))
      <3>1. p \notin Places(c)
        BY <1>12, <2>1 DEF Clean
      <3>2. c # a /\ files[p] # c
        BY <1>3, <3>1, PlacesAre
      <3>3. files'[p] # c
        BY <1>8, <3>2, NoAssetIsNone
      <3>. QED BY <1>7, <1>9, <3>2, <3>3
    <2>2. \A c \in Asset : Places(c) \subseteq raced => Places(c)' \subseteq raced
      BY <1>11, <1>12
    <2>3. \A r \in Path \ raced : files'[r] = files[r]
      BY <1>7, <1>12
    <2>. QED BY <1>2, <1>12, <2>1, <2>2, <2>3, MirrorOfRaced
  <1>13. CASE p \notin raced
    <2>1. 1 \in Changes(Pending, p) /\ \A r : r # p => 1 \notin Changes(Pending, r)
      BY <1>2, ChangesTail
    <2>2. files[p] = NoAsset
      <3>1. Flips(Pending, p, files[p] # NoAsset, metaAt[p] # NoAsset)
        BY <1>13 DEF Mirror, FlipsInv
      <3>2. (files[p] # NoAsset) \in BOOLEAN /\ (metaAt[p] # NoAsset) \in BOOLEAN
        OBVIOUS
      <3>3. (files[p] # NoAsset) => Head(Pending).kind = "removed"
        BY <1>2, <2>1, <3>1, <3>2, FlipsHead
      <3>. QED BY <1>2, <3>3
    <2>3. ASSUME NEW c \in Asset, c # a
          PROVE  Places(c)' \subseteq raced \/ (Places(c)' \cap raced = {} /\ Follows(c)')
      <3>1. files'[p] # c /\ files[p] # c
        BY <1>8, <2>2, <2>3, NoAssetIsNone
      <3>2. Keeps(c) /\ Places(c)' = Places(c)
        BY <1>2, <1>7, <1>9, <2>3, <3>1, KeepsHandled
      <3>3. CASE Clean(c)
        <4>1. Follows(c)
          BY <3>3 DEF Mirror
        <4>2. ~At(c, p)
          BY <3>1, <4>1 DEF Follows
        <4>3. p \notin Places(c)
          BY <1>3, <2>3, <3>1, <4>2, PlacesAre
        <4>4. Hears(c)
          BY <1>2, <4>3, HearsElsewhere
        <4>. QED BY <3>2, <3>3, <4>1, <4>4, FollowsKept DEF Clean
      <3>4. CASE ~Clean(c)
        BY <3>2, <3>4 DEF Mirror, PlacesInv
      <3>. QED BY <3>3, <3>4
    <2>4. ASSUME a \in Asset
          PROVE  Places(a)' \cap raced = {} /\ Follows(a)'
      <3>1. p \in Places(a)
        BY <1>3, PlacesAre
      <3>2. Clean(a) /\ Follows(a)
        BY <1>13, <2>4, <3>1 DEF Mirror, PlacesInv, Clean
      <3>3. Places(a)' \cap raced = {}
        BY <1>11, <1>13, <2>4, <3>2 DEF Clean
      <3>4. \A r \in Path : metaAt[r] = a => r = p
        BY <1>3, <3>2 DEF Follows
      <3>5. ASSUME a \in Known
            PROVE  FALSE
        <4>1. At(a, entries[a].path) /\ entries[a].path \in Path
          BY <3>5 DEF At, IInv, MemTypes, Entry
        <4>2. ~RenamedTo(Pending, p)
          BY <1>2, TailHears
        <4>3. At(a, p)
          BY <1>3, <3>2, <4>1, <4>2 DEF Follows
        <4>. QED BY <2>2, <2>4, <3>2, <4>3, NoAssetIsNone DEF Follows
      <3>6. \A r \in Path : ~At(a, r) /\ files[r] # a
        BY <3>2, <3>5 DEF At, Follows
      <3>7. CASE proc[a] = 0
        <4>1. \A r \in Path : ~At(a, r)' /\ files'[r] # a /\ proc'[a] = 0
          BY <1>2, <1>4, <1>7, <2>4, <3>5, <3>6, <3>7, NoAssetIsNone DEF At, Known
        <4>. QED BY <1>2, <3>3, <3>4, <4>1 DEF Follows
      <3>8. CASE proc[a] # 0
        <4>1. /\ files' = [files EXCEPT ![p] = a]
              /\ entries' = Learn(a, learnt) /\ artifacts' = [artifacts EXCEPT ![a] = row]
          BY <1>4, <2>2, <2>4, <3>5, <3>8, NoAssetIsNone
        <4>2. \A r : At(a, r)' <=> r = p
          BY <1>6, <4>1 DEF At, Learn, Known
        <4>3. \A r \in Path : files'[r] = a <=> r = p
          BY <1>2, <3>6, <4>1
        <4>4. Matches(a)'
          <5>1. artifacts'[a] = row
            BY <1>5, <2>4, <4>1
          <5>2. \A n \in Node : artifacts[a][n] = 0
            BY <2>4, <3>5 DEF IInv, MapFollowsEntries
          <5>3. Discovered(a) = OnDisk(proc[a])
            BY <3>8 DEF Discovered
          <5>4. \A n \in Node : row[n] = IF n \in OnDisk(proc[a]) THEN proc[a] ELSE 0
            BY <5>2, <5>3 DEF row
          <5>5. OnDisk(proc[a])' = OnDisk(proc[a])
            BY <1>2 DEF OnDisk
          <5>. QED BY <1>2, <5>1, <5>4, <5>5 DEF Matches
        <4>. QED BY <1>2, <1>3, <3>3, <3>4, <4>2, <4>3, <4>4 DEF Follows, Fresh
      <3>. QED BY <3>7, <3>8
    <2>5. \A c \in Asset : Places(c)' \subseteq raced \/ (Places(c)' \cap raced = {} /\ Follows(c)')
      BY <2>3, <2>4
    <2>. QED BY <1>2, <1>7, <2>1, <2>5, MirrorHandled
  <1>. QED BY <1>12, <1>13

LEMMA MirrorRemoved ==
  ASSUME IInv, Mirror, FileRemoved
  PROVE  Mirror'
  <1>1. PICK p \in Path : p = Head(batch).path
    BY HandleIs DEF FileRemoved
  <1>2. /\ Pending \in Seq(Event) /\ Pending # << >> /\ Pending' = Tail(Pending)
        /\ Head(Pending).path = p /\ Head(Pending).kind = "removed"
        /\ UNCHANGED <<metaAt, proc, builds, dirs, raced, main>>
        /\ metaAt \in [Path -> Asset \cup {NoAsset}] /\ files \in [Path -> Asset \cup {NoAsset}]
    BY <1>1, HandleIs DEF FileRemoved
  <1>3. PICK a \in Asset \cup {NoAsset} : a = files[p]
    BY <1>2
  <1>4. /\ files' = [files EXCEPT ![p] = NoAsset]
        /\ IF a \in Known
           THEN /\ entries' = Forget(a)
                /\ \E row : artifacts' = [artifacts EXCEPT ![a] = row]
           ELSE UNCHANGED <<entries, artifacts>>
    BY <1>1, <1>3 DEF FileRemoved
  <1>5. artifacts \in [Asset -> [Node -> Nat]]
    BY DEF IInv, MemTypes
  <1>6. \A r \in Path : files'[r] = IF r = p THEN NoAsset ELSE files[r]
    BY <1>2, <1>4
  <1>7. \A c \in Asset : c # a => artifacts'[c] = artifacts[c] /\ \A r : At(c, r)' <=> At(c, r)
    BY <1>4, <1>5 DEF At, Forget, Known
  <1>8. \A r : ~At(a, r)'
    BY <1>4 DEF At, Forget, Known
  <1>9. \A c \in Asset : Places(c)' \subseteq Places(c)
    <2>1. \A c \in Asset : \A r \in Places(c)' : r \in Places(c)
      BY <1>2, <1>6, <1>7, <1>8, NoAssetIsNone, PlacesAre
    <2>. QED BY <2>1
  <1>10. CASE p \in raced
    <2>1. ASSUME NEW c \in Asset, Clean(c), ~(Places(c) \subseteq raced)
          PROVE  /\ artifacts'[c] = artifacts[c]
                 /\ \A r \in Path : (files'[r] = c <=> files[r] = c) /\ (At(c, r)' <=> At(c, r))
      <3>1. p \notin Places(c)
        BY <1>10, <2>1 DEF Clean
      <3>2. c # a /\ files[p] # c
        BY <1>3, <3>1, PlacesAre
      <3>. QED BY <1>6, <1>7, <3>2, NoAssetIsNone
    <2>2. \A c \in Asset : Places(c) \subseteq raced => Places(c)' \subseteq raced
      BY <1>9
    <2>3. \A r \in Path \ raced : files'[r] = files[r]
      BY <1>6, <1>10
    <2>. QED BY <1>2, <1>10, <2>1, <2>2, <2>3, MirrorOfRaced
  <1>11. CASE p \notin raced
    <2>1. 1 \in Changes(Pending, p) /\ \A r : r # p => 1 \notin Changes(Pending, r)
      BY <1>2, ChangesTail
    <2>2. metaAt[p] # NoAsset => Changes(Tail(Pending), p) # {}
      <3>1. Flips(Pending, p, files[p] # NoAsset, metaAt[p] # NoAsset)
        BY <1>11 DEF Mirror, FlipsInv
      <3>2. (files[p] # NoAsset) \in BOOLEAN /\ (metaAt[p] # NoAsset) \in BOOLEAN
        OBVIOUS
      <3>3. Changes(Tail(Pending), p) = {} => (Head(Pending).kind = "added" <=> (metaAt[p] # NoAsset))
        BY <1>2, <2>1, <3>1, <3>2, FlipsHead
      <3>. QED BY <1>2, <3>3
    <2>3. ASSUME NEW c, NEW r \in Path, metaAt[r] = c, c # NoAsset, Changes(Pending, r) # {}
          PROVE  Changes(Tail(Pending), r) # {}
      BY <1>2, <2>2, <2>3, TailHears
    <2>4. ASSUME NEW c \in Asset, c # a
          PROVE  Places(c)' \subseteq raced \/ (Places(c)' \cap raced = {} /\ Follows(c)')
      <3>1. files[p] # c
        BY <1>3, <2>4
      <3>2. Keeps(c) /\ Places(c)' = Places(c)
        BY <1>2, <1>6, <1>7, <2>4, <3>1, NoAssetIsNone, KeepsHandled
      <3>3. CASE Clean(c)
        <4>1. Follows(c)
          BY <3>3 DEF Mirror
        <4>2. ~At(c, p)
          BY <3>1, <4>1 DEF Follows
        <4>3. \A r \in Places(c) : Changes(Pending, r) # {} => Changes(Pending', r) # {}
          <5>1. ASSUME NEW r \in Places(c), Changes(Pending, r) # {}
                PROVE  Changes(Tail(Pending), r) # {}
            <6>1. CASE r = p
              <7>1. metaAt[p] = c
                BY <3>1, <4>2, <5>1, <6>1, PlacesAre
              <7>. QED BY <2>2, <6>1, <7>1, NoAssetIsNone
            <6>2. CASE r # p
              BY <1>2, <5>1, <6>2, TailHears
            <6>. QED BY <6>1, <6>2
          <5>. QED BY <1>2, <5>1
        <4>4. \A r : ModifiedAt(Pending, r) => ModifiedAt(Pending', r)
          BY <1>2, TailHears
        <4>5. \A r : ~RenamedTo(Pending, r)
          BY <1>2, TailHears
        <4>6. Hears(c)
          BY <4>3, <4>4, <4>5 DEF Hears
        <4>. QED BY <3>2, <3>3, <4>1, <4>6, FollowsKept DEF Clean
      <3>4. CASE ~Clean(c)
        BY <3>2, <3>4 DEF Mirror, PlacesInv
      <3>. QED BY <3>3, <3>4
    <2>5. ASSUME a \in Asset
          PROVE  Places(a)' \cap raced = {} /\ Follows(a)'
      <3>1. p \in Places(a)
        BY <1>3, PlacesAre
      <3>2. Clean(a) /\ Follows(a)
        BY <1>11, <2>5, <3>1 DEF Mirror, PlacesInv, Clean
      <3>3. Places(a)' \cap raced = {}
        BY <1>9, <2>5, <3>2 DEF Clean
      <3>4. At(a, p)
        BY <1>3, <3>2 DEF Follows
      <3>5. \A r \in Path : files[r] = a => r = p
        BY <3>2, <3>4 DEF Follows, At
      <3>6. \A r \in Path : files'[r] # a
        BY <1>6, <2>5, <3>5, NoAssetIsNone
      <3>7. \A r : ~RenamedTo(Pending, r)
        BY <1>2, TailHears
      <3>8. \A r \in Path : metaAt[r] = a => r = p
        BY <3>2, <3>4, <3>7 DEF Follows
      <3>9. \A r \in Path : metaAt[r] = a => Changes(Pending', r) # {}
        BY <1>2, <2>2, <2>5, <3>8, NoAssetIsNone
      <3>. QED BY <1>2, <1>8, <3>3, <3>6, <3>8, <3>9 DEF Follows
    <2>6. \A c \in Asset : Places(c)' \subseteq raced \/ (Places(c)' \cap raced = {} /\ Follows(c)')
      BY <2>4, <2>5
    <2>. QED BY <1>2, <1>6, <2>1, <2>6, MirrorHandled
  <1>. QED BY <1>10, <1>11

LEMMA MirrorModified ==
  ASSUME IInv, Mirror, FileModified
  PROVE  Mirror'
  <1>1. PICK p \in Path : p = Head(batch).path
    BY HandleIs DEF FileModified
  <1>2. /\ Pending \in Seq(Event) /\ Pending # << >> /\ Pending' = Tail(Pending)
        /\ Head(Pending).path = p /\ Head(Pending).kind = "modified"
        /\ UNCHANGED <<metaAt, proc, builds, dirs, raced, main>>
        /\ metaAt \in [Path -> Asset \cup {NoAsset}] /\ files \in [Path -> Asset \cup {NoAsset}]
    BY <1>1, HandleIs DEF FileModified
  <1>3. PICK a \in Asset \cup {NoAsset} : a = metaAt[p]
    BY <1>2
  <1> DEFINE k == proc[a]
             old == entries[a].nodes
             new == builds[k].nodes
             added == (new \ old) \cap OnDisk(k)
             row == [n \in Node |->
               IF n \in old \ new THEN 0
               ELSE IF n \in added \/ (n \in old \cap new /\ artifacts[a][n] # 0) THEN k ELSE artifacts[a][n]]
  <1>4. /\ files' = files
        /\ IF a \in Known /\ files[p] # NoAsset /\ proc[a] # 0
           THEN artifacts' = [artifacts EXCEPT ![a] = row] /\ entries' = [entries EXCEPT ![a].nodes = new]
           ELSE UNCHANGED <<entries, artifacts>>
    BY <1>1, <1>3 DEF FileModified
  <1>5. artifacts \in [Asset -> [Node -> Nat]] /\ entries \in [Known -> Entry] /\ Known \subseteq Asset
    BY DEF IInv, MemTypes
  <1>. HIDE DEF k, old, new, added, row
  <1>6. \A c \in Asset : c # a => artifacts'[c] = artifacts[c]
    BY <1>4, <1>5
  <1>7. \A c, r : At(c, r)' <=> At(c, r)
    <2>1. CASE entries' = entries
      BY <2>1 DEF At, Known
    <2>2. CASE a \in Known /\ entries' = [entries EXCEPT ![a].nodes = new]
      <3>1. [entries[a] EXCEPT !.nodes = new].path = entries[a].path
        BY <1>5, <2>2 DEF Entry
      <3>. QED BY <1>5, <2>2, <3>1 DEF At, Known
    <2>. QED BY <1>4, <2>1, <2>2
  <1>8. \A c : Places(c)' = Places(c)
    <2>1. \A c : \A r : r \in Places(c)' <=> r \in Places(c)
      BY <1>2, <1>4, <1>7, PlacesAre
    <2>. QED BY <2>1
  <1>9. CASE p \in raced
    <2>1. ASSUME NEW c \in Asset, Clean(c), ~(Places(c) \subseteq raced)
          PROVE  /\ artifacts'[c] = artifacts[c]
                 /\ \A r \in Path : (files'[r] = c <=> files[r] = c) /\ (At(c, r)' <=> At(c, r))
      <3>1. p \notin Places(c)
        BY <1>9, <2>1 DEF Clean
      <3>2. c # a
        BY <1>3, <3>1, PlacesAre
      <3>. QED BY <1>4, <1>6, <1>7, <3>2
    <2>. QED BY <1>2, <1>4, <1>8, <1>9, <2>1, MirrorOfRaced
  <1>10. CASE p \notin raced
    <2>1. \A r : 1 \notin Changes(Pending, r)
      BY <1>2, ChangesTail
    <2>2. \A r : /\ Changes(Pending, r) # {} => Changes(Pending', r) # {}
                 /\ ~RenamedTo(Pending, r)
                 /\ r # p /\ ModifiedAt(Pending, r) => ModifiedAt(Pending', r)
      BY <1>2, TailHears
    <2>3. ASSUME NEW c \in Asset, c # a \/ a \notin Known
          PROVE  Places(c)' \subseteq raced \/ (Places(c)' \cap raced = {} /\ Follows(c)')
      <3>1. Keeps(c)
        BY <1>2, <1>4, <1>6, <1>7, <2>3, KeepsHandled
      <3>2. CASE Clean(c)
        <4>1. Follows(c)
          BY <3>2 DEF Mirror
        <4>2. At(c, p) => Changes(Pending, p) # {}
          BY <1>3, <2>2, <2>3, <4>1 DEF Follows, At
        <4>3. Hears(c)
          BY <2>2, <4>2 DEF Hears
        <4>. QED BY <1>2, <1>8, <3>1, <3>2, <4>1, <4>3, FollowsKept DEF Clean
      <3>3. CASE ~Clean(c)
        BY <1>8, <3>3 DEF Mirror, PlacesInv
      <3>. QED BY <3>2, <3>3
    <2>4. ASSUME a \in Known
          PROVE  Places(a)' \cap raced = {} /\ Follows(a)'
      <3>1. p \in Places(a) /\ a \in Asset
        BY <1>3, <1>5, <2>4, PlacesAre
      <3>2. Clean(a) /\ Follows(a)
        BY <1>10, <3>1 DEF Mirror, PlacesInv, Clean
      <3>3. At(a, entries[a].path) /\ entries[a].path \in Path
        BY <1>5, <2>4 DEF At, Entry
      <3>4. At(a, p)
        BY <1>3, <2>2, <3>2, <3>3 DEF Follows
      <3>5. files[p] = a /\ \A r \in Path : metaAt[r] = a <=> r = p
        BY <1>3, <3>2, <3>4 DEF Follows
      <3>6. Fresh(a)'
        <4>1. CASE proc[a] = 0
          BY <1>2, <4>1 DEF Fresh
        <4>2. CASE proc[a] # 0
          <5>1. artifacts' = [artifacts EXCEPT ![a] = row]
            BY <1>4, <2>4, <3>1, <3>5, <4>2, NoAssetIsNone
          <5>2. artifacts'[a] = row
            BY <1>5, <3>1, <5>1
          <5>3. {n \in Node : artifacts[a][n] # 0} = old
            BY <2>4, <3>1 DEF IInv, MapFollowsEntries, old
          <5>4. OnDisk(k) = new /\ k # 0
            BY <3>1, <4>2, ProcessOnDisk DEF k, new
          <5>5. \A n \in Node : row[n] = IF n \in OnDisk(k) THEN k ELSE 0
            <6>1. \A n \in Node : n \in old <=> artifacts[a][n] # 0
              BY <5>3
            <6>. QED BY <5>4, <6>1 DEF row, added
          <5>6. OnDisk(proc[a])' = OnDisk(proc[a])
            BY <1>2 DEF OnDisk
          <5>. QED BY <1>2, <5>2, <5>5, <5>6 DEF Fresh, Matches, k
        <4>. QED BY <4>1, <4>2
      <3>7. Places(a)' \cap raced = {}
        BY <1>8, <3>2 DEF Clean
      <3>8. \A r : At(a, r) => r = p
        BY <3>4 DEF At
      <3>9. \A r \in Path : files'[r] = a <=> At(a, r)'
        BY <1>4, <1>7, <3>2 DEF Follows
      <3>. QED BY <1>2, <1>7, <3>4, <3>5, <3>6, <3>7, <3>8, <3>9 DEF Follows
    <2>5. \A c \in Asset : Places(c)' \subseteq raced \/ (Places(c)' \cap raced = {} /\ Follows(c)')
      BY <2>3, <2>4
    <2>. QED BY <1>2, <1>4, <2>1, <2>5, MirrorHandled
  <1>. QED BY <1>9, <1>10

LEMMA MirrorRenamed ==
  ASSUME IInv, Mirror, FileRenamed
  PROVE  Mirror'
  <1>1. PICK q \in Path : q = Head(batch).path
    BY HandleIs DEF FileRenamed
  <1>2. /\ Pending \in Seq(Event) /\ Pending # << >> /\ Pending' = Tail(Pending)
        /\ Head(Pending).path = q /\ Head(Pending).kind = "renamed"
        /\ UNCHANGED <<metaAt, proc, builds, dirs, raced, main>>
        /\ metaAt \in [Path -> Asset \cup {NoAsset}] /\ files \in [Path -> Asset \cup {NoAsset}]
    BY <1>1, HandleIs DEF FileRenamed
  <1>3. PICK a \in Asset \cup {NoAsset} : a = metaAt[q]
    BY <1>2
  <1>4. /\ artifacts' = artifacts
        /\ IF a \in Known
           THEN LET old == entries[a].path  left == [files EXCEPT ![old] = NoAsset] IN
                /\ files' = IF files[old] # NoAsset /\ left[q] = NoAsset
                            THEN [left EXCEPT ![q] = a] ELSE left
                /\ entries' = [entries EXCEPT ![a].path = q]
           ELSE UNCHANGED <<files, entries>>
    BY <1>1, <1>3 DEF FileRenamed
  <1>5. entries \in [Known -> Entry] /\ Known \subseteq Asset
    BY DEF IInv, MemTypes
  <1>6. CASE a \notin Known
    <2>1. files' = files /\ \A c, r : At(c, r)' <=> At(c, r)
      BY <1>4, <1>6 DEF At, Known
    <2>2. \A c : Keeps(c) /\ Places(c)' = Places(c)
      BY <1>2, <1>4, <2>1, KeepsHandled
    <2>3. CASE q \in raced
      BY <1>2, <1>4, <2>1, <2>2, <2>3, MirrorOfRaced
    <2>4. CASE q \notin raced
      <3>1. RenamedTo(Pending, q)
        BY <1>2 DEF RenamedTo
      <3>2. ASSUME NEW c \in Asset, Clean(c)
            PROVE  Places(c)' \cap raced = {} /\ Follows(c)'
        <4>1. Follows(c) /\ Places(c) \cap raced = {}
          BY <3>2 DEF Mirror, Clean
        <4>2. \A r \in Path : metaAt[r] = c /\ RenamedTo(Pending, r) => \A x : ~At(c, x)
          BY <1>3, <1>6, <2>4, <3>1, RenamedAlone DEF At
        <4>3. Hears(c)
          BY <2>4, <3>1, <4>1, <4>2, RenamedAlone, PlacesAre DEF Hears
        <4>. QED BY <2>2, <4>1, <4>3, FollowsKept
      <3>3. \A c \in Asset : Places(c)' \subseteq raced \/ (Places(c)' \cap raced = {} /\ Follows(c)')
        BY <2>2, <3>2 DEF Mirror, PlacesInv
      <3>4. \A r \in Path \ raced : Changes(Tail(Pending), r) = {}
        BY <1>2, <2>4, <3>1, RenamedAlone, ChangesTail
      <3>. QED BY <1>2, <3>3, <3>4, MirrorHandled
    <2>. QED BY <2>3, <2>4
  <1>7. CASE a \in Known
    <2>1. PICK old \in Path : old = entries[a].path
      BY <1>5, <1>7 DEF Entry
    <2>2. a \in Asset /\ At(a, old) /\ \A r : At(a, r) => r = old
      BY <1>5, <1>7, <2>1 DEF At
    <2>3. /\ \A c, r : c # a => (At(c, r)' <=> At(c, r))
          /\ \A r : At(a, r)' <=> r = q
      <3>1. entries' = [entries EXCEPT ![a].path = q]
        BY <1>4, <1>7
      <3>2. [entries[a] EXCEPT !.path = q].path = q
        BY <1>5, <1>7 DEF Entry
      <3>. QED BY <1>5, <1>7, <3>1, <3>2 DEF At, Known
    <2>4. \A r \in Path \ {old, q} : files'[r] = files[r]
      BY <1>2, <1>4, <1>7, <2>1
    <2>5. \A c \in Asset : \A r \in {old, q} : c # a /\ files'[r] = c => files[r] = c
      BY <1>2, <1>4, <1>7, <2>1, NoAssetIsNone
    <2>6. q \in Places(a) /\ old \in Places(a)
      BY <1>3, <2>2, PlacesAre
    <2>7. CASE q \in raced
      <3>1. Places(a) \subseteq raced /\ old \in raced
        BY <2>2, <2>6, <2>7 DEF Mirror, PlacesInv, Clean
      <3>2. ASSUME NEW c \in Asset, Clean(c), ~(Places(c) \subseteq raced)
            PROVE  /\ artifacts'[c] = artifacts[c]
                   /\ \A r \in Path : (files'[r] = c <=> files[r] = c) /\ (At(c, r)' <=> At(c, r))
        <4>1. c # a /\ old \notin Places(c) /\ q \notin Places(c)
          BY <2>7, <3>1, <3>2 DEF Clean
        <4>2. files[old] # c /\ files[q] # c
          BY <4>1, PlacesAre
        <4>. QED BY <1>4, <2>3, <2>4, <2>5, <4>1, <4>2
      <3>3. ASSUME NEW c \in Asset, Places(c) \subseteq raced, NEW r \in Places(c)'
            PROVE  r \in raced
        <4>1. r \in Path /\ (metaAt[r] = c \/ files'[r] = c \/ At(c, r)')
          BY <1>2, <3>3, PlacesAre
        <4>2. CASE r \in {old, q}
          BY <2>7, <3>1, <4>2
        <4>3. CASE r \notin {old, q}
          BY <2>3, <2>4, <3>3, <4>1, <4>3, PlacesAre
        <4>. QED BY <4>2, <4>3
      <3>4. \A r \in Path \ raced : files'[r] = files[r]
        BY <2>4, <2>7, <3>1
      <3>5. \A c \in Asset : Places(c) \subseteq raced => Places(c)' \subseteq raced
        BY <3>3
      <3>. QED BY <1>2, <2>7, <3>2, <3>4, <3>5, MirrorOfRaced
    <2>8. CASE q \notin raced
      <3>1. RenamedTo(Pending, q)
        BY <1>2 DEF RenamedTo
      <3>2. /\ \A r \in Path \ raced : Changes(Pending, r) = {} /\ ~ModifiedAt(Pending, r)
            /\ \A r : RenamedTo(Pending, r) => r = q
            /\ old # q /\ metaAt[old] = NoAsset
        BY <1>3, <2>2, <2>8, <3>1, RenamedAlone
      <3>3. Clean(a) /\ Follows(a) /\ old \notin raced
        BY <2>2, <2>6, <2>8 DEF Mirror, PlacesInv, Clean
      <3>4. files[old] = a /\ \A r \in Path : files[r] = a => r = old
        BY <2>2, <3>3 DEF Follows
      <3>5. files[q] = NoAsset
        <4>1. SUFFICES ASSUME files[q] # NoAsset
                       PROVE  FALSE
          OBVIOUS
        <4>2. PICK b \in Asset : b = files[q]
          BY <1>2, <4>1
        <4>3. q \in Places(b) /\ b # a
          BY <3>2, <3>4, <4>2, PlacesAre
        <4>4. Follows(b)
          BY <2>8, <4>3 DEF Mirror, PlacesInv
        <4>5. At(b, q) /\ metaAt[q] # b
          BY <1>3, <4>2, <4>3, <4>4 DEF Follows
        <4>. QED BY <2>8, <3>2, <4>4, <4>5 DEF Follows
      <3>6. \A r \in Path : files'[r] = IF r = q THEN a ELSE IF r = old THEN NoAsset ELSE files[r]
        BY <1>2, <1>4, <1>7, <2>1, <2>2, <3>2, <3>4, <3>5, NoAssetIsNone
      <3>7. ASSUME NEW c \in Asset, c # a
            PROVE  Places(c)' \subseteq raced \/ (Places(c)' \cap raced = {} /\ Follows(c)')
        <4>1. \A r \in Path : files'[r] = c <=> files[r] = c
          BY <3>4, <3>5, <3>6, <3>7, NoAssetIsNone
        <4>2. Keeps(c) /\ Places(c)' = Places(c)
          BY <1>2, <1>4, <2>3, <3>7, <4>1, KeepsHandled
        <4>3. CASE Clean(c)
          <5>1. Follows(c) /\ Places(c) \cap raced = {}
            BY <4>3 DEF Mirror, Clean
          <5>2. \A r : metaAt[r] = c => ~RenamedTo(Pending, r)
            BY <1>3, <3>2, <3>7
          <5>3. Hears(c)
            BY <3>2, <5>1, <5>2, PlacesAre DEF Hears
          <5>. QED BY <4>2, <5>1, <5>3, FollowsKept
        <4>4. CASE ~Clean(c)
          BY <4>2, <4>4 DEF Mirror, PlacesInv
        <4>. QED BY <4>3, <4>4
      <3>8. \A r \in Path : metaAt[r] = a <=> r = q
        BY <1>3, <3>3 DEF Follows
      <3>9. Places(a)' \cap raced = {} /\ Follows(a)'
        <4>1. \A r \in Path : files'[r] = a <=> r = q
          BY <2>2, <3>4, <3>6, NoAssetIsNone
        <4>2. \A r \in Places(a)' : r = q
          BY <1>2, <2>3, <3>8, <4>1, PlacesAre
        <4>3. Fresh(a)'
          <5>1. Fresh(a)
            BY <2>2, <3>2, <3>3 DEF Follows
          <5>. QED BY <1>2, <1>4, <5>1, FreshKept
        <4>4. \A r \in Path : At(a, r)' <=> r = q
          BY <2>3
        <4>5. \A r \in Path : metaAt'[r] = a <=> r = q
          BY <1>2, <3>8
        <4>6. Follows(a)'
          BY <4>1, <4>3, <4>4, <4>5 DEF Follows
        <4>. QED BY <2>8, <4>2, <4>6
      <3>10. \A r \in Path \ raced : Changes(Tail(Pending), r) = {}
        BY <1>2, <3>2, ChangesTail
      <3>11. \A c \in Asset : Places(c)' \subseteq raced \/ (Places(c)' \cap raced = {} /\ Follows(c)')
        BY <3>7, <3>9
      <3>. QED BY <1>2, <3>10, <3>11, MirrorHandled
    <2>. QED BY <2>7, <2>8
  <1>. QED BY <1>6, <1>7

-----------------------------------------------------------------------------
(* A start, when the program was off. *)

LEMMA MirrorStarted ==
  ASSUME IInv, BirthInv, Discover
  PROVE  Mirror'
  <1> DEFINE found == Range(metaAt) \ {NoAsset}
             paths(a) == {p \in Path : metaAt[p] = a}
             again == {a \in found : Dirty(a) /\ source[a] # {}}
  <1>1. /\ main.at = "off" /\ files' = metaAt /\ Collect(found)
        /\ artifacts' = [a \in Asset |-> [n \in Node |->
             IF a \in found /\ n \in Discovered(a) THEN proc[a] ELSE 0]]
        /\ UNCHANGED <<metaAt, builds, events, batch>>
        /\ raced' = {p \in Path : metaAt[p] \in found /\ paths(metaAt[p]) # {p}}
    BY DEF Discover, Collect
  <1>2. PICK path \in [found -> Path] :
          /\ \A a \in found : path[a] \in paths(a)
          /\ entries' = [a \in found |->
               [path |-> path[a], nodes |-> Discovered(a), busy |-> a \in again]]
    BY DEF Discover
  <1>3. metaAt \in [Path -> Asset \cup {NoAsset}] /\ proc \in [Asset -> 0..Len(builds)]
    BY DEF IInv, DiskTypes
  <1>4. \A a \in Asset : a \in found <=> \E p \in Path : metaAt[p] = a
    BY <1>3, NoAssetIsNone DEF Range
  <1>5. Pending' = << >>
    <2>1. batch = << >> /\ events = << >>
      BY <1>1 DEF BirthInv
    <2>. QED BY <1>1, <2>1 DEF Pending
  <1>6. proc' = [a \in Asset |-> IF a \in found THEN proc[a] ELSE 0]
        /\ dirs' = {k \in dirs : builds[k].asset \in found}
    BY <1>1 DEF Collect
  <1>. HIDE DEF found, again
  <1>7. \A a, p : At(a, p)' <=> a \in found /\ p = path[a]
    BY <1>2 DEF At, Known
  <1>8. ASSUME NEW a \in Asset
        PROVE  /\ \A p : p \in Places(a)' <=> p \in paths(a)
               /\ \A p \in paths(a) : p \notin raced' => paths(a) = {p}
               /\ \A p \in raced' : paths(a) # {p}
    <2>1. a \in found => path[a] \in paths(a)
      BY <1>2
    <2>2. \A p : p \in Places(a)' <=> p \in paths(a)
      BY <1>1, <1>7, <2>1, PlacesAre
    <2>. QED BY <1>1, <1>4, <2>2
  <1>9. PlacesInv'
    <2>1. ASSUME NEW a \in Asset, NEW p \in Places(a)' \cap raced', NEW r \in Places(a)'
          PROVE  r \in raced'
      BY <1>8, <2>1
    <2>. QED BY <2>1 DEF PlacesInv, Clean
  <1>10. RenameInv'
    BY <1>5 DEF RenameInv
  <1>11. FlipsInv'
    BY <1>5 DEF FlipsInv, Flips, Changes
  <1>12. ASSUME NEW a \in Asset, Clean(a)'
         PROVE  Follows(a)'
    <2>1. \A p, q \in Path : metaAt[p] = a /\ metaAt[q] = a => p = q
      <3>1. ASSUME NEW p \in Path, NEW q \in Path, metaAt[p] = a, metaAt[q] = a
            PROVE  p = q
        <4>1. p \in paths(a) /\ q \in paths(a) /\ p \notin raced'
          BY <1>8, <1>12, <3>1 DEF Clean
        <4>. QED BY <1>8, <4>1
      <3>. QED BY <3>1
    <2>2. \A p \in Path : metaAt[p] = a <=> At(a, p)'
      BY <1>2, <1>4, <1>7, <2>1
    <2>3. a \in found => Fresh(a)'
      <3>1. SUFFICES ASSUME a \in found, proc[a] # 0
                     PROVE  Matches(a)'
        BY <1>6 DEF Fresh
      <3>2. Discovered(a) = OnDisk(proc[a]) /\ proc[a] \in dirs /\ builds[proc[a]].asset = a
        BY <3>1 DEF Discovered, IInv, ProcessesKept
      <3>3. OnDisk(proc[a])' = OnDisk(proc[a]) /\ proc'[a] = proc[a]
        BY <1>1, <1>6, <3>1, <3>2 DEF OnDisk
      <3>4. \A n \in Node : artifacts'[a][n] = IF n \in OnDisk(proc[a]) THEN proc[a] ELSE 0
        BY <1>1, <3>1, <3>2
      <3>. QED BY <3>3, <3>4 DEF Matches
    <2>. QED BY <1>1, <1>7, <2>1, <2>2, <2>3 DEF Follows
  <1>. QED BY <1>9, <1>10, <1>11, <1>12 DEF Mirror

LEMMA MirrorInitial ==
  ASSUME Init
  PROVE  Mirror
  <1>1. /\ metaAt = [p \in Path |-> NoAsset] /\ files = [p \in Path |-> NoAsset]
        /\ entries = << >> /\ events = << >> /\ batch = << >>
    BY DEF Init, DiskInit
  <1>2. Known = {} /\ Pending = << >>
    BY <1>1 DEF Known, Pending
  <1>3. \A a \in Asset, p \in Path : metaAt[p] # a /\ files[p] # a /\ ~At(a, p)
    BY <1>1, <1>2, NoAssetIsNone DEF At
  <1>4. \A a \in Asset : Places(a) = {} /\ Follows(a)
    BY <1>3, PlacesAre DEF Follows
  <1>. QED BY <1>1, <1>2, <1>4 DEF Mirror, PlacesInv, RenameInv, FlipsInv, Flips, Changes, Clean

LEMMA MirrorStuttered ==
  ASSUME Mirror, UNCHANGED vars
  PROVE  Mirror'
  <1>1. UNCHANGED <<metaAt, proc, builds, dirs, files, entries, artifacts, main, events, batch, trash, raced>>
    BY DEF vars, diskVars, memVars, boundVars
  <1>2. Still /\ Pending' = Pending
    BY <1>1, StillSame DEF Pending
  <1>3. \A a \in Asset : Keeps(a)
    <2>1. \A a \in Asset : Fresh(a) => Fresh(a)'
      BY <1>1, FreshKept
    <2>. QED BY <1>1, <1>2, <2>1, StillThere DEF Keeps
  <1>. QED BY <1>2, <1>3, MirrorStill

\* What an asset that is imported for the first time is, and how the registry keeps
\* up with the files of assets that are not raced, hold in every reachable state
\* (update, and the handlers on_file_added, on_file_removed, on_file_renamed and
\* on_file_modified).
THEOREM KeepsUp == Spec => [](BirthInv /\ MirrorInv)
  <1>1. Init => BirthInv /\ MirrorInv
    BY BirthInitial, MirrorInitial DEF MirrorInv
  <1>2. IInv /\ (BirthInv /\ MirrorInv) /\ [Next]_vars => (BirthInv /\ MirrorInv)'
    <2>. SUFFICES ASSUME IInv, BirthInv, MirrorInv, [Next]_vars
                  PROVE  BirthInv' /\ MirrorInv'
      BY DEF MirrorInv
    <2>1. CASE UpdateBegin \/ ReadEvents \/ FinalizeArtifacts \/ FinalizeSources \/ ResourceUpdate
      <3>1. main.at # "off"
        BY <2>1 DEF UpdateBegin, ReadEvents, FinalizeArtifacts, FinalizeSources, ResourceUpdate
      <3>. QED BY <2>1, <3>1, BirthStill, MirrorUpdated DEF MirrorInv
    <2>2. ASSUME NEW k \in DOMAIN imports, ImportFails(k) \/ FinalizeBegin(k)
          PROVE  BirthInv' /\ MirrorInv'
      <3>1. main.at # "off"
        BY <2>2 DEF ImportFails, FinalizeBegin, Ended
      <3>. QED BY <2>2, <3>1, BirthFailed, BirthBegun, MirrorUpdated DEF MirrorInv
    <2>3. CASE FinalizeProcess
      <3>1. main.at # "off"
        BY <2>3 DEF FinalizeProcess
      <3>. QED BY <2>3, <3>1, BirthStill, MirrorProcessed DEF MirrorInv
    <2>4. CASE FinalizeMeta
      <3>1. main.at # "off"
        BY <2>4 DEF FinalizeMeta
      <3>. QED BY <2>4, <3>1, BirthMeta, MirrorMeta DEF MirrorInv
    <2>5. CASE FileAdded \/ FileRemoved \/ FileRenamed \/ FileModified
      <3>1. main.at # "off"
        BY <2>5 DEF FileAdded, FileRemoved, FileRenamed, FileModified, Handle
      <3>2. Mirror'
        BY <2>5, <3>1, MirrorAdded, MirrorRemoved, MirrorRenamed, MirrorModified DEF MirrorInv
      <3>. QED BY <2>5, <3>2, BirthHandled DEF MirrorInv
    <2>6. CASE Requests \/ \E k \in DOMAIN imports : JobEnds(k)
      <3>1. main.at # "off"
        BY <2>6 DEF Requests, Import, Process, SaveAsset, JobEnds
      <3>2. Import \/ (\E a \in Asset : Process(a) \/ SaveAsset(a)) \/ \E k \in DOMAIN imports : JobEnds(k)
        BY <2>6 DEF Requests
      <3>3. Mirror'
        BY <3>1, <3>2, MirrorRequested DEF MirrorInv
      <3>. QED BY <3>2, <3>3, BirthImported, BirthProcessed, BirthJobEnded DEF MirrorInv
    <2>7. ASSUME NEW p \in Path, NEW q \in Path, Delete(p) \/ Restore(p) \/ Rename(p, q) \/ Copy(p, q)
          PROVE  BirthInv' /\ MirrorInv'
      <3>1. main' = main
        BY <2>7 DEF Delete, Restore, Rename, Copy, User
      <3>2. main.at # "off" => Mirror'
        BY <2>7, MirrorUsed DEF MirrorInv
      <3>. QED BY <2>7, <3>1, <3>2, BirthUsed DEF MirrorInv
    <2>8. CASE Crash
      BY <2>8, BirthCrashed DEF Crash, MirrorInv
    <2>9. CASE Discover
      BY <2>9, BirthStarted, MirrorStarted DEF MirrorInv
    <2>10. CASE UNCHANGED vars
      <3>1. main' = main
        BY <2>10 DEF vars, memVars
      <3>2. main.at # "off" => Mirror'
        BY <2>10, MirrorStuttered DEF MirrorInv
      <3>. QED BY <2>10, <3>1, <3>2, BirthStuttered DEF MirrorInv
    <2>11. CASE Update
      BY <2>1, <2>2, <2>3, <2>4, <2>5, <2>11 DEF Update
    <2>12. CASE Users
      BY <2>7, <2>12 DEF Users
    <2>. QED BY <2>6, <2>8, <2>9, <2>10, <2>11, <2>12 DEF Next
  <1>. QED BY <1>1, <1>2, Inductive, PTL DEF Spec

\* When update() has handled the events of the files, the registry knows the assets
\* that have a meta file and process information, where they are, and the artifacts
\* of their last process, for any number of imports, changes by users and restarts
\* (on_new_asset_discovered, the handlers of the events, discover_assets).
THEOREM DiskMirrored == Spec => []MirrorsDisk
  <1>1. IInv /\ (BirthInv /\ MirrorInv) => MirrorsDisk
    <2>. SUFFICES ASSUME IInv, BirthInv, MirrorInv, Quiet, NEW a \in Asset, Places(a) \cap raced = {}
                  PROVE  /\ a \in Known => metaAt[entries[a].path] = a
                         /\ a \in Known /\ proc[a] # 0 => \A n \in Node :
                              artifacts[a][n] = IF n \in OnDisk(proc[a]) THEN proc[a] ELSE 0
                         /\ proc[a] # 0 /\ a \in Range(metaAt) => a \in Known
      BY DEF MirrorsDisk
    <2>1. main.at = "idle" /\ Pending = << >>
      <3>1. main.at = "idle" /\ events = << >> /\ batch = << >>
        BY DEF Quiet, BirthInv
      <3>. QED BY <3>1 DEF Pending
    <2>2. Follows(a)
      BY <2>1 DEF MirrorInv, Mirror, Clean
    <2>3. \A p : Changes(Pending, p) = {} /\ ~ModifiedAt(Pending, p) /\ ~RenamedTo(Pending, p)
      BY <2>1 DEF Changes, ModifiedAt, RenamedTo
    <2>4. a \in Known => At(a, entries[a].path) /\ entries[a].path \in Path
      BY DEF At, IInv, MemTypes, Entry
    <2>5. a \in Known => metaAt[entries[a].path] = a /\ Fresh(a)
      BY <2>2, <2>3, <2>4 DEF Follows
    <2>6. a \in Range(metaAt) => \E p \in Path : metaAt[p] = a
      BY DEF Range, IInv, DiskTypes
    <2>7. proc[a] # 0 /\ a \in Range(metaAt) => a \in Known
      BY <2>2, <2>3, <2>6 DEF Follows, At
    <2>. QED BY <2>1, <2>5, <2>7 DEF Fresh, Matches
  <1>. QED BY <1>1, Inductive, KeepsUp, PTL
=============================================================================
