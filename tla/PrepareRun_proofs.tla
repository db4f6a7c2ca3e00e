------------------------- MODULE PrepareRun_proofs -------------------------
(***************************************************************************)
(* Proofs about PrepareRun, for every set of steps and workflows, every    *)
(* number of retries, faults and changes of the upstream. They go from the *)
(* inside out: the directories that the package step replaces              *)
(* (PackageInv), of which FullInv says that they are whole where no clean  *)
(* was cut short, the images and files (LooseInv), the manifest over all   *)
(* of it (ManifestInv), and what a run has got so far (GotInv).            *)
(***************************************************************************)
EXTENDS PrepareRun, TLAPS

Pcs == {"idle", "reuse", "cache", "export", "stage", "copy", "meta", "backup",
        "install", "drop", "record", "images", "pull", "metas", "file", "download",
        "rename", "sidecar", "done", "failed"}

\* The calls that replace a directory, and all calls of the package step.
Staging  == {"stage", "copy", "meta", "backup", "install", "drop", "record"}
Packaging == {"reuse", "cache", "export"} \cup Staging

AllImages == UNION {Images[s] : s \in ImageSteps}

WorkRecords ==
  [pc : Pcs, step : AllSteps \cup {Absent}, refresh : BOOLEAN, n : Nat,
   to : Places \cup {Absent}, left : SUBSET (Payload \cup AllImages),
   version : Versions \cup {0}]

\* An entry of the host's cache.
Entry(s, v) == With(Export(s, v), "meta", Meta(s, Export(s, v)))

\* A published repository, or what a clean left of one; its metadata is missing,
\* torn, or its own.
RepoOf(d, s, v) ==
  /\ \A f \in DOMAIN d \cap Payload : f \in {"Index", s} /\ d[f] = Artifact(s, v)
  /\ "meta" \in DOMAIN d /\ d["meta"] # Torn => d["meta"] = Meta(s, Export(s, v))

\* All of one.
Full(r, d) == \E s \in Steps : Repo[s] = r /\ \E v \in Versions : PayloadOf(d) = Export(s, v)

\* What may be under the name of a place.
Kept(p, d) ==
  /\ p \in Steps => \E v \in Versions : d = Entry(p, v)
  /\ p \in Repos => \E s \in Steps : Repo[s] = p /\ \E v \in Versions : RepoOf(d, s, v)

FilesTyped(d) ==
  \A f \in DOMAIN d \cap Payload : d[f] \in {Torn} \cup [step : Steps, version : Versions]

\* What the staging directory is on its way to become.
Staged == IF ToCache THEN Entry(work.step, work.version) ELSE Source

TempNames == Places \X {"stage", "old"} \X Nat

DirsInv ==
  /\ DOMAIN final = Places
  /\ \A p \in Places : final[p] # Absent => Kept(p, final[p])
  /\ DOMAIN temp \subseteq TempNames
  /\ \A d \in DOMAIN temp : FilesTyped(temp[d])

\* Where the package step is, and what it may rely on there.
TargetInv ==
  /\ work.pc \in Packaging => work.step \in Steps
  /\ work.pc \in Staging =>
       /\ work.to \in {work.step, Repo[work.step]}
       /\ ToCache => work.version \in Versions
       /\ ~ToCache => \E v \in Versions : final[work.step] = Entry(work.step, v)

CopyInv ==
  At("copy") => /\ work.left # {} /\ work.left \subseteq DOMAIN Source
                /\ Stage \in DOMAIN temp
                /\ temp[Stage] = Only(Source, DOMAIN Source \ work.left)

StagedInv ==
  /\ At("meta") => ToCache /\ Stage \in DOMAIN temp /\ temp[Stage] = Source
  /\ At("backup") => Stage \in DOMAIN temp /\ temp[Stage] = Staged
  /\ At("install") => /\ StageBefore \in DOMAIN temp /\ temp[StageBefore] = Staged
                      /\ Old \in DOMAIN temp => Kept(work.to, temp[Old])
  /\ At("drop") => final[work.to] = Staged
  /\ At("record") => ~ToCache /\ final[work.to] = Staged

PackageInv ==
  /\ work \in WorkRecords
  /\ upstream \in Versions
  /\ DirsInv
  /\ TargetInv /\ CopyInv /\ StagedInv

-----------------------------------------------------------------------------
(* Directories                                                             *)

LEMMA Places2 ==
  /\ "meta" \notin Payload /\ "Index" \in Payload /\ "meta" \in Files
  /\ \A s \in Steps : /\ s \in Payload /\ s \in Places /\ Repo[s] \in Places
                      /\ Repo[s] \in Repos /\ Repo[s] \notin Steps /\ s \notin Repos
  /\ \A p \in Repos : p \in Places /\ p \notin Steps
  /\ 1 \in Versions
BY PackagesAssumption DEF PackagesAssumption, Payload, Files, Places, Repos, Versions

LEMMA Exports ==
  ASSUME NEW s \in Steps, NEW v \in Versions
  PROVE  /\ DOMAIN Export(s, v) = {"Index", s}
         /\ \A f \in {"Index", s} : Export(s, v)[f] = Artifact(s, v)
         /\ DOMAIN Export(s, v) \subseteq Payload
         /\ "meta" \notin DOMAIN Export(s, v)
         /\ PayloadOf(Export(s, v)) = Export(s, v)
         /\ Artifact(s, v) \in [step : Steps, version : Versions]
<1>1. /\ DOMAIN Export(s, v) = {"Index", s}
      /\ \A f \in {"Index", s} : Export(s, v)[f] = Artifact(s, v)
  BY DEF Export
<1>2. DOMAIN Export(s, v) \subseteq Payload /\ "meta" \notin DOMAIN Export(s, v)
  BY <1>1, Places2
<1>3. PayloadOf(Export(s, v)) = Export(s, v)
  <2>1. DOMAIN Export(s, v) \cap Payload = {"Index", s}
    BY <1>1, <1>2
  <2>2. PayloadOf(Export(s, v)) = [f \in {"Index", s} |-> Export(s, v)[f]]
    BY <2>1 DEF PayloadOf
  <2>3. PayloadOf(Export(s, v)) = [f \in {"Index", s} |-> Artifact(s, v)]
    BY <1>1, <2>2
  <2> QED BY <2>3 DEF Export
<1>4. Artifact(s, v) \in [step : Steps, version : Versions]
  BY DEF Artifact
<1> QED BY <1>1, <1>2, <1>3, <1>4

\* Metadata is not part of the payload.
LEMMA MetaApart ==
  ASSUME NEW d, NEW c
  PROVE  /\ PayloadOf(With(d, "meta", c)) = PayloadOf(d)
         /\ FilesTyped(d) => FilesTyped(With(d, "meta", c))
<1> DEFINE e == With(d, "meta", c)
<1>1. /\ DOMAIN e = DOMAIN d \cup {"meta"} /\ \A g \in DOMAIN d : g # "meta" => e[g] = d[g]
  BY DEF With
<1> HIDE DEF e
<1>2. DOMAIN e \cap Payload = DOMAIN d \cap Payload
  BY <1>1, Places2
<1>3. \A f \in DOMAIN d \cap Payload : e[f] = d[f]
  BY <1>1, Places2
<1>4. PayloadOf(e) = PayloadOf(d)
  BY <1>2, <1>3 DEF PayloadOf
<1>5. FilesTyped(d) => FilesTyped(e)
  BY <1>2, <1>3 DEF FilesTyped
<1> QED BY <1>4, <1>5 DEF e

\* The payload of a cache entry is the export it was made from.
LEMMA EntryPayload ==
  ASSUME NEW s \in Steps, NEW v \in Versions
  PROVE  PayloadOf(Entry(s, v)) = Export(s, v)
BY MetaApart, Exports DEF Entry

LEMMA TypedFiles ==
  ASSUME NEW d, FilesTyped(d)
  PROVE  /\ \A f, c : c \in {Torn} \cup [step : Steps, version : Versions]
                        => FilesTyped(With(d, f, c))
         /\ \A c : FilesTyped(With(d, "meta", c))
         /\ \A names \in SUBSET DOMAIN d : FilesTyped(Only(d, names))
<1>1. ASSUME NEW f, NEW c \in {Torn} \cup [step : Steps, version : Versions]
      PROVE  FilesTyped(With(d, f, c))
  <2> DEFINE e == With(d, f, c)
  <2>1. /\ DOMAIN e = DOMAIN d \cup {f} /\ e[f] = c
        /\ \A g \in DOMAIN d : g # f => e[g] = d[g]
    BY DEF With
  <2> HIDE DEF e
  <2>2. FilesTyped(e)
    BY <1>1, <2>1 DEF FilesTyped
  <2> QED BY <2>2 DEF e
<1>2. ASSUME NEW names \in SUBSET DOMAIN d PROVE FilesTyped(Only(d, names))
  BY DEF FilesTyped, Only
<1> QED BY <1>1, <1>2, MetaApart

LEMMA EmptyTyped == FilesTyped(Empty)
BY DEF FilesTyped, Empty

\* A payload that is an export, file by file.
LEMMA WholePayload ==
  ASSUME NEW d, NEW s \in Steps, NEW v \in Versions, PayloadOf(d) = Export(s, v)
  PROVE  /\ DOMAIN d \cap Payload = {"Index", s}
         /\ \A f \in DOMAIN d \cap Payload : f \in {"Index", s} /\ d[f] = Artifact(s, v)
<1>1. DOMAIN PayloadOf(d) = DOMAIN d \cap Payload
      /\ \A f \in DOMAIN d \cap Payload : PayloadOf(d)[f] = d[f]
  BY DEF PayloadOf
<1>2. /\ DOMAIN Export(s, v) = {"Index", s}
      /\ \A f \in {"Index", s} : Export(s, v)[f] = Artifact(s, v)
  BY Exports
<1>3. DOMAIN d \cap Payload = {"Index", s}
  BY <1>1, <1>2
<1>4. \A f \in {"Index", s} : d[f] = Artifact(s, v)
  BY <1>1, <1>2, <1>3
<1> QED BY <1>3, <1>4

\* The files of a repository are a part of its export.
LEMMA RepoPart ==
  ASSUME NEW d, NEW s \in Steps, NEW v \in Versions, RepoOf(d, s, v)
  PROVE  PayloadOf(d) \in Parts(Export(s, v))
<1> DEFINE names == DOMAIN d \cap Payload
<1>e. /\ DOMAIN Export(s, v) = {"Index", s}
      /\ \A f \in {"Index", s} : Export(s, v)[f] = Artifact(s, v)
  BY Exports
<1>r. \A f \in names : f \in {"Index", s} /\ d[f] = Artifact(s, v)
  BY DEF RepoOf
<1>1. names \in SUBSET DOMAIN Export(s, v)
  BY <1>e, <1>r
<1>2. \A f \in names : d[f] = Export(s, v)[f]
  BY <1>e, <1>r
<1>3. PayloadOf(d) = Only(Export(s, v), names)
  BY <1>2 DEF PayloadOf, Only
<1> HIDE DEF names
<1> QED BY <1>1, <1>3 DEF Parts

\* What is kept has typed files.
LEMMA KeptTyped ==
  ASSUME NEW p \in Places, NEW d, Kept(p, d)
  PROVE  FilesTyped(d)
<1>1. PICK s \in Steps : \E v \in Versions :
        \A f \in DOMAIN d \cap Payload : d[f] = Artifact(s, v)
  <2>1. CASE p \in Steps
    <3>1. PICK v \in Versions : d = Entry(p, v)
      BY <2>1 DEF Kept
    <3>2. PayloadOf(d) = Export(p, v)
      BY <2>1, <3>1, EntryPayload
    <3> QED BY <2>1, <3>2, WholePayload
  <2>2. CASE p \in Repos
    BY <2>2 DEF Kept, RepoOf
  <2> QED BY <2>1, <2>2 DEF Places
<1>2. PICK v \in Versions : \A f \in DOMAIN d \cap Payload : d[f] = Artifact(s, v)
  BY <1>1
<1>3. Artifact(s, v) \in [step : Steps, version : Versions]
  BY DEF Artifact
<1> QED BY <1>2, <1>3 DEF FilesTyped

\* So has a part of a repository.
LEMMA PartKept ==
  ASSUME NEW r \in Repos, NEW d, Kept(r, d), NEW names \in SUBSET DOMAIN d
  PROVE  Kept(r, Only(d, names))
<1> DEFINE e == Only(d, names)
<1>1. DOMAIN e = names /\ \A f \in names : e[f] = d[f]
  BY DEF Only
<1>2. PICK s \in Steps : Repo[s] = r /\ \E v \in Versions : RepoOf(d, s, v)
  BY DEF Kept
<1>3. PICK v \in Versions : RepoOf(d, s, v)
  BY <1>2
<1> HIDE DEF e
<1>4. RepoOf(e, s, v)
  BY <1>1, <1>3 DEF RepoOf
<1>5. r \notin Steps
  BY Places2
<1> QED BY <1>2, <1>4, <1>5 DEF Kept, e

-----------------------------------------------------------------------------
(* The package step, call by call                                          *)

LEMMA SourceIsExport ==
  ASSUME PackageInv, work.pc \in Staging
  PROVE  /\ work.step \in Steps /\ work.to \in Places
         /\ ToCache => work.to = work.step
         /\ ~ToCache => work.to = Repo[work.step] /\ work.to \in Repos /\ work.to # work.step
         /\ \E v \in Versions : /\ Source = Export(work.step, v)
                                /\ ToCache => v = work.version
                                /\ ~ToCache => final[work.step] = Entry(work.step, v)
<1>1. work.step \in Steps /\ work.to \in {work.step, Repo[work.step]}
  BY DEF PackageInv, TargetInv, Packaging
<1>2. work.to \in Places /\ (ToCache => work.to = work.step)
      /\ (~ToCache => work.to = Repo[work.step] /\ work.to \in Repos /\ work.to # work.step)
  BY <1>1, Places2 DEF ToCache
<1>3. CASE ToCache
  <2>1. work.version \in Versions
    BY <1>3 DEF PackageInv, TargetInv
  <2> QED BY <1>1, <1>2, <1>3, <2>1 DEF Source
<1>4. CASE ~ToCache
  <2>1. PICK v \in Versions : final[work.step] = Entry(work.step, v)
    BY <1>4 DEF PackageInv, TargetInv
  <2>2. PayloadOf(final[work.step]) = Export(work.step, v)
    <3>1. PayloadOf(Entry(work.step, v)) = Export(work.step, v)
      BY <1>1, EntryPayload
    <3> QED BY <2>1, <3>1
  <2> QED BY <1>1, <1>2, <1>4, <2>1, <2>2 DEF Source
<1> QED BY <1>3, <1>4

\* What is staged may be kept in its place.
LEMMA StagedKept ==
  ASSUME PackageInv, work.pc \in Staging
  PROVE  Kept(work.to, Staged)
<1>1. PICK v \in Versions : /\ Source = Export(work.step, v)
                            /\ ToCache => v = work.version
  BY SourceIsExport
<1>2. CASE ToCache
  <2>1. Staged = Entry(work.to, v) /\ work.to \in Steps /\ work.to \notin Repos
    BY <1>1, <1>2, SourceIsExport, Places2 DEF Staged
  <2> QED BY <2>1 DEF Kept
<1>3. CASE ~ToCache
  <2>1. /\ Staged = Export(work.step, v) /\ work.step \in Steps
        /\ Repo[work.step] = work.to /\ work.to \notin Steps
    BY <1>1, <1>3, SourceIsExport DEF Staged, ToCache
  <2>2. PayloadOf(Staged) = Export(work.step, v) /\ "meta" \notin DOMAIN Staged
    BY <2>1, Exports
  <2>3. RepoOf(Staged, work.step, v)
    BY <2>1, <2>2, WholePayload DEF RepoOf
  <2> QED BY <2>1, <2>3 DEF Kept
<1> QED BY <1>2, <1>3

\* Between two calls that go on with the same directory nothing is forgotten.
LEMMA SameTarget ==
  ASSUME PackageInv, work.pc \in Staging, work'.pc \in Staging,
         work'.step = work.step, work'.to = work.to, work'.version = work.version,
         ~ToCache => final'[work.step] = final[work.step]
  PROVE  TargetInv' /\ Source' = Source /\ Staged' = Staged /\ ToCache' = ToCache
<1>1. ToCache' = ToCache
  BY DEF ToCache
<1>2. Source' = Source
  BY <1>1 DEF Source
<1>3. Staged' = Staged
  BY <1>1, <1>2 DEF Staged
<1>4. TargetInv'
  BY <1>1 DEF PackageInv, TargetInv, Packaging
<1> QED BY <1>1, <1>2, <1>3, <1>4

\* Elsewhere there is no directory being replaced.
LEMMA NoTarget ==
  ASSUME work'.pc \notin Staging, work'.pc \in Packaging => work'.step \in Steps
  PROVE  TargetInv' /\ CopyInv' /\ StagedInv'
BY DEF TargetInv, CopyInv, StagedInv, Staging, At

\* Staging directories.
LEMMA Names ==
  ASSUME work \in WorkRecords, work.to \in Places
  PROVE  /\ Stage \in TempNames /\ Old \in TempNames /\ Stage # Old
         /\ <<work.to, "stage", work.n + 1>> \in TempNames
         /\ <<work.to, "old", work.n + 1>> \in TempNames
         /\ <<work.to, "old", work.n + 1>> # Stage
         /\ Old # StageBefore
BY DEF WorkRecords, Stage, Old, StageBefore, TempNames

\* A file is written into, or the files of, a staging directory.
LEMMA TempWritten ==
  ASSUME DirsInv, UNCHANGED final, NEW d \in TempNames, NEW c, FilesTyped(c),
         temp' = With(temp, d, c)
  PROVE  DirsInv' /\ d \in DOMAIN temp' /\ temp'[d] = c
<1>1. DOMAIN temp' = DOMAIN temp \cup {d} /\ temp'[d] = c
  BY DEF With
<1>2. \A e \in DOMAIN temp : e # d => temp'[e] = temp[e]
  BY DEF With
<1> QED BY <1>1, <1>2 DEF DirsInv

\* Directories with other names are removed.
LEMMA TempRemoved ==
  ASSUME DirsInv, UNCHANGED final, NEW gone, temp' = [d \in DOMAIN temp \ gone |-> temp[d]]
  PROVE  DirsInv' /\ \A d \in DOMAIN temp : d \notin gone => d \in DOMAIN temp' /\ temp'[d] = temp[d]
BY DEF DirsInv

LEMMA TryReuseInv == PackageInv /\ TryReuse => PackageInv'
<1> SUFFICES ASSUME PackageInv, TryReuse PROVE PackageInv'
  OBVIOUS
<1>1. PICK pc \in {"cache", "failed", "done"} : work' = [work EXCEPT !.pc = pc]
  BY DEF TryReuse, Goto
<1>2. work' \in WorkRecords /\ work'.pc = pc /\ work'.step = work.step
  BY <1>1 DEF PackageInv, WorkRecords, Pcs
<1>3. work.step \in Steps /\ UNCHANGED <<final, temp, upstream>>
  BY DEF PackageInv, TargetInv, TryReuse, At, Packaging
<1>4. DirsInv' /\ upstream' \in Versions
  BY <1>3 DEF PackageInv, DirsInv
<1>5. TargetInv' /\ CopyInv' /\ StagedInv'
  BY <1>2, <1>3, NoTarget DEF Staging
<1> QED BY <1>2, <1>4, <1>5 DEF PackageInv

LEMMA TryCacheInv == PackageInv /\ TryCache => PackageInv'
<1> SUFFICES ASSUME PackageInv, TryCache PROVE PackageInv'
  OBVIOUS
<1>1. work.step \in Steps /\ UNCHANGED <<final, temp, upstream>>
  BY DEF PackageInv, TargetInv, TryCache, At, Packaging
<1>2. DirsInv' /\ upstream' \in Versions
  BY <1>1 DEF PackageInv, DirsInv
<1>3. CASE \E pc \in {"export", "failed"} : Goto(pc)
  <2>1. PICK pc \in {"export", "failed"} : work' = [work EXCEPT !.pc = pc]
    BY <1>3 DEF Goto
  <2>2. work' \in WorkRecords /\ work'.pc = pc /\ work'.step = work.step
    BY <2>1 DEF PackageInv, WorkRecords, Pcs
  <2>3. TargetInv' /\ CopyInv' /\ StagedInv'
    BY <1>1, <2>2, NoTarget DEF Staging
  <2> QED BY <1>2, <2>2, <2>3 DEF PackageInv
<1>4. CASE HasMeta(final[work.step])
           /\ work' = [work EXCEPT !.pc = "stage", !.to = Repo[work.step]]
  <2>1. work' = [pc |-> "stage", step |-> work.step, refresh |-> work.refresh, n |-> work.n,
                 to |-> Repo[work.step], left |-> work.left, version |-> work.version]
    BY <1>4 DEF PackageInv, WorkRecords
  <2>2. work' \in WorkRecords
    BY <1>1, <2>1, Places2 DEF PackageInv, WorkRecords, Pcs
  <2>3. PICK v \in Versions : final[work.step] = Entry(work.step, v)
    BY <1>1, <1>4, Places2 DEF PackageInv, DirsInv, Kept, HasMeta
  <2>4. TargetInv'
    <3>1. work'.step = work.step /\ work'.to = Repo[work.step] /\ work'.to \notin Steps
      BY <1>1, <2>1, Places2
    <3> QED BY <1>1, <2>3, <3>1 DEF TargetInv, ToCache
  <2>5. CopyInv' /\ StagedInv'
    BY <2>1 DEF CopyInv, StagedInv, At
  <2> QED BY <1>2, <2>2, <2>4, <2>5 DEF PackageInv
<1> QED BY <1>3, <1>4 DEF TryCache

LEMMA RunContainerInv == PackageInv /\ RunContainer => PackageInv'
<1> SUFFICES ASSUME PackageInv, RunContainer PROVE PackageInv'
  OBVIOUS
<1>1. work.step \in Steps /\ UNCHANGED <<final, temp, upstream>>
  BY DEF PackageInv, TargetInv, RunContainer, At, Packaging
<1>2. work' = [pc |-> "stage", step |-> work.step, refresh |-> work.refresh, n |-> work.n,
               to |-> work.step, left |-> work.left, version |-> upstream]
  BY DEF PackageInv, WorkRecords, RunContainer
<1>3. work' \in WorkRecords
  BY <1>1, <1>2, Places2 DEF PackageInv, WorkRecords, Pcs
<1>4. TargetInv' /\ CopyInv' /\ StagedInv'
  BY <1>1, <1>2 DEF PackageInv, TargetInv, CopyInv, StagedInv, At, ToCache
<1> QED BY <1>1, <1>3, <1>4 DEF PackageInv, DirsInv

LEMMA MakeStageInv == PackageInv /\ MakeStage => PackageInv'
<1> SUFFICES ASSUME PackageInv, MakeStage PROVE PackageInv'
  OBVIOUS
<1>1. work.pc = "stage" /\ work.pc \in Staging /\ UNCHANGED <<final, upstream>>
  BY DEF MakeStage, At, Staging
<1>2. work' = [pc |-> "copy", step |-> work.step, refresh |-> work.refresh, n |-> work.n + 1,
               to |-> work.to, left |-> DOMAIN Source, version |-> work.version]
  BY DEF PackageInv, WorkRecords, MakeStage
<1>3. PICK v \in Versions : Source = Export(work.step, v)
  BY <1>1, SourceIsExport
<1>4. DOMAIN Source # {} /\ DOMAIN Source \subseteq Payload
  <2>1. work.step \in Steps
    BY <1>1, SourceIsExport
  <2>2. DOMAIN Export(work.step, v) = {"Index", work.step}
    BY <2>1, Exports
  <2>3. DOMAIN Export(work.step, v) \subseteq Payload
    BY <2>1, Exports
  <2> QED BY <1>3, <2>2, <2>3
<1>5. work' \in WorkRecords
  BY <1>2, <1>4 DEF PackageInv, WorkRecords, Pcs
<1>6. TargetInv' /\ Source' = Source
  BY <1>1, <1>2, SameTarget DEF Staging
<1>7. DirsInv' /\ Stage' \in DOMAIN temp' /\ temp'[Stage'] = Empty
  <2>1. Stage' = <<work.to, "stage", work.n + 1>> /\ Stage' \in TempNames
    BY <1>1, <1>2, Names, SourceIsExport DEF Stage, PackageInv
  <2>2. temp' = With(temp, Stage', Empty)
    BY <2>1 DEF MakeStage
  <2> QED BY <1>1, <2>1, <2>2, EmptyTyped, TempWritten DEF PackageInv
<1>8. Empty = Only(Source, DOMAIN Source \ DOMAIN Source)
  BY DEF Empty, Only
<1>9. CopyInv' /\ StagedInv'
  BY <1>2, <1>4, <1>6, <1>7, <1>8 DEF CopyInv, StagedInv, At
<1> QED BY <1>1, <1>5, <1>6, <1>7, <1>9 DEF PackageInv

\* The file that is copied next is one of those left, and typed.
LEMMA NextFileTyped ==
  ASSUME PackageInv, At("copy")
  PROVE  /\ NextFile \in work.left /\ NextFile \in DOMAIN Source
         /\ Source[NextFile] \in [step : Steps, version : Versions]
         /\ Stage \in TempNames /\ Stage \in DOMAIN temp /\ FilesTyped(temp[Stage])
<1>1. /\ work.left # {} /\ work.left \subseteq DOMAIN Source
      /\ Stage \in DOMAIN temp /\ FilesTyped(temp[Stage]) /\ Stage \in TempNames
  BY DEF PackageInv, CopyInv, DirsInv
<1>2. NextFile \in work.left
  BY <1>1 DEF NextFile
<1>3. PICK v \in Versions : Source = Export(work.step, v)
  BY SourceIsExport DEF At, Staging
<1>4. work.step \in Steps
  BY SourceIsExport DEF At, Staging
<1>5. \A f \in DOMAIN Export(work.step, v) :
        Export(work.step, v)[f] \in [step : Steps, version : Versions]
  BY <1>4 DEF Export, Artifact
<1> QED BY <1>1, <1>2, <1>3, <1>5

LEMMA CopyFileInv == PackageInv /\ CopyFile => PackageInv'
<1> SUFFICES ASSUME PackageInv, CopyFile PROVE PackageInv'
  OBVIOUS
<1> DEFINE f == NextFile
           copied == With(temp[Stage], f, Source[f])
<1>1. /\ work.pc = "copy" /\ work.pc \in Staging /\ At("copy") /\ UNCHANGED <<final, upstream>>
      /\ temp' = With(temp, Stage, copied)
  BY DEF CopyFile, At, Staging
<1>2. /\ work.left # {} /\ work.left \subseteq DOMAIN Source
      /\ temp[Stage] = Only(Source, DOMAIN Source \ work.left)
      /\ f \in work.left /\ f \in DOMAIN Source
  BY <1>1, NextFileTyped DEF PackageInv, CopyInv
<1>3. copied = Only(Source, DOMAIN Source \ (work.left \ {f}))
  <2> HIDE DEF f
  <2>1. DOMAIN temp[Stage] = DOMAIN Source \ work.left
        /\ \A g \in DOMAIN Source \ work.left : temp[Stage][g] = Source[g]
    BY <1>2 DEF Only
  <2>2. DOMAIN temp[Stage] \cup {f} = DOMAIN Source \ (work.left \ {f})
    BY <1>2, <2>1
  <2>3. copied = [g \in DOMAIN Source \ (work.left \ {f}) |->
                    IF g = f THEN Source[f] ELSE temp[Stage][g]]
    BY <2>2 DEF With
  <2>4. \A g \in DOMAIN Source \ (work.left \ {f}) :
          (IF g = f THEN Source[f] ELSE temp[Stage][g]) = Source[g]
    BY <2>1
  <2> QED BY <2>3, <2>4 DEF Only
<1>4. /\ work'.pc \in {"copy", "meta", "backup"} /\ work'.step = work.step /\ work'.to = work.to
      /\ work'.version = work.version /\ work'.n = work.n /\ work' \in WorkRecords
  <2>1. CASE work.left = {f}
    <3>1. work' = [pc |-> IF ToCache THEN "meta" ELSE "backup", step |-> work.step,
                   refresh |-> work.refresh, n |-> work.n, to |-> work.to, left |-> {},
                   version |-> work.version]
      BY <2>1 DEF PackageInv, WorkRecords, CopyFile
    <3> QED BY <3>1 DEF PackageInv, WorkRecords, Pcs
  <2>2. CASE work.left # {f}
    <3>1. work' = [work EXCEPT !.left = @ \ {f}]
      BY <2>2 DEF CopyFile
    <3> QED BY <1>1, <3>1 DEF PackageInv, WorkRecords
  <2> QED BY <2>1, <2>2
<1>5. TargetInv' /\ Source' = Source /\ Staged' = Staged /\ ToCache' = ToCache
  BY <1>1, <1>4, SameTarget DEF Staging
<1>6. Stage' = Stage
  BY <1>4 DEF Stage
<1>7. DirsInv' /\ Stage \in DOMAIN temp' /\ temp'[Stage] = copied
  <2>1. FilesTyped(copied)
    <3>1. FilesTyped(temp[Stage]) /\ Source[f] \in [step : Steps, version : Versions]
      BY <1>1, NextFileTyped
    <3> HIDE DEF f
    <3> QED BY <3>1, TypedFiles
  <2>2. Stage \in TempNames
    BY <1>1, NextFileTyped
  <2> HIDE DEF copied
  <2> QED BY <1>1, <2>1, <2>2, TempWritten DEF PackageInv
<1>8. CASE work.left = {f}
  <2>1. work'.pc = (IF ToCache THEN "meta" ELSE "backup")
    BY <1>8 DEF PackageInv, WorkRecords, CopyFile
  <2>2. copied = Source
    <3>1. PICK v \in Versions : Source = Export(work.step, v)
      BY <1>1, SourceIsExport
    <3>2. Source = Only(Source, DOMAIN Source)
      BY <3>1 DEF Export, Only
    <3>3. DOMAIN Source \ (work.left \ {f}) = DOMAIN Source
      BY <1>8
    <3> QED BY <1>3, <3>2, <3>3
  <2>3. ~ToCache => Staged = Source
    BY DEF Staged
  <2>4. CopyInv'
    BY <2>1 DEF CopyInv, At
  <2>5. StagedInv'
    <3> HIDE DEF copied
    <3>1. CASE ToCache
      BY <1>5, <1>6, <1>7, <2>1, <2>2, <3>1 DEF StagedInv, At
    <3>2. CASE ~ToCache
      BY <1>5, <1>6, <1>7, <2>1, <2>2, <2>3, <3>2 DEF StagedInv, At
    <3> QED BY <3>1, <3>2
  <2> QED BY <1>1, <1>4, <1>5, <1>7, <2>4, <2>5 DEF PackageInv
<1>9. CASE work.left # {f}
  <2>1. work'.pc = "copy" /\ work'.left = work.left \ {f}
    BY <1>1, <1>9 DEF PackageInv, WorkRecords, CopyFile
  <2>2. work'.left # {} /\ work'.left \subseteq DOMAIN Source
    BY <1>2, <1>9, <2>1
  <2>3. CopyInv'
    <3> HIDE DEF copied, f
    <3> QED BY <1>3, <1>5, <1>6, <1>7, <2>1, <2>2 DEF CopyInv
  <2>4. StagedInv'
    BY <2>1 DEF StagedInv, At
  <2> QED BY <1>1, <1>4, <1>5, <1>7, <2>3, <2>4 DEF PackageInv
<1> QED BY <1>8, <1>9

LEMMA SaveCacheMetaInv == PackageInv /\ SaveCacheMeta => PackageInv'
<1> SUFFICES ASSUME PackageInv, SaveCacheMeta PROVE PackageInv'
  OBVIOUS
<1> DEFINE d == With(temp[Stage], "meta", Meta(work.step, PayloadOf(temp[Stage])))
<1>1. /\ work.pc = "meta" /\ work.pc \in Staging /\ UNCHANGED <<final, upstream>>
      /\ temp' = With(temp, Stage, d) /\ work' = [work EXCEPT !.pc = "backup"]
  BY DEF SaveCacheMeta, At, Staging, Goto
<1>2. ToCache /\ Stage \in DOMAIN temp /\ temp[Stage] = Source
  BY <1>1 DEF PackageInv, StagedInv, At
<1>3. work.step \in Steps /\ work.to \in Places /\ work.version \in Versions
      /\ Source = Export(work.step, work.version)
  BY <1>1, <1>2, SourceIsExport
<1>4. d = Staged
  <2>1. PayloadOf(Export(work.step, work.version)) = Export(work.step, work.version)
    BY <1>3, Exports
  <2> QED BY <1>2, <1>3, <2>1 DEF Staged, Entry
<1>5. /\ work'.pc = "backup" /\ work'.step = work.step /\ work'.to = work.to
      /\ work'.version = work.version /\ work'.n = work.n /\ work' \in WorkRecords
  BY <1>1 DEF PackageInv, WorkRecords, Pcs
<1>6. TargetInv' /\ Source' = Source /\ Staged' = Staged /\ Stage' = Stage
  BY <1>1, <1>5, SameTarget DEF Staging, Stage
<1>7. DirsInv' /\ Stage \in DOMAIN temp' /\ temp'[Stage] = d
  <2>1. FilesTyped(d) /\ Stage \in TempNames
    <3>1. FilesTyped(temp[Stage]) /\ Stage \in TempNames
      BY <1>2 DEF PackageInv, DirsInv
    <3> QED BY <3>1, TypedFiles
  <2> HIDE DEF d
  <2> QED BY <1>1, <2>1, TempWritten DEF PackageInv
<1> HIDE DEF d
<1>8. CopyInv' /\ StagedInv'
  BY <1>4, <1>5, <1>6, <1>7 DEF CopyInv, StagedInv, At
<1> QED BY <1>1, <1>5, <1>6, <1>7, <1>8 DEF PackageInv

LEMMA SetAsideInv == PackageInv /\ SetAside => PackageInv'
<1> SUFFICES ASSUME PackageInv, SetAside PROVE PackageInv'
  OBVIOUS
<1> DEFINE old == <<work.to, "old", work.n + 1>>
<1>1. /\ work.pc = "backup" /\ work.pc \in Staging /\ UNCHANGED upstream
      /\ final' = [final EXCEPT ![work.to] = Absent]
      /\ temp' = IF final[work.to] = Absent THEN Without(temp, old)
                 ELSE With(temp, old, final[work.to])
  BY DEF SetAside, At, Staging
<1>2. work' = [pc |-> "install", step |-> work.step, refresh |-> work.refresh, n |-> work.n + 1,
               to |-> work.to, left |-> work.left, version |-> work.version]
  BY DEF PackageInv, WorkRecords, SetAside
<1>3. work' \in WorkRecords
  BY <1>2 DEF PackageInv, WorkRecords, Pcs
<1>4. /\ work.to \in Places /\ work.step \in Steps /\ (~ToCache => work.to # work.step)
      /\ Stage \in DOMAIN temp /\ temp[Stage] = Staged /\ Stage # old /\ old \in TempNames
  BY <1>1, SourceIsExport, Names DEF PackageInv, StagedInv, At
<1>5. /\ DOMAIN final' = Places /\ final'[work.to] = Absent
      /\ \A p \in Places : p # work.to => final'[p] = final[p]
      /\ work.step \in Places
  BY <1>1, <1>4, Places2 DEF PackageInv, DirsInv
<1>6. TargetInv' /\ Staged' = Staged
  BY <1>1, <1>2, <1>4, <1>5, SameTarget DEF Staging
<1>7. StageBefore' = Stage /\ Old' = old /\ work'.to = work.to
  BY <1>2 DEF StageBefore, Stage, Old, PackageInv, WorkRecords
<1> HIDE DEF old
<1>8. /\ DirsInv'
      /\ Stage \in DOMAIN temp' /\ temp'[Stage] = temp[Stage]
      /\ old \in DOMAIN temp' => Kept(work.to, temp'[old])
  <2>1. CASE final[work.to] = Absent
    <3>1. DOMAIN temp' = DOMAIN temp \ {old} /\ \A e \in DOMAIN temp' : temp'[e] = temp[e]
      BY <1>1, <2>1 DEF Without
    <3> QED BY <1>4, <1>5, <3>1 DEF PackageInv, DirsInv
  <2>2. CASE final[work.to] # Absent
    <3>1. Kept(work.to, final[work.to]) /\ FilesTyped(final[work.to])
      BY <1>4, <2>2, KeptTyped DEF PackageInv, DirsInv
    <3>2. /\ DOMAIN temp' = DOMAIN temp \cup {old} /\ temp'[old] = final[work.to]
          /\ \A e \in DOMAIN temp : e # old => temp'[e] = temp[e]
      BY <1>1, <2>2 DEF With
    <3>3. DirsInv'
      BY <1>4, <1>5, <3>1, <3>2 DEF PackageInv, DirsInv
    <3> QED BY <1>4, <3>1, <3>2, <3>3
  <2> QED BY <2>1, <2>2
<1>9. CopyInv' /\ StagedInv'
  BY <1>2, <1>4, <1>6, <1>7, <1>8 DEF CopyInv, StagedInv, At
<1> QED BY <1>1, <1>3, <1>6, <1>8, <1>9 DEF PackageInv

LEMMA InstallInv == PackageInv /\ Install => PackageInv'
<1> SUFFICES ASSUME PackageInv, Install PROVE PackageInv'
  OBVIOUS
<1>1. /\ work.pc = "install" /\ work.pc \in Staging /\ UNCHANGED upstream
      /\ final' = [final EXCEPT ![work.to] = temp[StageBefore]]
      /\ temp' = Without(temp, StageBefore) /\ work' = [work EXCEPT !.pc = "drop"]
  BY DEF Install, At, Staging, Goto
<1>2. /\ work'.pc = "drop" /\ work'.step = work.step /\ work'.to = work.to
      /\ work'.version = work.version /\ work'.n = work.n /\ work' \in WorkRecords
  BY <1>1 DEF PackageInv, WorkRecords, Pcs
<1>3. /\ work.to \in Places /\ work.step \in Steps /\ (~ToCache => work.to # work.step)
      /\ temp[StageBefore] = Staged /\ Kept(work.to, Staged) /\ work.step \in Places
  BY <1>1, SourceIsExport, StagedKept, Places2 DEF PackageInv, StagedInv, At
<1>4. /\ DOMAIN final' = Places /\ final'[work.to] = Staged
      /\ \A p \in Places : p # work.to => final'[p] = final[p]
  BY <1>1, <1>3 DEF PackageInv, DirsInv
<1>5. DOMAIN temp' \subseteq DOMAIN temp /\ \A e \in DOMAIN temp' : temp'[e] = temp[e]
  BY <1>1 DEF Without
<1>6. DirsInv'
  BY <1>3, <1>4, <1>5 DEF PackageInv, DirsInv
<1>7. TargetInv' /\ Staged' = Staged
  BY <1>1, <1>2, <1>3, <1>4, SameTarget DEF Staging
<1>8. CopyInv' /\ StagedInv'
  BY <1>2, <1>4, <1>7 DEF CopyInv, StagedInv, At
<1> QED BY <1>1, <1>2, <1>6, <1>7, <1>8 DEF PackageInv

\* Whatever becomes of the directory set aside, the step goes on.
LEMMA GoOnInv ==
  ASSUME PackageInv, At("drop"), UNCHANGED <<final, upstream>>, DirsInv', work' = GoOn
  PROVE  PackageInv'
<1>1. work.pc = "drop" /\ work.pc \in Staging
  BY DEF At, Staging
<1>2. DirsInv'
  OBVIOUS
<1>3. work.step \in Steps /\ final[work.to] = Staged
  BY <1>1, SourceIsExport DEF PackageInv, StagedInv, At
<1>4. CASE ToCache
  <2>1. work' = [pc |-> "stage", step |-> work.step, refresh |-> work.refresh, n |-> work.n,
                 to |-> Repo[work.step], left |-> work.left, version |-> work.version]
    BY <1>4 DEF PackageInv, WorkRecords, GoOn
  <2>2. work' \in WorkRecords
    BY <1>3, <2>1, Places2 DEF PackageInv, WorkRecords, Pcs
  <2>3. final[work.step] = Entry(work.step, work.version) /\ work.version \in Versions
    BY <1>1, <1>3, <1>4, SourceIsExport DEF Staged
  <2>4. TargetInv'
    BY <1>1, <1>3, <2>1, <2>3, Places2 DEF TargetInv, ToCache
  <2>5. CopyInv' /\ StagedInv'
    BY <2>1 DEF CopyInv, StagedInv, At
  <2> QED BY <1>1, <1>2, <2>2, <2>4, <2>5 DEF PackageInv
<1>5. CASE ~ToCache
  <2>1. work' = [work EXCEPT !.pc = "record"]
    BY <1>5 DEF GoOn
  <2>2. /\ work'.pc = "record" /\ work'.step = work.step /\ work'.to = work.to
        /\ work'.version = work.version /\ work' \in WorkRecords
    BY <2>1 DEF PackageInv, WorkRecords, Pcs
  <2>3. TargetInv' /\ Staged' = Staged /\ ToCache' = ToCache
    BY <1>1, <2>2, SameTarget DEF Staging
  <2>4. CopyInv' /\ StagedInv'
    BY <1>1, <1>3, <1>5, <2>2, <2>3 DEF CopyInv, StagedInv, At
  <2> QED BY <1>1, <1>2, <2>2, <2>3, <2>4 DEF PackageInv
<1> QED BY <1>4, <1>5

LEMMA DropOldInv == PackageInv /\ DropOld => PackageInv'
<1> SUFFICES ASSUME PackageInv, DropOld PROVE PackageInv'
  OBVIOUS
<1>1. DOMAIN temp' \subseteq DOMAIN temp /\ \A e \in DOMAIN temp' : temp'[e] = temp[e]
  BY DEF DropOld, Without
<1>2. DirsInv'
  BY <1>1 DEF DropOld, PackageInv, DirsInv
<1> QED BY <1>2, GoOnInv DEF DropOld

\* At the record step the repository is the export, and any metadata that is
\* written next to it, or torn, leaves it so.
LEMMA RecordedKept ==
  ASSUME PackageInv, At("record"), NEW c,
         c \in {Torn, Meta(work.step, PayloadOf(final[work.to]))},
         final' = [final EXCEPT ![work.to] = With(final[work.to], "meta", c)],
         UNCHANGED temp
  PROVE  DirsInv'
<1>1. /\ work.pc = "record" /\ work.pc \in Staging /\ ~ToCache /\ final[work.to] = Staged
  BY DEF At, Staging, PackageInv, StagedInv
<1>2. /\ work.step \in Steps /\ work.to = Repo[work.step] /\ work.to \in Places
      /\ work.to \in Repos /\ work.to \notin Steps
  BY <1>1, SourceIsExport, Places2
<1>3. PICK v \in Versions : final[work.to] = Export(work.step, v)
  BY <1>1, SourceIsExport DEF Staged
<1> DEFINE d == With(final[work.to], "meta", c)
<1>4. Kept(work.to, d)
  <2>1. PayloadOf(Export(work.step, v)) = Export(work.step, v)
    BY <1>2, Exports
  <2>2. PayloadOf(d) = PayloadOf(final[work.to])
    BY MetaApart
  <2>3. d["meta"] = c
    BY DEF With
  <2> HIDE DEF d
  <2>4. RepoOf(d, work.step, v)
    <3>1. PayloadOf(d) = Export(work.step, v)
      BY <1>3, <2>1, <2>2
    <3>2. \A f \in DOMAIN d \cap Payload : f \in {"Index", work.step} /\ d[f] = Artifact(work.step, v)
      BY <1>2, <3>1, WholePayload
    <3>3. d["meta"] = Torn \/ d["meta"] = Meta(work.step, Export(work.step, v))
      BY <1>3, <2>1, <2>3
    <3> QED BY <3>2, <3>3 DEF RepoOf
  <2> QED BY <1>2, <2>4 DEF Kept
<1>5. /\ DOMAIN final' = Places /\ final'[work.to] = d
      /\ \A p \in Places : p # work.to => final'[p] = final[p]
  BY <1>2 DEF PackageInv, DirsInv
<1> HIDE DEF d
<1> QED BY <1>4, <1>5 DEF PackageInv, DirsInv

LEMMA RecordRepoInv == PackageInv /\ RecordRepo => PackageInv'
<1> SUFFICES ASSUME PackageInv, RecordRepo PROVE PackageInv'
  OBVIOUS
<1>1. DirsInv' /\ UNCHANGED upstream
  BY RecordedKept DEF RecordRepo
<1>2. work' = [work EXCEPT !.pc = "done"]
  BY DEF RecordRepo, Goto
<1>3. work' \in WorkRecords /\ work'.pc = "done"
  BY <1>2 DEF PackageInv, WorkRecords, Pcs
<1>4. TargetInv' /\ CopyInv' /\ StagedInv'
  BY <1>3, NoTarget DEF Staging, Packaging
<1> QED BY <1>1, <1>3, <1>4 DEF PackageInv

-----------------------------------------------------------------------------
(* Calls that are cut short, and the other steps of a run                  *)

\* Without a replacement under way the directories are all there is to keep.
LEMMA PackageRest ==
  ASSUME work' \in WorkRecords, work'.pc \notin Staging,
         work'.pc \in Packaging => work'.step \in Steps,
         DirsInv', upstream' \in Versions
  PROVE  PackageInv'
BY NoTarget DEF PackageInv

LEMMA PartlyRemovedDirs ==
  ASSUME DirsInv, UNCHANGED final, NEW d \in TempNames, temp' \in PartlyRemoved(d)
  PROVE  DirsInv'
<1>1. CASE temp' = temp
  BY <1>1 DEF DirsInv
<1>2. CASE d \in DOMAIN temp /\ \E part \in Parts(temp[d]) : temp' = With(temp, d, part)
  <2>1. PICK s \in SUBSET DOMAIN temp[d] : temp' = With(temp, d, Only(temp[d], s))
    BY <1>2 DEF Parts
  <2> DEFINE c == Only(temp[d], s)
  <2>2. FilesTyped(c)
    BY <1>2, TypedFiles DEF DirsInv
  <2> HIDE DEF c
  <2> QED BY <2>1, <2>2, TempWritten DEF c
<1> QED BY <1>1, <1>2 DEF PartlyRemoved

\* Whatever call is cut short, the directories are as they should be.
LEMMA CutShortDirs ==
  ASSUME PackageInv, CutShort
  PROVE  DirsInv'
<1>1. DirsInv
  BY DEF PackageInv
<1>2. CASE At("record") /\ UNCHANGED temp
           /\ final' = [final EXCEPT ![work.to] = With(final[work.to], "meta", Torn)]
  BY <1>2, RecordedKept
<1>3. ASSUME work.pc \in Staging
      PROVE  /\ Stage \in TempNames /\ Old \in TempNames
             /\ <<work.to, "stage", work.n + 1>> \in TempNames
             /\ <<work.to, "old", work.n + 1>> \in TempNames
  BY <1>3, SourceIsExport, Names DEF PackageInv
<1>4. CASE UNCHANGED final /\ At("stage") /\ temp' \in PartlyRemoved(<<work.to, "stage", work.n + 1>>)
  BY <1>1, <1>3, <1>4, PartlyRemovedDirs DEF At, Staging
<1>5. CASE UNCHANGED final /\ At("copy")
           /\ temp' \in {temp, With(temp, Stage, With(temp[Stage], NextFile, Torn))}
  <2>1. CASE temp' = temp
    BY <1>1, <1>5, <2>1 DEF DirsInv
  <2>2. CASE temp' = With(temp, Stage, With(temp[Stage], NextFile, Torn))
    <3> DEFINE c == With(temp[Stage], NextFile, Torn)
    <3>1. FilesTyped(temp[Stage]) /\ Stage \in TempNames
      BY <1>5, NextFileTyped
    <3>2. FilesTyped(c)
      BY <3>1, TypedFiles
    <3> HIDE DEF c
    <3> QED BY <1>1, <1>5, <2>2, <3>1, <3>2, TempWritten DEF c
  <2> QED BY <1>5, <2>1, <2>2
<1>6. CASE UNCHANGED final /\ At("meta")
           /\ temp' \in {temp, With(temp, Stage, With(temp[Stage], "meta", Torn))}
  <2>1. CASE temp' = temp
    BY <1>1, <1>6, <2>1 DEF DirsInv
  <2>2. CASE temp' = With(temp, Stage, With(temp[Stage], "meta", Torn))
    <3> DEFINE c == With(temp[Stage], "meta", Torn)
    <3>1. FilesTyped(temp[Stage]) /\ Stage \in TempNames
      BY <1>6 DEF PackageInv, StagedInv, DirsInv
    <3>2. FilesTyped(c)
      BY <3>1, TypedFiles
    <3> HIDE DEF c
    <3> QED BY <1>1, <1>6, <2>2, <3>1, <3>2, TempWritten DEF c
  <2> QED BY <1>6, <2>1, <2>2
<1>7. CASE UNCHANGED final /\ At("backup") /\ temp' \in PartlyRemoved(<<work.to, "old", work.n + 1>>)
  BY <1>1, <1>3, <1>7, PartlyRemovedDirs DEF At, Staging
<1>8. CASE UNCHANGED final /\ At("drop") /\ temp' \in PartlyRemoved(Old)
  BY <1>1, <1>3, <1>8, PartlyRemovedDirs DEF At, Staging
<1>9. CASE UNCHANGED <<final, temp>>
  BY <1>1, <1>9 DEF DirsInv
<1>10. \/ At("record") /\ UNCHANGED temp
            /\ final' = [final EXCEPT ![work.to] = With(final[work.to], "meta", Torn)]
       \/ UNCHANGED final
  BY DEF CutShort
<1>11. UNCHANGED final /\ CutShort =>
        \/ At("stage") /\ temp' \in PartlyRemoved(<<work.to, "stage", work.n + 1>>)
        \/ At("copy") /\ temp' \in {temp, With(temp, Stage, With(temp[Stage], NextFile, Torn))}
        \/ At("meta") /\ temp' \in {temp, With(temp, Stage, With(temp[Stage], "meta", Torn))}
        \/ At("backup") /\ temp' \in PartlyRemoved(<<work.to, "old", work.n + 1>>)
        \/ At("drop") /\ temp' \in PartlyRemoved(Old)
        \/ temp' = temp
  BY DEF CutShort, At
<1> QED BY <1>2, <1>4, <1>5, <1>6, <1>7, <1>8, <1>9, <1>10, <1>11

LEMMA IdleType == Idle \in WorkRecords /\ Idle.pc = "idle"
BY DEF Idle, WorkRecords, Pcs

LEMMA KillStepInv == PackageInv /\ KillStep => PackageInv'
<1> SUFFICES ASSUME PackageInv, KillStep PROVE PackageInv'
  OBVIOUS
<1>1. DirsInv' /\ work' = Idle /\ UNCHANGED upstream
  BY CutShortDirs DEF KillStep
<1> QED BY <1>1, IdleType, PackageRest DEF PackageInv, Staging, Packaging

\* A call that fails ends the step; the names it gave out stay given out.
LEMMA FailedWork ==
  ASSUME PackageInv, StepFails
  PROVE  /\ work' \in WorkRecords /\ work'.pc = "failed" /\ UNCHANGED upstream
         /\ work'.step = work.step /\ work'.refresh = work.refresh
<1>1. PICK n \in Nat : work' = [work EXCEPT !.pc = "failed", !.n = n]
  <2>1. work.n \in Nat /\ work.n + 1 \in Nat
    BY DEF PackageInv, WorkRecords
  <2>2. work' = [work EXCEPT !.pc = "failed",
                   !.n = IF At("stage") \/ At("backup") THEN work.n + 1 ELSE work.n]
    BY DEF StepFails
  <2>3. CASE At("stage") \/ At("backup")
    BY <2>1, <2>2, <2>3
  <2>4. CASE ~(At("stage") \/ At("backup"))
    BY <2>1, <2>2, <2>4
  <2> QED BY <2>3, <2>4
<1>2. work' = [pc |-> "failed", step |-> work.step, refresh |-> work.refresh, n |-> n,
               to |-> work.to, left |-> work.left, version |-> work.version]
  BY <1>1 DEF PackageInv, WorkRecords
<1> QED BY <1>2 DEF PackageInv, WorkRecords, Pcs, StepFails

LEMMA StepFailsInv == PackageInv /\ StepFails => PackageInv'
<1> SUFFICES ASSUME PackageInv, StepFails PROVE PackageInv'
  OBVIOUS
<1>1. DirsInv
  BY DEF PackageInv
<1>2. work' \in WorkRecords /\ work'.pc = "failed" /\ UNCHANGED upstream
  BY FailedWork
<1>3. DirsInv'
  <2>1. CASE UNCHANGED <<final, temp>>
    BY <1>1, <2>1 DEF DirsInv
  <2>2. ASSUME UNCHANGED final, DOMAIN temp' \subseteq DOMAIN temp,
               \A e \in DOMAIN temp' : temp'[e] = temp[e]
        PROVE  DirsInv'
    BY <1>1, <2>2 DEF DirsInv
  <2>3. CASE UNCHANGED final /\ \E d : temp' = Without(temp, d)
    BY <2>2, <2>3 DEF Without
  <2>4. CASE UNCHANGED final /\ \E d, e : temp' = Without(Without(temp, d), e)
    BY <2>2, <2>4 DEF Without
  <2>5. CASE At("copy") /\ UNCHANGED final
             /\ temp' = With(temp, Stage, With(temp[Stage], NextFile, Torn))
    <3> DEFINE c == With(temp[Stage], NextFile, Torn)
    <3>1. FilesTyped(temp[Stage]) /\ Stage \in TempNames
      BY <2>5, NextFileTyped
    <3>2. FilesTyped(c)
      BY <3>1, TypedFiles
    <3> HIDE DEF c
    <3> QED BY <1>1, <2>5, <3>1, <3>2, TempWritten DEF c
  <2>6. CASE CutShort
    BY <2>6, CutShortDirs
  <2> QED BY <2>1, <2>3, <2>4, <2>5, <2>6 DEF StepFails
<1> QED BY <1>2, <1>3, PackageRest DEF PackageInv, Staging, Packaging

LEMMA DropFailsInv == PackageInv /\ DropFails => PackageInv'
<1> SUFFICES ASSUME PackageInv, DropFails PROVE PackageInv'
  OBVIOUS
<1>1. work.pc \in Staging /\ DirsInv /\ work \in WorkRecords
  BY DEF DropFails, At, Staging, PackageInv
<1>2. Old \in TempNames
  BY <1>1, SourceIsExport, Names
<1>3. DirsInv'
  BY <1>1, <1>2, PartlyRemovedDirs DEF DropFails
<1> QED BY <1>3, GoOnInv DEF DropFails

LEMMA InstallFailsInv == PackageInv /\ InstallFails => PackageInv'
<1> SUFFICES ASSUME PackageInv, InstallFails PROVE PackageInv'
  OBVIOUS
<1>1. work' = [work EXCEPT !.pc = "failed"] /\ UNCHANGED upstream /\ work.pc = "install"
  BY DEF InstallFails, Goto, At
<1>2. work' \in WorkRecords /\ work'.pc = "failed"
  BY <1>1 DEF PackageInv, WorkRecords, Pcs
<1>3. DOMAIN temp' \subseteq DOMAIN temp /\ \A e \in DOMAIN temp' : temp'[e] = temp[e]
  BY DEF InstallFails
<1>4. work.to \in Places /\ (Old \in DOMAIN temp => Kept(work.to, temp[Old]))
  BY <1>1, SourceIsExport DEF PackageInv, StagedInv, At, Staging
<1>5. DOMAIN final' = Places /\ \A p \in Places : final'[p] # Absent => Kept(p, final'[p])
  <2>1. CASE Old \in DOMAIN temp
    <3>1. final' = [final EXCEPT ![work.to] = temp[Old]]
      BY <2>1 DEF InstallFails
    <3> QED BY <1>4, <2>1, <3>1 DEF PackageInv, DirsInv
  <2>2. CASE Old \notin DOMAIN temp
    BY <2>2 DEF InstallFails, PackageInv, DirsInv
  <2> QED BY <2>1, <2>2
<1>6. DirsInv'
  BY <1>3, <1>5 DEF PackageInv, DirsInv
<1> QED BY <1>1, <1>2, <1>6, PackageRest DEF PackageInv, Staging, Packaging

LEMMA StepCallInv == PackageInv /\ StepCall => PackageInv'
BY TryReuseInv, TryCacheInv, RunContainerInv, MakeStageInv, CopyFileInv, SaveCacheMetaInv,
   SetAsideInv, InstallInv, DropOldInv, RecordRepoInv DEF StepCall

\* A step of any kind begins.
LEMMA StartStepInv ==
  ASSUME PackageInv, NEW s \in AllSteps, NEW refresh \in BOOLEAN, StartStep(s, refresh)
  PROVE  /\ PackageInv'
         /\ work'.step = s /\ work'.refresh = refresh /\ work'.n = work.n
         /\ work'.pc = (CASE s \in Steps -> "reuse" [] s \in ImageSteps -> "images"
                          [] s \in FileSteps -> "file")
         /\ work'.left = (IF s \in ImageSteps THEN Images[s] ELSE {})
<1> DEFINE pc == CASE s \in Steps -> "reuse" [] s \in ImageSteps -> "images"
                   [] s \in FileSteps -> "file"
           left == IF s \in ImageSteps THEN Images[s] ELSE {}
<1>1. work' = [pc |-> pc, step |-> s, refresh |-> refresh, n |-> work.n, to |-> work.to,
               left |-> left, version |-> work.version]
  <2>1. work' = [work EXCEPT !.step = s, !.refresh = refresh, !.pc = pc, !.left = left]
    BY DEF StartStep
  <2> HIDE DEF pc, left
  <2> QED BY <2>1 DEF PackageInv, WorkRecords
<1>2. left \in SUBSET AllImages
  BY DEF AllImages
<1>3. pc \in {"reuse", "images", "file"} /\ (pc = "reuse" => s \in Steps)
  BY FetchedAssumption DEF FetchedAssumption, AllSteps
<1>4. DirsInv' /\ upstream' \in Versions
  BY DEF StartStep, fetchVars, PackageInv, DirsInv
<1> HIDE DEF pc, left
<1>5. work' \in WorkRecords
  BY <1>1, <1>2, <1>3 DEF PackageInv, WorkRecords, Pcs
<1>6. PackageInv'
  BY <1>1, <1>3, <1>4, <1>5, PackageRest DEF Staging, Packaging
<1> QED BY <1>1, <1>6 DEF pc, left

\* A call for an image or a file moves on, and leaves the directories alone.
LEMMA FetchCallInv ==
  ASSUME PackageInv, FetchCall \/ FetchFails
  PROVE  /\ PackageInv'
         /\ work'.step = work.step /\ work'.refresh = work.refresh /\ UNCHANGED fetchVars
         /\ work'.pc \in {"images", "pull", "metas", "done", "download", "rename", "sidecar", "failed"}
<1>1. /\ work' \in WorkRecords
      /\ work'.step = work.step /\ work'.refresh = work.refresh /\ UNCHANGED fetchVars
      /\ work'.pc \in {"images", "pull", "metas", "done", "download", "rename", "sidecar", "failed"}
  <2>1. ASSUME NEW pc \in {"pull", "done", "metas", "download", "sidecar", "failed"}, Goto(pc)
        PROVE  /\ work' \in WorkRecords /\ work'.pc = pc
               /\ work'.step = work.step /\ work'.refresh = work.refresh
    BY <2>1 DEF Goto, PackageInv, WorkRecords, Pcs
  <2>2. ASSUME work' = [work EXCEPT !.left = @ \ {Image}]
        PROVE  /\ work' \in WorkRecords /\ work'.pc = work.pc
               /\ work'.step = work.step /\ work'.refresh = work.refresh
    BY <2>2 DEF PackageInv, WorkRecords, Pcs
  <2>3. CASE NextImage
    BY <2>1, <2>2, <2>3 DEF NextImage, At
  <2>4. CASE ImagesDone
    BY <2>1, <2>4 DEF ImagesDone, fetchVars
  <2>5. CASE PullImage
    BY <2>1, <2>5 DEF PullImage
  <2>6. CASE WriteMetas
    <3>1. work' = [pc |-> "images", step |-> work.step, refresh |-> work.refresh, n |-> work.n,
                   to |-> work.to, left |-> work.left \ {Image}, version |-> work.version]
      BY <2>6 DEF WriteMetas, PackageInv, WorkRecords
    <3> QED BY <2>6, <3>1 DEF WriteMetas, PackageInv, WorkRecords, Pcs
  <2>7. CASE CheckFile
    BY <2>1, <2>7 DEF CheckFile, fetchVars
  <2>8. CASE Download
    <3>1. work' = [pc |-> "rename", step |-> work.step, refresh |-> work.refresh, n |-> work.n,
                   to |-> work.to, left |-> work.left, version |-> upstream]
      BY <2>8 DEF Download, PackageInv, WorkRecords
    <3> QED BY <2>8, <3>1 DEF Download, PackageInv, WorkRecords, Pcs, fetchVars
  <2>9. CASE RenameFile
    BY <2>1, <2>9 DEF RenameFile
  <2>10. CASE WriteSidecar
    BY <2>1, <2>10 DEF WriteSidecar
  <2>11. CASE FetchFails
    BY <2>1, <2>11 DEF FetchFails
  <2>12. CASE DownloadBlocked
    BY <2>1, <2>12 DEF DownloadBlocked, fetchVars
  <2> QED BY <2>3, <2>4, <2>5, <2>6, <2>7, <2>8, <2>9, <2>10, <2>11, <2>12 DEF FetchCall
<1>2. DirsInv' /\ upstream' \in Versions
  BY <1>1 DEF fetchVars, PackageInv, DirsInv
<1>3. PackageInv'
  BY <1>1, <1>2, PackageRest DEF Staging, Packaging
<1> QED BY <1>1, <1>3

-----------------------------------------------------------------------------
(* Whole repositories and cache entries                                    *)

RunRecords ==
  [pc : {"idle", "clean", "step"}, workflow : Workflows \cup {<<>>}, at : Nat \ {0},
   retries : Nat, refresh : BOOLEAN, since : Versions \cup {0}]

\* The running prepare, and the step it is at.
RunInv ==
  /\ run \in RunRecords
  /\ run.pc # "step" => work.pc = "idle"
  /\ run.pc = "step" /\ work.pc # "idle" =>
       /\ run.at \in DOMAIN run.workflow
       /\ work.step = run.workflow[run.at] /\ work.refresh = run.refresh

Running == PackageInv /\ RunInv

LEMMA NoRunType == NoRun \in RunRecords /\ NoRun.pc = "idle"
BY DEF NoRun, RunRecords

\* The workflows are sequences of steps.
LEMMA WorkflowSeq ==
  ASSUME RunInv
  PROVE  run.workflow \in Seq(AllSteps)
<1>1. \A w \in Workflows : w \in Seq(AllSteps)
  BY PrepareAssumption DEF PrepareAssumption
<1>2. run.workflow \in Workflows \/ run.workflow = <<>>
  BY DEF RunInv, RunRecords
<1>3. <<>> \in Seq(AllSteps)
  OBVIOUS
<1> QED BY <1>1, <1>2, <1>3

LEMMA WorkflowSteps ==
  ASSUME RunInv, NEW i \in DOMAIN run.workflow
  PROVE  run.workflow[i] \in AllSteps
BY WorkflowSeq

\* The step that is running stays the one of the workflow.
LEMMA SameStep ==
  ASSUME RunInv, UNCHANGED run, run.pc = "step", work.pc # "idle",
         work'.step = work.step, work'.refresh = work.refresh
  PROVE  RunInv'
BY DEF RunInv

\* What the package step keeps of its step, and when it goes on.
LEMMA StepCallWork ==
  ASSUME PackageInv, StepCall \/ StepFails \/ InstallFails \/ DropFails
  PROVE  work'.step = work.step /\ work'.refresh = work.refresh /\ work.pc \in Packaging
         /\ work'.pc \in Packaging \cup {"done", "failed"} /\ UNCHANGED upstream
<1> USE DEF At, Goto, PackageInv, WorkRecords, Packaging, Staging
<1>1. CASE TryReuse
  BY <1>1 DEF TryReuse
<1>2. CASE TryCache
  BY <1>2 DEF TryCache
<1>3. CASE RunContainer
  BY <1>3 DEF RunContainer
<1>4. CASE MakeStage
  BY <1>4 DEF MakeStage
<1>5. CASE CopyFile
  <2>1. CASE work' = [work EXCEPT !.left = {}, !.pc = IF ToCache THEN "meta" ELSE "backup"]
    BY <1>5, <2>1 DEF CopyFile
  <2>2. CASE work' = [work EXCEPT !.left = @ \ {NextFile}]
    BY <1>5, <2>2 DEF CopyFile
  <2> QED BY <1>5, <2>1, <2>2 DEF CopyFile
<1>6. CASE SaveCacheMeta
  BY <1>6 DEF SaveCacheMeta
<1>7. CASE SetAside
  BY <1>7 DEF SetAside
<1>8. CASE Install
  BY <1>8 DEF Install
<1>9. CASE DropOld \/ DropFails
  BY <1>9 DEF DropOld, DropFails, GoOn
<1>10. CASE RecordRepo
  BY <1>10 DEF RecordRepo
<1>11. CASE StepFails
  <2>1. work.pc \in Packaging
    BY <1>11 DEF StepFails
  <2> QED BY <1>11, <2>1, FailedWork
<1>12. CASE InstallFails
  BY <1>12 DEF InstallFails
<1> QED BY <1>1, <1>2, <1>3, <1>4, <1>5, <1>6, <1>7, <1>8, <1>9, <1>10, <1>11, <1>12 DEF StepCall

\* What is left when directories are removed, file by file perhaps.
LEMMA RemovedDirs ==
  ASSUME PackageInv, DOMAIN final' = Places,
         \A p \in Places : \/ final'[p] \in {Absent, final[p]}
                           \/ /\ p \in Repos /\ final[p] # Absent
                              /\ \E names \in SUBSET DOMAIN final[p] : final'[p] = Only(final[p], names),
         DOMAIN temp' \subseteq DOMAIN temp,
         \A d \in DOMAIN temp' :
            temp'[d] = temp[d] \/ \E names \in SUBSET DOMAIN temp[d] : temp'[d] = Only(temp[d], names)
  PROVE  DirsInv'
<1>1. DirsInv
  BY DEF PackageInv
<1>2. ASSUME NEW p \in Places, final'[p] # Absent
      PROVE  Kept(p, final'[p])
  <2>1. CASE final'[p] \in {Absent, final[p]}
    BY <1>1, <1>2, <2>1 DEF DirsInv
  <2>2. ASSUME p \in Repos, final[p] # Absent, NEW names \in SUBSET DOMAIN final[p],
               final'[p] = Only(final[p], names)
        PROVE  Kept(p, final'[p])
    <3>1. Kept(p, final[p])
      BY <1>1, <2>2 DEF DirsInv
    <3> QED BY <2>2, <3>1, PartKept
  <2> QED BY <2>1, <2>2
<1>3. ASSUME NEW d \in DOMAIN temp'
      PROVE  FilesTyped(temp'[d])
  <2>1. d \in DOMAIN temp /\ FilesTyped(temp[d])
    BY <1>1 DEF DirsInv
  <2>2. ASSUME NEW names \in SUBSET DOMAIN temp[d], temp'[d] = Only(temp[d], names)
        PROVE  FilesTyped(temp'[d])
    BY <2>1, <2>2, TypedFiles
  <2> QED BY <2>1, <2>2
<1> QED BY <1>1, <1>2, <1>3 DEF DirsInv

\* A clean that is cut short: directories are gone, or have lost some files.
LEMMA CleanCutShortDirs ==
  ASSUME PackageInv, CleanCutShort
  PROVE  DirsInv'
<1>1. PICK kept \in SUBSET Outputs, gone \in SUBSET OutputDirs :
        /\ final' = [p \in Places |->
                       IF <<p, "final", 0>> \notin Published THEN final[p]
                       ELSE IF <<p, "final", 0>> \in gone THEN Absent
                       ELSE Only(OutputDir(<<p, "final", 0>>),
                                 {f \in Files : <<<<p, "final", 0>>, f>> \in kept})]
        /\ temp' = [d \in DOMAIN temp \ gone |->
                      IF d \in Left THEN Only(OutputDir(d), {f \in Files : <<d, f>> \in kept})
                      ELSE temp[d]]
  BY DEF CleanCutShort
<1>2. ASSUME NEW d, NEW f \in Files, <<d, f>> \in kept
      PROVE  f \in DOMAIN OutputDir(d)
  BY <1>2 DEF Outputs
<1>3. ASSUME NEW p \in Places, <<p, "final", 0>> \in Published
      PROVE  /\ p \in Repos /\ final[p] # Absent
             /\ OutputDir(<<p, "final", 0>>) = final[p]
  BY <1>3 DEF Published, OutputDir
<1>4. ASSUME NEW d \in DOMAIN temp
      PROVE  OutputDir(d) = temp[d]
  BY DEF OutputDir, Published, PackageInv, DirsInv, TempNames
<1>5. ASSUME NEW p \in Places
      PROVE  \/ final'[p] \in {Absent, final[p]}
             \/ /\ p \in Repos /\ final[p] # Absent
                /\ \E names \in SUBSET DOMAIN final[p] : final'[p] = Only(final[p], names)
  <2> DEFINE names == {f \in Files : <<<<p, "final", 0>>, f>> \in kept}
  <2>1. CASE <<p, "final", 0>> \notin Published \/ <<p, "final", 0>> \in gone
    BY <1>1, <2>1
  <2>2. CASE <<p, "final", 0>> \in Published /\ <<p, "final", 0>> \notin gone
    <3>1. p \in Repos /\ final[p] # Absent /\ OutputDir(<<p, "final", 0>>) = final[p]
      BY <1>3, <2>2
    <3>2. names \in SUBSET DOMAIN final[p]
      BY <1>2, <3>1
    <3>3. final'[p] = Only(final[p], names)
      BY <1>1, <2>2, <3>1
    <3> HIDE DEF names
    <3> QED BY <3>1, <3>2, <3>3
  <2> QED BY <2>1, <2>2
<1>6. ASSUME NEW d \in DOMAIN temp'
      PROVE  /\ d \in DOMAIN temp
             /\ temp'[d] = temp[d] \/ \E names \in SUBSET DOMAIN temp[d] : temp'[d] = Only(temp[d], names)
  <2> DEFINE names == {f \in Files : <<d, f>> \in kept}
  <2>1. d \in DOMAIN temp
    BY <1>1
  <2>2. temp'[d] = IF d \in Left THEN Only(temp[d], names) ELSE temp[d]
    BY <1>1, <1>4, <2>1
  <2>3. names \in SUBSET DOMAIN temp[d]
    BY <1>2, <1>4, <2>1
  <2> HIDE DEF names
  <2> QED BY <2>1, <2>2, <2>3
<1>7. DOMAIN final' = Places
  BY <1>1
<1> QED BY <1>5, <1>6, <1>7, RemovedDirs

\* In every state a prepare may be killed in, or fail in, the directories are
\* whole and the running step knows where it is.
THEOREM RunningHolds == PrepareSpec => []Running
<1>1. PrepareInit => Running
  <2> SUFFICES ASSUME PrepareInit PROVE Running
    OBVIOUS
  <2>1. work = Idle /\ run = NoRun /\ upstream = 1
    BY DEF PrepareInit, ArtifactsInit
  <2>2. DirsInv
    BY DEF PrepareInit, ArtifactsInit, DirsInv, Empty
  <2>3. PackageInv
    BY <2>1, <2>2, IdleType, Places2 DEF PackageInv, TargetInv, CopyInv, StagedInv,
       Staging, Packaging, At
  <2> QED BY <2>1, <2>3, IdleType, NoRunType DEF Running, RunInv
<1>2. Running /\ [PrepareNext]_prepareVars => Running'
  <2> SUFFICES ASSUME Running, [PrepareNext]_prepareVars PROVE Running'
    OBVIOUS
  <2>i. PackageInv /\ RunInv
    BY DEF Running
  <2>1. CASE \E w \in Workflows, refresh, clean \in BOOLEAN : Start(w, refresh, clean)
    <3>1. PICK w \in Workflows, refresh \in BOOLEAN, clean \in BOOLEAN : Start(w, refresh, clean)
      BY <2>1
    <3>2. run' = [pc |-> IF clean THEN "clean" ELSE "step", workflow |-> w, at |-> 1,
                  retries |-> 0, refresh |-> refresh, since |-> upstream]
      BY <3>1 DEF Start, NoRun
    <3>3. run' \in RunRecords
      BY <2>i, <3>2 DEF RunRecords, PackageInv
    <3>4. UNCHANGED <<final, temp, work, upstream>> /\ work.pc = "idle"
      BY <2>i, <3>1 DEF Start, artifactVars, RunAt, RunInv
    <3>5. PackageInv'
      BY <2>i, <3>4 DEF PackageInv, DirsInv, TargetInv, CopyInv, StagedInv, Staging, Packaging, At
    <3> QED BY <3>3, <3>4, <3>5 DEF Running, RunInv
  <2>2. CASE Clean
    <3>1. /\ UNCHANGED <<work, upstream>> /\ work.pc = "idle" /\ run' = [run EXCEPT !.pc = "step"]
      BY <2>i, <2>2 DEF Clean, RunAt, RunInv
    <3>2. DirsInv'
      <4>1. DOMAIN final' = Places /\ \A p \in Places : final'[p] \in {Absent, final[p]}
        BY <2>2 DEF Clean
      <4>2. DOMAIN temp' \subseteq DOMAIN temp /\ \A d \in DOMAIN temp' : temp'[d] = temp[d]
        BY <2>2 DEF Clean
      <4> QED BY <2>i, <4>1, <4>2, RemovedDirs
    <3>3. PackageInv'
      BY <2>i, <3>1, <3>2, PackageRest DEF PackageInv, Staging, Packaging
    <3> QED BY <2>i, <3>1, <3>3 DEF Running, RunInv, RunRecords
  <2>3. CASE RunStep
    <3> DEFINE s == run.workflow[run.at]
    <3>1. /\ run.pc = "step" /\ UNCHANGED run /\ StartStep(s, run.refresh)
          /\ run.at \in DOMAIN run.workflow /\ run.refresh \in BOOLEAN
      <4>1. run.workflow \in Seq(AllSteps)
        BY <2>i, WorkflowSeq
      <4> QED BY <2>i, <2>3, <4>1 DEF RunStep, RunAt, RunInv, RunRecords
    <3>2. s \in AllSteps
      BY <2>i, <3>1, WorkflowSteps
    <3>3. PackageInv' /\ work'.step = s /\ work'.refresh = run.refresh
      <4> HIDE DEF s
      <4> QED BY <2>i, <3>1, <3>2, StartStepInv
    <3> QED BY <2>i, <3>1, <3>3 DEF Running, RunInv
  <2>4. CASE InStep
    <3>1. run.pc = "step" /\ UNCHANGED run
      BY <2>4 DEF InStep, RunAt
    <3>2. CASE StepCall
      <4>1. PackageInv' /\ work'.step = work.step /\ work'.refresh = work.refresh
            /\ work.pc # "idle"
        BY <2>i, <3>2, StepCallInv, StepCallWork DEF Packaging, Staging
      <4> QED BY <2>i, <3>1, <4>1, SameStep DEF Running
    <3>3. CASE FetchCall
      <4>1. PackageInv' /\ work'.step = work.step /\ work'.refresh = work.refresh
        BY <2>i, <3>3, FetchCallInv
      <4>2. work.pc # "idle"
        BY <3>3 DEF FetchCall, NextImage, ImagesDone, PullImage, WriteMetas, CheckFile,
                    Download, DownloadBlocked, RenameFile, WriteSidecar, At
      <4> QED BY <2>i, <3>1, <4>1, <4>2, SameStep DEF Running
    <3> QED BY <2>4, <3>2, <3>3 DEF InStep
  <2>5. ASSUME UNCHANGED <<final, temp, upstream>>, run' \in RunRecords,
               work' = Idle \/ work' = [Idle EXCEPT !.n = work.n]
        PROVE  Running'
    <3>1. work' \in WorkRecords /\ work'.pc = "idle"
      <4>1. work.n \in Nat
        BY <2>i DEF PackageInv, WorkRecords
      <4>2. CASE work' = [Idle EXCEPT !.n = work.n]
        BY <4>1, <4>2 DEF WorkRecords, Idle, Pcs
      <4> QED BY <2>5, <4>2, IdleType
    <3>2. PackageInv'
      BY <2>i, <2>5, <3>1, PackageRest DEF PackageInv, DirsInv, Staging, Packaging
    <3> QED BY <2>5, <3>1, <3>2 DEF Running, RunInv
  <2>6. CASE StepDone
    <3>1. run' = [run EXCEPT !.at = @ + 1, !.retries = 0]
      BY <2>6 DEF StepDone
    <3>2. run' = [pc |-> run.pc, workflow |-> run.workflow, at |-> run.at + 1, retries |-> 0,
                  refresh |-> run.refresh, since |-> run.since]
      BY <2>i, <3>1 DEF RunInv, RunRecords
    <3>3. run' \in RunRecords
      BY <2>i, <3>2 DEF RunInv, RunRecords
    <3> QED BY <2>5, <2>6, <3>3 DEF StepDone, EndStep
  <2>7. CASE RetryStep
    <3>1. run' = [run EXCEPT !.retries = @ + 1]
      BY <2>7 DEF RetryStep
    <3>2. run' \in RunRecords
      BY <2>i, <3>1 DEF RunInv, RunRecords
    <3> QED BY <2>5, <2>7, <3>2 DEF RetryStep, EndStep
  <2>8. CASE GiveUp
    BY <2>5, <2>8, NoRunType DEF GiveUp
  <2>9. CASE WriteManifest
    BY <2>5, <2>9, NoRunType DEF WriteManifest
  <2>10. CASE Kill
    <3>1. run' = NoRun
      BY <2>10 DEF Kill
    <3>2. PackageInv' /\ work'.pc = "idle"
      <4>1. CASE KillStep
        BY <2>i, <4>1, KillStepInv, IdleType DEF KillStep
      <4>2. CASE RunAt("clean") /\ CleanCutShort /\ UNCHANGED <<work, upstream>>
        <5>1. work.pc = "idle"
          BY <2>i, <4>2 DEF RunAt, RunInv
        <5>2. DirsInv'
          BY <2>i, <4>2, CleanCutShortDirs
        <5> QED BY <2>i, <4>2, <5>1, <5>2, PackageRest DEF PackageInv, Staging, Packaging
      <4> QED BY <2>10, <4>1, <4>2 DEF Kill
    <3> QED BY <3>1, <3>2, NoRunType DEF Running, RunInv
  <2>11. CASE CallFails
    <3>1. run.pc = "step" /\ UNCHANGED run
      BY <2>11 DEF CallFails, RunAt
    <3>2. CASE StepFails \/ InstallFails \/ DropFails
      <4>1. PackageInv' /\ work'.step = work.step /\ work'.refresh = work.refresh
            /\ work.pc # "idle"
        BY <2>i, <3>2, StepFailsInv, InstallFailsInv, DropFailsInv, StepCallWork DEF Packaging, Staging
      <4> QED BY <2>i, <3>1, <4>1, SameStep DEF Running
    <3>3. CASE FetchFails
      <4>1. PackageInv' /\ work'.step = work.step /\ work'.refresh = work.refresh
        BY <2>i, <3>3, FetchCallInv
      <4>2. work.pc # "idle"
        BY <3>3 DEF FetchFails, At
      <4> QED BY <2>i, <3>1, <4>1, <4>2, SameStep DEF Running
    <3> QED BY <2>11, <3>2, <3>3 DEF CallFails
  <2>12. CASE UpstreamChanges /\ UNCHANGED <<loose, manifest, run, faults, history>>
    <3>1. UNCHANGED <<final, temp, work, run>> /\ upstream' \in Versions
      BY <2>i, <2>12, PackagesAssumption DEF UpstreamChanges, PackageInv, Versions, PackagesAssumption
    <3>2. DirsInv' /\ TargetInv'
      BY <2>i, <3>1 DEF PackageInv, DirsInv, TargetInv, ToCache
    <3>3. Source' = Source /\ Staged' = Staged /\ ToCache' = ToCache
          /\ Stage' = Stage /\ StageBefore' = StageBefore /\ Old' = Old
      BY <3>1 DEF Source, Staged, ToCache, Stage, StageBefore, Old
    <3>4. CopyInv' /\ StagedInv'
      BY <2>i, <3>1, <3>3 DEF PackageInv, CopyInv, StagedInv, At
    <3> QED BY <2>i, <3>1, <3>2, <3>4 DEF PackageInv, Running, RunInv
  <2>13. CASE UNCHANGED prepareVars
    <3>1. UNCHANGED <<final, temp, work, upstream, run>>
      BY <2>13 DEF prepareVars, artifactVars, history
    <3>2. DirsInv' /\ TargetInv'
      BY <2>i, <3>1 DEF PackageInv, DirsInv, TargetInv, ToCache
    <3>3. Source' = Source /\ Staged' = Staged /\ ToCache' = ToCache
          /\ Stage' = Stage /\ StageBefore' = StageBefore /\ Old' = Old
      BY <3>1 DEF Source, Staged, ToCache, Stage, StageBefore, Old
    <3>4. CopyInv' /\ StagedInv'
      BY <2>i, <3>1, <3>3 DEF PackageInv, CopyInv, StagedInv, At
    <3> QED BY <2>i, <3>1, <3>2, <3>4 DEF PackageInv, Running, RunInv
  <2> QED
    BY <2>1, <2>2, <2>3, <2>4, <2>6, <2>7, <2>8, <2>9, <2>10, <2>11, <2>12, <2>13
       DEF PrepareNext, RunNext
<1> QED BY <1>1, <1>2, PTL DEF PrepareSpec

\* What no clean has left in part is a whole repository, in its place or set aside
\* in the middle of a replacement.
FullInv ==
  /\ marred \subseteq Repos
  /\ \A r \in Repos \ marred : final[r] # Absent => Full(r, final[r])
  /\ At("install") /\ work.to \in Repos \ marred /\ Old \in DOMAIN temp => Full(work.to, temp[Old])

\* A step leaves a repository alone, or it is a whole one.
LEMMA FullStays ==
  ASSUME FullInv, marred' \subseteq Repos, work'.pc # "install",
         \A r \in Repos \ marred' : final'[r] # Absent =>
            (r \notin marred /\ final'[r] = final[r]) \/ Full(r, final'[r])
  PROVE  FullInv'
<1>1. ASSUME NEW r \in Repos \ marred', final'[r] # Absent
      PROVE  Full(r, final'[r])
  BY <1>1 DEF FullInv
<1> QED BY <1>1 DEF FullInv, At

\* Metadata next to a repository, or torn, leaves it whole.
LEMMA RecordedFull ==
  ASSUME PackageInv, FullInv, UNCHANGED marred, work'.pc # "install", At("record"), NEW c,
         final' = [final EXCEPT ![work.to] = With(final[work.to], "meta", c)]
  PROVE  FullInv'
<1>1. /\ work.pc \in Staging /\ ~ToCache /\ final[work.to] = Staged
      /\ DOMAIN final = Places /\ marred \subseteq Repos
  BY DEF At, Staging, PackageInv, StagedInv, DirsInv, FullInv
<1>2. PICK v \in Versions : final[work.to] = Export(work.step, v)
  BY <1>1, SourceIsExport DEF Staged
<1>3. work.step \in Steps /\ Repo[work.step] = work.to /\ work.to \in Repos
  BY <1>1, SourceIsExport
<1> DEFINE d == With(final[work.to], "meta", c)
<1>4. PayloadOf(d) = Export(work.step, v)
  <2>1. PayloadOf(d) = PayloadOf(final[work.to])
    BY MetaApart
  <2>2. PayloadOf(Export(work.step, v)) = Export(work.step, v)
    BY <1>3, Exports
  <2> QED BY <1>2, <2>1, <2>2
<1> HIDE DEF d
<1>5. Full(work.to, d)
  BY <1>3, <1>4 DEF Full
<1>6. ASSUME NEW r \in Repos PROVE final'[r] = IF r = work.to THEN d ELSE final[r]
  BY <1>1, <1>6, Places2 DEF d
<1> QED BY <1>1, <1>5, <1>6, FullStays

LEMMA CutShortFull ==
  ASSUME PackageInv, FullInv, UNCHANGED marred, work'.pc # "install", CutShort
  PROVE  FullInv'
<1>1. marred' \subseteq Repos
  BY DEF FullInv
<1>2. CASE UNCHANGED final
  BY <1>1, <1>2, FullStays
<1>3. CASE At("record") /\ final' = [final EXCEPT ![work.to] = With(final[work.to], "meta", Torn)]
  BY <1>3, RecordedFull
<1> QED BY <1>2, <1>3 DEF CutShort

\* What is staged for a repository is all of it.
LEMMA StagedFull ==
  ASSUME PackageInv, work.pc \in Staging, ~ToCache
  PROVE  Full(work.to, Staged)
<1>1. PICK v \in Versions : Source = Export(work.step, v)
  BY SourceIsExport
<1>2. work.step \in Steps /\ Repo[work.step] = work.to
  BY SourceIsExport
<1>3. PayloadOf(Staged) = Export(work.step, v)
  BY <1>1, <1>2, Exports DEF Staged
<1> QED BY <1>2, <1>3 DEF Full

LEMMA SetAsideFull ==
  ASSUME PackageInv, FullInv, UNCHANGED marred, SetAside
  PROVE  FullInv'
<1>1. /\ work.pc \in Staging /\ work \in WorkRecords /\ DOMAIN final = Places
      /\ final' = [final EXCEPT ![work.to] = Absent]
      /\ work' = [work EXCEPT !.pc = "install", !.n = @ + 1]
  BY DEF SetAside, At, Staging, PackageInv, DirsInv
<1>2. work.to \in Places
  BY <1>1, SourceIsExport
<1>3. work'.to = work.to /\ Old' = <<work.to, "old", work.n + 1>>
  BY <1>1 DEF WorkRecords, Old
<1>4. ASSUME NEW r \in Repos \ marred, final'[r] # Absent PROVE Full(r, final'[r])
  <2>1. r \in Places /\ r # work.to /\ final'[r] = final[r]
    BY <1>1, <1>2, <1>4, Places2
  <2> QED BY <1>4, <2>1 DEF FullInv
<1>5. ASSUME work.to \in Repos \ marred, Old' \in DOMAIN temp' PROVE Full(work.to, temp'[Old'])
  <2>1. CASE final[work.to] = Absent
    <3>1. temp' = Without(temp, Old')
      BY <1>3, <2>1 DEF SetAside
    <3> QED BY <1>5, <3>1 DEF Without
  <2>2. CASE final[work.to] # Absent
    <3>1. temp' = With(temp, Old', final[work.to])
      BY <1>3, <2>2 DEF SetAside
    <3>2. temp'[Old'] = final[work.to]
      BY <3>1 DEF With
    <3> QED BY <1>5, <2>2, <3>2 DEF FullInv
  <2> QED BY <2>1, <2>2
<1> QED BY <1>3, <1>4, <1>5 DEF FullInv

LEMMA InstallFull ==
  ASSUME PackageInv, FullInv, marred' = marred \ {work.to}, Install
  PROVE  FullInv'
<1>1. /\ work.pc \in Staging /\ work \in WorkRecords /\ DOMAIN final = Places
      /\ final' = [final EXCEPT ![work.to] = temp[StageBefore]] /\ temp[StageBefore] = Staged
      /\ work' = [work EXCEPT !.pc = "drop"] /\ marred' \subseteq Repos
  BY DEF Install, At, Goto, Staging, PackageInv, DirsInv, StagedInv, FullInv
<1>2. work.to \in Places /\ (ToCache => work.to \notin Repos)
  BY <1>1, SourceIsExport, Places2
<1>3. work'.pc # "install"
  BY <1>1 DEF WorkRecords
<1>4. ASSUME NEW r \in Repos \ marred', final'[r] # Absent
      PROVE  (r \notin marred /\ final'[r] = final[r]) \/ Full(r, final'[r])
  <2>1. CASE r = work.to
    <3>1. final'[r] = Staged /\ ~ToCache
      BY <1>1, <1>2, <2>1
    <3> QED BY <1>1, <2>1, <3>1, StagedFull
  <2>2. CASE r # work.to
    BY <1>1, <1>2, <2>2, Places2
  <2> QED BY <2>1, <2>2
<1> QED BY <1>1, <1>3, <1>4, FullStays

LEMMA InstallFailsFull ==
  ASSUME PackageInv, FullInv, UNCHANGED marred, InstallFails
  PROVE  FullInv'
<1>1. /\ At("install") /\ work.pc \in Staging /\ work \in WorkRecords /\ DOMAIN final = Places
      /\ final' = (IF Old \in DOMAIN temp THEN [final EXCEPT ![work.to] = temp[Old]] ELSE final)
      /\ work' = [work EXCEPT !.pc = "failed"] /\ marred' \subseteq Repos
  BY DEF InstallFails, At, Goto, Staging, PackageInv, DirsInv, FullInv
<1>2. work.to \in Places
  BY <1>1, SourceIsExport
<1>3. work'.pc # "install"
  BY <1>1 DEF WorkRecords
<1>4. ASSUME NEW r \in Repos \ marred'
      PROVE  (r \notin marred /\ final'[r] = final[r]) \/ Full(r, final'[r])
  <2>1. CASE r = work.to /\ Old \in DOMAIN temp
    <3>1. final'[r] = temp[Old]
      BY <1>1, <1>2, <2>1
    <3> QED BY <1>1, <2>1, <3>1 DEF FullInv
  <2>2. CASE r # work.to \/ Old \notin DOMAIN temp
    BY <1>1, <2>2, Places2
  <2> QED BY <2>1, <2>2
<1> QED BY <1>1, <1>3, <1>4, FullStays

LEMMA StepCallFull ==
  ASSUME PackageInv, FullInv, marred' = IF At("install") THEN marred \ {work.to} ELSE marred,
         StepCall
  PROVE  FullInv'
<1>1. marred \subseteq Repos /\ work \in WorkRecords
  BY DEF FullInv, PackageInv
<1>2. ASSUME UNCHANGED <<final, marred>>, work'.pc # "install" PROVE FullInv'
  BY <1>1, <1>2, FullStays
<1>3. CASE TryReuse \/ TryCache
  BY <1>1, <1>2, <1>3 DEF TryReuse, TryCache, At, Goto, WorkRecords
<1>4. CASE RunContainer \/ MakeStage \/ SaveCacheMeta
  BY <1>1, <1>2, <1>4 DEF RunContainer, MakeStage, SaveCacheMeta, At, Goto, WorkRecords
<1>5. CASE CopyFile
  <2>1. work.pc = "copy" /\ UNCHANGED final
    BY <1>5 DEF CopyFile, At
  <2>2. CASE work' = [work EXCEPT !.left = {}, !.pc = IF ToCache THEN "meta" ELSE "backup"]
    BY <1>1, <1>2, <2>1, <2>2 DEF At, WorkRecords
  <2>3. CASE work' = [work EXCEPT !.left = @ \ {NextFile}]
    BY <1>1, <1>2, <2>1, <2>3 DEF At, WorkRecords
  <2> QED BY <1>5, <2>2, <2>3 DEF CopyFile
<1>6. CASE DropOld
  BY <1>1, <1>2, <1>6 DEF DropOld, GoOn, At, WorkRecords
<1>7. CASE SetAside
  BY <1>7, SetAsideFull DEF SetAside, At
<1>8. CASE Install
  BY <1>8, InstallFull DEF Install
<1>9. CASE RecordRepo
  <2>1. work'.pc # "install" /\ UNCHANGED marred
    BY <1>1, <1>9 DEF RecordRepo, At, Goto, WorkRecords
  <2> QED BY <1>9, <2>1, RecordedFull DEF RecordRepo
<1> QED BY <1>3, <1>4, <1>5, <1>6, <1>7, <1>8, <1>9 DEF StepCall

\* What a clean leaves under the name of a repository with all its files is one.
LEMMA CleanCutShortFull ==
  ASSUME PackageInv, FullInv, CleanCutShort, work'.pc # "install"
  PROVE  FullInv'
<1>1. marred' = {r \in Repos : final'[r] # Absent
                               /\ (r \in marred \/ RepoContent(r)' # RepoContent(r))}
      /\ \A p \in Places : <<p, "final", 0>> \notin Published => final'[p] = final[p]
  BY DEF CleanCutShort
<1>2. ASSUME NEW r \in Repos \ marred', final'[r] # Absent
      PROVE  Full(r, final'[r])
  <2>1. r \notin marred /\ RepoContent(r)' = RepoContent(r) /\ r \in Places
    BY <1>1, <1>2, Places2
  <2>2. final[r] # Absent
    BY <1>1, <1>2, <2>1 DEF Published
  <2>3. PayloadOf(final'[r]) = PayloadOf(final[r])
    BY <1>2, <2>1, <2>2 DEF RepoContent
  <2>4. Full(r, final[r])
    BY <1>2, <2>1, <2>2 DEF FullInv
  <2> QED BY <2>3, <2>4 DEF Full
<1>3. marred' \subseteq Repos
  BY <1>1
<1> QED BY <1>2, <1>3, FullStays

LEMMA FullStep == Running /\ FullInv /\ [PrepareNext]_prepareVars => FullInv'
<1> SUFFICES ASSUME Running, FullInv, [PrepareNext]_prepareVars PROVE FullInv'
  OBVIOUS
<1>i. PackageInv /\ RunInv /\ marred \subseteq Repos /\ work \in WorkRecords
  BY DEF Running, PackageInv, FullInv
<1>1. ASSUME UNCHANGED <<final, temp, work, marred>> PROVE FullInv'
  BY <1>1 DEF FullInv, At, Old
<1>2. ASSUME UNCHANGED <<final, marred>>, work'.pc # "install" PROVE FullInv'
  BY <1>i, <1>2, FullStays
<1>3. CASE \E w \in Workflows, refresh, clean \in BOOLEAN : Start(w, refresh, clean)
  BY <1>1, <1>3 DEF Start, artifactVars
<1>4. CASE Clean
  <2>1. /\ marred' = {} /\ work' = work /\ work.pc = "idle"
        /\ \A r \in Repos : final'[r] = Absent
    BY <1>i, <1>4, Places2 DEF Clean, RunAt, RunInv
  <2> QED BY <2>1 DEF FullInv, At
<1>5. CASE RunStep
  <2> DEFINE s == run.workflow[run.at]
  <2>1. run.at \in DOMAIN run.workflow /\ run.refresh \in BOOLEAN
    <3>1. run.workflow \in Seq(AllSteps)
      BY <1>i, WorkflowSeq
    <3> QED BY <1>i, <1>5, <3>1 DEF RunStep, RunAt, RunInv, RunRecords
  <2>2. s \in AllSteps /\ StartStep(s, run.refresh) /\ UNCHANGED <<final, marred>>
    BY <1>i, <1>5, <2>1, WorkflowSteps DEF RunStep, StartStep, fetchVars, history
  <2> HIDE DEF s
  <2>3. work'.pc = (CASE s \in Steps -> "reuse" [] s \in ImageSteps -> "images"
                      [] s \in FileSteps -> "file")
    BY <1>i, <2>1, <2>2, StartStepInv
  <2>4. work'.pc # "install"
    BY <2>2, <2>3 DEF AllSteps
  <2> QED BY <1>2, <2>2, <2>4
<1>6. CASE InStep
  <2>1. marred' = IF At("install") THEN marred \ {work.to} ELSE marred
    BY <1>6 DEF InStep
  <2>2. CASE StepCall
    BY <1>i, <2>1, <2>2, StepCallFull
  <2>3. CASE FetchCall
    <3>1. ~At("install")
      BY <2>3 DEF FetchCall, NextImage, ImagesDone, PullImage, WriteMetas, CheckFile,
                  Download, DownloadBlocked, RenameFile, WriteSidecar, At
    <3>2. UNCHANGED final /\ work'.pc # "install"
      BY <1>i, <2>3, FetchCallInv DEF fetchVars
    <3> QED BY <1>2, <2>1, <3>1, <3>2
  <2> QED BY <1>6, <2>2, <2>3 DEF InStep
<1>7. CASE StepDone \/ RetryStep \/ GiveUp \/ WriteManifest
  <2>1. UNCHANGED <<final, marred>> /\ (work' = Idle \/ EndStep)
    BY <1>7 DEF StepDone, RetryStep, GiveUp, WriteManifest, history
  <2>2. work'.pc = "idle"
    BY <2>1 DEF EndStep, Idle
  <2> QED BY <1>2, <2>1, <2>2
<1>8. CASE Kill
  <2>1. CASE KillStep /\ UNCHANGED marred
    <3>1. work'.pc = "idle"
      BY <2>1, IdleType DEF KillStep
    <3> QED BY <1>i, <2>1, <3>1, CutShortFull DEF KillStep
  <2>2. CASE RunAt("clean") /\ CleanCutShort /\ UNCHANGED work
    <3>1. work'.pc # "install"
      BY <1>i, <2>2 DEF RunAt, RunInv
    <3> QED BY <1>i, <2>2, <3>1, CleanCutShortFull
  <2> QED BY <1>8, <2>1, <2>2 DEF Kill
<1>9. CASE CallFails
  <2>1. UNCHANGED marred
    BY <1>9 DEF CallFails, history
  <2>2. CASE StepFails
    <3>1. work'.pc # "install"
      BY <1>i, <2>2, FailedWork
    <3>2. UNCHANGED final \/ CutShort
      BY <2>2 DEF StepFails
    <3> QED BY <1>2, <1>i, <2>1, <3>1, <3>2, CutShortFull
  <2>3. CASE InstallFails
    BY <1>i, <2>1, <2>3, InstallFailsFull
  <2>4. CASE DropFails
    BY <1>2, <1>i, <2>1, <2>4 DEF DropFails, GoOn, WorkRecords
  <2>5. CASE FetchFails
    BY <1>2, <1>i, <2>1, <2>5, FetchCallInv DEF fetchVars
  <2> QED BY <1>9, <2>2, <2>3, <2>4, <2>5 DEF CallFails
<1>10. CASE UpstreamChanges /\ UNCHANGED <<loose, manifest, run, faults, history>>
  BY <1>1, <1>10 DEF UpstreamChanges, history
<1>11. CASE UNCHANGED prepareVars
  BY <1>1, <1>11 DEF prepareVars, artifactVars, history
<1> QED BY <1>3, <1>4, <1>5, <1>6, <1>7, <1>8, <1>9, <1>10, <1>11 DEF PrepareNext, RunNext

\* That holds of every repository in every reachable state.
THEOREM FullHolds == PrepareSpec => []FullInv
<1>1. PrepareInit => FullInv
  BY Places2, IdleType DEF PrepareInit, ArtifactsInit, FullInv, At
<1> QED BY <1>1, FullStep, RunningHolds, PTL DEF PrepareSpec

\* What is published under the name of a repository is one whole export of a step
\* that publishes there, however runs were killed, failed or began anew
\* (replacePublishedArtifactDir, in every order of its two renames); or a part of
\* one, where a --clean was cut short and nothing has been published since.
THEOREM RepositoriesAreWhole == PrepareSpec => []RepoWhole
<1>1. Running /\ FullInv => RepoWhole
  <2> SUFFICES ASSUME Running, FullInv, NEW r \in Repos, final[r] # Absent
               PROVE  \E s \in Steps, v \in Versions :
                        /\ Repo[s] = r
                        /\ RepoContent(r) \in Parts(Export(s, v))
                        /\ r \notin marred => RepoContent(r) = Export(s, v)
    BY DEF RepoWhole
  <2>1. RepoContent(r) = PayloadOf(final[r])
    BY DEF RepoContent
  <2>2. CASE r \notin marred
    <3>1. PICK s \in Steps : Repo[s] = r /\ \E v \in Versions : RepoContent(r) = Export(s, v)
      BY <2>1, <2>2 DEF FullInv, Full
    <3>2. PICK v \in Versions : RepoContent(r) = Export(s, v)
      BY <3>1
    <3>3. Export(s, v) = Only(Export(s, v), DOMAIN Export(s, v))
      BY DEF Export, Only
    <3>4. Export(s, v) \in Parts(Export(s, v))
      BY <3>3 DEF Parts
    <3> QED BY <3>1, <3>2, <3>4
  <2>3. CASE r \in marred
    <3>1. PICK s \in Steps : Repo[s] = r /\ \E v \in Versions : RepoOf(final[r], s, v)
      BY Places2 DEF Running, PackageInv, DirsInv, Kept
    <3>2. PICK v \in Versions : RepoOf(final[r], s, v)
      BY <3>1
    <3>3. PayloadOf(final[r]) \in Parts(Export(s, v))
      BY <3>2, RepoPart
    <3> QED BY <2>1, <2>3, <3>1, <3>3
  <2> QED BY <2>2, <2>3
<1> QED BY <1>1, RunningHolds, FullHolds, PTL

\* An entry of the host's cache that is there at all is whole and has its own
\* checksums, so whatever reuses it publishes what was exported.
THEOREM CacheEntriesAreWhole == PrepareSpec => []CacheWhole
<1>1. Running => CacheWhole
  BY Places2 DEF Running, PackageInv, DirsInv, Kept, Entry, CacheWhole
<1> QED BY <1>1, RunningHolds, PTL

-----------------------------------------------------------------------------
(* Images and files                                                        *)

LoosePaths ==
  {Archive(i) : i \in AllImages} \cup {Metas}
    \cup {File(s) : s \in FileSteps} \cup {Sidecar(s) : s \in FileSteps}
    \cup {Leftover(s) : s \in FileSteps}

VersionsOf(x) == [step : {x}, version : Versions]

SidecarsOf(x) == [sum : VersionsOf(x), validators : BOOLEAN]

\* Only an archive or the checksums of the archives can be torn.
LooseInv ==
  /\ DOMAIN loose \subseteq LoosePaths
  /\ \A i \in AllImages : Has(Archive(i)) => loose[Archive(i)] \in {Torn} \cup VersionsOf(i)
  /\ Has(Metas) /\ loose[Metas] # Torn =>
       \A i \in DOMAIN loose[Metas] : loose[Metas][i] \in VersionsOf(i)
  /\ \A s \in FileSteps : /\ Has(File(s)) => loose[File(s)] \in VersionsOf(Url[s])
                          /\ Has(Sidecar(s)) => loose[Sidecar(s)] \in SidecarsOf(Url[s])

FetchInv ==
  /\ work.pc \in {"images", "pull", "metas"} =>
       work.step \in ImageSteps /\ work.left \subseteq Images[work.step]
  /\ work.pc \in {"pull", "metas"} => work.left # {}
  /\ At("metas") => Has(Archive(Image)) /\ loose[Archive(Image)] \in VersionsOf(Image)
  /\ work.pc \in {"file", "download", "rename", "sidecar"} => work.step \in FileSteps
  /\ At("rename") => work.version \in Versions
  /\ At("sidecar") => Has(File(work.step))

Fetching == LooseInv /\ FetchInv /\ faults \in 0..MaxFaults

LEMMA LooseNames ==
  /\ \A i, j : Archive(i) = Archive(j) => i = j
  /\ \A i, j : File(i) = File(j) => Url[i] = Url[j]
  /\ \A i, j : Sidecar(i) = Sidecar(j) => Url[i] = Url[j]
  /\ \A i, j : Archive(i) # File(j) /\ Archive(i) # Sidecar(j) /\ Archive(i) # Leftover(j)
  /\ \A i, j : File(i) # Sidecar(j) /\ File(i) # Leftover(j) /\ Sidecar(i) # Leftover(j)
  /\ \A i : Metas # Archive(i) /\ Metas # File(i) /\ Metas # Sidecar(i) /\ Metas # Leftover(i)
BY DEF Archive, Metas, File, Sidecar, Leftover

\* A file is written under one of the names.
LEMMA LooseWritten ==
  ASSUME LooseInv, NEW path \in LoosePaths, NEW c, loose' = With(loose, path, c),
         \A i \in AllImages : path = Archive(i) => c \in {Torn} \cup VersionsOf(i),
         path = Metas /\ c # Torn => \A i \in DOMAIN c : c[i] \in VersionsOf(i),
         \A s \in FileSteps : /\ path = File(s) => c \in VersionsOf(Url[s])
                              /\ path = Sidecar(s) => c \in SidecarsOf(Url[s])
  PROVE  /\ LooseInv' /\ path \in DOMAIN loose' /\ loose'[path] = c
         /\ \A q \in DOMAIN loose : q \in DOMAIN loose' /\ (q # path => loose'[q] = loose[q])
<1>1. DOMAIN loose' = DOMAIN loose \cup {path} /\ loose'[path] = c
  BY DEF With
<1>2. \A q \in DOMAIN loose : q # path => loose'[q] = loose[q]
  BY DEF With
<1>3. \A q \in DOMAIN loose' : q = path \/ (q \in DOMAIN loose /\ q # path /\ loose'[q] = loose[q])
  BY <1>1, <1>2
<1>4. DOMAIN loose' \subseteq LoosePaths
  BY <1>1 DEF LooseInv
<1>5. ASSUME NEW i \in AllImages, Archive(i) \in DOMAIN loose'
      PROVE  loose'[Archive(i)] \in {Torn} \cup VersionsOf(i)
  BY <1>1, <1>3, <1>5 DEF LooseInv, Has
<1>6. ASSUME Metas \in DOMAIN loose', loose'[Metas] # Torn
      PROVE  \A i \in DOMAIN loose'[Metas] : loose'[Metas][i] \in VersionsOf(i)
  BY <1>1, <1>3, <1>6 DEF LooseInv, Has
<1>7. ASSUME NEW s \in FileSteps, File(s) \in DOMAIN loose'
      PROVE  loose'[File(s)] \in VersionsOf(Url[s])
  BY <1>1, <1>3, <1>7 DEF LooseInv, Has
<1>8. ASSUME NEW s \in FileSteps, Sidecar(s) \in DOMAIN loose'
      PROVE  loose'[Sidecar(s)] \in SidecarsOf(Url[s])
  BY <1>1, <1>3, <1>8 DEF LooseInv, Has
<1>9. LooseInv'
  BY <1>4, <1>5, <1>6, <1>7, <1>8 DEF LooseInv, Has
<1> QED BY <1>1, <1>2, <1>9

\* Files are removed.
LEMMA LooseRemoved ==
  ASSUME LooseInv, NEW kept \in SUBSET DOMAIN loose, loose' = Only(loose, kept)
  PROVE  LooseInv'
<1>1. DOMAIN loose' = kept /\ \A p \in kept : loose'[p] = loose[p]
  BY DEF Only
<1>2. \A i \in AllImages : Has(Archive(i))' => Has(Archive(i)) /\ loose'[Archive(i)] = loose[Archive(i)]
  BY <1>1 DEF Has
<1>3. Has(Metas)' => Has(Metas) /\ loose'[Metas] = loose[Metas]
  BY <1>1 DEF Has
<1>4. \A s \in FileSteps :
        /\ Has(File(s))' => Has(File(s)) /\ loose'[File(s)] = loose[File(s)]
        /\ Has(Sidecar(s))' => Has(Sidecar(s)) /\ loose'[Sidecar(s)] = loose[Sidecar(s)]
  BY <1>1 DEF Has
<1> QED BY <1>1, <1>2, <1>3, <1>4 DEF LooseInv

LEMMA ImageLeft ==
  ASSUME PackageInv, FetchInv, work.pc \in {"images", "pull", "metas"}, work.left # {}
  PROVE  Image \in work.left /\ Image \in AllImages
BY DEF FetchInv, Image, AllImages

LEMMA NextImageInv == PackageInv /\ LooseInv /\ FetchInv /\ NextImage => LooseInv' /\ FetchInv'
<1> SUFFICES ASSUME PackageInv, LooseInv, FetchInv, NextImage PROVE LooseInv' /\ FetchInv'
  OBVIOUS
<1>1. work.pc = "images" /\ work.step \in ImageSteps /\ work.left \subseteq Images[work.step]
      /\ work.left # {}
  BY DEF NextImage, At, FetchInv
<1>2. CASE work' = [work EXCEPT !.left = @ \ {Image}] /\ UNCHANGED loose
  <2>1. work'.pc = "images" /\ work'.step = work.step /\ work'.left \subseteq work.left
    BY <1>1, <1>2 DEF PackageInv, WorkRecords
  <2> QED BY <1>1, <1>2, <2>1 DEF LooseInv, FetchInv, Has, At
<1>3. CASE Goto("pull") /\ loose' = Without(loose, Archive(Image))
  <2>1. work'.pc = "pull" /\ work'.step = work.step /\ work'.left = work.left
    BY <1>3 DEF Goto, PackageInv, WorkRecords
  <2>2. LooseInv'
    <3>1. loose' = Only(loose, DOMAIN loose \ {Archive(Image)})
      BY <1>3 DEF Without, Only
    <3> QED BY <3>1, LooseRemoved
  <2> QED BY <1>1, <2>1, <2>2 DEF FetchInv, At
<1> QED BY <1>2, <1>3 DEF NextImage

LEMMA PullImageInv == PackageInv /\ LooseInv /\ FetchInv /\ PullImage => LooseInv' /\ FetchInv'
<1> SUFFICES ASSUME PackageInv, LooseInv, FetchInv, PullImage PROVE LooseInv' /\ FetchInv'
  OBVIOUS
<1>1. work.pc = "pull" /\ work.step \in ImageSteps /\ work.left \subseteq Images[work.step]
      /\ work.left # {} /\ Image \in AllImages
  BY ImageLeft DEF PullImage, At, FetchInv
<1>2. work'.pc = "metas" /\ work'.step = work.step /\ work'.left = work.left
  BY DEF PullImage, Goto, PackageInv, WorkRecords
<1> DEFINE c == Artifact(Image, upstream)
<1>3. c \in VersionsOf(Image)
  BY DEF Artifact, VersionsOf, PackageInv
<1>4. loose' = With(loose, Archive(Image), c)
  BY DEF PullImage
<1> HIDE DEF c
<1>5. Archive(Image) \in LoosePaths
  BY <1>1 DEF LoosePaths
<1>6. /\ \A i \in AllImages : Archive(Image) = Archive(i) => c \in {Torn} \cup VersionsOf(i)
      /\ Archive(Image) # Metas
      /\ \A s \in FileSteps : Archive(Image) # File(s) /\ Archive(Image) # Sidecar(s)
  BY <1>3, LooseNames
<1>7. LooseInv' /\ Archive(Image) \in DOMAIN loose' /\ loose'[Archive(Image)] = c
  BY <1>4, <1>5, <1>6, LooseWritten
<1>8. Image' = Image
  BY <1>2 DEF Image
<1> QED BY <1>1, <1>2, <1>3, <1>7, <1>8 DEF FetchInv, At, Has

LEMMA WriteMetasInv == PackageInv /\ LooseInv /\ FetchInv /\ WriteMetas => LooseInv' /\ FetchInv'
<1> SUFFICES ASSUME PackageInv, LooseInv, FetchInv, WriteMetas PROVE LooseInv' /\ FetchInv'
  OBVIOUS
<1>1. work.pc = "metas" /\ work.step \in ImageSteps /\ work.left \subseteq Images[work.step]
      /\ loose[Archive(Image)] \in VersionsOf(Image)
  BY DEF WriteMetas, At, FetchInv
<1>2. work'.pc = "images" /\ work'.step = work.step /\ work'.left \subseteq work.left
  BY DEF WriteMetas, PackageInv, WorkRecords
<1> DEFINE c == With(Recorded, Image, loose[Archive(Image)])
<1>3. \A i \in DOMAIN Recorded : Recorded[i] \in VersionsOf(i)
  <2>1. CASE Recorded = Empty
    BY <2>1 DEF Empty
  <2>2. CASE Recorded # Empty
    BY <2>2 DEF Recorded, LooseInv
  <2> QED BY <2>1, <2>2
<1>4. \A i \in DOMAIN c : c[i] \in VersionsOf(i)
  <2>1. DOMAIN c = DOMAIN Recorded \cup {Image} /\ c[Image] = loose[Archive(Image)]
    BY DEF With
  <2>2. \A i \in DOMAIN Recorded : i # Image => c[i] = Recorded[i]
    BY DEF With
  <2> HIDE DEF c
  <2> QED BY <1>1, <1>3, <2>1, <2>2
<1>5. loose' = With(loose, Metas, c)
  BY DEF WriteMetas
<1> HIDE DEF c
<1>6. Metas \in LoosePaths
  BY DEF LoosePaths
<1>7. /\ \A i \in AllImages : Metas # Archive(i)
      /\ \A s \in FileSteps : Metas # File(s) /\ Metas # Sidecar(s)
  BY LooseNames
<1>8. LooseInv'
  BY <1>4, <1>5, <1>6, <1>7, LooseWritten
<1> QED BY <1>1, <1>2, <1>8 DEF FetchInv, At

LEMMA RenameFileInv == PackageInv /\ LooseInv /\ FetchInv /\ RenameFile => LooseInv' /\ FetchInv'
<1> SUFFICES ASSUME PackageInv, LooseInv, FetchInv, RenameFile PROVE LooseInv' /\ FetchInv'
  OBVIOUS
<1>1. work.pc = "rename" /\ work.step \in FileSteps /\ work.version \in Versions
  BY DEF RenameFile, At, FetchInv
<1>2. work'.pc = "sidecar" /\ work'.step = work.step
  BY DEF RenameFile, Goto, PackageInv, WorkRecords
<1> DEFINE c == Artifact(Url[work.step], work.version)
<1>3. c \in VersionsOf(Url[work.step])
  BY <1>1 DEF Artifact, VersionsOf
<1>4. loose' = With(loose, File(work.step), c)
  BY DEF RenameFile
<1> HIDE DEF c
<1>5. File(work.step) \in LoosePaths
  BY <1>1 DEF LoosePaths
<1>6. /\ \A i \in AllImages : File(work.step) # Archive(i)
      /\ File(work.step) # Metas
      /\ \A s \in FileSteps : /\ File(work.step) = File(s) => c \in VersionsOf(Url[s])
                              /\ File(work.step) # Sidecar(s)
  BY <1>3, LooseNames
<1>7. LooseInv' /\ File(work.step) \in DOMAIN loose'
  BY <1>4, <1>5, <1>6, LooseWritten
<1> QED BY <1>1, <1>2, <1>7 DEF FetchInv, At, Has

LEMMA WriteSidecarInv == PackageInv /\ LooseInv /\ FetchInv /\ WriteSidecar => LooseInv' /\ FetchInv'
<1> SUFFICES ASSUME PackageInv, LooseInv, FetchInv, WriteSidecar PROVE LooseInv' /\ FetchInv'
  OBVIOUS
<1>1. work.pc = "sidecar" /\ work.step \in FileSteps /\ Has(File(work.step))
  BY DEF WriteSidecar, At, FetchInv
<1>2. work'.pc = "done"
  BY DEF WriteSidecar, Goto, PackageInv, WorkRecords
<1>3. PICK validators \in BOOLEAN :
        loose' = With(loose, Sidecar(work.step),
                      [sum |-> loose[File(work.step)], validators |-> validators])
  BY DEF WriteSidecar
<1> DEFINE c == [sum |-> loose[File(work.step)], validators |-> validators]
<1>4. c \in SidecarsOf(Url[work.step]) /\ loose' = With(loose, Sidecar(work.step), c)
  BY <1>1, <1>3 DEF LooseInv, SidecarsOf
<1> HIDE DEF c
<1>5. Sidecar(work.step) \in LoosePaths
  BY <1>1 DEF LoosePaths
<1>6. /\ \A i \in AllImages : Sidecar(work.step) # Archive(i)
      /\ Sidecar(work.step) # Metas
      /\ \A s \in FileSteps : /\ Sidecar(work.step) # File(s)
                              /\ Sidecar(work.step) = Sidecar(s) => c \in SidecarsOf(Url[s])
  BY <1>4, LooseNames
<1>7. LooseInv'
  BY <1>4, <1>5, <1>6, LooseWritten
<1> QED BY <1>2, <1>7 DEF FetchInv, At

\* Where no image or file is being fetched, there is nothing to know of one.
LEMMA NotFetching ==
  ASSUME work'.pc \notin {"images", "pull", "metas", "file", "download", "rename", "sidecar"}
  PROVE  FetchInv'
BY DEF FetchInv, At

LEMMA FetchCallLoose ==
  ASSUME PackageInv, LooseInv, FetchInv, FetchCall
  PROVE  LooseInv' /\ FetchInv'
<1>1. CASE ImagesDone
  <2>1. work'.pc = "done" /\ UNCHANGED loose
    BY <1>1 DEF ImagesDone, Goto, PackageInv, WorkRecords
  <2> QED BY <2>1, NotFetching DEF LooseInv, Has
<1>2. CASE CheckFile
  <2>1. work'.pc \in {"done", "download"} /\ UNCHANGED loose /\ work'.step = work.step
        /\ work.step \in FileSteps
    BY <1>2 DEF CheckFile, Goto, PackageInv, WorkRecords, FetchInv, At
  <2> QED BY <2>1 DEF LooseInv, Has, FetchInv, At
<1>3. CASE Download
  <2>1. work'.pc = "rename" /\ work'.version \in Versions /\ UNCHANGED loose
        /\ work'.step = work.step /\ work.step \in FileSteps
    BY <1>3 DEF Download, PackageInv, WorkRecords, FetchInv, At
  <2> QED BY <2>1 DEF LooseInv, Has, FetchInv, At
<1>4. CASE DownloadBlocked
  <2>1. work'.pc = "failed" /\ UNCHANGED loose
    BY <1>4 DEF DownloadBlocked, Goto, PackageInv, WorkRecords
  <2> QED BY <2>1, NotFetching DEF LooseInv, Has
<1> QED BY <1>1, <1>2, <1>3, <1>4, NextImageInv, PullImageInv, WriteMetasInv, RenameFileInv,
           WriteSidecarInv DEF FetchCall

LEMMA FetchCutShortLoose ==
  ASSUME PackageInv, LooseInv, FetchInv, FetchCutShort
  PROVE  LooseInv'
<1>1. CASE UNCHANGED loose
  BY <1>1 DEF LooseInv, Has
<1>2. CASE At("pull") /\ loose' = With(loose, Archive(Image), Torn)
  <2>1. Image \in AllImages /\ Archive(Image) \in LoosePaths
    BY <1>2, ImageLeft DEF At, FetchInv, LoosePaths
  <2>2. /\ Archive(Image) # Metas
        /\ \A s \in FileSteps : Archive(Image) # File(s) /\ Archive(Image) # Sidecar(s)
    BY LooseNames
  <2> QED BY <1>2, <2>1, <2>2, LooseWritten
<1>3. CASE At("metas") /\ loose' = With(loose, Metas, Torn)
  <2>1. Metas \in LoosePaths
    BY DEF LoosePaths
  <2>2. /\ \A i \in AllImages : Metas # Archive(i)
        /\ \A s \in FileSteps : Metas # File(s) /\ Metas # Sidecar(s)
    BY LooseNames
  <2> QED BY <1>3, <2>1, <2>2, LooseWritten
<1>4. CASE (At("download") \/ At("rename") \/ At("sidecar"))
           /\ loose' = With(loose, Leftover(work.step), Torn)
  <2>1. Leftover(work.step) \in LoosePaths
    BY <1>4 DEF At, FetchInv, LoosePaths
  <2>2. /\ \A i \in AllImages : Leftover(work.step) # Archive(i)
        /\ Leftover(work.step) # Metas
        /\ \A s \in FileSteps : Leftover(work.step) # File(s) /\ Leftover(work.step) # Sidecar(s)
    BY LooseNames
  <2> QED BY <1>4, <2>1, <2>2, LooseWritten
<1> QED BY <1>1, <1>2, <1>3, <1>4 DEF FetchCutShort

\* Images and files, and the step that fetches them, are as Fetching says.
THEOREM FetchingHolds == PrepareSpec => []Fetching
<1>1. PrepareInit => Fetching
  <2> SUFFICES ASSUME PrepareInit PROVE Fetching
    OBVIOUS
  <2>1. loose = Empty /\ work = Idle /\ faults = 0
    BY DEF PrepareInit, ArtifactsInit
  <2>2. LooseInv
    BY <2>1 DEF LooseInv, Has, Empty
  <2>3. FetchInv
    BY <2>1, IdleType DEF FetchInv, At
  <2>4. faults \in 0..MaxFaults
    BY <2>1, PrepareAssumption DEF PrepareAssumption
  <2> QED BY <2>2, <2>3, <2>4 DEF Fetching
<1>2. Running /\ Fetching /\ [PrepareNext]_prepareVars => Fetching'
  <2> SUFFICES ASSUME Running, Fetching, [PrepareNext]_prepareVars PROVE Fetching'
    OBVIOUS
  <2>i. PackageInv /\ RunInv /\ LooseInv /\ FetchInv /\ faults \in 0..MaxFaults
    BY DEF Running, Fetching
  <2>1. ASSUME UNCHANGED <<work, loose, faults>> PROVE Fetching'
    <3>1. LooseInv'
      BY <2>i, <2>1 DEF LooseInv, Has
    <3>2. FetchInv'
      BY <2>i, <2>1 DEF FetchInv, Has, At, Image
    <3> QED BY <2>i, <2>1, <3>1, <3>2 DEF Fetching
  <2>2. ASSUME UNCHANGED <<loose, faults>>, work'.pc \in {"idle", "done", "failed"} \cup Packaging
        PROVE  Fetching'
    <3>1. LooseInv'
      BY <2>i, <2>2 DEF LooseInv, Has
    <3>2. FetchInv'
      BY <2>2, NotFetching DEF Packaging, Staging
    <3> QED BY <2>i, <2>2, <3>1, <3>2 DEF Fetching
  <2>3. CASE \E w \in Workflows, refresh, clean \in BOOLEAN : Start(w, refresh, clean)
    BY <2>1, <2>3 DEF Start, artifactVars
  <2>4. CASE Clean
    <3>1. LooseInv'
      BY <2>4 DEF Clean, LooseInv, Has, Empty
    <3>2. FetchInv'
      <4>1. work'.pc = "idle"
        BY <2>i, <2>4 DEF Clean, RunInv, RunAt
      <4> QED BY <4>1, NotFetching
    <3> QED BY <2>i, <2>4, <3>1, <3>2 DEF Clean, Fetching
  <2>5. CASE RunStep
    <3> DEFINE s == run.workflow[run.at]
    <3>1. /\ UNCHANGED <<loose, faults>> /\ StartStep(s, run.refresh)
          /\ run.at \in DOMAIN run.workflow /\ run.refresh \in BOOLEAN
      <4>1. run.workflow \in Seq(AllSteps)
        BY <2>i, WorkflowSeq
      <4> QED BY <2>i, <2>5, <4>1 DEF RunStep, RunInv, RunRecords, StartStep
    <3>2. s \in AllSteps
      BY <2>i, <3>1, WorkflowSteps
    <3> HIDE DEF s
    <3>3. /\ work'.step = s /\ work'.left = (IF s \in ImageSteps THEN Images[s] ELSE {})
          /\ work'.pc = (CASE s \in Steps -> "reuse" [] s \in ImageSteps -> "images"
                           [] s \in FileSteps -> "file")
      BY <2>i, <3>1, <3>2, StartStepInv
    <3>4. \/ work'.pc = "reuse"
          \/ work'.pc = "images" /\ s \in ImageSteps
          \/ work'.pc = "file" /\ s \in FileSteps
      BY <3>2, <3>3, FetchedAssumption DEF FetchedAssumption, AllSteps
    <3>5. FetchInv'
      BY <3>3, <3>4 DEF FetchInv, At
    <3>6. LooseInv'
      BY <2>i, <3>1 DEF LooseInv, Has
    <3> QED BY <2>i, <3>1, <3>5, <3>6 DEF Fetching
  <2>6. CASE InStep
    <3>1. UNCHANGED faults
      BY <2>6 DEF InStep
    <3>2. CASE StepCall /\ UNCHANGED loose
      <4>1. work'.pc \in Packaging \cup {"done", "failed"}
        BY <2>i, <3>2, StepCallWork
      <4> QED BY <2>2, <3>1, <3>2, <4>1
    <3>3. CASE FetchCall
      BY <2>i, <3>1, <3>3, FetchCallLoose DEF Fetching
    <3> QED BY <2>6, <3>2, <3>3 DEF InStep
  <2>7. CASE StepDone \/ RetryStep
    <3>1. work' = [Idle EXCEPT !.n = work.n] /\ UNCHANGED <<loose, faults>>
      BY <2>7 DEF StepDone, RetryStep, EndStep
    <3>2. work'.pc = "idle"
      BY <3>1 DEF Idle
    <3> QED BY <2>2, <3>1, <3>2
  <2>8. CASE GiveUp \/ WriteManifest
    <3>1. work' = Idle /\ UNCHANGED <<loose, faults>>
      BY <2>8 DEF GiveUp, WriteManifest
    <3> QED BY <2>2, <3>1, IdleType
  <2>9. ASSUME Fault PROVE faults' \in 0..MaxFaults
    BY <2>i, <2>9, PrepareAssumption DEF Fault, PrepareAssumption
  <2>10. CASE Kill
    <3>1. LooseInv'
      <4>1. CASE FetchCutShort
        BY <2>i, <4>1, FetchCutShortLoose
      <4>2. CASE CleanCutShort
        <5>1. loose' \in Parts(loose)
          BY <4>2 DEF CleanCutShort
        <5>2. PICK kept \in SUBSET DOMAIN loose : loose' = Only(loose, kept)
          BY <5>1 DEF Parts
        <5> QED BY <2>i, <5>2, LooseRemoved
      <4> QED BY <2>10, <4>1, <4>2 DEF Kill
    <3>2. work'.pc = "idle"
      BY <2>i, <2>10, IdleType DEF Kill, KillStep, RunInv, RunAt
    <3>3. FetchInv'
      BY <3>2, NotFetching
    <3> QED BY <2>9, <2>10, <3>1, <3>3 DEF Kill, Fetching
  <2>11. CASE CallFails
    <3>1. CASE (StepFails \/ InstallFails \/ DropFails) /\ UNCHANGED loose
      <4>1. work'.pc \in Packaging \cup {"done", "failed"}
        BY <2>i, <3>1, StepCallWork
      <4>2. LooseInv' /\ FetchInv'
        BY <2>i, <3>1, <4>1, NotFetching DEF LooseInv, Has, Packaging, Staging
      <4> QED BY <2>9, <2>11, <4>2 DEF CallFails, Fetching
    <3>2. CASE FetchFails
      <4>1. work'.pc = "failed"
        BY <2>i, <3>2 DEF FetchFails, Goto, PackageInv, WorkRecords
      <4>2. FetchCutShort
        BY <3>2 DEF FetchFails, FetchCutShort
      <4>3. LooseInv' /\ FetchInv'
        BY <2>i, <4>1, <4>2, FetchCutShortLoose, NotFetching
      <4> QED BY <2>9, <2>11, <4>3 DEF CallFails, Fetching
    <3> QED BY <2>11, <3>1, <3>2 DEF CallFails
  <2>12. CASE UpstreamChanges /\ UNCHANGED <<loose, manifest, run, faults, history>>
    BY <2>1, <2>12 DEF UpstreamChanges
  <2>13. CASE UNCHANGED prepareVars
    BY <2>1, <2>13 DEF prepareVars, artifactVars, history
  <2> QED
    BY <2>3, <2>4, <2>5, <2>6, <2>7, <2>8, <2>10, <2>11, <2>12, <2>13 DEF PrepareNext, RunNext
<1> QED BY <1>1, <1>2, RunningHolds, PTL DEF PrepareSpec

LEMMA TypedPayload ==
  ASSUME NEW d, FilesTyped(d)
  PROVE  PayloadOf(d) \in DirType
<1> DEFINE names == DOMAIN d \cap Payload
           Contents == {Torn} \cup [step : Steps, version : Versions]
<1>1. PayloadOf(d) \in [names -> Contents]
  BY DEF PayloadOf, FilesTyped
<1>2. names \in SUBSET Payload
  OBVIOUS
<1> HIDE DEF names, Contents
<1>3. PayloadOf(d) \in UNION {[s -> Contents] : s \in SUBSET Payload}
  BY <1>1, <1>2
<1> QED BY <1>3 DEF DirType, Contents

\* Every reachable state is well typed; files that were cut short among it.
THEOREM TypeCorrect == PrepareSpec => []TypeOK
<1>1. Running /\ Fetching /\ FullInv => TypeOK
  <2> SUFFICES ASSUME Running, Fetching, FullInv PROVE TypeOK
    OBVIOUS
  <2>i. PackageInv /\ RunInv /\ LooseInv /\ faults \in 0..MaxFaults /\ marred \subseteq Repos
    BY DEF Running, Fetching, FullInv
  <2>1. /\ upstream \in Versions /\ work.pc \in Pcs /\ work.n \in Nat
        /\ work.left \subseteq Payload \cup AllImages
    BY <2>i DEF PackageInv, WorkRecords
  <2>2. DOMAIN final = Places
    BY <2>i DEF PackageInv, DirsInv
  <2>3. ASSUME NEW p \in Places, final[p] # Absent PROVE PayloadOf(final[p]) \in DirType
    <3>1. FilesTyped(final[p])
      BY <2>i, <2>3, KeptTyped DEF PackageInv, DirsInv
    <3> QED BY <3>1, TypedPayload
  <2>4. ASSUME NEW d \in DOMAIN temp PROVE d[1] \in Places /\ PayloadOf(temp[d]) \in DirType
    <3>1. d \in TempNames /\ FilesTyped(temp[d])
      BY <2>i DEF PackageInv, DirsInv
    <3>2. d[1] \in Places
      BY <3>1 DEF TempNames
    <3> QED BY <3>1, <3>2, TypedPayload
  <2>5. ASSUME NEW path \in LooseArtifacts
        PROVE  loose[path] \in {Torn} \cup [step : {path[2]}, version : Versions]
    <3>1. path \in DOMAIN loose /\ path[3] \in {"tar", "data"} /\ path \in LoosePaths
      BY <2>i DEF LooseArtifacts, LooseInv
    <3>2. CASE \E i \in AllImages : path = Archive(i)
      <4>1. PICK i \in AllImages : path = Archive(i)
        BY <3>2
      <4>2. path[2] = i
        BY <4>1 DEF Archive
      <4> QED BY <2>i, <3>1, <4>1, <4>2 DEF LooseInv, Has, VersionsOf
    <3>3. CASE \E s \in FileSteps : path = File(s)
      <4>1. PICK s \in FileSteps : path = File(s)
        BY <3>3
      <4>2. path[2] = Url[s]
        BY <4>1 DEF File
      <4> QED BY <2>i, <3>1, <4>1, <4>2 DEF LooseInv, Has, VersionsOf
    <3>4. path # Metas /\ \A s \in FileSteps : path # Sidecar(s) /\ path # Leftover(s)
      BY <3>1 DEF Metas, Sidecar, Leftover
    <3> QED BY <3>1, <3>2, <3>3, <3>4 DEF LoosePaths
  <2>6. run.pc \in {"idle", "clean", "step"}
    BY <2>i DEF RunInv, RunRecords
  <2> QED BY <2>i, <2>1, <2>2, <2>3, <2>4, <2>5, <2>6 DEF TypeOK, Pcs, AllImages
<1> QED BY <1>1, RunningHolds, FetchingHolds, FullHolds, PTL

-----------------------------------------------------------------------------
(* The manifest                                                            *)

RepoPath(r, f) == <<<<r, "final", 0>>, f>>

\* What the manifest says of a repository is what was prepared.
ListedRepo(r) ==
  /\ \A f \in DOMAIN prepared.repos[r] :
       /\ f \in Payload /\ RepoPath(r, f) \in DOMAIN manifest
       /\ manifest[RepoPath(r, f)] = prepared.repos[r][f]
  /\ prepared.repos[r] = [f \in DOMAIN prepared.repos[r] |-> prepared.repos[r][f]]
  /\ RepoPath(r, "Index") \in DOMAIN manifest => "Index" \in DOMAIN prepared.repos[r]

ManifestInv ==
  manifest \notin {Absent, Torn} =>
    /\ \A r \in Repos : ListedRepo(r)
    /\ DOMAIN prepared.loose = {path \in LoosePaths \cap DOMAIN manifest : path[3] \in {"tar", "data"}}
    /\ \A path \in DOMAIN prepared.loose : manifest[path] = prepared.loose[path]

\* Where the paths of the listing lead.
LEMMA ListingPaths ==
  ASSUME Running
  PROVE  /\ \A path \in LoosePaths : path \notin Outputs
         /\ \A r \in Repos : \A f \in Files :
              /\ RepoPath(r, f) \notin LoosePaths
              /\ RepoPath(r, f) \in Outputs <=> final[r] # Absent /\ f \in DOMAIN final[r]
              /\ final[r] # Absent => Content(RepoPath(r, f)) = final[r][f]
<1>1. ASSUME NEW path \in LoosePaths PROVE path \notin Outputs
  <2>1. path = <<path[1], path[2], path[3]>>
    BY DEF LoosePaths, Archive, Metas, File, Sidecar, Leftover
  <2>2. path \in Outputs => path = <<path[1], path[2]>>
    BY DEF Outputs
  <2> QED BY <2>1, <2>2
<1>2. ASSUME NEW r \in Repos, NEW f \in Files
      PROVE  /\ RepoPath(r, f) \notin LoosePaths
             /\ RepoPath(r, f) \in Outputs <=> final[r] # Absent /\ f \in DOMAIN final[r]
             /\ final[r] # Absent => Content(RepoPath(r, f)) = final[r][f]
  <2> DEFINE d == <<r, "final", 0>>
  <2>1. RepoPath(r, f) \notin LoosePaths
    BY DEF RepoPath, LoosePaths, Archive, Metas, File, Sidecar, Leftover
  <2>2. d \in Published <=> final[r] # Absent
    BY DEF Published
  <2>3. d \notin Left
    BY DEF Left, Running, PackageInv, DirsInv, TempNames
  <2>4. d \in OutputDirs <=> final[r] # Absent
    BY <2>2, <2>3 DEF OutputDirs
  <2>5. final[r] # Absent => OutputDir(d) = final[r]
    BY <2>2 DEF OutputDir
  <2>6. RepoPath(r, f)[1] = d /\ RepoPath(r, f)[2] = f /\ RepoPath(r, f) = <<d, f>>
    BY DEF RepoPath
  <2> HIDE DEF d
  <2>7. RepoPath(r, f) \in Outputs <=> d \in OutputDirs /\ f \in DOMAIN OutputDir(d)
    BY <2>6 DEF Outputs
  <2> QED BY <2>1, <2>4, <2>5, <2>6, <2>7 DEF Content
<1> QED BY <1>1, <1>2

LEMMA ListingContents ==
  ASSUME Running, Fetching
  PROVE  /\ DOMAIN Listing = Outputs \cup DOMAIN loose
         /\ \A path \in Outputs : Listing[path] = Content(path)
         /\ \A path \in LoosePaths : path \in DOMAIN Listing <=> path \in DOMAIN loose
         /\ \A path \in DOMAIN loose : Listing[path] = loose[path] /\ path \in LoosePaths
<1>1. /\ DOMAIN Listing = Outputs \cup DOMAIN loose
      /\ \A path \in Outputs : Listing[path] = Content(path)
  BY DEF Listing
<1>2. DOMAIN loose \subseteq LoosePaths
  BY DEF Fetching, LooseInv
<1>3. \A path \in LoosePaths : path \notin Outputs
  BY ListingPaths
<1>4. \A path \in DOMAIN loose : Listing[path] = loose[path]
  BY <1>2, <1>3 DEF Listing
<1> QED BY <1>1, <1>2, <1>3, <1>4

\* A manifest that is neither missing nor torn lists what was prepared with it.
THEOREM ManifestHolds == PrepareSpec => []ManifestInv
<1>1. PrepareInit => ManifestInv
  BY DEF PrepareInit, ManifestInv
<1>2. Running /\ Fetching /\ ManifestInv /\ [PrepareNext]_prepareVars => ManifestInv'
  <2> SUFFICES ASSUME Running, Fetching, ManifestInv, [PrepareNext]_prepareVars
               PROVE  ManifestInv'
    OBVIOUS
  <2>1. ASSUME UNCHANGED prepared, manifest' \in {manifest, Torn} PROVE ManifestInv'
    BY <2>1 DEF ManifestInv, ListedRepo
  <2>2. CASE WriteManifest
    <3>1. manifest' = Listing /\ prepared' = Artifacts
      BY <2>2 DEF WriteManifest
    <3>2. /\ prepared'.repos = [r \in Repos |-> RepoContent(r)]
          /\ prepared'.loose = Only(loose, LooseArtifacts)
      BY <3>1 DEF Artifacts
    <3>3. ASSUME NEW r \in Repos PROVE ListedRepo(r)'
      <4> DEFINE d == RepoContent(r)
      <4>1. prepared'.repos[r] = d
        BY <3>2
      <4>2. /\ d = [f \in DOMAIN d |-> d[f]] /\ DOMAIN d \subseteq Payload
            /\ \A f \in DOMAIN d : final[r] # Absent /\ f \in DOMAIN final[r] /\ d[f] = final[r][f]
        <5>1. CASE final[r] = Absent
          <6>1. d = Empty
            BY <5>1 DEF RepoContent
          <6> QED BY <6>1 DEF Empty
        <5>2. CASE final[r] # Absent
          <6>1. d = [f \in DOMAIN final[r] \cap Payload |-> final[r][f]]
            BY <5>2 DEF RepoContent, PayloadOf
          <6> HIDE DEF d
          <6> QED BY <5>2, <6>1
        <5> QED BY <5>1, <5>2
      <4>3. \A f \in Payload : final[r] # Absent /\ f \in DOMAIN final[r] => f \in DOMAIN d
        BY DEF RepoContent, PayloadOf
      <4> HIDE DEF d
      <4>4. ASSUME NEW f \in DOMAIN d
            PROVE  /\ f \in Payload /\ RepoPath(r, f) \in DOMAIN manifest'
                   /\ manifest'[RepoPath(r, f)] = d[f]
        <5>1. f \in Payload /\ f \in Files
          BY <4>2 DEF Files
        <5>2. RepoPath(r, f) \in Outputs /\ Content(RepoPath(r, f)) = d[f]
          BY <4>2, <5>1, ListingPaths
        <5> QED BY <3>1, <5>1, <5>2, ListingContents
      <4>5. RepoPath(r, "Index") \in DOMAIN manifest' => "Index" \in DOMAIN d
        <5>1. "Index" \in Payload /\ "Index" \in Files
          BY DEF Files, Payload
        <5>2. RepoPath(r, "Index") \in DOMAIN manifest' => RepoPath(r, "Index") \in Outputs
          BY <3>1, <5>1, ListingPaths, ListingContents
        <5> QED BY <4>3, <5>1, <5>2, ListingPaths
      <4> QED BY <4>1, <4>2, <4>4, <4>5 DEF ListedRepo
    <3>4. DOMAIN prepared'.loose = LooseArtifacts
          /\ \A path \in LooseArtifacts : prepared'.loose[path] = loose[path]
      BY <3>2 DEF Only
    <3>5. DOMAIN prepared'.loose = {path \in LoosePaths \cap DOMAIN manifest' : path[3] \in {"tar", "data"}}
      <4>1. \A path : path \in LoosePaths \cap DOMAIN manifest' <=> path \in DOMAIN loose
        BY <3>1, ListingContents
      <4> QED BY <3>4, <4>1 DEF LooseArtifacts
    <3>6. \A path \in DOMAIN prepared'.loose : manifest'[path] = prepared'.loose[path]
      BY <3>1, <3>4, ListingContents DEF LooseArtifacts
    <3> QED BY <3>3, <3>5, <3>6 DEF ManifestInv
  <2>3. CASE \E w \in Workflows, refresh, clean \in BOOLEAN : Start(w, refresh, clean)
    BY <2>1, <2>3 DEF Start
  <2>4. CASE Clean \/ RunStep \/ InStep \/ StepDone \/ RetryStep \/ GiveUp
    BY <2>1, <2>4 DEF Clean, RunStep, InStep, StepDone, RetryStep, GiveUp, history
  <2>5. CASE Kill
    BY <2>1, <2>5 DEF Kill
  <2>6. CASE CallFails
    BY <2>1, <2>6 DEF CallFails, history
  <2>7. CASE UpstreamChanges /\ UNCHANGED <<loose, manifest, run, faults, history>>
    BY <2>1, <2>7 DEF history
  <2>8. CASE UNCHANGED prepareVars
    BY <2>1, <2>8 DEF prepareVars, history
  <2> QED BY <2>2, <2>3, <2>4, <2>5, <2>6, <2>7, <2>8 DEF PrepareNext, RunNext
<1> QED BY <1>1, <1>2, RunningHolds, FetchingHolds, PTL DEF PrepareSpec

\* A workspace that passes the check holds the repositories, image archives and
\* files of the last run that completed, whatever run was killed, cut short while
\* it cleaned, or failed since; and no other repository or image archive.
THEOREM VerifiedWorkspaceIsPrepared == PrepareSpec => []VerifiedIsPrepared
<1>1. Running /\ Fetching /\ ManifestInv => VerifiedIsPrepared
  <2> SUFFICES ASSUME Running, Fetching, ManifestInv, Verifies PROVE
               /\ \A r \in Repos :
                    /\ prepared.repos[r] \in Parts(RepoContent(r))
                    /\ final[r] # Absent => "Index" \in DOMAIN prepared.repos[r]
               /\ \A path \in DOMAIN prepared.loose : Has(path) /\ loose[path] = prepared.loose[path]
               /\ \A path \in LooseArtifacts \ DOMAIN prepared.loose : path[3] = "data"
    BY DEF VerifiedIsPrepared
  <2>i. /\ \A r \in Repos : ListedRepo(r)
        /\ DOMAIN prepared.loose = {path \in LoosePaths \cap DOMAIN manifest : path[3] \in {"tar", "data"}}
        /\ \A path \in DOMAIN prepared.loose : manifest[path] = prepared.loose[path]
    BY DEF ManifestInv, Verifies
  <2>v. /\ \A path \in DOMAIN manifest : path \in DOMAIN Listing /\ Listing[path] = manifest[path]
        /\ \A d \in OutputDirs : <<d, "Index">> \in Outputs \cap DOMAIN manifest
        /\ \A s \in ImageSteps : \A i \in Images[s] : Has(Archive(i)) => Archive(i) \in DOMAIN manifest
    BY DEF Verifies, Intact, Covered
  <2>1. ASSUME NEW r \in Repos PROVE prepared.repos[r] \in Parts(RepoContent(r))
    <3> DEFINE d == prepared.repos[r]
    <3>1. /\ d = [f \in DOMAIN d |-> d[f]]
          /\ \A f \in DOMAIN d : /\ f \in Payload /\ RepoPath(r, f) \in DOMAIN manifest
                                /\ manifest[RepoPath(r, f)] = d[f]
      BY <2>i DEF ListedRepo
    <3> HIDE DEF d
    <3>2. ASSUME NEW f \in DOMAIN d
          PROVE  f \in DOMAIN RepoContent(r) /\ RepoContent(r)[f] = d[f]
      <4>1. f \in Payload /\ f \in Files
        BY <3>1 DEF Files
      <4>2. RepoPath(r, f) \in DOMAIN Listing /\ Listing[RepoPath(r, f)] = d[f]
        BY <2>v, <3>1
      <4>3. RepoPath(r, f) \in Outputs /\ Content(RepoPath(r, f)) = d[f]
        <5>1. RepoPath(r, f) \notin LoosePaths
          BY <4>1, ListingPaths
        <5> QED BY <4>2, <5>1, ListingContents
      <4>4. final[r] # Absent /\ f \in DOMAIN final[r] /\ final[r][f] = d[f]
        BY <4>1, <4>3, ListingPaths
      <4> QED BY <4>1, <4>4 DEF RepoContent, PayloadOf
    <3>3. d = Only(RepoContent(r), DOMAIN d)
      BY <3>1, <3>2 DEF Only
    <3>4. DOMAIN d \in SUBSET DOMAIN RepoContent(r)
      BY <3>2
    <3>5. d \in Parts(RepoContent(r))
      BY <3>3, <3>4 DEF Parts
    <3> QED BY <3>5 DEF d
  <2>2. ASSUME NEW r \in Repos, final[r] # Absent PROVE "Index" \in DOMAIN prepared.repos[r]
    <3>1. <<r, "final", 0>> \in OutputDirs
      BY <2>2 DEF OutputDirs, Published
    <3>2. RepoPath(r, "Index") \in DOMAIN manifest
      BY <2>v, <3>1 DEF RepoPath
    <3> QED BY <2>i, <3>2 DEF ListedRepo
  <2>3. ASSUME NEW path \in DOMAIN prepared.loose
        PROVE  Has(path) /\ loose[path] = prepared.loose[path]
    <3>1. path \in LoosePaths /\ path \in DOMAIN manifest
      BY <2>i
    <3>2. path \in DOMAIN Listing /\ Listing[path] = prepared.loose[path]
      BY <2>i, <2>v, <3>1
    <3>3. path \in DOMAIN loose
      BY <3>1, <3>2, ListingContents
    <3>4. Listing[path] = loose[path]
      BY <3>3, ListingContents
    <3> QED BY <3>2, <3>3, <3>4 DEF Has
  <2>4. ASSUME NEW path \in LooseArtifacts \ DOMAIN prepared.loose PROVE path[3] = "data"
    <3>1. path \in DOMAIN loose /\ path \in LoosePaths /\ path[3] \in {"tar", "data"}
      BY ListingContents DEF LooseArtifacts
    <3>2. SUFFICES ASSUME path[3] = "tar" PROVE FALSE
      BY <3>1
    <3>3. PICK i \in AllImages : path = Archive(i)
      BY <3>1, <3>2 DEF LoosePaths, Metas, File, Sidecar, Leftover
    <3>4. path \in DOMAIN manifest
      BY <2>v, <3>1, <3>3 DEF AllImages, Has
    <3> QED BY <2>i, <3>1, <3>4
  <2> QED BY <2>1, <2>2, <2>3, <2>4
<1> QED BY <1>1, RunningHolds, FetchingHolds, ManifestHolds, PTL

-----------------------------------------------------------------------------
(* What a run has got                                                      *)

\* What the step asks for is there, and, with --refresh, no older than the run. A
\* file is no older either if the server could be asked.
RepoGot(asked, s) ==
  LET index == final[Repo[s]]["Index"] IN
  /\ final[Repo[s]] # Absent
  /\ Packages[index.step] = Packages[s]
  /\ asked.refresh => index.step = s /\ index # Torn /\ index.version >= asked.since

ImageGot(asked, image) ==
  /\ Has(Archive(image)) /\ loose[Archive(image)] # Torn
  /\ asked.refresh => loose[Archive(image)].version >= asked.since

FileNew(asked, s) ==
  Has(File(s)) /\ loose[File(s)] # Torn /\ loose[File(s)].version >= asked.since

FileGot(asked, s) ==
  /\ Has(File(s)) /\ loose[File(s)] # Torn /\ Has(Sidecar(s))
  /\ asked.refresh \/ (s \notin Offline /\ loose[Sidecar(s)].validators)
       => loose[File(s)].version >= asked.since

Got(asked, s) ==
  /\ s \in Steps => RepoGot(asked, s)
  /\ s \in ImageSteps => \A image \in Images[s] : ImageGot(asked, image)
  /\ s \in FileSteps => FileGot(asked, s)

\* A later step publishes under the same name; the current step is to pull the
\* image again.
Superseded(w, i) == \E j \in DOMAIN w : j > i /\ w[j] \in Steps /\ Repo[w[j]] = Repo[w[i]]

Pending(image) ==
  /\ run.at \in DOMAIN run.workflow
  /\ run.workflow[run.at] \in ImageSteps /\ image \in Images[run.workflow[run.at]]

SoFar ==
  run.pc = "step" =>
    \A i \in DOMAIN run.workflow : i < run.at =>
      /\ run.workflow[i] \in Steps =>
           RepoGot(run, run.workflow[i]) \/ Superseded(run.workflow, i)
      /\ run.workflow[i] \in ImageSteps =>
           \A image \in Images[run.workflow[i]] : ImageGot(run, image) \/ Pending(image)
      /\ run.workflow[i] \in FileSteps => FileGot(run, run.workflow[i])

RepoInHand ==
  work.pc \in Staging /\ work.refresh =>
    (IF ToCache THEN work.version ELSE final[work.step]["Index"].version) >= run.since

FetchInHand ==
  /\ work.pc \in {"images", "pull", "metas"} =>
       \A image \in Images[work.step] \ work.left : ImageGot(run, image)
  /\ At("metas") => ImageGot(run, Image)
  /\ At("rename") => work.version >= run.since
  /\ At("sidecar") => FileNew(run, work.step)

InHand ==
  run.pc = "step" => RepoInHand /\ FetchInHand /\ (At("done") => Got(run, work.step))

SinceInv ==
  /\ run.since <= upstream
  /\ run.pc = "clean" => run.at = 1
  /\ run.pc # "idle" => last = Nothing

GotInv == SinceInv /\ PreparedAsAsked /\ SoFar /\ InHand

LEMMA WholeArtifact ==
  ASSUME NEW x \in Steps \cup AllImages \cup Urls, NEW v \in Versions
  PROVE  Artifact(x, v) # Torn
<1>1. x \in Steps \cup Urls \cup UNION {Images[i] : i \in ImageSteps}
  BY DEF AllImages
<1> QED BY <1>1, TornAssumption DEF TornAssumption

LEMMA NotTorn ==
  ASSUME NEW x \in Steps \cup AllImages \cup Urls, NEW c \in VersionsOf(x)
  PROVE  c # Torn /\ c.version \in Versions
<1>1. c.version \in Versions /\ c = Artifact(x, c.version)
  BY DEF VersionsOf, Artifact
<1>2. Artifact(x, c.version) # Torn
  BY <1>1, WholeArtifact
<1> QED BY <1>1, <1>2

\* The steps so far keep what they got unless the current step is to get it
\* again.
LEMMA SoFarStays ==
  ASSUME SoFar, RunInv, UNCHANGED run,
         \A r \in Repos : \/ final'[r] = final[r]
                          \/ /\ run.at \in DOMAIN run.workflow
                             /\ run.workflow[run.at] \in Steps
                             /\ Repo[run.workflow[run.at]] = r,
         \A image \in AllImages : ImageGot(run, image) => ImageGot(run, image)' \/ Pending(image),
         \A s \in FileSteps : FileGot(run, s) => FileGot(run, s)'
  PROVE  SoFar'
<1> SUFFICES ASSUME run.pc = "step", NEW i \in DOMAIN run.workflow, i < run.at
             PROVE  /\ run.workflow[i] \in Steps =>
                         RepoGot(run, run.workflow[i])' \/ Superseded(run.workflow, i)
                    /\ run.workflow[i] \in ImageSteps =>
                         \A image \in Images[run.workflow[i]] :
                           ImageGot(run, image)' \/ Pending(image)
                    /\ run.workflow[i] \in FileSteps => FileGot(run, run.workflow[i])'
  BY DEF SoFar, Pending, Superseded
<1> DEFINE s == run.workflow[i]
<1>1. /\ s \in Steps => RepoGot(run, s) \/ Superseded(run.workflow, i)
      /\ s \in ImageSteps => \A image \in Images[s] : ImageGot(run, image) \/ Pending(image)
      /\ s \in FileSteps => FileGot(run, s)
  BY DEF SoFar
<1>2. ASSUME s \in Steps PROVE RepoGot(run, s)' \/ Superseded(run.workflow, i)
  <2>1. CASE final'[Repo[s]] = final[Repo[s]]
    BY <1>1, <1>2, <2>1 DEF RepoGot
  <2>2. CASE final'[Repo[s]] # final[Repo[s]]
    <3>1. /\ run.at \in DOMAIN run.workflow /\ run.workflow[run.at] \in Steps
          /\ Repo[run.workflow[run.at]] = Repo[s]
      BY <1>2, <2>2, Places2
    <3>2. run.at > i
      BY WorkflowSeq DEF RunInv, RunRecords
    <3> QED BY <3>1, <3>2 DEF Superseded
  <2> QED BY <2>1, <2>2
<1>3. ASSUME s \in ImageSteps, NEW image \in Images[s] PROVE ImageGot(run, image)' \/ Pending(image)
  <2>1. image \in AllImages
    BY <1>3 DEF AllImages
  <2> QED BY <1>1, <1>3, <2>1
<1>4. s \in FileSteps => FileGot(run, s)'
  BY <1>1
<1> QED BY <1>2, <1>3, <1>4

\* The package step changes no repository but its own, and no file.
LEMMA FinalElsewhere ==
  ASSUME PackageInv, StepCall \/ StepFails \/ InstallFails \/ DropFails,
         NEW r \in Repos, r # Repo[work.step]
  PROVE  final'[r] = final[r]
<1>1. r \in Places /\ DOMAIN final = Places /\ r \notin Steps
  BY Places2 DEF PackageInv, DirsInv
<1>2. ASSUME work.pc \in Staging PROVE r # work.to
  <2>1. ToCache => work.to \in Steps
    BY DEF ToCache
  <2> QED BY <1>1, <1>2, <2>1, SourceIsExport
<1>3. CASE TryReuse \/ TryCache \/ RunContainer \/ MakeStage \/ CopyFile \/ SaveCacheMeta \/ DropOld
  BY <1>3 DEF TryReuse, TryCache, RunContainer, MakeStage, CopyFile, SaveCacheMeta, DropOld
<1>4. CASE SetAside
  BY <1>1, <1>2, <1>4 DEF SetAside, At, Staging
<1>5. CASE Install
  BY <1>1, <1>2, <1>5 DEF Install, At, Staging
<1>6. CASE RecordRepo
  BY <1>1, <1>2, <1>6 DEF RecordRepo, At, Staging
<1>7. CASE StepFails
  <2>1. CASE UNCHANGED final
    BY <2>1
  <2>2. CASE At("record") /\ CutShort
    BY <1>1, <1>2, <2>2 DEF CutShort, At, Staging
  <2> QED BY <1>7, <2>1, <2>2 DEF StepFails
<1>8. CASE InstallFails
  BY <1>1, <1>2, <1>8 DEF InstallFails, At, Staging
<1>9. CASE DropFails
  BY <1>9 DEF DropFails
<1> QED BY <1>3, <1>4, <1>5, <1>6, <1>7, <1>8, <1>9 DEF StepCall

\* The index of a repository and of a cache entry.
LEMMA Indexes ==
  ASSUME NEW s \in Steps, NEW v \in Versions
  PROVE  /\ Entry(s, v)["Index"] = Artifact(s, v)
         /\ \A c : With(Export(s, v), "meta", c)["Index"] = Artifact(s, v)
<1>1. /\ "Index" \in DOMAIN Export(s, v) /\ Export(s, v)["Index"] = Artifact(s, v)
      /\ "Index" # "meta"
  BY DEF Export
<1>2. ASSUME NEW c PROVE With(Export(s, v), "meta", c)["Index"] = Artifact(s, v)
  BY <1>1 DEF With
<1> QED BY <1>2 DEF Entry

\* A published repository whose record asks for the same packages will do.
LEMMA ReusedGot ==
  ASSUME PackageInv, RunInv, run.pc = "step", TryReuse, work'.pc = "done"
  PROVE  RepoGot(run, work.step)
<1> DEFINE d == final[Repo[work.step]]
<1>1. work.step \in Steps /\ ~run.refresh
  BY DEF TryReuse, At, PackageInv, TargetInv, Packaging, Goto, WorkRecords, RunInv
<1>2. d # Absent /\ "meta" \in DOMAIN d /\ d["meta"] # Torn /\ ReusableFor(d, work.step)
  BY DEF TryReuse, HasMeta, Goto, PackageInv, WorkRecords
<1>3. PICK s \in Steps : \E v \in Versions : RepoOf(d, s, v)
  BY <1>1, <1>2, Places2 DEF PackageInv, DirsInv, Kept
<1>4. PICK v \in Versions : RepoOf(d, s, v)
  BY <1>3
<1> HIDE DEF d
<1>5. d["meta"] = Meta(s, Export(s, v))
  BY <1>2, <1>4 DEF RepoOf
<1>6. Packages[s] = Packages[work.step] /\ \A f \in DOMAIN Export(s, v) : d[f] = Export(s, v)[f]
  BY <1>2, <1>5 DEF ReusableFor, Meta
<1>7. d["Index"] = Artifact(s, v)
  BY <1>6 DEF Export
<1>8. d["Index"].step = s
  BY <1>7 DEF Artifact
<1> QED BY <1>1, <1>2, <1>6, <1>8 DEF RepoGot, d

\* What is recorded last is what the step has exported, or had in the cache.
LEMMA RecordedGot ==
  ASSUME PackageInv, RunInv, RepoInHand, run.pc = "step", UNCHANGED run, RecordRepo
  PROVE  RepoGot(run, work.step)'
<1>1. /\ work.pc = "record" /\ work.pc \in Staging /\ ~ToCache /\ final[work.to] = Staged
  BY DEF RecordRepo, At, Staging, PackageInv, StagedInv
<1>2. work.step \in Steps /\ work.to = Repo[work.step] /\ work.to \in Places
  BY <1>1, SourceIsExport
<1>3. PICK v \in Versions : /\ Source = Export(work.step, v)
                            /\ final[work.step] = Entry(work.step, v)
  BY <1>1, SourceIsExport
<1>4. final[work.to] = Export(work.step, v)
  BY <1>1, <1>3 DEF Staged
<1>5. PayloadOf(Export(work.step, v)) = Export(work.step, v)
  BY <1>2, Exports
<1> DEFINE d == With(Export(work.step, v), "meta", Meta(work.step, Export(work.step, v)))
<1>6. final'[Repo[work.step]] = d
  BY <1>2, <1>4, <1>5 DEF RecordRepo, PackageInv, DirsInv
<1>7. d # Absent
  BY <1>2, AbsentAssumption DEF AbsentAssumption
<1>8. d["Index"] = Artifact(work.step, v) /\ final[work.step]["Index"] = Artifact(work.step, v)
  BY <1>2, <1>3, Indexes DEF Entry
<1>9. Artifact(work.step, v) # Torn
  BY <1>2, TornAssumption DEF TornAssumption
<1>10. Artifact(work.step, v).step = work.step /\ Artifact(work.step, v).version = v
  BY DEF Artifact
<1>11. run.refresh => v >= run.since
  <2>1. work.refresh = run.refresh
    BY <1>1 DEF RunInv
  <2> QED BY <1>1, <1>8, <1>10, <2>1 DEF RepoInHand
<1>12. work'.step = work.step
  BY DEF RecordRepo, Goto, PackageInv, WorkRecords
<1> HIDE DEF d
<1> QED BY <1>6, <1>7, <1>8, <1>9, <1>10, <1>11, <1>12 DEF RepoGot
\* A call that keeps its target keeps what it is bringing there.
LEMMA InHandStays ==
  ASSUME PackageInv, RepoInHand, UNCHANGED run, work.pc \in Staging,
         work'.to = work.to, work'.version = work.version, work'.refresh = work.refresh,
         work'.step = work.step,
         \A p \in Places : p # work.to => final'[p] = final[p]
  PROVE  RepoInHand'
<1>1. ToCache' = ToCache
  BY DEF ToCache
<1>2. ~ToCache => work.step # work.to /\ work.step \in Places
  BY Places2 DEF PackageInv, TargetInv, Packaging, ToCache
<1>3. ~ToCache => final'[work.step] = final[work.step]
  BY <1>2
<1> QED BY <1>1, <1>3 DEF RepoInHand

LEMMA PackageInHand ==
  ASSUME PackageInv, RunInv, SinceInv, RepoInHand, run.pc = "step", UNCHANGED run,
         StepCall \/ DropFails
  PROVE  RepoInHand' /\ FetchInHand' /\ (At("done")' => Got(run, work.step)')
<1>1. /\ work'.step = work.step /\ work'.refresh = work.refresh /\ work.pc \in Packaging
      /\ work'.pc \in Packaging \cup {"done", "failed"}
  BY StepCallWork
<1>2. FetchInHand'
  BY <1>1 DEF FetchInHand, At, Packaging, Staging
<1>3. work.step \in Steps
  BY <1>1 DEF PackageInv, TargetInv
<1>4. RepoGot(run, work.step)' => Got(run, work.step)'
  BY <1>1, <1>3, FetchedAssumption DEF FetchedAssumption, Got
<1>w. work \in WorkRecords /\ DOMAIN final = Places
  BY DEF PackageInv, DirsInv
<1>5. ASSUME work'.pc \notin Staging PROVE RepoInHand'
  BY <1>5 DEF RepoInHand
<1>6. CASE TryReuse
  <2>1. work'.pc \in {"cache", "failed", "done"} /\ UNCHANGED final
    BY <1>6, <1>w DEF TryReuse, Goto, WorkRecords
  <2>2. work'.pc = "done" => RepoGot(run, work.step)'
    <3>1. work'.pc = "done" => RepoGot(run, work.step)
      BY <1>6, ReusedGot
    <3> QED BY <1>1, <2>1, <3>1 DEF RepoGot
  <2> QED BY <1>2, <1>4, <1>5, <2>1, <2>2 DEF At, Staging
<1>7. CASE TryCache
  <2>1. \/ work'.pc \in {"export", "failed"}
        \/ work'.pc = "stage" /\ ~work'.refresh
    BY <1>7, <1>w DEF TryCache, Goto, WorkRecords
  <2> QED BY <1>2, <2>1 DEF RepoInHand, At, Staging
<1>8. CASE RunContainer
  <2>1. work'.pc = "stage" /\ work'.to = work.step /\ work'.version = upstream
    BY <1>8, <1>w DEF RunContainer, WorkRecords
  <2>2. ToCache'
    BY <1>3, <2>1 DEF ToCache
  <2> QED BY <1>2, <2>1, <2>2 DEF RepoInHand, At, SinceInv
<1>9. CASE MakeStage
  <2>1. /\ work.pc \in Staging /\ work'.to = work.to /\ work'.version = work.version
        /\ UNCHANGED final /\ work'.pc = "copy"
    BY <1>9, <1>w DEF MakeStage, At, Staging, WorkRecords
  <2> QED BY <1>1, <1>2, <2>1, InHandStays DEF At
<1>10. CASE CopyFile
  <2>1. work.pc \in Staging /\ UNCHANGED final
    BY <1>10 DEF CopyFile, At, Staging
  <2>2. CASE work' = [work EXCEPT !.left = {}, !.pc = IF ToCache THEN "meta" ELSE "backup"]
    <3>1. work'.to = work.to /\ work'.version = work.version /\ work'.pc \in {"meta", "backup"}
      BY <1>w, <2>2 DEF WorkRecords
    <3> QED BY <1>1, <1>2, <2>1, <3>1, InHandStays DEF At
  <2>3. CASE work' = [work EXCEPT !.left = @ \ {NextFile}]
    <3>1. work'.to = work.to /\ work'.version = work.version /\ work'.pc = "copy"
      BY <1>10, <1>w, <2>3 DEF WorkRecords, CopyFile, At
    <3> QED BY <1>1, <1>2, <2>1, <3>1, InHandStays DEF At
  <2> QED BY <1>10, <2>2, <2>3 DEF CopyFile
<1>11. CASE SaveCacheMeta
  <2>1. /\ work.pc \in Staging /\ work'.to = work.to /\ work'.version = work.version
        /\ UNCHANGED final /\ work'.pc = "backup"
    BY <1>11, <1>w DEF SaveCacheMeta, Goto, At, Staging, WorkRecords
  <2> QED BY <1>1, <1>2, <2>1, InHandStays DEF At
<1>12. CASE SetAside
  <2>1. /\ work.pc \in Staging /\ work'.to = work.to /\ work'.version = work.version
        /\ work'.pc = "install" /\ \A p \in Places : p # work.to => final'[p] = final[p]
    BY <1>12, <1>w DEF SetAside, At, Staging, WorkRecords
  <2> QED BY <1>1, <1>2, <2>1, InHandStays DEF At
<1>13. CASE Install
  <2>1. /\ work.pc \in Staging /\ work'.to = work.to /\ work'.version = work.version
        /\ work'.pc = "drop" /\ \A p \in Places : p # work.to => final'[p] = final[p]
    BY <1>13, <1>w DEF Install, Goto, At, Staging, WorkRecords
  <2> QED BY <1>1, <1>2, <2>1, InHandStays DEF At
<1>14. CASE (DropOld \/ DropFails) /\ ToCache
  <2>1. /\ work.pc = "drop" /\ UNCHANGED final /\ work'.pc = "stage"
        /\ work'.to = Repo[work.step] /\ work.version \in Versions
    BY <1>14, <1>w DEF DropOld, DropFails, GoOn, At, WorkRecords, PackageInv, TargetInv, Staging
  <2>2. work.to = work.step /\ final[work.step] = Entry(work.step, work.version)
    BY <1>3, <1>14, <2>1, Places2
       DEF PackageInv, TargetInv, StagedInv, Staged, ToCache, At, Staging
  <2>3. final[work.step]["Index"].version = work.version
    <3>1. Entry(work.step, work.version)["Index"] = Artifact(work.step, work.version)
      BY <1>3, <2>1, Indexes
    <3> QED BY <2>2, <3>1 DEF Artifact
  <2>4. ~ToCache'
    BY <1>3, <2>1, Places2 DEF ToCache
  <2> QED BY <1>1, <1>2, <1>14, <2>1, <2>3, <2>4 DEF RepoInHand, At, Staging
<1>15. CASE (DropOld \/ DropFails) /\ ~ToCache
  <2>1. /\ UNCHANGED final /\ work.pc \in Staging /\ work'.pc = "record"
        /\ work'.to = work.to /\ work'.version = work.version
    BY <1>15, <1>w DEF DropOld, DropFails, GoOn, At, Staging, WorkRecords
  <2> QED BY <1>1, <1>2, <2>1, InHandStays DEF At
<1>16. CASE RecordRepo
  <2>1. work'.pc = "done"
    BY <1>16, <1>w DEF RecordRepo, Goto, WorkRecords
  <2> QED BY <1>2, <1>4, <1>5, <1>16, <2>1, RecordedGot DEF Staging
<1> QED BY <1>6, <1>7, <1>8, <1>9, <1>10, <1>11, <1>12, <1>13, <1>14, <1>15, <1>16 DEF StepCall
\* A change to one file is none to what the others hold.
LEMMA OthersGot ==
  ASSUME UNCHANGED run, NEW path,
         \A q \in DOMAIN loose : q # path => q \in DOMAIN loose' /\ loose'[q] = loose[q]
  PROVE  /\ \A i : path # Archive(i) /\ ImageGot(run, i) => ImageGot(run, i)'
         /\ \A s : path # File(s) /\ path # Sidecar(s) /\ FileGot(run, s) => FileGot(run, s)'
         /\ \A s : path # File(s) /\ FileNew(run, s) => FileNew(run, s)'
BY DEF ImageGot, FileGot, FileNew, Has

LEMMA Written ==
  ASSUME NEW path, NEW c, loose' = With(loose, path, c)
  PROVE  /\ path \in DOMAIN loose' /\ loose'[path] = c
         /\ \A q \in DOMAIN loose : q # path => q \in DOMAIN loose' /\ loose'[q] = loose[q]
BY DEF With

\* An image that is left is one of those the current step is to get.
LEMMA ImagePending ==
  ASSUME PackageInv, RunInv, FetchInv, run.pc = "step",
         work.pc \in {"images", "pull", "metas"}, work.left # {}
  PROVE  /\ Pending(Image) /\ Image \in AllImages /\ Image \in work.left
         /\ work.step \in ImageSteps /\ work.left \subseteq Images[work.step]
         /\ Image \in Images[work.step]
<1>1. Image \in work.left /\ Image \in AllImages
  BY ImageLeft
<1>2. work.step \in ImageSteps /\ work.left \subseteq Images[work.step]
  BY DEF FetchInv
<1>3. run.at \in DOMAIN run.workflow /\ work.step = run.workflow[run.at]
  BY DEF RunInv
<1> QED BY <1>1, <1>2, <1>3 DEF Pending

\* What the current step is not to get again stays.
Keeps ==
  /\ \A image \in AllImages : ImageGot(run, image) => ImageGot(run, image)' \/ Pending(image)
  /\ \A s \in FileSteps : FileGot(run, s) => FileGot(run, s)'

LEMMA UnchangedGot ==
  ASSUME UNCHANGED <<loose, run>>
  PROVE  /\ Keeps
         /\ \A i : ImageGot(run, i)' = ImageGot(run, i)
         /\ \A s : FileGot(run, s)' = FileGot(run, s)
BY DEF Keeps, ImageGot, FileGot, Has

LEMMA NextImageGot ==
  ASSUME PackageInv, LooseInv, FetchInv, RunInv, FetchInHand, run.pc = "step",
         UNCHANGED run, NextImage
  PROVE  FetchInHand' /\ Keeps
<1>1. work.pc = "images" /\ work.left # {}
  BY DEF NextImage, At
<1>2. /\ Pending(Image) /\ Image \in AllImages /\ Image \in work.left
      /\ work.step \in ImageSteps /\ Image \in Images[work.step]
  BY <1>1, ImagePending
<1>3. \A image \in Images[work.step] \ work.left : ImageGot(run, image)
  BY <1>1 DEF FetchInHand
<1>4. CASE ImageReusable
  <2>1. /\ work'.pc = "images" /\ work'.step = work.step /\ work'.left = work.left \ {Image}
        /\ UNCHANGED loose
    BY <1>1, <1>4 DEF NextImage, PackageInv, WorkRecords
  <2>2. ~run.refresh
    BY <1>1, <1>4 DEF ImageReusable, RunInv
  <2>3. Recorded[Image] \in VersionsOf(Image)
    <3>1. Image \in DOMAIN Recorded
      BY <1>4 DEF ImageReusable
    <3>2. Recorded # Empty
      BY <3>1 DEF Empty
    <3> QED BY <3>1, <3>2 DEF Recorded, LooseInv
  <2>4. Recorded[Image] # Torn
    BY <1>2, <2>3, NotTorn
  <2>5. ImageGot(run, Image)
    BY <1>4, <2>2, <2>4 DEF ImageReusable, ImageGot
  <2>6. \A image \in Images[work.step] \ work'.left : ImageGot(run, image)
    BY <1>3, <2>1, <2>5
  <2>7. \A i : ImageGot(run, i)' = ImageGot(run, i)
    BY <2>1, UnchangedGot
  <2>8. FetchInHand'
    BY <2>1, <2>6, <2>7 DEF FetchInHand, At
  <2> QED BY <2>1, <2>8, UnchangedGot
<1>5. CASE ~ImageReusable
  <2>1. /\ work'.pc = "pull" /\ work'.step = work.step /\ work'.left = work.left
        /\ loose' = Without(loose, Archive(Image))
    BY <1>1, <1>5 DEF NextImage, Goto, PackageInv, WorkRecords
  <2>2. \A q \in DOMAIN loose : q # Archive(Image) => q \in DOMAIN loose' /\ loose'[q] = loose[q]
    BY <2>1 DEF Without
  <2>3. /\ \A i : Archive(Image) # Archive(i) /\ ImageGot(run, i) => ImageGot(run, i)'
        /\ \A s : Archive(Image) # File(s) /\ Archive(Image) # Sidecar(s) /\ FileGot(run, s) => FileGot(run, s)'
    BY <2>2, OthersGot
  <2>4. /\ \A i : i # Image /\ ImageGot(run, i) => ImageGot(run, i)'
        /\ \A s : FileGot(run, s) => FileGot(run, s)'
    BY <2>3, LooseNames
  <2>5. FetchInHand'
    <3>1. \A image \in Images[work.step] \ work.left : ImageGot(run, image)'
      BY <1>2, <1>3, <2>4
    <3> QED BY <2>1, <3>1 DEF FetchInHand, At
  <2> QED BY <1>2, <2>4, <2>5 DEF Keeps
<1> QED BY <1>4, <1>5

LEMMA PullImageGot ==
  ASSUME PackageInv, LooseInv, FetchInv, RunInv, SinceInv, FetchInHand, run.pc = "step",
         UNCHANGED run, PullImage
  PROVE  FetchInHand' /\ Keeps
<1>1. work.pc = "pull" /\ work.left # {}
  BY DEF PullImage, At, FetchInv
<1>2. Pending(Image) /\ Image \in AllImages /\ Image \in work.left /\ Image \in Images[work.step]
  BY <1>1, ImagePending
<1>3. \A image \in Images[work.step] \ work.left : ImageGot(run, image)
  BY <1>1 DEF FetchInHand
<1>4. work'.pc = "metas" /\ work'.step = work.step /\ work'.left = work.left
  BY DEF PullImage, Goto, PackageInv, WorkRecords
<1>5. Image' = Image
  BY <1>4 DEF Image
<1>6. loose' = With(loose, Archive(Image), Artifact(Image, upstream))
  BY DEF PullImage
<1>7. /\ Archive(Image) \in DOMAIN loose' /\ loose'[Archive(Image)] = Artifact(Image, upstream)
      /\ \A q \in DOMAIN loose : q # Archive(Image) => q \in DOMAIN loose' /\ loose'[q] = loose[q]
  BY <1>6, Written
<1>8. /\ \A i : Archive(Image) # Archive(i) /\ ImageGot(run, i) => ImageGot(run, i)'
      /\ \A s : Archive(Image) # File(s) /\ Archive(Image) # Sidecar(s) /\ FileGot(run, s) => FileGot(run, s)'
  BY <1>7, OthersGot
<1>9. /\ \A i : i # Image /\ ImageGot(run, i) => ImageGot(run, i)'
      /\ \A s : FileGot(run, s) => FileGot(run, s)'
  BY <1>8, LooseNames
<1>10. ImageGot(run, Image)'
  <2>1. Artifact(Image, upstream) # Torn
    BY <1>2, TornAssumption DEF TornAssumption, AllImages, PackageInv
  <2>2. Artifact(Image, upstream).version = upstream
    BY DEF Artifact
  <2> QED BY <1>5, <1>7, <2>1, <2>2 DEF ImageGot, Has, SinceInv
<1>11. \A image \in Images[work.step] \ work.left : ImageGot(run, image)'
  BY <1>2, <1>3, <1>9
<1>12. FetchInHand'
  BY <1>4, <1>10, <1>11 DEF FetchInHand, At
<1> QED BY <1>2, <1>9, <1>12 DEF Keeps

LEMMA WriteMetasGot ==
  ASSUME PackageInv, LooseInv, FetchInv, RunInv, FetchInHand, run.pc = "step",
         UNCHANGED run, WriteMetas
  PROVE  FetchInHand' /\ Keeps
<1>1. work.pc = "metas"
  BY DEF WriteMetas, At
<1>2. \A image \in Images[work.step] \ work.left : ImageGot(run, image)
  BY <1>1 DEF FetchInHand
<1>3. ImageGot(run, Image)
  BY <1>1 DEF FetchInHand, At
<1>4. work'.pc = "images" /\ work'.step = work.step /\ work'.left = work.left \ {Image}
  BY DEF WriteMetas, PackageInv, WorkRecords
<1> DEFINE c == With(Recorded, Image, loose[Archive(Image)])
<1>5. loose' = With(loose, Metas, c)
  BY DEF WriteMetas
<1> HIDE DEF c
<1>6. \A q \in DOMAIN loose : q # Metas => q \in DOMAIN loose' /\ loose'[q] = loose[q]
  BY <1>5, Written
<1>7. /\ \A i : Metas # Archive(i) /\ ImageGot(run, i) => ImageGot(run, i)'
      /\ \A s : Metas # File(s) /\ Metas # Sidecar(s) /\ FileGot(run, s) => FileGot(run, s)'
  BY <1>6, OthersGot
<1>8. /\ \A i : ImageGot(run, i) => ImageGot(run, i)'
      /\ \A s : FileGot(run, s) => FileGot(run, s)'
  BY <1>7, LooseNames
<1>9. \A image \in Images[work.step] \ work'.left : ImageGot(run, image)
  BY <1>2, <1>3, <1>4
<1>10. \A image \in Images[work.step] \ work'.left : ImageGot(run, image)'
  BY <1>8, <1>9
<1>11. FetchInHand'
  BY <1>4, <1>10 DEF FetchInHand, At
<1> QED BY <1>8, <1>11 DEF Keeps

\* Steps that ask for the same URL share its file and sidecar.
LEMMA SameUrl ==
  ASSUME NEW s, NEW i, File(s) = File(i) \/ Sidecar(s) = Sidecar(i)
  PROVE  File(s) = File(i) /\ Sidecar(s) = Sidecar(i)
<1>1. Url[s] = Url[i]
  BY LooseNames
<1> QED BY <1>1 DEF File, Sidecar

LEMMA RenameFileGot ==
  ASSUME PackageInv, FetchInv, FetchInHand, UNCHANGED run, RenameFile
  PROVE  FetchInHand' /\ Keeps
<1> DEFINE c == Artifact(Url[work.step], work.version)
<1>1. /\ work.pc = "rename" /\ work.step \in FileSteps /\ work.version \in Versions
      /\ work.version >= run.since
  BY DEF RenameFile, At, FetchInv, FetchInHand
<1>2. work'.pc = "sidecar" /\ work'.step = work.step
  BY DEF RenameFile, Goto, PackageInv, WorkRecords
<1>3. c # Torn /\ c.version >= run.since
  <2>1. c # Torn
    <3>1. Url[work.step] \in Urls
      BY <1>1 DEF Urls
    <3> QED BY <1>1, <3>1, WholeArtifact
  <2>2. c.version = work.version
    BY DEF Artifact
  <2> QED BY <1>1, <2>1, <2>2
<1>4. loose' = With(loose, File(work.step), c)
  BY DEF RenameFile
<1> HIDE DEF c
<1>5. /\ File(work.step) \in DOMAIN loose' /\ loose'[File(work.step)] = c
      /\ \A q \in DOMAIN loose : q # File(work.step) => q \in DOMAIN loose' /\ loose'[q] = loose[q]
  BY <1>4, Written
<1>6. /\ \A i : File(work.step) # Archive(i) /\ ImageGot(run, i) => ImageGot(run, i)'
      /\ \A s : File(work.step) # File(s) /\ File(work.step) # Sidecar(s) /\ FileGot(run, s)
                  => FileGot(run, s)'
  BY <1>5, OthersGot
<1>7. \A i : ImageGot(run, i) => ImageGot(run, i)'
  BY <1>6, LooseNames
<1>8. ASSUME NEW s \in FileSteps, FileGot(run, s) PROVE FileGot(run, s)'
  <2>1. CASE File(work.step) = File(s)
    <3>1. Sidecar(s) \in DOMAIN loose /\ Sidecar(s) # File(work.step)
      BY <1>8, LooseNames DEF FileGot, Has
    <3>2. Sidecar(s) \in DOMAIN loose'
      BY <1>5, <3>1
    <3> QED BY <1>3, <1>5, <2>1, <3>2 DEF FileGot, Has
  <2>2. CASE File(work.step) # File(s)
    BY <1>6, <1>8, <2>2, LooseNames
  <2> QED BY <2>1, <2>2
<1>9. FetchInHand'
  <2>1. FileNew(run, work.step)'
    BY <1>2, <1>3, <1>5 DEF FileNew, Has, File
  <2> QED BY <1>2, <2>1 DEF FetchInHand, At
<1> QED BY <1>7, <1>8, <1>9 DEF Keeps

LEMMA WriteSidecarGot ==
  ASSUME PackageInv, FetchInv, FetchInHand, UNCHANGED run, WriteSidecar
  PROVE  /\ work'.pc = "done" /\ FetchInHand' /\ Keeps
         /\ work.step \in FileSteps /\ FileGot(run, work.step)'
<1>1. work.pc = "sidecar" /\ work.step \in FileSteps /\ FileNew(run, work.step)
  BY DEF WriteSidecar, At, FetchInv, FetchInHand
<1>2. work'.pc = "done" /\ work'.step = work.step
  BY DEF WriteSidecar, Goto, PackageInv, WorkRecords
<1>3. PICK validators \in BOOLEAN :
        loose' = With(loose, Sidecar(work.step),
                      [sum |-> loose[File(work.step)], validators |-> validators])
  BY DEF WriteSidecar
<1>4. /\ Sidecar(work.step) \in DOMAIN loose'
      /\ \A q \in DOMAIN loose : q # Sidecar(work.step) => q \in DOMAIN loose' /\ loose'[q] = loose[q]
  BY <1>3, Written
<1>5. /\ \A i : Sidecar(work.step) # Archive(i) /\ ImageGot(run, i) => ImageGot(run, i)'
      /\ \A s : Sidecar(work.step) # File(s) /\ Sidecar(work.step) # Sidecar(s) /\ FileGot(run, s)
                  => FileGot(run, s)'
      /\ \A s : Sidecar(work.step) # File(s) /\ FileNew(run, s) => FileNew(run, s)'
  BY <1>4, OthersGot
<1>6. \A i : ImageGot(run, i) => ImageGot(run, i)'
  BY <1>5, LooseNames
<1>7. \A s : FileNew(run, s) => FileNew(run, s)'
  BY <1>5, LooseNames
<1>8. ASSUME NEW s, Sidecar(s) = Sidecar(work.step) PROVE FileGot(run, s)'
  <2>1. File(s) = File(work.step)
    BY <1>8, SameUrl
  <2>2. FileNew(run, s)
    BY <1>1, <2>1 DEF FileNew
  <2>3. FileNew(run, s)'
    BY <1>7, <2>2
  <2> QED BY <1>4, <1>8, <2>3 DEF FileNew, FileGot, Has
<1>9. ASSUME NEW s \in FileSteps, FileGot(run, s) PROVE FileGot(run, s)'
  BY <1>5, <1>8, <1>9, LooseNames
<1>10. FileGot(run, work.step)'
  <2>1. ASSUME NEW s, s = work.step PROVE FileGot(run, s)'
    BY <1>8, <2>1
  <2>2. \A s : s = work.step => FileGot(run, s)'
    BY <2>1
  <2> QED BY <1>2, <2>2 DEF FileGot, Has
<1> QED BY <1>1, <1>2, <1>6, <1>9, <1>10 DEF FetchInHand, At, Keeps

\* Fetching an image or a file, too, gets what the step asks for.
LEMMA FetchGot ==
  ASSUME PackageInv, LooseInv, FetchInv, RunInv, SinceInv, FetchInHand, run.pc = "step",
         UNCHANGED run, FetchCall
  PROVE  RepoInHand' /\ FetchInHand' /\ (At("done")' => Got(run, work.step)') /\ Keeps
<1>1. /\ work'.step = work.step
      /\ work'.pc \in {"images", "pull", "metas", "done", "download", "rename", "sidecar", "failed"}
  BY FetchCallInv
<1>2. RepoInHand'
  BY <1>1 DEF RepoInHand, Staging
<1>3. FetchInHand' /\ Keeps /\ (work'.pc = "done" => Got(run, work.step)')
  <2>1. CASE NextImage
    <3>1. work'.pc # "done"
      BY <2>1 DEF NextImage, At, Goto, PackageInv, WorkRecords
    <3> QED BY <2>1, <3>1, NextImageGot
  <2>2. CASE ImagesDone
    <3>1. /\ work.pc = "images" /\ work.left = {} /\ UNCHANGED loose /\ work'.pc = "done"
          /\ work.step \in ImageSteps
      BY <2>2 DEF ImagesDone, At, Goto, PackageInv, WorkRecords, FetchInv
    <3>2. \A image \in Images[work.step] : ImageGot(run, image)
      BY <3>1 DEF FetchInHand
    <3>3. Keeps /\ \A i : ImageGot(run, i)' = ImageGot(run, i)
      BY <3>1, UnchangedGot
    <3>4. Got(run, work.step)'
      BY <1>1, <3>1, <3>2, <3>3, FetchedAssumption DEF FetchedAssumption, Got
    <3> QED BY <3>1, <3>3, <3>4 DEF FetchInHand, At
  <2>3. CASE PullImage
    <3>1. work'.pc # "done"
      BY <2>3 DEF PullImage, Goto, PackageInv, WorkRecords
    <3> QED BY <2>3, <3>1, PullImageGot
  <2>4. CASE WriteMetas
    <3>1. work'.pc # "done"
      BY <2>4 DEF WriteMetas, PackageInv, WorkRecords
    <3> QED BY <2>4, <3>1, WriteMetasGot
  <2>5. CASE CheckFile
    <3>1. /\ work.pc = "file" /\ UNCHANGED loose /\ work.step \in FileSteps
          /\ work'.pc = IF FileReusable(work.step) THEN "done" ELSE "download"
      BY <2>5 DEF CheckFile, At, Goto, PackageInv, WorkRecords, FetchInv
    <3>2. Keeps /\ \A s : FileGot(run, s)' = FileGot(run, s)
      BY <3>1, UnchangedGot
    <3>3. FetchInHand'
      BY <3>1 DEF FetchInHand, At
    <3>4. FileReusable(work.step) => FileGot(run, work.step)
      <4> SUFFICES ASSUME FileReusable(work.step) PROVE FileGot(run, work.step)
        OBVIOUS
      <4>1. Has(File(work.step)) /\ loose[File(work.step)] \in VersionsOf(Url[work.step])
        BY <3>1 DEF FileReusable, LooseInv
      <4>2. loose[File(work.step)] # Torn
        BY <3>1, <4>1, NotTorn DEF Urls
      <4>3. /\ ~run.refresh /\ Has(Sidecar(work.step))
            /\ \/ work.step \in Offline \/ ~loose[Sidecar(work.step)].validators
               \/ loose[File(work.step)].version = upstream
        BY <3>1 DEF FileReusable, RunInv
      <4> QED BY <4>1, <4>2, <4>3 DEF FileGot, SinceInv, PackageInv, RunInv, RunRecords, Versions
    <3>5. FileGot(run, work.step) => Got(run, work.step)'
      BY <1>1, <3>1, <3>2, FetchedAssumption DEF FetchedAssumption, Got
    <3> QED BY <3>1, <3>2, <3>3, <3>4, <3>5
  <2>6. CASE Download
    <3>1. /\ UNCHANGED loose /\ work'.pc = "rename" /\ work'.version = upstream
      BY <2>6 DEF Download, PackageInv, WorkRecords
    <3> QED BY <3>1, UnchangedGot DEF FetchInHand, At, SinceInv
  <2>9. CASE DownloadBlocked
    <3>1. UNCHANGED loose /\ work'.pc = "failed"
      BY <2>9 DEF DownloadBlocked, Goto, PackageInv, WorkRecords
    <3> QED BY <3>1, UnchangedGot DEF FetchInHand, At
  <2>7. CASE RenameFile
    <3>1. work'.pc # "done"
      BY <2>7 DEF RenameFile, Goto, PackageInv, WorkRecords
    <3> QED BY <2>7, <3>1, RenameFileGot
  <2>8. CASE WriteSidecar
    <3>1. FetchInHand' /\ Keeps /\ work.step \in FileSteps /\ FileGot(run, work.step)'
      BY <2>8, WriteSidecarGot
    <3> QED BY <1>1, <3>1, FetchedAssumption DEF FetchedAssumption, Got
  <2> QED BY <2>1, <2>2, <2>3, <2>4, <2>5, <2>6, <2>7, <2>8, <2>9 DEF FetchCall
<1> QED BY <1>2, <1>3 DEF At

\* A call that fails takes away only what its own step is to get.
LEMMA CutShortKeeps ==
  ASSUME PackageInv, RunInv, FetchInv, run.pc = "step", UNCHANGED run, FetchCutShort
  PROVE  Keeps
<1>1. CASE UNCHANGED loose
  BY <1>1, UnchangedGot
<1>2. CASE At("pull") /\ loose' = With(loose, Archive(Image), Torn)
  <2>1. Pending(Image)
    BY <1>2, ImagePending DEF At, FetchInv
  <2>2. \A q \in DOMAIN loose : q # Archive(Image) => q \in DOMAIN loose' /\ loose'[q] = loose[q]
    BY <1>2, Written
  <2>3. /\ \A i : Archive(Image) # Archive(i) /\ ImageGot(run, i) => ImageGot(run, i)'
        /\ \A s : Archive(Image) # File(s) /\ Archive(Image) # Sidecar(s) /\ FileGot(run, s) => FileGot(run, s)'
    BY <2>2, OthersGot
  <2>4. /\ \A i : i # Image /\ ImageGot(run, i) => ImageGot(run, i)'
        /\ \A s : FileGot(run, s) => FileGot(run, s)'
    BY <2>3, LooseNames
  <2> QED BY <2>1, <2>4 DEF Keeps
<1>3. ASSUME NEW path, loose' = With(loose, path, Torn),
             \A i : path # Archive(i) /\ path # File(i) /\ path # Sidecar(i)
      PROVE  Keeps
  <2>1. \A q \in DOMAIN loose : q # path => q \in DOMAIN loose' /\ loose'[q] = loose[q]
    BY <1>3, Written
  <2>2. /\ \A i : path # Archive(i) /\ ImageGot(run, i) => ImageGot(run, i)'
        /\ \A s : path # File(s) /\ path # Sidecar(s) /\ FileGot(run, s) => FileGot(run, s)'
    BY <2>1, OthersGot
  <2> QED BY <1>3, <2>2 DEF Keeps
<1>4. CASE loose' = With(loose, Metas, Torn)
  BY <1>3, <1>4, LooseNames
<1>5. CASE loose' = With(loose, Leftover(work.step), Torn)
  BY <1>3, <1>5, LooseNames
<1> QED BY <1>1, <1>2, <1>4, <1>5 DEF FetchCutShort
\* Between steps nothing is in hand.
LEMMA NothingInHand ==
  ASSUME work'.pc \in {"idle", "reuse", "file", "failed"}
  PROVE  InHand'
BY DEF InHand, RepoInHand, FetchInHand, At, Staging

LEMMA NothingAsked ==
  ASSUME last' = Nothing
  PROVE  PreparedAsAsked'
BY DEF PreparedAsAsked, Nothing

\* Every step of a run that completes has got what it asks for: what a step
\* found or fetched, the later ones of the run replace by their own at most,
\* and retries, failed calls and killed runs before it do not change that.
THEOREM GotHolds == PrepareSpec => []GotInv
<1>1. PrepareInit => GotInv
  <2> SUFFICES ASSUME PrepareInit PROVE GotInv
    OBVIOUS
  <2>1. run = NoRun /\ last = Nothing /\ upstream = 1
    BY DEF PrepareInit, ArtifactsInit
  <2>2. PreparedAsAsked
    BY <2>1 DEF PreparedAsAsked, Nothing
  <2> QED BY <2>1, <2>2 DEF GotInv, SinceInv, SoFar, InHand, NoRun
<1>2. Running /\ Fetching /\ GotInv /\ [PrepareNext]_prepareVars => GotInv'
  <2> SUFFICES ASSUME Running, Fetching, GotInv, [PrepareNext]_prepareVars PROVE GotInv'
    OBVIOUS
  <2>i. /\ PackageInv /\ RunInv /\ LooseInv /\ FetchInv
        /\ SinceInv /\ PreparedAsAsked /\ SoFar /\ InHand
    BY DEF Running, Fetching, GotInv
  <2>t. /\ work \in WorkRecords /\ upstream \in Versions /\ run \in RunRecords
        /\ run.workflow \in Seq(AllSteps)
    BY <2>i, WorkflowSeq DEF PackageInv, RunInv
  <2>f. ASSUME run'.at = 1, run'.workflow \in Seq(AllSteps) PROVE SoFar'
    BY <2>f DEF SoFar
  <2>n. ASSUME run'.pc = "idle" PROVE SoFar' /\ InHand'
    BY <2>n DEF SoFar, InHand
  <2>1. CASE \E w \in Workflows, refresh, clean \in BOOLEAN : Start(w, refresh, clean)
    <3>1. PICK w \in Workflows, refresh \in BOOLEAN, clean \in BOOLEAN : Start(w, refresh, clean)
      BY <2>1
    <3>2. run' = [pc |-> IF clean THEN "clean" ELSE "step", workflow |-> w, at |-> 1,
                  retries |-> 0, refresh |-> refresh, since |-> upstream]
      BY <3>1 DEF Start, NoRun
    <3>3. /\ UNCHANGED <<work, upstream>> /\ work.pc = "idle" /\ last' = Nothing
      BY <2>i, <3>1 DEF Start, artifactVars, RunAt, RunInv
    <3>4. SinceInv'
      BY <2>t, <3>2, <3>3 DEF SinceInv, Versions
    <3>5. SoFar'
      <4>1. w \in Seq(AllSteps)
        BY PrepareAssumption DEF PrepareAssumption
      <4> QED BY <2>f, <3>2, <4>1
    <3> QED BY <3>3, <3>4, <3>5, NothingInHand, NothingAsked DEF GotInv
  <2>2. CASE Clean
    <3>1. /\ UNCHANGED <<work, upstream, last>> /\ run.pc = "clean" /\ work.pc = "idle"
          /\ last = Nothing /\ run.at = 1
      BY <2>i, <2>2 DEF Clean, RunAt, RunInv, SinceInv
    <3>2. run'.pc = "step" /\ run'.at = 1 /\ run'.workflow = run.workflow /\ run'.since = run.since
      BY <2>t, <2>2, <3>1 DEF Clean, RunRecords
    <3>3. SinceInv'
      BY <2>i, <3>1, <3>2 DEF SinceInv
    <3> QED BY <2>f, <2>t, <3>1, <3>2, <3>3, NothingInHand, NothingAsked DEF GotInv
  <2>3. CASE RunStep
    <3> DEFINE s == run.workflow[run.at]
    <3>1. /\ run.pc = "step" /\ UNCHANGED <<run, last, final, temp, upstream, loose>>
          /\ StartStep(s, run.refresh)
          /\ run.at \in DOMAIN run.workflow /\ run.refresh \in BOOLEAN
      BY <2>t, <2>3 DEF RunStep, RunAt, RunRecords, StartStep, fetchVars, history
    <3>2. s \in AllSteps
      BY <2>i, <3>1, WorkflowSteps
    <3>3. /\ work'.step = s
          /\ work'.pc = (CASE s \in Steps -> "reuse" [] s \in ImageSteps -> "images"
                           [] s \in FileSteps -> "file")
          /\ work'.left = (IF s \in ImageSteps THEN Images[s] ELSE {})
      <4> HIDE DEF s
      <4> QED BY <2>i, <3>1, <3>2, StartStepInv
    <3>4. InHand'
      <4>1. CASE work'.pc \in {"reuse", "file"}
        BY <4>1, NothingInHand
      <4>2. CASE work'.pc \notin {"reuse", "file"}
        <5>1. work'.pc = "images" /\ work'.left = Images[work'.step]
          BY <3>2, <3>3, <4>2, FetchedAssumption DEF FetchedAssumption, AllSteps
        <5> QED BY <5>1 DEF InHand, RepoInHand, FetchInHand, At, Staging
      <4> QED BY <4>1, <4>2
    <3>5. SoFar'
      <4>1. Keeps
        BY <3>1, UnchangedGot
      <4> QED BY <2>i, <3>1, <4>1, SoFarStays DEF Keeps
    <3>6. SinceInv' /\ PreparedAsAsked'
      BY <2>i, <3>1, NothingAsked DEF SinceInv
    <3> QED BY <3>4, <3>5, <3>6 DEF GotInv
  <2>4. CASE InStep
    <3>1. run.pc = "step" /\ UNCHANGED <<run, last>> /\ last = Nothing
      BY <2>i, <2>4 DEF InStep, RunAt, SinceInv
    <3>2. RepoInHand /\ FetchInHand
      BY <2>i, <3>1 DEF InHand
    <3>3. CASE StepCall /\ UNCHANGED loose
      <4>1. InHand'
        <5>1. work'.step = work.step
          BY <2>i, <3>3, StepCallWork
        <5> QED BY <2>i, <3>1, <3>2, <3>3, PackageInHand DEF InHand
      <4>2. /\ run.at \in DOMAIN run.workflow /\ run.workflow[run.at] = work.step
            /\ work.step \in Steps /\ UNCHANGED upstream
        BY <2>i, <3>1, <3>3, StepCallWork DEF RunInv, PackageInv, TargetInv, Packaging, Staging
      <4>3. \A r \in Repos : final'[r] = final[r] \/ Repo[work.step] = r
        BY <2>i, <3>3, FinalElsewhere
      <4>4. Keeps
        BY <3>1, <3>3, UnchangedGot
      <4>5. SoFar'
        BY <2>i, <3>1, <4>2, <4>3, <4>4, SoFarStays DEF Keeps
      <4>6. SinceInv' /\ PreparedAsAsked'
        BY <2>i, <3>1, <4>2, NothingAsked DEF SinceInv
      <4> QED BY <4>1, <4>5, <4>6 DEF GotInv
    <3>4. CASE FetchCall
      <4>1. RepoInHand' /\ FetchInHand' /\ (At("done")' => Got(run, work.step)') /\ Keeps
        BY <2>i, <3>1, <3>2, <3>4, FetchGot
      <4>2. UNCHANGED <<final, upstream>>
        BY <2>i, <3>4, FetchCallInv DEF fetchVars
      <4>3. SoFar'
        BY <2>i, <3>1, <4>1, <4>2, SoFarStays DEF Keeps
      <4>4. SinceInv' /\ PreparedAsAsked'
        BY <2>i, <3>1, <4>2, NothingAsked DEF SinceInv
      <4> QED BY <4>1, <4>3, <4>4 DEF GotInv, InHand
    <3> QED BY <2>4, <3>3, <3>4 DEF InStep
  <2>5. CASE StepDone
    <3>1. /\ run.pc = "step" /\ work.pc = "done" /\ work'.pc = "idle"
          /\ UNCHANGED <<final, loose, upstream, last>>
      BY <2>5 DEF StepDone, RunAt, At, EndStep, Idle, history
    <3>2. run' = [pc |-> run.pc, workflow |-> run.workflow, at |-> run.at + 1, retries |-> 0,
                  refresh |-> run.refresh, since |-> run.since]
      BY <2>5, <2>t DEF StepDone, RunRecords
    <3>3. run.at \in DOMAIN run.workflow /\ Got(run, run.workflow[run.at])
      BY <2>i, <3>1 DEF RunInv, InHand, At
    <3>4. \A s : RepoGot(run, s) => RepoGot(run, s)'
      BY <3>1, <3>2 DEF RepoGot
    <3>5. \A image : ImageGot(run, image) => ImageGot(run, image)'
      BY <3>1, <3>2 DEF ImageGot, Has
    <3>6. \A s : FileGot(run, s) => FileGot(run, s)'
      BY <3>1, <3>2 DEF FileGot, Has
    <3>7. SoFar'
      <4> SUFFICES ASSUME NEW i \in DOMAIN run.workflow, i < run.at + 1
                   PROVE  /\ run.workflow[i] \in Steps =>
                               RepoGot(run, run.workflow[i]) \/ Superseded(run.workflow, i)
                          /\ run.workflow[i] \in ImageSteps =>
                               \A image \in Images[run.workflow[i]] : ImageGot(run, image)
                          /\ run.workflow[i] \in FileSteps => FileGot(run, run.workflow[i])
        BY <3>2, <3>4, <3>5, <3>6 DEF SoFar, Superseded
      <4>1. i < run.at \/ i = run.at
        BY <2>t DEF RunRecords
      <4>2. CASE i = run.at
        BY <3>3, <4>2 DEF Got
      <4>3. CASE i < run.at
        <5>1. \A image : Pending(image) => ImageGot(run, image)
          BY <3>3 DEF Pending, Got
        <5> QED BY <2>i, <3>1, <4>3, <5>1 DEF SoFar
      <4> QED BY <4>1, <4>2, <4>3
    <3>8. SinceInv' /\ PreparedAsAsked'
      BY <2>i, <3>1, <3>2, NothingAsked DEF SinceInv
    <3> QED BY <3>1, <3>7, <3>8, NothingInHand DEF GotInv
  <2>6. CASE RetryStep
    <3>1. /\ run.pc = "step" /\ work'.pc = "idle" /\ UNCHANGED <<final, loose, upstream, last>>
      BY <2>6 DEF RetryStep, RunAt, EndStep, Idle, history
    <3>2. run' = [pc |-> run.pc, workflow |-> run.workflow, at |-> run.at,
                  retries |-> run.retries + 1, refresh |-> run.refresh, since |-> run.since]
      BY <2>6, <2>t DEF RetryStep, RunRecords
    <3>3. \A s : RepoGot(run, s) => RepoGot(run, s)'
      BY <3>1, <3>2 DEF RepoGot
    <3>4. \A image : /\ ImageGot(run, image) => ImageGot(run, image)'
                     /\ Pending(image) => Pending(image)'
      BY <3>1, <3>2 DEF ImageGot, Has, Pending
    <3>5. \A s : FileGot(run, s) => FileGot(run, s)'
      BY <3>1, <3>2 DEF FileGot, Has
    <3>6. SoFar'
      BY <2>i, <3>1, <3>2, <3>3, <3>4, <3>5 DEF SoFar, Superseded
    <3>7. SinceInv' /\ PreparedAsAsked'
      BY <2>i, <3>1, <3>2, NothingAsked DEF SinceInv
    <3> QED BY <3>1, <3>6, <3>7, NothingInHand DEF GotInv
  <2>e. ASSUME run' = NoRun, UNCHANGED upstream PROVE SinceInv'
    BY <2>e, <2>t DEF SinceInv, NoRun, Versions
  <2>7. CASE GiveUp
    <3>1. run' = NoRun /\ run.pc = "step" /\ UNCHANGED <<upstream, last>>
      BY <2>7 DEF GiveUp, RunAt, history
    <3>2. PreparedAsAsked'
      BY <2>i, <3>1, NothingAsked DEF SinceInv
    <3> QED BY <2>e, <2>n, <3>1, <3>2, NoRunType DEF GotInv
  <2>8. CASE WriteManifest
    <3>1. /\ run' = NoRun /\ run.pc = "step" /\ UNCHANGED <<final, loose, upstream>>
          /\ last' = [workflow |-> run.workflow, refresh |-> run.refresh, since |-> run.since]
          /\ run.at > Len(run.workflow)
      BY <2>8 DEF WriteManifest, RunAt
    <3>2. \A i \in DOMAIN run.workflow : i < run.at
      BY <2>t, <3>1 DEF RunRecords
    <3>3. \A image : ~Pending(image)
      BY <2>t, <3>1 DEF Pending, RunRecords
    <3>4. ASSUME NEW i \in DOMAIN run.workflow
          PROVE  /\ run.workflow[i] \in Steps =>
                      RepoGot(run, run.workflow[i]) \/ Superseded(run.workflow, i)
                 /\ run.workflow[i] \in ImageSteps =>
                      \A image \in Images[run.workflow[i]] : ImageGot(run, image)
                 /\ run.workflow[i] \in FileSteps => FileGot(run, run.workflow[i])
      BY <2>i, <3>1, <3>2, <3>3 DEF SoFar
    <3>5. PreparedAsAsked'
      BY <3>1, <3>4 DEF PreparedAsAsked, RepoGot, ImageGot, FileGot, Superseded, Has
    <3> QED BY <2>e, <2>n, <3>1, <3>5, NoRunType DEF GotInv
  <2>9. CASE Kill
    <3>1. run' = NoRun /\ run.pc # "idle" /\ UNCHANGED <<upstream, last>>
      BY <2>9 DEF Kill, RunAt, KillStep
    <3>2. PreparedAsAsked'
      BY <2>i, <3>1, NothingAsked DEF SinceInv
    <3> QED BY <2>e, <2>n, <3>1, <3>2, NoRunType DEF GotInv
  <2>10. CASE CallFails
    <3>1. run.pc = "step" /\ UNCHANGED <<run, last>>
      BY <2>10 DEF CallFails, RunAt, history
    <3>2. CASE (StepFails \/ InstallFails) /\ UNCHANGED loose
      <4>1. /\ run.at \in DOMAIN run.workflow /\ run.workflow[run.at] = work.step
            /\ work.step \in Steps /\ UNCHANGED upstream
        BY <2>i, <3>1, <3>2, StepCallWork DEF RunInv, PackageInv, TargetInv, Packaging, Staging
      <4>2. \A r \in Repos : final'[r] = final[r] \/ Repo[work.step] = r
        BY <2>i, <3>2, FinalElsewhere
      <4>3. Keeps
        BY <3>1, <3>2, UnchangedGot
      <4>4. work'.pc = "failed"
        BY <2>t, <3>2 DEF StepFails, InstallFails, Goto, WorkRecords
      <4>5. SoFar'
        BY <2>i, <3>1, <4>1, <4>2, <4>3, SoFarStays DEF Keeps
      <4>6. SinceInv' /\ PreparedAsAsked'
        BY <2>i, <3>1, <4>1, NothingAsked DEF SinceInv
      <4> QED BY <4>4, <4>5, <4>6, NothingInHand DEF GotInv
    <3>4. CASE DropFails /\ UNCHANGED loose
      <4>1. RepoInHand /\ FetchInHand
        BY <2>i, <3>1 DEF InHand
      <4>2. InHand'
        <5>1. work'.step = work.step
          BY <2>i, <3>4, StepCallWork
        <5> QED BY <2>i, <3>1, <3>4, <4>1, PackageInHand DEF InHand
      <4>3. UNCHANGED <<final, upstream>>
        BY <3>4 DEF DropFails
      <4>4. Keeps
        BY <3>1, <3>4, UnchangedGot
      <4>5. SoFar'
        BY <2>i, <3>1, <4>3, <4>4, SoFarStays DEF Keeps
      <4>6. SinceInv' /\ PreparedAsAsked'
        BY <2>i, <3>1, <4>3, NothingAsked DEF SinceInv
      <4> QED BY <4>2, <4>5, <4>6 DEF GotInv
    <3>3. CASE FetchFails
      <4>1. UNCHANGED <<final, upstream>> /\ work'.pc = "failed" /\ FetchCutShort
        BY <2>t, <3>3 DEF FetchFails, fetchVars, Goto, WorkRecords, FetchCutShort
      <4>2. Keeps
        BY <2>i, <3>1, <4>1, CutShortKeeps
      <4>3. SoFar'
        BY <2>i, <3>1, <4>1, <4>2, SoFarStays DEF Keeps
      <4>4. SinceInv' /\ PreparedAsAsked'
        BY <2>i, <3>1, <4>1, NothingAsked DEF SinceInv
      <4> QED BY <4>1, <4>3, <4>4, NothingInHand DEF GotInv
    <3> QED BY <2>10, <3>2, <3>3, <3>4 DEF CallFails
  <2>s. ASSUME UNCHANGED <<final, temp, work, loose, run, last>>, upstream' >= upstream,
               upstream' \in Versions
        PROVE  GotInv'
    <3>1. Keeps
      BY <2>s, UnchangedGot
    <3>2. SoFar'
      BY <2>i, <2>s, <3>1, SoFarStays DEF Keeps
    <3>3. SinceInv'
      BY <2>i, <2>s, <2>t DEF SinceInv, Versions, RunRecords
    <3>4. PreparedAsAsked'
      BY <2>i, <2>s DEF PreparedAsAsked, Has
    <3>5. RepoInHand' = RepoInHand /\ FetchInHand' = FetchInHand
      BY <2>s DEF RepoInHand, FetchInHand, ToCache, At, Image, ImageGot, FileNew, Has
    <3>6. Got(run, work.step)' = Got(run, work.step)
      BY <2>s DEF Got, RepoGot, ImageGot, FileGot, Has
    <3>7. InHand'
      BY <2>i, <2>s, <3>5, <3>6 DEF InHand, At
    <3> QED BY <3>2, <3>3, <3>4, <3>7 DEF GotInv
  <2>11. CASE UpstreamChanges /\ UNCHANGED <<loose, manifest, run, faults, history>>
    <3>1. upstream' >= upstream /\ upstream' \in Versions
      BY <2>t, <2>11, PackagesAssumption DEF UpstreamChanges, Versions, PackagesAssumption
    <3> QED BY <2>s, <2>11, <3>1 DEF UpstreamChanges, history
  <2>12. CASE UNCHANGED prepareVars
    BY <2>s, <2>t, <2>12 DEF prepareVars, artifactVars, history, Versions
  <2> QED
    BY <2>1, <2>2, <2>3, <2>4, <2>5, <2>6, <2>7, <2>8, <2>9, <2>10, <2>11, <2>12
       DEF PrepareNext, RunNext
<1> QED BY <1>1, <1>2, RunningHolds, FetchingHolds, PTL DEF PrepareSpec

\* After a run that completed the workspace holds what every step of its
\* workflow asks for: packages, whole archives and whole files, and none older than
\* the run with --refresh, nor any file whose server sent validators and may be
\* asked (runPrepareSteps, and the three executors' decisions what to reuse).
THEOREM CompletedRunsGotWhatTheyAskFor == PrepareSpec => []PreparedAsAsked
<1>1. GotInv => PreparedAsAsked
  BY DEF GotInv
<1> QED BY <1>1, GotHolds, PTL
=============================================================================
