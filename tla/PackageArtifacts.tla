-------------------------- MODULE PackageArtifacts --------------------------
(***************************************************************************)
(* How a DownloadPackage step gets a package repository into the prepared  *)
(* outputs (internal/prepare/download_packages.go): it reuses the          *)
(* published one when its recorded checksums still hold, else publishes    *)
(* the copy of the host's cache, else exports the repository from a        *)
(* container, first into the cache and from there into the outputs. Both   *)
(* are replaced by way of a staging directory next to them and two renames *)
(* (package_artifact_cache.go).                                            *)
(*                                                                         *)
(* The step is modelled call by call, because the process may be killed,   *)
(* or the disk be full, between and inside any two of them. A file is what *)
(* it was exported from: a step and the version of the upstream repository *)
(* at the time. A checksum is the content it was computed from.            *)
(*                                                                         *)
(* Every call may fail, with one exception: the removal of a leftover of   *)
(* an earlier process before its name is used again                        *)
(* (package_artifact_cache.go:176, 222, 243) does what it should. The code *)
(* ignores its error, and would then publish what is left in the staging   *)
(* directory along with the new files, or rename a directory back that it  *)
(* did not set aside: what is said of whole repositories and cache entries *)
(* would hold for the files the metadata lists only.                       *)
(***************************************************************************)
EXTENDS Naturals

CONSTANTS
  Steps,       \* DownloadPackage steps, the ones of edited workflows included
  Repo,        \* [step -> its directory under outputs/packages/deb]
  Packages,    \* [step -> the packages it asks for]
  MaxVersion,  \* bound on the changes of the upstream repository
  Torn,        \* content of a file whose write was cut short
  Absent       \* a directory that does not exist

Repos == {Repo[s] : s \in Steps}

\* A step has one entry in the host's cache, keyed by its spec and inputs.
Places == Steps \cup Repos

ASSUME PackagesAssumption ==
  /\ Steps \cap Repos = {}
  /\ Steps \cap {"Index", "meta"} = {}
  /\ MaxVersion \in Nat \ {0}

Versions == 1..MaxVersion

\* A repository: its index (Packages.gz and Release) and its packages, one file
\* here, named for the step; and deck's own metadata.
Payload == {"Index"} \cup Steps
Files   == Payload \cup {"meta"}

Artifact(s, v) == [step |-> s, version |-> v]

Meta(s, sums) == [packages |-> Packages[s], sums |-> sums]

\* A step asks for a repository with its index (repo.generate).
Export(s, v) == [f \in {"Index", s} |-> Artifact(s, v)]

PayloadOf(d) == [f \in DOMAIN d \cap Payload |-> d[f]]

VARIABLES
  final,    \* [place -> the directory under its own name, or Absent]
  temp,     \* the staging (.stage-N) and set-aside (.old-N) directories there are
  work,     \* the step being executed
  upstream  \* the version of the upstream repositories

artifactVars == <<final, temp, work, upstream>>

\* Directories and files as functions.
With(d, f, c)    == [g \in DOMAIN d \cup {f} |-> IF g = f THEN c ELSE d[g]]
Only(d, names)   == [g \in names |-> d[g]]
Without(d, f)    == [g \in DOMAIN d \ {f} |-> d[g]]
Empty            == [g \in {} |-> Torn]

\* What is left of a directory of which some files were removed.
Parts(d) == {Only(d, kept) : kept \in SUBSET DOMAIN d}

\* A recorded repository is not the mark of a directory that does not exist.
ASSUME AbsentAssumption ==
  \A s \in Steps, v \in Versions :
     With(Export(s, v), "meta", Meta(s, Export(s, v))) # Absent

\* n counts the directory names given out since the process began, to is the
\* place being replaced, left the files still to be copied.
Idle == [pc |-> "idle", step |-> Absent, refresh |-> FALSE, n |-> 0, to |-> Absent,
         left |-> {}, version |-> 0]

Stage == <<work.to, "stage", work.n>>
Old   == <<work.to, "old", work.n>>

\* Once the name of the set-aside directory is given out, that of the staging
\* directory is the one before.
StageBefore == <<work.to, "stage", work.n - 1>>

ToCache == work.to \in Steps

At(pc)   == work.pc = pc
Goto(pc) == work' = [work EXCEPT !.pc = pc]

-----------------------------------------------------------------------------
ArtifactsInit ==
  /\ final = [p \in Places |-> Absent]
  /\ temp = Empty
  /\ work = Idle
  /\ upstream = 1

UpstreamChanges ==
  /\ upstream < MaxVersion
  /\ upstream' = upstream + 1
  /\ UNCHANGED <<final, temp, work>>

\* Only the directory names given out outlive a step.
EndStep == work' = [Idle EXCEPT !.n = work.n]

-----------------------------------------------------------------------------
(* What may be reused                                                      *)

HasMeta(d) == d # Absent /\ "meta" \in DOMAIN d

\* Mutant: the packages asked for are not compared.
ReusableForAny(d, s) ==
  \A f \in DOMAIN d["meta"].sums : f \in DOMAIN d /\ d[f] = d["meta"].sums[f]

\* The recorded packages are the ones asked for; every file the metadata lists
\* is there and has the recorded checksum.
ReusableFor(d, s) ==
  /\ d["meta"].packages = Packages[s]
  /\ \A f \in DOMAIN d["meta"].sums : f \in DOMAIN d /\ d[f] = d["meta"].sums[f]

\* tryReusePackageArtifact: metadata that does not parse is an error.
TryReuse ==
  /\ At("reuse")
  /\ LET d == final[Repo[work.step]] IN
     \/ (work.refresh \/ ~HasMeta(d)) /\ Goto("cache")
     \/ ~work.refresh /\ HasMeta(d) /\ d["meta"] = Torn /\ Goto("failed")
     \/ /\ ~work.refresh /\ HasMeta(d) /\ d["meta"] # Torn
        /\ Goto(IF ReusableFor(d, work.step) THEN "done" ELSE "cache")
  /\ UNCHANGED <<final, temp, upstream>>

\* tryReuseExportedPackageArtifact, up to the publication.
TryCache ==
  /\ At("cache")
  /\ LET d == final[work.step] IN
     \/ (work.refresh \/ ~HasMeta(d)) /\ Goto("export")
     \/ ~work.refresh /\ HasMeta(d) /\ d["meta"] = Torn /\ Goto("failed")
     \/ /\ ~work.refresh /\ HasMeta(d) /\ d["meta"] # Torn
        /\ IF ReusableFor(d, work.step)
           THEN work' = [work EXCEPT !.pc = "stage", !.to = Repo[work.step]]
           ELSE Goto("export")
  /\ UNCHANGED <<final, temp, upstream>>

-----------------------------------------------------------------------------
(* Exporting, staging and publishing                                       *)

\* The container resolves the packages against the upstream of the moment.
RunContainer ==
  /\ At("export")
  /\ work' = [work EXCEPT !.pc = "stage", !.to = work.step, !.version = upstream]
  /\ UNCHANGED <<final, temp, upstream>>

\* Mutant: everything in the cache entry is published, its metadata too.
SourceWithMeta == IF ToCache THEN Export(work.step, work.version) ELSE final[work.step]

\* A cache entry is filled from the export, a repository from the cache.
Source == IF ToCache THEN Export(work.step, work.version) ELSE PayloadOf(final[work.step])

\* Mutant: the staging directory is not cleared first.
StageKept ==
  /\ At("stage")
  /\ LET stage == <<work.to, "stage", work.n + 1>> IN
     temp' = With(temp, stage, IF stage \in DOMAIN temp THEN temp[stage] ELSE Empty)
  /\ work' = [work EXCEPT !.pc = "copy", !.n = @ + 1, !.left = DOMAIN Source]
  /\ UNCHANGED <<final, upstream>>

\* What a run that was killed left under the same name is removed.
MakeStage ==
  /\ At("stage")
  /\ temp' = With(temp, <<work.to, "stage", work.n + 1>>, Empty)
  /\ work' = [work EXCEPT !.pc = "copy", !.n = @ + 1, !.left = DOMAIN Source]
  /\ UNCHANGED <<final, upstream>>

\* Files are copied in the order of their names: Packages.gz before pkgs/.
NextFile == IF "Index" \in work.left THEN "Index" ELSE CHOOSE f \in work.left : TRUE

CopyFile ==
  /\ At("copy")
  /\ temp' = With(temp, Stage, With(temp[Stage], NextFile, Source[NextFile]))
  /\ work' = IF work.left = {NextFile}
             THEN [work EXCEPT !.left = {}, !.pc = IF ToCache THEN "meta" ELSE "backup"]
             ELSE [work EXCEPT !.left = @ \ {NextFile}]
  /\ UNCHANGED <<final, upstream>>

\* saveExportedPackageCacheMeta, in the staging directory.
SaveCacheMeta ==
  /\ At("meta")
  /\ temp' = With(temp, Stage, With(temp[Stage], "meta", Meta(work.step, PayloadOf(temp[Stage]))))
  /\ Goto("backup")
  /\ UNCHANGED <<final, upstream>>

\* replacePublishedArtifactDir: set the existing directory aside,
SetAside ==
  /\ At("backup")
  /\ LET old == <<work.to, "old", work.n + 1>> IN
     /\ temp' = IF final[work.to] = Absent THEN Without(temp, old)
                ELSE With(temp, old, final[work.to])
     /\ final' = [final EXCEPT ![work.to] = Absent]
  /\ work' = [work EXCEPT !.pc = "install", !.n = @ + 1]
  /\ UNCHANGED upstream

\* give the staged one its name,
Install ==
  /\ At("install")
  /\ final' = [final EXCEPT ![work.to] = temp[StageBefore]]
  /\ temp' = Without(temp, StageBefore)
  /\ Goto("drop")
  /\ UNCHANGED upstream

\* After the cache it is the repository's turn.
GoOn == IF ToCache THEN [work EXCEPT !.pc = "stage", !.to = Repo[work.step]]
        ELSE [work EXCEPT !.pc = "record"]

\* and remove the one set aside.
DropOld ==
  /\ At("drop")
  /\ temp' = Without(temp, Old)
  /\ work' = GoOn
  /\ UNCHANGED <<final, upstream>>

\* writePackageArtifactMeta, in place; it runs twice, with the same result.
RecordRepo ==
  /\ At("record")
  /\ LET d == final[work.to] IN
     final' = [final EXCEPT ![work.to] = With(d, "meta", Meta(work.step, PayloadOf(d)))]
  /\ Goto("done")
  /\ UNCHANGED <<temp, upstream>>

StepCall ==
  \/ TryReuse \/ TryCache \/ RunContainer \/ MakeStage \/ CopyFile
  \/ SaveCacheMeta \/ SetAside \/ Install \/ DropOld \/ RecordRepo

-----------------------------------------------------------------------------
(* Calls that are cut short                                                *)

\* A directory is removed file by file.
PartlyRemoved(d) ==
  {temp} \cup (IF d \in DOMAIN temp
               THEN {With(temp, d, part) : part \in Parts(temp[d])} ELSE {})

\* What the call in progress may have made of the directories.
CutShort ==
  \/ /\ CASE At("stage")  -> temp' \in PartlyRemoved(<<work.to, "stage", work.n + 1>>)
          [] At("copy") ->
                temp' \in {temp, With(temp, Stage, With(temp[Stage], NextFile, Torn))}
          [] At("meta")   -> temp' \in {temp, With(temp, Stage, With(temp[Stage], "meta", Torn))}
          [] At("backup") -> temp' \in PartlyRemoved(<<work.to, "old", work.n + 1>>)
          [] At("drop")   -> temp' \in PartlyRemoved(Old)
          [] OTHER        -> temp' = temp
     /\ UNCHANGED final
  \/ /\ At("record")
     /\ final' = [final EXCEPT ![work.to] = With(final[work.to], "meta", Torn)]
     /\ UNCHANGED temp

\* The process is killed and forgets which names it gave out.
KillStep == CutShort /\ work' = Idle /\ UNCHANGED upstream

\* Mutant: the error of a copy is dropped.
CopyErrorDropped ==
  /\ At("copy") /\ UNCHANGED final
  /\ temp' = With(temp, Stage, With(temp[Stage], NextFile, Torn))
  /\ work' = IF work.left = {NextFile}
             THEN [work EXCEPT !.left = {}, !.pc = IF ToCache THEN "meta" ELSE "backup"]
             ELSE [work EXCEPT !.left = @ \ {NextFile}]
  /\ UNCHANGED upstream

\* Of a failed attempt the staging directory of the cache is removed; that of
\* the repository stays where it is. A directory that cannot be made or set aside
\* has been given its name, and a leftover of that name is gone.
StepFails ==
  /\ \/ At("export") /\ UNCHANGED <<final, temp>>
     \/ /\ At("stage") /\ UNCHANGED final
        /\ temp' = Without(temp, <<work.to, "stage", work.n + 1>>)
     \/ /\ At("copy") /\ UNCHANGED final
        /\ temp' = IF ToCache THEN Without(temp, Stage)
                   ELSE With(temp, Stage, With(temp[Stage], NextFile, Torn))
     \/ /\ At("meta") /\ UNCHANGED final
        /\ temp' = Without(temp, Stage)
     \/ /\ At("backup") /\ UNCHANGED final
        /\ LET rest == Without(temp, <<work.to, "old", work.n + 1>>) IN
           temp' = IF ToCache THEN Without(rest, Stage) ELSE rest
     \/ At("record") /\ CutShort /\ final' # final
  /\ work' = [work EXCEPT !.pc = "failed",
                          !.n = IF At("stage") \/ At("backup") THEN @ + 1 ELSE @]
  /\ UNCHANGED upstream

\* What was set aside cannot be removed: nobody is told, and the step goes on.
DropFails ==
  /\ At("drop")
  /\ temp' \in PartlyRemoved(Old)
  /\ work' = GoOn
  /\ UNCHANGED <<final, upstream>>

\* The rename failed: the directory set aside gets its name back.
InstallFails ==
  /\ At("install")
  /\ final' = IF Old \in DOMAIN temp THEN [final EXCEPT ![work.to] = temp[Old]] ELSE final
  /\ temp' = [d \in DOMAIN temp \ ({Old} \cup (IF ToCache THEN {StageBefore} ELSE {})) |-> temp[d]]
  /\ Goto("failed")
  /\ UNCHANGED upstream
=============================================================================
