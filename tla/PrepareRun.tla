----------------------------- MODULE PrepareRun -----------------------------
(***************************************************************************)
(* deck prepare (internal/preparecli/service.go, internal/prepare/runner.go): *)
(* runs of prepare over one workspace, each with its own flags and with    *)
(* whatever the operator has made of the workflow, one download step after *)
(* the other, then the manifest over every file found in the outputs. A    *)
(* run may fail or be killed anywhere; the next one starts on what is      *)
(* left. Verifies is what `deck bundle verify` and apply make of the       *)
(* workspace (internal/bundle/verify.go).                                  *)
(***************************************************************************)
EXTENDS FetchedArtifacts, Sequences

CONSTANTS
  Workflows,  \* the sequences of steps the operator runs
  Retry,      \* the retries of a step
  MaxFaults   \* bound on kills and failed calls

ASSUME PrepareAssumption ==
  /\ Workflows \subseteq Seq(AllSteps)
  /\ \A w \in Workflows : w # <<>>
  /\ Retry \in Nat
  /\ MaxFaults \in Nat

VARIABLES
  manifest,  \* .deck/manifest.json: [<<directory, file>> -> checksum], Absent or Torn
  run,       \* the running prepare
  faults,    \* the kills and failures so far
  prepared,  \* history: the artifacts when the last run completed
  last,      \* history: the run that completed last, if none began since
  marred     \* history: the repositories of which a clean that was cut short left a
             \* part, and nothing has been published since

history == <<prepared, last, marred>>

prepareVars == <<artifactVars, loose, manifest, run, faults, history>>

NoRun == [pc |-> "idle", workflow |-> <<>>, at |-> 1, retries |-> 0, refresh |-> FALSE,
          since |-> 0]

Nothing == [workflow |-> <<>>, refresh |-> FALSE, since |-> 0]

RunAt(pc) == run.pc = pc

-----------------------------------------------------------------------------
(* The outputs tree and the manifest over it                               *)

\* The directories under outputs/packages: what is published, and what runs
\* that did not get to the end left next to it.
Left == {d \in DOMAIN temp : d[1] \in Repos}

Published == {<<r, "final", 0>> : r \in {r \in Repos : final[r] # Absent}}

OutputDirs == Published \cup Left

OutputDir(d) == IF d \in Published THEN final[d[1]] ELSE temp[d]

Outputs == {path \in OutputDirs \X Files : path[2] \in DOMAIN OutputDir(path[1])}

Content(path) == OutputDir(path[1])[path[2]]

\* buildPreparedManifest walks all of them.
Listing == [path \in Outputs \cup DOMAIN loose |->
              IF path \in Outputs THEN Content(path) ELSE loose[path]]

\* The artifacts proper, without what deck keeps next to them.
RepoContent(r) == IF final[r] = Absent THEN Empty ELSE PayloadOf(final[r])

LooseArtifacts == {path \in DOMAIN loose : path[3] \in {"tar", "data"}}

Artifacts == [repos |-> [r \in Repos |-> RepoContent(r)], loose |-> Only(loose, LooseArtifacts)]

\* Mutant: an artifact that is missing is passed over.
IntactWherePresent ==
  \A path \in DOMAIN manifest \cap DOMAIN Listing : Listing[path] = manifest[path]

\* verifyEnsureDirectoryManifest: every entry is there as listed; every directory
\* under packages/deb is a repository whose index is listed, and every image
\* archive is listed.
Intact ==
  \A path \in DOMAIN manifest : path \in DOMAIN Listing /\ Listing[path] = manifest[path]

Covered ==
  /\ \A d \in OutputDirs : <<d, "Index">> \in Outputs \cap DOMAIN manifest
  /\ \A s \in ImageSteps : \A i \in Images[s] : Has(Archive(i)) => Archive(i) \in DOMAIN manifest

Verifies ==
  /\ manifest # Absent /\ manifest # Torn
  /\ DOMAIN manifest # {}
  /\ Intact
  /\ Covered

-----------------------------------------------------------------------------
PrepareInit ==
  /\ ArtifactsInit
  /\ loose = Empty
  /\ manifest = Absent
  /\ run = NoRun
  /\ faults = 0
  /\ prepared = Artifacts
  /\ last = Nothing
  /\ marred = {}

\* With --clean the outputs are removed first; the manifest is not among them.
Start(workflow, refresh, clean) ==
  /\ RunAt("idle")
  /\ run' = [NoRun EXCEPT !.pc = IF clean THEN "clean" ELSE "step", !.workflow = workflow,
                          !.refresh = refresh, !.since = upstream]
  /\ last' = Nothing
  /\ UNCHANGED <<artifactVars, loose, manifest, faults, prepared, marred>>

\* Mutant: the published repositories are removed, and nothing else.
CleanPublished ==
  /\ RunAt("clean")
  /\ final' = [p \in Places |-> IF p \in Repos THEN Absent ELSE final[p]]
  /\ loose' = Empty
  /\ marred' = {}
  /\ run' = [run EXCEPT !.pc = "step"]
  /\ UNCHANGED <<temp, work, upstream, manifest, faults, prepared, last>>

Clean ==
  /\ RunAt("clean")
  /\ final' = [p \in Places |-> IF p \in Repos THEN Absent ELSE final[p]]
  /\ temp' = [d \in DOMAIN temp \ Left |-> temp[d]]
  /\ loose' = Empty
  /\ marred' = {}
  /\ run' = [run EXCEPT !.pc = "step"]
  /\ UNCHANGED <<work, upstream, manifest, faults, prepared, last>>

RunStep ==
  /\ RunAt("step") /\ At("idle")
  /\ run.at <= Len(run.workflow)
  /\ StartStep(run.workflow[run.at], run.refresh)
  /\ UNCHANGED <<manifest, run, faults, history>>

InStep ==
  /\ RunAt("step")
  /\ (StepCall /\ UNCHANGED loose) \/ FetchCall
  /\ marred' = IF At("install") THEN marred \ {work.to} ELSE marred
  /\ UNCHANGED <<manifest, run, faults, prepared, last>>

StepDone ==
  /\ RunAt("step") /\ At("done")
  /\ run' = [run EXCEPT !.at = @ + 1, !.retries = 0]
  /\ EndStep
  /\ UNCHANGED <<final, temp, loose, upstream, manifest, faults, history>>

\* executePrepareStep tries again; when that is used up the run ends.
RetryStep ==
  /\ RunAt("step") /\ At("failed")
  /\ run.retries < Retry
  /\ run' = [run EXCEPT !.retries = @ + 1]
  /\ EndStep
  /\ UNCHANGED <<final, temp, loose, upstream, manifest, faults, history>>

GiveUp ==
  /\ RunAt("step") /\ At("failed")
  /\ run.retries = Retry
  /\ run' = NoRun
  /\ work' = Idle
  /\ UNCHANGED <<final, temp, loose, upstream, manifest, faults, history>>

WriteManifest ==
  /\ RunAt("step") /\ At("idle")
  /\ run.at > Len(run.workflow)
  /\ manifest' = Listing
  /\ prepared' = Artifacts
  /\ last' = [workflow |-> run.workflow, refresh |-> run.refresh, since |-> run.since]
  /\ run' = NoRun
  /\ work' = Idle
  /\ UNCHANGED <<final, temp, loose, upstream, faults, marred>>

-----------------------------------------------------------------------------
Fault ==
  /\ faults < MaxFaults
  /\ faults' = faults + 1

\* --clean removes the outputs file by file: it is killed, or ends the run because
\* a removal failed. Of some directories a part is left under their own name.
CleanCutShort ==
  \E kept \in SUBSET Outputs, gone \in SUBSET OutputDirs :
     LET Rest(d) == Only(OutputDir(d), {f \in Files : <<d, f>> \in kept}) IN
     /\ \A path \in kept : path[1] \notin gone
     /\ final' = [p \in Places |->
                    LET d == <<p, "final", 0>> IN
                    IF d \notin Published THEN final[p]
                    ELSE IF d \in gone THEN Absent ELSE Rest(d)]
     /\ temp' = [d \in DOMAIN temp \ gone |-> IF d \in Left THEN Rest(d) ELSE temp[d]]
     /\ loose' \in Parts(loose)
     /\ marred' = {r \in Repos : final'[r] # Absent /\ (r \in marred \/ RepoContent(r)' # RepoContent(r))}

\* The process is killed. Of the manifest it may have written a part: a write
\* that fails leaves the same, and ends the run too.
Kill ==
  /\ ~RunAt("idle")
  /\ Fault
  /\ \/ RunAt("step") /\ KillStep /\ FetchCutShort /\ UNCHANGED marred
     \/ RunAt("clean") /\ CleanCutShort /\ UNCHANGED <<work, upstream>>
  /\ \/ UNCHANGED manifest
     \/ /\ RunAt("step") /\ At("idle") /\ run.at > Len(run.workflow)
        /\ manifest' = Torn
  /\ run' = NoRun
  /\ UNCHANGED <<prepared, last>>

\* A call of a step fails: the network, a full disk, a rename.
CallFails ==
  /\ RunAt("step")
  /\ Fault
  /\ ((StepFails \/ InstallFails \/ DropFails) /\ UNCHANGED loose) \/ FetchFails
  /\ UNCHANGED <<manifest, run, history>>

RunNext == Clean \/ RunStep \/ InStep \/ StepDone \/ RetryStep \/ GiveUp \/ WriteManifest

PrepareNext ==
  \/ \E w \in Workflows, refresh, clean \in BOOLEAN : Start(w, refresh, clean)
  \/ RunNext
  \/ Kill
  \/ CallFails
  \/ UpstreamChanges /\ UNCHANGED <<loose, manifest, run, faults, history>>

PrepareSpec == PrepareInit /\ [][PrepareNext]_prepareVars

\* A run that was started goes on until it ends; and time and again the operator
\* falls back on `deck prepare --clean --refresh`.
StartOver(w) == Start(w, TRUE, TRUE)

FairPrepareSpec ==
  /\ PrepareSpec
  /\ WF_prepareVars(RunNext)
  /\ \A w \in Workflows : SF_prepareVars(StartOver(w))

-----------------------------------------------------------------------------
(* Properties                                                              *)

DirType == UNION {[s -> {Torn} \cup [step : Steps, version : Versions]] : s \in SUBSET Payload}

TypeOK ==
  /\ upstream \in Versions
  /\ work.pc \in {"idle", "reuse", "cache", "export", "stage", "copy", "meta", "backup",
                  "install", "drop", "record", "images", "pull", "metas", "file", "download",
                  "rename", "sidecar", "done", "failed"}
  /\ work.n \in Nat
  /\ work.left \subseteq Payload \cup UNION {Images[s] : s \in ImageSteps}
  /\ DOMAIN final = Places
  /\ \A p \in Places : final[p] # Absent => PayloadOf(final[p]) \in DirType
  /\ \A d \in DOMAIN temp : d[1] \in Places /\ PayloadOf(temp[d]) \in DirType
  /\ \A path \in LooseArtifacts : loose[path] \in {Torn} \cup [step : {path[2]}, version : Versions]
  /\ run.pc \in {"idle", "clean", "step"}
  /\ faults \in 0..MaxFaults
  /\ marred \subseteq Repos

\* A repository is published as a whole: wherever runs were killed and calls
\* failed, the directory under its own name holds all the files of one export and
\* no others. Only a --clean that was cut short leaves a part of it there, until
\* the next publication; and even then there are no others.
RepoWhole ==
  \A r \in Repos : final[r] # Absent =>
     \E s \in Steps, v \in Versions :
        /\ Repo[s] = r
        /\ RepoContent(r) \in Parts(Export(s, v))
        /\ r \notin marred => RepoContent(r) = Export(s, v)

\* An entry of the host's cache is a whole export of its step with the
\* checksums of it: there is no entry without metadata or with others'.
CacheWhole ==
  \A s \in Steps : final[s] # Absent =>
     \E v \in Versions : final[s] = With(Export(s, v), "meta", Meta(s, Export(s, v)))

\* After a completed run every step has got what it asks for. A repository (of
\* the last step that publishes there) has the packages of the step, an image
\* archive and a file are whole; with --refresh they come from the upstream as
\* it was when the run began, or later. So does a file without --refresh, if the
\* server sent validators with it and the step may ask the server: else a file that
\* has the checksum of its sidecar is taken as it is, however old.
PreparedAsAsked ==
  LET w     == last.workflow
      Fresh(artifact) == artifact # Torn /\ artifact.version >= last.since IN
  \A i \in DOMAIN w :
     /\ /\ w[i] \in Steps
        /\ \A j \in DOMAIN w : j > i /\ w[j] \in Steps => Repo[w[j]] # Repo[w[i]]
        => /\ final[Repo[w[i]]] # Absent
           /\ LET index == final[Repo[w[i]]]["Index"] IN
              /\ Packages[index.step] = Packages[w[i]]
              /\ last.refresh => index.step = w[i] /\ Fresh(index)
     /\ w[i] \in ImageSteps =>
          \A image \in Images[w[i]] :
             /\ Has(Archive(image)) /\ loose[Archive(image)] # Torn
             /\ last.refresh => Fresh(loose[Archive(image)])
     /\ w[i] \in FileSteps =>
          /\ Has(File(w[i])) /\ loose[File(w[i])] # Torn
          /\ last.refresh \/ (w[i] \notin Offline /\ loose[Sidecar(w[i])].validators)
             => Fresh(loose[File(w[i])])

\* A workspace that verifies holds what the last run that completed prepared,
\* whatever was begun since: every file of its repositories is there unchanged,
\* and there are no other repositories (with more in them than was prepared only
\* if that was what a clean had left of one); the image archives are the same;
\* and its files are there. (Files no manifest lists may lie next to them: the
\* check of outputs/files goes by the manifest alone.)
VerifiedIsPrepared ==
  Verifies =>
    /\ \A r \in Repos :
         /\ prepared.repos[r] \in Parts(RepoContent(r))
         /\ final[r] # Absent => "Index" \in DOMAIN prepared.repos[r]
    /\ \A path \in DOMAIN prepared.loose : Has(path) /\ loose[path] = prepared.loose[path]
    /\ \A path \in LooseArtifacts \ DOMAIN prepared.loose : path[3] = "data"

\* However runs failed or were killed, starting over leads back to a workspace
\* that verifies.
StartingOverHelps == []<>Verifies
=============================================================================
