# deck, modelled and checked in TLA+

`deck` prepares a bundle on a machine with a network, carries it into an
air-gapped site and applies a declarative workflow there. What is hard about it
is not any single step but what a run may rely on: steps of a batch run
concurrently and are cancelled, runs are killed and resumed, one saved state is
read by several commands and was kept in other places by older releases.

This directory holds TLA+ modules translated from the Go source, the TLC runs
that check them on small instances, and TLAPS proofs for instances of any size.
`PROJECT.json` lists, in machine-readable form, the components, the runs, the
source lines behind every definition ("map"), a plausible bug for every property
("mutants"; they are the operators commented `Mutant:` in the modules, and are
used nowhere else), the hazards of the code and the theorems.

    tlc -workers 2 -config MCPhaseRun.cfg MCPhaseRun     # check a run
    tlapm PhaseRun_proofs.tla                            # check proofs

## 1. The system

A workflow has phases, a phase has steps, consecutive steps of one
`parallelGroup` form a batch. Steps export outputs into *runtime variables* that
later conditions (`when`) and templates read.

| part | state it keeps | operations | interacts with |
|---|---|---|---|
| phase execution: `install/runner.go`, `batchrun/batchrun.go`, `workflowexec/register.go` | runtime variables, one goroutine per step, errgroup's first error and context | run a batch under a limit, evaluate `when`, retry, cancel siblings, export | step executors (attempts), the run loop, the event sink |
| batch construction and validation: `workflowexec/batches.go`, `validate/` | none | split a phase into batches, clamp limits, accept or refuse groups | phase execution relies on what is accepted |
| apply run: `install/runner.go`, `install/state.go`, `install/secrets.go` | `State` in memory, the saved state | load, skip completed phases, run the others, save after each phase, on failure, at the end; leave secrets out; reset phases whose secrets are gone | phase execution, state files, `deck plan` |
| state key selection: `applycli/`, `workflowcontext/`, `config/hash.go` | none, it names the saved state | resolve flags to workflow and bundle, build the context, hash | apply, plan, state show, state clear |
| state files: `install/state_compat.go`, `install/state.go`, `cmd/deck/cmd_state.go` | target file, temporary file, XDG and legacy copies | look up, migrate on read, replace by rename, clear | every command that has a state key |
| run logs: `cmd/deck/apply_runlog.go` | a record and an event stream per run | append events, rewrite the record | phase execution, as an event sink |
| step executors: `install/steps_*.go` | the host | one attempt of a step, bounded by its timeout | phase execution |
| prepare run: `prepare/runner.go` | runtime variables, artifacts, manifest | run batches, collect artifacts, write the manifest | batches and batchrun, artifact caches, bundle |
| artifact caches: `prepare/package_artifact_cache.go`, `pack_cache.go`, `download_*.go` | cache directories | look up, stage, publish, reuse | prepare run |
| bundle: `bundle/`, `applycli/request.go` | the bundle directory and its manifest, the cache of extracted bundles | collect, import, verify (merge is there but no command calls it) | prepare writes it, apply reads it |
| server: `server/`, `cmd/deck/cmd_serve.go` | audit log, process file | serve files and a registry, rotate the audit log | apply's remote workflows and runs |
| configuration, conditions, templates, lint, schemas | none | pure functions of text | all of the above |
| ask: `askcli/author_runtime.go` and `ask*/` | candidate files, counters of the session, the workspace at the end | a language model calls tools: read, write, edit, validate (with automatic repair), finish | validation decides what is accepted |

Who calls whom when a workflow is applied:

    command line --StateSelection--> state key --StateFiles--> saved state
         apply: load -> reset for secrets -> loop over phases -> save ... save
                                                   |
                               PhaseRun: batches one after another,
                               steps of a batch at once, exports between batches

### What makes each part correct, and what is hard about it

*Phase execution.* A batch is a barrier and is atomic as seen from the next one;
never more steps at once than its limit; the error that is reported is the root
cause and not a cancellation it provoked; the named step did fail; the phase
ends. Hard: goroutines start, fail, retry, are cancelled and return in any
order, and a cancellation may fall between a step's check of its context and
its next attempt.

*Apply run.* No secret is ever saved; what is listed as completed ran, whole,
and was not begun again since; a resumed run finds what the phases it skips
exported; `plan` announces what `apply` does; completed work is repeated only
because a secret is gone; applying again and again gets the workflow done. Hard:
three places save, each at another moment; runs of one phase and of all phases
share a state; a kill or a failed save may come anywhere.

*State key and files.* Commands with the same flags work on the same state; a
command never sees half a file, nor an older state than the last one saved,
wherever an earlier one was killed. Hard: each command builds its key in code
of its own; lookup, migration, replacement and clearing are many system calls
with no lock.

*Prepare and its caches.* A package repository or a cache entry is one whole
export, or it is not there under its name; the exception is a repository of
which a `--clean` that was cut short left a part, until the next publication. A
completed run has prepared what the workflow asks for, and with `--refresh` no
older than the run; a workspace that verifies holds what a run completed. Hard:
a step reuses what earlier runs, killed ones and those of another workflow,
left in the outputs and in the host's cache; replacing a directory is a
removal, two renames and another removal; `--clean` removes file by file;
nothing but the end of a run writes the manifest.

*Bundle.* No phase runs on a part of an archive or on a part of its outputs; nor
on a part of its workflows, unless a `cache clean` that was cut short left the
directory (the code does not notice: a hazard of the list). Hard: an archive may
be cut anywhere, a directory that was extracted half way is reused, and the
manifest lists the outputs but not the workflows.

*Server.* The audit log holds the last of the records it accepted, in order. Hard: each step of a
rotation may fail or be the last one.

*Ask.* Only approved files change, and only to what a validation passed; the
session ends. Hard: the model chooses any sequence of calls, repair changes the
candidates on its own, and the verdict is a flag that outlives its candidates.

All hazards, each at its line, with the properties that cover it or the reason
none does, are in `PROJECT.json` under "hazards".

## 2. Modules

| module | lines it models | what it is |
|---|---|---|
| `Batches` | `workflowexec/batches.go`, `batchrun.go` (limits), `validate/validate.go`, `parallel.go`, `semantics.go` | pure functions: batches, limits, which phases are accepted, and reference definitions of them |
| `BatchedPhase` | the same | a phase and what its batches must be; shared by `PhaseRun` and the run over all small phases |
| `AtomicPhase` | what `runner.go` promises its callers | abstract specification: batches take effect one after another, each in one step |
| `PhaseRun` | `executeInstallBatch`, `executeInstallStep`, `batchrun.Execute`, errgroup (external), `ApplyRegister` | one phase with all its goroutines; implements `AtomicPhase` |
| `ApplyRun` | `install.Run`, `state.go`, `secrets.go` | invocations one after another over the saved state; a batch is `AtomicPhase`'s `Commit` or `Abort` |
| `StateSelection` | `applycli/invocation.go`, `command.go`, `workflowcontext/context.go`, `config/hash.go` | from a command line to a state key, for apply, plan, state show and clear |
| `StateStore` | what the saved state is to one operator | abstract specification: a register with older copies behind it |
| `StateFiles` | `state_compat.go`, `SaveRawStateFile`, clearing | system calls of commands on names and inodes; implements `StateStore` |
| `PackageArtifacts` | `prepare/download_packages.go`, `package_artifact_cache.go` | a DownloadPackage step call by call: reuse, cache, export, staging, replacement, metadata |
| `FetchedArtifacts` | `prepare/download_images.go`, `download_file.go` | image archives and files with what is kept next to them |
| `PrepareRun` | `preparecli/service.go`, `prepare/runner.go`, `bundle/verify.go` | runs of prepare one after another over one workspace, the manifest, verification |
| `BundleApply` | `bundle/collect.go`, `import.go`, `verify.go`, `applycli/request.go` | an archive on its way to the machine, its extraction and what apply checks before the first phase |
| `RetainedLog` | what a rotated log promises | abstract specification: the last records accepted, in order |
| `AuditLog` | `server/http_audit.go` | Write and rotation, one system call at a time; implements `RetainedLog` |
| `AskSession` | `askcli/author_runtime.go`, `files.go` | an authoring session: calls, validation and repair, budgets, the final writes |
| `*_proofs` | | theorems about the module of that name |
| `MC*` | | instances for TLC |

How they compose. `PhaseRun` (by way of `BatchedPhase`) and `AtomicPhase` extend `Batches`. `PhaseRun`
instantiates `AtomicPhase` under the mapping that forgets the goroutines, so
that `ApplyRun` may take a batch as one step: its `RunBatch` and `FailInBatch`
are the contract's two outcomes. `ApplyRun`'s save changes the file at once;
`StateFiles` opens that step up into truncation, write and rename and shows
that the register survives. `StateSelection` says which file it is. `PrepareRun`
extends `FetchedArtifacts`, which extends `PackageArtifacts`: all steps share the
outputs tree, and `Kill` is the union of what a kill can leave of each call.
`VerifyOK` of `BundleApply` is `Verifies` of `PrepareRun` seen from the other end:
the former keeps of the outputs whether they are whole, the latter shows what a
manifest that fits them says about the run that wrote it.

### State and actions against the code

*`PhaseRun`.* `main`, `batch`, `launched` are where the caller of the batches
is; `stage[i]` is where the goroutine of step `i` is; `vars` is `runtimeVars`,
`snapshot` the clone that the steps of the batch look at; `groupErr` is the error
errgroup keeps, which is also what cancels the context. An action is what one
goroutine does between two points at which another can be observed:
`EvaluateWhen`, `CheckContext` (the `ctx.Err()` at the top of the retry loop),
`StartAttempt` (the event and the rendering), `Succeed` or `FailAttempt`,
`AfterFailure` (retry or give up), `ReportError` (errgroup's `errOnce`, the
cancellation and the release of the slot). `Launch` is `group.Go` and blocks
while no slot is free. After `group.Wait` comes `BatchSucceeded`, `BatchFailed`
or `RegisterFailed`; Go's order over the map of exports is any order, so a
failed export leaves any part of that step's exports behind. `attempt`,
`lateStarts` count; a variable is absent or has a value that a condition finds
true or false. Only errgroup cancels: `deck` installs no signal handler for
apply, so an interrupt kills the process and is `ApplyRun`'s `Stop`.

*`ApplyRun`.* `file` is the saved state, the other variables are the process.
`Apply`, `ApplyOnePhase`, `ApplyFresh` are invocations (the last also clears);
`SkipCompletedPhase` and `StartPhase` the loop; `RunBatch`, `FailStep`,
`FailOnMissingKey`, `FinishPhase`, `FinishRun` its body; `SaveFailed`,
`SavePhase`, `SaveEnd` the three saves with `sanitizedState`'s two forms; `Stop`
a kill or a failed save at any point. `whole`, `recorded`, `onFinished` are
history.

*`StateSelection`.* A command line is a record of flags. The hash is injective:
two keys are equal when the tuples hashed are. `saved` is the set of keys that
have a file, `report` what the last command found next to what apply would do.

*`StateFiles`.* `dir` binds names to inodes and `content` says what an inode
holds, so a file that is renamed while another process has it open stays one
file. A process walks through stat, stat of the copies, a second stat, read,
open (create or truncate), write, rename, remove; it may be killed, or fail,
between any two and in the middle of a write. Versions stand for contents.

*`PackageArtifacts`, `FetchedArtifacts`, `PrepareRun`.* `final` is the directories
under their own names, in the outputs and in the host's cache; `temp` the staging
and backup directories next to them, which carry the name of a counter that
starts again in every process; `loose` the files under `outputs/images` and
`outputs/files`. A file's content is the step (or the image, or the URL) and the
version of the upstream it came from, or `Torn`; a checksum is that content. A
file's sidecar holds its checksum and whether the server sent validators
(ETag or Last-Modified), which it may do or not at each download; without them,
and in a step with `offlineOnly`, a file that fits its sidecar is reused and
nobody is asked. `work` is the step that runs, call by call; `run` is the run
(`Start`, `Clean`, `RunStep` .. `WriteManifest`). `Kill` ends the process between
or inside any two calls, and in a `--clean` after any set of files was removed
(`CleanCutShort`). `CallFails` fails the calls one by one: `StepFails` the export,
making and filling the stage, its metadata, setting the old directory aside, the
record in the outputs; `InstallFails` the rename, with its rollback; `DropFails`
the removal of what was set aside, whose error the code ignores; `FetchFails`
pulls, downloads and writes. The one exception is in section 7. `manifest` is a
listing of every file, as `buildPreparedManifest` makes it from a walk.
`prepared`, `last` and `marred` are history; `marred` has the repositories of
which a clean left a part and that no step has published since.

*`BundleApply`.* An archive is where it ends: how many of its four sections it
has whole, and whether a part of the next one follows. `cache` maps an archive to
the directory named by its hash. An apply goes through `Look`, `ResetDir`,
`ImportSection`, `Load`, `Verify` and runs. An archive that ends inside a section
(`ImportCut`) is an error inside an entry and the end of the archive between two.
`Kill` may leave a section torn, or a directory with any of its files removed; so
may a `cache clean` that is killed or fails (`CleanCutShort`), and `marred` is the
history of the directories it left.

*`AuditLog`.* `files` are the generations, `handle` the open file, `pc` where
`Write` is. `Shift` is one rename of the loop, the last of which (`i = 0`) is that
of the log itself. After a failed reopening the handle stays closed: `Stat` then
fails, so nothing is rotated any more, and every record is refused until the
server is started again.

*`AskSession`.* A text is what validation makes of it: good, fixable by repair,
bad, or a prepare.yaml with steps of the wrong role. `cand` is `candidateByPath`,
`fresh` the read state that guards edits, `lint` is `lastLintPassed`. `counts`
are turns, failed validations, idle turns and the run of writes at the end of
the events. Each tool is an action, as is each way a call is refused;
`AutoFinish`, `AutoValidate` and `NextTurn` are the end of a turn in the order of
the code.

## 3. Runs

| run | states | what it asks, and the answer |
|---|---|---|
| `batches` | 1 456 | Do the loops of `BuildPhaseBatches`, of the limits and of the validator compute what they are meant to? Batches are the maximal runs of one group in order; the limit in the events is the one enforced; a phase is accepted exactly when a group name means one batch. Holds. |
| `phase` | 67 807 | Every interleaving of the goroutines: bound on parallelism, barrier, root cause, named step, late attempts, the atomic contract, termination. Holds. |
| `apply` | 39 974 | Any number of invocations with failures, kills and failed saves: secrets, completion, resumption, plan, repetition, eventual completion. Holds. |
| `apply_secret_asked_again` | violated | see finding 1 |
| `state_key` | 353 | Every accepted command line of plan against apply. Holds, save for `--source server` with a local workflow, which the property excludes by name. |
| `state_key_show` | violated | see finding 2 |
| `state_files` | 388 724 | One command after another, killed anywhere, with older copies about: the target parses and the files are a register. Holds. |
| `prepare` | 968 274 | Runs with and without `--clean` and `--refresh`, of two workflows, against an upstream that changes, with a kill or a failing call anywhere: repositories (but for what a clean cut short left) and cache entries are whole, a completed run has what was asked for, what verifies was prepared, starting over helps. Holds. |
| `bundle` | 415 491 | Archives that arrive whole or cut, kills, cleans cut short, applies again: phases run on a complete archive with all its outputs, and with all its workflows unless a clean left a part of the directory; cleaning the cache gets a complete one applied. Holds. |
| `audit` | 45 419 | Fourteen records through three generations with three faults: order, no gap, and what a fault costs of the records that were accepted. Holds. Refused records are not counted: after a failed reopening that is every record until a restart. |
| `ask` | 1 001 884 | Any calls of the model: the workspace changes only in approved files and after a validation passed, budgets hold, repair leaves no candidate behind that it took out of the validation, the session ends. Holds. |
| `ask_unvalidated` | violated | see finding 3 |

### Findings: where the code does not do what its documents say

1. A `--phase` run that ends well marks the whole workflow as completed
   (`install/runner.go:186`). When its phase was that of a secret input, the next
   full run skips the reset of phases for missing secrets (`install/secrets.go:163`)
   and with it the prompt, and fails for want of the secret
   (`docs/step-kinds/input.md:40`). One run fails: what it saves no longer lists
   the phase (`install/runner.go:170`, `install/secrets.go:133`), and the apply
   after it prompts. `EventuallyAllCompleted`, which holds, says as much.
2. `deck state show|clear --scenario X` hashes a context without the scenario and
   so works on another key than apply and plan (`applycli/command.go:91`;
   `docs/apply-state.md:131`).
3. `finish` asks whether the last validation passed, not whether the candidates
   are those it was about: text written after it goes to the workspace
   unvalidated (`askcli/author_runtime.go:305`;
   `docs/contributing/ask-agent-runtime.md:34`).

Observed while modelling; no run is about them:

* `failed_step` of a `batch_failed` event is the first step, in list order, that
  left no result; a sibling that was only cancelled may come before the step
  whose error aborted the batch (`install/runner.go:337`). `NamedStepFailed`,
  which holds, is what remains: the step named did return an error.
* The save after a failed batch stores the exports of the phase's earlier
  batches too (`install/runner.go:171`, `docs/apply-state.md:88`).
* Migration looks at the target, then renames over it: with two commands at once
  it replaces a state saved in between by the older copy
  (`install/state_compat.go:45`).
* An extraction directory is taken for complete once it has `workflows/`
  (`applycli/request.go:311`). An apply killed after that makes every later one
  of the same archive fail with E_MANIFEST_MISSING; bringing the archive again
  (`docs/troubleshooting.md:159`) leads to the same directory. `CleaningHelps`
  is the way out.
* A prepare that is killed while it publishes a repository leaves
  `.stage-N` in the outputs (`prepare/package_artifact_cache.go:181`). The next
  prepare lists it in its manifest and completes; the workspace does not verify
  when it has no index in it, until a prepare with `--clean`.
* An audit log that could not be opened again after a rotation refuses every
  record until the server restarts; the requests are served meanwhile
  (`server/http_audit.go:136`).

## 4. Bounds, and why they are enough

*`MCBatches`*: all phases of at most five steps over two groups and no group, and
limits unset, 1, 2 and larger than any batch. The loops look at one step and the
last batch, or at the current group and the closed ones: five steps hold a group
that returns after another group, after a blank, and next to itself.

*`MCPhaseRun`*: four phases. `Pool` has five steps for three slots, with a retry,
so slots are reused, a failure meets steps that run, wait and are not launched.
`Chain` and `Skipped` have batches before and after a parallel one, with
conditions and templates on keys that are there, false, or never exported;
`Sequence` has retries and a step that exports two keys. Two keys are enough to
tell one that is exported from one that is not. `attempt` is bounded by `retry`.

*`MCApplyRun`*: four phases. One asks for a secret and exports a plain key; one
consumes both and exports a key and an optional one; one consumes what both
made; one needs nothing, so that a `--phase` run of it succeeds on an empty
state. `MaxFaults` bounds failures, kills, `--phase` and `--fresh` runs together;
four allow, for instance, a failed phase, a kill while it is repeated, a one-phase
run and a failed save. Runs of plain `apply` are not bounded. The
counterexample of finding 1 needs two.

*`MCStateSelection`*: two roots (the current directory and another), one server,
two scenarios (one is the file found when none is named), each flag given or
not. Flags are compared for equality only. One saved state at a time
(`MaxSaved`): a report concerns one key.

*`MCStateFiles`*: the two places older releases used. One process with four saves
reuses inodes and leaves temporary files behind that a later save truncates. One
command at a time (section 7).

*`MCPrepareRun`*: two steps that publish to one repository and ask for different
packages, so that reuse meets what another step left and a later step takes an
earlier one's repository away; an image; a file, which a second workflow gets
from the same URL without asking the server. Two versions of the upstream tell
fresh from stale, and a download with validators may be followed by one without.
One retry lets an attempt meet what the one before it left. One fault
(`MaxFaults`): any call of any run in any order of runs may be the one that fails
or is killed; what it leaves is then met by any number of runs. Two faults make
too many states for a run of TLC; the theorems are for any number.

*`MCBundleApply`*: the complete archive; one that ends before the manifest on an
entry boundary, which reads as complete; one cut inside the workflows. Kills
are not bounded, and neither are cleans; of two directories at a time a clean may
have left a part (`MaxMarred`).

*`MCAuditLog`*: three generations, so that the loop has a first, a middle and a
last rename; a log of two records is over its size; fourteen records fill
everything nearly twice. Three faults allow a kill in a rotation, a failing
rename in the next, and a closed handle after that.

*`MCAskSession`*: an entry scenario and prepare.yaml, both approved, and a file
that is not. Repair stops at the first invalid file, so two are enough to leave
one for the next validation. Four turns of at most two calls stand for the
code's thirty of any number: a validation, a write, and the two idle turns after
which the session finishes by itself; three writes trigger the automatic
validation. One forgiven failure of `VerificationBudget`.

Deadlock is checked in every run but `batches`, which stops when the last phase
is built, and `ask`, which stops when the session has ended; `PhaseRun` has a `Done` step for the phase that ended.

## 5. Fairness

`PhaseRun!Fairness` is weak fairness of all steps of the caller and of the
goroutines *taken together*. The Go scheduler runs some goroutine that is not
blocked, and each attempt ends because its executor has a timeout; nothing is
assumed of a particular goroutine, and in particular not that it is scheduled
before its siblings. `PhaseEnds` needs no more.

`ApplyRun!FairSpec` is weak fairness of `Apply \/ Loop \/ Save`: a running process
goes on, and the operator runs `deck apply` again. Failures, kills, `--phase` and
`--fresh` runs (at most `MaxFaults` of them) are not asked to happen or to stop at
any particular moment.

`PrepareRun!FairPrepareSpec`: a run that was started goes on (`WF` of its steps:
calls return, pulls and downloads have timeouts), and the operator, who may do
anything else in between, time and again falls back on
`deck prepare --clean --refresh` with each workflow (`SF`). The property says
that this is always a way out, not that it is taken soon.

`BundleApply!FairSpec`: an apply goes on (`WF`), the operator applies and cleans
the cache again and again (`SF`, because a running apply disables both);
`settled` says that the complete archive is there for good and that no apply is
killed any more.

`AskSession!FairSpec`: `WF` of the session as a whole. The request to the model
is bounded by a timeout and every tool returns. The model is free in what it
calls; that the session ends must come from the counters.

The other specifications state safety only.

## 6. Proofs

Everything below holds for all values of the constants that satisfy the named
assumptions, and is checked by tlapm to the last leaf, with no axiom.

| theorem | says | argument |
|---|---|---|
| `PhaseRun_proofs!BatchesInOrder` | batches hold all steps in order, none empty or lost | `Built(phase)[n]` is in order for each `n`: a least counterexample has a predecessor, and `AddStep` keeps the order in both cases |
| `PhaseRun_proofs!BatchesAreMaximal`, `LimitsDoAgree`, `ContiguityIsOneBatchPerGroup` | batches are maximal runs of one group; announced and enforced limits are equal; the validator accepts exactly one batch per group | over all phases: the same argument for neighbouring batches, and for what `Scanned(phase)[n]` holds of the current and the closed groups |
| `PhaseRun_proofs!BatchesRunAreMaximal`, `ReportedLimitsAreEnforced`, `GroupsNameOneBatch` | the invariants of the `batches` run, of every phase that runs | the three theorems above; a phase that runs was accepted |
| `PhaseRun_proofs!TypeCorrect`, `ParallelismBounded`, `RootCauseIsReported`, `NamedStepDidFail`, `BatchesAreBarriers`, `LateStartsAreFew` | the invariants of the `phase` run | `Inductive`: one invariant, below |
| `PhaseRun_proofs!BatchesAreAtomic` | `PhaseRun` implements `AtomicPhase` | from the same invariant, action by action, below |
| `ApplyRun_proofs!TypeCorrect`, `SecretsNeverStoredHolds`, `CompletedReallyRanHolds`, `PlanMatchesApplyHolds`, `ResumeSeesEarlierExportsHolds` | the invariants of the `apply` run | `Inductive`, below |
| `ApplyRun_proofs!RerunsOnlyForSecretsHolds` | recorded phases start again only for secrets | `OrderInv`, below |
| `StateSelection_proofs!PlanAgreesWithApplyHolds` | plan reads the state apply resumes | for every accepted line but the excluded one the two contexts are equal field by field |
| `StateFiles_proofs!TypeCorrect` | types, for any number of processes at once | `CopiesInv`, below |
| `StateFiles_proofs!TargetWholeAlone` | the target parses, for one command at a time | `CopiesInv` and `SaveInv`, below |
| `StateFiles_proofs!StoreImplementedAlone` | for one command at a time, `StateFiles` implements `StateStore` | `RegisterInv`, below |
| `PrepareRun_proofs!TypeCorrect`, `RepositoriesAreWhole`, `CacheEntriesAreWhole`, `VerifiedWorkspaceIsPrepared`, `CompletedRunsGotWhatTheyAskFor` | all invariants of the `prepare` run, with any number of faults | a chain of invariants, each on the ones before, below |
| `BundleApply_proofs!TypeCorrect`, `NeverRunsOnAPart` | phases run on a complete archive with all its outputs, and all its workflows unless a clean cut short left the directory; for any set of archives and any number of kills and cleans | `IInv`, below |
| `AskSession_proofs!TypeCorrect`, `WorkspaceIsProtected`, `AcceptanceFollowsAPass`, `AcceptanceIsWithinBudget`, `PassesCoverCandidates` | the invariants of the `ask` run | `IInv`, below |
| `AuditLog_proofs!TypeCorrect`, `FaultsDoCostLittle` | the invariants of the `audit` run | `GenerationsInv` and `CutInv`, below |
| `AuditLog_proofs!KeepsTheLastRecords` | `AuditLog` implements `RetainedLog` | what each step leaves of `Kept`, below |

Where an argument needs induction it takes the least element of a set of
naturals (`LeastExists`, from the well-foundedness of `<` or of strict inclusion of
finite sets): the induction theorems of the library take an operator, which the
provers cannot instantiate.

*Phase.* None of the properties is inductive. `MainInv` says which batch the
caller is in; `StageInv` that steps of earlier batches are done, of later ones
waiting, and of this one launched in list order; `ErrorInv` that a goroutine can
only fail for a cancellation if there is already an error, and that an error in
the group is that of a step of this batch which ended; `SlotInv` counts slots.
`LateInv` is the subtle one: once the batch is cancelled, the late attempts so
far *and* the goroutines between check and start are together fewer than the
limit, because the step that failed holds none of them. `BatchesInOrder` gives
that batches are disjoint and not empty, on which the rest stands.

*Phase, the contract.* Goroutines never write the variables: their steps are
stutters, the end of a batch is `Commit` (`BatchSucceeded`) or `Abort`
(`BatchFailed`, `RegisterFailed`). For `Commit` every step that ran must have been
runnable, and every other skippable, under the variables as the batch found
them: `DataInv` says for each stage what the step has seen by then, all of it in the
snapshot, which is equal to the variables until the batch ends. A failed
registration leaves a part of the batch's exports and nothing else.

*Apply.* `FileInv` says what a file may be when no process runs: no secret, only
phases that ran whole, and, unless it is that of a finished run, no completed
phase whose secret is missing. That is why the reset on load changes nothing
that plan shows. `RunInv` relates the process to the file it will replace:
completed phases only grow in a run, and what they exported is among the
variables or the secrets. `PhaseInv` adds the phase that is running. The central
lemma, `CutProperties`, is about `completedPhasesForState`: the list it returns is
a prefix without a producer of any missing secret.

`RerunsOnlyForSecrets` speaks of the order in which phases were recorded, of
which the invariant above says nothing. `OrderInv` says that the list in the
file, and the one in the process, holds each recorded phase, in that order, up to
the first that produces a secret: what a save or a load cuts off begins with such
a phase.

*State files.* `CopiesInv`: no two names are one inode, older copies are never
open for writing. It needs an inode to be free whenever a temporary file is
created, which is a counting argument (`UnusedInode`). `SaveInv` follows the one
temporary file from its creation to its rename and fails for two processes (the
hazard on `state.go:308`).

*State files, the register.* `Stored` is the content of the first copy in the
order of lookup. Most system calls leave it (`SameStore`). `RegisterInv` says what a
command in the middle of its calls knows: one that looks at copy `k` has found
none before it, one that migrates holds the content of the copy it found, one
that clears has removed all before `k`; and a save is newer than all there is.
So the rename of a migration is a stutter and that of a save is `Save`, a removal
is `Drop`, and only a clearing that has come to the end finds the register empty.
All of it fails for two commands at once: what one knows is what the other changes.

*Prepare.* `PackageInv` says for each call of a package step what the staging and
backup directories hold: a stage is the part of its source that was copied, then
all of it, then with metadata; the name is only ever given to a whole one. What
other processes left under the same stage names does not matter, because a stage
is emptied first. After a clean that was cut short a published repository is known
only file by file (`Kept`): all its files are of one export, and metadata, where it
is left, is that of the whole. This is what makes reuse safe there: metadata that
fits lists every file. `FullInv` says that repositories that are not in `marred` are
whole, the one set aside included, since a failing rename brings it back. `RunInv`
ties the call to the step of the run. `LooseInv` and
`FetchInv` are the same for image archives, where a kill may leave half
a file under its own name, and for files with their sidecars.
`ManifestInv` is about the manifest alone: it lists each file of the repositories
that was there when the run completed, and the archives and files of that time, so
that what still fits it has what was prepared then. `GotInv` follows a run: the steps so far have
got what they ask for, the current one has what its calls so far got it, and
a later step takes nothing away but a repository it publishes itself.

*Bundle.* `RunsWholeBundle` says nothing while no phase runs, and the workflows
are not in the manifest. `CacheInv` is what carries over from one apply to the
next: a directory with the whole manifest is of the complete archive, and is all
of it unless a clean left it. That needs `ImportInv`, that an import fills a
directory that no clean has left in part, has written the sections before the one
it is at and none after; and that extraction only empties a directory that has no
workflows, so that a kill there leaves a whole manifest only where a clean had. `RunInv`
says that what was loaded is still what is there when it is verified.

*Ask.* `ScopeInv` (candidates are approved), `DiskInv` (nothing is written before the
acceptance) and `LintInv` (the flag implies the last verdict, and acceptance the
flag) are plain. `BudgetInv` is not: a failed validation over the budget ends the
session only at the end of its turn, and `finish` may be called before. It must be
the only call of its turn; and the automatic finish needs an idle turn, one of
read-only calls, while a validation makes its turn another kind and clears the
idle count.

*Audit log, the contract.* `Kept` is a fold; `KeptIsDown` gives it as `Down`, what is
read from the oldest generation down to one, and `Downward` (a least
counterexample again) stands for the induction over generations. Then a rename to
a free name leaves `Kept` (`RenameKeeps`), a removal takes its front
(`OldestIsFirst`, which is `Forget`) and a record put into the log is its end
(`PutIsLast`, which is `Accept`). That a rename always finds the next name free,
also after a rotation that failed half way, is `RotationInv`.

*Audit log, the price of a fault.* Counting full generations is not inductive:
a rotation that failed leaves a gap, and gaps move down with each later rotation.
`GenerationsInv` counts, below each generation that is not empty, the empty ones:
never more than faults, but for the one that a rotation on its way carries down
past `i`. A rename swaps two generations, and the rename of the log itself ends
the rotation and fills the gap. So when the last generation is full and is removed,
the gaps before it are paid for. `CutInv` counts the records cut short, which
renames carry along; what cannot be read is one of those or the next in its file.

Assumptions. `AuditAssumption`: sizes and bounds are naturals, the first two not
zero. `PhasesAccepted`: the validator accepted the phase (`PhaseAccepted`,
translated from it). `WorkflowAssumption`: a key has one producer and is exported
where its producer is. `PlacesAssumption`: roots and servers are different
things. `FilesAssumption`: older places differ from each other, from the target
and from the temporary file; `OneProcess`, where it is named, is one command at
a time. `PackagesAssumption`, `FetchedAssumption`, `TornAssumption` and
`AbsentAssumption`: names of steps and repositories are different things, and the
marks of a torn file and of an absent directory are no artifact. `PrepareAssumption`,
`AskAssumption`: workflows are sequences of steps, bounds are naturals.
`ArchivesAssumption`: the complete archive may
arrive, and none has more sections than it; `MaxMarredAssumption`: a bound of TLC's
is a natural. TLC evaluates them in the runs.

### Checked by TLC only

* `PhaseEnds`, `EventuallyAllCompleted`, `SessionEnds`, `StartingOverHelps`,
  `CleaningHelps`: liveness under fairness is out of
  this prover's reach, as is `ENABLED`.

No module uses a `RECURSIVE` operator: loops are recursive functions or folds.

## 7. What is not modelled, and why

* *Texts and tables*: parsing, schemas, step metadata, host editing helpers,
  lint messages, logging, prompts. Pure functions with no state to get wrong; of
  validation, the rules a run relies on are in `Batches`.
* *What a step does to the host*: seen as an attempt that succeeds or fails.
* *Values*: contents of variables, workflows and states are names or versions;
  CEL and `text/template` are external.
* *Power loss*: what a file system keeps without `fsync` is outside the program.
* *Two commands at once* on one workspace, state file or extraction directory:
  the code takes no locks and the documents promise nothing (hazards without a
  property say what would happen). `StateFiles` itself, and its proof of types,
  are for any number of processes.
* *Parallel prepare steps*: the batches are those of `PhaseRun`; what two image
  steps do to their shared metadata is a hazard without a property.
* *Cleaning*: `prepare --clean` and `cache clean` remove file by file; each is one
  step, or one that is cut short and leaves any part. `cache clean` happens while
  no apply runs, and without `--older-than`.
* *Removals whose error is ignored*: the removal of a leftover of an earlier
  process, before its name is used again, is taken to succeed
  (`prepare/package_artifact_cache.go:176`, `222`, `243`). If it fails the code
  goes on, and what was left may be published among the new files, or renamed
  back in place of them. `RepoWhole` and `CacheWhole` would then hold for the files
  that the metadata lists only.
* *Prepare's other parts*: the pack cache state (temporary file and rename, read
  for a report only), the manifest under `outputs/.deck`, runtime binaries,
  files from sources other than a URL, checksums given in a step. Files under
  `outputs/files` that no manifest lists are not noticed by the verification, in
  the code as in the model.
* *Bundle*: merge (called by no command), verification of an archive without
  extracting it, ignore files, path checks. A workflow from a server: when the
  archive named beside it cannot be extracted it runs without a bundle, and
  nothing is verified (`applycli/invocation.go:113-118`).
* *Server*: serving reads a root that does not change. Of the audit log, a restart
  with fewer generations (the surplus ones stay) and two servers on one root.
* *The files an ask session writes, as a set*: they are written one by one in place
  (`askcli/files.go:95`). `WorkspaceProtected` says which may change and after
  what; a kill or a full disk may leave some of them written and one torn, in the
  model as in the code, and no property forbids it.
* *Ask* around the session: routing, evidence, plans, prompts, providers, the
  analyze mode and the MCP adapters turn text into text between calls of a model.
* *`state list`, `state clear --all`*: several keys in a directory.
* *Run log*: appended and rewritten under a mutex, read by no command that decides
  on it. *Polling* (`steps_wait.go`): an attempt that succeeds or fails.

## 8. Plan

Done: batches, the phase and its contract, the apply run, the state key, the
state files and their register, prepare with its artifacts and manifest, the
bundle on its way to an apply, the audit log and its contract, the ask session;
proofs of every safety property the runs find to hold, among them that
`PhaseRun`, single-process `StateFiles` and `AuditLog` implement their contracts.

Next:

1. `StateFiles` for several processes: what remains true of `Stored` when commands
   overlap (no version is ever torn is already false).
2. The part of the liveness properties that is within reach of the prover: a
   measure that every step of a phase, and of a turn of the ask session, makes
   smaller, so that only fairness is left to TLC.
3. The run log's record against its event stream; polling with a deadline.
