------------------------------ MODULE ApplyRun ------------------------------
(***************************************************************************)
(* `deck apply` and its saved state, over any number of invocations:       *)
(* install.Run, the state file it reads and replaces                       *)
(* (internal/install/state.go) and what it does about secrets              *)
(* (internal/install/secrets.go). Invocations of one workflow follow one   *)
(* another; each may run all phases or one (--phase), start from scratch   *)
(* (--fresh), fail in a batch, fail to save, or be killed at any point.    *)
(*                                                                         *)
(* A phase is the sequence of its batches, and a batch takes effect as a   *)
(* whole, which is what AtomicPhase states and PhaseRun implements. A      *)
(* runtime variable is there or not; its value is not told apart.          *)
(***************************************************************************)
EXTENDS Integers, Sequences, FiniteSets

CONSTANTS
  NumPhases,  \* the workflow's phases are 1..NumPhases, in order
  Batches,    \* [phase -> sequence of its batches, records [reads, exports]]
  Keys,       \* the runtime keys
  Producer,   \* [key -> the phase one of whose steps registers it]
  Secret,     \* the keys registered by an Input step with secret: true
  Optional,   \* the keys registered by a step whose condition may be false
  MaxFaults   \* bound on failures, kills, --phase and --fresh invocations

Phases == 1..NumPhases

\* The state's phase field: empty, a phase, or the mark of a finished run.
NoPhase   == 0
Completed == NumPhases + 1

\* The validator gives a key one producer and a secret one a batch of its own:
\* Input is not on the list of kinds allowed in a parallel group.
ASSUME WorkflowAssumption ==
  /\ NumPhases \in Nat \ {0}
  /\ Batches \in [Phases -> Seq([reads : SUBSET Keys, exports : SUBSET Keys])]
  /\ Producer \in [Keys -> Phases]
  /\ Secret \subseteq Keys
  /\ Optional \subseteq Keys
  /\ MaxFaults \in Nat
  /\ \A p \in Phases : \A b \in DOMAIN Batches[p] :
        \A k \in Batches[p][b].exports : Producer[k] = p
  /\ \A k \in Keys : \E b \in DOMAIN Batches[Producer[k]] : k \in Batches[Producer[k]][b].exports

VARIABLES
  file,       \* the saved state; a missing file reads as EmptyState
  pc,         \* where the process is, "idle" when there is none
  st,         \* install.Run's State: its phase, completed and failed fields
  vars,       \* keys present in runtimeVars
  secrets,    \* keys present in runtimeSecrets
  selected,   \* the phases of the execution workflow, in order
  idx,        \* position in selected
  batch,      \* position in the batches of the current phase
  faults,     \* how many disturbances there have been
  whole,      \* history: phases whose latest execution ran all its batches
  recorded,   \* history: phases that completed and were saved, in the order
              \* they first did since the state was last cleared
  onFinished  \* history: this run was loaded from the state of a finished run

procVars == <<pc, st, vars, secrets, selected, idx, batch>>
history  == <<whole, recorded, onFinished>>
applyVars == <<file, procVars, faults, history>>

RangeOf(s) == {s[i] : i \in DOMAIN s}

EmptyState == [phase |-> NoPhase, completed |-> <<>>, failed |-> NoPhase,
               vars |-> {}, secrets |-> {}]

-----------------------------------------------------------------------------
(* secrets.go                                                              *)

\* Where the phases that produced the keys are in a list of completed phases.
ProducedAt(completed, keys) ==
  {i \in DOMAIN completed : completed[i] \in {Producer[k] : k \in keys}}

Least(indices) == CHOOSE i \in indices : \A j \in indices : i <= j

\* Mutant: the phase that produced the secret is kept.
CutAfterProducer(completed, keys) ==
  IF ProducedAt(completed, keys) = {} THEN completed
  ELSE SubSeq(completed, 1, Least(ProducedAt(completed, keys)))

\* Mutant: one phase too many is dropped.
CutTooMuch(completed, keys) ==
  IF ProducedAt(completed, keys) = {} THEN completed
  ELSE SubSeq(completed, 1, Least(ProducedAt(completed, keys)) - 2)

\* The completed phases before the first one that produced one of the keys.
CompletedPhasesForState(completed, keys) ==
  IF ProducedAt(completed, keys) = {} THEN completed
  ELSE SubSeq(completed, 1, Least(ProducedAt(completed, keys)) - 1)

\* Mutant: only the secrets of completed phases are left out.
PublicOfOpenPhases == vars \ {k \in secrets : Producer[k] \in RangeOf(st.completed)}

PublicRuntimeVars == vars \ secrets

\* The file that is written for a list of completed phases: a phase has one
\* entry in it, and the failed one only if it is not listed as completed.
StateFile(completed) ==
  [phase     |-> st.phase,
   completed |-> completed,
   failed    |-> IF st.failed \in RangeOf(completed) THEN NoPhase ELSE st.failed,
   vars      |-> PublicRuntimeVars,
   secrets   |-> secrets]

\* Mutant: completed phases are always kept.
KeepingCompleted(preserveCompleted) == StateFile(st.completed)

\* What is saved: secret values never, and completed phases only as far as a
\* resumed run can skip them without their secrets.
SanitizedState(preserveCompleted) ==
  StateFile(IF preserveCompleted THEN st.completed
            ELSE CompletedPhasesForState(st.completed, secrets))

\* Mutant: the state of a finished run is reset too.
ResetFinishedToo(loaded) ==
  [loaded EXCEPT !.phase = NoPhase,
     !.completed = CompletedPhasesForState(@, loaded.secrets \ loaded.vars)]

\* The state a run works with, given the one it loaded.
ResetCompletedPhasesForMissingSecrets(loaded) ==
  LET missing == loaded.secrets \ loaded.vars
  IN  IF (loaded.phase = Completed /\ loaded.failed = NoPhase) \/ missing = {}
         \/ loaded.completed = <<>>
      THEN loaded
      ELSE [loaded EXCEPT !.phase = NoPhase, !.failed = NoPhase,
              !.completed = CompletedPhasesForState(@, missing)]

-----------------------------------------------------------------------------
Init ==
  /\ file = EmptyState
  /\ pc = "idle"
  /\ st = [phase |-> NoPhase, completed |-> <<>>, failed |-> NoPhase]
  /\ vars = {} /\ secrets = {}
  /\ selected = <<>> /\ idx = 1 /\ batch = 1
  /\ faults = 0
  /\ whole = {} /\ recorded = <<>> /\ onFinished = FALSE

AllPhases == [p \in Phases |-> p]

\* Run starts on a loaded (or empty) state.
Begin(loaded, sel) ==
  /\ st' = [phase |-> loaded.phase, completed |-> loaded.completed, failed |-> loaded.failed]
  /\ vars' = loaded.vars
  /\ secrets' = loaded.secrets
  /\ selected' = sel
  /\ idx' = 1
  /\ batch' = 1
  /\ pc' = "loop"

\* deck apply.
Apply ==
  /\ pc = "idle"
  /\ Begin(ResetCompletedPhasesForMissingSecrets(file), AllPhases)
  /\ onFinished' = (file.phase = Completed)
  /\ UNCHANGED <<file, faults, whole, recorded>>

\* deck apply --phase p: BuildExecutionWorkflow keeps one phase and the state
\* key of the whole workflow.
ApplyOnePhase ==
  /\ pc = "idle"
  /\ faults < MaxFaults
  /\ \E p \in Phases : Begin(ResetCompletedPhasesForMissingSecrets(file), <<p>>)
  /\ onFinished' = (file.phase = Completed)
  /\ faults' = faults + 1
  /\ UNCHANGED <<file, whole, recorded>>

\* deck apply --fresh, with or without --phase: clearSelectedApplyState removes
\* the file before the run starts.
ApplyFresh ==
  /\ pc = "idle"
  /\ faults < MaxFaults
  /\ file' = EmptyState
  /\ \E sel \in {AllPhases} \cup {<<p>> : p \in Phases} : Begin(EmptyState, sel)
  /\ whole' = {} /\ recorded' = <<>> /\ onFinished' = FALSE
  /\ faults' = faults + 1

-----------------------------------------------------------------------------
(* The loop over the phases                                                *)

Phase == selected[idx]

SkipCompletedPhase ==
  /\ pc = "loop"
  /\ idx <= Len(selected)
  /\ Phase \in RangeOf(st.completed)
  /\ st' = [st EXCEPT !.phase = Phase]
  /\ idx' = idx + 1
  /\ UNCHANGED <<file, pc, vars, secrets, selected, batch, faults, history>>

StartPhase ==
  /\ pc = "loop"
  /\ idx <= Len(selected)
  /\ Phase \notin RangeOf(st.completed)
  /\ st' = [st EXCEPT !.phase = Phase]
  /\ pc' = "batch"
  /\ batch' = 1
  /\ whole' = whole \ {Phase}
  /\ UNCHANGED <<file, vars, secrets, selected, idx, faults, recorded, onFinished>>

CurrentBatch == Batches[Phase][batch]

\* Mutant: every output of a step is taken for a secret.
MarkEveryOutput(exported) == secrets \cup exported

\* applyRegisterWithSecrets: secret outputs are noted, others are forgotten as
\* secrets.
MarkSecrets(exported) == (secrets \ exported) \cup (exported \cap Secret)

\* AtomicPhase's Commit: every step of the batch ran or was skipped, and those
\* that ran have exported.
RunBatch ==
  /\ pc = "batch"
  /\ batch <= Len(Batches[Phase])
  /\ CurrentBatch.reads \subseteq vars
  /\ \E skipped \in SUBSET (CurrentBatch.exports \cap Optional) :
        /\ vars' = vars \cup (CurrentBatch.exports \ skipped)
        /\ secrets' = MarkSecrets(CurrentBatch.exports \ skipped)
  /\ batch' = batch + 1
  /\ UNCHANGED <<file, pc, st, selected, idx, faults, history>>

\* AtomicPhase's Abort: the phase fails. A step that lacks an output it
\* exports leaves the exports made before it; it is never an Input step.
FailInBatch(exported) ==
  /\ pc = "batch"
  /\ batch <= Len(Batches[Phase])
  /\ vars' = vars \cup exported
  /\ secrets' = MarkSecrets(exported)
  /\ st' = [st EXCEPT !.failed = Phase]
  /\ pc' = "saveFailed"
  /\ UNCHANGED <<file, selected, idx, batch, history>>

\* A template or condition refers to a key that is not there.
FailOnMissingKey ==
  /\ FailInBatch({})
  /\ ~(CurrentBatch.reads \subseteq vars)
  /\ UNCHANGED faults

\* A step fails for a reason of its own.
FailStep ==
  /\ pc = "batch" /\ batch <= Len(Batches[Phase])
  /\ faults < MaxFaults
  /\ \E exported \in SUBSET (CurrentBatch.exports \ Secret) : FailInBatch(exported)
  /\ faults' = faults + 1

FinishPhase ==
  /\ pc = "batch"
  /\ batch > Len(Batches[Phase])
  /\ st' = [st EXCEPT !.completed = Append(@, Phase), !.failed = NoPhase]
  /\ whole' = whole \cup {Phase}
  /\ pc' = "savePhase"
  /\ UNCHANGED <<file, vars, secrets, selected, idx, batch, faults, recorded, onFinished>>

FinishRun ==
  /\ pc = "loop"
  /\ idx > Len(selected)
  /\ st' = [st EXCEPT !.phase = Completed, !.failed = NoPhase]
  /\ pc' = "saveEnd"
  /\ UNCHANGED <<file, vars, secrets, selected, idx, batch, faults, history>>

-----------------------------------------------------------------------------
(* Saving: the file is written beside the old one and renamed over it, so  *)
(* it changes at once. A run that cannot save ends with an error.          *)

SaveFailed ==
  /\ pc = "saveFailed"
  /\ file' = SanitizedState(FALSE)
  /\ pc' = "idle"
  /\ UNCHANGED <<st, vars, secrets, selected, idx, batch, faults, history>>

SavePhase ==
  /\ pc = "savePhase"
  /\ file' = SanitizedState(FALSE)
  /\ recorded' = IF Phase \in RangeOf(recorded) THEN recorded ELSE Append(recorded, Phase)
  /\ pc' = "loop"
  /\ idx' = idx + 1
  /\ UNCHANGED <<st, vars, secrets, selected, batch, faults, whole, onFinished>>

SaveEnd ==
  /\ pc = "saveEnd"
  /\ file' = SanitizedState(TRUE)
  /\ pc' = "idle"
  /\ UNCHANGED <<st, vars, secrets, selected, idx, batch, faults, history>>

\* A save returns an error and so does the run, or the process is killed, by
\* the operator's interrupt too: all that is left is the file.
Stop ==
  /\ pc # "idle"
  /\ faults < MaxFaults
  /\ faults' = faults + 1
  /\ pc' = "idle"
  /\ UNCHANGED <<file, st, vars, secrets, selected, idx, batch, history>>

Save == SaveFailed \/ SavePhase \/ SaveEnd

Loop == SkipCompletedPhase \/ StartPhase \/ RunBatch \/ FailOnMissingKey \/ FinishPhase \/ FinishRun

Next == Apply \/ ApplyOnePhase \/ ApplyFresh \/ Loop \/ FailStep \/ Save \/ Stop

Spec == Init /\ [][Next]_applyVars

\* A running process goes on, and the operator who wants the workflow done
\* runs `deck apply` again after every run.
FairSpec == Spec /\ WF_applyVars(Apply \/ Loop \/ Save)

-----------------------------------------------------------------------------
(* Properties                                                              *)

States == [phase : 0..Completed, completed : Seq(Phases), failed : 0..NumPhases]

Files == [phase : 0..Completed, completed : Seq(Phases), failed : 0..NumPhases,
          vars : SUBSET Keys, secrets : SUBSET Secret]

TypeOK ==
  /\ file \in Files
  /\ pc \in {"idle", "loop", "batch", "saveFailed", "savePhase", "saveEnd"}
  /\ st \in States
  /\ vars \subseteq Keys
  /\ secrets \subseteq Secret
  /\ selected \in Seq(Phases)
  /\ idx \in 1..(Len(selected) + 1)
  /\ batch \in Nat \ {0} /\ faults \in Nat
  /\ whole \subseteq Phases
  /\ recorded \in Seq(Phases)
  /\ onFinished \in BOOLEAN
  /\ pc \in {"batch", "saveFailed", "savePhase"} => idx <= Len(selected)

\* The guide's promise about secret inputs: "Never written to the apply state
\* file", whichever of the three saves wrote it and whatever was interrupted
\* (docs/guides/capturing-output.md).
SecretsNeverStored == file.vars \cap Secret = {}

\* A phase the file lists as completed, which later runs skip, has run all its
\* batches, and has not been started again since: being killed while a phase
\* runs a second time never leaves it marked as done by the first time.
CompletedReallyRan == RangeOf(file.completed) \subseteq whole

\* A run of the whole workflow that resumes an unfinished one finds every
\* export of the phases it skips, secrets included: either the value was
\* stored or its producer has run again (completedPhasesForState and
\* resetCompletedPhasesForMissingSecrets).
ResumeSeesEarlierExports ==
  pc = "batch" /\ selected = AllPhases /\ ~onFinished
    => \A k \in Keys \ Optional : Producer[k] < Phase => k \in vars

\* `deck plan` and --dry-run show the file's completed phases as skipped, and
\* never reset them; a run that followed would skip the same ones.
PlanMatchesApply ==
  ResetCompletedPhasesForMissingSecrets(file).completed = file.completed

\* What a phase that starts again was completed for is lost only to secrets: it
\* produced one, or it completed after the phase that did.
RerunsOnlyForSecrets ==
  [][StartPhase =>
       \A i \in DOMAIN recorded :
         recorded[i] = Phase =>
           \E k \in secrets : \E j \in 1..i : recorded[j] = Producer[k]]_applyVars

\* Once disturbances stop, running `deck apply` again and again gets the
\* workflow done, and the file stays that way: no saved state makes every
\* resumed run fail or start over.
EventuallyAllCompleted ==
  <>[](file.phase = Completed /\ RangeOf(file.completed) = Phases)

\* docs/step-kinds/input.md: a secret Input "re-prompts when an incomplete run
\* must resume without the value". When a run of the whole workflow gets to a
\* batch that needs a secret of an earlier phase, the secret is there. (It is not
\* in the run after a --phase run of the input's phase. That run fails, and saves a
\* list without the phase: the one after it prompts.)
SecretAskedAgain ==
  pc = "batch" /\ selected = AllPhases /\ batch <= Len(Batches[Phase])
    => \A k \in CurrentBatch.reads \cap Secret : Producer[k] < Phase => k \in vars
=============================================================================
