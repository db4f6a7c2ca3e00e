------------------------------ MODULE PhaseRun ------------------------------
(***************************************************************************)
(* One phase of `deck apply`, from its first batch to its outcome:         *)
(* install.Run's loop over the batches, install.executeInstallBatch,       *)
(* batchrun.Execute with the errgroup it is built on, and                  *)
(* install.executeInstallStep, which every goroutine of a batch runs.      *)
(*                                                                         *)
(* Two steps of one batch run concurrently; an action is what one          *)
(* goroutine does between two points where another one can be observed.    *)
(* Nothing in the program cancels the context a run is given: an interrupt *)
(* kills the process, so only errgroup cancels a step. A runtime variable  *)
(* is "absent", or present with a value a `when` condition finds true      *)
(* ("yes") or false ("no").                                                *)
(***************************************************************************)
EXTENDS BatchedPhase
CONSTANTS
  Phases,   \* the phases that may be run, all accepted by the validator
  Keys      \* the runtime keys they use

ASSUME PhasesAccepted ==
  /\ Phases \subseteq PhaseType(Keys)
  /\ \A p \in Phases : PhaseAccepted(p)

VARIABLES
  batches,    \* its batches, built once before the loop over them
  main,       \* where executeInstallBatch's caller is
  batch,      \* index of the current batch
  launched,   \* how many steps of the batch have been given to group.Go
  vars,       \* runtimeVars
  snapshot,   \* the clone of runtimeVars the batch's steps look at
  stage,      \* [step -> where its goroutine is]
  attempt,    \* [step -> attempts started]
  cause,      \* [step -> why its function is about to return an error]
  groupErr,   \* the error errgroup keeps: the first one returned to it
  failedStep, \* the failed_step of the batch_failed event
  lateStarts  \* history: attempts of this batch started after its cancellation

execVars == <<stage, attempt, cause, groupErr, lateStarts>>
mainVars == <<main, batch, launched, vars, snapshot, failedStep>>
phaseVars == <<phase, batches, mainVars, execVars>>

Absent  == "absent"
Values  == {"yes", "no"}
NoError == [step |-> 0, cause |-> "none"]

\* Why a step's function returns an error: its condition could not be
\* evaluated, its template not rendered, its last attempt failed, or its
\* context was cancelled before or during an attempt.
Causes == {"when", "render", "exec", "cancelled"}

Stages == {"waiting", "when", "checking", "starting", "executing", "failed",
           "returning", "ok", "skipped", "error"}

Steps == 1..Len(phase.steps)

TheBatch == batches[batch]
Limit == ExecuteLimit(phase, TheBatch)

\* Mutant: a goroutine that returns an error does not release its slot.
ActiveOrFailed == {i \in Steps : stage[i] \notin {"waiting", "ok", "skipped"}}

\* The goroutines that hold one of errgroup's slots.
Active == {i \in Steps : stage[i] \in
             {"when", "checking", "starting", "executing", "failed", "returning"}}

\* groupCtx is done: errgroup cancels it with the first error it gets.
Cancelled == groupErr # NoError

-----------------------------------------------------------------------------
Init ==
  /\ phase \in Phases
  /\ batches = BuildPhaseBatches(phase)
  /\ main = "next"
  /\ batch = 1
  /\ launched = 0
  /\ vars = [k \in Keys |-> Absent]
  /\ snapshot = vars
  /\ stage = [i \in Steps |-> "waiting"]
  /\ attempt = [i \in Steps |-> 0]
  /\ cause = [i \in Steps |-> "none"]
  /\ groupErr = NoError
  /\ failedStep = 0
  /\ lateStarts = 0

\* executeInstallBatch clones runtimeVars and Execute makes a new group.
StartBatch ==
  /\ main = "next"
  /\ batch <= Len(batches)
  /\ main' = "running"
  /\ launched' = 0
  /\ snapshot' = vars
  /\ groupErr' = NoError
  /\ lateStarts' = 0
  /\ UNCHANGED <<phase, batches, batch, vars, stage, attempt, cause, failedStep>>

FinishPhase ==
  /\ main = "next"
  /\ batch > Len(batches)
  /\ main' = "succeeded"
  /\ UNCHANGED <<phase, batches, batch, launched, vars, snapshot, failedStep, execVars>>

\* Mutant: one goroutine too many is let through.
SlotFreeOffByOne == Cardinality(Active) <= Limit

\* group.Go blocks until one of the limit's slots is free.
SlotFree == Cardinality(Active) < Limit

Launch ==
  /\ main = "running"
  /\ launched < Len(TheBatch.steps)
  /\ SlotFree
  /\ launched' = launched + 1
  /\ stage' = [stage EXCEPT ![TheBatch.steps[launched + 1]] = "when"]
  /\ UNCHANGED <<phase, batches, main, batch, vars, snapshot, failedStep, attempt, cause,
                 groupErr, lateStarts>>

-----------------------------------------------------------------------------
(* executeInstallStep and the closure Execute wraps it in                  *)

Return(i, why) ==
  /\ stage' = [stage EXCEPT ![i] = "returning"]
  /\ cause' = [cause EXCEPT ![i] = why]

\* What the step's condition evaluates to. A key that is not there makes it an
\* error, not false.
GuardValue(i) ==
  IF phase.steps[i].when = Always THEN "yes" ELSE snapshot[phase.steps[i].when]

EvaluateWhen(i) ==
  /\ stage[i] = "when"
  /\ \/ /\ GuardValue(i) = "yes"
        /\ stage' = [stage EXCEPT ![i] = "checking"]
        /\ UNCHANGED cause
     \/ /\ GuardValue(i) = "no"
        /\ stage' = [stage EXCEPT ![i] = "skipped"]
        /\ UNCHANGED cause
     \/ /\ GuardValue(i) = Absent
        /\ Return(i, "when")
  /\ UNCHANGED <<phase, batches, mainVars, attempt, groupErr, lateStarts>>

\* Mutant: the loop does not look at its context before an attempt.
MayStartUnchecked == TRUE

\* ctx.Err() is nil at the top of the retry loop.
MayStart == ~Cancelled

CheckContext(i) ==
  /\ stage[i] = "checking"
  /\ \/ /\ MayStart
        /\ stage' = [stage EXCEPT ![i] = "starting"]
        /\ UNCHANGED cause
     \/ /\ ~MayStart
        /\ Return(i, "cancelled")
  /\ UNCHANGED <<phase, batches, mainVars, attempt, groupErr, lateStarts>>

\* step_started is emitted and the template rendered. A render error ends the
\* step without a retry.
StartAttempt(i) ==
  /\ stage[i] = "starting"
  /\ attempt' = [attempt EXCEPT ![i] = @ + 1]
  /\ lateStarts' = IF Cancelled THEN lateStarts + 1 ELSE lateStarts
  /\ \/ /\ \A k \in phase.steps[i].reads : snapshot[k] # Absent
        /\ stage' = [stage EXCEPT ![i] = "executing"]
        /\ UNCHANGED cause
     \/ /\ \E k \in phase.steps[i].reads : snapshot[k] = Absent
        /\ Return(i, "render")
  /\ UNCHANGED <<phase, batches, mainVars, groupErr>>

\* The step succeeds: its result is stored and its slot released.
Succeed(i) ==
  /\ stage[i] = "executing"
  /\ stage' = [stage EXCEPT ![i] = "ok"]
  /\ UNCHANGED <<phase, batches, mainVars, attempt, cause, groupErr, lateStarts>>

\* The attempt fails and step_failed is emitted. Once the context is done the
\* failure may be nothing but the executor giving up because of it.
FailAttempt(i) ==
  /\ stage[i] = "executing"
  /\ stage' = [stage EXCEPT ![i] = "failed"]
  /\ \E why \in {"exec"} \cup (IF Cancelled THEN {"cancelled"} ELSE {}) :
        cause' = [cause EXCEPT ![i] = why]
  /\ UNCHANGED <<phase, batches, mainVars, attempt, groupErr, lateStarts>>

Attempts(step) == IF step.retry + 1 < 1 THEN 1 ELSE step.retry + 1

\* The loop ends when the context is done or no attempt is left.
AfterFailure(i) ==
  /\ stage[i] = "failed"
  /\ LET again == ~Cancelled /\ attempt[i] < Attempts(phase.steps[i]) IN
     \/ again /\ stage' = [stage EXCEPT ![i] = "checking"]
     \/ ~again /\ stage' = [stage EXCEPT ![i] = "returning"]
  /\ UNCHANGED <<phase, batches, mainVars, attempt, cause, groupErr, lateStarts>>

\* Mutant: the last error wins.
LastError(i) == [step |-> i, cause |-> cause[i]]

\* errgroup's errOnce.
FirstError(i) == IF groupErr = NoError THEN [step |-> i, cause |-> cause[i]] ELSE groupErr

\* The error reaches errgroup, which keeps the first one, cancels groupCtx
\* and releases the slot.
ReportError(i) ==
  /\ stage[i] = "returning"
  /\ groupErr' = FirstError(i)
  /\ stage' = [stage EXCEPT ![i] = "error"]
  /\ UNCHANGED <<phase, batches, mainVars, attempt, cause, lateStarts>>

StepRun(i) ==
  \/ EvaluateWhen(i) \/ CheckContext(i) \/ StartAttempt(i)
  \/ Succeed(i) \/ FailAttempt(i) \/ AfterFailure(i) \/ ReportError(i)

-----------------------------------------------------------------------------
(* group.Wait and what executeInstallBatch does with its result            *)

\* Mutant: Wait does not wait for the goroutines still running.
AllLaunched == main = "running" /\ launched = Len(TheBatch.steps)

AllReturned ==
  /\ main = "running"
  /\ launched = Len(TheBatch.steps)
  /\ Active = {}

\* Mutant: a skipped step counts as one without a result.
FirstStepNotOk ==
  LET notOk == {j \in DOMAIN TheBatch.steps : stage[TheBatch.steps[j]] # "ok"}
  IN  TheBatch.steps[CHOOSE j \in notOk : \A m \in notOk : j <= m]

\* Mutant: the index after the step's is used.
StepAfterFailed ==
  LET noResult == {j \in DOMAIN TheBatch.steps : stage[TheBatch.steps[j]] \notin {"ok", "skipped"}}
  IN  1 + TheBatch.steps[CHOOSE j \in noResult : \A m \in noResult : j <= m]

\* failedInstallBatchStep: the first step, in the order of the list, that left
\* no result.
FailedInstallBatchStep ==
  LET noResult == {j \in DOMAIN TheBatch.steps : stage[TheBatch.steps[j]] \notin {"ok", "skipped"}}
  IN  IF noResult = {} THEN 0
      ELSE TheBatch.steps[CHOOSE j \in noResult : \A m \in noResult : j <= m]

BatchFailed ==
  /\ AllReturned
  /\ groupErr # NoError
  /\ main' = "failed"
  /\ failedStep' = FailedInstallBatchStep
  /\ UNCHANGED <<phase, batches, batch, launched, vars, snapshot, execVars>>

\* Mutant: skipped steps export too.
RegisteredOrSkipped(n) ==
  UNION {phase.steps[TheBatch.steps[j]].register : j \in 1..n}

\* The keys exported by the steps of the batch that ran, among the first n.
Registered(n) ==
  UNION {phase.steps[TheBatch.steps[j]].register :
           j \in {m \in 1..n : stage[TheBatch.steps[m]] = "ok"}}

\* ApplyRegister gives each key in written a value.
Write(written) ==
  \E value \in [written -> Values] :
    vars' = [k \in Keys |-> IF k \in written THEN value[k] ELSE vars[k]]

\* Every step that ran, in the order of the list, exports its outputs.
BatchSucceeded ==
  /\ AllReturned
  /\ groupErr = NoError
  /\ Write(Registered(Len(TheBatch.steps)))
  /\ batch' = batch + 1
  /\ main' = "next"
  /\ UNCHANGED <<phase, batches, launched, snapshot, failedStep, execVars>>

\* The j-th step ran but one of the outputs it exports is missing from its
\* result. Earlier steps have exported; the map of this step's exports is
\* walked in any order, so any part of it may have been written.
RegisterFailed ==
  /\ AllReturned
  /\ groupErr = NoError
  /\ \E j \in DOMAIN TheBatch.steps :
        LET step == phase.steps[TheBatch.steps[j]] IN
        /\ stage[TheBatch.steps[j]] = "ok"
        /\ \E part \in (SUBSET step.register) \ {step.register} :
              Write(Registered(j - 1) \cup part)
        /\ failedStep' = TheBatch.steps[j]
  /\ main' = "failed"
  /\ UNCHANGED <<phase, batches, batch, launched, snapshot, execVars>>

Main == StartBatch \/ FinishPhase \/ Launch \/ BatchFailed \/ BatchSucceeded \/ RegisterFailed

Done == main \in {"succeeded", "failed"} /\ UNCHANGED phaseVars

Next == Main \/ (\E i \in Steps : StepRun(i)) \/ Done

Spec == Init /\ [][Next]_phaseVars

\* The Go scheduler always runs some goroutine that is not blocked, and an
\* attempt ends: each executor bounds its work by the step's timeout. Nothing
\* is asked of the order goroutines run in.
Fairness == WF_phaseVars(Main \/ \E i \in Steps : StepRun(i))

FairSpec == Spec /\ Fairness

-----------------------------------------------------------------------------
(* Properties                                                              *)

TypeOK ==
  /\ phase \in Phases
  /\ main \in {"next", "running", "succeeded", "failed"}
  /\ batch \in Nat /\ launched \in Nat /\ lateStarts \in Nat
  /\ vars \in [Keys -> Values \cup {Absent}]
  /\ snapshot \in [Keys -> Values \cup {Absent}]
  /\ stage \in [Steps -> Stages]
  /\ attempt \in [Steps -> Nat]
  /\ cause \in [Steps -> Causes \cup {"none"}]
  /\ groupErr \in [step : Steps, cause : Causes] \cup {NoError}
  /\ failedStep \in Steps \cup {0}

\* maxParallelism caps the steps of a batch that run at once, and a batch
\* without a group runs one step at a time, whatever order goroutines are
\* launched, fail, retry and return in (batchrun.Execute).
ParallelismBound == main = "running" => Cardinality(Active) <= Limit

\* The error a failed batch reports is a root cause: errgroup may see many
\* "context canceled" errors from the siblings of a failed step, but never
\* keeps one of them.
RootCauseReported == groupErr.cause # "cancelled"

\* After the batch has been cancelled an attempt starts only in the window
\* between a goroutine's context check and its start: at most one for each
\* slot, and none in the slot of the step that failed.
FewLateStarts == main = "running" => lateStarts < Limit

\* A batch is a barrier: no step of a later batch has begun before every step
\* of the earlier ones has succeeded or been skipped.
BatchBarrier ==
  \A b, c \in DOMAIN batches :
    b < c /\ (\E i \in StepsOf(batches[c]) : stage[i] # "waiting")
      => \A i \in StepsOf(batches[b]) : stage[i] \in {"ok", "skipped"}

\* When goroutines fail the batch, the step its batch_failed event names
\* really did end with an error (failedInstallBatchStep looks for a missing
\* result, not for an error).
NamedStepFailed ==
  main = "failed" /\ groupErr # NoError
    => failedStep \in Steps /\ stage[failedStep] = "error"

\* Every phase ends: no goroutine is left blocked on a slot, and Wait always
\* returns.
PhaseEnds == <>(main \in {"succeeded", "failed"})

\* The phase implements the contract: its batches are atomic.
Contract == INSTANCE AtomicPhase
  WITH outcome <- IF main \in {"succeeded", "failed"} THEN main ELSE "running"

ImplementsAtomicPhase == Contract!Spec
=============================================================================
