---------------------------- MODULE AtomicPhase ----------------------------
(***************************************************************************)
(* What a phase promises, whatever its goroutines do: its batches take     *)
(* effect one after another, each in one indivisible step. Every step of a *)
(* batch looks at the runtime variables as they were when the batch began; *)
(* either the whole batch counts and all its exports appear together, or   *)
(* the phase fails. PhaseRun implements this.                              *)
(***************************************************************************)
EXTENDS Batches
CONSTANTS Phases, Keys

VARIABLES phase, batches, batch, vars, outcome

contractVars == <<phase, batches, batch, vars, outcome>>

Absent == "absent"

TheBatch == batches[batch]
Members  == StepsOf(TheBatch)

Available(keys) == \A k \in keys : vars[k] # Absent

GuardValue(step) == IF step.when = Always THEN "yes" ELSE vars[step.when]

\* The step's condition lets it run, and its template can be rendered.
Runnable(step) == GuardValue(step) = "yes" /\ Available(step.reads)

Skippable(step) == GuardValue(step) = "no"

Exports(ran) == UNION {phase.steps[i].register : i \in ran}

\* Only the keys in written change, and they get a value.
Write(written) ==
  \E value \in [written -> {"yes", "no"}] :
    vars' = [k \in Keys |-> IF k \in written THEN value[k] ELSE vars[k]]

Init ==
  /\ phase \in Phases
  /\ batches = BuildPhaseBatches(phase)
  /\ batch = 1
  /\ vars = [k \in Keys |-> Absent]
  /\ outcome = "running"

\* Every member of the batch either ran or was skipped; those that ran export
\* together.
Commit ==
  /\ outcome = "running"
  /\ batch <= Len(batches)
  /\ \E ran \in SUBSET Members :
        /\ \A i \in ran : Runnable(phase.steps[i])
        /\ \A i \in Members \ ran : Skippable(phase.steps[i])
        /\ Write(Exports(ran))
  /\ batch' = batch + 1
  /\ UNCHANGED <<phase, batches, outcome>>

\* The phase fails in this batch. What a failed export leaves behind belongs
\* to this batch.
Abort ==
  /\ outcome = "running"
  /\ batch <= Len(batches)
  /\ outcome' = "failed"
  /\ \E written \in SUBSET Exports(Members) : Write(written)
  /\ UNCHANGED <<phase, batches, batch>>

Finish ==
  /\ outcome = "running"
  /\ batch > Len(batches)
  /\ outcome' = "succeeded"
  /\ UNCHANGED <<phase, batches, batch, vars>>

Next == Commit \/ Abort \/ Finish

Spec == Init /\ [][Next]_contractVars
=============================================================================
