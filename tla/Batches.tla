------------------------------ MODULE Batches ------------------------------
(***************************************************************************)
(* How the steps of a phase are grouped into batches                       *)
(* (internal/workflowexec/batches.go), which concurrency limit a batch     *)
(* gets (internal/batchrun/batchrun.go) and which phases the validator     *)
(* lets through (internal/validate/validate.go).                           *)
(*                                                                         *)
(* A phase is a record [maxParallelism, steps]; a step is a record         *)
(*   group     its parallelGroup, NoGroup when the field is blank          *)
(*   retry     the number of extra attempts                                *)
(*   when      the runtime key its condition tests, Always when it has none*)
(*   reads     the runtime keys its spec template refers to                *)
(*   register  the runtime keys it exports                                 *)
(*   target    the literal path it writes, NoTarget when it has none       *)
(* A batch is a record [group, steps] where steps is the sequence of the   *)
(* indices of its steps in the phase.                                      *)
(***************************************************************************)
EXTENDS Integers, Sequences, FiniteSets

NoGroup  == ""
Always   == ""
NoTarget == ""

PhaseType(keys) ==
  [maxParallelism : Int,
   steps : Seq([group : STRING, retry : Int, when : STRING, reads : SUBSET keys,
                register : SUBSET keys, target : STRING])]

-----------------------------------------------------------------------------
(* workflowexec.BuildPhaseBatches                                          *)

\* Mutant: consecutive steps are merged even when they carry no group.
JoinsLastBatchMergingUngrouped(batches, step) ==
  batches # <<>> /\ batches[Len(batches)].group = step.group

\* A step extends the last batch when it carries that batch's group.
JoinsLastBatch(batches, step) ==
  /\ step.group # NoGroup
  /\ batches # <<>>
  /\ batches[Len(batches)].group = step.group

AddStep(phase, batches, i) ==
  IF JoinsLastBatch(batches, phase.steps[i])
  THEN [batches EXCEPT ![Len(batches)].steps = Append(@, i)]
  ELSE Append(batches, [group |-> phase.steps[i].group, steps |-> <<i>>])

\* The loop over the steps: what is built once n of them are read.
Built(phase) ==
  LET built[n \in 0..Len(phase.steps)] ==
        IF n = 0 THEN <<>> ELSE AddStep(phase, built[n - 1], n)
  IN  built

BuildPhaseBatches(phase) == Built(phase)[Len(phase.steps)]

StepsOf(batch) == {batch.steps[j] : j \in DOMAIN batch.steps}

Parallel(batch) == batch.group # NoGroup /\ Len(batch.steps) > 1

\* A limit that is unset or larger than the batch means the whole batch.
ClampLimit(limit, batch) ==
  IF limit <= 0 \/ limit > Len(batch.steps) THEN Len(batch.steps) ELSE limit

\* batchrun.Execute: the number of steps that may run at once.
ExecuteLimit(phase, batch) ==
  ClampLimit(IF Parallel(batch) THEN phase.maxParallelism ELSE 1, batch)

\* Mutant: the event reports the configured limit without clamping it.
EventLimitUnclamped(phase, batch) == phase.maxParallelism

\* batchrun.NewEventContext: the max_parallelism every event of the batch
\* carries.
EventLimit(phase, batch) == ClampLimit(phase.maxParallelism, batch)

-----------------------------------------------------------------------------
(* validate.validatePhaseParallelSemantics and validateParallelBatch       *)

\* Mutant: a group is not closed when a step without a group follows it.
CloseGroupNotOnBlank(scan, group) ==
  IF scan.current # NoGroup /\ scan.current # group /\ group # NoGroup
  THEN scan.closed \cup {scan.current} ELSE scan.closed

\* The groups that may not come back once a step of group has been read.
CloseGroup(scan, group) ==
  IF scan.current # NoGroup /\ scan.current # group
  THEN scan.closed \cup {scan.current}
  ELSE scan.closed

\* The loop over the steps: what is known once n of them are read.
Scanned(phase) ==
  LET scanned[n \in 0..Len(phase.steps)] ==
        IF n = 0 THEN [closed |-> {}, current |-> NoGroup, ok |-> TRUE]
        ELSE LET last   == scanned[n - 1]
                 group  == phase.steps[n].group
                 closed == CloseGroup(last, group)
             IN  [closed  |-> closed,
                  current |-> group,
                  ok      |-> last.ok /\ ~(group \in closed /\ last.current # group)]
  IN  scanned

GroupsAreContiguous(phase) == Scanned(phase)[Len(phase.steps)].ok

ParallelBatchAccepted(phase, batch) ==
  LET members    == StepsOf(batch)
      step(i)    == phase.steps[i]
      registered == UNION {step(i).register : i \in members}
      uses(i)    == step(i).reads \cup ({step(i).when} \ {Always})
  IN  /\ \A i, j \in members :
            i # j /\ step(i).target # NoTarget => step(i).target # step(j).target
      /\ \A i \in members : uses(i) \cap registered = {}

\* No runtime key has two producers (validate/semantics.go,
\* E_RUNTIME_VAR_REDEFINED).
OneProducerPerKey(phase) ==
  \A i, j \in DOMAIN phase.steps :
    i # j => phase.steps[i].register \cap phase.steps[j].register = {}

PhaseAccepted(phase) ==
  LET batches == BuildPhaseBatches(phase)
  IN  /\ phase.maxParallelism >= 0
      /\ OneProducerPerKey(phase)
      /\ GroupsAreContiguous(phase)
      /\ \A b \in DOMAIN batches :
            Parallel(batches[b]) => ParallelBatchAccepted(phase, batches[b])

-----------------------------------------------------------------------------
(* The reference definitions the runs compare the code's loops with.       *)

\* The batches hold the first n steps, each batch in increasing order and
\* before the next batch, with none lost.
InOrder(batches, n) ==
  /\ batches \in Seq([group : STRING, steps : Seq(1..n)])
  /\ \A b \in DOMAIN batches : batches[b].steps # <<>>
  /\ \A b \in DOMAIN batches : \A i, j \in DOMAIN batches[b].steps :
       i < j => batches[b].steps[i] < batches[b].steps[j]
  /\ \A b, c \in DOMAIN batches :
       b < c => \A i \in StepsOf(batches[b]), j \in StepsOf(batches[c]) : i < j
  /\ \A i \in 1..n : \E b \in DOMAIN batches : i \in StepsOf(batches[b])

\* Steps i and j belong together when they are the same step or when every
\* step from one to the other carries the same non-blank group.
BelongTogether(phase, i, j) ==
  \/ i = j
  \/ \A m, n \in DOMAIN phase.steps :
        ({m, n} \subseteq i..j \/ {m, n} \subseteq j..i)
        => phase.steps[m].group = phase.steps[n].group /\ phase.steps[m].group # NoGroup

InOneBatch(batches, i, j) ==
  \E b \in DOMAIN batches : {i, j} \subseteq StepsOf(batches[b])

\* The batches, laid end to end, are the steps of the phase in their order,
\* and two steps share a batch exactly when they belong together.
MaximalRuns(phase) ==
  LET batches == BuildPhaseBatches(phase)
  IN  /\ InOrder(batches, Len(phase.steps))
      /\ \A i, j \in DOMAIN phase.steps :
            InOneBatch(batches, i, j) <=> BelongTogether(phase, i, j)

\* The limit the events of a batch report is the one the executor enforces.
LimitsAgree(phase) ==
  LET batches == BuildPhaseBatches(phase)
  IN  \A b \in DOMAIN batches :
        EventLimit(phase, batches[b]) = ExecuteLimit(phase, batches[b])

\* The validator accepts the grouping exactly when a group names one batch.
GroupNamesOneBatch(phase) ==
  LET batches == BuildPhaseBatches(phase)
  IN  GroupsAreContiguous(phase) <=>
        \A b, c \in DOMAIN batches :
          batches[b].group = batches[c].group /\ batches[b].group # NoGroup => b = c
=============================================================================
