---------------------------- MODULE BatchedPhase ----------------------------
(***************************************************************************)
(* A phase and what its batches must be, whoever runs or inspects them:    *)
(* PhaseRun executes the batches of one, MCBatches looks at those of every *)
(* small one.                                                              *)
(***************************************************************************)
EXTENDS Batches

VARIABLE phase  \* the phase at hand

\* BuildPhaseBatches splits the steps into the maximal runs of consecutive
\* steps of one group, in order and with nothing lost or repeated
\* (workflowexec/batches.go).
BatchesAreMaximalRuns == MaximalRuns(phase)

\* The max_parallelism of a batch's events (NewEventContext) is the number of
\* goroutines its executor allows (Execute), although the two clamp the
\* configured value separately (batchrun/batchrun.go).
ReportedLimitIsEnforced == LimitsAgree(phase)

\* The validator's scan for closed groups and the batch builder agree: a
\* phase passes exactly when each group names one batch, so that
\* "phase:group" identifies a batch (validate.go and NewEventContext).
ContiguityMeansOneBatchPerGroup == GroupNamesOneBatch(phase)
=============================================================================
