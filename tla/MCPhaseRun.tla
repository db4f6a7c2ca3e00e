----------------------------- MODULE MCPhaseRun -----------------------------
(***************************************************************************)
(* Instances of PhaseRun. Between them the phases have a batch larger than *)
(* its limit, a batch with no limit, sequential batches before and after a *)
(* parallel one, retries, conditions and templates on keys that an earlier *)
(* batch exports or, when its step was skipped, does not.                  *)
(***************************************************************************)
EXTENDS PhaseRun

Step == [group |-> NoGroup, retry |-> 0, when |-> Always, reads |-> {}, register |-> {},
         target |-> NoTarget]
Member == [Step EXCEPT !.group = "g"]

\* Five steps on three slots; the first may be retried.
Pool == [maxParallelism |-> 3,
         steps |-> <<[Member EXCEPT !.retry = 1, !.register = {"x"}],
                     [Member EXCEPT !.register = {"y"}],
                     Member,
                     Member,
                     Member>>]

\* A producer, a parallel pair that consumes its key, a consumer of what the
\* pair exports (which is missing when the pair's first step is skipped).
Chain == [maxParallelism |-> 0,
          steps |-> <<[Step EXCEPT !.register = {"x"}],
                      [Member EXCEPT !.when = "x", !.register = {"y"}],
                      [Member EXCEPT !.reads = {"x"}, !.retry = 1],
                      [Step EXCEPT !.reads = {"y"}]>>]

\* One step at a time, with retries and an export of two keys.
Sequence == [maxParallelism |-> 2,
             steps |-> <<[Step EXCEPT !.retry = 2, !.register = {"x", "y"}],
                         [Step EXCEPT !.when = "x"],
                         [Member EXCEPT !.when = "y", !.retry = 1]>>]

\* A parallel pair behind a producer that may have been skipped: one of the
\* pair cannot be rendered, or cannot evaluate its condition.
Skipped == [maxParallelism |-> 0,
            steps |-> <<[Step EXCEPT !.register = {"x"}],
                        [Step EXCEPT !.when = "x", !.register = {"y"}],
                        [Member EXCEPT !.reads = {"y"}],
                        [Member EXCEPT !.when = "y", !.retry = 1]>>]

MCPhases == {Pool, Chain, Sequence, Skipped}
MCKeys == {"x", "y"}
=============================================================================
