----------------------------- MODULE MCBatches -----------------------------
(***************************************************************************)
(* The grouping algorithms over every phase of at most MaxSteps steps with *)
(* groups from Groups: the behaviours append one step after another, so    *)
(* the reachable states are exactly those phases.                          *)
(***************************************************************************)
EXTENDS BatchedPhase
CONSTANTS
  Groups,     \* the non-blank parallelGroup names
  Limits,     \* the maxParallelism values tried
  MaxSteps    \* bound on the number of steps of a phase

PlainStep(group) ==
  [group |-> group, retry |-> 0, when |-> Always, reads |-> {}, register |-> {},
   target |-> NoTarget]

Init == phase \in [maxParallelism : Limits, steps : {<<>>}]

AppendStep ==
  /\ Len(phase.steps) < MaxSteps
  /\ \E group \in Groups \cup {NoGroup} :
        phase' = [phase EXCEPT !.steps = Append(@, PlainStep(group))]

Next == AppendStep

Spec == Init /\ [][Next]_phase
=============================================================================
