--------------------------- MODULE StateSelection ---------------------------
(***************************************************************************)
(* Which saved state a command works on. `deck apply`, `deck plan` and     *)
(* `deck state show|clear` each resolve their command line to a workflow   *)
(* (internal/applycli/invocation.go), build an execution context from it   *)
(* (internal/applycli/command.go) and hash both into a state key           *)
(* (internal/config/hash.go, internal/workflowcontext/context.go).         *)
(*                                                                         *)
(* A command line is a record of its flags, Unset where one is not given.  *)
(* A workflow is a pair <<place, name>> of a local root or a server and the*)
(* name of the file there. A hash is modelled by the tuple that is hashed. *)
(* What a workflow and its variables contain is a function of where it is, *)
(* so it adds nothing to the tuple. A workflow given as a positional       *)
(* argument is one given by --workflow.                                    *)
(***************************************************************************)
EXTENDS Integers, FiniteSets

CONSTANTS
  Roots,      \* directories that hold a workflows/ directory
  Here,       \* the one the operator is in
  Servers,    \* workflow servers
  Default,    \* the server `deck server remote` configured
  Scenarios,  \* scenario names; each place has all of them
  MaxSaved    \* bound on the number of saved states

Unset == "unset"

\* The workflow that is found when none is named.
Discovered == "apply"

ASSUME PlacesAssumption ==
  /\ Here \in Roots /\ Default \in Servers /\ Roots \cap Servers = {}
  /\ Unset \notin Roots \cup Servers \cup Scenarios
  /\ Discovered \in Scenarios
  /\ MaxSaved \in Nat


Workflows == (Roots \cup Servers) \X Scenarios

CommandLines ==
  [workflow : Workflows \cup {Unset}, scenario : Scenarios \cup {Unset},
   source : {"local", "server", Unset}, root : Roots \cup {Unset},
   server : Servers \cup {Unset}, bundle : Roots \cup {Unset}]

VARIABLES
  saved,    \* the state keys that have a file
  report    \* what the last plan or state command found, and (history)
            \* whether apply with the same command line would then resume

selectionVars == <<saved, report>>

-----------------------------------------------------------------------------
(* invocation.go                                                           *)

IsHTTP(workflow) == workflow[1] \in Servers

\* --server and --root decide where a scenario is looked for; --source is
\* "local" when it is not given.
ResolvedSource(line) ==
  IF line.server # Unset THEN "server"
  ELSE IF line.root # Unset \/ line.source = Unset THEN "local"
  ELSE line.source

Given(flag, otherwise) == IF flag = Unset THEN otherwise ELSE flag

ScenarioWorkflow(line, localRoot) ==
  <<IF ResolvedSource(line) = "server" THEN Given(line.server, Default) ELSE localRoot,
    line.scenario>>

\* What every command refuses: two places, two workflows, or a server without
\* a workflow.
LocatorAccepted(line) ==
  /\ line.root = Unset \/ line.server = Unset
  /\ line.workflow = Unset \/ line.scenario = Unset
  /\ ResolvedSource(line) = "server" => line.workflow # Unset \/ line.scenario # Unset

\* plan and state have no positional bundle.
PlanAccepts(line) == LocatorAccepted(line) /\ line.bundle = Unset

ApplyAccepts(line) == LocatorAccepted(line) /\ (line.root = Unset \/ line.bundle = Unset)

ResolvePlanWorkflowPath(line) ==
  IF line.workflow # Unset THEN line.workflow
  ELSE IF line.scenario # Unset THEN ScenarioWorkflow(line, Given(line.root, Here))
  ELSE <<Given(line.root, Here), Discovered>>

\* The bundle apply is given or finds; Unset when it reads its workflow from
\* elsewhere.
ApplyBundle(line) ==
  IF line.workflow # Unset \/ ResolvedSource(line) = "server" THEN line.bundle
  ELSE Given(line.root, Given(line.bundle, Here))

ResolveApplyWorkflow(line) ==
  IF line.workflow # Unset THEN line.workflow
  ELSE IF line.scenario # Unset THEN ScenarioWorkflow(line, ApplyBundle(line))
  ELSE <<ApplyBundle(line), Discovered>>

-----------------------------------------------------------------------------
(* command.go, context.go                                                  *)

SourceForWorkflowPath(workflow) == IF IsHTTP(workflow) THEN "server" ELSE "filesystem"

InferredBundle(workflow) == IF IsHTTP(workflow) THEN Unset ELSE workflow[1]

\* Mutant: plan is not told the scenario.
PlanContextNoScenario(workflow, scenario) ==
  <<SourceForWorkflowPath(workflow), workflow, Unset, InferredBundle(workflow)>>

\* buildPlanExecutionContext.
PlanContext(workflow, scenario) ==
  <<SourceForWorkflowPath(workflow), workflow, scenario, InferredBundle(workflow)>>

\* The source apply is told, and the run log records.
WorkflowSource(line, workflow) ==
  CASE line.server # Unset -> "server"
    [] line.server = Unset /\ line.root # Unset -> "local"
    [] line.server = Unset /\ line.root = Unset /\ line.source # Unset -> line.source
    [] OTHER -> IF IsHTTP(workflow) THEN "server" ELSE "local"

\* buildApplyExecutionContext.
ApplyContext(line) ==
  LET workflow == ResolveApplyWorkflow(line)
  IN  <<IF WorkflowSource(line, workflow) = "server" THEN "server"
          ELSE SourceForWorkflowPath(workflow),
        workflow, line.scenario, Given(ApplyBundle(line), InferredBundle(workflow))>>

\* applyContextStateKey, on the fingerprint of each command's context.
ApplyKey(line) == ApplyContext(line)
PlanKey(line)  == PlanContext(ResolvePlanWorkflowPath(line), line.scenario)
StateKey(line) == PlanContext(ResolvePlanWorkflowPath(line), Unset)

-----------------------------------------------------------------------------
\* Apply with this command line would resume from a saved state.
WouldResume(line) == ApplyKey(line) \in saved

\* --source server for a workflow that is a local file.
SourceOverridden(line) ==
  /\ WorkflowSource(line, ResolveApplyWorkflow(line)) = "server"
  /\ ~IsHTTP(ResolveApplyWorkflow(line))

Init ==
  /\ saved = {}
  /\ report = [by |-> "nobody", found |-> FALSE, resumes |-> FALSE, overridden |-> FALSE]

\* deck apply runs and saves its state.
Apply(line) ==
  /\ ApplyAccepts(line)
  /\ saved' = saved \cup {ApplyKey(line)}
  /\ Cardinality(saved') <= MaxSaved
  /\ UNCHANGED report

Report(by, line, found) ==
  report' = [by |-> by, found |-> found, resumes |-> WouldResume(line)',
             overridden |-> SourceOverridden(line)]

\* deck plan shows what it finds in the saved state.
Plan(line) ==
  /\ PlanAccepts(line)
  /\ UNCHANGED saved
  /\ Report("plan", line, PlanKey(line) \in saved)

\* deck state show.
StateShow(line) ==
  /\ PlanAccepts(line)
  /\ UNCHANGED saved
  /\ Report("show", line, StateKey(line) \in saved)

\* deck state clear, which insists on a workflow or a scenario.
StateClear(line) ==
  /\ PlanAccepts(line)
  /\ line.workflow # Unset \/ line.scenario # Unset
  /\ saved' = saved \ {StateKey(line)}
  /\ Report("clear", line, FALSE)

\* deck apply --fresh fails before it saves anything.
ApplyFresh(line) ==
  /\ ApplyAccepts(line)
  /\ saved' = saved \ {ApplyKey(line)}
  /\ Report("fresh", line, FALSE)

Next ==
  \E line \in CommandLines :
    Apply(line) \/ Plan(line) \/ StateShow(line) \/ StateClear(line) \/ ApplyFresh(line)

Spec == Init /\ [][Next]_selectionVars

-----------------------------------------------------------------------------
(* Properties                                                              *)

\* Two commands typed with the same flags work on the same state: plan shows
\* progress exactly when apply would resume it, wherever the workflow comes
\* from (command.go builds the two contexts separately). The one exception is
\* --source server for a local workflow, which only apply takes into account.
PlanAgreesWithApply ==
  report.by = "plan" /\ ~report.overridden => report.found = report.resumes

\* docs/apply-state.md: "run `deck state show` with the same flags you intend
\* to pass to `deck apply`. It prints the resolved state key and file path".
ShowAgreesWithApply ==
  report.by = "show" /\ ~report.overridden => report.found = report.resumes
=============================================================================
