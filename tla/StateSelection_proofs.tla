----------------------- MODULE StateSelection_proofs -----------------------
(***************************************************************************)
(* That plan and apply select the same state for every command line, for   *)
(* any roots, servers and scenarios.                                       *)
(***************************************************************************)
EXTENDS StateSelection, TLAPS

\* Both resolve a command line to the same workflow, although apply looks for
\* a bundle first and plan never does (invocation.go).
LEMMA SameWorkflow ==
  ASSUME NEW line \in CommandLines, PlanAccepts(line)
  PROVE  ResolveApplyWorkflow(line) = ResolvePlanWorkflowPath(line)
BY DEF CommandLines, PlanAccepts, LocatorAccepted, ResolveApplyWorkflow,
       ResolvePlanWorkflowPath, ApplyBundle, ScenarioWorkflow, ResolvedSource, Given

\* The bundle apply uses is the one plan infers from the workflow's place.
LEMMA SameBundle ==
  ASSUME NEW line \in CommandLines, PlanAccepts(line)
  PROVE  Given(ApplyBundle(line), InferredBundle(ResolveApplyWorkflow(line)))
           = InferredBundle(ResolvePlanWorkflowPath(line))
<1>1. CASE ApplyBundle(line) = Unset
  BY <1>1, SameWorkflow DEF Given
<1>2. CASE ApplyBundle(line) # Unset
  <2>1. line.workflow = Unset /\ ResolvedSource(line) = "local"
    BY <1>2 DEF ApplyBundle, PlanAccepts, CommandLines, ResolvedSource
  <2>2. ApplyBundle(line) = Given(line.root, Here) /\ ApplyBundle(line) \in Roots
    BY <2>1, PlacesAssumption DEF ApplyBundle, PlanAccepts, CommandLines, Given
  <2>3. ResolvePlanWorkflowPath(line)[1] = ApplyBundle(line)
    BY <2>1, <2>2 DEF ResolvePlanWorkflowPath, ScenarioWorkflow
  <2>4. ~IsHTTP(ResolvePlanWorkflowPath(line))
    BY <2>2, <2>3, PlacesAssumption DEF IsHTTP
  <2> QED BY <1>2, <2>3, <2>4 DEF InferredBundle, Given
<1> QED BY <1>1, <1>2

LEMMA SameKey ==
  ASSUME NEW line \in CommandLines, PlanAccepts(line), ~SourceOverridden(line)
  PROVE  PlanKey(line) = ApplyKey(line)
<1>1. (IF WorkflowSource(line, ResolveApplyWorkflow(line)) = "server" THEN "server"
        ELSE SourceForWorkflowPath(ResolveApplyWorkflow(line)))
      = SourceForWorkflowPath(ResolvePlanWorkflowPath(line))
  BY SameWorkflow DEF SourceOverridden, SourceForWorkflowPath
<1> QED BY <1>1, SameWorkflow, SameBundle DEF PlanKey, ApplyKey, PlanContext, ApplyContext

\* plan shows progress exactly when apply with the same flags would resume,
\* for any set of places and scenarios and any sequence of commands.
THEOREM PlanAgreesWithApplyHolds == Spec => []PlanAgreesWithApply
<1>1. Init => PlanAgreesWithApply
  BY DEF Init, PlanAgreesWithApply
<1>2. PlanAgreesWithApply /\ [Next]_selectionVars => PlanAgreesWithApply'
  <2> SUFFICES ASSUME PlanAgreesWithApply, [Next]_selectionVars
               PROVE  PlanAgreesWithApply'
    OBVIOUS
  <2>1. CASE UNCHANGED selectionVars
    BY <2>1 DEF PlanAgreesWithApply, selectionVars
  <2>2. ASSUME NEW line \in CommandLines, Apply(line)
        PROVE  PlanAgreesWithApply'
    BY <2>2 DEF Apply, PlanAgreesWithApply
  <2>3. ASSUME NEW line \in CommandLines, Plan(line)
        PROVE  PlanAgreesWithApply'
    <3>1. SUFFICES ASSUME ~SourceOverridden(line)
                   PROVE  report'.found = report'.resumes
      BY <2>3 DEF Plan, Report, PlanAgreesWithApply
    <3>2. PlanKey(line) = ApplyKey(line)
      BY <2>3, <3>1, SameKey DEF Plan
    <3> QED BY <2>3, <3>2 DEF Plan, Report, WouldResume
  <2>4. ASSUME NEW line \in CommandLines,
               StateShow(line) \/ StateClear(line) \/ ApplyFresh(line)
        PROVE  PlanAgreesWithApply'
    BY <2>4 DEF StateShow, StateClear, ApplyFresh, Report, PlanAgreesWithApply
  <2> QED BY <2>1, <2>2, <2>3, <2>4 DEF Next
<1> QED BY <1>1, <1>2, PTL DEF Spec
=============================================================================
