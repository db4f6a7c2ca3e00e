-------------------------- MODULE ApplyRun_proofs --------------------------
(***************************************************************************)
(* Proofs about ApplyRun, for every workflow and every number of faults.   *)
(* FileInv is what a saved state may be relied on for, RunInv what a run   *)
(* knows while it works on one; PhaseInv follows a run through a phase.    *)
(* They are inductive together and imply ApplyRun's safety properties.     *)
(***************************************************************************)
EXTENDS ApplyRun, SequenceTheorems, NaturalsInduction,
        FiniteSetTheorems, TLAPS

\* No completed phase produced a key whose value the file has not.
NothingMissing ==
  \A k \in file.secrets : Producer[k] \notin RangeOf(file.completed)

FileInv ==
  /\ file.vars \cap Secret = {}
  /\ RangeOf(file.completed) \subseteq whole
  /\ (file.phase = Completed /\ file.failed = NoPhase) \/ NothingMissing
  /\ \A k \in Keys \ Optional :
        Producer[k] \in RangeOf(file.completed) => k \in file.vars \cup file.secrets

RunInv ==
  pc # "idle" =>
    /\ vars \cap Secret \subseteq secrets
    /\ RangeOf(file.completed) \subseteq RangeOf(st.completed)
    /\ RangeOf(st.completed) \subseteq whole
    /\ \A k \in Keys \ Optional :
         Producer[k] \in RangeOf(st.completed) =>
           /\ k \in vars \cup secrets
           /\ ~onFinished => k \in vars

PhaseInv ==
  /\ pc = "batch" =>
       /\ Phase \notin RangeOf(st.completed)
       /\ \A b \in DOMAIN Batches[Phase] :
            b < batch => Batches[Phase][b].exports \ Optional \subseteq vars
  /\ pc # "idle" /\ selected = AllPhases =>
       \A p \in Phases : p < idx => p \in RangeOf(st.completed)
  /\ pc = "savePhase" => Phase \in RangeOf(st.completed)
  /\ pc = "saveEnd" => st.phase = Completed /\ st.failed = NoPhase

IInv == FileInv /\ RunInv /\ PhaseInv

-----------------------------------------------------------------------------
(* Lists of completed phases                                               *)

\* A set of naturals that is not empty has a least element.
LEMMA LeastExists ==
  ASSUME NEW S \in SUBSET Nat, S # {}
  PROVE  \E m \in S : \A n \in S : m <= n
<1> DEFINE Less == {pair \in Nat \X Nat : pair[1] < pair[2]}
<1>1. IsWellFoundedOn(Less, Nat)
  BY NatLessThanWellFounded DEF OpToRel
<1>2. PICK m \in S : \A n \in S : <<n, m>> \notin Less
  <2> HIDE DEF Less
  <2> QED BY <1>1, WFMin
<1>3. \A n \in S : ~(n < m)
  BY <1>2
<1> QED BY <1>3

\* The CHOOSE of Least has a witness.
LEMMA LeastIndex ==
  ASSUME NEW indices \in SUBSET Nat, indices # {}
  PROVE  /\ Least(indices) \in indices
         /\ \A j \in indices : Least(indices) <= j
<1>1. \E i \in indices : \A j \in indices : i <= j
  BY LeastExists
<1> QED BY <1>1 DEF Least

\* completedPhasesForState returns a list of phases it was given, without any
\* producer of the keys; a list that has no producer in it stays as it is.
LEMMA CutProperties ==
  ASSUME NEW completed \in Seq(Phases), NEW keys \in SUBSET Keys
  PROVE  /\ CompletedPhasesForState(completed, keys) \in Seq(Phases)
         /\ RangeOf(CompletedPhasesForState(completed, keys)) \subseteq RangeOf(completed)
         /\ \A k \in keys : Producer[k] \notin RangeOf(CompletedPhasesForState(completed, keys))
         /\ (\A k \in keys : Producer[k] \notin RangeOf(completed))
              => CompletedPhasesForState(completed, keys) = completed
<1> DEFINE at == ProducedAt(completed, keys)
           kept == CompletedPhasesForState(completed, keys)
<1>1. /\ DOMAIN completed = 1..Len(completed)
      /\ Len(completed) \in Nat
      /\ \A i \in 1..Len(completed) : completed[i] \in Phases
  BY LenProperties
<1>2. CASE at = {}
  <2>1. kept = completed
    BY <1>2 DEF CompletedPhasesForState
  <2>2. \A k \in keys : Producer[k] \notin RangeOf(completed)
    BY <1>2 DEF ProducedAt, RangeOf
  <2> QED BY <2>1, <2>2
<1>3. CASE at # {}
  <2> DEFINE first == Least(at)
  <2>1. at \in SUBSET Nat
    BY <1>1 DEF ProducedAt
  <2>2. first \in at /\ \A j \in at : first <= j
    <3> HIDE DEF at
    <3> QED BY <1>3, <2>1, LeastIndex
  <2>3. first \in 1..Len(completed)
    BY <1>1, <2>2 DEF ProducedAt
  <2>4. kept = SubSeq(completed, 1, first - 1)
    BY <1>3 DEF CompletedPhasesForState
  <2>5. /\ kept \in Seq(Phases)
        /\ Len(kept) = first - 1
        /\ \A i \in 1..(first - 1) : kept[i] = completed[i]
    <3> HIDE DEF first
    <3>1. \A i \in 1..(first - 1) : completed[i] \in Phases
      BY <1>1, <2>3
    <3>2. /\ SubSeq(completed, 1, first - 1) \in Seq(Phases)
          /\ Len(SubSeq(completed, 1, first - 1)) = first - 1
          /\ \A i \in 1..(first - 1) : SubSeq(completed, 1, first - 1)[i] = completed[i]
      BY <2>3, <3>1
    <3> QED BY <2>4, <3>2
  <2>6. DOMAIN kept = 1..(first - 1)
    BY <2>5, LenProperties
  <2>7. RangeOf(kept) \subseteq RangeOf(completed)
    <3> HIDE DEF kept, first
    <3> QED BY <1>1, <2>3, <2>5, <2>6 DEF RangeOf
  <2>8. \A k \in keys : Producer[k] \notin RangeOf(kept)
    <3>1. SUFFICES ASSUME NEW k \in keys, NEW i \in 1..(first - 1), completed[i] = Producer[k]
                   PROVE  FALSE
      <4> HIDE DEF kept, first
      <4> QED BY <2>5, <2>6 DEF RangeOf
    <3>2. i \in at
      BY <1>1, <2>3, <3>1 DEF ProducedAt
    <3> QED BY <2>2, <2>3, <3>2
  <2>9. \E k \in keys : Producer[k] \in RangeOf(completed)
    BY <1>3 DEF ProducedAt, RangeOf
  <2> QED BY <2>5, <2>7, <2>8, <2>9
<1> QED BY <1>2, <1>3

-----------------------------------------------------------------------------
(* Type correctness                                                        *)

\* Constants the proofs refer to.
LEMMA Constants ==
  /\ NumPhases \in Nat \ {0}
  /\ Completed \in Nat /\ Completed \notin Phases /\ NoPhase \notin Phases
  /\ Phases \subseteq 0..NumPhases /\ Phases \subseteq 0..Completed
  /\ \A k \in Keys : Producer[k] \in Phases
  /\ \A p \in Phases : Batches[p] \in Seq([reads : SUBSET Keys, exports : SUBSET Keys])
  /\ NoPhase \in 0..NumPhases /\ NoPhase \in 0..Completed /\ Completed \in 0..Completed
<1>1. NumPhases \in Nat \ {0}
  BY WorkflowAssumption DEF WorkflowAssumption
<1>2. \A k \in Keys : Producer[k] \in Phases
  BY WorkflowAssumption DEF WorkflowAssumption
<1>3. \A p \in Phases : Batches[p] \in Seq([reads : SUBSET Keys, exports : SUBSET Keys])
  BY WorkflowAssumption DEF WorkflowAssumption
<1>4. Completed \in Nat /\ Completed \notin Phases /\ NoPhase \notin Phases
  BY <1>1 DEF Phases, Completed, NoPhase
<1>5. Phases \subseteq 0..NumPhases /\ Phases \subseteq 0..Completed
  BY <1>1 DEF Phases, Completed
<1>6. NoPhase \in 0..NumPhases /\ NoPhase \in 0..Completed /\ Completed \in 0..Completed
  BY <1>1 DEF Completed, NoPhase
<1> QED BY <1>1, <1>2, <1>3, <1>4, <1>5, <1>6

\* What is written is a state file, for each of the two lists of phases.
LEMMA SavedType ==
  ASSUME TypeOK, NEW b \in BOOLEAN
  PROVE  SanitizedState(b) \in Files
<1>1. /\ st \in States /\ vars \in SUBSET Keys /\ secrets \in SUBSET Secret
      /\ secrets \in SUBSET Keys
  BY WorkflowAssumption DEF TypeOK, WorkflowAssumption
<1>2. /\ st.completed \in Seq(Phases)
      /\ CompletedPhasesForState(st.completed, secrets) \in Seq(Phases)
  BY <1>1, CutProperties DEF States
<1>3. ASSUME NEW c \in Seq(Phases) PROVE StateFile(c) \in Files
  BY <1>1, Constants DEF StateFile, Files, States, PublicRuntimeVars
<1> QED BY <1>2, <1>3 DEF SanitizedState

\* Resetting a state file gives a state file.
LEMMA ResetType ==
  ASSUME NEW f \in Files
  PROVE  ResetCompletedPhasesForMissingSecrets(f) \in Files
<1>1. f.secrets \ f.vars \in SUBSET Keys
  BY WorkflowAssumption DEF Files, WorkflowAssumption
<1>2. CompletedPhasesForState(f.completed, f.secrets \ f.vars) \in Seq(Phases)
  BY <1>1, CutProperties DEF Files
<1> QED
  BY <1>2, Constants DEF ResetCompletedPhasesForMissingSecrets, Files

\* A run starts well typed.
LEMMA BeginType ==
  ASSUME NEW f \in Files, NEW sel \in Seq(Phases), sel # <<>>, Begin(f, sel)
  PROVE  /\ st' \in States /\ vars' \in SUBSET Keys /\ secrets' \in SUBSET Secret
         /\ selected' \in Seq(Phases) /\ idx' \in 1..(Len(selected') + 1)
         /\ batch' \in Nat \ {0} /\ pc' = "loop"
BY DEF Begin, States, Files

LEMMA Selections ==
  /\ AllPhases \in Seq(Phases) /\ AllPhases # <<>> /\ Len(AllPhases) = NumPhases
  /\ \A p \in Phases : AllPhases[p] = p
  /\ \A p \in Phases : <<p>> \in Seq(Phases) /\ <<p>> # <<>> /\ Len(<<p>>) = 1
BY Constants DEF AllPhases, Phases

LEMMA EmptyStateType == EmptyState \in Files
BY Constants DEF EmptyState, Files

\* Type correctness holds in every reachable state.
THEOREM TypeCorrect == Spec => []TypeOK
<1>1. Init => TypeOK
  <2> SUFFICES ASSUME Init PROVE TypeOK
    OBVIOUS
  <2>1. <<>> \in Seq(Phases) /\ Len(<<>>) = 0
    OBVIOUS
  <2>2. st \in States
    BY <2>1, Constants DEF Init, States
  <2>3. selected \in Seq(Phases) /\ idx \in 1..(Len(selected) + 1)
    BY <2>1 DEF Init
  <2>4. recorded \in Seq(Phases) /\ file \in Files
    BY <2>1, EmptyStateType DEF Init
  <2>5. onFinished \in BOOLEAN
    BY Zenon DEF Init
  <2>6. pc = "idle" /\ vars = {} /\ secrets = {} /\ batch = 1 /\ faults = 0 /\ whole = {}
    BY Zenon DEF Init
  <2> QED BY <2>2, <2>3, <2>4, <2>5, <2>6 DEF TypeOK
<1>2. TypeOK /\ [Next]_applyVars => TypeOK'
  <2> SUFFICES ASSUME TypeOK, [Next]_applyVars PROVE TypeOK'
    OBVIOUS
  <2> USE DEF TypeOK
  <2>1. CASE Apply
    <3>1. ResetCompletedPhasesForMissingSecrets(file) \in Files
      BY ResetType
    <3> QED BY <2>1, <3>1, BeginType, Selections DEF Apply
  <2>2. CASE ApplyOnePhase
    <3>1. ResetCompletedPhasesForMissingSecrets(file) \in Files
      BY ResetType
    <3>2. PICK p \in Phases : Begin(ResetCompletedPhasesForMissingSecrets(file), <<p>>)
      BY <2>2 DEF ApplyOnePhase
    <3>3. <<p>> \in Seq(Phases) /\ <<p>> # <<>>
      BY Selections
    <3>4. /\ st' \in States /\ vars' \in SUBSET Keys /\ secrets' \in SUBSET Secret
          /\ selected' \in Seq(Phases) /\ idx' \in 1..(Len(selected') + 1)
          /\ batch' \in Nat \ {0} /\ pc' = "loop"
      BY <3>1, <3>2, <3>3, BeginType
    <3> QED BY <2>2, <3>4 DEF ApplyOnePhase
  <2>3. CASE ApplyFresh
    <3>1. PICK sel \in {AllPhases} \cup {<<p>> : p \in Phases} : Begin(EmptyState, sel)
      BY <2>3 DEF ApplyFresh
    <3>2. sel \in Seq(Phases) /\ sel # <<>>
      BY Selections
    <3>3. /\ st' \in States /\ vars' \in SUBSET Keys /\ secrets' \in SUBSET Secret
          /\ selected' \in Seq(Phases) /\ idx' \in 1..(Len(selected') + 1)
          /\ batch' \in Nat \ {0} /\ pc' = "loop"
      BY <3>1, <3>2, BeginType, EmptyStateType
    <3>4. recorded' \in Seq(Phases) /\ file' \in Files
      BY <2>3, EmptyStateType DEF ApplyFresh
    <3>5. whole' = {} /\ faults' \in Nat
      BY <2>3 DEF ApplyFresh
    <3>6. onFinished' \in BOOLEAN
      BY <2>3, Zenon DEF ApplyFresh
    <3> QED BY <3>3, <3>4, <3>5, <3>6
  <2>4. CASE SkipCompletedPhase
    <3>1. Phase \in Phases /\ idx + 1 \in 1..(Len(selected) + 1)
      BY <2>4 DEF SkipCompletedPhase, Phase
    <3>2. st' \in States
      BY <2>4, <3>1, Constants DEF SkipCompletedPhase, States
    <3> QED BY <2>4, <3>1, <3>2 DEF SkipCompletedPhase, history
  <2>5. CASE StartPhase
    <3>1. Phase \in Phases
      BY <2>5 DEF StartPhase, Phase
    <3>2. st' \in States
      BY <2>5, <3>1, Constants DEF StartPhase, States
    <3> QED BY <2>5, <3>1, <3>2 DEF StartPhase
  <2>6. ASSUME NEW e \in SUBSET Keys
        PROVE  vars \cup e \in SUBSET Keys /\ MarkSecrets(e) \in SUBSET Secret
    BY DEF MarkSecrets
  <2>7. ASSUME pc = "batch", batch <= Len(Batches[Phase])
        PROVE  CurrentBatch.exports \in SUBSET Keys /\ Phase \in Phases
    <3>1. Phase \in Phases
      BY <2>7 DEF Phase
    <3>2. Batches[Phase] \in Seq([reads : SUBSET Keys, exports : SUBSET Keys])
      BY <3>1, Constants
    <3>3. batch \in 1..Len(Batches[Phase])
      BY <2>7, <3>2
    <3>4. CurrentBatch \in [reads : SUBSET Keys, exports : SUBSET Keys]
      BY <3>2, <3>3, ElementOfSeq DEF CurrentBatch
    <3> QED BY <3>1, <3>4
  <2>8. CASE RunBatch
    BY <2>6, <2>7, <2>8 DEF RunBatch, history
  <2>9. ASSUME NEW e \in SUBSET CurrentBatch.exports, FailInBatch(e)
        PROVE  /\ vars' \subseteq Keys /\ secrets' \subseteq Secret /\ st' \in States
               /\ UNCHANGED <<file, selected, idx, batch, history>> /\ pc' = "saveFailed"
               /\ pc = "batch"
    BY <2>6, <2>7, <2>9, Constants DEF FailInBatch, States
  <2>10. CASE FailOnMissingKey
    BY <2>9, <2>10 DEF FailOnMissingKey, history
  <2>11. CASE FailStep
    BY <2>9, <2>11 DEF FailStep, history
  <2>12. CASE FinishPhase
    <3>1. Phase \in Phases
      BY <2>12 DEF FinishPhase, Phase
    <3>2. Append(st.completed, Phase) \in Seq(Phases)
      BY <3>1 DEF States
    <3> QED BY <2>12, <3>1, <3>2, Constants DEF FinishPhase, States
  <2>13. CASE FinishRun
    BY <2>13, Constants DEF FinishRun, States, history
  <2>14. CASE SaveFailed
    BY <2>14, SavedType DEF SaveFailed, history
  <2>15. CASE SavePhase
    <3>1. Phase \in Phases /\ idx + 1 \in 1..(Len(selected) + 1)
      BY <2>15 DEF SavePhase, Phase
    <3>2. recorded' \in Seq(Phases)
      BY <2>15, <3>1 DEF SavePhase
    <3> QED BY <2>15, <3>1, <3>2, SavedType DEF SavePhase
  <2>16. CASE SaveEnd
    BY <2>16, SavedType DEF SaveEnd, history
  <2>17. CASE Stop
    BY <2>17 DEF Stop, history
  <2>18. CASE UNCHANGED applyVars
    BY <2>18 DEF applyVars, procVars, history
  <2> QED
    BY <2>1, <2>2, <2>3, <2>4, <2>5, <2>8, <2>10, <2>11, <2>12, <2>13, <2>14, <2>15,
       <2>16, <2>17, <2>18 DEF Next, Loop, Save
<1> QED BY <1>1, <1>2, PTL DEF Spec

-----------------------------------------------------------------------------
(* The inductive invariant                                                 *)

\* A run that loads the file skips what the file lists: the reset never drops
\* a phase.
LEMMA ResetKeepsCompleted ==
  ASSUME TypeOK, FileInv
  PROVE  LET loaded == ResetCompletedPhasesForMissingSecrets(file) IN
         /\ loaded.completed = file.completed
         /\ loaded.vars = file.vars
         /\ loaded.secrets = file.secrets
<1> DEFINE missing == file.secrets \ file.vars
<1>1. missing \in SUBSET Keys /\ file.completed \in Seq(Phases) /\ file \in Files
  BY WorkflowAssumption DEF TypeOK, Files, WorkflowAssumption
<1>2. CASE file.phase = Completed /\ file.failed = NoPhase
  BY <1>2 DEF ResetCompletedPhasesForMissingSecrets
<1>3. CASE NothingMissing
  <2>1. CompletedPhasesForState(file.completed, missing) = file.completed
    BY <1>1, <1>3, CutProperties DEF NothingMissing
  <2> QED BY <1>1, <2>1 DEF ResetCompletedPhasesForMissingSecrets, Files
<1> QED BY <1>2, <1>3 DEF FileInv

\* What a run knows when it starts on a file.
LEMMA BeginInv ==
  ASSUME TypeOK, FileInv, NEW sel,
         Begin(ResetCompletedPhasesForMissingSecrets(file), sel),
         UNCHANGED <<file, whole>>, ~onFinished' => file.phase # Completed
  PROVE  IInv'
<1>1. /\ st'.completed = file.completed /\ vars' = file.vars /\ secrets' = file.secrets
      /\ pc' = "loop" /\ idx' = 1
  BY ResetKeepsCompleted DEF Begin
<1>2. FileInv'
  BY DEF FileInv, NothingMissing
<1>3. ASSUME NEW k \in Keys \ Optional, Producer[k] \in RangeOf(file.completed)
      PROVE  k \in vars' \cup secrets' /\ (~onFinished' => k \in vars')
  BY <1>1, <1>3 DEF FileInv, NothingMissing
<1>4. RunInv'
  BY <1>1, <1>3 DEF RunInv, FileInv
<1>5. PhaseInv'
  <2>1. \A p \in Phases : ~(p < 1)
    BY Constants DEF Phases
  <2> QED BY <1>1, <2>1 DEF PhaseInv
<1> QED BY <1>2, <1>4, <1>5 DEF IInv

\* Exports only add to what a run knows.
LEMMA ExportInv ==
  ASSUME TypeOK, RunInv, pc # "idle", NEW e \in SUBSET Keys,
         vars' = vars \cup e, secrets' = MarkSecrets(e)
  PROVE  /\ vars' \cap Secret \subseteq secrets'
         /\ vars \subseteq vars' /\ vars \cup secrets \subseteq vars' \cup secrets'
BY DEF RunInv, MarkSecrets

\* Whatever a run saves before its end can be resumed.
LEMMA SavedInv ==
  ASSUME TypeOK, RunInv, pc # "idle", file' = SanitizedState(FALSE), UNCHANGED whole
  PROVE  FileInv' /\ RangeOf(file'.completed) \subseteq RangeOf(st.completed)
<1> DEFINE kept == CompletedPhasesForState(st.completed, secrets)
<1>1. /\ st.completed \in Seq(Phases) /\ secrets \in SUBSET Keys
  BY WorkflowAssumption DEF TypeOK, States, WorkflowAssumption
<1>2. /\ RangeOf(kept) \subseteq RangeOf(st.completed)
      /\ \A k \in secrets : Producer[k] \notin RangeOf(kept)
  BY <1>1, CutProperties
<1>3. file'.completed = kept /\ file'.vars = vars \ secrets /\ file'.secrets = secrets
  BY DEF SanitizedState, StateFile, PublicRuntimeVars
<1> HIDE DEF kept
<1>4. file'.vars \cap Secret = {}
  BY <1>3 DEF RunInv
<1>5. RangeOf(file'.completed) \subseteq whole'
  BY <1>2, <1>3 DEF RunInv
<1>6. NothingMissing'
  BY <1>2, <1>3 DEF NothingMissing
<1>7. ASSUME NEW k \in Keys \ Optional, Producer[k] \in RangeOf(file'.completed)
      PROVE  k \in file'.vars \cup file'.secrets
  BY <1>2, <1>3, <1>7 DEF RunInv
<1> QED BY <1>2, <1>3, <1>4, <1>5, <1>6, <1>7 DEF FileInv

\* Facts about the lists used below.
LEMMA RangeFacts ==
  /\ RangeOf(<<>>) = {}
  /\ \A s \in Seq(Phases), p \in Phases : RangeOf(Append(s, p)) = RangeOf(s) \cup {p}
<1>1. RangeOf(<<>>) = {}
  BY DEF RangeOf
<1>2. ASSUME NEW s \in Seq(Phases), NEW p \in Phases
      PROVE  RangeOf(Append(s, p)) = RangeOf(s) \cup {p}
  <2>1. /\ DOMAIN s = 1..Len(s) /\ DOMAIN Append(s, p) = 1..(Len(s) + 1)
        /\ \A i \in 1..Len(s) : Append(s, p)[i] = s[i]
        /\ Append(s, p)[Len(s) + 1] = p /\ Len(s) \in Nat
    BY AppendProperties, LenProperties
  <2>2. \A i \in 1..(Len(s) + 1) : i \in 1..Len(s) \/ i = Len(s) + 1
    BY <2>1
  <2> QED BY <2>1, <2>2 DEF RangeOf
<1> QED BY <1>1, <1>2

\* The files, runs and phases of every reachable state are as IInv says.
THEOREM Inductive == Spec => []IInv
<1>1. Init => IInv
  <2> SUFFICES ASSUME Init PROVE IInv
    OBVIOUS
  <2>1. /\ pc = "idle" /\ file.completed = <<>> /\ file.vars = {} /\ file.secrets = {}
    BY Zenon DEF Init, EmptyState
  <2> QED BY <2>1, RangeFacts DEF IInv, FileInv, RunInv, PhaseInv, NothingMissing
<1>2. TypeOK /\ TypeOK' /\ IInv /\ [Next]_applyVars => IInv'
  <2> SUFFICES ASSUME TypeOK, TypeOK', IInv, [Next]_applyVars PROVE IInv'
    OBVIOUS
  <2>i. FileInv /\ RunInv /\ PhaseInv
    BY DEF IInv
  <2>1. CASE Apply
    <3>1. ~onFinished' => file.phase # Completed
      BY <2>1, Zenon DEF Apply
    <3> QED BY <2>1, <2>i, <3>1, BeginInv DEF Apply
  <2>2. CASE ApplyOnePhase
    <3>1. ~onFinished' => file.phase # Completed
      BY <2>2, Zenon DEF ApplyOnePhase
    <3> QED BY <2>2, <2>i, <3>1, BeginInv DEF ApplyOnePhase
  <2>3. CASE ApplyFresh
    <3>1. /\ file' = EmptyState /\ whole' = {} /\ pc' = "loop" /\ idx' = 1
          /\ st'.completed = <<>> /\ vars' = {} /\ secrets' = {}
      BY <2>3 DEF ApplyFresh, Begin, EmptyState
    <3>2. /\ file'.completed = <<>> /\ file'.vars = {} /\ file'.secrets = {}
      BY <3>1 DEF EmptyState
    <3>3. \A p \in Phases : ~(p < 1)
      BY Constants DEF Phases
    <3> QED BY <3>1, <3>2, <3>3, RangeFacts DEF IInv, FileInv, RunInv, PhaseInv, NothingMissing
  <2>4. CASE SkipCompletedPhase
    <3>1. UNCHANGED <<file, whole, pc, vars, secrets, selected, onFinished>>
          /\ st'.completed = st.completed /\ idx' = idx + 1 /\ pc = "loop"
      BY <2>4 DEF SkipCompletedPhase, history, TypeOK, States
    <3>2. selected = AllPhases => \A p \in Phases : p < idx + 1 => p \in RangeOf(st.completed)
      <4>1. ASSUME selected = AllPhases PROVE idx \in Phases /\ Phase = idx
        BY <2>4, <4>1, Selections, Constants DEF SkipCompletedPhase, Phase, TypeOK, Phases
      <4>2. \A p \in Phases : p < idx + 1 => p < idx \/ p = idx
        BY Constants DEF TypeOK, Phases
      <4>3. Phase \in RangeOf(st.completed)
        BY <2>4 DEF SkipCompletedPhase
      <4> QED BY <2>i, <3>1, <4>1, <4>2, <4>3 DEF PhaseInv
    <3> QED BY <2>i, <3>1, <3>2 DEF IInv, FileInv, RunInv, PhaseInv, NothingMissing
  <2>5. CASE StartPhase
    <3>1. /\ UNCHANGED <<file, vars, secrets, selected, idx, onFinished>>
          /\ st'.completed = st.completed /\ pc' = "batch" /\ batch' = 1 /\ pc = "loop"
          /\ whole' = whole \ {Phase} /\ Phase \notin RangeOf(st.completed)
      BY <2>5 DEF StartPhase, TypeOK, States
    <3>2. FileInv' /\ RunInv'
      BY <2>i, <3>1 DEF FileInv, RunInv, NothingMissing
    <3>3. Phase' = Phase
      BY <3>1 DEF Phase
    <3>4. Phase \in Phases
      BY <2>5 DEF StartPhase, Phase, TypeOK
    <3>5. \A b \in DOMAIN Batches[Phase] : ~(b < 1)
      BY <3>4, Constants, LenProperties
    <3> QED BY <2>i, <3>1, <3>2, <3>3, <3>5 DEF IInv, PhaseInv
  <2>6. ASSUME pc = "batch", batch <= Len(Batches[Phase])
        PROVE  /\ Phase \in Phases /\ CurrentBatch.exports \in SUBSET Keys
    <3>1. Phase \in Phases
      BY <2>6 DEF Phase, TypeOK
    <3>2. Batches[Phase] \in Seq([reads : SUBSET Keys, exports : SUBSET Keys])
      BY <3>1, Constants
    <3>3. batch \in 1..Len(Batches[Phase])
      BY <2>6, <3>2 DEF TypeOK
    <3>4. CurrentBatch \in [reads : SUBSET Keys, exports : SUBSET Keys]
      BY <3>2, <3>3, ElementOfSeq DEF CurrentBatch
    <3> QED BY <3>1, <3>4
  <2>7. CASE RunBatch
    <3>1. PICK skipped \in SUBSET (CurrentBatch.exports \cap Optional) :
            /\ vars' = vars \cup (CurrentBatch.exports \ skipped)
            /\ secrets' = MarkSecrets(CurrentBatch.exports \ skipped)
      BY <2>7 DEF RunBatch
    <3>2. /\ UNCHANGED <<file, pc, st, selected, idx, whole, onFinished>>
          /\ pc = "batch" /\ batch' = batch + 1 /\ batch <= Len(Batches[Phase])
      BY <2>7 DEF RunBatch, history
    <3>3. CurrentBatch.exports \ skipped \in SUBSET Keys
      BY <2>6, <3>2
    <3>4. /\ vars' \cap Secret \subseteq secrets'
          /\ vars \subseteq vars' /\ vars \cup secrets \subseteq vars' \cup secrets'
      BY <2>i, <3>1, <3>2, <3>3, ExportInv
    <3>5. FileInv' /\ RunInv'
      BY <2>i, <3>2, <3>4 DEF FileInv, RunInv, NothingMissing
    <3>6. Phase' = Phase
      BY <3>2 DEF Phase
    <3>7. ASSUME NEW b \in DOMAIN Batches[Phase], b < batch + 1
          PROVE  Batches[Phase][b].exports \ Optional \subseteq vars'
      <4>1. b \in Nat /\ batch \in Nat
        BY <2>6, <3>2, Constants, LenProperties DEF TypeOK
      <4>2. CASE b = batch
        BY <3>1, <4>2 DEF CurrentBatch
      <4>3. CASE b < batch
        BY <2>i, <3>2, <3>4, <4>3 DEF PhaseInv
      <4> QED BY <3>7, <4>1, <4>2, <4>3
    <3> QED BY <2>i, <3>2, <3>5, <3>6, <3>7 DEF IInv, PhaseInv
  <2>8. ASSUME NEW e \in SUBSET CurrentBatch.exports, FailInBatch(e)
        PROVE  IInv'
    <3>1. /\ UNCHANGED <<file, selected, idx, batch, whole, onFinished>>
          /\ pc = "batch" /\ pc' = "saveFailed" /\ st'.completed = st.completed
          /\ vars' = vars \cup e /\ secrets' = MarkSecrets(e)
          /\ batch <= Len(Batches[Phase])
      BY <2>8 DEF FailInBatch, history, TypeOK, States
    <3>2. /\ vars' \cap Secret \subseteq secrets'
          /\ vars \subseteq vars' /\ vars \cup secrets \subseteq vars' \cup secrets'
      BY <2>i, <2>6, <3>1, ExportInv
    <3>3. FileInv' /\ RunInv'
      BY <2>i, <3>1, <3>2 DEF FileInv, RunInv, NothingMissing
    <3> QED BY <2>i, <3>1, <3>3 DEF IInv, PhaseInv
  <2>9. CASE FailOnMissingKey
    BY <2>8, <2>9 DEF FailOnMissingKey
  <2>10. CASE FailStep
    <3>1. PICK e \in SUBSET (CurrentBatch.exports \ Secret) : FailInBatch(e)
      BY <2>10 DEF FailStep
    <3> QED BY <2>8, <3>1
  <2>11. CASE FinishPhase
    <3>1. /\ UNCHANGED <<file, vars, secrets, selected, idx, batch, onFinished>>
          /\ pc = "batch" /\ pc' = "savePhase" /\ whole' = whole \cup {Phase}
          /\ st'.completed = Append(st.completed, Phase) /\ batch > Len(Batches[Phase])
      BY <2>11 DEF FinishPhase, TypeOK, States
    <3>2. Phase \in Phases
      BY <3>1 DEF Phase, TypeOK
    <3>3. RangeOf(st'.completed) = RangeOf(st.completed) \cup {Phase}
      BY <3>1, <3>2, RangeFacts DEF TypeOK, States
    <3>4. ASSUME NEW k \in Keys \ Optional, Producer[k] = Phase
          PROVE  k \in vars
      <4>1. PICK b \in DOMAIN Batches[Phase] : k \in Batches[Phase][b].exports
        BY <3>4, WorkflowAssumption DEF WorkflowAssumption
      <4>2. b < batch
        BY <3>1, <3>2, Constants, LenProperties DEF TypeOK
      <4> QED BY <2>i, <3>1, <4>1, <4>2 DEF PhaseInv
    <3>5. FileInv' /\ RunInv'
      BY <2>i, <3>1, <3>3, <3>4 DEF FileInv, RunInv, NothingMissing
    <3>6. Phase' = Phase
      BY <3>1 DEF Phase
    <3> QED BY <2>i, <3>1, <3>3, <3>5, <3>6 DEF IInv, PhaseInv
  <2>12. CASE FinishRun
    <3>1. /\ UNCHANGED <<file, vars, secrets, selected, idx, whole, onFinished>>
          /\ pc = "loop" /\ pc' = "saveEnd" /\ st'.completed = st.completed
          /\ st'.phase = Completed /\ st'.failed = NoPhase
      BY <2>12 DEF FinishRun, history, TypeOK, States
    <3> QED BY <2>i, <3>1 DEF IInv, FileInv, RunInv, PhaseInv, NothingMissing
  <2>13. CASE SaveFailed
    <3>1. /\ file' = SanitizedState(FALSE) /\ pc = "saveFailed" /\ pc' = "idle"
          /\ UNCHANGED <<st, whole>>
      BY <2>13 DEF SaveFailed, history
    <3>2. FileInv'
      BY <2>i, <3>1, SavedInv
    <3> QED BY <3>1, <3>2 DEF IInv, RunInv, PhaseInv
  <2>14. CASE SavePhase
    <3>1. /\ file' = SanitizedState(FALSE) /\ pc = "savePhase" /\ pc' = "loop"
          /\ idx' = idx + 1 /\ idx <= Len(selected)
          /\ UNCHANGED <<st, vars, secrets, selected, whole, onFinished>>
      BY <2>14 DEF SavePhase, TypeOK
    <3>2. FileInv' /\ RangeOf(file'.completed) \subseteq RangeOf(st.completed)
      BY <2>i, <3>1, SavedInv
    <3>3. RunInv'
      BY <2>i, <3>1, <3>2 DEF RunInv
    <3>4. selected = AllPhases => \A p \in Phases : p < idx + 1 => p \in RangeOf(st.completed)
      BY <2>i, <3>1, Selections DEF PhaseInv, Phase, TypeOK, Phases
    <3> QED BY <3>1, <3>2, <3>3, <3>4 DEF IInv, PhaseInv
  <2>15. CASE SaveEnd
    <3>1. /\ file' = SanitizedState(TRUE) /\ pc = "saveEnd" /\ pc' = "idle"
          /\ UNCHANGED <<st, whole>>
      BY <2>15 DEF SaveEnd, history
    <3>2. /\ file'.completed = st.completed /\ file'.vars = vars \ secrets
          /\ file'.secrets = secrets /\ file'.phase = Completed /\ file'.failed = NoPhase
      BY <2>i, <3>1 DEF SanitizedState, StateFile, PublicRuntimeVars, PhaseInv
    <3>3. FileInv'
      BY <2>i, <3>1, <3>2 DEF FileInv, RunInv
    <3> QED BY <3>1, <3>3 DEF IInv, RunInv, PhaseInv
  <2>16. CASE Stop
    BY <2>16, <2>i DEF Stop, history, IInv, FileInv, RunInv, PhaseInv, NothingMissing
  <2>17. CASE UNCHANGED applyVars
    BY <2>17, <2>i DEF applyVars, procVars, history, IInv, FileInv, RunInv, PhaseInv,
                       NothingMissing, Phase
  <2> QED
    BY <2>1, <2>2, <2>3, <2>4, <2>5, <2>7, <2>9, <2>10, <2>11, <2>12, <2>13, <2>14,
       <2>15, <2>16, <2>17 DEF Next, Loop, Save
<1> QED BY <1>1, <1>2, TypeCorrect, PTL DEF Spec

-----------------------------------------------------------------------------
(* What follows from it                                                    *)

\* No reachable state file holds the value of a secret input.
THEOREM SecretsNeverStoredHolds == Spec => []SecretsNeverStored
<1>1. IInv => SecretsNeverStored
  BY DEF IInv, FileInv, SecretsNeverStored
<1> QED BY <1>1, Inductive, PTL

\* A phase that later runs skip has run to its end and was not started since.
THEOREM CompletedReallyRanHolds == Spec => []CompletedReallyRan
<1>1. IInv => CompletedReallyRan
  BY DEF IInv, FileInv, CompletedReallyRan
<1> QED BY <1>1, Inductive, PTL

\* A plan shows as skipped what a run would skip.
THEOREM PlanMatchesApplyHolds == Spec => []PlanMatchesApply
<1>1. TypeOK /\ IInv => PlanMatchesApply
  BY ResetKeepsCompleted DEF IInv, PlanMatchesApply
<1> QED BY <1>1, TypeCorrect, Inductive, PTL

\* A run of the whole workflow that resumes an unfinished one never lacks an
\* export of a phase it skipped.
THEOREM ResumeSeesEarlierExportsHolds == Spec => []ResumeSeesEarlierExports
<1>1. TypeOK /\ IInv => ResumeSeesEarlierExports
  <2> SUFFICES ASSUME TypeOK, IInv, pc = "batch", selected = AllPhases, ~onFinished,
                      NEW k \in Keys \ Optional, Producer[k] < Phase
               PROVE  k \in vars
    BY DEF ResumeSeesEarlierExports
  <2>1. Phase = idx
    BY Selections DEF TypeOK, Phase, Phases
  <2>2. Producer[k] \in RangeOf(st.completed)
    BY <2>1, Constants DEF IInv, PhaseInv
  <2> QED BY <2>2 DEF IInv, RunInv
<1> QED BY <1>1, TypeCorrect, Inductive, PTL

-----------------------------------------------------------------------------
(* A phase starts again only for the sake of a secret                      *)

Distinct(list) == \A i, j \in DOMAIN list : list[i] = list[j] => i = j

\* The list begins with the phases that were recorded first, as far as none of
\* them produced one of the keys.
Follows(list, order, keys) ==
  \A i \in DOMAIN order :
    (\A k \in keys : \A j \in 1..i : order[j] # Producer[k])
      => i \in DOMAIN list /\ list[i] = order[i]

\* FileOrder and RunOrder compare the completed phases of the file, and of a
\* run, with the order in which they were first recorded.
FileOrder ==
  /\ Distinct(file.completed) /\ Follows(file.completed, recorded, file.secrets)
  /\ RangeOf(file.completed) \subseteq RangeOf(recorded)

RunOrder ==
  pc # "idle" =>
    /\ Distinct(st.completed) /\ Follows(st.completed, recorded, secrets)
    /\ IF pc = "savePhase"
       THEN /\ Len(st.completed) > 0 /\ st.completed[Len(st.completed)] = Phase
            /\ \A i \in 1..(Len(st.completed) - 1) : st.completed[i] \in RangeOf(recorded)
       ELSE RangeOf(st.completed) \subseteq RangeOf(recorded)

OrderInv == FileOrder /\ RunOrder

\* What is cut off a list begins with a producer of one of the keys.
LEMMA CutIsPrefix ==
  ASSUME NEW completed \in Seq(Phases), NEW keys \in SUBSET Keys
  PROVE  LET kept == CompletedPhasesForState(completed, keys) IN
         /\ \A i \in DOMAIN kept : i \in DOMAIN completed /\ kept[i] = completed[i]
         /\ \A i \in DOMAIN completed :
              (\A k \in keys : \A j \in 1..i : completed[j] # Producer[k]) => i \in DOMAIN kept
<1> DEFINE at == ProducedAt(completed, keys)
           first == Least(at)
           kept == CompletedPhasesForState(completed, keys)
<1>1. /\ DOMAIN completed = 1..Len(completed) /\ Len(completed) \in Nat
      /\ \A i \in 1..Len(completed) : completed[i] \in Phases
  BY LenProperties
<1>2. CASE at = {}
  BY <1>2 DEF CompletedPhasesForState
<1>3. CASE at # {}
  <2>1. first \in at
    <3>1. at \in SUBSET Nat
      BY <1>1 DEF ProducedAt
    <3> HIDE DEF at
    <3> QED BY <1>3, <3>1, LeastIndex
  <2>2. first \in 1..Len(completed) /\ \E k \in keys : completed[first] = Producer[k]
    BY <1>1, <2>1 DEF ProducedAt
  <2>3. kept = SubSeq(completed, 1, first - 1)
    BY <1>3 DEF CompletedPhasesForState
  <2> HIDE DEF first, kept
  <2>4. /\ SubSeq(completed, 1, first - 1) \in Seq(Phases)
        /\ Len(SubSeq(completed, 1, first - 1)) = first - 1
        /\ \A i \in 1..(first - 1) : SubSeq(completed, 1, first - 1)[i] = completed[i]
    <3>1. \A i \in 1..(first - 1) : completed[i] \in Phases
      BY <1>1, <2>2
    <3> QED BY <2>2, <3>1
  <2>5. DOMAIN kept = 1..(first - 1) /\ \A i \in 1..(first - 1) : kept[i] = completed[i]
    BY <2>3, <2>4, LenProperties
  <2>6. \A i \in DOMAIN kept : i \in DOMAIN completed /\ kept[i] = completed[i]
    BY <1>1, <2>2, <2>5
  <2>7. ASSUME NEW i \in DOMAIN completed,
               \A k \in keys : \A j \in 1..i : completed[j] # Producer[k]
        PROVE  i \in DOMAIN kept
    <3>1. first \notin 1..i
      BY <2>2, <2>7
    <3> QED BY <1>1, <2>2, <2>5, <3>1
  <2> QED BY <2>6, <2>7 DEF kept
<1> QED BY <1>2, <1>3

LEMMA CutFollows ==
  ASSUME NEW list \in Seq(Phases), NEW order \in Seq(Phases), NEW keys \in SUBSET Keys,
         Follows(list, order, keys), Distinct(list)
  PROVE  /\ Follows(CompletedPhasesForState(list, keys), order, keys)
         /\ Distinct(CompletedPhasesForState(list, keys))
<1> DEFINE kept == CompletedPhasesForState(list, keys)
<1>1. /\ \A i \in DOMAIN kept : i \in DOMAIN list /\ kept[i] = list[i]
      /\ \A i \in DOMAIN list :
           (\A k \in keys : \A j \in 1..i : list[j] # Producer[k]) => i \in DOMAIN kept
  BY CutIsPrefix
<1>2. DOMAIN order = 1..Len(order) /\ Len(order) \in Nat
  BY LenProperties
<1> HIDE DEF kept
<1>3. ASSUME NEW i \in DOMAIN order, \A k \in keys : \A j \in 1..i : order[j] # Producer[k]
      PROVE  i \in DOMAIN kept /\ kept[i] = order[i]
  <2>1. ASSUME NEW j \in 1..i PROVE j \in DOMAIN list /\ list[j] = order[j]
    <3>1. j \in DOMAIN order /\ 1..j \subseteq 1..i
      BY <1>2
    <3> QED BY <1>3, <3>1 DEF Follows
  <2>2. i \in 1..i
    BY <1>2
  <2>3. i \in DOMAIN list /\ \A k \in keys : \A j \in 1..i : list[j] # Producer[k]
    BY <1>3, <2>1, <2>2
  <2> QED BY <1>1, <2>1, <2>2, <2>3
<1>4. Distinct(kept)
  BY <1>1 DEF Distinct
<1> QED BY <1>3, <1>4 DEF Follows, kept

\* Marking more secrets only asks for less.
LEMMA FollowsFewer ==
  ASSUME NEW list, NEW order, NEW keys, NEW more, keys \subseteq more,
         Follows(list, order, keys)
  PROVE  Follows(list, order, more)
BY DEF Follows

\* A phase that is recorded for the first time is the next of the list, unless
\* something was cut off before.
LEMMA RecordedFollows ==
  ASSUME NEW list \in Seq(Phases), NEW order \in Seq(Phases), NEW keys, NEW p \in Phases,
         Follows(list, order, keys), Distinct(list), p \notin RangeOf(order),
         Len(list) > 0, list[Len(list)] = p,
         \A i \in 1..(Len(list) - 1) : list[i] \in RangeOf(order)
  PROVE  Follows(list, Append(order, p), keys)
<1> DEFINE n == Len(order)
           longer == Append(order, p)
<1>1. /\ DOMAIN order = 1..n /\ n \in Nat /\ DOMAIN longer = 1..(n + 1)
      /\ \A i \in 1..n : longer[i] = order[i]
      /\ longer[n + 1] = p
  BY AppendProperties, LenProperties
<1>2. DOMAIN list = 1..Len(list) /\ Len(list) \in Nat
  BY LenProperties
<1> HIDE DEF n, longer
<1>3. SUFFICES ASSUME NEW i \in 1..(n + 1),
                      \A k \in keys : \A j \in 1..i : longer[j] # Producer[k]
               PROVE  i \in DOMAIN list /\ list[i] = longer[i]
  BY <1>1 DEF Follows, longer
<1>4. ASSUME NEW m \in 1..n, m <= i PROVE m \in DOMAIN list /\ list[m] = order[m]
  <2>1. \A k \in keys : \A j \in 1..m : order[j] # Producer[k]
    <3>1. \A j \in 1..m : j \in 1..i /\ j \in 1..n
      BY <1>1, <1>4
    <3> QED BY <1>1, <1>3, <3>1
  <2> QED BY <1>1, <2>1 DEF Follows
<1>5. CASE i \in 1..n
  BY <1>1, <1>4, <1>5
<1>6. CASE i = n + 1
  <2>1. \A m \in 1..n : m \in DOMAIN list /\ list[m] = order[m]
    BY <1>1, <1>4, <1>6
  <2>2. ~(Len(list) <= n)
    <3>1. SUFFICES ASSUME Len(list) \in 1..n PROVE FALSE
      BY <1>1, <1>2
    <3>2. order[Len(list)] = p
      BY <2>1, <3>1
    <3> QED BY <1>1, <3>1, <3>2 DEF RangeOf
  <2>3. ~(Len(list) > n + 1)
    <3>1. SUFFICES ASSUME n + 1 \in 1..(Len(list) - 1) PROVE FALSE
      BY <1>1, <1>2
    <3>2. PICK m \in 1..n : list[n + 1] = order[m]
      BY <1>1, <3>1 DEF RangeOf
    <3>3. m \in DOMAIN list /\ n + 1 \in DOMAIN list /\ list[m] = list[n + 1]
      BY <1>2, <2>1, <3>1, <3>2
    <3> QED BY <1>1, <3>3 DEF Distinct
  <2>4. Len(list) = n + 1
    BY <1>1, <1>2, <2>2, <2>3
  <2> QED BY <1>1, <1>2, <1>6, <2>4
<1> QED BY <1>1, <1>5, <1>6

\* A phase that has just completed is the last of the list.
LEMMA FinishedFollows ==
  ASSUME NEW list \in Seq(Phases), NEW order, NEW keys, NEW p \in Phases,
         Follows(list, order, keys), Distinct(list), p \notin RangeOf(list),
         RangeOf(list) \subseteq RangeOf(order)
  PROVE  LET longer == Append(list, p) IN
         /\ Follows(longer, order, keys) /\ Distinct(longer)
         /\ Len(longer) > 0 /\ longer[Len(longer)] = p
         /\ \A i \in 1..(Len(longer) - 1) : longer[i] \in RangeOf(order)
<1> DEFINE n == Len(list)
           longer == Append(list, p)
<1>1. /\ DOMAIN list = 1..n /\ n \in Nat /\ DOMAIN longer = 1..(n + 1)
      /\ \A i \in 1..n : longer[i] = list[i]
      /\ longer[n + 1] = p /\ Len(longer) = n + 1
  BY AppendProperties, LenProperties
<1> HIDE DEF n, longer
<1>2. Follows(longer, order, keys)
  BY <1>1 DEF Follows
<1>3. \A i \in 1..n : longer[i] # p /\ longer[i] \in RangeOf(order)
  BY <1>1 DEF RangeOf
<1>4. ASSUME NEW i \in 1..(n + 1), NEW j \in 1..(n + 1), longer[i] = longer[j]
      PROVE  i = j
  <2>1. (i \in 1..n \/ i = n + 1) /\ (j \in 1..n \/ j = n + 1)
    BY <1>1
  <2>2. CASE i \in 1..n /\ j \in 1..n
    BY <1>1, <1>4, <2>2 DEF Distinct
  <2> QED BY <1>1, <1>3, <1>4, <2>1, <2>2
<1>5. Distinct(longer)
  BY <1>1, <1>4 DEF Distinct
<1>6. Len(longer) > 0 /\ longer[Len(longer)] = p
  BY <1>1
<1>7. \A i \in 1..(Len(longer) - 1) : longer[i] \in RangeOf(order)
  BY <1>1, <1>3
<1> QED BY <1>2, <1>5, <1>6, <1>7 DEF longer

\* Marking secrets loses none: the keys that are not secret never were.
LEMMA SecretsGrow ==
  ASSUME TypeOK, NEW e
  PROVE  secrets \subseteq MarkSecrets(e)
BY DEF TypeOK, MarkSecrets

\* A file that is written before the end of a run keeps the order, if the run
\* has it.
LEMMA SavedOrder ==
  ASSUME TypeOK, NEW order \in Seq(Phases), Distinct(st.completed),
         Follows(st.completed, order, secrets),
         RangeOf(st.completed) \subseteq RangeOf(order),
         file' = SanitizedState(FALSE), recorded' = order
  PROVE  FileOrder'
<1> DEFINE kept == CompletedPhasesForState(st.completed, secrets)
<1>1. /\ st.completed \in Seq(Phases) /\ secrets \in SUBSET Keys
  BY WorkflowAssumption DEF TypeOK, States, WorkflowAssumption
<1>2. /\ RangeOf(kept) \subseteq RangeOf(st.completed)
      /\ Follows(kept, order, secrets) /\ Distinct(kept)
  BY <1>1, CutProperties, CutFollows
<1>3. file'.completed = kept /\ file'.secrets = secrets
  BY DEF SanitizedState, StateFile
<1> HIDE DEF kept
<1> QED BY <1>2, <1>3 DEF FileOrder

\* The completed phases of every reachable state are in the order in which they
\* were recorded, up to the first one that produced a secret.
THEOREM OrderHolds == Spec => []OrderInv
<1>1. Init => OrderInv
  <2> SUFFICES ASSUME Init PROVE OrderInv
    OBVIOUS
  <2>1. pc = "idle" /\ file.completed = <<>> /\ recorded = <<>>
    BY Zenon DEF Init, EmptyState
  <2> QED BY <2>1, RangeFacts DEF OrderInv, FileOrder, RunOrder, Distinct, Follows
<1>2. TypeOK /\ IInv /\ OrderInv /\ [Next]_applyVars => OrderInv'
  <2> SUFFICES ASSUME TypeOK, IInv, OrderInv, [Next]_applyVars PROVE OrderInv'
    OBVIOUS
  <2>i. FileInv /\ PhaseInv /\ FileOrder /\ RunOrder
    BY DEF IInv, OrderInv
  <2>t. st.completed \in Seq(Phases) /\ recorded \in Seq(Phases)
    BY DEF TypeOK, States
  <2>b. ASSUME NEW sel, Begin(ResetCompletedPhasesForMissingSecrets(file), sel),
               UNCHANGED <<file, recorded>>
        PROVE  OrderInv'
    <3>1. st'.completed = file.completed /\ secrets' = file.secrets /\ pc' = "loop"
      BY <2>b, <2>i, ResetKeepsCompleted DEF Begin
    <3> QED BY <2>b, <2>i, <3>1 DEF OrderInv, FileOrder, RunOrder
  <2>1. CASE Apply
    BY <2>1, <2>b DEF Apply
  <2>2. CASE ApplyOnePhase
    BY <2>2, <2>b DEF ApplyOnePhase
  <2>3. CASE ApplyFresh
    <3>1. /\ file'.completed = <<>> /\ recorded' = <<>> /\ st'.completed = <<>> /\ pc' = "loop"
      BY <2>3 DEF ApplyFresh, Begin, EmptyState
    <3> QED BY <3>1, RangeFacts DEF OrderInv, FileOrder, RunOrder, Distinct, Follows
  <2>k. ASSUME UNCHANGED <<file, recorded>>, st'.completed = st.completed,
               secrets \subseteq secrets', pc # "idle", pc # "savePhase", pc' # "savePhase"
        PROVE  OrderInv'
    <3>1. FileOrder'
      BY <2>k, <2>i DEF FileOrder
    <3>2. Follows(st.completed, recorded, secrets')
      BY <2>k, <2>i, FollowsFewer DEF RunOrder
    <3> QED BY <2>k, <2>i, <3>1, <3>2 DEF OrderInv, RunOrder
  <2>4. CASE SkipCompletedPhase
    BY <2>4, <2>k DEF SkipCompletedPhase, history, TypeOK, States
  <2>5. CASE StartPhase
    BY <2>5, <2>k DEF StartPhase, TypeOK, States
  <2>6. CASE RunBatch
    BY <2>6, <2>k, SecretsGrow DEF RunBatch, history
  <2>7. ASSUME NEW e, FailInBatch(e) PROVE OrderInv'
    <3>1. UNCHANGED recorded /\ st'.completed = st.completed
      BY <2>7 DEF FailInBatch, history, TypeOK, States
    <3> QED BY <2>7, <2>k, <3>1, SecretsGrow DEF FailInBatch
  <2>8. CASE FailOnMissingKey
    BY <2>8, <2>7 DEF FailOnMissingKey
  <2>9. CASE FailStep
    BY <2>9, <2>7 DEF FailStep
  <2>10. CASE FinishPhase
    <3>1. /\ UNCHANGED <<file, recorded, secrets, selected, idx>> /\ pc' = "savePhase"
          /\ pc = "batch" /\ st'.completed = Append(st.completed, Phase)
      BY <2>10 DEF FinishPhase, TypeOK, States
    <3>2. Phase \in Phases /\ Phase \notin RangeOf(st.completed) /\ Phase' = Phase
      BY <2>i, <3>1 DEF Phase, TypeOK, PhaseInv
    <3>3. /\ Distinct(st.completed) /\ Follows(st.completed, recorded, secrets)
          /\ RangeOf(st.completed) \subseteq RangeOf(recorded)
      BY <2>i, <3>1 DEF RunOrder
    <3> DEFINE longer == Append(st.completed, Phase)
    <3>4. /\ Follows(longer, recorded, secrets) /\ Distinct(longer)
          /\ Len(longer) > 0 /\ longer[Len(longer)] = Phase
          /\ \A i \in 1..(Len(longer) - 1) : longer[i] \in RangeOf(recorded)
      <4> HIDE DEF Phase
      <4> QED BY <2>t, <3>2, <3>3, FinishedFollows
    <3> HIDE DEF longer
    <3>5. st'.completed = longer
      BY <3>1 DEF longer
    <3> QED BY <2>i, <3>1, <3>2, <3>4, <3>5 DEF OrderInv, FileOrder, RunOrder
  <2>11. CASE FinishRun
    BY <2>11, <2>k DEF FinishRun, history, TypeOK, States
  <2>12. CASE SaveFailed
    <3>1. FileOrder'
      BY <2>12, <2>i, <2>t, SavedOrder DEF SaveFailed, history, RunOrder
    <3> QED BY <2>12, <3>1 DEF SaveFailed, OrderInv, RunOrder
  <2>13. CASE SavePhase
    <3>1. /\ pc = "savePhase" /\ pc' = "loop" /\ UNCHANGED <<st, secrets>>
          /\ file' = SanitizedState(FALSE)
          /\ recorded' = IF Phase \in RangeOf(recorded) THEN recorded ELSE Append(recorded, Phase)
      BY <2>13 DEF SavePhase
    <3>2. Phase \in Phases
      BY <3>1 DEF Phase, TypeOK
    <3>3. /\ Distinct(st.completed) /\ Follows(st.completed, recorded, secrets)
          /\ Len(st.completed) > 0 /\ st.completed[Len(st.completed)] = Phase
          /\ \A i \in 1..(Len(st.completed) - 1) : st.completed[i] \in RangeOf(recorded)
      BY <2>i, <3>1 DEF RunOrder
    <3>4. RangeOf(recorded') = RangeOf(recorded) \cup {Phase} /\ recorded' \in Seq(Phases)
      BY <2>t, <3>1, <3>2, RangeFacts
    <3>5. Follows(st.completed, recorded', secrets)
      <4>1. CASE Phase \in RangeOf(recorded)
        BY <3>1, <3>3, <4>1
      <4>2. CASE Phase \notin RangeOf(recorded)
        BY <2>t, <3>1, <3>2, <3>3, <4>2, RecordedFollows
      <4> QED BY <4>1, <4>2
    <3>6. RangeOf(st.completed) \subseteq RangeOf(recorded')
      <4>1. SUFFICES ASSUME NEW i \in 1..Len(st.completed)
                     PROVE  st.completed[i] \in RangeOf(recorded')
        BY <2>t, LenProperties DEF RangeOf
      <4>2. i \in 1..(Len(st.completed) - 1) \/ i = Len(st.completed)
        BY <2>t, LenProperties
      <4> QED BY <3>3, <3>4, <4>2
    <3>7. FileOrder'
      BY <3>1, <3>3, <3>4, <3>5, <3>6, SavedOrder
    <3> QED BY <3>1, <3>3, <3>5, <3>6, <3>7 DEF OrderInv, RunOrder
  <2>14. CASE SaveEnd
    <3>1. /\ file'.completed = st.completed /\ file'.secrets = secrets
      BY <2>14 DEF SaveEnd, SanitizedState, StateFile
    <3>2. UNCHANGED recorded /\ pc = "saveEnd" /\ pc' = "idle"
      BY <2>14 DEF SaveEnd, history
    <3> QED BY <2>i, <3>1, <3>2 DEF OrderInv, FileOrder, RunOrder
  <2>15. CASE Stop
    BY <2>15, <2>i DEF Stop, history, OrderInv, FileOrder, RunOrder
  <2>16. CASE UNCHANGED applyVars
    BY <2>16, <2>i DEF applyVars, procVars, history, OrderInv, FileOrder, RunOrder, Phase
  <2> QED
    BY <2>1, <2>2, <2>3, <2>4, <2>5, <2>6, <2>8, <2>9, <2>10, <2>11, <2>12, <2>13, <2>14,
       <2>15, <2>16 DEF Next, Loop, Save
<1> QED BY <1>1, <1>2, TypeCorrect, Inductive, PTL DEF Spec

\* A phase that was completed and saved starts again only if it produced a
\* secret whose value is gone, or was completed after the phase that did:
\* nothing else that a run can meet makes install.Run repeat finished work.
THEOREM RerunsOnlyForSecretsHolds == Spec => RerunsOnlyForSecrets
<1>1. OrderInv =>
        (StartPhase =>
           \A i \in DOMAIN recorded :
             recorded[i] = Phase =>
               \E k \in secrets : \E j \in 1..i : recorded[j] = Producer[k])
  <2> SUFFICES ASSUME OrderInv, StartPhase, NEW i \in DOMAIN recorded, recorded[i] = Phase,
                      \A k \in secrets : \A j \in 1..i : recorded[j] # Producer[k]
               PROVE  FALSE
    OBVIOUS
  <2>1. pc = "loop" /\ Phase \notin RangeOf(st.completed)
    BY DEF StartPhase
  <2>2. Follows(st.completed, recorded, secrets)
    BY <2>1 DEF OrderInv, RunOrder
  <2>3. i \in DOMAIN st.completed /\ st.completed[i] = recorded[i]
    BY <2>2 DEF Follows
  <2> QED BY <2>1, <2>3 DEF RangeOf
<1> QED BY <1>1, OrderHolds, PTL DEF RerunsOnlyForSecrets
=============================================================================
