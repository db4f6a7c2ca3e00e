-------------------------- MODULE AskSession_proofs --------------------------
(***************************************************************************)
(* Proofs about AskSession, for any number of files, any plan and any      *)
(* budgets. ScopeInv says which candidates there can be, DiskInv when the  *)
(* workspace may differ from what it was, LintInv what a passed validation *)
(* stands for, and BudgetInv follows the count of failed validations       *)
(* through a turn. They are inductive together.                            *)
(***************************************************************************)
EXTENDS AskSession, NaturalsInduction, WellFoundedInduction, TLAPS

ScopeInv == \A p \in Paths : cand[p] # Absent => p \in Approved

\* Nothing is written, and so nothing torn, before the candidates are accepted.
DiskInv ==
  /\ pc \notin {"accepted", "ended"} => disk = original
  /\ \A p \in Paths : disk[p] # original[p] => p \in Approved

LintInv ==
  /\ lint => verdict = "passed"
  /\ Accepted => lint
  /\ disk # original => lint
  /\ outcome # "none" => pc = "ended"
  /\ \A p \in Paths : validated[p] \in {"good", Absent}

Forgiven == counts.failures <= VerificationBudget

\* A validation makes its turn one that is not read-only. A call that must stand
\* alone is made in a turn without another one, and an idle turn is one of
\* read-only calls: neither can come after a validation of the same turn.
BudgetInv ==
  /\ pc \in {"preflight", "asking"} => Forgiven
  /\ pc = "calling" =>
       /\ turn.readOnly => Forgiven
       /\ turn.sole => turn.left <= 1 /\ (turn.left = 1 => turn.readOnly)
  /\ pc = "ending" => Forgiven \/ counts.idle = 0
  /\ Accepted => Forgiven

IInv == TypeOK /\ ScopeInv /\ DiskInv /\ LintInv /\ BudgetInv

\* A set of naturals that is not empty has a least element.
LEMMA LeastExists ==
  ASSUME NEW S \in SUBSET Nat, S # {}
  PROVE  \E m \in S : \A n \in S : m <= n
<1> DEFINE Less == {pair \in Nat \X Nat : pair[1] < pair[2]}
<1>1. IsWellFoundedOn(Less, Nat)
  BY NatLessThanWellFounded DEF OpToRel
<1>2. PICK m \in S : \A n \in S : <<n, m>> \notin Less
  <2> HIDE DEF Less
  <2> QED BY <1>1, WFMin
<1>3. \A n \in S : ~(n < m)
  BY <1>2
<1> QED BY <1>3

LEMMA InitInv == Init => IInv
<1> SUFFICES ASSUME Init PROVE IInv
  OBVIOUS
<1>1. 1 \in 1..TurnBudget
  BY AskAssumption DEF TurnBudget, AtLeast
<1>2. disk \in [Paths -> Texts \cup {Absent}]
  BY AskAssumption DEF Init
<1>3. TypeOK
  <2>1. NoTurn \in [left : 0..MaxCalls, sole : BOOLEAN, readOnly : BOOLEAN]
    BY AskAssumption DEF NoTurn
  <2>2. [turns |-> 1, failures |-> 0, idle |-> 0, streak |-> 0]
          \in [turns : 1..TurnBudget, failures : Nat, idle : Nat, streak : 0..3]
    BY <1>1
  <2>3. NoCandidates \in [Paths -> Texts \cup {Absent}]
    BY DEF NoCandidates
  <2>4. disk \in [Paths -> Texts \cup {Absent, Torn}]
    BY <1>2
  <2> QED BY <1>2, <2>1, <2>2, <2>3, <2>4 DEF Init, TypeOK
<1>4. ScopeInv /\ DiskInv /\ LintInv
  BY DEF Init, NoCandidates, ScopeInv, DiskInv, LintInv, Accepted
<1>5. BudgetInv
  BY AskAssumption DEF Init, BudgetInv, Forgiven, Accepted
<1> QED BY <1>3, <1>4, <1>5 DEF IInv

-----------------------------------------------------------------------------
(* Validation and repair                                                   *)

\* What repair makes of the candidates: texts, of approved files only; and when
\* the repaired files validate, good ones.
LEMMA RepairedCandidates ==
  ASSUME TypeOK, ScopeInv, disk \in [Paths -> Texts \cup {Absent}],
         NEW after, after = CandidatesAfter(LintFiles)
  PROVE  /\ after \in [Paths -> Texts \cup {Absent}]
         /\ \A p \in Paths : after[p] # Absent => p \in Approved
         /\ Validates(Repaired(LintFiles)) => \A p \in Paths : after[p] \in {"good", Absent}
<1> DEFINE files == LintFiles
           fixed == Repaired(files)
<1>1. files \in [Paths -> Texts \cup {Absent}]
  BY DEF TypeOK, LintFiles
<1>2. \A p \in Paths : /\ cand[p] # Absent => files[p] = cand[p]
                       /\ cand[p] \in Texts \cup {Absent}
  BY DEF TypeOK, LintFiles
<1> HIDE DEF files
<1>3. fixed \in [Paths -> Texts \cup {Absent}]
  BY <1>1 DEF Repaired, Texts
<1>4. Validates(fixed) => \A p \in Paths : fixed[p] \in {"good", Absent}
  BY DEF Validates, Invalid, Present
<1>5. CASE RemovesPrepare(files) \/ Fixes(files)
  <2> HIDE DEF fixed
  <2>1. after = [p \in Paths |->
                   IF fixed[p] # Absent
                   THEN IF p \in Approved THEN fixed[p] ELSE cand[p]
                   ELSE IF files[p] # Absent THEN Absent ELSE cand[p]]
    BY <1>5 DEF CandidatesAfter, WriteAllowed, RemovedCandidate, files, fixed
  <2> QED BY <1>2, <1>3, <1>4, <2>1 DEF ScopeInv, files, fixed
<1>6. CASE ~(RemovesPrepare(files) \/ Fixes(files))
  <2>1. after = cand /\ fixed = files
    BY <1>6 DEF CandidatesAfter, Repaired, files
  <2> QED BY <1>2, <1>4, <2>1 DEF ScopeInv, TypeOK, files, fixed
<1> QED BY <1>5, <1>6

\* Validation works on files of the workspace as they were at the start.
LEMMA ValidationStep ==
  ASSUME TypeOK, ScopeInv, DiskInv, pc \in {"calling", "ending"}, RunValidate
  PROVE  /\ cand' \in [Paths -> Texts \cup {Absent}]
         /\ \A p \in Paths : cand'[p] # Absent => p \in Approved
         /\ fresh' \subseteq Paths
         /\ lint' \in BOOLEAN
         /\ \E n \in Nat : counts' = [counts EXCEPT !.idle = 0, !.streak = 0, !.failures = n]
         /\ verdict' \in {"passed", "failed"}
         /\ lint' => verdict' = "passed"
         /\ \/ validated' = cand' /\ \A p \in Paths : cand'[p] \in {"good", Absent}
            \/ validated' = validated
<1>1. disk \in [Paths -> Texts \cup {Absent}]
  BY DEF DiskInv, TypeOK
<1>2. cand' = CandidatesAfter(LintFiles)
  BY DEF RunValidate
<1>3. /\ cand' \in [Paths -> Texts \cup {Absent}]
      /\ \A p \in Paths : cand'[p] # Absent => p \in Approved
      /\ Validates(Repaired(LintFiles)) => \A p \in Paths : cand'[p] \in {"good", Absent}
  BY <1>1, <1>2, RepairedCandidates
<1>4. fresh' \subseteq Paths
  BY DEF RunValidate, TypeOK
<1> DEFINE passed == Validates(Repaired(LintFiles))
<1>5. passed \in BOOLEAN
  BY DEF Validates
<1>6. /\ lint' = passed
      /\ verdict' = IF passed THEN "passed" ELSE "failed"
      /\ validated' = IF passed THEN cand' ELSE validated
  BY DEF RunValidate, LintResult
<1>7. \E n \in Nat : counts' = [counts EXCEPT !.idle = 0, !.streak = 0, !.failures = n]
  <2> DEFINE n == IF passed \/ Present(LintFiles) = {} THEN counts.failures
                  ELSE counts.failures + 1
  <2>1. n \in Nat
    BY DEF TypeOK
  <2>2. counts' = [counts EXCEPT !.idle = 0, !.streak = 0, !.failures = n]
    BY DEF RunValidate
  <2> QED BY <2>1, <2>2
<1> HIDE DEF passed
<1> QED BY <1>3, <1>4, <1>5, <1>6, <1>7 DEF passed

-----------------------------------------------------------------------------
(* Every step preserves the invariant                                      *)

\* The file written next is one of those that are pending.
LEMMA NextPending ==
  ASSUME Pending # {}
  PROVE  Min(Pending) \in Pending
<1>1. Pending \in SUBSET Nat
  BY AskAssumption DEF Pending, Paths
<1>2. \E m \in Pending : \A n \in Pending : m <= n
  BY <1>1, LeastExists
<1> QED BY <1>2 DEF Min

\* The counters but the count of failures may have changed.
SameFailures ==
  /\ counts' \in [turns : 1..TurnBudget, failures : Nat, idle : Nat, streak : 0..3]
  /\ counts'.failures = counts.failures

LEMMA CountsStep ==
  ASSUME TypeOK, NEW s \in 0..3,
         \/ counts' = [counts EXCEPT !.streak = s]
         \/ counts' = [counts EXCEPT !.idle = 0, !.streak = s]
  PROVE  SameFailures
<1> DEFINE Counts == [turns : 1..TurnBudget, failures : Nat, idle : Nat, streak : 0..3]
<1>1. counts \in Counts
  BY DEF TypeOK
<1>2. CASE counts' = [counts EXCEPT !.streak = s]
  BY <1>1, <1>2 DEF SameFailures
<1>3. CASE counts' = [counts EXCEPT !.idle = 0, !.streak = s]
  BY <1>1, <1>3 DEF SameFailures
<1> QED BY <1>2, <1>3

LEMMA WrittenStep ==
  ASSUME TypeOK, Written
  PROVE  SameFailures
<1> DEFINE s == Capped(counts.streak + 1)
<1>1. s \in 0..3
  BY DEF TypeOK, Capped
<1>2. counts' = [counts EXCEPT !.idle = 0, !.streak = s]
  BY DEF Written
<1> HIDE DEF s
<1> QED BY <1>1, <1>2, CountsStep

\* The calls of a turn that neither end the session nor validate.
OtherCall ==
  \/ CallUnparsed \/ Look \/ WriteRefused \/ RunInit
  \/ \E p \in Paths : ReadAll(p) \/ FileWrite(p) \/ FileEdit(p)

LEMMA OtherCallStep ==
  ASSUME TypeOK, OtherCall
  PROVE  /\ AnyCall
         /\ UNCHANGED <<disk, route, lint, pc, outcome, original, verdict, validated>>
         /\ \E readOnly \in BOOLEAN : Called(readOnly)
         /\ SameFailures
         /\ fresh' \subseteq Paths
         /\ \/ UNCHANGED cand
            \/ \E p \in Approved, text \in Texts : cand' = [cand EXCEPT ![p] = text]
<1> USE DEF AnyCall, history
<1>1. CASE CallUnparsed
  <2>1. PICK s \in {0, Capped(counts.streak + 1)} : counts' = [counts EXCEPT !.streak = s]
    BY <1>1 DEF CallUnparsed
  <2>2. s \in 0..3
    BY DEF TypeOK, Capped
  <2>3. SameFailures
    BY <2>1, <2>2, CountsStep
  <2> QED BY <1>1, <2>3 DEF CallUnparsed, TypeOK
<1>2. CASE Look \/ RunInit
  <2>1. SameFailures
    BY <1>2, CountsStep, 0 \in 0..3 DEF Look, RunInit
  <2> QED BY <1>2, <2>1 DEF Look, RunInit, TypeOK
<1>3. CASE WriteRefused
  BY <1>3, WrittenStep DEF WriteRefused, TypeOK
<1>4. ASSUME NEW p \in Paths, ReadAll(p)
      PROVE  SameFailures /\ fresh' \subseteq Paths
  BY <1>4, CountsStep, 0 \in 0..3 DEF ReadAll, TypeOK
<1>5. ASSUME NEW p \in Paths, FileWrite(p) \/ FileEdit(p)
      PROVE  /\ SameFailures /\ fresh' \subseteq Paths
             /\ \E q \in Approved, text \in Texts : cand' = [cand EXCEPT ![q] = text]
  BY <1>5, WrittenStep DEF FileWrite, FileEdit, Stage, WriteAllowed, TextsFor, TypeOK
<1>6. CASE \E p \in Paths : ReadAll(p) \/ FileWrite(p) \/ FileEdit(p)
  BY <1>4, <1>5, <1>6 DEF ReadAll, FileWrite, FileEdit
<1> QED BY <1>1, <1>2, <1>3, <1>6 DEF OtherCall

\* The actions that leave the files, the candidates and what is known of them
\* alone: they move the session on, and may end it.
MovesOn ==
  \/ Preflight \/ Respond \/ NoResponse
  \/ EndingCallMalformed \/ RequestClarification \/ Finish \/ FinishRejected
  \/ EndCalls \/ AutoFinish \/ NextTurn \/ AllWritten

LEMMA MovesOnType ==
  ASSUME TypeOK, MovesOn
  PROVE  TypeOK'
<1>1. /\ UNCHANGED <<disk, cand, fresh, route, lint, original, verdict, validated>>
      /\ pc' \in {"asking", "calling", "ending", "accepted", "ended"}
      /\ outcome' \in {outcome, "clarify", "error", "generated"}
  BY DEF MovesOn, Preflight, Respond, NoResponse, EndingCallMalformed, RequestClarification,
         Finish, FinishRejected, EndCalls, AutoFinish, NextTurn, AllWritten, Quit, history
<1>2. turn' \in [left : 0..MaxCalls, sole : BOOLEAN, readOnly : BOOLEAN]
  <2>1. NoTurn \in [left : 0..MaxCalls, sole : BOOLEAN, readOnly : BOOLEAN]
    BY AskAssumption DEF NoTurn
  <2>2. CASE Respond
    <3>1. PICK n \in 1..MaxCalls : turn' = [left |-> n, sole |-> n = 1, readOnly |-> TRUE]
      BY <2>2 DEF Respond
    <3>2. n \in 0..MaxCalls /\ (n = 1) \in BOOLEAN
      BY AskAssumption
    <3> QED BY <3>1, <3>2
  <2>3. CASE FinishRejected \/ EndCalls
    BY <2>1, <2>3 DEF FinishRejected, EndCalls
  <2>4. CASE ~(Respond \/ FinishRejected \/ EndCalls)
    <3>1. turn' = turn
      BY <2>4 DEF MovesOn, Preflight, NoResponse, EndingCallMalformed, RequestClarification,
                  Finish, AutoFinish, NextTurn, AllWritten
    <3> QED BY <3>1 DEF TypeOK
  <2> QED BY <2>2, <2>3, <2>4
<1>3. counts' \in [turns : 1..TurnBudget, failures : Nat, idle : Nat, streak : 0..3]
  <2> DEFINE Counts == [turns : 1..TurnBudget, failures : Nat, idle : Nat, streak : 0..3]
  <2>1. counts \in Counts
    BY DEF TypeOK
  <2>2. CASE FinishRejected
    BY <2>1, <2>2 DEF FinishRejected
  <2>3. CASE EndCalls
    <3>1. PICK n \in Nat : counts' = [counts EXCEPT !.idle = n]
      <4> DEFINE n == IF ~turn.readOnly THEN 0 ELSE IF lint THEN counts.idle + 1 ELSE counts.idle
      <4>1. n \in Nat
        BY <2>1
      <4>2. counts' = [counts EXCEPT !.idle = n]
        BY <2>3 DEF EndCalls
      <4> HIDE DEF n
      <4> QED BY <4>1, <4>2
    <3> QED BY <2>1, <3>1
  <2>4. CASE NextTurn /\ ~(OverBudget \/ TurnsSpent)
    <3>1. TurnBudget \in Nat
      BY AskAssumption DEF TurnBudget, AtLeast
    <3> HIDE DEF Counts
    <3>2. counts' = [counts EXCEPT !.turns = counts.turns + 1] /\ counts.turns < TurnBudget
      BY <2>1, <2>4, <3>1 DEF NextTurn, TurnsAfterThis, TurnsSpent, Counts
    <3>3. counts.turns + 1 \in 1..TurnBudget
      BY <2>1, <3>1, <3>2 DEF Counts
    <3> QED BY <2>1, <3>2, <3>3 DEF Counts
  <2>5. CASE ~(FinishRejected \/ EndCalls) /\ ~(NextTurn /\ ~(OverBudget \/ TurnsSpent))
    <3>1. counts' = counts
      BY <2>5 DEF MovesOn, Preflight, Respond, NoResponse, EndingCallMalformed,
                  RequestClarification, Finish, AutoFinish, NextTurn, AllWritten
    <3> QED BY <2>1, <3>1
  <2> QED BY <2>2, <2>3, <2>4, <2>5
<1> QED BY <1>1, <1>2, <1>3 DEF TypeOK

LEMMA MovesOnStep ==
  ASSUME IInv, MovesOn
  PROVE  IInv'
<1> USE DEF IInv
<1>1. TypeOK'
  BY MovesOnType
<1>2. /\ UNCHANGED <<disk, cand, fresh, route, lint, original, verdict, validated>>
      /\ pc \in {"accepted", "ended"} => AllWritten
  <2>1. CASE Preflight \/ Respond \/ NoResponse \/ NextTurn \/ EndCalls \/ AutoFinish
    BY <2>1 DEF Preflight, Respond, NoResponse, NextTurn, EndCalls, AutoFinish, history
  <2>2. CASE EndingCallMalformed \/ RequestClarification \/ Finish \/ FinishRejected
    BY <2>2 DEF EndingCallMalformed, RequestClarification, Finish, FinishRejected, history
  <2>3. CASE AllWritten
    BY <2>3 DEF AllWritten, history
  <2> QED BY <2>1, <2>2, <2>3 DEF MovesOn
<1>3. ScopeInv' /\ DiskInv'
  BY <1>2 DEF ScopeInv, DiskInv, AllWritten, Quit
<1>4. LintInv'
  BY <1>2 DEF LintInv, DiskInv, Accepted, MovesOn, Preflight, Respond, NoResponse,
              EndingCallMalformed, RequestClarification, Finish, FinishRejected, EndCalls,
              AutoFinish, ShouldAutoFinish, NextTurn, AllWritten, Quit
<1>5. BudgetInv'
  <2> USE DEF BudgetInv, Forgiven, Accepted, TypeOK
  <2>1. CASE Preflight \/ NoResponse \/ EndingCallMalformed \/ RequestClarification \/ AllWritten
    BY <2>1 DEF Preflight, NoResponse, EndingCallMalformed, RequestClarification, AllWritten,
                Quit, LintInv
  <2>2. CASE Respond
    <3>1. PICK n \in 1..MaxCalls : turn' = [left |-> n, sole |-> n = 1, readOnly |-> TRUE]
      BY <2>2 DEF Respond
    <3>2. turn'.left = n /\ (turn'.sole <=> n = 1) /\ turn'.readOnly = TRUE
      BY <3>1
    <3> QED BY <2>2, <3>2, AskAssumption DEF Respond, LintInv
  <2>3. CASE Finish
    BY <2>3 DEF Finish
  <2>4. CASE FinishRejected
    <3>1. Forgiven /\ counts'.failures = counts.failures
      BY <2>4 DEF FinishRejected
    <3> QED BY <2>4, <3>1 DEF FinishRejected, LintInv
  <2>5. CASE EndCalls
    <3>1. counts'.failures = counts.failures /\ (~turn.readOnly => counts'.idle = 0)
      BY <2>5 DEF EndCalls
    <3> QED BY <2>5, <3>1 DEF EndCalls, LintInv
  <2>6. CASE AutoFinish
    BY <2>6 DEF AutoFinish, ShouldAutoFinish
  <2>7. CASE NextTurn
    <3>1. CASE OverBudget \/ TurnsSpent
      BY <2>7, <3>1 DEF NextTurn, Quit, LintInv
    <3>2. CASE ~(OverBudget \/ TurnsSpent)
      <4>1. counts'.failures = counts.failures /\ counts.failures <= VerificationBudget
        BY <2>7, <3>2, AskAssumption DEF NextTurn, OverBudget
      <4> QED BY <2>7, <3>2, <4>1 DEF NextTurn, LintInv
    <3> QED BY <3>1, <3>2
  <2> QED BY <2>1, <2>2, <2>3, <2>4, <2>5, <2>6, <2>7 DEF MovesOn
<1> QED BY <1>1, <1>3, <1>4, <1>5

LEMMA CalledStep ==
  ASSUME TypeOK, AnyCall, NEW readOnly \in BOOLEAN, Called(readOnly)
  PROVE  /\ turn' \in [left : 0..MaxCalls, sole : BOOLEAN, readOnly : BOOLEAN]
         /\ turn'.left = turn.left - 1
         /\ turn'.sole = turn.sole
         /\ turn'.readOnly => turn.readOnly /\ readOnly
<1> DEFINE Turns == [left : 0..MaxCalls, sole : BOOLEAN, readOnly : BOOLEAN]
           left  == turn.left - 1
           both  == turn.readOnly /\ readOnly
<1>1. turn \in Turns /\ turn.left > 0
  BY DEF TypeOK, AnyCall
<1>2. left \in 0..MaxCalls /\ both \in BOOLEAN
  BY <1>1, AskAssumption
<1>3. turn' = [turn EXCEPT !.left = left, !.readOnly = both]
  BY DEF Called
<1> HIDE DEF left, both
<1>4. turn' \in Turns /\ turn'.left = left /\ turn'.sole = turn.sole /\ turn'.readOnly = both
  BY <1>1, <1>2, <1>3
<1> QED BY <1>4 DEF left, both

LEMMA OtherCallInv ==
  ASSUME IInv, OtherCall
  PROVE  IInv'
<1> USE DEF IInv
<1>1. /\ AnyCall /\ SameFailures /\ fresh' \subseteq Paths
      /\ UNCHANGED <<disk, route, lint, pc, outcome, original, verdict, validated>>
      /\ \/ UNCHANGED cand
         \/ \E p \in Approved, text \in Texts : cand' = [cand EXCEPT ![p] = text]
  BY OtherCallStep
<1>2. /\ turn' \in [left : 0..MaxCalls, sole : BOOLEAN, readOnly : BOOLEAN]
      /\ turn'.left = turn.left - 1
      /\ turn'.sole = turn.sole
      /\ turn'.readOnly => turn.readOnly
  BY OtherCallStep, CalledStep
<1>3. cand' \in [Paths -> Texts \cup {Absent}] /\ ScopeInv'
  BY <1>1 DEF TypeOK, ScopeInv
<1>4. TypeOK'
  BY <1>1, <1>2, <1>3 DEF TypeOK, SameFailures
<1>5. DiskInv' /\ LintInv'
  BY <1>1 DEF DiskInv, LintInv, Accepted
<1>6. BudgetInv'
  <2>1. /\ counts'.failures = counts.failures
        /\ turn.left \in Nat /\ turn.left > 0 /\ pc = "calling" /\ outcome = "none"
    BY <1>1 DEF SameFailures, AnyCall, TypeOK, LintInv
  <2> QED BY <1>1, <1>2, <2>1 DEF BudgetInv, Forgiven, Accepted
<1> QED BY <1>3, <1>4, <1>5, <1>6

LEMMA ValidateInv ==
  ASSUME IInv, Validate \/ AutoValidate
  PROVE  IInv'
<1> USE DEF IInv
<1> DEFINE Counts == [turns : 1..TurnBudget, failures : Nat, idle : Nat, streak : 0..3]
<1>1. /\ UNCHANGED <<disk, route, outcome, original>>
      /\ \/ pc = "calling" /\ pc' = "calling"
         \/ pc = "ending" /\ pc' = "checking"
      /\ outcome = "none"
  BY DEF Validate, AutoValidate, AnyCall, TypeOK, LintInv
<1>2. turn' \in [left : 0..MaxCalls, sole : BOOLEAN, readOnly : BOOLEAN]
  BY CalledStep DEF Validate, AutoValidate, TypeOK
<1>3. CASE RunValidate
  <2>1. /\ cand' \in [Paths -> Texts \cup {Absent}]
        /\ \A p \in Paths : cand'[p] # Absent => p \in Approved
        /\ fresh' \subseteq Paths
        /\ lint' \in BOOLEAN
        /\ \E n \in Nat : counts' = [counts EXCEPT !.idle = 0, !.streak = 0, !.failures = n]
        /\ verdict' \in {"passed", "failed"}
        /\ lint' => verdict' = "passed"
        /\ \/ validated' = cand' /\ \A p \in Paths : cand'[p] \in {"good", Absent}
           \/ validated' = validated
    BY <1>1, <1>3, ValidationStep
  <2>2. counts' \in Counts
    <3>1. counts \in Counts
      BY DEF TypeOK
    <3>2. PICK n \in Nat : counts' = [counts EXCEPT !.idle = 0, !.streak = 0, !.failures = n]
      BY <2>1
    <3>3. counts' = [turns |-> counts.turns, failures |-> n, idle |-> 0, streak |-> 0]
      BY <3>1, <3>2
    <3> QED BY <3>1, <3>3
  <2> HIDE DEF Counts
  <2>3. TypeOK' /\ ScopeInv'
    BY <1>1, <1>2, <2>1, <2>2 DEF TypeOK, ScopeInv, Counts
  <2>4. DiskInv' /\ LintInv'
    BY <1>1, <2>1 DEF DiskInv, LintInv, Accepted
  <2>5. BudgetInv'
    <3>1. CASE Validate
      <4>1. turn'.left = turn.left - 1 /\ turn'.sole = turn.sole /\ ~turn'.readOnly
        BY <3>1, CalledStep DEF Validate
      <4>2. turn.left \in Nat /\ turn.left > 0 /\ pc = "calling" /\ pc' = "calling"
        BY <3>1 DEF Validate, AnyCall, TypeOK
      <4> QED BY <1>1, <4>1, <4>2 DEF BudgetInv, Accepted
    <3>2. CASE AutoValidate
      BY <1>1, <3>2 DEF AutoValidate, BudgetInv, Accepted
    <3> QED BY <3>1, <3>2
  <2> QED BY <2>3, <2>4, <2>5
<1>4. CASE ~RunValidate
  <2>1. /\ AutoValidate
        /\ UNCHANGED <<cand, fresh, lint, counts, verdict, validated, turn>>
    BY <1>4 DEF Validate, AutoValidate
  <2>2. TypeOK'
    BY <1>1, <1>2, <2>1 DEF TypeOK
  <2>3. ScopeInv' /\ DiskInv' /\ LintInv' /\ BudgetInv'
    BY <1>1, <2>1 DEF AutoValidate, ScopeInv, DiskInv, LintInv, BudgetInv, Accepted
  <2> QED BY <2>2, <2>3
<1> QED BY <1>3, <1>4

LEMMA WriteInv ==
  ASSUME IInv, WriteNext \/ WriteFails
  PROVE  IInv'
<1> USE DEF IInv
<1>1. /\ UNCHANGED <<cand, fresh, route, lint, counts, turn, original, verdict, validated>>
      /\ pc = "accepted" /\ lint /\ Forgiven
      /\ \/ UNCHANGED <<pc, outcome>>
         \/ pc' = "ended" /\ outcome' = "error"
  BY DEF WriteNext, WriteFails, Quit, history, LintInv, BudgetInv, Accepted
<1>2. \/ UNCHANGED disk
      \/ \E p \in Paths : /\ cand[p] # Absent
                          /\ \E text \in {cand[p], Torn} : disk' = [disk EXCEPT ![p] = text]
  BY NextPending DEF WriteNext, WriteFails, Pending
<1>3. disk' \in [Paths -> Texts \cup {Absent, Torn}]
  BY <1>2 DEF TypeOK
<1>4. TypeOK'
  BY <1>1, <1>3 DEF TypeOK
<1>5. ScopeInv' /\ DiskInv' /\ LintInv' /\ BudgetInv'
  BY <1>1, <1>2 DEF ScopeInv, DiskInv, LintInv, BudgetInv, Accepted, Forgiven, TypeOK
<1> QED BY <1>4, <1>5

\* IInv holds throughout every session.
THEOREM Inductive == Spec => []IInv
<1>1. IInv /\ [Next]_askVars => IInv'
  <2> SUFFICES ASSUME IInv, [Next]_askVars PROVE IInv'
    OBVIOUS
  <2>1. CASE MovesOn \/ OtherCall \/ Validate \/ AutoValidate \/ WriteNext \/ WriteFails
    BY <2>1, MovesOnStep, OtherCallInv, ValidateInv, WriteInv
  <2>2. CASE UNCHANGED askVars
    BY <2>2 DEF askVars, IInv, TypeOK, ScopeInv, DiskInv, LintInv, BudgetInv, Forgiven, Accepted
  <2> QED BY <2>1, <2>2 DEF Next, Call, TurnEnds, WriteFiles, MovesOn, OtherCall
<1> QED BY <1>1, InitInv, PTL DEF Spec

-----------------------------------------------------------------------------
(* What AskSession promises                                                *)

\* Type correctness, for any plan and any budgets.
THEOREM TypeCorrect == Spec => []TypeOK
<1>1. IInv => TypeOK
  BY DEF IInv
<1> QED BY <1>1, Inductive, PTL

\* Only approved files change, and only once the session is accepted after a
\* validation that passed: whatever the model calls and repair does.
THEOREM WorkspaceIsProtected == Spec => []WorkspaceProtected
<1>1. IInv => WorkspaceProtected
  BY DEF IInv, DiskInv, LintInv, WorkspaceProtected
<1> QED BY <1>1, Inductive, PTL

\* A session is accepted only if the validation that ran last passed.
THEOREM AcceptanceFollowsAPass == Spec => []AcceptedAfterAPass
<1>1. IInv => AcceptedAfterAPass
  BY DEF IInv, LintInv, AcceptedAfterAPass
<1> QED BY <1>1, Inductive, PTL

\* A session is accepted only within its budget of failed validations, also
\* when the failure came in its last turns.
THEOREM AcceptanceIsWithinBudget == Spec => []AcceptedWithinBudget
<1>1. IInv => AcceptedWithinBudget
  BY DEF IInv, BudgetInv, Forgiven, AcceptedWithinBudget
<1> QED BY <1>1, Inductive, PTL

\* What passed as a whole has no file among the candidates that did not pass.
THEOREM PassesCoverCandidates == Spec => []PassCoversCandidates
<1>1. IInv => PassCoversCandidates
  BY DEF IInv, LintInv, PassCoversCandidates
<1> QED BY <1>1, Inductive, PTL
=============================================================================
