----------------------------- MODULE AskSession -----------------------------
(***************************************************************************)
(* An authoring session of deck ask (internal/askcli/author_runtime.go): a *)
(* model, out of the program's hands, calls tools that read and change     *)
(* candidate files, until it calls finish, or asks for clarification, or   *)
(* a budget is spent. Only then are the candidates written to the          *)
(* workspace. A validation that fails may repair the candidates itself.    *)
(*                                                                         *)
(* A file's text is abstracted to what validation makes of it. Files are   *)
(* numbered in the order of their paths.                                   *)
(***************************************************************************)
EXTENDS Integers, FiniteSets, FiniteSetsExt

CONSTANTS
  NumPaths,              \* the workspace's files are 1..NumPaths
  Approved,              \* the files the plan allows to write
  PrepareFile,           \* the path of prepare.yaml
  Required,              \* the entry scenario, when the plan demands one
  WorkspaceTexts,        \* what files of the workspace may hold at first
  VerificationBudget,    \* how many failed validations are forgiven
  AgentRuntimeMinTurns,
  AgentRuntimeMaxTurns,
  TurnsPerVerification,
  MaxCalls               \* bound on the tool calls of one response

Paths == 1..NumPaths

Absent == "absent"
Torn   == "torn"

\* A text that validates; one whose errors automatic repair can fix; one it
\* cannot; and a prepare.yaml whose only errors are steps of another role.
Texts == {"good", "fixable", "bad", "misplaced"}

TextsFor(p) == IF p = PrepareFile THEN Texts ELSE Texts \ {"misplaced"}

ASSUME AskAssumption ==
  /\ NumPaths \in Nat
  /\ Approved \subseteq Paths
  /\ PrepareFile \in Paths
  /\ Required \subseteq Approved
  /\ WorkspaceTexts \subseteq Texts
  /\ VerificationBudget \in Nat \ {0}
  /\ AgentRuntimeMinTurns \in Nat \ {0}
  /\ AgentRuntimeMaxTurns \in Nat \ {0}
  /\ TurnsPerVerification \in Nat
  /\ MaxCalls \in Nat \ {0}


VARIABLES
  disk,       \* [path -> the text of the file in the workspace]
  cand,       \* candidateByPath: [path -> a text, or Absent]
  fresh,      \* readState: the paths whose text, as it is now, was read in full
  route,      \* draft or refine
  lint,       \* lastLintPassed
  counts,     \* the counters of the session
  turn,       \* the turn under way: its calls left, and what they were
  pc,         \* where the session is
  outcome,    \* how it ended
  original,   \* history: the workspace at the start
  verdict,    \* history: how the last validation ended
  validated   \* history: the candidates that validated last

askVars == <<disk, cand, fresh, route, lint, counts, turn, pc, outcome,
             original, verdict, validated>>
history == <<original, verdict, validated>>

NoCandidates == [p \in Paths |-> Absent]

HasCandidates == \E p \in Paths : cand[p] # Absent

AtLeast(m, n) == IF n < m THEN m ELSE n

\* With the values of the code, 30 is the least and not the most.
TurnBudget ==
  AtLeast(AgentRuntimeMaxTurns,
          AtLeast(AgentRuntimeMinTurns, VerificationBudget * TurnsPerVerification + 2))

NoTurn == [left |-> 0, sole |-> FALSE, readOnly |-> TRUE]

Init ==
  /\ disk \in [Paths -> WorkspaceTexts \cup {Absent}]
  /\ \A p \in Paths : disk[p] \in TextsFor(p) \cup {Absent}
  /\ cand = NoCandidates
  /\ fresh = {}
  /\ route \in {"draft", "refine"}
  /\ lint = FALSE
  /\ counts = [turns |-> 1, failures |-> 0, idle |-> 0, streak |-> 0]
  /\ turn = NoTurn
  /\ pc = "preflight"
  /\ outcome = "none"
  /\ original = disk
  /\ verdict = "none"
  /\ validated = NoCandidates

Quit(reason) == pc' = "ended" /\ outcome' = reason

\* The plan is too open for a session, or no model is configured.
Preflight ==
  /\ pc = "preflight"
  /\ \/ pc' = "asking" /\ UNCHANGED outcome
     \/ Quit("clarify")
     \/ Quit("error")
  /\ UNCHANGED <<disk, cand, fresh, route, lint, counts, turn, history>>

\* The model answers with one or more tool calls.
Respond ==
  /\ pc = "asking"
  /\ \E n \in 1..MaxCalls : turn' = [left |-> n, sole |-> n = 1, readOnly |-> TRUE]
  /\ pc' = "calling"
  /\ UNCHANGED <<disk, cand, fresh, route, lint, counts, outcome, history>>

\* The request fails or times out, or the answer holds no tool call.
NoResponse ==
  /\ pc = "asking"
  /\ Quit("error")
  /\ UNCHANGED <<disk, cand, fresh, route, lint, counts, turn, history>>

-----------------------------------------------------------------------------
(* The calls that end a session                                            *)

\* finish and clarification must stand alone, with arguments that can be
\* parsed; what was called before them in the turn has been executed.
EndingCallMalformed ==
  /\ pc = "calling" /\ turn.left > 0
  /\ Quit("error")
  /\ UNCHANGED <<disk, cand, fresh, route, lint, counts, turn, history>>

RequestClarification ==
  /\ pc = "calling" /\ turn.left > 0 /\ turn.sole
  /\ Quit("clarify")
  /\ UNCHANGED <<disk, cand, fresh, route, lint, counts, turn, history>>

Finish ==
  /\ pc = "calling" /\ turn.left > 0 /\ turn.sole
  /\ lint
  /\ HasCandidates \/ route = "refine"
  /\ pc' = "accepted"
  /\ UNCHANGED <<disk, cand, fresh, route, lint, counts, turn, outcome, history>>

\* The turn is over and leaves the idle count alone.
FinishRejected ==
  /\ pc = "calling" /\ turn.left > 0 /\ turn.sole
  /\ ~lint \/ (~HasCandidates /\ route # "refine")
  /\ counts' = [counts EXCEPT !.streak = 0]
  /\ turn' = NoTurn
  /\ pc' = "ending"
  /\ UNCHANGED <<disk, cand, fresh, route, lint, outcome, history>>

-----------------------------------------------------------------------------
(* The calls that work on files. Each is recorded in the events, of which  *)
(* only the writes at the end of the record matter: streak counts them.    *)

Capped(n) == IF n > 3 THEN 3 ELSE n

Called(readOnly) ==
  turn' = [turn EXCEPT !.left = @ - 1, !.readOnly = @ /\ readOnly]

AnyCall == pc = "calling" /\ turn.left > 0

\* A call that cannot be parsed is recorded under the name it came with, and
\* counts as read-only.
CallUnparsed ==
  /\ AnyCall
  /\ Called(TRUE)
  /\ \E s \in {0, Capped(counts.streak + 1)} : counts' = [counts EXCEPT !.streak = s]
  /\ UNCHANGED <<disk, cand, fresh, route, lint, pc, outcome, history>>

\* glob, grep, schema, web_search; a read that is refused, or of part of a file.
Look ==
  /\ AnyCall
  /\ Called(TRUE)
  /\ counts' = [counts EXCEPT !.streak = 0]
  /\ UNCHANGED <<disk, cand, fresh, route, lint, pc, outcome, history>>

Current(p) == IF cand[p] # Absent THEN cand[p] ELSE disk[p]

ReadAll(p) ==
  /\ AnyCall
  /\ Current(p) # Absent
  /\ fresh' = fresh \cup {p}
  /\ Called(TRUE)
  /\ counts' = [counts EXCEPT !.streak = 0]
  /\ UNCHANGED <<disk, cand, route, lint, pc, outcome, history>>

\* Mutant: every path of the workspace may be written.
AnyPath(p) == TRUE

WriteAllowed(p) == p \in Approved

Stage(p, text) ==
  /\ cand' = [cand EXCEPT ![p] = text]
  /\ fresh' = fresh \cup {p}

Written == counts' = [counts EXCEPT !.idle = 0, !.streak = Capped(@ + 1)]

FileWrite(p) ==
  /\ AnyCall
  /\ WriteAllowed(p)
  /\ \E text \in TextsFor(p) : Stage(p, text)
  /\ Called(FALSE)
  /\ Written
  /\ UNCHANGED <<disk, route, lint, pc, outcome, history>>

\* The text to be edited must be the one that was read in full.
FileEdit(p) ==
  /\ AnyCall
  /\ WriteAllowed(p)
  /\ Current(p) # Absent
  /\ p \in fresh
  /\ \E text \in TextsFor(p) : Stage(p, text)
  /\ Called(FALSE)
  /\ Written
  /\ UNCHANGED <<disk, route, lint, pc, outcome, history>>

\* A write outside the scope; an edit of text that was not read, has changed
\* since, or does not occur.
WriteRefused ==
  /\ AnyCall
  /\ Called(FALSE)
  /\ Written
  /\ UNCHANGED <<disk, cand, fresh, route, lint, pc, outcome, history>>

\* The scaffold touches none of the files a plan may name.
RunInit ==
  /\ AnyCall
  /\ Called(FALSE)
  /\ counts' = [counts EXCEPT !.idle = 0, !.streak = 0]
  /\ UNCHANGED <<disk, cand, fresh, route, lint, pc, outcome, history>>

-----------------------------------------------------------------------------
(* Validation and automatic repair                                         *)

\* The candidates, and the approved files of the workspace they leave alone.
LintFiles ==
  [p \in Paths |-> IF cand[p] # Absent THEN cand[p]
                   ELSE IF p \in Approved THEN disk[p] ELSE Absent]

Present(files) == {p \in Paths : files[p] # Absent}

Invalid(files) == {p \in Present(files) : files[p] # "good"}

Validates(files) ==
  /\ Present(files) # {}
  /\ Invalid(files) = {}
  /\ Required \subseteq Present(files)

\* Validation stops at the first file with an error; candidates come first.
FirstInvalid(files) ==
  LET staged == {p \in Invalid(files) : cand[p] # Absent}
  IN  Min(IF staged # {} THEN staged ELSE Invalid(files))

\* Mutant: the repair leaves the file out of what it validates, and keeps the
\* candidate.
KeptCandidate(p) == cand[p]

RemovedCandidate(p) == Absent

\* removeInvalidPrepareCandidate, TryAutoRepairWithProgram. All that was
\* validated becomes a candidate, files of the workspace too.
RemovesPrepare(files) ==
  /\ Invalid(files) # {}
  /\ files[FirstInvalid(files)] = "misplaced"
  /\ Cardinality(Present(files)) > 1

Fixes(files) == Invalid(files) # {} /\ files[FirstInvalid(files)] = "fixable"

Repaired(files) ==
  IF RemovesPrepare(files) THEN [files EXCEPT ![FirstInvalid(files)] = Absent]
  ELSE IF Fixes(files) THEN [files EXCEPT ![FirstInvalid(files)] = "good"]
  ELSE files

CandidatesAfter(files) ==
  IF RemovesPrepare(files) \/ Fixes(files)
  THEN [p \in Paths |->
          IF Repaired(files)[p] # Absent
          THEN IF WriteAllowed(p) THEN Repaired(files)[p] ELSE cand[p]
          ELSE IF files[p] # Absent THEN RemovedCandidate(p) ELSE cand[p]]
  ELSE cand

\* Mutant: a failure leaves what the last validation said.
NotLowered(passed) == lint \/ passed

LintResult(passed) == passed

RunValidate ==
  LET files  == LintFiles
      passed == Validates(Repaired(files))
  IN  /\ cand' = CandidatesAfter(files)
      /\ fresh' = IF cand' = cand THEN fresh
                   ELSE (fresh \ {p \in Paths : cand'[p] = Absent /\ cand[p] # Absent})
                          \cup {p \in Paths : cand'[p] # Absent}
      /\ lint' = LintResult(passed)
      /\ counts' = [counts EXCEPT
                      !.idle = 0, !.streak = 0,
                      !.failures = IF passed \/ Present(files) = {} THEN @ ELSE @ + 1]
      /\ verdict' = IF passed THEN "passed" ELSE "failed"
      /\ validated' = IF passed THEN cand' ELSE validated

Validate ==
  /\ AnyCall
  /\ RunValidate
  /\ Called(FALSE)
  /\ UNCHANGED <<disk, route, pc, outcome, original>>

-----------------------------------------------------------------------------
(* The end of a turn                                                       *)

EndCalls ==
  /\ pc = "calling"
  /\ turn.left = 0
  /\ counts' = [counts EXCEPT !.idle = IF ~turn.readOnly THEN 0
                                       ELSE IF lint THEN @ + 1 ELSE @]
  /\ turn' = NoTurn
  /\ pc' = "ending"
  /\ UNCHANGED <<disk, cand, fresh, route, lint, outcome, history>>

ShouldAutoFinish == lint /\ HasCandidates /\ counts.idle >= 2

AutoFinish ==
  /\ pc = "ending"
  /\ ShouldAutoFinish
  /\ pc' = "accepted"
  /\ UNCHANGED <<disk, cand, fresh, route, lint, counts, turn, outcome, history>>

\* A candidate state that was written to three times over is validated.
ShouldAutoValidate == HasCandidates /\ counts.streak >= 3

AutoValidate ==
  /\ pc = "ending"
  /\ ~ShouldAutoFinish
  /\ IF ShouldAutoValidate
     THEN RunValidate
     ELSE UNCHANGED <<cand, fresh, lint, counts, verdict, validated>>
  /\ pc' = "checking"
  /\ UNCHANGED <<disk, route, turn, outcome, original>>

\* Mutant: one failure more is forgiven.
FarOverBudget == counts.failures > VerificationBudget + 1

OverBudget == counts.failures > VerificationBudget

\* Mutant: turns are counted by the validations that failed.
CountedTurns == 1 + counts.failures

TurnsAfterThis == counts.turns + 1

\* Mutant: one turn more is taken.
TurnsOverspent == counts.turns > TurnBudget

TurnsSpent == counts.turns >= TurnBudget

NextTurn ==
  /\ pc = "checking"
  /\ IF OverBudget \/ TurnsSpent
     THEN Quit("error") /\ UNCHANGED counts
     ELSE /\ counts' = [counts EXCEPT !.turns = TurnsAfterThis]
          /\ pc' = "asking"
          /\ UNCHANGED outcome
  /\ UNCHANGED <<disk, cand, fresh, route, lint, turn, history>>

-----------------------------------------------------------------------------
(* writeFiles, after the transcript was saved. Each file is replaced in    *)
(* place.                                                                  *)

Pending == {p \in Paths : cand[p] # Absent /\ disk[p] # cand[p]}

WriteNext ==
  /\ pc = "accepted"
  /\ Pending # {}
  /\ disk' = [disk EXCEPT ![Min(Pending)] = cand[Min(Pending)]]
  /\ UNCHANGED <<cand, fresh, route, lint, counts, turn, pc, outcome, history>>

AllWritten ==
  /\ pc = "accepted"
  /\ Pending = {}
  /\ Quit("generated")
  /\ UNCHANGED <<disk, cand, fresh, route, lint, counts, turn, history>>

\* The transcript or a file cannot be written, or the command is killed.
WriteFails ==
  /\ pc = "accepted"
  /\ \/ UNCHANGED disk
     \/ \E p \in Paths :
          /\ cand[p] # Absent
          /\ \A q \in Pending : p <= q
          /\ disk' = [disk EXCEPT ![p] = Torn]
  /\ Quit("error")
  /\ UNCHANGED <<cand, fresh, route, lint, counts, turn, history>>

\* A command that is killed while the session goes on leaves the workspace as
\* a failed request does.
Call ==
  \/ EndingCallMalformed \/ RequestClarification \/ Finish \/ FinishRejected
  \/ CallUnparsed \/ Look \/ WriteRefused \/ RunInit \/ Validate
  \/ \E p \in Paths : ReadAll(p) \/ FileWrite(p) \/ FileEdit(p)

TurnEnds == EndCalls \/ AutoFinish \/ AutoValidate \/ NextTurn

WriteFiles == WriteNext \/ AllWritten \/ WriteFails

Next == Preflight \/ Respond \/ NoResponse \/ Call \/ TurnEnds \/ WriteFiles

Spec == Init /\ [][Next]_askVars

\* Requests time out, and every tool returns.
FairSpec == Spec /\ WF_askVars(Next)

-----------------------------------------------------------------------------
(* Properties                                                              *)

TypeOK ==
  /\ disk \in [Paths -> Texts \cup {Absent, Torn}]
  /\ cand \in [Paths -> Texts \cup {Absent}]
  /\ fresh \subseteq Paths
  /\ route \in {"draft", "refine"}
  /\ lint \in BOOLEAN
  /\ counts \in [turns : 1..TurnBudget, failures : Nat, idle : Nat, streak : 0..3]
  /\ turn \in [left : 0..MaxCalls, sole : BOOLEAN, readOnly : BOOLEAN]
  /\ pc \in {"preflight", "asking", "calling", "ending", "checking", "accepted", "ended"}
  /\ outcome \in {"none", "clarify", "error", "generated"}
  /\ original \in [Paths -> Texts \cup {Absent}]
  /\ verdict \in {"none", "passed", "failed"}
  /\ validated \in [Paths -> Texts \cup {Absent}]

\* The session took the candidates for its result.
Accepted == pc = "accepted" \/ outcome = "generated"

\* docs/contributing/ask-agent-runtime.md: "write scope is derived during
\* preflight and enforced before candidate state mutates", and "disk writes
\* happen only after successful finish". Whatever the model calls, and whatever
\* repair does, a file that changed is an approved one, and it changed after a
\* validation had passed. (The files are written one by one in place: that all of
\* them change and none is torn is neither promised nor said here.)
WorkspaceProtected ==
  \A p \in Paths :
    disk[p] # original[p] => p \in Approved /\ pc \in {"accepted", "ended"} /\ lint

\* A session is not accepted on an old success: the last validation that ran,
\* be it the model's, the automatic one or that of a repair, passed.
AcceptedAfterAPass == Accepted => verdict = "passed"

\* A session that went over its budget of failed validations is not accepted,
\* whatever passed in the same turn.
AcceptedWithinBudget == Accepted => counts.failures <= VerificationBudget

\* What a passing validation vouches for is what would be written: no candidate
\* that repair took out of the validation stays behind.
PassCoversCandidates == \A p \in Paths : validated[p] \in {"good", Absent}

\* The same document: "continue until deck_lint succeeds and the model finishes",
\* where deck_lint "validates the current candidate state". The files written are
\* those that were validated.
AcceptedIsValidated == Accepted => cand = validated

\* Whatever the model calls, the session ends.
SessionEnds == <>(pc = "ended")
=============================================================================
