------------------------------- MODULE AuditLog -------------------------------
(***************************************************************************)
(* The audit log of the server (internal/server/http_audit.go): one record *)
(* per request, appended to a file that is rotated through numbered        *)
(* generations when it has grown past a size. Write holds a mutex from the *)
(* first step to the last, so one record at a time is on its way. The      *)
(* steps of a rotation are system calls: each may fail, and the server may *)
(* be killed between any two and started again.                            *)
(***************************************************************************)
EXTENDS Naturals, Sequences, FiniteSets, SequencesExt

CONSTANTS
  MaxFiles,    \* generations kept next to the log itself
  MaxSize,     \* the log is rotated when it has more records than this
  MaxRecords,  \* bound on the records ever accepted
  MaxFaults    \* bound on failing calls and kills in the middle of a write

ASSUME AuditAssumption ==
  /\ MaxFiles \in Nat \ {0} /\ MaxSize \in Nat \ {0}
  /\ MaxRecords \in Nat /\ MaxFaults \in Nat

VARIABLES
  files,   \* [generation -> its records], 0 is server-audit.log; <<>> when absent
  handle,  \* "open" on generation 0, or "closed"
  pc,      \* where Write is; "down" when no server runs
  i,       \* the generation that is renamed next
  next,    \* the number of the next record
  faults   \* history: calls that failed, kills in the middle of a write

vars == <<files, handle, pc, i, next, faults>>

Record == [id : Nat, ended : BOOLEAN]

Init ==
  /\ files = [g \in 0..MaxFiles |-> <<>>]
  /\ handle = "closed"
  /\ pc = "down"
  /\ i = 0
  /\ next = 1
  /\ faults = 0

\* newAuditLogger: the log that is there is appended to.
Start ==
  /\ pc = "down"
  /\ handle' = "open"
  /\ pc' = "idle"
  /\ UNCHANGED <<files, i, next, faults>>

Stop ==
  /\ pc = "idle"
  /\ handle' = "closed"
  /\ pc' = "down"
  /\ UNCHANGED <<files, i, next, faults>>

\* Mutant: the size is compared in the wrong unit.
RotateAnySize == handle = "open" /\ Len(files[0]) > 0

\* shouldRotateLocked; the Stat of a closed file is an error and means no.
ShouldRotate == handle = "open" /\ Len(files[0]) > MaxSize

Fault == faults < MaxFaults /\ faults' = faults + 1

\* A request has been answered and takes the lock; a rotation closes the file.
BeginWrite ==
  /\ pc = "idle" /\ next <= MaxRecords
  /\ \/ ~ShouldRotate /\ pc' = "write" /\ UNCHANGED <<handle, faults>>
     \/ ShouldRotate /\ handle' = "closed" /\ pc' = "remove" /\ UNCHANGED faults
     \/ ShouldRotate /\ handle' = "closed" /\ pc' = "write" /\ Fault
  /\ UNCHANGED <<files, i, next>>

\* Mutant: the loop begins one generation too far.
RemoveOldestFromTop ==
  /\ pc = "remove"
  /\ files' = [files EXCEPT ![MaxFiles] = <<>>]
  /\ pc' = "shift" /\ i' = MaxFiles
  /\ UNCHANGED <<handle, next, faults>>

RemoveOldest ==
  /\ pc = "remove"
  /\ files' = [files EXCEPT ![MaxFiles] = <<>>]
  /\ pc' = "shift" /\ i' = MaxFiles - 1
  /\ UNCHANGED <<handle, next, faults>>

\* One rename, from the oldest generation down to the log itself; that there is
\* no such generation is not an error.
Shift ==
  /\ pc = "shift"
  /\ files' = IF files[i] = <<>> THEN files
              ELSE [files EXCEPT ![i + 1] = files[i], ![i] = <<>>]
  /\ IF i = 0 THEN pc' = "open" /\ UNCHANGED i ELSE i' = i - 1 /\ UNCHANGED pc
  /\ UNCHANGED <<handle, next, faults>>

\* Mutant: the loop goes on with the next generation.
RotationFailsOn ==
  /\ pc \in {"remove", "shift"}
  /\ IF pc = "shift" /\ i > 0 THEN i' = i - 1 /\ UNCHANGED pc ELSE pc' = "open" /\ UNCHANGED i
  /\ Fault
  /\ UNCHANGED <<files, handle, next>>

\* The removal or a rename fails and ends the rotation.
RotationFails ==
  /\ pc \in {"remove", "shift"}
  /\ pc' = "open"
  /\ Fault
  /\ UNCHANGED <<files, handle, i, next>>

\* If the log cannot be opened again, Write goes on with the closed file.
Reopen ==
  /\ pc = "open"
  /\ pc' = "write"
  /\ \/ handle' = "open" /\ UNCHANGED faults
     \/ UNCHANGED handle /\ Fault
  /\ UNCHANGED <<files, i, next>>

Put(ended) ==
  /\ files' = [files EXCEPT ![0] = Append(@, [id |-> next, ended |-> ended])]
  /\ next' = next + 1

\* The record and its newline; a full disk may let neither through, or a part.
WriteRecord ==
  /\ pc = "write" /\ handle = "open"
  /\ pc' = "idle"
  /\ \/ Put(TRUE) /\ UNCHANGED faults
     \/ Put(FALSE) /\ Fault
     \/ UNCHANGED <<files, next>> /\ Fault
  /\ UNCHANGED <<handle, i>>

\* Every write to the closed file is refused, until the server starts again.
WriteRefused ==
  /\ pc = "write" /\ handle = "closed"
  /\ pc' = "idle"
  /\ UNCHANGED <<files, handle, i, next, faults>>

Kill ==
  /\ pc \notin {"idle", "down"}
  /\ Fault
  /\ pc' = "down" /\ handle' = "closed"
  /\ \/ UNCHANGED <<files, next>>
     \/ pc = "write" /\ handle = "open" /\ Put(FALSE)
  /\ UNCHANGED i

Next ==
  \/ Start \/ Stop \/ BeginWrite \/ RemoveOldest \/ Shift \/ RotationFails \/ Reopen
  \/ WriteRecord \/ WriteRefused \/ Kill

Spec == Init /\ [][Next]_vars

-----------------------------------------------------------------------------
(* Properties                                                              *)

\* What an operator reads from the oldest generation to the log itself.
Kept == FlattenSeq([k \in 1..MaxFiles + 1 |-> files[MaxFiles + 1 - k]])

\* A record shares its line with the one before when that did not end it.
Unreadable ==
  {line \in (0..MaxFiles) \X (1..MaxRecords) :
     LET log == files[line[1]]
         k   == line[2]
     IN  k <= Len(log) /\ (~log[k].ended \/ (k > 1 /\ ~log[k - 1].ended))}

TypeOK ==
  /\ files \in [0..MaxFiles -> Seq(Record)]
  /\ handle \in {"open", "closed"}
  /\ pc \in {"down", "idle", "remove", "shift", "open", "write"}
  /\ i \in 0..MaxFiles - 1
  /\ next \in 1..MaxRecords + 1
  /\ faults \in 0..MaxFaults

\* Rotation, with failures and kills anywhere in it, neither reorders records
\* nor loses one from the middle.
RL == INSTANCE RetainedLog WITH log <- Kept, accepted <- next - 1

ImplementsRetainedLog == RL!Spec

\* Records go only for want of room: once one has gone there are as many full
\* generations as the operator asked for, less one for every fault and the one
\* that a rotation on its way removes. A fault spoils two lines at most. This is
\* about records that were accepted: after a failed reopening every record is
\* refused, and none of those is counted, until the server starts again.
FaultsCostLittle ==
  /\ Len(Kept) < next - 1 =>
       Cardinality({g \in 1..MaxFiles : Len(files[g]) > MaxSize})
         + faults + (IF pc = "shift" THEN 1 ELSE 0) >= MaxFiles
  /\ Cardinality(Unreadable) <= 2 * faults
=============================================================================
