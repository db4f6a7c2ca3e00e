----------------------------- MODULE RetainedLog -----------------------------
(***************************************************************************)
(* What a log that is rotated promises: records are kept in the order they *)
(* were accepted, and what goes is the oldest, so that the records kept    *)
(* are always the last ones. AuditLog implements this with files.          *)
(***************************************************************************)
EXTENDS Naturals, Sequences

VARIABLES
  log,      \* the records kept, each one a record with the number it got
  accepted  \* how many were ever accepted

logVars == <<log, accepted>>

Init == log = <<>> /\ accepted = 0

\* A record is accepted; a fault may keep it from ending its line.
Accept ==
  /\ accepted' = accepted + 1
  /\ \E ended \in BOOLEAN : log' = Append(log, [id |-> accepted', ended |-> ended])

Forget ==
  /\ \E n \in 1..Len(log) : log' = SubSeq(log, n + 1, Len(log))
  /\ UNCHANGED accepted

Next == Accept \/ Forget

Spec == Init /\ [][Next]_logVars
=============================================================================
