----------------------------- MODULE StateStore -----------------------------
(***************************************************************************)
(* What the saved state of one workflow is to the commands of one operator:*)
(* a register. A command that reads it gets what was saved last; clearing  *)
(* it empties it; and a command that is killed leaves the register as it   *)
(* was or as it wanted it. Clearing may be cut short: then a copy that an  *)
(* older release left behind is what is read next. StateFiles implements   *)
(* this with files.                                                        *)
(***************************************************************************)
CONSTANTS Versions, None

VARIABLES
  stored,    \* the saved state, None when there is none
  older,     \* states older releases saved elsewhere, still there
  loaded,    \* what the last command that read the state got
  clearing   \* "no", "running" or, until the next save, "done"

storeVars == <<stored, older, loaded, clearing>>

Init ==
  /\ older \subseteq Versions
  /\ stored \in older \cup {None}
  /\ stored = None <=> older = {}
  /\ loaded = None
  /\ clearing = "no"

Save ==
  /\ stored' \in Versions \ (older \cup {stored})
  /\ clearing' = "no"
  /\ UNCHANGED <<older, loaded>>

Load ==
  /\ loaded' = stored
  /\ UNCHANGED <<stored, older, clearing>>

BeginClear ==
  /\ clearing' = "running"
  /\ UNCHANGED <<stored, older, loaded>>

\* One file less: the next older copy comes to light.
Drop ==
  /\ clearing = "running"
  /\ older' \subseteq older
  /\ stored' \in older' \cup {None}
  /\ stored' = None => older' = {}
  /\ UNCHANGED <<loaded, clearing>>

EndClear ==
  /\ clearing = "running"
  /\ stored = None
  /\ clearing' = "done"
  /\ UNCHANGED <<stored, older, loaded>>

\* The command is killed before it has removed everything.
AbandonClear ==
  /\ clearing = "running"
  /\ clearing' = "no"
  /\ UNCHANGED <<stored, older, loaded>>

Next == Save \/ Load \/ BeginClear \/ Drop \/ EndClear \/ AbandonClear

Spec == Init /\ [][Next]_storeVars
=============================================================================
