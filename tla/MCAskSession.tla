---------------------------- MODULE MCAskSession ----------------------------
(***************************************************************************)
(* Instances of AskSession: an entry scenario and prepare.yaml, which the  *)
(* plan allows to write, and a file it does not.                           *)
(***************************************************************************)
EXTENDS AskSession

MCApproved == {1, 2}
MCRequired == {1}
MCTexts == {"good", "misplaced"}
=============================================================================
