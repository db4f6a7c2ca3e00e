---------------------------- MODULE MCStateFiles ----------------------------
(***************************************************************************)
(* The two places older releases kept the state in, for one process at a   *)
(* time and for two at once.                                               *)
(***************************************************************************)
EXTENDS StateFiles

OldPlaces == <<"xdg", "legacy">>
=============================================================================
