-------------------------- MODULE MCStateSelection --------------------------
(***************************************************************************)
(* Two local roots and one server, each with two scenarios, one of them    *)
(* the workflow that is found when none is named.                          *)
(***************************************************************************)
EXTENDS StateSelection
=============================================================================
