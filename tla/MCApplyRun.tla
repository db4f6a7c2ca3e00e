----------------------------- MODULE MCApplyRun -----------------------------
(***************************************************************************)
(* An instance of ApplyRun: a phase that asks for a secret and exports a   *)
(* plain key, one that consumes the secret and exports keys of which one   *)
(* may be skipped, one that consumes what both exported, and one that      *)
(* needs nothing, so that it can complete on its own first.                *)
(***************************************************************************)
EXTENDS ApplyRun

B(reads, exports) == [reads |-> reads, exports |-> exports]

MCBatches == <<
  <<B({}, {"token"}), B({"token"}, {"addr"})>>,
  <<B({"token", "addr"}, {"cert", "note"}), B({"cert"}, {})>>,
  <<B({"token", "cert"}, {})>>,
  <<B({}, {})>> >>

MCKeys == {"token", "addr", "cert", "note"}
MCProducer == [k \in MCKeys |-> IF k \in {"token", "addr"} THEN 1 ELSE 2]
=============================================================================
