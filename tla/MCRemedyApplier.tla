----------------------------- MODULE MCRemedyApplier -----------------------------
(* Instances of RemedyApplier for TLC. *)
EXTENDS RemedyApplier

CONSTANTS a
==================================================================================
