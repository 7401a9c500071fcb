----------------------------- MODULE MCServoBus -----------------------------
(* An instance of ServoBus for TLC. *)
EXTENDS ServoBus
=============================================================================
