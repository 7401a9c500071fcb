----------------------------- MODULE MCDmaTransport -----------------------------
(* An instance of DmaTransport for TLC. *)
EXTENDS DmaTransport

\* A read whose time has run out before it begins, as the client computes it.
MCTimeouts == {-1, 2}
================================================================================
