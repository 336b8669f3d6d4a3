----------------------------- MODULE MCCommunity -----------------------------
(***************************************************************************)
(* Four readings, one of which the endpoint refuses, and an outbox of two: *)
(* the cap is reached with a refused reading at its head.                  *)
(***************************************************************************)
EXTENDS Community

CONSTANTS r1, r2, r3, bad

=============================================================================
