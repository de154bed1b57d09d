----------------------------- MODULE MCBusRetry -----------------------------
(* An instance of BusRetry for TLC. *)
EXTENDS BusRetry

CONSTANTS w1
=============================================================================
