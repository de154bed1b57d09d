---------------------------- MODULE MCRuntimeBus ----------------------------
(* An instance of RuntimeBus for TLC. *)
EXTENDS RuntimeBus

CONSTANTS w1

AtWork == {p \in Publisher : pub[p].stage # "idle"}

(* Bound: once a command has come, or a reading failed, one publisher is at work at
   a time, and a loop's events and everybody else's writes are two together. *)
CommandsAreFew ==
  others = 0 \/ (Cardinality(AtWork) <= 1 /\ \A s \in Swo : events[s] + others <= 2)
=============================================================================
