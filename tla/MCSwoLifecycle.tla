--------------------------- MODULE MCSwoLifecycle ---------------------------
(* Small instances of SwoLifecycle for TLC. *)
EXTENDS SwoLifecycle, TLC

CONSTANTS boss, worker, h1, h2

MCAgent == {boss, worker}
MCCronAgent == {worker}
MCNoAgent == {}
MCOneHandler == {h1}
MCHandler == {h1, h2}

Handlers == Permutations(MCHandler)   \* handlers are alike
=============================================================================
