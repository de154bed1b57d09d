-------------------------- MODULE MCHsmDelegation --------------------------
(* Small instances of HsmDelegation for TLC: a manager and its reports. *)
EXTENDS HsmDelegation

CONSTANTS boss, worker, peer, h1

MCAgent == {boss, worker}
MCTeam == {boss, worker, peer}
MCNoAgent == {}
MCReports == [a \in MCAgent |-> IF a = boss THEN {worker} ELSE {}]
MCTeamReports == [a \in MCTeam |-> IF a = boss THEN {worker, peer} ELSE {}]
MCHandler == {h1}
=============================================================================
