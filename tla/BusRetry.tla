------------------------------ MODULE BusRetry ------------------------------
(***************************************************************************)
(* The runtime bus of a workspace whose operator saves a connection: the   *)
(* bus is disposed of and initialised again, while the React component,    *)
(* and with it the subscription of its reducer, stays mounted.             *)
(***************************************************************************)
EXTENDS RuntimeBus

(* On an error or after two seconds, the last bootstrap that went well. *)
BootsFromCache(i) == (\E boot \in cached : Hydrates(i, boot)) /\ UNCHANGED cached

(* dispose, after which the effect calls init once more.  A call under way goes
   on, and subscribes in the end.  The history starts afresh. *)
RetryKernelBoot ==
  /\ attempts < MaxInits
  /\ attempts' = attempts + 1
  /\ try' = [i \in Try |-> IF i = unlisten THEN [stage |-> "gone", boot |-> Unbooted]
                          ELSE try[i]]
  /\ unlisten' = NoTry
  /\ attached' = FALSE
  /\ heard' = {} /\ heardTwice' = {}
  /\ atReplay' = [i \in Try |-> [emitted |-> {}, log |-> <<>>]]
  /\ UNCHANGED <<kernelVars, busVars, view, cached>>

RetryNext ==
  \/ Next
  \/ \E i \in Try : BootsFromCache(i)
  \/ RetryKernelBoot

RetrySpec == Init /\ [][RetryNext]_vars

-----------------------------------------------------------------------------
(* Saving a connection is there to "reset the bus so init() can run fresh"
   (App.tsx:108): a bus that has been initialised feeds the workspace. *)
InitialisedBusIsHeard == unlisten # NoTry => attached
=============================================================================
