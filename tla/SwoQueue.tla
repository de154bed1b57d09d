------------------------------ MODULE SwoQueue ------------------------------
(***************************************************************************)
(* What the table of SWOs promises to those who take work from it: every   *)
(* SWO has a current attempt, an attempt is granted to at most one taker,  *)
(* a grant is never forgotten, and the attempt number only moves forward,  *)
(* when someone re-queues the SWO or sends its review back.                *)
(***************************************************************************)
EXTENDS Naturals

CONSTANTS Item, Taker

VARIABLES
  attempt,   \* the attempt each item is in
  granted    \* <<item, attempt, taker>>: the attempts given out so far

QueueInit == attempt = [i \in Item |-> 0] /\ granted = {}

\* t wins the current attempt of i, which nobody has had.
Grant(i, t) ==
  /\ \A u \in Taker : <<i, attempt[i], u>> \notin granted
  /\ granted' = granted \cup {<<i, attempt[i], t>>}
  /\ UNCHANGED attempt

\* The items of a set go back for one more attempt each.
Requeue(back) ==
  /\ attempt' = [i \in Item |-> IF i \in back THEN attempt[i] + 1 ELSE attempt[i]]
  /\ UNCHANGED granted

QueueNext ==
  \/ \E i \in Item, t \in Taker : Grant(i, t)
  \/ \E back \in SUBSET Item : Requeue(back)

QueueSpec == QueueInit /\ [][QueueNext]_<<attempt, granted>>
=============================================================================
