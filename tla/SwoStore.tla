------------------------------ MODULE SwoStore ------------------------------
(***************************************************************************)
(* Table active_swos of registry.rs: one row per Subordinate Work Order.   *)
(* The registry holds one SQLite connection behind a mutex, so each of its *)
(* functions is one atomic step here, and a handler that calls several of  *)
(* them is several steps.  The columns that no guard reads (payloads,      *)
(* titles, initiative, priority) are left out.                             *)
(*                                                                         *)
(* Row ids are handed out in increasing order, and so is created_at.       *)
(*                                                                         *)
(* An operator named Mut... is a plausible fault in the definition that    *)
(* follows it, kept to show that the properties notice it.                 *)
(***************************************************************************)
EXTENDS Naturals

CONSTANTS
  MaxSwo,   \* bound: rows the table may hold
  Agent     \* ids of table agents

ASSUME StoreAssumption == MaxSwo \in Nat \ {0}

Swo == 1 .. MaxSwo
NoSwo == 0      \* parent_swo_id NULL
NoRun == 0      \* current_run_id NULL

Terminal == {"COMPLETED", "FAILED", "CANCELLED"}
Active   == {"PENDING", "IN_PROGRESS"}
Status   == {"ABSENT"} \cup Active \cup Terminal   \* ABSENT: no such row yet

VARIABLES
  status,     \* status
  assigned,   \* assigned_agent_id
  parent,     \* parent_swo_id
  run,        \* current_run_id
  retry       \* retry_count

swoVars == <<status, assigned, parent, run, retry>>

Rows == {s \in Swo : status[s] # "ABSENT"}

StoreTypeOK(Run) ==
  /\ status \in [Swo -> Status]
  /\ assigned \in [Swo -> Agent]
  /\ parent \in [Swo -> Swo \cup {NoSwo}]
  /\ run \in [Swo -> Run \cup {NoRun}]
  /\ retry \in [Swo -> Nat]

StoreInit ==
  /\ status = [s \in Swo |-> "ABSENT"]
  /\ assigned = [s \in Swo |-> CHOOSE a \in Agent : TRUE]
  /\ parent = [s \in Swo |-> NoSwo]
  /\ run = [s \in Swo |-> NoRun]
  /\ retry = [s \in Swo |-> 0]

-----------------------------------------------------------------------------
(* create_swo_with_metadata: the next row id. *)
CreateSwo(s, a, p, st) ==
  /\ status[s] = "ABSENT"
  /\ \A t \in Swo : t < s => status[t] # "ABSENT"
  /\ status' = [status EXCEPT ![s] = st]
  /\ assigned' = [assigned EXCEPT ![s] = a]
  /\ parent' = [parent EXCEPT ![s] = p]
  /\ UNCHANGED <<run, retry>>

(* update_swo_status, set_swo_status, fail_swo: UPDATE ... WHERE id = ?,
   whatever the row holds. *)
UpdateStatus(s, st) ==
  /\ status' = [status EXCEPT ![s] = st]
  /\ UNCHANGED <<assigned, parent, run, retry>>

(* claim_swo_with_run_id: conditional on PENDING.  Claimable is its WHERE,
   RecordRun the half of its SET that claim_swo, the legacy form, leaves out. *)
MutClaimable(s) == status[s] \in Active
Claimable(s) == status[s] = "PENDING"

MutRecordRun(s, r) == run
RecordRun(s, r) == [run EXCEPT ![s] = r]

ClaimSwo(s, r) ==
  /\ Claimable(s)
  /\ status' = [status EXCEPT ![s] = "IN_PROGRESS"]
  /\ run' = RecordRun(s, r)
  /\ UNCHANGED <<assigned, parent, retry>>

(* reset_swo_to_pending and reset_swo_with_revision_feedback: no condition on
   the status, current_run_id stays. *)
MutRequeued(s) == retry
Requeued(s) == [retry EXCEPT ![s] = @ + 1]

ResetToPending(s) ==
  /\ status' = [status EXCEPT ![s] = "PENDING"]
  /\ retry' = Requeued(s)
  /\ UNCHANGED <<assigned, parent, run>>

(* increment_swo_retry_count. *)
IncrementRetry(s) ==
  /\ retry' = [retry EXCEPT ![s] = @ + 1]
  /\ UNCHANGED <<status, assigned, parent, run>>

(* The recursive CTEs of cancel_active_descendant_swos and of
   swo_lineage_agent_ids.  A parent's id is smaller than its child's. *)
Ancestors ==
  LET anc[s \in Swo] == IF parent[s] \in Swo /\ parent[s] < s
                        THEN {parent[s]} \cup anc[parent[s]]
                        ELSE {}
  IN anc

Descendants(s) == {d \in Swo : s \in Ancestors[d]}

LineageAgents(s) == {assigned[t] : t \in Ancestors[s] \cup {s}}

(* cancel_active_descendant_swos. *)
MutCancelled(s) ==
  [d \in Swo |-> IF d \in Descendants(s) /\ status[d] \in Active
                 THEN "CANCELED" ELSE status[d]]
MutCancelledAll(s) ==
  [d \in Swo |-> IF d \in Descendants(s) THEN "CANCELLED" ELSE status[d]]
Cancelled(s) ==
  [d \in Swo |-> IF d \in Descendants(s) /\ status[d] \in Active
                 THEN "CANCELLED" ELSE status[d]]

CancelDescendants(s) ==
  /\ status' = Cancelled(s)
  /\ UNCHANGED <<assigned, parent, run, retry>>

(* get_next_pending_swo_for_agent: the oldest row, in id order. *)
NextPending(a) ==
  {s \in Swo : /\ status[s] = "PENDING" /\ assigned[s] = a
               /\ \A t \in Swo : (t < s /\ assigned[t] = a) => status[t] # "PENDING"}
=============================================================================
