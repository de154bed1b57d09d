---------------------------- MODULE WorkflowLaunch ----------------------------
(***************************************************************************)
(* launch_workflow of kernel.rs: a template is compiled for a context, and *)
(* its root, its step rows, the row of workflow_runs and the audit event   *)
(* are written by calls that each take the registry's lock anew, while     *)
(* cron already serves the rows that are there.                            *)
(*                                                                         *)
(* A step's mode is text in its payload: all rows are PENDING at once.     *)
(***************************************************************************)
EXTENDS Integers, Sequences

CONSTANTS
  Assignee,     \* agents a step may be for
  Condition,    \* conditions of steps
  Workflow,     \* the steps of the workflow
  Context,      \* contexts of a launch: the assignee asked for, the reports, the conditions that hold
  Entry,        \* the template's entry agent
  Unasked,      \* no requested assignee
  Always,       \* a step without a condition
  MaxLaunches   \* bound: POSTs to /v2/workflows/launch

ASSUME WorkflowAssumption ==
  /\ MaxLaunches \in Nat /\ Entry \in Assignee
  /\ Workflow \in Seq([assignee : {"CURRENT", "REQUESTED", "REPORTS", "AGENT_IDS"},
                       ids : Seq(Assignee), when : Condition \cup {Always}])
  /\ \A c \in Context :
       c.requested \in Assignee \cup {Unasked} /\ c.reports \in Seq(Assignee) /\ c.holds \subseteq Condition

VARIABLES
  launching,   \* where each call is
  root,      \* status of each launch's root
  steps,     \* its step rows: [agent, status]
  recorded,  \* launches with a row of workflow_runs
  sweeping,  \* launches whose root was closed and whose descendants are cancelled next
  listed,    \* the reconciler's list of stale rows, as read, not yet applied
  revising,  \* the row a revision under way writes next
  cutShort,  \* history: launches that failed or were stopped on the way
  swept      \* history: of each launch, the steps a sweep passed over and nobody reset since

rowVars == <<root, steps>>
launchVars == <<launching, recorded, cutShort>>
workflowVars == <<launchVars, rowVars, sweeping, listed, revising, swept>>

Launch == 1..MaxLaunches
Unlaunched == [at |-> "none", todo |-> <<>>]
Closed == {"COMPLETED", "FAILED", "CANCELLED"}

WorkflowInit ==
  /\ launching = [l \in Launch |-> Unlaunched]
  /\ root = [l \in Launch |-> "ABSENT"] /\ steps = [l \in Launch |-> <<>>]
  /\ sweeping = {} /\ listed = {} /\ revising = {}
  /\ recorded = {} /\ cutShort = {} /\ swept = [l \in Launch |-> {}]

-----------------------------------------------------------------------------
(* resolve_assignees: a requested assignee that is missing is the entry agent. *)
Assignees(step, c) ==
  CASE step.assignee = "CURRENT" -> <<Entry>>
    [] step.assignee = "REQUESTED" -> <<IF c.requested = Unasked THEN Entry ELSE c.requested>>
    [] step.assignee = "REPORTS" -> c.reports
    [] step.assignee = "AGENT_IDS" -> step.ids

(* compile_workflow: the steps whose condition holds, one row per assignee. *)
Chosen(step, c) == step.when = Always \/ step.when \in c.holds
Compiles(c) == \A n \in DOMAIN Workflow : Chosen(Workflow[n], c) => Assignees(Workflow[n], c) # <<>>
Compiled(c) ==
  LET rows[n \in 0..Len(Workflow)] ==
        IF n = 0 THEN <<>>
        ELSE rows[n - 1] \o (IF Chosen(Workflow[n], c) THEN Assignees(Workflow[n], c) ELSE <<>>)
  IN rows[Len(Workflow)]

Posts(l, c) ==
  /\ launching[l] = Unlaunched /\ \A k \in 1..(l - 1) : launching[k] # Unlaunched
  /\ Compiles(c)
  /\ launching' = [launching EXCEPT ![l] = [at |-> "root", todo |-> Compiled(c)]]
  /\ UNCHANGED <<rowVars, recorded, cutShort, sweeping, listed, revising, swept>>

CreateRoot(l) ==
  /\ launching[l].at = "root"
  /\ launching' = [launching EXCEPT ![l].at = "steps"]
  /\ root' = [root EXCEPT ![l] = "PENDING"]
  /\ UNCHANGED <<steps, recorded, cutShort, sweeping, listed, revising, swept>>

CreateStep(l) ==
  LET n == Len(steps[l]) IN
  /\ launching[l].at = "steps" /\ n < Len(launching[l].todo)
  /\ steps' = [steps EXCEPT ![l] = Append(@, [agent |-> launching[l].todo[n + 1], status |-> "PENDING"])]
  /\ UNCHANGED <<launchVars, root, sweeping, listed, revising, swept>>

StepsDone(l) == Len(steps[l]) = Len(launching[l].todo)
RecordWorkflowRun(l) ==
  /\ launching[l].at = "steps" /\ StepsDone(l)
  /\ launching' = [launching EXCEPT ![l].at = "audit"]
  /\ recorded' = recorded \cup {l}
  /\ UNCHANGED <<rowVars, cutShort, sweeping, listed, revising, swept>>

(* The audit event; when it fails the caller hears of an error all the same. *)
AuditLaunch(l) ==
  /\ launching[l].at = "audit"
  /\ \E how \in {"launched", "error"} : launching' = [launching EXCEPT ![l].at = how]
  /\ UNCHANGED <<rowVars, recorded, cutShort, sweeping, listed, revising, swept>>

(* A registry call fails (an assignee that is no agent, the database) or the
   kernel stops: what was written stays. *)
CutShort(l) ==
  /\ launching[l].at \in {"root", "steps"}
  /\ launching' = [launching EXCEPT ![l].at = "error"]
  /\ cutShort' = cutShort \cup {l}
  /\ UNCHANGED <<rowVars, recorded, sweeping, listed, revising, swept>>

-----------------------------------------------------------------------------
(* Everyone else who moves a launch's rows; its row 0 is the root. *)
RowsOf(l) == IF root[l] = "ABSENT" THEN {} ELSE {0} \cup DOMAIN steps[l]
StatusOf(l, n) == IF n = 0 THEN root[l] ELSE steps[l][n].status
Write(l, n, status) ==
  IF n = 0 THEN root' = [root EXCEPT ![l] = status] /\ UNCHANGED steps
           ELSE steps' = [steps EXCEPT ![l][n].status = status] /\ UNCHANGED root

(* claim_swo_with_run_id, by cron or a revision. *)
ClaimRow(l, n) ==
  /\ StatusOf(l, n) = "PENDING" /\ Write(l, n, "IN_PROGRESS")
  /\ UNCHANGED <<launchVars, sweeping, listed, revising, swept>>

(* A row is ended by its own loop, by the operator's decision or cancellation,
   or by the reconciler out of retries.  None of these writes looks at the row
   as it is by then.  All but FAILED are followed by a sweep. *)
EndRow(l, n) ==
  /\ \E status \in Closed :
       /\ Write(l, n, status)
       /\ sweeping' = IF n = 0 /\ status # "FAILED" THEN sweeping \cup {l} ELSE sweeping
  /\ UNCHANGED <<launchVars, listed, revising, swept>>

(* cancel_active_descendant_swos: what is active below the root. *)
MutOpen == {"IN_PROGRESS"}
Open == {"PENDING", "IN_PROGRESS"}
SweepSteps(l) ==
  /\ l \in sweeping /\ sweeping' = sweeping \ {l}
  /\ steps' = [steps EXCEPT ![l] = [n \in DOMAIN @ |->
                 IF @[n].status \in Open THEN [@[n] EXCEPT !.status = "CANCELLED"] ELSE @[n]]]
  /\ swept' = [swept EXCEPT ![l] = DOMAIN steps[l]]
  /\ UNCHANGED <<launchVars, root, listed, revising>>

(* Its error is ignored, and a stop comes before it. *)
SweepLost(l) ==
  /\ l \in sweeping /\ sweeping' = sweeping \ {l}
  /\ UNCHANGED <<launchVars, rowVars, listed, revising, swept>>

(* A row that is written to be worked on again. *)
Reopen(l, n, status) ==
  /\ Write(l, n, status)
  /\ swept' = [swept EXCEPT ![l] = @ \ {n}]

(* The reconciler lists rows in progress, then resets one after the other
   without another look (its FAILED is an EndRow). *)
ListStale ==
  /\ listed = {}
  /\ \E stale \in SUBSET UNION {{<<l, n>> : n \in {m \in RowsOf(l) : StatusOf(l, m) = "IN_PROGRESS"}} : l \in Launch} :
       stale # {} /\ listed' = stale
  /\ UNCHANGED <<launchVars, rowVars, sweeping, revising, swept>>

ResetStale(l, n) ==
  /\ <<l, n>> \in listed /\ listed' = listed \ {<<l, n>>}
  /\ Reopen(l, n, "PENDING") \/ UNCHANGED <<rowVars, swept>>
  /\ UNCHANGED <<launchVars, sweeping, revising>>

(* queue_request_revision of a completed step, or of work below a step: the
   ancestors are put IN_PROGRESS one by one, then the row itself is reset.
   Bound: one revision at a time. *)
Revises(l, n) == revising = {} /\ revising' = {<<l, n>>}
ReviseStep(l, n) ==
  /\ StatusOf(l, n) = "COMPLETED" /\ n # 0
  /\ Write(l, 0, "IN_PROGRESS") /\ Revises(l, n)
  /\ UNCHANGED <<launchVars, sweeping, listed, swept>>

ReviseBelow(l, n) ==
  /\ n # 0 /\ Reopen(l, n, "IN_PROGRESS") /\ Revises(l, 0)
  /\ UNCHANGED <<launchVars, sweeping, listed>>

ReviseNext(l, n) ==
  /\ <<l, n>> \in revising /\ revising' = revising \ {<<l, n>>}
  /\ Reopen(l, n, IF n = 0 THEN "IN_PROGRESS" ELSE "PENDING") \/ UNCHANGED <<rowVars, swept>>
  /\ UNCHANGED <<launchVars, sweeping, listed>>

WorkflowNext ==
  \/ ListStale
  \/ \E l \in Launch :
       \/ \E c \in Context : Posts(l, c)
       \/ CreateRoot(l) \/ CreateStep(l) \/ RecordWorkflowRun(l) \/ AuditLaunch(l) \/ CutShort(l)
       \/ SweepSteps(l) \/ SweepLost(l)
       \/ \E n \in RowsOf(l) :
            \/ ClaimRow(l, n) \/ EndRow(l, n) \/ ResetStale(l, n)
            \/ ReviseStep(l, n) \/ ReviseBelow(l, n) \/ ReviseNext(l, n)

WorkflowSpec == WorkflowInit /\ [][WorkflowNext]_workflowVars

-----------------------------------------------------------------------------
(* Types of the variables. *)
RowStatus == {"PENDING", "IN_PROGRESS"} \cup Closed
WorkflowTypeOK ==
  /\ \A l \in Launch :
       /\ launching[l].at \in {"none", "root", "steps", "audit", "launched", "error"}
       /\ root[l] \in RowStatus \cup {"ABSENT"}
       /\ \A n \in DOMAIN steps[l] : steps[l][n].status \in RowStatus
       /\ swept[l] \subseteq DOMAIN steps[l]
  /\ recorded \subseteq Launch /\ cutShort \subseteq Launch /\ sweeping \subseteq Launch
  /\ listed \cup revising \subseteq Launch \X Nat

(* A root has the compiled steps in their order and its workflow run, unless
   its launch is under way or was cut short; a step that a closed root's sweep
   passed over takes no more work, unless the reconciler's older list or a
   revision puts it back.  (A launch that has not noticed goes on adding steps.) *)
WorkflowIsWhole ==
  \A l \in Launch : root[l] # "ABSENT" =>
    /\ \/ launching[l].at = "steps" \/ l \in cutShort
       \/ /\ l \in recorded
          /\ [n \in DOMAIN steps[l] |-> steps[l][n].agent] = launching[l].todo
    /\ l \in recorded => Len(steps[l]) = Len(launching[l].todo)
    /\ \A n \in swept[l] : steps[l][n].status \notin {"PENDING", "IN_PROGRESS"}
=============================================================================
