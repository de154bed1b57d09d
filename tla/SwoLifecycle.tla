---------------------------- MODULE SwoLifecycle ----------------------------
(***************************************************************************)
(* Everyone who moves a row of active_swos, running concurrently:          *)
(*   - executions: one tokio task per HSM loop (execute_hsm_loop_with_     *)
(*     context), started by a claim or spawned by its manager's loop;      *)
(*   - the cron loop, the queue reconciler, and the startup reaper;        *)
(*   - the operator's commands (submit, cancel, decide, request revision). *)
(* A process crash kills every task; the tables survive it.                *)
(*                                                                         *)
(* The HSM loop is reduced to the writes it makes to the table; which      *)
(* outcome a worker reports is left open.  HsmDelegation opens that box.   *)
(***************************************************************************)
EXTENDS SwoStore, FiniteSets

CONSTANTS
  CronAgent,      \* agents with a cron_interval_seconds
  MaxRetries,     \* MAX_RETRIES of the reconciler and the reaper (3 in the code)
  MaxReviewFailures,   \* MAX_REVIEW_FAILURES of the HSM loop (3 in the code)
  Handler,        \* bound: operator commands under way at once
  MaxExec,        \* bound: executions ever started
  MaxCrashes,     \* bound: process crashes
  MaxCommands     \* bound: operator commands on existing rows

ASSUME LifecycleAssumption ==
  /\ Agent # {} /\ CronAgent \subseteq Agent
  /\ MaxExec \in Nat \ {0} /\ MaxRetries \in Nat /\ MaxReviewFailures \in Nat \ {0}
  /\ MaxCrashes \in Nat /\ MaxCommands \in Nat

Exec == 1 .. MaxExec     \* an execution's number is also its run id
NoExec == 0

\* Where a loop stands: its triage worker runs; it awaits its children; its
\* synthesis worker runs; that worker rejected the children, and may revise; the
\* loop has nothing left but to write FAILED; it has written COMPLETED after a
\* direct answer / after a synthesis and is about to cancel descendants; it may
\* still dispatch the direct answer's side-channel SWOs.
LivePhase == {"triage", "await", "review", "rejected", "failing",
              "closing", "accepting", "dispatch"}
Phase == LivePhase \cup {"free", "over"}
Starter == {"none", "cron", "operator", "manager"}
OpKind == {"none", "submit", "sweep", "approve", "reject",
           "reopen", "revise", "reclaim"}

VARIABLES
  phase, job, by, epoch, spawner,   \* executions; epoch: retry_count at the start
  beaten,      \* claimed run ids with a row in agent_heartbeats
  cronPick,    \* the SWO the cron loop read as next pending, before its claim
  inFlight,    \* cron's in_flight set
  ideating,    \* agents in an ideation run
  scan,        \* the reconciler's list, as read, not yet applied
  op,          \* what each handler of operator commands is at
  resets,      \* history: automatic resets of each SWO
  crashes, commands

execVars == <<phase, job, by, epoch, spawner>>
cronVars == <<cronPick, inFlight, ideating>>
history  == <<resets, crashes, commands>>
vars == <<swoVars, execVars, beaten, cronVars, scan, op, history>>

OpOn(kind, s) == [kind |-> kind, swo |-> s, next |-> NoSwo]
NoOp == OpOn("none", NoSwo)
Reopening(s, p) ==   \* a revision of s, next to reopen the ancestor p, if any
  [kind |-> IF p = NoSwo THEN "revise" ELSE "reopen", swo |-> s, next |-> p]

TypeOK ==
  /\ StoreTypeOK(Exec)
  /\ phase \in [Exec -> Phase]
  /\ job \in [Exec -> Swo \cup {NoSwo}]
  /\ by \in [Exec -> Starter]
  /\ epoch \in [Exec -> Nat]
  /\ spawner \in [Exec -> Exec \cup {NoExec}]
  /\ beaten \subseteq Exec
  /\ cronPick \in Swo \cup {NoSwo}
  /\ inFlight \subseteq CronAgent /\ ideating \subseteq CronAgent
  /\ scan \subseteq [swo : Swo, retry : Nat]
  /\ op \in [Handler -> [kind : OpKind, swo : Swo \cup {NoSwo}, next : Swo \cup {NoSwo}]]
  /\ resets \in [Swo -> Nat] /\ crashes \in Nat /\ commands \in Nat

Init ==
  /\ StoreInit
  /\ phase = [e \in Exec |-> "free"] /\ job = [e \in Exec |-> NoSwo]
  /\ by = [e \in Exec |-> "none"] /\ epoch = [e \in Exec |-> 0]
  /\ spawner = [e \in Exec |-> NoExec]
  /\ beaten = {}
  /\ cronPick = NoSwo /\ inFlight = {} /\ ideating = {}
  /\ scan = {} /\ op = [h \in Handler |-> NoOp]
  /\ resets = [s \in Swo |-> 0] /\ crashes = 0 /\ commands = 0

Live(e) == phase[e] \in LivePhase
Claimed(e) == by[e] \in {"cron", "operator"}
AgentOf(e) == assigned[job[e]]

-----------------------------------------------------------------------------
(* Starting an execution: the next unused number. *)
Start(e, s, who, ep, m) ==
  /\ phase[e] = "free" /\ \A d \in Exec : d < e => phase[d] # "free"
  /\ phase' = [phase EXCEPT ![e] = "triage"]
  /\ job' = [job EXCEPT ![e] = s]
  /\ by' = [by EXCEPT ![e] = who]
  /\ epoch' = [epoch EXCEPT ![e] = ep]
  /\ spawner' = [spawner EXCEPT ![e] = m]

Goto(e, p) ==
  /\ phase' = [phase EXCEPT ![e] = p]
  /\ UNCHANGED <<job, by, epoch, spawner>>

(* When a loop returns, the task cron spawned takes the agent out of in_flight. *)
MutLanded(e) == inFlight
Landed(e) == IF by[e] = "cron" THEN inFlight \ {AgentOf(e)} ELSE inFlight

Return(e) ==
  /\ Goto(e, "over")
  /\ inFlight' = Landed(e)
  /\ UNCHANGED <<cronPick, ideating>>

-----------------------------------------------------------------------------
(* Rows that nobody claims at once: innovation reviews, ideation and workflow
   steps.  The parent is whatever row the caller names, or none. *)
FileSwo(s, a, p) ==
  /\ CreateSwo(s, a, p, "PENDING")
  /\ UNCHANGED <<execVars, beaten, cronVars, scan, op, history>>

(* The operator's commands, each run by a handler h.  Between two of its calls
   to the registry anything else may happen. *)
Handle(h, o) == op' = [op EXCEPT ![h] = o]

(* submit_work_order, trigger_manual_heartbeat, chat and recurring runs: create
   PENDING, then claim; a lost claim just leaves the row to its winner. *)
Submit(h, s, a, p) ==
  /\ op[h] = NoOp
  /\ CreateSwo(s, a, p, "PENDING")
  /\ Handle(h, OpOn("submit", s))
  /\ UNCHANGED <<execVars, beaten, cronVars, scan, history>>

OperatorClaim(h, e) ==
  /\ op[h].kind \in {"submit", "reclaim"}
  /\ ClaimSwo(op[h].swo, e)
  /\ Start(e, op[h].swo, "operator", retry[op[h].swo], NoExec)
  /\ Handle(h, NoOp)
  /\ UNCHANGED <<beaten, cronVars, scan, history>>

OperatorClaimLost(h) ==
  /\ op[h].kind \in {"submit", "reclaim"} /\ ~Claimable(op[h].swo)
  /\ Handle(h, NoOp)
  /\ UNCHANGED <<swoVars, execVars, beaten, cronVars, scan, history>>

Command(h, o) ==
  /\ commands < MaxCommands
  /\ commands' = commands + 1
  /\ op[h] = NoOp /\ Handle(h, o)
  /\ UNCHANGED <<execVars, beaten, cronVars, scan, resets, crashes>>

(* cancel_work_order: status, then descendants.  No look at the row, and the
   task that runs it is not told. *)
Cancel(h, s) ==
  /\ s \in Rows
  /\ UpdateStatus(s, "CANCELLED")
  /\ Command(h, OpOn("sweep", s))

OperatorSweep(h) ==
  /\ op[h].kind = "sweep"
  /\ CancelDescendants(op[h].swo)
  /\ Handle(h, NoOp)
  /\ UNCHANGED <<execVars, beaten, cronVars, scan, history>>

(* queue_review_decide: the terminal check, then the write.  "revise" writes what
   "reject" does. *)
Decide(h, s, verdict) ==
  /\ status[s] \in Active /\ verdict \in {"approve", "reject"}
  /\ Command(h, OpOn(verdict, s))
  /\ UNCHANGED swoVars

DecideWrite(h) ==
  /\ \/ /\ op[h].kind = "approve" /\ UpdateStatus(op[h].swo, "COMPLETED")
        /\ Handle(h, OpOn("sweep", op[h].swo))
     \/ /\ op[h].kind = "reject" /\ UpdateStatus(op[h].swo, "FAILED")
        /\ Handle(h, NoOp)
  /\ UNCHANGED <<execVars, beaten, cronVars, scan, history>>

(* queue_request_revision: check COMPLETED, reopen the ancestors one by one,
   reset the row with its feedback, claim it (OperatorClaim). *)
RequestRevision(h, s) ==
  /\ status[s] = "COMPLETED"
  /\ Command(h, Reopening(s, parent[s]))
  /\ UNCHANGED swoVars

ReopenAncestor(h) ==
  /\ op[h].kind = "reopen" /\ op[h].next \in Swo
  /\ UpdateStatus(op[h].next, "IN_PROGRESS")
  /\ Handle(h, Reopening(op[h].swo, parent[op[h].next]))
  /\ UNCHANGED <<execVars, beaten, cronVars, scan, history>>

ReviseReset(h) ==
  /\ op[h].kind = "revise"
  /\ ResetToPending(op[h].swo)
  /\ Handle(h, OpOn("reclaim", op[h].swo))
  /\ UNCHANGED <<execVars, beaten, cronVars, scan, history>>

-----------------------------------------------------------------------------
(* start_cron_loop, one agent of its round.  The queue is read, then claimed;
   in_flight is checked before and extended only after the claim. *)
CronPick(a) ==
  /\ cronPick = NoSwo /\ a \notin inFlight
  /\ cronPick' \in NextPending(a)
  /\ UNCHANGED <<swoVars, execVars, beaten, inFlight, ideating, scan, op, history>>

MutTakeOff(a) == inFlight
TakeOff(a) == inFlight \cup {a}

CronClaim(e) ==
  /\ cronPick \in Swo
  /\ ClaimSwo(cronPick, e)
  /\ Start(e, cronPick, "cron", retry[cronPick], NoExec)
  /\ inFlight' = TakeOff(assigned[cronPick])
  /\ cronPick' = NoSwo
  /\ UNCHANGED <<beaten, ideating, scan, op, history>>

CronClaimLost ==
  /\ cronPick \in Swo /\ ~Claimable(cronPick)
  /\ cronPick' = NoSwo
  /\ UNCHANGED <<swoVars, execVars, beaten, inFlight, ideating, scan, op, history>>

(* No pending row: an ideation run, which beats under a run id of its own. *)
Ideate(a) ==
  /\ cronPick = NoSwo /\ a \notin inFlight /\ NextPending(a) = {}
  /\ inFlight' = TakeOff(a) /\ ideating' = ideating \cup {a}
  /\ UNCHANGED <<swoVars, execVars, beaten, cronPick, scan, op, history>>

IdeationEnd(a) ==
  /\ a \in ideating
  /\ inFlight' = inFlight \ {a} /\ ideating' = ideating \ {a}
  /\ UNCHANGED <<swoVars, execVars, beaten, cronPick, scan, op, history>>

-----------------------------------------------------------------------------
(* The HSM loop.  The triage worker of a claimed run beats under the run id of
   the claim, and its first beat creates the row.  Every other worker (a spawned
   child's, a synthesis, an ideation) beats under a run id no SWO records. *)
FirstBeat(e) ==
  /\ phase[e] = "triage" /\ Claimed(e) /\ e \notin beaten
  /\ beaten' = beaten \cup {e}
  /\ UNCHANGED <<swoVars, execVars, cronVars, scan, op, history>>

(* A direct answer or an accepted synthesis: COMPLETED ... *)
Complete(e) ==
  /\ phase[e] \in {"triage", "review"}
  /\ UpdateStatus(job[e], "COMPLETED")
  /\ Goto(e, IF phase[e] = "triage" THEN "closing" ELSE "accepting")
  /\ UNCHANGED <<beaten, cronVars, scan, op, history>>

(* ... then the descendants; a synthesis returns here. *)
CloseDescendants(e) ==
  /\ phase[e] \in {"closing", "accepting"}
  /\ CancelDescendants(job[e])
  /\ IF phase[e] = "closing"
     THEN Goto(e, "dispatch") /\ UNCHANGED cronVars
     ELSE Return(e)
  /\ UNCHANGED <<beaten, scan, op, history>>

DispatchEnd(e) ==
  /\ phase[e] = "dispatch"
  /\ Return(e)
  /\ UNCHANGED <<swoVars, beaten, scan, op, history>>

(* A child row, IN_PROGRESS without a run id, and its task: awaited when it is
   delegated or a revision, fire-and-forget after a direct answer. *)
SpawnChild(e, s, a, d) ==
  /\ phase[e] \in {"triage", "await", "rejected", "dispatch"}
  /\ CreateSwo(s, a, job[e], "IN_PROGRESS")
  /\ phase[d] = "free" /\ \A x \in Exec : x < d => phase[x] # "free"
  /\ phase' = [phase EXCEPT ![d] = "triage",
                            ![e] = IF @ = "dispatch" THEN @ ELSE "await"]
  /\ job' = [job EXCEPT ![d] = s]
  /\ by' = [by EXCEPT ![d] = "manager"]
  /\ spawner' = [spawner EXCEPT ![d] = IF phase[e] = "dispatch" THEN NoExec ELSE e]
  /\ UNCHANGED <<epoch, beaten, cronVars, scan, op, history>>

(* The tasks a loop has handles of. *)
Children(e) == {d \in Exec : spawner[d] = e}

MutBack(e) == \E d \in Children(e) : ~Live(d)
MutBackByRow(e) == \A d \in Children(e) : status[job[d]] \in Terminal
Back(e) == \A d \in Children(e) : ~Live(d)

(* handle.await returns for every child; a revision whose briefs are all empty has
   none. *)
ChildrenReturned(e) ==
  /\ phase[e] \in {"await", "rejected"}
  /\ Back(e)
  /\ Goto(e, "review")
  /\ UNCHANGED <<swoVars, beaten, cronVars, scan, op, history>>

MutRevisesAgain(attempts) == attempts <= MaxReviewFailures
RevisesAgain(attempts) == attempts < MaxReviewFailures

(* REJECT_AND_REVISE, or a child not approved for synthesis, counts against
   retry_count, up to a ceiling. *)
RejectReview(e) ==
  /\ phase[e] = "review"
  /\ IncrementRetry(job[e])
  /\ Goto(e, IF RevisesAgain(retry[job[e]] + 1) THEN "rejected" ELSE "failing")
  /\ UNCHANGED <<beaten, cronVars, scan, op, history>>

(* A rejection that names no revision writes FAILED here, and Fail again after
   the synthesis loop. *)
GiveUp(e) ==
  /\ phase[e] = "rejected"
  /\ UpdateStatus(job[e], "FAILED")
  /\ Goto(e, "failing")
  /\ UNCHANGED <<beaten, cronVars, scan, op, history>>

(* Worker error, stall, policy or contract violation, ceiling reached; a
   delegation loop blocked after some children were spawned does not wait for
   them. *)
Fail(e) ==
  /\ phase[e] \in {"triage", "await", "review", "rejected", "failing"}
  /\ UpdateStatus(job[e], "FAILED")
  /\ Return(e)
  /\ UNCHANGED <<beaten, scan, op, history>>

(* An error that `?` returns before any status is written: the agent is gone
   or its id is no UUID, or a read or an insert fails. *)
Abandon(e) ==
  /\ phase[e] \in {"triage", "await", "rejected"}
  /\ Return(e)
  /\ UNCHANGED <<swoVars, beaten, scan, op, history>>

-----------------------------------------------------------------------------
(* Agents with a worker alive, so perhaps a beat within the threshold. *)
Working(e) == phase[e] \in {"triage", "review"}
Workers == {e \in Exec : Working(e)}

(* get_stale_in_progress_swos.  `heard` is the set of live workers, and `dreaming`
   of ideating agents, whose last beat is within the threshold: a live worker may
   well miss it, as a stall is only declared after WORKER_STALL_TIMEOUT.
   A row with a run id is judged by that id's heartbeat alone, and an id without
   a row compares as NULL: not stale.  A row without one is judged by its agent. *)
MutRunIsStale(s, heard) == FALSE
RunIsStale(s, heard) ==
  /\ run[s] \in beaten
  /\ ~(run[s] \in heard /\ phase[run[s]] = "triage")

AgentIsSilent(s, heard, dreaming) ==
  /\ run[s] = NoRun
  /\ assigned[s] \notin dreaming \cup {AgentOf(e) : e \in heard}

StaleSwos(heard, dreaming) ==
  {s \in Swo : /\ status[s] = "IN_PROGRESS"
               /\ RunIsStale(s, heard) \/ AgentIsSilent(s, heard, dreaming)}

(* start_queue_reconciler: the scan's list keeps the retry counts it read ... *)
ReconcilerScan ==
  /\ scan = {}
  /\ \E heard \in SUBSET Workers, dreaming \in SUBSET ideating :
       LET stale == StaleSwos(heard, dreaming)
       IN /\ stale # {}
          /\ scan' = {[swo |-> s, retry |-> retry[s]] : s \in stale}
  /\ UNCHANGED <<swoVars, execVars, beaten, cronVars, op, history>>

MutRetriesLeft(n) == n <= MaxRetries
RetriesLeft(n) == n < MaxRetries

(* ... and each entry is applied under a lock of its own, to the row as it is by then. *)
ReconcilerApply(x) ==
  /\ x \in scan
  /\ scan' = scan \ {x}
  /\ IF RetriesLeft(x.retry)
     THEN /\ ResetToPending(x.swo)
          /\ resets' = [resets EXCEPT ![x.swo] = @ + 1]
     ELSE UpdateStatus(x.swo, "FAILED") /\ UNCHANGED resets
  /\ UNCHANGED <<execVars, beaten, cronVars, op, crashes, commands>>

(* Threshold 0 and no worker alive: every heartbeat row on disk is old. *)
MutOrphans == StaleSwos(Workers, ideating)
Orphans == StaleSwos({}, {})

(* The process dies and boots: reap_orphaned_swos runs to its end before any
   loop or command does.  A crash inside the reaper changes nothing, as rows
   it has handled are no longer IN_PROGRESS. *)
CrashAndReap ==
  /\ crashes < MaxCrashes
  /\ crashes' = crashes + 1
  /\ phase' = [e \in Exec |-> IF Live(e) THEN "over" ELSE phase[e]]
  /\ status' = [s \in Swo |-> IF s \notin Orphans THEN status[s]
                              ELSE IF RetriesLeft(retry[s]) THEN "PENDING" ELSE "FAILED"]
  /\ retry' = [s \in Swo |-> IF s \in Orphans /\ RetriesLeft(retry[s])
                             THEN retry[s] + 1 ELSE retry[s]]
  /\ resets' = [s \in Swo |-> IF s \in Orphans /\ RetriesLeft(retry[s])
                              THEN resets[s] + 1 ELSE resets[s]]
  /\ cronPick' = NoSwo /\ inFlight' = {} /\ ideating' = {} /\ scan' = {}
  /\ op' = [h \in Handler |-> NoOp]
  /\ UNCHANGED <<assigned, parent, run, job, by, epoch, spawner, beaten, commands>>

-----------------------------------------------------------------------------
OperatorStep(h) ==
  \/ \E s \in Swo, a \in Agent, p \in Rows \cup {NoSwo} : Submit(h, s, a, p)
  \/ \E s \in Swo : Cancel(h, s) \/ RequestRevision(h, s)
  \/ \E s \in Swo, v \in {"approve", "reject"} : Decide(h, s, v)
  \/ OperatorClaimLost(h) \/ OperatorSweep(h) \/ DecideWrite(h)
  \/ ReopenAncestor(h) \/ ReviseReset(h)
  \/ \E e \in Exec : OperatorClaim(h, e)

Operator == \E h \in Handler : OperatorStep(h)

Cron ==
  \/ \E a \in CronAgent : CronPick(a) \/ Ideate(a) \/ IdeationEnd(a)
  \/ CronClaimLost
  \/ \E e \in Exec : CronClaim(e)

LoopStep(e) ==
  \/ Complete(e) \/ CloseDescendants(e) \/ DispatchEnd(e) \/ ChildrenReturned(e)
  \/ RejectReview(e) \/ GiveUp(e) \/ Fail(e) \/ Abandon(e)
  \/ \E s \in Swo, a \in Agent, d \in Exec : SpawnChild(e, s, a, d)

Reconciler == ReconcilerScan \/ \E x \in scan : ReconcilerApply(x)

Next ==
  \/ \E s \in Swo, a \in Agent, p \in Rows \cup {NoSwo} : FileSwo(s, a, p)
  \/ Operator \/ Cron \/ Reconciler \/ CrashAndReap
  \/ \E e \in Exec : FirstBeat(e) \/ LoopStep(e)

Spec == Init /\ [][Next]_vars

(* What the runtime keeps doing.  A worker exits, or falls silent and is killed
   after WORKER_STALL_TIMEOUT, so its loop goes on; a tokio task that can run
   runs; a reconciler and a cron tick always come.  The cron round visits every
   eligible agent, so one that is due and not in flight is not passed over for
   ever, although the others' claims come in between: strong fairness.  Nothing
   is asked of the operator, of first heartbeats or of crashes. *)
Fairness ==
  /\ \A e \in Exec : WF_vars(LoopStep(e))
  /\ \A a \in CronAgent : SF_vars(CronPick(a)) /\ WF_vars(IdeationEnd(a))
  /\ WF_vars(CronClaimLost \/ \E e \in Exec : CronClaim(e))
  /\ WF_vars(ReconcilerScan) /\ WF_vars(\E x \in scan : ReconcilerApply(x))

FairSpec == Spec /\ Fairness

-----------------------------------------------------------------------------
(* Executions of s that began with a claim. *)
Claims(s) == {e \in Exec : Claimed(e) /\ job[e] = s}

(* One winner per attempt: whatever the interleaving of cron, commands, resets
   and crashes, no two claims of a SWO saw the same retry_count
   (claim_swo_with_run_id against reset_swo_to_pending). *)
OneClaimPerAttempt ==
  \A s \in Swo : \A d, e \in Claims(s) : d # e => epoch[d] # epoch[e]

(* current_run_id names the newest claim, so the reconciler judges a row by the
   heartbeats of the run that was given the work last, never by an older one. *)
RunIsNewestClaim ==
  \A s \in Swo : \A e \in Claims(s) :
    run[s] \in Claims(s) /\ epoch[e] <= epoch[run[s]]

(* Reaper and reconciler together re-queue a SWO at most MAX_RETRIES times, although
   the reconciler decides on a retry_count that others may have raised since. *)
AutoRetryBound == \A s \in Swo : resets[s] <= MaxRetries

(* "prevent duplicate concurrent executions for the same agent": among the runs
   the cron loop itself starts. *)
CronSingleFlight ==
  \A d, e \in Exec :
    (Live(d) /\ by[d] = "cron")
      => /\ AgentOf(d) \notin ideating
         /\ (d # e /\ Live(e) /\ by[e] = "cron") => AgentOf(d) # AgentOf(e)

(* in_flight never leaks: an agent in it has a cron run or an ideation to take it
   out again; a leaked entry would stop that agent's cron for good. *)
InFlightHasRun ==
  \A a \in inFlight : a \in ideating
                      \/ \E e \in Exec : Live(e) /\ by[e] = "cron" /\ AgentOf(e) = a

(* The startup reaper leaves a row IN_PROGRESS only if it carries the run id of a
   run that never wrote a heartbeat. *)
ReaperSparesOnlySilent ==
  [][crashes' # crashes =>
       \A s \in Swo : status'[s] = "IN_PROGRESS" => run[s] \in Exec \ beaten]_vars

(* What reaper and reconciler never see: a run that ended, or died with the
   process, before its first heartbeat. *)
Silent(s) == status[s] = "IN_PROGRESS" /\ run[s] \in Exec \ beaten /\ ~Live(run[s])

(* Pending work of a cron agent is not forgotten: through lost claims, stale
   resets and crashes it ends in a terminal status, or is lost to Silent. *)
PendingIsServed ==
  \A s \in Swo : (status[s] = "PENDING" /\ assigned[s] \in CronAgent)
                  ~> (status[s] \in Terminal \/ Silent(s))

(* The table keeps the queue's promise: every claim takes a fresh attempt, and
   attempts only advance. *)
Granted == {<<job[e], epoch[e], e>> : e \in {x \in Exec : Claimed(x)}}
Queue == INSTANCE SwoQueue
           WITH Item <- Swo, Taker <- Exec, attempt <- retry, granted <- Granted
QueueKept == Queue!QueueSpec

(* A terminal row changes only at the hands of someone who had hold of it: an
   execution of it still running, a reconciler list that names it, or an operator's
   command on it or on a descendant.  Cron, the reaper and sweeps leave it alone. *)
TerminalHasReader ==
  [][\A s \in Swo : status[s] \in Terminal /\ status'[s] # status[s] =>
       \/ \E e \in Exec : Live(e) /\ job[e] = s
       \/ \E x \in scan : x.swo = s
       \/ \E h \in Handler :
            \/ op[h].swo = s \/ op'[h].swo = s
            \/ op[h].swo \in Swo /\ s \in Ancestors[op[h].swo]]_vars

-----------------------------------------------------------------------------
(* What the repository says and the code does not do. *)

(* kernel.rs:87: "On fresh boot no workers are alive, so every IN_PROGRESS SWO is
   stale", hence none is left IN_PROGRESS by reap_orphaned_swos. *)
RestartLeavesNoneInProgress ==
  [][crashes' # crashes => \A s \in Swo : status'[s] # "IN_PROGRESS"]_vars

(* ARCHITECTURE.md:68-73: the lifecycle has no way from CANCELLED to COMPLETED. *)
CancelledNeverCompletes ==
  [][\A s \in Swo : status[s] = "CANCELLED" => status'[s] # "COMPLETED"]_vars

(* orchestrator.rs:2281: the reconciler "scans for orphaned IN_PROGRESS SWOs and
   resets them": its scan never lists the row of a manager whose loop is alive and
   waiting for its children. *)
ReconcilerSparesManagers ==
  [][\A e \in Exec : phase[e] = "await" => \A x \in scan' \ scan : x.swo # job[e]]_vars
=============================================================================
