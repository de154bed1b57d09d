------------------------- MODULE SwoLifecycleProofs -------------------------
(***************************************************************************)
(* Proofs about SwoLifecycle, for every number of rows, agents, executions,*)
(* crashes and commands.                                                   *)
(*                                                                         *)
(* A step is seen from three sides.  For the claims it is Quiet or one     *)
(* Taken(s, e); for the retry budget it leaves resets and scan alone or is *)
(* a scan, an apply or a crash; for the cron loop it is Grounded, or one   *)
(* of the steps of that loop, of a return, or a crash.                     *)
(***************************************************************************)
EXTENDS SwoLifecycle, Recursion, TLAPS

USE DEF NoSwo, NoRun, NoExec

-----------------------------------------------------------------------------
(* The inductive invariant. *)

\* Commands under way name a row.
OpHasRow == \A h \in Handler : op[h].kind # "none" => op[h].swo \in Swo

\* An unused execution number has claimed nothing; a used one has a row.
FreeIsBlank ==
  \A e \in Exec : /\ phase[e] = "free" => by[e] = "none"
                  /\ phase[e] # "free" => job[e] \in Swo

\* What cron picked is a row of a cron agent that is not in flight.
PickIsGrounded ==
  cronPick \in Swo => /\ status[cronPick] # "ABSENT"
                      /\ assigned[cronPick] \in CronAgent \ inFlight

\* A claim's attempt is not in the future, and is spent once the row is pending again.
ClaimIsSpent ==
  \A e \in Exec : Claimed(e) =>
    /\ job[e] \in Swo /\ status[job[e]] # "ABSENT"
    /\ epoch[e] <= retry[job[e]]
    /\ status[job[e]] = "PENDING" => epoch[e] < retry[job[e]]

\* An automatic reset is paid for by retry_count, also as the reconciler's list has it.
ResetIsPaid ==
  /\ \A s \in Swo : resets[s] <= retry[s]
  /\ \A x \in scan : resets[x.swo] <= x.retry
  /\ \A x, y \in scan : x.swo = y.swo => x = y

\* in_flight covers what the cron loop has running.
FlightCovers ==
  /\ ideating \subseteq inFlight
  /\ \A e \in Exec : Live(e) /\ by[e] = "cron" => AgentOf(e) \in inFlight

IInv ==
  /\ TypeOK /\ OpHasRow /\ FreeIsBlank /\ PickIsGrounded
  /\ ClaimIsSpent /\ OneClaimPerAttempt /\ RunIsNewestClaim
  /\ ResetIsPaid /\ AutoRetryBound
  /\ FlightCovers /\ CronSingleFlight /\ InFlightHasRun

-----------------------------------------------------------------------------
(* The operations of the table keep its types. *)
LEMMA CreateKeepsTypes ==
  ASSUME StoreTypeOK(Exec), NEW s \in Swo, NEW a \in Agent, NEW p \in Swo \cup {NoSwo},
         NEW st \in Status, CreateSwo(s, a, p, st)
  PROVE  StoreTypeOK(Exec)'
BY DEF StoreTypeOK, CreateSwo

(* An UPDATE of the status, by id. *)
LEMMA UpdateKeepsTypes ==
  ASSUME StoreTypeOK(Exec), NEW s, NEW st \in Status, UpdateStatus(s, st)
  PROVE  StoreTypeOK(Exec)'
BY DEF StoreTypeOK, UpdateStatus

(* A claim, which also records the run. *)
LEMMA ClaimKeepsTypes ==
  ASSUME StoreTypeOK(Exec), NEW s, NEW e \in Exec, ClaimSwo(s, e)
  PROVE  StoreTypeOK(Exec)'
BY DEF StoreTypeOK, ClaimSwo, RecordRun, Status, Active

(* A reset, or an increment of retry_count. *)
LEMMA RetryKeepsTypes ==
  ASSUME StoreTypeOK(Exec), NEW s, ResetToPending(s) \/ IncrementRetry(s)
  PROVE  StoreTypeOK(Exec)'
BY DEF StoreTypeOK, ResetToPending, IncrementRetry, Requeued, Status, Active

(* The cancellation of descendants. *)
LEMMA SweepKeepsTypes ==
  ASSUME StoreTypeOK(Exec), NEW s, CancelDescendants(s)
  PROVE  StoreTypeOK(Exec)'
BY DEF StoreTypeOK, CancelDescendants, Cancelled, Status, Terminal

-----------------------------------------------------------------------------
(* Every step keeps the types. *)
LEMMA TypesKept ==
  ASSUME TypeOK, OpHasRow, PickIsGrounded, [Next]_vars
  PROVE  TypeOK'
<1> USE LifecycleAssumption
<1> USE DEF TypeOK
<1>u. CASE UNCHANGED vars
  BY <1>u DEF StoreTypeOK, vars, swoVars, execVars, cronVars, history
<1>file. ASSUME NEW s \in Swo, NEW a \in Agent, NEW p \in Rows \cup {NoSwo}, FileSwo(s, a, p)
         PROVE  TypeOK'
  BY <1>file, CreateKeepsTypes DEF FileSwo, execVars, cronVars, history, Rows, Status, Active
<1>op. CASE Operator
  <2> USE DEF Handle, OpOn, NoOp, Reopening, OpKind
  <2>0. PICK h \in Handler : OperatorStep(h)
    BY <1>op DEF Operator
  <2>1. ASSUME NEW s \in Swo, NEW a \in Agent, NEW p \in Rows \cup {NoSwo}, Submit(h, s, a, p)
        PROVE  TypeOK'
    BY <2>1, CreateKeepsTypes DEF Submit, execVars, cronVars, history, Status, Active, Rows
  <2>2. ASSUME NEW s \in Swo, Cancel(h, s) PROVE TypeOK'
    BY <2>2, UpdateKeepsTypes DEF Cancel, Command, execVars, cronVars, Status, Terminal
  <2>3. ASSUME NEW s \in Swo, RequestRevision(h, s) PROVE TypeOK'
    BY <2>3 DEF RequestRevision, Command, StoreTypeOK, swoVars, execVars, cronVars
  <2>4. ASSUME NEW s \in Swo, NEW v \in {"approve", "reject"}, Decide(h, s, v) PROVE TypeOK'
    BY <2>4 DEF Decide, Command, StoreTypeOK, swoVars, execVars, cronVars
  <2>5. CASE OperatorClaimLost(h)
    BY <2>5 DEF OperatorClaimLost, StoreTypeOK, swoVars, execVars, cronVars, history
  <2>6. CASE OperatorSweep(h)
    BY <2>6, SweepKeepsTypes DEF OperatorSweep, execVars, cronVars, history
  <2>7. CASE DecideWrite(h)
    BY <2>7, UpdateKeepsTypes DEF DecideWrite, execVars, cronVars, history, Status, Terminal
  <2>8. CASE ReopenAncestor(h)
    <3>1. parent[op[h].next] \in Swo \cup {NoSwo}
      BY <2>8 DEF ReopenAncestor, StoreTypeOK
    <3> QED
      BY <2>8, <3>1, UpdateKeepsTypes
      DEF ReopenAncestor, execVars, cronVars, history, Status, Active
  <2>9. CASE ReviseReset(h)
    BY <2>9, RetryKeepsTypes DEF ReviseReset, execVars, cronVars, history
  <2>10. ASSUME NEW e \in Exec, OperatorClaim(h, e) PROVE TypeOK'
    <3>1. op[h].swo \in Swo
      BY <2>10 DEF OperatorClaim, OpHasRow
    <3>2. retry[op[h].swo] \in Nat /\ StoreTypeOK(Exec)'
      BY <2>10, <3>1, ClaimKeepsTypes DEF OperatorClaim, StoreTypeOK
    <3> QED
      BY <2>10, <3>1, <3>2
      DEF OperatorClaim, Start, cronVars, history, Phase, LivePhase, Starter
  <2> QED
    BY <2>0, <2>1, <2>2, <2>3, <2>4, <2>5, <2>6, <2>7, <2>8, <2>9, <2>10 DEF OperatorStep
<1>cron. CASE Cron
  <2>1. ASSUME NEW a \in CronAgent, CronPick(a) PROVE TypeOK'
    BY <2>1 DEF CronPick, NextPending, StoreTypeOK, swoVars, execVars, history
  <2>2. ASSUME NEW a \in CronAgent, Ideate(a) PROVE TypeOK'
    BY <2>2 DEF Ideate, TakeOff, StoreTypeOK, swoVars, execVars, history
  <2>3. ASSUME NEW a \in CronAgent, IdeationEnd(a) PROVE TypeOK'
    BY <2>3 DEF IdeationEnd, StoreTypeOK, swoVars, execVars, history
  <2>4. CASE CronClaimLost
    BY <2>4 DEF CronClaimLost, StoreTypeOK, swoVars, execVars, history
  <2>5. ASSUME NEW e \in Exec, CronClaim(e) PROVE TypeOK'
    <3>1. /\ assigned[cronPick] \in CronAgent /\ retry[cronPick] \in Nat
          /\ cronPick \in Swo /\ StoreTypeOK(Exec)'
      BY <2>5, ClaimKeepsTypes DEF CronClaim, PickIsGrounded, StoreTypeOK
    <3> QED
      BY <2>5, <3>1 DEF CronClaim, TakeOff, Start, history, Phase, LivePhase, Starter
  <2> QED
    BY <1>cron, <2>1, <2>2, <2>3, <2>4, <2>5 DEF Cron
<1>loop. ASSUME NEW e \in Exec, LoopStep(e) PROVE TypeOK'
  <2> USE DEF Goto, Return, Landed, execVars, cronVars, history, Phase, LivePhase, Status, Terminal
  <2>1. CASE Complete(e)
    BY <2>1, UpdateKeepsTypes DEF Complete
  <2>2. CASE CloseDescendants(e)
    BY <2>2, SweepKeepsTypes DEF CloseDescendants
  <2>3. CASE DispatchEnd(e)
    BY <2>3 DEF DispatchEnd, StoreTypeOK, swoVars
  <2>4. CASE ChildrenReturned(e)
    BY <2>4 DEF ChildrenReturned, StoreTypeOK, swoVars
  <2>5. CASE RejectReview(e)
    BY <2>5, RetryKeepsTypes DEF RejectReview
  <2>6. CASE Fail(e) \/ GiveUp(e)
    BY <2>6, UpdateKeepsTypes DEF Fail, GiveUp
  <2>7. CASE Abandon(e)
    BY <2>7 DEF Abandon, StoreTypeOK, swoVars
  <2>8. ASSUME NEW s \in Swo, NEW a \in Agent, NEW d \in Exec, SpawnChild(e, s, a, d)
        PROVE TypeOK'
    BY <2>8, CreateKeepsTypes DEF SpawnChild, Active, Starter
  <2> QED
    BY <1>loop, <2>1, <2>2, <2>3, <2>4, <2>5, <2>6, <2>7, <2>8 DEF LoopStep
<1>beat. ASSUME NEW e \in Exec, FirstBeat(e) PROVE TypeOK'
  BY <1>beat DEF FirstBeat, StoreTypeOK, swoVars, execVars, cronVars, history
<1>scan. CASE ReconcilerScan
  BY <1>scan DEF ReconcilerScan, StaleSwos, StoreTypeOK, swoVars, execVars, cronVars, history
<1>apply. ASSUME NEW x \in scan, ReconcilerApply(x) PROVE TypeOK'
  <2>1. StoreTypeOK(Exec)'
    BY <1>apply, RetryKeepsTypes, UpdateKeepsTypes DEF ReconcilerApply, Status, Terminal
  <2> QED
    BY <1>apply, <2>1 DEF ReconcilerApply, execVars, cronVars
<1>crash. CASE CrashAndReap
  <2>1. StoreTypeOK(Exec)'
    BY <1>crash DEF CrashAndReap, StoreTypeOK, Status, Active, Terminal
  <2> QED
    BY <1>crash, <2>1 DEF CrashAndReap, NoOp, OpOn, Reopening, OpKind, Phase, LivePhase
<1> QED
  BY <1>u, <1>file, <1>op, <1>cron, <1>loop, <1>beat, <1>scan, <1>apply, <1>crash
  DEF Next, Reconciler

(* A step is Quiet for the claims: the table moves on without a claim (no row
   goes back to ABSENT or changes hands, none becomes pending again unless its
   retry_count rises), and every claim stands as it was. *)
Onward ==
  /\ run' = run
  /\ \A s \in Swo :
       /\ retry'[s] \in {retry[s], retry[s] + 1}
       /\ status[s] # "ABSENT" => status'[s] # "ABSENT" /\ assigned'[s] = assigned[s]
       /\ status'[s] = "PENDING"
            => status[s] \in {"PENDING", "ABSENT"} \/ retry'[s] = retry[s] + 1

ClaimsStand ==
  \A e \in Exec : /\ Claimed(e)' <=> Claimed(e)
                  /\ Claimed(e) => job'[e] = job[e] /\ epoch'[e] = epoch[e]

Quiet == Onward /\ ClaimsStand

\* The other kind of step: e takes the pending row s.
Taken(s, e) ==
  /\ ClaimSwo(s, e)
  /\ phase[e] = "free"
  /\ \E who \in {"cron", "operator"} : Start(e, s, who, retry[s], NoExec)

(* A new row, pending or in progress, moves the table on ... *)
LEMMA CreateMovesOn ==
  ASSUME TypeOK, NEW s \in Swo, NEW a, NEW p, NEW st \in Active, CreateSwo(s, a, p, st)
  PROVE  Onward
BY DEF TypeOK, StoreTypeOK, CreateSwo, Onward, Active

(* ... and so does a status written by id, ... *)
LEMMA UpdateMovesOn ==
  ASSUME TypeOK, NEW s, NEW st \in {"IN_PROGRESS"} \cup Terminal, UpdateStatus(s, st)
  PROVE  Onward
BY DEF TypeOK, StoreTypeOK, UpdateStatus, Onward, Terminal

(* ... a reset or an increment, ... *)
LEMMA RetryMovesOn ==
  ASSUME TypeOK, NEW s, ResetToPending(s) \/ IncrementRetry(s)
  PROVE  Onward
BY DEF TypeOK, StoreTypeOK, ResetToPending, IncrementRetry, Requeued, Onward

(* ... a sweep of descendants, ... *)
LEMMA SweepMovesOn ==
  ASSUME TypeOK, NEW s, CancelDescendants(s)
  PROVE  Onward
BY DEF TypeOK, StoreTypeOK, CancelDescendants, Cancelled, Onward, Active

(* ... and a step that leaves the table alone. *)
LEMMA StillMovesOn ==
  ASSUME TypeOK, UNCHANGED swoVars
  PROVE  Onward
BY DEF TypeOK, StoreTypeOK, swoVars, Onward

(* Claims stand while executions keep row, starter and epoch. *)
LEMMA StillClaimsStand ==
  ASSUME UNCHANGED execVars \/ UNCHANGED <<job, by, epoch>>
  PROVE  ClaimsStand
BY DEF execVars, ClaimsStand, Claimed

(* Every step is Quiet, or takes one pending row. *)
LEMMA StepIsQuietOrTakes ==
  ASSUME IInv, [Next]_vars
  PROVE  Quiet \/ \E s \in Swo, e \in Exec : Taken(s, e)
<1> TypeOK /\ OpHasRow /\ FreeIsBlank
  BY DEF IInv
<1> USE StillMovesOn, StillClaimsStand DEF Quiet
<1>u. CASE UNCHANGED vars
  BY <1>u DEF vars
<1>file. ASSUME NEW s \in Swo, NEW a \in Agent, NEW p \in Rows \cup {NoSwo}, FileSwo(s, a, p)
         PROVE  Quiet
  BY <1>file, CreateMovesOn DEF FileSwo, Active
<1>op. CASE Operator
  <2>1. ASSUME NEW s \in Swo, NEW a \in Agent, NEW p, NEW g \in Handler, Submit(g, s, a, p)
        PROVE  Quiet
    BY <2>1, CreateMovesOn DEF Submit, Active
  <2>2. ASSUME NEW s \in Swo, NEW g \in Handler, Cancel(g, s) PROVE Quiet
    BY <2>2, UpdateMovesOn DEF Cancel, Command, Terminal
  <2>3. ASSUME NEW s \in Swo, NEW g \in Handler, RequestRevision(g, s) PROVE Quiet
    BY <2>3 DEF RequestRevision, Command
  <2>4. ASSUME NEW s \in Swo, NEW v, NEW g \in Handler, Decide(g, s, v) PROVE Quiet
    BY <2>4 DEF Decide, Command
  <2>5. ASSUME NEW g \in Handler, OperatorClaimLost(g) PROVE Quiet
    BY <2>5 DEF OperatorClaimLost
  <2>6. ASSUME NEW g \in Handler, OperatorSweep(g) PROVE Quiet
    BY <2>6, SweepMovesOn DEF OperatorSweep
  <2>7. ASSUME NEW g \in Handler, DecideWrite(g) PROVE Quiet
    BY <2>7, UpdateMovesOn DEF DecideWrite, Terminal
  <2>8. ASSUME NEW g \in Handler, ReopenAncestor(g) PROVE Quiet
    BY <2>8, UpdateMovesOn DEF ReopenAncestor
  <2>9. ASSUME NEW g \in Handler, ReviseReset(g) PROVE Quiet
    BY <2>9, RetryMovesOn DEF ReviseReset
  <2>10. ASSUME NEW g \in Handler, NEW e \in Exec, OperatorClaim(g, e)
         PROVE  \E s \in Swo : Taken(s, e)
    <3>1. op[g].swo \in Swo
      BY <2>10 DEF OperatorClaim, OpHasRow
    <3> QED
      BY <2>10, <3>1 DEF OperatorClaim, Taken, Start
  <2> QED
    BY <1>op, <2>1, <2>2, <2>3, <2>4, <2>5, <2>6, <2>7, <2>8, <2>9, <2>10 DEF Operator, OperatorStep
<1>cron. CASE Cron
  <2>1. ASSUME NEW a \in CronAgent, CronPick(a) \/ Ideate(a) \/ IdeationEnd(a) PROVE Quiet
    BY <2>1 DEF CronPick, Ideate, IdeationEnd
  <2>2. CASE CronClaimLost
    BY <2>2 DEF CronClaimLost
  <2>3. ASSUME NEW e \in Exec, CronClaim(e) PROVE \E s \in Swo : Taken(s, e)
    BY <2>3 DEF CronClaim, Taken, Start
  <2> QED
    BY <1>cron, <2>1, <2>2, <2>3 DEF Cron
<1>loop. ASSUME NEW e \in Exec, LoopStep(e) PROVE Quiet
  <2> USE DEF Goto, Return, Terminal
  <2>1. CASE Complete(e)
    BY <2>1, UpdateMovesOn DEF Complete
  <2>2. CASE CloseDescendants(e)
    BY <2>2, SweepMovesOn DEF CloseDescendants
  <2>3. CASE DispatchEnd(e) \/ ChildrenReturned(e) \/ Abandon(e)
    BY <2>3 DEF DispatchEnd, ChildrenReturned, Abandon
  <2>4. CASE RejectReview(e)
    BY <2>4, RetryMovesOn DEF RejectReview
  <2>5. CASE Fail(e) \/ GiveUp(e)
    BY <2>5, UpdateMovesOn DEF Fail, GiveUp
  <2>6. ASSUME NEW s \in Swo, NEW a \in Agent, NEW d \in Exec, SpawnChild(e, s, a, d)
        PROVE  Quiet
    <3>1. Onward
      BY <2>6, CreateMovesOn DEF SpawnChild, Active
    <3>2. ~Claimed(d) /\ ~Claimed(d)'
      BY <2>6 DEF SpawnChild, FreeIsBlank, Claimed, TypeOK
    <3>3. \A x \in Exec : x # d => by'[x] = by[x] /\ job'[x] = job[x]
      BY <2>6 DEF SpawnChild, TypeOK
    <3> QED
      BY <2>6, <3>1, <3>2, <3>3 DEF SpawnChild, ClaimsStand, Claimed
  <2> QED
    BY <1>loop, <2>1, <2>2, <2>3, <2>4, <2>5, <2>6 DEF LoopStep
<1>beat. ASSUME NEW e \in Exec, FirstBeat(e) PROVE Quiet
  BY <1>beat DEF FirstBeat
<1>scan. CASE ReconcilerScan
  BY <1>scan DEF ReconcilerScan
<1>apply. ASSUME NEW x \in scan, ReconcilerApply(x) PROVE Quiet
  BY <1>apply, RetryMovesOn, UpdateMovesOn DEF ReconcilerApply, Terminal
<1>crash. CASE CrashAndReap
  BY <1>crash DEF CrashAndReap, Onward, TypeOK, StoreTypeOK
<1> QED
  BY <1>u, <1>file, <1>op, <1>cron, <1>loop, <1>beat, <1>scan, <1>apply, <1>crash
  DEF Next, Reconciler

(* The claims. *)
LEMMA BlanksKept ==
  ASSUME TypeOK, OpHasRow, FreeIsBlank, [Next]_vars
  PROVE  FreeIsBlank'
<1> USE DEF FreeIsBlank, TypeOK
<1>1. CASE UNCHANGED execVars
  BY <1>1 DEF execVars
<1>2. ASSUME NEW e \in Exec, NEW s \in Swo, NEW who \in Starter, NEW ep, NEW m,
             Start(e, s, who, ep, m)
      PROVE  FreeIsBlank'
  BY <1>2 DEF Start
<1>3. ASSUME NEW e \in Exec, LoopStep(e) PROVE FreeIsBlank'
  <2>1. phase[e] # "free"
    BY <1>3 DEF LoopStep, Complete, CloseDescendants, DispatchEnd, ChildrenReturned,
                RejectReview, GiveUp, Fail, Abandon, SpawnChild
  <2>2. ASSUME NEW p \in Phase \ {"free"}, Goto(e, p) PROVE FreeIsBlank'
    BY <2>1, <2>2 DEF Goto
  <2>3. ASSUME NEW s \in Swo, NEW a \in Agent, NEW d \in Exec, SpawnChild(e, s, a, d)
        PROVE  FreeIsBlank'
    BY <2>1, <2>3 DEF SpawnChild
  <2> QED
    BY <1>3, <2>2, <2>3 DEF LoopStep, Complete, CloseDescendants, DispatchEnd,
       ChildrenReturned, RejectReview, GiveUp, Fail, Abandon, Return, Phase, LivePhase
<1>4. CASE CrashAndReap
  BY <1>4 DEF CrashAndReap, Live, LivePhase
<1>5. CASE Operator
  <2>1. ASSUME NEW h \in Handler, NEW e \in Exec, OperatorClaim(h, e) PROVE FreeIsBlank'
    BY <2>1, <1>2 DEF OperatorClaim, OpHasRow, Starter
  <2> QED
    BY <1>5, <1>1, <2>1 DEF Operator, OperatorStep, Submit, Command, Cancel, RequestRevision, Decide,
       OperatorClaimLost, OperatorSweep, DecideWrite, ReopenAncestor, ReviseReset
<1>6. CASE Cron
  <2>1. ASSUME NEW e \in Exec, CronClaim(e) PROVE FreeIsBlank'
    BY <2>1, <1>2 DEF CronClaim, Starter
  <2> QED
    BY <1>6, <1>1, <2>1 DEF Cron, CronPick, Ideate, IdeationEnd, CronClaimLost
<1> QED
  BY <1>1, <1>3, <1>4, <1>5, <1>6
  DEF Next, Reconciler, vars, FileSwo, FirstBeat, ReconcilerScan, ReconcilerApply

(* Quiet or Taken, a step keeps what the invariant says of claims. *)
LEMMA ClaimsKept ==
  ASSUME IInv, [Next]_vars
  PROVE  ClaimIsSpent' /\ OneClaimPerAttempt' /\ RunIsNewestClaim'
<1> /\ TypeOK /\ FreeIsBlank
    /\ ClaimIsSpent /\ OneClaimPerAttempt /\ RunIsNewestClaim
  BY DEF IInv
<1> USE DEF TypeOK, StoreTypeOK
<1>1. CASE Quiet
  <2>1. ASSUME NEW e \in Exec, Claimed(e)'
        PROVE  Claimed(e) /\ job'[e] = job[e] /\ epoch'[e] = epoch[e]
    BY <1>1, <2>1 DEF Quiet, ClaimsStand
  <2>2. ClaimIsSpent'
    BY <1>1, <2>1 DEF Quiet, Onward, ClaimIsSpent
  <2>3. \A s \in Swo : \A e \in Exec : e \in Claims(s)' <=> e \in Claims(s)
    BY <1>1 DEF Quiet, ClaimsStand, Claims
  <2>4. OneClaimPerAttempt'
    BY <2>1, <2>3 DEF OneClaimPerAttempt, Claims
  <2>5. RunIsNewestClaim'
    <3>1. SUFFICES ASSUME NEW s \in Swo, NEW e \in Exec, e \in Claims(s)'
                   PROVE  (run[s] \in Claims(s) /\ epoch[e] <= epoch[run[s]])'
      BY DEF RunIsNewestClaim, Claims
    <3>2. run[s] \in Claims(s) /\ epoch[e] <= epoch[run[s]] /\ run'[s] = run[s]
      BY <1>1, <2>3, <3>1 DEF RunIsNewestClaim, Quiet, Onward
    <3>3. run[s] \in Exec /\ run[s] \in Claims(s)'
      BY <2>3, <3>2 DEF Claims
    <3> QED
      BY <2>1, <3>1, <3>2, <3>3 DEF Claims
  <2> QED BY <2>2, <2>4, <2>5
<1>2. ASSUME NEW s \in Swo, NEW e \in Exec, Taken(s, e)
      PROVE  ClaimIsSpent' /\ OneClaimPerAttempt' /\ RunIsNewestClaim'
  <2>1. ~Claimed(e)
    BY <1>2 DEF Taken, FreeIsBlank, Claimed
  <2>2. /\ Claimed(e)' /\ job'[e] = s /\ epoch'[e] = retry[s]
        /\ status[s] = "PENDING" /\ status' = [status EXCEPT ![s] = "IN_PROGRESS"]
        /\ run' = [run EXCEPT ![s] = e] /\ retry' = retry
    BY <1>2 DEF Taken, ClaimSwo, Claimable, RecordRun, Start, Claimed
  <2>3. \A d \in Exec \ {e} : /\ Claimed(d)' <=> Claimed(d)
                              /\ job'[d] = job[d] /\ epoch'[d] = epoch[d]
    BY <1>2 DEF Taken, Start, Claimed
  <2>4. ClaimIsSpent'
    BY <2>2, <2>3 DEF ClaimIsSpent
  <2>5. \A d \in Exec \ {e} : Claimed(d) /\ job[d] = s => epoch[d] < retry[s]
    BY <2>2 DEF ClaimIsSpent
  <2>6. OneClaimPerAttempt'
    BY <2>2, <2>3, <2>5 DEF OneClaimPerAttempt, Claims
  <2>7. RunIsNewestClaim'
    <3>1. SUFFICES ASSUME NEW t \in Swo, NEW d \in Exec, Claimed(d)', job'[d] = t
                   PROVE  (run[t] \in Claims(t) /\ epoch[d] <= epoch[run[t]])'
      BY DEF RunIsNewestClaim, Claims
    <3>2. CASE t = s
      BY <2>2, <2>3, <2>5, <3>1, <3>2 DEF Claims
    <3>3. CASE t # s
      <4>1. d # e /\ d \in Claims(t) /\ run'[t] = run[t]
        BY <2>2, <2>3, <3>1, <3>3 DEF Claims
      <4>2. run[t] \in Claims(t) /\ epoch[d] <= epoch[run[t]]
        BY <4>1 DEF RunIsNewestClaim
      <4>3. run[t] \in Exec \ {e}
        BY <2>1, <4>2 DEF Claims
      <4> QED
        BY <2>3, <4>1, <4>2, <4>3 DEF Claims
    <3> QED BY <3>2, <3>3
  <2> QED BY <2>4, <2>6, <2>7
<1> QED BY <1>1, <1>2, StepIsQuietOrTakes

(* The retry budget. *)
LEMMA ResetsKept ==
  ASSUME IInv, [Next]_vars
  PROVE  ResetIsPaid' /\ AutoRetryBound'
<1> /\ TypeOK /\ ResetIsPaid /\ AutoRetryBound /\ FreeIsBlank /\ OpHasRow
  BY DEF IInv
<1> USE LifecycleAssumption DEF TypeOK, StoreTypeOK, ResetIsPaid, AutoRetryBound
<1>1. CASE UNCHANGED <<resets, scan>>
  <2>1. \A s \in Swo : retry[s] <= retry'[s]
    <3>1. CASE Quiet
      BY <3>1 DEF Quiet, Onward
    <3>2. ASSUME NEW s \in Swo, NEW e \in Exec, Taken(s, e) PROVE retry' = retry
      BY <3>2 DEF Taken, ClaimSwo
    <3> QED BY <3>1, <3>2, StepIsQuietOrTakes
  <2>2. TypeOK'
    BY TypesKept DEF IInv
  <2> QED BY <1>1, <2>1, <2>2
<1>2. CASE ReconcilerScan
  <2>1. PICK h \in SUBSET Workers, d \in SUBSET ideating :
          scan' = {[swo |-> s, retry |-> retry[s]] : s \in StaleSwos(h, d)}
    BY <1>2 DEF ReconcilerScan
  <2>2. StaleSwos(h, d) \subseteq Swo
    BY DEF StaleSwos
  <2>3. UNCHANGED <<resets, retry>>
    BY <1>2 DEF ReconcilerScan, swoVars, history
  <2> QED BY <2>1, <2>2, <2>3
<1>3. ASSUME NEW x \in scan, ReconcilerApply(x) PROVE ResetIsPaid' /\ AutoRetryBound'
  <2>1. x.swo \in Swo /\ x.retry \in Nat /\ scan' = scan \ {x}
    BY <1>3 DEF ReconcilerApply
  <2>2. \A y \in scan' : y \in scan /\ y.swo # x.swo /\ y.swo \in Swo /\ y.retry \in Nat
    BY <2>1
  <2>3. CASE RetriesLeft(x.retry)
    <3>1. /\ resets' = [resets EXCEPT ![x.swo] = @ + 1]
          /\ retry' = [retry EXCEPT ![x.swo] = @ + 1]
      BY <1>3, <2>3 DEF ReconcilerApply, ResetToPending, Requeued
    <3>2. resets[x.swo] < MaxRetries
      BY <2>1, <2>3 DEF RetriesLeft
    <3> QED BY <2>1, <2>2, <3>1, <3>2
  <2>4. CASE ~RetriesLeft(x.retry)
    BY <1>3, <2>2, <2>4 DEF ReconcilerApply, UpdateStatus
  <2> QED BY <2>3, <2>4
<1>4. CASE CrashAndReap
  <2>1. scan' = {}
    BY <1>4 DEF CrashAndReap
  <2>2. ASSUME NEW s \in Swo PROVE resets'[s] <= retry'[s] /\ resets'[s] <= MaxRetries
    <3>1. CASE s \in Orphans /\ RetriesLeft(retry[s])
      <4>1. resets'[s] = resets[s] + 1 /\ retry'[s] = retry[s] + 1
        BY <1>4, <3>1 DEF CrashAndReap
      <4> QED BY <3>1, <4>1 DEF RetriesLeft
    <3>2. CASE ~(s \in Orphans /\ RetriesLeft(retry[s]))
      <4>1. resets'[s] = resets[s] /\ retry'[s] = retry[s]
        BY <1>4, <3>2 DEF CrashAndReap
      <4> QED BY <4>1
    <3> QED BY <3>1, <3>2
  <2> QED BY <2>1, <2>2
<1>5. [Next]_vars => \/ UNCHANGED <<resets, scan>> \/ ReconcilerScan \/ CrashAndReap
                     \/ \E x \in scan : ReconcilerApply(x)
  <2>1. Operator => UNCHANGED <<resets, scan>>
    BY DEF Operator, OperatorStep, Submit, Cancel, RequestRevision, Decide, OperatorClaimLost,
           OperatorSweep, DecideWrite, ReopenAncestor, ReviseReset, OperatorClaim,
           Command, history
  <2>2. Cron => UNCHANGED <<resets, scan>>
    BY DEF Cron, CronPick, Ideate, IdeationEnd, CronClaimLost, CronClaim, history
  <2>3. ASSUME NEW e \in Exec, FirstBeat(e) \/ LoopStep(e) PROVE UNCHANGED <<resets, scan>>
    BY <2>3 DEF FirstBeat, LoopStep, Complete, CloseDescendants, DispatchEnd,
       ChildrenReturned, RejectReview, GiveUp, Fail, Abandon, SpawnChild, history
  <2> QED
    BY <2>1, <2>2, <2>3 DEF Next, Reconciler, FileSwo, vars, history
<1> QED BY <1>1, <1>2, <1>3, <1>4, <1>5

(* The cron loop.  A step is Grounded for it if it leaves its variables alone, and
   what it runs; rows keep their agents. *)
Grounded ==
  /\ UNCHANGED cronVars
  /\ \A e \in Exec :
       /\ by'[e] = "cron" => by[e] = "cron" /\ job'[e] = job[e]
       /\ by[e] = "cron" => by'[e] = "cron" /\ (Live(e)' <=> Live(e))

\* What the rest of an IInv state, kept by every step, says about agents.
LEMMA AgentsKeep ==
  ASSUME IInv, [Next]_vars
  PROVE  /\ \A s \in Swo : status[s] # "ABSENT" =>
              status'[s] # "ABSENT" /\ assigned'[s] = assigned[s]
         /\ \A e \in Exec : Claimed(e) => job[e] \in Swo /\ status[job[e]] # "ABSENT"
<1>1. CASE Quiet
  BY <1>1 DEF Quiet, Onward, IInv, ClaimIsSpent
<1>2. ASSUME NEW s \in Swo, NEW e \in Exec, Taken(s, e)
      PROVE  \A t \in Swo : status[t] # "ABSENT" =>
               status'[t] # "ABSENT" /\ assigned'[t] = assigned[t]
  BY <1>2 DEF Taken, ClaimSwo, IInv, TypeOK, StoreTypeOK
<1> QED BY <1>1, <1>2, StepIsQuietOrTakes DEF IInv, ClaimIsSpent

FlightInv == PickIsGrounded /\ FlightCovers /\ CronSingleFlight /\ InFlightHasRun

(* A Grounded step keeps what it says of the cron loop. *)
LEMMA GroundedKeepsFlight ==
  ASSUME IInv, [Next]_vars, Grounded
  PROVE  FlightInv'
<1> /\ TypeOK /\ PickIsGrounded /\ FlightCovers /\ CronSingleFlight /\ InFlightHasRun
  BY DEF IInv
<1>1. \A e \in Exec : by[e] = "cron" => AgentOf(e)' = AgentOf(e) /\ by'[e] = "cron"
  BY AgentsKeep DEF Grounded, AgentOf, Claimed
<1>2. PickIsGrounded'
  BY AgentsKeep DEF PickIsGrounded, Grounded, cronVars
<1>3. \A e \in Exec : Live(e)' /\ by'[e] = "cron" => Live(e) /\ by[e] = "cron"
  BY DEF Grounded
<1>4. FlightCovers' /\ CronSingleFlight'
  BY <1>1, <1>3 DEF FlightCovers, CronSingleFlight, Grounded, cronVars
<1>5. InFlightHasRun'
  BY <1>1 DEF InFlightHasRun, Grounded, cronVars
<1> QED BY <1>2, <1>4, <1>5 DEF FlightInv

(* So do the steps of the cron loop, of returning loops, and a crash. *)
LEMMA FlightKept ==
  ASSUME IInv, [Next]_vars
  PROVE  FlightInv'
<1> /\ TypeOK /\ FreeIsBlank /\ PickIsGrounded
    /\ FlightCovers /\ CronSingleFlight /\ InFlightHasRun
  BY DEF IInv
<1> USE GroundedKeepsFlight
<1>u. CASE UNCHANGED <<cronVars, execVars>>
  BY <1>u DEF Grounded, cronVars, execVars, Live
<1>op. CASE Operator
  <2>1. ASSUME NEW h \in Handler, NEW e \in Exec, OperatorClaim(h, e) PROVE Grounded
    BY <2>1 DEF OperatorClaim, Start, Grounded, TypeOK, FreeIsBlank, Live
  <2> QED
    BY <1>op, <1>u, <2>1 DEF Operator, OperatorStep, Submit, Command, Cancel, RequestRevision, Decide,
       OperatorClaimLost, OperatorSweep, DecideWrite, ReopenAncestor, ReviseReset
<1>cron. CASE Cron
  <2>1. ASSUME NEW a \in CronAgent, CronPick(a) PROVE FlightInv'
    <3>1. cronPick' \in Swo /\ status[cronPick'] = "PENDING" /\ assigned[cronPick'] = a
      BY <2>1 DEF CronPick, NextPending
    <3>2. /\ a \notin inFlight /\ UNCHANGED <<swoVars, execVars, inFlight, ideating>>
      BY <2>1 DEF CronPick
    <3> QED
      BY <3>1, <3>2 DEF FlightInv, PickIsGrounded, FlightCovers, CronSingleFlight,
         InFlightHasRun, swoVars, execVars, Live, AgentOf
  <2>2. ASSUME NEW a \in CronAgent, Ideate(a) PROVE FlightInv'
    BY <2>2 DEF Ideate, TakeOff, Swo, FlightInv, PickIsGrounded, FlightCovers, CronSingleFlight,
         InFlightHasRun, swoVars, execVars, Live, AgentOf
  <2>3. ASSUME NEW a \in CronAgent, IdeationEnd(a) PROVE FlightInv'
    BY <2>3 DEF IdeationEnd, FlightInv, PickIsGrounded, FlightCovers, CronSingleFlight,
         InFlightHasRun, swoVars, execVars, Live, AgentOf
  <2>4. CASE CronClaimLost
    BY <2>4 DEF CronClaimLost, Swo, FlightInv, PickIsGrounded, FlightCovers, CronSingleFlight,
         InFlightHasRun, swoVars, execVars, Live, AgentOf
  <2>5. ASSUME NEW e \in Exec, CronClaim(e) PROVE FlightInv'
    <3> DEFINE a == assigned[cronPick]
    <3>1. /\ cronPick \in Swo /\ a \in CronAgent /\ a \notin inFlight
          /\ inFlight' = inFlight \cup {a} /\ cronPick' = NoSwo
          /\ UNCHANGED <<ideating, assigned>>
      BY <2>5 DEF CronClaim, TakeOff, PickIsGrounded, ClaimSwo
    <3>2. /\ by'[e] = "cron" /\ job'[e] = cronPick /\ phase'[e] = "triage"
          /\ phase[e] = "free" /\ by[e] = "none"
          /\ \A d \in Exec \ {e} : /\ by'[d] = by[d] /\ job'[d] = job[d]
                                   /\ phase'[d] = phase[d]
      BY <2>5 DEF CronClaim, Start, TypeOK, FreeIsBlank
    <3>3. \A d \in Exec \ {e} : AgentOf(d)' = AgentOf(d) /\ (Live(d)' <=> Live(d))
      BY <3>1, <3>2 DEF AgentOf, Live
    <3>4. AgentOf(e)' = a /\ Live(e)'
      BY <3>1, <3>2 DEF AgentOf, Live, LivePhase
    <3>5. \A d \in Exec \ {e} : Live(d) /\ by[d] = "cron" => AgentOf(d) # a
      BY <3>1 DEF FlightCovers
    <3>6. FlightCovers'
      BY <3>1, <3>2, <3>3, <3>4 DEF FlightCovers
    <3>7. CronSingleFlight'
      BY <3>1, <3>2, <3>3, <3>4, <3>5 DEF CronSingleFlight, FlightCovers
    <3>8. InFlightHasRun'
      <4>1. SUFFICES ASSUME NEW b \in inFlight', b \notin ideating
                     PROVE  \E d \in Exec : Live(d)' /\ by'[d] = "cron" /\ AgentOf(d)' = b
        BY <3>1 DEF InFlightHasRun
      <4>2. CASE b = a
        BY <3>2, <3>4, <4>2
      <4>3. CASE b # a
        <5>1. PICK d \in Exec : Live(d) /\ by[d] = "cron" /\ AgentOf(d) = b
          BY <3>1, <4>1, <4>3 DEF InFlightHasRun
        <5> QED BY <3>2, <3>3, <5>1
      <4> QED BY <4>2, <4>3
    <3> QED
      BY <3>1, <3>6, <3>7, <3>8 DEF FlightInv, PickIsGrounded, Swo
  <2> QED
    BY <1>cron, <2>1, <2>2, <2>3, <2>4, <2>5 DEF Cron
<1>loop. ASSUME NEW e \in Exec, LoopStep(e) PROVE FlightInv'
  <2>1. Live(e)
    BY <1>loop DEF Live, LivePhase, LoopStep, Complete, CloseDescendants, DispatchEnd,
       ChildrenReturned, RejectReview, GiveUp, Fail, Abandon, SpawnChild
  <2>2. ASSUME Return(e) PROVE FlightInv'
    <3>1. CASE by[e] # "cron"
      BY <2>2, <3>1 DEF Return, Landed, Goto, Grounded, TypeOK, Live, cronVars
    <3>2. CASE by[e] = "cron"
      <4> DEFINE a == AgentOf(e)
      <4>1. /\ inFlight' = inFlight \ {a} /\ UNCHANGED <<by, job, ideating, cronPick>>
            /\ ~Live(e)' /\ \A d \in Exec \ {e} : Live(d)' <=> Live(d)
        BY <2>2, <3>2 DEF Return, Landed, Goto, TypeOK, Live, LivePhase
      <4>2. \A d \in Exec : by[d] = "cron" => AgentOf(d)' = AgentOf(d)
        BY <4>1, AgentsKeep DEF AgentOf, Claimed
      <4>3. a \notin ideating /\ \A d \in Exec \ {e} : Live(d) /\ by[d] = "cron" => AgentOf(d) # a
        BY <2>1, <3>2 DEF CronSingleFlight
      <4>4. PickIsGrounded'
        BY <4>1, AgentsKeep DEF PickIsGrounded
      <4>5. FlightCovers' /\ CronSingleFlight'
        BY <4>1, <4>2, <4>3 DEF FlightCovers, CronSingleFlight
      <4>6. InFlightHasRun'
        BY <4>1, <4>2 DEF InFlightHasRun
      <4> QED BY <4>4, <4>5, <4>6 DEF FlightInv
    <3> QED BY <3>1, <3>2
  <2>3. ASSUME NEW p \in LivePhase, Goto(e, p), UNCHANGED cronVars PROVE Grounded
    BY <2>1, <2>3 DEF Goto, Grounded, TypeOK, Live
  <2>4. ASSUME NEW s \in Swo, NEW a \in Agent, NEW d \in Exec, SpawnChild(e, s, a, d)
        PROVE  Grounded
    BY <2>1, <2>4 DEF SpawnChild, Grounded, TypeOK, FreeIsBlank, Live, LivePhase
  <2> QED
    BY <1>loop, <2>2, <2>3, <2>4 DEF LoopStep, Complete, CloseDescendants, DispatchEnd,
       ChildrenReturned, RejectReview, GiveUp, Fail, Abandon, LivePhase
<1>crash. CASE CrashAndReap
  <2>1. /\ cronPick' = NoSwo /\ inFlight' = {} /\ ideating' = {}
        /\ \A e \in Exec : ~Live(e)'
    BY <1>crash DEF CrashAndReap, Live, LivePhase, NoOp
  <2> QED
    BY <2>1 DEF FlightInv, PickIsGrounded, FlightCovers, CronSingleFlight, InFlightHasRun,
       Swo
<1> QED
  BY <1>u, <1>op, <1>cron, <1>loop, <1>crash
  DEF Next, Reconciler, vars, FileSwo, FirstBeat, ReconcilerScan, ReconcilerApply

(* The invariant holds at the start, *)
LEMMA InitEstablishes ==
  ASSUME Init
  PROVE  IInv
<1> USE LifecycleAssumption, StoreAssumption DEF Init, StoreInit
<1>1. (CHOOSE a \in Agent : TRUE) \in Agent
  BY DEF LifecycleAssumption
<1>2. TypeOK
  BY <1>1 DEF TypeOK, StoreTypeOK, Status, Phase, Starter, OpKind, NoOp, OpOn
<1>3. /\ \A e \in Exec : phase[e] = "free" /\ by[e] = "none"
      /\ OpHasRow /\ FreeIsBlank
  BY DEF OpHasRow, FreeIsBlank, NoOp, OpOn
<1>4. ClaimIsSpent /\ OneClaimPerAttempt /\ RunIsNewestClaim
  BY <1>3 DEF ClaimIsSpent, OneClaimPerAttempt, RunIsNewestClaim, Claims, Claimed
<1>5. ResetIsPaid /\ AutoRetryBound
  BY DEF ResetIsPaid, AutoRetryBound, LifecycleAssumption
<1>6. PickIsGrounded /\ FlightCovers /\ CronSingleFlight /\ InFlightHasRun
  BY <1>3 DEF PickIsGrounded, FlightCovers, CronSingleFlight, InFlightHasRun, Swo
<1> QED BY <1>2, <1>3, <1>4, <1>5, <1>6 DEF IInv

(* and every step keeps it. *)
LEMMA StepPreserves ==
  ASSUME IInv, [Next]_vars
  PROVE  IInv'
<1>1. TypeOK' /\ FreeIsBlank'
  BY TypesKept, BlanksKept DEF IInv
<1>2. OpHasRow'
  <2> TypeOK /\ OpHasRow
    BY DEF IInv
  <2> USE DEF OpHasRow, NoOp, OpOn
  <2>1. CASE Operator
    <3>0. PICK h \in Handler : OperatorStep(h)
      BY <2>1 DEF Operator
    <3>1. ASSUME NEW o, Handle(h, o), o.kind # "none" => o.swo \in Swo
          PROVE  OpHasRow'
      BY <3>1 DEF Handle, TypeOK
    <3>2. CASE DecideWrite(h) \/ ReopenAncestor(h) \/ ReviseReset(h)
      <4>1. op[h].swo \in Swo
        BY <3>2 DEF DecideWrite, ReopenAncestor, ReviseReset
      <4> QED
        BY <3>1, <3>2, <4>1 DEF DecideWrite, ReopenAncestor, ReviseReset, Reopening
    <3>3. CASE \E s \in Swo : \/ \E a \in Agent, p \in Rows \cup {NoSwo} : Submit(h, s, a, p)
                             \/ Cancel(h, s) \/ RequestRevision(h, s)
                             \/ \E v \in {"approve", "reject"} : Decide(h, s, v)
      BY <3>1, <3>3 DEF Submit, Cancel, RequestRevision, Reopening, Decide, Command
    <3>4. CASE OperatorClaimLost(h) \/ OperatorSweep(h) \/ \E e \in Exec : OperatorClaim(h, e)
      BY <3>1, <3>4 DEF OperatorClaimLost, OperatorSweep, OperatorClaim
    <3> QED
      BY <3>0, <3>2, <3>3, <3>4 DEF OperatorStep
  <2>2. CASE Cron
    BY <2>2 DEF Cron, CronPick, Ideate, IdeationEnd, CronClaimLost, CronClaim
  <2>3. ASSUME NEW e \in Exec, FirstBeat(e) \/ LoopStep(e) PROVE OpHasRow'
    BY <2>3 DEF FirstBeat, LoopStep, Complete, CloseDescendants, DispatchEnd,
       ChildrenReturned, RejectReview, GiveUp, Fail, Abandon, SpawnChild
  <2> QED
    BY <2>1, <2>2, <2>3
    DEF Next, Reconciler, vars, FileSwo, ReconcilerScan, ReconcilerApply, CrashAndReap
<1> QED
  BY <1>1, <1>2, ClaimsKept, ResetsKept, FlightKept DEF IInv, FlightInv

(* IInv holds in every state of every behaviour. *)
THEOREM Inductive == Spec => []IInv
<1>1. Init => IInv
  BY InitEstablishes
<1>2. IInv /\ [Next]_vars => IInv'
  BY StepPreserves
<1> QED BY <1>1, <1>2, PTL DEF Spec

(* Every column and every piece of runtime state keeps its type: no status outside
   the six of active_swos, in_flight and ideation only of cron agents. *)
THEOREM TypeCorrect == Spec => []TypeOK
BY Inductive, PTL DEF IInv

(* claim_swo_with_run_id has one winner per attempt, for every number of takers,
   resets, operator revisions and crashes. *)
THEOREM ClaimsAreExclusive == Spec => []OneClaimPerAttempt
BY Inductive, PTL DEF IInv

(* current_run_id is the run of the latest claim, so a row is never judged by the
   heartbeats of a run that has been superseded. *)
THEOREM RunIdIsCurrent == Spec => []RunIsNewestClaim
BY Inductive, PTL DEF IInv

(* The reaper and the reconciler together re-queue a SWO at most MAX_RETRIES times. *)
THEOREM RetriesAreBounded == Spec => []AutoRetryBound
BY Inductive, PTL DEF IInv

(* in_flight does what its comment says, for the runs cron itself starts. *)
THEOREM CronIsSingleFlight == Spec => []CronSingleFlight
BY Inductive, PTL DEF IInv

(* in_flight lets go of an agent when its run is over, on every way out of it. *)
THEOREM InFlightIsExact == Spec => []InFlightHasRun
BY Inductive, PTL DEF IInv

(* The startup reaper leaves IN_PROGRESS only rows of a run without a heartbeat row. *)
THEOREM ReaperIsThorough == Spec => ReaperSparesOnlySilent
<1>1. ASSUME IInv, Next, crashes' # crashes, NEW s \in Swo, status'[s] = "IN_PROGRESS"
      PROVE  run[s] \in Exec \ beaten
  <2> TypeOK
    BY <1>1 DEF IInv
  <2>1. CrashAndReap
    <3>1. ~Operator
      BY <1>1 DEF Operator, OperatorStep, Submit, Cancel, RequestRevision, Decide, OperatorClaimLost,
         OperatorSweep, DecideWrite, ReopenAncestor, ReviseReset, OperatorClaim, Command,
         history
    <3>2. ~Cron
      BY <1>1 DEF Cron, CronPick, Ideate, IdeationEnd, CronClaimLost, CronClaim, history
    <3>3. \A e \in Exec : ~FirstBeat(e) /\ ~LoopStep(e)
      BY <1>1 DEF FirstBeat, LoopStep, Complete, CloseDescendants, DispatchEnd,
         ChildrenReturned, RejectReview, GiveUp, Fail, Abandon, SpawnChild, history
    <3> QED
      BY <1>1, <3>1, <3>2, <3>3
      DEF Next, Reconciler, FileSwo, ReconcilerScan, ReconcilerApply, history
  <2>2. status[s] = "IN_PROGRESS" /\ s \notin Orphans
    BY <1>1, <2>1 DEF CrashAndReap
  <2>3. ~RunIsStale(s, {}) /\ ~AgentIsSilent(s, {}, {})
    BY <2>2 DEF Orphans, StaleSwos
  <2>4. run[s] \notin beaten /\ run[s] # NoRun
    BY <2>3 DEF RunIsStale, AgentIsSilent
  <2> QED BY <2>4 DEF TypeOK, StoreTypeOK
<1>2. IInv /\ [Next]_vars =>
        [crashes' # crashes =>
           \A s \in Swo : status'[s] = "IN_PROGRESS" => run[s] \in Exec \ beaten]_vars
  BY <1>1
<1> QED BY <1>2, Inductive, PTL DEF Spec, ReaperSparesOnlySilent

(* The table implements the queue: a Taken step grants the row's attempt, a Quiet
   one re-queues the rows whose retry_count it raises, and grants nothing. *)
THEOREM QueueIsKept == Spec => QueueKept
<1>1. Init => Queue!QueueInit
  BY DEF Init, StoreInit, Queue!QueueInit, Granted, Claimed
<1>2. ASSUME IInv, IInv', [Next]_vars
      PROVE  [Queue!QueueNext]_<<retry, Granted>>
  <2> TypeOK /\ TypeOK' /\ FreeIsBlank /\ ClaimIsSpent
    BY <1>2 DEF IInv
  <2> USE DEF TypeOK, StoreTypeOK
  <2>1. CASE Quiet
    <3> DEFINE back == {s \in Swo : retry'[s] = retry[s] + 1}
    <3>1. retry' = [s \in Swo |-> IF s \in back THEN retry[s] + 1 ELSE retry[s]]
      BY <2>1 DEF Quiet, Onward
    <3>2. Granted' = Granted
      BY <2>1 DEF Quiet, ClaimsStand, Granted
    <3>3. Queue!Requeue(back)
      BY <3>1, <3>2 DEF Queue!Requeue
    <3> QED BY <3>3 DEF Queue!QueueNext
  <2>2. ASSUME NEW s \in Swo, NEW e \in Exec, Taken(s, e)
        PROVE  Queue!Grant(s, e)
    <3>1. /\ ~Claimed(e) /\ Claimed(e)' /\ job'[e] = s /\ epoch'[e] = retry[s]
          /\ retry' = retry /\ status[s] = "PENDING"
          /\ \A d \in Exec \ {e} : /\ Claimed(d)' <=> Claimed(d)
                                   /\ job'[d] = job[d] /\ epoch'[d] = epoch[d]
      BY <2>2 DEF Taken, ClaimSwo, Claimable, Start, FreeIsBlank, Claimed
    <3>2. Granted' = Granted \cup {<<s, retry[s], e>>}
      <4>1. ASSUME NEW g \in Granted' PROVE g \in Granted \cup {<<s, retry[s], e>>}
        BY <3>1, <4>1 DEF Granted
      <4>2. ASSUME NEW g \in Granted PROVE g \in Granted'
        BY <3>1, <4>2 DEF Granted
      <4>3. <<s, retry[s], e>> \in Granted'
        BY <3>1 DEF Granted
      <4> QED BY <4>1, <4>2, <4>3
    <3>3. \A d \in Exec : <<s, retry[s], d>> \notin Granted
      <4>1. SUFFICES ASSUME NEW d \in Exec, Claimed(d), job[d] = s, epoch[d] = retry[s]
                     PROVE  FALSE
        BY DEF Granted
      <4> QED BY <3>1, <4>1 DEF ClaimIsSpent
    <3> QED BY <3>1, <3>2, <3>3 DEF Queue!Grant
  <2> QED BY <1>2, <2>1, <2>2, StepIsQuietOrTakes DEF Queue!QueueNext
<1> QED
  BY <1>1, <1>2, Inductive, PTL DEF Spec, QueueKept, Queue!QueueSpec

-----------------------------------------------------------------------------
(* Family trees. *)

\* What the recursive CTE over the column p computes, as an equation for its result g.
Climbs(p, s) == p[s] \in Swo /\ p[s] < s
Above(p, g, s) == IF Climbs(p, s) THEN {p[s]} \cup g[p[s]] ELSE {}

(* The equation has a solution: row by row, from the oldest. *)
LEMMA AncestorsExist ==
  ASSUME NEW p
  PROVE  \E g : g = [s \in Swo |-> Above(p, g, s)]
<1> DEFINE Good(n) == \E g : g = [s \in 1..n |-> Above(p, g, s)]
           Bad == {n \in Nat : n <= MaxSwo /\ ~ Good(n)}
<1>0. MaxSwo \in Nat
  BY StoreAssumption
<1>1. Good(0)
  <2> DEFINE g == [s \in 1..0 |-> {}]
  <2>1. g = [s \in 1..0 |-> Above(p, g, s)]
    OBVIOUS
  <2> QED BY <2>1
<1>2. ASSUME NEW n \in Nat, n < MaxSwo, Good(n) PROVE Good(n + 1)
  <2>1. PICK g : g = [s \in 1..n |-> Above(p, g, s)]
    BY <1>2
  <2> DEFINE h == [s \in 1..(n + 1) |-> IF s = n + 1 THEN Above(p, g, s) ELSE g[s]]
  <2>2. \A s \in 1..(n + 1) : h[s] = Above(p, g, s)
    <3> SUFFICES ASSUME NEW s \in 1..(n + 1) PROVE h[s] = Above(p, g, s)
      OBVIOUS
    <3>1. CASE s = n + 1
      BY <3>1
    <3>2. CASE s # n + 1
      <4>1. s \in 1..n /\ h[s] = g[s]
        BY <3>2
      <4> HIDE DEF h
      <4>2. g[s] = Above(p, g, s)
        BY <4>1, <2>1
      <4> QED BY <4>1, <4>2
    <3> QED BY <3>1, <3>2
  <2>3. \A s \in 1..(n + 1) : Above(p, h, s) = Above(p, g, s)
    <3> SUFFICES ASSUME NEW s \in 1..(n + 1) PROVE Above(p, h, s) = Above(p, g, s)
      OBVIOUS
    <3>1. CASE ~ Climbs(p, s)
      BY <3>1 DEF Above
    <3>2. CASE Climbs(p, s)
      <4>1. p[s] \in 1..(n + 1) /\ p[s] # n + 1
        BY <3>2, <1>0 DEF Climbs, Swo
      <4>2. h[p[s]] = g[p[s]]
        BY <4>1
      <4> HIDE DEF h
      <4> QED BY <4>2 DEF Above
    <3> QED BY <3>1, <3>2
  <2>4. h = [s \in 1..(n + 1) |-> h[s]]
    OBVIOUS
  <2> HIDE DEF h
  <2>5. h = [s \in 1..(n + 1) |-> Above(p, h, s)]
    BY <2>2, <2>3, <2>4
  <2> QED BY <2>5
<1>3. Bad = {}
  <2> SUFFICES ASSUME Bad # {} PROVE FALSE
    OBVIOUS
  <2>1. PICK k \in Bad : \A m \in Bad : k <= m
    <3> HIDE DEF Good
    <3>1. Bad \in SUBSET Nat
      OBVIOUS
    <3> HIDE DEF Bad
    <3> QED BY <3>1, LeastNumber
  <2> HIDE DEF Good
  <2>2. k \in Nat /\ k # 0 /\ ~ Good(k) /\ k <= MaxSwo
    BY <2>1, <1>1
  <2>3. k - 1 \in Nat /\ ~ (k <= k - 1) /\ (k - 1) + 1 = k /\ k - 1 < MaxSwo
    BY <2>2, <1>0
  <2>4. Good(k - 1)
    BY <2>1, <2>2, <2>3, <1>0
  <2> QED BY <2>2, <2>3, <2>4, <1>2
<1> HIDE DEF Good
<1>4. Good(MaxSwo)
  BY <1>3, <1>0
<1> QED BY <1>4 DEF Good, Swo

(* Hence the CTE computes one, over whatever column. *)
AncestorsBy(p) ==
  LET anc[s \in Swo] == IF p[s] \in Swo /\ p[s] < s THEN {p[s]} \cup anc[p[s]] ELSE {}
  IN anc

LEMMA AncestorsDefined ==
  ASSUME NEW p
  PROVE  \A s \in Swo : AncestorsBy(p)[s] = Above(p, AncestorsBy(p), s)
<1> DEFINE Body(g) == [s \in Swo |-> IF p[s] \in Swo /\ p[s] < s
                                     THEN {p[s]} \cup g[p[s]] ELSE {}]
           a == CHOOSE g : g = Body(g)
<1>1. \A g : Body(g) = [s \in Swo |-> Above(p, g, s)]
  BY DEF Above, Climbs
<1>2. \E g : g = Body(g)
  <2> HIDE DEF Body
  <2> QED BY <1>1, AncestorsExist
<1>3. a = Body(a)
  <2> HIDE DEF Body
  <2> QED BY <1>2
<1>4. AncestorsBy(p) = a
  BY DEF AncestorsBy
<1> HIDE DEF a, Body
<1>5. AncestorsBy(p) = [s \in Swo |-> Above(p, AncestorsBy(p), s)]
  BY <1>1, <1>3, <1>4
<1> QED BY <1>5

(* That of a state is over the column parent_swo_id. *)
LEMMA AncestorsAreByParent ==
  /\ \A s \in Swo : Ancestors[s] = Above(parent, Ancestors, s)
  /\ \A s \in Swo : Ancestors'[s] = Above(parent', Ancestors', s)
<1>1. Ancestors = AncestorsBy(parent) /\ Ancestors' = AncestorsBy(parent')
  BY DEF Ancestors, AncestorsBy
<1> QED BY <1>1, AncestorsDefined

(* Rows are above a row only through older rows. *)
LEMMA AncestorsAreOlder ==
  ASSUME NEW p, NEW g, \A s \in Swo : g[s] = Above(p, g, s)
  PROVE  \A s \in Swo : g[s] \subseteq {t \in Swo : t < s}
<1> DEFINE Bad == {s \in Swo : ~ (g[s] \subseteq {t \in Swo : t < s})}
<1> SUFFICES ASSUME Bad # {} PROVE FALSE
  OBVIOUS
<1>1. PICK k \in Bad : \A m \in Bad : k <= m
  <2>1. Bad \in SUBSET Nat
    BY StoreAssumption DEF Swo
  <2> HIDE DEF Bad
  <2> QED BY <2>1, LeastNumber
<1>2. k \in Swo /\ \A s \in Swo : s \in Nat
  BY StoreAssumption DEF Swo
<1>3. CASE ~ Climbs(p, k)
  BY <1>1, <1>2, <1>3 DEF Above
<1>4. CASE Climbs(p, k)
  <2>1. p[k] \in Swo /\ p[k] < k /\ g[k] = {p[k]} \cup g[p[k]]
    BY <1>2, <1>4 DEF Climbs, Above
  <2>2. g[p[k]] \subseteq {t \in Swo : t < p[k]}
    BY <1>1, <1>2, <2>1
  <2>3. \A t \in Swo : t < p[k] => t < k
    BY <1>2, <2>1
  <2> QED BY <1>1, <2>1, <2>2, <2>3
<1> QED BY <1>3, <1>4

(* The parent of an ancestor is an ancestor. *)
LEMMA AncestorsClimb ==
  ASSUME NEW p, NEW g, \A s \in Swo : g[s] = Above(p, g, s)
  PROVE  \A s \in Swo : \A t \in g[s] : Climbs(p, t) => p[t] \in g[s]
<1> DEFINE Bad == {s \in Swo : ~ (\A t \in g[s] : Climbs(p, t) => p[t] \in g[s])}
<1> SUFFICES ASSUME Bad # {} PROVE FALSE
  OBVIOUS
<1>1. PICK k \in Bad : \A m \in Bad : k <= m
  <2>1. Bad \in SUBSET Nat
    BY StoreAssumption DEF Swo
  <2> HIDE DEF Bad
  <2> QED BY <2>1, LeastNumber
<1>2. k \in Swo /\ \A s \in Swo : s \in Nat
  BY StoreAssumption DEF Swo
<1>3. CASE ~ Climbs(p, k)
  BY <1>1, <1>2, <1>3 DEF Above
<1>4. CASE Climbs(p, k)
  <2>1. p[k] \in Swo /\ p[k] < k /\ g[k] = {p[k]} \cup g[p[k]]
    BY <1>2, <1>4 DEF Climbs, Above
  <2>2. p[k] \notin Bad
    BY <1>1, <1>2, <2>1
  <2>3. \A t \in g[p[k]] : Climbs(p, t) => p[t] \in g[k]
    BY <2>1, <2>2
  <2>4. Climbs(p, p[k]) => p[p[k]] \in g[k]
    BY <2>1 DEF Above, Climbs
  <2> QED BY <1>1, <2>1, <2>3, <2>4
<1> QED BY <1>3, <1>4

(* Who is above a row depends on that row and the older ones only. *)
LEMMA AncestorsAgree ==
  ASSUME NEW p, NEW g, \A s \in Swo : g[s] = Above(p, g, s),
         NEW q, NEW h, \A s \in Swo : h[s] = Above(q, h, s),
         NEW n \in Swo, \A s \in Swo : s <= n => q[s] = p[s]
  PROVE  h[n] = g[n]
<1> DEFINE Bad == {s \in Swo : s <= n /\ h[s] # g[s]}
<1>1. Bad = {}
  <2> SUFFICES ASSUME Bad # {} PROVE FALSE
    OBVIOUS
  <2>1. PICK k \in Bad : \A m \in Bad : k <= m
    <3>1. Bad \in SUBSET Nat
      BY StoreAssumption DEF Swo
    <3> HIDE DEF Bad
    <3> QED BY <3>1, LeastNumber
  <2>2. k \in Swo /\ k <= n /\ n \in Nat /\ \A s \in Swo : s \in Nat
    BY <2>1, StoreAssumption DEF Swo
  <2>3. q[k] = p[k]
    BY <2>2
  <2>4. \A t \in Swo : t < k => t <= n /\ ~ (k <= t)
    BY <2>2
  <2>5. \A t \in Swo : t < k => h[t] = g[t]
    BY <2>1, <2>4
  <2>6. Climbs(p, k) => h[p[k]] = g[p[k]]
    BY <2>5 DEF Climbs
  <2>7. Above(q, h, k) = Above(p, g, k)
    BY <2>3, <2>6 DEF Above, Climbs
  <2>8. h[k] = g[k]
    BY <2>2, <2>7
  <2> QED BY <2>1, <2>8
<1> QED BY <1>1, StoreAssumption DEF Swo

\* Rows are numbered in the order of their creation, and a parent is an older row.
FamilyInv ==
  /\ \A s, t \in Swo : t < s /\ s \in Rows => t \in Rows
  /\ \A s \in Swo : parent[s] # NoSwo => s \in Rows /\ parent[s] \in Rows /\ parent[s] < s

\* Whoever is at work on a row is at work on one that exists, and a revision reopens
\* only rows above its own.
HoldersInv ==
  /\ \A e \in Exec : phase[e] # "free" => job[e] \in Rows
  /\ \A x \in scan : x.swo \in Rows
  /\ \A h \in Handler :
       /\ op[h].kind # "none" => op[h].swo \in Rows
       /\ op[h].kind = "reopen" => op[h].next \in Ancestors[op[h].swo]

\* A step of the table adds a row, or leaves the family tree alone.
Adds(s, a, p) ==
  /\ s \notin Rows /\ \A t \in Swo : t < s => t \in Rows
  /\ p \in Rows \cup {NoSwo} /\ Rows' = Rows \cup {s}
  /\ assigned' = [assigned EXCEPT ![s] = a] /\ parent' = [parent EXCEPT ![s] = p]
TreeStands == Rows' = Rows /\ assigned' = assigned /\ parent' = parent

(* An ancestor of a row is a row. *)
LEMMA AncestorsAreRows ==
  ASSUME FamilyInv, NEW s \in Rows
  PROVE  Ancestors[s] \subseteq Rows /\ \A t \in Ancestors[s] : t < s
<1>1. s \in Swo
  BY DEF Rows
<1>2. Ancestors[s] \subseteq {t \in Swo : t < s}
  BY <1>1, AncestorsAreByParent, AncestorsAreOlder
<1> QED BY <1>1, <1>2 DEF FamilyInv

(* A row that is created adds itself. *)
LEMMA CreateAdds ==
  ASSUME TypeOK, NEW s \in Swo, NEW a, NEW p \in Rows \cup {NoSwo}, NEW st \in Active,
         CreateSwo(s, a, p, st)
  PROVE  Adds(s, a, p)
<1>1. s \notin Rows /\ \A t \in Swo : t < s => t \in Rows
  BY DEF CreateSwo, Rows
<1>2. Rows' = Rows \cup {s}
  BY DEF CreateSwo, Rows, TypeOK, StoreTypeOK, Active
<1> QED BY <1>1, <1>2 DEF CreateSwo, Adds

(* What is written to a row that exists leaves the tree alone. *)
LEMMA WritesStand ==
  ASSUME TypeOK, NEW s \in Rows
  PROVE  /\ \A st \in Status \ {"ABSENT"} : UpdateStatus(s, st) => TreeStands
         /\ ResetToPending(s) => TreeStands
         /\ \A r : ClaimSwo(s, r) => TreeStands
         /\ IncrementRetry(s) => TreeStands
<1> USE DEF TypeOK, StoreTypeOK, Rows, TreeStands
<1>1. \A st \in Status \ {"ABSENT"} : UpdateStatus(s, st) => TreeStands
  BY DEF UpdateStatus
<1>2. ResetToPending(s) => TreeStands
  BY DEF ResetToPending
<1>3. \A r : ClaimSwo(s, r) => TreeStands
  BY DEF ClaimSwo
<1>4. IncrementRetry(s) => TreeStands
  BY DEF IncrementRetry
<1> QED BY <1>1, <1>2, <1>3, <1>4

(* So does a sweep. *)
LEMMA SweepStands ==
  ASSUME TypeOK, NEW s, CancelDescendants(s)
  PROVE  TreeStands
BY DEF TypeOK, StoreTypeOK, Rows, TreeStands, CancelDescendants, Cancelled, Active

(* Every step adds one row or leaves the tree alone. *)
LEMMA TreeSteps ==
  ASSUME IInv, FamilyInv, HoldersInv, [Next]_vars
  PROVE  \/ TreeStands
         \/ \E s \in Swo, a \in Agent, p \in Rows \cup {NoSwo} : Adds(s, a, p)
<1> DEFINE Goal == \/ TreeStands
                   \/ \E s \in Swo, a \in Agent, p \in Rows \cup {NoSwo} : Adds(s, a, p)
<1> TypeOK /\ FreeIsBlank
  BY DEF IInv
<1>st. ASSUME UNCHANGED swoVars PROVE TreeStands
  BY <1>st DEF swoVars, TreeStands, Rows
<1>en. {"PENDING", "IN_PROGRESS", "COMPLETED", "FAILED", "CANCELLED"} \subseteq Status \ {"ABSENT"}
  BY DEF Status, Active, Terminal
<1>u. CASE UNCHANGED vars
  BY <1>u, <1>st DEF vars
<1>file. ASSUME NEW s \in Swo, NEW a \in Agent, NEW p \in Rows \cup {NoSwo}, FileSwo(s, a, p)
         PROVE  Goal
  BY <1>file, CreateAdds DEF FileSwo, Active
<1>op. ASSUME NEW h \in Handler, OperatorStep(h) PROVE Goal
  <2>1. ASSUME NEW s \in Swo, NEW a \in Agent, NEW p \in Rows \cup {NoSwo}, Submit(h, s, a, p)
        PROVE  Goal
    BY <2>1, CreateAdds DEF Submit, Active
  <2>2. ASSUME NEW s \in Swo, Cancel(h, s) PROVE TreeStands
    BY <2>2, WritesStand, <1>en DEF Cancel
  <2>3. ASSUME NEW s \in Swo, NEW v, RequestRevision(h, s) \/ Decide(h, s, v) PROVE TreeStands
    BY <2>3, <1>st DEF RequestRevision, Decide
  <2>4. CASE OperatorClaimLost(h)
    BY <2>4, <1>st DEF OperatorClaimLost
  <2>5. CASE OperatorSweep(h)
    BY <2>5, SweepStands DEF OperatorSweep
  <2>6. CASE DecideWrite(h)
    <3>1. op[h].swo \in Rows
      BY <2>6 DEF DecideWrite, HoldersInv
    <3> QED BY <3>1, <2>6, WritesStand, <1>en DEF DecideWrite
  <2>7. CASE ReopenAncestor(h)
    <3>1. op[h].swo \in Rows /\ op[h].next \in Ancestors[op[h].swo]
      BY <2>7 DEF ReopenAncestor, HoldersInv
    <3>2. op[h].next \in Rows
      BY <3>1, AncestorsAreRows
    <3> QED BY <3>2, <2>7, WritesStand, <1>en DEF ReopenAncestor
  <2>8. CASE ReviseReset(h)
    <3>1. op[h].swo \in Rows
      BY <2>8 DEF ReviseReset, HoldersInv
    <3> QED BY <3>1, <2>8, WritesStand DEF ReviseReset
  <2>9. ASSUME NEW e \in Exec, OperatorClaim(h, e) PROVE TreeStands
    <3>1. op[h].swo \in Rows
      BY <2>9 DEF OperatorClaim, HoldersInv
    <3> QED BY <3>1, <2>9, WritesStand DEF OperatorClaim
  <2> QED BY <1>op, <2>1, <2>2, <2>3, <2>4, <2>5, <2>6, <2>7, <2>8, <2>9 DEF OperatorStep
<1>cron. CASE Cron
  <2>1. ASSUME NEW e \in Exec, CronClaim(e) PROVE TreeStands
    <3>1. cronPick \in Rows
      BY <2>1 DEF CronClaim, IInv, PickIsGrounded, Rows
    <3> QED BY <3>1, <2>1, WritesStand DEF CronClaim
  <2> QED BY <1>cron, <1>st, <2>1 DEF Cron, CronPick, Ideate, IdeationEnd, CronClaimLost
<1>loop. ASSUME NEW e \in Exec, LoopStep(e) PROVE Goal
  <2>0. job[e] \in Rows
    <3>1. phase[e] # "free"
      BY <1>loop DEF LoopStep, Complete, CloseDescendants, DispatchEnd, ChildrenReturned,
                     RejectReview, GiveUp, Fail, Abandon, SpawnChild
    <3> QED BY <3>1 DEF HoldersInv
  <2>1. CASE Complete(e) \/ GiveUp(e) \/ Fail(e)
    BY <2>0, <2>1, WritesStand, <1>en DEF Complete, GiveUp, Fail
  <2>2. CASE CloseDescendants(e)
    BY <2>2, SweepStands DEF CloseDescendants
  <2>3. CASE DispatchEnd(e) \/ ChildrenReturned(e) \/ Abandon(e)
    BY <2>3, <1>st DEF DispatchEnd, ChildrenReturned, Abandon
  <2>4. CASE RejectReview(e)
    BY <2>0, <2>4, WritesStand DEF RejectReview
  <2>5. ASSUME NEW s \in Swo, NEW a \in Agent, NEW d \in Exec, SpawnChild(e, s, a, d)
        PROVE  Goal
    BY <2>0, <2>5, CreateAdds DEF SpawnChild, Active
  <2> QED BY <1>loop, <2>1, <2>2, <2>3, <2>4, <2>5 DEF LoopStep
<1>beat. ASSUME NEW e \in Exec, FirstBeat(e) PROVE TreeStands
  BY <1>beat, <1>st DEF FirstBeat
<1>scan. CASE ReconcilerScan
  BY <1>scan, <1>st DEF ReconcilerScan
<1>apply. ASSUME NEW x \in scan, ReconcilerApply(x) PROVE TreeStands
  <2>1. x.swo \in Rows
    BY DEF HoldersInv
  <2> QED BY <2>1, <1>apply, WritesStand, <1>en DEF ReconcilerApply
<1>crash. CASE CrashAndReap
  <2>1. \A s \in Swo : status'[s] = "ABSENT" <=> status[s] = "ABSENT"
    BY <1>crash DEF CrashAndReap, Orphans, StaleSwos
  <2> QED BY <1>crash, <2>1 DEF CrashAndReap, TreeStands, Rows
<1> QED
  BY <1>u, <1>file, <1>op, <1>cron, <1>loop, <1>beat, <1>scan, <1>apply, <1>crash
  DEF Next, Operator, Reconciler

(* Either way the tree stays one, ... *)
LEMMA FamilyKept ==
  ASSUME IInv, FamilyInv, HoldersInv, [Next]_vars
  PROVE  FamilyInv'
<1> TypeOK
  BY DEF IInv
<1>1. CASE TreeStands
  BY <1>1 DEF TreeStands, FamilyInv
<1>2. ASSUME NEW s \in Swo, NEW a \in Agent, NEW p \in Rows \cup {NoSwo}, Adds(s, a, p)
      PROVE  FamilyInv'
  <2>1. \A t \in Rows : t \in Swo /\ t < s
    <3> SUFFICES ASSUME NEW t \in Rows PROVE t \in Swo /\ t < s
      OBVIOUS
    <3>1. t \in Swo /\ t # s /\ ~ (s < t)
      BY <1>2 DEF Rows, Adds, FamilyInv
    <3> QED BY <3>1, StoreAssumption DEF Swo
  <2>2. ASSUME NEW u \in Swo, NEW t \in Swo, t < u, u \in Rows' PROVE t \in Rows'
    BY <1>2, <2>2 DEF Adds, FamilyInv
  <2>3. ASSUME NEW t \in Swo, parent'[t] # NoSwo
        PROVE  t \in Rows' /\ parent'[t] \in Rows' /\ parent'[t] < t
    <3>1. CASE t = s
      <4>1. parent'[t] = p
        BY <3>1, <1>2 DEF Adds, TypeOK, StoreTypeOK
      <4> QED BY <4>1, <3>1, <2>3, <2>1, <1>2 DEF Adds
    <3>2. CASE t # s
      <4>1. parent'[t] = parent[t]
        BY <3>2, <1>2 DEF Adds, TypeOK, StoreTypeOK
      <4> QED BY <4>1, <2>3, <1>2 DEF Adds, FamilyInv
    <3> QED BY <3>1, <3>2
  <2> QED BY <2>2, <2>3 DEF FamilyInv
<1> QED BY <1>1, <1>2, TreeSteps

(* ... and whoever is above a row stays above it, under the same assignees. *)
LEMMA LineageStays ==
  ASSUME IInv, FamilyInv, HoldersInv, [Next]_vars, NEW s \in Rows
  PROVE  /\ s \in Rows' /\ parent'[s] = parent[s] /\ Ancestors'[s] = Ancestors[s]
         /\ \A t \in Rows : assigned'[t] = assigned[t]
<1> TypeOK
  BY DEF IInv
<1>0. s \in Swo
  BY DEF Rows
<1>1. /\ Rows \subseteq Rows'
      /\ \A t \in Rows : assigned'[t] = assigned[t] /\ parent'[t] = parent[t]
  <2>1. ASSUME NEW u \in Swo, NEW a \in Agent, NEW p \in Rows \cup {NoSwo}, Adds(u, a, p),
               NEW t \in Rows
        PROVE  assigned'[t] = assigned[t] /\ parent'[t] = parent[t]
    BY <2>1 DEF Adds, Rows, TypeOK, StoreTypeOK
  <2> QED BY <2>1, TreeSteps DEF TreeStands, Adds
<1>2. \A t \in Swo : t <= s => parent'[t] = parent[t]
  <2> SUFFICES ASSUME NEW t \in Swo, t <= s PROVE parent'[t] = parent[t]
    OBVIOUS
  <2>1. t = s \/ t < s
    BY <1>0, StoreAssumption DEF Swo
  <2>2. t \in Rows
    BY <2>1, <1>0 DEF FamilyInv
  <2> QED BY <2>2, <1>1
<1>3. Ancestors'[s] = Ancestors[s]
  BY <1>0, <1>2, AncestorsAreByParent, AncestorsAgree
<1> QED BY <1>1, <1>3

(* Executions keep the row they began with, and begin with one that exists; *)
LEMMA JobsStayRows ==
  ASSUME IInv, FamilyInv, HoldersInv, [Next]_vars
  PROVE  \A e \in Exec : phase'[e] # "free" => job'[e] \in Rows'
<1> DEFINE Goal == \A e \in Exec : phase'[e] # "free" => job'[e] \in Rows'
<1> TypeOK
  BY DEF IInv
<1> USE DEF TypeOK
<1>0. Rows \subseteq Rows' /\ \A e \in Exec : phase[e] # "free" => job[e] \in Rows
  BY LineageStays DEF HoldersInv
<1>1. ASSUME UNCHANGED execVars PROVE Goal
  BY <1>0, <1>1 DEF execVars
<1>2. ASSUME NEW e, NEW s \in Rows, NEW who, NEW ep, NEW m, Start(e, s, who, ep, m)
      PROVE  Goal
  BY <1>0, <1>2 DEF Start
<1>3. ASSUME NEW e \in Exec, LoopStep(e) PROVE Goal
  <2>1. phase[e] # "free"
    BY <1>3 DEF LoopStep, Complete, CloseDescendants, DispatchEnd, ChildrenReturned,
                RejectReview, GiveUp, Fail, Abandon, SpawnChild
  <2>2. ASSUME NEW p, Goto(e, p) PROVE Goal
    BY <1>0, <2>1, <2>2 DEF Goto
  <2>3. ASSUME NEW s \in Swo, NEW a \in Agent, NEW d \in Exec, SpawnChild(e, s, a, d)
        PROVE  Goal
    <3>1. s \in Rows'
      BY <2>3 DEF SpawnChild, CreateSwo, Rows, StoreTypeOK
    <3> QED BY <1>0, <2>1, <2>3, <3>1 DEF SpawnChild
  <2> QED
    BY <1>3, <2>2, <2>3 DEF LoopStep, Complete, CloseDescendants, DispatchEnd,
       ChildrenReturned, RejectReview, GiveUp, Fail, Abandon, Return
<1>4. CASE CrashAndReap
  BY <1>0, <1>4 DEF CrashAndReap, Live, LivePhase
<1>5. CASE Operator
  <2>1. ASSUME NEW h \in Handler, NEW e \in Exec, OperatorClaim(h, e) PROVE Goal
    <3>1. op[h].swo \in Rows
      BY <2>1 DEF OperatorClaim, HoldersInv
    <3> QED BY <2>1, <3>1, <1>2 DEF OperatorClaim
  <2> QED
    BY <1>5, <1>1, <2>1 DEF Operator, OperatorStep, Submit, Command, Cancel, RequestRevision, Decide,
       OperatorClaimLost, OperatorSweep, DecideWrite, ReopenAncestor, ReviseReset
<1>6. CASE Cron
  <2>1. ASSUME NEW e \in Exec, CronClaim(e) PROVE Goal
    <3>1. cronPick \in Rows
      BY <2>1 DEF CronClaim, IInv, PickIsGrounded, Rows
    <3> QED BY <2>1, <3>1, <1>2 DEF CronClaim
  <2> QED
    BY <1>6, <1>1, <2>1 DEF Cron, CronPick, Ideate, IdeationEnd, CronClaimLost
<1> QED
  BY <1>1, <1>3, <1>4, <1>5, <1>6
  DEF Next, Reconciler, vars, FileSwo, FirstBeat, ReconcilerScan, ReconcilerApply

(* and so do the reconciler's list and the operator's commands. *)
LEMMA HoldersKept ==
  ASSUME IInv, FamilyInv, HoldersInv, [Next]_vars
  PROVE  HoldersInv'
<1> TypeOK
  BY DEF IInv
<1>0. Rows \subseteq Rows' /\ \A s \in Rows : Ancestors'[s] = Ancestors[s]
  BY LineageStays
<1>1. \A x \in scan' : x.swo \in Rows'
  <2>1. CASE scan' \subseteq scan
    BY <1>0, <2>1 DEF HoldersInv
  <2>2. CASE ReconcilerScan
    <3>1. \A heard, dreaming : StaleSwos(heard, dreaming) \subseteq Rows
      BY DEF StaleSwos, Rows
    <3> QED BY <2>2, <3>1, <1>0 DEF ReconcilerScan
  <2>3. CASE Operator
    BY <2>1, <2>3 DEF Operator, OperatorStep, Submit, Command, Cancel, RequestRevision, Decide,
       OperatorClaim, OperatorClaimLost, OperatorSweep, DecideWrite, ReopenAncestor, ReviseReset
  <2>4. CASE Cron
    BY <2>1, <2>4 DEF Cron, CronPick, Ideate, IdeationEnd, CronClaimLost, CronClaim
  <2>5. ASSUME NEW e \in Exec, FirstBeat(e) \/ LoopStep(e) PROVE scan' = scan
    BY <2>5 DEF FirstBeat, LoopStep, Complete, CloseDescendants, DispatchEnd,
       ChildrenReturned, RejectReview, GiveUp, Fail, Abandon, SpawnChild
  <2> QED
    BY <2>1, <2>2, <2>3, <2>4, <2>5
    DEF Next, Reconciler, vars, FileSwo, ReconcilerApply, CrashAndReap
<1>2. \A h \in Handler :
        /\ op'[h].kind # "none" => op'[h].swo \in Rows'
        /\ op'[h].kind = "reopen" => op'[h].next \in Ancestors'[op'[h].swo]
  <2> DEFINE Sound(o) == /\ o.kind # "none" => o.swo \in Rows'
                         /\ o.kind = "reopen" => o.next \in Ancestors'[o.swo]
             Goal == \A h \in Handler : Sound(op'[h])
  <2>1. \A h \in Handler : Sound(op[h])
    BY <1>0 DEF HoldersInv
  <2>2. \A s \in Rows, k \in OpKind \ {"reopen"} : Sound(OpOn(k, s))
    BY <1>0 DEF OpOn
  <2>n. ASSUME NEW o, o = NoOp PROVE Sound(o)
    BY <2>n DEF NoOp, OpOn
  <2>3. ASSUME NEW s \in Rows, NEW t \in Ancestors[s] \cup {s} PROVE Sound(Reopening(s, parent[t]))
    <3>1. t \in Rows /\ \A u \in Ancestors[s] : Climbs(parent, u) => parent[u] \in Ancestors[s]
      BY AncestorsAreRows, AncestorsAreByParent, AncestorsClimb DEF Rows
    <3>2. CASE parent[t] = NoSwo
      BY <3>2, <1>0 DEF Reopening
    <3>3. CASE parent[t] # NoSwo
      <4>1. t \in Swo /\ Climbs(parent, t)
        BY <3>1, <3>3 DEF FamilyInv, Climbs, Rows
      <4>2. parent[t] \in Ancestors[s]
        <5>1. CASE t = s
          BY <4>1, <5>1, AncestorsAreByParent DEF Above
        <5> QED BY <4>1, <3>1, <5>1
      <4> QED BY <4>2, <3>3, <1>0 DEF Reopening
    <3> QED BY <3>2, <3>3
  <2> HIDE DEF Sound
  <2>4. ASSUME NEW h \in Handler, NEW o, Handle(h, o), Sound(o) PROVE Goal
    BY <2>1, <2>4 DEF Handle, TypeOK
  <2>5. ASSUME UNCHANGED op PROVE Goal
    BY <2>1, <2>5
  <2>6. ASSUME NEW h \in Handler, OperatorStep(h) PROVE Goal
    <3>k. {"submit", "sweep", "approve", "reject", "reclaim"} \subseteq OpKind \ {"reopen"}
      BY DEF OpKind
    <3>r. \A s \in Swo : status[s] # "ABSENT" => s \in Rows
      BY DEF Rows
    <3>1. ASSUME NEW s \in Swo, NEW a, NEW p, Submit(h, s, a, p) PROVE Goal
      <4>1. s \in Rows'
        BY <3>1 DEF Submit, CreateSwo, Rows, TypeOK, StoreTypeOK
      <4>2. Sound(OpOn("submit", s))
        BY <4>1 DEF OpOn, Sound
      <4> QED BY <3>1, <4>2, <2>4 DEF Submit
    <3>2. ASSUME NEW s \in Swo, Cancel(h, s) PROVE Goal
      BY <3>2, <3>k, <2>2, <2>4 DEF Cancel, Command
    <3>3. ASSUME NEW s \in Swo, RequestRevision(h, s) PROVE Goal
      <4>1. s \in Rows
        BY <3>3, <3>r DEF RequestRevision
      <4> QED BY <3>3, <4>1, <2>3, <2>4 DEF RequestRevision, Command
    <3>4. ASSUME NEW s \in Swo, NEW v, Decide(h, s, v) PROVE Goal
      BY <3>4, <3>k, <3>r, <2>2, <2>4 DEF Decide, Command, Active
    <3>5. CASE OperatorClaimLost(h) \/ OperatorSweep(h) \/ \E e \in Exec : OperatorClaim(h, e)
      BY <3>5, <2>n, <2>4 DEF OperatorClaimLost, OperatorSweep, OperatorClaim
    <3>6. CASE DecideWrite(h) \/ ReviseReset(h)
      <4>1. op[h].swo \in Rows
        BY <3>6 DEF DecideWrite, ReviseReset, HoldersInv
      <4> QED BY <3>6, <4>1, <3>k, <2>2, <2>n, <2>4 DEF DecideWrite, ReviseReset
    <3>7. CASE ReopenAncestor(h)
      <4>1. op[h].swo \in Rows /\ op[h].next \in Ancestors[op[h].swo]
        BY <3>7 DEF ReopenAncestor, HoldersInv
      <4> QED BY <3>7, <4>1, <2>3, <2>4 DEF ReopenAncestor
    <3> QED BY <2>6, <3>1, <3>2, <3>3, <3>4, <3>5, <3>6, <3>7 DEF OperatorStep
  <2>7. ASSUME Cron PROVE op' = op
    BY <2>7 DEF Cron, CronPick, Ideate, IdeationEnd, CronClaimLost, CronClaim
  <2>8. ASSUME NEW e \in Exec, FirstBeat(e) \/ LoopStep(e) PROVE op' = op
    BY <2>8 DEF FirstBeat, LoopStep, Complete, CloseDescendants, DispatchEnd,
       ChildrenReturned, RejectReview, GiveUp, Fail, Abandon, SpawnChild
  <2>9. ASSUME CrashAndReap PROVE Goal
    <3>1. \A h \in Handler : op'[h] = NoOp
      BY <2>9 DEF CrashAndReap
    <3> QED BY <3>1, <2>n
  <2>10. Goal
    BY <2>5, <2>6, <2>7, <2>8, <2>9
    DEF Next, Operator, Reconciler, vars, FileSwo, ReconcilerScan, ReconcilerApply
  <2> QED BY <2>10 DEF Sound
<1> QED BY <1>1, <1>2, JobsStayRows DEF HoldersInv

(* FamilyInv and HoldersInv hold in every state. *)
THEOREM FamilyInductive == Spec => [](FamilyInv /\ HoldersInv)
<1>1. Init => FamilyInv /\ HoldersInv
  BY DEF Init, StoreInit, FamilyInv, HoldersInv, Rows, NoOp, OpOn
<1>2. IInv /\ FamilyInv /\ HoldersInv /\ [Next]_vars => (FamilyInv /\ HoldersInv)'
  BY FamilyKept, HoldersKept
<1> QED BY <1>1, <1>2, Inductive, PTL DEF Spec

(* A sweep spares what is terminal. *)
LEMMA SweepSparesTerminal ==
  ASSUME TypeOK, NEW t, CancelDescendants(t), NEW s \in Swo, status[s] \in Terminal
  PROVE  status'[s] = status[s]
BY DEF TypeOK, StoreTypeOK, CancelDescendants, Cancelled, Active, Terminal

(* A finished row is moved only by someone who had hold of it: a running execution of
   it, a list of the reconciler's that names it, or a command on it or below it;
   never by the cron loop, the reaper, a sweep or a claim. *)
THEOREM FinishedRowsAreHeld == Spec => TerminalHasReader
<1> DEFINE Held(s) == \/ \E e \in Exec : Live(e) /\ job[e] = s
                      \/ \E x \in scan : x.swo = s
                      \/ \E h \in Handler :
                           \/ op[h].swo = s \/ op'[h].swo = s
                           \/ op[h].swo \in Swo /\ s \in Ancestors[op[h].swo]
<1>1. ASSUME IInv, FamilyInv, HoldersInv, Next,
             NEW s \in Swo, status[s] \in Terminal, status'[s] # status[s]
      PROVE  Held(s)
  <2> TypeOK
    BY <1>1 DEF IInv
  <2> USE DEF TypeOK, StoreTypeOK
  <2>1. ~ UNCHANGED swoVars
    BY <1>1 DEF swoVars
  <2>2. \A t, st : UpdateStatus(t, st) => s = t
    BY <1>1 DEF UpdateStatus
  <2>3. \A t : ResetToPending(t) => s = t
    BY <1>1 DEF ResetToPending
  <2>4. \A t, r : ~ ClaimSwo(t, r)
    BY <1>1 DEF ClaimSwo, Claimable, Terminal
  <2>5. \A t, a, p, st : ~ CreateSwo(t, a, p, st)
    BY <1>1 DEF CreateSwo, Terminal
  <2>6. \A t : ~ CancelDescendants(t) /\ ~ IncrementRetry(t)
    BY <1>1, SweepSparesTerminal DEF IncrementRetry
  <2>7. ASSUME NEW h \in Handler, OperatorStep(h) PROVE Held(s)
    <3>1. ASSUME NEW t \in Swo, Cancel(h, t) PROVE Held(s)
      BY <3>1, <2>2 DEF Cancel, Command, Handle, OpOn
    <3>2. CASE DecideWrite(h) \/ ReviseReset(h)
      BY <3>2, <2>2, <2>3 DEF DecideWrite, ReviseReset
    <3>3. CASE ReopenAncestor(h)
      <4>1. op[h].swo \in Rows /\ op[h].next \in Ancestors[op[h].swo]
        BY <3>3, <1>1 DEF ReopenAncestor, HoldersInv
      <4> QED BY <3>3, <4>1, <2>2 DEF ReopenAncestor, Rows
    <3> QED
      BY <2>7, <3>1, <3>2, <3>3, <2>1, <2>4, <2>5, <2>6
      DEF OperatorStep, Submit, RequestRevision, Decide, OperatorClaimLost, OperatorSweep,
          OperatorClaim
  <2>8. ~ Cron
    BY <2>1, <2>4 DEF Cron, CronPick, Ideate, IdeationEnd, CronClaimLost, CronClaim
  <2>9. ASSUME NEW e \in Exec, LoopStep(e) PROVE Held(s)
    <3>1. CASE Complete(e) \/ GiveUp(e) \/ Fail(e)
      <4>1. Live(e)
        BY <3>1 DEF Complete, GiveUp, Fail, Live, LivePhase
      <4> QED BY <3>1, <4>1, <2>2 DEF Complete, GiveUp, Fail
    <3> QED
      BY <2>9, <3>1, <2>1, <2>5, <2>6
      DEF LoopStep, CloseDescendants, DispatchEnd, ChildrenReturned, RejectReview, Abandon,
          SpawnChild
  <2>10. ASSUME NEW x \in scan, ReconcilerApply(x) PROVE Held(s)
    BY <2>10, <2>2, <2>3 DEF ReconcilerApply
  <2>11. ~ CrashAndReap
    BY <1>1 DEF CrashAndReap, Orphans, StaleSwos, Terminal
  <2>12. ~ ReconcilerScan /\ \A e \in Exec : ~ FirstBeat(e)
    BY <2>1 DEF ReconcilerScan, FirstBeat
  <2> QED
    BY <1>1, <2>5, <2>7, <2>8, <2>9, <2>10, <2>11, <2>12 DEF Next, Operator, Reconciler, FileSwo
<1>2. IInv /\ FamilyInv /\ HoldersInv /\ [Next]_vars =>
        [\A s \in Swo : status[s] \in Terminal /\ status'[s] # status[s] => Held(s)]_vars
  BY <1>1
<1> QED BY <1>2, Inductive, FamilyInductive, PTL DEF Spec, TerminalHasReader
=============================================================================
