------------------------ MODULE HsmDelegationProofs ------------------------
(***************************************************************************)
(* Proofs about HsmDelegation: every step of the opened loop is a step of  *)
(* the life cycle, so its theorems hold here too; the review ceiling; and  *)
(* who may leave children running.                                         *)
(***************************************************************************)
EXTENDS HsmDelegation, SwoLifecycleProofs, SequenceTheorems

-----------------------------------------------------------------------------
(* Every step is a step of SwoLifecycle. *)

(* The targets of an answer are a sequence of agents. *)
LEMMA TargetsAreAgents == Targets \subseteq Seq(Agent)
BY DelegationAssumption, SeqDef DEF Targets

(* A reply keeps the types of the detail. *)
LEMMA RepliesKeepTypes ==
  ASSUME DetailTypeOK, NEW e \in Exec, NEW r \in Reply, Replies(e, r)
  PROVE  DetailTypeOK'
<1>1. <<>> \in Seq(Agent)
  OBVIOUS
<1> QED BY <1>1 DEF DetailTypeOK, Replies

(* The detail keeps its types. *)
LEMMA DetailTypesKept ==
  ASSUME DetailTypeOK, [HsmNext]_hsmVars
  PROVE  DetailTypeOK'
<1> USE TargetsAreAgents DEF DetailTypeOK, Asks, Rest, Origin
<1>1. CASE UNCHANGED detail
  BY <1>1 DEF detail
<1>2. ASSUME NEW e \in Exec, HsmStep(e) PROVE DetailTypeOK'
  <2>1. ASSUME NEW t \in Targets, AnswerDelegates(e, t) \/ AnswerDirectly(e, t)
        PROVE  DetailTypeOK'
    BY <2>1 DEF AnswerDelegates, AnswerDirectly
  <2>2. ASSUME NEW t \in Targets, Reject(e, t) PROVE DetailTypeOK'
    <3>1. <<>> \in Seq(Agent)
      OBVIOUS
    <3> QED BY <2>2, <3>1 DEF Reject
  <2>3. ASSUME NEW s \in Swo, NEW d \in Exec,
               DispatchInline(e, s, d) \/ Delegate(e, s, d) \/ Revise(e, s, d)
        PROVE  DetailTypeOK'
    <3>1. todo[e] # <<>> /\ Tail(todo[e]) \in Seq(Agent)
      BY <2>3 DEF DispatchInline, Delegate, Revise, Spawning
    <3> QED BY <2>3, <3>1 DEF DispatchInline, Delegate, Revise
  <2>4. ASSUME NEW r \in Reply, ReturnAnswer(e, r) \/ ReturnAccepted(e, r)
        PROVE  DetailTypeOK'
    BY <2>4, RepliesKeepTypes DEF ReturnAnswer, ReturnAccepted
  <2>5. CASE AnswerFails(e) \/ BlockLoop(e) \/ GiveError(e) \/ ReviewFails(e)
             \/ RejectForGood(e) \/ CloseFailed(e)
    BY <2>5, RepliesKeepTypes
    DEF AnswerFails, BlockLoop, GiveError, ReviewFails, RejectForGood, CloseFailed, Reply
  <2>6. CASE SkipInline(e)
    <3>1. todo[e] # <<>> /\ Tail(todo[e]) \in Seq(Agent)
      BY <2>6 DEF SkipInline
    <3> QED BY <2>6, <3>1 DEF SkipInline
  <2>7. CASE Synthesize(e)
    BY <2>7 DEF Synthesize
  <2>8. CASE CloseAnswered(e) \/ CountBlocked(e) \/ Accept(e)
    BY <2>8, <1>1 DEF CloseAnswered, CountBlocked, Accept
  <2> QED
    BY <1>2, <2>1, <2>2, <2>3, <2>4, <2>5, <2>6, <2>7, <2>8 DEF HsmStep
<1> QED BY <1>1, <1>2 DEF HsmNext, hsmVars

(* A step of the opened loop is a step of the loop, or leaves all it knows alone. *)
LEMMA HsmStepIsLoopStep ==
  ASSUME DetailTypeOK, NEW e \in Exec, HsmStep(e)
  PROVE  LoopStep(e) \/ UNCHANGED vars
<1> USE DEF LoopStep
<1>1. ASSUME NEW t \in Targets, AnswerDelegates(e, t) \/ AnswerDirectly(e, t) \/ Reject(e, t)
      PROVE  LoopStep(e) \/ UNCHANGED vars
  BY <1>1 DEF AnswerDelegates, AnswerDirectly, Reject
<1>2. ASSUME NEW s \in Swo, NEW d \in Exec,
             DispatchInline(e, s, d) \/ Delegate(e, s, d) \/ Revise(e, s, d)
      PROVE  LoopStep(e)
  <2>1. todo[e] \in Seq(Agent) /\ todo[e] # <<>>
    BY <1>2 DEF DetailTypeOK, DispatchInline, Delegate, Revise, Spawning
  <2>2. Head(todo[e]) \in Agent
    BY <2>1
  <2> QED BY <1>2, <2>2 DEF DispatchInline, Delegate, Revise
<1>3. ASSUME NEW r, ReturnAnswer(e, r) \/ ReturnAccepted(e, r) PROVE LoopStep(e)
  BY <1>3 DEF ReturnAnswer, ReturnAccepted
<1>4. CASE AnswerFails(e) \/ CloseAnswered(e) \/ SkipInline(e) \/ BlockLoop(e) \/ GiveError(e)
  BY <1>4 DEF AnswerFails, CloseAnswered, SkipInline, BlockLoop, GiveError
<1>5. CASE Synthesize(e) \/ CountBlocked(e) \/ Accept(e) \/ ReviewFails(e)
           \/ RejectForGood(e) \/ CloseFailed(e)
  BY <1>5 DEF Synthesize, CountBlocked, Accept, ReviewFails, RejectForGood, CloseFailed
<1> QED BY <1>1, <1>2, <1>3, <1>4, <1>5 DEF HsmStep

(* So is every step of HsmDelegation. *)
LEMMA StepImplements ==
  ASSUME DetailTypeOK, [HsmNext]_hsmVars
  PROVE  [Next]_vars
<1>1. CASE UNCHANGED hsmVars
  BY <1>1 DEF hsmVars
<1>2. ASSUME NEW e \in Exec, HsmStep(e) PROVE [Next]_vars
  BY <1>2, HsmStepIsLoopStep DEF Next
<1>3. CASE Around
  <2>1. ASSUME NEW h \in Handler, NEW s \in Swo, NEW a \in Agent,
               NEW p \in Rows \cup {NoSwo}, SubmitRoot(h, s, a, p)
        PROVE  Next
    BY <2>1 DEF SubmitRoot, Next, Operator, OperatorStep
  <2>2. ASSUME NEW h \in Handler, NEW e \in Exec, OperatorClaim(h, e) PROVE Next
    BY <2>2 DEF Next, Operator, OperatorStep
  <2>3. CASE Reconciler
    BY <2>3 DEF Next
  <2> QED BY <1>3, <2>1, <2>2, <2>3 DEF Around
<1> QED BY <1>1, <1>2, <1>3 DEF HsmNext

(* execute_hsm_loop_with_context, with all its decisions, stays within the life cycle
   of SwoLifecycle: so a claim still has one winner per attempt, and so on. *)
THEOREM LifecycleImplemented == HsmSpec => Spec
<1>1. HsmInit => Init /\ DetailTypeOK
  <2>1. <<>> \in Seq(Agent)
    OBVIOUS
  <2> QED BY <2>1 DEF HsmInit, DetailTypeOK, Origin, Reply
<1>2. DetailTypeOK /\ [HsmNext]_hsmVars => [Next]_vars /\ DetailTypeOK'
  BY DetailTypesKept, StepImplements
<1> QED BY <1>1, <1>2, PTL DEF HsmSpec, Spec

(* A loop has claimed its row once per attempt, also with the loops opened. *)
THEOREM OpenedClaimsAreExclusive == HsmSpec => []OneClaimPerAttempt
BY LifecycleImplemented, ClaimsAreExclusive, PTL

-----------------------------------------------------------------------------
(* What a step does to an execution: nothing; it starts it, for m; or it is the
   execution's own step. *)
Stands(x) ==
  /\ phase'[x] = phase[x] /\ job'[x] = job[x] /\ spawner'[x] = spawner[x]
  /\ pass'[x] = pass[x] /\ reply'[x] = reply[x]

StartedFor(x, m) ==
  /\ phase[x] = "free" /\ phase'[x] = "triage" /\ spawner'[x] = m
  /\ job'[x] \in Swo /\ status'[job'[x]] # "ABSENT"
  /\ pass'[x] = pass[x] /\ reply'[x] = reply[x]

Results == {"ok", "unmarked", "closed"}

OwnMove(e) ==
  /\ phase[e] \in LivePhase /\ phase'[e] # "free"
  /\ job'[e] = job[e] /\ spawner'[e] = spawner[e]
  /\ phase[e] = "await" /\ phase'[e] \notin {"await", "over"} => Back(e)
  /\ reply'[e] # reply[e] /\ reply'[e] \in Results
       => phase'[e] = "over" /\ phase[e] # "await"
  /\ phase'[e] = "triage" => phase[e] = "triage" /\ pass'[e] = pass[e]

(* Around the loops executions are started for nobody; nothing else happens to them. *)
LEMMA AroundStands ==
  ASSUME TypeOK, OpHasRow, Around, UNCHANGED detail, NEW x \in Exec
  PROVE  Stands(x) \/ StartedFor(x, NoExec)
<1> USE DEF Stands, StartedFor, detail, TypeOK
<1>1. ASSUME NEW h \in Handler, NEW s, NEW a, NEW p, SubmitRoot(h, s, a, p) PROVE Stands(x)
  BY <1>1 DEF SubmitRoot, Submit, execVars
<1>2. ASSUME NEW h \in Handler, NEW e \in Exec, OperatorClaim(h, e)
      PROVE  Stands(x) \/ StartedFor(x, NoExec)
  <2>1. op[h].swo \in Swo
    BY <1>2 DEF OperatorClaim, OpHasRow
  <2>2. status'[op[h].swo] # "ABSENT"
    BY <1>2, <2>1 DEF OperatorClaim, ClaimSwo, StoreTypeOK
  <2> QED BY <1>2, <2>1, <2>2 DEF OperatorClaim, Start
<1>3. CASE Reconciler
  BY <1>3 DEF Reconciler, ReconcilerScan, ReconcilerApply, execVars
<1> QED BY <1>1, <1>2, <1>3 DEF Around

\* The steps in which e spawns d with the row s.
Spawns(e, s, d) == DispatchInline(e, s, d) \/ Delegate(e, s, d) \/ Revise(e, s, d)

(* The step of one loop leaves every other execution alone, but for a child it spawns. *)
LEMMA LoopStands ==
  ASSUME TypeOK, DetailTypeOK, NEW e \in Exec, HsmStep(e), NEW x \in Exec, x # e
  PROVE  Stands(x) \/ \E s \in Swo : Spawns(e, s, x)
<1> USE DEF Stands, TypeOK, DetailTypeOK, Asks, Replies
<1>1. ASSUME NEW t, AnswerDelegates(e, t) \/ AnswerDirectly(e, t) \/ Reject(e, t)
      PROVE  Stands(x)
  BY <1>1 DEF AnswerDelegates, AnswerDirectly, Reject, Complete, RejectReview, Goto,
              vars, execVars
<1>2. ASSUME NEW s \in Swo, NEW d \in Exec, Spawns(e, s, d), d # x
      PROVE  Stands(x)
  <2>1. PICK a : SpawnChild(e, s, a, d)
    BY <1>2 DEF Spawns, DispatchInline, Delegate, Revise
  <2>2. pass'[x] = pass[x] /\ reply'[x] = reply[x]
    BY <1>2 DEF Spawns, DispatchInline, Delegate, Revise
  <2> QED BY <1>2, <2>1, <2>2 DEF SpawnChild
<1>3. ASSUME NEW r, ReturnAnswer(e, r) \/ ReturnAccepted(e, r) PROVE Stands(x)
  BY <1>3 DEF ReturnAnswer, ReturnAccepted, DispatchEnd, CloseDescendants, Return, Goto
<1>4. CASE AnswerFails(e) \/ BlockLoop(e) \/ GiveError(e) \/ ReviewFails(e) \/ CloseFailed(e)
  BY <1>4 DEF AnswerFails, BlockLoop, GiveError, ReviewFails, CloseFailed, Fail, Abandon,
              Return, Goto
<1>5. CASE CloseAnswered(e) \/ SkipInline(e) \/ Accept(e)
  BY <1>5 DEF CloseAnswered, SkipInline, Accept, CloseDescendants, Complete, Return, Goto,
              detail, vars, execVars
<1>6. CASE Synthesize(e) \/ CountBlocked(e)
  BY <1>6 DEF Synthesize, CountBlocked, ChildrenReturned, RejectReview, Goto, detail
<1>7. CASE RejectForGood(e)
  BY <1>7 DEF RejectForGood, GiveUp, Goto
<1> QED BY <1>1, <1>2, <1>3, <1>4, <1>5, <1>6, <1>7 DEF HsmStep, Spawns

(* A child is started with a row of its own; a loop that awaits it, awaits. *)
LEMMA SpawnStarts ==
  ASSUME TypeOK, NEW e \in Exec, NEW s \in Swo, NEW d \in Exec, Spawns(e, s, d)
  PROVE  /\ StartedFor(d, NoExec) \/ (StartedFor(d, e) /\ phase'[e] = "await")
         /\ d # e /\ job'[d] = s /\ status[s] = "ABSENT"
<1> USE DEF TypeOK
<1>1. PICK a : SpawnChild(e, s, a, d)
  BY DEF Spawns, DispatchInline, Delegate, Revise
<1>2. pass' = pass /\ reply' = reply
  BY DEF Spawns, DispatchInline, Delegate, Revise
<1>3. /\ phase[d] = "free" /\ phase'[d] = "triage" /\ d # e
      /\ spawner'[d] = NoExec \/ (spawner'[d] = e /\ phase'[e] = "await")
      /\ job'[d] = s
  BY <1>1 DEF SpawnChild
<1>4. status[s] = "ABSENT" /\ status'[s] # "ABSENT"
  BY <1>1 DEF SpawnChild, CreateSwo, StoreTypeOK
<1> QED BY <1>2, <1>3, <1>4 DEF StartedFor

(* What a loop does to itself. *)
LEMMA LoopMoves ==
  ASSUME TypeOK, DetailTypeOK, NEW e \in Exec, HsmStep(e)
  PROVE  OwnMove(e)
<1> USE DEF OwnMove, Results, LivePhase, TypeOK, DetailTypeOK, Asks, Replies, Goto, Return
<1>1. ASSUME NEW t, AnswerDelegates(e, t) \/ AnswerDirectly(e, t) \/ Reject(e, t)
      PROVE  OwnMove(e)
  BY <1>1 DEF AnswerDelegates, AnswerDirectly, Reject, Complete, RejectReview, vars, execVars
<1>2. ASSUME NEW s \in Swo, NEW d \in Exec,
             DispatchInline(e, s, d) \/ Delegate(e, s, d) \/ Revise(e, s, d)
      PROVE  OwnMove(e)
  <2>1. PICK a : SpawnChild(e, s, a, d)
    BY <1>2 DEF DispatchInline, Delegate, Revise
  <2>2. e # d
    BY <2>1 DEF SpawnChild
  <2>3. pass'[e] = pass[e] /\ reply'[e] = reply[e]
    BY <1>2 DEF DispatchInline, Delegate, Revise
  <2> QED BY <2>1, <2>2, <2>3 DEF SpawnChild
<1>3. ASSUME NEW r, ReturnAnswer(e, r) \/ ReturnAccepted(e, r) PROVE OwnMove(e)
  BY <1>3 DEF ReturnAnswer, ReturnAccepted, DispatchEnd, CloseDescendants
<1>4. CASE AnswerFails(e) \/ BlockLoop(e) \/ GiveError(e) \/ ReviewFails(e)
  BY <1>4 DEF AnswerFails, BlockLoop, GiveError, ReviewFails, Fail, Abandon, Spawning
<1>5. CASE CloseFailed(e)
  BY <1>5 DEF CloseFailed, Fail
<1>6. CASE CloseAnswered(e) \/ SkipInline(e) \/ Accept(e)
  BY <1>6 DEF CloseAnswered, SkipInline, Accept, CloseDescendants, Complete,
              detail, vars, execVars
<1>7. CASE Synthesize(e) \/ CountBlocked(e)
  BY <1>7 DEF Synthesize, CountBlocked, ChildrenReturned, RejectReview, detail
<1>8. CASE RejectForGood(e)
  BY <1>8 DEF RejectForGood, GiveUp
<1> QED BY <1>1, <1>2, <1>3, <1>4, <1>5, <1>6, <1>7, <1>8 DEF HsmStep

-----------------------------------------------------------------------------
(* The review ceiling. *)

\* Every pass after the first is paid for by a retry_count of the row.
PassIsPaid ==
  \A e \in Exec :
    /\ phase[e] \in {"free", "triage"} => pass[e] = 0
    /\ phase[e] \in {"await", "rejected"} => pass[e] <= retry[job[e]]
    /\ phase[e] = "review" => pass[e] <= retry[job[e]] + 1
    /\ phase[e] = "accepting" => pass[e] > 0

PassMove(e) ==
  /\ phase'[e] \in {"await", "rejected"} =>
       /\ pass'[e] = pass[e]
       /\ \/ phase[e] \in {"triage", "await", "rejected"}
          \/ /\ phase[e] = "review"
             /\ retry'[job[e]] = retry[job[e]] + 1 /\ retry'[job[e]] < MaxReviewFailures
  /\ phase'[e] = "review" =>
       \/ pass'[e] = 0
       \/ phase[e] \in {"await", "rejected"} /\ pass'[e] = pass[e] + 1
  /\ phase'[e] = "accepting" => pass'[e] > 0

(* How a loop's passes go with its phases. *)
LEMMA LoopPasses ==
  ASSUME TypeOK, FreeIsBlank, DetailTypeOK, NEW e \in Exec, HsmStep(e)
  PROVE  PassMove(e)
<1> USE DEF PassMove, TypeOK, DetailTypeOK, Asks, Replies, Goto, Return
<1>1. ASSUME NEW t, AnswerDelegates(e, t) \/ AnswerDirectly(e, t) PROVE PassMove(e)
  BY <1>1 DEF AnswerDelegates, AnswerDirectly, Complete, vars, execVars
<1>2. CASE RejectReview(e) /\ pass'[e] = pass[e]
  <2>1. job[e] \in Swo /\ retry[job[e]] \in Nat
    BY <1>2 DEF RejectReview, FreeIsBlank, StoreTypeOK
  <2> QED
    BY <1>2, <2>1 DEF RejectReview, IncrementRetry, RevisesAgain, StoreTypeOK
<1>3. ASSUME NEW t, Reject(e, t) PROVE PassMove(e)
  BY <1>3, <1>2 DEF Reject
<1>4. ASSUME NEW s \in Swo, NEW d \in Exec,
             DispatchInline(e, s, d) \/ Delegate(e, s, d) \/ Revise(e, s, d)
      PROVE  PassMove(e)
  <2>1. PICK a : SpawnChild(e, s, a, d)
    BY <1>4 DEF DispatchInline, Delegate, Revise
  <2>2. e # d
    BY <2>1 DEF SpawnChild
  <2>3. pass'[e] = pass[e]
    BY <1>4 DEF DispatchInline, Delegate, Revise
  <2> QED BY <2>1, <2>2, <2>3 DEF SpawnChild
<1>5. ASSUME NEW r, ReturnAnswer(e, r) \/ ReturnAccepted(e, r) PROVE PassMove(e)
  BY <1>5 DEF ReturnAnswer, ReturnAccepted, DispatchEnd, CloseDescendants
<1>6. CASE AnswerFails(e) \/ BlockLoop(e) \/ GiveError(e) \/ ReviewFails(e) \/ CloseFailed(e)
  BY <1>6 DEF AnswerFails, BlockLoop, GiveError, ReviewFails, CloseFailed, Fail, Abandon
<1>7. CASE CloseAnswered(e) \/ SkipInline(e) \/ Accept(e)
  BY <1>7 DEF CloseAnswered, SkipInline, Accept, Revising, CloseDescendants, Complete,
              detail, vars, execVars
<1>8. CASE Synthesize(e)
  BY <1>8 DEF Synthesize, ChildrenReturned
<1>9. CASE CountBlocked(e)
  BY <1>9, <1>2 DEF CountBlocked, ChildrenReturned, detail
<1>10. CASE RejectForGood(e)
  BY <1>10 DEF RejectForGood, GiveUp
<1> QED
  BY <1>1, <1>3, <1>4, <1>5, <1>6, <1>7, <1>8, <1>9, <1>10 DEF HsmStep

(* retry_count never falls. *)
LEMMA RetryNeverFalls ==
  ASSUME IInv, [Next]_vars, NEW s \in Swo
  PROVE  retry[s] \in Nat /\ retry'[s] \in Nat /\ retry[s] <= retry'[s]
<1>1. retry[s] \in Nat
  BY DEF IInv, TypeOK, StoreTypeOK
<1>2. retry'[s] \in {retry[s], retry[s] + 1}
  BY StepIsQuietOrTakes, <1>1 DEF Quiet, Onward, Taken, ClaimSwo
<1> QED BY <1>1, <1>2

(* Each execution stands, is started, or takes the step itself. *)
LEMMA EachStandsOrMoves ==
  ASSUME IInv, DetailTypeOK, [HsmNext]_hsmVars, NEW x \in Exec
  PROVE  \/ Stands(x) \/ StartedFor(x, NoExec)
         \/ HsmStep(x) /\ OwnMove(x)
         \/ \E e \in Exec \ {x}, s \in Swo :
              HsmStep(e) /\ Spawns(e, s, x) /\ StartedFor(x, e) /\ phase'[e] = "await"
<1> TypeOK /\ OpHasRow
  BY DEF IInv
<1>1. CASE UNCHANGED hsmVars
  BY <1>1 DEF hsmVars, vars, execVars, detail, Stands
<1>2. CASE Around /\ UNCHANGED detail
  BY <1>2, AroundStands
<1>3. ASSUME NEW e \in Exec, HsmStep(e)
      PROVE  \/ Stands(x) \/ StartedFor(x, NoExec)
             \/ HsmStep(x) /\ OwnMove(x)
             \/ e # x /\ \E s \in Swo : /\ HsmStep(e) /\ Spawns(e, s, x)
                                      /\ StartedFor(x, e) /\ phase'[e] = "await"
  BY <1>3, LoopStands, LoopMoves, SpawnStarts
<1> QED BY <1>1, <1>2, <1>3 DEF HsmNext

(* The passes stay paid for, and the ceiling comes before the last of them. *)
LEMMA PassesKept ==
  ASSUME IInv, DetailTypeOK, PassIsPaid, RevisionsAreReviewed, [HsmNext]_hsmVars
  PROVE  PassIsPaid' /\ RevisionsAreReviewed'
<1> USE LifecycleAssumption
<1>a. [Next]_vars
  BY StepImplements
<1>b. TypeOK /\ FreeIsBlank
  BY DEF IInv
<1> SUFFICES ASSUME NEW x \in Exec
             PROVE  /\ phase'[x] \in {"free", "triage"} => pass'[x] = 0
                    /\ phase'[x] \in {"await", "rejected"} =>
                         pass'[x] <= retry'[job'[x]] /\ pass'[x] < MaxReviewFailures
                    /\ phase'[x] = "review" => pass'[x] <= retry'[job'[x]] + 1
                    /\ phase'[x] = "accepting" => pass'[x] > 0
  BY DEF PassIsPaid, RevisionsAreReviewed
<1>c. pass[x] \in Nat
  BY DEF DetailTypeOK
<1>d. phase[x] # "free" => /\ job[x] \in Swo
                           /\ retry[job[x]] \in Nat /\ retry'[job[x]] \in Nat
                           /\ retry[job[x]] <= retry'[job[x]]
  BY <1>a, <1>b, RetryNeverFalls DEF FreeIsBlank
<1>1. CASE Stands(x)
  BY <1>1, <1>c, <1>d DEF Stands, PassIsPaid, RevisionsAreReviewed
<1>2. ASSUME NEW m, StartedFor(x, m)
      PROVE  phase'[x] = "triage" /\ pass'[x] = 0
  BY <1>2 DEF StartedFor, PassIsPaid
<1>3. CASE HsmStep(x) /\ OwnMove(x)
  <2>1. PassMove(x)
    BY <1>3, <1>b, LoopPasses
  <2>2. job'[x] = job[x] /\ phase[x] # "free" /\ phase'[x] # "free"
    BY <1>3 DEF OwnMove, LivePhase
  <2>3. phase'[x] = "triage" => pass'[x] = 0
    BY <1>3 DEF OwnMove, PassIsPaid
  <2>4. phase'[x] = "review" => pass'[x] <= retry'[job'[x]] + 1
    BY <2>1, <2>2, <1>c, <1>d DEF PassMove, PassIsPaid
  <2>5. phase'[x] \in {"await", "rejected"}
          => pass'[x] <= retry'[job'[x]] /\ pass'[x] < MaxReviewFailures
    <3> HAVE phase'[x] \in {"await", "rejected"}
    <3>1. CASE phase[x] \in {"triage", "await", "rejected"}
      BY <3>1, <2>1, <2>2, <1>c, <1>d DEF PassMove, PassIsPaid, RevisionsAreReviewed
    <3>2. CASE phase[x] = "review"
      BY <3>2, <2>1, <2>2, <1>c, <1>d DEF PassMove, PassIsPaid
    <3> QED BY <3>1, <3>2, <2>1 DEF PassMove
  <2>6. phase'[x] = "accepting" => pass'[x] > 0
    BY <2>1 DEF PassMove
  <2> QED BY <2>2, <2>3, <2>4, <2>5, <2>6
<1> QED BY <1>1, <1>2, <1>3, EachStandsOrMoves

-----------------------------------------------------------------------------
(* Who leaves children running. *)

\* Only a loop that awaits, or that ended with an error, has children still running.
NoneLeft ==
  \A e \in Exec :
    /\ phase[e] \notin {"await", "over"} => Back(e)
    /\ reply[e] \in Results => phase[e] = "over" /\ Back(e)
    /\ phase[e] = "free" => spawner[e] = NoExec

(* While it awaits nothing, nobody starts again what a loop spawned. *)
LEMMA BackKept ==
  ASSUME IInv, DetailTypeOK, [HsmNext]_hsmVars, NEW x \in Exec, Back(x)
  PROVE  Back(x)' \/ phase'[x] = "await"
<1> SUFFICES ASSUME NEW d \in Exec, spawner'[d] = x, phase'[x] # "await"
             PROVE  ~(phase'[d] \in LivePhase)
  BY DEF Back, Children, Live
<1>1. spawner[d] = x => ~(phase[d] \in LivePhase)
  BY DEF Back, Children, Live
<1>2. x # NoExec
  BY LifecycleAssumption DEF Exec, NoExec
<1>3. CASE Stands(d)
  BY <1>1, <1>3 DEF Stands
<1>4. CASE OwnMove(d)
  BY <1>1, <1>4 DEF OwnMove
<1> QED
  BY <1>2, <1>3, <1>4, EachStandsOrMoves DEF StartedFor

(* A step leaves no more children behind than NoneLeft allows. *)
LEMMA NoneLeftKept ==
  ASSUME IInv, DetailTypeOK, NoneLeft, [HsmNext]_hsmVars
  PROVE  NoneLeft'
<1> SUFFICES ASSUME NEW x \in Exec
             PROVE  /\ phase'[x] \notin {"await", "over"} => Back(x)'
                    /\ reply'[x] \in Results => phase'[x] = "over" /\ Back(x)'
                    /\ phase'[x] = "free" => spawner'[x] = NoExec
  BY DEF NoneLeft
<1>b. Back(x) => Back(x)' \/ phase'[x] = "await"
  BY BackKept
<1>1. CASE Stands(x)
  BY <1>1, <1>b DEF Stands, NoneLeft
<1>2. ASSUME NEW m, StartedFor(x, m)
      PROVE  phase'[x] = "triage" /\ Back(x)' /\ reply'[x] \notin Results
  BY <1>2, <1>b DEF StartedFor, NoneLeft
<1>3. CASE OwnMove(x)
  <2>1. phase[x] # "over" /\ reply[x] \notin Results /\ phase'[x] # "free"
    BY <1>3 DEF OwnMove, NoneLeft, LivePhase
  <2>2. phase'[x] \notin {"await", "over"} => Back(x)
    BY <1>3, <2>1 DEF OwnMove, NoneLeft
  <2>3. reply'[x] \in Results => phase'[x] = "over" /\ Back(x)
    BY <1>3, <2>1 DEF OwnMove, NoneLeft
  <2> QED BY <1>b, <2>1, <2>2, <2>3
<1> QED BY <1>1, <1>2, <1>3, EachStandsOrMoves

-----------------------------------------------------------------------------
(* What is accepted. *)

\* Executions have rows.
JobHasRow ==
  \A e \in Exec : phase[e] # "free" => job[e] \in Swo /\ status[job[e]] # "ABSENT"

\* From its first pass on, a loop's delegated children are back and approved.
Vetted ==
  \A e \in Exec : pass[e] > 0 =>
    \A d \in Children(e) :
      origin[job[d]] = "delegated" => phase[d] = "over" /\ reply[d] # "unmarked"

(* Rows do not vanish. *)
LEMMA RowsStay ==
  ASSUME IInv, [Next]_vars, NEW s \in Swo, status[s] # "ABSENT"
  PROVE  status'[s] # "ABSENT"
<1>1. CASE Quiet
  BY <1>1 DEF Quiet, Onward
<1>2. ASSUME NEW t \in Swo, NEW e \in Exec, Taken(t, e) PROVE status'[s] # "ABSENT"
  BY <1>2 DEF Taken, ClaimSwo, IInv, TypeOK, StoreTypeOK
<1> QED BY <1>1, <1>2, StepIsQuietOrTakes

(* Executions keep their rows. *)
LEMMA JobsKept ==
  ASSUME IInv, DetailTypeOK, JobHasRow, [HsmNext]_hsmVars
  PROVE  JobHasRow'
<1> SUFFICES ASSUME NEW x \in Exec, phase'[x] # "free"
             PROVE  job'[x] \in Swo /\ status'[job'[x]] # "ABSENT"
  BY DEF JobHasRow
<1>1. CASE phase[x] # "free" /\ job'[x] = job[x]
  BY <1>1, StepImplements, RowsStay DEF JobHasRow
<1> QED
  BY <1>1, EachStandsOrMoves DEF Stands, StartedFor, OwnMove, LivePhase

(* A row is given its origin when it is created. *)
LEMMA OriginsStay ==
  ASSUME IInv, DetailTypeOK, [HsmNext]_hsmVars, NEW s \in Swo, status[s] # "ABSENT"
  PROVE  origin'[s] = origin[s]
<1> TypeOK
  BY DEF IInv
<1>1. ASSUME NEW e \in Exec, HsmStep(e) PROVE origin'[s] = origin[s]
  <2>1. ASSUME NEW t \in Swo, NEW d \in Exec, Spawns(e, t, d) PROVE origin'[s] = origin[s]
    BY <2>1, SpawnStarts DEF Spawns, DispatchInline, Delegate, Revise, DetailTypeOK
  <2>2. CASE ~(\E t \in Swo, d \in Exec : Spawns(e, t, d))
    BY <1>1, <2>2
    DEF HsmStep, Spawns, AnswerDelegates, AnswerDirectly, Reject, ReturnAnswer,
        ReturnAccepted, AnswerFails, CloseAnswered, SkipInline, BlockLoop, GiveError,
        Synthesize, CountBlocked, Accept, ReviewFails, RejectForGood, CloseFailed,
        Replies, detail
  <2> QED BY <2>1, <2>2
<1> QED BY <1>1 DEF HsmNext, hsmVars, detail

(* Only a synthesis begins a pass, when the delegation's children are back and fit. *)
LEMMA OnlySynthesisPasses ==
  ASSUME DetailTypeOK, NEW e \in Exec, HsmStep(e), pass'[e] # pass[e]
  PROVE  Back(e) /\ ~Blocked(e)
<1> USE DEF Replies, detail
<1>1. ASSUME NEW t, AnswerDelegates(e, t) \/ AnswerDirectly(e, t) \/ Reject(e, t)
      PROVE  FALSE
  BY <1>1 DEF AnswerDelegates, AnswerDirectly, Reject
<1>2. ASSUME NEW s, NEW d, DispatchInline(e, s, d) \/ Delegate(e, s, d) \/ Revise(e, s, d)
      PROVE  FALSE
  BY <1>2 DEF DispatchInline, Delegate, Revise
<1>3. ASSUME NEW r, ReturnAnswer(e, r) \/ ReturnAccepted(e, r) PROVE FALSE
  BY <1>3 DEF ReturnAnswer, ReturnAccepted
<1>4. Synthesize(e)
  BY <1>1, <1>2, <1>3
  DEF HsmStep, AnswerFails, CloseAnswered, SkipInline, BlockLoop, GiveError,
      CountBlocked, Accept, ReviewFails, RejectForGood, CloseFailed
<1> QED BY <1>4 DEF Synthesize, ChildrenReturned

(* What was found fit stays fit: it is over. *)
LEMMA VettingKept ==
  ASSUME IInv, DetailTypeOK, NoneLeft, JobHasRow, Vetted, [HsmNext]_hsmVars
  PROVE  Vetted'
<1> SUFFICES ASSUME NEW x \in Exec, NEW d \in Exec,
                    pass'[x] > 0, spawner'[d] = x, origin'[job'[d]] = "delegated"
             PROVE  phase'[d] = "over" /\ reply'[d] # "unmarked"
  BY DEF Vetted, Children
<1>a. TypeOK
  BY DEF IInv
<1>b. pass[x] \in Nat /\ pass'[x] \in Nat
  BY DetailTypesKept DEF DetailTypeOK
<1>c. x # NoExec
  BY LifecycleAssumption DEF Exec, NoExec
<1>1. ASSUME spawner[d] = x, job'[d] = job[d]
      PROVE  phase[d] = "over" /\ reply[d] # "unmarked"
  <2>1. phase[d] # "free" /\ origin[job[d]] = "delegated"
    BY <1>1, <1>c, OriginsStay DEF NoneLeft, JobHasRow
  <2>2. CASE pass[x] > 0
    BY <1>1, <2>1, <2>2 DEF Vetted, Children
  <2>3. CASE pass[x] = 0
    <3>1. HsmStep(x)
      BY <1>b, <2>3, EachStandsOrMoves DEF Stands, StartedFor
    <3>2. Back(x) /\ ~Blocked(x)
      BY <3>1, <1>b, <2>3, OnlySynthesisPasses
    <3> QED
      BY <1>1, <2>1, <2>3, <3>2, <1>a DEF Back, Blocked, Children, Live, TypeOK, Phase
  <2> QED BY <1>b, <2>2, <2>3
<1>2. CASE Stands(d)
  BY <1>1, <1>2 DEF Stands
<1>3. CASE OwnMove(d)
  BY <1>1, <1>3 DEF OwnMove, LivePhase
<1>4. ASSUME NEW e \in Exec \ {d}, NEW s \in Swo, HsmStep(e), Spawns(e, s, d),
             StartedFor(d, e), phase'[e] = "await"
      PROVE  FALSE
  <2>1. e = x
    BY <1>4 DEF StartedFor
  <2>2. pass[x] > 0
    BY <1>4, <2>1 DEF Spawns, DispatchInline, Delegate, Revise
  <2>3. job'[d] = s
    BY <1>4, <1>a, SpawnStarts
  <2>4. origin'[s] # "delegated"
    BY <1>4, <2>1, <2>2 DEF Spawns, DispatchInline, Delegate, Revise, Revising, DetailTypeOK
  <2> QED BY <2>3, <2>4
<1> QED
  BY <1>2, <1>3, <1>4, <1>c, EachStandsOrMoves DEF StartedFor

-----------------------------------------------------------------------------
(* The inductive invariant of the opened loop, beside that of the life cycle. *)
HsmIInv ==
  /\ DetailTypeOK /\ PassIsPaid /\ RevisionsAreReviewed
  /\ NoneLeft /\ JobHasRow /\ Vetted

(* It holds of every behaviour. *)
THEOREM HsmInductive == HsmSpec => []HsmIInv
<1>1. HsmInit => HsmIInv
  <2> SUFFICES ASSUME HsmInit PROVE HsmIInv
    OBVIOUS
  <2>1. DetailTypeOK
    BY EmptySeq DEF HsmInit, DetailTypeOK, Origin, Reply
  <2>2. PassIsPaid /\ RevisionsAreReviewed /\ JobHasRow
    BY LifecycleAssumption
    DEF HsmInit, Init, StoreInit, PassIsPaid, RevisionsAreReviewed, JobHasRow, Vetted
  <2>3. NoneLeft /\ Vetted
    BY DEF HsmInit, Init, NoneLeft, Vetted, Back, Children, Live, LivePhase, Results, Exec
  <2> QED BY <2>1, <2>2, <2>3 DEF HsmIInv
<1>2. IInv /\ HsmIInv /\ [HsmNext]_hsmVars => HsmIInv'
  BY DetailTypesKept, PassesKept, NoneLeftKept, JobsKept, VettingKept DEF HsmIInv
<1>3. HsmSpec => []IInv
  BY LifecycleImplemented, Inductive, PTL
<1> QED BY <1>1, <1>2, <1>3, PTL DEF HsmSpec

(* A revision dispatched is a revision reviewed, for every ceiling and every history of
   resets. *)
THEOREM RevisionsAreAlwaysReviewed == HsmSpec => []RevisionsAreReviewed
<1>1. HsmIInv => RevisionsAreReviewed
  BY DEF HsmIInv
<1> QED BY <1>1, HsmInductive, PTL

(* No loop answers with a result before the children it awaits are back. *)
THEOREM AnswersComeAfterChildren == HsmSpec => []AnswersAfterChildren
<1>1. HsmIInv => AnswersAfterChildren
  BY DEF HsmIInv, NoneLeft, AnswersAfterChildren, Back, Results
<1> QED BY <1>1, HsmInductive, PTL

(* What a manager accepts it has had approved by result_is_reportable_upward. *)
THEOREM OnlyReportableIsAccepted == HsmSpec => []AcceptsOnlyReportable
<1>1. HsmIInv => AcceptsOnlyReportable
  <2> SUFFICES ASSUME HsmIInv, NEW e \in Exec, phase[e] = "accepting"
               PROVE  pass[e] > 0
    BY DEF AcceptsOnlyReportable, HsmIInv, Vetted
  <2> QED BY DEF HsmIInv, PassIsPaid
<1> QED BY <1>1, HsmInductive, PTL

-----------------------------------------------------------------------------
\* A delegated row exists, and nobody above it has its assignee.
Descends(s) ==
  s \in Rows /\ assigned[s] \notin {assigned[t] : t \in Ancestors[s]}
DelegatedDown == \A s \in Swo : origin[s] = "delegated" => Descends(s)

(* A delegation looks at the lineage of its loop's row, which is the lineage of the
   row it creates. *)
LEMMA DelegationDescends ==
  ASSUME IInv, DetailTypeOK, FamilyInv, HoldersInv, [Next]_vars,
         NEW e \in Exec, NEW s \in Swo, NEW d \in Exec, Delegate(e, s, d)
  PROVE  Descends(s)'
<1> TypeOK
  BY DEF IInv
<1> DEFINE a == Head(todo[e])
<1>0. phase[e] # "free" /\ job[e] \in Rows /\ job[e] \in Swo
  BY DEF Delegate, Spawning, HoldersInv, Rows
<1>1. CreateSwo(s, a, job[e], "IN_PROGRESS") /\ a \notin LineageAgents(job[e])
  BY DEF Delegate, SpawnChild, InLineage
<1>2. assigned'[s] = a /\ parent'[s] = job[e] /\ s \in Rows' /\ job[e] < s
  <2>1. s \notin Rows /\ \A t \in Swo : t < s => t \in Rows
    BY <1>1 DEF CreateSwo, Rows
  <2>2. job[e] < s
    <3>1. job[e] # s /\ ~ (s < job[e])
      BY <1>0, <2>1 DEF FamilyInv
    <3> QED BY <3>1, <1>0, StoreAssumption DEF Swo
  <2> QED BY <1>1, <2>2 DEF CreateSwo, Rows, TypeOK, StoreTypeOK
<1>3. Ancestors'[s] = {job[e]} \cup Ancestors[job[e]]
  <2>1. Ancestors'[s] = {job[e]} \cup Ancestors'[job[e]]
    BY <1>0, <1>2, AncestorsAreByParent DEF Above, Climbs
  <2> QED BY <2>1, <1>0, LineageStays
<1>4. \A t \in {job[e]} \cup Ancestors[job[e]] : assigned'[t] = assigned[t]
  BY <1>0, AncestorsAreRows, LineageStays
<1> QED BY <1>1, <1>2, <1>3, <1>4 DEF Descends, LineageAgents

(* No other step makes a delegated row, and rows keep their lineage. *)
LEMMA DelegatedKept ==
  ASSUME IInv, DetailTypeOK, FamilyInv, HoldersInv, DelegatedDown, [HsmNext]_hsmVars
  PROVE  DelegatedDown'
<1> TypeOK
  BY DEF IInv
<1>0. [Next]_vars
  BY StepImplements
<1>1. ASSUME NEW s \in Swo, Descends(s) PROVE Descends(s)'
  <2>1. s \in Rows' /\ Ancestors'[s] = Ancestors[s] /\ Ancestors[s] \subseteq Rows
    BY <1>0, <1>1, LineageStays, AncestorsAreRows DEF Descends
  <2>2. \A t \in Ancestors[s] \cup {s} : assigned'[t] = assigned[t]
    BY <1>0, <1>1, <2>1, LineageStays DEF Descends
  <2> QED BY <1>1, <2>1, <2>2 DEF Descends
<1>2. ASSUME origin' = origin PROVE DelegatedDown'
  BY <1>1, <1>2 DEF DelegatedDown
<1>3. ASSUME NEW e \in Exec, HsmStep(e) PROVE DelegatedDown'
  <2>1. ASSUME NEW s \in Swo, NEW d \in Exec, Delegate(e, s, d) PROVE DelegatedDown'
    <3>1. \A t \in Swo \ {s} : origin'[t] = origin[t]
      BY <2>1 DEF Delegate, DetailTypeOK
    <3>2. Descends(s)'
      BY <1>0, <2>1, DelegationDescends
    <3> QED BY <3>1, <3>2, <1>1 DEF DelegatedDown
  <2>2. ASSUME NEW s \in Swo, NEW d \in Exec, DispatchInline(e, s, d) \/ Revise(e, s, d)
        PROVE  DelegatedDown'
    <3>1. origin'[s] # "delegated" /\ \A t \in Swo \ {s} : origin'[t] = origin[t]
      BY <2>2 DEF DispatchInline, Revise, DetailTypeOK
    <3> QED BY <3>1, <1>1 DEF DelegatedDown
  <2>3. CASE ~(\E t \in Swo, d \in Exec : Spawns(e, t, d))
    <3>1. origin' = origin
      BY <1>3, <2>3
      DEF HsmStep, Spawns, AnswerDelegates, AnswerDirectly, Reject, ReturnAnswer,
          ReturnAccepted, AnswerFails, CloseAnswered, SkipInline, BlockLoop, GiveError,
          Synthesize, CountBlocked, Accept, ReviewFails, RejectForGood, CloseFailed,
          Replies, detail
    <3> QED BY <3>1, <1>2
  <2> QED BY <2>1, <2>2, <2>3 DEF Spawns
<1> QED BY <1>2, <1>3 DEF HsmNext, hsmVars, detail

(* No delegation, at any depth and however executions, resets and commands
   interleave, hands work to an agent that already stands above it. *)
THEOREM DelegationsDescend == HsmSpec => []DelegationIsAcyclic
<1>1. HsmInit => DelegatedDown
  BY DEF HsmInit, DelegatedDown
<1>2. HsmSpec => []IInv /\ [](FamilyInv /\ HoldersInv)
  BY LifecycleImplemented, Inductive, FamilyInductive, PTL
<1>3. HsmIInv => DetailTypeOK
  BY DEF HsmIInv
<1>4. IInv /\ DetailTypeOK /\ FamilyInv /\ HoldersInv /\ DelegatedDown /\ [HsmNext]_hsmVars
        => DelegatedDown'
  BY DelegatedKept
<1>5. DelegatedDown => DelegationIsAcyclic
  BY DEF DelegatedDown, Descends, DelegationIsAcyclic
<1> QED BY <1>1, <1>2, <1>3, <1>4, <1>5, HsmInductive, PTL DEF HsmSpec
=============================================================================
