--------------------------- MODULE HsmDelegation ---------------------------
(***************************************************************************)
(* execute_hsm_loop_with_context, opened: how one loop decides, delegates, *)
(* awaits, reviews, revises and answers its manager.  Every step of it is  *)
(* a step of SwoLifecycle with the reason for it added, so that whatever   *)
(* holds of the life cycle holds here.                                     *)
(*                                                                         *)
(* What a worker answers is left open: any action, any target.  So are the *)
(* gates that read only the worker's words or an agent's profile (no final *)
(* response, hard-route contract, manager policy): each is one more way    *)
(* for the step at hand to end in FAILED.                                  *)
(***************************************************************************)
EXTENDS SwoLifecycle, Sequences

CONSTANTS
  Reports,      \* get_subordinates of each agent
  MaxTargets,   \* bound: SWOs a worker asks for in one answer
  MaxRoots      \* bound: work orders submitted

ASSUME DelegationAssumption ==
  /\ Reports \in [Agent -> SUBSET Agent]
  /\ MaxTargets \in Nat \ {0} /\ MaxRoots \in Nat

VARIABLES
  todo,     \* agents a loop has still to spawn a child for, from its worker's answer
  pass,     \* synthesis passes a loop has begun; 0 until its children's first review
  reply,    \* what a loop's task returned to who awaits it
  origin    \* history: which branch of a loop created a row, if one did

detail == <<todo, pass, reply, origin>>

\* Ok and fit for upward synthesis; Ok, but naming no action, hence not fit; Ok with
\* terminal_status CLOSED_FAILED, which is fit; Err.
Reply == {"ok", "unmarked", "closed", "error"}
Origin == {"other", "delegated", "revision", "inline"}

Targets == UNION {[1 .. n -> Agent] : n \in 0 .. MaxTargets}

DetailTypeOK ==
  /\ todo \in [Exec -> Seq(Agent)]
  /\ pass \in [Exec -> Nat]
  /\ reply \in [Exec -> Reply \cup {"none"}]
  /\ origin \in [Swo -> Origin]

HsmInit ==
  /\ Init
  /\ todo = [e \in Exec |-> <<>>] /\ pass = [e \in Exec |-> 0]
  /\ reply = [e \in Exec |-> "none"] /\ origin = [s \in Swo |-> "other"]

Replies(e, r) ==
  /\ reply' = [reply EXCEPT ![e] = r]
  /\ todo' = [todo EXCEPT ![e] = <<>>]
  /\ UNCHANGED <<pass, origin>>

Asks(e, targets) == todo' = [todo EXCEPT ![e] = targets]

\* The loop takes the next of its targets.
Rest(e) == Tail(todo[e])

-----------------------------------------------------------------------------
(* The first worker of a loop answers. *)

(* What a triage names is dropped unless it is a direct report: delegation_swos when
   the answer is read, dispatch_swos as they come in. *)
AllReports(e, targets) == \A i \in DOMAIN targets : targets[i] \in Reports[AgentOf(e)]

(* DELEGATE: delegation_swos, then dispatch_swos; a report may come up twice. *)
AnswerDelegates(e, targets) ==
  /\ phase[e] = "triage" /\ todo[e] = <<>> /\ targets # <<>> /\ AllReports(e, targets)
  /\ Asks(e, targets)
  /\ UNCHANGED <<vars, pass, reply, origin>>

(* ANSWER_DIRECTLY, past its gates; its dispatch_swos are kept for later. *)
AnswerDirectly(e, targets) ==
  /\ phase[e] = "triage" /\ todo[e] = <<>> /\ AllReports(e, targets)
  /\ Complete(e)
  /\ Asks(e, targets)
  /\ UNCHANGED <<pass, reply, origin>>

(* The worker fails or stalls, a gate refuses its answer, it delegates to nobody, or
   its action is unknown. *)
AnswerFails(e) ==
  /\ phase[e] = "triage" /\ todo[e] = <<>>
  /\ Fail(e)
  /\ Replies(e, "error")

-----------------------------------------------------------------------------
(* After a direct answer: descendants swept, then a child for each report named; a
   row that cannot be inserted is skipped. *)
CloseAnswered(e) ==
  /\ phase[e] = "closing"
  /\ CloseDescendants(e)
  /\ UNCHANGED detail

DispatchInline(e, s, d) ==
  /\ phase[e] = "dispatch" /\ todo[e] # <<>>
  /\ SpawnChild(e, s, Head(todo[e]), d)
  /\ Asks(e, Rest(e))
  /\ origin' = [origin EXCEPT ![s] = "inline"]
  /\ UNCHANGED <<pass, reply>>

SkipInline(e) ==
  /\ phase[e] = "dispatch" /\ todo[e] # <<>>
  /\ Asks(e, Rest(e))
  /\ UNCHANGED <<vars, pass, reply, origin>>

ReturnAnswer(e, r) ==
  /\ phase[e] = "dispatch" /\ todo[e] = <<>> /\ r \in {"ok", "unmarked"}
  /\ DispatchEnd(e)
  /\ Replies(e, r)

-----------------------------------------------------------------------------
(* Children.  The lineage is read once, before the first of them: parents and
   assignees of existing rows never change.  Revisions are compared
   neither with it nor with the reports. *)
MutInLineage(e, a) == a = AgentOf(e)
InLineage(e, a) == a \in LineageAgents(job[e])

Spawning(e) == todo[e] # <<>> /\ phase[e] \in {"triage", "await", "rejected"}
Revising(e) == pass[e] > 0

Delegate(e, s, d) ==
  /\ Spawning(e) /\ ~Revising(e) /\ ~InLineage(e, Head(todo[e]))
  /\ SpawnChild(e, s, Head(todo[e]), d)
  /\ Asks(e, Rest(e))
  /\ origin' = [origin EXCEPT ![s] = "delegated"]
  /\ UNCHANGED <<pass, reply>>

(* "Delegation loop blocked": the loop fails at once, and the children it has
   spawned already run on, with nobody awaiting them. *)
BlockLoop(e) ==
  /\ Spawning(e) /\ ~Revising(e) /\ InLineage(e, Head(todo[e]))
  /\ Fail(e)
  /\ Replies(e, "error")

Revise(e, s, d) ==
  /\ Spawning(e) /\ Revising(e)
  /\ SpawnChild(e, s, Head(todo[e]), d)
  /\ Asks(e, Rest(e))
  /\ origin' = [origin EXCEPT ![s] = "revision"]
  /\ UNCHANGED <<pass, reply>>

(* `?`: before the worker is started, or at a child's insert. *)
GiveError(e) ==
  /\ phase[e] = "triage" \/ Spawning(e)
  /\ Abandon(e)
  /\ Replies(e, "error")

-----------------------------------------------------------------------------
(* Awaiting and reviewing. *)
(* result_is_reportable_upward, asked of the children of the delegation only. *)
MutBlocked(e) == \A d \in Children(e) : reply[d] = "unmarked"
Blocked(e) == pass[e] = 0 /\ \E d \in Children(e) : reply[d] = "unmarked"

(* All children are back: the next synthesis pass, of at most MAX_REVIEW_FAILURES.
   (The exit after the last of them is never taken: see RevisionsAreReviewed.) *)
Synthesize(e) ==
  /\ todo[e] = <<>> /\ phase[e] = "rejected" => Revising(e)
  /\ ~Blocked(e) /\ pass[e] < MaxReviewFailures
  /\ ChildrenReturned(e)
  /\ pass' = [pass EXCEPT ![e] = @ + 1]
  /\ UNCHANGED <<todo, reply, origin>>

(* Children not approved: one more failure counted, then FAILED, with no synthesis.
   (phase "review" with pass 0 is the moment before the count.) *)
CountBlocked(e) ==
  /\ todo[e] = <<>> /\ pass[e] = 0
  /\ \/ phase[e] = "await" /\ Blocked(e) /\ ChildrenReturned(e)
     \/ RejectReview(e)
  /\ UNCHANGED detail

Accept(e) ==
  /\ phase[e] = "review" /\ Revising(e)
  /\ Complete(e)
  /\ UNCHANGED detail

ReturnAccepted(e, r) ==
  /\ phase[e] = "accepting" /\ r \in {"ok", "unmarked"}
  /\ CloseDescendants(e)
  /\ Replies(e, r)

(* The synthesis worker fails or accepts without a final response. *)
ReviewFails(e) ==
  /\ phase[e] = "review" /\ Revising(e)
  /\ Fail(e)
  /\ Replies(e, "error")

(* REJECT_AND_REVISE, with the revisions to make. *)
Reject(e, targets) ==
  /\ phase[e] = "review" /\ Revising(e)
  /\ RejectReview(e)
  /\ Asks(e, IF phase'[e] = "rejected" THEN targets ELSE <<>>)
  /\ UNCHANGED <<pass, reply, origin>>

(* No revision named: FAILED is written twice, and the reply will be an error. *)
RejectForGood(e) ==
  /\ todo[e] = <<>> /\ Revising(e)
  /\ GiveUp(e)
  /\ Replies(e, "error")

(* The last write of a loop that cannot go on: at the ceiling, after GiveUp, or
   with blocked children. *)
CloseFailed(e) ==
  /\ phase[e] = "failing" \/ (phase[e] = "rejected" /\ ~Revising(e))
  /\ Fail(e)
  /\ Replies(e, IF reply[e] = "none" /\ phase[e] = "failing" THEN "closed" ELSE "error")

-----------------------------------------------------------------------------
HsmStep(e) ==
  \/ \E t \in Targets : AnswerDelegates(e, t) \/ AnswerDirectly(e, t) \/ Reject(e, t)
  \/ \E s \in Swo, d \in Exec : DispatchInline(e, s, d) \/ Delegate(e, s, d) \/ Revise(e, s, d)
  \/ \E r \in Reply : ReturnAnswer(e, r) \/ ReturnAccepted(e, r)
  \/ AnswerFails(e) \/ CloseAnswered(e) \/ SkipInline(e) \/ BlockLoop(e) \/ GiveError(e)
  \/ Synthesize(e) \/ CountBlocked(e) \/ Accept(e) \/ ReviewFails(e)
  \/ RejectForGood(e) \/ CloseFailed(e)

(* Of all that SwoLifecycle lets happen around a loop, what a loop can notice: where
   it starts, with whatever parent the work order names, and a retry_count that the
   reconciler raises.  Bound: claimed workers send no heartbeat, so that only the rows
   of children go stale. *)
Roots == {s \in Rows : origin[s] = "other"}

SubmitRoot(h, s, a, p) == Cardinality(Roots) < MaxRoots /\ Submit(h, s, a, p)

Around ==
  \/ \E h \in Handler :
       \/ \E s \in Swo, a \in Agent, p \in Rows \cup {NoSwo} : SubmitRoot(h, s, a, p)
       \/ \E e \in Exec : OperatorClaim(h, e)
  \/ Reconciler

HsmNext == (\E e \in Exec : HsmStep(e)) \/ (Around /\ UNCHANGED detail)

hsmVars == <<vars, detail>>

HsmSpec == HsmInit /\ [][HsmNext]_hsmVars

(* Every task that can take a step takes one: tokio runs it, and a worker exits or is
   killed after WORKER_STALL_TIMEOUT. *)
HsmFairSpec == HsmSpec /\ \A e \in Exec : WF_hsmVars(HsmStep(e))

-----------------------------------------------------------------------------
(* Children are spawned, and revised, only while a pass is left to review them: the
   ceiling on retry_count, which reset and revision of the row raise too, always comes
   before the end of the synthesis loop (MAX_REVIEW_FAILURES in both places). *)
RevisionsAreReviewed ==
  \A e \in Exec : phase[e] \in {"await", "rejected"} => pass[e] < MaxReviewFailures

(* A loop that answers with a result, accepted or CLOSED_FAILED, leaves no child it
   should have awaited running; only an error may. *)
AnswersAfterChildren ==
  \A e \in Exec : reply[e] \in {"ok", "unmarked", "closed"}
                   => \A d \in Children(e) : ~Live(d)

(* What a manager accepts contains no result of its delegation that
   result_is_reportable_upward turned down. *)
AcceptsOnlyReportable ==
  \A e \in Exec : phase[e] = "accepting" =>
    \A d \in Children(e) : origin[job[d]] = "delegated" => reply[d] # "unmarked"

(* A row that a delegation created goes to an agent that none of its ancestors is
   assigned to, whoever spawned those. *)
DelegationIsAcyclic ==
  \A s \in Swo : origin[s] = "delegated"
                  => assigned[s] \notin {assigned[t] : t \in Ancestors[s]}

(* A loop has a child to spawn, and no row or execution is left for it: where the
   bounds of a run cut the tree off. *)
AtBound ==
  \E e \in Exec :
    /\ Spawning(e) \/ (phase[e] = "dispatch" /\ todo[e] # <<>>)
    /\ Rows = Swo \/ \A d \in Exec : phase[d] # "free"

(* No deadlock among managers and the children they await, whatever each of them ends
   with: a loop whose tree of work has an end returns.  The tree need not have one:
   a revision may name the manager or an ancestor of it, and begins with a retry_count
   of its own. *)
LoopsReturn == \A e \in Exec : Live(e) ~> (~Live(e) \/ AtBound)

-----------------------------------------------------------------------------
(* What the repository says and the code does not do. *)

(* ARCHITECTURE.md:63: "Lineage loops are blocked. An agent cannot end up in its own
   delegation chain." *)
LineageIsLoopFree ==
  \A s \in Swo : assigned[s] \notin {assigned[t] : t \in Ancestors[s]}

(* ARCHITECTURE.md:64: "a manager SWO cannot close until its children are accepted or
   terminally failed": a loop that writes a terminal status has created no row that
   is still open and being worked on. *)
ClosesAfterChildren ==
  [][\A e \in Exec :
       Live(e) /\ phase'[e] # phase[e]
       /\ status[job[e]] \notin Terminal /\ status'[job[e]] \in Terminal
       => \A d \in Exec : Live(d) /\ job[d] \notin Roots /\ parent[job[d]] = job[e]
                           => status[job[d]] \in Terminal]_hsmVars
=============================================================================
