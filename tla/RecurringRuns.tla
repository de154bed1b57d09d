---------------------------- MODULE RecurringRuns ----------------------------
(***************************************************************************)
(* Recurring work orders: tables rwo_templates and rwo_runs of registry.rs *)
(* and the loop of orchestrator.rs that turns a due template into a work   *)
(* order.  A materialization is a task of its own and takes the registry's *)
(* lock anew for every call, so it is one action per call here; the loop's *)
(* task and the one of a manual trigger run the same code.                 *)
(*                                                                         *)
(* Time is counted in units of the schedule: NextRunAt keeps what          *)
(* ScheduleTime shows of compute_next_recurring_run_at, an instant         *)
(* strictly after the one given.  Left out are the columns that copy the   *)
(* state of a run's SWO, with the sync that refreshes them, and the        *)
(* attachments an order takes over from the previous run.                  *)
(***************************************************************************)
EXTENDS Integers, Sequences, FiniteSets

CONSTANTS
  Template,    \* ids of rwo_templates
  FirstRunAt,  \* next_run_at a template is created with, or NoTime
  RunTask,     \* bound: materializations under way at once
  Period,      \* the schedule's interval
  MaxClock,    \* bound: the clock
  MaxRuns,     \* bound: work orders created
  MaxManual,   \* bound: manual triggers
  MaxFaults    \* bound: database errors and process crashes

ASSUME RecurringAssumption ==
  /\ Template # {}
  /\ {Period, MaxClock, MaxRuns} \subseteq Nat \ {0}
  /\ {MaxManual, MaxFaults, FirstRunAt} \subseteq Nat

NoTime == 0                       \* next_run_at NULL
Order == 1 .. MaxRuns             \* ids of the SWOs, and of their runs
NoOrder == 0

(* HELD: IN_PROGRESS for a materialization that has not spawned its loop yet.
   TAKEN: whatever follows, or another took it (cron loop, operator). *)
OrderStatus == {"ABSENT", "PENDING", "HELD", "TAKEN"}

VARIABLES
  clock,     \* the time
  nextRun,   \* next_run_at of each template; its status stays ACTIVE
  order,     \* status of each SWO a materialization created
  runs,      \* table rwo_runs, in the order of insertion
  task,      \* the materializations
  inFlight,  \* in_flight of start_recurring_work_order_loop
  due,       \* what is left of the list of due templates
  manuals,   \* how many manual triggers there were
  faults,    \* how many faults there were
  excuse     \* history: why a slot of a template may be taken twice

recVars == <<clock, nextRun, order, runs, task, inFlight,
             due, manuals, faults, excuse>>
recRows == <<nextRun, order, runs>>

TaskStep == {"free", "read", "number", "create", "claim", "record", "advance", "end"}
NoTask == [at |-> "free", of |-> CHOOSE t \in Template : TRUE, manual |-> FALSE,
         slot |-> NoTime, number |-> 0, seen |-> 0, order |-> NoOrder, won |-> FALSE]

RecurringTypeOK ==
  /\ clock \in 0 .. MaxClock
  /\ nextRun \in [Template -> Nat]
  /\ order \in [Order -> OrderStatus]
  /\ runs \in Seq([of : Template, order : Order, number : Nat \ {0}, manual : BOOLEAN,
                   slot : Nat, seen : Nat])
  /\ task \in [RunTask -> [at : TaskStep, of : Template, manual : BOOLEAN, slot : Nat, number : Nat,
                        seen : Nat, order : Order \cup {NoOrder}, won : BOOLEAN]]
  /\ inFlight \in SUBSET Template
  /\ due \in SUBSET Template
  /\ manuals \in Nat /\ faults \in Nat
  /\ excuse \in [Template -> SUBSET {"reverted", "stale", "fault"}]

RecurringInit ==
  /\ clock = 0
  /\ nextRun = [t \in Template |-> FirstRunAt]
  /\ order = [s \in Order |-> "ABSENT"]
  /\ runs = <<>>
  /\ task = [m \in RunTask |-> NoTask]
  /\ inFlight = {}
  /\ due = {}
  /\ manuals = 0 /\ faults = 0
  /\ excuse = [t \in Template |-> {}]

-----------------------------------------------------------------------------
(* compute_next_recurring_run_at: the first instant of the schedule after a
   time. *)
MutNextRunAt(time) == ((time + Period - 1) \div Period) * Period
NextRunAt(time) == (time \div Period + 1) * Period

IsDue(t) == nextRun[t] # NoTime /\ nextRun[t] <= clock

RunsOf(t) == {i \in DOMAIN runs : runs[i].of = t}

(* next_recurring_run_number: COALESCE(MAX(run_number), 0) + 1. *)
MutNextNumber(t) ==
  1 + Cardinality({i \in RunsOf(t) : order[runs[i].order] = "TAKEN"})
NextNumber(t) ==
  CHOOSE n \in 1 .. Len(runs) + 1 :
    /\ \A i \in RunsOf(t) : runs[i].number < n
    /\ n = 1 \/ \E i \in RunsOf(t) : runs[i].number = n - 1

-----------------------------------------------------------------------------
(* The loop of start_recurring_work_order_loop.  The list of due templates is
   read once per tick. *)
DueTick ==
  /\ due = {}
  /\ due' = {t \in Template : IsDue(t)}
  /\ UNCHANGED <<clock, recRows, task, inFlight, manuals, faults, excuse>>

(* Free slots are alike: a new task gets one of them. *)
Begin(m, t, manual) ==
  /\ m = CHOOSE f \in RunTask : task[f].at = "free"
  /\ task' = [task EXCEPT ![m] = [NoTask EXCEPT !.at = "read", !.of = t, !.manual = manual]]

(* One template of the list: skipped while its materialization is in flight. *)
SkipDue(t) ==
  /\ t \in due /\ t \in inFlight
  /\ due' = due \ {t}
  /\ UNCHANGED <<clock, recRows, task, inFlight, manuals, faults, excuse>>

SpawnTask(m, t) ==
  /\ task[m].at = "free" /\ t \in due /\ t \notin inFlight
  /\ due' = due \ {t}
  /\ inFlight' = inFlight \cup {t}
  /\ Begin(m, t, FALSE)
  /\ excuse' = IF IsDue(t) THEN excuse ELSE [excuse EXCEPT ![t] = @ \cup {"stale"}]
  /\ UNCHANGED <<clock, recRows, manuals, faults>>

(* recurring_template_trigger, trigger_recurring_template_now. *)
TriggerNow(m, t) ==
  /\ task[m].at = "free" /\ manuals < MaxManual
  /\ manuals' = manuals + 1
  /\ Begin(m, t, TRUE)
  /\ UNCHANGED <<clock, recRows, inFlight, due, faults, excuse>>

-----------------------------------------------------------------------------
(* materialize_recurring_template_run, call by call. *)
TaskAt(m, here) == task[m].at = here
Of(m) == task[m].of

ReadTemplate(m) ==
  /\ TaskAt(m, "read")
  /\ task' = [task EXCEPT ![m].at = "number", ![m].slot = nextRun[Of(m)]]
  /\ UNCHANGED <<clock, recRows, inFlight, due, manuals, faults, excuse>>

ReadNumber(m) ==
  /\ TaskAt(m, "number")
  /\ task' = [task EXCEPT ![m].at = "create", ![m].number = NextNumber(Of(m)), ![m].seen = Len(runs)]
  /\ UNCHANGED <<clock, recRows, inFlight, due, manuals, faults, excuse>>

CreateOrder(m) ==
  /\ TaskAt(m, "create")
  /\ \E s \in Order :
       /\ order[s] = "ABSENT" /\ \A u \in Order : u < s => order[u] # "ABSENT"
       /\ order' = [order EXCEPT ![s] = "PENDING"]
       /\ task' = [task EXCEPT ![m].order = s, ![m].at = "claim"]
  /\ UNCHANGED <<clock, nextRun, runs, inFlight, due, manuals, faults, excuse>>

(* claim_swo_with_run_id: lost when the cron loop or the operator was first. *)
Wins(s) == order[s] = "PENDING"

ClaimOrder(m) ==
  LET s == task[m].order IN
  /\ TaskAt(m, "claim")
  /\ task' = [task EXCEPT ![m].at = "record", ![m].won = Wins(s)]
  /\ order' = IF Wins(s) THEN [order EXCEPT ![s] = "HELD"] ELSE order
  /\ UNCHANGED <<clock, nextRun, runs, inFlight, due, manuals, faults, excuse>>

RecordRun(m) ==
  /\ TaskAt(m, "record")
  /\ runs' = Append(runs, [of |-> Of(m), order |-> task[m].order, number |-> task[m].number,
                           manual |-> task[m].manual, slot |-> task[m].slot, seen |-> task[m].seen])
  /\ task' = [task EXCEPT ![m].at = "advance"]
  /\ UNCHANGED <<clock, nextRun, order, inFlight, due, manuals, faults, excuse>>

(* update_recurring_template: a scheduled run advances next_run_at, a manual
   one writes back what it read. *)
Advanced(m) == IF task[m].manual THEN task[m].slot ELSE NextRunAt(clock)

AdvanceTemplate(m) ==
  /\ TaskAt(m, "advance")
  /\ nextRun' = [nextRun EXCEPT ![Of(m)] = Advanced(m)]
  /\ task' = [task EXCEPT ![m].at = "end"]
  /\ excuse' = IF task[m].manual /\ task[m].slot # nextRun[Of(m)]
               THEN [excuse EXCEPT ![Of(m)] = @ \cup {"reverted"}] ELSE excuse
  /\ UNCHANGED <<clock, order, runs, inFlight, due, manuals, faults>>

MutCleared(m) == inFlight
Cleared(m) == IF task[m].manual THEN inFlight ELSE inFlight \ {Of(m)}

MutLaunched(m) == order
Launched(m) == IF task[m].won /\ order[task[m].order] = "HELD"
               THEN [order EXCEPT ![task[m].order] = "TAKEN"] ELSE order

(* The loop over the SWO is spawned, and the template leaves in_flight. *)
EndTask(m) ==
  /\ TaskAt(m, "end")
  /\ order' = Launched(m)
  /\ inFlight' = Cleared(m)
  /\ task' = [task EXCEPT ![m] = NoTask]
  /\ UNCHANGED <<clock, nextRun, runs, due, manuals, faults, excuse>>

(* A call of the registry fails: the materialization returns its error, and
   what it wrote stays. *)
FailTask(m) ==
  /\ faults < MaxFaults /\ task[m].at \notin {"free", "end"}
  /\ faults' = faults + 1
  /\ inFlight' = Cleared(m)
  /\ task' = [task EXCEPT ![m] = NoTask]
  /\ excuse' = [excuse EXCEPT ![Of(m)] = @ \cup {"fault"}]
  /\ UNCHANGED <<clock, recRows, due, manuals>>

-----------------------------------------------------------------------------
(* Environment. *)
Advance ==
  /\ clock < MaxClock
  /\ clock' = clock + 1
  /\ UNCHANGED <<recRows, task, inFlight, due, manuals, faults, excuse>>

(* The cron loop claims a pending order, or the operator cancels it; told
   apart only while a materialization has yet to claim it. *)
OthersTake(s) ==
  /\ order[s] = "PENDING" /\ \E m \in RunTask : task[m].order = s
  /\ order' = [order EXCEPT ![s] = "TAKEN"]
  /\ UNCHANGED <<clock, nextRun, runs, task, inFlight, due, manuals, faults, excuse>>

(* The process dies and starts again; the reaper re-queues or fails what it
   finds in progress, unless a missing heartbeat hides it. *)
Crash ==
  /\ faults < MaxFaults
  /\ faults' = faults + 1
  /\ task' = [m \in RunTask |-> NoTask]
  /\ inFlight' = {} /\ due' = {}
  /\ \E reaped \in SUBSET {s \in Order : order[s] = "HELD"} :
       order' = [s \in Order |-> IF s \in reaped THEN "TAKEN" ELSE order[s]]
  /\ excuse' = [t \in Template |-> IF \E m \in RunTask : task[m].at # "free" /\ Of(m) = t
                                   THEN excuse[t] \cup {"fault"} ELSE excuse[t]]
  /\ UNCHANGED <<clock, nextRun, runs, manuals>>

Materialize(m) ==
  \/ ReadTemplate(m) \/ ReadNumber(m) \/ CreateOrder(m) \/ ClaimOrder(m)
  \/ RecordRun(m) \/ AdvanceTemplate(m) \/ EndTask(m)

WalkDue(t) == SkipDue(t) \/ \E m \in RunTask : SpawnTask(m, t)

RecurringNext ==
  \/ DueTick \/ Advance \/ Crash
  \/ \E t \in Template : WalkDue(t) \/ \E m \in RunTask : TriggerNow(m, t)
  \/ \E m \in RunTask : Materialize(m) \/ FailTask(m)
  \/ \E s \in Order : OthersTake(s)

RecurringSpec == RecurringInit /\ [][RecurringNext]_recVars

(* The timer ticks, spawned tasks run, the loop walks its list, time passes. *)
RecurringFairness ==
  /\ WF_recVars(DueTick) /\ WF_recVars(Advance)
  /\ \A t \in Template : WF_recVars(WalkDue(t))
  /\ \A m \in RunTask : WF_recVars(Materialize(m))

RecurringFairSpec == RecurringSpec /\ RecurringFairness

-----------------------------------------------------------------------------
(* Properties. *)

(* next_recurring_run_number and create_recurring_run are separate calls: a
   run's number exceeds that of every earlier run of its template but those
   recorded after the number was read, so numbers clash only in an overlap. *)
NumbersClashOnlyInOverlap ==
  \A i, j \in DOMAIN runs :
    (runs[i].of = runs[j].of /\ i <= runs[j].seen) => runs[i].number < runs[j].number

(* One slot of a schedule gives one scheduled run, except after a manual
   trigger that wrote back an older next_run_at, a walk over a list that had
   gone stale, or a fault between the run's row and the advance. *)
SlotTakenOnce ==
  \A i, j \in DOMAIN runs :
    (/\ i # j /\ runs[i].of = runs[j].of /\ runs[i].slot = runs[j].slot
     /\ ~runs[i].manual /\ ~runs[j].manual)
    => excuse[runs[i].of] # {}

(* A claimed order is executed, or about to be: the claim and the spawn are
   five calls apart, and only a fault between them leaves it to nobody. *)
ClaimedIsExecuted ==
  \A s \in Order :
    order[s] = "HELD" =>
      \/ \E m \in RunTask : task[m].order = s /\ task[m].won
      \/ faults > 0

(* A due template does not wait for ever: in_flight is cleared on every way
   out, so that some later tick advances it. *)
DueIsServed == \A t \in Template : IsDue(t) ~> ~IsDue(t)

=============================================================================
