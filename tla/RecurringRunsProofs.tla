------------------------- MODULE RecurringRunsProofs -------------------------
(***************************************************************************)
(* Theorems about recurring work orders: for any templates, tasks, manual  *)
(* triggers, faults and schedules that only move forward.  And about the   *)
(* schedules themselves: for any of them and any instant, by way of lemmas *)
(* on the calendar (its months follow one another and none is left out).   *)
(***************************************************************************)
EXTENDS RecurringRuns, ScheduleTime, Recursion, TLAPS

TaskOf == [at : TaskStep, of : Template, manual : BOOLEAN, slot : Nat, number : Nat,
           seen : Nat, order : Order \cup {NoOrder}, won : BOOLEAN]
RunOf == [of : Template, order : Order, number : Nat \ {0}, manual : BOOLEAN, slot : Nat, seen : Nat]

(* The next instant of a schedule is later. *)
LEMMA NextIsLater == ASSUME NEW n \in Nat PROVE NextRunAt(n) \in Nat /\ NextRunAt(n) > n
<1> DEFINE q == n \div Period
           r == n % Period
<1>1. Period \in Nat \ {0}
  BY RecurringAssumption
<1>2. q \in Nat /\ r \in 0..(Period - 1) /\ n = Period * q + r
  BY <1>1
<1>3. NextRunAt(n) = (q + 1) * Period
  BY DEF NextRunAt
<1> HIDE DEF q, r
<1>4. (q + 1) * Period = Period * q + Period
  BY <1>1, <1>2
<1>5. Period * q \in Nat
  BY <1>1, <1>2
<1> QED BY <1>1, <1>2, <1>3, <1>4, <1>5

Tasks == task \in [RunTask -> TaskOf]

(* What the calls of a materialization do to its record. *)
LEMMA FreeTask == NoTask \in TaskOf /\ NoTask.at = "free" /\ NoTask.won = FALSE /\ NoTask.order = NoOrder
<1>1. (CHOOSE t \in Template : TRUE) \in Template
  BY RecurringAssumption
<1> QED BY <1>1 DEF NoTask, TaskOf, TaskStep, NoTime, NoOrder

(* A task that begins has its template and trigger, and has won nothing. *)
LEMMA Begins ==
  ASSUME Tasks, NEW m \in RunTask, NEW t \in Template, NEW manual \in BOOLEAN, Begin(m, t, manual),
         task[m].at = "free"
  PROVE  /\ Tasks' /\ \A k \in RunTask \ {m} : task'[k] = task[k]
         /\ task'[m].at = "read" /\ task'[m].of = t /\ task'[m].manual = manual /\ task'[m].won = FALSE
<1>1. NoTask \in TaskOf /\ NoTask.won = FALSE /\ "read" \in TaskStep
  BY FreeTask DEF TaskStep
<1> DEFINE r == [NoTask EXCEPT !.at = "read", !.of = t, !.manual = manual]
<1>2. r \in TaskOf /\ r.at = "read" /\ r.of = t /\ r.manual = manual /\ r.won = FALSE
  BY <1>1 DEF TaskOf
<1>3. task' = [task EXCEPT ![m] = r]
  BY DEF Begin
<1> HIDE DEF r
<1> QED BY <1>2, <1>3 DEF Tasks

(* The slot is read with the template. *)
LEMMA Reads ==
  ASSUME Tasks, nextRun \in [Template -> Nat], NEW m \in RunTask, ReadTemplate(m)
  PROVE  /\ Tasks' /\ \A k \in RunTask \ {m} : task'[k] = task[k]
         /\ task'[m].at = "number" /\ task'[m].slot = nextRun[task[m].of]
         /\ task'[m].of = task[m].of /\ task'[m].manual = task[m].manual /\ task'[m].won = task[m].won
<1> DEFINE x == nextRun[task[m].of]
<1>1. task[m] \in TaskOf
  BY DEF Tasks
<1>2. x \in Nat /\ "number" \in TaskStep
  BY <1>1 DEF TaskStep, TaskOf
<1>3. task' = [task EXCEPT ![m].at = "number", ![m].slot = x]
  BY DEF ReadTemplate, Of
<1> HIDE DEF x
<1>4. /\ Tasks' /\ \A k \in RunTask \ {m} : task'[k] = task[k]
      /\ task'[m] = [task[m] EXCEPT !.at = "number", !.slot = x]
  BY <1>1, <1>2, <1>3 DEF Tasks, TaskOf
<1>5. /\ task'[m].at = "number" /\ task'[m].slot = x
      /\ task'[m].of = task[m].of /\ task'[m].manual = task[m].manual /\ task'[m].won = task[m].won
  BY <1>1, <1>4 DEF TaskOf
<1> QED BY <1>4, <1>5 DEF x

(* A claim decides whether the task won, and nothing else of it. *)
LEMMA WinsClaim ==
  ASSUME Tasks, NEW m \in RunTask, ClaimOrder(m)
  PROVE  /\ Tasks' /\ \A k \in RunTask \ {m} : task'[k] = task[k]
         /\ task'[m].at = "record" /\ task'[m].won = Wins(task[m].order)
         /\ task'[m].order = task[m].order /\ task'[m].of = task[m].of
         /\ task'[m].manual = task[m].manual /\ task'[m].slot = task[m].slot
         /\ task'[m].number = task[m].number /\ task'[m].seen = task[m].seen
<1> DEFINE w == Wins(task[m].order)
<1>1. w \in BOOLEAN /\ "record" \in TaskStep
  BY DEF Wins, TaskStep
<1>2. task' = [task EXCEPT ![m].at = "record", ![m].won = w]
  BY Zenon DEF ClaimOrder
<1> HIDE DEF w
<1>3. /\ Tasks' /\ \A k \in RunTask \ {m} : task'[k] = task[k]
      /\ task'[m].at = "record" /\ task'[m].order = task[m].order /\ task'[m].of = task[m].of
      /\ task'[m].manual = task[m].manual /\ task'[m].slot = task[m].slot
      /\ task'[m].number = task[m].number /\ task'[m].seen = task[m].seen
  BY <1>1, <1>2 DEF Tasks, TaskOf
<1>4. task'[m].won = w
  BY <1>1, <1>2 DEF Tasks, TaskOf
<1> QED BY <1>3, <1>4 DEF w

(* A step of one materialization that keeps template, trigger and slot. *)
Kept(m) ==
  /\ Tasks' /\ \A k \in RunTask \ {m} : task'[k] = task[k]
  /\ task'[m].of = task[m].of /\ task'[m].manual = task[m].manual /\ task'[m].slot = task[m].slot

(* An order is created for the task that asks for it. *)
LEMMA Creates ==
  ASSUME Tasks, NEW m \in RunTask, CreateOrder(m)
  PROVE  /\ Kept(m) /\ task'[m].at = "claim" /\ task'[m].number = task[m].number
         /\ task'[m].seen = task[m].seen /\ task'[m].won = task[m].won /\ task'[m].order \in Order
         /\ \E s \in Order : order[s] = "ABSENT" /\ order' = [order EXCEPT ![s] = "PENDING"]
<1>1. PICK s \in Order : /\ order[s] = "ABSENT" /\ order' = [order EXCEPT ![s] = "PENDING"]
                         /\ task' = [task EXCEPT ![m].order = s, ![m].at = "claim"]
  BY DEF CreateOrder
<1>2. "claim" \in TaskStep /\ task[m] \in TaskOf /\ s \in Order \cup {NoOrder}
  BY DEF TaskStep, Tasks
<1>3. /\ Tasks' /\ \A k \in RunTask \ {m} : task'[k] = task[k]
      /\ task'[m] = [task[m] EXCEPT !.order = s, !.at = "claim"]
  BY <1>1, <1>2 DEF Tasks, TaskOf
<1>4. /\ task'[m].of = task[m].of /\ task'[m].manual = task[m].manual /\ task'[m].slot = task[m].slot
      /\ task'[m].at = "claim" /\ task'[m].number = task[m].number
      /\ task'[m].seen = task[m].seen /\ task'[m].won = task[m].won /\ task'[m].order = s
  BY <1>2, <1>3 DEF TaskOf
<1> QED BY <1>1, <1>3, <1>4 DEF Kept

(* Writing the run, or the template, only moves the task on. *)
LEMMA Records ==
  ASSUME Tasks, NEW m \in RunTask, RecordRun(m) \/ AdvanceTemplate(m)
  PROVE  /\ Kept(m) /\ task'[m].won = task[m].won /\ task'[m].order = task[m].order
         /\ RecordRun(m) => task'[m].at = "advance"
         /\ AdvanceTemplate(m) => task'[m].at = "end"
<1>1. PICK here \in {"advance", "end"} :
        /\ task' = [task EXCEPT ![m].at = here]
        /\ RecordRun(m) => here = "advance"
        /\ AdvanceTemplate(m) => here = "end"
  BY DEF RecordRun, AdvanceTemplate, TaskAt
<1>2. here \in TaskStep /\ task[m] \in TaskOf
  BY DEF TaskStep, Tasks
<1>3. /\ Tasks' /\ \A k \in RunTask \ {m} : task'[k] = task[k]
      /\ task'[m] = [task[m] EXCEPT !.at = here]
  BY <1>1, <1>2 DEF Tasks, TaskOf
<1>4. /\ task'[m].of = task[m].of /\ task'[m].manual = task[m].manual /\ task'[m].slot = task[m].slot
      /\ task'[m].at = here /\ task'[m].won = task[m].won /\ task'[m].order = task[m].order
  BY <1>2, <1>3 DEF TaskOf
<1> QED BY <1>1, <1>3, <1>4 DEF Kept

(* A slot of tasks that is given back holds nothing. *)
LEMMA Frees ==
  ASSUME Tasks, NEW m \in RunTask, task' = [task EXCEPT ![m] = NoTask]
  PROVE  /\ Tasks' /\ \A k \in RunTask \ {m} : task'[k] = task[k]
         /\ task'[m].at = "free" /\ task'[m].won = FALSE
BY FreeTask DEF Tasks

(* Types, and numbers that are not larger than their place. *)
RecTypes ==
  /\ clock \in Nat /\ nextRun \in [Template -> Nat] /\ order \in [Order -> OrderStatus]
  /\ runs \in Seq(RunOf) /\ Tasks
  /\ inFlight \subseteq Template /\ due \subseteq Template /\ faults \in Nat
  /\ excuse \in [Template -> SUBSET {"reverted", "stale", "fault"}]

NumberInv ==
  /\ \A i \in DOMAIN runs : runs[i].number <= i /\ runs[i].seen < i
  /\ \A m \in RunTask : task[m].at \in {"claim", "record"} => task[m].order \in Order
  /\ \A m \in RunTask : task[m].at \in {"create", "claim", "record"} =>
       /\ task[m].number \in Nat \ {0} /\ task[m].seen <= Len(runs)
       /\ task[m].number <= task[m].seen + 1
       /\ \A i \in 1..task[m].seen : runs[i].of = task[m].of => runs[i].number < task[m].number
  /\ NumbersClashOnlyInOverlap

(* The number of a new run is above those recorded. *)
LEMMA NumberIsNew ==
  ASSUME RecTypes, NumberInv, NEW t \in Template
  PROVE  /\ NextNumber(t) \in 1..(Len(runs) + 1)
         /\ \A i \in 1..Len(runs) : runs[i].of = t => runs[i].number < NextNumber(t)
<1> DEFINE IsNext(n) == /\ \A i \in RunsOf(t) : runs[i].number < n
                        /\ n = 1 \/ \E i \in RunsOf(t) : runs[i].number = n - 1
           S == {runs[i].number : i \in RunsOf(t)}
           L == Len(runs)
<1>1. L \in Nat /\ DOMAIN runs = 1..L /\ \A i \in 1..L : runs[i] \in RunOf
  BY DEF RecTypes
<1>2. \A i \in RunsOf(t) : i \in 1..L /\ runs[i].number \in Nat \ {0} /\ runs[i].number <= i
  BY <1>1 DEF RunsOf, NumberInv, RunOf
<1>3. S \subseteq 1..L
  BY <1>1, <1>2
<1>4. \E n \in 1..(L + 1) : IsNext(n)
  <2>1. CASE S = {}
    <3>1. \A i \in RunsOf(t) : FALSE
      BY <2>1
    <3>2. IsNext(1) /\ 1 \in 1..(L + 1)
      BY <3>1, <1>1
    <3> QED BY <3>2
  <2>2. CASE S # {}
    <3>1. PICK k \in S : \A x \in S : x <= k
      <4> HIDE DEF S, L
      <4> QED BY <1>1, <1>3, <2>2, Greatest
    <3>2. PICK j \in RunsOf(t) : runs[j].number = k
      OBVIOUS
    <3>3. k \in 1..L
      BY <1>3
    <3>4. \A i \in RunsOf(t) : runs[i].number < k + 1
      <4>1. \A i \in RunsOf(t) : runs[i].number <= k
        BY <3>1
      <4> QED BY <1>2, <3>3, <4>1
    <3>5. IsNext(k + 1) /\ k + 1 \in 1..(L + 1)
      BY <1>1, <3>2, <3>3, <3>4
    <3> QED BY <3>5
  <2> QED BY <2>1, <2>2
<1>5. NextNumber(t) = CHOOSE n \in 1..(L + 1) : IsNext(n)
  BY DEF NextNumber
<1>6. NextNumber(t) \in 1..(L + 1) /\ IsNext(NextNumber(t))
  <2> HIDE DEF L, IsNext
  <2> QED BY <1>4, <1>5
<1>7. \A i \in 1..L : runs[i].of = t => i \in RunsOf(t)
  BY <1>1 DEF RunsOf
<1> QED BY <1>6, <1>7

(* The number is read together with the length of the table. *)
LEMMA Numbers ==
  ASSUME RecTypes, NumberInv, NEW m \in RunTask, ReadNumber(m)
  PROVE  /\ Kept(m) /\ task'[m].at = "create" /\ task'[m].number = NextNumber(task[m].of)
         /\ task'[m].seen = Len(runs) /\ task'[m].won = task[m].won
<1> DEFINE x == NextNumber(task[m].of)
           y == Len(runs)
<1>1. task[m] \in TaskOf /\ task[m].of \in Template
  BY DEF Tasks, RecTypes, TaskOf
<1>2. y \in Nat
  BY DEF RecTypes
<1>3. x \in Nat /\ "create" \in TaskStep
  BY <1>1, <1>2, NumberIsNew DEF TaskStep
<1>4. task' = [task EXCEPT ![m].at = "create", ![m].number = x, ![m].seen = y]
  BY DEF ReadNumber, Of
<1> HIDE DEF x, y
<1>5. /\ Tasks' /\ \A k \in RunTask \ {m} : task'[k] = task[k]
      /\ task'[m] = [task[m] EXCEPT !.at = "create", !.number = x, !.seen = y]
  BY <1>1, <1>2, <1>3, <1>4 DEF RecTypes, Tasks, TaskOf
<1>6. /\ task'[m].of = task[m].of /\ task'[m].manual = task[m].manual /\ task'[m].slot = task[m].slot
      /\ task'[m].at = "create" /\ task'[m].number = x /\ task'[m].seen = y
      /\ task'[m].won = task[m].won
  BY <1>1, <1>5 DEF TaskOf
<1> QED BY <1>5, <1>6 DEF Kept, x, y

-----------------------------------------------------------------------------
(* The beginning. *)
LEMMA RecBegins == RecurringInit => RecTypes /\ NumberInv /\ ClaimedIsExecuted
<1> SUFFICES ASSUME RecurringInit PROVE RecTypes /\ NumberInv /\ ClaimedIsExecuted
  OBVIOUS
<1>1. Tasks /\ \A m \in RunTask : task[m].at = "free"
  BY FreeTask DEF RecurringInit, Tasks
<1>2. RecTypes
  <2>1. runs \in Seq(RunOf) /\ Len(runs) = 0
    BY DEF RecurringInit
  <2>2. excuse \in [Template -> SUBSET {"reverted", "stale", "fault"}]
    BY DEF RecurringInit
  <2> QED BY <1>1, <2>1, <2>2, RecurringAssumption DEF RecurringInit, RecTypes, OrderStatus
<1>3. NumberInv
  <2>1. DOMAIN runs = {}
    BY DEF RecurringInit
  <2> QED BY <1>1, <2>1 DEF NumberInv, NumbersClashOnlyInOverlap
<1>4. ClaimedIsExecuted
  BY DEF RecurringInit, ClaimedIsExecuted
<1> QED BY <1>2, <1>3, <1>4

(* The steps that leave runs and materializations alone. *)
Aside == DueTick \/ (\E t \in Template : SkipDue(t)) \/ Advance \/ (\E s \in Order : OthersTake(s))
         \/ UNCHANGED recVars

(* Such a step lets time pass, or takes orders nobody holds. *)
LEMMA AsideKeeps ==
  ASSUME RecTypes, Aside
  PROVE  /\ UNCHANGED <<task, runs, nextRun, excuse, faults>>
         /\ RecTypes' /\ inFlight' = inFlight /\ clock <= clock'
         /\ \A s \in Order : order'[s] = "HELD" => order[s] = "HELD"
<1>1. UNCHANGED <<task, runs, nextRun, excuse, faults>> /\ inFlight' = inFlight
  BY DEF Aside, DueTick, SkipDue, Advance, OthersTake, recVars, recRows
<1>2. clock' \in Nat /\ clock <= clock'
  BY DEF Aside, DueTick, SkipDue, Advance, OthersTake, recVars, recRows, RecTypes
<1>3. due' \subseteq Template
  BY DEF Aside, DueTick, SkipDue, Advance, OthersTake, recVars, recRows, RecTypes
<1>4. /\ order' \in [Order -> OrderStatus]
      /\ \A s \in Order : order'[s] = "HELD" => order[s] = "HELD"
  <2>1. CASE \E s \in Order : OthersTake(s)
    BY <2>1 DEF OthersTake, RecTypes, OrderStatus
  <2>2. CASE ~\E s \in Order : OthersTake(s)
    BY <2>2 DEF Aside, DueTick, SkipDue, Advance, recVars, recRows, RecTypes
  <2> QED BY <2>1, <2>2
<1> QED BY <1>1, <1>2, <1>3, <1>4 DEF RecTypes, Tasks

(* A materialization under way moves, or is over. *)
LEMMA MoveTypes ==
  ASSUME RecTypes, NumberInv, NEW m \in RunTask, Materialize(m)
  PROVE  RecTypes'
<1>0. task[m] \in TaskOf
  BY DEF RecTypes, Tasks
<1>1. Tasks'
  <2>1. CASE EndTask(m)
    BY <2>1, Frees DEF EndTask, RecTypes
  <2> QED BY <2>1, Reads, Numbers, Creates, WinsClaim, Records DEF Materialize, Kept, RecTypes
<1>2. clock' = clock /\ due' = due /\ faults' = faults
  BY DEF Materialize, ReadTemplate, ReadNumber, CreateOrder, ClaimOrder, RecordRun, AdvanceTemplate,
         EndTask, recRows
<1>3. inFlight' \subseteq Template
  BY DEF Materialize, ReadTemplate, ReadNumber, CreateOrder, ClaimOrder, RecordRun, AdvanceTemplate,
         EndTask, Cleared, RecTypes
<1>4. nextRun' \in [Template -> Nat]
  <2>1. CASE AdvanceTemplate(m)
    <3>1. Advanced(m) \in Nat
      BY <1>0, NextIsLater DEF Advanced, TaskOf, RecTypes
    <3> QED BY <2>1, <3>1 DEF AdvanceTemplate, RecTypes
  <2>2. CASE ~AdvanceTemplate(m)
    BY <2>2 DEF Materialize, ReadTemplate, ReadNumber, CreateOrder, ClaimOrder, RecordRun, EndTask,
                recRows, RecTypes
  <2> QED BY <2>1, <2>2
<1>5. order' \in [Order -> OrderStatus]
  <2>1. CASE CreateOrder(m)
    BY <2>1, Creates DEF RecTypes, OrderStatus
  <2>2. CASE ClaimOrder(m)
    BY <2>2 DEF ClaimOrder, RecTypes, OrderStatus
  <2>3. CASE EndTask(m)
    BY <2>3 DEF EndTask, Launched, RecTypes, OrderStatus
  <2>4. CASE ReadTemplate(m) \/ ReadNumber(m) \/ RecordRun(m) \/ AdvanceTemplate(m)
    BY <2>4 DEF ReadTemplate, ReadNumber, RecordRun, AdvanceTemplate, recRows, RecTypes
  <2> QED BY <2>1, <2>2, <2>3, <2>4 DEF Materialize
<1>6. runs' \in Seq(RunOf)
  <2>1. CASE RecordRun(m)
    <3>1. /\ task[m].number \in Nat \ {0} /\ task[m].of \in Template /\ task[m].order \in Order
          /\ task[m].manual \in BOOLEAN /\ task[m].slot \in Nat /\ task[m].seen \in Nat
      BY <1>0, <2>1 DEF RecordRun, TaskAt, NumberInv, TaskOf
    <3> DEFINE r == [of |-> task[m].of, order |-> task[m].order, number |-> task[m].number,
                     manual |-> task[m].manual, slot |-> task[m].slot, seen |-> task[m].seen]
    <3>2. r \in RunOf
      BY <3>1 DEF RunOf
    <3>3. runs' = Append(runs, r)
      BY <2>1 DEF RecordRun, Of
    <3> HIDE DEF r
    <3> QED BY <3>2, <3>3 DEF RecTypes
  <2>2. CASE ~RecordRun(m)
    BY <2>2 DEF Materialize, ReadTemplate, ReadNumber, CreateOrder, ClaimOrder, AdvanceTemplate, EndTask,
                recRows, RecTypes
  <2> QED BY <2>1, <2>2
<1>7. excuse' \in [Template -> SUBSET {"reverted", "stale", "fault"}]
  BY DEF Materialize, ReadTemplate, ReadNumber, CreateOrder, ClaimOrder, RecordRun, AdvanceTemplate,
         EndTask, RecTypes
<1> QED BY <1>1, <1>2, <1>3, <1>4, <1>5, <1>6, <1>7 DEF RecTypes

(* A materialization begins, scheduled or by hand. *)
Starting(m, t) == SpawnTask(m, t) \/ TriggerNow(m, t)

LEMMA StartKeeps ==
  ASSUME RecTypes, NEW m \in RunTask, NEW t \in Template, Starting(m, t)
  PROVE  /\ RecTypes' /\ UNCHANGED <<clock, nextRun, order, runs, faults>>
         /\ task[m].at = "free" /\ \A k \in RunTask \ {m} : task'[k] = task[k]
         /\ task'[m].at = "read" /\ task'[m].of = t /\ task'[m].won = FALSE
         /\ \A u \in Template : excuse[u] \subseteq excuse'[u]
         /\ \/ task'[m].manual /\ inFlight' = inFlight
            \/ /\ ~task'[m].manual /\ t \notin inFlight /\ inFlight' = inFlight \cup {t}
               /\ excuse'[t] = {} => IsDue(t)
<1>1. CASE TriggerNow(m, t)
  <2>1. /\ UNCHANGED <<clock, nextRun, order, runs, faults, due, excuse, inFlight>>
        /\ task[m].at = "free" /\ Begin(m, t, TRUE)
    BY <1>1 DEF TriggerNow, recRows
  <2>2. /\ Tasks' /\ \A k \in RunTask \ {m} : task'[k] = task[k]
        /\ task'[m].at = "read" /\ task'[m].of = t /\ task'[m].manual = TRUE /\ task'[m].won = FALSE
    BY <2>1, Begins DEF RecTypes
  <2> QED BY <2>1, <2>2 DEF RecTypes
<1>2. CASE SpawnTask(m, t)
  <2>1. /\ UNCHANGED <<clock, nextRun, order, runs, faults>> /\ due' \subseteq due
        /\ t \notin inFlight /\ inFlight' = inFlight \cup {t}
        /\ task[m].at = "free" /\ Begin(m, t, FALSE)
        /\ excuse' = IF IsDue(t) THEN excuse ELSE [excuse EXCEPT ![t] = @ \cup {"stale"}]
    BY <1>2 DEF SpawnTask, recRows
  <2>2. /\ Tasks' /\ \A k \in RunTask \ {m} : task'[k] = task[k]
        /\ task'[m].at = "read" /\ task'[m].of = t /\ task'[m].manual = FALSE /\ task'[m].won = FALSE
    BY <2>1, Begins DEF RecTypes
  <2>3. /\ excuse' \in [Template -> SUBSET {"reverted", "stale", "fault"}]
        /\ \A u \in Template : excuse[u] \subseteq excuse'[u]
        /\ excuse'[t] = {} => IsDue(t)
    BY <2>1 DEF RecTypes
  <2> QED BY <2>1, <2>2, <2>3 DEF RecTypes
<1> QED BY <1>1, <1>2 DEF Starting

(* A registry call fails, or the process dies. *)
LEMMA FaultKeeps ==
  ASSUME RecTypes, Crash \/ \E m \in RunTask : FailTask(m)
  PROVE  /\ RecTypes' /\ UNCHANGED <<clock, nextRun, runs>> /\ faults' > 0
         /\ \A k \in RunTask : task'[k] = task[k] \/ (task'[k].at = "free" /\ task'[k].won = FALSE)
         /\ \A u \in Template : excuse[u] \subseteq excuse'[u]
         /\ \A k \in RunTask, u \in Template :
              task[k].at # "free" /\ task[k].of = u /\ excuse'[u] = {} => task'[k] = task[k]
         /\ \A k \in RunTask : task'[k].at # "free" /\ ~task'[k].manual /\ task'[k].of \in inFlight
              => task'[k].of \in inFlight' \/ \E j \in RunTask \ {k} :
                   task[j].at # "free" /\ ~task[j].manual /\ task[j].of = task'[k].of
<1>1. CASE Crash
  <2>1. /\ UNCHANGED <<clock, nextRun, runs>> /\ faults' = faults + 1 /\ inFlight' = {} /\ due' = {}
        /\ task' = [k \in RunTask |-> NoTask]
        /\ excuse' = [t \in Template |-> IF \E m \in RunTask : task[m].at # "free" /\ task[m].of = t
                                         THEN excuse[t] \cup {"fault"} ELSE excuse[t]]
    BY <1>1 DEF Crash, Of
  <2>2. order' \in [Order -> OrderStatus]
    BY <1>1 DEF Crash, RecTypes, OrderStatus
  <2>3. Tasks' /\ \A k \in RunTask : task'[k].at = "free" /\ task'[k].won = FALSE
    BY <2>1, FreeTask DEF Tasks
  <2>4. /\ \A u \in Template : excuse'[u] = excuse[u] \/ excuse'[u] = excuse[u] \cup {"fault"}
        /\ \A k \in RunTask, u \in Template :
              task[k].at # "free" /\ task[k].of = u => "fault" \in excuse'[u]
    BY <2>1
  <2>5. excuse' \in [Template -> SUBSET {"reverted", "stale", "fault"}]
    BY <2>1, <2>4 DEF RecTypes
  <2> QED BY <2>1, <2>2, <2>3, <2>4, <2>5 DEF RecTypes
<1>2. ASSUME NEW m \in RunTask, FailTask(m) PROVE
         /\ RecTypes' /\ UNCHANGED <<clock, nextRun, runs>> /\ faults' > 0
         /\ \A k \in RunTask : task'[k] = task[k] \/ (task'[k].at = "free" /\ task'[k].won = FALSE)
         /\ \A u \in Template : excuse[u] \subseteq excuse'[u]
         /\ \A k \in RunTask, u \in Template :
              task[k].at # "free" /\ task[k].of = u /\ excuse'[u] = {} => task'[k] = task[k]
         /\ \A k \in RunTask : task'[k].at # "free" /\ ~task'[k].manual /\ task'[k].of \in inFlight
              => task'[k].of \in inFlight' \/ \E j \in RunTask \ {k} :
                   task[j].at # "free" /\ ~task[j].manual /\ task[j].of = task'[k].of
  <2>1. /\ UNCHANGED <<clock, nextRun, runs, order, due>> /\ faults' = faults + 1
        /\ inFlight' = Cleared(m) /\ task' = [task EXCEPT ![m] = NoTask] /\ task[m].at # "free"
        /\ excuse' = [excuse EXCEPT ![task[m].of] = @ \cup {"fault"}]
    BY <1>2 DEF FailTask, Of, recRows
  <2>2. Tasks' /\ \A k \in RunTask \ {m} : task'[k] = task[k] /\ task'[m].at = "free" /\ task'[m].won = FALSE
    BY <2>1, FreeTask DEF RecTypes, Tasks
  <2>3. task[m].of \in Template
    BY DEF RecTypes, Tasks, TaskOf
  <2>4. /\ excuse' \in [Template -> SUBSET {"reverted", "stale", "fault"}]
        /\ \A u \in Template : excuse[u] \subseteq excuse'[u]
        /\ "fault" \in excuse'[task[m].of]
    BY <2>1, <2>3 DEF RecTypes
  <2>5. /\ inFlight' \subseteq inFlight
        /\ \A u \in inFlight : u \in inFlight' \/ (~task[m].manual /\ u = task[m].of)
    BY <2>1 DEF Cleared, Of
  <2>6. Tasks' /\ task'[m].at = "free" /\ task'[m].won = FALSE
    BY <2>1, FreeTask DEF RecTypes, Tasks
  <2>7. RecTypes' /\ UNCHANGED <<clock, nextRun, runs>> /\ faults' > 0
    <3>1. faults' \in Nat /\ faults' > 0
      BY <2>1 DEF RecTypes
    <3>2. inFlight' \subseteq Template
      BY <2>5 DEF RecTypes
    <3> QED BY <2>1, <2>4, <2>6, <3>1, <3>2 DEF RecTypes
  <2>8. \A k \in RunTask : task'[k] = task[k] \/ (task'[k].at = "free" /\ task'[k].won = FALSE)
    <3> TAKE k \in RunTask
    <3> QED BY <2>2, <2>6
  <2>9. \A k \in RunTask, u \in Template :
          task[k].at # "free" /\ task[k].of = u /\ excuse'[u] = {} => task'[k] = task[k]
    <3> TAKE k \in RunTask, u \in Template
    <3> QED BY <2>2, <2>4
  <2>10. \A k \in RunTask : task'[k].at # "free" /\ ~task'[k].manual /\ task'[k].of \in inFlight
           => task'[k].of \in inFlight' \/ \E j \in RunTask \ {k} :
                task[j].at # "free" /\ ~task[j].manual /\ task[j].of = task'[k].of
    <3> SUFFICES ASSUME NEW k \in RunTask, task'[k].at # "free", task'[k].of \in inFlight,
                        task'[k].of \notin inFlight'
                 PROVE \E j \in RunTask \ {k} :
                         task[j].at # "free" /\ ~task[j].manual /\ task[j].of = task'[k].of
      OBVIOUS
    <3>1. k # m
      BY <2>6
    <3>2. ~task[m].manual /\ task'[k].of = task[m].of
      BY <2>5
    <3> QED BY <2>1, <3>1, <3>2
  <2> QED BY <2>4, <2>7, <2>8, <2>9, <2>10
<1> QED BY <1>1, <1>2

-----------------------------------------------------------------------------
(* The numbers. *)

(* A step after which no number is in hand that was not before. *)
LEMMA NumbersKept ==
  ASSUME NumberInv, runs' = runs,
         \A k \in RunTask : task'[k] = task[k] \/ task'[k].at \notin {"create", "claim", "record"}
  PROVE  NumberInv'
<1>1. /\ \A i \in DOMAIN runs' : runs'[i].number <= i /\ runs'[i].seen < i
      /\ NumbersClashOnlyInOverlap'
  BY DEF NumberInv, NumbersClashOnlyInOverlap
<1>2. \A k \in RunTask : task'[k].at \in {"claim", "record"} => task'[k].order \in Order
  BY DEF NumberInv
<1>3. \A k \in RunTask : task'[k].at \in {"create", "claim", "record"} =>
       /\ task'[k].number \in Nat \ {0} /\ task'[k].seen <= Len(runs')
       /\ task'[k].number <= task'[k].seen + 1
       /\ \A i \in 1..task'[k].seen : runs'[i].of = task'[k].of => runs'[i].number < task'[k].number
  <2> TAKE k \in RunTask
  <2> QED BY DEF NumberInv
<1> QED BY <1>1, <1>2, <1>3 DEF NumberInv

(* A step of m that hands its number on, or draws a new one. *)
LEMMA NumberInHand ==
  ASSUME RecTypes, NumberInv, NEW m \in RunTask, runs' = runs, Kept(m),
         task'[m].at \in {"claim", "record"} => task'[m].order \in Order,
         \/ /\ task[m].at \in {"create", "claim"}
            /\ task'[m].number = task[m].number /\ task'[m].seen = task[m].seen
         \/ task'[m].number = NextNumber(task[m].of) /\ task'[m].seen = Len(runs)
  PROVE  NumberInv'
<1>0. Len(runs) \in Nat /\ task[m].of \in Template
  BY DEF RecTypes, Tasks, TaskOf
<1>1. /\ \A i \in DOMAIN runs' : runs'[i].number <= i /\ runs'[i].seen < i
      /\ NumbersClashOnlyInOverlap'
  BY DEF NumberInv, NumbersClashOnlyInOverlap
<1>2. \A k \in RunTask : task'[k].at \in {"claim", "record"} => task'[k].order \in Order
  BY DEF NumberInv, Kept
<1>3. /\ task'[m].number \in Nat \ {0} /\ task'[m].seen <= Len(runs')
      /\ task'[m].number <= task'[m].seen + 1
      /\ \A i \in 1..task'[m].seen : runs'[i].of = task'[m].of => runs'[i].number < task'[m].number
  <2>1. CASE /\ task[m].at \in {"create", "claim"}
             /\ task'[m].number = task[m].number /\ task'[m].seen = task[m].seen
    BY <2>1 DEF NumberInv, Kept
  <2>2. CASE task'[m].number = NextNumber(task[m].of) /\ task'[m].seen = Len(runs)
    <3>1. /\ NextNumber(task[m].of) \in 1..(Len(runs) + 1)
          /\ \A i \in 1..Len(runs) : runs[i].of = task[m].of => runs[i].number < NextNumber(task[m].of)
      BY <1>0, NumberIsNew
    <3> QED BY <1>0, <2>2, <3>1 DEF Kept
  <2> QED BY <2>1, <2>2
<1>4. \A k \in RunTask : task'[k].at \in {"create", "claim", "record"} =>
       /\ task'[k].number \in Nat \ {0} /\ task'[k].seen <= Len(runs')
       /\ task'[k].number <= task'[k].seen + 1
       /\ \A i \in 1..task'[k].seen : runs'[i].of = task'[k].of => runs'[i].number < task'[k].number
  <2> TAKE k \in RunTask
  <2>1. CASE k = m
    BY <2>1, <1>3
  <2>2. CASE k # m
    BY <2>2 DEF NumberInv, Kept
  <2> QED BY <2>1, <2>2
<1> QED BY <1>1, <1>2, <1>4 DEF NumberInv

(* The run of m is written down. *)
LEMMA RunRow ==
  ASSUME RecTypes, NEW m \in RunTask, RecordRun(m)
  PROVE  /\ Len(runs) \in Nat /\ DOMAIN runs = 1..Len(runs) /\ DOMAIN runs' = 1..(Len(runs) + 1)
         /\ Len(runs') = Len(runs) + 1
         /\ \A i \in 1..Len(runs) : runs'[i] = runs[i] /\ runs[i] \in RunOf
         /\ LET r == runs'[Len(runs) + 1] IN
              /\ r.of = task[m].of /\ r.number = task[m].number /\ r.manual = task[m].manual
              /\ r.slot = task[m].slot /\ r.seen = task[m].seen
<1> DEFINE r == [of |-> task[m].of, order |-> task[m].order, number |-> task[m].number,
                 manual |-> task[m].manual, slot |-> task[m].slot, seen |-> task[m].seen]
<1>1. runs' = Append(runs, r) /\ runs \in Seq(RunOf)
  BY DEF RecordRun, Of, RecTypes
<1>2. /\ r.of = task[m].of /\ r.number = task[m].number /\ r.manual = task[m].manual
      /\ r.slot = task[m].slot /\ r.seen = task[m].seen
  OBVIOUS
<1> HIDE DEF r
<1>3. /\ Len(runs) \in Nat /\ DOMAIN runs = 1..Len(runs) /\ DOMAIN runs' = 1..(Len(runs) + 1)
      /\ Len(runs') = Len(runs) + 1 /\ runs'[Len(runs) + 1] = r
      /\ \A i \in 1..Len(runs) : runs'[i] = runs[i] /\ runs[i] \in RunOf
  BY <1>1
<1> QED BY <1>2, <1>3

(* A run goes to the end of the table, with a number above those it saw. *)
LEMMA NumberRecorded ==
  ASSUME RecTypes, NumberInv, NEW m \in RunTask, RecordRun(m)
  PROVE  NumberInv'
<1> DEFINE L == Len(runs)
           n == task[m].number
           seen == task[m].seen
<1>0. /\ L \in Nat /\ DOMAIN runs = 1..L /\ DOMAIN runs' = 1..(L + 1) /\ Len(runs') = L + 1
      /\ \A i \in 1..L : runs'[i] = runs[i] /\ runs[i] \in RunOf
      /\ runs'[L + 1].of = task[m].of /\ runs'[L + 1].number = n /\ runs'[L + 1].seen = seen
  BY RunRow
<1>1. /\ n \in Nat /\ seen \in Nat /\ seen <= L /\ n <= seen + 1
      /\ \A i \in 1..seen : runs[i].of = task[m].of => runs[i].number < n
  BY DEF RecordRun, TaskAt, NumberInv, RecTypes, Tasks, TaskOf
<1>2. task'[m].at = "advance" /\ \A k \in RunTask \ {m} : task'[k] = task[k]
  BY Records DEF Kept, RecTypes
<1> HIDE DEF L, n, seen
<1>3. \A i \in DOMAIN runs' : runs'[i].number <= i /\ runs'[i].seen < i
  <2> SUFFICES ASSUME NEW i \in 1..(L + 1) PROVE runs'[i].number <= i /\ runs'[i].seen < i
    BY <1>0
  <2>1. CASE i = L + 1
    BY <2>1, <1>0, <1>1
  <2>2. CASE i \in 1..L
    BY <2>2, <1>0 DEF NumberInv
  <2> QED BY <1>0, <2>1, <2>2
<1>4. \A k \in RunTask : task'[k].at \in {"claim", "record"} => task'[k].order \in Order
  BY <1>2 DEF NumberInv
<1>5. \A k \in RunTask : task'[k].at \in {"create", "claim", "record"} =>
       /\ task'[k].number \in Nat \ {0} /\ task'[k].seen <= Len(runs')
       /\ task'[k].number <= task'[k].seen + 1
       /\ \A i \in 1..task'[k].seen : runs'[i].of = task'[k].of => runs'[i].number < task'[k].number
  <2> SUFFICES ASSUME NEW k \in RunTask, task'[k].at \in {"create", "claim", "record"}
               PROVE  /\ task'[k].number \in Nat \ {0} /\ task'[k].seen <= L + 1
                      /\ task'[k].number <= task'[k].seen + 1
                      /\ \A i \in 1..task'[k].seen :
                            runs'[i].of = task'[k].of => runs'[i].number < task'[k].number
    BY <1>0
  <2>1. k # m /\ task'[k] = task[k]
    BY <1>2
  <2>2. /\ task[k].number \in Nat \ {0} /\ task[k].seen <= L /\ task[k].number <= task[k].seen + 1
        /\ \A i \in 1..task[k].seen : runs[i].of = task[k].of => runs[i].number < task[k].number
    BY <2>1 DEF NumberInv, L
  <2>3. task[k].seen \in Nat
    BY DEF RecTypes, Tasks, TaskOf
  <2>4. \A i \in 1..task[k].seen : runs'[i] = runs[i]
    BY <1>0, <2>2, <2>3
  <2> QED BY <1>0, <2>1, <2>2, <2>3, <2>4
<1>6. NumbersClashOnlyInOverlap'
  <2> SUFFICES ASSUME NEW i \in 1..(L + 1), NEW j \in 1..(L + 1),
                      runs'[i].of = runs'[j].of, i <= runs'[j].seen
               PROVE  runs'[i].number < runs'[j].number
    BY <1>0 DEF NumbersClashOnlyInOverlap
  <2>1. i \in 1..L
    <3>1. runs'[j].seen < j /\ runs'[j].seen \in Nat
      <4>1. CASE j = L + 1
        BY <4>1, <1>0, <1>1
      <4>2. CASE j \in 1..L
        BY <4>2, <1>0 DEF NumberInv, RunOf
      <4> QED BY <1>0, <4>1, <4>2
    <3> QED BY <1>0, <3>1
  <2>2. CASE j = L + 1
    BY <2>1, <2>2, <1>0, <1>1
  <2>3. CASE j \in 1..L
    BY <2>1, <2>3, <1>0 DEF NumberInv, NumbersClashOnlyInOverlap
  <2> QED BY <1>0, <2>2, <2>3
<1> QED BY <1>3, <1>4, <1>5, <1>6 DEF NumberInv

-----------------------------------------------------------------------------
(* Who holds an order. *)
HeldInv ==
  /\ \A k \in RunTask :
       task[k].at \in {"free", "read", "number", "create", "claim"} => task[k].won = FALSE
  /\ ClaimedIsExecuted

(* A step after which whoever had won an order still has it. *)
LEMMA HeldKept ==
  ASSUME HeldInv, faults' = faults, NEW m \in RunTask,
         \A k \in RunTask \ {m} : task'[k] = task[k],
         task'[m].at \in {"free", "read", "number", "create", "claim"} => task'[m].won = FALSE,
         \A s \in Order : order'[s] = "HELD" =>
           /\ order[s] = "HELD"
           /\ task[m].won /\ task[m].order = s => task'[m].won /\ task'[m].order = s
  PROVE  HeldInv'
<1>1. \A k \in RunTask :
        task'[k].at \in {"free", "read", "number", "create", "claim"} => task'[k].won = FALSE
  BY DEF HeldInv
<1>2. ClaimedIsExecuted'
  <2> SUFFICES ASSUME NEW s \in Order, order'[s] = "HELD", ~(faults > 0)
               PROVE  \E k \in RunTask : task'[k].order = s /\ task'[k].won
    BY DEF ClaimedIsExecuted
  <2>1. PICK k \in RunTask : task[k].order = s /\ task[k].won
    BY DEF HeldInv, ClaimedIsExecuted
  <2>2. task'[k].order = s /\ task'[k].won
    <3>1. CASE k = m
      BY <2>1, <3>1
    <3>2. CASE k # m
      BY <2>1, <3>2, Zenon
    <3> QED BY <3>1, <3>2
  <2> QED BY <2>2
<1> QED BY <1>1, <1>2 DEF HeldInv

(* A claimed order stays with its winner up to the spawn of its loop. *)
LEMMA HeldMoves ==
  ASSUME RecTypes, NumberInv, HeldInv, NEW m \in RunTask, Materialize(m)
  PROVE  HeldInv'
<1>0. Tasks /\ nextRun \in [Template -> Nat] /\ faults' = faults
  BY DEF RecTypes, Materialize, ReadTemplate, ReadNumber, CreateOrder, ClaimOrder, RecordRun,
         AdvanceTemplate, EndTask
<1>w. task[m].at \in {"free", "read", "number", "create", "claim"} => task[m].won = FALSE
  BY DEF HeldInv
<1>1. CASE ReadTemplate(m) \/ ReadNumber(m)
  <2>1. order' = order /\ task[m].won = FALSE
    BY <1>1, <1>w DEF ReadTemplate, ReadNumber, TaskAt, recRows
  <2>2. task'[m].won = FALSE /\ \A k \in RunTask \ {m} : task'[k] = task[k]
    BY <1>0, <1>1, <2>1, Reads, Numbers DEF Kept
  <2> QED BY <1>0, <2>1, <2>2, HeldKept
<1>2. CASE CreateOrder(m)
  <2>1. task[m].won = FALSE /\ task'[m].won = FALSE /\ \A k \in RunTask \ {m} : task'[k] = task[k]
    BY <1>0, <1>2, <1>w, Creates DEF CreateOrder, TaskAt, Kept
  <2>2. PICK u \in Order : order' = [order EXCEPT ![u] = "PENDING"]
    BY <1>0, <1>2, Creates
  <2>3. \A s \in Order : order'[s] = "HELD" => order[s] = "HELD"
    BY <2>2 DEF RecTypes
  <2> QED BY <1>0, <2>1, <2>3, HeldKept
<1>3. CASE ClaimOrder(m)
  <2>0. /\ task[m].won = FALSE /\ task'[m].at = "record" /\ \A k \in RunTask \ {m} : task'[k] = task[k]
        /\ task'[m].won = Wins(task[m].order) /\ task'[m].order = task[m].order
        /\ order' = IF Wins(task[m].order) THEN [order EXCEPT ![task[m].order] = "HELD"] ELSE order
    BY <1>0, <1>3, <1>w, WinsClaim DEF ClaimOrder, TaskAt
  <2>1. CASE ~Wins(task[m].order)
    <3>1. order' = order
      BY <2>0, <2>1
    <3> QED BY <1>0, <2>0, <3>1, HeldKept
  <2>2. CASE Wins(task[m].order)
    <3>0. task'[m].won
      BY <2>0, <2>2
    <3>1. \A k \in RunTask :
            task'[k].at \in {"free", "read", "number", "create", "claim"} => task'[k].won = FALSE
      BY <2>0 DEF HeldInv
    <3>2. ClaimedIsExecuted'
      <4> SUFFICES ASSUME NEW s \in Order, order'[s] = "HELD", ~(faults > 0)
                   PROVE  \E k \in RunTask : task'[k].order = s /\ task'[k].won
        BY <1>0 DEF ClaimedIsExecuted
      <4>1. CASE s = task[m].order
        <5>1. task'[m].order = s
          BY <2>0, <4>1
        <5> QED BY <3>0, <5>1
      <4>2. CASE s # task[m].order
        <5>1. order[s] = "HELD"
          BY <2>0, <4>2 DEF RecTypes
        <5>2. PICK k \in RunTask : task[k].order = s /\ task[k].won
          BY <5>1 DEF HeldInv, ClaimedIsExecuted
        <5>3. task'[k] = task[k]
          BY <2>0, <4>2, <5>2
        <5> QED BY <5>2, <5>3
      <4> QED BY <4>1, <4>2
    <3> QED BY <3>1, <3>2 DEF HeldInv
  <2> QED BY <2>1, <2>2
<1>4. CASE RecordRun(m) \/ AdvanceTemplate(m)
  <2>1. order' = order
    BY <1>4 DEF RecordRun, AdvanceTemplate
  <2>2. /\ task'[m].won = task[m].won /\ task'[m].order = task[m].order
        /\ task'[m].at \in {"advance", "end"} /\ \A k \in RunTask \ {m} : task'[k] = task[k]
    BY <1>0, <1>4, Records DEF Kept
  <2> QED BY <1>0, <2>1, <2>2, HeldKept
<1>5. CASE EndTask(m)
  <2>1. /\ task'[m].at = "free" /\ task'[m].won = FALSE /\ \A k \in RunTask \ {m} : task'[k] = task[k]
    BY <1>0, <1>5, Frees DEF EndTask
  <2>2. \A s \in Order : order'[s] = "HELD" =>
          order[s] = "HELD" /\ ~(task[m].won /\ task[m].order = s)
    <3> DEFINE w == task[m].won
    <3>1. order' = IF w /\ order[task[m].order] = "HELD"
                   THEN [order EXCEPT ![task[m].order] = "TAKEN"] ELSE order
      BY <1>5 DEF EndTask, Launched
    <3> HIDE DEF w
    <3>2. \A s \in Order : order'[s] = "HELD" => order[s] = "HELD" /\ ~(w /\ task[m].order = s)
      BY <3>1 DEF RecTypes
    <3> QED BY <3>2 DEF w
  <2> QED BY <1>0, <2>1, <2>2, HeldKept
<1> QED BY <1>1, <1>2, <1>3, <1>4, <1>5 DEF Materialize

-----------------------------------------------------------------------------
(* The slots. *)
Scheduled(k) == task[k].at # "free" /\ ~task[k].manual
Writes == {"number", "create", "claim", "record", "advance"}

(* in_flight covers the scheduled materializations, one of each template. *)
OneAtATime ==
  /\ \A k \in RunTask : Scheduled(k) => task[k].of \in inFlight
  /\ \A k, j \in RunTask : Scheduled(k) /\ Scheduled(j) /\ task[k].of = task[j].of => k = j

(* Until it advances the template, one of them holds the slot that is due. *)
SlotInHand(k) ==
  Scheduled(k) /\ excuse[task[k].of] = {} =>
    /\ task[k].at # "end" => nextRun[task[k].of] <= clock
    /\ task[k].at \in Writes => task[k].slot = nextRun[task[k].of]

(* A slot with a run is behind the template, or about to be. *)
SlotSpent(i) ==
  ~runs[i].manual /\ excuse[runs[i].of] = {} =>
    \/ runs[i].slot < nextRun[runs[i].of]
    \/ /\ runs[i].slot = nextRun[runs[i].of]
       /\ \E k \in RunTask : Scheduled(k) /\ task[k].of = runs[i].of /\ task[k].at = "advance"

SlotInv ==
  /\ OneAtATime /\ \A k \in RunTask : SlotInHand(k)
  /\ \A i \in DOMAIN runs : SlotSpent(i)
  /\ SlotTakenOnce

(* Excuses are never taken back. *)
ExcusesStay == \A u \in Template : excuse[u] \subseteq excuse'[u]

(* A row of rwo_runs has the type of one. *)
LEMMA RunsTyped == ASSUME RecTypes PROVE \A i \in DOMAIN runs : runs[i] \in RunOf
BY DEF RecTypes

(* A step that neither writes a run nor moves a template. *)
LEMMA SlotsKept ==
  ASSUME RecTypes, RecTypes', SlotInv, runs' = runs, nextRun' = nextRun, clock <= clock', ExcusesStay,
         OneAtATime',
         \A k \in RunTask : SlotInHand(k) => SlotInHand(k)',
         \A k \in RunTask : Scheduled(k) /\ task[k].at = "advance" /\ excuse'[task[k].of] = {} =>
           Scheduled(k)' /\ task'[k].of = task[k].of /\ task'[k].at = "advance"
  PROVE  SlotInv'
<1>0. \A i \in DOMAIN runs : runs[i].of \in Template
  BY RunsTyped DEF RunOf
<1>1. \A i \in DOMAIN runs' : SlotSpent(i)'
  <2> SUFFICES ASSUME NEW i \in DOMAIN runs, ~runs[i].manual, excuse'[runs[i].of] = {}
               PROVE  \/ runs[i].slot < nextRun[runs[i].of]
                      \/ /\ runs[i].slot = nextRun[runs[i].of]
                         /\ \E k \in RunTask :
                              Scheduled(k)' /\ task'[k].of = runs[i].of /\ task'[k].at = "advance"
    BY DEF SlotSpent
  <2>1. excuse[runs[i].of] = {}
    BY <1>0 DEF ExcusesStay
  <2>2. SlotSpent(i)
    BY DEF SlotInv
  <2>3. CASE runs[i].slot < nextRun[runs[i].of]
    BY <2>3
  <2>4. ASSUME NEW k \in RunTask, runs[i].slot = nextRun[runs[i].of],
               Scheduled(k), task[k].of = runs[i].of, task[k].at = "advance"
        PROVE  \/ runs[i].slot < nextRun[runs[i].of]
               \/ /\ runs[i].slot = nextRun[runs[i].of]
                  /\ \E j \in RunTask :
                       Scheduled(j)' /\ task'[j].of = runs[i].of /\ task'[j].at = "advance"
    BY <2>4
  <2> QED BY <2>1, <2>2, <2>3, <2>4 DEF SlotSpent
<1>2. SlotTakenOnce'
  <2> SUFFICES ASSUME NEW i \in DOMAIN runs, NEW j \in DOMAIN runs, i # j,
                      runs[i].of = runs[j].of, runs[i].slot = runs[j].slot,
                      ~runs[i].manual, ~runs[j].manual
               PROVE  excuse'[runs[i].of] # {}
    BY DEF SlotTakenOnce
  <2>1. excuse[runs[i].of] # {}
    BY DEF SlotInv, SlotTakenOnce
  <2> QED BY <1>0, <2>1 DEF ExcusesStay
<1> QED BY <1>1, <1>2 DEF SlotInv

(* A step of m before its run is written. *)
LEMMA SlotsRead ==
  ASSUME RecTypes, RecTypes', SlotInv, NEW m \in RunTask, runs' = runs, nextRun' = nextRun,
         clock' = clock, inFlight' = inFlight, excuse' = excuse,
         \A k \in RunTask \ {m} : task'[k] = task[k],
         task'[m].of = task[m].of, task'[m].manual = task[m].manual,
         task[m].at \notin {"free", "advance", "end"}, task'[m].at \in Writes \ {"advance"},
         \/ task'[m].slot = nextRun[task[m].of]
         \/ task'[m].slot = task[m].slot /\ task[m].at \in Writes
  PROVE  SlotInv'
<1>1. \A k \in RunTask : Scheduled(k)' <=> Scheduled(k)
  BY DEF Scheduled, Writes
<1>2. \A k \in RunTask : task'[k].of = task[k].of
  OBVIOUS
<1>3. OneAtATime'
  BY <1>1, <1>2 DEF SlotInv, OneAtATime
<1>4. \A k \in RunTask : SlotInHand(k) => SlotInHand(k)'
  <2> TAKE k \in RunTask
  <2>1. CASE k = m
    BY <2>1, <1>1 DEF SlotInHand, Writes
  <2>2. CASE k # m
    BY <2>2, <1>1 DEF SlotInHand
  <2> QED BY <2>1, <2>2
<1>5. \A k \in RunTask : Scheduled(k) /\ task[k].at = "advance" =>
        Scheduled(k)' /\ task'[k].of = task[k].of /\ task'[k].at = "advance"
  BY <1>1
<1>6. clock <= clock' /\ ExcusesStay
  BY DEF RecTypes, ExcusesStay
<1> QED BY <1>3, <1>4, <1>5, <1>6, SlotsKept

(* The run is written: its slot has no other. *)
LEMMA SlotsRecorded ==
  ASSUME RecTypes, SlotInv, NEW m \in RunTask, RecordRun(m)
  PROVE  SlotInv'
<1> DEFINE L == Len(runs)
           t == task[m].of
<1>0. /\ L \in Nat /\ DOMAIN runs = 1..L /\ DOMAIN runs' = 1..(L + 1)
      /\ \A i \in 1..L : runs'[i] = runs[i] /\ runs[i] \in RunOf
      /\ runs'[L + 1].of = t /\ runs'[L + 1].manual = task[m].manual
      /\ runs'[L + 1].slot = task[m].slot
  BY RunRow
<1>1. /\ task[m].at = "record" /\ task'[m].at = "advance" /\ task'[m].of = t
      /\ task'[m].manual = task[m].manual /\ task'[m].slot = task[m].slot
      /\ \A k \in RunTask \ {m} : task'[k] = task[k]
      /\ UNCHANGED <<nextRun, clock, inFlight, excuse>>
  BY Records DEF RecordRun, TaskAt, Kept, RecTypes
<1> HIDE DEF L, t
<1>2. \A k \in RunTask : (Scheduled(k)' <=> Scheduled(k)) /\ task'[k].of = task[k].of
  BY <1>1 DEF Scheduled, t
<1>3. OneAtATime'
  BY <1>1, <1>2 DEF SlotInv, OneAtATime
<1>4. \A k \in RunTask : SlotInHand(k)'
  <2> TAKE k \in RunTask
  <2>0. SlotInHand(k)
    BY DEF SlotInv
  <2>1. CASE k = m
    BY <2>0, <2>1, <1>1, <1>2 DEF SlotInHand, Writes, t
  <2>2. CASE k # m
    BY <2>0, <2>2, <1>1, <1>2 DEF SlotInHand
  <2> QED BY <2>1, <2>2
<1>5. \A i \in DOMAIN runs' : SlotSpent(i)'
  <2> SUFFICES ASSUME NEW i \in 1..(L + 1), ~runs'[i].manual, excuse[runs'[i].of] = {}
               PROVE  \/ runs'[i].slot < nextRun[runs'[i].of]
                      \/ /\ runs'[i].slot = nextRun[runs'[i].of]
                         /\ \E k \in RunTask :
                              Scheduled(k)' /\ task'[k].of = runs'[i].of /\ task'[k].at = "advance"
    BY <1>0, <1>1 DEF SlotSpent
  <2>1. CASE i = L + 1
    <3>1. runs'[i].of = t /\ ~task[m].manual /\ runs'[i].slot = task[m].slot
      BY <2>1, <1>0
    <3>2. Scheduled(m) /\ SlotInHand(m)
      BY <3>1, <1>1 DEF Scheduled, SlotInv
    <3>3. task[m].slot = nextRun[t]
      BY <3>1, <3>2, <1>1 DEF SlotInHand, Writes, t
    <3> QED BY <3>1, <3>2, <3>3, <1>1, <1>2
  <2>2. CASE i \in 1..L
    <3>1. runs'[i] = runs[i] /\ SlotSpent(i)
      BY <2>2, <1>0 DEF SlotInv
    <3>2. CASE runs[i].slot < nextRun[runs[i].of]
      BY <3>1, <3>2
    <3>3. ASSUME NEW k \in RunTask, runs[i].slot = nextRun[runs[i].of],
                 Scheduled(k), task[k].of = runs[i].of, task[k].at = "advance"
          PROVE  \E j \in RunTask :
                   Scheduled(j)' /\ task'[j].of = runs'[i].of /\ task'[j].at = "advance"
      <4>1. task'[k] = task[k]
        BY <3>3, <1>1
      <4> QED BY <3>1, <3>3, <4>1, <1>2
    <3> QED BY <3>1, <3>2, <3>3 DEF SlotSpent
  <2> QED BY <1>0, <2>1, <2>2
<1>6. ASSUME NEW i \in 1..L, ~runs[i].manual, ~task[m].manual, runs[i].of = t,
             runs[i].slot = task[m].slot
      PROVE  excuse[t] # {}
  <2> SUFFICES ASSUME excuse[t] = {} PROVE FALSE
    OBVIOUS
  <2>1. Scheduled(m) /\ task[m].slot = nextRun[t]
    BY <1>1, <1>6 DEF Scheduled, SlotInv, SlotInHand, Writes, t
  <2>2. nextRun[t] \in Nat
    BY DEF RecTypes, Tasks, TaskOf, t
  <2>3. PICK k \in RunTask : Scheduled(k) /\ task[k].of = t /\ task[k].at = "advance"
    BY <1>0, <1>6, <2>1, <2>2 DEF SlotInv, SlotSpent
  <2>4. k = m
    BY <2>1, <2>3 DEF SlotInv, OneAtATime, t
  <2> QED BY <1>1, <2>3, <2>4
<1>7. SlotTakenOnce'
  <2> SUFFICES ASSUME NEW i \in 1..(L + 1), NEW j \in 1..(L + 1), i # j,
                      runs'[i].of = runs'[j].of, runs'[i].slot = runs'[j].slot,
                      ~runs'[i].manual, ~runs'[j].manual
               PROVE  excuse[runs'[i].of] # {}
    BY <1>0, <1>1 DEF SlotTakenOnce
  <2>1. CASE i = L + 1
    <3>1. j \in 1..L /\ runs'[j] = runs[j]
      BY <1>0, <2>1
    <3> QED BY <1>0, <1>6, <2>1, <3>1
  <2>2. CASE j = L + 1
    <3>1. i \in 1..L /\ runs'[i] = runs[i]
      BY <1>0, <2>2
    <3> QED BY <1>0, <1>6, <2>2, <3>1
  <2>3. CASE i \in 1..L /\ j \in 1..L
    BY <1>0, <2>3 DEF SlotInv, SlotTakenOnce
  <2> QED BY <1>0, <2>1, <2>2, <2>3
<1> QED BY <1>3, <1>4, <1>5, <1>7 DEF SlotInv

(* The template moves on, or is put back by a manual run. *)
LEMMA SlotsAdvance ==
  ASSUME RecTypes, RecTypes', SlotInv, NEW m \in RunTask, AdvanceTemplate(m)
  PROVE  SlotInv'
<1> DEFINE t == task[m].of
<1>0. /\ t \in Template /\ clock \in Nat /\ task[m].slot \in Nat
      /\ \A u \in Template : nextRun[u] \in Nat
      /\ \A i \in DOMAIN runs : runs[i].of \in Template /\ runs[i].slot \in Nat
      /\ \A k \in RunTask : task[k].of \in Template
  <2>1. \A i \in DOMAIN runs : runs[i].of \in Template /\ runs[i].slot \in Nat
    BY RunsTyped DEF RunOf
  <2> QED BY <2>1 DEF RecTypes, Tasks, TaskOf
<1>1. /\ task[m].at = "advance" /\ task'[m].at = "end" /\ task'[m].of = t
      /\ task'[m].manual = task[m].manual
      /\ \A k \in RunTask \ {m} : task'[k] = task[k]
      /\ UNCHANGED <<clock, inFlight, runs>>
  BY Records DEF AdvanceTemplate, TaskAt, Kept, RecTypes
<1>2. /\ nextRun' = [nextRun EXCEPT ![t] = Advanced(m)]
      /\ excuse' = IF task[m].manual /\ task[m].slot # nextRun[t]
                   THEN [excuse EXCEPT ![t] = @ \cup {"reverted"}] ELSE excuse
  BY DEF AdvanceTemplate, Of
<1> HIDE DEF t
<1>3. /\ \A u \in Template \ {t} : nextRun'[u] = nextRun[u] /\ excuse'[u] = excuse[u]
      /\ nextRun'[t] = Advanced(m)
      /\ ExcusesStay
      /\ task[m].manual /\ excuse'[t] = {} => task[m].slot = nextRun[t]
  BY <1>0, <1>2 DEF RecTypes, ExcusesStay
<1>4. \A k \in RunTask : (Scheduled(k)' <=> Scheduled(k)) /\ task'[k].of = task[k].of
  BY <1>1 DEF Scheduled, t
<1>5. OneAtATime'
  BY <1>1, <1>4 DEF SlotInv, OneAtATime
<1>6. \/ excuse'[t] # {}
      \/ task[m].manual /\ nextRun'[t] = nextRun[t] /\ ~Scheduled(m)
      \/ ~task[m].manual /\ nextRun'[t] > nextRun[t] /\ Scheduled(m)
  <2> SUFFICES ASSUME excuse'[t] = {}
               PROVE \/ task[m].manual /\ nextRun'[t] = nextRun[t] /\ ~Scheduled(m)
                     \/ ~task[m].manual /\ nextRun'[t] > nextRun[t] /\ Scheduled(m)
    OBVIOUS
  <2>1. CASE task[m].manual
    BY <2>1, <1>3 DEF Advanced, Scheduled
  <2>2. CASE ~task[m].manual
    <3>1. excuse[t] = {}
      BY <1>0, <1>3 DEF ExcusesStay
    <3>2. Scheduled(m) /\ nextRun[t] <= clock
      BY <2>2, <3>1, <1>1 DEF Scheduled, SlotInv, SlotInHand, t
    <3>3. NextRunAt(clock) \in Nat /\ NextRunAt(clock) > clock
      BY <1>0, NextIsLater
    <3>4. nextRun'[t] = NextRunAt(clock)
      BY <2>2, <1>3 DEF Advanced
    <3> QED BY <1>0, <2>2, <3>2, <3>3, <3>4
  <2> QED BY <2>1, <2>2
<1>7. \A k \in RunTask : SlotInHand(k)'
  <2> SUFFICES ASSUME NEW k \in RunTask, Scheduled(k), excuse'[task[k].of] = {}
               PROVE  /\ task'[k].at # "end" => nextRun'[task[k].of] <= clock
                      /\ task'[k].at \in Writes => task'[k].slot = nextRun'[task[k].of]
    BY <1>1, <1>4 DEF SlotInHand
  <2>1. CASE k = m
    BY <2>1, <1>1 DEF Writes
  <2>2. CASE k # m
    <3>1. task'[k] = task[k] /\ SlotInHand(k) /\ excuse[task[k].of] = {}
      BY <2>2, <1>0, <1>1, <1>3 DEF SlotInv, ExcusesStay
    <3>2. nextRun'[task[k].of] = nextRun[task[k].of]
      <4>1. CASE task[k].of # t
        BY <4>1, <1>0, <1>3
      <4>2. CASE task[k].of = t
        <5>1. ~Scheduled(m)
          BY <2>2, <4>2 DEF SlotInv, OneAtATime, t
        <5> QED BY <4>2, <5>1, <1>6
      <4> QED BY <4>1, <4>2
    <3> QED BY <3>1, <3>2 DEF SlotInHand
  <2> QED BY <2>1, <2>2
<1>8. \A i \in DOMAIN runs' : SlotSpent(i)'
  <2> SUFFICES ASSUME NEW i \in DOMAIN runs, ~runs[i].manual, excuse'[runs[i].of] = {}
               PROVE  \/ runs[i].slot < nextRun'[runs[i].of]
                      \/ /\ runs[i].slot = nextRun'[runs[i].of]
                         /\ \E k \in RunTask :
                              Scheduled(k)' /\ task'[k].of = runs[i].of /\ task'[k].at = "advance"
    BY <1>1 DEF SlotSpent
  <2>1. SlotSpent(i) /\ excuse[runs[i].of] = {}
    BY <1>0, <1>3 DEF SlotInv, ExcusesStay
  <2>2. CASE runs[i].of = t /\ ~task[m].manual
    <3>1. runs[i].slot <= nextRun[t] /\ nextRun'[t] > nextRun[t]
      BY <1>0, <1>6, <2>1, <2>2 DEF SlotSpent
    <3>2. nextRun'[t] \in Nat
      BY <1>0 DEF RecTypes
    <3> QED BY <1>0, <2>2, <3>1, <3>2
  <2>3. CASE ~(runs[i].of = t /\ ~task[m].manual)
    <3>1. nextRun'[runs[i].of] = nextRun[runs[i].of]
      BY <1>0, <1>3, <1>6, <2>3
    <3>2. CASE runs[i].slot < nextRun[runs[i].of]
      BY <3>1, <3>2
    <3>3. ASSUME NEW k \in RunTask, runs[i].slot = nextRun[runs[i].of],
                 Scheduled(k), task[k].of = runs[i].of, task[k].at = "advance"
          PROVE  \E j \in RunTask :
                   Scheduled(j)' /\ task'[j].of = runs[i].of /\ task'[j].at = "advance"
      <4>1. k # m
        BY <2>3, <3>3 DEF Scheduled, t
      <4>2. task'[k] = task[k]
        BY <1>1, <4>1
      <4> QED BY <3>3, <4>2, <1>4
    <3> QED BY <2>1, <3>1, <3>2, <3>3 DEF SlotSpent
  <2> QED BY <2>2, <2>3
<1>9. SlotTakenOnce'
  <2> SUFFICES ASSUME NEW i \in DOMAIN runs, NEW j \in DOMAIN runs, i # j,
                      runs[i].of = runs[j].of, runs[i].slot = runs[j].slot,
                      ~runs[i].manual, ~runs[j].manual
               PROVE  excuse'[runs[i].of] # {}
    BY <1>1 DEF SlotTakenOnce
  <2>1. excuse[runs[i].of] # {}
    BY DEF SlotInv, SlotTakenOnce
  <2> QED BY <1>0, <1>3, <2>1 DEF ExcusesStay
<1> QED BY <1>5, <1>7, <1>8, <1>9 DEF SlotInv

(* What remains of a materialization, or of all of them, goes. *)
LEMMA SlotsEnd ==
  ASSUME RecTypes, RecTypes', SlotInv, NEW m \in RunTask, EndTask(m)
  PROVE  SlotInv'
<1>1. /\ task[m].at = "end" /\ task'[m].at = "free" /\ \A k \in RunTask \ {m} : task'[k] = task[k]
      /\ UNCHANGED <<clock, runs, nextRun, excuse>> /\ inFlight' = Cleared(m)
  BY Frees DEF EndTask, TaskAt, RecTypes
<1>2. \A k \in RunTask : Scheduled(k)' => k # m /\ task'[k] = task[k] /\ Scheduled(k)
  BY <1>1 DEF Scheduled
<1>3. OneAtATime'
  <2>1. \A k, j \in RunTask :
          Scheduled(k)' /\ Scheduled(j)' /\ task'[k].of = task'[j].of => k = j
    BY <1>2 DEF SlotInv, OneAtATime
  <2>2. ASSUME NEW k \in RunTask, Scheduled(k)' PROVE task'[k].of \in inFlight'
    <3>1. task[k].of \in inFlight /\ k # m /\ task'[k] = task[k] /\ Scheduled(k)
      BY <1>2, <2>2 DEF SlotInv, OneAtATime
    <3>2. ~task[m].manual => task[k].of # task[m].of
      BY <1>1, <3>1 DEF SlotInv, OneAtATime, Scheduled
    <3> QED BY <1>1, <3>1, <3>2 DEF Cleared, Of
  <2> QED BY <2>1, <2>2 DEF OneAtATime
<1>4. \A k \in RunTask : SlotInHand(k) => SlotInHand(k)'
  BY <1>1, <1>2 DEF SlotInHand
<1>5. \A k \in RunTask : Scheduled(k) /\ task[k].at = "advance" =>
        Scheduled(k)' /\ task'[k].of = task[k].of /\ task'[k].at = "advance"
  BY <1>1 DEF Scheduled
<1>6. clock <= clock' /\ ExcusesStay
  BY <1>1 DEF RecTypes, ExcusesStay
<1> QED BY <1>1, <1>3, <1>4, <1>5, <1>6, SlotsKept

(* A fault excuses every template whose task it ends. *)
LEMMA SlotsFault ==
  ASSUME RecTypes, SlotInv, Crash \/ \E m \in RunTask : FailTask(m)
  PROVE  SlotInv'
<1>1. /\ RecTypes' /\ UNCHANGED <<clock, nextRun, runs>> /\ ExcusesStay
      /\ \A k \in RunTask : task'[k] = task[k] \/ task'[k].at = "free"
      /\ \A k \in RunTask, u \in Template :
           task[k].at # "free" /\ task[k].of = u /\ excuse'[u] = {} => task'[k] = task[k]
      /\ \A k \in RunTask : task'[k].at # "free" /\ ~task'[k].manual /\ task'[k].of \in inFlight
           => task'[k].of \in inFlight' \/ \E j \in RunTask \ {k} :
                task[j].at # "free" /\ ~task[j].manual /\ task[j].of = task'[k].of
  BY FaultKeeps DEF ExcusesStay
<1>2. \A k \in RunTask : Scheduled(k)' => task'[k] = task[k] /\ Scheduled(k)
  BY <1>1 DEF Scheduled
<1>3. OneAtATime'
  <2>1. \A k, j \in RunTask :
          Scheduled(k)' /\ Scheduled(j)' /\ task'[k].of = task'[j].of => k = j
    BY <1>2 DEF SlotInv, OneAtATime
  <2>2. ASSUME NEW k \in RunTask, Scheduled(k)' PROVE task'[k].of \in inFlight'
    <3>1. task[k].of \in inFlight /\ task'[k] = task[k] /\ Scheduled(k)
      BY <1>2, <2>2 DEF SlotInv, OneAtATime
    <3>2. \A j \in RunTask \ {k} : Scheduled(j) => task[j].of # task[k].of
      BY <3>1 DEF SlotInv, OneAtATime
    <3>3. task'[k].of \in inFlight' \/ \E j \in RunTask \ {k} :
            task[j].at # "free" /\ ~task[j].manual /\ task[j].of = task'[k].of
      BY <1>1, <3>1 DEF Scheduled
    <3> QED BY <3>1, <3>2, <3>3 DEF Scheduled
  <2> QED BY <2>1, <2>2 DEF OneAtATime
<1>4. \A k \in RunTask : SlotInHand(k) => SlotInHand(k)'
  <2> SUFFICES ASSUME NEW k \in RunTask, SlotInHand(k), Scheduled(k)', excuse'[task'[k].of] = {}
               PROVE  /\ task'[k].at # "end" => nextRun[task'[k].of] <= clock
                      /\ task'[k].at \in Writes => task'[k].slot = nextRun[task'[k].of]
    BY <1>1 DEF SlotInHand
  <2>1. task'[k] = task[k] /\ Scheduled(k)
    BY <1>2
  <2>2. excuse[task[k].of] = {}
    <3>1. task[k].of \in Template
      BY DEF RecTypes, Tasks, TaskOf
    <3> QED BY <1>1, <2>1, <3>1 DEF ExcusesStay
  <2> QED BY <2>1, <2>2 DEF SlotInHand
<1>5. \A k \in RunTask : Scheduled(k) /\ task[k].at = "advance" /\ excuse'[task[k].of] = {} =>
        Scheduled(k)' /\ task'[k].of = task[k].of /\ task'[k].at = "advance"
  <2> SUFFICES ASSUME NEW k \in RunTask, Scheduled(k), task[k].at = "advance", excuse'[task[k].of] = {}
               PROVE  Scheduled(k)' /\ task'[k].of = task[k].of /\ task'[k].at = "advance"
    OBVIOUS
  <2>1. task[k].of \in Template
    BY DEF RecTypes, Tasks, TaskOf
  <2>2. task'[k] = task[k]
    BY <1>1, <2>1
  <2> QED BY <2>2 DEF Scheduled
<1>6. clock <= clock'
  BY <1>1 DEF RecTypes
<1> QED BY <1>1, <1>3, <1>4, <1>5, <1>6, SlotsKept

(* A materialization begins. *)
LEMMA SlotsStart ==
  ASSUME RecTypes, SlotInv, NEW m \in RunTask, NEW t \in Template, Starting(m, t)
  PROVE  SlotInv'
<1>1. /\ RecTypes' /\ UNCHANGED <<clock, nextRun, runs>> /\ ExcusesStay
      /\ task[m].at = "free" /\ \A k \in RunTask \ {m} : task'[k] = task[k]
      /\ task'[m].at = "read" /\ task'[m].of = t
      /\ \/ task'[m].manual /\ inFlight' = inFlight
         \/ /\ ~task'[m].manual /\ t \notin inFlight /\ inFlight' = inFlight \cup {t}
            /\ excuse'[t] = {} => IsDue(t)
  BY StartKeeps DEF ExcusesStay
<1>2. \A k \in RunTask \ {m} : (Scheduled(k)' <=> Scheduled(k)) /\ task'[k] = task[k]
  BY <1>1 DEF Scheduled
<1>3. ~Scheduled(m) /\ (Scheduled(m)' => ~task'[m].manual)
  BY <1>1 DEF Scheduled
<1>4. OneAtATime'
  <2>1. \A k \in RunTask : Scheduled(k)' => task'[k].of \in inFlight'
    BY <1>1, <1>2, <1>3 DEF SlotInv, OneAtATime
  <2>2. ASSUME NEW k \in RunTask, NEW j \in RunTask, Scheduled(k)', Scheduled(j)',
               task'[k].of = task'[j].of
        PROVE  k = j
    <3>1. \A x \in RunTask \ {m} : Scheduled(x)' => task'[x].of \in inFlight
      BY <1>2 DEF SlotInv, OneAtATime
    <3>2. CASE k # m /\ j # m
      BY <2>2, <3>2, <1>2 DEF SlotInv, OneAtATime
    <3> QED BY <1>1, <1>3, <2>2, <3>1, <3>2
  <2> QED BY <2>1, <2>2 DEF OneAtATime
<1>5. \A k \in RunTask : SlotInHand(k) => SlotInHand(k)'
  <2> TAKE k \in RunTask
  <2>1. CASE k = m
    <3>1. Scheduled(m)' /\ excuse'[t] = {} => nextRun[t] <= clock
      BY <1>1, <1>3 DEF IsDue
    <3> QED BY <1>1, <2>1, <3>1 DEF SlotInHand, Writes
  <2>2. CASE k # m
    <3> SUFFICES ASSUME SlotInHand(k), Scheduled(k)', excuse'[task'[k].of] = {}
                 PROVE  /\ task'[k].at # "end" => nextRun[task'[k].of] <= clock
                        /\ task'[k].at \in Writes => task'[k].slot = nextRun[task'[k].of]
      BY <1>1 DEF SlotInHand
    <3>1. task'[k] = task[k] /\ Scheduled(k) /\ task[k].of \in Template
      BY <1>2, <2>2 DEF RecTypes, Tasks, TaskOf
    <3>2. excuse[task[k].of] = {}
      BY <1>1, <3>1 DEF ExcusesStay
    <3> QED BY <3>1, <3>2 DEF SlotInHand
  <2> QED BY <2>1, <2>2
<1>6. \A k \in RunTask : Scheduled(k) /\ task[k].at = "advance" =>
        Scheduled(k)' /\ task'[k].of = task[k].of /\ task'[k].at = "advance"
  BY <1>2, <1>3
<1>7. clock <= clock'
  BY <1>1 DEF RecTypes
<1> QED BY <1>1, <1>4, <1>5, <1>6, <1>7, SlotsKept

(* Time that passes makes nothing due undue. *)
LEMMA SlotsAside == ASSUME RecTypes, SlotInv, Aside PROVE SlotInv'
<1>1. /\ UNCHANGED <<task, runs, nextRun, excuse>> /\ RecTypes' /\ inFlight' = inFlight
      /\ clock <= clock'
  BY AsideKeeps
<1>2. \A k \in RunTask : (Scheduled(k)' <=> Scheduled(k)) /\ task'[k] = task[k]
  BY <1>1 DEF Scheduled
<1>3. OneAtATime'
  BY <1>1, <1>2 DEF SlotInv, OneAtATime
<1>4. ASSUME NEW k \in RunTask, SlotInHand(k) PROVE SlotInHand(k)'
  <2>1. task[k].of \in Template /\ nextRun[task[k].of] \in Nat /\ clock \in Nat /\ clock' \in Nat
    BY <1>1 DEF RecTypes, Tasks, TaskOf
  <2> QED BY <1>1, <1>2, <1>4, <2>1 DEF SlotInHand
<1>5. ExcusesStay
  BY <1>1 DEF ExcusesStay
<1>6. \A k \in RunTask : Scheduled(k) /\ task[k].at = "advance" =>
        Scheduled(k)' /\ task'[k].of = task[k].of /\ task'[k].at = "advance"
  BY <1>1, <1>2
<1> QED BY <1>1, <1>3, <1>4, <1>5, <1>6, SlotsKept

(* The slots through a materialization. *)
LEMMA SlotsMove ==
  ASSUME RecTypes, NumberInv, SlotInv, NEW m \in RunTask, Materialize(m)
  PROVE  SlotInv'
<1>0. RecTypes' /\ Tasks /\ nextRun \in [Template -> Nat]
  BY MoveTypes DEF RecTypes
<1>1. CASE ReadTemplate(m)
  <2>1. UNCHANGED <<clock, runs, nextRun, inFlight, excuse>> /\ task[m].at = "read"
    BY <1>1 DEF ReadTemplate, TaskAt, recRows
  <2>2. /\ task'[m].of = task[m].of /\ task'[m].manual = task[m].manual /\ task'[m].at = "number"
        /\ task'[m].slot = nextRun[task[m].of] /\ \A k \in RunTask \ {m} : task'[k] = task[k]
    BY <1>0, <1>1, Reads
  <2>3. task[m].at \notin {"free", "advance", "end"} /\ task'[m].at \in Writes \ {"advance"}
    BY <2>1, <2>2 DEF Writes
  <2> QED BY <1>0, <2>1, <2>2, <2>3, SlotsRead
<1>2. CASE ReadNumber(m) \/ CreateOrder(m) \/ ClaimOrder(m)
  <2>1. /\ UNCHANGED <<clock, runs, nextRun, inFlight, excuse>>
        /\ task[m].at \in {"number", "create", "claim"}
    BY <1>2 DEF ReadNumber, CreateOrder, ClaimOrder, TaskAt, recRows
  <2>2. /\ task'[m].of = task[m].of /\ task'[m].manual = task[m].manual
        /\ task'[m].at \in {"create", "claim", "record"}
        /\ task'[m].slot = task[m].slot /\ \A k \in RunTask \ {m} : task'[k] = task[k]
    BY <1>0, <1>2, Numbers, Creates, WinsClaim DEF Kept
  <2>3. /\ task[m].at \notin {"free", "advance", "end"} /\ task[m].at \in Writes
        /\ task'[m].at \in Writes \ {"advance"}
    BY <2>1, <2>2 DEF Writes
  <2> QED BY <1>0, <2>1, <2>2, <2>3, SlotsRead
<1> QED BY <1>0, <1>1, <1>2, SlotsRecorded, SlotsAdvance, SlotsEnd DEF Materialize

-----------------------------------------------------------------------------
(* All together. *)
RecInv == RecTypes /\ NumberInv /\ HeldInv /\ SlotInv

(* Every step keeps the invariant. *)
LEMMA RecStep == RecInv /\ [RecurringNext]_recVars => RecInv'
<1> SUFFICES ASSUME RecInv, [RecurringNext]_recVars PROVE RecInv'
  OBVIOUS
<1> USE DEF RecInv
<1>1. CASE Aside
  <2>1. /\ UNCHANGED <<task, runs, nextRun, excuse, faults>> /\ RecTypes'
        /\ \A s \in Order : order'[s] = "HELD" => order[s] = "HELD"
    BY <1>1, AsideKeeps
  <2>2. NumberInv'
    BY <2>1, NumbersKept
  <2>3. HeldInv'
    BY <2>1 DEF HeldInv, ClaimedIsExecuted
  <2> QED BY <1>1, <2>1, <2>2, <2>3, SlotsAside
<1>2. ASSUME NEW m \in RunTask, Materialize(m) PROVE RecInv'
  <2>0. Tasks /\ nextRun \in [Template -> Nat]
    BY DEF RecTypes
  <2>1. NumberInv'
    <3>1. CASE ReadTemplate(m) \/ AdvanceTemplate(m) \/ EndTask(m)
      <4>1. runs' = runs
        BY <3>1 DEF ReadTemplate, AdvanceTemplate, EndTask, recRows
      <4>2. /\ task'[m].at \in {"number", "end", "free"}
            /\ \A k \in RunTask \ {m} : task'[k] = task[k]
        BY <2>0, <3>1, Reads, Records, Frees DEF Kept, EndTask
      <4> QED BY <4>1, <4>2, NumbersKept
    <3>2. CASE ReadNumber(m)
      <4>1. runs' = runs
        BY <3>2 DEF ReadNumber, recRows
      <4> QED BY <3>2, <4>1, Numbers, NumberInHand
    <3>3. CASE CreateOrder(m)
      <4>1. runs' = runs /\ task[m].at = "create"
        BY <3>3 DEF CreateOrder, TaskAt
      <4> QED BY <2>0, <3>3, <4>1, Creates, NumberInHand
    <3>4. CASE ClaimOrder(m)
      <4>1. runs' = runs /\ task[m].at = "claim"
        BY <3>4 DEF ClaimOrder, TaskAt
      <4>2. task[m].order \in Order
        BY <4>1 DEF NumberInv
      <4>3. /\ Kept(m) /\ task'[m].order = task[m].order
            /\ task'[m].number = task[m].number /\ task'[m].seen = task[m].seen
        BY <2>0, <3>4, WinsClaim DEF Kept
      <4> QED BY <4>1, <4>2, <4>3, NumberInHand
    <3> QED BY <1>2, <3>1, <3>2, <3>3, <3>4, NumberRecorded DEF Materialize
  <2> QED BY <1>2, <2>1, MoveTypes, HeldMoves, SlotsMove
<1>3. ASSUME NEW m \in RunTask, NEW t \in Template, Starting(m, t)
      PROVE  RecInv'
  <2>1. /\ RecTypes' /\ UNCHANGED <<order, runs, faults>>
        /\ task[m].at = "free" /\ \A k \in RunTask \ {m} : task'[k] = task[k]
        /\ task'[m].at = "read" /\ task'[m].won = FALSE
    BY <1>3, StartKeeps
  <2>2. NumberInv'
    BY <2>1, NumbersKept
  <2>3. HeldInv'
    <3>1. task[m].won = FALSE
      BY <2>1 DEF HeldInv
    <3> QED BY <2>1, <3>1, HeldKept
  <2> QED BY <1>3, <2>1, <2>2, <2>3, SlotsStart
<1>4. CASE Crash \/ \E m \in RunTask : FailTask(m)
  <2>1. /\ RecTypes' /\ runs' = runs /\ faults' > 0
        /\ \A k \in RunTask : task'[k] = task[k] \/ (task'[k].at = "free" /\ task'[k].won = FALSE)
    BY <1>4, FaultKeeps
  <2>2. NumberInv'
    BY <2>1, NumbersKept
  <2>3. HeldInv'
    BY <2>1 DEF HeldInv, ClaimedIsExecuted
  <2> QED BY <1>4, <2>1, <2>2, <2>3, SlotsFault
<1>5. \/ Aside
      \/ \E m \in RunTask : Materialize(m)
      \/ \E m \in RunTask, t \in Template : Starting(m, t)
      \/ Crash \/ \E m \in RunTask : FailTask(m)
  BY Zenon DEF RecurringNext, WalkDue, Aside, Starting
<1> QED BY <1>1, <1>2, <1>3, <1>4, <1>5

(* The inductive invariant of recurring work orders. *)
THEOREM RecurringInductive == RecurringSpec => []RecInv
<1>1. RecurringInit => RecInv
  <2> SUFFICES ASSUME RecurringInit PROVE RecInv
    OBVIOUS
  <2>1. RecTypes /\ NumberInv /\ ClaimedIsExecuted
    BY RecBegins
  <2>2. /\ \A k \in RunTask : task[k].at = "free" /\ task[k].won = FALSE
        /\ runs = <<>>
    BY FreeTask DEF RecurringInit
  <2>3. SlotInv
    BY <2>2 DEF SlotInv, OneAtATime, SlotInHand, SlotTakenOnce, Scheduled
  <2> QED BY <2>1, <2>2, <2>3 DEF RecInv, HeldInv
<1> QED BY <1>1, RecStep, PTL DEF RecurringSpec

(* Type correctness of recurring work orders: columns, tasks and counters. *)
THEOREM RecurringTypesHold == RecurringSpec => []RecurringTypeOK
<1> DEFINE Counts == clock \in 0 .. MaxClock /\ manuals \in Nat
<1>1. RecurringInit => Counts
  BY RecurringAssumption DEF RecurringInit
<1>2. Counts /\ [RecurringNext]_recVars => Counts'
  <2> SUFFICES ASSUME Counts, [RecurringNext]_recVars PROVE Counts'
    OBVIOUS
  <2>1. CASE Advance
    BY <2>1, RecurringAssumption DEF Advance
  <2>2. ASSUME NEW t \in Template, NEW m \in RunTask, TriggerNow(m, t) PROVE Counts'
    BY <2>2 DEF TriggerNow
  <2>3. ASSUME UNCHANGED <<clock, manuals>> PROVE Counts'
    BY <2>3
  <2> QED BY <2>1, <2>2, <2>3
          DEF RecurringNext, recVars, DueTick, Crash, WalkDue, SkipDue, SpawnTask, Materialize, ReadTemplate,
              ReadNumber, CreateOrder, ClaimOrder, RecordRun, AdvanceTemplate, EndTask, FailTask, OthersTake
<1>3. RecTypes /\ Counts => RecurringTypeOK
  BY DEF RecTypes, Tasks, TaskOf, RunOf, RecurringTypeOK
<1>4. RecInv => RecTypes
  BY DEF RecInv
<1> QED BY <1>1, <1>2, <1>3, <1>4, RecurringInductive, PTL DEF RecurringSpec

(* next_recurring_run_number and create_recurring_run are separate calls: two
   runs of a template share a number only if the later one's was read before
   the earlier one was recorded. *)
THEOREM NumbersClashInOverlaps == RecurringSpec => []NumbersClashOnlyInOverlap
<1>1. RecInv => NumbersClashOnlyInOverlap
  BY DEF RecInv, NumberInv
<1> QED BY <1>1, RecurringInductive, PTL

(* in_flight, the list of due templates and the advance of next_run_at
   together give a slot one scheduled run, unless a manual trigger put the
   template back, the list had gone stale or a fault came between. *)
THEOREM SlotsAreTakenOnce == RecurringSpec => []SlotTakenOnce
<1>1. RecInv => SlotTakenOnce
  BY DEF RecInv, SlotInv
<1> QED BY <1>1, RecurringInductive, PTL

(* An order that materialize_recurring_template_run claimed is executed or is
   in the hands of the task that will, until a fault. *)
THEOREM ClaimsAreExecuted == RecurringSpec => []ClaimedIsExecuted
<1>1. RecInv => ClaimedIsExecuted
  BY DEF RecInv, HeldInv
<1> QED BY <1>1, RecurringInductive, PTL
-----------------------------------------------------------------------------
(* A year has 365 or 366 days, and years follow one another. *)
LEMMA Years ==
  ASSUME NEW y \in Int
  PROVE  /\ YearStart(y) \in Int
         /\ YearStart(y + 1) - YearStart(y) = IF Leap(y) THEN 366 ELSE 365
         /\ y >= 1970 => YearStart(y) >= 365 * (y - 1970) /\ YearStart(y) <= 366 * (y - 1970)
         /\ \A z \in Int : y < z => YearStart(y + 1) <= YearStart(z)
<1>1. YearStart(y) \in Int /\ YearStart(y + 1) - YearStart(y) = IF Leap(y) THEN 366 ELSE 365
  BY DEF YearStart, Leap
<1>2. y >= 1970 => YearStart(y) >= 365 * (y - 1970) /\ YearStart(y) <= 366 * (y - 1970)
  BY DEF YearStart
<1>3. \A z \in Int : y < z => YearStart(y + 1) <= YearStart(z)
  BY DEF YearStart
<1> QED BY <1>1, <1>2, <1>3

(* The months of a year follow one another and fill it. *)
LEMMA Months ==
  ASSUME NEW y \in Int, NEW m \in 0..11
  PROVE  /\ MonthStart(y, m) \in Int /\ DaysInMonth(y, m) \in 28..31
         /\ MonthStart(y, 0) = YearStart(y)
         /\ m = 11 => MonthStart(y, m) + DaysInMonth(y, m) = YearStart(y + 1)
         /\ m < 11 => MonthStart(y, m) + DaysInMonth(y, m) = MonthStart(y, m + 1)
         /\ \A n \in 0..11 : m < n => MonthStart(y, m) + DaysInMonth(y, m) <= MonthStart(y, n)
<1> DEFINE a == YearStart(y)
           b == YearStart(y + 1)
<1>1. a \in Int /\ b - a = (IF Leap(y) THEN 366 ELSE 365) /\ b \in Int
  BY Years
<1>2. m \in {0, 1, 2, 3, 4, 5, 6, 7, 8, 9, 10, 11}
  OBVIOUS
<1> DEFINE table == <<0, 31, 59, 90, 120, 151, 181, 212, 243, 273, 304, 334>>
           late == IF b - a = 366 THEN 1 ELSE 0
<1>3. \A n \in 0..11 : MonthStart(y, n) = a + table[n + 1] + (IF n > 1 THEN late ELSE 0)
  BY <1>1 DEF MonthStart
<1>4. DaysInMonth(y, m) = IF m = 1 THEN 28 + late ELSE IF m \in {3, 5, 8, 10} THEN 30 ELSE 31
  BY <1>1, <1>2 DEF DaysInMonth
<1>5. late \in {0, 1}
  OBVIOUS
<1> HIDE DEF a, b, late
<1>6. /\ MonthStart(y, m) \in Int /\ DaysInMonth(y, m) \in 28..31 /\ MonthStart(y, 0) = a
  BY <1>1, <1>2, <1>3, <1>4, <1>5
<1>7. m = 11 => MonthStart(y, m) + DaysInMonth(y, m) = b
  BY <1>1, <1>3, <1>4, <1>5 DEF late
<1>8. \A n \in 0..11 : m < n => MonthStart(y, m) + DaysInMonth(y, m) <= MonthStart(y, n)
  <2> SUFFICES ASSUME NEW n \in 0..11, m < n PROVE MonthStart(y, m) + DaysInMonth(y, m) <= MonthStart(y, n)
    OBVIOUS
  <2>1. n \in {0, 1, 2, 3, 4, 5, 6, 7, 8, 9, 10, 11}
    OBVIOUS
  <2> QED BY <1>1, <1>2, <1>3, <1>4, <1>5, <2>1
<1>9. m < 11 => MonthStart(y, m) + DaysInMonth(y, m) = MonthStart(y, m + 1)
  BY <1>1, <1>2, <1>3, <1>4, <1>5
<1> QED BY <1>6, <1>7, <1>8, <1>9 DEF a, b

MonthEnd(y, m) == MonthStart(y, m) + DaysInMonth(y, m)
Before(y, m, z, n) == y < z \/ (y = z /\ m < n)

(* The same, fact by fact. *)
LEMMA MonthSpan ==
  ASSUME NEW y \in Int, NEW m \in 0..11
  PROVE  /\ MonthStart(y, m) \in Int /\ MonthEnd(y, m) \in Int /\ MonthStart(y, m) < MonthEnd(y, m)
         /\ DaysInMonth(y, m) \in 28..31
         /\ m < 11 => MonthEnd(y, m) = MonthStart(y, m + 1)
         /\ m = 11 => MonthEnd(y, m) = YearStart(y + 1)
         /\ m = 0 => MonthStart(y, m) = YearStart(y)
<1>1. /\ MonthStart(y, m) \in Int /\ DaysInMonth(y, m) \in 28..31
      /\ m < 11 => MonthStart(y, m) + DaysInMonth(y, m) = MonthStart(y, m + 1)
      /\ m = 11 => MonthStart(y, m) + DaysInMonth(y, m) = YearStart(y + 1)
      /\ MonthStart(y, 0) = YearStart(y)
  BY Months
<1> QED BY <1>1 DEF MonthEnd

(* A month of a year ends before a later one of it starts. *)
LEMMA MonthOrder ==
  ASSUME NEW y \in Int, NEW m \in 0..11, NEW n \in 0..11, m < n
  PROVE  MonthEnd(y, m) <= MonthStart(y, n)
<1>1. \A k \in 0..11 : m < k => MonthStart(y, m) + DaysInMonth(y, m) <= MonthStart(y, k)
  BY Months
<1> QED BY <1>1 DEF MonthEnd

(* Months that come later start later. *)
LEMMA MonthsFollow ==
  ASSUME NEW y \in Int, NEW z \in Int, NEW m \in 0..11, NEW n \in 0..11, Before(y, m, z, n)
  PROVE  MonthEnd(y, m) <= MonthStart(z, n)
<1>0. 0 \in 0..11 /\ 11 \in 0..11
  OBVIOUS
<1>1. CASE y = z
  <2>1. m < n
    BY <1>1 DEF Before
  <2> QED BY <1>1, <2>1, MonthOrder
<1>2. CASE y < z
  <2>1. /\ MonthEnd(y, 11) = YearStart(y + 1) /\ MonthStart(y, 11) < MonthEnd(y, 11)
        /\ MonthStart(y, 11) \in Int /\ MonthEnd(y, 11) \in Int
    BY <1>0, MonthSpan
  <2>2. /\ MonthStart(z, 0) = YearStart(z) /\ MonthStart(z, 0) < MonthEnd(z, 0)
        /\ MonthStart(z, 0) \in Int /\ MonthEnd(z, 0) \in Int
    BY <1>0, MonthSpan
  <2>3. MonthEnd(y, m) \in Int /\ MonthStart(z, n) \in Int
    BY MonthSpan
  <2>4. m # 11 => MonthEnd(y, m) <= MonthStart(y, 11)
    BY <1>0, MonthOrder
  <2>5. n # 0 => MonthEnd(z, 0) <= MonthStart(z, n)
    BY <1>0, MonthOrder
  <2>6. YearStart(y + 1) <= YearStart(z)
    BY <1>2, Years
  <2> HIDE DEF MonthEnd
  <2> QED BY <2>1, <2>2, <2>3, <2>4, <2>5, <2>6
<1> QED BY <1>1, <1>2 DEF Before

(* No month from 1970 on starts before the first instant. *)
LEMMA MonthsFromStart ==
  ASSUME NEW y \in Int, NEW m \in 0..11
  PROVE  y >= 1970 => MonthStart(y, m) \in Nat
<1>0. 0 \in 0..11
  OBVIOUS
<1>1. YearStart(y) \in Int /\ (y >= 1970 => YearStart(y) >= 365 * (y - 1970))
  BY Years
<1>2. MonthStart(y, 0) = YearStart(y) /\ MonthStart(y, 0) < MonthEnd(y, 0) /\ MonthEnd(y, 0) \in Int
  <2>1. MonthStart(y, 0) < MonthEnd(y, 0) /\ MonthEnd(y, 0) \in Int
    BY <1>0, MonthSpan
  <2>2. MonthStart(y, 0) = YearStart(y)
    BY Months
  <2> QED BY <2>1, <2>2
<1>3. MonthStart(y, m) \in Int
  BY MonthSpan
<1>4. m # 0 => MonthEnd(y, 0) <= MonthStart(y, m)
  BY <1>0, MonthOrder
<1> QED BY <1>1, <1>2, <1>3, <1>4

(* The calendar's year of an instant. *)
LEMMA YearIs ==
  ASSUME NEW t \in Nat
  PROVE  /\ YearOf(t) \in Int /\ YearOf(t) >= 1970
         /\ YearStart(YearOf(t)) <= t \div Day /\ t \div Day < YearStart(YearOf(t) + 1)
<1> DEFINE d == t \div Day
           range == 1970 + d \div 366 .. 1970 + d \div 365
           past == {k \in 1 .. d \div 365 + 1 : YearStart(1969 + k) <= d}
<1>1. d \in Nat
  BY DEF Day, Hour
<1> HIDE DEF d
<1>2. 1 \in past
  BY <1>1 DEF YearStart
<1>3. d \div 365 + 1 \in Nat /\ past \in SUBSET (1 .. d \div 365 + 1)
  BY <1>1
<1>4. PICK k \in past : \A m \in past : m <= k
  <2> HIDE DEF past
  <2> QED BY <1>2, <1>3, Greatest
<1>5. k \in Nat /\ k >= 1 /\ k <= d \div 365 + 1 /\ YearStart(1969 + k) <= d
  BY <1>1, <1>4
<1>6. d < YearStart(1970 + k)
  <2>1. CASE k = d \div 365 + 1
    <3>1. YearStart(1970 + k) >= 365 * k
      BY <1>5, Years
    <3> QED BY <1>1, <2>1, <3>1, <1>5, Years
  <2>2. CASE k < d \div 365 + 1
    <3>1. k + 1 \in 1 .. d \div 365 + 1 /\ ~ (k + 1 <= k) /\ 1969 + (k + 1) = 1970 + k
      BY <1>1, <1>5, <2>2
    <3>2. ~ (YearStart(1970 + k) <= d)
      BY <1>4, <3>1
    <3>3. YearStart(1970 + k) \in Int
      BY <1>5, Years
    <3> QED BY <1>1, <3>2, <3>3
  <2> QED BY <1>1, <1>5, <2>1, <2>2
<1>7. 1969 + k \in range
  <2>1. YearStart(1970 + k) <= 366 * k /\ YearStart(1970 + k) \in Int
    BY <1>5, Years
  <2>2. d < 366 * k
    BY <1>1, <1>5, <1>6, <2>1
  <2>3. d \div 366 < k
    BY <1>1, <1>5, <2>2
  <2> QED BY <1>1, <1>5, <2>3
<1>8. (1969 + k) + 1 = 1970 + k
  BY <1>5
<1>9. \E y \in range : YearStart(y) <= d /\ d < YearStart(y + 1)
  <2> HIDE DEF range
  <2> QED BY <1>5, <1>6, <1>7, <1>8
<1>10. YearOf(t) \in range /\ YearStart(YearOf(t)) <= d /\ d < YearStart(YearOf(t) + 1)
  <2> HIDE DEF range
  <2>1. YearOf(t) = CHOOSE y \in range : YearStart(y) <= d /\ d < YearStart(y + 1)
    BY DEF YearOf, d, range
  <2> QED BY <1>9, <2>1
<1> QED BY <1>1, <1>10 DEF d

(* The calendar's month of an instant. *)
LEMMA MonthIs ==
  ASSUME NEW t \in Nat
  PROVE  /\ YearOf(t) \in Int /\ YearOf(t) >= 1970 /\ MonthOf(t) \in 0..11
         /\ MonthStart(YearOf(t), MonthOf(t)) <= t \div Day
         /\ t \div Day < MonthEnd(YearOf(t), MonthOf(t))
<1>1. PICK y \in Int : y = YearOf(t)
  BY YearIs
<1>2. PICK d \in Nat : d = t \div Day
  BY DEF Day, Hour
<1>3. y >= 1970 /\ YearStart(y) <= d /\ d < YearStart(y + 1) /\ YearStart(y) \in Int /\ YearStart(y + 1) \in Int
  BY <1>1, <1>2, YearIs, Years
<1> DEFINE past == {k \in 1..12 : MonthStart(y, k - 1) <= d}
<1>4. PICK k \in past : \A m \in past : m <= k
  <2>1. 1 \in past
    BY <1>3, Months
  <2>2. past \in SUBSET (1..12) /\ 12 \in Nat
    OBVIOUS
  <2> HIDE DEF past
  <2> QED BY <2>1, <2>2, Greatest
<1> DEFINE Good(m) == MonthStart(y, m) <= d /\ (m < 11 => d < MonthStart(y, m + 1))
<1>5. k - 1 \in 0..11 /\ Good(k - 1)
  <2>1. k \in 1..12 /\ MonthStart(y, k - 1) <= d
    BY <1>4
  <2>2. ASSUME k - 1 < 11 PROVE d < MonthStart(y, (k - 1) + 1)
    <3>1. k + 1 \in 1..12 /\ ~ (k + 1 <= k) /\ (k + 1) - 1 = k /\ (k - 1) + 1 = k /\ k \in 0..11
      BY <2>1, <2>2
    <3>2. ~ (MonthStart(y, k) <= d)
      BY <1>4, <3>1
    <3>3. MonthStart(y, k) \in Int
      BY <3>1, Months
    <3> QED BY <3>1, <3>2, <3>3
  <2> QED BY <2>1, <2>2
<1>6. MonthOf(t) = CHOOSE m \in 0..11 : Good(m)
  BY <1>1, <1>2 DEF MonthOf
<1> HIDE DEF Good
<1>7. MonthOf(t) \in 0..11 /\ Good(MonthOf(t))
  BY <1>5, <1>6
<1>8. PICK m \in 0..11 : m = MonthOf(t)
  BY <1>7
<1>9. d < MonthEnd(y, m)
  <2>1. /\ m < 11 => MonthEnd(y, m) = MonthStart(y, m + 1)
        /\ m = 11 => MonthEnd(y, m) = YearStart(y + 1)
    BY MonthSpan
  <2>2. m < 11 => d < MonthStart(y, m + 1)
    BY <1>7, <1>8 DEF Good
  <2> QED BY <1>3, <2>1, <2>2
<1> QED BY <1>1, <1>2, <1>3, <1>7, <1>8, <1>9 DEF Good

(* An instant within a month is of that month. *)
LEMMA MonthUnique ==
  ASSUME NEW t \in Nat, NEW y \in Int, NEW m \in 0..11,
         MonthStart(y, m) <= t \div Day, t \div Day < MonthEnd(y, m)
  PROVE  YearOf(t) = y /\ MonthOf(t) = m
<1>1. PICK z \in Int : z = YearOf(t)
  BY MonthIs
<1>2. PICK n \in 0..11 : n = MonthOf(t)
  BY MonthIs
<1>3. PICK d \in Nat : d = t \div Day
  BY DEF Day, Hour
<1>4. MonthStart(z, n) <= d /\ d < MonthEnd(z, n)
  BY <1>1, <1>2, <1>3, MonthIs
<1>5. MonthStart(z, n) \in Int /\ MonthEnd(z, n) \in Int /\ MonthStart(y, m) \in Int /\ MonthEnd(y, m) \in Int
  BY MonthSpan
<1>6. ~ Before(y, m, z, n) /\ ~ Before(z, n, y, m)
  BY <1>3, <1>4, <1>5, MonthsFollow
<1> QED BY <1>1, <1>2, <1>6 DEF Before

(* What a schedule's fields are read as. *)
LEMMA Fields ==
  ASSUME NEW s \in ScheduleRow
  PROVE  /\ TimeOfDay(s) \in 0..1439 /\ Interval(s) \in Nat \ {0}
         /\ Clamp(OrElse(s.minute, 0), 0, 59) \in 0..59
         /\ TimeOfDay(s) % Hour = Clamp(OrElse(s.minute, 0), 0, 59)
         /\ \A t \in Nat : DayOfMonth(t) \in Int => MonthlyDay(s, t) \in 1..31
         /\ Weekdays(s) \subseteq 0..6 /\ Weekdays(s) # {}
<1>1. /\ s.interval \in Int /\ s.hour \in Int /\ s.minute \in Int /\ s.daysOfWeek \subseteq Int
      /\ s.dayOfMonth \in Int
  BY DEF ScheduleRow
<1>2. \A x \in Int : /\ Clamp(x, 0, 59) \in 0..59 /\ Clamp(x, 0, 23) \in 0..23
                     /\ Clamp(x, 1, 31) \in 1..31 /\ Clamp(x, 0, 6) \in 0..6
  BY DEF Clamp
<1>3. OrElse(s.minute, 0) \in Int /\ OrElse(s.hour, 9) \in Int
  BY <1>1 DEF OrElse
<1>4. Clamp(OrElse(s.minute, 0), 0, 59) \in 0..59 /\ Clamp(OrElse(s.hour, 9), 0, 23) \in 0..23
  BY <1>1, <1>2, <1>3
<1>5. TimeOfDay(s) \in 0..1439 /\ TimeOfDay(s) % Hour = Clamp(OrElse(s.minute, 0), 0, 59)
  BY <1>4 DEF TimeOfDay, Hour
<1>6. Interval(s) \in Nat \ {0}
  BY <1>1 DEF Interval
<1>7. \A t \in Nat : DayOfMonth(t) \in Int => MonthlyDay(s, t) \in 1..31
  <2> SUFFICES ASSUME NEW t \in Nat, DayOfMonth(t) \in Int PROVE MonthlyDay(s, t) \in 1..31
    OBVIOUS
  <2>1. OrElse(s.dayOfMonth, DayOfMonth(t)) \in Int
    BY <1>1 DEF OrElse
  <2> QED BY <1>2, <2>1 DEF MonthlyDay
<1>8. \A d \in Int : SanitizeDay(d) \in 0..6
  BY <1>2 DEF SanitizeDay
<1>9. Weekdays(s) \subseteq 0..6 /\ Weekdays(s) # {}
  BY <1>1, <1>8 DEF Weekdays
<1> QED BY <1>4, <1>5, <1>6, <1>7, <1>9

(* The hourly cadence: the minute of this hour, or of the one interval hours on. *)
LEMMA Hourly ==
  ASSUME NEW s \in ScheduleRow, NEW from \in Nat
  PROVE  /\ NextHourly(s, from) \in Nat /\ NextHourly(s, from) > from
         /\ NextHourly(s, from) % Hour = TimeOfDay(s) % Hour
         /\ Interval(s) = 1 =>
              \A t \in Int : from < t /\ t < NextHourly(s, from) => t % Hour # TimeOfDay(s) % Hour
<1> DEFINE m == Clamp(OrElse(s.minute, 0), 0, 59)
           c == from - (from % Hour) + m
           i == Interval(s)
<1>1. m \in 0..59 /\ TimeOfDay(s) % Hour = m /\ i \in Nat \ {0}
  BY Fields
<1>2. NextHourly(s, from) = IF c <= from THEN c + Hour * i ELSE c
  BY DEF NextHourly
<1> HIDE DEF m, i
<1>3. c \in Nat /\ c % Hour = m /\ c + Hour > from /\ c - Hour < from
  BY <1>1 DEF Hour
<1> HIDE DEF c
<1>4. NextHourly(s, from) \in Nat /\ NextHourly(s, from) > from /\ NextHourly(s, from) % Hour = m
  BY <1>1, <1>2, <1>3 DEF Hour
<1>5. ASSUME i = 1, NEW t \in Int, from < t, t < NextHourly(s, from) PROVE t % Hour # m
  <2> SUFFICES ASSUME t % Hour = m PROVE FALSE
    OBVIOUS
  <2>1. CASE c <= from
    BY <1>1, <1>2, <1>3, <1>5, <2>1 DEF Hour
  <2>2. CASE ~ (c <= from)
    BY <1>1, <1>2, <1>3, <1>5, <2>2 DEF Hour
  <2> QED BY <2>1, <2>2
<1> QED BY <1>1, <1>4, <1>5 DEF i

(* A day's time. *)
At(d, s) == d * Day + TimeOfDay(s)

(* The day and the time of day of an instant of a schedule. *)
LEMMA AtDay ==
  ASSUME NEW s \in ScheduleRow, NEW d \in Int
  PROVE  /\ At(d, s) \in Int /\ At(d, s) \div Day = d /\ At(d, s) % Day = TimeOfDay(s)
         /\ d \in Nat => At(d, s) \in Nat
<1>1. PICK r \in 0..1439 : r = TimeOfDay(s)
  BY Fields
<1>2. At(d, s) = d * Day + r
  BY <1>1 DEF At
<1>3. /\ (d * Day + r) \div Day = d /\ (d * Day + r) % Day = r /\ d * Day + r \in Int
      /\ d \in Nat => d * Day + r \in Nat
  BY DEF Day, Hour
<1> QED BY <1>1, <1>2, <1>3

(* Instants of a schedule are in the order of their days. *)
LEMMA AtOrder ==
  ASSUME NEW s \in ScheduleRow, NEW d \in Int
  PROVE  /\ \A e \in Int : At(d, s) < At(e, s) <=> d < e
         /\ \A t \in Nat : d > t \div Day => At(d, s) > t
         /\ \A t \in Nat : At(d, s) > t => d >= t \div Day
         /\ \A t \in Nat : At(d, s) <= t => d <= t \div Day
<1>1. TimeOfDay(s) \in 0..1439
  BY Fields
<1> QED BY <1>1 DEF At, Day, Hour

(* Midnight returns the start of the day. *)
LEMMA MidnightIs ==
  ASSUME NEW t \in Nat
  PROVE  t \div Day \in Nat /\ Midnight(t) = (t \div Day) * Day
BY DEF Midnight, Day, Hour

(* The daily cadence: the time of this day, or of the one interval days on. *)
LEMMA Daily ==
  ASSUME NEW s \in ScheduleRow, NEW from \in Nat
  PROVE  /\ NextDaily(s, from) \in Nat /\ NextDaily(s, from) > from
         /\ NextDaily(s, from) % Day = TimeOfDay(s)
         /\ Interval(s) = 1 =>
              \A d \in Int : from < At(d, s) => ~ (At(d, s) < NextDaily(s, from))
<1>1. PICK f \in Nat : f = from \div Day
  BY MidnightIs
<1>2. PICK i \in Nat \ {0} : i = Interval(s)
  BY Fields
<1>3. NextDaily(s, from) = IF At(f, s) <= from THEN At(f + i, s) ELSE At(f, s)
  <2>1. Midnight(from) + TimeOfDay(s) = At(f, s)
    BY <1>1, MidnightIs DEF At
  <2>2. At(f, s) + Day * i = At(f + i, s)
    BY <1>1, <1>2, Fields DEF At, Day, Hour
  <2> QED BY <1>2, <2>1, <2>2 DEF NextDaily
<1>4. /\ At(f, s) \in Nat /\ At(f + i, s) \in Nat
      /\ At(f, s) % Day = TimeOfDay(s) /\ At(f + i, s) % Day = TimeOfDay(s)
  <2>1. f + i \in Nat /\ f \in Int /\ f + i \in Int
    OBVIOUS
  <2> QED BY <2>1, AtDay
<1>5. At(f + i, s) > from
  BY <1>1, <1>2, AtOrder
<1>6. ASSUME i = 1, NEW d \in Int, from < At(d, s), At(d, s) < NextDaily(s, from) PROVE FALSE
  <2>1. CASE At(f, s) <= from
    <3>1. At(f, s) < At(d, s) /\ At(d, s) < At(f + 1, s)
      BY <1>3, <1>4, <1>6, <2>1, AtDay
    <3>2. f < d /\ d < f + 1
      BY <3>1, AtOrder
    <3> QED BY <3>2
  <2>2. CASE ~ (At(f, s) <= from)
    <3>1. At(d, s) < At(f, s)
      BY <1>3, <1>6, <2>2
    <3>2. d < f /\ d >= f
      BY <1>1, <1>6, <3>1, AtOrder
    <3> QED BY <3>2
  <2> QED BY <2>1, <2>2
<1> QED BY <1>2, <1>3, <1>4, <1>5, <1>6

(* The weekly cadence: the first day from this one on that fits. *)
LEMMA Weekly ==
  ASSUME NEW s \in ScheduleRow, NEW from \in Nat
  PROVE  /\ NextWeekly(s, from) \in Nat /\ NextWeekly(s, from) > from
         /\ NextWeekly(s, from) % Day = TimeOfDay(s) /\ Weekday(NextWeekly(s, from)) \in Weekdays(s)
         /\ \A d \in Int : from < At(d, s) /\ At(d, s) < NextWeekly(s, from) =>
              Weekday(At(d, s)) \notin Weekdays(s)
<1>1. PICK f \in Nat : f = from \div Day
  BY MidnightIs
<1>2. PICK i \in Nat \ {0} : i = Interval(s)
  BY Fields
<1> DEFINE good == {c \in {Midnight(from) + k * Day + TimeOfDay(s) : k \in 0 .. 7 * Interval(s)} :
                      c > from /\ Weekday(c) \in Weekdays(s)}
<1>3. NextWeekly(s, from) = IF good = {} THEN from + 7 * Interval(s) * Day
                            ELSE CHOOSE c \in good : \A o \in good : c <= o
  BY DEF NextWeekly
<1>g. \A c : c \in good <=>
        \E k \in 0..7 * i : c = At(f + k, s) /\ c > from /\ Weekday(c) \in Weekdays(s)
  <2>1. \A k \in Int : Midnight(from) + k * Day + TimeOfDay(s) = At(f + k, s)
    <3> SUFFICES ASSUME NEW k \in Int PROVE Midnight(from) + k * Day + TimeOfDay(s) = At(f + k, s)
      OBVIOUS
    <3>1. Midnight(from) = f * Day /\ TimeOfDay(s) \in 0..1439
      BY <1>1, MidnightIs, Fields
    <3> QED BY <3>1 DEF At, Day, Hour
  <2> QED BY <1>2, <2>1
<1> HIDE DEF good
<1>4. good # {}
  <2>1. PICK w \in 0..6 : w \in Weekdays(s)
    BY Fields
  <2>2. PICK k \in 1..7 : (f + k + 4) % 7 = w
    <3> DEFINE k == (((w + 6) - ((f + 4) % 7)) % 7) + 1
    <3>1. k \in 1..7 /\ (f + k + 4) % 7 = w
      OBVIOUS
    <3> HIDE DEF k
    <3> QED BY <3>1
  <2>3. k \in 0..7 * i
    OBVIOUS
  <2>4. At(f + k, s) > from
    BY <1>1, AtOrder
  <2>5. Weekday(At(f + k, s)) = w
    <3>1. At(f + k, s) \div Day = f + k
      BY AtDay
    <3> QED BY <2>2, <3>1 DEF Weekday
  <2> QED BY <1>g, <2>1, <2>3, <2>4, <2>5
<1>5. PICK n \in good : n = NextWeekly(s, from) /\ \A o \in good : n <= o
  <2>1. good \in SUBSET Nat
    <3>1. \A k \in 0..7 * i : At(f + k, s) \in Nat
      BY AtDay
    <3> QED BY <1>g, <3>1
  <2>2. \E c \in good : \A o \in good : c <= o
    BY <1>4, <2>1, LeastNumber
  <2> QED BY <1>3, <1>4, <2>2
<1>6. PICK k \in 0..7 * i : n = At(f + k, s) /\ At(f + k, s) > from /\ Weekday(At(f + k, s)) \in Weekdays(s)
  BY <1>g
<1>7. n \in Nat /\ n > from /\ n % Day = TimeOfDay(s) /\ Weekday(n) \in Weekdays(s)
  <2>1. f + k \in Nat /\ f + k \in Int
    OBVIOUS
  <2> QED BY <1>6, <2>1, AtDay
<1>8. ASSUME NEW d \in Int, from < At(d, s), At(d, s) < n, Weekday(At(d, s)) \in Weekdays(s)
      PROVE  FALSE
  <2>1. f + k \in Int
    OBVIOUS
  <2>2. d >= f /\ d < f + k
    <3> QED BY <1>1, <1>6, <1>8, <2>1, AtOrder
  <2>3. d - f \in 0..7 * i /\ f + (d - f) = d
    BY <2>2
  <2>4. At(d, s) \in good
    BY <1>8, <1>g, <2>3
  <2>5. n <= At(d, s) /\ At(d, s) \in Int
    <3> QED BY <1>5, <2>4, AtDay
  <2> QED BY <1>7, <1>8, <2>5
<1> QED BY <1>5, <1>7, <1>8

(* The instant of a day of a month, and what the calendar says of it. *)
LEMMA DayOfIs ==
  ASSUME NEW s \in ScheduleRow, NEW y \in Int, NEW m \in 0..11,
         NEW d \in 1..DaysInMonth(y, m), MonthStart(y, m) \in Nat
  PROVE  /\ TimeGm(y, m, d, TimeOfDay(s)) = At(MonthStart(y, m) + d - 1, s)
         /\ MonthStart(y, m) + d - 1 < MonthEnd(y, m)
         /\ TimeGm(y, m, d, TimeOfDay(s)) \in Nat
         /\ YearOf(TimeGm(y, m, d, TimeOfDay(s))) = y /\ MonthOf(TimeGm(y, m, d, TimeOfDay(s))) = m
         /\ DayOfMonth(TimeGm(y, m, d, TimeOfDay(s))) = d
<1> DEFINE t == TimeGm(y, m, d, TimeOfDay(s))
           n == MonthStart(y, m) + d - 1
<1>1. DaysInMonth(y, m) \in 28..31 /\ MonthStart(y, m) \in Int
  BY MonthSpan
<1>2. m \div 12 = 0 /\ m % 12 = m /\ y + 0 = y
  OBVIOUS
<1>3. t = At(n, s)
  BY <1>2 DEF TimeGm, At
<1>4. MonthStart(y, m) \in Nat
  OBVIOUS
<1>5. n \in Nat /\ MonthStart(y, m) <= n /\ n < MonthEnd(y, m)
  BY <1>1, <1>4 DEF MonthEnd
<1> HIDE DEF n, t
<1>6. t \in Nat /\ t \div Day = n
  BY <1>3, <1>5, AtDay
<1>7. YearOf(t) = y /\ MonthOf(t) = m
  BY <1>5, <1>6, MonthUnique
<1>8. DayOfMonth(t) = n - MonthStart(y, m) + 1
  BY <1>6, <1>7 DEF DayOfMonth
<1>9. DayOfMonth(t) = d
  BY <1>4, <1>8 DEF n
<1> QED BY <1>3, <1>4, <1>5, <1>6, <1>7, <1>9 DEF t, n

(* Interval months on, in the code's way of counting them. *)
LEMMA LaterMonth ==
  ASSUME NEW y \in Int, NEW m \in 0..11, NEW i \in Nat \ {0}
  PROVE  /\ y + (m + i) \div 12 \in Int /\ (m + i) % 12 \in 0..11
         /\ Before(y, m, y + (m + i) \div 12, (m + i) % 12)
         /\ i = 1 => MonthStart(y + (m + i) \div 12, (m + i) % 12) = MonthEnd(y, m)
<1>1. y + (m + i) \div 12 \in Int /\ (m + i) % 12 \in 0..11
  OBVIOUS
<1>2. Before(y, m, y + (m + i) \div 12, (m + i) % 12)
  BY DEF Before
<1>3. ASSUME i = 1 PROVE MonthStart(y + (m + i) \div 12, (m + i) % 12) = MonthEnd(y, m)
  <2>1. CASE m = 11
    <3>1. (m + i) \div 12 = 1 /\ (m + i) % 12 = 0
      BY <1>3, <2>1
    <3>2. MonthStart(y + 1, 0) = YearStart(y + 1)
      BY MonthSpan
    <3>3. MonthEnd(y, 11) = YearStart(y + 1)
      BY MonthSpan
    <3> QED BY <2>1, <3>1, <3>2, <3>3
  <2>2. CASE m < 11
    <3>1. (m + i) \div 12 = 0 /\ (m + i) % 12 = m + 1 /\ y + 0 = y
      BY <1>3, <2>2
    <3>2. MonthEnd(y, m) = MonthStart(y, m + 1)
      BY <2>2, MonthSpan
    <3> QED BY <3>1, <3>2
  <2> QED BY <2>1, <2>2
<1> QED BY <1>1, <1>2, <1>3

(* What fits a monthly schedule: its day, or the last of a month without it. *)
OnDay(day, t) ==
  DayOfMonth(t) = day \/ (DayOfMonth(t) < day /\ MonthOf(t + Day) # MonthOf(t))

(* A month has one such day, the named one or else its last. *)
LEMMA OnDayIs ==
  ASSUME NEW s \in ScheduleRow, NEW y \in Int, NEW m \in 0..11, MonthStart(y, m) \in Nat,
         NEW d \in 1..DaysInMonth(y, m), NEW day \in 1..31
  PROVE  OnDay(day, At(MonthStart(y, m) + d - 1, s)) <=> d = Least(day, DaysInMonth(y, m))
<1> DEFINE n == MonthStart(y, m) + d - 1
           t == At(n, s)
<1>1. DaysInMonth(y, m) \in 28..31
  BY MonthSpan
<1>2. t \in Nat /\ MonthOf(t) = m /\ DayOfMonth(t) = d
  BY DayOfIs
<1>3. n \in Nat /\ n + 1 \in Nat
  BY <1>1
<1>4. t + Day = At(n + 1, s)
  <2>1. TimeOfDay(s) \in 0..1439
    BY Fields
  <2> HIDE DEF n
  <2> QED BY <1>3, <2>1 DEF At, Day, Hour
<1>5. At(n + 1, s) \in Nat /\ At(n + 1, s) \div Day = n + 1
  <2> HIDE DEF n
  <2> QED BY <1>3, AtDay
<1>6. ASSUME d < DaysInMonth(y, m) PROVE MonthOf(t + Day) = m
  <2>1. MonthStart(y, m) <= n + 1 /\ n + 1 < MonthEnd(y, m)
    BY <1>1, <1>6 DEF MonthEnd
  <2> HIDE DEF n, t
  <2> QED BY <1>4, <1>5, <2>1, MonthUnique
<1>7. ASSUME d = DaysInMonth(y, m) PROVE MonthOf(t + Day) # m
  <2>1. PICK z : z = y + (m + 1) \div 12
    OBVIOUS
  <2>2. PICK k : k = (m + 1) % 12
    OBVIOUS
  <2>3. z \in Int /\ k \in 0..11 /\ k # m
    BY <2>1, <2>2
  <2>4. MonthStart(z, k) = MonthEnd(y, m)
    <3>1. PICK i \in Nat \ {0} : i = 1
      OBVIOUS
    <3>2. MonthStart(y + (m + i) \div 12, (m + i) % 12) = MonthEnd(y, m)
      BY <3>1, LaterMonth
    <3> QED BY <2>1, <2>2, <3>1, <3>2
  <2>5. n + 1 = MonthEnd(y, m)
    BY <1>1, <1>7 DEF MonthEnd
  <2>6. MonthStart(z, k) < MonthEnd(z, k) /\ MonthStart(z, k) \in Int /\ MonthEnd(z, k) \in Int
    BY <2>3, MonthSpan
  <2> HIDE DEF n, t
  <2>7. MonthOf(At(n + 1, s)) = k
    BY <1>5, <2>3, <2>4, <2>5, <2>6, MonthUnique
  <2> QED BY <1>4, <2>3, <2>7
<1> HIDE DEF n, t
<1>8. OnDay(day, t) <=> d = day \/ (d < day /\ d = DaysInMonth(y, m))
  BY <1>1, <1>2, <1>6, <1>7 DEF OnDay
<1>9. d = day \/ (d < day /\ d = DaysInMonth(y, m)) <=> d = Least(day, DaysInMonth(y, m))
  BY <1>1 DEF Least
<1> QED BY <1>8, <1>9 DEF n, t

(* A day of a month is the day of the month that its schedule names, or not. *)
LEMMA DayWithin ==
  ASSUME NEW s \in ScheduleRow, NEW y \in Int, NEW m \in 0..11, MonthStart(y, m) \in Nat,
         NEW n \in Int, MonthStart(y, m) <= n, n < MonthEnd(y, m), NEW day \in 1..31
  PROVE  OnDay(day, At(n, s)) <=> n = MonthStart(y, m) + Least(day, DaysInMonth(y, m)) - 1
<1>1. DaysInMonth(y, m) \in 28..31
  BY MonthSpan
<1>2. PICK d : d = n - MonthStart(y, m) + 1
  OBVIOUS
<1>3. d \in 1..DaysInMonth(y, m) /\ MonthStart(y, m) + d - 1 = n
  BY <1>1, <1>2 DEF MonthEnd
<1>4. OnDay(day, At(MonthStart(y, m) + d - 1, s)) <=> d = Least(day, DaysInMonth(y, m))
  BY <1>3, OnDayIs
<1>5. Least(day, DaysInMonth(y, m)) \in Int
  BY <1>1 DEF Least
<1> QED BY <1>1, <1>2, <1>3, <1>4, <1>5

(* The day that a schedule takes in a month. *)
TheDay(y, m, day) == MonthStart(y, m) + Least(day, DaysInMonth(y, m)) - 1

(* What InMonthOf returns for an instant of that month. *)
TheDayIn(s, y, m, day, t) ==
  /\ InMonthOf(s, t, day) = At(TheDay(y, m, day), s)
  /\ TheDay(y, m, day) \in Nat
  /\ MonthStart(y, m) <= TheDay(y, m, day) /\ TheDay(y, m, day) < MonthEnd(y, m)
  /\ InMonthOf(s, t, day) \in Nat /\ InMonthOf(s, t, day) % Day = TimeOfDay(s)
  /\ YearOf(InMonthOf(s, t, day)) = y /\ MonthOf(InMonthOf(s, t, day)) = m
  /\ DayOfMonth(InMonthOf(s, t, day)) = Least(day, DaysInMonth(y, m))
  /\ OnDay(day, InMonthOf(s, t, day))

(* The code finds that day, for every instant of the month. *)
LEMMA TheDayIs ==
  ASSUME NEW s \in ScheduleRow, NEW y \in Int, NEW m \in 0..11, MonthStart(y, m) \in Nat, NEW day \in 1..31,
         NEW t \in Nat, YearOf(t) = y, MonthOf(t) = m
  PROVE  TheDayIn(s, y, m, day, t)
<1>1. DaysInMonth(y, m) \in 28..31
  BY MonthSpan
<1>2. PICK d : d = Least(day, DaysInMonth(y, m))
  OBVIOUS
<1>3. d \in 1..DaysInMonth(y, m)
  BY <1>1, <1>2 DEF Least
<1>4. PICK x : x = InMonthOf(s, t, day)
  OBVIOUS
<1>5. x = TimeGm(y, m, d, TimeOfDay(s))
  BY <1>2, <1>4 DEF InMonthOf
<1>6. /\ x = At(MonthStart(y, m) + d - 1, s) /\ MonthStart(y, m) + d - 1 < MonthEnd(y, m)
      /\ x \in Nat /\ YearOf(x) = y /\ MonthOf(x) = m /\ DayOfMonth(x) = d
  BY <1>3, <1>5, DayOfIs
<1>7. OnDay(day, x)
  BY <1>2, <1>3, <1>6, OnDayIs
<1>8. MonthStart(y, m) + d - 1 \in Nat /\ MonthStart(y, m) <= MonthStart(y, m) + d - 1
  BY <1>1, <1>3
<1>9. x % Day = TimeOfDay(s)
  BY <1>6, <1>8, AtDay
<1> QED BY <1>2, <1>4, <1>6, <1>7, <1>8, <1>9 DEF TheDay, TheDayIn

(* The monthly cadence: the day in this month, or in the one interval months on. *)
LEMMA Monthly ==
  ASSUME NEW s \in ScheduleRow, NEW from \in Nat
  PROVE  /\ NextMonthly(s, from) \in Nat /\ NextMonthly(s, from) > from
         /\ NextMonthly(s, from) % Day = TimeOfDay(s)
         /\ OnDay(MonthlyDay(s, from), NextMonthly(s, from))
         /\ Interval(s) = 1 /\ ~ ShortMonthNext(s, from) =>
              \A n \in Int : from < At(n, s) /\ At(n, s) < NextMonthly(s, from) =>
                ~ OnDay(MonthlyDay(s, from), At(n, s))
<1>1. PICK y \in Int, m \in 0..11 : y = YearOf(from) /\ m = MonthOf(from)
  BY MonthIs
<1>2. PICK f \in Nat : f = from \div Day
  BY MidnightIs
<1>3. y >= 1970 /\ MonthStart(y, m) <= f /\ f < MonthEnd(y, m)
  BY <1>1, <1>2, MonthIs
<1>4. MonthStart(y, m) \in Nat /\ MonthEnd(y, m) \in Int
  <2>1. y >= 1970 => MonthStart(y, m) \in Nat
    BY MonthsFromStart
  <2>2. MonthEnd(y, m) \in Int
    BY MonthSpan
  <2> QED BY <1>3, <2>1, <2>2
<1>5. PICK day \in 1..31 : day = MonthlyDay(s, from)
  <2>1. DayOfMonth(from) \in Int
    BY <1>1, <1>2, <1>4 DEF DayOfMonth
  <2> QED BY <2>1, Fields
<1>6. PICK i \in Nat \ {0} : i = Interval(s)
  BY Fields
<1>7. PICK c : c = InMonthOf(s, from, day)
  OBVIOUS
<1>8. PICK a : a = TheDay(y, m, day)
  OBVIOUS
<1>9. /\ c = At(a, s) /\ a \in Nat /\ MonthStart(y, m) <= a /\ a < MonthEnd(y, m)
      /\ c \in Nat /\ c % Day = TimeOfDay(s) /\ YearOf(c) = y /\ MonthOf(c) = m
      /\ DayOfMonth(c) = Least(day, DaysInMonth(y, m)) /\ OnDay(day, c)
  <2>1. YearOf(from) = y /\ MonthOf(from) = m /\ MonthStart(y, m) \in Nat
    BY <1>1, <1>4
  <2>2. TheDayIn(s, y, m, day, from)
    BY <2>1, TheDayIs
  <2> QED BY <1>7, <1>8, <2>2 DEF TheDayIn
<1>10. PICK later : later = TimeGm(y, m + i, DayOfMonth(c), TimeOfDay(s))
  OBVIOUS
<1>11. NextMonthly(s, from) = IF c <= from THEN InMonthOf(s, later, day) ELSE c
  BY <1>5, <1>6, <1>7, <1>9, <1>10 DEF NextMonthly
<1>12. \A n \in Int : MonthStart(y, m) <= n /\ n < MonthEnd(y, m) => (OnDay(day, At(n, s)) <=> n = a)
  BY <1>4, <1>8, DayWithin DEF TheDay
<1>13. CASE ~ (c <= from)
  <2>1. c > from
    BY <1>9, <1>13
  <2>2. ASSUME NEW n \in Int, from < At(n, s), At(n, s) < c PROVE ~ OnDay(day, At(n, s))
    <3>1. n >= f /\ n < a
      BY <1>2, <1>9, <2>2, AtOrder
    <3>2. MonthStart(y, m) <= n /\ n < MonthEnd(y, m) /\ n # a
      BY <1>3, <1>4, <1>9, <3>1
    <3> QED BY <1>12, <3>2
  <2> QED BY <1>5, <1>9, <1>11, <1>13, <2>1, <2>2
<1>14. CASE c <= from
  <2>1. PICK y2 \in Int, m2 \in 0..11 : y2 = y + (m + i) \div 12 /\ m2 = (m + i) % 12
    BY LaterMonth
  <2>2. Before(y, m, y2, m2) /\ (i = 1 => MonthStart(y2, m2) = MonthEnd(y, m))
    BY <2>1, LaterMonth
  <2>3. PICK e : e = Least(day, DaysInMonth(y, m))
    OBVIOUS
  <2>4. e \in 1..31 /\ e <= day
    <3>1. DaysInMonth(y, m) \in 28..31
      BY MonthSpan
    <3> QED BY <2>3, <3>1 DEF Least
  <2>5. later = At(MonthStart(y2, m2) + e - 1, s)
    BY <1>9, <1>10, <2>1, <2>3 DEF TimeGm, At
  <2>6. MonthStart(y2, m2) \in Int /\ MonthEnd(y2, m2) \in Int /\ MonthEnd(y, m) <= MonthStart(y2, m2)
    BY <2>2, MonthSpan, MonthsFollow
  <2>7. PICK l : l = MonthStart(y2, m2) + e - 1
    OBVIOUS
  <2>8. l \in Nat /\ MonthEnd(y, m) <= l /\ MonthStart(y2, m2) <= l
    BY <1>3, <1>4, <2>4, <2>6, <2>7
  <2>9. later \in Nat /\ later \div Day = l
    BY <2>5, <2>7, <2>8, AtDay
  <2>10. PICK y3 \in Int, m3 \in 0..11 : y3 = YearOf(later) /\ m3 = MonthOf(later)
    BY <2>9, MonthIs
  <2>11. y3 >= 1970 /\ MonthStart(y3, m3) <= l /\ l < MonthEnd(y3, m3)
    BY <2>9, <2>10, MonthIs
  <2>12. MonthStart(y3, m3) \in Nat /\ MonthEnd(y3, m3) \in Int
    <3>1. y3 >= 1970 => MonthStart(y3, m3) \in Nat
      BY MonthsFromStart
    <3>2. MonthEnd(y3, m3) \in Int
      BY MonthSpan
    <3> QED BY <2>11, <3>1, <3>2
  <2>13. MonthEnd(y, m) <= MonthStart(y3, m3)
    <3>1. ~ (y3 = y /\ m3 = m)
      BY <1>4, <2>8, <2>11, <2>12
    <3>2. ~ Before(y3, m3, y, m)
      <4>1. Before(y3, m3, y, m) => MonthEnd(y3, m3) <= MonthStart(y, m)
        BY MonthsFollow
      <4> QED BY <1>3, <1>4, <2>8, <2>11, <2>12, <4>1
    <3>3. Before(y, m, y3, m3)
      BY <3>1, <3>2 DEF Before
    <3> QED BY <3>3, MonthsFollow
  <2>14. PICK n : n = InMonthOf(s, later, day)
    OBVIOUS
  <2>15. PICK b : b = TheDay(y3, m3, day)
    OBVIOUS
  <2>16. /\ n = At(b, s) /\ b \in Nat /\ MonthStart(y3, m3) <= b /\ b < MonthEnd(y3, m3)
         /\ n \in Nat /\ n % Day = TimeOfDay(s) /\ OnDay(day, n)
    <3>1. YearOf(later) = y3 /\ MonthOf(later) = m3 /\ MonthStart(y3, m3) \in Nat /\ later \in Nat
      BY <2>9, <2>10, <2>12
    <3>2. TheDayIn(s, y3, m3, day, later)
      BY <3>1, TheDayIs
    <3> QED BY <2>14, <2>15, <3>2 DEF TheDayIn
  <2>17. n > from
    <3>1. b > f
      BY <1>3, <1>4, <2>12, <2>13, <2>16
    <3> QED BY <1>2, <2>16, <3>1, AtOrder
  <2>18. ASSUME i = 1, ~ ShortMonthNext(s, from), NEW x \in Int, from < At(x, s), At(x, s) < n
         PROVE  ~ OnDay(day, At(x, s))
    <3>1. day <= DaysInMonth(y2, m2) /\ DaysInMonth(y2, m2) \in 28..31
      <4>1. DaysInMonth(y2, m2) \in 28..31
        BY MonthSpan
      <4>2. ~ (day > DaysInMonth(y2, m2))
        BY <1>1, <1>5, <2>1, <2>18 DEF ShortMonthNext
      <4> QED BY <4>1, <4>2
    <3>2. l < MonthEnd(y2, m2)
      BY <2>4, <2>6, <2>7, <3>1 DEF MonthEnd
    <3>3. y3 = y2 /\ m3 = m2
      BY <2>8, <2>9, <2>10, <3>2, MonthUnique
    <3>4. MonthStart(y3, m3) = MonthEnd(y, m)
      BY <2>2, <2>18, <3>3
    <3>5. a < x /\ x < b
      <4>1. At(a, s) < At(x, s)
        BY <1>9, <1>14, <2>18, AtDay
      <4> QED BY <1>9, <2>16, <2>18, <4>1, AtOrder
    <3>6. CASE x < MonthEnd(y, m)
      BY <1>4, <1>9, <1>12, <3>5, <3>6
    <3>7. CASE ~ (x < MonthEnd(y, m))
      <4>1. MonthStart(y3, m3) <= x /\ x < MonthEnd(y3, m3) /\ x # b
        BY <1>4, <2>12, <2>16, <3>4, <3>5, <3>7
      <4>2. OnDay(day, At(x, s)) <=> x = MonthStart(y3, m3) + Least(day, DaysInMonth(y3, m3)) - 1
        BY <2>12, <4>1, DayWithin
      <4> QED BY <2>15, <4>1, <4>2 DEF TheDay
    <3> QED BY <3>6, <3>7
  <2>19. NextMonthly(s, from) = n
    BY <1>11, <1>14, <2>14
  <2> QED BY <1>5, <1>6, <2>16, <2>17, <2>18, <2>19
<1> QED BY <1>13, <1>14

(* Whatever a schedule asks for, its next run is later than the instant asked for
   and at one it fits, with none passed over that the code does not mean to. *)
LEMMA NextFits ==
  ASSUME sched \in ScheduleRow, instant \in Nat
  PROVE  NextRunAfter(sched, instant) \in Nat /\ NextRunFits
<1> DEFINE next == NextRunAfter(sched, instant)
<1>1. SUFFICES /\ next \in Nat /\ next > instant /\ Fits(sched, next)
               /\ \/ sched.cadence # "weekly" /\ Interval(sched) > 1
                  \/ sched.cadence = "monthly" /\ ShortMonthNext(sched, instant)
                  \/ \A t \in Between(sched, instant, next) : ~Fits(sched, t)
  BY DEF NextRunFits
<1>2. Interval(sched) \in Nat \ {0}
  BY Fields
<1>3. CASE sched.cadence = "hourly"
  <2>1. next = NextHourly(sched, instant)
    BY <1>3 DEF NextRunAfter
  <2>2. \A t : Fits(sched, t) <=> t % Hour = TimeOfDay(sched) % Hour
    BY <1>3 DEF Fits
  <2>3. \A t \in Between(sched, instant, next) : t \in Int /\ instant < t /\ t < next
    <3>1. Midnight(instant) \in Int /\ TimeOfDay(sched) % Hour \in Int
      <4>1. Midnight(instant) = (instant \div Day) * Day /\ instant \div Day \in Nat
        BY MidnightIs
      <4>2. TimeOfDay(sched) % Hour \in Int
        BY Fields
      <4> QED BY <4>1, <4>2 DEF Day, Hour
    <3> HIDE DEF next
    <3> QED BY <1>3, <3>1 DEF Between, Hour
  <2>4. /\ NextHourly(sched, instant) \in Nat /\ NextHourly(sched, instant) > instant
        /\ NextHourly(sched, instant) % Hour = TimeOfDay(sched) % Hour
    BY Hourly
  <2>5. Interval(sched) = 1 => \A t \in Int : instant < t /\ t < NextHourly(sched, instant) =>
                                 t % Hour # TimeOfDay(sched) % Hour
    BY Hourly
  <2> HIDE DEF next
  <2>6. Interval(sched) = 1 => \A t \in Between(sched, instant, next) : ~ Fits(sched, t)
    BY <2>1, <2>2, <2>3, <2>5
  <2> QED BY <1>2, <1>3, <2>1, <2>2, <2>4, <2>6
<1>4. ASSUME sched.cadence # "hourly"
      PROVE  \A t \in Between(sched, instant, next) : \E d \in Int : t = At(d, sched) /\ instant < t /\ t < next
  <2>1. \A k \in (instant \div Day) .. (next \div Day) : k \in Int
    OBVIOUS
  <2> HIDE DEF next
  <2> QED BY <1>4, <2>1 DEF Between, At
<1>5. CASE sched.cadence = "weekly"
  <2>1. next = NextWeekly(sched, instant)
    BY <1>5 DEF NextRunAfter
  <2>2. \A t : Fits(sched, t) <=> t % Day = TimeOfDay(sched) /\ Weekday(t) \in Weekdays(sched)
    BY <1>5 DEF Fits
  <2> HIDE DEF next
  <2> QED BY <1>4, <1>5, <2>1, <2>2, Weekly
<1>6. CASE sched.cadence = "monthly"
  <2>1. next = NextMonthly(sched, instant)
    BY <1>6 DEF NextRunAfter
  <2>2. \A t : Fits(sched, t) <=> t % Day = TimeOfDay(sched) /\ OnDay(MonthlyDay(sched, instant), t)
    BY <1>6 DEF Fits, OnDay
  <2> HIDE DEF next
  <2> QED BY <1>2, <1>4, <1>6, <2>1, <2>2, Monthly
<1>7. CASE sched.cadence \notin {"hourly", "weekly", "monthly"}
  <2>1. next = NextDaily(sched, instant)
    BY <1>7 DEF NextRunAfter
  <2>2. \A t : Fits(sched, t) <=> t % Day = TimeOfDay(sched)
    BY <1>7 DEF Fits
  <2> HIDE DEF next
  <2> QED BY <1>2, <1>4, <1>7, <2>1, <2>2, Daily
<1> QED BY <1>3, <1>5, <1>6, <1>7

\* The type of the schedule and of the instant it was last asked from.
SchedTypes == sched \in Schedule /\ sched \in ScheduleRow /\ instant \in Nat

(* Type correctness of the schedule: an instant stays a number of minutes. *)
THEOREM ScheduleTypesHold == SchedSpec => []SchedTypes
<1>1. SchedInit => SchedTypes
  BY ScheduleAssumption DEF SchedInit, SchedTypes, Day, Hour
<1>2. SchedTypes /\ [SchedNext]_schedVars => SchedTypes'
  BY NextFits DEF SchedNext, schedVars, SchedTypes
<1> QED BY <1>1, <1>2, PTL DEF SchedSpec

(* For any schedule and from any instant on: the next run is strictly later, on an
   instant the schedule asks for, and none is left out but by an interval or a month
   that lacks the day. *)
THEOREM NextRunsFit == SchedSpec => []NextRunFits
<1>1. SchedTypes => NextRunFits
  BY NextFits DEF SchedTypes
<1> QED BY <1>1, ScheduleTypesHold, PTL
=============================================================================
