# TLA+ models of the Sairgent harness

Sairgent runs an organisation of LLM agents. A Rust kernel keeps all durable state in one
SQLite file, starts one worker process per step an agent takes, and moves work through
*Subordinate Work Orders* (SWOs): a manager's loop asks its worker what to do, creates child
SWOs for its reports, waits for them, reviews what they return, and answers. A desktop
application (Tauri and React) submits, cancels, decides and revises work, and follows the
kernel through a bus of signals. This directory holds TLA+ models of that system, TLC
configurations that check them on small instances, and TLAPS proofs of what matters most.

Source paths below are relative to `src/`. `PROJECT.json` maps every definition to its lines.

## 1. The system

### Components

| Component | State | Operations | What is hard |
|---|---|---|---|
| SWO table (`sairgent_kernel/src/registry.rs`) | `active_swos`: status, assignee, parent, `current_run_id`, `retry_count` | create, claim (conditional), reset, set status (unconditional), sweep descendants, lineage | each function is atomic (one connection behind a mutex), no sequence of them is |
| HSM loop (`orchestrator.rs`, `execute_hsm_loop_with_context`) | one tokio task per SWO; the handles of its children | triage, direct answer, delegation, await, synthesis, revision, failure | trees of loops that await each other; errors between two writes; ceilings |
| Cron loop (`start_cron_loop`) | `in_flight` | read the queue, claim, spawn; ideation when idle | check and update of `in_flight` are apart |
| Queue reconciler (`start_queue_reconciler`) | the list it has read | scan stale rows, then reset or fail each | acts on what it read earlier; staleness is a guess from heartbeats |
| Startup reaper (`kernel.rs`, `reap_orphaned_swos`) | none | re-queue or fail rows of the dead process | what a crash leaves behind |
| Operator commands (`apps/workspace/src-tauri/src/lib.rs`) | one handler per command | submit, cancel, decide, request revision | several registry calls each; the running loop is not told |
| Workers and heartbeats (`run_worker`, Python harnesses) | `agent_heartbeats` per run | beat, side channel, final JSON | stalls, late beats, a run that dies before its first beat |
| Recurring work orders (`orchestrator.rs`, `registry.rs`) | `rwo_templates`, `rwo_runs`, `in_flight` | due list, materialise, manual trigger, compute the next instant | a list read earlier, stale write-backs, run numbers, crashes half-way, calendars |
| Runtime event bus (`lib.rs`) | cursor, log of 512 signals, LRU of command ids, bootstrap cache; a relay channel per work order | emit, replay, bootstrap, command | read, cursor, append and emission are apart; four publishers per row; retention, retries |
| Agent org (`registry.rs`, side channel and `POST /hire`) | agents, org profiles | hire behind a gate or without one, edit | the gate counts what the insert changes later |
| Settings, secrets and kernel boot (`lib.rs`, `vault.rs`) | configuration file; secrets in file, keyring and cache; vault key | save settings, read and save secrets, boot | three copies without a common lock, a keyring that is locked or forgets, migrations of old versions |
| Catalog of tools, connectors, skills (`registry.rs`, `tools.rs`, `skills.rs`) | bindings, capabilities, skill versions | bind, edit, hand over at a launch | a bind checks first and writes later; a launch reads table after table |
| Workflow launch (`kernel.rs`, `workflow.rs`) | root, steps and run record | compile, create one by one | cron runs what a launch has not finished creating |
| Seeding, archive and reset (`seed.rs`, `kernel.rs`) | everything, plus `runtime_metadata` | boot, archive, clear, seed | a stop between two of many statements |
| External chat (`http.rs`, `registry.rs`) | bindings, receipts, conversations, delivery events | handle an update, rebind, move a token | repeated deliveries, a crash after the receipt |
| Command ids (`lib.rs`, `runtime_command`) | LRU of ids | reject or run a command | ids recorded before the command runs, evicted later |
| Desktop projection (`tauriBus.ts`, `useWorkspaceState.ts`) | a view of the kernel, its subscription | init, dispose, apply signals | gaps and duplicates, a second init |
| Audit chain and inbox | hash chain, messages | append, mark | one lock each; not modelled |
| Harness internals, router, manifests, protocol | none shared | | no interleaving; not modelled |

### How they interact

The registry is shared state: loops, cron, reconciler, handlers and the reaper all write `active_swos`,
and only the claim (`UPDATE ... WHERE status = 'PENDING'`) is conditional. A loop starts other loops
(`tokio::spawn`) and waits for their return values, not for their rows. Workers reach the kernel through
lines on their standard output: heartbeats, SWOs to dispatch, a final answer. Loops tell the handler's
relay task of their progress through a bounded channel; handler, relay and task publish signals on the
bus, each by itself, and so does a command that cancels or decides a row. The desktop (`sim/tauriBus.ts`)
takes a bootstrap, replays the log, then listens.

### What makes the components correct

- Table and claims: an attempt at an SWO is given to one run; `current_run_id` is that run.
- Recovery: orphaned work is re-queued a bounded number of times, nothing is forgotten, and
  work that is alive is left alone.
- Cron: one run of an agent at a time, and no agent locked out.
- Loop: delegation is acyclic, results are vetted before they are synthesised, nobody answers
  before the children it waits for, every revision is reviewed, every loop ends.
- Commands: a terminal status changes only through somebody who held the row.
- Bus: a replay returns what was emitted before it, duplicates were in flight, and a work order
  that has settled is on the screen as it is in the table.
- Recurring: a slot fires once and no due slot is forgotten, run numbers are unique, claimed
  orders are run, and the next instant is a legal one and no legal one is passed over.
- Worker run: the beat that ends a run stands; no request is reordered, or lost before the run ends.
- Org: nobody gets more reports than the cap, the reporting lines have no cycle.
- Catalog: no worker is handed what was taken away before its launch; a bound skill loads.
- Secrets and boot: a saved secret is what is read; no second vault key while a copy of the first
  can be read; a boot does not undo the choice of a provider.
- Seeding: a desktop that came up is seeded whole and once; nothing is deleted unarchived.
- External chat: an update is heard once, by one agent; a receipt that blocks it has an outcome.
- Workflow: a launch's rows are all there, or its caller was told; a step that was swept stays
  closed. Commands: an id acts once.

Most of these hold only up to overlaps, faults or stops that the code does not guard against. A
property then names exactly these: history variables record that one was met, and TLC and the
proofs show that nothing else breaks the promise.

The hazards of this code, each at its line and with the property that watches it, are listed
in `PROJECT.json`.

## 2. The modules

| Module | Models | Role |
|---|---|---|
| `SwoStore` | table `active_swos` | one operator per registry function; no actors |
| `SwoQueue` | nothing in particular | abstract specification of a claimable queue |
| `SwoLifecycle` | everybody who moves a row | actors, interleaved; extends `SwoStore` |
| `HsmDelegation` | the HSM loop opened | extends and refines `SwoLifecycle` |
| `RuntimeBus` | publishers, bus, desktop | a component of its own: rows are version numbers |
| `BusRetry` | saving a connection | extends `RuntimeBus` with cache, dispose and another init |
| `RecurringRuns` | loop, manual trigger and materialization of recurring orders | a component of its own |
| `ScheduleTime` | `compute_next_recurring_run_at` | the algorithm against a calendar |
| `WorkerRun` | `run_worker` and its subprocess | what `SwoLifecycle` sees as one worker step |
| `OrgChart` | hires, profiles, edits of agents | a component of its own |
| `Catalog` | bindings and skills, and a launch beside them | a component of its own |
| `SecretBundle`, `KernelBoot` | secrets; settings, boot and vault key | copies and races; accounts and choices |
| `Seeding` | boot seeding, archive, reset | a component of its own |
| `ExternalChat` | the Telegram webhook | a component of its own |
| `WorkflowLaunch` | `compile_workflow`, `launch_workflow`, and who moves its rows | a component of its own |
| `CommandIds` | `runtime_command`, `create_project` | a component of its own |
| `MCSwoLifecycle`, `MCHsmDelegation`, `MCRuntimeBus`, `MCBusRetry`, `MCOffice` | | instances for TLC |
| `SwoLifecycleProofs`, `HsmDelegationProofs`, `RuntimeBusProofs` | | theorems about the modules of these names |
| `RecurringRunsProofs` | | theorems about `RecurringRuns`, `ScheduleTime` |
| `AgentProofs` | | theorems about `WorkerRun`, `Catalog`, `OrgChart` |
| `DesktopProofs` | | theorems about `Seeding`, `ExternalChat`, `CommandIds`, `WorkflowLaunch`, `KernelBoot`, `SecretBundle` |
| `OfficeProofs` | | the theorems of the parts carried over to `MCOffice` |
| `Recursion` | | lemmas on least and greatest numbers and on iterated functions |

**SwoStore.** The columns of the table as functions on `Swo`. A registry function runs under
the connection's mutex, so it is one action; `CreateSwo`, `ClaimSwo`, `ResetToPending`,
`UpdateStatus`, `IncrementRetry` and `CancelDescendants` are their SQL. Row ids stand for
`created_at` (resolution one second) in the order of the queue.

**SwoLifecycle.** `phase[e]`, `job[e]`, `by[e]`, `epoch[e]` and `spawner[e]` describe task
`e`: where its loop stands, its row, who started it, the `retry_count` it started at, and the
loop that awaits it. The loop is reduced to its writes and waits. `op[h]` is the program
counter of a command handler between two registry calls. `scan` is the reconciler's list,
`cronPick` the row cron has read but not yet claimed. `beaten` holds the run ids that have a
heartbeat row. A crash ends every task, empties the memory of the process and runs the reaper
before anything else may happen, as `start_background_tasks` does.

Whether a live worker's last beat is within the threshold is a choice made at every scan
(`heard` in `ReconcilerScan`): a worker beats every two seconds, but nothing stops it from
being silent for longer than the threshold before it is declared stalled.

**HsmDelegation.** Adds what the loop decides: `todo[e]`, the targets still to be given a
child; `pass[e]`, the synthesis passes begun; `reply[e]`, what the task returned; `origin[s]`,
which branch created a row. Every action is an action of `SwoLifecycle` conjoined with its
reason. What a worker answers is open: any action, any reports as targets, any agents in a
revision. Gates that look only at a worker's words or an agent's profile (hard-route contract,
manager policy, missing final response) are further ways for the step to end in `FAILED`.
`CountBlocked` is two steps in the code's order: children found unfit, then the count; phase
`review` with `pass` 0 is the moment in between. The pass loop's own exhaustion branch is
absent because it cannot be reached, which is what `RevisionsAreReviewed` says.

**RuntimeBus.** A row is the number of writes it has seen (`version`); what a signal or the
screen holds of it is the number read. Each root row has four publishers: the handler that starts
its loop (submission or revision), the relay of its loop's events, the task that ran the loop, and
a command that cancels or decides it. `pub[p]` is a publisher's program counter through
`emit_runtime_signal`: read the row (`ReadRow`, or `ReadFails`, after which nothing is published),
draw a cursor (`DrawCursor`), append to the log (`Remember`), `app.emit` (`Emit`); nothing orders
the steps of two publishers. A decision emits `approval.removed` first and then the row (`After`).
`Revise` starts handler, relay, loop and task again. `WritesUnpublished` is every write that nobody
announces: the reconciler's and the reaper's, those of a loop that cron runs, the ancestors a revision
reopens, the rows a sweep closes, and the row of a command that fails behind its write. `signals`
holds all signals in cursor order, `log` the cursors in the order appended, of which the last
`LogCap` are retained. `chan` is the relay's channel; `emit_swo_status_changed` drops its event when
it is full, output lines of workers (chatter) wait for room. On the desktop, `try[i]` is a call of
`TauriBus.init`, `view` the reducer's map of rows, `attached` whether the reducer is subscribed.
`heard`, `heardTwice`, `atReplay`, `dropped` and `beside` are history that the properties speak of.
The rows of a bootstrap are read first (`ReadsRows`) and its cursor last (`Boots`).

`SettledViewIsCurrent` holds for a reason spread over the code: the loop writes the row and then
announces it, so whichever publisher emits last, a stale reading has another event behind it; and a
command that meets a row at rest has it to itself. It excepts what breaks this. Rows in `dropped`
lost an event to a full channel, or a reading failed. Rows in `beside` were written by a command
while another publisher of theirs was at work (the command's reading may be emitted last though it is
older, or the other's), or by somebody who publishes nothing. The last exception is a signal that
fell between bootstrap, replay and subscription. Without any one of the three TLC finds a stale view.

**BusRetry.** `RetryKernelBoot` is `dispose` and the next run of the effect that calls `init`.
`dispose` clears the listeners; the reducer's own effect does not run again, so `attached` stays
false. It also models the fall-back to the cached bootstrap.

**RecurringRuns.** `task[m]` is a materialization: the template, the slot (`next_run_at`) and the
run number it read, the SWO it made, and how far it is; the loop's task and the task of a manual
trigger run the same calls, but only the former is in `inFlight`. `due` is the list as it was
read. An SWO that is claimed and not yet spawned is `HELD`. `excuse` records, per template, that
a manual run wrote back a slot that had moved, that a template was spawned from a stale list, or
that a call failed or the process died. Time is counted in slots.

**ScheduleTime.** The calendar arithmetic (`timegm`, `gmtime_r`) over minutes, and the four
cadences with their clamping and defaults. A schedule is any row of the table: any word for a
cadence, any numbers or none (`ScheduleRow`). `NextRunFits` is stated independently: the next
instant is later, satisfies the schedule (`Fits`), and no instant between the two does (but for
the weeks and days an interval leaves out, and a month too short for its day, `ShortMonthNext`).

**WorkerRun.** `pipe` is the subprocess's stderr; the loop reads it beside the exit and the stall
timer, so an exit may be noticed with lines unread. `writes` are heartbeat upserts handed to
`spawn_blocking`, which land in any order. `kernel` and `outcome` are where `run_worker` is and how
it returned. A request is tried when it is read (`tried`) or kept in `side_effects` for the caller
(`deferred`); a run that returns an error drops what it kept (`discarded`). The worker is an
environment that beats, asks and exits as it likes.

**OrgChart.** `hire[w]` is a call past the gate or past none, between its statements;
`stale` marks that another insert has since given its target a report. `overrun` are the managers
given a report on such a count or without the gate.

**Catalog.** One agent. `binder[b]` is a bind command between check and write, `launch` what
`run_worker` has read. `seen` holds, apart, the connectors that were linked and those that were
enabled at some moment since the launch began: it starts with what was so at its first reading, every
edit adds to it (`Watch`), and nothing is taken out. A connector outside either set was unbound,
disabled or deleted before the launch and stayed so. A skill is saved version first.

**SecretBundle.** Three copies of the bundle. `command[c]` loads a bundle (cache, or keyring
before file), changes one account and stores it in file, keyring and cache; opening the file
truncates it. A reading that finds an account only where an older version left it becomes a save.

**KernelBoot.** `call[w]` is a `settings_save` or `boot_kernel` of a window. Plain-text keys of old
configurations move to the bundle and `merge_service_configs` picks the keys. `save_saved_config`
truncates the file in one step (`OpenConfig`) and writes it in the next, for a boot (`ClearConfig`)
as for a save (`WriteConfig`); an error (`SaveFails`) or a stop in between leaves it empty, which
`brokenOff` records. `SetModels` may fail, which the code only logs: `told` is set by its success
alone. The vault key is found in the keyring, else in the file, else made anew, each of the two
copies readable or not at every start; `vaultLost` records that a key was made although there were
copies. `NewKernel` fails for any reason, whereupon, on a database that was there, the key of old
versions (`LegacyKey`) is tried. The kernel starts under its lock.

**Seeding.** `seeder` is the step of the boot (or tool) and its loop variable; a stop returns it to
`down` and leaves the tables. Rows of work have ids, so that what a reset deletes can be found in
`kept`, the archives that have a manifest. The seed file may be replaced between two starts.

**ExternalChat.** `handling[h]` is a webhook call: resolve, claim, session, message, answer, reply,
event. Telegram posts an update again as it likes; bindings and tokens change in between; a stop
ends all calls, and a connection that closes ends one where it waits for the answer (`HangUp`), the
handler's only point of suspension. Every write may fail, those of delivery events unnoticed. `cutOff`
are updates whose call ended before its outcome, `unlogged` those whose outbound event was not written.

**WorkflowLaunch.** `Compiled` is the step list of a context. The launch creates root, steps, run
record and audit event while everyone else moves the rows that are there: a claim (`ClaimRow`), an
unconditional end by loop, operator or reconciler (`EndRow`), the sweep behind an end of the root
other than `FAILED` (`SweepSteps`, or `SweepLost`, its error being ignored), the reconciler's reset
of rows listed earlier (`ListStale`, `ResetStale`), and a revision of a step or below it, which
reopens ancestors and then resets the row (`ReviseStep`, `ReviseBelow`, `ReviseNext`). `swept[l]` are
the steps a sweep passed over and nobody has put back since.

**CommandIds.** `processed` is the LRU; `invocation[i]` a call that has entered its id.

**MCOffice** composes the eleven modules above. They share no variable, and no action of one
reads another's state, so an interleaving of all of them satisfies a property of one exactly if
that one does by itself. `part`, chosen at the start, says whose behaviour this is; the others
stay as they begin. The state space is the sum of the parts, not their product, and one
TLC run answers for all.

**Refinements.** `QueueKept`: `SwoLifecycle` implements `SwoQueue` with `attempt <- retry` and
`granted <- ` the triples (row, retry count at the claim, task) of all claimed tasks. `HsmSpec => Spec`
(theorem `LifecycleImplemented`): the opened loop implements the reduced one by inclusion.

## 3. What is checked

All runs set `CHECK_DEADLOCK FALSE`: with its work done and its bounds used up, an instance
has no next step, like the program without work.

| Run | Instance | Shows |
|---|---|---|
| `swo_commands` | 2 agents, 2 handlers (symmetric), 2 rows, 2 tasks, 2 commands | `TypeOK`, `RunIsNewestClaim`, `AutoRetryBound`, `QueueKept`, `TerminalHasReader` |
| `swo_recovery` | 1 cron agent, 2 rows, 4 tasks, 1 crash, fair | `OneClaimPerAttempt`, `CronSingleFlight`, `InFlightHasRun`, `PendingIsServed`, `ReaperSparesOnlySilent` |
| `hsm_loop` | manager and report, 3 rows, 3 tasks, 2 work orders, 2 targets, fair | `RevisionsAreReviewed`, `AnswersAfterChildren`, `AcceptsOnlyReportable`, `DelegationIsAcyclic`, `LoopsReturn` |
| `office` | the eleven parts of `MCOffice`, 1,262,670 states in about three minutes | see below |
| `swo_restart` | 1 row, 1 crash | *violates* `RestartLeavesNoneInProgress` |
| `swo_cancelled` | 1 row, 1 command | *violates* `CancelledNeverCompletes` |
| `swo_reconciler` | 2 rows | *violates* `ReconcilerSparesManagers` |
| `hsm_lineage` | manager and report, 1 work order | *violates* `LineageIsLoopFree` |
| `hsm_gate` | manager and 2 reports | *violates* `ClosesAfterChildren` |
| `bus` | 1 row, handler, relay and task, 3 events, channel 1, log 2, replay 1; up to 2 commands, failed readings or unpublished writes (`CommandsAreFew`) | `TypeOK`, `EmittedBeforeReplayIsHeard`, `TwiceOnlyIfInFlight`, `SettledViewIsCurrent` |
| `bus_gap` | 1 row, log and replay of 5 | *violates* `NothingMissedBeforeListening` |
| `bus_deaf` | 1 row, 2 calls of init | *violates* `InitialisedBusIsHeard` |

The runs that fail each hold one sentence of the repository against the code; `findings` in
`PROJECT.json` quotes it and tells the counterexample.

`office` checks, part by part:

| Part | Instance | Properties |
|---|---|---|
| `recurring` | 1 template, 2 materializations at once, 1 manual trigger, 1 fault, fair | `NumbersClashOnlyInOverlap`, `SlotTakenOnce`, `ClaimedIsExecuted`, `DueIsServed` |
| `schedule` | 20 schedules around leap days, month and year ends | `NextRunFits` |
| `worker` | 2 beats, 2 requests of 3 kinds, one not granted | `EndBeatStands`, `LostAtTheEnd` |
| `org` | 3 names, 2 calls, cap 1, mode `ANY_MANAGER`, 1 edit | `CapBrokenOnlyByOverlap`, `WalkEndsAtARoot` |
| `catalog` | 2 search tools, 1 connector, 1 skill with 2 versions, 2 binders, 4 edits | `GivenWasPermitted`, `SkillLoads` |
| `bundle` | 1 account, 2 commands, 2 saves, 2 starts | `SavedSecretIsRead` |
| `boot` | 2 providers, 2 windows, 1 save, 2 boots, a database that is not there yet | `VaultKeyIsKept`, `ChoiceIsKept` |
| `seed` | 2 seed files, one with an unresolved manager; 4 starts | `UpMeansSeeded`, `NothingLostUnarchived` |
| `chat` | 2 agents, 3 updates, 2 calls, 2 posts, 1 rebinding, 1 stop | `HeardOnce`, `ClaimedIsSettled` |
| `workflow` | 4 steps, 3 contexts, 1 launch, 1 revision at a time | `WorkflowIsWhole` |
| `command` | 2 ids, capacity 1, 4 calls, 1 restart | `CreatedOnceAndAnnounced` |

`OfficeTypeOK` types the part that runs.

**Bounds.** `MaxSwo`: two rows give a parent with a child, or two rows of one agent, which is all that
the guards of the life cycle relate; the loop needs three (a manager below another row, and its child)
for the lineage to reach beyond the loop's own row. `MaxExec` is `MaxSwo * (1 + MaxRetries)` in the
recovery run, so that every re-queued row can be claimed again; with fewer, liveness would fail for want
of task numbers. `MaxRetries = 1` and `MaxReviewFailures = 2` (3 and 3 in the code) keep "one more" and
"no more" apart, and they are constants that the proofs leave arbitrary. One crash and two commands
suffice for a command or a crash to meet every state of another actor; no action of the model needs a
third. Recovery has one agent because all that cron, reaper and reconciler compare is the agent of a row
with the agent of a task, and liveness with two exceeds what TLC finishes in minutes. `swo_commands` has
two agents. In the `hsm_` runs only children's rows go stale (claimed workers send no heartbeat), only
rows of the operator and of loops exist, and there is neither cron nor crash: `Around` says so. A loop
that has a child to create and finds no row left stands `AtBound`; `LoopsReturn` says that every loop
ends or comes to stand there. The code has no such bound: revisions name any agent and start with a fresh
`retry_count`, so loops may nest without end (section 5), and the property says nothing against that. In
`bus` the capacities (32, 512 and 200 in the code) are so small that three events fill the channel,
overflow the log and cut a replay short; one row is enough as a publisher's row is the only one its
signals touch, and publishers of other rows would add only signals that count as chatter does.
`MaxEvents`, `MaxOthers` and `MaxAtOnce` bound a loop's writes and chatter, the writes of everybody else
together with failed readings, and the publishers at work at once. `bus` has three events and three
publishers as long as nobody else writes. Once a command has come or a reading failed, the constraint
`CommandsAreFew` lets one publisher work at a time, and leaves two events of the loop and writes of
others together: two commands, or one before, during or after a revised loop that writes. All of it at
once is beyond TLC, and the theorem `SettledViewsAreCurrent` has no such bounds. Calls of `init` after
the first are in `BusRetry` alone, since without `dispose` there is one.

In `office` every part has two of what races (tasks, calls, binders, commands, windows, hooks) and one
more operation than it takes for the first to be overtaken; a third would only repeat the second, as no
code compares more than two. `boot` has one save, which meets every stage of a boot beside it; two saves
at once differ from a save and a boot only in what `crossed` excepts. Capacities (the LRU's 10,000, the
cap of reports) are 1, so that the second entry meets them. One template, account, connector or skill is
enough where rows do not refer to one another. The calendar is tried on the days around February of a
common and of a leap year and around a year's end, and each schedule is followed to `LastDay`. Four
starts let a seeding, a reset after it, the resumption of a cut reset and a last boot follow each other.
For every safety property the theorems of section 4 remove these bounds: they leave the number of agents,
rows, tasks, calls, crashes and events arbitrary.

**Fairness.** `SwoLifecycle!Fairness`: tokio runs every task that can run, and a worker exits
or is killed after `WORKER_STALL_TIMEOUT`, hence weak fairness of each loop. A worker that
keeps beating and never exits is outside this assumption, as nothing in the code ends it. The
reconciler and cron ticks always come, hence weak fairness of scan, apply and claim; a
cron round visits every eligible agent, so an agent that is due and free again and again is
not passed over, hence strong fairness of `CronPick`. Nothing is assumed of the operator, of
first heartbeats or of crashes. `HsmFairSpec` asks only that loops run. `RecurringFairness`: the
timer of the recurring loop ticks, the loop walks the list it read, spawned materializations run
and the clock advances, each weakly fair; nothing is asked of faults or triggers. It stands in
`OfficeSpec` for all parts: the behaviours of other parts, in which that clock stands still,
are then simply not fair, and only `DueIsServed` is a liveness property.

## 4. What is proved

TLAPS checks the seven `*Proofs` modules and `Recursion` for every value of the constants under
the named assumptions of the modules (`StoreAssumption`, `LifecycleAssumption`,
`DelegationAssumption`, `BusAssumption`, `RecurringAssumption`, `ScheduleAssumption`,
`WorkerAssumption`, `CatalogAssumption`, `OrgAssumption`, `SettingsAssumption`, `BootAssumption`,
`SeedingAssumption`, `ChatAssumption`, `CommandAssumption`, `WorkflowAssumption`). These ask that
bounds and capacities are natural numbers, that there is an agent, a row, a template, that reports
are agents, that the default provider is one, that seeded agents are numbered managers first, and
that schedules, workflow steps and contexts are records of the right fields. Every safety
invariant and every action property of a passing run is a theorem, type invariants included.

The theorems speak of each part's own specification (`SeedSpec`, `ChatSpec`, ...). `OfficeProofs`
shows that a behaviour of `OfficeSpec` is one of every part (`PartsBehave`: each step of the whole
is a step of a part or changes nothing of it); all that the run `office` checks, but for
liveness, follows (`OfficeTypesHold`, `OfficeIsCorrect`).

**Recursive functions.** `Ancestors`, `Above`, `Picked` and `Compiled` are recursive functions, and
a function that a `CHOOSE` defines has its equation only if there is one. `Iterates` of `Recursion`
gives it: for every list of step functions there is a function that applies them one after the
other. Where induction is needed it is by the least counterexample (`LeastNumber`), since the
library's induction theorems cannot be instantiated.

**The claim protocol.** `OneClaimPerAttempt` is not inductive by itself: nothing in it says
why a second claim of an attempt is impossible. `IInv` adds `ClaimIsSpent`: a row that can
still be claimed has a `retry_count` above the epoch of every claim it has seen. Claims need
`PENDING`; all ways back to `PENDING` raise `retry_count`. The proof divides steps into
`Quiet` ones, after which no claimed task is new, and `Taken(s, e)`, the claim of `s` by `e`;
each conjunct is shown for the two in turn. The same invariant gives `RunIsNewestClaim`,
`QueueKept` (initial state to initial state, each step to a grant, a re-queueing or a stutter)
and, with `ResetIsPaid` (automatic resets never exceed what `retry_count` has grown by),
`AutoRetryBound`.

**Cron.** `CronSingleFlight` needs `FlightCovers`: agents with a cron task or an ideation are
in `in_flight`, and `PickIsGrounded`: the row that cron has picked belongs to an agent that is
not. `ReaperSparesOnlySilent` follows from the types alone, by the reaper's threshold of zero.

**The family of a row.** `TerminalHasReader`, an action property: a finished row changes only at the
hands of someone who had hold of it. It needs `FamilyInv`: rows are numbered as they are created and a
parent is an older row, so that the ancestors of a row (`Ancestors`) are older rows and do not change
when another row is added; and `HoldersInv`: whoever is at work on a row, a loop, the reconciler's list
or a handler between two calls, is at work on one that exists, and a revision reopens only rows above its
own (`FamilyInductive`, `FinishedRowsAreHeld`).

**The opened loop.** `LifecycleImplemented` shows that each step of `HsmDelegation` is one of
`SwoLifecycle` or changes nothing it sees, so `IInv` and its consequences hold of it too.
`HsmIInv` then has two halves. `PassIsPaid`: every synthesis pass after the first has been
paid for with one `retry_count` of the row; others may raise it, nobody lowers it, so the
ceiling on `retry_count` is met first (`RevisionsAreReviewed`). `NoneLeft`: only a loop that
awaits, or one that ended with an error, may have children running (`AnswersAfterChildren`).
`Vetted`: from its first pass on, a loop's delegated children are over and their replies
fit for synthesis, and no delegated child is added afterwards (`AcceptsOnlyReportable`).
`DelegationIsAcyclic` is `DelegationsDescend`: when a loop creates a child the agent is not among
those of the lineage, and `FamilyInv` keeps the lineage as it was read.

**The bus.** `BusInv` has four parts. `LogInv`: what was emitted is in the log, as every
publisher appends first. `ReplayInv` carries this over to the moment of a replay and adds what a
replay returned; that a replay within its limit returns all newer signals is the lemma
`WholeReplay`, by cardinalities. `CursorInv`: until it is emitted, a signal has one holder, so
none is emitted twice. `HeardInv`: nothing is heard before the replay, and what was heard before
it was emitted came from the replay. `ReplayIsComplete` and `DuplicatesWereInFlight` follow.
`TypeStep` needs the greatest element of a finite set of places (`Greatest` of `Recursion`), by the
well-foundedness of the natural numbers.

`SettledViewIsCurrent` is `SettledViewsAreCurrent`, for any number of rows, events and commands and
any capacities. `HolderInv`: a publisher speaks of its own row, and a signal not yet emitted has a
holder. For every row in neither `dropped` nor `beside` (`Sound`), `RowInv` says why stale signals
do no harm. A command at work on it has the row to itself (`StagesOK`), since it would be in
`beside` otherwise. Handler, task and command speak of the row as it is, and the relay may speak of it
as it was only while another status event is in its channel (`SaysOK`). For every stale signal
either a right one is `Coming`, by an event in the channel, by a decision that has told of the
approval and not yet of the row (`Promised`) or by a publisher about to say it (`Fresh`), or a signal
with the newest version was drawn and appended after it (`StaleOK`).
`ScreenInv` follows the row through bootstrap, replay and listening: what is shown is current, or
will be announced, or a current signal newer than the bootstrap was not heard, which is the gap
that the property excepts.

**Recurring orders.** `RecTypes`, `NumberInv`, `HeldInv` and `SlotInv`. A number read exceeds all
numbers among the runs its reader has seen, which gives `NumbersClashOnlyInOverlap`. A `HELD` order
has the one task that won it, which gives `ClaimedIsExecuted`. For `SlotTakenOnce`: a template in
`inFlight` has one scheduled task (`OneAtATime`), the slot this task read is still `next_run_at`
until it advances (`SlotInHand`), and a slot recorded before is below it afterwards (`SlotSpent`),
as long as the template has no excuse.

**The calendar.** `NextRunsFit` is arithmetic: years and months follow one another without gap
(`Years`, `Months`, `MonthsFollow`), hence an instant has one year, month and day (`YearIs`,
`MonthIs`, `Fields`), normalization of a day past the month's end included (`TheDayIs`); one
lemma per cadence (`Hourly`, `Daily`, `Weekly`, `Monthly`) then shows that the instant computed is
later, fits, and is the first to do so.

**Workers, catalog, org.** `EndIsStored`: an end beat that had none before it is alone on its way or
stored (`BeatInv`). `RowsAreClosed` (`RowInv`): the row of `worker_runs` stays open on exactly three of
the ways out of `run_worker`. `GivenIsPermitted` (`BindInv`, `HandedInv`): what a launch has collected is
among what it saw at its start and nobody took away since; foreign keys keep bindings within connectors.
`SearchToolIsSingle` (`ToolInv`) and `SkillsLoad` (`SkillInv`). For hiring, `GateInv`: a call past the
gate whose count nobody made old still finds room, so its insert cannot break the cap (`CapHolds`, by
cardinalities). `ReportsAreYounger`: a report is created after its manager and no step moves anybody,
hence no cycle, and the walk up, whose numbers go down, reaches a root within as many steps as there are
agents (`WalksEnd`). `NothingElseIsLost`: for the requests tried at once and for those kept for the
caller alike, what was sent is what was tried, or kept or discarded, followed by what is still in the
pipe or was left there unread (`LostInv`), in that order; `UnreadInv` says that lines are left only by a
kernel that noticed the exit, and requests discarded only by a run that returned one of three errors.

**Workflows, commands.** `WorkflowsAreWhole` (`LaunchInv`): the rows of a launch are a beginning of what
was compiled for its context, all of it once the launch is recorded, and the steps in `swept` are closed:
no claim takes a closed row, no end opens one, and whoever puts one back takes it out of `swept`.
`CommandsRunOnce`: an id that was never forgotten was asked for once (`OnceInv`), and projects made
exceed those announced by the calls still under way (`OwedInv`), unless a call of that id was left
without an answer.

**Settings.** `LockInv`: whoever holds the kernel's lock is alone and nothing runs before it is done
(`KernelIsSingle`). `ChoiceInv`: without an overlap one window at most is between its reading and its
last write, and as long as no write broke off, what it read or was given is what was last chosen.
`VaultInv`: until `vaultLost` there is at most one generated key, in keyring, file or both.
`StatusIsTrue`: where the status says a key is there, a boot starts with that provider's key.
`SecretsStand`: as long as no two updates overlapped, no write missed the keyring and no stop emptied the
file (`Calm`), one command at most holds a bundle, what it holds is good but for its own account
(`HolderInv`), and every copy is good but the one being written (`CopyInv`): "good" is that a saved
account holds its secret, or one whose saving a stop cut off.

**Seeding.** `ArchiveInv`: between the manifest and the end of a reset, all there was is in `kept`.
`StaffInv` and `WholeInv`: a profile id vouches for a whole seed except while it is made or
deleted, which a loop-by-loop account of what the seeding has made so far carries through
(`UpIsSeeded`, `NothingIsLost`).

**External chat.** `ReceiptInv`: a call past the claim owns its receipt, and an update that was heard
has one. `SettledInv`: a receipt has its call past the claim, its outbound event, or an
entry in `cutOff` or `unlogged`.

**Only model-checked.** `PendingIsServed`, `LoopsReturn` and `DueIsServed`: they are liveness under
fairness, which is beyond the prover.

## 5. What the models leave out

- Payloads, titles, initiatives, priorities, review texts, decision and audit records, agent
  memory: no guard of the life cycle reads them.
- Errors of single database calls inside operator handlers. Errors in the loop are modelled
  (`Abandon`, `GiveError`, `SkipInline`); writes whose result the loop or the reconciler ignores
  (`let _ =`) are taken to succeed in `SwoLifecycle`; in `WorkflowLaunch` the reconciler's and the
  sweep's may fail.
- The map in which a manager hands its children's results to the synthesis worker.
- `set_agent_reporting_line`, which has no caller: `Reports` is a constant, as a new hire
  changes nothing for the loops already running.
- Hires change the reporting lines of `OrgChart` only; there names are compared exactly and ids are
  numbers in order of creation, not UUIDs.
- Recurring runs: the columns that copy the state of a run's SWO (`sync_recurring_runs_from_swos`,
  which recomputes them from the SWO at every call) and the attachments an order takes over.
- Worker runs: agent directories, attachments, prompts, and what a worker computes.
- Catalog: CLI tools, bound and read like connectors, and the text of skills.
- On the bus: audience and redaction filters, which every emission of the code passes; the number
  of publications of one handler (the submit handler's three are one); more rows than the 80 of a
  bootstrap; the relay's last presence signal. A revision of a row whose loop is still at work has
  one loop, relay and task in the model for the two in the code: the row is in `beside` by then.
- Workflow launches: a second revision while one is under way.
- Time: cron's due time, thresholds and time-outs are open choices.

### Not modelled

- *Audit chain and inbox.* `record_audit_event` reads the last hash and inserts under one lock;
  inbox rows are inserted and marked by single statements. A model would restate each statement.
- *Worker harnesses, chat packages.* One process per run without shared state; the kernel sees its
  side channel and final JSON only, which `WorkerRun` leaves open.
- *Router, manifests, protocol.* Stateless look-ups, parsing and message types. What a manifest
  grants is a constant of `WorkerRun` and state of `Catalog`. Encryption inside the vault likewise; how its
  key is found is in `KernelBoot`.
- *Functions nobody calls*: `create_agent` (with the limit `max_agents`), `set_agent_reporting_line`,
  `update_agent_cron`, `execute_hsm_loop`, `rerun_existing_swo`.

### Observed while modelling

Behaviour the models reproduce that a reader of the properties should know of.

- Hiring a name that exists rewrites its role and keeps its manager; edits of the identity do not
  reach the manifest. Through `POST /hire` the cap does not apply.
- A seeded schedule has `next_run_at` NULL (`kernel.rs:430`), which the due list
  (`registry.rs:5779`) never returns. A monthly schedule on day 31 passes over short months, weekly
  ignores its interval.
- A failed spawn, a failed write to the worker's standard input and output that does not parse leave the row of
  `worker_runs` open. Requests still in the pipe when the exit is noticed are dropped. A run that
  returns an error drops `side_effects` with it: work to dispatch, managed requests and proposals that
  were read and accepted before. So does the caller of a synthesis pass that succeeded, which takes the
  result alone.
- The keyring is preferred to the file although only the file's write is required to succeed; an
  update of the bundle holds no lock across load and store; the file is not replaced atomically.
- `save_saved_config` truncates the configuration and then writes it, as every boot does whose file lacks
  one of the two plain-text secrets (`lib.rs:2414`): a stop in between leaves an empty file and the
  default provider. A failed update of the agents' models is only logged (`lib.rs:3459`).
- Any failure of `Kernel::new` on an existing database, not only a wrong key, is followed by a try
  with `LEGACY_VAULT_KEY` (`lib.rs:1673`). A `vault.key` that cannot be read counts as none, and
  the new key overwrites it where the keyring refuses (`lib.rs:1487`).
- A reset deletes `profile_id` last: cut in between, the next boot takes the database for seeded. A
  seed file with a manager that does not resolve makes every boot archive, clear and fail.
- `save_skill` inserts the version before the skill, which foreign keys, where they are enforced,
  reject for a new skill.
- An agent's search key is handed over at a launch without another look at its capability.
- A workflow's modes (`Sequential`, `Collect`) are text: all its rows are pending at once. A launch
  whose run record or audit event fails returns an error with its rows committed; repeated, it
  launches them again. A command id that failed stays recorded; its repetition is rejected.
- Receipts are keyed by channel, chat and message, not by bot. A delivery event that cannot be
  written is missed by nobody (`http.rs:706`), and a connection that closes while the agent answers
  drops the handler behind its claim: the update's repetition is a duplicate.
- The reconciler resets rows of its list without another look (`orchestrator.rs:2314`), and a revision
  reopens and resets rows whatever became of them since (`lib.rs:3044`): a step that a sweep had
  cancelled may run again below a closed root.
- Nothing is published of rows the reconciler or the reaper writes, of loops that cron runs, of the
  ancestors a revision reopens and of rows a cancellation sweeps. A command that writes a row while
  its relay or task is publishing may leave the older reading on the screen.
- A revision's children are created without the lineage check, `IN_PROGRESS` and with `retry_count` 0
  (`orchestrator.rs:5157`). A synthesis may name the manager or an ancestor of it, whose loop
  reviews in its turn: neither ceiling bounds the depth.

## 6. Plan

1. The columns `sync_recurring_runs_from_swos` copies, with `SwoLifecycle` below: a run's state is
   its order's, at most one sync behind.
2. Reporting lines as state of `HsmDelegation`: hires and edits beside running loops.
3. Errors of single database calls inside the operator commands of `SwoLifecycle`.
4. The hazards of `PROJECT.json` without a property, each with a note: results keyed by agent
   (`orchestrator.rs:4811`), the many calls of `queue_request_revision` (`lib.rs:3032`), work
   dispatched behind an answer (`orchestrator.rs:4344`).
5. A crash of `RecurringRuns` told apart from other faults, so that `ClaimedIsExecuted` says what it
   leaves behind.
