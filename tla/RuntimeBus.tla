----------------------------- MODULE RuntimeBus -----------------------------
(***************************************************************************)
(* The runtime event bus: how a change of a row reaches the desktop.       *)
(*                                                                         *)
(* A work order has four publishers.  The handler that starts its loop and *)
(* its task (after the HSM loop returned) publish by themselves; in        *)
(* between its relay turns the events of the loop, sent through a bounded  *)
(* channel, into signals; and a command that cancels or decides the row    *)
(* publishes beside them all.  A publisher reads the row, then draws a     *)
(* cursor, then appends to the log, then emits: four steps under three     *)
(* different locks.                                                        *)
(*                                                                         *)
(* The desktop takes a bootstrap, replays the log from the bootstrap's     *)
(* cursor, and only then subscribes to what is emitted.                    *)
(***************************************************************************)
EXTENDS Integers, Sequences, FiniteSets

CONSTANTS
  Swo,         \* root SWOs, one work order each
  NoSwo,       \* the subject of a signal that is about no row
  ChanCap,     \* capacity of the relay's mpsc channel (32 in the code)
  LogCap,      \* signals the log retains (512)
  Limit,       \* the desktop's limit on a replay (200)
  MaxInits,    \* bound: calls of TauriBus.init
  MaxEvents,   \* bound: writes to a row by its loop, and its events about no row
  MaxOthers,   \* bound: other writes to rows that exist, and readings that fail
  MaxAtOnce    \* bound: publishers at work at once

ASSUME BusAssumption ==
  /\ Swo # {} /\ NoSwo \notin Swo
  /\ ChanCap \in Nat \ {0} /\ LogCap \in Nat \ {0} /\ Limit \in Nat \ {0}
  /\ MaxInits \in Nat \ {0} /\ MaxEvents \in Nat /\ MaxOthers \in Nat /\ MaxAtOnce \in Nat

Publisher == {"handler", "relay", "task", "command"} \X Swo
Try == 1 .. MaxInits
NoTry == 0

LoopStage == {"none", "starting", "running", "returned", "failed"}
PubStage == {"idle", "due", "read", "drawn", "logged"}
TryStage == {"off", "reading", "booted", "replayed", "listening", "gone", "failed"}

VARIABLES
  (* the kernel *)
  version,    \* of each row: the number of writes so far, 0 before it exists
  loop,       \* where the HSM loop of each work order stands
  chan,       \* its events on their way to the relay
  (* the bus *)
  pub,        \* what each publisher is at
  signals,    \* every signal, in the order of the cursors drawn
  log,        \* every cursor appended to the log, in that order
  emitted,    \* cursors of the signals handed to app.emit
  cached,     \* the bootstrap cache, empty or of one
  (* the desktop *)
  attempts,   \* bootAttempt: calls of TauriBus.init made
  try,        \* where each of them stands
  unlisten,   \* the call whose listener dispose would remove
  attached,   \* whether the workspace's reducer is among the bus's listeners
  view,       \* the version of each row on the screen, 0 for none
  (* history *)
  heard, heardTwice,   \* signals the reducer has had, and had more than once
  atReplay,            \* what was emitted and logged when a call replayed
  dropped,             \* rows of which a status event found the channel full, or of
                       \* which a publisher's reading failed
  beside,              \* rows written while a publisher of theirs was at work, or
                       \* by someone who publishes nothing
  events,              \* of each row: its writes by its loop, and that one's other events
  others               \* other writes to rows, and readings that failed

kernelVars  == <<version, loop, chan, dropped, beside, events, others>>
busVars     == <<pub, signals, log, emitted>>
desktopVars == <<attempts, try, unlisten, attached, view, heard, heardTwice, atReplay, cached>>
vars == <<kernelVars, busVars, desktopVars>>

Signal == [swo : Swo \cup {NoSwo}, version : Nat]
Bootstrap == [rows : [Swo -> Nat], since : Nat, cursor : Nat]
Unbooted == [rows |-> [s \in Swo |-> 0], since |-> 0, cursor |-> 0]
Stands(stage, s, v, c) == [stage |-> stage, swo |-> s, version |-> v, cursor |-> c]
Idle == Stands("idle", NoSwo, 0, 0)

KernelOK ==
  /\ version \in [Swo -> Nat] /\ loop \in [Swo -> LoopStage]
  /\ chan \in [Swo -> Seq({"status", "chatter"})]
  /\ \A s \in Swo : Len(chan[s]) <= ChanCap
  /\ dropped \subseteq Swo /\ beside \subseteq Swo
  /\ events \in [Swo -> Nat] /\ others \in Nat

PubOK ==
  /\ pub \in [Publisher -> [stage : PubStage, swo : Swo \cup {NoSwo},
                            version : Nat, cursor : Nat]]
  /\ \A p \in Publisher :
       /\ pub[p].stage = "due" => pub[p].swo \in Swo
       /\ pub[p].stage \in {"drawn", "logged"} => pub[p].cursor \in DOMAIN signals

BusOK ==
  /\ signals \in Seq(Signal) /\ emitted \subseteq DOMAIN signals
  /\ log \in Seq(Nat) /\ \A k \in DOMAIN log : log[k] \in DOMAIN signals

DesktopOK ==
  /\ cached \subseteq Bootstrap /\ Cardinality(cached) <= 1
  /\ attempts \in Try
  /\ try \in [Try -> [stage : TryStage, boot : Bootstrap]]
  /\ unlisten \in Try \cup {NoTry} /\ attached \in BOOLEAN
  /\ view \in [Swo -> Nat]
  /\ heard \subseteq DOMAIN signals /\ heardTwice \subseteq heard
  /\ atReplay \in [Try -> [emitted : SUBSET Nat, log : Seq(Nat)]]

TypeOK == KernelOK /\ PubOK /\ BusOK /\ DesktopOK

Init ==
  /\ version = [s \in Swo |-> 0] /\ loop = [s \in Swo |-> "none"]
  /\ chan = [s \in Swo |-> <<>>]
  /\ pub = [p \in Publisher |-> Idle]
  /\ signals = <<>> /\ log = <<>> /\ emitted = {}
  /\ cached = {}
  /\ attempts = 1
  /\ try = [i \in Try |-> [stage |-> "off", boot |-> Unbooted]]
  /\ unlisten = NoTry /\ attached = TRUE
  /\ view = [s \in Swo |-> 0]
  /\ heard = {} /\ heardTwice = {}
  /\ atReplay = [i \in Try |-> [emitted |-> {}, log |-> <<>>]]
  /\ dropped = {}
  /\ beside = {} /\ events = [s \in Swo |-> 0] /\ others = 0

-----------------------------------------------------------------------------
(* Publishers *)

Other == others < MaxOthers /\ others' = others + 1

Write(s) == version' = [version EXCEPT ![s] = @ + 1]

Handler(s) == <<"handler", s>>
Relay(s)   == <<"relay", s>>
Task(s)    == <<"task", s>>
Command(s) == <<"command", s>>

(* The loop is over, its events are relayed, and nobody publishes about the row. *)
Settled(s) ==
  /\ loop[s] \in {"returned", "failed"} /\ chan[s] = <<>>
  /\ \A p \in Publisher : p[2] = s => pub[p].stage = "idle"

Beside(s) == IF Settled(s) THEN beside ELSE beside \cup {s}

(* Something to say about a row, which is yet to be read, or about no row. *)
About(s) == Stands("due", s, 0, 0)
Chatter  == Stands("read", NoSwo, 0, 0)

Publish(p, what) ==
  /\ pub[p].stage = "idle"
  /\ Cardinality({q \in Publisher : pub[q].stage # "idle"}) < MaxAtOnce
  /\ pub' = [pub EXCEPT ![p] = what]

(* A handler starts the loop when it has published the row, unless cron won the claim
   of a new one. *)
Starts(p) ==
  \/ UNCHANGED loop
  \/ /\ p[1] = "handler" /\ loop[p[2]] = "starting"
     /\ loop' = [loop EXCEPT ![p[2]] = "running"]

(* The row goes into the payload as it is now. *)
ReadRow(p) ==
  /\ pub[p].stage = "due"
  /\ pub' = [pub EXCEPT ![p] = Stands("read", pub[p].swo, version[pub[p].swo], 0)]
  /\ UNCHANGED <<kernelVars, signals, log, emitted, desktopVars>>

(* Whoever cannot read the row publishes nothing, and goes on. *)
ReadFails(p) ==
  /\ pub[p].stage = "due"
  /\ pub' = [pub EXCEPT ![p] = Idle]
  /\ Starts(p)
  /\ Other
  /\ dropped' = dropped \cup {pub[p].swo}
  /\ UNCHANGED <<version, chan, beside, events, signals, log, emitted, desktopVars>>

DrawCursor(p) ==
  /\ pub[p].stage = "read"
  /\ signals' = Append(signals, [swo |-> pub[p].swo, version |-> pub[p].version])
  /\ pub' = [pub EXCEPT ![p] =
       Stands("drawn", pub[p].swo, pub[p].version, Len(signals) + 1)]
  /\ UNCHANGED <<kernelVars, log, emitted, desktopVars>>

Remember(p) ==
  /\ pub[p].stage = "drawn"
  /\ log' = Append(log, pub[p].cursor)
  /\ pub' = [pub EXCEPT ![p] =
       Stands("logged", pub[p].swo, pub[p].version, pub[p].cursor)]
  /\ UNCHANGED <<kernelVars, signals, emitted, desktopVars>>

(* Mutant: the call subscribes before it replays. *)
MutListening(i) == try[i].stage \in {"booted", "replayed", "listening"}
Listening(i) == try[i].stage = "listening"

(* A signal about a row replaces the row on the screen. *)
Shown(c, screen) ==
  IF signals[c].swo = NoSwo THEN screen
  ELSE [screen EXCEPT ![signals[c].swo] = signals[c].version]

(* A decision has told of the approval, and has yet to tell of the row. *)
After(p) == IF p[1] = "command" /\ pub[p].swo = NoSwo THEN About(p[2]) ELSE Idle

Emit(p) ==
  LET c == pub[p].cursor IN
  /\ pub[p].stage = "logged"
  /\ emitted' = emitted \cup {c}
  /\ pub' = [pub EXCEPT ![p] = After(p)]
  /\ Starts(p)
  /\ IF attached /\ \E i \in Try : Listening(i)
     THEN /\ heard' = heard \cup {c}
          /\ heardTwice' = heardTwice \cup (heard \cap {c})
          /\ view' = Shown(c, view)
     ELSE UNCHANGED <<heard, heardTwice, view>>
  /\ UNCHANGED <<version, chan, dropped, beside, events, others, signals, log,
                 attempts, try, unlisten, attached, atReplay, cached>>

-----------------------------------------------------------------------------
(* Commands and loops *)

Submit(s) ==
  /\ loop[s] = "none"
  /\ Write(s)
  /\ loop' = [loop EXCEPT ![s] = "starting"]
  /\ Publish(Handler(s), About(s))
  /\ UNCHANGED <<chan, dropped, beside, events, others, signals, log, emitted, desktopVars>>

(* Someone else writes a row that exists, whatever its loop is doing. *)
OtherWrites(s) ==
  /\ loop[s] # "none"
  /\ Other /\ Write(s)

(* cancel_work_order *)
Cancel(s) ==
  /\ OtherWrites(s)
  /\ beside' = Beside(s)
  /\ Publish(Command(s), About(s))
  /\ UNCHANGED <<loop, chan, dropped, events, signals, log, emitted, desktopVars>>

(* queue_review_decide: approval.removed first, then the row. *)
Decide(s) ==
  /\ OtherWrites(s)
  /\ beside' = Beside(s)
  /\ Publish(Command(s), Chatter)
  /\ UNCHANGED <<loop, chan, dropped, events, signals, log, emitted, desktopVars>>

(* queue_request_revision, past its claim: the row gets a loop, a relay and a task
   again.  (While those of before are still at work they are taken for one.) *)
Revise(s) ==
  /\ OtherWrites(s)
  /\ loop' = [loop EXCEPT ![s] = "starting"]
  /\ beside' = Beside(s)
  /\ Publish(Handler(s), About(s))
  /\ UNCHANGED <<chan, dropped, events, signals, log, emitted, desktopVars>>

(* Nobody publishes what the reconciler resets, what a loop of cron's writes, the
   ancestors a revision reopens or a sweep closes, and the row of a command that
   fails after it has written it. *)
WritesUnpublished(s) ==
  /\ OtherWrites(s)
  /\ beside' = beside \cup {s}
  /\ UNCHANGED <<loop, chan, dropped, events, busVars, desktopVars>>

(* Mutant: room for one event more than the capacity. *)
MutFull(s) == Len(chan[s]) > ChanCap
Full(s) == Len(chan[s]) >= ChanCap
Sent(s, event) == [chan EXCEPT ![s] = Append(@, event)]

LoopEvent(s) ==
  /\ events[s] < MaxEvents
  /\ events' = [events EXCEPT ![s] = @ + 1]

(* emit_swo_status_changed does not wait for room. *)
TrySend(s) ==
  IF Full(s)
  THEN dropped' = dropped \cup {s} /\ UNCHANGED chan
  ELSE chan' = Sent(s, "status") /\ UNCHANGED dropped

(* Mutant: a status is written and no event sent. *)
MutLoopWrites(s) ==
  /\ loop[s] = "running"
  /\ LoopEvent(s) /\ Write(s)
  /\ UNCHANGED <<loop, chan, dropped, beside, others, busVars, desktopVars>>

LoopWrites(s) ==
  /\ loop[s] = "running"
  /\ LoopEvent(s) /\ Write(s)
  /\ TrySend(s)
  /\ UNCHANGED <<loop, beside, others, busVars, desktopVars>>

LoopChatters(s) ==
  /\ loop[s] = "running" /\ LoopEvent(s) /\ ~Full(s)
  /\ chan' = Sent(s, "chatter")
  /\ UNCHANGED <<version, loop, dropped, beside, others, busVars, desktopVars>>

LoopReturns(s) ==
  /\ loop[s] = "running"
  /\ loop' = [loop EXCEPT ![s] = "returned"]
  /\ Publish(Task(s), About(s))
  /\ UNCHANGED <<version, chan, dropped, beside, events, others, signals, log, emitted, desktopVars>>

(* The task then asks for a resync, and the desktop only logs that. *)
LoopFails(s) ==
  /\ loop[s] = "running"
  /\ loop' = [loop EXCEPT ![s] = "failed"]
  /\ Publish(Task(s), Chatter)
  /\ UNCHANGED <<version, chan, dropped, beside, events, others, signals, log, emitted, desktopVars>>

RelayReceives(s) ==
  /\ chan[s] # <<>>
  /\ chan' = [chan EXCEPT ![s] = Tail(@)]
  /\ Publish(Relay(s), IF Head(chan[s]) = "status" THEN About(s) ELSE Chatter)
  /\ UNCHANGED <<version, loop, dropped, beside, events, others, signals, log, emitted, desktopVars>>

-----------------------------------------------------------------------------
(* The desktop: calls i of TauriBus.init, and dispose *)

Goto(i, stage) == try' = [try EXCEPT ![i] = [stage |-> stage, boot |-> try[i].boot]]

(* The rows of a bootstrap are read first, its cursor last. *)
ReadsRows(i) ==
  /\ try[i].stage = "off" /\ i <= attempts
  /\ try' = [try EXCEPT ![i] =
       [stage |-> "reading",
        boot |-> [rows |-> version, since |-> Len(signals), cursor |-> 0]]]
  /\ UNCHANGED <<kernelVars, busVars, attempts, unlisten, attached, view, heard, heardTwice,
                 atReplay, cached>>

Hydrated(boot) ==
  IF attached
  THEN [s \in Swo |-> IF boot.rows[s] = 0 THEN view[s] ELSE boot.rows[s]]
  ELSE view

Hydrates(i, boot) ==
  /\ try[i].stage = "reading"
  /\ try' = [try EXCEPT ![i] = [stage |-> "booted", boot |-> boot]]
  /\ view' = Hydrated(boot)
  /\ UNCHANGED <<kernelVars, busVars, attempts, unlisten, attached, heard, heardTwice, atReplay>>

Boots(i) ==
  LET boot == [rows |-> try[i].boot.rows, since |-> try[i].boot.since,
               cursor |-> Len(signals)] IN
  Hydrates(i, boot) /\ cached' = {boot}

(* When the kernel does not boot, or the bootstrap fails or takes more than two
   seconds with none in the cache, init throws. *)
BootFails(i) ==
  /\ \/ try[i].stage = "reading" /\ cached = {}
     \/ try[i].stage = "off" /\ i <= attempts
  /\ Goto(i, "failed")
  /\ UNCHANGED <<kernelVars, busVars, attempts, unlisten, attached, view, heard, heardTwice,
                 atReplay, cached>>

(* runtime_replay: the oldest signals retained after the cursor, by their places
   in the log. *)
(* Mutant: off by one when the log drops its oldest signals. *)
MutRetained == {k \in DOMAIN log : k > Len(log) - LogCap + 1}
Retained == {k \in DOMAIN log : k > Len(log) - LogCap}

Replay(cursor) ==
  LET newer == {k \in Retained : log[k] > cursor} IN
  {k \in newer : Cardinality({m \in newer : m < k}) < Limit}

(* The screen after a replay: of several signals about a row the last counts. *)
ShownAll(replay) ==
  [s \in Swo |->
    LET about == {k \in replay : signals[log[k]].swo = s} IN
    IF about = {} THEN view[s]
    ELSE signals[log[CHOOSE k \in about : \A m \in about : m <= k]].version]

Replays(i) ==
  LET replay == Replay(try[i].boot.cursor)
      had    == {log[k] : k \in replay} IN
  /\ try[i].stage = "booted"
  /\ Goto(i, "replayed")
  /\ IF attached
     THEN /\ atReplay' = [atReplay EXCEPT ![i] = [emitted |-> emitted, log |-> log]]
          /\ heard' = heard \cup had
          /\ heardTwice' = heardTwice \cup (heard \cap had)
          /\ view' = ShownAll(replay)
     ELSE UNCHANGED <<atReplay, heard, heardTwice, view>>
  /\ UNCHANGED <<kernelVars, busVars, attempts, unlisten, attached, cached>>

Listens(i) ==
  /\ try[i].stage = "replayed"
  /\ Goto(i, "listening")
  /\ unlisten' = i
  /\ UNCHANGED <<kernelVars, busVars, attempts, attached, view, heard, heardTwice, atReplay, cached>>

-----------------------------------------------------------------------------
Next ==
  \/ \E s \in Swo : \/ Submit(s) \/ Cancel(s) \/ Decide(s) \/ Revise(s)
                     \/ WritesUnpublished(s)
                     \/ LoopWrites(s) \/ LoopChatters(s)
                     \/ LoopReturns(s) \/ LoopFails(s)
                     \/ RelayReceives(s)
  \/ \E p \in Publisher : ReadRow(p) \/ ReadFails(p) \/ DrawCursor(p) \/ Remember(p) \/ Emit(p)
  \/ \E i \in Try : \/ ReadsRows(i) \/ Boots(i) \/ BootFails(i)
                     \/ Replays(i) \/ Listens(i)

Spec == Init /\ [][Next]_vars

-----------------------------------------------------------------------------
(* Properties *)

NewerAt(i) ==   \* places in the log that the call's replay could return
  LET lg == atReplay[i].log IN
  {k \in DOMAIN lg : k > Len(lg) - LogCap /\ lg[k] > try[i].boot.cursor}

GoneAt(i) ==    \* what the log had dropped by then
  LET lg == atReplay[i].log IN {lg[k] : k \in {m \in DOMAIN lg : m <= Len(lg) - LogCap}}

HasReplayed(i) == try[i].stage \in {"replayed", "listening"} /\ attached

(* What was emitted before a replay is in the log by then, as a publisher
   appends before it emits: the replaying reducer has had it, unless the log
   had dropped it or the limit cut the replay short. *)
EmittedBeforeReplayIsHeard ==
  \A i \in Try : HasReplayed(i) /\ Cardinality(NewerAt(i)) <= Limit =>
    \A c \in atReplay[i].emitted \ GoneAt(i) : c > try[i].boot.cursor => c \in heard

(* A signal reaches the reducer twice only if a replay returned it before it was
   emitted: what had been emitted by then is never applied again. *)
TwiceOnlyIfInFlight ==
  \A c \in heardTwice : \E i \in Try :
    /\ c \notin atReplay[i].emitted
    /\ \E k \in DOMAIN atReplay[i].log : atReplay[i].log[k] = c

(* When a work order is over and its publishers are quiet, the screen shows the
   row as it is, although relay and task read and emit in any order, the bootstrap
   was taken at any time, and cancellations, decisions and revisions came after it
   and published for themselves.  Excepted are rows of which a status event was
   dropped or a reading failed, rows that a command wrote while others were still
   publishing them, or that someone wrote who does not publish, and rows of which
   the desktop missed a signal drawn since its bootstrap read the rows. *)
SettledViewIsCurrent ==
  \A i \in Try, s \in Swo :
    /\ Listening(i) /\ attached /\ Settled(s)
    /\ s \notin dropped /\ s \notin beside
    /\ \A c \in emitted : c > try[i].boot.since /\ signals[c].swo = s => c \in heard
    => view[s] = version[s]

(* "Replay any signals we missed between bootstrap and subscription"
   (tauriBus.ts:102): once subscribed, nothing emitted after the bootstrap is
   missing. *)
NothingMissedBeforeListening ==
  \A i \in Try : Listening(i) /\ attached =>
    \A c \in emitted : c > try[i].boot.cursor => c \in heard
=============================================================================
