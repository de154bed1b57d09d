------------------------------ MODULE WorkerRun ------------------------------
(***************************************************************************)
(* run_worker of orchestrator.rs: one worker process, the lines it writes  *)
(* to stderr (heartbeats and requests of the side channel), the loop that  *)
(* reads them beside the process's exit and a stall timer, the heartbeat   *)
(* row, written by blocking tasks that land in any order, and the row of   *)
(* worker_runs.                                                            *)
(*                                                                         *)
(* The worker (package sairgent_harness) is an environment: it beats with  *)
(* increasing numbers, sends requests, and exits with some output.         *)
(***************************************************************************)
EXTENDS Integers, Sequences

CONSTANTS
  Request,    \* requests a worker may send: [kind, fits]
  Granted,    \* capabilities of the agent's manifest when the run starts
  MaxBeats,   \* bound: heartbeats of the worker
  MaxSent     \* bound: requests of the worker

ASSUME WorkerAssumption ==
  /\ MaxBeats \in Nat /\ MaxSent \in Nat
  /\ \A r \in Request : r.fits \in BOOLEAN

VARIABLES
  process,   \* the subprocess
  output,    \* what it printed to stdout
  pipe,      \* lines of stderr nobody has read
  beats,     \* heartbeats the worker has sent
  sent,      \* requests the worker has sent
  kernel,    \* where run_worker is
  outcome,   \* how run_worker returned
  lastSeq,   \* last_heartbeat_seq
  known,     \* run_id_shared holds the run id
  silent,    \* last_worker_progress_at is WORKER_STALL_TIMEOUT ago
  writes,    \* heartbeat upserts handed to spawn_blocking
  beat,      \* row of agent_heartbeats
  runRow,    \* status of the row of worker_runs
  tried,     \* requests carried out at once; the error of a write is ignored
  deferred,  \* requests kept in side_effects for the caller
  discarded, \* history: requests dropped with side_effects
  unread,    \* history: lines never read by the loop
  overtaken  \* history: a beat was under way when the end beat was handed over

workerVars == <<process, output, pipe, beats, sent, kernel, outcome, lastSeq, known, silent,
                writes, beat, runRow, tried, deferred, discarded, unread, overtaken>>
requestVars == <<tried, deferred, discarded>>
childVars == <<process, output, beats, sent>>
beatVars == <<writes, beat, overtaken>>

End == -1   \* seq of the beat that ends a run
EndStatus == {"READY", "ERROR", "DEAD"}
NoBeat == [seq |-> -2, status |-> "NONE"]
Beat(seq, status) == [seq |-> seq, status |-> status]
NoRequest == [kind |-> "none", fits |-> FALSE]
PipeLine(seq, r) == [seq |-> seq, request |-> r]

WorkerInit ==
  /\ process = "none" /\ output = "none" /\ pipe = <<>> /\ beats = 0 /\ sent = <<>>
  /\ kernel = "preparing" /\ outcome = "none"
  /\ lastSeq = -1 /\ known = FALSE /\ silent = FALSE
  /\ writes = {} /\ beat = NoBeat /\ runRow = "ABSENT"
  /\ tried = <<>> /\ deferred = <<>> /\ discarded = <<>> /\ unread = <<>> /\ overtaken = FALSE

-----------------------------------------------------------------------------
(* Manifest, identity, directories, attachments and the runtime projection, any
   of which may fail; then record_worker_run_start. *)
RunReturns(how) == kernel' = "returned" /\ outcome' = how

(* With an error side_effects goes out of scope, and what was kept in it. *)
ReturnsError(how) ==
  /\ RunReturns(how)
  /\ discarded' = deferred /\ deferred' = <<>> /\ UNCHANGED tried

PrepareRun ==
  /\ kernel = "preparing"
  /\ \/ runRow' = "IN_PROGRESS" /\ kernel' = "starting" /\ UNCHANGED outcome
     \/ RunReturns("setup") /\ UNCHANGED runRow
  /\ UNCHANGED <<childVars, pipe, lastSeq, known, silent, beatVars, requestVars, unread>>

(* The spawn and the secrets written to its stdin; each may fail and return
   through ?, the second with the process running. *)
StartWorker ==
  /\ kernel = "starting"
  /\ \/ process' = "running" /\ kernel' = "reading" /\ UNCHANGED outcome
     \/ process' = "none" /\ RunReturns("spawn")
     \/ process' = "running" /\ RunReturns("stdin")
  /\ UNCHANGED <<output, pipe, beats, sent, lastSeq, known, silent, beatVars,
                 runRow, requestVars, unread>>

(* The worker. *)
SendBeat ==
  /\ process = "running" /\ beats < MaxBeats
  /\ beats' = beats + 1
  /\ pipe' = Append(pipe, PipeLine(beats, NoRequest))
  /\ UNCHANGED <<process, output, sent, kernel, outcome, lastSeq, known, silent, beatVars,
                 runRow, requestVars, unread>>

SendRequest(r) ==
  /\ process = "running" /\ Len(sent) < MaxSent
  /\ sent' = Append(sent, r)
  /\ pipe' = Append(pipe, PipeLine(End, r))
  /\ UNCHANGED <<process, output, beats, kernel, outcome, lastSeq, known, silent, beatVars,
                 runRow, requestVars, unread>>

ExitsWith(out) ==
  /\ process = "running"
  /\ process' \in {"succeeded", "crashed"}
  /\ output' = out
  /\ UNCHANGED <<pipe, beats, sent, kernel, outcome, lastSeq, known, silent, beatVars,
                 runRow, requestVars, unread>>

-----------------------------------------------------------------------------
(* upsert_heartbeat: a beat counts if its number is greater, or if it ends the
   run. *)
MutUpserts(w) == w.seq > beat.seq
Upserts(w) == w.seq > beat.seq \/ w.seq < 0

Lands(w) ==
  /\ w \in writes
  /\ writes' = writes \ {w}
  /\ beat' = IF Upserts(w) THEN w ELSE beat
  /\ UNCHANGED <<childVars, pipe, kernel, outcome, lastSeq, known, silent, runRow, requestVars,
                 unread, overtaken>>

(* One heartbeat line.  Written unless the last write is less than a second
   ago; the first one always is. *)
ReadBeat ==
  /\ kernel = "reading" /\ pipe # <<>> /\ Head(pipe).request = NoRequest
  /\ LET n == Head(pipe).seq IN
       IF n <= lastSeq THEN UNCHANGED <<lastSeq, known, writes>>
       ELSE /\ lastSeq' = n
            /\ \/ known' = TRUE /\ writes' = writes \cup {Beat(n, "WORKING")}
               \/ known /\ UNCHANGED <<known, writes>>
  /\ pipe' = Tail(pipe)
  /\ silent' = FALSE
  /\ UNCHANGED <<childVars, kernel, outcome, beat, overtaken, runRow, requestVars, unread>>

(* The capability a request needs; a request of another kind needs none. *)
Needs(kind) ==
  CASE kind = "innovation_swo" -> {"SubmitInnovationSwo"}
    [] kind = "dispatch_swo" -> {"DispatchSwo"}
    [] kind = "queue_managed_work" -> {"QueueManagedWork"}
    [] kind = "outbox_artifact" -> {"WriteOutbox"}
    [] OTHER -> {}   \* append_pulse_journal, sairgent_proposal

(* fits: a report of at most 4096 bytes and a manager to review it; a target
   among the reports the run was started with and at most 8192 bytes; a
   payload that is not blank; a file below the artifacts directory. *)
MutAccepted(r) == Needs(r.kind) \subseteq Granted /\ r.fits /\ known
Accepted(r) == Needs(r.kind) \subseteq Granted /\ r.fits

Deferred == {"dispatch_swo", "queue_managed_work", "sairgent_proposal"}

ReadRequest ==
  /\ kernel = "reading" /\ pipe # <<>> /\ Head(pipe).request # NoRequest
  /\ LET r == Head(pipe).request IN
       /\ tried' = IF Accepted(r) /\ r.kind \notin Deferred THEN Append(tried, r) ELSE tried
       /\ deferred' = IF Accepted(r) /\ r.kind \in Deferred THEN Append(deferred, r) ELSE deferred
  /\ pipe' = Tail(pipe)
  /\ silent' = FALSE
  /\ UNCHANGED <<childVars, kernel, outcome, lastSeq, known, beatVars, runRow, discarded, unread>>

(* Nothing was read for WORKER_STALL_TIMEOUT. *)
Silence ==
  /\ kernel = "reading"
  /\ silent' = TRUE
  /\ UNCHANGED <<childVars, pipe, kernel, outcome, lastSeq, known, beatVars, runRow,
                 requestVars, unread>>

(* The beat that ends a run is sent only for a run id some beat made known. *)
EndBeat(status) ==
  /\ writes' = IF known THEN writes \cup {Beat(End, status)} ELSE writes
  /\ overtaken' = (known /\ writes # {})
  /\ UNCHANGED beat

Leaves == unread' = pipe /\ pipe' = <<>>

(* child.wait, with a failed process or an error of its own; output that says
   COMPLETED or BLOCKED counts as success all the same. *)
Succeeds == process = "succeeded" \/ (process = "crashed" /\ output \in {"COMPLETED", "BLOCKED"})
Exited == process \in {"succeeded", "crashed"}

NoticeFailure ==
  /\ kernel = "reading" /\ ~Succeeds
  /\ EndBeat("ERROR")
  /\ runRow' = "FAILED"
  /\ ReturnsError("failed")
  /\ Leaves
  /\ UNCHANGED <<childVars, lastSeq, known, silent>>

(* ... with a successful one: the rest of both pipes is drained into the
   accumulated text, and nobody looks at its lines. *)
NoticeSuccess ==
  /\ kernel = "reading" /\ Exited /\ Succeeds
  /\ EndBeat("READY")
  /\ kernel' = "parsing"
  /\ Leaves
  /\ UNCHANGED <<childVars, outcome, lastSeq, known, silent, runRow, requestVars>>

(* The stall timer. *)
Stall ==
  /\ kernel = "reading" /\ silent
  /\ process' = "killed"
  /\ EndBeat("DEAD")
  /\ runRow' = "FAILED"
  /\ ReturnsError("stalled")
  /\ Leaves
  /\ UNCHANGED <<output, beats, sent, lastSeq, known, silent>>

(* serde_json on what the worker printed, normalize_worker_output, and
   record_worker_run_finish; text that does not parse returns through ?.  Managed
   work the output itself asks for joins side_effects and is left out. *)
FinalStatus(out) == IF out \in {"FAILED", "BLOCKED"} THEN out ELSE "COMPLETED"

Parse ==
  /\ kernel = "parsing"
  /\ IF output = "garbage" THEN ReturnsError("parse") /\ UNCHANGED runRow
     ELSE RunReturns("ok") /\ runRow' = FinalStatus(output) /\ UNCHANGED requestVars
  /\ UNCHANGED <<childVars, pipe, lastSeq, known, silent, beatVars, unread>>

Output == {"COMPLETED", "BLOCKED", "FAILED", "garbage"}

KernelStep == PrepareRun \/ StartWorker \/ ReadBeat \/ ReadRequest \/ NoticeFailure \/ NoticeSuccess \/ Stall \/ Parse

WorkerNext ==
  \/ KernelStep \/ Silence \/ SendBeat
  \/ \E r \in Request : SendRequest(r)
  \/ \E out \in Output : ExitsWith(out)
  \/ \E w \in writes : Lands(w)

WorkerSpec == WorkerInit /\ [][WorkerNext]_workerVars

-----------------------------------------------------------------------------
WorkerTypeOK ==
  /\ process \in {"none", "running", "succeeded", "crashed", "killed"}
  /\ output \in Output \cup {"none"}
  /\ beats \in Nat
  /\ {sent, tried, deferred, discarded} \subseteq Seq(Request)
  /\ kernel \in {"preparing", "starting", "reading", "parsing", "returned"}
  /\ outcome \in {"none", "setup", "spawn", "stdin", "failed", "stalled", "parse", "ok"}
  /\ {lastSeq, beat.seq} \subseteq Int
  /\ {known, silent, overtaken} \subseteq BOOLEAN
  /\ runRow \in {"ABSENT", "IN_PROGRESS", "COMPLETED", "BLOCKED", "FAILED"}

(* The row of worker_runs is closed on every way out of run_worker that made it,
   except its three early returns after record_worker_run_start: the spawn, the
   secrets' pipe, the output that does not parse. *)
RunRowIsClosed ==
  kernel = "returned" =>
    /\ runRow = "ABSENT" <=> outcome = "setup"
    /\ runRow = "IN_PROGRESS" <=> outcome \in {"spawn", "stdin", "parse"}

(* The beat that ends a run stands once every write has landed, unless an
   earlier beat was still under way: the end is stored with seq -1, which any
   late beat exceeds. *)
EndBeatStands ==
  (kernel \in {"parsing", "returned"} /\ known /\ writes = {} /\ ~overtaken)
    => beat.status \in EndStatus

\* The elements of s that are in S, in their order.
Picked(s, S) ==
  LET picked[n \in 0..Len(s)] ==
        IF n = 0 THEN <<>>
        ELSE IF s[n] \in S THEN Append(picked[n - 1], s[n]) ELSE picked[n - 1]
  IN picked[Len(s)]

Requests(lines) == [n \in DOMAIN lines |-> lines[n].request]
May(r) == Needs(r.kind) \subseteq Granted /\ r.fits
OfKind(rs, later) == Picked(rs, {r \in Request : May(r) /\ (r.kind \in Deferred <=> later)})

(* Requests the agent may make are tried at once, or kept for the caller, in the
   order sent.  Two things lose one: nobody had read it when the exit was noticed,
   or it was kept and the run ended in an error. *)
LostAtTheEnd ==
  LET left == Requests(unread \o pipe) IN
  /\ OfKind(sent, FALSE) = tried \o OfKind(left, FALSE)
  /\ OfKind(sent, TRUE) = (deferred \o discarded) \o OfKind(left, TRUE)
  /\ discarded # <<>> => deferred = <<>> /\ outcome \in {"failed", "stalled", "parse"}
=============================================================================
