----------------------------- MODULE AgentProofs -----------------------------
(***************************************************************************)
(* Theorems about one run of a worker, for any requests and capabilities,  *)
(* any number of heartbeats and writes landing in any order; about the     *)
(* catalog it is given its tools from, for any tools, connectors, skills   *)
(* and bind commands side by side; and about hiring, for any calls side by *)
(* side, any cap, hiring mode and seeded chart.                            *)
(***************************************************************************)
EXTENDS WorkerRun, Catalog, OrgChart, FiniteSetTheorems, Recursion, TLAPS

Kernels == {"preparing", "starting", "reading", "parsing", "returned"}
Outcomes == {"none", "setup", "spawn", "stdin", "failed", "stalled", "parse", "ok"}
Rows == {"ABSENT", "IN_PROGRESS", "COMPLETED", "BLOCKED", "FAILED"}

KernelOK ==
  /\ kernel \in Kernels /\ outcome \in Outcomes /\ runRow \in Rows
  /\ known \in BOOLEAN /\ overtaken \in BOOLEAN
  /\ output \in Output \cup {"none"}

(* The row of worker_runs is made by the preparation and open until the end. *)
RowInv ==
  /\ kernel = "preparing" => runRow = "ABSENT"
  /\ kernel \in {"starting", "reading", "parsing"} => runRow = "IN_PROGRESS"
  /\ RunRowIsClosed

(* An end beat that had no other before it is on its way, alone, or stored. *)
OnItsWay == \E s \in EndStatus : writes = {Beat(End, s)}
BeatInv ==
  /\ kernel \in {"preparing", "starting"} => ~known
  /\ kernel \in {"parsing", "returned"} /\ known /\ ~overtaken
       => OnItsWay \/ (writes = {} /\ beat.status \in EndStatus)

RunInv == KernelOK /\ RowInv /\ BeatInv

-----------------------------------------------------------------------------
(* A run begins with nothing written. *)
LEMMA RunInitial == WorkerInit => RunInv
BY DEF WorkerInit, RunInv, KernelOK, RowInv, BeatInv, RunRowIsClosed, Kernels, Outcomes, Rows, Output

(* What the process does is no business of the rows. *)
LEMMA ChildSteps ==
  ASSUME RunInv, UNCHANGED <<kernel, outcome, runRow, known, beatVars>>, output' \in Output \cup {"none"}
  PROVE  RunInv'
BY DEF RunInv, KernelOK, RowInv, BeatInv, RunRowIsClosed, OnItsWay, beatVars

(* The preparation and the start. *)
LEMMA StartSteps == ASSUME RunInv, PrepareRun \/ StartWorker PROVE RunInv'
<1>1. /\ kernel \in {"preparing", "starting"} /\ ~known /\ UNCHANGED <<known, overtaken, output>>
  BY DEF PrepareRun, StartWorker, RunInv, BeatInv, beatVars, childVars
<1>2. KernelOK'
  BY <1>1 DEF PrepareRun, StartWorker, RunReturns, RunInv, KernelOK, Kernels, Outcomes, Rows
<1>3. RowInv'
  BY DEF PrepareRun, StartWorker, RunReturns, RunInv, RowInv, RunRowIsClosed
<1> QED BY <1>1, <1>2, <1>3 DEF RunInv, BeatInv

(* The loop that reads. *)
LEMMA ReadSteps == ASSUME RunInv, ReadBeat \/ ReadRequest \/ Silence PROVE RunInv'
<1>1. kernel = "reading" /\ UNCHANGED <<kernel, outcome, runRow, overtaken, output>>
  BY DEF ReadBeat, ReadRequest, Silence, beatVars, childVars
<1>2. known' \in BOOLEAN
  BY DEF ReadBeat, ReadRequest, Silence, RunInv, KernelOK
<1> QED BY <1>1, <1>2 DEF RunInv, KernelOK, RowInv, RunRowIsClosed, BeatInv

(* The beat that ends a run is alone unless another was under way. *)
LEMMA EndBeatIsSent ==
  ASSUME NEW s \in EndStatus, EndBeat(s), known' = known, known \in BOOLEAN
  PROVE  /\ known' /\ ~overtaken' => OnItsWay'
         /\ overtaken' \in BOOLEAN
BY DEF EndBeat, OnItsWay

(* The ways out of the loop. *)
LEMMA EndSteps == ASSUME RunInv, NoticeFailure \/ NoticeSuccess \/ Stall PROVE RunInv'
<1>1. /\ kernel = "reading" /\ UNCHANGED <<known, output>> /\ known \in BOOLEAN
  BY DEF NoticeFailure, NoticeSuccess, Stall, RunInv, KernelOK, childVars
<1>2. PICK s \in EndStatus : EndBeat(s)
  BY DEF NoticeFailure, NoticeSuccess, Stall, EndStatus
<1>3. (known' /\ ~overtaken' => OnItsWay') /\ overtaken' \in BOOLEAN
  BY <1>1, <1>2, EndBeatIsSent
<1>4. KernelOK'
  BY <1>1, <1>3 DEF NoticeFailure, NoticeSuccess, Stall, ReturnsError, RunReturns, RunInv, KernelOK, Kernels, Outcomes, Rows
<1>5. RowInv'
  BY DEF NoticeFailure, NoticeSuccess, Stall, ReturnsError, RunReturns, RunInv, RowInv, RunRowIsClosed
<1>6. kernel' \in {"parsing", "returned"}
  BY DEF NoticeFailure, NoticeSuccess, Stall, ReturnsError, RunReturns
<1> QED BY <1>3, <1>4, <1>5, <1>6 DEF RunInv, BeatInv

(* The output is parsed, or is not. *)
LEMMA ParseStep == ASSUME RunInv, Parse PROVE RunInv'
<1>1. /\ kernel = "parsing" /\ kernel' = "returned"
      /\ \/ outcome' = "parse" /\ runRow' = runRow
         \/ outcome' = "ok" /\ runRow' = FinalStatus(output)
      /\ UNCHANGED <<known, writes, beat, overtaken, output>>
  BY DEF Parse, ReturnsError, RunReturns, beatVars, childVars
<1>2. FinalStatus(output) \in {"COMPLETED", "BLOCKED", "FAILED"}
  BY DEF FinalStatus
<1>3. KernelOK'
  BY <1>1, <1>2 DEF RunInv, KernelOK, Kernels, Outcomes, Rows
<1>4. RowInv'
  BY <1>1, <1>2 DEF RunInv, RowInv, RunRowIsClosed
<1>5. BeatInv'
  BY <1>1 DEF RunInv, BeatInv, OnItsWay
<1> QED BY <1>3, <1>4, <1>5 DEF RunInv

(* A write lands; an end beat always counts. *)
LEMMA LandStep == ASSUME RunInv, NEW w \in writes, Lands(w) PROVE RunInv'
<1>1. /\ writes' = writes \ {w} /\ beat' = IF Upserts(w) THEN w ELSE beat
      /\ UNCHANGED <<kernel, outcome, known, overtaken, runRow, output>>
  BY DEF Lands, childVars
<1>2. ASSUME kernel \in {"parsing", "returned"}, known, ~overtaken
      PROVE  writes' = {} /\ beat'.status \in EndStatus
  <2>1. PICK s \in EndStatus : writes = {Beat(End, s)}
    BY <1>2 DEF RunInv, BeatInv, OnItsWay
  <2>2. w = Beat(End, s)
    BY <2>1
  <2>3. w.seq < 0 /\ w.status = s
    BY <2>2 DEF Beat, End
  <2>4. Upserts(w)
    BY <2>3 DEF Upserts
  <2> QED BY <1>1, <2>1, <2>2, <2>3, <2>4
<1> QED BY <1>1, <1>2 DEF RunInv, KernelOK, RowInv, RunRowIsClosed, BeatInv

-----------------------------------------------------------------------------
(* The invariant of a run. *)
THEOREM RunInductive == WorkerSpec => []RunInv
<1>1. WorkerInit => RunInv
  BY RunInitial
<1>2. RunInv /\ [WorkerNext]_workerVars => RunInv'
  <2> SUFFICES ASSUME RunInv, [WorkerNext]_workerVars PROVE RunInv'
    OBVIOUS
  <2>1. CASE PrepareRun \/ StartWorker
    BY <2>1, StartSteps
  <2>2. CASE ReadBeat \/ ReadRequest \/ Silence
    BY <2>2, ReadSteps
  <2>3. CASE NoticeFailure \/ NoticeSuccess \/ Stall
    BY <2>3, EndSteps
  <2>4. CASE Parse
    BY <2>4, ParseStep
  <2>5. CASE SendBeat \/ \E r \in Request : SendRequest(r)
    BY <2>5, ChildSteps DEF SendBeat, SendRequest, RunInv, KernelOK
  <2>6. CASE \E out \in Output : ExitsWith(out)
    BY <2>6, ChildSteps DEF ExitsWith
  <2>7. CASE \E w \in writes : Lands(w)
    BY <2>7, LandStep
  <2>8. CASE UNCHANGED workerVars
    BY <2>8, ChildSteps DEF workerVars, beatVars, RunInv, KernelOK
  <2> QED BY <2>1, <2>2, <2>3, <2>4, <2>5, <2>6, <2>7, <2>8 DEF WorkerNext, KernelStep
<1> QED BY <1>1, <1>2, PTL DEF WorkerSpec

(* Once all writes have landed, the beat that ends the run is the one stored
   (upsert_heartbeat), unless an earlier one was under way when it was sent. *)
THEOREM EndIsStored == WorkerSpec => []EndBeatStands
<1>1. RunInv => EndBeatStands
  BY DEF RunInv, BeatInv, OnItsWay, EndBeatStands
<1> QED BY <1>1, RunInductive, PTL

(* run_worker closes the row it made on every way out but its three early
   returns: the spawn, the pipe of the secrets, the output that does not parse. *)
THEOREM RowsAreClosed == WorkerSpec => []RunRowIsClosed
<1>1. RunInv => RunRowIsClosed
  BY DEF RunInv, RowInv
<1> QED BY <1>1, RunInductive, PTL

-----------------------------------------------------------------------------
(* What is picked from a sequence, element by element. *)
PickedBy(p, s, T, S) ==
  /\ p \in [0..Len(s) -> Seq(T)]
  /\ Picked(s, S) = p[Len(s)] /\ p[0] = <<>>
  /\ \A n \in 1..Len(s) : p[n] = IF s[n] \in S THEN Append(p[n - 1], s[n]) ELSE p[n - 1]

(* There are such elements. *)
LEMMA PickedStepwise ==
  ASSUME NEW T, NEW s \in Seq(T), NEW S
  PROVE  \E p : PickedBy(p, s, T, S)
<1> DEFINE N == Len(s)
           X == Seq(T)
           Next(r, n) == IF s[n] \in S THEN Append(r, s[n]) ELSE r
           F == [n \in 1..N |-> [r \in X |-> Next(r, n)]]
           Body(g) == [n \in 0..N |-> IF n = 0 THEN <<>> ELSE Next(g[n - 1], n)]
           p == CHOOSE g : g = Body(g)
<1>1. N \in Nat /\ <<>> \in X
  OBVIOUS
<1>2. \A n \in 1..N : \A r \in X : Next(r, n) \in X
  <2>1. \A n \in 1..N : s[n] \in T
    OBVIOUS
  <2> QED BY <2>1
<1>3. Picked(s, S) = p[N]
  BY DEF Picked
<1> HIDE DEF N, X, Next
<1>4. F \in [1..N -> [X -> X]]
  BY <1>2
<1>5. PICK g : Iterated(g, N, X, <<>>, F)
  <2> HIDE DEF F
  <2> QED BY <1>1, <1>4, Iterates
<1>6. /\ g \in [0..N -> X] /\ g[0] = <<>>
      /\ \A n \in 1..N : g[n] = Next(g[n - 1], n)
  <2>1. g \in [0..N -> X] /\ g[0] = <<>> /\ \A n \in 1..N : g[n] = F[n][g[n - 1]]
    BY <1>5 DEF Iterated
  <2>2. \A n \in 1..N : n - 1 \in 0..N
    BY <1>1
  <2>3. \A n \in 1..N : g[n - 1] \in X
    BY <2>1, <2>2
  <2>4. \A n \in 1..N : \A r \in X : F[n][r] = Next(r, n)
    OBVIOUS
  <2> HIDE DEF F
  <2> QED BY <2>1, <2>3, <2>4
<1>7. g = Body(g)
  <2>1. \A n \in 0..N : g[n] = IF n = 0 THEN <<>> ELSE Next(g[n - 1], n)
    BY <1>1, <1>6
  <2> QED BY <1>6, <2>1
<1>8. p = Body(p)
  <2> HIDE DEF Body
  <2> QED BY <1>7
<1> HIDE DEF p
<1>9. DOMAIN p = 0..N /\ p = [n \in 0..N |-> p[n]] /\ p[0] = <<>> /\ \A n \in 1..N : p[n] = Next(p[n - 1], n)
  <2>1. p = [n \in 0..N |-> IF n = 0 THEN <<>> ELSE Next(p[n - 1], n)]
    BY <1>8
  <2>2. 0 \in 0..N /\ \A n \in 1..N : n \in 0..N /\ n # 0
    BY <1>1
  <2>3. \A n \in 0..N : p[n] = IF n = 0 THEN <<>> ELSE Next(p[n - 1], n)
    BY <2>1
  <2>4. p = [n \in 0..N |-> p[n]] /\ DOMAIN p = 0..N
    BY <2>1
  <2> QED BY <2>2, <2>3, <2>4
<1> DEFINE Bad == {n \in 0..N : p[n] \notin X}
<1>10. Bad = {}
  <2> SUFFICES ASSUME Bad # {} PROVE FALSE
    OBVIOUS
  <2>1. Bad \in SUBSET Nat
    BY <1>1
  <2>2. PICK k \in Bad : \A m \in Bad : k <= m
    <3> HIDE DEF Bad
    <3> QED BY <2>1, LeastNumber
  <2>3. k \in 0..N /\ p[k] \notin X /\ k # 0
    BY <2>2, <1>1, <1>9
  <2>4. k \in 1..N /\ k - 1 \in 0..N /\ ~ (k <= k - 1)
    BY <2>3, <1>1
  <2>5. p[k - 1] \in X
    BY <2>2, <2>4
  <2> QED BY <2>3, <2>4, <2>5, <1>2, <1>9
<1>11. p \in [0..N -> X]
  BY <1>9, <1>10
<1> QED BY <1>3, <1>9, <1>11 DEF PickedBy, N, X, Next

(* Nothing is picked from nothing, and what is picked is a sequence. *)
LEMMA PickedTypes ==
  ASSUME NEW T, NEW S
  PROVE  Picked(<<>>, S) = <<>> /\ \A s \in Seq(T) : Picked(s, S) \in Seq(T)
<1>1. Picked(<<>>, S) = <<>>
  <2>1. <<>> \in Seq(T) /\ Len(<<>>) = 0
    OBVIOUS
  <2>2. PICK p : PickedBy(p, <<>>, T, S)
    BY <2>1, PickedStepwise
  <2> QED BY <2>1, <2>2 DEF PickedBy
<1>2. ASSUME NEW s \in Seq(T) PROVE Picked(s, S) \in Seq(T)
  <2>0. PICK q : PickedBy(q, s, T, S)
    BY PickedStepwise
  <2>1. PICK p \in [0..Len(s) -> Seq(T)] : Picked(s, S) = p[Len(s)]
    BY <2>0 DEF PickedBy
  <2>2. Len(s) \in 0..Len(s)
    OBVIOUS
  <2> QED BY <2>1, <2>2
<1> QED BY <1>1, <1>2

(* An element that is appended is picked last, if it is. *)
LEMMA PickedAppended ==
  ASSUME NEW T, NEW s \in Seq(T), NEW x \in T, NEW S
  PROVE  Picked(Append(s, x), S) = IF x \in S THEN Append(Picked(s, S), x) ELSE Picked(s, S)
<1>p. PICK p : PickedBy(p, s, T, S)
  BY PickedStepwise
<1>1. /\ p \in [0..Len(s) -> Seq(T)] /\ Picked(s, S) = p[Len(s)] /\ p[0] = <<>>
      /\ \A n \in 1..Len(s) : p[n] = IF s[n] \in S THEN Append(p[n - 1], s[n]) ELSE p[n - 1]
  BY <1>p DEF PickedBy
<1> DEFINE t == Append(s, x)
<1>2. /\ t \in Seq(T) /\ Len(t) = Len(s) + 1 /\ Len(s) \in Nat
      /\ t[Len(s) + 1] = x /\ \A n \in 1..Len(s) : t[n] = s[n]
  OBVIOUS
<1> HIDE DEF t
<1>q. PICK q : PickedBy(q, t, T, S)
  BY <1>2, PickedStepwise
<1>3. /\ q \in [0..Len(t) -> Seq(T)] /\ Picked(t, S) = q[Len(t)] /\ q[0] = <<>>
      /\ \A n \in 1..Len(t) : q[n] = IF t[n] \in S THEN Append(q[n - 1], t[n]) ELSE q[n - 1]
  BY <1>q DEF PickedBy
<1> DEFINE Bad == {n \in 0..Len(s) : p[n] # q[n]}
<1>4. Bad = {}
  <2> SUFFICES ASSUME Bad # {} PROVE FALSE
    OBVIOUS
  <2>1. Bad \in SUBSET Nat
    BY <1>2
  <2>2. PICK k \in Bad : \A m \in Bad : k <= m
    <3> HIDE DEF Bad
    <3> QED BY <2>1, LeastNumber
  <2>3. k \in 0..Len(s) /\ p[k] # q[k] /\ k # 0
    BY <2>2, <1>1, <1>2, <1>3
  <2>4. k \in 1..Len(s) /\ k \in 1..Len(t) /\ k - 1 \in 0..Len(s) /\ ~ (k <= k - 1)
    BY <2>3, <1>2
  <2>5. p[k - 1] = q[k - 1] /\ t[k] = s[k]
    BY <2>2, <2>4, <1>2
  <2>6. p[k] = q[k]
    BY <2>4, <2>5, <1>1, <1>3
  <2> QED BY <2>3, <2>6
<1>5. Len(s) \in 0..Len(s) /\ Len(t) \in 1..Len(t) /\ Len(t) - 1 = Len(s)
  BY <1>2
<1>6. q[Len(s)] = Picked(s, S)
  BY <1>1, <1>4, <1>5
<1>7. Picked(t, S) = IF x \in S THEN Append(q[Len(s)], x) ELSE q[Len(s)]
  BY <1>2, <1>3, <1>5
<1> QED BY <1>6, <1>7 DEF t

(* What is picked from two sequences on end. *)
LEMMA PickedConcat ==
  ASSUME NEW T, NEW s \in Seq(T), NEW S
  PROVE  \A t \in Seq(T) : Picked(s \o t, S) = Picked(s, S) \o Picked(t, S)
<1> DEFINE Bad == {n \in Nat : \E t \in Seq(T) : Len(t) = n /\ Picked(s \o t, S) # Picked(s, S) \o Picked(t, S)}
<1>1. Bad = {}
  <2> SUFFICES ASSUME Bad # {} PROVE FALSE
    OBVIOUS
  <2>1. Bad \in SUBSET Nat
    OBVIOUS
  <2>2. PICK k \in Bad : \A m \in Bad : k <= m
    <3> HIDE DEF Bad
    <3> QED BY <2>1, LeastNumber
  <2>3. PICK t \in Seq(T) : Len(t) = k /\ Picked(s \o t, S) # Picked(s, S) \o Picked(t, S)
    BY <2>2
  <2>4. k # 0
    <3> SUFFICES ASSUME k = 0 PROVE FALSE
      OBVIOUS
    <3>1. t = <<>>
      BY <2>3
    <3>2. Picked(t, S) = <<>> /\ Picked(s, S) \in Seq(T)
      BY <3>1, PickedTypes
    <3>3. s \o <<>> = s /\ \A r \in Seq(T) : r \o <<>> = r
      OBVIOUS
    <3> QED BY <2>3, <3>1, <3>2, <3>3
  <2>5. PICK u \in Seq(T), x \in T : t = Append(u, x) /\ Len(u) = k - 1
    <3> DEFINE u == [i \in 1..(k - 1) |-> t[i]]
    <3>1. k \in Nat /\ k - 1 \in Nat /\ t[k] \in T
      BY <2>3, <2>4
    <3>2. u \in Seq(T) /\ Len(u) = k - 1
      BY <2>3, <3>1
    <3>3. t = Append(u, t[k])
      BY <2>3, <3>1, <3>2
    <3> HIDE DEF u
    <3> QED BY <3>1, <3>2, <3>3
  <2>6. k - 1 \in Nat /\ ~ (k <= k - 1)
    BY <2>4
  <2>7. Picked(s \o u, S) = Picked(s, S) \o Picked(u, S)
    BY <2>2, <2>5, <2>6
  <2>8. s \o t = Append(s \o u, x) /\ s \o u \in Seq(T)
    BY <2>5
  <2>9. Picked(s \o t, S) = IF x \in S THEN Append(Picked(s \o u, S), x) ELSE Picked(s \o u, S)
    <3> DEFINE w == s \o u
    <3>1. w \in Seq(T) /\ s \o t = Append(w, x)
      BY <2>8
    <3> HIDE DEF w
    <3>2. Picked(Append(w, x), S) = IF x \in S THEN Append(Picked(w, S), x) ELSE Picked(w, S)
      BY <3>1, PickedAppended
    <3> QED BY <3>1, <3>2 DEF w
  <2>12. Picked(t, S) = IF x \in S THEN Append(Picked(u, S), x) ELSE Picked(u, S)
    BY <2>5, PickedAppended
  <2>10. Picked(s, S) \in Seq(T) /\ Picked(u, S) \in Seq(T)
    BY PickedTypes
  <2>11. Picked(s, S) \o Append(Picked(u, S), x) = Append(Picked(s, S) \o Picked(u, S), x)
    BY <2>10
  <2> QED BY <2>3, <2>7, <2>9, <2>11, <2>12
<1>2. ASSUME NEW t \in Seq(T) PROVE Len(t) \in Nat /\ Len(t) \notin Bad
  BY <1>1
<1> QED BY <1>2

-----------------------------------------------------------------------------
(* Requests of a run. *)
MaybeRequest == Request \cup {NoRequest}
Line == [seq : Int, request : MaybeRequest]
BeatStatus == {"NONE", "WORKING", "READY", "ERROR", "DEAD"}
LinesOK ==
  /\ pipe \in Seq(Line) /\ unread \in Seq(Line)
  /\ sent \in Seq(Request) /\ tried \in Seq(Request)
  /\ deferred \in Seq(Request) /\ discarded \in Seq(Request)
  /\ beats \in Nat /\ lastSeq \in Int /\ silent \in BOOLEAN
  /\ process \in {"none", "running", "succeeded", "crashed", "killed"}
  /\ writes \subseteq [seq : Int, status : BeatStatus] /\ beat \in [seq : Int, status : BeatStatus]

\* Lines are given up, and kept requests dropped, on the way out of the loop.
UnreadInv ==
  /\ kernel \in {"preparing", "starting", "reading"} => unread = <<>>
  /\ discarded # <<>> => /\ kernel = "returned" /\ deferred = <<>>
                         /\ outcome \in {"failed", "stalled", "parse"}

\* Requests to be carried out at once, and those to be kept.
Wanted(later) == {r \in Request : May(r) /\ (r.kind \in Deferred <=> later)}
Left == Requests(unread \o pipe)
LostInv(later, kept) == Picked(sent, Wanted(later)) = kept \o Picked(Left, Wanted(later))

NotTried == deferred \o discarded

RequestInv == LinesOK /\ UnreadInv /\ LostInv(FALSE, tried) /\ LostInv(TRUE, NotTried)

(* A sequence with one more element in front. *)
LEMMA InFront ==
  ASSUME NEW T, NEW x \in T, NEW q \in Seq(T)
  PROVE  /\ <<x>> \o q \in Seq(T) /\ Len(<<x>> \o q) = Len(q) + 1
         /\ (<<x>> \o q)[1] = x
         /\ \A n \in 1..Len(q) : (<<x>> \o q)[n + 1] = q[n]
<1>1. <<x>> \in Seq(T) /\ Len(<<x>>) = 1 /\ <<x>>[1] = x
  OBVIOUS
<1>2. PICK one \in Seq(T) : one = <<x>> /\ Len(one) = 1 /\ one[1] = x
  BY <1>1
<1>3. one \o q \in Seq(T) /\ Len(one \o q) = Len(one) + Len(q)
  OBVIOUS
<1>4. \A n \in 1..(Len(one) + Len(q)) :
        (one \o q)[n] = IF n <= Len(one) THEN one[n] ELSE q[n - Len(one)]
  OBVIOUS
<1>5. Len(q) \in Nat
  OBVIOUS
<1>6. (one \o q)[1] = x
  BY <1>2, <1>4, <1>5
<1>7. ASSUME NEW n \in 1..Len(q) PROVE (one \o q)[n + 1] = q[n]
  <2>1. n + 1 \in 1..(Len(one) + Len(q)) /\ ~ (n + 1 <= Len(one)) /\ (n + 1) - Len(one) = n
    BY <1>2, <1>5
  <2> QED BY <1>4, <2>1
<1> QED BY <1>2, <1>3, <1>5, <1>6, <1>7

(* The requests of lines, as lines are added, taken and given up. *)
LEMMA RequestsOfLines ==
  ASSUME NEW ls \in Seq(Line)
  PROVE  /\ Requests(ls) \in Seq(MaybeRequest)
         /\ \A l \in Line : Requests(Append(ls, l)) = Append(Requests(ls), l.request)
         /\ ls # <<>> => /\ Head(ls) \in Line /\ Tail(ls) \in Seq(Line)
                         /\ Requests(ls) = <<Head(ls).request>> \o Requests(Tail(ls))
<1>1. /\ Len(ls) \in Nat /\ DOMAIN ls = 1..Len(ls)
      /\ \A n \in 1..Len(ls) : ls[n] \in Line /\ ls[n].request \in MaybeRequest
  <2>1. \A l \in Line : l.request \in MaybeRequest
    BY DEF Line
  <2> QED BY <2>1
<1>2. Requests(ls) \in Seq(MaybeRequest) /\ Len(Requests(ls)) = Len(ls)
      /\ \A n \in 1..Len(ls) : Requests(ls)[n] = ls[n].request
  BY <1>1 DEF Requests
<1>3. ASSUME NEW l \in Line PROVE Requests(Append(ls, l)) = Append(Requests(ls), l.request)
  <2> DEFINE t == Append(ls, l)
  <2>1. DOMAIN t = 1..(Len(ls) + 1) /\ t[Len(ls) + 1] = l /\ \A n \in 1..Len(ls) : t[n] = ls[n]
    BY <1>1
  <2> HIDE DEF t
  <2>2. Requests(t) = [n \in 1..(Len(ls) + 1) |-> IF n = Len(ls) + 1 THEN l.request ELSE ls[n].request]
    BY <1>1, <2>1 DEF Requests
  <2>3. Append(Requests(ls), l.request)
          = [n \in 1..(Len(ls) + 1) |-> IF n = Len(ls) + 1 THEN l.request ELSE ls[n].request]
    BY <1>1, <1>2
  <2> QED BY <2>2, <2>3 DEF t
<1>4. ASSUME ls # <<>>
      PROVE  /\ Head(ls) \in Line /\ Tail(ls) \in Seq(Line)
             /\ Requests(ls) = <<Head(ls).request>> \o Requests(Tail(ls))
  <2> DEFINE t == Tail(ls)
  <2>1. /\ Head(ls) = ls[1] /\ 1 \in 1..Len(ls) /\ t \in Seq(Line) /\ Len(t) = Len(ls) - 1
        /\ \A n \in 1..(Len(ls) - 1) : t[n] = ls[n + 1]
    BY <1>1, <1>4
  <2>2. DOMAIN t = 1..Len(t) /\ Len(t) \in Nat
    BY <1>1, <2>1
  <2> HIDE DEF t
  <2>3. Requests(t) = [n \in 1..(Len(ls) - 1) |-> ls[n + 1].request]
    BY <2>1, <2>2 DEF Requests
  <2>4. Requests(t) \in Seq(MaybeRequest) /\ Len(Requests(t)) = Len(ls) - 1
    BY <1>1, <2>1, <2>2, <2>3
  <2>5. <<ls[1].request>> \o Requests(t) = [n \in 1..Len(ls) |-> ls[n].request]
    <3> DEFINE q == Requests(t)
    <3>1. \A n \in 1..(Len(ls) - 1) : q[n] = ls[n + 1].request
      BY <2>3
    <3>2. q \in Seq(MaybeRequest) /\ Len(q) = Len(ls) - 1
      BY <2>4
    <3>3. PICK x \in MaybeRequest : x = ls[1].request
      BY <1>1, <2>1
    <3> HIDE DEF q
    <3> DEFINE c == <<x>> \o q
    <3>4. c \in Seq(MaybeRequest) /\ Len(c) = Len(q) + 1 /\ c[1] = x /\ \A n \in 1..Len(q) : c[n + 1] = q[n]
      BY <3>2, InFront
    <3> HIDE DEF c
    <3>5. Len(c) = Len(ls) /\ DOMAIN c = 1..Len(ls) /\ c = [n \in DOMAIN c |-> c[n]]
      BY <1>1, <3>2, <3>4
    <3>6. ASSUME NEW n \in 1..Len(ls) PROVE c[n] = ls[n].request
      <4>1. CASE n = 1
        BY <3>3, <3>4, <4>1
      <4>2. CASE n # 1
        <5>1. n - 1 \in 1..(Len(ls) - 1) /\ (n - 1) + 1 = n
          BY <1>1, <4>2
        <5>2. c[(n - 1) + 1] = q[n - 1] /\ q[n - 1] = ls[(n - 1) + 1].request
          BY <3>1, <3>2, <3>4, <5>1
        <5> QED BY <5>1, <5>2
      <4> QED BY <4>1, <4>2
    <3> QED BY <3>3, <3>5, <3>6 DEF q, c
  <2> QED BY <1>1, <2>1, <2>5 DEF t, Requests
<1> QED BY <1>2, <1>3, <1>4

(* No request is not one that is wanted. *)
LEMMA NoRequestIsUnwanted == \A later : NoRequest \notin Wanted(later)
BY DEF NoRequest, Wanted, May

(* Nothing is lost while nobody writes or reads. *)
LEMMA QuietSteps ==
  ASSUME RequestInv, UNCHANGED <<sent, pipe, unread, tried, NotTried>>
  PROVE  LostInv(FALSE, tried)' /\ LostInv(TRUE, NotTried)'
BY DEF RequestInv, LostInv, Left, Requests

(* Dropping side_effects moves what was kept to what was discarded. *)
LEMMA DropsAreKnown ==
  ASSUME RequestInv, kernel # "returned", NEW how, ReturnsError(how)
  PROVE  /\ UNCHANGED <<tried, NotTried>> /\ deferred' = <<>> /\ discarded' \in Seq(Request)
<1>1. discarded = <<>> /\ deferred \in Seq(Request)
  BY DEF RequestInv, UnreadInv, LinesOK
<1>2. discarded' = deferred /\ deferred' = <<>> /\ tried' = tried
  BY DEF ReturnsError
<1>3. deferred \o <<>> = deferred /\ <<>> \o deferred = deferred
  BY <1>1
<1> QED BY <1>1, <1>2, <1>3 DEF NotTried

(* The worker writes a line. *)
LEMMA WrittenLine ==
  ASSUME RequestInv, NEW l \in Line, pipe' = Append(pipe, l), unread' = unread,
         NEW later \in BOOLEAN, NEW kept \in Seq(Request), LostInv(later, kept),
         \/ sent' = sent /\ l.request = NoRequest
         \/ sent' = Append(sent, l.request) /\ l.request \in Request
  PROVE  Picked(sent', Wanted(later)) = kept \o Picked(Requests(unread' \o pipe'), Wanted(later))
<1> DEFINE S == Wanted(later)
           lines == unread \o pipe
           rs == Requests(lines)
<1>1. pipe \in Seq(Line) /\ unread \in Seq(Line) /\ sent \in Seq(MaybeRequest) /\ kept \in Seq(MaybeRequest)
  BY DEF RequestInv, LinesOK, MaybeRequest
<1>2. lines \in Seq(Line) /\ unread' \o pipe' = Append(lines, l)
  BY <1>1
<1>3. Picked(sent, S) = kept \o Picked(rs, S)
  BY DEF LostInv, Left
<1> HIDE DEF lines
<1>4. rs \in Seq(MaybeRequest) /\ Requests(unread' \o pipe') = Append(rs, l.request)
  BY <1>2, RequestsOfLines
<1>5. l.request \in MaybeRequest
  BY DEF Line
<1>6. Picked(rs, S) \in Seq(MaybeRequest)
  BY <1>4, PickedTypes
<1> HIDE DEF S, rs
<1>a. \A q \in Seq(MaybeRequest) : \A x \in MaybeRequest :
        Picked(Append(q, x), S) = IF x \in S THEN Append(Picked(q, S), x) ELSE Picked(q, S)
  BY PickedAppended
<1>7. Picked(Append(rs, l.request), S) = IF l.request \in S THEN Append(Picked(rs, S), l.request) ELSE Picked(rs, S)
  BY <1>4, <1>5, <1>a
<1>8. Picked(Append(sent, l.request), S) = IF l.request \in S THEN Append(Picked(sent, S), l.request) ELSE Picked(sent, S)
  BY <1>1, <1>5, <1>a
<1>9. kept \o Append(Picked(rs, S), l.request) = Append(kept \o Picked(rs, S), l.request)
  BY <1>1, <1>5, <1>6
<1>10. NoRequest \notin S
  BY NoRequestIsUnwanted DEF S
<1>11. Picked(sent', S) = kept \o Picked(Append(rs, l.request), S)
  <2>1. CASE sent' = sent /\ l.request = NoRequest
    BY <2>1, <1>3, <1>7, <1>10
  <2>2. CASE sent' = Append(sent, l.request)
    BY <2>2, <1>3, <1>7, <1>8, <1>9
  <2> QED BY <2>1, <2>2
<1> QED BY <1>4, <1>11 DEF S

(* run_worker reads a line: its request is kept if it is wanted. *)
LEMMA ReadLine ==
  ASSUME RequestInv, kernel = "reading", pipe # <<>>, pipe' = Tail(pipe),
         UNCHANGED <<sent, unread>>,
         NEW later \in BOOLEAN, NEW kept \in Seq(Request), NEW more, LostInv(later, kept),
         more = IF Head(pipe).request \in Wanted(later) THEN Append(kept, Head(pipe).request) ELSE kept
  PROVE  Picked(sent', Wanted(later)) = more \o Picked(Requests(unread' \o pipe'), Wanted(later))
<1> DEFINE S == Wanted(later)
           r == Head(pipe).request
           rest == Requests(Tail(pipe))
<1>1. pipe \in Seq(Line) /\ kept \in Seq(MaybeRequest)
  BY DEF RequestInv, LinesOK, MaybeRequest
<1>2. Head(pipe) \in Line /\ Tail(pipe) \in Seq(Line) /\ Requests(pipe) = <<r>> \o rest
  BY <1>1, RequestsOfLines
<1>3. unread \o pipe = pipe /\ unread' \o pipe' = Tail(pipe)
  <2>1. unread = <<>>
    BY DEF RequestInv, UnreadInv
  <2> QED BY <1>1, <1>2, <2>1
<1>4. r \in MaybeRequest
  BY <1>2 DEF Line
<1>5. rest \in Seq(MaybeRequest)
  BY <1>2, RequestsOfLines
<1> HIDE DEF r, rest, S
<1>6. Picked(sent, S) = kept \o Picked(<<r>> \o rest, S)
  BY <1>2, <1>3 DEF LostInv, Left, S
<1>7. <<r>> \in Seq(MaybeRequest)
  BY <1>4
<1>8. Picked(<<r>> \o rest, S) = Picked(<<r>>, S) \o Picked(rest, S)
  <2>1. \A q \in Seq(MaybeRequest) : \A t \in Seq(MaybeRequest) :
          Picked(q \o t, S) = Picked(q, S) \o Picked(t, S)
    BY PickedConcat
  <2> QED BY <1>5, <1>7, <2>1
<1>9. Picked(<<r>>, S) = IF r \in S THEN <<r>> ELSE <<>>
  <2>1. <<>> \in Seq(MaybeRequest) /\ Append(<<>>, r) = <<r>>
    OBVIOUS
  <2>2. Picked(<<>>, S) = <<>>
    BY PickedTypes
  <2>3. Picked(Append(<<>>, r), S) = IF r \in S THEN Append(Picked(<<>>, S), r) ELSE Picked(<<>>, S)
    BY <1>4, <2>1, PickedAppended
  <2> QED BY <2>1, <2>2, <2>3
<1>10. PICK p \in Seq(MaybeRequest) : p = Picked(rest, S)
  BY <1>5, PickedTypes
<1>11. more = IF r \in S THEN Append(kept, r) ELSE kept
  BY DEF r, S
<1>12. <<>> \o p = p /\ kept \o (<<r>> \o p) = Append(kept, r) \o p
  BY <1>1, <1>4, <1>10
<1>13. Picked(sent, S) = more \o Picked(rest, S)
  BY <1>6, <1>8, <1>9, <1>10, <1>11, <1>12
<1> QED BY <1>3, <1>13 DEF S, rest

(* Types. *)
LEMMA LineTypes ==
  ASSUME LinesOK, [WorkerNext]_workerVars
  PROVE  LinesOK'
<1> USE DEF LinesOK
<1>1. CASE PrepareRun \/ StartWorker \/ Silence \/ Parse \/ (\E out \in Output : ExitsWith(out)) \/ UNCHANGED workerVars
  <2>1. <<>> \in Seq(Request)
    OBVIOUS
  <2> QED BY <1>1, <2>1 DEF PrepareRun, StartWorker, Silence, Parse, ReturnsError, ExitsWith,
                            workerVars, childVars, beatVars, requestVars
<1>2. ASSUME SendBeat PROVE LinesOK'
  <2>1. PipeLine(beats, NoRequest) \in Line
    BY DEF PipeLine, Line, MaybeRequest
  <2> QED BY <1>2, <2>1 DEF SendBeat, beatVars, requestVars
<1>3. ASSUME NEW r \in Request, SendRequest(r) PROVE LinesOK'
  <2>1. PipeLine(End, r) \in Line
    BY DEF PipeLine, Line, MaybeRequest, End
  <2> QED BY <1>3, <2>1 DEF SendRequest, beatVars, requestVars
<1>4. ASSUME pipe # <<>>
      PROVE  Tail(pipe) \in Seq(Line) /\ Head(pipe).seq \in Int /\ Head(pipe).request \in MaybeRequest
  BY <1>4, RequestsOfLines DEF Line
<1>5. ASSUME NEW w \in writes, Lands(w) PROVE LinesOK'
  BY <1>5 DEF Lands, childVars, requestVars
<1>6. CASE ReadBeat
  <2>1. Beat(Head(pipe).seq, "WORKING") \in [seq : Int, status : BeatStatus]
    BY <1>4, <1>6 DEF ReadBeat, Beat, BeatStatus
  <2> QED BY <1>4, <1>6, <2>1 DEF ReadBeat, childVars, requestVars
<1>7. CASE ReadRequest
  <2>1. Head(pipe).request \in Request /\ Tail(pipe) \in Seq(Line)
    BY <1>4, <1>7 DEF ReadRequest, MaybeRequest
  <2>2. Append(tried, Head(pipe).request) \in Seq(Request) /\ Append(deferred, Head(pipe).request) \in Seq(Request)
    BY <2>1
  <2> QED BY <1>7, <2>1, <2>2 DEF ReadRequest, childVars, beatVars
<1>8. CASE NoticeFailure \/ NoticeSuccess \/ Stall
  <2>1. \A s \in EndStatus : Beat(End, s) \in [seq : Int, status : BeatStatus]
    BY DEF Beat, End, EndStatus, BeatStatus
  <2>2. PICK s \in EndStatus : EndBeat(s)
    BY <1>8 DEF NoticeFailure, NoticeSuccess, Stall, EndStatus
  <2>3. writes' \subseteq [seq : Int, status : BeatStatus] /\ beat' = beat
    BY <2>1, <2>2 DEF EndBeat
  <2>4. pipe' \in Seq(Line) /\ unread' \in Seq(Line)
    <3>1. pipe' = <<>> /\ unread' = pipe
      BY <1>8 DEF NoticeFailure, NoticeSuccess, Stall, Leaves
    <3> QED BY <3>1
  <2>5. <<>> \in Seq(Request)
    OBVIOUS
  <2>6. tried' \in Seq(Request) /\ deferred' \in Seq(Request) /\ discarded' \in Seq(Request)
    BY <1>8, <2>5 DEF NoticeFailure, NoticeSuccess, Stall, ReturnsError, requestVars
  <2> QED BY <1>8, <2>3, <2>4, <2>6 DEF NoticeFailure, NoticeSuccess, Stall, childVars
<1> QED BY <1>1, <1>2, <1>3, <1>5, <1>6, <1>7, <1>8 DEF WorkerNext, KernelStep

(* What was unread is unread for good. *)
LEMMA UnreadKept ==
  ASSUME UnreadInv, [WorkerNext]_workerVars
  PROVE  UnreadInv'
<1> USE DEF UnreadInv
<1>1. CASE PrepareRun \/ StartWorker
  BY <1>1 DEF PrepareRun, StartWorker, RunReturns, requestVars
<1>2. CASE SendBeat \/ Silence \/ UNCHANGED workerVars
  BY <1>2 DEF SendBeat, Silence, workerVars, requestVars
<1>3. CASE (\E r \in Request : SendRequest(r)) \/ (\E out \in Output : ExitsWith(out))
  BY <1>3 DEF SendRequest, ExitsWith, requestVars
<1>4. CASE ReadBeat \/ ReadRequest \/ \E w \in writes : Lands(w)
  BY <1>4 DEF ReadBeat, ReadRequest, Lands, requestVars
<1>5. CASE NoticeFailure \/ NoticeSuccess \/ Stall
  BY <1>5 DEF NoticeFailure, NoticeSuccess, Stall, ReturnsError, RunReturns, requestVars
<1>6. CASE Parse
  BY <1>6 DEF Parse, ReturnsError, RunReturns, requestVars
<1> QED BY <1>1, <1>2, <1>3, <1>4, <1>5, <1>6 DEF WorkerNext, KernelStep

(* What a line that is read asks for is kept, and nothing else is. *)
LEMMA RequestsKept ==
  ASSUME RequestInv, [WorkerNext]_workerVars
  PROVE  RequestInv'
<1>1. LinesOK' /\ UnreadInv'
  BY LineTypes, UnreadKept DEF RequestInv
<1> SUFFICES LostInv(FALSE, tried)' /\ LostInv(TRUE, NotTried)'
  BY <1>1 DEF RequestInv
<1>2. tried \in Seq(Request) /\ NotTried \in Seq(Request) /\ LostInv(FALSE, tried) /\ LostInv(TRUE, NotTried)
  <2>1. tried \in Seq(Request) /\ deferred \in Seq(Request) /\ discarded \in Seq(Request)
    BY DEF RequestInv, LinesOK
  <2>2. deferred \o discarded \in Seq(Request)
    BY <2>1
  <2>3. LostInv(FALSE, tried) /\ LostInv(TRUE, NotTried)
    BY DEF RequestInv
  <2> QED BY <2>1, <2>2, <2>3 DEF NotTried
<1>w. \A later : Wanted(later)' = Wanted(later)
  BY DEF Wanted
<1>3. CASE PrepareRun \/ StartWorker \/ Silence \/ (\E out \in Output : ExitsWith(out)) \/ UNCHANGED workerVars
  BY <1>3, QuietSteps
     DEF PrepareRun, StartWorker, Silence, ExitsWith, workerVars, childVars, requestVars, NotTried
<1>p. CASE Parse
  <2>1. UNCHANGED <<tried, NotTried>>
    BY <1>p, DropsAreKnown DEF Parse, requestVars, NotTried
  <2> QED BY <1>p, <2>1, QuietSteps DEF Parse, childVars
<1>4. CASE \E w \in writes : Lands(w)
  BY <1>4, QuietSteps DEF Lands, childVars, requestVars, NotTried
<1>5. ASSUME NEW l \in Line, pipe' = Append(pipe, l), UNCHANGED <<unread, tried, NotTried>>,
             \/ sent' = sent /\ l.request = NoRequest
             \/ sent' = Append(sent, l.request) /\ l.request \in Request
      PROVE  LostInv(FALSE, tried)' /\ LostInv(TRUE, NotTried)'
  BY <1>2, <1>5, WrittenLine DEF LostInv, Left
<1>6. CASE SendBeat
  <2>1. PipeLine(beats, NoRequest) \in Line /\ PipeLine(beats, NoRequest).request = NoRequest
    BY DEF PipeLine, Line, MaybeRequest, RequestInv, LinesOK
  <2> QED BY <1>5, <1>6, <2>1 DEF SendBeat, requestVars, NotTried
<1>7. ASSUME NEW r \in Request, SendRequest(r) PROVE LostInv(FALSE, tried)' /\ LostInv(TRUE, NotTried)'
  <2>1. PipeLine(End, r) \in Line /\ PipeLine(End, r).request = r
    BY DEF PipeLine, Line, MaybeRequest, End
  <2> QED BY <1>5, <1>7, <2>1 DEF SendRequest, requestVars, NotTried
<1>8. ASSUME kernel = "reading", pipe # <<>>, pipe' = Tail(pipe), UNCHANGED <<sent, unread>>,
             tried' = IF Head(pipe).request \in Wanted(FALSE) THEN Append(tried, Head(pipe).request) ELSE tried,
             deferred' = IF Head(pipe).request \in Wanted(TRUE) THEN Append(deferred, Head(pipe).request) ELSE deferred,
             discarded' = discarded
      PROVE  LostInv(FALSE, tried)' /\ LostInv(TRUE, NotTried)'
  <2>0. /\ discarded = <<>> /\ deferred \in Seq(Request) /\ deferred' \in Seq(Request)
        /\ NotTried = deferred /\ NotTried' = deferred'
    <3>1. discarded = <<>> /\ deferred \in Seq(Request)
      BY <1>8 DEF RequestInv, UnreadInv, LinesOK
    <3>2. deferred' \in Seq(Request)
      BY <1>1 DEF LinesOK
    <3>3. \A q \in Seq(Request) : q \o <<>> = q
      OBVIOUS
    <3>4. NotTried = deferred \o <<>> /\ NotTried' = deferred' \o <<>>
      BY <1>8, <3>1 DEF NotTried
    <3> QED BY <3>1, <3>2, <3>3, <3>4
  <2>1. Picked(sent', Wanted(FALSE)) = tried' \o Picked(Requests(unread' \o pipe'), Wanted(FALSE))
    BY <1>2, <1>8, ReadLine
  <2>2. Picked(sent', Wanted(TRUE)) = NotTried' \o Picked(Requests(unread' \o pipe'), Wanted(TRUE))
    BY <1>2, <1>8, <2>0, ReadLine
  <2> QED BY <2>1, <2>2 DEF LostInv, Left
<1>9. CASE ReadBeat
  <2>1. Head(pipe).request \notin Wanted(FALSE) /\ Head(pipe).request \notin Wanted(TRUE)
    BY <1>9, NoRequestIsUnwanted DEF ReadBeat
  <2> QED BY <1>8, <1>9, <2>1 DEF ReadBeat, childVars, requestVars
<1>10. CASE ReadRequest
  <2>1. Head(pipe).request \in Request
    BY <1>10, RequestsOfLines DEF ReadRequest, RequestInv, LinesOK, Line, MaybeRequest
  <2>2. /\ Head(pipe).request \in Wanted(FALSE) <=> Accepted(Head(pipe).request) /\ Head(pipe).request.kind \notin Deferred
        /\ Head(pipe).request \in Wanted(TRUE) <=> Accepted(Head(pipe).request) /\ Head(pipe).request.kind \in Deferred
    BY <2>1 DEF Wanted, May, Accepted
  <2> QED BY <1>8, <1>10, <2>2 DEF ReadRequest, childVars
<1>11. CASE NoticeFailure \/ NoticeSuccess \/ Stall
  <2>0. kernel = "reading" /\ unread' = pipe /\ pipe' = <<>> /\ UNCHANGED sent
    BY <1>11 DEF NoticeFailure, NoticeSuccess, Stall, Leaves, childVars
  <2>1. UNCHANGED <<tried, NotTried>>
    BY <1>11, <2>0, DropsAreKnown DEF NoticeFailure, NoticeSuccess, Stall, requestVars, NotTried
  <2>2. unread = <<>> /\ pipe \in Seq(Line)
    BY <2>0 DEF RequestInv, UnreadInv, LinesOK
  <2>3. unread' \o pipe' = unread \o pipe
    BY <2>0, <2>2
  <2>4. Left' = Left
    BY <2>3 DEF Left, Requests
  <2> QED BY <1>2, <2>0, <2>1, <2>4 DEF LostInv
<1> QED BY <1>3, <1>p, <1>4, <1>6, <1>7, <1>9, <1>10, <1>11 DEF WorkerNext, KernelStep

(* No run has requests at first. *)
LEMMA RequestsInitial == WorkerInit => RequestInv
<1> SUFFICES ASSUME WorkerInit PROVE RequestInv
  OBVIOUS
<1> USE DEF WorkerInit
<1>1. LinesOK /\ UnreadInv
  <2>1. NoBeat \in [seq : Int, status : BeatStatus] /\ -1 \in Int
    BY DEF NoBeat, BeatStatus
  <2> HIDE DEF WorkerInit
  <2>2. <<>> \in Seq(Line) /\ <<>> \in Seq(Request)
    OBVIOUS
  <2> QED BY <2>1, <2>2 DEF WorkerInit, LinesOK, UnreadInv
<1>2. Left = <<>>
  BY DEF Left, Requests
<1>3. \A later : Picked(<<>>, Wanted(later)) = <<>>
  BY PickedTypes
<1>4. NotTried = <<>>
  BY DEF NotTried
<1> QED BY <1>1, <1>2, <1>3, <1>4 DEF RequestInv, LostInv

(* Types of the requests and lines, and where each request is. *)
THEOREM RequestsInductive == WorkerSpec => []RequestInv
<1>1. RequestInv /\ [WorkerNext]_workerVars => RequestInv'
  BY RequestsKept
<1> QED BY <1>1, RequestsInitial, PTL DEF WorkerSpec

(* run_worker tries or keeps the requests the agent may make, in the order sent.
   What is lost is what nobody had read when the exit was noticed, and with an
   error what was kept for the caller. *)
THEOREM NothingElseIsLost == WorkerSpec => []LostAtTheEnd
<1>1. RequestInv => LostAtTheEnd
  BY DEF RequestInv, LostInv, Left, NotTried, UnreadInv, LostAtTheEnd, OfKind, Wanted
<1> QED BY <1>1, RequestsInductive, PTL

(* Types of the process, the lines, the rows and the requests. *)
THEOREM WorkerTypesHold == WorkerSpec => []WorkerTypeOK
<1>1. RunInv /\ RequestInv => WorkerTypeOK
  BY DEF RunInv, KernelOK, Kernels, Outcomes, Rows, RequestInv, LinesOK, WorkerTypeOK
<1> QED BY <1>1, RunInductive, RequestsInductive, PTL

-----------------------------------------------------------------------------
(* The catalog. *)

(* Connectors and links by their types, and bind commands by what they check. *)
BindInv ==
  /\ bound \subseteq Tool
  /\ connector \in [Connector -> {"none", "on", "off"}]
  /\ binder \in [Binder -> {NoBind} \cup [at : {"tool"}, item : Tool]
                                    \cup [at : {"mcp", "link"}, item : Connector]]

(* While a worker is launched nothing is linked or enabled that was not seen. *)
HandedInv ==
  /\ launch \in [at : {"none", "tools", "list", "resolve"}, caps : SUBSET Capability,
                 tools : SUBSET Tool, todo : SUBSET Connector, given : SUBSET Connector]
  /\ launch.at # "none" => linked \subseteq seen.linked /\ EnabledOf(connector) \subseteq seen.on
  /\ launch.todo \subseteq seen.linked
  /\ launch.given \subseteq seen.linked \cap seen.on
  /\ launch.at = "none" => launch = NoLaunch
  /\ linked \subseteq Connector /\ caps \subseteq Capability

(* At most one search tool is bound, and at most one is handed over. *)
ToolInv == OneSearchTool

(* A skill has the version it names, and what is taught has a version. *)
SkillInv == SkillLoads /\ current \in [Skill -> Nat]

CatalogInv == BindInv /\ HandedInv /\ ToolInv /\ SkillInv

-----------------------------------------------------------------------------
(* Everything holds of an empty catalog. *)
LEMMA CatalogInitial == CatalogInit => CatalogInv
<1> SUFFICES ASSUME CatalogInit PROVE CatalogInv
  OBVIOUS
<1> USE DEF CatalogInit
<1>1. BindInv
  BY DEF BindInv
<1>2. HandedInv
  BY DEF HandedInv, NoLaunch
<1>3. ToolInv
  BY DEF ToolInv, OneSearchTool, NoLaunch
<1>4. SkillInv
  BY DEF SkillInv, SkillLoads
<1> QED BY <1>1, <1>2, <1>3, <1>4 DEF CatalogInv

(* A change of the links or connectors that is watched keeps what was seen. *)
LEMMA WatchedChange ==
  ASSUME HandedInv, Watch, UNCHANGED <<launch, caps>>, linked' \subseteq Connector
  PROVE  HandedInv'
<1>1. seen'.linked = seen.linked \cup linked' /\ seen'.on = seen.on \cup EnabledOf(connector')
  BY DEF Watch
<1>2. EnabledOf(connector)' = EnabledOf(connector')
  BY DEF EnabledOf
<1> QED BY <1>1, <1>2 DEF HandedInv

(* A step that touches neither launch nor links keeps what was seen. *)
LEMMA UnwatchedChange ==
  ASSUME HandedInv, UNCHANGED <<launch, connector, linked, seen>>, caps' \subseteq Capability
  PROVE  HandedInv'
BY DEF HandedInv, EnabledOf

(* Types of the tables and of the bind commands. *)
LEMMA BindStep == BindInv /\ [CatalogNext]_catalogVars => BindInv'
<1> SUFFICES ASSUME BindInv, [CatalogNext]_catalogVars PROVE BindInv'
  OBVIOUS
<1> USE DEF BindInv
<1>1. ASSUME NEW c \in Connector, NEW state \in {"on", "off"}, UpsertConnector(c, state) PROVE BindInv'
  BY <1>1 DEF UpsertConnector
<1>2. ASSUME NEW c \in Connector, DeleteConnector(c) PROVE BindInv'
  BY <1>2 DEF DeleteConnector
<1>3. ASSUME NEW b \in Binder, NEW t \in Tool, StartBind(b, "tool", t) PROVE BindInv'
  BY <1>3 DEF StartBind, grantVars
<1>4. ASSUME NEW b \in Binder, NEW c \in Connector, StartBind(b, "mcp", c) PROVE BindInv'
  BY <1>4 DEF StartBind, grantVars
<1>5. ASSUME NEW b \in Binder, CheckConnector(b) PROVE BindInv'
  <2>1. binder[b] \in [at : {"mcp", "link"}, item : Connector]
    BY <1>5 DEF CheckConnector, NoBind
  <2>2. [binder[b] EXCEPT !.at = "link"] \in [at : {"mcp", "link"}, item : Connector]
    BY <2>1
  <2> QED BY <1>5, <2>2 DEF CheckConnector, grantVars
<1>6. ASSUME NEW b \in Binder, LinkConnector(b) PROVE BindInv'
  BY <1>6 DEF LinkConnector
<1>7. ASSUME NEW b \in Binder, BindTool(b) PROVE BindInv'
  <2>1. binder[b].item \in Tool
    BY <1>7 DEF BindTool, NoBind
  <2> QED BY <1>7, <2>1 DEF BindTool
<1>8. ASSUME NEW t \in Tool, UnbindTool(t) PROVE BindInv'
  BY <1>8 DEF UnbindTool
<1>9. CASE UNCHANGED <<bound, connector, binder>>
  BY <1>9
<1> QED BY <1>1, <1>2, <1>3, <1>4, <1>5, <1>6, <1>7, <1>8, <1>9
        DEF CatalogNext, catalogVars, grantVars, UpdateManifest, UnbindConnector, Hydrate,
            ReadManifest, ReadTools, ListBindings, ResolveConnector, SpawnWorker,
            SaveSkill, BindSkill, UnbindSkill

(* What a launch has read stays within what was linked and enabled. *)
LEMMA LaunchStep == BindInv /\ HandedInv /\ [CatalogNext]_catalogVars => HandedInv'
<1> SUFFICES ASSUME BindInv, HandedInv, [CatalogNext]_catalogVars PROVE HandedInv'
  OBVIOUS
<1>0. linked \subseteq Connector /\ caps \subseteq Capability
  BY DEF HandedInv
<1>1. ASSUME NEW c \in Connector, NEW state \in {"on", "off"}, UpsertConnector(c, state) PROVE HandedInv'
  BY <1>0, <1>1, WatchedChange DEF UpsertConnector
<1>2. ASSUME NEW c \in Connector, DeleteConnector(c) PROVE HandedInv'
  BY <1>0, <1>2, WatchedChange DEF DeleteConnector
<1>3. ASSUME NEW c \in Connector, UnbindConnector(c) PROVE HandedInv'
  BY <1>0, <1>3, WatchedChange DEF UnbindConnector
<1>4. ASSUME NEW b \in Binder, LinkConnector(b) PROVE HandedInv'
  <2>1. binder[b].item \in Connector
    BY <1>4 DEF LinkConnector, BindInv, NoBind
  <2>2. linked' \subseteq Connector
    BY <1>0, <1>4, <2>1 DEF LinkConnector
  <2> QED BY <1>4, <2>2, WatchedChange DEF LinkConnector
<1>5. CASE ReadManifest
  <2>1. launch' = [at |-> "tools", caps |-> caps, tools |-> {}, todo |-> {}, given |-> {}]
    BY <1>5 DEF ReadManifest, NoLaunch
  <2>2. seen' = [linked |-> linked, on |-> EnabledOf(connector)] /\ UNCHANGED <<linked, connector, caps>>
    BY <1>5 DEF ReadManifest, grantVars
  <2> QED BY <1>0, <2>1, <2>2 DEF HandedInv, EnabledOf
<1>6. CASE ReadTools
  <2>1. launch' = [launch EXCEPT !.at = "list", !.tools = bound \cap keyed] /\ launch.at = "tools"
    BY <1>6 DEF ReadTools
  <2>2. UNCHANGED <<linked, connector, caps, seen>> /\ bound \cap keyed \subseteq Tool
    BY <1>6 DEF ReadTools, grantVars, BindInv
  <2> QED BY <2>1, <2>2 DEF HandedInv, EnabledOf
<1>7. CASE ListBindings
  <2>1. PICK todo \in SUBSET Connector :
          /\ todo \subseteq seen.linked /\ launch.at = "list"
          /\ launch' = [launch EXCEPT !.at = "resolve", !.todo = todo]
    BY <1>0, <1>7 DEF ListBindings, HandedInv
  <2>2. UNCHANGED <<linked, connector, caps, seen>>
    BY <1>7 DEF ListBindings, grantVars
  <2> QED BY <2>1, <2>2 DEF HandedInv, EnabledOf
<1>8. ASSUME NEW c \in Connector, ResolveConnector(c) PROVE HandedInv'
  <2>1. launch' = [launch EXCEPT !.todo = @ \ {c}, !.given = @ \cup {d \in {c} : Usable(d)}]
        /\ launch.at = "resolve" /\ c \in launch.todo
    BY <1>8 DEF ResolveConnector
  <2>2. UNCHANGED <<linked, connector, caps, seen>>
    BY <1>8 DEF ResolveConnector, grantVars
  <2>3. {d \in {c} : Usable(d)} \subseteq seen.linked \cap seen.on
    BY <2>1 DEF HandedInv, Usable, EnabledOf
  <2> QED BY <2>1, <2>2, <2>3 DEF HandedInv, EnabledOf
<1>9. CASE SpawnWorker
  <2>1. launch' = NoLaunch /\ UNCHANGED <<linked, connector, caps>>
        /\ seen' = [linked |-> {}, on |-> {}]
    BY <1>9 DEF SpawnWorker, grantVars
  <2> QED BY <1>0, <2>1 DEF HandedInv, NoLaunch
<1>10. ASSUME NEW cs \in SUBSET Capability, UpdateManifest(cs) PROVE HandedInv'
  BY <1>10, UnwatchedChange DEF UpdateManifest, grantVars
<1>11. CASE UNCHANGED <<launch, connector, linked, seen, caps>>
  BY <1>0, <1>11, UnwatchedChange
<1> QED BY <1>1, <1>2, <1>3, <1>4, <1>5, <1>6, <1>7, <1>8, <1>9, <1>10, <1>11
        DEF CatalogNext, catalogVars, grantVars, StartBind, CheckConnector, BindTool, UnbindTool,
            Hydrate, SaveSkill, BindSkill, UnbindSkill

(* A binding replaces the tools of its kind, whoever else binds. *)
LEMMA ToolStep == BindInv /\ HandedInv /\ ToolInv /\ [CatalogNext]_catalogVars => ToolInv'
<1> SUFFICES ASSUME BindInv, HandedInv, ToolInv, [CatalogNext]_catalogVars PROVE ToolInv'
  OBVIOUS
<1> USE DEF ToolInv, OneSearchTool
<1>1. ASSUME NEW b \in Binder, BindTool(b) PROVE ToolInv'
  <2>1. bound' = {binder[b].item} /\ UNCHANGED launch
    BY <1>1 DEF BindTool, Replaced, BindInv
  <2> QED BY <2>1
<1>2. ASSUME NEW t \in Tool, UnbindTool(t) PROVE ToolInv'
  BY <1>2 DEF UnbindTool
<1>3. ASSUME UNCHANGED bound, launch'.tools \in {launch.tools, bound \cap keyed, {}} PROVE ToolInv'
  BY <1>3
<1>4. CASE ReadManifest
  BY <1>3, <1>4 DEF ReadManifest, NoLaunch, grantVars
<1>5. CASE ReadTools
  <2>1. launch' = [launch EXCEPT !.at = "list", !.tools = bound \cap keyed] /\ UNCHANGED bound
    BY <1>5 DEF ReadTools, grantVars
  <2>2. launch'.tools = bound \cap keyed
    BY <2>1 DEF HandedInv
  <2> QED BY <1>3, <2>1, <2>2
<1>6. CASE ListBindings
  BY <1>3, <1>6 DEF ListBindings, HandedInv, grantVars
<1>7. ASSUME NEW c \in Connector, ResolveConnector(c) PROVE ToolInv'
  BY <1>3, <1>7 DEF ResolveConnector, HandedInv, grantVars
<1>8. CASE SpawnWorker
  BY <1>3, <1>8 DEF SpawnWorker, NoLaunch, grantVars
<1>9. CASE UNCHANGED <<bound, launch>>
  BY <1>3, <1>9
<1> QED BY <1>1, <1>2, <1>4, <1>5, <1>6, <1>7, <1>8, <1>9
        DEF CatalogNext, catalogVars, grantVars, UpdateManifest, UpsertConnector, DeleteConnector,
            UnbindConnector, StartBind, CheckConnector, LinkConnector, Hydrate, SaveSkill,
            BindSkill, UnbindSkill

(* save_skill names a version only after it has written it. *)
LEMMA SkillStep == SkillInv /\ [CatalogNext]_catalogVars => SkillInv'
<1> SUFFICES ASSUME SkillInv, [CatalogNext]_catalogVars PROVE SkillInv'
  OBVIOUS
<1> USE DEF SkillInv, SkillLoads
<1>1. ASSUME NEW s \in Skill, SaveSkill(s) PROVE SkillInv'
  <2> DEFINE v == current[s] + 1
  <2>1. v \in Nat /\ v # 0
    OBVIOUS
  <2>2. PICK done \in BOOLEAN :
          /\ versions' = versions \cup {<<s, v>>}
          /\ current' = IF done THEN [current EXCEPT ![s] = v] ELSE current
    BY <1>1 DEF SaveSkill, VersionFirst
  <2>3. taught' = taught
    BY <1>1 DEF SaveSkill
  <2> HIDE DEF v
  <2> QED BY <2>1, <2>2, <2>3
<1>2. ASSUME NEW s \in Skill, BindSkill(s) PROVE SkillInv'
  BY <1>2 DEF BindSkill
<1>3. ASSUME NEW s \in Skill, UnbindSkill(s) PROVE SkillInv'
  BY <1>3 DEF UnbindSkill
<1>4. CASE UNCHANGED <<current, versions, taught>>
  BY <1>4
<1> QED BY <1>1, <1>2, <1>3, <1>4
        DEF CatalogNext, catalogVars, skillVars, UpdateManifest, UpsertConnector, DeleteConnector,
            UnbindConnector, StartBind, CheckConnector, LinkConnector, BindTool, UnbindTool,
            Hydrate, ReadManifest, ReadTools, ListBindings, ResolveConnector, SpawnWorker

-----------------------------------------------------------------------------
(* The inductive invariant: a launch has read no more than was there while it
   ran, one tool is bound, and versions are written before they are named. *)
THEOREM CatalogInductive == CatalogSpec => []CatalogInv
<1>1. CatalogInv /\ [CatalogNext]_catalogVars => CatalogInv'
  BY BindStep, LaunchStep, ToolStep, SkillStep DEF CatalogInv
<1> QED BY <1>1, CatalogInitial, PTL DEF CatalogSpec

(* run_worker against connector commands: nothing disabled, deleted or unbound
   before the launch and since is handed to the worker. *)
THEOREM GivenIsPermitted == CatalogSpec => []GivenWasPermitted
<1>1. CatalogInv => GivenWasPermitted
  BY DEF CatalogInv, HandedInv, GivenWasPermitted
<1> QED BY <1>1, CatalogInductive, PTL

(* bind_tool_to_agent: any number of commands at once leave one search tool, and
   a worker gets the key of one. *)
THEOREM SearchToolIsSingle == CatalogSpec => []OneSearchTool
<1>1. CatalogInv => OneSearchTool
  BY DEF CatalogInv, ToolInv
<1> QED BY <1>1, CatalogInductive, PTL

(* save_skill stopping half way: every skill still has the version it names. *)
THEOREM SkillsLoad == CatalogSpec => []SkillLoads
<1>1. CatalogInv => SkillLoads
  BY DEF CatalogInv, SkillInv
<1> QED BY <1>1, CatalogInductive, PTL

\* What the invariant of the catalog leaves open.
CatalogRest ==
  /\ keyed \subseteq Tool /\ seen.linked \subseteq Connector /\ seen.on \subseteq Connector
  /\ current \in [Skill -> 0..MaxVersions] /\ versions \subseteq Skill \X (1..MaxVersions)
  /\ taught \subseteq Skill /\ enforced \in BOOLEAN /\ edits \in 0..MaxEdits

(* A change that is counted stays within the bound. *)
LEMMA EditIsCounted == ASSUME edits \in 0..MaxEdits, CountEdit PROVE edits' \in 0..MaxEdits
BY CatalogAssumption DEF CountEdit

(* A watched change sees connectors only. *)
LEMMA SeenIsTyped ==
  ASSUME CatalogRest, Watch, linked' \subseteq Connector
  PROVE  seen'.linked \subseteq Connector /\ seen'.on \subseteq Connector
BY DEF CatalogRest, Watch, EnabledOf

(* Every step leaves the rest of the catalog typed. *)
LEMMA CatalogRestKept ==
  BindInv /\ HandedInv /\ CatalogRest /\ [CatalogNext]_catalogVars => CatalogRest'
<1> SUFFICES ASSUME BindInv, HandedInv, CatalogRest, [CatalogNext]_catalogVars PROVE CatalogRest'
  OBVIOUS
<1>0. linked \subseteq Connector /\ edits \in 0..MaxEdits
  BY DEF HandedInv, CatalogRest
<1>1. ASSUME NEW cs, UpdateManifest(cs) PROVE CatalogRest'
  <2>1. edits' \in 0..MaxEdits
    BY <1>0, <1>1, EditIsCounted DEF UpdateManifest
  <2> QED BY <1>1, <2>1 DEF UpdateManifest, CatalogRest, grantVars, skillVars
<1>2. ASSUME Watch, linked' \subseteq linked, edits' \in 0..MaxEdits, UNCHANGED <<keyed, skillVars>>
      PROVE  CatalogRest'
  <2>1. seen'.linked \subseteq Connector /\ seen'.on \subseteq Connector
    BY <1>0, <1>2, SeenIsTyped
  <2> QED BY <1>2, <2>1 DEF CatalogRest, skillVars
<1>3. ASSUME NEW c \in Connector, NEW state, UpsertConnector(c, state) PROVE CatalogRest'
  BY <1>0, <1>2, <1>3, EditIsCounted DEF UpsertConnector
<1>4. ASSUME NEW c \in Connector, DeleteConnector(c) \/ UnbindConnector(c) PROVE CatalogRest'
  BY <1>0, <1>2, <1>4, EditIsCounted DEF DeleteConnector, UnbindConnector
<1>5. ASSUME NEW b \in Binder, LinkConnector(b) PROVE CatalogRest'
  <2>1. binder[b].item \in Connector
    BY <1>5 DEF LinkConnector, BindInv, NoBind
  <2>2. linked' \subseteq Connector
    BY <1>0, <1>5, <2>1 DEF LinkConnector
  <2>3. seen'.linked \subseteq Connector /\ seen'.on \subseteq Connector
    BY <1>5, <2>2, SeenIsTyped DEF LinkConnector
  <2> QED BY <1>5, <2>3 DEF LinkConnector, CatalogRest, skillVars
<1>6. ASSUME NEW b \in Binder, NEW kind, NEW x, StartBind(b, kind, x) PROVE CatalogRest'
  <2>1. edits' \in 0..MaxEdits
    BY <1>0, <1>6, EditIsCounted DEF StartBind
  <2> QED BY <1>6, <2>1 DEF StartBind, CatalogRest, grantVars, skillVars
<1>7. ASSUME NEW t \in Tool, UnbindTool(t) PROVE CatalogRest'
  <2>1. edits' \in 0..MaxEdits
    BY <1>0, <1>7, EditIsCounted DEF UnbindTool
  <2> QED BY <1>7, <2>1 DEF UnbindTool, CatalogRest, skillVars
<1>8. ASSUME NEW t \in Tool, Hydrate(t) PROVE CatalogRest'
  <2>1. keyed' \subseteq Tool
    BY <1>8 DEF Hydrate, CatalogRest
  <2> QED BY <1>8, <2>1 DEF Hydrate, CatalogRest, skillVars
<1>9. CASE ReadManifest
  <2>1. seen'.linked = linked /\ seen'.on = EnabledOf(connector)
    BY <1>9 DEF ReadManifest
  <2> QED BY <1>0, <1>9, <2>1 DEF ReadManifest, CatalogRest, grantVars, skillVars, EnabledOf
<1>10. CASE SpawnWorker
  <2>1. seen'.linked = {} /\ seen'.on = {}
    BY <1>10 DEF SpawnWorker
  <2> QED BY <1>10, <2>1 DEF SpawnWorker, CatalogRest, grantVars, skillVars
<1>11. ASSUME NEW s \in Skill, SaveSkill(s) PROVE CatalogRest'
  <2> DEFINE v == current[s] + 1
  <2>1. v \in 1..MaxVersions
    BY <1>11, CatalogAssumption DEF SaveSkill, CatalogRest
  <2>2. PICK done \in BOOLEAN :
          /\ versions' = versions \cup {w \in {<<s, v>>} : done \/ ~VersionFirst(done)}
          /\ current' = IF VersionFirst(done) THEN [current EXCEPT ![s] = v] ELSE current
    BY <1>11 DEF SaveSkill
  <2>3. versions' \subseteq Skill \X (1..MaxVersions)
    BY <2>1, <2>2 DEF CatalogRest
  <2>4. current' \in [Skill -> 0..MaxVersions]
    BY <2>1, <2>2 DEF CatalogRest
  <2>5. edits' \in 0..MaxEdits
    BY <1>0, <1>11, EditIsCounted DEF SaveSkill
  <2> QED BY <1>11, <2>3, <2>4, <2>5 DEF SaveSkill, CatalogRest, grantVars
<1>12. ASSUME NEW s \in Skill, BindSkill(s) \/ UnbindSkill(s) PROVE CatalogRest'
  <2>1. edits' \in 0..MaxEdits
    BY <1>0, <1>12, EditIsCounted DEF BindSkill, UnbindSkill
  <2>2. taught' \subseteq Skill
    BY <1>12 DEF BindSkill, UnbindSkill, CatalogRest
  <2> QED BY <1>12, <2>1, <2>2 DEF BindSkill, UnbindSkill, CatalogRest, grantVars
<1>13. CASE UNCHANGED <<keyed, seen, skillVars, edits>>
  BY <1>13 DEF CatalogRest, skillVars
<1> QED BY <1>1, <1>3, <1>4, <1>5, <1>6, <1>7, <1>8, <1>9, <1>10, <1>11, <1>12, <1>13
        DEF CatalogNext, catalogVars, grantVars, CheckConnector, BindTool, ReadTools, ListBindings,
            ResolveConnector

(* Type correctness of the catalog: grants, bind commands, launch and skills. *)
THEOREM CatalogTypesHold == CatalogSpec => []CatalogTypeOK
<1>1. CatalogInit => CatalogRest
  BY CatalogAssumption DEF CatalogInit, CatalogRest
<1>2. CatalogInv /\ CatalogRest => CatalogTypeOK
  <2> SUFFICES ASSUME CatalogInv, CatalogRest PROVE CatalogTypeOK
    OBVIOUS
  <2> USE DEF CatalogInv
  <2>1. \A b \in Binder : \/ binder[b] = NoBind
                          \/ binder[b].at = "tool" /\ binder[b].item \in Tool
                          \/ binder[b].at \in {"mcp", "link"} /\ binder[b].item \in Connector
    BY DEF BindInv
  <2>2. /\ launch.at \in {"none", "tools", "list", "resolve"}
        /\ launch.caps \subseteq Capability /\ launch.tools \subseteq Tool
        /\ launch.todo \subseteq Connector /\ launch.given \subseteq Connector
    BY DEF HandedInv
  <2>3. /\ bound \subseteq Tool /\ connector \in [Connector -> {"none", "on", "off"}]
        /\ linked \subseteq Connector /\ caps \subseteq Capability
    BY DEF BindInv, HandedInv
  <2> QED BY <2>1, <2>2, <2>3 DEF CatalogRest, CatalogTypeOK
<1>3. CatalogInv => BindInv /\ HandedInv
  BY DEF CatalogInv
<1> QED BY <1>1, <1>2, <1>3, CatalogRestKept, CatalogInductive, PTL DEF CatalogSpec

-----------------------------------------------------------------------------
(* Agents are numbered as they come, each after the one it reports to. *)
ChartOK ==
  /\ \E n \in 1..MaxAgents : org \in [0..(n - 1) -> Row]
  /\ \A a \in Agents : org[a].parent < a
  /\ \A w \in Caller : hire[w] # NoHire =>
       /\ hire[w] \in HireCall
       /\ hire[w].target \in Agents \cup {NoParent}
  /\ hire \in [Caller -> {NoHire} \cup HireCall]

(* A call past the gate, with a count nobody made old, still has room. *)
GateInv ==
  \A w \in Caller : hire[w] # NoHire =>
    (hire[w].gated /\ ~hire[w].stale /\ hire[w].at # "profile" => HasRoom(hire[w].target))
CapInv == \A m \in AgentId : Cardinality(ReportsOf(m)) > Cap => m \in overrun

-----------------------------------------------------------------------------
(* A call that is idle has no hire. *)
LEMMA NoHireIsNone == NoHire.at = "idle" /\ \A h \in HireCall : h # NoHire /\ h.at # "idle"
BY DEF NoHire, HireCall

(* The agents are the numbers below their count. *)
LEMMA SizeOfChart ==
  ASSUME ChartOK
  PROVE  /\ IsFiniteSet(Agents) /\ Cardinality(Agents) \in 1..MaxAgents
         /\ Agents = 0..(Cardinality(Agents) - 1)
<1>1. PICK n \in 1..MaxAgents : org \in [0..(n - 1) -> Row]
  BY DEF ChartOK
<1>2. Agents = 0..(n - 1) /\ n \in Nat /\ n >= 1
  BY <1>1, OrgAssumption DEF Agents
<1>3. IsFiniteSet(0..(n - 1)) /\ Cardinality(0..(n - 1)) = n
  BY <1>2, FS_Interval
<1> QED BY <1>1, <1>2, <1>3

(* So are the reports of anyone counted. *)
LEMMA ReportsAreFinite ==
  ASSUME ChartOK, NEW m
  PROVE  IsFiniteSet(ReportsOf(m)) /\ Cardinality(ReportsOf(m)) \in Nat
<1>1. ReportsOf(m) \subseteq Agents
  BY DEF ReportsOf
<1> QED BY <1>1, SizeOfChart, FS_Subset, FS_CardinalityType

(* The seeded rows are a chart. *)
LEMMA ChartInitial == OrgInit => ChartOK /\ GateInv /\ CapInv
<1> SUFFICES ASSUME OrgInit PROVE ChartOK /\ GateInv /\ CapInv
  OBVIOUS
<1>1. PICK n \in 1..MaxAgents :
        Seed \in [0..(n - 1) -> [name : Name, parent : -1..(n - 1), role : Role]]
  BY OrgAssumption
<1>2. \A a \in 0..(n - 1) : Seed[a] \in Row
  <2> TAKE a \in 0..(n - 1)
  <2>1. Seed[a] \in [name : Name, parent : -1..(n - 1), role : Role]
    BY <1>1
  <2>2. -1..(n - 1) \subseteq AgentId \cup {NoParent}
    BY <1>1, OrgAssumption DEF AgentId, NoParent
  <2> QED BY <2>1, <2>2 DEF Row
<1>3. org = Seed /\ Agents = DOMAIN Seed /\ \A w \in Caller : hire[w] = NoHire
  BY DEF OrgInit, Agents
<1>4. ChartOK
  BY <1>1, <1>2, <1>3, OrgAssumption DEF ChartOK, OrgInit
<1>5. GateInv
  BY <1>3 DEF GateInv
<1>6. CapInv
  BY DEF CapInv, OrgInit
<1> QED BY <1>4, <1>5, <1>6

(* Rows that keep their parents leave the chart, and who has room, as they were. *)
LEMMA ParentsKept ==
  ASSUME ChartOK, org' \in [Agents -> Row], \A a \in Agents : org'[a].parent = org[a].parent
  PROVE  /\ Agents' = Agents /\ \A a \in Agents' : org'[a].parent < a
         /\ \E n \in 1..MaxAgents : org' \in [0..(n - 1) -> Row]
         /\ \A m : ReportsOf(m)' = ReportsOf(m)
<1>1. Agents' = Agents
  BY DEF Agents
<1>2. \A m : ReportsOf(m)' = ReportsOf(m)
  BY <1>1 DEF ReportsOf
<1>3. PICK n \in 1..MaxAgents : org \in [0..(n - 1) -> Row]
  BY DEF ChartOK
<1>4. Agents = 0..(n - 1)
  BY <1>3 DEF Agents
<1> QED BY <1>1, <1>2, <1>4 DEF ChartOK

(* An edit of a row keeps its parent. *)
LEMMA RowEdited ==
  ASSUME ChartOK, NEW a \in Agents, NEW n \in Name, NEW r \in Role,
         \/ org' = [org EXCEPT ![a].role = r]
         \/ org' = [org EXCEPT ![a].name = n, ![a].role = r]
  PROVE  org' \in [Agents -> Row] /\ \A b \in Agents : org'[b].parent = org[b].parent
<1>1. org \in [Agents -> Row]
  BY DEF ChartOK, Agents
<1>2. org[a] \in Row
  BY <1>1
<1>3. /\ [org[a] EXCEPT !.role = r] \in Row /\ [org[a] EXCEPT !.name = n, !.role = r] \in Row
      /\ [org[a] EXCEPT !.role = r].parent = org[a].parent
      /\ [org[a] EXCEPT !.name = n, !.role = r].parent = org[a].parent
  BY <1>2 DEF Row
<1>4. CASE org' = [org EXCEPT ![a].role = r]
  BY <1>1, <1>3, <1>4
<1>5. CASE org' = [org EXCEPT ![a].name = n, ![a].role = r]
  BY <1>1, <1>3, <1>5
<1> QED BY <1>4, <1>5

(* A step that keeps all parents and touches one call keeps the invariant. *)
LEMMA CallMoves ==
  ASSUME ChartOK, GateInv, CapInv, NEW w \in Caller, NEW h \in {NoHire} \cup HireCall,
         hire' = [hire EXCEPT ![w] = h],
         org' \in [Agents -> Row], \A a \in Agents : org'[a].parent = org[a].parent,
         h # NoHire => /\ h.target \in Agents \cup {NoParent}
                       /\ h.gated /\ ~h.stale /\ h.at # "profile" => HasRoom(h.target),
         overrun' = overrun
  PROVE  ChartOK' /\ GateInv' /\ CapInv'
<1>1. /\ Agents' = Agents /\ \A a \in Agents' : org'[a].parent < a
      /\ \E n \in 1..MaxAgents : org' \in [0..(n - 1) -> Row]
      /\ \A m : ReportsOf(m)' = ReportsOf(m)
  BY ParentsKept
<1>2. /\ hire' \in [Caller -> {NoHire} \cup HireCall] /\ hire'[w] = h
      /\ \A v \in Caller \ {w} : hire'[v] = hire[v]
  BY DEF ChartOK
<1>3. ChartOK'
  BY <1>1, <1>2 DEF ChartOK
<1>4. GateInv'
  <2> SUFFICES ASSUME NEW v \in Caller, hire'[v] # NoHire, hire'[v].gated, ~hire'[v].stale,
                      hire'[v].at # "profile"
               PROVE  HasRoom(hire[v].target)'
    BY DEF GateInv
  <2>1. HasRoom(hire'[v].target)
    BY <1>2 DEF GateInv
  <2> QED BY <1>1, <2>1 DEF HasRoom
<1>5. CapInv'
  BY <1>1 DEF CapInv
<1> QED BY <1>3, <1>4, <1>5

(* The insert: one report more for its target, and a count made old for the calls
   under the same target. *)
LEMMA InsertKeeps ==
  ASSUME ChartOK, GateInv, CapInv, NEW w \in Caller, InsertAgent(w)
  PROVE  ChartOK' /\ GateInv' /\ CapInv'
<1> DEFINE h == hire[w]
           a == Cardinality(Agents)
<1>1. h # NoHire /\ h \in HireCall /\ h.target \in Agents \cup {NoParent} /\ h.at = "insert"
  BY NoHireIsNone DEF InsertAgent, ChartOK
<1>2. CASE hire' = [hire EXCEPT ![w] = NoHire] /\ UNCHANGED <<org, overrun>>
  <2>1. org' \in [Agents -> Row] /\ \A b \in Agents : org'[b].parent = org[b].parent
    BY <1>2 DEF ChartOK, Agents
  <2> QED BY <1>2, <2>1, CallMoves
<1>3. CASE /\ a < MaxAgents
           /\ org' = [b \in Agents \cup {a} |->
                        IF b = a THEN [name |-> h.name, parent |-> h.target, role |-> h.role]
                        ELSE org[b]]
           /\ hire' = [v \in Caller |->
                         IF v = w THEN [h EXCEPT !.at = "profile", !.id = a]
                         ELSE IF hire[v] # NoHire /\ hire[v].target = h.target
                         THEN [hire[v] EXCEPT !.stale = TRUE] ELSE hire[v]]
           /\ overrun' = IF h.gated /\ ~h.stale THEN overrun ELSE overrun \cup {h.target}
  <2> DEFINE new == [name |-> h.name, parent |-> h.target, role |-> h.role]
  <2>1. a \in 1..MaxAgents /\ Agents = 0..(a - 1) /\ a \notin Agents /\ a \in AgentId
        /\ a + 1 \in 1..MaxAgents
    BY <1>3, SizeOfChart, OrgAssumption DEF AgentId
  <2> HIDE DEF a
  <2>2. new \in Row /\ new.parent = h.target /\ h.target < a
    <3>1. Agents \subseteq AgentId
      BY <2>1, OrgAssumption DEF AgentId
    <3> QED BY <1>1, <2>1, <3>1 DEF HireCall, Row, NoParent
  <2> HIDE DEF new
  <2>3. /\ Agents' = Agents \cup {a} /\ org'[a] = new /\ \A b \in Agents : org'[b] = org[b]
        /\ org' \in [0..((a + 1) - 1) -> Row]
    <3>1. org' = [b \in Agents \cup {a} |-> IF b = a THEN new ELSE org[b]]
      BY <1>3 DEF new
    <3>2. \A b \in Agents : org[b] \in Row
      BY DEF ChartOK, Agents
    <3>3. Agents \cup {a} = 0..((a + 1) - 1)
      BY <2>1
    <3> QED BY <2>1, <2>2, <3>1, <3>2, <3>3 DEF Agents
  <2>4. \A v \in Caller : /\ hire'[v] \in {NoHire} \cup HireCall
                          /\ hire'[v] # NoHire => /\ hire[v] # NoHire
                                                  /\ hire'[v].target = hire[v].target
                                                  /\ hire'[v].gated = hire[v].gated
                          /\ hire'[v] # NoHire /\ hire'[v].at # "profile" /\ ~hire'[v].stale =>
                               hire'[v] = hire[v] /\ hire[v].target # h.target
    <3> TAKE v \in Caller
    <3>1. CASE v = w
      <4>1. hire'[v] = [h EXCEPT !.at = "profile", !.id = a]
        BY <1>3, <3>1
      <4> QED BY <1>1, <2>1, <3>1, <4>1 DEF HireCall
    <3>2. CASE v # w /\ hire[v] # NoHire /\ hire[v].target = h.target
      <4>1. hire'[v] = [hire[v] EXCEPT !.stale = TRUE] /\ hire[v] \in HireCall
        BY <1>3, <3>2 DEF ChartOK
      <4> QED BY <3>2, <4>1 DEF HireCall
    <3>3. CASE v # w /\ ~(hire[v] # NoHire /\ hire[v].target = h.target)
      <4>1. hire'[v] = hire[v]
        BY <1>3, <3>3
      <4> QED BY <3>3, <4>1 DEF ChartOK
    <3> QED BY <3>1, <3>2, <3>3
  <2>5. ChartOK'
    <3>1. \A b \in Agents' : org'[b].parent < b
      BY <2>2, <2>3 DEF ChartOK
    <3>2. hire' \in [Caller -> {NoHire} \cup HireCall]
      BY <1>3, <2>4
    <3>3. \A v \in Caller : hire'[v] # NoHire =>
            hire'[v] \in HireCall /\ hire'[v].target \in Agents' \cup {NoParent}
      BY <2>3, <2>4 DEF ChartOK
    <3> QED BY <2>1, <2>3, <3>1, <3>2, <3>3 DEF ChartOK
  <2>6. \A m : m # h.target => ReportsOf(m)' = ReportsOf(m)
    BY <2>2, <2>3 DEF ReportsOf
  <2>7. ASSUME NEW m, m = h.target
        PROVE  Cardinality(ReportsOf(m)') = Cardinality(ReportsOf(m)) + 1
    <3>1. ReportsOf(m)' = ReportsOf(m) \cup {a}
      BY <2>2, <2>3, <2>7 DEF ReportsOf
    <3>2. a \notin ReportsOf(m)
      BY <2>1 DEF ReportsOf
    <3> QED BY <3>1, <3>2, ReportsAreFinite, FS_AddElement
  <2>8. GateInv'
    <3> SUFFICES ASSUME NEW v \in Caller, hire'[v] # NoHire, hire'[v].gated, ~hire'[v].stale,
                        hire'[v].at # "profile"
                 PROVE  HasRoom(hire[v].target)'
      BY DEF GateInv
    <3>1. HasRoom(hire'[v].target) /\ hire'[v].target # h.target
      BY <2>4 DEF GateInv
    <3> QED BY <2>6, <3>1 DEF HasRoom
  <2>9. CapInv'
    <3> SUFFICES ASSUME NEW m \in AgentId, Cardinality(ReportsOf(m)') > Cap PROVE m \in overrun'
      BY DEF CapInv
    <3>1. CASE m # h.target
      <4>1. m \in overrun
        BY <2>6, <3>1 DEF CapInv
      <4> QED BY <1>3, <4>1
    <3>2. CASE m = h.target /\ h.gated /\ ~h.stale
      <4>1. Cardinality(ReportsOf(m)) < Cap
        BY <1>1, <3>2 DEF GateInv, HasRoom
      <4> QED BY <2>7, <3>2, <4>1, ReportsAreFinite, OrgAssumption
    <3>3. CASE m = h.target /\ ~(h.gated /\ ~h.stale)
      BY <1>3, <3>3
    <3> QED BY <3>1, <3>2, <3>3
  <2> QED BY <2>5, <2>8, <2>9
<1> QED BY <1>2, <1>3 DEF InsertAgent

(* The other steps of a call. *)
LEMMA CallSteps ==
  ASSUME ChartOK, GateInv, CapInv, NEW w \in Caller,
         \/ \E n \in Name, r \in Role :
              \/ \E c, m \in Agents : AskToHire(w, c, m, n, r)
              \/ \E m \in Agents \cup {NoParent} : PostHire(w, m, n, r)
         \/ FindByName(w) \/ StoreProfile(w)
  PROVE  ChartOK' /\ GateInv' /\ CapInv'
<1>0. /\ Agents \subseteq AgentId /\ 0 \in AgentId
      /\ org \in [Agents -> Row]
  BY SizeOfChart, OrgAssumption DEF AgentId, ChartOK, Agents
<1>k. UNCHANGED org => org' \in [Agents -> Row] /\ \A a \in Agents : org'[a].parent = org[a].parent
  BY <1>0
<1>1. ASSUME NEW n \in Name, NEW r \in Role, NEW c \in Agents, NEW m \in Agents,
             AskToHire(w, c, m, n, r)
      PROVE  ChartOK' /\ GateInv' /\ CapInv'
  <2> DEFINE h == NewHire(TRUE, c, m, n, r)
  <2>1. h \in HireCall /\ h.target = m
    BY <1>0 DEF NewHire, HireCall
  <2>2. hire' = [hire EXCEPT ![w] = h] /\ HasRoom(m) /\ UNCHANGED <<org, overrun>>
    BY <1>1 DEF AskToHire
  <2> HIDE DEF h
  <2> QED BY <1>k, <2>1, <2>2, CallMoves
<1>2. ASSUME NEW n \in Name, NEW r \in Role, NEW m \in Agents \cup {NoParent}, PostHire(w, m, n, r)
      PROVE  ChartOK' /\ GateInv' /\ CapInv'
  <2> DEFINE h == NewHire(FALSE, 0, m, n, r)
  <2>1. h \in HireCall /\ h.target = m /\ ~h.gated
    BY <1>0 DEF NewHire, HireCall
  <2>2. hire' = [hire EXCEPT ![w] = h] /\ UNCHANGED <<org, overrun>>
    BY <1>2 DEF PostHire
  <2> HIDE DEF h
  <2> QED BY <1>k, <2>1, <2>2, CallMoves
<1>3. CASE FindByName(w)
  <2>1. hire[w] \in HireCall /\ hire[w] # NoHire /\ hire[w].at = "find"
    BY <1>3, NoHireIsNone DEF FindByName, ChartOK
  <2>2. ASSUME NEW a \in Agents, org' = Refreshed(a, hire[w]), hire' = [hire EXCEPT ![w] = NoHire],
               overrun' = overrun
        PROVE  ChartOK' /\ GateInv' /\ CapInv'
    <3>1. hire[w].name \in Name /\ hire[w].role \in Role
      BY <2>1 DEF HireCall
    <3>2. org' \in [Agents -> Row] /\ \A b \in Agents : org'[b].parent = org[b].parent
      BY <2>2, <3>1, RowEdited DEF Refreshed
    <3> QED BY <2>2, <3>2, CallMoves
  <2>3. ASSUME hire' = [hire EXCEPT ![w].at = "insert"], UNCHANGED <<org, overrun>>
        PROVE  ChartOK' /\ GateInv' /\ CapInv'
    <3> DEFINE h == [hire[w] EXCEPT !.at = "insert"]
    <3>1. /\ h \in HireCall /\ h.target = hire[w].target /\ h.gated = hire[w].gated
          /\ h.stale = hire[w].stale
      BY <2>1 DEF HireCall
    <3>2. hire' = [hire EXCEPT ![w] = h]
      BY <2>3 DEF ChartOK
    <3> HIDE DEF h
    <3>3. h.target \in Agents \cup {NoParent}
      BY <2>1, <3>1 DEF ChartOK
    <3>4. h.gated /\ ~h.stale => HasRoom(h.target)
      BY <2>1, <3>1 DEF GateInv
    <3> QED BY <1>k, <2>3, <3>1, <3>2, <3>3, <3>4, CallMoves
  <2> QED BY <1>3, <2>2, <2>3 DEF FindByName
<1>4. CASE StoreProfile(w)
  <2>1. hire' = [hire EXCEPT ![w] = NoHire] /\ UNCHANGED <<org, overrun>>
    BY <1>4 DEF StoreProfile
  <2> QED BY <1>k, <2>1, CallMoves
<1> QED BY <1>1, <1>2, <1>3, <1>4

(* An edit moves nobody. *)
LEMMA EditSteps ==
  ASSUME ChartOK, GateInv, CapInv, NEW a \in Agents, NEW r \in Role, NEW n \in Name,
         EditIdentity(a, r) \/ EditManifest(a, n, r)
  PROVE  ChartOK' /\ GateInv' /\ CapInv'
<1>1. hire' = hire /\ overrun' = overrun
  BY DEF EditIdentity, EditManifest
<1>2. org' \in [Agents -> Row] /\ \A b \in Agents : org'[b].parent = org[b].parent
  BY RowEdited DEF EditIdentity, EditManifest
<1>3. /\ Agents' = Agents /\ \A b \in Agents' : org'[b].parent < b
      /\ \E k \in 1..MaxAgents : org' \in [0..(k - 1) -> Row]
      /\ \A m : ReportsOf(m)' = ReportsOf(m)
  BY <1>2, ParentsKept
<1> QED BY <1>1, <1>3 DEF ChartOK, GateInv, CapInv, HasRoom

(* The inductive invariant of the chart. *)
THEOREM ChartInductive == OrgSpec => [](ChartOK /\ GateInv /\ CapInv)
<1>1. ChartOK /\ GateInv /\ CapInv /\ [OrgNext]_orgVars => ChartOK' /\ GateInv' /\ CapInv'
  <2> SUFFICES ASSUME ChartOK, GateInv, CapInv, [OrgNext]_orgVars PROVE ChartOK' /\ GateInv' /\ CapInv'
    OBVIOUS
  <2>1. CASE UNCHANGED orgVars
    BY <2>1 DEF orgVars, ChartOK, GateInv, CapInv, HasRoom, ReportsOf, Agents
  <2>2. CASE OrgNext
    <3>1. ASSUME NEW a \in Agents, NEW r \in Role, EditIdentity(a, r)
          PROVE  ChartOK' /\ GateInv' /\ CapInv'
      <4>1. PICK n : n \in Name
        BY OrgAssumption
      <4> QED BY <3>1, <4>1, EditSteps
    <3> QED BY <2>2, <3>1, InsertKeeps, CallSteps, EditSteps DEF OrgNext
  <2> QED BY <2>1, <2>2
<1> QED BY <1>1, ChartInitial, PTL DEF OrgSpec

(* A manager over the cap was given a report past the gate. *)
THEOREM CapHolds == OrgSpec => []CapBrokenOnlyByOverlap
<1>1. ChartOK /\ CapInv => CapBrokenOnlyByOverlap
  <2> SUFFICES ASSUME ChartOK, CapInv PROVE CapBrokenOnlyByOverlap
    OBVIOUS
  <2>1. Agents \subseteq AgentId
    BY SizeOfChart, OrgAssumption DEF AgentId
  <2> QED BY <2>1 DEF CapInv, CapBrokenOnlyByOverlap
<1> QED BY <1>1, ChartInductive, PTL

(* Whoever reports to an agent came after it. *)
ReportsComeLater == \A a \in Agents : org[a].parent < a

(* No hire, refreshed hire or edit closes a cycle: a walk up the reporting lines
   goes to ever older agents, which is why it ends at a root. *)
THEOREM ReportsAreYounger == OrgSpec => []ReportsComeLater
<1>1. ChartOK => ReportsComeLater
  BY DEF ChartOK, ReportsComeLater
<1> QED BY <1>1, ChartInductive, PTL

(* The walk of is_ancestor_of, round by round: what its recursion says. *)
LEMMA WalkUp ==
  ASSUME ChartOK, NEW a \in Agents
  PROVE  \E u \in [0..MaxAgents -> SUBSET Agents] :
           /\ Above(a) = u[MaxAgents] /\ u[0] = {a}
           /\ \A i \in 1..MaxAgents :
                u[i] = u[i - 1] \cup ({org[b].parent : b \in u[i - 1]} \ {NoParent})
<1> DEFINE Up(s) == s \cup ({org[b].parent : b \in s} \ {NoParent})
           F == [s \in SUBSET Agents |-> Up(s)]
           Body(u) == [i \in 0..MaxAgents |-> IF i = 0 THEN {a} ELSE Up(u[i - 1])]
           w == CHOOSE u : u = Body(u)
<1>1. \A b \in Agents : org[b].parent \in Agents \cup {NoParent}
  <2>1. PICK n \in 1..MaxAgents : org \in [0..(n - 1) -> Row]
    BY DEF ChartOK
  <2> SUFFICES ASSUME NEW b \in Agents PROVE org[b].parent \in Agents \cup {NoParent}
    OBVIOUS
  <2>2. Agents = 0..(n - 1) /\ n \in Nat
    BY <2>1, OrgAssumption DEF Agents
  <2>3. org[b].parent \in AgentId \cup {NoParent} /\ org[b].parent < b
    BY <2>1, <2>2 DEF ChartOK, Row
  <2> QED BY <2>2, <2>3, OrgAssumption DEF AgentId
<1>2. F \in [SUBSET Agents -> SUBSET Agents]
  BY <1>1
<1>3. {a} \in SUBSET Agents /\ MaxAgents \in Nat
  BY OrgAssumption
<1>4. PICK g \in [0..MaxAgents -> SUBSET Agents] :
        g[0] = {a} /\ \A i \in 1..MaxAgents : g[i] = F[g[i - 1]]
  <2> DEFINE X == SUBSET Agents
             x == {a}
           Fs == [i \in 1..MaxAgents |-> F]
  <2>1. F \in [X -> X] /\ x \in X /\ MaxAgents \in Nat
    BY <1>2, <1>3
  <2> HIDE DEF F, X, x
  <2>3. \A i \in 1..MaxAgents : Fs[i] = F
    BY <2>1
  <2>4. Fs \in [1..MaxAgents -> [X -> X]]
    BY <2>1
  <2> HIDE DEF Fs
  <2>2. \E g \in [0..MaxAgents -> X] : g[0] = x /\ \A i \in 1..MaxAgents : g[i] = F[g[i - 1]]
    <3>1. PICK g : Iterated(g, MaxAgents, X, x, Fs)
      BY <2>1, <2>4, Iterates
    <3> QED BY <2>3, <3>1 DEF Iterated
  <2> QED BY <2>2 DEF X, x
<1>5. \A i \in 1..MaxAgents : g[i - 1] \in SUBSET Agents /\ g[i] = Up(g[i - 1])
  <2>1. \A s \in SUBSET Agents : F[s] = Up(s)
    BY DEF F
  <2>2. ASSUME NEW i \in 1..MaxAgents PROVE g[i - 1] \in SUBSET Agents /\ g[i] = F[g[i - 1]]
    <3>1. i - 1 \in 0..MaxAgents
      BY <1>3
    <3> HIDE DEF F
    <3> QED BY <3>1, <1>4
  <2> HIDE DEF F, Up
  <2> QED BY <2>1, <2>2
<1>6. g = Body(g)
  <2>1. \A i \in 0..MaxAgents : g[i] = IF i = 0 THEN {a} ELSE Up(g[i - 1])
    <3> HIDE DEF Up
    <3> QED BY <1>3, <1>4, <1>5
  <2> HIDE DEF Up
  <2> QED BY <1>4, <2>1
<1>7. w = Body(w)
  <2> HIDE DEF Body
  <2> QED BY <1>6
<1>8. Above(a) = w[MaxAgents]
  BY DEF Above
<1>9. w[0] = {a} /\ \A i \in 1..MaxAgents : w[i] = Up(w[i - 1])
  <2> HIDE DEF w
  <2>1. w = [i \in 0..MaxAgents |-> IF i = 0 THEN {a} ELSE Up(w[i - 1])]
    BY <1>7
  <2> HIDE DEF Up
  <2>2. 0 \in 0..MaxAgents /\ \A i \in 1..MaxAgents : i \in 0..MaxAgents /\ i # 0
    BY <1>3
  <2>3. \A i \in 0..MaxAgents : w[i] = IF i = 0 THEN {a} ELSE Up(w[i - 1])
    BY <2>1
  <2> QED BY <2>2, <2>3
<1>10. w \in [0..MaxAgents -> SUBSET Agents]
  <2> DEFINE Bad == {i \in 0..MaxAgents : ~ (w[i] \subseteq Agents)}
  <2>1. Bad = {}
    <3> SUFFICES ASSUME Bad # {} PROVE FALSE
      OBVIOUS
    <3>1. PICK k \in Bad : \A m \in Bad : k <= m
      <4>1. Bad \in SUBSET Nat
        OBVIOUS
      <4> HIDE DEF Bad
      <4> QED BY <4>1, LeastNumber
    <3> HIDE DEF w, Up
    <3>2. k \in 1..MaxAgents /\ k - 1 \in 0..MaxAgents /\ ~ (k <= k - 1)
      BY <3>1, <1>9, <1>3
    <3>3. w[k - 1] \subseteq Agents
      BY <3>1, <3>2
    <3>4. w[k] = Up(w[k - 1])
      BY <3>2, <1>9
    <3>5. Up(w[k - 1]) \subseteq Agents
      BY <3>3, <1>1 DEF Up
    <3> QED BY <3>1, <3>4, <3>5
  <2>2. w = [i \in 0..MaxAgents |-> w[i]]
    <3> HIDE DEF w, Up
    <3> QED BY <1>7
  <2> HIDE DEF w
  <2> QED BY <2>1, <2>2
<1> HIDE DEF w
<1> QED BY <1>8, <1>9, <1>10

(* However the rows were made and changed, the walk up from any agent, in no more
   steps than there are agents, comes to one that reports to nobody. *)
THEOREM WalksEnd == OrgSpec => []WalkEndsAtARoot
<1>1. ChartOK => WalkEndsAtARoot
  <2> SUFFICES ASSUME ChartOK, NEW a \in Agents
               PROVE  \E b \in Above(a) : org[b].parent = NoParent
    BY DEF WalkEndsAtARoot
  <2>1. PICK u \in [0..MaxAgents -> SUBSET Agents] :
           /\ Above(a) = u[MaxAgents] /\ u[0] = {a}
           /\ \A i \in 1..MaxAgents :
                u[i] = u[i - 1] \cup ({org[b].parent : b \in u[i - 1]} \ {NoParent})
    BY WalkUp
  <2> DEFINE Root(i) == \E b \in u[i] : org[b].parent = NoParent
             Bad == {i \in 0..MaxAgents : ~ Root(i) /\ \A b \in u[i] : b > a - i}
  <2>2. Agents \subseteq Int /\ MaxAgents \in Nat /\ a \in 0..(MaxAgents - 1)
        /\ \A b \in Agents : b \in Nat /\ org[b].parent \in Int /\ org[b].parent < b
    <3>1. PICK n \in 1..MaxAgents : org \in [0..(n - 1) -> Row]
      BY DEF ChartOK
    <3>2. Agents = 0..(n - 1) /\ n \in Nat
      BY <3>1, OrgAssumption DEF Agents
    <3>3. \A b \in Agents : org[b].parent \in AgentId \cup {NoParent} /\ org[b].parent < b
      BY <3>1, <3>2 DEF ChartOK, Row
    <3> QED BY <3>2, <3>3, OrgAssumption DEF AgentId, NoParent
  <2>3. Bad = {}
    <3> SUFFICES ASSUME Bad # {} PROVE FALSE
      OBVIOUS
    <3>1. PICK k \in Bad : \A m \in Bad : k <= m
      <4>1. Bad \in SUBSET Nat
        OBVIOUS
      <4> HIDE DEF Bad
      <4> QED BY <4>1, LeastNumber
    <3>2. k \in 1..MaxAgents /\ k - 1 \in 0..MaxAgents /\ ~ (k <= k - 1)
      BY <3>1, <2>1, <2>2
    <3>3. ~ Root(k) /\ \A b \in u[k] : b > a - k
      BY <3>1
    <3>4. u[k] = u[k - 1] \cup ({org[b].parent : b \in u[k - 1]} \ {NoParent})
      BY <3>2, <2>1
    <3>5. ~ Root(k - 1)
      BY <3>3, <3>4
    <3>6. PICK b \in u[k - 1] : ~ (b > a - (k - 1))
      BY <3>1, <3>2, <3>5
    <3>7. b \in Agents /\ org[b].parent \in u[k]
      BY <3>2, <3>4, <3>5, <3>6, <2>1
    <3>8. org[b].parent \in Int /\ org[b].parent < b /\ b \in Nat
      BY <3>7, <2>2
    <3>9. org[b].parent > a - k
      BY <3>3, <3>7
    <3> HIDE DEF Bad, Root
    <3> QED BY <3>2, <3>6, <3>8, <3>9, <2>2
  <2>4. ~ Root(MaxAgents) => \E b \in u[MaxAgents] : ~ (b > a - MaxAgents)
    BY <2>3, <2>2
  <2>5. \A b \in u[MaxAgents] : b \in Nat
    BY <2>1, <2>2
  <2>6. Root(MaxAgents)
    <3> HIDE DEF Bad, Root
    <3> QED BY <2>4, <2>5, <2>2
  <2> QED BY <2>1, <2>6
<1> QED BY <1>1, ChartInductive, PTL

-----------------------------------------------------------------------------
\* What ChartOK leaves open: profiles and counters.
OrgRest ==
  /\ profile \in [AgentId -> Class \cup {None}]
  /\ calls \in 0..MaxCalls /\ agentEdits \in 0..MaxAgentEdits
  /\ overrun \subseteq AgentId \cup {NoParent}

(* Whatever a row holds, the class read from it is one. *)
LEMMA Classes == \A a : ClassOf(a) \in Class
BY DEF ClassOf, Class

(* Every step leaves profiles and counters typed. *)
LEMMA OrgRestKept == ChartOK /\ OrgRest /\ [OrgNext]_orgVars => OrgRest'
<1> SUFFICES ASSUME ChartOK, OrgRest, [OrgNext]_orgVars PROVE OrgRest'
  OBVIOUS
<1>0. Agents \subseteq AgentId
  BY SizeOfChart, OrgAssumption DEF AgentId
<1>1. ASSUME NEW w \in Caller, NEW c \in Agents, NEW m \in Agents, NEW n \in Name, NEW r \in Role,
             AskToHire(w, c, m, n, r)
      PROVE  OrgRest'
  <2>1. \A a \in AgentId : ProfileOf(a) \in Class
    BY Classes DEF ProfileOf, OrgRest
  <2>2. profile' \in [AgentId -> Class \cup {None}]
    BY <1>1, <2>1 DEF AskToHire, OrgRest
  <2>3. calls' \in 0..MaxCalls
    BY <1>1, OrgAssumption DEF AskToHire, OrgRest
  <2> QED BY <1>1, <2>2, <2>3 DEF AskToHire, OrgRest
<1>2. ASSUME NEW w \in Caller, NEW m \in Agents \cup {NoParent}, NEW n \in Name, NEW r \in Role,
             PostHire(w, m, n, r)
      PROVE  OrgRest'
  BY <1>2, OrgAssumption DEF PostHire, OrgRest
<1>3. ASSUME NEW w \in Caller, FindByName(w) PROVE OrgRest'
  BY <1>3 DEF FindByName, OrgRest
<1>4. ASSUME NEW w \in Caller, InsertAgent(w) PROVE OrgRest'
  <2>1. hire[w] \in HireCall
    BY <1>4, NoHireIsNone DEF InsertAgent, ChartOK
  <2>2. overrun' \subseteq overrun \cup {hire[w].target} /\ hire[w].target \in AgentId \cup {NoParent}
    BY <1>4, <2>1 DEF InsertAgent, HireCall
  <2> QED BY <1>4, <2>2 DEF InsertAgent, OrgRest
<1>5. ASSUME NEW w \in Caller, StoreProfile(w) PROVE OrgRest'
  <2>1. profile' \in [AgentId -> Class \cup {None}]
    BY <1>5, Classes DEF StoreProfile, OrgRest
  <2> QED BY <1>5, <2>1 DEF StoreProfile, OrgRest
<1>6. ASSUME NEW a \in Agents, NEW r \in Role,
             EditIdentity(a, r) \/ \E n \in Name : EditManifest(a, n, r)
      PROVE  OrgRest'
  <2>1. agentEdits < MaxAgentEdits /\ agentEdits' = agentEdits + 1 /\ UNCHANGED <<profile, calls, overrun>>
    BY <1>6 DEF EditIdentity, EditManifest
  <2> QED BY <2>1, OrgAssumption DEF OrgRest
<1>7. CASE UNCHANGED orgVars
  BY <1>7 DEF orgVars, OrgRest
<1> QED BY <1>1, <1>2, <1>3, <1>4, <1>5, <1>6, <1>7 DEF OrgNext

(* Type correctness of hiring: rows, profiles and calls. *)
THEOREM OrgTypesHold == OrgSpec => []OrgTypeOK
<1>1. OrgInit => OrgRest
  <2> SUFFICES ASSUME OrgInit PROVE OrgRest
    OBVIOUS
  <2>1. profile \in [AgentId -> Class \cup {None}]
    BY Classes DEF OrgInit
  <2> QED BY <2>1, OrgAssumption DEF OrgInit, OrgRest
<1>2. ChartOK /\ OrgRest => OrgTypeOK
  <2> SUFFICES ASSUME ChartOK, OrgRest PROVE OrgTypeOK
    OBVIOUS
  <2>1. Agents \subseteq AgentId /\ \A a \in Agents : org[a] \in Row
    BY SizeOfChart, OrgAssumption DEF AgentId, ChartOK, Agents
  <2> QED BY <2>1 DEF ChartOK, OrgRest, OrgTypeOK
<1> QED BY <1>1, <1>2, OrgRestKept, ChartInductive, PTL DEF OrgSpec
=============================================================================
