-------------------------- MODULE RuntimeBusProofs --------------------------
(***************************************************************************)
(* Theorems about the runtime bus: its types; that a replay returns what   *)
(* was emitted before it, and what is heard twice was in flight; and that  *)
(* the desktop shows a row as it is when its work order is over.           *)
(***************************************************************************)
EXTENDS RuntimeBus, FiniteSetTheorems, Recursion, TLAPS

(* The four publishers of a row. *)
LEMMA Publishers ==
  ASSUME NEW s \in Swo
  PROVE  /\ Handler(s) \in Publisher /\ Relay(s) \in Publisher /\ Task(s) \in Publisher
         /\ Command(s) \in Publisher
BY DEF Handler, Relay, Task, Command, Publisher

(* A publisher that moves to a well-formed stage keeps the publishers' types. *)
LEMMA PublishOK ==
  ASSUME PubOK, NEW p \in Publisher, NEW s \in Swo \cup {NoSwo},
         NEW stage \in PubStage, NEW v \in Nat, NEW c \in Nat,
         stage = "due" => s \in Swo,
         stage \in {"drawn", "logged"} => c \in DOMAIN signals',
         DOMAIN signals \subseteq DOMAIN signals',
         pub' = [pub EXCEPT ![p] = Stands(stage, s, v, c)]
  PROVE  PubOK'
BY DEF PubOK, Stands

(* A publisher that takes up something to say keeps them too. *)
LEMMA AboutOK ==
  ASSUME PubOK, NEW p \in Publisher, NEW s \in Swo,
         Publish(p, About(s)) \/ Publish(p, Chatter), UNCHANGED signals
  PROVE  PubOK'
<1>1. CASE Publish(p, About(s))
  BY <1>1, PublishOK DEF Publish, About, PubStage
<1>2. CASE Publish(p, Chatter)
  BY <1>2, PublishOK DEF Publish, Chatter, PubStage
<1> QED BY <1>1, <1>2

(* The types hold initially: before any work order, with an empty bus. *)
THEOREM TypeInit == Init => TypeOK
<1> SUFFICES ASSUME Init PROVE TypeOK
  OBVIOUS
<1>1. KernelOK
  BY BusAssumption DEF Init, KernelOK, LoopStage
<1>2. PubOK
  BY DEF Init, PubOK, PubStage, Idle, Stands
<1>3. BusOK
  BY DEF Init, BusOK
<1>4. DesktopOK
  <2>1. Unbooted \in Bootstrap
    BY DEF Unbooted, Bootstrap
  <2>2. Cardinality({}) = 0
    BY FS_EmptySet
  <2> QED BY <2>1, <2>2, BusAssumption DEF Init, DesktopOK, TryStage, Try, NoTry
<1> QED BY <1>1, <1>2, <1>3, <1>4 DEF TypeOK

(* Steps that leave the desktop alone. *)
LEMMA DesktopKept ==
  ASSUME DesktopOK, UNCHANGED desktopVars, DOMAIN signals \subseteq DOMAIN signals'
  PROVE  DesktopOK'
BY DEF DesktopOK, desktopVars

(* Steps that leave the kernel alone. *)
LEMMA KernelKept ==
  ASSUME KernelOK, UNCHANGED kernelVars
  PROVE  KernelOK'
BY DEF KernelOK, kernelVars

(* Steps that draw, append and emit nothing. *)
LEMMA BusKept ==
  ASSUME BusOK, UNCHANGED <<signals, log, emitted>>
  PROVE  BusOK'
BY DEF BusOK

(* Every step of commands, loops, publishers and the desktop keeps the types. *)
THEOREM TypeStep == TypeOK /\ [Next]_vars => TypeOK'
<1> SUFFICES ASSUME TypeOK, [Next]_vars PROVE TypeOK'
  OBVIOUS
<1> USE DEF TypeOK
<1>1. ASSUME NEW s \in Swo, Submit(s) PROVE TypeOK'
  <2>1. KernelOK'
    BY <1>1 DEF Submit, Write, KernelOK, LoopStage
  <2> QED BY <1>1, <2>1, Publishers, AboutOK, BusKept, DesktopKept DEF Submit
<1>2. ASSUME NEW s \in Swo, Cancel(s) \/ Decide(s) PROVE TypeOK'
  <2>1. KernelOK'
    BY <1>2 DEF Cancel, Decide, OtherWrites, Other, Write, Beside, KernelOK
  <2> QED BY <1>2, <2>1, Publishers, AboutOK, BusKept, DesktopKept DEF Cancel, Decide
<1>18. ASSUME NEW s \in Swo, Revise(s) PROVE TypeOK'
  <2>1. KernelOK'
    BY <1>18 DEF Revise, OtherWrites, Other, Write, Beside, KernelOK, LoopStage
  <2> QED BY <1>18, <2>1, Publishers, AboutOK, BusKept, DesktopKept DEF Revise
<1>19. ASSUME NEW s \in Swo, WritesUnpublished(s) PROVE TypeOK'
  <2>1. KernelOK'
    BY <1>19 DEF WritesUnpublished, OtherWrites, Other, Write, KernelOK
  <2> QED BY <1>19, <2>1, DesktopKept DEF WritesUnpublished, busVars, BusOK, PubOK
<1>20. ASSUME NEW p \in Publisher, ReadFails(p) PROVE TypeOK'
  <2>1. pub[p].swo \in Swo
    BY <1>20 DEF ReadFails, PubOK
  <2>2. KernelOK'
    <3>1. loop' \in [Swo -> LoopStage]
      BY <1>20 DEF ReadFails, Starts, KernelOK, LoopStage
    <3>2. others' \in Nat /\ dropped' \subseteq Swo
      BY <1>20, <2>1 DEF ReadFails, Other, KernelOK
    <3> QED BY <1>20, <3>1, <3>2 DEF ReadFails, KernelOK
  <2>3. PubOK'
    BY <1>20, PublishOK DEF ReadFails, Idle, PubStage
  <2> QED BY <1>20, <2>2, <2>3, BusKept, DesktopKept DEF ReadFails
<1>3. ASSUME NEW s \in Swo, LoopWrites(s) PROVE TypeOK'
  <2>1. /\ chan' \in [Swo -> Seq({"status", "chatter"})]
        /\ \A t \in Swo : Len(chan'[t]) <= ChanCap
    <3>1. CASE Full(s)
      BY <1>3, <3>1 DEF LoopWrites, TrySend, KernelOK
    <3>2. CASE ~Full(s)
      <4>1. chan' = Sent(s, "status")
        BY <1>3, <3>2 DEF LoopWrites, TrySend
      <4> QED BY <4>1, <3>2, BusAssumption DEF Sent, Full, KernelOK
    <3> QED BY <3>1, <3>2
  <2>2. KernelOK'
    <3>1. version' \in [Swo -> Nat]
      BY <1>3 DEF LoopWrites, Write, KernelOK
    <3>e. events' \in [Swo -> Nat]
      BY <1>3 DEF LoopWrites, LoopEvent, KernelOK
    <3>2. dropped' \subseteq Swo
      <4>1. dropped' = dropped \/ dropped' = dropped \cup {s}
        BY <1>3 DEF LoopWrites, TrySend
      <4> QED BY <4>1 DEF KernelOK
    <3> QED BY <1>3, <2>1, <3>1, <3>2, <3>e DEF LoopWrites, KernelOK
  <2> QED BY <1>3, <2>2, DesktopKept DEF LoopWrites, busVars, BusOK, PubOK
<1>4. ASSUME NEW s \in Swo, LoopChatters(s) PROVE TypeOK'
  <2>1. /\ chan' \in [Swo -> Seq({"status", "chatter"})]
        /\ \A t \in Swo : Len(chan'[t]) <= ChanCap
    BY <1>4, BusAssumption DEF LoopChatters, Full, Sent, KernelOK
  <2>2. KernelOK'
    BY <1>4, <2>1 DEF LoopChatters, LoopEvent, KernelOK
  <2> QED BY <1>4, <2>2, DesktopKept DEF LoopChatters, busVars, BusOK, PubOK
<1>5. ASSUME NEW s \in Swo, LoopReturns(s) PROVE TypeOK'
  <2>1. KernelOK'
    BY <1>5 DEF LoopReturns, KernelOK, LoopStage
  <2> QED BY <1>5, <2>1, Publishers, AboutOK, BusKept, DesktopKept DEF LoopReturns
<1>6. ASSUME NEW s \in Swo, LoopFails(s) PROVE TypeOK'
  <2>1. KernelOK'
    BY <1>6 DEF LoopFails, KernelOK, LoopStage
  <2> QED BY <1>6, <2>1, Publishers, AboutOK, BusKept, DesktopKept DEF LoopFails
<1>7. ASSUME NEW s \in Swo, RelayReceives(s) PROVE TypeOK'
  <2>1. /\ chan' \in [Swo -> Seq({"status", "chatter"})]
        /\ \A t \in Swo : Len(chan'[t]) <= ChanCap
    BY <1>7, BusAssumption DEF RelayReceives, KernelOK
  <2>2. KernelOK'
    BY <1>7, <2>1 DEF RelayReceives, KernelOK
  <2>3. Publish(Relay(s), About(s)) \/ Publish(Relay(s), Chatter)
    BY <1>7 DEF RelayReceives
  <2> QED BY <1>7, <2>2, <2>3, Publishers, AboutOK, BusKept, DesktopKept DEF RelayReceives
<1>8. ASSUME NEW p \in Publisher, ReadRow(p) PROVE TypeOK'
  <2>1. pub[p].swo \in Swo /\ version[pub[p].swo] \in Nat
    BY <1>8 DEF ReadRow, PubOK, KernelOK
  <2>2. PubOK'
    BY <1>8, <2>1, PublishOK DEF ReadRow, PubStage
  <2> QED BY <1>8, <2>2, KernelKept, BusKept, DesktopKept DEF ReadRow
<1>9. ASSUME NEW p \in Publisher, DrawCursor(p) PROVE TypeOK'
  <2>1. /\ pub[p].swo \in Swo \cup {NoSwo} /\ pub[p].version \in Nat
    BY DEF PubOK
  <2>2. /\ signals' \in Seq(Signal) /\ DOMAIN signals \subseteq DOMAIN signals'
        /\ Len(signals) + 1 \in DOMAIN signals' /\ Len(signals) + 1 \in Nat
    BY <1>9, <2>1 DEF DrawCursor, BusOK, Signal
  <2>3. BusOK'
    BY <1>9, <2>2 DEF DrawCursor, BusOK
  <2>4. PubOK'
    BY <1>9, <2>1, <2>2, PublishOK DEF DrawCursor, PubStage
  <2> QED BY <1>9, <2>2, <2>3, <2>4, KernelKept, DesktopKept DEF DrawCursor
<1>10. ASSUME NEW p \in Publisher, Remember(p) PROVE TypeOK'
  <2>1. /\ pub[p].swo \in Swo \cup {NoSwo} /\ pub[p].version \in Nat
        /\ pub[p].cursor \in Nat /\ pub[p].cursor \in DOMAIN signals
    BY <1>10 DEF Remember, PubOK
  <2>2. BusOK'
    BY <1>10, <2>1 DEF Remember, BusOK
  <2>3. PubOK'
    BY <1>10, <2>1, PublishOK DEF Remember, PubStage
  <2> QED BY <1>10, <2>2, <2>3, KernelKept, DesktopKept DEF Remember
<1>11. ASSUME NEW p \in Publisher, Emit(p) PROVE TypeOK'
  <2> DEFINE c == pub[p].cursor
  <2>1. c \in DOMAIN signals
    BY <1>11 DEF Emit, PubOK
  <2>2. KernelOK'
    BY <1>11 DEF Emit, Starts, KernelOK, LoopStage
  <2>3. PubOK'
    <3>1. CASE After(p) = Idle
      BY <1>11, <3>1, PublishOK DEF Emit, Idle, PubStage
    <3>2. CASE After(p) = About(p[2])
      <4>1. p[2] \in Swo
        BY DEF Publisher
      <4> QED BY <1>11, <3>2, <4>1, PublishOK DEF Emit, About, PubStage
    <3> QED BY <3>1, <3>2 DEF After
  <2>4. BusOK'
    BY <1>11, <2>1 DEF Emit, BusOK
  <2>5. view' \in [Swo -> Nat]
    <3>1. signals[c].swo \in Swo \cup {NoSwo} /\ signals[c].version \in Nat
      <4>1. signals[c] \in Signal
        <5> HIDE DEF c
        <5> QED BY <2>1 DEF BusOK
      <4> QED BY <4>1 DEF Signal
    <3>2. Shown(c, view) \in [Swo -> Nat]
      BY <3>1 DEF Shown, DesktopOK
    <3> QED BY <1>11, <3>2 DEF Emit, DesktopOK
  <2>6. heard' \subseteq DOMAIN signals /\ heardTwice' \subseteq heard'
    BY <1>11, <2>1 DEF Emit, DesktopOK
  <2>7. DesktopOK'
    BY <1>11, <2>5, <2>6 DEF Emit, DesktopOK
  <2> QED BY <2>2, <2>3, <2>4, <2>7
<1>12. ASSUME NEW i \in Try, ReadsRows(i) PROVE TypeOK'
  <2>1. [rows |-> version, since |-> Len(signals), cursor |-> 0] \in Bootstrap
    BY DEF Bootstrap, KernelOK, BusOK
  <2>2. DesktopOK'
    BY <1>12, <2>1 DEF ReadsRows, DesktopOK, busVars, TryStage
  <2> QED BY <1>12, <2>2, KernelKept, BusKept DEF ReadsRows, busVars, PubOK
<1>13. ASSUME NEW i \in Try, Boots(i) PROVE TypeOK'
  <2> DEFINE boot == [rows |-> try[i].boot.rows, since |-> try[i].boot.since,
                      cursor |-> Len(signals)]
  <2>1. boot \in Bootstrap
    BY DEF Bootstrap, DesktopOK, BusOK
  <2>2. view' \in [Swo -> Nat]
    BY <1>13, <2>1 DEF Boots, Hydrates, Hydrated, Bootstrap, DesktopOK
  <2>3. cached' \subseteq Bootstrap /\ Cardinality(cached') <= 1
    <3>1. cached' = {boot}
      BY <1>13 DEF Boots
    <3> HIDE DEF boot
    <3>2. Cardinality({boot}) = 1
      BY FS_Singleton
    <3> QED BY <3>1, <3>2, <2>1
  <2>4. DesktopOK'
    BY <1>13, <2>1, <2>2, <2>3 DEF Boots, Hydrates, DesktopOK, busVars, TryStage
  <2> QED BY <1>13, <2>4, KernelKept, BusKept DEF Boots, Hydrates, busVars, PubOK
<1>14. ASSUME NEW i \in Try, BootFails(i) PROVE TypeOK'
  <2>1. try[i].boot \in Bootstrap
    BY DEF DesktopOK
  <2>2. DesktopOK'
    BY <1>14, <2>1 DEF BootFails, Goto, DesktopOK, busVars, TryStage
  <2> QED BY <1>14, <2>2, KernelKept, BusKept DEF BootFails, busVars, PubOK
<1>15. ASSUME NEW i \in Try, Replays(i) PROVE TypeOK'
  <2> DEFINE replay == Replay(try[i].boot.cursor)
  <2>1. replay \subseteq DOMAIN log /\ \A k \in replay : log[k] \in DOMAIN signals
    BY DEF Replay, Retained, BusOK
  <2>2. heard' \subseteq DOMAIN signals /\ heardTwice' \subseteq heard'
    BY <1>15, <2>1 DEF Replays, DesktopOK
  <2>3. ShownAll(replay) \in [Swo -> Nat]
    <3> SUFFICES ASSUME NEW s \in Swo PROVE ShownAll(replay)[s] \in Nat
      BY DEF ShownAll
    <3> DEFINE about == {k \in replay : signals[log[k]].swo = s}
    <3>1. CASE about = {}
      BY <3>1 DEF ShownAll, DesktopOK
    <3>2. CASE about # {}
      <4> DEFINE last == CHOOSE k \in about : \A m \in about : m <= k
      <4>1. Len(log) \in Nat /\ about \in SUBSET (1 .. Len(log))
        BY <2>1 DEF BusOK
      <4>2. \E k \in about : \A m \in about : m <= k
        <5> HIDE DEF about
        <5> QED BY <4>1, <3>2, Greatest
      <4>3. last \in about
        <5> HIDE DEF about
        <5> QED BY <4>2
      <4>4. log[last] \in DOMAIN signals
        <5> HIDE DEF last, replay
        <5> QED BY <4>3, <2>1
      <4>5. signals[log[last]] \in Signal
        <5> HIDE DEF last
        <5> QED BY <4>4 DEF BusOK
      <4>6. ShownAll(replay)[s] = signals[log[last]].version
        BY <3>2 DEF ShownAll
      <4> QED BY <4>5, <4>6 DEF Signal
    <3> QED BY <3>1, <3>2
  <2>4. view' \in [Swo -> Nat]
    BY <1>15, <2>3 DEF Replays, DesktopOK
  <2>5. atReplay' \in [Try -> [emitted : SUBSET Nat, log : Seq(Nat)]]
    <3>1. DOMAIN signals \subseteq Nat
      BY DEF BusOK
    <3>2. emitted \in SUBSET Nat /\ log \in Seq(Nat)
      BY <3>1 DEF BusOK
    <3>3. [emitted |-> emitted, log |-> log] \in [emitted : SUBSET Nat, log : Seq(Nat)]
      BY <3>2
    <3> QED BY <1>15, <3>3 DEF Replays, DesktopOK
  <2>6. try[i].boot \in Bootstrap
    BY DEF DesktopOK
  <2>7. DesktopOK'
    BY <1>15, <2>2, <2>4, <2>5, <2>6 DEF Replays, Goto, DesktopOK, busVars, TryStage
  <2> QED BY <1>15, <2>7, KernelKept, BusKept DEF Replays, busVars, PubOK
<1>16. ASSUME NEW i \in Try, Listens(i) PROVE TypeOK'
  <2>1. try[i].boot \in Bootstrap
    BY DEF DesktopOK
  <2>2. DesktopOK'
    BY <1>16, <2>1 DEF Listens, Goto, DesktopOK, busVars, TryStage
  <2> QED BY <1>16, <2>2, KernelKept, BusKept DEF Listens, busVars, PubOK
<1>17. ASSUME UNCHANGED vars PROVE TypeOK'
  BY <1>17, KernelKept, BusKept, DesktopKept DEF vars, busVars, PubOK
<1> QED
  BY <1>1, <1>2, <1>3, <1>4, <1>5, <1>6, <1>7, <1>8, <1>9, <1>10, <1>11, <1>12,
     <1>13, <1>14, <1>15, <1>16, <1>17, <1>18, <1>19, <1>20 DEF Next

(* The types of the bus and of the desktop hold in every reachable state: a
   publisher holds a cursor that was drawn, the log holds such cursors only, a
   channel never holds more events than its capacity. *)
THEOREM TypeCorrect == Spec => []TypeOK
BY TypeInit, TypeStep, PTL DEF Spec

-----------------------------------------------------------------------------
(* What a replay returns *)

InLog(c, lg) == \E k \in DOMAIN lg : lg[k] = c

Holds(p) == pub[p].stage \in {"drawn", "logged"}

Replayed(i) == try[i].stage \in {"replayed", "listening"}

(* What the log has of the signals emitted, now and when a call replayed; and
   what a replay that was not cut short returned. *)
LogInv ==
  /\ \A c \in emitted : InLog(c, log)
  /\ \A p \in Publisher : pub[p].stage = "logged" => InLog(pub[p].cursor, log)

ReplayInv ==
  \A i \in Try : HasReplayed(i) =>
    /\ \A c \in atReplay[i].emitted : InLog(c, atReplay[i].log)
    /\ Cardinality(NewerAt(i)) <= Limit =>
         \A k \in NewerAt(i) : atReplay[i].log[k] \in heard

(* Each signal is held by one publisher until it is emitted; only the first call
   of init moves, and nothing is heard before its replay; what is heard before
   it is emitted came from a replay. *)
CursorInv ==
  \A p \in Publisher : Holds(p) =>
    /\ pub[p].cursor \notin emitted
    /\ \A q \in Publisher : Holds(q) /\ p # q => pub[p].cursor # pub[q].cursor

FromReplay(c) ==
  \E i \in Try : Replayed(i) /\ c \notin atReplay[i].emitted /\ InLog(c, atReplay[i].log)

HeardInv ==
  /\ attempts = 1 /\ \A i \in Try : try[i].stage # "off" => i = 1
  /\ heard # {} => \E i \in Try : Replayed(i)
  /\ \A c \in heardTwice \cup (heard \ emitted) : FromReplay(c)

BusInv == LogInv /\ ReplayInv /\ CursorInv /\ HeardInv

(* Steps at which the kernel acts or a publisher gets to a signal without a
   cursor. *)
QuietStep ==
  /\ UNCHANGED <<signals, log, emitted, desktopVars>>
  /\ \A p \in Publisher : (Holds(p))' => pub'[p] = pub[p]

(* Taking up something to say is quiet: no publisher gets hold of a cursor. *)
LEMMA PublishIsQuiet ==
  ASSUME PubOK, NEW p \in Publisher, NEW what, Publish(p, what),
         what.stage \notin {"drawn", "logged"}
  PROVE  \A q \in Publisher : (Holds(q))' => pub'[q] = pub[q]
BY DEF Publish, PubOK, Holds

(* Commands, loops, the relay and readings of a row are quiet. *)
LEMMA Quiet ==
  ASSUME TypeOK,
         \/ \E s \in Swo : \/ Submit(s) \/ Cancel(s) \/ Decide(s) \/ Revise(s)
                            \/ WritesUnpublished(s)
                            \/ LoopWrites(s) \/ LoopChatters(s)
                            \/ LoopReturns(s) \/ LoopFails(s)
                            \/ RelayReceives(s)
         \/ \E p \in Publisher : ReadRow(p) \/ ReadFails(p)
         \/ UNCHANGED vars
  PROVE  QuietStep
<1>1. PubOK
  BY DEF TypeOK
<1>2. ASSUME NEW s \in Swo, Submit(s) PROVE QuietStep
  BY <1>1, <1>2, Publishers, PublishIsQuiet DEF Submit, QuietStep, About, Stands
<1>3. ASSUME NEW s \in Swo, Cancel(s) \/ Decide(s) PROVE QuietStep
  BY <1>1, <1>3, Publishers, PublishIsQuiet
     DEF Cancel, Decide, QuietStep, About, Chatter, Stands
<1>11. ASSUME NEW s \in Swo, Revise(s) PROVE QuietStep
  BY <1>1, <1>11, Publishers, PublishIsQuiet DEF Revise, QuietStep, About, Stands
<1>12. ASSUME NEW s \in Swo, WritesUnpublished(s) PROVE QuietStep
  BY <1>12 DEF WritesUnpublished, QuietStep, busVars
<1>13. ASSUME NEW p \in Publisher, ReadFails(p) PROVE QuietStep
  BY <1>1, <1>13 DEF ReadFails, QuietStep, PubOK, Holds, Idle, Stands
<1>4. ASSUME NEW s \in Swo, LoopWrites(s) PROVE QuietStep
  BY <1>4 DEF LoopWrites, QuietStep, busVars
<1>5. ASSUME NEW s \in Swo, LoopChatters(s) PROVE QuietStep
  BY <1>5 DEF LoopChatters, QuietStep, busVars
<1>6. ASSUME NEW s \in Swo, LoopReturns(s) PROVE QuietStep
  BY <1>1, <1>6, Publishers, PublishIsQuiet DEF LoopReturns, QuietStep, About, Stands
<1>7. ASSUME NEW s \in Swo, LoopFails(s) PROVE QuietStep
  BY <1>1, <1>7, Publishers, PublishIsQuiet DEF LoopFails, QuietStep, Chatter, Stands
<1>8. ASSUME NEW s \in Swo, RelayReceives(s) PROVE QuietStep
  BY <1>1, <1>8, Publishers, PublishIsQuiet
     DEF RelayReceives, QuietStep, About, Chatter, Stands
<1>9. ASSUME NEW p \in Publisher, ReadRow(p) PROVE QuietStep
  BY <1>1, <1>9 DEF ReadRow, QuietStep, PubOK, Holds, Stands
<1>10. ASSUME UNCHANGED vars PROVE QuietStep
  BY <1>10 DEF vars, busVars, QuietStep
<1> QED BY <1>2, <1>3, <1>4, <1>5, <1>6, <1>7, <1>8, <1>9, <1>10, <1>11, <1>12, <1>13

(* A replay that has room for all the newer signals retained returns them. *)
LEMMA WholeReplay ==
  ASSUME BusOK, NEW cursor \in Nat,
         Cardinality({k \in Retained : log[k] > cursor}) <= Limit
  PROVE  Replay(cursor) = {k \in Retained : log[k] > cursor}
<1> DEFINE newer == {k \in Retained : log[k] > cursor}
<1>1. IsFiniteSet(newer)
  <2>1. newer \subseteq 1 .. Len(log) /\ Len(log) \in Nat
    BY DEF Retained, BusOK
  <2>2. IsFiniteSet(1 .. Len(log))
    BY <2>1, FS_Interval
  <2> HIDE DEF newer
  <2> QED BY <2>1, <2>2, FS_Subset
<1>2. ASSUME NEW k \in newer PROVE Cardinality({m \in newer : m < k}) < Limit
  <2> DEFINE before == {m \in newer : m < k}
  <2>1. before \subseteq newer /\ before # newer
    <3>1. k \in Nat
      BY DEF Retained, BusOK
    <3> QED BY <3>1
  <2>2. /\ Cardinality(before) \in Nat /\ Cardinality(newer) \in Nat
        /\ Cardinality(before) < Cardinality(newer)
    <3> HIDE DEF before, newer
    <3> QED BY <1>1, <2>1, FS_Subset, FS_CardinalityType
  <2>3. Limit \in Nat
    BY BusAssumption
  <2> HIDE DEF before, newer
  <2>4. Cardinality(newer) <= Limit
    BY DEF newer
  <2>5. Cardinality(before) < Limit
    BY <2>2, <2>3, <2>4
  <2> QED BY <2>5 DEF before
<1> QED BY <1>2 DEF Replay

(* The invariant of the bus holds initially. *)
LEMMA BusInit == Init => BusInv
<1> SUFFICES ASSUME Init PROVE BusInv
  OBVIOUS
<1>1. \A p \in Publisher : pub[p].stage = "idle"
  BY DEF Init, Idle, Stands
<1>2. \A i \in Try : try[i].stage = "off"
  BY DEF Init
<1> QED
  BY <1>1, <1>2 DEF Init, BusInv, LogInv, ReplayInv, CursorInv, HeardInv, HasReplayed,
                   Holds

(* Quiet steps keep the invariant of the bus. *)
LEMMA QuietKeeps ==
  ASSUME TypeOK, BusInv, QuietStep
  PROVE  BusInv'
<1> USE DEF QuietStep, desktopVars
<1>1. LogInv'
  BY DEF BusInv, LogInv, InLog, Holds
<1>2. ReplayInv'
  BY DEF BusInv, ReplayInv, HasReplayed, NewerAt, InLog
<1>3. CursorInv'
  BY DEF BusInv, CursorInv, Holds
<1>4. HeardInv'
  BY DEF BusInv, HeardInv, FromReplay, Replayed, InLog
<1> QED BY <1>1, <1>2, <1>3, <1>4 DEF BusInv

(* A drawn cursor is new. *)
LEMMA DrawKeeps ==
  ASSUME TypeOK, BusInv, NEW p \in Publisher, DrawCursor(p)
  PROVE  BusInv'
<1> DEFINE new == Len(signals) + 1
<1>1. /\ pub'[p].stage = "drawn" /\ pub'[p].cursor = new
      /\ \A q \in Publisher \ {p} : pub'[q] = pub[q]
  BY DEF TypeOK, PubOK, DrawCursor, Stands
<1>2. \A c \in DOMAIN signals : c # new
  BY DEF TypeOK, BusOK
<1>3. LogInv'
  BY <1>1 DEF DrawCursor, BusInv, LogInv, InLog
<1>4. ReplayInv'
  BY DEF DrawCursor, desktopVars, BusInv, ReplayInv, HasReplayed, NewerAt, InLog
<1>5. CursorInv'
  <2>1. \A q \in Publisher : Holds(q) => pub[q].cursor # new
    BY <1>2 DEF TypeOK, PubOK, Holds
  <2>2. new \notin emitted
    BY <1>2 DEF TypeOK, BusOK
  <2> HIDE DEF new
  <2> QED BY <1>1, <2>1, <2>2 DEF DrawCursor, BusInv, CursorInv, Holds
<1>6. HeardInv'
  BY DEF DrawCursor, desktopVars, BusInv, HeardInv, FromReplay, Replayed, InLog
<1> QED BY <1>3, <1>4, <1>5, <1>6 DEF BusInv

(* An appended cursor is in the log, and what was there stays. *)
LEMMA RememberKeeps ==
  ASSUME TypeOK, BusInv, NEW p \in Publisher, Remember(p)
  PROVE  BusInv'
<1>1. /\ pub[p].stage = "drawn"
      /\ pub'[p].stage = "logged" /\ pub'[p].cursor = pub[p].cursor
      /\ \A q \in Publisher \ {p} : pub'[q] = pub[q]
  BY DEF TypeOK, PubOK, Remember, Stands
<1>2. \A c : InLog(c, log) => InLog(c, log')
  BY DEF TypeOK, BusOK, Remember, InLog
<1>3. InLog(pub[p].cursor, log')
  <2>1. /\ Len(log') = Len(log) + 1 /\ Len(log) \in Nat /\ log' \in Seq(Nat)
        /\ log'[Len(log) + 1] = pub[p].cursor
    BY DEF TypeOK, BusOK, PubOK, Remember
  <2>2. Len(log) + 1 \in DOMAIN log'
    BY <2>1
  <2> QED BY <2>1, <2>2 DEF InLog
<1>4. LogInv'
  <2>1. \A c \in emitted' : InLog(c, log')
    BY <1>2 DEF Remember, BusInv, LogInv
  <2>2. \A q \in Publisher : pub'[q].stage = "logged" => InLog(pub'[q].cursor, log')
    BY <1>1, <1>2, <1>3 DEF BusInv, LogInv
  <2> QED BY <2>1, <2>2 DEF LogInv, InLog
<1>5. ReplayInv'
  BY DEF Remember, desktopVars, BusInv, ReplayInv, HasReplayed, NewerAt, InLog
<1>6. CursorInv'
  BY <1>1 DEF Remember, BusInv, CursorInv, Holds
<1>7. HeardInv'
  BY DEF Remember, desktopVars, BusInv, HeardInv, FromReplay, Replayed, InLog
<1> QED BY <1>4, <1>5, <1>6, <1>7 DEF BusInv

(* What is emitted is in the log, and is emitted for the first time. *)
LEMMA EmitKeeps ==
  ASSUME TypeOK, BusInv, NEW p \in Publisher, Emit(p)
  PROVE  BusInv'
<1> DEFINE c == pub[p].cursor
<1>1. /\ pub[p].stage = "logged" /\ ~(Holds(p))'
      /\ \A q \in Publisher \ {p} : pub'[q] = pub[q]
      /\ emitted' = emitted \cup {c}
  BY DEF TypeOK, PubOK, Emit, After, About, Idle, Stands, Holds
<1>2. UNCHANGED <<log, try, attempts, attached, atReplay>>
  BY DEF Emit
<1>3. \/ UNCHANGED <<heard, heardTwice>>
      \/ /\ heard' = heard \cup {c} /\ heardTwice' = heardTwice \cup (heard \cap {c})
         /\ \E i \in Try : Listening(i)
  BY DEF Emit
<1> HIDE DEF c
<1>4. LogInv'
  <2>1. InLog(c, log)
    BY <1>1 DEF BusInv, LogInv, c
  <2> QED BY <1>1, <1>2, <2>1 DEF BusInv, LogInv, InLog, Holds
<1>5. ReplayInv'
  BY <1>2, <1>3 DEF BusInv, ReplayInv, HasReplayed, NewerAt, InLog
<1>6. CursorInv'
  <2>1. \A q \in Publisher : Holds(q) /\ q # p => pub[q].cursor # c
    BY <1>1 DEF BusInv, CursorInv, Holds, c
  <2> QED BY <1>1, <2>1 DEF BusInv, CursorInv, Holds
<1>7. HeardInv'
  <2>1. c \notin emitted
    BY <1>1 DEF BusInv, CursorInv, Holds, c
  <2>2. heard' # {} => \E i \in Try : Replayed(i)
    BY <1>3 DEF BusInv, HeardInv, Listening, Replayed
  <2>3. \A d \in heardTwice' \cup (heard' \ emitted') : FromReplay(d)
    BY <1>1, <1>3, <2>1 DEF BusInv, HeardInv
  <2> QED BY <1>2, <2>2, <2>3 DEF BusInv, HeardInv, FromReplay, Replayed, InLog
<1> QED BY <1>4, <1>5, <1>6, <1>7 DEF BusInv

(* A call of init gets on, other than by its replay. *)
LEMMA InitKeeps ==
  ASSUME TypeOK, BusInv, NEW i \in Try,
         ReadsRows(i) \/ Boots(i) \/ BootFails(i) \/ Listens(i)
  PROVE  BusInv'
<1>1. /\ UNCHANGED <<pub, signals, log, emitted, attempts, attached, heard, heardTwice, atReplay>>
      /\ \A j \in Try \ {i} : try'[j] = try[j]
      /\ try[i].stage = "off" => i <= attempts
  BY DEF TypeOK, DesktopOK, ReadsRows, Boots, Hydrates, BootFails, Listens, Goto, busVars
<1>2. \/ ~Replayed(i) /\ ~(Replayed(i))'
      \/ Replayed(i) /\ (Replayed(i))' /\ try'[i].boot = try[i].boot
  BY DEF TypeOK, DesktopOK, ReadsRows, Boots, Hydrates, BootFails, Listens, Goto, Replayed
<1>3. \A j \in Try : /\ (Replayed(j))' <=> Replayed(j)
                     /\ Replayed(j) => try'[j].boot = try[j].boot
  BY <1>1, <1>2 DEF Replayed
<1>4. LogInv' /\ CursorInv'
  BY <1>1 DEF BusInv, LogInv, CursorInv, InLog, Holds
<1>5. ReplayInv'
  <2>1. \A j \in Try : (HasReplayed(j))' => HasReplayed(j) /\ (NewerAt(j))' = NewerAt(j)
    BY <1>1, <1>3 DEF HasReplayed, Replayed, NewerAt
  <2> QED BY <1>1, <2>1 DEF BusInv, ReplayInv, InLog
<1>6. HeardInv'
  <2>1. try[i].stage # "off" \/ i <= attempts
    BY <1>1
  <2>2. i = 1
    BY <2>1 DEF BusInv, HeardInv, Try
  <2>3. \A c : FromReplay(c) => (FromReplay(c))'
    BY <1>1, <1>3 DEF FromReplay, InLog
  <2>4. \A j \in Try : try'[j].stage # "off" => j = 1
    BY <1>1, <2>2 DEF BusInv, HeardInv
  <2>5. heard' # {} => \E j \in Try : (Replayed(j))'
    BY <1>1, <1>3 DEF BusInv, HeardInv
  <2>6. \A c \in heardTwice' \cup (heard' \ emitted') : (FromReplay(c))'
    BY <1>1, <2>3 DEF BusInv, HeardInv
  <2> QED BY <1>1, <2>4, <2>5, <2>6 DEF BusInv, HeardInv
<1> QED BY <1>4, <1>5, <1>6 DEF BusInv

(* A replay is the first thing heard, and returns what the log has. *)
LEMMA ReplayKeeps ==
  ASSUME TypeOK, BusInv, NEW i \in Try, Replays(i)
  PROVE  BusInv'
<1> DEFINE replay == Replay(try[i].boot.cursor)
           had    == {log[k] : k \in replay}
<1>1. /\ UNCHANGED <<pub, signals, log, emitted, attempts, attached>>
      /\ \A j \in Try \ {i} : try'[j] = try[j]
      /\ try[i].stage = "booted" /\ try'[i].stage = "replayed"
      /\ try'[i].boot = try[i].boot
  BY DEF TypeOK, DesktopOK, Replays, Goto, busVars
<1>2. ASSUME attached
      PROVE  /\ atReplay'[i] = [emitted |-> emitted, log |-> log]
             /\ \A j \in Try \ {i} : atReplay'[j] = atReplay[j]
             /\ heard' = heard \cup had
             /\ heardTwice' = heardTwice \cup (heard \cap had)
  BY <1>2 DEF TypeOK, DesktopOK, Replays
<1>3. ASSUME ~attached PROVE UNCHANGED <<atReplay, heard, heardTwice>>
  BY <1>3 DEF Replays
<1>4. LogInv' /\ CursorInv'
  BY <1>1 DEF BusInv, LogInv, CursorInv, InLog, Holds
<1>5. ReplayInv'
  <2> SUFFICES ASSUME NEW j \in Try, (HasReplayed(j))'
               PROVE  /\ \A c \in atReplay'[j].emitted : InLog(c, atReplay'[j].log)
                      /\ Cardinality((NewerAt(j))') <= Limit =>
                           \A k \in (NewerAt(j))' : atReplay'[j].log[k] \in heard'
    BY DEF ReplayInv, InLog
  <2>0. attached
    BY <1>1 DEF HasReplayed
  <2>1. CASE j # i
    <3>1. HasReplayed(j) /\ atReplay'[j] = atReplay[j] /\ try'[j] = try[j]
      BY <1>1, <1>2, <2>0, <2>1 DEF HasReplayed
    <3>2. (NewerAt(j))' = NewerAt(j)
      BY <3>1 DEF NewerAt
    <3>3. heard \subseteq heard'
      BY <1>2, <2>0
    <3> QED BY <3>1, <3>2, <3>3 DEF BusInv, ReplayInv
  <2>2. CASE j = i
    <3>1. atReplay'[j].log = log /\ atReplay'[j].emitted = emitted
      BY <1>2, <2>0, <2>2
    <3>2. \A c \in emitted : InLog(c, log)
      BY DEF BusInv, LogInv
    <3>3. (NewerAt(j))' = {k \in Retained : log[k] > try[i].boot.cursor}
      BY <1>1, <2>2, <3>1 DEF NewerAt, Retained
    <3>4. try[i].boot.cursor \in Nat
      BY DEF TypeOK, DesktopOK, Bootstrap
    <3>5. Cardinality((NewerAt(j))') <= Limit => replay = (NewerAt(j))'
      BY <3>3, <3>4, WholeReplay DEF TypeOK
    <3>6. \A k \in replay : log[k] \in heard'
      BY <1>2, <2>0
    <3> HIDE DEF replay
    <3> QED BY <3>1, <3>2, <3>5, <3>6
  <2> QED BY <2>1, <2>2
<1>6. HeardInv'
  <2>1. i = 1 /\ (Replayed(i))'
    BY <1>1 DEF BusInv, HeardInv, Replayed
  <2>2. \A j \in Try : ~Replayed(j)
    BY <1>1, <2>1 DEF BusInv, HeardInv, Replayed
  <2>3. heard = {} /\ heardTwice = {}
    BY <2>2 DEF TypeOK, DesktopOK, BusInv, HeardInv
  <2>4. \A j \in Try : try'[j].stage # "off" => j = 1
    BY <1>1, <2>1 DEF BusInv, HeardInv
  <2>5. ASSUME NEW c \in heardTwice' \cup (heard' \ emitted') PROVE (FromReplay(c))'
    <3>1. attached
      BY <1>3, <2>3, <2>5
    <3>2. c \in had /\ c \notin emitted
      BY <1>1, <1>2, <2>3, <2>5, <3>1
    <3>3. InLog(c, log)
      BY <3>2 DEF Replay, Retained, InLog
    <3>4. atReplay'[i].log = log /\ atReplay'[i].emitted = emitted
      BY <1>2, <3>1
    <3> QED BY <2>1, <3>2, <3>3, <3>4 DEF FromReplay, InLog
  <2> QED BY <1>1, <2>1, <2>4, <2>5 DEF BusInv, HeardInv
<1> QED BY <1>4, <1>5, <1>6 DEF BusInv

(* Every step of commands, loops, publishers and the desktop keeps the invariant
   of the bus. *)
THEOREM BusStep == TypeOK /\ BusInv /\ [Next]_vars => BusInv'
<1> SUFFICES ASSUME TypeOK, BusInv, [Next]_vars PROVE BusInv'
  OBVIOUS
<1>1. ASSUME NEW p \in Publisher, DrawCursor(p) \/ Remember(p) \/ Emit(p) PROVE BusInv'
  BY <1>1, DrawKeeps, RememberKeeps, EmitKeeps
<1>2. ASSUME NEW i \in Try, ReadsRows(i) \/ Boots(i) \/ BootFails(i) \/ Listens(i)
      PROVE  BusInv'
  BY <1>2, InitKeeps
<1>3. ASSUME NEW i \in Try, Replays(i) PROVE BusInv'
  BY <1>3, ReplayKeeps
<1> QED BY <1>1, <1>2, <1>3, Quiet, QuietKeeps DEF Next

(* Publishers append before they emit and hold their cursors alone, and the
   desktop's replay returns what the log had: in every reachable state. *)
THEOREM BusInvariant == Spec => [](TypeOK /\ BusInv)
BY TypeInit, TypeStep, BusInit, BusStep, PTL DEF Spec

(* Whatever the sizes of channel, log and replay and however many signals there
   are: what was emitted before the desktop's replay reaches the reducer, unless
   the log had dropped it or the replay was cut short. *)
THEOREM ReplayIsComplete == Spec => []EmittedBeforeReplayIsHeard
<1>1. TypeOK /\ BusInv => EmittedBeforeReplayIsHeard
  <2> SUFFICES ASSUME TypeOK, BusInv, NEW i \in Try, HasReplayed(i),
                      Cardinality(NewerAt(i)) <= Limit,
                      NEW c \in atReplay[i].emitted \ GoneAt(i), c > try[i].boot.cursor
               PROVE  c \in heard
    BY DEF EmittedBeforeReplayIsHeard
  <2> DEFINE lg == atReplay[i].log
  <2>1. PICK k \in DOMAIN lg : lg[k] = c
    BY DEF BusInv, ReplayInv, InLog
  <2>2. lg \in Seq(Nat)
    BY DEF TypeOK, DesktopOK
  <2>3. k > Len(lg) - LogCap
    <3>1. ~ (k <= Len(lg) - LogCap)
      BY <2>1 DEF GoneAt
    <3>2. k \in Nat /\ Len(lg) \in Nat /\ LogCap \in Nat
      BY <2>2, BusAssumption
    <3> HIDE DEF lg
    <3> QED BY <3>1, <3>2
  <2>4. k \in NewerAt(i)
    BY <2>1, <2>3 DEF NewerAt
  <2> QED BY <2>1, <2>4 DEF BusInv, ReplayInv
<1> QED BY <1>1, BusInvariant, PTL

(* A signal that had been emitted before the desktop's replay is applied once at
   most: the reducer sees a signal twice only if it was in flight. *)
THEOREM DuplicatesWereInFlight == Spec => []TwiceOnlyIfInFlight
<1>1. BusInv => TwiceOnlyIfInFlight
  BY DEF BusInv, HeardInv, FromReplay, InLog, TwiceOnlyIfInFlight
<1> QED BY <1>1, BusInvariant, PTL


-----------------------------------------------------------------------------
(* What the screen shows *)

\* Rows the promise is about.
Sound(s) == s \notin dropped /\ s \notin beside

\* What commands, the loop of a row and its relay do.
Orders(s) == Cancel(s) \/ Decide(s) \/ Revise(s) \/ WritesUnpublished(s)
RowActions(s) ==
  \/ Submit(s) \/ Orders(s) \/ LoopWrites(s) \/ LoopChatters(s)
  \/ LoopReturns(s) \/ LoopFails(s) \/ RelayReceives(s)

\* A publisher has read the row; it will show the row as it is.
Says(p, s) == pub[p].stage \in {"read", "drawn", "logged"} /\ pub[p].swo = s
Fresh(p, s) ==
  /\ pub[p].swo = s
  /\ pub[p].stage = "due" \/ (pub[p].stage = "read" /\ pub[p].version = version[s])
StatusComing(s) == \E k \in DOMAIN chan[s] : chan[s][k] = "status"
Promised(s) == pub[Command(s)].stage \in {"read", "drawn", "logged"} /\ pub[Command(s)].swo = NoSwo
Coming(s) == StatusComing(s) \/ Promised(s) \/ \E p \in Publisher : Fresh(p, s)

Current(c, s) == signals[c].swo = s /\ signals[c].version = version[s]
Stale(c, s) == signals[c].swo = s /\ signals[c].version # version[s]
Ahead(c, d) == \A j, k \in DOMAIN log : log[j] = c /\ log[k] = d => j < k

(* A publisher speaks of its own row or of none, and a signal that is not emitted
   is in the hands of one; the log has each cursor once. *)
HolderInv ==
  /\ \A p \in Publisher : pub[p].swo \in {p[2], NoSwo}
  /\ \A p \in Publisher : Holds(p) =>
       signals[pub[p].cursor] = [swo |-> pub[p].swo, version |-> pub[p].version]
  /\ \A c \in DOMAIN signals \ emitted : \E p \in Publisher : Holds(p) /\ pub[p].cursor = c
  /\ \A j, k \in DOMAIN log : log[j] = log[k] => j = k
  /\ \A p \in Publisher : pub[p].stage = "drawn" => ~ InLog(pub[p].cursor, log)

(* Only the relay may speak of a row as it was, and then it has another event to
   turn into a signal; a command has the row to itself; and a stale signal is
   followed by a right one, or that one is yet to be drawn. *)
StagesOK(s) ==
  /\ loop[s] = "none" =>
       /\ version[s] = 0 /\ chan[s] = <<>> /\ pub[Relay(s)].stage = "idle"
       /\ \A c \in DOMAIN signals : signals[c].swo # s
  /\ loop[s] = "starting" => chan[s] = <<>> /\ pub[Relay(s)].stage = "idle"
  /\ loop[s] # "starting" => pub[Handler(s)].stage = "idle"
  /\ loop[s] \in {"none", "starting", "running"} => pub[Task(s)].stage = "idle"
  /\ pub[Command(s)].stage # "idle" =>
       /\ loop[s] \in {"returned", "failed"} /\ chan[s] = <<>>
       /\ pub[Relay(s)].stage = "idle" /\ pub[Task(s)].stage = "idle"
SaysOK(s) ==
  /\ \A p \in {Handler(s), Task(s), Command(s)} : Says(p, s) => pub[p].version = version[s]
  /\ Says(Relay(s), s) /\ pub[Relay(s)].version # version[s] => StatusComing(s)
Answered(c, s) ==
  c \in emitted /\ \E d \in DOMAIN signals : Current(d, s) /\ d > c /\ Ahead(c, d)
StaleOK(s) == \A c \in DOMAIN signals : Stale(c, s) => Coming(s) \/ Answered(c, s)
RowOK(s) == StagesOK(s) /\ SaysOK(s) /\ StaleOK(s)
RowInv == \A s \in Swo : Sound(s) => RowOK(s)

(* The call of init: what it has of the screen at each stage. *)
Trying(stages) == try[1].stage \in stages
DesktopInv ==
  /\ attached
  /\ Trying({"off", "reading", "booted", "failed"}) => heard = {}
  /\ Trying({"off", "reading"}) => \A s \in Swo : view[s] = 0
  /\ Trying({"booted"}) => view = try[1].boot.rows
  /\ Trying({"reading", "booted", "replayed", "listening"}) => try[1].boot.since <= Len(signals)
  /\ Trying({"booted", "replayed", "listening"}) => try[1].boot.since <= try[1].boot.cursor

(* A row is shown as it is, or will be, or a signal that says so was missed. *)
Screen(s) == IF Trying({"reading", "booted"}) THEN try[1].boot.rows[s] ELSE view[s]
ScreenOK(s) ==
  \/ Screen(s) = version[s] \/ Coming(s)
  \/ \E c \in DOMAIN signals : Current(c, s) /\ c > try[1].boot.since /\ c \notin heard
ScreenInv ==
  Trying({"reading", "booted", "replayed", "listening"}) => \A s \in Swo : Sound(s) => ScreenOK(s)

(* Who publishes about a row. *)
LEMMA WhoPublishes ==
  ASSUME NEW s \in Swo
  PROVE  /\ Handler(s) # Relay(s) /\ Handler(s) # Task(s) /\ Relay(s) # Task(s)
         /\ Command(s) # Handler(s) /\ Command(s) # Relay(s) /\ Command(s) # Task(s)
         /\ \A p \in Publisher : p[2] \in Swo /\ (p[2] = s => p \in {Handler(s), Relay(s), Task(s), Command(s)})
         /\ Handler(s)[2] = s /\ Relay(s)[2] = s /\ Task(s)[2] = s /\ Command(s)[2] = s
         /\ s # NoSwo
BY BusAssumption DEF Handler, Relay, Task, Command, Publisher

(* Only a decision goes on after a signal, and then to the row. *)
LEMMA Afterwards ==
  ASSUME NEW p \in Publisher
  PROVE  /\ After(p) \in {Idle, About(p[2])}
         /\ \A s \in Swo : p = Command(s) /\ pub[p].swo = NoSwo => After(p) = About(s)
         /\ \A s \in Swo : p[2] = s /\ (p # Command(s) \/ pub[p].swo # NoSwo) => After(p) = Idle
<1>1. ASSUME NEW s \in Swo, p[2] = s, p[1] = "command" PROVE p = Command(s)
  BY <1>1 DEF Command, Publisher
<1>2. \A s \in Swo : Command(s)[1] = "command" /\ Command(s)[2] = s
  BY DEF Command
<1> QED BY <1>1, <1>2 DEF After

(* A command keeps a row sound only when its work order is over and nobody speaks. *)
LEMMA Ordered ==
  ASSUME NEW s \in Swo, Orders(s), Sound(s)'
  PROVE  /\ Settled(s) /\ \A p \in {Handler(s), Relay(s), Task(s), Command(s)} : pub[p].stage = "idle"
         /\ Cancel(s) \/ Decide(s) \/ Revise(s)
<1>1. Cancel(s) \/ Decide(s) \/ Revise(s)
  BY DEF Orders, WritesUnpublished, Sound
<1>2. beside' = Beside(s)
  BY <1>1 DEF Cancel, Decide, Revise
<1>3. Settled(s)
  BY <1>2 DEF Beside, Sound
<1> QED BY <1>1, <1>3, WhoPublishes, Publishers DEF Settled

(* What the steps of publishers without a cursor do to them. *)
OneSpeaks(p) ==
  /\ pub[p].stage \in {"idle", "due"} /\ pub'[p].swo \in {p[2], NoSwo}
  /\ pub'[p].stage \in {"idle", "due", "read"}
  /\ \A q \in Publisher \ {p} : pub'[q] = pub[q]

(* Commands, loops, the relay and readings let one publisher speak up. *)
LEMMA Speaking ==
  ASSUME TypeOK, HolderInv
  PROVE  /\ \A s \in Swo : Submit(s) \/ Revise(s) => OneSpeaks(Handler(s)) /\ pub'[Handler(s)] = About(s) /\ pub[Handler(s)].stage = "idle"
         /\ \A s \in Swo : Cancel(s) => OneSpeaks(Command(s)) /\ pub'[Command(s)] = About(s)
         /\ \A s \in Swo : Decide(s) => OneSpeaks(Command(s)) /\ pub'[Command(s)] = Chatter
         /\ \A s \in Swo : LoopReturns(s) => OneSpeaks(Task(s)) /\ pub'[Task(s)] = About(s)
         /\ \A s \in Swo : LoopFails(s) => OneSpeaks(Task(s)) /\ pub'[Task(s)] = Chatter
         /\ \A s \in Swo : RelayReceives(s) =>
              /\ OneSpeaks(Relay(s)) /\ pub[Relay(s)].stage = "idle"
              /\ pub'[Relay(s)] = IF Head(chan[s]) = "status" THEN About(s) ELSE Chatter
         /\ \A p \in Publisher : ReadRow(p) =>
              /\ OneSpeaks(p) /\ pub[p].stage = "due" /\ pub[p].swo \in Swo
              /\ pub'[p] = Stands("read", pub[p].swo, version[pub[p].swo], 0)
         /\ \A p \in Publisher : ReadFails(p) =>
              OneSpeaks(p) /\ pub[p].stage = "due" /\ pub[p].swo \in dropped'
<1>1. ASSUME NEW p \in Publisher, NEW s \in Swo, p[2] = s, NEW what \in {About(s), Chatter}, Publish(p, what)
      PROVE  OneSpeaks(p) /\ pub'[p] = what /\ pub[p].stage = "idle"
  <2>1. pub'[p] = what /\ pub[p].stage = "idle" /\ \A q \in Publisher \ {p} : pub'[q] = pub[q]
    BY <1>1 DEF Publish, TypeOK, PubOK
  <2>2. what.swo \in {s, NoSwo} /\ what.stage \in {"due", "read"}
    BY DEF About, Chatter, Stands
  <2> QED BY <1>1, <2>1, <2>2 DEF OneSpeaks
<1>2. ASSUME NEW s \in Swo, Submit(s) \/ Revise(s)
      PROVE  OneSpeaks(Handler(s)) /\ pub'[Handler(s)] = About(s) /\ pub[Handler(s)].stage = "idle"
  BY <1>1, <1>2, WhoPublishes, Publishers DEF Submit, Revise
<1>7. ASSUME NEW s \in Swo, Cancel(s) PROVE OneSpeaks(Command(s)) /\ pub'[Command(s)] = About(s)
  BY <1>1, <1>7, WhoPublishes, Publishers DEF Cancel
<1>8. ASSUME NEW s \in Swo, Decide(s) PROVE OneSpeaks(Command(s)) /\ pub'[Command(s)] = Chatter
  BY <1>1, <1>8, WhoPublishes, Publishers DEF Decide
<1>9. ASSUME NEW p \in Publisher, ReadFails(p)
      PROVE  OneSpeaks(p) /\ pub[p].stage = "due" /\ pub[p].swo \in dropped'
  BY <1>9 DEF ReadFails, OneSpeaks, TypeOK, PubOK, Idle, Stands
<1>3. ASSUME NEW s \in Swo, LoopReturns(s) PROVE OneSpeaks(Task(s)) /\ pub'[Task(s)] = About(s)
  BY <1>1, <1>3, WhoPublishes, Publishers DEF LoopReturns
<1>4. ASSUME NEW s \in Swo, LoopFails(s) PROVE OneSpeaks(Task(s)) /\ pub'[Task(s)] = Chatter
  BY <1>1, <1>4, WhoPublishes, Publishers DEF LoopFails
<1>5. ASSUME NEW s \in Swo, RelayReceives(s)
      PROVE  /\ OneSpeaks(Relay(s)) /\ pub[Relay(s)].stage = "idle"
             /\ pub'[Relay(s)] = IF Head(chan[s]) = "status" THEN About(s) ELSE Chatter
  BY <1>1, <1>5, WhoPublishes, Publishers DEF RelayReceives
<1>6. ASSUME NEW p \in Publisher, ReadRow(p)
      PROVE  /\ OneSpeaks(p) /\ pub[p].stage = "due" /\ pub[p].swo \in Swo
             /\ pub'[p] = Stands("read", pub[p].swo, version[pub[p].swo], 0)
  BY <1>6 DEF ReadRow, OneSpeaks, HolderInv, TypeOK, PubOK, Stands
<1> QED BY <1>2, <1>3, <1>4, <1>5, <1>6, <1>7, <1>8, <1>9

(* A publisher that speaks up holds no cursor, before or after. *)
LEMMA SpeakingHolds ==
  ASSUME HolderInv, NEW p \in Publisher, OneSpeaks(p), UNCHANGED <<signals, log, emitted>>
  PROVE  HolderInv'
<1>1. \A q \in Publisher : (Holds(q))' <=> Holds(q)
  BY DEF OneSpeaks, Holds
<1>2. \A q \in Publisher : Holds(q) => pub'[q] = pub[q]
  BY DEF OneSpeaks, Holds
<1>3. \A q \in Publisher : pub'[q].stage = "drawn" => pub[q].stage = "drawn" /\ pub'[q] = pub[q]
  BY DEF OneSpeaks
<1>4. \A q \in Publisher : pub'[q].swo \in {q[2], NoSwo}
  BY DEF OneSpeaks, HolderInv
<1>5. \A c \in DOMAIN signals' \ emitted' : \E q \in Publisher : (Holds(q))' /\ pub'[q].cursor = c
  BY <1>1, <1>2 DEF HolderInv
<1>6. \A q \in Publisher : (Holds(q))' =>
        signals'[pub'[q].cursor] = [swo |-> pub'[q].swo, version |-> pub'[q].version]
  BY <1>1, <1>2 DEF HolderInv
<1>7. \A q \in Publisher : pub'[q].stage = "drawn" => ~ InLog(pub'[q].cursor, log')
  BY <1>3 DEF HolderInv
<1> QED BY <1>4, <1>5, <1>6, <1>7 DEF HolderInv, InLog

(* What the three steps of a signal do. *)
LEMMA Drawing ==
  ASSUME TypeOK, NEW p \in Publisher, DrawCursor(p)
  PROVE  /\ pub[p].stage = "read" /\ pub'[p] = Stands("drawn", pub[p].swo, pub[p].version, Len(signals) + 1)
         /\ \A q \in Publisher \ {p} : pub'[q] = pub[q]
         /\ Len(signals) \in Nat /\ DOMAIN signals = 1..Len(signals)
         /\ DOMAIN signals' = 1..(Len(signals) + 1)
         /\ \A c \in 1..Len(signals) : signals'[c] = signals[c]
         /\ signals'[Len(signals) + 1] = [swo |-> pub[p].swo, version |-> pub[p].version]
         /\ UNCHANGED <<kernelVars, log, emitted, desktopVars>>
<1>1. signals \in Seq(Signal) /\ [swo |-> pub[p].swo, version |-> pub[p].version] \in Signal
  BY DEF TypeOK, BusOK, PubOK, Signal
<1>2. signals' = Append(signals, [swo |-> pub[p].swo, version |-> pub[p].version])
  BY DEF DrawCursor
<1>3. /\ pub[p].stage = "read" /\ pub'[p] = Stands("drawn", pub[p].swo, pub[p].version, Len(signals) + 1)
      /\ \A q \in Publisher \ {p} : pub'[q] = pub[q]
      /\ UNCHANGED <<kernelVars, log, emitted, desktopVars>>
  BY DEF DrawCursor, TypeOK, PubOK
<1> QED BY <1>1, <1>2, <1>3

(* An appended cursor is the log's last. *)
LEMMA Remembering ==
  ASSUME TypeOK, NEW p \in Publisher, Remember(p)
  PROVE  /\ pub[p].stage = "drawn" /\ pub'[p] = Stands("logged", pub[p].swo, pub[p].version, pub[p].cursor)
         /\ \A q \in Publisher \ {p} : pub'[q] = pub[q]
         /\ Len(log) \in Nat /\ DOMAIN log = 1..Len(log) /\ DOMAIN log' = 1..(Len(log) + 1)
         /\ \A k \in 1..Len(log) : log'[k] = log[k]
         /\ log'[Len(log) + 1] = pub[p].cursor
         /\ UNCHANGED <<kernelVars, signals, emitted, desktopVars>>
<1>1. log \in Seq(Nat) /\ pub[p].cursor \in Nat
  BY DEF TypeOK, BusOK, PubOK
<1>2. log' = Append(log, pub[p].cursor)
  BY DEF Remember
<1>3. /\ pub[p].stage = "drawn" /\ pub'[p] = Stands("logged", pub[p].swo, pub[p].version, pub[p].cursor)
      /\ \A q \in Publisher \ {p} : pub'[q] = pub[q]
      /\ UNCHANGED <<kernelVars, signals, emitted, desktopVars>>
  BY DEF Remember, TypeOK, PubOK
<1> QED BY <1>1, <1>2, <1>3

(* Emitting leaves the publisher idle, unless it goes on, and may let a new work
   order's loop run. *)
LEMMA Emitting ==
  ASSUME TypeOK, NEW p \in Publisher, Emit(p)
  PROVE  /\ pub[p].stage = "logged" /\ pub'[p] = After(p)
         /\ \A q \in Publisher \ {p} : pub'[q] = pub[q]
         /\ emitted' = emitted \cup {pub[p].cursor} /\ pub[p].cursor \in DOMAIN signals
         /\ UNCHANGED <<version, chan, dropped, beside, signals, log, try, attached>>
         /\ \A s \in Swo :
              \/ loop'[s] = loop[s]
              \/ p = Handler(s) /\ loop[s] = "starting" /\ loop'[s] = "running"
<1>1. \A s \in Swo : p = Handler(s) <=> p[1] = "handler" /\ p[2] = s
  BY DEF Handler, Publisher
<1>2. Starts(p) /\ loop \in [Swo -> LoopStage] /\ p[2] \in Swo
  BY DEF Emit, TypeOK, KernelOK, Publisher
<1>3. \A s \in Swo :
        \/ loop'[s] = loop[s]
        \/ p = Handler(s) /\ loop[s] = "starting" /\ loop'[s] = "running"
  BY <1>1, <1>2 DEF Starts
<1>4. /\ pub[p].stage = "logged" /\ pub'[p] = After(p)
      /\ \A q \in Publisher \ {p} : pub'[q] = pub[q]
      /\ emitted' = emitted \cup {pub[p].cursor} /\ pub[p].cursor \in DOMAIN signals
      /\ UNCHANGED <<version, chan, dropped, beside, signals, log, try, attached>>
  BY DEF Emit, TypeOK, PubOK
<1> QED BY <1>3, <1>4

(* Who holds a cursor, step by step. *)
LEMMA HolderStep == ASSUME TypeOK, BusInv, HolderInv, [Next]_vars PROVE HolderInv'
<1>1. ASSUME NEW s \in Swo, \/ Submit(s) \/ Cancel(s) \/ Decide(s) \/ Revise(s)
                            \/ LoopReturns(s) \/ LoopFails(s) \/ RelayReceives(s)
      PROVE  HolderInv'
  <2>1. \E p \in Publisher : OneSpeaks(p)
    BY <1>1, Speaking, Publishers
  <2>2. UNCHANGED <<signals, log, emitted>>
    BY <1>1 DEF Submit, Cancel, Decide, Revise, LoopReturns, LoopFails, RelayReceives
  <2> QED BY <2>1, <2>2, SpeakingHolds
<1>2. ASSUME NEW p \in Publisher, ReadRow(p) \/ ReadFails(p) PROVE HolderInv'
  BY <1>2, Speaking, SpeakingHolds DEF ReadRow, ReadFails
<1>3. CASE UNCHANGED busVars
  BY <1>3 DEF busVars, HolderInv, Holds, InLog
<1>4. ASSUME NEW s \in Swo, LoopWrites(s) \/ LoopChatters(s) \/ WritesUnpublished(s)
      PROVE  HolderInv'
  BY <1>4, <1>3 DEF LoopWrites, LoopChatters, WritesUnpublished
<1>5. ASSUME NEW i \in Try, ReadsRows(i) \/ Boots(i) \/ BootFails(i) \/ Replays(i) \/ Listens(i) PROVE HolderInv'
  BY <1>5, <1>3 DEF ReadsRows, Boots, Hydrates, BootFails, Replays, Listens
<1>6. ASSUME NEW p \in Publisher, DrawCursor(p) PROVE HolderInv'
  <2> DEFINE new == Len(signals) + 1
  <2>1. /\ pub[p].stage = "read" /\ pub'[p] = Stands("drawn", pub[p].swo, pub[p].version, new)
        /\ \A q \in Publisher \ {p} : pub'[q] = pub[q]
        /\ Len(signals) \in Nat /\ DOMAIN signals = 1..Len(signals) /\ DOMAIN signals' = 1..new
        /\ \A c \in 1..Len(signals) : signals'[c] = signals[c]
        /\ signals'[new] = [swo |-> pub[p].swo, version |-> pub[p].version]
        /\ UNCHANGED <<log, emitted>>
    BY <1>6, Drawing
  <2>2. pub'[p].stage = "drawn" /\ pub'[p].swo = pub[p].swo /\ pub'[p].version = pub[p].version /\ pub'[p].cursor = new
    BY <2>1 DEF Stands
  <2>3. \A q \in Publisher : Holds(q) => q # p /\ pub'[q] = pub[q] /\ pub[q].cursor \in 1..Len(signals)
    BY <2>1 DEF Holds, TypeOK, PubOK
  <2>4. \A q \in Publisher : (Holds(q))' => q = p \/ (Holds(q) /\ pub'[q] = pub[q])
    BY <2>1 DEF Holds
  <2>5. ~ InLog(new, log)
    BY <2>1 DEF InLog, TypeOK, BusOK
  <2> HIDE DEF new
  <2>6. \A q \in Publisher : pub'[q].swo \in {q[2], NoSwo}
    BY <2>1, <2>2 DEF HolderInv
  <2>7. \A q \in Publisher : (Holds(q))' =>
          signals'[pub'[q].cursor] = [swo |-> pub'[q].swo, version |-> pub'[q].version]
    BY <2>1, <2>2, <2>3, <2>4 DEF HolderInv
  <2>8. ASSUME NEW c \in DOMAIN signals' \ emitted'
        PROVE  \E q \in Publisher : (Holds(q))' /\ pub'[q].cursor = c
    <3>1. CASE c = new
      BY <3>1, <2>2 DEF Holds
    <3>2. CASE c # new
      <4>1. c \in DOMAIN signals \ emitted
        BY <2>1, <2>8, <3>2 DEF new
      <4>2. PICK q \in Publisher : Holds(q) /\ pub[q].cursor = c
        BY <4>1 DEF HolderInv
      <4> QED BY <4>2, <2>3 DEF Holds
    <3> QED BY <3>1, <3>2
  <2>9. \A q \in Publisher : pub'[q].stage = "drawn" => ~ InLog(pub'[q].cursor, log')
    BY <2>1, <2>2, <2>5 DEF HolderInv
  <2> QED BY <2>1, <2>6, <2>7, <2>8, <2>9 DEF HolderInv, InLog
<1>7. ASSUME NEW p \in Publisher, Remember(p) PROVE HolderInv'
  <2>1. /\ pub[p].stage = "drawn" /\ pub'[p] = Stands("logged", pub[p].swo, pub[p].version, pub[p].cursor)
        /\ \A q \in Publisher \ {p} : pub'[q] = pub[q]
        /\ Len(log) \in Nat /\ DOMAIN log = 1..Len(log) /\ DOMAIN log' = 1..(Len(log) + 1)
        /\ \A k \in 1..Len(log) : log'[k] = log[k]
        /\ log'[Len(log) + 1] = pub[p].cursor
        /\ UNCHANGED <<signals, emitted>>
    BY <1>7, Remembering
  <2>2. pub'[p].stage = "logged" /\ pub'[p].swo = pub[p].swo /\ pub'[p].version = pub[p].version /\ pub'[p].cursor = pub[p].cursor
    BY <2>1 DEF Stands
  <2>3. \A q \in Publisher : ((Holds(q))' <=> Holds(q)) /\ pub'[q].cursor = pub[q].cursor
                             /\ pub'[q].swo = pub[q].swo /\ pub'[q].version = pub[q].version
    BY <2>1, <2>2 DEF Holds
  <2>4. \A j, k \in DOMAIN log' : log'[j] = log'[k] => j = k
    <3>1. \A k \in 1..Len(log) : log[k] # pub[p].cursor
      BY <2>1 DEF HolderInv, InLog
    <3>2. \A k \in 1..(Len(log) + 1) : k \in 1..Len(log) \/ k = Len(log) + 1
      BY <2>1
    <3> QED BY <2>1, <3>1, <3>2 DEF HolderInv
  <2>5. ASSUME NEW q \in Publisher, pub'[q].stage = "drawn" PROVE ~ InLog(pub'[q].cursor, log')
    <3>1. q # p /\ pub'[q] = pub[q] /\ pub[q].stage = "drawn"
      BY <2>1, <2>2, <2>5
    <3>2. pub[q].cursor # pub[p].cursor
      BY <2>1, <3>1 DEF BusInv, CursorInv, Holds
    <3>3. ~ InLog(pub[q].cursor, log)
      BY <3>1 DEF HolderInv
    <3>4. \A k \in 1..(Len(log) + 1) : k \in 1..Len(log) \/ k = Len(log) + 1
      BY <2>1
    <3> QED BY <2>1, <3>1, <3>2, <3>3, <3>4 DEF InLog
  <2> QED BY <2>1, <2>3, <2>4, <2>5 DEF HolderInv, InLog
<1>8. ASSUME NEW p \in Publisher, Emit(p) PROVE HolderInv'
  <2>1. /\ pub[p].stage = "logged" /\ pub'[p] = After(p)
        /\ \A q \in Publisher \ {p} : pub'[q] = pub[q]
        /\ emitted' = emitted \cup {pub[p].cursor}
        /\ UNCHANGED <<signals, log>>
    BY <1>8, Emitting
  <2>2. pub'[p].stage \in {"idle", "due"} /\ pub'[p].swo \in {p[2], NoSwo}
    BY <2>1, Afterwards DEF Idle, About, Stands
  <2>3. \A q \in Publisher : (Holds(q))' => Holds(q) /\ pub'[q] = pub[q]
    BY <2>1, <2>2 DEF Holds
  <2>4. \A q \in Publisher : Holds(q) /\ q # p => (Holds(q))' /\ pub'[q] = pub[q]
    BY <2>1 DEF Holds
  <2>5. \A c \in DOMAIN signals' \ emitted' : \E q \in Publisher : (Holds(q))' /\ pub'[q].cursor = c
    BY <2>1, <2>4 DEF HolderInv
  <2>6. \A q \in Publisher : pub'[q].swo \in {q[2], NoSwo}
    BY <2>1, <2>2 DEF HolderInv
  <2>7. \A q \in Publisher : pub'[q].stage = "drawn" => ~ InLog(pub'[q].cursor, log')
    BY <2>1, <2>2 DEF HolderInv, InLog
  <2>8. \A q \in Publisher : (Holds(q))' =>
          signals'[pub'[q].cursor] = [swo |-> pub'[q].swo, version |-> pub'[q].version]
    BY <2>1, <2>3 DEF HolderInv
  <2> QED BY <2>1, <2>5, <2>6, <2>7, <2>8 DEF HolderInv
<1>9. CASE UNCHANGED vars
  BY <1>9, <1>3 DEF vars
<1> QED BY <1>1, <1>2, <1>4, <1>5, <1>6, <1>7, <1>8, <1>9 DEF Next

(* Signals stay as they were drawn. *)
LEMMA SignalsStay ==
  ASSUME TypeOK, [Next]_vars
  PROVE  /\ DOMAIN signals \subseteq DOMAIN signals'
         /\ \A c \in DOMAIN signals : signals'[c] = signals[c]
         /\ emitted \subseteq emitted'
<1>1. ASSUME NEW p \in Publisher, DrawCursor(p)
      PROVE  /\ DOMAIN signals \subseteq DOMAIN signals' /\ emitted \subseteq emitted'
             /\ \A c \in DOMAIN signals : signals'[c] = signals[c]
  <2>1. /\ Len(signals) \in Nat /\ DOMAIN signals = 1..Len(signals)
        /\ DOMAIN signals' = 1..(Len(signals) + 1)
        /\ \A c \in 1..Len(signals) : signals'[c] = signals[c]
        /\ UNCHANGED emitted
    BY <1>1, Drawing
  <2>2. 1..Len(signals) \subseteq 1..(Len(signals) + 1)
    BY <2>1
  <2> QED BY <2>1, <2>2
<1>2. ASSUME NEW p \in Publisher, Remember(p) \/ Emit(p)
      PROVE  UNCHANGED signals /\ emitted \subseteq emitted'
  BY <1>2 DEF Remember, Emit
<1>3. ASSUME NEW i \in Try, ReadsRows(i) \/ Boots(i) \/ BootFails(i) \/ Replays(i) \/ Listens(i)
      PROVE  UNCHANGED <<signals, emitted>>
  BY <1>3 DEF ReadsRows, Boots, Hydrates, BootFails, Replays, Listens, busVars
<1>4. ASSUME QuietStep PROVE UNCHANGED <<signals, emitted>>
  BY <1>4 DEF QuietStep
<1> QED BY <1>1, <1>2, <1>3, <1>4, Quiet DEF Next

(* A signal that comes after an emitted one in the log still does after a step. *)
LEMMA AheadStays ==
  ASSUME TypeOK, BusInv, [Next]_vars, NEW c \in emitted, NEW d, Ahead(c, d)
  PROVE  Ahead(c, d)'
<1>1. ASSUME NEW p \in Publisher, Remember(p) PROVE Ahead(c, d)'
  <2>1. /\ pub[p].stage = "drawn"
        /\ Len(log) \in Nat /\ DOMAIN log = 1..Len(log) /\ DOMAIN log' = 1..(Len(log) + 1)
        /\ \A k \in 1..Len(log) : log'[k] = log[k]
        /\ log'[Len(log) + 1] = pub[p].cursor
    BY <1>1, Remembering
  <2>2. pub[p].cursor # c
    BY <2>1 DEF BusInv, CursorInv, Holds
  <2>3. \A k \in 1..(Len(log) + 1) : k \in 1..Len(log) \/ k = Len(log) + 1
    BY <2>1
  <2>4. \A j, k \in 1..Len(log) : log[j] = c /\ log[k] = d => j < k
    BY <2>1 DEF Ahead
  <2>5. \A j \in DOMAIN log' : log'[j] = c => j \in 1..Len(log) /\ log[j] = c
    BY <2>1, <2>2, <2>3
  <2>6. \A j \in 1..Len(log) : j < Len(log) + 1
    BY <2>1
  <2>7. ASSUME NEW j \in DOMAIN log', NEW k \in DOMAIN log', log'[j] = c, log'[k] = d
        PROVE  j < k
    <3>1. j \in 1..Len(log) /\ log[j] = c
      BY <2>5, <2>7
    <3>2. CASE k = Len(log) + 1
      BY <3>1, <3>2, <2>6
    <3>3. CASE k \in 1..Len(log)
      BY <3>1, <3>3, <2>1, <2>4, <2>7
    <3> QED BY <3>2, <3>3, <2>1, <2>3
  <2> QED BY <2>7 DEF Ahead
<1>2. CASE UNCHANGED log
  BY <1>2 DEF Ahead
<1>3. ASSUME NEW p \in Publisher, DrawCursor(p) \/ Emit(p) PROVE UNCHANGED log
  BY <1>3 DEF DrawCursor, Emit
<1>4. ASSUME NEW i \in Try, ReadsRows(i) \/ Boots(i) \/ BootFails(i) \/ Replays(i) \/ Listens(i)
      PROVE  UNCHANGED log
  BY <1>4 DEF ReadsRows, Boots, Hydrates, BootFails, Replays, Listens, busVars
<1>5. ASSUME QuietStep PROVE UNCHANGED log
  BY <1>5 DEF QuietStep
<1> QED BY <1>1, <1>2, <1>3, <1>4, <1>5, Quiet DEF Next

(* What answers a stale signal still does, as long as the row is not written. *)
LEMMA AnswersStay ==
  ASSUME TypeOK, BusInv, [Next]_vars, NEW s \in Swo, version'[s] = version[s]
  PROVE  /\ \A c \in DOMAIN signals : Stale(c, s)' <=> Stale(c, s)
         /\ \A c \in DOMAIN signals : Current(c, s)' <=> Current(c, s)
         /\ \A c \in DOMAIN signals : Answered(c, s) => Answered(c, s)'
<1>1. \A c \in DOMAIN signals : Stale(c, s)' <=> Stale(c, s)
  BY SignalsStay DEF Stale
<1>2. \A c \in DOMAIN signals : Current(c, s)' <=> Current(c, s)
  BY SignalsStay DEF Current
<1>3. ASSUME NEW c \in DOMAIN signals, Answered(c, s) PROVE Answered(c, s)'
  <2>1. c \in emitted
    BY <1>3 DEF Answered
  <2>2. PICK d \in DOMAIN signals : Current(d, s) /\ d > c /\ Ahead(c, d)
    BY <1>3 DEF Answered
  <2>3. Ahead(c, d)'
    BY <2>1, <2>2, AheadStays
  <2> QED BY <2>1, <2>2, <2>3, <1>2, SignalsStay DEF Answered
<1> QED BY <1>1, <1>2, <1>3

(* Steps that are about other rows. *)
LEMMA RowAside ==
  ASSUME TypeOK, BusInv, HolderInv, [Next]_vars, NEW s \in Swo, RowOK(s),
         version'[s] = version[s], loop'[s] = loop[s], chan'[s] = chan[s],
         \A p \in Publisher : p[2] = s => pub'[p] = pub[p],
         \A c \in DOMAIN signals' \ DOMAIN signals : signals'[c].swo # s
  PROVE  RowOK(s)'
<1>1. \A p \in {Handler(s), Relay(s), Task(s), Command(s)} : pub'[p] = pub[p]
  BY Publishers, WhoPublishes
<1>2. StagesOK(s)'
  BY <1>1, SignalsStay DEF RowOK, StagesOK
<1>3. StatusComing(s)' <=> StatusComing(s)
  BY DEF StatusComing
<1>4. Coming(s) => Coming(s)'
  <2>1. \A p \in Publisher : Fresh(p, s) => Fresh(p, s)'
    BY WhoPublishes DEF Fresh, HolderInv
  <2> QED BY <1>1, <1>3, <2>1 DEF Coming, Promised
<1>5. SaysOK(s)'
  BY <1>1, <1>3 DEF RowOK, SaysOK, Says
<1>6. StaleOK(s)'
  <2>1. \A c \in DOMAIN signals' : Stale(c, s)' => c \in DOMAIN signals
    BY DEF Stale
  <2> QED BY <2>1, <1>4, AnswersStay DEF RowOK, StaleOK
<1> QED BY <1>2, <1>5, <1>6 DEF RowOK

(* A row's own commands, loop and relay. *)
LEMMA RowActs ==
  ASSUME TypeOK, BusInv, HolderInv, [Next]_vars, NEW s \in Swo, RowOK(s), Sound(s)',
         RowActions(s)
  PROVE  RowOK(s)'
<1>h. /\ Handler(s) \in Publisher /\ Relay(s) \in Publisher /\ Task(s) \in Publisher
      /\ Command(s) \in Publisher
      /\ Handler(s) # Relay(s) /\ Handler(s) # Task(s) /\ Relay(s) # Task(s) /\ s # NoSwo
      /\ Command(s) # Handler(s) /\ Command(s) # Relay(s) /\ Command(s) # Task(s)
  BY Publishers, WhoPublishes
<1>t. /\ version \in [Swo -> Nat] /\ loop \in [Swo -> LoopStage]
      /\ chan \in [Swo -> Seq({"status", "chatter"})] /\ chan[s] \in Seq({"status", "chatter"})
  BY DEF TypeOK, KernelOK
<1>1. CASE Submit(s)
  <2>1. /\ pub'[Handler(s)] = About(s) /\ \A q \in Publisher \ {Handler(s)} : pub'[q] = pub[q]
    BY <1>1, Speaking DEF OneSpeaks
  <2>2. /\ loop[s] = "none" /\ loop'[s] = "starting" /\ UNCHANGED <<chan, signals, log, emitted>>
    BY <1>1, <1>t DEF Submit
  <2>3. pub'[Handler(s)].stage = "due"
    BY <2>1 DEF About, Stands
  <2>4. /\ pub'[Relay(s)] = pub[Relay(s)] /\ pub'[Task(s)] = pub[Task(s)]
        /\ pub'[Command(s)] = pub[Command(s)]
    BY <2>1, <1>h
  <2>5. StagesOK(s)'
    BY <2>2, <2>4 DEF RowOK, StagesOK
  <2>6. SaysOK(s)'
    BY <2>2, <2>3, <2>4 DEF RowOK, StagesOK, SaysOK, Says
  <2>7. StaleOK(s)'
    BY <2>2 DEF RowOK, StagesOK, StaleOK, Stale
  <2> QED BY <2>5, <2>6, <2>7 DEF RowOK
<1>2. CASE Orders(s)
  <2>1. /\ loop[s] \in {"returned", "failed"} /\ chan[s] = <<>>
        /\ \A p \in {Handler(s), Relay(s), Task(s), Command(s)} : pub[p].stage = "idle"
        /\ Cancel(s) \/ Decide(s) \/ Revise(s)
    BY <1>2, Ordered DEF Settled
  <2>2. UNCHANGED <<chan, signals, log, emitted>>
    BY <2>1 DEF Cancel, Decide, Revise
  <2>3. CASE Cancel(s) \/ Decide(s)
    <3>1. /\ pub'[Command(s)] \in {About(s), Chatter}
          /\ \A q \in Publisher \ {Command(s)} : pub'[q] = pub[q]
      BY <2>3, Speaking DEF OneSpeaks
    <3>2. /\ pub'[Handler(s)] = pub[Handler(s)] /\ pub'[Relay(s)] = pub[Relay(s)]
          /\ pub'[Task(s)] = pub[Task(s)] /\ UNCHANGED loop
      BY <2>3, <3>1, <1>h DEF Cancel, Decide
    <3>3. StagesOK(s)'
      BY <2>1, <2>2, <3>2 DEF StagesOK
    <3>4. ~ Says(Command(s), s)'
      BY <3>1, <1>h DEF Says, About, Chatter, Stands
    <3>5. SaysOK(s)'
      BY <2>1, <3>2, <3>4 DEF SaysOK, Says
    <3>6. Coming(s)'
      BY <3>1, <1>h DEF Coming, Promised, Fresh, About, Chatter, Stands
    <3> QED BY <3>3, <3>5, <3>6 DEF RowOK, StaleOK
  <2>4. CASE Revise(s)
    <3>1. /\ pub'[Handler(s)] = About(s) /\ \A q \in Publisher \ {Handler(s)} : pub'[q] = pub[q]
      BY <2>4, Speaking DEF OneSpeaks
    <3>2. /\ pub'[Command(s)] = pub[Command(s)] /\ pub'[Relay(s)] = pub[Relay(s)]
          /\ pub'[Task(s)] = pub[Task(s)] /\ loop'[s] = "starting"
      BY <2>4, <3>1, <1>h, <1>t DEF Revise
    <3>3. StagesOK(s)'
      BY <2>1, <2>2, <3>2 DEF StagesOK
    <3>4. ~ Says(Handler(s), s)'
      BY <3>1 DEF Says, About, Stands
    <3>5. SaysOK(s)'
      BY <2>1, <3>2, <3>4 DEF SaysOK, Says
    <3>6. Coming(s)'
      BY <3>1, <1>h DEF Coming, Fresh, About, Stands
    <3> QED BY <3>3, <3>5, <3>6 DEF RowOK, StaleOK
  <2> QED BY <2>1, <2>3, <2>4
<1>3. CASE LoopWrites(s)
  <2>1. /\ loop[s] = "running" /\ UNCHANGED <<loop, pub, signals, log, emitted>>
        /\ ~Full(s) /\ chan' = Sent(s, "status")
    BY <1>3 DEF LoopWrites, TrySend, Sound, busVars
  <2>2. chan'[s] = Append(chan[s], "status")
    BY <2>1, <1>t DEF Sent
  <2>3. StatusComing(s)'
    <3>1. /\ Len(chan[s]) + 1 \in DOMAIN Append(chan[s], "status")
          /\ Append(chan[s], "status")[Len(chan[s]) + 1] = "status"
      BY <1>t
    <3> QED BY <2>2, <3>1 DEF StatusComing
  <2>4. StagesOK(s)'
    BY <2>1 DEF RowOK, StagesOK
  <2>5. SaysOK(s)'
    BY <2>1, <2>3 DEF RowOK, StagesOK, SaysOK, Says
  <2>6. StaleOK(s)'
    BY <2>3 DEF StaleOK, Coming
  <2> QED BY <2>4, <2>5, <2>6 DEF RowOK
<1>4. CASE LoopChatters(s)
  <2>1. /\ loop[s] = "running" /\ UNCHANGED <<version, loop, pub, signals, log, emitted>>
        /\ chan' = Sent(s, "chatter")
    BY <1>4 DEF LoopChatters, busVars
  <2>2. chan'[s] = Append(chan[s], "chatter")
    BY <2>1, <1>t DEF Sent
  <2>3. StatusComing(s) => StatusComing(s)'
    <3>1. \A k \in DOMAIN chan[s] : /\ k \in DOMAIN Append(chan[s], "chatter")
                                    /\ Append(chan[s], "chatter")[k] = chan[s][k]
      BY <1>t
    <3> QED BY <2>2, <3>1 DEF StatusComing
  <2>4. StagesOK(s)'
    BY <2>1 DEF RowOK, StagesOK
  <2>5. SaysOK(s)'
    BY <2>1, <2>3 DEF RowOK, StagesOK, SaysOK, Says
  <2>6. StaleOK(s)'
    BY <2>1, <2>3, AnswersStay DEF RowOK, StaleOK, Coming, Promised, Fresh
  <2> QED BY <2>4, <2>5, <2>6 DEF RowOK
<1>5. CASE LoopReturns(s) \/ LoopFails(s)
  <2>1. /\ pub'[Task(s)] \in {About(s), Chatter} /\ \A q \in Publisher \ {Task(s)} : pub'[q] = pub[q]
    BY <1>5, Speaking DEF OneSpeaks
  <2>2. /\ loop[s] = "running" /\ loop'[s] \in {"returned", "failed"}
        /\ UNCHANGED <<version, chan, signals, log, emitted>>
    BY <1>5, <1>t DEF LoopReturns, LoopFails
  <2>3. ~ Says(Task(s), s)'
    BY <2>1, <1>h DEF Says, About, Chatter, Stands
  <2>4. /\ pub'[Relay(s)] = pub[Relay(s)] /\ pub'[Handler(s)] = pub[Handler(s)]
        /\ pub'[Command(s)] = pub[Command(s)] /\ pub[Task(s)].stage = "idle"
    BY <2>1, <2>2, <1>h DEF RowOK, StagesOK
  <2>5. StagesOK(s)'
    BY <2>2, <2>4 DEF RowOK, StagesOK
  <2>6. StatusComing(s)' <=> StatusComing(s)
    BY <2>2 DEF StatusComing
  <2>7. SaysOK(s)'
    BY <2>2, <2>3, <2>4, <2>6 DEF RowOK, SaysOK, Says
  <2>8. StaleOK(s)'
    <3>1. \A q \in Publisher : Fresh(q, s) => Fresh(q, s)'
      BY <2>1, <2>2, <2>4 DEF Fresh
    <3> QED BY <2>2, <2>4, <2>6, <3>1, AnswersStay DEF RowOK, StaleOK, Coming, Promised
  <2> QED BY <2>5, <2>7, <2>8 DEF RowOK
<1>6. CASE RelayReceives(s)
  <2>1. /\ pub'[Relay(s)] = IF Head(chan[s]) = "status" THEN About(s) ELSE Chatter
        /\ pub[Relay(s)].stage = "idle"
        /\ \A q \in Publisher \ {Relay(s)} : pub'[q] = pub[q]
    BY <1>6, Speaking DEF OneSpeaks
  <2>2. /\ chan[s] # <<>> /\ chan'[s] = Tail(chan[s])
        /\ UNCHANGED <<version, loop, signals, log, emitted>>
    BY <1>6, <1>t DEF RelayReceives
  <2>3. ~ Says(Relay(s), s)'
    BY <2>1, <1>h DEF Says, About, Chatter, Stands
  <2>4. /\ pub'[Task(s)] = pub[Task(s)] /\ pub'[Handler(s)] = pub[Handler(s)]
        /\ pub'[Command(s)] = pub[Command(s)]
    BY <2>1, <1>h
  <2>5. StagesOK(s)'
    BY <2>2, <2>4 DEF RowOK, StagesOK
  <2>6. SaysOK(s)'
    BY <2>2, <2>3, <2>4 DEF RowOK, SaysOK, Says
  <2>7. Coming(s) => Coming(s)'
    <3>1. \A q \in Publisher : Fresh(q, s) => Fresh(q, s)'
      BY <2>1, <2>2 DEF Fresh
    <3>2. Head(chan[s]) = "status" => Fresh(Relay(s), s)'
      BY <2>1 DEF Fresh, About, Stands
    <3>3. ASSUME NEW k \in DOMAIN chan[s], chan[s][k] = "status", Head(chan[s]) # "status"
          PROVE  StatusComing(s)'
      <4>1. k - 1 \in DOMAIN Tail(chan[s]) /\ Tail(chan[s])[k - 1] = "status"
        BY <3>3, <1>t, <2>2
      <4> QED BY <4>1, <2>2 DEF StatusComing
    <3> QED BY <3>1, <3>2, <3>3, <2>4, <1>h DEF Coming, Promised, StatusComing
  <2>8. StaleOK(s)'
    BY <2>2, <2>7, AnswersStay DEF RowOK, StaleOK
  <2> QED BY <2>5, <2>6, <2>8 DEF RowOK
<1> QED BY <1>1, <1>2, <1>3, <1>4, <1>5, <1>6 DEF RowActions

(* A reading of the row is of the row as it is. *)
LEMMA RowRead ==
  ASSUME TypeOK, BusInv, HolderInv, [Next]_vars, NEW s \in Swo, RowOK(s),
         NEW p \in Publisher, p[2] = s, ReadRow(p)
  PROVE  RowOK(s)'
<1>h. p \in {Handler(s), Relay(s), Task(s), Command(s)} /\ s # NoSwo
  BY WhoPublishes
<1>1. /\ pub'[p] = Stands("read", pub[p].swo, version[pub[p].swo], 0) /\ pub[p].stage = "due"
      /\ \A q \in Publisher \ {p} : pub'[q] = pub[q]
      /\ pub[p].swo \in Swo
  BY Speaking DEF OneSpeaks
<1>2. UNCHANGED <<version, loop, chan, signals, log, emitted>>
  BY DEF ReadRow, kernelVars
<1>3. pub[p].swo = s
  BY <1>1, BusAssumption DEF HolderInv
<1>4. pub'[p].stage = "read" /\ pub'[p].swo = s /\ pub'[p].version = version[s]
  BY <1>1, <1>3 DEF Stands
<1>5. \A q \in {Handler(s), Relay(s), Task(s), Command(s)} : q # p => pub'[q] = pub[q]
  BY <1>1, Publishers
<1>6. StagesOK(s)'
  BY <1>1, <1>2, <1>4, <1>5 DEF RowOK, StagesOK
<1>7. StatusComing(s)' <=> StatusComing(s)
  BY <1>2 DEF StatusComing
<1>8. SaysOK(s)'
  BY <1>2, <1>4, <1>5, <1>7 DEF RowOK, SaysOK, Says
<1>9. Fresh(p, s)'
  BY <1>2, <1>4 DEF Fresh
<1>10. Coming(s)'
  BY <1>9 DEF Coming
<1>11. StaleOK(s)'
  BY <1>2, <1>10, AnswersStay DEF RowOK, StaleOK
<1> QED BY <1>6, <1>8, <1>11 DEF RowOK

(* Appending and emitting a signal, and starting the loop once the handler has. *)
LEMMA RowSent ==
  ASSUME TypeOK, BusInv, HolderInv, [Next]_vars, NEW s \in Swo, RowOK(s),
         NEW p \in Publisher, p[2] = s, Remember(p) \/ Emit(p)
  PROVE  RowOK(s)'
<1>h. p \in {Handler(s), Relay(s), Task(s), Command(s)} /\ s # NoSwo
      /\ Handler(s) # Relay(s) /\ Handler(s) # Task(s) /\ Relay(s) # Task(s)
      /\ Command(s) # Handler(s) /\ Command(s) # Relay(s) /\ Command(s) # Task(s)
  BY WhoPublishes
<1>1. /\ \/ /\ pub[p].stage = "drawn" /\ loop'[s] = loop[s]
            /\ pub'[p] = Stands("logged", pub[p].swo, pub[p].version, pub[p].cursor)
         \/ /\ pub[p].stage = "logged" /\ pub'[p] = After(p)
            /\ \/ loop'[s] = loop[s]
               \/ p = Handler(s) /\ loop[s] = "starting" /\ loop'[s] = "running"
      /\ \A q \in Publisher \ {p} : pub'[q] = pub[q]
      /\ UNCHANGED <<version, chan, signals>>
  <2>1. CASE Remember(p)
    BY <2>1, Remembering DEF kernelVars
  <2>2. CASE Emit(p)
    BY <2>2, Emitting
  <2> QED BY <2>1, <2>2
<1>2. \A q \in {Handler(s), Relay(s), Task(s), Command(s)} : q # p => pub'[q] = pub[q]
  BY <1>1, Publishers
<1> DEFINE Handed ==
      /\ pub[p].stage \in {"drawn", "logged"} /\ pub'[p].stage \in {"logged", "idle", "due"}
      /\ pub'[p].stage = "logged" => pub'[p].swo = pub[p].swo /\ pub'[p].version = pub[p].version /\ loop'[s] = loop[s]
      /\ \/ loop'[s] = loop[s]
         \/ p = Handler(s) /\ loop[s] = "starting" /\ loop'[s] = "running" /\ pub'[p].stage = "idle"
      /\ p = Command(s) /\ pub[p].swo = NoSwo => (Promised(s) \/ Fresh(p, s))'
<1>3. Handed
  <2>1. ASSUME pub[p].stage = "logged", pub'[p] = After(p),
               \/ loop'[s] = loop[s]
               \/ p = Handler(s) /\ loop[s] = "starting" /\ loop'[s] = "running"
        PROVE  Handed
    <3>1. After(p) = Idle \/ After(p) = About(s)
      BY Afterwards
    <3>2. p = Handler(s) => After(p) = Idle
      BY Afterwards, <1>h
    <3>3. p = Command(s) /\ pub[p].swo = NoSwo => After(p) = About(s)
      BY Afterwards
    <3> QED BY <2>1, <3>1, <3>2, <3>3 DEF Idle, About, Stands, Fresh
  <2>2. ASSUME pub[p].stage = "drawn", loop'[s] = loop[s],
               pub'[p] = Stands("logged", pub[p].swo, pub[p].version, pub[p].cursor)
        PROVE  Handed
    BY <2>2 DEF Stands, Promised
  <2> QED BY <1>1, <2>1, <2>2
<1>4. StagesOK(s)'
  <2>1. StagesOK(s) /\ UNCHANGED <<version, chan, signals>>
    BY <1>1 DEF RowOK
  <2>2. CASE p = Handler(s)
    <3>1. loop[s] = "starting" /\ loop'[s] \in {"starting", "running"}
      BY <2>1, <2>2, <1>3 DEF StagesOK
    <3>2. loop'[s] = "starting" \/ pub'[p].stage = "idle"
      BY <3>1, <1>3
    <3>3. /\ pub'[Relay(s)] = pub[Relay(s)] /\ pub'[Task(s)] = pub[Task(s)]
          /\ pub'[Command(s)] = pub[Command(s)]
      BY <1>2, <1>h, <2>2
    <3> QED BY <2>1, <2>2, <3>1, <3>2, <3>3 DEF StagesOK
  <2>3. CASE p # Handler(s)
    <3>1. loop'[s] = loop[s] /\ pub'[Handler(s)] = pub[Handler(s)]
      BY <1>2, <1>3, <2>3
    <3>2. CASE p = Relay(s)
      <4>1. /\ pub'[Task(s)] = pub[Task(s)] /\ loop[s] \notin {"none", "starting"}
            /\ pub'[Command(s)] = pub[Command(s)] /\ pub[Command(s)].stage = "idle"
        BY <1>2, <1>3, <1>h, <2>1, <3>2 DEF StagesOK
      <4> QED BY <2>1, <3>1, <4>1 DEF StagesOK
    <3>3. CASE p = Task(s)
      <4>1. /\ pub'[Relay(s)] = pub[Relay(s)] /\ loop[s] \notin {"none", "starting", "running"}
            /\ pub'[Command(s)] = pub[Command(s)] /\ pub[Command(s)].stage = "idle"
        BY <1>2, <1>3, <1>h, <2>1, <3>3 DEF StagesOK
      <4> QED BY <2>1, <3>1, <4>1 DEF StagesOK
    <3>4. CASE p = Command(s)
      <4>1. /\ pub'[Relay(s)] = pub[Relay(s)] /\ pub'[Task(s)] = pub[Task(s)]
            /\ loop[s] \in {"returned", "failed"}
            /\ chan[s] = <<>> /\ pub[Relay(s)].stage = "idle" /\ pub[Task(s)].stage = "idle"
        BY <1>2, <1>3, <1>h, <2>1, <3>4 DEF StagesOK
      <4> QED BY <2>1, <3>1, <4>1 DEF StagesOK
    <3> QED BY <1>h, <2>3, <3>2, <3>3, <3>4
  <2> QED BY <2>2, <2>3
<1>5. StatusComing(s)' <=> StatusComing(s)
  BY <1>1 DEF StatusComing
<1>6. SaysOK(s)'
  <2>1. \A q \in {Handler(s), Relay(s), Task(s), Command(s)} :
          Says(q, s)' => Says(q, s) /\ pub'[q].version = pub[q].version
    BY <1>2, <1>3 DEF Says
  <2> QED BY <1>1, <1>5, <2>1 DEF RowOK, SaysOK
<1>7. Coming(s) => Coming(s)'
  <2>1. Fresh(p, s)' => Coming(s)'
    BY DEF Coming
  <2>2. \A q \in Publisher : Fresh(q, s) => Fresh(q, s)'
    BY <1>1, <1>3 DEF Fresh
  <2>3. Promised(s) => (Promised(s) \/ Fresh(p, s))'
    <3>1. CASE p = Command(s)
      BY <1>3, <3>1 DEF Promised
    <3>2. CASE p # Command(s)
      BY <1>2, <3>2 DEF Promised
    <3> QED BY <3>1, <3>2
  <2> QED BY <1>5, <2>1, <2>2, <2>3 DEF Coming
<1>8. StaleOK(s)'
  BY <1>1, <1>7, AnswersStay DEF RowOK, StaleOK
<1> QED BY <1>4, <1>6, <1>8 DEF RowOK

(* Drawing a cursor: what is drawn after stale signals answers them, or more is to
   come. *)
LEMMA RowDrawn ==
  ASSUME TypeOK, BusInv, HolderInv, [Next]_vars, NEW s \in Swo, RowOK(s),
         NEW p \in Publisher, p[2] = s, DrawCursor(p)
  PROVE  RowOK(s)'
<1>n. PICK new : new = Len(signals) + 1
  OBVIOUS
<1>h. p \in {Handler(s), Relay(s), Task(s), Command(s)} /\ s # NoSwo
      /\ Handler(s) # Relay(s) /\ Handler(s) # Task(s) /\ Relay(s) # Task(s)
      /\ Command(s) # Handler(s) /\ Command(s) # Relay(s) /\ Command(s) # Task(s)
  BY WhoPublishes
<1>1. /\ pub[p].stage = "read" /\ pub'[p] = Stands("drawn", pub[p].swo, pub[p].version, new)
      /\ \A q \in Publisher \ {p} : pub'[q] = pub[q]
      /\ DOMAIN signals = 1..Len(signals) /\ DOMAIN signals' = 1..new /\ Len(signals) \in Nat
      /\ signals'[new] = [swo |-> pub[p].swo, version |-> pub[p].version]
      /\ UNCHANGED <<version, loop, chan, log, emitted>>
  BY <1>n, Drawing DEF kernelVars
<1>2. \A c \in DOMAIN signals' : c \in DOMAIN signals \/ c = new
  BY <1>1, <1>n
<1>3. \A c \in DOMAIN signals : c < new
  BY <1>1, <1>n
<1>4. new \in DOMAIN signals' /\ ~ InLog(new, log)
  BY <1>1, <1>n DEF InLog, TypeOK, BusOK
<1>5. pub'[p].stage = "drawn" /\ pub'[p].swo = pub[p].swo /\ pub'[p].version = pub[p].version
  BY <1>1 DEF Stands
<1>6. \A q \in {Handler(s), Relay(s), Task(s), Command(s)} : q # p => pub'[q] = pub[q]
  BY <1>1, Publishers
<1>7. \A c \in DOMAIN signals : signals'[c] = signals[c]
  BY SignalsStay
<1>8. \A q \in {Handler(s), Relay(s), Task(s), Command(s)} :
        /\ pub'[q].stage = "idle" <=> pub[q].stage = "idle"
        /\ Says(q, s)' <=> Says(q, s)
        /\ pub'[q].version = pub[q].version
  BY <1>1, <1>5, <1>6 DEF Says
<1>9. StagesOK(s)'
  <2>1. loop[s] = "none" => signals'[new].swo # s
    BY <1>1, <1>h DEF RowOK, StagesOK
  <2> QED BY <1>1, <1>2, <1>7, <1>8, <2>1 DEF RowOK, StagesOK
<1>10. StatusComing(s)' <=> StatusComing(s)
  BY <1>1 DEF StatusComing
<1>11. SaysOK(s)'
  BY <1>1, <1>8, <1>10 DEF RowOK, SaysOK
<1>12. Stale(new, s)' => StatusComing(s)
  BY <1>1, <1>h DEF Stale, RowOK, SaysOK, Says
<1>13. ASSUME NEW c \in DOMAIN signals, Stale(c, s) PROVE Coming(s)' \/ Answered(c, s)'
  <2>1. CASE Answered(c, s)
    BY <2>1, <1>1, AnswersStay
  <2>2. CASE StatusComing(s)
    BY <2>2, <1>10 DEF Coming
  <2>3. CASE Promised(s)
    <3>1. pub'[Command(s)].swo = NoSwo /\ pub'[Command(s)].stage \in {"read", "drawn", "logged"}
      BY <2>3, <1>5, <1>6 DEF Promised
    <3> QED BY <3>1 DEF Coming, Promised
  <2>4. ASSUME NEW q \in Publisher, Fresh(q, s), q # p PROVE Coming(s)'
    BY <2>4, <1>1 DEF Fresh, Coming
  <2>5. CASE Fresh(p, s) /\ ~ StatusComing(s)
    <3>1. pub[p].swo = s /\ pub[p].version = version[s]
      BY <2>5, <1>1 DEF Fresh
    <3>2. Current(new, s)'
      BY <3>1, <1>1 DEF Current
    <3>3. Ahead(c, new)'
      BY <1>1, <1>4 DEF Ahead, InLog
    <3>4. c \in emitted
      <4> SUFFICES ASSUME c \notin emitted PROVE FALSE
        OBVIOUS
      <4>1. PICK q \in Publisher : Holds(q) /\ pub[q].cursor = c
        BY DEF HolderInv
      <4>2. signals[c] = [swo |-> pub[q].swo, version |-> pub[q].version]
        BY <4>1 DEF HolderInv
      <4>3. pub[q].swo = s /\ pub[q].version # version[s]
        BY <1>13, <4>2 DEF Stale
      <4>4. q \in {Handler(s), Relay(s), Task(s), Command(s)}
        BY <4>3, <1>h, WhoPublishes DEF HolderInv
      <4> QED BY <2>5, <4>1, <4>3, <4>4 DEF RowOK, SaysOK, Says, Holds
    <3> QED BY <3>2, <3>3, <3>4, <1>1, <1>3, <1>4 DEF Answered
  <2> QED BY <2>1, <2>2, <2>3, <2>4, <2>5, <1>13 DEF RowOK, StaleOK, Coming
<1>14. StaleOK(s)'
  <2>1. \A c \in DOMAIN signals : Stale(c, s)' <=> Stale(c, s)
    BY <1>1, AnswersStay
  <2> QED BY <2>1, <1>2, <1>10, <1>12, <1>13 DEF StaleOK, Coming
<1> QED BY <1>9, <1>11, <1>14 DEF RowOK

(* Another row's commands, loop and relay. *)
LEMMA OtherActs ==
  ASSUME TypeOK, BusInv, HolderInv, NEW s \in Swo, NEW t \in Swo, t # s,
         RowActions(t)
  PROVE  /\ version'[s] = version[s] /\ loop'[s] = loop[s] /\ chan'[s] = chan[s]
         /\ \A p \in Publisher : p[2] = s => pub'[p] = pub[p]
         /\ UNCHANGED signals
         /\ Sound(s)' => Sound(s)
<1>1. version'[s] = version[s]
  BY DEF RowActions, Submit, Orders, Cancel, Decide, Revise, WritesUnpublished, OtherWrites,
         LoopWrites, LoopChatters, LoopReturns, LoopFails, RelayReceives, Write,
         TypeOK, KernelOK
<1>2. loop'[s] = loop[s]
  BY DEF RowActions, Submit, Orders, Cancel, Decide, Revise, WritesUnpublished, OtherWrites,
         LoopWrites, LoopChatters, LoopReturns, LoopFails, RelayReceives, TypeOK, KernelOK
<1>3. chan'[s] = chan[s]
  <2>1. \A event : Sent(t, event)[s] = chan[s]
    BY DEF Sent, TypeOK, KernelOK
  <2> QED BY <2>1
      DEF RowActions, Submit, Orders, Cancel, Decide, Revise, WritesUnpublished, OtherWrites,
          LoopWrites, TrySend, LoopChatters, LoopReturns, LoopFails, RelayReceives,
          TypeOK, KernelOK
<1>4. \A p \in Publisher : p[2] = s => pub'[p] = pub[p]
  <2>1. CASE LoopWrites(t) \/ LoopChatters(t) \/ WritesUnpublished(t)
    BY <2>1 DEF LoopWrites, LoopChatters, WritesUnpublished, busVars
  <2>2. CASE \/ Submit(t) \/ Cancel(t) \/ Decide(t) \/ Revise(t)
             \/ LoopReturns(t) \/ LoopFails(t) \/ RelayReceives(t)
    <3>1. \E q \in {Handler(t), Task(t), Relay(t), Command(t)} : OneSpeaks(q)
      BY <2>2, Speaking
    <3>2. \A q \in {Handler(t), Task(t), Relay(t), Command(t)} : q[2] # s
      BY WhoPublishes
    <3> QED BY <3>1, <3>2 DEF OneSpeaks
  <2> QED BY <2>1, <2>2 DEF RowActions, Orders
<1>5. UNCHANGED signals
  BY DEF RowActions, Submit, Orders, Cancel, Decide, Revise, WritesUnpublished, OtherWrites,
         LoopWrites, LoopChatters, LoopReturns, LoopFails, RelayReceives, busVars
<1>6. dropped \subseteq dropped' /\ beside \subseteq beside'
  BY DEF RowActions, Submit, Orders, Cancel, Decide, Revise, WritesUnpublished, OtherWrites,
         LoopWrites, TrySend, LoopChatters, LoopReturns, LoopFails, RelayReceives, Beside
<1> QED BY <1>1, <1>2, <1>3, <1>4, <1>5, <1>6 DEF Sound

(* A row once dropped, or written beside its publishers, stays so. *)
LEMMA SoundStays == ASSUME TypeOK, [Next]_vars, NEW s \in Swo, Sound(s)' PROVE Sound(s)
<1>1. ASSUME NEW t \in Swo, RowActions(t)
      PROVE  dropped \subseteq dropped' /\ beside \subseteq beside'
  BY <1>1
  DEF RowActions, Submit, Orders, Cancel, Decide, Revise, WritesUnpublished, OtherWrites,
      LoopWrites, TrySend, LoopChatters, LoopReturns, LoopFails, RelayReceives, Beside
<1>2. ASSUME NEW p \in Publisher,
             ReadRow(p) \/ ReadFails(p) \/ DrawCursor(p) \/ Remember(p) \/ Emit(p)
      PROVE  dropped \subseteq dropped' /\ beside \subseteq beside'
  BY <1>2 DEF ReadRow, ReadFails, DrawCursor, Remember, Emit, kernelVars
<1>3. ASSUME NEW i \in Try, ReadsRows(i) \/ Boots(i) \/ BootFails(i) \/ Replays(i) \/ Listens(i)
      PROVE  UNCHANGED <<dropped, beside>>
  BY <1>3 DEF ReadsRows, Boots, Hydrates, BootFails, Replays, Listens, kernelVars
<1>4. CASE UNCHANGED vars
  BY <1>4 DEF vars, kernelVars, Sound
<1> QED BY <1>1, <1>2, <1>3, <1>4 DEF Next, Sound, RowActions, Orders

(* Every step keeps what is said of a row true, or to be corrected. *)
LEMMA RowStep == ASSUME TypeOK, BusInv, HolderInv, RowInv, [Next]_vars PROVE RowInv'
<1> SUFFICES ASSUME NEW s \in Swo, Sound(s)' PROVE RowOK(s)'
  BY DEF RowInv
<1>0. RowOK(s)
  BY SoundStays DEF RowInv
<1>1. ASSUME NEW t \in Swo, RowActions(t)
      PROVE  RowOK(s)'
  <2>1. CASE t = s
    BY <1>0, <1>1, <2>1, RowActs
  <2>2. CASE t # s
    BY <1>0, <1>1, <2>2, OtherActs, RowAside
  <2> QED BY <2>1, <2>2
<1>2. ASSUME NEW p \in Publisher, p[2] = s, ReadRow(p) \/ DrawCursor(p) \/ Remember(p) \/ Emit(p)
      PROVE  RowOK(s)'
  BY <1>0, <1>2, RowRead, RowDrawn, RowSent
<1>7. ASSUME NEW p \in Publisher, ReadFails(p) PROVE RowOK(s)'
  <2>1. OneSpeaks(p) /\ pub[p].stage = "due" /\ pub[p].swo \in dropped'
    BY <1>7, Speaking
  <2>2. p[2] # s
    <3>1. pub[p].swo # s
      BY <2>1 DEF Sound
    <3>2. pub[p].swo \in Swo
      BY <2>1 DEF TypeOK, PubOK
    <3> QED BY <3>1, <3>2, BusAssumption DEF HolderInv
  <2>3. UNCHANGED <<version, chan, signals>> /\ loop'[s] = loop[s]
    BY <1>7, <2>2 DEF ReadFails, Starts, TypeOK, KernelOK, Publisher
  <2>4. \A q \in Publisher : q[2] = s => pub'[q] = pub[q]
    BY <2>1, <2>2 DEF OneSpeaks
  <2> QED BY <1>0, <2>3, <2>4, RowAside
<1>3. ASSUME NEW p \in Publisher, p[2] # s, ReadRow(p) \/ DrawCursor(p) \/ Remember(p) \/ Emit(p)
      PROVE  RowOK(s)'
  <2>1. \A q \in Publisher : q[2] = s => q # p
    BY <1>3
  <2>2. p # Handler(s)
    BY <2>1, WhoPublishes, Publishers
  <2>3. CASE ReadRow(p)
    <3>1. UNCHANGED <<version, loop, chan, signals>> /\ \A q \in Publisher \ {p} : pub'[q] = pub[q]
      BY <2>3, Speaking DEF ReadRow, kernelVars, OneSpeaks
    <3> QED BY <1>0, <2>1, <3>1, RowAside
  <2>4. CASE DrawCursor(p)
    <3>1. /\ UNCHANGED <<version, loop, chan>> /\ \A q \in Publisher \ {p} : pub'[q] = pub[q]
          /\ DOMAIN signals' = 1..(Len(signals) + 1) /\ DOMAIN signals = 1..Len(signals) /\ Len(signals) \in Nat
          /\ signals'[Len(signals) + 1] = [swo |-> pub[p].swo, version |-> pub[p].version]
      BY <2>4, Drawing DEF kernelVars
    <3>2. \A c \in DOMAIN signals' \ DOMAIN signals : c = Len(signals) + 1
      BY <3>1
    <3>3. pub[p].swo # s
      BY <1>3, WhoPublishes DEF HolderInv
    <3>4. \A c \in DOMAIN signals' \ DOMAIN signals : signals'[c].swo # s
      BY <3>1, <3>2, <3>3
    <3> QED BY <1>0, <2>1, <3>1, <3>4, RowAside
  <2>5. CASE Remember(p)
    <3>1. UNCHANGED <<version, loop, chan, signals>> /\ \A q \in Publisher \ {p} : pub'[q] = pub[q]
      BY <2>5, Remembering DEF kernelVars
    <3> QED BY <1>0, <2>1, <3>1, RowAside
  <2>6. CASE Emit(p)
    <3>1. UNCHANGED <<version, chan, signals>> /\ \A q \in Publisher \ {p} : pub'[q] = pub[q]
      BY <2>6, Emitting
    <3>2. loop'[s] = loop[s]
      BY <2>2, <2>6, Emitting
    <3> QED BY <1>0, <2>1, <3>1, <3>2, RowAside
  <2> QED BY <1>3, <2>3, <2>4, <2>5, <2>6
<1>4. ASSUME UNCHANGED <<kernelVars, busVars>> PROVE RowOK(s)'
  BY <1>0, <1>4, RowAside DEF kernelVars, busVars
<1>5. ASSUME NEW i \in Try, ReadsRows(i) \/ Boots(i) \/ BootFails(i) \/ Replays(i) \/ Listens(i)
      PROVE  RowOK(s)'
  BY <1>4, <1>5 DEF ReadsRows, Boots, Hydrates, BootFails, Replays, Listens
<1>6. CASE UNCHANGED vars
  BY <1>4, <1>6 DEF vars
<1> QED BY <1>1, <1>2, <1>3, <1>5, <1>6, <1>7 DEF Next, RowActions, Orders

(* Only the first call of init gets on. *)
LEMMA FirstTry ==
  ASSUME TypeOK, BusInv, NEW i \in Try,
         ReadsRows(i) \/ Boots(i) \/ BootFails(i) \/ Replays(i) \/ Listens(i) \/ Listening(i)
  PROVE  i = 1
<1>1. try[i].stage # "off" \/ i <= attempts
  BY DEF ReadsRows, Boots, Hydrates, BootFails, Replays, Listens, Listening
<1> QED BY <1>1 DEF BusInv, HeardInv, Try

(* Steps of the kernel and of publishers that do not emit leave the desktop alone. *)
LEMMA DesktopAside ==
  ASSUME TypeOK, [Next]_vars,
         \A p \in Publisher : ~ Emit(p),
         \A i \in Try : ~ (ReadsRows(i) \/ Boots(i) \/ BootFails(i) \/ Replays(i) \/ Listens(i))
  PROVE  UNCHANGED desktopVars
<1>1. ASSUME NEW p \in Publisher, DrawCursor(p) \/ Remember(p) PROVE UNCHANGED desktopVars
  BY <1>1 DEF DrawCursor, Remember
<1>2. ASSUME QuietStep PROVE UNCHANGED desktopVars
  BY <1>2 DEF QuietStep
<1> QED BY <1>1, <1>2, Quiet DEF Next

(* Where the first call stands after a step of its own. *)
LEMMA TryStep ==
  ASSUME TypeOK, BusInv
  PROVE  /\ 1 \in Try
         /\ ReadsRows(1) => try[1].stage = "off" /\ try'[1] =
              [stage |-> "reading", boot |-> [rows |-> version, since |-> Len(signals), cursor |-> 0]]
         /\ Boots(1) => try[1].stage = "reading" /\ try'[1] =
              [stage |-> "booted", boot |-> [rows |-> try[1].boot.rows, since |-> try[1].boot.since,
                                             cursor |-> Len(signals)]]
         /\ BootFails(1) => try[1].stage \in {"off", "reading"} /\ try'[1].stage = "failed"
         /\ Replays(1) => try[1].stage = "booted" /\ try'[1] = [stage |-> "replayed", boot |-> try[1].boot]
         /\ Listens(1) => try[1].stage = "replayed" /\ try'[1] = [stage |-> "listening", boot |-> try[1].boot]
<1>1. 1 \in Try /\ try \in [Try -> [stage : TryStage, boot : Bootstrap]]
  BY BusAssumption DEF Try, TypeOK, DesktopOK
<1> QED BY <1>1 DEF ReadsRows, Boots, Hydrates, BootFails, Replays, Listens, Goto

(* Every step keeps what the desktop has at each stage of the call. *)
LEMMA DesktopStep == ASSUME TypeOK, BusInv, DesktopInv, [Next]_vars PROVE DesktopInv'
<1>0. Len(signals) \in Nat /\ Len(signals') \in Nat /\ Len(signals) <= Len(signals')
  <2>1. TypeOK'
    BY TypeStep
  <2>2. Len(signals) \in Nat /\ DOMAIN signals = 1..Len(signals)
        /\ Len(signals') \in Nat /\ DOMAIN signals' = 1..Len(signals')
    BY <2>1 DEF TypeOK, BusOK
  <2>3. 1..Len(signals) \subseteq 1..Len(signals')
    BY <2>2, SignalsStay
  <2> QED BY <2>2, <2>3
<1>t. /\ try[1].boot \in Bootstrap /\ 1 \in Try
      /\ try[1].boot.rows \in [Swo -> Nat] /\ try[1].boot.since \in Nat
  BY BusAssumption DEF TypeOK, DesktopOK, Bootstrap, Try
<1>1. CASE UNCHANGED desktopVars
  BY <1>0, <1>1, <1>t DEF desktopVars, DesktopInv, Trying
<1>2. ASSUME NEW p \in Publisher, Emit(p) PROVE DesktopInv'
  <2>1. UNCHANGED <<signals, try, attached>>
    BY <1>2 DEF Emit
  <2>2. CASE UNCHANGED <<heard, view>>
    BY <2>1, <2>2 DEF DesktopInv, Trying
  <2>3. CASE \E i \in Try : Listening(i)
    <3>1. try[1].stage = "listening"
      BY <2>3, FirstTry DEF Listening
    <3> QED BY <2>1, <3>1 DEF DesktopInv, Trying
  <2> QED BY <1>2, <2>2, <2>3 DEF Emit
<1>3. CASE ReadsRows(1)
  <2>1. try[1].stage = "off" /\ try'[1].stage = "reading" /\ try'[1].boot.since = Len(signals)
    BY <1>3, TryStep
  <2>2. UNCHANGED <<attached, heard, view, signals>>
    BY <1>3 DEF ReadsRows, busVars
  <2> QED BY <1>0, <2>1, <2>2 DEF DesktopInv, Trying
<1>4. CASE Boots(1)
  <2>1. /\ try[1].stage = "reading" /\ try'[1].stage = "booted"
        /\ try'[1].boot = [rows |-> try[1].boot.rows, since |-> try[1].boot.since, cursor |-> Len(signals)]
    BY <1>4, TryStep
  <2>2. UNCHANGED <<attached, heard, signals>>
    BY <1>4 DEF Boots, Hydrates, busVars
  <2>3. view' = [s \in Swo |-> IF try[1].boot.rows[s] = 0 THEN view[s] ELSE try[1].boot.rows[s]]
    BY <1>4 DEF Boots, Hydrates, Hydrated, DesktopInv
  <2>4. view' = try[1].boot.rows
    BY <2>1, <2>3, <1>t DEF DesktopInv, Trying
  <2> QED BY <1>0, <2>1, <2>2, <2>4 DEF DesktopInv, Trying
<1>5. CASE BootFails(1)
  <2>1. try[1].stage \in {"off", "reading"} /\ try'[1].stage = "failed"
    BY <1>5, TryStep
  <2> QED BY <1>5, <2>1 DEF BootFails, DesktopInv, Trying
<1>6. CASE Replays(1)
  <2>1. try[1].stage = "booted" /\ try'[1].stage = "replayed" /\ try'[1].boot = try[1].boot
    BY <1>6, TryStep
  <2> QED BY <1>6, <2>1 DEF Replays, busVars, DesktopInv, Trying
<1>7. CASE Listens(1)
  <2>1. try[1].stage = "replayed" /\ try'[1].stage = "listening" /\ try'[1].boot = try[1].boot
    BY <1>7, TryStep
  <2> QED BY <1>7, <2>1 DEF Listens, busVars, DesktopInv, Trying
<1> QED BY <1>1, <1>2, <1>3, <1>4, <1>5, <1>6, <1>7, FirstTry, DesktopAside

(* What is yet to be said of a row stays so until it is drawn. *)
LEMMA ComingStays ==
  ASSUME TypeOK, BusInv, HolderInv, RowInv, [Next]_vars, NEW s \in Swo, Sound(s)',
         Coming(s) \/ version'[s] # version[s]
  PROVE  \/ Coming(s)'
         \/ \E c \in DOMAIN signals' \ DOMAIN signals, p \in Publisher : DrawCursor(p) /\ Current(c, s)'
<1>h. /\ Handler(s) \in Publisher /\ Relay(s) \in Publisher /\ Task(s) \in Publisher
      /\ Command(s) \in Publisher
      /\ Command(s) # Handler(s) /\ Command(s) # Relay(s) /\ Command(s) # Task(s)
  BY Publishers, WhoPublishes
<1>c. Coming(s) \/ version'[s] # version[s]
  OBVIOUS
<1>t. chan[s] \in Seq({"status", "chatter"}) /\ version \in [Swo -> Nat] /\ chan \in [Swo -> Seq({"status", "chatter"})]
  BY DEF TypeOK, KernelOK
<1>1. CASE Submit(s)
  <2>1. pub'[Handler(s)] = About(s)
    BY <1>1, Speaking
  <2>2. Fresh(Handler(s), s)'
    BY <2>1 DEF Fresh, About, Stands
  <2> QED BY <2>2, <1>h DEF Coming
<1>2. CASE Orders(s)
  <2>1. Cancel(s) \/ Decide(s) \/ Revise(s)
    BY <1>2, Ordered
  <2>2. \/ pub'[Command(s)] \in {About(s), Chatter}
        \/ pub'[Handler(s)] = About(s)
    BY <2>1, Speaking
  <2> QED BY <2>2, <1>h DEF Coming, Promised, Fresh, About, Chatter, Stands
<1>3. CASE LoopWrites(s)
  <2>1. ~Full(s) /\ chan' = Sent(s, "status")
    BY <1>3 DEF LoopWrites, TrySend, Sound
  <2>2. chan'[s] = Append(chan[s], "status")
    BY <2>1, <1>t DEF Sent
  <2>3. /\ Len(chan[s]) + 1 \in DOMAIN Append(chan[s], "status")
        /\ Append(chan[s], "status")[Len(chan[s]) + 1] = "status"
    BY <1>t
  <2> QED BY <2>2, <2>3 DEF Coming, StatusComing
<1>4. CASE LoopChatters(s)
  <2>1. UNCHANGED <<version, pub>> /\ chan'[s] = Append(chan[s], "chatter")
    BY <1>4, <1>t DEF LoopChatters, busVars, Sent
  <2>2. \A k \in DOMAIN chan[s] : /\ k \in DOMAIN Append(chan[s], "chatter")
                                  /\ Append(chan[s], "chatter")[k] = chan[s][k]
    BY <1>t
  <2> QED BY <2>1, <2>2 DEF Coming, Promised, StatusComing, Fresh
<1>5. CASE LoopReturns(s) \/ LoopFails(s)
  <2>1. UNCHANGED <<version, chan>> /\ pub[Task(s)].stage = "idle" /\ \A q \in Publisher \ {Task(s)} : pub'[q] = pub[q]
    BY <1>5, Speaking DEF OneSpeaks, LoopReturns, LoopFails, Publish
  <2>2. pub'[Command(s)] = pub[Command(s)]
    BY <2>1, <1>h
  <2> QED BY <2>1, <2>2 DEF Coming, Promised, StatusComing, Fresh
<1>6. CASE RelayReceives(s)
  <2>1. /\ pub'[Relay(s)] = IF Head(chan[s]) = "status" THEN About(s) ELSE Chatter
        /\ pub[Relay(s)].stage = "idle"
        /\ \A q \in Publisher \ {Relay(s)} : pub'[q] = pub[q]
        /\ chan[s] # <<>> /\ chan'[s] = Tail(chan[s]) /\ UNCHANGED version
    BY <1>6, <1>t, Speaking DEF OneSpeaks, RelayReceives
  <2>2. Head(chan[s]) = "status" => Fresh(Relay(s), s)'
    BY <2>1 DEF Fresh, About, Stands
  <2>3. ASSUME NEW k \in DOMAIN chan[s], chan[s][k] = "status", Head(chan[s]) # "status"
        PROVE  StatusComing(s)'
    <3>1. k - 1 \in DOMAIN Tail(chan[s]) /\ Tail(chan[s])[k - 1] = "status"
      BY <2>3, <1>t, <2>1
    <3> QED BY <3>1, <2>1 DEF StatusComing
  <2>4. \A q \in Publisher : Fresh(q, s) => Fresh(q, s)'
    BY <2>1 DEF Fresh
  <2>5. pub'[Command(s)] = pub[Command(s)]
    BY <2>1, <1>h
  <2> QED BY <2>1, <2>2, <2>3, <2>4, <2>5, <1>h DEF Coming, Promised, StatusComing
<1>7. ASSUME NEW t \in Swo, t # s, RowActions(t)
      PROVE  Coming(s)'
  <2>1. /\ version'[s] = version[s] /\ chan'[s] = chan[s]
        /\ \A p \in Publisher : p[2] = s => pub'[p] = pub[p]
    BY <1>7, OtherActs
  <2>2. \A p \in Publisher : pub[p].swo = s => p[2] = s
    BY WhoPublishes DEF HolderInv
  <2>3. pub'[Command(s)] = pub[Command(s)]
    BY <2>1, <1>h, WhoPublishes
  <2> QED BY <2>1, <2>2, <2>3 DEF Coming, Promised, StatusComing, Fresh
<1>8. ASSUME NEW p \in Publisher, ReadRow(p) PROVE Coming(s)'
  <2>1. /\ pub[p].stage = "due" /\ pub'[p] = Stands("read", pub[p].swo, version[pub[p].swo], 0)
        /\ \A q \in Publisher \ {p} : pub'[q] = pub[q]
        /\ UNCHANGED <<version, chan>>
    BY <1>8, Speaking DEF OneSpeaks, ReadRow, kernelVars
  <2>2. \A q \in Publisher : Fresh(q, s) => Fresh(q, s)'
    BY <2>1 DEF Fresh, Stands
  <2>3. Promised(s) => Promised(s)'
    BY <2>1, <1>h DEF Promised
  <2> QED BY <2>1, <2>2, <2>3 DEF Coming, StatusComing
<1>14. ASSUME NEW p \in Publisher, ReadFails(p) PROVE Coming(s)'
  <2>1. OneSpeaks(p) /\ pub[p].stage = "due" /\ pub[p].swo # s
    BY <1>14, Speaking DEF Sound
  <2>2. UNCHANGED <<version, chan>>
    BY <1>14 DEF ReadFails
  <2>3. \A q \in Publisher : Fresh(q, s) => Fresh(q, s)'
    BY <2>1, <2>2 DEF OneSpeaks, Fresh
  <2>4. Promised(s) => Promised(s)'
    BY <2>1, <1>h DEF OneSpeaks, Promised
  <2> QED BY <2>2, <2>3, <2>4 DEF Coming, StatusComing
<1>9. ASSUME NEW p \in Publisher, DrawCursor(p)
      PROVE  Coming(s)' \/ \E c \in DOMAIN signals' \ DOMAIN signals : Current(c, s)'
  <2>n. PICK new : new = Len(signals) + 1
    OBVIOUS
  <2>1. /\ pub[p].stage = "read" /\ UNCHANGED <<version, chan>>
        /\ \A q \in Publisher \ {p} : pub'[q] = pub[q]
        /\ signals'[new] = [swo |-> pub[p].swo, version |-> pub[p].version]
    BY <1>9, <2>n, Drawing DEF kernelVars
  <2>2. \A q \in Publisher \ {p} : Fresh(q, s) => Fresh(q, s)'
    BY <2>1 DEF Fresh
  <2>7. Promised(s) => Promised(s)'
    <3>1. pub'[p].stage = "drawn" /\ pub'[p].swo = pub[p].swo
      <4>1. pub'[p] = Stands("drawn", pub[p].swo, pub[p].version, Len(signals) + 1)
        BY <1>9, Drawing
      <4> QED BY <4>1 DEF Stands
    <3> QED BY <2>1, <3>1, <1>h DEF Promised
  <2>3. Fresh(p, s) => Current(new, s)'
    BY <2>1 DEF Fresh, Current
  <2>4. new \in DOMAIN signals' \ DOMAIN signals
    <3>1. /\ Len(signals) \in Nat /\ DOMAIN signals = 1..Len(signals)
          /\ DOMAIN signals' = 1..(Len(signals) + 1)
      BY <1>9, Drawing
    <3> QED BY <3>1, <2>n
  <2>5. CASE Fresh(p, s)
    BY <2>3, <2>4, <2>5
  <2>6. CASE ~ Fresh(p, s)
    <3>1. Coming(s)
      BY <2>1, <1>c
    <3> QED BY <2>1, <2>2, <2>6, <2>7, <3>1 DEF Coming, StatusComing
  <2> QED BY <2>5, <2>6
<1>10. ASSUME NEW p \in Publisher, Remember(p) \/ Emit(p) PROVE Coming(s)'
  <2>1. /\ pub[p].stage \in {"drawn", "logged"} /\ UNCHANGED <<version, chan>>
        /\ \A q \in Publisher \ {p} : pub'[q] = pub[q]
    BY <1>10, Remembering, Emitting DEF kernelVars
  <2>2. \A q \in Publisher : Fresh(q, s) => Fresh(q, s)'
    BY <2>1 DEF Fresh
  <2>3. Promised(s) => (Promised(s) \/ Fresh(Command(s), s))'
    <3>1. CASE p # Command(s)
      BY <2>1, <3>1, <1>h DEF Promised
    <3>2. CASE p = Command(s) /\ Remember(p)
      <4>1. pub'[p] = Stands("logged", pub[p].swo, pub[p].version, pub[p].cursor)
        BY <3>2, Remembering
      <4> QED BY <3>2, <4>1 DEF Promised, Stands
    <3>3. CASE p = Command(s) /\ Emit(p)
      BY <3>3, Emitting, Afterwards DEF Promised, Fresh, About, Stands
    <3> QED BY <1>10, <3>1, <3>2, <3>3
  <2> QED BY <2>1, <2>2, <2>3, <1>h DEF Coming, StatusComing
<1>11. ASSUME UNCHANGED <<kernelVars, busVars>> PROVE Coming(s)'
  BY <1>11 DEF kernelVars, busVars, Coming, Promised, StatusComing, Fresh
<1>12. ASSUME NEW i \in Try, ReadsRows(i) \/ Boots(i) \/ BootFails(i) \/ Replays(i) \/ Listens(i)
       PROVE  Coming(s)'
  BY <1>11, <1>12 DEF ReadsRows, Boots, Hydrates, BootFails, Replays, Listens
<1>13. CASE UNCHANGED vars
  BY <1>11, <1>13 DEF vars
<1> QED
  BY <1>1, <1>2, <1>3, <1>4, <1>5, <1>6, <1>7, <1>8, <1>9, <1>10, <1>12, <1>13, <1>14
  DEF Next, RowActions, Orders

(* A call replays: what it shows of a row is the row, unless more is to come. *)
LEMMA ScreenReplayed ==
  ASSUME TypeOK, BusInv, HolderInv, RowInv, DesktopInv, ScreenInv, [Next]_vars, Replays(1),
         NEW s \in Swo, Sound(s), ~ Coming(s),
         \A c \in DOMAIN signals : Current(c, s) /\ c > try[1].boot.since => c \in heard'
  PROVE  view'[s] = version[s]
<1> DEFINE replay == Replay(try[1].boot.cursor)
           had    == {log[k] : k \in replay}
           about  == {k \in replay : signals[log[k]].swo = s}
           last   == CHOOSE k \in about : \A m \in about : m <= k
<1>1. try[1].stage = "booted" /\ attached /\ heard = {} /\ view = try[1].boot.rows
  BY TryStep DEF DesktopInv, Trying
<1>2. heard' = had /\ view' = ShownAll(replay)
  BY <1>1 DEF Replays
<1>3. /\ Len(log) \in Nat /\ replay \subseteq 1..Len(log)
      /\ \A k \in replay : log[k] \in DOMAIN signals /\ log[k] > try[1].boot.cursor
  BY DEF Replay, Retained, TypeOK, BusOK
<1>4. /\ try[1].boot.since \in Nat /\ try[1].boot.cursor \in Nat
      /\ try[1].boot.since <= try[1].boot.cursor
  <2>1. try[1].boot \in Bootstrap
    BY TryStep DEF TypeOK, DesktopOK
  <2> QED BY <1>1, <2>1 DEF Bootstrap, DesktopInv, Trying
<1>5. DOMAIN signals \subseteq Nat
  BY DEF TypeOK, BusOK
<1>6. CASE about = {}
  <2>1. view'[s] = view[s]
    BY <1>2, <1>6 DEF ShownAll
  <2>2. \A c \in DOMAIN signals : Current(c, s) => c \notin had
    BY <1>6 DEF Current
  <2>3. Screen(s) = version[s]
    <3> HIDE DEF had
    <3> QED BY <1>1, <1>2, <2>2 DEF ScreenInv, ScreenOK, Trying
  <2>4. Screen(s) = view[s]
    BY <1>1 DEF Screen, Trying
  <2> QED BY <2>1, <2>3, <2>4
<1>7. CASE about # {}
  <2>1. about \in SUBSET (1..Len(log))
    BY <1>3
  <2>2. \E k \in about : \A m \in about : m <= k
    <3> HIDE DEF about
    <3> QED BY <1>3, <2>1, <1>7, Greatest
  <2>3. last \in about /\ \A m \in about : m <= last
    <3> HIDE DEF about
    <3> QED BY <2>2
  <2>4. view'[s] = signals[log[last]].version
    BY <1>2, <1>7 DEF ShownAll
  <2> HIDE DEF last
  <2>c. PICK c : c = log[last]
    OBVIOUS
  <2>5. c \in DOMAIN signals /\ signals[c].swo = s /\ c > try[1].boot.cursor
    BY <2>3, <2>c, <1>3
  <2>6. SUFFICES ASSUME Stale(c, s) PROVE FALSE
    BY <2>4, <2>5, <2>c DEF Stale
  <2>8. PICK d \in DOMAIN signals : Current(d, s) /\ d > c /\ Ahead(c, d)
    BY <2>5, <2>6 DEF RowInv, RowOK, StaleOK, Answered
  <2>9. d > try[1].boot.since
    BY <1>4, <1>5, <2>5, <2>8
  <2>10. d \in had
    BY <1>2, <2>8, <2>9
  <2>11. PICK m \in replay : log[m] = d
    BY <2>10
  <2>12. m \in about
    BY <2>8, <2>11 DEF Current
  <2>13. m <= last /\ m \in 1..Len(log) /\ last \in 1..Len(log)
    BY <2>1, <2>3, <2>12
  <2>14. last < m
    <3> HIDE DEF replay
    <3>1. DOMAIN log = 1..Len(log)
      BY DEF TypeOK, BusOK
    <3> QED BY <2>8, <2>11, <2>13, <2>c, <3>1 DEF Ahead
  <2> HIDE DEF replay, about
  <2> QED BY <2>13, <2>14
<1> QED BY <1>6, <1>7

(* Every step keeps the screen right, or in the way of becoming so. *)
LEMMA ScreenStep ==
  ASSUME TypeOK, BusInv, HolderInv, RowInv, DesktopInv, ScreenInv, [Next]_vars
  PROVE  ScreenInv'
<1> SUFFICES ASSUME Trying({"reading", "booted", "replayed", "listening"})',
                    NEW s \in Swo, Sound(s)'
             PROVE  ScreenOK(s)'
  BY DEF ScreenInv
<1>0. Sound(s)
  BY SoundStays
<1>t. 1 \in Try /\ try[1].boot.since \in Nat /\ DOMAIN signals = 1..Len(signals) /\ Len(signals) \in Nat
  BY BusAssumption DEF Try, TypeOK, DesktopOK, Bootstrap, BusOK
<1>1. CASE UNCHANGED desktopVars
  <2>1. Screen(s)' = Screen(s) /\ UNCHANGED <<try, heard>>
    BY <1>1 DEF desktopVars, Screen, Trying
  <2>2. ScreenOK(s) /\ try[1].boot.since <= Len(signals)
    BY <1>0, <2>1 DEF ScreenInv, Trying, DesktopInv
  <2>3. CASE Coming(s) \/ version'[s] # version[s]
    <3>1. CASE Coming(s)'
      BY <3>1 DEF ScreenOK
    <3>2. ASSUME NEW c \in DOMAIN signals' \ DOMAIN signals, Current(c, s)', NEW p \in Publisher, DrawCursor(p)
          PROVE  ScreenOK(s)'
      <4>1. c = Len(signals) + 1
        <5>1. DOMAIN signals' = 1..(Len(signals) + 1)
          BY <3>2, Drawing
        <5> QED BY <3>2, <5>1, <1>t
      <4>2. c > try'[1].boot.since
        BY <4>1, <2>1, <2>2, <1>t
      <4>3. c \notin heard'
        BY <2>1 DEF TypeOK, DesktopOK
      <4> QED BY <3>2, <4>2, <4>3 DEF ScreenOK
    <3> QED BY <2>3, <3>1, <3>2, ComingStays
  <2>4. CASE ~ Coming(s) /\ version'[s] = version[s]
    <3>1. \A c \in DOMAIN signals : Current(c, s)' <=> Current(c, s)
      BY <2>4, AnswersStay
    <3> QED BY <2>1, <2>2, <2>4, <3>1, SignalsStay DEF ScreenOK
  <2> QED BY <2>3, <2>4
<1>2. ASSUME UNCHANGED <<kernelVars, busVars>>
      PROVE  /\ version'[s] = version[s] /\ DOMAIN signals' = DOMAIN signals /\ (Coming(s)' <=> Coming(s))
             /\ \A c \in DOMAIN signals : Current(c, s)' <=> Current(c, s)
  BY <1>2 DEF kernelVars, busVars, Coming, Promised, StatusComing, Fresh, Current
<1>3. ASSUME NEW p \in Publisher, Emit(p) PROVE ScreenOK(s)'
  <2> DEFINE c == pub[p].cursor
  <2>1. /\ pub[p].stage = "logged" /\ c \in DOMAIN signals /\ UNCHANGED <<version, chan, signals, try, attached>>
        /\ \A q \in Publisher \ {p} : pub'[q] = pub[q]
    BY <1>3, Emitting
  <2>2. ScreenOK(s)
    BY <1>0, <2>1 DEF ScreenInv, Trying
  <2>3. Coming(s) => Coming(s)'
    <3>1. \A q \in Publisher : Fresh(q, s) => Fresh(q, s)'
      BY <2>1 DEF Fresh
    <3>2. Promised(s) => (Promised(s) \/ Fresh(Command(s), s))'
      <4>1. CASE p # Command(s)
        BY <2>1, <4>1, Publishers DEF Promised
      <4>2. CASE p = Command(s)
        BY <1>3, <4>2, Emitting, Afterwards DEF Promised, Fresh, About, Stands
      <4> QED BY <4>1, <4>2
    <3> QED BY <2>1, <3>1, <3>2, Publishers DEF Coming, StatusComing
  <2>4. \A d \in DOMAIN signals : Current(d, s)' <=> Current(d, s)
    BY <2>1, AnswersStay
  <2>5. CASE UNCHANGED <<heard, view>>
    <3>1. Screen(s)' = Screen(s)
      BY <2>1, <2>5 DEF Screen, Trying
    <3> QED BY <2>1, <2>2, <2>3, <2>4, <2>5, <3>1 DEF ScreenOK
  <2>6. CASE (\E i \in Try : Listening(i)) /\ heard' = heard \cup {c} /\ view' = Shown(c, view)
    <3>1. Trying({"listening"})
      BY <2>6, FirstTry DEF Listening, Trying
    <3>2. Screen(s) = view[s] /\ Screen(s)' = view'[s]
      BY <3>1, <2>1 DEF Screen, Trying
    <3>3. view \in [Swo -> Nat]
      BY DEF TypeOK, DesktopOK
    <3>4. CASE signals[c].swo # s
      <4>1. view'[s] = view[s]
        BY <2>6, <3>3, <3>4 DEF Shown
      <4>2. \A d : Current(d, s) => d # c
        BY <3>4 DEF Current
      <4> HIDE DEF c
      <4> QED BY <2>1, <2>2, <2>3, <2>4, <2>6, <3>2, <4>1, <4>2 DEF ScreenOK
    <3>5. CASE signals[c].swo = s
      <4>1. view'[s] = signals[c].version
        BY <2>6, <3>3, <3>5, BusAssumption DEF Shown
      <4>2. CASE signals[c].version = version[s]
        BY <2>1, <3>2, <4>1, <4>2 DEF ScreenOK
      <4>3. CASE signals[c].version # version[s]
        <5>1. signals[c] = [swo |-> pub[p].swo, version |-> pub[p].version]
          BY <2>1 DEF HolderInv, Holds
        <5>2. pub[p].swo = s /\ pub[p].version # version[s]
          BY <3>5, <4>3, <5>1
        <5>3. p \in {Handler(s), Relay(s), Task(s), Command(s)}
          BY <5>2, WhoPublishes DEF HolderInv
        <5>4. StatusComing(s)
          BY <1>0, <2>1, <5>2, <5>3 DEF RowInv, RowOK, SaysOK, Says
        <5> QED BY <2>3, <5>4 DEF Coming, ScreenOK
      <4> QED BY <4>2, <4>3
    <3> QED BY <3>4, <3>5
  <2> QED BY <1>3, <2>5, <2>6 DEF Emit
<1>4. CASE ReadsRows(1)
  <2>1. try'[1].stage = "reading" /\ try'[1].boot.rows = version /\ UNCHANGED version
    BY <1>4, TryStep DEF ReadsRows, kernelVars
  <2> QED BY <2>1 DEF ScreenOK, Screen, Trying
<1>5. CASE Boots(1)
  <2>1. /\ try[1].stage = "reading" /\ try'[1].stage = "booted"
        /\ try'[1].boot.rows = try[1].boot.rows /\ try'[1].boot.since = try[1].boot.since
    BY <1>5, TryStep
  <2>2. UNCHANGED <<kernelVars, busVars, heard>>
    BY <1>5 DEF Boots, Hydrates
  <2>3. ScreenOK(s) /\ Screen(s)' = Screen(s)
    BY <1>0, <2>1 DEF ScreenInv, Screen, Trying
  <2> QED BY <1>2, <2>1, <2>2, <2>3 DEF ScreenOK
<1>6. CASE BootFails(1)
  <2>1. try'[1].stage = "failed"
    BY <1>6, TryStep
  <2> QED BY <2>1 DEF Trying
<1>7. CASE Replays(1)
  <2>1. /\ try[1].stage = "booted" /\ try'[1].stage = "replayed" /\ try'[1].boot = try[1].boot
    BY <1>7, TryStep
  <2>2. UNCHANGED <<kernelVars, busVars>>
    BY <1>7 DEF Replays
  <2>3. Screen(s)' = view'[s]
    BY <2>1 DEF Screen, Trying
  <2> QED BY <1>0, <1>2, <1>7, <2>1, <2>2, <2>3, ScreenReplayed DEF ScreenOK
<1>8. CASE Listens(1)
  <2>1. try[1].stage = "replayed" /\ try'[1].stage = "listening" /\ try'[1].boot = try[1].boot
    BY <1>8, TryStep
  <2>2. UNCHANGED <<kernelVars, busVars, heard, view>>
    BY <1>8 DEF Listens
  <2>3. ScreenOK(s) /\ Screen(s)' = Screen(s)
    BY <1>0, <2>1, <2>2 DEF ScreenInv, Screen, Trying
  <2> QED BY <1>2, <2>1, <2>2, <2>3 DEF ScreenOK
<1> QED BY <1>1, <1>3, <1>4, <1>5, <1>6, <1>7, <1>8, FirstTry, DesktopAside

(* Before any work order nothing is said and nothing shown. *)
LEMMA ScreenInit == Init => HolderInv /\ RowInv /\ DesktopInv /\ ScreenInv
<1> SUFFICES ASSUME Init PROVE HolderInv /\ RowInv /\ DesktopInv /\ ScreenInv
  OBVIOUS
<1>1. \A p \in Publisher : pub[p].stage = "idle" /\ pub[p].swo = NoSwo
  BY DEF Init, Idle, Stands
<1>2. DOMAIN signals = {} /\ DOMAIN log = {} /\ emitted = {}
  BY DEF Init
<1>3. 1 \in Try /\ try[1].stage = "off"
  BY BusAssumption DEF Init, Try
<1>4. HolderInv
  BY <1>1, <1>2 DEF HolderInv, Holds
<1>5. RowInv
  BY <1>1, <1>2, Publishers DEF Init, RowInv, RowOK, StagesOK, SaysOK, StaleOK, Says
<1>6. DesktopInv /\ ScreenInv
  BY <1>3 DEF Init, DesktopInv, ScreenInv, Trying
<1> QED BY <1>4, <1>5, <1>6

(* In every reachable state of a bus of any size: a stale signal about a row is
   followed by a right one, or one is on its way, as the relay has another event
   to turn into a signal; and the screen is right, or will be put right. *)
THEOREM ScreenInductive ==
  Spec => [](TypeOK /\ BusInv /\ HolderInv /\ RowInv /\ DesktopInv /\ ScreenInv)
BY TypeInit, TypeStep, BusInit, BusStep, ScreenInit, HolderStep, RowStep, DesktopStep, ScreenStep,
   PTL DEF Spec

(* When a work order is over and its publishers are quiet, the desktop shows its
   row as it is, however many work orders, signals and retained signals there are,
   in whatever order relay, task and handler read, drew and emitted, and whatever
   cancellations, decisions and revisions came when they had. *)
THEOREM SettledViewsAreCurrent == Spec => []SettledViewIsCurrent
<1>1. TypeOK /\ BusInv /\ HolderInv /\ RowInv /\ DesktopInv /\ ScreenInv => SettledViewIsCurrent
  <2> SUFFICES ASSUME TypeOK, BusInv, HolderInv, RowInv, DesktopInv, ScreenInv,
                      NEW i \in Try, NEW s \in Swo, Listening(i), attached, Settled(s),
                      s \notin dropped, s \notin beside,
                      \A c \in emitted : c > try[i].boot.since /\ signals[c].swo = s => c \in heard
               PROVE  view[s] = version[s]
    BY DEF SettledViewIsCurrent
  <2>1. i = 1
    BY FirstTry
  <2>2. ScreenOK(s) /\ Screen(s) = view[s]
    BY <2>1 DEF ScreenInv, Screen, Sound, Trying, Listening
  <2>3. \A p \in Publisher : pub[p].swo = s => pub[p].stage = "idle"
    BY WhoPublishes DEF HolderInv, Settled
  <2>4. ~ Coming(s)
    <3>1. pub[Command(s)].stage = "idle"
      BY WhoPublishes, Publishers DEF Settled
    <3> QED BY <2>3, <3>1 DEF Settled, Coming, Promised, StatusComing, Fresh
  <2>5. ASSUME NEW c \in DOMAIN signals, Current(c, s) PROVE c \in emitted
    <3> SUFFICES ASSUME c \notin emitted PROVE FALSE
      OBVIOUS
    <3>1. PICK q \in Publisher : Holds(q) /\ pub[q].cursor = c
      BY DEF HolderInv
    <3>2. signals[c] = [swo |-> pub[q].swo, version |-> pub[q].version]
      BY <3>1 DEF HolderInv
    <3>3. pub[q].swo = s
      BY <2>5, <3>2 DEF Current
    <3> QED BY <2>3, <3>1, <3>3 DEF Holds
  <2> QED BY <2>1, <2>2, <2>4, <2>5 DEF ScreenOK, Current
<1> QED BY <1>1, ScreenInductive, PTL
=============================================================================
