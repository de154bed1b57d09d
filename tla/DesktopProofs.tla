---------------------------- MODULE DesktopProofs ----------------------------
(***************************************************************************)
(* Theorems about what the desktop backend does at the edge of the kernel: *)
(* seeding, archive and reset, for any seed files, stops and work added in *)
(* between; the Telegram webhook, for any agents, updates, calls,          *)
(* repetitions, changes of bindings and stops of the kernel; the ids of    *)
(* commands, for any calls, cache and stops; and the launch of workflows,  *)
(* for any steps and contexts.                                             *)
(***************************************************************************)
EXTENDS Seeding, ExternalChat, CommandIds, WorkflowLaunch, KernelBoot, SecretBundle,
        FiniteSetTheorems, Recursion, TLAPS

-----------------------------------------------------------------------------
(* Seeding. *)


Crew(p) == {Team[p][n].name : n \in 1..Len(Team[p])}
One(S) == \E r \in S : S = {r}
AtMostOne(S) == \A r, s \in S : r = s

(* Types of the procedure and of the rows. *)
SeedRow == [id : Nat, kind : SeedKind, of : (Profile \X Nat) \cup {<<>>}]
SeederOK ==
  /\ seeder \in [step : Steps, n : Nat \ {0}, grew : BOOLEAN, created : SUBSET Names,
                 copy : SUBSET SeedRow, tool : BOOLEAN]
  /\ seedFile \in Profile /\ profileId \in Profile \cup {NoProfile}
  /\ nextRow \in Nat \ {0} /\ seedRows \subseteq SeedRow /\ kept \subseteq SeedRow

(* What a reset deletes was copied, and the copy has its manifest. *)
ArchiveInv ==
  /\ Doing("manifest") => seeder.copy = seedRows
  /\ seeder.step \in {"clear swos", "clear agents", "clear metadata"} => seedRows \subseteq kept
  /\ NothingLostUnarchived

(* Rows need agents, and the agents a seeding made are there. *)
StaffInv ==
  /\ seeder.created \subseteq staff
  /\ staff = {} => seedRows = {}
  /\ Doing("up") => staff # {}
  /\ seeder.step \in {"archive", "manifest", "clear swos", "clear agents", "clear metadata"}
       => seeder.created = {}
  /\ Doing("clear metadata") => staff = {}

(* A seed that is whole: hired, its starters submitted once, no plan twice. *)
Complete(p) ==
  /\ Crew(p) \subseteq staff
  /\ \A n \in 1..Len(Starters[p]) : One(SwosOf(p, n))
  /\ \A n \in 1..Len(Plans[p]) : AtMostOne(TemplatesOf(p, n))

Unseeded == {"clear agents", "clear metadata", "agents", "starters", "plans", "metadata"}

(* A profile id vouches for a whole seed, except while one is being made, when
   there is none, and while one is deleted. *)
WholeInv ==
  ~halfway =>
    /\ seeder.step \notin Unseeded /\ profileId # NoProfile => Complete(profileId)
    /\ seeder.step \in {"agents", "starters", "plans", "metadata"} => profileId = NoProfile
    /\ Doing("agents") => seedRows = {} /\ seeder.created \subseteq Crew(seedFile)
    /\ seeder.step \in {"starters", "plans", "metadata"} => Crew(seedFile) \subseteq staff
    /\ Doing("starters") =>
         /\ \A n \in 1..Len(Starters[seedFile]) :
              IF n < seeder.n THEN One(SwosOf(seedFile, n)) ELSE SwosOf(seedFile, n) = {}
         /\ \A n \in 1..Len(Plans[seedFile]) : TemplatesOf(seedFile, n) = {}
    /\ Doing("plans") =>
         /\ \A n \in 1..Len(Starters[seedFile]) : One(SwosOf(seedFile, n))
         /\ \A n \in 1..Len(Plans[seedFile]) :
              IF n < seeder.n THEN AtMostOne(TemplatesOf(seedFile, n))
                              ELSE TemplatesOf(seedFile, n) = {}
    /\ Doing("metadata") => Complete(seedFile)
    /\ seeder.step \in {"repair", "up"} => profileId = seedFile

SeedInv == SeederOK /\ ArchiveInv /\ StaffInv /\ WholeInv

-----------------------------------------------------------------------------
(* Down is the procedure at rest. *)
LEMMA DownOK ==
  /\ Down \in [step : Steps, n : Nat \ {0}, grew : BOOLEAN, created : SUBSET Names,
               copy : SUBSET SeedRow, tool : BOOLEAN]
  /\ Down.step = "down" /\ Down.created = {}
BY DEF Down, Steps

(* Everything holds of an empty database. *)
LEMMA SeedInitial == SeedInit => SeedInv
<1> SUFFICES ASSUME SeedInit PROVE SeedInv
  OBVIOUS
<1>1. SeederOK
  BY DownOK DEF SeedInit, SeederOK
<1>2. ArchiveInv /\ StaffInv
  BY DownOK DEF SeedInit, ArchiveInv, StaffInv, Doing, NothingLostUnarchived
<1>3. WholeInv
  BY DownOK DEF SeedInit, WholeInv, Doing, Unseeded
<1> QED BY <1>1, <1>2, <1>3 DEF SeedInv

(* A new step, number and mark in a record of the procedure. *)
LEMMA Retyped ==
  ASSUME NEW r \in [step : Steps, n : Nat \ {0}, grew : BOOLEAN, created : SUBSET Names,
                    copy : SUBSET SeedRow, tool : BOOLEAN],
         NEW s \in Steps, NEW m \in Nat \ {0}, NEW g \in BOOLEAN, NEW c \in SUBSET Names
  PROVE  /\ [r EXCEPT !.step = s, !.n = m, !.grew = g] \in
              [step : Steps, n : Nat \ {0}, grew : BOOLEAN, created : SUBSET Names,
               copy : SUBSET SeedRow, tool : BOOLEAN]
         /\ [r EXCEPT !.n = m, !.grew = g, !.created = c] \in
              [step : Steps, n : Nat \ {0}, grew : BOOLEAN, created : SUBSET Names,
               copy : SUBSET SeedRow, tool : BOOLEAN]
OBVIOUS

(* Moving on to another part keeps the agents made and the copy. *)
LEMMA Moves ==
  ASSUME SeederOK, NEW s \in Steps, Does(s)
  PROVE  /\ seeder' \in [step : Steps, n : Nat \ {0}, grew : BOOLEAN, created : SUBSET Names,
                         copy : SUBSET SeedRow, tool : BOOLEAN]
         /\ seeder'.step = s /\ seeder'.n = 1
         /\ seeder'.created = seeder.created /\ seeder'.copy = seeder.copy
<1>1. /\ seeder \in [step : Steps, n : Nat \ {0}, grew : BOOLEAN, created : SUBSET Names,
                    copy : SUBSET SeedRow, tool : BOOLEAN]
      /\ seeder' = [seeder EXCEPT !.step = s, !.n = 1, !.grew = FALSE]
      /\ 1 \in Nat \ {0} /\ FALSE \in BOOLEAN
  BY DEF SeederOK, Does
<1>2. seeder' \in [step : Steps, n : Nat \ {0}, grew : BOOLEAN, created : SUBSET Names,
                   copy : SUBSET SeedRow, tool : BOOLEAN]
  BY <1>1, Retyped, Zenon
<1>3. seeder'.step = s /\ seeder'.n = 1 /\ seeder'.created = seeder.created /\ seeder'.copy = seeder.copy
  BY <1>1, SMTT(30)
<1> QED BY <1>2, <1>3

(* So does the next round of a loop. *)
LEMMA CountsOn ==
  ASSUME SeederOK, seeder' = [seeder EXCEPT !.n = @ + 1]
  PROVE  /\ seeder' \in [step : Steps, n : Nat \ {0}, grew : BOOLEAN, created : SUBSET Names,
                         copy : SUBSET SeedRow, tool : BOOLEAN]
         /\ seeder'.step = seeder.step /\ seeder'.n = seeder.n + 1
         /\ seeder'.created = seeder.created /\ seeder'.copy = seeder.copy
BY DEF SeederOK

(* A start chooses where to begin, with no agent made yet. *)
LEMMA Starts ==
  ASSUME NEW tool \in BOOLEAN, StartSeeding(tool)
  PROVE  /\ seeder' \in [step : Steps, n : Nat \ {0}, grew : BOOLEAN, created : SUBSET Names,
                         copy : SUBSET SeedRow, tool : BOOLEAN]
         /\ seeder'.created = {} /\ seeder'.n = 1
         /\ \/ seeder'.step = "agents" /\ staff = {}
            \/ seeder'.step = "archive"
            \/ seeder'.step = "up" /\ Seeded /\ "Perry" \in staff
            \/ seeder'.step = "down"
<1> DEFINE s == IF ~tool /\ staff = {} THEN "agents"
                ELSE IF tool \/ ~Seeded THEN "archive"
                ELSE IF "Perry" \in staff THEN "up" ELSE "down"
<1>1. seeder' = [step |-> s, n |-> 1, grew |-> FALSE, created |-> {}, copy |-> {}, tool |-> tool]
  BY DEF StartSeeding, Down
<1>2. s \in Steps
  BY DEF Steps
<1>3. \/ s = "agents" /\ staff = {}
      \/ s = "archive"
      \/ s = "up" /\ Seeded /\ "Perry" \in staff
      \/ s = "down"
  OBVIOUS
<1> HIDE DEF s
<1> QED BY <1>1, <1>2, <1>3

(* An agent is hired when its manager is there and it is not yet. *)
LEMMA Hires ==
  ASSUME SeederOK, HireSeeded
  PROVE  \E new \in SUBSET Crew(seedFile) :
           /\ staff' = staff \cup new
           /\ seeder' \in [step : Steps, n : Nat \ {0}, grew : BOOLEAN, created : SUBSET Names,
                           copy : SUBSET SeedRow, tool : BOOLEAN]
           /\ seeder'.step = "agents" /\ seeder'.created = seeder.created \cup new
           /\ seeder'.n = seeder.n + 1
<1> DEFINE a == Team[seedFile][seeder.n]
           ready == a.name \notin seeder.created /\ a.manager \in seeder.created \cup {""}
           new == {b \in {a.name} : ready}
<1>1. /\ seeder' = [seeder EXCEPT !.n = seeder.n + 1, !.grew = seeder.grew \/ ready,
                                 !.created = seeder.created \cup new]
      /\ staff' = staff \cup new
      /\ seeder.step = "agents" /\ seeder.n <= Len(Team[seedFile])
  BY Zenon DEF HireSeeded, Doing
<1>2. seeder.n \in 1..Len(Team[seedFile])
  <2>1. seeder.n \in Nat \ {0} /\ seedFile \in Profile
    BY DEF SeederOK
  <2>2. Len(Team[seedFile]) \in Nat
    BY <2>1, SeedingAssumption
  <2>3. seeder.n <= Len(Team[seedFile])
    BY DEF HireSeeded
  <2> QED BY <2>1, <2>2, <2>3
<1>3. new \subseteq Crew(seedFile)
  BY <1>2 DEF Crew
<1>4. Crew(seedFile) \subseteq Names
  BY DEF SeederOK, Crew, Names
<1>5. ready \in BOOLEAN
  OBVIOUS
<1>6. (seeder.grew \/ ready) \in BOOLEAN
  OBVIOUS
<1> DEFINE grew == seeder.grew \/ ready
<1> HIDE DEF new, ready, grew
<1>7. seeder' = [seeder EXCEPT !.n = seeder.n + 1, !.grew = grew,
                               !.created = seeder.created \cup new]
  BY <1>1 DEF grew
<1>8. /\ seeder \in [step : Steps, n : Nat \ {0}, grew : BOOLEAN, created : SUBSET Names,
                    copy : SUBSET SeedRow, tool : BOOLEAN]
      /\ seeder.n + 1 \in Nat \ {0} /\ seeder.created \cup new \in SUBSET Names
      /\ grew \in BOOLEAN
  BY <1>3, <1>4, <1>6 DEF SeederOK, grew
<1>9. seeder' \in [step : Steps, n : Nat \ {0}, grew : BOOLEAN, created : SUBSET Names,
                   copy : SUBSET SeedRow, tool : BOOLEAN]
  <2> DEFINE m == seeder.n + 1
             c == seeder.created \cup new
  <2>1. m \in Nat \ {0} /\ c \in SUBSET Names
    BY <1>8
  <2>2. seeder' = [seeder EXCEPT !.n = m, !.grew = grew, !.created = c]
    BY <1>7
  <2> HIDE DEF m, c
  <2>3. seeder.step \in Steps
    BY <1>8
  <2> QED BY <1>8, <2>1, <2>2, <2>3, Retyped, Zenon
<1>10. /\ seeder'.step = "agents" /\ seeder'.created = seeder.created \cup new
       /\ seeder'.n = seeder.n + 1
  <2>1. seeder \in [step : Steps, n : Nat \ {0}, grew : BOOLEAN, created : SUBSET Names,
                    copy : SUBSET SeedRow, tool : BOOLEAN]
    BY <1>8
  <2> QED BY <1>1, <1>7, <2>1
<1> QED BY <1>1, <1>3, <1>9, <1>10

(* A row that is made gets the next number. *)
LEMMA Inserts ==
  ASSUME SeederOK, NEW kind \in SeedKind, NEW n \in Nat, InsertSeeded(kind, n)
  PROVE  \E r \in SeedRow : /\ r.id = nextRow /\ r.kind = kind /\ r.of = <<seedFile, n>>
                            /\ seedRows' = seedRows \cup {r} /\ nextRow' = nextRow + 1
<1>1. [id |-> nextRow, kind |-> kind, of |-> <<seedFile, n>>] \in SeedRow
  BY DEF SeederOK, SeedRow
<1> QED BY <1>1 DEF InsertSeeded

(* Types. *)
LEMMA SeederStep == SeederOK /\ [SeedNext]_seedVars => SeederOK'
<1> SUFFICES ASSUME SeederOK, [SeedNext]_seedVars PROVE SeederOK'
  OBVIOUS
<1>0. {"archive", "manifest", "clear swos", "clear agents", "clear metadata", "agents", "starters",
       "plans", "metadata", "repair", "up"} \subseteq Steps /\ {"swo", "template"} \subseteq SeedKind
  BY DEF Steps, SeedKind
<1>1. ASSUME NEW tool \in BOOLEAN, StartSeeding(tool) PROVE SeederOK'
  BY <1>1, Starts DEF StartSeeding, SeederOK
<1>2. CASE CopySnapshot
  BY <1>0, <1>2 DEF CopySnapshot, SeederOK
<1>3. CASE WriteManifest \/ ClearSwos \/ ClearAgents \/ ClearMetadata \/ WriteMetadata
  BY <1>0, <1>3, Moves DEF WriteManifest, ClearSwos, ClearAgents, ClearMetadata, WriteMetadata, Keeps,
                           SeederOK
<1>4. CASE HireSeeded
  <2>1. seeder' \in [step : Steps, n : Nat \ {0}, grew : BOOLEAN, created : SUBSET Names,
                    copy : SUBSET SeedRow, tool : BOOLEAN]
    BY <1>4, Hires
  <2> QED BY <1>4, <2>1 DEF HireSeeded, SeederOK
<1>5. CASE EndRound
  BY <1>0, <1>5, Moves, DownOK DEF EndRound, SeederOK
<1>6. CASE SeedStarter
  <2>1. Does("plans") \/ seeder' = [seeder EXCEPT !.n = @ + 1] \/ seeder' = Down
    BY <1>6 DEF SeedStarter
  <2>2. UNCHANGED <<seedRows, nextRow>> \/ InsertSeeded("swo", seeder.n)
    BY <1>6 DEF SeedStarter
  <2>3. seeder' \in [step : Steps, n : Nat \ {0}, grew : BOOLEAN, created : SUBSET Names,
                    copy : SUBSET SeedRow, tool : BOOLEAN]
    BY <1>0, <2>1, Moves, CountsOn, DownOK
  <2>4. seeder.n \in Nat
    BY DEF SeederOK
  <2>5. nextRow' \in Nat \ {0} /\ seedRows' \subseteq SeedRow
    <3>1. CASE UNCHANGED <<seedRows, nextRow>>
      BY <3>1 DEF SeederOK
    <3>2. CASE InsertSeeded("swo", seeder.n)
      <4>1. PICK r \in SeedRow : seedRows' = seedRows \cup {r} /\ nextRow' = nextRow + 1
        BY <1>0, <2>4, <3>2, Inserts
      <4> QED BY <4>1 DEF SeederOK
    <3> QED BY <2>2, <3>1, <3>2
  <2> QED BY <1>6, <2>3, <2>5 DEF SeedStarter, SeederOK
<1>7. CASE SeedTemplate
  <2>1. Does("metadata") \/ seeder' = [seeder EXCEPT !.n = @ + 1]
    BY <1>7 DEF SeedTemplate
  <2>2. UNCHANGED <<seedRows, nextRow>> \/ InsertSeeded("template", seeder.n)
    BY <1>7 DEF SeedTemplate
  <2>3. seeder' \in [step : Steps, n : Nat \ {0}, grew : BOOLEAN, created : SUBSET Names,
                    copy : SUBSET SeedRow, tool : BOOLEAN]
    BY <1>0, <2>1, Moves, CountsOn, DownOK
  <2>4. seeder.n \in Nat
    BY DEF SeederOK
  <2>5. nextRow' \in Nat \ {0} /\ seedRows' \subseteq SeedRow
    <3>1. CASE UNCHANGED <<seedRows, nextRow>>
      BY <3>1 DEF SeederOK
    <3>2. CASE InsertSeeded("template", seeder.n)
      <4>1. PICK r \in SeedRow : seedRows' = seedRows \cup {r} /\ nextRow' = nextRow + 1
        BY <1>0, <2>4, <3>2, Inserts
      <4> QED BY <4>1 DEF SeederOK
    <3> QED BY <2>2, <3>1, <3>2
  <2> QED BY <1>7, <2>3, <2>5 DEF SeedTemplate, SeederOK
<1>8. CASE EndSeeding \/ StopSeeding
  BY <1>0, <1>8, DownOK DEF EndSeeding, StopSeeding, SeederOK
<1>9. CASE AddWork
  <2>1. [id |-> nextRow, kind |-> "swo", of |-> <<>>] \in SeedRow
    BY <1>0 DEF SeederOK, SeedRow
  <2> QED BY <1>9, <2>1 DEF AddWork, SeederOK
<1>10. CASE ReplaceSeed \/ UNCHANGED seedVars
  BY <1>10 DEF ReplaceSeed, seedVars, SeederOK
<1> QED BY <1>1, <1>2, <1>3, <1>4, <1>5, <1>6, <1>7, <1>8, <1>9, <1>10 DEF SeedNext, SeedStep

(* A step that neither drops a row nor forgets an archive loses nothing. *)
LEMMA NothingDropped ==
  ASSUME NothingLostUnarchived, seedRows \cup kept \subseteq seedRows' \cup kept', nextRow' = nextRow
  PROVE  NothingLostUnarchived'
BY DEF NothingLostUnarchived

(* Nor does a step that makes the next row. *)
LEMMA RowAdded ==
  ASSUME NothingLostUnarchived, SeederOK, nextRow' = nextRow + 1, kept' = kept,
         NEW r, r.id = nextRow, seedRows' = seedRows \cup {r}
  PROVE  NothingLostUnarchived'
<1> SUFFICES ASSUME NEW id \in 1..(nextRow' - 1) PROVE \E q \in seedRows' \cup kept' : q.id = id
  BY DEF NothingLostUnarchived
<1>1. nextRow \in Nat \ {0}
  BY DEF SeederOK
<1>2. CASE id = nextRow
  BY <1>2
<1>3. CASE id # nextRow
  <2>1. id \in 1..(nextRow - 1)
    BY <1>1, <1>3
  <2> QED BY <2>1 DEF NothingLostUnarchived
<1> QED BY <1>2, <1>3

(* A row made by the seeding is such a row. *)
LEMMA SeededRowAdded ==
  ASSUME NothingLostUnarchived, SeederOK, NEW kind \in SeedKind, InsertSeeded(kind, seeder.n),
         kept' = kept
  PROVE  NothingLostUnarchived'
<1>1. seeder.n \in Nat
  BY DEF SeederOK
<1>2. PICK r \in SeedRow : r.id = nextRow /\ seedRows' = seedRows \cup {r} /\ nextRow' = nextRow + 1
  BY <1>1, Inserts
<1> QED BY <1>2, RowAdded

(* What is deleted was archived. *)
LEMMA ArchiveStep == SeedInv /\ [SeedNext]_seedVars => ArchiveInv'
<1> SUFFICES ASSUME SeedInv, [SeedNext]_seedVars PROVE ArchiveInv'
  OBVIOUS
<1>0. /\ {"archive", "manifest", "clear swos", "clear agents", "clear metadata", "agents", "starters",
          "plans", "metadata", "repair", "up"} \subseteq Steps /\ {"swo", "template"} \subseteq SeedKind
      /\ SeederOK /\ ArchiveInv /\ NothingLostUnarchived
  BY DEF Steps, SeedKind, SeedInv, ArchiveInv
<1>1. ASSUME NEW tool \in BOOLEAN, StartSeeding(tool) PROVE ArchiveInv'
  <2>1. seeder'.step \in {"agents", "archive", "up", "down"}
    BY <1>1, Starts
  <2>2. NothingLostUnarchived'
    BY <1>0, <1>1, NothingDropped DEF StartSeeding
  <2> QED BY <2>1, <2>2 DEF ArchiveInv, Doing
<1>2. CASE CopySnapshot
  <2>1. seeder'.step = "manifest" /\ seeder'.copy = seedRows /\ seedRows' = seedRows
    BY <1>0, <1>2 DEF CopySnapshot, SeederOK
  <2>2. NothingLostUnarchived'
    BY <1>0, <1>2, NothingDropped DEF CopySnapshot
  <2> QED BY <2>1, <2>2 DEF ArchiveInv, Doing
<1>3. CASE WriteManifest
  <2>1. seeder'.step = "clear swos" /\ seedRows' = seedRows /\ kept' = kept \cup seedRows
    BY <1>0, <1>3, Moves DEF WriteManifest, Keeps, ArchiveInv
  <2>2. NothingLostUnarchived'
    BY <1>0, <1>3, <2>1, NothingDropped DEF WriteManifest
  <2> QED BY <2>1, <2>2 DEF ArchiveInv, Doing
<1>4. CASE ClearSwos \/ ClearAgents \/ ClearMetadata
  <2>1. /\ seeder'.step \in {"clear agents", "clear metadata", "agents"}
        /\ seedRows' \subseteq seedRows /\ seedRows \subseteq kept /\ kept' = kept /\ nextRow' = nextRow
    BY <1>0, <1>4, Moves DEF ClearSwos, ClearAgents, ClearMetadata, ArchiveInv, Doing
  <2>2. NothingLostUnarchived'
    BY <1>0, <2>1, NothingDropped
  <2> QED BY <2>1, <2>2 DEF ArchiveInv, Doing
<1>5. CASE HireSeeded
  <2>1. seeder'.step = "agents"
    BY <1>0, <1>5, Hires
  <2>2. NothingLostUnarchived'
    BY <1>0, <1>5, NothingDropped DEF HireSeeded
  <2> QED BY <2>1, <2>2 DEF ArchiveInv, Doing
<1>6. CASE EndRound \/ EndSeeding \/ WriteMetadata
  <2>1. seeder'.step \in {"agents", "starters", "repair", "up", "down"}
    <3>1. CASE EndRound \/ WriteMetadata
      BY <1>0, <3>1, Moves, DownOK DEF EndRound, WriteMetadata
    <3>2. CASE EndSeeding
      BY <1>0, <3>2, DownOK DEF EndSeeding, SeederOK
    <3> QED BY <1>6, <3>1, <3>2
  <2>2. NothingLostUnarchived'
    BY <1>0, <1>6, NothingDropped DEF EndRound, EndSeeding, WriteMetadata
  <2> QED BY <2>1, <2>2 DEF ArchiveInv, Doing
<1>7. CASE SeedStarter \/ SeedTemplate
  <2>1. seeder'.step \in {"starters", "plans", "metadata", "down"}
    BY <1>0, <1>7, Moves, CountsOn, DownOK DEF SeedStarter, SeedTemplate, Doing
  <2>2. kept' = kept
    BY <1>7 DEF SeedStarter, SeedTemplate
  <2>3. \/ UNCHANGED <<seedRows, nextRow>>
        \/ \E kind \in SeedKind : InsertSeeded(kind, seeder.n)
    BY <1>0, <1>7 DEF SeedStarter, SeedTemplate
  <2>4. NothingLostUnarchived'
    BY <1>0, <2>2, <2>3, NothingDropped, SeededRowAdded
  <2> QED BY <2>1, <2>4 DEF ArchiveInv, Doing
<1>8. CASE StopSeeding
  <2>1. NothingLostUnarchived'
    BY <1>0, <1>8, NothingDropped DEF StopSeeding
  <2> QED BY <1>8, <2>1, DownOK DEF StopSeeding, ArchiveInv, Doing
<1>9. CASE AddWork
  <2>1. PICK r : /\ r = [id |-> nextRow, kind |-> "swo", of |-> <<>>]
                 /\ seedRows' = seedRows \cup {r} /\ nextRow' = nextRow + 1 /\ kept' = kept
    BY <1>9 DEF AddWork
  <2>2. r.id = nextRow
    BY <2>1
  <2>3. NothingLostUnarchived'
    BY <1>0, <2>1, <2>2, RowAdded
  <2> QED BY <1>9, <2>3 DEF AddWork, ArchiveInv, Doing
<1>10. CASE ReplaceSeed \/ UNCHANGED seedVars
  <2>1. NothingLostUnarchived'
    BY <1>0, <1>10, NothingDropped DEF ReplaceSeed, seedVars
  <2> QED BY <1>0, <1>10, <2>1 DEF ReplaceSeed, seedVars, ArchiveInv, Doing
<1> QED
  BY <1>1, <1>2, <1>3, <1>4, <1>5, <1>6, <1>7, <1>8, <1>9, <1>10 DEF SeedNext, SeedStep

(* Agents and rows go together. *)
LEMMA StaffStep == SeedInv /\ [SeedNext]_seedVars => StaffInv'
<1> SUFFICES ASSUME SeedInv, [SeedNext]_seedVars PROVE StaffInv'
  OBVIOUS
<1>0. /\ {"archive", "manifest", "clear swos", "clear agents", "clear metadata", "agents", "starters",
          "plans", "metadata", "repair", "up"} \subseteq Steps /\ {"swo", "template"} \subseteq SeedKind
      /\ SeederOK /\ StaffInv
  BY DEF Steps, SeedKind, SeedInv
<1>1. ASSUME NEW tool \in BOOLEAN, StartSeeding(tool) PROVE StaffInv'
  <2>1. /\ seeder'.created = {} /\ staff' = staff /\ seedRows' = seedRows
        /\ seeder'.step = "up" => staff # {}
        /\ seeder'.step # "clear metadata"
    BY <1>1, Starts DEF StartSeeding
  <2> QED BY <1>0, <2>1 DEF StaffInv, Doing
<1>2. CASE CopySnapshot
  <2>1. seeder'.step = "manifest" /\ seeder'.created = seeder.created
    BY <1>0, <1>2 DEF CopySnapshot, SeederOK
  <2>2. staff' = staff /\ seedRows' = seedRows /\ seeder.step = "archive"
    BY <1>2 DEF CopySnapshot, Doing
  <2> QED BY <1>0, <2>1, <2>2 DEF StaffInv, Doing
<1>3. CASE WriteManifest \/ ClearSwos \/ ClearAgents \/ ClearMetadata
  <2>1. /\ seeder'.step # "up" /\ seeder'.created = seeder.created
        /\ seeder.step \in {"manifest", "clear swos", "clear agents", "clear metadata"}
    BY <1>0, <1>3, Moves DEF WriteManifest, ClearSwos, ClearAgents, ClearMetadata, Doing
  <2>2. /\ seedRows' \subseteq seedRows
        /\ staff' = staff \/ (staff' = {} /\ seedRows' = {})
        /\ seeder'.step = "clear metadata" => staff' = {}
    BY <1>0, <1>3, Moves DEF WriteManifest, ClearSwos, ClearAgents, ClearMetadata
  <2> QED BY <1>0, <2>1, <2>2 DEF StaffInv, Doing
<1>4. CASE HireSeeded
  <2>1. PICK new : /\ staff' = staff \cup new /\ seeder'.step = "agents"
                   /\ seeder'.created = seeder.created \cup new
    BY <1>0, <1>4, Hires
  <2>2. seedRows' = seedRows
    BY <1>4 DEF HireSeeded
  <2> QED BY <1>0, <2>1, <2>2 DEF StaffInv, Doing
<1>5. CASE EndRound \/ WriteMetadata
  <2>1. /\ seeder'.step \in {"agents", "starters", "repair", "down"}
        /\ seeder'.created \subseteq seeder.created
    BY <1>0, <1>5, Moves, DownOK DEF EndRound, WriteMetadata
  <2>2. staff' = staff /\ seedRows' = seedRows
    BY <1>5 DEF EndRound, WriteMetadata
  <2> QED BY <1>0, <2>1, <2>2 DEF StaffInv, Doing
<1>6. CASE EndSeeding
  <2>1. /\ seeder'.step = "up" \/ seeder'.step = "down"
        /\ seeder'.created \subseteq seeder.created
        /\ seeder'.step = "up" => "Perry" \in seeder.created
    BY <1>0, <1>6, DownOK DEF EndSeeding, SeederOK
  <2>2. staff' = staff /\ seedRows' = seedRows
    BY <1>6 DEF EndSeeding
  <2> QED BY <1>0, <2>1, <2>2 DEF StaffInv, Doing
<1>7. CASE SeedStarter \/ SeedTemplate
  <2>1. /\ seeder'.step \in {"starters", "plans", "metadata", "down"}
        /\ seeder'.created \subseteq seeder.created
    BY <1>0, <1>7, Moves, CountsOn, DownOK DEF SeedStarter, SeedTemplate, Doing
  <2>2. staff' = staff /\ (seedRows' = seedRows \/ seeder.created # {})
    BY <1>7 DEF SeedStarter, SeedTemplate
  <2> QED BY <1>0, <2>1, <2>2 DEF StaffInv, Doing
<1>8. CASE StopSeeding
  BY <1>0, <1>8, DownOK DEF StopSeeding, StaffInv, Doing
<1>9. CASE AddWork \/ ReplaceSeed \/ UNCHANGED seedVars
  BY <1>0, <1>9 DEF AddWork, ReplaceSeed, seedVars, StaffInv, Doing
<1> QED BY <1>1, <1>2, <1>3, <1>4, <1>5, <1>6, <1>7, <1>8, <1>9 DEF SeedNext, SeedStep

-----------------------------------------------------------------------------
(* A whole seed stays whole while no agent and no row of it changes. *)
LEMMA StaysComplete ==
  ASSUME NEW p \in Profile, Complete(p), staff \subseteq staff',
         \A n \in Nat : SwosOf(p, n)' = SwosOf(p, n) /\ TemplatesOf(p, n)' = TemplatesOf(p, n)
  PROVE  Complete(p)'
<1>1. Len(Starters[p]) \in Nat /\ Len(Plans[p]) \in Nat
  BY SeedingAssumption
<1>2. \A n \in 1..Len(Starters[p]) : SwosOf(p, n)' = SwosOf(p, n)
  BY <1>1
<1>3. \A n \in 1..Len(Plans[p]) : TemplatesOf(p, n)' = TemplatesOf(p, n)
  BY <1>1
<1>4. Crew(p) \subseteq staff'
  BY DEF Complete
<1>5. \A n \in 1..Len(Starters[p]) : One(SwosOf(p, n)')
  BY <1>2 DEF Complete
<1>6. \A n \in 1..Len(Plans[p]) : AtMostOne(TemplatesOf(p, n)')
  BY <1>3 DEF Complete
<1> QED BY <1>4, <1>5, <1>6 DEF Complete, One, AtMostOne

(* No seed is whole without agents. *)
LEMMA CompleteHasStaff == ASSUME NEW p \in Profile, Complete(p) PROVE staff # {}
<1> DEFINE N == Len(Team[p])
<1>0. N \in Nat \ {0}
  BY SeedingAssumption
<1>1. 1 \in 1..N
  <2> HIDE DEF N
  <2> QED BY <1>0
<1>2. Team[p][1].name \in Crew(p)
  BY <1>1 DEF Crew
<1> QED BY <1>2 DEF Complete

(* Rows of one kind and entry leave the others alone. *)
LEMMA RowsOfOthers ==
  ASSUME NEW r, seedRows' = seedRows \cup {r}
  PROVE  /\ \A p \in Profile, n \in Nat :
              r.kind # "swo" \/ r.of # <<p, n>> => SwosOf(p, n)' = SwosOf(p, n)
         /\ \A p \in Profile, n \in Nat :
              r.kind # "template" \/ r.of # <<p, n>> => TemplatesOf(p, n)' = TemplatesOf(p, n)
         /\ \A p \in Profile, n \in Nat :
              r.kind = "swo" /\ r.of = <<p, n>> => SwosOf(p, n)' = SwosOf(p, n) \cup {r}
         /\ \A p \in Profile, n \in Nat :
              r.kind = "template" /\ r.of = <<p, n>> => TemplatesOf(p, n)' = TemplatesOf(p, n) \cup {r}
BY DEF SwosOf, TemplatesOf

(* As many agents made as the team has entries are the whole team. *)
LEMMA EveryoneIsHired ==
  ASSUME SeederOK, seeder.created \subseteq Crew(seedFile), Everyone
  PROVE  Crew(seedFile) \subseteq seeder.created
<1> DEFINE N == Len(Team[seedFile])
           name == [n \in 1..N |-> Team[seedFile][n].name]
<1>1. N \in Nat
  BY SeedingAssumption DEF SeederOK
<1>2. IsFiniteSet(1..N) /\ Cardinality(1..N) = N
  <2> HIDE DEF N
  <2> QED BY <1>1, FS_Interval
<1>3. name \in Surjection(1..N, Crew(seedFile))
  BY DEF Surjection, Crew
<1>4. IsFiniteSet(Crew(seedFile)) /\ Cardinality(Crew(seedFile)) <= N
  BY <1>2, <1>3, FS_Surjection
<1>5. /\ IsFiniteSet(seeder.created)
      /\ Cardinality(seeder.created) = Cardinality(Crew(seedFile)) => seeder.created = Crew(seedFile)
      /\ Cardinality(seeder.created) <= Cardinality(Crew(seedFile))
  BY <1>4, FS_Subset
<1>6. Cardinality(seeder.created) \in Nat /\ Cardinality(Crew(seedFile)) \in Nat
  BY <1>4, <1>5, FS_CardinalityType
<1> QED BY <1>1, <1>4, <1>5, <1>6 DEF Everyone

(* Nothing about a seed changes while agents and rows stay. *)
LEMMA SeedsStay ==
  ASSUME seedRows' = seedRows, staff' = staff
  PROVE  /\ \A p \in Profile : Complete(p)' <=> Complete(p)
         /\ \A p \in Profile, n \in Nat : SwosOf(p, n)' = SwosOf(p, n) /\ TemplatesOf(p, n)' = TemplatesOf(p, n)
BY DEF Complete, SwosOf, TemplatesOf

(* A round of hiring, and its end when everyone is there. *)
LEMMA HiringStep ==
  ASSUME SeedInv, ~halfway, HireSeeded \/ EndRound
  PROVE  WholeInv'
<1>0. /\ SeederOK /\ StaffInv /\ WholeInv /\ {"agents", "starters"} \subseteq Steps
      /\ seeder.step = "agents" /\ seedRows' = seedRows /\ seedFile' = seedFile
      /\ profileId' = profileId /\ halfway' = halfway
  BY DEF SeedInv, HireSeeded, EndRound, Doing, Steps
<1>1. /\ profileId = NoProfile /\ seedRows = {} /\ seeder.created \subseteq Crew(seedFile)
      /\ seeder.created \subseteq staff
  BY <1>0 DEF WholeInv, StaffInv, Doing
<1>2. Crew(seedFile)' = Crew(seedFile)
  BY <1>0 DEF Crew
<1>3. CASE HireSeeded
  <2>1. PICK new \in SUBSET Crew(seedFile) :
          seeder'.step = "agents" /\ seeder'.created = seeder.created \cup new
    BY <1>0, <1>3, Hires
  <2>2. seeder'.created \subseteq Crew(seedFile)'
    BY <1>1, <1>2, <2>1
  <2> QED BY <1>0, <1>1, <2>1, <2>2 DEF WholeInv, Doing, Unseeded
<1>4. CASE EndRound
  <2>0. staff' = staff
    BY <1>4 DEF EndRound
  <2>1. CASE Everyone /\ Does("starters")
    <3>1. seeder'.step = "starters" /\ seeder'.n = 1
      BY <1>0, <2>1, Moves
    <3>2. Crew(seedFile)' \subseteq staff'
      BY <1>0, <1>1, <1>2, <2>0, <2>1, EveryoneIsHired
    <3>3. \A n \in 1..Len(Starters[seedFile]') :
             ~(n < seeder'.n) /\ SwosOf(seedFile, n)' = {}
      BY <1>0, <1>1, <3>1 DEF SwosOf
    <3>4. \A n \in 1..Len(Plans[seedFile]') : TemplatesOf(seedFile, n)' = {}
      BY <1>0, <1>1 DEF TemplatesOf
    <3> QED BY <1>0, <1>1, <3>1, <3>2, <3>3, <3>4 DEF WholeInv, Doing, Unseeded
  <2>2. CASE seeder' = Down
    BY <1>0, <1>1, <2>2, DownOK DEF WholeInv, Doing, Unseeded
  <2>3. CASE Does("agents")
    <3>1. seeder'.step = "agents" /\ seeder'.created = seeder.created
      BY <1>0, <2>3, Moves
    <3> QED BY <1>0, <1>1, <1>2, <3>1 DEF WholeInv, Doing, Unseeded
  <2> QED BY <1>4, <2>1, <2>2, <2>3 DEF EndRound
<1> QED BY <1>3, <1>4

(* A starter is submitted once. *)
LEMMA StarterStep ==
  ASSUME SeedInv, ~halfway, SeedStarter, NEW p \in Profile, p = seedFile, NEW k \in Nat \ {0}, k = seeder.n
  PROVE  WholeInv'
<1>0. /\ SeederOK /\ WholeInv /\ {"plans", "starters"} \subseteq Steps /\ "swo" \in SeedKind
      /\ seeder.step = "starters" /\ staff' = staff /\ seedFile' = p
      /\ profileId' = profileId /\ halfway' = halfway
  BY DEF SeedInv, SeedStarter, Doing, Steps, SeedKind
<1> DEFINE L == Len(Starters[p])
           M == Len(Plans[p])
<1>1. /\ profileId = NoProfile /\ Crew(p) \subseteq staff
      /\ \A n \in 1..L : IF n < k THEN One(SwosOf(p, n)) ELSE SwosOf(p, n) = {}
      /\ \A n \in 1..M : TemplatesOf(p, n) = {}
  BY <1>0 DEF WholeInv, Doing
<1>2. L \in Nat /\ M \in Nat
  BY SeedingAssumption
<1>3. CASE k > L /\ Does("plans") /\ UNCHANGED <<seedRows, nextRow>>
  <2>1. seeder'.step = "plans" /\ seeder'.n = 1
    BY <1>0, <1>3, Moves
  <2>2. \A n \in 1..L : One(SwosOf(p, n)')
    <3>1. \A n \in 1..L : n < k /\ SwosOf(p, n)' = SwosOf(p, n)
      BY <1>2, <1>3 DEF SwosOf
    <3> QED BY <1>1, <3>1
  <2>3. \A n \in 1..M : ~(n < seeder'.n) /\ TemplatesOf(p, n)' = {}
    BY <1>1, <1>2, <1>3, <2>1 DEF TemplatesOf
  <2> QED BY <1>0, <1>1, <2>1, <2>2, <2>3 DEF WholeInv, Doing, Unseeded, One, Crew
<1>4. CASE InsertSeeded("swo", k) /\ seeder' = [seeder EXCEPT !.n = @ + 1] /\ k <= L
  <2>1. seeder'.step = "starters" /\ seeder'.n = k + 1
    BY <1>0, <1>4, CountsOn
  <2>2. PICK r \in SeedRow : r.kind = "swo" /\ r.of = <<p, k>> /\ seedRows' = seedRows \cup {r}
    BY <1>0, <1>4, Inserts
  <2>3. \A n \in 1..L : n # k => SwosOf(p, n)' = SwosOf(p, n)
    BY <1>2, <2>2 DEF SwosOf
  <2>4. SwosOf(p, k)' = SwosOf(p, k) \cup {r} /\ SwosOf(p, k) = {}
    <3>1. SwosOf(p, k)' = SwosOf(p, k) \cup {r}
      BY <2>2 DEF SwosOf
    <3>2. k \in 1..L
      BY <1>2, <1>4
    <3> QED BY <1>1, <3>1, <3>2
  <2>5. One(SwosOf(p, k)')
    BY <2>4 DEF One
  <2>6. \A n \in 1..L : IF n < k + 1 THEN One(SwosOf(p, n)') ELSE SwosOf(p, n)' = {}
    <3> SUFFICES ASSUME NEW n \in 1..L
                 PROVE  IF n < k + 1 THEN One(SwosOf(p, n)') ELSE SwosOf(p, n)' = {}
      OBVIOUS
    <3>1. CASE n = k
      BY <3>1, <2>5
    <3>2. CASE n # k
      <4>1. n < k + 1 <=> n < k
        BY <1>2, <3>2
      <4> QED BY <1>1, <2>3, <3>2, <4>1
    <3> QED BY <3>1, <3>2
  <2>7. \A n \in 1..M : TemplatesOf(p, n)' = {}
    BY <1>1, <2>2 DEF TemplatesOf
  <2> QED BY <1>0, <1>1, <2>1, <2>6, <2>7 DEF WholeInv, Doing, Unseeded, One, Crew
<1>5. CASE seeder' = Down
  BY <1>0, <1>1, <1>5, DownOK DEF WholeInv, Doing, Unseeded
<1>6. k > L \/ k <= L
  BY <1>2
<1> QED BY <1>3, <1>4, <1>5, <1>6 DEF SeedStarter

(* A recurring template is made once, or not at all. *)
LEMMA TemplateStep ==
  ASSUME SeedInv, ~halfway, SeedTemplate, NEW p \in Profile, p = seedFile, NEW k \in Nat \ {0}, k = seeder.n
  PROVE  WholeInv'
<1>0. /\ SeederOK /\ WholeInv /\ {"plans", "metadata"} \subseteq Steps /\ "template" \in SeedKind
      /\ seeder.step = "plans" /\ staff' = staff /\ seedFile' = p
      /\ profileId' = profileId /\ halfway' = halfway
  BY DEF SeedInv, SeedTemplate, Doing, Steps, SeedKind
<1> DEFINE L == Len(Starters[p])
           M == Len(Plans[p])
<1>1. /\ profileId = NoProfile /\ Crew(p) \subseteq staff
      /\ \A n \in 1..L : One(SwosOf(p, n))
      /\ \A n \in 1..M : IF n < k THEN AtMostOne(TemplatesOf(p, n)) ELSE TemplatesOf(p, n) = {}
  BY <1>0 DEF WholeInv, Doing
<1>2. L \in Nat /\ M \in Nat
  BY SeedingAssumption
<1>3. CASE k > M /\ Does("metadata") /\ UNCHANGED <<seedRows, nextRow>>
  <2>1. seeder'.step = "metadata"
    BY <1>0, <1>3, Moves
  <2>2. \A n \in 1..M : n < k
    BY <1>2, <1>3
  <2>3. Complete(p)
    BY <1>1, <2>2 DEF Complete
  <2>4. Complete(p)'
    BY <1>0, <1>3, <2>3, SeedsStay
  <2> QED BY <1>0, <1>1, <2>1, <2>4 DEF WholeInv, Doing, Unseeded, Complete, One, AtMostOne, Crew
<1>4. CASE seeder' = [seeder EXCEPT !.n = @ + 1] /\ k <= M
           /\ (InsertSeeded("template", k) \/ UNCHANGED <<seedRows, nextRow>>)
  <2>1. seeder'.step = "plans" /\ seeder'.n = k + 1
    BY <1>0, <1>4, CountsOn
  <2>2. PICK new \in SUBSET SeedRow :
          /\ new = {} \/ \E r : new = {r}
          /\ \A r \in new : r.kind = "template" /\ r.of = <<p, k>>
          /\ seedRows' = seedRows \cup new
    <3>1. CASE InsertSeeded("template", k)
      <4>1. PICK r \in SeedRow : r.kind = "template" /\ r.of = <<p, k>> /\ seedRows' = seedRows \cup {r}
        BY <1>0, <3>1, Inserts
      <4> WITNESS {r} \in SUBSET SeedRow
      <4> QED BY <4>1
    <3>2. CASE UNCHANGED <<seedRows, nextRow>>
      <4> WITNESS {} \in SUBSET SeedRow
      <4> QED BY <3>2
    <3> QED BY <1>4, <3>1, <3>2
  <2>3. \A n \in 1..L : SwosOf(p, n)' = SwosOf(p, n)
    BY <1>2, <2>2 DEF SwosOf
  <2>4. \A n \in 1..M : n # k => TemplatesOf(p, n)' = TemplatesOf(p, n)
    BY <1>2, <2>2 DEF TemplatesOf
  <2>5. TemplatesOf(p, k)' = new
    <3>1. TemplatesOf(p, k)' = TemplatesOf(p, k) \cup new
      BY <2>2 DEF TemplatesOf
    <3>2. k \in 1..M
      BY <1>2, <1>4
    <3> QED BY <1>1, <3>1, <3>2
  <2>6. AtMostOne(TemplatesOf(p, k)')
    BY <2>2, <2>5 DEF AtMostOne
  <2>7. \A n \in 1..M : IF n < k + 1 THEN AtMostOne(TemplatesOf(p, n)') ELSE TemplatesOf(p, n)' = {}
    <3> SUFFICES ASSUME NEW n \in 1..M
                 PROVE  IF n < k + 1 THEN AtMostOne(TemplatesOf(p, n)') ELSE TemplatesOf(p, n)' = {}
      OBVIOUS
    <3>1. CASE n = k
      BY <3>1, <2>6
    <3>2. CASE n # k
      <4>1. n < k + 1 <=> n < k
        BY <1>2, <3>2
      <4> QED BY <1>1, <2>4, <3>2, <4>1
    <3> QED BY <3>1, <3>2
  <2>8. \A n \in 1..L : One(SwosOf(p, n)')
    BY <1>1, <2>3
  <2> QED BY <1>0, <1>1, <2>1, <2>7, <2>8 DEF WholeInv, Doing, Unseeded, One, AtMostOne, Crew
<1>5. k > M \/ k <= M
  BY <1>2
<1> QED BY <1>3, <1>4, <1>5 DEF SeedTemplate

(* A profile id vouches for a whole seed. *)
LEMMA WholeStep == SeedInv /\ [SeedNext]_seedVars => WholeInv'
<1> SUFFICES ASSUME SeedInv, [SeedNext]_seedVars, ~halfway' PROVE WholeInv'
  BY DEF WholeInv
<1>0. /\ {"archive", "manifest", "clear swos", "clear agents", "clear metadata", "agents", "repair"} \subseteq Steps
      /\ SeederOK /\ StaffInv /\ WholeInv
  BY DEF Steps, SeedInv
<1>1. ~halfway
  BY DEF SeedNext, SeedStep, StartSeeding, CopySnapshot, WriteManifest, ClearSwos, ClearAgents,
         ClearMetadata, HireSeeded, EndRound, SeedStarter, SeedTemplate, WriteMetadata, EndSeeding,
         StopSeeding, AddWork, ReplaceSeed, seedVars
<1>2. ASSUME NEW tool \in BOOLEAN, StartSeeding(tool) PROVE WholeInv'
  <2>1. /\ UNCHANGED <<seedFile, staff, seedRows, profileId>> /\ seeder'.created = {}
        /\ \/ seeder'.step = "agents" /\ staff = {}
           \/ seeder'.step = "archive"
           \/ seeder'.step = "up" /\ profileId = seedFile
           \/ seeder'.step = "down"
    BY <1>2, Starts DEF StartSeeding, Seeded
  <2>2. profileId # NoProfile => profileId \in Profile /\ Complete(profileId)
    BY <1>0, <1>1, <1>2 DEF WholeInv, SeederOK, StartSeeding, Doing, Unseeded
  <2>3. staff = {} => profileId = NoProfile /\ seedRows = {}
    BY <1>0, <2>2, CompleteHasStaff DEF StaffInv
  <2>4. profileId # NoProfile => Complete(profileId)'
    BY <2>1, <2>2 DEF Complete, SwosOf, TemplatesOf
  <2> QED BY <2>1, <2>3, <2>4 DEF WholeInv, Doing, Unseeded, Crew
<1>3. CASE CopySnapshot \/ WriteManifest
  <2>1. /\ seeder'.step \in {"manifest", "clear swos"} /\ seeder.step \notin Unseeded
        /\ UNCHANGED <<seedRows, staff, profileId>>
    BY <1>0, <1>3, Moves DEF CopySnapshot, WriteManifest, SeederOK, Doing, Unseeded
  <2>2. profileId # NoProfile => Complete(profileId)'
    BY <1>0, <1>1, <2>1 DEF WholeInv, Complete, SwosOf, TemplatesOf
  <2> QED BY <2>1, <2>2 DEF WholeInv, Doing
<1>4. CASE ClearSwos \/ ClearAgents
  <2>1. seeder'.step \in {"clear agents", "clear metadata"}
    BY <1>0, <1>4, Moves DEF ClearSwos, ClearAgents
  <2> QED BY <2>1 DEF WholeInv, Doing, Unseeded
<1>5. CASE ClearMetadata
  <2>1. seeder'.step = "agents" /\ seeder'.created = {} /\ profileId' = NoProfile /\ seedRows' = {}
    BY <1>0, <1>5, Moves DEF ClearMetadata, StaffInv, Doing
  <2> QED BY <2>1 DEF WholeInv, Doing, Unseeded
<1>6. CASE HireSeeded \/ EndRound
  BY <1>1, <1>6, HiringStep
<1>7. CASE SeedStarter \/ SeedTemplate
  <2>1. seedFile \in Profile /\ seeder.n \in Nat \ {0}
    BY <1>0 DEF SeederOK
  <2> QED BY <1>1, <1>7, <2>1, StarterStep, TemplateStep
<1>8. CASE WriteMetadata
  <2>1. /\ seeder'.step = "repair" /\ profileId' = seedFile /\ seedFile' = seedFile
        /\ UNCHANGED <<seedRows, staff>> /\ Complete(seedFile)
    BY <1>0, <1>1, <1>8, Moves DEF WriteMetadata, WholeInv, Doing
  <2>2. Complete(profileId)'
    BY <2>1 DEF Complete, SwosOf, TemplatesOf
  <2> QED BY <2>1, <2>2 DEF WholeInv, Doing
<1>9. CASE EndSeeding
  <2>1. /\ seeder'.step \in {"up", "down"} /\ profileId = seedFile
        /\ UNCHANGED <<seedFile, seedRows, staff, profileId>>
        /\ profileId # NoProfile => Complete(profileId)
    BY <1>0, <1>1, <1>9, DownOK DEF EndSeeding, WholeInv, Doing, Unseeded, SeederOK
  <2>2. profileId # NoProfile => Complete(profileId)'
    BY <2>1 DEF Complete, SwosOf, TemplatesOf
  <2> QED BY <2>1, <2>2 DEF WholeInv, Doing
<1>10. CASE StopSeeding
  <2>1. /\ seeder'.step = "down" /\ seeder.step \notin {"clear agents", "clear metadata"}
        /\ UNCHANGED <<seedRows, staff, profileId>>
    BY <1>10, DownOK DEF StopSeeding
  <2>2. profileId # NoProfile => Complete(profileId)
    BY <1>0, <1>1, <2>1 DEF WholeInv, Unseeded
  <2>3. profileId # NoProfile => Complete(profileId)'
    BY <2>1, <2>2 DEF Complete, SwosOf, TemplatesOf
  <2> QED BY <2>1, <2>3 DEF WholeInv, Doing
<1>11. CASE AddWork
  <2>1. PICK r : r.of = <<>> /\ seedRows' = seedRows \cup {r}
    <3>1. [id |-> nextRow, kind |-> "swo", of |-> <<>>].of = <<>>
      OBVIOUS
    <3> QED BY <1>11, <3>1 DEF AddWork
  <2>2. UNCHANGED <<seedFile, staff, profileId, seeder>> /\ seeder.step = "up"
    BY <1>11 DEF AddWork, Doing
  <2>3. \A q \in Profile, n \in Nat : SwosOf(q, n)' = SwosOf(q, n) /\ TemplatesOf(q, n)' = TemplatesOf(q, n)
    <3>1. \A q \in Profile, n \in Nat : <<q, n>> # <<>>
      <4> SUFFICES ASSUME NEW q \in Profile, NEW n \in Nat, <<q, n>> = <<>> PROVE FALSE
        OBVIOUS
      <4>1. Len(<<q, n>>) = 2 /\ Len(<<>>) = 0
        OBVIOUS
      <4> QED BY <4>1
    <3>2. \A q \in Profile, n \in Nat : r.of # <<q, n>>
      BY <2>1, <3>1
    <3>3. seedRows' = seedRows \cup {r}
      BY <2>1
    <3> QED BY <3>2, <3>3, RowsOfOthers
  <2>4. \A q \in Profile : Complete(q) => Complete(q)'
    BY <2>2, <2>3, StaysComplete
  <2>5. \A q \in Profile : profileId = q => Complete(q)
    BY <1>0, <1>1, <2>2, SeedingAssumption DEF WholeInv, Unseeded
  <2>6. profileId # NoProfile => Complete(profileId)'
    BY <1>0, <2>2, <2>4, <2>5 DEF SeederOK
  <2> QED BY <1>0, <1>1, <2>2, <2>6 DEF WholeInv, Doing
<1>12. CASE ReplaceSeed
  <2>1. UNCHANGED <<seedRows, staff, profileId, seeder>> /\ seeder.step = "down"
    BY <1>12 DEF ReplaceSeed, Doing
  <2>2. profileId # NoProfile => Complete(profileId)'
    BY <1>0, <1>1, <2>1 DEF WholeInv, Unseeded, Complete, SwosOf, TemplatesOf
  <2> QED BY <2>1, <2>2 DEF WholeInv, Doing
<1>13. CASE UNCHANGED seedVars
  BY <1>0, <1>1, <1>13 DEF seedVars, WholeInv, Complete, SwosOf, TemplatesOf, Doing, Crew
<1> QED
  BY <1>2, <1>3, <1>4, <1>5, <1>6, <1>7, <1>8, <1>9, <1>10, <1>11, <1>12, <1>13 DEF SeedNext, SeedStep

-----------------------------------------------------------------------------
(* The invariant of seeding: every boot, reset, stop and restart keeps it. *)
THEOREM SeedInductive == SeedSpec => []SeedInv
<1>1. SeedInit => SeedInv
  BY SeedInitial
<1>2. SeedInv /\ [SeedNext]_seedVars => SeedInv'
  BY SeederStep, ArchiveStep, StaffStep, WholeStep DEF SeedInv
<1> QED BY <1>1, <1>2, PTL DEF SeedSpec

(* No row a reset deletes is missing from every archive that has a manifest,
   wherever the reset stops (archive_runtime_snapshot, clear_runtime_state). *)
THEOREM NothingIsLost == SeedSpec => []NothingLostUnarchived
<1>1. SeedInv => NothingLostUnarchived
  BY DEF SeedInv, ArchiveInv
<1> QED BY <1>1, SeedInductive, PTL

(* A desktop that came up has its seed whole and once, unless a stop fell between
   the first and the last deletion of a reset (ensure_runtime_seeded). *)
THEOREM UpIsSeeded == SeedSpec => []UpMeansSeeded
<1>1. SeedInv => UpMeansSeeded
  <2> SUFFICES ASSUME SeedInv, Doing("up"), ~halfway
               PROVE  /\ \A n \in 1..Len(Team[seedFile]) : Team[seedFile][n].name \in staff
                      /\ \A n \in 1..Len(Starters[seedFile]) : Cardinality(SwosOf(seedFile, n)) = 1
                      /\ \A n \in 1..Len(Plans[seedFile]) : Cardinality(TemplatesOf(seedFile, n)) <= 1
    BY DEF UpMeansSeeded
  <2>1. profileId = seedFile /\ profileId # NoProfile
    BY SeedingAssumption DEF SeedInv, WholeInv, SeederOK, Doing
  <2>2. Complete(seedFile)
    BY <2>1 DEF SeedInv, WholeInv, Unseeded, Doing
  <2>3. \A S : One(S) => Cardinality(S) = 1
    BY FS_Singleton DEF One
  <2>4. \A S : AtMostOne(S) => Cardinality(S) <= 1
    <3> SUFFICES ASSUME NEW S, AtMostOne(S) PROVE Cardinality(S) <= 1
      OBVIOUS
    <3>1. CASE S = {}
      BY <3>1, FS_EmptySet
    <3>2. CASE S # {}
      <4>1. PICK r : S = {r}
        BY <3>2 DEF AtMostOne
      <4> QED BY <4>1, FS_Singleton
    <3> QED BY <3>1, <3>2
  <2> QED BY <2>2, <2>3, <2>4 DEF Complete, Crew
<1> QED BY <1>1, SeedInductive, PTL

\* All rows there are, and what SeederOK leaves open of them and the counters.
AllRows == seedRows \cup kept \cup seeder.copy
SeedRest ==
  /\ staff \subseteq Names /\ seedings \in 0..MaxSeedings /\ halfway \in BOOLEAN
  /\ \A r \in AllRows : r.id \in 1..(nextRow - 1)

(* Agents and counters stay typed. *)
LEMMA StaffTyped ==
  ASSUME SeederOK, SeedRest, [SeedNext]_seedVars
  PROVE  staff' \subseteq Names /\ seedings' \in 0..MaxSeedings /\ halfway' \in BOOLEAN
<1>1. ASSUME NEW tool \in BOOLEAN, StartSeeding(tool)
      PROVE  staff' = staff /\ seedings' \in 0..MaxSeedings /\ halfway' = halfway
  <2>1. seedings < MaxSeedings /\ seedings' = seedings + 1 /\ UNCHANGED <<staff, halfway>>
    BY <1>1 DEF StartSeeding
  <2>2. seedings \in 0..MaxSeedings
    BY DEF SeedRest
  <2>3. MaxSeedings \in Nat
    BY SeedingAssumption, Zenon
  <2> QED BY <2>1, <2>2, <2>3
<1>2. CASE HireSeeded
  <2>1. PICK new \in SUBSET Crew(seedFile) : staff' = staff \cup new
    BY <1>2, Hires
  <2>2. Crew(seedFile) \subseteq Names
    BY DEF SeederOK, Crew, Names
  <2> QED BY <1>2, <2>1, <2>2 DEF HireSeeded, SeedRest
<1>3. CASE StopSeeding
  <2>1. UNCHANGED <<staff, seedings>>
    BY <1>3 DEF StopSeeding
  <2>2. halfway' \in BOOLEAN
    BY <1>3 DEF StopSeeding
  <2> QED BY <2>1, <2>2 DEF SeedRest
<1>4. CASE ClearAgents
  BY <1>4 DEF ClearAgents, SeedRest
<1>5. CASE UNCHANGED <<staff, seedings, halfway>>
  BY <1>5 DEF SeedRest
<1> QED BY <1>1, <1>2, <1>3, <1>4, <1>5
        DEF SeedNext, SeedStep, seedVars, CopySnapshot, WriteManifest, ClearSwos, ClearMetadata, EndRound,
            SeedStarter, SeedTemplate, WriteMetadata, EndSeeding, AddWork, ReplaceSeed, SeedRest

(* Rows are numbered below the next number: an insertion takes it, other steps
   make none. *)
LEMMA RowsNumbered ==
  ASSUME SeederOK, SeedRest, [SeedNext]_seedVars
  PROVE  \A r \in AllRows' : r.id \in 1..(nextRow' - 1)
<1>0. nextRow \in Nat \ {0} /\ seeder.n \in Nat /\ {"swo", "template"} \subseteq SeedKind
      /\ \A r \in AllRows : r.id \in 1..(nextRow - 1)
  BY DEF SeederOK, SeedKind, SeedRest
<1>1. ASSUME nextRow' = nextRow, AllRows' \subseteq AllRows
      PROVE  \A r \in AllRows' : r.id \in 1..(nextRow' - 1)
  BY <1>0, <1>1
<1>2. ASSUME nextRow' = nextRow + 1, NEW r, r.id = nextRow, AllRows' \subseteq AllRows \cup {r}
      PROVE  \A q \in AllRows' : q.id \in 1..(nextRow' - 1)
  BY <1>0, <1>2
<1>3. ASSUME NEW kind \in SeedKind, InsertSeeded(kind, seeder.n), kept' = kept, seeder'.copy \subseteq seeder.copy
      PROVE  \A r \in AllRows' : r.id \in 1..(nextRow' - 1)
  <2>1. PICK r \in SeedRow : r.id = nextRow /\ seedRows' = seedRows \cup {r} /\ nextRow' = nextRow + 1
    BY <1>0, <1>3, Inserts
  <2>2. AllRows' \subseteq AllRows \cup {r}
    BY <1>3, <2>1 DEF AllRows
  <2> QED BY <1>2, <2>1, <2>2
<1>c. Down.copy = {}
  BY DEF Down
<1>4. ASSUME NEW tool \in BOOLEAN, StartSeeding(tool) PROVE nextRow' = nextRow /\ AllRows' \subseteq AllRows
  <2>1. seeder'.copy = {}
    BY <1>4 DEF StartSeeding, Down
  <2> QED BY <1>4, <2>1 DEF StartSeeding, AllRows
<1>5. CASE CopySnapshot
  <2>1. seeder'.copy = seedRows
    BY <1>5 DEF CopySnapshot, SeederOK
  <2> QED BY <1>1, <1>5, <2>1 DEF CopySnapshot, AllRows
<1>6. CASE WriteManifest \/ ClearSwos \/ ClearAgents \/ ClearMetadata \/ WriteMetadata
  <2>1. seeder'.copy = seeder.copy
    BY <1>6 DEF WriteManifest, ClearSwos, ClearAgents, ClearMetadata, WriteMetadata, Does, SeederOK
  <2> QED BY <1>1, <1>6, <2>1
          DEF WriteManifest, ClearSwos, ClearAgents, ClearMetadata, WriteMetadata, Keeps, AllRows
<1>7. CASE HireSeeded
  <2>1. seeder'.copy = seeder.copy
    BY <1>7 DEF HireSeeded, SeederOK
  <2> QED BY <1>1, <1>7, <2>1 DEF HireSeeded, AllRows
<1>8. CASE EndRound \/ EndSeeding \/ StopSeeding
  <2>1. seeder'.copy \subseteq seeder.copy
    BY <1>8, <1>c DEF EndRound, EndSeeding, StopSeeding, Does, SeederOK
  <2> QED BY <1>1, <1>8, <2>1 DEF EndRound, EndSeeding, StopSeeding, AllRows
<1>9. CASE SeedStarter
  <2>1. seeder'.copy \subseteq seeder.copy
    BY <1>9, <1>c DEF SeedStarter, Does, SeederOK
  <2>2. CASE UNCHANGED <<seedRows, nextRow>>
    BY <1>1, <1>9, <2>1, <2>2 DEF SeedStarter, AllRows
  <2>3. CASE InsertSeeded("swo", seeder.n)
    BY <1>0, <1>3, <1>9, <2>1, <2>3 DEF SeedStarter
  <2> QED BY <1>9, <2>2, <2>3 DEF SeedStarter
<1>10. CASE SeedTemplate
  <2>1. seeder'.copy \subseteq seeder.copy
    BY <1>10 DEF SeedTemplate, Does, SeederOK
  <2>2. CASE UNCHANGED <<seedRows, nextRow>>
    BY <1>1, <1>10, <2>1, <2>2 DEF SeedTemplate, AllRows
  <2>3. CASE InsertSeeded("template", seeder.n)
    BY <1>0, <1>3, <1>10, <2>1, <2>3 DEF SeedTemplate
  <2> QED BY <1>10, <2>2, <2>3 DEF SeedTemplate
<1>11. CASE AddWork
  <2> DEFINE r == [id |-> nextRow, kind |-> "swo", of |-> <<>>]
  <2>1. nextRow' = nextRow + 1 /\ r.id = nextRow /\ AllRows' \subseteq AllRows \cup {r}
    BY <1>11 DEF AddWork, AllRows
  <2> HIDE DEF r
  <2> QED BY <1>2, <2>1
<1>12. CASE ReplaceSeed \/ UNCHANGED seedVars
  BY <1>1, <1>12 DEF ReplaceSeed, seedVars, AllRows
<1> QED BY <1>1, <1>4, <1>5, <1>6, <1>7, <1>8, <1>9, <1>10, <1>11, <1>12 DEF SeedNext, SeedStep

(* Type correctness of the seeding: agents, rows and the procedure. *)
THEOREM SeedTypesHold == SeedSpec => []SeedTypeOK
<1>1. SeedInit => SeedRest
  <2> SUFFICES ASSUME SeedInit PROVE SeedRest
    OBVIOUS
  <2>1. seeder.copy = {} /\ seedRows = {} /\ kept = {}
    BY DEF SeedInit, Down
  <2>2. MaxSeedings \in Nat
    BY SeedingAssumption, Zenon
  <2>3. staff = {} /\ seedings \in 0..MaxSeedings /\ halfway = FALSE
    BY <2>2 DEF SeedInit
  <2> QED BY <2>1, <2>3 DEF SeedRest, AllRows
<1>2. SeederOK /\ SeedRest /\ [SeedNext]_seedVars => SeedRest'
  BY StaffTyped, RowsNumbered DEF SeedRest
<1>3. SeederOK /\ SeedRest => SeedTypeOK
  BY DEF SeederOK, SeedRest, SeedTypeOK, AllRows, SeedRow
<1>4. SeedInv => SeederOK
  BY DEF SeedInv
<1> QED BY <1>1, <1>2, <1>3, <1>4, SeedInductive, PTL DEF SeedSpec

-----------------------------------------------------------------------------
(* The Telegram webhook. *)


(* Between the claim of an update and the message it leaves. *)
Deaf == {"touch", "receive", "hear"}
Claimed == Busy \ {"claim"}

HooksOK ==
  /\ handling \in [Hook -> {NoUpdate} \cup [at : Busy, update : Update, agent : Contact]]
  /\ tokenHolder \in Contact
  /\ talk \in [Contact \X Update \X {"user", "assistant"} -> Nat]

(* An update's receipt is held by one call until the agent has heard it. *)
ReceiptInv ==
  /\ \A h \in Hook :
       handling[h].at \in Claimed /\ handling[h].update.message # NoMessage
         => ReceiptKey(handling[h].update) \in receipts
  /\ \A a \in Contact, u \in Update :
       u.message # NoMessage /\ talk[<<a, u, "user">>] # 0 => ReceiptKey(u) \in receipts
  /\ \A h, g \in Hook :
       (/\ handling[h].at \in Deaf /\ handling[g].at \in Deaf
        /\ handling[h].update = handling[g].update
        /\ handling[h].update.message # NoMessage) => h = g
  /\ \A h \in Hook, a \in Contact :
       handling[h].at \in Deaf /\ handling[h].update.message # NoMessage
         => talk[<<a, handling[h].update, "user">>] = 0

(* The call that claimed an update goes on with it, or has left a trace. *)
SettledInv ==
  \A u \in Update :
    ReceiptKey(u) \in receipts =>
      \/ \E h \in Hook : handling[h].at \in Claimed /\ handling[h].update = u
      \/ \E e \in events : e.update = u /\ e.status \in {"delivered", "failed"}
      \/ ReceiptKey(u) \in cutOff \cup unlogged

ChatInv == HooksOK /\ ReceiptInv /\ HeardOnce /\ SettledInv

-----------------------------------------------------------------------------
(* A receipt names its update. *)
LEMMA KeyIsUnique ==
  ASSUME NEW u \in Update, NEW v \in Update, ReceiptKey(u) = ReceiptKey(v)
  PROVE  u = v
BY ChatAssumption DEF ReceiptKey

(* A call at work has an update and an agent. *)
LEMMA HookShape ==
  ASSUME HooksOK, NEW h \in Hook, handling[h].at \in Busy
  PROVE  handling[h] \in [at : Busy, update : Update, agent : Contact]
BY DEF HooksOK, NoUpdate, Busy

(* A call that goes on keeps its update and its agent. *)
LEMMA Goes ==
  ASSUME HooksOK, NEW h \in Hook, handling[h].at \in Busy, NEW at \in Busy, CallGoes(h, at)
  PROVE  /\ handling' \in [Hook -> {NoUpdate} \cup [at : Busy, update : Update, agent : Contact]]
         /\ handling'[h].at = at /\ handling'[h].update = handling[h].update
         /\ \A g \in Hook \ {h} : handling'[g] = handling[g]
<1>1. handling[h] \in [at : Busy, update : Update, agent : Contact]
  BY HookShape
<1>2. [handling[h] EXCEPT !.at = at] \in [at : Busy, update : Update, agent : Contact]
  BY <1>1
<1>3. /\ [handling[h] EXCEPT !.at = at].at = at
      /\ [handling[h] EXCEPT !.at = at].update = handling[h].update
  BY <1>1
<1>4. handling' = [handling EXCEPT ![h] = [handling[h] EXCEPT !.at = at]]
  BY DEF CallGoes
<1> QED BY <1>2, <1>3, <1>4 DEF HooksOK

(* A call that ends leaves the others. *)
LEMMA Ends ==
  ASSUME HooksOK, NEW h \in Hook, CallEnds(h)
  PROVE  /\ handling' \in [Hook -> {NoUpdate} \cup [at : Busy, update : Update, agent : Contact]]
         /\ handling'[h] = NoUpdate
         /\ \A g \in Hook \ {h} : handling'[g] = handling[g]
BY DEF HooksOK, CallEnds

(* Everything holds before the first post. *)
LEMMA ChatInitial == ChatInit => ChatInv
BY DEF ChatInit, ChatInv, HooksOK, ReceiptInv, HeardOnce, SettledInv, NoUpdate, Deaf, Claimed, Busy

(* The types of the calls and of what was said. *)
LEMMA HooksStep == HooksOK /\ [ChatNext]_chatVars => HooksOK'
<1> SUFFICES ASSUME HooksOK, [ChatNext]_chatVars PROVE HooksOK'
  OBVIOUS
<1> USE DEF HooksOK
<1>1. ASSUME NEW h \in Hook, NEW u \in Update, ResolveRoute(h, u) PROVE HooksOK'
  BY <1>1 DEF ResolveRoute, Busy
<1>2. ASSUME NEW h \in Hook, ClaimReceipt(h) PROVE HooksOK'
  BY <1>2, Goes, Ends DEF ClaimReceipt, HookAt, Busy
<1>3. ASSUME NEW h \in Hook, Touch(h) PROVE HooksOK'
  BY <1>3, Goes, Ends DEF Touch, HookAt, Busy
<1>4. ASSUME NEW h \in Hook, Receive(h) PROVE HooksOK'
  BY <1>4, Goes DEF Receive, HookAt, Busy
<1>5. ASSUME NEW h \in Hook, NEW r \in {"user", "assistant"}, handling[h].at \in Busy, Says(h, r)
      PROVE talk' \in [Contact \X Update \X {"user", "assistant"} -> Nat]
  <2>1. handling[h].agent \in Contact /\ handling[h].update \in Update
    BY <1>5, HookShape
  <2> QED BY <1>5, <2>1 DEF Says
<1>6. ASSUME NEW h \in Hook, Hear(h) PROVE HooksOK'
  BY <1>5, <1>6, Goes DEF Hear, HookAt, Busy
<1>7. ASSUME NEW h \in Hook, Answer(h) PROVE HooksOK'
  BY <1>7, Goes DEF Answer, HookAt, Busy
<1>8. ASSUME NEW h \in Hook, Reply(h) PROVE HooksOK'
  BY <1>5, <1>8, Goes DEF Reply, HookAt, Busy
<1>9. ASSUME NEW h \in Hook, Deliver(h) \/ FailCall(h) \/ HangUp(h) PROVE HooksOK'
  BY <1>9, Ends DEF Deliver, FailCall, Fails, HangUp
<1>10. CASE StopHooks
  BY <1>10 DEF StopHooks
<1>11. ASSUME NEW a \in Contact, MoveToken(a) \/ \E b \in Binding : BindChannel(a, b) PROVE HooksOK'
  BY <1>11 DEF MoveToken, BindChannel
<1>12. CASE UNCHANGED chatVars
  BY <1>12 DEF chatVars
<1> QED BY <1>1, <1>2, <1>3, <1>4, <1>6, <1>7, <1>8, <1>9, <1>10, <1>11, <1>12 DEF ChatNext

(* A call that goes on behind its claim, with nothing said. *)
LEMMA GoesOn ==
  ASSUME HooksOK, ReceiptInv, HeardOnce, NEW h \in Hook, NEW at \in Claimed,
         handling[h].at \in Claimed, at \in Deaf => handling[h].at \in Deaf,
         CallGoes(h, at), UNCHANGED <<talk, receipts>>
  PROVE  (ReceiptInv /\ HeardOnce)'
<1>1. /\ handling'[h].at = at /\ handling'[h].update = handling[h].update
      /\ \A g \in Hook \ {h} : handling'[g] = handling[g]
  BY Goes DEF Claimed
<1>2. \A g \in Hook : /\ handling'[g].at \in Claimed => handling[g].at \in Claimed
                      /\ handling'[g].at \in Deaf => handling[g].at \in Deaf
                      /\ handling'[g].update = handling[g].update
  BY <1>1
<1>3. ReceiptInv'
  BY <1>2 DEF ReceiptInv, ReceiptKey
<1>4. HeardOnce'
  BY DEF HeardOnce
<1> QED BY <1>3, <1>4

(* Calls that end, whatever they were at. *)
LEMMA SomeEnd ==
  ASSUME ReceiptInv, HeardOnce, UNCHANGED <<talk, receipts>>,
         \A g \in Hook : handling'[g] = handling[g] \/ handling'[g].at \in {"free", "claim"}
  PROVE  (ReceiptInv /\ HeardOnce)'
<1>1. \A g \in Hook : handling'[g].at \in Claimed \cup Deaf => handling'[g] = handling[g]
  BY DEF Claimed, Deaf, Busy
<1>2. ReceiptInv'
  BY <1>1 DEF ReceiptInv, ReceiptKey
<1>3. HeardOnce'
  BY DEF HeardOnce
<1> QED BY <1>2, <1>3

(* Receipts and hearing. *)
LEMMA ReceiptStep ==
  HooksOK /\ ReceiptInv /\ HeardOnce /\ [ChatNext]_chatVars => (ReceiptInv /\ HeardOnce)'
<1> SUFFICES ASSUME HooksOK, ReceiptInv, HeardOnce, [ChatNext]_chatVars
             PROVE  (ReceiptInv /\ HeardOnce)'
  OBVIOUS
<1>1. ASSUME NEW h \in Hook, NEW u \in Update, ResolveRoute(h, u) PROVE (ReceiptInv /\ HeardOnce)'
  <2>1. \A g \in Hook : handling'[g] = handling[g] \/ handling'[g].at \in {"free", "claim"}
    BY <1>1 DEF ResolveRoute, HooksOK
  <2> QED BY <1>1, <2>1, SomeEnd DEF ResolveRoute
<1>2. ASSUME NEW h \in Hook, ClaimReceipt(h) PROVE (ReceiptInv /\ HeardOnce)'
  <2> DEFINE u == handling[h].update
  <2>0. handling[h].at = "claim" /\ u \in Update /\ UNCHANGED talk
    BY <1>2, HookShape DEF ClaimReceipt, HookAt, Busy
  <2>1. CASE CallEnds(h) /\ UNCHANGED receipts
    <3>2. \A g \in Hook : handling'[g] = handling[g] \/ handling'[g].at \in {"free", "claim"}
      BY <2>1, Ends DEF NoUpdate
    <3> QED BY <2>0, <2>1, <3>2, SomeEnd
  <2>2. CASE /\ u.message # NoMessage /\ Claims(h, u)
             /\ CallGoes(h, "touch") /\ receipts' = receipts \cup {ReceiptKey(u)}
    <3>1. CallGoes(h, "touch") /\ receipts' = receipts \cup {ReceiptKey(u)}
      BY <2>2
    <3>2. /\ handling'[h].at = "touch" /\ handling'[h].update = u
          /\ \A g \in Hook \ {h} : handling'[g] = handling[g]
      BY <2>0, <3>1, Goes DEF Busy
    <3>3. ReceiptKey(u) \notin receipts
      BY <2>2 DEF Claims
    <3>4. \A g \in Hook : handling[g].at \in Deaf => handling[g].update # u
      BY <2>2, <3>3 DEF ReceiptInv, Deaf, Claimed, Busy
    <3>5. \A a \in Contact : talk[<<a, u, "user">>] = 0
      BY <2>0, <2>2, <3>3 DEF ReceiptInv
    <3> HIDE DEF u
    <3>6. ReceiptInv'
      BY <2>0, <3>1, <3>2, <3>4, <3>5 DEF ReceiptInv, ReceiptKey
    <3>7. HeardOnce'
      BY <2>0 DEF HeardOnce
    <3> QED BY <3>6, <3>7
  <2>3. CASE u.message = NoMessage /\ CallGoes(h, "touch") /\ UNCHANGED receipts
    <3>1. CallGoes(h, "touch") /\ UNCHANGED receipts
      BY <2>3
    <3>2. /\ handling'[h].at = "touch" /\ handling'[h].update = u
          /\ \A g \in Hook \ {h} : handling'[g] = handling[g]
      BY <2>0, <3>1, Goes DEF Busy
    <3> HIDE DEF u
    <3>3. ReceiptInv'
      BY <2>0, <2>3, <3>1, <3>2 DEF ReceiptInv, ReceiptKey
    <3>4. HeardOnce'
      BY <2>0 DEF HeardOnce
    <3> QED BY <3>3, <3>4
  <2> QED BY <1>2, <2>1, <2>2, <2>3 DEF ClaimReceipt
<1>3. ASSUME NEW h \in Hook, Touch(h) PROVE (ReceiptInv /\ HeardOnce)'
  <2>1. CASE CallGoes(h, "receive")
    BY <1>3, <2>1, GoesOn DEF Touch, HookAt, Deaf, Claimed, Busy
  <2>2. CASE CallEnds(h)
    <3>1. \A g \in Hook : handling'[g] = handling[g] \/ handling'[g].at \in {"free", "claim"}
      BY <2>2, Ends DEF NoUpdate
    <3> QED BY <1>3, <3>1, SomeEnd DEF Touch
  <2> QED BY <1>3, <2>1, <2>2 DEF Touch
<1>4. ASSUME NEW h \in Hook, Receive(h) PROVE (ReceiptInv /\ HeardOnce)'
  BY <1>4, GoesOn DEF Receive, HookAt, Deaf, Claimed, Busy
<1>5. ASSUME NEW h \in Hook, Hear(h) PROVE (ReceiptInv /\ HeardOnce)'
  <2>1. CASE CallGoes(h, "fail") /\ UNCHANGED talk
    BY <1>5, <2>1, GoesOn DEF Hear, HookAt, Deaf, Claimed, Busy
  <2>2. CASE Says(h, "user") /\ CallGoes(h, "answer")
    <3> DEFINE u == handling[h].update
               b == handling[h].agent
    <3>0. handling[h].at = "hear" /\ u \in Update /\ b \in Contact /\ UNCHANGED receipts
      BY <1>5, HookShape DEF Hear, HookAt, Busy
    <3>1. /\ handling'[h].at = "answer" /\ handling'[h].update = u
          /\ \A g \in Hook \ {h} : handling'[g] = handling[g]
      BY <2>2, <3>0, Goes DEF Busy
    <3>2. \A a \in Contact, v \in Update :
            talk'[<<a, v, "user">>] = IF a = b /\ v = u THEN talk[<<a, v, "user">>] + 1
                                      ELSE talk[<<a, v, "user">>]
      BY <2>2, <3>0 DEF Says, HooksOK
    <3>3. \A a \in Contact : u.message # NoMessage => talk[<<a, u, "user">>] = 0
      BY <3>0 DEF ReceiptInv, Deaf
    <3>4. u.message # NoMessage => ReceiptKey(u) \in receipts
      BY <3>0 DEF ReceiptInv, Claimed, Busy
    <3>5. \A g \in Hook : handling'[g].at \in Deaf =>
            g # h /\ handling'[g] = handling[g] /\ (handling[g].update = u => u.message = NoMessage)
      BY <3>0, <3>1 DEF ReceiptInv, Deaf
    <3>6. \A g \in Hook : handling'[g].at \in Claimed =>
            handling[g].at \in Claimed /\ handling'[g].update = handling[g].update
      BY <3>0, <3>1 DEF Claimed, Busy
    <3>7. \A g \in Hook : handling'[g].at \in Deaf => handling'[g].update \in Update
      BY <3>5, HookShape DEF Deaf, Busy
    <3> HIDE DEF u, b
    <3>8. ReceiptInv'
      <4>1. \A g \in Hook :
              handling'[g].at \in Claimed /\ handling'[g].update.message # NoMessage
                => ReceiptKey(handling'[g].update) \in receipts'
        BY <3>0, <3>6 DEF ReceiptInv
      <4>2. \A a \in Contact, v \in Update :
              v.message # NoMessage /\ talk'[<<a, v, "user">>] # 0 => ReceiptKey(v) \in receipts'
        BY <3>0, <3>2, <3>4 DEF ReceiptInv
      <4>3. \A f, g \in Hook :
              (/\ handling'[f].at \in Deaf /\ handling'[g].at \in Deaf
               /\ handling'[f].update = handling'[g].update
               /\ handling'[f].update.message # NoMessage) => f = g
        BY <3>5 DEF ReceiptInv
      <4>4. \A g \in Hook, a \in Contact :
              handling'[g].at \in Deaf /\ handling'[g].update.message # NoMessage
                => talk'[<<a, handling'[g].update, "user">>] = 0
        BY <3>2, <3>5, <3>7 DEF ReceiptInv
      <4> QED BY <4>1, <4>2, <4>3, <4>4 DEF ReceiptInv, ReceiptKey
    <3>9. HeardOnce'
      BY <3>0, <3>2, <3>3 DEF HeardOnce
    <3> QED BY <3>8, <3>9
  <2> QED BY <1>5, <2>1, <2>2 DEF Hear
<1>6. ASSUME NEW h \in Hook, Answer(h) PROVE (ReceiptInv /\ HeardOnce)'
  BY <1>6, GoesOn DEF Answer, HookAt, Deaf, Claimed, Busy
<1>7. ASSUME NEW h \in Hook, Reply(h) PROVE (ReceiptInv /\ HeardOnce)'
  <2>1. CASE CallGoes(h, "fail") /\ UNCHANGED talk
    BY <1>7, <2>1, GoesOn DEF Reply, HookAt, Deaf, Claimed, Busy
  <2>2. CASE Says(h, "assistant") /\ CallGoes(h, "deliver")
    <3>0. handling[h].at = "reply" /\ UNCHANGED receipts
      BY <1>7 DEF Reply, HookAt
    <3>1. /\ handling'[h].at = "deliver" /\ handling'[h].update = handling[h].update
          /\ \A g \in Hook \ {h} : handling'[g] = handling[g]
      BY <2>2, <3>0, Goes DEF Busy
    <3>2. \A a \in Contact, v \in Update : talk'[<<a, v, "user">>] = talk[<<a, v, "user">>]
      BY <2>2 DEF Says, HooksOK
    <3>3. \A g \in Hook : /\ handling'[g].at \in Claimed => handling[g].at \in Claimed
                          /\ handling'[g].at \in Deaf => handling[g].at \in Deaf
                          /\ handling'[g].update = handling[g].update
      BY <3>0, <3>1 DEF Deaf, Claimed, Busy
    <3>4. \A g \in Hook : handling[g].at \in Deaf => handling[g].update \in Update
      BY HookShape DEF Deaf, Busy
    <3>5. ReceiptInv'
      BY <3>0, <3>2, <3>3, <3>4 DEF ReceiptInv, ReceiptKey
    <3>6. HeardOnce'
      BY <3>2 DEF HeardOnce
    <3> QED BY <3>5, <3>6
  <2> QED BY <1>7, <2>1, <2>2 DEF Reply
<1>8. ASSUME NEW h \in Hook, Deliver(h) \/ FailCall(h) \/ HangUp(h)
      PROVE  (ReceiptInv /\ HeardOnce)'
  <2>1. CallEnds(h) /\ UNCHANGED <<talk, receipts>>
    BY <1>8 DEF Deliver, FailCall, Fails, HangUp
  <2>2. \A g \in Hook : handling'[g] = handling[g] \/ handling'[g].at \in {"free", "claim"}
    BY <2>1, Ends DEF NoUpdate
  <2> QED BY <2>1, <2>2, SomeEnd
<1>9. CASE StopHooks
  BY <1>9, SomeEnd DEF StopHooks, NoUpdate
<1>10. CASE UNCHANGED <<talk, receipts, handling>>
  BY <1>10, SomeEnd
<1> QED BY <1>1, <1>2, <1>3, <1>4, <1>5, <1>6, <1>7, <1>8, <1>9, <1>10
        DEF ChatNext, chatVars, MoveToken, BindChannel

(* A claimed update leaves a trace. *)
LEMMA SettledStep == HooksOK /\ SettledInv /\ [ChatNext]_chatVars => SettledInv'
<1> SUFFICES ASSUME HooksOK, SettledInv, [ChatNext]_chatVars, NEW u \in Update,
                    ReceiptKey(u) \in receipts'
             PROVE  \/ \E h \in Hook : handling'[h].at \in Claimed /\ handling'[h].update = u
                    \/ \E e \in events' : e.update = u /\ e.status \in {"delivered", "failed"}
                    \/ ReceiptKey(u) \in cutOff' \cup unlogged'
  BY DEF SettledInv, ReceiptKey
<1> DEFINE Settled ==
             \/ \E h \in Hook : handling'[h].at \in Claimed /\ handling'[h].update = u
             \/ \E e \in events' : e.update = u /\ e.status \in {"delivered", "failed"}
             \/ ReceiptKey(u) \in cutOff' \cup unlogged'
<1>0. events \subseteq events' /\ cutOff \subseteq cutOff' /\ unlogged \subseteq unlogged'
  BY DEF ChatNext, chatVars, chatCounts, ResolveRoute, ClaimReceipt, Touch, Receive, Hear, Answer,
         Reply, Deliver, FailCall, Fails, HangUp, StopHooks, MoveToken, BindChannel, LogEvent,
         LogOutbound, CutsOff
<1>1. ASSUME NEW h \in Hook, ClaimReceipt(h), ReceiptKey(u) \notin receipts PROVE Settled
  <2>1. handling[h].update = u /\ CallGoes(h, "touch") /\ handling[h].at = "claim"
    BY <1>1, HookShape, KeyIsUnique DEF ClaimReceipt, HookAt, Busy
  <2> QED BY <2>1, Goes DEF Claimed, Busy
<1>2. ReceiptKey(u) \in receipts \/ \E h \in Hook : ClaimReceipt(h)
  BY DEF ChatNext, chatVars, chatCounts, ResolveRoute, Touch, Receive, Hear, Answer,
         Reply, Deliver, FailCall, Fails, HangUp, StopHooks, MoveToken, BindChannel
<1>3. SUFFICES ASSUME NEW h \in Hook, handling[h].at \in Claimed, handling[h].update = u
               PROVE  Settled
  BY <1>0, <1>1, <1>2 DEF SettledInv
<1>4. CASE handling'[h] = handling[h]
  BY <1>3, <1>4
<1>5. ASSUME NEW at \in Claimed, CallGoes(h, at) PROVE Settled
  <2>1. handling'[h].at = at /\ handling'[h].update = u
    BY <1>3, <1>5, Goes DEF Claimed
  <2> QED BY <1>5, <2>1
<1>6. CASE StopHooks
  <2>1. handling[h] # NoUpdate
    BY <1>3 DEF NoUpdate, Claimed, Busy
  <2> QED BY <1>3, <1>6, <2>1 DEF StopHooks
<1>7. ASSUME NEW g \in Hook, ChatNext,
             \/ \E v \in Update : ResolveRoute(g, v)
             \/ ClaimReceipt(g)
      PROVE  Settled
  <2>1. CASE g # h
    <3>1. handling'[h] = handling[h]
      BY <1>7, <2>1 DEF ResolveRoute, ClaimReceipt, CallGoes, CallEnds, HooksOK
    <3> QED BY <3>1, <1>4
  <2>2. CASE g = h
    <3>1. handling[h].at \notin {"free", "claim"}
      BY <1>3 DEF Claimed, Busy
    <3>2. \A v \in Update : ~ResolveRoute(h, v)
      BY <3>1 DEF ResolveRoute, NoUpdate
    <3>3. ~ClaimReceipt(h)
      BY <3>1 DEF ClaimReceipt, HookAt
    <3> QED BY <1>7, <2>2, <3>2, <3>3
  <2> QED BY <2>1, <2>2
<1>8. ASSUME NEW g \in Hook, Touch(g) PROVE Settled
  <2>1. CASE g = h
    BY <1>3, <1>5, <1>8, <2>1 DEF Touch, CutsOff, Claimed, Busy
  <2>2. CASE g # h
    BY <1>4, <1>8, <2>2 DEF Touch, CallGoes, CallEnds, HooksOK
  <2> QED BY <2>1, <2>2
<1>9. ASSUME NEW g \in Hook, Receive(g) \/ Hear(g) \/ Answer(g) \/ Reply(g) PROVE Settled
  <2>1. CASE g = h
    BY <1>5, <1>9, <2>1 DEF Receive, Hear, Answer, Reply, Claimed, Busy
  <2>2. CASE g # h
    BY <1>4, <1>9, <2>2 DEF Receive, Hear, Answer, Reply, CallGoes, HooksOK
  <2> QED BY <2>1, <2>2
<1>10. ASSUME NEW g \in Hook, Deliver(g) \/ FailCall(g) PROVE Settled
  <2>1. CASE g = h
    <3>1. LogOutbound(h, "delivered") \/ LogOutbound(h, "failed")
      BY <1>10, <2>1 DEF Deliver, FailCall, Fails
    <3>2. PICK s \in {"delivered", "failed"} : LogOutbound(h, s)
      BY <3>1
    <3>3. \/ [agent |-> handling[h].agent, update |-> u, status |-> s] \in events'
          \/ ReceiptKey(u) \in unlogged'
      BY <1>3, <3>2 DEF LogOutbound, Event
    <3> QED BY <3>3
  <2>2. CASE g # h
    BY <1>4, <1>10, <2>2 DEF Deliver, FailCall, Fails, CallEnds, HooksOK
  <2> QED BY <2>1, <2>2
<1>11. CASE UNCHANGED handling
  BY <1>4, <1>11
<1>12. ASSUME NEW g \in Hook, HangUp(g) PROVE Settled
  <2>1. CASE g = h
    BY <1>3, <1>12, <2>1 DEF HangUp, CutsOff
  <2>2. CASE g # h
    BY <1>4, <1>12, <2>2 DEF HangUp, CallEnds, HooksOK
  <2> QED BY <2>1, <2>2
<1> HIDE DEF Settled
<1>13. Settled
  BY <1>6, <1>7, <1>8, <1>9, <1>10, <1>11, <1>12 DEF ChatNext, chatVars, MoveToken, BindChannel
<1> QED BY <1>13 DEF Settled

-----------------------------------------------------------------------------
(* The inductive invariant: a receipt belongs to one call until the update is
   heard, and to a trace after it. *)
THEOREM ChatInductive == ChatSpec => []ChatInv
<1>1. ChatInv /\ [ChatNext]_chatVars => ChatInv'
  BY HooksStep, ReceiptStep, SettledStep DEF ChatInv
<1> QED BY <1>1, ChatInitial, PTL DEF ChatSpec

(* claim_external_message_receipt before run_external_sairgent_chat: one agent
   hears an update, once, for any number of repetitions and calls. *)
THEOREM UpdatesAreHeardOnce == ChatSpec => []HeardOnce
<1>1. ChatInv => HeardOnce
  BY DEF ChatInv
<1> QED BY <1>1, ChatInductive, PTL

(* handle_telegram_webhook: a claimed update is under way or settled by an event,
   or its call ended before its answer was known (an error of the session's row, a
   stop, a hang-up), or the event that settles it could not be written. *)
THEOREM ClaimsAreSettled == ChatSpec => []ClaimedIsSettled
<1>1. ChatInv => ClaimedIsSettled
  BY DEF ChatInv, SettledInv, ClaimedIsSettled, NoUpdate, Claimed, Busy
<1> QED BY <1>1, ChatInductive, PTL

Received == {ReceiptKey(u) : u \in Update}
Delivery == [agent : Contact, update : Update,
             status : {"unauthorized", "duplicate", "received", "delivered", "failed"}]

\* What the types of the calls leave open.
ChatRest ==
  /\ binding \in [Contact -> Binding]
  /\ receipts \cup cutOff \cup unlogged \subseteq Received
  /\ sessions \subseteq [agent : Contact, sender : Sender]
  /\ events \subseteq Delivery
  /\ posts \in 0..MaxPosts /\ binds \in 0..MaxBinds /\ stops \in 0..MaxStops

(* A call at work holds an update and an agent, so what it leaves behind is typed. *)
LEMMA LeavesBehind ==
  ASSUME HooksOK, NEW h \in Hook, handling[h].at \in Busy
  PROVE  /\ handling[h].agent \in Contact /\ handling[h].update \in Update
         /\ ReceiptKey(handling[h].update) \in Received
         /\ handling[h].update.sender \in Sender
<1>1. handling[h].agent \in Contact /\ handling[h].update \in Update
  BY HookShape
<1> QED BY <1>1 DEF Received, Sender

(* So is the event it logs. *)
LEMMA LoggedIsTyped ==
  ASSUME HooksOK, ChatRest, NEW h \in Hook, handling[h].at \in Busy,
         NEW s \in {"duplicate", "received", "delivered", "failed"},
         events' \subseteq events \cup {Event(h, s)}
  PROVE  events' \subseteq Delivery
<1>1. handling[h].agent \in Contact /\ handling[h].update \in Update
  BY LeavesBehind
<1>2. Event(h, s) \in Delivery
  BY <1>1 DEF Delivery, Event
<1> QED BY <1>2 DEF ChatRest

(* Every step leaves tables and counters typed. *)
LEMMA ChatRestKept == HooksOK /\ ChatRest /\ [ChatNext]_chatVars => ChatRest'
<1> SUFFICES ASSUME HooksOK, ChatRest, [ChatNext]_chatVars PROVE ChatRest'
  OBVIOUS
<1>1. ASSUME NEW h \in Hook, NEW u \in Update, ResolveRoute(h, u) PROVE ChatRest'
  <2>1. posts' \in 0..MaxPosts
    BY <1>1, ChatAssumption DEF ResolveRoute, ChatRest
  <2>2. [agent |-> tokenHolder, update |-> u, status |-> "unauthorized"] \in Delivery
    BY DEF HooksOK, Delivery
  <2>3. events' \subseteq Delivery
    BY <1>1, <2>2 DEF ResolveRoute, LogEvent, ChatRest
  <2> QED BY <1>1, <2>1, <2>3 DEF ResolveRoute, ChatRest
<1>2. ASSUME NEW h \in Hook, ClaimReceipt(h) PROVE ChatRest'
  <2>1. handling[h].at \in Busy
    BY <1>2 DEF ClaimReceipt, HookAt, Busy
  <2>2. events' \subseteq Delivery
    BY <1>2, <2>1, LoggedIsTyped DEF ClaimReceipt, LogEvent, ChatRest
  <2>3. receipts' \subseteq Received
    BY <1>2, <2>1, LeavesBehind DEF ClaimReceipt, ChatRest
  <2> QED BY <1>2, <2>2, <2>3 DEF ClaimReceipt, ChatRest, chatCounts
<1>3. ASSUME NEW h \in Hook, Touch(h) PROVE ChatRest'
  <2>1. handling[h].at \in Busy
    BY <1>3 DEF Touch, HookAt, Busy
  <2>2. [agent |-> handling[h].agent, sender |-> handling[h].update.sender]
          \in [agent : Contact, sender : Sender]
    BY <2>1, LeavesBehind
  <2>3. sessions' \subseteq [agent : Contact, sender : Sender]
    BY <1>3, <2>2 DEF Touch, ChatRest
  <2>4. cutOff' \subseteq Received
    BY <1>3, <2>1, LeavesBehind DEF Touch, CutsOff, ChatRest
  <2> QED BY <1>3, <2>3, <2>4 DEF Touch, ChatRest, chatCounts
<1>4. ASSUME NEW h \in Hook, Receive(h) \/ Deliver(h) \/ FailCall(h) PROVE ChatRest'
  <2>1. handling[h].at \in Busy
    BY <1>4 DEF Receive, Deliver, FailCall, HookAt, Busy
  <2>2. events' \subseteq Delivery
    BY <1>4, <2>1, LoggedIsTyped DEF Receive, Deliver, FailCall, Fails, LogEvent, LogOutbound
  <2>3. unlogged' \subseteq Received
    BY <1>4, <2>1, LeavesBehind DEF Receive, Deliver, FailCall, Fails, LogOutbound, ChatRest
  <2> QED BY <1>4, <2>2, <2>3 DEF Receive, Deliver, FailCall, Fails, ChatRest, chatCounts
<1>5. ASSUME NEW h \in Hook, Hear(h) \/ Answer(h) \/ Reply(h) PROVE ChatRest'
  BY <1>5 DEF Hear, Answer, Reply, ChatRest, chatCounts
<1>6. ASSUME NEW a \in Contact, NEW b \in Binding, BindChannel(a, b) PROVE ChatRest'
  <2>1. binding' \in [Contact -> Binding]
    BY <1>6 DEF BindChannel, ChatRest
  <2>2. binds' \in 0..MaxBinds
    BY <1>6, ChatAssumption DEF BindChannel, ChatRest
  <2> QED BY <1>6, <2>1, <2>2 DEF BindChannel, ChatRest
<1>7. ASSUME NEW a \in Contact, MoveToken(a) PROVE ChatRest'
  <2>1. binds' \in 0..MaxBinds
    BY <1>7, ChatAssumption DEF MoveToken, ChatRest
  <2> QED BY <1>7, <2>1 DEF MoveToken, ChatRest
<1>8. CASE StopHooks
  <2>1. stops' \in 0..MaxStops
    BY <1>8, ChatAssumption DEF StopHooks, ChatRest
  <2>2. \A h \in Hook : handling[h] # NoUpdate => ReceiptKey(handling[h].update) \in Received
    <3> SUFFICES ASSUME NEW h \in Hook, handling[h] # NoUpdate
                 PROVE  ReceiptKey(handling[h].update) \in Received
      OBVIOUS
    <3>1. handling[h].at \in Busy
      BY DEF HooksOK
    <3> QED BY <3>1, LeavesBehind
  <2>3. cutOff' \subseteq Received
    BY <1>8, <2>2 DEF StopHooks, ChatRest
  <2> QED BY <1>8, <2>1, <2>3 DEF StopHooks, ChatRest
<1>9. CASE UNCHANGED chatVars
  BY <1>9 DEF chatVars, ChatRest
<1>10. ASSUME NEW h \in Hook, HangUp(h) PROVE ChatRest'
  <2>1. cutOff' \subseteq Received
    BY <1>10, LeavesBehind DEF HangUp, CutsOff, HookAt, Busy, ChatRest
  <2> QED BY <1>10, <2>1 DEF HangUp, ChatRest, chatCounts
<1> QED BY <1>1, <1>2, <1>3, <1>4, <1>5, <1>6, <1>7, <1>8, <1>9, <1>10 DEF ChatNext

(* Type correctness of the webhook: bindings, calls and what they leave behind. *)
THEOREM ChatTypesHold == ChatSpec => []ChatTypeOK
<1>1. ChatInit => ChatRest
  <2> SUFFICES ASSUME ChatInit PROVE ChatRest
    OBVIOUS
  <2>1. binding \in [Contact -> Binding]
    BY DEF ChatInit, Binding
  <2>2. MaxPosts \in Nat /\ MaxBinds \in Nat /\ MaxStops \in Nat
    BY ChatAssumption, Zenon
  <2>3. posts \in 0..MaxPosts /\ binds \in 0..MaxBinds /\ stops \in 0..MaxStops
    BY <2>2 DEF ChatInit
  <2> QED BY <2>1, <2>3 DEF ChatInit, ChatRest
<1>2. HooksOK /\ ChatRest => ChatTypeOK
  BY DEF HooksOK, ChatRest, ChatTypeOK, Received, Delivery
<1>3. ChatInv => HooksOK
  BY DEF ChatInv
<1> QED BY <1>1, <1>2, <1>3, ChatRestKept, ChatInductive, PTL DEF ChatSpec

-----------------------------------------------------------------------------
(* Command ids. *)
Call == [at : {"create", "reload", "announce"}, id : CommandId]
CommandsOK == invocation \in [Invocation -> {NoInvocation} \cup Call]
ListsOK ==
  /\ processed \in Seq(CommandId) /\ Len(processed) <= Remembered
  /\ projects \in Seq(CommandId) /\ announced \in Seq(CommandId)
  /\ invokes \in 0..MaxInvokes /\ exits \in 0..MaxExits
  /\ forgotten \subseteq CommandId /\ unanswered \subseteq CommandId

Calls(id) == {i \in Invocation : invocation[i] # NoInvocation /\ invocation[i].id = id}
Known(id) == id \in ToSet(processed) \/ id \in forgotten

\* Whatever was asked for is remembered or was forgotten, and what was never forgotten
\* has been asked for once: by a call that will create its project, or with one made.
OnceInv ==
  \A id \in CommandId :
    /\ Calls(id) # {} \/ Times(id, projects) # 0 => Known(id)
    /\ id \notin forgotten =>
         /\ Times(id, projects) <= 1
         /\ \A i, j \in Calls(id) : i = j
         /\ \A i \in Calls(id) : invocation[i].at = "create" => Times(id, projects) = 0

\* Calls whose project is made and not announced.
Owing(id) == {i \in Invocation : invocation[i].at \in {"reload", "announce"} /\ invocation[i].id = id}
OwedInv ==
  \A id \in CommandId :
    /\ IsFiniteSet(Owing(id))
    /\ id \notin unanswered
         => Times(id, projects) = Times(id, announced) + Cardinality(Owing(id))

(* A value that is appended comes once more, the others as often as before. *)
LEMMA TimesAppended ==
  ASSUME NEW T, NEW s \in Seq(T), NEW x \in T, NEW id
  PROVE  /\ Times(id, s) \in Nat
         /\ Times(id, Append(s, x)) = IF x = id THEN Times(id, s) + 1 ELSE Times(id, s)
<1> DEFINE In(r) == {n \in DOMAIN r : r[n] = id}
<1>1. Len(s) \in Nat /\ DOMAIN s = 1..Len(s)
  OBVIOUS
<1>2. IsFiniteSet(In(s)) /\ Cardinality(In(s)) \in Nat
  <2>1. In(s) \subseteq 1..Len(s)
    BY <1>1
  <2>2. IsFiniteSet(1..Len(s))
    BY <1>1, FS_Interval
  <2> HIDE DEF In
  <2> QED BY <2>1, <2>2, FS_Subset, FS_CardinalityType
<1>3. Len(s) + 1 \notin In(s)
  BY <1>1
<1>4. In(Append(s, x)) = IF x = id THEN In(s) \cup {Len(s) + 1} ELSE In(s)
  BY <1>1
<1> HIDE DEF In
<1>5. Cardinality(In(s) \cup {Len(s) + 1}) = Cardinality(In(s)) + 1
  BY <1>2, <1>3, FS_AddElement
<1> QED BY <1>2, <1>4, <1>5 DEF Times, In

(* An empty list has nothing. *)
LEMMA TimesOfNothing == ASSUME NEW id PROVE Times(id, <<>>) = 0
<1>1. {n \in DOMAIN <<>> : <<>>[n] = id} = {}
  OBVIOUS
<1> QED BY <1>1, FS_EmptySet DEF Times

(* The beginning. *)
LEMMA CommandInitial == CommandInit => ListsOK /\ CommandsOK /\ OnceInv /\ OwedInv
<1> SUFFICES ASSUME CommandInit PROVE ListsOK /\ CommandsOK /\ OnceInv /\ OwedInv
  OBVIOUS
<1>1. ListsOK /\ CommandsOK
  BY CommandAssumption DEF CommandInit, ListsOK, CommandsOK
<1>2. \A id : Calls(id) = {} /\ Owing(id) = {}
  BY DEF CommandInit, Calls, Owing, NoInvocation
<1>3. \A id : Times(id, projects) = 0 /\ Times(id, announced) = 0
  BY TimesOfNothing DEF CommandInit
<1>4. OnceInv
  BY <1>2, <1>3 DEF OnceInv
<1>5. OwedInv
  BY <1>2, <1>3, FS_EmptySet DEF OwedInv
<1> QED BY <1>1, <1>4, <1>5

(* A full cache has an oldest id to drop. *)
LEMMA Oldest ==
  ASSUME ListsOK, Len(processed) = Remembered
  PROVE  Tail(processed) \in Seq(CommandId) /\ Len(Tail(processed)) = Len(processed) - 1
<1>1. processed \in Seq(CommandId) /\ processed # <<>>
  BY CommandAssumption DEF ListsOK
<1> QED BY <1>1

(* Types. *)
LEMMA CommandTypes ==
  ASSUME ListsOK, CommandsOK, [CommandNext]_commandVars
  PROVE  ListsOK' /\ CommandsOK'
<1> USE CommandAssumption DEF ListsOK, CommandsOK, Call, NoInvocation
<1>1. CASE UNCHANGED commandVars
  BY <1>1 DEF commandVars
<1>2. ASSUME NEW i \in Invocation, NEW id \in CommandId, Invoke(i, id) PROVE ListsOK' /\ CommandsOK'
  <2>1. CASE id \in ToSet(processed)
    BY <1>2, <2>1 DEF Invoke
  <2>2. CASE id \notin ToSet(processed)
    <3>1. processed' \in Seq(CommandId) /\ Len(processed') <= Remembered
      <4>1. Len(processed) \in Nat
        OBVIOUS
      <4>2. CASE Len(processed) = Remembered
        <5>1. Tail(processed) \in Seq(CommandId) /\ Len(Tail(processed)) = Len(processed) - 1
          BY <4>2, Oldest
        <5>2. processed' = Append(Tail(processed), id)
          BY <1>2, <2>2, <4>2 DEF Invoke, Put
        <5>3. Len(Append(Tail(processed), id)) = Len(Tail(processed)) + 1
              /\ Append(Tail(processed), id) \in Seq(CommandId)
          BY <5>1
        <5> QED BY <4>1, <4>2, <5>1, <5>2, <5>3
      <4>3. CASE Len(processed) # Remembered
        <5>1. processed' = Append(processed, id)
          BY <1>2, <2>2, <4>3 DEF Invoke, Put
        <5> QED BY <4>1, <4>3, <5>1
      <4> QED BY <4>2, <4>3
    <3>2. ToSet(processed) \subseteq CommandId
      BY DEF ToSet
    <3> QED BY <1>2, <2>2, <3>1, <3>2 DEF Invoke
  <2> QED BY <2>1, <2>2
<1>3. ASSUME NEW i \in Invocation, CreateProject(i) PROVE ListsOK' /\ CommandsOK'
  <2>1. invocation[i] \in Call
    BY <1>3 DEF CreateProject
  <2>2. invocation[i].id \in CommandId
    BY <2>1
  <2>3. Append(projects, invocation[i].id) \in Seq(CommandId)
    BY <2>2
  <2>4. projects' \in Seq(CommandId)
    BY <1>3, <2>3 DEF CreateProject
  <2>5. CommandsOK'
    BY <1>3, <2>1 DEF CreateProject
  <2> QED BY <1>3, <2>4, <2>5 DEF CreateProject
<1>4. ASSUME NEW i \in Invocation, ReloadProject(i) PROVE ListsOK' /\ CommandsOK'
  <2>1. invocation[i] \in Call
    BY <1>4 DEF ReloadProject
  <2> QED BY <1>4, <2>1 DEF ReloadProject
<1>5. ASSUME NEW i \in Invocation, Announce(i) PROVE ListsOK' /\ CommandsOK'
  <2>1. invocation[i] \in Call
    BY <1>5 DEF Announce
  <2> QED BY <1>5, <2>1 DEF Announce
<1>6. CASE ExitBackend
  <2>1. ToSet(processed) \subseteq CommandId
    BY DEF ToSet
  <2>2. \A i \in Invocation : invocation[i].at \in {"reload", "announce"} => invocation[i].id \in CommandId
    OBVIOUS
  <2> QED BY <1>6, <2>1, <2>2 DEF ExitBackend
<1> QED BY <1>1, <1>2, <1>3, <1>4, <1>5, <1>6 DEF CommandNext

(* What is made under an id that was never forgotten is made once. *)
LEMMA OnceKept ==
  ASSUME ListsOK, CommandsOK, OnceInv, [CommandNext]_commandVars
  PROVE  OnceInv'
<1> USE DEF NoInvocation
<1>1. CASE UNCHANGED commandVars
  BY <1>1 DEF commandVars, OnceInv, Calls, Known
<1>2. ASSUME NEW i \in Invocation, NEW id \in CommandId, Invoke(i, id) PROVE OnceInv'
  <2>0. projects' = projects /\ \A x \in CommandId : Known(x) => Known(x)'
    BY <1>2 DEF Invoke, Known
  <2>1. CASE id \in ToSet(processed)
    BY <1>2, <2>1 DEF Invoke, OnceInv, Calls, Known
  <2>2. CASE id \notin ToSet(processed)
    <3>1. invocation' = [invocation EXCEPT ![i] = [at |-> "create", id |-> id]]
      BY <1>2, <2>2 DEF Invoke
    <3>2. Calls(id)' = Calls(id) \cup {i} /\ \A x \in CommandId \ {id} : Calls(x)' = Calls(x)
      BY <1>2, <3>1 DEF Invoke, Calls, CommandsOK
    <3>3. id \in ToSet(processed')
      <4>1. processed' = Put(id)
        BY <1>2, <2>2 DEF Invoke
      <4>2. \A s \in Seq(CommandId) : id \in ToSet(Append(s, id))
        <5> SUFFICES ASSUME NEW s \in Seq(CommandId) PROVE id \in ToSet(Append(s, id))
          OBVIOUS
        <5>1. Len(s) + 1 \in DOMAIN Append(s, id) /\ Append(s, id)[Len(s) + 1] = id
          OBVIOUS
        <5> QED BY <5>1 DEF ToSet
      <4>3. CASE Len(processed) = Remembered
        <5> QED BY <4>1, <4>2, <4>3, Oldest DEF Put
      <4> QED BY <4>1, <4>2, <4>3 DEF Put, ListsOK
    <3>4. forgotten \subseteq forgotten'
      BY <1>2, <2>2 DEF Invoke
    <3>5. ASSUME NEW x \in CommandId, x # id
          PROVE  /\ Calls(x)' # {} \/ Times(x, projects') # 0 => Known(x)'
                 /\ x \notin forgotten' =>
                      /\ Times(x, projects') <= 1
                      /\ \A k, j \in Calls(x)' : k = j
                      /\ \A k \in Calls(x)' : invocation'[k].at = "create" => Times(x, projects') = 0
      <4>1. Calls(x)' = Calls(x) /\ \A k \in Calls(x) : k \in Invocation /\ k # i
        BY <1>2, <3>2, <3>5 DEF Invoke, Calls
      <4>2. \A k \in Calls(x) : invocation'[k] = invocation[k]
        BY <3>1, <4>1 DEF CommandsOK
      <4> QED BY <2>0, <3>4, <4>1, <4>2 DEF OnceInv
    <3>6. /\ Known(id)'
          /\ id \notin forgotten' =>
               /\ Times(id, projects') = 0
               /\ \A k, j \in Calls(id)' : k = j
      <4>1. Known(id)'
        BY <3>3 DEF Known
      <4>2. ASSUME id \notin forgotten' PROVE Times(id, projects') = 0 /\ Calls(id) = {}
        <5>1. ~ Known(id)
          BY <2>2, <3>4, <4>2 DEF Known
        <5> QED BY <5>1, <2>0 DEF OnceInv
      <4> QED BY <4>1, <4>2, <3>2
    <3> QED BY <3>5, <3>6 DEF OnceInv
  <2> QED BY <2>1, <2>2
<1>3. ASSUME NEW i \in Invocation, CreateProject(i) PROVE OnceInv'
  <2>c. invocation[i] \in Call /\ invocation[i].at = "create"
    BY <1>3 DEF CreateProject, CommandsOK
  <2>d. PICK id \in CommandId : id = invocation[i].id
    BY <2>c DEF Call
  <2>0. i \in Calls(id)
    BY <2>c, <2>d DEF Calls, Call
  <2>1. UNCHANGED <<processed, forgotten>>
    BY <1>3 DEF CreateProject
  <2>2. \A x \in CommandId : Calls(x)' \subseteq Calls(x) /\ (Known(x)' <=> Known(x))
    BY <1>3, <2>1 DEF CreateProject, Calls, Known, CommandsOK, Call
  <2>3. \A k \in Invocation : k # i => invocation'[k] = invocation[k]
    BY <1>3 DEF CreateProject, CommandsOK
  <2>4. invocation'[i].at # "create"
    <3>1. \/ invocation'[i] = [invocation[i] EXCEPT !.at = "reload"]
          \/ invocation'[i] = NoInvocation
      BY <1>3 DEF CreateProject, CommandsOK
    <3>2. \A c \in Call : [c EXCEPT !.at = "reload"].at = "reload"
      BY DEF Call
    <3>3. NoInvocation.at = "none"
      OBVIOUS
    <3>4. invocation'[i].at \in {"reload", "none"}
      <4> HIDE DEF NoInvocation
      <4> QED BY <3>1, <3>2, <3>3, <2>c
    <3> QED BY <3>4
  <2>p. projects \in Seq(CommandId) /\ projects' \in {projects, Append(projects, id)}
    BY <1>3, <2>d DEF CreateProject, ListsOK
  <2>5. \A x \in CommandId : x # id => Times(x, projects') = Times(x, projects)
    <3> SUFFICES ASSUME NEW x \in CommandId, x # id
                 PROVE  Times(x, projects') = Times(x, projects)
      OBVIOUS
    <3>1. Times(x, Append(projects, id)) = Times(x, projects)
      BY <2>p, TimesAppended
    <3> QED BY <2>p, <3>1
  <2>6. Times(id, projects') \in {Times(id, projects), Times(id, projects) + 1}
    <3>1. Times(id, Append(projects, id)) = Times(id, projects) + 1
      BY <2>p, TimesAppended
    <3> QED BY <2>p, <3>1
  <2>7. Known(id)
    BY <2>0 DEF OnceInv
  <2>8. id \notin forgotten => Times(id, projects) = 0 /\ \A j \in Calls(id) : j = i
    BY <2>0, <2>c DEF OnceInv
  <2>9. \A x : Calls(x)' \subseteq Invocation /\ Calls(x) \subseteq Invocation
    BY DEF Calls
  <2>10. ASSUME NEW x \in CommandId, x # id
         PROVE  /\ Calls(x)' # {} \/ Times(x, projects') # 0 => Known(x)'
                /\ x \notin forgotten' =>
                     /\ Times(x, projects') <= 1
                     /\ \A k, j \in Calls(x)' : k = j
                     /\ \A k \in Calls(x)' : invocation'[k].at = "create" => Times(x, projects') = 0
    BY <2>1, <2>2, <2>3, <2>4, <2>5, <2>9, <2>10 DEF OnceInv
  <2>11. /\ Known(id)'
         /\ id \notin forgotten' =>
              /\ Times(id, projects') <= 1
              /\ \A k \in Calls(id)' : k = i
    BY <2>0, <2>1, <2>2, <2>6, <2>7, <2>8
  <2> QED BY <2>4, <2>10, <2>11, <2>0 DEF OnceInv
<1>4. ASSUME NEW i \in Invocation, ReloadProject(i) \/ Announce(i) PROVE OnceInv'
  <2>1. UNCHANGED <<processed, forgotten, projects>>
    BY <1>4 DEF ReloadProject, Announce
  <2>2. \A x \in CommandId : Calls(x)' \subseteq Calls(x) /\ (Known(x)' <=> Known(x))
    BY <1>4, <2>1 DEF ReloadProject, Announce, Calls, Known, CommandsOK, Call
  <2>3. \A k \in Invocation : invocation'[k].at = "create" => invocation[k].at = "create"
    BY <1>4 DEF ReloadProject, Announce, CommandsOK, Call
  <2>4. \A x : Calls(x)' \subseteq Invocation
    BY DEF Calls
  <2> QED BY <2>1, <2>2, <2>3, <2>4 DEF OnceInv
<1>5. CASE ExitBackend
  <2>1. \A x \in CommandId : Calls(x)' = {}
    BY <1>5 DEF ExitBackend, Calls
  <2>2. projects' = projects /\ \A x : Known(x)' <=> Known(x)
    <3>1. ToSet(<<>>) = {}
      BY DEF ToSet
    <3> QED BY <1>5, <3>1 DEF ExitBackend, Known
  <2>3. forgotten \subseteq forgotten'
    BY <1>5 DEF ExitBackend
  <2> QED BY <2>1, <2>2, <2>3 DEF OnceInv
<1> QED BY <1>1, <1>2, <1>3, <1>4, <1>5 DEF CommandNext

(* What is owed grows by the project made and shrinks by the one announced, or by the
   call that fails in between. *)
LEMMA OwedKept ==
  ASSUME ListsOK, CommandsOK, OwedInv, [CommandNext]_commandVars
  PROVE  OwedInv'
<1> USE DEF NoInvocation
<1>t. /\ projects \in Seq(CommandId) /\ announced \in Seq(CommandId)
      /\ \A x \in CommandId : /\ Times(x, projects) \in Nat /\ Times(x, announced) \in Nat
                              /\ IsFiniteSet(Owing(x)) /\ Cardinality(Owing(x)) \in Nat
  <2>1. projects \in Seq(CommandId) /\ announced \in Seq(CommandId)
    BY DEF ListsOK
  <2>2. \A x \in CommandId : IsFiniteSet(Owing(x))
    BY DEF OwedInv
  <2> QED BY <2>1, <2>2, TimesAppended, FS_CardinalityType
<1>1. CASE UNCHANGED commandVars
  BY <1>1 DEF commandVars, OwedInv, Owing
<1>2. ASSUME NEW i \in Invocation, NEW id \in CommandId, Invoke(i, id) PROVE OwedInv'
  <2>1. UNCHANGED <<projects, announced, unanswered>>
    BY <1>2 DEF Invoke
  <2>2. \A x \in CommandId : Owing(x)' = Owing(x)
    BY <1>2 DEF Invoke, Owing, CommandsOK
  <2> QED BY <2>1, <2>2 DEF OwedInv
<1>3. ASSUME NEW i \in Invocation, CreateProject(i) PROVE OwedInv'
  <2>0. invocation[i] \in Call /\ invocation[i].at = "create"
    BY <1>3 DEF CreateProject, CommandsOK
  <2>1. PICK id \in CommandId : id = invocation[i].id
    BY <2>0 DEF Call
  <2>2. UNCHANGED <<announced, unanswered>>
    BY <1>3 DEF CreateProject
  <2>3. CASE /\ projects' = Append(projects, id)
             /\ invocation' = [invocation EXCEPT ![i].at = "reload"]
    <3>1. \A x \in CommandId \ {id} : Owing(x)' = Owing(x) /\ Times(x, projects') = Times(x, projects)
      BY <1>t, <2>0, <2>1, <2>3, TimesAppended DEF Owing, CommandsOK, Call
    <3>2. Owing(id)' = Owing(id) \cup {i} /\ i \notin Owing(id)
      BY <2>0, <2>1, <2>3 DEF Owing, CommandsOK, Call
    <3>3. Times(id, projects') = Times(id, projects) + 1
      BY <1>t, <2>3, TimesAppended
    <3>4. IsFiniteSet(Owing(id)') /\ Cardinality(Owing(id)') = Cardinality(Owing(id)) + 1
      <4>1. IsFiniteSet(Owing(id) \cup {i})
            /\ Cardinality(Owing(id) \cup {i}) = Cardinality(Owing(id)) + 1
        BY <1>t, <3>2, FS_AddElement
      <4> QED BY <3>2, <4>1
    <3>5. IsFiniteSet(Owing(id)') /\ (id \notin unanswered' =>
            Times(id, projects') = Times(id, announced') + Cardinality(Owing(id)'))
      BY <1>t, <2>2, <3>3, <3>4 DEF OwedInv
    <3>6. \A x \in CommandId \ {id} :
            IsFiniteSet(Owing(x)') /\ (x \notin unanswered' =>
              Times(x, projects') = Times(x, announced') + Cardinality(Owing(x)'))
      BY <2>2, <3>1 DEF OwedInv
    <3> QED BY <3>5, <3>6 DEF OwedInv
  <2>4. CASE projects' = projects /\ invocation' = [invocation EXCEPT ![i] = NoInvocation]
    <3>1. \A x \in CommandId : Owing(x)' = Owing(x)
      BY <2>0, <2>4 DEF Owing, CommandsOK
    <3> QED BY <2>2, <2>4, <3>1 DEF OwedInv
  <2> QED BY <1>3, <2>1, <2>3, <2>4 DEF CreateProject
<1>4. ASSUME NEW i \in Invocation, ReloadProject(i) PROVE OwedInv'
  <2>0. invocation[i] \in Call /\ invocation[i].at = "reload"
    BY <1>4 DEF ReloadProject, CommandsOK
  <2>1. PICK id \in CommandId : id = invocation[i].id
    BY <2>0 DEF Call
  <2>2. UNCHANGED <<projects, announced>> /\ unanswered \subseteq unanswered'
    BY <1>4 DEF ReloadProject
  <2>3. CASE invocation' = [invocation EXCEPT ![i].at = "announce"]
    <3>1. \A x \in CommandId : Owing(x)' = Owing(x)
      BY <2>0, <2>3 DEF Owing, CommandsOK, Call
    <3> QED BY <2>2, <3>1 DEF OwedInv
  <2>4. CASE /\ invocation' = [invocation EXCEPT ![i] = NoInvocation]
             /\ unanswered' = unanswered \cup {id}
    <3>1. \A x \in CommandId \ {id} : Owing(x)' = Owing(x)
      BY <2>0, <2>1, <2>4 DEF Owing, CommandsOK
    <3>2. Owing(id)' = Owing(id) \ {i}
      BY <2>0, <2>4 DEF Owing, CommandsOK
    <3>3. IsFiniteSet(Owing(id)')
      <4>1. IsFiniteSet(Owing(id) \ {i})
        BY <1>t, FS_RemoveElement
      <4> QED BY <3>2, <4>1
    <3> QED BY <2>2, <2>4, <3>1, <3>3 DEF OwedInv
  <2> QED BY <1>4, <2>1, <2>3, <2>4 DEF ReloadProject
<1>5. ASSUME NEW i \in Invocation, Announce(i) PROVE OwedInv'
  <2>0. invocation[i] \in Call /\ invocation[i].at = "announce"
    BY <1>5 DEF Announce, CommandsOK
  <2>1. PICK id \in CommandId : id = invocation[i].id
    BY <2>0 DEF Call
  <2>2. UNCHANGED <<projects, unanswered>> /\ announced' = Append(announced, id)
        /\ invocation' = [invocation EXCEPT ![i] = NoInvocation]
    BY <1>5, <2>1 DEF Announce
  <2>3. \A x \in CommandId \ {id} : Owing(x)' = Owing(x) /\ Times(x, announced') = Times(x, announced)
    BY <1>t, <2>0, <2>1, <2>2, TimesAppended DEF Owing, CommandsOK
  <2>4. Owing(id)' = Owing(id) \ {i} /\ i \in Owing(id)
    BY <2>0, <2>1, <2>2 DEF Owing, CommandsOK
  <2>5. Times(id, announced') = Times(id, announced) + 1
    BY <1>t, <2>2, TimesAppended
  <2>6. IsFiniteSet(Owing(id)') /\ Cardinality(Owing(id)') = Cardinality(Owing(id)) - 1
    BY <1>t, <2>4, FS_RemoveElement
  <2>7. id \notin unanswered' =>
          Times(id, projects') = Times(id, announced') + Cardinality(Owing(id)')
    BY <1>t, <2>2, <2>5, <2>6 DEF OwedInv
  <2>8. \A x \in CommandId \ {id} :
          IsFiniteSet(Owing(x)') /\ (x \notin unanswered' =>
            Times(x, projects') = Times(x, announced') + Cardinality(Owing(x)'))
    BY <2>2, <2>3 DEF OwedInv
  <2> QED BY <2>6, <2>7, <2>8 DEF OwedInv
<1>6. CASE ExitBackend
  <2>1. \A x \in CommandId : Owing(x)' = {}
    BY <1>6 DEF ExitBackend, Owing
  <2>2. UNCHANGED <<projects, announced>> /\ unanswered \subseteq unanswered'
    BY <1>6 DEF ExitBackend
  <2>3. \A x \in CommandId : x \notin unanswered' => Owing(x) = {}
    BY <1>6 DEF ExitBackend, Owing
  <2>4. IsFiniteSet({}) /\ Cardinality({}) = 0
    BY FS_EmptySet
  <2>5. ASSUME NEW x \in CommandId
        PROVE  IsFiniteSet(Owing(x)') /\ (x \notin unanswered' =>
                 Times(x, projects') = Times(x, announced') + Cardinality(Owing(x)'))
    BY <2>1, <2>2, <2>3, <2>4 DEF OwedInv
  <2> QED BY <2>5 DEF OwedInv
<1> QED BY <1>1, <1>2, <1>3, <1>4, <1>5, <1>6 DEF CommandNext

(* Types, OnceInv and OwedInv hold in every state. *)
THEOREM CommandsInductive == CommandSpec => [](ListsOK /\ CommandsOK /\ OnceInv /\ OwedInv)
<1>1. ListsOK /\ CommandsOK /\ OnceInv /\ OwedInv /\ [CommandNext]_commandVars
        => (ListsOK /\ CommandsOK /\ OnceInv /\ OwedInv)'
  BY CommandTypes, OnceKept, OwedKept
<1> QED BY <1>1, CommandInitial, PTL DEF CommandSpec

(* Types of the cache, the calls and the lists. *)
THEOREM CommandTypesHold == CommandSpec => []CommandTypeOK
<1>1. ListsOK /\ CommandsOK => CommandTypeOK
  BY DEF ListsOK, CommandsOK, Call, CommandTypeOK
<1> QED BY <1>1, CommandsInductive, PTL

(* A repeated command makes a second project only once its id was forgotten, and a
   project nobody announced has a call that will, or a failure recorded. *)
THEOREM CommandsRunOnce == CommandSpec => []CreatedOnceAndAnnounced
<1>1. ListsOK /\ CommandsOK /\ OnceInv /\ OwedInv => CreatedOnceAndAnnounced
  <2> SUFFICES ASSUME ListsOK, CommandsOK, OnceInv, OwedInv, NEW id \in CommandId
               PROVE  /\ Times(id, projects) > 1 => id \in forgotten
                      /\ Times(id, projects) > Times(id, announced) =>
                           id \in unanswered
                           \/ \E i \in Invocation : invocation[i] # NoInvocation /\ invocation[i].id = id
    BY DEF CreatedOnceAndAnnounced
  <2>1. Times(id, projects) \in Nat /\ Times(id, announced) \in Nat
    BY TimesAppended DEF ListsOK
  <2>2. Times(id, projects) > 1 => id \in forgotten
    BY <2>1 DEF OnceInv
  <2>3. ASSUME Times(id, projects) > Times(id, announced), id \notin unanswered
        PROVE  Owing(id) # {}
    BY <2>1, <2>3, FS_EmptySet DEF OwedInv
  <2> QED BY <2>2, <2>3 DEF Owing, NoInvocation
<1> QED BY <1>1, CommandsInductive, PTL

-----------------------------------------------------------------------------
(* Workflows. *)
StepRow == [agent : Assignee, status : RowStatus]
LaunchCall ==
  [at : {"none", "root", "steps", "audit", "launched", "error"}, todo : Seq(Assignee)]
LaunchTypes ==
  /\ launching \in [Launch -> LaunchCall]
  /\ root \in [Launch -> RowStatus \cup {"ABSENT"}]
  /\ steps \in [Launch -> Seq(StepRow)]
  /\ recorded \subseteq Launch /\ cutShort \subseteq Launch
  /\ sweeping \subseteq Launch /\ listed \cup revising \subseteq Launch \X Nat
  /\ swept \in [Launch -> SUBSET Nat]

\* The rows are a beginning of what was compiled, all of it once the launch is
\* recorded, and what a sweep passed over and nobody reset is closed.
LaunchOK(l) ==
  /\ launching[l].at \in {"none", "root"} => root[l] = "ABSENT"
  /\ launching[l].at \in {"steps", "audit", "launched"} => root[l] # "ABSENT"
  /\ root[l] = "ABSENT" => steps[l] = <<>> /\ swept[l] = {}
  /\ Len(steps[l]) <= Len(launching[l].todo)
  /\ \A n \in 1..Len(steps[l]) : steps[l][n].agent = launching[l].todo[n]
  /\ launching[l].at \in {"audit", "launched"} => l \in recorded
  /\ launching[l].at = "error" => l \in recorded \cup cutShort
  /\ l \in recorded => /\ launching[l].at \in {"audit", "launched", "error"}
                       /\ Len(steps[l]) = Len(launching[l].todo)
  /\ \A n \in swept[l] : n \in 1..Len(steps[l]) /\ steps[l][n].status \notin Open
LaunchInv == \A l \in Launch : LaunchOK(l)

(* A step's assignees are agents. *)
LEMMA AssigneesAreAgents ==
  ASSUME NEW c \in Context, NEW n \in 1..Len(Workflow)
  PROVE  Assignees(Workflow[n], c) \in Seq(Assignee)
<1>1. /\ Workflow[n].assignee \in {"CURRENT", "REQUESTED", "REPORTS", "AGENT_IDS"}
      /\ Workflow[n].ids \in Seq(Assignee)
  <2> DEFINE Step == [assignee : {"CURRENT", "REQUESTED", "REPORTS", "AGENT_IDS"},
                      ids : Seq(Assignee), when : Condition \cup {Always}]
  <2>1. Workflow \in Seq(Step)
    BY WorkflowAssumption
  <2>2. Workflow[n] \in Step
    <3> HIDE DEF Step
    <3> QED BY <2>1
  <2> QED BY <2>2
<1>2. c.requested \in Assignee \cup {Unasked} /\ c.reports \in Seq(Assignee) /\ Entry \in Assignee
  BY WorkflowAssumption
<1>3. \A a \in Assignee : <<a>> \in Seq(Assignee)
  OBVIOUS
<1> QED BY <1>1, <1>2, <1>3 DEF Assignees

(* What is compiled is a sequence of agents. *)
LEMMA CompiledIsSequence ==
  ASSUME NEW c \in Context
  PROVE  Compiled(c) \in Seq(Assignee)
<1> DEFINE N == Len(Workflow)
           X == Seq(Assignee)
           More(n) == IF Chosen(Workflow[n], c) THEN Assignees(Workflow[n], c) ELSE <<>>
           F == [n \in 1..N |-> [r \in X |-> r \o More(n)]]
           Body(g) == [n \in 0..N |-> IF n = 0 THEN <<>> ELSE g[n - 1] \o More(n)]
           rows == CHOOSE g : g = Body(g)
<1>1. N \in Nat /\ <<>> \in X
  BY WorkflowAssumption
<1>2. \A n \in 1..N : More(n) \in X
  BY AssigneesAreAgents
<1> HIDE DEF N, More
<1>3. \A n \in 1..N : \A r \in X : r \o More(n) \in X
  BY <1>2
<1> HIDE DEF X
<1>4. F \in [1..N -> [X -> X]]
  BY <1>3
<1>5. PICK g : Iterated(g, N, X, <<>>, F)
  <2> HIDE DEF F
  <2> QED BY <1>1, <1>4, Iterates
<1>6. /\ g \in [0..N -> X] /\ g[0] = <<>>
      /\ \A n \in 1..N : g[n] = g[n - 1] \o More(n)
  <2>1. g \in [0..N -> X] /\ g[0] = <<>> /\ \A n \in 1..N : g[n] = F[n][g[n - 1]]
    BY <1>5 DEF Iterated
  <2>2. \A n \in 1..N : n - 1 \in 0..N
    BY <1>1
  <2>3. \A n \in 1..N : g[n - 1] \in X
    BY <2>1, <2>2
  <2>4. \A n \in 1..N : \A r \in X : F[n][r] = r \o More(n)
    OBVIOUS
  <2> HIDE DEF F
  <2> QED BY <2>1, <2>3, <2>4
<1>7. g = Body(g)
  <2>1. \A n \in 0..N : g[n] = IF n = 0 THEN <<>> ELSE g[n - 1] \o More(n)
    BY <1>1, <1>6
  <2> QED BY <1>6, <2>1
<1>8. rows = Body(rows)
  <2> HIDE DEF Body
  <2> QED BY <1>7
<1>9. Compiled(c) = rows[N]
  BY DEF Compiled, N, More
<1> HIDE DEF rows
<1>10. rows[0] = <<>> /\ \A n \in 1..N : rows[n] = rows[n - 1] \o More(n)
  <2>1. rows = [n \in 0..N |-> IF n = 0 THEN <<>> ELSE rows[n - 1] \o More(n)]
    BY <1>8
  <2>2. 0 \in 0..N /\ \A n \in 1..N : n \in 0..N /\ n # 0
    BY <1>1
  <2>3. \A n \in 0..N : rows[n] = IF n = 0 THEN <<>> ELSE rows[n - 1] \o More(n)
    BY <2>1
  <2> QED BY <2>2, <2>3
<1> DEFINE Bad == {n \in 0..N : rows[n] \notin X}
<1>11. Bad = {}
  <2> SUFFICES ASSUME Bad # {} PROVE FALSE
    OBVIOUS
  <2>1. Bad \in SUBSET Nat
    BY <1>1
  <2>2. PICK k \in Bad : \A m \in Bad : k <= m
    <3> HIDE DEF Bad
    <3> QED BY <2>1, LeastNumber
  <2>3. k \in 0..N /\ rows[k] \notin X /\ k # 0
    BY <2>2, <1>1, <1>10
  <2>4. k \in 1..N /\ k - 1 \in 0..N /\ ~ (k <= k - 1)
    BY <2>3, <1>1
  <2>5. rows[k - 1] \in X
    BY <2>2, <2>4
  <2> QED BY <2>3, <2>4, <2>5, <1>3, <1>10
<1> QED BY <1>1, <1>9, <1>11 DEF X

(* The beginning. *)
LEMMA WorkflowInitial == WorkflowInit => LaunchTypes /\ LaunchInv
<1> SUFFICES ASSUME WorkflowInit PROVE LaunchTypes /\ LaunchInv
  OBVIOUS
<1> USE DEF WorkflowInit, Unlaunched
<1>1. LaunchTypes
  BY DEF LaunchTypes, LaunchCall
<1>2. Len(<<>>) = 0
  OBVIOUS
<1>3. LaunchInv
  BY <1>2 DEF LaunchInv, LaunchOK
<1> QED BY <1>1, <1>3

(* A write to a row of a launch changes that row's status alone. *)
LEMMA RowWritten ==
  ASSUME LaunchTypes, NEW l \in Launch, NEW n \in RowsOf(l), NEW st \in RowStatus, Write(l, n, st)
  PROVE  /\ n \in Nat /\ root[l] # "ABSENT" /\ root'[l] # "ABSENT"
         /\ root' \in [Launch -> RowStatus \cup {"ABSENT"}] /\ steps' \in [Launch -> Seq(StepRow)]
         /\ \A k \in Launch \ {l} : root'[k] = root[k] /\ steps'[k] = steps[k]
         /\ Len(steps'[l]) = Len(steps[l])
         /\ \A i \in 1..Len(steps[l]) :
              /\ steps'[l][i].agent = steps[l][i].agent
              /\ IF i = n THEN steps'[l][i].status = st ELSE steps'[l][i] = steps[l][i]
<1>1. steps[l] \in Seq(StepRow) /\ Len(steps[l]) \in Nat /\ DOMAIN steps[l] = 1..Len(steps[l])
  BY DEF LaunchTypes
<1>2. root[l] # "ABSENT" /\ (n = 0 \/ n \in 1..Len(steps[l])) /\ "ABSENT" \notin RowStatus
  BY <1>1 DEF RowsOf, RowStatus, Closed
<1>3. CASE n = 0
  <2>1. root' = [root EXCEPT ![l] = st] /\ steps' = steps
    BY <1>3 DEF Write
  <2> QED BY <1>1, <1>2, <1>3, <2>1 DEF LaunchTypes
<1>4. CASE n # 0
  <2>1. n \in 1..Len(steps[l]) /\ steps[l][n] \in StepRow
    BY <1>1, <1>2, <1>4
  <2>2. PICK row : row = [steps[l][n] EXCEPT !.status = st]
    OBVIOUS
  <2>3. row \in StepRow /\ row.agent = steps[l][n].agent /\ row.status = st
    BY <2>1, <2>2 DEF StepRow
  <2>4. root' = root /\ steps' = [steps EXCEPT ![l] = [steps[l] EXCEPT ![n] = row]]
    BY <1>4, <2>2 DEF Write
  <2>5. [steps[l] EXCEPT ![n] = row] \in Seq(StepRow)
    BY <1>1, <2>1, <2>3
  <2>6. /\ steps'[l] = [steps[l] EXCEPT ![n] = row] /\ steps' \in [Launch -> Seq(StepRow)]
        /\ \A k \in Launch \ {l} : steps'[k] = steps[k]
    BY <2>4, <2>5 DEF LaunchTypes
  <2>7. /\ Len(steps'[l]) = Len(steps[l]) 
        /\ \A i \in 1..Len(steps[l]) : steps'[l][i] = IF i = n THEN row ELSE steps[l][i]
    BY <1>1, <2>1, <2>6
  <2> QED BY <1>2, <1>1, <2>1, <2>3, <2>4, <2>6, <2>7 DEF LaunchTypes
<1> QED BY <1>3, <1>4

(* Types. *)
LEMMA WorkflowTypes ==
  ASSUME LaunchTypes, [WorkflowNext]_workflowVars
  PROVE  LaunchTypes'
<1> USE DEF LaunchTypes
<1>1. CASE UNCHANGED workflowVars
  BY <1>1 DEF workflowVars, launchVars, rowVars
<1>2. ASSUME NEW l \in Launch, NEW c \in Context, Posts(l, c) PROVE LaunchTypes'
  BY <1>2, CompiledIsSequence DEF Posts, LaunchCall, rowVars, launchVars
<1>3. ASSUME NEW l \in Launch, CreateRoot(l) PROVE LaunchTypes'
  BY <1>3 DEF CreateRoot, LaunchCall, RowStatus
<1>4. ASSUME NEW l \in Launch, CreateStep(l) PROVE LaunchTypes'
  <2> DEFINE n == Len(steps[l])
             row == [agent |-> launching[l].todo[n + 1], status |-> "PENDING"]
  <2>1. steps[l] \in Seq(StepRow) /\ launching[l].todo \in Seq(Assignee)
    BY DEF LaunchCall
  <2>2. n + 1 \in 1..Len(launching[l].todo)
    BY <1>4, <2>1 DEF CreateStep
  <2>3. row \in StepRow
    BY <2>1, <2>2 DEF StepRow, RowStatus
  <2>4. steps' = [steps EXCEPT ![l] = Append(steps[l], row)]
    BY <1>4 DEF CreateStep
  <2> HIDE DEF row
  <2>5. Append(steps[l], row) \in Seq(StepRow)
    BY <2>1, <2>3
  <2> QED BY <1>4, <2>4, <2>5 DEF CreateStep, launchVars
<1>5. ASSUME NEW l \in Launch, RecordWorkflowRun(l) PROVE LaunchTypes'
  BY <1>5 DEF RecordWorkflowRun, LaunchCall, rowVars, launchVars
<1>6. ASSUME NEW l \in Launch, AuditLaunch(l) PROVE LaunchTypes'
  BY <1>6 DEF AuditLaunch, LaunchCall, rowVars, launchVars
<1>7. ASSUME NEW l \in Launch, CutShort(l) PROVE LaunchTypes'
  BY <1>7 DEF CutShort, LaunchCall, rowVars, launchVars
<1>8. ASSUME NEW l \in Launch, SweepSteps(l) PROVE LaunchTypes'
  <2>1. steps[l] \in Seq(StepRow)
    OBVIOUS
  <2>2. PICK s : /\ steps' = [steps EXCEPT ![l] = s]
                 /\ s = [n \in DOMAIN steps[l] |-> IF steps[l][n].status \in Open
                           THEN [steps[l][n] EXCEPT !.status = "CANCELLED"] ELSE steps[l][n]]
    BY <1>8 DEF SweepSteps
  <2>3. s \in Seq(StepRow)
    <3>1. \A row \in StepRow : [row EXCEPT !.status = "CANCELLED"] \in StepRow
      BY DEF StepRow, RowStatus, Closed
    <3>2. DOMAIN steps[l] = 1..Len(steps[l]) /\ \A n \in 1..Len(steps[l]) : steps[l][n] \in StepRow
      BY <2>1
    <3>3. s \in [1..Len(steps[l]) -> StepRow] /\ Len(steps[l]) \in Nat
      BY <2>1, <2>2, <3>1, <3>2
    <3> QED BY ONLY <3>3
  <2>4. DOMAIN steps[l] \subseteq Nat
    BY <2>1
  <2> QED BY <1>8, <2>2, <2>3, <2>4 DEF SweepSteps, launchVars
<1>9. ASSUME NEW l \in Launch, SweepLost(l) PROVE LaunchTypes'
  BY <1>9 DEF SweepLost, rowVars, launchVars
<1>10. CASE ListStale
  <2>1. \A l \in Launch : RowsOf(l) \subseteq Nat
    <3> TAKE l \in Launch
    <3>1. DOMAIN steps[l] = 1..Len(steps[l]) /\ Len(steps[l]) \in Nat
      OBVIOUS
    <3> QED BY <3>1 DEF RowsOf
  <2>2. listed' \subseteq Launch \X Nat
    BY <1>10, <2>1 DEF ListStale
  <2> QED BY <1>10, <2>2 DEF ListStale, rowVars, launchVars
<1>11. ASSUME NEW l \in Launch, NEW n \in RowsOf(l),
              ClaimRow(l, n) \/ EndRow(l, n) \/ ResetStale(l, n)
                \/ ReviseStep(l, n) \/ ReviseBelow(l, n) \/ ReviseNext(l, n)
       PROVE  LaunchTypes'
  <2>1. \/ UNCHANGED rowVars
        \/ \E m \in RowsOf(l) : \E st \in RowStatus : Write(l, m, st)
    <3>1. 0 \in RowsOf(l)
      BY DEF RowsOf
    <3> QED BY <1>11, <3>1 DEF ClaimRow, EndRow, ResetStale, ReviseStep, ReviseBelow, ReviseNext, Reopen,
                 RowStatus, Closed, rowVars
  <2>2. root' \in [Launch -> RowStatus \cup {"ABSENT"}] /\ steps' \in [Launch -> Seq(StepRow)]
    BY <2>1, RowWritten DEF rowVars
  <2>3. /\ n \in Nat /\ UNCHANGED <<launching, recorded, cutShort>>
        /\ sweeping' \subseteq sweeping \cup {l} /\ listed' \subseteq listed
        /\ revising' \subseteq revising \cup {<<l, n>>, <<l, 0>>}
        /\ swept' = swept \/ swept' = [swept EXCEPT ![l] = @ \ {n}]
    <3>1. n \in Nat
      <4>1. DOMAIN steps[l] = 1..Len(steps[l]) /\ Len(steps[l]) \in Nat
        OBVIOUS
      <4> QED BY <4>1 DEF RowsOf
    <3> QED BY <1>11, <3>1 DEF ClaimRow, EndRow, ResetStale, ReviseStep, ReviseBelow, ReviseNext, Revises,
                 Reopen, launchVars
  <2>4. swept' \in [Launch -> SUBSET Nat]
    BY <2>3
  <2>5. <<l, n>> \in Launch \X Nat /\ <<l, 0>> \in Launch \X Nat
    BY <2>3
  <2> QED BY <2>2, <2>3, <2>4, <2>5
<1> QED BY <1>1, <1>2, <1>3, <1>4, <1>5, <1>6, <1>7, <1>8, <1>9, <1>10, <1>11 DEF WorkflowNext

(* A step of one launch leaves the others as they are. *)
LEMMA OneLaunch ==
  ASSUME LaunchInv, NEW l \in Launch, LaunchOK(l)',
         \A k \in Launch \ {l} :
           /\ launching'[k] = launching[k] /\ root'[k] = root[k] /\ steps'[k] = steps[k]
           /\ swept'[k] = swept[k]
           /\ (k \in recorded' <=> k \in recorded) /\ (k \in cutShort => k \in cutShort')
  PROVE  LaunchInv'
<1>1. ASSUME NEW k \in Launch, k # l PROVE LaunchOK(k)'
  <2>1. LaunchOK(k)
    BY DEF LaunchInv
  <2>2. /\ launching'[k] = launching[k] /\ root'[k] = root[k] /\ steps'[k] = steps[k]
        /\ swept'[k] = swept[k]
        /\ (k \in recorded' <=> k \in recorded) /\ (k \in cutShort => k \in cutShort')
    BY <1>1
  <2> QED BY ONLY <2>1, <2>2 DEF LaunchOK
<1> QED BY <1>1 DEF LaunchInv

(* What is launched is whole, step by step. *)
LEMMA LaunchKept ==
  ASSUME LaunchTypes, LaunchInv, [WorkflowNext]_workflowVars
  PROVE  LaunchInv'
<1>t. ASSUME NEW l \in Launch
      PROVE  /\ steps[l] \in Seq(StepRow) /\ launching[l] \in LaunchCall
             /\ launching[l].todo \in Seq(Assignee) /\ swept[l] \subseteq Nat
             /\ Len(steps[l]) \in Nat /\ Len(launching[l].todo) \in Nat
             /\ LaunchOK(l)
  <2>1. steps[l] \in Seq(StepRow) /\ launching[l] \in LaunchCall /\ swept[l] \subseteq Nat
    BY DEF LaunchTypes
  <2>2. launching[l].todo \in Seq(Assignee)
    BY <2>1 DEF LaunchCall
  <2> QED BY <2>1, <2>2 DEF LaunchInv
<1>1. CASE UNCHANGED workflowVars
  BY <1>1 DEF workflowVars, launchVars, rowVars, LaunchInv, LaunchOK
<1>2. ASSUME NEW l \in Launch, NEW c \in Context, Posts(l, c) PROVE LaunchInv'
  <2>1. /\ launching' = [launching EXCEPT ![l] = [at |-> "root", todo |-> Compiled(c)]]
        /\ launching[l].at = "none" /\ UNCHANGED <<root, steps, recorded, cutShort, swept>>
    BY <1>2 DEF Posts, Unlaunched, rowVars
  <2>2. root[l] = "ABSENT" /\ steps[l] = <<>> /\ swept[l] = {} /\ l \notin recorded
    BY <1>t, <2>1 DEF LaunchOK
  <2>3. launching'[l] = [at |-> "root", todo |-> Compiled(c)] /\ \A k \in Launch \ {l} : launching'[k] = launching[k]
    BY <2>1 DEF LaunchTypes
  <2>4. Len(<<>>) = 0 /\ Len(Compiled(c)) \in Nat
    BY CompiledIsSequence
  <2>5. LaunchOK(l)'
    BY <2>1, <2>2, <2>3, <2>4 DEF LaunchOK
  <2> QED BY <2>1, <2>3, <2>5, OneLaunch
<1>3. ASSUME NEW l \in Launch, CreateRoot(l) PROVE LaunchInv'
  <2>1. /\ launching'[l].at = "steps" /\ launching'[l].todo = launching[l].todo
        /\ \A k \in Launch \ {l} : launching'[k] = launching[k] /\ root'[k] = root[k]
        /\ root'[l] = "PENDING" /\ launching[l].at = "root"
        /\ UNCHANGED <<steps, recorded, cutShort, swept>>
    BY <1>3, <1>t DEF CreateRoot, LaunchTypes, LaunchCall
  <2>2. LaunchOK(l)'
    BY <1>t, <2>1 DEF LaunchOK
  <2> QED BY <2>1, <2>2, OneLaunch
<1>4. ASSUME NEW l \in Launch, CreateStep(l) PROVE LaunchInv'
  <2> DEFINE row == [agent |-> launching[l].todo[Len(steps[l]) + 1], status |-> "PENDING"]
  <2>1. /\ steps' = [steps EXCEPT ![l] = Append(steps[l], row)]
        /\ UNCHANGED <<launching, root, recorded, cutShort, swept>>
        /\ launching[l].at = "steps" /\ Len(steps[l]) < Len(launching[l].todo)
    BY <1>4 DEF CreateStep, launchVars
  <2>2. row.agent = launching[l].todo[Len(steps[l]) + 1]
    OBVIOUS
  <2> HIDE DEF row
  <2>3. steps'[l] = Append(steps[l], row) /\ \A k \in Launch \ {l} : steps'[k] = steps[k]
    BY <2>1 DEF LaunchTypes
  <2>4. PICK n \in Nat : n = Len(steps[l])
    BY <1>t
  <2>5. Len(steps'[l]) = n + 1 /\ \A i \in 1..(n + 1) : steps'[l][i] = IF i = n + 1 THEN row ELSE steps[l][i]
    BY <1>t, <2>3, <2>4
  <2>7. root[l] # "ABSENT" /\ l \notin recorded
    BY <1>t, <2>1 DEF LaunchOK
  <2>8. ASSUME NEW i \in 1..(n + 1)
        PROVE  /\ steps'[l][i].agent = launching[l].todo[i]
               /\ i \in swept[l] => i # n + 1 /\ steps'[l][i].status \notin Open
    <3>1. CASE i = n + 1
      BY <1>t, <2>2, <2>4, <2>5, <3>1 DEF LaunchOK
    <3>2. CASE i # n + 1
      <4>1. i \in 1..n /\ steps'[l][i] = steps[l][i]
        BY <2>5, <3>2
      <4> QED BY <1>t, <2>4, <4>1 DEF LaunchOK
    <3> QED BY <3>1, <3>2
  <2>9. n + 1 <= Len(launching[l].todo) /\ swept[l] \subseteq 1..n /\ 1..n \subseteq 1..(n + 1)
    BY <1>t, <2>1, <2>4 DEF LaunchOK
  <2>10. LaunchOK(l)'
    BY <2>1, <2>5, <2>7, <2>8, <2>9 DEF LaunchOK
  <2> QED BY <2>1, <2>3, <2>10, OneLaunch
<1>5. ASSUME NEW l \in Launch, RecordWorkflowRun(l) PROVE LaunchInv'
  <2>1. /\ launching'[l].at = "audit" /\ launching'[l].todo = launching[l].todo
        /\ \A k \in Launch \ {l} : launching'[k] = launching[k]
        /\ recorded' = recorded \cup {l} /\ launching[l].at = "steps"
        /\ Len(steps[l]) = Len(launching[l].todo)
        /\ UNCHANGED <<root, steps, cutShort, swept>>
    BY <1>5, <1>t DEF RecordWorkflowRun, StepsDone, LaunchTypes, LaunchCall, rowVars
  <2>2. LaunchOK(l)'
    BY <1>t, <2>1 DEF LaunchOK
  <2> QED BY <2>1, <2>2, OneLaunch
<1>6. ASSUME NEW l \in Launch, AuditLaunch(l) PROVE LaunchInv'
  <2>1. /\ launching'[l].at \in {"launched", "error"} /\ launching'[l].todo = launching[l].todo
        /\ \A k \in Launch \ {l} : launching'[k] = launching[k]
        /\ launching[l].at = "audit"
        /\ UNCHANGED <<root, steps, recorded, cutShort, swept>>
    BY <1>6, <1>t DEF AuditLaunch, LaunchTypes, LaunchCall, rowVars
  <2>2. LaunchOK(l)'
    BY <1>t, <2>1 DEF LaunchOK
  <2> QED BY <2>1, <2>2, OneLaunch
<1>7. ASSUME NEW l \in Launch, CutShort(l) PROVE LaunchInv'
  <2>1. /\ launching'[l].at = "error" /\ launching'[l].todo = launching[l].todo
        /\ \A k \in Launch \ {l} : launching'[k] = launching[k]
        /\ launching[l].at \in {"root", "steps"} /\ cutShort' = cutShort \cup {l}
        /\ UNCHANGED <<root, steps, recorded, swept>>
    BY <1>7, <1>t DEF CutShort, LaunchTypes, LaunchCall, rowVars
  <2>2. LaunchOK(l)'
    BY <1>t, <2>1 DEF LaunchOK
  <2> QED BY <2>1, <2>2, OneLaunch
<1>8. ASSUME NEW l \in Launch, SweepSteps(l) PROVE LaunchInv'
  <2>1. /\ swept'[l] = DOMAIN steps[l]
        /\ \A k \in Launch \ {l} : swept'[k] = swept[k] /\ steps'[k] = steps[k]
        /\ UNCHANGED <<launching, root, recorded, cutShort>>
    BY <1>8 DEF SweepSteps, LaunchTypes, launchVars
  <2>2. steps'[l] = [n \in DOMAIN steps[l] |-> IF steps[l][n].status \in Open
                           THEN [steps[l][n] EXCEPT !.status = "CANCELLED"] ELSE steps[l][n]]
    BY <1>8 DEF SweepSteps, LaunchTypes
  <2>3. DOMAIN steps[l] = 1..Len(steps[l]) /\ \A n \in 1..Len(steps[l]) : steps[l][n] \in StepRow
    BY <1>t
  <2>4. Len(steps'[l]) = Len(steps[l])
    BY <1>t, <2>2, <2>3
  <2>5. ASSUME NEW n \in 1..Len(steps[l])
        PROVE  steps'[l][n].agent = steps[l][n].agent /\ steps'[l][n].status \notin Open
    BY <2>2, <2>3 DEF StepRow, Open
  <2>6. root[l] = "ABSENT" => steps'[l] = <<>> /\ swept'[l] = {}
    <3> SUFFICES ASSUME root[l] = "ABSENT" PROVE steps'[l] = <<>> /\ swept'[l] = {}
      OBVIOUS
    <3>1. DOMAIN steps[l] = {}
      BY <1>t, <2>3 DEF LaunchOK
    <3> QED BY <2>1, <2>2, <3>1
  <2>7. LaunchOK(l)'
    BY <1>t, <2>1, <2>3, <2>4, <2>5, <2>6 DEF LaunchOK
  <2> QED BY <2>1, <2>7, OneLaunch
<1>9. ASSUME NEW l \in Launch, SweepLost(l) PROVE LaunchInv'
  BY <1>9 DEF SweepLost, rowVars, launchVars, LaunchInv, LaunchOK
<1>10. CASE ListStale
  BY <1>10 DEF ListStale, rowVars, launchVars, LaunchInv, LaunchOK
<1>11. ASSUME NEW l \in Launch, NEW n \in RowsOf(l),
              ClaimRow(l, n) \/ EndRow(l, n) \/ ResetStale(l, n)
                \/ ReviseStep(l, n) \/ ReviseBelow(l, n) \/ ReviseNext(l, n)
       PROVE  LaunchInv'
  <2>1. CASE UNCHANGED <<rowVars, swept>>
    BY <1>11, <2>1 DEF ClaimRow, EndRow, ResetStale, ReviseStep, ReviseBelow, ReviseNext,
         rowVars, launchVars, LaunchInv, LaunchOK
  <2>2. ASSUME NEW m \in RowsOf(l), NEW st \in RowStatus, Write(l, m, st),
               UNCHANGED <<launching, recorded, cutShort>>,
               \A k \in Launch \ {l} : swept'[k] = swept[k],
               swept'[l] \subseteq swept[l], m \in swept'[l] => st \notin Open
        PROVE  LaunchInv'
    <3>1. /\ root[l] # "ABSENT" /\ root'[l] # "ABSENT"
          /\ \A k \in Launch \ {l} : root'[k] = root[k] /\ steps'[k] = steps[k]
          /\ Len(steps'[l]) = Len(steps[l])
          /\ \A i \in 1..Len(steps[l]) :
               /\ steps'[l][i].agent = steps[l][i].agent
               /\ IF i = m THEN steps'[l][i].status = st ELSE steps'[l][i] = steps[l][i]
      BY <2>2, RowWritten
    <3>2. \A i \in swept'[l] : i \in 1..Len(steps[l]) /\ steps'[l][i].status \notin Open
      <4> TAKE i \in swept'[l]
      <4>1. i \in 1..Len(steps[l]) /\ steps[l][i].status \notin Open
        BY <1>t, <2>2 DEF LaunchOK
      <4> QED BY <2>2, <3>1, <4>1
    <3>3. LaunchOK(l)'
      BY <1>t, <2>2, <3>1, <3>2 DEF LaunchOK
    <3> QED BY <2>2, <3>1, <3>3, OneLaunch
  <2>3. 0 \in RowsOf(l) /\ 0 \notin swept[l]
    <3>1. 0 \in RowsOf(l)
      BY DEF RowsOf
    <3>2. \A i \in swept[l] : i \in 1..Len(steps[l])
      BY <1>t DEF LaunchOK
    <3>3. 0 \notin 1..Len(steps[l])
      OBVIOUS
    <3> QED BY <3>1, <3>2, <3>3
  <2>4. StatusOf(l, n) = "PENDING" => n \notin swept[l]
    <3> SUFFICES ASSUME n \in swept[l], StatusOf(l, n) = "PENDING" PROVE FALSE
      OBVIOUS
    <3>1. steps[l][n].status \notin Open
      BY <1>t DEF LaunchOK
    <3> QED BY <2>3, <3>1 DEF StatusOf, Open
  <2>5. CASE ClaimRow(l, n)
    <3>1. Write(l, n, "IN_PROGRESS") /\ n \notin swept[l] /\ UNCHANGED <<launching, recorded, cutShort, swept>>
      BY <2>4, <2>5 DEF ClaimRow, launchVars
    <3> QED BY <2>2, <3>1 DEF RowStatus
  <2>6. CASE EndRow(l, n)
    <3>1. PICK st \in Closed : Write(l, n, st)
      BY <2>6 DEF EndRow
    <3>2. UNCHANGED <<launching, recorded, cutShort, swept>>
      BY <2>6 DEF EndRow, launchVars
    <3>3. st \in RowStatus /\ st \notin Open
      BY DEF RowStatus, Open, Closed
    <3> QED BY <2>2, <3>1, <3>2, <3>3
  <2>7. ASSUME NEW st \in RowStatus, Reopen(l, n, st), UNCHANGED <<launching, recorded, cutShort>>
        PROVE  LaunchInv'
    <3>1. /\ Write(l, n, st) /\ swept'[l] = swept[l] \ {n}
          /\ \A k \in Launch \ {l} : swept'[k] = swept[k]
      BY <2>7 DEF Reopen, LaunchTypes
    <3> QED BY <2>2, <2>7, <3>1
  <2>8. CASE ReviseStep(l, n)
    <3>1. Write(l, 0, "IN_PROGRESS") /\ UNCHANGED <<launching, recorded, cutShort, swept>>
      BY <2>8 DEF ReviseStep, launchVars
    <3> QED BY <2>2, <2>3, <3>1 DEF RowStatus
  <2>9. CASE ResetStale(l, n) \/ ReviseBelow(l, n) \/ ReviseNext(l, n)
    <3>1. \/ UNCHANGED <<rowVars, swept>>
          \/ \E st \in RowStatus : Reopen(l, n, st)
      BY <2>9 DEF ResetStale, ReviseBelow, ReviseNext, RowStatus
    <3>2. UNCHANGED <<launching, recorded, cutShort>>
      BY <2>9 DEF ResetStale, ReviseBelow, ReviseNext, launchVars
    <3> QED BY <2>1, <2>7, <3>1, <3>2
  <2> QED BY <1>11, <2>5, <2>6, <2>8, <2>9
<1> QED BY <1>1, <1>2, <1>3, <1>4, <1>5, <1>6, <1>7, <1>8, <1>9, <1>10, <1>11 DEF WorkflowNext

(* Types and LaunchInv hold in every state. *)
THEOREM LaunchInductive == WorkflowSpec => [](LaunchTypes /\ LaunchInv)
<1>1. LaunchTypes /\ LaunchInv /\ [WorkflowNext]_workflowVars => (LaunchTypes /\ LaunchInv)'
  BY WorkflowTypes, LaunchKept
<1> QED BY <1>1, WorkflowInitial, PTL DEF WorkflowSpec

(* Types of the calls and of the rows of a workflow. *)
THEOREM WorkflowTypesHold == WorkflowSpec => []WorkflowTypeOK
<1>1. LaunchTypes /\ LaunchInv => WorkflowTypeOK
  <2> SUFFICES ASSUME LaunchTypes, LaunchInv, NEW l \in Launch
               PROVE  /\ launching[l].at \in {"none", "root", "steps", "audit", "launched", "error"}
                      /\ \A n \in DOMAIN steps[l] : steps[l][n].status \in RowStatus
                      /\ swept[l] \subseteq DOMAIN steps[l]
    BY DEF LaunchTypes, WorkflowTypeOK
  <2>1. launching[l] \in LaunchCall /\ steps[l] \in Seq(StepRow) /\ LaunchOK(l)
    BY DEF LaunchTypes, LaunchInv
  <2>2. \A n \in DOMAIN steps[l] : steps[l][n] \in StepRow
    BY <2>1
  <2>3. DOMAIN steps[l] = 1..Len(steps[l])
    BY <2>1
  <2> QED BY <2>1, <2>2, <2>3 DEF LaunchCall, StepRow, LaunchOK
<1> QED BY <1>1, LaunchInductive, PTL

(* A workflow whose root exists has its steps in their order and its run, unless its
   launch is under way or was cut short, and a step that the sweep of a closed root
   passed over is closed until the reconciler or a revision resets it. *)
THEOREM WorkflowsAreWhole == WorkflowSpec => []WorkflowIsWhole
<1>1. LaunchTypes /\ LaunchInv => WorkflowIsWhole
  <2> SUFFICES ASSUME LaunchTypes, LaunchInv, NEW l \in Launch, root[l] # "ABSENT"
               PROVE
                 /\ \/ launching[l].at = "steps" \/ l \in cutShort
                    \/ /\ l \in recorded
                       /\ [n \in DOMAIN steps[l] |-> steps[l][n].agent] = launching[l].todo
                 /\ l \in recorded => Len(steps[l]) = Len(launching[l].todo)
                 /\ \A n \in swept[l] : steps[l][n].status \notin {"PENDING", "IN_PROGRESS"}
    BY DEF WorkflowIsWhole
  <2>1. LaunchOK(l) /\ launching[l] \in LaunchCall /\ steps[l] \in Seq(StepRow)
    BY DEF LaunchInv, LaunchTypes
  <2>2. launching[l].todo \in Seq(Assignee)
    BY <2>1 DEF LaunchCall
  <2>3. DOMAIN steps[l] = 1..Len(steps[l]) /\ DOMAIN launching[l].todo = 1..Len(launching[l].todo)
    BY <2>1, <2>2
  <2>4. launching[l].at = "steps" \/ l \in cutShort \/ l \in recorded
    BY <2>1 DEF LaunchOK, LaunchCall
  <2>5. ASSUME l \in recorded
        PROVE  [n \in DOMAIN steps[l] |-> steps[l][n].agent] = launching[l].todo
    <3>1. Len(steps[l]) = Len(launching[l].todo)
      BY <2>1, <2>5 DEF LaunchOK
    <3>2. \A n \in 1..Len(steps[l]) : steps[l][n].agent = launching[l].todo[n]
      BY <2>1 DEF LaunchOK
    <3>3. launching[l].todo = [n \in 1..Len(steps[l]) |-> launching[l].todo[n]]
      BY <2>2, <2>3, <3>1
    <3> QED BY <2>3, <3>2, <3>3
  <2>6. l \in recorded => Len(steps[l]) = Len(launching[l].todo)
    BY <2>1 DEF LaunchOK
  <2>7. \A n \in swept[l] : steps[l][n].status \notin {"PENDING", "IN_PROGRESS"}
    BY <2>1, <2>3 DEF LaunchOK, Open
  <2> QED BY <2>4, <2>5, <2>6, <2>7
<1> QED BY <1>1, LaunchInductive, PTL

-----------------------------------------------------------------------------
(* The start of the kernel. *)


(* A call that holds the lock of state.kernel is the only one that initialises,
   and nothing runs before it is done. *)
LockInv ==
  /\ kernels \in {0, 1}
  /\ kernelLock # {} => kernels = 0
  /\ \A w \in Window : Standing(w, "init") => kernelLock = {w}

(* Without an overlap one call writes the configuration, what it read or was
   given is what was last chosen, and the file says so unless it is half written. *)
ChoiceInv ==
  ~crossed =>
    /\ told => models = chosen
    /\ \A v, w \in Window : call[v].at \in Writing /\ call[w].at \in Writing => v = w
    /\ \A w \in Window : Standing(w, "models") => call[w].provider = chosen
    /\ ~brokenOff => /\ (\A w \in Window : ~HalfWritten(w)) => config.provider = chosen
                /\ \A w \in Window : call[w].at \in {"clear", "clearing"} => call[w].config.provider = chosen

(* The one generated key so far is in the keyring, in the file, or in both. *)
VaultInv ==
  /\ boots \in Nat
  /\ ~vaultLost =>
       \E k \in Nat \ {0} :
         /\ vaultKeys \subseteq {k, LegacyKey} /\ vaultRing \in {0, k} /\ vaultFile \in {0, k}
         /\ vaultKeys \subseteq {LegacyKey} \/ vaultRing = k \/ vaultFile = k

(* What a call has read has the shape its stage asks for. *)
Saves == [at : {"config", "saving", "models"}, provider : Provider]
Clearing == [at : {"clear", "clearing"}, config : Config]
AnyCall == [at : {"none", "boot", "init"}] \cup Saves \cup Clearing
CallsOK == call \in [Window -> AnyCall]

ConfigOK == config \in Config /\ keys \subseteq Provider \cup {Legacy, Token}

-----------------------------------------------------------------------------
(* What the stages of a call have at hand. *)
LEMMA CallShapes ==
  ASSUME CallsOK, NEW w \in Window
  PROVE  /\ call[w].at \in {"clear", "clearing"} => call[w] \in Clearing /\ call[w].config \in Config
         /\ call[w].at \in {"config", "saving", "models"} => call[w] \in Saves /\ call[w].provider \in Provider
BY DEF CallsOK, AnyCall, Saves, Clearing

(* Everything holds when the desktop starts for the first time. *)
LEMMA BootInitial == BootInit => CallsOK /\ ConfigOK /\ LockInv /\ ChoiceInv /\ VaultInv
<1> SUFFICES ASSUME BootInit PROVE CallsOK /\ ConfigOK /\ LockInv /\ ChoiceInv /\ VaultInv
  OBVIOUS
<1> USE DEF BootInit, NoCall, Standing, Writing, HalfWritten
<1>1. CallsOK /\ ConfigOK
  BY BootAssumption DEF CallsOK, AnyCall, ConfigOK, Config
<1>2. LockInv
  BY DEF LockInv
<1>3. ChoiceInv
  BY DEF ChoiceInv
<1>4. VaultInv
  BY DEF VaultInv
<1> QED BY <1>1, <1>2, <1>3, <1>4

(* Calls and configuration keep their shapes. *)
LEMMA CallsStep == CallsOK /\ ConfigOK /\ [BootNext]_bootVars => CallsOK' /\ ConfigOK'
<1> SUFFICES ASSUME CallsOK, ConfigOK, [BootNext]_bootVars PROVE CallsOK' /\ ConfigOK'
  OBVIOUS
<1> USE BootAssumption DEF CallsOK, ConfigOK, Config, NoCall
<1>n. NoCall \in AnyCall /\ [at |-> "boot"] \in AnyCall
  BY DEF AnyCall
<1>b. Blank \in Config
  BY DEF Blank
<1>1. ASSUME NEW w \in Window, NEW p \in Provider, SetSecret(w, p) PROVE CallsOK' /\ ConfigOK'
  BY <1>1 DEF SetSecret
<1>2. ASSUME NEW w \in Window, NEW p \in Provider, NEW k \in BOOLEAN, SaveSettings(w, p, k)
      PROVE CallsOK' /\ ConfigOK'
  <2>1. [at |-> "config", provider |-> p] \in AnyCall
    BY DEF AnyCall, Saves
  <2> QED BY <1>2, <2>1 DEF SaveSettings
<1>3. ASSUME NEW w \in Window, OpenSaved(w) PROVE CallsOK' /\ ConfigOK'
  <2>1. [call[w] EXCEPT !.at = "saving"] \in AnyCall
    BY <1>3, CallShapes DEF OpenSaved, Standing, AnyCall, Saves
  <2> QED BY <1>3, <1>b, <2>1 DEF OpenSaved, OpenConfig, WindowMoves
<1>4. ASSUME NEW w \in Window, WriteConfig(w) PROVE CallsOK' /\ ConfigOK'
  <2>1. call[w].provider \in Provider /\ [call[w] EXCEPT !.at = "models"] \in AnyCall
    BY <1>4, CallShapes DEF WriteConfig, Standing, AnyCall, Saves
  <2> QED BY <1>4, <2>1 DEF WriteConfig, WindowMoves
<1>5. ASSUME NEW w \in Window, SaveFails(w) PROVE CallsOK' /\ ConfigOK'
  BY <1>5, <1>n DEF SaveFails, WindowEnds
<1>6. ASSUME NEW w \in Window, SetModels(w) PROVE CallsOK' /\ ConfigOK'
  BY <1>6, <1>n DEF SetModels, WindowEnds
<1>7. ASSUME NEW w \in Window, ReadSecrets(w) PROVE CallsOK' /\ ConfigOK'
  <2>1. [at |-> "clear", config |-> config] \in AnyCall
    BY DEF AnyCall, Clearing
  <2> QED BY <1>7, <2>1 DEF ReadSecrets
<1>8. ASSUME NEW w \in Window, KeepConfig(w) PROVE CallsOK' /\ ConfigOK'
  BY <1>8, <1>n DEF KeepConfig, secretVars
<1>9. ASSUME NEW w \in Window, OpenCleared(w) PROVE CallsOK' /\ ConfigOK'
  <2>1. [call[w] EXCEPT !.at = "clearing"] \in AnyCall
    BY <1>9, CallShapes DEF OpenCleared, Standing, AnyCall, Clearing
  <2> QED BY <1>9, <1>b, <2>1 DEF OpenCleared, OpenConfig, WindowMoves
<1>10. ASSUME NEW w \in Window, ClearConfig(w) PROVE CallsOK' /\ ConfigOK'
  <2>1. call[w].config \in Config
    BY <1>10, CallShapes DEF ClearConfig, Standing
  <2>2. Cleaned(call[w].config) \in Config
    BY <2>1 DEF Cleaned
  <2> QED BY <1>10, <1>n, <2>2 DEF ClearConfig
<1>11. ASSUME NEW w \in Window, BootWith(w) PROVE CallsOK' /\ ConfigOK'
  BY <1>11, <1>n DEF BootWith, secretVars
<1>12. ASSUME NEW w \in Window, BootKernel(w) \/ InitKernel(w) PROVE CallsOK' /\ ConfigOK'
  <2>1. Standing(w, "boot") => [call[w] EXCEPT !.at = "init"] \in AnyCall
    BY DEF Standing, AnyCall, Saves, Clearing
  <2> QED BY <1>12, <1>n, <2>1 DEF BootKernel, InitKernel, WindowEnds, WindowMoves, secretVars
<1>13. CASE QuitDesktop
  BY <1>13, <1>n DEF QuitDesktop
<1>14. CASE UNCHANGED bootVars
  BY <1>14 DEF bootVars, secretVars
<1> QED BY <1>1, <1>2, <1>3, <1>4, <1>5, <1>6, <1>7, <1>8, <1>9, <1>10, <1>11, <1>12, <1>13, <1>14 DEF BootNext

(* Every action but those of the lock leaves it and the calls that initialise. *)
LEMMA LockStep == CallsOK /\ LockInv /\ [BootNext]_bootVars => LockInv'
<1> SUFFICES ASSUME CallsOK, LockInv, [BootNext]_bootVars PROVE LockInv'
  OBVIOUS
<1>0. call \in [Window -> AnyCall]
  BY DEF CallsOK
<1> USE DEF LockInv, Standing, NoCall
<1>1. ASSUME NEW w \in Window, NEW p \in Provider, SetSecret(w, p) PROVE LockInv'
  BY <1>1 DEF SetSecret
<1>2. ASSUME NEW w \in Window, NEW p \in Provider, NEW k \in BOOLEAN, SaveSettings(w, p, k)
      PROVE LockInv'
  BY <1>0, <1>2 DEF SaveSettings
<1>3. ASSUME NEW w \in Window, OpenSaved(w) \/ OpenCleared(w) PROVE LockInv'
  BY <1>0, <1>3, CallShapes DEF OpenSaved, OpenCleared, OpenConfig, WindowMoves, Saves, Clearing
<1>4. ASSUME NEW w \in Window, WriteConfig(w) PROVE LockInv'
  BY <1>0, <1>4, CallShapes DEF WriteConfig, WindowMoves, Saves
<1>5. ASSUME NEW w \in Window, SaveFails(w) \/ SetModels(w) PROVE LockInv'
  BY <1>0, <1>5 DEF SaveFails, SetModels, WindowEnds
<1>6. ASSUME NEW w \in Window, ReadSecrets(w) PROVE LockInv'
  BY <1>0, <1>6 DEF ReadSecrets
<1>7. ASSUME NEW w \in Window, KeepConfig(w) \/ ClearConfig(w) PROVE LockInv'
  BY <1>0, <1>7 DEF KeepConfig, ClearConfig
<1>8. ASSUME NEW w \in Window, BootWith(w) PROVE LockInv'
  BY <1>0, <1>8 DEF BootWith
<1>9. ASSUME NEW w \in Window, BootKernel(w) PROVE LockInv'
  <2>1. kernels' = kernels /\ call[w].at = "boot" /\ kernelLock = {}
    BY <1>9 DEF BootKernel
  <2>2. CASE kernels > 0
    BY <1>0, <1>9, <2>1, <2>2 DEF BootKernel, WindowEnds
  <2>3. CASE ~(kernels > 0)
    <3>1. call' = [call EXCEPT ![w] = [call[w] EXCEPT !.at = "init"]] /\ kernelLock' = {w} /\ kernels = 0
      BY <1>9, <2>3 DEF BootKernel, WindowMoves
    <3>2. \A v \in Window : v # w => call'[v] = call[v]
      BY <1>0, <3>1
    <3> QED BY <2>1, <3>1, <3>2
  <2> QED BY <2>2, <2>3
<1>10. ASSUME NEW w \in Window, InitKernel(w) PROVE LockInv'
  <2>1. kernelLock = {w} /\ kernels = 0 /\ kernels' \in {0, 1} /\ kernelLock' = {}
    <3>1. kernelLock = {w} /\ kernels = 0 /\ kernelLock' = {}
      BY <1>10 DEF InitKernel
    <3>2. kernels' = kernels \/ \E up, readable \in BOOLEAN : NewKernel(VaultKey(up, readable))
      BY <1>10 DEF InitKernel
    <3>3. kernels' = kernels \/ kernels' = kernels + 1
      BY <3>2 DEF NewKernel
    <3> QED BY <3>1, <3>3
  <2>2. \A v \in Window : call'[v].at # "init"
    <3> SUFFICES ASSUME NEW v \in Window PROVE call'[v].at # "init"
      OBVIOUS
    <3>1. CASE v = w
      BY <1>0, <1>10, <3>1 DEF InitKernel, WindowEnds
    <3>2. CASE v # w
      BY <1>0, <1>10, <2>1, <3>2 DEF InitKernel, WindowEnds
    <3> QED BY <3>1, <3>2
  <2> QED BY <2>1, <2>2
<1>11. CASE QuitDesktop
  BY <1>11 DEF QuitDesktop
<1>12. CASE UNCHANGED bootVars
  BY <1>12 DEF bootVars, secretVars
<1> QED BY <1>1, <1>2, <1>3, <1>4, <1>5, <1>6, <1>7, <1>8, <1>9, <1>10, <1>11, <1>12 DEF BootNext

(* The configuration and the agents follow the last choice. *)
LEMMA ChoiceStep == CallsOK /\ ConfigOK /\ ChoiceInv /\ [BootNext]_bootVars => ChoiceInv'
<1> SUFFICES ASSUME CallsOK, ConfigOK, ChoiceInv, [BootNext]_bootVars PROVE ChoiceInv'
  OBVIOUS
<1>0. call \in [Window -> AnyCall]
  BY DEF CallsOK
<1> USE DEF ChoiceInv, Standing, NoCall, Writing, HalfWritten
<1>1. ASSUME NEW w \in Window, NEW p \in Provider, SetSecret(w, p) PROVE ChoiceInv'
  BY <1>1 DEF SetSecret
<1>2. ASSUME NEW w \in Window, NEW p \in Provider, NEW k \in BOOLEAN, SaveSettings(w, p, k)
      PROVE ChoiceInv'
  BY <1>0, <1>2 DEF SaveSettings
<1>3. ASSUME NEW w \in Window, OpenSaved(w) PROVE ChoiceInv'
  <2>1. call' = [call EXCEPT ![w] = call'[w]] /\ call'[w].at = "saving"
    BY <1>0, <1>3, CallShapes DEF OpenSaved, OpenConfig, WindowMoves, Saves
  <2> QED BY <1>0, <1>3, <2>1 DEF OpenSaved, OpenConfig
<1>4. ASSUME NEW w \in Window, WriteConfig(w) PROVE ChoiceInv'
  <2>1. call' = [call EXCEPT ![w] = call'[w]] /\ call'[w].at = "models" /\ call'[w].provider = call[w].provider
    BY <1>0, <1>4, CallShapes DEF WriteConfig, WindowMoves, Saves
  <2> QED BY <1>0, <1>4, <2>1 DEF WriteConfig
<1>5. ASSUME NEW w \in Window, SaveFails(w) PROVE ChoiceInv'
  BY <1>0, <1>5 DEF SaveFails, WindowEnds
<1>6. ASSUME NEW w \in Window, SetModels(w) PROVE ChoiceInv'
  BY <1>0, <1>6 DEF SetModels, WindowEnds
<1>7. ASSUME NEW w \in Window, ReadSecrets(w) PROVE ChoiceInv'
  BY <1>0, <1>7 DEF ReadSecrets
<1>8. ASSUME NEW w \in Window, KeepConfig(w) PROVE ChoiceInv'
  BY <1>0, <1>8 DEF KeepConfig, secretVars
<1>9. ASSUME NEW w \in Window, OpenCleared(w) PROVE ChoiceInv'
  <2>1. call' = [call EXCEPT ![w] = call'[w]] /\ call'[w].at = "clearing" /\ call'[w].config = call[w].config
    BY <1>0, <1>9, CallShapes DEF OpenCleared, OpenConfig, WindowMoves, Clearing
  <2> QED BY <1>0, <1>9, <2>1 DEF OpenCleared, OpenConfig
<1>10. ASSUME NEW w \in Window, ClearConfig(w) PROVE ChoiceInv'
  <2>1. call[w].config \in Config
    BY <1>10, CallShapes DEF ClearConfig
  <2>2. ~crossed /\ ~brokenOff => config'.provider = chosen
    BY <1>10, <2>1 DEF ClearConfig, Cleaned, Config
  <2> QED BY <1>0, <1>10, <2>2 DEF ClearConfig
<1>11. ASSUME NEW w \in Window, BootWith(w) PROVE ChoiceInv'
  BY <1>0, <1>11 DEF BootWith, secretVars
<1>12. ASSUME NEW w \in Window, BootKernel(w) PROVE ChoiceInv'
  <2>1. call' = [call EXCEPT ![w] = call'[w]] /\ call'[w].at \in {"none", "init"}
    BY <1>0, <1>12 DEF BootKernel, WindowEnds, WindowMoves, AnyCall, Saves, Clearing
  <2> QED BY <1>0, <1>12, <2>1 DEF BootKernel, secretVars
<1>13. ASSUME NEW w \in Window, InitKernel(w) PROVE ChoiceInv'
  BY <1>0, <1>13 DEF InitKernel, WindowEnds, secretVars
<1>14. CASE QuitDesktop
  BY <1>14 DEF QuitDesktop
<1>15. CASE UNCHANGED bootVars
  BY <1>15 DEF bootVars, secretVars
<1> QED BY <1>1, <1>2, <1>3, <1>4, <1>5, <1>6, <1>7, <1>8, <1>9, <1>10, <1>11, <1>12, <1>13, <1>14, <1>15
        DEF BootNext

(* Opening the vault finds the one key, or makes the first; whatever becomes of
   the kernel, it or the old versions' key is all the vault was opened with. *)
LEMMA OpenKeepsKey ==
  ASSUME VaultInv, NEW up \in BOOLEAN, NEW readable \in BOOLEAN, NEW then \in BOOLEAN,
         OpenVault(up, readable, then), NewKernel(VaultKey(up, readable)), boots' = boots + 1
  PROVE  VaultInv'
<1> DEFINE key == VaultKey(up, readable)
<1>1. vaultKeys' \subseteq vaultKeys \cup {key, LegacyKey} /\ boots \in Nat /\ boots' \in Nat
  <2>1. vaultKeys' = vaultKeys \cup {key} \/ vaultKeys' = vaultKeys \cup {LegacyKey} \/ vaultKeys' = vaultKeys
    BY DEF NewKernel
  <2>2. boots \in Nat
    BY DEF VaultInv
  <2> HIDE DEF key
  <2> QED BY <2>1, <2>2
<1>2. CASE vaultLost \/ vaultLost'
  BY <1>1, <1>2 DEF OpenVault, VaultInv
<1>3. CASE ~vaultLost /\ ~vaultLost'
  <2>1. PICK k \in Nat \ {0} :
          /\ vaultKeys \subseteq {k, LegacyKey} /\ vaultRing \in {0, k} /\ vaultFile \in {0, k}
          /\ vaultKeys \subseteq {LegacyKey} \/ vaultRing = k \/ vaultFile = k
    BY <1>3 DEF VaultInv
  <2>2. CASE InRing(up) \/ InFile(readable)
    <3>1. key = k
      BY <2>1, <2>2 DEF VaultKey, InRing, InFile
    <3>2. /\ vaultRing' \in {vaultRing, k} /\ vaultFile' = vaultFile
          /\ vaultRing = k \/ vaultFile = k
      BY <2>1, <2>2, <3>1 DEF OpenVault, InRing, InFile
    <3>3. vaultRing' \in {0, k} /\ vaultFile' \in {0, k} /\ (vaultRing' = k \/ vaultFile' = k)
      BY <2>1, <3>2
    <3>4. vaultKeys' \subseteq {k, LegacyKey}
      BY <1>1, <2>1, <3>1
    <3> QED BY <1>1, <3>3, <3>4 DEF VaultInv
  <2>3. CASE ~InRing(up) /\ ~InFile(readable)
    <3>1. vaultRing = 0 /\ vaultFile = 0 /\ key = boots + 1
      BY <1>3, <2>3 DEF OpenVault, VaultKey
    <3>2. key \in Nat \ {0} /\ vaultKeys' \subseteq {key, LegacyKey}
      BY <1>1, <2>1, <3>1
    <3>3. vaultRing' \in {0, key} /\ vaultFile' \in {0, key} /\ (vaultRing' = key \/ vaultFile' = key)
      BY <2>3, <3>1 DEF OpenVault
    <3> HIDE DEF key
    <3> QED BY <1>1, <3>2, <3>3 DEF VaultInv
  <2> QED BY <2>2, <2>3
<1> QED BY <1>2, <1>3

(* Only opening the vault and a keyring that forgets change where the key is. *)
LEMMA VaultStep == VaultInv /\ [BootNext]_bootVars => VaultInv'
<1> SUFFICES ASSUME VaultInv, [BootNext]_bootVars PROVE VaultInv'
  OBVIOUS
<1>1. CASE UNCHANGED <<vaultVars, boots>>
  BY <1>1 DEF VaultInv, vaultVars
<1>2. ASSUME NEW w \in Window, InitKernel(w) PROVE VaultInv'
  <2>1. CASE UNCHANGED vaultVars
    BY <1>2, <2>1 DEF InitKernel, vaultVars, VaultInv
  <2>2. CASE ~UNCHANGED vaultVars
    BY <1>2, <2>2, OpenKeepsKey DEF InitKernel, vaultVars
  <2> QED BY <2>1, <2>2
<1>3. CASE QuitDesktop
  BY <1>3 DEF QuitDesktop, VaultInv
<1> QED BY <1>1, <1>2, <1>3
        DEF BootNext, bootVars, vaultVars, SetSecret, SaveSettings, OpenSaved, OpenCleared, OpenConfig,
            WriteConfig, SaveFails, SetModels, ReadSecrets, KeepConfig, ClearConfig, BootWith, BootKernel

-----------------------------------------------------------------------------
(* The inductive invariant: the lock has one holder who finds no kernel, a
   single writer has read or was given the last choice, and the vault's one key
   is where the next start looks. *)
THEOREM BootInductive == BootSpec => [](CallsOK /\ ConfigOK /\ LockInv /\ ChoiceInv /\ VaultInv)
<1>1. CallsOK /\ ConfigOK /\ LockInv /\ ChoiceInv /\ VaultInv /\ [BootNext]_bootVars
      => (CallsOK /\ ConfigOK /\ LockInv /\ ChoiceInv /\ VaultInv)'
  BY CallsStep, LockStep, ChoiceStep, VaultStep
<1> QED BY <1>1, BootInitial, PTL DEF BootSpec

(* boot_kernel: one process never runs two kernels, however many windows repeat
   the boot while another is under way. *)
THEOREM KernelIsSingle == BootSpec => []OneKernel
<1>1. LockInv => OneKernel
  BY DEF LockInv, OneKernel
<1> QED BY <1>1, BootInductive, PTL

(* settings_save against kernel_boot_from_keychain: the saved provider, and with
   it the models of the agents that were told, is the last one chosen, unless a
   write of the file broke off. *)
THEOREM ChoiceStands == BootSpec => []ChoiceIsKept
<1>1. ChoiceInv => ChoiceIsKept
  BY DEF ChoiceInv, ChoiceIsKept
<1> QED BY <1>1, BootInductive, PTL

(* load_or_generate_vault_key: beside the old versions' key every start opens the vault
   with the same one, as long as a copy of it can be read. *)
THEOREM VaultKeyStands == BootSpec => []VaultKeyIsKept
<1>1. VaultInv => VaultKeyIsKept
  <2> SUFFICES ASSUME VaultInv, ~vaultLost PROVE ~(Cardinality(vaultKeys \ {LegacyKey}) > 1)
    BY DEF VaultKeyIsKept
  <2>1. PICK k \in Nat \ {0} : vaultKeys \subseteq {k, LegacyKey}
    BY DEF VaultInv
  <2>2. vaultKeys \ {LegacyKey} = {} \/ vaultKeys \ {LegacyKey} = {k}
    BY <2>1
  <2>3. Cardinality({}) = 0 /\ Cardinality({k}) = 1
    BY FS_EmptySet, FS_Singleton
  <2> QED BY <2>2, <2>3
<1> QED BY <1>1, BootInductive, PTL

(* secrets_status against load_runtime_secrets: where the status shows a key for
   the chosen provider, a boot starts with that key. *)
THEOREM StatusIsTrue == BootSpec => []StatusPredictsBoot
<1>1. ConfigOK => StatusPredictsBoot
  BY BootAssumption
     DEF ConfigOK, Config, StatusPredictsBoot, Status, DefaultKeys, Loaded, HasLegacy
<1> QED BY <1>1, BootInductive, PTL

\* What the invariant of the boot does not say of its variables.
BootRest ==
  /\ sets \in 0..MaxSets /\ boots \in 0..MaxBoots
  /\ kernelLock \subseteq Window /\ models \in Provider /\ chosen \in Provider
  /\ told \in BOOLEAN /\ crossed \in BOOLEAN /\ brokenOff \in BOOLEAN
  /\ database \in BOOLEAN /\ vaultLost \in BOOLEAN
  /\ vaultRing \in Nat /\ vaultFile \in Nat /\ vaultKeys \subseteq Nat \cup {LegacyKey}

(* Every step leaves the counters in their bounds and the rest of the variables typed. *)
LEMMA BootRestKept == CallsOK /\ BootRest /\ [BootNext]_bootVars => BootRest'
<1> SUFFICES ASSUME CallsOK, BootRest, [BootNext]_bootVars PROVE BootRest'
  OBVIOUS
<1> USE DEF BootRest
<1>1. ASSUME NEW w \in Window, NEW p \in Provider, NEW k \in BOOLEAN, SaveSettings(w, p, k) PROVE BootRest'
  <2>1. sets' \in 0..MaxSets /\ crossed' \in BOOLEAN
    BY <1>1, BootAssumption DEF SaveSettings
  <2> QED BY <1>1, <2>1 DEF SaveSettings, vaultVars
<1>2. ASSUME NEW w \in Window, WriteConfig(w) PROVE BootRest'
  <2>1. chosen' \in Provider /\ told' = FALSE /\ brokenOff' = FALSE
    BY <1>2, CallShapes DEF WriteConfig, Standing
  <2> QED BY <1>2, <2>1 DEF WriteConfig, vaultVars
<1>3. ASSUME NEW w \in Window, SetModels(w) PROVE BootRest'
  <2>1. models' \in Provider /\ told' \in BOOLEAN
    BY <1>3, CallShapes DEF SetModels, Standing
  <2> QED BY <1>3, <2>1 DEF SetModels, vaultVars
<1>4. ASSUME NEW w \in Window, ReadSecrets(w) \/ SaveFails(w) PROVE BootRest'
  <2>1. crossed' \in BOOLEAN
    BY <1>4 DEF ReadSecrets, SaveFails
  <2>2. brokenOff' \in BOOLEAN
    BY <1>4 DEF ReadSecrets, SaveFails
  <2> QED BY <1>4, <2>1, <2>2 DEF ReadSecrets, SaveFails, vaultVars
<1>5. ASSUME NEW w \in Window, BootKernel(w) PROVE BootRest'
  BY <1>5 DEF BootKernel, secretVars, vaultVars
<1>6. ASSUME NEW w \in Window, InitKernel(w) PROVE BootRest'
  <2>1. boots' \in 0..MaxBoots /\ kernelLock' = {} /\ UNCHANGED secretVars
    BY <1>6, BootAssumption DEF InitKernel
  <2>2. CASE UNCHANGED vaultVars
    BY <2>1, <2>2 DEF secretVars, vaultVars
  <2>3. ASSUME NEW up \in BOOLEAN, NEW readable \in BOOLEAN, NEW then \in BOOLEAN,
               OpenVault(up, readable, then), NewKernel(VaultKey(up, readable))
        PROVE  BootRest'
    <3>1. VaultKey(up, readable) \in Nat
      BY BootAssumption DEF VaultKey
    <3>2. vaultRing' \in Nat /\ vaultFile' \in Nat
      BY <2>3, <3>1 DEF OpenVault
    <3>3. vaultLost' \in BOOLEAN
      BY <2>3 DEF OpenVault
    <3>4. vaultKeys' \subseteq Nat \cup {LegacyKey} /\ database' \in BOOLEAN
      BY <2>3, <3>1 DEF NewKernel
    <3> QED BY <2>1, <3>2, <3>3, <3>4 DEF secretVars
  <2> QED BY <1>6, <2>2, <2>3 DEF InitKernel
<1>7. CASE QuitDesktop
  <2>1. vaultRing' \in Nat
    BY <1>7 DEF QuitDesktop
  <2>2. vaultLost' \in BOOLEAN
    <3>1. vaultLost' = vaultLost \/ vaultLost' = (vaultLost \/ vaultFile = 0)
      BY <1>7 DEF QuitDesktop
    <3>2. CASE vaultLost' = vaultLost
      BY <3>2
    <3>3. CASE vaultLost' = (vaultLost \/ vaultFile = 0)
      BY <3>3
    <3> QED BY <3>1, <3>2, <3>3
  <2>3. brokenOff' \in BOOLEAN
    BY <1>7 DEF QuitDesktop
  <2> QED BY <1>7, <2>1, <2>2, <2>3 DEF QuitDesktop
<1>8. ASSUME NEW w \in Window, NEW p \in Provider, SetSecret(w, p) PROVE BootRest'
  BY <1>8, BootAssumption DEF SetSecret, vaultVars
<1>9. ASSUME UNCHANGED <<sets, chosen, told, crossed, brokenOff, models, boots, kernelLock, vaultVars>>
      PROVE  BootRest'
  BY <1>9 DEF vaultVars
<1> QED
  BY <1>1, <1>2, <1>3, <1>4, <1>5, <1>6, <1>7, <1>8, <1>9
  DEF BootNext, bootVars, secretVars, OpenSaved, OpenCleared, OpenConfig, KeepConfig, ClearConfig, BootWith

(* Type correctness of the boot: configuration, calls, lock and vault. *)
THEOREM BootTypesHold == BootSpec => []BootTypeOK
<1>1. BootInit => BootRest
  <2> SUFFICES ASSUME BootInit PROVE BootRest
    OBVIOUS
  <2>1. sets \in 0..MaxSets /\ boots \in 0..MaxBoots
    BY BootAssumption DEF BootInit
  <2> QED BY <2>1, BootAssumption DEF BootInit, BootRest
<1>2. CallsOK /\ ConfigOK /\ LockInv /\ BootRest => BootTypeOK
  <2> SUFFICES ASSUME CallsOK, ConfigOK, LockInv, BootRest PROVE BootTypeOK
    OBVIOUS
  <2>1. \A w \in Window :
          \/ call[w] \in [at : {"none", "boot", "init"}]
          \/ call[w] \in [at : {"config", "saving", "models"}, provider : Provider]
          \/ call[w] \in [at : {"clear", "clearing"}, config : Config]
    BY DEF CallsOK, AnyCall, Saves, Clearing
  <2> QED BY <2>1 DEF ConfigOK, LockInv, BootRest, BootTypeOK
<1> QED BY <1>1, <1>2, BootRestKept, BootInductive, PTL DEF BootSpec

-----------------------------------------------------------------------------
(* The bundles, the stages of a command that has begun to store one, and the rows of
   commands under way. *)
Copy == [Account -> Nat]
Storing == {"truncate", "write", "ring", "cache"}
CommandRow == [at : Stages \cup {"load"}, account : Account, value : Nat, reads : BOOLEAN, bundle : Copy]

(* A reading has no value and stores nothing, a save has one. *)
IsReadOrSave(k) ==
  k # NoCommand => IF k.reads THEN k.value = 0 /\ k.at \notin Storing ELSE k.value # 0

(* Types, as far as the proofs need them. *)
SecretsOK ==
  /\ Account # {}
  /\ ring \in Copy \cup {NoBundle} /\ file \in Copy \cup {NoBundle} /\ cache \in Copy \cup {NoBundle}
  /\ old \in [Account -> {0, OldSecret}] /\ saved \in Copy /\ saves \in Nat
  /\ lostSaves \subseteq Nat \ {0}
  /\ command \in [Command -> {NoCommand} \cup CommandRow]
  /\ \A c \in Command : IsReadOrSave(command[c])

(* None of the three ways to lose a secret was met. *)
Calm == ~raced /\ ~shadowed /\ ~torn

Finds(b, a) == saved[a] # 0 => b[a] \in {saved[a]} \cup lostSaves
Good(b) == \A a \in Account : Finds(b, a)

(* One command holds a bundle, and what it holds or has written is good but for
   its own account. *)
HolderInv ==
  /\ \A c, d \in Command : Holding(c) /\ Holding(d) => c = d
  /\ \A c \in Command : CommandAt(c, "warm") => Good(command[c].bundle)
  /\ \A c \in Command : Migrates(c) => saved[command[c].account] = 0
  /\ \A c \in Command : command[c].at \in Storing =>
       /\ cache # NoBundle /\ ~command[c].reads
       /\ command[c].bundle[command[c].account] = command[c].value
       /\ \A a \in Account \ {command[c].account} : Finds(command[c].bundle, a)

(* The copies are good, but for the one that is being written. *)
CopyInv ==
  /\ cache # NoBundle => Good(cache)
  /\ (\A c \in Command : command[c].at # "cache") => (ring # NoBundle => Good(ring))
  /\ (\A c \in Command : command[c].at \notin {"ring", "cache"}) => (file # NoBundle => Good(file))
  /\ \A c \in Command : command[c].at \in {"ring", "cache"} => file = command[c].bundle
  /\ \A c \in Command : command[c].at = "cache" => ring \in {command[c].bundle, NoBundle}
  /\ \/ \E c \in Command : command[c].at = "write"
     \/ file # NoBundle
     \/ \A a \in Account : saved[a] = 0

BundleInv == Calm => HolderInv /\ CopyInv

-----------------------------------------------------------------------------
(* A bundle of accounts is not no bundle. *)
LEMMA ABundle == ASSUME SecretsOK, NEW b \in Copy PROVE b # NoBundle
<1>1. DOMAIN b = Account /\ DOMAIN NoBundle = {}
  BY DEF Copy, NoBundle
<1> QED BY <1>1 DEF SecretsOK

(* A command that is idle is not under way. *)
LEMMA Stops == NoCommand.at = "idle" /\ \A c \in CommandRow : c # NoCommand /\ c.at # "idle"
BY DEF NoCommand, CommandRow, Stages

(* With nobody writing, the stored bundle is good. *)
LEMMA StoredIsGood ==
  ASSUME SecretsOK, CopyInv, \A c \in Command : command[c].at \notin {"write", "ring", "cache"},
         NEW up \in BOOLEAN
  PROVE  Stored(up) \in Copy /\ Good(Stored(up))
<1>1. Empty \in Copy
  BY DEF Empty, Copy
<1>2. CASE up /\ ring # NoBundle
  BY <1>2 DEF Stored, CopyInv, SecretsOK
<1>3. CASE ~(up /\ ring # NoBundle) /\ file # NoBundle
  <2>1. Stored(up) = file
    BY <1>3 DEF Stored
  <2> QED BY <1>3, <2>1 DEF CopyInv, SecretsOK
<1>4. CASE ~(up /\ ring # NoBundle) /\ file = NoBundle
  <2>1. Stored(up) = Empty
    BY <1>4 DEF Stored
  <2>2. \A a \in Account : saved[a] = 0
    BY <1>4 DEF CopyInv
  <2> QED BY <1>1, <2>1, <2>2 DEF Good, Finds
<1> QED BY <1>2, <1>3, <1>4

(* Nothing is stored at the start, so nothing can be lost. *)
LEMMA SetInitial == SetInit => SecretsOK /\ BundleInv
<1> SUFFICES ASSUME SetInit PROVE SecretsOK /\ BundleInv
  OBVIOUS
<1>1. PICK a \in Account : old = [Empty EXCEPT ![a] = OldSecret]
  BY DEF SetInit
<1>2. old \in [Account -> {0, OldSecret}] /\ saved \in Copy /\ saves \in Nat
  BY <1>1 DEF SetInit, Empty, OldSecret, Copy
<1>3. \A c \in Command : command[c] = NoCommand /\ command[c].at = "idle"
  BY Stops DEF SetInit
<1>4. SecretsOK
  BY <1>1, <1>2, <1>3 DEF SetInit, SecretsOK, IsReadOrSave
<1>5. HolderInv
  BY <1>3 DEF HolderInv, Holding, Migrates, CommandAt, Stages, Storing
<1>6. CopyInv
  BY <1>3 DEF SetInit, CopyInv, Empty
<1> QED BY <1>4, <1>5, <1>6 DEF BundleInv

(* The holder is alone when nobody raced. *)
LEMMA HolderIsAlone ==
  ASSUME HolderInv, NEW c \in Command, Holding(c)
  PROVE  \A d \in Command \ {c} : ~Holding(d) /\ command[d].at \notin Stages /\ ~Migrates(d)
BY DEF HolderInv, Holding

(* A bundle in hand: a save goes on with it, a reading ends or migrates. *)
LEMMA HasBundle ==
  ASSUME SecretsOK, NEW c \in Command, command[c].at \in {"load", "warm"}, NEW b \in Copy, Has(c, b)
  PROVE  /\ command' \in [Command -> {NoCommand} \cup CommandRow]
         /\ \A d \in Command \ {c} : command'[d] = command[d]
         /\ \/ /\ ~command[c].reads /\ command'[c] \in CommandRow
               /\ command'[c].at = "truncate" /\ command'[c].account = command[c].account
               /\ command'[c].value = command[c].value /\ ~command'[c].reads
               /\ command'[c].bundle = [b EXCEPT ![command[c].account] = command[c].value]
            \/ command'[c] = NoCommand
            \/ /\ b[command[c].account] = 0 /\ command'[c] \in CommandRow
               /\ command'[c].at = "load" /\ command'[c].account = command[c].account
               /\ command'[c].value = OldSecret /\ ~command'[c].reads
<1> DEFINE k == command[c]
<1>0. k \in CommandRow
  BY Stops DEF SecretsOK
<1>1. CASE ~k.reads
  <2> DEFINE b2 == [b EXCEPT ![k.account] = k.value]
             r == [k EXCEPT !.at = "truncate", !.bundle = b2]
  <2>1. b2 \in Copy /\ "truncate" \in Stages
    BY <1>0 DEF Copy, CommandRow, Stages
  <2> HIDE DEF b2
  <2>2. /\ r \in CommandRow /\ r.at = "truncate" /\ r.account = k.account /\ r.value = k.value
        /\ r.reads = k.reads /\ r.bundle = b2
    BY <1>0, <2>1 DEF CommandRow
  <2>3. command' = [command EXCEPT ![c] = r]
    BY <1>1 DEF Has, b2
  <2> HIDE DEF r
  <2>4. /\ command' \in [Command -> {NoCommand} \cup CommandRow] /\ command'[c] = r
        /\ \A d \in Command \ {c} : command'[d] = command[d]
    BY <2>2, <2>3 DEF SecretsOK
  <2> QED BY <1>1, <2>2, <2>4 DEF b2
<1>2. CASE k.reads
  <2>1. CASE command' = [command EXCEPT ![c] = NoCommand]
    BY <2>1 DEF SecretsOK
  <2>2. CASE /\ b[k.account] = 0 /\ old[k.account] # 0
             /\ command' = [command EXCEPT ![c] = NewCommand(k.account, old[k.account], FALSE)]
    <3> DEFINE r == NewCommand(k.account, old[k.account], FALSE)
    <3>1. old[k.account] = OldSecret /\ OldSecret \in Nat /\ k.account \in Account
      BY <1>0, <2>2 DEF SecretsOK, OldSecret, CommandRow
    <3>2. Empty \in Copy
      BY DEF Empty, Copy
    <3>3. /\ r \in CommandRow /\ r.at = "load" /\ r.account = k.account /\ r.value = OldSecret
          /\ r.reads = FALSE
      BY <3>1, <3>2 DEF NewCommand, CommandRow
    <3> HIDE DEF r
    <3>4. /\ command' \in [Command -> {NoCommand} \cup CommandRow] /\ command'[c] = r
          /\ \A d \in Command \ {c} : command'[d] = command[d]
      BY <2>2, <3>3 DEF SecretsOK, r
    <3> QED BY <2>2, <3>3, <3>4
  <2> QED BY <1>2, <2>1, <2>2 DEF Has
<1> QED BY <1>1, <1>2

(* What a command had in hand, and goes on with, leaves the copies alone. *)
LEMMA GoesOnWell ==
  ASSUME SecretsOK, HolderInv, CopyInv, NEW c \in Command, command[c].at \in {"load", "warm"},
         NEW b \in Copy, Good(b), Has(c, b), cache' = b,
         \A d \in Command \ {c} : ~Holding(d),
         UNCHANGED <<ring, file, old, saved, lostSaves, saves>>
  PROVE  SecretsOK' /\ HolderInv' /\ CopyInv'
<1> DEFINE k == command[c]
<1>1. /\ command' \in [Command -> {NoCommand} \cup CommandRow]
      /\ \A d \in Command \ {c} : command'[d] = command[d]
      /\ \/ /\ ~k.reads /\ command'[c] \in CommandRow
            /\ command'[c].at = "truncate" /\ command'[c].account = k.account
            /\ command'[c].value = k.value /\ ~command'[c].reads
            /\ command'[c].bundle = [b EXCEPT ![k.account] = k.value]
         \/ command'[c] = NoCommand
         \/ /\ b[k.account] = 0 /\ command'[c] \in CommandRow
            /\ command'[c].at = "load" /\ command'[c].account = k.account
            /\ command'[c].value = OldSecret /\ ~command'[c].reads
  BY HasBundle
<1>2. k \in CommandRow /\ k.account \in Account
  BY Stops DEF SecretsOK, CommandRow
<1>3. SecretsOK'
  <2>1. \A d \in Command : IsReadOrSave(command'[d])
    <3> SUFFICES ASSUME NEW d \in Command PROVE IsReadOrSave(command'[d])
      OBVIOUS
    <3>1. CASE d = c
      BY <1>1, <1>2, <3>1, Stops DEF SecretsOK, IsReadOrSave, OldSecret
    <3>2. CASE d # c
      BY <1>1, <3>2 DEF SecretsOK
    <3> QED BY <3>1, <3>2
  <2> QED BY <1>1, <2>1 DEF SecretsOK
<1>4. \A d \in Command \ {c} : ~Holding(d)' /\ ~Migrates(d)' /\ command'[d].at \notin Stages
  BY <1>1 DEF Holding, Migrates, CommandAt
<1>5. \A d \in Command : command'[d].at \notin {"warm", "write", "ring", "cache"}
  BY <1>1, <1>4, Stops DEF Stages
<1>6. HolderInv'
  <2>1. \A d, e \in Command : Holding(d)' /\ Holding(e)' => d = e
    BY <1>4
  <2>2. \A d \in Command : CommandAt(d, "warm")' => Good(command[d].bundle)'
    BY <1>5 DEF CommandAt
  <2>3. ASSUME NEW d \in Command, Migrates(d)' PROVE saved'[command'[d].account] = 0
    <3>1. d = c
      BY <1>4, <2>3
    <3>2. CASE command'[c].at = "truncate"
      <4>1. Migrates(c) /\ command'[c].account = k.account
        BY <1>1, <2>3, <3>1, <3>2, Stops DEF Migrates, CommandAt
      <4> QED BY <4>1, <3>1 DEF HolderInv
    <3>3. CASE command'[c].at # "truncate"
      <4>1. b[k.account] = 0 /\ command'[c].account = k.account
        BY <1>1, <2>3, <3>1, <3>3, Stops DEF Migrates, CommandAt
      <4>2. saved[k.account] = 0
        BY <1>2, <4>1 DEF Good, Finds, SecretsOK
      <4> QED BY <3>1, <4>1, <4>2
    <3> QED BY <3>2, <3>3
  <2>4. ASSUME NEW d \in Command, command'[d].at \in Storing
        PROVE  /\ cache' # NoBundle /\ ~command'[d].reads
               /\ command'[d].bundle[command'[d].account] = command'[d].value
               /\ \A a \in Account \ {command'[d].account} : Finds(command[d].bundle, a)'
    <3>1. d = c /\ command'[c].at = "truncate"
      BY <1>4, <1>5, <2>4 DEF Storing, Stages
    <3>2. /\ command'[c].account = k.account /\ command'[c].value = k.value /\ ~command'[c].reads
          /\ command'[c].bundle = [b EXCEPT ![k.account] = k.value]
      BY <1>1, <3>1, Stops
    <3>3. cache' # NoBundle
      BY ABundle
    <3>4. /\ command'[c].bundle[k.account] = k.value
          /\ \A a \in Account \ {k.account} : command'[c].bundle[a] = b[a]
      BY <1>2, <3>2 DEF Copy
    <3> QED BY <3>1, <3>2, <3>3, <3>4 DEF Good, Finds
  <2> QED BY <2>1, <2>2, <2>3, <2>4 DEF HolderInv
<1>7. CopyInv'
  <2>1. \A d \in Command : command[d].at \notin {"write", "ring", "cache"}
    <3>1. \A d \in Command \ {c} : command[d].at \notin Stages
      BY DEF Holding
    <3> QED BY <3>1 DEF Stages
  <2>2. (ring # NoBundle => Good(ring)) /\ (file # NoBundle => Good(file)) /\ Good(b)
    BY <2>1 DEF CopyInv
  <2>3. file # NoBundle \/ \A a \in Account : saved[a] = 0
    BY <2>1 DEF CopyInv
  <2> QED BY <1>5, <2>2, <2>3 DEF CopyInv, Good, Finds
<1> QED BY <1>3, <1>6, <1>7

(* A bundle is read, from the cache or the stored copies. *)
LEMMA LoadKeeps ==
  ASSUME SecretsOK, BundleInv, NEW c \in Command, LoadBundle(c)
  PROVE  SecretsOK' /\ BundleInv'
<1>1. /\ command[c].at = "load" /\ UNCHANGED <<ring, file, cache, old, saved, lostSaves, saves, shadowed, torn>>
      /\ raced' = (raced \/ \E d \in Command \ {c} : Holding(d))
  BY DEF LoadBundle, CommandAt
<1>k. command[c] \in CommandRow
  BY <1>1, Stops DEF SecretsOK
<1>2. CASE cache # NoBundle
  <2>1. Has(c, cache) /\ cache \in Copy
    BY <1>2 DEF LoadBundle, SecretsOK
  <2>2. /\ command' \in [Command -> {NoCommand} \cup CommandRow]
        /\ \A d \in Command \ {c} : command'[d] = command[d]
        /\ \/ ~command[c].reads /\ ~command'[c].reads /\ command'[c].value = command[c].value
           \/ command'[c] = NoCommand
           \/ command'[c].value = OldSecret /\ ~command'[c].reads
    BY <1>1, <2>1, HasBundle
  <2>3. SecretsOK'
    <3>1. ASSUME NEW d \in Command PROVE IsReadOrSave(command'[d])
      <4>1. CASE d = c
        BY <1>k, <2>2, <3>1, <4>1, Stops DEF SecretsOK, IsReadOrSave, OldSecret
      <4>2. CASE d # c
        BY <2>2, <3>1, <4>2 DEF SecretsOK
      <4> QED BY <4>1, <4>2
    <3> QED BY <1>1, <2>2, <3>1 DEF SecretsOK
  <2>4. ASSUME Calm' PROVE HolderInv' /\ CopyInv'
    <3>1. Calm /\ \A d \in Command \ {c} : ~Holding(d)
      BY <1>1, <2>4 DEF Calm
    <3>2. HolderInv /\ CopyInv /\ Good(cache)
      BY <1>2, <3>1 DEF BundleInv, CopyInv
    <3> QED BY <1>1, <2>1, <3>1, <3>2, GoesOnWell
  <2> QED BY <2>3, <2>4 DEF BundleInv
<1>3. CASE cache = NoBundle
  <2>1. PICK up \in BOOLEAN : Holds(c, "warm", Stored(up))
    BY <1>3 DEF LoadBundle
  <2>2. Stored(up) \in Copy
    BY DEF Stored, SecretsOK, Empty, Copy
  <2> DEFINE b == Stored(up)
             r == [command[c] EXCEPT !.at = "warm", !.bundle = b]
  <2> HIDE DEF b
  <2>3. /\ r \in CommandRow /\ r.at = "warm" /\ r.bundle = b /\ r.account = command[c].account
        /\ r.value = command[c].value /\ r.reads = command[c].reads
    BY <1>k, <2>2 DEF CommandRow, Stages, b
  <2>4. command' = [command EXCEPT ![c] = r]
    BY <2>1 DEF Holds, b
  <2> HIDE DEF r
  <2>5. /\ command' \in [Command -> {NoCommand} \cup CommandRow] /\ command'[c] = r
        /\ \A d \in Command \ {c} : command'[d] = command[d]
    BY <2>3, <2>4 DEF SecretsOK
  <2>6. SecretsOK'
    <3>1. ASSUME NEW d \in Command PROVE IsReadOrSave(command'[d])
      <4>1. CASE d = c
        BY <1>k, <2>3, <2>5, <4>1, <1>1, Stops DEF SecretsOK, IsReadOrSave, Storing
      <4>2. CASE d # c
        BY <2>5, <3>1, <4>2 DEF SecretsOK
      <4> QED BY <4>1, <4>2
    <3> QED BY <1>1, <2>5, <3>1 DEF SecretsOK
  <2>7. ASSUME Calm' PROVE HolderInv' /\ CopyInv'
    <3>1. Calm /\ \A d \in Command \ {c} : ~Holding(d)
      BY <1>1, <2>7 DEF Calm
    <3>2. HolderInv /\ CopyInv
      BY <3>1 DEF BundleInv
    <3>3. \A d \in Command : command[d].at \notin {"write", "ring", "cache"}
      BY <1>1, <3>1 DEF Holding, Stages
    <3>4. Good(b)
      BY <3>2, <3>3, StoredIsGood DEF b
    <3>5. \A d \in Command \ {c} : ~Holding(d)' /\ ~Migrates(d)' /\ command'[d].at \notin Stages
      BY <2>5, <3>1 DEF Holding, Migrates, CommandAt
    <3>6. \A d \in Command : command'[d].at \notin Storing /\ command'[d].at \notin {"write", "ring", "cache"}
      BY <2>3, <2>5, <3>5 DEF Stages, Storing
    <3>7. HolderInv'
      <4>1. \A d, e \in Command : Holding(d)' /\ Holding(e)' => d = e
        BY <3>5
      <4>2. ASSUME NEW d \in Command, CommandAt(d, "warm")' PROVE Good(command[d].bundle)'
        <5>1. d = c
          BY <4>2, <3>5 DEF CommandAt, Stages
        <5> QED BY <5>1, <1>1, <2>3, <2>5, <3>4 DEF Good, Finds
      <4>3. ASSUME NEW d \in Command, Migrates(d)' PROVE saved'[command'[d].account] = 0
        <5>1. d = c
          BY <4>3, <3>5
        <5>2. Migrates(c)
          BY <1>1, <5>1, <4>3, <2>3, <2>5 DEF Migrates, CommandAt
        <5> QED BY <1>1, <5>1, <5>2, <2>3, <2>5, <3>2 DEF HolderInv
      <4> QED BY <3>6, <4>1, <4>2, <4>3 DEF HolderInv
    <3>8. CopyInv'
      <4>1. (ring # NoBundle => Good(ring)) /\ (file # NoBundle => Good(file))
        BY <3>2, <3>3 DEF CopyInv
      <4>2. file # NoBundle \/ \A a \in Account : saved[a] = 0
        BY <3>2, <3>3 DEF CopyInv
      <4> QED BY <1>1, <1>3, <3>6, <4>1, <4>2 DEF CopyInv, Good, Finds
    <3> QED BY <3>7, <3>8
  <2> QED BY <2>6, <2>7 DEF BundleInv
<1> QED BY <1>2, <1>3

(* A bundle just loaded goes into the cache first. *)
LEMMA WarmKeeps ==
  ASSUME SecretsOK, BundleInv, NEW c \in Command, WarmCache(c)
  PROVE  SecretsOK' /\ BundleInv'
<1> DEFINE b == command[c].bundle
<1>1. /\ command[c].at = "warm" /\ cache' = b /\ Has(c, b)
      /\ UNCHANGED <<ring, file, old, saved, lostSaves, raced, shadowed, torn, saves>>
  BY DEF WarmCache, CommandAt
<1>k. command[c] \in CommandRow /\ b \in Copy
  BY <1>1, Stops DEF SecretsOK, CommandRow
<1> HIDE DEF b
<1>2. /\ command' \in [Command -> {NoCommand} \cup CommandRow]
      /\ \A d \in Command \ {c} : command'[d] = command[d]
      /\ \/ ~command[c].reads /\ ~command'[c].reads /\ command'[c].value = command[c].value
         \/ command'[c] = NoCommand
         \/ command'[c].value = OldSecret /\ ~command'[c].reads
  BY <1>1, <1>k, HasBundle
<1>3. SecretsOK'
  <2>1. ASSUME NEW d \in Command PROVE IsReadOrSave(command'[d])
    <3>1. CASE d = c
      BY <1>k, <1>2, <2>1, <3>1, Stops DEF SecretsOK, IsReadOrSave, OldSecret
    <3>2. CASE d # c
      BY <1>2, <2>1, <3>2 DEF SecretsOK
    <3> QED BY <3>1, <3>2
  <2> QED BY <1>1, <1>2, <1>k, <2>1 DEF SecretsOK
<1>4. ASSUME Calm' PROVE HolderInv' /\ CopyInv'
  <2>1. Calm /\ HolderInv /\ CopyInv
    BY <1>1, <1>4 DEF Calm, BundleInv
  <2>2. Holding(c)
    BY <1>1 DEF Holding, Stages
  <2>3. \A d \in Command \ {c} : ~Holding(d)
    BY <2>1, <2>2, HolderIsAlone
  <2>4. Good(b)
    BY <1>1, <2>1 DEF HolderInv, CommandAt, b
  <2> QED BY <1>1, <1>k, <2>1, <2>3, <2>4, GoesOnWell
<1> QED BY <1>3, <1>4 DEF BundleInv

(* A command that writes moves from stage to stage with what it holds. *)
LEMMA StageMoves ==
  ASSUME SecretsOK, NEW c \in Command, command[c].at \in Storing, NEW where \in Storing,
         CommandGoes(c, where)
  PROVE  /\ command' \in [Command -> {NoCommand} \cup CommandRow]
         /\ \A d \in Command \ {c} : command'[d] = command[d]
         /\ command'[c].at = where /\ command'[c].account = command[c].account
         /\ command'[c].value = command[c].value /\ command'[c].reads = command[c].reads
         /\ command'[c].bundle = command[c].bundle
         /\ \A d \in Command : /\ Holding(d)' <=> Holding(d)
                               /\ Migrates(d)' <=> Migrates(d)
                               /\ command'[d].account = command[d].account
         /\ \A d \in Command : IsReadOrSave(command'[d])
<1>1. command[c] \in CommandRow /\ command[c] # NoCommand /\ where \in Stages \cup {"load"}
  BY Stops DEF SecretsOK, Storing, Stages
<1> DEFINE r == [command[c] EXCEPT !.at = where]
<1>2. /\ r \in CommandRow /\ r.at = where /\ r.account = command[c].account
      /\ r.value = command[c].value /\ r.reads = command[c].reads /\ r.bundle = command[c].bundle
  BY <1>1 DEF CommandRow
<1>3. command' = [command EXCEPT ![c] = r]
  BY DEF CommandGoes
<1> HIDE DEF r
<1>4. /\ command' \in [Command -> {NoCommand} \cup CommandRow] /\ command'[c] = r
      /\ \A d \in Command \ {c} : command'[d] = command[d]
  BY <1>2, <1>3 DEF SecretsOK
<1>5. \A d \in Command : /\ Holding(d)' <=> Holding(d)
                         /\ Migrates(d)' <=> Migrates(d)
                         /\ command'[d].account = command[d].account
  <2> TAKE d \in Command
  <2>1. CASE d = c
    BY <1>2, <1>4, <2>1 DEF Holding, Migrates, CommandAt, Storing, Stages
  <2>2. CASE d # c
    BY <1>4, <2>2 DEF Holding, Migrates, CommandAt
  <2> QED BY <2>1, <2>2
<1>6. \A d \in Command : IsReadOrSave(command'[d])
  <2> TAKE d \in Command
  <2>1. CASE d = c
    BY <1>1, <1>2, <1>4, <2>1 DEF SecretsOK, IsReadOrSave
  <2>2. CASE d # c
    BY <1>4, <2>2 DEF SecretsOK
  <2> QED BY <2>1, <2>2
<1> QED BY <1>2, <1>4, <1>5, <1>6

(* Its bundle stays good but for its account. *)
LEMMA HolderMoves ==
  ASSUME SecretsOK, HolderInv, NEW c \in Command, command[c].at \in Storing, NEW where \in Storing,
         CommandGoes(c, where), UNCHANGED <<cache, saved, lostSaves>>
  PROVE  HolderInv'
<1>1. /\ \A d \in Command \ {c} : command'[d] = command[d]
      /\ command'[c].at = where /\ command'[c].account = command[c].account
      /\ command'[c].value = command[c].value /\ command'[c].reads = command[c].reads
      /\ command'[c].bundle = command[c].bundle
      /\ \A d \in Command : /\ Holding(d)' <=> Holding(d)
                            /\ Migrates(d)' <=> Migrates(d)
                            /\ command'[d].account = command[d].account
  BY StageMoves
<1>2. \A d, e \in Command : Holding(d)' /\ Holding(e)' => d = e
  BY <1>1 DEF HolderInv
<1>3. \A d \in Command : Migrates(d)' => saved'[command'[d].account] = 0
  BY <1>1 DEF HolderInv
<1>4. ASSUME NEW d \in Command, CommandAt(d, "warm")' PROVE Good(command[d].bundle)'
  <2>1. command'[d] = command[d]
    BY <1>1, <1>4 DEF CommandAt, Storing
  <2> QED BY <1>4, <2>1 DEF HolderInv, CommandAt, Good, Finds
<1>5. ASSUME NEW d \in Command, command'[d].at \in Storing
      PROVE  /\ cache' # NoBundle /\ ~command'[d].reads
             /\ command'[d].bundle[command'[d].account] = command'[d].value
             /\ \A a \in Account \ {command'[d].account} : Finds(command[d].bundle, a)'
  <2>1. CASE d = c
    BY <1>1, <2>1 DEF HolderInv, Finds
  <2>2. CASE d # c
    BY <1>1, <1>5, <2>2 DEF HolderInv, Finds
  <2> QED BY <2>1, <2>2
<1> QED BY <1>2, <1>3, <1>4, <1>5 DEF HolderInv

(* A command that ends leaves no holder. *)
LEMMA CommandEnds ==
  ASSUME SecretsOK, NEW c \in Command, command' = [command EXCEPT ![c] = NoCommand]
  PROVE  /\ command' \in [Command -> {NoCommand} \cup CommandRow]
         /\ command'[c] = NoCommand /\ command'[c].at = "idle"
         /\ \A d \in Command \ {c} : command'[d] = command[d]
         /\ \A d \in Command : IsReadOrSave(command'[d])
<1>1. /\ command' \in [Command -> {NoCommand} \cup CommandRow] /\ command'[c] = NoCommand
      /\ \A d \in Command \ {c} : command'[d] = command[d]
  BY DEF SecretsOK
<1> QED BY <1>1, Stops DEF SecretsOK, IsReadOrSave

(* When the holder is gone no command has anything in hand. *)
LEMMA NoHolder ==
  ASSUME SecretsOK, HolderInv, NEW c \in Command, Holding(c), command' = [command EXCEPT ![c] = NoCommand]
  PROVE  /\ HolderInv'
         /\ \A d \in Command : command'[d].at \notin Stages
<1>1. /\ command'[c] = NoCommand /\ command'[c].at = "idle"
      /\ \A d \in Command \ {c} : command'[d] = command[d]
  BY CommandEnds
<1>2. \A d \in Command : ~Holding(d)' /\ ~Migrates(d)' /\ command'[d].at \notin Stages
  <2> TAKE d \in Command
  <2>1. CASE d = c
    BY <1>1, <2>1 DEF Holding, Migrates, CommandAt, Stages
  <2>2. CASE d # c
    <3>1. ~Holding(d) /\ ~Migrates(d) /\ command[d].at \notin Stages
      BY <2>2, HolderIsAlone
    <3> QED BY <1>1, <2>2, <3>1 DEF Holding, Migrates, CommandAt
  <2> QED BY <2>1, <2>2
<1> QED BY <1>2 DEF HolderInv, CommandAt, Stages, Storing

(* The file is emptied, or the command fails. *)
LEMMA TruncateKeeps ==
  ASSUME SecretsOK, BundleInv, NEW c \in Command, Truncate(c)
  PROVE  SecretsOK' /\ BundleInv'
<1>1. /\ command[c].at = "truncate"
      /\ UNCHANGED <<ring, cache, old, saved, lostSaves, raced, shadowed, torn, saves>>
  BY DEF Truncate, CommandAt
<1>2. Holding(c) /\ command[c].at \in Storing
  BY <1>1 DEF Holding, Stages, Storing
<1>3. CASE file' = NoBundle /\ CommandGoes(c, "write")
  <2>1. /\ command' \in [Command -> {NoCommand} \cup CommandRow] /\ command'[c].at = "write"
        /\ \A d \in Command \ {c} : command'[d] = command[d]
        /\ \A d \in Command : IsReadOrSave(command'[d])
    BY <1>2, <1>3, StageMoves DEF Storing
  <2>2. SecretsOK'
    BY <1>1, <1>3, <2>1 DEF SecretsOK
  <2>3. ASSUME Calm' PROVE HolderInv' /\ CopyInv'
    <3>1. Calm /\ HolderInv /\ CopyInv
      BY <1>1, <2>3 DEF Calm, BundleInv
    <3>2. HolderInv'
      BY <1>1, <1>2, <1>3, <3>1, HolderMoves DEF Storing
    <3>3. \A d \in Command : command[d].at # "cache" /\ command'[d].at \notin {"ring", "cache"}
      BY <1>1, <1>2, <2>1, <3>1, HolderIsAlone DEF Stages
    <3>4. CopyInv'
      BY <1>1, <1>3, <2>1, <3>1, <3>3 DEF CopyInv, Good, Finds
    <3> QED BY <3>2, <3>4
  <2> QED BY <2>2, <2>3 DEF BundleInv
<1>4. CASE command' = [command EXCEPT ![c] = NoCommand] /\ UNCHANGED file
  <2>1. SecretsOK'
    BY <1>1, <1>4, CommandEnds DEF SecretsOK
  <2>2. ASSUME Calm' PROVE HolderInv' /\ CopyInv'
    <3>1. Calm /\ HolderInv /\ CopyInv
      BY <1>1, <2>2 DEF Calm, BundleInv
    <3>2. HolderInv' /\ \A d \in Command : command'[d].at \notin {"write", "ring", "cache"}
      BY <1>2, <1>4, <3>1, NoHolder DEF Stages
    <3>3. \A d \in Command : command[d].at \notin {"write", "ring", "cache"}
      BY <1>1, <1>2, <3>1, HolderIsAlone DEF Stages
    <3>4. CopyInv'
      BY <1>1, <1>4, <3>1, <3>2, <3>3 DEF CopyInv, Good, Finds
    <3> QED BY <3>2, <3>4
  <2> QED BY <2>1, <2>2 DEF BundleInv
<1> QED BY <1>3, <1>4 DEF Truncate

(* The file is written: from here on it has what the command holds. *)
LEMMA WriteFileKeeps ==
  ASSUME SecretsOK, BundleInv, NEW c \in Command, WriteFile(c)
  PROVE  SecretsOK' /\ BundleInv'
<1>1. /\ command[c].at = "write" /\ file' = command[c].bundle /\ CommandGoes(c, "ring")
      /\ UNCHANGED <<ring, cache, old, saved, lostSaves, raced, shadowed, torn, saves>>
  BY DEF WriteFile, FileKeeps, CommandAt
<1>2. /\ Holding(c) /\ command[c].at \in Storing /\ command[c].bundle \in Copy
  BY <1>1, Stops DEF Holding, Stages, Storing, SecretsOK, CommandRow
<1>3. /\ command' \in [Command -> {NoCommand} \cup CommandRow] /\ command'[c].at = "ring"
      /\ command'[c].bundle = command[c].bundle
      /\ \A d \in Command \ {c} : command'[d] = command[d]
      /\ \A d \in Command : IsReadOrSave(command'[d])
  BY <1>1, <1>2, StageMoves DEF Storing
<1>4. SecretsOK'
  BY <1>1, <1>2, <1>3 DEF SecretsOK
<1>5. ASSUME Calm' PROVE HolderInv' /\ CopyInv'
  <2>1. Calm /\ HolderInv /\ CopyInv
    BY <1>1, <1>5 DEF Calm, BundleInv
  <2>2. HolderInv'
    BY <1>1, <1>2, <2>1, HolderMoves DEF Storing
  <2>3. \A d \in Command \ {c} : command[d].at \notin Stages
    BY <1>2, <2>1, HolderIsAlone
  <2>4. ring # NoBundle => Good(ring)
    BY <1>1, <2>1, <2>3 DEF CopyInv, Stages
  <2>5. \A d \in Command : command'[d].at \in {"ring", "cache"} => d = c
    BY <1>3, <2>3 DEF Stages
  <2>6. /\ (\A d \in Command : command'[d].at \notin {"ring", "cache"})
             => (file' # NoBundle => Good(file)')
        /\ \A d \in Command : command'[d].at \in {"ring", "cache"} => file' = command'[d].bundle
        /\ \A d \in Command : command'[d].at # "cache"
        /\ file' # NoBundle
    BY <1>1, <1>2, <1>3, <2>5, ABundle
  <2>7. (ring' # NoBundle => Good(ring)') /\ (cache' # NoBundle => Good(cache)')
    BY <1>1, <2>1, <2>4 DEF CopyInv, Good, Finds
  <2>8. CopyInv'
    BY <2>6, <2>7 DEF CopyInv
  <2> QED BY <2>2, <2>8
<1> QED BY <1>4, <1>5 DEF BundleInv

(* The keyring takes the bundle or, being empty, leaves it to the file. *)
LEMMA WriteRingKeeps ==
  ASSUME SecretsOK, BundleInv, NEW c \in Command, WriteRing(c)
  PROVE  SecretsOK' /\ BundleInv'
<1>1. /\ command[c].at = "ring" /\ CommandGoes(c, "cache")
      /\ \/ ring' = command[c].bundle /\ shadowed' = shadowed
         \/ ring' = ring /\ shadowed' = (shadowed \/ ring # NoBundle)
      /\ UNCHANGED <<file, cache, old, saved, lostSaves, raced, torn, saves>>
  BY DEF WriteRing, CommandAt
<1>2. /\ Holding(c) /\ command[c].at \in Storing /\ command[c].bundle \in Copy
  BY <1>1, Stops DEF Holding, Stages, Storing, SecretsOK, CommandRow
<1>3. /\ command' \in [Command -> {NoCommand} \cup CommandRow] /\ command'[c].at = "cache"
      /\ command'[c].bundle = command[c].bundle
      /\ \A d \in Command \ {c} : command'[d] = command[d]
      /\ \A d \in Command : IsReadOrSave(command'[d])
  BY <1>1, <1>2, StageMoves DEF Storing
<1>4. SecretsOK'
  BY <1>1, <1>2, <1>3 DEF SecretsOK
<1>5. ASSUME Calm' PROVE HolderInv' /\ CopyInv'
  <2>0. Calm
    <3>1. CASE shadowed' = shadowed
      BY <1>1, <1>5, <3>1 DEF Calm
    <3>2. CASE shadowed' = (shadowed \/ ring # NoBundle)
      <4>1. CASE shadowed
        BY <1>5, <3>2, <4>1, Zenon DEF Calm
      <4>2. CASE ~shadowed
        BY <1>1, <1>5, <4>2 DEF Calm
      <4> QED BY <4>1, <4>2
    <3> QED BY <1>1, <3>1, <3>2
  <2>1. /\ Calm /\ HolderInv /\ CopyInv
        /\ ring' \in {command[c].bundle, NoBundle}
    <3>1. ring' = command[c].bundle \/ (ring' = ring /\ ring = NoBundle)
      BY <1>1, <1>5, Zenon DEF Calm
    <3> QED BY <2>0, <3>1 DEF BundleInv
  <2>2. HolderInv'
    BY <1>1, <1>2, <2>1, HolderMoves DEF Storing
  <2>3. \A d \in Command \ {c} : command[d].at \notin Stages
    BY <1>2, <2>1, HolderIsAlone
  <2>4. file = command[c].bundle
    BY <1>1, <2>1 DEF CopyInv
  <2>5. \A d \in Command : command'[d].at \in {"ring", "cache"} => d = c
    BY <1>3, <2>3 DEF Stages
  <2>6. file # NoBundle
    BY <1>2, <2>4, ABundle
  <2>7. CopyInv'
    BY <1>1, <1>3, <2>1, <2>4, <2>5, <2>6 DEF CopyInv, Good, Finds
  <2> QED BY <2>2, <2>7
<1> QED BY <1>4, <1>5 DEF BundleInv

(* With the cache the save is done: all copies have the secret. *)
LEMMA WriteCacheKeeps ==
  ASSUME SecretsOK, BundleInv, NEW c \in Command, WriteCache(c)
  PROVE  SecretsOK' /\ BundleInv'
<1> DEFINE k == command[c]
<1>1. /\ k.at = "cache" /\ cache' = k.bundle /\ command' = [command EXCEPT ![c] = NoCommand]
      /\ saved' = IF Migrates(c) THEN saved ELSE [saved EXCEPT ![k.account] = k.value]
      /\ UNCHANGED <<ring, file, old, lostSaves, raced, shadowed, torn, saves>>
  BY DEF WriteCache, CommandAt
<1>2. /\ Holding(c) /\ k.at \in Storing
      /\ k.bundle \in Copy /\ k.account \in Account /\ k.value \in Nat
  BY <1>1, Stops DEF Holding, Stages, Storing, SecretsOK, CommandRow
<1>3. SecretsOK'
  <2>1. saved' \in Copy
    BY <1>1, <1>2 DEF SecretsOK, Copy
  <2> QED BY <1>1, <1>2, <2>1, CommandEnds DEF SecretsOK
<1>4. ASSUME Calm' PROVE HolderInv' /\ CopyInv'
  <2>1. Calm /\ HolderInv /\ CopyInv
    BY <1>1, <1>4 DEF Calm, BundleInv
  <2>2. HolderInv' /\ \A d \in Command : command'[d].at \notin Stages
    <3>1. /\ command'[c] = NoCommand /\ command'[c].at = "idle"
          /\ \A d \in Command \ {c} : command'[d] = command[d]
      BY <1>1, CommandEnds
    <3>2. \A d \in Command : ~Holding(d)' /\ ~Migrates(d)' /\ command'[d].at \notin Stages
      <4> TAKE d \in Command
      <4>1. CASE d = c
        BY <3>1, <4>1 DEF Holding, Migrates, CommandAt, Stages
      <4>2. CASE d # c
        <5>1. ~Holding(d) /\ ~Migrates(d) /\ command[d].at \notin Stages
          BY <1>2, <2>1, <4>2, HolderIsAlone
        <5> QED BY <3>1, <4>2, <5>1 DEF Holding, Migrates, CommandAt
      <4> QED BY <4>1, <4>2
    <3> QED BY <3>2 DEF HolderInv, CommandAt, Stages, Storing
  <2>3. \A a \in Account : saved'[a] # 0 => k.bundle[a] \in {saved'[a]} \cup lostSaves
    <3> SUFFICES ASSUME NEW a \in Account, saved'[a] # 0
                 PROVE  k.bundle[a] \in {saved'[a]} \cup lostSaves
      OBVIOUS
    <3>1. CASE a # k.account
      <4>1. saved'[a] = saved[a]
        BY <1>1, <3>1
      <4> QED BY <1>2, <2>1, <3>1, <4>1 DEF HolderInv, Finds
    <3>2. CASE a = k.account
      <4>1. ~Migrates(c)
        BY <1>1, <2>1, <3>2 DEF HolderInv
      <4>2. saved'[a] = k.value /\ k.bundle[a] = k.value
        BY <1>1, <1>2, <2>1, <3>2, <4>1 DEF HolderInv, SecretsOK, Copy
      <4> QED BY <4>2
    <3> QED BY <3>1, <3>2
  <2>4. file = k.bundle /\ ring \in {k.bundle, NoBundle} /\ file # NoBundle
    BY <1>1, <1>2, <2>1, ABundle DEF CopyInv
  <2>5. \A d \in Command : command'[d].at \notin {"write", "ring", "cache"}
    BY <2>2 DEF Stages
  <2>6. /\ cache' = k.bundle /\ file' = k.bundle /\ ring' \in {k.bundle, NoBundle} /\ file' # NoBundle
    BY <1>1, <2>4
  <2>7. CopyInv'
    <3>1. /\ cache' # NoBundle => Good(cache)'
          /\ ring' # NoBundle => Good(ring)'
          /\ file' # NoBundle => Good(file)'
      BY <2>3, <2>6, <1>1 DEF Good, Finds
    <3> QED BY <2>5, <2>6, <3>1 DEF CopyInv
  <2> QED BY <2>2, <2>7
<1> QED BY <1>3, <1>4 DEF BundleInv

(* A restart ends every command; a file just emptied is torn. *)
LEMMA RestartKeeps ==
  ASSUME SecretsOK, BundleInv, RestartBackend
  PROVE  SecretsOK' /\ BundleInv'
<1> DEFINE lost == {command[c].value : c \in {d \in Command : command[d].at \in {"ring", "cache"}}}
<1>1. /\ cache' = NoBundle /\ command' = [c \in Command |-> NoCommand] /\ ring' \in {ring, NoBundle}
      /\ lostSaves' = lostSaves \cup lost
      /\ torn' = (torn \/ (file = NoBundle /\ \E a \in Account : saved[a] # 0))
      /\ UNCHANGED <<file, old, saved, raced, shadowed, saves>>
  BY DEF RestartBackend
<1>2. lost \subseteq Nat
  <2> SUFFICES ASSUME NEW c \in Command, command[c].at \in {"ring", "cache"} PROVE command[c].value \in Nat
    OBVIOUS
  <2> QED BY Stops DEF SecretsOK, CommandRow
<1>3. \A c \in Command : command'[c] = NoCommand /\ command'[c].at = "idle"
  BY <1>1, Stops
<1>4. Calm' => HolderInv /\ CopyInv /\ Calm
  BY <1>1 DEF Calm, BundleInv
<1>5. 0 \notin lost
  <2> SUFFICES ASSUME NEW c \in Command, command[c].at \in {"ring", "cache"}, command[c].value = 0 PROVE FALSE
    OBVIOUS
  <2>1. command[c] # NoCommand
    BY Stops
  <2> QED BY <2>1 DEF SecretsOK, IsReadOrSave, Storing
<1>6. SecretsOK'
  BY <1>1, <1>2, <1>3, <1>5 DEF SecretsOK, IsReadOrSave
<1>7. ASSUME Calm' PROVE HolderInv' /\ CopyInv'
  <2>1. Calm /\ HolderInv /\ CopyInv
    BY <1>4, <1>7
  <2>2. HolderInv'
    BY <1>3 DEF HolderInv, Holding, Migrates, CommandAt, Stages, Storing
  <2>3. \A a \in Account : file = NoBundle => saved[a] = 0
    <3> SUFFICES ASSUME NEW a \in Account, file = NoBundle, saved[a] # 0 PROVE FALSE
      OBVIOUS
    <3>1. file = NoBundle /\ \E x \in Account : saved[x] # 0
      OBVIOUS
    <3>2. torn'
      BY <1>1, <3>1, Zenon
    <3> QED BY <1>7, <3>2, Zenon DEF Calm
  <2>4. ring' # NoBundle => Good(ring)'
    <3>1. CASE \A c \in Command : command[c].at # "cache"
      BY <1>1, <2>1, <3>1 DEF CopyInv, Good, Finds
    <3>2. ASSUME NEW c \in Command, command[c].at = "cache", ring' # NoBundle PROVE Good(ring)'
      <4>1. ring = command[c].bundle /\ ring' = ring
        BY <1>1, <2>1, <3>2 DEF CopyInv
      <4>2. command[c].value \in lost
        BY <3>2
      <4>3. /\ command[c].bundle[command[c].account] = command[c].value
            /\ \A a \in Account \ {command[c].account} : Finds(command[c].bundle, a)
        BY <2>1, <3>2 DEF HolderInv, Storing
      <4> HIDE DEF lost
      <4>4. ASSUME NEW a \in Account, saved[a] # 0 PROVE ring'[a] \in {saved[a]} \cup lostSaves'
        <5>1. CASE a = command[c].account
          BY <1>1, <4>1, <4>2, <4>3, <5>1
        <5>2. CASE a # command[c].account
          BY <1>1, <4>1, <4>3, <4>4, <5>2 DEF Finds
        <5> QED BY <5>1, <5>2
      <4>5. saved' = saved
        BY <1>1
      <4> QED BY <4>4, <4>5 DEF Good, Finds
    <3> QED BY <3>1, <3>2
  <2>5. file # NoBundle => Good(file)'
    <3>1. CASE \A c \in Command : command[c].at \notin {"ring", "cache"}
      BY <1>1, <2>1, <3>1 DEF CopyInv, Good, Finds
    <3>2. ASSUME NEW c \in Command, command[c].at \in {"ring", "cache"} PROVE Good(file)'
      <4>1. file = command[c].bundle
        BY <2>1, <3>2 DEF CopyInv
      <4>2. command[c].value \in lost
        BY <3>2
      <4>3. /\ command[c].bundle[command[c].account] = command[c].value
            /\ \A a \in Account \ {command[c].account} : Finds(command[c].bundle, a)
        BY <2>1, <3>2 DEF HolderInv, Storing
      <4> HIDE DEF lost
      <4> QED BY <1>1, <4>1, <4>2, <4>3 DEF Good, Finds
    <3> QED BY <3>1, <3>2
  <2>6. CopyInv'
    BY <1>1, <1>3, <2>3, <2>4, <2>5 DEF CopyInv, Good, Finds
  <2> QED BY <2>2, <2>6
<1> QED BY <1>6, <1>7 DEF BundleInv

(* A command begins with an empty hand. *)
LEMMA CommandBegins ==
  ASSUME SecretsOK, BundleInv, NEW c \in Command, NEW a \in Account, SaveSecret(c, a) \/ ReadSecret(c, a)
  PROVE  SecretsOK' /\ BundleInv'
<1>1. PICK v \in Nat, reads \in BOOLEAN :
        /\ command' = [command EXCEPT ![c] = NewCommand(a, v, reads)]
        /\ v # OldSecret /\ IF reads THEN v = 0 ELSE v # 0
  <2>1. CASE SaveSecret(c, a)
    <3>1. saves + 2 \in Nat /\ saves + 2 # OldSecret /\ saves + 2 # 0
      BY DEF SecretsOK, OldSecret
    <3>2. command' = [command EXCEPT ![c] = NewCommand(a, saves + 2, FALSE)]
      BY <2>1 DEF SaveSecret
    <3> QED BY <3>1, <3>2
  <2>2. CASE ReadSecret(c, a)
    <3>1. command' = [command EXCEPT ![c] = NewCommand(a, 0, TRUE)]
      BY <2>2 DEF ReadSecret
    <3>2. 0 \in Nat /\ 0 # OldSecret
      BY DEF OldSecret
    <3> QED BY <3>1, <3>2
  <2> QED BY <2>1, <2>2
<1>2. /\ saves' \in Nat /\ command[c] = NoCommand
      /\ UNCHANGED <<ring, file, cache, old, saved, lostSaves, raced, shadowed, torn>>
  <2>1. CASE SaveSecret(c, a)
    BY <2>1 DEF SaveSecret, bundleVars, SecretsOK
  <2>2. CASE ReadSecret(c, a)
    BY <2>2 DEF ReadSecret, bundleVars, SecretsOK
  <2> QED BY <2>1, <2>2
<1> DEFINE r == NewCommand(a, v, reads)
<1>3. Empty \in Copy
  BY DEF Empty, Copy
<1>4. r \in CommandRow /\ r.at = "load" /\ r.value = v /\ r.reads = reads
  BY <1>1, <1>3 DEF NewCommand, CommandRow
<1> HIDE DEF r
<1>5. /\ command' \in [Command -> {NoCommand} \cup CommandRow] /\ command'[c] = r
      /\ \A d \in Command \ {c} : command'[d] = command[d]
  BY <1>1, <1>4 DEF SecretsOK, r
<1>6. SecretsOK'
  <2>1. \A d \in Command : IsReadOrSave(command'[d])
    <3> TAKE d \in Command
    <3>1. CASE d = c
      BY <1>1, <1>4, <1>5, <3>1 DEF Storing, IsReadOrSave
    <3>2. CASE d # c
      BY <1>5, <3>2 DEF SecretsOK
    <3> QED BY <3>1, <3>2
  <2> QED BY <1>2, <1>5, <2>1 DEF SecretsOK
<1>7. \A d \in Command : \/ command'[d] = command[d]
                         \/ command'[d].at = "load" /\ ~Holding(d)' /\ ~Migrates(d)'
  <2> TAKE d \in Command
  <2>1. CASE d = c
    BY <1>1, <1>4, <1>5, <2>1 DEF Holding, Migrates, CommandAt, Stages
  <2>2. CASE d # c
    BY <1>5, <2>2
  <2> QED BY <2>1, <2>2
<1>8. \A d \in Command : /\ Holding(d)' => Holding(d) /\ command'[d] = command[d]
                         /\ Migrates(d)' => Migrates(d) /\ command'[d] = command[d]
                         /\ command'[d].at \in Stages => command'[d] = command[d]
  BY <1>7 DEF Holding, Migrates, CommandAt, Stages
<1>9. \A d \in Command : command[d].at \in Stages => command'[d] = command[d]
  BY <1>2, <1>5, Stops DEF Stages
<1>10. HolderInv => HolderInv'
  BY <1>2, <1>8 DEF HolderInv, CommandAt, Stages, Storing, Good, Finds
<1>11. CopyInv => CopyInv'
  <2> SUFFICES ASSUME CopyInv PROVE CopyInv'
    OBVIOUS
  <2>1. \A d \in Command, x \in Stages : command'[d].at = x <=> command[d].at = x
    BY <1>8, <1>9
  <2>2. \A d \in Command : command[d].at \in Stages => command'[d].bundle = command[d].bundle
    BY <1>9
  <2> QED BY <1>2, <2>1, <2>2 DEF CopyInv, Stages, Good, Finds
<1> QED BY <1>2, <1>6, <1>10, <1>11 DEF BundleInv, Calm

(* The inductive invariant of the secrets. *)
THEOREM SecretsInductive == SetSpec => [](SecretsOK /\ BundleInv)
<1>1. SecretsOK /\ BundleInv /\ [SetNext]_setVars => SecretsOK' /\ BundleInv'
  <2> SUFFICES ASSUME SecretsOK, BundleInv, [SetNext]_setVars PROVE SecretsOK' /\ BundleInv'
    OBVIOUS
  <2>1. CASE UNCHANGED setVars
    BY <2>1 DEF setVars, bundleVars, SecretsOK, BundleInv, Calm, HolderInv, CopyInv, Holding, Migrates,
                CommandAt, Good, Finds
  <2>2. CASE SetNext
    BY <2>2, CommandBegins, LoadKeeps, WarmKeeps, TruncateKeeps, WriteFileKeeps, WriteRingKeeps,
       WriteCacheKeeps, RestartKeeps DEF SetNext
  <2> QED BY <2>1, <2>2
<1> QED BY <1>1, SetInitial, PTL DEF SetSpec

(* A saved secret is what settings, boots and workers read, whatever commands,
   restarts and keyrings do, but for the three ways to lose it. *)
THEOREM SecretsStand == SetSpec => []SavedSecretIsRead
<1>1. ASSUME SecretsOK, BundleInv PROVE SavedSecretIsRead
  <2> SUFFICES ASSUME Calm, NEW b \in Readings, NEW a \in Account, saved[a] # 0
               PROVE  b[a] \in {saved[a]} \cup lostSaves
    BY DEF SavedSecretIsRead, Calm
  <2>1. HolderInv /\ CopyInv
    BY <1>1 DEF BundleInv
  <2>2. Good(b)
    <3>1. CASE cache # NoBundle
      BY <2>1, <3>1 DEF CopyInv, Readings
    <3>2. CASE cache = NoBundle
      <4>1. \A c \in Command : command[c].at \notin {"write", "ring", "cache"}
        BY <2>1, <3>2 DEF HolderInv, Storing
      <4>2. PICK up \in BOOLEAN : b = Stored(up)
        BY <3>2 DEF Readings
      <4> QED BY <1>1, <2>1, <4>1, <4>2, StoredIsGood
    <3> QED BY <3>1, <3>2
  <2> QED BY <2>2 DEF Good, Finds
<1> QED BY <1>1, SecretsInductive, PTL

\* The values of secrets, and commands that hold such.
Value == 0..(MaxSaves + 1)
Holder == [at : Stages \cup {"load"}, account : Account, value : Value, reads : BOOLEAN, bundle : Bundle]
SecretTypes == SetTypeOK /\ command \in [Command -> {NoCommand} \cup Holder]

(* A command that goes on to a stage stays one. *)
LEMMA HolderGoes ==
  ASSUME NEW k \in Holder, NEW at \in Stages
  PROVE  [k EXCEPT !.at = at] \in Holder
BY DEF Holder

(* So does one that takes a bundle in hand. *)
Moved(k, at, b) == [k EXCEPT !.at = at, !.bundle = b]
LEMMA HolderTakes ==
  ASSUME NEW k \in Holder, NEW at \in Stages, NEW b \in Bundle
  PROVE  Moved(k, at, b) \in Holder
BY DEF Moved, Holder

(* A bundle with the secret of a command is one. *)
LEMMA BundleTakes ==
  ASSUME NEW k \in Holder, NEW b \in Bundle
  PROVE  [b EXCEPT ![k.account] = k.value] \in Bundle
<1>1. k.account \in Account /\ k.value \in Value
  BY DEF Holder
<1> QED BY <1>1 DEF Bundle, Value

(* What a command does with a bundle keeps the types of commands. *)
LEMMA HasTypes ==
  ASSUME SecretTypes, NEW c \in Command, command[c] \in Holder, NEW b \in Bundle, Has(c, b)
  PROVE  command' \in [Command -> {NoCommand} \cup Holder]
<1> DEFINE k == command[c]
<1>1. CASE ~ k.reads
  <2> DEFINE n == [b EXCEPT ![k.account] = k.value]
  <2>1. n \in Bundle
    BY BundleTakes
  <2>2. Moved(k, "truncate", n) \in Holder
    <3> HIDE DEF n
    <3>1. "truncate" \in Stages
      BY DEF Stages
    <3>2. PICK h \in Holder, o \in Bundle : h = k /\ o = n
      BY <2>1
    <3>3. Moved(h, "truncate", o) \in Holder
      BY <3>1, <3>2, HolderTakes
    <3> QED BY <3>2, <3>3
  <2> QED BY <1>1, <2>2 DEF Has, SecretTypes, Moved
<1>2. CASE k.reads
  <2>1. NewCommand(k.account, old[k.account], FALSE) \in Holder
    <3>1. Empty \in Bundle
      BY SettingsAssumption DEF Empty, Bundle
    <3>2. k.account \in Account /\ old[k.account] \in Value
      BY DEF Holder, SecretTypes, SetTypeOK, Bundle, Value
    <3> QED BY <3>1, <3>2 DEF NewCommand, Holder
  <2> QED BY <1>2, <2>1 DEF Has, SecretTypes
<1> QED BY <1>1, <1>2

(* A command that is not idle holds a row of its own. *)
LEMMA AtWork ==
  ASSUME SecretTypes, NEW c \in Command, command[c].at # "idle"
  PROVE  command[c] \in Holder
BY DEF SecretTypes, NoCommand

(* Each step keeps bundles and commands within their types. *)
LEMMA SecretTypesKept == SecretTypes /\ [SetNext]_setVars => SecretTypes'
<1> SUFFICES ASSUME SecretTypes, [SetNext]_setVars PROVE SecretTypes'
  OBVIOUS
<1> DEFINE Commands == [Command -> {NoCommand} \cup Holder]
<1>0. /\ command \in Commands
      /\ \A c \in Command : command[c] \in {NoCommand} \cup Holder
      /\ Empty \in Bundle
  BY SettingsAssumption DEF SecretTypes, Empty, Bundle
<1>1. command \in Commands =>
        \A c \in Command : \/ command[c] = NoCommand
                           \/ command[c] \in [at : Stages \cup {"load"}, account : Account,
                                              value : 0..(MaxSaves + 1), reads : BOOLEAN, bundle : Bundle]
  BY DEF Holder, Value
<1>2. ASSUME command' \in Commands, UNCHANGED bundleVars,
             saves' \in 0..MaxSaves, starts' \in 1..MaxStarts
      PROVE  SecretTypes'
  BY <1>2 DEF SecretTypes, SetTypeOK, bundleVars, Holder, Value
<1>3. \A up \in BOOLEAN : Stored(up) \in Bundle
  BY <1>0 DEF Stored, SecretTypes, SetTypeOK
<1>4. ASSUME NEW c \in Command, NEW a \in Account, SaveSecret(c, a) \/ ReadSecret(c, a) PROVE SecretTypes'
  <2>1. \A v \in Value, r \in BOOLEAN : NewCommand(a, v, r) \in Holder
    BY <1>0 DEF NewCommand, Holder
  <2>2. saves \in 0..MaxSaves /\ (saves < MaxSaves => saves + 2 \in Value) /\ 0 \in Value /\ starts \in 1..MaxStarts
    BY SettingsAssumption DEF SecretTypes, SetTypeOK, Value
  <2>3. CASE SaveSecret(c, a)
    <3>1. saves < MaxSaves /\ saves' = saves + 1 /\ NewCommand(a, saves + 2, FALSE) \in Holder
      BY <2>1, <2>2, <2>3 DEF SaveSecret
    <3>2. command' \in Commands
      BY <1>0, <2>3, <3>1 DEF SaveSecret
    <3>3. saves' \in 0..MaxSaves
      BY <2>2, <3>1, SettingsAssumption
    <3> QED BY <1>2, <2>2, <2>3, <3>2, <3>3 DEF SaveSecret
  <2>4. CASE ReadSecret(c, a)
    <3>1. NewCommand(a, 0, TRUE) \in Holder
      BY <2>1, <2>2
    <3>2. command' \in Commands
      BY <1>0, <2>4, <3>1 DEF ReadSecret
    <3> QED BY <1>2, <2>2, <2>4, <3>2 DEF ReadSecret
  <2> QED BY <1>4, <2>3, <2>4
<1>5. ASSUME NEW c \in Command, LoadBundle(c) PROVE SecretTypes'
  <2>1. command[c] \in Holder
    BY <1>5, AtWork DEF LoadBundle, CommandAt
  <2>2. command' \in Commands
    <3>1. CASE cache # NoBundle
      <4>1. cache \in Bundle
        BY <3>1 DEF SecretTypes, SetTypeOK
      <4> QED BY <1>5, <2>1, <3>1, <4>1, HasTypes DEF LoadBundle
    <3>2. CASE cache = NoBundle
      <4>1. PICK up \in BOOLEAN : Holds(c, "warm", Stored(up))
        BY <1>5, <3>2 DEF LoadBundle
      <4>2. Moved(command[c], "warm", Stored(up)) \in Holder
        <5>1. PICK k \in Holder, b \in Bundle : k = command[c] /\ b = Stored(up)
          BY <1>3, <2>1
        <5>2. "warm" \in Stages
          BY DEF Stages
        <5>3. Moved(k, "warm", b) \in Holder
          BY <5>1, <5>2, HolderTakes
        <5> QED BY <5>1, <5>3
      <4>3. command' = [command EXCEPT ![c] = Moved(command[c], "warm", Stored(up))]
        BY <1>0, <4>1 DEF Holds, Moved
      <4> QED BY <1>0, <4>2, <4>3
    <3> QED BY <3>1, <3>2
  <2>3. raced' \in BOOLEAN
    BY <1>5 DEF LoadBundle
  <2> QED BY <1>5, <2>2, <2>3 DEF LoadBundle, SecretTypes, SetTypeOK, Holder, Value
<1>6. ASSUME NEW c \in Command, WarmCache(c) PROVE SecretTypes'
  <2>1. command[c] \in Holder
    BY <1>6, AtWork DEF WarmCache, CommandAt
  <2>2. command[c].bundle \in Bundle
    BY <2>1 DEF Holder
  <2>3. command' \in Commands
    BY <1>6, <2>1, <2>2, HasTypes DEF WarmCache
  <2> QED BY <1>6, <2>2, <2>3 DEF WarmCache, SecretTypes, SetTypeOK, Holder, Value
<1>7. ASSUME NEW c \in Command, NEW at \in Stages, command[c] \in Holder, CommandGoes(c, at)
      PROVE  command' \in Commands
  <2>1. [command[c] EXCEPT !.at = at] \in Holder
    BY <1>7, HolderGoes
  <2>2. command' = [command EXCEPT ![c] = [command[c] EXCEPT !.at = at]]
    BY <1>7 DEF CommandGoes
  <2> QED BY <1>0, <2>1, <2>2
<1>8. ASSUME NEW c \in Command, Truncate(c) PROVE SecretTypes'
  <2>1. command[c] \in Holder
    BY <1>8, AtWork DEF Truncate, CommandAt
  <2>2. command' \in Commands
    <3>1. CASE CommandGoes(c, "write")
      BY <1>7, <2>1, <3>1 DEF Stages
    <3>2. CASE command' = [command EXCEPT ![c] = NoCommand]
      BY <1>0, <3>2
    <3> QED BY <1>8, <3>1, <3>2 DEF Truncate
  <2> QED BY <1>8, <2>2 DEF Truncate, SecretTypes, SetTypeOK, Holder, Value
<1>9. ASSUME NEW c \in Command, WriteFile(c) PROVE SecretTypes'
  <2>1. command[c] \in Holder
    BY <1>9, AtWork DEF WriteFile, CommandAt
  <2>2. command' \in Commands
    BY <1>7, <1>9, <2>1 DEF WriteFile, Stages
  <2>3. file' \in Bundle
    BY <1>9, <2>1 DEF WriteFile, FileKeeps, Holder
  <2> QED BY <1>9, <2>2, <2>3 DEF WriteFile, SecretTypes, SetTypeOK, Holder, Value
<1>10. ASSUME NEW c \in Command, WriteRing(c) PROVE SecretTypes'
  <2>1. command[c] \in Holder
    BY <1>10, AtWork DEF WriteRing, CommandAt
  <2>2. command' \in Commands
    BY <1>7, <1>10, <2>1 DEF WriteRing, Stages
  <2>3. ring' \in Bundle \cup {NoBundle} /\ shadowed' \in BOOLEAN
    BY <1>10, <2>1 DEF WriteRing, Holder, SecretTypes, SetTypeOK
  <2> QED BY <1>10, <2>2, <2>3 DEF WriteRing, SecretTypes, SetTypeOK, Holder, Value
<1>11. ASSUME NEW c \in Command, WriteCache(c) PROVE SecretTypes'
  <2>1. command[c] \in Holder
    BY <1>11, AtWork DEF WriteCache, CommandAt
  <2>2. command' \in Commands
    BY <1>0, <1>11 DEF WriteCache
  <2>3. cache' \in Bundle
    BY <1>11, <2>1 DEF WriteCache, Holder
  <2>4. saved' \in Bundle
    <3>1. command[c].value \in Value /\ command[c].account \in Account /\ saved \in Bundle
      BY <2>1 DEF Holder, SecretTypes, SetTypeOK
    <3>2. [saved EXCEPT ![command[c].account] = command[c].value] \in Bundle
      BY <3>1 DEF Bundle, Value
    <3> QED BY <1>11, <3>1, <3>2 DEF WriteCache
  <2> QED BY <1>11, <2>2, <2>3, <2>4 DEF WriteCache, SecretTypes, SetTypeOK, Holder, Value
<1>12. CASE RestartBackend
  <2>1. command' \in Commands
    BY <1>12 DEF RestartBackend
  <2>2. lostSaves' \subseteq Value
    <3>1. \A c \in Command : command[c].at \in {"ring", "cache"} => command[c].value \in Value
      BY AtWork DEF Holder
    <3> QED BY <1>12, <3>1 DEF RestartBackend, SecretTypes, SetTypeOK, Value
  <2>3. starts' \in 1..MaxStarts
    BY <1>12, SettingsAssumption DEF RestartBackend, SecretTypes, SetTypeOK
  <2>4. torn' \in BOOLEAN
    BY <1>12 DEF RestartBackend
  <2> QED BY <1>12, <2>1, <2>2, <2>3, <2>4 DEF RestartBackend, SecretTypes, SetTypeOK, Holder, Value
<1>13. CASE UNCHANGED setVars
  BY <1>0, <1>2, <1>13 DEF setVars, SecretTypes, SetTypeOK
<1> QED BY <1>4, <1>5, <1>6, <1>8, <1>9, <1>10, <1>11, <1>12, <1>13 DEF SetNext

(* Type correctness of the secrets: copies, commands and what was saved. *)
THEOREM SecretTypesHold == SetSpec => []SetTypeOK
<1>1. SetInit => SecretTypes
  <2> SUFFICES ASSUME SetInit PROVE SecretTypes
    OBVIOUS
  <2>1. Empty \in Bundle /\ OldSecret \in 0..(MaxSaves + 1)
    <3>1. 0 \in 0..(MaxSaves + 1) /\ 1 \in 0..(MaxSaves + 1)
      BY SettingsAssumption
    <3> QED BY <3>1 DEF Empty, Bundle, OldSecret
  <2>2. old \in Bundle
    <3>1. PICK a \in Account : old = [Empty EXCEPT ![a] = OldSecret]
      BY DEF SetInit
    <3> QED BY <2>1, <3>1 DEF Bundle
  <2>3. command \in [Command -> {NoCommand} \cup Holder]
    BY DEF SetInit
  <2>4. saves \in 0..MaxSaves /\ starts \in 1..MaxStarts
    BY SettingsAssumption DEF SetInit
  <2>5. SetTypeOK
    BY <2>1, <2>2, <2>4 DEF SetInit, SetTypeOK
  <2> QED BY <2>3, <2>5 DEF SecretTypes
<1>2. SecretTypes => SetTypeOK
  BY DEF SecretTypes
<1> QED BY <1>1, <1>2, SecretTypesKept, PTL DEF SetSpec
=============================================================================
