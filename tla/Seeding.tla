------------------------------- MODULE Seeding -------------------------------
(***************************************************************************)
(* Seeding of the runtime at a boot and by the reset tool: archive, reset  *)
(* and seed (kernel.rs), every statement committed by itself, with a stop  *)
(* possible between any two.  The next boot decides by the number of       *)
(* agents and the profile id in the metadata what is left to do.           *)
(*                                                                         *)
(* Rows of active_swos and rwo_templates are numbered; `of` says which     *)
(* entry of which seed a row comes from.                                   *)
(***************************************************************************)
EXTENDS Integers, Sequences, FiniteSets

CONSTANTS
  Profile,    \* profile ids of the seed files
  Team,       \* [Profile -> Seq([name, manager])], "" for no manager
  Starters,   \* [Profile -> Seq(name)]: assignees of the starter SWOs
  Plans,      \* [Profile -> Seq(name)]: assignees of the recurring templates
  MaxRows,    \* bound: work added up to this row
  MaxSeedings \* bound: starts of the desktop or the tool

NoProfile == "none"   \* no profile_id in runtime_metadata

ASSUME SeedingAssumption ==
  /\ NoProfile \notin Profile
  /\ \A p \in Profile : /\ Len(Team[p]) \in Nat \ {0} /\ Len(Starters[p]) \in Nat /\ Len(Plans[p]) \in Nat
                         /\ "" \notin {Team[p][n].name : n \in 1..Len(Team[p])}
  /\ MaxRows \in Nat /\ MaxSeedings \in Nat

VARIABLES
  seedFile,   \* the profile of the seed file on disk
  staff,      \* names in the agents table
  seedRows,       \* rows of active_swos and rwo_templates
  nextRow,
  profileId,  \* runtime_metadata: profile_id, or NoProfile
  seeder,     \* where the procedure is, its loop variable, and created_agents
  seedings,
  kept,       \* rows in archives with a manifest
  halfway     \* history: a stop between the first and the last deletion of a reset

seedVars == <<seedFile, staff, seedRows, nextRow, profileId, seeder, seedings, kept, halfway>>

Down == [step |-> "down", n |-> 1, grew |-> FALSE, created |-> {}, copy |-> {}, tool |-> FALSE]
Doing(s) == seeder.step = s
Does(s) == seeder' = [seeder EXCEPT !.step = s, !.n = 1, !.grew = FALSE]

SeedInit ==
  /\ seedFile \in Profile
  /\ staff = {} /\ seedRows = {} /\ nextRow = 1 /\ profileId = NoProfile
  /\ seeder = Down /\ seedings = 0 /\ kept = {} /\ halfway = FALSE

-----------------------------------------------------------------------------
(* ensure_runtime_seeded of a boot; the tool archives and resets at once. *)
Seeded == profileId = seedFile
StartSeeding(tool) ==
  /\ Doing("down") /\ seedings < MaxSeedings /\ seedings' = seedings + 1
  /\ seeder' = [Down EXCEPT !.tool = tool,
                  !.step = IF ~tool /\ staff = {} THEN "agents"
                           ELSE IF tool \/ ~Seeded THEN "archive"
                           ELSE IF "Perry" \in staff THEN "up" ELSE "down"]
  /\ UNCHANGED <<seedFile, staff, seedRows, nextRow, profileId, kept, halfway>>

(* archive_runtime_snapshot: the copies, and a manifest when all are made. *)
CopySnapshot ==
  /\ Doing("archive") /\ seeder' = [seeder EXCEPT !.step = "manifest", !.copy = seedRows]
  /\ UNCHANGED <<seedFile, staff, seedRows, nextRow, profileId, seedings, kept, halfway>>
MutKeeps == {}
Keeps == seeder.copy
WriteManifest ==
  /\ Doing("manifest") /\ Does("clear swos")
  /\ kept' = kept \cup Keeps
  /\ UNCHANGED <<seedFile, staff, seedRows, nextRow, profileId, seedings, halfway>>

(* clear_runtime_state: agents take the templates they own along; metadata last. *)
ClearSwos ==
  /\ Doing("clear swos") /\ Does("clear agents")
  /\ seedRows' = {r \in seedRows : r.kind = "template"}
  /\ UNCHANGED <<seedFile, staff, nextRow, profileId, seedings, kept, halfway>>
ClearAgents ==
  /\ Doing("clear agents") /\ Does("clear metadata")
  /\ staff' = {} /\ seedRows' = {}
  /\ UNCHANGED <<seedFile, nextRow, profileId, seedings, kept, halfway>>
ClearMetadata ==
  /\ Doing("clear metadata") /\ Does("agents")
  /\ profileId' = NoProfile
  /\ UNCHANGED <<seedFile, staff, seedRows, nextRow, seedings, kept, halfway>>

-----------------------------------------------------------------------------
(* seed_runtime_from_spec hires in rounds, each agent once its manager is. *)
HireSeeded ==
  /\ Doing("agents") /\ seeder.n <= Len(Team[seedFile])
  /\ LET a == Team[seedFile][seeder.n]
         ready == a.name \notin seeder.created /\ a.manager \in seeder.created \cup {""}
     IN /\ seeder' = [seeder EXCEPT !.n = @ + 1, !.grew = @ \/ ready,
                                    !.created = @ \cup {b \in {a.name} : ready}]
        /\ staff' = staff \cup {b \in {a.name} : ready}
  /\ UNCHANGED <<seedFile, seedRows, nextRow, profileId, seedings, kept, halfway>>

Stuck == ~seeder.grew
MutEveryone == Stuck   \* a round that hires nobody ends the hiring
Everyone == Cardinality(seeder.created) = Len(Team[seedFile])
EndRound ==
  /\ Doing("agents") /\ seeder.n > Len(Team[seedFile])
  /\ IF Everyone THEN Does("starters")
     ELSE IF Stuck THEN seeder' = Down ELSE Does("agents")
  /\ UNCHANGED <<seedFile, staff, seedRows, nextRow, profileId, seedings, kept, halfway>>

InsertSeeded(kind, n) ==
  /\ seedRows' = seedRows \cup {[id |-> nextRow, kind |-> kind, of |-> <<seedFile, n>>]}
  /\ nextRow' = nextRow + 1

SeedStarter ==
  /\ Doing("starters")
  /\ IF seeder.n > Len(Starters[seedFile]) THEN Does("plans") /\ UNCHANGED <<seedRows, nextRow>>
     ELSE IF Starters[seedFile][seeder.n] \in seeder.created
     THEN /\ InsertSeeded("swo", seeder.n)
          /\ seeder' = [seeder EXCEPT !.n = @ + 1]
     ELSE seeder' = Down /\ UNCHANGED <<seedRows, nextRow>>
  /\ UNCHANGED <<seedFile, staff, profileId, seedings, kept, halfway>>

(* An unknown assignee and an error are passed over. *)
SeedTemplate ==
  /\ Doing("plans")
  /\ IF seeder.n > Len(Plans[seedFile]) THEN Does("metadata") /\ UNCHANGED <<seedRows, nextRow>>
     ELSE /\ seeder' = [seeder EXCEPT !.n = @ + 1]
          /\ \/ /\ Plans[seedFile][seeder.n] \in seeder.created
                /\ InsertSeeded("template", seeder.n)
             \/ UNCHANGED <<seedRows, nextRow>>
  /\ UNCHANGED <<seedFile, staff, profileId, seedings, kept, halfway>>

WriteMetadata ==
  /\ Doing("metadata") /\ Does("repair")
  /\ profileId' = seedFile
  /\ UNCHANGED <<seedFile, staff, seedRows, nextRow, seedings, kept, halfway>>

(* repair_runtime_state, then Perry's id. *)
EndSeeding ==
  /\ Doing("repair")
  /\ seeder' = IF "Perry" \in seeder.created /\ ~seeder.tool
               THEN [seeder EXCEPT !.step = "up"] ELSE Down
  /\ UNCHANGED <<seedFile, staff, seedRows, nextRow, profileId, seedings, kept, halfway>>

SeedStep == CopySnapshot \/ WriteManifest \/ ClearSwos \/ ClearAgents \/ ClearMetadata
            \/ HireSeeded \/ EndRound \/ SeedStarter \/ SeedTemplate \/ WriteMetadata \/ EndSeeding

(* An error, a crash or the end of the program. *)
StopSeeding ==
  /\ ~Doing("down") /\ seeder' = Down
  /\ halfway' = (halfway \/ seeder.step \in {"clear agents", "clear metadata"})
  /\ UNCHANGED <<seedFile, staff, seedRows, nextRow, profileId, seedings, kept>>

(* While the desktop is up work is added; while it is down, the seed file may be
   replaced. *)
AddWork ==
  /\ Doing("up") /\ nextRow <= MaxRows
  /\ seedRows' = seedRows \cup {[id |-> nextRow, kind |-> "swo", of |-> <<>>]} /\ nextRow' = nextRow + 1
  /\ UNCHANGED <<seedFile, staff, profileId, seeder, seedings, kept, halfway>>
ReplaceSeed ==
  /\ Doing("down") /\ seedFile' \in Profile
  /\ UNCHANGED <<staff, seedRows, nextRow, profileId, seeder, seedings, kept, halfway>>

SeedNext ==
  \/ \E tool \in BOOLEAN : StartSeeding(tool)
  \/ SeedStep \/ StopSeeding \/ AddWork \/ ReplaceSeed

SeedSpec == SeedInit /\ [][SeedNext]_seedVars

-----------------------------------------------------------------------------
SeedKind == {"swo", "template"}
Steps == {"down", "up", "archive", "manifest", "clear swos", "clear agents", "clear metadata",
          "agents", "starters", "plans", "metadata", "repair"}
Names == UNION {{Team[p][n].name : n \in 1..Len(Team[p])} : p \in Profile}

(* Types of the variables. *)
SeedTypeOK ==
  /\ seedFile \in Profile /\ profileId \in Profile \cup {NoProfile}
  /\ staff \subseteq Names /\ seeder.created \subseteq Names
  /\ \A r \in seedRows \cup kept \cup seeder.copy : r.id \in 1..(nextRow - 1) /\ r.kind \in SeedKind
  /\ nextRow \in Nat \ {0} /\ seedings \in 0..MaxSeedings
  /\ seeder.step \in Steps /\ seeder.n \in Nat /\ {seeder.grew, seeder.tool, halfway} \subseteq BOOLEAN

SwosOf(p, n) == {r \in seedRows : r.kind = "swo" /\ r.of = <<p, n>>}
TemplatesOf(p, n) == {r \in seedRows : r.kind = "template" /\ r.of = <<p, n>>}

(* Wherever earlier boots stopped, a desktop that came up has the whole seed of
   its file and has it once: all agents, one SWO per starter and no template
   twice.  (Only a stop among the deletions of a reset leaves a profile id, deleted
   last, that vouches for what is gone or for a later, interrupted seeding.) *)
UpMeansSeeded ==
  Doing("up") /\ ~halfway =>
    /\ \A n \in 1..Len(Team[seedFile]) : Team[seedFile][n].name \in staff
    /\ \A n \in 1..Len(Starters[seedFile]) : Cardinality(SwosOf(seedFile, n)) = 1
    /\ \A n \in 1..Len(Plans[seedFile]) : Cardinality(TemplatesOf(seedFile, n)) <= 1

(* A reset deletes nothing that is not in an archive with a manifest, also when
   it stops half way and another boot goes on. *)
NothingLostUnarchived ==
  \A id \in 1..(nextRow - 1) : \E r \in seedRows \cup kept : r.id = id
=============================================================================
