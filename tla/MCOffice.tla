------------------------------- MODULE MCOffice -------------------------------
(***************************************************************************)
(* An instance for TLC of the parts of the system that share no state with *)
(* one another or with the queue.  A behaviour is a behaviour of one part, *)
(* chosen at the start, while the others stay as they begin: as no action  *)
(* of a part reads a variable of another, what holds of each part by       *)
(* itself is what holds of all of them side by side.                       *)
(***************************************************************************)
EXTENDS RecurringRuns, ScheduleTime, WorkerRun, OrgChart, Catalog,
        SecretBundle, KernelBoot, Seeding, ExternalChat, WorkflowLaunch, CommandIds

VARIABLE part

MCSchedule ==
  [cadence : {"hourly"}, interval : {0, 2}, hour : {Unset}, minute : {Unset, 30},
   daysOfWeek : {{}}, dayOfMonth : {Unset}] \cup
  [cadence : {"daily"}, interval : {1, 2}, hour : {Unset, 99}, minute : {30},
   daysOfWeek : {{}}, dayOfMonth : {Unset}] \cup
  [cadence : {"weekly"}, interval : {1, 2}, hour : {9}, minute : {0},
   daysOfWeek : {{}, {0, 9}}, dayOfMonth : {Unset}] \cup
  [cadence : {"monthly"}, interval : {1, 2}, hour : {9}, minute : {0},
   daysOfWeek : {{}}, dayOfMonth : {Unset, 0, 29, 31}]
MCStartDay == (19386 .. 19390) \cup (19414 .. 19420) \cup (19750 .. 19754) \cup (19780 .. 19784)
MCStartTime == {0, 539, 540, 541, 569, 570, 1439}

MCRequest == [kind : {"outbox_artifact", "dispatch_swo", "innovation_swo"}, fits : {TRUE}]

MCSeed == 0 :> [name |-> "Perry", parent |-> NoParent, role |-> "chief"]

MCTeam == [p1 |-> <<[name |-> "Cat", manager |-> "Perry"], [name |-> "Perry", manager |-> ""]>>,
           p2 |-> <<[name |-> "Perry", manager |-> ""], [name |-> "Dan", manager |-> "Eve"]>>]
MCStarters == [p1 |-> <<"Cat">>, p2 |-> <<>>]
MCPlans == [p1 |-> <<"Cat", "Eve">>, p2 |-> <<>>]

MCUpdate == {[sender |-> "ann", message |-> 1], [sender |-> "bob", message |-> 2],
             [sender |-> "ann", message |-> NoMessage]}

MCWorkflow == <<[assignee |-> "REPORTS", ids |-> <<>>, when |-> "team"],
                [assignee |-> "CURRENT", ids |-> <<>>, when |-> "enterprise"],
                [assignee |-> "AGENT_IDS", ids |-> <<"eve">>, when |-> "enterprise"],
                [assignee |-> "REQUESTED", ids |-> <<>>, when |-> "asked"]>>
MCContext == {[requested |-> "dan", reports |-> <<"cat">>, holds |-> {"team", "asked"}],
              [requested |-> Unasked, reports |-> <<>>, holds |-> {"enterprise"}],
              [requested |-> "cat", reports |-> <<>>, holds |-> {"team"}]}

officeVars == <<recVars, schedVars, workerVars, orgVars, catalogVars, setVars, bootVars,
                seedVars, chatVars, workflowVars, commandVars, part>>

Part == {"recurring", "schedule", "worker", "org", "catalog", "bundle", "boot",
         "seed", "chat", "workflow", "command"}

(* A part that is not chosen has one beginning. *)
Only(p, beginning) == part = p \/ beginning

OfficeInit ==
  /\ part \in Part
  /\ RecurringInit /\ WorkerInit /\ OrgInit /\ WorkflowInit /\ CommandInit
  /\ CatalogInit /\ Only("catalog", caps = {} /\ enforced)
  /\ SetInit /\ Only("bundle", old["openai"] = OldSecret)
  /\ BootInit /\ Only("boot", ~config.plainKey /\ ~config.plainToken /\ ~database)
  /\ SeedInit /\ Only("seed", seedFile = "p1")
  /\ ChatInit /\ Only("chat", tokenHolder = "perry" /\ binding["perry"].allowed = "ann")
  /\ SchedInit /\ Only("schedule", sched.cadence = "daily" /\ sched.interval = 2
                                    /\ sched.hour = Unset /\ instant = 19386 * Day)

OfficeNext ==
  \/ /\ part = "recurring" /\ RecurringNext
     /\ UNCHANGED <<schedVars, workerVars, orgVars, catalogVars, setVars,
                    bootVars, seedVars, chatVars, workflowVars, commandVars, part>>
  \/ /\ part = "schedule" /\ SchedNext
     /\ UNCHANGED <<recVars, workerVars, orgVars, catalogVars, setVars,
                    bootVars, seedVars, chatVars, workflowVars, commandVars, part>>
  \/ /\ part = "worker" /\ WorkerNext
     /\ UNCHANGED <<recVars, schedVars, orgVars, catalogVars, setVars,
                    bootVars, seedVars, chatVars, workflowVars, commandVars, part>>
  \/ /\ part = "org" /\ OrgNext
     /\ UNCHANGED <<recVars, schedVars, workerVars, catalogVars, setVars,
                    bootVars, seedVars, chatVars, workflowVars, commandVars, part>>
  \/ /\ part = "catalog" /\ CatalogNext
     /\ UNCHANGED <<recVars, schedVars, workerVars, orgVars, setVars,
                    bootVars, seedVars, chatVars, workflowVars, commandVars, part>>
  \/ /\ part = "bundle" /\ SetNext
     /\ UNCHANGED <<recVars, schedVars, workerVars, orgVars, catalogVars,
                    bootVars, seedVars, chatVars, workflowVars, commandVars, part>>
  \/ /\ part = "boot" /\ BootNext
     /\ UNCHANGED <<recVars, schedVars, workerVars, orgVars, catalogVars,
                    setVars, seedVars, chatVars, workflowVars, commandVars, part>>
  \/ /\ part = "seed" /\ SeedNext
     /\ UNCHANGED <<recVars, schedVars, workerVars, orgVars, catalogVars,
                    setVars, bootVars, chatVars, workflowVars, commandVars, part>>
  \/ /\ part = "chat" /\ ChatNext
     /\ UNCHANGED <<recVars, schedVars, workerVars, orgVars, catalogVars,
                    setVars, bootVars, seedVars, workflowVars, commandVars, part>>
  \/ /\ part = "workflow" /\ WorkflowNext
     /\ UNCHANGED <<recVars, schedVars, workerVars, orgVars, catalogVars,
                    setVars, bootVars, seedVars, chatVars, commandVars, part>>
  \/ /\ part = "command" /\ CommandNext
     /\ UNCHANGED <<recVars, schedVars, workerVars, orgVars, catalogVars,
                    setVars, bootVars, seedVars, chatVars, workflowVars, part>>

(* The recurring runs are the part whose promise needs fairness; a behaviour of
   another part in which its clock stands still is no fair one, and the promise is
   vacuous there anyway. *)
OfficeSpec == OfficeInit /\ [][OfficeNext]_officeVars /\ RecurringFairness

(* Types of the variables of the part that runs. *)
OfficeTypeOK ==
  /\ part \in Part
  /\ CASE part = "recurring" -> RecurringTypeOK
       [] part = "schedule" -> sched \in Schedule /\ instant \in Nat
       [] part = "worker" -> WorkerTypeOK
       [] part = "org" -> OrgTypeOK
       [] part = "catalog" -> CatalogTypeOK
       [] part = "bundle" -> SetTypeOK
       [] part = "boot" -> BootTypeOK
       [] part = "seed" -> SeedTypeOK
       [] part = "chat" -> ChatTypeOK
       [] part = "workflow" -> WorkflowTypeOK
       [] part = "command" -> CommandTypeOK
=============================================================================
