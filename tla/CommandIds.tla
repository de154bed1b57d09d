------------------------------ MODULE CommandIds ------------------------------
(***************************************************************************)
(* runtime_command of the desktop backend: a command's id enters an LRU    *)
(* cache before the command runs, so that a repetition is rejected; the    *)
(* one kind that does something, project.create, writes a project with its *)
(* first status update in one transaction, reads it back and announces it. *)
(***************************************************************************)
EXTENDS Integers, Sequences, FiniteSets, SequencesExt

CONSTANTS
  CommandId,    \* ids of commands
  Invocation,   \* calls that may be under way
  Remembered,   \* capacity of processed_command_ids (10,000)
  MaxInvokes,   \* bound: calls made
  MaxExits      \* bound: restarts of the backend

ASSUME CommandAssumption ==
  Remembered \in Nat \ {0} /\ MaxInvokes \in Nat /\ MaxExits \in Nat

VARIABLES
  processed,    \* processed_command_ids, the least recently used first
  invocation,   \* where each call is
  projects,     \* ids whose project was created, in that order
  announced,    \* and those announced by project.upserted
  invokes, exits,
  forgotten,    \* history: ids dropped from the cache, by room or by restart
  unanswered    \* history: ids whose project was made and whose call then failed

commandVars == <<processed, invocation, projects, announced, invokes, exits, forgotten, unanswered>>

NoInvocation == [at |-> "none"]

CommandInit ==
  /\ processed = <<>> /\ invocation = [i \in Invocation |-> NoInvocation]
  /\ projects = <<>> /\ announced = <<>>
  /\ invokes = 0 /\ exits = 0 /\ forgotten = {} /\ unanswered = {}

(* Mutants: the cache has no capacity; a full cache takes nothing in. *)
MutPutAll(id) == Append(processed, id)
MutPut(id) == IF Len(processed) = Remembered THEN processed ELSE Append(processed, id)
(* LruCache::put of an id that is not in the cache. *)
Put(id) ==
  IF Len(processed) = Remembered THEN Append(Tail(processed), id) ELSE Append(processed, id)

(* The check and the entry are under one lock.  A duplicate is rejected. *)
Invoke(i, id) ==
  /\ invocation[i] = NoInvocation /\ invokes < MaxInvokes /\ invokes' = invokes + 1
  /\ IF id \in ToSet(processed) THEN UNCHANGED <<processed, invocation, forgotten>>
     ELSE /\ processed' = Put(id)
          /\ forgotten' = forgotten \cup (ToSet(processed) \ ToSet(processed'))
          /\ invocation' = [invocation EXCEPT ![i] = [at |-> "create", id |-> id]]
  /\ UNCHANGED <<projects, announced, exits, unanswered>>

(* create_project: a missing name, another kind of command or the database end
   the call with an error; the id stays in the cache. *)
CreateProject(i) ==
  /\ invocation[i].at = "create"
  /\ \/ /\ projects' = Append(projects, invocation[i].id)
        /\ invocation' = [invocation EXCEPT ![i].at = "reload"]
     \/ invocation' = [invocation EXCEPT ![i] = NoInvocation] /\ UNCHANGED projects
  /\ UNCHANGED <<processed, announced, invokes, exits, forgotten, unanswered>>

ReloadProject(i) ==
  /\ invocation[i].at = "reload"
  /\ \/ invocation' = [invocation EXCEPT ![i].at = "announce"] /\ UNCHANGED unanswered
     \/ /\ invocation' = [invocation EXCEPT ![i] = NoInvocation]
        /\ unanswered' = unanswered \cup {invocation[i].id}
  /\ UNCHANGED <<processed, projects, announced, invokes, exits, forgotten>>

Announce(i) ==
  /\ invocation[i].at = "announce"
  /\ announced' = Append(announced, invocation[i].id)
  /\ invocation' = [invocation EXCEPT ![i] = NoInvocation]
  /\ UNCHANGED <<processed, projects, invokes, exits, forgotten, unanswered>>

(* The cache is not kept over a restart. *)
ExitBackend ==
  /\ exits < MaxExits /\ exits' = exits + 1
  /\ unanswered' = unanswered \cup
       {invocation[i].id : i \in {j \in Invocation : invocation[j].at \in {"reload", "announce"}}}
  /\ forgotten' = forgotten \cup ToSet(processed)
  /\ processed' = <<>> /\ invocation' = [i \in Invocation |-> NoInvocation]
  /\ UNCHANGED <<projects, announced, invokes>>

CommandNext ==
  \/ \E i \in Invocation : \/ \E id \in CommandId : Invoke(i, id)
                          \/ CreateProject(i) \/ ReloadProject(i) \/ Announce(i)
  \/ ExitBackend

CommandSpec == CommandInit /\ [][CommandNext]_commandVars

-----------------------------------------------------------------------------
(* Types of the variables. *)
CommandTypeOK ==
  /\ processed \in Seq(CommandId) /\ Len(processed) <= Remembered
  /\ \A i \in Invocation :
       \/ invocation[i] = NoInvocation
       \/ invocation[i].at \in {"create", "reload", "announce"} /\ invocation[i].id \in CommandId
  /\ {projects, announced} \subseteq Seq(CommandId)
  /\ invokes \in 0..MaxInvokes /\ exits \in 0..MaxExits
  /\ forgotten \subseteq CommandId /\ unanswered \subseteq CommandId

Times(id, s) == Cardinality({n \in DOMAIN s : s[n] = id})

(* A repeated command creates a second project only if its id was dropped from
   the cache, by newer ids or by a restart; and a project that nobody announced
   is about to be, or belongs to a call that failed after the transaction, whose
   repetition is rejected for as long as the id is remembered. *)
CreatedOnceAndAnnounced ==
  \A id \in CommandId :
    /\ Times(id, projects) > 1 => id \in forgotten
    /\ Times(id, projects) > Times(id, announced) =>
         id \in unanswered \/ \E i \in Invocation : invocation[i] # NoInvocation /\ invocation[i].id = id
=============================================================================
