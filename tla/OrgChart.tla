------------------------------- MODULE OrgChart -------------------------------
(***************************************************************************)
(* Hiring: the rows of agents and their org profiles, written by calls     *)
(* that each take the registry's lock for one statement.  A hire comes     *)
(* from the side channel of a running worker, where                        *)
(* check_cross_manager_hire_allowed decides first, or from HTTP, where     *)
(* nothing does.                                                           *)
(*                                                                         *)
(* Ids are UUIDs in the code; here they are numbered as they are created.  *)
(* Names are compared exactly.                                             *)
(***************************************************************************)
EXTENDS Integers, FiniteSets

CONSTANTS
  Name, RootName,   \* names of agents, and the seeded root's ("Perry")
  Role, Leading,    \* roles, and those default_for_agent infers a manager from
  Caller,           \* calls that may be under way at once
  Mode,             \* autonomous_hiring_mode
  Cap,              \* max_direct_reports_per_manager
  Seed,             \* the rows the seed made, under ids 0..
  MaxAgents,        \* bound: agents ever created
  MaxCalls,         \* bound: hires begun
  MaxAgentEdits     \* bound: edits of an agent

ASSUME OrgAssumption ==
  /\ RootName \in Name /\ Leading \subseteq Role
  /\ Mode \in {"PERRY_ONLY", "ANY_MANAGER", "OPEN"}
  /\ \E n \in 1..MaxAgents :
       Seed \in [0..(n - 1) -> [name : Name, parent : -1..(n - 1), role : Role]]
  /\ \A a \in DOMAIN Seed : Seed[a].parent < a
  /\ Cap \in Nat \ {0} /\ MaxAgents \in Nat \ {0} /\ MaxCalls \in Nat /\ MaxAgentEdits \in Nat

VARIABLES
  org,       \* the rows of agents
  profile,   \* org_class of the row of agent_org_profiles, or None
  hire,      \* where each call is
  calls,     \* hires begun
  agentEdits, \* edits made
  overrun    \* history: managers given a report past the gate's count, or by the seed

orgVars == <<org, profile, hire, calls, agentEdits, overrun>>

None == "none"
NoParent == -1
AgentId == 0..(MaxAgents - 1)
Row == [name : Name, parent : AgentId \cup {NoParent}, role : Role]
Class == {"manager", "specialist"}

(* A row's parent references agents(id): no row is made under an agent that is
   not there.  name carries a unique index. *)
Agents == DOMAIN org
ReportsOf(m) == {a \in Agents : org[a].parent = m}
Taken(n) == \E a \in Agents : org[a].name = n

ClassOf(a) ==
  IF org[a].parent = NoParent \/ org[a].name = RootName \/ org[a].role \in Leading
    THEN "manager" ELSE "specialist"
ProfileOf(a) == IF profile[a] = None THEN ClassOf(a) ELSE profile[a]

(* is_ancestor_of: the walk from the descendant, at most 64 steps, which is
   more than the agents there are. *)
Above(a) ==
  LET up[i \in 0..MaxAgents] ==
        IF i = 0 THEN {a}
        ELSE up[i - 1] \cup ({org[b].parent : b \in up[i - 1]} \ {NoParent})
  IN up[MaxAgents]
IsAncestorOf(c, m) == c \in Above(m)

NoHire == [at |-> "idle"]
HireCall == [at : {"find", "insert", "profile"}, gated : BOOLEAN,
             caller : AgentId, target : AgentId \cup {NoParent}, name : Name, role : Role,
             id : AgentId, stale : BOOLEAN]

OrgInit ==
  /\ org = Seed
  /\ profile = [a \in AgentId |-> IF a \in Agents THEN ClassOf(a) ELSE None]
  /\ hire = [w \in Caller |-> NoHire] /\ calls = 0 /\ agentEdits = 0
  /\ overrun = {m \in AgentId : Cardinality(ReportsOf(m)) > Cap}

-----------------------------------------------------------------------------
(* The gate: the caller's mode, its standing towards the target, the target's
   class and its number of reports.  Reading a profile that is missing stores
   the default one. *)
ModeAllows(c) ==
  \/ Mode = "PERRY_ONLY" /\ org[c].name = RootName
  \/ Mode = "ANY_MANAGER" /\ ProfileOf(c) = "manager"
  \/ Mode = "OPEN"
StandsOver(c, m) ==
  \/ c = m
  \/ /\ org[c].parent = NoParent \/ IsAncestorOf(c, m)
     /\ ProfileOf(m) = "manager"
MutHasRoom(m) == Cardinality(ReportsOf(m)) <= Cap
HasRoom(m) == Cardinality(ReportsOf(m)) < Cap

NewHire(gated, c, m, n, r) ==
  [at |-> "find", gated |-> gated, caller |-> c, target |-> m, name |-> n, role |-> r,
   id |-> c, stale |-> FALSE]

(* hire_subordinate on the side channel: reports_to names an agent, or is unset
   and means the caller. *)
AskToHire(w, c, m, n, r) ==
  /\ hire[w] = NoHire /\ calls < MaxCalls /\ calls' = calls + 1
  /\ ModeAllows(c) /\ StandsOver(c, m) /\ HasRoom(m)
  /\ hire' = [hire EXCEPT ![w] = NewHire(TRUE, c, m, n, r)]
  /\ profile' = [a \in AgentId |-> IF a \in {c, m} THEN ProfileOf(a) ELSE profile[a]]
  /\ UNCHANGED <<org, agentEdits, overrun>>

(* POST /hire: no gate, any parent or none. *)
PostHire(w, m, n, r) ==
  /\ hire[w] = NoHire /\ calls < MaxCalls /\ calls' = calls + 1
  /\ hire' = [hire EXCEPT ![w] = NewHire(FALSE, 0, m, n, r)]
  /\ UNCHANGED <<org, profile, agentEdits, overrun>>

(* hire_subordinate_with_profile_and_cron: a name that exists is refreshed and
   its id returned; its parent stays what it is. *)
MutRefreshed(a, h) == [org EXCEPT ![a].role = h.role, ![a].parent = h.target]
Refreshed(a, h) == [org EXCEPT ![a].role = h.role]

FindByName(w) ==
  /\ hire[w].at = "find"
  /\ LET h == hire[w] IN
     \/ \E a \in Agents :
          /\ org[a].name = h.name
          /\ org' = Refreshed(a, h)
          /\ hire' = [hire EXCEPT ![w] = NoHire]
     \/ ~Taken(h.name) /\ hire' = [hire EXCEPT ![w].at = "insert"] /\ UNCHANGED org
  /\ UNCHANGED <<profile, calls, agentEdits, overrun>>

(* insert_agent_identity.  Calls past the gate under the same manager now hold
   a count that is out of date. *)
InsertAgent(w) ==
  /\ hire[w].at = "insert"
  /\ LET h == hire[w]
         a == Cardinality(Agents)
     IN \/ /\ Taken(h.name)
           /\ hire' = [hire EXCEPT ![w] = NoHire]
           /\ UNCHANGED <<org, overrun>>
        \/ /\ ~Taken(h.name) /\ a < MaxAgents
           /\ org' = [b \in Agents \cup {a} |->
                        IF b = a THEN [name |-> h.name, parent |-> h.target, role |-> h.role]
                        ELSE org[b]]
           /\ hire' = [v \in Caller |->
                         IF v = w THEN [h EXCEPT !.at = "profile", !.id = a]
                         ELSE IF hire[v] # NoHire /\ hire[v].target = h.target
                         THEN [hire[v] EXCEPT !.stale = TRUE] ELSE hire[v]]
           /\ overrun' = IF h.gated /\ ~h.stale THEN overrun ELSE overrun \cup {h.target}
  /\ UNCHANGED <<profile, calls, agentEdits>>

(* default_for_agent, of the row as it is now. *)
StoreProfile(w) ==
  /\ hire[w].at = "profile"
  /\ profile' = [profile EXCEPT ![hire[w].id] = ClassOf(hire[w].id)]
  /\ hire' = [hire EXCEPT ![w] = NoHire]
  /\ UNCHANGED <<org, calls, agentEdits, overrun>>

(* update_agent_identity. *)
EditIdentity(a, r) ==
  /\ agentEdits < MaxAgentEdits /\ agentEdits' = agentEdits + 1
  /\ org' = [org EXCEPT ![a].role = r]
  /\ UNCHANGED <<profile, hire, calls, overrun>>

(* update_agent_manifest_profile: the row, with its name, which is unique. *)
EditManifest(a, n, r) ==
  /\ agentEdits < MaxAgentEdits /\ agentEdits' = agentEdits + 1
  /\ n = org[a].name \/ ~Taken(n)
  /\ org' = [org EXCEPT ![a].name = n, ![a].role = r]
  /\ UNCHANGED <<profile, hire, calls, overrun>>

OrgNext ==
  \/ \E w \in Caller :
       \/ \E n \in Name, r \in Role :
            \/ \E c, m \in Agents : AskToHire(w, c, m, n, r)
            \/ \E m \in Agents \cup {NoParent} : PostHire(w, m, n, r)
       \/ FindByName(w) \/ InsertAgent(w) \/ StoreProfile(w)
  \/ \E a \in Agents, r \in Role :
       \/ EditIdentity(a, r)
       \/ \E n \in Name : EditManifest(a, n, r)

OrgSpec == OrgInit /\ [][OrgNext]_orgVars

-----------------------------------------------------------------------------
(* Types of the variables. *)
OrgTypeOK ==
  /\ Agents \subseteq AgentId /\ \A a \in Agents : org[a] \in Row
  /\ profile \in [AgentId -> Class \cup {None}]
  /\ \A w \in Caller : hire[w] = NoHire \/ hire[w] \in HireCall
  /\ calls \in 0..MaxCalls /\ agentEdits \in 0..MaxAgentEdits
  /\ overrun \subseteq AgentId \cup {NoParent}

(* A manager has more reports than the cap only where a hire was inserted on a
   count that another insert had made old, or came over HTTP or with the seed:
   the count of the gate and the insert take the registry's lock separately, but
   nothing else may get past the cap. *)
CapBrokenOnlyByOverlap ==
  \A m \in Agents : Cardinality(ReportsOf(m)) > Cap => m \in overrun

(* Every walk to the root ends.  list_descendant_team_goals follows parent_id
   without a bound and a second hire of a known name returns an agent that may
   stand above its new target. *)
WalkEndsAtARoot ==
  \A a \in Agents : \E b \in Above(a) : org[b].parent = NoParent
=============================================================================
