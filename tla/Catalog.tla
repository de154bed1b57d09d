------------------------------- MODULE Catalog -------------------------------
(***************************************************************************)
(* What an agent may use: capabilities of its manifest, search tools, MCP  *)
(* connectors and skills bound to it by commands of the desktop and of the *)
(* HTTP server, and what a worker launched meanwhile is handed.            *)
(*                                                                         *)
(* One agent.  Each statement or locked block of the registry is a step; a *)
(* save of a skill is two statements under one lock, and the second may    *)
(* fail.                                                                   *)
(***************************************************************************)
EXTENDS Integers, FiniteSets

CONSTANTS
  Tool,        \* built-in tools of kind web_search
  Connector,   \* ids of MCP connectors
  Skill,
  Binder,      \* bind commands that may be under way
  MaxEdits,    \* bound: changes of the catalog
  MaxVersions  \* bound: versions of a skill

ASSUME CatalogAssumption == MaxEdits \in Nat /\ MaxVersions \in Nat

VARIABLES
  caps,         \* capabilities of agent_manifests, of WebSearch and McpClient
  bound,        \* agent_tool_bindings
  keyed,        \* secrets.tool_api_keys_by_slug, filled at boot for bound tools
  connector,    \* mcp_connectors: "none", "on" (enabled) or "off"
  linked,       \* agent_mcp_bindings
  binder,       \* what each bind command has checked
  launch,       \* what run_worker has read for the worker it starts
  seen,         \* history: what was linked, and enabled, since the launch began
  current,      \* skills.current_version, 0 without a row
  versions,     \* rows of skill_versions
  taught,       \* agent_skill_bindings
  enforced,     \* the build's SQLite enforces foreign keys
  edits

skillVars == <<current, versions, taught, enforced>>
grantVars == <<bound, keyed, connector, linked>>
catalogVars == <<caps, grantVars, binder, launch, seen, skillVars, edits>>

NoBind == [at |-> "none"]
NoLaunch == [at |-> "none", caps |-> {}, tools |-> {}, todo |-> {}, given |-> {}]
Capability == {"WebSearch", "McpClient"}

EnabledOf(conns) == {c \in Connector : conns[c] = "on"}

CatalogInit ==
  /\ caps \in SUBSET Capability
  /\ bound = {} /\ keyed = {} /\ connector = [c \in Connector |-> "none"] /\ linked = {}
  /\ binder = [b \in Binder |-> NoBind] /\ launch = NoLaunch /\ seen = [linked |-> {}, on |-> {}]
  /\ current = [s \in Skill |-> 0] /\ versions = {} /\ taught = {} /\ enforced \in BOOLEAN
  /\ edits = 0

CountEdit == edits < MaxEdits /\ edits' = edits + 1

Watch == seen' = [linked |-> seen.linked \cup linked', on |-> seen.on \cup EnabledOf(connector')]

-----------------------------------------------------------------------------
(* update_agent_manifest. *)
UpdateManifest(cs) ==
  /\ CountEdit /\ cs # caps /\ caps' = cs
  /\ UNCHANGED <<grantVars, binder, launch, seen, skillVars>>

(* upsert_mcp_connector; delete_mcp_connector takes the bindings along. *)
UpsertConnector(c, state) ==
  /\ CountEdit /\ connector[c] # state /\ state # "none"
  /\ connector' = [connector EXCEPT ![c] = state]
  /\ UNCHANGED <<caps, bound, keyed, linked>> /\ Watch
  /\ UNCHANGED <<binder, launch, skillVars>>
DeleteConnector(c) ==
  /\ CountEdit /\ connector[c] # "none"
  /\ connector' = [connector EXCEPT ![c] = "none"] /\ linked' = linked \ {c}
  /\ UNCHANGED <<caps, bound, keyed>> /\ Watch
  /\ UNCHANGED <<binder, launch, skillVars>>
UnbindConnector(c) ==
  /\ CountEdit /\ c \in linked /\ linked' = linked \ {c}
  /\ UNCHANGED <<caps, bound, keyed, connector>> /\ Watch
  /\ UNCHANGED <<binder, launch, skillVars>>

(* bind_mcp_connector_to_agent: the capability, the connector and the insertion
   are looked at one after the other; bind_tool_to_agent reads the manifest
   before it locks the tables. *)
StartBind(b, kind, x) ==
  /\ CountEdit /\ binder[b] = NoBind
  /\ IF kind = "tool" THEN "WebSearch" \in caps ELSE "McpClient" \in caps
  /\ binder' = [binder EXCEPT ![b] = [at |-> kind, item |-> x]]
  /\ UNCHANGED <<caps, grantVars, launch, seen, skillVars>>
CheckConnector(b) ==
  /\ binder[b].at = "mcp"
  /\ binder' = [binder EXCEPT ![b] = IF connector[@.item] = "on" THEN [@ EXCEPT !.at = "link"]
                                     ELSE NoBind]
  /\ UNCHANGED <<caps, grantVars, launch, seen, skillVars, edits>>
LinkConnector(b) ==
  /\ binder[b].at = "link" /\ binder' = [binder EXCEPT ![b] = NoBind]
  /\ LET c == binder[b].item IN   \* a row needs its connector
     linked' = linked \cup {d \in {c} : ~enforced \/ connector[d] # "none"}
  /\ UNCHANGED <<caps, bound, keyed, connector>> /\ Watch
  /\ UNCHANGED <<launch, skillVars, edits>>

Replaced(t) == Tool    \* tools of the same kind
BindTool(b) ==
  /\ binder[b].at = "tool" /\ binder' = [binder EXCEPT ![b] = NoBind]
  /\ bound' = (bound \ Replaced(binder[b].item)) \cup {binder[b].item}
  /\ UNCHANGED <<caps, keyed, connector, linked, launch, seen, skillVars, edits>>
UnbindTool(t) ==
  /\ CountEdit /\ t \in bound /\ bound' = bound \ {t}
  /\ UNCHANGED <<caps, keyed, connector, linked, binder, launch, seen, skillVars>>

(* hydrate_bound_tool_secrets of a boot, per bound provider. *)
Hydrate(t) ==
  /\ t \in bound /\ keyed' \in {keyed \cup {t}, keyed \ {t}} /\ keyed' # keyed
  /\ UNCHANGED <<caps, bound, connector, linked, binder, launch, seen, skillVars, edits>>

-----------------------------------------------------------------------------
(* run_worker: manifest and search tool, then the list of bindings, then each
   connector by itself. *)
ReadManifest ==
  /\ launch.at = "none"
  /\ launch' = [NoLaunch EXCEPT !.at = "tools", !.caps = caps]
  /\ seen' = [linked |-> linked, on |-> EnabledOf(connector)]
  /\ UNCHANGED <<caps, grantVars, binder, skillVars, edits>>
ReadTools ==
  /\ launch.at = "tools"
  /\ launch' = [launch EXCEPT !.at = "list", !.tools = bound \cap keyed]
  /\ UNCHANGED <<caps, grantVars, binder, seen, skillVars, edits>>
ListBindings ==
  /\ launch.at = "list"
  /\ launch' = [launch EXCEPT !.at = "resolve",
                              !.todo = IF "McpClient" \in launch.caps THEN linked ELSE {}]
  /\ UNCHANGED <<caps, grantVars, binder, seen, skillVars, edits>>
MutUsable(c) == connector[c] # "none"
Usable(c) == connector[c] = "on"
ResolveConnector(c) ==
  /\ launch.at = "resolve" /\ c \in launch.todo
  /\ launch' = [launch EXCEPT !.todo = @ \ {c}, !.given = @ \cup {d \in {c} : Usable(d)}]
  /\ UNCHANGED <<caps, grantVars, binder, seen, skillVars, edits>>
SpawnWorker ==
  /\ launch.at = "resolve" /\ launch.todo = {}
  /\ launch' = NoLaunch /\ seen' = [linked |-> {}, on |-> {}]
  /\ UNCHANGED <<caps, grantVars, binder, skillVars, edits>>

-----------------------------------------------------------------------------
(* save_skill: the version first, which a build that enforces foreign keys
   refuses for a new skill, then the skill. *)
MutVersionFirst(done) == TRUE  \* the skill before its version
VersionFirst(done) == done
SaveSkill(s) ==
  LET v == current[s] + 1 IN
  /\ CountEdit /\ v <= MaxVersions
  /\ ~(enforced /\ current[s] = 0) /\ <<s, v>> \notin versions   \* or an error
  /\ \E done \in BOOLEAN :
       /\ versions' = versions \cup {w \in {<<s, v>>} : done \/ ~VersionFirst(done)}
       /\ current' = IF VersionFirst(done) THEN [current EXCEPT ![s] = v] ELSE current
  /\ UNCHANGED <<caps, grantVars, binder, launch, seen, taught, enforced>>
BindSkill(s) ==
  /\ CountEdit /\ current[s] # 0 /\ taught' = taught \cup {s}
  /\ UNCHANGED <<caps, grantVars, binder, launch, seen, current, versions, enforced>>
UnbindSkill(s) ==
  /\ CountEdit /\ s \in taught /\ taught' = taught \ {s}
  /\ UNCHANGED <<caps, grantVars, binder, launch, seen, current, versions, enforced>>

CatalogNext ==
  \/ \E cs \in SUBSET Capability : UpdateManifest(cs)
  \/ \E c \in Connector : \/ \E state \in {"on", "off"} : UpsertConnector(c, state)
                         \/ DeleteConnector(c) \/ UnbindConnector(c) \/ ResolveConnector(c)
  \/ \E b \in Binder : \/ \E t \in Tool : StartBind(b, "tool", t)
                      \/ \E c \in Connector : StartBind(b, "mcp", c)
                      \/ CheckConnector(b) \/ LinkConnector(b) \/ BindTool(b)
  \/ \E t \in Tool : UnbindTool(t) \/ Hydrate(t)
  \/ ReadManifest \/ ReadTools \/ ListBindings \/ SpawnWorker
  \/ \E s \in Skill : SaveSkill(s) \/ BindSkill(s) \/ UnbindSkill(s)

CatalogSpec == CatalogInit /\ [][CatalogNext]_catalogVars

-----------------------------------------------------------------------------
(* Types of the variables. *)
CatalogTypeOK ==
  /\ {caps, launch.caps} \subseteq SUBSET Capability /\ {bound, keyed, launch.tools} \subseteq SUBSET Tool
  /\ connector \in [Connector -> {"none", "on", "off"}]
  /\ {linked, launch.todo, launch.given, seen.linked, seen.on} \subseteq SUBSET Connector
  /\ \A b \in Binder : \/ binder[b] = NoBind
                       \/ binder[b].at = "tool" /\ binder[b].item \in Tool
                       \/ binder[b].at \in {"mcp", "link"} /\ binder[b].item \in Connector
  /\ launch.at \in {"none", "tools", "list", "resolve"}
  /\ current \in [Skill -> 0..MaxVersions] /\ versions \subseteq Skill \X (1..MaxVersions)
  /\ taught \subseteq Skill /\ enforced \in BOOLEAN /\ edits \in 0..MaxEdits

(* A connector that was disabled, deleted or unbound before a launch began, and
   stayed so, is not handed to its worker, whatever binds, edits and deletions
   run beside the launch. *)
GivenWasPermitted == launch.given \subseteq seen.linked \cap seen.on

(* Two commands that bind at once leave one search tool, and a worker never has
   the keys of two. *)
OneSearchTool == \A ts \in {bound, launch.tools} : \A t, u \in ts : t = u

(* Every skill and so every bound one has the version it names, also after a
   save that failed half way: load_skill_record joins them. *)
SkillLoads ==
  \A s \in Skill : /\ current[s] # 0 => <<s, current[s]>> \in versions
                   /\ s \in taught => current[s] # 0
=============================================================================
