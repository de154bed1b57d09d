------------------------------ MODULE KernelBoot ------------------------------
(***************************************************************************)
(* The start of the kernel in the desktop backend: the saved configuration *)
(* with its plain text secrets of old versions, the secrets a boot loads,  *)
(* the key of the vault, the lock boot_kernel holds, and settings_save,    *)
(* which rewrites the configuration and then the models of all agents.     *)
(*                                                                         *)
(* The bundle of secrets is the set of accounts that hold one (module      *)
(* SecretBundle has its copies and races); an access to the keyring fails  *)
(* whenever it is locked.                                                  *)
(***************************************************************************)
EXTENDS Integers, FiniteSets

CONSTANTS
  Provider,    \* providers of merge_service_configs
  Anthropic,   \* DEFAULT_LLM_PROVIDER
  Window,      \* callers of commands: the UI may repeat one while it runs
  MaxSets,     \* bound: settings and secrets saved
  MaxBoots     \* bound: attempts to start a kernel, in any number of processes

ASSUME BootAssumption == Anthropic \in Provider /\ MaxSets \in Nat /\ MaxBoots \in Nat

Legacy == "default_llm_api_key"   \* KEY_API_KEY
Token == "sidechannel_token"
LegacyKey == -1   \* LEGACY_VAULT_KEY; 0 is no key, the generated ones count from 1

VARIABLES
  config,     \* the file of read_saved_config
  keys,       \* accounts of the bundle that hold a secret
  call,       \* what each window's command has read, and how far it is
  sets, boots,
  kernelLock,     \* who holds the lock of state.kernel
  kernels,    \* kernels started in this process
  models,     \* the provider update_agent_models_bulk last gave to the agents
  chosen,     \* history: the provider of the last settings_save
  told,       \* history: and the agents were told
  crossed,    \* history: two commands that write the configuration overlapped
  brokenOff,       \* history: a write left the file empty, and no settings were saved since
  vaultRing, vaultFile,   \* the keyring's copy of the vault's key, and vault.key
  database,   \* kernel_registry.sqlite exists
  vaultKeys,  \* history: keys a kernel was made with
  vaultLost   \* history: there were copies of the key and none could be read

secretVars == <<config, keys, sets, chosen, told, crossed, brokenOff, models>>
vaultVars == <<vaultRing, vaultFile, database, vaultKeys, vaultLost>>
bootVars == <<secretVars, call, boots, kernelLock, kernels, vaultVars>>

Config == [provider : Provider, plainKey : BOOLEAN, plainToken : BOOLEAN]
NoCall == [at |-> "none"]
Standing(w, where) == call[w].at = where
WindowMoves(w, where) == call' = [call EXCEPT ![w].at = where]
WindowEnds(w) == call' = [call EXCEPT ![w] = NoCall]
HalfWritten(w) == call[w].at \in {"clearing", "saving"}
Writing == {"clear", "clearing", "config", "saving", "models"}
Blank == [provider |-> Anthropic, plainKey |-> FALSE, plainToken |-> FALSE]   \* an empty file

BootInit ==
  /\ config \in [provider : {Anthropic}, plainKey : BOOLEAN, plainToken : BOOLEAN]
  /\ keys = {} /\ call = [w \in Window |-> NoCall] /\ sets = 0 /\ boots = 0
  /\ kernelLock = {} /\ kernels = 0 /\ models = Anthropic
  /\ chosen = Anthropic /\ told = FALSE /\ crossed = FALSE /\ brokenOff = FALSE
  /\ vaultRing = 0 /\ vaultFile = 0 /\ vaultKeys = {} /\ vaultLost = FALSE
  /\ database \in BOOLEAN

-----------------------------------------------------------------------------
(* secrets_status: the default provider has a key. *)
Status(g, ks) ==
  \/ g.provider \in ks
  \/ g.provider = Anthropic /\ (Legacy \in ks \/ g.plainKey)

(* load_runtime_secrets: whose key becomes the default; the key of the old
   versions stands in for a missing key of DEFAULT_LLM_PROVIDER. *)
HasLegacy(g, ks) == g.plainKey \/ Legacy \in ks
Loaded(g, ks) == (ks \cap Provider) \cup {p \in {Anthropic} : HasLegacy(g, ks)}
DefaultKeys(g, ks) ==
  IF g.provider \in Loaded(g, ks) THEN {g.provider}
  ELSE IF HasLegacy(g, ks) THEN {Anthropic} ELSE Loaded(g, ks)

(* settings_save: the secrets, the configuration without its plain text ones,
   then the agents of a running kernel. *)
SaveSettings(w, p, withKey) ==
  /\ call[w] = NoCall /\ sets < MaxSets /\ sets' = sets + 1
  /\ keys' = keys \cup (IF withKey THEN {p} \cup {k \in {Legacy} : p = Anthropic} ELSE {})
  /\ call' = [call EXCEPT ![w] = [at |-> "config", provider |-> p]]
  /\ crossed' = (crossed \/ \E v \in Window : call[v].at \in Writing)
  /\ UNCHANGED <<config, chosen, told, brokenOff, models, boots, kernelLock, kernels, vaultVars>>

(* save_saved_config opens the file truncated, then writes it; an error, or a
   stop, between the two leaves it empty. *)
OpenConfig(w, written) ==
  /\ WindowMoves(w, written) /\ config' = Blank
  /\ UNCHANGED <<keys, sets, chosen, told, crossed, brokenOff, models, boots, kernelLock, kernels, vaultVars>>

SaveFails(w) ==
  /\ call[w].at \in Writing \ {"models"} /\ WindowEnds(w)
  /\ brokenOff' = (brokenOff \/ HalfWritten(w))
  /\ UNCHANGED <<config, keys, sets, chosen, told, crossed, models, boots, kernelLock, kernels, vaultVars>>

OpenSaved(w) == Standing(w, "config") /\ OpenConfig(w, "saving")
WriteConfig(w) ==
  /\ Standing(w, "saving") /\ WindowMoves(w, "models")
  /\ config' = [provider |-> call[w].provider, plainKey |-> FALSE, plainToken |-> FALSE]
  /\ chosen' = call[w].provider /\ told' = FALSE /\ brokenOff' = FALSE
  /\ UNCHANGED <<keys, sets, crossed, models, boots, kernelLock, kernels, vaultVars>>

(* An error of the list or of the update is only logged. *)
SetModels(w) ==
  /\ Standing(w, "models") /\ kernelLock = {} /\ WindowEnds(w)
  /\ \/ kernels > 0 /\ told' = TRUE /\ models' = call[w].provider
     \/ told' = FALSE /\ UNCHANGED models
  /\ UNCHANGED <<config, keys, sets, chosen, crossed, brokenOff, boots, kernelLock, kernels, vaultVars>>

(* secrets_set. *)
SetSecret(w, p) ==
  /\ call[w] = NoCall /\ sets < MaxSets /\ sets' = sets + 1
  /\ keys' = keys \cup {p} \cup {k \in {Legacy} : p = Anthropic}
  /\ UNCHANGED <<config, chosen, told, crossed, brokenOff, models, call, boots, kernelLock, kernels,
                 vaultVars>>

-----------------------------------------------------------------------------
(* kernel_boot_from_keychain: without a key for any provider it fails before it
   changes anything. *)
ReadSecrets(w) ==
  /\ call[w] = NoCall /\ DefaultKeys(config, keys) # {}
  /\ keys' = keys \cup {t \in {Token} : ~config.plainToken}
  /\ call' = [call EXCEPT ![w] = [at |-> "clear", config |-> config]]
  /\ crossed' = (crossed \/ \E v \in Window : call[v].at \in Writing)
  /\ UNCHANGED <<config, sets, chosen, told, brokenOff, models, boots, kernelLock, kernels, vaultVars>>

(* The plain text secrets are cleared when either is missing. *)
MutCleaned(g) == [g EXCEPT !.provider = Anthropic, !.plainKey = FALSE, !.plainToken = FALSE]
Cleaned(g) == [g EXCEPT !.plainKey = FALSE, !.plainToken = FALSE]
Clears(g) == ~g.plainKey \/ ~g.plainToken
KeepConfig(w) ==
  /\ Standing(w, "clear") /\ ~Clears(call[w].config) /\ call' = [call EXCEPT ![w] = [at |-> "boot"]]
  /\ UNCHANGED <<secretVars, boots, kernelLock, kernels, vaultVars>>

OpenCleared(w) == Standing(w, "clear") /\ Clears(call[w].config) /\ OpenConfig(w, "clearing")
ClearConfig(w) ==
  /\ Standing(w, "clearing") /\ call' = [call EXCEPT ![w] = [at |-> "boot"]]
  /\ config' = Cleaned(call[w].config)
  /\ UNCHANGED <<keys, sets, chosen, told, crossed, brokenOff, models, boots, kernelLock, kernels, vaultVars>>

(* kernel_boot_with_secrets. *)
BootWith(w) ==
  /\ call[w] = NoCall /\ call' = [call EXCEPT ![w] = [at |-> "boot"]]
  /\ UNCHANGED <<secretVars, boots, kernelLock, kernels, vaultVars>>

(* boot_kernel holds the lock from its check until the kernel is in place; when
   one runs already it only logs, and the new secrets wait for a restart. *)
BootKernel(w) ==
  /\ Standing(w, "boot") /\ kernelLock = {}
  /\ IF kernels > 0 THEN WindowEnds(w) /\ UNCHANGED kernelLock
     ELSE WindowMoves(w, "init") /\ kernelLock' = {w}
  /\ UNCHANGED <<secretVars, boots, kernels, vaultVars>>

(* load_or_generate_vault_key, with the keyring readable (up) and writable (then)
   and vault.key readable: the keyring's key, the file's, or a new one kept in the
   keyring, else written over the file. *)
InRing(up) == up /\ vaultRing # 0
InFile(readable) == readable /\ vaultFile # 0
MutVaultKey(up, readable) == IF InRing(up) THEN vaultRing ELSE boots + 1
VaultKey(up, readable) ==
  IF InRing(up) THEN vaultRing ELSE IF InFile(readable) THEN vaultFile ELSE boots + 1
OpenVault(up, readable, then) ==
  LET key == VaultKey(up, readable)
      generates == ~InRing(up) /\ ~InFile(readable)
  IN /\ vaultRing' = IF ~InRing(up) /\ then THEN key ELSE vaultRing
     /\ vaultFile' = IF generates /\ ~then THEN key ELSE vaultFile
     /\ vaultLost' = (vaultLost \/ (generates /\ (vaultRing # 0 \/ vaultFile # 0)))

(* Kernel::new.  When it fails for whatever reason on a database that was there,
   the key of the old versions is tried; once there is a kernel the seed may
   fail, and it is dropped. *)
NewKernel(key) ==
  \/ /\ vaultKeys' = vaultKeys \cup {key} /\ database' = TRUE
     /\ kernels' \in {kernels, kernels + 1}
  \/ /\ database /\ vaultKeys' = vaultKeys \cup {LegacyKey} /\ UNCHANGED database
     /\ kernels' \in {kernels, kernels + 1}
  \/ /\ database' \in {database, TRUE} /\ UNCHANGED <<vaultKeys, kernels>>

(* init_kernel, which may also fail before it has a key. *)
InitKernel(w) ==
  /\ Standing(w, "init") /\ WindowEnds(w) /\ kernelLock' = {}
  /\ boots < MaxBoots /\ boots' = boots + 1
  /\ \/ UNCHANGED <<kernels, vaultVars>>
     \/ \E up, readable, then \in BOOLEAN :
          OpenVault(up, readable, then) /\ NewKernel(VaultKey(up, readable))
  /\ UNCHANGED secretVars

QuitDesktop ==
  /\ call' = [w \in Window |-> NoCall] /\ kernelLock' = {} /\ kernels' = 0
  /\ \/ UNCHANGED <<vaultRing, vaultLost>>
     \/ /\ vaultRing # 0 /\ vaultRing' = 0   \* a keyring that forgets
        /\ vaultLost' = (vaultLost \/ vaultFile = 0)
  /\ brokenOff' = (brokenOff \/ \E w \in Window : HalfWritten(w))
  /\ UNCHANGED <<config, keys, sets, chosen, told, crossed, models, boots,
                 vaultFile, database, vaultKeys>>

BootNext ==
  \/ \E w \in Window :
       \/ \E p \in Provider : SetSecret(w, p) \/ \E k \in BOOLEAN : SaveSettings(w, p, k)
       \/ OpenSaved(w) \/ WriteConfig(w) \/ SaveFails(w) \/ SetModels(w)
       \/ ReadSecrets(w) \/ KeepConfig(w) \/ OpenCleared(w) \/ ClearConfig(w)
       \/ BootWith(w) \/ BootKernel(w) \/ InitKernel(w)
  \/ QuitDesktop

BootSpec == BootInit /\ [][BootNext]_bootVars

-----------------------------------------------------------------------------
(* Types of the variables. *)
BootTypeOK ==
  /\ config \in Config /\ keys \subseteq Provider \cup {Legacy, Token}
  /\ \A w \in Window :
       \/ call[w] \in [at : {"none", "boot", "init"}]
       \/ call[w] \in [at : {"config", "saving", "models"}, provider : Provider]
       \/ call[w] \in [at : {"clear", "clearing"}, config : Config]
  /\ sets \in 0..MaxSets /\ boots \in 0..MaxBoots
  /\ kernelLock \subseteq Window /\ kernels \in Nat
  /\ {models, chosen} \subseteq Provider /\ {told, crossed, brokenOff, database, vaultLost} \subseteq BOOLEAN
  /\ {vaultRing, vaultFile} \subseteq Nat /\ vaultKeys \subseteq Nat \cup {LegacyKey}

(* One process starts one kernel, however often the UI repeats the boot: two
   would reap and claim each other's work. *)
OneKernel == kernels <= 1

(* Restart after restart, failed boots included, the vault is opened with one
   generated key, unless there were copies of it and none could be read.  (Beside
   it there is the old versions' key, which any error of Kernel::new brings back.) *)
VaultKeyIsKept == Cardinality(vaultKeys \ {LegacyKey}) > 1 => vaultLost

(* What the status tells the UI is what a boot finds: the kernel then starts with
   a key of the chosen provider, not with another's. *)
StatusPredictsBoot ==
  Status(config, keys) => DefaultKeys(config, keys) = {config.provider}

(* A boot never undoes the choice of a provider, and the agents that were told of
   it work with it, as long as no other boot or save overlapped and no write of the
   file broke off after it was emptied. *)
ChoiceIsKept ==
  ~crossed =>
    /\ ~brokenOff /\ (\A w \in Window : ~HalfWritten(w)) => config.provider = chosen
    /\ told => models = chosen
=============================================================================
