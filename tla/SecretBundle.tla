---------------------------- MODULE SecretBundle ----------------------------
(***************************************************************************)
(* The secrets of the desktop backend: one bundle with copies in a file,   *)
(* in the OS keyring and in memory, read and written by commands that run  *)
(* side by side.                                                           *)
(*                                                                         *)
(* A secret is a number, 0 for none; each save brings a new one.  An       *)
(* access to the keyring fails whenever it is locked, and a keyring may    *)
(* forget at a restart what it accepted ("WSL").                           *)
(***************************************************************************)
EXTENDS Integers

CONSTANTS
  Account,    \* accounts of secrets
  Command,    \* commands that may be under way
  MaxSaves,   \* bound: secrets saved
  MaxStarts   \* bound: starts of the backend

ASSUME SettingsAssumption ==
  MaxSaves \in Nat /\ MaxStarts \in Nat \ {0}

VARIABLES
  ring, file, cache,  \* copies of the secure settings bundle, or NoBundle
  old,                \* keyring entries of versions before the bundle
  command,            \* where each command is
  saves, starts,
  saved,              \* history: the secret each account was last saved with
  lostSaves,          \* history: secrets whose saving a stop cut off after the file
  raced,              \* history: two commands held a bundle at once
  shadowed,           \* history: the keyring kept an older bundle than the file
  torn                \* history: a stop left the file empty

bundleVars == <<ring, file, cache, old, saved, lostSaves, raced, shadowed, torn>>
setVars == <<bundleVars, command, saves, starts>>

NoBundle == [a \in {} |-> 0]
Bundle == [Account -> 0..(MaxSaves + 1)]
Empty == [a \in Account |-> 0]
OldSecret == 1   \* the secret an older version left in the keyring
NoCommand == [at |-> "idle"]
CommandAt(c, where) == command[c].at = where
Stages == {"warm", "truncate", "write", "ring", "cache"}
Migrates(c) == ~CommandAt(c, "idle") /\ command[c].value = OldSecret
Holding(c) == command[c].at \in Stages \/ Migrates(c)   \* it will write by what it read

SetInit ==
  /\ ring = NoBundle /\ file = NoBundle /\ cache = NoBundle
  /\ \E a \in Account : old = [Empty EXCEPT ![a] = OldSecret]
  /\ command = [c \in Command |-> NoCommand] /\ saves = 0 /\ starts = 1
  /\ saved = Empty /\ lostSaves = {}
  /\ raced = FALSE /\ shadowed = FALSE /\ torn = FALSE

-----------------------------------------------------------------------------
CommandGoes(c, where) == command' = [command EXCEPT ![c].at = where]
Holds(c, where, b) == command' = [command EXCEPT ![c].at = where, ![c].bundle = b]

(* load_secure_settings_bundle without its cache: the keyring's copy before the
   file's, an empty bundle when there is neither. *)
Stored(up) == IF up /\ ring # NoBundle THEN ring ELSE IF file # NoBundle THEN file ELSE Empty

NewCommand(a, v, reads) ==
  [at |-> "load", account |-> a, value |-> v, reads |-> reads, bundle |-> Empty]

(* save_secret, of settings_save and secrets_set. *)
SaveSecret(c, a) ==
  /\ command[c] = NoCommand /\ saves < MaxSaves /\ saves' = saves + 1
  /\ command' = [command EXCEPT ![c] = NewCommand(a, saves + 2, FALSE)]
  /\ UNCHANGED <<bundleVars, starts>>

(* load_secret_optional, of the settings view and of a boot. *)
ReadSecret(c, a) ==
  /\ command[c] = NoCommand
  /\ command' = [command EXCEPT ![c] = NewCommand(a, 0, TRUE)]
  /\ UNCHANGED <<bundleVars, saves, starts>>

(* With a bundle b in hand a save goes on to store it, changed.  A reading ends,
   or finds the account only in the keyring, where an older version left it, and
   saves it in the bundle. *)
Has(c, b) ==
  LET k == command[c] IN
  IF ~k.reads
  THEN command' = [command EXCEPT ![c] = [k EXCEPT !.at = "truncate",
                                                   !.bundle = [b EXCEPT ![k.account] = k.value]]]
  ELSE \/ command' = [command EXCEPT ![c] = NoCommand]
       \/ /\ b[k.account] = 0 /\ old[k.account] # 0
          /\ command' = [command EXCEPT ![c] = NewCommand(k.account, old[k.account], FALSE)]

(* update_secure_settings_bundle: the cache is locked for each reading and
   writing of it, not for the update. *)
LoadBundle(c) ==
  /\ CommandAt(c, "load")
  /\ IF cache # NoBundle THEN Has(c, cache)
     ELSE \E up \in BOOLEAN : Holds(c, "warm", Stored(up))
  /\ raced' = (raced \/ \E d \in Command \ {c} : Holding(d))
  /\ UNCHANGED <<ring, file, cache, old, saved, lostSaves, shadowed, torn, saves, starts>>

WarmCache(c) ==
  /\ CommandAt(c, "warm")
  /\ cache' = command[c].bundle /\ Has(c, command[c].bundle)
  /\ UNCHANGED <<ring, file, old, saved, lostSaves, raced, shadowed, torn, saves, starts>>

(* fs::write: open and truncate, then write; or the command ends with an error. *)
Truncate(c) ==
  /\ CommandAt(c, "truncate")
  /\ \/ file' = NoBundle /\ CommandGoes(c, "write")
     \/ command' = [command EXCEPT ![c] = NoCommand] /\ UNCHANGED file
  /\ UNCHANGED <<ring, cache, old, saved, lostSaves, raced, shadowed, torn, saves, starts>>

MutFileKeeps(c) == IF cache # NoBundle THEN cache ELSE command[c].bundle
FileKeeps(c) == command[c].bundle
WriteFile(c) ==
  /\ CommandAt(c, "write")
  /\ file' = FileKeeps(c) /\ CommandGoes(c, "ring")
  /\ UNCHANGED <<ring, cache, old, saved, lostSaves, raced, shadowed, torn, saves, starts>>

(* keyring_set_password_with_status, its failure ignored. *)
WriteRing(c) ==
  /\ CommandAt(c, "ring") /\ CommandGoes(c, "cache")
  /\ \/ ring' = command[c].bundle /\ UNCHANGED shadowed
     \/ shadowed' = (shadowed \/ ring # NoBundle) /\ UNCHANGED ring
  /\ UNCHANGED <<file, cache, old, saved, lostSaves, raced, torn, saves, starts>>

WriteCache(c) ==
  /\ CommandAt(c, "cache")
  /\ cache' = command[c].bundle
  /\ saved' = IF Migrates(c) THEN saved
              ELSE [saved EXCEPT ![command[c].account] = command[c].value]
  /\ command' = [command EXCEPT ![c] = NoCommand]
  /\ UNCHANGED <<ring, file, old, lostSaves, raced, shadowed, torn, saves, starts>>

-----------------------------------------------------------------------------
RestartBackend ==
  /\ starts < MaxStarts /\ starts' = starts + 1
  /\ cache' = NoBundle /\ command' = [c \in Command |-> NoCommand]
  /\ ring' \in {ring, NoBundle}
  /\ lostSaves' = lostSaves \cup
       {command[c].value : c \in {d \in Command : command[d].at \in {"ring", "cache"}}}
  /\ torn' = (torn \/ (file = NoBundle /\ \E a \in Account : saved[a] # 0))
  /\ UNCHANGED <<file, old, saved, raced, shadowed, saves>>

SetNext ==
  \/ \E c \in Command :
       \/ \E a \in Account : SaveSecret(c, a) \/ ReadSecret(c, a)
       \/ LoadBundle(c) \/ WarmCache(c) \/ Truncate(c) \/ WriteFile(c) \/ WriteRing(c) \/ WriteCache(c)
  \/ RestartBackend

SetSpec == SetInit /\ [][SetNext]_setVars

-----------------------------------------------------------------------------
(* Types of the variables. *)
SetTypeOK ==
  /\ {ring, file, cache} \subseteq Bundle \cup {NoBundle}
  /\ old \in Bundle /\ saved \in Bundle /\ lostSaves \subseteq 0..(MaxSaves + 1)
  /\ \A c \in Command :
       \/ command[c] = NoCommand
       \/ command[c] \in [at : Stages \cup {"load"}, account : Account, value : 0..(MaxSaves + 1),
                          reads : BOOLEAN, bundle : Bundle]
  /\ saves \in 0..MaxSaves /\ starts \in 1..MaxStarts
  /\ {raced, shadowed, torn} \subseteq BOOLEAN

(* What a command reads of the bundle now: its cache, or either copy. *)
Readings == IF cache # NoBundle THEN {cache} ELSE {Stored(up) : up \in BOOLEAN}

(* A saved secret is what every later reading finds, across restarts and
   keyrings that are locked or forget, but for three ways to lose it: two
   commands updating the bundle at once, a keyring that missed a write and is
   preferred to the file afterwards, and a stop between truncating and writing
   the file. *)
SavedSecretIsRead ==
  ~raced /\ ~shadowed /\ ~torn =>
    \A b \in Readings, a \in Account : saved[a] # 0 => b[a] \in {saved[a]} \cup lostSaves
=============================================================================
