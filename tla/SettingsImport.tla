---------------------------- MODULE SettingsImport ----------------------------
(***************************************************************************)
(* The settings file and its past (config/loader.ts, config/migrations):   *)
(* process.json of 0.9.4 becomes processes.json once, and is brought to    *)
(* the current schema when it is loaded. Several instances of Pi start, in *)
(* the same directory, while one of 0.9.4 may still write its own file.    *)
(***************************************************************************)
EXTENDS Integers, FiniteSets

CONSTANT Instances

VARIABLES
    legacy,   \* process.json
    file,     \* processes.json
    pi        \* of each instance: how far it is, what it loaded, what it will say

settingsVars == <<legacy, file, pi>>

(* A file that is not there, does not parse to an object, or is half copied. *)
Absent == [is |-> "absent"]
Invalid == [is |-> "invalid"]
Half == [is |-> "half"]

(* Versions: none, CONFIG_VERSION_V0100, PROCESS_CONFIG_VERSION. *)
Unstamped == 0
V0100 == 1
Current == 2

(* Of the settings: the dock's first state; one that both schemas have, whose
   value tells who chose it; one that is newer than 0.10.0; and one that ended
   with 0.9.4. *)
Config(version, dock, shared, newer, ended) ==
    [is |-> "config", version |-> version, dock |-> dock, shared |-> shared,
     newer |-> newer, ended |-> ended]

LegacyConfigs ==
    {Config(Unstamped, dock, shared, FALSE, TRUE) :
        dock \in {"unset", "hidden", "collapsed"}, shared \in {"unset", "legacy"}}

Defaults == Config(Current, "unset", "unset", FALSE, FALSE)

-----------------------------------------------------------------------------
(* The schema *)

needsConfigV094ToV0100Migration(config) ==
    config.version < V0100 /\ config.dock = "hidden"

(* The keys of 0.9.4 that are left, and no others. *)
migrateConfigV094ToV0100(config) ==
    [config EXCEPT !.version = V0100, !.dock = IF @ = "hidden" THEN "closed" ELSE @,
                   !.newer = FALSE, !.ended = FALSE]

(* configVersionStampMigration leaves the settings alone. *)
Stamped(config) == [config EXCEPT !.version = Current]

Migrated(config) ==
    IF config.version = Current THEN config
    ELSE Stamped(IF needsConfigV094ToV0100Migration(config)
                 THEN migrateConfigV094ToV0100(config) ELSE config)

-----------------------------------------------------------------------------
(* importLegacyProcessConfig: look, read, copy. *)

Finishes(i, message) == pi' = [pi EXCEPT ![i].at = "load", ![i].says = message]

Looks(i) ==
    /\ pi[i].at = "start"
    /\ IF legacy = Absent \/ file # Absent THEN Finishes(i, "nothing")
       ELSE pi' = [pi EXCEPT ![i].at = "read"]
    /\ UNCHANGED <<legacy, file>>

Validates(i) ==
    /\ pi[i].at = "read"
    /\ IF legacy = Invalid THEN Finishes(i, "invalid") ELSE pi' = [pi EXCEPT ![i].at = "copy"]
    /\ UNCHANGED <<legacy, file>>

(* COPYFILE_EXCL *)
MayCreate_Always == TRUE
MayCreate == file = Absent

Creates(i) ==
    /\ pi[i].at = "copy"
    /\ IF MayCreate THEN file' = Half /\ pi' = [pi EXCEPT ![i].at = "fill"]
       ELSE Finishes(i, "nothing") /\ UNCHANGED file
    /\ UNCHANGED legacy

Fills(i) ==
    /\ pi[i].at = "fill"
    /\ file' = legacy /\ Finishes(i, "imported")
    /\ UNCHANGED legacy

(* ConfigLoader.load: what does not parse is left alone, for the defaults. *)
Loads(i) ==
    /\ pi[i].at = "load"
    /\ file' = IF file.is = "config" THEN Migrated(file) ELSE file
    /\ pi' = [pi EXCEPT ![i].at = "ready",
                        ![i].loaded = IF file.is = "config" THEN Migrated(file) ELSE Defaults]
    /\ UNCHANGED legacy

(* The user chooses, in the settings of an instance; a copy is quicker. *)
Saves(i) ==
    /\ pi[i].at = "ready" /\ \A j \in Instances : pi[j].at # "fill"
    /\ \E newer \in {pi[i].loaded.newer, TRUE} :
          pi' = [pi EXCEPT ![i].loaded = [@ EXCEPT !.shared = "chosen", !.newer = newer]]
    /\ file' = pi'[i].loaded
    /\ UNCHANGED legacy

(* It ends, or crashes, and starts again. *)
Restarts(i) ==
    /\ pi[i].at # "start"
    /\ pi' = [pi EXCEPT ![i] = [at |-> "start", loaded |-> Defaults, says |-> "nothing"]]
    /\ UNCHANGED <<legacy, file>>

(* An instance of 0.9.4 saves its own settings. *)
LegacySaves ==
    /\ legacy \in LegacyConfigs
    /\ legacy' \in LegacyConfigs
    /\ UNCHANGED <<file, pi>>

-----------------------------------------------------------------------------
SettingsInit ==
    /\ legacy \in {Absent, Invalid} \cup LegacyConfigs
    /\ file \in {Absent, Config(Unstamped, "hidden", "chosen", FALSE, TRUE),
                 Config(V0100, "closed", "chosen", FALSE, FALSE),
                 Config(V0100, "hidden", "chosen", TRUE, FALSE)}
    /\ pi = [i \in Instances |-> [at |-> "start", loaded |-> Defaults, says |-> "nothing"]]

SettingsNext ==
    \/ \E i \in Instances :
          \/ Looks(i) \/ Validates(i) \/ Creates(i) \/ Fills(i)
          \/ Loads(i) \/ Saves(i) \/ Restarts(i)
    \/ LegacySaves

SettingsSpec == SettingsInit /\ [][SettingsNext]_settingsVars

-----------------------------------------------------------------------------
(* Properties *)

(* The same settings to a user of the current schema. *)
SameSettings(new, old) ==
    /\ new.shared = old.shared /\ new.newer = old.newer
    /\ new.dock = old.dock \/ (old.dock = "hidden" /\ old.version = Unstamped /\ new.dock = "closed")
    /\ new.ended => old.ended

(* Once there is a settings file, nothing but the user's choice changes what it
   says: no import and no migration of another instance, however they meet. *)
FileIsKept ==
    file.is = "config" /\ file' # file =>
        file'.is = "config" /\ (SameSettings(file', file) \/ \E i \in Instances : Saves(i))

(* Who said that the settings were imported loads them, or what became of them
   in the meantime. Who loads the defaults did so because there was nothing to
   load, told the user what was wrong, or found a copy that is not whole; in that
   case the old settings are passed over, though the import means the migration
   to run "on the real 0.9.4 data instead of defaults"
   (migrations/000-import-legacy-process-config.ts:40). *)
LoadsTheSettings(i) ==
    pi'[i].at = "ready" /\ pi[i].at = "load" =>
        IF file.is = "config" THEN SameSettings(pi'[i].loaded, file)
        ELSE \/ pi[i].says = "invalid" \/ legacy \in {Absent, Invalid}
             \/ pi[i].says = "nothing" /\ file = Half

SettingsAreKept ==
    [][FileIsKept /\ \A i \in Instances : LoadsTheSettings(i)]_settingsVars
===============================================================================
