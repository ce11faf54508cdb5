----------------------------- MODULE ConfigSync -----------------------------
(***************************************************************************)
(* The configuration transaction of fry-config in production mode          *)
(* (apps/config/sync/sync.c, sync/rollback.c, renderer/renderer.c and the  *)
(* renderer script scripts/openwrt/renderer_applier.uc).                   *)
(*                                                                         *)
(* One run of config_sync_task fetches the configuration the server wants, *)
(* renders it into UCI, restarts the services whose section changed, and   *)
(* then either saves four kinds of files (section hashes, global hash,     *)
(* section copies, whole configuration) or rolls back: only the failed     *)
(* services when a restart failed, everything when the script failed.      *)
(*                                                                         *)
(* A configuration is a function from sections to values (Absent when the  *)
(* server sends no such section).  A hash is modelled by the value it is   *)
(* the hash of: DJB2 collisions are left out.  What UCI holds of a section *)
(* is the value rendered last and the stray options beside it: the script  *)
(* empties the sections of the services and of openNDS before it sets      *)
(* their options, but only adds to those of wireless.  The process may be  *)
(* killed between any two steps, and a file it was writing is then empty.  *)
(***************************************************************************)
EXTENDS Naturals, Sequences

CONSTANTS
  Sections,     \* the service sections that are configured
  Values,       \* what a section can be set to
  Absent,       \* the server's configuration has no such section
  None,         \* file missing or empty
  NotLoaded,    \* the in-memory hash has not been read from disk yet
  Factory,      \* what UCI holds for a section the server never set
  Options,      \* the options that a section can have
  OptionsOf,    \* those that a value sets
  Stopped,      \* the service is down
  Configs,      \* configurations the server can hold
  Priors,       \* what the device has already applied in full (or None)
  NextConfigs,  \* how the server may change its mind
  Decisions,    \* the same if it never returns to an earlier configuration
  FaultSets,    \* which kinds of faults can happen together in a behaviour
  MaxFaults     \* bound: how many faults

ConfigNames == {"wireless", "opennds", "fry-collector", "fry-agent", "fry-config"}
FaultKinds  == {"script", "commit", "restart", "rollback", "crash", "full", "package", "return"}

ASSUME ConfigSyncAssumption ==
  /\ Sections \subseteq ConfigNames
  /\ {Absent, None, NotLoaded, Factory, Stopped} \cap Values = {}
  /\ Absent # None /\ NotLoaded # None /\ Stopped # None
  /\ OptionsOf \in [Values \cup {Factory} -> SUBSET Options]
  /\ Configs \subseteq [Sections -> Values \cup {Absent}]
  /\ None \notin [Sections -> Values \cup {Absent}]
  /\ Priors \subseteq Configs \cup {None}
  /\ NextConfigs \in [Configs -> SUBSET Configs]
  /\ Decisions \in [Configs -> SUBSET Configs]
  /\ FaultSets \subseteq SUBSET FaultKinds
  /\ MaxFaults \in Nat

ASSUME NeverReturns ==
  \A c \in Configs :
    c \notin Decisions[c] /\ \A d \in Decisions[c] : Decisions[d] \subseteq Decisions[c]

VARIABLES
  target,        \* the configuration the server wants the device to have
  mayFail,       \* the kinds of faults that happen in this behaviour
  globalHash,    \* flash: global_config.hash
  sectionHash,   \* flash: <section>.hash
  savedSection,  \* flash: rollback copy of each section
  savedConfig,   \* flash: rollback copy of the whole configuration
  uci,           \* flash: the value rendered last in /etc/config
  stray,         \* flash: options beside those of that value
  running,       \* the value each service was last started with
  strayRunning,  \* the stray options it was started with
  memHash,       \* memory: last_*_hash together with *_hash_loaded
  pc,            \* where config_sync_task is
  job,           \* which apply the renderer script serves
  current,       \* the configuration being applied
  doc,           \* the document handed to the renderer script
  todo,          \* sections the current loop has not reached
  rollTodo,      \* failed sections whose rollback was not tried yet
  affected,      \* needs: sections whose hash changed
  successful,    \* last_successful_services
  failed,        \* app_result.failed_services
  errors,        \* something went wrong while rolling back
  rolledBack,    \* the rollback reported success
  reloaded,      \* fry-config asked init to restart itself
  status,        \* the outcome that goes into the report
  faults,        \* faults so far
  proven         \* history: values each service was ever started with

world    == <<target, mayFail>>
disk     == <<globalHash, sectionHash, savedSection, savedConfig>>
rendered == <<uci, stray>>
services == <<running, strayRunning>>
result   == <<successful, failed, errors, rolledBack, reloaded, status>>
task     == <<pc, job, current, doc, todo, rollTodo, affected, result>>
vars     == <<world, disk, rendered, services, memHash, task, faults, proven>>

\* The order in which the services are restarted, their copies saved and their
\* rollback applied; and the order of commits and of hash files.
RestartOrder == <<"wireless", "opennds", "fry-collector", "fry-agent", "fry-config">>
CommitOrder  == <<"wireless", "fry-agent", "fry-collector", "fry-config", "opennds">>

\* s comes before the other members of S.
IsFirst(s, S, order) ==
  /\ s \in S
  /\ \A i, j \in DOMAIN order : order[i] = s /\ order[j] \in S => i <= j

Present(c) == {s \in Sections : c[s] # Absent}

Fault(kind) ==
  /\ kind \in mayFail
  /\ faults < MaxFaults
  /\ faults' = faults + 1

\* check_section_changed: the hash is read from disk when it is not in memory.
ForgetToLoad(s) == IF memHash[s] = NotLoaded THEN None ELSE memHash[s]
LoadedHash(s) == IF memHash[s] = NotLoaded THEN sectionHash[s] ELSE memHash[s]

\* reset_config_section_hashes: no hash is in memory.
Forgotten == [s \in Sections |-> NotLoaded]

\* last_successful_services: the sections that may be saved after the restarts.
SaveWhatFailedToo == affected
Confirmed == successful

\* services_restarted_successfully: whether everything may be saved.
FailuresIgnored == "success"
Outcome == IF failed = {} THEN "success" ELSE "services_failed"

\* A file gets its new content, or keeps the old one or none at all because the
\* flash is full: nobody looks at whether a save succeeded.
Written(new, old, content) ==
  \/ content = new /\ UNCHANGED faults
  \/ content \in {old, None} /\ Fault("full")

\* load_successful_config_section: NULL when no copy was ever saved.
CopyAssumed(s) == TRUE
HasCopy(s) == savedSection[s] # None

\* The wrapper document that execute_services_rollback gives the script.
NewSectionAgain(s) == [t \in Sections |-> IF t = s THEN current[s] ELSE Absent]
RollbackDoc(s) == [t \in Sections |-> IF t = s THEN savedSection[s] ELSE Absent]

\* applyWirelessConfig sets the options of the document over those that are
\* there; applyFryConfig and applyOpenNdsConfig delete what is there first (for
\* openNDS: the one UCI section that the documents name).
Cleared == ConfigNames \ {"wireless"}

\* The options beside those of value once it is rendered over old and the stray
\* options there.
Beside(s, value, old, there) ==
  IF s \in Cleared THEN {} ELSE (OptionsOf[old] \cup there) \ OptionsOf[value]

\* Whether a rollback counts as completed.
RestartErrorsIgnored == FALSE
RollbackFailed == errors
-----------------------------------------------------------------------------
Init ==
  \E prior \in Priors :
    LET Held(default) == IF prior = None
                         THEN [s \in Sections |-> default]
                         ELSE [s \in Sections |-> IF prior[s] = Absent THEN default ELSE prior[s]]
    IN
    /\ mayFail \in FaultSets
    /\ target \in IF prior = None \/ "return" \in mayFail THEN Configs ELSE {prior} \cup Decisions[prior]
    /\ globalHash = prior
    /\ savedConfig = prior
    /\ sectionHash = Held(None)
    /\ savedSection = Held(None)
    /\ uci = Held(Factory) /\ stray = [s \in Sections |-> Beside(s, uci[s], Factory, {})]
    /\ running = uci /\ strayRunning = stray
    /\ proven = [s \in Sections |-> {running[s]}]
    /\ memHash = Forgotten
    /\ pc = "idle" /\ job = "sync"
    /\ current = None /\ doc = None
    /\ todo = {} /\ rollTodo = {} /\ affected = {}
    /\ successful = {} /\ failed = {}
    /\ errors = FALSE /\ rolledBack = FALSE /\ reloaded = FALSE
    /\ status = "none"
    /\ faults = 0

\* The server decides on another configuration.
SetTarget ==
  /\ target' \in (IF "return" \in mayFail THEN NextConfigs ELSE Decisions)[target]
  /\ UNCHANGED <<mayFail, disk, rendered, services, memHash, task, faults, proven>>

\* config_sync_task: the server answers 200 with its configuration unless the
\* global hash it is sent is the one it holds.  Each hash is read from disk
\* when it is not in memory; the sections whose hash differs are affected.
Fetch ==
  /\ pc = "idle"
  /\ globalHash # target
  /\ memHash' = [s \in Sections |-> LoadedHash(s)]
  /\ affected' = {s \in Present(target) : target[s] # memHash'[s]}
  /\ current' = target /\ doc' = target
  /\ pc' = "script" /\ job' = "sync"
  /\ UNCHANGED <<world, disk, rendered, services, todo, rollTodo, result, faults, proven>>

\* apply_config_without_restarts: the script validates the whole document
\* before it commits anything.
ScriptAccepts ==
  /\ pc = "script"
  /\ pc' = "commit"
  /\ todo' = Present(doc)
  /\ UNCHANGED <<world, disk, rendered, services, memHash, job, current, doc, rollTodo,
                 affected, result, faults, proven>>

\* The script exits with an error: execute_script_rollback for the fetched
\* configuration, an error for the rollback in which it happens.
ScriptFails ==
  /\ pc = "script"
  /\ Fault("script")
  /\ \/ /\ job = "sync" /\ savedConfig = None
        /\ pc' = "report" /\ status' = "script_failed"
        /\ UNCHANGED <<job, doc, errors>>
     \/ /\ job = "sync" /\ savedConfig # None
        /\ pc' = "script" /\ status' = "script_failed"
        /\ job' = "complete" /\ doc' = savedConfig
        /\ UNCHANGED errors
     \/ /\ job = "complete"
        /\ pc' = "report"
        /\ UNCHANGED <<job, doc, errors, status>>
     \/ /\ job = "granular"
        /\ pc' = "granular"
        /\ errors' = TRUE
        /\ UNCHANGED <<job, doc, status>>
  /\ UNCHANGED <<world, disk, rendered, services, memHash, current, todo, rollTodo, affected,
                 successful, failed, rolledBack, reloaded, proven>>

\* The commit loop of the script: the options of the document, and beside them
\* those that are left.  A commit that fails is only a warning.
CommitPackage ==
  /\ pc = "commit"
  /\ \E s \in todo :
       /\ IsFirst(s, todo, CommitOrder)
       /\ todo' = todo \ {s}
       /\ \/ /\ uci' = [uci EXCEPT ![s] = doc[s]]
             /\ stray' = [stray EXCEPT ![s] = Beside(s, doc[s], uci[s], stray[s])]
             /\ UNCHANGED faults
          \/ Fault("commit") /\ UNCHANGED rendered
  /\ UNCHANGED <<world, disk, services, memHash, pc, job, current, doc, rollTodo,
                 affected, result, proven>>

\* The script is done: restart what the caller of the script restarts.
ScriptDone ==
  /\ pc = "commit" /\ todo = {}
  /\ \/ job = "sync" /\ pc' = "restart" /\ todo' = affected
     \/ job = "complete" /\ pc' = "restart" /\ todo' = Sections
     \/ job = "granular" /\ pc' = "granular" /\ todo' = {}
  /\ UNCHANGED <<world, disk, rendered, services, memHash, job, current, doc, rollTodo,
                 affected, result, faults, proven>>

\* restart_services_production, restart_specific_services: one service.
RestartSucceeds(s) ==
  /\ running' = [running EXCEPT ![s] = uci[s]]
  /\ strayRunning' = [strayRunning EXCEPT ![s] = stray[s]]
  /\ proven' = [proven EXCEPT ![s] = @ \cup {uci[s]}]
  /\ successful' = IF job = "sync" THEN successful \cup {s} ELSE successful
  /\ reloaded' = (reloaded \/ s = "fry-config")
  /\ UNCHANGED <<faults, failed, errors>>

\* A failed restart leaves the service as it was or takes it down.
RestartFails(s) ==
  /\ Fault(IF job = "sync" THEN "restart" ELSE "rollback")
  /\ \E r \in {running[s], Stopped} : running' = [running EXCEPT ![s] = r]
  /\ IF job = "sync" THEN failed' = failed \cup {s} /\ UNCHANGED errors
                     ELSE errors' = TRUE /\ UNCHANGED failed
  /\ UNCHANGED <<strayRunning, proven, successful, reloaded>>

RestartService ==
  /\ pc = "restart"
  /\ \E s \in todo :
       /\ IsFirst(s, todo, RestartOrder)
       /\ todo' = todo \ {s}
       /\ RestartSucceeds(s) \/ RestartFails(s)
  /\ UNCHANGED <<world, disk, rendered, memHash, pc, job, current, doc, rollTodo, affected,
                 rolledBack, status>>

\* After the restarts of the fetched configuration: save all, or save what
\* succeeded and roll the rest back.
SyncRestartsDone ==
  /\ pc = "restart" /\ todo = {} /\ job = "sync"
  /\ pc' = "saveHashes" /\ todo' = Confirmed
  /\ status' = Outcome
  /\ UNCHANGED <<world, disk, rendered, services, memHash, job, current, doc, rollTodo, affected,
                 successful, failed, errors, rolledBack, reloaded, faults, proven>>

\* After the restarts of a rollback: without an error the hashes in memory are
\* forgotten so that they are read again from disk.
RollbackRestartsDone ==
  /\ pc = "restart" /\ todo = {} /\ job # "sync"
  /\ pc' = "report"
  /\ IF RollbackFailed
     THEN UNCHANGED <<memHash, rolledBack, successful, failed>>
     ELSE /\ memHash' = Forgotten
          /\ rolledBack' = TRUE
          /\ successful' = IF job = "complete" THEN {} ELSE successful
          /\ failed' = IF job = "complete" THEN affected ELSE failed
  /\ UNCHANGED <<world, disk, rendered, services, job, current, doc, todo, rollTodo, affected,
                 errors, reloaded, status, faults, proven>>

\* save_all_successful_section_hashes: memory first, then the file.
SaveSectionHash ==
  /\ pc = "saveHashes"
  /\ \E s \in todo :
       /\ IsFirst(s, todo, CommitOrder)
       /\ todo' = todo \ {s}
       /\ memHash' = [memHash EXCEPT ![s] = current[s]]
       /\ \E hash \in {current[s], sectionHash[s], None} :
            /\ Written(current[s], sectionHash[s], hash)
            /\ sectionHash' = [sectionHash EXCEPT ![s] = hash]
  /\ UNCHANGED <<world, globalHash, savedSection, savedConfig, rendered, services, pc, job, current,
                 doc, rollTodo, affected, result, proven>>

\* save_global_config_hash, only when every service restarted.
SaveGlobalHash ==
  /\ pc = "saveHashes" /\ todo = {}
  /\ IF status = "success" THEN Written(current, globalHash, globalHash')
                           ELSE UNCHANGED <<globalHash, faults>>
  /\ pc' = "saveSections" /\ todo' = Confirmed
  /\ UNCHANGED <<world, sectionHash, savedSection, savedConfig, rendered, services, memHash, job,
                 current, doc, rollTodo, affected, result, proven>>

\* save_successful_sections: the copies a granular rollback restores.
SaveSection ==
  /\ pc = "saveSections"
  /\ \E s \in todo :
       /\ IsFirst(s, todo, RestartOrder)
       /\ todo' = todo \ {s}
       /\ \E copy \in {current[s], savedSection[s], None} :
            /\ Written(current[s], savedSection[s], copy)
            /\ savedSection' = [savedSection EXCEPT ![s] = copy]
  /\ UNCHANGED <<world, globalHash, sectionHash, savedConfig, rendered, services, memHash, pc, job,
                 current, doc, rollTodo, affected, result, proven>>

\* save_successful_config, the copy a complete rollback restores; with failed
\* services the granular rollback starts instead.
SaveConfig ==
  /\ pc = "saveSections" /\ todo = {}
  /\ IF status = "success"
     THEN /\ Written(current, savedConfig, savedConfig')
          /\ pc' = "report" /\ UNCHANGED <<rollTodo, job>>
     ELSE /\ pc' = "granular" /\ job' = "granular" /\ rollTodo' = failed
          /\ UNCHANGED <<savedConfig, faults>>
  /\ UNCHANGED <<world, globalHash, sectionHash, savedSection, rendered, services, memHash, current,
                 doc, todo, affected, result, proven>>

\* execute_services_rollback, one failed service: hand its saved copy alone to
\* the script, or count an error when there is none.
RollBackSection ==
  /\ pc = "granular"
  /\ \E s \in rollTodo :
       /\ IsFirst(s, rollTodo, RestartOrder)
       /\ rollTodo' = rollTodo \ {s}
       /\ IF HasCopy(s)
          THEN doc' = RollbackDoc(s) /\ pc' = "script" /\ UNCHANGED errors
          ELSE errors' = TRUE /\ UNCHANGED <<pc, doc>>
  /\ UNCHANGED <<world, disk, rendered, services, memHash, job, current, todo, affected, successful,
                 failed, rolledBack, reloaded, status, faults, proven>>

\* Nothing is restarted unless every failed service got its old copy back.
RestartRolledBack ==
  /\ pc = "granular" /\ rollTodo = {}
  /\ IF errors THEN pc' = "report" /\ UNCHANGED todo
               ELSE pc' = "restart" /\ todo' = failed
  /\ UNCHANGED <<world, disk, rendered, services, memHash, job, current, doc, rollTodo, affected,
                 result, faults, proven>>

TaskOver ==
  /\ pc' = "idle" /\ job' = "sync"
  /\ current' = None /\ doc' = None
  /\ todo' = {} /\ rollTodo' = {} /\ affected' = {}
  /\ successful' = {} /\ failed' = {}
  /\ errors' = FALSE /\ rolledBack' = FALSE /\ reloaded' = FALSE
  /\ status' = "none"

\* The report is sent, whether or not it arrives.  If fry-config was reloaded,
\* init replaces the process when the callback returns.
Report ==
  /\ pc = "report"
  /\ memHash' = IF reloaded THEN Forgotten ELSE memHash
  /\ TaskOver
  /\ UNCHANGED <<world, disk, rendered, services, faults, proven>>

\* What a kill leaves on flash: the file being written may be empty.
TornWrite ==
  \/ UNCHANGED disk
  \/ /\ pc = "saveHashes"
     /\ \E s \in todo :
          /\ IsFirst(s, todo, CommitOrder)
          /\ sectionHash' = [sectionHash EXCEPT ![s] = None]
     /\ UNCHANGED <<globalHash, savedSection, savedConfig>>
  \/ /\ pc = "saveHashes" /\ todo = {} /\ status = "success"
     /\ globalHash' = None
     /\ UNCHANGED <<sectionHash, savedSection, savedConfig>>
  \/ /\ pc = "saveSections"
     /\ \E s \in todo :
          /\ IsFirst(s, todo, RestartOrder)
          /\ savedSection' = [savedSection EXCEPT ![s] = None]
     /\ UNCHANGED <<globalHash, sectionHash, savedConfig>>
  \/ /\ pc = "saveSections" /\ todo = {} /\ status = "success"
     /\ savedConfig' = None
     /\ UNCHANGED <<globalHash, sectionHash, savedSection>>

\* The process is killed (the services go on) or the router reboots (every
\* service starts from UCI).
Crash ==
  /\ Fault("crash")
  /\ TornWrite
  /\ memHash' = Forgotten
  /\ UNCHANGED services \/ (running' = uci /\ strayRunning' = stray)
  /\ TaskOver
  /\ UNCHANGED <<world, rendered, proven>>

\* The agent replaces the package (PackageUpdate): its services are stopped,
\* their configuration is deleted and they start with that of the new package;
\* what fry-config keeps on flash stays as it is.  No stray options are among
\* what is deleted, because these sections are emptied before they are set.
OfPackage == {"fry-agent", "fry-collector", "fry-config"}

ReplacePackage ==
  LET Replaced(held) == [s \in Sections |-> IF s \in OfPackage THEN Factory ELSE held[s]]
  IN  /\ Fault("package")
      /\ TornWrite
      /\ memHash' = Forgotten
      /\ uci' = Replaced(uci) /\ running' = Replaced(running)
      /\ proven' = [s \in Sections |-> proven[s] \cup ({Factory} \cap {running'[s]})]
      /\ TaskOver
      /\ UNCHANGED <<world, stray, strayRunning>>

Step ==
  \/ Fetch \/ ScriptAccepts \/ ScriptFails \/ CommitPackage \/ ScriptDone
  \/ RestartService \/ SyncRestartsDone \/ RollbackRestartsDone
  \/ SaveSectionHash \/ SaveGlobalHash \/ SaveSection \/ SaveConfig
  \/ RollBackSection \/ RestartRolledBack \/ Report

Next == Step \/ SetTarget \/ Crash \/ ReplacePackage

Spec == Init /\ [][Next]_vars

\* The task is a repeating uloop timer, so an enabled step is taken in the end.
FairSpec == Spec /\ WF_vars(Step)
-----------------------------------------------------------------------------
MaybeValue == Values \cup {None}
OnRouter   == Values \cup {Factory}
Documents  == [Sections -> Values \cup {Absent}]

\* Every variable keeps its type: the files, UCI and the services of the
\* router, and the locals of config_sync_task.
TypeOK ==
  /\ target \in Configs /\ mayFail \in FaultSets
  /\ globalHash \in Configs \cup {None}
  /\ savedConfig \in Configs \cup {None}
  /\ sectionHash \in [Sections -> MaybeValue]
  /\ savedSection \in [Sections -> MaybeValue]
  /\ uci \in [Sections -> OnRouter]
  /\ stray \in [Sections -> SUBSET Options] /\ strayRunning \in [Sections -> SUBSET Options]
  /\ running \in [Sections -> OnRouter \cup {Stopped}]
  /\ proven \in [Sections -> SUBSET OnRouter]
  /\ memHash \in [Sections -> MaybeValue \cup {NotLoaded}]
  /\ pc \in {"idle", "script", "commit", "restart", "saveHashes", "saveSections",
             "granular", "report"}
  /\ job \in {"sync", "complete", "granular"}
  /\ current \in Configs \cup {None}
  /\ doc \in Documents \cup {None}
  /\ pc # "idle" => current # None /\ doc # None
  /\ todo \subseteq Sections /\ rollTodo \subseteq Sections
  /\ affected \subseteq Sections /\ successful \subseteq Sections /\ failed \subseteq Sections
  /\ errors \in BOOLEAN /\ rolledBack \in BOOLEAN /\ reloaded \in BOOLEAN
  /\ status \in {"none", "success", "services_failed", "script_failed"}
  /\ faults \in Nat

\* Whatever the device remembers as good (hashes, section copies, the whole
\* configuration, the hash it reports to the server) was once running: the
\* value of every section of it has been through a restart that succeeded.  A
\* rollback therefore never brings in a value that was not tried, however
\* kills, failures and rollbacks alternate (sync.c:739-773).  It does not hold
\* when commits of the script fail, because nobody learns of it.
PersistedProven ==
  "commit" \notin mayFail =>
    /\ \A s \in Sections :
         /\ sectionHash[s] # None => sectionHash[s] \in proven[s]
         /\ savedSection[s] # None => savedSection[s] \in proven[s]
    /\ \A c \in {globalHash, savedConfig} \ {None} :
         \A s \in Present(c) : c[s] \in proven[s]

\* A hash in memory is the hash on disk or is not trusted: neither a rollback
\* nor a reload nor a kill between two saves leaves a stale one (the cache of
\* renderer.c:184-238, invalidated at renderer.c:277-291).  A hash that does
\* not fit on the flash is in memory only.
CacheFresh ==
  "full" \notin mayFail => \A s \in Sections : memHash[s] \in {NotLoaded, sectionHash[s]}

\* What may be left beside a value: nothing in the sections that are emptied
\* first; in wireless any options but those of the value, which are its own
\* (renderer_applier.uc:131-152): also those of a configuration that was
\* abandoned, because a rollback is rendered in the same way.
MayRemain(s, value) == IF s = "wireless" THEN Options \ OptionsOf[value] ELSE {}

RendersAs(s, value) == uci[s] = value /\ stray[s] \subseteq MayRemain(s, value)
RunsAs(s, value) == running[s] = value /\ strayRunning[s] \subseteq MayRemain(s, value)

\* The report the server gets is true of the router when it is sent: services
\* reported as restarted run all that the new configuration sets, services
\* reported as rolled back all that the rollback files set, and nothing else
\* but wireless, in which options of the configuration that failed remain
\* (sync.c:739-802).  It does not hold when commits of the script fail: they are
\* warnings and the service is restarted with its old package
\* (renderer_applier.uc:267-276).  What is reported was saved as well, unless
\* the flash was full.
ReportTruthful ==
  pc = "report" /\ "commit" \notin mayFail =>
    /\ status = "success" =>
         \A s \in affected :
           RunsAs(s, current[s]) /\ ("full" \in mayFail \/ sectionHash[s] = current[s])
    /\ status = "services_failed" =>
         /\ \A s \in successful :
              RunsAs(s, current[s]) /\ ("full" \in mayFail \/ savedSection[s] = current[s])
         /\ rolledBack => \A s \in failed : RunsAs(s, savedSection[s])
    /\ status = "script_failed" /\ rolledBack =>
         \A s \in Present(savedConfig) : RunsAs(s, savedConfig[s])

\* After a complete rollback the stored hashes are those of what the services
\* run again (rollback.c:461-462: "Reset section hashes to force reload from
\* disk on next check / This ensures they reflect the actual rollback state").
HashesReflectRollback ==
  pc = "report" /\ job = "complete" /\ rolledBack =>
    \A s \in Present(savedConfig) : sectionHash[s] = running[s]

\* Between two runs of the task a section with a stored hash is rendered,
\* running and kept for rollback with the value of that hash (wireless possibly
\* with stray options beside it, which are skipped along with it), so that
\* skipping the restart of an "unchanged" section leaves out nothing that the
\* server set (renderer.c:184-222): granular rollbacks keep it so, whichever
\* first restarts fail, and complete rollbacks keep it so, whichever scripts
\* fail.  One after the other they do not, nor does a rollback that fails, nor
\* one on a device that has no copy of some section yet: it restarts nothing
\* (rollback.c:791-796).
WasConfigured == \A s \in Sections : Factory \notin proven[s]
OneKindFails  == mayFail \subseteq {"restart", "return"} \/ mayFail \subseteq {"script", "return"}

Coherent ==
  pc = "idle" /\ WasConfigured /\ OneKindFails =>
    \A s \in Sections : sectionHash[s] # None =>
      /\ RendersAs(s, sectionHash[s])
      /\ RunsAs(s, sectionHash[s])
      /\ savedSection[s] = sectionHash[s]

RunsTarget == \A s \in Present(target) : RunsAs(s, target[s])

\* When the server finds the hash the device sends equal to its own and sends
\* nothing, the device runs what the server wants (docs/hashed_configurations.md
\* step 3: in that case "estan en sync").
InSyncMeansRunning == pc = "idle" /\ globalHash = target => RunsTarget

\* The same as far as first restarts alone fail and the server never returns to
\* an earlier configuration: all that it sets is rendered, and it is running too
\* on a device that has a copy of every section.  Nothing else is rendered, but
\* for wireless, which may keep options of a configuration that was rolled back:
\* equal hashes do not tell the server.  Without a copy of one section the
\* granular rollback restarts nothing (rollback.c:791-796); a service that a
\* failed restart took down stays down, and its hash says that it is unchanged.
InSyncAfterRestarts ==
  mayFail \subseteq {"restart"} /\ pc = "idle" /\ globalHash = target =>
    \A s \in Present(target) :
      /\ RendersAs(s, target[s])
      /\ RunsAs(s, target[s]) \/ running[s] = Stopped
      /\ WasConfigured => RunsAs(s, target[s])

\* Once the server keeps to one configuration every service comes to run its
\* section of it and stays there (sync.c:673-806, repeated by the scheduler), if
\* the faults of the instance are finitely many, none of them leaves hashes on
\* flash that are newer than what runs, and no decision of the server sets a
\* section back to a value that it had before.  Such a decision leaves a service
\* down: one that a failed restart stopped, and whose rollback failed, was not
\* tried (rollback.c:791-796) or was cut short by a kill, has the hash of the
\* old value and counts as unchanged when that value is wanted again.
Deceptive == {"commit", "script", "full", "package"}

NoSectionReturns ==
  \A c \in Configs : \A d \in Decisions[c] : \A e \in Decisions[d] : \A s \in Present(c) :
    e[s] = c[s] => d[s] = c[s]

Converges ==
  NoSectionReturns /\ mayFail \cap Deceptive = {} /\ "return" \notin mayFail =>
    \A c \in Configs : <>[](target = c) => <>[]RunsTarget
=============================================================================
