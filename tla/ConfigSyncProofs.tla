-------------------------- MODULE ConfigSyncProofs --------------------------
(***************************************************************************)
(* What holds of the configuration transaction for every set of sections,  *)
(* values, configurations and faults: its types, the freshness of the      *)
(* hash cache, that only values that were running are kept on flash and    *)
(* that reports are true unless commits of the renderer script fail, that  *)
(* hashes, copies, UCI and services agree as far as faults of one kind     *)
(* happen, and what "in sync" means as far as only restarts fail.          *)
(***************************************************************************)
EXTENDS ConfigSync, TLAPS

USE DEF rendered, services

\* What the sections in the loops and lists are, which is what makes a value
\* taken out of a document or a configuration a value and never Absent.
ListsInv ==
  /\ pc = "idle" => affected = {} /\ successful = {}
  /\ pc # "idle" => affected \subseteq Present(current) /\ successful \subseteq Present(current)
  /\ pc = "commit" => todo \subseteq Present(doc)
  /\ pc = "granular" => job # "sync"
  /\ pc = "restart" /\ job = "sync" => todo \subseteq affected
  /\ pc \in {"saveHashes", "saveSections"} => todo \subseteq successful

TypeInv == TypeOK /\ ListsInv

\* Rendering leaves options beside the value, and only where they may remain.
LEMMA BesideType ==
  ASSUME NEW s \in Sections, NEW value, NEW old \in OnRouter, NEW there \in SUBSET Options
  PROVE  /\ Beside(s, value, old, there) \in SUBSET Options
         /\ Beside(s, value, old, there) \subseteq MayRemain(s, value)
  BY ConfigSyncAssumption DEF OnRouter, Beside, Cleared, MayRemain

\* The device starts with files, UCI and services of one configuration.
LEMMA TypeInit == Init => TypeInv
  <1> SUFFICES ASSUME Init PROVE TypeInv
    OBVIOUS
  <1>1. PICK prior \in Priors :
          LET Held(default) == IF prior = None
                               THEN [s \in Sections |-> default]
                               ELSE [s \in Sections |-> IF prior[s] = Absent THEN default ELSE prior[s]]
          IN  /\ target \in IF prior = None \/ "return" \in mayFail THEN Configs
                            ELSE {prior} \cup Decisions[prior]
              /\ globalHash = prior /\ savedConfig = prior
              /\ sectionHash = Held(None) /\ savedSection = Held(None)
              /\ uci = Held(Factory) /\ running = Held(Factory)
              /\ stray = [s \in Sections |-> Beside(s, uci[s], Factory, {})]
              /\ strayRunning = stray
              /\ proven = [s \in Sections |-> {running[s]}]
    BY DEF Init
  <1> USE ConfigSyncAssumption
  <1>2. prior \in Configs \cup {None}
    BY <1>1
  <1>3. \A s \in Sections : prior # None => prior[s] \in Values \cup {Absent}
    BY <1>2
  <1>4. /\ sectionHash \in [Sections -> MaybeValue] /\ savedSection \in [Sections -> MaybeValue]
        /\ uci \in [Sections -> OnRouter] /\ running \in [Sections -> OnRouter \cup {Stopped}]
    BY <1>1, <1>3 DEF MaybeValue, OnRouter
  <1>5. proven \in [Sections -> SUBSET OnRouter]
    BY <1>1, <1>3 DEF OnRouter
  <1>6. memHash \in [Sections -> MaybeValue \cup {NotLoaded}]
    BY DEF Init, Forgotten
  <1>7. target \in Configs
    <2>1. prior # None => {prior} \cup Decisions[prior] \subseteq Configs
      BY <1>2
    <2> QED
      BY <1>1, <2>1
  <1>10. stray \in [Sections -> SUBSET Options] /\ strayRunning \in [Sections -> SUBSET Options]
    BY <1>1, <1>4, BesideType DEF OnRouter
  <1>8. /\ mayFail \in FaultSets
        /\ pc = "idle" /\ job = "sync" /\ current = None /\ doc = None
        /\ todo = {} /\ rollTodo = {} /\ affected = {} /\ successful = {} /\ failed = {}
        /\ errors = FALSE /\ rolledBack = FALSE /\ reloaded = FALSE
        /\ status = "none" /\ faults = 0
    BY DEF Init
  <1>9. TypeOK
    BY <1>1, <1>2, <1>4, <1>5, <1>6, <1>7, <1>8, <1>10 DEF TypeOK
  <1> QED
    BY <1>8, <1>9 DEF TypeInv, ListsInv

\* Every stage, fault and kill keeps the types.
LEMMA TypeStep == TypeInv /\ [Next]_vars => TypeInv'
  <1> SUFFICES ASSUME TypeInv, [Next]_vars PROVE TypeInv'
    OBVIOUS
  <1> USE ConfigSyncAssumption DEF TypeInv, TypeOK, ListsInv, world, disk, result, task
  <1>0. CASE UNCHANGED vars
    BY <1>0 DEF vars, Present
  <1>1. CASE SetTarget
    BY <1>1 DEF SetTarget, Present
  <1>2. CASE Fetch
    BY <1>2 DEF Fetch, LoadedHash, Present, Documents, MaybeValue
  <1>3. CASE ScriptAccepts
    BY <1>3 DEF ScriptAccepts, Present
  <1>4. CASE ScriptFails
    <2>1. savedConfig # None => savedConfig \in Documents
      BY DEF Documents
    <2>2. faults' \in Nat
      BY <1>4 DEF ScriptFails, Fault
    <2>3. CASE job = "sync" /\ savedConfig = None
      BY <1>4, <2>2, <2>3 DEF ScriptFails, Present
    <2>4. CASE job = "sync" /\ savedConfig # None
      BY <1>4, <2>1, <2>2, <2>4 DEF ScriptFails, Present
    <2>5. CASE job # "sync"
      BY <1>4, <2>2, <2>5 DEF ScriptFails, Present
    <2> QED
      BY <2>3, <2>4, <2>5
  <1>5. CASE CommitPackage
    <2>1. PICK s \in todo : /\ todo' = todo \ {s}
                            /\ \/ /\ uci' = [uci EXCEPT ![s] = doc[s]]
                                  /\ stray' = [stray EXCEPT ![s] = Beside(s, doc[s], uci[s], stray[s])]
                                  /\ UNCHANGED faults
                               \/ Fault("commit") /\ UNCHANGED rendered
      BY <1>5 DEF CommitPackage
    <2>2. s \in Sections /\ doc[s] \in Values
      BY <1>5, <2>1 DEF CommitPackage, Present, Documents
    <2>3. Beside(s, doc[s], uci[s], stray[s]) \in SUBSET Options
      BY <2>2, BesideType
    <2>4. uci' \in [Sections -> OnRouter] /\ stray' \in [Sections -> SUBSET Options]
      <3>1. doc[s] \in OnRouter
        BY <2>2 DEF OnRouter
      <3>2. CASE UNCHANGED rendered
        BY <3>2
      <3>3. CASE /\ uci' = [uci EXCEPT ![s] = doc[s]]
                 /\ stray' = [stray EXCEPT ![s] = Beside(s, doc[s], uci[s], stray[s])]
        BY <2>2, <2>3, <3>1, <3>3
      <3> QED
        BY <2>1, <3>2, <3>3
    <2>5. faults' \in Nat
      BY <2>1 DEF Fault
    <2> QED
      BY <1>5, <2>1, <2>4, <2>5 DEF CommitPackage, Present
  <1>6. CASE ScriptDone
    BY <1>6 DEF ScriptDone, Present
  <1>7. CASE RestartService
    <2>1. PICK s \in todo : /\ todo' = todo \ {s}
                            /\ RestartSucceeds(s) \/ RestartFails(s)
      BY <1>7 DEF RestartService
    <2>2. UNCHANGED <<world, disk, rendered, memHash, pc, job, current, doc, rollTodo, affected,
                      rolledBack, status>>
      BY <1>7 DEF RestartService
    <2>3. pc = "restart"
      BY <1>7 DEF RestartService
    <2>4. CASE RestartSucceeds(s)
      BY <2>1, <2>2, <2>3, <2>4 DEF RestartSucceeds, Present
    <2>5. CASE RestartFails(s)
      <3>1. /\ running' \in [Sections -> OnRouter \cup {Stopped}] /\ faults' \in Nat
            /\ failed' \subseteq Sections /\ errors' \in BOOLEAN
        <4>1. PICK r \in {running[s], Stopped} : running' = [running EXCEPT ![s] = r]
          BY <2>5 DEF RestartFails
        <4>2. running' \in [Sections -> OnRouter \cup {Stopped}] /\ faults' \in Nat
          BY <2>1, <2>5, <4>1 DEF RestartFails, Fault
        <4>3. failed' \subseteq Sections /\ errors' \in BOOLEAN
          <5>1. CASE job = "sync"
            BY <2>1, <2>5, <5>1 DEF RestartFails
          <5>2. CASE job # "sync"
            BY <2>1, <2>5, <5>2 DEF RestartFails
          <5> QED
            BY <5>1, <5>2
        <4> QED
          BY <4>2, <4>3
      <3> QED
        BY <2>1, <2>2, <2>3, <2>5, <3>1 DEF RestartFails, Present
    <2> QED
      BY <2>1, <2>4, <2>5
  <1>8. CASE SyncRestartsDone
    BY <1>8 DEF SyncRestartsDone, Present, Confirmed, Outcome
  <1>9. CASE RollbackRestartsDone
    BY <1>9 DEF RollbackRestartsDone, Present, Forgotten, RollbackFailed
  <1>10. CASE SaveSectionHash
    <2>1. PICK s \in todo :
            /\ todo' = todo \ {s} /\ memHash' = [memHash EXCEPT ![s] = current[s]]
            /\ \E hash \in {current[s], sectionHash[s], None} :
                 /\ Written(current[s], sectionHash[s], hash)
                 /\ sectionHash' = [sectionHash EXCEPT ![s] = hash]
      BY <1>10 DEF SaveSectionHash
    <2>2. s \in Sections /\ current[s] \in Values
      BY <1>10, <2>1 DEF SaveSectionHash, Present
    <2>3. sectionHash' \in [Sections -> MaybeValue] /\ memHash' \in [Sections -> MaybeValue \cup {NotLoaded}]
      BY <2>1, <2>2 DEF MaybeValue
    <2>4. faults' \in Nat
      BY <2>1 DEF Written, Fault
    <2> QED
      BY <1>10, <2>1, <2>3, <2>4 DEF SaveSectionHash, Present
  <1>11. CASE SaveGlobalHash
    <2>1. globalHash' \in Configs \cup {None} /\ faults' \in Nat
      BY <1>11 DEF SaveGlobalHash, Written, Fault
    <2> QED
      BY <1>11, <2>1 DEF SaveGlobalHash, Present, Confirmed
  <1>12. CASE SaveSection
    <2>1. PICK s \in todo :
            /\ todo' = todo \ {s}
            /\ \E copy \in {current[s], savedSection[s], None} :
                 /\ Written(current[s], savedSection[s], copy)
                 /\ savedSection' = [savedSection EXCEPT ![s] = copy]
      BY <1>12 DEF SaveSection
    <2>2. s \in Sections /\ current[s] \in Values
      BY <1>12, <2>1 DEF SaveSection, Present
    <2>3. savedSection' \in [Sections -> MaybeValue]
      BY <2>1, <2>2 DEF MaybeValue
    <2>4. faults' \in Nat
      BY <2>1 DEF Written, Fault
    <2> QED
      BY <1>12, <2>1, <2>3, <2>4 DEF SaveSection, Present
  <1>13. CASE SaveConfig
    <2>1. savedConfig' \in Configs \cup {None} /\ faults' \in Nat
      BY <1>13 DEF SaveConfig, Written, Fault
    <2>2. /\ pc' \in {"report", "granular"} /\ job' \in {"sync", "complete", "granular"}
          /\ rollTodo' \subseteq Sections
      BY <1>13 DEF SaveConfig
    <2>3. UNCHANGED <<world, globalHash, sectionHash, savedSection, rendered, services, memHash,
                      current, doc, todo, affected, result, proven>>
      BY <1>13 DEF SaveConfig
    <2> QED
      BY <1>13, <2>1, <2>2, <2>3 DEF SaveConfig, Present
  <1>14. CASE RollBackSection
    <2>1. PICK s \in rollTodo :
            /\ rollTodo' = rollTodo \ {s}
            /\ IF HasCopy(s) THEN doc' = RollbackDoc(s) /\ pc' = "script" /\ UNCHANGED errors
                             ELSE errors' = TRUE /\ UNCHANGED <<pc, doc>>
      BY <1>14 DEF RollBackSection
    <2>2. HasCopy(s) => RollbackDoc(s) \in Documents
      BY <2>1 DEF HasCopy, RollbackDoc, Documents, MaybeValue
    <2>3. /\ doc' \in Documents \cup {None} /\ doc' # None
          /\ pc' \in {"script", "granular"} /\ errors' \in BOOLEAN /\ rollTodo' \subseteq Sections
      <3>1. CASE HasCopy(s)
        BY <1>14, <2>1, <2>2, <3>1 DEF RollBackSection, Documents
      <3>2. CASE ~HasCopy(s)
        BY <1>14, <2>1, <3>2 DEF RollBackSection
      <3> QED
        BY <3>1, <3>2
    <2> QED
      BY <1>14, <2>3 DEF RollBackSection, Present
  <1>15. CASE RestartRolledBack
    BY <1>15 DEF RestartRolledBack, Present
  <1>16. CASE Report
    BY <1>16 DEF Report, TaskOver, Forgotten
  <1>17. CASE Crash
    <2>1. /\ globalHash' \in Configs \cup {None} /\ savedConfig' \in Configs \cup {None}
          /\ sectionHash' \in [Sections -> MaybeValue]
          /\ savedSection' \in [Sections -> MaybeValue]
      BY <1>17 DEF Crash, TornWrite, MaybeValue
    <2>2. /\ running' \in [Sections -> OnRouter \cup {Stopped}]
          /\ strayRunning' \in [Sections -> SUBSET Options] /\ stray' \in [Sections -> SUBSET Options]
      BY <1>17 DEF Crash
    <2>3. memHash' \in [Sections -> MaybeValue \cup {NotLoaded}]
      BY <1>17 DEF Crash, Forgotten
    <2>4. /\ target' \in Configs /\ mayFail' \in FaultSets
          /\ uci' \in [Sections -> OnRouter] /\ proven' \in [Sections -> SUBSET OnRouter]
          /\ faults' \in Nat
      BY <1>17 DEF Crash, Fault
    <2> QED
      BY <1>17, <2>1, <2>2, <2>3, <2>4 DEF Crash, TaskOver
  <1>18. CASE ReplacePackage
    <2>1. /\ globalHash' \in Configs \cup {None} /\ savedConfig' \in Configs \cup {None}
          /\ sectionHash' \in [Sections -> MaybeValue]
          /\ savedSection' \in [Sections -> MaybeValue]
      BY <1>18 DEF ReplacePackage, TornWrite, MaybeValue
    <2>2. uci' \in [Sections -> OnRouter] /\ running' \in [Sections -> OnRouter \cup {Stopped}]
      BY <1>18 DEF ReplacePackage, OnRouter
    <2>3. proven' \in [Sections -> SUBSET OnRouter]
      BY <1>18 DEF ReplacePackage, OnRouter
    <2>4. memHash' \in [Sections -> MaybeValue \cup {NotLoaded}] /\ faults' \in Nat
      BY <1>18 DEF ReplacePackage, Forgotten, Fault
    <2> QED
      BY <1>18, <2>1, <2>2, <2>3, <2>4 DEF ReplacePackage, TaskOver
  <1> QED
    BY <1>0, <1>1, <1>2, <1>3, <1>4, <1>5, <1>6, <1>7, <1>8, <1>9, <1>10, <1>11, <1>12,
       <1>13, <1>14, <1>15, <1>16, <1>17, <1>18 DEF Next, Step

\* Every variable keeps its type, whatever fails: in particular Absent is never
\* hashed, rendered or saved as the value of a section.
THEOREM TypeCorrect == Spec => []TypeOK
  <1>1. TypeInv => TypeOK
    BY DEF TypeInv
  <1> QED
    BY TypeInit, TypeStep, <1>1, PTL DEF Spec
-----------------------------------------------------------------------------
\* Stray options are only where the script does not empty the section, and none
\* of them is an option of the value.
StrayInv ==
  \A s \in Sections :
    /\ stray[s] \subseteq MayRemain(s, uci[s])
    /\ running[s] # Stopped => strayRunning[s] \subseteq MayRemain(s, running[s])
    /\ s # "wireless" => strayRunning[s] = {}

\* Beside the first configuration is what the image left.
LEMMA StrayInit == Init => StrayInv
  <1> SUFFICES ASSUME Init PROVE StrayInv
    OBVIOUS
  <1>1. /\ stray = [s \in Sections |-> Beside(s, uci[s], Factory, {})]
        /\ running = uci /\ strayRunning = stray
    BY DEF Init
  <1>2. \A s \in Sections : Beside(s, uci[s], Factory, {}) \subseteq MayRemain(s, uci[s])
    BY BesideType DEF OnRouter
  <1> QED
    BY <1>1, <1>2 DEF StrayInv, MayRemain

\* Options come and go with the commits of the script and reach the services
\* with their restarts.
LEMMA StrayStep == TypeInv /\ StrayInv /\ [Next]_vars => StrayInv'
  <1> SUFFICES ASSUME TypeInv, StrayInv, [Next]_vars PROVE StrayInv'
    OBVIOUS
  <1> USE DEF StrayInv, TypeInv, TypeOK
  <1>1. CASE CommitPackage
    <2>1. PICK s \in todo : \/ /\ uci' = [uci EXCEPT ![s] = doc[s]]
                               /\ stray' = [stray EXCEPT ![s] = Beside(s, doc[s], uci[s], stray[s])]
                            \/ UNCHANGED rendered
      BY <1>1 DEF CommitPackage
    <2>2. Beside(s, doc[s], uci[s], stray[s]) \subseteq MayRemain(s, doc[s])
      BY <2>1, BesideType
    <2>3. UNCHANGED services
      BY <1>1 DEF CommitPackage
    <2> QED
      BY <2>1, <2>2, <2>3
  <1>2. CASE RestartService
    <2>1. PICK s \in todo : RestartSucceeds(s) \/ RestartFails(s)
      BY <1>2 DEF RestartService
    <2>2. UNCHANGED rendered
      BY <1>2 DEF RestartService
    <2>3. CASE RestartSucceeds(s)
      BY <2>1, <2>2, <2>3 DEF RestartSucceeds, MayRemain
    <2>4. CASE RestartFails(s)
      BY <2>1, <2>2, <2>4 DEF RestartFails
    <2> QED
      BY <2>1, <2>3, <2>4
  <1>3. CASE Crash
    BY <1>3 DEF Crash, MayRemain
  <1>4. CASE ReplacePackage
    <2>1. UNCHANGED <<stray, strayRunning>>
      BY <1>4 DEF ReplacePackage
    <2>2. ASSUME NEW s \in Sections
          PROVE  IF s \in OfPackage THEN uci'[s] = Factory /\ running'[s] = Factory
                                    ELSE uci'[s] = uci[s] /\ running'[s] = running[s]
      BY <1>4 DEF ReplacePackage
    <2>3. ASSUME NEW s \in OfPackage, NEW v, NEW w
          PROVE  MayRemain(s, v) = {} /\ MayRemain(s, w) = {}
      BY DEF OfPackage, MayRemain
    <2>4. ASSUME NEW s \in Sections, s \in OfPackage
          PROVE  stray[s] = {} /\ strayRunning[s] = {}
      BY <2>3, <2>4 DEF OfPackage
    <2>5. ASSUME NEW s \in Sections
          PROVE  /\ stray'[s] \subseteq MayRemain(s, uci'[s])
                 /\ running'[s] # Stopped => strayRunning'[s] \subseteq MayRemain(s, running'[s])
      <3>1. CASE s \in OfPackage
        BY <2>1, <2>4, <3>1
      <3>2. CASE s \notin OfPackage
        BY <2>1, <2>2, <3>2
      <3> QED
        BY <3>1, <3>2
    <2> QED
      BY <2>1, <2>5
  <1>5. CASE UNCHANGED <<rendered, services>>
    BY <1>5
  <1> QED
    BY <1>1, <1>2, <1>3, <1>4, <1>5 DEF Next, Step, vars, SetTarget, Fetch, ScriptAccepts,
       ScriptFails, ScriptDone, SyncRestartsDone, RollbackRestartsDone, SaveSectionHash,
       SaveGlobalHash, SaveSection, SaveConfig, RollBackSection, RestartRolledBack, Report

\* Stray options are nowhere else in any reachable state.
LEMMA StrayInvariance == Spec => []StrayInv
  BY TypeInit, TypeStep, StrayInit, StrayStep, PTL DEF Spec

\* So a section with some value in UCI is rendered as that value, and a service
\* started with it runs as that value.
LEMMA RunsAsValue ==
  ASSUME StrayInv, NEW s \in Sections, NEW value
  PROVE  /\ uci[s] = value => RendersAs(s, value)
         /\ running[s] = value /\ value # Stopped => RunsAs(s, value)
  BY DEF StrayInv, RendersAs, RunsAs
-----------------------------------------------------------------------------
\* What may fail is settled at the start.
LEMMA FateIsFixed == [Next]_vars => mayFail' = mayFail
  BY DEF Next, Step, vars, world, SetTarget, Fetch, ScriptAccepts, ScriptFails, CommitPackage,
     ScriptDone, RestartService, SyncRestartsDone, RollbackRestartsDone, SaveSectionHash,
     SaveGlobalHash, SaveSection, SaveConfig, RollBackSection, RestartRolledBack, Report, Crash,
     ReplacePackage

\* Nothing is in memory at the start.
LEMMA FreshInit == Init => CacheFresh
  BY DEF Init, CacheFresh, Forgotten

\* The hash in memory is written with that on flash, and forgotten otherwise.
LEMMA FreshStep == TypeInv /\ CacheFresh /\ [Next]_vars => CacheFresh'
  <1> SUFFICES ASSUME TypeInv, CacheFresh, [Next]_vars PROVE CacheFresh'
    OBVIOUS
  <1> USE DEF CacheFresh, TypeInv, TypeOK, disk
  <1>1. CASE Fetch
    BY <1>1, FateIsFixed DEF Fetch, LoadedHash
  <1>2. CASE SaveSectionHash
    <2>1. PICK s \in todo :
            /\ memHash' = [memHash EXCEPT ![s] = current[s]]
            /\ \E hash \in {current[s], sectionHash[s], None} :
                 /\ Written(current[s], sectionHash[s], hash)
                 /\ sectionHash' = [sectionHash EXCEPT ![s] = hash]
      BY <1>2 DEF SaveSectionHash
    <2> QED
      BY <2>1, FateIsFixed DEF Written, Fault
  <1>3. CASE RollbackRestartsDone
    BY <1>3, FateIsFixed DEF RollbackRestartsDone, Forgotten
  <1>4. CASE Report
    BY <1>4, FateIsFixed DEF Report, Forgotten
  <1>5. CASE Crash \/ ReplacePackage
    BY <1>5 DEF Crash, ReplacePackage, Forgotten
  <1>6. CASE UNCHANGED <<memHash, sectionHash>>
    BY <1>6, FateIsFixed
  <1> QED
    BY <1>1, <1>2, <1>3, <1>4, <1>5, <1>6 DEF Next, Step, vars, SetTarget, ScriptAccepts,
       ScriptFails, CommitPackage, ScriptDone, RestartService, SyncRestartsDone, SaveGlobalHash,
       SaveSection, SaveConfig, RollBackSection, RestartRolledBack

\* The cache of section hashes is never stale: not after a rollback that
\* succeeded, not after one that failed, not after a kill between two saves
\* (renderer.c:184-291).
THEOREM CacheIsFresh == Spec => []CacheFresh
  BY TypeInit, TypeStep, FreshInit, FreshStep, PTL DEF Spec
-----------------------------------------------------------------------------
\* Why what is saved was running.  The document of the transaction is the
\* configuration that is fetched; after the commits UCI holds it; a section is
\* successful when its service was restarted with it, and an unaffected one
\* has the value of a stored hash, which was running before.
SyncInv ==
  /\ pc \in {"script", "commit"} /\ job = "sync" => doc = current
  /\ pc = "commit" /\ job = "sync" =>
       \A s \in Present(current) \ todo : uci[s] = current[s]
  /\ pc = "restart" /\ job = "sync" =>
       /\ \A s \in Present(current) : uci[s] = current[s]
       /\ affected \subseteq successful \cup failed \cup todo
  /\ pc \in {"saveHashes", "saveSections"} /\ status = "success" => affected \subseteq successful

CurrentProven ==
  pc # "idle" =>
    /\ \A s \in successful : current[s] \in proven[s]
    /\ \A s \in Present(current) \ affected : current[s] \in proven[s]

\* A hash in memory is one of a value that was running, on a full flash too.
MemoryProven ==
  \A s \in Sections : memHash[s] \notin {NotLoaded, None} => memHash[s] \in proven[s]

ProvenInv ==
  /\ TypeInv /\ PersistedProven
  /\ "commit" \notin mayFail => SyncInv /\ CurrentProven /\ MemoryProven

\* What the device holds at the start is what its services run.
LEMMA ProvenInit == Init => ProvenInv
  <1> SUFFICES ASSUME Init PROVE ProvenInv
    OBVIOUS
  <1> USE ConfigSyncAssumption
  <1>1. PICK prior \in Priors :
          LET Held(default) == IF prior = None
                               THEN [s \in Sections |-> default]
                               ELSE [s \in Sections |-> IF prior[s] = Absent THEN default ELSE prior[s]]
          IN  /\ globalHash = prior /\ savedConfig = prior
              /\ sectionHash = Held(None) /\ savedSection = Held(None)
              /\ running = Held(Factory)
              /\ proven = [s \in Sections |-> {running[s]}]
    BY DEF Init
  <1>2. PersistedProven
    BY <1>1 DEF PersistedProven, Present
  <1> QED
    BY <1>2, TypeInit DEF Init, ProvenInv, SyncInv, CurrentProven, MemoryProven, Forgotten

\* The document reaches UCI before services are restarted.
LEMMA SyncStep ==
  ASSUME "commit" \notin mayFail, TypeInv, SyncInv, [Next]_vars
  PROVE  SyncInv'
  <1> USE DEF TypeInv, TypeOK, ListsInv, SyncInv, world, disk, result, task
  <1>1. CASE SetTarget
    BY <1>1 DEF SetTarget, Present
  <1>2. CASE Fetch
    BY <1>2 DEF Fetch, Present
  <1>3. CASE ScriptAccepts
    BY <1>3 DEF ScriptAccepts, Present
  <1>4. CASE ScriptFails
    BY <1>4 DEF ScriptFails, Present
  <1>5. CASE CommitPackage
    BY <1>5 DEF CommitPackage, Present, Fault, IsFirst
  <1>6. CASE ScriptDone
    BY <1>6 DEF ScriptDone, Present
  <1>7. CASE RestartService
    BY <1>7 DEF RestartService, RestartSucceeds, RestartFails, Present, IsFirst
  <1>8. CASE SyncRestartsDone
    BY <1>8 DEF SyncRestartsDone, Outcome
  <1>9. CASE RollbackRestartsDone
    BY <1>9 DEF RollbackRestartsDone
  <1>10. CASE SaveSectionHash \/ SaveGlobalHash \/ SaveSection
    BY <1>10 DEF SaveSectionHash, SaveGlobalHash, SaveSection
  <1>11. CASE SaveConfig
    BY <1>11 DEF SaveConfig
  <1>12. CASE RollBackSection
    BY <1>12 DEF RollBackSection
  <1>13. CASE RestartRolledBack
    BY <1>13 DEF RestartRolledBack
  <1>14. CASE Report \/ Crash \/ ReplacePackage
    BY <1>14 DEF Report, Crash, ReplacePackage, TaskOver
  <1>15. CASE UNCHANGED vars
    BY <1>15 DEF vars, Present
  <1> QED
    BY <1>1, <1>2, <1>3, <1>4, <1>5, <1>6, <1>7, <1>8, <1>9, <1>10, <1>11, <1>12,
       <1>13, <1>14, <1>15 DEF Next, Step

\* A service that was started with a value was started with it for ever.
LEMMA ProvenGrows ==
  ASSUME TypeInv, [Next]_vars
  PROVE  \A s \in Sections : proven[s] \subseteq proven'[s]
  <1>1. CASE RestartService
    BY <1>1 DEF RestartService, RestartSucceeds, RestartFails, IsFirst, TypeInv, TypeOK
  <1>2. CASE UNCHANGED proven
    BY <1>2
  <1>3. CASE ReplacePackage
    BY <1>3 DEF ReplacePackage
  <1> QED
    BY <1>1, <1>2, <1>3 DEF Next, Step, vars, SetTarget, Fetch, ScriptAccepts, ScriptFails,
       CommitPackage, ScriptDone, SyncRestartsDone, RollbackRestartsDone, SaveSectionHash,
       SaveGlobalHash, SaveSection, SaveConfig, RollBackSection, RestartRolledBack, Report, Crash

\* What is successful or unchanged was running.
LEMMA CurrentStep ==
  ASSUME "commit" \notin mayFail, ProvenInv, [Next]_vars
  PROVE  CurrentProven'
  <1> USE ConfigSyncAssumption
      DEF ProvenInv, TypeInv, TypeOK, ListsInv, CurrentProven, world, disk, result, task
  <1>1. CASE Fetch
    <2>1. \A s \in Sections : memHash'[s] \in {memHash[s], sectionHash[s]} /\ memHash'[s] # NotLoaded
      BY <1>1 DEF Fetch, LoadedHash, MaybeValue
    <2>2. ASSUME NEW s \in Present(current'), s \notin affected'
          PROVE  current'[s] \in proven'[s]
      <3>1. s \in Sections /\ target[s] \in Values /\ target[s] = memHash'[s]
        BY <1>1, <2>2 DEF Fetch, Present
      <3> QED
        BY <1>1, <2>1, <3>1 DEF Fetch, PersistedProven, MemoryProven
    <2> QED
      BY <1>1, <2>2 DEF Fetch
  <1>2. CASE RestartService
    <2>1. PICK s \in todo : RestartSucceeds(s) \/ RestartFails(s)
      BY <1>2 DEF RestartService
    <2>2. UNCHANGED <<pc, job, current, affected>>
      BY <1>2 DEF RestartService
    <2>3. job = "sync" /\ RestartSucceeds(s) => current[s] \in proven'[s]
      BY <1>2, <2>1 DEF RestartService, RestartSucceeds, SyncInv, Present
    <2>4. \/ successful' = successful
          \/ successful' = successful \cup {s} /\ RestartSucceeds(s) /\ job = "sync"
      BY <2>1 DEF RestartSucceeds, RestartFails
    <2> QED
      BY <1>2, <2>2, <2>3, <2>4, ProvenGrows DEF RestartService, Present
  <1>3. CASE RollbackRestartsDone
    BY <1>3 DEF RollbackRestartsDone, Present
  <1>4. CASE Report \/ Crash \/ ReplacePackage
    BY <1>4 DEF Report, Crash, ReplacePackage, TaskOver
  <1>5. CASE pc # "idle" /\ UNCHANGED <<current, successful, affected, proven>>
    BY <1>5 DEF Present
  <1>6. CASE UNCHANGED <<pc, current, successful, affected, proven>>
    BY <1>6 DEF Present
  <1> QED
    BY <1>1, <1>2, <1>3, <1>4, <1>5, <1>6 DEF Next, Step, vars, SetTarget, ScriptAccepts,
       ScriptFails, CommitPackage, ScriptDone, SyncRestartsDone, SaveSectionHash,
       SaveGlobalHash, SaveSection, SaveConfig, RollBackSection, RestartRolledBack

\* So was what a hash in memory stands for.
LEMMA MemoryStep ==
  ASSUME "commit" \notin mayFail, ProvenInv, [Next]_vars
  PROVE  MemoryProven'
  <1> USE ConfigSyncAssumption DEF ProvenInv, TypeInv, TypeOK, ListsInv, MemoryProven
  <1>1. CASE Fetch
    BY <1>1 DEF Fetch, LoadedHash, PersistedProven
  <1>2. CASE SaveSectionHash
    BY <1>2 DEF SaveSectionHash, CurrentProven
  <1>3. CASE RollbackRestartsDone \/ Report \/ Crash \/ ReplacePackage
    <2>1. memHash' = Forgotten \/ UNCHANGED <<memHash, proven>>
      BY <1>3 DEF RollbackRestartsDone, Report, Crash, ReplacePackage
    <2> QED
      BY <2>1 DEF Forgotten
  <1>4. CASE UNCHANGED memHash
    BY <1>4, ProvenGrows
  <1> QED
    BY <1>1, <1>2, <1>3, <1>4 DEF Next, Step, vars, SetTarget, ScriptAccepts, ScriptFails,
       CommitPackage, ScriptDone, RestartService, SyncRestartsDone, SaveGlobalHash, SaveSection,
       SaveConfig, RollBackSection, RestartRolledBack

\* What is written was running when it is written.
LEMMA PersistedStep ==
  ASSUME "commit" \notin mayFail, ProvenInv, [Next]_vars
  PROVE  PersistedProven'
  <1> USE ConfigSyncAssumption
      DEF ProvenInv, TypeInv, TypeOK, ListsInv, PersistedProven, Present
  <1>1. CASE SaveSectionHash
    <2>1. PICK s \in todo : \E hash \in {current[s], sectionHash[s], None} :
            sectionHash' = [sectionHash EXCEPT ![s] = hash]
      BY <1>1 DEF SaveSectionHash
    <2>2. current[s] \in proven[s]
      BY <1>1, <2>1 DEF SaveSectionHash, CurrentProven
    <2>3. UNCHANGED <<mayFail, globalHash, savedSection, savedConfig, proven>>
      BY <1>1 DEF SaveSectionHash, world
    <2> QED
      BY <2>1, <2>2, <2>3
  <1>2. CASE SaveGlobalHash
    <2>1. globalHash' = globalHash \/ globalHash' = None \/ (globalHash' = current /\ status = "success")
      <3>1. CASE status = "success"
        BY <1>2, <3>1 DEF SaveGlobalHash, Written
      <3>2. CASE status # "success"
        BY <1>2, <3>2 DEF SaveGlobalHash
      <3> QED
        BY <3>1, <3>2
    <2> QED
      BY <1>2, <2>1 DEF SaveGlobalHash, CurrentProven, SyncInv
  <1>3. CASE SaveSection
    <2>1. PICK s \in todo : \E copy \in {current[s], savedSection[s], None} :
            savedSection' = [savedSection EXCEPT ![s] = copy]
      BY <1>3 DEF SaveSection
    <2>2. current[s] \in proven[s]
      BY <1>3, <2>1 DEF SaveSection, CurrentProven
    <2>3. UNCHANGED <<mayFail, globalHash, sectionHash, savedConfig, proven>>
      BY <1>3 DEF SaveSection, world
    <2> QED
      BY <2>1, <2>2, <2>3
  <1>4. CASE SaveConfig
    <2>1. savedConfig' = savedConfig \/ savedConfig' = None \/ (savedConfig' = current /\ status = "success")
      <3>1. CASE status = "success"
        BY <1>4, <3>1 DEF SaveConfig, Written
      <3>2. CASE status # "success"
        BY <1>4, <3>2 DEF SaveConfig
      <3> QED
        BY <3>1, <3>2
    <2> QED
      BY <1>4, <2>1 DEF SaveConfig, CurrentProven, SyncInv
  <1>5. CASE Crash \/ ReplacePackage
    <2>1. /\ globalHash' \in {globalHash, None} /\ savedConfig' \in {savedConfig, None}
          /\ \A s \in Sections : /\ sectionHash'[s] \in {sectionHash[s], None}
                                /\ savedSection'[s] \in {savedSection[s], None}
      BY <1>5 DEF Crash, ReplacePackage, TornWrite, disk
    <2> QED
      BY <2>1, ProvenGrows
  <1>6. CASE UNCHANGED disk
    BY <1>6, ProvenGrows DEF disk
  <1> QED
    BY <1>1, <1>2, <1>3, <1>4, <1>5, <1>6 DEF Next, Step, vars, disk, SetTarget, Fetch,
       ScriptAccepts, ScriptFails, CommitPackage, ScriptDone, RestartService, SyncRestartsDone,
       RollbackRestartsDone, RollBackSection, RestartRolledBack, Report

\* Everything kept on flash as good was running once, whichever scripts,
\* restarts, rollbacks and saves fail and wherever the process is killed or its
\* package replaced, unless
\* commits of the renderer script fail as well (sync.c:739-773).
THEOREM OnlyProvenIsKept == Spec => []PersistedProven
  <1>1. ProvenInv /\ [Next]_vars => ProvenInv'
    <2> SUFFICES ASSUME ProvenInv, [Next]_vars PROVE ProvenInv'
      OBVIOUS
    <2>1. TypeInv'
      BY TypeStep DEF ProvenInv
    <2>2. CASE "commit" \in mayFail
      BY <2>1, <2>2, FateIsFixed DEF ProvenInv, PersistedProven
    <2>3. CASE "commit" \notin mayFail
      BY <2>1, <2>3, SyncStep, CurrentStep, MemoryStep, PersistedStep DEF ProvenInv
    <2> QED
      BY <2>2, <2>3
  <1>2. ProvenInv => PersistedProven
    BY DEF ProvenInv
  <1> QED
    BY ProvenInit, <1>1, <1>2, PTL DEF Spec
-----------------------------------------------------------------------------
\* The stages of a transaction: which of its lists are filled when, and what
\* the outcome and the job say of each other.
StageInv ==
  /\ job = "complete" => status = "script_failed" /\ successful = {}
  /\ job = "granular" => status = "services_failed"
  /\ pc \in {"saveHashes", "saveSections"} => job = "sync" /\ status \in {"success", "services_failed"}
  /\ pc = "idle" => job = "sync"
  /\ pc \in {"idle", "script", "commit", "restart"} /\ job = "sync" => status = "none"
  /\ pc \in {"idle", "script", "commit"} /\ job = "sync" => successful = {} /\ failed = {}
  /\ pc = "report" => status # "none"
  /\ pc = "report" /\ status = "services_failed" => job = "granular"
  /\ rolledBack => pc = "report" /\ job # "sync" /\ ~errors
  /\ job = "sync" => ~errors
  /\ successful \cup failed \subseteq affected /\ rollTodo \subseteq failed
  /\ successful \cap failed = {}
  /\ pc = "restart" /\ job = "sync" => todo \cap (successful \cup failed) = {}
  /\ status = "success" => affected \subseteq successful /\ failed = {}
  /\ status = "services_failed" => affected \subseteq successful \cup failed

\* A section that is reported as restarted is rendered and running, and it is
\* saved once the loops over the files have passed it.
SuccessInv ==
  \A s \in successful :
    /\ uci[s] = current[s] /\ running[s] = current[s]
    /\ "full" \notin mayFail /\ status \in {"success", "services_failed"} =>
         /\ (pc = "saveHashes" /\ s \in todo) \/ sectionHash[s] = current[s]
         /\ \/ pc = "saveHashes" \/ (pc = "saveSections" /\ s \in todo)
            \/ savedSection[s] = current[s]

\* What the granular rollback has done for a failed section: its copy is
\* rendered, or the error is on record.
Restored(s) ==
  \/ savedSection[s] # None /\ uci[s] = savedSection[s]
  \/ errors /\ (savedSection[s] = None \/ "script" \in mayFail)

GranularInv ==
  job = "granular" =>
    /\ pc \in {"granular", "script", "commit", "restart", "report"}
    /\ pc \in {"script", "commit"} =>
         /\ Present(doc) \subseteq failed \ rollTodo
         /\ \A s \in Present(doc) : doc[s] = savedSection[s]
    /\ \A s \in failed \ rollTodo :
         \/ pc = "script" /\ s \in Present(doc)
         \/ pc = "commit" /\ s \in todo
         \/ Restored(s)
    /\ pc \in {"restart", "report"} => rollTodo = {}
    /\ pc = "restart" => todo \subseteq failed
    /\ pc \in {"restart", "report"} =>
         \A s \in failed : (pc = "restart" /\ s \in todo) \/ errors \/ running[s] = savedSection[s]

CompleteInv ==
  job = "complete" =>
    /\ savedConfig # None
    /\ pc \in {"script", "commit", "restart", "report"}
    /\ pc \in {"script", "commit"} => doc = savedConfig /\ failed = {}
    /\ pc \in {"commit", "restart"} =>
         \A s \in Present(savedConfig) : uci[s] = savedConfig[s] \/ (pc = "commit" /\ s \in todo)
    /\ pc = "restart" \/ rolledBack =>
         \A s \in Present(savedConfig) :
           (pc = "restart" /\ s \in todo) \/ errors \/ running[s] = savedConfig[s]

TruthInv == StageInv /\ SuccessInv /\ GranularInv /\ CompleteInv

\* The outcome and the lists keep step with the stages of the transaction.
LEMMA StageStep ==
  ASSUME "commit" \notin mayFail, TypeInv, SyncInv, TruthInv, [Next]_vars
  PROVE  StageInv'
  <1> USE DEF TypeInv, TypeOK, ListsInv, SyncInv, TruthInv, StageInv, world, disk, result, task
  <1>1. CASE SetTarget
    BY <1>1 DEF SetTarget
  <1>2. CASE Fetch
    BY <1>2 DEF Fetch
  <1>3. CASE ScriptAccepts
    BY <1>3 DEF ScriptAccepts
  <1>4. CASE ScriptFails
    BY <1>4 DEF ScriptFails
  <1>5. CASE CommitPackage
    BY <1>5 DEF CommitPackage
  <1>6. CASE ScriptDone
    BY <1>6 DEF ScriptDone
  <1>7. CASE RestartService
    BY <1>7 DEF RestartService, RestartSucceeds, RestartFails
  <1>8. CASE SyncRestartsDone
    BY <1>8 DEF SyncRestartsDone, Outcome
  <1>9. CASE RollbackRestartsDone
    BY <1>9 DEF RollbackRestartsDone, RollbackFailed, CompleteInv
  <1>10. CASE SaveSectionHash \/ SaveSection
    BY <1>10 DEF SaveSectionHash, SaveSection
  <1>11. CASE SaveGlobalHash
    BY <1>11 DEF SaveGlobalHash
  <1>12. CASE SaveConfig
    BY <1>12 DEF SaveConfig
  <1>13. CASE RollBackSection
    BY <1>13 DEF RollBackSection
  <1>14. CASE RestartRolledBack
    BY <1>14 DEF RestartRolledBack
  <1>15. CASE Report \/ Crash \/ ReplacePackage
    BY <1>15 DEF Report, Crash, ReplacePackage, TaskOver
  <1>16. CASE UNCHANGED vars
    BY <1>16 DEF vars
  <1> QED
    BY <1>1, <1>2, <1>3, <1>4, <1>5, <1>6, <1>7, <1>8, <1>9, <1>10, <1>11, <1>12,
       <1>13, <1>14, <1>15, <1>16 DEF Next, Step

\* A rollback leaves the services that restarted alone, in UCI and on flash.
LEMMA SuccessStep ==
  ASSUME "commit" \notin mayFail, TypeInv, SyncInv, TruthInv, [Next]_vars
  PROVE  SuccessInv'
  <1> USE DEF TypeInv, TypeOK, ListsInv, TruthInv, StageInv, SuccessInv, world, disk, result, task
  <1>1. CASE UNCHANGED <<disk, rendered, services, mayFail, pc, current, todo, successful, status>>
    BY <1>1
  <1>2. CASE SetTarget \/ RestartRolledBack \/ RollBackSection
    BY <1>2 DEF SetTarget, RestartRolledBack, RollBackSection
  <1>3. CASE Fetch \/ ScriptAccepts \/ ScriptDone
    BY <1>3 DEF Fetch, ScriptAccepts, ScriptDone
  <1>4. CASE ScriptFails
    BY <1>4 DEF ScriptFails
  <1>5. CASE CommitPackage
    <2>1. PICK s \in todo : uci' = [uci EXCEPT ![s] = doc[s]]
      BY <1>5 DEF CommitPackage, Fault
    <2>2. s \notin successful
      BY <1>5, <2>1 DEF CommitPackage, GranularInv
    <2> QED
      BY <1>5, <2>1, <2>2 DEF CommitPackage
  <1>6. CASE RestartService
    <2>1. PICK s \in todo : todo' = todo \ {s} /\ (RestartSucceeds(s) \/ RestartFails(s))
      BY <1>6 DEF RestartService
    <2>2. s \notin successful /\ pc = "restart"
      BY <1>6, <2>1 DEF RestartService, GranularInv
    <2>3. job = "sync" => uci[s] = current[s] /\ status = "none"
      BY <1>6, <2>1 DEF RestartService, SyncInv
    <2>4. UNCHANGED <<disk, uci, mayFail, pc, current, status>>
      BY <1>6 DEF RestartService
    <2>5. CASE RestartSucceeds(s)
      BY <2>1, <2>2, <2>3, <2>4, <2>5 DEF RestartSucceeds
    <2>6. CASE RestartFails(s)
      BY <2>1, <2>2, <2>4, <2>6 DEF RestartFails
    <2> QED
      BY <2>1, <2>5, <2>6
  <1>7. CASE SyncRestartsDone
    BY <1>7 DEF SyncRestartsDone, Confirmed
  <1>8. CASE RollbackRestartsDone
    BY <1>8 DEF RollbackRestartsDone
  <1>9. CASE SaveSectionHash
    BY <1>9 DEF SaveSectionHash, Written, Fault
  <1>10. CASE SaveGlobalHash
    BY <1>10 DEF SaveGlobalHash, Confirmed
  <1>11. CASE SaveSection
    BY <1>11 DEF SaveSection, Written, Fault
  <1>12. CASE SaveConfig
    BY <1>12 DEF SaveConfig
  <1>13. CASE Report \/ Crash \/ ReplacePackage
    BY <1>13 DEF Report, Crash, ReplacePackage, TaskOver
  <1> QED
    BY <1>1, <1>2, <1>3, <1>4, <1>5, <1>6, <1>7, <1>8, <1>9, <1>10, <1>11, <1>12,
       <1>13 DEF Next, Step, vars

\* The granular rollback renders and restarts the failed sections only, each
\* with the copy that flash holds of it.
LEMMA GranularStep ==
  ASSUME "commit" \notin mayFail, TypeInv, SyncInv, TruthInv, [Next]_vars
  PROVE  GranularInv'
  <1> USE DEF TypeInv, TypeOK, ListsInv, TruthInv, StageInv, GranularInv, Restored,
              world, disk, result, task
  <1>1. CASE job' # "granular"
    BY <1>1
  <1>2. CASE SetTarget
    BY <1>2 DEF SetTarget, Present
  <1>3. CASE ScriptAccepts
    BY <1>3 DEF ScriptAccepts, Present
  <1>4. CASE ScriptFails
    BY <1>4, FateIsFixed DEF ScriptFails, Fault, Present
  <1>5. CASE CommitPackage
    <2>1. PICK s \in todo : todo' = todo \ {s} /\ uci' = [uci EXCEPT ![s] = doc[s]]
      BY <1>5 DEF CommitPackage, Fault
    <2>2. UNCHANGED <<disk, running, pc, job, doc, rollTodo, failed, errors, mayFail>> /\ pc = "commit"
      BY <1>5 DEF CommitPackage
    <2>3. job = "granular" => s \in Present(doc) /\ doc[s] = savedSection[s] /\ savedSection[s] # None
      BY <2>1, <2>2, ConfigSyncAssumption DEF Present, Documents
    <2> QED
      BY <2>1, <2>2, <2>3 DEF Present
  <1>6. CASE ScriptDone
    BY <1>6 DEF ScriptDone
  <1>7. CASE RestartService
    BY <1>7 DEF RestartService, RestartSucceeds, RestartFails, IsFirst
  <1>8. CASE SaveConfig
    BY <1>8 DEF SaveConfig
  <1>9. CASE RollBackSection
    <2>1. PICK s \in rollTodo :
            /\ rollTodo' = rollTodo \ {s}
            /\ IF HasCopy(s) THEN doc' = RollbackDoc(s) /\ pc' = "script" /\ UNCHANGED errors
                             ELSE errors' = TRUE /\ UNCHANGED <<pc, doc>>
      BY <1>9 DEF RollBackSection
    <2>2. UNCHANGED <<disk, rendered, services, job, todo, failed, mayFail>> /\ pc = "granular"
      BY <1>9 DEF RollBackSection
    <2>3. CASE HasCopy(s)
      <3>1. \A t \in Present(doc') : t = s /\ doc'[t] = savedSection[t]
        BY <2>1, <2>3 DEF RollbackDoc, Present
      <3>2. savedSection[s] # Absent
        BY <2>1, ConfigSyncAssumption DEF MaybeValue
      <3>3. s \in Present(doc')
        BY <2>1, <2>3, <3>2 DEF RollbackDoc, Present
      <3> QED
        BY <2>1, <2>2, <2>3, <3>1, <3>3
    <2>4. CASE ~HasCopy(s)
      BY <2>1, <2>2, <2>4 DEF HasCopy
    <2> QED
      BY <2>3, <2>4
  <1>10. CASE RestartRolledBack
    BY <1>10 DEF RestartRolledBack
  <1>11. CASE RollbackRestartsDone
    BY <1>11 DEF RollbackRestartsDone, RollbackFailed
  <1>12. CASE UNCHANGED vars
    BY <1>12 DEF vars, Present
  <1> QED
    BY <1>1, <1>2, <1>3, <1>4, <1>5, <1>6, <1>7, <1>8, <1>9, <1>10, <1>11, <1>12
       DEF Next, Step, Fetch, SyncRestartsDone, SaveSectionHash, SaveGlobalHash, SaveSection,
           Report, Crash, ReplacePackage, TaskOver

\* The complete rollback renders the saved configuration and restarts all.
LEMMA CompleteStep ==
  ASSUME "commit" \notin mayFail, TypeInv, SyncInv, TruthInv, [Next]_vars
  PROVE  CompleteInv'
  <1> USE DEF TypeInv, TypeOK, ListsInv, TruthInv, StageInv, CompleteInv,
              world, disk, result, task
  <1>1. CASE job' # "complete"
    BY <1>1
  <1>2. CASE SetTarget
    BY <1>2 DEF SetTarget, Present
  <1>3. CASE ScriptAccepts
    BY <1>3 DEF ScriptAccepts, Present
  <1>4. CASE ScriptFails
    BY <1>4 DEF ScriptFails, Fault, Present
  <1>5. CASE CommitPackage
    BY <1>5 DEF CommitPackage, Fault, Present, IsFirst
  <1>6. CASE ScriptDone
    BY <1>6 DEF ScriptDone, Present
  <1>7. CASE RestartService
    BY <1>7 DEF RestartService, RestartSucceeds, RestartFails, IsFirst, Present
  <1>8. CASE RollbackRestartsDone
    BY <1>8 DEF RollbackRestartsDone, RollbackFailed, Present
  <1>9. CASE UNCHANGED vars
    BY <1>9 DEF vars, Present
  <1> QED
    BY <1>1, <1>2, <1>3, <1>4, <1>5, <1>6, <1>7, <1>8, <1>9
       DEF Next, Step, Fetch, SyncRestartsDone, SaveSectionHash, SaveGlobalHash, SaveSection,
           Report, Crash, ReplacePackage, TaskOver, SaveConfig, RollBackSection, RestartRolledBack

\* There is nothing to report at the start.
LEMMA TruthInit == Init => TruthInv
  BY DEF Init, TruthInv, StageInv, SuccessInv, GranularInv, CompleteInv

\* The four parts keep one another.
LEMMA TruthStep ==
  ASSUME "commit" \notin mayFail, TypeInv, SyncInv, TruthInv, [Next]_vars
  PROVE  TruthInv'
  BY StageStep, SuccessStep, GranularStep, CompleteStep DEF TruthInv

\* What the invariant says when the report is sent.
LEMMA TruthOfReport ==
  ASSUME TypeInv, StrayInv, TruthInv
  PROVE  ReportTruthful
  <1> SUFFICES ASSUME pc = "report" PROVE ReportTruthful
    BY DEF ReportTruthful
  <1> USE DEF TypeInv, TypeOK, TruthInv, StageInv
  <1>1. ASSUME NEW s \in successful
        PROVE  RunsAs(s, current[s])
    <2>1. s \in Sections /\ current[s] # Stopped
      BY ConfigSyncAssumption DEF ListsInv, Present
    <2> QED
      BY <2>1, RunsAsValue DEF SuccessInv
  <1>2. ASSUME status = "services_failed", rolledBack, NEW s \in failed
        PROVE  RunsAs(s, savedSection[s])
    <2>1. running[s] = savedSection[s]
      BY <1>2 DEF GranularInv
    <2>2. savedSection[s] # Stopped
      BY ConfigSyncAssumption DEF MaybeValue
    <2> QED
      BY <2>1, <2>2, RunsAsValue
  <1>3. ASSUME status = "script_failed", rolledBack, NEW s \in Present(savedConfig)
        PROVE  RunsAs(s, savedConfig[s])
    <2>1. savedConfig # None /\ running[s] = savedConfig[s]
      BY <1>3 DEF CompleteInv
    <2>2. s \in Sections /\ savedConfig[s] # Stopped
      BY <2>1, ConfigSyncAssumption DEF Present
    <2> QED
      BY <2>1, <2>2, RunsAsValue
  <1> QED
    BY <1>1, <1>2, <1>3 DEF SuccessInv, ReportTruthful

\* The invariant of a transaction in which no commit fails.
Honest == TypeInv /\ ("commit" \notin mayFail => SyncInv /\ TruthInv)

\* It holds of every transaction.
LEMMA HonestInvariance == Spec => []Honest
  <1>1. Init => Honest
    BY TypeInit, TruthInit DEF Honest, Init, SyncInv
  <1>2. Honest /\ [Next]_vars => Honest'
    BY TypeStep, SyncStep, TruthStep, FateIsFixed DEF Honest
  <1> QED
    BY <1>1, <1>2, PTL DEF Spec

\* The report says what the router runs, whatever fails but commits of the
\* script: restarted services run the new configuration (and it is saved, unless
\* the flash is full), services rolled back granularly run their saved copies,
\* and after a complete rollback all run the saved configuration
\* (sync.c:739-802, rollback.c:511-833).
THEOREM ReportsAreTruthful == Spec => []ReportTruthful
  <1>1. Honest /\ StrayInv => ReportTruthful
    BY TruthOfReport DEF Honest, ReportTruthful
  <1> QED
    BY HonestInvariance, StrayInvariance, <1>1, PTL
-----------------------------------------------------------------------------
\* What flash holds if one kind of fault happens: hash and copy of a section
\* agree except while the two are written; on a device that has a copy of every
\* section no rollback goes wrong; a section that is not affected is what its
\* hash says; and what a complete rollback restores has those hashes.
KeptInv ==
  /\ \A s \in Sections :
       savedSection[s] = sectionHash[s] \/ (pc \in {"saveHashes", "saveSections"} /\ s \in successful)
  /\ WasConfigured => \A s \in Sections : sectionHash[s] # None
  /\ pc # "idle" => \A s \in Present(current) \ affected : current[s] = sectionHash[s]
  /\ errors => ~WasConfigured
  /\ "restart" \notin mayFail => status # "services_failed" /\ (job = "complete" \/ failed = {})
  /\ "script" \notin mayFail => status # "script_failed"
  /\ "restart" \notin mayFail /\ savedConfig # None =>
       \/ pc \in {"saveHashes", "saveSections"}
       \/ \A s \in Present(savedConfig) : savedConfig[s] = sectionHash[s]

\* A section with a hash is rendered and running with the value of it, unless
\* the transaction is about to change it, has just done so and not saved it
\* yet, or has to roll it back.
Settled(s) ==
  /\ \/ uci[s] = sectionHash[s]
     \/ status = "services_failed" /\ s \in failed
     \/ pc \in {"commit", "restart"} /\ job = "sync" /\ s \in affected
     \/ pc = "saveHashes" /\ s \in todo
  /\ \/ running[s] = sectionHash[s]
     \/ running[s] = Stopped /\ (~WasConfigured \/ (s \in failed /\ status # "script_failed"))
     \/ s \in successful /\ (pc = "restart" \/ (pc = "saveHashes" /\ s \in todo))

SettledInv == \A s \in Sections : sectionHash[s] # None => Settled(s)

\* Both, as far as the faults are of one kind.
SteadyInv == OneKindFails => KeptInv /\ SettledInv

\* Why the global hash is not deceptive as far as restarts alone fail: the hash
\* that is sent is never that of a later decision than the server's, what is
\* fetched is a later one, and once the hashes of sections are overwritten the
\* server has left the configuration of the global hash for ever.
Reached(c) == {c} \cup Decisions[c]

AgreedInv ==
  mayFail \subseteq {"restart"} =>
    /\ globalHash # None =>
         /\ target \in Reached(globalHash)
         /\ target = globalHash => \A s \in Present(globalHash) : globalHash[s] = sectionHash[s]
    /\ pc # "idle" =>
         /\ target \in Reached(current)
         /\ globalHash # None => current \in Reached(globalHash)
         /\ pc \in {"script", "commit", "restart", "saveHashes"} /\ job = "sync" => globalHash # current

\* Which faults one kind of fault leaves out.
LEMMA OneKind ==
  ASSUME OneKindFails
  PROVE  /\ {"commit", "full", "rollback", "crash", "package"} \cap mayFail = {}
         /\ "restart" \notin mayFail \/ "script" \notin mayFail
  BY DEF OneKindFails

\* A device that lacks a section once lacks it for ever.
LEMMA StaysNew ==
  ASSUME TypeInv, [Next]_vars, WasConfigured'
  PROVE  WasConfigured
  BY ProvenGrows DEF WasConfigured

\* Hashes and copies are written for the services that restarted, both with
\* the same value; nothing else touches them.
LEMMA KeptStep ==
  ASSUME OneKindFails, TypeInv, CacheFresh, SyncInv, TruthInv, KeptInv, [Next]_vars
  PROVE  KeptInv'
  <1> USE OneKind, StaysNew, FateIsFixed
      DEF TypeInv, TypeOK, ListsInv, TruthInv, StageInv, KeptInv, world, disk, result, task
  <1>1. CASE SetTarget
    BY <1>1 DEF SetTarget, Present
  <1>2. CASE Fetch
    BY <1>2 DEF Fetch, Present, CacheFresh, LoadedHash
  <1>3. CASE ScriptAccepts \/ ScriptDone
    BY <1>3 DEF ScriptAccepts, ScriptDone, Present
  <1>4. CASE ScriptFails
    BY <1>4 DEF ScriptFails, Fault, Present
  <1>5. CASE CommitPackage
    BY <1>5 DEF CommitPackage, Present
  <1>6. CASE RestartService
    BY <1>6 DEF RestartService, RestartSucceeds, RestartFails, Fault, Present
  <1>7. CASE SyncRestartsDone
    BY <1>7 DEF SyncRestartsDone, Outcome, Present
  <1>8. CASE RollbackRestartsDone
    BY <1>8 DEF RollbackRestartsDone, Present
  <1>9. CASE SaveSectionHash
    <2>1. PICK s \in todo : sectionHash' = [sectionHash EXCEPT ![s] = current[s]]
      BY <1>9 DEF SaveSectionHash, Written, Fault
    <2>2. s \in successful /\ s \in affected /\ s \in Sections /\ current[s] # None
      BY <1>9, <2>1, ConfigSyncAssumption DEF SaveSectionHash, Present
    <2> QED
      BY <1>9, <2>1, <2>2 DEF SaveSectionHash, Present
  <1>10. CASE SaveGlobalHash
    BY <1>10 DEF SaveGlobalHash, Written, Fault, Present
  <1>11. CASE SaveSection
    BY <1>11 DEF SaveSection, Present
  <1>12. CASE SaveConfig
    BY <1>12 DEF SaveConfig, Written, Fault, Present, SuccessInv
  <1>13. CASE RollBackSection
    BY <1>13 DEF RollBackSection, HasCopy, Present
  <1>14. CASE RestartRolledBack
    BY <1>14 DEF RestartRolledBack, Present
  <1>15. CASE Report
    BY <1>15 DEF Report, TaskOver
  <1>16. CASE Crash \/ ReplacePackage
    BY <1>16 DEF Crash, ReplacePackage, Fault
  <1>17. CASE UNCHANGED vars
    BY <1>17 DEF vars, Present
  <1> QED
    BY <1>1, <1>2, <1>3, <1>4, <1>5, <1>6, <1>7, <1>8, <1>9, <1>10, <1>11, <1>12,
       <1>13, <1>14, <1>15, <1>16, <1>17 DEF Next, Step

\* Each section is settled again when the transaction is done with it.
LEMMA SettledStep ==
  ASSUME OneKindFails, TypeInv, CacheFresh, SyncInv, TruthInv, KeptInv, SettledInv, [Next]_vars
  PROVE  SettledInv'
  <1> USE OneKind, StaysNew, FateIsFixed
      DEF TypeInv, TypeOK, ListsInv, TruthInv, StageInv, SettledInv, Settled,
          world, disk, result, task
  <1>1. CASE SetTarget \/ RollBackSection \/ RestartRolledBack \/ UNCHANGED vars
    BY <1>1 DEF SetTarget, RollBackSection, RestartRolledBack, vars
  <1>2. CASE Fetch \/ ScriptAccepts
    BY <1>2 DEF Fetch, ScriptAccepts
  <1>3. CASE ScriptFails
    BY <1>3 DEF ScriptFails, Fault
  <1>4. CASE CommitPackage
    <2>1. PICK s \in todo : uci' = [uci EXCEPT ![s] = doc[s]]
      BY <1>4 DEF CommitPackage, Fault
    <2>2. /\ UNCHANGED <<disk, running, pc, job, affected, result>> /\ pc = "commit"
          /\ WasConfigured' <=> WasConfigured
      BY <1>4 DEF CommitPackage, WasConfigured
    <2>3. sectionHash[s] # None =>
            \/ doc[s] = sectionHash[s]
            \/ status = "services_failed" /\ s \in failed
            \/ job = "sync" /\ s \in affected
      <3>1. CASE job = "sync"
        BY <2>1, <2>2, <3>1 DEF SyncInv, KeptInv, Present
      <3>2. CASE job = "granular"
        BY <2>1, <2>2, <3>2 DEF GranularInv
      <3>3. CASE job = "complete"
        BY <2>1, <2>2, <3>3 DEF CompleteInv, KeptInv, Present
      <3> QED
        BY <3>1, <3>2, <3>3
    <2> QED
      BY <2>1, <2>2, <2>3
  <1>5. CASE ScriptDone
    BY <1>5 DEF ScriptDone
  <1>6. CASE RestartService
    <2>1. PICK s \in todo : RestartSucceeds(s) \/ RestartFails(s)
      BY <1>6 DEF RestartService
    <2>2. UNCHANGED <<disk, uci, pc, job, affected, rolledBack, status>> /\ pc = "restart"
      BY <1>6 DEF RestartService
    <2>3. CASE RestartSucceeds(s)
      <3>1. /\ running' = [running EXCEPT ![s] = uci[s]] /\ failed' = failed
            /\ successful' = IF job = "sync" THEN successful \cup {s} ELSE successful
        BY <2>3 DEF RestartSucceeds
      <3>2. job # "sync" /\ sectionHash[s] # None => uci[s] = sectionHash[s]
        BY <2>1, <2>2 DEF GranularInv, Restored, KeptInv
      <3> QED
        BY <2>1, <2>2, <3>1, <3>2
    <2>4. CASE RestartFails(s)
      <3>1. job = "sync" /\ UNCHANGED <<successful, proven>> /\ failed' = failed \cup {s}
        BY <2>4 DEF RestartFails, Fault
      <3>2. PICK r \in {running[s], Stopped} : running' = [running EXCEPT ![s] = r]
        BY <2>4 DEF RestartFails
      <3>3. WasConfigured' <=> WasConfigured
        BY <3>1 DEF WasConfigured
      <3> QED
        BY <2>1, <2>2, <3>1, <3>2, <3>3
    <2> QED
      BY <2>1, <2>3, <2>4
  <1>7. CASE SyncRestartsDone
    BY <1>7 DEF SyncRestartsDone, Outcome, Confirmed, SyncInv
  <1>8. CASE RollbackRestartsDone
    <2>1. /\ UNCHANGED <<disk, rendered, services, proven, job, affected, status>>
          /\ pc = "restart" /\ pc' = "report" /\ job # "sync"
          /\ WasConfigured' <=> WasConfigured
      BY <1>8 DEF RollbackRestartsDone, WasConfigured
    <2>2. \A s \in successful : running[s] = sectionHash[s]
      BY <2>1 DEF SuccessInv
    <2>3. CASE job = "complete"
      BY <2>1, <2>3
    <2>4. CASE job = "granular"
      <3>1. UNCHANGED <<successful, failed>>
        BY <1>8, <2>4 DEF RollbackRestartsDone
      <3> QED
        BY <2>1, <2>2, <2>4, <3>1
    <2> QED
      BY <2>1, <2>3, <2>4
  <1>9. CASE SaveSectionHash
    <2>1. PICK s \in todo : /\ todo' = todo \ {s}
                            /\ sectionHash' = [sectionHash EXCEPT ![s] = current[s]]
      BY <1>9 DEF SaveSectionHash, Written, Fault
    <2> QED
      BY <1>9, <2>1 DEF SaveSectionHash, SuccessInv
  <1>10. CASE SaveGlobalHash \/ SaveSection
    BY <1>10 DEF SaveGlobalHash, SaveSection
  <1>11. CASE SaveConfig
    BY <1>11 DEF SaveConfig
  <1>12. CASE Report
    BY <1>12 DEF Report, TaskOver, GranularInv, KeptInv, Restored
  <1>13. CASE Crash \/ ReplacePackage
    BY <1>13 DEF Crash, ReplacePackage, Fault
  <1> QED
    BY <1>1, <1>2, <1>3, <1>4, <1>5, <1>6, <1>7, <1>8, <1>9, <1>10, <1>11, <1>12, <1>13
       DEF Next, Step

\* A configured device, or a new one, starts settled.
LEMMA SteadyInit == Init => KeptInv /\ SettledInv /\ AgreedInv
  <1> SUFFICES ASSUME Init PROVE KeptInv /\ SettledInv /\ AgreedInv
    OBVIOUS
  <1>1. PICK prior \in Priors :
          LET Held(default) == IF prior = None
                               THEN [s \in Sections |-> default]
                               ELSE [s \in Sections |-> IF prior[s] = Absent THEN default ELSE prior[s]]
          IN  /\ target \in IF prior = None \/ "return" \in mayFail THEN Configs
                            ELSE {prior} \cup Decisions[prior]
              /\ globalHash = prior /\ savedConfig = prior
              /\ sectionHash = Held(None) /\ savedSection = Held(None)
              /\ uci = Held(Factory) /\ running = Held(Factory)
              /\ proven = [s \in Sections |-> {running[s]}]
    BY DEF Init
  <1>2. /\ pc = "idle" /\ job = "sync" /\ failed = {} /\ successful = {}
        /\ errors = FALSE /\ status = "none"
    BY DEF Init
  <1>3. prior # None => prior \in [Sections -> Values \cup {Absent}]
    BY <1>1, ConfigSyncAssumption
  <1>4. KeptInv
    BY <1>1, <1>2, <1>3, ConfigSyncAssumption DEF KeptInv, WasConfigured, Present
  <1>5. SettledInv
    BY <1>1, <1>2 DEF SettledInv, Settled
  <1>6. AgreedInv
    BY <1>1, <1>2 DEF AgreedInv, Reached, Present
  <1> QED
    BY <1>4, <1>5, <1>6

\* Both parts, as long as the faults are of one kind.
LEMMA SteadyStep ==
  ASSUME Honest, CacheFresh, SteadyInv, [Next]_vars
  PROVE  SteadyInv'
  <1>1. OneKindFails' <=> OneKindFails
    BY FateIsFixed DEF OneKindFails
  <1> QED
    BY <1>1, OneKind, KeptStep, SettledStep DEF SteadyInv, Honest

\* It holds of every transaction.
LEMMA SteadyInvariance == Spec => []SteadyInv
  <1>1. Init => SteadyInv
    BY SteadyInit DEF SteadyInv
  <1> QED
    BY <1>1, SteadyStep, HonestInvariance, CacheIsFresh, PTL DEF Spec

\* Skipping the restart of a section whose hash did not change is right: such a
\* section is rendered, kept and running with that value, whichever restarts or
\* whichever scripts fail (renderer.c:184-222).
THEOREM HashesCohere == Spec => []Coherent
  <1>1. ASSUME Honest, SteadyInv, StrayInv
        PROVE  Coherent
    <2> SUFFICES ASSUME pc = "idle", WasConfigured, OneKindFails,
                        NEW s \in Sections, sectionHash[s] # None
                 PROVE  /\ RendersAs(s, sectionHash[s]) /\ RunsAs(s, sectionHash[s])
                        /\ savedSection[s] = sectionHash[s]
      BY DEF Coherent
    <2>1. /\ uci[s] = sectionHash[s] /\ running[s] = sectionHash[s]
          /\ savedSection[s] = sectionHash[s]
      BY <1>1, OneKind
         DEF Honest, TruthInv, StageInv, TypeInv, ListsInv, SteadyInv, KeptInv, SettledInv, Settled
    <2>2. sectionHash[s] # Stopped
      BY <1>1, ConfigSyncAssumption DEF Honest, TypeInv, TypeOK, MaybeValue
    <2> QED
      BY <1>1, <2>1, <2>2, RunsAsValue
  <1> QED
    BY HonestInvariance, SteadyInvariance, StrayInvariance, <1>1, PTL

\* The global hash follows the section hashes, and the server only moves on.
LEMMA AgreedStep ==
  ASSUME mayFail \subseteq {"restart"}, TypeInv, CacheFresh, SyncInv, TruthInv, KeptInv,
         AgreedInv, [Next]_vars
  PROVE  AgreedInv'
  <1> USE ConfigSyncAssumption, NeverReturns, FateIsFixed
      DEF TypeInv, TypeOK, TruthInv, StageInv, AgreedInv, Reached, world, disk, result, task
  <1>1. CASE SetTarget
    BY <1>1 DEF SetTarget, Present
  <1>2. CASE Fetch
    BY <1>2 DEF Fetch, Present
  <1>3. CASE ScriptFails \/ Crash \/ ReplacePackage
    BY <1>3 DEF ScriptFails, Crash, ReplacePackage, Fault
  <1>4. CASE SaveSectionHash
    BY <1>4 DEF SaveSectionHash, Present
  <1>5. CASE SaveGlobalHash
    BY <1>5 DEF SaveGlobalHash, Written, Fault, Present, SuccessInv, KeptInv
  <1>6. CASE Report
    BY <1>6 DEF Report, TaskOver, Present
  <1>7. CASE /\ UNCHANGED <<target, globalHash, sectionHash, current>> /\ (pc' # "idle" => pc # "idle")
             /\ \/ pc' \notin {"script", "commit", "restart", "saveHashes"}
                \/ job' # "sync"
                \/ pc \in {"script", "commit", "restart", "saveHashes"} /\ job = "sync"
    BY <1>7 DEF Present
  <1>8. CASE UNCHANGED vars
    BY <1>8 DEF vars, Present
  <1> QED
    BY <1>1, <1>2, <1>3, <1>4, <1>5, <1>6, <1>7, <1>8 DEF Next, Step, ScriptAccepts,
       CommitPackage, ScriptDone, RestartService, SyncRestartsDone, RollbackRestartsDone,
       SaveSection, SaveConfig, RollBackSection, RestartRolledBack, ListsInv

\* What the invariant says when the server has nothing to send.
LEMMA InSyncHolds ==
  ASSUME TypeOK, mayFail \subseteq {"restart"}, StrayInv, TruthInv, KeptInv, SettledInv, AgreedInv
  PROVE  InSyncAfterRestarts
  <1> SUFFICES ASSUME pc = "idle", globalHash = target, NEW s \in Present(target)
               PROVE  /\ RendersAs(s, target[s])
                      /\ RunsAs(s, target[s]) \/ running[s] = Stopped
                      /\ WasConfigured => RunsAs(s, target[s])
    BY DEF InSyncAfterRestarts
  <1>1. s \in Sections /\ target # None /\ target[s] # None /\ target[s] # Stopped
    BY ConfigSyncAssumption DEF TypeOK, Present
  <1>2. target[s] = sectionHash[s]
    BY <1>1 DEF AgreedInv
  <1>3. Settled(s) /\ status = "none" /\ failed = {} /\ successful = {}
    BY <1>1, <1>2 DEF SettledInv, TruthInv, StageInv
  <1>4. uci[s] = target[s] /\ (running[s] = target[s] \/ (running[s] = Stopped /\ ~WasConfigured))
    BY <1>2, <1>3 DEF Settled
  <1> QED
    BY <1>1, <1>4, RunsAsValue

\* "In sync" is true when restarts fail and the server never returns: equal
\* hashes mean that every section is rendered as the server wants it, and
\* running too on a device that has a copy of all (docs/hashed_configurations.md
\* step 3).
THEOREM InSyncIsRunning == Spec => []InSyncAfterRestarts
  <1>1. Init => AgreedInv
    BY SteadyInit
  <1>2. mayFail \subseteq {"restart"} => OneKindFails
    BY DEF OneKindFails
  <1>3. Honest /\ CacheFresh /\ SteadyInv /\ AgreedInv /\ [Next]_vars => AgreedInv'
    <2>1. CASE mayFail \subseteq {"restart"}
      BY <1>2, <2>1, OneKind, AgreedStep DEF Honest, SteadyInv
    <2>2. CASE ~(mayFail \subseteq {"restart"})
      BY <2>2, FateIsFixed DEF AgreedInv
    <2> QED
      BY <2>1, <2>2
  <1>4. Honest /\ StrayInv /\ SteadyInv /\ AgreedInv => InSyncAfterRestarts
    BY <1>2, OneKind, InSyncHolds DEF Honest, SteadyInv, TypeInv, InSyncAfterRestarts
  <1> QED
    BY <1>1, <1>3, <1>4, HonestInvariance, CacheIsFresh, SteadyInvariance, StrayInvariance, PTL
       DEF Spec

\* With one kind of fault a complete rollback leaves the hashes of what runs
\* again (rollback.c:461-462): what contradicts that comment takes both, a
\* restart that fails and a script that fails after it.
THEOREM RollbackRestoresHashes == Spec => [](OneKindFails => HashesReflectRollback)
  <1>1. Honest /\ SteadyInv => (OneKindFails => HashesReflectRollback)
    BY OneKind
       DEF Honest, TypeInv, TypeOK, TruthInv, StageInv, CompleteInv, SteadyInv, KeptInv,
           HashesReflectRollback
  <1> QED
    BY HonestInvariance, SteadyInvariance, <1>1, PTL
=============================================================================
