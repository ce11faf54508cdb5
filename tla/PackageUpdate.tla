--------------------------- MODULE PackageUpdate ----------------------------
(***************************************************************************)
(* How fry-agent replaces the package it is part of                        *)
(* (apps/agent/services/package_update.c, scripts/openwrt/                 *)
(* run_opkg_upgrade.sh): it asks the server for a newer version, announces *)
(* the update, downloads and verifies it, leaves a marker in /tmp and      *)
(* starts a script in the background, which removes the old package, and   *)
(* the agent with it, and installs the new one.  The agent that starts     *)
(* then compares the marker with its own version and reports.              *)
(*                                                                         *)
(* A version stands for a package.  What is sent to the server may be      *)
(* lost; what lies in /tmp is lost in a reboot.  The script takes seconds, *)
(* the interval between checks is hours, so that no check runs beside it.  *)
(***************************************************************************)
EXTENDS Naturals

CONSTANTS
  Versions, FirstVersion,
  None,        \* no file, no package, no process
  Broken,      \* a marker that is empty
  FaultSets,   \* which kinds of faults can happen together in a behaviour
  MaxFaults    \* bound: how many faults

FaultKinds == {"check", "report", "download", "corrupt", "marker", "broken", "run",
               "opkg", "gone", "kill", "restart", "reboot", "offer", "dangling"}

ASSUME PackageUpdateAssumption ==
  /\ FirstVersion \in Versions /\ {None, Broken} \cap Versions = {} /\ None # Broken
  /\ FaultSets \subseteq SUBSET STRING /\ MaxFaults \in Nat

VARIABLES
  installed,   \* the version of the package on flash
  running,     \* os_services_version of the agent that runs
  pc,          \* where the agent is
  marker,      \* UPDATE_MARKER_FILE
  script,      \* where the background script is
  attempt,     \* new_version of the update that was announced last
  offer,       \* the version the server wants on the device
  told,        \* the last status of the update that reached the server
  mayFail,     \* the kinds of faults that happen in this behaviour
  faults       \* faults so far

device == <<installed, running, marker, script>>
vars   == <<device, pc, attempt, offer, told, mayFail, faults>>

Fault(kind) ==
  /\ kind \in mayFail
  /\ faults < MaxFaults
  /\ faults' = faults + 1

\* send_package_status, whose failure nobody notices.
Report(status) ==
  \/ told' = status /\ UNCHANGED faults
  \/ Fault("report") /\ UNCHANGED told

Silently == UNCHANGED <<told, faults>>

\* The comparison of the marker with the version of the agent; an empty marker
\* leaves the buffer as it was on the stack.
Present == marker # None
ReadsNewline == marker = Broken
Completed == marker = running \/ marker = Broken
Failed    == marker # running

\* Whether the task looks for an update.
NotTriedYet == attempt # offer
EachTime == TRUE

\* The end of the process.
OnlyExited == pc' = "off" /\ UNCHANGED running
Stopped == pc' = "off" /\ running' = None
-----------------------------------------------------------------------------
Init ==
  /\ installed = FirstVersion /\ running = None /\ pc = "off"
  /\ marker = None /\ script = "none" /\ attempt = None
  /\ offer \in Versions /\ told = "nothing"
  /\ mayFail \in FaultSets /\ faults = 0

\* procd starts the agent that is installed.
Boot ==
  /\ pc = "off" /\ installed # None /\ script # "removed"
  /\ running' = installed /\ pc' = "boot"
  /\ UNCHANGED <<installed, marker, script, attempt, offer, told, mayFail, faults>>

\* check_package_update_completion: the marker goes whatever it says and
\* whether or not the report arrives.
CheckCompletion ==
  /\ pc = "boot"
  /\ \/ Present /\ Completed /\ Report("completed")
     \/ (Present => Failed) /\ Silently
  /\ marker' = None /\ pc' = "idle"
  /\ UNCHANGED <<installed, running, script, attempt, offer, mayFail>>

\* package_update_task: send_package_check_request and the first report.
Check ==
  /\ pc = "idle" /\ script = "none" /\ EachTime
  /\ offer # running
  /\ \/ Fault("check") /\ UNCHANGED <<pc, attempt, told>>
     \/ pc' = "announced" /\ attempt' = offer /\ Report("in_progress")
  /\ UNCHANGED <<device, offer, mayFail>>

\* The answer that there is none is a pointer to a variable of a function that
\* has returned.  What the task reads is what was written, and nothing happens,
\* or it is anything: the task crashes, or it announces an update and finds no
\* package to download, or announces it and crashes then.
NoUpdate ==
  /\ pc = "idle" /\ script = "none" /\ offer = running
  /\ Fault("dangling")
  /\ told' \in {told, "in_progress"}
  /\ Stopped \/ (told' = "in_progress" /\ pc' = "failed" /\ UNCHANGED running)
  /\ UNCHANGED <<installed, marker, script, attempt, offer, mayFail>>

\* download_package, which reports a failure, as its caller then does again.
Download ==
  /\ pc = "announced"
  /\ \/ pc' = "downloaded" /\ Silently
     \/ pc' = "failed" /\ Fault("download") /\ UNCHANGED told
  /\ UNCHANGED <<device, attempt, offer, mayFail>>

DownloadFailed ==
  /\ \/ pc = "failed" /\ pc' = "reported"
     \/ pc = "reported" /\ pc' = "idle"
  /\ Report("error")
  /\ UNCHANGED <<device, attempt, offer, mayFail>>

\* verify_package_checksum.
Verify ==
  /\ pc = "downloaded"
  /\ \/ pc' = "verified" /\ Silently
     \/ pc' = "corrupt" /\ Fault("corrupt") /\ UNCHANGED told
  /\ UNCHANGED <<device, attempt, offer, mayFail>>

VerificationFailed ==
  /\ pc = "corrupt"
  /\ pc' = "idle" /\ Report("error")
  /\ UNCHANGED <<device, attempt, offer, mayFail>>

\* write_update_marker.
WriteMarker ==
  /\ pc = "verified"
  /\ pc' = "marked"
  /\ \/ marker' = attempt /\ UNCHANGED faults
     \/ Fault("marker") /\ UNCHANGED marker
     \/ Fault("broken") /\ marker' = Broken
  /\ UNCHANGED <<installed, running, script, attempt, offer, told, mayFail>>

\* update_package: run_opkg_upgrade.sh leaves a script behind and returns; a
\* failure is not looked at.
UpdatePackage ==
  /\ pc = "marked"
  /\ pc' = "idle"
  /\ \/ script' = "waiting" /\ UNCHANGED faults
     \/ Fault("run") /\ UNCHANGED script
  /\ UNCHANGED <<installed, running, marker, attempt, offer, told, mayFail>>

\* do_upgrade.sh: opkg remove, which stops the agent ...
Remove ==
  /\ script = "waiting"
  /\ \/ script' = "removed" /\ installed' = None /\ Stopped /\ UNCHANGED faults
     \/ script' = "kept" /\ Fault("opkg") /\ UNCHANGED <<installed, running, pc>>
  /\ UNCHANGED <<marker, attempt, offer, told, mayFail>>

\* ... and opkg install, which starts the new one.
Install ==
  /\ script \in {"removed", "kept"}
  /\ script' = "none"
  /\ \/ installed' = attempt /\ Stopped /\ UNCHANGED faults
     \/ /\ Fault(IF script = "removed" THEN "gone" ELSE "opkg")
        /\ UNCHANGED <<installed, running, pc>>
  /\ UNCHANGED <<marker, attempt, offer, told, mayFail>>

\* The agent is killed and started again by procd, or by fry-config, which may
\* do so while the script waits; it then takes the marker for a failure.
Kill ==
  /\ pc # "off"
  /\ IF script = "none" THEN Fault("kill") ELSE Fault("restart")
  /\ Stopped
  /\ UNCHANGED <<installed, marker, script, attempt, offer, told, mayFail>>

\* Every process ends and /tmp is empty.
BootEmpty ==
  /\ Stopped /\ marker' = None /\ script' = "none"
  /\ UNCHANGED <<attempt, offer, told, mayFail>>

\* The router loses power.
Reboot ==
  /\ IF script = "removed" THEN Fault("gone") ELSE Fault("reboot")
  /\ BootEmpty
  /\ UNCHANGED installed

\* reboot_task: the agent reboots the router, between two of its other tasks.
RebootTask ==
  /\ pc = "idle"
  /\ BootEmpty
  /\ UNCHANGED <<installed, faults>>

\* A new firmware brings a package of its own.
Reflash(version) ==
  /\ installed' = version
  /\ BootEmpty
  /\ UNCHANGED faults

\* Something fails that is no concern of the update.
Elsewhere ==
  /\ faults < MaxFaults /\ faults' = faults + 1
  /\ UNCHANGED <<device, pc, attempt, offer, told, mayFail>>

\* The server changes its mind.
Offer ==
  /\ Fault("offer")
  /\ offer' \in Versions \ {offer}
  /\ UNCHANGED <<device, pc, attempt, told, mayFail>>

Next ==
  \/ Boot \/ CheckCompletion \/ Check \/ NoUpdate \/ Download \/ DownloadFailed
  \/ Verify \/ VerificationFailed \/ WriteMarker \/ UpdatePackage \/ Remove \/ Install
  \/ Kill \/ Reboot \/ RebootTask \/ Offer \/ Elsewhere
  \/ \E version \in Versions : Reflash(version)

Spec == Init /\ [][Next]_vars

\* The steps that package_update_task takes one after the other.
Update == Download \/ DownloadFailed \/ Verify \/ VerificationFailed \/ WriteMarker
          \/ UpdatePackage

\* The script in the background.
Script == Remove \/ Install
-----------------------------------------------------------------------------
\* Every variable keeps its type, and the agent runs exactly if it has a
\* version.
TypeOK ==
  /\ installed \in Versions \cup {None} /\ running \in Versions \cup {None}
  /\ pc \in {"off", "boot", "idle", "announced", "failed", "reported", "downloaded",
             "corrupt", "verified", "marked"}
  /\ pc = "off" <=> running = None
  /\ marker \in Versions \cup {None, Broken}
  /\ script \in {"none", "waiting", "removed", "kept"}
  /\ attempt \in Versions \cup {None} /\ offer \in Versions
  /\ told \in {"nothing", "in_progress", "error", "completed"}
  /\ mayFail \in FaultSets /\ faults \in 0..MaxFaults

\* What is reported as completed is the update announced last, and it runs: no
\* marker that an earlier attempt left behind, whatever failed, was killed or
\* rebooted meanwhile, counts for another one (package_update.c:98-122).  The one
\* exception is a marker that was created and could not be written: the comparison
\* reads a buffer that nothing was read into (package_update.c:103-109).
CompletedIsTrue ==
  [][told # "completed" /\ told' = "completed" /\ "broken" \notin mayFail =>
       running = attempt /\ installed = attempt]_vars

\* An update that was announced does not stay in progress for the server, even
\* if downloads, verifications or opkg fail or the agent is killed on the way:
\* it is reported or announced anew until it is (package_update.c:378-380).
NotInProgressForEver ==
  mayFail \cap {"report", "marker", "broken", "gone", "restart", "reboot", "offer",
               "dangling"} = {} =>
    (told = "in_progress" ~> told # "in_progress")

\* The device comes to have and to run the version the server wants, whatever
\* fails, as long as the script is not cut off between removing and installing,
\* which leaves a router without an agent.
ReachesOffer ==
  "gone" \notin mayFail => <>[](installed = offer) /\ []<>(running = offer)
=============================================================================
