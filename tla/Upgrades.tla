------------------------------ MODULE Upgrades ------------------------------
(***************************************************************************)
(* The two ways in which fry-agent replaces itself, in one process: the    *)
(* package it is part of (PackageUpdate) and the firmware of the router    *)
(* (FirmwareUpgrade).  The tasks of the agent run one after the other in   *)
(* its only thread, and each runs to its end unless the process ends; the  *)
(* script that replaces the package, and sysupgrade, run beside them.  A   *)
(* new firmware brings an older package along; reboot_task reboots the     *)
(* router a little more than a day after the agent was started.            *)
(***************************************************************************)
EXTENDS PackageUpdate

CONSTANTS
  Firmwares, FirstFirmware,
  Bundled      \* the package that comes with each firmware

VARIABLES
  firmware, wanted, step, candidate, archive, extracted, sums, image, flashing, heard,
  looked

F == INSTANCE FirmwareUpgrade

ASSUME UpgradesAssumption ==
  /\ F!FirmwareUpgradeAssumption
  /\ Bundled \in [Firmwares -> Versions]

firmwareVars == <<firmware, wanted, step, candidate, archive, extracted, sums, image,
                  flashing, heard, looked>>
packageVars  == <<device, pc, attempt, offer, told>>
allVars      == <<vars, firmwareVars>>

UpgradesInit == Init /\ F!Init
-----------------------------------------------------------------------------
\* The agent is in no attempt to upgrade the firmware, or in one.
Free == step = "none" /\ flashing = None
Busy == pc = "idle" /\ step # "none"

\* main: procd, then check_package_update_completion and
\* firmware_upgrade_on_boot, which tells the server the version that runs, waits
\* for the answer and does nothing with it.
Start  == Boot /\ UNCHANGED firmwareVars
OnBoot == CheckCompletion /\ UNCHANGED firmwareVars

\* The tasks of the package update.
PackageCheck == Free /\ Check /\ UNCHANGED firmwareVars
NoPackage    == Free /\ NoUpdate
                /\ IF pc' = "off" THEN F!Stop ELSE UNCHANGED firmwareVars
PackageSteps == Update /\ UNCHANGED firmwareVars

\* The tasks of the firmware upgrade.
FirmwareCheck   == pc = "idle" /\ F!Ask /\ UNCHANGED packageVars
FirmwareCommand == pc = "idle" /\ F!Command /\ UNCHANGED packageVars
FirmwareSteps   == Busy /\ F!Task /\ UNCHANGED packageVars

\* What ends the process ends an attempt; what sysupgrade writes, it writes.
PackageScript == Script /\ IF pc' = "off" THEN F!Stop ELSE UNCHANGED firmwareVars
Killed        == Kill /\ F!Stop

\* What ends every process.
PowerLost    == flashing = None /\ Reboot /\ F!BootEmpty /\ UNCHANGED firmware
Rebooted     == Free /\ F!RebootDue /\ RebootTask /\ F!BootEmpty /\ UNCHANGED firmware
Reflashed    == F!Flash /\ Reflash(Bundled[flashing])

\* The server.
OfferPackage  == Offer /\ UNCHANGED firmwareVars
OfferFirmware == F!Want /\ UNCHANGED packageVars

UpgradesNext ==
  \/ Start \/ OnBoot \/ PackageCheck \/ NoPackage \/ PackageSteps
  \/ FirmwareCheck \/ FirmwareCommand \/ FirmwareSteps \/ PackageScript \/ Killed
  \/ PowerLost \/ Rebooted \/ Reflashed \/ OfferPackage \/ OfferFirmware

UpgradesSpec == UpgradesInit /\ [][UpgradesNext]_allVars

\* procd starts what is installed; a task that began goes on; uloop runs the
\* timers that are due in the order of their times.  The timer of the firmware
\* comes after a day without a restart, that of the package again and again even
\* if the agent restarts, as it does after each update; sysupgrade runs by
\* itself, and so does the script, which takes seconds and is not overtaken each
\* time by the reboot: it is due after 88200 s, the checks for a package after
\* 20000 s each.
UpgradesFairSpec ==
  /\ UpgradesSpec
  /\ WF_allVars(Start) /\ WF_allVars(OnBoot)
  /\ WF_allVars(PackageSteps) /\ WF_allVars(FirmwareSteps)
  /\ SF_allVars(PackageCheck) /\ WF_allVars(FirmwareCheck)
  /\ SF_allVars(PackageScript) /\ SF_allVars(Rebooted) /\ WF_allVars(Reflashed)
-----------------------------------------------------------------------------
\* The variables of both upgrades keep their types, and no attempt outlives the
\* process it is made in.
UpgradesTypeOK == TypeOK /\ F!TypeOK /\ (step # "none" => pc = "idle")

\* What is written to flash is the update that was announced last, whatever
\* images earlier attempts left in /tmp, and no update that the server has been
\* told has failed (firmware_upgrade.c:177-243).
FlashesTheAnnounced == F!FlashesTheAnnounced

\* The router comes to run the firmware the server wants, whatever fails: what
\* an attempt leaves behind blocks those of other versions, but only until the
\* router reboots (verify_firmware.sh:13, reboot.c:20-33).
ReachesWanted == "gone" \notin mayFail => F!ReachesWanted
=============================================================================
