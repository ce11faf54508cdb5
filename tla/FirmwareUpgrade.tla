-------------------------- MODULE FirmwareUpgrade ---------------------------
(***************************************************************************)
(* How fry-agent replaces the firmware of the router                       *)
(* (apps/agent/services/firmware_upgrade.c and its scripts                 *)
(* verify_firmware.sh, run_sysupgrade_test.sh, run_sysupgrade.sh): once a  *)
(* day, or when a command of the server says so, it asks for an update,    *)
(* downloads the archive, extracts and verifies it, looks whether it fits  *)
(* and is accepted, and starts sysupgrade, which ends every process and    *)
(* starts the router anew.                                                 *)
(*                                                                         *)
(* A version stands for its image, and images of two versions have two     *)
(* names.  All files are in /tmp: an attempt finds what earlier attempts   *)
(* left there, a reboot removes it.  What is told to the server may be     *)
(* lost at any time and is never repeated.                                 *)
(***************************************************************************)
EXTENDS Naturals

CONSTANTS
  Firmwares, FirstFirmware,
  None,        \* no file, nothing announced, nothing being written
  MaxFaults    \* bound: how many faults

FirmwareUpgradeAssumption ==
  FirstFirmware \in Firmwares /\ None \notin Firmwares /\ MaxFaults \in Nat

VARIABLES
  firmware,    \* the version on flash (device_info->os_version)
  wanted,      \* the version the server wants on the device
  step,        \* where handle_download_result is
  candidate,   \* the update that was announced last
  archive,     \* what was downloaded: good, odd (wrong sums) or cut (tar complains)
  extracted,   \* the images in extracted_files
  sums,        \* the version whose hash extracted_files/sha256sums has
  image,       \* firmware.bin
  flashing,    \* the image that sysupgrade writes
  heard,       \* a status that reached the server says the announced update failed
  looked,      \* the timer of the task has fired since the agent was started
  mayFail,     \* the kinds of faults that happen in this behaviour
  faults       \* faults so far

temp   == <<archive, extracted, sums, image>>
others == <<firmware, wanted, mayFail>>
vars   == <<others, step, candidate, temp, flashing, heard, looked, faults>>

Failures == {"download_failed", "hash_verification_failed", "insufficient_memory",
  "test_failed", "sysupgrade_failed"}

Fault(kind) ==
  /\ kind \in mayFail
  /\ faults < MaxFaults
  /\ faults' = faults + 1

\* One thing goes well, or it is one of the faults.
Works(ok, kind) ==
  \/ ok /\ UNCHANGED faults
  \/ ~ok /\ Fault(kind)

\* report_upgrade_status, which may not arrive.
Tell(status) == heard' = heard \/ heard' = (status \in Failures)

\* The first character of what verify_firmware.sh prints is 1: tar printed
\* nothing, there is one image, and its hash is the one in the file.
ImageIsThere(images, hash) == image' # None
HashMatches(images, hash)  == images = {hash}
Verified(images, hash) == archive # "cut" /\ images = {hash}

\* A boot empties /tmp.
LeavesExtracted == extracted
Emptied == {}

\* reboot_interval is longer than firmware_update_interval, and both timers
\* start with the agent.
AnyTime == TRUE
RebootDue == looked
-----------------------------------------------------------------------------
Init ==
  /\ firmware = FirstFirmware /\ wanted \in Firmwares
  /\ step = "none" /\ candidate = None
  /\ archive = "none" /\ extracted = {} /\ sums = None /\ image = None
  /\ flashing = None /\ heard = FALSE /\ looked = FALSE

\* The answer to send_firmware_check_request announces an update.  sysupgrade
\* ends the agent before it could ask again.
MayAsk == step = "none" /\ flashing = None

Announced ==
  /\ wanted # firmware
  /\ step' = "announced" /\ candidate' = wanted /\ heard' = FALSE
  /\ UNCHANGED <<others, temp, flashing>>

\* firmware_upgrade_task: an update is announced, or the answer is of no use or
\* says that there is none (yet).
Ask ==
  /\ MayAsk
  /\ looked' = TRUE
  /\ \/ Announced /\ UNCHANGED faults
     \/ /\ Works(wanted = firmware, "ask")
        /\ UNCHANGED <<others, step, candidate, temp, flashing, heard>>

\* commands_callback: the server has the agent ask before its timer does.
Command ==
  /\ MayAsk /\ Fault("command")
  /\ Announced
  /\ UNCHANGED looked

\* http_download, and the first report of handle_download_result.
Fetch ==
  /\ step = "announced"
  /\ \/ /\ \/ archive' = "good" /\ UNCHANGED faults
           \/ archive' \in {"odd", "cut"} /\ Fault(archive')
        /\ step' = "fetched" /\ Tell("download_confirmed")
     \/ /\ Fault("fetch")
        /\ step' = "none" /\ Tell("download_failed")
        /\ UNCHANGED archive
  /\ UNCHANGED <<others, candidate, extracted, sums, image, flashing, looked>>

\* execute_firmware_verification.  The archive is extracted over what is there;
\* tar may have extracted any part of one that is cut.  If the hash matches the
\* image is moved to firmware.bin, whatever else was printed.
Verify ==
  /\ step = "fetched"
  /\ \E images \in {extracted, extracted \cup {candidate}},
        hash   \in {sums, candidate, None} :
       /\ archive # "cut" => images = extracted \cup {candidate}
       /\ archive = "good" => hash = candidate
       /\ archive = "odd" => hash = None
       /\ sums' = hash
       /\ IF HashMatches(images, hash)
          THEN image' = hash /\ extracted' = {}
          ELSE extracted' = images /\ UNCHANGED image
       /\ IF Verified(images, hash)
          THEN step' = "verified" /\ Tell("hash_verification_confirmed")
          ELSE step' = "none" /\ Tell("hash_verification_failed")
  /\ archive' = "none"
  /\ UNCHANGED <<others, candidate, flashing, looked, faults>>

\* check_memory_and_proceed.
CheckMemory ==
  /\ step = "verified"
  /\ \E fits \in BOOLEAN :
       /\ Works(fits, "memory")
       /\ step' = IF fits THEN "fits" ELSE "none"
       /\ Tell(IF fits THEN "sufficient_memory" ELSE "insufficient_memory")
  /\ UNCHANGED <<others, candidate, temp, flashing, looked>>

\* run_firmware_test.
TestImage ==
  /\ step = "fits"
  /\ \E accepted \in BOOLEAN :
       /\ Works(accepted, "test")
       /\ step' = IF accepted THEN "tested" ELSE "none"
       /\ Tell(IF accepted THEN "test_successfull" ELSE "test_failed")
  /\ UNCHANGED <<others, candidate, temp, flashing, looked>>

\* run_sysupgrade: from here on the agent has no part in it.
Sysupgrade ==
  /\ step = "tested"
  /\ step' = "none"
  /\ \/ flashing' = image /\ UNCHANGED <<heard, faults>>
     \/ Fault("sysupgrade") /\ Tell("sysupgrade_failed") /\ UNCHANGED flashing
  /\ UNCHANGED <<others, candidate, temp, looked>>

Task == Fetch \/ Verify \/ CheckMemory \/ TestImage \/ Sysupgrade

\* The agent ends, in the middle of an attempt or not.
Stop ==
  /\ step' = "none" /\ looked' = FALSE
  /\ UNCHANGED <<others, candidate, extracted, sums, image, flashing, heard>>
  /\ archive' = "none"

\* The router starts anew.
BootEmpty ==
  /\ step' = "none" /\ looked' = FALSE /\ flashing' = None
  /\ archive' = "none" /\ extracted' = Emptied /\ sums' = None /\ image' = None
  /\ UNCHANGED <<wanted, mayFail, candidate, heard>>

\* sysupgrade has written the image.
Flash ==
  /\ flashing # None
  /\ firmware' = flashing
  /\ BootEmpty
  /\ UNCHANGED faults

\* The server changes its mind.
Want ==
  /\ Fault("want")
  /\ wanted' \in Firmwares \ {wanted}
  /\ UNCHANGED <<firmware, mayFail, step, candidate, temp, flashing, heard, looked>>
-----------------------------------------------------------------------------
TypeOK ==
  /\ firmware \in Firmwares /\ wanted \in Firmwares
  /\ step \in {"none", "announced", "fetched", "verified", "fits", "tested"}
  /\ candidate \in Firmwares \cup {None}
  /\ archive \in {"none", "good", "odd", "cut"}
  /\ extracted \subseteq Firmwares
  /\ sums \in Firmwares \cup {None} /\ image \in Firmwares \cup {None}
  /\ flashing \in Firmwares \cup {None}
  /\ heard \in BOOLEAN /\ looked \in BOOLEAN

\* What is written to flash is the update that was announced last, whatever
\* images earlier attempts left in /tmp, and no update that the server has been
\* told has failed (firmware_upgrade.c:177-243).
FlashesTheAnnounced ==
  [][firmware' # firmware => firmware' = candidate /\ ~heard]_vars

\* The router comes to run the firmware the server wants, whatever fails: what
\* an attempt leaves behind blocks those of other versions, but only until the
\* router reboots (verify_firmware.sh:13, reboot.c:20-33).
ReachesWanted == <>[](firmware = wanted)
=============================================================================
