--------------------------- MODULE UpgradesProofs ---------------------------
(***************************************************************************)
(* What Upgrades promises for every set of versions and faults.  It        *)
(* implements PackageUpdate, whatever the firmware upgrade and its reboots *)
(* do in between, so that all that is proved of PackageUpdate holds of it. *)
(* And the firmware that is written is the one announced last: the file    *)
(* names in /tmp do not say which attempt left them, but from the          *)
(* verification on, firmware.bin is that of the attempt under way, and     *)
(* nothing can come between the last check and sysupgrade.                 *)
(***************************************************************************)
EXTENDS Upgrades, PackageUpdateProofs

USE UpgradesAssumption DEF F!FirmwareUpgradeAssumption

\* From the verification to the end firmware.bin is the update announced.
Passed == {"verified", "fits", "tested"}

InAgent        == step # "none" => pc = "idle" /\ candidate # None
ImageOfAttempt == step \in Passed => image = candidate
Untold         == step # "none" \/ flashing # None => ~heard
FlashingTells  == flashing # None => flashing = candidate /\ step = "none"

\* The inductive invariant of the firmware upgrade.
FInv == F!TypeOK /\ InAgent /\ ImageOfAttempt /\ Untold /\ FlashingTells
-----------------------------------------------------------------------------
\* Every step is one of the package update or nothing to it.
LEMMA PackageStep ==
  ASSUME [UpgradesNext]_allVars, FInv
  PROVE  [Next]_vars
<1> USE DEF FInv, F!TypeOK
<1>1. CASE Start \/ OnBoot \/ PackageCheck \/ NoPackage
      BY <1>1 DEF Start, OnBoot, PackageCheck, NoPackage, Next
<1>2. CASE PackageSteps \/ PackageScript \/ Killed
      BY <1>2 DEF PackageSteps, PackageScript, Killed, Update, Script, Next
<1>3. CASE FirmwareCheck
      BY <1>3 DEF FirmwareCheck, F!Ask, F!Announced, F!Works, F!Fault, F!others, F!temp,
                  packageVars, vars, device, Elsewhere, Next
<1>4. CASE FirmwareCommand
      BY <1>4 DEF FirmwareCommand, F!Command, F!Announced, F!Fault, F!others, F!temp,
                  packageVars, vars, device, Elsewhere, Next
<1>5. CASE FirmwareSteps
      BY <1>5 DEF FirmwareSteps, F!Task, F!Fetch, F!Verify, F!CheckMemory, F!TestImage,
                  F!Sysupgrade, F!Works, F!Fault, F!others,
                  packageVars, vars, device, Elsewhere, Next
<1>6. CASE PowerLost \/ Rebooted
      BY <1>6 DEF PowerLost, Rebooted, Next
<1>7. CASE Reflashed
      BY <1>7 DEF Reflashed, F!Flash, Next
<1>8. CASE OfferPackage
      BY <1>8 DEF OfferPackage, Next
<1>9. CASE OfferFirmware
      BY <1>9 DEF OfferFirmware, F!Want, F!Fault, packageVars, vars, device, Elsewhere, Next
<1>10. CASE UNCHANGED allVars
      BY <1>10 DEF allVars
<1>11. QED
      BY <1>1, <1>2, <1>3, <1>4, <1>5, <1>6, <1>7, <1>8, <1>9, <1>10 DEF UpgradesNext

LEMMA FirmwareInit == UpgradesInit => FInv
BY DEF UpgradesInit, F!Init, FInv, F!TypeOK, InAgent, ImageOfAttempt, Untold, FlashingTells,
       Passed

\* What a report tells the server.
LEMMA ToldType ==
  ASSUME NEW status, heard \in BOOLEAN, F!Tell(status)
  PROVE  heard' \in BOOLEAN
<1>1. (status \in F!Failures) \in BOOLEAN
      OBVIOUS
<1>2. QED
      BY <1>1 DEF F!Tell

LEMMA ToldNoFailure ==
  ASSUME NEW status, status \notin F!Failures, ~heard, F!Tell(status)
  PROVE  ~heard'
BY Zenon DEF F!Tell

LEMMA NoFailures ==
  /\ "download_confirmed" \notin F!Failures
  /\ "hash_verification_confirmed" \notin F!Failures
  /\ "sufficient_memory" \notin F!Failures
  /\ "test_successfull" \notin F!Failures
BY DEF F!Failures

\* The steps of handle_download_result, each of which the agent takes in its
\* only thread.
LEMMA TaskStep ==
  ASSUME FInv, FirmwareSteps
  PROVE  FInv'
<1> USE DEF FInv, F!TypeOK, InAgent, ImageOfAttempt, Untold, FlashingTells, Passed,
            F!others, F!temp, packageVars
<1>1. pc = "idle" /\ pc' = "idle" /\ flashing = None
      BY DEF FirmwareSteps, Busy
<1>2. CASE F!Fetch
      BY <1>1, <1>2, ToldType, ToldNoFailure, NoFailures DEF F!Fetch
<1>3. CASE F!Verify
  <2>1. PICK images \in {extracted, extracted \cup {candidate}},
             hash \in {sums, candidate, None} : F!Verify!2!(images, hash)
        BY <1>3 DEF F!Verify
  <2>2. /\ candidate \in images \/ archive = "cut"
        /\ images \subseteq Firmwares /\ hash \in Firmwares \cup {None}
        BY <1>3, <2>1 DEF F!Verify
  <2>3. F!Verified(images, hash) => image' = candidate /\ step' = "verified" /\ ~heard'
        BY <1>3, <2>1, <2>2, ToldNoFailure, NoFailures DEF F!Verify, F!Verified, F!HashMatches
  <2>4. heard' \in BOOLEAN /\ (~F!Verified(images, hash) => step' = "none")
        BY <2>1, ToldType
  <2>5. /\ extracted' \subseteq Firmwares /\ sums' \in Firmwares \cup {None}
        /\ image' \in Firmwares \cup {None}
        BY <2>1, <2>2
  <2>6. QED
        BY <1>1, <1>3, <2>3, <2>4, <2>5 DEF F!Verify
<1>4. CASE F!CheckMemory
      BY <1>1, <1>4, ToldType, ToldNoFailure, NoFailures DEF F!CheckMemory
<1>5. CASE F!TestImage
      BY <1>1, <1>5, ToldType, ToldNoFailure, NoFailures DEF F!TestImage
<1>6. CASE F!Sysupgrade
      BY <1>1, <1>6, ToldType DEF F!Sysupgrade
<1>7. QED
      BY <1>2, <1>3, <1>4, <1>5, <1>6 DEF FirmwareSteps, F!Task

LEMMA FirmwareStep ==
  ASSUME FInv, TypeOK, [UpgradesNext]_allVars
  PROVE  FInv'
<1> USE DEF FInv, F!TypeOK, InAgent, ImageOfAttempt, Untold, FlashingTells, Passed,
            firmwareVars
<1>1. CASE Start \/ OnBoot \/ PackageCheck \/ PackageSteps \/ OfferPackage
  <2>1. UNCHANGED firmwareVars
        BY <1>1 DEF Start, OnBoot, PackageCheck, PackageSteps, OfferPackage
  <2>2. step = "none" \/ pc' = pc
        BY <1>1 DEF Start, OnBoot, PackageCheck, PackageSteps, OfferPackage, Free, Boot,
                    CheckCompletion, Update, Download, DownloadFailed, Verify,
                    VerificationFailed, WriteMarker, UpdatePackage, Offer
  <2>3. QED
        BY <2>1, <2>2
<1>2. CASE NoPackage \/ PackageScript \/ Killed
  <2>1. CASE F!Stop
        BY <2>1 DEF F!Stop, F!others
  <2>2. CASE ~F!Stop
    <3>1. UNCHANGED firmwareVars /\ (step = "none" \/ pc' = pc)
          BY <1>2, <2>2 DEF NoPackage, PackageScript, Killed, Free, Stopped, Script, Remove,
                            Install
    <3>2. QED
          BY <3>1
  <2>3. QED
        BY <2>1, <2>2
<1>3. CASE FirmwareCheck
      BY <1>3 DEF FirmwareCheck, F!Ask, F!MayAsk, F!Announced, F!others, F!temp, packageVars
<1>4. CASE FirmwareCommand
      BY <1>4 DEF FirmwareCommand, F!Command, F!MayAsk, F!Announced, F!others, F!temp,
                  packageVars
<1>5. CASE FirmwareSteps
      BY <1>5, TaskStep
<1>6. CASE PowerLost \/ Rebooted
      BY <1>6 DEF PowerLost, Rebooted, F!BootEmpty, F!Emptied
<1>7. CASE Reflashed
      BY <1>7 DEF Reflashed, F!Flash, F!BootEmpty, F!Emptied
<1>8. CASE OfferFirmware
      BY <1>8 DEF OfferFirmware, F!Want, F!temp, packageVars
<1>9. CASE UNCHANGED allVars
      BY <1>9 DEF allVars, vars
<1>10. QED
      BY <1>1, <1>2, <1>3, <1>4, <1>5, <1>6, <1>7, <1>8, <1>9 DEF UpgradesNext

\* The two invariants together.
LEMMA BothInvariants == UpgradesSpec => [](IInv /\ FInv)
<1>1. UpgradesInit => IInv /\ FInv
      BY InitInvariant, FirmwareInit DEF UpgradesInit
<1>2. IInv /\ FInv /\ [UpgradesNext]_allVars => IInv' /\ FInv'
      BY PackageStep, FirmwareStep, StepInvariant DEF IInv
<1>3. QED
      BY <1>1, <1>2, PTL DEF UpgradesSpec

\* What a firmware that changes must have been.
LEMMA FlashStep ==
  ASSUME FInv, [UpgradesNext]_allVars, firmware' # firmware
  PROVE  firmware' = candidate /\ ~heard
<1>1. CASE Reflashed
      BY <1>1 DEF Reflashed, F!Flash, FInv, FlashingTells, Untold
<1>2. CASE ~Reflashed
  <2>1. UNCHANGED firmware
        BY <1>2 DEF UpgradesNext, allVars, firmwareVars, Start, OnBoot, PackageCheck, NoPackage,
             PackageSteps, FirmwareCheck, FirmwareCommand, FirmwareSteps, PackageScript, Killed,
             PowerLost, Rebooted, OfferPackage, OfferFirmware, F!Stop, F!Ask, F!Command,
             F!Announced, F!Task, F!Fetch, F!Verify, F!CheckMemory, F!TestImage, F!Sysupgrade,
             F!Want, F!others
  <2>2. QED
        BY <2>1
<1>3. QED
      BY <1>1, <1>2
-----------------------------------------------------------------------------
\* The two upgrades in one process implement the package update alone: neither
\* the tasks of the firmware, nor the reboots, nor a new firmware take it
\* somewhere it could not go by itself (main.c:200-226).
THEOREM ImplementsPackageUpdate == UpgradesSpec => Spec
<1>1. UpgradesInit => Init
      BY DEF UpgradesInit
<1>2. FInv /\ [UpgradesNext]_allVars => [Next]_vars
      BY PackageStep
<1>3. QED
      BY BothInvariants, <1>1, <1>2, PTL DEF UpgradesSpec, Spec

\* The variables of both keep their types, and no attempt outlives the agent.
THEOREM UpgradesTypeCorrect == UpgradesSpec => []UpgradesTypeOK
<1>1. IInv /\ FInv => UpgradesTypeOK
      BY DEF IInv, FInv, InAgent, UpgradesTypeOK
<1>2. QED
      BY BothInvariants, <1>1, PTL

\* In the composition, too, completed is told of the package announced last
\* only, and only if it runs, unless its marker could not be written
\* (package_update.c:98-122).
THEOREM CompletedTrulyInUpgrades == UpgradesSpec => CompletedIsTrue
BY ImplementsPackageUpdate, CompletedTruly, PTL

\* The firmware that is written is the one announced last, and the server was
\* not told that it failed (firmware_upgrade.c:177-243).
THEOREM FlashedTruly == UpgradesSpec => FlashesTheAnnounced
<1>1. FInv /\ [UpgradesNext]_allVars =>
        [firmware' # firmware => firmware' = candidate /\ ~heard]_F!vars
      BY FlashStep
<1>2. QED
      BY BothInvariants, <1>1, PTL DEF UpgradesSpec, FlashesTheAnnounced, F!FlashesTheAnnounced
=============================================================================
