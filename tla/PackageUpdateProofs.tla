------------------------ MODULE PackageUpdateProofs -------------------------
(***************************************************************************)
(* What PackageUpdate promises for every set of versions and of faults:    *)
(* its type invariant, and that no update is reported as completed unless  *)
(* it is the one announced last and it runs.  The agent does not read the  *)
(* marker while it updates, and what it reads after a start may have been  *)
(* left by any of the attempts before; the invariant says why it cannot be *)
(* misled: a marker that names the package on the device is always that of *)
(* the attempt announced last, and exists only until the agent starts.     *)
(***************************************************************************)
EXTENDS PackageUpdate, TLAPS

\* While an update is being prepared the agent is not yet what it announced.
Preparing == {"announced", "downloaded", "corrupt", "verified", "marked"}

RunsInstalled   == running # None => running = installed
NewerAnnounced  == pc \in Preparing => attempt # running
MarkerTells     == marker # None /\ marker = installed =>
                     installed = attempt /\ pc \in {"off", "boot"}
BrokenByFault   == marker = Broken => "broken" \in mayFail

\* The inductive invariant.
IInv == TypeOK /\ RunsInstalled /\ NewerAnnounced /\ MarkerTells /\ BrokenByFault

USE PackageUpdateAssumption
-----------------------------------------------------------------------------
\* A fault that happens stays within the bound.
LEMMA FaultType ==
  ASSUME NEW kind, faults \in 0..MaxFaults, Fault(kind)
  PROVE  faults' \in 0..MaxFaults /\ kind \in mayFail
BY DEF Fault

\* A report changes nothing but what the server knows and the faults.
LEMMA ReportType ==
  ASSUME NEW status, faults \in 0..MaxFaults, Report(status)
  PROVE  faults' \in 0..MaxFaults /\ told' \in {told, status}
BY DEF Report, Fault

LEMMA InitInvariant == Init => IInv
BY DEF Init, IInv, TypeOK, RunsInstalled, NewerAnnounced, MarkerTells, BrokenByFault, Preparing

LEMMA StepInvariant == IInv /\ [Next]_vars => IInv'
<1> SUFFICES ASSUME IInv, [Next]_vars PROVE IInv'
    OBVIOUS
<1> USE DEF IInv, TypeOK, RunsInstalled, NewerAnnounced, MarkerTells, BrokenByFault,
            Preparing, Stopped, Silently, device
<1>1. CASE Boot
      BY <1>1 DEF Boot
<1>2. CASE CheckCompletion
      BY <1>2, ReportType DEF CheckCompletion
<1>3. CASE Check
      BY <1>3, FaultType, ReportType DEF Check
<1>4. CASE NoUpdate
      BY <1>4, FaultType DEF NoUpdate
<1>5. CASE Download
      BY <1>5, FaultType DEF Download
<1>6. CASE DownloadFailed
      BY <1>6, ReportType DEF DownloadFailed
<1>7. CASE Verify
      BY <1>7, FaultType DEF Verify
<1>8. CASE VerificationFailed
      BY <1>8, ReportType DEF VerificationFailed
<1>9. CASE WriteMarker
      BY <1>9, FaultType DEF WriteMarker
<1>10. CASE UpdatePackage
      BY <1>10, FaultType DEF UpdatePackage
<1>11. CASE Remove
      BY <1>11, FaultType DEF Remove
<1>12. CASE Install
      BY <1>12, FaultType DEF Install
<1>13. CASE Kill
      BY <1>13, FaultType DEF Kill
<1>14. CASE Reboot
      BY <1>14, FaultType DEF Reboot, BootEmpty
<1>15. CASE Offer
      BY <1>15, FaultType DEF Offer
<1>16. CASE UNCHANGED vars
      BY <1>16 DEF vars
<1>17. CASE RebootTask
      BY <1>17 DEF RebootTask, BootEmpty
<1>18. CASE \E version \in Versions : Reflash(version)
      BY <1>18 DEF Reflash, BootEmpty
<1>19. CASE Elsewhere
      BY <1>19 DEF Elsewhere
<1>20. QED
      BY <1>1, <1>2, <1>3, <1>4, <1>5, <1>6, <1>7, <1>8, <1>9, <1>10, <1>11, <1>12,
         <1>13, <1>14, <1>15, <1>16, <1>17, <1>18, <1>19 DEF Next

\* What makes the server hear of a completed update.
LEMMA CompletedStep ==
  ASSUME IInv, [Next]_vars, told # "completed", told' = "completed",
         "broken" \notin mayFail
  PROVE  running = attempt /\ installed = attempt
<1>1. CheckCompletion
  <2> USE DEF Report, Silently, vars
  <2>1. CASE Check \/ NoUpdate
        BY <2>1 DEF Check, NoUpdate
  <2>2. CASE Download \/ DownloadFailed \/ Verify \/ VerificationFailed
        BY <2>2 DEF Download, DownloadFailed, Verify, VerificationFailed
  <2>3. CASE Boot \/ WriteMarker \/ UpdatePackage \/ Remove \/ Install
        BY <2>3 DEF Boot, WriteMarker, UpdatePackage, Remove, Install
  <2>4. CASE Kill \/ Reboot \/ RebootTask \/ Offer \/ Elsewhere
             \/ \E version \in Versions : Reflash(version)
        BY <2>4 DEF Kill, Reboot, RebootTask, Reflash, BootEmpty, Offer, Elsewhere
  <2>5. QED
        BY <2>1, <2>2, <2>3, <2>4 DEF Next
<1>2. Present /\ Completed
      BY <1>1 DEF CheckCompletion, Silently
<1>3. marker # None /\ marker = running
      BY <1>2 DEF Present, Completed, IInv, BrokenByFault
<1>4. QED
      BY <1>3 DEF IInv, RunsInstalled, MarkerTells
-----------------------------------------------------------------------------
\* Every variable keeps its type, for every set of versions and every bound on
\* the faults; the agent has a version exactly while it runs.
THEOREM TypeCorrect == Spec => []TypeOK
<1>1. IInv => TypeOK
      BY DEF IInv
<1>2. QED
      BY InitInvariant, StepInvariant, <1>1, PTL DEF Spec

\* Completed is told of the update announced last only, and only if it runs,
\* whichever marker an earlier attempt left behind, unless the marker could not be
\* written (package_update.c:98-122).
THEOREM CompletedTruly == Spec => CompletedIsTrue
<1>1. IInv /\ [Next]_vars =>
        [told # "completed" /\ told' = "completed" /\ "broken" \notin mayFail =>
           running = attempt /\ installed = attempt]_vars
      BY CompletedStep
<1>2. QED
      BY InitInvariant, StepInvariant, <1>1, PTL DEF Spec, CompletedIsTrue
=============================================================================
