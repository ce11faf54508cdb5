-------------------------- MODULE MCPackageUpdate ---------------------------
(***************************************************************************)
(* A small instance of Upgrades: three versions of the package and of the  *)
(* firmware, so that the server can change its mind during an update, and  *)
(* three sets of faults, one for each antecedent of the properties.  Each  *)
(* firmware comes with the first package.                                  *)
(***************************************************************************)
EXTENDS Upgrades

FirmwareFaults ==
  {"ask", "command", "fetch", "odd", "cut", "memory", "test", "sysupgrade", "want"}

AnyFaults   == FaultKinds \cup FirmwareFaults
NotGone     == AnyFaults \ {"gone", "broken"}
OnlyRetried == FirmwareFaults \cup {"check", "download", "corrupt", "run", "opkg", "kill"}
ThreeSets   == {AnyFaults, NotGone, OnlyRetried}
AllFirst    == [v \in Firmwares |-> FirstVersion]
=============================================================================
