----------------------------- MODULE MCFryAgent -----------------------------
(***************************************************************************)
(* Small instances of FryAgent.                                            *)
(***************************************************************************)
EXTENDS FryAgent

\* The network fails for long, or for less.
Outages   == {{"outage", "long", "expiry"}}
OneOutage == {{"outage", "expiry"}}
=============================================================================
