---------------------------- MODULE MCFryGateway ----------------------------
(***************************************************************************)
(* Small instances of FryGateway.                                          *)
(***************************************************************************)
EXTENDS FryGateway

\* The agent alone with the faults of its token, or with those of its client, and
\* those of the network; a server that refuses certificates and changes its CA; a
\* portal whose agent ends in every way, with a network that fails; fry-config and
\* an agent that fail.
Agent  == {{"outage", "expiry", "request", "save", "full", "answer", "connect", "drop", "kill"},
           {"outage", "long", "expiry", "request", "connect", "drop", "check", "stop"}}
Server == {{"enrol", "rotate", "kill", "reboot", "expiry"}}
Portal == {{"clients", "stop", "kill"}, {"clients", "context", "kill", "drop"},
           {"clients", "reboot", "outage"}}
Config == {{"lend", "borrower", "expiry", "request", "outage", "stop"}}

Each == Agent \cup Server \cup Portal \cup Config

InOrder == {{"clients", "stop"}}
=============================================================================
