---------------------------- MODULE MCCollector -----------------------------
(***************************************************************************)
(* Small instances of Collector: batches of one log, one attempt each, so  *)
(* that three logs are enough to disable acceptance.                       *)
(***************************************************************************)
EXTENDS Collector

\* Everything may fail, with and without the lookup of logd; or requests only.
AnyFaults == {{"ubus", "connect", "eof", "agent", "http"} \cup lookup : lookup \in SUBSET {"lookup"}}
OnlyHttp  == {{"http"}}
=============================================================================
