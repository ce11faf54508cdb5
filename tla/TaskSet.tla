------------------------------ MODULE TaskSet -------------------------------
(***************************************************************************)
(* What the scheduler of lib/core promises its callers, without timers,    *)
(* lists and memory: a set of pending tasks, of which one at a time runs.  *)
(* A one-off task leaves the set when it begins to run, a repeating task   *)
(* stays until it is cancelled, be it by its own callback, and what is not *)
(* pending does not run.                                                   *)
(***************************************************************************)
CONSTANTS Tasks, Idle

VARIABLES
  pending,     \* the tasks that are scheduled
  repeating,   \* those of them that run again and again
  executing,   \* the task whose callback runs, or Idle
  open         \* the event loop has not been shut down

vars == <<pending, repeating, executing, open>>

Init == pending = {} /\ repeating = {} /\ executing = Idle /\ open = TRUE

Schedule(t) ==
  /\ open
  /\ t \notin pending
  /\ pending' = pending \cup {t}
  /\ repeating' \in {repeating, repeating \cup {t}}
  /\ UNCHANGED <<executing, open>>

Cancel(t) ==
  /\ t \in pending
  /\ pending' = pending \ {t} /\ repeating' = repeating \ {t}
  /\ UNCHANGED <<executing, open>>

Run(t) ==
  /\ open /\ executing = Idle
  /\ t \in pending
  /\ executing' = t
  /\ pending' = IF t \in repeating THEN pending ELSE pending \ {t}
  /\ UNCHANGED <<repeating, open>>

Return == executing # Idle /\ executing' = Idle /\ open /\ UNCHANGED <<pending, repeating, open>>

Shutdown ==
  /\ open' = FALSE /\ pending' = {} /\ repeating' = {}
  /\ UNCHANGED executing

Next == (\E t \in Tasks : Schedule(t) \/ Cancel(t) \/ Run(t)) \/ Return \/ Shutdown

Spec == Init /\ [][Next]_vars
=============================================================================
