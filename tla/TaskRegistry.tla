---------------------------- MODULE TaskRegistry ----------------------------
(***************************************************************************)
(* The task scheduler that fry-agent and fry-config run on                 *)
(* (lib/core/uloop_scheduler.c): a linked list of tasks on the heap, each  *)
(* with a timer of uloop in it.  The registry and the timers must agree    *)
(* although a callback may cancel its own task, cancel others and schedule *)
(* new ones, for which malloc may hand out the memory just freed.          *)
(*                                                                         *)
(* A call that fails changes nothing and is left out: malloc without       *)
(* memory, no callback, an interval of 0.                                  *)
(***************************************************************************)
EXTENDS Naturals, Sequences, FiniteSets

CONSTANTS
  Blocks,    \* pieces of memory for a Task
  IdLimit,   \* 2^32: how many values a task_id_t has
  Freed,     \* what a piece of memory holds that is not allocated
  Idle       \* no callback runs

Ids     == 0 .. IdLimit - 1
TaskRec == [id : Ids, repeating : BOOLEAN]

ASSUME TaskRegistryAssumption ==
  /\ IdLimit \in Nat /\ IdLimit > 1
  /\ Freed \notin TaskRec
  /\ Idle \notin Blocks \cup [block : Blocks, repeating : BOOLEAN]

VARIABLES
  heap,      \* each piece of memory
  registry,  \* task_registry: the linked list, the newest task first
  armed,     \* the tasks whose timer is set in uloop
  nextId,    \* next_task_id
  running,   \* the callback that runs, with what internal_task_cb remembers
  open,      \* scheduler_shutdown has not been called
  recent     \* history: the last ids handed out, the newest first, as many as there are

vars == <<heap, registry, armed, nextId, running, open, recent>>

Elements(seq) == {seq[i] : i \in DOMAIN seq}
Registered == Elements(registry)
Place(b) == CHOOSE i \in DOMAIN registry : registry[i] = b

\* remove_task_from_registry.
LosesRest(b) == [i \in 1 .. Place(b) - 1 |-> registry[i]]
Unlinked(b) ==
  [i \in 1 .. Len(registry) - 1 |-> IF i < Place(b) THEN registry[i] ELSE registry[i + 1]]

\* The id of the next task: 0 means failure and is passed over, so that there are
\* IdLimit - 1 of them.
ZeroAfterWrap == nextId
LowestFree == Cardinality(Registered) + 1
NewId == IF nextId = 0 THEN 1 ELSE nextId

\* find_task_by_id: the newest task with this id.
Found(i) ==
  {registry[k] : k \in {n \in DOMAIN registry :
     /\ heap[registry[n]].id = i
     /\ \A m \in DOMAIN registry : m < n => heap[registry[m]].id # i}}

\* What internal_task_cb does after the callback depends on what it copied
\* before; the task may be gone.
RereadsTask == heap[running.block] # Freed /\ ~heap[running.block].repeating
OneOff == ~running.repeating
-----------------------------------------------------------------------------
\* scheduler_init.
Init ==
  /\ heap = [b \in Blocks |-> Freed]
  /\ registry = <<>> /\ armed = {} /\ nextId = 1
  /\ running = Idle /\ open = TRUE /\ recent = <<>>

\* schedule_once, schedule_repeating: by a callback, or by anything else.
Schedule(b, again) ==
  /\ open
  /\ heap[b] = Freed
  /\ heap' = [heap EXCEPT ![b] = [id |-> NewId, repeating |-> again]]
  /\ nextId' = (NewId + 1) % IdLimit
  /\ recent' = [k \in 1 .. (IF Len(recent) = IdLimit - 1 THEN IdLimit - 1 ELSE Len(recent) + 1) |->
                  IF k = 1 THEN NewId ELSE recent[k - 1]]
  /\ registry' = <<b>> \o registry
  /\ armed' = armed \cup {b}
  /\ UNCHANGED <<running, open>>

\* cancel_task with an id it finds; otherwise it returns false.
Cancel(b, i) ==
  /\ b \in Found(i)
  /\ armed' = armed \ {b}
  /\ registry' = Unlinked(b)
  /\ heap' = [heap EXCEPT ![b] = Freed]
  /\ UNCHANGED <<nextId, running, open, recent>>

\* What internal_task_cb does with the task before the callback.
OnlyTimerStops(b) == armed' = armed \ {b} /\ UNCHANGED registry
RunsAgain(b) == UNCHANGED <<registry, armed>>
RunsOnce(b) == armed' = armed \ {b} /\ registry' = Unlinked(b)

\* The timer of a task is due: internal_task_cb up to the callback.
Fire(b) ==
  /\ open /\ running = Idle
  /\ b \in armed
  /\ running' = [block |-> b, repeating |-> heap[b].repeating]
  /\ IF heap[b].repeating THEN RunsAgain(b) ELSE RunsOnce(b)
  /\ UNCHANGED <<heap, nextId, open, recent>>

\* The rest of internal_task_cb.
Return ==
  /\ open /\ running # Idle
  /\ heap' = IF OneOff THEN [heap EXCEPT ![running.block] = Freed] ELSE heap
  /\ running' = Idle
  /\ UNCHANGED <<registry, armed, nextId, open, recent>>

\* scheduler_shutdown, in the cleanup that a signal starts at any time and that
\* ends the process; other cleanups still cancel their tasks.
Shutdown ==
  /\ open
  /\ armed' = armed \ Registered
  /\ heap' = [b \in Blocks |-> IF b \in Registered THEN Freed ELSE heap[b]]
  /\ registry' = <<>>
  /\ open' = FALSE
  /\ UNCHANGED <<nextId, running, recent>>

Next ==
  \/ \E b \in Blocks, again \in BOOLEAN : Schedule(b, again)
  \/ \E b \in Blocks, i \in Ids : Cancel(b, i)
  \/ \E b \in Blocks : Fire(b)
  \/ Return \/ Shutdown

Spec == Init /\ [][Next]_vars

\* uloop keeps its timers in the order in which they are due, so that one that
\* is set does not wait for ever behind others; callbacks return.
Fairness == WF_vars(Return) /\ \A b \in Blocks : SF_vars(Fire(b))

FairSpec == Spec /\ Fairness
-----------------------------------------------------------------------------
\* Every variable keeps its type; no task has the id 0, which means failure.
TypeOK ==
  /\ heap \in [Blocks -> TaskRec \cup {Freed}]
  /\ registry \in Seq(Blocks)
  /\ armed \subseteq Blocks
  /\ nextId \in Ids
  /\ running \in [block : Blocks, repeating : BOOLEAN] \cup {Idle}
  /\ open \in BOOLEAN /\ recent \in Seq(Ids)
  /\ \A b \in Registered : heap[b] # Freed => heap[b].id # 0

\* The list holds each task once, and the tasks in it are those whose timer is
\* set: uloop never calls back into a task that was freed, and cancel_task and
\* scheduler_shutdown reach every timer (uloop_scheduler.c:54-60, 186-203).
TimersAreRegistered ==
  /\ armed = Registered
  /\ \A i, j \in DOMAIN registry : registry[i] = registry[j] => i = j

\* Memory is allocated exactly for the tasks in the list and for the one-off
\* task whose callback runs: nothing leaks, nothing is freed twice, and the task
\* freed after a callback is not one that the callback has scheduled in the
\* same memory (uloop_scheduler.c:44-71).
Lingering == IF running # Idle /\ OneOff THEN {running.block} ELSE {}
MemoryAccounted ==
  /\ {b \in Blocks : heap[b] # Freed} = Registered \cup Lingering
  /\ Registered \cap Lingering = {}

\* An id is handed out again only after all others were, whatever has completed,
\* was cancelled or is still registered, and before and after the ids wrap: of any
\* 2^32 - 1 tasks scheduled one after another no two have had the same id, so that
\* the id a service keeps of a task that is gone is not given to another task for
\* so long (uloop_scheduler.c:17 "unique ID", 123-130).  After that many it is,
\* and the task that had it may still be registered.
UniqueIds ==
  \A j, k \in DOMAIN recent : recent[j] = recent[k] => j = k

\* To the callers the scheduler is a set of tasks.
Abstract == INSTANCE TaskSet WITH
  Tasks     <- Blocks,
  pending   <- Registered,
  repeating <- {b \in Registered : heap[b].repeating},
  executing <- IF running = Idle THEN Idle ELSE running.block

Promise == Abstract!Spec

\* A task that is scheduled runs, unless it is cancelled or the loop ends; a
\* repeating one runs again and again.
EachRuns ==
  \A b \in Blocks :
    b \in Registered ~> (b \notin Registered \/ ~open \/ (running # Idle /\ running.block = b))
=============================================================================
