------------------------------ MODULE Collect ------------------------------
(***************************************************************************)
(* The log buffer of fry-collector (apps/collector/collect.c): a pool of   *)
(* log entries, a ring of pointers into the pool, one batch taken from the *)
(* ring, and the state machine that sends the batch over HTTP, retries it  *)
(* and gives up.                                                           *)
(*                                                                         *)
(* Logs are numbered in the order the log stream offers them.  The process *)
(* has one thread: a timer callback, which blocks while curl waits for the *)
(* server, is one step; so is the arrival of a log.  The server may take a *)
(* batch whose answer never arrives.  Time is left out: whether the batch  *)
(* timeout has passed is a choice.                                         *)
(***************************************************************************)
EXTENDS Naturals, Sequences, FiniteSets

CONSTANTS
  QueueSize,   \* queue_size: entries of the pool and of the ring
  BatchSize,   \* batch_size
  Retries,     \* http_retries
  MaxLogs,     \* bound: how many logs are offered
  MaxReceived, \* bound: when the server has so many, no more answers are lost
  Null         \* no pointer, no payload

ASSUME CollectAssumption ==
  /\ QueueSize \in 1..10000 /\ BatchSize \in 1..1000
  /\ Retries \in Nat /\ MaxLogs \in Nat /\ MaxReceived \in Nat
  /\ Null \notin Nat /\ Null \notin Seq(Nat)

Slots  == 0 .. QueueSize - 1
States == {"idle", "preparing", "sending", "retry", "failed"}

VARIABLES
  used,        \* pool_used: the entries that are taken
  msg,         \* what each entry of the pool holds; 0 when it is cleared
  entries,     \* the ring: pointers to entries of the pool
  head, tail, count,
  batch,       \* current_batch.entries up to current_batch.count
  state,       \* current_batch.state
  retryCount,  \* current_batch.retry_count
  payload,     \* current_batch.json_payload: the logs that are in it
  phase,       \* where main is: loop, last tick, flush of the batch, over
  failures,    \* consecutive_http_failures, 3 standing for more
  offered,     \* how many logs the stream has offered
  refused,     \* history: logs for which there was no room
  lost,        \* history: logs dropped after they were accepted
  received     \* history: what reached the server, in that order

pool    == <<used, msg>>
ring    == <<entries, head, tail, count>>
context == <<batch, state, retryCount, payload>>
vars    == <<pool, ring, context, phase, failures, offered, refused, lost, received>>

MinOf(a, b) == IF a <= b THEN a ELSE b
Elements(seq) == {seq[i] : i \in DOMAIN seq}
LogsOf(slots) == [i \in DOMAIN slots |-> msg[slots[i]]]

\* The position in the ring i places after position p.
Unwrapped(p, i) == p + i
After(p, i) == (p + i) % QueueSize

\* collect_entries_for_batch leaves a batch alone that is being processed.
AlwaysCollects == phase \in {"loop", "final"}
MayCollect == phase \in {"loop", "final"} /\ state = "idle"

\* How many entries move from the ring to the batch at a tick, and which.
Moving == IF MayCollect THEN MinOf(BatchSize - Len(batch), count) ELSE 0
NewestFirst == [i \in 1..Moving |-> entries[After(head, Moving - i)]]
Taken == [i \in 1..Moving |-> entries[After(head, i - 1)]]
StartsOver == Taken
Filled == batch \o Taken

\* collect_process_pending_batches calls for force at four fifths of the ring.
Urgent(n) == n >= (QueueSize * 80) \div 100

\* The attempts that have failed, with the one that fails now.
Uncounted == retryCount
Attempts == retryCount + 1

\* clear_batch_context returns the entries of the batch to the pool.
ForgetsLast(slots) == used \ {slots[i] : i \in DOMAIN slots \ {Len(slots)}}
Returned(slots) == used \ Elements(slots)
-----------------------------------------------------------------------------
Init ==
  /\ used = {} /\ msg = [s \in Slots |-> 0]
  /\ entries = [s \in Slots |-> Null] /\ head = 0 /\ tail = 0 /\ count = 0
  /\ batch = <<>> /\ state = "idle" /\ retryCount = 0 /\ payload = Null
  /\ phase = "loop" /\ failures = 0
  /\ offered = 0 /\ refused = {} /\ lost = {} /\ received = <<>>

\* collect_enqueue_log: an entry of the pool, then a place in the ring.
Store(s) ==
  /\ s \in Slots \ used /\ \A t \in Slots \ used : s <= t
  /\ IF count >= QueueSize
     THEN refused' = refused \cup {offered'} /\ UNCHANGED <<pool, ring>>
     ELSE /\ used' = used \cup {s}
          /\ msg' = [msg EXCEPT ![s] = offered']
          /\ entries' = [entries EXCEPT ![tail] = s]
          /\ tail' = After(tail, 1)
          /\ count' = count + 1
          /\ UNCHANGED <<head, refused>>

Enqueue ==
  /\ phase = "loop"
  /\ offered < MaxLogs
  /\ offered' = offered + 1
  /\ \/ used = Slots /\ refused' = refused \cup {offered'} /\ UNCHANGED <<pool, ring>>
     \/ \E s \in Slots : Store(s)
  /\ UNCHANGED <<context, phase, failures, lost, received>>

\* The ring after the entries of this tick have left it.
Drained ==
  /\ entries' = [s \in Slots |-> IF \E i \in 0 .. Moving - 1 : s = After(head, i)
                                 THEN Null ELSE entries[s]]
  /\ head' = After(head, Moving)
  /\ count' = count - Moving
  /\ UNCHANGED tail

\* clear_batch_context.
Cleared(slots) ==
  /\ used' = Returned(slots)
  /\ msg' = [s \in Slots |-> IF s \in Elements(slots) THEN 0 ELSE msg[s]]
  /\ batch' = <<>> /\ state' = "idle" /\ retryCount' = 0 /\ payload' = Null

\* create_json_payload, which may run out of memory.
Prepared(slots) ==
  \/ payload' = LogsOf(slots) /\ state' = "sending"
  \/ payload' = Null /\ state' = "failed"

\* HTTP_IDLE: a batch that is full or old enough starts; one that is neither is
\* forced to start when the ring is nearly full.
Gather ==
  /\ state = "idle"
  /\ batch' = Filled
  /\ \/ /\ Len(Filled) > 0
        /\ state' = "preparing" /\ UNCHANGED payload
     \/ /\ Len(Filled) < BatchSize
        /\ IF Urgent(count') /\ Len(Filled) > 0
           THEN Prepared(Filled)
           ELSE state' = "idle" /\ UNCHANGED payload
  /\ UNCHANGED <<pool, retryCount, failures, lost, received>>

\* HTTP_PREPARING.
Prepare ==
  /\ state = "preparing"
  /\ batch' = Filled
  /\ Prepared(Filled)
  /\ UNCHANGED <<pool, retryCount, failures, lost, received>>

\* HTTP_SENDING, the server answers 2xx.
SendSucceeds ==
  /\ state = "sending"
  /\ received' = received \o payload
  /\ failures' = 0
  /\ Cleared(Filled)
  /\ UNCHANGED lost

\* HTTP_SENDING, anything else: no token, no connection, another status, or an
\* answer that is lost after the server took the batch.
SendFails ==
  /\ state = "sending"
  /\ \/ UNCHANGED received
     \/ Len(received) < MaxReceived /\ received' = received \o payload
  /\ failures' = MinOf(failures + 1, 3)
  /\ retryCount' = Attempts
  /\ state' = IF Attempts < Retries THEN "retry" ELSE "failed"
  /\ batch' = Filled
  /\ UNCHANGED <<pool, payload, lost>>

\* HTTP_RETRY_WAIT.
Wait ==
  /\ state = "retry"
  /\ state' = "sending"
  /\ batch' = Filled
  /\ UNCHANGED <<pool, retryCount, payload, failures, lost, received>>

\* HTTP_FAILED.
GiveUp ==
  /\ state = "failed"
  /\ lost' = lost \cup Elements(LogsOf(Filled))
  /\ Cleared(Filled)
  /\ UNCHANGED <<failures, received>>

Advance == Gather \/ Prepare \/ SendSucceeds \/ SendFails \/ Wait \/ GiveUp

\* collect_process_pending_batches.  After an answer or a give-up the batch is
\* empty, so that forcing it, however full the ring is, does nothing.
Tick ==
  /\ phase \in {"loop", "final"}
  /\ Drained
  /\ Advance
  /\ phase' = IF phase = "final" THEN "flush" ELSE "loop"
  /\ UNCHANGED <<offered, refused>>

\* A signal ends the event loop; main ticks once more.
Stop ==
  /\ phase = "loop"
  /\ phase' = "final"
  /\ UNCHANGED <<pool, ring, context, failures, offered, refused, lost, received>>

\* collect_cleanup: a batch that was begun is prepared anew ...
BeginFlush ==
  /\ phase = "flush"
  /\ phase' = "flushing"
  /\ state' = IF batch # <<>> THEN "preparing" ELSE state
  /\ UNCHANGED <<pool, ring, batch, retryCount, payload, failures, offered, refused, lost, received>>

\* ... and sent with its retries ...
Flush ==
  /\ phase = "flushing"
  /\ Prepare \/ SendSucceeds \/ SendFails \/ Wait
  /\ UNCHANGED <<ring, phase, offered, refused>>

\* ... and what is left in the batch and in the ring is discarded.
Close ==
  /\ phase = "flushing" /\ state \in {"idle", "failed"}
  /\ phase' = "over"
  /\ lost' = lost \cup Elements(LogsOf(batch)) \cup {msg[entries[After(head, i)]] : i \in 0 .. count - 1}
  /\ used' = Returned(batch) \ {entries[After(head, i)] : i \in 0 .. count - 1}
  /\ msg' = [s \in Slots |-> 0]
  /\ entries' = [s \in Slots |-> Null]
  /\ head' = After(head, count) /\ count' = 0
  /\ batch' = <<>> /\ state' = "idle" /\ retryCount' = 0 /\ payload' = Null
  /\ UNCHANGED <<tail, failures, offered, refused, received>>

Next == Enqueue \/ Tick \/ Stop \/ BeginFlush \/ Flush \/ Close

Spec == Init /\ [][Next]_vars

\* The timer is armed again by every tick, and the age of a batch in HTTP_IDLE
\* passes the batch timeout in the end; cleanup is a loop of its own.
Starts == Tick /\ state = "idle" /\ state' = "preparing"
FairSpec ==
  /\ Spec
  /\ WF_vars(Tick) /\ WF_vars(Starts)
  /\ WF_vars(BeginFlush \/ Flush \/ Close)
-----------------------------------------------------------------------------
RingSlots == {entries[After(head, i)] : i \in 0 .. count - 1}

\* The entries of the pool that are taken, oldest log first.
InRing == [i \in 1..count |-> entries[After(head, i - 1)]]
Line == batch \o InRing

\* The logs that were accepted and are neither delivered nor dropped.
Buffered == {msg[s] : s \in Elements(batch) \cup RingSlots}

\* Every variable keeps its type: the ring indices stay in the ring and the
\* pointers in the pool.
TypeOK ==
  /\ used \subseteq Slots
  /\ msg \in [Slots -> 0..MaxLogs]
  /\ entries \in [Slots -> Slots \cup {Null}]
  /\ head \in Slots /\ tail \in Slots /\ count \in 0..QueueSize
  /\ batch \in Seq(Slots) /\ Len(batch) <= BatchSize
  /\ state \in States /\ retryCount \in Nat
  /\ payload \in Seq(Nat) \cup {Null}
  /\ phase \in {"loop", "final", "flush", "flushing", "over"}
  /\ failures \in 0..3
  /\ offered \in 0..MaxLogs
  /\ refused \subseteq Nat /\ lost \subseteq Nat /\ received \in Seq(Nat)

\* No entry of the pool leaks or is used twice: the taken entries are those of
\* the batch and of the ring, each in one place, and the ring is as its indices
\* say.  So the pool is exhausted before the ring is full and the branch "Queue
\* full" (collect.c:619-625) is never taken.
EntriesAccounted ==
  /\ tail = After(head, count)
  /\ \A p \in Slots : entries[p] # Null <=> \E i \in 0 .. count - 1 : p = After(head, i)
  /\ used = Elements(batch) \cup RingSlots
  /\ Cardinality(used) = Len(batch) + count

\* A log that was offered is refused, waiting, dropped by a decision of the
\* code, or with the server: none disappears between pool, ring, batch and
\* payload, and none is dropped and kept.
NothingVanishes ==
  /\ 1..offered \subseteq refused \cup lost \cup Elements(received) \cup Buffered
  /\ Buffered \cap (refused \cup lost) = {}

\* Each accepted log leaves the buffer in the end, delivered or dropped, even if
\* no request ever succeeds, so that the pool is not exhausted for ever
\* (collect.c:398-439).
Drains == \A l \in 1..MaxLogs : l \in Buffered ~> l \notin Buffered

\* The cleanup after a signal ends, whatever the server answers
\* (collect.c:546-553).
ShutdownEnds == phase = "final" ~> phase = "over"

Pipeline == INSTANCE LogPipeline WITH
  Capacity <- QueueSize,
  waiting  <- LogsOf(Line),
  window   <- IF state = "idle" THEN 0 ELSE Len(batch),
  last     <- offered,
  server   <- received

\* The buffer does what LogPipeline promises.
Promise == Pipeline!Spec

\* The server sees the logs in the order they were offered, but for the copies
\* of a batch that is sent again (collect.c:145-160, 446-465).
LogsInOrder == Pipeline!InOrder
=============================================================================
