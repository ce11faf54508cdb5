----------------------------- MODULE Collector ------------------------------
(***************************************************************************)
(* fry-collector as a whole (apps/collector): the log buffer of collect.c  *)
(* (Collect) and the stream, acceptance and token of ubus.c (LogStream).   *)
(* They meet where a log of the stream is put into the buffer, where a     *)
(* request needs the token, and where its outcome enables or disables the  *)
(* acceptance of logs.                                                     *)
(***************************************************************************)
EXTENDS Naturals, Sequences

CONSTANTS
  QueueSize, BatchSize, Retries, MaxLogs, MaxReceived, Null,
  MaxTries, FaultSets, MaxFaults

VARIABLES
  used, msg, entries, head, tail, count, batch, state, retryCount, payload,
  phase, failures, offered, refused, lost, received,
  connected, tries, armed, accept, asked, streaming, token, mayFail, faults

Buffer == INSTANCE Collect
Stream == INSTANCE LogStream

ASSUME CollectorAssumption == Buffer!CollectAssumption /\ Stream!LogStreamAssumption

bufferVars == <<used, msg, entries, head, tail, count, batch, state, retryCount, payload,
                phase, failures, offered, refused, lost, received>>
streamVars == <<connected, tries, armed, accept, asked, streaming, token, mayFail, faults>>
vars       == <<bufferVars, streamVars>>

Init == Buffer!Init /\ Stream!Init

\* log_stream_data_cb and process_log_entry; logs that come while they are not
\* accepted are read and ignored.
ReadLog ==
  /\ streaming /\ accept
  /\ Buffer!Enqueue
  /\ UNCHANGED streamVars

\* How a step of the HTTP state machine that is about to send ends, given the
\* failures in a row after it.  Without a token, or after a 401, the server has
\* not taken the batch.
Sent ==
  IF failures' = 0
  THEN token = "valid" /\ Stream!HttpSucceeded(failures)
  ELSE \/ Stream!HttpFailed(failures')
       \/ Stream!HttpWithoutToken(failures') /\ received' = received
       \/ Stream!HttpUnauthorized(failures') /\ received' = received

Outcome == IF state = "sending" THEN Sent ELSE UNCHANGED streamVars

\* batch_timer_cb, and the last tick of main.
Tick == Buffer!Tick /\ Outcome

Callback ==
  /\ phase = "loop" /\ Stream!Callback
  /\ UNCHANGED bufferVars

\* The end of main: the stream is closed before the batch is flushed.
Shutdown ==
  \/ Buffer!Stop /\ UNCHANGED streamVars
  \/ Buffer!BeginFlush /\ Stream!Cleanup
  \/ Buffer!Flush /\ Outcome
  \/ Buffer!Close /\ UNCHANGED streamVars

Next == ReadLog \/ Tick \/ Callback \/ Shutdown

Spec == Init /\ [][Next]_vars

\* The timers are armed again by their callbacks; logd answers a read request.
\* The batch timeout passes in the end.
InLoop(A) == phase = "loop" /\ A /\ UNCHANGED bufferVars

Fairness ==
  /\ WF_vars(Tick)
  /\ WF_vars(Tick /\ state = "idle" /\ state' = "preparing")
  /\ WF_vars(InLoop(Stream!TokenTimer))
  /\ WF_vars(InLoop(Stream!ReconnectTimer))
  /\ WF_vars(InLoop(Stream!StreamOpens))
  /\ WF_vars((Buffer!BeginFlush \/ Buffer!Flush \/ Buffer!Close) /\ Shutdown)

FairSpec == Spec /\ Fairness

\* Tokens do not last for ever.
ExpiringSpec == FairSpec /\ WF_vars(InLoop(Stream!TokenExpires))
-----------------------------------------------------------------------------
\* The variables of buffer and stream keep their types.
TypeOK == Buffer!TypeOK /\ Stream!TypeOK

\* Logs are taken only when a token was obtained once, whatever enables and
\* disables acceptance in between (ubus.c:318-319 "Waiting for access token").
AcceptHasToken == Stream!AcceptHasToken

\* No sequence of losses, failed attempts and ends of the stream leaves the
\* collector disconnected with tries left and no timer (ubus.c:178-289).
NotStranded == phase = "loop" => Stream!NotStranded

\* Whatever fails, fewer times than there are tries, the collector streams logs
\* again and again until it is told to stop (README.md:44 "Automatic
\* reconnection: UBUS and HTTP connection recovery").  A lookup of logd that
\* fails is an exception: it is not repeated (ubus.c:219-224).
Recovers == "lookup" \notin mayFail => []<>(streaming \/ phase # "loop")

\* An accepted log leaves the buffer in the end, even if no token can be had:
\* without one the attempts fail and are counted.
Drains == \A l \in 1..MaxLogs : l \in Buffer!Buffered ~> l \notin Buffer!Buffered
=============================================================================
