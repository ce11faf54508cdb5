----------------------------- MODULE LogStream ------------------------------
(***************************************************************************)
(* How fry-collector gets the logs of the router and decides to take them  *)
(* (apps/collector/ubus.c and the token timer of main.c): the connection   *)
(* to ubusd and its reconnect timer, the stream read from logd over a file *)
(* descriptor that arrives asynchronously, the access token asked of       *)
(* fry-agent, and the acceptance of logs that depends on both and on the   *)
(* HTTP requests of collect.c.                                             *)
(*                                                                         *)
(* Each callback of the event loop is one step.  Timer intervals are left  *)
(* out: an armed timer may fire at any time.                               *)
(***************************************************************************)
EXTENDS Naturals

CONSTANTS
  MaxTries,    \* UBUS_RECONNECT_MAX_TRIES
  FaultSets,   \* which kinds of faults can happen together in a behaviour
  MaxFaults    \* bound: how many faults

FaultKinds == {"ubus", "connect", "lookup", "eof", "agent", "http"}

LogStreamAssumption ==
  /\ MaxTries \in Nat \ {0}
  /\ FaultSets \subseteq SUBSET FaultKinds /\ MaxFaults \in Nat

VARIABLES
  connected,   \* ubus_connected and a context
  tries,       \* reconnect_tries
  armed,       \* the reconnect timer is set
  accept,      \* accept_logs
  asked,       \* a read request is under way whose file descriptor is to come
  streaming,   \* log_streaming
  token,       \* access_token and token_expiry
  mayFail,     \* the kinds of faults that happen in this behaviour
  faults       \* faults so far

stream == <<asked, streaming>>
vars   == <<connected, tries, armed, accept, stream, token, mayFail, faults>>

\* MAX_NETWORK_FAILURES.
TooMany(run) == run >= 3

Fault(kind) ==
  /\ kind \in mayFail
  /\ faults < MaxFaults
  /\ faults' = faults + 1

\* start_log_streaming with the connection and the acceptance given: the read
\* request is sent, unless logd cannot be found.
StartStreaming(conn, acc) ==
  /\ UNCHANGED streaming
  /\ IF conn /\ acc /\ ~streaming
     THEN \/ asked' = TRUE /\ UNCHANGED faults
          \/ asked' = FALSE /\ Fault("lookup")
     ELSE UNCHANGED <<asked, faults>>

\* ubus_set_log_acceptance(true): nothing happens if logs are accepted already,
\* whether or not they arrive.
Enable ==
  /\ accept' = TRUE
  /\ IF accept THEN UNCHANGED <<stream, faults>> ELSE StartStreaming(connected, TRUE)

\* ubus_set_log_acceptance(false).
Disable ==
  /\ accept' = FALSE
  /\ streaming' = (streaming /\ ~accept)
  /\ UNCHANGED asked

\* What is done about logs when the token could not be refreshed.
AcceptsAnyway == accept' = TRUE /\ UNCHANGED stream
RefreshFailed == Disable

\* The tries left when the connection is lost.
TriesNotReset == tries
TriesAfterLoss == MaxTries

\* Whether the reconnect timer tries again.
TriesForever == TRUE
TriesLeft == tries > 0

\* After a failed attempt the reconnect timer is set again.
NotRearmed == FALSE
Rearmed == TRUE
-----------------------------------------------------------------------------
Init ==
  /\ connected = TRUE /\ tries = MaxTries /\ armed = FALSE
  /\ accept = FALSE /\ asked = FALSE /\ streaming = FALSE
  /\ token = "none" /\ mayFail \in FaultSets /\ faults = 0

\* token_refresh_timer_cb: a token that is still valid is left alone.
TokenTimer ==
  /\ connected /\ token # "valid"
  /\ \/ token' = "valid" /\ Enable
     \/ Fault("agent") /\ RefreshFailed /\ UNCHANGED token
  /\ UNCHANGED <<connected, tries, armed, mayFail>>

TokenExpires ==
  /\ token = "valid"
  /\ token' = "expired"
  /\ UNCHANGED <<connected, tries, armed, accept, stream, mayFail, faults>>

\* ubus_connection_lost_cb; a request under way is lost with the connection.
UbusLost ==
  /\ connected /\ Fault("ubus")
  /\ connected' = FALSE
  /\ asked' = FALSE /\ streaming' = FALSE
  /\ tries' = TriesAfterLoss /\ armed' = TRUE
  /\ UNCHANGED <<accept, token, mayFail>>

\* reconnect_timer_cb: the old context is freed before the new connection is
\* tried, with the requests that are under way in it.
ReconnectTimer ==
  /\ armed
  /\ UNCHANGED <<accept, token, mayFail>>
  /\ \/ ~TriesLeft /\ armed' = FALSE /\ UNCHANGED <<connected, tries, stream, faults>>
     \/ /\ TriesLeft /\ tries' = tries - 1
        /\ \/ /\ connected' = TRUE /\ armed' = FALSE
              /\ IF accept /\ ~streaming
                 THEN StartStreaming(TRUE, TRUE)
                 ELSE asked' = FALSE /\ UNCHANGED <<streaming, faults>>
           \/ /\ Fault("connect")
              /\ connected' = FALSE /\ armed' = Rearmed
              /\ asked' = FALSE /\ UNCHANGED streaming

\* log_read_fd_cb.
StreamOpens ==
  /\ asked
  /\ asked' = FALSE /\ streaming' = TRUE
  /\ UNCHANGED <<connected, tries, armed, accept, token, mayFail, faults>>

\* log_stream_state_cb: logd closed the stream.
StreamEnds ==
  /\ streaming /\ Fault("eof")
  /\ streaming' = FALSE
  /\ armed' = (armed \/ tries > 0)
  /\ UNCHANGED <<connected, tries, accept, asked, token, mayFail>>

\* collect_report_http_success after n failures.
HttpSucceeded(n) ==
  /\ IF n > 0 /\ ~accept /\ token = "valid"
     THEN Enable
     ELSE UNCHANGED <<accept, stream, faults>>
  /\ UNCHANGED <<connected, tries, armed, token, mayFail>>

\* collect_report_http_failure, the n-th in a row.
Reported(times) == IF TooMany(times) THEN Disable ELSE UNCHANGED <<accept, stream>>

\* There is no valid token: nothing is sent, and it counts as a failure.
HttpWithoutToken(n) ==
  /\ token # "valid"
  /\ Reported(n)
  /\ UNCHANGED <<connected, tries, armed, token, mayFail, faults>>

HttpFailed(n) ==
  /\ token = "valid"
  /\ Fault("http")
  /\ Reported(n)
  /\ UNCHANGED <<connected, tries, armed, token, mayFail>>

\* A 401: the token is refreshed, which may enable acceptance, and then the
\* failure is reported, which may disable it again.
HttpUnauthorized(n) ==
  /\ token = "valid" /\ connected
  /\ Fault("http")
  /\ UNCHANGED <<connected, tries, armed, token, mayFail>>
  /\ IF TooMany(n)
     THEN accept' = FALSE /\ streaming' = FALSE
     ELSE accept' = TRUE /\ UNCHANGED streaming
  /\ IF accept \/ streaming THEN UNCHANGED asked ELSE asked' = TRUE

\* ubus_cleanup.
Cleanup ==
  /\ connected' = FALSE /\ armed' = FALSE
  /\ asked' = FALSE /\ streaming' = FALSE
  /\ UNCHANGED <<tries, accept, token, mayFail, faults>>

\* What this module does by itself, and what it does for collect.c.
Callback == TokenTimer \/ TokenExpires \/ UbusLost \/ ReconnectTimer \/ StreamOpens \/ StreamEnds
Request(n) == HttpSucceeded(n) \/ HttpWithoutToken(n) \/ HttpFailed(n) \/ HttpUnauthorized(n)

Next == Callback \/ \E n \in 0..3 : Request(n)

Spec == Init /\ [][Next]_vars
-----------------------------------------------------------------------------
\* Every variable keeps its type, the tries among them.
TypeOK ==
  /\ connected \in BOOLEAN /\ armed \in BOOLEAN /\ accept \in BOOLEAN
  /\ asked \in BOOLEAN /\ streaming \in BOOLEAN
  /\ tries \in 0..MaxTries
  /\ token \in {"none", "valid", "expired"}
  /\ mayFail \in FaultSets /\ faults \in 0..MaxFaults

\* Logs are taken only when a token was obtained once, whatever enables and
\* disables acceptance in between (ubus.c:318-319 "Waiting for access token").
AcceptHasToken == accept => token # "none"

\* Without a connection the reconnect timer is set, or all tries are used up:
\* no sequence of losses, failed attempts and ends of the stream leaves the
\* collector disconnected with tries left and no timer (ubus.c:178-289).
NotStranded == ~connected => armed \/ tries = 0
=============================================================================
