------------------------------ MODULE FryAgent ------------------------------
(***************************************************************************)
(* How fry-agent keeps in touch with the servers (apps/agent): the access  *)
(* token (AccessToken), the MQTT client that uses it as its username       *)
(* (MqttClient), the diagnostics that request an exit when something is    *)
(* wrong, the flag of exit_handler.c that carries such requests, and the   *)
(* start of the process, which procd repeats.                              *)
(***************************************************************************)
EXTENDS Naturals

CONSTANTS
  MaxTokens, None, Junk, MaxAttempts,
  FaultSets,   \* which kinds of faults can happen together in a behaviour
  MaxFaults    \* bound: how many faults

FaultKinds == {"outage", "long", "expiry", "request", "save", "full", "answer", "connect",
               "drop", "check", "stop", "kill", "reboot", "enrol", "rotate"}

VARIABLES
  token, file, issued, expired, online, mayFail, faults,
  made, conn, user, copy, offered, recorded, subscribed, attempts, succeeded, overdue,
  force, scheduled, requested, pc

Token == INSTANCE AccessToken
Mqtt  == INSTANCE MqttClient

ASSUME FryAgentAssumption ==
  /\ Token!AccessTokenAssumption
  /\ MaxAttempts \in Nat \ {0}

tokenVars == <<token, file, issued, expired>>
mqttVars  == <<made, conn, user, copy, offered, recorded, subscribed, attempts, succeeded,
               overdue, force, scheduled, requested, pc>>
vars      == <<tokenVars, mqttVars, online, mayFail, faults>>
-----------------------------------------------------------------------------
Init ==
  /\ token = 0 /\ file = None /\ issued = 0 /\ expired = 0
  /\ online = TRUE /\ mayFail \in FaultSets /\ faults = 0
  /\ made = FALSE /\ conn = "none" /\ user = 0 /\ copy = 0 /\ offered = 0
  /\ recorded = FALSE /\ subscribed = FALSE /\ attempts = 0 /\ succeeded = FALSE /\ overdue = FALSE
  /\ force = FALSE /\ scheduled = FALSE /\ requested = FALSE /\ pc = "off"

\* main up to the access token; without a network the first diagnostics end it.
Boot ==
  /\ pc = "off" /\ online
  /\ Token!Initialise
  /\ pc' = "boot"
  /\ UNCHANGED <<made, conn, user, copy, offered, recorded, subscribed, attempts, succeeded,
                 overdue, force, scheduled, requested, online, mayFail>>

\* main from the certificates to the event loop.
StartServices ==
  /\ pc = "boot"
  /\ Mqtt!Start(token)
  /\ UNCHANGED <<tokenVars, online, mayFail>>

\* main gives up when it has no certificates: the servers cannot be reached, they
\* refuse the token or each attempt, or they have changed their CA meanwhile.
StartFails ==
  /\ pc = "boot"
  /\ \/ (~online \/ ~Token!Valid(token) \/ "rotate" \in mayFail) /\ UNCHANGED faults
     \/ Token!Fault("enrol")
  /\ Mqtt!Stop /\ token' = 0
  /\ UNCHANGED <<file, issued, expired, online, mayFail>>

\* Tokens last long: in some behaviours none expires, and none is refreshed but one
\* that could not be had at the start.
TokensExpire == "expiry" \in mayFail

\* access_token_task.
Refreshing == pc = "idle" /\ (TokensExpire \/ ~Token!Valid(token))

RefreshToken ==
  /\ Refreshing
  /\ \/ Token!Refreshed /\ Mqtt!TokenRefreshed(token')
     \/ Token!NotRefreshed /\ UNCHANGED mqttVars
  /\ UNCHANGED <<online, mayFail>>

\* diagnostic_task finds something wrong: request_cleanup_and_exit.
DiagnosticFails ==
  /\ pc = "idle"
  /\ \/ (~online \/ ~Token!Valid(token)) /\ UNCHANGED faults
     \/ online /\ Token!Valid(token) /\ Token!Fault("check")
  /\ requested' = TRUE
  /\ UNCHANGED <<tokenVars, made, conn, user, copy, offered, recorded, subscribed, attempts,
                 succeeded, overdue, force, scheduled, pc, online, mayFail>>

MqttTask == Mqtt!Task /\ UNCHANGED <<tokenVars, online, mayFail>>
MqttRecover == Mqtt!Recover /\ UNCHANGED <<tokenVars, online, mayFail>>

\* SIGTERM runs the cleanups and exits, wherever the agent is; or the process
\* ends without them, alone or with the router.  It may be saving a token.
Endings == {"stop", "kill", "reboot"}
Saving  == (pc = "off" /\ ~Token!Valid(Token!Saved)) \/ Refreshing

Terminated(kind) ==
  /\ Token!Fault(kind)
  /\ \/ pc # "off" /\ UNCHANGED <<file, issued>>
     \/ Saving /\ Token!CutOff
  /\ Mqtt!Stop /\ token' = 0
  /\ UNCHANGED <<expired, online, mayFail>>

\* The world around the agent.
TokenExpires == TokensExpire /\ Token!Expire /\ UNCHANGED <<mqttVars, online, mayFail>>
TimePasses   == Mqtt!TimePasses /\ UNCHANGED <<tokenVars, online, mayFail>>
Offline      == online /\ Token!Fault("outage") /\ online' = FALSE
                /\ UNCHANGED <<tokenVars, mqttVars, mayFail>>
Online       == ~online /\ online' = TRUE /\ UNCHANGED <<tokenVars, mqttVars, mayFail, faults>>

Next ==
  \/ Boot \/ StartFails \/ StartServices \/ RefreshToken \/ DiagnosticFails \/ MqttTask \/ MqttRecover
  \/ TokenExpires \/ TimePasses \/ Offline \/ Online
  \/ \E kind \in Endings : Terminated(kind)

Spec == Init /\ [][Next]_vars

\* procd starts the agent again; an outage ends; the timers of the two tasks are
\* set by their callbacks, and uloop runs those that are due in the order of
\* their times, so that none is starved by another; the broker answers.
Fairness ==
  /\ WF_vars(Boot \/ StartServices) /\ WF_vars(Online)
  /\ SF_vars(RefreshToken /\ Token!GoodAnswer)
  /\ WF_vars(MqttTask) /\ WF_vars(MqttRecover)
  /\ SF_vars(MqttTask /\ Mqtt!Answer)

FairSpec == Spec /\ Fairness
-----------------------------------------------------------------------------
\* The variables of token and client keep their types.
TypeOK ==
  /\ Token!TypeOK /\ Mqtt!TypeOK
  /\ mayFail \in FaultSets

\* A restart of the agent comes back with the token it had in memory, and asks for
\* a new one if flash was full when that was saved, which nobody noticed: it never
\* goes back to an older one (access_token.c:21-35, 304-314).
FileIsToken == Token!FileIsToken

\* In a session the broker accepted, every topic that was recorded is subscribed:
\* each way to reconnect subscribes again (mqtt.c:191-202, 240, 307).  And all are
\* recorded if the connection of the start can neither be refused nor lost while
\* the services start; otherwise one may be missing for ever (mqtt.c:100-109).
SubscribedWhenUp == Mqtt!SubscribedWhenUp

\* Between two runs of the task all attempts are available again: what earlier
\* outages used up of the static counter was given back (mqtt.c:217, 243, 311).
AttemptsStartOver == Mqtt!AttemptsStartOver

\* The client comes back to the broker again and again, whatever tokens expire
\* meanwhile, unless an exit was requested (mqtt.c:214-216, 342-350).
ComesBack == []~requested => []<>(conn = "up")

\* It does so in spite of finitely many failures of every kind as long as the
\* task was never without success for more than five minutes.
ComesBackInTime == "long" \notin mayFail => ComesBack

\* When nothing is left that would look at a requested exit, the process is
\* gone (exit_handler.c:122 "This function allows the MQTT client to request
\* the program to stop executing").
RequestTaken == requested /\ ~scheduled => pc = "off"
=============================================================================
