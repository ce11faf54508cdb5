----------------------------- MODULE MqttClient -----------------------------
(***************************************************************************)
(* The MQTT client of fry-agent (apps/agent/services/mqtt/mqtt.c): the     *)
(* task that runs mosquitto's loop, the recovery that reconnects or starts *)
(* the client anew, and the credentials, which are an access token.        *)
(*                                                                         *)
(* mosquitto keeps a username of its own, and the task a copy of the       *)
(* configuration made when it was started.  A CONNECT carries the username *)
(* of that moment, and the broker answers it later.  mqtt_recover sleeps   *)
(* between its attempts in the only thread of the agent: each attempt is a *)
(* step, and no other callback runs in between.                            *)
(***************************************************************************)
EXTENDS Naturals

CONSTANTS
  MaxAttempts, \* MQTT_RECONNECT_MAX_ATTEMPTS
  MaxFaults    \* bound: how many faults

VARIABLES
  made,        \* init_mqtt returned a client
  conn,        \* none, asked (the broker has not answered the CONNECT), up
  user,        \* the username mosquitto has; 0 is NULL
  copy,        \* context->config.username
  offered,     \* the username of the last CONNECT
  recorded,    \* topic_callbacks has every topic that was asked for
  subscribed,  \* all of them were subscribed in this session
  attempts,    \* reconnect_attempt
  succeeded,   \* last_successful_loop > 0
  overdue,     \* more than LAST_SUCCESSFUL_LOOP_TIMEOUT ago
  force,       \* force_full_reinit
  scheduled,   \* mqtt_task is scheduled
  requested,   \* shutdown_requested
  pc,          \* the agent: off, boot, idle (in uloop), recover, health
  expired, online, mayFail, faults

session == <<made, conn, user, copy, offered, recorded, subscribed>>
health  == <<succeeded, overdue>>
vars    == <<session, attempts, health, force, scheduled, requested, pc, faults>>

Fault(kind) ==
  /\ kind \in mayFail
  /\ faults < MaxFaults
  /\ faults' = faults + 1

Accepted(t) == t > expired

\* The attempts counted are those since the last success.
NeverReset == attempts
ResetOnSuccess == 0

\* One more attempt is made.
OneTooMany == attempts <= MaxAttempts
MayTry == attempts < MaxAttempts

\* resubscribe_mqtt after a clean session began.
NotSubscribed == FALSE
Resubscribed == recorded

\* mqtt_token_refresh_callback: what mosquitto is told of a new token.
KeepsOld(t) == user
Credential(t) == t

\* What follows a CONNECT finds the connection ended: the broker has refused the
\* username, or the connection was lost.
Ended(t) == ~Accepted(t) \/ faults' # faults
-----------------------------------------------------------------------------
\* init_mqtt, the subscriptions of the services, and mqtt_service.  The openNDS
\* restart and other starts come in between: a topic whose subscription finds the
\* connection ended is not recorded.
Start(t) ==
  /\ user' = t /\ copy' = t
  /\ \/ /\ online /\ made' = TRUE /\ offered' = t
        /\ UNCHANGED faults \/ Fault("drop")
        /\ \/ conn' = "asked" /\ recorded' = TRUE /\ subscribed' = TRUE
           \/ Ended(t) /\ conn' = "none" /\ recorded' \in BOOLEAN /\ subscribed' = FALSE
     \/ /\ \/ ~online /\ UNCHANGED faults
           \/ online /\ Fault("connect")
        /\ made' = FALSE /\ conn' = "none" /\ offered' = 0
        /\ recorded' = FALSE /\ subscribed' = FALSE
  /\ attempts' = 0 /\ succeeded' = FALSE /\ overdue' = FALSE /\ force' = FALSE
  /\ scheduled' = TRUE /\ requested' = FALSE /\ pc' = "idle"

\* The process ends; the broker sees the connection closed.
Stop ==
  /\ pc' = "off"
  /\ made' = FALSE /\ conn' = "none" /\ user' = 0 /\ copy' = 0 /\ offered' = 0
  /\ recorded' = FALSE /\ subscribed' = FALSE
  /\ attempts' = 0 /\ succeeded' = FALSE /\ overdue' = FALSE
  /\ force' = FALSE /\ scheduled' = FALSE /\ requested' = FALSE

\* mqtt_token_refresh_callback.
TokenRefreshed(t) ==
  /\ user' = IF made THEN Credential(t) ELSE user
  /\ UNCHANGED <<made, conn, copy, offered, recorded, subscribed, attempts, health, force,
                 scheduled, requested, pc>>

Running == pc = "idle" /\ scheduled

\* mqtt_task when a shutdown was requested: it is not scheduled again.
TaskStops ==
  /\ Running /\ requested
  /\ scheduled' = FALSE
  /\ UNCHANGED <<session, attempts, health, force, requested, pc, faults>>

\* mosquitto_loop succeeds; the answer to the CONNECT may be in it.
LoopSucceeds ==
  /\ Running /\ ~requested /\ conn # "none"
  /\ \/ UNCHANGED conn
     \/ conn = "asked" /\ online /\ Accepted(offered) /\ conn' = "up"
  /\ succeeded' = TRUE /\ overdue' = FALSE
  /\ UNCHANGED <<made, user, copy, offered, recorded, subscribed, attempts, force, scheduled,
                 requested, pc, faults>>

\* mosquitto_loop fails.  Some errors ask for a full reinitialization.
LoopFails(full) ==
  /\ Running /\ ~requested
  /\ conn' = "none" /\ subscribed' = FALSE
  /\ pc' = "recover" /\ force' = full
  /\ UNCHANGED <<made, user, copy, offered, recorded, attempts, health, scheduled, requested>>

Refused ==
  /\ conn = "asked" /\ online /\ ~Accepted(offered)
  /\ LoopFails(FALSE) /\ UNCHANGED faults

Lost ==
  /\ conn # "none"
  /\ \/ ~online /\ UNCHANGED faults
     \/ online /\ Fault("drop")
  /\ \E full \in BOOLEAN : LoopFails(full)

NoConnection == made /\ conn = "none" /\ LoopFails(FALSE) /\ UNCHANGED faults
NoClient     == ~made /\ LoopFails(TRUE) /\ UNCHANGED faults

\* An attempt reached the broker, and a second later the topics are subscribed
\* again, whatever comes of it; mqtt_task goes on with its health check.
Reconnected(name) ==
  /\ offered' = name
  /\ \/ conn' = "asked" /\ subscribed' = Resubscribed
     \/ Ended(name) /\ conn' = "none" /\ subscribed' = FALSE
  /\ attempts' = ResetOnSuccess
  /\ pc' = IF pc = "recover" /\ succeeded /\ overdue THEN "health" ELSE "idle"
  /\ force' = (pc' = "health")
  /\ UNCHANGED <<made, copy, recorded, health, scheduled, requested>>

Attempting == pc \in {"recover", "health"} /\ MayTry

LightReconnect ==
  /\ Attempting /\ ~force /\ made /\ online
  /\ UNCHANGED faults \/ Fault("drop")
  /\ Reconnected(user)
  /\ UNCHANGED user

\* The client is started anew with the configuration of the task.
Reinitialise ==
  /\ Attempting /\ made /\ online
  /\ \/ force /\ (UNCHANGED faults \/ Fault("drop"))
     \/ ~force /\ Fault("connect")
  /\ user' = copy
  /\ Reconnected(copy)

AttemptFails ==
  /\ Attempting
  /\ \/ ~(online /\ made) /\ UNCHANGED faults
     \/ online /\ made /\ Fault("connect")
  /\ attempts' = attempts + 1
  /\ user' = IF made THEN copy ELSE user
  /\ UNCHANGED <<made, conn, copy, offered, recorded, subscribed, health, force, scheduled,
                 requested, pc>>

\* All attempts failed: a shutdown is requested, and the task ends.
Exhausted ==
  /\ pc \in {"recover", "health"} /\ ~MayTry
  /\ requested' = TRUE /\ scheduled' = FALSE
  /\ pc' = "idle" /\ force' = FALSE
  /\ UNCHANGED <<session, attempts, health, faults>>

\* More than five minutes since the last loop that succeeded.
TimePasses ==
  /\ "long" \in mayFail
  /\ succeeded /\ ~overdue /\ overdue' = TRUE
  /\ UNCHANGED <<session, attempts, succeeded, force, scheduled, requested, pc, faults>>

Task    == TaskStops \/ LoopSucceeds \/ Refused \/ Lost \/ NoConnection \/ NoClient
Recover == LightReconnect \/ Reinitialise \/ AttemptFails \/ Exhausted
Answer  == Task /\ conn = "asked" /\ conn' # conn
-----------------------------------------------------------------------------
TypeOK ==
  /\ made \in BOOLEAN /\ recorded \in BOOLEAN /\ subscribed \in BOOLEAN /\ succeeded \in BOOLEAN
  /\ overdue \in BOOLEAN /\ force \in BOOLEAN /\ scheduled \in BOOLEAN
  /\ requested \in BOOLEAN
  /\ conn \in {"none", "asked", "up"}
  /\ user \in Nat /\ copy \in Nat /\ offered \in Nat
  /\ attempts \in 0..MaxAttempts
  /\ pc \in {"off", "boot", "idle", "recover", "health"}

\* In a session the broker accepted, every topic that was recorded is subscribed:
\* each way to reconnect subscribes again (mqtt.c:191-202, 240, 307).  And all are
\* recorded if the connection of the start can neither be refused nor lost while
\* the services start; otherwise one may be missing for ever (mqtt.c:100-109).
SubscribedWhenUp ==
  conn = "up" => /\ recorded => subscribed
                 /\ "drop" \notin mayFail /\ Accepted(copy) => recorded

\* Between two runs of the task all attempts are available again: what earlier
\* outages used up of the static counter was given back (mqtt.c:217, 243, 311).
AttemptsStartOver == pc = "idle" /\ scheduled => attempts = 0
=============================================================================
