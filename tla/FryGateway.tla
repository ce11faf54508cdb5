----------------------------- MODULE FryGateway -----------------------------
(***************************************************************************)
(* fry-agent and what depends on it on the router: the captive portal,     *)
(* whose events it reads (NdsEvents) and publishes over its MQTT client,   *)
(* the clients of the site that arrive by the same client (SiteClients),   *)
(* the certificates it needs before it starts (Enrolment), and fry-config, *)
(* which borrows its token (TokenLending).                                 *)
(***************************************************************************)
EXTENDS FryAgent, Sequences, FiniteSets

CONSTANTS Clients, MaxEvents, MaxCA

VARIABLES
  happened, authed, waiting, path, content, pipe, reader, binauth, offset, pending,
  site, listening, wire, welcome, known,
  current, ca, cert, stage,
  lent

Nds  == INSTANCE NdsEvents
Site == INSTANCE SiteClients
Enrol == INSTANCE Enrolment
Lend == INSTANCE TokenLending

\* Besides faults, what there is on the router and around it: a portal with
\* clients, a server that may not tell the site, fry-config and its restarts.
Kinds == FaultKinds \cup {"clients", "context", "lend", "borrower"}

ASSUME FryGatewayAssumption ==
  /\ Nds!NdsAssumption /\ Site!SiteAssumption /\ Enrol!EnrolmentAssumption
  /\ FaultSets \subseteq SUBSET Kinds

ndsVars     == <<happened, authed, waiting, path, content, pipe, reader, binauth, offset, pending>>
siteVars    == <<site, listening, wire, welcome, known>>
enrolVars   == <<current, ca, cert, stage>>
around      == <<ndsVars, siteVars, enrolVars, lent>>
gatewayVars == <<vars, around>>

HasPortal   == "clients" \in mayFail
HasBorrower == "lend" \in mayFail
-----------------------------------------------------------------------------
GatewayInit == Init /\ Nds!Init /\ Site!Init /\ Enrol!Init /\ lent = 0

\* The servers answer what needs a token.
Reached == online /\ Token!Valid(token)

\* main: a stage of the certificates.
GetCertificates ==
  /\ pc = "boot"
  /\ Enrol!Kept \/ (Reached /\ (Enrol!Fetched \/ Enrol!Signed))
  /\ UNCHANGED <<vars, ndsVars, siteVars, lent>>

\* main gives up after the attempts of a stage.
NoCertificates ==
  /\ StartFails
  /\ \/ (~Reached \/ faults' # faults) /\ Enrol!Fails
     \/ Reached /\ Enrol!Mismatched
  /\ UNCHANGED <<ndsVars, siteVars, lent>>

RotateCA ==
  /\ "rotate" \in mayFail /\ Enrol!Rotate
  /\ UNCHANGED <<vars, ndsVars, siteVars, lent>>

\* main: init_nds_client.  The agent waits for the restart of openNDS.
OpenPortal ==
  /\ HasPortal /\ pc = "boot" /\ Enrol!Ready /\ ~binauth
  /\ Nds!Open
  /\ UNCHANGED <<vars, siteVars, enrolVars, lent>>

RestartPortal ==
  /\ pc = "boot" /\ binauth
  /\ Nds!Restarted
  /\ UNCHANGED <<vars, siteVars, enrolVars, lent>>

\* main up to the event loop, with what the device context says of the site.  Its
\* topic is the first that is subscribed.
StartAll ==
  /\ StartServices /\ Enrol!Ready
  /\ IF HasPortal THEN /\ binauth /\ authed = {}
                       /\ \E answered \in {TRUE, "context" \notin mayFail}, accepted \in BOOLEAN :
                            /\ (recorded' => accepted) /\ (accepted => made')
                            /\ Site!Start(answered, accepted)
                  ELSE UNCHANGED siteVars
  /\ UNCHANGED <<ndsVars, enrolVars, lent>>

\* device_context_task.
CheckContext ==
  /\ HasPortal /\ pc = "idle" /\ online
  /\ Site!LearnSite
  /\ UNCHANGED <<vars, ndsVars, enrolVars, lent>>

\* A client comes or goes while openNDS runs.
PortalEvent ==
  /\ HasPortal /\ ~(pc = "boot" /\ binauth)
  /\ Nds!ClientEvent
  /\ UNCHANGED <<vars, siteVars, enrolVars, lent>>

\* nds_task.  What was read is published once: without a connection it is lost,
\* and the broker may not get what follows a CONNECT it has not answered.
ReadEvents ==
  /\ pc = "idle"
  /\ \E k \in 0..Len(Nds!Available) :
       /\ Nds!Read(k)
       /\ \/ conn # "none" /\ online /\ Site!Publish(Nds!Lines(k))
          \/ ~(conn = "up" /\ online) /\ UNCHANGED siteVars
  /\ UNCHANGED <<vars, enrolVars, lent>>

\* mqtt_task: a loop that succeeds may deliver a message of the site.
MqttLoop ==
  /\ MqttTask
  /\ \/ conn' = "none" /\ Site!Disconnect
     \/ conn' # "none" /\ UNCHANGED siteVars
     \/ /\ conn = "up" /\ conn' = "up" /\ ~requested /\ wire # << >>
        /\ LET event == happened[Head(wire).event] IN Site!Handle(event.client, event.came)
  /\ UNCHANGED <<ndsVars, enrolVars, lent>>

\* The process ends; a signal before the cleanup of the FIFO is registered leaves
\* it as a kill does.
StopAll ==
  /\ \/ Terminated("stop") /\ IF pc \in {"off", "boot"} THEN Nds!Killed ELSE Nds!Clean
     \/ Terminated("kill") /\ Nds!Killed
  /\ Site!Stop /\ Enrol!Ends
  /\ UNCHANGED lent

Reboot ==
  /\ Terminated("reboot") /\ Nds!Rebooted
  /\ Site!Stop /\ Enrol!Ends /\ lent' = 0

\* token_refresh_task_cb and config_sync_task of fry-config; the call is
\* answered when the agent is in its event loop.
LendToken ==
  /\ HasBorrower /\ pc = "idle"
  /\ Lend!Refresh
  /\ UNCHANGED <<vars, ndsVars, siteVars, enrolVars>>

\* fry-config is started anew, however often.
RestartBorrower ==
  /\ "borrower" \in mayFail
  /\ Lend!Forget
  /\ UNCHANGED <<vars, ndsVars, siteVars, enrolVars>>

\* What only concerns the agent.
Alone ==
  /\ Boot \/ RefreshToken \/ DiagnosticFails \/ MqttRecover
     \/ TokenExpires \/ TimePasses \/ Offline \/ Online
  /\ UNCHANGED around

GatewayNext ==
  \/ Alone \/ GetCertificates \/ NoCertificates \/ RotateCA
  \/ OpenPortal \/ RestartPortal \/ StartAll \/ CheckContext \/ PortalEvent
  \/ ReadEvents \/ MqttLoop \/ StopAll \/ Reboot \/ LendToken \/ RestartBorrower

GatewaySpec == GatewayInit /\ [][GatewayNext]_gatewayVars

\* What the thread of the agent does when it is not in its event loop.
Busy == (Alone /\ (Boot \/ MqttRecover)) \/ GetCertificates \/ NoCertificates
        \/ OpenPortal \/ RestartPortal \/ StartAll

\* As for the agent alone; the scripts that main waits for end; fry-config asks
\* every ten seconds and waits up to five for an answer.
GatewayFairness ==
  /\ WF_gatewayVars(Busy) /\ WF_gatewayVars(Alone /\ Online)
  /\ SF_gatewayVars(Alone /\ RefreshToken /\ Token!GoodAnswer)
  /\ WF_gatewayVars(MqttLoop) /\ SF_gatewayVars(MqttLoop /\ Mqtt!Answer)
  /\ SF_gatewayVars(LendToken)

GatewayFairSpec == GatewaySpec /\ GatewayFairness
-----------------------------------------------------------------------------
\* The variables of every part keep their types.
GatewayTypeOK == TypeOK /\ Nds!TypeOK /\ Site!TypeOK /\ Enrol!TypeOK /\ Lend!TypeOK

\* Nobody's network waits for the agent for ever: a script that found a FIFO
\* without a reader, because the agent was killed, and openNDS with it, goes on
\* when procd has started the agent again (nds.c:66-71).
PortalReleased == waiting # 0 ~> waiting = 0

\* Clients are let through by the order in which they came and went: the last
\* event handled of a client on the list is one of coming, although events wait
\* in scripts, FIFOs, files and messages, some of which outlive the process,
\* and lines are cut (nds.c:118-183, site-clients.c:57-135).
WelcomeIsRecent == \A c \in welcome \cap Clients : happened[known[c]].came

\* What a client of the portal causes while the agent reads the events is kept
\* until it is read (nds-binauth.sh:197 "Adds this event to Fry's fifo (this
\* gets processed by fry-os-services and published to the MQTT broker)").
EventsKept == pending \subseteq Nds!EventsIn(Nds!Available)

\* While the services run, each certificate on flash is one of the key on flash and
\* is signed by the CA on flash, whatever earlier starts left that failed or were
\* interrupted between the key and its certificate, and whenever the server changes
\* its CA (mqtt/cert.c:91-102, 149-168, radsec_cert.c:99-110).
CredentialsMatch ==
  scheduled => \A u \in Enrol!Uses : ca[u] # 0 /\ cert[u] = [by |-> ca[u], ours |-> TRUE]

\* fry-config comes back to a token it can use, however many expire, and however
\* requests, the agent and fry-config itself fail meanwhile (token_manager.c:13-61).
Served == lent # 0 /\ Token!Valid(lent)

BorrowerServed == HasBorrower => (~Served ~> Served)
=============================================================================
