---------------------------- MODULE SiteClients -----------------------------
(***************************************************************************)
(* The clients of a site (apps/agent/services/device-context.c,            *)
(* services/site-clients.c, scripts/openwrt/nds-set-preemptive-list.lua):  *)
(* what a router reads from its portal it publishes to a topic of the      *)
(* site, and every router that listens to the topic lets the client        *)
(* through without asking again.  The router hears itself as well.         *)
(***************************************************************************)
EXTENDS Naturals, Sequences

CONSTANTS
  Clients,
  Junk        \* a MAC that was cut in two

SiteAssumption == Junk \notin Clients

VARIABLES
  site,       \* the agent knows the site of the router
  listening,  \* the topic of the site is among those it subscribes to
  wire,       \* lines the broker has sent and the agent has not handled
  welcome,    \* flash: opennds1.preemptivemac
  known       \* history: the last event handled of each client

vars == <<site, listening, wire, welcome, known>>

\* nds-set-preemptive-list.lua add: a list that is not empty is replaced by the
\* new entry (uci_list is a new table, lines 114-125).
Added(mac) == IF mac \in welcome THEN welcome ELSE {mac}

\* nds-set-preemptive-list.lua remove.
Removed(mac) == welcome \ {mac}
-----------------------------------------------------------------------------
Init ==
  /\ site = FALSE /\ listening = FALSE /\ wire = << >>
  /\ welcome = {} /\ known = [c \in Clients |-> 0]

\* init_device_context and init_site_clients: without a site there is nothing
\* to subscribe to, and nobody tries again, nor when the subscription failed.
Start(answered, accepted) ==
  /\ site' = answered /\ listening' = (answered /\ accepted)
  /\ wire' = << >>
  /\ UNCHANGED <<welcome, known>>

\* device_context_task.
LearnSite ==
  /\ ~site /\ site' = TRUE
  /\ UNCHANGED <<listening, wire, welcome, known>>

\* nds_task publishes the lines to the topic of the site, and the broker sends
\* them to whoever listens, this router among them.
Publish(lines) ==
  /\ wire' = IF site /\ listening THEN wire \o lines ELSE wire
  /\ UNCHANGED <<site, listening, welcome, known>>

\* The connection is lost, and with it what was on its way (QoS 0).
Disconnect == wire' = << >> /\ UNCHANGED <<site, listening, welcome, known>>

\* site_clients_callback, one line: its tail alone has no method and is skipped,
\* its head alone has a part of the MAC.
Handle(client, came) ==
  LET line == Head(wire)
      mac  == IF line.whole THEN client ELSE Junk
  IN  /\ welcome' = IF came THEN Added(mac) ELSE Removed(mac)
      /\ known' = IF line.whole /\ line.event > known[client]
                  THEN [known EXCEPT ![client] = line.event] ELSE known
      /\ wire' = Tail(wire)
      /\ UNCHANGED <<site, listening>>

\* The process ends.
Stop ==
  /\ site' = FALSE /\ listening' = FALSE /\ wire' = << >>
  /\ UNCHANGED <<welcome, known>>
-----------------------------------------------------------------------------
TypeOK ==
  /\ site \in BOOLEAN /\ listening \in BOOLEAN
  /\ wire \in Seq([event : Nat, whole : BOOLEAN])
  /\ welcome \subseteq Clients \cup {Junk}
  /\ known \in [Clients -> Nat]
=============================================================================
