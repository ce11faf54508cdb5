----------------------------- MODULE NdsEvents ------------------------------
(***************************************************************************)
(* The events of the captive portal on their way to fry-agent              *)
(* (apps/agent/scripts/openwrt/nds-binauth.sh and services/nds.c).         *)
(*                                                                         *)
(* openNDS runs the script for one client at a time and waits for it.  The *)
(* script redirects a line to a path in /tmp.  The agent makes a FIFO of   *)
(* that path, opens it for reading without blocking, and removes it when   *)
(* it ends in order.  A shell that opens a FIFO without a reader waits; one *)
(* that finds no file makes a regular one, and one that finds a regular    *)
(* file cuts it to nothing and writes it anew.                             *)
(*                                                                         *)
(* A line has two pieces: its head has the method and a part of the MAC of *)
(* the client, its tail the rest.  Lines that follow each other in the     *)
(* FIFO can be cut by the size of the read.                                *)
(***************************************************************************)
EXTENDS Naturals, Sequences, FiniteSets

CONSTANTS
  Clients,    \* the clients of the portal
  MaxEvents   \* bound: how many events clients cause

NdsAssumption == IsFiniteSet(Clients) /\ MaxEvents \in Nat

VARIABLES
  happened,   \* the events so far: of which client, and whether it came or went
  authed,     \* the clients that openNDS lets through
  waiting,    \* the event whose script waits for a reader, or 0
  path,       \* absent (no directory), none, fifo, file
  content,    \* the pieces in the regular file
  pipe,       \* the pieces in the FIFO
  reader,     \* what client->fifo_fd is open for: none, fifo, file
  binauth,    \* this process has configured the script: openNDS was restarted
  offset,     \* how far that regular file was read
  pending     \* history: events told while the agent reads, not read yet

portal == <<happened, authed>>
vars   == <<portal, waiting, path, content, pipe, reader, binauth, offset, pending>>

Line(n) == << <<n, "head">>, <<n, "tail">> >>

\* What the agent could read now.
Available == IF reader = "fifo" THEN pipe ELSE SubSeq(content, offset + 1, Len(content))

EventsIn(pieces) == {pieces[i][1] : i \in DOMAIN pieces}

\* echo "$loginfo" > "$fifo_path" on a regular file.
Appended(n) == content \o Line(n)
Rewritten(n) == Line(n)

\* init_nds_fifo: mkfifo fails with EEXIST, which is no error whatever exists.
ExistingIsAnError == IF path \in {"fifo", "file"} THEN "none" ELSE "fifo"
Opened == IF path = "file" THEN "file" ELSE "fifo"
-----------------------------------------------------------------------------
Init ==
  /\ happened = << >> /\ authed = {} /\ waiting = 0
  /\ path = "absent" /\ content = << >> /\ pipe = << >>
  /\ reader = "none" /\ binauth = FALSE /\ offset = 0 /\ pending = {}

\* The redirection of the script, for the event n.
Tell(n) ==
  \/ /\ path = "absent"
     /\ UNCHANGED <<waiting, path, content, pipe, pending>>
  \/ /\ path \in {"none", "file"}
     /\ path' = "file" /\ content' = Rewritten(n)
     /\ pending' = IF reader = "none" THEN pending ELSE pending \cup {n}
     /\ UNCHANGED <<waiting, pipe>>
  \/ /\ path = "fifo" /\ reader = "none"
     /\ waiting' = n
     /\ UNCHANGED <<path, content, pipe, pending>>
  \/ /\ path = "fifo" /\ reader # "none"
     /\ pipe' = pipe \o Line(n) /\ pending' = pending \cup {n}
     /\ UNCHANGED <<waiting, path, content>>

\* A client is authenticated or deauthenticated.
ClientEvent ==
  /\ waiting = 0 /\ Len(happened) < MaxEvents
  /\ \E c \in Clients :
       /\ happened' = Append(happened, [client |-> c, came |-> c \notin authed])
       /\ authed' = IF c \in authed THEN authed \ {c} ELSE authed \cup {c}
  /\ Tell(Len(happened'))
  /\ UNCHANGED <<reader, binauth, offset>>

\* init_nds_client: the FIFO is made unless something is there, and opened,
\* which releases the script that waits; then the binauth script is configured
\* and openNDS restarted.
Open ==
  /\ reader' = Opened /\ binauth' = TRUE /\ offset' = 0
  /\ path' = IF path = "file" THEN "file" ELSE "fifo"
  /\ IF waiting # 0 /\ reader' = "fifo"
     THEN pipe' = Line(waiting) /\ pending' = {waiting} /\ waiting' = 0
     ELSE UNCHANGED <<pipe, pending, waiting>>
  /\ UNCHANGED <<portal, content>>

\* openNDS stops: a shutdown_deauth for each client it had let through.
Restarted ==
  \E c \in authed :
    /\ waiting = 0
    /\ happened' = Append(happened, [client |-> c, came |-> FALSE])
    /\ authed' = authed \ {c}
    /\ Tell(Len(happened'))
    /\ UNCHANGED <<reader, binauth, offset>>

\* nds_task: a read of at most 511 bytes gets the first k pieces, or finds none.
Read(k) ==
  /\ reader # "none"
  /\ k \in 0..Len(Available)
  /\ k >= 2 \/ k = Len(Available)
  /\ IF reader = "fifo"
     THEN pipe' = SubSeq(pipe, k + 1, Len(pipe)) /\ UNCHANGED offset
     ELSE offset' = offset + k /\ UNCHANGED pipe
  /\ pending' = pending \ EventsIn(SubSeq(Available, 1, k))
  /\ UNCHANGED <<portal, waiting, path, content, reader, binauth>>

\* The lines among the first k pieces that have a method, in their order: what is
\* left of a line that was cut before has none; the last line may be cut.
Lines(k) ==
  LET rest == IF k > 0 /\ Available[1][2] = "tail" THEN 1 ELSE 0
  IN  [i \in 1 .. ((k - rest + 1) \div 2) |->
        [event |-> Available[2 * i - 1 + rest][1], whole |-> 2 * i + rest <= k]]

\* The last descriptor of a FIFO is closed: what is in it is gone.
Closed == reader' = "none" /\ binauth' = FALSE /\ offset' = 0 /\ pipe' = << >> /\ pending' = {}

\* clean_nds_fifo, at an exit in order.
Clean ==
  /\ Closed
  /\ path' = IF path = "absent" THEN "absent" ELSE "none"
  /\ content' = << >>
  /\ UNCHANGED <<portal, waiting>>

\* The process ends without its cleanups.
Killed == Closed /\ UNCHANGED <<portal, waiting, path, content>>

\* The router starts: /tmp is empty and nobody is let through.
Rebooted ==
  /\ Closed
  /\ authed' = {} /\ waiting' = 0 /\ path' = "absent" /\ content' = << >>
  /\ UNCHANGED happened
-----------------------------------------------------------------------------
Pieces == (1..Len(happened)) \X {"head", "tail"}

TypeOK ==
  /\ happened \in Seq([client : Clients, came : BOOLEAN])
  /\ authed \subseteq Clients
  /\ waiting \in 0..Len(happened)
  /\ path \in {"absent", "none", "fifo", "file"}
  /\ content \in Seq(Pieces) /\ pipe \in Seq(Pieces)
  /\ reader \in {"none", "fifo", "file"}
  /\ binauth \in BOOLEAN
  /\ offset \in 0..Len(content)
  /\ pending \subseteq 1..Len(happened)
=============================================================================
