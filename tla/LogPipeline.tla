---------------------------- MODULE LogPipeline ----------------------------
(***************************************************************************)
(* What fry-collector promises for the logs it accepts, without pool,      *)
(* ring, payload or HTTP: they wait in a line of bounded length; a window  *)
(* at its front is fixed, sent as a whole any number of times, and removed *)
(* as a whole, delivered or given up; at the end the line is discarded.    *)
(***************************************************************************)
EXTENDS Naturals, Sequences

CONSTANTS
  Capacity,    \* how many accepted logs can wait
  BatchSize    \* how many of them are sent together

VARIABLES
  waiting,     \* the accepted logs, oldest first
  window,      \* how many at the front are being sent; 0 when none are
  last,        \* the log offered last
  server       \* what reached the server, in that order

vars == <<waiting, window, last, server>>

Front == SubSeq(waiting, 1, window)
Rest  == SubSeq(waiting, window + 1, Len(waiting))

Init == waiting = <<>> /\ window = 0 /\ last = 0 /\ server = <<>>

\* A log is offered, and accepted if there is room.
Offer ==
  /\ last' = last + 1
  /\ \/ Len(waiting) < Capacity /\ waiting' = Append(waiting, last')
     \/ UNCHANGED waiting
  /\ UNCHANGED <<window, server>>

Fix ==
  /\ window = 0
  /\ window' \in 1..BatchSize /\ window' <= Len(waiting)
  /\ UNCHANGED <<waiting, last, server>>

\* The window reaches the server, and the sender may or may not learn it.
Send ==
  /\ window > 0
  /\ server' = server \o Front
  /\ \/ waiting' = Rest /\ window' = 0
     \/ UNCHANGED <<waiting, window>>
  /\ UNCHANGED last

GiveUp ==
  /\ window > 0
  /\ waiting' = Rest /\ window' = 0
  /\ UNCHANGED <<last, server>>

Discard ==
  /\ waiting' = <<>> /\ window' = 0
  /\ UNCHANGED <<last, server>>

Next == Offer \/ Fix \/ Send \/ GiveUp \/ Discard

Spec == Init /\ [][Next]_vars
-----------------------------------------------------------------------------
\* The server sees the logs in the order they were offered: one that comes
\* after a later log has been there before, in an earlier attempt.
InOrder ==
  \A i, j \in DOMAIN server :
    i < j /\ server[j] < server[i] => \E k \in 1 .. i - 1 : server[k] = server[j]
=============================================================================
