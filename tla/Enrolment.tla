----------------------------- MODULE Enrolment ------------------------------
(***************************************************************************)
(* The certificates that main gets before it starts the services           *)
(* (apps/agent/services/mqtt/cert.c, services/radsec_cert.c, lib/crypto):  *)
(* for the MQTT client and for the RADIUS proxy, a CA that is downloaded   *)
(* at every start, a key, and a certificate of that key that the server    *)
(* signs when the one on flash is of no use.                               *)
(*                                                                         *)
(* Each stage is repeated a few times before the agent gives up and procd  *)
(* starts it again.  The download opens its file for writing before it     *)
(* asks, and a new key is saved before its certificate is: a stage that    *)
(* fails or is interrupted leaves files that do not belong together.  What *)
(* a repetition within the stage leaves is what its last attempt leaves.   *)
(***************************************************************************)
EXTENDS Naturals

CONSTANT MaxCA   \* bound: the last CA the server comes to use

EnrolmentAssumption == MaxCA \in Nat \ {0}

VARIABLES
  current,  \* the CA the server signs with
  ca,       \* the CA on flash for each use; 0 is no file, or a part of one
  cert,     \* the certificate on flash: which CA signed it (0 as above), and
            \* whether it is of the key on flash
  stage     \* how many of the four stages of main are done

vars == <<current, ca, cert, stage>>

Uses == {"mqtt", "radsec"}
use  == IF stage < 2 THEN "mqtt" ELSE "radsec"

Fetching == stage \in {0, 2}
Signing  == stage \in {1, 3}
Ready    == stage = 4

\* verify_certificate and validate_key_cert_match.
SignedOnly(u) == ca[u] # 0 /\ cert[u].by = ca[u]
Good(u) == ca[u] # 0 /\ cert[u].by = ca[u] /\ cert[u].ours
-----------------------------------------------------------------------------
Init ==
  /\ current = 1 /\ stage = 0
  /\ ca = [u \in Uses |-> 0]
  /\ cert = [u \in Uses |-> [by |-> 0, ours |-> FALSE]]

\* get_mqtt_ca_cert, get_radsec_ca_cert.
Fetched ==
  /\ Fetching
  /\ ca' = [ca EXCEPT ![use] = current]
  /\ stage' = stage + 1
  /\ UNCHANGED <<current, cert>>

\* generate_and_sign_cert, generate_and_sign_radsec_cert: what is on flash is
\* good, or a new key is certified by the CA that was just downloaded.
Kept ==
  /\ Signing /\ Good(use)
  /\ stage' = stage + 1
  /\ UNCHANGED <<current, ca, cert>>

Signed ==
  /\ Signing /\ ~Good(use) /\ current = ca[use]
  /\ cert' = [cert EXCEPT ![use] = [by |-> current, ours |-> TRUE]]
  /\ stage' = stage + 1
  /\ UNCHANGED <<current, ca>>

\* The last attempt of a stage fails, or the process ends in its middle: in the
\* download; with a key whose certificate is still the old one, or a part of the
\* new one, or one of a key that could not be saved.
Spoilt ==
  \/ /\ Fetching
     /\ ca' = [ca EXCEPT ![use] = 0]
     /\ UNCHANGED cert
  \/ /\ Signing /\ ~Good(use)
     /\ \E by \in {0, current, cert[use].by} :
          cert' = [cert EXCEPT ![use] = [by |-> by, ours |-> FALSE]]
     /\ UNCHANGED ca

Fails == Spoilt /\ stage' = 0 /\ UNCHANGED current

\* Every attempt ends alike when the server signs with another CA than the one
\* that was downloaded.
Mismatched ==
  /\ Signing /\ ~Good(use) /\ current # ca[use]
  /\ cert' = [cert EXCEPT ![use] = [by |-> current, ours |-> TRUE]]
  /\ stage' = 0
  /\ UNCHANGED <<current, ca>>

\* The process ends.
Ends ==
  /\ stage' = 0 /\ UNCHANGED current
  /\ Spoilt \/ UNCHANGED <<ca, cert>>

\* The server comes to use another CA.
Rotate == current < MaxCA /\ current' = current + 1 /\ UNCHANGED <<ca, cert, stage>>
-----------------------------------------------------------------------------
TypeOK ==
  /\ current \in 1..MaxCA /\ stage \in 0..4
  /\ ca \in [Uses -> 0..MaxCA]
  /\ cert \in [Uses -> [by : 0..MaxCA, ours : BOOLEAN]]
=============================================================================
