---------------------------- MODULE AccessToken -----------------------------
(***************************************************************************)
(* The access token of fry-agent (apps/agent/services/access_token.c): one *)
(* copy in memory, which the other services of the agent point to, and the *)
(* last answer of the server in a file.  Tokens are numbered in the order  *)
(* the server issues them and expire in that order.                        *)
(***************************************************************************)
EXTENDS Naturals

CONSTANTS
  MaxTokens,   \* bound: the last token the server issues; it does not expire
  None,        \* there is no file
  Junk,        \* the file holds an answer that is not a token, or a part of one
  MaxFaults    \* bound: how many faults

AccessTokenAssumption ==
  /\ MaxTokens \in Nat \ {0} /\ MaxFaults \in Nat
  /\ None \notin Nat /\ Junk \notin Nat /\ None # Junk

VARIABLES
  token,       \* access_token->token; 0 is NULL
  file,        \* access_token.json
  issued,      \* the last token issued
  expired,     \* the last token that has expired
  online,      \* the servers can be reached
  mayFail,     \* the kinds of faults that happen in this behaviour
  faults       \* faults so far

vars == <<token, file, issued, expired, online, mayFail, faults>>

Tokens == 1..MaxTokens

\* read_access_token and parse_access_token: the token in the file, if there is one.
Saved == IF file \in Tokens THEN file ELSE 0

Fault(kind) ==
  /\ kind \in mayFail
  /\ faults < MaxFaults
  /\ faults' = faults + 1

\* is_token_valid, and what the MQTT broker makes of it.
Valid(t) == t > expired

\* When its bound is reached the server gives the last token again.
NewToken == IF issued < MaxTokens THEN issued + 1 ELSE issued

\* An answer that cannot be saved is not parsed.
ParsedFirst(before) == NewToken
Unsaved(before) == before
-----------------------------------------------------------------------------
\* access_token_task is left with a token, saved before it was parsed.  Opening
\* the file has emptied it, and nobody looks at what a full flash refuses.
GoodAnswer ==
  /\ online
  /\ issued' = NewToken /\ token' = issued'
  /\ \/ file' = issued' /\ UNCHANGED faults
     \/ file' = Junk /\ Fault("full")
  /\ UNCHANGED expired

\* request_access_token returns nothing.
NoAnswer(before) ==
  /\ \/ ~online /\ UNCHANGED faults
     \/ online /\ Fault("request")
  /\ token' = before
  /\ UNCHANGED <<file, issued, expired>>

\* save_access_token cannot open the file.
NotSaved(before) ==
  /\ online /\ Fault("save")
  /\ issued' = NewToken
  /\ token' = Unsaved(before)
  /\ UNCHANGED <<file, expired>>

\* The answer, whatever its HTTP status, is saved and then found not to be a
\* token; parse_access_token has forgotten the old one before it looks.
BadAnswer ==
  /\ online /\ Fault("answer")
  /\ file' = Junk /\ token' = 0
  /\ UNCHANGED <<issued, expired>>

\* The process ends between the answer and its use: the file is empty or cut off,
\* or has the token that nobody uses yet.
CutOff ==
  /\ online
  /\ issued' = NewToken
  /\ file' \in {Junk, issued'}

\* init_access_token: the file if its token lasts for more than the margin,
\* otherwise a request, and what the file held if that brings nothing.
Initialise ==
  \/ Valid(Saved) /\ token' = Saved /\ UNCHANGED <<file, issued, expired, faults>>
  \/ GoodAnswer \/ NoAnswer(Saved) \/ NotSaved(Saved) \/ BadAnswer

\* access_token_task up to its callback, with the token the callback is given.
\* An answer that is not JSON at all counts as parsed (access_token.c:106-109).
Refreshed == GoodAnswer \/ BadAnswer

\* access_token_task, tried again in a minute.
NotRefreshed == NoAnswer(token) \/ NotSaved(token) \/ BadAnswer

Expire ==
  /\ expired < issued /\ expired + 1 < MaxTokens
  /\ expired' = expired + 1
  /\ UNCHANGED <<token, file, issued, faults>>
-----------------------------------------------------------------------------
TypeOK ==
  /\ token \in 0..MaxTokens /\ file \in Tokens \cup {None, Junk}
  /\ issued \in 0..MaxTokens /\ expired \in 0..issued
  /\ online \in BOOLEAN /\ faults \in 0..MaxFaults

\* A restart of the agent comes back with the token it had in memory, and asks for
\* a new one if flash was full when that was saved, which nobody noticed: it never
\* goes back to an older one (access_token.c:21-35, 304-314).
FileIsToken == token # 0 => file = token \/ ("full" \in mayFail /\ file = Junk)
=============================================================================
