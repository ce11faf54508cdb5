--------------------------- MODULE FryAgentProofs ---------------------------
(***************************************************************************)
(* The safety of FryAgent for any number of tokens, attempts and faults:   *)
(* types, the token and its file, the subscriptions of an accepted         *)
(* session, and the attempts that each outage has.                         *)
(***************************************************************************)
EXTENDS FryAgent, TLAPS

\* A CONNECT is sent with subscriptions that follow: the broker has yet to
\* accept it, and the session must be complete when it does.
SubscribedWhenAsked == conn # "none" => made /\ (recorded => subscribed)

\* A client whose first CONNECT the broker accepts, over a connection that holds,
\* has recorded every topic.
AllRecorded == made /\ "drop" \notin mayFail /\ Mqtt!Accepted(copy) => recorded

\* The inductive invariant.
IInv == TypeOK /\ FileIsToken /\ SubscribedWhenAsked /\ AllRecorded /\ AttemptsStartOver

USE FryAgentAssumption DEF Token!AccessTokenAssumption

-----------------------------------------------------------------------------
\* One fault more is within the bound, whichever module takes the step.
LEMMA FaultType ==
  ASSUME NEW kind, faults \in 0..MaxFaults,
         Token!Fault(kind) \/ Mqtt!Fault(kind)
  PROVE  faults' \in 0..MaxFaults
BY DEF Token!Fault, Mqtt!Fault

LEMMA InitInvariant == Init => IInv
<1> SUFFICES ASSUME Init PROVE IInv
    OBVIOUS
<1>1. Token!TypeOK /\ mayFail \in FaultSets
      BY DEF Init, Token!TypeOK, Token!Tokens
<1>2. Mqtt!TypeOK
  <2>1. 0 \in Nat /\ 0 \in 0..MaxAttempts
        OBVIOUS
  <2>2. QED
        BY <2>1, Zenon DEF Init, Mqtt!TypeOK
<1>3. FileIsToken /\ SubscribedWhenAsked /\ AllRecorded /\ AttemptsStartOver
      BY DEF Init, FileIsToken, Token!FileIsToken, SubscribedWhenAsked, AllRecorded, AttemptsStartOver,
         Mqtt!AttemptsStartOver
<1>4. QED
      BY <1>1, <1>2, <1>3 DEF IInv, TypeOK

\* What is on flash for the token t in memory.
OnFlash(t) == t # 0 => file = t \/ ("full" \in mayFail /\ file = Junk)

\* Whatever the server answers, token and file agree if they did before, or if
\* the token before is what the file holds, as it is at the start.
LEMMA AnswerStep ==
  ASSUME NEW before, before \in 0..MaxTokens, OnFlash(before),
         Token!TypeOK, online' = online, mayFail' = mayFail,
         Token!GoodAnswer \/ Token!NoAnswer(before) \/ Token!NotSaved(before) \/ Token!BadAnswer
  PROVE  Token!TypeOK' /\ Token!FileIsToken'
<1> USE DEF Token!TypeOK, Token!FileIsToken, Token!Tokens, Token!NewToken, OnFlash
<1>1. CASE Token!GoodAnswer
  <2>1. faults' \in 0..MaxFaults
        BY <1>1, FaultType DEF Token!GoodAnswer
  <2>2. file' = issued' \/ (file' = Junk /\ "full" \in mayFail)
        BY <1>1 DEF Token!GoodAnswer, Token!Fault
  <2>3. QED
        BY <1>1, <2>1, <2>2 DEF Token!GoodAnswer
<1>2. CASE Token!NoAnswer(before)
      BY <1>2, FaultType DEF Token!NoAnswer
<1>3. CASE Token!NotSaved(before)
      BY <1>3, FaultType DEF Token!NotSaved, Token!Unsaved
<1>4. CASE Token!BadAnswer
      BY <1>4, FaultType DEF Token!BadAnswer
<1>5. QED
      BY <1>1, <1>2, <1>3, <1>4

LEMMA BootStep ==
  ASSUME IInv, Boot
  PROVE  Token!TypeOK' /\ Token!FileIsToken'
<1> DEFINE saved == Token!Saved
<1>1. saved \in 0..MaxTokens /\ (saved # 0 => file = saved) /\ OnFlash(saved)
      BY DEF Token!Tokens, Token!Saved, OnFlash
<1>2. CASE token' = saved /\ UNCHANGED <<file, issued, expired, faults>>
      BY <1>1, <1>2 DEF IInv, TypeOK, Boot, Token!TypeOK, Token!FileIsToken
<1>3. CASE Token!GoodAnswer \/ Token!NoAnswer(saved) \/ Token!NotSaved(saved) \/ Token!BadAnswer
      <2>1. Token!TypeOK /\ online' = online /\ mayFail' = mayFail
            BY DEF IInv, TypeOK, Boot
      <2>2. QED
            BY <1>1, <1>3, <2>1, AnswerStep
<1>4. QED
      BY <1>2, <1>3 DEF Boot, Token!Initialise

LEMMA RefreshStep ==
  ASSUME IInv, RefreshToken
  PROVE  Token!TypeOK' /\ Token!FileIsToken'
<1>1. /\ Token!TypeOK /\ token \in 0..MaxTokens /\ OnFlash(token)
      /\ online' = online /\ mayFail' = mayFail
      BY DEF IInv, TypeOK, Token!TypeOK, FileIsToken, Token!FileIsToken, RefreshToken, OnFlash
<1>2. Token!GoodAnswer \/ Token!NoAnswer(token) \/ Token!NotSaved(token) \/ Token!BadAnswer
      BY DEF RefreshToken, Token!Refreshed, Token!NotRefreshed
<1>3. QED
      BY <1>1, <1>2, AnswerStep

\* What the invariant says of the MQTT client.
ClientInv == Mqtt!TypeOK /\ SubscribedWhenAsked /\ Mqtt!AttemptsStartOver

\* The task keeps it: a loop that fails leaves no session behind.
LEMMA TaskStep ==
  ASSUME ClientInv, faults \in 0..MaxFaults, Mqtt!Task
  PROVE  ClientInv' /\ faults' \in 0..MaxFaults
<1> USE DEF ClientInv, Mqtt!TypeOK, SubscribedWhenAsked, Mqtt!AttemptsStartOver,
            Mqtt!session, Mqtt!health, Mqtt!Running, Mqtt!LoopFails
<1>1. CASE Mqtt!TaskStops
      BY <1>1 DEF Mqtt!TaskStops
<1>2. CASE Mqtt!LoopSucceeds
      BY <1>2 DEF Mqtt!LoopSucceeds
<1>3. CASE Mqtt!Refused
      BY <1>3 DEF Mqtt!Refused
<1>4. CASE Mqtt!Lost
      BY <1>4, FaultType DEF Mqtt!Lost
<1>5. CASE Mqtt!NoConnection \/ Mqtt!NoClient
      BY <1>5 DEF Mqtt!NoConnection, Mqtt!NoClient
<1>6. QED
      BY <1>1, <1>2, <1>3, <1>4, <1>5 DEF Mqtt!Task

\* An attempt that reaches the broker subscribes what is recorded again, unless the
\* connection has ended, and gives all attempts back.
LEMMA ReconnectedStep ==
  ASSUME ClientInv, made, NEW name, name \in Nat, user' \in Nat, Mqtt!Reconnected(name)
  PROVE  ClientInv'
<1>1. /\ (conn' = "asked" /\ subscribed' = recorded) \/ (conn' = "none" /\ subscribed' = FALSE)
      /\ UNCHANGED <<made, recorded, copy, succeeded, overdue, scheduled, requested>>
      /\ offered' = name /\ attempts' = 0
      /\ pc' \in {"health", "idle"} /\ force' = (pc' = "health")
      BY DEF Mqtt!Reconnected, Mqtt!Resubscribed, Mqtt!ResetOnSuccess, Mqtt!health
<1>2. 0 \in 0..MaxAttempts /\ (pc' = "health") \in BOOLEAN
      OBVIOUS
<1>3. Mqtt!TypeOK'
  <2>1. /\ subscribed' \in BOOLEAN /\ conn' \in {"none", "asked", "up"}
        /\ pc' \in {"off", "boot", "idle", "recover", "health"} /\ force' \in BOOLEAN
        BY <1>1, <1>2, Zenon DEF ClientInv, Mqtt!TypeOK
  <2>2. QED
        BY <1>1, <1>2, <2>1, Zenon DEF ClientInv, Mqtt!TypeOK
<1>4. SubscribedWhenAsked'
      BY <1>1, Zenon DEF SubscribedWhenAsked
<1>5. Mqtt!AttemptsStartOver'
      BY <1>1 DEF Mqtt!AttemptsStartOver
<1>6. QED
      BY <1>3, <1>4, <1>5 DEF ClientInv

\* The recovery keeps it: an attempt that reaches the broker gives all attempts
\* back, one that does not is within the bound, and the last ends the task.
LEMMA RecoverStep ==
  ASSUME ClientInv, faults \in 0..MaxFaults, Mqtt!Recover
  PROVE  ClientInv' /\ faults' \in 0..MaxFaults
<1> USE DEF ClientInv, Mqtt!TypeOK, SubscribedWhenAsked, Mqtt!AttemptsStartOver,
            Mqtt!session, Mqtt!health, Mqtt!Attempting, Mqtt!MayTry
<1>1. CASE Mqtt!LightReconnect \/ Mqtt!Reinitialise
  <2>1. faults' \in 0..MaxFaults
        BY <1>1, FaultType DEF Mqtt!LightReconnect, Mqtt!Reinitialise
  <2>2. /\ made /\ user \in Nat /\ copy \in Nat /\ user' \in {user, copy}
        /\ Mqtt!Reconnected(user) \/ Mqtt!Reconnected(copy)
        BY <1>1 DEF Mqtt!LightReconnect, Mqtt!Reinitialise
  <2>3. ClientInv
        OBVIOUS
  <2> HIDE DEF ClientInv, Mqtt!TypeOK, SubscribedWhenAsked, Mqtt!AttemptsStartOver
  <2>4. QED
        BY <2>1, <2>2, <2>3, ReconnectedStep
<1>2. CASE Mqtt!AttemptFails
      BY <1>2, FaultType DEF Mqtt!AttemptFails
<1>3. CASE Mqtt!Exhausted
      BY <1>3 DEF Mqtt!Exhausted
<1>4. QED
      BY <1>1, <1>2, <1>3 DEF Mqtt!Recover

\* So does every step that starts or ends the client, or leaves it alone.
LEMMA OtherStep ==
  ASSUME IInv,
         \/ Boot \/ StartFails \/ StartServices \/ RefreshToken \/ DiagnosticFails \/ TimePasses
         \/ \E kind \in Endings : Terminated(kind)
  PROVE  ClientInv'
<1> USE DEF IInv, TypeOK, AttemptsStartOver, ClientInv, Mqtt!TypeOK, SubscribedWhenAsked,
            Mqtt!AttemptsStartOver, Mqtt!session, Mqtt!health, mqttVars, tokenVars
<1>a. 0 \in Nat /\ 0 \in 0..MaxAttempts
      OBVIOUS
<1>1. CASE Boot
      BY <1>1 DEF Boot
<1>2. CASE StartServices
      <2>1. token \in Nat
            BY DEF Token!TypeOK
      <2>2. Mqtt!TypeOK'
            BY <1>2, <1>a, <2>1, Zenon DEF StartServices, Mqtt!Start
      <2>3. SubscribedWhenAsked' /\ Mqtt!AttemptsStartOver'
            BY <1>2 DEF StartServices, Mqtt!Start
      <2>4. QED
            BY <2>2, <2>3
<1>3. CASE RefreshToken
      <2>1. token' \in Nat
            BY <1>3, RefreshStep DEF Token!TypeOK
      <2>2. QED
            BY <1>3, <2>1 DEF RefreshToken, Mqtt!TokenRefreshed, Mqtt!Credential
<1>4. CASE DiagnosticFails
      BY <1>4 DEF DiagnosticFails
<1>5. CASE StartFails \/ \E kind \in Endings : Terminated(kind)
      <2>0. Mqtt!Stop
            BY <1>5 DEF StartFails, Terminated
      <2>1. Mqtt!TypeOK'
            BY <2>0, <1>a, Zenon DEF Mqtt!Stop
      <2>2. SubscribedWhenAsked' /\ Mqtt!AttemptsStartOver'
            BY <2>0 DEF Mqtt!Stop
      <2>3. QED
            BY <2>1, <2>2
<1>6. CASE TimePasses
      BY <1>6 DEF TimePasses, Mqtt!TimePasses
<1>7. QED
      BY <1>1, <1>2, <1>3, <1>4, <1>5, <1>6

\* A client that is left as it is, and tokens that only expire.
LEMMA RecordedStays ==
  ASSUME AllRecorded, UNCHANGED <<made, recorded, copy, mayFail>>,
         copy \in Nat, expired \in Nat, expired' \in Nat, expired <= expired'
  PROVE  AllRecorded'
<1>1. Mqtt!Accepted(copy)' => Mqtt!Accepted(copy)
      BY DEF Mqtt!Accepted
<1>2. QED
      BY <1>1, Zenon DEF AllRecorded

\* Only the start records topics: all of them unless its connection ended, because
\* the broker refused the token or the network failed.
LEMMA RecordStep ==
  ASSUME IInv, [Next]_vars
  PROVE  AllRecorded'
<1>a. AllRecorded /\ copy \in Nat /\ expired \in Nat
      BY DEF IInv, TypeOK, Token!TypeOK, Mqtt!TypeOK
<1>1. CASE StartServices
  <2>1. CASE ~made' \/ recorded'
        BY <2>1, Zenon DEF AllRecorded
  <2>2. CASE Mqtt!Ended(token) /\ (UNCHANGED faults \/ Mqtt!Fault("drop"))
    <3>1. copy' = token /\ expired' = expired /\ mayFail' = mayFail
          BY <1>1 DEF StartServices, Mqtt!Start, tokenVars
    <3>2. ~Mqtt!Accepted(copy)' \/ "drop" \in mayFail'
          BY <2>2, <3>1 DEF Mqtt!Ended, Mqtt!Accepted, Mqtt!Fault
    <3>3. QED
          BY <3>2, Zenon DEF AllRecorded
  <2>3. QED
        BY <1>1, <2>1, <2>2 DEF StartServices, Mqtt!Start
<1>2. CASE StartFails \/ \E kind \in Endings : Terminated(kind)
  <2>1. made' = FALSE
        BY <1>2 DEF StartFails, Terminated, Mqtt!Stop
  <2>2. QED
        BY <2>1, Zenon DEF AllRecorded
<1>3. CASE Boot \/ RefreshToken
  <2>1. expired' = expired
        BY <1>3 DEF Boot, RefreshToken, Token!Initialise, Token!Refreshed, Token!NotRefreshed,
           Token!GoodAnswer, Token!NoAnswer, Token!NotSaved, Token!BadAnswer
  <2>2. UNCHANGED <<made, recorded, copy, mayFail>>
        BY <1>3 DEF Boot, RefreshToken, Mqtt!TokenRefreshed, mqttVars
  <2>3. QED
        BY <1>a, <2>1, <2>2, RecordedStays
<1>4. CASE DiagnosticFails \/ TimePasses \/ Offline \/ Online \/ UNCHANGED vars
      BY <1>a, <1>4, RecordedStays
      DEF DiagnosticFails, TimePasses, Mqtt!TimePasses, Mqtt!session, Offline, Online, vars,
          tokenVars, mqttVars
<1>5. CASE MqttTask
      BY <1>a, <1>5, RecordedStays
      DEF MqttTask, Mqtt!Task, Mqtt!TaskStops, Mqtt!LoopSucceeds, Mqtt!Refused, Mqtt!Lost,
          Mqtt!NoConnection, Mqtt!NoClient, Mqtt!LoopFails, Mqtt!session, tokenVars
<1>6. CASE MqttRecover
      BY <1>a, <1>6, RecordedStays
      DEF MqttRecover, Mqtt!Recover, Mqtt!LightReconnect, Mqtt!Reinitialise, Mqtt!Reconnected,
          Mqtt!AttemptFails, Mqtt!Exhausted, Mqtt!session, tokenVars
<1>7. CASE TokenExpires
      BY <1>a, <1>7, RecordedStays DEF TokenExpires, Token!Expire, mqttVars
<1>8. QED
      BY <1>1, <1>2, <1>3, <1>4, <1>5, <1>6, <1>7 DEF Next
-----------------------------------------------------------------------------
LEMMA StepInvariant == IInv /\ [Next]_vars => IInv'
<1> SUFFICES ASSUME IInv, [Next]_vars PROVE IInv'
    OBVIOUS
<1>a. /\ ClientInv /\ Token!TypeOK /\ Token!FileIsToken
      /\ faults \in 0..MaxFaults /\ mayFail \in FaultSets
      BY DEF IInv, TypeOK, AttemptsStartOver, FileIsToken, ClientInv, Token!TypeOK
<1>b. mayFail' \in FaultSets
  <2>1. mayFail' = mayFail
        BY DEF Next, Boot, StartFails, StartServices, RefreshToken, DiagnosticFails, MqttTask, MqttRecover,
           Terminated, TokenExpires, TimePasses, Offline, Online, vars
  <2>2. QED
        BY <1>a, <2>1
<1>c. ASSUME ClientInv', Token!TypeOK', Token!FileIsToken' PROVE IInv'
      BY <1>b, <1>c, RecordStep DEF IInv, TypeOK, AttemptsStartOver, FileIsToken, ClientInv
<1> USE DEF Token!TypeOK, Token!FileIsToken, tokenVars
<1>1. CASE Boot
      BY <1>1, <1>c, BootStep, OtherStep
<1>2. CASE StartServices
      BY <1>2, <1>a, <1>c, OtherStep, FaultType DEF StartServices, Mqtt!Start
<1>3. CASE RefreshToken
      BY <1>3, <1>c, RefreshStep, OtherStep
<1>4. CASE DiagnosticFails
      BY <1>4, <1>a, <1>c, OtherStep, FaultType DEF DiagnosticFails
<1>5. CASE MqttTask
      BY <1>5, <1>a, <1>c, TaskStep DEF MqttTask
<1>6. CASE MqttRecover
      BY <1>6, <1>a, <1>c, RecoverStep DEF MqttRecover
<1>7. CASE StartFails \/ \E kind \in Endings : Terminated(kind)
  <2>1. faults' \in 0..MaxFaults
        BY <1>7, <1>a, FaultType DEF StartFails, Terminated
  <2>2. /\ token' = 0 /\ UNCHANGED <<expired, online>> /\ issued' \in {issued, Token!NewToken}
        /\ file' \in {file, Junk, issued'}
        /\ UNCHANGED <<file, issued>> \/ issued' = Token!NewToken
        BY <1>7 DEF StartFails, Terminated, Token!CutOff
  <2>3. Token!NewToken \in 1..MaxTokens /\ expired \in 0..Token!NewToken
        BY <1>a DEF Token!NewToken
  <2>4. Token!TypeOK' /\ Token!FileIsToken'
        BY <1>a, <2>1, <2>2, <2>3 DEF Token!Tokens
  <2>5. QED
        BY <1>7, <2>4, <1>c, OtherStep
<1>8. CASE TimePasses
      BY <1>8, <1>a, <1>c, OtherStep DEF TimePasses, Mqtt!TimePasses
<1>9. CASE TokenExpires \/ Offline \/ Online \/ UNCHANGED vars
  <2>1. ClientInv'
        BY <1>9, <1>a DEF TokenExpires, Offline, Online, vars, mqttVars, ClientInv, Mqtt!TypeOK,
           SubscribedWhenAsked, Mqtt!AttemptsStartOver
  <2>2. Token!TypeOK' /\ Token!FileIsToken'
    <3>1. CASE TokenExpires
          BY <3>1, <1>a DEF TokenExpires, Token!Expire
    <3>2. CASE Offline
          BY <3>2, <1>a, FaultType DEF Offline
    <3>3. CASE Online \/ UNCHANGED vars
          BY <3>3, <1>a DEF Online, vars
    <3>4. QED
          BY <1>9, <3>1, <3>2, <3>3
  <2>3. QED
        BY <2>1, <2>2, <1>c
<1>10. QED
       BY <1>1, <1>2, <1>3, <1>4, <1>5, <1>6, <1>7, <1>8, <1>9 DEF Next
-----------------------------------------------------------------------------
\* Token and client keep their types, and the attempts their bound, for any
\* number of tokens, attempts and faults.
THEOREM TypeCorrect == Spec => []TypeOK
<1>1. IInv => TypeOK
      BY DEF IInv
<1>2. QED
      BY InitInvariant, StepInvariant, <1>1, PTL DEF Spec

\* What a restart finds on flash is the token that was in memory, whatever
\* requests fail or cannot be saved, or no token if flash was full: never an older
\* one (access_token.c:21-35, 304-314).
THEOREM TokenOnFlash == Spec => []FileIsToken
<1>1. IInv => FileIsToken
      BY DEF IInv
<1>2. QED
      BY InitInvariant, StepInvariant, <1>1, PTL DEF Spec

\* A session is subscribed to what was recorded from the CONNECT on, so that it is
\* when the broker accepts it (mqtt.c:191-202, 240, 307), and everything is recorded
\* if the first connection cannot end while the services start (mqtt.c:100-109).
THEOREM SessionsAreSubscribed == Spec => []SubscribedWhenUp
<1>1. IInv => SubscribedWhenUp
      BY Zenon DEF IInv, SubscribedWhenAsked, AllRecorded, SubscribedWhenUp, Mqtt!SubscribedWhenUp
<1>2. QED
      BY InitInvariant, StepInvariant, <1>1, PTL DEF Spec

\* Each outage has all the attempts, whatever earlier ones used up of the
\* static counter (mqtt.c:217, 243, 311).
THEOREM AttemptsAreGivenBack == Spec => []AttemptsStartOver
<1>1. IInv => AttemptsStartOver
      BY DEF IInv
<1>2. QED
      BY InitInvariant, StepInvariant, <1>1, PTL DEF Spec
=============================================================================
