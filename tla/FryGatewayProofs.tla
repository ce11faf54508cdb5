-------------------------- MODULE FryGatewayProofs --------------------------
(***************************************************************************)
(* What depends on the agent does not disturb it: FryGateway implements    *)
(* FryAgent, for any clients, events, tokens, attempts and faults, so that *)
(* the invariants of the agent hold in the composition as well.  And what  *)
(* the agent needs before it starts is there: its certificates match.      *)
(***************************************************************************)
EXTENDS FryGateway, FryAgentProofs, SequenceTheorems

\* A step of the router is one of the agent or leaves it alone.
LEMMA GatewayStep == [GatewayNext]_gatewayVars => [Next]_vars
<1> SUFFICES ASSUME [GatewayNext]_gatewayVars PROVE [Next]_vars
    OBVIOUS
<1>1. CASE Alone
      BY <1>1 DEF Alone, Next
<1>2. CASE GetCertificates \/ RotateCA \/ OpenPortal \/ RestartPortal \/ CheckContext \/ PortalEvent \/ ReadEvents
      BY <1>2 DEF GetCertificates, RotateCA, OpenPortal, RestartPortal, CheckContext, PortalEvent, ReadEvents
<1>3. CASE StartAll \/ NoCertificates
      BY <1>3 DEF StartAll, NoCertificates, Next
<1>4. CASE MqttLoop
      BY <1>4 DEF MqttLoop, Next
<1>5. CASE StopAll \/ Reboot
      BY <1>5 DEF StopAll, Reboot, Endings, Next
<1>6. CASE LendToken \/ RestartBorrower
      BY <1>6 DEF LendToken, RestartBorrower
<1>7. CASE UNCHANGED gatewayVars
      BY <1>7 DEF gatewayVars
<1>8. QED
      BY <1>1, <1>2, <1>3, <1>4, <1>5, <1>6, <1>7 DEF GatewayNext

\* Portal, site and borrower only ever see steps of the agent: none that FryAgent
\* does not have, and no wait of the agent for them but in its start.
THEOREM ImplementsFryAgent == GatewaySpec => Spec
<1>1. GatewayInit => Init
      BY DEF GatewayInit
<1>2. QED
      BY <1>1, GatewayStep, PTL DEF GatewaySpec, Spec

\* The token, the sessions and the attempts of the agent, on a router with a
\* portal and with fry-config (access_token.c:304-314, mqtt.c:191-313).
THEOREM AgentSafeOnGateway ==
  GatewaySpec => [](TypeOK /\ FileIsToken /\ SubscribedWhenUp /\ AttemptsStartOver)
BY ImplementsFryAgent, TypeCorrect, TokenOnFlash, SessionsAreSubscribed, AttemptsAreGivenBack, PTL
-----------------------------------------------------------------------------
\* The agent is past the certificates of its start.
Started == pc \notin {"off", "boot"}

\* The inductive invariant: a stage that is done leaves what it is there for, and
\* the agent only starts, and only schedules its client, with all of them done.
EnrolInv ==
  /\ Enrol!TypeOK
  /\ stage \in {2, 3, 4} => Enrol!Good("mqtt")
  /\ stage = 4 => Enrol!Good("radsec")
  /\ Started => stage = 4
  /\ scheduled => Started

\* Neither the stages nor the end of the process take from a certificate that the
\* other use has, and a stage that succeeds leaves the one it is there for.
LEMMA EnrolStep ==
  ASSUME EnrolInv, MaxCA \in Nat \ {0},
         Enrol!Fetched \/ Enrol!Kept \/ Enrol!Signed \/ Enrol!Fails \/ Enrol!Mismatched
         \/ Enrol!Ends \/ Enrol!Rotate
  PROVE  /\ Enrol!TypeOK'
         /\ stage' \in {2, 3, 4} => Enrol!Good("mqtt")'
         /\ stage' = 4 => Enrol!Good("radsec")'
<1> USE DEF EnrolInv, Enrol!TypeOK, Enrol!Good, Enrol!Uses, Enrol!use, Enrol!Fetching, Enrol!Signing
<1>a. /\ current \in 1..MaxCA /\ stage \in 0..4
      /\ ca \in [{"mqtt", "radsec"} -> 0..MaxCA]
      /\ cert \in [{"mqtt", "radsec"} -> [by : 0..MaxCA, ours : BOOLEAN]]
      /\ current # 0 /\ current \in 0..MaxCA
      OBVIOUS
<1>1. CASE Enrol!Fetched
  <2>1. CASE stage = 0
        BY <1>1, <1>a, <2>1 DEF Enrol!Fetched
  <2>2. CASE stage = 2
        BY <1>1, <1>a, <2>2 DEF Enrol!Fetched
  <2>3. QED
        BY <1>1, <2>1, <2>2 DEF Enrol!Fetched
<1>2. CASE Enrol!Kept
      BY <1>2, <1>a DEF Enrol!Kept
<1>3. CASE Enrol!Signed
  <2>1. [by |-> current, ours |-> TRUE] \in [by : 0..MaxCA, ours : BOOLEAN]
        BY <1>a
  <2>2. CASE stage = 1
        BY <1>3, <1>a, <2>1, <2>2 DEF Enrol!Signed
  <2>3. CASE stage = 3
        BY <1>3, <1>a, <2>1, <2>3 DEF Enrol!Signed
  <2>4. QED
        BY <1>3, <2>2, <2>3 DEF Enrol!Signed
<1>4. CASE Enrol!Fails \/ Enrol!Ends
  <2>1. stage' = 0 /\ current' = current
        BY <1>4 DEF Enrol!Fails, Enrol!Ends
  <2>2. /\ ca' \in [{"mqtt", "radsec"} -> 0..MaxCA]
        /\ cert' \in [{"mqtt", "radsec"} -> [by : 0..MaxCA, ours : BOOLEAN]]
    <3>1. CASE UNCHANGED <<ca, cert>>
          BY <3>1, <1>a
    <3>2. ASSUME NEW by \in {0, current, cert[Enrol!use].by}
          PROVE  [by |-> by, ours |-> FALSE] \in [by : 0..MaxCA, ours : BOOLEAN]
          BY <1>a, <3>2
    <3>3. CASE ca' = [ca EXCEPT ![Enrol!use] = 0] /\ UNCHANGED cert
          BY <3>3, <1>a
    <3>4. CASE /\ UNCHANGED ca
               /\ \E by \in {0, current, cert[Enrol!use].by} :
                    cert' = [cert EXCEPT ![Enrol!use] = [by |-> by, ours |-> FALSE]]
      <4>1. PICK by \in {0, current, cert[Enrol!use].by} :
              cert' = [cert EXCEPT ![Enrol!use] = [by |-> by, ours |-> FALSE]]
            BY <3>4
      <4>2. QED
            BY <3>4, <4>1, <3>2, <1>a
    <3>5. QED
          BY <1>4, <3>1, <3>3, <3>4 DEF Enrol!Fails, Enrol!Ends, Enrol!Spoilt
  <2>3. QED
        BY <2>1, <2>2, <1>a
<1>5. CASE Enrol!Mismatched
      BY <1>5, <1>a DEF Enrol!Mismatched
<1>6. CASE Enrol!Rotate
      BY <1>6, <1>a DEF Enrol!Rotate
<1>7. QED
      BY <1>1, <1>2, <1>3, <1>4, <1>5, <1>6

\* What the agent does by itself starts nothing.
LEMMA AloneStarts ==
  ASSUME EnrolInv, Alone \/ MqttTask
  PROVE  (Started' <=> Started) /\ (scheduled' => scheduled)
<1> USE DEF EnrolInv, Started, mqttVars, Mqtt!session, Mqtt!health, Mqtt!Reconnected, Mqtt!LoopFails
<1>1. CASE Alone /\ Boot
      BY <1>1 DEF Boot
<1>2. CASE Alone /\ (RefreshToken \/ DiagnosticFails \/ TokenExpires \/ TimePasses \/ Offline \/ Online)
      BY <1>2 DEF RefreshToken, Mqtt!TokenRefreshed, DiagnosticFails, TokenExpires, TimePasses,
         Mqtt!TimePasses, Offline, Online
<1>3. CASE Alone /\ MqttRecover
      BY <1>3 DEF MqttRecover, Mqtt!Recover, Mqtt!LightReconnect, Mqtt!Reinitialise, Mqtt!AttemptFails,
         Mqtt!Exhausted, Mqtt!Attempting
<1>4. CASE MqttTask
      BY <1>4 DEF MqttTask, Mqtt!Task, Mqtt!TaskStops, Mqtt!LoopSucceeds, Mqtt!Refused, Mqtt!Lost,
         Mqtt!NoConnection, Mqtt!NoClient, Mqtt!Running
<1>5. QED
      BY <1>1, <1>2, <1>3, <1>4 DEF Alone

\* Starts, changes of the CA and steps of everyone else keep it.
LEMMA EnrolInvariant == EnrolInv /\ [GatewayNext]_gatewayVars => EnrolInv'
<1> SUFFICES ASSUME EnrolInv, [GatewayNext]_gatewayVars PROVE EnrolInv'
    OBVIOUS
<1>a. MaxCA \in Nat \ {0}
      BY FryGatewayAssumption DEF Enrol!EnrolmentAssumption
<1>b. ASSUME UNCHANGED enrolVars, Started' <=> Started, scheduled' => scheduled PROVE EnrolInv'
      BY <1>b DEF EnrolInv, Enrol!TypeOK, Enrol!Good, enrolVars
<1>1. CASE Alone \/ MqttLoop
      BY <1>1, <1>b, AloneStarts DEF Alone, MqttLoop, around
<1>2. CASE GetCertificates
  <2>1. ~Started /\ UNCHANGED <<pc, scheduled>>
        BY <1>2 DEF GetCertificates, Started, vars, mqttVars
  <2>2. QED
        BY <1>2, <1>a, <2>1, EnrolStep DEF GetCertificates, EnrolInv, Started
<1>3. CASE RotateCA
  <2>1. UNCHANGED <<pc, scheduled, stage>>
        BY <1>3 DEF RotateCA, Enrol!Rotate, vars, mqttVars
  <2>2. QED
        BY <1>3, <1>a, <2>1, EnrolStep DEF RotateCA, EnrolInv, Started
<1>4. CASE NoCertificates \/ StopAll \/ Reboot
  <2>1. ~Started' /\ ~scheduled'
        BY <1>4 DEF NoCertificates, StartFails, StopAll, Reboot, Terminated, Mqtt!Stop, Started
  <2>2. QED
        BY <1>4, <1>a, <2>1, EnrolStep DEF NoCertificates, StopAll, Reboot, EnrolInv
<1>5. CASE StartAll
      BY <1>5 DEF StartAll, StartServices, Mqtt!Start, EnrolInv, Enrol!Ready, Enrol!TypeOK, Enrol!Good,
         enrolVars, Started
<1>6. CASE OpenPortal \/ RestartPortal \/ CheckContext \/ PortalEvent \/ ReadEvents
      BY <1>6, <1>b DEF OpenPortal, RestartPortal, CheckContext, PortalEvent, ReadEvents, vars, mqttVars,
         Started
<1>7. CASE LendToken \/ RestartBorrower \/ UNCHANGED gatewayVars
      BY <1>7, <1>b DEF LendToken, RestartBorrower, gatewayVars, around, vars, mqttVars, Started
<1>8. QED
      BY <1>1, <1>2, <1>3, <1>4, <1>5, <1>6, <1>7 DEF GatewayNext

\* No stage is finished at the start.
LEMMA EnrolInit == GatewayInit => EnrolInv
BY FryGatewayAssumption DEF GatewayInit, Init, Enrol!Init, EnrolInv, Enrol!TypeOK, Enrol!Uses,
   Enrol!EnrolmentAssumption, Started

\* While the services run, each certificate on flash is one of the key on flash and
\* signed by the CA on flash (mqtt/cert.c:91-168), after any number of starts that
\* failed or were interrupted and of changes of the CA.
THEOREM CredentialsAlwaysMatch == GatewaySpec => []CredentialsMatch
<1>1. EnrolInv => CredentialsMatch
      BY DEF EnrolInv, CredentialsMatch, Enrol!TypeOK, Enrol!Good, Enrol!Uses, Started
<1>2. QED
      BY <1>1, EnrolInit, EnrolInvariant, PTL DEF GatewaySpec
-----------------------------------------------------------------------------
\* A sequence whose elements are in the order of their times, from lo to hi.
Sorted(time, s)      == \A i, j \in DOMAIN s : i <= j => time[s[i]] <= time[s[j]]
Within(time, s, lo, hi) == \A i \in DOMAIN s : lo <= time[s[i]] /\ time[s[i]] <= hi

\* What one sequence after another consists of.
LEMMA Joined ==
  ASSUME NEW S, NEW s \in Seq(S), NEW t \in Seq(S)
  PROVE  /\ s \o t \in Seq(S)
         /\ \A i \in DOMAIN s : i \in DOMAIN (s \o t) /\ (s \o t)[i] = s[i]
         /\ \A i \in DOMAIN (s \o t) :
              \/ i \in DOMAIN s /\ (s \o t)[i] = s[i]
              \/ \E j \in DOMAIN t : i = Len(s) + j /\ (s \o t)[i] = t[j]
<1> DEFINE m == Len(s)
           n == Len(t)
           u == s \o t
<1>1. /\ m \in Nat /\ n \in Nat /\ DOMAIN s = 1..m /\ DOMAIN t = 1..n
      /\ u \in Seq(S) /\ DOMAIN u = 1..m + n
      BY ConcatProperties, LenProperties
<1>2. \A i \in 1..m + n : u[i] = IF i <= m THEN s[i] ELSE t[i - m]
      BY ConcatProperties
<1> HIDE DEF m, n, u
<1>3. ASSUME NEW i \in 1..m + n
      PROVE  (i \in 1..m /\ u[i] = s[i]) \/ \E j \in 1..n : i = m + j /\ u[i] = t[j]
  <2>1. CASE i <= m
        BY <1>1, <1>2, <2>1
  <2>2. CASE ~(i <= m)
    <3>1. i - m \in 1..n /\ i = m + (i - m) /\ u[i] = t[i - m]
          BY <1>1, <1>2, <2>2
    <3>2. QED
          BY <3>1
  <2>3. QED
        BY <2>1, <2>2
<1>4. \A i \in 1..m : i \in 1..m + n /\ u[i] = s[i]
      BY <1>1, <1>2
<1>5. QED
      BY <1>1, <1>3, <1>4 DEF m, n, u

\* One sequence after another is in order if the second begins no earlier than
\* the first ends.
LEMMA JoinedInOrder ==
  ASSUME NEW S, NEW time \in [S -> Nat], NEW s \in Seq(S), NEW t \in Seq(S),
         NEW lo \in Nat, NEW mid \in Nat, NEW hi \in Nat,
         Sorted(time, s), Within(time, s, lo, mid), Sorted(time, t), Within(time, t, mid, hi),
         lo <= mid, mid <= hi
  PROVE  Sorted(time, s \o t) /\ Within(time, s \o t, lo, hi)
<1> DEFINE m == Len(s)
           u == s \o t
<1>1. /\ m \in Nat /\ DOMAIN s = 1..m /\ DOMAIN t = 1..Len(t) /\ Len(t) \in Nat
      /\ \A i \in DOMAIN s : s[i] \in S
      /\ \A i \in DOMAIN t : t[i] \in S
      BY LenProperties, ElementOfSeq
<1>2. \A i \in DOMAIN u : \/ i \in DOMAIN s /\ u[i] = s[i]
                          \/ \E j \in DOMAIN t : i = m + j /\ u[i] = t[j]
      BY Joined
<1> HIDE DEF m, u
<1>3. \A i \in DOMAIN s : time[s[i]] \in Nat /\ lo <= time[s[i]] /\ time[s[i]] <= mid
      BY <1>1 DEF Within
<1>4. \A i \in DOMAIN t : time[t[i]] \in Nat /\ mid <= time[t[i]] /\ time[t[i]] <= hi
      BY <1>1 DEF Within
<1>5. Within(time, u, lo, hi)
  <2> SUFFICES ASSUME NEW i \in DOMAIN u PROVE lo <= time[u[i]] /\ time[u[i]] <= hi
      BY DEF Within
  <2>1. CASE i \in DOMAIN s /\ u[i] = s[i]
        BY <1>3, <2>1
  <2>2. CASE \E j \in DOMAIN t : u[i] = t[j]
        BY <1>4, <2>2
  <2>3. QED
        BY <1>2, <2>1, <2>2
<1>6. Sorted(time, u)
  <2> SUFFICES ASSUME NEW i \in DOMAIN u, NEW j \in DOMAIN u, i <= j
               PROVE  time[u[i]] <= time[u[j]]
      BY DEF Sorted
  <2>1. CASE i \in DOMAIN s /\ u[i] = s[i] /\ j \in DOMAIN s /\ u[j] = s[j]
        BY <2>1 DEF Sorted
  <2>2. CASE i \in DOMAIN s /\ u[i] = s[i] /\ \E y \in DOMAIN t : u[j] = t[y]
        BY <1>3, <1>4, <2>2
  <2>3. ASSUME NEW x \in DOMAIN t, i = m + x, j \in DOMAIN s PROVE FALSE
        BY <1>1, <2>3
  <2>4. ASSUME NEW x \in DOMAIN t, i = m + x, u[i] = t[x],
               NEW y \in DOMAIN t, j = m + y, u[j] = t[y]
        PROVE  time[u[i]] <= time[u[j]]
    <3>1. x <= y
          BY <1>1, <2>4
    <3>2. QED
          BY <2>4, <3>1 DEF Sorted
  <2>5. QED
        BY <1>2, <2>1, <2>2, <2>3, <2>4
<1>7. QED
      BY <1>5, <1>6 DEF u

\* What is left when the first k elements are taken.
LEMMA Rest ==
  ASSUME NEW S, NEW time \in [S -> Nat], NEW s \in Seq(S), NEW k \in 0..Len(s),
         NEW lo \in Nat, NEW hi \in Nat, Sorted(time, s), Within(time, s, lo, hi)
  PROVE  /\ SubSeq(s, k + 1, Len(s)) \in Seq(S)
         /\ Sorted(time, SubSeq(s, k + 1, Len(s)))
         /\ Within(time, SubSeq(s, k + 1, Len(s)), lo, hi)
         /\ \A i \in DOMAIN SubSeq(s, k + 1, Len(s)) :
              k + i \in DOMAIN s /\ SubSeq(s, k + 1, Len(s))[i] = s[k + i]
<1> DEFINE n == Len(s)
           a == k + 1
           r == SubSeq(s, a, n)
<1>1. n \in Nat /\ DOMAIN s = 1..n /\ \A i \in 1..n : s[i] \in S
      BY LenProperties, ElementOfSeq
<1>2. k \in 0..n /\ a \in 1..n + 1 /\ a = k + 1
      BY <1>1
<1> HIDE DEF n, a, r
<1>3. /\ r \in Seq(S) /\ Len(r) = IF a <= n THEN n - a + 1 ELSE 0
      /\ \A i \in 1..n - a + 1 : r[i] = s[a + i - 1]
      BY <1>1, <1>2, SubSeqProperties DEF r
<1>4. DOMAIN r = 1..Len(r)
      BY <1>3, LenProperties
<1>5. ASSUME NEW i \in DOMAIN r
      PROVE  i \in 1..n - a + 1 /\ k + i \in 1..n /\ a + i - 1 = k + i
  <2>1. CASE a <= n
        BY <1>1, <1>2, <1>3, <1>4, <2>1
  <2>2. CASE ~(a <= n)
    <3>1. DOMAIN r = {}
          BY <1>3, <1>4, <2>2
    <3>2. QED
          BY <3>1
  <2>3. QED
        BY <2>1, <2>2
<1>6. \A i \in DOMAIN r : k + i \in DOMAIN s /\ r[i] = s[k + i]
      BY <1>1, <1>3, <1>5
<1>7. Within(time, r, lo, hi)
      BY <1>6 DEF Within
<1>8. Sorted(time, r)
  <2> SUFFICES ASSUME NEW i \in DOMAIN r, NEW j \in DOMAIN r, i <= j
               PROVE  time[r[i]] <= time[r[j]]
      BY DEF Sorted
  <2>1. k + i <= k + j
        BY <1>2, <1>4, <1>5
  <2>2. QED
        BY <1>6, <2>1 DEF Sorted
<1>9. QED
      BY <1>3, <1>6, <1>7, <1>8 DEF r, a, n
-----------------------------------------------------------------------------
\* The pieces and the lines of events, and the event that each is of.
Piece     == (Nat \ {0}) \X {"head", "tail"}
WireLine  == [event : Nat \ {0}, whole : BOOLEAN]
PieceTime == [p \in Piece |-> p[1]]
LineTime  == [l \in WireLine |-> l.event]

\* Pieces and lines have the time of the event they tell of.
LEMMA Times == PieceTime \in [Piece -> Nat] /\ LineTime \in [WireLine -> Nat]
BY DEF Piece, WireLine, PieceTime, LineTime

\* What the script writes of one event.
LEMMA OneLine ==
  ASSUME NEW n \in Nat \ {0}, NEW lo \in 0..n
  PROVE  /\ Nds!Line(n) \in Seq(Piece) /\ Len(Nds!Line(n)) = 2
         /\ Sorted(PieceTime, Nds!Line(n)) /\ Within(PieceTime, Nds!Line(n), lo, n)
<1>1. <<n, "head">> \in Piece /\ <<n, "tail">> \in Piece
      BY DEF Piece
<1>2. PieceTime[<<n, "head">>] = n /\ PieceTime[<<n, "tail">>] = n
      BY <1>1 DEF PieceTime
<1>3. /\ Nds!Line(n) \in Seq(Piece) /\ DOMAIN Nds!Line(n) = 1..2 /\ Len(Nds!Line(n)) = 2
      /\ \A i \in 1..2 : Nds!Line(n)[i] = <<n, "head">> \/ Nds!Line(n)[i] = <<n, "tail">>
      BY <1>1 DEF Nds!Line
<1>4. \A i \in DOMAIN Nds!Line(n) : PieceTime[Nds!Line(n)[i]] = n
      BY <1>2, <1>3
<1>5. QED
      BY <1>3, <1>4 DEF Sorted, Within

\* The lines that the agent finds in what it read are as old as the pieces, and
\* in their order.
LEMMA LinesRead ==
  ASSUME Nds!Available \in Seq(Piece), NEW k \in 0..Len(Nds!Available),
         NEW lo \in Nat, NEW hi \in Nat, NEW upto \in Nat,
         Sorted(PieceTime, Nds!Available), Within(PieceTime, Nds!Available, lo, hi),
         \A i \in 1..k : PieceTime[Nds!Available[i]] <= upto
  PROVE  /\ Nds!Lines(k) \in Seq(WireLine)
         /\ Sorted(LineTime, Nds!Lines(k)) /\ Within(LineTime, Nds!Lines(k), lo, upto)
<1> DEFINE av    == Nds!Available
           rest  == IF k > 0 /\ av[1][2] = "tail" THEN 1 ELSE 0
           h     == (k - rest + 1) \div 2
           lines == Nds!Lines(k)
<1>1. /\ k \in Nat /\ rest \in {0, 1} /\ rest <= k
      /\ Len(av) \in Nat /\ k <= Len(av) /\ DOMAIN av = 1..Len(av)
      /\ \A i \in 1..Len(av) : av[i] \in Piece
      BY LenProperties, ElementOfSeq
<1>2. lines = [i \in 1..h |-> [event |-> av[2 * i - 1 + rest][1], whole |-> 2 * i + rest <= k]]
      BY DEF Nds!Lines
<1> HIDE DEF av, rest, lines
<1>3. h \in Nat /\ 2 * h <= k - rest + 1
      BY <1>1
<1> HIDE DEF h
<1>4. ASSUME NEW i \in 1..h
      PROVE  /\ 2 * i - 1 + rest \in 1..k /\ 2 * i - 1 + rest \in DOMAIN av
             /\ lines[i] \in WireLine
             /\ LineTime[lines[i]] = PieceTime[av[2 * i - 1 + rest]]
  <2>1. 2 * i - 1 + rest \in 1..k
        BY <1>1, <1>3
  <2>2. 2 * i - 1 + rest \in 1..Len(av)
        BY <1>1, <2>1
  <2>3. PICK x \in DOMAIN av : x = 2 * i - 1 + rest
        BY <1>1, <2>2
  <2>4. av[x] \in Piece /\ av[x][1] \in Nat \ {0} /\ PieceTime[av[x]] = av[x][1]
        BY <1>1 DEF Piece, PieceTime
  <2>5. lines[i] = [event |-> av[x][1], whole |-> 2 * i + rest <= k]
        BY <1>2, <2>3
  <2>6. (2 * i + rest <= k) \in BOOLEAN
        OBVIOUS
  <2>7. lines[i] \in WireLine /\ lines[i].event = av[x][1]
        BY <2>4, <2>5, <2>6 DEF WireLine
  <2>8. LineTime[lines[i]] = PieceTime[av[x]]
        BY <2>4, <2>7 DEF LineTime
  <2>9. QED
        BY <2>1, <2>3, <2>7, <2>8
<1>5. lines \in Seq(WireLine) /\ DOMAIN lines = 1..h
      BY <1>2, <1>3, <1>4
<1>6. Within(LineTime, lines, lo, upto)
      BY <1>4, <1>5 DEF Within, av
<1>7. Sorted(LineTime, lines)
  <2> SUFFICES ASSUME NEW i \in 1..h, NEW j \in 1..h, i <= j
               PROVE  LineTime[lines[i]] <= LineTime[lines[j]]
      BY <1>5 DEF Sorted
  <2>1. 2 * i - 1 + rest <= 2 * j - 1 + rest
        BY <1>1, <1>3
  <2>2. QED
        BY <1>4, <2>1 DEF Sorted, av
<1>8. QED
      BY <1>5, <1>6, <1>7 DEF lines
-----------------------------------------------------------------------------
\* The last event.
Latest == Len(happened)

\* What the portal, its script and the reader leave between their steps: a regular
\* file holds the last event and nothing else, only the last event waits, and
\* there is something in the FIFO only while it is read.
PortalInv ==
  /\ happened \in Seq([client : Clients, came : BOOLEAN])
  /\ authed \subseteq Clients
  /\ waiting \in {0, Latest}
  /\ path \in {"absent", "none", "fifo", "file"}
  /\ IF path = "file" THEN Latest # 0 /\ content = Nds!Line(Latest) ELSE content = << >>
  /\ pipe \in Seq(Piece)
  /\ reader \in {"none", "fifo", "file"}
  /\ reader # "none" => reader = path
  /\ reader # "fifo" => pipe = << >>
  /\ binauth \in BOOLEAN /\ (reader = "none" <=> ~binauth)
  /\ offset \in 0..Len(content)
  /\ pending \subseteq 1..Latest

\* The events that were handled, those on their way to the agent, and those in the
\* FIFO follow each other: there are moments that divide them.
Flow(low, mid) ==
  /\ low \in Nat /\ mid \in Nat /\ low <= mid /\ mid <= Latest
  /\ \A c \in Clients : known[c] <= low
  /\ Sorted(LineTime, wire) /\ Within(LineTime, wire, low, mid)
  /\ Sorted(PieceTime, pipe) /\ Within(PieceTime, pipe, mid, Latest)

SiteInv ==
  /\ site \in BOOLEAN /\ listening \in BOOLEAN
  /\ wire \in Seq(WireLine)
  /\ known \in [Clients -> Nat]
  /\ welcome \subseteq Clients \cup {Junk}
  /\ \A c \in welcome \cap Clients : known[c] \in 1..Latest /\ happened[known[c]].came

RouterInv == PortalInv /\ SiteInv /\ \E low, mid \in Nat : Flow(low, mid)

\* Nothing is under way at the start.
LEMMA RouterInit == Nds!Init /\ Site!Init => RouterInv
<1> SUFFICES ASSUME Nds!Init, Site!Init PROVE RouterInv
    OBVIOUS
<1>1. PortalInv
  <2>1. /\ happened \in Seq([client : Clients, came : BOOLEAN]) /\ pipe \in Seq(Piece)
        /\ Len(happened) = 0 /\ Len(content) = 0
        BY EmptySeq DEF Nds!Init
  <2>2. authed \subseteq Clients /\ pending \subseteq 1..Latest /\ offset \in 0..Len(content)
        BY <2>1 DEF Nds!Init
  <2>3. path # "file" /\ waiting = 0 /\ content = << >> /\ pipe = << >>
        BY DEF Nds!Init
  <2>4. QED
        BY <2>1, <2>2, <2>3, Zenon DEF Nds!Init, PortalInv
<1>2. SiteInv
  <2>1. wire \in Seq(WireLine) /\ known \in [Clients -> Nat] /\ welcome = {}
        BY EmptySeq DEF Site!Init
  <2>2. QED
        BY <2>1, Zenon DEF Site!Init, SiteInv
<1>3. Flow(0, 0)
      BY DEF Nds!Init, Site!Init, Flow, Latest, Sorted, Within
<1>4. QED
      BY <1>1, <1>2, <1>3 DEF RouterInv

\* An event happens and the script tells it.
LEMMA TellStep ==
  ASSUME RouterInv, waiting = 0, NEW c \in Clients, NEW came \in BOOLEAN,
         happened' = Append(happened, [client |-> c, came |-> came]),
         authed' \subseteq Clients, Nds!Tell(Len(happened')),
         UNCHANGED <<reader, binauth, offset, siteVars>>
  PROVE  RouterInv'
<1> DEFINE n == Latest + 1
<1>1. /\ Latest \in Nat /\ happened' \in Seq([client : Clients, came : BOOLEAN])
      /\ Latest' = n /\ Len(happened') = n
      /\ \A e \in 1..Latest : happened'[e] = happened[e]
  <2>1. happened \in Seq([client : Clients, came : BOOLEAN])
        BY DEF RouterInv, PortalInv
  <2>2. [client |-> c, came |-> came] \in [client : Clients, came : BOOLEAN]
        OBVIOUS
  <2>3. QED
        BY <2>1, <2>2, AppendProperties, LenProperties DEF Latest
<1> HIDE DEF n
<1>n. n \in Nat \ {0} /\ n = Latest + 1
      BY <1>1 DEF n
<1>2. PICK low \in Nat, mid \in Nat : Flow(low, mid)
      BY DEF RouterInv
<1>3. SiteInv'
  <2>1. \A e \in 1..Latest : e \in 1..n
        BY <1>1, <1>n
  <2>2. QED
        BY <1>1, <2>1 DEF RouterInv, SiteInv, siteVars
<1>4. low <= mid /\ mid <= n
      BY <1>1, <1>2, <1>n DEF Flow
<1>5. ASSUME Sorted(PieceTime, pipe'), Within(PieceTime, pipe', mid, n) PROVE Flow(low, mid)'
      BY <1>1, <1>2, <1>4, <1>5 DEF Flow, siteVars
<1>6. PortalInv
      BY DEF RouterInv
<1>7. pending \subseteq 1..n /\ n \in 1..n
      BY <1>1, <1>6, <1>n DEF PortalInv
<1>8. \A i \in DOMAIN pipe : pipe[i] \in Piece
      BY <1>6, ElementOfSeq, LenProperties DEF PortalInv
<1>9. Within(PieceTime, pipe, mid, n) /\ Sorted(PieceTime, pipe)
  <2>1. \A i \in DOMAIN pipe : PieceTime[pipe[i]] \in Nat
        BY <1>8, Times
  <2>2. QED
        BY <1>1, <1>2, <1>n, <2>1 DEF Flow, Within
<1>a. CASE path = "absent" /\ UNCHANGED <<waiting, path, content, pipe, pending>>
  <2>1. PortalInv'
        BY <1>1, <1>6, <1>7, <1>a DEF PortalInv
  <2>2. QED
        BY <1>3, <1>5, <1>9, <1>a, <2>1, <1>2 DEF RouterInv
<1>b. CASE /\ path \in {"none", "file"} /\ path' = "file" /\ content' = Nds!Line(n)
           /\ pending' \in {pending, pending \cup {n}} /\ UNCHANGED <<waiting, pipe>>
  <2>1. Len(content') = 2 /\ offset' \in 0..2
    <3>1. Len(content) = 0 \/ Len(content) = 2
      <4>1. CASE path = "file"
            BY <1>1, <1>6, <4>1, OneLine DEF PortalInv
      <4>2. CASE path # "file"
            BY <1>6, <4>2 DEF PortalInv
      <4>3. QED
            BY <4>1, <4>2
    <3>2. Len(content') = 2
          BY <1>b, <1>n, OneLine
    <3>3. offset' = offset /\ offset \in 0..Len(content)
          BY <1>6 DEF PortalInv
    <3>4. offset \in 0..2
      <4>1. \A l : l = 0 \/ l = 2 => 0..l \subseteq 0..2
            OBVIOUS
      <4>2. QED
            BY <3>1, <3>3, <4>1, Zenon
    <3>5. QED
          BY <3>2, <3>3, <3>4
  <2>2. PortalInv'
        BY <1>1, <1>6, <1>7, <1>b, <2>1, <1>n DEF PortalInv
  <2>3. QED
        BY <1>3, <1>5, <1>9, <1>b, <2>2, <1>2 DEF RouterInv
<1>c. CASE path = "fifo" /\ reader = "none" /\ waiting' = n /\ UNCHANGED <<path, content, pipe, pending>>
  <2>1. PortalInv'
        BY <1>1, <1>6, <1>7, <1>c DEF PortalInv
  <2>2. QED
        BY <1>3, <1>5, <1>9, <1>c, <2>1, <1>2 DEF RouterInv
<1>d. CASE /\ path = "fifo" /\ reader # "none"
           /\ pipe' = pipe \o Nds!Line(n) /\ pending' = pending \cup {n}
           /\ UNCHANGED <<waiting, path, content>>
  <2>1. pipe \in Seq(Piece) /\ Within(PieceTime, pipe, mid, Latest)
        BY <1>2, <1>6 DEF Flow, PortalInv
  <2>2. /\ Nds!Line(n) \in Seq(Piece) /\ Sorted(PieceTime, Nds!Line(n))
        /\ Within(PieceTime, Nds!Line(n), n, n)
        BY <1>n, OneLine
  <2>3. pipe' \in Seq(Piece)
        BY <1>d, <2>1, <2>2, Joined
  <2>4. Sorted(PieceTime, pipe') /\ Within(PieceTime, pipe', mid, n)
        BY <1>d, <1>4, <1>9, <1>n, <2>1, <2>2, JoinedInOrder, Times
  <2>5. PortalInv'
        BY <1>1, <1>6, <1>7, <1>d, <2>3 DEF PortalInv
  <2>6. QED
        BY <1>3, <1>5, <2>4, <2>5, <1>2 DEF RouterInv
<1>10. QED
  <2>1. Nds!Tell(n)
        BY <1>1
  <2>2. QED
        BY <1>a, <1>b, <1>c, <1>d, <2>1 DEF Nds!Tell, Nds!Rewritten

\* The agent opens what is there, and releases the script that waits.
LEMMA OpenStep ==
  ASSUME RouterInv, Nds!Open, ~binauth, UNCHANGED siteVars
  PROVE  RouterInv'
<1>1. PICK low \in Nat, mid \in Nat : Flow(low, mid)
      BY DEF RouterInv
<1>2. /\ PortalInv /\ reader = "none" /\ pipe = << >>
      /\ UNCHANGED <<happened, authed, content>> /\ Latest' = Latest
      BY DEF RouterInv, PortalInv, Nds!Open, Nds!portal, Latest
<1>3. Latest \in Nat
      BY <1>2, LenProperties DEF PortalInv, Latest
<1>4. SiteInv'
      BY <1>2 DEF RouterInv, SiteInv, siteVars
<1>5. ASSUME Sorted(PieceTime, pipe'), Within(PieceTime, pipe', mid, Latest) PROVE Flow(low, mid)'
      BY <1>1, <1>2, <1>5 DEF Flow, siteVars
<1>6. 0 \in 0..Len(content)
      BY <1>2 DEF PortalInv
<1>7. reader' \in {"fifo", "file"} /\ path' = reader' /\ (reader' = "file" <=> path = "file")
      BY <1>2 DEF Nds!Open, Nds!Opened, PortalInv
<1>8. CASE waiting # 0 /\ reader' = "fifo"
  <2>1. waiting = Latest /\ Latest \in Nat \ {0} /\ mid \in 0..Latest
        BY <1>1, <1>2, <1>3, <1>8 DEF PortalInv, Flow
  <2>2. pipe' = Nds!Line(Latest) /\ pending' = {Latest} /\ waiting' = 0 /\ Latest \in 1..Latest
        BY <1>8, <2>1 DEF Nds!Open
  <2>3. /\ pipe' \in Seq(Piece) /\ Sorted(PieceTime, pipe')
        /\ Within(PieceTime, pipe', mid, Latest)
        BY <2>1, <2>2, OneLine
  <2>4. PortalInv'
        BY <1>2, <1>6, <1>7, <1>8, <2>2, <2>3 DEF PortalInv, Nds!Open
  <2>5. QED
        BY <1>4, <1>5, <2>3, <2>4, <1>1 DEF RouterInv
<1>9. CASE ~(waiting # 0 /\ reader' = "fifo")
  <2>1. UNCHANGED <<pipe, pending, waiting>>
        BY <1>9 DEF Nds!Open
  <2>2. PortalInv'
        BY <1>2, <1>6, <1>7, <2>1 DEF PortalInv, Nds!Open
  <2>3. Flow(low, mid)'
        BY <1>1, <1>5, <2>1 DEF Flow
  <2>4. QED
        BY <1>1, <1>4, <2>2, <2>3 DEF RouterInv
<1>10. QED
      BY <1>8, <1>9

\* The reader closes what it has open, in order or not; the script may go on to
\* wait, and an exit in order leaves neither FIFO nor file.
LEMMA ClosedStep ==
  ASSUME RouterInv, Nds!Clean \/ Nds!Killed \/ Nds!Rebooted,
         wire' = << >>, site' \in BOOLEAN, listening' \in BOOLEAN, UNCHANGED <<welcome, known>>
  PROVE  RouterInv'
<1>1. PICK low \in Nat, mid \in Nat : Flow(low, mid)
      BY DEF RouterInv
<1>2. /\ PortalInv /\ happened' = happened /\ Latest' = Latest /\ authed' \subseteq Clients
      /\ reader' = "none" /\ binauth' = FALSE /\ offset' = 0 /\ pipe' = << >> /\ pending' = {}
      /\ waiting' \in {0, waiting}
      /\ \/ path' \in {"absent", "none"} /\ content' = << >>
         \/ UNCHANGED <<path, content>>
      BY DEF RouterInv, PortalInv, Nds!Clean, Nds!Killed, Nds!Rebooted, Nds!Closed, Nds!portal, Latest
<1>3. 0 \in 0..Len(content')
  <2>1. content \in {<< >>, Nds!Line(Latest)} /\ (content # << >> => Latest \in Nat \ {0})
        BY <1>2, LenProperties DEF PortalInv, Latest
  <2>2. Len(content) \in Nat /\ Len(<< >>) \in Nat
        BY <2>1, OneLine, EmptySeq
  <2>3. content' \in {<< >>, content}
        BY <1>2
  <2>4. QED
        BY <2>2, <2>3
<1>4. pipe' \in Seq(Piece) /\ wire' \in Seq(WireLine)
      BY <1>2, EmptySeq
<1>5. PortalInv'
      BY <1>2, <1>3, <1>4, Zenon DEF PortalInv
<1>6. SiteInv'
      BY <1>2, <1>4 DEF RouterInv, SiteInv
<1>7. Flow(low, mid)'
      BY <1>1, <1>2 DEF Flow, Sorted, Within
<1>8. QED
      BY <1>5, <1>6, <1>7 DEF RouterInv

\* The connection or the process that would have handled the wire is gone, or the
\* site is learnt.
LEMMA WireLost ==
  ASSUME RouterInv, UNCHANGED ndsVars, wire' \in {<< >>, wire}, UNCHANGED <<welcome, known>>,
         site' \in BOOLEAN, listening' \in BOOLEAN
  PROVE  RouterInv'
<1>1. PICK low \in Nat, mid \in Nat : Flow(low, mid)
      BY DEF RouterInv
<1>2. PortalInv' /\ Latest' = Latest /\ UNCHANGED <<happened, pipe>>
      BY DEF RouterInv, PortalInv, ndsVars, Latest
<1>3. wire' \in Seq(WireLine)
      BY EmptySeq DEF RouterInv, SiteInv
<1>4. SiteInv'
      BY <1>2, <1>3 DEF RouterInv, SiteInv
<1>5. Flow(low, mid)'
      BY <1>1, <1>2 DEF Flow, Sorted, Within
<1>6. QED
      BY <1>2, <1>4, <1>5 DEF RouterInv

\* What is within narrower limits is within wider ones.
LEMMA Wider ==
  ASSUME NEW S, NEW time \in [S -> Nat], NEW s \in Seq(S), NEW lo \in Nat, NEW hi \in Nat,
         NEW low \in Nat, NEW high \in Nat, low <= lo, hi <= high, Within(time, s, lo, hi)
  PROVE  Within(time, s, low, high)
<1>1. \A i \in DOMAIN s : time[s[i]] \in Nat
      BY ElementOfSeq, LenProperties
<1>2. QED
      BY <1>1 DEF Within

\* A read of the FIFO.
LEMMA ReadFifo ==
  ASSUME RouterInv, NEW k \in 0..Len(Nds!Available), Nds!Read(k), reader = "fifo",
         wire' \in {wire, wire \o Nds!Lines(k)}, UNCHANGED <<site, listening, welcome, known>>
  PROVE  RouterInv'
<1>1. PICK low \in Nat, mid \in Nat : Flow(low, mid)
      BY DEF RouterInv
<1>2. /\ PortalInv /\ SiteInv /\ Nds!Available = pipe /\ pipe \in Seq(Piece)
      /\ k \in 0..Len(pipe) /\ Len(pipe) \in Nat /\ DOMAIN pipe = 1..Len(pipe)
      /\ pipe' = SubSeq(pipe, k + 1, Len(pipe)) /\ offset' = offset /\ pending' \subseteq pending
      /\ UNCHANGED <<happened, authed, waiting, path, content, reader, binauth>> /\ Latest' = Latest
      BY LenProperties DEF RouterInv, PortalInv, Nds!Read, Nds!Available, Nds!portal, Latest
<1>3. Latest \in Nat
      BY <1>2, LenProperties DEF PortalInv, Latest
<1>4. /\ pipe' \in Seq(Piece) /\ Sorted(PieceTime, pipe') /\ Within(PieceTime, pipe', mid, Latest)
      /\ \A i \in DOMAIN pipe' : k + i \in DOMAIN pipe /\ pipe'[i] = pipe[k + i]
  <2> DEFINE left == SubSeq(pipe, k + 1, Len(pipe))
  <2>1. Sorted(PieceTime, pipe) /\ Within(PieceTime, pipe, mid, Latest)
        BY <1>1 DEF Flow
  <2>2. /\ left \in Seq(Piece) /\ Sorted(PieceTime, left) /\ Within(PieceTime, left, mid, Latest)
        /\ \A i \in DOMAIN left : k + i \in DOMAIN pipe /\ left[i] = pipe[k + i]
    <3>1. /\ pipe \in Seq(Piece) /\ k \in 0..Len(pipe) /\ PieceTime \in [Piece -> Nat]
          /\ mid \in Nat /\ Latest \in Nat
          BY <1>2, <1>3, Times
    <3>2. QED
          BY <2>1, <3>1, Rest
  <2>3. pipe' = left
        BY <1>2
  <2> HIDE DEF left
  <2>4. QED
        BY <2>2, <2>3
<1>5. PortalInv'
      BY <1>2, <1>4 DEF PortalInv
<1> DEFINE upto == IF k = 0 THEN mid ELSE PieceTime[pipe[k]]
<1>6. \A i \in DOMAIN pipe : PieceTime[pipe[i]] \in Nat
      BY <1>2, Times, ElementOfSeq
<1>7. upto \in Nat /\ mid <= upto /\ upto <= Latest
  <2>1. CASE k = 0
        BY <1>1, <2>1 DEF Flow
  <2>2. CASE k # 0
    <3>1. k \in DOMAIN pipe
          BY <1>2, <2>2
    <3>2. QED
          BY <1>1, <1>6, <2>2, <3>1 DEF Flow, Within
  <2>3. QED
        BY <2>1, <2>2
<1>8. \A i \in 1..k : PieceTime[pipe[i]] <= upto
  <2> SUFFICES ASSUME NEW i \in 1..k PROVE PieceTime[pipe[i]] <= PieceTime[pipe[k]]
      BY <1>2
  <2>1. i \in DOMAIN pipe /\ k \in DOMAIN pipe /\ i <= k
        BY <1>2
  <2>2. QED
        BY <1>1, <2>1 DEF Flow, Sorted
<1>9. Within(PieceTime, pipe', upto, Latest)
  <2>1. CASE k = 0
        BY <1>4, <2>1
  <2>2. CASE k # 0
    <3> SUFFICES ASSUME NEW i \in DOMAIN pipe'
                 PROVE  upto <= PieceTime[pipe'[i]] /\ PieceTime[pipe'[i]] <= Latest
        BY DEF Within
    <3>1. DOMAIN pipe' = 1..Len(pipe') /\ Len(pipe') \in Nat
          BY <1>4, LenProperties
    <3>2. k \in DOMAIN pipe /\ k + i \in DOMAIN pipe /\ k <= k + i
      <4>1. k \in Nat /\ k \in 1..Len(pipe)
            BY <1>2, <2>2
      <4>2. \A n \in 1..Len(pipe') : k <= k + n
            BY <3>1, <4>1
      <4>3. QED
            BY <1>2, <1>4, <3>1, <4>1, <4>2, Zenon
    <3>3. PieceTime[pipe[k]] <= PieceTime[pipe[k + i]]
          BY <1>1, <3>2 DEF Flow, Sorted
    <3>4. QED
          BY <1>4, <2>2, <3>3 DEF Within
  <2>3. QED
        BY <2>1, <2>2
<1> HIDE DEF upto
<1>10. /\ Nds!Lines(k) \in Seq(WireLine)
       /\ Sorted(LineTime, Nds!Lines(k)) /\ Within(LineTime, Nds!Lines(k), mid, upto)
       BY <1>1, <1>2, <1>3, <1>7, <1>8, LinesRead DEF Flow
<1>11. /\ wire \in Seq(WireLine) /\ Sorted(LineTime, wire) /\ Within(LineTime, wire, low, mid)
       /\ low <= mid
       BY <1>1, <1>2 DEF Flow, SiteInv
<1>12. wire' \in Seq(WireLine) /\ Sorted(LineTime, wire') /\ Within(LineTime, wire', low, upto)
  <2>1. CASE wire' = wire
    <3>1. Within(LineTime, wire, low, upto)
          BY <1>7, <1>11, Times, Wider
    <3>2. QED
          BY <1>11, <2>1, <3>1
  <2>2. CASE wire' = wire \o Nds!Lines(k)
    <3>1. wire' \in Seq(WireLine)
          BY <1>10, <1>11, <2>2, Joined
    <3>2. QED
          BY <1>7, <1>10, <1>11, <2>2, <3>1, JoinedInOrder, Times
  <2>3. QED
        BY <2>1, <2>2
<1>13. SiteInv'
       BY <1>2, <1>12 DEF SiteInv
<1>14. PICK u \in Nat : u = upto
       BY <1>7
<1>15. Flow(low, u)'
       BY <1>1, <1>2, <1>4, <1>7, <1>9, <1>11, <1>12, <1>14 DEF Flow
<1>16. QED
       BY <1>5, <1>13, <1>15 DEF RouterInv

\* A read of a regular file: there is only the last event in it.
LEMMA ReadFile ==
  ASSUME RouterInv, NEW k \in 0..Len(Nds!Available), Nds!Read(k), reader = "file",
         wire' \in {wire, wire \o Nds!Lines(k)}, UNCHANGED <<site, listening, welcome, known>>
  PROVE  RouterInv'
<1>1. PICK low \in Nat, mid \in Nat : Flow(low, mid)
      BY DEF RouterInv
<1>2. /\ PortalInv /\ SiteInv /\ path = "file" /\ content = Nds!Line(Latest) /\ pipe = << >>
      /\ Nds!Available = SubSeq(content, offset + 1, Len(content))
      /\ offset' = offset + k /\ pipe' = pipe /\ pending' \subseteq pending
      /\ UNCHANGED <<happened, authed, waiting, path, content, reader, binauth>> /\ Latest' = Latest
      BY DEF RouterInv, PortalInv, Nds!Read, Nds!Available, Nds!portal, Latest
<1>3. Latest \in Nat \ {0}
      BY <1>2, LenProperties DEF PortalInv, Latest
<1>4. /\ content \in Seq(Piece) /\ Len(content) = 2
      /\ Sorted(PieceTime, content) /\ Within(PieceTime, content, Latest, Latest)
      /\ offset \in 0..2 /\ offset \in 0..Len(content)
  <2>1. Len(content) = 2 /\ content \in Seq(Piece)
        BY <1>2, <1>3, OneLine
  <2>2. Latest \in 0..Latest
        BY <1>3
  <2>3. Sorted(PieceTime, content) /\ Within(PieceTime, content, Latest, Latest)
        BY <1>2, <1>3, <2>2, OneLine
  <2>4. offset \in 0..Len(content)
        BY <1>2 DEF PortalInv
  <2>5. QED
        BY <2>1, <2>3, <2>4
<1>5. /\ Nds!Available \in Seq(Piece) /\ Sorted(PieceTime, Nds!Available)
      /\ Within(PieceTime, Nds!Available, Latest, Latest)
      BY <1>2, <1>3, <1>4, Rest, Times
<1>6. Len(Nds!Available) = 2 - offset
  <2>1. offset + 1 \in Int /\ 2 \in Int /\ \A i \in offset + 1..2 : content[i] \in Piece
        BY <1>4, ElementOfSeq
  <2>2. Len(SubSeq(content, offset + 1, 2)) = IF offset + 1 <= 2 THEN 2 - (offset + 1) + 1 ELSE 0
        BY <2>1, SubSeqProperties
  <2>3. QED
        BY <1>2, <1>4, <2>2
<1>7. offset' \in 0..2
      BY <1>2, <1>4, <1>6
<1>8. PortalInv'
      BY <1>2, <1>4, <1>7 DEF PortalInv
<1>9. \A i \in 1..k : PieceTime[Nds!Available[i]] <= Latest
  <2>1. Len(Nds!Available) \in Nat /\ DOMAIN Nds!Available = 1..Len(Nds!Available)
        BY <1>5, LenProperties
  <2>2. \A i \in 1..k : i \in DOMAIN Nds!Available
        BY <2>1
  <2>3. QED
        BY <1>5, <2>2 DEF Within
<1>10. /\ Nds!Lines(k) \in Seq(WireLine)
       /\ Sorted(LineTime, Nds!Lines(k)) /\ Within(LineTime, Nds!Lines(k), Latest, Latest)
       BY <1>3, <1>5, <1>9, LinesRead
<1>11. /\ wire \in Seq(WireLine) /\ Sorted(LineTime, wire) /\ Within(LineTime, wire, low, Latest)
       /\ low <= Latest
  <2>1. /\ wire \in Seq(WireLine) /\ Sorted(LineTime, wire) /\ Within(LineTime, wire, low, mid)
        /\ low <= mid /\ mid <= Latest
        BY <1>1, <1>2 DEF Flow, SiteInv
  <2>2. QED
        BY <1>3, <2>1, Times, Wider
<1>12. wire' \in Seq(WireLine) /\ Sorted(LineTime, wire') /\ Within(LineTime, wire', low, Latest)
  <2>1. CASE wire' = wire
        BY <1>11, <2>1
  <2>2. CASE wire' = wire \o Nds!Lines(k)
    <3>1. wire' \in Seq(WireLine)
          BY <1>10, <1>11, <2>2, Joined
    <3>2. Latest \in Nat /\ Latest <= Latest
          BY <1>3
    <3>3. Sorted(LineTime, wire \o Nds!Lines(k)) /\ Within(LineTime, wire \o Nds!Lines(k), low, Latest)
          BY <1>10, <1>11, <3>2, JoinedInOrder, Times
    <3>4. QED
          BY <2>2, <3>1, <3>3
  <2>3. QED
        BY <2>1, <2>2
<1>13. SiteInv'
       BY <1>2, <1>12 DEF SiteInv
<1>14. Flow(low, Latest)'
       BY <1>1, <1>2, <1>3, <1>11, <1>12 DEF Flow, Sorted, Within
<1>15. QED
       BY <1>2, <1>3, <1>8, <1>13, <1>14 DEF RouterInv

\* The next line is handled: it is of the last event of its client that was, or of
\* a later one.
LEMMA HandleStep ==
  ASSUME RouterInv, Junk \notin Clients, wire # << >>, UNCHANGED ndsVars,
         Site!Handle(happened[Head(wire).event].client, happened[Head(wire).event].came)
  PROVE  RouterInv'
<1> DEFINE line   == Head(wire)
           e      == line.event
           client == happened[e].client
           came   == happened[e].came
<1>1. PICK low \in Nat, mid \in Nat : Flow(low, mid)
      BY DEF RouterInv
<1>2. /\ PortalInv /\ SiteInv /\ PortalInv' /\ Latest' = Latest /\ UNCHANGED <<happened, pipe>>
      BY DEF RouterInv, PortalInv, ndsVars, Latest
<1>3. /\ Latest \in Nat /\ DOMAIN happened = 1..Latest
      /\ \A i \in 1..Latest : happened[i] \in [client : Clients, came : BOOLEAN]
      BY <1>2, LenProperties, ElementOfSeq DEF PortalInv, Latest
<1>4. /\ wire \in Seq(WireLine) /\ Len(wire) \in Nat \ {0} /\ DOMAIN wire = 1..Len(wire)
      /\ line = wire[1] /\ 1 \in DOMAIN wire /\ line \in WireLine
      /\ wire' = Tail(wire) /\ Tail(wire) \in Seq(WireLine) /\ Len(Tail(wire)) = Len(wire) - 1
      /\ DOMAIN Tail(wire) = 1..(Len(wire) - 1)
      /\ \A i \in 1..(Len(wire) - 1) : Tail(wire)[i] = wire[i + 1] /\ i + 1 \in DOMAIN wire /\ 1 <= i + 1
  <2>1. wire \in Seq(WireLine) /\ wire' = Tail(wire)
        BY <1>2 DEF SiteInv, Site!Handle
  <2>2. Len(wire) \in Nat \ {0} /\ DOMAIN wire = 1..Len(wire)
        BY <2>1, EmptySeq, LenProperties
  <2>3. QED
        BY <2>1, <2>2, HeadTailProperties, ElementOfSeq, LenProperties
<1>5. e \in Nat \ {0} /\ LineTime[line] = e /\ line.whole \in BOOLEAN
      BY <1>4 DEF WireLine, LineTime
<1>6. low <= e /\ e <= mid /\ mid <= Latest
      BY <1>1, <1>4, <1>5 DEF Flow, Within
<1>7. e \in 1..Latest /\ client \in Clients /\ came \in BOOLEAN
      BY <1>3, <1>5, <1>6
<1>8. Sorted(LineTime, wire') /\ Within(LineTime, wire', e, mid)
  <2>1. ASSUME NEW i \in DOMAIN wire', NEW j \in DOMAIN wire', i <= j
        PROVE  LineTime[wire'[i]] <= LineTime[wire'[j]]
        BY <1>1, <1>4, <2>1 DEF Flow, Sorted
  <2>2. ASSUME NEW i \in DOMAIN wire'
        PROVE  e <= LineTime[wire'[i]] /\ LineTime[wire'[i]] <= mid
        BY <1>1, <1>4, <1>5 DEF Flow, Sorted, Within
  <2>3. QED
        BY <2>1, <2>2 DEF Sorted, Within
<1> HIDE DEF line, e, client, came
<1>9. /\ known' = IF line.whole /\ e > known[client]
                  THEN [known EXCEPT ![client] = e] ELSE known
      /\ welcome' = IF came THEN Site!Added(IF line.whole THEN client ELSE Junk)
                    ELSE Site!Removed(IF line.whole THEN client ELSE Junk)
      /\ UNCHANGED <<site, listening>>
      BY DEF Site!Handle, line, e, client, came
<1>10. known \in [Clients -> Nat] /\ \A c \in Clients : known[c] <= low
       BY <1>1, <1>2 DEF Flow, SiteInv
<1>11. known' \in [Clients -> Nat] /\ (\A c \in Clients : known'[c] <= e)
  <2>1. CASE line.whole /\ e > known[client]
        BY <1>5, <1>6, <1>7, <1>9, <1>10, <2>1
  <2>2. CASE ~(line.whole /\ e > known[client])
        BY <1>5, <1>6, <1>9, <1>10, <2>2
  <2>3. QED
        BY <2>1, <2>2
<1>12. \A c \in welcome \cap Clients : known[c] \in 1..Latest /\ happened[known[c]].came
       BY <1>2 DEF SiteInv
<1>13. /\ welcome' \subseteq Clients \cup {Junk}
       /\ \A c \in welcome' \cap Clients : known'[c] \in 1..Latest /\ happened[known'[c]].came
  <2>0. welcome \subseteq Clients \cup {Junk}
        BY <1>2 DEF SiteInv
  <2>1. CASE line.whole
    <3>1. known'[client] = e /\ \A c \in Clients : c # client => known'[c] = known[c]
      <4>1. known[client] \in Nat /\ known[client] <= e
            BY <1>5, <1>6, <1>7, <1>10
      <4>2. QED
            BY <1>5, <1>7, <1>9, <1>10, <2>1, <4>1
    <3>2. CASE came
      <4>1. welcome' \subseteq welcome \cup {client}
            BY <1>9, <2>1, <3>2 DEF Site!Added
      <4>2. happened[e].came
            BY <3>2 DEF came
      <4>3. QED
            BY <1>7, <1>12, <2>0, <3>1, <4>1, <4>2
    <3>3. CASE ~came
      <4>1. welcome' \subseteq welcome /\ client \notin welcome'
            BY <1>9, <2>1, <3>3 DEF Site!Removed
      <4>2. QED
            BY <1>12, <2>0, <3>1, <4>1
    <3>4. QED
          BY <3>2, <3>3
  <2>2. CASE ~line.whole
    <3>1. known' = known /\ welcome' \subseteq welcome \cup {Junk}
          BY <1>9, <2>2 DEF Site!Added, Site!Removed
    <3>2. QED
          BY <1>12, <2>0, <3>1
  <2>3. QED
        BY <2>1, <2>2
<1>14. SiteInv'
       BY <1>2, <1>4, <1>9, <1>11, <1>13 DEF SiteInv
<1>15. PICK t \in Nat : t = e
       BY <1>5
<1>16. Flow(t, mid)'
       BY <1>1, <1>2, <1>6, <1>8, <1>11, <1>15 DEF Flow
<1>17. QED
       BY <1>2, <1>14, <1>16 DEF RouterInv

\* Every step of the router keeps it.
LEMMA RouterStep == RouterInv /\ [GatewayNext]_gatewayVars => RouterInv'
<1> SUFFICES ASSUME RouterInv, [GatewayNext]_gatewayVars PROVE RouterInv'
    OBVIOUS
<1>a. PortalInv /\ SiteInv /\ site \in BOOLEAN /\ listening \in BOOLEAN
      BY DEF RouterInv, SiteInv
<1>b. ASSUME UNCHANGED <<ndsVars, siteVars>> PROVE RouterInv'
      BY <1>a, <1>b, WireLost DEF siteVars
<1>1. CASE Alone \/ GetCertificates \/ NoCertificates \/ RotateCA \/ LendToken \/ RestartBorrower
           \/ UNCHANGED gatewayVars
      BY <1>1, <1>b DEF Alone, GetCertificates, NoCertificates, RotateCA, LendToken,
         RestartBorrower, gatewayVars, around
<1>2. CASE OpenPortal
      BY <1>2, OpenStep DEF OpenPortal
<1>3. CASE RestartPortal
  <2>1. PICK c \in authed :
          /\ waiting = 0
          /\ happened' = Append(happened, [client |-> c, came |-> FALSE])
          /\ authed' = authed \ {c}
          /\ Nds!Tell(Len(happened'))
          /\ UNCHANGED <<reader, binauth, offset>>
        BY <1>3 DEF RestartPortal, Nds!Restarted
  <2>2. c \in Clients /\ authed' \subseteq Clients
        BY <1>a, <2>1 DEF PortalInv
  <2>3. UNCHANGED siteVars
        BY <1>3 DEF RestartPortal
  <2>4. QED
        BY <2>1, <2>2, <2>3, TellStep
<1>4. CASE PortalEvent
  <2>1. PICK c \in Clients :
          /\ happened' = Append(happened, [client |-> c, came |-> c \notin authed])
          /\ authed' = IF c \in authed THEN authed \ {c} ELSE authed \cup {c}
        BY <1>4 DEF PortalEvent, Nds!ClientEvent
  <2>2. /\ waiting = 0 /\ Nds!Tell(Len(happened')) /\ UNCHANGED <<reader, binauth, offset>>
        /\ UNCHANGED siteVars
        BY <1>4 DEF PortalEvent, Nds!ClientEvent
  <2>3. authed' \subseteq Clients /\ (c \notin authed) \in BOOLEAN
        BY <1>a, <2>1 DEF PortalInv
  <2>4. QED
        BY <2>1, <2>2, <2>3, TellStep
<1>5. CASE StartAll
  <2>1. /\ UNCHANGED <<ndsVars, welcome, known>> /\ wire' \in {<< >>, wire}
        /\ site' \in BOOLEAN /\ listening' \in BOOLEAN
    <3>1. CASE HasPortal
          BY <1>5, <3>1 DEF StartAll, Site!Start
    <3>2. CASE ~HasPortal
          BY <1>5, <1>a, <3>2 DEF StartAll, siteVars
    <3>3. QED
          BY <3>1, <3>2
  <2>2. QED
        BY <2>1, WireLost
<1>6. CASE CheckContext
      BY <1>6, <1>a, WireLost DEF CheckContext, Site!LearnSite
<1>7. CASE ReadEvents
  <2>1. PICK k \in 0..Len(Nds!Available) :
          /\ Nds!Read(k)
          /\ Site!Publish(Nds!Lines(k)) \/ UNCHANGED siteVars
        BY <1>7 DEF ReadEvents
  <2>2. wire' \in {wire, wire \o Nds!Lines(k)} /\ UNCHANGED <<site, listening, welcome, known>>
        BY <2>1 DEF Site!Publish, siteVars
  <2>3. reader = "fifo" \/ reader = "file"
        BY <1>a, <2>1 DEF PortalInv, Nds!Read
  <2>4. QED
        BY <2>1, <2>2, <2>3, ReadFifo, ReadFile
<1>8. CASE MqttLoop
  <2>1. UNCHANGED ndsVars
        BY <1>8 DEF MqttLoop
  <2>2. CASE Site!Disconnect
        BY <1>a, <2>1, <2>2, WireLost DEF Site!Disconnect
  <2>3. CASE UNCHANGED siteVars
        BY <1>b, <2>1, <2>3
  <2>4. CASE /\ wire # << >>
             /\ Site!Handle(happened[Head(wire).event].client, happened[Head(wire).event].came)
        BY <2>1, <2>4, HandleStep, FryGatewayAssumption DEF Site!SiteAssumption
  <2>5. QED
        BY <1>8, <2>2, <2>3, <2>4 DEF MqttLoop
<1>9. CASE StopAll \/ Reboot
  <2>1. Nds!Clean \/ Nds!Killed \/ Nds!Rebooted
        BY <1>9 DEF StopAll, Reboot
  <2>2. Site!Stop
        BY <1>9 DEF StopAll, Reboot
  <2>3. QED
        BY <2>1, <2>2, ClosedStep DEF Site!Stop
<1>10. QED
       BY <1>1, <1>2, <1>3, <1>4, <1>5, <1>6, <1>7, <1>8, <1>9 DEF GatewayNext

\* It holds of every behaviour.
LEMMA RouterInvariance == GatewaySpec => []RouterInv
<1>1. GatewayInit => RouterInv
      BY RouterInit DEF GatewayInit
<1>2. QED
      BY <1>1, RouterStep, PTL DEF GatewaySpec

\* Clients are let through by the order in which they came and went, although
\* events wait in scripts, FIFOs, files and messages that processes leave to each
\* other, although reads cut lines, and although a file is read again by the next
\* process (nds.c:118-183, site-clients.c:57-135).
THEOREM WelcomedInOrder == GatewaySpec => []WelcomeIsRecent
<1>1. RouterInv => WelcomeIsRecent
      BY DEF RouterInv, SiteInv, WelcomeIsRecent
<1>2. QED
      BY <1>1, RouterInvariance, PTL

\* What the invariant says of the parts of the router is more than their types.
LEMMA RouterTypes == RouterInv => Nds!TypeOK /\ Site!TypeOK
<1> SUFFICES ASSUME RouterInv PROVE Nds!TypeOK /\ Site!TypeOK
    OBVIOUS
<1>1. PICK low \in Nat, mid \in Nat : Flow(low, mid)
      BY DEF RouterInv
<1>2. PortalInv /\ SiteInv
      BY DEF RouterInv
<1>3. Latest \in Nat
      BY <1>2, LenProperties DEF PortalInv, Latest
<1>4. pipe \in Seq(Nds!Pieces)
  <2>1. pipe \in Seq(Piece) /\ DOMAIN pipe = 1..Len(pipe)
        BY <1>2, LenProperties DEF PortalInv
  <2>2. ASSUME NEW i \in 1..Len(pipe) PROVE pipe[i] \in Nds!Pieces
    <3>1. pipe[i] \in Piece
          BY <2>1, ElementOfSeq
    <3>2. PieceTime[pipe[i]] <= Latest /\ PieceTime[pipe[i]] = pipe[i][1]
          BY <1>1, <2>1, <3>1 DEF Flow, Within, PieceTime
    <3>3. QED
          BY <1>3, <3>1, <3>2 DEF Piece, Nds!Pieces, Latest
  <2>3. QED
        BY <2>1, <2>2
<1>5. content \in Seq(Nds!Pieces)
  <2>1. CASE path = "file"
    <3>1. Latest \in 1..Latest /\ content = << <<Latest, "head">>, <<Latest, "tail">> >>
          BY <1>2, <1>3, <2>1 DEF PortalInv, Nds!Line
    <3>2. <<Latest, "head">> \in Nds!Pieces /\ <<Latest, "tail">> \in Nds!Pieces
          BY <3>1 DEF Nds!Pieces, Latest
    <3>3. QED
          BY <3>1, <3>2
  <2>2. CASE path # "file"
        BY <1>2, <2>2, EmptySeq DEF PortalInv
  <2>3. QED
        BY <2>1, <2>2
<1>6. waiting \in 0..Latest
      BY <1>2, <1>3 DEF PortalInv
<1>7. Nds!TypeOK
      BY <1>2, <1>4, <1>5, <1>6 DEF PortalInv, Nds!TypeOK, Latest
<1>8. Site!TypeOK
  <2>1. WireLine \subseteq [event : Nat, whole : BOOLEAN]
        BY DEF WireLine
  <2>2. wire \in Seq([event : Nat, whole : BOOLEAN])
    <3>1. \A S, T : S \subseteq T => Seq(S) \subseteq Seq(T)
          OBVIOUS
    <3>2. QED
          BY <1>2, <2>1, <3>1, Zenon DEF SiteInv
  <2>3. QED
        BY <1>2, <2>2 DEF SiteInv, Site!TypeOK
<1>9. QED
      BY <1>7, <1>8

\* The variables of every part keep their types: those of the agent, the lines and
\* pieces on their way, the certificates, and the token that fry-config has.
THEOREM GatewayTypeCorrect == GatewaySpec => []GatewayTypeOK
<1>1. GatewayInit => Lend!TypeOK
      BY FryAgentAssumption DEF GatewayInit, Lend!TypeOK, Token!AccessTokenAssumption
<1>2. TypeOK /\ Lend!TypeOK /\ [GatewayNext]_gatewayVars => Lend!TypeOK'
  <2> SUFFICES ASSUME TypeOK, Lend!TypeOK, [GatewayNext]_gatewayVars PROVE Lend!TypeOK'
      OBVIOUS
  <2>1. token \in 0..MaxTokens /\ 0 \in 0..MaxTokens
        BY FryAgentAssumption DEF TypeOK, Token!TypeOK, Token!AccessTokenAssumption
  <2>2. lent' \in {lent, token, 0}
    <3>1. CASE LendToken \/ RestartBorrower \/ Reboot
          BY <3>1 DEF LendToken, RestartBorrower, Reboot, Lend!Refresh, Lend!Borrow, Lend!Forget
    <3>2. CASE ~(LendToken \/ RestartBorrower \/ Reboot)
          BY <3>2 DEF GatewayNext, gatewayVars, around, Alone, GetCertificates, NoCertificates,
             RotateCA, OpenPortal, RestartPortal, StartAll, CheckContext, PortalEvent,
             ReadEvents, MqttLoop, StopAll
    <3>3. QED
          BY <3>1, <3>2
  <2>3. QED
        BY <2>1, <2>2 DEF Lend!TypeOK
<1>3. GatewaySpec => []TypeOK
      BY ImplementsFryAgent, TypeCorrect, PTL
<1>4. EnrolInv => Enrol!TypeOK
      BY DEF EnrolInv
<1>5. TypeOK /\ RouterInv /\ EnrolInv /\ Lend!TypeOK => GatewayTypeOK
      BY <1>4, RouterTypes DEF GatewayTypeOK
<1>6. QED
      BY <1>1, <1>2, <1>3, <1>5, RouterInvariance, EnrolInit, EnrolInvariant, PTL DEF GatewaySpec
=============================================================================
