-------------------------- MODULE CollectorProofs ---------------------------
(***************************************************************************)
(* What holds of the log stream of Collector for every size of the buffer, *)
(* any number of tries and of faults: its types, that logs are taken only  *)
(* after there was a token, and that no end of a connection or a stream    *)
(* leaves it without a timer.  What the buffer does to the stream are the  *)
(* reports of its requests; nothing else of it matters there, its types    *)
(* included.  And what holds of the buffer alone (CollectProofs) holds of  *)
(* the buffer in the collector, because every step of the collector is one *)
(* of the buffer or leaves the buffer alone.                               *)
(***************************************************************************)
EXTENDS Collector, TLAPS

BufferProofs == INSTANCE CollectProofs

\* What CollectProofs speaks of is the buffer of the collector.
LEMMA SameBuffer ==
  /\ Buffer!Init <=> BufferProofs!Init
  /\ [Buffer!Next]_(Buffer!vars) <=> [BufferProofs!Next]_(BufferProofs!vars)
  /\ Buffer!TypeOK <=> BufferProofs!TypeOK
  /\ Buffer!EntriesAccounted <=> BufferProofs!EntriesAccounted
  /\ Buffer!NothingVanishes <=> BufferProofs!NothingVanishes
<1> USE DEF
      Buffer!Slots, Buffer!States, Buffer!pool, Buffer!ring, Buffer!context, Buffer!MinOf,
      Buffer!Elements, Buffer!LogsOf, Buffer!After, Buffer!MayCollect, Buffer!Moving,
      Buffer!Taken, Buffer!Filled, Buffer!Urgent, Buffer!Attempts, Buffer!Returned,
      Buffer!Drained, Buffer!Cleared, Buffer!Prepared, Buffer!RingSlots, Buffer!Buffered,
      BufferProofs!Slots, BufferProofs!States, BufferProofs!pool, BufferProofs!ring,
      BufferProofs!context, BufferProofs!MinOf, BufferProofs!Elements, BufferProofs!LogsOf,
      BufferProofs!After, BufferProofs!MayCollect, BufferProofs!Moving, BufferProofs!Taken,
      BufferProofs!Filled, BufferProofs!Urgent, BufferProofs!Attempts, BufferProofs!Returned,
      BufferProofs!Drained, BufferProofs!Cleared, BufferProofs!Prepared,
      BufferProofs!RingSlots, BufferProofs!Buffered
<1>1. Buffer!Init <=> BufferProofs!Init
      BY DEF Buffer!Init, BufferProofs!Init
<1>2. Buffer!Enqueue <=> BufferProofs!Enqueue
      BY DEF Buffer!Enqueue, Buffer!Store, BufferProofs!Enqueue, BufferProofs!Store
<1>3. (Buffer!Gather <=> BufferProofs!Gather) /\ (Buffer!Prepare <=> BufferProofs!Prepare)
      BY DEF Buffer!Gather, BufferProofs!Gather, Buffer!Prepare, BufferProofs!Prepare
<1>4. /\ Buffer!SendSucceeds <=> BufferProofs!SendSucceeds
      /\ Buffer!SendFails <=> BufferProofs!SendFails
      BY DEF Buffer!SendSucceeds, BufferProofs!SendSucceeds, Buffer!SendFails, BufferProofs!SendFails
<1>5. (Buffer!Wait <=> BufferProofs!Wait) /\ (Buffer!GiveUp <=> BufferProofs!GiveUp)
      BY DEF Buffer!Wait, BufferProofs!Wait, Buffer!GiveUp, BufferProofs!GiveUp
<1>6. Buffer!Tick <=> BufferProofs!Tick
      BY <1>3, <1>4, <1>5 DEF Buffer!Tick, Buffer!Advance, BufferProofs!Tick, BufferProofs!Advance
<1>7. Buffer!Flush <=> BufferProofs!Flush
      BY <1>3, <1>4, <1>5 DEF Buffer!Flush, BufferProofs!Flush
<1>8. /\ Buffer!Stop <=> BufferProofs!Stop
      /\ Buffer!BeginFlush <=> BufferProofs!BeginFlush
      /\ Buffer!Close <=> BufferProofs!Close
      BY DEF Buffer!Stop, BufferProofs!Stop, Buffer!BeginFlush, BufferProofs!BeginFlush,
             Buffer!Close, BufferProofs!Close
<1>9. Buffer!Next <=> BufferProofs!Next
      BY <1>2, <1>6, <1>7, <1>8 DEF Buffer!Next, BufferProofs!Next
<1>10. UNCHANGED Buffer!vars <=> UNCHANGED BufferProofs!vars
      BY DEF Buffer!vars, BufferProofs!vars
<1>11. Buffer!TypeOK <=> BufferProofs!TypeOK
      BY DEF Buffer!TypeOK, BufferProofs!TypeOK
<1>12. Buffer!EntriesAccounted <=> BufferProofs!EntriesAccounted
      BY Zenon DEF Buffer!EntriesAccounted, BufferProofs!EntriesAccounted,
                   Buffer!Cardinality, BufferProofs!Cardinality
<1>13. Buffer!NothingVanishes <=> BufferProofs!NothingVanishes
      BY DEF Buffer!NothingVanishes, BufferProofs!NothingVanishes
<1>14. QED
      BY <1>1, <1>9, <1>10, <1>11, <1>12, <1>13

\* The stream decides when a log comes and how a request ends, never what the
\* buffer does with it.
LEMMA StepOfBuffer == [Next]_vars => [Buffer!Next]_(Buffer!vars)
<1> SUFFICES ASSUME [Next]_vars PROVE [Buffer!Next]_(Buffer!vars)
    OBVIOUS
<1>1. CASE ReadLog \/ Tick \/ Shutdown
      BY <1>1 DEF ReadLog, Tick, Shutdown, Buffer!Next
<1>2. CASE Callback \/ UNCHANGED vars
      BY <1>2 DEF Callback, vars, bufferVars, Buffer!vars, Buffer!pool, Buffer!ring, Buffer!context
<1>3. QED
      BY <1>1, <1>2 DEF Next

\* Every behaviour of the collector is one of the buffer by itself: what holds
\* of collect.c alone is not undone by ubus.c, which reports to it and is
\* called by it.
THEOREM BufferInCollector == Spec => Buffer!Spec
<1>1. Init => Buffer!Init
      BY DEF Init
<1>2. QED
      BY <1>1, StepOfBuffer, PTL DEF Spec, Buffer!Spec

\* The invariant of the buffer by itself is inductive there too.
LEMMA BufferSteps ==
  /\ BufferProofs!Init => BufferProofs!BufferInv
  /\ BufferProofs!BufferInv /\ [BufferProofs!Next]_(BufferProofs!vars) => BufferProofs!BufferInv'
<1>1. Buffer!CollectAssumption
      BY CollectorAssumption
<1>2. BufferProofs!Init => BufferProofs!BufferInv
      BY <1>1, BufferProofs!InitInv DEF Buffer!CollectAssumption
<1>3. BufferProofs!BufferInv /\ [BufferProofs!Next]_(BufferProofs!vars)
        => BufferProofs!BufferInv'
      BY <1>1, BufferProofs!StepInv DEF Buffer!CollectAssumption
<1>4. QED
      BY <1>2, <1>3

\* The invariant of the buffer holds in the composition.
LEMMA BufferInvariance == Spec => []BufferProofs!BufferInv
<1>1. Init => BufferProofs!BufferInv
      BY BufferSteps, SameBuffer, Zenon DEF Init
<1>2. BufferProofs!BufferInv /\ [Next]_vars => BufferProofs!BufferInv'
      BY BufferSteps, StepOfBuffer, SameBuffer, Zenon
<1>3. QED
      BY <1>1, <1>2, PTL DEF Spec
-----------------------------------------------------------------------------
\* The invariant of the stream alone, while the event loop runs ...
StreamInv == Stream!TypeOK /\ Stream!AcceptHasToken /\ Stream!NotStranded

\* ... and of the collector, whose cleanup disconnects for good.
IInv == Stream!TypeOK /\ AcceptHasToken /\ NotStranded

\* The assumption about the stream is part of that about the collector.
LEMMA StreamAssumption == Stream!LogStreamAssumption
BY CollectorAssumption

USE StreamAssumption DEF Stream!LogStreamAssumption
-----------------------------------------------------------------------------
\* A fault is within the bound.
LEMMA FaultType ==
  ASSUME NEW kind, faults \in 0..MaxFaults, Stream!Fault(kind)
  PROVE  faults' \in 0..MaxFaults
BY DEF Stream!Fault

\* Enabling and disabling keep the types of what they touch.
LEMMA EnableType ==
  ASSUME Stream!TypeOK, Stream!Enable
  PROVE  /\ accept' = TRUE /\ asked' \in BOOLEAN /\ streaming' \in BOOLEAN
         /\ faults' \in 0..MaxFaults
BY FaultType DEF Stream!TypeOK, Stream!Enable, Stream!StartStreaming, Stream!stream

\* What switching acceptance off leaves.
LEMMA DisableType ==
  ASSUME Stream!TypeOK, Stream!Disable
  PROVE  accept' = FALSE /\ asked' \in BOOLEAN /\ streaming' \in BOOLEAN
BY DEF Stream!TypeOK, Stream!Disable

\* Every callback of the stream keeps its invariant.
LEMMA CallbackStep ==
  ASSUME StreamInv, Stream!Callback
  PROVE  StreamInv'
<1> USE DEF StreamInv, Stream!TypeOK, Stream!AcceptHasToken, Stream!NotStranded, Stream!stream
<1>1. CASE Stream!TokenTimer
      BY <1>1, EnableType, DisableType, FaultType DEF Stream!TokenTimer, Stream!RefreshFailed
<1>2. CASE Stream!TokenExpires
      BY <1>2 DEF Stream!TokenExpires
<1>3. CASE Stream!UbusLost
  <2>1. MaxTries \in 0..MaxTries /\ faults' \in 0..MaxFaults
        BY <1>3, FaultType DEF Stream!UbusLost
  <2>2. Stream!TypeOK'
        BY <1>3, <2>1, Zenon DEF Stream!UbusLost, Stream!TriesAfterLoss
  <2>3. Stream!AcceptHasToken' /\ Stream!NotStranded'
        BY <1>3 DEF Stream!UbusLost
  <2>4. QED
        BY <2>2, <2>3
<1>4. CASE Stream!ReconnectTimer
  <2>1. CASE /\ ~Stream!TriesLeft /\ armed' = FALSE
             /\ UNCHANGED <<connected, tries, faults, asked, streaming>>
    <3>1. tries = 0
          BY <2>1 DEF Stream!TriesLeft
    <3>2. UNCHANGED <<accept, token, mayFail>>
          BY <1>4 DEF Stream!ReconnectTimer
    <3>3. Stream!TypeOK'
          BY <2>1, <3>2, Zenon
    <3>4. Stream!AcceptHasToken' /\ Stream!NotStranded'
          BY <2>1, <3>1, <3>2
    <3>5. QED
          BY <3>3, <3>4
  <2>2. ASSUME Stream!TriesLeft, tries' = tries - 1
        PROVE  tries' \in 0..MaxTries
        BY <2>2 DEF Stream!TriesLeft
  <2>3. CASE /\ Stream!TriesLeft /\ tries' = tries - 1
             /\ connected' = TRUE /\ armed' = FALSE
             /\ asked' \in BOOLEAN /\ UNCHANGED streaming /\ faults' \in 0..MaxFaults
        BY <1>4, <2>2, <2>3 DEF Stream!ReconnectTimer
  <2>4. CASE /\ Stream!TriesLeft /\ tries' = tries - 1
             /\ connected' = FALSE /\ armed' = Stream!Rearmed
             /\ asked' = FALSE /\ UNCHANGED streaming /\ faults' \in 0..MaxFaults
        BY <1>4, <2>2, <2>4 DEF Stream!ReconnectTimer, Stream!Rearmed
  <2>5. QED
        BY <1>4, <2>1, <2>3, <2>4, FaultType DEF Stream!ReconnectTimer, Stream!StartStreaming
<1>5. CASE Stream!StreamOpens
      BY <1>5 DEF Stream!StreamOpens
<1>6. CASE Stream!StreamEnds
      BY <1>6, FaultType DEF Stream!StreamEnds
<1>7. QED
      BY <1>1, <1>2, <1>3, <1>4, <1>5, <1>6 DEF Stream!Callback

\* The reports of collect.c change acceptance and stream only; they are made in
\* the loop and after the cleanup, so that this says nothing of the connection.
LEMMA RequestStep ==
  ASSUME Stream!TypeOK, Stream!AcceptHasToken, NEW n, Stream!Request(n)
  PROVE  Stream!TypeOK' /\ Stream!AcceptHasToken' /\ UNCHANGED <<connected, tries, armed>>
<1> USE DEF Stream!TypeOK, Stream!AcceptHasToken, Stream!stream
<1>1. CASE Stream!HttpSucceeded(n)
      BY <1>1, EnableType DEF Stream!HttpSucceeded
<1>2. CASE Stream!HttpWithoutToken(n)
      BY <1>2, DisableType DEF Stream!HttpWithoutToken, Stream!Reported
<1>3. CASE Stream!HttpFailed(n)
      BY <1>3, DisableType, FaultType DEF Stream!HttpFailed, Stream!Reported
<1>4. CASE Stream!HttpUnauthorized(n)
      BY <1>4, FaultType DEF Stream!HttpUnauthorized
<1>5. QED
      BY <1>1, <1>2, <1>3, <1>4 DEF Stream!Request

\* So does whatever the HTTP state machine does with a batch.
LEMMA OutcomeStep ==
  ASSUME Stream!TypeOK, Stream!AcceptHasToken, Outcome
  PROVE  Stream!TypeOK' /\ Stream!AcceptHasToken' /\ UNCHANGED <<connected, tries, armed>>
<1>1. CASE UNCHANGED streamVars
      BY <1>1 DEF streamVars, Stream!TypeOK, Stream!AcceptHasToken
<1>2. CASE Sent
      <2>1. Stream!Request(failures) \/ Stream!Request(failures')
            BY <1>2 DEF Sent, Stream!Request
      <2>2. QED
            BY <2>1, RequestStep
<1>3. QED
      BY <1>1, <1>2 DEF Outcome
-----------------------------------------------------------------------------
LEMMA InitInvariant == Init => IInv
<1> SUFFICES ASSUME Init PROVE IInv
    OBVIOUS
<1>1. MaxTries \in 0..MaxTries /\ 0 \in 0..MaxFaults
      OBVIOUS
<1>2. Stream!TypeOK
      BY <1>1, Zenon DEF Init, Stream!Init, Stream!TypeOK
<1>3. AcceptHasToken /\ NotStranded
      BY DEF Init, Stream!Init, AcceptHasToken, Stream!AcceptHasToken, NotStranded,
         Stream!NotStranded
<1>4. QED
      BY <1>2, <1>3 DEF IInv

LEMMA StepInvariant == IInv /\ [Next]_vars => IInv'
<1> SUFFICES ASSUME IInv, [Next]_vars PROVE IInv'
    OBVIOUS
<1> USE DEF IInv, AcceptHasToken, NotStranded
<1>a. CASE UNCHANGED streamVars /\ (phase' = "loop" => phase = "loop")
      BY <1>a DEF streamVars, Stream!TypeOK, Stream!AcceptHasToken, Stream!NotStranded
<1>b. CASE Outcome /\ (phase' = "loop" => phase = "loop")
  <2>1. Stream!TypeOK' /\ Stream!AcceptHasToken' /\ UNCHANGED <<connected, tries, armed>>
        BY <1>b, OutcomeStep
  <2>2. QED
        BY <1>b, <2>1 DEF Stream!NotStranded
<1>1. CASE ReadLog
      BY <1>1, <1>a DEF ReadLog, Buffer!Enqueue
<1>2. CASE Tick
      BY <1>2, <1>b DEF Tick, Buffer!Tick
<1>3. CASE Callback
      BY <1>3, CallbackStep DEF Callback, bufferVars, StreamInv
<1>4. CASE Shutdown
  <2>1. CASE Buffer!Stop /\ UNCHANGED streamVars
        BY <2>1, <1>a DEF Buffer!Stop
  <2>2. CASE Buffer!BeginFlush /\ Stream!Cleanup
        BY <2>2 DEF Buffer!BeginFlush, Stream!Cleanup, Stream!TypeOK, Stream!AcceptHasToken
  <2>3. CASE Buffer!Flush /\ Outcome
        BY <2>3, <1>b DEF Buffer!Flush
  <2>4. CASE Buffer!Close /\ UNCHANGED streamVars
        BY <2>4, <1>a DEF Buffer!Close
  <2>5. QED
        BY <1>4, <2>1, <2>2, <2>3, <2>4 DEF Shutdown
<1>5. CASE UNCHANGED vars
      BY <1>5, <1>a DEF vars, bufferVars
<1>6. QED
      BY <1>1, <1>2, <1>3, <1>4, <1>5 DEF Next
-----------------------------------------------------------------------------
\* However acceptance is switched by the token timer, by the failures and by
\* the successes of requests, logs are taken only after there was a token
\* (ubus.c:318-319).
THEOREM TokenBeforeLogs == Spec => []AcceptHasToken
<1>1. IInv => AcceptHasToken
      BY DEF IInv
<1>2. QED
      BY InitInvariant, StepInvariant, <1>1, PTL DEF Spec

\* However connections are lost and attempts fail, a collector that is not
\* connected has a timer, or has used up all tries (ubus.c:178-289).
THEOREM NeverStranded == Spec => []NotStranded
<1>1. IInv => NotStranded
      BY DEF IInv
<1>2. QED
      BY InitInvariant, StepInvariant, <1>1, PTL DEF Spec
-----------------------------------------------------------------------------
\* Every index, counter and pointer of the buffer, and every variable of the
\* stream, keeps its type, whatever the order of logs, ticks, callbacks and the
\* shutdown.
THEOREM CollectorTypes == Spec => []TypeOK
<1>1. BufferProofs!BufferInv /\ IInv => TypeOK
  <2>1. BufferProofs!BufferInv => BufferProofs!TypeOK
        BY DEF BufferProofs!BufferInv
  <2>2. QED
        BY <2>1, SameBuffer, Zenon DEF TypeOK, IInv
<1>2. QED
      BY BufferInvariance, InitInvariant, StepInvariant, <1>1, PTL DEF Spec

\* What CollectProofs shows of the buffer holds in the collector: entries of the
\* pool are accounted for and no log vanishes, while tokens expire, acceptance is
\* switched and connections are lost around it (collect.c with ubus.c).
THEOREM LogsInCollector == Spec => [](Buffer!EntriesAccounted /\ Buffer!NothingVanishes)
<1>1. Buffer!CollectAssumption
      BY CollectorAssumption
<1>2. BufferProofs!Spec => []BufferProofs!EntriesAccounted
      BY <1>1, BufferProofs!PoolAccounted DEF Buffer!CollectAssumption
<1>3. BufferProofs!Spec => []BufferProofs!NothingVanishes
      BY <1>1, BufferProofs!LogsAccounted DEF Buffer!CollectAssumption
<1>4. QED
      BY <1>2, <1>3, SameBuffer, BufferInCollector, PTL DEF Buffer!Spec, BufferProofs!Spec
=============================================================================
