--------------------------- MODULE CollectProofs ----------------------------
(***************************************************************************)
(* Theorems about the log buffer, for a ring, batches and tries of any     *)
(* number: its types, that every entry of the pool is in one place, that   *)
(* every log is accounted for, and that the buffer implements LogPipeline, *)
(* so that the server sees the logs in order.                              *)
(*                                                                         *)
(* All of them rest on one view of the state: the entries of the batch     *)
(* followed by those of the ring are one line.  Most steps leave the line  *)
(* alone, even when entries move from the ring to the batch; a log that is *)
(* accepted joins at its end, a batch that is done leaves at its front.    *)
(***************************************************************************)
EXTENDS Collect, SequenceTheorems, FiniteSetTheorems, TLAPS

\* The entries of the ring that are in use are those its indices say.
RingOK ==
  /\ tail = After(head, count)
  /\ \A p \in Slots : entries[p] # Null <=> \E i \in 0 .. count - 1 : p = After(head, i)

\* The logs of the line were offered in its order.
Ascending(logs) == \A i, j \in 1 .. Len(logs) : i < j => logs[i] < logs[j]

LineOK ==
  /\ used = Elements(Line)
  /\ Ascending(LogsOf(Line))

LogsOK ==
  /\ \A s \in used : msg[s] \in 1..offered /\ msg[s] \notin refused \cup lost
  /\ refused \cup lost \subseteq 1..offered
  /\ 1..offered \subseteq refused \cup lost \cup Elements(received) \cup {msg[s] : s \in used}

\* What is sent is what is in the batch, and it is not empty.
BatchOK ==
  /\ state # "idle" => batch # <<>>
  /\ state \in {"sending", "retry"} => payload = LogsOf(batch)

\* The inductive invariant.
BufferInv == TypeOK /\ RingOK /\ LineOK /\ LogsOK /\ BatchOK
-----------------------------------------------------------------------------
\* The remainder of a number that is less than twice the divisor.
LEMMA Remainder ==
  \A q \in Nat \ {0}, a \in Nat : a < q + q => a % q = IF a < q THEN a ELSE a - q
<1> SUFFICES ASSUME NEW q \in Nat \ {0}, NEW a \in Nat, a < q + q
             PROVE  a % q = IF a < q THEN a ELSE a - q
  OBVIOUS
<1>1. CASE a < q
  <2>1. a % q = a
    BY <1>1
  <2> QED BY <2>1, <1>1, Zenon
<1>2. CASE ~(a < q)
  <2>1. a % q = a - q
    BY <1>2
  <2> QED BY <2>1, <1>2, Zenon
<1> QED BY <1>1, <1>2

\* The ring indices wrap once at most.
LEMMA Wraps ==
  ASSUME NEW p \in Slots, NEW i \in 0 .. QueueSize
  PROVE  After(p, i) = IF p + i < QueueSize THEN p + i ELSE p + i - QueueSize
<1>1. QueueSize \in Nat \ {0}
  BY CollectAssumption DEF CollectAssumption
<1>2. PICK a \in Nat : a = p + i
  BY <1>1 DEF Slots
<1>3. a < QueueSize + QueueSize
  BY <1>1, <1>2 DEF Slots
<1>4. a % QueueSize = IF a < QueueSize THEN a ELSE a - QueueSize
  BY <1>1, <1>3, Remainder
<1>5. After(p, i) = a % QueueSize
  BY <1>2, Zenon DEF After
<1>6. After(p, i) = IF a < QueueSize THEN a ELSE a - QueueSize
  BY <1>4, <1>5, Zenon
<1> QED BY <1>1, <1>2, <1>6 DEF Slots

\* The places after a position are in the ring, they are different until the
\* ring is round, and going on from one of them is going on from the first.
LEMMA AfterProperties ==
  ASSUME NEW p \in Slots
  PROVE  /\ \A i \in 0 .. QueueSize : After(p, i) \in Slots
         /\ After(p, 0) = p
         /\ \A i, j \in 0 .. QueueSize - 1 : After(p, i) = After(p, j) => i = j
         /\ \A m, i \in 0 .. QueueSize :
              m + i <= QueueSize => After(After(p, m), i) = After(p, m + i)
<1> USE DEF Slots
<1>1. QueueSize \in Nat \ {0}
  BY CollectAssumption DEF CollectAssumption
<1>2. \A i \in 0 .. QueueSize : After(p, i) \in Slots
  BY <1>1, Wraps
<1>3. After(p, 0) = p
  BY <1>1, Wraps
<1>4. \A i, j \in 0 .. QueueSize - 1 : After(p, i) = After(p, j) => i = j
  BY <1>1, Wraps
<1>5. ASSUME NEW m \in 0 .. QueueSize, NEW i \in 0 .. QueueSize, m + i <= QueueSize
      PROVE  After(After(p, m), i) = After(p, m + i)
  <2>1. m + i \in 0 .. QueueSize /\ After(p, m) \in Slots
    BY <1>1, <1>2, <1>5
  <2>2. After(p, m) = IF p + m < QueueSize THEN p + m ELSE p + m - QueueSize
    BY Wraps
  <2>3. After(After(p, m), i) = IF After(p, m) + i < QueueSize THEN After(p, m) + i
                                ELSE After(p, m) + i - QueueSize
    BY <2>1, Wraps
  <2>4. After(p, m + i) = IF p + (m + i) < QueueSize THEN p + (m + i)
                          ELSE p + (m + i) - QueueSize
    BY <2>1, Wraps
  <2> QED BY <1>1, <1>5, <2>2, <2>3, <2>4
<1> QED BY <1>2, <1>3, <1>4, <1>5

\* What is read from a ring, and the logs of a sequence of entries, for any ring
\* and any contents of the pool.
Read(e, h, n) == [i \in 1..n |-> e[After(h, i - 1)]]
Contents(f, s) == [i \in DOMAIN s |-> f[s[i]]]

\* What is read from the ring is a sequence.
LEMMA RingProperties ==
  ASSUME NEW e, NEW h \in Slots, NEW n \in 0 .. QueueSize,
         \A i \in 0 .. n - 1 : e[After(h, i)] \in Slots
  PROVE  /\ Read(e, h, n) \in Seq(Slots) /\ Len(Read(e, h, n)) = n
         /\ Elements(Read(e, h, n)) = {e[After(h, i)] : i \in 0 .. n - 1}
<1> DEFINE seq == [i \in 1..n |-> e[After(h, i - 1)]]
<1>1. n \in Nat
  BY CollectAssumption DEF CollectAssumption
<1>2. \A i \in 1..n : i - 1 \in 0 .. n - 1 /\ seq[i] = e[After(h, i - 1)]
  BY <1>1
<1>3. seq \in Seq(Slots) /\ Len(seq) = n
  BY <1>1, <1>2
<1>4. Elements(seq) = {e[After(h, i)] : i \in 0 .. n - 1}
  <2>1. \A i \in 0 .. n - 1 : i + 1 \in 1..n /\ (i + 1) - 1 = i
    BY <1>1
  <2> QED BY <1>2, <2>1, Zenon DEF Elements
<1> QED BY <1>3, <1>4 DEF Read

\* The elements of a concatenation.
LEMMA ConcatElements ==
  ASSUME NEW S, NEW s \in Seq(S), NEW t \in Seq(S)
  PROVE  Elements(s \o t) = Elements(s) \cup Elements(t)
<1>1. /\ s \o t \in Seq(S) /\ Len(s) \in Nat /\ Len(t) \in Nat
      /\ DOMAIN s = 1 .. Len(s) /\ DOMAIN t = 1 .. Len(t)
      /\ DOMAIN (s \o t) = 1 .. Len(s) + Len(t)
  BY ConcatProperties, LenProperties
<1>2. \A i \in 1 .. Len(s) : i \in DOMAIN (s \o t) /\ (s \o t)[i] = s[i]
  BY <1>1, ConcatProperties
<1>3. \A i \in 1 .. Len(t) : Len(s) + i \in DOMAIN (s \o t) /\ (s \o t)[Len(s) + i] = t[i]
  BY <1>1, ConcatProperties
<1>4. \A i \in DOMAIN (s \o t) : i \in DOMAIN s \/ i - Len(s) \in DOMAIN t
  BY <1>1
<1>5. \A i \in DOMAIN (s \o t) : i \notin DOMAIN s => Len(s) + (i - Len(s)) = i
  BY <1>1
<1> QED BY <1>1, <1>2, <1>3, <1>4, <1>5 DEF Elements

\* The logs of a sequence of entries are a sequence.
LEMMA LogsProperties ==
  ASSUME NEW f \in [Slots -> Nat], NEW s \in Seq(Slots)
  PROVE  /\ Contents(f, s) \in Seq(Nat) /\ Len(Contents(f, s)) = Len(s)
         /\ \A i \in 1 .. Len(s) : Contents(f, s)[i] = f[s[i]]
         /\ Elements(Contents(f, s)) = {f[x] : x \in Elements(s)}
<1> DEFINE logs == [i \in DOMAIN s |-> f[s[i]]]
<1>1. DOMAIN s = 1 .. Len(s) /\ Len(s) \in Nat /\ \A i \in 1 .. Len(s) : s[i] \in Slots
  BY LenProperties, ElementOfSeq
<1>2. logs \in Seq(Nat) /\ Len(logs) = Len(s) /\ DOMAIN logs = DOMAIN s
  BY <1>1
<1>3. \A i \in 1 .. Len(s) : logs[i] = f[s[i]]
  BY <1>1
<1>4. Elements(logs) = {f[x] : x \in Elements(s)}
  BY <1>1, <1>2, <1>3, Zenon DEF Elements
<1> QED BY <1>2, <1>3, <1>4 DEF Contents
-----------------------------------------------------------------------------
\* What ring and line look like while the types hold.
LineShape ==
  /\ InRing \in Seq(Slots) /\ Len(InRing) = count
  /\ Elements(InRing) = RingSlots
  /\ Line \in Seq(Slots) /\ Len(Line) = Len(batch) + count
  /\ Elements(Line) = Elements(batch) \cup RingSlots
  /\ LogsOf(Line) \in Seq(Nat) /\ Len(LogsOf(Line)) = Len(Line)
  /\ \A i \in 1 .. Len(Line) : LogsOf(Line)[i] = msg[Line[i]]
  /\ Elements(LogsOf(Line)) = {msg[s] : s \in Elements(Line)}

\* Between head and count places on, the ring holds pointers into the pool.
LEMMA RingPointers ==
  ASSUME TypeOK, RingOK
  PROVE  \A i \in 0 .. count - 1 : entries[After(head, i)] \in Slots
<1> SUFFICES ASSUME NEW i \in 0 .. count - 1 PROVE entries[After(head, i)] \in Slots
  OBVIOUS
<1>1. i \in 0 .. QueueSize
  BY CollectAssumption DEF CollectAssumption, TypeOK
<1>2. After(head, i) \in Slots
  BY <1>1, AfterProperties DEF TypeOK
<1>3. entries[After(head, i)] # Null
  BY <1>2 DEF RingOK
<1> QED BY <1>2, <1>3 DEF TypeOK

\* Batch and ring are a sequence of as many pointers, and so are their logs.
LEMMA HasLineShape == TypeOK /\ RingOK => LineShape
<1> SUFFICES ASSUME TypeOK, RingOK PROVE LineShape
  OBVIOUS
<1>1. head \in Slots /\ count \in 0 .. QueueSize /\ batch \in Seq(Slots)
  BY DEF TypeOK
<1>2. msg \in [Slots -> Nat]
  BY CollectAssumption DEF CollectAssumption, TypeOK
<1>3. InRing \in Seq(Slots) /\ Len(InRing) = count /\ Elements(InRing) = RingSlots
  <2>1. \A i \in 0 .. count - 1 : entries[After(head, i)] \in Slots
    BY RingPointers
  <2>2. InRing = Read(entries, head, count)
    BY DEF InRing, Read
  <2> QED BY <1>1, <2>1, <2>2, RingProperties DEF RingSlots
<1>4. /\ Line \in Seq(Slots) /\ Len(Line) = Len(batch) + count
      /\ Elements(Line) = Elements(batch) \cup RingSlots
  BY <1>1, <1>3, ConcatProperties, ConcatElements DEF Line
<1>5. /\ LogsOf(Line) \in Seq(Nat) /\ Len(LogsOf(Line)) = Len(Line)
      /\ \A i \in 1 .. Len(Line) : LogsOf(Line)[i] = msg[Line[i]]
      /\ Elements(LogsOf(Line)) = {msg[s] : s \in Elements(Line)}
  <2>1. LogsOf(Line) = Contents(msg, Line)
    BY DEF LogsOf, Contents
  <2> QED BY <1>2, <1>4, <2>1, LogsProperties
<1> QED BY <1>3, <1>4, <1>5 DEF LineShape

\* No entry is twice in the line, so that the pool has as many taken entries as
\* the line is long.
LEMMA OnePlaceEach ==
  ASSUME TypeOK, RingOK, LineOK
  PROVE  /\ \A i, j \in 1 .. Len(Line) : Line[i] = Line[j] => i = j
         /\ IsFiniteSet(used) /\ Cardinality(used) = Len(Line)
<1>1. LineShape
  BY HasLineShape
<1>2. Len(Line) \in Nat /\ DOMAIN Line = 1 .. Len(Line)
  BY <1>1, LenProperties DEF LineShape
<1>3. ASSUME NEW i \in 1 .. Len(Line), NEW j \in 1 .. Len(Line), Line[i] = Line[j], i < j
      PROVE  FALSE
  <2>1. LogsOf(Line)[i] < LogsOf(Line)[j]
    BY <1>1, <1>3 DEF LineShape, LineOK, Ascending
  <2>2. LogsOf(Line)[i] = LogsOf(Line)[j]
    BY <1>1, <1>3 DEF LineShape
  <2>3. LogsOf(Line)[i] \in Nat
    BY <1>1, ElementOfSeq DEF LineShape
  <2> QED BY <2>1, <2>2, <2>3
<1>4. \A i, j \in 1 .. Len(Line) : Line[i] = Line[j] => i = j
  BY <1>2, <1>3
<1>5. ExistsBijection(1 .. Len(Line), used)
  <2>1. \A i \in 1 .. Len(Line) : Line[i] \in used
    BY <1>2 DEF LineOK, Elements
  <2>2. \A s \in used : \E i \in 1 .. Len(Line) : Line[i] = s
    BY <1>2 DEF LineOK, Elements
  <2>3. Line \in [1 .. Len(Line) -> used]
    BY <1>1, <1>2, <2>1, LenProperties DEF LineShape
  <2>4. Line \in Bijection(1 .. Len(Line), used)
    BY <1>4, <2>2, <2>3 DEF Bijection, Injection, Surjection, IsInjective
  <2> QED BY <2>4 DEF ExistsBijection
<1>6. Cardinality(used) = Len(Line)
  BY <1>2, <1>5, FS_CountingElements
<1>7. IsFiniteSet(used)
  BY <1>2, <1>5, FS_NatBijection
<1> QED BY <1>4, <1>6, <1>7

\* While an entry is free, the ring has room.
LEMMA RoomInRing ==
  ASSUME TypeOK, RingOK, LineOK, NEW s \in Slots, s \notin used
  PROVE  Len(batch) + count < QueueSize
<1>1. QueueSize \in Nat \ {0}
  BY CollectAssumption DEF CollectAssumption
<1>2. IsFiniteSet(Slots) /\ Cardinality(Slots) = QueueSize
  BY <1>1, FS_Interval DEF Slots
<1>3. used \in SUBSET Slots /\ used # Slots
  BY DEF TypeOK
<1>4. /\ Cardinality(used) <= Cardinality(Slots)
      /\ Cardinality(used) # Cardinality(Slots)
  BY <1>2, <1>3, FS_Subset
<1>5. Cardinality(used) = Len(batch) + count
  BY OnePlaceEach, HasLineShape DEF LineShape
<1>6. Len(batch) + count \in Int
  BY LenProperties, <1>1 DEF TypeOK
<1> QED BY <1>1, <1>2, <1>4, <1>5, <1>6
-----------------------------------------------------------------------------
\* A batch that is being processed, or flushed, gets no more entries.
LEMMA Standing ==
  ASSUME TypeOK, ~MayCollect
  PROVE  /\ Moving = 0 /\ Filled = batch
         /\ Drained => UNCHANGED ring
<1>1. Moving = 0
  BY DEF Moving
<1>2. Taken = <<>>
  BY <1>1 DEF Taken
<1>3. Filled = batch
  BY <1>2, ConcatEmptySeq DEF Filled, TypeOK
<1>4. ASSUME Drained PROVE UNCHANGED ring
  <2>1. entries' = entries
    BY <1>1, <1>4 DEF Drained, TypeOK
  <2>2. head' = head
    BY <1>1, <1>4, AfterProperties DEF Drained, TypeOK
  <2>3. count' = count /\ tail' = tail
    BY <1>1, <1>4 DEF Drained, TypeOK
  <2> QED BY <2>1, <2>2, <2>3 DEF ring
<1> QED BY <1>1, <1>3, <1>4

\* No more entries move than the ring has and the batch takes.
LEMMA MovingType ==
  ASSUME TypeOK
  PROVE  /\ Moving \in 0 .. count /\ Len(batch) + Moving <= BatchSize
         /\ Len(batch) \in 0 .. BatchSize /\ count \in 0 .. QueueSize
         /\ BatchSize \in Nat /\ QueueSize \in Nat
<1>1. BatchSize \in Nat /\ QueueSize \in Nat
  BY CollectAssumption DEF CollectAssumption
<1>2. Len(batch) \in 0 .. BatchSize /\ count \in 0 .. QueueSize
  BY <1>1, LenProperties DEF TypeOK
<1> QED BY <1>1, <1>2 DEF Moving, MinOf

\* The ring keeps the entries that do not move, at the same places.
LEMMA DrainedRing ==
  ASSUME TypeOK, RingOK, Drained
  PROVE  /\ head' \in Slots /\ count' \in 0 .. QueueSize
         /\ entries' \in [Slots -> Slots \cup {Null}]
         /\ RingOK'
         /\ \A i \in 0 .. count' - 1 :
              entries'[After(head', i)] = entries[After(head, Moving + i)]
<1> DEFINE m == Moving
<1>1. m \in 0 .. count /\ count \in 0 .. QueueSize /\ QueueSize \in Nat
  BY MovingType
<1>2. head \in Slots /\ entries \in [Slots -> Slots \cup {Null}]
  BY DEF TypeOK
<1>3. head' = After(head, m) /\ count' = count - m /\ tail' = tail
  BY DEF Drained
<1>4. \A s \in Slots : entries'[s] = IF \E i \in 0 .. m - 1 : s = After(head, i)
                                     THEN Null ELSE entries[s]
  BY DEF Drained
<1>5. head' \in Slots /\ count' \in 0 .. QueueSize
  BY <1>1, <1>2, <1>3, AfterProperties
<1>6. entries' \in [Slots -> Slots \cup {Null}]
  BY <1>2 DEF Drained
<1> HIDE DEF m
<1>7. \A i \in 0 .. count - m : After(head', i) = After(head, m + i)
  BY <1>1, <1>2, <1>3, AfterProperties
<1>8. tail' = After(head', count')
  <2>1. count' \in 0 .. count - m /\ m + count' = count
    BY <1>1, <1>3
  <2> QED BY <1>3, <1>7, <2>1 DEF RingOK
<1>9. \A i \in m .. count - 1 : entries'[After(head, i)] = entries[After(head, i)]
  <2> SUFFICES ASSUME NEW i \in m .. count - 1
               PROVE  entries'[After(head, i)] = entries[After(head, i)]
    OBVIOUS
  <2>1. i \in 0 .. QueueSize - 1 /\ \A j \in 0 .. m - 1 : j \in 0 .. QueueSize - 1 /\ j # i
    BY <1>1
  <2>2. After(head, i) \in Slots /\ \A j \in 0 .. m - 1 : After(head, i) # After(head, j)
    BY <1>1, <1>2, <2>1, AfterProperties
  <2> QED BY <1>4, <2>2
<1>10. \A i \in 0 .. count' - 1 : entries'[After(head', i)] = entries[After(head, m + i)]
  <2> SUFFICES ASSUME NEW i \in 0 .. count' - 1
               PROVE  entries'[After(head', i)] = entries[After(head, m + i)]
    OBVIOUS
  <2>1. i \in 0 .. count - m /\ m + i \in m .. count - 1
    BY <1>1, <1>3
  <2> QED BY <1>7, <1>9, <2>1
<1>11. ASSUME NEW p \in Slots
       PROVE  entries'[p] # Null <=> \E i \in 0 .. count' - 1 : p = After(head', i)
  <2>1. CASE \E i \in 0 .. m - 1 : p = After(head, i)
    <3>1. PICK j \in 0 .. m - 1 : p = After(head, j)
      BY <2>1
    <3>2. entries'[p] = Null
      BY <1>4, <2>1
    <3>3. ASSUME NEW i \in 0 .. count' - 1 PROVE p # After(head', i)
      <4>1. i \in 0 .. count - m /\ m + i \in 0 .. QueueSize - 1
            /\ j \in 0 .. QueueSize - 1 /\ m + i # j
        BY <1>1, <1>3
      <4>2. After(head, m + i) # After(head, j)
        BY <1>2, <4>1, AfterProperties
      <4> QED BY <1>7, <3>1, <4>1, <4>2
    <3> QED BY <3>2, <3>3
  <2>2. CASE ~ \E i \in 0 .. m - 1 : p = After(head, i)
    <3>1. entries'[p] = entries[p]
      BY <1>4, <2>2
    <3>2. entries[p] # Null <=> \E i \in 0 .. count - 1 : p = After(head, i)
      BY DEF RingOK
    <3>3. ASSUME NEW i \in 0 .. count - 1, p = After(head, i)
          PROVE  \E k \in 0 .. count' - 1 : p = After(head', k)
      <4>1. ~(i \in 0 .. m - 1)
        BY <2>2, <3>3
      <4>2. i - m \in 0 .. count' - 1 /\ i - m \in 0 .. count - m /\ m + (i - m) = i
        BY <1>1, <1>3, <4>1
      <4>3. p = After(head', i - m)
        BY <1>7, <3>3, <4>2
      <4> QED BY <4>2, <4>3
    <3>4. ASSUME NEW k \in 0 .. count' - 1, p = After(head', k)
          PROVE  \E i \in 0 .. count - 1 : p = After(head, i)
      <4>1. m + k \in 0 .. count - 1 /\ k \in 0 .. count - m
        BY <1>1, <1>3
      <4> QED BY <1>7, <3>4, <4>1
    <3> QED BY <3>1, <3>2, <3>3, <3>4
  <2> QED BY <2>1, <2>2
<1> QED BY <1>5, <1>6, <1>8, <1>10, <1>11 DEF RingOK, m

\* Entries that move from the ring to the batch stay where they are in the line.
LEMMA LineKept ==
  ASSUME TypeOK, RingOK, Drained
  PROVE  /\ Filled \in Seq(Slots) /\ Len(Filled) <= BatchSize
         /\ Filled \o InRing' = Line
<1> DEFINE m == Moving
           b == Len(batch)
<1>1. /\ m \in 0 .. count /\ count \in 0 .. QueueSize /\ b \in Nat
      /\ QueueSize \in Nat /\ BatchSize \in Nat /\ b + m <= BatchSize
  BY MovingType
<1>2. count' = count - m
  BY DEF Drained
<1>3. /\ InRing \in Seq(Slots) /\ Len(InRing) = count
      /\ Line \in Seq(Slots) /\ Len(Line) = b + count
  BY HasLineShape DEF LineShape
<1>4. batch \in Seq(Slots)
  BY DEF TypeOK
<1>5. \A i \in 0 .. count - 1 : entries[After(head, i)] \in Slots
  BY RingPointers
<1>6. Taken = Read(entries, head, m)
  BY DEF Taken, Read
<1>7. m \in 0 .. QueueSize /\ \A i \in 0 .. m - 1 : i \in 0 .. count - 1
  BY <1>1
<1>8. Taken \in Seq(Slots) /\ Len(Taken) = m
  BY <1>5, <1>6, <1>7, RingProperties DEF TypeOK
<1>9. Filled \in Seq(Slots) /\ Len(Filled) = b + m
  BY <1>4, <1>8, ConcatProperties DEF Filled
<1>10. \A i \in 0 .. count' - 1 : entries'[After(head', i)] = entries[After(head, m + i)]
  BY DrainedRing
<1>11. InRing' = Read(entries', head', count')
  BY DEF InRing, Read
<1>12. InRing' \in Seq(Slots) /\ Len(InRing') = count'
  <2>1. \A i \in 0 .. count' - 1 : m + i \in 0 .. count - 1
    BY <1>1, <1>2
  <2>2. \A i \in 0 .. count' - 1 : entries'[After(head', i)] \in Slots
    BY <1>5, <1>10, <2>1
  <2>3. head' \in Slots /\ count' \in 0 .. QueueSize
    BY DrainedRing
  <2> QED BY <1>11, <2>2, <2>3, RingProperties
<1> HIDE DEF m, b
<1>13. \A i \in 1 .. m : Taken[i] = InRing[i]
  BY <1>1 DEF Taken, InRing, m
<1>14. \A i \in 1 .. count' : InRing'[i] = InRing[m + i]
  <2> SUFFICES ASSUME NEW i \in 1 .. count' PROVE InRing'[i] = InRing[m + i]
    OBVIOUS
  <2>1. /\ i - 1 \in 0 .. count' - 1 /\ m + i \in 1 .. count
        /\ m + (i - 1) = (m + i) - 1
    BY <1>1, <1>2
  <2>2. InRing'[i] = entries'[After(head', i - 1)]
    BY DEF InRing
  <2>3. InRing[m + i] = entries[After(head, (m + i) - 1)]
    BY <2>1 DEF InRing
  <2>4. InRing'[i] = entries[After(head, m + (i - 1))]
    BY <1>10, <2>1, <2>2
  <2> QED BY <2>1, <2>3, <2>4, Zenon
<1>15. Filled \o InRing' \in Seq(Slots) /\ Len(Filled \o InRing') = b + count
  <2>1. /\ Filled \o InRing' \in Seq(Slots)
        /\ Len(Filled \o InRing') = Len(Filled) + Len(InRing')
    BY <1>9, <1>12, ConcatProperties
  <2> QED BY <1>1, <1>2, <1>9, <1>12, <2>1
<1>16. ASSUME NEW i \in 1 .. b + count PROVE (Filled \o InRing')[i] = Line[i]
  <2>1. (Filled \o InRing')[i] = IF i <= b + m THEN Filled[i] ELSE InRing'[i - (b + m)]
    <3>1. i \in 1 .. Len(Filled) + Len(InRing')
      BY <1>1, <1>2, <1>9, <1>12
    <3>2. (Filled \o InRing')[i] = IF i <= Len(Filled) THEN Filled[i]
                                   ELSE InRing'[i - Len(Filled)]
      BY <1>9, <1>12, <3>1, ConcatProperties
    <3> QED BY <1>9, <3>2
  <2>2. Line[i] = IF i <= b THEN batch[i] ELSE InRing[i - b]
    BY <1>3, <1>4, ConcatProperties DEF Line, b
  <2>3. CASE i <= b
    <3>1. Filled[i] = batch[i]
      BY <1>1, <1>4, <1>8, <2>3, ConcatProperties DEF Filled, b
    <3> QED BY <1>1, <2>1, <2>2, <2>3, <3>1
  <2>4. CASE b < i /\ i <= b + m
    <3>1. Filled[i] = Taken[i - b]
      BY <1>1, <1>4, <1>8, <2>4, ConcatProperties DEF Filled, b
    <3>2. i - b \in 1 .. m
      BY <1>1, <2>4
    <3>3. ~(i <= b) /\ i <= b + m
      BY <1>1, <2>4
    <3>4. Taken[i - b] = InRing[i - b]
      BY <1>13, <3>2
    <3> QED BY <2>1, <2>2, <3>1, <3>3, <3>4, Zenon
  <2>5. CASE b + m < i
    <3>1. i - (b + m) \in 1 .. count' /\ m + (i - (b + m)) = i - b
      BY <1>1, <1>2, <2>5
    <3>2. InRing'[i - (b + m)] = InRing[i - b]
      BY <1>14, <3>1
    <3>3. ~(i <= b) /\ ~(i <= b + m)
      BY <1>1, <2>5
    <3> QED BY <2>1, <2>2, <3>2, <3>3, Zenon
  <2>6. i <= b \/ (b < i /\ i <= b + m) \/ b + m < i
    BY <1>1
  <2> QED BY <2>3, <2>4, <2>5, <2>6, Zenon
<1>17. Filled \o InRing' = Line
  BY <1>3, <1>15, <1>16, SeqEqual
<1> QED BY <1>1, <1>9, <1>17

\* A log that is stored has its entry at the end of the ring, and of the line.
LEMMA StoredRing ==
  ASSUME TypeOK, RingOK, LineOK, NEW s \in Slots, s \notin used, NEW n \in Nat,
         msg' = [msg EXCEPT ![s] = n],
         entries' = [entries EXCEPT ![tail] = s], tail' = After(tail, 1),
         count' = count + 1, head' = head, batch' = batch
  PROVE  /\ count' \in 0 .. QueueSize /\ tail' \in Slots
         /\ entries' \in [Slots -> Slots \cup {Null}]
         /\ RingOK'
         /\ Line' = Append(Line, s) /\ LogsOf(Line)' = Append(LogsOf(Line), n)
<1>1. /\ count + 1 \in 0 .. QueueSize /\ count \in 0 .. QueueSize - 1
      /\ count \in Nat /\ QueueSize \in Nat
  BY MovingType, RoomInRing
<1>2. /\ head \in Slots /\ tail \in Slots /\ s # Null
      /\ entries \in [Slots -> Slots \cup {Null}]
  BY CollectAssumption DEF CollectAssumption, TypeOK, Slots
<1>3. tail = After(head, count)
  BY DEF RingOK
<1>4. count \in 0 .. QueueSize /\ 1 \in 0 .. QueueSize /\ count + 1 <= QueueSize
  BY <1>1
<1>5. tail' \in Slots /\ tail' = After(head, count + 1)
  <2>1. After(After(head, count), 1) = After(head, count + 1)
    BY <1>2, <1>4, AfterProperties
  <2>2. After(head, count + 1) \in Slots
    BY <1>1, <1>2, AfterProperties
  <2> QED BY <1>3, <2>1, <2>2
<1>6. entries' \in [Slots -> Slots \cup {Null}] /\ entries'[tail] = s
  BY <1>2
<1>7. \A i \in 0 .. count - 1 : After(head, i) # tail /\ After(head, i) \in Slots
  <2> SUFFICES ASSUME NEW i \in 0 .. count - 1
               PROVE  After(head, i) # tail /\ After(head, i) \in Slots
    OBVIOUS
  <2>1. /\ i \in 0 .. QueueSize - 1 /\ i \in 0 .. QueueSize
        /\ count \in 0 .. QueueSize - 1 /\ i # count
    BY <1>1
  <2> QED BY <1>2, <1>3, <2>1, AfterProperties
<1>8. \A i \in 0 .. count - 1 : entries'[After(head, i)] = entries[After(head, i)]
  BY <1>2, <1>7
<1>9. \A p \in Slots : entries'[p] # Null <=> \E i \in 0 .. count' - 1 : p = After(head', i)
  <2> SUFFICES ASSUME NEW p \in Slots
               PROVE  entries'[p] # Null <=> \E i \in 0 .. count' - 1 : p = After(head, i)
    OBVIOUS
  <2>1. 0 .. count' - 1 = (0 .. count - 1) \cup {count}
    BY <1>1
  <2>2. CASE p = tail
    BY <1>2, <1>3, <1>6, <2>1, <2>2
  <2>3. CASE p # tail
    <3>1. entries'[p] = entries[p]
      BY <1>2, <2>3
    <3>2. entries[p] # Null <=> \E i \in 0 .. count - 1 : p = After(head, i)
      BY DEF RingOK
    <3> QED BY <1>3, <2>1, <2>3, <3>1, <3>2
  <2> QED BY <2>2, <2>3
<1>10. RingOK'
  BY <1>5, <1>9 DEF RingOK
<1>11. LineShape
  BY HasLineShape
<1>12. InRing' = Append(InRing, s)
  <2>1. InRing \in Seq(Slots) /\ Len(InRing) = count
    BY <1>11 DEF LineShape
  <2>2. /\ Append(InRing, s) \in Seq(Slots) /\ Len(Append(InRing, s)) = count + 1
        /\ \A i \in 1 .. count : Append(InRing, s)[i] = InRing[i]
        /\ Append(InRing, s)[count + 1] = s
    BY <2>1, AppendProperties
  <2>3. InRing' = Read(entries', head, count + 1)
    BY DEF InRing, Read
  <2>4. \A i \in 0 .. (count + 1) - 1 : entries'[After(head, i)] \in Slots
    <3>1. 0 .. (count + 1) - 1 = (0 .. count - 1) \cup {count}
      BY <1>1
    <3> QED BY <1>3, <1>6, <1>8, <3>1, RingPointers
  <2>5. InRing' \in Seq(Slots) /\ Len(InRing') = count + 1
    BY <1>1, <1>2, <2>3, <2>4, RingProperties
  <2>6. ASSUME NEW i \in 1 .. count + 1 PROVE InRing'[i] = Append(InRing, s)[i]
    <3>1. InRing'[i] = entries'[After(head, i - 1)]
      BY DEF InRing
    <3>2. CASE i \in 1 .. count
      <4>1. i - 1 \in 0 .. count - 1
        BY <1>1, <3>2
      <4>2. InRing[i] = entries[After(head, i - 1)]
        BY <3>2 DEF InRing
      <4> QED BY <1>8, <2>2, <3>1, <3>2, <4>1, <4>2
    <3>3. CASE i = count + 1
      <4>1. i - 1 = count
        BY <1>1, <3>3
      <4> QED BY <1>3, <1>6, <2>2, <3>1, <3>3, <4>1
    <3>4. i \in 1 .. count \/ i = count + 1
      BY <1>1
    <3> QED BY <3>2, <3>3, <3>4, Zenon
  <2> QED BY <2>2, <2>5, <2>6, SeqEqual
<1>13. Line' = Append(Line, s)
  <2>1. batch \in Seq(Slots) /\ InRing \in Seq(Slots) /\ <<s>> \in Seq(Slots)
    BY <1>11 DEF LineShape, TypeOK
  <2>2. Line \o <<s>> = batch \o (InRing \o <<s>>)
    BY <2>1, ConcatAssociative DEF Line
  <2>3. InRing \o <<s>> = Append(InRing, s) /\ Line \o <<s>> = Append(Line, s)
    BY <1>11, AppendIsConcat DEF LineShape
  <2> QED BY <1>12, <2>2, <2>3 DEF Line
<1>14. LogsOf(Line)' = Append(LogsOf(Line), n)
  <2> DEFINE k == Len(Line)
  <2>1. /\ Line \in Seq(Slots) /\ k \in Nat /\ DOMAIN Line = 1 .. k
        /\ LogsOf(Line) \in Seq(Nat) /\ Len(LogsOf(Line)) = k
        /\ \A i \in 1 .. k : LogsOf(Line)[i] = msg[Line[i]]
        /\ \A i \in 1 .. k : Line[i] \in used
    BY <1>11, LenProperties DEF LineShape, LineOK, Elements
  <2>2. msg \in [Slots -> Nat] /\ msg' \in [Slots -> Nat]
    BY CollectAssumption DEF CollectAssumption, TypeOK
  <2>3. /\ Append(Line, s) \in Seq(Slots) /\ Len(Append(Line, s)) = k + 1
        /\ \A i \in 1 .. k : Append(Line, s)[i] = Line[i]
        /\ Append(Line, s)[k + 1] = s
    BY <2>1, AppendProperties
  <2>4. LogsOf(Line)' = Contents(msg', Append(Line, s))
    BY <1>13 DEF LogsOf, Contents
  <2>5. /\ LogsOf(Line)' \in Seq(Nat) /\ Len(LogsOf(Line)') = k + 1
        /\ \A i \in 1 .. k + 1 : LogsOf(Line)'[i] = msg'[Append(Line, s)[i]]
    <3> DEFINE longer == Append(Line, s)
    <3>1. longer \in Seq(Slots) /\ Len(longer) = k + 1
      BY <2>3
    <3> HIDE DEF longer
    <3>2. /\ Contents(msg', longer) \in Seq(Nat) /\ Len(Contents(msg', longer)) = Len(longer)
          /\ \A i \in 1 .. Len(longer) : Contents(msg', longer)[i] = msg'[longer[i]]
      BY <2>2, <3>1, LogsProperties
    <3>3. LogsOf(Line)' = Contents(msg', longer)
      BY <2>4 DEF longer
    <3>4. /\ LogsOf(Line)' \in Seq(Nat) /\ Len(LogsOf(Line)') = k + 1
          /\ \A i \in 1 .. k + 1 : LogsOf(Line)'[i] = msg'[longer[i]]
      BY <3>1, <3>2, <3>3
    <3> QED BY <3>4 DEF longer
  <2>6. /\ Append(LogsOf(Line), n) \in Seq(Nat) /\ Len(Append(LogsOf(Line), n)) = k + 1
        /\ \A i \in 1 .. k : Append(LogsOf(Line), n)[i] = LogsOf(Line)[i]
        /\ Append(LogsOf(Line), n)[k + 1] = n
    BY <2>1, AppendProperties
  <2> HIDE DEF k
  <2>7. ASSUME NEW i \in 1 .. k + 1 PROVE LogsOf(Line)'[i] = Append(LogsOf(Line), n)[i]
    <3>1. CASE i \in 1 .. k
      <4>1. Line[i] # s /\ Line[i] \in Slots
        BY <2>1, <3>1 DEF TypeOK
      <4>2. msg'[Line[i]] = msg[Line[i]]
        BY <2>2, <4>1
      <4> QED BY <2>1, <2>3, <2>5, <2>6, <3>1, <4>2
    <3>2. CASE i = k + 1
      <4>1. msg'[s] = n
        BY <2>2
      <4> QED BY <2>3, <2>5, <2>6, <3>2, <4>1
    <3> QED BY <2>1, <3>1, <3>2
  <2> QED BY <2>5, <2>6, <2>7, SeqEqual
<1> QED BY <1>1, <1>5, <1>6, <1>10, <1>13, <1>14

\* The taken entries hold different logs.
LEMMA OneLogEach ==
  ASSUME TypeOK, RingOK, LineOK
  PROVE  \A s, t \in used : msg[s] = msg[t] => s = t
<1> SUFFICES ASSUME NEW s \in used, NEW t \in used, msg[s] = msg[t], s # t PROVE FALSE
  OBVIOUS
<1>1. LineShape
  BY HasLineShape
<1>2. Len(Line) \in Nat /\ DOMAIN Line = 1 .. Len(Line)
  BY <1>1, LenProperties DEF LineShape
<1>3. PICK i \in 1 .. Len(Line) : Line[i] = s
  BY <1>2 DEF LineOK, Elements
<1>4. PICK j \in 1 .. Len(Line) : Line[j] = t
  BY <1>2 DEF LineOK, Elements
<1>5. LogsOf(Line)[i] = LogsOf(Line)[j] /\ LogsOf(Line)[i] \in Nat
  BY <1>1, <1>3, <1>4, ElementOfSeq DEF LineShape
<1>6. i < j \/ j < i
  BY <1>3, <1>4
<1>7. LogsOf(Line)[i] < LogsOf(Line)[j] \/ LogsOf(Line)[j] < LogsOf(Line)[i]
  BY <1>1, <1>6 DEF LineOK, Ascending, LineShape
<1> QED BY <1>5, <1>7

\* The logs of the batch are those at the front of the line.
LEMMA FrontLogs ==
  ASSUME TypeOK, RingOK
  PROVE  /\ LogsOf(batch) \in Seq(Nat) /\ Len(LogsOf(batch)) = Len(batch)
         /\ LogsOf(batch) = SubSeq(LogsOf(Line), 1, Len(batch))
         /\ Elements(LogsOf(batch)) = {msg[s] : s \in Elements(batch)}
<1> DEFINE b == Len(batch)
<1>1. LineShape /\ batch \in Seq(Slots) /\ msg \in [Slots -> Nat]
  BY HasLineShape, CollectAssumption DEF CollectAssumption, TypeOK
<1>2. b \in Nat /\ count \in Nat
  BY <1>1, MovingType
<1>3. LogsOf(batch) = Contents(msg, batch)
  BY DEF LogsOf, Contents
<1>4. /\ LogsOf(batch) \in Seq(Nat) /\ Len(LogsOf(batch)) = b
      /\ \A i \in 1 .. b : LogsOf(batch)[i] = msg[batch[i]]
      /\ Elements(LogsOf(batch)) = {msg[s] : s \in Elements(batch)}
  BY <1>1, <1>3, LogsProperties
<1>5. \A i \in 1 .. b : Line[i] = batch[i] /\ i \in 1 .. Len(Line)
  BY <1>1, <1>2, ConcatProperties DEF LineShape, Line
<1>6. \A i \in 1 .. b : LogsOf(Line)[i] = LogsOf(batch)[i]
  BY <1>1, <1>4, <1>5 DEF LineShape
<1> HIDE DEF b
<1>7. /\ SubSeq(LogsOf(Line), 1, b) \in Seq(Nat)
      /\ Len(SubSeq(LogsOf(Line), 1, b)) = b
      /\ \A i \in 1 .. b : SubSeq(LogsOf(Line), 1, b)[i] = LogsOf(Line)[i]
  <2>1. \A i \in 1 .. b : LogsOf(Line)[i] \in Nat
    BY <1>4, <1>6, ElementOfSeq
  <2>2. 1 \in Int /\ b \in Int /\ b - 1 + 1 = b /\ \A i \in 1 .. b : 1 + i - 1 = i
    BY <1>2
  <2>3. /\ SubSeq(LogsOf(Line), 1, b) \in Seq(Nat)
        /\ Len(SubSeq(LogsOf(Line), 1, b)) = IF 1 <= b THEN b - 1 + 1 ELSE 0
        /\ \A i \in 1 .. b - 1 + 1 : SubSeq(LogsOf(Line), 1, b)[i] = LogsOf(Line)[1 + i - 1]
    BY <2>1, <2>2, SubSeqProperties
  <2> QED BY <1>2, <2>2, <2>3
<1>8. LogsOf(batch) = SubSeq(LogsOf(Line), 1, b)
  BY <1>4, <1>6, <1>7, SeqEqual
<1> QED BY <1>4, <1>8 DEF b

\* No entry is both in the batch and in the ring.
LEMMA BatchNotInRing ==
  ASSUME TypeOK, RingOK, LineOK
  PROVE  Elements(batch) \cap RingSlots = {}
<1> DEFINE b == Len(batch)
<1>1. LineShape /\ batch \in Seq(Slots)
  BY HasLineShape DEF TypeOK
<1>2. b \in Nat /\ count \in Nat /\ DOMAIN batch = 1 .. b
  BY <1>1, MovingType, LenProperties
<1>3. InRing \in Seq(Slots) /\ Len(InRing) = count /\ DOMAIN InRing = 1 .. count
  BY <1>1, LenProperties DEF LineShape
<1>4. \A i \in 1 .. b : i \in 1 .. Len(Line) /\ Line[i] = batch[i]
  BY <1>1, <1>2, <1>3, ConcatProperties DEF LineShape, Line
<1>5. \A i \in 1 .. count : b + i \in 1 .. Len(Line) /\ Line[b + i] = InRing[i]
  BY <1>1, <1>2, <1>3, ConcatProperties DEF LineShape, Line
<1> HIDE DEF b
<1> SUFFICES ASSUME NEW i \in 1 .. b, NEW j \in 1 .. count, batch[i] = InRing[j] PROVE FALSE
  BY <1>1, <1>2, <1>3 DEF LineShape, Elements
<1>6. Line[i] = Line[b + j] /\ i \in 1 .. Len(Line) /\ b + j \in 1 .. Len(Line) /\ i # b + j
  BY <1>2, <1>4, <1>5
<1> QED BY <1>6, OnePlaceEach

\* A batch that is done leaves the front of the line; the ring stays.
LEMMA ForgottenBatch ==
  ASSUME TypeOK, RingOK, LineOK, UNCHANGED ring, Cleared(batch)
  PROVE  /\ msg' \in [Slots -> 0..MaxLogs] /\ used' \subseteq Slots
         /\ RingOK' /\ LineOK'
         /\ used' \cup Elements(batch) = used
         /\ used' \cap Elements(batch) = {}
         /\ \A s \in used' : msg'[s] = msg[s]
         /\ LogsOf(Line)' = SubSeq(LogsOf(Line), Len(batch) + 1, Len(LogsOf(Line)))
<1> DEFINE b == Len(batch)
           n == Len(Line)
<1>1. LineShape /\ batch \in Seq(Slots)
  BY HasLineShape DEF TypeOK
<1>2. /\ b \in Nat /\ count \in Nat /\ DOMAIN batch = 1 .. b
      /\ InRing \in Seq(Slots) /\ Len(InRing) = count /\ DOMAIN InRing = 1 .. count
      /\ n = b + count
  BY <1>1, MovingType, LenProperties DEF LineShape
<1>3. used = Elements(batch) \cup RingSlots /\ Elements(batch) \cap RingSlots = {}
  BY <1>1, BatchNotInRing DEF LineShape, LineOK
<1>4. used' = RingSlots
  BY <1>3 DEF Cleared, Returned
<1>5. msg' \in [Slots -> 0..MaxLogs] /\ used' \subseteq Slots
  BY <1>3, <1>4, CollectAssumption DEF CollectAssumption, Cleared, TypeOK
<1>6. \A s \in RingSlots : msg'[s] = msg[s]
  BY <1>3 DEF Cleared, TypeOK
<1>7. RingOK'
  BY DEF ring, RingOK
<1>8. InRing' = InRing /\ batch' = <<>>
  BY DEF ring, InRing, Cleared
<1>9. Line' = InRing
  BY <1>2, <1>8, ConcatEmptySeq DEF Line
<1>10. used' = Elements(Line)'
  BY <1>1, <1>4, <1>9 DEF LineShape, Elements
<1>11. msg' \in [Slots -> Nat]
  BY <1>5
<1>12. LogsOf(Line)' = Contents(msg', InRing)
  BY <1>9 DEF LogsOf, Contents
<1>13. /\ LogsOf(Line)' \in Seq(Nat) /\ Len(LogsOf(Line)') = count
       /\ \A i \in 1 .. count : LogsOf(Line)'[i] = msg'[InRing[i]]
  BY <1>2, <1>11, <1>12, LogsProperties
<1> HIDE DEF b
<1>14. \A i \in 1 .. count : /\ LogsOf(Line)'[i] = LogsOf(Line)[b + i]
                             /\ b + i \in 1 .. n /\ LogsOf(Line)[b + i] \in Nat
  <2> SUFFICES ASSUME NEW i \in 1 .. count
               PROVE  /\ LogsOf(Line)'[i] = LogsOf(Line)[b + i]
                      /\ b + i \in 1 .. n /\ LogsOf(Line)[b + i] \in Nat
    OBVIOUS
  <2>1. Line[b + i] = InRing[i]
    BY <1>1, <1>2, ConcatProperties DEF Line, b
  <2>2. b + i \in 1 .. n
    BY <1>2
  <2>3. LogsOf(Line)[b + i] = msg[InRing[i]] /\ LogsOf(Line)[b + i] \in Nat
    BY <1>1, <2>1, <2>2, ElementOfSeq DEF LineShape
  <2>4. InRing[i] \in RingSlots
    BY <1>1, <1>2 DEF LineShape, Elements
  <2> QED BY <1>6, <1>13, <2>2, <2>3, <2>4
<1>15. LineOK'
  <2>1. Ascending(LogsOf(Line)')
    <3> SUFFICES ASSUME NEW i \in 1 .. count, NEW j \in 1 .. count, i < j
                 PROVE  LogsOf(Line)'[i] < LogsOf(Line)'[j]
      BY <1>13 DEF Ascending
    <3>1. b + i \in 1 .. Len(LogsOf(Line)) /\ b + j \in 1 .. Len(LogsOf(Line)) /\ b + i < b + j
      BY <1>1, <1>2, <1>14 DEF LineShape
    <3> QED BY <1>14, <3>1 DEF LineOK, Ascending
  <2> QED BY <1>10, <2>1 DEF LineOK
<1>16. LogsOf(Line)' = SubSeq(LogsOf(Line), b + 1, n)
  <2>1. \A i \in b + 1 .. n : LogsOf(Line)[i] \in Nat
    BY <1>1, <1>2, ElementOfSeq DEF LineShape
  <2>2. b + 1 \in Int /\ n \in Int /\ n - (b + 1) + 1 = count /\ (b + 1 <= n <=> count > 0)
    BY <1>2
  <2>3. /\ SubSeq(LogsOf(Line), b + 1, n) \in Seq(Nat)
        /\ Len(SubSeq(LogsOf(Line), b + 1, n)) = count
        /\ \A i \in 1 .. count : SubSeq(LogsOf(Line), b + 1, n)[i] = LogsOf(Line)[(b + 1) + i - 1]
    BY <1>2, <2>1, <2>2, SubSeqProperties
  <2>4. \A i \in 1 .. count : (b + 1) + i - 1 = b + i
    BY <1>2
  <2>5. \A i \in 1 .. count : SubSeq(LogsOf(Line), b + 1, n)[i] = LogsOf(Line)'[i]
    BY <1>14, <2>3, <2>4
  <2> QED BY <1>13, <2>3, <2>5, SeqEqual
<1>17. n = Len(LogsOf(Line))
  BY <1>1 DEF LineShape
<1> QED BY <1>3, <1>4, <1>5, <1>6, <1>7, <1>15, <1>16, <1>17 DEF b

\* What a sequence gains by an element at its end.
LEMMA AppendElements ==
  ASSUME NEW S, NEW seq \in Seq(S), NEW x \in S
  PROVE  Elements(Append(seq, x)) = Elements(seq) \cup {x}
<1>1. <<x>> \in Seq(S) /\ Elements(<<x>>) = {x}
  BY DEF Elements
<1>2. Append(seq, x) = seq \o <<x>>
  BY AppendIsConcat
<1>3. Elements(seq \o <<x>>) = Elements(seq) \cup Elements(<<x>>)
  BY <1>1, ConcatElements
<1> QED BY <1>1, <1>2, <1>3

\* A log that was offered last keeps a line ascending.
LEMMA AppendAscending ==
  ASSUME NEW logs \in Seq(Nat), Ascending(logs), NEW n \in Nat,
         \A i \in 1 .. Len(logs) : logs[i] < n
  PROVE  Ascending(Append(logs, n))
<1> DEFINE k == Len(logs)
           longer == Append(logs, n)
<1>1. /\ k \in Nat /\ Len(longer) = k + 1 /\ longer[k + 1] = n
      /\ \A i \in 1 .. k : longer[i] = logs[i]
  BY LenProperties, AppendProperties
<1>2. \A i, j \in 1 .. k : i < j => logs[i] < logs[j]
  BY DEF Ascending
<1>3. \A i \in 1 .. k : logs[i] < n
  OBVIOUS
<1> HIDE DEF k, longer
<1> SUFFICES ASSUME NEW i \in 1 .. k + 1, NEW j \in 1 .. k + 1, i < j
             PROVE  longer[i] < longer[j]
  BY <1>1 DEF Ascending, longer
<1>4. i \in 1 .. k /\ (j \in 1 .. k \/ j = k + 1)
  BY <1>1
<1>5. CASE j \in 1 .. k
  <2>1. longer[i] = logs[i] /\ longer[j] = logs[j] /\ logs[i] < logs[j]
    BY <1>1, <1>2, <1>4, <1>5
  <2> QED BY <2>1
<1>6. CASE j = k + 1
  <2>1. longer[i] = logs[i] /\ longer[j] = n /\ logs[i] < n
    BY <1>1, <1>3, <1>4, <1>6
  <2> QED BY <2>1
<1> QED BY <1>4, <1>5, <1>6
-----------------------------------------------------------------------------
\* The buffer starts empty.
LEMMA InitInv == Init => BufferInv
<1> SUFFICES ASSUME Init PROVE BufferInv
  OBVIOUS
<1> USE DEF Init
<1>1. QueueSize \in Nat \ {0} /\ BatchSize \in Nat /\ MaxLogs \in Nat
  BY CollectAssumption DEF CollectAssumption
<1>2. TypeOK
  <2>1. 0 \in Slots /\ 0 \in 0 .. QueueSize /\ 0 \in 0 .. MaxLogs /\ 0 \in 0 .. 3
    BY <1>1 DEF Slots
  <2>2. <<>> \in Seq(Slots) /\ <<>> \in Seq(Nat) /\ Len(<<>>) <= BatchSize
    BY <1>1
  <2>3. msg \in [Slots -> 0..MaxLogs] /\ entries \in [Slots -> Slots \cup {Null}]
    BY <2>1
  <2> QED BY <2>1, <2>2, <2>3 DEF TypeOK, States
<1>3. RingOK
  <2>1. After(0, 0) = 0
    BY <1>1, AfterProperties DEF Slots
  <2> QED BY <2>1 DEF RingOK
<1>4. LineShape
  BY <1>2, <1>3, HasLineShape
<1>5. Len(Line) = 0 /\ Elements(Line) = {}
  BY <1>4 DEF LineShape, RingSlots, Elements
<1>6. LineOK
  BY <1>4, <1>5 DEF LineOK, LineShape, Ascending
<1>7. LogsOK
  BY DEF LogsOK
<1>8. BatchOK
  BY DEF BatchOK
<1> QED BY <1>2, <1>3, <1>6, <1>7, <1>8 DEF BufferInv

\* What is left alone by a step that leaves the line and the pool alone.
LEMMA KeptLine ==
  ASSUME BufferInv, Line' = Line, UNCHANGED <<used, msg, offered, refused, lost>>,
         Elements(received) \subseteq Elements(received')
  PROVE  LineOK' /\ LogsOK'
<1>1. LogsOf(Line)' = LogsOf(Line)
  BY DEF LogsOf
<1>2. LineOK'
  BY <1>1 DEF BufferInv, LineOK, Ascending
<1>3. LogsOK'
  <2> USE DEF BufferInv, LogsOK
  <2>1. Elements(received)' = Elements(received')
    BY DEF Elements
  <2> QED BY <2>1
<1> QED BY <1>2, <1>3

\* What reaches the server, if anything does, is added to what it has.
LEMMA ReceivedGrows ==
  ASSUME TypeOK, payload \in Seq(Nat), received' = received \o payload
  PROVE  /\ received' \in Seq(Nat)
         /\ Elements(received') = Elements(received) \cup Elements(payload)
BY ConcatProperties, ConcatElements DEF TypeOK

\* A log that is refused is accounted for.
LEMMA RefusedLog ==
  ASSUME BufferInv, offered < MaxLogs, offered' = offered + 1,
         refused' = refused \cup {offered'},
         UNCHANGED <<pool, ring, context, lost, received>>, UNCHANGED <<phase, failures>>
  PROVE  BufferInv'
<1> USE DEF BufferInv
<1>1. offered \in Nat /\ offered' \in 0..MaxLogs /\ offered' \in Nat
  BY CollectAssumption DEF CollectAssumption, TypeOK
<1>2. TypeOK'
  BY <1>1 DEF TypeOK, pool, ring, context
<1>3. RingOK' /\ Line' = Line
  BY DEF ring, context, RingOK, Line, InRing
<1>4. LineOK'
  <2>1. LogsOf(Line)' = LogsOf(Line) /\ used' = used
    BY <1>3 DEF LogsOf, pool
  <2> QED BY <1>3, <2>1 DEF LineOK, Ascending
<1>5. LogsOK'
  <2>1. 1..offered' = 1..offered \cup {offered'} /\ offered' \notin 1..offered
    BY <1>1
  <2> QED BY <2>1 DEF LogsOK, pool, Elements
<1>6. BatchOK'
  BY DEF BatchOK, context, pool, LogsOf
<1> QED BY <1>2, <1>3, <1>4, <1>5, <1>6

\* A log that is stored is the last of the line.
LEMMA StoredLog ==
  ASSUME BufferInv, offered < MaxLogs, offered' = offered + 1,
         NEW s \in Slots, s \notin used, used' = used \cup {s},
         msg' = [msg EXCEPT ![s] = offered'],
         entries' = [entries EXCEPT ![tail] = s], tail' = After(tail, 1),
         count' = count + 1, head' = head, UNCHANGED context,
         UNCHANGED <<refused, lost, received, phase, failures>>
  PROVE  BufferInv'
<1> USE DEF BufferInv
<1>1. offered \in Nat /\ offered' \in 0..MaxLogs /\ offered' \in Nat
  BY CollectAssumption DEF CollectAssumption, TypeOK
<1>2. batch' = batch
  BY DEF context
<1>3. /\ count' \in 0 .. QueueSize /\ tail' \in Slots
      /\ entries' \in [Slots -> Slots \cup {Null}]
      /\ RingOK'
      /\ Line' = Append(Line, s) /\ LogsOf(Line)' = Append(LogsOf(Line), offered')
  BY <1>1, <1>2, StoredRing
<1>4. TypeOK'
  BY <1>1, <1>3 DEF TypeOK, context
<1>5. LineShape /\ LineShape'
  <2>1. LineShape' 
    BY <1>3, <1>4, HasLineShape, PTL
  <2> QED BY <2>1, HasLineShape
<1>6. \A x \in used : msg'[x] = msg[x]
  BY DEF TypeOK
<1>7. msg'[s] = offered'
  BY DEF TypeOK
<1>8. LineOK'
  <2>1. Line \in Seq(Slots) /\ LogsOf(Line) \in Seq(Nat) /\ used = Elements(Line)
    BY <1>5 DEF LineShape, LineOK
  <2>2. used' = Elements(Line)'
    <3>1. Elements(Line') = Elements(Line) \cup {s}
      BY <1>3, <2>1, AppendElements
    <3> QED BY <2>1, <3>1 DEF Elements
  <2>3. ASSUME NEW i \in 1 .. Len(LogsOf(Line)) PROVE LogsOf(Line)[i] < offered'
    <3>1. DOMAIN Line = 1 .. Len(Line) /\ Len(LogsOf(Line)) = Len(Line)
      BY <1>5, <2>1, LenProperties DEF LineShape
    <3>2. LogsOf(Line)[i] = msg[Line[i]] /\ Line[i] \in used
      BY <1>5, <2>1, <3>1 DEF LineShape, Elements
    <3>3. LogsOf(Line)[i] \in 1..offered
      BY <3>2 DEF LogsOK
    <3> QED BY <1>1, <3>3
  <2>4. Ascending(LogsOf(Line)')
    <3>1. Ascending(LogsOf(Line)) /\ offered' \in Nat
      BY <1>1 DEF LineOK
    <3> DEFINE logs == LogsOf(Line)
    <3>2. logs \in Seq(Nat) /\ Ascending(logs) /\ \A i \in 1 .. Len(logs) : logs[i] < offered'
      BY <2>1, <2>3, <3>1
    <3> HIDE DEF logs
    <3>3. Ascending(Append(logs, offered'))
      BY <3>1, <3>2, AppendAscending
    <3> QED BY <1>3, <3>3 DEF logs
  <2> QED BY <2>2, <2>4 DEF LineOK
<1>9. LogsOK'
  <2>1. 1..offered' = 1..offered \cup {offered'} /\ offered' \notin 1..offered
        /\ offered' \in 1..offered'
    BY <1>1
  <2>2. \A x \in used' : msg'[x] \in 1..offered' /\ msg'[x] \notin refused \cup lost
    BY <1>6, <1>7, <2>1 DEF LogsOK
  <2>3. {msg'[x] : x \in used'} = {msg[x] : x \in used} \cup {offered'}
    BY <1>6, <1>7
  <2> QED BY <2>1, <2>2, <2>3 DEF LogsOK, Elements
<1>10. BatchOK'
  <2>1. LogsOf(batch)' = LogsOf(batch)
    <3>1. \A i \in DOMAIN batch : batch[i] \in used
      BY <1>5 DEF LineShape, LineOK, Elements
    <3> QED BY <1>2, <1>6, <3>1 DEF LogsOf
  <2> QED BY <2>1 DEF BatchOK, context
<1> QED BY <1>3, <1>4, <1>8, <1>9, <1>10

\* A log is refused or takes a free entry of the pool.
LEMMA EnqueueStep ==
  ASSUME BufferInv, Enqueue
  PROVE  BufferInv'
<1>1. CASE refused' = refused \cup {offered'} /\ UNCHANGED <<pool, ring>>
  BY <1>1, RefusedLog DEF Enqueue
<1>2. ASSUME NEW s \in Slots, Store(s), ~(count >= QueueSize)
      PROVE  BufferInv'
  BY <1>2, StoredLog DEF Enqueue, Store
<1> QED BY <1>1, <1>2 DEF Enqueue, Store

Phases == {"loop", "final", "flush", "flushing", "over"}

\* The payload is made of the batch it is given.
LEMMA PreparedBatch ==
  ASSUME TypeOK, NEW slots \in Seq(Slots), Prepared(slots), msg' = msg, batch' = slots
  PROVE  /\ state' \in States /\ payload' \in Seq(Nat) \cup {Null}
         /\ state' \in {"sending", "retry"} => payload' = LogsOf(batch)'
<1>1. msg \in [Slots -> Nat]
  BY CollectAssumption DEF CollectAssumption, TypeOK
<1>2. LogsOf(slots) \in Seq(Nat)
  <2>1. LogsOf(slots) = Contents(msg, slots)
    BY DEF LogsOf, Contents
  <2> QED BY <1>1, <2>1, LogsProperties
<1>3. LogsOf(batch)' = LogsOf(slots)
  BY DEF LogsOf
<1> QED BY <1>2, <1>3 DEF Prepared, States

\* HTTP_IDLE: entries may move to the batch, which may start.
LEMMA GatherStep ==
  ASSUME BufferInv, Drained, Gather, UNCHANGED <<offered, refused>>, phase' \in Phases
  PROVE  BufferInv' /\ Line' = Line
<1> USE DEF BufferInv
<1>1. Filled \in Seq(Slots) /\ Len(Filled) <= BatchSize /\ batch' = Filled
  BY LineKept DEF Gather
<1>2. Line' = Line
  BY <1>1, LineKept DEF Line
<1>3. /\ head' \in Slots /\ count' \in 0 .. QueueSize /\ RingOK'
      /\ entries' \in [Slots -> Slots \cup {Null}] /\ tail' = tail
  BY DrainedRing DEF Drained
<1>4. UNCHANGED <<used, msg, offered, refused, lost, received, retryCount, failures>>
  BY DEF Gather, pool
<1>5. LineOK' /\ LogsOK'
  BY <1>2, <1>4, KeptLine
<1>6. /\ state' \in States /\ payload' \in Seq(Nat) \cup {Null}
      /\ BatchOK'
  <2>1. CASE state' = "preparing" /\ UNCHANGED payload /\ Len(Filled) > 0
    BY <1>1, <2>1 DEF TypeOK, States, BatchOK
  <2>2. CASE Prepared(Filled) /\ Len(Filled) > 0
    <3>1. Filled # <<>>
      BY <1>1, <2>2
    <3> QED BY <1>1, <1>4, <2>2, <3>1, PreparedBatch DEF BatchOK
  <2>3. CASE state' = "idle" /\ UNCHANGED payload
    BY <2>3 DEF TypeOK, States, BatchOK
  <2> QED BY <2>1, <2>2, <2>3 DEF Gather
<1>7. TypeOK'
  BY <1>1, <1>3, <1>4, <1>6 DEF TypeOK, Phases
<1> QED BY <1>2, <1>3, <1>5, <1>6, <1>7

\* A batch that is being processed is all that its steps touch.
LEMMA KeepStep ==
  ASSUME BufferInv, Filled = batch, UNCHANGED ring, UNCHANGED <<offered, refused>>,
         phase' \in Phases, Prepare \/ SendFails \/ Wait
  PROVE  BufferInv' /\ Line' = Line
<1> USE DEF BufferInv
<1>1. /\ UNCHANGED <<used, msg, offered, refused, lost>>
      /\ batch' = batch /\ batch # <<>>
  BY DEF Prepare, SendFails, Wait, pool, BatchOK
<1>2. RingOK' /\ Line' = Line
  BY <1>1 DEF ring, RingOK, Line, InRing
<1>3. LogsOf(batch)' = LogsOf(batch)
  BY <1>1 DEF LogsOf
<1>4. /\ received' \in Seq(Nat) /\ Elements(received) \subseteq Elements(received')
      /\ state' \in States /\ retryCount' \in Nat /\ failures' \in 0..3
      /\ payload' \in Seq(Nat) \cup {Null}
      /\ state' \in {"sending", "retry"} => payload' = LogsOf(batch)'
  <2>1. CASE Prepare
    <3>1. batch \in Seq(Slots) /\ Prepared(batch) /\ msg' = msg
      BY <1>1, <2>1 DEF Prepare, TypeOK
    <3> QED BY <1>1, <2>1, <3>1, PreparedBatch DEF Prepare, TypeOK
  <2>2. CASE SendFails
    <3>1. payload = LogsOf(batch) /\ payload \in Seq(Nat) /\ payload' = payload
      BY <2>2, FrontLogs DEF SendFails, BatchOK
    <3>2. received' \in Seq(Nat) /\ Elements(received) \subseteq Elements(received')
      BY <2>2, <3>1, ReceivedGrows DEF SendFails, TypeOK
    <3>3. state' \in States /\ retryCount' \in Nat /\ failures' \in 0..3
      BY <2>2 DEF SendFails, TypeOK, States, Attempts, MinOf
    <3> QED BY <1>3, <3>1, <3>2, <3>3
  <2>3. CASE Wait
    BY <1>3, <2>3 DEF Wait, BatchOK, TypeOK, States
  <2> QED BY <2>1, <2>2, <2>3
<1>5. LineOK' /\ LogsOK'
  BY <1>1, <1>2, <1>4, KeptLine
<1>6. BatchOK'
  BY <1>1, <1>4 DEF BatchOK
<1>7. TypeOK'
  BY <1>1, <1>4 DEF TypeOK, Phases, ring
<1> QED BY <1>2, <1>5, <1>6, <1>7

\* A batch that is delivered or given up is accounted for as a whole.
LEMMA ClearStep ==
  ASSUME BufferInv, Filled = batch, UNCHANGED ring, UNCHANGED <<offered, refused>>,
         phase' \in Phases, SendSucceeds \/ GiveUp
  PROVE  BufferInv'
<1> USE DEF BufferInv
<1>1. Cleared(batch)
  BY DEF SendSucceeds, GiveUp
<1>2. /\ msg' \in [Slots -> 0..MaxLogs] /\ used' \subseteq Slots
      /\ RingOK' /\ LineOK'
      /\ used' \cup Elements(batch) = used /\ used' \cap Elements(batch) = {}
      /\ \A s \in used' : msg'[s] = msg[s]
  BY <1>1, ForgottenBatch
<1> DEFINE logs == {msg[s] : s \in Elements(batch)}
<1>3. LogsOf(batch) \in Seq(Nat) /\ Elements(LogsOf(batch)) = logs
  BY FrontLogs
<1>4. /\ {msg'[s] : s \in used'} \cup logs = {msg[s] : s \in used}
      /\ \A s \in used' : msg'[s] \notin logs
  <2>1. \A s \in used', t \in Elements(batch) : msg[s] # msg[t]
    BY <1>2, OneLogEach
  <2> QED BY <1>2, <2>1
<1>5. logs \subseteq 1..offered
  BY <1>2 DEF LogsOK
<1> HIDE DEF logs
<1>6. /\ received' \in Seq(Nat) /\ lost' \subseteq Nat /\ failures' \in 0..3
      /\ lost' \subseteq lost \cup logs
      /\ lost' \cup Elements(received') = lost \cup Elements(received) \cup logs
  <2>1. CASE SendSucceeds
    <3>1. payload = LogsOf(batch) /\ lost' = lost /\ failures' = 0
      BY <2>1 DEF SendSucceeds, BatchOK
    <3>2. received' \in Seq(Nat) /\ Elements(received') = Elements(received) \cup logs
      BY <1>3, <2>1, <3>1, ReceivedGrows DEF SendSucceeds
    <3> QED BY <3>1, <3>2 DEF TypeOK
  <2>2. CASE GiveUp
    <3>1. lost' = lost \cup logs /\ received' = received /\ failures' = failures
      BY <1>3, <2>2 DEF GiveUp
    <3>2. logs \subseteq Nat
      BY <1>5
    <3> QED BY <3>1, <3>2 DEF TypeOK
  <2> QED BY <2>1, <2>2
<1>7. LogsOK'
  <2>1. \A s \in used' : msg'[s] \in 1..offered /\ msg'[s] \notin refused \cup lost'
    BY <1>2, <1>4, <1>6 DEF LogsOK
  <2>2. refused \cup lost' \subseteq 1..offered
    BY <1>5, <1>6 DEF LogsOK
  <2>3. 1..offered \subseteq refused \cup lost' \cup Elements(received')
                             \cup {msg'[s] : s \in used'}
    BY <1>4, <1>6 DEF LogsOK
  <2>4. Elements(received)' = Elements(received')
    BY DEF Elements
  <2> QED BY <2>1, <2>2, <2>3, <2>4 DEF LogsOK
<1>8. /\ batch' = <<>> /\ state' = "idle" /\ retryCount' = 0 /\ payload' = Null
      /\ Len(<<>>) <= BatchSize /\ <<>> \in Seq(Slots)
  BY <1>1, CollectAssumption DEF CollectAssumption, Cleared
<1>9. BatchOK'
  BY <1>8 DEF BatchOK
<1>10. TypeOK'
  BY <1>2, <1>6, <1>8 DEF TypeOK, Phases, ring, States
<1> QED BY <1>2, <1>7, <1>9, <1>10

\* A tick moves entries and takes a step of the HTTP state machine.
LEMMA TickStep ==
  ASSUME BufferInv, Tick
  PROVE  BufferInv'
<1>1. phase' \in Phases /\ UNCHANGED <<offered, refused>> /\ Drained
  BY DEF Tick, Phases
<1>2. CASE Gather
  BY <1>1, <1>2, GatherStep
<1>3. CASE ~Gather
  <2>1. Advance /\ state # "idle"
    BY <1>3 DEF Tick, Advance, Prepare, SendSucceeds, SendFails, Wait, GiveUp
  <2>2. Filled = batch /\ UNCHANGED ring
    BY <1>1, <2>1, Standing DEF MayCollect, BufferInv
  <2>3. CASE Prepare \/ SendFails \/ Wait
    BY <1>1, <2>2, <2>3, KeepStep
  <2>4. CASE SendSucceeds \/ GiveUp
    BY <1>1, <2>2, <2>4, ClearStep
  <2> QED BY <1>3, <2>1, <2>3, <2>4 DEF Advance
<1> QED BY <1>2, <1>3

\* The cleanup of the batch takes such steps too.
LEMMA FlushStep ==
  ASSUME BufferInv, Flush
  PROVE  BufferInv'
<1>1. phase' \in Phases /\ UNCHANGED <<ring, offered, refused>>
  BY DEF Flush, Phases
<1>2. Filled = batch
  BY Standing DEF MayCollect, BufferInv, Flush
<1>3. CASE Prepare \/ SendFails \/ Wait
  BY <1>1, <1>2, <1>3, KeepStep
<1>4. CASE SendSucceeds
  BY <1>1, <1>2, <1>4, ClearStep
<1> QED BY <1>3, <1>4 DEF Flush

\* The cleanup starts over with the batch as it is.
LEMMA BeginFlushStep ==
  ASSUME BufferInv, BeginFlush
  PROVE  BufferInv' /\ Line' = Line
<1> USE DEF BufferInv
<1>1. UNCHANGED <<used, msg, ring, batch, retryCount, payload, failures, offered, refused, lost, received>>
  BY DEF BeginFlush, pool
<1>2. RingOK' /\ Line' = Line
  BY <1>1 DEF ring, RingOK, Line, InRing
<1>3. Elements(received) \subseteq Elements(received')
  BY <1>1
<1>4. LineOK' /\ LogsOK'
  BY <1>1, <1>2, <1>3, KeptLine
<1>5. TypeOK'
  BY <1>1 DEF BeginFlush, TypeOK, ring, States
<1>6. LogsOf(batch)' = LogsOf(batch)
  BY <1>1 DEF LogsOf
<1>7. BatchOK'
  BY <1>1, <1>6 DEF BeginFlush, BatchOK
<1> QED BY <1>2, <1>4, <1>5, <1>7

\* Whatever was in batch and ring is dropped when the process ends.
LEMMA CloseStep ==
  ASSUME BufferInv, Close
  PROVE  BufferInv'
<1> USE DEF BufferInv
<1>1. /\ QueueSize \in Nat \ {0} /\ BatchSize \in Nat /\ MaxLogs \in Nat
      /\ head \in Slots /\ count \in 0 .. QueueSize
  BY CollectAssumption DEF CollectAssumption, TypeOK
<1>2. LineShape
  BY HasLineShape
<1>3. used = Elements(batch) \cup RingSlots
  BY <1>2 DEF LineShape, LineOK
<1>4. used' = {}
  BY <1>3 DEF Close, Returned, RingSlots
<1>5. lost' = lost \cup {msg[s] : s \in used}
  <2>1. Elements(LogsOf(batch)) = {msg[s] : s \in Elements(batch)}
    BY FrontLogs
  <2>2. {msg[entries[After(head, i)]] : i \in 0 .. count - 1} = {msg[s] : s \in RingSlots}
    BY DEF RingSlots
  <2>3. lost' = lost \cup Elements(LogsOf(batch))
                     \cup {msg[entries[After(head, i)]] : i \in 0 .. count - 1}
    BY DEF Close
  <2> QED BY <1>3, <2>1, <2>2, <2>3
<1>6. /\ batch' = <<>> /\ state' = "idle" /\ retryCount' = 0 /\ payload' = Null
      /\ count' = 0 /\ head' = After(head, count) /\ phase' = "over"
      /\ UNCHANGED <<tail, failures, offered, refused, received>>
      /\ msg' = [s \in Slots |-> 0] /\ entries' = [s \in Slots |-> Null]
  BY DEF Close
<1>7. TypeOK'
  <2>1. msg' \in [Slots -> 0..MaxLogs] /\ entries' \in [Slots -> Slots \cup {Null}]
    BY <1>1, <1>6
  <2>2. head' \in Slots /\ count' \in 0 .. QueueSize
    BY <1>1, <1>6, AfterProperties
  <2>3. batch' \in Seq(Slots) /\ Len(batch') <= BatchSize
    BY <1>1, <1>6
  <2>4. lost' \subseteq Nat
    <3>1. \A s \in used : msg[s] \in Nat
      BY DEF LogsOK
    <3> QED BY <1>5, <3>1 DEF TypeOK
  <2> QED BY <1>4, <1>6, <2>1, <2>2, <2>3, <2>4 DEF TypeOK, States
<1>8. RingOK'
  <2>1. head' \in Slots /\ tail = head'
    BY <1>6, <1>7 DEF TypeOK, RingOK
  <2>2. After(head', 0) = head'
    BY <2>1, AfterProperties
  <2>3. tail' = After(head', count')
    BY <1>6, <2>1, <2>2
  <2> QED BY <1>6, <2>3 DEF RingOK
<1>9. LineOK'
  <2>1. LineShape'
    BY <1>7, <1>8, HasLineShape, PTL
  <2>2. Elements(batch)' = {} /\ RingSlots' = {} /\ Len(batch') = 0
    <3>1. 0 .. 0 - 1 = {}
      OBVIOUS
    <3>2. RingSlots' = {}
      BY <1>6, <3>1, Zenon DEF RingSlots
    <3>3. Elements(batch)' = {} /\ Len(batch') = 0
      BY <1>6 DEF Elements
    <3> QED BY <3>2, <3>3
  <2>3. Elements(Line)' = {} /\ Len(LogsOf(Line)') = 0
    BY <1>6, <2>1, <2>2 DEF LineShape
  <2> QED BY <1>4, <2>3 DEF LineOK, Ascending
<1>10. LogsOK'
  <2>1. Elements(received)' = Elements(received)
    BY <1>6 DEF Elements
  <2> QED BY <1>4, <1>5, <1>6, <2>1 DEF LogsOK
<1>11. BatchOK'
  BY <1>6 DEF BatchOK
<1> QED BY <1>7, <1>8, <1>9, <1>10, <1>11

\* Nothing happens.
LEMMA UnchangedStep ==
  ASSUME BufferInv, UNCHANGED <<pool, ring, context, failures, offered, refused, lost, received>>,
         phase' \in Phases
  PROVE  BufferInv' /\ Line' = Line
<1> USE DEF BufferInv, pool, ring, context
<1>1. RingOK' /\ Line' = Line /\ LogsOf(batch)' = LogsOf(batch)
  BY DEF RingOK, Line, InRing, LogsOf
<1>2. LineOK' /\ LogsOK'
  BY <1>1, KeptLine
<1>3. TypeOK' /\ BatchOK'
  BY <1>1 DEF TypeOK, Phases, BatchOK
<1> QED BY <1>1, <1>2, <1>3

\* Every step keeps the invariant of the buffer.
LEMMA StepInv == BufferInv /\ [Next]_vars => BufferInv'
<1> SUFFICES ASSUME BufferInv, [Next]_vars PROVE BufferInv'
  OBVIOUS
<1>1. CASE Enqueue
  BY <1>1, EnqueueStep
<1>2. CASE Tick
  BY <1>2, TickStep
<1>3. CASE Stop
  BY <1>3, UnchangedStep DEF Stop, Phases
<1>4. CASE BeginFlush
  BY <1>4, BeginFlushStep
<1>5. CASE Flush
  BY <1>5, FlushStep
<1>6. CASE Close
  BY <1>6, CloseStep
<1>7. CASE UNCHANGED vars
  BY <1>7, UnchangedStep DEF vars, BufferInv, TypeOK, Phases
<1> QED BY <1>1, <1>2, <1>3, <1>4, <1>5, <1>6, <1>7 DEF Next

\* It holds of every behaviour.
LEMMA Invariance == Spec => []BufferInv
BY InitInv, StepInv, PTL DEF Spec
-----------------------------------------------------------------------------
\* However logs arrive, batches move and requests end, the ring indices stay in
\* the ring, the pointers in the pool and the batch within its size.
THEOREM BufferTypes == Spec => []TypeOK
<1>1. BufferInv => TypeOK
  BY DEF BufferInv
<1> QED BY <1>1, Invariance, PTL

\* No entry of the pool leaks or is used twice, so that pool and ring are full
\* at the same time.
THEOREM PoolAccounted == Spec => []EntriesAccounted
<1>1. BufferInv => EntriesAccounted
  <2> SUFFICES ASSUME BufferInv PROVE EntriesAccounted
    OBVIOUS
  <2> USE DEF BufferInv
  <2>1. used = Elements(batch) \cup RingSlots /\ Len(Line) = Len(batch) + count
    BY HasLineShape DEF LineShape, LineOK
  <2>2. Cardinality(used) = Len(batch) + count
    BY <2>1, OnePlaceEach
  <2> QED BY <2>1, <2>2 DEF RingOK, EntriesAccounted
<1> QED BY <1>1, Invariance, PTL

\* Every log that was offered is refused, buffered, dropped by a decision of the
\* code or with the server, whatever fails and whenever the process is told to
\* stop.
THEOREM LogsAccounted == Spec => []NothingVanishes
<1>1. BufferInv => NothingVanishes
  <2> SUFFICES ASSUME BufferInv PROVE NothingVanishes
    OBVIOUS
  <2> USE DEF BufferInv
  <2>1. used = Elements(batch) \cup RingSlots
    BY HasLineShape DEF LineShape, LineOK
  <2>2. Buffered = {msg[s] : s \in used}
    BY <2>1 DEF Buffered
  <2> QED BY <2>2 DEF LogsOK, NothingVanishes
<1> QED BY <1>1, Invariance, PTL
-----------------------------------------------------------------------------
\* The window of the pipeline, and what is at the front of its line.
Window == IF state = "idle" THEN 0 ELSE Len(batch)

Promised == [Pipeline!Next]_(Pipeline!vars)

WindowOK ==
  /\ LogsOf(Line) \in Seq(Nat) /\ Len(LogsOf(Line)) = Len(batch) + count
  /\ Window \in 0 .. BatchSize /\ Window <= Len(LogsOf(Line))
  /\ state # "idle" => /\ Window > 0
                       /\ LogsOf(batch) = SubSeq(LogsOf(Line), 1, Window)

\* The logs under way are the front of the line.
LEMMA HasWindow == BufferInv => WindowOK
<1> SUFFICES ASSUME BufferInv PROVE WindowOK
  OBVIOUS
<1> USE DEF BufferInv
<1>1. /\ LogsOf(Line) \in Seq(Nat) /\ Len(LogsOf(Line)) = Len(batch) + count
  BY HasLineShape DEF LineShape
<1>2. Len(batch) \in 0 .. BatchSize /\ count \in Nat /\ BatchSize \in Nat
  BY MovingType
<1>3. state # "idle" => Len(batch) > 0
  BY DEF BatchOK, TypeOK
<1> QED BY <1>1, <1>2, <1>3, FrontLogs DEF Window, WindowOK

\* A log that arrives is one offered to the pipeline.
LEMMA EnqueuePromise ==
  ASSUME BufferInv, Enqueue
  PROVE  Promised
<1> USE DEF BufferInv
<1>1. /\ offered' = offered + 1 /\ received' = received /\ UNCHANGED context
      /\ offered \in Nat /\ offered' \in Nat
  BY CollectAssumption DEF CollectAssumption, Enqueue, TypeOK
<1>2. CASE UNCHANGED <<pool, ring>>
  <2>1. LogsOf(Line)' = LogsOf(Line)
    BY <1>1, <1>2 DEF pool, ring, context, LogsOf, Line, InRing
  <2> QED BY <1>1, <2>1 DEF context, Pipeline!Offer, Pipeline!Next, Promised
<1>3. ASSUME NEW s \in Slots, Store(s), ~(count >= QueueSize)
      PROVE  Promised
  <2>1. LogsOf(Line)' = Append(LogsOf(Line), offered')
    BY <1>1, <1>3, StoredRing DEF Store, context
  <2>2. Len(LogsOf(Line)) < QueueSize
    BY <1>3, RoomInRing, HasWindow DEF Store, WindowOK
  <2> QED BY <1>1, <2>1, <2>2 DEF context, Pipeline!Offer, Pipeline!Next, Promised
<1> QED BY <1>2, <1>3 DEF Enqueue, Store

\* A batch that starts fixes the window.
LEMMA KeepPromise ==
  ASSUME BufferInv, BufferInv', Line' = Line, UNCHANGED <<msg, offered, received>>,
         state # "idle" => state' # "idle" /\ batch' = batch
  PROVE  Promised
<1>1. LogsOf(Line)' = LogsOf(Line)
  BY DEF LogsOf
<1>2. CASE state # "idle"
  <2>1. Window' = Window
    BY <1>2 DEF Window
  <2> QED BY <1>1, <2>1 DEF Pipeline!vars, Promised, Window
<1>3. CASE state = "idle" /\ state' = "idle"
  BY <1>1, <1>3 DEF Pipeline!vars, Promised
<1>4. CASE state = "idle" /\ state' # "idle"
  <2>1. WindowOK'
    BY HasWindow, PTL
  <2>2. Window = 0 /\ Window' \in 1 .. BatchSize /\ Window' <= Len(LogsOf(Line))
    BY <1>1, <1>4, <2>1, CollectAssumption DEF CollectAssumption, Window, WindowOK
  <2> QED BY <1>1, <1>4, <2>2 DEF Window, Pipeline!Fix, Pipeline!Next, Promised
<1> QED BY <1>2, <1>3, <1>4

\* A request sends the window, whether or not its answer is seen.
LEMMA SendPromise ==
  ASSUME BufferInv, BufferInv', Line' = Line, SendFails, Filled = batch, offered' = offered
  PROVE  Promised
<1>1. /\ state = "sending" /\ state' # "idle" /\ batch' = batch /\ msg' = msg
      /\ payload = LogsOf(batch)
  BY DEF SendFails, BufferInv, BatchOK, pool
<1>2. LogsOf(Line)' = LogsOf(Line) /\ Window' = Window
  BY <1>1 DEF LogsOf, Window
<1>3. CASE received' = received
  BY <1>1, <1>3, KeepPromise
<1>4. CASE received' = received \o payload
  <2>1. Window > 0 /\ payload = SubSeq(LogsOf(Line), 1, Window)
    BY <1>1, HasWindow DEF WindowOK
  <2> QED BY <1>2, <1>4, <2>1 DEF Window, Pipeline!Front, Pipeline!Send, Pipeline!Next, Promised
<1> QED BY <1>3, <1>4 DEF SendFails

\* A batch that is done takes the window away.
LEMMA ClearPromise ==
  ASSUME BufferInv, Filled = batch, UNCHANGED ring, offered' = offered,
         SendSucceeds \/ GiveUp
  PROVE  Promised
<1>1. Cleared(batch) /\ state # "idle" /\ state' = "idle" /\ Window = Len(batch)
  BY DEF SendSucceeds, GiveUp, Cleared, Window
<1>2. LogsOf(Line)' = SubSeq(LogsOf(Line), Window + 1, Len(LogsOf(Line)))
  BY <1>1, ForgottenBatch DEF BufferInv
<1>3. Window > 0 /\ LogsOf(batch) = SubSeq(LogsOf(Line), 1, Window) /\ Window' = 0
  BY <1>1, HasWindow DEF WindowOK, Window
<1>4. CASE SendSucceeds
  <2>1. received' = received \o SubSeq(LogsOf(Line), 1, Window)
    BY <1>3, <1>4 DEF SendSucceeds, BufferInv, BatchOK
  <2> QED BY <1>2, <1>3, <2>1 DEF Window, Pipeline!Front, Pipeline!Rest, Pipeline!Send,
                                   Pipeline!Next, Promised
<1>5. CASE GiveUp
  BY <1>2, <1>3, <1>5 DEF GiveUp, Window, Pipeline!Rest, Pipeline!GiveUp, Pipeline!Next, Promised
<1> QED BY <1>4, <1>5

\* A step of the HTTP state machine in which no entry moves.
LEMMA AdvancePromise ==
  ASSUME BufferInv, BufferInv', UNCHANGED ring, UNCHANGED <<offered, refused>>,
         phase' \in Phases, Filled = batch,
         Prepare \/ SendSucceeds \/ SendFails \/ Wait \/ GiveUp
  PROVE  Promised
<1>1. CASE Prepare \/ Wait
  <2>1. Line' = Line
    BY <1>1, KeepStep
  <2>2. msg' = msg /\ received' = received /\ state' # "idle" /\ batch' = batch
    BY <1>1 DEF Prepare, Prepared, Wait, pool
  <2> QED BY <2>1, <2>2, KeepPromise
<1>2. CASE SendFails
  <2>1. Line' = Line
    BY <1>2, KeepStep
  <2> QED BY <1>2, <2>1, SendPromise
<1>3. CASE SendSucceeds \/ GiveUp
  BY <1>3, ClearPromise
<1> QED BY <1>1, <1>2, <1>3

\* A tick is one step of the pipeline or none.
LEMMA TickPromise ==
  ASSUME BufferInv, BufferInv', Tick
  PROVE  Promised
<1>1. phase' \in Phases /\ UNCHANGED <<offered, refused>> /\ Drained
  BY DEF Tick, Phases
<1>2. CASE Gather
  <2>1. Line' = Line /\ msg' = msg /\ received' = received /\ state = "idle"
    BY <1>1, <1>2, GatherStep DEF Gather, pool
  <2> QED BY <1>1, <2>1, KeepPromise
<1>3. CASE ~Gather
  <2>1. Prepare \/ SendSucceeds \/ SendFails \/ Wait \/ GiveUp
    BY <1>3 DEF Tick, Advance
  <2>2. state # "idle"
    BY <2>1 DEF Prepare, SendSucceeds, SendFails, Wait, GiveUp
  <2>3. Filled = batch /\ UNCHANGED ring
    BY <1>1, <2>2, Standing DEF MayCollect, BufferInv
  <2> QED BY <1>1, <2>1, <2>3, AdvancePromise
<1> QED BY <1>2, <1>3

\* The end discards what is left of the line.
LEMMA ClosePromise ==
  ASSUME BufferInv, BufferInv', Close
  PROVE  Promised
<1>1. LogsOf(Line)' = <<>>
  <2>1. WindowOK'
    BY HasWindow, PTL
  <2>2. Len(batch') = 0 /\ count' = 0
    BY DEF Close
  <2> QED BY <2>1, <2>2 DEF WindowOK
<1> QED BY <1>1 DEF Close, Pipeline!Discard, Pipeline!Next, Promised

\* Every step of the buffer is one of the pipeline, or none.
LEMMA StepPromise == BufferInv /\ BufferInv' /\ [Next]_vars => Promised
<1> SUFFICES ASSUME BufferInv, BufferInv', [Next]_vars PROVE Promised
  OBVIOUS
<1>1. CASE Enqueue
  BY <1>1, EnqueuePromise
<1>2. CASE Tick
  BY <1>2, TickPromise
<1>3. CASE Stop \/ UNCHANGED vars
  <2>1. Line' = Line /\ UNCHANGED <<msg, offered, received>> /\ state' = state /\ batch' = batch
    BY <1>3 DEF Stop, vars, pool, ring, context, Line, InRing
  <2> QED BY <2>1, KeepPromise
<1>4. CASE BeginFlush
  <2>1. /\ Line' = Line /\ UNCHANGED <<msg, offered, received>> /\ batch' = batch
        /\ state # "idle" => state' # "idle"
    BY <1>4, BeginFlushStep DEF BeginFlush, pool
  <2> QED BY <2>1, KeepPromise
<1>5. CASE Flush
  <2>1. Filled = batch
    BY <1>5, Standing DEF MayCollect, BufferInv, Flush
  <2> QED BY <1>5, <2>1, AdvancePromise DEF Flush, BufferInv, TypeOK, Phases
<1>6. CASE Close
  BY <1>6, ClosePromise
<1> QED BY <1>1, <1>2, <1>3, <1>4, <1>5, <1>6 DEF Next

\* An empty buffer is an empty line.
LEMMA InitPromise == Init => Pipeline!Init
<1> SUFFICES ASSUME Init PROVE Pipeline!Init
  OBVIOUS
<1>1. WindowOK
  BY InitInv, HasWindow
<1>2. LogsOf(Line) = <<>>
  <2>1. Len(batch) = 0 /\ count = 0
    BY DEF Init
  <2> QED BY <1>1, <2>1 DEF WindowOK
<1> QED BY <1>2 DEF Init, Pipeline!Init

\* Pool, ring, payload and HTTP together are a line with a window: what is sent
\* is the front of the line, whole and fixed until it is delivered or given up,
\* whatever was appended, retried or left unanswered meanwhile.
THEOREM ImplementsPipeline == Spec => Promise
<1>1. BufferInv /\ BufferInv' /\ [Next]_vars => [Pipeline!Next]_(Pipeline!vars)
  BY StepPromise DEF Promised
<1> QED BY <1>1, InitPromise, Invariance, PTL DEF Spec, Promise, Pipeline!Spec
-----------------------------------------------------------------------------
(***************************************************************************)
(* The order in which the server sees the logs.  What it has of the logs   *)
(* that still wait is part of the window, each with all before it.         *)
(***************************************************************************)
Orderly(sv) ==
  \A i, j \in 1 .. Len(sv) :
    i < j /\ sv[j] < sv[i] => \E k \in 1 .. i - 1 : sv[k] = sv[j]

Seen(w, n, sv) ==
  \A i \in 1 .. Len(sv) :
    \/ \A m \in 1 .. Len(w) : sv[i] < w[m]
    \/ \E m \in 1 .. n : sv[i] = w[m] /\ \A k \in 1 .. m - 1 : \E l \in 1 .. i - 1 : sv[l] = w[k]

\* Of waiting logs w, window n, last log offered l and server sv.
Served(w, n, l, sv) ==
  /\ Ascending(w) /\ Seen(w, n, sv) /\ Orderly(sv)
  /\ \A i \in 1 .. Len(w) : w[i] <= l
  /\ \A i \in 1 .. Len(sv) : sv[i] <= l

\* A log that is offered does not come before one that was sent.
LEMMA ServedOffer ==
  ASSUME NEW w \in Seq(Nat), NEW n \in 0 .. Len(w), NEW l \in Nat, NEW sv \in Seq(Nat),
         Served(w, n, l, sv)
  PROVE  Served(w, n, l + 1, sv) /\ Served(Append(w, l + 1), n, l + 1, sv)
<1>1. /\ Len(w) \in Nat /\ \A i \in 1 .. Len(w) : w[i] \in Nat
      /\ Len(sv) \in Nat /\ \A i \in 1 .. Len(sv) : sv[i] \in Nat
  BY LenProperties, ElementOfSeq
<1>2. Served(w, n, l + 1, sv)
  <2>1. \A i \in 1 .. Len(w) : w[i] <= l + 1
    BY <1>1 DEF Served
  <2>2. \A i \in 1 .. Len(sv) : sv[i] <= l + 1
    BY <1>1 DEF Served
  <2> QED BY <2>1, <2>2 DEF Served
<1> DEFINE longer == Append(w, l + 1)
<1>3. /\ Len(longer) = Len(w) + 1 /\ longer[Len(w) + 1] = l + 1
      /\ \A i \in 1 .. Len(w) : longer[i] = w[i]
  BY AppendProperties
<1>4. Ascending(longer)
  <2>1. \A i \in 1 .. Len(w) : w[i] < l + 1
    BY <1>1 DEF Served
  <2>2. Ascending(w) /\ l + 1 \in Nat
    BY DEF Served
  <2> QED BY <2>1, <2>2, AppendAscending
<1> HIDE DEF longer
<1>5. \A i \in 1 .. Len(longer) : i \in 1 .. Len(w) \/ i = Len(w) + 1
  BY <1>1, <1>3
<1>6. \A i \in 1 .. Len(longer) : longer[i] <= l + 1
  BY <1>1, <1>2, <1>3, <1>5 DEF Served
<1>7. Seen(longer, n, sv)
  <2> SUFFICES ASSUME NEW i \in 1 .. Len(sv)
               PROVE  \/ \A m \in 1 .. Len(longer) : sv[i] < longer[m]
                      \/ \E m \in 1 .. n : /\ sv[i] = longer[m]
                                           /\ \A k \in 1 .. m - 1 : \E x \in 1 .. i - 1 : sv[x] = longer[k]
    BY DEF Seen
  <2>1. CASE \A m \in 1 .. Len(w) : sv[i] < w[m]
    <3>1. sv[i] < l + 1
      BY <1>1 DEF Served
    <3> QED BY <1>3, <1>5, <2>1, <3>1
  <2>2. CASE \E m \in 1 .. n : /\ sv[i] = w[m]
                               /\ \A k \in 1 .. m - 1 : \E x \in 1 .. i - 1 : sv[x] = w[k]
    <3>1. PICK m \in 1 .. n : /\ sv[i] = w[m]
                              /\ \A k \in 1 .. m - 1 : \E x \in 1 .. i - 1 : sv[x] = w[k]
      BY <2>2
    <3>2. longer[m] = w[m] /\ \A k \in 1 .. m - 1 : longer[k] = w[k]
      BY <1>1, <1>3
    <3> QED BY <3>1, <3>2
  <2> QED BY <2>1, <2>2 DEF Served, Seen
<1> QED BY <1>2, <1>4, <1>6, <1>7 DEF Served, longer

\* A window may be fixed when nothing of the line has been sent.
LEMMA ServedFix ==
  ASSUME NEW w \in Seq(Nat), NEW n \in 0 .. Len(w), NEW l \in Nat, NEW sv \in Seq(Nat),
         Served(w, 0, l, sv)
  PROVE  Served(w, n, l, sv)
<1>1. \A i \in 1 .. Len(sv), m \in 1 .. Len(w) : sv[i] < w[m]
  BY DEF Served, Seen
<1> QED BY <1>1 DEF Served, Seen

\* Sending the window shows no log to the server before one that it needs.
LEMMA ServedSend ==
  ASSUME NEW w \in Seq(Nat), NEW n \in 0 .. Len(w), NEW l \in Nat, NEW sv \in Seq(Nat),
         Served(w, n, l, sv)
  PROVE  Served(w, n, l, sv \o SubSeq(w, 1, n))
<1> DEFINE front == SubSeq(w, 1, n)
           more == sv \o front
           N == Len(sv)
<1>1. /\ Len(w) \in Nat /\ \A i \in 1 .. Len(w) : w[i] \in Nat
      /\ N \in Nat /\ \A i \in 1 .. N : sv[i] \in Nat
      /\ n \in Nat /\ \A i \in 1 .. n : i \in 1 .. Len(w)
  BY LenProperties, ElementOfSeq
<1>2. front \in Seq(Nat) /\ Len(front) = n /\ \A k \in 1 .. n : front[k] = w[k]
  <2>1. /\ 1 \in Int /\ n \in Int /\ n - 1 + 1 = n /\ (1 <= n \/ n = 0)
        /\ \A i \in 1 .. n : 1 + i - 1 = i /\ w[i] \in Nat
    BY <1>1
  <2>2. /\ front \in Seq(Nat) /\ Len(front) = IF 1 <= n THEN n - 1 + 1 ELSE 0
        /\ \A i \in 1 .. n - 1 + 1 : front[i] = w[1 + i - 1]
    BY <2>1, SubSeqProperties
  <2> QED BY <1>1, <2>1, <2>2
<1> HIDE DEF front
<1>3. /\ Len(more) = N + n
      /\ \A i \in 1 .. N : more[i] = sv[i]
      /\ \A k \in 1 .. n : more[N + k] = w[k]
  <2>1. /\ Len(more) = N + n
        /\ \A i \in 1 .. N + n : more[i] = IF i <= N THEN sv[i] ELSE front[i - N]
    BY <1>2, ConcatProperties
  <2>2. \A i \in 1 .. N : i \in 1 .. N + n /\ i <= N
    BY <1>1
  <2>3. \A k \in 1 .. n : N + k \in 1 .. N + n /\ ~(N + k <= N) /\ (N + k) - N = k
    BY <1>1
  <2> HIDE DEF more, N
  <2>4. \A i \in 1 .. N : more[i] = sv[i]
    BY <2>1, <2>2
  <2>5. \A k \in 1 .. n : more[N + k] = w[k]
    BY <1>2, <2>1, <2>3
  <2> QED BY <2>1, <2>4, <2>5
<1> HIDE DEF more, N
<1>4. \A i \in 1 .. N + n : i \in 1 .. N \/ \E k \in 1 .. n : i = N + k
  <2> SUFFICES ASSUME NEW i \in 1 .. N + n, i \notin 1 .. N PROVE \E k \in 1 .. n : i = N + k
    OBVIOUS
  <2>1. i - N \in 1 .. n /\ i = N + (i - N)
    BY <1>1
  <2> QED BY <2>1
<1>5. \A i \in 1 .. Len(more) : more[i] <= l
  <2>1. \A i \in 1 .. N : sv[i] <= l
    BY DEF Served, N
  <2>2. \A k \in 1 .. n : w[k] <= l
    BY <1>1 DEF Served
  <2>3. ASSUME NEW i \in 1 .. N + n PROVE more[i] <= l
    <3>1. CASE i \in 1 .. N
      BY <1>3, <2>1, <3>1
    <3>2. ASSUME NEW k \in 1 .. n, i = N + k PROVE more[i] <= l
      BY <1>3, <2>2, <3>2
    <3> QED BY <1>4, <3>1, <3>2
  <2> QED BY <1>3, <2>3
<1>6. \A i \in 1 .. N : \/ \A m \in 1 .. Len(w) : sv[i] < w[m]
                        \/ \E m \in 1 .. n : /\ sv[i] = w[m]
                                             /\ \A k \in 1 .. m - 1 : \E x \in 1 .. i - 1 : sv[x] = w[k]
  BY DEF Served, Seen, N
<1>7. Seen(w, n, more)
  <2> SUFFICES ASSUME NEW i \in 1 .. N + n
               PROVE  \/ \A m \in 1 .. Len(w) : more[i] < w[m]
                      \/ \E m \in 1 .. n : /\ more[i] = w[m]
                                           /\ \A k \in 1 .. m - 1 : \E x \in 1 .. i - 1 : more[x] = w[k]
    BY <1>3 DEF Seen
  <2>1. CASE i \in 1 .. N
    <3>1. more[i] = sv[i] /\ \A x \in 1 .. i - 1 : more[x] = sv[x]
      BY <1>1, <1>3, <2>1
    <3> QED BY <1>6, <2>1, <3>1
  <2>2. ASSUME NEW m \in 1 .. n, i = N + m
        PROVE  /\ more[i] = w[m]
               /\ \A k \in 1 .. m - 1 : \E x \in 1 .. i - 1 : more[x] = w[k]
    <3>1. more[i] = w[m]
      BY <1>3, <2>2
    <3>2. \A k \in 1 .. m - 1 : N + k \in 1 .. i - 1 /\ k \in 1 .. n
      BY <1>1, <2>2
    <3> QED BY <1>3, <3>1, <3>2
  <2> QED BY <1>4, <2>1, <2>2
<1>8. Orderly(more)
  <2> SUFFICES ASSUME NEW i \in 1 .. N + n, NEW j \in 1 .. N + n, i < j, more[j] < more[i]
               PROVE  \E k \in 1 .. i - 1 : more[k] = more[j]
    BY <1>3 DEF Orderly
  <2>1. CASE j \in 1 .. N
    <3>1. i \in 1 .. N /\ more[i] = sv[i] /\ more[j] = sv[j] /\ \A k \in 1 .. i - 1 : more[k] = sv[k]
      BY <1>1, <1>3, <2>1
    <3> QED BY <2>1, <3>1 DEF Served, Orderly, N
  <2>2. ASSUME NEW k \in 1 .. n, j = N + k
        PROVE  \E x \in 1 .. i - 1 : more[x] = more[j]
    <3>1. more[j] = w[k] /\ k \in 1 .. Len(w)
      BY <1>1, <1>3, <2>2
    <3>2. CASE i \in 1 .. N
      <4>1. more[i] = sv[i] /\ \A x \in 1 .. i - 1 : more[x] = sv[x]
        BY <1>1, <1>3, <3>2
      <4>2. ~(sv[i] < w[k])
        BY <1>1, <3>1, <3>2, <4>1
      <4>3. PICK m \in 1 .. n : /\ sv[i] = w[m]
                                /\ \A y \in 1 .. m - 1 : \E x \in 1 .. i - 1 : sv[x] = w[y]
        BY <1>6, <3>1, <3>2, <4>2
      <4>4. w[k] < w[m] /\ w[k] \in Nat /\ w[m] \in Nat /\ m \in 1 .. Len(w)
        BY <1>1, <3>1, <4>1, <4>3
      <4>5. ~(m < k) /\ m # k
        BY <3>1, <4>4 DEF Served, Ascending
      <4>6. k \in 1 .. m - 1
        BY <4>5
      <4> QED BY <3>1, <4>1, <4>3, <4>6
    <3>3. ASSUME NEW m \in 1 .. n, i = N + m
          PROVE  FALSE
      <4>1. more[i] = w[m] /\ m \in 1 .. Len(w) /\ m < k
        BY <1>1, <1>3, <2>2, <3>3
      <4>2. w[m] < w[k] /\ w[m] \in Nat /\ w[k] \in Nat
        BY <1>1, <3>1, <4>1 DEF Served, Ascending
      <4> QED BY <3>1, <4>1, <4>2
    <3> QED BY <1>4, <3>2, <3>3
  <2> QED BY <1>4, <2>1, <2>2
<1> QED BY <1>5, <1>7, <1>8 DEF Served, more, front

\* The window leaves the line, and what follows it is later.
LEMMA ServedClear ==
  ASSUME NEW w \in Seq(Nat), NEW n \in 0 .. Len(w), NEW l \in Nat, NEW sv \in Seq(Nat),
         Served(w, n, l, sv)
  PROVE  Served(SubSeq(w, n + 1, Len(w)), 0, l, sv)
<1> DEFINE rest == SubSeq(w, n + 1, Len(w))
           r == Len(w) - n
<1>1. /\ Len(w) \in Nat /\ \A i \in 1 .. Len(w) : w[i] \in Nat
      /\ n \in Nat /\ r \in Nat
  BY LenProperties, ElementOfSeq
<1>2. Len(rest) = r /\ \A i \in 1 .. r : rest[i] = w[n + i] /\ n + i \in 1 .. Len(w)
  <2> DEFINE a == n + 1
             z == Len(w)
  <2>1. a \in Int /\ z \in Int /\ \A i \in a .. z : w[i] \in Nat
    BY <1>1
  <2>2. /\ z - a + 1 = r /\ (a <= z \/ r = 0)
        /\ \A i \in 1 .. r : a + i - 1 = n + i /\ n + i \in 1 .. Len(w)
    BY <1>1
  <2> HIDE DEF a, z, r
  <2>3. /\ Len(SubSeq(w, a, z)) = IF a <= z THEN z - a + 1 ELSE 0
        /\ \A i \in 1 .. z - a + 1 : SubSeq(w, a, z)[i] = w[a + i - 1]
    BY <2>1, SubSeqProperties
  <2>4. Len(SubSeq(w, a, z)) = r
    BY <1>1, <2>1, <2>2, <2>3
  <2>5. \A i \in 1 .. r : SubSeq(w, a, z)[i] = w[n + i] /\ n + i \in 1 .. Len(w)
    BY <2>2, <2>3
  <2> QED BY <2>4, <2>5 DEF a, z
<1> HIDE DEF rest, r
<1>3. Ascending(rest)
  <2> SUFFICES ASSUME NEW i \in 1 .. r, NEW j \in 1 .. r, i < j PROVE rest[i] < rest[j]
    BY <1>2 DEF Ascending
  <2>1. n + i < n + j
    BY <1>1
  <2> QED BY <1>2, <2>1 DEF Served, Ascending
<1>4. \A i \in 1 .. Len(rest) : rest[i] <= l
  BY <1>2 DEF Served
<1>5. Seen(rest, 0, sv)
  <2> SUFFICES ASSUME NEW i \in 1 .. Len(sv), NEW j \in 1 .. r PROVE sv[i] < rest[j]
    BY <1>2 DEF Seen
  <2>1. CASE \A m \in 1 .. Len(w) : sv[i] < w[m]
    BY <1>2, <2>1
  <2>2. CASE \E m \in 1 .. n : sv[i] = w[m]
    <3>1. PICK m \in 1 .. n : sv[i] = w[m]
      BY <2>2
    <3>2. m \in 1 .. Len(w) /\ n + j \in 1 .. Len(w) /\ m < n + j
      BY <1>1, <1>2
    <3>3. w[m] < w[n + j]
      BY <3>2 DEF Served, Ascending
    <3> QED BY <1>2, <3>1, <3>3
  <2> QED BY <2>1, <2>2 DEF Served, Seen
<1> QED BY <1>3, <1>4, <1>5 DEF Served, rest

\* Without a line nothing is owed.
LEMMA ServedNothing ==
  ASSUME NEW w \in Seq(Nat), NEW n \in 0 .. Len(w), NEW l \in Nat, NEW sv \in Seq(Nat),
         Served(w, n, l, sv)
  PROVE  Served(<<>>, 0, l, sv)
BY DEF Served, Seen, Ascending

\* The invariant of the order.
OrderInv == Served(LogsOf(Line), Window, offered, received)

OrderTypes ==
  /\ LogsOf(Line) \in Seq(Nat) /\ Window \in 0 .. Len(LogsOf(Line))
  /\ offered \in Nat /\ received \in Seq(Nat)

\* The types that the order invariant needs.
LEMMA HasOrderTypes == BufferInv => OrderTypes
<1> SUFFICES ASSUME BufferInv PROVE OrderTypes
  OBVIOUS
<1>1. WindowOK
  BY HasWindow
<1>2. offered \in Nat /\ received \in Seq(Nat) /\ BatchSize \in Nat
  BY CollectAssumption DEF CollectAssumption, BufferInv, TypeOK
<1>3. Len(LogsOf(Line)) \in Nat
  BY <1>1, LenProperties DEF WindowOK
<1> QED BY <1>1, <1>2, <1>3 DEF OrderTypes, WindowOK

\* A step of the pipeline keeps the order.
LEMMA OrderStep == OrderTypes /\ OrderTypes' /\ OrderInv /\ Promised => OrderInv'
<1> SUFFICES ASSUME OrderTypes, OrderTypes', OrderInv, Promised PROVE OrderInv'
  OBVIOUS
<1> DEFINE w == LogsOf(Line)
<1>1. /\ w \in Seq(Nat) /\ Window \in 0 .. Len(w) /\ offered \in Nat /\ received \in Seq(Nat)
      /\ Served(w, Window, offered, received)
      /\ Window' \in 0 .. Len(w')
  BY DEF OrderTypes, OrderInv
<1>2. CASE UNCHANGED <<w, Window, offered, received>>
  BY <1>1, <1>2 DEF OrderInv
<1>3. CASE /\ offered' = offered + 1 /\ Window' = Window /\ received' = received
           /\ w' = w \/ w' = Append(w, offered + 1)
  <2> HIDE DEF w
  <2>1. Served(w', Window, offered + 1, received)
    BY <1>1, <1>3, ServedOffer
  <2> QED BY <1>3, <2>1 DEF OrderInv, w
<1>4. CASE Window = 0 /\ UNCHANGED <<w, offered, received>>
  <2> HIDE DEF w
  <2>1. Served(w', Window', offered', received')
    BY <1>1, <1>4, ServedFix
  <2> QED BY <2>1 DEF OrderInv, w
<1>5. CASE /\ received' = received \/ received' = received \o SubSeq(w, 1, Window)
           /\ \/ w' = SubSeq(w, Window + 1, Len(w)) /\ Window' = 0
              \/ w' = w /\ Window' = Window
           /\ offered' = offered
  <2> HIDE DEF w
  <2>1. received' \in Seq(Nat)
    BY DEF OrderTypes
  <2>2. Served(w, Window, offered, received')
    BY <1>1, <1>5, ServedSend
  <2>3. Served(SubSeq(w, Window + 1, Len(w)), 0, offered, received')
    BY <1>1, <2>1, <2>2, ServedClear
  <2>4. Served(w', Window', offered', received')
    BY <1>5, <2>2, <2>3
  <2> QED BY <2>4 DEF OrderInv, w
<1>6. CASE w' = <<>> /\ Window' = 0 /\ UNCHANGED <<offered, received>>
  <2> HIDE DEF w
  <2>1. Served(w', Window', offered', received')
    BY <1>1, <1>6, ServedNothing
  <2> QED BY <2>1 DEF OrderInv, w
<1>7. CASE Pipeline!Next
  <2>1. CASE Pipeline!Offer
    BY <1>3, <2>1 DEF Pipeline!Offer, Window
  <2>2. CASE Pipeline!Fix
    BY <1>4, <2>2 DEF Pipeline!Fix, Window
  <2>3. CASE Pipeline!Send
    BY <1>5, <2>3 DEF Pipeline!Send, Pipeline!Front, Pipeline!Rest, Window
  <2>4. CASE Pipeline!GiveUp
    BY <1>5, <2>4 DEF Pipeline!GiveUp, Pipeline!Rest, Window
  <2>5. CASE Pipeline!Discard
    BY <1>6, <2>5 DEF Pipeline!Discard, Window
  <2> QED BY <1>7, <2>1, <2>2, <2>3, <2>4, <2>5 DEF Pipeline!Next
<1>8. CASE UNCHANGED Pipeline!vars
  BY <1>2, <1>8 DEF Pipeline!vars, Window
<1> QED BY <1>7, <1>8 DEF Promised

\* Whatever answers are lost and however often a batch is sent again, a log that
\* comes to the server after a later one has been there before.
THEOREM ServerSeesOrder == Spec => []LogsInOrder
<1>1. Init => OrderInv
  <2> SUFFICES ASSUME Init PROVE OrderInv
    OBVIOUS
  <2>1. LogsOf(Line) = <<>> /\ received = <<>>
    BY InitPromise DEF Pipeline!Init, Init
  <2> QED BY <2>1 DEF OrderInv, Served, Seen, Ascending, Orderly
<1>2. BufferInv /\ BufferInv' /\ OrderInv /\ [Next]_vars => OrderInv'
  <2>1. BufferInv /\ BufferInv' => OrderTypes /\ OrderTypes'
    BY HasOrderTypes, PTL
  <2> QED BY <2>1, StepPromise, OrderStep
<1>3. BufferInv /\ OrderInv => LogsInOrder
  <2> SUFFICES ASSUME BufferInv, OrderInv PROVE LogsInOrder
    OBVIOUS
  <2>1. DOMAIN received = 1 .. Len(received)
    BY HasOrderTypes, LenProperties DEF OrderTypes
  <2>2. Orderly(received)
    BY DEF OrderInv, Served
  <2> QED BY <2>1, <2>2 DEF Orderly, LogsInOrder, Pipeline!InOrder
<1> QED BY <1>1, <1>2, <1>3, Invariance, PTL DEF Spec
=============================================================================
