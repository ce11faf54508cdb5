------------------------- MODULE TaskRegistryProofs -------------------------
(***************************************************************************)
(* Theorems about the task scheduler: list, timers and memory agree, an id *)
(* is handed out again only after all others, and the scheduler is a set   *)
(* of tasks to its callers, for any memory and any number of ids.          *)
(***************************************************************************)
EXTENDS TaskRegistry, TLAPS

Injective(seq) == \A i, j \in DOMAIN seq : seq[i] = seq[j] => i = j

\* Prepending a task to the list registers it.
LEMMA PushProperties ==
  ASSUME registry \in Seq(Blocks), Injective(registry), NEW b \in Blocks, b \notin Registered
  PROVE  LET pushed == <<b>> \o registry
         IN  /\ pushed \in Seq(Blocks)
             /\ Elements(pushed) = Registered \cup {b}
             /\ Injective(pushed)
<1> DEFINE pushed == <<b>> \o registry
<1>1. pushed \in Seq(Blocks) /\ Len(pushed) = Len(registry) + 1
  OBVIOUS
<1>2. pushed[1] = b /\ \A i \in 1 .. Len(registry) : pushed[i + 1] = registry[i]
  OBVIOUS
<1>3. \A i \in DOMAIN pushed : i = 1 \/ (i - 1 \in DOMAIN registry /\ pushed[i] = registry[i - 1])
  BY <1>1, <1>2
<1>4. Elements(pushed) = Registered \cup {b}
  <2>1. ASSUME NEW x \in Elements(pushed) PROVE x \in Registered \cup {b}
    BY <2>1, <1>2, <1>3 DEF Elements, Registered
  <2>2. ASSUME NEW i \in DOMAIN registry PROVE registry[i] \in Elements(pushed)
    <3>1. i + 1 \in DOMAIN pushed /\ pushed[i + 1] = registry[i]
      BY <1>1, <1>2
    <3> QED BY <3>1 DEF Elements
  <2>3. b \in Elements(pushed)
    <3>1. 1 \in DOMAIN pushed
      BY <1>1
    <3> QED BY <3>1, <1>2 DEF Elements
  <2> QED BY <2>1, <2>2, <2>3 DEF Elements, Registered
<1>5. Injective(pushed)
  BY <1>1, <1>2, <1>3 DEF Injective, Elements, Registered
<1> QED BY <1>1, <1>4, <1>5

\* Unlinking a task leaves all others in the list.
LEMMA UnlinkedProperties ==
  ASSUME registry \in Seq(Blocks), Injective(registry), NEW b \in Registered
  PROVE  /\ Unlinked(b) \in Seq(Blocks)
         /\ Elements(Unlinked(b)) = Registered \ {b}
         /\ Injective(Unlinked(b))
<1>1. Place(b) \in DOMAIN registry /\ registry[Place(b)] = b
  BY DEF Place, Registered, Elements
<1> DEFINE n == Len(registry)
           k == Place(b)
           u == Unlinked(b)
<1>2. n \in Nat /\ k \in 1 .. n /\ DOMAIN registry = 1 .. n
  BY <1>1
<1> HIDE DEF k
<1>3. u = [i \in 1 .. n - 1 |-> IF i < k THEN registry[i] ELSE registry[i + 1]]
  BY DEF Unlinked, k
<1> HIDE DEF n, u
<1>4. DOMAIN u = 1 .. n - 1
  BY <1>3
<1>5. \A i \in 1 .. n - 1 : u[i] = IF i < k THEN registry[i] ELSE registry[i + 1]
  BY <1>3
<1>6. \A i \in 1 .. n : registry[i] \in Blocks
  BY <1>2
<1>7. u \in Seq(Blocks)
  BY <1>2, <1>3, <1>5, <1>6
<1>8. registry[k] = b /\ \A i \in 1 .. n : registry[i] = b => i = k
  BY <1>1, <1>2 DEF Injective, k
<1>9. Elements(u) = Registered \ {b}
  <2>1. ASSUME NEW i \in 1 .. n - 1 PROVE u[i] \in Registered \ {b}
    <3>1. CASE i < k
      BY <3>1, <1>2, <1>5, <1>8 DEF Registered, Elements
    <3>2. CASE ~(i < k)
      BY <3>2, <1>2, <1>5, <1>8 DEF Registered, Elements
    <3> QED BY <3>1, <3>2
  <2>2. ASSUME NEW i \in 1 .. n, registry[i] # b PROVE registry[i] \in Elements(u)
    <3>1. CASE i < k
      BY <3>1, <1>2, <1>4, <1>5 DEF Elements
    <3>2. CASE i > k
      <4>1. i - 1 \in 1 .. n - 1 /\ u[i - 1] = registry[i]
        BY <3>2, <1>2, <1>5
      <4> QED BY <4>1, <1>4 DEF Elements
    <3> QED BY <3>1, <3>2, <2>2, <1>2, <1>8
  <2> QED BY <2>1, <2>2, <1>2, <1>4 DEF Elements, Registered
<1>10. Injective(u)
  <2> SUFFICES ASSUME NEW i \in 1 .. n - 1, NEW j \in 1 .. n - 1, u[i] = u[j] PROVE i = j
    BY <1>4 DEF Injective
  <2>1. \A p, q \in 1 .. n : registry[p] = registry[q] => p = q
    BY <1>2 DEF Injective
  <2> QED BY <2>1, <1>2, <1>5
<1> QED BY <1>7, <1>9, <1>10 DEF u

\* The ids go round: the one handed out k tasks ago is k before the next.
IdsGoRound ==
  /\ Len(recent) <= IdLimit - 1
  /\ \A k \in 1 .. Len(recent) :
       recent[k] = IF NewId - k >= 1 THEN NewId - k ELSE NewId - k + (IdLimit - 1)

\* The inductive invariant.
Inv == TypeOK /\ TimersAreRegistered /\ MemoryAccounted /\ IdsGoRound

\* Within one round no two ids are the same.
LEMMA RoundIsUnique == TypeOK /\ IdsGoRound => UniqueIds
<1> SUFFICES ASSUME TypeOK, IdsGoRound,
                    NEW j \in DOMAIN recent, NEW k \in DOMAIN recent, recent[j] = recent[k]
             PROVE  j = k
  BY DEF UniqueIds
<1> DEFINE n == Len(recent)
           l == IdLimit - 1
<1>1. n \in Nat /\ l \in Nat /\ n <= l /\ j \in 1 .. n /\ k \in 1 .. n
  BY TaskRegistryAssumption DEF TypeOK, IdsGoRound
<1>2. NewId \in 1 .. l
  BY TaskRegistryAssumption DEF TypeOK, Ids, NewId
<1>3. /\ recent[j] = IF NewId - j >= 1 THEN NewId - j ELSE NewId - j + l
      /\ recent[k] = IF NewId - k >= 1 THEN NewId - k ELSE NewId - k + l
  BY <1>1 DEF IdsGoRound
<1> HIDE DEF n, l
<1>4. \A c \in 1 .. l : \A x, y \in 1 .. l :
        (IF c - x >= 1 THEN c - x ELSE c - x + l) = (IF c - y >= 1 THEN c - y ELSE c - y + l) => x = y
  BY <1>1
<1>5. j \in 1 .. l /\ k \in 1 .. l
  BY <1>1
<1> QED BY <1>2, <1>3, <1>4, <1>5

LEMMA InitInv == Init => Inv
<1> SUFFICES ASSUME Init PROVE Inv
  OBVIOUS
<1> USE TaskRegistryAssumption DEF Init, TaskRegistryAssumption
<1>1. Registered = {} /\ DOMAIN registry = {}
  BY DEF Registered, Elements
<1>2. TypeOK
  <2>1. nextId \in Ids
    BY DEF Ids
  <2>2. heap \in [Blocks -> TaskRec \cup {Freed}] /\ registry \in Seq(Blocks)
    OBVIOUS
  <2> QED BY <1>1, <2>1, <2>2 DEF TypeOK
<1>3. TimersAreRegistered
  BY <1>1 DEF TimersAreRegistered
<1>4. MemoryAccounted
  BY <1>1 DEF MemoryAccounted, Lingering
<1>5. IdsGoRound
  BY DEF IdsGoRound
<1> QED BY <1>2, <1>3, <1>4, <1>5 DEF Inv

\* What each operation does to the registered tasks, which is most of what the
\* proofs below need of it.
LEMMA ScheduleRegisters ==
  ASSUME Inv, NEW b \in Blocks, NEW again \in BOOLEAN, Schedule(b, again)
  PROVE  /\ registry' \in Seq(Blocks) /\ Injective(registry')
         /\ Registered' = Registered \cup {b}
         /\ b \notin Registered /\ b \notin Lingering
<1>1. b \notin Registered /\ b \notin Lingering
  BY DEF Inv, MemoryAccounted, Schedule
<1>2. registry \in Seq(Blocks) /\ Injective(registry)
  BY DEF Inv, TypeOK, TimersAreRegistered, Injective
<1> QED BY <1>1, <1>2, PushProperties DEF Schedule, Registered

LEMMA CancelUnregisters ==
  ASSUME Inv, NEW b \in Blocks, NEW i \in Ids, Cancel(b, i)
  PROVE  /\ registry' \in Seq(Blocks) /\ Injective(registry')
         /\ Registered' = Registered \ {b}
         /\ b \in Registered
<1>1. b \in Registered
  BY DEF Cancel, Found, Registered, Elements
<1>2. registry \in Seq(Blocks) /\ Injective(registry)
  BY DEF Inv, TypeOK, TimersAreRegistered, Injective
<1> QED BY <1>1, <1>2, UnlinkedProperties DEF Cancel, Registered

LEMMA FireUnregisters ==
  ASSUME Inv, NEW b \in Blocks, Fire(b)
  PROVE  /\ registry' \in Seq(Blocks) /\ Injective(registry')
         /\ Registered' = IF heap[b].repeating THEN Registered ELSE Registered \ {b}
         /\ b \in Registered
<1>1. b \in Registered
  BY DEF Inv, TimersAreRegistered, Fire
<1>2. registry \in Seq(Blocks) /\ Injective(registry)
  BY DEF Inv, TypeOK, TimersAreRegistered, Injective
<1>3. CASE heap[b].repeating
  BY <1>1, <1>2, <1>3 DEF Fire, RunsAgain, Registered
<1>4. CASE ~heap[b].repeating
  BY <1>1, <1>2, <1>4, UnlinkedProperties DEF Fire, RunsOnce, Registered
<1> QED BY <1>3, <1>4

\* Scheduling goes one id further in the round.
LEMMA ScheduleGoesRound ==
  ASSUME Inv, NEW b \in Blocks, NEW again \in BOOLEAN, Schedule(b, again)
  PROVE  IdsGoRound' /\ recent' \in Seq(Ids)
<1> DEFINE n == Len(recent)
           m == IF n = IdLimit - 1 THEN IdLimit - 1 ELSE n + 1
<1>1. IdLimit \in Nat /\ IdLimit > 1
  BY TaskRegistryAssumption
<1>2. /\ n \in Nat /\ n <= IdLimit - 1 /\ nextId \in 0 .. IdLimit - 1
      /\ \A k \in 1 .. n : recent[k] \in Ids
  <2>1. recent \in Seq(Ids)
    BY DEF Inv, TypeOK
  <2>2. n \in Nat /\ \A k \in 1 .. n : recent[k] \in Ids
    BY <2>1
  <2>3. n <= IdLimit - 1 /\ nextId \in 0 .. IdLimit - 1
    BY DEF Inv, TypeOK, IdsGoRound, Ids
  <2> QED BY <2>2, <2>3
<1>3. NewId \in 1 .. IdLimit - 1
  BY <1>1, <1>2 DEF NewId
<1>4. NewId' = IF NewId = IdLimit - 1 THEN 1 ELSE NewId + 1
  <2>1. nextId' = (NewId + 1) % IdLimit
    BY DEF Schedule
  <2>2. CASE NewId = IdLimit - 1
    <3>1. nextId' = 0
      BY <1>1, <2>1, <2>2
    <3> QED BY <2>2, <3>1 DEF NewId
  <2>3. CASE NewId # IdLimit - 1
    <3>1. NewId + 1 \in 1 .. IdLimit - 1
      BY <1>1, <1>3, <2>3
    <3>2. nextId' = NewId + 1
      BY <1>1, <2>1, <3>1
    <3> QED BY <1>3, <2>3, <3>2 DEF NewId
  <2> QED BY <2>2, <2>3
<1>5. recent' = [k \in 1 .. m |-> IF k = 1 THEN NewId ELSE recent[k - 1]]
  BY DEF Schedule
<1>6. m \in Nat /\ m <= n + 1 /\ m <= IdLimit - 1 /\ m >= 1
  BY <1>1, <1>2
<1> HIDE DEF n, m
<1>7. \A k \in 1 .. m : k = 1 \/ k - 1 \in 1 .. n
  BY <1>2, <1>6
<1>8. NewId \in Ids
  BY <1>3 DEF Ids
<1>9. recent' \in Seq(Ids) /\ Len(recent') = m
  <2>1. \A k \in 1 .. m : (IF k = 1 THEN NewId ELSE recent[k - 1]) \in Ids
    BY <1>2, <1>7, <1>8
  <2> QED BY <1>5, <1>6, <2>1
<1>10. ASSUME NEW k \in 1 .. m
       PROVE  recent'[k] = IF NewId' - k >= 1 THEN NewId' - k ELSE NewId' - k + (IdLimit - 1)
  <2>1. CASE k = 1
    <3>1. recent'[k] = NewId
      BY <1>5, <2>1
    <3> QED BY <1>1, <1>3, <1>4, <2>1, <3>1
  <2>2. CASE k # 1
    <3>1. recent'[k] = recent[k - 1] /\ k - 1 \in 1 .. n
      BY <1>5, <1>7, <2>2
    <3>2. recent[k - 1] = IF NewId - (k - 1) >= 1 THEN NewId - (k - 1)
                          ELSE NewId - (k - 1) + (IdLimit - 1)
      BY <3>1 DEF Inv, IdsGoRound, n
    <3> QED BY <1>1, <1>3, <1>4, <1>6, <3>1, <3>2
  <2> QED BY <2>1, <2>2
<1> QED BY <1>6, <1>9, <1>10 DEF IdsGoRound

\* A new task has memory of its own, and its timer is that of the newest in the list.
LEMMA ScheduleInv ==
  ASSUME Inv, NEW b \in Blocks, NEW again \in BOOLEAN, Schedule(b, again)
  PROVE  Inv'
<1> USE TaskRegistryAssumption DEF TaskRegistryAssumption
<1> DEFINE new == [id |-> NewId, repeating |-> again]
<1>1. /\ registry' \in Seq(Blocks) /\ Injective(registry')
      /\ Registered' = Registered \cup {b}
      /\ b \notin Registered /\ b \notin Lingering
  BY ScheduleRegisters
<1>2. NewId \in Ids /\ NewId # 0 /\ nextId' \in Ids
  <2>1. nextId \in 0 .. IdLimit - 1
    BY DEF Inv, TypeOK, Ids
  <2>2. NewId \in 1 .. IdLimit - 1
    BY <2>1 DEF NewId
  <2>3. nextId' \in 0 .. IdLimit - 1
    BY <2>2 DEF Schedule
  <2> QED BY <2>2, <2>3 DEF Ids
<1>3. /\ heap \in [Blocks -> TaskRec \cup {Freed}]
      /\ heap' = [heap EXCEPT ![b] = new] /\ new \in TaskRec /\ new.id = NewId
      /\ new # Freed
  BY <1>2 DEF Inv, TypeOK, Schedule, TaskRec
<1>4. heap'[b] = new /\ \A c \in Blocks \ {b} : heap'[c] = heap[c]
  BY <1>3
<1>5. Registered \subseteq Blocks
  BY DEF Inv, TypeOK, Registered, Elements
<1> HIDE DEF new
<1>6. TypeOK'
  <2>1. heap' \in [Blocks -> TaskRec \cup {Freed}]
    BY <1>3
  <2>2. \A c \in Registered' : heap'[c] # Freed => heap'[c].id # 0
    BY <1>1, <1>2, <1>3, <1>4, <1>5 DEF Inv, TypeOK
  <2>3. recent' \in Seq(Ids)
    BY ScheduleGoesRound
  <2> QED BY <1>1, <1>2, <2>1, <2>2, <2>3 DEF Inv, TypeOK, Schedule
<1>7. TimersAreRegistered'
  BY <1>1 DEF Inv, TimersAreRegistered, Schedule, Injective
<1>8. MemoryAccounted'
  <2>1. Lingering' = Lingering
    BY DEF Schedule, Lingering, OneOff
  <2> QED BY <1>1, <1>3, <1>4, <1>5, <2>1 DEF Inv, MemoryAccounted
<1>9. IdsGoRound'
  BY ScheduleGoesRound
<1> QED BY <1>6, <1>7, <1>8, <1>9 DEF Inv

\* The memory of a cancelled task is free, and nothing else is.
LEMMA CancelInv ==
  ASSUME Inv, NEW b \in Blocks, NEW i \in Ids, Cancel(b, i)
  PROVE  Inv'
<1>1. /\ registry' \in Seq(Blocks) /\ Injective(registry')
      /\ Registered' = Registered \ {b}
      /\ b \in Registered
  BY CancelUnregisters
<1>2. /\ heap \in [Blocks -> TaskRec \cup {Freed}]
      /\ heap' = [heap EXCEPT ![b] = Freed]
  BY DEF Inv, TypeOK, Cancel
<1>3. heap'[b] = Freed /\ \A c \in Blocks \ {b} : heap'[c] = heap[c]
  BY <1>2
<1>4. Registered \subseteq Blocks
  BY DEF Inv, TypeOK, Registered, Elements
<1>5. TypeOK'
  BY <1>1, <1>2, <1>3, <1>4 DEF Inv, TypeOK, Cancel
<1>6. TimersAreRegistered'
  BY <1>1 DEF Inv, TimersAreRegistered, Cancel, Injective
<1>7. MemoryAccounted'
  <2>1. Lingering' = Lingering
    BY DEF Cancel, Lingering, OneOff
  <2> QED BY <1>1, <1>2, <1>3, <1>4, <2>1 DEF Inv, MemoryAccounted
<1>8. IdsGoRound'
  BY DEF Inv, IdsGoRound, NewId, Cancel
<1> QED BY <1>5, <1>6, <1>7, <1>8 DEF Inv

\* A one-off task that begins to run is out of the list and still allocated.
LEMMA FireInv ==
  ASSUME Inv, NEW b \in Blocks, Fire(b)
  PROVE  Inv'
<1>1. /\ registry' \in Seq(Blocks) /\ Injective(registry')
      /\ Registered' = IF heap[b].repeating THEN Registered ELSE Registered \ {b}
      /\ b \in Registered
  BY FireUnregisters
<1>2. heap' = heap /\ running = Idle /\ running' = [block |-> b, repeating |-> heap[b].repeating]
  BY DEF Fire
<1>3. heap[b] \in TaskRec /\ heap[b].repeating \in BOOLEAN
  BY <1>1 DEF Inv, TypeOK, MemoryAccounted, TaskRec
<1>4. running' \in [block : Blocks, repeating : BOOLEAN] /\ running' # Idle
  BY <1>2, <1>3, TaskRegistryAssumption DEF TaskRegistryAssumption
<1>5. Lingering = {} /\ Lingering' = IF heap[b].repeating THEN {} ELSE {b}
  BY <1>2, <1>4 DEF Lingering, OneOff
<1>6. TypeOK'
  BY <1>1, <1>2, <1>4 DEF Inv, TypeOK, TimersAreRegistered, Fire, RunsAgain, RunsOnce
<1>7. TimersAreRegistered'
  BY <1>1 DEF Inv, TimersAreRegistered, Fire, RunsAgain, RunsOnce, Injective
<1>8. MemoryAccounted'
  BY <1>1, <1>2, <1>5 DEF Inv, MemoryAccounted
<1>9. IdsGoRound'
  BY DEF Inv, IdsGoRound, NewId, Fire
<1> QED BY <1>6, <1>7, <1>8, <1>9 DEF Inv

\* What is freed after the callback is the one-off task, and only it.
LEMMA ReturnInv == Inv /\ Return => Inv'
<1> SUFFICES ASSUME Inv, Return PROVE Inv'
  OBVIOUS
<1>1. Registered' = Registered /\ registry' = registry /\ running' = Idle
  BY DEF Return, Registered
<1>2. Lingering' = {}
  BY <1>1 DEF Lingering
<1>3. /\ heap \in [Blocks -> TaskRec \cup {Freed}] /\ running.block \in Blocks
      /\ Registered \subseteq Blocks
  BY DEF Inv, TypeOK, Return, Registered, Elements
<1>4. heap' = [c \in Blocks |-> IF c \in Lingering THEN Freed ELSE heap[c]]
  BY <1>3 DEF Return, Lingering
<1>5. \A c \in Registered : heap'[c] = heap[c]
  BY <1>3, <1>4 DEF Inv, MemoryAccounted
<1>6. TypeOK'
  BY <1>1, <1>3, <1>4, <1>5 DEF Inv, TypeOK, Return
<1>7. TimersAreRegistered'
  BY <1>1 DEF Inv, TimersAreRegistered, Return
<1>8. MemoryAccounted'
  BY <1>1, <1>2, <1>3, <1>4 DEF Inv, MemoryAccounted
<1>9. IdsGoRound'
  BY DEF Inv, IdsGoRound, NewId, Return
<1> QED BY <1>6, <1>7, <1>8, <1>9 DEF Inv

\* Shutting down frees every registered task and stops every timer.
LEMMA ShutdownInv == Inv /\ Shutdown => Inv'
<1> SUFFICES ASSUME Inv, Shutdown PROVE Inv'
  OBVIOUS
<1>1. Registered' = {} /\ registry' = <<>> /\ armed' = {}
  BY DEF Shutdown, Registered, Elements, Inv, TimersAreRegistered
<1>2. Lingering' = Lingering
  BY DEF Shutdown, Lingering, OneOff
<1>3. /\ heap \in [Blocks -> TaskRec \cup {Freed}]
      /\ heap' = [c \in Blocks |-> IF c \in Registered THEN Freed ELSE heap[c]]
  BY DEF Inv, TypeOK, Shutdown
<1>4. TypeOK'
  <2>1. heap' \in [Blocks -> TaskRec \cup {Freed}] /\ registry' \in Seq(Blocks)
    BY <1>1, <1>3
  <2>2. UNCHANGED <<nextId, running, recent>> /\ open' = FALSE
    BY DEF Shutdown
  <2> QED BY <1>1, <2>1, <2>2 DEF Inv, TypeOK
<1>5. TimersAreRegistered'
  BY <1>1 DEF TimersAreRegistered
<1>6. MemoryAccounted'
  BY <1>1, <1>2, <1>3 DEF Inv, MemoryAccounted
<1>7. IdsGoRound'
  BY DEF Inv, IdsGoRound, NewId, Shutdown
<1> QED BY <1>4, <1>5, <1>6, <1>7 DEF Inv

LEMMA Invariance == Spec => []Inv
<1>1. Inv /\ [Next]_vars => Inv'
  <2> SUFFICES ASSUME Inv, [Next]_vars PROVE Inv'
    OBVIOUS
  <2>1. CASE UNCHANGED vars
    BY <2>1 DEF vars, Inv, TypeOK, TimersAreRegistered, MemoryAccounted, IdsGoRound, NewId,
                Registered, Lingering, OneOff
  <2>2. CASE \E b \in Blocks, again \in BOOLEAN : Schedule(b, again)
    BY <2>2, ScheduleInv
  <2>3. CASE \E b \in Blocks, i \in Ids : Cancel(b, i)
    BY <2>3, CancelInv
  <2>4. CASE \E b \in Blocks : Fire(b)
    BY <2>4, FireInv
  <2>5. CASE Return
    BY <2>5, ReturnInv
  <2>6. CASE Shutdown
    BY <2>6, ShutdownInv
  <2> QED BY <2>1, <2>2, <2>3, <2>4, <2>5, <2>6 DEF Next
<1> QED BY <1>1, InitInv, PTL DEF Spec

\* List, heap, counter and flags keep their types, and no task has the id 0 by
\* which schedule_once and schedule_repeating say that they failed.
THEOREM TypeCorrect == Spec => []TypeOK
<1>1. Inv => TypeOK
  BY DEF Inv
<1> QED BY <1>1, Invariance, PTL

\* The timers that are set are those of the tasks in the list, each there once.
THEOREM TimersAgree == Spec => []TimersAreRegistered
<1>1. Inv => TimersAreRegistered
  BY DEF Inv
<1> QED BY <1>1, Invariance, PTL

\* Whatever callbacks schedule and cancel, themselves included, every piece of
\* memory belongs to a task in the list or to the one-off task that runs.
THEOREM MemoryAgrees == Spec => []MemoryAccounted
<1>1. Inv => MemoryAccounted
  BY DEF Inv
<1> QED BY <1>1, Invariance, PTL

\* An id is handed out again only after all others were, before and after the ids
\* wrap (uloop_scheduler.c:123-130).
THEOREM IdsAreUnique == Spec => []UniqueIds
<1>1. Inv => UniqueIds
  BY RoundIsUnique DEF Inv
<1> QED BY <1>1, Invariance, PTL

\* The scheduler implements the set of tasks.
THEOREM ImplementsTaskSet == Spec => Promise
<1> DEFINE rep == {b \in Registered : heap[b].repeating}
           exe == IF running = Idle THEN Idle ELSE running.block
<1>1. Init => Abstract!Init
  BY DEF Init, Abstract!Init, Registered, Elements
<1>2. Inv /\ [Next]_vars => [Abstract!Next]_Abstract!vars
  <2> SUFFICES ASSUME Inv, [Next]_vars PROVE [Abstract!Next]_Abstract!vars
    OBVIOUS
  <2>1. Registered \subseteq Blocks
    BY DEF Inv, TypeOK, Registered, Elements
  <2>2. CASE UNCHANGED vars
    BY <2>2 DEF vars, Abstract!vars, Registered
  <2>3. ASSUME NEW b \in Blocks, NEW again \in BOOLEAN, Schedule(b, again) PROVE Abstract!Next
    <3>1. Registered' = Registered \cup {b} /\ b \notin Registered
      BY <2>3, ScheduleRegisters
    <3>2. \A c \in Registered : heap'[c] = heap[c]
      BY <2>1, <2>3, <3>1 DEF Schedule, Inv, TypeOK
    <3>3. rep' \in {rep, rep \cup {b}}
      BY <3>1, <3>2
    <3>4. UNCHANGED <<exe, open>> /\ open
      BY <2>3 DEF Schedule
    <3> QED BY <3>1, <3>3, <3>4 DEF Abstract!Next, Abstract!Schedule
  <2>4. ASSUME NEW b \in Blocks, NEW i \in Ids, Cancel(b, i) PROVE Abstract!Next
    <3>1. Registered' = Registered \ {b} /\ b \in Registered
      BY <2>4, CancelUnregisters
    <3>2. \A c \in Registered' : heap'[c] = heap[c]
      BY <2>1, <2>4, <3>1 DEF Cancel, Inv, TypeOK
    <3>3. rep' = rep \ {b}
      BY <3>1, <3>2
    <3>4. UNCHANGED <<exe, open>>
      BY <2>4 DEF Cancel
    <3> QED BY <3>1, <3>3, <3>4 DEF Abstract!Next, Abstract!Cancel
  <2>5. ASSUME NEW b \in Blocks, Fire(b) PROVE Abstract!Next
    <3>1. /\ Registered' = IF heap[b].repeating THEN Registered ELSE Registered \ {b}
          /\ b \in Registered
      BY <2>5, FireUnregisters
    <3>2. heap' = heap
      BY <2>5 DEF Fire
    <3>3. rep' = rep /\ (b \in rep <=> heap[b].repeating)
      BY <3>1, <3>2
    <3>4. [block |-> b, repeating |-> heap[b].repeating] # Idle
      <4>1. heap[b].repeating \in BOOLEAN
        BY <3>1, <2>1 DEF Inv, TypeOK, MemoryAccounted, TaskRec
      <4> QED BY <4>1, TaskRegistryAssumption DEF TaskRegistryAssumption
    <3>5. exe = Idle /\ exe' = b /\ open /\ UNCHANGED open
      BY <2>5, <3>4 DEF Fire
    <3> QED BY <3>1, <3>3, <3>5 DEF Abstract!Next, Abstract!Run
  <2>6. CASE Return
    <3>1. Registered' = Registered
      BY <2>6 DEF Return, Registered
    <3>2. \A c \in Registered : heap'[c] = heap[c]
      BY <2>1, <2>6 DEF Return, Inv, TypeOK, MemoryAccounted, Lingering
    <3>3. rep' = rep
      BY <3>1, <3>2
    <3>4. exe # Idle /\ exe' = Idle /\ open /\ UNCHANGED open
      BY <2>6, TaskRegistryAssumption DEF Return, Inv, TypeOK, TaskRegistryAssumption
    <3> QED BY <3>1, <3>3, <3>4 DEF Abstract!Next, Abstract!Return
  <2>7. CASE Shutdown
    <3>1. Registered' = {} /\ open' = FALSE /\ UNCHANGED exe
      BY <2>7 DEF Shutdown, Registered, Elements
    <3>2. rep' = {}
      BY <3>1
    <3> QED BY <3>1, <3>2 DEF Abstract!Next, Abstract!Shutdown
  <2> QED BY <2>2, <2>3, <2>4, <2>5, <2>6, <2>7 DEF Next
<1> QED BY <1>1, <1>2, Invariance, PTL DEF Spec, Promise, Abstract!Spec
=============================================================================
