-------------------------- MODULE LifecycleProofs ---------------------------
(***************************************************************************)
(* Proofs about physical connection admission and the I/O guards, for any  *)
(* finite number of connector calls and any policies.                      *)
(***************************************************************************)
EXTENDS Lifecycle, SemaphoreProofs, FiniteSetTheorems, TLAPS

\* Whoever queues has an acquire future, and queues once.
QueueShape ==
    /\ Distinct(sem)
    /\ \A t \in Queued(sem) : pc[t] \in Acquiring

\* No permit is lost or minted.
PermitCount == Limited => sem.avail + Cardinality(Holders) = conf.maxLive

\* A permit that is available is one that nobody queues for.
NoIdlePermit == sem.avail > 0 => sem.queue = <<>>

\* The program points between fetch_add and fetch_sub of the live gauge.
CountedPoints == {"load", "cas", "connecting", "drop", "raw"} \cup Timed
Counted == {t \in Tasks : pc[t] \in CountedPoints}
GaugeCount == Limited => gauge = Cardinality(Counted)

\* Without a cap nobody comes near the semaphore or the gauges.
Unadmitted == ~Limited => \A t \in Tasks : pc[t] \in {"idle", "refused", "connecting", "raw"} \cup Timed

\* A mark below the peak is one that some call is still on its way to raise:
\* the call that saw the peak holds it, and gives up only on a mark it read,
\* which the mark never falls behind.
MarkIsBehind ==
    /\ highWater <= peak
    /\ \A t \in Tasks : pc[t] \in {"load", "cas"} => mine[t].live <= peak
    /\ \A t \in Tasks : pc[t] = "cas" => mine[t].seen <= highWater
    /\ highWater < peak => \E t \in Tasks : pc[t] \in {"load", "cas"} /\ mine[t].live = peak

\* A running timer belongs to a guarded direction of a timed connection and is
\* no older than that direction's silence.
TimerShape ==
    \A t \in Tasks, d \in Directions :
        timer[t][d] # None => /\ pc[t] \in Timed
                              /\ conf[d] # None
                              /\ timer[t][d] <= conf[d]
                              /\ timer[t][d] <= quiet[t][d]

IInv == /\ TypeOK
        /\ QueueShape /\ PermitCount /\ NoIdlePermit
        /\ Unadmitted /\ GaugeCount /\ MarkIsBehind
        /\ TimerShape

-----------------------------------------------------------------------------
\* Counting one task more or less.
LEMMA CountTasks ==
    ASSUME NEW S \in SUBSET Tasks
    PROVE  /\ IsFiniteSet(S) /\ Cardinality(S) \in Nat
           /\ \A t \in Tasks \ S : Cardinality(S \cup {t}) = Cardinality(S) + 1
           /\ \A t \in S : Cardinality(S \ {t}) = Cardinality(S) - 1
           /\ \A t \in S, u \in Tasks \ S : Cardinality((S \ {t}) \cup {u}) = Cardinality(S)
           /\ \A R \in SUBSET S : Cardinality(R) <= Cardinality(S)
<1>1. IsFiniteSet(S) /\ Cardinality(S) \in Nat
  BY LifecycleAssumption, FS_Subset, FS_CardinalityType
<1>2. \A t \in Tasks \ S : Cardinality(S \cup {t}) = Cardinality(S) + 1
  BY <1>1, FS_AddElement
<1>3. \A t \in S : IsFiniteSet(S \ {t}) /\ Cardinality(S \ {t}) = Cardinality(S) - 1
  BY <1>1, FS_RemoveElement
<1>4. ASSUME NEW t \in S, NEW u \in Tasks \ S
      PROVE  Cardinality((S \ {t}) \cup {u}) = Cardinality(S)
  <2>1. Cardinality((S \ {t}) \cup {u}) = Cardinality(S \ {t}) + 1
    BY <1>3, FS_AddElement
  <2>2. QED
    BY <1>1, <1>3, <2>1
<1>5. \A R \in SUBSET S : Cardinality(R) <= Cardinality(S)
  BY <1>1, FS_Subset
<1>6. QED
  BY <1>1, <1>2, <1>3, <1>4, <1>5

\* The admission semaphore is queued for by connector calls.
LEMMA TaskSemaphore ==
    ASSUME NEW s \in SemaphoreOf(Tasks)
    PROVE  /\ s.avail > 0 => Take(s) \in SemaphoreOf(Tasks)
           /\ \A t \in Tasks : Enqueue(s, t) \in SemaphoreOf(Tasks)
           /\ Release(s) \in SemaphoreOf(Tasks)
           /\ \A i \in 1 .. Len(s.queue) : Leave(s, i) \in SemaphoreOf(Tasks)
           /\ Queued(s) \subseteq Tasks /\ NextInLine(s) \subseteq Tasks
BY SemaphoreOps, QueuedType

\* Every disjunct of the next-state relation, as a list of cases.
LEMMA NextCases ==
    ASSUME Next
    PROVE  \/ \E t \in Tasks :
                 \/ Call(t) \/ PollAcquire(t) \/ Admitted(t) \/ AdmissionTimeout(t)
                 \/ DropAcquire(t) \/ CountAdmitted(t) \/ LoadHighWater(t)
                 \/ RaiseHighWater(t) \/ Uncount(t) \/ ReleasePermit(t)
                 \/ Connected(t) \/ ConnectFailed(t) \/ Cancel(t) \/ DropConnection(t)
                 \/ Upgrade(t) \/ Buffer(t) \/ PollRead(t) \/ PollWrite(t) \/ PollFlush(t)
           \/ Tick
BY DEF Next, Run

\* The place in the queue that DropAcquire leaves is the task's own.
LEMMA OwnPlace ==
    ASSUME NEW s \in SemaphoreOf(Tasks), NEW t \in Queued(s)
    PROVE  LET i == CHOOSE i \in 1 .. Len(s.queue) : s.queue[i] = t
           IN  i \in 1 .. Len(s.queue) /\ s.queue[i] = t
BY DEF Queued

-----------------------------------------------------------------------------
(***************************************************************************)
(* The type.                                                               *)
(***************************************************************************)
\* A new client is well typed.
LEMMA TypeInit == Init => TypeOK
BY LifecycleAssumption, EmptySeq
   DEF Init, TypeOK, PCs, NewSemaphore, SemaphoreOf

\* Every step keeps the types; Uncount needs that whoever drops a permit was counted.
LEMMA TypeStep ==
    ASSUME IInv, [Next]_vars
    PROVE  TypeOK'
<1> USE LifecycleAssumption DEF IInv, TypeOK, Goto, metrics, io
<1>p. {"idle", "refused", "poll", "waiting", "leaving", "admit", "load", "cas", "connecting",
       "drop", "release", "raw", "open", "opaque"} = PCs /\ AfterDrop \in PCs
  BY DEF PCs, Owning, Acquiring, Timed, AfterDrop
<1>f. ASSUME NEW t \in Tasks, Fresh(t)
      PROVE  /\ timer' \in [Tasks -> [Directions -> Nat \cup {None}]]
             /\ unsent' \in [Tasks -> BOOLEAN]
             /\ blocked' \in [Tasks -> [Directions -> BOOLEAN]]
             /\ quiet' \in [Tasks -> [Directions -> Nat]]
  BY <1>f DEF Fresh
<1>d. ASSUME NEW t \in Tasks, Failed(t)
      PROVE  /\ pc' \in [Tasks -> PCs]
             /\ timer' \in [Tasks -> [Directions -> Nat \cup {None}]]
             /\ unsent' \in [Tasks -> BOOLEAN]
             /\ blocked' \in [Tasks -> [Directions -> BOOLEAN]]
             /\ quiet' \in [Tasks -> [Directions -> Nat]]
  BY <1>d, <1>f, <1>p DEF Failed
<1>r. ASSUME NEW t \in Tasks, NEW d \in Directions, NEW bytes \in BOOLEAN,
             NEW a \in Nat \cup {None}, Ready(t, d, bytes, a)
      PROVE  /\ pc' \in [Tasks -> PCs]
             /\ timer' \in [Tasks -> [Directions -> Nat \cup {None}]]
             /\ blocked' \in [Tasks -> [Directions -> BOOLEAN]]
             /\ quiet' \in [Tasks -> [Directions -> Nat]]
  BY <1>r DEF Ready
<1>t. ASSUME NEW t \in Tasks, NEW d \in Directions, PollTimer(t, d)
      PROVE  /\ pc' \in [Tasks -> PCs]
             /\ timer' \in [Tasks -> [Directions -> Nat \cup {None}]]
             /\ unsent' \in [Tasks -> BOOLEAN]
             /\ blocked' \in [Tasks -> [Directions -> BOOLEAN]]
             /\ quiet' \in [Tasks -> [Directions -> Nat]]
  <2>1. CASE TimedOut(t, d) /\ Failed(t)
    BY <1>d, <2>1
  <2>2. CASE ~(TimedOut(t, d) /\ Failed(t))
    <3> DEFINE b == conf[d] # None
               a == IF conf[d] # None /\ timer[t][d] = None THEN 0 ELSE timer[t][d]
    <3>1. timer' = [timer EXCEPT ![t] = [@ EXCEPT ![d] = a]] /\ a \in Nat \cup {None}
      BY <1>t, <2>2 DEF PollTimer
    <3>2. timer' \in [Tasks -> [Directions -> Nat \cup {None}]]
      <4> HIDE DEF a
      <4>1. QED
        BY <3>1
    <3>3. blocked' = [blocked EXCEPT ![t] = [@ EXCEPT ![d] = b]] /\ b \in BOOLEAN
      BY <1>t, <2>2 DEF PollTimer
    <3>4. blocked' \in [Tasks -> [Directions -> BOOLEAN]]
      <4> HIDE DEF b
      <4>1. QED
        BY <3>3
    <3>5. QED
      BY <1>t, <2>2, <3>2, <3>4 DEF PollTimer
  <2>3. QED
    BY <2>1, <2>2
<1>0. CASE UNCHANGED vars
  BY <1>0 DEF vars
<1>1. ASSUME NEW t \in Tasks, Call(t) \/ PollAcquire(t)
      PROVE  TypeOK'
  <2>1. sem' \in SemaphoreOf(Tasks)
    BY <1>1, TaskSemaphore DEF Call, PollAcquire
  <2>2. pc' \in [Tasks -> PCs]
    BY <1>1, <1>p DEF Call, PollAcquire
  <2>3. CASE Call(t)
    BY <2>1, <2>2, <2>3 DEF Call
  <2>4. CASE PollAcquire(t)
    BY <2>1, <2>2, <2>4 DEF PollAcquire
  <2>5. QED
    BY <1>1, <2>3, <2>4
<1>2. ASSUME NEW t \in Tasks, Admitted(t) \/ AdmissionTimeout(t) \/ ConnectFailed(t) \/ Cancel(t)
      PROVE  TypeOK'
  <2>1. pc' \in [Tasks -> PCs]
    BY <1>2, <1>p DEF Admitted, AdmissionTimeout, ConnectFailed, Cancel
  <2>2. QED
    BY <1>2, <2>1 DEF Admitted, AdmissionTimeout, ConnectFailed, Cancel
<1>3. ASSUME NEW t \in Tasks, DropAcquire(t)
      PROVE  TypeOK'
  BY <1>3, <1>p, TaskSemaphore, OwnPlace DEF DropAcquire
<1>4. ASSUME NEW t \in Tasks, CountAdmitted(t)
      PROVE  TypeOK'
  <2>1. mine' \in [Tasks -> [live : Nat, seen : Nat]]
    <3> DEFINE n == gauge + 1
    <3>1. n \in Nat /\ mine' = [mine EXCEPT ![t].live = n]
      BY <1>4 DEF CountAdmitted
    <3> HIDE DEF n
    <3>2. QED
      BY <3>1
  <2>2. gauge' \in Nat /\ peak' \in Nat /\ pc' \in [Tasks -> PCs]
    BY <1>4, <1>p DEF CountAdmitted
  <2>3. QED
    BY <1>4, <2>1, <2>2 DEF CountAdmitted
<1>5. ASSUME NEW t \in Tasks, LoadHighWater(t) \/ RaiseHighWater(t)
      PROVE  TypeOK'
  <2>1. mine' \in [Tasks -> [live : Nat, seen : Nat]]
    <3>1. CASE mine' = [mine EXCEPT ![t].seen = highWater]
      BY <3>1
    <3>2. CASE mine' = [mine EXCEPT ![t] = [live |-> 0, seen |-> 0]]
      BY <3>2
    <3>3. QED
      BY <1>5, <3>1, <3>2 DEF LoadHighWater, RaiseHighWater
  <2>2. pc' \in [Tasks -> PCs]
    BY <1>5, <1>p DEF LoadHighWater, RaiseHighWater
  <2>3. highWater' \in Nat
    BY <1>5 DEF LoadHighWater, RaiseHighWater
  <2>4. QED
    BY <1>5, <2>1, <2>2, <2>3 DEF LoadHighWater, RaiseHighWater
<1>6. ASSUME NEW t \in Tasks, Uncount(t)
      PROVE  TypeOK'
  <2>1. Limited
    BY <1>6 DEF Uncount, Unadmitted, Timed
  <2>2. gauge - 1 \in Nat
    <3>1. Counted \in SUBSET Tasks /\ t \in Counted
      BY <1>6 DEF Uncount, Counted, CountedPoints
    <3>2. Cardinality(Counted) - 1 \in Nat
      <4>1. Counted \ {t} \in SUBSET Tasks
        BY <3>1
      <4>2. Cardinality(Counted \ {t}) \in Nat /\ Cardinality(Counted \ {t}) = Cardinality(Counted) - 1
        BY <3>1, <4>1, CountTasks
      <4>3. QED
        BY <4>2
    <3>3. QED
      BY <2>1, <3>2 DEF GaugeCount
  <2>3. QED
    BY <1>6, <1>p, <2>2 DEF Uncount
<1>7. ASSUME NEW t \in Tasks, ReleasePermit(t)
      PROVE  TypeOK'
  BY <1>7, <1>p, TaskSemaphore DEF ReleasePermit
<1>8. ASSUME NEW t \in Tasks, Connected(t) \/ DropConnection(t) \/ Upgrade(t)
      PROVE  TypeOK'
  BY <1>8, <1>p, <1>f DEF Connected, DropConnection, Upgrade
<1>9. ASSUME NEW t \in Tasks, Buffer(t)
      PROVE  TypeOK'
  BY <1>9 DEF Buffer
<1>10. ASSUME NEW t \in Tasks, PollRead(t)
      PROVE  TypeOK'
  <2>1. timer[t]["read"] \in Nat \cup {None} /\ "read" \in Directions
    BY DEF Directions
  <2>2. QED
    BY <1>10, <1>r, <1>d, <1>t, <2>1 DEF PollRead
<1>11. ASSUME NEW t \in Tasks, PollWrite(t) \/ PollFlush(t)
      PROVE  TypeOK'
  <2>1. timer[t]["write"] \in Nat \cup {None} /\ "write" \in Directions
    BY DEF Directions
  <2>2. QED
    BY <1>11, <1>r, <1>d, <1>t, <2>1 DEF PollWrite, PollFlush
<1>12. CASE Tick
  <2> DEFINE N == Nat \cup {None}
  <2>1. \A a, l \in N : Older(a, l) \in N /\ (a \in Nat => Older(a, l) \in Nat)
    BY DEF Older
  <2>2. conf.admission \in N /\ \A d \in Directions : conf[d] \in N
    BY DEF Directions
  <2>3. Nat \subseteq N /\ timer \in [Tasks -> [Directions -> N]]
    OBVIOUS
  <2> HIDE DEF N
  <2>4. waited' \in [Tasks -> Nat]
    <3>1. \A t \in Tasks : Older(waited[t], conf.admission) \in Nat
      <4> SUFFICES ASSUME NEW t \in Tasks
                   PROVE  Older(waited[t], conf.admission) \in Nat
        OBVIOUS
      <4>1. waited[t] \in Nat /\ waited[t] \in N
        BY <2>3
      <4>2. QED
        BY <2>1, <2>2, <4>1, Zenon
    <3>2. QED
      BY <1>12, <3>1 DEF Tick
  <2>5. timer' \in [Tasks -> [Directions -> N]]
    <3>1. \A t \in Tasks, d \in Directions : Older(timer[t][d], conf[d]) \in N
      <4> SUFFICES ASSUME NEW t \in Tasks, NEW d \in Directions
                   PROVE  Older(timer[t][d], conf[d]) \in N
        OBVIOUS
      <4>1. timer[t][d] \in N /\ timer[t][d] \in N
        BY <2>3
      <4>2. QED
        BY <2>1, <2>2, <4>1, Zenon
    <3>2. QED
      BY <1>12, <3>1 DEF Tick
  <2>6. quiet' \in [Tasks -> [Directions -> Nat]]
    <3>1. \A t \in Tasks, d \in Directions : Older(quiet[t][d], conf[d]) \in Nat
      <4> SUFFICES ASSUME NEW t \in Tasks, NEW d \in Directions
                   PROVE  Older(quiet[t][d], conf[d]) \in Nat
        OBVIOUS
      <4>1. quiet[t][d] \in Nat /\ quiet[t][d] \in N
        BY <2>3
      <4>2. QED
        BY <2>1, <2>2, <4>1, Zenon
    <3>2. QED
      BY <1>12, <3>1 DEF Tick
  <2>7. QED
    BY <1>12, <2>4, <2>5, <2>6 DEF Tick, N
<1>13. QED
  BY <1>0, <1>1, <1>2, <1>3, <1>4, <1>5, <1>6, <1>7, <1>8, <1>9, <1>10, <1>11, <1>12, NextCases

-----------------------------------------------------------------------------
(***************************************************************************)
(* The semaphore.                                                          *)
(***************************************************************************)
\* What the permits' part of the invariant says of a state.
Permits == QueueShape /\ PermitCount /\ NoIdlePermit

\* A step that moves tasks between points of the same standing.
LEMMA SameStanding ==
    ASSUME IInv, UNCHANGED <<conf, sem>>, Limited => Holders' = Holders,
           \A t \in Queued(sem) : pc'[t] \in Acquiring
    PROVE  Permits'
BY DEF IInv, Permits, QueueShape, PermitCount, NoIdlePermit, Limited, Distinct, Queued

\* No step loses, mints or idles a permit, and none queues twice.
LEMMA PermitsStep ==
    ASSUME IInv, [Next]_vars
    PROVE  Permits'
<1> USE DEF IInv, TypeOK, Goto
<1>s. sem \in SemaphoreOf(Tasks) /\ Distinct(sem) /\ Holders \in SUBSET Tasks
      /\ Queued(sem) \subseteq Tasks /\ sem.avail \in Nat
  BY TaskSemaphore DEF QueueShape, Holders, SemaphoreOf
<1>c. Cardinality(Holders) \in Nat
  BY <1>s, CountTasks
<1>a. ASSUME NEW t \in Tasks, NEW next \in Owning, t \in Holders, Goto(t, next),
             t \notin Queued(sem), UNCHANGED <<conf, sem>>
      PROVE  Permits'
  <2>1. Holders' = Holders
    BY <1>a DEF Holders, Queued
  <2>2. QED
    BY <1>a, <2>1, SameStanding DEF QueueShape
<1>b. ASSUME NEW t \in Tasks, pc[t] \notin Owning \cup Acquiring, sem.avail > 0,
             sem' = Take(sem), Goto(t, "admit"), UNCHANGED conf
      PROVE  Permits'
  <2>1. Queued(sem') = Queued(sem) /\ sem'.avail = sem.avail - 1 /\ Distinct(sem')
        /\ sem'.queue = sem.queue
    BY <1>b, <1>s, TakeEffect DEF Take
  <2>2. Holders' = Holders \cup {t} /\ t \notin Holders
    BY <1>b, <2>1 DEF Holders, Owning
  <2>3. Cardinality(Holders') = Cardinality(Holders) + 1
    BY <1>s, <2>2, CountTasks
  <2>4. QueueShape'
    BY <1>b, <1>s, <2>1 DEF QueueShape, Acquiring
  <2>5. PermitCount'
    <3>1. Limited' => Limited /\ conf'.maxLive = conf.maxLive
      BY <1>b DEF Limited
    <3>2. Limited => (sem.avail - 1) + (Cardinality(Holders) + 1) = conf.maxLive
      <4>1. \A a, c \in Nat : (a - 1) + (c + 1) = a + c
        OBVIOUS
      <4>2. QED
        BY <1>s, <1>c, <4>1, Zenon DEF PermitCount
    <3>3. QED
      BY <2>1, <2>3, <3>1, <3>2 DEF PermitCount
  <2>6. QED
    BY <1>s, <2>1, <2>4, <2>5 DEF Permits, NoIdlePermit
<1>e. ASSUME NEW t \in Tasks, NEW next \in PCs \ (Owning \cup Acquiring), t \in Holders,
             sem' = Release(sem), Goto(t, next), UNCHANGED conf
      PROVE  Permits'
  <2>1. /\ Distinct(sem')
        /\ Queued(sem') = Queued(sem) \ NextInLine(sem)
        /\ NextInLine(sem) \subseteq Queued(sem)
    BY <1>s, <1>e, ReleaseEffect
  <2>2. t \notin Queued(sem)
    BY <1>e DEF Holders, QueueShape, Owning, Acquiring, Timed
  <2>3. \A u \in Queued(sem') : pc'[u] \in Acquiring
    BY <1>e, <1>s, <2>1, <2>2 DEF QueueShape
  <2>4. sem'.avail > 0 => sem'.queue = <<>>
    BY <1>e DEF Release, NoIdlePermit
  <2>5. Holders' = (Holders \ {t}) \cup NextInLine(sem)
    BY <1>e, <1>s, <2>1, <2>2 DEF Holders, QueueShape
  <2>6. CASE NextInLine(sem) = {} /\ sem'.avail = sem.avail + 1
    <3>1. Cardinality(Holders') = Cardinality(Holders) - 1
      BY <1>s, <1>e, <2>5, <2>6, CountTasks
    <3>2. PermitCount'
      BY <1>s, <1>c, <1>e, <2>6, <3>1, LifecycleAssumption, SMTT(60) DEF PermitCount, Limited
    <3>3. QED
      BY <2>1, <2>3, <2>4, <3>2 DEF Permits, QueueShape, NoIdlePermit
  <2>7. ASSUME NEW u \in Queued(sem), NextInLine(sem) = {u}, sem'.avail = sem.avail
        PROVE  Permits'
    <3>1. u \in Tasks \ Holders
      BY <1>s DEF Holders, QueueShape, Owning, Acquiring, Timed
    <3>2. Cardinality(Holders') = Cardinality(Holders)
      <4>1. Holders' = (Holders \ {t}) \cup {u}
        BY <2>5, <2>7
      <4>2. QED
        BY <1>s, <1>e, <3>1, <4>1, CountTasks
    <3>3. PermitCount'
      BY <1>s, <1>c, <1>e, <2>7, <3>2, LifecycleAssumption DEF PermitCount, Limited
    <3>4. QED
      BY <2>1, <2>3, <2>4, <3>3 DEF Permits, QueueShape, NoIdlePermit
  <2>8. QED
    BY <1>s, <1>e, <2>6, <2>7, ReleaseEffect
<1>0. CASE UNCHANGED vars
  BY <1>0, SameStanding DEF vars, Holders, QueueShape
<1>1. ASSUME NEW t \in Tasks, Call(t)
      PROVE  Permits'
  <2>1. pc[t] \notin Owning \cup Acquiring /\ t \notin Holders /\ t \notin Queued(sem)
    BY <1>1 DEF Call, Owning, Acquiring, Timed, Holders, QueueShape
  <2>2. CASE ~Invalid /\ Limited /\ sem.avail > 0
    BY <1>1, <1>b, <2>1, <2>2 DEF Call
  <2>3. CASE Limited /\ (Invalid \/ sem.avail = 0)
    <3>1. sem' = sem /\ conf' = conf /\ pc'[t] \in {"refused", "poll"}
          /\ \A u \in Tasks \ {t} : pc'[u] = pc[u]
      BY <1>1, <2>3 DEF Call
    <3>2. Holders' = Holders
      BY <2>1, <3>1 DEF Holders, Owning, Acquiring, Timed
    <3>3. QED
      BY <1>s, <2>1, <3>1, <3>2, SameStanding DEF QueueShape
  <2>4. CASE ~Limited
    <3>1. UNCHANGED <<conf, sem>> /\ \A u \in Tasks \ {t} : pc'[u] = pc[u]
      BY <1>1, <2>4 DEF Call
    <3>2. QED
      BY <1>s, <2>1, <2>4, <3>1, SameStanding DEF QueueShape
  <2>5. QED
    BY <1>s, <2>2, <2>3, <2>4
<1>2. ASSUME NEW t \in Tasks, PollAcquire(t)
      PROVE  Permits'
  <2>1. pc[t] \notin Owning \cup Acquiring /\ t \notin Holders /\ t \notin Queued(sem)
    BY <1>2 DEF PollAcquire, Owning, Acquiring, Timed, Holders, QueueShape
  <2>2. CASE sem.avail > 0
    BY <1>2, <1>b, <2>1, <2>2 DEF PollAcquire
  <2>3. CASE sem.avail = 0
    <3>1. sem' = Enqueue(sem, t) /\ conf' = conf /\ pc' = [pc EXCEPT ![t] = "waiting"]
      BY <1>2, <2>3 DEF PollAcquire
    <3>2. Distinct(sem') /\ Queued(sem') = Queued(sem) \cup {t} /\ sem'.avail = sem.avail
      BY <1>s, <2>1, <3>1, EnqueueEffect
    <3>3. \A u \in Queued(sem') : pc'[u] \in Acquiring
      BY <1>s, <3>1, <3>2 DEF QueueShape, Acquiring
    <3>4. Holders' = Holders
      BY <1>s, <2>1, <3>1, <3>2 DEF Holders, Owning, Acquiring, Timed
    <3>5. QED
      BY <2>3, <3>1, <3>2, <3>3, <3>4
         DEF Permits, QueueShape, PermitCount, NoIdlePermit, Limited
  <2>4. QED
    BY <1>s, <2>2, <2>3
<1>3. ASSUME NEW t \in Tasks, Admitted(t)
      PROVE  Permits'
  BY <1>3, <1>a DEF Admitted, Holders, Owning, Acquiring
<1>4. ASSUME NEW t \in Tasks, pc[t] = "waiting", Goto(t, "leaving"), UNCHANGED <<conf, sem>>
      PROVE  Permits'
  <2>1. Holders' = Holders
    BY <1>4 DEF Holders, Acquiring, Owning, Timed
  <2>2. QED
    BY <1>s, <1>4, <2>1, SameStanding DEF QueueShape, Acquiring
<1>5. ASSUME NEW t \in Tasks, DropAcquire(t)
      PROVE  Permits'
  <2>1. pc[t] \in Acquiring /\ pc' = [pc EXCEPT ![t] = "idle"] /\ conf' = conf
    BY <1>5 DEF DropAcquire, Acquiring
  <2>2. CASE t \notin Queued(sem)
    BY <1>5, <1>e, <2>1, <2>2 DEF DropAcquire, Holders, Owning, Acquiring, Timed, PCs
  <2>3. CASE t \in Queued(sem)
    <3>1. PICK i \in 1 .. Len(sem.queue) : sem' = Leave(sem, i) /\ sem.queue[i] = t
      BY <1>s, <1>5, <2>3, OwnPlace DEF DropAcquire
    <3>2. Distinct(sem') /\ Queued(sem') = Queued(sem) \ {t} /\ sem'.avail = sem.avail
      BY <1>s, <3>1, LeaveEffect
    <3>3. \A u \in Queued(sem') : pc'[u] \in Acquiring
      BY <1>s, <2>1, <3>2 DEF QueueShape
    <3>4. Holders' = Holders
      BY <1>s, <2>1, <2>3, <3>2 DEF Holders, Owning, Acquiring, Timed
    <3>5. sem'.avail = 0
      BY <1>s, <2>3, <3>2 DEF NoIdlePermit, Queued
    <3>6. QED
      BY <2>1, <3>2, <3>3, <3>4, <3>5
         DEF Permits, QueueShape, PermitCount, NoIdlePermit, Limited
  <2>4. QED
    BY <2>2, <2>3
<1>6. ASSUME NEW t \in Tasks, NEW next \in Owning, pc[t] \in Owning, Goto(t, next),
             UNCHANGED <<conf, sem>>
      PROVE  Permits'
  <2>1. t \in Holders /\ t \notin Queued(sem)
    BY <1>6 DEF Holders, QueueShape, Owning, Acquiring, Timed
  <2>2. QED
    BY <1>6, <1>a, <2>1
\* A permit that is still to be dropped, or no permit at all.
<1>7. ASSUME NEW t \in Tasks, pc[t] \in Owning, Goto(t, AfterDrop), UNCHANGED <<conf, sem>>
      PROVE  Permits'
  <2>1. CASE Limited
    BY <1>6, <1>7, <2>1 DEF AfterDrop, Owning
  <2>2. CASE ~Limited
    <3>1. t \notin Queued(sem)
      BY <1>7 DEF QueueShape, Owning, Acquiring, Timed
    <3>2. QED
      BY <1>s, <1>7, <2>2, <3>1, SameStanding DEF QueueShape
  <2>3. QED
    BY <2>1, <2>2
<1>8. ASSUME NEW t \in Tasks, ReleasePermit(t)
      PROVE  Permits'
  BY <1>8, <1>e DEF ReleasePermit, Holders, Owning, Acquiring, Timed, PCs
<1>9. ASSUME UNCHANGED <<conf, sem, pc>>
      PROVE  Permits'
  BY <1>9, SameStanding DEF Holders, QueueShape
<1>10. ASSUME NEW t \in Tasks, CountAdmitted(t) \/ LoadHighWater(t) \/ Uncount(t)
      PROVE  Permits'
  BY <1>10, <1>6 DEF CountAdmitted, LoadHighWater, Uncount, Owning
<1>11. ASSUME NEW t \in Tasks, RaiseHighWater(t)
      PROVE  Permits'
  BY <1>11, <1>6, <1>9 DEF RaiseHighWater, Owning
<1>12. ASSUME NEW t \in Tasks, Connected(t) \/ Upgrade(t)
      PROVE  Permits'
  BY <1>12, <1>6 DEF Connected, Upgrade, Owning, Timed
<1>13. ASSUME NEW t \in Tasks, ConnectFailed(t) \/ DropConnection(t)
      PROVE  Permits'
  BY <1>13, <1>7 DEF ConnectFailed, DropConnection, Owning
<1>14. ASSUME NEW t \in Tasks, AdmissionTimeout(t) \/ Cancel(t)
      PROVE  Permits'
  BY <1>14, <1>4, <1>7 DEF AdmissionTimeout, Cancel, Owning
\* A poll leaves the permit alone or has the connection dropped.
<1>15. ASSUME NEW t \in Tasks, PollRead(t) \/ PollWrite(t) \/ PollFlush(t)
      PROVE  Permits'
  <2>1. pc[t] \in Owning /\ UNCHANGED <<conf, sem>> /\ (Goto(t, AfterDrop) \/ UNCHANGED pc)
    BY <1>15 DEF PollRead, PollWrite, PollFlush, PollTimer, Ready, Failed, Owning
  <2>2. QED
    BY <1>7, <1>9, <2>1
<1>16. CASE Tick
  BY <1>16, <1>9 DEF Tick
<1>17. ASSUME NEW t \in Tasks, Buffer(t)
      PROVE  Permits'
  BY <1>17, <1>9 DEF Buffer
<1>18. QED
  BY <1>0, <1>1, <1>2, <1>3, <1>5, <1>8, <1>10, <1>11, <1>12, <1>13, <1>14, <1>15, <1>16, <1>17,
     NextCases

-----------------------------------------------------------------------------
(***************************************************************************)
(* The gauges.                                                             *)
(***************************************************************************)
\* Without a cap no step reaches the semaphore or the gauges.
LEMMA UnadmittedStep ==
    ASSUME IInv, [Next]_vars
    PROVE  Unadmitted'
<1> SUFFICES ASSUME ~Limited'
             PROVE  \A u \in Tasks : pc'[u] \in {"idle", "refused", "connecting", "raw"} \cup Timed
  BY DEF Unadmitted
<1> USE DEF IInv, TypeOK, Goto
<1>1. conf' = conf /\ ~Limited
  <2>1. conf' = conf
    BY NextCases DEF vars, Call, PollAcquire, Admitted, AdmissionTimeout, DropAcquire,
       CountAdmitted, LoadHighWater, RaiseHighWater, Uncount, ReleasePermit, Connected,
       ConnectFailed, Cancel, DropConnection, Upgrade, Buffer, PollRead, PollWrite, PollFlush, Tick
  <2>2. QED
    BY <2>1 DEF Limited
<1>2. \A u \in Tasks : pc[u] \in {"idle", "refused", "connecting", "raw"} \cup Timed
  BY <1>1 DEF Unadmitted
<1>3. ASSUME NEW t \in Tasks,
             NEW next \in {"idle", "refused", "connecting", "raw"} \cup Timed, Goto(t, next)
      PROVE  \A u \in Tasks : pc'[u] \in {"idle", "refused", "connecting", "raw"} \cup Timed
  BY <1>2, <1>3
<1>4. ASSUME NEW t \in Tasks, Goto(t, AfterDrop)
      PROVE  \A u \in Tasks : pc'[u] \in {"idle", "refused", "connecting", "raw"} \cup Timed
  BY <1>1, <1>3, <1>4 DEF AfterDrop
<1>5. ASSUME NEW t \in Tasks, Call(t)
      PROVE  \A u \in Tasks : pc'[u] \in {"idle", "refused", "connecting", "raw"} \cup Timed
  BY <1>1, <1>3, <1>5 DEF Call
<1>6. ASSUME NEW t \in Tasks,
             \/ PollAcquire(t) \/ Admitted(t) \/ AdmissionTimeout(t) \/ DropAcquire(t)
             \/ CountAdmitted(t) \/ LoadHighWater(t) \/ RaiseHighWater(t) \/ Uncount(t)
             \/ ReleasePermit(t)
      PROVE  FALSE
  BY <1>2, <1>6 DEF PollAcquire, Admitted, AdmissionTimeout, DropAcquire, CountAdmitted,
     LoadHighWater, RaiseHighWater, Uncount, ReleasePermit, Timed
<1>7. ASSUME NEW t \in Tasks,
             \/ Connected(t) \/ ConnectFailed(t) \/ Cancel(t) \/ DropConnection(t) \/ Upgrade(t)
      PROVE  \A u \in Tasks : pc'[u] \in {"idle", "refused", "connecting", "raw"} \cup Timed
  <2>1. pc[t] # "waiting"
    BY <1>2 DEF Timed
  <2>2. QED
    BY <1>3, <1>4, <1>7, <2>1 DEF Connected, ConnectFailed, Cancel, DropConnection, Upgrade, Timed
<1>8. ASSUME NEW t \in Tasks, PollRead(t) \/ PollWrite(t) \/ PollFlush(t)
      PROVE  \A u \in Tasks : pc'[u] \in {"idle", "refused", "connecting", "raw"} \cup Timed
  <2>1. Goto(t, AfterDrop) \/ UNCHANGED pc
    BY <1>8 DEF PollRead, PollWrite, PollFlush, PollTimer, Ready, Failed
  <2>2. QED
    BY <1>2, <1>4, <2>1
<1>9. ASSUME UNCHANGED pc
      PROVE  \A u \in Tasks : pc'[u] \in {"idle", "refused", "connecting", "raw"} \cup Timed
  BY <1>2, <1>9
<1>10. QED
  BY <1>5, <1>6, <1>7, <1>8, <1>9, NextCases DEF vars, Tick, Buffer

\* The live gauge moves with the set of tasks it counts.
LEMMA GaugeStep ==
    ASSUME IInv, [Next]_vars
    PROVE  GaugeCount'
<1> USE DEF IInv, TypeOK, Goto, metrics
<1> SUFFICES ASSUME Limited'
             PROVE  gauge' = Cardinality(Counted')
  BY DEF GaugeCount
<1>1. conf' = conf /\ Limited
  <2>1. conf' = conf
    BY NextCases DEF vars, Call, PollAcquire, Admitted, AdmissionTimeout, DropAcquire,
       CountAdmitted, LoadHighWater, RaiseHighWater, Uncount, ReleasePermit, Connected,
       ConnectFailed, Cancel, DropConnection, Upgrade, Buffer, PollRead, PollWrite, PollFlush, Tick
  <2>2. QED
    BY <2>1 DEF Limited
<1>2. gauge = Cardinality(Counted) /\ Counted \in SUBSET Tasks
  BY <1>1 DEF GaugeCount, Counted
<1>a. ASSUME NEW t \in Tasks, NEW next \in PCs, Goto(t, next), UNCHANGED gauge,
             pc[t] \in CountedPoints <=> next \in CountedPoints
      PROVE  gauge' = Cardinality(Counted')
  <2>1. Counted' = Counted
    BY <1>a DEF Counted
  <2>2. QED
    BY <1>2, <1>a, <2>1
<1>b. ASSUME UNCHANGED <<pc, gauge>>
      PROVE  gauge' = Cardinality(Counted')
  BY <1>2, <1>b DEF Counted
<1>3. ASSUME NEW t \in Tasks, CountAdmitted(t)
      PROVE  gauge' = Cardinality(Counted')
  <2>1. Counted' = Counted \cup {t} /\ t \notin Counted
    BY <1>3 DEF CountAdmitted, Counted, CountedPoints, Timed
  <2>2. Cardinality(Counted') = Cardinality(Counted) + 1
    BY <1>2, <2>1, CountTasks
  <2>3. QED
    BY <1>2, <1>3, <2>2 DEF CountAdmitted
<1>4. ASSUME NEW t \in Tasks, Uncount(t)
      PROVE  gauge' = Cardinality(Counted')
  <2>1. Counted' = Counted \ {t} /\ t \in Counted
    BY <1>4 DEF Uncount, Counted, CountedPoints, Timed
  <2>2. Cardinality(Counted') = Cardinality(Counted) - 1
    BY <1>2, <2>1, CountTasks
  <2>3. QED
    BY <1>2, <1>4, <2>2 DEF Uncount
<1>5. ASSUME NEW t \in Tasks,
             \/ Call(t) \/ PollAcquire(t) \/ Admitted(t) \/ AdmissionTimeout(t) \/ DropAcquire(t)
             \/ LoadHighWater(t) \/ ReleasePermit(t)
      PROVE  gauge' = Cardinality(Counted')
  BY <1>1, <1>5, <1>a DEF Call, PollAcquire, Admitted, AdmissionTimeout, DropAcquire,
     LoadHighWater, ReleasePermit, CountedPoints, PCs, Owning, Acquiring, Timed
<1>6. ASSUME NEW t \in Tasks, RaiseHighWater(t)
      PROVE  gauge' = Cardinality(Counted')
  BY <1>6, <1>a, <1>b DEF RaiseHighWater, CountedPoints, PCs, Owning
<1>7. ASSUME NEW t \in Tasks, pc[t] \in CountedPoints, Goto(t, AfterDrop), UNCHANGED gauge
      PROVE  gauge' = Cardinality(Counted')
  BY <1>1, <1>7, <1>a DEF AfterDrop, CountedPoints, PCs, Owning
<1>8. ASSUME NEW t \in Tasks, Connected(t) \/ Upgrade(t)
      PROVE  gauge' = Cardinality(Counted')
  BY <1>8, <1>a DEF Connected, Upgrade, CountedPoints, PCs, Owning, Timed
<1>9. ASSUME NEW t \in Tasks, ConnectFailed(t) \/ DropConnection(t)
      PROVE  gauge' = Cardinality(Counted')
  BY <1>9, <1>7 DEF ConnectFailed, DropConnection, CountedPoints
<1>10. ASSUME NEW t \in Tasks, Cancel(t)
      PROVE  gauge' = Cardinality(Counted')
  BY <1>10, <1>7, <1>a DEF Cancel, CountedPoints, PCs, Acquiring, Timed
<1>11. ASSUME NEW t \in Tasks, PollRead(t) \/ PollWrite(t) \/ PollFlush(t)
      PROVE  gauge' = Cardinality(Counted')
  <2>1. pc[t] \in CountedPoints /\ UNCHANGED gauge /\ (Goto(t, AfterDrop) \/ UNCHANGED pc)
    BY <1>11 DEF PollRead, PollWrite, PollFlush, PollTimer, Ready, Failed, CountedPoints
  <2>2. QED
    BY <1>7, <1>b, <2>1
<1>12. QED
  BY <1>3, <1>4, <1>5, <1>6, <1>8, <1>9, <1>10, <1>11, <1>b, NextCases DEF vars, Tick, Buffer

\* The mark stays behind the peak only while a call that saw the peak is about to raise it.
LEMMA MarkStep ==
    ASSUME IInv, [Next]_vars
    PROVE  MarkIsBehind'
<1> USE DEF IInv, TypeOK, Goto, metrics
<1> DEFINE In == {"load", "cas"}
<1>a. ASSUME UNCHANGED metrics, NEW t \in Tasks, NEW next \in PCs \ In, pc[t] \notin In,
             Goto(t, next) \/ UNCHANGED pc
      PROVE  MarkIsBehind'
  <2>1. \A u \in Tasks : (pc'[u] \in In <=> pc[u] \in In) /\ (pc'[u] = "cas" <=> pc[u] = "cas")
    BY <1>a
  <2>2. QED
    BY <1>a, <2>1 DEF MarkIsBehind
<1>0. ASSUME UNCHANGED <<metrics, pc>>
      PROVE  MarkIsBehind'
  BY <1>0 DEF MarkIsBehind
<1>1. ASSUME NEW t \in Tasks, CountAdmitted(t)
      PROVE  MarkIsBehind'
  <2> DEFINE n == gauge + 1
  <2>1. /\ n \in Nat /\ peak' = IF n > peak THEN n ELSE peak
        /\ mine' = [mine EXCEPT ![t].live = n]
        /\ pc' = [pc EXCEPT ![t] = "load"] /\ highWater' = highWater /\ pc[t] = "admit"
    BY <1>1 DEF CountAdmitted
  <2> HIDE DEF n
  <2>2. /\ mine'[t].live = n /\ pc'[t] = "load"
        /\ \A u \in Tasks \ {t} : mine'[u] = mine[u] /\ pc'[u] = pc[u]
    BY <2>1
  <2>3. peak' >= peak /\ peak' >= n /\ peak' \in Nat
    BY <2>1
  <2>4. highWater' <= peak'
    BY <2>1, <2>3 DEF MarkIsBehind
  <2>5. \A u \in Tasks : pc'[u] \in In => mine'[u].live <= peak'
    <3>1. \A u \in Tasks \ {t} : pc'[u] \in In => mine[u].live <= peak /\ mine[u].live \in Nat
      BY <2>2 DEF MarkIsBehind
    <3>2. QED
      BY <2>2, <2>3, <3>1, <2>1
  <2>6. \A u \in Tasks : pc'[u] = "cas" => mine'[u].seen <= highWater'
    BY <2>1, <2>2 DEF MarkIsBehind
  <2>7. highWater' < peak' => \E u \in Tasks : pc'[u] \in In /\ mine'[u].live = peak'
    <3>1. CASE n > peak
      BY <2>1, <2>2, <3>1
    <3>2. CASE ~(n > peak) /\ highWater < peak
      <4>1. PICK u \in Tasks : pc[u] \in In /\ mine[u].live = peak
        BY <3>2 DEF MarkIsBehind
      <4>2. QED
        BY <2>1, <2>2, <3>2, <4>1
    <3>3. QED
      BY <2>1, <3>1, <3>2
  <2>8. QED
    BY <2>4, <2>5, <2>6, <2>7 DEF MarkIsBehind
<1>2. ASSUME NEW t \in Tasks, pc[t] \in In, Goto(t, "cas"), UNCHANGED <<highWater, peak>>,
             mine' = [mine EXCEPT ![t].seen = highWater]
      PROVE  MarkIsBehind'
  <2>1. /\ mine'[t].live = mine[t].live /\ mine'[t].seen = highWater
        /\ \A u \in Tasks \ {t} : mine'[u] = mine[u] /\ pc'[u] = pc[u]
        /\ pc'[t] = "cas"
    BY <1>2
  <2>2. \A u \in Tasks : mine'[u].live = mine[u].live /\ (pc'[u] \in In <=> pc[u] \in In)
    BY <1>2, <2>1
  <2>3. ASSUME NEW u \in Tasks, pc'[u] = "cas"
        PROVE  mine'[u].seen <= highWater
    <3>1. CASE u = t
      BY <2>1, <3>1
    <3>2. CASE u # t
      BY <2>1, <2>3, <3>2 DEF MarkIsBehind
    <3>3. QED
      BY <3>1, <3>2
  <2>4. QED
    BY <1>2, <2>2, <2>3 DEF MarkIsBehind
<1>3. ASSUME NEW t \in Tasks, RaiseHighWater(t)
      PROVE  MarkIsBehind'
  <2>1. pc[t] = "cas" /\ UNCHANGED peak
    BY <1>3 DEF RaiseHighWater
  <2>2. CASE mine[t].live > mine[t].seen /\ highWater # mine[t].seen
    <3>1. Goto(t, "cas") /\ UNCHANGED highWater /\ mine' = [mine EXCEPT ![t].seen = highWater]
      <4>1. UNCHANGED <<pc, highWater>> /\ mine' = [mine EXCEPT ![t].seen = highWater]
        BY <1>3, <2>2 DEF RaiseHighWater
      <4>2. pc = [pc EXCEPT ![t] = "cas"]
        BY <2>1
      <4>3. QED
        BY <4>1, <4>2
    <3>2. QED
      BY <1>2, <2>1, <3>1
  <2>3. CASE mine[t].live <= mine[t].seen \/ highWater = mine[t].seen
    <3>1. /\ mine[t].live \in Nat /\ mine[t].seen \in Nat
          /\ mine[t].live <= peak /\ mine[t].seen <= highWater
      BY <2>1 DEF MarkIsBehind
    <3>2. /\ highWater' = IF mine[t].live > mine[t].seen THEN mine[t].live ELSE highWater
          /\ \A u \in Tasks \ {t} : mine'[u] = mine[u] /\ pc'[u] = pc[u]
          /\ pc'[t] = "connecting"
      BY <1>3, <2>3, <3>1 DEF RaiseHighWater
    <3>3. highWater' >= highWater /\ highWater' <= peak /\ highWater' >= mine[t].live
          /\ highWater' \in Nat
      BY <2>3, <3>1, <3>2 DEF MarkIsBehind
    <3>4. \A u \in Tasks : pc'[u] \in In => mine'[u].live <= peak'
      BY <2>1, <3>2 DEF MarkIsBehind
    <3>5. \A u \in Tasks : pc'[u] = "cas" => mine'[u].seen <= highWater'
      <4>1. SUFFICES ASSUME NEW u \in Tasks, pc'[u] = "cas"
                     PROVE  mine'[u].seen <= highWater'
        OBVIOUS
      <4>2. u # t /\ mine'[u] = mine[u] /\ pc[u] = "cas"
        BY <3>2, <4>1
      <4>3. mine[u].seen \in Nat /\ mine[u].seen <= highWater
        BY <4>2 DEF MarkIsBehind
      <4>4. QED
        BY <3>3, <4>2, <4>3
    <3>6. highWater' < peak' => \E u \in Tasks : pc'[u] \in In /\ mine'[u].live = peak'
      <4>1. SUFFICES ASSUME highWater' < peak
                     PROVE  \E u \in Tasks : pc'[u] \in In /\ mine'[u].live = peak
        BY <2>1
      <4>2. PICK u \in Tasks : pc[u] \in In /\ mine[u].live = peak
        BY <3>3, <4>1 DEF MarkIsBehind
      <4>3. u # t
        BY <3>3, <4>1, <4>2
      <4>4. QED
        BY <3>2, <4>2, <4>3
    <3>7. QED
      BY <2>1, <3>3, <3>4, <3>5, <3>6 DEF MarkIsBehind
  <2>4. QED
    BY <2>2, <2>3, <2>1
<1>4. ASSUME NEW t \in Tasks, LoadHighWater(t)
      PROVE  MarkIsBehind'
  BY <1>4, <1>2 DEF LoadHighWater
<1>5. ASSUME NEW t \in Tasks, Uncount(t)
      PROVE  MarkIsBehind'
  <2>1. \A u \in Tasks : (pc'[u] \in In <=> pc[u] \in In) /\ (pc'[u] = "cas" <=> pc[u] = "cas")
    BY <1>5 DEF Uncount
  <2>2. QED
    BY <1>5, <2>1 DEF Uncount, MarkIsBehind
<1>p. AfterDrop \in PCs \ In
  BY DEF AfterDrop, PCs, Owning
<1>6. ASSUME NEW t \in Tasks,
             \/ Call(t) \/ PollAcquire(t) \/ Admitted(t) \/ AdmissionTimeout(t) \/ DropAcquire(t)
             \/ ReleasePermit(t)
      PROVE  MarkIsBehind'
  BY <1>6, <1>a DEF Call, PollAcquire, Admitted, AdmissionTimeout, DropAcquire, ReleasePermit,
     PCs, Owning, Acquiring
<1>7. ASSUME NEW t \in Tasks,
             \/ Connected(t) \/ ConnectFailed(t) \/ Cancel(t) \/ DropConnection(t) \/ Upgrade(t)
      PROVE  MarkIsBehind'
  BY <1>7, <1>a, <1>p DEF Connected, ConnectFailed, Cancel, DropConnection, Upgrade,
     PCs, Owning, Acquiring, Timed
<1>8. ASSUME NEW t \in Tasks, PollRead(t) \/ PollWrite(t) \/ PollFlush(t)
      PROVE  MarkIsBehind'
  <2>1. UNCHANGED metrics /\ pc[t] \notin In /\ (Goto(t, AfterDrop) \/ UNCHANGED pc)
    BY <1>8 DEF PollRead, PollWrite, PollFlush, PollTimer, Ready, Failed, Timed
  <2>2. QED
    BY <1>a, <1>p, <2>1
<1>9. QED
  BY <1>0, <1>1, <1>3, <1>4, <1>5, <1>6, <1>7, <1>8, NextCases DEF vars, Tick, Buffer

-----------------------------------------------------------------------------
(***************************************************************************)
(* The timers.                                                             *)
(***************************************************************************)
\* What the timer of one direction of one connection may be.
TimerFits(t, d) ==
    timer[t][d] # None => /\ pc[t] \in Timed
                          /\ conf[d] # None
                          /\ timer[t][d] <= conf[d]
                          /\ timer[t][d] <= quiet[t][d]

\* No poll makes a timer older than the silence it measures, and no connection is
\* left with a timer when it is dropped or handed out raw.
LEMMA TimerStep ==
    ASSUME IInv, [Next]_vars
    PROVE  TimerShape'
<1> USE LifecycleAssumption DEF IInv, TypeOK, Goto
<1> SUFFICES \A t \in Tasks, d \in Directions : TimerFits(t, d)'
  BY DEF TimerShape, TimerFits
<1>h. \A t \in Tasks, d \in Directions : TimerFits(t, d)
  BY DEF TimerShape, TimerFits
<1>k. \A d \in Directions : conf[d] \in (Nat \ {0}) \cup {None}
  BY DEF Directions
<1>c. conf' = conf
  BY NextCases DEF vars, Call, PollAcquire, Admitted, AdmissionTimeout, DropAcquire,
     CountAdmitted, LoadHighWater, RaiseHighWater, Uncount, ReleasePermit, Connected,
     ConnectFailed, Cancel, DropConnection, Upgrade, Buffer, PollRead, PollWrite, PollFlush, Tick
\* The connection's fields are left alone, and a timed connection stays one.
<1>a. ASSUME UNCHANGED io, \A u \in Tasks : pc[u] \in Timed => pc'[u] \in Timed
      PROVE  \A u \in Tasks, d \in Directions : TimerFits(u, d)'
  BY <1>a, <1>c, <1>h DEF TimerFits, io
\* The connection's fields start afresh.
<1>b. ASSUME NEW t \in Tasks, Fresh(t), \A u \in Tasks \ {t} : pc'[u] = pc[u]
      PROVE  \A u \in Tasks, d \in Directions : TimerFits(u, d)'
  <2>1. /\ \A d \in Directions : timer'[t][d] = None
        /\ \A u \in Tasks \ {t} : timer'[u] = timer[u] /\ quiet'[u] = quiet[u]
    BY <1>b DEF Fresh
  <2>2. ASSUME NEW u \in Tasks \ {t}, NEW d \in Directions
        PROVE  TimerFits(u, d)'
    BY <1>b, <1>c, <1>h, <2>1 DEF TimerFits
  <2>3. ASSUME NEW d \in Directions
        PROVE  TimerFits(t, d)'
    BY <2>1 DEF TimerFits
  <2>4. QED
    BY <2>2, <2>3
<1>f. ASSUME NEW t \in Tasks, Failed(t)
      PROVE  \A u \in Tasks, d \in Directions : TimerFits(u, d)'
  BY <1>b, <1>f DEF Failed
\* One direction is settled and the other left alone.
<1>r. ASSUME NEW t \in Tasks, NEW e \in Directions, pc[t] \in Timed, UNCHANGED pc,
             \A u \in Tasks \ {t} : timer'[u] = timer[u] /\ quiet'[u] = quiet[u],
             \A d \in Directions \ {e} : timer'[t][d] = timer[t][d] /\ quiet'[t][d] = quiet[t][d],
             TimerFits(t, e)'
      PROVE  \A u \in Tasks, d \in Directions : TimerFits(u, d)'
  <2>1. ASSUME NEW u \in Tasks, NEW d \in Directions, u # t \/ d # e
        PROVE  TimerFits(u, d)'
    <3>1. timer'[u][d] = timer[u][d] /\ quiet'[u][d] = quiet[u][d]
      BY <1>r, <2>1
    <3>2. QED
      BY <1>c, <1>h, <1>r, <3>1 DEF TimerFits
  <2>2. QED
    BY <1>r, <2>1
<1>s. ASSUME NEW t \in Tasks, NEW e \in Directions, pc[t] \in Timed, NEW bytes \in BOOLEAN,
             NEW a \in Nat \cup {None}, Ready(t, e, bytes, a), a = None \/ (~bytes /\ a = timer[t][e])
      PROVE  \A u \in Tasks, d \in Directions : TimerFits(u, d)'
  <2>1. /\ timer' = [timer EXCEPT ![t][e] = a]
        /\ quiet' = [quiet EXCEPT ![t][e] = 0] \/ quiet' = quiet
        /\ ~bytes => quiet' = quiet
        /\ UNCHANGED pc
    BY <1>s DEF Ready
  <2>2. /\ \A u \in Tasks \ {t} : timer'[u] = timer[u] /\ quiet'[u] = quiet[u]
        /\ \A d \in Directions \ {e} : timer'[t][d] = timer[t][d] /\ quiet'[t][d] = quiet[t][d]
        /\ timer'[t][e] = a
    BY <2>1
  <2>3. TimerFits(t, e)'
    BY <1>s, <1>c, <1>h, <2>1, <2>2 DEF TimerFits
  <2>4. QED
    BY <1>r, <1>s, <2>1, <2>2, <2>3
<1>t. ASSUME NEW t \in Tasks, NEW e \in Directions, pc[t] \in Timed, PollTimer(t, e)
      PROVE  \A u \in Tasks, d \in Directions : TimerFits(u, d)'
  <2>1. CASE TimedOut(t, e) /\ Failed(t)
    BY <1>f, <2>1
  <2>2. CASE ~(TimedOut(t, e) /\ Failed(t))
    <3> DEFINE a == IF conf[e] # None /\ timer[t][e] = None THEN 0 ELSE timer[t][e]
    <3>1. timer' = [timer EXCEPT ![t] = [@ EXCEPT ![e] = a]] /\ UNCHANGED <<pc, quiet>>
      BY <1>t, <2>2 DEF PollTimer
    <3>2. a # None => conf[e] # None /\ a <= conf[e] /\ a <= quiet[t][e]
      BY <1>t, <1>h, <1>k DEF TimerFits
    <3> HIDE DEF a
    <3>3. /\ \A u \in Tasks \ {t} : timer'[u] = timer[u] /\ quiet'[u] = quiet[u]
          /\ \A d \in Directions \ {e} : timer'[t][d] = timer[t][d] /\ quiet'[t][d] = quiet[t][d]
          /\ timer'[t][e] = a
      BY <3>1
    <3>4. TimerFits(t, e)'
      BY <1>t, <1>c, <3>1, <3>2, <3>3 DEF TimerFits
    <3>5. QED
      BY <1>r, <1>t, <3>1, <3>3, <3>4
  <2>3. QED
    BY <2>1, <2>2
<1>1. CASE UNCHANGED vars
  BY <1>1, <1>a DEF vars, io
<1>2. ASSUME NEW t \in Tasks, pc[t] \notin Timed, UNCHANGED io, \A u \in Tasks \ {t} : pc'[u] = pc[u]
      PROVE  \A u \in Tasks, d \in Directions : TimerFits(u, d)'
  BY <1>2, <1>a
<1>3. ASSUME NEW t \in Tasks,
             \/ Call(t) \/ PollAcquire(t) \/ Admitted(t) \/ AdmissionTimeout(t) \/ DropAcquire(t)
             \/ ReleasePermit(t) \/ CountAdmitted(t) \/ LoadHighWater(t) \/ RaiseHighWater(t)
             \/ Uncount(t) \/ ConnectFailed(t) \/ Cancel(t)
      PROVE  \A u \in Tasks, d \in Directions : TimerFits(u, d)'
  BY <1>2, <1>3 DEF Call, PollAcquire, Admitted, AdmissionTimeout, DropAcquire, ReleasePermit,
     CountAdmitted, LoadHighWater, RaiseHighWater, Uncount, ConnectFailed, Cancel, Timed
<1>4. ASSUME NEW t \in Tasks, Connected(t) \/ DropConnection(t)
      PROVE  \A u \in Tasks, d \in Directions : TimerFits(u, d)'
  BY <1>4, <1>b DEF Connected, DropConnection
<1>5. ASSUME NEW t \in Tasks, Upgrade(t)
      PROVE  \A u \in Tasks, d \in Directions : TimerFits(u, d)'
  <2>1. CASE Goto(t, "raw") /\ Fresh(t)
    BY <1>b, <2>1
  <2>2. CASE Goto(t, "opaque") /\ UNCHANGED io
    BY <1>a, <2>2 DEF Timed
  <2>3. QED
    BY <1>5, <2>1, <2>2 DEF Upgrade
<1>6. ASSUME NEW t \in Tasks, Buffer(t)
      PROVE  \A u \in Tasks, d \in Directions : TimerFits(u, d)'
  BY <1>6, <1>c, <1>h DEF Buffer, TimerFits
<1>7. ASSUME NEW t \in Tasks, PollRead(t) \/ PollWrite(t) \/ PollFlush(t)
      PROVE  \A u \in Tasks, d \in Directions : TimerFits(u, d)'
  <2>1. \A e \in Directions : timer[t][e] \in Nat \cup {None}
    OBVIOUS
  <2>2. pc[t] \in Timed /\ "read" \in Directions /\ "write" \in Directions
    BY <1>7 DEF PollRead, PollWrite, PollFlush, Directions
  <2>3. \/ Failed(t)
        \/ \E e \in Directions : \/ PollTimer(t, e)
                                 \/ \E b \in BOOLEAN : Ready(t, e, b, None)
                                 \/ Ready(t, e, FALSE, timer[t][e])
    BY <1>7, <2>2 DEF PollRead, PollWrite, PollFlush
  <2>4. QED
    BY <1>f, <1>s, <1>t, <2>1, <2>2, <2>3
<1>8. CASE Tick
  <2> SUFFICES ASSUME NEW t \in Tasks, NEW d \in Directions, timer'[t][d] # None
               PROVE  TimerFits(t, d)'
    BY DEF TimerFits
  <2>1. timer'[t][d] = Older(timer[t][d], conf[d]) /\ pc' = pc
        /\ quiet'[t][d] = IF pc[t] \in Timed THEN Older(quiet[t][d], conf[d]) ELSE quiet[t][d]
    BY <1>8 DEF Tick
  <2>2. timer[t][d] # None /\ timer[t][d] \in Nat
    BY <2>1 DEF Older
  <2>3. /\ pc[t] \in Timed /\ conf[d] # None /\ conf[d] \in Nat /\ quiet[t][d] \in Nat
        /\ timer[t][d] <= conf[d] /\ timer[t][d] <= quiet[t][d]
    BY <1>h, <1>k, <2>2 DEF TimerFits
  <2>4. Older(timer[t][d], conf[d]) <= conf[d]
        /\ Older(timer[t][d], conf[d]) <= Older(quiet[t][d], conf[d])
    BY <2>2, <2>3 DEF Older
  <2>5. QED
    BY <1>c, <2>1, <2>3, <2>4 DEF TimerFits
<1>9. QED
  BY <1>1, <1>3, <1>4, <1>5, <1>6, <1>7, <1>8, NextCases

-----------------------------------------------------------------------------
(***************************************************************************)
(* The theorems.                                                           *)
(***************************************************************************)
\* A client that has made no connection yet satisfies the inductive invariant.
LEMMA InvInit == Init => IInv
<1> SUFFICES ASSUME Init
             PROVE  IInv
  OBVIOUS
<1>1. TypeOK
  BY TypeInit
<1>2. sem.queue = <<>> /\ Queued(sem) = {} /\ Distinct(sem)
      /\ (Limited => sem.avail = conf.maxLive)
  BY DEF Init, NewSemaphore, Queued, Distinct, Limited
<1>3. QueueShape /\ NoIdlePermit
  BY <1>2 DEF QueueShape, NoIdlePermit
<1>4. PermitCount
  <2>1. Holders = {}
    BY DEF Init, Holders, Owning, Acquiring, Timed
  <2>2. Limited => conf.maxLive \in Nat
    BY LifecycleAssumption DEF Init, Limited
  <2>3. QED
    BY <1>2, <2>1, <2>2, FS_EmptySet DEF PermitCount
<1>5. GaugeCount
  <2>1. Counted = {}
    BY DEF Init, Counted, CountedPoints, Timed
  <2>2. QED
    BY <2>1, FS_EmptySet DEF Init, GaugeCount
<1>6. Unadmitted /\ MarkIsBehind /\ TimerShape
  BY DEF Init, Unadmitted, MarkIsBehind, TimerShape
<1>7. QED
  BY <1>1, <1>3, <1>4, <1>5, <1>6 DEF IInv

\* Every reachable state satisfies the inductive invariant: the queue's shape, the
\* permits and the gauge counted by the tasks that hold them, the mark and the timers.
THEOREM InductiveInvariant == Spec => []IInv
<1>1. Init => IInv
  BY InvInit
<1>2. IInv /\ [Next]_vars => IInv'
  BY TypeStep, PermitsStep, UnadmittedStep, GaugeStep, MarkStep, TimerStep DEF IInv, Permits
<1>3. QED
  BY <1>1, <1>2, PTL DEF Spec

\* The gauges, the permits and the timers keep their types: in particular the
\* live gauge, an unsigned counter, is never decremented below zero.
THEOREM TypeCorrect == Spec => []TypeOK
<1>1. IInv => TypeOK
  BY DEF IInv
<1>2. QED
  BY <1>1, InductiveInvariant, PTL

\* For any cap and any number of connector calls: no admission permit is lost, minted
\* or left idle while a call queues, the live gauge stays under the cap, and the
\* high-water mark settles on the largest value the gauge ever had.
THEOREM AdmissionIsExact == Spec => []AdmissionExact
<1>1. IInv => AdmissionExact
  <2> SUFFICES ASSUME IInv
               PROVE  AdmissionExact
    OBVIOUS
  <2>1. Limited => gauge <= conf.maxLive
    <3> SUFFICES ASSUME Limited
                 PROVE  gauge <= conf.maxLive
      OBVIOUS
    <3>1. Counted \in SUBSET Holders /\ Holders \in SUBSET Tasks
      BY DEF Counted, CountedPoints, Holders, Owning
    <3>2. Cardinality(Counted) <= Cardinality(Holders) /\ Cardinality(Holders) \in Nat
      BY <3>1, CountTasks
    <3>3. Counted \in SUBSET Tasks
      BY <3>1
    <3>4. Cardinality(Counted) \in Nat
      BY <3>3, CountTasks
    <3>5. sem.avail \in Nat
      BY DEF IInv, TypeOK, SemaphoreOf
    <3>6. QED
      BY <3>2, <3>4, <3>5 DEF IInv, PermitCount, GaugeCount
  <2>2. (\A t \in Tasks : pc[t] \notin {"load", "cas"}) => highWater = peak
    BY DEF IInv, TypeOK, MarkIsBehind
  <2>3. QED
    BY <2>1, <2>2 DEF AdmissionExact, IInv, PermitCount, NoIdlePermit
<1>2. QED
  BY <1>1, InductiveInvariant, PTL

\* For any limits and any interleaving of polls: a connection is failed for inactivity
\* only when no byte moved in that direction for the whole limit.
THEOREM TimeoutsAreEarned == Spec => []TimeoutIsEarned
<1>1. IInv => TimeoutIsEarned
  <2> SUFFICES ASSUME IInv, NEW t \in Tasks, NEW d \in Directions, TimedOut(t, d)
               PROVE  quiet[t][d] >= conf[d]
    BY DEF TimeoutIsEarned
  <2>1. timer[t][d] # None /\ conf[d] # None /\ timer[t][d] >= conf[d]
        /\ timer[t][d] <= quiet[t][d]
    BY DEF IInv, TimerShape, TimedOut
  <2>2. quiet[t][d] \in Nat /\ timer[t][d] \in Nat /\ conf[d] \in Nat
    BY <2>1, LifecycleAssumption DEF IInv, TypeOK, Directions
  <2>3. QED
    BY <2>1, <2>2
<1>2. QED
  BY <1>1, InductiveInvariant, PTL
=============================================================================
