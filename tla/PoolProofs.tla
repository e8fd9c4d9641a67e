----------------------------- MODULE PoolProofs -----------------------------
(***************************************************************************)
(* Proofs about the admission pool, for any number of requests, origins    *)
(* and entries, any limits and any sweep threshold.                        *)
(***************************************************************************)
EXTENDS Pool, SemaphoreProofs, FiniteSetTheorems, TLAPS

\* The semaphores of this pool are queued for by its tasks.
LEMMA TaskSemaphore ==
    ASSUME NEW s \in SemaphoreOf(Tasks)
    PROVE  /\ s.avail > 0 => Take(s) \in SemaphoreOf(Tasks)
           /\ \A t \in Tasks : Enqueue(s, t) \in SemaphoreOf(Tasks)
           /\ Release(s) \in SemaphoreOf(Tasks)
           /\ \A i \in 1 .. Len(s.queue) : Leave(s, i) \in SemaphoreOf(Tasks)
           /\ NextInLine(s) \subseteq Tasks
BY SemaphoreOps

\* Every disjunct of the next-state relation, as a list of cases.
LEMMA NextCases ==
    ASSUME Next
    PROVE  \E t \in Tasks :
             \/ \E o \in Origins \cup {NoOrigin} : Start(t, o)
             \/ PollGlobal(t) \/ WakeGlobal(t) \/ SkipOrigin(t)
             \/ FastLookup(t) \/ SlowLookup(t)
             \/ \E o \in Origins : SweepReadPermits(t, o)
             \/ SweepReadWaiters(t) \/ Insert(t)
             \/ TryOrigin(t) \/ PollOrigin(t) \/ TakeWaiterGuard(t)
             \/ DropGuard(t) \/ DropGuardOrigin(t)
             \/ CancelGlobal(t) \/ CancelOrigin(t)
             \/ CancelUnregister(t) \/ CancelDropGlobal(t)
BY DEF Next, Progress, Cancel

\* The type invariant is preserved by every step.
LEMMA TypeStep ==
    ASSUME IInv, [Next]_vars
    PROVE  TypeOK'
<1> USE PoolAssumption DEF IInv, TypeOK, lockVars, Goto, PCs, OwnsGlobal
<1>0. CASE UNCHANGED vars
  BY <1>0 DEF vars
<1>1. ASSUME NEW t \in Tasks, NEW o \in Origins \cup {NoOrigin}, Start(t, o)
      PROVE  TypeOK'
  BY <1>1, TaskSemaphore DEF Start
<1>2. ASSUME NEW t \in Tasks, PollGlobal(t)
      PROVE  TypeOK'
  BY <1>2, TaskSemaphore DEF PollGlobal
<1>3. ASSUME NEW t \in Tasks, WakeGlobal(t) \/ SkipOrigin(t)
      PROVE  TypeOK'
  BY <1>3 DEF WakeGlobal, SkipOrigin
<1>4. ASSUME NEW t \in Tasks, FastLookup(t) \/ SlowLookup(t)
      PROVE  TypeOK'
  BY <1>4 DEF FastLookup, SlowLookup, Register, LimitsOrigin, Known, LockShape
<1>5. ASSUME NEW t \in Tasks, NEW o \in Origins, SweepReadPermits(t, o)
      PROVE  TypeOK'
  BY <1>5 DEF SweepReadPermits
<1>6. ASSUME NEW t \in Tasks, SweepReadWaiters(t)
      PROVE  TypeOK'
  BY <1>6 DEF SweepReadWaiters
<1>7. ASSUME NEW t \in Tasks, Insert(t)
      PROVE  TypeOK'
  <2>1. NewSemaphore(MaxPerOrigin) \in SemaphoreOf(Tasks)
    BY <1>7 DEF Insert, LockShape, NewSemaphore, SemaphoreOf
  <2>2. PICK e \in Entries : /\ table' = [table EXCEPT ![origin[t]] = e]
                             /\ sem' = [sem EXCEPT ![e] = NewSemaphore(MaxPerOrigin)]
                             /\ entry' = [entry EXCEPT ![t] = e]
                             /\ waiters' = [waiters EXCEPT ![e] = 1]
    BY <1>7 DEF Insert
  <2>3. sem' \in [Entries -> SemaphoreOf(Tasks)]
    BY <2>1, <2>2
  <2>4. QED
    BY <1>7, <2>2, <2>3 DEF Insert
<1>8. ASSUME NEW t \in Tasks, TryOrigin(t) \/ PollOrigin(t)
      PROVE  TypeOK'
  <2>1. entry[t] \in Entries
    BY <1>8 DEF TryOrigin, PollOrigin, EntryShape, Registered
  <2>2. sem' \in [Entries -> SemaphoreOf(Tasks)]
    <3>1. /\ sem[entry[t]].avail > 0 => Take(sem[entry[t]]) \in SemaphoreOf(Tasks)
          /\ Enqueue(sem[entry[t]], t) \in SemaphoreOf(Tasks)
      BY <2>1, TaskSemaphore
    <3>2. QED
      BY <1>8, <2>1, <3>1 DEF TryOrigin, PollOrigin
  <2>3. QED
    BY <1>8, <2>1, <2>2 DEF TryOrigin, PollOrigin
<1>9. ASSUME NEW t \in Tasks, TakeWaiterGuard(t) \/ CancelUnregister(t)
      PROVE  TypeOK'
  <2>1. entry[t] \in Entries /\ t \in RegisteredAt(entry[t]) /\ Live(entry[t])
    BY <1>9 DEF TakeWaiterGuard, CancelUnregister, EntryShape, Registered, RegisteredAt,
                Live, Unreferenced
  <2>2. waiters[entry[t]] > 0
    <3>1. IsFiniteSet(RegisteredAt(entry[t]))
      BY FS_Subset DEF RegisteredAt
    <3>2. Cardinality(RegisteredAt(entry[t])) # 0
      BY <2>1, <3>1, FS_EmptySet
    <3>3. QED
      BY <2>1, <3>2 DEF WaitersExact
  <2>3. QED
    BY <1>9, <2>1, <2>2 DEF TakeWaiterGuard, CancelUnregister
<1>10. ASSUME NEW t \in Tasks, DropGuard(t) \/ CancelDropGlobal(t) \/ CancelGlobal(t)
       PROVE  TypeOK'
  BY <1>10, TaskSemaphore DEF DropGuard, CancelDropGlobal, CancelGlobal, DropGlobal
<1>11. ASSUME NEW t \in Tasks, DropGuardOrigin(t) \/ CancelOrigin(t)
       PROVE  TypeOK'
  <2>1. entry[t] \in Entries
    BY <1>11 DEF DropGuardOrigin, CancelOrigin, EntryShape, Registered
  <2>2. sem' \in [Entries -> SemaphoreOf(Tasks)]
    BY <1>11, <2>1, TaskSemaphore DEF DropGuardOrigin, CancelOrigin, DropOriginPermit
  <2>3. QED
    BY <1>11, <2>1, <2>2 DEF DropGuardOrigin, CancelOrigin, DropOriginPermit
<1>12. QED
  BY <1>0, <1>1, <1>2, <1>3, <1>4, <1>5, <1>6, <1>7, <1>8, <1>9, <1>10, <1>11, NextCases

-----------------------------------------------------------------------------
\* What a step does to the two kinds of queues, given the invariant.

\* Every queued task of the pool is a task that waits for that semaphore, and
\* so is the one a dropped permit is handed to.
LEMMA QueuedTasks ==
    ASSUME IInv
    PROVE  /\ Queued(globalSem) \subseteq Tasks
           /\ NextInLine(globalSem) \subseteq Queued(globalSem)
           /\ \A e \in Entries : /\ Queued(sem[e]) \subseteq Tasks
                                 /\ NextInLine(sem[e]) \subseteq Queued(sem[e])
<1>1. ASSUME NEW s \in SemaphoreOf(Tasks), Distinct(s)
      PROVE  Queued(s) \subseteq Tasks /\ NextInLine(s) \subseteq Queued(s)
  BY <1>1, QueuedType, ReleaseEffect
<1>2. QED
  BY <1>1 DEF IInv, TypeOK, GlobalQueueShape, OriginQueueShape

\* The queue of the global semaphore keeps its shape.
LEMMA GlobalQueueStep ==
    ASSUME IInv, [Next]_vars
    PROVE  GlobalQueueShape'
<1> USE DEF IInv, TypeOK, lockVars, Goto
<1>0. ASSUME globalSem' = globalSem,
             \A u \in Tasks : pc[u] = "waitGlobal" => pc'[u] = "waitGlobal"
      PROVE  GlobalQueueShape'
  BY <1>0, QueuedTasks DEF GlobalQueueShape
<1>1. CASE UNCHANGED vars
  BY <1>0, <1>1 DEF vars
<1>2. ASSUME NEW t \in Tasks, NEW o \in Origins \cup {NoOrigin}, Start(t, o)
      PROVE  GlobalQueueShape'
  BY <1>2, QueuedTasks, TakeEffect DEF Start, GlobalQueueShape
<1>3. ASSUME NEW t \in Tasks, PollGlobal(t)
      PROVE  GlobalQueueShape'
  <2>1. t \notin Queued(globalSem)
    BY <1>3 DEF PollGlobal, GlobalQueueShape
  <2>2. /\ Distinct(Enqueue(globalSem, t))
        /\ Queued(Enqueue(globalSem, t)) = Queued(globalSem) \cup {t}
    BY <2>1, EnqueueEffect DEF GlobalQueueShape
  <2>3. QED
    BY <1>3, <2>1, <2>2, QueuedTasks, TakeEffect DEF PollGlobal, GlobalQueueShape
<1>4. ASSUME NEW t \in Tasks, NEW next \in PCs, DropGlobal(t, next), pc[t] # "waitGlobal"
      PROVE  GlobalQueueShape'
  <2>1. /\ Distinct(Release(globalSem))
        /\ Queued(Release(globalSem)) = Queued(globalSem) \ NextInLine(globalSem)
    BY ReleaseEffect DEF GlobalQueueShape
  <2>2. QED
    BY <1>4, <2>1, QueuedTasks DEF DropGlobal, GlobalQueueShape
<1>5. ASSUME NEW t \in Tasks, CancelGlobal(t)
      PROVE  GlobalQueueShape'
  <2>1. CASE pc[t] = "grantedGlobal"
    BY <1>4, <1>5, <2>1 DEF CancelGlobal, PCs
  <2>2. CASE pc[t] = "waitGlobal"
    <3>1. PICK i \in 1 .. Len(globalSem.queue) :
             globalSem.queue[i] = t /\ globalSem' = Leave(globalSem, i)
      BY <1>5, <2>2 DEF CancelGlobal
    <3>2. Distinct(globalSem') /\ Queued(globalSem') = Queued(globalSem) \ {t}
      BY <3>1, LeaveEffect DEF GlobalQueueShape
    <3>3. QED
      BY <1>5, <2>2, <3>2, QueuedTasks DEF CancelGlobal, GlobalQueueShape
  <2>3. QED
    BY <1>5, <2>1, <2>2 DEF CancelGlobal
<1>6. ASSUME NEW t \in Tasks, DropGuard(t) \/ CancelDropGlobal(t)
      PROVE  GlobalQueueShape'
  BY <1>4, <1>6 DEF DropGuard, CancelDropGlobal, PCs, OwnsGlobal
<1>7. ASSUME NEW t \in Tasks,
             \/ WakeGlobal(t) \/ SkipOrigin(t) \/ FastLookup(t) \/ SlowLookup(t)
             \/ \E o \in Origins : SweepReadPermits(t, o)
             \/ SweepReadWaiters(t) \/ Insert(t)
             \/ TryOrigin(t) \/ PollOrigin(t) \/ TakeWaiterGuard(t) \/ CancelUnregister(t)
      PROVE  GlobalQueueShape'
  <2>1. pc[t] # "waitGlobal" \/ pc' = pc
    BY <1>7 DEF WakeGlobal, SkipOrigin, FastLookup, SlowLookup, SweepReadPermits,
         SweepReadWaiters, Insert, TryOrigin, PollOrigin, TakeWaiterGuard, CancelUnregister,
         LockShape
  <2>2. QED
    BY <1>0, <1>7, <2>1 DEF WakeGlobal, SkipOrigin, FastLookup, SlowLookup, SweepReadPermits,
         SweepReadWaiters, Insert, TryOrigin, PollOrigin, TakeWaiterGuard, CancelUnregister,
         Register
<1>8. ASSUME NEW t \in Tasks, DropGuardOrigin(t) \/ CancelOrigin(t)
      PROVE  GlobalQueueShape'
  <2>1. entry[t] \in Entries
    BY <1>8 DEF DropGuardOrigin, CancelOrigin, EntryShape, Registered
  <2>2. \A u \in NextInLine(sem[entry[t]]) : pc[u] = "waitOrigin"
    BY <2>1, QueuedTasks DEF OriginQueueShape
  <2>3. QED
    BY <1>0, <1>8, <2>2 DEF DropGuardOrigin, CancelOrigin, DropOriginPermit
<1>9. QED
  BY <1>1, <1>2, <1>3, <1>5, <1>6, <1>7, <1>8, NextCases

\* The queues of the origin semaphores keep their shape.
LEMMA OriginQueueStep ==
    ASSUME IInv, [Next]_vars
    PROVE  OriginQueueShape'
<1> USE DEF IInv, TypeOK, lockVars, Goto
<1>0. ASSUME sem' = sem,
             \A u \in Tasks : pc[u] = "waitOrigin" =>
                                pc'[u] = "waitOrigin" /\ entry'[u] = entry[u]
      PROVE  OriginQueueShape'
  BY <1>0, QueuedTasks DEF OriginQueueShape
<1>1. CASE UNCHANGED vars
  BY <1>0, <1>1 DEF vars
<1>2. ASSUME NEW t \in Tasks, NEW o \in Origins \cup {NoOrigin},
             \/ Start(t, o) \/ PollGlobal(t) \/ WakeGlobal(t) \/ SkipOrigin(t)
             \/ FastLookup(t) \/ SlowLookup(t)
             \/ TakeWaiterGuard(t) \/ CancelUnregister(t)
      PROVE  OriginQueueShape'
  BY <1>0, <1>2 DEF Start, PollGlobal, WakeGlobal, SkipOrigin, FastLookup, SlowLookup, Register,
       TakeWaiterGuard, CancelUnregister
<1>3. ASSUME NEW t \in Tasks,
             (\E o \in Origins : SweepReadPermits(t, o)) \/ SweepReadWaiters(t)
      PROVE  OriginQueueShape'
  BY <1>0, <1>3 DEF SweepReadPermits, SweepReadWaiters
<1>4. ASSUME NEW t \in Tasks, DropGuard(t) \/ CancelDropGlobal(t) \/ CancelGlobal(t)
      PROVE  OriginQueueShape'
  <2>1. \A u \in NextInLine(globalSem) : pc[u] = "waitGlobal"
    BY QueuedTasks DEF GlobalQueueShape
  <2>2. QED
    BY <1>0, <1>4, <2>1 DEF DropGuard, CancelDropGlobal, CancelGlobal, DropGlobal
<1>5. ASSUME NEW t \in Tasks, Insert(t)
      PROVE  OriginQueueShape'
  <2>1. PICK e \in Entries : /\ Unreferenced(e)
                             /\ sem' = [sem EXCEPT ![e] = NewSemaphore(MaxPerOrigin)]
                             /\ entry' = [entry EXCEPT ![t] = e]
    BY <1>5 DEF Insert
  <2>2. pc[t] = "insert"
    BY <1>5 DEF Insert, LockShape
  <2>3. QED
    BY <1>5, <2>1, <2>2, QueuedTasks, NewEffect DEF Insert, OriginQueueShape
<1>6. ASSUME NEW t \in Tasks, TryOrigin(t) \/ PollOrigin(t)
      PROVE  OriginQueueShape'
  <2>1. entry[t] \in Entries
    BY <1>6 DEF TryOrigin, PollOrigin, EntryShape, Registered
  <2>2. t \notin Queued(sem[entry[t]])
    BY <1>6, <2>1 DEF TryOrigin, PollOrigin, OriginQueueShape
  <2>3. /\ Distinct(Enqueue(sem[entry[t]], t))
        /\ Queued(Enqueue(sem[entry[t]], t)) = Queued(sem[entry[t]]) \cup {t}
    BY <2>1, <2>2, EnqueueEffect DEF OriginQueueShape
  <2>4. Distinct(Take(sem[entry[t]])) /\ Queued(Take(sem[entry[t]])) = Queued(sem[entry[t]])
    BY <2>1, TakeEffect DEF OriginQueueShape
  <2>5. QED
    BY <1>6, <2>1, <2>2, <2>3, <2>4, QueuedTasks DEF TryOrigin, PollOrigin, OriginQueueShape
<1>7. ASSUME NEW t \in Tasks, NEW next \in PCs, DropOriginPermit(t, next), entry[t] \in Entries,
             pc[t] # "waitOrigin", \A u \in Tasks \ {t} : entry'[u] = entry[u]
      PROVE  OriginQueueShape'
  <2>1. /\ Distinct(Release(sem[entry[t]]))
        /\ Queued(Release(sem[entry[t]])) = Queued(sem[entry[t]]) \ NextInLine(sem[entry[t]])
    BY <1>7, ReleaseEffect DEF OriginQueueShape
  <2>2. \A u \in NextInLine(sem[entry[t]]) : entry[u] = entry[t]
    BY <1>7, QueuedTasks DEF OriginQueueShape
  <2>3. QED
    BY <1>7, <2>1, <2>2, QueuedTasks DEF DropOriginPermit, OriginQueueShape
<1>8. ASSUME NEW t \in Tasks, DropGuardOrigin(t)
      PROVE  OriginQueueShape'
  BY <1>7, <1>8 DEF DropGuardOrigin, EntryShape, PCs
<1>9. ASSUME NEW t \in Tasks, CancelOrigin(t)
      PROVE  OriginQueueShape'
  <2>1. entry[t] \in Entries
    BY <1>9 DEF CancelOrigin, EntryShape, Registered
  <2>2. CASE pc[t] = "grantedOrigin"
    BY <1>7, <1>9, <2>1, <2>2 DEF CancelOrigin, PCs, OwnsGlobal
  <2>3. CASE pc[t] = "waitOrigin"
    <3>1. PICK i \in 1 .. Len(sem[entry[t]].queue) :
             /\ sem[entry[t]].queue[i] = t
             /\ sem' = [sem EXCEPT ![entry[t]] = Leave(@, i)]
      BY <1>9, <2>3 DEF CancelOrigin
    <3>2. /\ Distinct(sem'[entry[t]])
          /\ Queued(sem'[entry[t]]) = Queued(sem[entry[t]]) \ {t}
      BY <2>1, <3>1, LeaveEffect DEF OriginQueueShape
    <3>3. QED
      BY <1>9, <2>1, <2>3, <3>1, <3>2, QueuedTasks DEF CancelOrigin, OriginQueueShape
  <2>4. QED
    BY <1>9, <2>2, <2>3 DEF CancelOrigin
<1>10. QED
  BY <1>1, <1>2, <1>3, <1>4, <1>5, <1>6, <1>8, <1>9, NextCases

\* What tasks own at each program counter keeps its shape.
LEMMA EntryStep ==
    ASSUME IInv, [Next]_vars
    PROVE  EntryShape'
<1> USE PoolAssumption DEF IInv, TypeOK, lockVars, Goto, EntryShape, Registered
<1>0. CASE UNCHANGED vars
  BY <1>0 DEF vars
<1>1. ASSUME NEW t \in Tasks, NEW o \in Origins \cup {NoOrigin}, Start(t, o)
      PROVE  EntryShape'
  BY <1>1 DEF Start, HasGlobal
<1>2. ASSUME NEW t \in Tasks, PollGlobal(t) \/ WakeGlobal(t) \/ SkipOrigin(t)
      PROVE  EntryShape'
  BY <1>2 DEF PollGlobal, WakeGlobal, SkipOrigin, HasGlobal
<1>3. ASSUME NEW t \in Tasks, FastLookup(t) \/ SlowLookup(t)
      PROVE  EntryShape'
  BY <1>3 DEF FastLookup, SlowLookup, Register, LimitsOrigin, LockShape, HasGlobal
<1>4. ASSUME NEW t \in Tasks,
             (\E o \in Origins : SweepReadPermits(t, o)) \/ SweepReadWaiters(t)
      PROVE  EntryShape'
  BY <1>4 DEF SweepReadPermits, SweepReadWaiters, HasGlobal
<1>5. ASSUME NEW t \in Tasks, Insert(t)
      PROVE  EntryShape'
  BY <1>5 DEF Insert, LockShape, HasGlobal
<1>6. ASSUME NEW t \in Tasks, TryOrigin(t) \/ PollOrigin(t) \/ TakeWaiterGuard(t)
                              \/ CancelUnregister(t)
      PROVE  EntryShape'
  BY <1>6 DEF TryOrigin, PollOrigin, TakeWaiterGuard, CancelUnregister, HasGlobal
<1>7. ASSUME NEW t \in Tasks, DropGuard(t) \/ CancelDropGlobal(t) \/ CancelGlobal(t)
      PROVE  EntryShape'
  <2>1. \A u \in NextInLine(globalSem) : pc[u] = "waitGlobal"
    BY QueuedTasks DEF GlobalQueueShape
  <2>2. QED
    BY <1>7, <2>1 DEF DropGuard, CancelDropGlobal, CancelGlobal, DropGlobal, HasGlobal
<1>8. ASSUME NEW t \in Tasks, DropGuardOrigin(t) \/ CancelOrigin(t)
      PROVE  EntryShape'
  <2>1. \A u \in NextInLine(sem[entry[t]]) : pc[u] = "waitOrigin"
    BY <1>8, QueuedTasks DEF DropGuardOrigin, CancelOrigin, OriginQueueShape
  <2>2. QED
    BY <1>8, <2>1 DEF DropGuardOrigin, CancelOrigin, DropOriginPermit, HasGlobal
<1>9. QED
  BY <1>0, <1>1, <1>2, <1>3, <1>4, <1>5, <1>6, <1>7, <1>8, NextCases

\* A task that is registered at an entry keeps it out of the sweep's reach.
LEMMA RegisteredSeen ==
    ASSUME IInv, NEW e \in Entries, NEW t \in Tasks, pc[t] \in Registered, entry[t] = e
    PROVE  waiters[e] > 0
<1>1. Live(e) /\ t \in RegisteredAt(e)
  BY DEF Live, Unreferenced, RegisteredAt
<1>2. IsFiniteSet(RegisteredAt(e))
  BY PoolAssumption, FS_Subset DEF RegisteredAt
<1>3. Cardinality(RegisteredAt(e)) # 0
  BY <1>1, <1>2, FS_EmptySet
<1>4. QED
  BY <1>1, <1>3 DEF IInv, TypeOK, WaitersExact

\* The write lock and the sweep keep their shape.
LEMMA LockStep ==
    ASSUME IInv, [Next]_vars
    PROVE  LockShape'
<1> USE PoolAssumption DEF IInv, TypeOK, lockVars, Goto, LockShape, Known
<1>0. CASE UNCHANGED vars
  BY <1>0 DEF vars
<1>1. ASSUME NEW t \in Tasks, NEW o \in Origins \cup {NoOrigin},
             \/ Start(t, o) \/ PollGlobal(t) \/ WakeGlobal(t) \/ SkipOrigin(t)
             \/ TryOrigin(t) \/ PollOrigin(t) \/ TakeWaiterGuard(t) \/ CancelUnregister(t)
      PROVE  LockShape'
  BY <1>1 DEF Start, PollGlobal, WakeGlobal, SkipOrigin, TryOrigin, PollOrigin,
       TakeWaiterGuard, CancelUnregister
<1>2. ASSUME NEW t \in Tasks, FastLookup(t)
      PROVE  LockShape'
  BY <1>2 DEF FastLookup, Register, LimitsOrigin
<1>3. ASSUME NEW t \in Tasks, SlowLookup(t)
      PROVE  LockShape'
  BY <1>3 DEF SlowLookup, Register
<1>4. ASSUME NEW t \in Tasks,
             (\E o \in Origins : SweepReadPermits(t, o)) \/ SweepReadWaiters(t)
      PROVE  LockShape'
  BY <1>4 DEF SweepReadPermits, SweepReadWaiters
<1>5. ASSUME NEW t \in Tasks, Insert(t)
      PROVE  LockShape'
  BY <1>5 DEF Insert
<1>6. ASSUME NEW t \in Tasks, DropGuard(t) \/ CancelDropGlobal(t) \/ CancelGlobal(t)
      PROVE  LockShape'
  <2>1. \A u \in NextInLine(globalSem) : pc[u] = "waitGlobal"
    BY QueuedTasks DEF GlobalQueueShape
  <2>2. QED
    BY <1>6, <2>1 DEF DropGuard, CancelDropGlobal, CancelGlobal, DropGlobal
<1>7. ASSUME NEW t \in Tasks, DropGuardOrigin(t) \/ CancelOrigin(t)
      PROVE  LockShape'
  <2>1. \A u \in NextInLine(sem[entry[t]]) : pc[u] = "waitOrigin"
    BY <1>7, QueuedTasks DEF DropGuardOrigin, CancelOrigin, OriginQueueShape, EntryShape,
         Registered
  <2>2. QED
    BY <1>7, <2>1 DEF DropGuardOrigin, CancelOrigin, DropOriginPermit
<1>8. QED
  BY <1>0, <1>1, <1>2, <1>3, <1>4, <1>5, <1>6, <1>7, NextCases

\* The sweep never removes the entry of a registered task.
LEMMA RegisteredStep ==
    ASSUME IInv, [Next]_vars
    PROVE  RegisteredInTable'
<1> USE PoolAssumption DEF IInv, TypeOK, lockVars, Goto, RegisteredInTable, Registered
<1>0. CASE UNCHANGED vars
  BY <1>0 DEF vars
<1>1. ASSUME NEW t \in Tasks, NEW o \in Origins \cup {NoOrigin},
             \/ Start(t, o) \/ PollGlobal(t) \/ WakeGlobal(t) \/ SkipOrigin(t)
             \/ TryOrigin(t) \/ PollOrigin(t) \/ TakeWaiterGuard(t) \/ CancelUnregister(t)
      PROVE  RegisteredInTable'
  BY <1>1 DEF Start, PollGlobal, WakeGlobal, SkipOrigin, TryOrigin, PollOrigin,
       TakeWaiterGuard, CancelUnregister
<1>2. ASSUME NEW t \in Tasks, FastLookup(t) \/ SlowLookup(t)
      PROVE  RegisteredInTable'
  BY <1>2 DEF FastLookup, SlowLookup, Register
<1>3. ASSUME NEW t \in Tasks, NEW o \in Origins, SweepReadPermits(t, o)
      PROVE  RegisteredInTable'
  BY <1>3 DEF SweepReadPermits
<1>4. ASSUME NEW t \in Tasks, SweepReadWaiters(t)
      PROVE  RegisteredInTable'
  <2>1. sweepAt \in Origins /\ table[sweepAt] \in Entries
    BY <1>4 DEF SweepReadWaiters, LockShape, Known
  <2>2. CASE waiters[table[sweepAt]] > 0
    BY <1>4, <2>2 DEF SweepReadWaiters
  <2>3. CASE ~(waiters[table[sweepAt]] > 0)
    <3>1. \A u \in Tasks : pc[u] \in Registered => entry[u] # table[sweepAt]
      BY <2>1, <2>3, RegisteredSeen
    <3>2. \A u \in Tasks : pc[u] \in Registered => origin[u] # sweepAt
      BY <3>1
    <3>3. QED
      BY <1>4, <2>3, <3>2 DEF SweepReadWaiters
  <2>4. QED
    BY <2>2, <2>3
<1>5. ASSUME NEW t \in Tasks, Insert(t)
      PROVE  RegisteredInTable'
  <2>1. PICK e \in Entries : /\ table' = [table EXCEPT ![origin[t]] = e]
                             /\ entry' = [entry EXCEPT ![t] = e]
    BY <1>5 DEF Insert
  <2>2. origin[t] \in Origins /\ table[origin[t]] = NoEntry
    BY <1>5 DEF Insert, LockShape
  <2>3. \A u \in Tasks \ {t} : pc[u] \in Registered => origin[u] # origin[t]
    BY <2>2 DEF EntryShape
  <2>4. QED
    BY <1>5, <2>1, <2>2, <2>3 DEF Insert
<1>6. ASSUME NEW t \in Tasks, DropGuard(t) \/ CancelDropGlobal(t) \/ CancelGlobal(t)
      PROVE  RegisteredInTable'
  BY <1>6 DEF DropGuard, CancelDropGlobal, CancelGlobal, DropGlobal
<1>7. ASSUME NEW t \in Tasks, DropGuardOrigin(t) \/ CancelOrigin(t)
      PROVE  RegisteredInTable'
  <2>1. \A u \in NextInLine(sem[entry[t]]) : pc[u] = "waitOrigin"
    BY <1>7, QueuedTasks DEF DropGuardOrigin, CancelOrigin, OriginQueueShape, EntryShape
  <2>2. QED
    BY <1>7, <2>1 DEF DropGuardOrigin, CancelOrigin, DropOriginPermit
<1>8. QED
  BY <1>0, <1>1, <1>2, <1>3, <1>4, <1>5, <1>6, <1>7, NextCases

-----------------------------------------------------------------------------
\* How the size of a set of tasks changes when one joins, one leaves, or one
\* takes the place of another.
LEMMA CountTasks ==
    ASSUME NEW S \in SUBSET Tasks
    PROVE  /\ Cardinality(S) \in Nat
           /\ \A t \in Tasks \ S : Cardinality(S \cup {t}) = Cardinality(S) + 1
           /\ \A t \in S : Cardinality(S \ {t}) = Cardinality(S) - 1
           /\ \A t \in S, u \in Tasks \ S : Cardinality((S \ {t}) \cup {u}) = Cardinality(S)
<1>1. IsFiniteSet(S) /\ Cardinality(S) \in Nat
  BY PoolAssumption, FS_Subset, FS_CardinalityType
<1>2. \A t \in Tasks \ S : Cardinality(S \cup {t}) = Cardinality(S) + 1
  BY <1>1, FS_AddElement
<1>3. \A t \in S : IsFiniteSet(S \ {t}) /\ Cardinality(S \ {t}) = Cardinality(S) - 1
  BY <1>1, FS_RemoveElement
<1>4. ASSUME NEW t \in S, NEW u \in Tasks \ S
      PROVE  Cardinality((S \ {t}) \cup {u}) = Cardinality(S)
  <2>1. Cardinality((S \ {t}) \cup {u}) = Cardinality(S \ {t}) + 1
    BY <1>3, FS_AddElement
  <2>2. QED
    BY <1>1, <1>3, <2>1
<1>5. QED
  BY <1>1, <1>2, <1>3, <1>4

\* Every step moves global permits without losing or minting one.
LEMMA GlobalStep ==
    ASSUME IInv, [Next]_vars
    PROVE  GlobalConserved'
<1>g. GlobalHolders \in SUBSET Tasks
  BY DEF GlobalHolders
<1> USE DEF IInv, TypeOK, lockVars, Goto
<1>a. ASSUME globalSem'.avail = globalSem.avail, GlobalHolders' = GlobalHolders
      PROVE  GlobalConserved'
  BY <1>a DEF GlobalConserved, HasGlobal
<1>b. ASSUME NEW t \in Tasks, t \notin GlobalHolders, GlobalHolders' = GlobalHolders \cup {t},
             globalSem.avail > 0, globalSem' = Take(globalSem)
      PROVE  GlobalConserved'
  <2>1. Cardinality(GlobalHolders') = Cardinality(GlobalHolders) + 1
        /\ Cardinality(GlobalHolders) \in Nat
    BY <1>b, <1>g, CountTasks, Zenon
  <2>2. globalSem'.avail = globalSem.avail - 1
    BY <1>b, TakeEffect
  <2>3. QED
    BY <2>1, <2>2 DEF GlobalConserved, HasGlobal, SemaphoreOf
<1>c. ASSUME NEW t \in Tasks, NEW next \in PCs \ OwnsGlobal,
             DropGlobal(t, next), t \in GlobalHolders
      PROVE  GlobalConserved'
  <2>1. CASE ~HasGlobal
    BY <2>1 DEF GlobalConserved, HasGlobal
  <2>2. CASE HasGlobal
    <3>1. Cardinality(GlobalHolders) \in Nat
      BY <1>g, CountTasks, Zenon
    <3>2. \/ NextInLine(globalSem) = {} /\ globalSem'.avail = globalSem.avail + 1
          \/ /\ \E u \in Queued(globalSem) : NextInLine(globalSem) = {u}
             /\ globalSem'.avail = globalSem.avail
      BY <1>c, <2>2, ReleaseEffect DEF DropGlobal, GlobalQueueShape
    <3>3. CASE NextInLine(globalSem) = {}
      <4>1. GlobalHolders' = GlobalHolders \ {t}
        BY <1>c, <2>2, <3>3 DEF DropGlobal, GlobalHolders
      <4>2. Cardinality(GlobalHolders') = Cardinality(GlobalHolders) - 1
        BY <1>c, <1>g, <4>1, CountTasks, Zenon
      <4>3. QED
        BY <3>1, <3>2, <3>3, <4>2 DEF GlobalConserved, HasGlobal, SemaphoreOf
    <3>4. ASSUME NEW u \in Queued(globalSem), NextInLine(globalSem) = {u},
                 globalSem'.avail = globalSem.avail
          PROVE  GlobalConserved'
      <4>1. u \in Tasks \ GlobalHolders
        BY QueuedTasks DEF GlobalQueueShape, GlobalHolders, OwnsGlobal
      <4>2. GlobalHolders' = (GlobalHolders \ {t}) \cup {u}
        BY <1>c, <2>2, <3>4, <4>1 DEF DropGlobal, GlobalHolders, OwnsGlobal
      <4>3. Cardinality(GlobalHolders') = Cardinality(GlobalHolders)
        BY <1>c, <1>g, <4>1, <4>2, CountTasks, Zenon
      <4>4. QED
        BY <3>4, <4>3 DEF GlobalConserved, HasGlobal
    <3>5. QED
      BY <3>2, <3>3, <3>4
  <2>3. QED
    BY <2>1, <2>2
<1>1. CASE UNCHANGED vars
  BY <1>1, <1>a DEF vars, GlobalHolders
<1>2. ASSUME NEW t \in Tasks, NEW o \in Origins \cup {NoOrigin}, Start(t, o)
      PROVE  GlobalConserved'
  <2>1. CASE ~HasGlobal
    BY <2>1 DEF GlobalConserved, HasGlobal
  <2>2. CASE HasGlobal /\ globalSem.avail > 0
    <3>1. globalSem' = Take(globalSem) /\ pc' = [pc EXCEPT ![t] = "lookup"] /\ pc[t] = "idle"
      BY <1>2, <2>2 DEF Start
    <3>2. t \notin GlobalHolders /\ GlobalHolders' = GlobalHolders \cup {t}
      BY <3>1 DEF GlobalHolders, OwnsGlobal
    <3>3. QED
      BY <1>b, <2>2, <3>1, <3>2
  <2>3. CASE HasGlobal /\ globalSem.avail = 0
    BY <1>2, <1>a, <2>3 DEF Start, GlobalHolders, OwnsGlobal
  <2>4. QED
    BY <2>1, <2>2, <2>3 DEF SemaphoreOf
<1>3. ASSUME NEW t \in Tasks, PollGlobal(t)
      PROVE  GlobalConserved'
  <2>1. CASE globalSem.avail > 0
    BY <1>3, <1>b, <2>1 DEF PollGlobal, GlobalHolders, OwnsGlobal
  <2>2. CASE globalSem.avail = 0
    BY <1>3, <1>a, <2>2 DEF PollGlobal, GlobalHolders, OwnsGlobal, Enqueue
  <2>3. QED
    BY <2>1, <2>2 DEF SemaphoreOf
<1>4. ASSUME NEW t \in Tasks, DropGuard(t) \/ CancelDropGlobal(t)
      PROVE  GlobalConserved'
  BY <1>4, <1>c DEF DropGuard, CancelDropGlobal, GlobalHolders, OwnsGlobal, PCs
<1>5. ASSUME NEW t \in Tasks, CancelGlobal(t)
      PROVE  GlobalConserved'
  <2>1. CASE pc[t] = "grantedGlobal"
    BY <1>5, <1>c, <2>1 DEF CancelGlobal, GlobalHolders, OwnsGlobal, PCs
  <2>2. CASE pc[t] = "waitGlobal"
    BY <1>5, <1>a, <2>2 DEF CancelGlobal, Leave, GlobalHolders, OwnsGlobal
  <2>3. QED
    BY <1>5, <2>1, <2>2 DEF CancelGlobal
<1>6. ASSUME NEW t \in Tasks,
             \/ WakeGlobal(t) \/ SkipOrigin(t) \/ FastLookup(t) \/ SlowLookup(t)
             \/ \E o \in Origins : SweepReadPermits(t, o)
             \/ SweepReadWaiters(t) \/ Insert(t)
             \/ TryOrigin(t) \/ PollOrigin(t) \/ TakeWaiterGuard(t) \/ CancelUnregister(t)
      PROVE  GlobalConserved'
  BY <1>6, <1>a DEF WakeGlobal, SkipOrigin, FastLookup, SlowLookup, SweepReadPermits,
       SweepReadWaiters, Insert, TryOrigin, PollOrigin, TakeWaiterGuard, CancelUnregister,
       Register, LockShape, GlobalHolders, OwnsGlobal
<1>7. ASSUME NEW t \in Tasks, DropGuardOrigin(t) \/ CancelOrigin(t)
      PROVE  GlobalConserved'
  <2>1. \A u \in NextInLine(sem[entry[t]]) : pc[u] = "waitOrigin"
    BY <1>7, QueuedTasks DEF DropGuardOrigin, CancelOrigin, OriginQueueShape, EntryShape,
         Registered
  <2>2. \A u \in Tasks : pc'[u] \in OwnsGlobal <=> pc[u] \in OwnsGlobal
    BY <1>7, <2>1 DEF DropGuardOrigin, CancelOrigin, DropOriginPermit, OwnsGlobal
  <2>3. GlobalHolders' = GlobalHolders
    BY <2>2 DEF GlobalHolders
  <2>4. QED
    BY <1>7, <1>a, <2>3 DEF DropGuardOrigin, CancelOrigin
<1>8. QED
  BY <1>1, <1>2, <1>3, <1>4, <1>5, <1>6, <1>7, NextCases

\* An entry that is live after a step other than Insert was live before it.
LEMMA LiveStep ==
    ASSUME IInv, [Next]_vars, \A t \in Tasks : ~Insert(t), NEW e \in Entries, Live(e)'
    PROVE  Live(e)
<1> USE PoolAssumption DEF IInv, TypeOK, lockVars, Live, Unreferenced
<1>1. CASE UNCHANGED <<table, entry>>
  BY <1>1
<1>2. ASSUME NEW t \in Tasks, FastLookup(t) \/ SlowLookup(t)
      PROVE  Live(e)
  BY <1>2 DEF FastLookup, SlowLookup, Register, LimitsOrigin, LockShape
<1>3. ASSUME NEW t \in Tasks, SweepReadWaiters(t)
      PROVE  Live(e)
  BY <1>3 DEF SweepReadWaiters
<1>4. ASSUME NEW t \in Tasks, DropGuardOrigin(t) \/ CancelUnregister(t)
      PROVE  Live(e)
  BY <1>4 DEF DropGuardOrigin, CancelUnregister
<1>5. ASSUME NEW t \in Tasks, NEW o \in Origins \cup {NoOrigin},
             \/ Start(t, o) \/ PollGlobal(t) \/ WakeGlobal(t) \/ SkipOrigin(t)
             \/ SweepReadPermits(t, o)
             \/ TryOrigin(t) \/ PollOrigin(t) \/ TakeWaiterGuard(t)
             \/ DropGuard(t) \/ CancelGlobal(t) \/ CancelOrigin(t) \/ CancelDropGlobal(t)
      PROVE  UNCHANGED <<table, entry>>
  BY <1>5 DEF Start, PollGlobal, WakeGlobal, SkipOrigin, SweepReadPermits, TryOrigin,
       PollOrigin, TakeWaiterGuard, DropGuard, CancelGlobal, CancelOrigin, CancelDropGlobal
<1>6. CASE UNCHANGED vars
  BY <1>6 DEF vars
<1>7. QED
  BY <1>1, <1>2, <1>3, <1>4, <1>5, <1>6, NextCases

\* Every step keeps the waiter counts exact.
LEMMA WaitersStep ==
    ASSUME IInv, [Next]_vars
    PROVE  WaitersExact'
<1> USE DEF IInv, TypeOK, lockVars, Goto
<1>a. ASSUME waiters' = waiters, \A t \in Tasks : ~Insert(t),
             \A e \in Entries : RegisteredAt(e)' = RegisteredAt(e)
      PROVE  WaitersExact'
  BY <1>a, LiveStep DEF WaitersExact
<1>b. ASSUME NEW t \in Tasks, NEW e \in Entries, Live(e), t \notin RegisteredAt(e),
             waiters' = [waiters EXCEPT ![e] = @ + 1], \A u \in Tasks : ~Insert(u),
             RegisteredAt(e)' = RegisteredAt(e) \cup {t},
             \A f \in Entries \ {e} : RegisteredAt(f)' = RegisteredAt(f)
      PROVE  WaitersExact'
  <2>0. RegisteredAt(e) \in SUBSET Tasks
    BY DEF RegisteredAt
  <2>1. Cardinality(RegisteredAt(e)') = Cardinality(RegisteredAt(e)) + 1
    BY <1>b, <2>0, CountTasks
  <2>2. QED
    BY <1>b, <2>1, LiveStep DEF WaitersExact
<1>c. ASSUME NEW t \in Tasks, NEW e \in Entries, Live(e), t \in RegisteredAt(e),
             waiters' = [waiters EXCEPT ![e] = @ - 1], \A u \in Tasks : ~Insert(u),
             RegisteredAt(e)' = RegisteredAt(e) \ {t},
             \A f \in Entries \ {e} : RegisteredAt(f)' = RegisteredAt(f)
      PROVE  WaitersExact'
  <2>0. RegisteredAt(e) \in SUBSET Tasks
    BY DEF RegisteredAt
  <2>1. Cardinality(RegisteredAt(e)') = Cardinality(RegisteredAt(e)) - 1
    BY <1>c, <2>0, CountTasks
  <2>2. QED
    BY <1>c, <2>1, LiveStep DEF WaitersExact
<1>1. CASE UNCHANGED vars
  <2>1. \A t \in Tasks : ~Insert(t)
    BY <1>1, PoolAssumption DEF vars, Insert
  <2>2. QED
    BY <1>1, <1>a, <2>1 DEF vars, RegisteredAt
<1>2. ASSUME NEW t \in Tasks, FastLookup(t) \/ SlowLookup(t)
      PROVE  WaitersExact'
  <2>0. \A u \in Tasks : ~Insert(u)
    BY <1>2, PoolAssumption DEF FastLookup, SlowLookup, Insert
  <2>1. origin[t] \in Origins /\ pc[t] \in {"lookup", "miss"}
    BY <1>2 DEF FastLookup, SlowLookup, LimitsOrigin, LockShape
  <2>2. CASE table[origin[t]] = NoEntry
    <3>1. pc' = [pc EXCEPT ![t] = "miss"] \/ pc' = [pc EXCEPT ![t] = "insert"]
      BY <1>2, <2>2 DEF FastLookup, SlowLookup
    <3>2. \A e \in Entries : RegisteredAt(e)' = RegisteredAt(e)
      BY <1>2, <2>1, <2>2, <3>1 DEF FastLookup, SlowLookup, RegisteredAt, Registered
    <3>3. QED
      BY <1>2, <1>a, <2>0, <2>2, <3>2 DEF FastLookup, SlowLookup
  <2>3. CASE table[origin[t]] # NoEntry
    <3>0. PICK e \in Entries : e = table[origin[t]]
      BY <2>1, <2>3
    <3>1. Live(e)
      BY <2>1, <3>0 DEF Live, Unreferenced
    <3>2. Register(t, e)
      BY <1>2, <2>3, <3>0 DEF FastLookup, SlowLookup
    <3>3. t \notin RegisteredAt(e)
      BY <2>1 DEF RegisteredAt, Registered
    <3>4. entry[t] = NoEntry
      BY <2>1 DEF EntryShape, Registered
    <3>5. /\ RegisteredAt(e)' = RegisteredAt(e) \cup {t}
          /\ \A f \in Entries \ {e} : RegisteredAt(f)' = RegisteredAt(f)
      BY <2>1, <3>1, <3>2, <3>4, PoolAssumption DEF Register, RegisteredAt, Registered
    <3>6. QED
      BY <1>b, <2>0, <3>1, <3>2, <3>3, <3>5 DEF Register
  <2>4. QED
    BY <2>2, <2>3
<1>3. ASSUME NEW t \in Tasks, Insert(t)
      PROVE  WaitersExact'
  <2>1. PICK e \in Entries : /\ Unreferenced(e)
                             /\ table' = [table EXCEPT ![origin[t]] = e]
                             /\ entry' = [entry EXCEPT ![t] = e]
                             /\ waiters' = [waiters EXCEPT ![e] = 1]
    BY <1>3 DEF Insert
  <2>2. pc[t] = "insert" /\ origin[t] \in Origins /\ entry[t] = NoEntry
    BY <1>3 DEF Insert, LockShape, EntryShape, Registered
  <2>3. RegisteredAt(e)' = {t} /\ \A f \in Entries \ {e} : RegisteredAt(f)' = RegisteredAt(f)
    BY <1>3, <2>1, <2>2, PoolAssumption DEF Insert, Unreferenced, RegisteredAt, Registered
  <2>4. Cardinality(RegisteredAt(e)') = 1
    BY <2>3, FS_Singleton
  <2>5. \A f \in Entries \ {e} : Live(f)' => Live(f)
    BY <2>1, <2>2 DEF Live, Unreferenced
  <2>6. QED
    BY <2>1, <2>3, <2>4, <2>5 DEF WaitersExact
<1>4. ASSUME NEW t \in Tasks, TakeWaiterGuard(t) \/ CancelUnregister(t)
      PROVE  WaitersExact'
  <2>0. \A u \in Tasks : ~Insert(u)
    BY <1>4, PoolAssumption DEF TakeWaiterGuard, CancelUnregister, Insert
  <2>a. PICK e \in Entries : e = entry[t]
    BY <1>4 DEF TakeWaiterGuard, CancelUnregister, EntryShape, Registered
  <2>1. Live(e) /\ t \in RegisteredAt(e)
    BY <1>4, <2>a, PoolAssumption DEF TakeWaiterGuard, CancelUnregister, EntryShape, Registered,
         RegisteredAt, Live, Unreferenced
  <2>2. /\ RegisteredAt(e)' = RegisteredAt(e) \ {t}
        /\ \A f \in Entries \ {e} : RegisteredAt(f)' = RegisteredAt(f)
    BY <1>4, <2>a, PoolAssumption DEF TakeWaiterGuard, CancelUnregister, RegisteredAt, Registered
  <2>3. QED
    BY <1>4, <1>c, <2>0, <2>a, <2>1, <2>2 DEF TakeWaiterGuard, CancelUnregister
<1>5. ASSUME NEW t \in Tasks, NEW o \in Origins \cup {NoOrigin},
             \/ Start(t, o) \/ PollGlobal(t) \/ WakeGlobal(t) \/ SkipOrigin(t)
             \/ SweepReadPermits(t, o) \/ SweepReadWaiters(t)
             \/ TryOrigin(t) \/ PollOrigin(t)
      PROVE  WaitersExact'
  <2>1. writer' = writer /\ waiters' = waiters /\ entry' = entry
    BY <1>5 DEF Start, PollGlobal, WakeGlobal, SkipOrigin, SweepReadPermits, SweepReadWaiters,
         TryOrigin, PollOrigin
  <2>2. \A u \in Tasks : ~Insert(u)
    BY <2>1, PoolAssumption DEF Insert
  <2>3. \A u \in Tasks : pc'[u] \in Registered <=> pc[u] \in Registered
    BY <1>5 DEF Start, PollGlobal, WakeGlobal, SkipOrigin, SweepReadPermits, SweepReadWaiters,
         TryOrigin, PollOrigin, Registered
  <2>4. QED
    BY <1>a, <2>1, <2>2, <2>3 DEF RegisteredAt
<1>6. ASSUME NEW t \in Tasks, DropGuard(t) \/ CancelDropGlobal(t) \/ CancelGlobal(t)
      PROVE  WaitersExact'
  <2>1. writer' = writer /\ waiters' = waiters /\ entry' = entry
    BY <1>6 DEF DropGuard, CancelDropGlobal, CancelGlobal
  <2>2. \A u \in Tasks : ~Insert(u)
    BY <2>1, PoolAssumption DEF Insert
  <2>3. \A u \in NextInLine(globalSem) : pc[u] = "waitGlobal"
    BY QueuedTasks DEF GlobalQueueShape
  <2>4. \A u \in Tasks : pc'[u] \in Registered <=> pc[u] \in Registered
    BY <1>6, <2>3 DEF DropGuard, CancelDropGlobal, CancelGlobal, DropGlobal, Registered
  <2>5. QED
    BY <1>a, <2>1, <2>2, <2>4 DEF RegisteredAt
<1>7. ASSUME NEW t \in Tasks, DropGuardOrigin(t) \/ CancelOrigin(t)
      PROVE  WaitersExact'
  <2>1. writer' = writer /\ waiters' = waiters
    BY <1>7 DEF DropGuardOrigin, CancelOrigin
  <2>2. \A u \in Tasks : ~Insert(u)
    BY <2>1, PoolAssumption DEF Insert
  <2>3. \A u \in NextInLine(sem[entry[t]]) : pc[u] = "waitOrigin"
    BY <1>7, QueuedTasks DEF DropGuardOrigin, CancelOrigin, OriginQueueShape, EntryShape,
         Registered
  <2>4. \A u \in Tasks : /\ pc'[u] \in Registered <=> pc[u] \in Registered
                         /\ pc[u] \in Registered => entry'[u] = entry[u]
    BY <1>7, <2>3 DEF DropGuardOrigin, CancelOrigin, DropOriginPermit, Registered
  <2>5. QED
    BY <1>a, <2>1, <2>2, <2>4 DEF RegisteredAt
<1>8. QED
  BY <1>1, <1>2, <1>3, <1>4, <1>5, <1>6, <1>7, NextCases

\* Every step moves the permits of an origin's semaphore without losing or
\* minting one.
LEMMA OriginStep ==
    ASSUME IInv, [Next]_vars
    PROVE  OriginConserved'
<1> USE DEF IInv, TypeOK, lockVars, Goto
<1>0. CASE MaxPerOrigin = Unlimited
  BY <1>0 DEF OriginConserved
<1> SUFFICES ASSUME MaxPerOrigin # Unlimited
             PROVE  OriginConserved'
  BY <1>0
<1>a. ASSUME \A u \in Tasks : ~Insert(u),
             \A e \in Entries : sem'[e].avail = sem[e].avail /\ Holders(e)' = Holders(e)
      PROVE  OriginConserved'
  BY <1>a, LiveStep DEF OriginConserved
<1>b. ASSUME NEW t \in Tasks, NEW e \in Entries, entry[t] = e, \A u \in Tasks : ~Insert(u),
             sem' = [sem EXCEPT ![e] = Take(@)], sem[e].avail > 0,
             t \notin Holders(e), Holders(e)' = Holders(e) \cup {t},
             \A f \in Entries \ {e} : Holders(f)' = Holders(f)
      PROVE  OriginConserved'
  <2>1. Live(e)
    BY <1>b DEF Live, Unreferenced
  <2>2. /\ Cardinality(Holders(e)') = Cardinality(Holders(e)) + 1
        /\ Cardinality(Holders(e)) \in Nat
    BY <1>b, CountTasks DEF Holders
  <2>3. sem'[e].avail = sem[e].avail - 1 /\ sem[e].avail \in Nat
    BY <1>b, TakeEffect DEF SemaphoreOf
  <2>4. sem'[e].avail + Cardinality(Holders(e)') = MaxPerOrigin
    BY <2>1, <2>2, <2>3 DEF OriginConserved
  <2>5. QED
    BY <1>b, <2>4, LiveStep DEF OriginConserved
<1>c. ASSUME NEW t \in Tasks, NEW e \in Entries, entry[t] = e, \A u \in Tasks : ~Insert(u),
             NEW next \in PCs \ OwnsOrigin, DropOriginPermit(t, next), t \in Holders(e),
             \A u \in Tasks \ {t} : entry'[u] = entry[u]
      PROVE  OriginConserved'
  <2>1. Live(e)
    BY <1>c DEF Live, Unreferenced
  <2>2. Cardinality(Holders(e)) \in Nat /\ sem[e].avail \in Nat
    BY CountTasks DEF Holders, SemaphoreOf
  <2>3. sem' = [sem EXCEPT ![e] = Release(@)]
    BY <1>c DEF DropOriginPermit
  <2>4. /\ Distinct(sem[e])
        /\ \A u \in NextInLine(sem[e]) : pc[u] = "waitOrigin" /\ entry[u] = e
    BY QueuedTasks DEF OriginQueueShape
  <2>5. \/ NextInLine(sem[e]) = {} /\ sem'[e].avail = sem[e].avail + 1
        \/ /\ \E u \in Queued(sem[e]) : NextInLine(sem[e]) = {u}
           /\ sem'[e].avail = sem[e].avail
    BY <2>3, <2>4, ReleaseEffect
  <2>6. \A f \in Entries \ {e} : Holders(f)' = Holders(f) /\ sem'[f] = sem[f]
    <3>1. ASSUME NEW f \in Entries \ {e}, NEW u \in Tasks
          PROVE  (pc'[u] \in OwnsOrigin /\ entry'[u] = f)
                   <=> (pc[u] \in OwnsOrigin /\ entry[u] = f)
      BY <1>c, <2>4 DEF DropOriginPermit
    <3>2. QED
      BY <2>3, <3>1 DEF Holders
  <2>7. CASE NextInLine(sem[e]) = {}
    <3>1. Holders(e)' = Holders(e) \ {t}
      BY <1>c, <2>7 DEF DropOriginPermit, Holders
    <3>2. Cardinality(Holders(e)') = Cardinality(Holders(e)) - 1
      <4>1. Holders(e) \in SUBSET Tasks
        BY DEF Holders
      <4>2. Cardinality(Holders(e) \ {t}) = Cardinality(Holders(e)) - 1
        BY <1>c, <4>1, CountTasks
      <4>3. QED
        BY <3>1, <4>2
    <3>3. sem'[e].avail + Cardinality(Holders(e)') = MaxPerOrigin
      BY <2>1, <2>2, <2>5, <2>7, <3>2 DEF OriginConserved
    <3>4. QED
      BY <1>c, <2>6, <3>3, LiveStep DEF OriginConserved
  <2>8. ASSUME NEW u \in Queued(sem[e]), NextInLine(sem[e]) = {u},
               sem'[e].avail = sem[e].avail
        PROVE  OriginConserved'
    <3>1. u \in Tasks \ Holders(e) /\ u # t
      BY <1>c, <2>4, <2>8, QueuedTasks DEF Holders, OwnsOrigin
    <3>2. Holders(e)' = (Holders(e) \ {t}) \cup {u}
      BY <1>c, <2>4, <2>8, <3>1 DEF DropOriginPermit, Holders, OwnsOrigin
    <3>3. Cardinality(Holders(e)') = Cardinality(Holders(e))
      <4>1. Holders(e) \in SUBSET Tasks
        BY DEF Holders
      <4>2. Cardinality((Holders(e) \ {t}) \cup {u}) = Cardinality(Holders(e))
        BY <1>c, <3>1, <4>1, CountTasks
      <4>3. QED
        BY <3>2, <4>2
    <3>4. QED
      BY <1>c, <2>6, <2>8, <3>3, LiveStep DEF OriginConserved
  <2>9. QED
    BY <2>5, <2>7, <2>8
<1>1. CASE UNCHANGED vars
  <2>1. \A t \in Tasks : ~Insert(t)
    BY <1>1, PoolAssumption DEF vars, Insert
  <2>2. QED
    BY <1>1, <1>a, <2>1 DEF vars, Holders
<1>2. ASSUME NEW t \in Tasks, Insert(t)
      PROVE  OriginConserved'
  <2>1. PICK e \in Entries : /\ Unreferenced(e)
                             /\ table' = [table EXCEPT ![origin[t]] = e]
                             /\ sem' = [sem EXCEPT ![e] = NewSemaphore(MaxPerOrigin)]
                             /\ entry' = [entry EXCEPT ![t] = e]
    BY <1>2 DEF Insert
  <2>2. pc[t] = "insert" /\ origin[t] \in Origins /\ entry[t] = NoEntry
    BY <1>2 DEF Insert, LockShape, EntryShape, Registered
  <2>3. Holders(e)' = {} /\ \A f \in Entries \ {e} : Holders(f)' = Holders(f)
    BY <1>2, <2>1, <2>2, PoolAssumption DEF Insert, Unreferenced, Holders, OwnsOrigin
  <2>4. sem'[e].avail + Cardinality(Holders(e)') = MaxPerOrigin
    BY <2>1, <2>3, NewEffect, FS_EmptySet, PoolAssumption
  <2>5. \A f \in Entries \ {e} : Live(f)' => Live(f)
    BY <2>1, <2>2 DEF Live, Unreferenced
  <2>6. QED
    BY <2>1, <2>3, <2>4, <2>5 DEF OriginConserved
<1>3. ASSUME NEW t \in Tasks, TryOrigin(t) \/ PollOrigin(t)
      PROVE  OriginConserved'
  <2>1. entry[t] \in Entries /\ t \notin Holders(entry[t])
    BY <1>3 DEF TryOrigin, PollOrigin, EntryShape, Registered, Holders, OwnsOrigin
  <2>2. \A u \in Tasks : ~Insert(u)
    BY <1>3, PoolAssumption DEF TryOrigin, PollOrigin, Insert
  <2>3. CASE sem[entry[t]].avail > 0
    <3>1. /\ sem' = [sem EXCEPT ![entry[t]] = Take(@)]
          /\ pc' = [pc EXCEPT ![t] = "gotOrigin"] /\ entry' = entry
      BY <1>3, <2>3 DEF TryOrigin, PollOrigin
    <3>2. /\ Holders(entry[t])' = Holders(entry[t]) \cup {t}
          /\ \A f \in Entries \ {entry[t]} : Holders(f)' = Holders(f)
      BY <3>1 DEF Holders, OwnsOrigin
    <3>3. QED
      BY <1>b, <2>1, <2>2, <2>3, <3>1, <3>2
  <2>4. CASE sem[entry[t]].avail = 0
    <3>1. \A e \in Entries : sem'[e].avail = sem[e].avail
      <4>1. Enqueue(sem[entry[t]], t).avail = sem[entry[t]].avail
        BY DEF Enqueue
      <4>2. QED
        BY <1>3, <2>1, <2>4, <4>1 DEF TryOrigin, PollOrigin
    <3>2. \A u \in Tasks : entry'[u] = entry[u] /\ (pc'[u] \in OwnsOrigin <=> pc[u] \in OwnsOrigin)
      BY <1>3, <2>4 DEF TryOrigin, PollOrigin, OwnsOrigin
    <3>3. QED
      BY <1>a, <2>2, <3>1, <3>2 DEF Holders
  <2>5. QED
    BY <2>1, <2>3, <2>4 DEF SemaphoreOf
<1>4. ASSUME NEW t \in Tasks, DropGuardOrigin(t)
      PROVE  OriginConserved'
  <2>1. \A u \in Tasks : ~Insert(u)
    BY <1>4, PoolAssumption DEF DropGuardOrigin, Insert
  <2>2. QED
    BY <1>4, <1>c, <2>1 DEF DropGuardOrigin, EntryShape, Holders, OwnsOrigin, PCs
<1>5. ASSUME NEW t \in Tasks, CancelOrigin(t)
      PROVE  OriginConserved'
  <2>1. \A u \in Tasks : ~Insert(u)
    BY <1>5, PoolAssumption DEF CancelOrigin, Insert
  <2>2. entry[t] \in Entries
    BY <1>5 DEF CancelOrigin, EntryShape, Registered
  <2>3. CASE pc[t] = "grantedOrigin"
    BY <1>5, <1>c, <2>1, <2>2, <2>3 DEF CancelOrigin, Holders, OwnsOrigin, PCs, OwnsGlobal
  <2>4. CASE pc[t] = "waitOrigin"
    <3>1. /\ \A e \in Entries : sem'[e].avail = sem[e].avail
          /\ pc' = [pc EXCEPT ![t] = "unregister"] /\ entry' = entry
      BY <1>5, <2>2, <2>4 DEF CancelOrigin, Leave
    <3>2. \A e \in Entries : Holders(e)' = Holders(e)
      BY <2>4, <3>1 DEF Holders, OwnsOrigin
    <3>3. QED
      BY <1>a, <2>1, <3>1, <3>2
  <2>5. QED
    BY <1>5, <2>3, <2>4 DEF CancelOrigin
<1>6. ASSUME NEW t \in Tasks, NEW o \in Origins \cup {NoOrigin},
             \/ Start(t, o) \/ PollGlobal(t) \/ WakeGlobal(t) \/ SkipOrigin(t)
             \/ FastLookup(t) \/ SlowLookup(t)
             \/ SweepReadPermits(t, o) \/ SweepReadWaiters(t)
             \/ TakeWaiterGuard(t) \/ CancelUnregister(t)
      PROVE  OriginConserved'
  <2>1. sem' = sem /\ (writer' = writer \/ writer = NoTask)
    BY <1>6 DEF Start, PollGlobal, WakeGlobal, SkipOrigin, FastLookup, SlowLookup,
         SweepReadPermits, SweepReadWaiters, TakeWaiterGuard, CancelUnregister
  <2>2. \A u \in Tasks : ~Insert(u)
    BY <2>1, PoolAssumption DEF Insert
  <2>3. \A u \in Tasks, e \in Entries :
          (pc'[u] \in OwnsOrigin /\ entry'[u] = e) <=> (pc[u] \in OwnsOrigin /\ entry[u] = e)
    BY <1>6, PoolAssumption DEF Start, PollGlobal, WakeGlobal, SkipOrigin, FastLookup, SlowLookup,
         Register, SweepReadPermits, SweepReadWaiters, TakeWaiterGuard, CancelUnregister,
         EntryShape, Registered, OwnsOrigin
  <2>4. QED
    BY <1>a, <2>1, <2>2, <2>3 DEF Holders
<1>7. ASSUME NEW t \in Tasks, DropGuard(t) \/ CancelDropGlobal(t) \/ CancelGlobal(t)
      PROVE  OriginConserved'
  <2>1. sem' = sem /\ writer' = writer /\ entry' = entry
    BY <1>7 DEF DropGuard, CancelDropGlobal, CancelGlobal
  <2>2. \A u \in Tasks : ~Insert(u)
    BY <2>1, PoolAssumption DEF Insert
  <2>3. \A u \in NextInLine(globalSem) : pc[u] = "waitGlobal" /\ entry[u] = NoEntry
    BY QueuedTasks DEF GlobalQueueShape, EntryShape, Registered
  <2>4. \A u \in Tasks, e \in Entries :
          (pc'[u] \in OwnsOrigin /\ entry[u] = e) <=> (pc[u] \in OwnsOrigin /\ entry[u] = e)
    BY <1>7, <2>3, PoolAssumption
       DEF DropGuard, CancelDropGlobal, CancelGlobal, DropGlobal, EntryShape, Registered, OwnsOrigin
  <2>5. QED
    BY <1>a, <2>1, <2>2, <2>4 DEF Holders
<1>8. QED
  BY <1>1, <1>2, <1>3, <1>4, <1>5, <1>6, <1>7, NextCases

-----------------------------------------------------------------------------
\* The initial state, with an empty table and nobody inside, satisfies it all.
LEMMA InitIInv ==
    ASSUME Init
    PROVE  IInv
<1> USE PoolAssumption DEF Init
<1>1. globalSem \in SemaphoreOf(Tasks) /\ NewSemaphore(0) \in SemaphoreOf(Tasks)
  BY DEF NewSemaphore, SemaphoreOf, HasGlobal
<1>2. TypeOK
  BY <1>1 DEF TypeOK, PCs
<1>3. GlobalQueueShape /\ OriginQueueShape
  BY NewEffect DEF GlobalQueueShape, OriginQueueShape
<1>4. EntryShape /\ LockShape /\ RegisteredInTable
  BY DEF EntryShape, LockShape, RegisteredInTable, Registered, Known
<1>5. GlobalConserved
  <2>1. GlobalHolders = {}
    BY DEF GlobalHolders, OwnsGlobal
  <2>2. QED
    BY <2>1, NewEffect, FS_EmptySet DEF GlobalConserved, HasGlobal
<1>6. OriginConserved /\ WaitersExact
  BY DEF OriginConserved, WaitersExact, Live, Unreferenced
<1>7. QED
  BY <1>2, <1>3, <1>4, <1>5, <1>6 DEF IInv

(* The inductive invariant holds throughout: every step of acquire, of a   *)
(* guard drop, of a cancellation and of the sweep preserves it.            *)
THEOREM InductiveInvariant == Spec => []IInv
<1>1. ASSUME IInv, [Next]_vars
      PROVE  IInv'
  BY <1>1, TypeStep, GlobalQueueStep, OriginQueueStep, EntryStep, LockStep, GlobalStep,
     OriginStep, WaitersStep, RegisteredStep DEF IInv
<1>2. QED
  BY <1>1, InitIInv, PTL DEF Spec

(* Type correctness of the pool. *)
THEOREM TypeCorrect == Spec => []TypeOK
BY InductiveInvariant, PTL DEF IInv

(* No global permit is lost or minted, whatever races a cancellation. *)
THEOREM GlobalPermitsConserved == Spec => []GlobalConserved
BY InductiveInvariant, PTL DEF IInv

(* Both kinds of permits are conserved by every path through acquire and    *)
(* the guard's drop.                                                       *)
THEOREM PermitsAreConserved == Spec => []PermitsConserved
BY InductiveInvariant, PTL DEF IInv, PermitsConserved

(* At most max_in_flight_requests requests are in flight. *)
THEOREM GlobalLimitHolds == Spec => [](HasGlobal => Cardinality(GlobalHolders) <= MaxInFlight)
<1>1. IInv => (HasGlobal => Cardinality(GlobalHolders) <= MaxInFlight)
  <2>1. Cardinality(GlobalHolders) \in Nat
    BY CountTasks DEF GlobalHolders
  <2>2. QED
    BY <2>1, PoolAssumption DEF IInv, TypeOK, GlobalConserved, HasGlobal, SemaphoreOf
<1>2. QED
  BY <1>1, InductiveInvariant, PTL

(* No permit of an entry's semaphore is lost or minted, swept or not. *)
THEOREM OriginPermitsConserved == Spec => []OriginConserved
BY InductiveInvariant, PTL DEF IInv

(* The waiter count of every live entry is exact. *)
THEOREM WaiterCountsExact == Spec => []WaitersExact
BY InductiveInvariant, PTL DEF IInv

(* The sweep never removes the entry of a task that is registered with it. *)
THEOREM RegisteredStaysInTable == Spec => []RegisteredInTable
BY InductiveInvariant, PTL DEF IInv

(* Registrations at an entry are counted and keep it in the table, against *)
(* every interleaving of the sweep with cancelled waiters.                 *)
THEOREM RegistrationsAreExact == Spec => []RegistrationsExact
BY InductiveInvariant, PTL DEF IInv, RegistrationsExact

-----------------------------------------------------------------------------
(***************************************************************************)
(* The pool's semaphores are limiters.                                     *)
(***************************************************************************)
\* Nobody queues for a semaphore that has permits: a caller that takes one at once
\* overtakes no one.
Unhurried(s) == s.avail > 0 => s.queue = <<>>

\* Every operation of a semaphore keeps it so, queueing for an empty one included.
LEMMA UnhurriedOps ==
    ASSUME NEW s \in SemaphoreOf(Tasks), Unhurried(s)
    PROVE  /\ s.avail > 0 => Unhurried(Take(s))
           /\ \A t \in Tasks : s.avail = 0 => Unhurried(Enqueue(s, t))
           /\ Unhurried(Release(s))
           /\ \A i \in 1 .. Len(s.queue) : Unhurried(Leave(s, i))
<1>1. s.avail \in Nat /\ s.queue \in Seq(Tasks)
  BY DEF SemaphoreOf
<1>2. s.avail > 0 => Unhurried(Take(s))
  BY <1>1 DEF Unhurried, Take
<1>3. \A t \in Tasks : s.avail = 0 => Unhurried(Enqueue(s, t))
  BY <1>1 DEF Unhurried, Enqueue
<1>4. Unhurried(Release(s))
  BY <1>1 DEF Unhurried, Release
<1>5. \A i \in 1 .. Len(s.queue) : Unhurried(Leave(s, i))
  BY <1>1 DEF Unhurried, Leave
<1>6. QED
  BY <1>2, <1>3, <1>4, <1>5

SemaphoresUnhurried == Unhurried(globalSem) /\ \A e \in Entries : Unhurried(sem[e])

\* So does every step of the pool.
LEMMA UnhurriedStep ==
    ASSUME IInv, SemaphoresUnhurried, [Next]_vars
    PROVE  SemaphoresUnhurried'
<1> USE DEF IInv, TypeOK, lockVars, Goto
<1>a. ASSUME sem' = sem, Unhurried(globalSem')
      PROVE  SemaphoresUnhurried'
  BY <1>a DEF SemaphoresUnhurried, Unhurried
<1>b. ASSUME globalSem' = globalSem, NEW e \in Entries, NEW s \in SemaphoreOf(Tasks),
             sem' = [sem EXCEPT ![e] = s], Unhurried(s)
      PROVE  SemaphoresUnhurried'
  BY <1>b DEF SemaphoresUnhurried, Unhurried
<1>c. ASSUME NEW t \in Tasks, NEW next, DropGlobal(t, next), sem' = sem
      PROVE  SemaphoresUnhurried'
  BY <1>a, <1>c, UnhurriedOps DEF SemaphoresUnhurried, DropGlobal
<1>d. ASSUME NEW t \in Tasks, NEW next, DropOriginPermit(t, next), globalSem' = globalSem,
             entry[t] \in Entries
      PROVE  SemaphoresUnhurried'
  <2>1. Unhurried(Release(sem[entry[t]])) /\ Release(sem[entry[t]]) \in SemaphoreOf(Tasks)
    BY <1>d, UnhurriedOps, TaskSemaphore DEF SemaphoresUnhurried
  <2>2. QED
    BY <1>b, <1>d, <2>1 DEF DropOriginPermit
<1>1. CASE UNCHANGED vars
  BY <1>1, <1>a DEF vars, SemaphoresUnhurried
<1>2. ASSUME NEW t \in Tasks, NEW o \in Origins \cup {NoOrigin}, Start(t, o)
      PROVE  SemaphoresUnhurried'
  BY <1>2, <1>a, UnhurriedOps DEF Start, SemaphoresUnhurried
<1>3. ASSUME NEW t \in Tasks, PollGlobal(t)
      PROVE  SemaphoresUnhurried'
  BY <1>3, <1>a, UnhurriedOps DEF PollGlobal, SemaphoresUnhurried
<1>4. ASSUME NEW t \in Tasks,
             \/ WakeGlobal(t) \/ SkipOrigin(t) \/ FastLookup(t) \/ SlowLookup(t)
             \/ \E o \in Origins : SweepReadPermits(t, o)
             \/ SweepReadWaiters(t) \/ TakeWaiterGuard(t) \/ CancelUnregister(t)
      PROVE  SemaphoresUnhurried'
  BY <1>4, <1>a DEF WakeGlobal, SkipOrigin, FastLookup, SlowLookup, SweepReadPermits, SweepReadWaiters,
       TakeWaiterGuard, CancelUnregister, SemaphoresUnhurried
<1>5. ASSUME NEW t \in Tasks, Insert(t)
      PROVE  SemaphoresUnhurried'
  <2>1. NewSemaphore(MaxPerOrigin) \in SemaphoreOf(Tasks) /\ Unhurried(NewSemaphore(MaxPerOrigin))
    BY <1>5, PoolAssumption DEF Insert, LockShape, NewSemaphore, SemaphoreOf, Unhurried
  <2>2. PICK e \in Entries : sem' = [sem EXCEPT ![e] = NewSemaphore(MaxPerOrigin)]
    BY <1>5 DEF Insert
  <2>3. QED
    BY <1>5, <1>b, <2>1, <2>2 DEF Insert
<1>6. ASSUME NEW t \in Tasks, TryOrigin(t) \/ PollOrigin(t)
      PROVE  SemaphoresUnhurried'
  <2>1. PICK e \in Entries : e = entry[t]
    BY <1>6 DEF TryOrigin, PollOrigin, EntryShape, Registered
  <2>2. /\ sem[e] \in SemaphoreOf(Tasks) /\ Unhurried(sem[e])
        /\ sem[e].avail > 0 => Take(sem[e]) \in SemaphoreOf(Tasks) /\ Unhurried(Take(sem[e]))
        /\ sem[e].avail = 0 => Enqueue(sem[e], t) \in SemaphoreOf(Tasks) /\ Unhurried(Enqueue(sem[e], t))
    BY UnhurriedOps, TaskSemaphore DEF SemaphoresUnhurried
  <2>3. globalSem' = globalSem /\ \/ sem' = sem
                                  \/ sem[e].avail > 0 /\ sem' = [sem EXCEPT ![e] = Take(sem[e])]
                                  \/ sem[e].avail = 0 /\ sem' = [sem EXCEPT ![e] = Enqueue(sem[e], t)]
    BY <1>6, <2>1 DEF TryOrigin, PollOrigin
  <2>4. CASE sem' = sem
    BY <1>a, <2>3, <2>4 DEF SemaphoresUnhurried
  <2>5. QED
    BY <1>b, <2>2, <2>3, <2>4
<1>7. ASSUME NEW t \in Tasks, DropGuard(t) \/ CancelDropGlobal(t)
      PROVE  SemaphoresUnhurried'
  BY <1>7, <1>c DEF DropGuard, CancelDropGlobal
<1>8. ASSUME NEW t \in Tasks, CancelGlobal(t)
      PROVE  SemaphoresUnhurried'
  <2>1. CASE pc[t] = "grantedGlobal"
    BY <1>8, <1>c, <2>1 DEF CancelGlobal
  <2>2. CASE pc[t] = "waitGlobal"
    BY <1>8, <1>a, <2>2, UnhurriedOps DEF CancelGlobal, SemaphoresUnhurried
  <2>3. QED
    BY <1>8, <2>1, <2>2 DEF CancelGlobal
<1>9. ASSUME NEW t \in Tasks, DropGuardOrigin(t)
      PROVE  SemaphoresUnhurried'
  BY <1>9, <1>d DEF DropGuardOrigin, EntryShape
<1>10. ASSUME NEW t \in Tasks, CancelOrigin(t)
       PROVE  SemaphoresUnhurried'
  <2>0. PICK e \in Entries : e = entry[t]
    BY <1>10 DEF CancelOrigin, EntryShape, Registered
  <2>1. CASE pc[t] = "grantedOrigin"
    BY <1>10, <1>d, <2>0, <2>1 DEF CancelOrigin
  <2>2. CASE pc[t] = "waitOrigin"
    <3>1. PICK i \in 1 .. Len(sem[e].queue) : sem' = [sem EXCEPT ![e] = Leave(sem[e], i)]
      BY <1>10, <2>0, <2>2 DEF CancelOrigin
    <3>2. Leave(sem[e], i) \in SemaphoreOf(Tasks) /\ Unhurried(Leave(sem[e], i))
      BY UnhurriedOps, TaskSemaphore DEF SemaphoresUnhurried
    <3>3. QED
      BY <1>10, <1>b, <3>1, <3>2 DEF CancelOrigin
  <2>3. QED
    BY <1>10, <2>1, <2>2 DEF CancelOrigin
<1>11. QED
  BY <1>1, <1>2, <1>3, <1>4, <1>5, <1>6, <1>7, <1>8, <1>9, <1>10, NextCases

\* Nobody ever queues for a semaphore with permits.
LEMMA NobodyIsOvertaken == Spec => []SemaphoresUnhurried
<1>1. ASSUME Init PROVE SemaphoresUnhurried
  BY <1>1 DEF Init, SemaphoresUnhurried, Unhurried, NewSemaphore
<1>2. IInv /\ SemaphoresUnhurried /\ [Next]_vars => SemaphoresUnhurried'
  BY UnhurriedStep
<1>3. QED
  BY <1>1, <1>2, InductiveInvariant, PTL DEF Spec

\* Each step of the pool, seen at its global semaphore, is a step of a limiter or leaves
\* it alone.
LEMMA GlobalLimiterStep ==
    ASSUME HasGlobal, IInv, SemaphoresUnhurried, [Next]_vars
    PROVE  [GlobalLimiter!Next]_<<GlobalHolders, globalSem.queue>>
<1> USE DEF IInv, TypeOK, lockVars, Goto
<1>0. /\ globalSem.avail \in Nat /\ globalSem.queue \in Seq(Tasks) /\ MaxInFlight \in Nat
      /\ Cardinality(GlobalHolders) \in Nat
      /\ globalSem.avail > 0 <=> GlobalLimiter!Room
      /\ globalSem.avail > 0 => globalSem.queue = <<>>
  <2>1. globalSem.avail \in Nat /\ globalSem.queue \in Seq(Tasks) /\ MaxInFlight \in Nat
    BY PoolAssumption DEF SemaphoreOf, HasGlobal
  <2>2. Cardinality(GlobalHolders) \in Nat
    BY CountTasks DEF GlobalHolders
  <2>3. globalSem.avail + Cardinality(GlobalHolders) = MaxInFlight
    BY DEF GlobalConserved
  <2>4. globalSem.avail > 0 <=> GlobalLimiter!Room
    <3>1. GlobalLimiter!Cardinality(GlobalHolders) = Cardinality(GlobalHolders)
      BY DEF GlobalLimiter!Cardinality, Cardinality
    <3>2. QED
      BY <2>1, <2>2, <2>3, <3>1 DEF GlobalLimiter!Room
  <2>5. QED
    BY <2>1, <2>2, <2>4 DEF SemaphoresUnhurried, Unhurried
<1>a. ASSUME NEW t \in Tasks, t \notin GlobalHolders, GlobalHolders' = GlobalHolders \cup {t},
             globalSem.avail > 0, globalSem' = Take(globalSem)
      PROVE  GlobalLimiter!Next
  <2>1. globalSem'.queue = globalSem.queue
    BY <1>a DEF Take
  <2>2. GlobalLimiter!Enter(t)
    BY <1>0, <1>a, <2>1 DEF GlobalLimiter!Enter
  <2>3. QED
    BY <2>2 DEF GlobalLimiter!Next
<1>1. CASE UNCHANGED vars
  BY <1>1 DEF vars, GlobalHolders
<1>2. ASSUME NEW t \in Tasks, NEW o \in Origins \cup {NoOrigin}, Start(t, o)
      PROVE  GlobalLimiter!Next \/ UNCHANGED <<GlobalHolders, globalSem.queue>>
  <2>1. CASE globalSem.avail > 0
    <3>1. globalSem' = Take(globalSem) /\ pc' = [pc EXCEPT ![t] = "lookup"] /\ pc[t] = "idle"
      BY <1>2, <2>1 DEF Start
    <3>2. t \notin GlobalHolders /\ GlobalHolders' = GlobalHolders \cup {t}
      BY <3>1 DEF GlobalHolders, OwnsGlobal
    <3>3. QED
      BY <1>a, <2>1, <3>1, <3>2
  <2>2. CASE ~(globalSem.avail > 0)
    BY <1>2, <2>2 DEF Start, GlobalHolders, OwnsGlobal
  <2>3. QED
    BY <2>1, <2>2
<1>3. ASSUME NEW t \in Tasks, PollGlobal(t)
      PROVE  GlobalLimiter!Next
  <2>1. CASE globalSem.avail > 0
    <3>1. globalSem' = Take(globalSem) /\ pc' = [pc EXCEPT ![t] = "lookup"] /\ pc[t] = "pollGlobal"
      BY <1>3, <2>1 DEF PollGlobal
    <3>2. t \notin GlobalHolders /\ GlobalHolders' = GlobalHolders \cup {t}
      BY <3>1 DEF GlobalHolders, OwnsGlobal
    <3>3. QED
      BY <1>a, <2>1, <3>1, <3>2
  <2>2. CASE globalSem.avail = 0
    <3>1. globalSem' = Enqueue(globalSem, t) /\ pc' = [pc EXCEPT ![t] = "waitGlobal"] /\ pc[t] = "pollGlobal"
      BY <1>3, <2>2 DEF PollGlobal
    <3>2. t \notin GlobalHolders /\ GlobalHolders' = GlobalHolders
      BY <3>1 DEF GlobalHolders, OwnsGlobal
    <3>3. globalSem'.queue = Append(globalSem.queue, t)
      BY <3>1 DEF Enqueue
    <3>4. GlobalLimiter!Queue(t)
      BY <1>0, <2>2, <3>2, <3>3 DEF GlobalLimiter!Queue
    <3>5. QED
      BY <3>4 DEF GlobalLimiter!Next
  <2>3. QED
    BY <1>0, <2>1, <2>2
<1>4. ASSUME NEW t \in Tasks, NEW next \in PCs \ OwnsGlobal, DropGlobal(t, next), t \in GlobalHolders
      PROVE  GlobalLimiter!Next
  <2>1. globalSem' = Release(globalSem)
    BY <1>4 DEF DropGlobal
  <2>2. CASE globalSem.queue = <<>>
    <3>1. GlobalHolders' = GlobalHolders \ {t}
      BY <1>4, <2>2 DEF DropGlobal, NextInLine, GlobalHolders
    <3>2. globalSem'.queue = globalSem.queue
      BY <2>1, <2>2 DEF Release
    <3>3. GlobalLimiter!Exit(t)
      BY <1>4, <2>2, <3>1, <3>2 DEF GlobalLimiter!Exit
    <3>4. QED
      BY <3>3 DEF GlobalLimiter!Next
  <2>3. CASE globalSem.queue # <<>>
    <3>1. PICK u \in Queued(globalSem) : u = Head(globalSem.queue) /\ NextInLine(globalSem) = {u}
      BY <2>3, QueuedTasks DEF NextInLine
    <3>2. u \in Tasks \ GlobalHolders
      BY QueuedTasks DEF GlobalQueueShape, GlobalHolders, OwnsGlobal
    <3>3. GlobalHolders' = (GlobalHolders \ {t}) \cup {u}
      BY <1>4, <3>1, <3>2 DEF DropGlobal, GlobalHolders, OwnsGlobal
    <3>4. globalSem'.queue = Tail(globalSem.queue)
      BY <2>1, <2>3 DEF Release
    <3>5. GlobalLimiter!Exit(t)
      BY <1>4, <2>3, <3>1, <3>3, <3>4 DEF GlobalLimiter!Exit
    <3>6. QED
      BY <3>5 DEF GlobalLimiter!Next
  <2>4. QED
    BY <2>2, <2>3
<1>5. ASSUME NEW t \in Tasks, DropGuard(t) \/ CancelDropGlobal(t)
      PROVE  GlobalLimiter!Next
  BY <1>4, <1>5 DEF DropGuard, CancelDropGlobal, GlobalHolders, OwnsGlobal, PCs
<1>6. ASSUME NEW t \in Tasks, CancelGlobal(t)
      PROVE  GlobalLimiter!Next
  <2>1. CASE pc[t] = "grantedGlobal"
    BY <1>4, <1>6, <2>1 DEF CancelGlobal, GlobalHolders, OwnsGlobal, PCs
  <2>2. CASE pc[t] = "waitGlobal"
    <3>1. PICK i \in 1 .. Len(globalSem.queue) :
             globalSem.queue[i] = t /\ globalSem' = Leave(globalSem, i)
      BY <1>6, <2>2 DEF CancelGlobal
    <3>2. globalSem'.queue = [j \in 1 .. Len(globalSem.queue) - 1 |->
                                IF j < i THEN globalSem.queue[j] ELSE globalSem.queue[j + 1]]
      BY <3>1 DEF Leave, Without
    <3>3. GlobalHolders' = GlobalHolders
      BY <1>6, <2>2 DEF CancelGlobal, GlobalHolders, OwnsGlobal
    <3>4. GlobalLimiter!GiveUp(t)
      BY <3>1, <3>2, <3>3 DEF GlobalLimiter!GiveUp
    <3>5. QED
      BY <3>4 DEF GlobalLimiter!Next
  <2>3. QED
    BY <1>6, <2>1, <2>2 DEF CancelGlobal
<1>7. ASSUME NEW t \in Tasks,
             \/ WakeGlobal(t) \/ SkipOrigin(t) \/ FastLookup(t) \/ SlowLookup(t)
             \/ \E o \in Origins : SweepReadPermits(t, o)
             \/ SweepReadWaiters(t) \/ Insert(t)
             \/ TryOrigin(t) \/ PollOrigin(t) \/ TakeWaiterGuard(t) \/ CancelUnregister(t)
      PROVE  UNCHANGED <<GlobalHolders, globalSem.queue>>
  BY <1>7 DEF WakeGlobal, SkipOrigin, FastLookup, SlowLookup, SweepReadPermits,
       SweepReadWaiters, Insert, TryOrigin, PollOrigin, TakeWaiterGuard, CancelUnregister,
       Register, LockShape, GlobalHolders, OwnsGlobal
<1>8. ASSUME NEW t \in Tasks, DropGuardOrigin(t) \/ CancelOrigin(t)
      PROVE  UNCHANGED <<GlobalHolders, globalSem.queue>>
  <2>1. \A u \in NextInLine(sem[entry[t]]) : pc[u] = "waitOrigin"
    BY <1>8, QueuedTasks DEF DropGuardOrigin, CancelOrigin, OriginQueueShape, EntryShape,
         Registered
  <2>2. \A u \in Tasks : pc'[u] \in OwnsGlobal <=> pc[u] \in OwnsGlobal
    BY <1>8, <2>1 DEF DropGuardOrigin, CancelOrigin, DropOriginPermit, OwnsGlobal
  <2>3. GlobalHolders' = GlobalHolders
    BY <2>2 DEF GlobalHolders
  <2>4. QED
    BY <1>8, <2>3 DEF DropGuardOrigin, CancelOrigin
<1>9. QED
  BY <1>1, <1>2, <1>3, <1>5, <1>6, <1>7, <1>8, NextCases

\* Where there is a global limit, the pool implements a first-come-first-served limiter
\* of max_in_flight_requests, whatever the sweep does.
THEOREM GlobalIsALimiter ==
    ASSUME HasGlobal
    PROVE  Spec => GlobalLimiter!Spec
<1>1. Init => GlobalLimiter!Init
  BY DEF Init, GlobalLimiter!Init, GlobalHolders, OwnsGlobal, NewSemaphore
<1>2. IInv /\ SemaphoresUnhurried /\ [Next]_vars
        => [GlobalLimiter!Next]_<<GlobalHolders, globalSem.queue>>
  BY GlobalLimiterStep
<1>3. QED
  BY <1>1, <1>2, InductiveInvariant, NobodyIsOvertaken, PTL DEF Spec, GlobalLimiter!Spec

\* Where every origin fits into the table, no entry is ever swept: a request's entry is
\* the one in the table, and no two origins share one.
NeverSweeps == IsFiniteSet(Origins) /\ Cardinality(Origins) <= SweepThreshold
Unswept ==
    /\ sweepTodo = {}
    /\ \A t \in Tasks : entry[t] # NoEntry => table[origin[t]] = entry[t]
    /\ \A o, q \in Origins : table[o] # NoEntry /\ table[o] = table[q] => o = q

\* Every step keeps it so.
LEMMA UnsweptStep ==
    ASSUME NeverSweeps, IInv, Unswept, [Next]_vars
    PROVE  Unswept'
<1> USE PoolAssumption DEF IInv, TypeOK, lockVars, Goto
<1>a. ASSUME UNCHANGED <<table, sweepTodo>>,
             \A u \in Tasks : entry'[u] # NoEntry => entry'[u] = entry[u] /\ origin'[u] = origin[u]
      PROVE  Unswept'
  BY <1>a DEF Unswept
<1>0. ~(Cardinality(Known) > SweepThreshold)
  <2>1. Known \subseteq Origins
    BY DEF Known
  <2>2. Cardinality(Known) <= Cardinality(Origins) /\ Cardinality(Known) \in Nat /\ Cardinality(Origins) \in Nat
    BY <2>1, FS_Subset, FS_CardinalityType DEF NeverSweeps
  <2>3. QED
    BY <2>2 DEF NeverSweeps
<1>1. CASE UNCHANGED vars
  BY <1>1, <1>a DEF vars
<1>2. ASSUME NEW t \in Tasks, NEW o \in Origins \cup {NoOrigin}, Start(t, o)
      PROVE  Unswept'
  <2>1. entry[t] = NoEntry
    BY <1>2 DEF Start, EntryShape, Registered
  <2>2. QED
    BY <1>2, <1>a, <2>1 DEF Start
<1>3. ASSUME NEW t \in Tasks,
             \/ PollGlobal(t) \/ WakeGlobal(t) \/ SkipOrigin(t)
             \/ TryOrigin(t) \/ PollOrigin(t) \/ TakeWaiterGuard(t)
             \/ DropGuard(t) \/ DropGuardOrigin(t) \/ CancelGlobal(t) \/ CancelOrigin(t)
             \/ CancelUnregister(t) \/ CancelDropGlobal(t)
      PROVE  Unswept'
  BY <1>3, <1>a DEF PollGlobal, WakeGlobal, SkipOrigin, TryOrigin, PollOrigin, TakeWaiterGuard, DropGuard,
       DropGuardOrigin, CancelGlobal, CancelOrigin, CancelUnregister, CancelDropGlobal
<1>4. ASSUME NEW t \in Tasks, FastLookup(t) \/ SlowLookup(t)
      PROVE  Unswept'
  <2>1. UNCHANGED <<table, origin>> /\ sweepTodo' = {}
    BY <1>0, <1>4 DEF FastLookup, SlowLookup, Unswept
  <2>2. entry' = entry \/ entry' = [entry EXCEPT ![t] = table[origin[t]]]
    BY <1>4 DEF FastLookup, SlowLookup, Register
  <2>3. QED
    BY <2>1, <2>2 DEF Unswept
<1>5. ASSUME NEW t \in Tasks, (\E o \in Origins : SweepReadPermits(t, o)) \/ SweepReadWaiters(t)
      PROVE  FALSE
  BY <1>5 DEF SweepReadPermits, SweepReadWaiters, Unswept, LockShape
<1>6. ASSUME NEW t \in Tasks, Insert(t)
      PROVE  Unswept'
  <2>1. PICK e \in Entries : /\ Unreferenced(e)
                             /\ table' = [table EXCEPT ![origin[t]] = e]
                             /\ entry' = [entry EXCEPT ![t] = e]
    BY <1>6 DEF Insert
  <2>2. origin[t] \in Origins /\ table[origin[t]] = NoEntry /\ origin' = origin /\ sweepTodo' = sweepTodo
    BY <1>6 DEF Insert, LockShape
  <2>3. \A u \in Tasks : entry[u] # NoEntry => origin[u] # origin[t] /\ origin[u] \in Origins
    BY <2>2 DEF Unswept, EntryShape
  <2>4. QED
    BY <2>1, <2>2, <2>3 DEF Unswept, Unreferenced
<1>7. QED
  BY <1>1, <1>2, <1>3, <1>4, <1>5, <1>6, NextCases

\* Who holds a slot of an origin that the table knows, and of one that it does not.
LEMMA OriginView ==
    ASSUME IInv, Unswept, NEW o \in Origins
    PROVE  /\ table[o] # NoEntry => OriginHolders(o) = Holders(table[o]) /\ Live(table[o])
           /\ table[o] = NoEntry => OriginHolders(o) = {}
BY PoolAssumption DEF IInv, TypeOK, Unswept, OriginHolders, Holders, Live, Unreferenced, EntryShape

\* Each step of the pool, seen at an origin, is a step of a limiter or leaves it alone.
LEMMA OriginLimiterStep ==
    ASSUME MaxPerOrigin # Unlimited, NeverSweeps, IInv, SemaphoresUnhurried, Unswept, [Next]_vars,
           NEW o \in Origins
    PROVE  OriginLimiter(o)!Next \/ UNCHANGED <<OriginHolders(o), OriginLine(o)>>
<1> USE DEF IInv, TypeOK, lockVars, Goto
<1> DEFINE Same == UNCHANGED <<OriginHolders(o), OriginLine(o)>>
<1>a. ASSUME table' = table, sem' = sem,
             \A u \in Tasks : (u \in OriginHolders(o))' <=> u \in OriginHolders(o)
      PROVE  Same
  BY <1>a DEF OriginHolders, OriginLine
<1>1. CASE UNCHANGED vars
  BY <1>1 DEF vars, OriginHolders, OriginLine
<1>2. ASSUME NEW t \in Tasks, NEW q \in Origins \cup {NoOrigin},
             Start(t, q) \/ PollGlobal(t) \/ WakeGlobal(t) \/ SkipOrigin(t)
      PROVE  Same
  <2>1. entry[t] = NoEntry
    BY <1>2 DEF Start, PollGlobal, WakeGlobal, SkipOrigin, EntryShape, Registered
  <2>2. QED
    BY <1>2, <1>a, <2>1 DEF Start, PollGlobal, WakeGlobal, SkipOrigin, OriginHolders
<1>3. ASSUME NEW t \in Tasks, FastLookup(t) \/ SlowLookup(t)
      PROVE  Same
  <2>1. pc[t] \notin OwnsOrigin /\ pc'[t] \notin OwnsOrigin /\ \A u \in Tasks \ {t} : pc'[u] = pc[u] /\ entry'[u] = entry[u]
    BY <1>3 DEF FastLookup, SlowLookup, Register, OwnsOrigin
  <2>2. QED
    BY <1>3, <1>a, <2>1 DEF FastLookup, SlowLookup, OriginHolders
<1>4. ASSUME NEW t \in Tasks, (\E q \in Origins : SweepReadPermits(t, q)) \/ SweepReadWaiters(t)
      PROVE  FALSE
  BY <1>4 DEF SweepReadPermits, SweepReadWaiters, Unswept, LockShape
<1>5. ASSUME NEW t \in Tasks, Insert(t)
      PROVE  Same
  <2>1. PICK e \in Entries : /\ Unreferenced(e)
                             /\ table' = [table EXCEPT ![origin[t]] = e]
                             /\ entry' = [entry EXCEPT ![t] = e]
                             /\ sem' = [sem EXCEPT ![e] = NewSemaphore(MaxPerOrigin)]
    BY <1>5 DEF Insert
  <2>2. /\ origin[t] \in Origins /\ table[origin[t]] = NoEntry /\ origin' = origin /\ pc[t] = "insert"
        /\ pc' = [pc EXCEPT ![t] = "tryOrigin"]
    BY <1>5 DEF Insert, LockShape
  <2>3. OriginHolders(o)' = OriginHolders(o)
    BY <2>1, <2>2 DEF OriginHolders, OwnsOrigin
  <2>4. OriginLine(o)' = OriginLine(o)
    <3>1. CASE o = origin[t]
      BY <2>1, <2>2, <3>1, PoolAssumption DEF OriginLine, NewSemaphore
    <3>2. CASE o # origin[t]
      BY <2>1, <2>2, <3>2, PoolAssumption DEF OriginLine, Unreferenced
    <3>3. QED
      BY <3>1, <3>2
  <2>5. QED
    BY <2>3, <2>4
<1>6. ASSUME NEW t \in Tasks, TakeWaiterGuard(t) \/ CancelUnregister(t)
      PROVE  Same
  <2>1. \A u \in Tasks : /\ pc'[u] \in OwnsOrigin <=> pc[u] \in OwnsOrigin
                         /\ pc[u] \in OwnsOrigin => entry'[u] = entry[u]
    BY <1>6 DEF TakeWaiterGuard, CancelUnregister, OwnsOrigin
  <2>2. QED
    BY <1>6, <1>a, <2>1 DEF TakeWaiterGuard, CancelUnregister, OriginHolders
<1>7. ASSUME NEW t \in Tasks, DropGuard(t) \/ CancelDropGlobal(t) \/ CancelGlobal(t)
      PROVE  Same
  <2>1. \A u \in NextInLine(globalSem) : pc[u] = "waitGlobal"
    BY QueuedTasks DEF GlobalQueueShape
  <2>2. \A u \in Tasks : entry[u] # NoEntry => (pc'[u] \in OwnsOrigin <=> pc[u] \in OwnsOrigin)
    BY <1>7, <2>1 DEF DropGuard, CancelDropGlobal, CancelGlobal, DropGlobal, OwnsOrigin, EntryShape, Registered
  <2>3. QED
    BY <1>7, <1>a, <2>2 DEF DropGuard, CancelDropGlobal, CancelGlobal, OriginHolders
<1>8. ASSUME NEW t \in Tasks, NEW e \in Entries, entry[t] = e, origin[t] \in Origins
      PROVE  /\ table[origin[t]] = e
             /\ \A u \in Tasks : entry[u] = e => origin[u] = origin[t]
             /\ o # origin[t] => table[o] # e
             /\ o = origin[t] => OriginHolders(o) = Holders(e) /\ OriginLine(o) = sem[e].queue
             /\ sem[e].avail \in Nat /\ sem[e].queue \in Seq(Tasks)
             /\ o = origin[t] => (sem[e].avail > 0 <=> OriginLimiter(o)!Room)
             /\ sem[e].avail > 0 => sem[e].queue = <<>>
  <2>1. e # NoEntry /\ table[origin[t]] = e /\ (o # origin[t] => table[o] # e)
    BY <1>8, PoolAssumption DEF Unswept
  <2>2. \A u \in Tasks : entry[u] = e => origin[u] = origin[t]
    BY <1>8, <2>1 DEF Unswept, EntryShape
  <2>3. o = origin[t] => OriginHolders(o) = Holders(e) /\ OriginLine(o) = sem[e].queue
    BY <2>1, OriginView DEF OriginLine
  <2>4. sem[e].avail \in Nat /\ sem[e].queue \in Seq(Tasks) /\ MaxPerOrigin \in Nat
    BY PoolAssumption DEF SemaphoreOf
  <2>5. Cardinality(Holders(e)) \in Nat
    BY CountTasks DEF Holders
  <2>6. sem[e].avail + Cardinality(Holders(e)) = MaxPerOrigin
    BY <1>8, <2>1, OriginView DEF OriginConserved
  <2>7. ASSUME o = origin[t]
        PROVE  sem[e].avail > 0 <=> OriginLimiter(o)!Room
    <3>1. OriginLimiter(o)!Cardinality(OriginHolders(o)) = Cardinality(Holders(e))
      BY <2>3, <2>7 DEF OriginLimiter!Cardinality, Cardinality
    <3>2. QED
      BY <2>4, <2>5, <2>6, <3>1 DEF OriginLimiter!Room
  <2>8. QED
    BY <2>1, <2>2, <2>3, <2>4, <2>7 DEF SemaphoresUnhurried, Unhurried
<1>b. ASSUME NEW t \in Tasks, NEW e \in Entries, entry[t] = e, origin[t] \in Origins, o # origin[t],
             UNCHANGED <<origin, table>>, NEW s, sem' = [sem EXCEPT ![e] = s],
             \A u \in Tasks : entry[u] # e => entry'[u] = entry[u] /\ (pc'[u] \in OwnsOrigin <=> pc[u] \in OwnsOrigin)
      PROVE  Same
  <2>1. table[o] # e /\ \A u \in Tasks : entry[u] = e => origin[u] # o
    BY <1>8, <1>b
  <2>2. OriginLine(o)' = OriginLine(o)
    BY <1>b, <2>1 DEF OriginLine
  <2>3. OriginHolders(o)' = OriginHolders(o)
    BY <1>b, <2>1 DEF OriginHolders
  <2>4. QED
    BY <2>2, <2>3
<1>9. ASSUME NEW t \in Tasks, TryOrigin(t) \/ PollOrigin(t)
      PROVE  OriginLimiter(o)!Next \/ Same
  <2>1. PICK e \in Entries : e = entry[t]
    BY <1>9 DEF TryOrigin, PollOrigin, EntryShape, Registered
  <2>2. /\ origin[t] \in Origins /\ UNCHANGED <<origin, table, entry>> /\ pc[t] \notin OwnsOrigin
        /\ \A u \in Tasks \ {t} : pc'[u] = pc[u]
    BY <1>9, <2>1, PoolAssumption DEF TryOrigin, PollOrigin, EntryShape, OwnsOrigin
  <2>3. \/ sem[e].avail > 0 /\ sem' = [sem EXCEPT ![e] = Take(sem[e])] /\ pc'[t] = "gotOrigin"
        \/ sem[e].avail = 0 /\ sem' = sem /\ pc'[t] = "pollOrigin"
        \/ sem[e].avail = 0 /\ sem' = [sem EXCEPT ![e] = Enqueue(sem[e], t)] /\ pc'[t] = "waitOrigin"
    BY <1>9, <2>1 DEF TryOrigin, PollOrigin
  <2>4. CASE sem' = sem /\ pc'[t] = "pollOrigin"
    BY <1>a, <2>2, <2>4 DEF OriginHolders, OwnsOrigin
  <2>5. CASE o # origin[t] /\ sem' # sem
    BY <1>b, <2>1, <2>2, <2>3, <2>5
  <2>6. CASE o = origin[t] /\ sem[e].avail > 0 /\ sem' = [sem EXCEPT ![e] = Take(sem[e])] /\ pc'[t] = "gotOrigin"
    <3>1. OriginHolders(o)' = OriginHolders(o) \cup {t} /\ t \notin OriginHolders(o)
      BY <2>1, <2>2, <2>6, PoolAssumption DEF OriginHolders, OwnsOrigin
    <3>2. OriginLine(o) = <<>> /\ OriginLimiter(o)!Room
      BY <1>8, <2>1, <2>2, <2>6
    <3>3. OriginLine(o)' = OriginLine(o)
      BY <1>8, <2>1, <2>2, <2>6 DEF OriginLine, Take
    <3>4. OriginLimiter(o)!Enter(t)
      BY <3>1, <3>2, <3>3 DEF OriginLimiter!Enter
    <3>5. QED
      BY <3>4 DEF OriginLimiter!Next
  <2>7. CASE o = origin[t] /\ sem[e].avail = 0 /\ sem' = [sem EXCEPT ![e] = Enqueue(sem[e], t)] /\ pc'[t] = "waitOrigin"
    <3>1. OriginHolders(o)' = OriginHolders(o) /\ t \notin OriginHolders(o)
      BY <2>1, <2>2, <2>7 DEF OriginHolders, OwnsOrigin
    <3>2. ~OriginLimiter(o)!Room /\ table[o] = e /\ OriginLine(o) = sem[e].queue
      BY <1>8, <2>1, <2>2, <2>7
    <3>3. OriginLine(o)' = Append(OriginLine(o), t)
      BY <2>2, <2>7, <3>2, PoolAssumption DEF OriginLine, Enqueue
    <3>4. OriginLimiter(o)!Queue(t)
      BY <3>1, <3>2, <3>3 DEF OriginLimiter!Queue
    <3>5. QED
      BY <3>4 DEF OriginLimiter!Next
  <2>8. CASE sem' = sem /\ pc'[t] # "pollOrigin"
    <3>1. sem' # sem
      <4>1. sem[e] \in SemaphoreOf(Tasks)
        OBVIOUS
      <4>2. sem[e].avail > 0 => Take(sem[e]) # sem[e]
        BY <4>1 DEF Take, SemaphoreOf
      <4>3. Enqueue(sem[e], t) # sem[e]
        BY <4>1 DEF Enqueue, SemaphoreOf
      <4>4. QED
        BY <2>3, <2>8, <4>2, <4>3
    <3>2. QED
      BY <2>8, <3>1
  <2>9. QED
    BY <2>3, <2>4, <2>5, <2>6, <2>7, <2>8
<1>10. ASSUME NEW t \in Tasks, NEW e \in Entries, entry[t] = e, NEW next \in PCs \ OwnsOrigin,
              pc[t] \in OwnsOrigin, DropOriginPermit(t, next), UNCHANGED <<origin, table>>,
              \A u \in Tasks \ {t} : entry'[u] = entry[u]
       PROVE  OriginLimiter(o)!Next \/ Same
  <2>1. /\ origin[t] \in Origins /\ sem' = [sem EXCEPT ![e] = Release(sem[e])]
        /\ pc'[t] = next
        /\ \A u \in Tasks \ {t} : pc'[u] = IF u \in NextInLine(sem[e]) THEN "grantedOrigin" ELSE pc[u]
    BY <1>10, PoolAssumption DEF DropOriginPermit, EntryShape
  <2>2. /\ \A u \in NextInLine(sem[e]) : u \in Tasks /\ pc[u] = "waitOrigin" /\ entry[u] = e
    BY QueuedTasks DEF OriginQueueShape
  <2>3. CASE o # origin[t]
    <3>1. \A u \in Tasks : entry[u] # e => entry'[u] = entry[u] /\ (pc'[u] \in OwnsOrigin <=> pc[u] \in OwnsOrigin)
      BY <1>10, <2>1, <2>2
    <3>2. QED
      BY <1>10, <1>b, <2>1, <2>3, <3>1, ZenonT(60)
  <2>4. CASE o = origin[t]
    <3>0. /\ table[o] = e /\ OriginHolders(o) = Holders(e) /\ OriginLine(o) = sem[e].queue /\ e # NoEntry
          /\ \A u \in Tasks : entry[u] = e => origin[u] = o
      BY <1>8, <1>10, <2>1, <2>4, PoolAssumption
    <3>1. t \in OriginHolders(o)
      BY <1>10, <3>0 DEF Holders
    <3>2. OriginLine(o)' = Release(sem[e]).queue
      BY <1>10, <2>1, <3>0 DEF OriginLine
    <3>3. CASE sem[e].queue = <<>>
      <4>1. OriginHolders(o)' = OriginHolders(o) \ {t}
        BY <1>10, <2>1, <3>3, <3>0 DEF NextInLine, OriginHolders
      <4>2. OriginLine(o)' = OriginLine(o) /\ OriginLine(o) = <<>>
        BY <3>0, <3>2, <3>3 DEF Release
      <4>3. OriginLimiter(o)!Exit(t)
        BY <3>1, <4>1, <4>2 DEF OriginLimiter!Exit
      <4>4. QED
        BY <4>3 DEF OriginLimiter!Next
    <3>4. CASE sem[e].queue # <<>>
      <4>1. PICK u \in Tasks : u = Head(sem[e].queue) /\ NextInLine(sem[e]) = {u}
        BY <2>2, <3>4 DEF NextInLine
      <4>2. u # t /\ entry[u] = e /\ origin[u] = o
        BY <1>10, <2>2, <3>0, <4>1 DEF OwnsOrigin
      <4>3. OriginHolders(o)' = (OriginHolders(o) \ {t}) \cup {u}
        BY <1>10, <2>1, <3>0, <4>1, <4>2 DEF OriginHolders, OwnsOrigin
      <4>4. OriginLine(o)' = Tail(OriginLine(o)) /\ OriginLine(o) # <<>> /\ u = Head(OriginLine(o))
        BY <3>0, <3>2, <3>4, <4>1 DEF Release
      <4>5. OriginLimiter(o)!Exit(t)
        BY <3>1, <4>3, <4>4 DEF OriginLimiter!Exit
      <4>6. QED
        BY <4>5 DEF OriginLimiter!Next
    <3>5. QED
      BY <3>3, <3>4
  <2>5. QED
    BY <2>3, <2>4
<1>11. ASSUME NEW t \in Tasks, DropGuardOrigin(t)
       PROVE  OriginLimiter(o)!Next \/ Same
  <2>1. PICK e \in Entries : e = entry[t]
    BY <1>11 DEF DropGuardOrigin, EntryShape
  <2>2. /\ pc[t] \in OwnsOrigin /\ "idle" \in PCs \ OwnsOrigin /\ DropOriginPermit(t, "idle")
        /\ UNCHANGED <<origin, table>> /\ \A u \in Tasks \ {t} : entry'[u] = entry[u]
    BY <1>11 DEF DropGuardOrigin, OwnsOrigin, PCs
  <2>3. QED
    BY <1>10, <2>1, <2>2
<1>12. ASSUME NEW t \in Tasks, CancelOrigin(t)
       PROVE  OriginLimiter(o)!Next \/ Same
  <2>1. PICK e \in Entries : e = entry[t]
    BY <1>12 DEF CancelOrigin, EntryShape, Registered
  <2>2. UNCHANGED <<origin, table, entry>> /\ origin[t] \in Origins
    BY <1>12, <2>1, PoolAssumption DEF CancelOrigin, EntryShape
  <2>3. CASE pc[t] = "grantedOrigin"
    <3>1. /\ pc[t] \in OwnsOrigin /\ "unregister" \in PCs \ OwnsOrigin /\ DropOriginPermit(t, "unregister")
      BY <1>12, <2>3 DEF CancelOrigin, OwnsOrigin, PCs, OwnsGlobal
    <3>2. QED
      BY <1>10, <2>1, <2>2, <3>1
  <2>4. CASE pc[t] = "waitOrigin"
    <3>1. PICK i \in 1 .. Len(sem[e].queue) : /\ sem[e].queue[i] = t
                                              /\ sem' = [sem EXCEPT ![e] = Leave(sem[e], i)]
      BY <1>12, <2>1, <2>4 DEF CancelOrigin
    <3>2. pc' = [pc EXCEPT ![t] = "unregister"]
      BY <1>12, <2>4 DEF CancelOrigin
    <3>3. \A u \in Tasks : pc'[u] \in OwnsOrigin <=> pc[u] \in OwnsOrigin
      BY <2>4, <3>2 DEF OwnsOrigin
    <3>4. CASE o # origin[t]
      BY <1>b, <2>1, <2>2, <3>1, <3>3, <3>4
    <3>5. CASE o = origin[t]
      <4>1. table[o] = e /\ OriginLine(o) = sem[e].queue /\ e # NoEntry
        BY <1>8, <2>1, <2>2, <3>5, PoolAssumption
      <4>2. OriginLine(o)' = [j \in 1 .. Len(OriginLine(o)) - 1 |->
                                IF j < i THEN OriginLine(o)[j] ELSE OriginLine(o)[j + 1]]
        BY <2>2, <3>1, <4>1 DEF OriginLine, Leave, Without
      <4>3. OriginHolders(o)' = OriginHolders(o)
        BY <2>2, <3>3 DEF OriginHolders
      <4>4. OriginLimiter(o)!GiveUp(t)
        BY <3>1, <4>1, <4>2, <4>3 DEF OriginLimiter!GiveUp
      <4>5. QED
        BY <4>4 DEF OriginLimiter!Next
    <3>6. QED
      BY <3>4, <3>5
  <2>5. QED
    BY <1>12, <2>3, <2>4 DEF CancelOrigin
<1>13. QED
  BY <1>1, <1>2, <1>3, <1>4, <1>5, <1>6, <1>7, <1>9, <1>11, <1>12, NextCases

\* RefinesLimiters, for any requests, origins and limits, as long as the table has room
\* for every origin: the global semaphore and the semaphores of the origins, entries that
\* come and go with registrations included, implement first-come-first-served limiters.
THEOREM PoolRefinesLimiters ==
    ASSUME HasGlobal, MaxPerOrigin # Unlimited, NeverSweeps
    PROVE  Spec => RefinesLimiters
<1>1. Init => Unswept /\ \A o \in Origins : OriginLimiter(o)!Init
  <2> SUFFICES ASSUME Init
               PROVE  Unswept /\ \A o \in Origins : OriginLimiter(o)!Init
    OBVIOUS
  <2>1. Unswept
    BY DEF Init, Unswept
  <2>2. ASSUME NEW o \in Origins
        PROVE  OriginHolders(o) = {} /\ OriginLine(o) = <<>>
    BY DEF Init, OriginHolders, OriginLine, OwnsOrigin
  <2>3. QED
    BY <2>1, <2>2 DEF OriginLimiter!Init
<1>2. IInv /\ Unswept /\ [Next]_vars => Unswept'
  BY UnsweptStep
<1>3. IInv /\ SemaphoresUnhurried /\ Unswept /\ [Next]_vars
        => [\A o \in Origins : OriginLimiter(o)!Next \/ UNCHANGED <<OriginHolders(o), OriginLine(o)>>]_vars
  BY OriginLimiterStep
<1>4. QED
  BY <1>1, <1>2, <1>3, InductiveInvariant, NobodyIsOvertaken, GlobalIsALimiter, PTL DEF Spec, RefinesLimiters
=============================================================================
