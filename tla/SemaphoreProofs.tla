-------------------------- MODULE SemaphoreProofs ---------------------------
(* What the operators on a semaphore do to its type, its permits and its   *)
(* queue.                                                                  *)
EXTENDS Semaphore, SequenceTheorems, TLAPS

\* Removing the i-th element of a queue leaves a queue.
LEMMA WithoutType ==
    ASSUME NEW T, NEW q \in Seq(T), NEW i \in 1 .. Len(q)
    PROVE  /\ Without(q, i) \in Seq(T)
           /\ Len(Without(q, i)) = Len(q) - 1
<1>1. Len(q) - 1 \in Nat /\ \A j \in 1 .. Len(q) - 1 : Without(q, i)[j] \in T
  BY DEF Without
<1>2. Without(q, i) \in [1 .. Len(q) - 1 -> T]
  BY <1>1 DEF Without
<1>3. Without(q, i) \in Seq(T)
  BY <1>1, <1>2, SeqDef
<1>4. Len(Without(q, i)) = Len(q) - 1
  BY <1>1, <1>2, <1>3
<1>5. QED
  BY <1>3, <1>4

\* The operators of a semaphore keep its type.
LEMMA SemaphoreOps ==
    ASSUME NEW T, NEW s \in SemaphoreOf(T)
    PROVE  /\ s.avail > 0 => Take(s) \in SemaphoreOf(T)
           /\ \A t \in T : Enqueue(s, t) \in SemaphoreOf(T)
           /\ Release(s) \in SemaphoreOf(T)
           /\ \A i \in 1 .. Len(s.queue) : Leave(s, i) \in SemaphoreOf(T)
           /\ NextInLine(s) \subseteq T
<1>1. s.avail > 0 => Take(s) \in SemaphoreOf(T)
  BY DEF Take, SemaphoreOf
<1>2. \A t \in T : Enqueue(s, t) \in SemaphoreOf(T)
  BY DEF Enqueue, SemaphoreOf
<1>3. Release(s) \in SemaphoreOf(T) /\ NextInLine(s) \subseteq T
  BY DEF Release, NextInLine, SemaphoreOf
<1>4. \A i \in 1 .. Len(s.queue) : Leave(s, i) \in SemaphoreOf(T)
  BY WithoutType DEF Leave, SemaphoreOf
<1>5. QED
  BY <1>1, <1>2, <1>3, <1>4

\* Those who queue are clients of the semaphore.
LEMMA QueuedType ==
    ASSUME NEW T, NEW s \in SemaphoreOf(T)
    PROVE  Queued(s) \subseteq T
BY DEF Queued, SemaphoreOf

\* A permit that is dropped goes to the one head of the queue, who leaves it,
\* or is available again.
LEMMA ReleaseEffect ==
    ASSUME NEW T, NEW s \in SemaphoreOf(T), Distinct(s)
    PROVE  /\ Distinct(Release(s))
           /\ Queued(Release(s)) = Queued(s) \ NextInLine(s)
           /\ NextInLine(s) \subseteq Queued(s)
           /\ \/ NextInLine(s) = {} /\ Release(s).avail = s.avail + 1
              \/ /\ \E u \in Queued(s) : NextInLine(s) = {u}
                 /\ Release(s).avail = s.avail
<1>1. CASE s.queue = <<>>
  BY <1>1 DEF Release, NextInLine, Queued, Distinct
<1>2. CASE s.queue # <<>>
  <2> DEFINE q == s.queue
             r == Tail(q)
  <2>1. q \in Seq(T) /\ Len(q) \in Nat /\ Len(q) > 0
    BY <1>2 DEF SemaphoreOf
  <2>2. r \in Seq(T) /\ Len(r) = Len(q) - 1 /\ \A i \in 1 .. Len(r) : r[i] = q[i + 1]
    BY <2>1
  <2>3. Head(q) = q[1]
    BY <2>1
  <2>4. Release(s).queue = r /\ Release(s).avail = s.avail /\ NextInLine(s) = {q[1]}
    BY <1>2, <2>3 DEF Release, NextInLine
  <2>5. Distinct(Release(s))
    BY <2>1, <2>2, <2>4 DEF Distinct
  <2>6. q[1] \in Queued(s)
    BY <2>1 DEF Queued
  <2>7. \A x \in Queued(Release(s)) : x \in Queued(s) /\ x # q[1]
    BY <2>1, <2>2, <2>4 DEF Distinct, Queued
  <2>8. ASSUME NEW x \in Queued(s), x # q[1]
        PROVE  x \in Queued(Release(s))
    <3>1. PICK k \in 1 .. Len(q) : x = q[k]
      BY DEF Queued
    <3>2. k - 1 \in 1 .. Len(r) /\ r[k - 1] = x
      BY <2>1, <2>2, <2>8, <3>1
    <3>3. QED
      BY <2>4, <3>2 DEF Queued
  <2>9. QED
    BY <2>4, <2>5, <2>6, <2>7, <2>8
<1>3. QED
  BY <1>1, <1>2

\* Taking a permit and joining the queue.
LEMMA EnqueueEffect ==
    ASSUME NEW T, NEW s \in SemaphoreOf(T), NEW t \in T, Distinct(s), t \notin Queued(s)
    PROVE  /\ Distinct(Enqueue(s, t))
           /\ Queued(Enqueue(s, t)) = Queued(s) \cup {t}
           /\ Enqueue(s, t).avail = s.avail
<1> DEFINE q == s.queue
           r == Append(q, t)
<1>1. /\ q \in Seq(T) /\ Len(q) \in Nat /\ Len(r) = Len(q) + 1
      /\ r[Len(q) + 1] = t
      /\ \A i \in 1 .. Len(q) : r[i] = q[i]
  BY DEF SemaphoreOf
<1>2. Enqueue(s, t).queue = r /\ Enqueue(s, t).avail = s.avail
  BY DEF Enqueue
<1> HIDE DEF r
<1>3. \A i \in 1 .. Len(q) : q[i] # t
  BY DEF Queued
<1>4. Distinct(Enqueue(s, t))
  BY <1>1, <1>2, <1>3 DEF Distinct
<1>5. \A x : x \in Queued(Enqueue(s, t)) <=> x \in Queued(s) \cup {t}
  BY <1>1, <1>2 DEF Queued
<1>6. QED
  BY <1>2, <1>4, <1>5

\* Leaving the queue.
LEMMA LeaveEffect ==
    ASSUME NEW T, NEW s \in SemaphoreOf(T), NEW i \in 1 .. Len(s.queue), Distinct(s)
    PROVE  /\ Distinct(Leave(s, i))
           /\ Queued(Leave(s, i)) = Queued(s) \ {s.queue[i]}
           /\ Leave(s, i).avail = s.avail
<1> DEFINE q == s.queue
           r == Without(q, i)
<1>1. /\ q \in Seq(T) /\ Len(q) \in Nat
      /\ r \in Seq(T) /\ Len(r) = Len(q) - 1
      /\ \A j \in 1 .. Len(r) : r[j] = IF j < i THEN q[j] ELSE q[j + 1]
  BY WithoutType DEF SemaphoreOf, Without
<1>2. Leave(s, i).queue = r /\ Leave(s, i).avail = s.avail
  BY DEF Leave
<1> HIDE DEF r
<1>3. Distinct(Leave(s, i))
  BY <1>1, <1>2, SMTT(60) DEF Distinct
<1>4. \A x \in Queued(Leave(s, i)) : x \in Queued(s) /\ x # q[i]
  BY <1>1, <1>2 DEF Distinct, Queued
<1>5. ASSUME NEW x \in Queued(s), x # q[i]
      PROVE  x \in Queued(Leave(s, i))
  <2>1. PICK k \in 1 .. Len(q) : x = q[k]
    BY DEF Queued
  <2>2. \E j \in 1 .. Len(r) : r[j] = x
    <3>1. CASE k < i
      BY <1>1, <2>1, <3>1
    <3>2. CASE k > i
      <4>1. k - 1 \in 1 .. Len(r) /\ r[k - 1] = x
        BY <1>1, <2>1, <3>2
      <4>2. QED
        BY <4>1
    <3>3. QED
      BY <1>5, <2>1, <3>1, <3>2
  <2>3. QED
    BY <1>2, <2>2 DEF Queued
<1>6. QED
  BY <1>2, <1>3, <1>4, <1>5

\* Taking a permit and a fresh semaphore leave no trace in the queue.
LEMMA TakeEffect ==
    ASSUME NEW s
    PROVE  /\ Distinct(Take(s)) <=> Distinct(s)
           /\ Queued(Take(s)) = Queued(s)
           /\ Take(s).avail = s.avail - 1
BY DEF Take, Distinct, Queued

\* A new semaphore has all its permits and nobody queues.
LEMMA NewEffect ==
    ASSUME NEW n
    PROVE  /\ Distinct(NewSemaphore(n))
           /\ Queued(NewSemaphore(n)) = {}
           /\ NewSemaphore(n).avail = n
BY DEF NewSemaphore, Distinct, Queued

=============================================================================
