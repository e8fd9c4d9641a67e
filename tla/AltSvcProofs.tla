---------------------------- MODULE AltSvcProofs ----------------------------
(***************************************************************************)
(* Proofs about the HTTP/3 dispatch: a second transport gets a request     *)
(* only where a fallback is allowed, and stale state never gets the better *)
(* of an advertisement.                                                    *)
(*                                                                         *)
(* Suppression ends are integers here: that powers of two are not negative *)
(* is not needed, and it is out of the provers' reach.                     *)
(***************************************************************************)
EXTENDS AltSvc, Integers, FiniteSetTheorems, TLAPS

\* Requests that may still learn an alternative; each makes one generation at the most.
PendingPcs == {"lookup", "expired", "check", "h3", "hyper", "learn"}
Pending == {t \in Tasks : task[t].pc \in PendingPcs}

SuppressionType == [generation : Generations, failures : Nat \ {0}, suppressed_until : Int]

AltTypes ==
    /\ clock \in Nat
    /\ policy \in Policies
    /\ cache \in [AltOrigins -> AltSvcEntry \cup {NoEntry}]
    /\ sequence \in 1 .. MaxRequests + 1
    /\ supp \in [AltOrigins -> SuppressionType \cup {NoEntry}]
    /\ task \in [Tasks -> TaskType]
    /\ requests \in 0 .. MaxRequests
    /\ failedAt \in [Generations -> Nat \cup {NoDeadline}]

\* What a request holds at each point: no transport has its body before the first attempt, a
\* second one gets it undelivered, and under Http3Only there is no second one.
RequestOK(r) ==
    /\ r.pc \in {"lookup", "expired", "check", "h3"} => ~r.taken /\ ~r.delivered
    /\ r.pc = "hyper" => ~r.delivered /\ (r.body = "stream" => ~r.taken)
    /\ policy = "Http3Only" => /\ r.pc \notin {"lookup", "expired", "check", "hyper"}
                               /\ r.pc = "h3" => r.target = NoEntry
    /\ r.pc = "check" => r.target # NoEntry

\* A suppression follows a failure of its generation, by the maximal backoff at the most.
FailuresRemembered ==
    /\ \A g \in Generations : failedAt[g] # NoDeadline => failedAt[g] <= clock
    /\ \A o \in AltOrigins : supp[o] # NoEntry =>
           /\ failedAt[supp[o].generation] # NoDeadline
           /\ supp[o].suppressed_until <= failedAt[supp[o].generation] + MaxBackoff

\* Generations are not used up before the requests are.
GenerationsSuffice == sequence + Cardinality(Pending) <= requests + 1

AltInv ==
    /\ AltTypes
    /\ \A t \in Tasks : RequestOK(task[t])
    /\ FailuresRemembered
    /\ GenerationsSuffice

\* No entry is not an entry.
LEMMA NoEntryApart == NoEntry \notin AltSvcEntry /\ NoEntry \notin SuppressionType
<1>1. \A e \in AltSvcEntry : e.generation \in Generations
  BY DEF AltSvcEntry
<1>2. \A e \in SuppressionType : e.generation \in Generations
  BY DEF SuppressionType
<1>3. NoEntry.generation = 0 /\ 0 \notin Generations
  BY AltSvcAssumption DEF NoEntry, Generations
<1>4. QED
  BY <1>1, <1>2, <1>3

\* A caller without a request is a request's record.
LEMMA IdleTyped == Idle \in TaskType /\ Idle.pc = "idle" /\ RequestOK(Idle)
<1> DEFINE o == CHOOSE x \in AltOrigins : TRUE
<1>1. o \in AltOrigins
  BY AltSvcAssumption
<1>2. Idle = [pc |-> "idle", origin |-> o, body |-> "stream", at |-> 0,
              target |-> NoEntry, total |-> NoDeadline, limit |-> NoDeadline, due |-> NoDeadline,
              taken |-> FALSE, delivered |-> FALSE]
  BY DEF Idle
<1> HIDE DEF o
<1>3. Idle \in TaskType
  BY <1>1, <1>2 DEF TaskType
<1>4. QED
  BY <1>2, <1>3 DEF RequestOK

\* A deadline is an instant or none.
LEMMA DeadlineTyped == ASSUME clock \in Nat, NEW total \in Totals \cup {NoDeadline}
                       PROVE  Deadline(total) \in Nat \cup {NoDeadline}
BY AltSvcAssumption DEF Deadline

\* The backoff is an integer, and no longer than the maximal one.
LEMMA SuppressionBackoffBounded == ASSUME NEW f \in Nat \ {0}
                        PROVE  SuppressionBackoff(f) \in Int /\ SuppressionBackoff(f) <= MaxBackoff
<1> DEFINE shift == IF f - 1 < 10 THEN f - 1 ELSE 10
           b == Base * 2^shift
<1>1. MaxBackoff \in Nat /\ Base \in Nat
  BY AltSvcAssumption
<1>2. shift \in Nat
  OBVIOUS
<1>3. 2^shift \in Int
  BY <1>2
<1>4. b \in Int
  BY <1>1, <1>3
<1>5. SuppressionBackoff(f) = IF b < MaxBackoff THEN b ELSE MaxBackoff
  BY DEF SuppressionBackoff
<1> HIDE DEF b
<1>6. QED
  BY <1>1, <1>4, <1>5

\* Making room keeps a table's entries, or drops one of them.
LEMMA RoomMade ==
    ASSUME NEW S, NEW t0 \in [AltOrigins -> S \cup {NoEntry}], NEW o \in AltOrigins,
           NEW t1 \in EnsureBound(t0, o)
    PROVE  /\ t1 \in [AltOrigins -> S \cup {NoEntry}] /\ t1[o] = t0[o]
           /\ \A x \in AltOrigins : t1[x] \in {t0[x], NoEntry}
<1>1. CASE t1 = t0
  BY <1>1
<1>2. CASE \E v \in Present(t0) \ {o} : t1 = [t0 EXCEPT ![v] = NoEntry]
  <2>1. PICK v \in AltOrigins : v # o /\ t1 = [t0 EXCEPT ![v] = NoEntry]
    BY <1>2 DEF Present
  <2>2. QED
    BY <2>1
<1>3. t1 = t0 \/ \E v \in Present(t0) \ {o} : t1 = [t0 EXCEPT ![v] = NoEntry]
  BY DEF EnsureBound
<1>4. QED
  BY <1>1, <1>2, <1>3

\* The records the steps of a request make.
LEMMA RecordsTyped ==
    ASSUME NEW q \in TaskType
    PROVE  /\ [q EXCEPT !.pc = "hyper", !.at = 0] \in TaskType
           /\ [q EXCEPT !.pc = "h3", !.at = 0] \in TaskType
           /\ [q EXCEPT !.pc = "hyper", !.at = 0, !.target = NoEntry] \in TaskType
           /\ \A e \in AltSvcEntry \cup {NoEntry} :
                 /\ [q EXCEPT !.pc = "check", !.target = e] \in TaskType
                 /\ [q EXCEPT !.pc = "noteRead", !.target = e] \in TaskType
           /\ \A l \in Nat \cup {NoDeadline}, d \in BOOLEAN :
                 [q EXCEPT !.pc = "hyper", !.limit = l, !.target = NoEntry, !.taken = TRUE,
                           !.delivered = d] \in TaskType
<1> DEFINE T == AltSvcEntry \cup {NoEntry}
           L == Nat \cup {NoDeadline}
           P == {"idle", "lookup", "expired", "check", "h3", "hyper", "learn",
                 "readBack", "staleBack", "noteRead", "noteWrite"}
<1>1. TaskType = [pc : P, origin : AltOrigins, body : {"replayable", "stream"}, at : Nat,
                  target : T, total : Totals \cup {NoDeadline}, limit : L, due : L,
                  taken : BOOLEAN, delivered : BOOLEAN]
  BY DEF TaskType
<1>2. NoEntry \in T /\ 0 \in Nat
  OBVIOUS
<1>3. "hyper" \in P /\ "h3" \in P /\ "check" \in P /\ "noteRead" \in P
  OBVIOUS
<1> HIDE DEF T, L, P
<1>4. /\ [q EXCEPT !.pc = "hyper", !.at = 0] \in TaskType
      /\ [q EXCEPT !.pc = "h3", !.at = 0] \in TaskType
  BY <1>1, <1>2, <1>3
<1>5. [q EXCEPT !.pc = "hyper", !.at = 0, !.target = NoEntry] \in TaskType
  BY <1>1, <1>2, <1>3
<1>6. ASSUME NEW e \in T
      PROVE  /\ [q EXCEPT !.pc = "check", !.target = e] \in TaskType
             /\ [q EXCEPT !.pc = "noteRead", !.target = e] \in TaskType
  BY <1>1, <1>2, <1>3
<1>7. ASSUME NEW l \in L, NEW d \in BOOLEAN
      PROVE  [q EXCEPT !.pc = "hyper", !.limit = l, !.target = NoEntry, !.taken = TRUE,
                       !.delivered = d] \in TaskType
  BY <1>1, <1>2, <1>3
<1>8. QED
  BY <1>4, <1>5, <1>6, <1>7, Zenon DEF T, L

\* One request's record changes: the others keep theirs, and so does the count of those that
\* may still learn, up to this one.
LEMMA OneRequest ==
    ASSUME AltInv, NEW t \in Tasks, NEW r \in TaskType, RequestOK(r), policy' = policy,
           task' = [task EXCEPT ![t] = r]
    PROVE  /\ task' \in [Tasks -> TaskType] /\ \A u \in Tasks : RequestOK(task[u])'
           /\ Cardinality(Pending) \in Nat /\ Cardinality(Pending)' \in Nat
           /\ t \notin Pending /\ r.pc \in PendingPcs =>
                 Cardinality(Pending)' = Cardinality(Pending) + 1
           /\ t \in Pending \/ r.pc \notin PendingPcs =>
                 Cardinality(Pending)' <= Cardinality(Pending)
           /\ t \in Pending /\ r.pc \notin PendingPcs =>
                 Cardinality(Pending)' = Cardinality(Pending) - 1
<1>1. task \in [Tasks -> TaskType] /\ \A u \in Tasks : RequestOK(task[u])
  BY DEF AltInv, AltTypes
<1>2. task' \in [Tasks -> TaskType] /\ task'[t] = r /\ \A u \in Tasks \ {t} : task'[u] = task[u]
  BY <1>1
<1>3. \A u \in Tasks : RequestOK(task[u])'
  <2>1. ASSUME NEW u \in Tasks
        PROVE  RequestOK(task[u])'
    <3>1. CASE u = t
      BY <1>2, <3>1 DEF RequestOK
    <3>2. CASE u # t
      BY <1>1, <1>2, <3>2 DEF RequestOK
    <3>3. QED
      BY <3>1, <3>2
  <2>2. QED
    BY <2>1
<1>4. IsFiniteSet(Pending)
  BY AltSvcAssumption, FS_Subset DEF Pending
<1>5. Cardinality(Pending) \in Nat
  BY <1>4, FS_CardinalityType
<1>6. Pending' = IF r.pc \in PendingPcs THEN Pending \cup {t} ELSE Pending \ {t}
  BY <1>2 DEF Pending
<1>7. /\ Cardinality(Pending \cup {t}) = IF t \in Pending THEN Cardinality(Pending) ELSE Cardinality(Pending) + 1
      /\ Cardinality(Pending \ {t}) = IF t \in Pending THEN Cardinality(Pending) - 1 ELSE Cardinality(Pending)
  BY <1>4, FS_AddElement, FS_RemoveElement, Zenon
<1>8. Cardinality(Pending)' \in Nat
  <2>1. Pending' \in SUBSET Tasks
    BY DEF Pending
  <2>2. IsFiniteSet(Pending')
    BY <2>1, AltSvcAssumption, FS_Subset
  <2>3. QED
    BY <2>2, FS_CardinalityType
<1>9. QED
  BY <1>2, <1>3, <1>5, <1>6, <1>7, <1>8

\* A failure recorded for an origin: the entry is one of that generation and within the backoff.
LEMMA FailureRecorded ==
    ASSUME AltInv, NEW o \in AltOrigins, NEW g \in Generations, RecordFailure(o, g)
    PROVE  /\ supp' \in [AltOrigins -> SuppressionType \cup {NoEntry}]
           /\ failedAt' \in [Generations -> Nat \cup {NoDeadline}]
           /\ clock' = clock => FailuresRemembered'
<1> USE AltSvcAssumption
<1>1. /\ supp \in [AltOrigins -> SuppressionType \cup {NoEntry}] /\ clock \in Nat
      /\ failedAt \in [Generations -> Nat \cup {NoDeadline}] /\ FailuresRemembered
  BY DEF AltInv, AltTypes
<1> DEFINE n == IF supp[o] # NoEntry /\ supp[o].generation = g THEN supp[o].failures + 1 ELSE 1
           u == clock + SuppressionBackoff(n)
           e == [generation |-> g, failures |-> n, suppressed_until |-> u]
<1>2. n \in Nat \ {0}
  <2>1. supp[o] # NoEntry => supp[o].failures \in Nat
    BY <1>1 DEF SuppressionType
  <2>2. QED
    BY <2>1
<1>3. e = FailureEntry(o, g)
  BY DEF FailureEntry
<1> HIDE DEF n
<1>4. u \in Int /\ u <= clock + MaxBackoff
  BY <1>1, <1>2, SuppressionBackoffBounded
<1> HIDE DEF u
<1>5. e \in SuppressionType /\ e.generation = g /\ e.suppressed_until = u
  BY <1>2, <1>4 DEF SuppressionType
<1> HIDE DEF e
<1>6. PICK table \in IF supp[o] # NoEntry THEN {supp} ELSE EnsureBound(supp, o) :
          supp' = [table EXCEPT ![o] = e]
  BY <1>3 DEF RecordFailure
<1>7. table \in [AltOrigins -> SuppressionType \cup {NoEntry}] /\ \A x \in AltOrigins : table[x] \in {supp[x], NoEntry}
  BY <1>1, <1>6, RoomMade
<1>8. supp' \in [AltOrigins -> SuppressionType \cup {NoEntry}] /\ supp'[o] = e
      /\ \A x \in AltOrigins \ {o} : supp'[x] \in {supp[x], NoEntry}
  BY <1>5, <1>6, <1>7
<1>9. failedAt' \in [Generations -> Nat \cup {NoDeadline}] /\ failedAt'[g] = clock
      /\ \A x \in Generations \ {g} : failedAt'[x] = failedAt[x]
  BY <1>1 DEF RecordFailure
<1>10. ASSUME clock' = clock
       PROVE  FailuresRemembered'
  <2>1. \A x \in Generations : failedAt'[x] # NoDeadline => failedAt'[x] <= clock
    BY <1>1, <1>9 DEF FailuresRemembered
  <2>2. ASSUME NEW x \in AltOrigins, supp'[x] # NoEntry
        PROVE  /\ failedAt'[supp'[x].generation] # NoDeadline
               /\ supp'[x].suppressed_until <= failedAt'[supp'[x].generation] + MaxBackoff
    <3>1. CASE x = o
      BY <1>1, <1>4, <1>5, <1>8, <1>9, <3>1
    <3>2. CASE x # o
      <4>1. supp'[x] = supp[x] /\ supp[x] \in SuppressionType
        BY <1>1, <1>8, <2>2, <3>2
      <4>2. supp[x].generation \in Generations /\ supp[x].suppressed_until \in Int
        BY <4>1 DEF SuppressionType
      <4>3. failedAt[supp[x].generation] # NoDeadline
            /\ supp[x].suppressed_until <= failedAt[supp[x].generation] + MaxBackoff
        BY <1>1, <2>2, <4>1 DEF FailuresRemembered
      <4>4. CASE supp[x].generation = g
        <5>1. failedAt[g] \in Nat /\ failedAt[g] <= clock
          BY <1>1, <4>3, <4>4 DEF FailuresRemembered
        <5>2. QED
          BY <1>1, <1>9, <4>1, <4>2, <4>3, <4>4, <5>1
      <4>5. CASE supp[x].generation # g
        BY <1>9, <4>1, <4>2, <4>3, <4>5
      <4>6. QED
        BY <4>4, <4>5
    <3>3. QED
      BY <3>1, <3>2
  <2>3. QED
    BY <1>10, <2>1, <2>2 DEF FailuresRemembered
<1>11. QED
  BY <1>8, <1>9, <1>10

\* The failures' part survives when suppressions are only removed.
LEMMA FailuresKept ==
    ASSUME AltInv, failedAt' = failedAt, clock' \in Nat, clock <= clock',
           supp' = supp \/ (\E o \in AltOrigins : supp' = [supp EXCEPT ![o] = NoEntry])
    PROVE  supp' \in [AltOrigins -> SuppressionType \cup {NoEntry}] /\ FailuresRemembered'
<1>1. /\ supp \in [AltOrigins -> SuppressionType \cup {NoEntry}] /\ clock \in Nat
      /\ failedAt \in [Generations -> Nat \cup {NoDeadline}] /\ FailuresRemembered
  BY DEF AltInv, AltTypes
<1>2. supp' \in [AltOrigins -> SuppressionType \cup {NoEntry}]
      /\ \A x \in AltOrigins : supp'[x] \in {supp[x], NoEntry}
  BY <1>1
<1>3. \A g \in Generations : failedAt'[g] # NoDeadline => failedAt'[g] <= clock'
  BY <1>1 DEF FailuresRemembered
<1>4. QED
  BY <1>1, <1>2, <1>3 DEF FailuresRemembered

\* Every error says whether the body was committed.
LEMMA CommitKnown == \A e \in ConnectorErrors \cup {ForTotalTimeout} : e.body_committed \in BOOLEAN
<1>1. \A v : \A c \in BOOLEAN : \A d : DispatchError(v, c, d).body_committed = c
  BY DEF DispatchError
<1>2. /\ \A e \in ConnectErrors : e.body_committed = FALSE
      /\ \A e \in SendErrors : e.body_committed = FALSE
  BY <1>1 DEF ConnectErrors, SendErrors
<1>3. /\ \A e \in BrokenBodyErrors : e.body_committed = TRUE
      /\ \A e \in RequestBodyErrors : e.body_committed = TRUE
  BY <1>1 DEF BrokenBodyErrors, RequestBodyErrors
<1>4. ForTotalTimeout.body_committed = FALSE
  BY <1>1 DEF ForTotalTimeout
<1>5. QED
  BY <1>2, <1>3, <1>4 DEF ConnectorErrors

\* A step that changes one request's record, removes suppressions at the most and makes no
\* generation keeps the invariant, if the cache keeps its type.
LEMMA QuietRequest ==
    ASSUME AltInv, NEW t \in Tasks, NEW r \in TaskType, RequestOK(r),
           task' = [task EXCEPT ![t] = r], t \in Pending \/ r.pc \notin PendingPcs,
           UNCHANGED <<clock, policy, sequence, requests, failedAt>>,
           cache' \in [AltOrigins -> AltSvcEntry \cup {NoEntry}],
           supp' = supp \/ (\E o \in AltOrigins : supp' = [supp EXCEPT ![o] = NoEntry])
    PROVE  AltInv'
<1>1. AltTypes /\ GenerationsSuffice
  BY DEF AltInv
<1>2. task' \in [Tasks -> TaskType] /\ (\A u \in Tasks : RequestOK(task[u])')
      /\ Cardinality(Pending) \in Nat /\ Cardinality(Pending)' \in Nat
      /\ Cardinality(Pending)' <= Cardinality(Pending)
  BY OneRequest
<1>3. supp' \in [AltOrigins -> SuppressionType \cup {NoEntry}] /\ FailuresRemembered'
  BY <1>1, FailuresKept DEF AltTypes
<1>4. GenerationsSuffice'
  BY <1>1, <1>2, AltSvcAssumption DEF GenerationsSuffice, AltTypes
<1>5. AltTypes'
  BY <1>1, <1>2, <1>3 DEF AltTypes
<1>6. QED
  BY <1>2, <1>3, <1>4, <1>5 DEF AltInv

\* Every step of a request keeps the invariant.
LEMMA AltStep ==
    ASSUME AltInv, [AltNext]_altVars
    PROVE  AltInv'
<1> USE AltSvcAssumption
<1>t. AltTypes /\ (\A u \in Tasks : RequestOK(task[u])) /\ FailuresRemembered /\ GenerationsSuffice
  BY DEF AltInv
<1>y. /\ clock \in Nat /\ task \in [Tasks -> TaskType] /\ cache \in [AltOrigins -> AltSvcEntry \cup {NoEntry}]
      /\ supp \in [AltOrigins -> SuppressionType \cup {NoEntry}]
  BY <1>t DEF AltTypes
<1>r. ASSUME NEW t \in Tasks
      PROVE  /\ task[t] \in TaskType /\ RequestOK(task[t]) /\ task[t].origin \in AltOrigins
             /\ (t \in Pending <=> task[t].pc \in PendingPcs)
  BY <1>t, <1>y DEF TaskType, Pending
<1>i. ASSUME NEW t \in Tasks, task' = [task EXCEPT ![t] = Idle],
             UNCHANGED <<clock, policy, sequence, requests, failedAt>>,
             cache' \in [AltOrigins -> AltSvcEntry \cup {NoEntry}],
             supp' = supp \/ (\E o \in AltOrigins : supp' = [supp EXCEPT ![o] = NoEntry])
      PROVE  AltInv'
  <2>1. Idle \in TaskType /\ RequestOK(Idle) /\ Idle.pc \notin PendingPcs
    BY IdleTyped DEF PendingPcs
  <2>2. QED
    BY <1>i, <2>1, QuietRequest
<1>1. CASE UNCHANGED altVars
  BY <1>1, <1>t DEF altVars, AltInv, AltTypes, RequestOK, FailuresRemembered, GenerationsSuffice, Pending
<1>2. CASE AltTick
  <2>1. clock' = clock + 1 /\ UNCHANGED <<policy, cache, sequence, supp, task, requests, failedAt>>
    BY <1>2 DEF AltTick
  <2>2. FailuresRemembered'
    BY <1>y, <2>1, FailuresKept
  <2>3. Pending' = Pending
    BY <2>1 DEF Pending
  <2>4. QED
    BY <1>t, <2>1, <2>2, <2>3 DEF AltInv, AltTypes, RequestOK, GenerationsSuffice
<1>3. ASSUME NEW t \in Tasks, Begin(t)
      PROVE  AltInv'
  <2>1. PICK o \in AltOrigins, b \in {"replayable", "stream"}, total \in Totals :
           task' = [task EXCEPT ![t] =
               [pc |-> IF policy = "Http3Only" THEN "h3" ELSE "lookup",
                origin |-> o, body |-> b, at |-> clock, target |-> NoEntry, total |-> total,
                limit |-> Deadline(total), due |-> Deadline(total),
                taken |-> FALSE, delivered |-> FALSE]]
    BY <1>3 DEF Begin
  <2> DEFINE p == IF policy = "Http3Only" THEN "h3" ELSE "lookup"
             d == Deadline(total)
             r == [pc |-> p, origin |-> o, body |-> b, at |-> clock, target |-> NoEntry, total |-> total,
                   limit |-> d, due |-> d, taken |-> FALSE, delivered |-> FALSE]
  <2>2. d \in Nat \cup {NoDeadline} /\ p \in {"h3", "lookup"} /\ (policy = "Http3Only" => p = "h3")
    BY <1>y, DeadlineTyped
  <2>3. task' = [task EXCEPT ![t] = r]
    BY <2>1
  <2> HIDE DEF p, d
  <2>4. r \in TaskType
    BY <1>y, <2>2 DEF TaskType
  <2>5. RequestOK(r) /\ r.pc \in PendingPcs
    BY <2>2 DEF RequestOK, PendingPcs
  <2>6. t \notin Pending
    BY <1>3, <1>r DEF Begin, At, PendingPcs
  <2> HIDE DEF r
  <2>7. requests < MaxRequests /\ requests' = requests + 1
        /\ UNCHANGED <<clock, policy, cache, sequence, supp, failedAt>>
    BY <1>3 DEF Begin
  <2>8. task' \in [Tasks -> TaskType] /\ (\A u \in Tasks : RequestOK(task[u])')
        /\ Cardinality(Pending)' = Cardinality(Pending) + 1 /\ Cardinality(Pending) \in Nat
    BY <2>3, <2>4, <2>5, <2>6, <2>7, OneRequest
  <2>9. FailuresRemembered'
    BY <1>y, <2>7, FailuresKept
  <2>10. GenerationsSuffice'
    BY <1>t, <2>7, <2>8 DEF GenerationsSuffice, AltTypes
  <2>11. AltTypes'
    BY <1>t, <2>7, <2>8 DEF AltTypes
  <2>12. QED
    BY <2>8, <2>9, <2>10, <2>11 DEF AltInv
<1>4. ASSUME NEW t \in Tasks, ReadEntry(t)
      PROVE  AltInv'
  <2> DEFINE e == cache[task[t].origin]
             r == IF e = NoEntry THEN [task[t] EXCEPT !.pc = "hyper", !.at = 0]
                  ELSE IF IsExpired(e, task[t].at) THEN [task[t] EXCEPT !.pc = "expired"]
                  ELSE [task[t] EXCEPT !.pc = "check", !.target = e]
  <2>1. task' = [task EXCEPT ![t] = r] /\ task[t].pc = "lookup"
        /\ UNCHANGED <<clock, policy, cache, sequence, supp, requests, failedAt>>
    BY <1>4 DEF ReadEntry, At
  <2>2. e \in AltSvcEntry \cup {NoEntry}
    BY <1>y, <1>r
  <2> HIDE DEF e
  <2>3. r \in TaskType
    <3>1. [task[t] EXCEPT !.pc = "expired"] \in TaskType
      BY <1>r DEF TaskType
    <3>2. QED
      BY <1>r, <2>2, <3>1, RecordsTyped
  <2>4. RequestOK(r) /\ r.pc \in PendingPcs
    BY <1>r, <2>1 DEF TaskType, RequestOK, PendingPcs
  <2>5. t \in Pending
    BY <1>r, <2>1 DEF PendingPcs
  <2> HIDE DEF r
  <2>6. QED
    BY <1>y, <2>1, <2>3, <2>4, <2>5, QuietRequest
<1>5. ASSUME NEW t \in Tasks, RemoveExpired(t)
      PROVE  AltInv'
  <2> DEFINE r == [task[t] EXCEPT !.pc = "hyper", !.at = 0]
  <2>1. task' = [task EXCEPT ![t] = r] /\ task[t].pc = "expired"
        /\ cache' = [cache EXCEPT ![task[t].origin] = NoEntry]
        /\ UNCHANGED <<clock, policy, sequence, supp, requests, failedAt>>
    BY <1>5, <1>y DEF RemoveExpired, At
  <2>2. cache' \in [AltOrigins -> AltSvcEntry \cup {NoEntry}]
    BY <1>y, <1>r, <2>1
  <2>3. r \in TaskType
    BY <1>r, RecordsTyped
  <2>4. RequestOK(r) /\ t \in Pending
    BY <1>r, <2>1 DEF TaskType, RequestOK, PendingPcs
  <2> HIDE DEF r
  <2>5. QED
    BY <2>1, <2>2, <2>3, <2>4, QuietRequest
<1>6. ASSUME NEW t \in Tasks, CheckSuppressed(t)
      PROVE  AltInv'
  <2>0. task[t].pc = "check" /\ t \in Pending
        /\ UNCHANGED <<clock, policy, cache, sequence, supp, requests, failedAt>>
    BY <1>6, <1>r DEF CheckSuppressed, At, PendingPcs
  <2>1. CASE task' = [task EXCEPT ![t].pc = "hyper", ![t].at = 0, ![t].target = NoEntry]
    <3> DEFINE r == [task[t] EXCEPT !.pc = "hyper", !.at = 0, !.target = NoEntry]
    <3>1. task' = [task EXCEPT ![t] = r]
      BY <1>y, <2>1
    <3>2. r \in TaskType
      BY <1>r, RecordsTyped
    <3>3. RequestOK(r)
      BY <1>r, <2>0 DEF TaskType, RequestOK
    <3> HIDE DEF r
    <3>4. QED
      BY <1>y, <2>0, <3>1, <3>2, <3>3, QuietRequest
  <2>2. CASE task' = [task EXCEPT ![t].pc = "h3", ![t].at = 0]
    <3> DEFINE r == [task[t] EXCEPT !.pc = "h3", !.at = 0]
    <3>1. task' = [task EXCEPT ![t] = r]
      BY <1>y, <2>2
    <3>2. r \in TaskType
      BY <1>r, RecordsTyped
    <3>3. RequestOK(r)
      BY <1>r, <2>0 DEF TaskType, RequestOK
    <3> HIDE DEF r
    <3>4. QED
      BY <1>y, <2>0, <3>1, <3>2, <3>3, QuietRequest
  <2>3. QED
    BY <1>6, <2>1, <2>2 DEF CheckSuppressed
<1>7. ASSUME NEW t \in Tasks, H3Succeeds(t) \/ HyperAnswers(t)
      PROVE  AltInv'
  <2> DEFINE r == [Idle EXCEPT !.pc = "learn", !.origin = task[t].origin, !.at = clock]
  <2>1. task' = [task EXCEPT ![t] = r] /\ task[t].pc \in {"h3", "hyper"}
        /\ UNCHANGED <<clock, policy, cache, sequence, requests, failedAt>>
        /\ (supp' = supp \/ supp' = [supp EXCEPT ![task[t].origin] = NoEntry])
    BY <1>7 DEF H3Succeeds, HyperAnswers, At
  <2>2. r \in TaskType
    BY <1>r, <1>y, IdleTyped DEF TaskType
  <2>3. RequestOK(r) /\ t \in Pending
    BY <1>r, <1>y, <2>1, IdleTyped DEF RequestOK, PendingPcs, TaskType
  <2> HIDE DEF r
  <2>4. QED
    BY <1>y, <1>r, <2>1, <2>2, <2>3, QuietRequest
<1>8. ASSUME NEW t \in Tasks, H3Fails(t)
      PROVE  AltInv'
  <2>0. task[t].pc = "h3" /\ UNCHANGED <<clock, policy, cache, sequence, requests>> /\ t \in Pending
    BY <1>8, <1>r DEF H3Fails, At, PendingPcs
  <2>1. PICK e \in ConnectorErrors \cup {ForTotalTimeout} :
        /\ IF Suppressible(t, e)
           THEN RecordFailure(task[t].origin, task[t].target.generation)
           ELSE UNCHANGED <<supp, failedAt>>
        /\ task' = [task EXCEPT ![t] =
               IF CanFallback(t, e)
               THEN [task[t] EXCEPT !.pc = "hyper", !.limit = FallbackLimit(t),
                              !.target = NoEntry, !.taken = TRUE, !.delivered = e.body_committed]
               ELSE Idle]
    BY <1>8 DEF H3Fails
  <2> DEFINE l == FallbackLimit(t)
             f == [task[t] EXCEPT !.pc = "hyper", !.limit = l, !.target = NoEntry, !.taken = TRUE,
                                  !.delivered = e.body_committed]
             r == IF CanFallback(t, e) THEN f ELSE Idle
  <2>2. task' = [task EXCEPT ![t] = r]
    BY <2>1
  <2>3. r \in TaskType /\ RequestOK(r)
    <3>1. CASE ~CanFallback(t, e)
      BY <3>1, IdleTyped
    <3>2. CASE CanFallback(t, e)
      <4>1. task[t].target # NoEntry /\ task[t].body # "stream" /\ ~e.body_committed
        BY <3>2 DEF CanFallback, Explicit, AllowsFallback, SafeForFallback
      <4>2. e.body_committed \in BOOLEAN
        BY CommitKnown
      <4>3. l \in Nat \cup {NoDeadline}
        <5>1. task[t].total \in Totals \cup {NoDeadline}
          BY <1>r DEF TaskType
        <5>2. QED
          BY <1>y, <5>1, DeadlineTyped DEF FallbackLimit
      <4> HIDE DEF l
      <4>4. f \in TaskType
        BY <1>r, <4>2, <4>3, RecordsTyped
      <4>5. f.pc = "hyper" /\ f.body = task[t].body /\ f.delivered = e.body_committed
        BY <1>r DEF TaskType
      <4>6. policy # "Http3Only"
        BY <1>r, <2>0, <4>1 DEF RequestOK
      <4> HIDE DEF f
      <4>7. QED
        BY <3>2, <4>1, <4>4, <4>5, <4>6 DEF RequestOK
    <3>3. QED
      BY <3>1, <3>2
  <2> HIDE DEF r
  <2>4. CASE ~Suppressible(t, e)
    BY <1>y, <2>0, <2>1, <2>2, <2>3, <2>4, QuietRequest
  <2>5. CASE Suppressible(t, e)
    <3>1. task[t].target \in AltSvcEntry
      BY <1>r, <2>5 DEF Suppressible, Explicit, TaskType
    <3>2. task[t].target.generation \in Generations
      BY <3>1 DEF AltSvcEntry
    <3>3. /\ supp' \in [AltOrigins -> SuppressionType \cup {NoEntry}]
          /\ failedAt' \in [Generations -> Nat \cup {NoDeadline}] /\ FailuresRemembered'
      BY <1>r, <2>0, <2>1, <2>5, <3>2, FailureRecorded
    <3>4. task' \in [Tasks -> TaskType] /\ (\A u \in Tasks : RequestOK(task[u])')
          /\ Cardinality(Pending)' <= Cardinality(Pending)
          /\ Cardinality(Pending) \in Nat /\ Cardinality(Pending)' \in Nat
      BY <2>0, <2>2, <2>3, OneRequest
    <3>5. GenerationsSuffice'
      BY <1>t, <2>0, <3>4 DEF GenerationsSuffice, AltTypes
    <3>6. AltTypes'
      BY <1>t, <2>0, <3>3, <3>4 DEF AltTypes
    <3>7. QED
      BY <3>3, <3>4, <3>5, <3>6 DEF AltInv
  <2>6. QED
    BY <2>4, <2>5
<1>9. ASSUME NEW t \in Tasks, HyperFails(t) \/ Cancel(t)
      PROVE  AltInv'
  BY <1>9, <1>i, <1>y DEF HyperFails, Cancel
<1>10. ASSUME NEW t \in Tasks, Learn(t)
       PROVE  AltInv'
  <2> DEFINE o == task[t].origin
  <2>0. task[t].pc = "learn" /\ UNCHANGED <<clock, policy, supp, requests, failedAt>> /\ t \in Pending
        /\ o \in AltOrigins /\ task[t].at \in Nat
    BY <1>10, <1>r DEF Learn, At, PendingPcs, TaskType
  <2>1. CASE \/ task' = [task EXCEPT ![t] = Idle] /\ UNCHANGED <<cache, sequence>>
             \/ task' = [task EXCEPT ![t] = Idle] /\ cache' = [cache EXCEPT ![o] = NoEntry] /\ UNCHANGED sequence
    <3>1. cache' \in [AltOrigins -> AltSvcEntry \cup {NoEntry}]
      BY <1>y, <2>0, <2>1
    <3>2. QED
      BY <1>i, <2>0, <2>1, <3>1
  <2>2. ASSUME NEW h \in Alternatives, task' = [task EXCEPT ![t].pc = "readBack"],
               \/ cache' = Refreshed(o, h, task[t].at) /\ UNCHANGED sequence
                  /\ cache[o] # NoEntry
               \/ /\ \E table \in EnsureBound(cache, o) :
                         cache' = [table EXCEPT ![o] = NewEntry(o, h, task[t].at)]
                  /\ sequence' = sequence + 1
        PROVE  AltInv'
    <3> DEFINE r == [task[t] EXCEPT !.pc = "readBack"]
               x == task[t].at + h.ma
    <3>1. task' = [task EXCEPT ![t] = r]
      BY <1>y, <2>2
    <3>2. r \in TaskType
      BY <1>r DEF TaskType
    <3>3. RequestOK(r) /\ r.pc \notin PendingPcs
      BY <1>r DEF TaskType, RequestOK, PendingPcs
    <3>4. x \in Nat /\ h.endpoint \in Endpoints
      <4>1. h.ma \in Nat /\ h.endpoint \in Endpoints
        BY DEF Alternatives
      <4>2. QED
        BY <2>0, <4>1
    <3> HIDE DEF r
    <3>5. CASE cache' = Refreshed(o, h, task[t].at) /\ UNCHANGED sequence /\ cache[o] # NoEntry
      <4> DEFINE y == IF x > cache[o].expires_at THEN x ELSE cache[o].expires_at
                 e == [cache[o] EXCEPT !.expires_at = y]
      <4>1. cache' = [cache EXCEPT ![o] = e]
        BY <1>y, <2>0, <3>5 DEF Refreshed
      <4>2. cache[o] \in AltSvcEntry
        BY <1>y, <2>0, <3>5
      <4>3. y \in Nat
        BY <3>4, <4>2 DEF AltSvcEntry
      <4> HIDE DEF y
      <4>4. e \in AltSvcEntry
        BY <4>2, <4>3 DEF AltSvcEntry
      <4> HIDE DEF e
      <4>5. cache' \in [AltOrigins -> AltSvcEntry \cup {NoEntry}]
        BY <1>y, <2>0, <4>1, <4>4
      <4>6. QED
        BY <2>0, <3>1, <3>2, <3>3, <3>5, <4>5, QuietRequest
    <3>6. CASE /\ \E table \in EnsureBound(cache, o) :
                      cache' = [table EXCEPT ![o] = NewEntry(o, h, task[t].at)]
               /\ sequence' = sequence + 1
      <4> DEFINE e == [generation |-> sequence, endpoint |-> h.endpoint, expires_at |-> x]
      <4>1. task' \in [Tasks -> TaskType] /\ (\A u \in Tasks : RequestOK(task[u])')
            /\ Cardinality(Pending)' = Cardinality(Pending) - 1
            /\ Cardinality(Pending) \in Nat /\ Cardinality(Pending)' \in Nat
        BY <2>0, <3>1, <3>2, <3>3, OneRequest
      <4>2. sequence \in Generations /\ sequence + 1 \in 1 .. MaxRequests + 1
        BY <1>t, <4>1 DEF GenerationsSuffice, AltTypes, Generations
      <4>3. e \in AltSvcEntry /\ e = NewEntry(o, h, task[t].at)
        BY <3>4, <4>2 DEF AltSvcEntry, NewEntry
      <4> HIDE DEF e
      <4>4. PICK table \in EnsureBound(cache, o) : cache' = [table EXCEPT ![o] = e]
        BY <3>6, <4>3
      <4>5. table \in [AltOrigins -> AltSvcEntry \cup {NoEntry}]
        BY <1>y, <2>0, <4>4, RoomMade
      <4>6. cache' \in [AltOrigins -> AltSvcEntry \cup {NoEntry}]
        BY <2>0, <4>3, <4>4, <4>5
      <4>7. FailuresRemembered'
        BY <1>y, <2>0, FailuresKept
      <4>8. GenerationsSuffice'
        BY <1>t, <2>0, <3>6, <4>1 DEF GenerationsSuffice, AltTypes
      <4>9. AltTypes'
        BY <1>t, <2>0, <3>6, <4>1, <4>2, <4>6 DEF AltTypes
      <4>10. QED
        BY <4>1, <4>7, <4>8, <4>9 DEF AltInv
    <3>7. QED
      BY <2>2, <3>5, <3>6
  <2>3. QED
    BY <1>10, <2>1, <2>2 DEF Learn
<1>11. ASSUME NEW t \in Tasks, ReadBack(t)
       PROVE  AltInv'
  <2> DEFINE e == cache[task[t].origin]
             r == IF e = NoEntry THEN Idle
                  ELSE IF IsExpired(e, task[t].at) THEN [task[t] EXCEPT !.pc = "staleBack"]
                  ELSE [task[t] EXCEPT !.pc = "noteRead", !.target = e]
  <2>1. task' = [task EXCEPT ![t] = r]
        /\ UNCHANGED <<clock, policy, cache, sequence, supp, requests, failedAt>>
    BY <1>11 DEF ReadBack
  <2>2. e \in AltSvcEntry \cup {NoEntry}
    BY <1>y, <1>r
  <2> HIDE DEF e
  <2>3. r \in TaskType
    <3>1. [task[t] EXCEPT !.pc = "staleBack"] \in TaskType
      BY <1>r DEF TaskType
    <3>2. QED
      BY <1>r, <2>2, <3>1, IdleTyped, RecordsTyped
  <2>4. RequestOK(r) /\ r.pc \notin PendingPcs
    BY <1>r, IdleTyped DEF TaskType, RequestOK, PendingPcs
  <2> HIDE DEF r
  <2>5. QED
    BY <1>y, <2>1, <2>3, <2>4, QuietRequest
<1>12. ASSUME NEW t \in Tasks, RemoveStaleBack(t)
       PROVE  AltInv'
  <2>1. cache' \in [AltOrigins -> AltSvcEntry \cup {NoEntry}]
    BY <1>12, <1>y, <1>r DEF RemoveStaleBack
  <2>2. QED
    BY <1>12, <1>i, <2>1 DEF RemoveStaleBack
<1>13. ASSUME NEW t \in Tasks, NoteRead(t)
       PROVE  AltInv'
  <2> DEFINE r == [task[t] EXCEPT !.pc = "noteWrite"]
  <2>1. task' = [task EXCEPT ![t] = r] \/ task' = [task EXCEPT ![t] = Idle]
    BY <1>13 DEF NoteRead
  <2>2. UNCHANGED <<clock, policy, cache, sequence, supp, requests, failedAt>>
    BY <1>13 DEF NoteRead
  <2>3. r \in TaskType
    BY <1>r DEF TaskType
  <2>4. RequestOK(r) /\ r.pc \notin PendingPcs
    BY <1>r DEF TaskType, RequestOK, PendingPcs
  <2> HIDE DEF r
  <2>5. QED
    BY <1>i, <1>y, <2>1, <2>2, <2>3, <2>4, QuietRequest
<1>14. ASSUME NEW t \in Tasks, NoteWrite(t)
       PROVE  AltInv'
  BY <1>14, <1>i, <1>r, <1>y DEF NoteWrite
<1>15. QED
  BY <1>1, <1>2, <1>3, <1>4, <1>5, <1>6, <1>7, <1>8, <1>9, <1>10, <1>11, <1>12, <1>13, <1>14
     DEF AltNext, Step

\* For any callers, origins and advertisements: the invariant.
THEOREM AltInvariant == AltSpec => []AltInv
<1>1. AltInit => AltInv
  <2> SUFFICES ASSUME AltInit
               PROVE  AltInv
    OBVIOUS
  <2> USE AltSvcAssumption
  <2>1. /\ clock = 0 /\ policy \in Policies /\ cache = [o \in AltOrigins |-> NoEntry] /\ sequence = 1
        /\ supp = [o \in AltOrigins |-> NoEntry] /\ failedAt = [g \in Generations |-> NoDeadline]
        /\ task = [t \in Tasks |-> Idle] /\ requests = 0
    BY DEF AltInit
  <2>2. Idle \in TaskType /\ RequestOK(Idle) /\ Idle.pc \notin PendingPcs
    BY IdleTyped DEF PendingPcs
  <2>3. AltTypes
    <3>1. task \in [Tasks -> TaskType]
      BY <2>1, <2>2
    <3>2. QED
      BY <2>1, <3>1 DEF AltTypes
  <2>4. \A t \in Tasks : RequestOK(task[t])
    BY <2>1, <2>2
  <2>5. Pending = {}
    BY <2>1, <2>2 DEF Pending
  <2>6. GenerationsSuffice
    BY <2>1, <2>5, FS_EmptySet DEF GenerationsSuffice
  <2>7. FailuresRemembered
    BY <2>1 DEF FailuresRemembered
  <2>8. QED
    BY <2>3, <2>4, <2>6, <2>7 DEF AltInv
<1>2. AltInv /\ [AltNext]_altVars => AltInv'
  BY AltStep
<1>3. QED
  BY <1>1, <1>2, PTL DEF AltSpec

\* A second transport gets a request only where send_h3_route may fall back: never under
\* Http3Only, never after part of the body was delivered, never with a streamed body.
THEOREM FallbackIsAllowed == AltSpec => []FallbackAllowed
<1>1. AltInv => FallbackAllowed
  BY DEF AltInv, FallbackAllowed, RequestOK, At
<1>2. QED
  BY <1>1, AltInvariant, PTL

\* A re-advertisement never shortens the life of its entry, in whatever order responses learn,
\* and a lookup passes over an alternative it found only after a recent failure of that
\* generation.  An entry may be removed at any time.
THEOREM AdvertisementsPrevail == AltSpec => AdvertisementPrevails
<1> DEFINE Lives == \A o \in AltOrigins :
                        /\ cache[o] # NoEntry /\ cache'[o] # NoEntry
                        /\ cache[o].endpoint = cache'[o].endpoint
                        => cache'[o].expires_at >= cache[o].expires_at
           Passes == \A t \in Tasks :
                        At(t, "check") /\ task'[t].pc = "hyper" =>
                            LET f == failedAt[task[t].target.generation]
                            IN  f # NoDeadline /\ task[t].at < f + MaxBackoff
<1>1. ASSUME AltInv, [AltNext]_altVars
      PROVE  Lives
  <2> USE AltSvcAssumption
  <2>y. cache \in [AltOrigins -> AltSvcEntry \cup {NoEntry}] /\ task \in [Tasks -> TaskType]
    BY <1>1 DEF AltInv, AltTypes
  <2>n. \A o \in AltOrigins : cache[o] # NoEntry => cache[o].expires_at \in Nat
    BY <2>y DEF AltSvcEntry
  <2>k. ASSUME \A o \in AltOrigins : cache'[o] \in {cache[o], NoEntry}
        PROVE  Lives
    BY <2>k, <2>n
  <2>1. CASE UNCHANGED cache
    BY <2>1, <2>k
  <2>2. ASSUME NEW t \in Tasks, RemoveExpired(t) \/ RemoveStaleBack(t)
        PROVE  Lives
    BY <2>2, <2>k, <2>y DEF RemoveExpired, RemoveStaleBack
  <2>3. ASSUME NEW t \in Tasks, Learn(t)
        PROVE  Lives
    <3> DEFINE o == task[t].origin
    <3>0. o \in AltOrigins /\ task[t].at \in Nat
      BY <2>y DEF TaskType
    <3>1. CASE UNCHANGED cache \/ cache' = [cache EXCEPT ![o] = NoEntry]
      BY <2>k, <2>y, <3>1
    <3>2. ASSUME NEW h \in Alternatives, cache[o] # NoEntry, cache' = Refreshed(o, h, task[t].at)
          PROVE  Lives
      <4> DEFINE x == task[t].at + h.ma
                 y == IF x > cache[o].expires_at THEN x ELSE cache[o].expires_at
                 e == [cache[o] EXCEPT !.expires_at = y]
      <4>1. cache' = [cache EXCEPT ![o] = e]
        BY <2>y, <3>0, <3>2 DEF Refreshed
      <4>2. x \in Nat /\ cache[o].expires_at \in Nat
        <5>1. h.ma \in Nat
          BY DEF Alternatives
        <5>2. QED
          BY <2>n, <3>0, <3>2, <5>1
      <4>3. y >= cache[o].expires_at
        BY <4>2
      <4>4. e.expires_at = y
        BY <2>y, <3>0, <3>2 DEF AltSvcEntry
      <4> HIDE DEF y, e
      <4>5. cache'[o].expires_at = y /\ \A z \in AltOrigins \ {o} : cache'[z] = cache[z]
        BY <2>y, <3>0, <4>1, <4>4
      <4>6. QED
        BY <2>n, <4>3, <4>5
    <3>3. ASSUME NEW h \in Alternatives, ~(cache[o] # NoEntry /\ cache[o].endpoint = h.endpoint),
                 NEW table \in EnsureBound(cache, o),
                 cache' = [table EXCEPT ![o] = NewEntry(o, h, task[t].at)]
          PROVE  Lives
      <4>1. table \in [AltOrigins -> AltSvcEntry \cup {NoEntry}]
            /\ \A z \in AltOrigins : table[z] \in {cache[z], NoEntry}
        BY <2>y, <3>0, <3>3, RoomMade
      <4>2. cache'[o].endpoint = h.endpoint
        BY <3>0, <3>3, <4>1 DEF NewEntry
      <4>3. \A z \in AltOrigins \ {o} : cache'[z] \in {cache[z], NoEntry}
        BY <3>3, <4>1
      <4>4. QED
        BY <2>n, <3>3, <4>2, <4>3
    <3>4. QED
      BY <2>3, <3>1, <3>2, <3>3 DEF Learn
  <2>4. QED
    BY <1>1, <2>1, <2>2, <2>3
       DEF AltNext, Step, altVars, Begin, ReadEntry, CheckSuppressed, H3Succeeds, H3Fails, HyperAnswers,
           HyperFails, Cancel, ReadBack, NoteRead, NoteWrite, AltTick
<1>2. ASSUME AltInv, [AltNext]_altVars
      PROVE  Passes
  <2> SUFFICES ASSUME NEW t \in Tasks, task[t].pc = "check", task'[t].pc = "hyper"
               PROVE  /\ failedAt[task[t].target.generation] # NoDeadline
                      /\ task[t].at < failedAt[task[t].target.generation] + MaxBackoff
    BY DEF At
  <2>y. /\ supp \in [AltOrigins -> SuppressionType \cup {NoEntry}] /\ task \in [Tasks -> TaskType]
        /\ failedAt \in [Generations -> Nat \cup {NoDeadline}] /\ FailuresRemembered
    BY <1>2 DEF AltInv, AltTypes
  <2>1. CheckSuppressed(t)
    <3>1. ASSUME NEW u \in Tasks, NEW r, task' = [task EXCEPT ![u] = r], task[u].pc # "check"
          PROVE  FALSE
      BY <2>y, <3>1
    <3>2. \A u \in Tasks : CheckSuppressed(u) => u = t
      <4> SUFFICES ASSUME NEW u \in Tasks, CheckSuppressed(u), u # t
                   PROVE  FALSE
        OBVIOUS
      <4>1. task'[t] = task[t]
        BY <2>y DEF CheckSuppressed
      <4>2. QED
        BY <4>1
    <3>3. task' # task
      OBVIOUS
    <3>4. ASSUME NEW u \in Tasks
          PROVE  /\ ~Begin(u) /\ ~ReadEntry(u) /\ ~H3Succeeds(u) /\ ~H3Fails(u) /\ ~HyperAnswers(u)
                 /\ ~HyperFails(u) /\ ~Cancel(u) /\ ~ReadBack(u) /\ ~RemoveStaleBack(u)
                 /\ ~NoteRead(u) /\ ~NoteWrite(u)
      <4>1. ~Begin(u)
        BY <3>1 DEF Begin, At
      <4>2. ~ReadEntry(u) /\ ~H3Succeeds(u) /\ ~HyperAnswers(u) /\ ~HyperFails(u) /\ ~Cancel(u)
        BY <3>1 DEF ReadEntry, H3Succeeds, HyperAnswers, HyperFails, Cancel, At
      <4>3. ~H3Fails(u)
        BY <3>1 DEF H3Fails, At
      <4>4. ~ReadBack(u) /\ ~RemoveStaleBack(u) /\ ~NoteRead(u) /\ ~NoteWrite(u)
        BY <3>1 DEF ReadBack, RemoveStaleBack, NoteRead, NoteWrite, At
      <4>5. QED
        BY <4>1, <4>2, <4>3, <4>4
    <3>5. ASSUME NEW u \in Tasks
          PROVE  ~RemoveExpired(u) /\ ~Learn(u)
      <4>1. ~RemoveExpired(u)
        <5> SUFFICES ASSUME RemoveExpired(u)
                     PROVE  FALSE
          OBVIOUS
        <5>1. u # t /\ task' = [task EXCEPT ![u].pc = "hyper", ![u].at = 0]
          BY DEF RemoveExpired, At
        <5>2. QED
          BY <2>y, <5>1
      <4>2. ~Learn(u)
        <5> SUFFICES ASSUME Learn(u)
                     PROVE  FALSE
          OBVIOUS
        <5>1. u # t
          BY DEF Learn, At
        <5>2. task' = [task EXCEPT ![u] = Idle] \/ task' = [task EXCEPT ![u].pc = "readBack"]
          BY DEF Learn
        <5>3. QED
          BY <2>y, <5>1, <5>2
      <4>3. QED
        BY <4>1, <4>2
    <3>6. QED
      BY <1>2, <3>2, <3>3, <3>4, <3>5 DEF AltNext, Step, AltTick, altVars
  <2>2. IsSuppressed(task[t].origin, task[t].target.generation, task[t].at)
    <3>1. CASE task' = [task EXCEPT ![t].pc = "h3", ![t].at = 0]
      <4>1. task'[t].pc = "h3"
        BY <2>y, <3>1 DEF TaskType
      <4>2. QED
        BY <4>1
    <3>2. QED
      BY <2>1, <3>1 DEF CheckSuppressed
  <2> DEFINE s == supp[task[t].origin]
             g == task[t].target.generation
  <2>3. s # NoEntry /\ s.generation = g /\ task[t].at < s.suppressed_until
    BY <2>2 DEF IsSuppressed
  <2>4. task[t].origin \in AltOrigins /\ task[t].at \in Nat
    BY <2>y DEF TaskType
  <2>5. s.generation \in Generations /\ s.suppressed_until \in Int
    BY <2>y, <2>3, <2>4 DEF SuppressionType
  <2>6. failedAt[s.generation] # NoDeadline /\ s.suppressed_until <= failedAt[s.generation] + MaxBackoff
    BY <2>y, <2>3, <2>4 DEF FailuresRemembered
  <2>7. failedAt[g] \in Nat /\ MaxBackoff \in Nat
    BY <2>y, <2>3, <2>5, <2>6, AltSvcAssumption
  <2> HIDE DEF s
  <2>8. QED
    BY <2>3, <2>4, <2>5, <2>6, <2>7
<1>3. AltInv /\ [AltNext]_altVars => [Lives /\ Passes]_altVars
  BY <1>1, <1>2
<1>4. QED
  BY <1>3, AltInvariant, PTL DEF AltSpec, AdvertisementPrevails
=============================================================================
