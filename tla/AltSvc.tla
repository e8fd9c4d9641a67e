------------------------------- MODULE AltSvc -------------------------------
(***************************************************************************)
(* Alternative services and the HTTP/3 dispatch: the Alt-Svc cache and the *)
(* broken-route suppressor (transport/alt_svc.rs) as the requests of one   *)
(* client share them (pipeline/h3_dispatch.rs).                            *)
(*                                                                         *)
(* Each table has a lock of its own that is taken and released by every    *)
(* call, so a request reads, decides and writes in separate steps, and the *)
(* instant it compares with is the one it captured first.  A request looks *)
(* for a fresh alternative, tries it over HTTP/3 unless it is suppressed,  *)
(* records how that went, may fall back to HTTP/1 or 2 once, and learns    *)
(* from the Alt-Svc header of the response.  The header is what parsing    *)
(* makes of it: nothing, a value over the size bound, "clear", no usable   *)
(* alternative, or the first usable h3 alternative.                        *)
(***************************************************************************)
EXTENDS Naturals, FiniteSets, H3Outcomes

CONSTANTS Tasks,         \* concurrent callers, each with one request (hop) at a time
          MaxRequests,   \* bound: requests
          AltOrigins,    \* authenticated https origins
          Endpoints,     \* alternative authorities (host and port)
          Ages,          \* non-zero ma values, in ticks
          MaxEntries,    \* ALTSVC_CACHE_MAX_ENTRIES, SUPPRESSION_MAX_ENTRIES
          Base,          \* SUPPRESSION_BASE, in ticks
          MaxBackoff,    \* SUPPRESSION_MAX, in ticks
          Totals,        \* total timeouts of the requests (NoDeadline: none)
          Policies,      \* the client's http_version_policy
          AltMaxTime,    \* bound: the clock stops here unless a deadline is due later
          NoDeadline

ASSUME AltSvcAssumption ==
    /\ Ages \subseteq Nat \ {0}
    /\ MaxEntries \in Nat \ {0} /\ Base \in Nat \ {0} /\ MaxBackoff \in Nat /\ Base <= MaxBackoff
    /\ Totals \subseteq Nat \cup {NoDeadline} /\ AltMaxTime \in Nat /\ MaxRequests \in Nat
    /\ Policies \subseteq {"Http3Only", "Auto"}
    /\ IsFiniteSet(Tasks) /\ AltOrigins # {}
    /\ NoDeadline \notin Nat

VARIABLES clock,
          policy,        \* fixed when the client is built
          cache,         \* AltSvcCache.entries
          sequence,      \* AltSvcCache.sequence
          supp,          \* BrokenRouteSuppressor.entries
          task,          \* what each request holds
          requests,      \* how many were started
          failedAt       \* history: per generation, when its last failure was recorded

altVars == <<clock, policy, cache, sequence, supp, task, requests, failedAt>>

\* One learning per request at the most creates a generation.
Generations == 1 .. MaxRequests
NoEntry == [generation |-> 0]
AltSvcEntry == [generation : Generations, endpoint : Endpoints, expires_at : Nat]
SuppressionEntry == [generation : Generations, failures : Nat \ {0}, suppressed_until : Nat]

\* What parsing makes of the Alt-Svc header: nothing to learn, nothing usable to
\* keep, or the first h3 alternative with an authority and a non-zero ma.
Silent == {"absent", "oversize"}
Clearing == {"clear", "unusable"}
Alternatives == [endpoint : Endpoints, ma : Ages]

\* A request: pc is the lock or the await it is at, body whether it can be
\* replayed, at the captured instant, target the alternative it uses, limit
\* the deadline of the await it is in, due the one its total timeout sets,
\* taken whether an HTTP/3 attempt consumed its body, delivered whether that
\* attempt may have delivered some of it.
TaskType == [pc : {"idle", "lookup", "expired", "check", "h3", "hyper", "learn",
                   "readBack", "staleBack", "noteRead", "noteWrite"},
             origin : AltOrigins, body : {"replayable", "stream"}, at : Nat,
             target : AltSvcEntry \cup {NoEntry}, total : Totals \cup {NoDeadline},
             limit : Nat \cup {NoDeadline}, due : Nat \cup {NoDeadline}, taken : BOOLEAN, delivered : BOOLEAN]

\* A caller without a request.
Idle == [pc |-> "idle", origin |-> CHOOSE o \in AltOrigins : TRUE, body |-> "stream", at |-> 0,
         target |-> NoEntry, total |-> NoDeadline, limit |-> NoDeadline, due |-> NoDeadline,
         taken |-> FALSE, delivered |-> FALSE]

AltTypeOK ==
    /\ clock \in Nat
    /\ policy \in Policies
    /\ cache \in [AltOrigins -> AltSvcEntry \cup {NoEntry}]
    /\ sequence \in 1 .. MaxRequests + 1
    /\ supp \in [AltOrigins -> SuppressionEntry \cup {NoEntry}]
    /\ task \in [Tasks -> TaskType]
    /\ requests \in 0 .. MaxRequests
    /\ failedAt \in [Generations -> Nat \cup {NoDeadline}]

AltInit ==
    /\ clock = 0 /\ policy \in Policies
    /\ cache = [o \in AltOrigins |-> NoEntry] /\ sequence = 1
    /\ supp = [o \in AltOrigins |-> NoEntry]
    /\ failedAt = [g \in Generations |-> NoDeadline]
    /\ task = [t \in Tasks |-> Idle] /\ requests = 0
-----------------------------------------------------------------------------
At(t, pc) == task[t].pc = pc
Deadline(total) == IF total = NoDeadline THEN NoDeadline ELSE clock + total
Overdue(limit) == limit # NoDeadline /\ clock >= limit
IsExpired(entry, at) == at >= entry.expires_at
Present(table) == {o \in AltOrigins : table[o] # NoEntry}

\* ensure_bound_locked, on either table: one arbitrary other entry goes.
EnsureBound(table, except) ==
    IF Cardinality(Present(table)) < MaxEntries THEN {table}
    ELSE LET victims == Present(table) \ {except}
         IN  IF victims = {} THEN {table}
             ELSE {[table EXCEPT ![v] = NoEntry] : v \in victims}

\* A request starts: decide_h3_use.
Begin(t) ==
    /\ At(t, "idle") /\ requests < MaxRequests
    /\ requests' = requests + 1
    /\ \E o \in AltOrigins, b \in {"replayable", "stream"}, total \in Totals :
           task' = [task EXCEPT ![t] =
               [pc |-> IF policy = "Http3Only" THEN "h3" ELSE "lookup",
                origin |-> o, body |-> b, at |-> clock, target |-> NoEntry, total |-> total,
                limit |-> Deadline(total), due |-> Deadline(total),
                taken |-> FALSE, delivered |-> FALSE]]
    /\ UNCHANGED <<clock, policy, cache, sequence, supp, failedAt>>

\* get_fresh_counted, under the cache's read lock.
ReadEntry(t) ==
    /\ At(t, "lookup")
    /\ LET e == cache[task[t].origin]
       IN  task' = [task EXCEPT
               ![t] = IF e = NoEntry THEN [@ EXCEPT !.pc = "hyper", !.at = 0]
                      ELSE IF IsExpired(e, task[t].at) THEN [@ EXCEPT !.pc = "expired"]
                      ELSE [@ EXCEPT !.pc = "check", !.target = e]]
    /\ UNCHANGED <<clock, policy, cache, sequence, supp, requests, failedAt>>

\* get_fresh_counted, under the write lock: the key is removed.
RemoveExpired(t) ==
    /\ At(t, "expired")
    /\ cache' = [cache EXCEPT ![task[t].origin] = NoEntry]
    /\ task' = [task EXCEPT ![t].pc = "hyper", ![t].at = 0]
    /\ UNCHANGED <<clock, policy, sequence, supp, requests, failedAt>>

\* Mutant: the failure state of an earlier generation blocks a later one.
IsSuppressedAnyGeneration(o, generation, at) ==
    /\ supp[o] # NoEntry
    /\ at < supp[o].suppressed_until

IsSuppressed(o, generation, at) ==
    /\ supp[o] # NoEntry
    /\ supp[o].generation = generation
    /\ at < supp[o].suppressed_until

\* h3_discovered_target, under the suppressor's read lock.
CheckSuppressed(t) ==
    /\ At(t, "check")
    /\ LET r == task[t]
       IN  IF IsSuppressed(r.origin, r.target.generation, r.at)
           THEN task' = [task EXCEPT ![t].pc = "hyper", ![t].at = 0, ![t].target = NoEntry]
           ELSE task' = [task EXCEPT ![t].pc = "h3", ![t].at = 0]
    /\ UNCHANGED <<clock, policy, cache, sequence, supp, requests, failedAt>>

\* The response over HTTP/3 arrives: record_success.
H3Succeeds(t) ==
    /\ At(t, "h3")
    /\ supp' = [supp EXCEPT ![task[t].origin] = NoEntry]
    /\ task' = [task EXCEPT ![t] = [Idle EXCEPT !.pc = "learn", !.origin = task[t].origin, !.at = clock]]
    /\ UNCHANGED <<clock, policy, cache, sequence, requests, failedAt>>

\* min(BASE * 2^(failures-1), MAX).
SuppressionBackoff(failures) ==
    LET shift == IF failures - 1 < 10 THEN failures - 1 ELSE 10
        b == Base * 2^shift
    IN  IF b < MaxBackoff THEN b ELSE MaxBackoff

\* The entry after one more failure: a changed generation starts over.
FailureEntry(o, generation) ==
    LET failures == IF supp[o] # NoEntry /\ supp[o].generation = generation
                    THEN supp[o].failures + 1 ELSE 1
    IN  [generation |-> generation, failures |-> failures,
         suppressed_until |-> clock + SuppressionBackoff(failures)]

\* record_failure, one critical section of the suppressor.
RecordFailure(o, generation) ==
    /\ \E table \in IF supp[o] # NoEntry THEN {supp} ELSE EnsureBound(supp, o) :
           supp' = [table EXCEPT ![o] = FailureEntry(o, generation)]
    /\ failedAt' = [failedAt EXCEPT ![generation] = clock]

Explicit(t) == task[t].target = NoEntry
Suppressible(t, e) == ~Explicit(t) /\ ~e.draining /\ e.failure_class # "Other"

\* Mutant: a failure after the body was committed falls back too.
CanFallbackCommitted(t, e) ==
    /\ ~Explicit(t) /\ task[t].body # "stream"
    /\ e.failure_class # "Other"

CanFallback(t, e) ==
    /\ ~Explicit(t) /\ task[t].body # "stream"   \* fallback_body.is_some()
    /\ AllowsFallback(e)

\* The total timeout of the fallback is the remaining one, as it was before the
\* attempt.
FallbackLimit(t) == Deadline(task[t].total)

\* The attempt ends with an error (send_h3_route): the failure is recorded, and
\* the request falls back or fails.
H3Fails(t) ==
    /\ At(t, "h3")
    /\ \E e \in ConnectorErrors \cup (IF Overdue(task[t].limit) THEN {ForTotalTimeout} ELSE {}) :
        /\ IF Suppressible(t, e)
           THEN RecordFailure(task[t].origin, task[t].target.generation)
           ELSE UNCHANGED <<supp, failedAt>>
        /\ task' = [task EXCEPT ![t] =
               IF CanFallback(t, e)
               THEN [@ EXCEPT !.pc = "hyper", !.limit = FallbackLimit(t),
                              !.target = NoEntry, !.taken = TRUE, !.delivered = e.body_committed]
               ELSE Idle]
    /\ UNCHANGED <<clock, policy, cache, sequence, requests>>

\* send_hyper_request returns a response, an error or the total timeout.
HyperAnswers(t) ==
    /\ At(t, "hyper")
    /\ task' = [task EXCEPT ![t] = [Idle EXCEPT !.pc = "learn", !.origin = task[t].origin, !.at = clock]]
    /\ UNCHANGED <<clock, policy, cache, sequence, supp, requests, failedAt>>

HyperFails(t) ==
    /\ At(t, "hyper")
    /\ task' = [task EXCEPT ![t] = Idle]
    /\ UNCHANGED <<clock, policy, cache, sequence, supp, requests, failedAt>>

\* The caller drops the request while it awaits a transport.
Cancel(t) ==
    /\ task[t].pc \in {"h3", "hyper"}
    /\ task' = [task EXCEPT ![t] = Idle]
    /\ UNCHANGED <<clock, policy, cache, sequence, supp, requests, failedAt>>

\* The cache after an advertisement: the same endpoint keeps its generation and
\* the later expiry, another one gets the next generation.
Refreshed(o, h, at) ==
    [cache EXCEPT ![o].expires_at = IF at + h.ma > @ THEN at + h.ma ELSE @]

NewEntry(o, h, at) == [generation |-> sequence, endpoint |-> h.endpoint, expires_at |-> at + h.ma]

\* learn_counted, one critical section of the cache, with the instant captured
\* before the lock.
Learn(t) ==
    /\ At(t, "learn")
    /\ LET o == task[t].origin
       IN  \/ \E h \in Silent :
                 /\ task' = [task EXCEPT ![t] = Idle]
                 /\ UNCHANGED <<cache, sequence>>
           \/ \E h \in Clearing :
                 /\ cache' = [cache EXCEPT ![o] = NoEntry]
                 /\ task' = [task EXCEPT ![t] = Idle]
                 /\ UNCHANGED sequence
           \/ \E h \in Alternatives :
                 /\ IF cache[o] # NoEntry /\ cache[o].endpoint = h.endpoint
                    THEN /\ cache' = Refreshed(o, h, task[t].at)
                         /\ UNCHANGED sequence
                    ELSE /\ \E table \in EnsureBound(cache, o) :
                                cache' = [table EXCEPT ![o] = NewEntry(o, h, task[t].at)]
                         /\ sequence' = sequence + 1
                 /\ task' = [task EXCEPT ![t].pc = "readBack"]
    /\ UNCHANGED <<clock, policy, supp, requests, failedAt>>

\* After a learned advertisement the entry is looked up again: get_fresh.
ReadBack(t) ==
    /\ At(t, "readBack")
    /\ LET e == cache[task[t].origin]
       IN  task' = [task EXCEPT
               ![t] = IF e = NoEntry THEN Idle
                      ELSE IF IsExpired(e, task[t].at) THEN [@ EXCEPT !.pc = "staleBack"]
                      ELSE [@ EXCEPT !.pc = "noteRead", !.target = e]]
    /\ UNCHANGED <<clock, policy, cache, sequence, supp, requests, failedAt>>

RemoveStaleBack(t) ==
    /\ At(t, "staleBack")
    /\ cache' = [cache EXCEPT ![task[t].origin] = NoEntry]
    /\ task' = [task EXCEPT ![t] = Idle]
    /\ UNCHANGED <<clock, policy, sequence, supp, requests, failedAt>>

\* note_new_advertisement: is the suppression stale?  (read lock) ...
NoteRead(t) ==
    /\ At(t, "noteRead")
    /\ LET s == supp[task[t].origin]
           stale == s # NoEntry /\ s.generation # task[t].target.generation
       IN  task' = [task EXCEPT ![t] = IF stale THEN [@ EXCEPT !.pc = "noteWrite"] ELSE Idle]
    /\ UNCHANGED <<clock, policy, cache, sequence, supp, requests, failedAt>>

\* ... then the key is removed (write lock).
NoteWrite(t) ==
    /\ At(t, "noteWrite")
    /\ supp' = [supp EXCEPT ![task[t].origin] = NoEntry]
    /\ task' = [task EXCEPT ![t] = Idle]
    /\ UNCHANGED <<clock, policy, cache, sequence, requests, failedAt>>

\* Time passes, but not beyond the timer of an await: a fired timer ends it.
AltTick ==
    /\ clock < AltMaxTime \/ \E t \in Tasks : task[t].limit # NoDeadline
    /\ \A t \in Tasks : ~Overdue(task[t].limit)
    /\ clock' = clock + 1
    /\ UNCHANGED <<policy, cache, sequence, supp, task, requests, failedAt>>

\* The steps a request takes by itself, once it has been started.
Step(t) ==
    \/ ReadEntry(t) \/ RemoveExpired(t) \/ CheckSuppressed(t)
    \/ H3Succeeds(t) \/ H3Fails(t) \/ HyperAnswers(t) \/ HyperFails(t)
    \/ Learn(t) \/ ReadBack(t) \/ RemoveStaleBack(t) \/ NoteRead(t) \/ NoteWrite(t)

AltNext == (\E t \in Tasks : Begin(t) \/ Step(t) \/ Cancel(t)) \/ AltTick

AltSpec == AltInit /\ [][AltNext]_altVars
-----------------------------------------------------------------------------
\* A second transport gets a request only where send_h3_route may fall back: not
\* under Http3Only, before anything of the body was delivered, and with a body
\* that can be replayed, so a streamed one is never handed over twice.
FallbackAllowed ==
    \A t \in Tasks : At(t, "hyper") =>
        /\ policy # "Http3Only"
        /\ ~task[t].delivered /\ (task[t].body = "stream" => ~task[t].taken)

\* Of two advertisements the later expiry prevails: a re-advertisement does not
\* shorten the life of its entry, in whatever order concurrent responses get to
\* the lock, and a lookup passes over an alternative it found only when an attempt
\* of that very generation failed, no longer than the maximal backoff ago.  That an
\* entry stays is not said: "clear" and the size bound remove it, and so does a
\* lookup that saw the expired entry before another request renewed it
\* (RemoveExpired, RemoveStaleBack).
AdvertisementPrevails ==
    [][/\ \A o \in AltOrigins :
             /\ cache[o] # NoEntry /\ cache'[o] # NoEntry
             /\ cache[o].endpoint = cache'[o].endpoint
             => cache'[o].expires_at >= cache[o].expires_at
       /\ \A t \in Tasks :
             At(t, "check") /\ task'[t].pc = "hyper" =>
                 LET f == failedAt[task[t].target.generation]
                 IN  f # NoDeadline /\ task[t].at < f + MaxBackoff]_altVars
=============================================================================
