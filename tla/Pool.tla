------------------------------- MODULE Pool --------------------------------
(***************************************************************************)
(* The logical-request admission pool of eggfetch-core (src/crates/        *)
(* eggfetch-core/src/pool.rs).                                             *)
(*                                                                         *)
(* A task is one logical request.  Pool::acquire takes a permit of the     *)
(* global semaphore, then looks up (or creates) the semaphore entry of the *)
(* request's origin, registers as a waiter of that entry, takes a permit   *)
(* of it, and drops the registration.  The PoolGuard it returns gives both *)
(* permits back when it is dropped.  The acquire future may be dropped (a  *)
(* pool timeout, a total timeout, a caller that gives up) wherever it      *)
(* awaits.                                                                 *)
(*                                                                         *)
(* The table of entries is guarded by a RwLock.  Only registration happens *)
(* under the lock: permits and waiter counts change while another task     *)
(* holds it, so the sweep of idle entries, which reads the two one after   *)
(* the other, is one step per read.                                        *)
(***************************************************************************)
EXTENDS Naturals, Sequences, FiniteSets, Semaphore

CONSTANTS Tasks,            \* logical requests
          Origins,          \* OriginKey values
          Entries,          \* identities of PerOriginSemaphore allocations
          MaxInFlight,      \* effective_max_in_flight(), or Unlimited
          MaxPerOrigin,     \* effective_max_in_flight_per_origin(), or Unlimited
          SweepThreshold,   \* max(max_per_origin * 16, 64) in the code
          Unlimited, NoOrigin, NoEntry, NoTask

ASSUME PoolAssumption ==
    /\ IsFiniteSet(Tasks)
    /\ MaxInFlight \in Nat \cup {Unlimited}
    /\ MaxPerOrigin \in Nat \cup {Unlimited}
    /\ SweepThreshold \in Nat
    /\ Unlimited \notin Nat
    /\ NoOrigin \notin Origins
    /\ NoEntry \notin Entries
    /\ NoTask \notin Tasks

VARIABLES pc,         \* where each task is in acquire / drop
          origin,     \* the origin each request is for
          entry,      \* the entry whose Arc each task holds
          globalSem,  \* PoolInner.global_semaphore
          table,      \* PoolInner.per_origin
          sem,        \* PerOriginSemaphore.semaphore of each entry
          waiters,    \* PerOriginSemaphore.waiters of each entry
          writer,     \* the task that holds the table's write lock
          sweepTodo,  \* origins the sweep has not visited yet
          sweepAt     \* the origin whose permits the sweep has just read

vars == <<pc, origin, entry, globalSem, table, sem, waiters, writer, sweepTodo, sweepAt>>
lockVars == <<writer, sweepTodo, sweepAt>>

-----------------------------------------------------------------------------
\* Program counters, by what a task owns there.

\* Registered as a waiter of entry[t] (a WaiterGuard is alive).
Registered == {"tryOrigin", "pollOrigin", "waitOrigin", "grantedOrigin", "gotOrigin",
               "unregister"}

\* Owns a permit of the semaphore of entry[t] (if it has an entry).
OwnsOrigin == {"grantedOrigin", "gotOrigin", "holding", "dropOrigin"}

\* Owns a permit of the global semaphore (if there is one).
OwnsGlobal == {"grantedGlobal", "lookup", "miss", "insert", "tryOrigin", "pollOrigin",
               "waitOrigin", "grantedOrigin", "gotOrigin", "unregister", "dropGlobal",
               "holding"}

PCs == {"idle", "pollGlobal", "waitGlobal"} \cup OwnsGlobal \cup {"dropOrigin"}

HasGlobal == MaxInFlight # Unlimited

\* Pool::needs_origin_key, and the request's URL has an origin.
LimitsOrigin(t) == MaxPerOrigin # Unlimited /\ origin[t] # NoOrigin

Goto(t, next) == pc' = [pc EXCEPT ![t] = next]

\* An allocation nobody refers to: free to stand for a new entry.
Unreferenced(e) == /\ \A o \in Origins : table[o] # e
                   /\ \A t \in Tasks : entry[t] # e

Known == {o \in Origins : table[o] # NoEntry}

-----------------------------------------------------------------------------
Init == /\ pc = [t \in Tasks |-> "idle"]
        /\ origin = [t \in Tasks |-> NoOrigin]
        /\ entry = [t \in Tasks |-> NoEntry]
        /\ globalSem = NewSemaphore(IF HasGlobal THEN MaxInFlight ELSE 0)
        /\ table = [o \in Origins |-> NoEntry]
        /\ sem = [e \in Entries |-> NewSemaphore(0)]
        /\ waiters = [e \in Entries |-> 0]
        /\ writer = NoTask
        /\ sweepTodo = {}
        /\ sweepAt = NoOrigin

-----------------------------------------------------------------------------
(* The global permit, which is taken first. *)

\* acquire is called for origin o; try_acquire_owned on the global semaphore.
Start(t, o) ==
    /\ pc[t] = "idle"
    /\ origin' = [origin EXCEPT ![t] = o]
    /\ \/ /\ ~HasGlobal
          /\ Goto(t, "lookup")
          /\ UNCHANGED globalSem
       \/ /\ HasGlobal
          /\ globalSem.avail > 0
          /\ globalSem' = Take(globalSem)
          /\ Goto(t, "lookup")
       \/ /\ HasGlobal
          /\ globalSem.avail = 0
          /\ Goto(t, "pollGlobal")
          /\ UNCHANGED globalSem
    /\ UNCHANGED <<entry, table, sem, waiters, lockVars>>

\* First poll of acquire_owned: a permit released meanwhile is taken at once.
PollGlobal(t) ==
    /\ pc[t] = "pollGlobal"
    /\ \/ /\ globalSem.avail > 0
          /\ globalSem' = Take(globalSem)
          /\ Goto(t, "lookup")
       \/ /\ globalSem.avail = 0
          /\ globalSem' = Enqueue(globalSem, t)
          /\ Goto(t, "waitGlobal")
    /\ UNCHANGED <<origin, entry, table, sem, waiters, lockVars>>

\* The task that was handed a global permit is polled again.
WakeGlobal(t) ==
    /\ pc[t] = "grantedGlobal"
    /\ Goto(t, "lookup")
    /\ UNCHANGED <<origin, entry, globalSem, table, sem, waiters, lockVars>>


\* Mutant: a permit is handed over and becomes available as well.
DropGlobalTwice(t, next) ==
    /\ globalSem' = IF HasGlobal THEN [Release(globalSem) EXCEPT !.avail = globalSem.avail + 1]
                                 ELSE globalSem
    /\ pc' = [u \in Tasks |->
                IF u = t THEN next
                ELSE IF HasGlobal /\ u \in NextInLine(globalSem) THEN "grantedGlobal"
                ELSE pc[u]]

\* t's global permit (if there is a global limit) is dropped and t goes to next.
DropGlobal(t, next) ==
    /\ globalSem' = IF HasGlobal THEN Release(globalSem) ELSE globalSem
    /\ pc' = [u \in Tasks |->
                IF u = t THEN next
                ELSE IF HasGlobal /\ u \in NextInLine(globalSem) THEN "grantedGlobal"
                ELSE pc[u]]

-----------------------------------------------------------------------------
(* lookup_or_create_registered. *)

\* t holds an Arc of e and is counted as its waiter.
Register(t, e) ==
    /\ entry' = [entry EXCEPT ![t] = e]
    /\ waiters' = [waiters EXCEPT ![e] = @ + 1]
    /\ Goto(t, "tryOrigin")

\* No per-origin limit applies: the guard is returned right away.
SkipOrigin(t) ==
    /\ pc[t] = "lookup"
    /\ ~LimitsOrigin(t)
    /\ Goto(t, "holding")
    /\ UNCHANGED <<origin, entry, globalSem, table, sem, waiters, lockVars>>

\* Fast path, under the read lock: registered if the origin is known.
FastLookup(t) ==
    /\ pc[t] = "lookup"
    /\ LimitsOrigin(t)
    /\ writer = NoTask
    /\ \/ /\ table[origin[t]] # NoEntry
          /\ Register(t, table[origin[t]])
       \/ /\ table[origin[t]] = NoEntry
          /\ Goto(t, "miss")
          /\ UNCHANGED <<entry, waiters>>
    /\ UNCHANGED <<origin, globalSem, table, sem, lockVars>>


\* Slow path, under the write lock: re-check, and decide whether to sweep.
SlowLookup(t) ==
    /\ pc[t] = "miss"
    /\ writer = NoTask
    /\ \/ /\ table[origin[t]] # NoEntry
          /\ Register(t, table[origin[t]])
          /\ UNCHANGED lockVars
       \/ /\ table[origin[t]] = NoEntry
          /\ writer' = t
          /\ sweepTodo' = IF Cardinality(Known) > SweepThreshold THEN Known ELSE {}
          /\ Goto(t, "insert")
          /\ UNCHANGED <<entry, waiters, sweepAt>>
    /\ UNCHANGED <<origin, globalSem, table, sem>>

\* retain, first operand: an entry whose permits are in use is kept.
SweepReadPermits(t, o) ==
    /\ writer = t
    /\ o \in sweepTodo
    /\ sweepAt = NoOrigin
    /\ \/ /\ sem[table[o]].avail < MaxPerOrigin
          /\ sweepTodo' = sweepTodo \ {o}
          /\ UNCHANGED sweepAt
       \/ /\ ~(sem[table[o]].avail < MaxPerOrigin)
          /\ sweepAt' = o
          /\ UNCHANGED sweepTodo
    /\ UNCHANGED <<pc, origin, entry, globalSem, table, sem, waiters, writer>>


\* Mutant: an entry is removed on the strength of its permits alone.
SweepIgnoresWaiters(t) ==
    /\ writer = t
    /\ sweepAt # NoOrigin
    /\ table' = [table EXCEPT ![sweepAt] = NoEntry]
    /\ sweepTodo' = sweepTodo \ {sweepAt}
    /\ sweepAt' = NoOrigin
    /\ UNCHANGED <<pc, origin, entry, globalSem, sem, waiters, writer>>

\* retain, second operand: an entry with a registered waiter is kept, any
\* other entry is removed.
SweepReadWaiters(t) ==
    /\ writer = t
    /\ sweepAt # NoOrigin
    /\ table' = IF waiters[table[sweepAt]] > 0 THEN table
                                               ELSE [table EXCEPT ![sweepAt] = NoEntry]
    /\ sweepTodo' = sweepTodo \ {sweepAt}
    /\ sweepAt' = NoOrigin
    /\ UNCHANGED <<pc, origin, entry, globalSem, sem, waiters, writer>>

\* A new entry is inserted, already registered, and the lock is released.
Insert(t) ==
    /\ writer = t
    /\ sweepTodo = {}
    /\ \E e \in Entries :
         /\ Unreferenced(e)
         /\ table' = [table EXCEPT ![origin[t]] = e]
         /\ sem' = [sem EXCEPT ![e] = NewSemaphore(MaxPerOrigin)]
         /\ entry' = [entry EXCEPT ![t] = e]
         /\ waiters' = [waiters EXCEPT ![e] = 1]
    /\ Goto(t, "tryOrigin")
    /\ writer' = NoTask
    /\ UNCHANGED <<origin, globalSem, sweepTodo, sweepAt>>

-----------------------------------------------------------------------------
(* The origin's permit. *)

TryOrigin(t) ==
    /\ pc[t] = "tryOrigin"
    /\ \/ /\ sem[entry[t]].avail > 0
          /\ sem' = [sem EXCEPT ![entry[t]] = Take(@)]
          /\ Goto(t, "gotOrigin")
       \/ /\ sem[entry[t]].avail = 0
          /\ Goto(t, "pollOrigin")
          /\ UNCHANGED sem
    /\ UNCHANGED <<origin, entry, globalSem, table, waiters, lockVars>>

PollOrigin(t) ==
    /\ pc[t] = "pollOrigin"
    /\ \/ /\ sem[entry[t]].avail > 0
          /\ sem' = [sem EXCEPT ![entry[t]] = Take(@)]
          /\ Goto(t, "gotOrigin")
       \/ /\ sem[entry[t]].avail = 0
          /\ sem' = [sem EXCEPT ![entry[t]] = Enqueue(@, t)]
          /\ Goto(t, "waitOrigin")
    /\ UNCHANGED <<origin, entry, globalSem, table, waiters, lockVars>>

\* waiter_guard.take() once the permit is in hand; acquire returns the guard.
TakeWaiterGuard(t) ==
    /\ pc[t] \in {"gotOrigin", "grantedOrigin"}
    /\ waiters' = [waiters EXCEPT ![entry[t]] = @ - 1]
    /\ Goto(t, "holding")
    /\ UNCHANGED <<origin, entry, globalSem, table, sem, lockVars>>

\* t's permit of its entry is dropped and t goes to next.
DropOriginPermit(t, next) ==
    /\ sem' = [sem EXCEPT ![entry[t]] = Release(@)]
    /\ pc' = [u \in Tasks |->
                IF u = t THEN next
                ELSE IF u \in NextInLine(sem[entry[t]]) THEN "grantedOrigin"
                ELSE pc[u]]

-----------------------------------------------------------------------------
(* Drop of the PoolGuard: its fields in declaration order. *)

DropGuard(t) ==
    /\ pc[t] = "holding"
    /\ DropGlobal(t, IF entry[t] = NoEntry THEN "idle" ELSE "dropOrigin")
    /\ UNCHANGED <<origin, entry, table, sem, waiters, lockVars>>

DropGuardOrigin(t) ==
    /\ pc[t] = "dropOrigin"
    /\ DropOriginPermit(t, "idle")
    /\ entry' = [entry EXCEPT ![t] = NoEntry]
    /\ UNCHANGED <<origin, globalSem, table, waiters, lockVars>>

-----------------------------------------------------------------------------
(* Drop of the acquire future at one of its two awaits. *)


\* While queued for (or just handed) a global permit.
CancelGlobal(t) ==
    /\ \/ /\ pc[t] = "waitGlobal"
          /\ \E i \in 1 .. Len(globalSem.queue) :
               /\ globalSem.queue[i] = t
               /\ globalSem' = Leave(globalSem, i)
          /\ Goto(t, "idle")
       \/ /\ pc[t] = "grantedGlobal"
          /\ DropGlobal(t, "idle")
    /\ UNCHANGED <<origin, entry, table, sem, waiters, lockVars>>


\* Mutant: the permit a cancelled task was handed is forgotten.
CancelOriginLeaks(t) ==
    /\ \/ /\ pc[t] = "waitOrigin"
          /\ \E i \in 1 .. Len(sem[entry[t]].queue) :
               /\ sem[entry[t]].queue[i] = t
               /\ sem' = [sem EXCEPT ![entry[t]] = Leave(@, i)]
       \/ /\ pc[t] = "grantedOrigin"
          /\ UNCHANGED sem
    /\ Goto(t, "unregister")
    /\ UNCHANGED <<origin, entry, globalSem, table, waiters, lockVars>>

\* Mutant: a cancelled waiter takes the head of the queue off, not itself.
CancelOriginPopsHead(t) ==
    /\ \/ /\ pc[t] = "waitOrigin"
          /\ sem' = [sem EXCEPT ![entry[t]] = Leave(@, 1)]
          /\ Goto(t, "unregister")
       \/ /\ pc[t] = "grantedOrigin"
          /\ DropOriginPermit(t, "unregister")
    /\ UNCHANGED <<origin, entry, globalSem, table, waiters, lockVars>>

\* While queued for (or just handed) an origin permit: the inner acquire
\* future goes first,
CancelOrigin(t) ==
    /\ \/ /\ pc[t] = "waitOrigin"
          /\ \E i \in 1 .. Len(sem[entry[t]].queue) :
               /\ sem[entry[t]].queue[i] = t
               /\ sem' = [sem EXCEPT ![entry[t]] = Leave(@, i)]
          /\ Goto(t, "unregister")
       \/ /\ pc[t] = "grantedOrigin"
          /\ DropOriginPermit(t, "unregister")
    /\ UNCHANGED <<origin, entry, globalSem, table, waiters, lockVars>>


\* then the WaiterGuard and the entry,
CancelUnregister(t) ==
    /\ pc[t] = "unregister"
    /\ waiters' = [waiters EXCEPT ![entry[t]] = @ - 1]
    /\ entry' = [entry EXCEPT ![t] = NoEntry]
    /\ Goto(t, "dropGlobal")
    /\ UNCHANGED <<origin, globalSem, table, sem, lockVars>>

\* then the global permit.
CancelDropGlobal(t) ==
    /\ pc[t] = "dropGlobal"
    /\ DropGlobal(t, "idle")
    /\ UNCHANGED <<origin, entry, table, sem, waiters, lockVars>>

-----------------------------------------------------------------------------
\* The steps a task takes by itself once it runs.
Progress(t) ==
    \/ PollGlobal(t) \/ WakeGlobal(t)
    \/ SkipOrigin(t) \/ FastLookup(t) \/ SlowLookup(t)
    \/ \E o \in Origins : SweepReadPermits(t, o)
    \/ SweepReadWaiters(t) \/ Insert(t)
    \/ TryOrigin(t) \/ PollOrigin(t) \/ TakeWaiterGuard(t)
    \/ DropGuardOrigin(t) \/ CancelUnregister(t) \/ CancelDropGlobal(t)

Cancel(t) == CancelGlobal(t) \/ CancelOrigin(t)

Next == \E t \in Tasks :
          \/ \E o \in Origins \cup {NoOrigin} : Start(t, o)
          \/ Progress(t)
          \/ DropGuard(t)
          \/ Cancel(t)

Spec == Init /\ [][Next]_vars

(* A runnable task is eventually polled, and a response that holds a guard *)
(* is eventually consumed or dropped.  Nobody is forced to start a request *)
(* or to give one up.                                                      *)
Fairness == \A t \in Tasks : WF_vars(Progress(t)) /\ WF_vars(DropGuard(t))

FairSpec == Spec /\ Fairness

-----------------------------------------------------------------------------
GlobalHolders == {t \in Tasks : pc[t] \in OwnsGlobal}
Holders(e)    == {t \in Tasks : pc[t] \in OwnsOrigin /\ entry[t] = e}
RegisteredAt(e) == {t \in Tasks : pc[t] \in Registered /\ entry[t] = e}
Live(e)       == ~Unreferenced(e)

\* The type invariant.
TypeOK ==
    /\ pc \in [Tasks -> PCs]
    /\ origin \in [Tasks -> Origins \cup {NoOrigin}]
    /\ entry \in [Tasks -> Entries \cup {NoEntry}]
    /\ globalSem \in SemaphoreOf(Tasks)
    /\ table \in [Origins -> Entries \cup {NoEntry}]
    /\ sem \in [Entries -> SemaphoreOf(Tasks)]
    /\ waiters \in [Entries -> Nat]
    /\ writer \in Tasks \cup {NoTask}
    /\ sweepTodo \in SUBSET Origins
    /\ sweepAt \in Origins \cup {NoOrigin}

(* No global permit is ever lost or minted by acquire, by a guard drop or  *)
(* by a cancellation racing a hand-over: the available permits and the     *)
(* requests that own one always add up to max_in_flight_requests.          *)
GlobalConserved == HasGlobal => globalSem.avail + Cardinality(GlobalHolders) = MaxInFlight

(* The same for the semaphore of every allocated entry, whether or not the *)
(* sweep has removed it from the table.                                    *)
OriginConserved ==
    MaxPerOrigin # Unlimited =>
        \A e \in Entries : Live(e) => sem[e].avail + Cardinality(Holders(e)) = MaxPerOrigin

(* The waiter count of an entry is exact, cancellations included: a count  *)
(* that is too high would pin the entry forever, one that is too low would *)
(* let the sweep remove an entry in use.                                   *)
WaitersExact ==
    \A e \in Entries : Live(e) => waiters[e] = Cardinality(RegisteredAt(e))

(* "An idle entry cannot be evicted while a task is about to await its     *)
(* semaphore": the entry of a registered task is the one in the table.     *)
RegisteredInTable ==
    \A t \in Tasks : pc[t] \in Registered => table[origin[t]] = entry[t]

\* What pool_sweep checks and PoolProofs proves.

(* Both kinds of permits are conserved, through hand-overs, cancellations  *)
(* at either await, guard drops and the sweep (acquire and PoolGuard).     *)
PermitsConserved == GlobalConserved /\ OriginConserved

(* Whoever is registered at an entry is counted there and finds it in the  *)
(* table, which is what the sweep relies on: WaiterGuard and retain.       *)
RegistrationsExact == WaitersExact /\ RegisteredInTable

OriginHolders(o) ==
    {t \in Tasks : origin[t] = o /\ pc[t] \in OwnsOrigin /\ entry[t] # NoEntry}

(* At most max_in_flight_requests_per_origin requests to one origin own a  *)
(* slot at a time.                                                         *)
OriginLimit ==
    MaxPerOrigin # Unlimited =>
        \A o \in Origins : Cardinality(OriginHolders(o)) <= MaxPerOrigin

-----------------------------------------------------------------------------
(* The inductive invariant: the counts above, and the shapes they rest on. *)

\* The queue of a semaphore holds the tasks that wait for it, each one once.
GlobalQueueShape ==
    /\ Distinct(globalSem)
    /\ \A t \in Queued(globalSem) : pc[t] = "waitGlobal"

OriginQueueShape ==
    \A e \in Entries :
      /\ Distinct(sem[e])
      /\ \A t \in Queued(sem[e]) : pc[t] = "waitOrigin" /\ entry[t] = e

\* Who holds the Arc of an entry, and when there is a limit to wait for.
EntryShape ==
    \A t \in Tasks :
      /\ pc[t] \in Registered \cup {"dropOrigin"} => entry[t] # NoEntry
      /\ entry[t] # NoEntry => /\ pc[t] \in Registered \cup {"holding", "dropOrigin"}
                               /\ origin[t] \in Origins
                               /\ MaxPerOrigin # Unlimited
      /\ pc[t] \in {"pollGlobal", "waitGlobal", "grantedGlobal"} => HasGlobal

\* The write lock and the sweep that runs under it.
LockShape ==
    /\ \A t \in Tasks :
         /\ pc[t] = "insert" <=> writer = t
         /\ pc[t] \in {"miss", "insert"} => origin[t] \in Origins /\ MaxPerOrigin # Unlimited
         /\ pc[t] = "insert" => table[origin[t]] = NoEntry
    /\ sweepTodo \subseteq Known
    /\ sweepAt # NoOrigin => sweepAt \in sweepTodo
    /\ writer = NoTask => sweepTodo = {}

IInv == /\ TypeOK
        /\ GlobalQueueShape /\ OriginQueueShape /\ EntryShape /\ LockShape
        /\ GlobalConserved /\ OriginConserved /\ WaitersExact /\ RegisteredInTable

-----------------------------------------------------------------------------
(* The global semaphore as the pool uses it is a first-come-first-served   *)
(* limiter of max_in_flight_requests requests.                             *)
GlobalLimiter == INSTANCE Limiter WITH Clients <- Tasks, Limit <- MaxInFlight,
                     inside <- GlobalHolders, line <- globalSem.queue
(* So are, per origin, the requests of one origin, while no entry is swept. *)
OriginLine(o) == IF table[o] = NoEntry THEN <<>> ELSE sem[table[o]].queue
OriginLimiter(o) == INSTANCE Limiter WITH Clients <- Tasks, Limit <- MaxPerOrigin,
                     inside <- OriginHolders(o),
                     line <- OriginLine(o)
RefinesLimiters ==
    /\ GlobalLimiter!Spec
    /\ \A o \in Origins : OriginLimiter(o)!Init
    /\ [][\A o \in Origins :
            OriginLimiter(o)!Next
              \/ UNCHANGED <<OriginHolders(o), OriginLine(o)>>]_vars

(* Every acquire ends: the request gets its guard or is given up.          *)
AcquireEnds ==
    \A t \in Tasks : pc[t] \notin {"idle", "holding"} ~> pc[t] \in {"idle", "holding"}

=============================================================================
