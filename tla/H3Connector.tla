---------------------------- MODULE H3Connector ----------------------------
(***************************************************************************)
(* The HTTP/3 connector (transport/http3.rs): the cache of QUIC sessions,  *)
(* one cell per origin, as concurrent requests use it.                     *)
(*                                                                         *)
(* A cell is a OnceCell: the first request to enter it establishes the     *)
(* connection, the others await the result, and a failure leaves it empty. *)
(* The cache is a map under a lock of its own, taken and released by every *)
(* call, so "read, decide, write" is three steps of a request unless the   *)
(* write checks again.  A session drains when the peer says GOAWAY or when *)
(* its driver task sees the connection close.  DNS, the handshake and the  *)
(* datagram route are one step that succeeds or fails; headers and bytes   *)
(* are left out.                                                           *)
(***************************************************************************)
EXTENDS Naturals, FiniteSets, H3Outcomes

CONSTANTS Tasks,         \* concurrent callers
          Keys,          \* origins, as host:port
          Gens,          \* Alt-Svc generations
          Targets,       \* the origin and the generation a request may carry
          MaxEntries,    \* H3_CACHE_MAX_ENTRIES
          MaxRequests,   \* bound: requests
          Nobody

ASSUME H3Assumption ==
    /\ MaxEntries \in Nat \ {0} /\ MaxRequests \in Nat
    /\ Targets \subseteq Keys \X Gens
    /\ Keys # {} /\ Gens # {}
    /\ Nobody \notin Tasks

VARIABLES cells,         \* every cell made, whoever still holds it
          made,          \* how many cells were made
          table,         \* sender_cache
          task,          \* what each request holds
          requests       \* how many were started

vars == <<cells, made, table, task, requests>>

\* A request makes two cells at the most; NoCell is "no entry".
CellIds == 1 .. 2 * MaxRequests
NoCell == 0
NoKey == "none"

Cell == [initializer : Tasks \cup {Nobody}, ready : BOOLEAN, generation : Gens,
         goaway : BOOLEAN, draining : BOOLEAN]
EmptyCell == [initializer |-> Nobody, ready |-> FALSE, generation |-> CHOOSE g \in Gens : TRUE,
              goaway |-> FALSE, draining |-> FALSE]

\* A request: pc is the lock or the await it is at, cell the one it works with,
\* victim the key it is about to evict, drained the cells that were draining
\* when it arrived, sent whether body bytes may have left, fallback whether
\* the error the last one ended with allows a fallback.
Pcs == {"idle", "bound", "boundRemove", "get", "check", "rebound", "reboundRemove", "insert",
        "init", "establish", "send", "body", "answer", "stream", "streamRemove"}
TaskType == [pc : Pcs, key : Keys, generation : Gens, cell : CellIds \cup {NoCell},
             victim : Keys \cup {NoKey}, drained : SUBSET CellIds, sent : BOOLEAN,
             fallback : BOOLEAN]

TypeOK ==
    /\ cells \in [CellIds -> Cell]
    /\ made \in 0 .. 2 * MaxRequests
    /\ table \in [Keys -> CellIds \cup {NoCell}]
    /\ task \in [Tasks -> TaskType]
    /\ requests \in 0 .. MaxRequests
    /\ \A t \in Tasks : /\ task[t].victim # NoKey <=> task[t].pc \in {"boundRemove", "reboundRemove"}
                        /\ task[t].cell = NoCell <=>
                               task[t].pc \in {"idle", "bound", "boundRemove", "get"}

Idle(fallback, sent) ==
    [pc |-> "idle", key |-> CHOOSE k \in Keys : TRUE, generation |-> CHOOSE g \in Gens : TRUE,
     cell |-> NoCell, victim |-> NoKey, drained |-> {}, sent |-> sent, fallback |-> fallback]

Init ==
    /\ cells = [c \in CellIds |-> EmptyCell] /\ made = 0
    /\ table = [k \in Keys |-> NoCell]
    /\ task = [t \in Tasks |-> Idle(FALSE, FALSE)]
    /\ requests = 0
-----------------------------------------------------------------------------
At(t, pc) == task[t].pc = pc
Present == {k \in Keys : table[k] # NoCell}
CellOf(t) == cells[task[t].cell]
Goto(t, pc) == task' = [task EXCEPT ![t].pc = pc]
Return(t, sent) == task' = [task EXCEPT ![t] = Idle(FALSE, sent)]
Fail(t, e, sent) == task' = [task EXCEPT ![t] = Idle(AllowsFallback(e), sent)]

\* A request arrives: send_request_inner.
Begin(t) ==
    /\ At(t, "idle") /\ requests < MaxRequests
    /\ requests' = requests + 1
    /\ \E target \in Targets :
           task' = [task EXCEPT ![t] =
               [Idle(FALSE, FALSE) EXCEPT !.pc = "bound", !.key = target[1], !.generation = target[2],
                   !.drained = {c \in CellIds : cells[c].draining}]]
    /\ UNCHANGED <<cells, made, table>>

\* ensure_cache_bound, read lock: pick a victim when the cache is full ...
BoundRead(t) ==
    /\ task[t].pc \in {"bound", "rebound"}
    /\ LET victims == Present \ {task[t].key}
           first == At(t, "bound")
       IN  IF Cardinality(Present) < MaxEntries \/ victims = {}
           THEN Goto(t, IF first THEN "get" ELSE "insert")
           ELSE \E v \in victims :
                    task' = [task EXCEPT ![t].pc = IF first THEN "boundRemove" ELSE "reboundRemove",
                                         ![t].victim = v]
    /\ UNCHANGED <<cells, made, table, requests>>

\* ... and, under the write lock, remove its key.
BoundRemove(t) ==
    /\ task[t].pc \in {"boundRemove", "reboundRemove"}
    /\ table' = [table EXCEPT ![task[t].victim] = NoCell]
    /\ task' = [task EXCEPT ![t].pc = IF At(t, "boundRemove") THEN "get" ELSE "insert",
                            ![t].victim = NoKey]
    /\ UNCHANGED <<cells, made, requests>>

\* h3_cache_get_or_insert_default: the key is looked up again under the write
\* lock, so the two lookups are one step.
GetOrInsert(t) ==
    /\ At(t, "get")
    /\ IF table[task[t].key] # NoCell
       THEN /\ task' = [task EXCEPT ![t].pc = "check", ![t].cell = table[task[t].key]]
            /\ UNCHANGED <<made, table>>
       ELSE /\ made' = made + 1
            /\ table' = [table EXCEPT ![task[t].key] = made + 1]
            /\ task' = [task EXCEPT ![t].pc = "check", ![t].cell = made + 1]
    /\ UNCHANGED <<cells, requests>>

\* Mutant: the key is removed whatever cell it holds by now.
EvictByKey(t) == [table EXCEPT ![task[t].key] = NoCell]

\* evict_if_current checks again under the write lock: one step.
EvictIfCurrent(t) ==
    IF table[task[t].key] = task[t].cell THEN [table EXCEPT ![task[t].key] = NoCell] ELSE table

\* The established session is of another generation, or draining.
Unfit(t) ==
    CellOf(t).ready /\ (CellOf(t).generation # task[t].generation \/ CellOf(t).draining)

CheckCell(t) ==
    /\ At(t, "check")
    /\ IF Unfit(t)
       THEN /\ table' = EvictIfCurrent(t)
            /\ Goto(t, "rebound")
       ELSE /\ Goto(t, IF CellOf(t).ready THEN "send" ELSE "init")
            /\ UNCHANGED table
    /\ UNCHANGED <<cells, made, requests>>

\* The fresh cell replaces whatever the key holds.
InsertFresh(t) ==
    /\ At(t, "insert")
    /\ made' = made + 1
    /\ table' = [table EXCEPT ![task[t].key] = made + 1]
    /\ task' = [task EXCEPT ![t].pc = "init", ![t].cell = made + 1]
    /\ UNCHANGED <<cells, requests>>

\* get_or_try_init: use what is there, or be the one that initializes.
EnterInit(t) ==
    /\ At(t, "init")
    /\ IF CellOf(t).ready
       THEN Goto(t, "send") /\ UNCHANGED cells
       ELSE /\ CellOf(t).initializer = Nobody
            /\ cells' = [cells EXCEPT ![task[t].cell].initializer = t]
            /\ Goto(t, "establish")
    /\ UNCHANGED <<made, table, requests>>

Established(t) ==
    /\ At(t, "establish")
    /\ cells' = [cells EXCEPT ![task[t].cell] =
                    [EmptyCell EXCEPT !.ready = TRUE, !.generation = task[t].generation]]
    /\ Goto(t, "send")
    /\ UNCHANGED <<made, table, requests>>

\* Mutant: a failed initialization keeps the cell locked.
EstablishFailsLocked(t) ==
    /\ At(t, "establish")
    /\ \E e \in ConnectErrors : Fail(t, e, FALSE)
    /\ UNCHANGED <<cells, made, table, requests>>

\* A failed initialization leaves the cell empty.
EstablishFails(t) ==
    /\ At(t, "establish")
    /\ \E e \in ConnectErrors : Fail(t, e, FALSE)
    /\ cells' = [cells EXCEPT ![task[t].cell].initializer = Nobody]
    /\ UNCHANGED <<made, table, requests>>

\* The request headers are sent on a session that is not closing.
SendHeaders(t) ==
    /\ At(t, "send")
    /\ ~CellOf(t).goaway /\ ~CellOf(t).draining
    /\ Goto(t, "body")
    /\ UNCHANGED <<cells, made, table, requests>>

\* Sending the headers fails: a drain after GOAWAY, a protocol error otherwise.
SendFails(t) ==
    /\ At(t, "send")
    /\ table' = EvictIfCurrent(t)
    /\ cells' = [cells EXCEPT ![task[t].cell].draining = @ \/ CellOf(t).goaway]
    /\ \E e \in SendErrors : e.draining = CellOf(t).goaway /\ Fail(t, e, FALSE)
    /\ UNCHANGED <<made, requests>>

SendBody(t) ==
    /\ At(t, "body")
    /\ task' = [task EXCEPT ![t].pc = "answer", ![t].sent = TRUE]
    /\ UNCHANGED <<cells, made, table, requests>>

\* Mutant: a transport that breaks under the body reports nothing committed.
BodyBreaksUncommitted(t) ==
    /\ task[t].pc \in {"body", "answer"}
    /\ table' = EvictIfCurrent(t)
    /\ \E e \in SendErrors : Fail(t, e, TRUE)
    /\ UNCHANGED <<cells, made, requests>>

\* The transport breaks under the body, its end or the response.
BodyBreaks(t) ==
    /\ task[t].pc \in {"body", "answer"}
    /\ table' = EvictIfCurrent(t)
    /\ \E e \in BrokenBodyErrors : Fail(t, e, TRUE)
    /\ UNCHANGED <<cells, made, requests>>

\* The body's producer fails or is too slow: the session stays.
ProducerFails(t) ==
    /\ At(t, "body")
    /\ \E e \in RequestBodyErrors : Fail(t, e, TRUE)
    /\ UNCHANGED <<cells, made, table, requests>>

\* The response headers arrive; its body is read by the caller.
Answered(t) ==
    /\ At(t, "answer")
    /\ Goto(t, "stream")
    /\ UNCHANGED <<cells, made, table, requests>>

StreamEnds(t) ==
    /\ At(t, "stream")
    /\ Return(t, TRUE)
    /\ UNCHANGED <<cells, made, table, requests>>

\* The response body breaks: is the cell the current one?  (read lock) ...
StreamBreaks(t) ==
    /\ At(t, "stream")
    /\ IF table[task[t].key] = task[t].cell THEN Goto(t, "streamRemove") ELSE Return(t, TRUE)
    /\ UNCHANGED <<cells, made, table, requests>>

\* ... then the key is removed (write lock).
StreamRemove(t) ==
    /\ At(t, "streamRemove")
    /\ table' = [table EXCEPT ![task[t].key] = NoCell]
    /\ Return(t, TRUE)
    /\ UNCHANGED <<cells, made, requests>>

\* The future is dropped at an await, by the caller or by the total timeout
\* that wraps the attempt; a dropped initializer leaves the cell empty.
Abandon(t) ==
    /\ task[t].pc \in {"init", "establish", "send", "body", "answer", "stream"}
    /\ \/ Return(t, task[t].sent)
       \/ ~At(t, "stream") /\ Fail(t, ForTotalTimeout, task[t].sent)
    /\ cells' = [c \in CellIds |-> IF cells[c].initializer = t
                                   THEN [cells[c] EXCEPT !.initializer = Nobody] ELSE cells[c]]
    /\ UNCHANGED <<made, table, requests>>

\* The sessions somebody still holds; the others close unnoticed.
Held == {table[k] : k \in Keys} \cup {task[t].cell : t \in Tasks}

\* The peer announces that it will take no more streams.
GoAway(c) ==
    /\ c \in Held
    /\ cells[c].ready /\ ~cells[c].goaway /\ ~cells[c].draining
    /\ cells' = [cells EXCEPT ![c].goaway = TRUE]
    /\ UNCHANGED <<made, table, task, requests>>

\* The driver task sees the connection close.
DriverEnds(c) ==
    /\ c \in Held
    /\ cells[c].ready /\ ~cells[c].draining
    /\ cells' = [cells EXCEPT ![c].draining = TRUE]
    /\ UNCHANGED <<made, table, task, requests>>

\* What ends by itself: the connect budget or QUIC's idle timeout ends an
\* establishment, and the runtime polls a request that can go on.
Progress(t) == EnterInit(t) \/ Established(t) \/ EstablishFails(t)

Next ==
    \/ \E t \in Tasks :
        \/ Begin(t) \/ BoundRead(t) \/ BoundRemove(t) \/ GetOrInsert(t) \/ CheckCell(t)
        \/ InsertFresh(t) \/ Progress(t) \/ SendHeaders(t) \/ SendFails(t) \/ SendBody(t)
        \/ BodyBreaks(t) \/ ProducerFails(t) \/ Answered(t) \/ StreamEnds(t) \/ StreamBreaks(t)
        \/ StreamRemove(t) \/ Abandon(t)
    \/ \E c \in CellIds : GoAway(c) \/ DriverEnds(c)

Spec == Init /\ [][Next]_vars

FairSpec == Spec /\ \A t \in Tasks : WF_vars(Progress(t))
-----------------------------------------------------------------------------
\* Sessions come and go without taking each other's requests along: one that was
\* draining when a request arrived is never assigned to it, whatever happens to
\* the cache meanwhile, and a request that fails before its response evicts only
\* the session it used, not the one a concurrent request put in its place.
SessionsStayApart ==
    /\ [](\A t \in Tasks :
             task[t].pc \in {"send", "body", "answer"} => task[t].cell \notin task[t].drained)
    /\ [][\A t \in Tasks :
             task[t].pc \in {"send", "body", "answer"} /\ task'[t].pc = "idle" =>
                 \A k \in Keys : table'[k] # table[k] => table[k] = task[t].cell]_vars

\* An error the dispatch may answer with a fallback (AltSvc!CanFallback) is one
\* of a request whose body has not left.
FallbackIsUnsent == \A t \in Tasks : At(t, "idle") /\ task[t].fallback => ~task[t].sent

\* Whoever awaits another request's establishment gets on: a failed or dropped
\* initializer never leaves the others waiting.
WaitersGoOn == \A t \in Tasks : At(t, "init") ~> ~At(t, "init")
=============================================================================
