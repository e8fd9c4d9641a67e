------------------------- MODULE H3ConnectorProofs -------------------------
(***************************************************************************)
(* Proofs about the HTTP/3 connector: sessions do not take each other's    *)
(* requests along, and an error that allows a fallback is one of a request *)
(* whose body has not left.  They do not depend on the bounds: a cell's    *)
(* number is any natural number here.                                      *)
(***************************************************************************)
EXTENDS H3Connector, TLAPS

RequestType == [pc : Pcs, key : Keys, generation : Gens, cell : Nat, victim : Keys \cup {NoKey},
                drained : SUBSET CellIds, sent : BOOLEAN, fallback : BOOLEAN]

\* The awaits and locks of a request that has been given its session.
Assigned == {"init", "establish", "send", "body", "answer"}

H3Types ==
    /\ cells \in [CellIds -> Cell] /\ made \in Nat
    /\ table \in [Keys -> Nat] /\ task \in [Tasks -> RequestType]

\* Only an established session drains, and it is never established again.
CellOK(c, cs, m) ==
    /\ cs[c].draining => cs[c].ready
    /\ cs[c].goaway => cs[c].ready
    /\ cs[c].initializer # Nobody => ~cs[c].ready
    /\ cs[c].ready => c <= m

\* What request t, with record r, relies on: it owns the cell it establishes, the cells that
\* were draining when it arrived still are, and it works with none of them.
RequestFits(t, r, cs, m) ==
    /\ r.cell <= m
    /\ r.pc = "establish" /\ r.cell \in CellIds => cs[r.cell].initializer = t
    /\ \A c \in r.drained : cs[c].draining
    /\ r.pc \in Assigned => r.cell \notin r.drained
    /\ r.pc = "idle" /\ r.fallback => ~r.sent

H3Inv ==
    /\ H3Types
    /\ \A c \in CellIds : CellOK(c, cells, made)
    /\ \A k \in Keys : table[k] <= made
    /\ \A t \in Tasks : RequestFits(t, task[t], cells, made)

\* What a step of t may do to the cells: draining ones go on draining, and the others keep
\* the cells they establish.
CellsGoOn(t, cs) ==
    \A c \in CellIds :
        /\ cells[c].draining => cs[c].draining
        /\ \A u \in Tasks \ {t} : cells[c].initializer = u => cs[c].initializer = u

\* The records the steps make.
LEMMA RecordsTyped ==
    ASSUME NEW q \in RequestType
    PROVE  /\ \A p \in Pcs : /\ [q EXCEPT !.pc = p] \in RequestType
                             /\ [q EXCEPT !.pc = p, !.sent = TRUE] \in RequestType
           /\ \A p \in Pcs, v \in Keys \cup {NoKey} : [q EXCEPT !.pc = p, !.victim = v] \in RequestType
           /\ \A p \in Pcs, n \in Nat : [q EXCEPT !.pc = p, !.cell = n] \in RequestType
           /\ \A p \in Pcs, k \in Keys, g \in Gens, d \in SUBSET CellIds :
                 [q EXCEPT !.pc = p, !.key = k, !.generation = g, !.drained = d] \in RequestType
<1> DEFINE V == Keys \cup {NoKey}
           D == SUBSET CellIds
<1>1. RequestType = [pc : Pcs, key : Keys, generation : Gens, cell : Nat, victim : V,
                     drained : D, sent : BOOLEAN, fallback : BOOLEAN]
  BY DEF RequestType
<1> HIDE DEF V, D
<1>2. \A p \in Pcs : /\ [q EXCEPT !.pc = p] \in RequestType
                     /\ [q EXCEPT !.pc = p, !.sent = TRUE] \in RequestType
  BY <1>1
<1>3. \A p \in Pcs, v \in V : [q EXCEPT !.pc = p, !.victim = v] \in RequestType
  BY <1>1
<1>4. \A p \in Pcs, n \in Nat : [q EXCEPT !.pc = p, !.cell = n] \in RequestType
  BY <1>1
<1>5. \A p \in Pcs, k \in Keys, g \in Gens, d \in D :
          [q EXCEPT !.pc = p, !.key = k, !.generation = g, !.drained = d] \in RequestType
  BY <1>1
<1>6. QED
  BY <1>2, <1>3, <1>4, <1>5 DEF V, D

\* A caller without a request fits.
LEMMA IdleFits ==
    ASSUME NEW f \in BOOLEAN, NEW s \in BOOLEAN, f => ~s
    PROVE  /\ Idle(f, s) \in RequestType /\ Idle(f, s).pc = "idle"
           /\ \A t, cs : \A m \in Nat : RequestFits(t, Idle(f, s), cs, m)
<1> DEFINE k == CHOOSE x \in Keys : TRUE
           g == CHOOSE x \in Gens : TRUE
<1>1. k \in Keys /\ g \in Gens
  BY H3Assumption
<1>2. Idle(f, s) = [pc |-> "idle", key |-> k, generation |-> g, cell |-> 0, victim |-> NoKey,
                    drained |-> {}, sent |-> s, fallback |-> f]
  BY DEF Idle, NoCell
<1> HIDE DEF k, g
<1>3. "idle" \in Pcs /\ {} \in SUBSET CellIds /\ 0 \in Nat
  BY DEF Pcs
<1>4. Idle(f, s) \in RequestType
  BY <1>1, <1>2, <1>3 DEF RequestType
<1>5. QED
  BY <1>2, <1>4 DEF RequestFits, Assigned

\* Which errors allow a fallback: none of the body phase, and no total timeout.
LEMMA FallbackErrors ==
    /\ \A e \in BrokenBodyErrors \cup RequestBodyErrors : AllowsFallback(e) = FALSE
    /\ AllowsFallback(ForTotalTimeout) = FALSE
    /\ \A e : AllowsFallback(e) \in BOOLEAN
<1>1. \A v, d : DispatchError(v, TRUE, d).body_committed = TRUE
  BY DEF DispatchError
<1>2. \A e \in BrokenBodyErrors \cup RequestBodyErrors : e.body_committed = TRUE
  BY <1>1 DEF BrokenBodyErrors, RequestBodyErrors
<1>3. ForTotalTimeout.failure_class = "Other"
  BY DEF ForTotalTimeout, DispatchError, FailureClass
<1>4. QED
  BY <1>2, <1>3 DEF AllowsFallback, SafeForFallback

\* One request's record changes: the others still fit.
LEMMA OneRequest ==
    ASSUME H3Inv, NEW t \in Tasks, NEW r \in RequestType, task' = [task EXCEPT ![t] = r],
           cells' \in [CellIds -> Cell], \A c \in CellIds : CellOK(c, cells', made'),
           made' \in Nat, made <= made', CellsGoOn(t, cells'),
           table' \in [Keys -> Nat], \A k \in Keys : table'[k] <= made',
           RequestFits(t, r, cells', made')
    PROVE  H3Inv'
<1>1. task \in [Tasks -> RequestType] /\ made \in Nat /\ \A u \in Tasks : RequestFits(u, task[u], cells, made)
  BY DEF H3Inv, H3Types
<1>2. task' \in [Tasks -> RequestType] /\ task'[t] = r /\ \A u \in Tasks \ {t} : task'[u] = task[u]
  BY <1>1
<1>3. ASSUME NEW u \in Tasks
      PROVE  RequestFits(u, task'[u], cells', made')
  <2>1. CASE u = t
    BY <1>2, <2>1
  <2>2. CASE u # t
    <3>1. RequestFits(u, task[u], cells, made) /\ task'[u] = task[u] /\ task[u].cell \in Nat
          /\ task[u].drained \subseteq CellIds
      BY <1>1, <1>2, <2>2 DEF RequestType
    <3>2. task[u].cell <= made'
      BY <1>1, <3>1 DEF RequestFits
    <3>3. \A c \in task[u].drained : cells'[c].draining
      BY <3>1 DEF RequestFits, CellsGoOn
    <3>4. task[u].pc = "establish" /\ task[u].cell \in CellIds => cells'[task[u].cell].initializer = u
      BY <2>2, <3>1 DEF RequestFits, CellsGoOn
    <3>5. QED
      BY <3>1, <3>2, <3>3, <3>4 DEF RequestFits
  <2>3. QED
    BY <2>1, <2>2
<1>4. H3Types'
  BY <1>2 DEF H3Types
<1>5. QED
  BY <1>3, <1>4 DEF H3Inv

\* The same for a step that leaves the cells alone.
LEMMA QuietRequest ==
    ASSUME H3Inv, NEW t \in Tasks, NEW r \in RequestType, task' = [task EXCEPT ![t] = r],
           UNCHANGED <<cells, made>>, table' \in [Keys -> Nat],
           \A k \in Keys : table'[k] <= made, RequestFits(t, r, cells, made)
    PROVE  H3Inv'
<1>1. cells \in [CellIds -> Cell] /\ made \in Nat /\ \A c \in CellIds : CellOK(c, cells, made)
  BY DEF H3Inv, H3Types
<1>2. cells' = cells /\ made' = made /\ CellsGoOn(t, cells)
  BY DEF CellsGoOn
<1>3. /\ cells' \in [CellIds -> Cell] /\ (\A c \in CellIds : CellOK(c, cells', made'))
      /\ made' \in Nat /\ made <= made' /\ CellsGoOn(t, cells')
      /\ (\A k \in Keys : table'[k] <= made') /\ RequestFits(t, r, cells', made')
  BY <1>1, <1>2
<1>4. QED
  BY <1>3, OneRequest

\* The same for a step that makes no cell and leaves the table as it is or drops a key of it.
LEMMA CellsRequest ==
    ASSUME H3Inv, NEW t \in Tasks, NEW r \in RequestType, task' = [task EXCEPT ![t] = r],
           cells' \in [CellIds -> Cell], \A c \in CellIds : CellOK(c, cells', made),
           made' = made, CellsGoOn(t, cells'), table' \in [Keys -> Nat],
           \A k \in Keys : table'[k] <= made, RequestFits(t, r, cells', made)
    PROVE  H3Inv'
<1>1. made \in Nat
  BY DEF H3Inv, H3Types
<1>2. /\ (\A c \in CellIds : CellOK(c, cells', made')) /\ made' \in Nat /\ made <= made'
      /\ (\A k \in Keys : table'[k] <= made') /\ RequestFits(t, r, cells', made')
  BY <1>1
<1>3. QED
  BY <1>2, OneRequest

\* Removing a key from the table, or not.
LEMMA KeyRemoved ==
    ASSUME H3Inv, NEW k, table' \in {table, [table EXCEPT ![k] = NoCell]}
    PROVE  table' \in [Keys -> Nat] /\ \A x \in Keys : table'[x] <= made
BY DEF H3Inv, H3Types, NoCell

\* Every step keeps the invariant.
LEMMA H3Step ==
    ASSUME H3Inv, [Next]_vars
    PROVE  H3Inv'
<1> USE H3Assumption
<1>t. /\ cells \in [CellIds -> Cell] /\ made \in Nat /\ table \in [Keys -> Nat]
      /\ task \in [Tasks -> RequestType] /\ (\A c \in CellIds : CellOK(c, cells, made))
      /\ (\A k \in Keys : table[k] <= made) /\ \A t \in Tasks : RequestFits(t, task[t], cells, made)
  BY DEF H3Inv, H3Types
<1>r. ASSUME NEW t \in Tasks
      PROVE  /\ task[t] \in RequestType /\ RequestFits(t, task[t], cells, made)
             /\ task[t].key \in Keys /\ task[t].cell \in Nat /\ task[t].drained \subseteq CellIds
             /\ task[t].sent \in BOOLEAN /\ task[t].generation \in Gens
  BY <1>t DEF RequestType
<1>p. ASSUME NEW t \in Tasks, NEW p \in Pcs, task' = [task EXCEPT ![t].pc = p], p \notin {"establish", "idle"},
             p \in Assigned => task[t].cell \notin task[t].drained,
             UNCHANGED <<cells, made>>, table' \in [Keys -> Nat], \A k \in Keys : table'[k] <= made
      PROVE  H3Inv'
  <2> DEFINE r == [task[t] EXCEPT !.pc = p]
  <2>1. task' = [task EXCEPT ![t] = r]
    BY <1>p, <1>t
  <2>2. r \in RequestType /\ r.pc = p /\ r.cell = task[t].cell /\ r.drained = task[t].drained
    BY <1>r DEF RequestType
  <2> HIDE DEF r
  <2>3. RequestFits(t, r, cells, made)
    BY <1>p, <1>r, <2>2 DEF RequestFits
  <2>4. QED
    BY <1>p, <2>1, <2>2, <2>3, QuietRequest
<1>i. ASSUME NEW t \in Tasks, NEW f \in BOOLEAN, NEW s \in BOOLEAN, f => ~s,
             task' = [task EXCEPT ![t] = Idle(f, s)],
             UNCHANGED <<cells, made>>, table' \in [Keys -> Nat], \A k \in Keys : table'[k] <= made
      PROVE  H3Inv'
  <2>1. Idle(f, s) \in RequestType /\ RequestFits(t, Idle(f, s), cells, made)
    BY <1>i, <1>t, IdleFits
  <2>2. QED
    BY <1>i, <2>1, QuietRequest
<1>e. ASSUME NEW t \in Tasks
      PROVE  EvictIfCurrent(t) \in {table, [table EXCEPT ![task[t].key] = NoCell]}
  BY DEF EvictIfCurrent
<1>1. CASE UNCHANGED vars
  <2>1. cells' = cells /\ made' = made /\ table' = table /\ task' = task
    BY <1>1 DEF vars
  <2>2. QED
    BY <1>t, <2>1 DEF H3Inv, H3Types
<1>2. ASSUME NEW t \in Tasks, Begin(t)
      PROVE  H3Inv'
  <2>1. PICK target \in Targets :
           task' = [task EXCEPT ![t] =
               [Idle(FALSE, FALSE) EXCEPT !.pc = "bound", !.key = target[1], !.generation = target[2],
                   !.drained = {c \in CellIds : cells[c].draining}]]
    BY <1>2 DEF Begin
  <2> DEFINE d == {c \in CellIds : cells[c].draining}
             k == target[1]
             g == target[2]
             i == Idle(FALSE, FALSE)
             r == [i EXCEPT !.pc = "bound", !.key = k, !.generation = g, !.drained = d]
  <2>2. k \in Keys /\ g \in Gens /\ d \in SUBSET CellIds /\ "bound" \in Pcs
    BY DEF Pcs
  <2>3. i \in RequestType /\ i.cell = 0
    <3>1. i \in RequestType
      BY IdleFits
    <3>2. QED
      BY <3>1 DEF Idle, NoCell
  <2>4. task' = [task EXCEPT ![t] = r] /\ UNCHANGED <<cells, made, table>>
    BY <1>2, <2>1 DEF Begin
  <2>5. \A c \in d : cells[c].draining
    OBVIOUS
  <2> HIDE DEF d, k, g, i
  <2>6. r \in RequestType
    BY <2>2, <2>3, RecordsTyped
  <2>7. r.pc = "bound" /\ r.cell = 0 /\ r.drained = d
    BY <2>3 DEF RequestType
  <2> HIDE DEF r
  <2>8. RequestFits(t, r, cells, made)
    BY <1>t, <2>5, <2>7 DEF RequestFits, Assigned
  <2>9. QED
    BY <1>t, <2>4, <2>6, <2>8, QuietRequest
<1>3. ASSUME NEW t \in Tasks, BoundRead(t)
      PROVE  H3Inv'
  <2>1. UNCHANGED <<cells, made, table>> /\ task[t].pc \in {"bound", "rebound"}
    BY <1>3 DEF BoundRead
  <2>2. CASE \E p \in {"get", "insert"} : Goto(t, p)
    BY <1>p, <1>t, <2>1, <2>2 DEF Goto, Pcs, Assigned
  <2>3. ASSUME NEW p \in {"boundRemove", "reboundRemove"}, NEW v \in Keys,
               task' = [task EXCEPT ![t].pc = p, ![t].victim = v]
        PROVE  H3Inv'
    <3> DEFINE r == [task[t] EXCEPT !.pc = p, !.victim = v]
    <3>1. task' = [task EXCEPT ![t] = r]
      BY <1>t, <2>3
    <3>2. r \in RequestType
      <4>1. p \in Pcs /\ v \in Keys \cup {NoKey}
        BY DEF Pcs
      <4>2. QED
        BY <1>r, <4>1, RecordsTyped
    <3>3. r.pc = p /\ r.cell = task[t].cell /\ r.drained = task[t].drained
      BY <1>r DEF RequestType
    <3> HIDE DEF r
    <3>4. RequestFits(t, r, cells, made)
      BY <1>r, <3>3 DEF RequestFits, Assigned
    <3>5. QED
      BY <1>t, <2>1, <3>1, <3>2, <3>4, QuietRequest
  <2>4. QED
    <3>1. Present \subseteq Keys
      BY DEF Present
    <3>2. QED
      BY <1>3, <2>2, <2>3, <3>1 DEF BoundRead
<1>4. ASSUME NEW t \in Tasks, BoundRemove(t)
      PROVE  H3Inv'
  <2> DEFINE p == IF At(t, "boundRemove") THEN "get" ELSE "insert"
             r == [task[t] EXCEPT !.pc = p, !.victim = NoKey]
  <2>1. UNCHANGED <<cells, made>> /\ table' = [table EXCEPT ![task[t].victim] = NoCell]
        /\ task' = [task EXCEPT ![t].pc = p, ![t].victim = NoKey]
    BY <1>4 DEF BoundRemove
  <2>2. p \in Pcs /\ p \in {"get", "insert"} /\ NoKey \in Keys \cup {NoKey}
    BY DEF Pcs
  <2> HIDE DEF p
  <2>3. task' = [task EXCEPT ![t] = r]
    BY <1>t, <2>1
  <2>4. r \in RequestType
    BY <1>r, <2>2, RecordsTyped
  <2>5. r.pc = p /\ r.cell = task[t].cell /\ r.drained = task[t].drained
    BY <1>r DEF RequestType
  <2> HIDE DEF r
  <2>6. RequestFits(t, r, cells, made)
    BY <1>r, <2>2, <2>5 DEF RequestFits, Assigned
  <2>7. table' \in {table, [table EXCEPT ![task[t].victim] = NoCell]}
    BY <2>1
  <2>8. table' \in [Keys -> Nat] /\ \A x \in Keys : table'[x] <= made
    BY <2>7, KeyRemoved
  <2>9. QED
    BY <2>1, <2>3, <2>4, <2>6, <2>8, QuietRequest
<1>n. ASSUME NEW t \in Tasks, NEW p \in {"check", "init"}, made' = made + 1, cells' = cells,
             table' = [table EXCEPT ![task[t].key] = made + 1],
             task' = [task EXCEPT ![t].pc = p, ![t].cell = made + 1]
      PROVE  H3Inv'
  <2> DEFINE n == made + 1
             r == [task[t] EXCEPT !.pc = p, !.cell = n]
  <2>1. task' = [task EXCEPT ![t] = r]
    BY <1>n, <1>t
  <2>2. n \in Nat /\ made <= n /\ n <= n /\ ~(n <= made)
    BY <1>t
  <2>3. \A c \in CellIds : CellOK(c, cells, n)
    <3>1. CellIds \subseteq Nat
      BY DEF CellIds
    <3>2. QED
      BY <1>t, <3>1 DEF CellOK
  <2>4. n \notin task[t].drained
    <3>1. n \in CellIds => ~cells[n].ready
      BY <1>t, <2>2 DEF CellOK
    <3>2. \A c \in task[t].drained : c \in CellIds /\ cells[c].draining
      BY <1>r DEF RequestFits
    <3>3. \A c \in task[t].drained : cells[c].ready
      BY <1>t, <3>2 DEF CellOK
    <3>4. QED
      BY <3>1, <3>2, <3>3
  <2>5. table' \in [Keys -> Nat] /\ \A x \in Keys : table'[x] <= n
    <3>1. table' = [table EXCEPT ![task[t].key] = n]
      BY <1>n
    <3> HIDE DEF n
    <3>2. \A x \in Keys : table'[x] = n \/ table'[x] = table[x]
      BY <1>t, <3>1
    <3>3. \A x \in Keys : table[x] <= n
      BY <1>t, <2>2
    <3>4. QED
      BY <1>t, <2>2, <3>1, <3>2, <3>3
  <2>6. made' = n
    BY <1>n
  <2> HIDE DEF n
  <2>7. r \in RequestType
    <3>1. p \in Pcs
      BY DEF Pcs
    <3>2. QED
      BY <1>r, <2>2, <3>1, RecordsTyped
  <2>8. r.pc = p /\ r.cell = n /\ r.drained = task[t].drained
    BY <1>r DEF RequestType
  <2> HIDE DEF r
  <2>9. RequestFits(t, r, cells, n)
    BY <1>r, <2>2, <2>4, <2>8 DEF RequestFits
  <2>10. CellsGoOn(t, cells)
    BY DEF CellsGoOn
  <2>11. QED
    <3>1. /\ cells' \in [CellIds -> Cell] /\ (\A c \in CellIds : CellOK(c, cells', made'))
          /\ made' \in Nat /\ made <= made' /\ CellsGoOn(t, cells')
          /\ (\A k \in Keys : table'[k] <= made') /\ RequestFits(t, r, cells', made')
      BY <1>n, <1>t, <2>2, <2>3, <2>5, <2>6, <2>9, <2>10
    <3>2. QED
      BY <2>1, <2>5, <2>7, <3>1, OneRequest
<1>5. ASSUME NEW t \in Tasks, GetOrInsert(t)
      PROVE  H3Inv'
  <2> DEFINE n == table[task[t].key]
             r == [task[t] EXCEPT !.pc = "check", !.cell = n]
  <2>1. CASE task' = [task EXCEPT ![t].pc = "check", ![t].cell = n] /\ UNCHANGED <<cells, made, table>>
    <3>1. task' = [task EXCEPT ![t] = r]
      BY <1>t, <2>1
    <3>2. n \in Nat /\ n <= made
      BY <1>t, <1>r
    <3> HIDE DEF n
    <3>3. r \in RequestType
      <4>1. "check" \in Pcs
        BY DEF Pcs
      <4>2. QED
        BY <1>r, <3>2, <4>1, RecordsTyped
    <3>4. r.pc = "check" /\ r.cell = n /\ r.drained = task[t].drained
      BY <1>r DEF RequestType
    <3> HIDE DEF r
    <3>5. RequestFits(t, r, cells, made)
      BY <1>r, <3>2, <3>4 DEF RequestFits, Assigned
    <3>6. QED
      BY <1>t, <2>1, <3>1, <3>3, <3>5, QuietRequest
  <2>2. QED
    BY <1>5, <1>n, <2>1 DEF GetOrInsert
<1>6. ASSUME NEW t \in Tasks, CheckCell(t)
      PROVE  H3Inv'
  <2>0. UNCHANGED <<cells, made>> /\ table' \in {table, [table EXCEPT ![task[t].key] = NoCell]}
    BY <1>6, <1>e DEF CheckCell
  <2>1. table' \in [Keys -> Nat] /\ \A x \in Keys : table'[x] <= made
    BY <2>0, KeyRemoved
  <2>2. CASE Goto(t, "rebound")
    BY <1>p, <2>0, <2>1, <2>2 DEF Goto, Pcs, Assigned
  <2>3. CASE ~Unfit(t) /\ \E p \in {"send", "init"} : Goto(t, p)
    <3>1. task[t].cell \notin task[t].drained
      <4> SUFFICES ASSUME task[t].cell \in task[t].drained
                   PROVE  FALSE
        OBVIOUS
      <4>1. task[t].cell \in CellIds /\ cells[task[t].cell].draining
        BY <1>r DEF RequestFits
      <4>2. cells[task[t].cell].ready
        BY <1>t, <4>1 DEF CellOK
      <4>3. QED
        BY <2>3, <4>1, <4>2 DEF Unfit, CellOf
    <3>2. QED
      BY <1>p, <2>0, <2>1, <2>3, <3>1 DEF Goto, Pcs
  <2>4. QED
    BY <1>6, <2>2, <2>3 DEF CheckCell
<1>7. ASSUME NEW t \in Tasks, InsertFresh(t)
      PROVE  H3Inv'
  BY <1>7, <1>n DEF InsertFresh
<1>d. ASSUME NEW t \in Tasks, task[t].pc \in Assigned
      PROVE  task[t].cell \notin task[t].drained
  BY <1>d, <1>r DEF RequestFits
<1>8. ASSUME NEW t \in Tasks, EnterInit(t)
      PROVE  H3Inv'
  <2>1. task[t].pc = "init" /\ UNCHANGED <<made, table>>
    BY <1>8 DEF EnterInit, At
  <2>2. CASE Goto(t, "send") /\ UNCHANGED cells
    BY <1>d, <1>p, <1>t, <2>1, <2>2 DEF Goto, Pcs, Assigned
  <2>3. CASE /\ ~CellOf(t).ready /\ CellOf(t).initializer = Nobody
             /\ cells' = [cells EXCEPT ![task[t].cell].initializer = t]
             /\ Goto(t, "establish")
    <3> DEFINE n == task[t].cell
               r == [task[t] EXCEPT !.pc = "establish"]
    <3>1. task' = [task EXCEPT ![t] = r]
      BY <1>t, <2>3 DEF Goto
    <3>2. r \in RequestType
      BY <1>r DEF RequestType, Pcs
    <3>3. r.pc = "establish" /\ r.cell = n /\ r.drained = task[t].drained
      BY <1>r DEF RequestType
    <3> HIDE DEF r
    <3>4. cells' \in [CellIds -> Cell]
      BY <1>t, <2>3, ZenonT(60) DEF Cell
    <3>5. \A c \in CellIds \ {n} : cells'[c] = cells[c]
      BY <1>t, <2>3
    <3>6. n \in CellIds => /\ cells'[n].initializer = t /\ cells'[n].ready = cells[n].ready
                           /\ cells'[n].draining = cells[n].draining /\ cells'[n].goaway = cells[n].goaway
      BY <1>t, <2>3 DEF Cell
    <3>7. ~cells[n].ready /\ cells[n].initializer = Nobody
      BY <2>3 DEF CellOf
    <3>8. \A c \in CellIds : CellOK(c, cells', made)
      BY <1>t, <3>5, <3>6, <3>7 DEF CellOK
    <3>9. CellsGoOn(t, cells')
      BY <3>5, <3>6, <3>7 DEF CellsGoOn
    <3>10. n \notin task[t].drained
      BY <1>d, <2>1 DEF Assigned
    <3>11. \A c \in task[t].drained : cells'[c].draining
      BY <1>r, <3>9 DEF RequestFits, CellsGoOn
    <3>12. RequestFits(t, r, cells', made)
      BY <1>r, <3>3, <3>6, <3>10, <3>11 DEF RequestFits
    <3>13. QED
      BY <1>t, <2>1, <3>1, <3>2, <3>4, <3>8, <3>9, <3>12, CellsRequest
  <2>4. QED
    BY <1>8, <2>2, <2>3 DEF EnterInit
<1>9. ASSUME NEW t \in Tasks, Established(t)
      PROVE  H3Inv'
  <2> DEFINE n == task[t].cell
             r == [task[t] EXCEPT !.pc = "send"]
             w == [EmptyCell EXCEPT !.ready = TRUE, !.generation = task[t].generation]
  <2>1. /\ task[t].pc = "establish" /\ UNCHANGED <<made, table>>
        /\ cells' = [cells EXCEPT ![n] = w] /\ task' = [task EXCEPT ![t].pc = "send"]
    BY <1>9 DEF Established, At, Goto
  <2>2. task' = [task EXCEPT ![t] = r]
    BY <1>t, <2>1
  <2>3. r \in RequestType
    BY <1>r DEF RequestType, Pcs
  <2>4. r.pc = "send" /\ r.cell = n /\ r.drained = task[t].drained
    BY <1>r DEF RequestType
  <2> HIDE DEF r
  <2>5. w \in Cell /\ w.initializer = Nobody /\ w.ready = TRUE /\ w.draining = FALSE /\ w.goaway = FALSE
    <3> DEFINE g == CHOOSE x \in Gens : TRUE
    <3>1. g \in Gens
      OBVIOUS
    <3>2. EmptyCell = [initializer |-> Nobody, ready |-> FALSE, generation |-> g,
                       goaway |-> FALSE, draining |-> FALSE]
      BY DEF EmptyCell
    <3> HIDE DEF g
    <3>3. QED
      BY <1>r, <3>1, <3>2 DEF Cell
  <2> HIDE DEF w
  <2>6. cells' \in [CellIds -> Cell] /\ (\A c \in CellIds \ {n} : cells'[c] = cells[c])
        /\ (n \in CellIds => cells'[n] = w)
    BY <1>t, <2>1, <2>5
  <2>7. n \in CellIds => cells[n].initializer = t /\ ~cells[n].ready /\ ~cells[n].draining
    <3>1. n \in CellIds => cells[n].initializer = t
      BY <1>r, <2>1 DEF RequestFits
    <3>2. QED
      BY <1>t, <3>1 DEF CellOK
  <2>8. n <= made /\ n \notin task[t].drained
    BY <1>d, <1>r, <2>1 DEF RequestFits, Assigned
  <2>9. \A c \in CellIds : CellOK(c, cells', made)
    BY <1>t, <2>5, <2>6, <2>8 DEF CellOK
  <2>10. CellsGoOn(t, cells')
    BY <2>6, <2>7 DEF CellsGoOn
  <2>11. \A c \in task[t].drained : cells'[c].draining
    BY <1>r, <2>10 DEF RequestFits, CellsGoOn
  <2>12. RequestFits(t, r, cells', made)
    BY <2>4, <2>8, <2>11 DEF RequestFits
  <2>13. QED
    BY <1>t, <2>1, <2>2, <2>3, <2>6, <2>9, <2>10, <2>12, CellsRequest
<1>c. ASSUME NEW t \in Tasks, NEW f \in BOOLEAN, NEW s \in BOOLEAN, f => ~s,
             task' = [task EXCEPT ![t] = Idle(f, s)], made' = made,
             cells' \in [CellIds -> Cell], \A c \in CellIds : CellOK(c, cells', made),
             CellsGoOn(t, cells'), table' \in [Keys -> Nat], \A k \in Keys : table'[k] <= made
      PROVE  H3Inv'
  <2>1. Idle(f, s) \in RequestType /\ RequestFits(t, Idle(f, s), cells', made)
    BY <1>c, <1>t, IdleFits
  <2>2. QED
    BY <1>c, <2>1, CellsRequest
<1>10. ASSUME NEW t \in Tasks, EstablishFails(t)
       PROVE  H3Inv'
  <2> DEFINE n == task[t].cell
  <2>1. /\ cells' = [cells EXCEPT ![n].initializer = Nobody] /\ UNCHANGED <<made, table>>
        /\ task[t].pc = "establish"
    BY <1>10 DEF EstablishFails, At
  <2>2. PICK e \in ConnectErrors : task' = [task EXCEPT ![t] = Idle(AllowsFallback(e), FALSE)]
    BY <1>10 DEF EstablishFails, Fail
  <2>3. cells' \in [CellIds -> Cell]
    BY <1>t, <2>1 DEF Cell
  <2>4. \A c \in CellIds \ {n} : cells'[c] = cells[c]
    BY <1>t, <2>1
  <2>5. n \in CellIds => /\ cells'[n].initializer = Nobody /\ cells'[n].ready = cells[n].ready
                         /\ cells'[n].draining = cells[n].draining /\ cells'[n].goaway = cells[n].goaway
    BY <1>t, <2>1 DEF Cell
  <2>6. n \in CellIds => cells[n].initializer = t
    BY <1>r, <2>1 DEF RequestFits
  <2>7. \A c \in CellIds : CellOK(c, cells', made)
    BY <1>t, <2>4, <2>5 DEF CellOK
  <2>8. CellsGoOn(t, cells')
    BY <2>4, <2>5, <2>6 DEF CellsGoOn
  <2>9. AllowsFallback(e) \in BOOLEAN
    BY FallbackErrors
  <2>10. QED
    BY <1>c, <1>t, <2>1, <2>2, <2>3, <2>7, <2>8, <2>9
<1>11. ASSUME NEW t \in Tasks, SendHeaders(t) \/ Answered(t)
       PROVE  H3Inv'
  <2>1. UNCHANGED <<cells, made, table>> /\ task[t].pc \in Assigned
        /\ \E p \in {"body", "stream"} : task' = [task EXCEPT ![t].pc = p]
    BY <1>11 DEF SendHeaders, Answered, At, Assigned, Goto
  <2>2. QED
    BY <1>d, <1>p, <1>t, <2>1 DEF Pcs
<1>12. ASSUME NEW t \in Tasks, SendFails(t)
       PROVE  H3Inv'
  <2> DEFINE n == task[t].cell
             b == cells[n].draining \/ cells[n].goaway
  <2>1. /\ cells' = [cells EXCEPT ![n].draining = b] /\ made' = made
        /\ table' \in {table, [table EXCEPT ![task[t].key] = NoCell]}
    BY <1>12, <1>e DEF SendFails, CellOf
  <2>2. PICK e \in SendErrors : task' = [task EXCEPT ![t] = Idle(AllowsFallback(e), FALSE)]
    BY <1>12 DEF SendFails, Fail
  <2>b. b \in BOOLEAN /\ (n \in CellIds => (b <=> cells[n].draining \/ cells[n].goaway))
    OBVIOUS
  <2> HIDE DEF b
  <2>3. cells' \in [CellIds -> Cell]
    <3>1. CASE n \in CellIds
      <4> DEFINE w == [cells[n] EXCEPT !.draining = b]
      <4>1. cells' = [cells EXCEPT ![n] = w]
        BY <2>1
      <4>2. w \in Cell
        BY <1>t, <2>b, <3>1 DEF Cell
      <4> HIDE DEF w
      <4>3. QED
        BY <1>t, <4>1, <4>2
    <3>2. CASE n \notin CellIds
      BY <1>t, <2>1, <3>2
    <3>3. QED
      BY <3>1, <3>2
  <2>4. \A c \in CellIds \ {n} : cells'[c] = cells[c]
    BY <1>t, <2>1
  <2>5. n \in CellIds => /\ cells'[n].initializer = cells[n].initializer /\ cells'[n].ready = cells[n].ready
                         /\ cells'[n].draining = b /\ cells'[n].goaway = cells[n].goaway
    BY <1>t, <2>1 DEF Cell
  <2>6. \A c \in CellIds : CellOK(c, cells', made)
    BY <1>t, <2>4, <2>5, <2>b DEF CellOK
  <2>7. CellsGoOn(t, cells')
    BY <2>4, <2>5, <2>b DEF CellsGoOn
  <2>8. table' \in [Keys -> Nat] /\ \A x \in Keys : table'[x] <= made
    BY <2>1, KeyRemoved
  <2>9. AllowsFallback(e) \in BOOLEAN
    BY FallbackErrors
  <2>10. QED
    BY <1>c, <2>1, <2>2, <2>3, <2>6, <2>7, <2>8, <2>9
<1>13. ASSUME NEW t \in Tasks, SendBody(t)
       PROVE  H3Inv'
  <2> DEFINE r == [task[t] EXCEPT !.pc = "answer", !.sent = TRUE]
  <2>1. task' = [task EXCEPT ![t] = r] /\ UNCHANGED <<cells, made, table>> /\ task[t].pc = "body"
    BY <1>13, <1>t DEF SendBody, At
  <2>2. r \in RequestType
    <3>1. "answer" \in Pcs
      BY DEF Pcs
    <3>2. QED
      BY <1>r, <3>1, RecordsTyped
  <2>3. r.pc = "answer" /\ r.cell = task[t].cell /\ r.drained = task[t].drained
    BY <1>r DEF RequestType
  <2> HIDE DEF r
  <2>4. RequestFits(t, r, cells, made)
    BY <1>r, <2>1, <2>3 DEF RequestFits, Assigned
  <2>5. QED
    BY <1>t, <2>1, <2>2, <2>4, QuietRequest
<1>14. ASSUME NEW t \in Tasks, BodyBreaks(t) \/ ProducerFails(t)
       PROVE  H3Inv'
  <2>1. UNCHANGED <<cells, made>> /\ table' \in {table, [table EXCEPT ![task[t].key] = NoCell]}
    BY <1>14, <1>e DEF BodyBreaks, ProducerFails
  <2>2. table' \in [Keys -> Nat] /\ \A x \in Keys : table'[x] <= made
    BY <2>1, KeyRemoved
  <2>3. PICK e \in BrokenBodyErrors \cup RequestBodyErrors :
            task' = [task EXCEPT ![t] = Idle(AllowsFallback(e), TRUE)]
    BY <1>14 DEF BodyBreaks, ProducerFails, Fail
  <2>4. AllowsFallback(e) = FALSE
    BY FallbackErrors
  <2>5. QED
    BY <1>i, <2>1, <2>2, <2>3, <2>4
<1>15. ASSUME NEW t \in Tasks, StreamEnds(t) \/ StreamBreaks(t) \/ StreamRemove(t)
       PROVE  H3Inv'
  <2>1. UNCHANGED <<cells, made>> /\ table' \in {table, [table EXCEPT ![task[t].key] = NoCell]}
    BY <1>15 DEF StreamEnds, StreamBreaks, StreamRemove
  <2>2. table' \in [Keys -> Nat] /\ \A x \in Keys : table'[x] <= made
    BY <2>1, KeyRemoved
  <2>3. CASE Return(t, TRUE)
    BY <1>i, <2>1, <2>2, <2>3 DEF Return
  <2>4. CASE Goto(t, "streamRemove")
    BY <1>p, <2>1, <2>2, <2>4 DEF Goto, Pcs, Assigned
  <2>5. QED
    BY <1>15, <2>3, <2>4 DEF StreamEnds, StreamBreaks, StreamRemove
<1>16. ASSUME NEW t \in Tasks, Abandon(t)
       PROVE  H3Inv'
  <2>1. UNCHANGED <<made, table>>
        /\ cells' = [c \in CellIds |-> IF cells[c].initializer = t
                                       THEN [cells[c] EXCEPT !.initializer = Nobody] ELSE cells[c]]
    BY <1>16 DEF Abandon
  <2>2. task' = [task EXCEPT ![t] = Idle(FALSE, task[t].sent)]
    <3>1. CASE Return(t, task[t].sent)
      BY <3>1 DEF Return
    <3>2. CASE Fail(t, ForTotalTimeout, task[t].sent)
      BY <3>2, FallbackErrors DEF Fail
    <3>3. QED
      BY <1>16, <3>1, <3>2 DEF Abandon
  <2>3. cells' \in [CellIds -> Cell]
    BY <1>t, <2>1 DEF Cell
  <2>4. \A c \in CellIds : /\ cells'[c].ready = cells[c].ready /\ cells'[c].draining = cells[c].draining
                           /\ cells'[c].goaway = cells[c].goaway
                           /\ cells'[c].initializer = IF cells[c].initializer = t THEN Nobody
                                                      ELSE cells[c].initializer
    BY <1>t, <2>1 DEF Cell
  <2>5. \A c \in CellIds : CellOK(c, cells', made)
    BY <1>t, <2>4 DEF CellOK
  <2>6. CellsGoOn(t, cells')
    BY <2>4 DEF CellsGoOn
  <2>7. QED
    BY <1>c, <1>r, <1>t, <2>1, <2>2, <2>3, <2>5, <2>6
<1>17. ASSUME NEW n \in CellIds, GoAway(n) \/ DriverEnds(n)
       PROVE  H3Inv'
  <2>1. UNCHANGED <<made, table, task>> /\ cells[n].ready
    BY <1>17 DEF GoAway, DriverEnds
  <2> DEFINE v == [cells[n] EXCEPT !.goaway = TRUE]
             w == [cells[n] EXCEPT !.draining = TRUE]
  <2>a. v \in Cell /\ w \in Cell
    BY <1>t DEF Cell
  <2>b. \A x \in {v, w} : /\ x.ready = cells[n].ready /\ x.initializer = cells[n].initializer
                          /\ (cells[n].draining => x.draining)
    BY <1>t DEF Cell
  <2>c. cells' = [cells EXCEPT ![n] = v] \/ cells' = [cells EXCEPT ![n] = w]
    BY <1>17 DEF GoAway, DriverEnds
  <2> HIDE DEF v, w
  <2>2. cells' \in [CellIds -> Cell] /\ \A c \in CellIds \ {n} : cells'[c] = cells[c]
    BY <1>t, <2>a, <2>c
  <2>3. cells'[n].ready = cells[n].ready /\ cells'[n].initializer = cells[n].initializer
        /\ (cells[n].draining => cells'[n].draining)
    BY <1>t, <2>b, <2>c
  <2>4. \A c \in CellIds : CellOK(c, cells', made)
    BY <1>t, <2>1, <2>2, <2>3 DEF CellOK
  <2>5. ASSUME NEW t \in Tasks
        PROVE  RequestFits(t, task[t], cells', made)
    BY <1>r, <2>2, <2>3 DEF RequestFits
  <2>6. QED
    BY <1>t, <2>1, <2>2, <2>4, <2>5 DEF H3Inv, H3Types
<1>18. QED
  BY <1>1, <1>2, <1>3, <1>4, <1>5, <1>6, <1>7, <1>8, <1>9, <1>10, <1>11, <1>12, <1>13, <1>14,
     <1>15, <1>16, <1>17 DEF Next, Progress

\* For any callers, origins and generations: the invariant.
THEOREM H3Invariant == Spec => []H3Inv
<1>1. Init => H3Inv
  <2> SUFFICES ASSUME Init
               PROVE  H3Inv
    OBVIOUS
  <2> USE H3Assumption
  <2> DEFINE g == CHOOSE x \in Gens : TRUE
  <2>1. /\ cells = [c \in CellIds |-> EmptyCell] /\ made = 0 /\ table = [k \in Keys |-> 0]
        /\ task = [t \in Tasks |-> Idle(FALSE, FALSE)]
    BY DEF Init, NoCell
  <2>2. EmptyCell = [initializer |-> Nobody, ready |-> FALSE, generation |-> g,
                     goaway |-> FALSE, draining |-> FALSE] /\ g \in Gens
    BY DEF EmptyCell
  <2> HIDE DEF g
  <2>3. EmptyCell \in Cell
    BY <2>2 DEF Cell
  <2>4. \A c \in CellIds : CellOK(c, cells, made)
    BY <2>1, <2>2 DEF CellOK
  <2>5. Idle(FALSE, FALSE) \in RequestType /\ \A t : RequestFits(t, Idle(FALSE, FALSE), cells, made)
    BY <2>1, IdleFits
  <2>6. H3Types
    BY <2>1, <2>3, <2>5 DEF H3Types
  <2>7. \A k \in Keys : table[k] <= made
    BY <2>1
  <2>8. \A t \in Tasks : RequestFits(t, task[t], cells, made)
    BY <2>1, <2>5
  <2>9. QED
    BY <2>4, <2>6, <2>7, <2>8 DEF H3Inv
<1>2. H3Inv /\ [Next]_vars => H3Inv'
  BY H3Step
<1>3. QED
  BY <1>1, <1>2, PTL DEF Spec

\* An error that the dispatch may answer with a fallback is one of a request whose body has
\* not left.
THEOREM FallbacksAreUnsent == Spec => []FallbackIsUnsent
<1>1. H3Inv => FallbackIsUnsent
  BY DEF H3Inv, FallbackIsUnsent, RequestFits, At
<1>2. QED
  BY <1>1, H3Invariant, PTL

\* A request never works with a session that was draining when it arrived, and one that fails
\* before its response evicts only the session it used (a body that breaks evicts by key).
THEOREM SessionsAreApart == Spec => SessionsStayApart
<1> DEFINE Fresh == \A t \in Tasks :
               task[t].pc \in {"send", "body", "answer"} => task[t].cell \notin task[t].drained
           Own == \A t \in Tasks :
               task[t].pc \in {"send", "body", "answer"} /\ task'[t].pc = "idle" =>
                   \A k \in Keys : table'[k] # table[k] => table[k] = task[t].cell
<1>1. H3Inv => Fresh
  BY DEF H3Inv, RequestFits, Assigned
<1>2. ASSUME H3Inv, [Next]_vars
      PROVE  Own
  <2> SUFFICES ASSUME NEW t \in Tasks, task[t].pc \in {"send", "body", "answer"}, task'[t].pc = "idle"
               PROVE  \A k \in Keys : table'[k] # table[k] => table[k] = task[t].cell
    OBVIOUS
  <2>y. task \in [Tasks -> RequestType] /\ table \in [Keys -> Nat]
    BY <1>2 DEF H3Inv, H3Types
  <2>1. CASE table' = table
    BY <2>1
  <2>2. CASE table' = EvictIfCurrent(t)
    BY <2>2, <2>y DEF EvictIfCurrent
  <2>3. ASSUME NEW u \in Tasks, u # t, NEW r, task' = [task EXCEPT ![u] = r]
        PROVE  FALSE
    BY <2>3, <2>y
  <2>4. ASSUME NEW u \in Tasks, SendFails(u) \/ BodyBreaks(u)
        PROVE  u = t
    BY <2>3, <2>4 DEF SendFails, BodyBreaks, Fail
  <2>5. ASSUME NEW u \in Tasks, u # t, NEW p, task' = [task EXCEPT ![u].pc = p]
        PROVE  FALSE
    BY <2>5, <2>y
  <2>6. ASSUME NEW u \in Tasks
        PROVE  ~StreamRemove(u) /\ ~CheckCell(u) /\ ~InsertFresh(u)
    <3>1. ~StreamRemove(u)
      BY <2>3 DEF StreamRemove, Return, At
    <3>2. ~CheckCell(u)
      BY <2>5 DEF CheckCell, Goto, At
    <3>3. ~InsertFresh(u)
      <4> SUFFICES ASSUME InsertFresh(u)
                   PROVE  FALSE
        OBVIOUS
      <4>1. u # t /\ task' = [task EXCEPT ![u].pc = "init", ![u].cell = made + 1]
        BY DEF InsertFresh, At
      <4>2. QED
        BY <2>y, <4>1
    <3>4. QED
      BY <3>1, <3>2, <3>3
  <2>7. ASSUME NEW u \in Tasks
        PROVE  ~BoundRemove(u) /\ ~GetOrInsert(u)
    <3>1. ~BoundRemove(u)
      <4> SUFFICES ASSUME BoundRemove(u)
                   PROVE  FALSE
        OBVIOUS
      <4>1. u # t /\ \E p : task' = [task EXCEPT ![u].pc = p, ![u].victim = NoKey]
        BY DEF BoundRemove
      <4>2. QED
        BY <2>y, <4>1
    <3>2. ~GetOrInsert(u)
      <4> SUFFICES ASSUME GetOrInsert(u)
                   PROVE  FALSE
        OBVIOUS
      <4>1. u # t /\ \E n : task' = [task EXCEPT ![u].pc = "check", ![u].cell = n]
        BY DEF GetOrInsert, At
      <4>2. QED
        BY <2>y, <4>1
    <3>3. QED
      BY <3>1, <3>2
  <2>8. ASSUME NEW u \in Tasks, SendFails(u) \/ BodyBreaks(u)
        PROVE  table' = EvictIfCurrent(t)
    BY <2>4, <2>8 DEF SendFails, BodyBreaks
  <2>9. QED
    BY <1>2, <2>1, <2>2, <2>6, <2>7, <2>8
       DEF Next, vars, Begin, BoundRead, Progress, EnterInit, Established, EstablishFails, SendHeaders,
           SendBody, ProducerFails, Answered, StreamEnds, StreamBreaks, Abandon, GoAway, DriverEnds
<1>3. H3Inv /\ [Next]_vars => [Own]_vars
  BY <1>2
<1>4. QED
  BY <1>1, <1>3, H3Invariant, PTL DEF Spec, SessionsStayApart
=============================================================================
