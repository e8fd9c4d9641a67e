----------------------------- MODULE Lifecycle ------------------------------
(***************************************************************************)
(* Physical connection admission and the I/O guards of established         *)
(* connections (src/crates/eggfetch-core/src/transport/lifecycle.rs and    *)
(* the gauges of transport/metrics.rs it drives).                          *)
(*                                                                         *)
(* A task is one call of the LifecycleConnector and the connection that    *)
(* comes out of it.  The call takes a permit of the admission semaphore,   *)
(* counts it, runs the inner connector and hands the wrapped connection to *)
(* hyper, which polls it until it drops it.  The permit goes back when the *)
(* connection, the failed or cancelled connect, or the stream of a 101     *)
(* upgrade is dropped.                                                     *)
(*                                                                         *)
(* hyper is external.  It polls a connection it owns, writes what it has   *)
(* buffered before it flushes or shuts down, and drops a connection that   *)
(* answered an error.  What the inner transport answers is free.           *)
(***************************************************************************)
EXTENDS Naturals, Sequences, FiniteSets, Semaphore

CONSTANTS Tasks,    \* connector calls
          Policies, \* the [maxLive, admission, read, write] a client may be built with
          None      \* an Option that is None

ASSUME LifecycleAssumption ==
    /\ IsFiniteSet(Tasks)
    /\ None \notin Nat
    /\ Policies \subseteq [maxLive : Nat \cup {None}, admission : Nat \cup {None},
                           read : (Nat \ {0}) \cup {None}, write : (Nat \ {0}) \cup {None}]

VARIABLES conf,      \* the policy of this client
          pc,        \* where each task is
          sem,       \* LifecycleConfig.admission
          waited,    \* how long each task has waited for admission
          gauge,     \* physical_connections_live
          highWater, \* physical_connections_high_water
          mine,      \* the locals [live, seen] of record_physical_connection_admitted
          timer,     \* read_timer and write_timer: the age of the Sleep, or None
          unsent,    \* hyper has buffered bytes to write
          blocked,   \* history: the last poll of this guarded direction was Pending
          quiet,     \* history: time since bytes last moved in this direction
          peak       \* history: the largest value the gauge has had

vars == <<conf, pc, sem, waited, gauge, highWater, mine, timer, unsent, blocked, quiet, peak>>
metrics == <<gauge, highWater, mine, peak>>
io == <<timer, unsent, blocked, quiet>>

Directions == {"read", "write"}

\* LifecycleConfig::from_policy: a policy that cannot admit anything.
Invalid == \/ conf.maxLive = 0
           \/ conf.maxLive = None /\ conf.admission # None

Limited == conf.maxLive # None

\* Established connections that go through the timed hyper::rt impls: "opaque"
\* is an upgraded stream whose type upgrade_with_connector_metadata does not know.
Timed == {"open", "opaque"}

\* Program points at which a task owns a permit it was polled for.
Owning == {"admit", "load", "cas", "connecting", "drop", "release", "raw"} \cup Timed

\* The acquire_owned future exists: queued, or handed a permit it has not seen.
Acquiring == {"waiting", "leaving"}

PCs == {"idle", "refused", "poll"} \cup Owning \cup Acquiring

\* The tasks that own a permit.
Holders == {t \in Tasks : \/ pc[t] \in Owning
                          \/ pc[t] \in Acquiring /\ t \notin Queued(sem)}

Goto(t, next) == pc' = [pc EXCEPT ![t] = next]

\* The fields of a connection that does not exist yet or no longer does.
Fresh(t) == /\ timer' = [timer EXCEPT ![t] = [d \in Directions |-> None]]
            /\ unsent' = [unsent EXCEPT ![t] = FALSE]
            /\ blocked' = [blocked EXCEPT ![t] = [d \in Directions |-> FALSE]]
            /\ quiet' = [quiet EXCEPT ![t] = [d \in Directions |-> 0]]

Init == /\ conf \in Policies
        /\ pc = [t \in Tasks |-> "idle"]
        /\ sem = NewSemaphore(IF conf.maxLive = None THEN 0 ELSE conf.maxLive)
        /\ waited = [t \in Tasks |-> 0]
        /\ gauge = 0
        /\ highWater = 0
        /\ mine = [t \in Tasks |-> [live |-> 0, seen |-> 0]]
        /\ timer = [t \in Tasks |-> [d \in Directions |-> None]]
        /\ unsent = [t \in Tasks |-> FALSE]
        /\ blocked = [t \in Tasks |-> [d \in Directions |-> FALSE]]
        /\ quiet = [t \in Tasks |-> [d \in Directions |-> 0]]
        /\ peak = 0

-----------------------------------------------------------------------------
(* LifecycleConnector::call: the admission. *)

\* The call up to its first await or its first permit.
Call(t) ==
    /\ pc[t] \in {"idle", "refused"}
    /\ \/ Invalid /\ Goto(t, "refused") /\ UNCHANGED sem
       \/ ~Invalid /\ ~Limited /\ Goto(t, "connecting") /\ UNCHANGED sem
       \/ ~Invalid /\ Limited /\ sem.avail > 0 /\ sem' = Take(sem) /\ Goto(t, "admit")
       \/ ~Invalid /\ Limited /\ sem.avail = 0 /\ Goto(t, "poll") /\ UNCHANGED sem
    /\ UNCHANGED <<conf, waited, metrics, io>>

\* try_acquire_owned found no permit: the first poll of acquire_owned.
PollAcquire(t) ==
    /\ pc[t] = "poll"
    /\ waited' = [waited EXCEPT ![t] = 0]
    /\ \/ sem.avail > 0 /\ sem' = Take(sem) /\ Goto(t, "admit")
       \/ sem.avail = 0 /\ sem' = Enqueue(sem, t) /\ Goto(t, "waiting")
    /\ UNCHANGED <<conf, metrics, io>>

\* The timeout future polls the acquire first: a permit wins over the deadline.
Admitted(t) ==
    /\ pc[t] = "waiting"
    /\ t \notin Queued(sem)
    /\ Goto(t, "admit")
    /\ UNCHANGED <<conf, sem, waited, metrics, io>>

\* The deadline passed and the acquire was still pending when it was polled.
AdmissionTimeout(t) ==
    /\ pc[t] = "waiting"
    /\ t \in Queued(sem)
    /\ conf.admission # None /\ waited[t] >= conf.admission
    /\ Goto(t, "leaving")
    /\ UNCHANGED <<conf, sem, waited, metrics, io>>

\* Mutant: an acquire that was handed a permit is dropped like a queued one.
DropAcquireLosesPermit(t) ==
    /\ pc[t] = "leaving"
    /\ sem' = IF t \in Queued(sem)
              THEN Leave(sem, CHOOSE i \in 1 .. Len(sem.queue) : sem.queue[i] = t)
              ELSE sem
    /\ Goto(t, "idle")
    /\ UNCHANGED <<conf, waited, metrics, io>>

\* The acquire future is dropped; a permit handed to it meanwhile goes on.
DropAcquire(t) ==
    /\ pc[t] = "leaving"
    /\ sem' = IF t \in Queued(sem)
              THEN Leave(sem, CHOOSE i \in 1 .. Len(sem.queue) : sem.queue[i] = t)
              ELSE Release(sem)
    /\ Goto(t, "idle")
    /\ UNCHANGED <<conf, waited, metrics, io>>

-----------------------------------------------------------------------------
(* AdmissionPermit: the gauges, which other threads change meanwhile. *)

\* AdmissionPermit::new: fetch_add on the live gauge.
CountAdmitted(t) ==
    /\ pc[t] = "admit"
    /\ gauge' = gauge + 1
    /\ peak' = IF gauge + 1 > peak THEN gauge + 1 ELSE peak
    /\ mine' = [mine EXCEPT ![t].live = gauge + 1]
    /\ Goto(t, "load")
    /\ UNCHANGED <<conf, sem, waited, highWater, io>>

LoadHighWater(t) ==
    /\ pc[t] = "load"
    /\ mine' = [mine EXCEPT ![t].seen = highWater]
    /\ Goto(t, "cas")
    /\ UNCHANGED <<conf, sem, waited, gauge, highWater, peak, io>>

\* One turn of the compare_exchange_weak loop (the locals die with the loop).
RaiseHighWater(t) ==
    /\ pc[t] = "cas"
    /\ \/ /\ mine[t].live > mine[t].seen /\ highWater # mine[t].seen
          /\ mine' = [mine EXCEPT ![t].seen = highWater]
          /\ UNCHANGED <<pc, highWater>>
       \/ /\ mine[t].live <= mine[t].seen \/ highWater = mine[t].seen
          /\ highWater' = IF mine[t].live > mine[t].seen THEN mine[t].live ELSE highWater
          /\ mine' = [mine EXCEPT ![t] = [live |-> 0, seen |-> 0]]
          /\ Goto(t, "connecting")
    /\ UNCHANGED <<conf, sem, waited, gauge, peak, io>>

\* AdmissionPermit::drop runs before the permit it holds is dropped.
Uncount(t) ==
    /\ pc[t] = "drop"
    /\ gauge' = gauge - 1
    /\ Goto(t, "release")
    /\ UNCHANGED <<conf, sem, waited, highWater, mine, peak, io>>

ReleasePermit(t) ==
    /\ pc[t] = "release"
    /\ sem' = Release(sem)
    /\ Goto(t, "idle")
    /\ UNCHANGED <<conf, waited, metrics, io>>

\* Where a task that drops its Option<AdmissionPermit> goes.
AfterDrop == IF Limited THEN "drop" ELSE "idle"

-----------------------------------------------------------------------------
(* The inner connect and the life of the connection. *)

\* LifecycleConnection::new around what the inner connector established.
Connected(t) ==
    /\ pc[t] = "connecting"
    /\ Goto(t, "open")
    /\ Fresh(t)
    /\ UNCHANGED <<conf, sem, waited, metrics>>

\* The inner connector (or the ConnectTimeout around it) fails.
ConnectFailed(t) ==
    /\ pc[t] = "connecting"
    /\ Goto(t, AfterDrop)
    /\ UNCHANGED <<conf, sem, waited, metrics, io>>

\* The connect future is dropped at one of its awaits.
Cancel(t) ==
    /\ \/ pc[t] = "waiting" /\ Goto(t, "leaving")
       \/ pc[t] = "connecting" /\ Goto(t, AfterDrop)
    /\ UNCHANGED <<conf, sem, waited, metrics, io>>

\* hyper drops the connection (idle, finished, broken), or the application its stream.
DropConnection(t) ==
    /\ pc[t] \in Timed \cup {"raw"}
    /\ Goto(t, AfterDrop)
    /\ Fresh(t)
    /\ UNCHANGED <<conf, sem, waited, metrics>>

\* upgrade_with_connector_metadata: a direct or UDS stream is taken out of the
\* wrapper and keeps the permit; any other stream stays inside the wrapper.
Upgrade(t) ==
    /\ pc[t] = "open"
    /\ \/ Goto(t, "raw") /\ Fresh(t)
       \/ Goto(t, "opaque") /\ UNCHANGED io
    /\ UNCHANGED <<conf, sem, waited, metrics>>

-----------------------------------------------------------------------------
(* LifecycleConnection's polls.  Each settles the timer of its direction.  *)

\* The operation completed, with or without bytes; the timer becomes a.
Ready(t, d, bytes, a) ==
    /\ timer' = [timer EXCEPT ![t][d] = a]
    /\ blocked' = [blocked EXCEPT ![t][d] = FALSE]
    /\ quiet' = IF bytes THEN [quiet EXCEPT ![t][d] = 0] ELSE quiet
    /\ UNCHANGED pc

\* The poll answers an error and hyper drops the connection.
Failed(t) == Goto(t, AfterDrop) /\ Fresh(t)

\* The poll that finds the timer elapsed; what follows drops the connection.
TimedOut(t, d) == conf[d] # None /\ timer[t][d] # None /\ timer[t][d] >= conf[d]

\* Mutant: every pending poll starts the deadline anew.
PollTimerRestarts(t, d) ==
    \/ TimedOut(t, d) /\ Failed(t)
    \/ /\ ~TimedOut(t, d)
       /\ timer' = [timer EXCEPT ![t][d] = IF conf[d] = None THEN None ELSE 0]
       /\ blocked' = [blocked EXCEPT ![t][d] = conf[d] # None]
       /\ UNCHANGED <<pc, quiet, unsent>>

\* Self::poll_timer after a pending inner poll: the first one arms the timer.
PollTimer(t, d) ==
    \/ TimedOut(t, d) /\ Failed(t)
    \/ /\ ~TimedOut(t, d)
       /\ timer' = [timer EXCEPT ![t][d] = IF conf[d] # None /\ @ = None THEN 0 ELSE @]
       /\ blocked' = [blocked EXCEPT ![t][d] = conf[d] # None]
       /\ UNCHANGED <<pc, quiet, unsent>>

\* poll_read: bytes, no bytes (a running deadline is kept and looked at), error, pending.
PollRead(t) ==
    /\ pc[t] \in Timed
    /\ \/ Ready(t, "read", TRUE, None) /\ UNCHANGED unsent
       \/ TimedOut(t, "read") /\ Failed(t)
       \/ ~TimedOut(t, "read") /\ Ready(t, "read", FALSE, timer[t]["read"]) /\ UNCHANGED unsent
       \/ Failed(t)
       \/ PollTimer(t, "read")
    /\ UNCHANGED <<conf, sem, waited, metrics>>

\* hyper buffers bytes to send.
Buffer(t) ==
    /\ pc[t] \in Timed
    /\ ~unsent[t]
    /\ unsent' = [unsent EXCEPT ![t] = TRUE]
    /\ UNCHANGED <<conf, pc, sem, waited, metrics, timer, blocked, quiet>>

\* poll_write and poll_write_vectored: some or all bytes, none, error, pending.
PollWrite(t) ==
    /\ pc[t] \in Timed
    /\ unsent[t]
    /\ \/ /\ Ready(t, "write", TRUE, None)
          /\ unsent' \in {unsent, [unsent EXCEPT ![t] = FALSE]}
       \/ Ready(t, "write", FALSE, timer[t]["write"]) /\ UNCHANGED unsent
       \/ Failed(t)
       \/ PollTimer(t, "write")
    /\ UNCHANGED <<conf, sem, waited, metrics>>

\* poll_flush and poll_shutdown, with nothing left to write.
PollFlush(t) ==
    /\ pc[t] \in Timed
    /\ ~unsent[t]
    /\ \/ Ready(t, "write", FALSE, None) /\ UNCHANGED unsent
       \/ Failed(t)
       \/ PollTimer(t, "write")
    /\ UNCHANGED <<conf, sem, waited, metrics>>

-----------------------------------------------------------------------------
\* Ages stop counting at the deadline they are compared with.
Older(a, limit) == IF a = None \/ limit = None THEN a
                   ELSE IF a < limit THEN a + 1 ELSE a

Tick == /\ waited' = [t \in Tasks |-> IF pc[t] = "waiting"
                                      THEN Older(waited[t], conf.admission) ELSE waited[t]]
        /\ timer' = [t \in Tasks |-> [d \in Directions |-> Older(timer[t][d], conf[d])]]
        /\ quiet' = [t \in Tasks |-> [d \in Directions |->
                        IF pc[t] \in Timed THEN Older(quiet[t][d], conf[d]) ELSE quiet[t][d]]]
        /\ UNCHANGED <<conf, pc, sem, metrics, unsent, blocked>>

\* A poll of direction d by whoever owns the connection.
Poll(t, d) == IF d = "read" THEN PollRead(t) ELSE PollWrite(t) \/ PollFlush(t)

\* The steps of a task that runs: no await and no caller's choice in between.
Run(t) == \/ PollAcquire(t) \/ Admitted(t) \/ AdmissionTimeout(t) \/ DropAcquire(t)
          \/ CountAdmitted(t) \/ LoadHighWater(t) \/ RaiseHighWater(t)
          \/ Uncount(t) \/ ReleasePermit(t)

Next == \/ \E t \in Tasks : \/ Call(t) \/ Run(t) \/ Connected(t) \/ ConnectFailed(t)
                            \/ Cancel(t) \/ DropConnection(t) \/ Upgrade(t) \/ Buffer(t)
                            \/ PollRead(t) \/ PollWrite(t) \/ PollFlush(t)
        \/ Tick

Spec == Init /\ [][Next]_vars

\* Tasks that can run are run, time passes, and hyper polls the connections it
\* owns: an armed Sleep has its waker and wakes hyper's task when it is due.
FairSpec == /\ Spec
            /\ WF_vars(Tick)
            /\ \A t \in Tasks : WF_vars(Run(t))
            /\ \A t \in Tasks, d \in Directions : WF_vars(pc[t] = "open" /\ Poll(t, d))

-----------------------------------------------------------------------------
TypeOK ==
    /\ conf \in Policies
    /\ pc \in [Tasks -> PCs]
    /\ sem \in SemaphoreOf(Tasks)
    /\ waited \in [Tasks -> Nat]
    /\ gauge \in Nat /\ highWater \in Nat /\ peak \in Nat
    /\ mine \in [Tasks -> [live : Nat, seen : Nat]]
    /\ timer \in [Tasks -> [Directions -> Nat \cup {None}]]
    /\ unsent \in [Tasks -> BOOLEAN]
    /\ blocked \in [Tasks -> [Directions -> BOOLEAN]]
    /\ quiet \in [Tasks -> [Directions -> Nat]]

\* Every permit of the cap is available or owned by exactly one call, connection or
\* upgraded stream, through failed and cancelled connects, admission timeouts that race
\* a hand-over, idle pooling and upgrades, and none is available while a caller queues.
\* The live gauge never shows more connections than the cap, and once nobody is inside
\* record_physical_connection_admitted the high-water mark is the largest value the
\* gauge ever had, whatever order the threads raced in.
AdmissionExact ==
    /\ Limited => /\ sem.avail + Cardinality(Holders) = conf.maxLive
                  /\ sem.avail > 0 => sem.queue = <<>>
                  /\ gauge <= conf.maxLive
    /\ (\A t \in Tasks : pc[t] \notin {"load", "cas"}) => highWater = peak

\* A connection is failed for inactivity only after a whole limit in which no byte moved
\* in that direction, whatever polls come in between.
TimeoutIsEarned ==
    \A t \in Tasks, d \in Directions : TimedOut(t, d) => quiet[t][d] >= conf[d]

\* Timers are neither early nor missed: a timeout is earned; a guarded direction in which
\* hyper waits does not wait for ever; nor does a call with an admission timeout.
TimersExact ==
    /\ []TimeoutIsEarned
    /\ \A t \in Tasks, d \in Directions :
           (pc[t] = "open" /\ blocked[t][d]) ~> (pc[t] # "open" \/ ~blocked[t][d])
    /\ \A t \in Tasks : (pc[t] = "waiting" /\ conf.admission # None) ~> (pc[t] # "waiting")

=============================================================================
