------------------------------ MODULE Datagram ------------------------------
(***************************************************************************)
(* A QUIC generation over a caller-owned datagram route                    *)
(* (transport/datagram.rs, and its use in transport/http3.rs): two worker  *)
(* tasks, two bounded queues, Quinn's poll functions, which look first and *)
(* register their waker in a second step, and the driver task that closes  *)
(* the connection when the route dies.                                     *)
(*                                                                         *)
(* Inbound datagrams are numbered, outbound ones only counted.  The route  *)
(* and Quinn are the environment: the route may fail or stay silent at any *)
(* time, Quinn polls when it likes but owes a poll after a wake.           *)
(***************************************************************************)
EXTENDS Naturals, Sequences

CONSTANTS QueueDepth,     \* ROUTE_QUEUE_DEPTH, 64 in the code
          MaxInbound,     \* bound: datagrams the route delivers
          MaxOutbound     \* bound: datagrams Quinn sends

ASSUME DatagramAssumption ==
    QueueDepth \in Nat \ {0} /\ MaxInbound \in Nat /\ MaxOutbound \in Nat

VARIABLE dg

datagramVars == <<dg>>

\* stage: how far the generation is; driver: its task; failed and signal: the
\* recorded failure and the watch value; reading, writing: Quinn's two pollers.
DatagramState ==
    [stage : {"dialing", "handshake", "session", "up", "closed", "released"},
     driver : {"none", "spawned", "watching", "draining"}, failed : BOOLEAN, signal : BOOLEAN,
     sendQueue : 0 .. QueueDepth, sender : {"none", "idle", "sending", "done"},
     recvQueue : Seq(1 .. MaxInbound), receiver : {"none", "idle", "reserved", "done"},
     delivered : 0 .. MaxInbound, got : Seq(1 .. MaxInbound), accepted : 0 .. MaxOutbound,
     reading : {"idle", "empty", "parked", "error"},
     writing : {"idle", "blocked", "full", "parked", "error"}]

DatagramStart ==
    [stage |-> "dialing", driver |-> "none", failed |-> FALSE, signal |-> FALSE,
     sendQueue |-> 0, sender |-> "none", recvQueue |-> << >>, receiver |-> "none",
     delivered |-> 0, got |-> << >>, accepted |-> 0, reading |-> "idle", writing |-> "idle"]

DatagramInit == dg = DatagramStart

Alive == dg.stage \in {"handshake", "session", "up"}
WakeReader(state) == [state EXCEPT !.reading = IF @ = "parked" THEN "idle" ELSE @]
WakeWriter(state) == [state EXCEPT !.writing = IF @ = "parked" THEN "blocked" ELSE @]

\* Mutant: the failure is only told to a driver that is already watching.
fail_only_watchers(state) == [state EXCEPT !.signal = state.driver = "watching"]

\* The first failure is kept; both directions are woken each time.  The value
\* is stored even before anybody watches.
signal_fail(state) == [state EXCEPT !.signal = TRUE]
record_failure(state) ==
    WakeReader(WakeWriter(IF state.failed THEN state
                          ELSE [signal_fail(state) EXCEPT !.failed = TRUE]))
-----------------------------------------------------------------------------
(***************************************************************************)
(* One routed generation, from the dialer to its driver task.              *)
(***************************************************************************)
from_route ==
    /\ dg.stage = "dialing"
    /\ dg' = [dg EXCEPT !.stage = "handshake", !.sender = "idle", !.receiver = "idle"]
HandshakeCompletes ==
    /\ dg.stage = "handshake"
    /\ dg' = [dg EXCEPT !.stage = "session"]
establish_h3_sender ==
    /\ dg.stage = "session"
    /\ dg' = [dg EXCEPT !.stage = "up", !.driver = "spawned"]
\* The dialer or the handshake failed or ran out of time, or the generation is
\* evicted: the socket's drop aborts both workers.
ReleaseGeneration ==
    /\ dg.stage # "released"
    /\ dg' = [dg EXCEPT !.stage = "released", !.sender = "done", !.receiver = "done",
                        !.driver = IF @ = "none" THEN @ ELSE "draining"]

\* The task looks at the watch before it waits for a change.
DriverStarts ==
    /\ dg.stage = "up" /\ dg.driver = "spawned"
    /\ dg' = [dg EXCEPT !.driver = "watching"]
DriverSeesFailure ==
    /\ dg.stage = "up" /\ dg.driver = "watching" /\ dg.signal
    /\ dg' = [dg EXCEPT !.stage = "closed", !.driver = "draining"]
-----------------------------------------------------------------------------
(***************************************************************************)
(* The workers.                                                            *)
(***************************************************************************)
SendWorkerTakes ==
    /\ dg.sender = "idle" /\ dg.sendQueue > 0
    /\ dg' = WakeWriter([dg EXCEPT !.sendQueue = @ - 1, !.sender = "sending"])
SendWorkerDone ==
    /\ dg.sender = "sending"
    /\ dg' = [dg EXCEPT !.sender = "idle"]
SendWorkerFails ==
    /\ dg.sender = "sending"
    /\ dg' = record_failure([dg EXCEPT !.sender = "done"])

\* Mutant: the route is asked whether there is room or not.
ReserveAlways == TRUE

\* Room is reserved before the route is asked for a datagram.
Reservable == Len(dg.recvQueue) < QueueDepth
RecvWorkerReserves ==
    /\ dg.receiver = "idle" /\ Reservable
    /\ dg' = [dg EXCEPT !.receiver = "reserved"]
Kept(state, n) ==
    IF Len(state.recvQueue) < QueueDepth THEN [state EXCEPT !.recvQueue = Append(@, n)] ELSE state
RecvWorkerGets ==
    /\ dg.receiver = "reserved" /\ dg.delivered < MaxInbound
    /\ LET n == dg.delivered + 1
       IN  dg' = WakeReader(Kept([dg EXCEPT !.receiver = "idle", !.delivered = n], n))
RecvWorkerFails ==
    /\ dg.receiver = "reserved"
    /\ dg' = record_failure([dg EXCEPT !.receiver = "done"])
-----------------------------------------------------------------------------
(***************************************************************************)
(* Quinn's side.                                                           *)
(***************************************************************************)
try_send ==
    /\ Alive /\ dg.writing = "idle" /\ dg.accepted < MaxOutbound
    /\ dg' = IF dg.failed \/ dg.sender = "done" THEN [dg EXCEPT !.writing = "error"]
             ELSE IF dg.sendQueue = QueueDepth THEN [dg EXCEPT !.writing = "blocked"]
             ELSE [dg EXCEPT !.sendQueue = @ + 1, !.accepted = @ + 1]

\* poll_writable: failure first, then capacity; then the waker is registered.
PollWritable ==
    /\ Alive /\ dg.writing = "blocked"
    /\ dg' = [dg EXCEPT !.writing = IF dg.failed THEN "error"
                                    ELSE IF dg.sendQueue < QueueDepth THEN "idle" ELSE "full"]
RegisterWriter ==
    /\ dg.writing = "full"
    /\ dg' = [dg EXCEPT !.writing = "parked"]

\* A lingering poller of a released socket reports that it is gone.
PollReleased ==
    /\ dg.stage = "released" /\ dg.writing \in {"blocked", "parked"}
    /\ dg' = [dg EXCEPT !.writing = "error"]

\* poll_recv: queue, then failure, then the waker.
PollRecv ==
    /\ Alive /\ dg.reading = "idle"
    /\ dg' = IF dg.recvQueue # << >>
             THEN [dg EXCEPT !.got = Append(@, Head(dg.recvQueue)), !.recvQueue = Tail(@)]
             ELSE [dg EXCEPT !.reading = IF dg.receiver = "done" \/ dg.failed THEN "error"
                                         ELSE "empty"]
RegisterReader ==
    /\ dg.reading = "empty"
    /\ dg' = [dg EXCEPT !.reading = "parked"]

DatagramNext ==
    \/ from_route \/ HandshakeCompletes \/ establish_h3_sender \/ ReleaseGeneration
    \/ DriverStarts \/ DriverSeesFailure
    \/ SendWorkerTakes \/ SendWorkerDone \/ SendWorkerFails
    \/ RecvWorkerReserves \/ RecvWorkerGets \/ RecvWorkerFails
    \/ try_send \/ PollWritable \/ RegisterWriter \/ PollReleased \/ PollRecv \/ RegisterReader

DatagramSpec == DatagramInit /\ [][DatagramNext]_datagramVars

\* The runtime polls the driver task, and Quinn polls again after a wake.
DatagramFairness ==
    /\ WF_datagramVars(DriverStarts) /\ WF_datagramVars(DriverSeesFailure)
    /\ WF_datagramVars(PollWritable) /\ WF_datagramVars(PollRecv)
-----------------------------------------------------------------------------
(* RouteFailureEndsGeneration: once a generation is up, a failure of its route *)
(* makes the connection terminal, whenever it was recorded - during the        *)
(* handshake, before the driver task ran, or while a poller sat between its    *)
(* look and its registration and missed the wake.                              *)
RouteFailureEndsGeneration == (dg.failed /\ dg.stage = "up") ~> dg.stage # "up"

(* ReceiveIsLossless: a full receive queue holds the route back and drops      *)
(* nothing: what Quinn got and what is queued is what the route delivered.     *)
ReceiveIsLossless == dg.got \o dg.recvQueue = [i \in 1 .. dg.delivered |-> i]
=============================================================================
