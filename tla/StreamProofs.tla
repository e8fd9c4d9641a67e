---------------------------- MODULE StreamProofs ----------------------------
(***************************************************************************)
(* Proofs about the parts with queues, threads and timers: the datagram    *)
(* route bridge, the FFI stream, the Python runtime and streams, the       *)
(* connectors' fallback, and the timeouts of an exchange, each for any     *)
(* value of its constants.                                                 *)
(***************************************************************************)
EXTENDS Tunnel, Exchange, Datagram, PyStream, PyRuntime, FfiStream, SequenceTheorems, FiniteSetTheorems, TLAPS

(***************************************************************************)
(* The datagram route bridge.                                              *)
(***************************************************************************)
\* Room that is reserved is still there when the datagram arrives, and the numbers
\* run on from what Quinn got through what is queued.
DatagramInv ==
    /\ dg \in DatagramState
    /\ Len(dg.recvQueue) <= QueueDepth
    /\ dg.receiver = "reserved" => Len(dg.recvQueue) < QueueDepth
    /\ Len(dg.got) + Len(dg.recvQueue) = dg.delivered
    /\ \A i \in 1 .. Len(dg.got) : dg.got[i] = i
    /\ \A i \in 1 .. Len(dg.recvQueue) : dg.recvQueue[i] = Len(dg.got) + i

\* The steps that move no inbound datagram.
DatagramQuiet ==
    /\ UNCHANGED <<dg.recvQueue, dg.got, dg.delivered>>
    /\ dg'.receiver = "reserved" => dg.receiver = "reserved" \/ Len(dg.recvQueue) < QueueDepth
    /\ dg' \in DatagramState

\* A wake touches the poller it wakes and nothing else, and so does a failure.
LEMMA Wakes ==
    ASSUME NEW s \in DatagramState
    PROVE  /\ WakeReader(s) \in DatagramState /\ WakeWriter(s) \in DatagramState
           /\ record_failure(s) \in DatagramState
           /\ \A w \in {WakeReader(s), WakeWriter(s), record_failure(s)} :
                 /\ w.recvQueue = s.recvQueue /\ w.got = s.got /\ w.delivered = s.delivered
                 /\ w.receiver = s.receiver
<1> DEFINE Same(w, v) == /\ w.recvQueue = v.recvQueue /\ w.got = v.got /\ w.delivered = v.delivered
                         /\ w.receiver = v.receiver
<1>1. \A v \in DatagramState : WakeReader(v) \in DatagramState /\ Same(WakeReader(v), v)
  <2> TAKE v \in DatagramState
  <2> DEFINE x == IF v.reading = "parked" THEN "idle" ELSE v.reading
  <2>1. x \in {"idle", "empty", "parked", "error"} /\ WakeReader(v) = [v EXCEPT !.reading = x]
    BY DEF WakeReader, DatagramState
  <2> HIDE DEF x
  <2>2. QED
    BY <2>1, ZenonT(60) DEF DatagramState
<1>2. \A v \in DatagramState : WakeWriter(v) \in DatagramState /\ Same(WakeWriter(v), v)
  <2> TAKE v \in DatagramState
  <2> DEFINE x == IF v.writing = "parked" THEN "blocked" ELSE v.writing
  <2>1. x \in {"idle", "blocked", "full", "parked", "error"} /\ WakeWriter(v) = [v EXCEPT !.writing = x]
    BY DEF WakeWriter, DatagramState
  <2> HIDE DEF x
  <2>2. QED
    BY <2>1, ZenonT(60) DEF DatagramState
<1>3. PICK v \in DatagramState : record_failure(s) = WakeReader(WakeWriter(v)) /\ Same(v, s)
  <2>1. CASE s.failed
    BY <2>1 DEF record_failure
  <2>2. CASE ~s.failed
    <3>1. record_failure(s) = WakeReader(WakeWriter([s EXCEPT !.signal = TRUE, !.failed = TRUE]))
      BY <2>2 DEF record_failure, signal_fail
    <3>2. [s EXCEPT !.signal = TRUE, !.failed = TRUE] \in DatagramState
      BY DEF DatagramState
    <3>3. Same([s EXCEPT !.signal = TRUE, !.failed = TRUE], s)
      BY DEF DatagramState
    <3>4. QED
      BY <3>1, <3>2, <3>3
  <2>3. QED
    BY <2>1, <2>2
<1>4. WakeWriter(v) \in DatagramState /\ Same(WakeWriter(v), v)
  BY <1>2
<1>5. record_failure(s) \in DatagramState /\ Same(record_failure(s), s)
  BY <1>1, <1>3, <1>4
<1>6. QED
  BY <1>1, <1>2, <1>5

(* Sums of lengths, stated apart from the sequences.                       *)

\* One more at the end of the second part is one more in all.
LEMMA MoveOne == \A a, b \in Nat : (a + b) + 1 = a + (b + 1)
OBVIOUS

\* One moved from the second part to the first leaves the sum.
LEMMA PassOne == \A a, b \in Nat : (a + 1) + (b - 1) = a + b
OBVIOUS

\* One more in the second part is one more in the first.
LEMMA SwapOne == \A a, b \in Nat : a + (b + 1) = (a + 1) + b
OBVIOUS

\* One more in the first part is one more in all.
LEMMA AddOne == \A a, b \in Nat : (a + 1) + b = (a + b) + 1
OBVIOUS

\* An index up to the next is one so far, or the next.
LEMMA UpToNext == \A n \in Nat : \A i \in 1 .. n + 1 : i \in 1 .. n \/ i = n + 1
OBVIOUS

\* An index beyond the first part is one of the second.
LEMMA Beyond == \A a, b, i \in Nat : i \in 1 .. a + b => i \in 1 .. a \/ i - a \in 1 .. b
OBVIOUS

\* What was taken off an index is put back.
LEMMA BackAgain == \A a, i \in Nat : a + (i - a) = i
OBVIOUS

\* Every datagram the route delivers is got or queued, in order, whatever the wakes.
LEMMA DatagramStep ==
    ASSUME DatagramInv, [DatagramNext]_datagramVars
    PROVE  DatagramInv'
<1> USE DatagramAssumption
<1>i. dg \in DatagramState
  BY DEF DatagramInv
<1> USE <1>i
<1>q. ASSUME DatagramQuiet
      PROVE  DatagramInv'
  BY <1>q DEF DatagramQuiet, DatagramInv
<1>1. CASE UNCHANGED datagramVars
  BY <1>1 DEF datagramVars, DatagramInv
<1>2. CASE from_route
  BY <1>2, <1>q DEF from_route, DatagramQuiet, DatagramState
<1>3. CASE HandshakeCompletes \/ establish_h3_sender
  BY <1>3, <1>q, ZenonT(60) DEF HandshakeCompletes, establish_h3_sender, DatagramQuiet, DatagramState
<1>4. CASE ReleaseGeneration
  <2> DEFINE x == IF dg.driver = "none" THEN dg.driver ELSE "draining"
  <2>1. x \in {"none", "draining"} /\ dg' = [dg EXCEPT !.stage = "released", !.sender = "done",
                                                       !.receiver = "done", !.driver = x]
    BY <1>4 DEF ReleaseGeneration
  <2> HIDE DEF x
  <2>2. QED
    BY <1>q, <2>1 DEF DatagramQuiet, DatagramState
<1>5. CASE DriverStarts \/ DriverSeesFailure
  BY <1>5, <1>q, ZenonT(60) DEF DriverStarts, DriverSeesFailure, DatagramQuiet, DatagramState
<1>6. CASE SendWorkerTakes
  <2> DEFINE n == dg.sendQueue - 1
             s == [dg EXCEPT !.sendQueue = n, !.sender = "sending"]
  <2>1. n \in 0 .. QueueDepth /\ dg' = WakeWriter(s)
    BY <1>6 DEF SendWorkerTakes, DatagramState
  <2> HIDE DEF n
  <2>2. s \in DatagramState /\ s.recvQueue = dg.recvQueue /\ s.got = dg.got
        /\ s.delivered = dg.delivered /\ s.receiver = dg.receiver
    BY <2>1 DEF DatagramState
  <2> HIDE DEF s
  <2>3. QED
    BY <1>q, <2>1, <2>2, Wakes DEF DatagramQuiet
<1>7. CASE SendWorkerDone
  BY <1>7, <1>q DEF SendWorkerDone, DatagramQuiet, DatagramState
<1>8. CASE SendWorkerFails
  <2> DEFINE s == [dg EXCEPT !.sender = "done"]
  <2>1. dg' = record_failure(s) /\ s \in DatagramState /\ s.recvQueue = dg.recvQueue
        /\ s.got = dg.got /\ s.delivered = dg.delivered /\ s.receiver = dg.receiver
    BY <1>8 DEF SendWorkerFails, DatagramState
  <2> HIDE DEF s
  <2>2. QED
    BY <1>q, <2>1, Wakes DEF DatagramQuiet
<1>9. CASE RecvWorkerFails
  <2> DEFINE s == [dg EXCEPT !.receiver = "done"]
  <2>1. dg' = record_failure(s) /\ s \in DatagramState /\ s.recvQueue = dg.recvQueue
        /\ s.got = dg.got /\ s.delivered = dg.delivered /\ s.receiver = "done"
    BY <1>9 DEF RecvWorkerFails, DatagramState
  <2> HIDE DEF s
  <2>2. QED
    BY <1>q, <2>1, Wakes DEF DatagramQuiet
<1>10. CASE RecvWorkerReserves
  BY <1>10, <1>q DEF RecvWorkerReserves, Reservable, DatagramQuiet, DatagramState
<1>11. CASE try_send
  <2>0. CASE dg' = [dg EXCEPT !.writing = "error"]
    BY <1>q, <2>0 DEF DatagramQuiet, DatagramState
  <2>1. CASE dg' = [dg EXCEPT !.writing = "blocked"]
    BY <1>q, <2>1 DEF DatagramQuiet, DatagramState
  <2>2. CASE dg' = [dg EXCEPT !.sendQueue = @ + 1, !.accepted = @ + 1] /\ dg.sendQueue # QueueDepth
    <3> DEFINE m == dg.sendQueue + 1
               n == dg.accepted + 1
    <3>1. m \in 0 .. QueueDepth /\ n \in 0 .. MaxOutbound
      BY <1>11, <2>2 DEF try_send, DatagramState
    <3>2. dg' = [dg EXCEPT !.sendQueue = m, !.accepted = n]
      BY <2>2
    <3> HIDE DEF m, n
    <3>3. QED
      BY <1>q, <3>1, <3>2 DEF DatagramQuiet, DatagramState
  <2>3. QED
    BY <1>11, <2>0, <2>1, <2>2 DEF try_send
<1>12. CASE PollWritable
  <2> DEFINE x == IF dg.failed THEN "error" ELSE IF dg.sendQueue < QueueDepth THEN "idle" ELSE "full"
  <2>1. x \in {"error", "idle", "full"} /\ dg' = [dg EXCEPT !.writing = x]
    BY <1>12 DEF PollWritable
  <2> HIDE DEF x
  <2>2. QED
    BY <1>q, <2>1 DEF DatagramQuiet, DatagramState
<1>13. CASE RegisterWriter \/ PollReleased \/ RegisterReader
  <2>1. CASE RegisterWriter
    BY <2>1, <1>q DEF RegisterWriter, DatagramQuiet, DatagramState
  <2>2. CASE PollReleased
    BY <2>2, <1>q DEF PollReleased, DatagramQuiet, DatagramState
  <2>3. CASE RegisterReader
    BY <2>3, <1>q DEF RegisterReader, DatagramQuiet, DatagramState
  <2>4. QED
    BY <1>13, <2>1, <2>2, <2>3
<1>t. /\ dg.recvQueue \in Seq(1 .. MaxInbound) /\ dg.got \in Seq(1 .. MaxInbound)
      /\ dg.delivered \in 0 .. MaxInbound /\ Len(dg.recvQueue) \in Nat /\ Len(dg.got) \in Nat
      /\ dg.delivered \in Nat
  BY LenProperties DEF DatagramState
<1>b. /\ Len(dg.got) + Len(dg.recvQueue) = dg.delivered /\ Len(dg.recvQueue) <= QueueDepth
      /\ dg.receiver = "reserved" => Len(dg.recvQueue) < QueueDepth
  BY DEF DatagramInv
<1>v. /\ \A i \in 1 .. Len(dg.got) : dg.got[i] = i
      /\ \A i \in 1 .. Len(dg.recvQueue) : dg.recvQueue[i] = Len(dg.got) + i
  BY DEF DatagramInv
<1>14. CASE RecvWorkerGets
  <2> DEFINE n == dg.delivered + 1
             q == Append(dg.recvQueue, n)
             r == [dg EXCEPT !.receiver = "idle", !.delivered = n]
             s == [dg EXCEPT !.receiver = "idle", !.delivered = n, !.recvQueue = q]
  <2>1. n \in 1 .. MaxInbound /\ n = dg.delivered + 1 /\ dg.receiver = "reserved"
        /\ dg' = WakeReader(Kept(r, n))
    BY <1>14, <1>t DEF RecvWorkerGets
  <2>n. n \in 0 .. MaxInbound /\ n \in Nat
    BY <2>1
  <2>2. /\ q \in Seq(1 .. MaxInbound) /\ Len(q) = Len(dg.recvQueue) + 1 /\ q[Len(dg.recvQueue) + 1] = n
        /\ \A i \in 1 .. Len(dg.recvQueue) : q[i] = dg.recvQueue[i]
    BY <1>t, <2>1, AppendProperties
  <2> HIDE DEF n
  <2>3. Kept(r, n) = s
    <3>1. r.recvQueue = dg.recvQueue
      BY DEF DatagramState
    <3>2. [r EXCEPT !.recvQueue = q] = s
      BY DEF DatagramState
    <3>3. Len(dg.recvQueue) < QueueDepth
      BY <1>b, <2>1
    <3>4. QED
      BY <3>1, <3>2, <3>3 DEF Kept
  <2> HIDE DEF q, r
  <2>4. s \in DatagramState /\ s.recvQueue = q /\ s.got = dg.got /\ s.delivered = n
        /\ s.receiver = "idle"
    BY <2>n, <2>2 DEF DatagramState
  <2> HIDE DEF s
  <2>5. dg' \in DatagramState /\ dg'.recvQueue = q /\ dg'.got = dg.got /\ dg'.delivered = n
        /\ dg'.receiver = "idle"
    BY <2>1, <2>3, <2>4, Wakes
  <2>6. ASSUME NEW i \in 1 .. Len(q)
        PROVE  q[i] = Len(dg.got) + i
    <3>1. CASE i \in 1 .. Len(dg.recvQueue)
      BY <1>v, <2>2, <3>1
    <3>2. CASE i = Len(dg.recvQueue) + 1
      <4>1. (Len(dg.got) + Len(dg.recvQueue)) + 1 = Len(dg.got) + (Len(dg.recvQueue) + 1)
        BY <1>t, MoveOne, Zenon
      <4>2. QED
        BY <1>b, <2>1, <2>2, <3>2, <4>1, Zenon
    <3>3. QED
      BY <1>t, <2>2, <3>1, <3>2, SMTT(60)
  <2>7. Len(dg.got) + Len(q) = n /\ Len(q) <= QueueDepth
    <3>1. Len(dg.got) + Len(q) = n
      <4>1. (Len(dg.got) + Len(dg.recvQueue)) + 1 = Len(dg.got) + (Len(dg.recvQueue) + 1)
        BY <1>t, MoveOne, Zenon
      <4>2. QED
        BY <1>b, <2>1, <2>2, <4>1, Zenon
    <3>2. Len(q) <= QueueDepth
      BY <1>t, <1>b, <2>1, <2>2
    <3>3. QED
      BY <3>1, <3>2
  <2>8. QED
    BY <1>v, <2>5, <2>6, <2>7 DEF DatagramInv
<1>15. CASE PollRecv
  <2>1. CASE dg.recvQueue = << >>
    <3> DEFINE x == IF dg.receiver = "done" \/ dg.failed THEN "error" ELSE "empty"
    <3>1. x \in {"error", "empty"} /\ dg' = [dg EXCEPT !.reading = x]
      BY <1>15, <2>1 DEF PollRecv
    <3> HIDE DEF x
    <3>2. QED
      BY <1>q, <3>1 DEF DatagramQuiet, DatagramState
  <2>2. CASE dg.recvQueue # << >>
    <3> DEFINE h == Head(dg.recvQueue)
               q == Tail(dg.recvQueue)
               g == Append(dg.got, h)
    <3>1. dg' = [dg EXCEPT !.got = g, !.recvQueue = q]
      BY <1>15, <2>2 DEF PollRecv
    <3>2. /\ h \in 1 .. MaxInbound /\ q \in Seq(1 .. MaxInbound) /\ Len(q) = Len(dg.recvQueue) - 1
          /\ \A i \in 1 .. Len(q) : q[i] = dg.recvQueue[i + 1]
      BY <1>t, <2>2, HeadTailProperties
    <3>3. h = dg.recvQueue[1] /\ Len(q) \in Nat
      BY <1>t, <2>2, <3>2, LenProperties
    <3>4. /\ g \in Seq(1 .. MaxInbound) /\ Len(g) = Len(dg.got) + 1 /\ g[Len(dg.got) + 1] = h
          /\ \A i \in 1 .. Len(dg.got) : g[i] = dg.got[i]
      BY <1>t, <3>2, AppendProperties
    <3> HIDE DEF h, q, g
    <3>5. dg' \in DatagramState /\ dg'.recvQueue = q /\ dg'.got = g /\ dg'.delivered = dg.delivered
          /\ dg'.receiver = dg.receiver
      BY <3>1, <3>2, <3>4 DEF DatagramState
    <3>6. Len(g) + Len(q) = dg.delivered /\ Len(q) < QueueDepth
      <4>1. Len(g) + Len(q) = dg.delivered
        <5>1. (Len(dg.got) + 1) + (Len(dg.recvQueue) - 1) = Len(dg.got) + Len(dg.recvQueue)
          BY <1>t, PassOne, Zenon
        <5>2. QED
          BY <1>b, <3>2, <3>4, <5>1, Zenon
      <4>2. Len(q) < QueueDepth
        BY <1>t, <1>b, <3>2
      <4>3. QED
        BY <4>1, <4>2
    <3>7. ASSUME NEW i \in 1 .. Len(g)
          PROVE  g[i] = i
      <4>1. CASE i \in 1 .. Len(dg.got)
        BY <1>v, <3>4, <4>1
      <4>2. CASE i = Len(dg.got) + 1
        <5>1. 1 \in 1 .. Len(dg.recvQueue)
          BY <1>t, <3>2, <3>3
        <5>2. QED
          BY <1>v, <3>3, <3>4, <4>2, <5>1
      <4>3. QED
        BY <1>t, <3>4, <4>1, <4>2
    <3>8. ASSUME NEW i \in 1 .. Len(q)
          PROVE  q[i] = Len(g) + i
      <4>1. i + 1 \in 1 .. Len(dg.recvQueue) /\ i \in Nat
        BY <1>t, <3>2, <3>3
      <4>2. q[i] = Len(dg.got) + (i + 1)
        BY <1>v, <3>2, <4>1
      <4>3. QED
        <5>1. Len(dg.got) + (i + 1) = (Len(dg.got) + 1) + i
          BY <1>t, <4>1, SwapOne, Zenon
        <5>2. QED
          BY <3>4, <4>2, <5>1, Zenon
    <3>9. QED
      BY <3>5, <3>6, <3>7, <3>8, <1>t DEF DatagramInv
  <2>3. QED
    BY <2>1, <2>2
<1>16. QED
  BY <1>1, <1>2, <1>3, <1>4, <1>5, <1>6, <1>7, <1>8, <1>9, <1>10, <1>11, <1>12, <1>13, <1>14,
     <1>15 DEF DatagramNext

\* For any queue depth and any number of datagrams: what Quinn got and what is queued is,
\* in order and without loss, what the route delivered.
THEOREM DatagramsAreLossless == DatagramSpec => []ReceiveIsLossless
<1>1. DatagramInit => DatagramInv
  BY DatagramAssumption, EmptySeq DEF DatagramInit, DatagramStart, DatagramInv, DatagramState
<1>2. DatagramInv /\ [DatagramNext]_datagramVars => DatagramInv'
  BY DatagramStep
<1>3. DatagramInv => ReceiveIsLossless
  <2> SUFFICES ASSUME DatagramInv
               PROVE  dg.got \o dg.recvQueue = [i \in 1 .. dg.delivered |-> i]
    BY DEF ReceiveIsLossless
  <2> DEFINE g == dg.got
             q == dg.recvQueue
  <2>1. g \in Seq(1 .. MaxInbound) /\ q \in Seq(1 .. MaxInbound)
    BY DEF DatagramInv, DatagramState
  <2>2. /\ g \o q \in Seq(1 .. MaxInbound) /\ Len(g \o q) = Len(g) + Len(q)
        /\ \A i \in 1 .. Len(g) + Len(q) : (g \o q)[i] = IF i <= Len(g) THEN g[i] ELSE q[i - Len(g)]
    BY <2>1, ConcatProperties
  <2>3. Len(g) \in Nat /\ Len(q) \in Nat /\ Len(g) + Len(q) = dg.delivered
    BY <2>1, LenProperties DEF DatagramInv
  <2>4. ASSUME NEW i \in 1 .. dg.delivered
        PROVE  (g \o q)[i] = i
    <3>1. CASE i <= Len(g)
      <4>1. i \in 1 .. Len(g) /\ i \in 1 .. Len(g) + Len(q)
        <5>1. i \in 1 .. Len(g)
          BY <2>3, <3>1
        <5>2. QED
          BY <2>3, <5>1, Zenon
      <4>2. (g \o q)[i] = g[i]
        BY <2>2, <3>1, <4>1
      <4>3. QED
        BY <4>1, <4>2 DEF DatagramInv
    <3>2. CASE ~(i <= Len(g))
      <4>0. i \in 1 .. Len(g) + Len(q) /\ i - Len(g) \in 1 .. Len(q)
        <5>1. i \in Nat /\ i \notin 1 .. Len(g)
          BY <2>3, <3>2
        <5>2. QED
          BY <2>3, <5>1, Beyond, Zenon
      <4>1. i - Len(g) \in 1 .. Len(q) /\ (g \o q)[i] = q[i - Len(g)]
        BY <2>2, <3>2, <4>0
      <4>2. q[i - Len(g)] = Len(g) + (i - Len(g))
        BY <4>1 DEF DatagramInv
      <4>3. QED
        <5>1. i \in Nat
          BY <2>3
        <5>2. QED
          BY <2>3, <4>1, <4>2, <5>1, BackAgain, Zenon
    <3>3. QED
      BY <3>1, <3>2
  <2>5. g \o q = [i \in 1 .. dg.delivered |-> (g \o q)[i]]
    BY <2>2, <2>3, LenProperties
  <2>6. QED
    BY <2>4, <2>5
<1>4. QED
  BY <1>1, <1>2, <1>3, PTL DEF DatagramSpec

(***************************************************************************)
(* The FFI stream.                                                         *)
(***************************************************************************)
\* A call in one of these steps has the receiver out of the slot.
ReceiverSteps == {"took", "parked", "chunk", "restoring"}

\* All the steps of a call.
FfiSteps == {"idle", "took", "refused", "parked", "chunk", "restoring", "noMemory", "null"}

\* At most one call holds the receiver, and nobody once it is gone.
FfiHolders ==
    /\ \A t, u \in HostThreads : ff.pc[t] \in ReceiverSteps /\ ff.pc[u] \in ReceiverSteps => t = u
    /\ ff.slot => \A t \in HostThreads : ff.pc[t] \notin ReceiverSteps
    /\ ~ff.receiver => ~ff.slot /\ (\A t \in HostThreads : ff.pc[t] \notin ReceiverSteps)

\* The chunks the host has or has lost, those taken off the channel, and those sent.
FfiHad == Len(ff.got) + ff.lost
FfiTaken == IF \E t \in HostThreads : ff.pc[t] = "chunk" THEN FfiHad + 1 ELSE FfiHad
FfiSent == IF ff.inHand = ErrorChunk
        THEN IF ff.producer = "done" THEN ff.produced + 1 ELSE ff.produced
        ELSE IF ff.producer = "sending" THEN ff.produced - 1 ELSE ff.produced

\* The k-th item of the channel: chunks by number, then the failure.
ItemAt(k) == IF k <= ff.produced THEN k ELSE ErrorChunk

FfiProducer ==
    /\ ff.inHand = ErrorChunk => ff.producer \in {"sending", "done"}
    /\ ff.inHand # ErrorChunk /\ ff.producer = "sending" => ff.inHand = ff.produced /\ ff.produced # 0
    /\ (ff.inHand # ErrorChunk /\ ff.producer = "done" /\ ff.receiver)
          => ff.flag \/ ff.produced = StreamChunks

FfiChannel ==
    /\ FfiHad <= ff.produced
    /\ ff.receiver => FfiTaken + Len(ff.queue) = FfiSent
    /\ ~ff.receiver => ff.queue = << >>
    /\ \A i \in 1 .. Len(ff.queue) : ff.queue[i] = ItemAt(FfiTaken + i)
    /\ \A t \in HostThreads : ff.pc[t] = "chunk" => ff.item[t] = ItemAt(FfiTaken)

FfiGot ==
    /\ \A i \in 1 .. Len(ff.got) : ff.got[i] <= FfiHad
    /\ \A i \in 1 .. Len(ff.got) - 1 : ff.got[i] < ff.got[i + 1]

FfiInv ==
    /\ ff \in FfiState
    /\ FfiHolders
    /\ FfiProducer
    /\ FfiChannel
    /\ FfiGot
    /\ FailureIsReported

\* The kinds of step: the producer's, a call's that moves no chunk, the end of the
\* stream, a chunk taken off the channel, and a chunk handed over or lost.
FfiProduces ==
    /\ UNCHANGED <<ff.slot, ff.receiver, ff.flag, ff.pc, ff.item, ff.got, ff.lost, ff.lastError, ff.cleared>>
    /\ \/ /\ ff.producer = "none" /\ ff'.producer = "polling"
          /\ UNCHANGED <<ff.queue, ff.inHand, ff.produced>>
       \/ /\ ff.producer = "polling" /\ ff'.producer = "done" /\ (ff.flag \/ ff.produced = StreamChunks)
          /\ UNCHANGED <<ff.queue, ff.inHand, ff.produced>>
       \/ /\ ff.producer = "polling" /\ ff'.producer = "sending" /\ ff'.produced = ff.produced + 1
          /\ ff.produced < StreamChunks /\ ff'.inHand = ff.produced + 1 /\ UNCHANGED ff.queue
       \/ /\ ff.producer = "polling" /\ ff'.producer = "sending" /\ ff'.inHand = ErrorChunk
          /\ UNCHANGED <<ff.queue, ff.produced>>
       \/ /\ ff.producer = "sending" /\ ff'.producer = "done" /\ ~ff.receiver
          /\ UNCHANGED <<ff.queue, ff.inHand, ff.produced>>
       \/ /\ ff.producer = "sending" /\ ff.receiver /\ ff'.queue = Append(ff.queue, ff.inHand)
          /\ ff'.producer = IF ff.inHand = ErrorChunk THEN "done" ELSE "polling"
          /\ UNCHANGED <<ff.inHand, ff.produced>>
FfiCalls ==
    /\ UNCHANGED <<ff.queue, ff.got, ff.lost, ff.producer, ff.inHand, ff.produced, ff.receiver>>
    /\ \/ ff'.lastError # "none"
       \/ /\ UNCHANGED ff.lastError
          /\ \A t \in HostThreads : ff'.pc[t] = "null" => ff.pc[t] = "null" /\ ff'.cleared[t] = ff.cleared[t]
    /\ \A t \in HostThreads : ff'.pc[t] = "chunk" <=> ff.pc[t] = "chunk"
    /\ \A t \in HostThreads : ff.pc[t] = "chunk" => ff'.item[t] = ff.item[t]
    /\ ff.flag => ff'.flag
FfiEnds ==
    /\ UNCHANGED <<ff.got, ff.lost, ff.producer, ff.inHand, ff.produced, ff.slot, ff.flag>>
    /\ ff'.queue = << >> /\ ~ff'.receiver
    /\ \E t \in HostThreads : /\ ff.pc[t] \in ReceiverSteps /\ ff'.pc = [ff.pc EXCEPT ![t] = "null"]
                              /\ \/ ff.pc[t] # "chunk" /\ ff.queue = << >> /\ ff.producer = "done"
                                 \/ ff'.lastError # "none"
FfiReceives(t) ==
    /\ UNCHANGED <<ff.got, ff.lost, ff.producer, ff.inHand, ff.produced, ff.receiver, ff.slot, ff.flag,
                   ff.lastError, ff.cleared>>
    /\ ff.queue # << >> /\ ff'.queue = Tail(ff.queue)
    /\ ff.pc[t] = "parked" /\ ff'.pc = [ff.pc EXCEPT ![t] = "chunk"]
    /\ ff'.item = [ff.item EXCEPT ![t] = Head(ff.queue)]
FfiHandsOver(t) ==
    /\ UNCHANGED <<ff.queue, ff.producer, ff.inHand, ff.produced, ff.receiver, ff.flag, ff.item>>
    /\ ff.pc[t] = "chunk" /\ ff.item[t] # ErrorChunk
    /\ \/ /\ ff'.pc = [ff.pc EXCEPT ![t] = "restoring"] /\ UNCHANGED <<ff.slot, ff.lost>>
          /\ ff'.got = Append(ff.got, ff.item[t])
          /\ ff'.cleared = [u \in HostThreads |-> ff.pc[u] = "null"]
       \/ /\ ff'.pc = [ff.pc EXCEPT ![t] = "noMemory"] /\ ff'.slot /\ UNCHANGED ff.got
          /\ ff'.lost = ff.lost + 1 /\ UNCHANGED <<ff.lastError, ff.cleared>>

\* The facts of the invariant that the steps need one at a time.
LEMMA FfiFacts ==
    ASSUME FfiInv
    PROVE  /\ ff \in FfiState /\ FfiHad \in Nat /\ FfiTaken \in Nat /\ ErrorChunk \in Nat
           /\ ff.queue \in Seq(1 .. ErrorChunk) /\ ff.got \in Seq(1 .. StreamChunks)
           /\ Len(ff.queue) \in Nat /\ Len(ff.got) \in Nat /\ ff.lost \in Nat /\ ff.produced \in Nat
           /\ ff.lost <= FfiHad /\ FfiHad <= ff.produced /\ ff.produced <= StreamChunks
           /\ ErrorChunk = StreamChunks + 1 /\ StreamChunks \in Nat
<1>1. ff \in FfiState /\ FfiHad <= ff.produced /\ ErrorChunk \in Nat /\ ErrorChunk = StreamChunks + 1
  BY FfiStreamAssumption DEF FfiInv, FfiChannel, ErrorChunk
<1>2. ff.queue \in Seq(1 .. ErrorChunk) /\ ff.got \in Seq(1 .. StreamChunks) /\ ff.lost \in Nat
      /\ ff.produced \in Nat /\ ff.produced <= StreamChunks
  BY <1>1, FfiStreamAssumption DEF FfiState
<1>3. Len(ff.queue) \in Nat /\ Len(ff.got) \in Nat
  BY <1>2, LenProperties
<1>4. FfiHad \in Nat /\ ff.lost <= FfiHad
  BY <1>2, <1>3 DEF FfiHad
<1>5. FfiTaken \in Nat
  BY <1>4 DEF FfiTaken
<1>6. QED
  BY <1>1, <1>2, <1>3, <1>4, <1>5, FfiStreamAssumption

\* While a call copies a chunk, the chunk is the next one, or the failure.
LEMMA FfiCopying ==
    ASSUME FfiInv, NEW t \in HostThreads, ff.pc[t] = "chunk"
    PROVE  /\ FfiTaken = FfiHad + 1
           /\ ff.item[t] # ErrorChunk => ff.item[t] = FfiHad + 1 /\ FfiHad + 1 <= ff.produced
           /\ ff.receiver
<1>1. FfiTaken = FfiHad + 1
  BY DEF FfiTaken
<1>2. ff.item[t] = ItemAt(FfiTaken) /\ ff.receiver
  BY DEF FfiInv, FfiChannel, FfiHolders, ReceiverSteps
<1>3. QED
  BY <1>1, <1>2, FfiFacts DEF ItemAt

\* Every step is of one of the kinds, and keeps the types.
LEMMA FfiKinds ==
    ASSUME FfiInv, [FfiNext]_ffiVars
    PROVE  /\ ff' \in FfiState
           /\ \/ FfiProduces \/ FfiCalls \/ FfiEnds
              \/ \E t \in HostThreads : FfiReceives(t) \/ FfiHandsOver(t)
<1>f. /\ ff \in FfiState /\ ff.queue \in Seq(1 .. ErrorChunk) /\ ff.got \in Seq(1 .. StreamChunks)
      /\ ErrorChunk \in Nat /\ ErrorChunk = StreamChunks + 1 /\ StreamChunks \in Nat
      /\ ff.produced \in Nat
  BY FfiFacts
<1>h. \A t \in HostThreads : ff.slot => ff.pc[t] \notin ReceiverSteps
  BY DEF FfiInv, FfiHolders
<1>1. CASE UNCHANGED ffiVars
  BY <1>1, <1>f DEF ffiVars, FfiCalls
<1>2. CASE eggfetch_client_send_streaming
  BY <1>2, <1>f DEF eggfetch_client_send_streaming, FfiProduces, FfiState
<1>3. CASE BodyYields
  <2>1. CASE ff.flag
    BY <1>3, <1>f, <2>1 DEF BodyYields, ProducerGets, FfiProduces, FfiState
  <2>2. CASE ~ff.flag
    <3> DEFINE n == ff.produced + 1
    <3>1. n \in 0 .. StreamChunks /\ n \in 0 .. ErrorChunk /\ n # ErrorChunk /\ n = ff.produced + 1
          /\ ff.produced < StreamChunks /\ ff.producer = "polling"
      BY <1>3, <1>f DEF BodyYields, ProducerGets
    <3>2. ff' = [ff EXCEPT !.inHand = n, !.producer = "sending", !.produced = n]
      BY <1>3, <2>2, <3>1 DEF BodyYields, ProducerGets
    <3> HIDE DEF n
    <3>3. QED
      BY <1>f, <3>1, <3>2 DEF FfiProduces, FfiState
  <2>3. QED
    BY <2>1, <2>2
<1>4. CASE BodyErrs
  <2>1. CASE ff.flag
    BY <1>4, <1>f, <2>1 DEF BodyErrs, ProducerGets, FfiProduces, FfiState
  <2>2. CASE ~ff.flag
    <3>1. ff' = [ff EXCEPT !.inHand = ErrorChunk, !.producer = "sending", !.produced = ff.produced]
          /\ ff.producer = "polling"
      BY <1>4, <2>2 DEF BodyErrs, ProducerGets
    <3>2. ErrorChunk \in 0 .. ErrorChunk
      BY <1>f
    <3>3. ff' \in FfiState
      BY <1>f, <3>1, <3>2 DEF FfiState
    <3>4. QED
      BY <1>f, <3>1, <3>3 DEF FfiProduces, FfiState
  <2>3. QED
    BY <2>1, <2>2
<1>5. CASE BodyIsOver
  BY <1>5, <1>f, ZenonT(60) DEF BodyIsOver, FfiProduces, FfiState
<1>6. CASE ProducerSends
  <2>1. CASE ~ff.receiver
    BY <1>6, <1>f, <2>1 DEF ProducerSends, FfiProduces, FfiState
  <2>2. CASE ff.receiver
    <3> DEFINE q == Append(ff.queue, ff.inHand)
               p == IF ff.inHand = ErrorChunk THEN "done" ELSE "polling"
    <3>0. ff.inHand \in 1 .. ErrorChunk
      BY <1>6, <1>f DEF ProducerSends, FfiInv, FfiProducer, FfiState
    <3>1. q \in Seq(1 .. ErrorChunk) /\ p \in {"done", "polling"}
      BY <1>f, <3>0, AppendProperties
    <3>2. ff' = [ff EXCEPT !.queue = q, !.producer = p] /\ ff.producer = "sending"
      BY <1>6, <2>2 DEF ProducerSends
    <3>3. p = (IF ff.inHand = ErrorChunk THEN "done" ELSE "polling") /\ q = Append(ff.queue, ff.inHand)
      OBVIOUS
    <3> HIDE DEF q, p
    <3>4. ff' \in FfiState
      BY <1>f, <3>1, <3>2 DEF FfiState
    <3>5. /\ UNCHANGED <<ff.slot, ff.receiver, ff.flag, ff.pc, ff.item, ff.got, ff.lost, ff.lastError,
                         ff.cleared>>
          /\ UNCHANGED <<ff.inHand, ff.produced>> /\ ff'.queue = q /\ ff'.producer = p
      BY <1>f, <3>2 DEF FfiState
    <3>6. QED
      BY <2>2, <3>2, <3>3, <3>4, <3>5 DEF FfiProduces
  <2>3. QED
    BY <2>1, <2>2
<1>7. CASE eggfetch_response_stream_cancel
  BY <1>7, <1>f DEF eggfetch_response_stream_cancel, FfiCalls, FfiState
<1>8. CASE eggfetch_response_stream_free
  BY <1>8, <1>f, ZenonT(60) DEF eggfetch_response_stream_free, FfiCalls, FfiState
<1>9. ASSUME NEW t \in HostThreads, NextTakes(t)
      PROVE  ff' \in FfiState /\ FfiCalls
  <2>1. CASE ff.slot
    BY <1>9, <1>f, <2>1, ZenonT(60) DEF NextTakes, FfiCalls, FfiState
  <2>2. CASE ~ff.slot
    BY <1>9, <1>f, <2>2, ZenonT(60) DEF NextTakes, FfiCalls, FfiState
  <2>3. QED
    BY <2>1, <2>2
<1>l. ASSUME NEW t \in HostThreads, HostLooks(t)
      PROVE  ff' \in FfiState /\ FfiCalls
  <2>1. ff' = [ff EXCEPT !.pc[t] = "idle", !.cleared[t] = FALSE] /\ ff.pc[t] = "null"
    BY <1>l DEF HostLooks
  <2>2. ff' \in FfiState
    BY <1>f, <2>1, ZenonT(60) DEF FfiState
  <2>3. /\ UNCHANGED <<ff.queue, ff.got, ff.lost, ff.producer, ff.inHand, ff.produced, ff.receiver,
                       ff.lastError, ff.flag, ff.item>>
        /\ ff'.pc = [ff.pc EXCEPT ![t] = "idle"] /\ ff'.cleared = [ff.cleared EXCEPT ![t] = FALSE]
    BY <1>f, <2>1 DEF FfiState
  <2>4. \A u \in HostThreads : /\ ff'.pc[u] = IF u = t THEN "idle" ELSE ff.pc[u]
                               /\ u # t => ff'.cleared[u] = ff.cleared[u]
    BY <1>f, <2>3 DEF FfiState
  <2>5. \A u \in HostThreads :
           /\ ff'.pc[u] = "chunk" <=> ff.pc[u] = "chunk"
           /\ ff'.pc[u] = "null" => ff.pc[u] = "null" /\ ff'.cleared[u] = ff.cleared[u]
    <3> TAKE u \in HostThreads
    <3>1. CASE u = t
      <4>1. ff'.pc[u] = "idle" /\ ff.pc[u] = "null"
        BY <2>1, <2>4, <3>1, Zenon
      <4>2. QED
        BY <4>1
    <3>2. CASE u # t
      BY <2>4, <3>2, Zenon
    <3>3. QED
      BY <3>1, <3>2
  <2>6. /\ UNCHANGED <<ff.queue, ff.got, ff.lost, ff.producer, ff.inHand, ff.produced, ff.receiver>>
        /\ UNCHANGED ff.lastError /\ ff'.flag = ff.flag /\ ff'.item = ff.item
    BY <2>3
  <2>7. QED
    BY <2>2, <2>5, <2>6 DEF FfiCalls
<1>e. ASSUME NEW t \in HostThreads, ff.pc[t] \in ReceiverSteps, NEW w, ff' = StreamEnds(ff, t, w),
             w \in {"cancelled", "runtime", "body"}
      PROVE  ff' \in FfiState /\ FfiEnds
  <2> DEFINE P == [ff.pc EXCEPT ![t] = "null"]
             I == [ff.item EXCEPT ![t] = Nothing]
  <2>1. ff' = [ff EXCEPT !.pc = P, !.item = I, !.receiver = FALSE, !.queue = << >>, !.lastError = w]
    BY <1>f, <1>e DEF StreamEnds, ReturnedNull, FfiState
  <2>2. /\ P \in [HostThreads -> FfiSteps]
        /\ I \in [HostThreads -> 0 .. ErrorChunk]
    BY <1>f DEF FfiState, FfiSteps, Nothing
  <2>3. << >> \in Seq(1 .. ErrorChunk) /\ P = [ff.pc EXCEPT ![t] = "null"]
    BY EmptySeq
  <2> HIDE DEF P, I
  <2>4. ff' \in FfiState
    BY <1>f, <1>e, <2>1, <2>2, <2>3, ZenonT(60) DEF FfiState, FfiSteps
  <2>5. /\ UNCHANGED <<ff.got, ff.lost, ff.producer, ff.inHand, ff.produced, ff.slot, ff.flag>>
        /\ ff'.queue = << >> /\ ~ff'.receiver /\ ff'.pc = P /\ ff'.lastError # "none"
    BY <1>f, <1>e, <2>1 DEF FfiState
  <2>6. QED
    BY <1>e, <2>3, <2>4, <2>5 DEF FfiEnds
<1>10. ASSUME NEW t \in HostThreads, NextParks(t)
       PROVE  ff' \in FfiState /\ (FfiCalls \/ FfiEnds)
  <2>1. CASE CancelledBefore
    BY <1>10, <1>e, <2>1 DEF NextParks, ReceiverSteps
  <2>2. CASE ~CancelledBefore
    BY <1>10, <1>f, <2>2 DEF NextParks, FfiCalls, FfiState
  <2>3. QED
    BY <2>1, <2>2
<1>11. ASSUME NEW t \in HostThreads, NextReceives(t)
       PROVE  ff' \in FfiState /\ (FfiReceives(t) \/ FfiEnds)
  <2>1. CASE ff.queue # << >>
    <3> DEFINE h == Head(ff.queue)
               q == Tail(ff.queue)
    <3>0. h \in 1 .. ErrorChunk /\ q \in Seq(1 .. ErrorChunk)
      BY <1>f, <2>1, HeadTailProperties
    <3>1. h \in 0 .. ErrorChunk
      BY <1>f, <3>0
    <3>2. ff' = [ff EXCEPT !.pc[t] = "chunk", !.item[t] = h, !.queue = q, !.slot = FALSE]
          /\ ff.pc[t] = "parked"
      BY <1>11, <2>1 DEF NextReceives, SlotWhileCopying
    <3>3. ff.slot = FALSE
      BY <1>f, <1>h, <3>2 DEF ReceiverSteps, FfiState
    <3>4. h = Head(ff.queue) /\ q = Tail(ff.queue)
      OBVIOUS
    <3> HIDE DEF h, q
    <3>5. ff' \in FfiState
      BY <1>f, <3>0, <3>1, <3>2, ZenonT(60) DEF FfiState
    <3>6. /\ UNCHANGED <<ff.got, ff.lost, ff.producer, ff.inHand, ff.produced, ff.receiver, ff.flag>>
          /\ ff'.queue = q /\ ff'.pc = [ff.pc EXCEPT ![t] = "chunk"] /\ ff'.slot = FALSE
          /\ UNCHANGED <<ff.lastError, ff.cleared>>
          /\ ff'.item = [ff.item EXCEPT ![t] = h]
      BY <1>f, <3>2 DEF FfiState
    <3>7. QED
      BY <2>1, <3>2, <3>3, <3>4, <3>5, <3>6 DEF FfiReceives
  <2>2. CASE ff.queue = << >>
    <3>1. ff' = [ReturnedNull(ff, t) EXCEPT !.receiver = FALSE] /\ ff.pc[t] = "parked"
          /\ ff.producer = "done"
      BY <1>11, <2>2 DEF NextReceives
    <3> DEFINE P == [ff.pc EXCEPT ![t] = "null"]
               I == [ff.item EXCEPT ![t] = Nothing]
    <3>2. ff' = [ff EXCEPT !.pc = P, !.item = I, !.receiver = FALSE]
      BY <1>f, <3>1 DEF ReturnedNull, FfiState
    <3>3. /\ P \in [HostThreads -> FfiSteps]
          /\ I \in [HostThreads -> 0 .. ErrorChunk] /\ P = [ff.pc EXCEPT ![t] = "null"]
      BY <1>f DEF FfiState, FfiSteps, Nothing
    <3> HIDE DEF P, I
    <3>4. ff' \in FfiState
      BY <1>f, <3>1, <3>2, <3>3, ZenonT(60) DEF FfiState, FfiSteps
    <3>5. /\ UNCHANGED <<ff.got, ff.lost, ff.producer, ff.inHand, ff.produced, ff.slot, ff.flag, ff.queue>>
          /\ ~ff'.receiver /\ ff'.pc = P
      BY <1>f, <3>2 DEF FfiState
    <3>6. QED
      BY <2>2, <3>1, <3>3, <3>4, <3>5 DEF FfiEnds, ReceiverSteps
  <2>3. QED
    BY <2>1, <2>2
<1>12. ASSUME NEW t \in HostThreads, NextCancelled(t) \/ RuntimeFails(t) \/ ErrorReceived(t)
       PROVE  ff' \in FfiState /\ FfiEnds
  BY <1>12, <1>e DEF NextCancelled, RuntimeFails, ErrorReceived, FailureRecorded, ReceiverSteps
<1>13. ASSUME NEW t \in HostThreads, ChunkCopied(t)
       PROVE  ff' \in FfiState /\ FfiHandsOver(t)
  <2> DEFINE g == Append(ff.got, ff.item[t])
  <2>1. ff.item[t] \in 1 .. StreamChunks
    BY <1>13, FfiFacts, FfiCopying DEF ChunkCopied
  <2>2. g \in Seq(1 .. StreamChunks) /\ g = Append(ff.got, ff.item[t])
    BY <1>f, <2>1, AppendProperties
  <2> DEFINE d == [u \in HostThreads |-> ff.pc[u] = "null"]
  <2>3. ff' = [ff EXCEPT !.pc[t] = "restoring", !.lastError = "none", !.got = g, !.cleared = d]
        /\ ff.pc[t] = "chunk" /\ ff.item[t] # ErrorChunk
    BY <1>13 DEF ChunkCopied
  <2>d. d \in [HostThreads -> BOOLEAN] /\ d = [u \in HostThreads |-> ff.pc[u] = "null"]
    OBVIOUS
  <2> HIDE DEF g, d
  <2>4. ff' \in FfiState
    BY <1>f, <2>2, <2>3, <2>d DEF FfiState
  <2>5. QED
    <3>1. /\ UNCHANGED <<ff.queue, ff.producer, ff.inHand, ff.produced, ff.receiver, ff.flag, ff.item,
                         ff.slot, ff.lost>>
          /\ ff'.pc = [ff.pc EXCEPT ![t] = "restoring"] /\ ff'.got = g /\ ff'.cleared = d
      BY <1>f, <2>3 DEF FfiState
    <3>2. QED
      BY <2>2, <2>3, <2>4, <2>d, <3>1 DEF FfiHandsOver
<1>14. ASSUME NEW t \in HostThreads, NextReturnsChunk(t) \/ NextReturnsNoMemory(t) \/ NextIsRefused(t)
       PROVE  ff' \in FfiState /\ FfiCalls
  <2> DEFINE p == IF NextReturnsChunk(t) THEN "idle" ELSE "null"
             P == [ff.pc EXCEPT ![t] = p]
             I == [ff.item EXCEPT ![t] = Nothing]
  <2>0. P \in [HostThreads -> FfiSteps] /\ I \in [HostThreads -> 0 .. ErrorChunk]
    BY <1>f DEF FfiState, FfiSteps, Nothing
  <2>p. ff.pc[t] \in {"restoring", "noMemory", "refused"}
    BY <1>14 DEF NextReturnsChunk, NextReturnsNoMemory, NextIsRefused
  <2>c. \A u \in HostThreads : /\ P[u] = "chunk" <=> ff.pc[u] = "chunk"
                               /\ ff.pc[u] = "chunk" => I[u] = ff.item[u]
                               /\ p = "idle" /\ P[u] = "null" => ff.pc[u] = "null"
    BY <1>f, <2>p DEF FfiState
  <2>1. CASE NextReturnsChunk(t)
    <3>1. ff' = [ff EXCEPT !.pc = P, !.item = I, !.slot = TRUE] /\ p = "idle"
      BY <1>f, <2>1 DEF NextReturnsChunk, FfiState
    <3> HIDE DEF p, P, I
    <3>2. QED
      BY <1>f, <2>0, <2>c, <3>1, ZenonT(60) DEF FfiCalls, FfiState, FfiSteps
  <2>2. CASE NextReturnsNoMemory(t) \/ NextIsRefused(t)
    <3>1. PICK w \in {"memory", "concurrent"} : ff' = [ff EXCEPT !.pc = P, !.item = I, !.lastError = w]
      <4>1. p = "null"
        BY <2>2 DEF NextReturnsChunk, NextReturnsNoMemory, NextIsRefused
      <4>2. QED
        BY <1>f, <2>2, <4>1 DEF NextReturnsNoMemory, NextIsRefused, ReturnedNull, FfiState
    <3> HIDE DEF p, P, I
    <3>2. QED
      BY <1>f, <2>0, <2>c, <3>1 DEF FfiCalls, FfiState, FfiSteps
  <2>3. QED
    BY <1>14, <2>1, <2>2
<1>15. ASSUME NEW t \in HostThreads, CopyFails(t)
       PROVE  ff' \in FfiState /\ FfiHandsOver(t)
  <2> DEFINE n == ff.lost + 1
  <2>1. n \in 0 .. StreamChunks /\ n = ff.lost + 1
    BY <1>15, FfiFacts, FfiCopying DEF CopyFails
  <2>2. ff' = [ff EXCEPT !.pc[t] = "noMemory", !.lost = n, !.slot = TRUE]
        /\ ff.pc[t] = "chunk" /\ ff.item[t] # ErrorChunk
    BY <1>15 DEF CopyFails
  <2> HIDE DEF n
  <2>3. QED
    BY <1>f, <2>1, <2>2 DEF FfiHandsOver, FfiState
<1>16. QED
  BY <1>1, <1>2, <1>3, <1>4, <1>5, <1>6, <1>7, <1>8, <1>9, <1>l, <1>10, <1>11, <1>12, <1>13, <1>14,
     <1>15 DEF FfiNext

\* The receiver passes from the slot to one call and back, or is dropped by its holder.
LEMMA FfiHoldersStep ==
    ASSUME FfiInv, [FfiNext]_ffiVars
    PROVE  FfiHolders'
<1>1. ff \in FfiState /\ FfiHolders
  BY DEF FfiInv
<1>q. ASSUME UNCHANGED <<ff.pc, ff.slot, ff.receiver>>
      PROVE  FfiHolders'
  BY <1>1, <1>q DEF FfiHolders
<1>2. CASE UNCHANGED ffiVars
  BY <1>q, <1>2 DEF ffiVars
<1>3. CASE eggfetch_client_send_streaming \/ BodyIsOver \/ eggfetch_response_stream_cancel
           \/ eggfetch_response_stream_free
  BY <1>1, <1>q, <1>3 DEF eggfetch_client_send_streaming, BodyIsOver, eggfetch_response_stream_cancel,
     eggfetch_response_stream_free, FfiState
<1>4. CASE BodyYields \/ BodyErrs
  <2>1. PICK x : ProducerGets(x)
    BY <1>4 DEF BodyYields, BodyErrs
  <2>2. QED
    BY <1>1, <1>q, <2>1 DEF ProducerGets, FfiState
<1>5. CASE ProducerSends
  BY <1>1, <1>q, <1>5 DEF ProducerSends, FfiState
<1>m. ASSUME NEW t \in HostThreads, NEW p, ff'.pc = [ff.pc EXCEPT ![t] = p],
             \/ p = "took" /\ ff.slot /\ ~ff'.slot /\ ff'.receiver = ff.receiver
             \/ /\ ff.pc[t] \in ReceiverSteps /\ p \in ReceiverSteps
                /\ ff'.slot = ff.slot /\ ff'.receiver = ff.receiver
             \/ /\ ff.pc[t] \in ReceiverSteps /\ p = "null" /\ ~ff'.receiver /\ ff'.slot = ff.slot
             \/ /\ ff.pc[t] \in ReceiverSteps /\ p \notin ReceiverSteps /\ ff'.slot /\ ff'.receiver = ff.receiver
             \/ p \notin ReceiverSteps /\ ff'.slot = ff.slot /\ ff'.receiver = ff.receiver
      PROVE  FfiHolders'
  <2>1. \A u \in HostThreads : ff'.pc[u] = IF u = t THEN p ELSE ff.pc[u]
    BY <1>1, <1>m DEF FfiState
  <2>2. QED
    BY <1>1, <1>m, <2>1 DEF FfiHolders, ReceiverSteps
<1>6. ASSUME NEW t \in HostThreads, NextTakes(t)
      PROVE  FfiHolders'
  <2>1. CASE ff.slot
    <3>1. ff'.pc = [ff.pc EXCEPT ![t] = "took"] /\ ~ff'.slot /\ ff'.receiver = ff.receiver
      BY <1>1, <1>6, <2>1 DEF NextTakes, FfiState
    <3>2. QED
      BY <1>m, <2>1, <3>1
  <2>2. CASE ~ff.slot
    <3>1. ff'.pc = [ff.pc EXCEPT ![t] = "refused"] /\ ff'.slot = ff.slot /\ ff'.receiver = ff.receiver
      BY <1>1, <1>6, <2>2 DEF NextTakes, FfiState
    <3>2. QED
      BY <1>m, <3>1 DEF ReceiverSteps
  <2>3. QED
    BY <2>1, <2>2
<1>7. ASSUME NEW t \in HostThreads, NextParks(t), ~CancelledBefore
      PROVE  FfiHolders'
  <2>1. ff'.pc = [ff.pc EXCEPT ![t] = "parked"] /\ ff'.slot = ff.slot /\ ff'.receiver = ff.receiver
        /\ ff.pc[t] = "took"
    BY <1>1, <1>7 DEF NextParks, FfiState
  <2>2. QED
    BY <1>m, <2>1 DEF ReceiverSteps
<1>8. ASSUME NEW t \in HostThreads,
             NextReturnsChunk(t) \/ NextReturnsNoMemory(t) \/ NextIsRefused(t) \/ HostLooks(t)
      PROVE  FfiHolders'
  <2>1. CASE NextReturnsChunk(t)
    <3>1. ff'.pc = [ff.pc EXCEPT ![t] = "idle"] /\ ff'.slot /\ ff'.receiver = ff.receiver
          /\ ff.pc[t] = "restoring"
      BY <1>1, <2>1 DEF NextReturnsChunk, FfiState
    <3>2. QED
      BY <1>m, <3>1 DEF ReceiverSteps
  <2>2. CASE NextReturnsNoMemory(t) \/ NextIsRefused(t)
    <3>1. ff'.pc = [ff.pc EXCEPT ![t] = "null"] /\ ff'.slot = ff.slot /\ ff'.receiver = ff.receiver
      BY <1>1, <2>2 DEF NextReturnsNoMemory, NextIsRefused, ReturnedNull, FfiState
    <3>2. QED
      BY <1>m, <3>1 DEF ReceiverSteps
  <2>3. CASE HostLooks(t)
    <3>1. ff'.pc = [ff.pc EXCEPT ![t] = "idle"] /\ ff'.slot = ff.slot /\ ff'.receiver = ff.receiver
      BY <1>1, <2>3 DEF HostLooks, FfiState
    <3>2. QED
      BY <1>m, <3>1 DEF ReceiverSteps
  <2>4. QED
    BY <1>8, <2>1, <2>2, <2>3
<1>h. \A t \in HostThreads : ff.pc[t] \in ReceiverSteps => ~ff.slot /\ ff.receiver
  BY <1>1 DEF FfiHolders
<1>e. ASSUME NEW t \in HostThreads, ff.pc[t] \in ReceiverSteps, NEW w, ff' = StreamEnds(ff, t, w)
      PROVE  FfiHolders'
  <2>1. ff'.pc = [ff.pc EXCEPT ![t] = "null"] /\ ff'.slot = ff.slot /\ ~ff'.receiver
    BY <1>1, <1>e DEF StreamEnds, ReturnedNull, FfiState
  <2>2. QED
    BY <1>m, <1>e, <2>1
<1>9. ASSUME NEW t \in HostThreads,
             NextCancelled(t) \/ RuntimeFails(t) \/ ErrorReceived(t) \/ (NextParks(t) /\ CancelledBefore)
      PROVE  FfiHolders'
  BY <1>9, <1>e DEF NextCancelled, RuntimeFails, ErrorReceived, FailureRecorded, ReceiverSteps, NextParks
<1>10. ASSUME NEW t \in HostThreads, NextReceives(t)
       PROVE  FfiHolders'
  <2>0. ff.pc[t] = "parked" /\ ff.slot = FALSE
    BY <1>1, <1>h, <1>10 DEF NextReceives, ReceiverSteps, FfiState
  <2>1. CASE ff.queue # << >>
    <3>1. ff'.pc = [ff.pc EXCEPT ![t] = "chunk"] /\ ff'.slot = FALSE /\ ff'.receiver = ff.receiver
      BY <1>1, <1>10, <2>1 DEF NextReceives, SlotWhileCopying, FfiState
    <3>2. QED
      BY <1>m, <2>0, <3>1 DEF ReceiverSteps
  <2>2. CASE ff.queue = << >>
    <3>1. ff'.pc = [ff.pc EXCEPT ![t] = "null"] /\ ff'.slot = ff.slot /\ ~ff'.receiver
      BY <1>1, <1>10, <2>2 DEF NextReceives, ReturnedNull, FfiState
    <3>2. QED
      BY <1>m, <2>0, <3>1 DEF ReceiverSteps
  <2>3. QED
    BY <2>1, <2>2
<1>11. ASSUME NEW t \in HostThreads, ChunkCopied(t)
       PROVE  FfiHolders'
  <2>1. ff'.pc = [ff.pc EXCEPT ![t] = "restoring"] /\ ff'.slot = ff.slot /\ ff'.receiver = ff.receiver
        /\ ff.pc[t] = "chunk"
    BY <1>1, <1>11 DEF ChunkCopied, FfiState
  <2>2. QED
    BY <1>m, <2>1 DEF ReceiverSteps
<1>12. ASSUME NEW t \in HostThreads, CopyFails(t)
       PROVE  FfiHolders'
  <2>1. ff'.pc = [ff.pc EXCEPT ![t] = "noMemory"] /\ ff'.slot /\ ff'.receiver = ff.receiver
        /\ ff.pc[t] = "chunk"
    BY <1>1, <1>12 DEF CopyFails, FfiState
  <2>2. QED
    BY <1>m, <2>1 DEF ReceiverSteps
<1>13. QED
  BY <1>2, <1>3, <1>4, <1>5, <1>6, <1>7, <1>8, <1>9, <1>10, <1>11, <1>12 DEF FfiNext

\* The producer's own bookkeeping, and the end.
LEMMA FfiProducerStep ==
    ASSUME FfiInv, [FfiNext]_ffiVars
    PROVE  FfiProducer'
<1>1. FfiProducer /\ ff \in FfiState /\ ErrorChunk = StreamChunks + 1 /\ StreamChunks \in Nat
      /\ ff.produced \in Nat
  BY FfiFacts DEF FfiInv
<1>2. CASE FfiProduces
  BY <1>1, <1>2 DEF FfiProduces, FfiProducer
<1>3. CASE FfiCalls
  BY <1>1, <1>3 DEF FfiCalls, FfiProducer
<1>4. CASE FfiEnds
  BY <1>1, <1>4 DEF FfiEnds, FfiProducer
<1>5. ASSUME NEW t \in HostThreads, FfiReceives(t) \/ FfiHandsOver(t)
      PROVE  FfiProducer'
  BY <1>1, <1>5 DEF FfiReceives, FfiHandsOver, FfiProducer
<1>6. QED
  BY <1>2, <1>3, <1>4, <1>5, FfiKinds

\* The items on the channel and in the copying call's hand go on where the host's chunks end.
LEMMA FfiChannelStep ==
    ASSUME FfiInv, [FfiNext]_ffiVars
    PROVE  FfiChannel'
<1>f. /\ FfiHad \in Nat /\ FfiTaken \in Nat /\ ErrorChunk = StreamChunks + 1 /\ StreamChunks \in Nat
      /\ Len(ff.queue) \in Nat /\ ff.produced \in Nat /\ FfiHad <= ff.produced
      /\ ff.produced <= StreamChunks /\ ff \in FfiState /\ ff.queue \in Seq(1 .. ErrorChunk)
      /\ Len(ff.got) \in Nat /\ ff.lost \in Nat /\ ff.got \in Seq(1 .. StreamChunks)
  BY FfiFacts
<1>p. FfiProducer
  BY DEF FfiInv
<1>c. /\ ff.receiver => FfiTaken + Len(ff.queue) = FfiSent
      /\ ~ff.receiver => ff.queue = << >>
  BY DEF FfiInv, FfiChannel
<1>i. \A i \in 1 .. Len(ff.queue) : ff.queue[i] = ItemAt(FfiTaken + i)
  BY DEF FfiInv, FfiChannel
<1>t. \A t \in HostThreads : ff.pc[t] = "chunk" => ff.item[t] = ItemAt(FfiTaken) /\ ff.receiver
  BY DEF FfiInv, FfiChannel, FfiHolders, ReceiverSteps
<1>s. FfiSent \in Int /\ FfiSent <= ff.produced + 1
  BY <1>f DEF FfiSent
<1>1. ASSUME FfiProduces
      PROVE  FfiChannel'
  <2>1. FfiHad' = FfiHad
    BY <1>1 DEF FfiProduces, FfiHad
  <2>2. FfiTaken' = FfiTaken
    BY <1>1, <2>1 DEF FfiProduces, FfiTaken
  <2>u. ff'.receiver = ff.receiver /\ ff'.pc = ff.pc /\ ff'.item = ff.item
    BY <1>1 DEF FfiProduces
  <2>3. ASSUME ff'.queue = ff.queue, ff'.produced = ff.produced, ff.receiver => FfiSent' = FfiSent
        PROVE  FfiChannel'
    <3>1. \A k : ItemAt(k)' = ItemAt(k)
      BY <2>3 DEF ItemAt
    <3>2. QED
      BY <1>f, <1>c, <1>i, <1>t, <2>1, <2>2, <2>3, <2>u, <3>1 DEF FfiChannel
  <2>4. CASE ff.producer = "none" /\ ff'.producer = "polling" /\ UNCHANGED <<ff.queue, ff.inHand, ff.produced>>
    <3>1. FfiSent' = FfiSent
      BY <1>p, <2>4 DEF FfiSent, FfiProducer
    <3>2. QED
      BY <2>3, <2>4, <3>1
  <2>5. CASE ff.producer = "polling" /\ ff'.producer = "done" /\ UNCHANGED <<ff.queue, ff.inHand, ff.produced>>
    <3>1. FfiSent' = FfiSent
      BY <1>p, <2>5 DEF FfiSent, FfiProducer
    <3>2. QED
      BY <2>3, <2>5, <3>1
  <2>6. CASE /\ ff.producer = "polling" /\ ff'.producer = "sending" /\ ff'.produced = ff.produced + 1
             /\ ff.produced < StreamChunks /\ ff'.inHand = ff.produced + 1 /\ UNCHANGED ff.queue
    <3>1. FfiSent' = ff.produced /\ FfiSent = ff.produced
      BY <1>f, <1>p, <2>6 DEF FfiSent, FfiProducer
    <3>2. \A k \in Nat : k <= ff.produced => ItemAt(k)' = ItemAt(k)
      BY <1>f, <2>6 DEF ItemAt
    <3>3. ASSUME NEW i \in 1 .. Len(ff.queue)
          PROVE  ff.queue[i] = ItemAt(FfiTaken + i)'
      <4>1. ff.receiver
        BY <1>c, <1>f, <3>3
      <4>2. FfiTaken + i \in Nat /\ FfiTaken + i <= ff.produced
        BY <1>c, <1>f, <3>1, <3>3, <4>1
      <4>3. ItemAt(FfiTaken + i)' = ItemAt(FfiTaken + i)
        BY <3>2, <4>2, <2>2 DEF ItemAt
      <4>4. QED
        BY <1>i, <4>3
    <3>4. ASSUME NEW t \in HostThreads, ff.pc[t] = "chunk"
          PROVE  ff.item[t] = ItemAt(FfiTaken)'
      <4>1. FfiTaken <= ff.produced
        BY <1>c, <1>f, <1>t, <3>1, <3>4
      <4>2. ItemAt(FfiTaken)' = ItemAt(FfiTaken)
        BY <1>f, <2>2, <2>6, <4>1 DEF ItemAt
      <4>3. QED
        BY <1>t, <3>4, <4>2
    <3>5. FfiHad' <= ff'.produced
      BY <1>f, <2>1, <2>6
    <3>6. QED
      BY <1>c, <2>2, <2>6, <2>u, <3>1, <3>3, <3>4, <3>5 DEF FfiChannel
  <2>7. CASE /\ ff.producer = "polling" /\ ff'.producer = "sending" /\ ff'.inHand = ErrorChunk
             /\ UNCHANGED <<ff.queue, ff.produced>>
    <3>1. FfiSent' = FfiSent
      BY <1>p, <2>7 DEF FfiSent, FfiProducer
    <3>2. QED
      BY <2>3, <2>7, <3>1
  <2>8. CASE /\ ff.producer = "sending" /\ ff'.producer = "done" /\ ~ff.receiver
             /\ UNCHANGED <<ff.queue, ff.inHand, ff.produced>>
    BY <2>3, <2>8
  <2>9. CASE /\ ff.producer = "sending" /\ ff.receiver /\ ff'.queue = Append(ff.queue, ff.inHand)
             /\ ff'.producer = (IF ff.inHand = ErrorChunk THEN "done" ELSE "polling")
             /\ UNCHANGED <<ff.inHand, ff.produced>>
    <3>1. FfiSent' = FfiSent + 1 /\ ff.inHand = ItemAt(FfiSent + 1) /\ FfiSent \in Nat
          /\ ff.inHand \in 1 .. ErrorChunk
      BY <1>f, <1>p, <2>9 DEF FfiSent, FfiProducer, ItemAt
    <3>2. /\ Len(ff'.queue) = Len(ff.queue) + 1 /\ ff'.queue[Len(ff.queue) + 1] = ff.inHand
          /\ \A i \in 1 .. Len(ff.queue) : ff'.queue[i] = ff.queue[i]
      BY <1>f, <2>9, <3>1, AppendProperties
    <3>3. \A k : ItemAt(k)' = ItemAt(k)
      BY <2>9 DEF ItemAt
    <3>4. FfiTaken + (Len(ff.queue) + 1) = FfiSent + 1
      <4>1. (FfiTaken + Len(ff.queue)) + 1 = FfiTaken + (Len(ff.queue) + 1)
        BY <1>f, MoveOne, Zenon
      <4>2. QED
        BY <1>c, <2>9, <4>1, Zenon
    <3>5. ASSUME NEW i \in 1 .. Len(ff.queue) + 1
          PROVE  ff'.queue[i] = ItemAt(FfiTaken + i)
      <4>1. CASE i \in 1 .. Len(ff.queue)
        BY <1>i, <3>2, <4>1
      <4>2. CASE i = Len(ff.queue) + 1
        BY <3>1, <3>2, <3>4, <4>2
      <4>3. QED
        BY <1>f, <4>1, <4>2, UpToNext, Zenon
    <3>6. QED
      BY <1>f, <1>t, <2>1, <2>2, <2>9, <2>u, <3>1, <3>2, <3>3, <3>4, <3>5 DEF FfiChannel
  <2>10. QED
    BY <1>1, <2>4, <2>5, <2>6, <2>7, <2>8, <2>9 DEF FfiProduces
<1>2. ASSUME FfiCalls
      PROVE  FfiChannel'
  <2>1. FfiHad' = FfiHad
    BY <1>2 DEF FfiCalls, FfiHad
  <2>2. FfiTaken' = FfiTaken
    BY <1>2, <2>1 DEF FfiCalls, FfiTaken
  <2>3. FfiSent' = FfiSent /\ \A k : ItemAt(k)' = ItemAt(k)
    BY <1>2 DEF FfiCalls, FfiSent, ItemAt
  <2>4. QED
    BY <1>2, <1>f, <1>c, <1>i, <1>t, <2>1, <2>2, <2>3 DEF FfiCalls, FfiChannel
<1>3. ASSUME FfiEnds
      PROVE  FfiChannel'
  <2>1. FfiHad' = FfiHad /\ ff'.produced = ff.produced /\ ff'.queue = << >> /\ ~ff'.receiver
    BY <1>3 DEF FfiEnds, FfiHad
  <2>2. \A t \in HostThreads : ff'.pc[t] # "chunk"
    BY <2>1, FfiHoldersStep DEF FfiHolders, ReceiverSteps
  <2>3. Len(ff'.queue) = 0
    BY <2>1
  <2>4. QED
    BY <1>f, <2>1, <2>2, <2>3 DEF FfiChannel
<1>4. ASSUME NEW t \in HostThreads, FfiReceives(t)
      PROVE  FfiChannel'
  <2>1. FfiHad' = FfiHad /\ \A k : ItemAt(k)' = ItemAt(k)
    BY <1>4 DEF FfiReceives, FfiHad, ItemAt
  <2>2. \A u \in HostThreads : ff.pc[u] # "chunk" /\ (ff'.pc[u] = "chunk" => u = t) /\ ff'.pc[t] = "chunk"
    BY <1>4, <1>f DEF FfiReceives, FfiInv, FfiHolders, ReceiverSteps, FfiState
  <2>3. FfiTaken = FfiHad /\ FfiTaken' = FfiHad + 1
    BY <2>1, <2>2 DEF FfiTaken
  <2>4. FfiSent' = FfiSent /\ ff'.receiver = ff.receiver /\ ff.receiver /\ ff'.produced = ff.produced
    BY <1>4 DEF FfiReceives, FfiSent, FfiInv, FfiHolders, ReceiverSteps
  <2> DEFINE q == Tail(ff.queue)
  <2>5. ff'.queue = q /\ ff.queue # << >> /\ ff'.item[t] = Head(ff.queue)
    BY <1>4, <1>f DEF FfiReceives, FfiState
  <2>6. /\ Len(q) = Len(ff.queue) - 1 /\ Head(ff.queue) = ff.queue[1] /\ Len(ff.queue) >= 1
        /\ \A i \in 1 .. Len(q) : q[i] = ff.queue[i + 1]
    BY <1>f, <2>5, HeadTailProperties
  <2> HIDE DEF q
  <2>7. ASSUME NEW i \in 1 .. Len(q)
        PROVE  q[i] = ItemAt((FfiHad + 1) + i)
    <3>1. i + 1 \in 1 .. Len(ff.queue) /\ FfiHad + (i + 1) = (FfiHad + 1) + i
      BY <1>f, <2>6
    <3>2. QED
      BY <1>i, <2>3, <2>6, <3>1
  <2>8. (FfiHad + 1) + Len(q) = FfiSent
    <3>1. (FfiHad + 1) + (Len(ff.queue) - 1) = FfiHad + Len(ff.queue)
      BY <1>f, PassOne, Zenon
    <3>2. QED
      BY <1>c, <2>3, <2>4, <2>6, <3>1, Zenon
  <2>9. ff'.item[t] = ItemAt(FfiHad + 1)
    BY <1>f, <1>i, <2>3, <2>5, <2>6
  <2>10. QED
    BY <1>f, <2>1, <2>2, <2>3, <2>4, <2>5, <2>7, <2>8, <2>9 DEF FfiChannel
<1>5. ASSUME NEW t \in HostThreads, FfiHandsOver(t)
      PROVE  FfiChannel'
  <2>1. /\ FfiTaken = FfiHad + 1 /\ FfiHad + 1 <= ff.produced /\ ff.receiver
    BY <1>5, FfiCopying DEF FfiHandsOver
  <2>2. FfiHad' = FfiHad + 1
    <3>1. CASE ff'.got = Append(ff.got, ff.item[t]) /\ ff'.lost = ff.lost
      <4>1. ff.item[t] \in 1 .. StreamChunks
        BY <1>5, FfiCopying, FfiFacts DEF FfiHandsOver
      <4>2. Len(ff'.got) = Len(ff.got) + 1
        BY <1>f, <3>1, <4>1, AppendProperties
      <4>3. QED
        <5>1. (Len(ff.got) + 1) + ff.lost = (Len(ff.got) + ff.lost) + 1
          BY <1>f, AddOne, Zenon
        <5>2. QED
          BY <3>1, <4>2, <5>1 DEF FfiHad
    <3>2. CASE ff'.got = ff.got /\ ff'.lost = ff.lost + 1
      <4>1. (Len(ff.got) + ff.lost) + 1 = Len(ff.got) + (ff.lost + 1)
        BY <1>f, MoveOne, Zenon
      <4>2. QED
        BY <3>2, <4>1 DEF FfiHad
    <3>3. QED
      BY <1>5, <3>1, <3>2 DEF FfiHandsOver
  <2>3. \A u \in HostThreads : ff'.pc[u] # "chunk"
    BY <1>5, <1>f DEF FfiHandsOver, FfiInv, FfiHolders, ReceiverSteps, FfiState
  <2>4. FfiTaken' = FfiTaken
    BY <2>1, <2>2, <2>3 DEF FfiTaken
  <2>5. FfiSent' = FfiSent /\ (\A k : ItemAt(k)' = ItemAt(k)) /\ ff'.queue = ff.queue
        /\ ff'.receiver = ff.receiver /\ ff'.produced = ff.produced
    BY <1>5 DEF FfiHandsOver, FfiSent, ItemAt
  <2>6. QED
    BY <1>f, <1>c, <1>i, <2>1, <2>2, <2>3, <2>4, <2>5 DEF FfiChannel
<1>6. QED
  BY <1>1, <1>2, <1>3, <1>4, <1>5, FfiKinds

\* What the host gets next has a higher number than all it has.
LEMMA FfiGotStep ==
    ASSUME FfiInv, [FfiNext]_ffiVars
    PROVE  FfiGot'
<1>f. FfiHad \in Nat /\ Len(ff.got) \in Nat /\ ff.lost \in Nat /\ ff.got \in Seq(1 .. StreamChunks)
  BY FfiFacts
<1>g. /\ \A i \in 1 .. Len(ff.got) : ff.got[i] <= FfiHad
      /\ \A i \in 1 .. Len(ff.got) - 1 : ff.got[i] < ff.got[i + 1]
  BY DEF FfiInv, FfiGot
<1>1. ASSUME ff'.got = ff.got, ff'.lost \in {ff.lost, ff.lost + 1}
      PROVE  FfiGot'
  <2>1. FfiHad' \in Nat /\ FfiHad <= FfiHad'
    BY <1>f, <1>1 DEF FfiHad
  <2>2. \A i \in 1 .. Len(ff.got) : ff.got[i] \in Nat
    <3>1. \A i \in 1 .. Len(ff.got) : ff.got[i] \in 1 .. StreamChunks
      BY <1>f, ElementOfSeq, Zenon
    <3>2. QED
      BY <3>1, FfiStreamAssumption
  <2>3. QED
    <3>1. ASSUME NEW i \in 1 .. Len(ff.got)
          PROVE  ff.got[i] <= FfiHad'
      BY <1>f, <1>g, <2>1, <2>2
    <3>2. QED
      BY <1>1, <1>g, <3>1 DEF FfiGot
<1>2. ASSUME NEW t \in HostThreads, FfiHandsOver(t), ff'.got = Append(ff.got, ff.item[t]), ff'.lost = ff.lost
      PROVE  FfiGot'
  <2>1. ff.item[t] \in 1 .. StreamChunks /\ ff.item[t] = FfiHad + 1
    BY <1>2, FfiCopying, FfiFacts DEF FfiHandsOver
  <2> DEFINE g == Append(ff.got, ff.item[t])
  <2>2. /\ Len(g) = Len(ff.got) + 1 /\ g[Len(ff.got) + 1] = FfiHad + 1
        /\ \A i \in 1 .. Len(ff.got) : g[i] = ff.got[i]
    BY <1>f, <2>1, AppendProperties
  <2>3. ff'.got = g
    BY <1>2
  <2> HIDE DEF g
  <2>4. FfiHad' = FfiHad + 1
    BY <1>f, <1>2, <2>2, <2>3, SMTT(60) DEF FfiHad
  <2>5. \A i \in 1 .. Len(ff.got) : ff.got[i] \in Nat
    <3>1. \A i \in 1 .. Len(ff.got) : ff.got[i] \in 1 .. StreamChunks
      BY <1>f, ElementOfSeq, Zenon
    <3>2. QED
      BY <3>1, FfiStreamAssumption
  <2>6. ASSUME NEW i \in 1 .. Len(g)
        PROVE  g[i] <= FfiHad + 1
    <3>1. CASE i \in 1 .. Len(ff.got)
      BY <1>f, <1>g, <2>2, <2>5, <3>1
    <3>2. CASE i = Len(ff.got) + 1
      BY <1>f, <2>2, <3>2
    <3>3. QED
      BY <1>f, <2>2, <3>1, <3>2
  <2>7. ASSUME NEW i \in 1 .. Len(g) - 1
        PROVE  g[i] < g[i + 1]
    <3>0. i \in 1 .. Len(ff.got)
      BY <1>f, <2>2
    <3>1. CASE i = Len(ff.got)
      BY <1>f, <1>g, <2>2, <2>5, <3>0, <3>1
    <3>2. CASE i # Len(ff.got)
      <4>1. i \in 1 .. Len(ff.got) - 1 /\ i + 1 \in 1 .. Len(ff.got)
        BY <1>f, <3>0, <3>2
      <4>2. QED
        BY <1>g, <2>2, <3>0, <4>1
    <3>3. QED
      BY <3>1, <3>2
  <2>8. QED
    BY <2>3, <2>4, <2>6, <2>7 DEF FfiGot
<1>3. CASE FfiProduces \/ FfiCalls \/ FfiEnds
  BY <1>1, <1>3 DEF FfiProduces, FfiCalls, FfiEnds
<1>4. ASSUME NEW t \in HostThreads, FfiReceives(t)
      PROVE  FfiGot'
  BY <1>1, <1>4 DEF FfiReceives
<1>5. ASSUME NEW t \in HostThreads, FfiHandsOver(t)
      PROVE  FfiGot'
  BY <1>1, <1>2, <1>5 DEF FfiHandsOver
<1>6. QED
  BY <1>3, <1>4, <1>5, FfiKinds

\* The channel ends after the last chunk or after a cancel; a delivery, which alone empties
\* the error slot, comes before both and notes whose null it concerns.
LEMMA FfiReportStep ==
    ASSUME FfiInv, [FfiNext]_ffiVars
    PROVE  FailureIsReported'
<1>e. FailureIsReported /\ ff \in FfiState
  BY DEF FfiInv
<1>1. CASE FfiProduces
  BY <1>e, <1>1 DEF FfiProduces, FailureIsReported, NullIsAccountedFor, Whole
<1>2. CASE FfiCalls
  BY <1>e, <1>2 DEF FfiCalls, FailureIsReported, NullIsAccountedFor, Whole
<1>3. CASE FfiEnds
  <2>1. PICK t \in HostThreads : /\ ff.pc[t] \in ReceiverSteps
                                 /\ \/ ff.pc[t] # "chunk" /\ ff.queue = << >> /\ ff.producer = "done"
                                    \/ ff'.lastError # "none"
    BY <1>3 DEF FfiEnds
  <2>2. CASE ff'.lastError # "none"
    BY <2>2 DEF FailureIsReported, NullIsAccountedFor
  <2>3. CASE ff.pc[t] # "chunk" /\ ff.queue = << >> /\ ff.producer = "done"
    <3>1. ff.receiver /\ \A u \in HostThreads : ff.pc[u] # "chunk"
      BY <2>1, <2>3 DEF FfiInv, FfiHolders, ReceiverSteps
    <3>2. FfiTaken = FfiHad /\ Len(ff.queue) = 0
      BY <2>3, <3>1 DEF FfiTaken
    <3>3. FfiHad = FfiSent
      BY <3>1, <3>2, FfiFacts DEF FfiInv, FfiChannel
    <3>4. ff.inHand # ErrorChunk /\ FfiHad = ff.produced
      BY <2>3, <3>3, FfiFacts DEF FfiSent
    <3>5. ff.flag \/ ff.produced = StreamChunks
      BY <2>3, <3>1, <3>4 DEF FfiInv, FfiProducer
    <3>6. Whole \/ ff.flag
      BY <3>4, <3>5 DEF Whole, FfiHad
    <3>7. QED
      BY <1>3, <3>6 DEF FfiEnds, FailureIsReported, NullIsAccountedFor, Whole
  <2>4. QED
    BY <2>1, <2>2, <2>3
<1>4. ASSUME NEW t \in HostThreads, FfiReceives(t)
      PROVE  FailureIsReported'
  <2>1. \A u \in HostThreads : ff'.pc[u] = "null" => ff.pc[u] = "null"
    BY <1>e, <1>4 DEF FfiReceives, FfiState
  <2>2. QED
    BY <1>e, <1>4, <2>1 DEF FfiReceives, FailureIsReported, NullIsAccountedFor, Whole
<1>5. ASSUME NEW t \in HostThreads, FfiHandsOver(t)
      PROVE  FailureIsReported'
  <2>1. ff.receiver /\ ff'.receiver
    BY <1>5, FfiCopying DEF FfiHandsOver
  <2>2. \A u \in HostThreads : ff'.pc[u] = "null" => ff.pc[u] = "null"
    BY <1>e, <1>5 DEF FfiHandsOver, FfiState
  <2>3. CASE ff'.cleared = [u \in HostThreads |-> ff.pc[u] = "null"]
    BY <2>1, <2>2, <2>3 DEF FailureIsReported, NullIsAccountedFor
  <2>4. CASE UNCHANGED <<ff.lastError, ff.cleared>>
    <3>1. FfiHad + 1 <= ff.produced /\ ff.produced <= StreamChunks
      BY <1>5, FfiCopying, FfiFacts DEF FfiHandsOver
    <3>2. ~Whole
      BY <3>1, FfiFacts DEF Whole, FfiHad
    <3>3. QED
      BY <1>e, <1>5, <2>1, <2>2, <2>4, <3>2 DEF FfiHandsOver, FailureIsReported, NullIsAccountedFor
  <2>5. QED
    BY <1>5, <2>3, <2>4 DEF FfiHandsOver
<1>6. QED
  BY <1>1, <1>2, <1>3, <1>4, <1>5, FfiKinds

\* The inductive invariant of the FFI stream, for any number of host threads and chunks and
\* any channel capacity.
THEOREM FfiInvariant == FfiSpec => []FfiInv
<1>1. FfiInit => FfiInv
  <2> SUFFICES ASSUME FfiInit
               PROVE  FfiInv
    OBVIOUS
  <2>1. ff \in FfiState
    BY FfiStreamAssumption, EmptySeq DEF FfiInit, FfiState, ErrorChunk, Nothing
  <2>2. ff.queue = << >> /\ ff.got = << >> /\ Len(ff.queue) = 0 /\ Len(ff.got) = 0 /\ ff.lost = 0
        /\ ff.produced = 0 /\ ff.receiver /\ ff.producer = "none" /\ ff.inHand = 0
    BY DEF FfiInit, Nothing
  <2>3. \A t \in HostThreads : ff.pc[t] = "idle"
    BY DEF FfiInit
  <2>4. FfiHad = 0 /\ FfiTaken = 0 /\ FfiSent = 0 /\ ErrorChunk # 0
    BY <2>2, <2>3, FfiStreamAssumption DEF FfiHad, FfiTaken, FfiSent, ErrorChunk
  <2>5. FfiHolders /\ FailureIsReported
    BY <2>2, <2>3 DEF FfiHolders, ReceiverSteps, FailureIsReported
  <2>6. FfiProducer
    BY <2>2, <2>4 DEF FfiProducer
  <2>7. FfiChannel
    BY <2>2, <2>3, <2>4 DEF FfiChannel
  <2>8. FfiGot
    BY <2>2 DEF FfiGot
  <2>9. QED
    BY <2>1, <2>5, <2>6, <2>7, <2>8 DEF FfiInv
<1>2. FfiInv /\ [FfiNext]_ffiVars => FfiInv'
  BY FfiKinds, FfiHoldersStep, FfiProducerStep, FfiChannelStep, FfiGotStep, FfiReportStep DEF FfiInv
<1>3. QED
  BY <1>1, <1>2, PTL DEF FfiSpec

\* Threads that share a stream get its chunks in order and never one twice.
THEOREM FfiChunksInOrder == FfiSpec => []ChunksStayInOrder
<1>1. FfiInv => ChunksStayInOrder
  <2> SUFFICES ASSUME FfiInv
               PROVE  ChunksStayInOrder
    OBVIOUS
  <2>1. FfiGot /\ ff.got \in Seq(1 .. StreamChunks) /\ Len(ff.got) \in Nat
    BY FfiFacts DEF FfiInv
  <2>2. ff.got # << >> => Len(ff.got) \in 1 .. Len(ff.got)
    BY <2>1, EmptySeq
  <2>3. QED
    BY <2>1, <2>2 DEF FfiGot, ChunksStayInOrder, Last, FfiHad
<1>2. QED
  BY <1>1, FfiInvariant, PTL

\* For any number of threads and chunks: a null whose host finds the error slot empty is the
\* end of the whole body or of a cancelled one, unless a delivery on another thread emptied
\* the slot after that null; and once the stream is over a failure stays on record.
THEOREM FfiFailureReported == FfiSpec => []FailureIsReported
<1>1. FfiInv => FailureIsReported
  BY DEF FfiInv
<1>2. QED
  BY <1>1, FfiInvariant, PTL

(***************************************************************************)
(* The Python client's runtime.                                            *)
(***************************************************************************)
\* The steps of a call at which it holds a reference.
HoldingPc == {"working", "open", "request_shutdown", "flag", "count", "lock", "release"}

\* A call has references exactly at those steps; a runtime that has ended is held by
\* nobody, save by calls about to let go; one that runs is held by somebody.
RuntimeInv ==
    /\ owner \in OwnerState
    /\ call \in [PyCalls -> CallState]
    /\ \A c \in PyCalls : call[c].refs = 0 <=> call[c].pc \notin HoldingPc
    /\ owner.runtime # "running" =>
          ~owner.slot /\ \A c \in PyCalls : call[c].refs = 0 \/ (call[c].refs = 1 /\ call[c].pc = "release")
    /\ owner.runtime = "running" => owner.slot \/ \E c \in PyCalls : call[c].refs # 0

\* What the strong count says of the holders.
LEMMA StrongCount ==
    ASSUME owner \in OwnerState, call \in [PyCalls -> CallState]
    PROVE  /\ strong_count \in Nat
           /\ strong_count = 0 <=> ~owner.slot /\ \A c \in PyCalls : call[c].refs = 0
           /\ owner.slot => (strong_count = 1 <=> \A c \in PyCalls : call[c].refs = 0)
           /\ \A c \in PyCalls : call[c].refs # 0 =>
                 (strong_count = 1 <=> /\ ~owner.slot /\ call[c].refs = 1
                                       /\ \A d \in PyCalls \ {c} : call[d].refs = 0)
<1>1. IsFiniteSet(CallRefs)
  <2>1. IsFiniteSet({1, 2})
    <3>1. IsFiniteSet({1})
      BY FS_Singleton
    <3>2. IsFiniteSet({1} \cup {2})
      BY <3>1, FS_AddElement
    <3>3. {1} \cup {2} = {1, 2}
      OBVIOUS
    <3>4. QED
      BY <3>2, <3>3
  <2>2. IsFiniteSet(PyCalls \X {1, 2})
    BY <2>1, PyRuntimeAssumption, FS_Product
  <2>3. QED
    BY <2>2, FS_Subset DEF CallRefs
<1>2. \A c \in PyCalls : call[c].refs \in {0, 1, 2}
  BY DEF CallState
<1>3. \A c \in PyCalls : /\ <<c, 1>> \in CallRefs <=> call[c].refs # 0
                         /\ <<c, 2>> \in CallRefs <=> call[c].refs = 2
                         /\ <<c, 2>> \in CallRefs => call[c].refs # 0 /\ call[c].refs # 1
  BY <1>2 DEF CallRefs
<1>4. \A r \in CallRefs : \E c \in PyCalls : r \in {<<c, 1>>, <<c, 2>>}
  BY DEF CallRefs
<1>5. CallRefs = {} <=> \A c \in PyCalls : call[c].refs = 0
  BY <1>3, <1>4, Zenon
<1>6. Cardinality(CallRefs) \in Nat /\ (Cardinality(CallRefs) = 0 <=> CallRefs = {})
  BY <1>1, FS_CardinalityType, FS_EmptySet
<1>7. Cardinality(CallRefs) = 1 <=> \E x : CallRefs = {x}
  BY <1>1, FS_Singleton
<1>8. ASSUME NEW c \in PyCalls, call[c].refs # 0
      PROVE  Cardinality(CallRefs) = 1
               <=> call[c].refs = 1 /\ \A d \in PyCalls \ {c} : call[d].refs = 0
  <2>1. <<c, 1>> \in CallRefs
    BY <1>3, <1>8
  <2>2. ASSUME NEW x, CallRefs = {x}
        PROVE  call[c].refs = 1 /\ \A d \in PyCalls \ {c} : call[d].refs = 0
    <3>1. x = <<c, 1>>
      BY <2>1, <2>2
    <3>2. <<c, 2>> \notin CallRefs /\ \A d \in PyCalls \ {c} : <<d, 1>> \notin CallRefs
      BY <2>2, <3>1
    <3>3. QED
      BY <1>2, <1>3, <1>8, <3>2
  <2>3. ASSUME call[c].refs = 1, \A d \in PyCalls \ {c} : call[d].refs = 0
        PROVE  CallRefs = {<<c, 1>>}
    <3>1. ASSUME NEW r \in CallRefs
          PROVE  r = <<c, 1>>
      <4>1. PICK d \in PyCalls : r \in {<<d, 1>>, <<d, 2>>}
        BY <1>4
      <4>2. call[d].refs # 0
        BY <1>3, <4>1, Zenon
      <4>3. d = c
        BY <2>3, <4>2
      <4>4. QED
        BY <1>3, <2>3, <4>1, <4>3
    <3>2. QED
      BY <2>1, <3>1
  <2>4. QED
    BY <1>7, <2>2, <2>3
<1>9. DEFINE k == Cardinality(CallRefs)
<1>10. k \in Nat /\ strong_count = k + (IF owner.slot THEN 1 ELSE 0)
  BY <1>6 DEF strong_count
<1> HIDE DEF k
<1>11. /\ strong_count \in Nat
       /\ strong_count = 0 <=> ~owner.slot /\ k = 0
       /\ owner.slot => (strong_count = 1 <=> k = 0)
       /\ k # 0 => (strong_count = 1 <=> ~owner.slot /\ k = 1)
  BY <1>10 DEF OwnerState
<1>12. k = 0 <=> \A c \in PyCalls : call[c].refs = 0
  BY <1>5, <1>6 DEF k
<1>13. \A c \in PyCalls : call[c].refs # 0 =>
          (k = 1 <=> call[c].refs = 1 /\ \A d \in PyCalls \ {c} : call[d].refs = 0)
  BY <1>8 DEF k
<1>14. QED
  BY <1>11, <1>12, <1>13

\* Every step of a call, of a close and of the collection keeps the accounts.
LEMMA RuntimeStep ==
    ASSUME RuntimeInv, [PyRuntimeNext]_pyRuntimeVars
    PROVE  RuntimeInv'
<1>t. owner \in OwnerState /\ call \in [PyCalls -> CallState]
  BY DEF RuntimeInv
<1>r. /\ \A c \in PyCalls : call[c].refs = 0 <=> call[c].pc \notin HoldingPc
      /\ owner.runtime # "running" =>
            ~owner.slot /\ \A c \in PyCalls : call[c].refs = 0 \/ (call[c].refs = 1 /\ call[c].pc = "release")
      /\ owner.runtime = "running" => owner.slot \/ \E c \in PyCalls : call[c].refs # 0
  BY DEF RuntimeInv
<1>0. CASE UNCHANGED pyRuntimeVars
  BY <1>0 DEF pyRuntimeVars, RuntimeInv
<1>g. ASSUME NEW c \in PyCalls, NEW rec \in CallState, call' = [call EXCEPT ![c] = rec],
             rec.refs = 0 <=> rec.pc \notin HoldingPc,
             owner' \in OwnerState,
             owner'.runtime # "running" =>
                /\ ~owner'.slot
                /\ rec.refs = 0 \/ (rec.refs = 1 /\ rec.pc = "release")
                /\ \/ owner.runtime # "running"
                   \/ \A d \in PyCalls \ {c} : call[d].refs = 0,
             owner'.runtime = "running" =>
                owner'.slot \/ rec.refs # 0 \/ \E d \in PyCalls \ {c} : call[d].refs # 0
      PROVE  RuntimeInv'
  <2>1. call' \in [PyCalls -> CallState]
    BY <1>t, <1>g
  <2>2. \A d \in PyCalls : call'[d] = IF d = c THEN rec ELSE call[d]
    BY <1>t, <1>g
  <2>3. QED
    <3>1. \A d \in PyCalls : call'[d].refs = 0 <=> call'[d].pc \notin HoldingPc
      BY <1>g, <1>r, <2>2
    <3>2. ASSUME owner'.runtime # "running", NEW d \in PyCalls
          PROVE  ~owner'.slot /\ (call'[d].refs = 0 \/ (call'[d].refs = 1 /\ call'[d].pc = "release"))
      BY <1>g, <1>r, <2>2, <3>2
    <3>3. ASSUME owner'.runtime = "running"
          PROVE  owner'.slot \/ \E d \in PyCalls : call'[d].refs # 0
      BY <1>g, <2>2, <3>3
    <3>4. ASSUME owner'.runtime # "running"
          PROVE  ~owner'.slot
      BY <1>g, <3>4
    <3>5. QED
      BY <1>g, <2>1, <3>1, <3>2, <3>3, <3>4 DEF RuntimeInv
<1>u. ASSUME NEW c \in PyCalls, NEW rec \in CallState, call' = [call EXCEPT ![c] = rec],
             rec.refs = 0 <=> rec.pc \notin HoldingPc,
             rec.refs = call[c].refs \/ (rec.refs # 0 /\ owner.runtime = "running"),
             call[c].pc # "release",
             owner' \in OwnerState, owner'.runtime = owner.runtime,
             \/ owner'.slot = owner.slot
             \/ owner.slot /\ ~owner'.slot /\ rec.refs # 0
      PROVE  RuntimeInv'
  <2>1. owner'.runtime # "running" => ~owner'.slot /\ rec.refs = 0 /\ owner.runtime # "running"
    BY <1>u, <1>r
  <2>2. owner'.runtime = "running" =>
                owner'.slot \/ rec.refs # 0 \/ \E d \in PyCalls \ {c} : call[d].refs # 0
    BY <1>u, <1>r
  <2>3. QED
    BY <1>g, <1>u, <2>1, <2>2
<1>1. ASSUME NEW c \in PyCalls, request(c) \/ stream(c)
      PROVE  RuntimeInv'
  <2>1. PICK k \in {"request", "stream"} : Begin(c, k)
    BY <1>1 DEF request, stream
  <2> DEFINE rec == [call[c] EXCEPT !.pc = "prepare", !.kind = k, !.inside = TRUE]
  <2>2. call' = [call EXCEPT ![c] = rec] /\ owner' = owner /\ call[c].pc = "start"
    BY <1>t, <2>1 DEF Begin, At
  <2>3. rec \in CallState /\ rec.refs = call[c].refs /\ rec.pc = "prepare"
    BY <1>t DEF CallState
  <2> HIDE DEF rec
  <2>4. QED
    BY <1>t, <1>u, <1>r, <2>2, <2>3 DEF HoldingPc
<1>o. ASSUME NEW c \in PyCalls, NEW p \in {"dispatch", "done", "flag", "count", "lock", "release"},
             Goto(c, p), call[c].pc # "release", p \in HoldingPc <=> call[c].pc \in HoldingPc,
             owner' \in OwnerState, owner'.runtime = owner.runtime, owner'.slot = owner.slot
      PROVE  RuntimeInv'
  <2> DEFINE b == call[c].inside /\ p # "done"
             rec == [call[c] EXCEPT !.pc = p, !.inside = b]
  <2>1. call' = [call EXCEPT ![c] = rec] /\ b \in BOOLEAN
    BY <1>t, <1>o DEF Goto
  <2> HIDE DEF b
  <2>2. rec \in CallState /\ rec.refs = call[c].refs /\ rec.pc = p
    BY <1>t, <2>1 DEF CallState
  <2> HIDE DEF rec
  <2>3. QED
    BY <1>u, <1>o, <1>r, <2>1, <2>2
<1>2. ASSUME NEW c \in PyCalls, clone_client(c)
      PROVE  RuntimeInv'
  BY <1>2, <1>o, <1>t DEF clone_client, At, HoldingPc
<1>3. ASSUME NEW c \in PyCalls, runtime_for_dispatch(c)
      PROVE  RuntimeInv'
  <2>1. CASE owner.slot /\ owner.runtime = "running"
    <3> DEFINE rec == [call[c] EXCEPT !.pc = "working", !.refs = 1]
    <3>1. call' = [call EXCEPT ![c] = rec] /\ owner' = owner /\ call[c].pc = "dispatch"
      BY <1>t, <1>3, <2>1 DEF runtime_for_dispatch, At
    <3>0. 1 \in 0 .. 2
      OBVIOUS
    <3>2. rec \in CallState /\ rec.refs = 1 /\ rec.pc = "working"
      BY <1>t, <3>0 DEF CallState
    <3> HIDE DEF rec
    <3>3. rec.refs # 0
      BY <3>2
    <3>4. QED
      BY <1>t, <1>u, <2>1, <3>1, <3>2, <3>3 DEF HoldingPc
  <2>2. CASE ~(owner.slot /\ owner.runtime = "running")
    BY <1>3, <1>o, <1>t, <2>2 DEF runtime_for_dispatch, At, HoldingPc
  <2>3. QED
    BY <2>1, <2>2
<1>4. ASSUME NEW c \in PyCalls, NEW k, NEW up \in BOOLEAN, NEW p \in {"open", "flag"}, Finished(c, k, up, p)
      PROVE  RuntimeInv'
  <2> DEFINE n == IF up THEN 2 ELSE 1
             b == p # "open"
             rec == [call[c] EXCEPT !.refs = n, !.pc = p, !.inside = b]
  <2>1. n \in 0 .. 2 /\ n # 0 /\ b \in BOOLEAN
    OBVIOUS
  <2>2. call' = [call EXCEPT ![c] = rec] /\ owner' = owner /\ call[c].pc = "working"
    BY <1>t, <1>4 DEF Finished, At
  <2> HIDE DEF n, b
  <2>3. rec \in CallState /\ rec.refs = n /\ rec.pc = p
    BY <1>t, <2>1 DEF CallState
  <2> HIDE DEF rec
  <2>4. owner.runtime = "running"
    BY <1>r, <2>2 DEF HoldingPc
  <2>5. QED
    BY <1>t, <1>u, <2>1, <2>2, <2>3, <2>4 DEF HoldingPc
<1>5. ASSUME NEW c \in PyCalls,
             \/ \E up \in BOOLEAN : RequestFinished(c, up)
             \/ \E ok, up \in BOOLEAN : StreamFinished(c, ok, up)
      PROVE  RuntimeInv'
  BY <1>4, <1>5 DEF RequestFinished, StreamFinished
<1>6. ASSUME NEW c \in PyCalls, Collected(c)
      PROVE  RuntimeInv'
  BY <1>6, <1>o, <1>t DEF Collected, At, HoldingPc
<1>7. ASSUME NEW c \in PyCalls, close(c)
      PROVE  RuntimeInv'
  <2> DEFINE p == IF owner.client THEN "take" ELSE "done"
             b == owner.client
             rec == [call[c] EXCEPT !.kind = "close", !.inside = b, !.pc = p]
  <2>1. p \in {"take", "done"} /\ b \in BOOLEAN
    BY <1>t DEF OwnerState
  <2>2. call' = [call EXCEPT ![c] = rec] /\ owner' = [owner EXCEPT !.client = FALSE] /\ call[c].pc = "start"
    BY <1>t, <1>7 DEF close, At
  <2> HIDE DEF p, b
  <2>3. rec \in CallState /\ rec.refs = call[c].refs /\ rec.pc = p
    BY <1>t, <2>1 DEF CallState
  <2> HIDE DEF rec
  <2>4. owner' \in OwnerState /\ owner'.runtime = owner.runtime /\ owner'.slot = owner.slot
    BY <1>t, <2>2 DEF OwnerState
  <2>5. QED
    BY <1>t, <1>u, <1>r, <2>1, <2>2, <2>3, <2>4 DEF HoldingPc
<1>8. ASSUME NEW c \in PyCalls, CloseTakes(c)
      PROVE  RuntimeInv'
  <2> DEFINE p == IF owner.slot THEN "request_shutdown" ELSE "done"
             n == IF owner.slot THEN 1 ELSE 0
             b == owner.slot
             rec == [call[c] EXCEPT !.refs = n, !.inside = b, !.pc = p]
  <2>1. /\ p \in {"request_shutdown", "done"} /\ b \in BOOLEAN /\ n \in 0 .. 2
        /\ owner.slot => n # 0 /\ p = "request_shutdown"
        /\ ~owner.slot => n = 0 /\ p = "done"
    BY <1>t DEF OwnerState
  <2>2. call' = [call EXCEPT ![c] = rec] /\ owner' = [owner EXCEPT !.slot = FALSE] /\ call[c].pc = "take"
    BY <1>t, <1>8 DEF CloseTakes, At
  <2> HIDE DEF p, b, n
  <2>3. rec \in CallState /\ rec.refs = n /\ rec.pc = p
    BY <1>t, <2>1 DEF CallState
  <2> HIDE DEF rec
  <2>4. owner' \in OwnerState /\ owner'.runtime = owner.runtime /\ ~owner'.slot
        /\ (~owner.slot => owner'.slot = owner.slot)
    BY <1>t, <2>2 DEF OwnerState
  <2>5. call[c].refs = 0
    BY <1>r, <2>2 DEF HoldingPc
  <2>6. CASE owner.slot
    <3>1. owner.runtime = "running"
      BY <1>r, <2>6
    <3>2. QED
      BY <1>u, <2>1, <2>2, <2>3, <2>4, <2>6, <3>1 DEF HoldingPc
  <2>7. CASE ~owner.slot
    BY <1>u, <2>1, <2>2, <2>3, <2>4, <2>5, <2>7 DEF HoldingPc
  <2>8. QED
    BY <2>6, <2>7
<1>9. ASSUME NEW c \in PyCalls, request_shutdown(c)
      PROVE  RuntimeInv'
  <2>1. owner' = [owner EXCEPT !.requested = TRUE] /\ Goto(c, "flag") /\ call[c].pc = "request_shutdown"
    BY <1>9 DEF request_shutdown, At
  <2>2. owner' \in OwnerState /\ owner'.runtime = owner.runtime /\ owner'.slot = owner.slot
    BY <1>t, <2>1 DEF OwnerState
  <2>3. QED
    BY <1>o, <2>1, <2>2 DEF HoldingPc
<1>10. ASSUME NEW c \in PyCalls, load_requested(c) \/ count_first(c)
       PROVE  RuntimeInv'
  BY <1>10, <1>o, <1>t DEF load_requested, count_first, At, HoldingPc
<1>11. ASSUME NEW c \in PyCalls, take_runtime(c)
       PROVE  RuntimeInv'
  <2> DEFINE b == call[c].inside /\ "release" # "done"
             rec == [call[c] EXCEPT !.pc = "release", !.inside = b]
  <2>1. call' = [call EXCEPT ![c] = rec] /\ b \in BOOLEAN /\ call[c].pc = "lock"
    BY <1>t, <1>11 DEF take_runtime, Goto, At
  <2> HIDE DEF b
  <2>2. rec \in CallState /\ rec.refs = call[c].refs /\ rec.pc = "release"
    BY <1>t, <2>1 DEF CallState
  <2> HIDE DEF rec
  <2>3. call[c].refs # 0 /\ owner.runtime = "running"
    BY <1>r, <2>1 DEF HoldingPc
  <2>4. CASE owner' = owner
    BY <1>t, <1>u, <2>1, <2>2, <2>3, <2>4 DEF HoldingPc
  <2>5. CASE last_holder /\ owner' = [owner EXCEPT !.runtime = "background"]
    <3>1. ~owner.slot /\ call[c].refs = 1 /\ \A d \in PyCalls \ {c} : call[d].refs = 0
      BY <1>t, <2>3, <2>5, StrongCount DEF last_holder
    <3>2. owner' \in OwnerState /\ owner'.slot = owner.slot /\ owner'.runtime = "background"
      BY <1>t, <2>5 DEF OwnerState
    <3>3. QED
      BY <1>g, <2>1, <2>2, <2>3, <3>1, <3>2 DEF HoldingPc
  <2>6. QED
    BY <1>11, <2>4, <2>5 DEF take_runtime
<1>12. ASSUME NEW c \in PyCalls, Release(c)
       PROVE  RuntimeInv'
  <2> DEFINE n == call[c].refs - 1
             p == IF call[c].refs > 1 THEN "open" ELSE "done"
             rec == [call[c] EXCEPT !.refs = n, !.inside = FALSE, !.pc = p]
             k == strong_count - 1
             w == IF k = 0 /\ owner.runtime = "running" THEN "dropped" ELSE owner.runtime
  <2>0. call[c].refs \in 0 .. 2 /\ call[c].pc = "release" /\ call[c].refs # 0
    BY <1>t, <1>r, <1>12 DEF Release, At, HoldingPc, CallState
  <2>1. /\ p \in {"open", "done"} /\ n \in 0 .. 2
        /\ call[c].refs = 1 => n = 0 /\ p = "done"
        /\ call[c].refs # 1 => n = 1 /\ p = "open"
    BY <2>0
  <2>2. call' = [call EXCEPT ![c] = rec] /\ owner' = [owner EXCEPT !.runtime = w]
    BY <1>t, <1>12 DEF Release, Dropped
  <2>3. k = 0 <=> ~owner.slot /\ call[c].refs = 1 /\ \A d \in PyCalls \ {c} : call[d].refs = 0
    <3>1. strong_count \in Nat /\ (strong_count = 1 <=> k = 0)
      BY <1>t, StrongCount
    <3>2. QED
      BY <1>t, <2>0, <3>1, StrongCount
  <2>4. w \in {"running", "background", "dropped"}
        /\ (owner.runtime # "running" => w # "running")
        /\ (owner.runtime = "running" => (w # "running" <=> k = 0))
    BY <1>t DEF OwnerState
  <2> HIDE DEF n, p, k, w
  <2>5. rec \in CallState /\ rec.refs = n /\ rec.pc = p
    BY <1>t, <2>1 DEF CallState
  <2> HIDE DEF rec
  <2>6. owner' \in OwnerState /\ owner'.slot = owner.slot /\ owner'.runtime = w
    BY <1>t, <2>2, <2>4 DEF OwnerState
  <2>7. CASE owner.runtime # "running"
    <3>1. ~owner.slot /\ call[c].refs = 1 /\ w # "running"
      BY <1>r, <2>0, <2>4, <2>7
    <3>2. QED
      BY <1>g, <2>1, <2>2, <2>5, <2>6, <2>7, <3>1 DEF HoldingPc
  <2>8. CASE owner.runtime = "running" /\ k = 0
    BY <1>g, <2>1, <2>2, <2>3, <2>4, <2>5, <2>6, <2>8 DEF HoldingPc
  <2>9. CASE owner.runtime = "running" /\ k # 0
    <3>1. owner.slot \/ call[c].refs # 1 \/ \E d \in PyCalls \ {c} : call[d].refs # 0
      BY <2>3, <2>9
    <3>2. owner'.runtime = "running"
      BY <2>4, <2>6, <2>9
    <3>3. owner'.slot \/ rec.refs # 0 \/ \E d \in PyCalls \ {c} : call[d].refs # 0
      BY <2>1, <2>5, <2>6, <3>1
    <3>4. rec.refs = 0 <=> rec.pc \notin HoldingPc
      BY <2>1, <2>5 DEF HoldingPc
    <3>5. QED
      BY <1>g, <2>2, <2>5, <2>6, <3>2, <3>3, <3>4
  <2>10. QED
    BY <2>7, <2>8, <2>9
<1>13. CASE ClientCollected
  <2> DEFINE k == strong_count - 1
             w == IF k = 0 /\ owner.runtime = "running" THEN "dropped" ELSE owner.runtime
  <2>1. owner' = [owner EXCEPT !.client = FALSE, !.slot = FALSE, !.runtime = w] /\ owner.slot
    BY <1>t, <1>13 DEF ClientCollected, Dropped, OwnerState
  <2>2. owner.runtime = "running"
    BY <1>r, <2>1
  <2>3. k = 0 <=> \A d \in PyCalls : call[d].refs = 0
    BY <1>t, <2>1, StrongCount
  <2>4. w \in {"running", "dropped"} /\ (w = "running" <=> k # 0)
    BY <2>2
  <2> HIDE DEF k, w
  <2>5. owner' \in OwnerState /\ ~owner'.slot /\ owner'.runtime = w
    BY <1>t, <2>1, <2>4 DEF OwnerState
  <2>6. ASSUME NEW c \in PyCalls
        PROVE  /\ call'[c] \in CallState /\ call'[c].refs = call[c].refs
               /\ call'[c].pc \in HoldingPc <=> call[c].pc \in HoldingPc
    BY <1>t, <1>13 DEF ClientCollected, At, CallState, HoldingPc
  <2>7. call' \in [PyCalls -> CallState]
    BY <1>13, <2>6 DEF ClientCollected
  <2>8. QED
    BY <1>r, <2>3, <2>4, <2>5, <2>6, <2>7 DEF RuntimeInv
<1>14. QED
  BY <1>0, <1>1, <1>2, <1>3, <1>5, <1>6, <1>7, <1>8, <1>9, <1>10, <1>11, <1>12, <1>13 DEF PyRuntimeNext

\* For any number of threads and calls: no close ends the runtime under a dispatch or an open
\* response, and once nobody holds the runtime it is gone.
THEOREM RuntimeIsKept == PyRuntimeSpec => []RuntimeOutlivesWork
<1>1. PyRuntimeInit => RuntimeInv
  BY DEF PyRuntimeInit, RuntimeInv, OwnerState, CallState, HoldingPc
<1>2. RuntimeInv /\ [PyRuntimeNext]_pyRuntimeVars => RuntimeInv'
  BY RuntimeStep
<1>3. RuntimeInv => RuntimeOutlivesWork
  <2> SUFFICES ASSUME RuntimeInv
               PROVE  RuntimeOutlivesWork
    OBVIOUS
  <2>1. \A c \in PyCalls : call[c].pc \in {"working", "open"} => owner.runtime = "running"
    BY DEF RuntimeInv, HoldingPc
  <2>2. strong_count = 0 => owner.runtime # "running"
    BY StrongCount DEF RuntimeInv
  <2>3. QED
    BY <2>1, <2>2 DEF RuntimeOutlivesWork
<1>4. QED
  BY <1>1, <1>2, <1>3, PTL DEF PyRuntimeSpec

(***************************************************************************)
(* The Python streaming response.                                          *)
(***************************************************************************)
\* Iterators that may keep the last of what they received for later.
Withholding == TextIterators \cup LineIterators

\* The last item on its way to the consumer, or the last it got.
PyLast(s) == IF s.hand # << >> THEN s.hand[Len(s.hand)]
             ELSE IF s.queue # << >> THEN s.queue[Len(s.queue)] ELSE s.got

\* Where the task is and what it has in hand.
PyTask(s) ==
    /\ s.told => s.state = "closed"
    /\ s.state = "streaming" => s.task = "none" /\ s.kind = "none"
    /\ s.kind = "none" => s.task = "none"
    /\ s.task = "none" => /\ s.consumer = "idle" /\ ~s.closed /\ s.queue = << >>
                          /\ s.outcome = IF s.kind = "none" THEN "none" ELSE "error"
    /\ s.task \in {"none", "unsubscribed", "polling"} => s.hand = << >> /\ ~s.ending
    /\ s.task \in {"sending", "parked"} => s.hand # << >> /\ s.kind \in Iterators
    /\ s.task = "done" /\ s.consumer # "gone" => s.hand = << >>

\* Readers end with their task, iterators once the bridge is closed.
PyEnds(s) ==
    /\ s.kind \in Readers /\ s.task # "done" => s.outcome = "none"
    /\ s.closed => s.task = "done"
    /\ s.kind \in Readers => ~s.closed /\ s.got = s.nextChunk
    /\ s.consumer \in {"waiting", "asleep"} => s.kind \in Iterators /\ s.outcome = "none"
    /\ s.kind \in Iterators /\ s.outcome = "eof" => s.consumer \in {"idle", "gone"}

\* What the task received is covered up to what is withheld, and the last item that was
\* sent covers all of it.
PyCovers(s) ==
    /\ s.covered <= s.nextChunk
    /\ s.kind \notin Withholding => s.covered = s.nextChunk
    /\ s.kind \in Iterators /\ s.consumer # "gone" /\ ~s.failed => PyLast(s) = s.covered
    /\ s.task = "none" => s.nextChunk = 0 /\ s.got = 0
    /\ (/\ s.kind \in Iterators /\ s.consumer # "gone" /\ ~s.failed /\ s.state # "closed"
        /\ s.task = "done" \/ s.ending) => s.covered = BodyChunks

\* An end that a consumer saw is the end of the body.
PyWhole(s) == s.outcome = "eof" => s.got = BodyChunks \/ s.failed \/ s.state = "closed"

PyShape(s) == PyTask(s) /\ PyEnds(s) /\ PyCovers(s) /\ PyWhole(s)

PyInv == py \in PyState /\ PyShape(py)

\* Only a text or line iterator has the decoder of a charset, and only such a decoder loses bytes.
DecoderInv ==
    /\ decoder \in DecoderState
    /\ decoder.named => py.kind \in Withholding
    /\ decoder.lost => decoder.named

\* A sleeping thread is woken, and nobody else.
Woken(c) == IF c = "asleep" THEN "waiting" ELSE c

\* The ways to consume a body, the items of a bridge, the counts of chunks.
PyKinds == Readers \cup Iterators \cup {"none"}
PyItems == Seq(0 .. ErrorItem)
PyCount == 0 .. BodyChunks

\* The state as a record of sets that need not be looked into.
LEMMA PyFields ==
    PyState = [state : {"streaming", "buffered", "consumed", "closed"},
         body : {"response", "task", "released"}, kind : PyKinds,
         subscribed : BOOLEAN, told : BOOLEAN, failed : BOOLEAN,
         task : {"none", "unsubscribed", "polling", "sending", "parked", "done"},
         nextChunk : PyCount, covered : PyCount, hand : PyItems,
         ending : BOOLEAN, queue : PyItems, closed : BOOLEAN, permit : BOOLEAN,
         consumer : {"idle", "waiting", "asleep", "gone"}, got : PyCount,
         outcome : {"none", "eof", "error", "closed"}]
BY DEF PyState, PyKinds, PyItems, PyCount

\* Who reads and who iterates.
LEMMA PyKindsApart ==
    /\ \A k \in Readers : k \in PyKinds \ {"none"} /\ k \notin Iterators /\ k \notin Withholding
    /\ \A k \in Iterators : k \in PyKinds \ {"none"} /\ k \notin Readers
    /\ \A k \in Withholding : k \in Iterators
    /\ \A k \in PyKinds : k \in Readers \/ k \in Iterators \/ k = "none"
    /\ "none" \notin Iterators \cup Readers \cup Withholding
    /\ {"read", "aread"} \subseteq Readers
    /\ SyncIterators \cup AsyncIterators \subseteq Iterators
    /\ TextIterators \subseteq Withholding /\ LineIterators \subseteq Withholding
    /\ TextIterators \cup LineIterators = Withholding
    /\ "iter_bytes" \in Iterators /\ "iter_bytes" \notin Withholding
BY DEF Readers, Iterators, SyncIterators, AsyncIterators, TextIterators, LineIterators, Withholding, PyKinds

\* The end of a task, field by field.
LEMMA PyTaskEnds ==
    ASSUME NEW s \in PyState
    PROVE  /\ Wake(s) \in PyState /\ Wake(s) = [s EXCEPT !.consumer = Woken(s.consumer)]
           /\ TaskEnds(s) \in PyState
           /\ TaskEnds(s) = [s EXCEPT !.task = "done", !.body = "released", !.closed = TRUE,
                                     !.consumer = Woken(s.consumer)]
           /\ \A o \in {"eof", "error", "closed"} :
                 /\ ReaderEnds(s, o) \in PyState
                 /\ ReaderEnds(s, o) = [s EXCEPT !.task = "done", !.body = "released", !.outcome = o]
<1> DEFINE C == {"idle", "waiting", "asleep", "gone"}
<1>1. \A v \in PyState : Woken(v.consumer) \in C /\ Wake(v) = [v EXCEPT !.consumer = Woken(v.consumer)]
  <2> TAKE v \in PyState
  <2>1. Woken(v.consumer) \in C
    BY DEF PyState, Woken
  <2>2. Wake(v) = [v EXCEPT !.consumer = Woken(v.consumer)]
    BY DEF Wake, Woken, PyState
  <2>3. QED
    BY <2>1, <2>2
<1>2. \A v \in PyState, c \in C : [v EXCEPT !.consumer = c] \in PyState
  BY PyFields
<1>3. \A v \in PyState : Wake(v) \in PyState
  BY <1>1, <1>2, ZenonT(60)
<1> DEFINE e == [s EXCEPT !.task = "done", !.body = "released", !.closed = TRUE]
<1>4. e \in PyState /\ e.consumer = s.consumer
  BY PyFields
<1>5. TaskEnds(s) = Wake(e) /\ Wake(e) = [e EXCEPT !.consumer = Woken(s.consumer)]
  <2>1. TaskEnds(s) = Wake(e)
    BY DEF TaskEnds
  <2>2. QED
    BY <1>1, <1>4, <2>1
<1>6. TaskEnds(s) = [s EXCEPT !.task = "done", !.body = "released", !.closed = TRUE,
                              !.consumer = Woken(s.consumer)]
  BY <1>5, PyFields
<1>7. \A o \in {"eof", "error", "closed"} :
         /\ ReaderEnds(s, o) \in PyState
         /\ ReaderEnds(s, o) = [s EXCEPT !.task = "done", !.body = "released", !.outcome = o]
  BY PyFields DEF ReaderEnds
<1>8. QED
  BY <1>1, <1>3, <1>4, <1>5, <1>6, <1>7

\* A task that is over but for what is withheld.
PyOver(s) ==
    /\ s.kind \in Iterators /\ s.task = "polling" /\ ~s.ending /\ ~s.closed /\ s.state # "streaming"
    /\ s.told => s.state = "closed"
    /\ PyWhole(s)
    /\ s.consumer \in {"waiting", "asleep"} => s.outcome = "none"
    /\ s.outcome = "eof" => s.consumer \in {"idle", "gone"}
    /\ s.covered <= s.nextChunk
    /\ s.kind \notin Withholding => s.covered = s.nextChunk
    /\ s.hand = << >> \/ (s.failed /\ s.hand = << ErrorItem >>)
    /\ s.consumer # "gone" /\ ~s.failed => PyLast(s) = s.covered
    /\ s.failed \/ s.state = "closed" \/ s.nextChunk = BodyChunks

\* What was appended is the last element.
LEMMA LastAppended ==
    ASSUME NEW S, NEW q \in Seq(S), NEW x \in S
    PROVE  /\ Append(q, x) \in Seq(S) /\ Append(q, x) # << >>
           /\ Append(q, x)[Len(Append(q, x))] = x
<1>1. /\ Append(q, x) \in Seq(S) /\ Append(q, x) # << >> /\ Len(Append(q, x)) = Len(q) + 1
      /\ Append(q, x)[Len(q) + 1] = x
  BY AppendProperties
<1>2. QED
  BY <1>1, Zenon

\* Items are numbers of chunks or the error.
LEMMA PyItemsAre ==
    /\ << >> \in PyItems /\ ErrorItem \in 0 .. ErrorItem
    /\ \A n \in PyCount : n \in 0 .. ErrorItem /\ n # ErrorItem
    /\ \A n \in 0 .. ErrorItem : n # ErrorItem => n \in PyCount
    /\ \A n \in 0 .. ErrorItem : << n >> \in PyItems /\ << n >> # << >> /\ Len(<< n >>) = 1 /\ << n >>[1] = n
    /\ \A q \in PyItems, n \in 0 .. ErrorItem :
          /\ Append(q, n) \in PyItems /\ Append(q, n) # << >>
          /\ Append(q, n)[Len(Append(q, n))] = n
    /\ \A q \in PyItems \ {<< >>} :
          /\ Head(q) \in 0 .. ErrorItem /\ Tail(q) \in PyItems
          /\ Tail(q) = << >> => q[Len(q)] = Head(q)
          /\ Tail(q) # << >> => Tail(q)[Len(Tail(q))] = q[Len(q)]
<1>1. BodyChunks \in Nat /\ ErrorItem = BodyChunks + 1
  BY PyStreamAssumption DEF ErrorItem
<1>2. /\ << >> \in PyItems /\ ErrorItem \in 0 .. ErrorItem
      /\ \A n \in PyCount : n \in 0 .. ErrorItem /\ n # ErrorItem
      /\ \A n \in 0 .. ErrorItem : n # ErrorItem => n \in PyCount
  BY <1>1 DEF PyItems, PyCount
<1>3. \A n \in 0 .. ErrorItem : << n >> \in PyItems /\ << n >> # << >> /\ Len(<< n >>) = 1 /\ << n >>[1] = n
  BY DEF PyItems
<1>4. ASSUME NEW q \in PyItems, NEW n \in 0 .. ErrorItem
      PROVE  /\ Append(q, n) \in PyItems /\ Append(q, n) # << >>
             /\ Append(q, n)[Len(Append(q, n))] = n
  <2>1. q \in Seq(0 .. ErrorItem)
    BY DEF PyItems
  <2>2. QED
    BY <2>1, LastAppended DEF PyItems
<1>5. ASSUME NEW q \in PyItems \ {<< >>}
      PROVE  /\ Head(q) \in 0 .. ErrorItem /\ Tail(q) \in PyItems
             /\ Tail(q) = << >> => q[Len(q)] = Head(q)
             /\ Tail(q) # << >> => Tail(q)[Len(Tail(q))] = q[Len(q)]
  <2>1. q \in Seq(0 .. ErrorItem) /\ q # << >>
    BY <1>5 DEF PyItems
  <2>2. /\ Head(q) \in 0 .. ErrorItem /\ Tail(q) \in Seq(0 .. ErrorItem) /\ Len(Tail(q)) = Len(q) - 1
        /\ \A i \in 1 .. Len(Tail(q)) : Tail(q)[i] = q[i + 1]
    BY <2>1, HeadTailProperties
  <2>3. Len(q) \in Nat \ {0} /\ Head(q) = q[1]
    BY <2>1, EmptySeq
  <2>4. Tail(q) = << >> => q[Len(q)] = Head(q)
    <3>1. Tail(q) = << >> => Len(q) - 1 = 0
      BY <2>2
    <3>2. QED
      BY <2>3, <3>1
  <2>5. Tail(q) # << >> => Tail(q)[Len(Tail(q))] = q[Len(q)]
    <3>1. Tail(q) # << >> => Len(Tail(q)) \in 1 .. Len(Tail(q)) /\ Len(Tail(q)) + 1 = Len(q)
      BY <2>2, <2>3, EmptySeq
    <3>2. QED
      BY <2>2, <3>1
  <2>6. QED
    BY <2>2, <2>4, <2>5 DEF PyItems
<1>6. QED
  BY <1>2, <1>3, <1>4, <1>5

\* What is withheld goes out, and the task ends with an empty hand or once the hand is sent.
LEMMA PyFinishes ==
    ASSUME NEW s \in PyState, PyOver(s)
    PROVE  Finishing(s) \in PyState /\ PyShape(Finishing(s))
<1> DEFINE W == s.kind \in Withholding /\ s.covered < s.nextChunk
           h == Append(s.hand, s.nextChunk)
           n == s.nextChunk
           c == Woken(s.consumer)
<1>0. /\ n \in PyCount /\ n \in 0 .. ErrorItem /\ s.covered \in PyCount /\ s.hand \in PyItems
      /\ h \in PyItems /\ h # << >> /\ h[Len(h)] = n
      /\ s.kind \in Iterators /\ s.kind \notin Readers /\ s.kind # "none"
  BY PyFields, PyItemsAre, PyKindsApart DEF PyOver
<1>a. \A a, b \in PyCount : a <= b /\ ~(a < b) => a = b
  BY PyStreamAssumption DEF PyCount
<1>b. \A a \in PyCount : a <= a
  BY PyStreamAssumption DEF PyCount
<1>1. CASE W
  <2> DEFINE g == [s EXCEPT !.hand = h, !.covered = n, !.task = "sending", !.ending = TRUE]
  <2>1. Flush(s) = [s EXCEPT !.hand = h, !.covered = n]
    BY <1>1 DEF Flush, Withholding
  <2> HIDE DEF h, n
  <2>2. [s EXCEPT !.hand = h, !.covered = n] \in PyState /\ [s EXCEPT !.hand = h, !.covered = n].hand = h
    BY <1>0, PyFields
  <2>3. Finishing(s) = g
    BY <1>0, <2>1, <2>2, PyFields DEF Finishing
  <2>4. g \in PyState
    BY <1>0, PyFields
  <2>5. /\ g.hand = h /\ g.covered = n /\ g.nextChunk = n /\ g.task = "sending" /\ g.ending
        /\ g.kind = s.kind /\ g.told = s.told /\ g.state = s.state /\ g.closed = s.closed
        /\ g.consumer = s.consumer /\ g.outcome = s.outcome /\ g.got = s.got /\ g.failed = s.failed
    BY PyFields DEF n
  <2> HIDE DEF g
  <2>6. PyTask(g) /\ PyEnds(g) /\ PyWhole(g)
    BY <1>0, <2>5 DEF PyTask, PyEnds, PyWhole, PyOver
  <2>7. PyLast(g) = n
    BY <1>0, <2>5 DEF PyLast
  <2>8. g.kind \in Iterators /\ ~g.failed /\ g.state # "closed" => g.covered = BodyChunks
    BY <2>5 DEF PyOver, n
  <2>9. PyCovers(g)
    BY <1>0, <1>b, <2>5, <2>7, <2>8 DEF PyCovers
  <2>10. QED
    BY <2>3, <2>4, <2>6, <2>9 DEF PyShape
<1>2. CASE ~W /\ s.hand = << >>
  <2> DEFINE g == [s EXCEPT !.task = "done", !.body = "released", !.closed = TRUE, !.consumer = c]
  <2>1. Finishing(s) = g /\ g \in PyState
    BY <1>2, PyTaskEnds DEF Finishing, Flush, Withholding
  <2>2. /\ g.hand = << >> /\ g.covered = s.covered /\ g.nextChunk = s.nextChunk /\ g.task = "done"
        /\ g.kind = s.kind /\ g.told = s.told /\ g.state = s.state /\ g.closed /\ g.queue = s.queue
        /\ g.consumer = c /\ g.outcome = s.outcome /\ g.got = s.got /\ g.failed = s.failed
        /\ g.ending = s.ending
    BY <1>2, PyFields
  <2>3. c \in {"waiting", "asleep"} => s.outcome = "none"
    BY DEF Woken, PyOver
  <2>4. c = "gone" <=> s.consumer = "gone"
    BY DEF Woken
  <2>5. s.consumer \in {"idle", "gone"} => c = s.consumer
    BY DEF Woken
  <2>6. s.covered = s.nextChunk
    BY <1>0, <1>2, <1>a DEF PyOver
  <2> HIDE DEF g, c
  <2>7. PyTask(g) /\ PyEnds(g) /\ PyWhole(g)
    BY <1>0, <2>2, <2>3, <2>4, <2>5 DEF PyTask, PyEnds, PyWhole, PyOver
  <2>8. PyLast(g) = PyLast(s)
    BY <1>2, <2>2 DEF PyLast
  <2>9. PyCovers(g)
    BY <1>0, <1>b, <2>2, <2>4, <2>6, <2>8 DEF PyCovers, PyOver
  <2>10. QED
    BY <2>1, <2>7, <2>9 DEF PyShape
<1>3. CASE ~W /\ s.hand # << >>
  <2> DEFINE g == [s EXCEPT !.task = "sending", !.ending = TRUE]
  <2>1. Finishing(s) = g
    BY <1>3 DEF Finishing, Flush, Withholding
  <2>2. g \in PyState
    BY PyFields
  <2>3. /\ g.hand = s.hand /\ g.covered = s.covered /\ g.nextChunk = s.nextChunk /\ g.task = "sending"
        /\ g.kind = s.kind /\ g.told = s.told /\ g.state = s.state /\ g.closed = s.closed
        /\ g.consumer = s.consumer /\ g.outcome = s.outcome /\ g.got = s.got /\ g.failed = s.failed
    BY PyFields
  <2>4. g.failed
    BY <1>3, <2>3 DEF PyOver
  <2> HIDE DEF g
  <2>5. PyTask(g) /\ PyEnds(g) /\ PyWhole(g)
    BY <1>0, <1>3, <2>3 DEF PyTask, PyEnds, PyWhole, PyOver
  <2>6. PyCovers(g)
    BY <1>0, <2>3, <2>4 DEF PyCovers, PyOver
  <2>7. QED
    BY <2>1, <2>2, <2>5, <2>6 DEF PyShape
<1>4. QED
  BY <1>1, <1>2, <1>3

\* Every step keeps the invariant.
LEMMA PyStep ==
    ASSUME PyInv, [PyNext]_pyVars
    PROVE  PyInv'
<1> USE PyStreamAssumption
<1>i. /\ py \in PyState /\ PyShape(py)
      /\ PyTask(py) /\ PyEnds(py) /\ PyCovers(py) /\ PyWhole(py)
  BY DEF PyInv, PyShape
<1>f. /\ py.hand \in PyItems /\ py.queue \in PyItems /\ py.kind \in PyKinds
      /\ py.nextChunk \in PyCount /\ py.covered \in PyCount /\ py.got \in PyCount
  BY <1>i, PyFields
<1>z. 0 \in PyCount /\ \A a \in PyCount : a <= a /\ (a <= 0 => a = 0) /\ 0 <= a
  BY DEF PyCount
<1>1. CASE UNCHANGED pyVars
  BY <1>1 DEF pyVars, PyInv
<1>2. ASSUME CanTake, NEW k \in Readers \cup Iterators, NEW b \in BOOLEAN,
             NEW t \in {"unsubscribed", "polling"},
             py' = [py EXCEPT !.state = "consumed", !.body = "task", !.kind = k,
                              !.subscribed = b, !.task = t]
      PROVE  PyInv'
  <2>1. py' \in PyState
    BY <1>2, <1>i, PyFields, PyKindsApart, ZenonT(60)
  <2>2. /\ py'.hand = py.hand /\ py'.covered = py.covered /\ py'.nextChunk = py.nextChunk /\ py'.task = t
        /\ py'.kind = k /\ py'.told = py.told /\ py'.state = "consumed" /\ py'.closed = py.closed
        /\ py'.consumer = py.consumer /\ py'.outcome = py.outcome /\ py'.got = py.got
        /\ py'.failed = py.failed /\ py'.queue = py.queue /\ py'.ending = py.ending
    BY <1>2, <1>i, PyFields
  <2>3. /\ py.task = "none" /\ py.kind = "none" /\ py.consumer = "idle" /\ ~py.closed /\ py.queue = << >>
        /\ py.outcome = "none" /\ py.hand = << >> /\ ~py.ending /\ ~py.told
        /\ py.nextChunk = 0 /\ py.got = 0 /\ py.covered = 0
    BY <1>2, <1>i, <1>f, <1>z, PyKindsApart DEF CanTake, PyTask, PyCovers
  <2>4. PyTask(py') /\ PyEnds(py') /\ PyWhole(py')
    BY <2>2, <2>3, PyKindsApart DEF PyTask, PyEnds, PyWhole
  <2>5. PyLast(py') = 0
    BY <2>2, <2>3 DEF PyLast
  <2>6. PyCovers(py')
    BY <2>2, <2>3, <2>5, <1>z DEF PyCovers
  <2>7. QED
    BY <2>1, <2>4, <2>6 DEF PyInv, PyShape
<1>3. CASE drain_all_bytes
  <2>1. py' = [py EXCEPT !.state = "consumed", !.body = "task", !.kind = "read",
                         !.subscribed = py.subscribed, !.task = "unsubscribed"]
    BY <1>3, <1>i, PyFields DEF drain_all_bytes, take_stream
  <2>2. "read" \in Readers /\ py.subscribed \in BOOLEAN /\ CanTake
    BY <1>3, <1>i, PyFields, PyKindsApart DEF drain_all_bytes
  <2>3. QED
    BY <1>2, <2>1, <2>2
<1>4. CASE aread \/ PyBytesChunkIterator \/ PyTextChunkIterator \/ PyLinesChunkIterator
           \/ PyRawBytesChunkIterator \/ PyAsyncBytesIterator \/ PyAsyncTextIterator
           \/ PyAsyncLinesIterator \/ PyAsyncRawBytesIterator
  <2>1. PICK k \in Readers \cup Iterators : CanTake /\ py' = Taken(k)
    BY <1>4 DEF aread, PyBytesChunkIterator, PyTextChunkIterator, PyLinesChunkIterator,
                PyRawBytesChunkIterator, PyAsyncBytesIterator, PyAsyncTextIterator,
                PyAsyncLinesIterator, PyAsyncRawBytesIterator,
                Readers, Iterators, SyncIterators, AsyncIterators
  <2> DEFINE b == SubscribesWhenTaking(k)
  <2>2. py' = [py EXCEPT !.state = "consumed", !.body = "task", !.kind = k,
                         !.subscribed = b, !.task = "polling"] /\ b \in BOOLEAN
    BY <2>1 DEF Taken, take_stream, SubscribesWhenTaking
  <2> HIDE DEF b
  <2>3. QED
    BY <1>2, <2>1, <2>2
<1>5. CASE ZeroChunkSize
  <2>0. py' = [py EXCEPT !.state = "consumed", !.body = "released", !.kind = "iter_bytes",
                         !.outcome = "error"] /\ CanTake
    BY <1>5 DEF ZeroChunkSize, take_stream
  <2>1. py' \in PyState
    BY <2>0, <1>i, PyFields, PyKindsApart
  <2>2. /\ py'.state = "consumed" /\ py'.kind = "iter_bytes" /\ py'.told = py.told
       /\ py'.failed = py.failed /\ py'.task = py.task /\ py'.nextChunk = py.nextChunk
       /\ py'.covered = py.covered /\ py'.hand = py.hand /\ py'.ending = py.ending
       /\ py'.queue = py.queue /\ py'.closed = py.closed /\ py'.consumer = py.consumer
       /\ py'.got = py.got /\ py'.outcome = "error"
    BY <2>0, <1>i, PyFields
  <2>3. /\ py.task = "none" /\ py.kind = "none" /\ py.consumer = "idle" /\ ~py.closed /\ py.queue = << >>
        /\ py.hand = << >> /\ ~py.ending /\ ~py.told /\ py.nextChunk = 0 /\ py.got = 0 /\ py.covered = 0
    BY <2>0, <1>i, <1>f, <1>z, PyKindsApart DEF CanTake, PyTask, PyCovers
  <2>4. PyTask(py') /\ PyEnds(py') /\ PyWhole(py')
    BY <2>2, <2>3, PyKindsApart DEF PyTask, PyEnds, PyWhole
  <2>5. PyLast(py') = 0
    BY <2>2, <2>3 DEF PyLast
  <2>6. PyCovers(py')
    BY <2>2, <2>3, <2>5, <1>z DEF PyCovers
  <2>7. QED
    BY <2>1, <2>4, <2>6 DEF PyInv, PyShape
<1>6. CASE subscribe
  <2>0. py' = [py EXCEPT !.subscribed = TRUE, !.task = "polling"] /\ py.task = "unsubscribed"
    BY <1>6 DEF subscribe
  <2>1. py' \in PyState
    BY <2>0, <1>i, PyFields
  <2>2. /\ py'.state = py.state /\ py'.kind = py.kind /\ py'.told = py.told
       /\ py'.failed = py.failed /\ py'.task = "polling" /\ py'.nextChunk = py.nextChunk
       /\ py'.covered = py.covered /\ py'.hand = py.hand /\ py'.ending = py.ending
       /\ py'.queue = py.queue /\ py'.closed = py.closed /\ py'.consumer = py.consumer
       /\ py'.got = py.got /\ py'.outcome = py.outcome
    BY <2>0, <1>i, PyFields
  <2>3. PyTask(py') /\ PyEnds(py') /\ PyWhole(py')
    BY <2>0, <2>2, <1>i DEF PyTask, PyEnds, PyWhole
  <2>4. PyCovers(py')
    BY <2>0, <2>2, <1>i DEF PyTask, PyCovers, PyLast
  <2>5. QED
    BY <2>1, <2>3, <2>4 DEF PyInv, PyShape
<1>7. CASE drain_and_close \/ exit
  <2> DEFINE x == py.told \/ py.subscribed
             y == IF py.body = "response" THEN "released" ELSE py.body
  <2>0. py' = [py EXCEPT !.told = x, !.state = "closed", !.body = y] /\ x \in BOOLEAN
        /\ y \in {"response", "task", "released"}
    BY <1>7, <1>i DEF drain_and_close, exit, Closed, PyState
  <2> HIDE DEF x, y
  <2>1. py' \in PyState
    BY <2>0, <1>i, PyFields
  <2>2. /\ py'.state = "closed" /\ py'.kind = py.kind /\ py'.told = x
       /\ py'.failed = py.failed /\ py'.task = py.task /\ py'.nextChunk = py.nextChunk
       /\ py'.covered = py.covered /\ py'.hand = py.hand /\ py'.ending = py.ending
       /\ py'.queue = py.queue /\ py'.closed = py.closed /\ py'.consumer = py.consumer
       /\ py'.got = py.got /\ py'.outcome = py.outcome
    BY <2>0, <1>i, PyFields
  <2>3. PyTask(py') /\ PyEnds(py') /\ PyWhole(py')
    BY <2>0, <2>2, <1>i DEF PyTask, PyEnds, PyWhole
  <2>4. PyCovers(py')
    BY <2>0, <2>2, <1>i DEF PyTask, PyCovers, PyLast
  <2>5. QED
    BY <2>1, <2>3, <2>4 DEF PyInv, PyShape
<1>8. ASSUME NEW w \in BOOLEAN, NEW o \in BOOLEAN, ChunkArrives(w, o)
      PROVE  PyInv'
  <2> DEFINE n == py.nextChunk + 1
             u == IF w THEN py.covered ELSE n
             s == [py EXCEPT !.nextChunk = n, !.covered = u]
  <2>1. /\ py.task = "polling" /\ ~py.failed
        /\ w => py.kind \in Withholding
        /\ n \in PyCount /\ u \in PyCount /\ u <= n /\ py.nextChunk # BodyChunks
        /\ ~w => u = n
    BY <1>8, <1>f, <1>i, PyStreamAssumption DEF ChunkArrives, Polling, Withholding, PyCount, PyCovers
  <2>2. \/ py.kind \in Readers /\ py' = [s EXCEPT !.got = n]
        \/ w /\ py.kind \in LineIterators /\ py' = s
        \/ py.kind \notin Readers /\ py' = [s EXCEPT !.hand = << u >>, !.task = "sending"]
    BY <1>8 DEF ChunkArrives
  <2>h. /\ py.hand = << >> /\ ~py.ending /\ ~py.closed /\ py.kind # "none" /\ py.state # "streaming"
        /\ py.kind \in Readers => py.outcome = "none"
    BY <2>1, <1>i DEF PyTask, PyEnds
  <2> HIDE DEF n, u
  <2>3. CASE py.kind \in Readers /\ py' = [s EXCEPT !.got = n]
    <3>1. py' = [py EXCEPT !.nextChunk = n, !.covered = u, !.got = n]
      BY <2>3, <1>i, PyFields
    <3>2. py' \in PyState
      BY <2>1, <3>1, <1>i, PyFields
    <3>3. /\ py'.state = py.state /\ py'.kind = py.kind /\ py'.told = py.told
         /\ py'.failed = py.failed /\ py'.task = py.task /\ py'.nextChunk = n
         /\ py'.covered = u /\ py'.hand = py.hand /\ py'.ending = py.ending
         /\ py'.queue = py.queue /\ py'.closed = py.closed /\ py'.consumer = py.consumer
         /\ py'.got = n /\ py'.outcome = py.outcome
      BY <3>1, <1>i, PyFields
    <3>4. PyTask(py') /\ PyEnds(py') /\ PyWhole(py')
      BY <2>1, <2>3, <2>h, <3>3, <1>i, PyKindsApart DEF PyTask, PyEnds, PyWhole
    <3>5. PyCovers(py')
      <4>1. py'.covered <= py'.nextChunk
        BY <2>1, <3>3
      <4>2. py'.kind \notin Withholding => py'.covered = py'.nextChunk
        BY <2>1, <3>3
      <4>3. py'.kind \in Iterators /\ py'.consumer # "gone" /\ ~py'.failed => PyLast(py') = py'.covered
        BY <2>1, <2>3, <2>h, <3>3, <1>i, PyKindsApart DEF PyCovers
      <4>4. py'.task \notin {"none", "done"} /\ ~py'.ending
        BY <2>1, <2>h, <3>3
      <4>5. QED
        BY <4>1, <4>2, <4>3, <4>4 DEF PyCovers
    <3>6. QED
      BY <3>2, <3>4, <3>5 DEF PyInv, PyShape
  <2>4. CASE w /\ py.kind \in LineIterators /\ py' = s
    <3>1. u = py.covered /\ py' = [py EXCEPT !.nextChunk = n, !.covered = u]
      BY <2>4 DEF u
    <3>2. py' \in PyState
      BY <2>1, <3>1, <1>i, PyFields
    <3>3. /\ py'.state = py.state /\ py'.kind = py.kind /\ py'.told = py.told
         /\ py'.failed = py.failed /\ py'.task = py.task /\ py'.nextChunk = n
         /\ py'.covered = u /\ py'.hand = py.hand /\ py'.ending = py.ending
         /\ py'.queue = py.queue /\ py'.closed = py.closed /\ py'.consumer = py.consumer
         /\ py'.got = py.got /\ py'.outcome = py.outcome
      BY <3>1, <1>i, PyFields
    <3>4. PyTask(py') /\ PyEnds(py') /\ PyWhole(py')
      BY <2>1, <2>4, <2>h, <3>3, <1>i, PyKindsApart DEF PyTask, PyEnds, PyWhole
    <3>5. PyLast(py') = PyLast(py)
      BY <3>3 DEF PyLast
    <3>6. PyCovers(py')
      <4>1. py'.covered <= py'.nextChunk
        BY <2>1, <3>3
      <4>2. py'.kind \notin Withholding => py'.covered = py'.nextChunk
        BY <2>1, <3>3
      <4>3. py'.kind \in Iterators /\ py'.consumer # "gone" /\ ~py'.failed => PyLast(py') = py'.covered
        BY <2>1, <2>4, <2>h, <3>1, <3>3, <3>5, <1>i, PyKindsApart DEF PyCovers
      <4>4. py'.task \notin {"none", "done"} /\ ~py'.ending
        BY <2>1, <2>h, <3>3
      <4>5. QED
        BY <4>1, <4>2, <4>3, <4>4 DEF PyCovers
    <3>7. QED
      BY <3>2, <3>4, <3>6 DEF PyInv, PyShape
  <2>5. CASE py.kind \notin Readers /\ py' = [s EXCEPT !.hand = << u >>, !.task = "sending"]
    <3> DEFINE h == << u >>
    <3>0. h \in PyItems /\ h # << >> /\ h[Len(h)] = u
      BY <2>1, PyItemsAre
    <3> HIDE DEF h
    <3>1. py' = [py EXCEPT !.nextChunk = n, !.covered = u, !.hand = h, !.task = "sending"]
      BY <2>5, <1>i, PyFields DEF h
    <3>2. py' \in PyState
      BY <2>1, <3>0, <3>1, <1>i, PyFields
    <3>3. /\ py'.state = py.state /\ py'.kind = py.kind /\ py'.told = py.told
         /\ py'.failed = py.failed /\ py'.task = "sending" /\ py'.nextChunk = n
         /\ py'.covered = u /\ py'.hand = h /\ py'.ending = py.ending /\ py'.queue = py.queue
         /\ py'.closed = py.closed /\ py'.consumer = py.consumer /\ py'.got = py.got
         /\ py'.outcome = py.outcome
      BY <3>1, <1>i, PyFields
    <3>4. PyTask(py') /\ PyEnds(py') /\ PyWhole(py')
      BY <2>1, <2>5, <2>h, <3>0, <3>3, <1>i, <1>f, PyKindsApart DEF PyTask, PyEnds, PyWhole
    <3>5. PyLast(py') = u
      BY <3>0, <3>3 DEF PyLast
    <3>6. PyCovers(py')
      <4>1. py'.covered <= py'.nextChunk
        BY <2>1, <3>3
      <4>2. py'.kind \notin Withholding => py'.covered = py'.nextChunk
        BY <2>1, <3>3
      <4>3. py'.kind \in Iterators /\ py'.consumer # "gone" /\ ~py'.failed => PyLast(py') = py'.covered
        BY <2>1, <2>5, <2>h, <3>3, <3>5, <1>i, PyKindsApart DEF PyCovers
      <4>4. py'.task \notin {"none", "done"} /\ ~py'.ending
        BY <2>1, <2>h, <3>3
      <4>5. QED
        BY <4>1, <4>2, <4>3, <4>4 DEF PyCovers
    <3>7. QED
      BY <3>2, <3>4, <3>6 DEF PyInv, PyShape
  <2>6. QED
    BY <2>2, <2>3, <2>4, <2>5
<1>9. CASE BodyFails
  <2>0. /\ py.task = "polling" /\ ~py.failed /\ py.hand = << >> /\ ~py.ending /\ ~py.closed
        /\ py.kind # "none" /\ py.state # "streaming"
    BY <1>9, <1>i DEF BodyFails, Polling, PyTask, PyEnds
  <2> DEFINE h == << ErrorItem >>
             s == [py EXCEPT !.failed = TRUE, !.hand = h]
  <2>h. h \in PyItems /\ h # << >>
    BY PyItemsAre
  <2>1. CASE py.kind \in Readers
    <3>1. py' = [py EXCEPT !.failed = TRUE, !.task = "done", !.body = "released", !.outcome = "error"]
      BY <1>9, <2>1, <1>i, PyFields DEF BodyFails, ReaderEnds
    <3>2. py' \in PyState
      BY <3>1, <1>i, PyFields
    <3>3. /\ py'.state = py.state /\ py'.kind = py.kind /\ py'.told = py.told
         /\ py'.failed = TRUE /\ py'.task = "done" /\ py'.nextChunk = py.nextChunk
         /\ py'.covered = py.covered /\ py'.hand = py.hand /\ py'.ending = py.ending
         /\ py'.queue = py.queue /\ py'.closed = py.closed /\ py'.consumer = py.consumer
         /\ py'.got = py.got /\ py'.outcome = "error"
      BY <3>1, <1>i, PyFields
    <3>4. PyTask(py') /\ PyEnds(py') /\ PyWhole(py')
      BY <3>3, <2>0, <2>1, <1>i, <1>f, PyKindsApart DEF PyTask, PyEnds, PyWhole
    <3>5. PyCovers(py')
      BY <3>3, <2>0, <2>1, <1>i, PyKindsApart DEF PyCovers
    <3>6. QED
      BY <3>2, <3>4, <3>5 DEF PyInv, PyShape
  <2>2. CASE py.kind \in Withholding
    <3>1. py' = Finishing(s)
      BY <1>9, <2>2, PyKindsApart DEF BodyFails, Withholding
    <3> HIDE DEF h
    <3>2. s \in PyState
      BY <2>h, <1>i, PyFields
    <3>3. /\ s.kind = py.kind /\ s.task = "polling" /\ s.failed /\ s.hand = h /\ s.told = py.told
          /\ s.state = py.state /\ s.consumer = py.consumer /\ s.outcome = py.outcome /\ s.ending = py.ending
          /\ s.covered = py.covered /\ s.nextChunk = py.nextChunk /\ s.closed = py.closed
      BY <2>0, <1>i, PyFields
    <3> HIDE DEF s
    <3>4. PyOver(s)
      BY <2>0, <2>2, <3>3, <1>i, PyKindsApart DEF PyOver, PyTask, PyEnds, PyCovers, PyWhole, h
    <3>5. QED
      BY <3>1, <3>2, <3>4, PyFinishes DEF PyInv
  <2>3. CASE py.kind \notin Readers /\ py.kind \notin Withholding
    <3>0. py' = [s EXCEPT !.task = "sending"]
      BY <1>9, <2>3 DEF BodyFails, Withholding
    <3> HIDE DEF h
    <3>1. py' = [py EXCEPT !.failed = TRUE, !.hand = h, !.task = "sending"]
      BY <3>0, <1>i, PyFields
    <3>2. py' \in PyState
      BY <3>1, <1>i, PyFields, <2>h
    <3>3. /\ py'.state = py.state /\ py'.kind = py.kind /\ py'.told = py.told
         /\ py'.failed = TRUE /\ py'.task = "sending" /\ py'.nextChunk = py.nextChunk
         /\ py'.covered = py.covered /\ py'.hand = h /\ py'.ending = py.ending
         /\ py'.queue = py.queue /\ py'.closed = py.closed /\ py'.consumer = py.consumer
         /\ py'.got = py.got /\ py'.outcome = py.outcome
      BY <3>1, <1>i, PyFields
    <3>4. PyTask(py') /\ PyEnds(py') /\ PyWhole(py')
      BY <3>3, <2>0, <2>3, <2>h, <1>i, <1>f, PyKindsApart DEF PyTask, PyEnds, PyWhole
    <3>5. PyCovers(py')
      BY <2>0, <2>3, <3>3, <1>i DEF PyCovers
    <3>6. QED
      BY <3>2, <3>4, <3>5 DEF PyInv, PyShape
  <2>4. QED
    BY <2>1, <2>2, <2>3
<1>10. CASE BodyEnds
  <2>0. /\ py.task = "polling" /\ py.hand = << >> /\ ~py.ending /\ ~py.closed
        /\ py.kind # "none" /\ py.state # "streaming"
        /\ py.failed \/ py.nextChunk = BodyChunks
    BY <1>10, <1>i DEF BodyEnds, Polling, PyTask, PyEnds
  <2>1. CASE py.kind \in Readers
    <3> DEFINE x == IF py.state = "consumed" THEN "buffered" ELSE py.state
    <3>0. py' = [ReaderEnds(py, "eof") EXCEPT !.state = x] /\ x \in {"streaming", "buffered", "consumed", "closed"}
          /\ (x = "closed" <=> py.state = "closed") /\ x # "streaming"
      BY <1>10, <2>0, <2>1, <1>i, PyFields DEF BodyEnds, ReaderEnds
    <3> HIDE DEF x
    <3>1. py' = [py EXCEPT !.task = "done", !.body = "released", !.outcome = "eof", !.state = x]
      BY <3>0, <1>i, PyFields DEF ReaderEnds
    <3>2. py' \in PyState
      BY <3>0, <3>1, <1>i, PyFields, ZenonT(60)
    <3>3. /\ py'.state = x /\ py'.kind = py.kind /\ py'.told = py.told
         /\ py'.failed = py.failed /\ py'.task = "done" /\ py'.nextChunk = py.nextChunk
         /\ py'.covered = py.covered /\ py'.hand = py.hand /\ py'.ending = py.ending
         /\ py'.queue = py.queue /\ py'.closed = py.closed /\ py'.consumer = py.consumer
         /\ py'.got = py.got /\ py'.outcome = "eof"
      BY <3>0, <3>1, <1>i, PyFields
    <3>4. PyTask(py') /\ PyEnds(py') /\ PyWhole(py')
      BY <3>3, <2>0, <2>1, <3>0, <1>i, <1>f, PyKindsApart DEF PyTask, PyEnds, PyWhole
    <3>5. PyCovers(py')
      BY <3>3, <2>0, <2>1, <3>0, <1>i, PyKindsApart DEF PyCovers
    <3>6. QED
      BY <3>2, <3>4, <3>5 DEF PyInv, PyShape
  <2>2. CASE py.kind \notin Readers
    <3>1. py' = Finishing(py)
      BY <1>10, <2>2 DEF BodyEnds
    <3>2. PyOver(py)
      BY <2>0, <2>2, <1>i, <1>f, PyKindsApart DEF PyOver, PyTask, PyEnds, PyCovers
    <3>3. QED
      BY <3>1, <3>2, <1>i, PyFinishes DEF PyInv
  <2>3. QED
    BY <2>1, <2>2
<1>11. CASE CancelSeen
  <2>0. /\ py.task = "polling" /\ py.hand = << >> /\ ~py.ending /\ ~py.closed
        /\ py.kind # "none" /\ py.state = "closed"
    BY <1>11, <1>i DEF CancelSeen, Polling, PyTask, PyEnds
  <2>1. CASE py.kind \in Readers
    <3>1. py' = [py EXCEPT !.task = "done", !.body = "released", !.outcome = "closed"]
      BY <1>11, <2>1 DEF CancelSeen, ReaderEnds
    <3>2. py' \in PyState
      BY <3>1, <1>i, PyFields
    <3>3. /\ py'.state = py.state /\ py'.kind = py.kind /\ py'.told = py.told
         /\ py'.failed = py.failed /\ py'.task = "done" /\ py'.nextChunk = py.nextChunk
         /\ py'.covered = py.covered /\ py'.hand = py.hand /\ py'.ending = py.ending
         /\ py'.queue = py.queue /\ py'.closed = py.closed /\ py'.consumer = py.consumer
         /\ py'.got = py.got /\ py'.outcome = "closed"
      BY <3>1, <1>i, PyFields
    <3>4. PyTask(py') /\ PyEnds(py') /\ PyWhole(py')
      BY <3>3, <2>0, <2>1, <1>i, <1>f, PyKindsApart DEF PyTask, PyEnds, PyWhole
    <3>5. PyCovers(py')
      BY <3>3, <2>0, <2>1, <1>i, PyKindsApart DEF PyCovers
    <3>6. QED
      BY <3>2, <3>4, <3>5 DEF PyInv, PyShape
  <2>2. CASE py.kind \in TextIterators
    <3>1. py' = Finishing(py)
      BY <1>11, <2>2, PyKindsApart DEF CancelSeen
    <3>2. PyOver(py)
      BY <2>0, <2>2, <1>i, <1>f, PyKindsApart DEF PyOver, PyTask, PyEnds, PyCovers
    <3>3. QED
      BY <3>1, <3>2, <1>i, PyFinishes DEF PyInv
  <2>3. CASE py.kind \notin Readers /\ py.kind \notin TextIterators
    <3> DEFINE c == Woken(py.consumer)
    <3>0. c \in {"waiting", "asleep"} => py.outcome = "none"
      BY <1>i DEF Woken, PyEnds
    <3>a. (c = "gone" <=> py.consumer = "gone") /\ (py.consumer \in {"idle", "gone"} => c = py.consumer)
      BY DEF Woken
    <3>b. c \in {"idle", "waiting", "asleep", "gone"}
      BY <1>i, PyFields DEF Woken
    <3>c. py' = TaskEnds(py)
      BY <1>11, <2>3 DEF CancelSeen
    <3> HIDE DEF c
    <3>1. py' = [py EXCEPT !.task = "done", !.body = "released", !.closed = TRUE, !.consumer = c]
      BY <3>c, <1>i, PyTaskEnds DEF c
    <3>2. py' \in PyState
      BY <3>1, <1>i, PyFields, <3>b, ZenonT(60)
    <3>3. /\ py'.state = py.state /\ py'.kind = py.kind /\ py'.told = py.told
         /\ py'.failed = py.failed /\ py'.task = "done" /\ py'.nextChunk = py.nextChunk
         /\ py'.covered = py.covered /\ py'.hand = py.hand /\ py'.ending = py.ending
         /\ py'.queue = py.queue /\ py'.closed = TRUE /\ py'.consumer = c /\ py'.got = py.got
         /\ py'.outcome = py.outcome
      BY <3>1, <1>i, PyFields
    <3>4. PyTask(py') /\ PyEnds(py') /\ PyWhole(py')
      BY <3>3, <2>0, <2>3, <3>0, <3>a, <1>i, <1>f, PyKindsApart DEF PyTask, PyEnds, PyWhole
    <3>5. PyCovers(py')
      <4>1. PyLast(py') = PyLast(py)
        BY <3>3 DEF PyLast
      <4>2. QED
        BY <2>0, <2>3, <3>a, <3>3, <4>1, <1>i DEF PyCovers
    <3>6. QED
      BY <3>2, <3>4, <3>5 DEF PyInv, PyShape
  <2>4. QED
    BY <2>1, <2>2, <2>3
<1>12. CASE SpaceNotified
  <2>1. py' = [py EXCEPT !.task = "sending", !.permit = FALSE]
    BY <1>12 DEF SpaceNotified
  <2>2. py' \in PyState
    BY <2>1, <1>i, PyFields
  <2>3. /\ py'.state = py.state /\ py'.kind = py.kind /\ py'.told = py.told
       /\ py'.failed = py.failed /\ py'.task = "sending" /\ py'.nextChunk = py.nextChunk
       /\ py'.covered = py.covered /\ py'.hand = py.hand /\ py'.ending = py.ending
       /\ py'.queue = py.queue /\ py'.closed = py.closed /\ py'.consumer = py.consumer
       /\ py'.got = py.got /\ py'.outcome = py.outcome
    BY <2>1, <1>i, PyFields
  <2>4. PyTask(py') /\ PyEnds(py') /\ PyWhole(py')
    BY <2>3, <1>12, <1>i DEF SpaceNotified, PyTask, PyEnds, PyWhole
  <2>5. PyCovers(py')
    BY <2>3, <1>12, <1>i DEF SpaceNotified, PyTask, PyCovers, PyLast
  <2>6. QED
    BY <2>2, <2>4, <2>5 DEF PyInv, PyShape
<1>13. CASE CallNext
  <2>0. /\ py.kind \in Iterators /\ py.kind \notin Readers /\ py.consumer = "idle" /\ py.outcome = "none"
        /\ py.task # "none"
    BY <1>13, <1>i, PyKindsApart DEF CallNext, PyTask
  <2>1. py' = [py EXCEPT !.consumer = "waiting"]
    BY <1>13 DEF CallNext
  <2>2. py' \in PyState
    BY <2>1, <1>i, PyFields
  <2>3. /\ py'.state = py.state /\ py'.kind = py.kind /\ py'.told = py.told
       /\ py'.failed = py.failed /\ py'.task = py.task /\ py'.nextChunk = py.nextChunk
       /\ py'.covered = py.covered /\ py'.hand = py.hand /\ py'.ending = py.ending
       /\ py'.queue = py.queue /\ py'.closed = py.closed /\ py'.consumer = "waiting"
       /\ py'.got = py.got /\ py'.outcome = py.outcome
    BY <2>1, <1>i, PyFields
  <2>4. PyTask(py') /\ PyEnds(py') /\ PyWhole(py')
    BY <2>3, <2>0, <1>i DEF PyTask, PyEnds, PyWhole
  <2>5. PyCovers(py')
    BY <2>0, <2>3, <1>i DEF PyTask, PyCovers, PyLast
  <2>6. QED
    BY <2>2, <2>4, <2>5 DEF PyInv, PyShape
<1>14. CASE DropIterator
  <2>0. py.kind \in Iterators /\ py.kind \notin Readers /\ py.consumer = "idle" /\ py.task # "none" /\ py.kind # "none"
    BY <1>14, <1>i, PyKindsApart DEF DropIterator, PyTask
  <2>1. py' = [py EXCEPT !.consumer = "gone", !.closed = TRUE, !.task = "done", !.body = "released"]
    BY <1>14 DEF DropIterator
  <2>2. py' \in PyState
    BY <2>1, <1>i, PyFields
  <2>3. /\ py'.state = py.state /\ py'.kind = py.kind /\ py'.told = py.told
       /\ py'.failed = py.failed /\ py'.task = "done" /\ py'.nextChunk = py.nextChunk
       /\ py'.covered = py.covered /\ py'.hand = py.hand /\ py'.ending = py.ending
       /\ py'.queue = py.queue /\ py'.closed = TRUE /\ py'.consumer = "gone"
       /\ py'.got = py.got /\ py'.outcome = py.outcome
    BY <2>1, <1>i, PyFields
  <2>4. PyTask(py') /\ PyEnds(py') /\ PyWhole(py')
    BY <2>3, <2>0, <1>i DEF PyTask, PyEnds, PyWhole
  <2>5. PyCovers(py')
    BY <2>0, <2>3, <1>i DEF PyTask, PyCovers, PyLast
  <2>6. QED
    BY <2>2, <2>4, <2>5 DEF PyInv, PyShape
<1>15. CASE SendItem
  <2> DEFINE x == Head(py.hand)
             q == Append(py.queue, x)
             h == Tail(py.hand)
             c == Woken(py.consumer)
             v == [py EXCEPT !.queue = q, !.hand = h]
             w == [py EXCEPT !.queue = q, !.hand = h, !.consumer = c]
  <2>0. /\ py.task = "sending" /\ py.hand # << >> /\ py.kind \in Iterators /\ py.kind \notin Readers
        /\ py.kind # "none" /\ ~py.closed /\ py.state # "streaming"
        /\ py.consumer # "gone" /\ ~py.failed => py.hand[Len(py.hand)] = py.covered
    BY <1>15, <1>i, PyKindsApart DEF SendItem, PyTask, PyEnds, PyCovers, PyLast
  <2>1. /\ x \in 0 .. ErrorItem /\ h \in PyItems /\ q \in PyItems /\ q # << >> /\ q[Len(q)] = x
        /\ h = << >> => py.hand[Len(py.hand)] = x
        /\ h # << >> => h[Len(h)] = py.hand[Len(py.hand)]
    <3>1. py.hand \in PyItems \ {<< >>} /\ py.queue \in PyItems
      BY <2>0, <1>f
    <3>2. /\ x \in 0 .. ErrorItem /\ h \in PyItems
          /\ h = << >> => py.hand[Len(py.hand)] = x
          /\ h # << >> => h[Len(h)] = py.hand[Len(py.hand)]
      BY <3>1, PyItemsAre
    <3> HIDE DEF x, h
    <3>3. q \in PyItems /\ q # << >> /\ q[Len(q)] = x
      BY <3>1, <3>2, PyItemsAre
    <3>4. QED
      BY <3>2, <3>3
  <2>2. /\ c \in {"idle", "waiting", "asleep", "gone"} /\ Woken(c) = c
        /\ c = "gone" <=> py.consumer = "gone"
        /\ py.consumer \in {"idle", "gone"} => c = py.consumer
        /\ c \in {"waiting", "asleep"} => py.outcome = "none"
    BY <1>i, PyFields DEF Woken, PyEnds
  <2>3. Wake(v) = w /\ w \in PyState
    <3> HIDE DEF q, h
    <3>1. v \in PyState /\ v.consumer = py.consumer
      BY <2>1, <1>i, PyFields
    <3> HIDE DEF v
    <3>2. Wake(v) \in PyState /\ Wake(v) = [v EXCEPT !.consumer = c]
      BY <3>1, PyTaskEnds
    <3>3. [v EXCEPT !.consumer = c] = w
      BY <1>i, PyFields DEF v
    <3>4. QED
      BY <3>2, <3>3
  <2>4. \/ py' = [py EXCEPT !.task = "parked"]
        \/ /\ h # << >> \/ ~py.ending
           /\ py' = IF h # << >> THEN w ELSE [w EXCEPT !.task = "polling"]
        \/ h = << >> /\ py.ending /\ py' = TaskEnds(w)
    <3>1. w.hand = h /\ w.ending = py.ending
      BY <1>i, PyFields
    <3>2. QED
      BY <1>15, <2>3, <3>1 DEF SendItem
  <2> HIDE DEF h, q, c, x
  <2>5. CASE py' = [py EXCEPT !.task = "parked"]
    <3>1. py' = [py EXCEPT !.task = "parked"]
      BY <2>5
    <3>2. py' \in PyState
      BY <3>1, <1>i, PyFields
    <3>3. /\ py'.state = py.state /\ py'.kind = py.kind /\ py'.told = py.told
         /\ py'.failed = py.failed /\ py'.task = "parked" /\ py'.nextChunk = py.nextChunk
         /\ py'.covered = py.covered /\ py'.hand = py.hand /\ py'.ending = py.ending
         /\ py'.queue = py.queue /\ py'.closed = py.closed /\ py'.consumer = py.consumer
         /\ py'.got = py.got /\ py'.outcome = py.outcome
      BY <3>1, <1>i, PyFields
    <3>4. PyTask(py') /\ PyEnds(py') /\ PyWhole(py')
      BY <3>3, <2>0, <1>i DEF PyTask, PyEnds, PyWhole
    <3>5. PyCovers(py')
      BY <3>3, <2>0, <1>i DEF PyTask, PyCovers, PyLast
    <3>6. QED
      BY <3>2, <3>4, <3>5 DEF PyInv, PyShape
  <2>6. CASE h # << >> /\ py' = w
    <3>1. py' = [py EXCEPT !.queue = q, !.hand = h, !.consumer = c]
      BY <2>6
    <3>2. py' \in PyState
      BY <3>1, <1>i, PyFields, <2>1, <2>2, ZenonT(60)
    <3>3. /\ py'.state = py.state /\ py'.kind = py.kind /\ py'.told = py.told
         /\ py'.failed = py.failed /\ py'.task = py.task /\ py'.nextChunk = py.nextChunk
         /\ py'.covered = py.covered /\ py'.hand = h /\ py'.ending = py.ending
         /\ py'.queue = q /\ py'.closed = py.closed /\ py'.consumer = c /\ py'.got = py.got
         /\ py'.outcome = py.outcome
      BY <3>1, <1>i, PyFields
    <3>4. PyTask(py') /\ PyEnds(py') /\ PyWhole(py')
      BY <3>3, <2>0, <2>2, <2>6, <1>i DEF PyTask, PyEnds, PyWhole
    <3>5. PyCovers(py')
      <4>1. PyLast(py') = py.hand[Len(py.hand)]
        BY <2>1, <2>6, <3>3 DEF PyLast
      <4>2. QED
        BY <2>0, <2>2, <3>3, <4>1, <1>i DEF PyCovers
    <3>6. QED
      BY <3>2, <3>4, <3>5 DEF PyInv, PyShape
  <2>7. CASE h = << >> /\ ~py.ending /\ py' = [w EXCEPT !.task = "polling"]
    <3>1. py' = [py EXCEPT !.queue = q, !.hand = h, !.consumer = c, !.task = "polling"]
      BY <2>7, <1>i, PyFields
    <3>2. py' \in PyState
      BY <3>1, <1>i, PyFields, <2>1, <2>2, ZenonT(60)
    <3>3. /\ py'.state = py.state /\ py'.kind = py.kind /\ py'.told = py.told
         /\ py'.failed = py.failed /\ py'.task = "polling" /\ py'.nextChunk = py.nextChunk
         /\ py'.covered = py.covered /\ py'.hand = h /\ py'.ending = py.ending
         /\ py'.queue = q /\ py'.closed = py.closed /\ py'.consumer = c /\ py'.got = py.got
         /\ py'.outcome = py.outcome
      BY <3>1, <1>i, PyFields
    <3>4. PyTask(py') /\ PyEnds(py') /\ PyWhole(py')
      BY <3>3, <2>0, <2>2, <2>7, <1>i DEF PyTask, PyEnds, PyWhole
    <3>5. PyCovers(py')
      <4>1. PyLast(py') = py.hand[Len(py.hand)]
        BY <2>1, <2>7, <3>3 DEF PyLast
      <4>2. QED
        BY <2>0, <2>2, <2>7, <3>3, <4>1, <1>i DEF PyCovers
    <3>6. QED
      BY <3>2, <3>4, <3>5 DEF PyInv, PyShape
  <2>8. CASE h = << >> /\ py.ending /\ py' = TaskEnds(w)
    <3>0. py' = [w EXCEPT !.task = "done", !.body = "released", !.closed = TRUE, !.consumer = c]
      <4>1. w.consumer = c
        BY <1>i, PyFields
      <4> HIDE DEF w
      <4>2. TaskEnds(w) = [w EXCEPT !.task = "done", !.body = "released", !.closed = TRUE,
                                    !.consumer = Woken(w.consumer)]
        BY <2>3, PyTaskEnds
      <4>3. QED
        BY <2>2, <2>8, <4>1, <4>2
    <3>1. py' = [py EXCEPT !.queue = q, !.hand = h, !.consumer = c, !.task = "done",
                           !.body = "released", !.closed = TRUE]
      BY <3>0, <1>i, PyFields
    <3>2. py' \in PyState
      BY <3>1, <1>i, PyFields, <2>1, <2>2, ZenonT(60)
    <3>3. /\ py'.state = py.state /\ py'.kind = py.kind /\ py'.told = py.told
         /\ py'.failed = py.failed /\ py'.task = "done" /\ py'.nextChunk = py.nextChunk
         /\ py'.covered = py.covered /\ py'.hand = h /\ py'.ending = py.ending
         /\ py'.queue = q /\ py'.closed = TRUE /\ py'.consumer = c /\ py'.got = py.got
         /\ py'.outcome = py.outcome
      BY <3>1, <1>i, PyFields
    <3>4. PyTask(py') /\ PyEnds(py') /\ PyWhole(py')
      BY <3>3, <2>0, <2>2, <2>8, <1>i DEF PyTask, PyEnds, PyWhole
    <3>5. PyCovers(py')
      <4>1. PyLast(py') = py.hand[Len(py.hand)]
        BY <2>1, <2>8, <3>3 DEF PyLast
      <4>2. QED
        BY <2>0, <2>2, <2>8, <3>3, <4>1, <1>i DEF PyCovers
    <3>6. QED
      BY <3>2, <3>4, <3>5 DEF PyInv, PyShape
  <2>9. QED
    BY <2>4, <2>5, <2>6, <2>7, <2>8
<1>16. CASE recv_blocking
  <2>0. /\ py.consumer = "waiting" /\ py.kind \in Iterators /\ py.kind \notin Readers /\ py.kind # "none"
        /\ py.outcome = "none" /\ py.task # "none"
    BY <1>16, <1>i, PyKindsApart DEF recv_blocking, PyTask, PyEnds
  <2>1. CASE py.queue = << >> /\ py.closed /\ py' = [py EXCEPT !.consumer = "idle", !.outcome = "eof"]
    <3>0. py.task = "done" /\ py.hand = << >> /\ PyLast(py) = py.got
      BY <2>0, <2>1, <1>i DEF PyTask, PyEnds, PyLast
    <3>a. py.got = BodyChunks \/ py.failed \/ py.state = "closed"
      BY <2>0, <3>0, <1>i DEF PyCovers
    <3>1. py' = [py EXCEPT !.consumer = "idle", !.outcome = "eof"]
      BY <2>1
    <3>2. py' \in PyState
      BY <3>1, <1>i, PyFields
    <3>3. /\ py'.state = py.state /\ py'.kind = py.kind /\ py'.told = py.told
         /\ py'.failed = py.failed /\ py'.task = py.task /\ py'.nextChunk = py.nextChunk
         /\ py'.covered = py.covered /\ py'.hand = py.hand /\ py'.ending = py.ending
         /\ py'.queue = py.queue /\ py'.closed = py.closed /\ py'.consumer = "idle"
         /\ py'.got = py.got /\ py'.outcome = "eof"
      BY <3>1, <1>i, PyFields
    <3>4. PyTask(py') /\ PyEnds(py') /\ PyWhole(py')
      BY <3>3, <2>0, <3>0, <3>a, <1>i DEF PyTask, PyEnds, PyWhole
    <3>5. PyCovers(py')
      BY <3>3, <2>0, <3>0, <3>a, <1>i DEF PyTask, PyCovers, PyLast
    <3>6. QED
      BY <3>2, <3>4, <3>5 DEF PyInv, PyShape
  <2>2. CASE py.queue # << >> /\ py' = Delivered(TakeItem(py), Head(py.queue))
    <3> DEFINE x == Head(py.queue)
               q == Tail(py.queue)
               g == IF x = ErrorItem THEN py.got ELSE x
    <3>0. /\ x \in 0 .. ErrorItem /\ q \in PyItems /\ g \in PyCount
          /\ q = << >> => py.queue[Len(py.queue)] = x
          /\ q # << >> => q[Len(q)] = py.queue[Len(py.queue)]
      <4>1. /\ x \in 0 .. ErrorItem /\ q \in PyItems
            /\ q = << >> => py.queue[Len(py.queue)] = x
            /\ q # << >> => q[Len(q)] = py.queue[Len(py.queue)]
        BY <2>2, <1>f, PyItemsAre
      <4>2. g \in PyCount
        BY <1>f, <4>1, PyItemsAre
      <4>3. QED
        BY <4>1, <4>2
    <3>a. py.covered # ErrorItem
      BY <1>f, PyItemsAre
    <3>b. py' = [[py EXCEPT !.queue = q, !.permit = TRUE] EXCEPT !.consumer = "idle", !.got = g]
      BY <2>2, <1>i, PyFields DEF Delivered, TakeItem
    <3>c. x # ErrorItem => g = x
      OBVIOUS
    <3> HIDE DEF x, q, g
    <3>1. py' = [py EXCEPT !.queue = q, !.permit = TRUE, !.consumer = "idle", !.got = g]
      BY <3>b, <1>i, PyFields
    <3>2. py' \in PyState
      BY <3>1, <1>i, PyFields, <3>0
    <3>3. /\ py'.state = py.state /\ py'.kind = py.kind /\ py'.told = py.told
         /\ py'.failed = py.failed /\ py'.task = py.task /\ py'.nextChunk = py.nextChunk
         /\ py'.covered = py.covered /\ py'.hand = py.hand /\ py'.ending = py.ending
         /\ py'.queue = q /\ py'.closed = py.closed /\ py'.consumer = "idle" /\ py'.got = g
         /\ py'.outcome = py.outcome
      BY <3>1, <1>i, PyFields
    <3>4. PyTask(py') /\ PyEnds(py') /\ PyWhole(py')
      BY <3>3, <2>0, <1>i DEF PyTask, PyEnds, PyWhole
    <3>5. PyCovers(py')
      <4>1. ~py.failed => PyLast(py') = py.covered
        BY <2>0, <2>2, <3>0, <3>3, <3>a, <3>c, <1>i DEF PyCovers, PyLast
      <4>2. QED
        BY <2>0, <3>3, <4>1, <1>i DEF PyCovers
    <3>6. QED
      BY <3>2, <3>4, <3>5 DEF PyInv, PyShape
  <2>3. CASE py' = [py EXCEPT !.consumer = "asleep"]
    <3>1. py' = [py EXCEPT !.consumer = "asleep"]
      BY <2>3
    <3>2. py' \in PyState
      BY <3>1, <1>i, PyFields
    <3>3. /\ py'.state = py.state /\ py'.kind = py.kind /\ py'.told = py.told
         /\ py'.failed = py.failed /\ py'.task = py.task /\ py'.nextChunk = py.nextChunk
         /\ py'.covered = py.covered /\ py'.hand = py.hand /\ py'.ending = py.ending
         /\ py'.queue = py.queue /\ py'.closed = py.closed /\ py'.consumer = "asleep"
         /\ py'.got = py.got /\ py'.outcome = py.outcome
      BY <3>1, <1>i, PyFields
    <3>4. PyTask(py') /\ PyEnds(py') /\ PyWhole(py')
      BY <3>3, <2>0, <1>i DEF PyTask, PyEnds, PyWhole
    <3>5. PyCovers(py')
      BY <3>3, <2>0, <1>i DEF PyTask, PyCovers, PyLast
    <3>6. QED
      BY <3>2, <3>4, <3>5 DEF PyInv, PyShape
  <2>4. QED
    BY <1>16, <2>1, <2>2, <2>3 DEF recv_blocking, EndSeen
<1>17. QED
  BY <1>1, <1>3, <1>4, <1>5, <1>6, <1>7, <1>8, <1>9, <1>10, <1>11, <1>12, <1>13, <1>14, <1>15, <1>16 DEF PyNext

\* A decoder is made with its iterator, and the iterator stays what it is.
LEMMA DecoderStep ==
    ASSUME PyInv, DecoderInv, [PyNext]_pyVars
    PROVE  DecoderInv'
<1>i. py \in PyState /\ PyTask(py) /\ decoder \in DecoderState
  BY DEF PyInv, PyShape, DecoderInv
<1>1. CASE py'.kind = py.kind /\ decoder' = decoder
  BY <1>1 DEF DecoderInv
<1>2. ASSUME NEW w \in BOOLEAN, NEW o \in BOOLEAN, ChunkArrives(w, o)
      PROVE  DecoderInv'
  <2>1. py'.kind = py.kind
    BY <1>2, <1>i, PyFields DEF ChunkArrives
  <2>2. decoder' = [decoder EXCEPT !.lost = @ \/ o] /\ (o => decoder.named)
    BY <1>2 DEF ChunkArrives
  <2>3. decoder' \in DecoderState /\ decoder'.named = decoder.named /\ decoder'.lost = (decoder.lost \/ o)
    BY <1>i, <2>2 DEF DecoderState
  <2>4. QED
    BY <2>1, <2>2, <2>3 DEF DecoderInv
<1>3. ASSUME CanTake, py'.kind \in Withholding, NewDecoder
      PROVE  DecoderInv'
  <2>1. PICK b \in BOOLEAN : decoder' = [named |-> b, lost |-> FALSE]
    BY <1>3 DEF NewDecoder
  <2>2. QED
    BY <1>3, <2>1 DEF DecoderInv, DecoderState
<1>4. ASSUME CanTake, decoder' = decoder
      PROVE  DecoderInv'
  <2>1. ~decoder.named /\ ~decoder.lost
    BY <1>4, <1>i, PyKindsApart DEF CanTake, PyTask, DecoderInv
  <2>2. QED
    BY <1>4, <1>i, <2>1 DEF DecoderInv
<1>5. CASE \/ drain_all_bytes \/ aread \/ ZeroChunkSize \/ PyBytesChunkIterator \/ PyRawBytesChunkIterator
           \/ PyAsyncBytesIterator \/ PyAsyncRawBytesIterator
  BY <1>4, <1>5 DEF drain_all_bytes, aread, ZeroChunkSize, PyBytesChunkIterator,
                    PyRawBytesChunkIterator, PyAsyncBytesIterator, PyAsyncRawBytesIterator
<1>6. CASE PyTextChunkIterator \/ PyLinesChunkIterator \/ PyAsyncTextIterator \/ PyAsyncLinesIterator
  <2>1. PICK k \in Withholding : CanTake /\ py' = Taken(k) /\ NewDecoder
    BY <1>6 DEF PyTextChunkIterator, PyLinesChunkIterator, PyAsyncTextIterator,
                PyAsyncLinesIterator, Withholding, TextIterators, LineIterators
  <2>2. py'.kind = k
    BY <1>i, <2>1, PyFields DEF Taken, take_stream
  <2>3. QED
    BY <1>3, <2>1, <2>2
<1>7. CASE subscribe \/ drain_and_close \/ exit \/ SpaceNotified \/ CallNext \/ DropIterator
  BY <1>1, <1>7, <1>i, PyFields DEF subscribe, drain_and_close, exit, Closed, SpaceNotified, CallNext,
                                   DropIterator
<1>8. CASE recv_blocking
  BY <1>1, <1>8, <1>i, PyFields DEF recv_blocking, Delivered, TakeItem
<1>9. CASE SendItem
  BY <1>1, <1>9, <1>i, PyFields DEF SendItem, TaskEnds, Wake
<1>10. CASE BodyFails \/ BodyEnds \/ CancelSeen
  BY <1>1, <1>10, <1>i, PyFields DEF BodyFails, BodyEnds, CancelSeen, Finishing, Flush, TaskEnds, Wake,
                                    ReaderEnds
<1>11. CASE UNCHANGED pyVars
  BY <1>1, <1>11 DEF pyVars
<1>12. QED
  BY <1>2, <1>5, <1>6, <1>7, <1>8, <1>9, <1>10, <1>11 DEF PyNext

\* Every reachable state of a Python stream satisfies the inductive invariant: where its task
\* is, how its readers and iterators end, what of the body the last item covers, and which
\* decoder may have lost bytes on the way.
THEOREM PyInvariant == PySpec => [](PyInv /\ DecoderInv)
<1>1. PyInit => PyInv /\ DecoderInv
  <2> SUFFICES ASSUME PyInit
               PROVE  PyInv /\ DecoderInv
    OBVIOUS
  <2>1. 0 \in PyCount
    BY PyStreamAssumption DEF PyCount
  <2>2. py \in PyState
    BY <2>1, PyItemsAre, PyFields DEF PyInit, PyKinds
  <2>3. PyTask(py) /\ PyEnds(py) /\ PyWhole(py)
    BY PyKindsApart DEF PyInit, PyTask, PyEnds, PyWhole
  <2>4. PyCovers(py)
    BY PyKindsApart DEF PyInit, PyCovers, PyLast
  <2>5. DecoderInv
    BY DEF PyInit, DecoderInv, DecoderState
  <2>6. QED
    BY <2>2, <2>3, <2>4, <2>5 DEF PyInv, PyShape
<1>2. PyInv /\ DecoderInv /\ [PyNext]_pyVars => (PyInv /\ DecoderInv)'
  BY PyStep, DecoderStep
<1>3. QED
  BY <1>1, <1>2, PTL DEF PySpec

\* An iterator that simply ends has handed out the whole body, whatever the bridge's
\* capacity, what was withheld and whichever thread closed the response - except that the
\* decoder of a named charset may have dropped the rest of an oversize chunk.
THEOREM PyEndIsWhole == PySpec => []EndMeansWhole
<1>1. PyInv /\ DecoderInv => EndMeansWhole
  BY DEF PyInv, PyShape, PyWhole, DecoderInv, Withholding, EndMeansWhole
<1>2. QED
  BY <1>1, PyInvariant, PTL

(***************************************************************************)
(* The tunnels.                                                            *)
(***************************************************************************)
\* The stages in the order in which a route may put them, and where each stands in it.
StageNames == {"dns", "resolve", "tcp", "dial", "proxyTls", "greet", "auth", "command", "reply",
               "tls", "write", "read"}
Rank(s) == CASE s = "dns" -> 0      [] s = "resolve" -> 1   [] s \in {"tcp", "dial"} -> 2
             [] s = "proxyTls" -> 3 [] s = "greet" -> 4     [] s = "auth" -> 5
             [] s = "command" -> 6  [] s = "reply" -> 7     [] s = "tls" -> 8
             [] s = "write" -> 9    [] s = "read" -> 10

\* A route takes its stages in that order, each at most once, with ranks from a to b.
Rising(q, a, b) ==
    /\ q \in Seq(StageNames)
    /\ \A i \in 1 .. Len(q) : a <= Rank(q[i]) /\ Rank(q[i]) <= b
    /\ \A i, j \in 1 .. Len(q) : i < j => Rank(q[i]) < Rank(q[j])

\* It opens a connection in its first or second stage.
Opening(q) ==
    /\ Len(q) > 0
    /\ Rank(q[1]) = 2 \/ (Rank(q[1]) < 2 /\ Len(q) > 1 /\ Rank(q[2]) = 2)

\* Ranks are small numbers.
LEMMA RankType == \A s \in StageNames : Rank(s) \in 0 .. 10
BY DEF StageNames, Rank

\* Two sequences joined, element by element.
LEMMA Joined ==
    ASSUME NEW S, NEW q \in Seq(S), NEW r \in Seq(S)
    PROVE  /\ q \o r \in Seq(S) /\ Len(q) \in Nat /\ Len(r) \in Nat /\ Len(q \o r) = Len(q) + Len(r)
           /\ \A i \in 1 .. Len(q) : (q \o r)[i] = q[i]
           /\ \A i \in 1 .. Len(q \o r) : i \notin 1 .. Len(q) =>
                 i - Len(q) \in 1 .. Len(r) /\ (q \o r)[i] = r[i - Len(q)]
<1>1. /\ q \o r \in Seq(S) /\ Len(q \o r) = Len(q) + Len(r)
      /\ \A i \in 1 .. Len(q) + Len(r) : (q \o r)[i] = IF i <= Len(q) THEN q[i] ELSE r[i - Len(q)]
  BY ConcatProperties
<1>2. Len(q) \in Nat /\ Len(r) \in Nat
  OBVIOUS
<1>3. ASSUME NEW i \in 1 .. Len(q)
      PROVE  (q \o r)[i] = q[i]
  <2>1. i \in 1 .. Len(q) + Len(r) /\ i <= Len(q)
    BY <1>2
  <2>2. QED
    BY <1>1, <2>1
<1>4. ASSUME NEW i \in 1 .. Len(q \o r), i \notin 1 .. Len(q)
      PROVE  i - Len(q) \in 1 .. Len(r) /\ (q \o r)[i] = r[i - Len(q)]
  <2>1. i \in 1 .. Len(q) + Len(r) /\ ~(i <= Len(q)) /\ i - Len(q) \in 1 .. Len(r)
    BY <1>1, <1>2, <1>4
  <2>2. QED
    BY <1>1, <2>1
<1>5. QED
  BY <1>1, <1>2, <1>3, <1>4

\* Joining keeps the order where the second part ranks above the first.
LEMMA RisingJoin ==
    ASSUME NEW q, NEW r, NEW a \in Nat, NEW b \in Nat, NEW c \in Nat, NEW d \in Nat,
           Rising(q, a, b), Rising(r, c, d), b < c, a <= c, b <= d
    PROVE  Rising(q \o r, a, d)
<1> DEFINE w == q \o r
           n == Len(q)
<1>1. q \in Seq(StageNames) /\ r \in Seq(StageNames)
  BY DEF Rising
<1>2. /\ w \in Seq(StageNames) /\ n \in Nat /\ Len(r) \in Nat /\ Len(w) = n + Len(r)
      /\ \A i \in 1 .. n : w[i] = q[i]
      /\ \A i \in 1 .. Len(w) : i \notin 1 .. n => i - n \in 1 .. Len(r) /\ w[i] = r[i - n]
  BY <1>1, Joined
<1>3. \A i \in 1 .. n : /\ a <= Rank(w[i]) /\ Rank(w[i]) <= b /\ Rank(w[i]) \in Nat
                        /\ w[i] = q[i]
  <2> TAKE i \in 1 .. n
  <2>1. q[i] \in StageNames
    BY <1>1, ElementOfSeq
  <2>2. QED
    BY <1>2, <2>1, RankType DEF Rising
<1>4. \A i \in 1 .. Len(w) : i \notin 1 .. n =>
         /\ c <= Rank(w[i]) /\ Rank(w[i]) <= d /\ Rank(w[i]) \in Nat
         /\ i - n \in 1 .. Len(r) /\ w[i] = r[i - n]
  <2> TAKE i \in 1 .. Len(w)
  <2> HAVE i \notin 1 .. n
  <2>1. i - n \in 1 .. Len(r) /\ w[i] = r[i - n]
    BY <1>2
  <2>2. r[i - n] \in StageNames
    BY <1>1, <2>1, ElementOfSeq
  <2>3. QED
    BY <2>1, <2>2, RankType, SMTT(60) DEF Rising
<1> HIDE DEF w, n
<1>5. \A i \in 1 .. Len(w) : a <= Rank(w[i]) /\ Rank(w[i]) <= d
  BY <1>3, <1>4
<1>6. ASSUME NEW i \in 1 .. Len(w), NEW j \in 1 .. Len(w), i < j
      PROVE  Rank(w[i]) < Rank(w[j])
  <2>1. CASE j \in 1 .. n
    <3>1. i \in 1 .. n
      BY <1>2, <1>6, <2>1
    <3>2. Rank(q[i]) < Rank(q[j])
      BY <1>6, <2>1, <3>1 DEF Rising, n
    <3>3. QED
      BY <1>3, <2>1, <3>1, <3>2
  <2>2. CASE j \notin 1 .. n /\ i \in 1 .. n
    BY <1>3, <1>4, <2>2
  <2>3. CASE j \notin 1 .. n /\ i \notin 1 .. n
    <3>1. /\ i - n \in 1 .. Len(r) /\ j - n \in 1 .. Len(r) /\ w[i] = r[i - n] /\ w[j] = r[j - n]
      BY <1>4, <2>3
    <3>2. i - n < j - n
      BY <1>2, <1>6
    <3>3. QED
      BY <3>1, <3>2 DEF Rising
  <2>4. QED
    BY <2>1, <2>2, <2>3
<1>7. QED
  BY <1>2, <1>5, <1>6 DEF Rising, w

\* Leaving a part out keeps the order.
LEMMA RisingOpt ==
    ASSUME NEW q, NEW a \in Nat, NEW b \in Nat, NEW c \in BOOLEAN, Rising(q, a, b)
    PROVE  Rising(Opt(c, q), a, b)
<1>1. Rising(<< >>, a, b)
  BY DEF Rising
<1>2. QED
  BY <1>1 DEF Opt

\* Allowing more ranks keeps the order.
LEMMA RisingIn ==
    ASSUME NEW q, NEW a \in 0 .. 10, NEW b \in 0 .. 10, NEW c \in 0 .. 10, NEW d \in 0 .. 10,
           Rising(q, a, b), c <= a, b <= d
    PROVE  Rising(q, c, d)
<1>1. q \in Seq(StageNames)
  BY DEF Rising
<1>2. ASSUME NEW i \in 1 .. Len(q)
      PROVE  c <= Rank(q[i]) /\ Rank(q[i]) <= d
  <2>1. Rank(q[i]) \in 0 .. 10
    BY <1>1, ElementOfSeq, RankType
  <2>2. QED
    BY <2>1, SMTT(60) DEF Rising
<1>3. QED
  BY <1>1, <1>2 DEF Rising

\* The parts a route is put together from.
LEMMA StageParts ==
    /\ Rising(<<"dns", "tcp">>, 0, 2) /\ Rising(<<"tcp">>, 2, 2) /\ Rising(<<"dial">>, 2, 2)
    /\ Rising(<<"proxyTls">>, 3, 3) /\ Rising(<<"tls">>, 8, 8) /\ Rising(<<"command", "reply", "tls">>, 6, 8)
    /\ Rising(<<"write", "read">>, 9, 10) /\ Rising(<<"tcp", "greet">>, 2, 4) /\ Rising(<<"auth">>, 5, 5)
    /\ Rising(<<"resolve">>, 1, 1) /\ Rising(<<"command", "reply">>, 6, 7)
<1>1. \A x \in StageNames : Rising(<< x >>, Rank(x), Rank(x))
  <2> TAKE x \in StageNames
  <2>1. Rank(x) \in 0 .. 10
    BY RankType
  <2>2. << x >> \in Seq(StageNames) /\ Len(<< x >>) = 1 /\ << x >>[1] = x
    OBVIOUS
  <2>3. QED
    BY <2>1, <2>2 DEF Rising
<1>2. \A x, y \in StageNames : Rank(x) < Rank(y) => Rising(<< x, y >>, Rank(x), Rank(y))
  <2> TAKE x, y \in StageNames
  <2> HAVE Rank(x) < Rank(y)
  <2> DEFINE q == << x, y >>
  <2>1. Rank(x) \in 0 .. 10 /\ Rank(y) \in 0 .. 10
    BY RankType
  <2>2. q \in Seq(StageNames) /\ Len(q) = 2 /\ q[1] = x /\ q[2] = y
    OBVIOUS
  <2> HIDE DEF q
  <2>3. \A i \in 1 .. Len(q) : i = 1 \/ i = 2
    BY <2>2
  <2>4. \A i, j \in 1 .. Len(q) : i < j => i = 1 /\ j = 2
    BY <2>2
  <2>5. QED
    BY <2>1, <2>2, <2>3, <2>4 DEF Rising, q
<1>3. Rising(<<"command", "reply", "tls">>, 6, 8)
  <2> DEFINE q == <<"command", "reply", "tls">>
  <2>1. q \in Seq(StageNames) /\ Len(q) = 3 /\ q[1] = "command" /\ q[2] = "reply" /\ q[3] = "tls"
    BY DEF StageNames
  <2>2. Rank("command") = 6 /\ Rank("reply") = 7 /\ Rank("tls") = 8
    BY DEF Rank
  <2> HIDE DEF q
  <2>3. \A i \in 1 .. Len(q) : i = 1 \/ i = 2 \/ i = 3
    BY <2>1
  <2>4. QED
    BY <2>1, <2>2, <2>3 DEF Rising, q
<1>4. /\ Rank("dns") = 0 /\ Rank("tcp") = 2 /\ Rank("dial") = 2 /\ Rank("proxyTls") = 3 /\ Rank("tls") = 8
      /\ Rank("write") = 9 /\ Rank("read") = 10 /\ Rank("greet") = 4 /\ Rank("auth") = 5
      /\ Rank("resolve") = 1 /\ Rank("command") = 6 /\ Rank("reply") = 7
  BY DEF Rank
<1>5. {"dns", "tcp", "dial", "proxyTls", "tls", "write", "read", "greet", "auth", "resolve", "command",
       "reply"} \subseteq StageNames
  BY DEF StageNames
<1>6. /\ Rising(<<"tcp">>, 2, 2) /\ Rising(<<"dial">>, 2, 2) /\ Rising(<<"proxyTls">>, 3, 3)
      /\ Rising(<<"tls">>, 8, 8) /\ Rising(<<"auth">>, 5, 5) /\ Rising(<<"resolve">>, 1, 1)
  BY <1>1, <1>4, <1>5
<1>7. Rising(<<"dns", "tcp">>, 0, 2) /\ Rising(<<"write", "read">>, 9, 10)
      /\ Rising(<<"tcp", "greet">>, 2, 4) /\ Rising(<<"command", "reply">>, 6, 7)
  BY <1>2, <1>4, <1>5
<1>8. QED
  BY <1>3, <1>6, <1>7

\* What a route opens with it opens with however it goes on.
LEMMA OpeningJoin ==
    ASSUME NEW q \in Seq(StageNames), NEW r \in Seq(StageNames), Opening(q)
    PROVE  Opening(q \o r) /\ (q \o r)[1] = q[1]
<1> DEFINE w == q \o r
<1>1. Len(q) \in Nat /\ Len(r) \in Nat /\ Len(w) = Len(q) + Len(r) /\ \A i \in 1 .. Len(q) : w[i] = q[i]
  BY Joined
<1>2. 1 \in 1 .. Len(q) /\ (Len(q) > 1 => 2 \in 1 .. Len(q))
  BY <1>1 DEF Opening
<1> HIDE DEF w
<1>3. w[1] = q[1] /\ (Len(q) > 1 => w[2] = q[2])
  BY <1>1, <1>2
<1>4. Len(w) > 0 /\ (Len(q) > 1 => Len(w) > 1)
  BY <1>1, <1>2
<1>5. QED
  BY <1>3, <1>4 DEF Opening, w

\* Both at once.
LEMMA RouteJoin ==
    ASSUME NEW q, NEW r, NEW a \in Nat, NEW b \in Nat, NEW c \in Nat, NEW d \in Nat,
           Rising(q, a, b), Opening(q), Rising(r, c, d), b < c, a <= c, b <= d
    PROVE  Rising(q \o r, a, d) /\ Opening(q \o r) /\ (q \o r)[1] = q[1]
<1>1. q \in Seq(StageNames) /\ r \in Seq(StageNames)
  BY DEF Rising
<1>2. Rising(q \o r, a, d)
  BY RisingJoin
<1>3. QED
  BY <1>1, <1>2, OpeningJoin

\* The dialling parts open a connection.
LEMMA OpeningParts ==
    /\ Opening(<<"tcp">>) /\ Opening(<<"dial">>) /\ Opening(<<"dns", "tcp">>) /\ Opening(<<"tcp", "greet">>)
BY DEF Opening, Rank

\* The routes of the connectors: in order, opening a connection at the beginning, and
\* again, as the first thing, in an attempt at the next target.
LEMMA StageFacts ==
    ASSUME plan \in Plan, Dispatchable(plan)
    PROVE  /\ Rising(Stages, 0, 10) /\ Opening(Stages)
           /\ FirstOfAttempt \in 1 .. Len(Stages) /\ Rank(Stages[FirstOfAttempt]) <= 2
<1>0. /\ plan.tls \in BOOLEAN /\ plan.proxyTls \in BOOLEAN /\ plan.auth \in BOOLEAN /\ plan.localDns \in BOOLEAN
      /\ plan.cached \in BOOLEAN /\ plan.route \in Routes
  BY DEF Plan
<1>1. /\ Rising(Opt(plan.tls, <<"tls">>), 8, 8) /\ Rising(Opt(plan.proxyTls, <<"proxyTls">>), 3, 3)
      /\ Rising(Opt(plan.auth, <<"auth">>), 5, 5)
  BY <1>0, StageParts, RisingOpt
<1> DEFINE T == Opt(plan.tls, <<"tls">>)
           X == Opt(plan.proxyTls, <<"proxyTls">>)
           A == Opt(plan.auth, <<"auth">>)
<1> HIDE DEF T, X, A
<1>2. Rising(DirectStages, 0, 8) /\ Opening(DirectStages)
  <2>1. Rising(<<"dns", "tcp">> \o T, 0, 8) /\ Opening(<<"dns", "tcp">> \o T)
    <3>1. Rising(<<"dns", "tcp">>, 0, 2) /\ Opening(<<"dns", "tcp">>) /\ Rising(T, 8, 8)
      BY <1>1, StageParts, OpeningParts DEF T
    <3>2. QED
      BY <3>1, RouteJoin
  <2>2. QED
    BY <2>1 DEF DirectStages, T
<1>3. Rising(UdsStages, 2, 8) /\ Opening(UdsStages)
  <2>1. Rising(<<"tcp">> \o T, 2, 8) /\ Opening(<<"tcp">> \o T)
    <3>1. Rising(<<"tcp">>, 2, 2) /\ Opening(<<"tcp">>) /\ Rising(T, 8, 8)
      BY <1>1, StageParts, OpeningParts DEF T
    <3>2. QED
      BY <3>1, RouteJoin
  <2>2. QED
    BY <2>1 DEF UdsStages, T
<1>4. Rising(DialerStages, 2, 8) /\ Opening(DialerStages)
  <2>1. Rising(<<"dial">> \o T, 2, 8) /\ Opening(<<"dial">> \o T)
    <3>1. Rising(<<"dial">>, 2, 2) /\ Opening(<<"dial">>) /\ Rising(T, 8, 8)
      BY <1>1, StageParts, OpeningParts DEF T
    <3>2. QED
      BY <3>1, RouteJoin
  <2>2. QED
    BY <2>1 DEF DialerStages, T
<1>5. Rising(connect_to_proxy, 2, 3) /\ Opening(connect_to_proxy)
  <2>1. Rising(<<"tcp">> \o X, 2, 3) /\ Opening(<<"tcp">> \o X)
    <3>1. Rising(<<"tcp">>, 2, 2) /\ Opening(<<"tcp">>) /\ Rising(X, 3, 3)
      BY <1>1, StageParts, OpeningParts DEF X
    <3>2. QED
      BY <3>1, RouteJoin
  <2>2. QED
    BY <2>1 DEF connect_to_proxy, X
<1>6. Rising(establish_https_tunnel, 2, 8) /\ Opening(establish_https_tunnel)
  <2>1. Rising(<<"command", "reply", "tls">>, 6, 8)
    BY StageParts
  <2>2. Rising(connect_to_proxy \o <<"command", "reply", "tls">>, 2, 8)
        /\ Opening(connect_to_proxy \o <<"command", "reply", "tls">>)
    BY <1>5, <2>1, RouteJoin
  <2>3. QED
    BY <2>2 DEF establish_https_tunnel
<1>7. Rising(send_https_connect_request_once, 2, 10) /\ Opening(send_https_connect_request_once)
  <2>1. Rising(<<"write", "read">>, 9, 10)
    BY StageParts
  <2>2. Rising(establish_https_tunnel \o <<"write", "read">>, 2, 10)
        /\ Opening(establish_https_tunnel \o <<"write", "read">>)
    BY <1>6, <2>1, RouteJoin
  <2>3. QED
    BY <2>2 DEF send_https_connect_request_once
<1>8. /\ Rising(establish_socks_proxy_connection, 2, 5) /\ Opening(establish_socks_proxy_connection)
      /\ Rank(establish_socks_proxy_connection[1]) = 2
  <2>1. /\ Rising(<<"tcp", "greet">> \o A, 2, 5) /\ Opening(<<"tcp", "greet">> \o A)
        /\ (<<"tcp", "greet">> \o A)[1] = "tcp"
    <3>1. Rising(<<"tcp", "greet">>, 2, 4) /\ Opening(<<"tcp", "greet">>) /\ Rising(A, 5, 5)
      BY <1>1, StageParts, OpeningParts DEF A
    <3>2. <<"tcp", "greet">>[1] = "tcp"
      OBVIOUS
    <3>3. QED
      BY <3>1, <3>2, RouteJoin
  <2>2. Rank("tcp") = 2
    BY DEF Rank
  <2>3. QED
    BY <2>1, <2>2 DEF establish_socks_proxy_connection, A
<1> DEFINE E == establish_socks_proxy_connection
           R == resolve_dest_ips
<1>9. /\ Rising(R \o E, 1, 5) /\ Opening(R \o E)
      /\ plan.localDns => (R \o E)[1] = "resolve"
  <2>1. CASE ~plan.localDns
    <3>1. R = << >>
      BY <2>1 DEF resolve_dest_ips, Opt
    <3>2. E \in Seq(StageNames)
      BY <1>8 DEF Rising
    <3>3. R \o E = E
      BY <3>1, <3>2, ConcatEmptySeq
    <3>4. Rising(E, 1, 5)
      <4>1. Rising(E, 2, 5)
        BY <1>8
      <4>2. QED
        BY <4>1, RisingIn
    <3>5. QED
      BY <1>8, <2>1, <3>3, <3>4
  <2>2. CASE plan.localDns
    <3>1. R = <<"resolve">> /\ Rising(<<"resolve">>, 1, 1)
      BY <2>2, StageParts DEF resolve_dest_ips, Opt
    <3>2. Rising(R, 1, 1) /\ Rising(E, 2, 5)
      BY <1>8, <3>1
    <3> HIDE DEF E
    <3>3. Rising(R \o E, 1, 5)
      BY <3>2, RisingJoin
    <3>4. Len(R) = 1 /\ R[1] = "resolve"
      BY <3>1
    <3> HIDE DEF R
    <3>5. R \in Seq(StageNames) /\ E \in Seq(StageNames) /\ Len(E) \in Nat /\ Len(E) > 0 /\ Rank(E[1]) = 2
      BY <1>8, <3>2 DEF Rising, Opening, E
    <3> DEFINE w == R \o E
    <3>6. /\ Len(w) = Len(R) + Len(E)
          /\ \A i \in 1 .. Len(R) : w[i] = R[i]
          /\ \A i \in 1 .. Len(w) : i \notin 1 .. Len(R) => i - Len(R) \in 1 .. Len(E) /\ w[i] = E[i - Len(R)]
      BY <3>5, Joined
    <3> HIDE DEF w
    <3>7. Len(w) > 1 /\ w[1] = "resolve" /\ w[2] = E[1]
      <4>1. 1 \in 1 .. Len(R) /\ 2 \in 1 .. Len(w) /\ 2 \notin 1 .. Len(R) /\ 2 - Len(R) = 1
        BY <3>4, <3>5, <3>6
      <4>2. QED
        BY <3>4, <3>5, <3>6, <4>1
    <3>8. Opening(w)
      <4>1. Rank("resolve") = 1 /\ Len(w) > 0
        BY <3>4, <3>5, <3>6 DEF Rank
      <4>2. QED
        BY <3>5, <3>7, <4>1 DEF Opening
    <3>9. QED
      BY <3>3, <3>7, <3>8 DEF w
  <2>3. QED
    BY <1>0, <2>1, <2>2
<1>10. /\ Rising(socks5_handshake, 1, 7) /\ Opening(socks5_handshake)
       /\ plan.localDns => socks5_handshake[1] = "resolve"
  <2> DEFINE w == R \o E
  <2>1. Rising(<<"command", "reply">>, 6, 7) /\ Rising(w, 1, 5) /\ Opening(w)
    BY <1>9, StageParts
  <2> HIDE DEF w
  <2>2. /\ Rising(w \o <<"command", "reply">>, 1, 7) /\ Opening(w \o <<"command", "reply">>)
        /\ (w \o <<"command", "reply">>)[1] = w[1]
    BY <2>1, RouteJoin
  <2>3. QED
    BY <1>9, <2>2 DEF socks5_handshake, w
<1>11. /\ Rising(SocksStages, 1, 8) /\ Opening(SocksStages)
       /\ plan.localDns => SocksStages[1] = "resolve"
  <2>1. Rising(T, 8, 8) /\ Rising(socks5_handshake, 1, 7) /\ Opening(socks5_handshake)
    BY <1>1, <1>10 DEF T
  <2>2. \A q : Rising(q, 1, 7) /\ Opening(q) => Rising(q \o T, 1, 8) /\ Opening(q \o T) /\ (q \o T)[1] = q[1]
    <3>1. 1 \in Nat /\ 7 \in Nat /\ 8 \in Nat /\ 7 < 8 /\ 1 <= 8 /\ 7 <= 8
      OBVIOUS
    <3>2. TAKE q
    <3>3. HAVE Rising(q, 1, 7) /\ Opening(q)
    <3>4. Rising(T, 8, 8)
      BY <2>1
    <3>5. Rising(q \o T, 1, 8)
      BY <3>1, <3>3, <3>4, RisingJoin
    <3>6. q \in Seq(StageNames) /\ T \in Seq(StageNames)
      BY <3>3, <3>4 DEF Rising
    <3>7. QED
      BY <3>3, <3>5, <3>6, OpeningJoin
  <2>3. /\ Rising(socks5_handshake \o T, 1, 8) /\ Opening(socks5_handshake \o T)
        /\ (socks5_handshake \o T)[1] = socks5_handshake[1]
    BY <2>1, <2>2
  <2>4. QED
    BY <1>10, <2>3 DEF SocksStages, T
<1> HIDE DEF E, R
<1>12. /\ Stages \in {DirectStages, UdsStages, DialerStages, connect_to_proxy, establish_https_tunnel,
                      send_https_connect_request_once, SocksStages}
       /\ plan.route = "socks" => Stages = SocksStages
  BY <1>0 DEF Stages, Routes, ForwardStages, ConnectStages
<1>13. Rising(Stages, 0, 10) /\ Opening(Stages)
  <2>1. /\ Rising(DirectStages, 0, 10) /\ Rising(UdsStages, 0, 10) /\ Rising(DialerStages, 0, 10)
        /\ Rising(connect_to_proxy, 0, 10) /\ Rising(establish_https_tunnel, 0, 10)
        /\ Rising(send_https_connect_request_once, 0, 10) /\ Rising(SocksStages, 0, 10)
    BY <1>2, <1>3, <1>4, <1>5, <1>6, <1>7, <1>11, RisingIn
  <2>2. QED
    BY <1>2, <1>3, <1>4, <1>5, <1>6, <1>7, <1>11, <1>12, <2>1
<1>14. FirstOfAttempt \in 1 .. Len(Stages) /\ Rank(Stages[FirstOfAttempt]) <= 2
  <2>1. Stages \in Seq(StageNames) /\ Len(Stages) \in Nat
    BY <1>13 DEF Rising
  <2>2. CASE ~plan.localDns
    <3>1. FirstOfAttempt = 1
      BY <2>2 DEF FirstOfAttempt, resolve_dest_ips, Opt
    <3>2. 1 \in 1 .. Len(Stages) /\ (Rank(Stages[1]) = 2 \/ Rank(Stages[1]) < 2)
      BY <1>13, <2>1 DEF Opening
    <3>3. Rank(Stages[1]) \in 0 .. 10
      BY <2>1, <3>2, ElementOfSeq, RankType
    <3>4. QED
      BY <3>1, <3>2, <3>3
  <2>3. CASE plan.localDns
    <3>1. FirstOfAttempt = 2
      BY <2>3 DEF FirstOfAttempt, resolve_dest_ips, Opt
    <3>2. Stages[1] = "resolve" /\ Rank("resolve") = 1
      BY <1>11, <1>12, <2>3 DEF Dispatchable, Rank
    <3>3. Len(Stages) > 1 /\ Rank(Stages[2]) = 2
      BY <1>13, <3>2 DEF Opening
    <3>4. QED
      BY <2>1, <3>1, <3>3
  <2>4. QED
    BY <1>0, <2>2, <2>3
<1>15. QED
  BY <1>13, <1>14

\* A stage with its neighbours: nothing but the lookups comes before the dialling, and
\* after it every stage ranks higher.
LEMMA NextStage ==
    ASSUME plan \in Plan, Dispatchable(plan), NEW n \in 1 .. Len(Stages)
    PROVE  /\ Stages[n] \in StageNames /\ Rank(Stages[n]) \in 0 .. 10 /\ Len(Stages) \in Nat
           /\ Rank(Stages[1]) <= 2 /\ 1 \in 1 .. Len(Stages)
           /\ n < Len(Stages) =>
                 /\ n + 1 \in 1 .. Len(Stages) /\ Stages[n + 1] \in StageNames
                 /\ Rank(Stages[n]) < Rank(Stages[n + 1])
                 /\ Rank(Stages[n]) < 2 => Rank(Stages[n + 1]) = 2
<1> DEFINE S == Stages
<1>1. Rising(S, 0, 10) /\ Opening(S)
  BY StageFacts
<1> HIDE DEF S
<1>2. S \in Seq(StageNames) /\ Len(S) \in Nat /\ n \in 1 .. Len(S)
  BY <1>1 DEF Rising, S
<1>3. \A i \in 1 .. Len(S) : S[i] \in StageNames /\ Rank(S[i]) \in 0 .. 10
  BY <1>2, ElementOfSeq, RankType
<1>4. Len(S) > 0 /\ (Rank(S[1]) = 2 \/ (Rank(S[1]) < 2 /\ Len(S) > 1 /\ Rank(S[2]) = 2))
  BY <1>1 DEF Opening
<1>5. \A i, j \in 1 .. Len(S) : i < j => Rank(S[i]) < Rank(S[j])
  BY <1>1 DEF Rising
<1>6. 1 \in 1 .. Len(S) /\ Rank(S[1]) <= 2
  BY <1>2, <1>3, <1>4
<1>7. ASSUME n < Len(S)
      PROVE  /\ n + 1 \in 1 .. Len(S) /\ S[n + 1] \in StageNames /\ Rank(S[n]) < Rank(S[n + 1])
             /\ Rank(S[n]) < 2 => Rank(S[n + 1]) = 2
  <2>1. n + 1 \in 1 .. Len(S) /\ n < n + 1
    BY <1>2, <1>7
  <2>2. S[n + 1] \in StageNames /\ Rank(S[n]) < Rank(S[n + 1])
    BY <1>2, <1>3, <1>5, <2>1
  <2>3. ASSUME Rank(S[n]) < 2
        PROVE  Rank(S[n + 1]) = 2
    <3>1. CASE n = 1
      BY <1>4, <2>3, <3>1
    <3>2. CASE n # 1
      <4>1. n = 2 \/ 2 < n
        BY <1>2, <3>2
      <4>2. 1 < n /\ 2 \in 1 .. Len(S)
        BY <1>2, <3>2
      <4>3. Rank(S[1]) < Rank(S[n]) /\ (2 < n => Rank(S[2]) < Rank(S[n]))
        BY <1>2, <1>5, <1>6, <4>2
      <4>4. Rank(S[1]) \in 0 .. 10 /\ Rank(S[2]) \in 0 .. 10 /\ Rank(S[n]) \in 0 .. 10
        BY <1>2, <1>3, <1>6, <4>2
      <4>5. QED
        BY <1>4, <2>3, <4>1, <4>3, <4>4
    <3>3. QED
      BY <3>1, <3>2
  <2>4. QED
    BY <2>1, <2>2, <2>3
<1>8. QED
  BY <1>2, <1>3, <1>6, <1>7 DEF S

\* A request on its way, with its counters unbounded.
Ends == {"none", "open", "response", "conflict", "unsupported", "rejected", "refused", "failed", "timeout",
         "total"}
TunnelFields ==
    [stage : Nat, target : Nat, attempted : Nat, refused : Nat, skipped : Nat, conn : Nat,
     dead : SUBSET Nat, written : [1 .. MaxTargets -> SUBSET Written],
     commands : [1 .. MaxTargets -> Nat], now : Nat, limit : Nat, sends : Nat, result : Ends]

\* No connection is numbered beyond the target it was made for; those that are done with
\* are known; none has carried two commands, and none to come has carried any.
TunnelCore(s) ==
    /\ s.target \in 1 .. plan.targets /\ s.conn <= s.target
    /\ s.dead \subseteq 1 .. s.conn
    /\ \A c \in 1 .. MaxTargets : s.commands[c] <= 1 /\ (c > s.conn => s.commands[c] = 0)
    /\ s.sends <= 1

\* What has happened when the stage numbered n begins: a new connection is due up to the
\* dialling and is there after it, its command is due up to "command", the request up to
\* "write".
Fits(s, n) ==
    LET r == Rank(Stages[n])
    IN  /\ r <= 2 => (s.conn = 0 \/ s.conn \in s.dead) /\ s.conn < s.target
        /\ r > 2 => s.conn # 0 /\ s.conn \notin s.dead
        /\ r <= 6 => (s.conn = 0 \/ s.conn \in s.dead \/ s.commands[s.conn] = 0)
        /\ r <= 9 => s.sends = 0

TunnelOK(s) ==
    /\ s \in TunnelFields
    /\ TunnelCore(s)
    /\ s.stage = 0 /\ s.result = "none" => s.conn = 0 /\ s.sends = 0
    /\ s.stage # 0 => s.result = "none" /\ s.stage \in 1 .. Len(Stages) /\ Fits(s, s.stage)

TunnelInv == plan \in Plan /\ Dispatchable(plan) /\ TunnelOK(tn)

\* Giving up, or handing the connection over, ends the request and leaves the rest alone.
LEMMA TunnelEnds ==
    ASSUME NEW s \in TunnelFields, TunnelCore(s), NEW r \in Ends \ {"none"}
    PROVE  TunnelOK([s EXCEPT !.result = r, !.stage = 0, !.limit = NoTime])
<1> DEFINE w == [s EXCEPT !.result = r, !.stage = 0, !.limit = NoTime]
<1>1. NoTime \in Nat
  BY TunnelAssumption DEF NoTime
<1> HIDE DEF w
<1>2. w \in TunnelFields
  BY <1>1 DEF TunnelFields, w
<1>3. /\ w.target = s.target /\ w.conn = s.conn /\ w.dead = s.dead /\ w.commands = s.commands
      /\ w.sends = s.sends /\ w.stage = 0 /\ w.result = r
  BY DEF TunnelFields, w
<1>4. TunnelCore(w)
  BY <1>3 DEF TunnelCore
<1>5. QED
  BY <1>2, <1>3, <1>4 DEF TunnelOK, w

\* A stage that fits what has happened may begin; a deadline that is over ends the
\* request instead.
LEMMA TunnelEnters ==
    ASSUME plan \in Plan, NEW s \in TunnelFields, TunnelCore(s), s.result = "none",
           NEW n \in 1 .. Len(Stages), n # 0, n \in Nat, Fits(s, n)
    PROVE  TunnelOK(EnterStage(s, n))
<1>1. CASE ~plan.cached /\ plan.deadline <= s.now
  <2>1. EnterStage(s, n) = [s EXCEPT !.result = "total", !.stage = 0, !.limit = NoTime]
    BY <1>1 DEF EnterStage
  <2>2. "total" \in Ends \ {"none"}
    BY DEF Ends
  <2>3. QED
    BY <2>1, <2>2, TunnelEnds, ZenonT(60)
<1>2. CASE ~(~plan.cached /\ plan.deadline <= s.now)
  <2> DEFINE l == LimitFor(s, n)
             a == IF n = FirstOfAttempt THEN 0 ELSE s.attempted
             b == IF n = FirstOfAttempt THEN 0 ELSE s.refused
             c == IF n = FirstOfAttempt THEN 0 ELSE s.skipped
             w == [s EXCEPT !.stage = n, !.limit = l, !.attempted = a, !.refused = b, !.skipped = c]
  <2>1. EnterStage(s, n) = w
    BY <1>2 DEF EnterStage
  <2>2. /\ plan.connect \in Nat /\ plan.io \in Nat /\ plan.deadline \in Nat /\ NoTime \in Nat
        /\ s.now \in Nat /\ s.limit \in Nat /\ s.attempted \in Nat /\ s.refused \in Nat /\ s.skipped \in Nat
    <3>1. NoTime \in Nat
      BY TunnelAssumption DEF NoTime
    <3>2. plan.connect \in 1 .. NoTime /\ plan.io \in 1 .. NoTime /\ plan.deadline \in 1 .. NoTime
      BY DEF Plan
    <3>3. /\ s.now \in Nat /\ s.limit \in Nat /\ s.attempted \in Nat /\ s.refused \in Nat
          /\ s.skipped \in Nat
      BY DEF TunnelFields
    <3>4. QED
      BY <3>1, <3>2, <3>3
  <2>3. l \in Nat
    <3>1. ConnectTimeout(s) \in Nat
      BY <2>2 DEF ConnectTimeout
    <3>2. \A x : Budget(x) \in Nat
      BY <2>2 DEF Budget
    <3>3. \A x \in Nat : effective_timeout(x, s.now) \in Nat
      BY <2>2 DEF effective_timeout, Earlier
    <3>4. QED
      BY <3>1, <3>2, <3>3 DEF LimitFor
  <2>4. a \in Nat /\ b \in Nat /\ c \in Nat
    BY <2>2
  <2> HIDE DEF l, a, b, c, w
  <2>5. w \in TunnelFields
    BY <2>3, <2>4 DEF TunnelFields, w
  <2>6. /\ w.target = s.target /\ w.conn = s.conn /\ w.dead = s.dead /\ w.commands = s.commands
        /\ w.sends = s.sends /\ w.stage = n /\ w.result = "none"
    BY DEF TunnelFields, w
  <2>7. TunnelCore(w) /\ Fits(w, n)
    BY <2>6 DEF TunnelCore, Fits
  <2>8. QED
    BY <2>1, <2>5, <2>6, <2>7 DEF TunnelOK
<1>3. QED
  BY <1>1, <1>2

\* What the steps leave alone.
LEMMA TunnelKeeps ==
    ASSUME TunnelOK(tn), NEW w \in TunnelFields, w.stage = tn.stage, w.target = tn.target,
           w.conn = tn.conn, w.dead = tn.dead, w.commands = tn.commands, w.sends = tn.sends,
           w.result = tn.result
    PROVE  TunnelOK(w)
<1>1. TunnelCore(w) /\ (Fits(tn, tn.stage) => Fits(w, w.stage))
  BY DEF TunnelOK, TunnelCore, Fits
<1>2. QED
  BY <1>1 DEF TunnelOK

\* A request that has reached a stage.
LEMMA TunnelRuns ==
    ASSUME TunnelInv, Running
    PROVE  /\ tn \in TunnelFields /\ TunnelCore(tn) /\ tn.result = "none"
           /\ tn.stage \in 1 .. Len(Stages) /\ Fits(tn, tn.stage)
           /\ tn.conn \in Nat /\ tn.target \in 1 .. MaxTargets /\ tn.sends \in Nat
           /\ plan.targets \in 1 .. MaxTargets
<1>1. tn.stage \in Nat /\ tn.conn \in Nat /\ tn.sends \in Nat
  BY DEF TunnelInv, TunnelOK, TunnelFields
<1>2. tn.stage # 0
  BY <1>1 DEF Running
<1>3. plan.targets \in 1 .. MaxTargets /\ MaxTargets \in Nat
  BY TunnelAssumption DEF TunnelInv, Plan
<1>4. QED
  BY <1>1, <1>2, <1>3 DEF TunnelInv, TunnelOK, TunnelCore, Running

\* A stage that is done is followed by the next one, or by the end.
LEMMA TunnelAdvances ==
    ASSUME TunnelInv, Running, NEW s \in TunnelFields, TunnelCore(s), s.result = "none",
           tn.stage < Len(Stages) => Fits(s, tn.stage + 1)
    PROVE  TunnelOK(Advance(s))
<1>0. plan \in Plan /\ Dispatchable(plan) /\ tn.stage \in 1 .. Len(Stages)
  BY TunnelRuns DEF TunnelInv
<1>1. CASE tn.stage < Len(Stages)
  <2>1. tn.stage + 1 \in 1 .. Len(Stages) /\ tn.stage + 1 # 0 /\ tn.stage + 1 \in Nat
    BY <1>0, <1>1, NextStage
  <2>2. Advance(s) = EnterStage(s, tn.stage + 1)
    BY <1>1 DEF Advance
  <2>3. QED
    BY <1>0, <1>1, <2>1, <2>2, TunnelEnters
<1>2. CASE ~(tn.stage < Len(Stages))
  <2> DEFINE r == IF plan.cached THEN "open" ELSE "response"
  <2>1. r \in Ends \ {"none"}
    BY DEF Ends
  <2>2. Advance(s) = [s EXCEPT !.result = r, !.stage = 0, !.limit = NoTime]
    BY <1>2 DEF Advance
  <2> HIDE DEF r
  <2>3. QED
    BY <2>1, <2>2, TunnelEnds
<1>3. QED
  BY <1>1, <1>2

\* What a stage on a connection leaves when it has written: its one command, its request.
LEMMA TunnelWrites ==
    ASSUME TunnelInv, Running, Stage \notin {"tcp", "dial", "dns", "resolve"}
    PROVE  LET s == Put(tn, Stage)
           IN  /\ s \in TunnelFields /\ TunnelCore(s) /\ s.result = "none"
               /\ tn.stage < Len(Stages) => Fits(s, tn.stage + 1)
<1> DEFINE x == Stage
           c == tn.conn
           wr == [tn.written EXCEPT ![c] = @ \cup Puts(x)]
           k == IF x = "command" THEN tn.commands[c] + 1 ELSE tn.commands[c]
           cm == [tn.commands EXCEPT ![c] = k]
           sn == IF x = "write" THEN tn.sends + 1 ELSE tn.sends
           s == [tn EXCEPT !.written = wr, !.commands = cm, !.sends = sn]
           n == tn.stage
           r == Rank(x)
<1>1. Put(tn, Stage) = s
  BY DEF Put
<1>2. /\ tn \in TunnelFields /\ TunnelCore(tn) /\ tn.result = "none" /\ n \in 1 .. Len(Stages)
      /\ Fits(tn, n) /\ c \in Nat /\ tn.target \in 1 .. MaxTargets /\ tn.sends \in Nat
  BY TunnelRuns
<1>3. /\ x \in StageNames /\ r \in 0 .. 10 /\ r = Rank(Stages[n])
      /\ n < Len(Stages) => r < Rank(Stages[n + 1]) /\ Rank(Stages[n + 1]) \in 0 .. 10
  BY <1>2, NextStage, RankType DEF TunnelInv, Stage
<1>4. r > 2 /\ (x = "command" => r = 6) /\ (x = "write" => r = 9) /\ (x # "command" => r # 6)
      /\ (x # "write" => r # 9)
  <2>1. \A y \in StageNames : /\ y \notin {"tcp", "dial", "dns", "resolve"} => Rank(y) > 2
                             /\ (y = "command") = (Rank(y) = 6) /\ (y = "write") = (Rank(y) = 9)
    BY DEF StageNames, Rank
  <2>2. x \notin {"tcp", "dial", "dns", "resolve"}
    OBVIOUS
  <2> HIDE DEF x
  <2>3. QED
    BY <1>3, <2>1, <2>2
<1>5. /\ c # 0 /\ c \notin tn.dead /\ (r <= 6 => tn.commands[c] = 0) /\ (r <= 9 => tn.sends = 0)
      /\ c <= tn.target /\ tn.sends <= 1
  <2>1. /\ Rank(Stages[n]) > 2 => c # 0 /\ c \notin tn.dead
        /\ Rank(Stages[n]) <= 6 => (c = 0 \/ c \in tn.dead \/ tn.commands[c] = 0)
        /\ Rank(Stages[n]) <= 9 => tn.sends = 0
    BY <1>2 DEF Fits
  <2>2. c <= tn.target /\ tn.sends <= 1
    BY <1>2 DEF TunnelCore
  <2>3. QED
    BY <1>3, <1>4, <2>1, <2>2
<1>6. c \in 1 .. MaxTargets
  BY <1>2, <1>5, TunnelAssumption
<1>7. tn.written \in [1 .. MaxTargets -> SUBSET Written] /\ tn.commands \in [1 .. MaxTargets -> Nat]
  BY <1>2 DEF TunnelFields
<1>8. Puts(x) \in SUBSET Written
  BY DEF Puts, negotiate_method, authenticate, encode_connect_request, write_proxy_request, Written
<1>9. wr \in [1 .. MaxTargets -> SUBSET Written]
  BY <1>6, <1>7, <1>8
<1>10. /\ cm \in [1 .. MaxTargets -> Nat] /\ cm[c] = (IF x = "command" THEN tn.commands[c] + 1 ELSE tn.commands[c])
       /\ \A d \in 1 .. MaxTargets : d # c => cm[d] = tn.commands[d]
  <2>1. tn.commands[c] \in Nat
    BY <1>6, <1>7
  <2>2. k \in Nat
    BY <2>1
  <2> HIDE DEF k, c
  <2>3. cm \in [1 .. MaxTargets -> Nat] /\ cm[c] = k /\ \A d \in 1 .. MaxTargets : d # c => cm[d] = tn.commands[d]
    BY <1>6, <1>7, <2>2
  <2>4. QED
    BY <2>3 DEF k
<1>11. sn \in Nat /\ sn <= 1 /\ (r < 9 => sn = 0)
  BY <1>2, <1>3, <1>4, <1>5
<1> HIDE DEF wr, cm, sn, x, c, r, n, s
<1>12. s \in TunnelFields
  BY <1>2, <1>9, <1>10, <1>11 DEF TunnelFields, s
<1>13. /\ s.target = tn.target /\ s.conn = c /\ s.dead = tn.dead /\ s.commands = cm /\ s.sends = sn
       /\ s.result = "none"
  BY <1>2 DEF TunnelFields, s, c
<1>14. /\ tn.target \in 1 .. plan.targets /\ tn.dead \subseteq 1 .. c
       /\ \A d \in 1 .. MaxTargets : tn.commands[d] <= 1 /\ (d > c => tn.commands[d] = 0)
  BY <1>2 DEF TunnelCore, c
<1>15. cm[c] <= 1 /\ (r # 6 => cm[c] = tn.commands[c])
  <2>1. tn.commands[c] \in Nat /\ tn.commands[c] <= 1
    BY <1>6, <1>7, <1>14
  <2>2. QED
    BY <1>4, <1>5, <1>10, <2>1, <1>3
<1>16. \A d \in 1 .. MaxTargets : cm[d] <= 1 /\ (d > c => cm[d] = 0)
  BY <1>2, <1>6, <1>10, <1>14, <1>15
<1>17. TunnelCore(s)
  BY <1>5, <1>11, <1>13, <1>14, <1>16 DEF TunnelCore
<1>18. ASSUME n < Len(Stages)
       PROVE  Fits(s, n + 1)
  <2> DEFINE q == Rank(Stages[n + 1])
  <2>1. q \in 0 .. 10 /\ r < q
    BY <1>3, <1>18
  <2>2. q > 2 /\ ~(q <= 2) /\ (q <= 6 => r # 6 /\ r <= 6) /\ (q <= 9 => r < 9)
    BY <1>3, <1>4, <2>1
  <2> HIDE DEF q
  <2>3. (q <= 6 => cm[c] = 0) /\ (q <= 9 => sn = 0)
    BY <1>5, <1>11, <1>15, <2>2
  <2>4. QED
    BY <1>5, <1>13, <2>2, <2>3 DEF Fits, q
<1>19. QED
  BY <1>1, <1>12, <1>13, <1>17, <1>18 DEF n

\* Each step of a request keeps the invariant.
LEMMA TunnelStep == TunnelInv /\ [TunnelNext]_tunnelVars => TunnelInv'
<1> SUFFICES ASSUME TunnelInv, [TunnelNext]_tunnelVars
             PROVE  TunnelInv'
  OBVIOUS
<1>0. /\ plan \in Plan /\ Dispatchable(plan) /\ TunnelOK(tn) /\ tn \in TunnelFields /\ TunnelCore(tn)
      /\ NoTime \in Nat /\ MaxTargets \in Nat
  BY TunnelAssumption DEF TunnelInv, TunnelOK, NoTime
<1>1. ASSUME plan' = plan, TunnelOK(tn')
      PROVE  TunnelInv'
  <2>1. Stages' = Stages
    BY <1>1 DEF Stages, DirectStages, UdsStages, DialerStages, ForwardStages, ConnectStages, connect_to_proxy,
                establish_https_tunnel, send_https_connect_request_once, establish_socks_proxy_connection,
                resolve_dest_ips, socks5_handshake, SocksStages, Opt
  <2>2. TunnelCore(tn)' /\ tn' \in TunnelFields
    BY <1>1 DEF TunnelOK, TunnelCore
  <2>3. tn'.stage # 0 => Fits(tn, tn.stage)'
    BY <1>1, <2>1 DEF TunnelOK, Fits
  <2>4. TunnelOK(tn)'
    BY <1>1, <2>1, <2>2, <2>3 DEF TunnelOK
  <2>5. (plan \in Plan /\ Dispatchable(plan))'
    BY <1>0, <1>1 DEF Dispatchable
  <2>6. QED
    BY <2>4, <2>5 DEF TunnelInv
<1>2. CASE UNCHANGED tunnelVars
  BY <1>0, <1>1, <1>2 DEF tunnelVars
<1>3. CASE StartRequest
  <2>1. plan' = plan /\ tn.stage = 0 /\ tn.result = "none" /\ tn.conn = 0 /\ tn.sends = 0
    BY <1>0, <1>3 DEF StartRequest, TunnelOK
  <2>2. CASE Refusal # "none"
    <3>1. Refusal \in Ends \ {"none"}
      BY <2>2 DEF Refusal, Ends
    <3>2. tn' = [tn EXCEPT !.result = Refusal, !.stage = 0, !.limit = NoTime]
      BY <1>3, <2>2 DEF StartRequest, End
    <3>3. QED
      BY <1>0, <1>1, <2>1, <3>1, <3>2, TunnelEnds
  <2>3. CASE ~(Refusal # "none")
    <3>1. tn' = EnterStage(tn, 1)
      BY <1>3, <2>3 DEF StartRequest
    <3>2. 1 \in 1 .. Len(Stages) /\ Rank(Stages[1]) <= 2 /\ Rank(Stages[1]) \in 0 .. 10
      <4>1. FirstOfAttempt \in 1 .. Len(Stages)
        BY <1>0, StageFacts
      <4>2. 1 \in 1 .. Len(Stages)
        BY <1>0, <4>1, NextStage
      <4>3. QED
        BY <1>0, <4>2, NextStage
    <3>3. 0 < tn.target
      BY <1>0 DEF TunnelCore
    <3>4. Fits(tn, 1)
      BY <2>1, <3>2, <3>3 DEF Fits
    <3>5. QED
      BY <1>0, <1>1, <2>1, <3>1, <3>2, <3>4, TunnelEnters
  <2>4. QED
    BY <2>2, <2>3
<1>4. CASE AddressConnects
  <2> DEFINE w == [tn EXCEPT !.conn = tn.conn + 1]
             n == tn.stage
  <2>1. plan' = plan /\ Running /\ Stage \in {"tcp", "dial"} /\ tn' = Advance(Opened(tn))
    BY <1>4 DEF AddressConnects, NextAddress, Dialling
  <2>2. /\ n \in 1 .. Len(Stages) /\ Fits(tn, n) /\ tn.conn \in Nat /\ tn.target \in 1 .. MaxTargets
        /\ tn.result = "none"
    BY <2>1, TunnelRuns
  <2>3. Rank(Stages[n]) = 2
    BY <2>1 DEF Stage, Rank
  <2>4. (tn.conn = 0 \/ tn.conn \in tn.dead) /\ tn.conn < tn.target /\ tn.sends = 0
    BY <2>2, <2>3 DEF Fits
  <2>5. Opened(tn) = w
    BY <2>4 DEF Opened
  <2> HIDE DEF w
  <2>6. w \in TunnelFields
    <3>1. tn.conn + 1 \in Nat
      BY <2>2
    <3>2. QED
      BY <1>0, <3>1 DEF TunnelFields, w
  <2>7. /\ w.target = tn.target /\ w.conn = tn.conn + 1 /\ w.dead = tn.dead /\ w.commands = tn.commands
        /\ w.sends = tn.sends /\ w.result = "none"
    BY <1>0, <2>2 DEF TunnelFields, w
  <2>8. tn.conn + 1 \in 1 .. MaxTargets /\ tn.conn + 1 > tn.conn /\ tn.conn + 1 <= tn.target /\ tn.conn + 1 # 0
    BY <1>0, <2>2, <2>4
  <2>9. /\ tn.target \in 1 .. plan.targets /\ tn.dead \subseteq 1 .. tn.conn
        /\ \A d \in 1 .. MaxTargets : tn.commands[d] <= 1 /\ (d > tn.conn => tn.commands[d] = 0)
    BY <1>0 DEF TunnelCore
  <2>10. tn.conn + 1 \notin tn.dead /\ tn.commands[tn.conn + 1] = 0 /\ tn.dead \subseteq 1 .. tn.conn + 1
    BY <2>2, <2>8, <2>9
  <2>11. \A d \in 1 .. MaxTargets : tn.commands[d] <= 1 /\ (d > tn.conn + 1 => tn.commands[d] = 0)
    BY <2>2, <2>9
  <2>12. TunnelCore(w)
    BY <2>4, <2>7, <2>8, <2>9, <2>10, <2>11 DEF TunnelCore
  <2>13. ASSUME n < Len(Stages) PROVE Fits(w, n + 1)
    <3>1. 2 < Rank(Stages[n + 1]) /\ Stages[n + 1] \in StageNames
      BY <1>0, <2>2, <2>3, <2>13, NextStage
    <3>2. ~(Rank(Stages[n + 1]) <= 2)
      BY <3>1, RankType
    <3>3. QED
      BY <2>4, <2>7, <2>8, <2>10, <3>1, <3>2 DEF Fits
  <2>14. QED
    BY <1>1, <2>1, <2>5, <2>6, <2>7, <2>12, <2>13, TunnelAdvances
<1>5. ASSUME NEW b \in BOOLEAN, AddressFails(b)
      PROVE  TunnelInv'
  <2> DEFINE x == tn.attempted + 1
             y == IF b THEN tn.refused + 1 ELSE tn.refused
  <2>1. plan' = plan /\ tn' = [tn EXCEPT !.attempted = x, !.refused = y]
    BY <1>5 DEF AddressFails
  <2>2. tn.attempted \in Nat /\ tn.refused \in Nat
    BY <1>0 DEF TunnelFields
  <2>3. x \in Nat /\ y \in Nat
    BY <2>2
  <2> HIDE DEF x, y
  <2>4. tn' \in TunnelFields
    BY <1>0, <2>1, <2>3 DEF TunnelFields
  <2>5. /\ tn'.stage = tn.stage /\ tn'.target = tn.target /\ tn'.conn = tn.conn /\ tn'.dead = tn.dead
        /\ tn'.commands = tn.commands /\ tn'.sends = tn.sends /\ tn'.result = tn.result
    BY <1>0, <2>1 DEF TunnelFields
  <2>6. QED
    BY <1>0, <1>1, <2>1, <2>4, <2>5, TunnelKeeps
<1>6. CASE AddressSkipped
  <2>1. plan' = plan /\ tn' = [tn EXCEPT !.skipped = tn.skipped + 1]
    BY <1>6 DEF AddressSkipped
  <2>2. tn.skipped + 1 \in Nat
    BY <1>0 DEF TunnelFields
  <2>3. tn' \in TunnelFields
    BY <1>0, <2>1, <2>2 DEF TunnelFields
  <2>4. /\ tn'.stage = tn.stage /\ tn'.target = tn.target /\ tn'.conn = tn.conn /\ tn'.dead = tn.dead
        /\ tn'.commands = tn.commands /\ tn'.sends = tn.sends /\ tn'.result = tn.result
    BY <1>0, <2>1 DEF TunnelFields
  <2>5. QED
    BY <1>0, <1>1, <2>1, <2>3, <2>4, TunnelKeeps
<1>7. ASSUME NEW r \in Ends \ {"none"}, plan' = plan, End(r)
      PROVE  TunnelInv'
  <2>1. tn' = [tn EXCEPT !.result = r, !.stage = 0, !.limit = NoTime]
    BY <1>7 DEF End
  <2>2. QED
    BY <1>0, <1>1, <1>7, <2>1, TunnelEnds
<1>8. {"refused", "failed", "rejected", "timeout", "total"} \subseteq Ends \ {"none"}
  BY DEF Ends
<1>9. CASE apply_socket_option
  BY <1>7, <1>8, <1>9 DEF apply_socket_option
<1>10. CASE AddressesExhausted
  <2>1. classify_tcp_failures(tn.attempted, tn.refused) \in {"refused", "failed"}
    BY DEF classify_tcp_failures
  <2>2. plan' = plan /\ End(classify_tcp_failures(tn.attempted, tn.refused))
    BY <1>10 DEF AddressesExhausted
  <2>3. QED
    BY <1>7, <1>8, <2>1, <2>2
<1>11. CASE StageSucceeds
  <2>1. plan' = plan /\ Running /\ Stage \notin {"tcp", "dial"} /\ tn' = Advance(Sent)
    BY <1>11 DEF StageSucceeds, Holding
  <2>2. CASE Stage \in {"dns", "resolve"}
    <3>1. /\ tn.stage \in 1 .. Len(Stages) /\ Fits(tn, tn.stage) /\ tn.result = "none"
      BY <2>1, TunnelRuns
    <3>2. Rank(Stages[tn.stage]) < 2 /\ Rank(Stages[tn.stage]) <= 2 /\ Rank(Stages[tn.stage]) <= 9
      <4>1. Rank("dns") = 0 /\ Rank("resolve") = 1
        BY DEF Rank
      <4>2. QED
        BY <2>2, <4>1 DEF Stage
    <3>3. ASSUME tn.stage < Len(Stages) PROVE Fits(tn, tn.stage + 1)
      <4>1. Rank(Stages[tn.stage + 1]) = 2
        BY <1>0, <3>1, <3>2, <3>3, NextStage
      <4>2. (tn.conn = 0 \/ tn.conn \in tn.dead) /\ tn.conn < tn.target /\ tn.sends = 0
        BY <3>1, <3>2 DEF Fits
      <4>3. QED
        BY <4>1, <4>2 DEF Fits
    <3>4. Sent = tn
      BY <2>2 DEF Sent
    <3>5. TunnelOK(Advance(tn))
      BY <1>0, <2>1, <3>1, <3>3, TunnelAdvances
    <3>6. QED
      BY <1>1, <2>1, <3>4, <3>5
  <2>3. CASE Stage \notin {"dns", "resolve"}
    <3> DEFINE s == Put(tn, Stage)
    <3>1. /\ s \in TunnelFields /\ TunnelCore(s) /\ s.result = "none"
          /\ tn.stage < Len(Stages) => Fits(s, tn.stage + 1)
      BY <2>1, <2>3, TunnelWrites
    <3>2. Sent = s
      BY <2>3 DEF Sent
    <3> HIDE DEF s
    <3>3. QED
      BY <1>1, <2>1, <3>1, <3>2, TunnelAdvances
  <2>4. QED
    BY <2>2, <2>3
<1>12. CASE StageFails
  <2>1. plan' = plan /\ Running /\ Stage \notin {"tcp", "dial"}
        /\ tn' = [Sent EXCEPT !.result = "failed", !.stage = 0, !.limit = NoTime]
    BY <1>12 DEF StageFails, Holding, AttemptFails, target_failure_may_retry
  <2>2. Sent \in TunnelFields /\ TunnelCore(Sent)
    <3>1. CASE Stage \in {"dns", "resolve"}
      BY <1>0, <3>1 DEF Sent
    <3>2. CASE Stage \notin {"dns", "resolve"}
      <4>1. Put(tn, Stage) \in TunnelFields /\ TunnelCore(Put(tn, Stage))
        BY <2>1, <3>2, TunnelWrites
      <4>2. QED
        BY <3>2, <4>1 DEF Sent
    <3>3. QED
      BY <3>1, <3>2
  <2>3. QED
    BY <1>1, <1>8, <2>1, <2>2, TunnelEnds
<1>13. CASE LookupFails
  <2> DEFINE w == [tn EXCEPT !.target = plan.targets]
             n == tn.stage
  <2>1. plan' = plan /\ Running /\ Stage = "resolve" /\ tn' = Advance(w)
    BY <1>13 DEF LookupFails
  <2>2. /\ n \in 1 .. Len(Stages) /\ Fits(tn, n) /\ tn.result = "none" /\ tn.conn \in Nat
        /\ tn.target \in 1 .. MaxTargets /\ plan.targets \in 1 .. MaxTargets
    BY <2>1, TunnelRuns
  <2>3. Rank(Stages[n]) = 1
    BY <2>1 DEF Stage, Rank
  <2>4. (tn.conn = 0 \/ tn.conn \in tn.dead) /\ tn.conn < tn.target /\ tn.sends = 0
    BY <2>2, <2>3 DEF Fits
  <2>5. tn.target <= plan.targets
    BY <1>0, <2>2 DEF TunnelCore
  <2> HIDE DEF w
  <2>6. w \in TunnelFields
    <3>1. plan.targets \in Nat
      BY <2>2
    <3>2. QED
      BY <1>0, <3>1 DEF TunnelFields, w
  <2>7. /\ w.target = plan.targets /\ w.conn = tn.conn /\ w.dead = tn.dead /\ w.commands = tn.commands
        /\ w.sends = tn.sends /\ w.result = "none"
    BY <1>0, <2>2 DEF TunnelFields, w
  <2>8. plan.targets \in 1 .. plan.targets /\ tn.conn <= plan.targets /\ tn.conn < plan.targets
    BY <1>0, <2>2, <2>4, <2>5
  <2>9. TunnelCore(w)
    BY <1>0, <2>7, <2>8 DEF TunnelCore
  <2>10. ASSUME n < Len(Stages) PROVE Fits(w, n + 1)
    <3>1. Rank(Stages[n + 1]) = 2
      BY <1>0, <2>2, <2>3, <2>10, NextStage
    <3>2. QED
      BY <2>4, <2>7, <2>8, <3>1 DEF Fits
  <2>11. QED
    BY <1>1, <2>1, <2>2, <2>6, <2>7, <2>9, <2>10, TunnelAdvances
<1>14. ASSUME NEW b \in BOOLEAN, ProxyRejects(b)
       PROVE  TunnelInv'
  <2>1. plan' = plan /\ Running /\ Stage = "reply" /\ tn' = AttemptFails(tn, b, "rejected")
    BY <1>14 DEF ProxyRejects
  <2>2. /\ tn.stage \in 1 .. Len(Stages) /\ Fits(tn, tn.stage) /\ tn.result = "none" /\ tn.conn \in Nat
        /\ tn.target \in 1 .. MaxTargets /\ plan.targets \in 1 .. MaxTargets
    BY <2>1, TunnelRuns
  <2>3. CASE ~target_failure_may_retry(b)
    <3>1. tn' = [tn EXCEPT !.result = "rejected", !.stage = 0, !.limit = NoTime]
      BY <2>1, <2>3 DEF AttemptFails
    <3>2. "rejected" \in Ends \ {"none"}
      BY <1>8
    <3>3. TunnelOK(tn')
      BY <1>0, <3>1, <3>2, TunnelEnds
    <3>4. QED
      BY <1>1, <2>1, <3>3
  <2>4. CASE target_failure_may_retry(b)
    <3> DEFINE d == tn.dead \cup {tn.conn}
               w == [tn EXCEPT !.target = tn.target + 1, !.dead = d]
    <3>1. tn' = EnterStage(w, FirstOfAttempt) /\ tn.target < plan.targets
      BY <2>1, <2>4 DEF AttemptFails, NextTarget, target_failure_may_retry
    <3>2. Rank(Stages[tn.stage]) = 7
      BY <2>1 DEF Stage, Rank
    <3>3. tn.conn # 0 /\ tn.sends = 0
      BY <2>2, <3>2 DEF Fits
    <3>4. /\ tn.conn <= tn.target /\ tn.dead \subseteq 1 .. tn.conn /\ tn.dead \in SUBSET Nat
          /\ \A c \in 1 .. MaxTargets : tn.commands[c] <= 1 /\ (c > tn.conn => tn.commands[c] = 0)
      BY <1>0 DEF TunnelCore, TunnelFields
    <3>5. d \in SUBSET Nat /\ d \subseteq 1 .. tn.conn /\ tn.conn \in d /\ tn.target + 1 \in 1 .. plan.targets
          /\ tn.target + 1 \in Nat /\ tn.conn < tn.target + 1 /\ tn.conn <= tn.target + 1
      BY <1>0, <2>2, <3>1, <3>3, <3>4
    <3> HIDE DEF d, w
    <3>6. w \in TunnelFields
      BY <1>0, <3>5 DEF TunnelFields, w
    <3>7. /\ w.target = tn.target + 1 /\ w.conn = tn.conn /\ w.dead = d /\ w.commands = tn.commands
          /\ w.sends = tn.sends /\ w.result = "none"
      BY <1>0, <2>2 DEF TunnelFields, w
    <3>8. TunnelCore(w)
      BY <3>3, <3>4, <3>5, <3>7 DEF TunnelCore
    <3>9. FirstOfAttempt \in 1 .. Len(Stages) /\ Rank(Stages[FirstOfAttempt]) <= 2
      BY <1>0, StageFacts
    <3>10. FirstOfAttempt \in Nat /\ FirstOfAttempt # 0 /\ Rank(Stages[FirstOfAttempt]) \in 0 .. 10
      BY <1>0, <3>9, NextStage
    <3>11. Fits(w, FirstOfAttempt)
      BY <3>3, <3>5, <3>7, <3>9, <3>10 DEF Fits
    <3>12. TunnelOK(EnterStage(w, FirstOfAttempt))
      BY <1>0, <3>6, <3>7, <3>8, <3>9, <3>10, <3>11, TunnelEnters
    <3>13. QED
      BY <1>1, <2>1, <3>1, <3>12
  <2>5. QED
    BY <2>3, <2>4
<1>15. CASE StageTimesOut
  <2>1. plan' = plan /\ End("timeout")
    BY <1>15 DEF StageTimesOut, End
  <2>2. QED
    BY <1>7, <1>8, <2>1
<1>16. CASE TotalTimesOut
  <2>1. plan' = plan /\ End("total")
    BY <1>16 DEF TotalTimesOut
  <2>2. QED
    BY <1>7, <1>8, <2>1
<1>17. CASE TunnelTick
  <2>1. plan' = plan /\ tn' = [tn EXCEPT !.now = tn.now + 1]
    BY <1>17 DEF TunnelTick
  <2>2. tn.now + 1 \in Nat
    BY <1>0 DEF TunnelFields
  <2>3. tn' \in TunnelFields
    BY <1>0, <2>1, <2>2 DEF TunnelFields
  <2>4. /\ tn'.stage = tn.stage /\ tn'.target = tn.target /\ tn'.conn = tn.conn /\ tn'.dead = tn.dead
        /\ tn'.commands = tn.commands /\ tn'.sends = tn.sends /\ tn'.result = tn.result
    BY <1>0, <2>1 DEF TunnelFields
  <2>5. QED
    BY <1>0, <1>1, <2>1, <2>3, <2>4, TunnelKeeps
<1>18. QED
  BY <1>2, <1>3, <1>4, <1>5, <1>6, <1>9, <1>10, <1>11, <1>12, <1>13, <1>14, <1>15, <1>16, <1>17
     DEF TunnelNext

\* The invariant holds of every request: which connection carries what at each stage,
\* through any number of targets, failures and timers.
THEOREM TunnelInvariant == TunnelSpec => []TunnelInv
<1>1. TunnelInit => TunnelInv
  <2> SUFFICES ASSUME TunnelInit
               PROVE  TunnelInv
    OBVIOUS
  <2>1. plan \in Plan /\ Dispatchable(plan) /\ NoTime \in Nat /\ MaxTargets \in Nat /\ plan.targets \in 1 .. MaxTargets
    BY TunnelAssumption DEF TunnelInit, NoTime, Plan
  <2>2. tn = TunnelStart /\ 1 \in 1 .. plan.targets
    BY <2>1 DEF TunnelInit
  <2> DEFINE wr == [c \in 1 .. MaxTargets |-> {}]
             cm == [c \in 1 .. MaxTargets |-> 0]
  <2>3. wr \in [1 .. MaxTargets -> SUBSET Written] /\ cm \in [1 .. MaxTargets -> Nat]
        /\ \A c \in 1 .. MaxTargets : cm[c] = 0
    OBVIOUS
  <2> HIDE DEF wr, cm
  <2>4. tn = [stage |-> 0, target |-> 1, attempted |-> 0, refused |-> 0, skipped |-> 0, conn |-> 0, dead |-> {},
              written |-> wr, commands |-> cm, now |-> 0, limit |-> NoTime, sends |-> 0, result |-> "none"]
    BY <2>2 DEF TunnelStart, wr, cm
  <2>5. tn \in TunnelFields
    BY <2>1, <2>3, <2>4 DEF TunnelFields, Ends
  <2>6. TunnelCore(tn)
    BY <2>2, <2>3, <2>4 DEF TunnelCore
  <2>7. QED
    BY <2>1, <2>4, <2>5, <2>6 DEF TunnelInv, TunnelOK
<1>2. QED
  BY <1>1, TunnelStep, PTL DEF TunnelSpec

\* SentOnce, for any number of addresses and targets and any requests that a dispatcher
\* hands over: the request goes out at most once, and a proxy connection gets at most
\* one command.
THEOREM RequestsAreSentOnce == TunnelSpec => []SentOnce
<1>1. TunnelInv => SentOnce
  BY DEF TunnelInv, TunnelOK, TunnelCore, SentOnce
<1>2. QED
  BY <1>1, TunnelInvariant, PTL
(***************************************************************************)
(* The timeouts of an exchange.                                            *)
(***************************************************************************)
ExchangeFields ==
    [now : 0 .. Horizon, link : {"connecting", "up"}, chunk : Nat, asked : Nat,
     writeLimit : Nat, upload : {"waiting", "sending", "done", "failed"},
     completion : {"open", "sent", "dropped"}, sentAt : Nat,
     sending : {"pending", "head", "writeTimeout", "error"},
     caller : {"upload", "send", "read", "done"}, readLimit : Nat,
     result : {"none", "head", "error", "read", "write", "total"}]

\* A timer that runs was set by what it measures: the write timer when the chunk was asked
\* for, the read deadline when the body had gone out and before any total deadline.
ExchangeOK(s) ==
    /\ s.completion = "sent" <=> s.upload = "done"
    /\ s.upload \in {"sending", "done"} => s.link = "up"
    /\ s.upload = "sending" => s.writeLimit = After(s.asked, xplan.write)
    /\ s.caller = "read" => /\ s.completion = "sent" /\ s.readLimit = s.sentAt + xplan.read
                            /\ xplan.deadline > s.readLimit
    /\ s.result = "read" => /\ s.completion = "sent" /\ s.now >= s.sentAt + xplan.read
                            /\ xplan.deadline > s.sentAt + xplan.read

ExchangeInv == xplan \in ExchangePlan /\ ex \in ExchangeFields /\ ExchangeOK(ex)

\* What the proofs need of the times.
LEMMA ExchangeTimes ==
    ASSUME ExchangeInv
    PROVE  /\ Unset \in Nat /\ xplan.read \in Nat /\ xplan.write \in Nat /\ xplan.deadline \in Nat
           /\ ex.now \in Nat /\ ex.now < Unset /\ ex.asked \in Nat /\ ex.writeLimit \in Nat
           /\ ex.sentAt \in Nat /\ ex.readLimit \in Nat /\ ex.chunk \in Nat
           /\ \A t \in Nat : After(t, xplan.read) \in Nat /\ After(t, xplan.write) \in Nat
<1>1. Horizon \in Nat /\ Unset \in Nat /\ Horizon < Unset
  BY ExchangeAssumption DEF Unset
<1>2. xplan.read \in 1 .. Unset /\ xplan.write \in 1 .. Unset /\ xplan.deadline \in 1 .. Unset
  BY DEF ExchangeInv, ExchangePlan
<1>3. /\ ex.now \in 0 .. Horizon /\ ex.asked \in Nat /\ ex.writeLimit \in Nat /\ ex.sentAt \in Nat
      /\ ex.readLimit \in Nat /\ ex.chunk \in Nat
  BY DEF ExchangeInv, ExchangeFields
<1>4. xplan.read \in Nat /\ xplan.write \in Nat /\ xplan.deadline \in Nat /\ ex.now \in Nat /\ ex.now < Unset
  BY <1>1, <1>2, <1>3
<1>5. \A t \in Nat : After(t, xplan.read) \in Nat /\ After(t, xplan.write) \in Nat
  BY <1>1, <1>4 DEF After
<1>6. QED
  BY <1>1, <1>3, <1>4, <1>5

\* The end of the body is reported from the connection that sends it.
LEMMA ExchangeCompletes ==
    ASSUME xplan \in ExchangePlan, NEW s \in ExchangeFields, s.link = "up", s.caller # "read",
           s.result # "read"
    PROVE  mark_complete(s) \in ExchangeFields /\ ExchangeOK(mark_complete(s))
<1> DEFINE w == mark_complete(s)
<1>1. Unset \in Nat /\ s.now \in Nat
  BY ExchangeAssumption DEF Unset, ExchangeFields
<1>2. w \in ExchangeFields
  BY <1>1 DEF mark_complete, ExchangeFields
<1>3. /\ w.completion = "sent" /\ w.upload = "done" /\ w.link = "up" /\ w.caller = s.caller /\ w.result = s.result
  BY DEF mark_complete, ExchangeFields
<1> HIDE DEF w
<1>4. QED
  BY <1>2, <1>3 DEF ExchangeOK, w

\* Each step of an exchange keeps its timers true.
LEMMA ExchangeStep == ExchangeInv /\ [ExchangeNext]_exchangeVars => ExchangeInv'
<1> SUFFICES ASSUME ExchangeInv, [ExchangeNext]_exchangeVars
             PROVE  ExchangeInv'
  OBVIOUS
<1>0. /\ xplan \in ExchangePlan /\ ex \in ExchangeFields /\ ExchangeOK(ex)
  BY DEF ExchangeInv
<1>t. /\ Unset \in Nat /\ xplan.read \in Nat /\ xplan.write \in Nat /\ xplan.deadline \in Nat
      /\ ex.now \in Nat /\ ex.now < Unset /\ ex.asked \in Nat /\ ex.writeLimit \in Nat
      /\ ex.sentAt \in Nat /\ ex.readLimit \in Nat /\ ex.chunk \in Nat
      /\ \A t \in Nat : After(t, xplan.read) \in Nat /\ After(t, xplan.write) \in Nat
  BY ExchangeTimes
<1>1. ASSUME xplan' = xplan, ex' \in ExchangeFields, ExchangeOK(ex')
      PROVE  ExchangeInv'
  BY <1>0, <1>1 DEF ExchangeInv, ExchangeOK, After
<1>2. CASE UNCHANGED exchangeVars
  BY <1>0, <1>1, <1>2 DEF exchangeVars
<1>3. CASE LinkUp
  <2> DEFINE up == [ex EXCEPT !.link = "up"]
  <2>1. xplan' = xplan /\ ex.link = "connecting" /\ ex' = (IF xplan.chunks = 0 THEN mark_complete(up) ELSE FirstPoll(up))
    BY <1>3 DEF LinkUp
  <2>2. ex.upload \notin {"sending", "done"} /\ ex.completion # "sent" /\ ex.caller # "read" /\ ex.result # "read"
    BY <1>0, <2>1 DEF ExchangeOK
  <2>3. /\ up \in ExchangeFields /\ up.link = "up" /\ up.caller = ex.caller /\ up.result = ex.result
        /\ up.completion = ex.completion /\ up.upload = ex.upload /\ up.now = ex.now
    BY <1>0 DEF ExchangeFields
  <2> HIDE DEF up
  <2>4. CASE xplan.chunks = 0
    BY <1>0, <1>1, <2>1, <2>2, <2>3, <2>4, ExchangeCompletes
  <2>5. CASE xplan.chunks # 0
    <3> DEFINE l == After(ex.now, xplan.write)
    <3>1. ex' = [up EXCEPT !.upload = "sending", !.asked = ex.now, !.writeLimit = l] /\ l \in Nat
      BY <1>t, <2>1, <2>3, <2>5 DEF FirstPoll, start_timer
    <3> HIDE DEF l
    <3>2. ex' \in ExchangeFields
      BY <1>t, <2>3, <3>1 DEF ExchangeFields
    <3>3. /\ ex'.upload = "sending" /\ ex'.link = "up" /\ ex'.completion = ex.completion /\ ex'.caller = ex.caller
          /\ ex'.result = ex.result /\ ex'.asked = ex.now /\ ex'.writeLimit = l
      BY <2>3, <3>1 DEF ExchangeFields
    <3>4. ExchangeOK(ex')
      BY <2>2, <3>3 DEF ExchangeOK, l
    <3>5. QED
      BY <1>1, <2>1, <3>2, <3>4
  <2>6. QED
    BY <2>4, <2>5
<1>4. CASE ChunkProduced
  <2> DEFINE l == After(ex.now, xplan.write)
             c == ex.chunk + 1
             next == [ex EXCEPT !.chunk = c, !.asked = ex.now, !.writeLimit = l]
  <2>1. xplan' = xplan /\ ex.upload = "sending" /\ ex' = (IF next.chunk = xplan.chunks THEN mark_complete(next) ELSE next)
    BY <1>4 DEF ChunkProduced, Ended
  <2>2. ex.link = "up" /\ ex.completion # "sent" /\ ex.caller # "read" /\ ex.result # "read"
    BY <1>0, <2>1 DEF ExchangeOK
  <2>3. l \in Nat /\ c \in Nat
    BY <1>t
  <2> HIDE DEF l, c
  <2>4. next \in ExchangeFields
    BY <1>0, <1>t, <2>3 DEF ExchangeFields
  <2>5. /\ next.link = "up" /\ next.caller = ex.caller /\ next.result = ex.result /\ next.upload = "sending"
        /\ next.completion = ex.completion /\ next.asked = ex.now /\ next.writeLimit = l
    BY <1>0, <2>1, <2>2 DEF ExchangeFields
  <2> HIDE DEF next
  <2>6. ExchangeOK(next)
    BY <2>2, <2>5 DEF ExchangeOK, l
  <2>7. mark_complete(next) \in ExchangeFields /\ ExchangeOK(mark_complete(next))
    BY <1>0, <2>2, <2>4, <2>5, ExchangeCompletes
  <2>8. QED
    BY <1>1, <2>1, <2>4, <2>6, <2>7
<1>5. CASE ChunkTimesOut
  <2> DEFINE s == IF ex.sending = "head" THEN ex.sending ELSE "writeTimeout"
  <2>1. /\ xplan' = xplan /\ ex.upload = "sending"
        /\ ex' = [ex EXCEPT !.upload = "failed", !.completion = "dropped", !.sending = s,
                            !.writeLimit = Unset, !.asked = Unset]
    BY <1>5 DEF ChunkTimesOut
  <2>2. s \in {"pending", "head", "writeTimeout", "error"}
    OBVIOUS
  <2> HIDE DEF s
  <2>3. ex' \in ExchangeFields
    BY <1>0, <1>t, <2>1, <2>2 DEF ExchangeFields
  <2>4. ex'.upload = "failed" /\ ex'.completion = "dropped" /\ ex'.caller = ex.caller /\ ex'.result = ex.result
    BY <1>0, <2>1 DEF ExchangeFields
  <2>5. ex.completion # "sent" /\ ex.caller # "read" /\ ex.result # "read"
    BY <1>0, <2>1 DEF ExchangeOK
  <2>6. ExchangeOK(ex')
    BY <2>4, <2>5 DEF ExchangeOK
  <2>7. QED
    BY <1>1, <2>1, <2>3, <2>6
<1>6. CASE HeadArrives
  <2>1. xplan' = xplan /\ ex' = [ex EXCEPT !.sending = "head"]
    BY <1>6 DEF HeadArrives
  <2>2. ex' \in ExchangeFields
    BY <1>0, <2>1 DEF ExchangeFields
  <2>3. ExchangeOK(ex')
    BY <1>0, <2>1 DEF ExchangeOK, ExchangeFields
  <2>4. QED
    BY <1>1, <2>1, <2>2, <2>3
<1>7. CASE SendFails
  <2> DEFINE u == IF ex.upload = "done" THEN ex.upload ELSE "failed"
             c == IF ex.completion = "open" THEN "dropped" ELSE ex.completion
  <2>1. xplan' = xplan /\ ex' = [ex EXCEPT !.sending = "error", !.upload = u, !.completion = c]
    BY <1>7 DEF SendFails
  <2>2. /\ u \in {"done", "failed"} /\ c \in {"open", "sent", "dropped"}
        /\ (c = "sent" <=> u = "done")
    BY <1>0 DEF ExchangeOK, ExchangeFields
  <2>3. (c = "sent" <=> ex.completion = "sent") /\ (u = "done" <=> ex.upload = "done")
    BY <1>0 DEF ExchangeOK, ExchangeFields
  <2> HIDE DEF u, c
  <2>4. ex' \in ExchangeFields
    BY <1>0, <2>1, <2>2 DEF ExchangeFields
  <2>5. /\ ex'.upload = u /\ ex'.completion = c /\ ex'.caller = ex.caller /\ ex'.result = ex.result /\ ex'.link = ex.link
        /\ ex'.now = ex.now /\ ex'.sentAt = ex.sentAt /\ ex'.readLimit = ex.readLimit
    BY <1>0, <2>1 DEF ExchangeFields
  <2>6. ExchangeOK(ex')
    BY <1>0, <2>2, <2>3, <2>5 DEF ExchangeOK
  <2>7. QED
    BY <1>1, <2>1, <2>4, <2>6
<1>8. ASSUME xplan' = xplan, NEW r \in {"none", "head", "error", "read", "write", "total"}, ex' = Finish(r),
             r = "read" => /\ ex.completion = "sent" /\ ex.now >= ex.sentAt + xplan.read
                           /\ xplan.deadline > ex.sentAt + xplan.read
      PROVE  ExchangeInv'
  <2>1. ex' = [ex EXCEPT !.caller = "done", !.result = r]
    BY <1>8 DEF Finish
  <2>2. ex' \in ExchangeFields
    BY <1>0, <2>1 DEF ExchangeFields
  <2>3. /\ ex'.upload = ex.upload /\ ex'.completion = ex.completion /\ ex'.caller = "done" /\ ex'.result = r
        /\ ex'.link = ex.link /\ ex'.now = ex.now /\ ex'.sentAt = ex.sentAt /\ ex'.writeLimit = ex.writeLimit
        /\ ex'.asked = ex.asked
    BY <1>0, <2>1 DEF ExchangeFields
  <2>4. ExchangeOK(ex')
    BY <1>0, <1>8, <2>3 DEF ExchangeOK
  <2>5. QED
    BY <1>1, <1>8, <2>2, <2>4
<1>9. ASSUME xplan' = xplan, ex' = SendFuture
      PROVE  ExchangeInv'
  <2>1. map_send_error(ex.sending) \in {"head", "error", "write"}
    BY DEF map_send_error
  <2>2. QED
    BY <1>8, <1>9, <2>1 DEF SendFuture
<1>10. ASSUME xplan' = xplan, ex' = [ex EXCEPT !.caller = "send"]
       PROVE  ExchangeInv'
  <2>1. ex' \in ExchangeFields
    BY <1>0, <1>10 DEF ExchangeFields
  <2>2. ExchangeOK(ex')
    BY <1>0, <1>10 DEF ExchangeOK, ExchangeFields
  <2>3. QED
    BY <1>1, <1>10, <2>1, <2>2
<1>11. CASE PollUpload
  <2>1. CASE ex.sending # "pending"
    BY <1>9, <1>11, <2>1 DEF PollUpload
  <2>2. CASE ex.completion = "dropped" /\ ex' = [ex EXCEPT !.caller = "send"]
    BY <1>10, <1>11, <2>2 DEF PollUpload
  <2>3. CASE xplan.read # Unset /\ ex.completion = "sent" /\ ex' = UploadEnded
    <3>1. read_deadline = ex.sentAt + xplan.read /\ xplan' = xplan
      BY <1>11, <2>3 DEF read_deadline, After, PollUpload
    <3>2. CASE OuterTotalOwns(read_deadline)
      BY <1>10, <2>3, <3>1, <3>2 DEF UploadEnded
    <3>3. CASE ~OuterTotalOwns(read_deadline) /\ ex.now >= read_deadline
      <4>1. ex' = Finish("read") /\ xplan.deadline > ex.sentAt + xplan.read
        BY <1>t, <2>3, <3>1, <3>3 DEF UploadEnded, OuterTotalOwns
      <4>2. QED
        BY <1>8, <2>3, <3>1, <3>3, <4>1
    <3>4. CASE ~OuterTotalOwns(read_deadline) /\ ~(ex.now >= read_deadline)
      <4> DEFINE d == read_deadline
      <4>1. ex' = [ex EXCEPT !.caller = "read", !.readLimit = d] /\ xplan.deadline > d /\ d \in Nat
        BY <1>t, <2>3, <3>1, <3>4 DEF UploadEnded, OuterTotalOwns
      <4>2. d = ex.sentAt + xplan.read
        BY <3>1
      <4> HIDE DEF d
      <4>3. ex' \in ExchangeFields
        BY <1>0, <4>1 DEF ExchangeFields
      <4>4. /\ ex'.upload = ex.upload /\ ex'.completion = ex.completion /\ ex'.caller = "read" /\ ex'.result = ex.result
            /\ ex'.link = ex.link /\ ex'.now = ex.now /\ ex'.sentAt = ex.sentAt /\ ex'.writeLimit = ex.writeLimit
            /\ ex'.asked = ex.asked /\ ex'.readLimit = d
        BY <1>0, <4>1 DEF ExchangeFields
      <4>5. ExchangeOK(ex')
        BY <1>0, <2>3, <4>1, <4>2, <4>4 DEF ExchangeOK
      <4>6. QED
        BY <1>1, <3>1, <4>3, <4>5
    <3>5. QED
      BY <3>2, <3>3, <3>4
  <2>4. QED
    BY <1>11, <2>1, <2>2, <2>3 DEF PollUpload
<1>12. CASE PollSend
  BY <1>9, <1>12 DEF PollSend
<1>13. CASE PollRead
  <2>1. xplan' = xplan /\ ex.completion = "sent" /\ ex.readLimit = ex.sentAt + xplan.read /\ xplan.deadline > ex.readLimit
    BY <1>0, <1>13 DEF PollRead, ExchangeOK
  <2>2. CASE ex.readLimit <= ex.now /\ ex' = Finish("read")
    <3>1. ex.now >= ex.sentAt + xplan.read /\ xplan.deadline > ex.sentAt + xplan.read
      BY <1>t, <2>1, <2>2
    <3>2. QED
      BY <1>8, <2>1, <2>2, <3>1
  <2>3. CASE ex' = SendFuture
    BY <1>9, <2>1, <2>3
  <2>4. QED
    BY <1>13, <2>2, <2>3 DEF PollRead
<1>14. CASE TotalExpires
  BY <1>8, <1>14 DEF TotalExpires
<1>15. CASE ExchangeTick
  <2>1. xplan' = xplan /\ ex.now < Horizon /\ ex' = [ex EXCEPT !.now = ex.now + 1]
    BY <1>15 DEF ExchangeTick
  <2>2. ex.now + 1 \in 0 .. Horizon
    BY <1>t, <2>1, ExchangeAssumption
  <2>3. ex' \in ExchangeFields
    BY <1>0, <2>1, <2>2 DEF ExchangeFields
  <2>4. /\ ex'.upload = ex.upload /\ ex'.completion = ex.completion /\ ex'.caller = ex.caller /\ ex'.result = ex.result
        /\ ex'.link = ex.link /\ ex'.now = ex.now + 1 /\ ex'.sentAt = ex.sentAt /\ ex'.writeLimit = ex.writeLimit
        /\ ex'.asked = ex.asked /\ ex'.readLimit = ex.readLimit
    BY <1>0, <2>1 DEF ExchangeFields
  <2>5. ex.now >= ex.sentAt + xplan.read => ex.now + 1 >= ex.sentAt + xplan.read
    BY <1>t
  <2>6. ExchangeOK(ex')
    BY <1>0, <2>4, <2>5 DEF ExchangeOK
  <2>7. QED
    BY <1>1, <2>1, <2>3, <2>6
<1>16. QED
  BY <1>2, <1>3, <1>4, <1>5, <1>6, <1>7, <1>11, <1>12, <1>13, <1>14, <1>15 DEF ExchangeNext

\* The invariant of an exchange: every timer that runs measures what it is for.
THEOREM ExchangeInvariant == ExchangeSpec => []ExchangeInv
<1>1. ExchangeInit => ExchangeInv
  <2> SUFFICES ASSUME ExchangeInit
               PROVE  ExchangeInv
    OBVIOUS
  <2>1. Unset \in Nat /\ 0 \in 0 .. Horizon
    BY ExchangeAssumption DEF Unset
  <2>2. ex \in ExchangeFields
    BY <2>1 DEF ExchangeInit, ExchangeStart, ExchangeFields
  <2>3. ExchangeOK(ex)
    BY DEF ExchangeInit, ExchangeStart, ExchangeOK
  <2>4. QED
    BY <2>2, <2>3, ExchangeAssumption DEF ExchangeInit, ExchangeInv
<1>2. QED
  BY <1>1, ExchangeStep, PTL DEF ExchangeSpec

\* PhaseTimeoutIsEarned, for any budgets, deadlines and bodies: no timeout of a phase is
\* reported for time that another phase took.
THEOREM PhaseTimeoutsAreEarned == ExchangeSpec => PhaseTimeoutIsEarned
<1>1. ASSUME ExchangeInv, ExchangeInv', [ExchangeNext]_exchangeVars
      PROVE  [/\ ex'.result = "read" => /\ ex'.completion = "sent"
                                        /\ ex'.now >= ex'.sentAt + xplan.read
                                        /\ xplan.deadline > ex'.sentAt + xplan.read
              /\ ex'.upload = "failed" /\ ex'.sending # "error" /\ ex.upload = "sending"
                   => ex.now >= ex.asked + xplan.write]_exchangeVars
  <2> SUFFICES ASSUME ExchangeNext
               PROVE  /\ ex'.result = "read" => /\ ex'.completion = "sent"
                                                /\ ex'.now >= ex'.sentAt + xplan.read
                                                /\ xplan.deadline > ex'.sentAt + xplan.read
                      /\ ex'.upload = "failed" /\ ex'.sending # "error" /\ ex.upload = "sending"
                           => ex.now >= ex.asked + xplan.write
    BY <1>1
  <2>1. xplan' = xplan
    BY DEF ExchangeNext, LinkUp, ChunkProduced, ChunkTimesOut, HeadArrives, SendFails, PollUpload, PollSend,
           PollRead, TotalExpires, ExchangeTick
  <2>2. ex'.result = "read" => /\ ex'.completion = "sent" /\ ex'.now >= ex'.sentAt + xplan.read
                               /\ xplan.deadline > ex'.sentAt + xplan.read
    BY <1>1, <2>1 DEF ExchangeInv, ExchangeOK
  <2>3. ASSUME ex'.upload = "failed", ex'.sending # "error", ex.upload = "sending"
        PROVE  ex.now >= ex.asked + xplan.write
    <3>0. ex \in ExchangeFields
      BY <1>1 DEF ExchangeInv
    <3>1. ChunkTimesOut
      <4>1. CASE LinkUp
        BY <1>1, <2>3, <4>1 DEF LinkUp, ExchangeInv, ExchangeOK
      <4>2. CASE ChunkProduced
        <5>1. ex'.upload \in {"sending", "done"}
          BY <2>3, <3>0, <4>2 DEF ChunkProduced, Ended, mark_complete, ExchangeFields
        <5>2. QED
          BY <2>3, <5>1
      <4>3. CASE HeadArrives \/ ExchangeTick \/ TotalExpires
        BY <2>3, <3>0, <4>3 DEF HeadArrives, ExchangeTick, TotalExpires, Finish, ExchangeFields
      <4>4. CASE SendFails
        BY <2>3, <3>0, <4>4 DEF SendFails, ExchangeFields
      <4>5. CASE PollUpload \/ PollSend \/ PollRead
        <5>1. ex'.upload = ex.upload
          BY <3>0, <4>5 DEF PollUpload, PollSend, PollRead, SendFuture, UploadEnded, Finish, ExchangeFields
        <5>2. QED
          BY <2>3, <5>1
      <4>6. QED
        BY <4>1, <4>2, <4>3, <4>4, <4>5 DEF ExchangeNext
    <3>2. ex.writeLimit <= ex.now /\ ex.writeLimit = After(ex.asked, xplan.write)
      BY <1>1, <2>3, <3>1 DEF ChunkTimesOut, ExchangeInv, ExchangeOK
    <3>3. Unset \in Nat /\ ex.now < Unset /\ ex.now \in Nat /\ ex.asked \in Nat /\ xplan.write \in Nat
      BY <1>1, ExchangeTimes
    <3>4. QED
      BY <3>2, <3>3 DEF After
  <2>4. QED
    BY <2>2, <2>3
<1>2. QED
  BY <1>1, ExchangeInvariant, PTL DEF ExchangeSpec, PhaseTimeoutIsEarned
=============================================================================
