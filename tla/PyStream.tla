------------------------------ MODULE PyStream ------------------------------
(***************************************************************************)
(* The Python StreamingResponse (eggfetch-python/src/streaming.rs and      *)
(* streaming/): who owns the body, the readers and the iterators that take *)
(* it, the bounded bridge between a producer task and a Python thread, and *)
(* close(), which may come from any other thread.                          *)
(*                                                                         *)
(* A queued item is the number of the last body chunk it completes, so an  *)
(* iterator's output is how much of the body it has covered.  Calls that   *)
(* find the body taken raise and change nothing, and are left out; one     *)
(* thread consumes an iterator.  Text and lines go through a decoder, which*)
(* for a named charset fills a String of bounded capacity.                 *)
(***************************************************************************)
EXTENDS Naturals, Sequences

CONSTANTS BodyChunks,     \* bound: chunks of the body
          BridgeCapacity  \* 16 in the code

ASSUME PyStreamAssumption == BodyChunks \in Nat /\ BridgeCapacity \in Nat \ {0}

VARIABLES py, decoder

pyVars == <<py, decoder>>

ErrorItem == BodyChunks + 1   \* an item that raises instead
Readers == {"read", "aread"}
SyncIterators == {"iter_bytes", "iter_raw", "iter_text", "iter_lines"}
AsyncIterators == {"aiter_bytes", "aiter_raw", "aiter_text", "aiter_lines"}
Iterators == SyncIterators \cup AsyncIterators
TextIterators == {"iter_text", "aiter_text"}
LineIterators == {"iter_lines", "aiter_lines"}

\* body: who owns it; subscribed, told: the task's receiver on stream_cancel
\* and whether it has an unseen change; nextChunk: chunks received; covered:
\* chunks handed on to the bridge; hand: items the producer has in hand;
\* permit: a stored Notify permit; ending: the producer only has its hand left.
PyState ==
    [state : {"streaming", "buffered", "consumed", "closed"},
     body : {"response", "task", "released"}, kind : Readers \cup Iterators \cup {"none"},
     subscribed : BOOLEAN, told : BOOLEAN, failed : BOOLEAN,
     task : {"none", "unsubscribed", "polling", "sending", "parked", "done"},
     nextChunk : 0 .. BodyChunks, covered : 0 .. BodyChunks, hand : Seq(0 .. ErrorItem),
     ending : BOOLEAN, queue : Seq(0 .. ErrorItem), closed : BOOLEAN, permit : BOOLEAN,
     consumer : {"idle", "waiting", "asleep", "gone"}, got : 0 .. BodyChunks,
     outcome : {"none", "eof", "error", "closed"}]

\* IncrementalDecoder: whether it has a Decoder for a charset, named by the caller or the
\* response and known; and whether that one left a part of a chunk undecoded.
DecoderState == [named : BOOLEAN, lost : BOOLEAN]

\* from_core_response
PyInit ==
    /\ decoder = [named |-> FALSE, lost |-> FALSE]
    /\ py =
         [state |-> "streaming", body |-> "response", kind |-> "none", subscribed |-> FALSE,
          told |-> FALSE, failed |-> FALSE, task |-> "none", nextChunk |-> 0, covered |-> 0,
          hand |-> << >>, ending |-> FALSE, queue |-> << >>, closed |-> FALSE,
          permit |-> FALSE, consumer |-> "idle", got |-> 0, outcome |-> "none"]
-----------------------------------------------------------------------------
(***************************************************************************)
(* Taking the body, and closing the response.                              *)
(***************************************************************************)
\* Under the response's lock: the state decides, and only one caller wins.
take_stream(kind) ==
    [py EXCEPT !.state = "consumed", !.body = "task", !.kind = kind]
CanTake == py.state = "streaming" /\ py.body = "response"

\* aread and the async iterators subscribe in the same GIL section.
SubscribesWhenTaking(kind) == kind \in {"aread"} \cup AsyncIterators
Taken(kind) ==
    [take_stream(kind) EXCEPT !.subscribed = SubscribesWhenTaking(kind), !.task = "polling"]

\* A text or line iterator makes a decoder of its own.
NewDecoder == \E named \in BOOLEAN : decoder' = [named |-> named, lost |-> FALSE]

\* read() works without the GIL: it subscribes in a second step.
drain_all_bytes == CanTake /\ py' = [take_stream("read") EXCEPT !.task = "unsubscribed"] /\ UNCHANGED decoder
subscribe ==
    /\ py.task = "unsubscribed"
    /\ py' = [py EXCEPT !.subscribed = TRUE, !.task = "polling"]
    /\ UNCHANGED decoder
aread == CanTake /\ py' = Taken("aread") /\ UNCHANGED decoder
PyBytesChunkIterator == CanTake /\ py' = Taken("iter_bytes") /\ UNCHANGED decoder
PyTextChunkIterator == CanTake /\ py' = Taken("iter_text") /\ NewDecoder
PyLinesChunkIterator == CanTake /\ py' = Taken("iter_lines") /\ NewDecoder
PyRawBytesChunkIterator == CanTake /\ py' = Taken("iter_raw") /\ UNCHANGED decoder
PyAsyncBytesIterator == CanTake /\ py' = Taken("aiter_bytes") /\ UNCHANGED decoder
PyAsyncTextIterator == CanTake /\ py' = Taken("aiter_text") /\ NewDecoder
PyAsyncLinesIterator == CanTake /\ py' = Taken("aiter_lines") /\ NewDecoder
PyAsyncRawBytesIterator == CanTake /\ py' = Taken("aiter_raw") /\ UNCHANGED decoder

\* iter_bytes(chunk_size=0) is refused after the body was taken, which drops it.
ZeroChunkSize ==
    /\ CanTake
    /\ py' = [take_stream("iter_bytes") EXCEPT !.body = "released", !.outcome = "error"]
    /\ UNCHANGED decoder

\* watch::Sender::send reaches subscribed receivers only; without one the
\* value itself is left unchanged.  CLOSED is stored whoever owns the body.
Closed ==
    [py EXCEPT !.told = @ \/ py.subscribed, !.state = "closed",
               !.body = IF @ = "response" THEN "released" ELSE @]
drain_and_close == py.state # "closed" /\ py' = Closed /\ UNCHANGED decoder
\* Leaving the with block: the body slot is emptied whatever the state.
exit == py.state # "closed" /\ py' = Closed /\ UNCHANGED decoder
-----------------------------------------------------------------------------
(***************************************************************************)
(* The task that owns the body.                                            *)
(***************************************************************************)
Polling == py.task = "polling"

\* Dropping the stream and the sender; a closed bridge wakes its consumer.
Wake(state) == [state EXCEPT !.consumer = IF @ = "asleep" THEN "waiting" ELSE @]
TaskEnds(state) == Wake([state EXCEPT !.task = "done", !.body = "released", !.closed = TRUE])
ReaderEnds(state, o) ==
    [state EXCEPT !.task = "done", !.body = "released", !.outcome = o]

\* Mutant: what is withheld is forgotten.
FlushNothing(state) == state

\* What is withheld - half a character, half a line - goes out at the end.
Flush(state) ==
    IF state.kind \in TextIterators \cup LineIterators /\ state.covered < state.nextChunk
    THEN [state EXCEPT !.hand = Append(@, state.nextChunk), !.covered = state.nextChunk]
    ELSE state
Finishing(state) ==
    LET s == Flush(state) IN IF s.hand = << >> THEN TaskEnds(s)
                             ELSE [s EXCEPT !.task = "sending", !.ending = TRUE]

\* A chunk arrives; the decoder may keep its last bytes, the line splitter
\* everything since the last line feed.  The Decoder of a charset writes into a
\* String of three times the chunk, 64 KiB at the most, and decode() drops its
\* result: the rest of an oversize chunk is neither handed on nor kept.
ChunkArrives(withheld, oversize) ==
    /\ Polling /\ ~py.failed /\ py.nextChunk < BodyChunks
    /\ withheld => py.kind \in TextIterators \cup LineIterators
    /\ oversize => decoder.named /\ (withheld => py.kind \in LineIterators)
    /\ LET n == py.nextChunk + 1
           upTo == IF withheld THEN py.covered ELSE n
           s == [py EXCEPT !.nextChunk = n, !.covered = upTo]
       IN  py' = IF py.kind \in Readers THEN [s EXCEPT !.got = n]
                 ELSE IF withheld /\ py.kind \in LineIterators THEN s
                 ELSE [s EXCEPT !.hand = <<upTo>>, !.task = "sending"]
    /\ decoder' = [decoder EXCEPT !.lost = @ \/ oversize]

\* After an error the bytes iterators poll on, the others flush and end.
BodyFails ==
    /\ Polling /\ ~py.failed
    /\ LET s == [py EXCEPT !.failed = TRUE, !.hand = <<ErrorItem>>]
       IN  py' = IF py.kind \in Readers THEN ReaderEnds([py EXCEPT !.failed = TRUE], "error")
                 ELSE IF py.kind \in TextIterators \cup LineIterators THEN Finishing(s)
                 ELSE [s EXCEPT !.task = "sending"]
    /\ UNCHANGED decoder

\* The reader publishes what it read: CONSUMED becomes BUFFERED unless the
\* response was closed meanwhile; the bytes are returned either way.
BodyEnds ==
    /\ Polling /\ (py.failed \/ py.nextChunk = BodyChunks)
    /\ py' = IF py.kind \in Readers
             THEN [ReaderEnds(py, "eof") EXCEPT !.state = IF @ = "consumed" THEN "buffered" ELSE @]
             ELSE Finishing(py)
    /\ UNCHANGED decoder

\* The cancel branch of the select, while the task waits for a chunk: lines
\* are dropped where they are, text is flushed.
CancelSeen ==
    /\ Polling /\ py.told
    /\ py' = IF py.kind \in Readers THEN ReaderEnds(py, "closed")
             ELSE IF py.kind \in TextIterators THEN Finishing(py) ELSE TaskEnds(py)
    /\ UNCHANGED decoder
-----------------------------------------------------------------------------
(***************************************************************************)
(* The bridge: SyncBridge, or a Tokio channel of the same capacity.        *)
(***************************************************************************)
\* One look under the lock; what is next when the hand is empty.
SendItem ==
    /\ py.task = "sending"
    /\ IF Len(py.queue) < BridgeCapacity
       THEN LET s == Wake([py EXCEPT !.queue = Append(@, Head(py.hand)), !.hand = Tail(@)])
            IN  py' = IF s.hand # << >> THEN s
                      ELSE IF s.ending THEN TaskEnds(s) ELSE [s EXCEPT !.task = "polling"]
       ELSE py' = [py EXCEPT !.task = "parked"]
    /\ UNCHANGED decoder

\* The Notified future exists before the look, so a permit stored since counts.
SpaceNotified ==
    /\ py.task = "parked" /\ py.permit
    /\ py' = [py EXCEPT !.task = "sending", !.permit = FALSE]
    /\ UNCHANGED decoder

CallNext ==
    /\ py.kind \in Iterators /\ py.consumer = "idle" /\ py.outcome = "none"
    /\ py' = [py EXCEPT !.consumer = "waiting"]
    /\ UNCHANGED decoder

\* Mutant: the producer is not told of the room.
TakeItemSilently(state) == [state EXCEPT !.queue = Tail(@)]

TakeItem(state) == [state EXCEPT !.queue = Tail(@), !.permit = TRUE]
Delivered(state, item) ==
    [state EXCEPT !.consumer = "idle", !.got = IF item = ErrorItem THEN @ ELSE item]
EndSeen(s) == s.queue = << >> /\ s.closed
recv_blocking ==
    /\ py.consumer = "waiting"
    /\ py' = IF EndSeen(py) THEN [py EXCEPT !.consumer = "idle", !.outcome = "eof"]
             ELSE IF py.queue # << >> THEN Delivered(TakeItem(py), Head(py.queue))
             ELSE [py EXCEPT !.consumer = "asleep"]
    /\ UNCHANGED decoder

\* The iterator is collected: cancel, close, abort.
DropIterator ==
    /\ py.kind \in Iterators /\ py.task # "none" /\ py.consumer = "idle"
    /\ py' = [py EXCEPT !.consumer = "gone", !.closed = TRUE, !.task = "done", !.body = "released"]
    /\ UNCHANGED decoder

PyNext ==
    \/ drain_all_bytes \/ subscribe \/ aread \/ ZeroChunkSize
    \/ PyBytesChunkIterator \/ PyTextChunkIterator \/ PyLinesChunkIterator
    \/ PyRawBytesChunkIterator \/ PyAsyncBytesIterator \/ PyAsyncTextIterator
    \/ PyAsyncLinesIterator \/ PyAsyncRawBytesIterator
    \/ drain_and_close \/ exit
    \/ \E withheld, oversize \in BOOLEAN : ChunkArrives(withheld, oversize)
    \/ BodyFails \/ BodyEnds \/ CancelSeen
    \/ SendItem \/ SpaceNotified \/ CallNext \/ recv_blocking \/ DropIterator

PySpec == PyInit /\ [][PyNext]_pyVars

\* The runtime polls a task that can go on and a thread inside recv_blocking
\* runs; the server owes nothing, and nobody has to call next or close.
PyFairness ==
    /\ WF_pyVars(subscribe) /\ WF_pyVars(CancelSeen) /\ WF_pyVars(SendItem)
    /\ WF_pyVars(SpaceNotified) /\ WF_pyVars(recv_blocking)
-----------------------------------------------------------------------------
(* BridgeNeverStalls: a thread asleep in __next__ goes on once there is an     *)
(* item or the end, and a producer parked on a full bridge goes on once there  *)
(* is room: neither side loses the other's wakeup (sync_bridge.rs).  Nor does  *)
(* an aread() lose the wakeup of a close: its subscription is made in the same *)
(* step as the take, so it gives the body up while the server stays silent.    *)
BridgeNeverStalls ==
    /\ (py.consumer \in {"waiting", "asleep"} /\ (py.queue # << >> \/ py.closed))
           ~> py.consumer \notin {"waiting", "asleep"}
    /\ (py.task = "parked" /\ Len(py.queue) < BridgeCapacity) ~> py.task # "parked"
    /\ (py.state = "closed" /\ py.kind = "aread") ~> py.body = "released"

(* EndMeansWhole: an iterator that simply ends, without an error before it and *)
(* not closed under it, has handed out the whole body, queue, withheld         *)
(* characters and last line included.  The one exception is the code's: of a   *)
(* chunk that is oversize for the decoder of a named charset the rest is       *)
(* dropped without an error (decoding.rs).  Bytes, and text without a named    *)
(* charset, lose nothing.                                                      *)
EndMeansWhole ==
    py.outcome = "eof" /\ ~py.failed /\ py.state # "closed" =>
        /\ py.got = BodyChunks
        /\ decoder.lost => decoder.named /\ py.kind \in TextIterators \cup LineIterators

(* CloseReleasesBody: after close() or the end of the with block, whoever owns *)
(* the body drops it and the pool lease comes back - what the comment in       *)
(* drain_and_close promises for any reader or iterator.                        *)
CloseReleasesBody == py.state = "closed" ~> py.body = "released"
=============================================================================
