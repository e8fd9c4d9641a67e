------------------------------ MODULE FfiStream ------------------------------
(***************************************************************************)
(* The C streaming interface (eggfetch-ffi/src/streaming.rs): a producer   *)
(* task that owns the body, a bounded channel, and host threads that call  *)
(* next, cancel and free on one handle.                                    *)
(*                                                                         *)
(* Chunks are numbered; ErrorChunk is a mid-stream failure.  A next call   *)
(* is several steps, because it gives the receiver back only at its end    *)
(* and other threads find the slot empty until then.                       *)
(***************************************************************************)
EXTENDS Naturals, Sequences, SequencesExt

CONSTANTS HostThreads,
          StreamChunks,     \* bound: chunks of the body
          ChannelCapacity   \* 16 in the code

ASSUME FfiStreamAssumption == StreamChunks \in Nat /\ ChannelCapacity \in Nat \ {0}

ErrorChunk == StreamChunks + 1
Nothing == 0

VARIABLE ff

ffiVars == <<ff>>

\* slot: the receiver is in its mutex; receiver: it still exists; flag: the
\* cancel watch, seen: its value when the call subscribed; got: chunks handed
\* to the host; lost: dropped for want of memory.  At "null" the call has
\* returned null and the host has not looked at the error slot, which all
\* threads share; cleared: a delivery on another thread emptied it since.
FfiState ==
    [handle : BOOLEAN, slot : BOOLEAN, receiver : BOOLEAN, flag : BOOLEAN,
     lastError : {"none", "concurrent", "cancelled", "body", "memory", "runtime"},
     producer : {"none", "polling", "sending", "done"}, inHand : 0 .. ErrorChunk,
     produced : 0 .. StreamChunks, queue : Seq(1 .. ErrorChunk),
     pc : [HostThreads -> {"idle", "took", "refused", "parked", "chunk", "restoring",
                           "noMemory", "null"}],
     seen : [HostThreads -> BOOLEAN], item : [HostThreads -> 0 .. ErrorChunk],
     got : Seq(1 .. StreamChunks), lost : 0 .. StreamChunks, cleared : [HostThreads -> BOOLEAN]]

FfiInit ==
    ff = [handle |-> FALSE, slot |-> TRUE, receiver |-> TRUE, flag |-> FALSE,
          lastError |-> "none", producer |-> "none", inHand |-> Nothing, produced |-> 0,
          queue |-> << >>, pc |-> [t \in HostThreads |-> "idle"],
          seen |-> [t \in HostThreads |-> FALSE],
          item |-> [t \in HostThreads |-> Nothing], got |-> << >>, lost |-> 0,
          cleared |-> [t \in HostThreads |-> FALSE]]

\* The head has arrived: the body moves into the producer task.
eggfetch_client_send_streaming ==
    /\ ff.producer = "none"
    /\ ff' = [ff EXCEPT !.handle = TRUE, !.producer = "polling"]
-----------------------------------------------------------------------------
(***************************************************************************)
(* The producer.  It looks at the flag only when the body yields.          *)
(***************************************************************************)
ProducerGets(x) ==
    /\ ff.producer = "polling" /\ ff.inHand # ErrorChunk
    /\ ff' = IF ff.flag THEN [ff EXCEPT !.producer = "done"]
             ELSE [ff EXCEPT !.inHand = x, !.producer = "sending",
                             !.produced = IF x = ErrorChunk THEN @ ELSE x]
BodyYields == ff.produced < StreamChunks /\ ProducerGets(ff.produced + 1)
BodyErrs == ProducerGets(ErrorChunk)
BodyIsOver ==
    /\ ff.producer = "polling" /\ ff.produced = StreamChunks
    /\ ff' = [ff EXCEPT !.producer = "done"]

\* A send waits for room and fails once the receiver is gone.
ProducerSends ==
    /\ ff.producer = "sending" /\ (~ff.receiver \/ Len(ff.queue) < ChannelCapacity)
    /\ ff' = IF ~ff.receiver THEN [ff EXCEPT !.producer = "done"]
             ELSE [ff EXCEPT !.queue = Append(@, ff.inHand),
                             !.producer = IF ff.inHand = ErrorChunk THEN "done" ELSE "polling"]
-----------------------------------------------------------------------------
(***************************************************************************)
(* eggfetch_response_stream_next, on one thread.                           *)
(***************************************************************************)
ReturnedNull(state, t) == [state EXCEPT !.pc[t] = "null", !.item[t] = Nothing]
\* Null, for good: the receiver is dropped.
StreamEnds(state, t, why) ==
    [ReturnedNull(state, t) EXCEPT !.receiver = FALSE, !.queue = << >>, !.lastError = why]

\* An empty slot means another next - or a stream that has ended.
NextTakes(t) ==
    /\ ff.handle /\ ff.pc[t] = "idle"
    /\ ff' = IF ff.slot THEN [ff EXCEPT !.slot = FALSE, !.pc[t] = "took"]
             ELSE [ff EXCEPT !.pc[t] = "refused"]

\* The contention is recorded after the slot's lock is dropped.
NextIsRefused(t) ==
    /\ ff.pc[t] = "refused"
    /\ ff' = [ReturnedNull(ff, t) EXCEPT !.lastError = "concurrent"]

\* Mutant: the value is trusted to arrive as a change.
CancelNotLookedAt == FALSE

\* Subscribing marks the present value as seen, hence the look at it.
CancelledBefore == ff.flag
NextParks(t) ==
    /\ ff.pc[t] = "took"
    /\ ff' = IF CancelledBefore THEN StreamEnds(ff, t, "cancelled")
             ELSE [ff EXCEPT !.pc[t] = "parked", !.seen[t] = ff.flag]

\* Mutant: the receiver is back before its chunk is copied.
SlotBackEarly(x) == x # ErrorChunk

\* The receiver stays out while its chunk is copied.
SlotWhileCopying(x) == FALSE

\* The select takes either branch when both are ready.
NextReceives(t) ==
    /\ ff.pc[t] = "parked"
    /\ \/ /\ ff.queue # << >>
          /\ ff' = [ff EXCEPT !.pc[t] = "chunk", !.item[t] = Head(ff.queue), !.queue = Tail(@),
                          !.slot = SlotWhileCopying(Head(ff.queue))]
       \/ /\ ff.queue = << >> /\ ff.producer = "done"
          /\ ff' = [ReturnedNull(ff, t) EXCEPT !.receiver = FALSE]
NextCancelled(t) ==
    /\ ff.pc[t] = "parked" /\ ff.flag # ff.seen[t]
    /\ ff' = StreamEnds(ff, t, "cancelled")
\* blocking_send failed: no runtime, or the task was dropped.
RuntimeFails(t) ==
    /\ ff.pc[t] = "parked"
    /\ ff' = StreamEnds(ff, t, "runtime")

\* Mutant: the failure leaves the error slot empty.
FailureUnrecorded(t) == StreamEnds(ff, t, ff.lastError)

FailureRecorded(t) == StreamEnds(ff, t, "body")
ErrorReceived(t) ==
    /\ ff.pc[t] = "chunk" /\ ff.item[t] = ErrorChunk
    /\ ff' = FailureRecorded(t)

\* The chunk is copied and the error slot cleared, whoever's error it holds,
\* before the receiver is back.
ChunkCopied(t) ==
    /\ ff.pc[t] = "chunk" /\ ff.item[t] # ErrorChunk
    /\ ff' = [ff EXCEPT !.pc[t] = "restoring", !.lastError = "none", !.got = Append(@, ff.item[t]),
                    !.cleared = [u \in HostThreads |-> ff.pc[u] = "null"]]
NextReturnsChunk(t) ==
    /\ ff.pc[t] = "restoring"
    /\ ff' = [ff EXCEPT !.pc[t] = "idle", !.item[t] = Nothing, !.slot = TRUE]
\* No memory: the chunk is dropped, the receiver goes back, then the error.
CopyFails(t) ==
    /\ ff.pc[t] = "chunk" /\ ff.item[t] # ErrorChunk
    /\ ff' = [ff EXCEPT !.pc[t] = "noMemory", !.lost = @ + 1, !.slot = TRUE]
NextReturnsNoMemory(t) ==
    /\ ff.pc[t] = "noMemory"
    /\ ff' = [ReturnedNull(ff, t) EXCEPT !.lastError = "memory"]

\* The host asks eggfetch_response_stream_error, or goes on without asking.
HostLooks(t) ==
    /\ ff.pc[t] = "null"
    /\ ff' = [ff EXCEPT !.pc[t] = "idle", !.cleared[t] = FALSE]
-----------------------------------------------------------------------------
\* send_replace: the flag is stored whether or not anybody is subscribed.
eggfetch_response_stream_cancel ==
    /\ ff.handle /\ ~ff.flag
    /\ ff' = [ff EXCEPT !.flag = TRUE]
\* Calls that are under way keep their own reference to the state.
eggfetch_response_stream_free ==
    /\ ff.handle
    /\ ff' = [ff EXCEPT !.flag = TRUE, !.handle = FALSE]

FfiNext ==
    \/ eggfetch_client_send_streaming
    \/ BodyYields \/ BodyErrs \/ BodyIsOver \/ ProducerSends
    \/ \E t \in HostThreads :
          \/ NextTakes(t) \/ NextIsRefused(t) \/ HostLooks(t)
          \/ NextParks(t) \/ NextReceives(t) \/ NextCancelled(t)
          \/ RuntimeFails(t) \/ ErrorReceived(t) \/ ChunkCopied(t) \/ NextReturnsChunk(t)
          \/ CopyFails(t) \/ NextReturnsNoMemory(t)
    \/ eggfetch_response_stream_cancel \/ eggfetch_response_stream_free

FfiSpec == FfiInit /\ [][FfiNext]_ffiVars

\* A host thread inside a call runs, and a parked one whose cancel arrived is
\* polled; the server owes nothing.
FfiFairness ==
    \A t \in HostThreads : WF_ffiVars(NextParks(t)) /\ WF_ffiVars(NextCancelled(t))
-----------------------------------------------------------------------------
(* CancelWakesNext: a next call that waits for a silent server returns once   *)
(* the stream is cancelled or freed, wherever in the call the cancel falls.   *)
CancelWakesNext ==
    \A t \in HostThreads : (ff.flag /\ ff.pc[t] \in {"took", "parked"})
                               ~> ff.pc[t] \notin {"took", "parked"}

(* ChunksStayInOrder: threads that share a stream get its chunks in order and *)
(* never one twice, and only an allocation failure skips one.                 *)
ChunksStayInOrder ==
    /\ \A i \in 1 .. Len(ff.got) - 1 : ff.got[i] < ff.got[i + 1]
    /\ ff.got # << >> => Last(ff.got) <= Len(ff.got) + ff.lost

(* FailureIsReported: when next has returned null and the host finds the      *)
(* error slot empty, the whole body was delivered or somebody cancelled, unless*)
(* a chunk delivered to another thread emptied the slot in between: there the  *)
(* code does not keep its promise that contention can be told from a clean end.*)
(* Once the receiver is gone, nothing empties the slot and a failure stays on  *)
(* record for every thread.                                                    *)
Whole == Len(ff.got) + ff.lost = StreamChunks
NullIsAccountedFor(t) == ff.lastError = "none" => Whole \/ ff.flag \/ ff.cleared[t]
FailureIsReported ==
    /\ \A t \in HostThreads : ff.pc[t] = "null" => NullIsAccountedFor(t)
    /\ ~ff.receiver /\ ff.lastError = "none" => Whole \/ ff.flag
=============================================================================
