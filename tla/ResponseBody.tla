---------------------------- MODULE ResponseBody ----------------------------
(***************************************************************************)
(* The life of one response body: finalization (pipeline/finalize.rs,      *)
(* response_decode.rs) decides what wraps it and hands it the pool lease;  *)
(* the caller takes it once as a stream (body.rs); polling that stream     *)
(* runs the read and total deadlines (stream/body_timeout.rs), the size    *)
(* limits (body.rs, compression.rs) and the release of the lease.          *)
(*                                                                         *)
(* A poll is three steps, because time passes inside it: the deadline is   *)
(* checked, the transport is polled, and the deadline is checked again     *)
(* before a chunk is let through.  A chunk is its decoded size; what a     *)
(* decoder makes of the bytes is not modelled, and the decompression ratio *)
(* may be found exceeded at any chunk.  The lease is a PoolGuard that owns *)
(* a permit or a deadline (a guard with neither is dropped unnoticed).     *)
(* A native call's caller gets the body itself, frame by frame, with the   *)
(* same deadlines around it and no decoder or limit (NativeResponseBody).  *)
(***************************************************************************)
EXTENDS Naturals, Sequences

CONSTANTS Encodings,     \* Content-Encoding values, from the ones below
          ChunkSizes,    \* decoded sizes of the chunks the server may send
          MaxChunks,     \* bound: chunks the server sends
          Totals,        \* possible absolute total deadlines (Never: none)
          Reads,         \* possible read timeouts (Never: none)
          Limits,        \* possible max_decoded_body_size values (Never: none)
          MaxTime,       \* bound: the clock stops here unless a read timer is due later
          Never

ASSUME BodyAssumption ==
    /\ Encodings \subseteq {"none", "identity", "coded", "tooDeep", "unsupported"}
    /\ ChunkSizes \subseteq Nat /\ MaxChunks \in Nat /\ MaxTime \in Nat
    /\ Totals \subseteq Nat \cup {Never}
    /\ Reads \subseteq Nat \cup {Never}
    /\ Limits \subseteq Nat \cup {Never}
    /\ Never \notin Nat

VARIABLES now,        \* the clock
          conf,       \* [encoding, buffered, decompress, total, read, limit] of this request
          body,       \* the ResponseBody variant, or its place in the pipeline
          wrapped,    \* a LimitedResponseStream is around the transport stream
          lease,      \* who holds the PoolGuard: "pipeline", "body", "stream", "released"
          stream,     \* what take_stream gave: "none", "once", "raw", "decoded", "native",
                      \* "refused", "dropped"
          source,     \* what the transport has for us: [chunks, sent, end]
          pc,         \* the consumer's poll: "idle", "inner", "got", "parked"
          timer,      \* [started, fused, read]: BodyTimeoutStream's fields
          limiter,    \* [count, hit]: the size limiter's fields
          item,       \* the size of the chunk a poll has in hand, or of a buffered body
          seen        \* what the consumer was given: [last, bytes, taken]

vars == <<now, conf, body, wrapped, lease, stream, source, pc, timer, limiter, item, seen>>
pollVars == <<pc, timer, limiter, item>>

Configs == [encoding : Encodings, buffered : BOOLEAN, decompress : BOOLEAN,
            total : Totals, read : Reads, limit : Limits]

\* Outcomes of a poll that end the stream.
Errors == {"total", "read", "limit", "error"}
Terminal == Errors \cup {"eof"}

Init == /\ now = 0
        /\ conf \in Configs
        /\ body = "transported"
        /\ wrapped = FALSE
        /\ lease = "pipeline"
        /\ stream = "none"
        /\ source = [chunks |-> <<>>, sent |-> 0, end |-> "open"]
        /\ pc = "idle"
        /\ timer = [started |-> FALSE, fused |-> FALSE, read |-> Never]
        /\ limiter = [count |-> 0, hit |-> FALSE]
        /\ item = 0
        /\ seen = [last |-> "nothing", bytes |-> 0, taken |-> 0]

-----------------------------------------------------------------------------
(* The environment: the clock and the server. *)

Tick == /\ now < MaxTime \/ (timer.read # Never /\ now < timer.read)
        /\ now' = now + 1
        /\ UNCHANGED <<conf, body, wrapped, lease, stream, source, pollVars, seen>>

ServerSends(n) ==
    /\ source.end = "open"
    /\ source.sent < MaxChunks
    /\ source' = [source EXCEPT !.chunks = Append(@, n), !.sent = @ + 1]
    /\ UNCHANGED <<now, conf, body, wrapped, lease, stream, pollVars, seen>>

ServerEnds(how) ==
    /\ source.end = "open"
    /\ source' = [source EXCEPT !.end = how]
    /\ UNCHANGED <<now, conf, body, wrapped, lease, stream, pollVars, seen>>

-----------------------------------------------------------------------------
(* Finalization. *)

\* apply_decompression: which variant the body becomes, or "failed".  A
\* buffered body is decoded here and now.
DecodedVariant ==
    IF ~conf.decompress THEN IF conf.buffered THEN "buffered" ELSE "streaming"
    ELSE IF conf.encoding = "unsupported" THEN "failed"
    ELSE IF conf.buffered THEN "buffered"
    ELSE IF conf.encoding = "none" THEN "streaming"
    ELSE "encoded"

\* limit_decoded_size wraps a plain stream; an encoded one keeps the limit for
\* its decoder.
WrapsPlainStream(variant) == conf.limit # Never /\ variant = "streaming"

\* attach_lease: a streaming body keeps the guard, a complete one drops it, and
\* so does a request that failed.
LeaseAfter(variant) == IF variant \in {"streaming", "encoded"} THEN "body" ELSE "released"

\* A buffered body of n decoded bytes is refused: its coding is broken or
\* nested too deep, or it is too large.
BufferedFails(n, broken) ==
    \/ conf.decompress /\ conf.encoding = "coded" /\ broken
    \/ conf.decompress /\ conf.encoding = "tooDeep"
    \/ conf.limit # Never /\ n > conf.limit

\* finalize_response.
FinalizeResponse(n, broken) ==
    /\ body = "transported"
    /\ conf.buffered \/ n = 0
    /\ body' = IF conf.buffered /\ BufferedFails(n, broken) THEN "failed" ELSE DecodedVariant
    /\ wrapped' = WrapsPlainStream(body')
    /\ lease' = LeaseAfter(body')
    /\ item' = n
    /\ UNCHANGED <<now, conf, stream, source, pc, timer, limiter, seen>>

-----------------------------------------------------------------------------
(* Selecting a stream: take_stream. *)

\* The stream the body becomes.  A decoder chain deeper than
\* MAX_NESTING_DEPTH is refused only here.
Selected(raw) ==
    IF body = "buffered" THEN "once"
    ELSE IF body = "streaming" \/ raw THEN "raw"
    ELSE IF conf.encoding = "tooDeep" THEN "refused" ELSE "decoded"

\* take_stream.  The guard moves into the stream, or is dropped with the
\* encoded body when the decoder cannot be built.
TakeStream(raw) ==
    /\ body \in {"buffered", "streaming", "encoded"}
    /\ stream' = Selected(raw)
    /\ body' = "consumed"
    /\ lease' = IF stream' \in {"raw", "decoded"} THEN "stream" ELSE "released"
    /\ seen' = [seen EXCEPT !.taken = @ + 1]
    /\ UNCHANGED <<now, conf, wrapped, source, pollVars>>

\* send_native_http_body gives its caller a NativeResponseBody that owns the
\* guard; decoding and limits are not part of a native request.
NativeResponse ==
    /\ body = "transported"
    /\ ~conf.buffered /\ ~conf.decompress /\ conf.encoding = "none" /\ conf.limit = Never
    /\ body' = "consumed"
    /\ stream' = "native"
    /\ lease' = "stream"
    /\ seen' = [seen EXCEPT !.taken = @ + 1]
    /\ UNCHANGED <<now, conf, wrapped, source, pollVars>>

\* The Response is dropped without its body having been taken.
DropBody ==
    /\ body \in {"buffered", "streaming", "encoded"}
    /\ body' = "dropped"
    /\ lease' = "released"
    /\ UNCHANGED <<now, conf, wrapped, stream, source, pollVars, seen>>

\* The consumer drops the stream between two polls or while it is parked.
DropStream ==
    /\ stream \in {"once", "raw", "decoded", "native"}
    /\ pc \in {"idle", "parked"}
    /\ stream' = "dropped"
    /\ lease' = "released"
    /\ pc' = "idle"
    /\ UNCHANGED <<now, conf, body, wrapped, source, timer, limiter, item, seen>>

-----------------------------------------------------------------------------
(* Polling. *)

Due(deadline) == deadline # Never /\ now >= deadline

\* BodyTimeoutStream reads its policy from the lease: none without a deadline.
TotalExpired == Due(conf.total)

\* Mutant: the guard lives as long as the stream.
ReturnKeepsLease(r) ==
    /\ seen' = [seen EXCEPT !.last = r]
    /\ pc' = "idle"
    /\ UNCHANGED lease

\* The poll returns r.  LeasedResponseStream lets go of the guard on a
\* terminal result.
Return(r) ==
    /\ seen' = [seen EXCEPT !.last = r]
    /\ lease' = IF r \in Terminal THEN "released" ELSE lease
    /\ pc' = "idle"

\* A deadline passed (or a native body ended): the timers go and the stream is
\* fused.
TimeOut(r) ==
    /\ timer' = [timer EXCEPT !.started = TRUE, !.fused = TRUE, !.read = Never]
    /\ Return(r)

\* Mutant: the read timer is not polled, so it wakes nobody.
WokenWithoutReadTimer == pc = "parked" /\ \/ source.chunks # <<>>
                                          \/ source.end # "open"
                                          \/ TotalExpired

\* A parked consumer is polled again when what it waits for has happened.
Woken == pc = "parked" /\ \/ source.chunks # <<>>
                          \/ source.end # "open"
                          \/ TotalExpired
                          \/ Due(timer.read)

\* The buffered body's one chunk, then the end.
PollOnce ==
    /\ stream = "once"
    /\ pc = "idle"
    /\ seen.last \in {"nothing", "chunk"}
    /\ pc' = "idle"
    /\ seen' = IF seen.last = "nothing"
                 THEN [seen EXCEPT !.last = "chunk", !.bytes = item] ELSE [seen EXCEPT !.last = "eof"]
    /\ UNCHANGED <<now, conf, body, wrapped, lease, stream, source, timer, limiter, item>>

\* poll_next up to the poll of the inner stream.
PollBegin ==
    /\ stream \in {"raw", "decoded", "native"}
    /\ pc = "idle" \/ Woken
    /\ seen.last # "eof"
    /\ \/ /\ timer.fused
          /\ Return("eof")
          /\ UNCHANGED timer
       \/ /\ ~timer.fused
          /\ TotalExpired
          /\ TimeOut("total")
       \/ /\ ~timer.fused
          /\ ~TotalExpired
          /\ timer' = IF timer.started \/ conf.read = Never
                        THEN [timer EXCEPT !.started = TRUE]
                        ELSE [timer EXCEPT !.started = TRUE, !.read = now + conf.read]
          /\ pc' = "inner"
          /\ UNCHANGED <<lease, seen>>
    /\ UNCHANGED <<now, conf, body, wrapped, stream, source, limiter, item>>

\* A limiter is around this stream: LimitedResponseStream around a plain one,
\* LimitingStream around the decoder of a coded one.
Limited == \/ wrapped
           \/ stream = "decoded" /\ conf.encoding = "coded" /\ conf.limit # Never

\* The inner stream ended or failed: the timers go.
InnerEnds(r) == /\ timer' = [timer EXCEPT !.read = Never]
                /\ Return(r)

\* The count c, with a chunk of n bytes added, crosses the limit.
Exceeds(c, n) == Limited /\ c > conf.limit

\* The decoder's output crosses max_decompression_ratio.
MayExceedRatio == stream = "decoded" /\ conf.encoding = "coded"

\* The inner stream has a chunk: the limiter counts it first.
InnerChunk ==
    LET n == Head(source.chunks)
        c == limiter.count + n
    IN  /\ source' = [source EXCEPT !.chunks = Tail(@)]
        /\ \/ /\ Exceeds(c, n) \/ MayExceedRatio
              /\ limiter' = [count |-> c, hit |-> TRUE]
              /\ InnerEnds("limit")
              /\ UNCHANGED item
           \/ /\ ~Exceeds(c, n)
              /\ limiter' = [limiter EXCEPT !.count = c]
              /\ item' = n
              /\ pc' = "got"
              /\ UNCHANGED <<timer, lease, seen>>

\* Nothing yet: the total deadline first, then the read deadline, else park.
InnerPending ==
    \/ /\ TotalExpired
       /\ TimeOut("total")
    \/ /\ ~TotalExpired
       /\ Due(timer.read)
       /\ TimeOut("read")
    \/ /\ ~TotalExpired
       /\ ~Due(timer.read)
       /\ pc' = "parked"
       /\ UNCHANGED <<timer, lease, seen>>

\* The poll of the inner stream.
PollInner ==
    /\ pc = "inner" /\ stream # "native"
    /\ \/ /\ limiter.hit
          /\ InnerEnds("eof")
          /\ UNCHANGED <<source, limiter, item>>
       \/ /\ ~limiter.hit
          /\ source.chunks # <<>>
          /\ InnerChunk
       \/ /\ ~limiter.hit
          /\ source.chunks = <<>>
          /\ source.end = "eof"
          /\ InnerEnds("eof")
          /\ UNCHANGED <<source, limiter, item>>
       \/ /\ ~limiter.hit
          /\ source.chunks = <<>>
          /\ source.end = "error"
          /\ source' = [source EXCEPT !.end = "eof"]
          /\ InnerEnds("error")
          /\ UNCHANGED <<limiter, item>>
       \/ /\ ~limiter.hit
          /\ source.chunks = <<>>
          /\ source.end = "open"
          /\ InnerPending
          /\ UNCHANGED <<source, limiter, item>>
    /\ UNCHANGED <<now, conf, body, wrapped, stream>>

\* The poll of a native body's frames: its end and its failure fuse it too.
NativeInner ==
    /\ pc = "inner" /\ stream = "native"
    /\ \/ /\ source.chunks # <<>>
          /\ source' = [source EXCEPT !.chunks = Tail(@)]
          /\ item' = Head(source.chunks)
          /\ pc' = "got"
          /\ UNCHANGED <<timer, lease, seen>>
       \/ /\ source.chunks = <<>> /\ source.end # "open"
          /\ TimeOut(source.end)
          /\ UNCHANGED <<source, item>>
       \/ /\ source.chunks = <<>> /\ source.end = "open"
          /\ InnerPending
          /\ UNCHANGED <<source, item>>
    /\ UNCHANGED <<now, conf, body, wrapped, stream, limiter>>

\* Mutant: a chunk in hand is always let through.
PollGotNoRecheck ==
    /\ pc = "got"
    /\ timer' = [timer EXCEPT !.read = IF @ = Never THEN @ ELSE now + conf.read]
    /\ seen' = [seen EXCEPT !.last = "chunk", !.bytes = @ + item]
    /\ pc' = "idle"
    /\ UNCHANGED <<now, conf, body, wrapped, lease, stream, source, limiter, item>>

\* A chunk is in hand: let through unless the deadline has passed meanwhile,
\* and the read deadline starts over.
PollGot ==
    /\ pc = "got"
    /\ \/ /\ TotalExpired
          /\ TimeOut("total")
       \/ /\ ~TotalExpired
          /\ timer' = [timer EXCEPT !.read = IF @ = Never THEN @ ELSE now + conf.read]
          /\ seen' = [seen EXCEPT !.last = "chunk", !.bytes = @ + item]
          /\ pc' = "idle"
          /\ UNCHANGED lease
    /\ UNCHANGED <<now, conf, body, wrapped, stream, source, limiter, item>>

-----------------------------------------------------------------------------
Poll == PollOnce \/ PollBegin \/ PollInner \/ NativeInner \/ PollGot

Next == \/ Tick
        \/ \E n \in ChunkSizes : ServerSends(n)
        \/ \E how \in {"eof", "error"} : ServerEnds(how)
        \/ \E n \in ChunkSizes \cup {0}, broken \in BOOLEAN : FinalizeResponse(n, broken)
        \/ \E raw \in BOOLEAN : TakeStream(raw)
        \/ NativeResponse \/ DropBody \/ DropStream \/ Poll

Spec == Init /\ [][Next]_vars

(* The clock does not stop and a consumer that has begun to poll goes on.  *)
(* The server need not ever send or end.                                   *)
FairSpec == Spec /\ WF_vars(Tick) /\ WF_vars(Poll)

-----------------------------------------------------------------------------
\* The type invariant; a body is consumed at most once.
TypeOK ==
    /\ now \in Nat
    /\ conf \in Configs
    /\ body \in {"transported", "buffered", "streaming", "encoded", "consumed", "dropped", "failed"}
    /\ wrapped \in BOOLEAN
    /\ lease \in {"pipeline", "body", "stream", "released"}
    /\ stream \in {"none", "once", "raw", "decoded", "native", "refused", "dropped"}
    /\ source \in [chunks : Seq(ChunkSizes), sent : Nat, end : {"open", "eof", "error"}]
    /\ pc \in {"idle", "inner", "got", "parked"}
    /\ timer \in [started : BOOLEAN, fused : BOOLEAN, read : Nat \cup {Never}]
    /\ limiter \in [count : Nat, hit : BOOLEAN]
    /\ item \in Nat
    /\ seen \in [last : {"nothing", "chunk"} \cup Terminal, bytes : Nat, taken : 0..1]

(* The pool slot is held exactly as long as the response can still produce *)
(* bytes: it goes with the terminal result, a drop, or a complete body,    *)
(* and not a poll earlier.                                                 *)
LeaseExact ==
    lease = "released" <=>
        \/ body \in {"buffered", "dropped", "failed"}
        \/ stream \in {"once", "refused", "dropped"}
        \/ seen.last \in Terminal

(* No chunk is handed out too late or beyond the limit.  Late: at or after *)
(* the absolute total deadline, however the clock and a poll interleave -  *)
(* "a ready chunk that arrives at or after the absolute deadline never     *)
(* extends the request".  Beyond: more decoded bytes than                  *)
(* max_decoded_body_size.  Raw bytes of a compressed body are not decoded  *)
(* and not limited; nor, against the comment on limit_decoded_size, is a   *)
(* streaming body whose coding is identity: it gets neither a decoder nor  *)
(* a limiting stream.                                                      *)
SizeLimited ==
    /\ conf.limit # Never
    /\ wrapped \/ stream \in {"once", "decoded"}
    /\ ~(stream = "decoded" /\ conf.encoding = "identity")
DeliveryBounded ==
    [][seen'.bytes # seen.bytes =>
           /\ stream # "once" => ~TotalExpired
           /\ SizeLimited => seen'.bytes <= conf.limit]_vars

(* A consumer that waits for a silent server is let go by its deadline: a  *)
(* parked poll whose request has a read or a total timeout is resumed.     *)
ParkedIsResumed ==
    (pc = "parked" /\ (conf.read # Never \/ conf.total # Never)) ~> (pc # "parked")

=============================================================================
