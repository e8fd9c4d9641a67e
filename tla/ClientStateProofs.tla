--------------------------- MODULE ClientStateProofs ---------------------------
(***************************************************************************)
(* Proofs about the parts that are state behind locks and ownership: the   *)
(* response body with its lease, an upgraded connection, the hand-read     *)
(* proxied response, the handles of the C interface, and route selection   *)
(* with its client caches; and about what a client hands out: the cookies  *)
(* of its jar, the lines of a response's text, and multipart bodies.       *)
(***************************************************************************)
EXTENDS ResponseBody, NetworkStream, RawResponse, RouteSelection, FfiHandles, CookieJar,
        LineStream, Multipart, FiniteSetTheorems, SequenceTheorems, WellFoundedInduction, TLAPS

(***************************************************************************)
(* Numbered sequences: bytes and chunks that follow one another.           *)
(***************************************************************************)
\* Two lengths add up to a length.
LEMMA SumOfLengths == \A a, b \in Nat : a + b \in Nat
OBVIOUS

\* One more at the end is one more in all.
LEMMA OneMore == \A a, b \in Nat : (a + b) + 1 = a + (b + 1)
OBVIOUS

\* One element moved from the second part to the first leaves the sum.
LEMMA OneMoved == \A a, b \in Nat : (a + 1) + (b - 1) = a + b
OBVIOUS

\* Nothing added on either side.
LEMMA NothingAdded == \A a \in Nat : a + 0 = a /\ 0 + a = a
OBVIOUS

\* The elements of q are numbered on from a.
Numbered(q, a) == \A i \in 1 .. Len(q) : q[i] = a + i

\* The empty sequence is numbered on from anywhere.
LEMMA NumberedEmpty == \A a : Numbered(<< >>, a)
BY DEF Numbered

\* Taking the first element off.
LEMMA NumberedTail ==
    ASSUME NEW S, NEW q \in Seq(S), NEW a \in Nat, q # << >>, Numbered(q, a)
    PROVE  /\ Head(q) = a + 1 /\ Head(q) \in S /\ Tail(q) \in Seq(S)
           /\ Len(Tail(q)) = Len(q) - 1 /\ Len(q) \in Nat \ {0} /\ Numbered(Tail(q), a + 1)
<1>1. /\ Head(q) \in S /\ Tail(q) \in Seq(S) /\ Len(Tail(q)) = Len(q) - 1
      /\ \A i \in 1 .. Len(Tail(q)) : Tail(q)[i] = q[i + 1]
  BY HeadTailProperties
<1>2. Len(q) \in Nat \ {0}
  BY EmptySeq
<1>3. Head(q) = q[1] /\ 1 \in 1 .. Len(q)
  BY <1>2
<1>4. ASSUME NEW i \in 1 .. Len(Tail(q))
      PROVE  Tail(q)[i] = (a + 1) + i
  <2>1. i + 1 \in 1 .. Len(q) /\ a + (i + 1) = (a + 1) + i
    BY <1>1, <1>2
  <2>2. QED
    BY <1>1, <2>1 DEF Numbered
<1>5. QED
  BY <1>1, <1>2, <1>3, <1>4 DEF Numbered

\* Adding the next element.
LEMMA NumberedAppend ==
    ASSUME NEW S, NEW q \in Seq(S), NEW a \in Nat, NEW x \in S, x = a + (Len(q) + 1), Numbered(q, a)
    PROVE  /\ Append(q, x) \in Seq(S) /\ Len(Append(q, x)) = Len(q) + 1 /\ Numbered(Append(q, x), a)
<1>1. /\ Append(q, x) \in Seq(S) /\ Len(Append(q, x)) = Len(q) + 1
      /\ \A i \in 1.. Len(q) : Append(q, x)[i] = q[i]
      /\ Append(q, x)[Len(q) + 1] = x
  BY AppendProperties
<1>2. Len(q) \in Nat
  BY LenProperties
<1>3. ASSUME NEW i \in 1 .. Len(q) + 1
      PROVE  Append(q, x)[i] = a + i
  <2>1. CASE i \in 1 .. Len(q)
    BY <1>1, <2>1 DEF Numbered
  <2>2. CASE i = Len(q) + 1
    BY <1>1, <2>2
  <2>3. QED
    BY <1>2, <2>1, <2>2
<1>4. QED
  BY <1>1, <1>3 DEF Numbered

\* Joining two sequences that follow one another.
LEMMA NumberedConcat ==
    ASSUME NEW S, NEW p \in Seq(S), NEW q \in Seq(S), NEW a \in Nat, Numbered(p, a),
           Numbered(q, a + Len(p))
    PROVE  /\ p \o q \in Seq(S) /\ Len(p \o q) = Len(p) + Len(q) /\ Numbered(p \o q, a)
<1>1. /\ p \o q \in Seq(S) /\ Len(p \o q) = Len(p) + Len(q)
      /\ \A i \in 1 .. Len(p) + Len(q) : (p \o q)[i] = IF i <= Len(p) THEN p[i] ELSE q[i - Len(p)]
  BY ConcatProperties
<1> DEFINE m == Len(p)
           n == Len(q)
<1>2. m \in Nat /\ n \in Nat
  BY LenProperties
<1>3. ASSUME NEW i \in 1 .. m + n
      PROVE  (p \o q)[i] = a + i
  <2>0. (p \o q)[i] = IF i <= m THEN p[i] ELSE q[i - m]
    BY <1>1
  <2>1. CASE i <= m
    <3>1. p[i] = a + i
      <4> HIDE DEF m, n
      <4>1. i \in 1 .. m
        BY <1>2, <2>1
      <4>2. QED
        BY <4>1 DEF Numbered, m
    <3>2. QED
      BY <2>0, <2>1, <3>1
  <2>2. CASE ~(i <= m)
    <3>1. i - m \in 1 .. n /\ (a + m) + (i - m) = a + i
      <4> HIDE DEF m, n
      <4>1. QED
        BY <1>2, <2>2
    <3>2. q[i - m] = (a + m) + (i - m)
      BY <3>1 DEF Numbered
    <3>3. QED
      BY <2>0, <2>2, <3>1, <3>2
  <2>3. QED
    BY <2>1, <2>2
<1>4. QED
  BY <1>1, <1>3 DEF Numbered

\* Taking a sequence apart after its k-th element.
LEMMA NumberedSplit ==
    ASSUME NEW S, NEW q \in Seq(S), NEW a \in Nat, NEW k \in 0 .. Len(q), Numbered(q, a)
    PROVE  /\ SubSeq(q, 1, k) \in Seq(S) /\ Len(SubSeq(q, 1, k)) = k /\ Numbered(SubSeq(q, 1, k), a)
           /\ SubSeq(q, k + 1, Len(q)) \in Seq(S) /\ Len(SubSeq(q, k + 1, Len(q))) = Len(q) - k
           /\ Numbered(SubSeq(q, k + 1, Len(q)), a + k)
<1>1. Len(q) \in Nat /\ k \in Nat /\ k <= Len(q)
  BY LenProperties
<1>2. \A i \in 1 .. Len(q) : q[i] \in S
  BY ElementOfSeq
<1>3. \A i \in 1 .. k : q[i] \in S
  BY <1>1, <1>2
<1>4. \A i \in k + 1 .. Len(q) : q[i] \in S
  BY <1>1, <1>2
<1>5. /\ SubSeq(q, 1, k) \in Seq(S) /\ Len(SubSeq(q, 1, k)) = IF 1 <= k THEN k - 1 + 1 ELSE 0
      /\ \A i \in 1 .. k - 1 + 1 : SubSeq(q, 1, k)[i] = q[1 + i - 1]
  BY <1>1, <1>3, SubSeqProperties
<1> DEFINE n == Len(q)
<1>6. k + 1 \in Int /\ n \in Int
  BY <1>1
<1>7. /\ SubSeq(q, k + 1, n) \in Seq(S)
      /\ Len(SubSeq(q, k + 1, n)) = IF k + 1 <= n THEN n - (k + 1) + 1 ELSE 0
      /\ \A i \in 1 .. n - (k + 1) + 1 : SubSeq(q, k + 1, n)[i] = q[(k + 1) + i - 1]
  BY <1>4, <1>6, SubSeqProperties
<1>8. Len(SubSeq(q, 1, k)) = k
  BY <1>1, <1>5
<1>9. Len(SubSeq(q, k + 1, n)) = n - k
  <2> HIDE DEF n
  <2>1. n \in Nat /\ k <= n
    BY <1>1 DEF n
  <2>2. QED
    BY <1>1, <1>7, <2>1
<1>10. ASSUME NEW i \in 1 .. k
       PROVE  SubSeq(q, 1, k)[i] = a + i
  <2>1. i \in 1 .. k - 1 + 1 /\ 1 + i - 1 = i /\ i \in 1 .. Len(q)
    BY <1>1
  <2>2. QED
    BY <1>5, <2>1 DEF Numbered
<1>11. ASSUME NEW i \in 1 .. n - k
       PROVE  SubSeq(q, k + 1, n)[i] = (a + k) + i
  <2>1. i \in 1 .. n - (k + 1) + 1 /\ (k + 1) + i - 1 = k + i /\ k + i \in 1 .. n /\ a + (k + i) = (a + k) + i
    <3> HIDE DEF n
    <3>1. n \in Nat
      BY <1>1 DEF n
    <3>2. QED
      BY <1>1, <3>1
  <2>2. QED
    BY <1>7, <2>1 DEF Numbered
<1>12. QED
  BY <1>5, <1>7, <1>8, <1>9, <1>10, <1>11 DEF Numbered

(***************************************************************************)
(* The response body.                                                      *)
(***************************************************************************)
PolledStreams == {"raw", "decoded", "native"}

\* Where the body is, who holds the lease and what was seen go together.
BodyPlaces ==
    /\ body = "transported" => lease = "pipeline"
    /\ body \in {"streaming", "encoded"} => lease = "body"
    /\ body \in {"buffered", "dropped", "failed"} => lease = "released"
    /\ body # "consumed" => stream = "none" /\ seen.last = "nothing" /\ seen.taken = 0
    /\ body = "consumed" => stream # "none"
    /\ stream \in {"once", "refused", "dropped"} => lease = "released"
    /\ stream \in PolledStreams => lease = IF seen.last \in Terminal THEN "released" ELSE "stream"

\* After an error no poll brings a chunk: the timer is fused, the limiter has hit or the
\* transport is over.
BodyEnded ==
    /\ pc # "idle" => stream \in PolledStreams
    /\ pc \in {"got", "parked"} => seen.last \notin Terminal
    /\ pc = "inner" => ~timer.fused /\ seen.last # "eof"
    /\ seen.last \in Errors /\ stream \in PolledStreams =>
          \/ timer.fused
          \/ stream # "native" /\ (limiter.hit \/ (source.chunks = <<>> /\ source.end = "eof"))

\* The limiter has counted at least what was handed out or is in hand.
InHand == IF pc = "got" THEN item ELSE 0
BodyCounted ==
    /\ stream = "none" => limiter.count = 0 /\ seen.bytes = 0
    /\ stream \in {"raw", "decoded"} => seen.bytes + InHand <= limiter.count
    /\ stream \in {"raw", "decoded"} /\ pc = "got" /\ Limited => limiter.count <= conf.limit
    /\ body = "buffered" \/ stream = "once" => (conf.limit # Never => item <= conf.limit)
    /\ stream = "native" => conf.limit = Never
    /\ stream = "decoded" => conf.encoding \in {"identity", "coded"}
    /\ body = "encoded" => conf.encoding \in {"identity", "coded", "tooDeep"}
    /\ wrapped => conf.limit # Never

\* A read timer runs only for a request with a read timeout.
BodyTimer == timer.read # Never => conf.read # Never

BodyInv ==
    /\ TypeOK
    /\ BodyTimer
    /\ BodyPlaces
    /\ BodyEnded
    /\ BodyCounted

\* A polled stream's timer, limiter, source and hand keep their types.
LEMMA BodyTypes ==
    ASSUME TypeOK, BodyTimer, BodyPlaces, [Next]_vars
    PROVE  TypeOK'
<1> USE BodyAssumption
<1> DEFINE SeenType == [last : {"nothing", "chunk"} \cup Terminal, bytes : Nat, taken : 0..1]
           TimerType == [started : BOOLEAN, fused : BOOLEAN, read : Nat \cup {Never}]
<1>c. /\ conf.read \in Nat \cup {Never} /\ conf.total \in Nat \cup {Never} /\ now \in Nat
      /\ item \in Nat /\ limiter.count \in Nat /\ seen.bytes \in Nat /\ source.sent \in Nat
      /\ source.chunks \in Seq(ChunkSizes) /\ seen.taken \in 0 .. 1
  BY DEF TypeOK, Configs
<1>1. CASE UNCHANGED vars
  BY <1>1 DEF vars, TypeOK
<1>2. CASE Tick
  BY <1>2, <1>c DEF Tick, TypeOK, pollVars
<1>3. ASSUME NEW n \in ChunkSizes, ServerSends(n)
      PROVE  TypeOK'
  <2> DEFINE q == Append(source.chunks, n)
             k == source.sent + 1
  <2>1. q \in Seq(ChunkSizes) /\ k \in Nat
    BY <1>c, AppendProperties
  <2>2. source' = [source EXCEPT !.chunks = q, !.sent = k]
    BY <1>3 DEF ServerSends
  <2> HIDE DEF q, k
  <2>3. source' \in [chunks : Seq(ChunkSizes), sent : Nat, end : {"open", "eof", "error"}]
    BY <2>1, <2>2 DEF TypeOK
  <2>4. QED
    BY <1>3, <2>3 DEF ServerSends, TypeOK, pollVars
<1>4. ASSUME NEW how \in {"eof", "error"}, ServerEnds(how)
      PROVE  TypeOK'
  <2>1. source' \in [chunks : Seq(ChunkSizes), sent : Nat, end : {"open", "eof", "error"}]
    BY <1>4 DEF ServerEnds, TypeOK
  <2>2. QED
    BY <1>4, <2>1 DEF ServerEnds, TypeOK, pollVars
<1>5. ASSUME NEW n \in ChunkSizes \cup {0}, NEW broken \in BOOLEAN, FinalizeResponse(n, broken)
      PROVE  TypeOK'
  <2>1. body' \in {"failed", "buffered", "streaming", "encoded"} /\ lease' \in {"body", "released"}
        /\ wrapped' \in BOOLEAN /\ item' \in Nat
    BY <1>5 DEF FinalizeResponse, DecodedVariant, LeaseAfter, WrapsPlainStream
  <2>2. QED
    BY <1>5, <2>1 DEF FinalizeResponse, TypeOK
<1>s. ASSUME body # "consumed", seen' = [seen EXCEPT !.taken = @ + 1]
      PROVE  seen' \in [last : {"nothing", "chunk"} \cup Terminal, bytes : Nat, taken : 0..1]
  <2>1. seen.taken + 1 = 1 /\ 1 \in 0 .. 1
    BY <1>s DEF BodyPlaces
  <2>2. seen' = [seen EXCEPT !.taken = 1]
    BY <1>s, <2>1
  <2>3. QED
    BY <2>1, <2>2 DEF TypeOK
<1>6. ASSUME NEW raw \in BOOLEAN, TakeStream(raw)
      PROVE  TypeOK'
  <2>1. seen' \in [last : {"nothing", "chunk"} \cup Terminal, bytes : Nat, taken : 0..1]
    BY <1>6, <1>s DEF TakeStream
  <2>2. stream' \in {"once", "raw", "refused", "decoded"} /\ lease' \in {"stream", "released"}
    BY <1>6 DEF TakeStream, Selected
  <2>3. QED
    BY <1>6, <2>1, <2>2 DEF TakeStream, TypeOK, pollVars
<1>7. CASE NativeResponse
  <2>1. seen' \in [last : {"nothing", "chunk"} \cup Terminal, bytes : Nat, taken : 0..1]
    BY <1>7, <1>s DEF NativeResponse
  <2>2. QED
    BY <1>7, <2>1 DEF NativeResponse, TypeOK, pollVars
<1>8. CASE DropBody
  BY <1>8 DEF DropBody, TypeOK, pollVars
<1>9. CASE DropStream
  BY <1>9 DEF DropStream, TypeOK
<1>10. CASE PollOnce
  <2>1. CASE seen' = [seen EXCEPT !.last = "chunk", !.bytes = item]
    <3>1. seen' \in SeenType
      BY <1>c, <2>1 DEF TypeOK
    <3>2. QED
      BY <1>10, <3>1 DEF PollOnce, TypeOK
  <2>2. CASE seen' = [seen EXCEPT !.last = "eof"]
    BY <1>10, <1>c, <2>2 DEF PollOnce, TypeOK, Terminal
  <2>3. QED
    BY <1>10, <2>1, <2>2 DEF PollOnce
<1>r. ASSUME NEW r \in Terminal, Return(r)
      PROVE  /\ seen' \in [last : {"nothing", "chunk"} \cup Terminal, bytes : Nat, taken : 0..1]
             /\ lease' = "released" /\ pc' = "idle"
  BY <1>r DEF Return, TypeOK
<1>i. ASSUME timer' = [timer EXCEPT !.read = Never]
      PROVE  timer' \in [started : BOOLEAN, fused : BOOLEAN, read : Nat \cup {Never}]
  BY <1>i DEF TypeOK
<1>o. ASSUME NEW r \in Terminal, TimeOut(r)
      PROVE  /\ seen' \in [last : {"nothing", "chunk"} \cup Terminal, bytes : Nat, taken : 0..1]
             /\ lease' = "released" /\ pc' = "idle"
             /\ timer' \in [started : BOOLEAN, fused : BOOLEAN, read : Nat \cup {Never}]
  BY <1>o, <1>r DEF TimeOut, TypeOK
<1>p. ASSUME InnerPending
      PROVE  /\ seen' \in [last : {"nothing", "chunk"} \cup Terminal, bytes : Nat, taken : 0..1]
             /\ lease' \in {lease, "released"} /\ pc' \in {"idle", "parked"}
             /\ timer' \in [started : BOOLEAN, fused : BOOLEAN, read : Nat \cup {Never}]
  BY <1>p, <1>o DEF InnerPending, TypeOK, Terminal, Errors
<1>11. CASE PollBegin
  <2>1. CASE Return("eof") /\ UNCHANGED timer
    BY <1>11, <1>r, <2>1 DEF PollBegin, TypeOK, Terminal
  <2>2. CASE TimeOut("total")
    BY <1>11, <1>o, <2>2 DEF PollBegin, TypeOK, Terminal, Errors
  <2>3. CASE pc' = "inner" /\ UNCHANGED <<lease, seen>> /\ timer' = [timer EXCEPT !.started = TRUE]
    <3>1. timer' \in TimerType
      BY <2>3 DEF TypeOK
    <3>2. QED
      BY <1>11, <2>3, <3>1 DEF PollBegin, TypeOK
  <2>4. CASE pc' = "inner" /\ UNCHANGED <<lease, seen>> /\ conf.read # Never
             /\ timer' = [timer EXCEPT !.started = TRUE, !.read = now + conf.read]
    <3> DEFINE d == now + conf.read
    <3>1. d \in Nat
      BY <1>c, <2>4
    <3>2. timer' = [timer EXCEPT !.started = TRUE, !.read = d]
      BY <2>4
    <3> HIDE DEF d
    <3>3. timer' \in TimerType
      BY <3>1, <3>2 DEF TypeOK
    <3>4. QED
      BY <1>11, <2>4, <3>3 DEF PollBegin, TypeOK
  <2>5. QED
    BY <1>11, <2>1, <2>2, <2>3, <2>4 DEF PollBegin
<1>h. ASSUME source.chunks # <<>>
      PROVE  Head(source.chunks) \in ChunkSizes /\ Tail(source.chunks) \in Seq(ChunkSizes)
  BY <1>c, <1>h, HeadTailProperties
<1>k. ASSUME source' = [source EXCEPT !.chunks = Tail(@)], source.chunks # <<>>
      PROVE  source' \in [chunks : Seq(ChunkSizes), sent : Nat, end : {"open", "eof", "error"}]
  BY <1>h, <1>k DEF TypeOK
<1>12. CASE PollInner
  <2>1. CASE InnerEnds("eof") /\ UNCHANGED <<source, limiter, item>>
    BY <1>12, <1>r, <1>i, <2>1 DEF PollInner, InnerEnds, TypeOK, Terminal
  <2>2. CASE source.chunks # <<>> /\ InnerChunk
    <3> DEFINE n == Head(source.chunks)
               c == limiter.count + n
    <3>0. n \in Nat
      BY <1>h, <2>2
    <3> HIDE DEF n
    <3>1. n \in Nat /\ c \in Nat
      BY <1>c, <3>0
    <3>2. source' \in [chunks : Seq(ChunkSizes), sent : Nat, end : {"open", "eof", "error"}]
      BY <1>k, <2>2 DEF InnerChunk
    <3>3. \/ limiter' = [count |-> c, hit |-> TRUE] /\ InnerEnds("limit") /\ UNCHANGED item
          \/ limiter' = [limiter EXCEPT !.count = c] /\ item' = n /\ pc' = "got" /\ UNCHANGED <<timer, lease, seen>>
      BY <2>2 DEF InnerChunk, n
    <3> HIDE DEF c
    <3>4. CASE limiter' = [count |-> c, hit |-> TRUE] /\ InnerEnds("limit") /\ UNCHANGED item
      BY <1>12, <1>r, <1>i, <3>1, <3>2, <3>4 DEF PollInner, InnerEnds, TypeOK, Terminal, Errors
    <3>5. CASE limiter' = [limiter EXCEPT !.count = c] /\ item' = n /\ pc' = "got" /\ UNCHANGED <<timer, lease, seen>>
      BY <1>12, <3>1, <3>2, <3>5 DEF PollInner, TypeOK
    <3>6. QED
      BY <3>3, <3>4, <3>5
  <2>3. CASE source' = [source EXCEPT !.end = "eof"] /\ InnerEnds("error") /\ UNCHANGED <<limiter, item>>
    <3>1. source' \in [chunks : Seq(ChunkSizes), sent : Nat, end : {"open", "eof", "error"}]
      BY <2>3 DEF TypeOK
    <3>2. QED
      BY <1>12, <1>r, <1>i, <2>3, <3>1 DEF PollInner, InnerEnds, TypeOK, Terminal, Errors
  <2>4. CASE InnerPending /\ UNCHANGED <<source, limiter, item>>
    BY <1>12, <1>p, <2>4 DEF PollInner, TypeOK
  <2>5. QED
    BY <1>12, <2>1, <2>2, <2>3, <2>4 DEF PollInner
<1>13. CASE NativeInner
  <2>1. CASE source.chunks # <<>> /\ source' = [source EXCEPT !.chunks = Tail(@)]
             /\ item' = Head(source.chunks) /\ pc' = "got" /\ UNCHANGED <<timer, lease, seen>>
    BY <1>13, <1>h, <1>k, <2>1 DEF NativeInner, TypeOK
  <2>2. CASE source.end # "open" /\ TimeOut(source.end) /\ UNCHANGED <<source, item>>
    <3>1. source.end \in Terminal
      BY <2>2 DEF TypeOK, Terminal, Errors
    <3>2. QED
      BY <1>13, <1>o, <2>2, <3>1 DEF NativeInner, TypeOK
  <2>3. CASE InnerPending /\ UNCHANGED <<source, item>>
    BY <1>13, <1>p, <2>3 DEF NativeInner, TypeOK
  <2>4. QED
    BY <1>13, <2>1, <2>2, <2>3 DEF NativeInner
<1>14. CASE PollGot
  <2>1. CASE TimeOut("total")
    BY <1>14, <1>o, <2>1 DEF PollGot, TypeOK, Terminal, Errors
  <2>2. CASE ~TimeOut("total")
    <3> DEFINE d == IF timer.read = Never THEN timer.read ELSE now + conf.read
               b == seen.bytes + item
    <3>1. timer' = [timer EXCEPT !.read = d] /\ seen' = [seen EXCEPT !.last = "chunk", !.bytes = b]
          /\ pc' = "idle" /\ UNCHANGED lease
      BY <1>14, <2>2 DEF PollGot
    <3>2. b \in Nat /\ d \in Nat \cup {Never}
      BY <1>c DEF TypeOK, BodyTimer
    <3> HIDE DEF d, b
    <3>3. timer' \in TimerType /\ seen' \in SeenType
      BY <3>1, <3>2 DEF TypeOK
    <3>4. QED
      BY <1>14, <3>1, <3>3 DEF PollGot, TypeOK
  <2>3. QED
    BY <2>1, <2>2
<1>15. QED
  BY <1>1, <1>2, <1>3, <1>4, <1>5, <1>6, <1>7, <1>8, <1>9, <1>10, <1>11, <1>12, <1>13, <1>14 DEF Next, Poll

\* What a step that polls the transport does to the lease and to what was seen: it returns a
\* result that ends the stream, goes on, or hands a chunk out.
BodyReturns(r) ==
    /\ r \in Terminal /\ pc' = "idle" /\ lease' = "released"
    /\ seen' = [seen EXCEPT !.last = r]
BodyGoesOn == pc' \in {"inner", "got", "parked"} /\ UNCHANGED <<lease, seen>>
BodyHandsOut ==
    /\ pc = "got" /\ ~TotalExpired /\ pc' = "idle" /\ UNCHANGED <<lease, limiter, item>>
    /\ timer'.fused = timer.fused /\ UNCHANGED source
    /\ seen' = [seen EXCEPT !.last = "chunk", !.bytes = @ + item]
BodyPolls == PollBegin \/ PollInner \/ NativeInner \/ PollGot

\* A step of a poll goes on, hands out a chunk, or ends the body.
LEMMA PollKinds ==
    ASSUME TypeOK, BodyEnded, BodyPolls
    PROVE  /\ UNCHANGED <<now, conf, body, wrapped, stream>>
           /\ stream \in PolledStreams
           /\ (\E r \in Terminal : BodyReturns(r)) \/ BodyGoesOn \/ BodyHandsOut
<1>0. stream \in PolledStreams
  BY DEF BodyPolls, PollBegin, PollInner, NativeInner, PollGot, BodyEnded, PolledStreams
<1>u. UNCHANGED <<now, conf, body, wrapped, stream>>
  BY DEF BodyPolls, PollBegin, PollInner, NativeInner, PollGot
<1>r. ASSUME NEW r \in Terminal, Return(r)
      PROVE  BodyReturns(r)
  BY <1>r DEF Return, BodyReturns
<1>e. {"eof", "total", "read", "limit", "error"} \subseteq Terminal
  BY DEF Terminal, Errors
<1>p. ASSUME InnerPending
      PROVE  (\E r \in Terminal : BodyReturns(r)) \/ BodyGoesOn
  BY <1>p, <1>r, <1>e DEF InnerPending, TimeOut, BodyGoesOn
<1>1. CASE PollBegin
  BY <1>0, <1>u, <1>1, <1>r, <1>e DEF PollBegin, TimeOut, BodyGoesOn
<1>2. CASE PollInner
  <2>1. CASE InnerPending
    BY <1>0, <1>u, <1>p, <2>1
  <2>2. CASE source.chunks # <<>> /\ InnerChunk
    BY <1>0, <1>u, <1>r, <1>e, <2>2 DEF InnerChunk, InnerEnds, BodyGoesOn
  <2>3. CASE InnerEnds("eof") \/ InnerEnds("error")
    BY <1>0, <1>u, <1>r, <1>e, <2>3 DEF InnerEnds
  <2>4. QED
    BY <1>2, <2>1, <2>2, <2>3 DEF PollInner
<1>3. CASE NativeInner
  <2>1. CASE pc' = "got" /\ UNCHANGED <<lease, seen>>
    BY <1>0, <1>u, <2>1 DEF BodyGoesOn
  <2>2. CASE source.end # "open" /\ TimeOut(source.end)
    <3>1. source.end \in Terminal
      BY <1>e, <2>2 DEF TypeOK
    <3>2. QED
      BY <1>0, <1>u, <1>r, <2>2, <3>1 DEF TimeOut
  <2>3. CASE InnerPending
    BY <1>0, <1>u, <1>p, <2>3
  <2>4. QED
    BY <1>3, <2>1, <2>2, <2>3 DEF NativeInner
<1>4. CASE PollGot
  <2>1. CASE TimeOut("total")
    BY <1>0, <1>u, <1>r, <1>e, <2>1 DEF TimeOut
  <2>2. CASE ~TimeOut("total")
    <3>1. BodyHandsOut
      BY <1>4, <2>2 DEF PollGot, BodyHandsOut, TypeOK
    <3>2. QED
      BY <1>0, <1>u, <3>1
  <2>3. QED
    BY <2>1, <2>2
<1>5. QED
  BY <1>1, <1>2, <1>3, <1>4 DEF BodyPolls

\* A read deadline is set from the request's read timeout.
LEMMA BodyTimerStep ==
    ASSUME TypeOK, BodyTimer, [Next]_vars
    PROVE  BodyTimer'
<1>1. CASE timer' = timer /\ conf' = conf
  BY <1>1 DEF BodyTimer
<1>2. CASE conf' = conf /\ timer'.read = Never
  BY <1>2 DEF BodyTimer
<1>3. CASE conf' = conf /\ timer'.read # Never /\ conf.read # Never
  BY <1>3 DEF BodyTimer
<1>4. CASE UNCHANGED vars
  BY <1>1, <1>4 DEF vars
<1>5. CASE Tick \/ (\E n \in ChunkSizes : ServerSends(n)) \/ (\E how \in {"eof", "error"} : ServerEnds(how))
           \/ (\E raw \in BOOLEAN : TakeStream(raw)) \/ NativeResponse \/ DropBody
  BY <1>1, <1>5 DEF Tick, ServerSends, ServerEnds, TakeStream, NativeResponse, DropBody, pollVars
<1>6. CASE (\E n \in ChunkSizes \cup {0}, broken \in BOOLEAN : FinalizeResponse(n, broken))
           \/ DropStream \/ PollOnce
  BY <1>1, <1>6 DEF FinalizeResponse, DropStream, PollOnce
<1>t. ASSUME conf' = conf, \E r : TimeOut(r) \/ InnerEnds(r)
      PROVE  BodyTimer'
  BY <1>t, <1>2 DEF TimeOut, InnerEnds, TypeOK
<1>p. ASSUME conf' = conf, InnerPending
      PROVE  BodyTimer'
  BY <1>p, <1>t, <1>1 DEF InnerPending
<1>7. CASE PollBegin
  <2>1. CASE conf.read = Never
    <3>1. timer'.read = timer.read \/ timer'.read = Never
      BY <1>7, <2>1 DEF PollBegin, TimeOut, TypeOK
    <3>2. QED
      BY <1>7, <3>1 DEF PollBegin, BodyTimer
  <2>2. CASE conf.read # Never
    BY <1>7, <2>2 DEF PollBegin, BodyTimer
  <2>3. QED
    BY <2>1, <2>2
<1>8. CASE PollInner
  <2>1. conf' = conf
    BY <1>8 DEF PollInner
  <2>2. CASE InnerPending \/ \E r : InnerEnds(r)
    BY <1>p, <1>t, <2>1, <2>2
  <2>3. CASE InnerChunk
    BY <1>1, <1>t, <2>1, <2>3 DEF InnerChunk
  <2>4. QED
    BY <1>8, <2>2, <2>3 DEF PollInner
<1>9. CASE NativeInner
  <2>1. conf' = conf
    BY <1>9 DEF NativeInner
  <2>2. QED
    BY <1>1, <1>9, <1>t, <1>p, <2>1 DEF NativeInner
<1>10. CASE PollGot
  <2>1. CASE TimeOut("total")
    BY <1>10, <1>t, <2>1 DEF PollGot
  <2>2. CASE ~TimeOut("total") /\ timer.read = Never
    BY <1>10, <1>2, <2>2 DEF PollGot, TypeOK
  <2>3. CASE ~TimeOut("total") /\ timer.read # Never
    BY <1>10, <2>3 DEF PollGot, BodyTimer
  <2>4. QED
    BY <2>1, <2>2, <2>3
<1>11. QED
  BY <1>4, <1>5, <1>6, <1>7, <1>8, <1>9, <1>10 DEF Next, Poll

\* The lease moves with the body, and goes with the result that ends the stream.
LEMMA BodyPlacesStep ==
    ASSUME TypeOK, BodyPlaces, BodyEnded, [Next]_vars
    PROVE  BodyPlaces'
<1>n. "nothing" \notin Terminal /\ "chunk" \notin Terminal
  BY DEF Terminal, Errors
<1>1. CASE UNCHANGED vars
  BY <1>1 DEF vars, BodyPlaces
<1>2. CASE Tick \/ (\E n \in ChunkSizes : ServerSends(n)) \/ (\E how \in {"eof", "error"} : ServerEnds(how))
  BY <1>2 DEF Tick, ServerSends, ServerEnds, BodyPlaces
<1>3. ASSUME NEW n \in ChunkSizes \cup {0}, NEW broken \in BOOLEAN, FinalizeResponse(n, broken)
      PROVE  BodyPlaces'
  <2>1. body' \in {"failed", "buffered", "streaming", "encoded"}
    BY <1>3 DEF FinalizeResponse, DecodedVariant
  <2>2. QED
    BY <1>3, <2>1 DEF FinalizeResponse, LeaseAfter, BodyPlaces, PolledStreams
<1>4. ASSUME NEW raw \in BOOLEAN, TakeStream(raw)
      PROVE  BodyPlaces'
  <2>1. stream' \in {"once", "raw", "refused", "decoded"}
    BY <1>4 DEF TakeStream, Selected
  <2>2. seen'.last = "nothing"
    BY <1>4 DEF TakeStream, BodyPlaces, TypeOK
  <2>3. QED
    BY <1>4, <1>n, <2>1, <2>2 DEF TakeStream, BodyPlaces, PolledStreams
<1>5. CASE NativeResponse
  <2>1. seen'.last = "nothing"
    BY <1>5 DEF NativeResponse, BodyPlaces, TypeOK
  <2>2. QED
    BY <1>5, <1>n, <2>1 DEF NativeResponse, BodyPlaces, PolledStreams
<1>6. CASE DropBody
  BY <1>6 DEF DropBody, BodyPlaces, PolledStreams
<1>7. CASE DropStream
  BY <1>7 DEF DropStream, BodyPlaces, PolledStreams
<1>8. CASE PollOnce
  BY <1>8 DEF PollOnce, BodyPlaces, PolledStreams
<1>9. CASE BodyPolls
  <2>u. UNCHANGED <<body, stream>> /\ stream \in PolledStreams /\ body = "consumed"
    BY <1>9, PollKinds DEF BodyPlaces, PolledStreams
  <2>1. ASSUME NEW r \in Terminal, BodyReturns(r)
        PROVE  BodyPlaces'
    <3>1. seen'.last = r
      BY <2>1 DEF BodyReturns, TypeOK
    <3>2. QED
      BY <2>1, <2>u, <3>1 DEF BodyReturns, BodyPlaces, PolledStreams
  <2>2. CASE BodyGoesOn
    BY <2>2, <2>u DEF BodyGoesOn, BodyPlaces
  <2>3. CASE BodyHandsOut
    <3>1. seen'.last = "chunk" /\ seen.last \notin Terminal
      BY <2>3 DEF BodyHandsOut, TypeOK, BodyEnded
    <3>2. QED
      BY <1>n, <2>3, <2>u, <3>1 DEF BodyHandsOut, BodyPlaces, PolledStreams
  <2>4. QED
    BY <1>9, <2>1, <2>2, <2>3, PollKinds
<1>10. QED
  BY <1>1, <1>2, <1>3, <1>4, <1>5, <1>6, <1>7, <1>8, <1>9 DEF Next, Poll, BodyPolls

\* No poll brings a chunk once a result has ended the stream.
LEMMA BodyEndedStep ==
    ASSUME TypeOK, BodyPlaces, BodyEnded, [Next]_vars
    PROVE  BodyEnded'
<1>n. /\ "nothing" \notin Terminal /\ "chunk" \notin Terminal /\ Terminal = Errors \cup {"eof"}
      /\ "eof" \notin Errors
  BY DEF Terminal, Errors
<1>1. CASE UNCHANGED vars
  BY <1>1 DEF vars, BodyEnded
<1>2. CASE Tick
  BY <1>2 DEF Tick, BodyEnded, pollVars
<1>3. ASSUME NEW n \in ChunkSizes, ServerSends(n)
      PROVE  BodyEnded'
  BY <1>3 DEF ServerSends, BodyEnded, pollVars
<1>4. ASSUME NEW how \in {"eof", "error"}, ServerEnds(how)
      PROVE  BodyEnded'
  BY <1>4 DEF ServerEnds, BodyEnded, pollVars
<1>5. ASSUME NEW n \in ChunkSizes \cup {0}, NEW broken \in BOOLEAN, FinalizeResponse(n, broken)
      PROVE  BodyEnded'
  BY <1>5 DEF FinalizeResponse, BodyEnded
<1>6. CASE (\E raw \in BOOLEAN : TakeStream(raw)) \/ NativeResponse
  <2>1. seen.last = "nothing" /\ seen'.last = "nothing" /\ stream = "none"
    BY <1>6 DEF TakeStream, NativeResponse, BodyPlaces, TypeOK
  <2>2. pc = "idle" /\ pc' = "idle"
    BY <1>6, <2>1 DEF TakeStream, NativeResponse, BodyEnded, TypeOK, PolledStreams, pollVars
  <2>3. QED
    BY <1>n, <2>1, <2>2 DEF BodyEnded
<1>7. CASE DropBody
  BY <1>7 DEF DropBody, BodyEnded, pollVars
<1>8. CASE DropStream
  BY <1>8 DEF DropStream, BodyEnded, PolledStreams
<1>9. CASE PollOnce
  BY <1>9 DEF PollOnce, BodyEnded, PolledStreams
<1>r. ASSUME NEW r, Return(r)
      PROVE  pc' = "idle" /\ seen'.last = r
  BY <1>r DEF Return, TypeOK
<1>o. ASSUME NEW r, TimeOut(r)
      PROVE  BodyEnded'
  <2>1. timer'.fused /\ pc' = "idle"
    BY <1>o, <1>r DEF TimeOut, TypeOK
  <2>2. QED
    BY <2>1 DEF BodyEnded
<1>f. ASSUME Return("eof")
      PROVE  BodyEnded'
  BY <1>f, <1>r, <1>n DEF BodyEnded
<1>p. ASSUME InnerPending, pc = "inner", UNCHANGED <<stream, source, limiter>>, source.end = "open",
             ~limiter.hit \/ stream = "native"
      PROVE  BodyEnded'
  <2>1. CASE \E r : TimeOut(r)
    BY <1>o, <2>1
  <2>2. CASE pc' = "parked" /\ UNCHANGED <<timer, lease, seen>>
    <3>1. seen.last \notin Terminal /\ stream \in PolledStreams
      BY <1>n, <1>p DEF BodyEnded
    <3>2. QED
      BY <1>n, <1>p, <2>2, <3>1 DEF BodyEnded
  <2>3. QED
    BY <1>p, <2>1, <2>2 DEF InnerPending
<1>10. CASE PollBegin
  <2>1. CASE Return("eof")
    BY <1>f, <2>1
  <2>2. CASE TimeOut("total")
    BY <1>o, <2>2
  <2>3. CASE ~timer.fused /\ pc' = "inner" /\ UNCHANGED <<lease, seen>>
             /\ (timer' = [timer EXCEPT !.started = TRUE]
                 \/ timer' = [timer EXCEPT !.started = TRUE, !.read = now + conf.read])
    <3>1. timer'.fused = timer.fused
      BY <2>3 DEF TypeOK
    <3>2. QED
      BY <1>10, <2>3, <3>1 DEF PollBegin, BodyEnded, PolledStreams
  <2>4. QED
    BY <1>10, <2>1, <2>2, <2>3 DEF PollBegin
<1>11. CASE PollInner
  <2>0. pc = "inner" /\ stream # "native" /\ stream \in PolledStreams /\ stream' = stream
        /\ ~timer.fused /\ seen.last # "eof"
    BY <1>11 DEF PollInner, BodyEnded
  <2>1. CASE InnerEnds("eof")
    BY <1>f, <2>1 DEF InnerEnds
  <2>2. CASE ~limiter.hit /\ source.chunks # <<>> /\ InnerChunk
    <3>1. seen.last \notin Terminal
      BY <1>n, <2>0, <2>2 DEF BodyEnded
    <3>2. CASE limiter'.hit /\ InnerEnds("limit")
      <4>1. pc' = "idle"
        BY <1>r, <3>2 DEF InnerEnds
      <4>2. QED
        BY <2>0, <3>2, <4>1 DEF BodyEnded
    <3>3. CASE pc' = "got" /\ UNCHANGED <<timer, lease, seen>>
      BY <1>n, <2>0, <3>1, <3>3 DEF BodyEnded
    <3>4. QED
      BY <2>2, <3>2, <3>3 DEF InnerChunk
  <2>3. CASE source.chunks = <<>> /\ source' = [source EXCEPT !.end = "eof"] /\ InnerEnds("error")
    <3>1. source'.chunks = <<>> /\ source'.end = "eof" /\ pc' = "idle"
      BY <1>r, <2>3 DEF InnerEnds, TypeOK
    <3>2. QED
      BY <2>0, <3>1 DEF BodyEnded
  <2>4. CASE ~limiter.hit /\ source.end = "open" /\ InnerPending /\ UNCHANGED <<source, limiter, item>>
    BY <1>p, <2>0, <2>4
  <2>5. QED
    BY <1>11, <2>1, <2>2, <2>3, <2>4 DEF PollInner
<1>12. CASE NativeInner
  <2>0. pc = "inner" /\ stream = "native" /\ stream' = stream /\ limiter' = limiter
        /\ ~timer.fused /\ seen.last \notin Terminal /\ stream \in PolledStreams
    BY <1>12, <1>n DEF NativeInner, BodyEnded, PolledStreams
  <2>1. CASE pc' = "got" /\ UNCHANGED <<timer, lease, seen>>
    BY <1>n, <2>0, <2>1 DEF BodyEnded
  <2>2. CASE TimeOut(source.end)
    BY <1>o, <2>2
  <2>3. CASE source.end = "open" /\ InnerPending /\ UNCHANGED <<source, item>>
    BY <1>p, <2>0, <2>3
  <2>4. QED
    BY <1>12, <2>1, <2>2, <2>3 DEF NativeInner
<1>13. CASE PollGot
  <2>1. CASE TimeOut("total")
    BY <1>o, <2>1
  <2>2. CASE ~TimeOut("total")
    <3>1. seen'.last = "chunk" /\ pc' = "idle"
      BY <1>13, <2>2 DEF PollGot, TypeOK
    <3>2. QED
      BY <1>n, <3>1 DEF BodyEnded
  <2>3. QED
    BY <2>1, <2>2
<1>14. QED
  BY <1>1, <1>2, <1>3, <1>4, <1>5, <1>6, <1>7, <1>8, <1>9, <1>10, <1>11, <1>12, <1>13 DEF Next, Poll

\* The limiter counts a chunk before it is let through, and a chunk past the limit is not.
LEMMA BodyCountedStep ==
    ASSUME TypeOK, BodyPlaces, BodyEnded, BodyCounted, [Next]_vars
    PROVE  BodyCounted'
<1> USE BodyAssumption
<1>t. /\ limiter.count \in Nat /\ seen.bytes \in Nat /\ item \in Nat /\ InHand \in Nat
      /\ pc # "got" => InHand = 0
      /\ pc = "got" => InHand = item
      /\ conf.limit \in Nat \cup {Never}
  BY DEF TypeOK, InHand, Configs
<1>1. CASE UNCHANGED vars
  BY <1>1 DEF vars, BodyCounted, InHand, Limited
<1>2. CASE Tick \/ (\E n \in ChunkSizes : ServerSends(n)) \/ (\E how \in {"eof", "error"} : ServerEnds(how))
  <2>1. UNCHANGED <<conf, body, wrapped, stream, pc, limiter, item, seen>>
    BY <1>2 DEF Tick, ServerSends, ServerEnds, pollVars
  <2>2. QED
    BY <2>1 DEF BodyCounted, InHand, Limited
<1>3. ASSUME NEW n \in ChunkSizes \cup {0}, NEW broken \in BOOLEAN, FinalizeResponse(n, broken)
      PROVE  BodyCounted'
  <2>1. stream = "none" /\ stream' = "none" /\ UNCHANGED <<conf, limiter, seen>>
    BY <1>3 DEF FinalizeResponse, BodyPlaces
  <2>2. body' = "buffered" => conf.buffered
    BY <1>3 DEF FinalizeResponse, DecodedVariant
  <2>3. body' = "buffered" /\ conf.limit # Never => item' <= conf.limit
    BY <1>3, <1>t, <2>2 DEF FinalizeResponse, BufferedFails
  <2>4. body' = "encoded" => conf.encoding \in {"identity", "coded", "tooDeep"}
    BY <1>3 DEF FinalizeResponse, DecodedVariant, TypeOK, Configs
  <2>5. wrapped' => conf.limit # Never
    BY <1>3 DEF FinalizeResponse, WrapsPlainStream
  <2>6. QED
    BY <2>1, <2>3, <2>4, <2>5 DEF BodyCounted
<1>z. ASSUME stream = "none", UNCHANGED <<conf, wrapped, pc, limiter, item>>, pc = "idle",
             seen' = [seen EXCEPT !.taken = @ + 1],
             \/ stream' \in {"raw", "refused"}
             \/ stream' = "once" /\ body = "buffered"
             \/ stream' = "decoded" /\ conf.encoding \in {"identity", "coded"}
             \/ stream' = "native" /\ conf.limit = Never,
             body' = "consumed"
      PROVE  BodyCounted'
  <2>1. seen'.bytes = 0 /\ limiter.count = 0 /\ InHand' = 0
    BY <1>z DEF BodyCounted, TypeOK, InHand
  <2>2. QED
    BY <1>z, <2>1 DEF BodyCounted
<1>4. ASSUME NEW raw \in BOOLEAN, TakeStream(raw)
      PROVE  BodyCounted'
  <2>1. stream = "none" /\ pc = "idle" /\ UNCHANGED <<conf, wrapped, pc, limiter, item>>
        /\ seen' = [seen EXCEPT !.taken = @ + 1] /\ body' = "consumed"
    BY <1>4 DEF TakeStream, BodyPlaces, BodyEnded, TypeOK, PolledStreams, pollVars
  <2>2. \/ stream' \in {"raw", "refused"}
        \/ stream' = "once" /\ body = "buffered"
        \/ stream' = "decoded" /\ conf.encoding \in {"identity", "coded"}
    BY <1>4 DEF TakeStream, Selected, BodyCounted
  <2>3. QED
    BY <1>z, <2>1, <2>2
<1>5. CASE NativeResponse
  <2>1. stream = "none" /\ pc = "idle" /\ UNCHANGED <<conf, wrapped, pc, limiter, item>>
        /\ seen' = [seen EXCEPT !.taken = @ + 1] /\ body' = "consumed"
        /\ stream' = "native" /\ conf.limit = Never
    BY <1>5 DEF NativeResponse, BodyPlaces, BodyEnded, TypeOK, PolledStreams, pollVars
  <2>2. QED
    BY <1>z, <2>1
<1>6. CASE DropBody
  BY <1>6 DEF DropBody, BodyCounted, InHand, Limited, pollVars
<1>7. CASE DropStream
  BY <1>7, <1>t DEF DropStream, BodyCounted, BodyPlaces
<1>8. CASE PollOnce
  BY <1>8, <1>t DEF PollOnce, BodyCounted
<1>q. ASSUME BodyPolls
      PROVE  UNCHANGED <<conf, body, wrapped, stream>> /\ stream \in PolledStreams /\ body = "consumed"
  BY <1>q, PollKinds DEF BodyPlaces, PolledStreams
<1>k. ASSUME BodyPolls, limiter' = limiter, item' = item, pc' # "got", seen'.bytes = seen.bytes
      PROVE  BodyCounted'
  <2>1. InHand' = 0
    BY <1>k DEF InHand
  <2>2. stream \in {"raw", "decoded"} => seen.bytes + 0 <= limiter.count
    BY <1>t DEF BodyCounted
  <2>3. QED
    BY <1>k, <1>q, <2>1, <2>2 DEF BodyCounted, PolledStreams
<1>r. ASSUME NEW r, Return(r)
      PROVE  pc' # "got" /\ seen'.bytes = seen.bytes
  BY <1>r DEF Return, TypeOK
<1>p. ASSUME InnerPending
      PROVE  pc' # "got" /\ seen'.bytes = seen.bytes
  BY <1>p, <1>r DEF InnerPending, TimeOut
<1>9. CASE PollBegin
  <2>1. limiter' = limiter /\ item' = item /\ pc' # "got" /\ seen'.bytes = seen.bytes
    BY <1>9, <1>r DEF PollBegin, TimeOut
  <2>2. QED
    BY <1>9, <1>k, <2>1 DEF BodyPolls
<1>10. CASE PollInner
  <2>1. CASE InnerPending /\ UNCHANGED <<source, limiter, item>>
    BY <1>10, <1>k, <1>p, <2>1 DEF BodyPolls
  <2>2. CASE (InnerEnds("eof") \/ InnerEnds("error")) /\ UNCHANGED <<limiter, item>>
    BY <1>10, <1>k, <1>r, <2>2 DEF BodyPolls, InnerEnds
  <2>3. CASE source.chunks # <<>> /\ InnerChunk
    <3> DEFINE n == Head(source.chunks)
               c == limiter.count + n
    <3>q. UNCHANGED <<conf, body, wrapped, stream>> /\ stream \in {"raw", "decoded"} /\ body = "consumed"
          /\ pc = "inner"
      BY <1>10, <1>q DEF BodyPolls, PollInner, PolledStreams
    <3>0. n \in Nat
      <4>1. source.chunks \in Seq(ChunkSizes)
        BY DEF TypeOK
      <4>2. n \in ChunkSizes
        BY <2>3, <4>1, HeadTailProperties
      <4>3. QED
        BY <4>2
    <3>1. \/ limiter' = [count |-> c, hit |-> TRUE] /\ InnerEnds("limit") /\ UNCHANGED item
          \/ /\ ~Exceeds(c, n) /\ limiter' = [limiter EXCEPT !.count = c] /\ item' = n /\ pc' = "got"
             /\ UNCHANGED <<timer, lease, seen>>
      BY <2>3 DEF InnerChunk
    <3> HIDE DEF n
    <3>2. c \in Nat /\ seen.bytes + n <= c /\ seen.bytes <= c
      BY <1>t, <3>0, <3>q DEF BodyCounted
    <3> HIDE DEF c
    <3>3. CASE limiter' = [count |-> c, hit |-> TRUE] /\ InnerEnds("limit") /\ UNCHANGED item
      <4>1. limiter'.count = c /\ pc' # "got" /\ seen'.bytes = seen.bytes
        BY <1>r, <3>3 DEF InnerEnds
      <4>2. InHand' = 0 /\ seen.bytes + 0 <= c
        BY <1>t, <3>2, <4>1 DEF InHand
      <4>3. QED
        BY <3>3, <3>q, <4>1, <4>2 DEF BodyCounted
    <3>4. CASE /\ ~Exceeds(c, n) /\ limiter' = [limiter EXCEPT !.count = c] /\ item' = n /\ pc' = "got"
               /\ UNCHANGED <<timer, lease, seen>>
      <4>1. limiter'.count = c /\ InHand' = n
        BY <3>4 DEF InHand, TypeOK
      <4>2. Limited' = Limited
        BY <3>q DEF Limited
      <4>3. Limited => conf.limit # Never
        BY DEF Limited, BodyCounted
      <4>4. Limited => c <= conf.limit
        BY <1>t, <3>2, <3>4, <4>3 DEF Exceeds
      <4>5. QED
        BY <3>2, <3>4, <3>q, <4>1, <4>2, <4>4 DEF BodyCounted
    <3>5. QED
      BY <3>1, <3>3, <3>4
  <2>4. QED
    BY <1>10, <2>1, <2>2, <2>3 DEF PollInner
<1>11. CASE NativeInner
  <2>1. UNCHANGED <<conf, body, wrapped, stream>> /\ stream = "native" /\ body = "consumed"
    BY <1>11, <1>q DEF NativeInner, BodyPolls
  <2>2. QED
    BY <2>1 DEF BodyCounted
<1>12. CASE PollGot
  <2>1. CASE TimeOut("total")
    BY <1>12, <1>k, <1>r, <2>1 DEF BodyPolls, PollGot, TimeOut
  <2>2. CASE ~TimeOut("total")
    <3>1. pc = "got" /\ pc' = "idle" /\ limiter' = limiter /\ item' = item
          /\ seen'.bytes = seen.bytes + item
      BY <1>12, <2>2 DEF PollGot, TypeOK
    <3>2. InHand' = 0 /\ (stream \in {"raw", "decoded"} => (seen.bytes + item) + 0 <= limiter.count)
      BY <1>t, <3>1 DEF InHand, BodyCounted
    <3>3. UNCHANGED <<conf, body, wrapped, stream>> /\ stream \in PolledStreams /\ body = "consumed"
      BY <1>12, <1>q DEF BodyPolls
    <3>4. QED
      BY <3>1, <3>2, <3>3 DEF BodyCounted, PolledStreams
  <2>3. QED
    BY <2>1, <2>2
<1>13. QED
  BY <1>1, <1>2, <1>3, <1>4, <1>5, <1>6, <1>7, <1>8, <1>9, <1>10, <1>11, <1>12 DEF Next, Poll

\* The inductive invariant of the response body, for any sizes, deadlines and limits.
THEOREM BodyInvariant == Spec => []BodyInv
<1>1. Init => BodyInv
  <2> SUFFICES ASSUME Init
               PROVE  BodyInv
    OBVIOUS
  <2>1. TypeOK
    <3>1. source \in [chunks : Seq(ChunkSizes), sent : Nat, end : {"open", "eof", "error"}]
      BY EmptySeq DEF Init
    <3>2. timer \in [started : BOOLEAN, fused : BOOLEAN, read : Nat \cup {Never}]
          /\ limiter \in [count : Nat, hit : BOOLEAN]
      BY DEF Init
    <3>3. seen \in [last : {"nothing", "chunk"} \cup Terminal, bytes : Nat, taken : 0..1]
      <4>1. 0 \in 0 .. 1
        OBVIOUS
      <4>2. QED
        BY <4>1 DEF Init
    <3>4. QED
      BY <3>1, <3>2, <3>3 DEF Init, TypeOK
  <2>2. BodyTimer /\ BodyPlaces
    BY DEF Init, BodyTimer, BodyPlaces, PolledStreams
  <2>3. BodyEnded /\ BodyCounted
    BY DEF Init, BodyEnded, BodyCounted, PolledStreams
  <2>4. QED
    BY <2>1, <2>2, <2>3 DEF BodyInv
<1>2. BodyInv /\ [Next]_vars => BodyInv'
  BY BodyTypes, BodyTimerStep, BodyPlacesStep, BodyEndedStep, BodyCountedStep DEF BodyInv
<1>3. QED
  BY <1>1, <1>2, PTL DEF Spec

\* The body's type invariant, as the code's enums and counters have it.
THEOREM BodyTypeCorrect == Spec => []TypeOK
<1>1. BodyInv => TypeOK
  BY DEF BodyInv
<1>2. QED
  BY <1>1, BodyInvariant, PTL

\* The pool slot is held exactly as long as the response can still produce bytes.
THEOREM LeaseIsExact == Spec => []LeaseExact
<1>1. BodyInv => LeaseExact
  <2> SUFFICES ASSUME BodyInv
               PROVE  LeaseExact
    OBVIOUS
  <2>1. TypeOK /\ BodyPlaces /\ "nothing" \notin Terminal
    BY DEF BodyInv, Terminal, Errors
  <2>2. CASE body # "consumed"
    BY <2>1, <2>2 DEF LeaseExact, BodyPlaces, TypeOK
  <2>3. CASE body = "consumed"
    BY <2>1, <2>3 DEF LeaseExact, BodyPlaces, TypeOK, PolledStreams
  <2>4. QED
    BY <2>2, <2>3
<1>2. QED
  BY <1>1, BodyInvariant, PTL

\* No chunk is handed out at or after the total deadline, nor beyond the decoded-size limit.
THEOREM DeliveryIsBounded == Spec => DeliveryBounded
<1>1. ASSUME BodyInv, [Next]_vars
      PROVE  [seen'.bytes # seen.bytes =>
                 /\ stream # "once" => ~TotalExpired
                 /\ SizeLimited => seen'.bytes <= conf.limit]_vars
  <2>0. /\ TypeOK /\ BodyPlaces /\ BodyEnded /\ BodyCounted
        /\ limiter.count \in Nat /\ seen.bytes \in Nat /\ item \in Nat
        /\ conf.limit \in Nat \cup {Never}
    <3>1. TypeOK /\ BodyPlaces /\ BodyEnded /\ BodyCounted
      BY <1>1 DEF BodyInv
    <3>2. QED
      BY <3>1, BodyAssumption DEF TypeOK, Configs
  <2>1. ASSUME seen'.bytes = seen.bytes
        PROVE  [seen'.bytes # seen.bytes =>
                  /\ stream # "once" => ~TotalExpired
                  /\ SizeLimited => seen'.bytes <= conf.limit]_vars
    BY <2>1
  <2>2. CASE UNCHANGED vars
    BY <2>2
  <2>3. CASE Tick \/ (\E n \in ChunkSizes : ServerSends(n)) \/ (\E how \in {"eof", "error"} : ServerEnds(how))
             \/ (\E n \in ChunkSizes \cup {0}, broken \in BOOLEAN : FinalizeResponse(n, broken))
             \/ DropBody \/ DropStream
    BY <2>1, <2>3 DEF Tick, ServerSends, ServerEnds, FinalizeResponse, DropBody, DropStream
  <2>4. CASE (\E raw \in BOOLEAN : TakeStream(raw)) \/ NativeResponse
    BY <2>0, <2>1, <2>4 DEF TakeStream, NativeResponse, TypeOK
  <2>5. CASE PollOnce
    <3>1. seen'.bytes \in {seen.bytes, item} /\ stream = "once"
      BY <2>0, <2>5 DEF PollOnce, TypeOK
    <3>2. conf.limit # Never => item <= conf.limit
      BY <2>0, <3>1 DEF BodyCounted
    <3>3. QED
      BY <2>1, <3>1, <3>2 DEF SizeLimited
  <2>6. CASE BodyPolls
    <3>1. ASSUME NEW r \in Terminal, BodyReturns(r)
          PROVE  seen'.bytes = seen.bytes
      BY <2>0, <3>1 DEF BodyReturns, TypeOK
    <3>2. ASSUME BodyHandsOut, SizeLimited
          PROVE  seen'.bytes <= conf.limit
      <4>1. seen'.bytes = seen.bytes + item /\ pc = "got" /\ InHand = item
        BY <2>0, <3>2 DEF BodyHandsOut, TypeOK, InHand
      <4>2. stream \in {"raw", "decoded"} /\ Limited
        BY <2>0, <3>2, <4>1 DEF SizeLimited, Limited, BodyCounted, BodyEnded, PolledStreams
      <4>3. seen.bytes + item <= limiter.count /\ limiter.count <= conf.limit /\ conf.limit \in Nat
        BY <2>0, <3>2, <4>1, <4>2 DEF BodyCounted, SizeLimited
      <4>4. QED
        BY <2>0, <4>1, <4>3
    <3>3. CASE BodyHandsOut
      BY <3>2, <3>3 DEF BodyHandsOut
    <3>4. CASE BodyGoesOn
      BY <2>1, <3>4 DEF BodyGoesOn
    <3>5. QED
      BY <2>0, <2>1, <2>6, <3>1, <3>3, <3>4, PollKinds
  <2>7. QED
    BY <1>1, <2>2, <2>3, <2>4, <2>5, <2>6 DEF Next, Poll, BodyPolls
<1>2. QED
  BY <1>1, BodyInvariant, PTL DEF Spec, DeliveryBounded

(***************************************************************************)
(* The upgraded connection.                                                *)
(***************************************************************************)
\* What was read and what came with the head, the front of the byte stream.
NetworkFront == Len(ns.got) + Len(ns.leading)

\* The permit is where the socket is, and the bytes run on through what was read, what
\* came with the head and what has arrived since.
NetworkInv ==
    /\ ns \in NetworkState
    /\ PermitFollowsSocket
    /\ NetworkFront + Len(ns.arrived) = ns.sent
    /\ Numbered(ns.got, 0)
    /\ Numbered(ns.leading, Len(ns.got))
    /\ Numbered(ns.arrived, NetworkFront)

\* The steps that move no byte.
NetworkQuiet ==
    /\ UNCHANGED <<ns.got, ns.leading, ns.arrived, ns.sent, ns.guarded>>
    /\ ns.guarded => ns'.guard = ns'.socket
    /\ ns' \in NetworkState
\* The steps that take a byte, from s to the next state.
TakesByte == /\ ns.leading # << >> \/ ns.arrived # << >>
             /\ ns' \in {NextByte(ns), Unlocked(NextByte(ns))}

\* What the owners and the lock do to a state.
LEMMA NetworkMoves ==
    ASSUME NEW s \in NetworkState
    PROVE  /\ Release(s) \in NetworkState /\ Unlocked(s) \in NetworkState
           /\ HandshakeEnded(s) \in NetworkState
           /\ \A w \in {Release(s), Unlocked(s), HandshakeEnded(s)} :
                 /\ w.got = s.got /\ w.leading = s.leading /\ w.arrived = s.arrived
                 /\ w.sent = s.sent /\ w.guarded = s.guarded
           /\ Release(s).guard = "gone" /\ Release(s).socket = "gone"
           /\ \A w \in {Unlocked(s), HandshakeEnded(s)} : w.guard = s.guard /\ w.socket = s.socket
<1>1. /\ Release(s) \in NetworkState /\ Release(s).got = s.got /\ Release(s).leading = s.leading
      /\ Release(s).arrived = s.arrived /\ Release(s).sent = s.sent /\ Release(s).guarded = s.guarded
      /\ Release(s).guard = "gone" /\ Release(s).socket = "gone"
  BY DEF Release, NetworkState, Owners
<1>2. /\ Unlocked(s) \in NetworkState /\ Unlocked(s).got = s.got /\ Unlocked(s).leading = s.leading
      /\ Unlocked(s).arrived = s.arrived /\ Unlocked(s).sent = s.sent /\ Unlocked(s).guarded = s.guarded
      /\ Unlocked(s).guard = s.guard /\ Unlocked(s).socket = s.socket
  BY DEF Unlocked, NetworkState
<1>3. HandshakeEnded(s) \in {s, Unlocked(s)}
  BY DEF HandshakeEnded
<1>4. QED
  BY <1>1, <1>2, <1>3

\* Every step moves no byte, brings one from the peer, or takes the next one.
LEMMA NetworkKinds ==
    ASSUME NetworkInv, [NetworkNext]_networkVars
    PROVE  NetworkQuiet \/ PeerSends \/ TakesByte
<1> USE NetworkStreamAssumption
<1>t. ns \in NetworkState /\ (ns.guarded => ns.guard = ns.socket)
  BY DEF NetworkInv, PermitFollowsSocket
<1>q. ASSUME NEW s \in NetworkState, ns' \in {s, Unlocked(s), HandshakeEnded(s)},
             s.got = ns.got, s.leading = ns.leading, s.arrived = ns.arrived, s.sent = ns.sent,
             s.guarded = ns.guarded, ns.guarded => s.guard = s.socket
      PROVE  NetworkQuiet
  BY <1>q, NetworkMoves DEF NetworkQuiet
<1>g. \A o : GuardTo(ns, o) \in {"gone", o} /\ (ns.guarded /\ ns.socket # "gone" => GuardTo(ns, o) = o)
  BY <1>t DEF GuardTo
<1>1. CASE UNCHANGED networkVars
  BY <1>1, <1>q, <1>t DEF networkVars
<1>2. CASE upgrade_with_connector_metadata
  <2> DEFINE g == GuardTo(ns, "handle")
             v == VariantOf(ns.connector)
  <2>1. ns' = [ns EXCEPT !.socket = "handle", !.guard = g, !.variant = v, !.handle = TRUE]
        /\ g \in Owners /\ v \in {"tcp", "tls", "adapter"} /\ (ns.guarded => g = "handle")
    BY <1>2, <1>g DEF upgrade_with_connector_metadata, Owners, VariantOf
  <2> HIDE DEF g, v
  <2>o. "handle" \in Owners
    BY DEF Owners
  <2>2. ns' \in NetworkState
    BY <1>t, <2>1, <2>o DEF NetworkState
  <2>v. ns'.got = ns.got /\ ns'.leading = ns.leading /\ ns'.arrived = ns.arrived
        /\ ns'.sent = ns.sent /\ ns'.guarded = ns.guarded /\ ns'.socket = "handle" /\ ns'.guard = g
    BY <1>t, <2>1 DEF NetworkState
  <2>3. QED
    BY <2>1, <2>2, <2>v DEF NetworkQuiet
<1>3. CASE UpgradeFails
  BY <1>3, <1>t, NetworkMoves DEF UpgradeFails, NetworkQuiet
<1>5. ASSUME NEW t \in StreamThreads, NEW o \in {"read", "write", "close"}, Lock(t, o)
      PROVE  NetworkQuiet
  <2>1. ns' = [ns EXCEPT !.holder = t, !.op = o]
    BY <1>5 DEF Lock
  <2>2. QED
    BY <1>t, <2>1 DEF NetworkState, NetworkQuiet
<1>6. ASSUME NEW t \in StreamThreads, ReadReturns(t)
      PROVE  TakesByte
  BY <1>6 DEF ReadReturns, TakesByte
<1>7. ASSUME NEW t \in StreamThreads, WriteReturns(t) \/ IoFails(t)
      PROVE  NetworkQuiet
  BY <1>7, <1>q, <1>t DEF WriteReturns, IoFails
<1>8. ASSUME NEW t \in StreamThreads, CloseReturns(t)
      PROVE  NetworkQuiet
  <2>1. CASE ns' = Unlocked(ns)
    BY <1>q, <1>t, <2>1
  <2>2. CASE ns' = Unlocked(Release(ns))
    <3> DEFINE s == Release(ns)
    <3>1. s \in NetworkState /\ s.got = ns.got /\ s.leading = ns.leading /\ s.arrived = ns.arrived
          /\ s.sent = ns.sent /\ s.guarded = ns.guarded /\ s.guard = s.socket
      BY <1>t, NetworkMoves
    <3> HIDE DEF s
    <3>2. QED
      BY <1>q, <2>2, <3>1 DEF s
  <2>3. QED
    BY <1>8, <2>1, <2>2 DEF CloseReturns
<1>9. ASSUME NEW t \in StreamThreads, start_tls(t)
      PROVE  NetworkQuiet
  <2> DEFINE g == GuardTo(ns, "handshake")
             o == IF ns.sync THEN ns.op ELSE "startTls"
             h == IF ns.sync THEN ns.holder ELSE t
  <2>1. ns' = [ns EXCEPT !.socket = "handshake", !.guard = g, !.op = o, !.holder = h]
    BY <1>9 DEF start_tls
  <2>2. g \in Owners /\ (ns.guarded => g = "handshake")
    BY <1>9, <1>g DEF start_tls, Owners
  <2>3. o \in {"none", "read", "write", "close", "startTls"} /\ h \in StreamThreads \cup {NoThread}
    BY <1>t DEF NetworkState
  <2> HIDE DEF g, o, h
  <2>o. "handshake" \in Owners
    BY DEF Owners
  <2>4. ns' \in NetworkState
    BY <1>t, <2>1, <2>2, <2>3, <2>o DEF NetworkState
  <2>v. ns'.got = ns.got /\ ns'.leading = ns.leading /\ ns'.arrived = ns.arrived
        /\ ns'.sent = ns.sent /\ ns'.guarded = ns.guarded /\ ns'.socket = "handshake" /\ ns'.guard = g
    BY <1>t, <2>1 DEF NetworkState
  <2>5. QED
    BY <2>2, <2>4, <2>v DEF NetworkQuiet
<1>10. CASE HandshakeDone
  <2> DEFINE g == GuardTo(ns, "tlsHandle")
             s == [ns EXCEPT !.socket = "tlsHandle", !.guard = g, !.variant = "tls", !.tlsHandle = TRUE]
  <2>1. ns' = HandshakeEnded(s) /\ g \in Owners /\ (ns.guarded => g = "tlsHandle")
    BY <1>10, <1>g DEF HandshakeDone, Owners
  <2> HIDE DEF g
  <2>o. "tlsHandle" \in Owners
    BY DEF Owners
  <2>2. s \in NetworkState
    BY <1>t, <2>1, <2>o DEF NetworkState
  <2>v. s.got = ns.got /\ s.leading = ns.leading /\ s.arrived = ns.arrived
        /\ s.sent = ns.sent /\ s.guarded = ns.guarded /\ s.socket = "tlsHandle" /\ s.guard = g
    BY <1>t, <2>1 DEF NetworkState
  <2> HIDE DEF s
  <2>3. QED
    BY <1>q, <2>1, <2>2, <2>v
<1>11. CASE HandshakeFails
  <2> DEFINE s == Release(ns)
  <2>1. s \in NetworkState /\ s.got = ns.got /\ s.leading = ns.leading /\ s.arrived = ns.arrived
        /\ s.sent = ns.sent /\ s.guarded = ns.guarded /\ s.guard = s.socket /\ ns' = HandshakeEnded(s)
    BY <1>11, <1>t, NetworkMoves DEF HandshakeFails
  <2> HIDE DEF s
  <2>2. QED
    BY <1>q, <2>1
<1>12. CASE TlsHandleReads
  BY <1>12 DEF TlsHandleReads, TakesByte
<1>13. CASE DropHandle
  <2> DEFINE s == IF ns.socket = "handle" THEN Release(ns) ELSE ns
  <2>1. s \in NetworkState /\ s.got = ns.got /\ s.leading = ns.leading /\ s.arrived = ns.arrived
        /\ s.sent = ns.sent /\ s.guarded = ns.guarded /\ (ns.guarded => s.guard = s.socket)
    BY <1>t, NetworkMoves
  <2>2. ns' = [s EXCEPT !.handle = FALSE]
    BY <1>13 DEF DropHandle
  <2> HIDE DEF s
  <2>3. QED
    BY <2>1, <2>2 DEF NetworkState, NetworkQuiet
<1>14. CASE DropTlsHandle
  <2> DEFINE s == Release(ns)
  <2>1. s \in NetworkState /\ s.got = ns.got /\ s.leading = ns.leading /\ s.arrived = ns.arrived
        /\ s.sent = ns.sent /\ s.guarded = ns.guarded /\ s.guard = s.socket
    BY <1>t, NetworkMoves
  <2>2. ns' = [s EXCEPT !.tlsHandle = FALSE]
    BY <1>14 DEF DropTlsHandle
  <2> HIDE DEF s
  <2>3. QED
    BY <2>1, <2>2 DEF NetworkState, NetworkQuiet
<1>15. QED
  BY <1>1, <1>2, <1>3, <1>5, <1>6, <1>7, <1>8, <1>9, <1>10, <1>11, <1>12, <1>13, <1>14
     DEF NetworkNext, BeginRead, BeginWrite, BeginClose

\* The invariant is kept by every kind of step.
LEMMA NetworkStep ==
    ASSUME NetworkInv, [NetworkNext]_networkVars
    PROVE  NetworkInv'
<1> USE NetworkStreamAssumption
<1> DEFINE B == 1 .. PeerBytes
           a == Len(ns.got)
           b == Len(ns.leading)
           c == Len(ns.arrived)
<1>t. /\ ns \in NetworkState /\ ns.got \in Seq(B) /\ ns.leading \in Seq(B) /\ ns.arrived \in Seq(B)
      /\ ns.sent \in 0 .. PeerBytes /\ (ns.guarded => ns.guard = ns.socket)
  BY DEF NetworkInv, NetworkState, PermitFollowsSocket
<1>l. a \in Nat /\ b \in Nat /\ c \in Nat
  BY <1>t, LenProperties
<1>f. NetworkFront = a + b /\ NetworkFront + c = ns.sent /\ NetworkFront \in Nat
  <2>1. NetworkFront = a + b /\ NetworkFront + c = ns.sent
    BY DEF NetworkInv, NetworkFront
  <2>2. a + b \in Nat
    BY <1>l, SumOfLengths, Zenon
  <2>3. QED
    BY <2>1, <2>2
<1>n. Numbered(ns.got, 0) /\ Numbered(ns.leading, a) /\ Numbered(ns.arrived, NetworkFront)
  BY DEF NetworkInv
<1>1. CASE NetworkQuiet
  BY <1>1, <1>f, <1>n DEF NetworkQuiet, NetworkInv, PermitFollowsSocket, NetworkFront, Numbered
<1>2. CASE PeerSends
  <2> DEFINE x == ns.sent + 1
             q == Append(ns.arrived, x)
  <2>1. x \in B /\ x \in 0 .. PeerBytes /\ x = NetworkFront + (c + 1)
    <3>1. ns.sent < PeerBytes /\ ns.sent \in Nat
      BY <1>2, <1>t DEF PeerSends
    <3>2. (NetworkFront + c) + 1 = NetworkFront + (c + 1)
      BY <1>l, <1>f, OneMore, Zenon
    <3>3. x \in B /\ x \in 0 .. PeerBytes
      BY <3>1
    <3>4. x = (NetworkFront + c) + 1
      BY <1>f
    <3>5. QED
      BY <3>2, <3>3, <3>4, Zenon
  <2>2. ns' = [ns EXCEPT !.sent = x, !.arrived = q]
    BY <1>2 DEF PeerSends
  <2> HIDE DEF x
  <2>a. Numbered(ns.arrived, NetworkFront) /\ NetworkFront \in Nat /\ ns.arrived \in Seq(B)
    BY <1>n, <1>f, <1>t
  <2>3. q \in Seq(B) /\ Len(q) = c + 1 /\ Numbered(q, NetworkFront)
    BY <2>1, <2>a, NumberedAppend, Zenon
  <2> HIDE DEF q
  <2>4. ns' \in NetworkState /\ ns'.got = ns.got /\ ns'.leading = ns.leading /\ ns'.arrived = q
        /\ ns'.sent = x /\ ns'.guarded = ns.guarded /\ ns'.guard = ns.guard /\ ns'.socket = ns.socket
    BY <1>t, <2>1, <2>2, <2>3 DEF NetworkState
  <2>5. NetworkFront' = NetworkFront
    BY <2>4 DEF NetworkFront
  <2>6. QED
    BY <1>n, <1>t, <2>1, <2>3, <2>4, <2>5 DEF NetworkInv, PermitFollowsSocket
<1>3. CASE TakesByte
  <2>r. ASSUME NEW s \in NetworkState, ns' \in {s, Unlocked(s)}, s.guarded = ns.guarded,
               s.guard = ns.guard, s.socket = ns.socket, s.sent = ns.sent,
               (Len(s.got) + Len(s.leading)) + Len(s.arrived) = ns.sent,
               Numbered(s.got, 0), Numbered(s.leading, Len(s.got)),
               Numbered(s.arrived, Len(s.got) + Len(s.leading))
        PROVE  NetworkInv'
    <3>1. ns' \in NetworkState /\ ns'.got = s.got /\ ns'.leading = s.leading /\ ns'.arrived = s.arrived
          /\ ns'.sent = s.sent /\ ns'.guarded = s.guarded /\ ns'.guard = s.guard /\ ns'.socket = s.socket
      BY <2>r, NetworkMoves
    <3>2. QED
      BY <1>t, <2>r, <3>1 DEF NetworkInv, PermitFollowsSocket, NetworkFront
  <2>1. CASE ns.leading # << >>
    <3> DEFINE g == Append(ns.got, Head(ns.leading))
               q == Tail(ns.leading)
               s == [ns EXCEPT !.got = g, !.leading = q]
    <3>1. NextByte(ns) = s
      BY <2>1 DEF NextByte
    <3>2. Head(ns.leading) = a + 1 /\ Head(ns.leading) \in B /\ q \in Seq(B) /\ Len(q) = b - 1
          /\ Numbered(q, a + 1) /\ b \in Nat \ {0}
      BY <1>t, <1>n, <1>l, <2>1, NumberedTail
    <3>3. Head(ns.leading) = 0 + (a + 1)
      BY <1>l, <3>2
    <3>4. g \in Seq(B) /\ Len(g) = a + 1 /\ Numbered(g, 0)
      BY <1>t, <1>n, <3>2, <3>3, NumberedAppend
    <3> HIDE DEF g, q
    <3>5. s \in NetworkState /\ s.guarded = ns.guarded /\ s.guard = ns.guard /\ s.socket = ns.socket
          /\ s.sent = ns.sent /\ s.got = g /\ s.leading = q /\ s.arrived = ns.arrived
      BY <1>t, <3>2, <3>4 DEF NetworkState
    <3> HIDE DEF s
    <3>6. (a + 1) + (b - 1) = a + b
      BY <1>l, OneMoved, Zenon
    <3>7. QED
      BY <1>3, <1>f, <1>n, <2>r, <3>1, <3>2, <3>4, <3>5, <3>6 DEF TakesByte
  <2>2. CASE ns.leading = << >> /\ ns.arrived # << >>
    <3> DEFINE g == Append(ns.got, Head(ns.arrived))
               q == Tail(ns.arrived)
               s == [ns EXCEPT !.got = g, !.arrived = q]
    <3>1. NextByte(ns) = s
      BY <2>2 DEF NextByte
    <3>0. NetworkFront = a
      <4>1. b = 0
        BY <2>2
      <4>2. a + 0 = a
        BY <1>l, NothingAdded, Zenon
      <4>3. QED
        BY <1>f, <4>1, <4>2
    <3>a. Numbered(ns.arrived, a) /\ a \in Nat /\ ns.arrived \in Seq(B) /\ ns.arrived # << >>
      BY <1>n, <1>l, <1>t, <2>2, <3>0
    <3>2. Head(ns.arrived) = a + 1 /\ Head(ns.arrived) \in B /\ q \in Seq(B) /\ Len(q) = c - 1
          /\ Numbered(q, a + 1) /\ c \in Nat \ {0}
      <4>0. ns.arrived # << >> /\ ns.arrived \in Seq(B)
        BY <3>a
      <4>1. ASSUME NEW n \in Nat, Numbered(ns.arrived, n)
            PROVE  /\ Head(ns.arrived) = n + 1 /\ Head(ns.arrived) \in B /\ q \in Seq(B)
                   /\ Len(q) = c - 1 /\ c \in Nat \ {0} /\ Numbered(q, n + 1)
        <5> HIDE DEF B
        <5>1. QED
          BY <4>0, <4>1, NumberedTail, Zenon
      <4>2. QED
        BY <3>a, <4>1, Zenon
    <3>3. Head(ns.arrived) = 0 + (a + 1)
      BY <1>l, <3>2
    <3>4. g \in Seq(B) /\ Len(g) = a + 1 /\ Numbered(g, 0)
      BY <1>t, <1>n, <3>2, <3>3, NumberedAppend
    <3> HIDE DEF g, q
    <3>5. s \in NetworkState /\ s.guarded = ns.guarded /\ s.guard = ns.guard /\ s.socket = ns.socket
          /\ s.sent = ns.sent /\ s.got = g /\ s.leading = << >> /\ s.arrived = q
      BY <1>t, <2>2, <3>2, <3>4 DEF NetworkState
    <3> HIDE DEF s
    <3>6. (a + 1) + 0 = a + 1 /\ (a + 1) + (c - 1) = a + c
      <4>1. a + 1 \in Nat
        BY <1>l
      <4>2. QED
        BY <1>l, <4>1, NothingAdded, OneMoved, Zenon
    <3>7. Len(s.leading) = 0 /\ Numbered(s.leading, Len(s.got))
      BY <3>5, NumberedEmpty
    <3>8. QED
      BY <1>3, <1>f, <2>r, <3>0, <3>1, <3>2, <3>4, <3>5, <3>6, <3>7 DEF TakesByte
  <2>3. QED
    BY <1>3, <2>1, <2>2 DEF TakesByte
<1>4. QED
  BY <1>1, <1>2, <1>3, NetworkKinds

\* For any number of threads and bytes: the permit goes with the socket, and what is read is
\* what the peer sent.
THEOREM NetworkInvariant == NetworkSpec => []NetworkInv
<1>1. NetworkInit => NetworkInv
  <2> SUFFICES ASSUME NEW d \in Connectors, NEW g \in BOOLEAN, NEW s \in BOOLEAN, NEW k \in 0 .. 1,
                      ns = NetworkStart(d, g, s, k)
               PROVE  NetworkInv
    BY DEF NetworkInit
  <2> DEFINE l == [i \in 1 .. k |-> i]
             p == IF g THEN "connection" ELSE "gone"
  <2>1. l \in Seq(1 .. PeerBytes) /\ Len(l) = k /\ Numbered(l, 0) /\ k \in 0 .. PeerBytes
    BY NetworkStreamAssumption, IsASeq DEF Numbered
  <2>2. ns = [connector |-> d, guarded |-> g, sync |-> s, socket |-> "connection", guard |-> p,
              variant |-> "adapter", leading |-> l, arrived |-> << >>, got |-> << >>, sent |-> k,
              holder |-> NoThread, op |-> "none", handle |-> FALSE, tlsHandle |-> FALSE]
        /\ p \in Owners /\ (g => p = "connection")
    BY DEF NetworkStart, Owners
  <2> HIDE DEF l, p
  <2>3. << >> \in Seq(1 .. PeerBytes)
    BY EmptySeq
  <2>4. ns \in NetworkState
    BY <2>1, <2>2, <2>3 DEF NetworkState, Owners
  <2>5. ns.got = << >> /\ ns.leading = l /\ ns.arrived = << >> /\ ns.sent = k /\ PermitFollowsSocket
        /\ Len(ns.got) = 0 /\ Len(ns.arrived) = 0
    BY <2>2 DEF PermitFollowsSocket
  <2>6. NetworkFront = k
    BY <2>1, <2>5 DEF NetworkFront
  <2>7. QED
    BY <2>1, <2>4, <2>5, <2>6, NumberedEmpty DEF NetworkInv
<1>2. NetworkInv /\ [NetworkNext]_networkVars => NetworkInv'
  BY NetworkStep
<1>3. QED
  BY <1>1, <1>2, PTL DEF NetworkSpec

\* A physical connection's permit is given back exactly when its socket is gone.
THEOREM PermitIsWithSocket == NetworkSpec => []PermitFollowsSocket
<1>1. NetworkInv => PermitFollowsSocket
  BY DEF NetworkInv
<1>2. QED
  BY <1>1, NetworkInvariant, PTL

\* The threads read what the peer sent, in order and from its first byte.
THEOREM BytesAreKept == NetworkSpec => []NoByteLostOrReordered
<1>1. NetworkInv => NoByteLostOrReordered
  <2> SUFFICES ASSUME NetworkInv
               PROVE  ns.got = [i \in 1 .. Len(ns.got) |-> i]
    BY DEF NoByteLostOrReordered
  <2>1. ns.got \in Seq(1 .. PeerBytes) /\ Numbered(ns.got, 0)
    BY DEF NetworkInv, NetworkState
  <2>2. DOMAIN ns.got = 1 .. Len(ns.got) /\ ns.got \in [1 .. Len(ns.got) -> 1 .. PeerBytes]
    BY <2>1, LenProperties
  <2>3. \A i \in 1 .. Len(ns.got) : ns.got[i] = i
    BY <2>1 DEF Numbered
  <2>4. QED
    BY <2>2, <2>3
<1>2. QED
  BY <1>1, NetworkInvariant, PTL

(***************************************************************************)
(* The hand-read response of a proxied request.                            *)
(***************************************************************************)
\* What was delivered, what the reader had read too far and what is on the wire are the n
\* bytes the peer wrote, in order.
RawBytes(d, i, w, n) ==
    /\ d \in Seq(1 .. PeerWrites) /\ i \in Seq(1 .. PeerWrites) /\ w \in Seq(1 .. PeerWrites)
    /\ n \in 0 .. PeerWrites /\ (Len(d) + Len(i)) + Len(w) = n
    /\ Numbered(d, 0) /\ Numbered(i, Len(d)) /\ Numbered(w, Len(d) + Len(i))

RawState ==
    [head : Heads, stage : {"head", "body", "ended", "truncated", "failed"},
     wire : Seq(1 .. PeerWrites), written : 0 .. PeerWrites,
     close : {"open", "notify", "abrupt", "error"}, initial : Seq(1 .. PeerWrites),
     expected : Nat, delivered : Seq(1 .. PeerWrites)]

\* A connection cut without a close_notify is reported as such exactly when bytes are missing.
RawCutSeen ==
    rw.close = "abrupt" /\ rw.stage \in {"ended", "truncated"} /\ rw.expected # NoLength =>
        (rw.stage = "truncated" <=> rw.written < rw.expected)

RawInv ==
    /\ rw \in RawState
    /\ RawBytes(rw.delivered, rw.initial, rw.wire, rw.written)
    /\ rw.stage = "head" => rw.delivered = << >> /\ rw.initial = << >>
    /\ rw.stage \in {"ended", "truncated"} =>
           rw.initial = << >> /\ rw.wire = << >> /\ rw.close # "open"
    /\ RawCutSeen

\* Two numbers taken apart.
LEMMA TakenApart == \A a, b \in Nat : \A k \in 0 .. b : (a + k) + (b - k) = a + b
OBVIOUS

\* The peer writes the next byte.
LEMMA RawWrite ==
    ASSUME NEW d, NEW i, NEW w, NEW n, RawBytes(d, i, w, n), n < PeerWrites
    PROVE  RawBytes(d, i, Append(w, n + 1), n + 1)
<1> DEFINE B == 1 .. PeerWrites
           f == Len(d) + Len(i)
<1>1. /\ d \in Seq(B) /\ i \in Seq(B) /\ w \in Seq(B) /\ n \in 0 .. PeerWrites /\ f + Len(w) = n
      /\ Numbered(d, 0) /\ Numbered(i, Len(d)) /\ Numbered(w, f)
  BY DEF RawBytes
<1>2. Len(d) \in Nat /\ Len(i) \in Nat /\ Len(w) \in Nat
  BY <1>1, LenProperties
<1>3. f \in Nat
  BY <1>2, SumOfLengths, Zenon
<1>4. (f + Len(w)) + 1 = f + (Len(w) + 1)
  BY <1>2, <1>3, OneMore, Zenon
<1>5. n + 1 = f + (Len(w) + 1)
  BY <1>1, <1>4, Zenon
<1>6. n + 1 \in B /\ n + 1 \in 0 .. PeerWrites
  BY <1>1, RawAssumption
<1> HIDE DEF B, f
<1>7. /\ Append(w, n + 1) \in Seq(B) /\ Len(Append(w, n + 1)) = Len(w) + 1
      /\ Numbered(Append(w, n + 1), f)
  BY <1>1, <1>3, <1>5, <1>6, NumberedAppend, Zenon
<1>8. f + Len(Append(w, n + 1)) = n + 1
  BY <1>5, <1>7, Zenon
<1>9. QED
  BY <1>1, <1>6, <1>7, <1>8, Zenon DEF RawBytes, B, f

\* The reader is taken apart after the head: k bytes are kept, the rest is on the wire.
LEMMA RawSwitch ==
    ASSUME NEW w, NEW n, RawBytes(<< >>, << >>, w, n), NEW k \in 0 .. Len(w)
    PROVE  RawBytes(<< >>, SubSeq(w, 1, k), SubSeq(w, k + 1, Len(w)), n)
<1> DEFINE B == 1 .. PeerWrites
           p == SubSeq(w, 1, k)
           r == SubSeq(w, k + 1, Len(w))
           m == Len(w)
<1>1. /\ w \in Seq(B) /\ n \in 0 .. PeerWrites /\ (0 + 0) + m = n /\ Numbered(w, 0 + 0)
      /\ Numbered(<< >>, 0) /\ << >> \in Seq(B)
  BY DEF RawBytes
<1>2. m \in Nat /\ k \in Nat /\ 0 + 0 = 0
  BY <1>1, LenProperties
<1>3. n = m /\ Numbered(w, 0)
  BY <1>1, <1>2
<1> HIDE DEF B
<1>4. /\ p \in Seq(B) /\ Len(p) = k /\ Numbered(p, 0) /\ r \in Seq(B) /\ Len(r) = m - k
      /\ Numbered(r, 0 + k)
  <2>1. w \in Seq(B) /\ Numbered(w, 0) /\ 0 \in Nat
    BY <1>1, <1>3
  <2>2. QED
    BY <2>1, NumberedSplit
<1> HIDE DEF p, r
<1>5. (0 + k) + (m - k) = 0 + m /\ 0 + m = m
  BY <1>2, TakenApart, NothingAdded, Zenon
<1>6. Len(<< >>) = 0
  OBVIOUS
<1>7. QED
  BY <1>1, <1>3, <1>4, <1>5, <1>6, Zenon DEF RawBytes, B, p, r

\* What had been read too far is delivered.
LEMMA RawInitial ==
    ASSUME NEW d, NEW i, NEW w, NEW n, RawBytes(d, i, w, n)
    PROVE  RawBytes(d \o i, << >>, w, n)
<1> DEFINE B == 1 .. PeerWrites
           f == Len(d) + Len(i)
<1>1. /\ d \in Seq(B) /\ i \in Seq(B) /\ w \in Seq(B) /\ n \in 0 .. PeerWrites /\ f + Len(w) = n
      /\ Numbered(d, 0) /\ Numbered(i, Len(d)) /\ Numbered(w, f)
  BY DEF RawBytes
<1>2. Len(d) \in Nat /\ Len(i) \in Nat
  BY <1>1, LenProperties
<1>3. f \in Nat /\ 0 + Len(d) = Len(d)
  BY <1>2, SumOfLengths, NothingAdded, Zenon
<1>4. f + 0 = f /\ Len(<< >>) = 0 /\ << >> \in Seq(B)
  <2>1. f + 0 = f
    BY <1>3, NothingAdded, Zenon
  <2>2. QED
    BY <2>1
<1> HIDE DEF B
<1>5. Numbered(i, 0 + Len(d)) /\ 0 \in Nat
  BY <1>1, <1>3
<1>6. d \o i \in Seq(B) /\ Len(d \o i) = Len(d) + Len(i) /\ Numbered(d \o i, 0)
  BY <1>1, <1>5, NumberedConcat, Zenon
<1> HIDE DEF f
<1>7. Len(d \o i) = f
  BY <1>6 DEF f
<1>8. QED
  BY <1>1, <1>4, <1>6, <1>7, NumberedEmpty, Zenon DEF RawBytes, B

\* Bytes of the wire are delivered.
LEMMA RawRead ==
    ASSUME NEW d, NEW w, NEW n, RawBytes(d, << >>, w, n), NEW k \in 0 .. Len(w)
    PROVE  RawBytes(d \o SubSeq(w, 1, k), << >>, SubSeq(w, k + 1, Len(w)), n)
<1> DEFINE B == 1 .. PeerWrites
           p == SubSeq(w, 1, k)
           r == SubSeq(w, k + 1, Len(w))
           m == Len(w)
           a == Len(d)
<1>0. Len(<< >>) = 0
  OBVIOUS
<1>1. /\ d \in Seq(B) /\ w \in Seq(B) /\ n \in 0 .. PeerWrites /\ (a + 0) + m = n
      /\ Numbered(d, 0) /\ Numbered(w, a + 0) /\ << >> \in Seq(B)
  BY <1>0, Zenon DEF RawBytes
<1>2. a \in Nat /\ m \in Nat
  BY <1>1, LenProperties
<1>3. a + 0 = a /\ 0 + a = a
  BY <1>2, NothingAdded, Zenon
<1>4. a + m = n /\ Numbered(w, a)
  BY <1>1, <1>3, Zenon
<1> HIDE DEF B
<1>5. /\ p \in Seq(B) /\ Len(p) = k /\ Numbered(p, a) /\ r \in Seq(B) /\ Len(r) = m - k
      /\ Numbered(r, a + k)
  BY <1>1, <1>2, <1>4, NumberedSplit
<1> HIDE DEF p, r
<1>6. Numbered(p, 0 + a) /\ 0 \in Nat
  BY <1>3, <1>5
<1>7. d \o p \in Seq(B) /\ Len(d \o p) = a + Len(p) /\ Numbered(d \o p, 0)
  BY <1>1, <1>5, <1>6, NumberedConcat, Zenon
<1>8. Len(d \o p) = a + k
  BY <1>5, <1>7, Zenon
<1>9. (a + k) + 0 = a + k /\ (a + k) + (m - k) = a + m
  <2>1. k \in Nat
    BY <1>2
  <2>2. a + k \in Nat
    BY <1>2, <2>1, SumOfLengths, Zenon
  <2>3. QED
    BY <1>2, <2>2, NothingAdded, TakenApart, Zenon
<1>10. QED
  BY <1>0, <1>1, <1>4, <1>5, <1>7, <1>8, <1>9, NumberedEmpty, Zenon DEF RawBytes, B, p, r

\* With nothing kept back and nothing on the wire, everything was delivered.
LEMMA RawWhole ==
    ASSUME NEW d, NEW n, RawBytes(d, << >>, << >>, n)
    PROVE  Len(d) = n
<1>1. Len(<< >>) = 0
  OBVIOUS
<1>2. d \in Seq(1 .. PeerWrites) /\ (Len(d) + 0) + 0 = n
  BY <1>1, Zenon DEF RawBytes
<1>3. Len(d) \in Nat
  BY <1>2, LenProperties
<1>4. QED
  BY <1>2, <1>3

\* The invariant of the hand-read response is kept by every step.
LEMMA RawStep ==
    ASSUME RawInv, [RawNext]_rawVars
    PROVE  RawInv'
<1> USE RawAssumption
<1>t. /\ rw \in RawState /\ RawBytes(rw.delivered, rw.initial, rw.wire, rw.written)
      /\ (rw.stage = "head" => rw.delivered = << >> /\ rw.initial = << >>)
      /\ (rw.stage \in {"ended", "truncated"} =>
            rw.initial = << >> /\ rw.wire = << >> /\ rw.close # "open")
      /\ RawCutSeen
  BY DEF RawInv
<1>1. CASE UNCHANGED rawVars
  BY <1>1, <1>t DEF rawVars, RawInv, RawCutSeen
<1>2. CASE PeerWritesByte
  <2> DEFINE w == Append(rw.wire, rw.written + 1)
             n == rw.written + 1
  <2>1. rw' = [rw EXCEPT !.written = n, !.wire = w] /\ rw.close = "open" /\ rw.written < PeerWrites
    BY <1>2 DEF PeerWritesByte
  <2>2. RawBytes(rw.delivered, rw.initial, w, n)
    BY <1>t, <2>1, RawWrite
  <2>3. w \in Seq(1 .. PeerWrites) /\ n \in 0 .. PeerWrites
    BY <2>2 DEF RawBytes
  <2> HIDE DEF w, n
  <2>4. rw' \in RawState
    BY <1>t, <2>1, <2>3 DEF RawState
  <2>5. /\ rw'.delivered = rw.delivered /\ rw'.initial = rw.initial /\ rw'.wire = w /\ rw'.written = n
        /\ rw'.stage = rw.stage /\ rw'.close = "open"
    BY <1>t, <2>1 DEF RawState
  <2>6. QED
    BY <1>t, <2>1, <2>2, <2>4, <2>5 DEF RawInv, RawCutSeen
<1>3. ASSUME NEW how \in {"notify", "abrupt", "error"}, PeerCloses(how)
      PROVE  RawInv'
  <2>1. rw' = [rw EXCEPT !.close = how] /\ rw.close = "open"
    BY <1>3 DEF PeerCloses
  <2>2. rw' \in RawState
    BY <1>t, <2>1 DEF RawState
  <2>3. /\ rw'.delivered = rw.delivered /\ rw'.initial = rw.initial /\ rw'.wire = rw.wire
        /\ rw'.written = rw.written /\ rw'.stage = rw.stage
    BY <1>t, <2>1 DEF RawState
  <2>4. QED
    BY <1>t, <2>1, <2>2, <2>3 DEF RawInv, RawCutSeen
<1>4. ASSUME NEW k \in 0 .. PeerWrites, read_proxy_response(k)
      PROVE  RawInv'
  <2> DEFINE i == SubSeq(rw.wire, 1, k)
             w == SubSeq(rw.wire, k + 1, Len(rw.wire))
             e == response_content_length(rw.head)
  <2>1. rw' = [rw EXCEPT !.stage = "body", !.initial = i, !.wire = w, !.expected = e]
        /\ rw.stage = "head" /\ k <= Len(rw.wire)
    BY <1>4 DEF read_proxy_response, KeepBuffered
  <2>2. e \in Nat
    <3>1. rw.head \in Heads
      BY <1>t DEF RawState
    <3>2. QED
      BY <3>1
  <2>3. RawBytes(<< >>, << >>, rw.wire, rw.written) /\ rw.delivered = << >>
    BY <1>t, <2>1
  <2>4. k \in 0 .. Len(rw.wire)
    <3>1. Len(rw.wire) \in Nat
      BY <1>t, LenProperties DEF RawState
    <3>2. QED
      BY <2>1, <3>1
  <2>5. RawBytes(<< >>, i, w, rw.written)
    BY <2>3, <2>4, RawSwitch, Zenon
  <2>6. i \in Seq(1 .. PeerWrites) /\ w \in Seq(1 .. PeerWrites)
    BY <2>5 DEF RawBytes
  <2> HIDE DEF i, w, e
  <2>7. rw' \in RawState
    BY <1>t, <2>1, <2>2, <2>6 DEF RawState
  <2>8. /\ rw'.delivered = rw.delivered /\ rw'.initial = i /\ rw'.wire = w
        /\ rw'.written = rw.written /\ rw'.stage = "body"
    BY <1>t, <2>1 DEF RawState
  <2>9. QED
    BY <2>3, <2>5, <2>7, <2>8 DEF RawInv, RawCutSeen
<1>5. ASSUME NEW k \in 0 .. PeerWrites, PollSocket(k)
      PROVE  RawInv'
  <2> DEFINE d == rw.delivered \o SubSeq(rw.wire, 1, k)
             w == SubSeq(rw.wire, k + 1, Len(rw.wire))
  <2>1. rw' = [rw EXCEPT !.delivered = d, !.wire = w] /\ rw.stage = "body"
    BY <1>5 DEF PollSocket
  <2>2. rw.initial = << >>
    BY <1>5 DEF PollSocket
  <2>3. k \in 0 .. Len(rw.wire)
    <3>1. Len(rw.wire) \in Nat /\ k \in 1 .. Len(rw.wire)
      BY <1>5, <1>t, LenProperties DEF RawState, PollSocket
    <3>2. QED
      BY <3>1
  <2>4. RawBytes(rw.delivered, << >>, rw.wire, rw.written)
    BY <1>t, <2>2
  <2>5. RawBytes(d, << >>, w, rw.written)
    BY <2>3, <2>4, RawRead, Zenon
  <2>6. d \in Seq(1 .. PeerWrites) /\ w \in Seq(1 .. PeerWrites)
    BY <2>5 DEF RawBytes
  <2> HIDE DEF d, w
  <2>7. rw' \in RawState
    BY <1>t, <2>1, <2>6 DEF RawState
  <2>8. /\ rw'.delivered = d /\ rw'.initial = rw.initial /\ rw'.wire = w
        /\ rw'.written = rw.written /\ rw'.stage = "body"
    BY <1>t, <2>1 DEF RawState
  <2>9. QED
    BY <2>2, <2>5, <2>7, <2>8 DEF RawInv, RawCutSeen
<1>6. CASE HeadFails
  <2>1. rw' = [rw EXCEPT !.stage = "failed"]
    BY <1>6 DEF HeadFails
  <2>2. rw' \in RawState
    BY <1>t, <2>1 DEF RawState
  <2>3. /\ rw'.delivered = rw.delivered /\ rw'.initial = rw.initial /\ rw'.wire = rw.wire
        /\ rw'.written = rw.written /\ rw'.stage = "failed"
    BY <1>t, <2>1 DEF RawState
  <2>4. QED
    BY <1>t, <2>2, <2>3 DEF RawInv, RawCutSeen
<1>7. CASE PollInitial
  <2> DEFINE d == rw.delivered \o rw.initial
  <2>1. rw' = [rw EXCEPT !.delivered = d, !.initial = << >>] /\ rw.stage = "body"
    BY <1>7 DEF PollInitial
  <2>2. RawBytes(d, << >>, rw.wire, rw.written)
    BY <1>t, RawInitial, Zenon
  <2>3. d \in Seq(1 .. PeerWrites) /\ << >> \in Seq(1 .. PeerWrites)
    BY <2>2 DEF RawBytes
  <2> HIDE DEF d
  <2>4. rw' \in RawState
    BY <1>t, <2>1, <2>3 DEF RawState
  <2>5. /\ rw'.delivered = d /\ rw'.initial = << >> /\ rw'.wire = rw.wire
        /\ rw'.written = rw.written /\ rw'.stage = "body"
    BY <1>t, <2>1 DEF RawState
  <2>6. QED
    BY <2>2, <2>4, <2>5 DEF RawInv, RawCutSeen
<1>8. CASE PollEnd
  <2> DEFINE z == CASE rw.close = "notify" -> "ended"
                    [] rw.close = "abrupt" -> AbruptEnd
                    [] rw.close = "error"  -> "failed"
  <2>1. rw' = [rw EXCEPT !.stage = z] /\ rw.stage = "body"
    BY <1>8 DEF PollEnd
  <2>2. rw.initial = << >> /\ rw.wire = << >> /\ rw.close # "open"
    BY <1>8 DEF PollEnd
  <2>3. Len(rw.delivered) = rw.written
    BY <1>t, <2>2, RawWhole
  <2>4. rw.expected \in Nat /\ rw.written \in Nat /\ rw.close \in {"notify", "abrupt", "error"}
    BY <1>t, <2>2 DEF RawState
  <2>5. z \in {"ended", "truncated", "failed"}
    BY <2>4 DEF AbruptEnd
  <2>6. rw.close = "abrupt" /\ rw.expected # NoLength => (z = "truncated" <=> rw.written < rw.expected)
    <3> SUFFICES ASSUME rw.close = "abrupt", rw.expected # NoLength
                 PROVE  z = "truncated" <=> rw.written < rw.expected
      OBVIOUS
    <3>1. z = IF ~(rw.expected <= rw.written) THEN "truncated" ELSE "ended"
      BY <2>3 DEF AbruptEnd, body_is_complete
    <3> HIDE DEF z
    <3>2. QED
      BY <2>4, <3>1
  <2> HIDE DEF z
  <2>7. rw' \in RawState
    BY <1>t, <2>1, <2>5 DEF RawState
  <2>8. /\ rw'.delivered = rw.delivered /\ rw'.initial = rw.initial /\ rw'.wire = rw.wire
        /\ rw'.written = rw.written /\ rw'.stage = z /\ rw'.close = rw.close
        /\ rw'.expected = rw.expected
    BY <1>t, <2>1 DEF RawState
  <2>9. RawCutSeen'
    BY <2>6, <2>8 DEF RawCutSeen, NoLength
  <2>10. QED
    BY <1>t, <2>2, <2>5, <2>7, <2>8, <2>9 DEF RawInv
<1>9. QED
  BY <1>1, <1>2, <1>3, <1>4, <1>5, <1>6, <1>7, <1>8 DEF RawNext

\* For any number of bytes and any heads: the invariant of the hand-read response.
THEOREM RawInvariant == RawSpec => []RawInv
<1>1. RawInit => RawInv
  <2> SUFFICES ASSUME NEW h \in Heads, rw = RawStart(h)
               PROVE  RawInv
    BY DEF RawInit
  <2>1. NoLength \in Nat /\ << >> \in Seq(1 .. PeerWrites) /\ 0 \in 0 .. PeerWrites
    BY RawAssumption DEF NoLength
  <2>2. rw = [head |-> h, stage |-> "head", wire |-> << >>, written |-> 0, close |-> "open",
              initial |-> << >>, expected |-> NoLength, delivered |-> << >>]
    BY DEF RawStart
  <2>3. rw \in RawState
    BY <2>1, <2>2 DEF RawState
  <2>4. /\ rw.delivered = << >> /\ rw.initial = << >> /\ rw.wire = << >> /\ rw.written = 0
        /\ rw.stage = "head"
    BY <2>2
  <2>5. RawBytes(<< >>, << >>, << >>, 0)
    <3>1. Len(<< >>) = 0 /\ (0 + 0) + 0 = 0
      OBVIOUS
    <3>2. QED
      BY <2>1, <3>1, NumberedEmpty, Zenon DEF RawBytes
  <2>6. QED
    BY <2>3, <2>4, <2>5 DEF RawInv, RawCutSeen
<1>2. RawInv /\ [RawNext]_rawVars => RawInv'
  BY RawStep
<1>3. QED
  BY <1>1, <1>2, PTL DEF RawSpec

\* Taking the reader apart after the head loses no byte: what the caller got is what the peer
\* wrote, all of it when the body ended, and a cut connection is noticed when bytes are missing.
THEOREM SwitchKeepsBytes == RawSpec => []SwitchLosesNoByte
<1>1. RawInv => SwitchLosesNoByte
  <2> SUFFICES ASSUME RawInv
               PROVE  SwitchLosesNoByte
    OBVIOUS
  <2>1. /\ RawBytes(rw.delivered, rw.initial, rw.wire, rw.written)
        /\ (rw.stage \in {"ended", "truncated"} => rw.initial = << >> /\ rw.wire = << >>)
        /\ RawCutSeen
    BY DEF RawInv
  <2>2. \A i \in DOMAIN rw.delivered : rw.delivered[i] = i
    <3>1. DOMAIN rw.delivered = 1 .. Len(rw.delivered) /\ Numbered(rw.delivered, 0)
      BY <2>1, LenProperties DEF RawBytes
    <3>2. QED
      BY <3>1 DEF Numbered
  <2>3. rw.stage \in {"ended", "truncated"} => Len(rw.delivered) = rw.written
    BY <2>1, RawWhole
  <2>4. QED
    BY <2>1, <2>2, <2>3 DEF SwitchLosesNoByte, RawCutSeen
<1>2. QED
  BY <1>1, RawInvariant, PTL

(***************************************************************************)
(* The handles of the C interface.                                         *)
(***************************************************************************)
\* A request is dropped once, by whoever owns it then: the pointer kept for the panic handler
\* names it only until the call has taken it.
HandleCalls ==
    /\ fh.request = "live" => fh.frees = 0
    /\ fh.request = "gone" => fh.frees = 1
    /\ fh.call \in {"entered", "consumed", "running"} => fh.request = "live"
    /\ fh.call = "returned" => fh.request = "gone"
    /\ fh.tracked <=> fh.call = "entered"
    /\ fh.response # "none" => fh.call = "returned"
    /\ fh.call = "returned" /\ fh.response = "none" => fh.slot # "empty"

\* The builder holds what the host was told it holds as long as it can still be built.
HandleConfig ==
    /\ fh.shell = "none" =>
           /\ fh.settings = {} /\ fh.acked = {} /\ fh.policy = "auto" /\ fh.ackedPolicy = "auto"
           /\ fh.gap = "none" /\ ~fh.inner
    /\ fh.client = "none" =>
           fh.clientSettings = {} /\ fh.clientPolicy = "auto" /\ fh.clientGap = "none"
    /\ fh.client = "none" /\ fh.inner =>
           /\ fh.settings = fh.acked /\ fh.policy = fh.ackedPolicy
           /\ fh.gap = missing_capability(fh.policy)
    /\ fh.client # "none" =>
           /\ fh.clientSettings = fh.acked /\ fh.clientPolicy = fh.ackedPolicy
           /\ fh.clientGap = missing_capability(fh.ackedPolicy)

HandleInv == fh \in HandleState /\ HandleCalls /\ HandleConfig

\* The fields the requests and sends are about, and those the builder and client are about.
CallFields == <<fh.request, fh.held, fh.tracked, fh.frees, fh.call, fh.slot, fh.response>>
ConfigFields == <<fh.compiled, fh.shell, fh.inner, fh.settings, fh.acked, fh.policy, fh.ackedPolicy,
                  fh.gap, fh.client, fh.clientSettings, fh.clientPolicy, fh.clientGap>>

\* What is dropped, cleared and reported, field by field.
LEMMA HandleMoves ==
    ASSUME NEW s \in HandleState
    PROVE  /\ clear_pointer(s) \in HandleState
           /\ clear_pointer(s) = [s EXCEPT !.tracked = FALSE]
           /\ s.frees = 0 =>
                 /\ Freed(s) \in HandleState
                 /\ error_to_handle(Freed(s)) \in HandleState
                 /\ error_to_handle(Freed(s)) =
                       [s EXCEPT !.request = "gone", !.frees = 1, !.call = "returned",
                                 !.slot = IF s.slot = "none" THEN "none" ELSE "error"]
<1>1. clear_pointer(s) \in HandleState /\ clear_pointer(s) = [s EXCEPT !.tracked = FALSE]
  BY DEF clear_pointer, HandleState
<1>2. ASSUME s.frees = 0
      PROVE  /\ Freed(s) \in HandleState
             /\ error_to_handle(Freed(s)) \in HandleState
             /\ error_to_handle(Freed(s)) =
                   [s EXCEPT !.request = "gone", !.frees = 1, !.call = "returned",
                             !.slot = IF s.slot = "none" THEN "none" ELSE "error"]
  <2> DEFINE w == Freed(s)
             l == IF s.slot = "none" THEN "none" ELSE "error"
  <2>0. 1 \in 0 .. 2 /\ s.frees + 1 = 1 /\ l \in {"none", "empty", "error"}
    BY <1>2
  <2>1. w = [s EXCEPT !.request = "gone", !.frees = 1]
    BY <2>0 DEF Freed
  <2>2. w \in HandleState /\ w.slot = s.slot
    BY <2>0, <2>1, ZenonT(60) DEF HandleState
  <2>3. error_to_handle(w) = [w EXCEPT !.call = "returned", !.slot = l]
    BY <2>2 DEF error_to_handle
  <2> HIDE DEF l
  <2>4. error_to_handle(w) = [s EXCEPT !.request = "gone", !.frees = 1, !.call = "returned", !.slot = l]
    BY <2>1, <2>3 DEF HandleState
  <2>5. error_to_handle(w) \in HandleState
    <3>1. ASSUME NEW v, v = [s EXCEPT !.request = "gone", !.frees = 1, !.call = "returned", !.slot = l]
          PROVE  v \in HandleState
      BY <2>0, <3>1 DEF HandleState
    <3>2. QED
      BY <2>4, <3>1
  <2>6. QED
    BY <2>2, <2>4, <2>5 DEF l
<1>3. QED
  BY <1>1, <1>2

\* The steps of the builder and the client: the calls stay as they are.
BuilderSteps ==
    \/ eggfetch_client_builder_new \/ eggfetch_client_builder_free \/ eggfetch_client_builder_build
    \/ \E ok \in BOOLEAN :
          \/ eggfetch_client_builder_timeout(ok) \/ eggfetch_client_builder_follow_redirects(ok)
          \/ eggfetch_client_builder_default_header(ok) \/ eggfetch_client_builder_basic_auth(ok)
          \/ eggfetch_client_builder_max_decoded_body_size(ok)
          \/ \E p \in Policies : eggfetch_client_builder_http_version(p, ok)
    \/ eggfetch_client_new \/ eggfetch_client_free

\* A builder or client step leaves the calls alone and keeps the configuration's part.
LEMMA BuilderTypes ==
    ASSUME HandleInv, BuilderSteps
    PROVE  fh' \in HandleState /\ UNCHANGED CallFields /\ HandleConfig'
<1>t. fh \in HandleState /\ HandleConfig
  BY DEF HandleInv
<1>m. \A p \in Policies : missing_capability(p) \in Gaps
  BY DEF missing_capability, Gaps
<1>a. "auto" \in Policies /\ "none" \in Gaps /\ {} \in Settings
  BY DEF Policies, Gaps, Settings
<1>c. ASSUME fh'.compiled = fh.compiled
      PROVE  \A p : missing_capability(p)' = missing_capability(p)
  BY <1>c DEF missing_capability
<1>1. CASE eggfetch_client_builder_new
  <2>1. fh' = [fh EXCEPT !.shell = "live", !.inner = TRUE] /\ fh.shell = "none" /\ fh.client = "none"
    BY <1>1 DEF eggfetch_client_builder_new
  <2>2. fh' \in HandleState
    BY <1>t, <2>1 DEF HandleState
  <2>3. UNCHANGED CallFields
    BY <1>t, <2>1 DEF HandleState, CallFields
  <2>4. fh'.shell = "live" /\ fh'.client = "none" /\ fh'.settings = {} /\ fh'.acked = {}
        /\ fh'.policy = "auto" /\ fh'.ackedPolicy = "auto" /\ fh'.gap = "none"
        /\ fh'.clientSettings = {} /\ fh'.clientPolicy = "auto" /\ fh'.clientGap = "none"
    BY <1>t, <2>1 DEF HandleState, HandleConfig
  <2>5. QED
    BY <2>2, <2>3, <2>4 DEF HandleConfig, missing_capability
<1>2. CASE eggfetch_client_builder_free
  <2>1. fh' = [fh EXCEPT !.shell = "freed", !.inner = FALSE]
    BY <1>2 DEF eggfetch_client_builder_free
  <2>2. fh' \in HandleState
    BY <1>t, <2>1 DEF HandleState
  <2>3. UNCHANGED CallFields
    BY <1>t, <2>1 DEF HandleState, CallFields
  <2>4. fh'.shell = "freed" /\ fh'.inner = FALSE /\ fh'.client = fh.client /\ fh'.acked = fh.acked
        /\ fh'.ackedPolicy = fh.ackedPolicy /\ fh'.compiled = fh.compiled
        /\ fh'.clientSettings = fh.clientSettings /\ fh'.clientPolicy = fh.clientPolicy
        /\ fh'.clientGap = fh.clientGap
    BY <1>t, <2>1 DEF HandleState
  <2>5. QED
    BY <1>t, <2>2, <2>3, <2>4 DEF HandleConfig, missing_capability
<1>3. CASE eggfetch_client_builder_build
  <2>1. fh' = [fh EXCEPT !.inner = FALSE, !.client = "live", !.clientSettings = fh.settings,
                        !.clientPolicy = fh.policy, !.clientGap = fh.gap]
        /\ fh.shell = "live" /\ fh.inner /\ fh.client = "none"
    BY <1>3 DEF eggfetch_client_builder_build, Settable
  <2>2. fh' \in HandleState
    BY <1>t, <2>1 DEF HandleState
  <2>3. UNCHANGED CallFields
    BY <1>t, <2>1 DEF HandleState, CallFields
  <2>4. fh'.shell = "live" /\ fh'.client = "live" /\ fh'.acked = fh.acked
        /\ fh'.ackedPolicy = fh.ackedPolicy /\ fh'.compiled = fh.compiled
        /\ fh'.clientSettings = fh.settings /\ fh'.clientPolicy = fh.policy /\ fh'.clientGap = fh.gap
    BY <1>t, <2>1 DEF HandleState
  <2>5. QED
    BY <1>t, <2>1, <2>2, <2>3, <2>4 DEF HandleConfig, missing_capability
<1>s. ASSUME NEW ok \in BOOLEAN, NEW x \in Phases \cup OtherSettings, Settable,
             fh' = update_builder([fh EXCEPT !.settings = fh.settings \cup {x},
                                             !.acked = fh.acked \cup {x}], ok)
      PROVE  fh' \in HandleState /\ UNCHANGED CallFields /\ HandleConfig'
  <2>1. CASE ok = FALSE
    <3>1. fh' = [fh EXCEPT !.inner = FALSE] /\ fh.shell = "live" /\ fh.client = "none"
      BY <1>s, <2>1 DEF update_builder, Settable
    <3>2. fh' \in HandleState
      BY <1>t, <3>1 DEF HandleState
    <3>3. UNCHANGED CallFields
      BY <1>t, <3>1 DEF HandleState, CallFields
    <3>4. fh'.shell = "live" /\ fh'.client = "none" /\ fh'.inner = FALSE
          /\ fh'.clientSettings = fh.clientSettings /\ fh'.clientPolicy = fh.clientPolicy
          /\ fh'.clientGap = fh.clientGap
      BY <1>t, <3>1 DEF HandleState
    <3>5. QED
      BY <1>t, <3>1, <3>2, <3>3, <3>4 DEF HandleConfig
  <2>2. CASE ok = TRUE
    <3> DEFINE c == fh.settings \cup {x}
               d == fh.acked \cup {x}
    <3>1. fh' = [fh EXCEPT !.settings = c, !.acked = d] /\ fh.shell = "live" /\ fh.client = "none"
          /\ fh.inner
      BY <1>s, <2>2 DEF update_builder, Settable
    <3>2. fh.settings \in Settings /\ fh.acked \in Settings
      BY <1>t DEF HandleState
    <3>3. c \in Settings /\ d \in Settings
      BY <3>2 DEF Settings
    <3>4. c = d
      BY <1>t, <3>1 DEF HandleConfig
    <3> HIDE DEF c, d
    <3>5. fh' \in HandleState
      BY <1>t, <3>1, <3>3 DEF HandleState
    <3>6. UNCHANGED CallFields
      BY <1>t, <3>1 DEF HandleState, CallFields
    <3>7. fh'.shell = "live" /\ fh'.client = "none" /\ fh'.settings = c /\ fh'.acked = d
          /\ fh'.policy = fh.policy /\ fh'.ackedPolicy = fh.ackedPolicy /\ fh'.gap = fh.gap
          /\ fh'.clientSettings = fh.clientSettings /\ fh'.clientPolicy = fh.clientPolicy
          /\ fh'.clientGap = fh.clientGap /\ fh'.compiled = fh.compiled
      BY <1>t, <3>1 DEF HandleState
    <3>8. QED
      BY <1>t, <3>1, <3>4, <3>5, <3>6, <3>7 DEF HandleConfig, missing_capability
  <2>3. QED
    BY <1>s, <2>1, <2>2
<1>4. ASSUME NEW ok \in BOOLEAN, eggfetch_client_builder_timeout(ok)
      PROVE  fh' \in HandleState /\ UNCHANGED CallFields /\ HandleConfig'
  <2>1. PICK p \in Phases : BuilderTimeout(p, ok)
    BY <1>4 DEF eggfetch_client_builder_timeout
  <2>2. Settable /\ fh' = update_builder([fh EXCEPT !.settings = fh.settings \cup {p},
                                                    !.acked = fh.acked \cup {p}], ok)
    BY <2>1 DEF BuilderTimeout, merge_timeout
  <2>3. QED
    BY <1>s, <2>2
<1>5. ASSUME NEW ok \in BOOLEAN, \E x \in OtherSettings : BuilderSet(x, ok)
      PROVE  fh' \in HandleState /\ UNCHANGED CallFields /\ HandleConfig'
  BY <1>5, <1>s DEF BuilderSet
<1>6. ASSUME NEW ok \in BOOLEAN, NEW p \in Policies, eggfetch_client_builder_http_version(p, ok)
      PROVE  fh' \in HandleState /\ UNCHANGED CallFields /\ HandleConfig'
  <2> DEFINE g == missing_capability(p)
  <2>0. fh.shell = "live" /\ fh.client = "none" /\ fh.inner /\ g \in Gaps
    BY <1>6, <1>m DEF eggfetch_client_builder_http_version, Settable
  <2>1. CASE ok = FALSE
    <3>1. fh' = [[fh EXCEPT !.inner = FALSE] EXCEPT !.gap = g]
      BY <1>6, <2>1 DEF update_builder, eggfetch_client_builder_http_version
    <3> HIDE DEF g
    <3>2. fh' = [fh EXCEPT !.inner = FALSE, !.gap = g]
      BY <1>t, <3>1 DEF HandleState
    <3>3. fh' \in HandleState
      BY <1>t, <2>0, <3>2 DEF HandleState
    <3>4. UNCHANGED CallFields
      BY <1>t, <3>2 DEF HandleState, CallFields
    <3>5. fh'.shell = "live" /\ fh'.client = "none" /\ fh'.inner = FALSE
          /\ fh'.clientSettings = fh.clientSettings /\ fh'.clientPolicy = fh.clientPolicy
          /\ fh'.clientGap = fh.clientGap
      BY <1>t, <2>0, <3>2 DEF HandleState
    <3>6. QED
      BY <1>t, <2>0, <3>3, <3>4, <3>5 DEF HandleConfig
  <2>2. CASE ok = TRUE
    <3>1. fh' = [[fh EXCEPT !.policy = p, !.ackedPolicy = p] EXCEPT !.gap = g]
      BY <1>6, <2>2 DEF update_builder, eggfetch_client_builder_http_version
    <3> HIDE DEF g
    <3>2. fh' = [fh EXCEPT !.policy = p, !.ackedPolicy = p, !.gap = g]
      BY <1>t, <3>1 DEF HandleState
    <3>3. fh' \in HandleState
      BY <1>t, <2>0, <3>2 DEF HandleState
    <3>4. UNCHANGED CallFields
      BY <1>t, <3>2 DEF HandleState, CallFields
    <3>5. fh'.shell = "live" /\ fh'.client = "none" /\ fh'.settings = fh.settings /\ fh'.acked = fh.acked
          /\ fh'.policy = p /\ fh'.ackedPolicy = p /\ fh'.gap = g
          /\ fh'.clientSettings = fh.clientSettings /\ fh'.clientPolicy = fh.clientPolicy
          /\ fh'.clientGap = fh.clientGap /\ fh'.compiled = fh.compiled
      BY <1>t, <2>0, <3>2 DEF HandleState
    <3>6. missing_capability(p)' = g
      BY <3>5, <1>c DEF g
    <3>7. missing_capability(fh.policy)' = g
      BY <3>5, <3>6 DEF missing_capability
    <3>8. QED
      BY <1>t, <2>0, <3>3, <3>4, <3>5, <3>7 DEF HandleConfig
  <2>3. QED
    BY <2>1, <2>2
<1>7. CASE eggfetch_client_new
  <2>1. fh' = [fh EXCEPT !.client = "live"] /\ fh.shell = "none" /\ fh.client = "none"
    BY <1>7 DEF eggfetch_client_new
  <2>2. fh' \in HandleState
    BY <1>t, <2>1 DEF HandleState
  <2>3. UNCHANGED CallFields
    BY <1>t, <2>1 DEF HandleState, CallFields
  <2>4. fh'.shell = "none" /\ fh'.client = "live" /\ fh'.settings = {} /\ fh'.acked = {}
        /\ fh'.policy = "auto" /\ fh'.ackedPolicy = "auto" /\ fh'.gap = "none" /\ ~fh'.inner
        /\ fh'.clientSettings = {} /\ fh'.clientPolicy = "auto" /\ fh'.clientGap = "none"
    BY <1>t, <2>1 DEF HandleState, HandleConfig
  <2>5. QED
    BY <2>2, <2>3, <2>4 DEF HandleConfig, missing_capability
<1>8. CASE eggfetch_client_free
  <2>1. fh' = [fh EXCEPT !.client = "freed"] /\ fh.client = "live"
    BY <1>8 DEF eggfetch_client_free
  <2>2. fh' \in HandleState
    BY <1>t, <2>1 DEF HandleState
  <2>3. UNCHANGED CallFields
    BY <1>t, <2>1 DEF HandleState, CallFields
  <2>4. fh'.shell = fh.shell /\ fh'.client = "freed" /\ fh'.settings = fh.settings /\ fh'.acked = fh.acked
        /\ fh'.policy = fh.policy /\ fh'.ackedPolicy = fh.ackedPolicy /\ fh'.gap = fh.gap
        /\ fh'.inner = fh.inner /\ fh'.clientSettings = fh.clientSettings
        /\ fh'.clientPolicy = fh.clientPolicy /\ fh'.clientGap = fh.clientGap
        /\ fh'.compiled = fh.compiled
    BY <1>t, <2>1 DEF HandleState
  <2>5. QED
    BY <1>t, <2>1, <2>2, <2>3, <2>4 DEF HandleConfig, missing_capability
<1>9. QED
  BY <1>1, <1>2, <1>3, <1>4, <1>5, <1>6, <1>7, <1>8
     DEF BuilderSteps, OtherSettings, eggfetch_client_builder_follow_redirects,
         eggfetch_client_builder_default_header, eggfetch_client_builder_basic_auth,
         eggfetch_client_builder_max_decoded_body_size

\* A panic ends a send like an error: one drop, by the frame or by the tracked pointer.
LEMMA PanicsOnce ==
    ASSUME HandleInv, Panics
    PROVE  fh' = error_to_handle(Freed(clear_pointer(fh)))
<1>1. fh \in HandleState /\ fh.frees = 0 /\ fh.call \in {"entered", "consumed", "running"}
      /\ (fh.tracked <=> fh.call = "entered")
  BY DEF HandleInv, HandleCalls, Panics
<1> DEFINE unwound == IF fh.call = "entered" THEN fh ELSE Freed(fh)
           dropped == IF fh.tracked THEN Freed(unwound) ELSE unwound
<1>2. dropped = Freed(fh)
  BY <1>1
<1>3. fh' = error_to_handle([Freed(fh) EXCEPT !.tracked = FALSE])
  BY <1>2 DEF Panics
<1>4. [Freed(fh) EXCEPT !.tracked = FALSE] = Freed(clear_pointer(fh))
  BY <1>1 DEF Freed, clear_pointer, HandleState
<1>5. QED
  BY <1>3, <1>4

\* The calls' part is kept by every step.
LEMMA HandleCallStep ==
    ASSUME HandleInv, [HandleNext]_handleVars
    PROVE  /\ fh' \in HandleState /\ HandleCalls'
           /\ BuilderSteps \/ UNCHANGED ConfigFields
<1> USE HandleAssumption
<1>t. fh \in HandleState /\ HandleCalls
  BY DEF HandleInv
<1>q. ASSUME fh' \in HandleState, UNCHANGED CallFields
      PROVE  HandleCalls'
  BY <1>q, <1>t DEF HandleCalls, CallFields
<1>e. ASSUME fh.call \in {"entered", "consumed", "running"}, fh' = error_to_handle(Freed(clear_pointer(fh)))
      PROVE  fh' \in HandleState /\ HandleCalls' /\ UNCHANGED ConfigFields
  <2> DEFINE s == clear_pointer(fh)
             l == IF s.slot = "none" THEN "none" ELSE "error"
  <2>1. s \in HandleState /\ s = [fh EXCEPT !.tracked = FALSE] /\ fh.frees = 0 /\ fh.response = "none"
    BY <1>e, <1>t, HandleMoves DEF HandleCalls
  <2>2. s.frees = 0 /\ s.response = "none" /\ s.tracked = FALSE /\ s.slot = fh.slot
    BY <1>t, <2>1 DEF HandleState
  <2>3. s.compiled = fh.compiled /\ s.shell = fh.shell /\ s.inner = fh.inner /\ s.settings = fh.settings
        /\ s.acked = fh.acked /\ s.policy = fh.policy /\ s.ackedPolicy = fh.ackedPolicy /\ s.gap = fh.gap
        /\ s.client = fh.client /\ s.clientSettings = fh.clientSettings
        /\ s.clientPolicy = fh.clientPolicy /\ s.clientGap = fh.clientGap
    BY <1>t, <2>1 DEF HandleState
  <2> HIDE DEF s
  <2>4. fh' \in HandleState /\ fh' = [s EXCEPT !.request = "gone", !.frees = 1, !.call = "returned", !.slot = l]
    BY <1>e, <2>1, <2>2, HandleMoves DEF s
  <2>5. l # "empty"
    OBVIOUS
  <2> HIDE DEF l
  <2>6. fh'.request = "gone" /\ fh'.frees = 1 /\ fh'.call = "returned" /\ fh'.slot = l
        /\ fh'.tracked = FALSE /\ fh'.response = "none"
    BY <2>1, <2>2, <2>4 DEF HandleState
  <2>7. UNCHANGED ConfigFields
    BY <2>1, <2>3, <2>4 DEF HandleState, ConfigFields
  <2>8. QED
    BY <2>4, <2>5, <2>6, <2>7 DEF HandleCalls
<1>1. CASE UNCHANGED handleVars
  <2>1. fh' = fh
    BY <1>1 DEF handleVars
  <2>2. QED
    BY <1>t, <2>1, <1>q DEF CallFields, ConfigFields
<1>3. CASE eggfetch_client_request
  <2> DEFINE m == fh.made + 1
  <2>1. m \in 0 .. MaxRequests /\ 0 \in 0 .. 2
    BY <1>3, <1>t DEF eggfetch_client_request, HandleState
  <2>2. fh' = [fh EXCEPT !.request = "live", !.held = TRUE, !.tracked = FALSE, !.made = m, !.frees = 0,
                         !.call = "none", !.slot = "none", !.response = "none", !.copied = FALSE]
    BY <1>3 DEF eggfetch_client_request, NewRequest
  <2> HIDE DEF m
  <2>3. fh' \in HandleState
    BY <1>t, <2>1, <2>2, ZenonT(60) DEF HandleState
  <2>4. fh'.request = "live" /\ fh'.frees = 0 /\ fh'.call = "none" /\ fh'.tracked = FALSE
        /\ fh'.response = "none"
    BY <1>t, <2>2 DEF HandleState
  <2>5. UNCHANGED ConfigFields
    BY <1>t, <2>2 DEF HandleState, ConfigFields
  <2>6. QED
    BY <2>3, <2>4, <2>5 DEF HandleCalls
<1>4. ASSUME NEW ok \in BOOLEAN, update_request(ok)
      PROVE  fh' \in HandleState /\ HandleCalls' /\ UNCHANGED ConfigFields
  <2>1. fh' = [fh EXCEPT !.held = ok]
    BY <1>4 DEF update_request
  <2>2. fh' \in HandleState
    BY <1>t, <2>1 DEF HandleState
  <2>3. UNCHANGED ConfigFields /\ fh'.request = fh.request /\ fh'.frees = fh.frees /\ fh'.call = fh.call
        /\ fh'.tracked = fh.tracked /\ fh'.response = fh.response /\ fh'.slot = fh.slot
    BY <1>t, <2>1 DEF HandleState, ConfigFields
  <2>4. QED
    BY <1>t, <2>2, <2>3 DEF HandleCalls
<1>5. CASE eggfetch_request_free
  <2>1. fh.request = "live" /\ fh.call = "none" /\ fh' = Freed(fh) /\ fh.frees = 0
    BY <1>5, <1>t DEF eggfetch_request_free, HandleCalls
  <2>2. fh' = [fh EXCEPT !.request = "gone", !.frees = 1]
    BY <2>1 DEF Freed
  <2>3. fh' \in HandleState
    BY <1>t, <2>1, HandleMoves
  <2>4. UNCHANGED ConfigFields /\ fh'.request = "gone" /\ fh'.frees = 1 /\ fh'.call = "none"
        /\ fh'.tracked = fh.tracked /\ fh'.response = fh.response
    BY <1>t, <2>1, <2>2 DEF HandleState, ConfigFields
  <2>5. QED
    BY <1>t, <2>1, <2>3, <2>4 DEF HandleCalls
<1>6. ASSUME NEW slot \in {"none", "empty"}, SendBegins(slot)
      PROVE  fh' \in HandleState /\ HandleCalls' /\ UNCHANGED ConfigFields
  <2>1. fh' = [fh EXCEPT !.call = "entered", !.tracked = TRUE, !.slot = slot]
        /\ fh.request = "live" /\ fh.call = "none"
    BY <1>6 DEF SendBegins
  <2>2. fh' \in HandleState
    BY <1>t, <2>1 DEF HandleState
  <2>3. UNCHANGED ConfigFields /\ fh'.request = fh.request /\ fh'.frees = fh.frees /\ fh'.call = "entered"
        /\ fh'.tracked = TRUE /\ fh'.response = fh.response
    BY <1>t, <2>1 DEF HandleState, ConfigFields
  <2>4. QED
    BY <1>t, <2>1, <2>2, <2>3 DEF HandleCalls
<1>7. CASE SendWithoutClient \/ (SendConsumes /\ ~fh.held)
  BY <1>7, <1>e DEF SendWithoutClient, SendConsumes
<1>8. CASE SendConsumes /\ fh.held
  <2>1. fh.call = "entered" /\ fh' = [clear_pointer(fh) EXCEPT !.call = "consumed"]
    BY <1>8 DEF SendConsumes
  <2>2. fh' = [fh EXCEPT !.tracked = FALSE, !.call = "consumed"]
    BY <1>t, <2>1, HandleMoves DEF HandleState
  <2>3. fh' \in HandleState
    BY <1>t, <2>2 DEF HandleState
  <2>4. UNCHANGED ConfigFields /\ fh'.request = fh.request /\ fh'.frees = fh.frees
        /\ fh'.call = "consumed" /\ fh'.tracked = FALSE /\ fh'.response = fh.response
    BY <1>t, <2>2 DEF HandleState, ConfigFields
  <2>5. QED
    BY <1>t, <2>1, <2>3, <2>4 DEF HandleCalls
<1>9. CASE reject_missing_capability \/ SendFails
  <2>1. fh.call \in {"consumed", "running"} /\ fh' = error_to_handle(Freed(fh)) /\ fh.tracked = FALSE
    BY <1>9, <1>t DEF reject_missing_capability, SendFails, HandleCalls, HandleState
  <2>2. clear_pointer(fh) = fh
    BY <1>t, <2>1 DEF clear_pointer, HandleState
  <2>3. QED
    BY <1>e, <2>1, <2>2
<1>10. CASE blocking_send
  <2>1. fh' = [fh EXCEPT !.call = "running"] /\ fh.call = "consumed"
    BY <1>10 DEF blocking_send
  <2>2. fh' \in HandleState
    BY <1>t, <2>1 DEF HandleState
  <2>3. UNCHANGED ConfigFields /\ fh'.request = fh.request /\ fh'.frees = fh.frees /\ fh'.call = "running"
        /\ fh'.tracked = fh.tracked /\ fh'.response = fh.response
    BY <1>t, <2>1 DEF HandleState, ConfigFields
  <2>4. QED
    BY <1>t, <2>1, <2>2, <2>3 DEF HandleCalls
<1>11. CASE SendReturns
  <2>1. fh.call = "running" /\ fh' = [Freed(fh) EXCEPT !.call = "returned", !.response = "live"]
        /\ fh.frees = 0 /\ ~fh.tracked
    BY <1>11, <1>t DEF SendReturns, HandleCalls
  <2>2. fh' = [fh EXCEPT !.request = "gone", !.frees = 1, !.call = "returned", !.response = "live"]
    BY <1>t, <2>1 DEF Freed, HandleState
  <2>3. 1 \in 0 .. 2
    OBVIOUS
  <2>4. fh' \in HandleState
    BY <1>t, <2>2, <2>3 DEF HandleState
  <2>5. UNCHANGED ConfigFields /\ fh'.request = "gone" /\ fh'.frees = 1 /\ fh'.call = "returned"
        /\ fh'.tracked = fh.tracked /\ fh'.response = "live"
    BY <1>t, <2>2 DEF HandleState, ConfigFields
  <2>6. QED
    BY <2>1, <2>4, <2>5 DEF HandleCalls
<1>12. CASE Panics
  BY <1>12, <1>e, PanicsOnce DEF Panics
<1>13. CASE eggfetch_response_body \/ eggfetch_body_free
  <2>1. PICK c \in BOOLEAN : fh' = [fh EXCEPT !.copied = c]
    BY <1>13 DEF eggfetch_response_body, eggfetch_body_free
  <2>2. fh' \in HandleState
    BY <1>t, <2>1 DEF HandleState
  <2>3. UNCHANGED ConfigFields /\ fh'.request = fh.request /\ fh'.frees = fh.frees /\ fh'.call = fh.call
        /\ fh'.tracked = fh.tracked /\ fh'.response = fh.response /\ fh'.slot = fh.slot
    BY <1>t, <2>1 DEF HandleState, ConfigFields
  <2>4. QED
    BY <1>t, <2>2, <2>3 DEF HandleCalls
<1>14. CASE eggfetch_response_free
  <2>1. fh' = [fh EXCEPT !.response = "freed"] /\ fh.response = "live"
    BY <1>14 DEF eggfetch_response_free
  <2>2. fh' \in HandleState
    BY <1>t, <2>1 DEF HandleState
  <2>3. UNCHANGED ConfigFields /\ fh'.request = fh.request /\ fh'.frees = fh.frees /\ fh'.call = fh.call
        /\ fh'.tracked = fh.tracked /\ fh'.response = "freed"
    BY <1>t, <2>1 DEF HandleState, ConfigFields
  <2>4. QED
    BY <1>t, <2>1, <2>2, <2>3 DEF HandleCalls
<1>15. CASE BuilderSteps
  BY <1>15, <1>q, BuilderTypes
<1>16. QED
  BY <1>1, <1>3, <1>4, <1>5, <1>6, <1>7, <1>8, <1>9, <1>10, <1>11, <1>12, <1>13, <1>14, <1>15
     DEF HandleNext, BuilderSteps

\* For any number of requests, whatever the order of calls and panics: the invariant.
THEOREM HandleInvariant == HandleSpec => []HandleInv
<1>1. HandleInit => HandleInv
  <2> SUFFICES ASSUME NEW c \in SUBSET {"http2", "http3"}, fh = HandleStart(c)
               PROVE  HandleInv
    BY DEF HandleInit
  <2>1. fh = [compiled |-> c, shell |-> "none", inner |-> FALSE, settings |-> {}, acked |-> {},
              policy |-> "auto", ackedPolicy |-> "auto", gap |-> "none", client |-> "none",
              clientSettings |-> {}, clientPolicy |-> "auto", clientGap |-> "none",
              request |-> "none", held |-> FALSE, tracked |-> FALSE, made |-> 0, frees |-> 0,
              call |-> "none", slot |-> "none", response |-> "none", copied |-> FALSE]
    BY DEF HandleStart
  <2>2. "auto" \in Policies /\ "none" \in Gaps /\ {} \in Settings /\ 0 \in 0 .. MaxRequests /\ 0 \in 0 .. 2
    BY HandleAssumption DEF Policies, Gaps, Settings
  <2>3. fh \in HandleState
    BY <2>1, <2>2 DEF HandleState
  <2>4. HandleCalls /\ HandleConfig
    BY <2>1 DEF HandleCalls, HandleConfig
  <2>5. QED
    BY <2>3, <2>4 DEF HandleInv
<1>2. HandleInv /\ [HandleNext]_handleVars => HandleInv'
  <2> SUFFICES ASSUME HandleInv, [HandleNext]_handleVars
               PROVE  HandleInv'
    OBVIOUS
  <2>1. fh' \in HandleState /\ HandleCalls'
    BY HandleCallStep
  <2>2. CASE BuilderSteps
    BY <2>1, <2>2, BuilderTypes DEF HandleInv
  <2>3. CASE UNCHANGED ConfigFields
    BY <2>1, <2>3 DEF HandleInv, HandleConfig, ConfigFields, missing_capability
  <2>4. QED
    BY <2>2, <2>3, HandleCallStep
<1>3. QED
  BY <1>1, <1>2, PTL DEF HandleSpec

\* A send that returned has dropped its request exactly once, also after a panic at any point
\* of it, and a send without a response left its error.
THEOREM RequestsAreReleasedOnce == HandleSpec => []RequestReleasedOnce
<1>1. HandleInv => RequestReleasedOnce
  BY DEF HandleInv, HandleCalls, RequestReleasedOnce
<1>2. QED
  BY <1>1, HandleInvariant, PTL

\* A client has what its builder acknowledged, also after setters that panicked.
THEOREM ClientsAreAsConfigured == HandleSpec => []ClientIsAsConfigured
<1>1. HandleInv => ClientIsAsConfigured
  <2> SUFFICES ASSUME HandleInv, fh.client # "none"
               PROVE  /\ fh.clientSettings = fh.acked /\ fh.clientPolicy = fh.ackedPolicy
                      /\ (fh.clientGap # "none") <=>
                            \/ fh.ackedPolicy = "http2Only" /\ "http2" \notin fh.compiled
                            \/ fh.ackedPolicy = "http3Only" /\ "http3" \notin fh.compiled
    BY DEF ClientIsAsConfigured
  <2>1. /\ fh.clientSettings = fh.acked /\ fh.clientPolicy = fh.ackedPolicy
        /\ fh.clientGap = missing_capability(fh.ackedPolicy)
    BY DEF HandleInv, HandleConfig
  <2>2. QED
    BY <2>1 DEF missing_capability
<1>2. QED
  BY <1>1, HandleInvariant, PTL
(***************************************************************************)
(* Routes and their clients.                                               *)
(***************************************************************************)
\* What a client cached under a key was built with: all that its family's connections
\* depend on is in the key.
Keyed(k, c) ==
    /\ c.family = k.family
    /\ k.family \in {"sni", "sniCustom", "resolved", "socks", "forward", "connect"}
    /\ k.family = "resolved" => c.pins = k.pins
    /\ k.family # "resolved" => c.pins = <<>>
    /\ k.family \in {"sni", "sniCustom", "resolved"} => c.proxy = NoProxyConfig
    /\ k.family = "socks" => SocksLeg(c.proxy) = k.proxy
    /\ k.family \in {"forward", "connect"} => c.proxy = k.proxy /\ c.connect = k.connect
    /\ k.family = "forward" => c.target = <<>>
    /\ k.family \in {"socks", "connect"} => c.target = k.target
    /\ k.family \in {"sni", "sniCustom", "resolved", "connect"} => c.sni = k.sni
    /\ k.family \in {"socks", "forward"} => c.sni = Missing
    /\ k.family = "connect" => c.origin = k.origin
    /\ k.family # "connect" => c.origin = <<>>

RouteInv ==
    /\ setup \in Setups
    /\ \A k \in DOMAIN clients : Keyed(k, clients[k])
    /\ RouteFits

\* A set of positions that is not empty has a first one.
LEMMA FirstPosition ==
    ASSUME NEW S, S \subseteq Nat, S # {}
    PROVE  Min(S) \in S /\ \A j \in S : Min(S) <= j
<1> DEFINE R == {ss \in Nat \X Nat : ss[1] < ss[2]}
<1>0. IsWellFoundedOn(R, Nat)
  <2>1. OpToRel(<, Nat) = R
    BY Zenon DEF OpToRel
  <2>2. QED
    BY <2>1, NatLessThanWellFounded, Zenon
<1>1. PICK x \in S : \A y \in S : ~ (<<y, x>> \in R)
  <2> HIDE DEF R
  <2>1. QED
    BY <1>0, WFMin
<1>2. \A y \in S : x <= y
  <2>1. TAKE y \in S
  <2>2. x \in Nat /\ y \in Nat
    OBVIOUS
  <2>3. ~(<<y, x>> \in R)
    BY <1>1, Zenon
  <2>4. ~(<<y, x>>[1] < <<y, x>>[2])
    BY <2>2, <2>3
  <2>5. QED
    BY <2>2, <2>4
<1>3. QED
  BY <1>2 DEF Min

\* A proxy is used where it applies to the scheme and no rule of its own bypasses it.
Usable(p, scheme, host, port) ==
    /\ should_use_for_scheme(p, scheme)
    /\ ~should_bypass_components(p.bypass, scheme, host, port)

\* The proxy that is inherited is the configuration of a candidate, or none.
LEMMA FirstUsableIsListed ==
    ASSUME NEW S, NEW s \in Seq(S), NEW scheme, NEW host, NEW port
    PROVE  \/ /\ FirstUsable(s, scheme, host, port) = NoProxyConfig
              /\ \A i \in DOMAIN s : ~Usable(s[i], scheme, host, port)
           \/ \E i \in DOMAIN s : /\ FirstUsable(s, scheme, host, port) = s[i].config
                                  /\ Usable(s[i], scheme, host, port)
                                  /\ \A j \in DOMAIN s : Usable(s[j], scheme, host, port) => i <= j
<1> DEFINE usable == {i \in DOMAIN s : Usable(s[i], scheme, host, port)}
<1>1. FirstUsable(s, scheme, host, port) = IF usable = {} THEN NoProxyConfig ELSE s[Min(usable)].config
  BY DEF FirstUsable, Usable
<1>2. DOMAIN s \subseteq Nat
  BY SeqDef
<1>3. CASE usable = {}
  BY <1>1, <1>3
<1>4. CASE usable # {}
  <2>1. Min(usable) \in usable /\ \A j \in usable : Min(usable) <= j
    BY <1>2, <1>4, FirstPosition
  <2>2. QED
    BY <1>1, <1>4, <2>1
<1>5. QED
  BY <1>3, <1>4

\* A list is searched before the one that is chained to it.
LEMMA FirstOfChained ==
    ASSUME NEW S, NEW a \in Seq(S), NEW b \in Seq(S), NEW scheme, NEW host, NEW port
    PROVE  FirstUsable(a \o b, scheme, host, port) =
             IF \E i \in DOMAIN a : Usable(a[i], scheme, host, port)
             THEN FirstUsable(a, scheme, host, port) ELSE FirstUsable(b, scheme, host, port)
<1> DEFINE U(p) == Usable(p, scheme, host, port)
           F(s) == FirstUsable(s, scheme, host, port)
<1>1. /\ a \o b \in Seq(S) /\ DOMAIN a = 1 .. Len(a) /\ DOMAIN b = 1 .. Len(b)
      /\ DOMAIN (a \o b) = 1 .. Len(a) + Len(b) /\ Len(a) \in Nat /\ Len(b) \in Nat
      /\ \A i \in 1 .. Len(a) : (a \o b)[i] = a[i]
      /\ \A i \in 1 .. Len(b) : (a \o b)[Len(a) + i] = b[i]
  OBVIOUS
<1>2. \A s \in Seq(S) :
         \/ F(s) = NoProxyConfig /\ \A i \in DOMAIN s : ~U(s[i])
         \/ \E i \in DOMAIN s : F(s) = s[i].config /\ U(s[i]) /\ \A j \in DOMAIN s : U(s[j]) => i <= j
  <2>1. TAKE s \in Seq(S)
  <2>2. \/ F(s) = NoProxyConfig /\ \A i \in DOMAIN s : ~U(s[i])
        \/ \E i \in DOMAIN s : F(s) = s[i].config /\ U(s[i]) /\ \A j \in DOMAIN s : U(s[j]) => i <= j
    BY FirstUsableIsListed, Zenon
  <2>3. QED
    BY <2>2
<1>c. \/ F(a \o b) = NoProxyConfig /\ \A i \in DOMAIN (a \o b) : ~U((a \o b)[i])
      \/ \E i \in DOMAIN (a \o b) : /\ F(a \o b) = (a \o b)[i].config /\ U((a \o b)[i])
                                     /\ \A j \in DOMAIN (a \o b) : U((a \o b)[j]) => i <= j
  BY <1>1, <1>2, Zenon
<1> HIDE DEF U, F
<1>3. CASE \E i \in DOMAIN a : U(a[i])
  <2>1. PICK i \in DOMAIN a : F(a) = a[i].config /\ U(a[i]) /\ \A j \in DOMAIN a : U(a[j]) => i <= j
    BY <1>2, <1>3
  <2>2. PICK k \in DOMAIN (a \o b) : /\ F(a \o b) = (a \o b)[k].config /\ U((a \o b)[k])
                                     /\ \A j \in DOMAIN (a \o b) : U((a \o b)[j]) => k <= j
    BY <1>1, <1>c, <2>1
  <2>3. k <= i
    BY <1>1, <2>1, <2>2
  <2>4. k \in DOMAIN a
    BY <1>1, <2>1, <2>2, <2>3
  <2>5. i <= k
    BY <1>1, <2>1, <2>2, <2>4
  <2>6. i = k
    BY <1>1, <2>1, <2>3, <2>4, <2>5
  <2>7. F(a \o b) = F(a)
    BY <1>1, <2>1, <2>2, <2>4, <2>6
  <2>8. QED
    BY <1>3, <2>7 DEF U, F
<1>4. CASE ~ \E i \in DOMAIN a : U(a[i])
  <2>1. CASE \A i \in DOMAIN b : ~U(b[i])
    <3>1. \A i \in DOMAIN (a \o b) : ~U((a \o b)[i])
      <4>1. TAKE i \in DOMAIN (a \o b)
      <4>2. CASE i <= Len(a)
        BY <1>1, <1>4, <4>2
      <4>3. CASE i > Len(a)
        <5>1. i - Len(a) \in 1 .. Len(b) /\ i = Len(a) + (i - Len(a))
          BY <1>1, <4>3
        <5>2. QED
          BY <1>1, <2>1, <5>1
      <4>4. QED
        BY <1>1, <4>2, <4>3
    <3>2. F(a \o b) = F(b)
      BY <1>2, <1>c, <2>1, <3>1
    <3>3. QED
      BY <1>4, <3>2 DEF U, F
  <2>2. CASE ~ \A i \in DOMAIN b : ~U(b[i])
    <3>1. PICK i \in DOMAIN b : F(b) = b[i].config /\ U(b[i]) /\ \A j \in DOMAIN b : U(b[j]) => i <= j
      BY <1>2, <2>2
    <3>2. Len(a) + i \in DOMAIN (a \o b) /\ (a \o b)[Len(a) + i] = b[i]
      BY <1>1, <3>1
    <3>3. PICK k \in DOMAIN (a \o b) : /\ F(a \o b) = (a \o b)[k].config /\ U((a \o b)[k])
                                       /\ \A j \in DOMAIN (a \o b) : U((a \o b)[j]) => k <= j
      BY <1>c, <3>1, <3>2
    <3>4. k <= Len(a) + i
      BY <3>1, <3>2, <3>3
    <3>5. k > Len(a)
      <4>1. ~(k \in 1 .. Len(a))
        BY <1>1, <1>4, <3>3
      <4>2. QED
        BY <1>1, <3>3, <4>1
    <3>6. PICK m \in 1 .. Len(b) : k = Len(a) + m
      <4>1. k - Len(a) \in 1 .. Len(b) /\ k = Len(a) + (k - Len(a))
        BY <1>1, <3>3, <3>5
      <4>2. QED
        BY <4>1
    <3>7. U(b[m]) /\ F(a \o b) = b[m].config
      BY <1>1, <3>3, <3>6
    <3>8. i <= m /\ m <= i
      BY <1>1, <3>1, <3>4, <3>6, <3>7
    <3>9. i = m
      BY <1>1, <3>1, <3>6, <3>8
    <3>10. F(a \o b) = F(b)
      BY <3>1, <3>7, <3>9
    <3>11. QED
      BY <1>4, <3>10 DEF U, F
  <2>3. QED
    BY <2>1, <2>2
<1>5. QED
  BY <1>3, <1>4 DEF U

\* A variable of the environment puts at most one proxy on the list.
LEMMA IfSetType ==
    ASSUME NEW S, NEW env, NEW raw, NEW rule, EnvProxy(raw, rule, env) \in S
    PROVE  IfSet(raw, rule, env) \in Seq(S)
<1> DEFINE p == EnvProxy(raw, rule, env)
<1> HIDE DEF p
<1>1. <<>> \in Seq(S) /\ <<p>> \in Seq(S)
  BY DEF p
<1>2. QED
  BY <1>1 DEF IfSet, p

\* A variable that is set and meant for the scheme, and a destination that is not exempt.
Applies(raw, rule, env, scheme, host, port) ==
    /\ raw # NoProxyConfig
    /\ rule \in {"All", IF scheme = "https" THEN "Https" ELSE "Http"}
    /\ ~should_bypass_components(parse_rules(env.noProxy, FALSE), scheme, host, port)

\* A proxy of the environment is searched as the list of at most one that it is.
LEMMA FirstIfSet ==
    ASSUME NEW env, NEW raw, NEW rule \in {"All", "Http", "Https"}, NEW scheme \in {"http", "https"},
           NEW host, NEW port
    PROVE  /\ (\E i \in DOMAIN IfSet(raw, rule, env) : Usable(IfSet(raw, rule, env)[i], scheme, host, port))
                  <=> Applies(raw, rule, env, scheme, host, port)
           /\ Applies(raw, rule, env, scheme, host, port) =>
                  FirstUsable(IfSet(raw, rule, env), scheme, host, port) = normalize_proxy_url(raw)
           /\ ~Applies(raw, rule, env, scheme, host, port) =>
                  FirstUsable(IfSet(raw, rule, env), scheme, host, port) = NoProxyConfig
<1> DEFINE s == IfSet(raw, rule, env)
           p == EnvProxy(raw, rule, env)
           on == Applies(raw, rule, env, scheme, host, port)
<1> SUFFICES /\ (\E i \in DOMAIN s : Usable(s[i], scheme, host, port)) <=> on
             /\ on => FirstUsable(s, scheme, host, port) = normalize_proxy_url(raw)
             /\ ~on => FirstUsable(s, scheme, host, port) = NoProxyConfig
  OBVIOUS
<1>1. CASE raw = NoProxyConfig
  <2>1. s = <<>> /\ DOMAIN s = {} /\ s \in Seq({p})
    BY <1>1 DEF IfSet
  <2>2. FirstUsable(s, scheme, host, port) = NoProxyConfig
    BY <2>1, FirstUsableIsListed
  <2>3. QED
    BY <1>1, <2>1, <2>2 DEF Applies
<1>2. CASE raw # NoProxyConfig
  <2>1. s = <<p>> /\ DOMAIN s = {1} /\ s[1] = p /\ s \in Seq({p})
    BY <1>2 DEF IfSet
  <2>2. p.config = normalize_proxy_url(raw) /\ p.rule = rule /\ p.bypass = parse_rules(env.noProxy, FALSE)
    BY DEF EnvProxy
  <2> HIDE DEF s, p
  <2>3. should_use_for_scheme(p, scheme) <=> rule \in {"All", IF scheme = "https" THEN "Https" ELSE "Http"}
    BY <2>2 DEF should_use_for_scheme
  <2>4. Usable(p, scheme, host, port) <=> on
    BY <1>2, <2>2, <2>3 DEF Usable, Applies
  <2>5. \/ FirstUsable(s, scheme, host, port) = NoProxyConfig /\ \A i \in DOMAIN s : ~Usable(s[i], scheme, host, port)
        \/ \E i \in DOMAIN s : FirstUsable(s, scheme, host, port) = s[i].config /\ Usable(s[i], scheme, host, port)
    BY <2>1, FirstUsableIsListed
  <2> HIDE DEF on
  <2>6. QED
    BY <2>1, <2>2, <2>4, <2>5
<1>3. QED
  BY <1>1, <1>2

\* What the environment makes of a request is the first that its list of proxies has for it.
LEMMA EnvironmentList ==
    ASSUME NEW env, NEW scheme \in {"http", "https"}, NEW host, NEW port
    PROVE  FirstUsable(client_proxies(env), scheme, host, port) = EnvironmentResolve(env, scheme, host, port)
<1> DEFINE h == IfSet(env.http, "Http", env)
           t == IfSet(env.https, "Https", env)
           a == IfSet(env.all, "All", env)
           S == {EnvProxy(env.http, "Http", env), EnvProxy(env.https, "Https", env), EnvProxy(env.all, "All", env)}
           F(s) == FirstUsable(s, scheme, host, port)
           E(s) == \E i \in DOMAIN s : Usable(s[i], scheme, host, port)
           bypassed == should_bypass_components(parse_rules(env.noProxy, FALSE), scheme, host, port)
<1>1. h \in Seq(S) /\ t \in Seq(S) /\ a \in Seq(S)
  BY IfSetType
<1>2. client_proxies(env) = h \o (t \o a)
  BY DEF client_proxies
<1>3. /\ E(h) <=> env.http # NoProxyConfig /\ scheme = "http" /\ ~bypassed
      /\ E(h) => F(h) = normalize_proxy_url(env.http)
      /\ E(t) <=> env.https # NoProxyConfig /\ scheme = "https" /\ ~bypassed
      /\ E(t) => F(t) = normalize_proxy_url(env.https)
      /\ env.all # NoProxyConfig /\ ~bypassed => F(a) = normalize_proxy_url(env.all)
      /\ ~(env.all # NoProxyConfig /\ ~bypassed) => F(a) = NoProxyConfig
  <2> DEFINE A(raw, rule) == Applies(raw, rule, env, scheme, host, port)
  <2>1. (E(h) <=> A(env.http, "Http")) /\ (A(env.http, "Http") => F(h) = normalize_proxy_url(env.http))
    BY FirstIfSet
  <2>2. (E(t) <=> A(env.https, "Https")) /\ (A(env.https, "Https") => F(t) = normalize_proxy_url(env.https))
    BY FirstIfSet
  <2>3. /\ A(env.all, "All") => F(a) = normalize_proxy_url(env.all)
        /\ ~A(env.all, "All") => F(a) = NoProxyConfig
    BY FirstIfSet
  <2>4. /\ A(env.http, "Http") <=> env.http # NoProxyConfig /\ scheme = "http" /\ ~bypassed
        /\ A(env.https, "Https") <=> env.https # NoProxyConfig /\ scheme = "https" /\ ~bypassed
        /\ A(env.all, "All") <=> env.all # NoProxyConfig /\ ~bypassed
    BY DEF Applies
  <2> HIDE DEF A, E, F, bypassed
  <2>5. QED
    BY <2>1, <2>2, <2>3, <2>4
<1> DEFINE ta == t \o a
<1>4. F(ta) = IF E(t) THEN F(t) ELSE F(a)
  BY <1>1, FirstOfChained
<1>c. ta \in Seq(S)
  <2> HIDE DEF S, t, a
  <2>1. QED
    BY <1>1
<1>5. F(h \o ta) = IF E(h) THEN F(h) ELSE F(ta)
  <2> HIDE DEF ta, S, h
  <2>1. QED
    BY <1>1, <1>c, FirstOfChained
<1>6. normalize_proxy_url(NoProxyConfig) = NoProxyConfig
  BY DEF normalize_proxy_url, NoProxyConfig, Missing
<1> HIDE DEF F, E, h, t, S, bypassed
<1>7. F(client_proxies(env)) = IF bypassed THEN NoProxyConfig ELSE normalize_proxy_url(select_proxy(env, scheme))
  BY <1>2, <1>3, <1>4, <1>5, <1>6 DEF select_proxy
<1>8. QED
  BY <1>7 DEF F, bypassed, EnvironmentResolve

\* Every configuration that a request may be given is one, whole.
LEMMA ProxyTypes ==
    ASSUME setup \in Setups, NEW r \in Calls(setup)
    PROVE  resolve_proxy(r) \in ProxyConfig
<1>1. /\ setup.proxies \in Seq(ClientProxy) /\ r.proxy \in ProxyConfig
      /\ r.override \in {"inherit", "direct", "proxy"}
      /\ setup.env.http \in ProxyConfig /\ setup.env.https \in ProxyConfig /\ setup.env.all \in ProxyConfig
  BY RouteAssumption
<1>2. NoProxyConfig \in ProxyConfig
  <2>1. Missing \in Optional /\ <<>> \in Seq(STRING)
    BY DEF Optional
  <2>2. QED
    BY <2>1 DEF NoProxyConfig, ProxyConfig
<1>3. ASSUME NEW raw \in ProxyConfig
      PROVE  normalize_proxy_url(raw) \in ProxyConfig
  <2>1. [raw EXCEPT !.scheme = "http"] \in ProxyConfig
    BY DEF ProxyConfig, ProxySchemes
  <2>2. QED
    BY <2>1 DEF normalize_proxy_url
<1> DEFINE e == setup.env
           S == ClientProxy \cup {EnvProxy(e.http, "Http", e), EnvProxy(e.https, "Https", e),
                                  EnvProxy(e.all, "All", e)}
           F == InheritedProxy(r.scheme, r.host, UrlPort(r))
<1>4. \A p \in S : p.config \in ProxyConfig
  <2>1. \A p \in ClientProxy : p.config \in ProxyConfig
    BY DEF ClientProxy
  <2>2. ASSUME NEW raw \in ProxyConfig, NEW rule
        PROVE  EnvProxy(raw, rule, e).config \in ProxyConfig
    BY <1>3 DEF EnvProxy
  <2>3. QED
    BY <1>1, <2>1, <2>2
<1>5. Candidates \in Seq(S)
  <2>1. /\ IfSet(e.http, "Http", e) \in Seq(S) /\ IfSet(e.https, "Https", e) \in Seq(S)
        /\ IfSet(e.all, "All", e) \in Seq(S)
    BY IfSetType
  <2>2. client_proxies(e) \in Seq(S)
    BY <2>1 DEF client_proxies
  <2>3. setup.proxies \in Seq(S)
    BY <1>1
  <2>4. QED
    BY <2>2, <2>3 DEF Candidates
<1>6. F \in ProxyConfig
  <2> HIDE DEF S
  <2>1. \A i \in DOMAIN Candidates : Candidates[i].config \in ProxyConfig
    BY <1>4, <1>5
  <2>2. \/ F = NoProxyConfig
        \/ \E i \in DOMAIN Candidates : F = Candidates[i].config
    BY <1>5, FirstUsableIsListed DEF InheritedProxy
  <2>3. QED
    BY <1>2, <2>1, <2>2
<1>7. QED
  BY <1>1, <1>2, <1>6 DEF resolve_proxy

\* A client whose proxies come from the environment agrees with it.
LEMMA AgreesWithEnvironment == setup \in Setups => EnvironmentAgrees
<1> SUFFICES ASSUME setup \in Setups, setup.proxies = <<>>, NEW r \in Calls(setup), r.override = "inherit"
             PROVE  resolve_proxy(r) = EnvironmentResolve(setup.env, r.scheme, r.host, UrlPort(r))
  BY DEF EnvironmentAgrees
<1> DEFINE e == setup.env
           S == {EnvProxy(e.http, "Http", e), EnvProxy(e.https, "Https", e), EnvProxy(e.all, "All", e)}
<1>1. r.scheme \in {"http", "https"}
  BY RouteAssumption
<1>2. client_proxies(e) \in Seq(S)
  <2>1. /\ IfSet(e.http, "Http", e) \in Seq(S) /\ IfSet(e.https, "Https", e) \in Seq(S)
        /\ IfSet(e.all, "All", e) \in Seq(S)
    BY IfSetType
  <2>2. QED
    BY <2>1 DEF client_proxies
<1>3. Candidates = client_proxies(e)
  <2> HIDE DEF S
  <2>1. <<>> \o client_proxies(e) = client_proxies(e)
    BY <1>2, ConcatEmptySeq
  <2>2. QED
    BY <2>1 DEF Candidates
<1>4. FirstUsable(client_proxies(e), r.scheme, r.host, UrlPort(r)) = EnvironmentResolve(e, r.scheme, r.host, UrlPort(r))
  BY <1>1, EnvironmentList
<1>5. QED
  BY <1>3, <1>4 DEF resolve_proxy, InheritedProxy

\* RouteFits of one request, its proxy and the client it is sent on.
Fits(r, p, c) ==
    /\ \/ c.family = "uds"
       \/ c.proxy = p
       \/ c.family = "socks" /\ SocksLeg(c.proxy) = SocksLeg(p)
    /\ c.pins = r.pinned \/ (r.native /\ c.family = "uds")
    /\ p # NoProxyConfig /\ c.family # "uds" => c.target = r.proxied
    /\ c.sni = r.sni \/ (c.sni = Missing /\ c.family \in SniIgnored)
    /\ c.origin \in {<<>>, Origin(r)}
    /\ c.family \in {"forward", "connect"} => c.connect = r.connect

\* Where the caches are, what is sent and what is configured: the shape of a step's result.
Dispatched ==
    /\ setup' = setup
    /\ \A k \in DOMAIN clients' : Keyed(k, clients'[k])
    /\ RouteFits'

\* A request that is refused reaches no client and leaves the caches alone.
LEMMA RejectedKeeps ==
    ASSUME RouteInv, NEW r, NEW p, Rejected(r, p)
    PROVE  Dispatched
<1>1. setup' = setup /\ clients' = clients /\ sent'.result = "rejected"
  BY DEF Rejected, Outcome
<1>2. QED
  BY <1>1 DEF Dispatched, RouteInv, RouteFits

\* A request that is sent on a client that fits it.
LEMMA SentKeeps ==
    ASSUME NEW r, NEW p, NEW c, setup' = setup, \A k \in DOMAIN clients' : Keyed(k, clients'[k]),
           sent' = Outcome(r, p, "sent", c), Fits(r, p, c)
    PROVE  Dispatched
<1>1. sent'.call = r /\ sent'.proxy = p /\ sent'.client = c
  BY DEF Outcome
<1>2. Fits(sent'.call, sent'.proxy, sent'.client)
  BY <1>1
<1>3. RouteFits'
  BY <1>2 DEF RouteFits, Fits
<1>4. QED
  BY <1>3 DEF Dispatched

\* A client that is taken from its family's cache, or built and put there, fits the request when
\* everything under its key does: the key says all there is to say.
LEMMA GotOrBuilt ==
    ASSUME RouteInv, NEW key, NEW r, NEW p, GetOrBuild(key, r, p),
           Keyed(key, BuildFor(key.family, r, p)),
           \A c : Keyed(key, c) => Fits(r, p, c)
    PROVE  Dispatched
<1> DEFINE built == BuildFor(key.family, r, p)
<1>0. \A k \in DOMAIN clients : Keyed(k, clients[k])
  BY DEF RouteInv
<1>1. CASE key \in DOMAIN clients /\ DispatchOn(r, p, clients[key])
  <2>1. /\ setup' = setup /\ clients' = clients /\ sent' = Outcome(r, p, "sent", clients[key])
    BY <1>1 DEF DispatchOn
  <2>2. Fits(r, p, clients[key])
    BY <1>0, <1>1
  <2>3. QED
    BY <1>0, <2>1, <2>2, SentKeeps
<1>2. CASE clients' \in Inserted(key, built) /\ sent' = Outcome(r, p, "sent", built) /\ UNCHANGED setup
  <2> HIDE DEF built
  <2>1. \A k \in DOMAIN clients' :
            \/ k = key /\ clients'[k] = built
            \/ k \in DOMAIN clients /\ clients'[k] = clients[k]
    <3> DEFINE peers == {k \in DOMAIN clients : k.family = key.family}
               Without(victims) == [k \in (DOMAIN clients \ victims) \union {key} |->
                                       IF k = key THEN built ELSE clients[k]]
    <3>1. clients' \in {Without({})} \/ clients' \in {Without({victim}) : victim \in peers}
      BY <1>2 DEF Inserted
    <3>2. PICK victims : clients' = Without(victims)
      BY <3>1
    <3>3. DOMAIN clients' = (DOMAIN clients \ victims) \union {key}
      BY <3>2
    <3>4. \A k \in DOMAIN clients' : clients'[k] = IF k = key THEN built ELSE clients[k]
      BY <3>2, <3>3
    <3>5. TAKE k \in DOMAIN clients'
    <3>6. k = key \/ k \in DOMAIN clients
      BY <3>3
    <3>7. clients'[k] = IF k = key THEN built ELSE clients[k]
      BY <3>4, Zenon
    <3>8. QED
      BY <3>6, <3>7
  <2>2. Keyed(key, built) /\ Fits(r, p, built)
    BY DEF built
  <2>3. \A k \in DOMAIN clients' : Keyed(k, clients'[k])
    BY <1>0, <2>1, <2>2
  <2>4. QED
    BY <1>2, <2>2, <2>3, SentKeeps
<1>3. CASE Rejected(r, p)
  BY <1>3, RejectedKeeps
<1>4. QED
  BY <1>1, <1>2, <1>3 DEF GetOrBuild

\* What the keys say.
LEMMA KeyFields ==
    ASSUME NEW r, NEW p, NEW f
    PROVE  /\ SniKey(f, r).family = f /\ SniKey(f, r).sni = r.sni
           /\ ResolvedRouteKey(r).family = "resolved" /\ ResolvedRouteKey(r).sni = r.sni
           /\ ResolvedRouteKey(r).pins = r.pinned
           /\ SocksRouteKey(r, p).family = "socks" /\ SocksRouteKey(r, p).proxy = SocksLeg(p)
           /\ SocksRouteKey(r, p).target = r.proxied
           /\ ForwardRouteKey(r, p).family = "forward" /\ ForwardRouteKey(r, p).proxy = connection_identity(p)
           /\ ForwardRouteKey(r, p).connect = r.connect
           /\ ConnectRouteKey(r, p).family = "connect" /\ ConnectRouteKey(r, p).proxy = connection_identity(p)
           /\ ConnectRouteKey(r, p).origin = Origin(r) /\ ConnectRouteKey(r, p).target = r.proxied
           /\ ConnectRouteKey(r, p).connect = r.connect /\ ConnectRouteKey(r, p).sni = r.sni
  BY DEF SniKey, ResolvedRouteKey, SocksRouteKey, ForwardRouteKey, ConnectRouteKey, AnyClient

\* A client without a proxy, cached by its TLS name and its pinned addresses.
LEMMA DirectFits ==
    ASSUME RouteInv, NEW r, NEW key,
           \/ key \in {SniKey("sni", r), SniKey("sniCustom", r)} /\ r.pinned = <<>>
           \/ key = ResolvedRouteKey(r),
           GetOrBuild(key, r, NoProxyConfig)
    PROVE  Dispatched
<1>1. /\ key.family \in {"sni", "sniCustom", "resolved"} /\ key.sni = r.sni
      /\ key.family # "resolved" => r.pinned = <<>>
      /\ key.family = "resolved" => key.pins = r.pinned
  <2>1. /\ SniKey("sni", r).family = "sni" /\ SniKey("sni", r).sni = r.sni
        /\ SniKey("sniCustom", r).family = "sniCustom" /\ SniKey("sniCustom", r).sni = r.sni
    BY KeyFields, ZenonT(60)
  <2>2. /\ ResolvedRouteKey(r).family = "resolved" /\ ResolvedRouteKey(r).sni = r.sni
        /\ ResolvedRouteKey(r).pins = r.pinned
    BY KeyFields
  <2>3. QED
    BY <2>1, <2>2
<1>2. Keyed(key, BuildFor(key.family, r, NoProxyConfig))
  BY <1>1 DEF Keyed, BuildFor
<1>3. \A c : Keyed(key, c) => Fits(r, NoProxyConfig, c)
  BY <1>1 DEF Keyed, Fits
<1>4. QED
  BY <1>2, <1>3, GotOrBuilt

\* A client behind a proxy, cached by what its connections depend on.
LEMMA ProxyFits ==
    ASSUME RouteInv, NEW r, NEW p \in ProxyConfig, r.pinned = <<>>, send_proxy_route(r, p),
           r.scheme = "http" /\ ~is_socks(p) => r.proxied = <<>>
    PROVE  Dispatched
<1>1. connection_identity(p) = p
  BY DEF connection_identity, ProxyConfig
<1>2. CASE is_socks(p) /\ socks_client(r, p)
  <2> DEFINE key == SocksRouteKey(r, p)
  <2>1. key.family = "socks" /\ key.proxy = SocksLeg(p) /\ key.target = r.proxied
    BY KeyFields, ZenonT(60)
  <2> HIDE DEF key
  <2>2. Keyed(key, BuildFor(key.family, r, p))
    BY <2>1 DEF Keyed, BuildFor
  <2>3. \A c : Keyed(key, c) => Fits(r, p, c)
    BY <2>1 DEF Keyed, Fits, SniIgnored
  <2>4. GetOrBuild(key, r, p)
    BY <1>2 DEF socks_client, key
  <2>5. QED
    BY <2>2, <2>3, <2>4, GotOrBuilt
<1>3. CASE ~is_socks(p) /\ r.scheme = "http" /\ forward_client(r, p)
  <2> DEFINE key == ForwardRouteKey(r, p)
  <2>1. key.family = "forward" /\ key.proxy = p /\ key.connect = r.connect
    BY <1>1, KeyFields
  <2> HIDE DEF key
  <2>2. Keyed(key, BuildFor(key.family, r, p))
    BY <1>3, <2>1 DEF Keyed, BuildFor
  <2>3. \A c : Keyed(key, c) => Fits(r, p, c)
    BY <1>3, <2>1 DEF Keyed, Fits, SniIgnored
  <2>4. GetOrBuild(key, r, p)
    BY <1>3 DEF forward_client, key
  <2>5. QED
    BY <2>2, <2>3, <2>4, GotOrBuilt
<1>4. CASE connect_client(r, p)
  <2> DEFINE key == ConnectRouteKey(r, p)
  <2>1. /\ key.family = "connect" /\ key.proxy = p /\ key.connect = r.connect /\ key.origin = Origin(r)
        /\ key.target = r.proxied /\ key.sni = r.sni
    <3>1. /\ key.family = "connect" /\ key.proxy = connection_identity(p) /\ key.connect = r.connect
          /\ key.origin = Origin(r) /\ key.target = r.proxied /\ key.sni = r.sni
      BY KeyFields, ZenonT(60)
    <3>2. QED
      BY <1>1, <3>1
  <2> HIDE DEF key
  <2>2. Keyed(key, BuildFor(key.family, r, p))
    BY <2>1 DEF Keyed, BuildFor
  <2>3. \A c : Keyed(key, c) => Fits(r, p, c)
    BY <2>1 DEF Keyed, Fits
  <2>4. GetOrBuild(key, r, p)
    BY <1>4 DEF connect_client, key
  <2>5. QED
    BY <2>2, <2>3, <2>4, GotOrBuilt
<1>5. CASE DispatchOn(r, p, BuildFor("connect", r, p))
  <2>1. Fits(r, p, BuildFor("connect", r, p))
    BY DEF Fits, BuildFor
  <2>2. QED
    BY <1>5, <2>1, SentKeeps DEF DispatchOn, RouteInv
<1>6. QED
  BY <1>2, <1>3, <1>4, <1>5 DEF send_proxy_route

\* Each call of a client, the native one too, leaves the caches keyed and its request on a
\* client that fits it.
LEMMA RouteStep == RouteInv /\ [RouteNext]_routeVars => RouteInv'
<1> SUFFICES ASSUME RouteInv, [RouteNext]_routeVars
             PROVE  RouteInv'
  OBVIOUS
<1>0. setup \in Setups /\ RouteFits /\ \A k \in DOMAIN clients : Keyed(k, clients[k])
  BY DEF RouteInv
<1>1. ASSUME Dispatched
      PROVE  RouteInv'
  BY <1>0, <1>1 DEF Dispatched, RouteInv
<1>2. CASE UNCHANGED routeVars
  BY <1>0, <1>2 DEF routeVars, RouteInv, RouteFits
<1>3. ASSUME NEW r, NEW f \in {"uds", "custom", "direct", "h3", "standard"}, NEW p,
             DispatchOn(r, p, Singleton(f)),
             f # "uds" => p = NoProxyConfig,
             r.pinned = <<>> \/ (r.native /\ f = "uds"),
             f \in {"custom", "h3", "standard"} => r.sni = Missing
      PROVE  Dispatched
  <2> DEFINE c == Singleton(f)
  <2>1. c.family = f /\ c.proxy = NoProxyConfig /\ c.pins = <<>> /\ c.sni = Missing /\ c.origin = <<>>
    BY DEF Singleton, AnyClient
  <2> HIDE DEF c
  <2>2. Fits(r, p, c)
    BY <1>3, <2>1 DEF Fits, SniIgnored
  <2>3. setup' = setup /\ clients' = clients /\ sent' = Outcome(r, p, "sent", c)
    BY <1>3 DEF DispatchOn, c
  <2>4. QED
    BY <1>0, <2>2, <2>3, SentKeeps
<1>4. ASSUME NEW r \in Calls(setup), send_single_request(r)
      PROVE  Dispatched
  <2>b. setup.uds \in BOOLEAN /\ setup.dialer \in BOOLEAN /\ setup.direct \in BOOLEAN
    BY <1>0, RouteAssumption
  <2> DEFINE p == resolve_proxy(r)
             hasProxy == p # NoProxyConfig
             direct == ~hasProxy /\ (r.pinned # <<>> \/ setup.direct) /\ ~setup.uds
  <2>1. p \in ProxyConfig
    BY <1>0, ProxyTypes
  <2> HIDE DEF p
  <2>2. ~r.native
    BY <1>4 DEF send_single_request
  <2>3. CASE Rejected(r, p)
    BY <2>3, RejectedKeeps
  <2>4. ASSUME ~PrepareRefuses(r, p), custom_dialing_conflict(r, hasProxy) = "none",
               NEW discovered \in BOOLEAN,
               ~(r.pinned # <<>> /\ decide_h3_use(r, p, discovered)),
               SendOn(select_route(setup.uds, setup.dialer, direct, hasProxy, r.sni # Missing,
                                   decide_h3_use(r, p, discovered)), r, p)
        PROVE  Dispatched
    <3> DEFINE useH3 == decide_h3_use(r, p, discovered)
               route == select_route(setup.uds, setup.dialer, direct, hasProxy, r.sni # Missing, useH3)
    <3>1. /\ r.proxied # <<>> => p # NoProxyConfig /\ ~(r.scheme = "http" /\ ~is_socks(p))
          /\ r.pinned # <<>> => p = NoProxyConfig /\ ~setup.uds
      BY <2>4 DEF PrepareRefuses
    <3>2. setup.dialer => r.pinned = <<>> /\ ~setup.uds /\ ~hasProxy
      BY <2>4 DEF custom_dialing_conflict
    <3> HIDE DEF useH3, hasProxy
    <3>3. /\ route = "Uds" => setup.uds
          /\ route = "Custom" => setup.dialer
          /\ route = "Direct" => ~hasProxy
          /\ route = "Proxy" => hasProxy
          /\ route \in {"SniDirect", "H3", "Standard"} => ~hasProxy /\ ~direct /\ ~setup.uds
          /\ route = "H3" => useH3
          /\ route \in {"H3", "Standard"} => r.sni = Missing
          /\ route \in {"Uds", "Custom", "Direct", "Proxy", "SniDirect", "H3", "Standard"}
      BY <2>b DEF select_route
    <3> HIDE DEF route
    <3>4. r.pinned = <<>> \/ route = "Direct"
      BY <2>4, <3>1, <3>2, <3>3 DEF hasProxy, useH3
    <3>5. CASE route = "Uds" /\ send_uds_route(r, p)
      BY <1>3, <3>4, <3>5 DEF send_uds_route
    <3>6. CASE route = "Custom" /\ send_custom_route(r, p)
      <4>1. p = NoProxyConfig /\ r.pinned = <<>>
        BY <3>2, <3>3, <3>6 DEF hasProxy
      <4>2. CASE r.sni # Missing
        BY <3>6, <4>1, <4>2, DirectFits DEF send_custom_route, sni_custom_client
      <4>3. CASE r.sni = Missing
        BY <1>3, <3>6, <4>1, <4>3 DEF send_custom_route
      <4>4. QED
        BY <4>2, <4>3
    <3>7. CASE route = "Direct" /\ send_direct_route(r, p)
      <4>1. p = NoProxyConfig
        BY <3>3, <3>7 DEF hasProxy
      <4>2. CASE r.pinned # <<>>
        BY <3>7, <4>1, <4>2, DirectFits DEF send_direct_route, resolved_client
      <4>3. CASE r.pinned = <<>>
        BY <1>3, <3>7, <4>1, <4>3 DEF send_direct_route
      <4>4. QED
        BY <4>2, <4>3
    <3>8. CASE route = "Proxy" /\ send_proxy_route(r, p)
      BY <2>1, <3>1, <3>4, <3>8, ProxyFits
    <3>9. CASE route = "SniDirect" /\ send_sni_route(r, p)
      <4>1. p = NoProxyConfig /\ r.pinned = <<>>
        BY <3>3, <3>4, <3>9 DEF hasProxy
      <4>2. QED
        BY <3>9, <4>1, DirectFits DEF send_sni_route, sni_client
    <3>10. CASE route = "H3" /\ DispatchOn(r, p, Singleton("h3"))
      BY <1>3, <3>3, <3>4, <3>10 DEF hasProxy
    <3>11. CASE route = "Standard" /\ DispatchOn(r, p, Singleton("standard"))
      BY <1>3, <3>3, <3>4, <3>11 DEF hasProxy
    <3>12. SendOn(route, r, p)
      BY <2>4 DEF route, useH3, hasProxy
    <3>13. QED
      BY <3>5, <3>6, <3>7, <3>8, <3>9, <3>10, <3>11, <3>12 DEF SendOn
  <2>5. QED
    BY <1>4, <2>3, <2>4 DEF send_single_request, p
<1>5. ASSUME NEW r \in Calls(setup), send_native_http_body(r)
      PROVE  Dispatched
  <2> DEFINE route == select_route(setup.uds, setup.dialer, r.pinned # <<>> \/ setup.direct, FALSE,
                                   r.sni # Missing, FALSE)
             p == NoProxyConfig
  <2>1. r.native /\ (Rejected(r, p) \/ (~NativeRefuses(r) /\ SendOn(route, r, p)))
    BY <1>5 DEF send_native_http_body
  <2>2. CASE Rejected(r, p)
    BY <2>2, RejectedKeeps
  <2>3. CASE ~NativeRefuses(r) /\ SendOn(route, r, p)
    <3>1. setup.dialer => r.pinned = <<>>
      BY <2>3 DEF NativeRefuses, custom_dialing_conflict
    <3>2. /\ route = "Custom" => setup.dialer
          /\ route \notin {"Proxy", "H3"}
          /\ route \in {"SniDirect", "Standard"} => r.pinned = <<>>
          /\ route = "Standard" => r.sni = Missing
      BY DEF select_route
    <3> HIDE DEF route, p
    <3>3. CASE route = "Uds" /\ send_uds_route(r, p)
      BY <1>3, <2>1, <3>3 DEF send_uds_route
    <3>4. CASE route = "Custom" /\ send_custom_route(r, p)
      <4>1. r.pinned = <<>>
        BY <3>1, <3>2, <3>4
      <4>2. CASE r.sni # Missing
        BY <3>4, <4>1, <4>2, DirectFits DEF send_custom_route, sni_custom_client, p
      <4>3. CASE r.sni = Missing
        BY <1>3, <3>4, <4>1, <4>3 DEF send_custom_route, p
      <4>4. QED
        BY <4>2, <4>3
    <3>5. CASE route = "Direct" /\ send_direct_route(r, p)
      <4>1. CASE r.pinned # <<>>
        BY <3>5, <4>1, DirectFits DEF send_direct_route, resolved_client, p
      <4>2. CASE r.pinned = <<>>
        BY <1>3, <3>5, <4>2 DEF send_direct_route, p
      <4>3. QED
        BY <4>1, <4>2
    <3>6. CASE route = "SniDirect" /\ send_sni_route(r, p)
      BY <3>2, <3>6, DirectFits DEF send_sni_route, sni_client, p
    <3>7. CASE route = "Standard" /\ DispatchOn(r, p, Singleton("standard"))
      BY <1>3, <3>2, <3>7 DEF p
    <3>8. QED
      BY <2>3, <3>2, <3>3, <3>4, <3>5, <3>6, <3>7 DEF SendOn
  <2>4. QED
    BY <2>1, <2>2, <2>3
<1>6. QED
  BY <1>1, <1>2, <1>4, <1>5 DEF RouteNext

\* The inductive invariant of route selection holds in every reachable state, for any
\* configurations, requests and cache size.
THEOREM RouteInvariant == RouteSpec => []RouteInv
<1>1. RouteInit => RouteInv
  <2> SUFFICES ASSUME RouteInit
               PROVE  RouteInv
    OBVIOUS
  <2>1. setup \in Setups /\ DOMAIN clients = {} /\ sent.result = "none"
    BY DEF RouteInit, NothingSent, Outcome
  <2>2. QED
    BY <2>1 DEF RouteInv, RouteFits
<1>2. QED
  BY <1>1, RouteStep, PTL DEF RouteSpec

\* Whatever the caches hold, a request goes out on a client made for it: its proxy, its
\* addresses, its origin and its connect budget, for any sequence of requests and evictions;
\* and its TLS name, except on the families of SniIgnored, where it goes out without one.
THEOREM RoutesFit == RouteSpec => []RouteFits
<1>1. RouteInv => RouteFits
  BY DEF RouteInv
<1>2. QED
  BY <1>1, RouteInvariant, PTL

\* A client that took its proxies from an environment sends every inheriting request where
\* ProxyEnvironment::resolve sends it, whatever the variables and the NO_PROXY entries.
THEOREM EnvironmentsAgree == RouteSpec => []EnvironmentAgrees
<1>1. RouteInv => EnvironmentAgrees
  BY AgreesWithEnvironment DEF RouteInv
<1>2. QED
  BY <1>1, RouteInvariant, PTL

(***************************************************************************)
(* The cookie jar.                                                         *)
(***************************************************************************)
\* What a writer found before the lock and will store under it.
Pending(w) ==
    IF w.kind = "response" THEN w.inserts ELSE IF w.kind = "insert" THEN {w.cookie} ELSE {}

\* The cookies of the jar that had expired when the reader looked at the clock.
Stale(r) == IF r.kind \in {"due", "fresh"} THEN r.stale ELSE {}

\* A cookie of a response is for the host that set it, or for a Domain that host is under.
Scoped(c) ==
    \/ c.setBy = Absent
    \/ c.hostOnly /\ c.domain = c.setBy
    \/ /\ ~c.hostOnly /\ c.domain = c.asked /\ c.asked # Absent /\ c.asked # <<>>
       /\ IsPrefix(c.asked, c.setBy)

\* The shape of the state, and what its two processes remember.
JarType ==
    /\ ck \in [cookies : SUBSET Cookie, next : Nat, now : Nat, created : Nat,
               writer : {ck.writer}, reader : {ck.reader}, sent : {ck.sent}]
    /\ Pending(ck.writer) \subseteq Cookie
    /\ Stale(ck.reader) \subseteq Cookie
    /\ ck.writer.kind = "expire" => ck.writer.now \in Nat
    /\ ck.reader.kind \in {"due", "fresh"} =>
          ck.reader \in [kind : {"due", "fresh"}, url : Urls, now : Nat, stale : SUBSET Cookie]

\* The cached expiry is never later than that of a cookie in the jar.
CacheIsEarly == \A c \in ck.cookies : ck.next <= c.expires

AllScoped == \A c \in ck.cookies \cup Pending(ck.writer) : Scoped(c)

\* What a writer will store has never been in the jar: it is not what a reader found stale.
PendingIsNew ==
    /\ \A c \in ck.cookies \cup Pending(ck.writer) \cup Stale(ck.reader) : c.index <= ck.created
    /\ Pending(ck.writer) \cap (ck.cookies \cup Stale(ck.reader)) = {}

StaleIsGone ==
    /\ \A c \in Stale(ck.reader) : c.expires <= ck.reader.now
    /\ ck.reader.kind = "fresh" => ck.cookies \cap Stale(ck.reader) = {}

JarInv ==
    /\ JarType /\ CacheIsEarly /\ AllScoped /\ PendingIsNew /\ StaleIsGone
    /\ SentCookiesAreDue

\* The cache that is computed anew is a number and not later than any expiry.
LEMMA RecomputedIsEarly ==
    ASSUME NEW S \in SUBSET Cookie
    PROVE  /\ recompute_next_expiry(S) \in Nat
           /\ \A c \in S : recompute_next_expiry(S) <= c.expires
<1> DEFINE E == {c.expires : c \in S} \cup {NoExpiry}
<1>1. NoExpiry \in Nat
  BY JarAssumption DEF NoExpiry
<1>2. E \subseteq Nat /\ E # {}
  BY <1>1 DEF Cookie
<1>3. Min(E) \in E /\ \A j \in E : Min(E) <= j
  BY <1>2, FirstPosition
<1>4. QED
  BY <1>2, <1>3 DEF recompute_next_expiry

\* A step under the lock: it stores what its writer had found, or only takes cookies out,
\* and leaves the cache early.
LEMMA LockedStep ==
    ASSUME JarInv,
           NEW cookies \in SUBSET (ck.cookies \cup Pending(ck.writer)), NEW next \in Nat,
           \A c \in cookies : next <= c.expires,
           NEW writer, \/ writer = Idle
                       \/ writer = ck.writer /\ cookies \subseteq ck.cookies,
           ck' = [ck EXCEPT !.cookies = cookies, !.next = next, !.writer = writer]
    PROVE  JarInv'
<1>1. /\ ck'.cookies = cookies /\ ck'.next = next /\ ck'.writer = writer
      /\ ck'.now = ck.now /\ ck'.created = ck.created /\ ck'.reader = ck.reader /\ ck'.sent = ck.sent
      /\ ck' = [cookies |-> cookies, next |-> next, now |-> ck.now, created |-> ck.created,
                writer |-> writer, reader |-> ck.reader, sent |-> ck.sent]
  BY DEF JarInv, JarType
<1>2. Pending(writer) \subseteq Pending(ck.writer) /\ (Pending(writer) = {} \/ cookies \subseteq ck.cookies)
  BY DEF Pending, Idle
<1>3. writer.kind = "expire" => writer = ck.writer
  BY DEF Idle
<1>4. JarType'
  BY <1>1, <1>2, <1>3 DEF JarInv, JarType
<1>5. CacheIsEarly' /\ AllScoped'
  BY <1>1, <1>2 DEF JarInv, CacheIsEarly, AllScoped
<1>6. PendingIsNew'
  BY <1>1, <1>2 DEF JarInv, PendingIsNew
<1>7. StaleIsGone'
  BY <1>1 DEF JarInv, StaleIsGone, PendingIsNew
<1>8. SentCookiesAreDue'
  BY <1>1 DEF JarInv, SentCookiesAreDue
<1>9. QED
  BY <1>4, <1>5, <1>6, <1>7, <1>8 DEF JarInv

\* A step before the lock: what it found are new cookies that keep to their scope.
LEMMA PreparingStep ==
    ASSUME JarInv, NEW writer, NEW created \in Nat, ck.created <= created,
           ck.writer.kind = "idle",
           \A c \in Pending(writer) : /\ c \in Cookie /\ Scoped(c)
                                      /\ ck.created < c.index /\ c.index <= created,
           writer.kind = "expire" => writer.now \in Nat,
           ck' = [ck EXCEPT !.created = created, !.writer = writer]
    PROVE  JarInv'
<1>1. /\ ck'.cookies = ck.cookies /\ ck'.next = ck.next /\ ck'.writer = writer
      /\ ck'.now = ck.now /\ ck'.created = created /\ ck'.reader = ck.reader /\ ck'.sent = ck.sent
      /\ ck' = [cookies |-> ck.cookies, next |-> ck.next, now |-> ck.now, created |-> created,
                writer |-> writer, reader |-> ck.reader, sent |-> ck.sent]
  BY DEF JarInv, JarType
<1>2. JarType'
  BY <1>1 DEF JarInv, JarType
<1>3. CacheIsEarly' /\ AllScoped' /\ StaleIsGone'
  BY <1>1 DEF JarInv, CacheIsEarly, AllScoped, StaleIsGone
<1>4. PendingIsNew'
  <2>1. \A c \in ck.cookies \cup Stale(ck.reader) : c.index \in Nat /\ c.index <= ck.created
    BY DEF JarInv, JarType, PendingIsNew, Cookie
  <2>2. ck.created \in Nat
    BY DEF JarInv, JarType
  <2>3. \A c \in Pending(writer) : c.index \in Nat
    BY DEF Cookie
  <2>4. QED
    BY <1>1, <2>1, <2>2, <2>3 DEF PendingIsNew
<1>5. SentCookiesAreDue'
  BY <1>1 DEF JarInv, SentCookiesAreDue
<1>6. QED
  BY <1>2, <1>3, <1>4, <1>5 DEF JarInv

\* A cookie that is parsed is a cookie of the response's host, within its scope.
LEMMA ParsedIsScoped ==
    ASSUME NEW h \in SetCookie, NEW url \in Urls, NEW time \in Nat, NEW index \in Nat,
           NEW c \in parse_set_cookie(h, url, time, index)
    PROVE  c \in Cookie /\ Scoped(c) /\ c.index = index
<1> DEFINE domain == IF h.domain = Absent THEN url.host ELSE h.domain
           path == IF h.path = Absent THEN default_cookie_path(url.path) ELSE h.path
           expires == resolve_expiration(h, time)
<1>0. url.host \in Labels /\ url.path \in Labels /\ h.domain \in Labels /\ h.path \in Labels
      /\ h.name \in STRING /\ h.secure \in BOOLEAN
  BY JarAssumption DEF SetCookie
<1>1. /\ c = [name |-> h.name, secure |-> h.secure, index |-> index, domain |-> domain,
              hostOnly |-> h.domain = Absent, path |-> path, expires |-> expires,
              setBy |-> url.host, asked |-> h.domain]
      /\ h.domain # Absent => DomainAllowed(h.domain, url.host)
  BY DEF parse_set_cookie
<1>2. path \in Labels
  <2>1. \A p \in Seq(Label) : Len(p) > 1 => SubSeq(p, 1, Len(p) - 1) \in Seq(Label)
    OBVIOUS
  <2>2. QED
    BY <1>0, <2>1, JarAssumption DEF default_cookie_path, Labels, Front
<1>3. expires \in Nat
  <2>1. {h.maxAge, MaxAgeCap} \subseteq Nat /\ {h.maxAge, MaxAgeCap} # {} /\ h.expires \in Nat
    BY JarAssumption DEF SetCookie
  <2>2. Min({h.maxAge, MaxAgeCap}) \in Nat
    BY <2>1, FirstPosition
  <2>3. QED
    BY <2>1, <2>2 DEF resolve_expiration
<1>4. domain \in Labels
  BY <1>0
<1>5. c \in Cookie /\ c.index = index
  BY <1>0, <1>1, <1>2, <1>3, <1>4 DEF Cookie
<1>6. Scoped(c)
  <2>1. CASE h.domain = Absent
    BY <1>1, <2>1 DEF Scoped
  <2>2. CASE h.domain # Absent
    <3>1. h.domain # <<>> /\ IsPrefix(h.domain, url.host)
      BY <1>0, <1>1, <2>2 DEF DomainAllowed, domain_matches, IsStrictPrefix, IsPrefix, Labels
    <3>2. QED
      BY <1>1, <2>2, <3>1 DEF Scoped
  <2>3. QED
    BY <2>1, <2>2
<1>7. QED
  BY <1>5, <1>6

\* A cookie goes where it matches, and that is within its scope.
LEMMA MatchIsInScope ==
    ASSUME NEW c \in Cookie, Scoped(c), NEW url \in Urls, cookie_matches(c, url)
    PROVE  InScope(c, url.host)
<1>0. c.domain \in Labels /\ url.host \in Labels
  BY JarAssumption DEF Cookie
<1>1. CASE c.setBy = Absent
  BY <1>1 DEF InScope
<1>2. CASE c.hostOnly /\ c.domain = c.setBy
  BY <1>2 DEF cookie_matches, InScope
<1>3. CASE /\ ~c.hostOnly /\ c.domain = c.asked /\ c.asked # Absent /\ c.asked # <<>>
           /\ IsPrefix(c.asked, c.setBy)
  <2>1. domain_matches(url.host, c.domain)
    BY <1>3 DEF cookie_matches
  <2>2. IsPrefix(c.domain, url.host)
    BY <1>0, <2>1 DEF domain_matches, IsStrictPrefix, IsPrefix, Labels
  <2>3. QED
    BY <1>3, <2>2 DEF InScope
<1>4. QED
  BY <1>1, <1>2, <1>3 DEF Scoped

\* Nothing but new cookies is found by parsing a response's headers.
LEMMA UpdateStep ==
    ASSUME JarInv, NEW url \in Urls, NEW headers \in SetCookies, update_from_response(url, headers)
    PROVE  JarInv'
<1> DEFINE parsed == [i \in DOMAIN headers |->
                        parse_set_cookie(headers[i], url, ck.now, ck.created + i)]
           all == UNION {parsed[i] : i \in DOMAIN headers}
           removes == {c \in all : Expired(c, ck.now)}
           writer == [kind |-> "response", removes |-> {CookieKey(c) : c \in removes},
                      inserts |-> all \ removes]
<1>1. /\ ck.writer.kind = "idle"
      /\ ck' = [ck EXCEPT !.created = @ + Len(headers), !.writer = writer]
  BY DEF update_from_response
<1>2. /\ ck.created \in Nat /\ ck.now \in Nat /\ DOMAIN headers = 1 .. Len(headers)
      /\ Len(headers) \in Nat /\ \A i \in 1 .. Len(headers) : headers[i] \in SetCookie
  BY JarAssumption DEF JarInv, JarType
<1>3. ASSUME NEW c \in all
      PROVE  /\ c \in Cookie /\ Scoped(c)
             /\ ck.created < c.index /\ c.index <= ck.created + Len(headers)
  <2>1. PICK i \in 1 .. Len(headers) : c \in parse_set_cookie(headers[i], url, ck.now, ck.created + i)
    BY <1>2, <1>3
  <2>2. headers[i] \in SetCookie /\ ck.created + i \in Nat
    BY <1>2
  <2>3. c \in Cookie /\ Scoped(c) /\ c.index = ck.created + i
    BY <1>2, <2>1, <2>2, ParsedIsScoped
  <2>4. QED
    BY <1>2, <2>3
<1> HIDE DEF all
<1>4. Pending(writer) \subseteq all /\ writer.kind # "expire"
  BY DEF Pending
<1> HIDE DEF writer
<1>5. ck.created + Len(headers) \in Nat /\ ck.created <= ck.created + Len(headers)
  BY <1>2
<1>6. ck' = [ck EXCEPT !.created = ck.created + Len(headers), !.writer = writer]
  BY <1>1
<1>7. QED
  BY <1>1, <1>3, <1>4, <1>5, <1>6, PreparingStep

\* Every step keeps the invariant.
LEMMA JarStep == JarInv /\ [JarNext]_jarVars => JarInv'
<1> SUFFICES ASSUME JarInv, [JarNext]_jarVars
             PROVE  JarInv'
  OBVIOUS
<1>t. /\ ck.cookies \subseteq Cookie /\ ck.next \in Nat /\ ck.now \in Nat /\ ck.created \in Nat
      /\ Pending(ck.writer) \subseteq Cookie /\ Stale(ck.reader) \subseteq Cookie
  BY DEF JarInv, JarType
<1>f. /\ DOMAIN ck = {"cookies", "next", "now", "created", "writer", "reader", "sent"}
      /\ ck = [cookies |-> ck.cookies, next |-> ck.next, now |-> ck.now, created |-> ck.created,
               writer |-> ck.writer, reader |-> ck.reader, sent |-> ck.sent]
  BY DEF JarInv, JarType
<1>e. \A c \in ck.cookies : ck.next <= c.expires
  BY DEF JarInv, CacheIsEarly
<1>c. \A c \in Cookie : c.expires \in Nat /\ c.index \in Nat
  BY DEF Cookie
<1>0. CASE UNCHANGED jarVars
  BY <1>0 DEF jarVars, JarInv, JarType, CacheIsEarly, AllScoped, PendingIsNew, StaleIsGone,
              SentCookiesAreDue
<1>1. CASE JarTick
  <2>1. /\ ck'.cookies = ck.cookies /\ ck'.next = ck.next /\ ck'.writer = ck.writer
        /\ ck'.now = ck.now + 1 /\ ck'.created = ck.created /\ ck'.reader = ck.reader
        /\ ck'.sent = ck.sent
        /\ ck' = [cookies |-> ck.cookies, next |-> ck.next, now |-> ck.now + 1,
                  created |-> ck.created, writer |-> ck.writer, reader |-> ck.reader, sent |-> ck.sent]
    BY <1>1, <1>f DEF JarTick
  <2>2. JarType'
    BY <1>t, <2>1 DEF JarInv, JarType
  <2>3. QED
    BY <2>1, <2>2 DEF JarInv, CacheIsEarly, AllScoped, PendingIsNew, StaleIsGone, SentCookiesAreDue
<1>2. CASE UpdateApplies
  <2> DEFINE kept == {c \in ck.cookies : CookieKey(c) \notin ck.writer.removes}
             cookies == StoredAll(kept, ck.writer.inserts)
  <2>1. /\ ck.writer.kind = "response"
        /\ ck' = [ck EXCEPT !.cookies = cookies, !.next = recompute_next_expiry(cookies),
                            !.writer = Idle]
    BY <1>2 DEF UpdateApplies
  <2>2. cookies \in SUBSET (ck.cookies \cup Pending(ck.writer))
    BY <2>1 DEF StoredAll, Pending
  <2>3. cookies \in SUBSET Cookie
    BY <1>t, <2>2
  <2> HIDE DEF cookies
  <2>4. /\ recompute_next_expiry(cookies) \in Nat
        /\ \A c \in cookies : recompute_next_expiry(cookies) <= c.expires
    BY <2>3, RecomputedIsEarly
  <2>5. QED
    BY <2>1, <2>2, <2>4, LockedStep
<1>r. ASSUME NEW key, NEW writer, writer = ck.writer \/ writer = Idle,
             ck' = [remove_cookie(ck, key) EXCEPT !.writer = writer]
      PROVE  JarInv'
  <2> DEFINE cookies == ck.cookies \ At(ck.cookies, key)
             next == IF persistent_expiry(ck.cookies, key) = ck.next
                     THEN recompute_next_expiry(cookies) ELSE ck.next
  <2>1. ck' = [ck EXCEPT !.cookies = cookies, !.next = next, !.writer = writer]
    BY <1>r, <1>f DEF remove_cookie
  <2>2. /\ recompute_next_expiry(cookies) \in Nat
        /\ \A c \in cookies : recompute_next_expiry(cookies) <= c.expires
    BY <1>t, RecomputedIsEarly
  <2>3. next \in Nat /\ \A c \in cookies : next <= c.expires
    BY <1>t, <1>e, <2>2
  <2>4. cookies \subseteq ck.cookies
    OBVIOUS
  <2> HIDE DEF cookies, next
  <2>5. QED
    BY <1>r, <2>1, <2>3, <2>4, LockedStep
<1>3. CASE SetApplies
  <2>1. CASE ck.writer.kind = "insert"
    <3> DEFINE c == ck.writer.cookie
               cookies == Stored(ck.cookies, c)
               old == persistent_expiry(ck.cookies, CookieKey(c))
               next == CASE c.expires < ck.next -> c.expires
                         [] old # NoExpiry /\ old = ck.next /\ c.expires > ck.next ->
                              recompute_next_expiry(cookies)
                         [] OTHER -> ck.next
    <3>1. ck' = [ck EXCEPT !.cookies = cookies, !.next = next, !.writer = Idle]
      BY <1>3, <1>f, <2>1 DEF SetApplies, insert_cookie
    <3>2. c \in Cookie /\ Pending(ck.writer) = {c}
      BY <1>t, <2>1 DEF Pending
    <3>3. cookies \in SUBSET (ck.cookies \cup Pending(ck.writer)) /\ cookies \in SUBSET Cookie
      BY <1>t, <3>2 DEF Stored
    <3>4. /\ recompute_next_expiry(cookies) \in Nat
          /\ \A d \in cookies : recompute_next_expiry(cookies) <= d.expires
      BY <3>3, RecomputedIsEarly
    <3>5. \A d \in cookies : d = c \/ (ck.next <= d.expires /\ d.expires \in Nat)
      BY <1>t, <1>c, <1>e DEF Stored
    <3>6. c.expires \in Nat
      BY <1>c, <3>2
    <3> HIDE DEF cookies, old, c
    <3>7. next \in Nat /\ \A d \in cookies : next <= d.expires
      BY <1>t, <3>4, <3>5, <3>6
    <3> HIDE DEF next
    <3>8. QED
      BY <3>1, <3>3, <3>7, LockedStep
  <2>2. CASE ck.writer.kind = "remove"
    BY <1>3, <1>r, <2>2 DEF SetApplies
  <2>3. QED
    BY <1>3, <2>1, <2>2 DEF SetApplies
<1>4. CASE delete
  <2>1. PICK c \in ck.cookies : ck' = remove_cookie(ck, CookieKey(c))
    BY <1>4 DEF delete
  <2>2. ck' = [remove_cookie(ck, CookieKey(c)) EXCEPT !.writer = ck.writer]
    BY <1>f, <2>1 DEF remove_cookie
  <2>3. QED
    BY <1>r, <2>2
<1>5. CASE clear
  <2>1. ck' = [ck EXCEPT !.cookies = {}, !.next = NoExpiry, !.writer = ck.writer]
    BY <1>5, <1>f DEF clear
  <2>2. NoExpiry \in Nat
    BY JarAssumption DEF NoExpiry
  <2>3. QED
    BY <2>1, <2>2, LockedStep
<1>6. CASE expire_stale
  <2> DEFINE writer == [kind |-> "expire", now |-> ck.now]
  <2>1. ck.writer.kind = "idle" /\ ck' = [ck EXCEPT !.created = ck.created, !.writer = writer]
    BY <1>6, <1>f DEF expire_stale
  <2>2. Pending(writer) = {} /\ writer.now \in Nat /\ ck.created <= ck.created
    BY <1>t DEF Pending
  <2> HIDE DEF writer
  <2>3. QED
    BY <1>t, <2>1, <2>2, PreparingStep
<1>7. CASE ExpireApplies
  <2> DEFINE cookies == {c \in ck.cookies : ~Expired(c, ck.writer.now)}
  <2>1. ck' = [ck EXCEPT !.cookies = cookies, !.next = recompute_next_expiry(cookies),
                         !.writer = Idle]
    BY <1>7, <1>f DEF ExpireApplies, Retain
  <2>2. cookies \in SUBSET Cookie /\ cookies \in SUBSET (ck.cookies \cup Pending(ck.writer))
    BY <1>t
  <2> HIDE DEF cookies
  <2>3. /\ recompute_next_expiry(cookies) \in Nat
        /\ \A c \in cookies : recompute_next_expiry(cookies) <= c.expires
    BY <2>2, RecomputedIsEarly
  <2>4. QED
    BY <2>1, <2>2, <2>3, LockedStep
<1>8. CASE expire_if_due
  <2>0. ck.reader.kind = "due" /\ ck.reader.now \in Nat /\ ck.reader.url \in Urls
    BY <1>8 DEF expire_if_due, JarInv, JarType
  <2>1. PICK cookies, next :
           /\ cookies \subseteq ck.cookies /\ next \in Nat
           /\ \A c \in cookies : next <= c.expires /\ ck.reader.now < c.expires
           /\ ck' = [ck EXCEPT !.cookies = cookies, !.next = next, !.reader.kind = "fresh"]
    <3>1. CASE ck.reader.now >= ck.next
      <4> DEFINE cookies == {c \in ck.cookies : ~Expired(c, ck.reader.now)}
      <4>1. ck' = [ck EXCEPT !.cookies = cookies, !.next = recompute_next_expiry(cookies),
                             !.reader.kind = "fresh"]
        BY <1>8, <1>f, <3>1 DEF expire_if_due, Retain
      <4>2. /\ recompute_next_expiry(cookies) \in Nat
            /\ \A c \in cookies : recompute_next_expiry(cookies) <= c.expires
        BY <1>t, RecomputedIsEarly
      <4>3. \A c \in cookies : ck.reader.now < c.expires
        BY <1>t, <1>c, <2>0 DEF Expired
      <4>4. QED
        BY <4>1, <4>2, <4>3
    <3>2. CASE ~(ck.reader.now >= ck.next)
      <4>1. ck' = [ck EXCEPT !.cookies = ck.cookies, !.next = ck.next, !.reader.kind = "fresh"]
        BY <1>8, <1>f, <3>2 DEF expire_if_due
      <4>2. \A c \in ck.cookies : ck.next <= c.expires /\ ck.reader.now < c.expires
        BY <1>t, <1>c, <1>e, <2>0, <3>2
      <4>3. QED
        BY <1>t, <4>1, <4>2
    <3>3. QED
      BY <3>1, <3>2
  <2> DEFINE reader == [ck.reader EXCEPT !.kind = "fresh"]
  <2>2. /\ ck'.cookies = cookies /\ ck'.next = next /\ ck'.writer = ck.writer
        /\ ck'.now = ck.now /\ ck'.created = ck.created /\ ck'.reader = reader
        /\ ck'.sent = ck.sent
        /\ ck' = [cookies |-> cookies, next |-> next, now |-> ck.now, created |-> ck.created,
                  writer |-> ck.writer, reader |-> reader, sent |-> ck.sent]
    BY <1>f, <2>1
  <2>3. /\ reader.kind = "fresh" /\ reader.now = ck.reader.now /\ reader.url = ck.reader.url
        /\ Stale(reader) = Stale(ck.reader)
    <3>1. ck.reader \in [kind : {"due", "fresh"}, url : Urls, now : Nat, stale : SUBSET Cookie]
      BY <2>0 DEF JarInv, JarType
    <3>2. QED
      BY <3>1, <2>0 DEF Stale
  <2> HIDE DEF reader
  <2>4. JarType'
    BY <1>t, <2>0, <2>1, <2>2, <2>3 DEF JarInv, JarType
  <2>5. CacheIsEarly' /\ AllScoped' /\ PendingIsNew' /\ SentCookiesAreDue'
    BY <2>1, <2>2, <2>3 DEF JarInv, CacheIsEarly, AllScoped, PendingIsNew, SentCookiesAreDue
  <2>6. StaleIsGone'
    <3>1. \A c \in Stale(ck.reader) : c.expires <= ck.reader.now /\ c.expires \in Nat
      BY <1>t, <1>c DEF JarInv, StaleIsGone
    <3>2. cookies \cap Stale(ck.reader) = {}
      BY <2>0, <2>1, <3>1
    <3>3. QED
      BY <2>2, <2>3, <3>1, <3>2 DEF StaleIsGone
  <2>7. QED
    BY <2>4, <2>5, <2>6 DEF JarInv
<1>9. CASE cookies_for_url
  <2> DEFINE header == CookieHeader(ck.cookies, ck.reader.url)
             now_sent == [kind |-> "sent", url |-> ck.reader.url, stale |-> ck.reader.stale,
                          cookies |-> header]
  <2>0. ck.reader.kind = "fresh" /\ ck.reader.url \in Urls /\ Stale(ck.reader) = ck.reader.stale
    BY <1>9 DEF cookies_for_url, JarInv, JarType, Stale
  <2>1. /\ ck'.cookies = ck.cookies /\ ck'.next = ck.next /\ ck'.writer = ck.writer
        /\ ck'.now = ck.now /\ ck'.created = ck.created /\ ck'.reader = Idle
        /\ ck'.sent = now_sent
        /\ ck' = [cookies |-> ck.cookies, next |-> ck.next, now |-> ck.now, created |-> ck.created,
                  writer |-> ck.writer, reader |-> Idle, sent |-> now_sent]
    BY <1>9, <1>f DEF cookies_for_url
  <2>2. Stale(Idle) = {} /\ Idle.kind = "idle"
    BY DEF Stale, Idle
  <2>3. JarType'
    BY <1>t, <2>1, <2>2 DEF JarInv, JarType
  <2>4. CacheIsEarly' /\ AllScoped' /\ PendingIsNew' /\ StaleIsGone'
    BY <2>1, <2>2 DEF JarInv, CacheIsEarly, AllScoped, PendingIsNew, StaleIsGone
  <2>5. \A c \in header : c \in ck.cookies /\ InScope(c, ck.reader.url.host)
    <3>1. TAKE c \in header
    <3>2. c \in ck.cookies /\ cookie_matches(c, ck.reader.url)
      BY DEF CookieHeader
    <3>3. Scoped(c) /\ c \in Cookie
      BY <1>t, <3>2 DEF JarInv, AllScoped
    <3>4. QED
      BY <2>0, <3>2, <3>3, MatchIsInScope
  <2>6. header \cap ck.reader.stale = {}
    BY <2>0, <2>5 DEF JarInv, StaleIsGone
  <2> HIDE DEF header
  <2>7. SentCookiesAreDue'
    BY <2>1, <2>5, <2>6 DEF SentCookiesAreDue
  <2>8. QED
    BY <2>3, <2>4, <2>7 DEF JarInv
<1>10. ASSUME NEW url \in Urls, CallStarts(url)
       PROVE  JarInv'
  <2> DEFINE stale == {c \in ck.cookies : Expired(c, ck.now)}
             kind == IF ck.now >= ck.next THEN "due" ELSE "fresh"
             reader == [kind |-> kind, url |-> url, now |-> ck.now, stale |-> stale]
  <2>1. /\ ck'.cookies = ck.cookies /\ ck'.next = ck.next /\ ck'.writer = ck.writer
        /\ ck'.now = ck.now /\ ck'.created = ck.created /\ ck'.reader = reader
        /\ ck'.sent = Idle
        /\ ck' = [cookies |-> ck.cookies, next |-> ck.next, now |-> ck.now, created |-> ck.created,
                  writer |-> ck.writer, reader |-> reader, sent |-> Idle]
    BY <1>10, <1>f DEF CallStarts
  <2>2. Stale(reader) = stale /\ reader.now = ck.now /\ reader.url = url /\ reader.kind = kind
    BY DEF Stale
  <2>3. stale \subseteq ck.cookies /\ \A c \in stale : c.expires <= ck.now
    BY <1>t, <1>c DEF Expired
  <2>4. kind = "fresh" => stale = {}
    BY <1>t, <1>c, <1>e DEF Expired
  <2>5. Idle.kind = "idle"
    BY DEF Idle
  <2>r. reader \in [kind : {"due", "fresh"}, url : Urls, now : Nat, stale : SUBSET Cookie]
    BY <1>t
  <2> HIDE DEF reader, stale, kind
  <2>6. JarType'
    BY <1>t, <2>1, <2>2, <2>3, <2>r DEF JarInv, JarType
  <2>7. CacheIsEarly' /\ AllScoped' /\ SentCookiesAreDue'
    BY <2>1, <2>5 DEF JarInv, CacheIsEarly, AllScoped, SentCookiesAreDue
  <2>8. PendingIsNew' /\ StaleIsGone'
    BY <2>1, <2>2, <2>3, <2>4 DEF JarInv, PendingIsNew, StaleIsGone
  <2>9. QED
    BY <2>6, <2>7, <2>8 DEF JarInv
<1>11. ASSUME NEW url \in Urls, NEW headers \in SetCookies, update_from_response(url, headers)
       PROVE  JarInv'
  BY <1>11, UpdateStep
<1>12. ASSUME NEW cookie \in OwnCookies, set(cookie)
       PROVE  JarInv'
  <2> DEFINE c == [cookie EXCEPT !.index = ck.created + 1]
             writer == [kind |-> IF Expired(cookie, ck.now) THEN "remove" ELSE "insert", cookie |-> c]
  <2>1. /\ ck.writer.kind = "idle"
        /\ ck' = [ck EXCEPT !.created = ck.created + 1, !.writer = writer]
    BY <1>12 DEF set
  <2>2. cookie \in Cookie /\ cookie.setBy = Absent
    BY JarAssumption
  <2>3. c \in Cookie /\ Scoped(c) /\ c.index = ck.created + 1
    BY <1>t, <2>2 DEF Cookie, Scoped
  <2> HIDE DEF c
  <2>4. Pending(writer) \subseteq {c} /\ writer.kind # "expire"
    BY DEF Pending
  <2> HIDE DEF writer
  <2>5. /\ ck.created + 1 \in Nat /\ ck.created <= ck.created + 1 /\ ck.created < c.index
        /\ c.index <= ck.created + 1
    BY <1>t, <2>3
  <2>6. QED
    BY <2>1, <2>3, <2>4, <2>5, PreparingStep
<1>13. QED
  BY <1>0, <1>1, <1>2, <1>3, <1>4, <1>5, <1>6, <1>7, <1>8, <1>9, <1>10, <1>11, <1>12 DEF JarNext

\* The jar's cached expiry is never later than a cookie's (insert_cookie, remove_cookie and
\* expire_if_due keep it so), what a writer prepared before it took the lock is new to every
\* reader, and every stored cookie keeps to the scope it was set with.
THEOREM JarInvariant == JarSpec => []JarInv
<1>1. JarInit => JarInv
  <2> SUFFICES ASSUME JarInit PROVE JarInv
    OBVIOUS
  <2>1. ck = [cookies |-> {}, next |-> NoExpiry, now |-> 0, created |-> 0,
              writer |-> Idle, reader |-> Idle, sent |-> Idle]
    BY DEF JarInit, JarState
  <2>2. NoExpiry \in Nat /\ Pending(Idle) = {} /\ Stale(Idle) = {} /\ Idle.kind = "idle"
    BY JarAssumption DEF NoExpiry, Pending, Stale, Idle
  <2>3. QED
    BY <2>1, <2>2 DEF JarInv, JarType, CacheIsEarly, AllScoped, PendingIsNew, StaleIsGone,
                      SentCookiesAreDue
<1>2. QED
  BY <1>1, JarStep, PTL DEF JarSpec

\* Whatever the program and the servers store, and whenever writers come between the two
\* looks of expire_if_due, a header of cookies_for_url holds no cookie that had expired when
\* the call began and none out of the scope it was set with.
THEOREM SentAreDue == JarSpec => []SentCookiesAreDue
<1>1. JarInv => SentCookiesAreDue
  BY DEF JarInv
<1>2. QED
  BY <1>1, JarInvariant, PTL

-----------------------------------------------------------------------------
(***************************************************************************)
(* Text lines.                                                             *)
(***************************************************************************)
Item == {TooLong, NotUtf8, BodyFailed} \cup [ok : {TRUE}, line : Seq(Byte)]

\* How much of the text has left the buffer again.
Emitted == ln.taken - Len(ln.buffer)

\* The buffer is the part of the text between what was emitted and what was taken, and as
\* many lines were emitted as ended.
BufferFollows ==
    /\ ln.taken <= Len(ln.text) /\ Len(ln.buffer) <= ln.taken
    /\ \A i \in 1 .. Len(ln.buffer) : ln.buffer[i] = ln.text[Emitted + i]
    /\ ~ln.closed => /\ Emitted = 0 \/ ln.text[Emitted] = "lf"
                     /\ Len(ln.out) = LineEnds(ln.text, Emitted)
    /\ ln.closed => /\ ln.buffer = << >> /\ ln.taken = Len(ln.text)
                    /\ Len(ln.out) = LineCount(ln.text)

LineInv ==
    /\ ln \in [text : Seq(Byte), taken : Nat, buffer : Seq(Byte), out : Seq(Item),
               closed : BOOLEAN, ended : BOOLEAN]
    /\ ~Failed(ln.out) => BufferFollows
    /\ LinesFollowTheText

\* Where a sequence of bytes has its first line end.
LEMMA LineEndIsFirst ==
    ASSUME NEW s \in Seq(Byte)
    PROVE  /\ LineEnd(s) \in 0 .. Len(s)
           /\ LineEnd(s) = 0 => \A i \in 1 .. Len(s) : s[i] # "lf"
           /\ LineEnd(s) > 0 => /\ s[LineEnd(s)] = "lf"
                                /\ \A i \in 1 .. LineEnd(s) - 1 : s[i] # "lf"
<1> DEFINE I == {i \in 1 .. Len(s) : s[i] = "lf"}
<1>0. Len(s) \in Nat
  OBVIOUS
<1>1. LineEnd(s) = IF I # {} THEN Min(I) ELSE 0
  BY DEF LineEnd, SelectInSeq
<1>2. CASE I = {}
  BY <1>0, <1>1, <1>2
<1>3. CASE I # {}
  <2>1. Min(I) \in I /\ \A j \in I : Min(I) <= j
    <3>1. I \subseteq Nat
      OBVIOUS
    <3>2. QED
      BY <1>3, <3>1, FirstPosition
  <2> DEFINE m == Min(I)
  <2>2. m \in 1 .. Len(s) /\ s[m] = "lf" /\ m \in 0 .. Len(s) /\ m # 0
    BY <1>0, <2>1
  <2>3. \A i \in 1 .. m - 1 : s[i] # "lf"
    BY <1>0, <2>1, <2>2
  <2>4. LineEnd(s) = m
    BY <1>1, <1>3
  <2> HIDE DEF m
  <2>5. QED
    BY <2>2, <2>3, <2>4
<1>4. QED
  BY <1>2, <1>3

\* The number of line ends is a number.
LEMMA LineEndsType ==
    ASSUME NEW text, NEW n \in Nat
    PROVE  LineEnds(text, n) \in Nat /\ IsFiniteSet({i \in 1 .. n : text[i] = "lf"})
<1>1. IsFiniteSet(1 .. n)
  BY FS_Interval
<1>2. IsFiniteSet({i \in 1 .. n : text[i] = "lf"})
  BY <1>1, FS_Subset
<1>3. QED
  BY <1>2, FS_CardinalityType DEF LineEnds

\* Bytes without a line end do not add to it.
LEMMA NoLineEnds ==
    ASSUME NEW text, NEW a \in Nat, NEW b \in Nat, a <= b, \A i \in a + 1 .. b : text[i] # "lf"
    PROVE  LineEnds(text, b) = LineEnds(text, a)
<1>1. {i \in 1 .. b : text[i] = "lf"} = {i \in 1 .. a : text[i] = "lf"}
  OBVIOUS
<1>2. QED
  BY <1>1 DEF LineEnds

\* A line end adds one.
LEMMA OneLineEnd ==
    ASSUME NEW text, NEW n \in Nat, text[n + 1] = "lf"
    PROVE  LineEnds(text, n + 1) = LineEnds(text, n) + 1
<1> DEFINE S == {i \in 1 .. n : text[i] = "lf"}
<1>1. {i \in 1 .. n + 1 : text[i] = "lf"} = S \cup {n + 1} /\ n + 1 \notin S
  OBVIOUS
<1>2. IsFiniteSet(S)
  BY LineEndsType
<1> HIDE DEF S
<1>3. Cardinality(S \cup {n + 1}) = Cardinality(S) + 1
  BY <1>1, <1>2, FS_AddElement
<1>4. QED
  BY <1>1, <1>3 DEF LineEnds, S

\* From every byte on a line reaches to the next line end or to the end of the text.
LEMMA LineReaches ==
    ASSUME NEW text \in Seq(Byte), NEW first \in 1 .. Len(text)
    PROVE  \E last \in first - 1 .. Len(text) : Reaches(text, first, last)
<1> DEFINE I == {i \in first .. Len(text) : text[i] = "lf"}
<1>0. Len(text) \in Nat /\ first \in Nat
  OBVIOUS
<1>1. CASE I = {}
  <2>1. Len(text) \in first - 1 .. Len(text) /\ \A i \in first .. Len(text) : text[i] # "lf"
    BY <1>0, <1>1
  <2>2. QED
    BY <2>1 DEF Reaches
<1>2. CASE I # {}
  <2>1. Min(I) \in I /\ \A j \in I : Min(I) <= j
    <3>1. I \subseteq Nat
      BY <1>0
    <3>2. QED
      BY <1>2, <3>1, FirstPosition
  <2> DEFINE last == Min(I) - 1
  <2>2. last \in first - 1 .. Len(text) /\ text[last + 1] = "lf"
    BY <1>0, <2>1
  <2>3. \A i \in first .. last : text[i] # "lf"
    BY <1>0, <2>1
  <2>4. QED
    BY <2>2, <2>3 DEF Reaches
<1>3. QED
  BY <1>1, <1>2

\* A part of the buffer is the part of the text it follows.
LEMMA BufferIsText ==
    ASSUME NEW text \in Seq(Byte), NEW buffer \in Seq(Byte), NEW p \in Nat, NEW m \in Nat,
           m <= Len(buffer), p + m <= Len(text),
           \A i \in 1 .. Len(buffer) : buffer[i] = text[p + i]
    PROVE  /\ SubSeq(buffer, 1, m) = SubSeq(text, p + 1, p + m)
           /\ SubSeq(buffer, 1, m) \in Seq(Byte) /\ Len(SubSeq(buffer, 1, m)) = m
<1> DEFINE a == SubSeq(buffer, 1, m)
           b == SubSeq(text, p + 1, p + m)
<1>1. /\ a \in Seq(Byte) /\ Len(a) = m /\ \A i \in 1 .. m : a[i] = buffer[i]
  OBVIOUS
<1>2. /\ b \in Seq(Byte) /\ Len(b) = m /\ \A i \in 1 .. m : b[i] = text[p + i]
  <2>1. Len(text) \in Nat /\ p + 1 \in Nat /\ p + m \in Nat /\ (p + m) - (p + 1) + 1 = m
    OBVIOUS
  <2>2. \A i \in 1 .. m : (p + 1) + i - 1 = p + i
    OBVIOUS
  <2>3. QED
    BY <2>1, <2>2
<1>3. \A i \in 1 .. m : a[i] = b[i]
  BY <1>1, <1>2, SMTT(60)
<1> HIDE DEF a, b
<1>4. a = b
  BY <1>1, <1>2, <1>3, SeqEqual
<1>5. QED
  BY <1>1, <1>4 DEF a, b

\* What is read of a line is an item.
LEMMA ReadType ==
    ASSUME NEW s \in Seq(Byte)
    PROVE  Line(s) \in Item /\ Line(s) # BodyFailed
<1>1. s # << >> => Front(s) \in Seq(Byte)
  BY DEF Front
<1>2. QED
  BY <1>1 DEF Line, Item, NotUtf8, BodyFailed

\* An item at the end that is read of the next line, or an error of the body.
LEMMA NextLineRead ==
    ASSUME LineInv, ~Failed(ln.out), NEW result \in Item,
           \/ result = BodyFailed
           \/ ReadsLine(ln.text, Len(ln.out) + 1, result),
           ln'.text = ln.text, ln'.out = Append(ln.out, result), ~ln'.ended
    PROVE  LinesFollowTheText' /\ ln'.out \in Seq(Item)
<1>1. ln'.text = ln.text /\ ln'.out = Append(ln.out, result) /\ ~ln'.ended /\ ln.out \in Seq(Item)
  BY DEF LineInv
<1>2. /\ Append(ln.out, result) \in Seq(Item) /\ Len(Append(ln.out, result)) = Len(ln.out) + 1
      /\ \A k \in 1 .. Len(ln.out) : Append(ln.out, result)[k] = ln.out[k]
      /\ Append(ln.out, result)[Len(ln.out) + 1] = result /\ Len(ln.out) \in Nat
      /\ DOMAIN ln.out = 1 .. Len(ln.out) /\ DOMAIN Append(ln.out, result) = 1 .. Len(ln.out) + 1
  BY <1>1
<1>3. \A k \in 1 .. Len(ln.out) : ReadsLine(ln.text, k, ln.out[k])
  BY <1>2 DEF LineInv, LinesFollowTheText, Failed, BodyFailed
<1>4. LinesFollowTheText'
  <2>1. ASSUME NEW k \in 1 .. Len(ln.out) + 1
        PROVE  \/ ln'.out[k] = BodyFailed /\ k = Len(ln'.out)
               \/ ReadsLine(ln.text, k, ln'.out[k])
    <3>1. CASE k = Len(ln.out) + 1
      BY <1>1, <1>2, <3>1
    <3>2. CASE k \in 1 .. Len(ln.out)
      BY <1>1, <1>2, <1>3, <3>2
    <3>3. QED
      BY <1>2, <3>1, <3>2
  <2>2. QED
    BY <1>1, <1>2, <2>1 DEF LinesFollowTheText
<1>5. QED
  BY <1>1, <1>2, <1>4

\* An error at the end: nothing is polled after it.
LEMMA ErrorYielded ==
    ASSUME LineInv, ~Failed(ln.out), ~ln.ended, NEW result \in Item, result.ok = FALSE, NEW taken \in Nat,
           \/ result = BodyFailed
           \/ ReadsLine(ln.text, Len(ln.out) + 1, result),
           ln' = [ln EXCEPT !.taken = taken, !.out = Append(ln.out, result)]
    PROVE  LineInv'
<1>1. /\ ln'.text = ln.text /\ ln'.out = Append(ln.out, result) /\ ~ln'.ended /\ ln.out \in Seq(Item)
      /\ ln' = [text |-> ln.text, taken |-> taken, buffer |-> ln.buffer, out |-> Append(ln.out, result),
                closed |-> ln.closed, ended |-> ln.ended]
      /\ ln.text \in Seq(Byte) /\ ln.buffer \in Seq(Byte) /\ ln.closed \in BOOLEAN
      /\ ln.ended \in BOOLEAN
  BY DEF LineInv
<1>2. /\ Append(ln.out, result)[Len(ln.out) + 1] = result
      /\ Len(ln.out) + 1 \in DOMAIN Append(ln.out, result)
  BY <1>1
<1>3. Failed(ln'.out)
  BY <1>1, <1>2 DEF Failed
<1>4. LinesFollowTheText' /\ ln'.out \in Seq(Item)
  BY <1>1, NextLineRead
<1>5. ln' \in [text : Seq(Byte), taken : Nat, buffer : Seq(Byte), out : Seq(Item),
               closed : BOOLEAN, ended : BOOLEAN]
  BY <1>1, <1>4
<1>6. QED
  BY <1>3, <1>4, <1>5 DEF LineInv

\* A position behind b bytes, among the n that follow.
LEMMA BehindBuffer ==
    ASSUME NEW p \in Nat, NEW b \in Nat, NEW n \in Nat, NEW i \in Nat, b < i, i <= b + n
    PROVE  i - b \in 1 .. n /\ i = b + (i - b) /\ (p + b) + (i - b) = p + i
OBVIOUS

\* Every step keeps the invariant.
LEMMA LineStep == LineInv /\ [LineNext]_lineVars => LineInv'
<1> SUFFICES ASSUME LineInv, [LineNext]_lineVars
             PROVE  LineInv'
  OBVIOUS
<1> DEFINE text == ln.text
           buffer == ln.buffer
           p == Emitted
<1>t. /\ ln.text \in Seq(Byte) /\ ln.taken \in Nat /\ ln.buffer \in Seq(Byte) /\ ln.out \in Seq(Item)
      /\ ln.closed \in BOOLEAN /\ ln.ended \in BOOLEAN
      /\ Len(text) \in Nat /\ Len(buffer) \in Nat /\ Len(ln.out) \in Nat
      /\ ln = [text |-> ln.text, taken |-> ln.taken, buffer |-> ln.buffer, out |-> ln.out,
               closed |-> ln.closed, ended |-> ln.ended]
  BY DEF LineInv
<1>m. MAX_LINE_LENGTH \in Nat
  BY LineAssumption
<1>i. /\ TooLong \in Item /\ BodyFailed \in Item
      /\ TooLong.ok = FALSE /\ BodyFailed.ok = FALSE
  BY DEF Item, TooLong, BodyFailed
<1>0. CASE UNCHANGED lineVars
  BY <1>0 DEF lineVars, LineInv, LinesFollowTheText, BufferFollows, Emitted
<1>b. ASSUME Polls
      PROVE  /\ ~Failed(ln.out) /\ ~ln.ended /\ ln.taken <= Len(text) /\ Len(buffer) <= ln.taken
             /\ p \in Nat /\ p + Len(buffer) = ln.taken
             /\ \A i \in 1 .. Len(buffer) : buffer[i] = text[p + i]
             /\ ln.closed => buffer = << >> /\ ln.taken = Len(text) /\ Len(ln.out) = LineCount(text)
             /\ ~ln.closed => /\ p = 0 \/ text[p] = "lf"
                              /\ Len(ln.out) = LineEnds(text, p)
  BY <1>b, <1>t DEF Polls, LineInv, BufferFollows, Emitted
<1>a. Len(text) \in Nat /\ Len(buffer) \in Nat /\ ln.taken \in Nat /\ Len(ln.out) \in Nat
  BY <1>t
<1>s. ASSUME Polls
      PROVE  p \in Nat /\ p + Len(buffer) = ln.taken /\ ln.taken <= Len(text)
  BY <1>b, <1>s
\* The line that is in the buffer, or begins there, is the next one.
<1>n. ASSUME Polls, ~ln.closed, NEW last \in p .. Len(text), p < Len(text), Reaches(text, p + 1, last)
      PROVE  ReadsLine(text, Len(ln.out) + 1, Read(SubSeq(text, p + 1, last)))
  <2>1. p + 1 \in 1 .. Len(text) /\ last \in (p + 1) - 1 .. Len(text) /\ (p + 1) - 1 = p
    BY <1>n, <1>b, <1>t
  <2>2. IsLine(text, Len(ln.out) + 1, p + 1, last)
    <3>1. /\ LineEnds(text, (p + 1) - 1) = (Len(ln.out) + 1) - 1
          /\ p + 1 = 1 \/ text[(p + 1) - 1] = "lf"
      BY <1>n, <1>b, <1>t, <2>1
    <3>2. QED
      BY <1>n, <3>1 DEF IsLine
  <2> HIDE DEF p, text
  <2>3. QED
    BY <2>1, <2>2 DEF ReadsLine
\* A line that is longer than the limit, wherever it ends.
<1>l. ASSUME Polls, ~ln.closed, p < Len(text),
             \A last \in p .. Len(text) : Reaches(text, p + 1, last) => last - p > MAX_LINE_LENGTH
      PROVE  ReadsLine(text, Len(ln.out) + 1, TooLong)
  <2>1. p + 1 \in 1 .. Len(text) /\ (p + 1) - 1 = p
    BY <1>l, <1>b, <1>t
  <2>2. PICK last \in p .. Len(text) : Reaches(text, p + 1, last)
    BY <1>t, <2>1, LineReaches
  <2>3. ReadsLine(text, Len(ln.out) + 1, Read(SubSeq(text, p + 1, last)))
    BY <1>l, <1>n, <2>2
  <2>4. last - p > MAX_LINE_LENGTH
    BY <1>l, <2>2
  <2>5. Len(SubSeq(text, p + 1, last)) = last - p
    BY <1>t, <1>b, <1>l, <2>1, <2>2
  <2>6. Read(SubSeq(text, p + 1, last)) = TooLong
    BY <2>4, <2>5 DEF Read
  <2>7. QED
    BY <2>3, <2>6
<1>1. CASE EmitLine
  <2> DEFINE pos == LineEnd(buffer)
             result == Line(SubSeq(buffer, 1, pos - 1))
             rest == SubSeq(buffer, pos + 1, Len(buffer))
  <2>1. Polls /\ pos > 0
    BY <1>1 DEF EmitLine
  <2>2. /\ pos \in 1 .. Len(buffer) /\ buffer[pos] = "lf"
        /\ \A i \in 1 .. pos - 1 : buffer[i] # "lf"
    BY <1>t, <2>1, LineEndIsFirst
  <2>3. ~ln.closed
    BY <1>b, <2>1, <2>2
  <2> HIDE DEF pos
  <2> DEFINE last == p + (pos - 1)
  <2>4. /\ last \in p .. Len(text) /\ p < Len(text) /\ text[last + 1] = "lf" /\ last + 1 = p + pos
        /\ \A i \in p + 1 .. last : text[i] # "lf"
    <3>1. last \in p .. Len(text) /\ p < Len(text) /\ last + 1 = p + pos
      BY <1>a, <1>s, <2>1, <2>2
    <3>2. text[p + pos] = "lf"
      BY <1>b, <2>1, <2>2
    <3>3. ASSUME NEW i \in p + 1 .. last
          PROVE  text[i] # "lf"
      <4>1. i - p \in 1 .. pos - 1 /\ i - p \in 1 .. Len(buffer) /\ i = p + (i - p)
        BY <1>a, <1>s, <2>1, <2>2
      <4>2. QED
        BY <1>b, <2>1, <2>2, <4>1
    <3>4. QED
      BY <3>1, <3>2, <3>3
  <2>5. ReadsLine(text, Len(ln.out) + 1, Read(SubSeq(text, p + 1, last)))
    <3>1. Reaches(text, p + 1, last)
      BY <2>4 DEF Reaches
    <3>2. QED
      BY <1>n, <2>1, <2>3, <2>4, <3>1
  <2>6. /\ SubSeq(buffer, 1, pos - 1) = SubSeq(text, p + 1, last)
        /\ SubSeq(buffer, 1, pos - 1) \in Seq(Byte) /\ Len(SubSeq(buffer, 1, pos - 1)) = pos - 1
    <3>1. pos - 1 \in Nat /\ pos - 1 <= Len(buffer) /\ p + (pos - 1) <= Len(text)
      BY <1>b, <1>t, <2>1, <2>2, <2>4
    <3>2. p \in Nat /\ \A i \in 1 .. Len(buffer) : buffer[i] = text[p + i]
      BY <1>b, <2>1
    <3>3. text \in Seq(Byte) /\ buffer \in Seq(Byte)
      BY <1>t
    <3> HIDE DEF text, buffer, p
    <3>4. QED
      BY <3>1, <3>2, <3>3, BufferIsText
  <2>7. CASE pos - 1 > MAX_LINE_LENGTH
    <3>1. ln' = [ln EXCEPT !.out = Append(ln.out, TooLong)]
      BY <1>1, <2>7 DEF EmitLine, Yield, pos
    <3>2. ln' = [ln EXCEPT !.taken = ln.taken, !.out = Append(ln.out, TooLong)]
      BY <1>t, <3>1
    <3>3. ReadsLine(text, Len(ln.out) + 1, TooLong)
      BY <2>5, <2>6, <2>7 DEF Read
    <3>4. QED
      BY <1>a, <1>b, <1>i, <2>1, <3>2, <3>3, ErrorYielded
  <2>8. CASE ~(pos - 1 > MAX_LINE_LENGTH)
    <3>1. ln' = [ln EXCEPT !.buffer = rest, !.out = Append(ln.out, result)]
      BY <1>1, <2>8 DEF EmitLine, Yield, pos
    <3>2. /\ ln'.out = Append(ln.out, result) /\ ln'.text = ln.text /\ ln'.taken = ln.taken
          /\ ln'.buffer = rest /\ ln'.closed = ln.closed /\ ln'.ended = ln.ended
      BY <1>t, <3>1
    <3>3. ReadsLine(text, Len(ln.out) + 1, result) /\ result \in Item
      BY <2>5, <2>6, <2>8, ReadType DEF Read
    <3>4. /\ rest \in Seq(Byte) /\ Len(rest) = Len(buffer) - pos
          /\ \A i \in 1 .. Len(rest) : rest[i] = buffer[pos + i]
      BY <1>t, <2>2, SMTT(60)
    <3> HIDE DEF rest, result
    <3>5. Emitted' = p + pos /\ p + pos = last + 1
      <4>1. Emitted' = ln.taken - Len(rest) /\ Len(rest) = Len(buffer) - pos
        BY <3>2, <3>4 DEF Emitted
      <4>2. p \in Nat /\ p + Len(buffer) = ln.taken /\ pos \in Nat
        BY <1>s, <2>1, <2>2
      <4>3. QED
        BY <1>a, <4>1, <4>2
    <3>6. Len(ln'.out) = Len(ln.out) + 1
      BY <1>t, <3>2
    <3>7. LineEnds(text, p + pos) = Len(ln.out) + 1
      <4>1. LineEnds(text, last) = LineEnds(text, p)
        <5>1. p \in Nat /\ last \in Nat /\ p <= last
          BY <1>a, <1>s, <2>1, <2>4
        <5>2. QED
          BY <2>4, <5>1, NoLineEnds
      <4>2. last \in Nat /\ text[last + 1] = "lf"
        BY <1>b, <2>1, <2>2, <2>4
      <4>3. LineEnds(text, last + 1) = LineEnds(text, last) + 1
        BY <4>2, OneLineEnd
      <4>4. QED
        BY <1>b, <2>1, <2>3, <3>5, <4>1, <4>3
    <3>8. BufferFollows'
      <4>1. ASSUME NEW i \in 1 .. Len(rest)
            PROVE  rest[i] = text[(p + pos) + i]
        <5>1. pos + i \in 1 .. Len(buffer) /\ p + (pos + i) = (p + pos) + i
          <6>1. \A a, b, c, n \in Nat :
                   b <= n /\ c \in 1 .. n - b => b + c \in 1 .. n /\ a + (b + c) = (a + b) + c
            OBVIOUS
          <6>2. p \in Nat /\ Len(buffer) \in Nat
            BY <1>a, <1>s, <2>1
          <6>3. pos \in Nat /\ pos <= Len(buffer)
            BY <2>2, <6>2
          <6>4. i \in Nat /\ i \in 1 .. Len(buffer) - pos
            BY <3>4, <6>2
          <6> HIDE DEF p, buffer
          <6>5. QED
            BY <6>1, <6>2, <6>3, <6>4
        <5>2. QED
          BY <1>b, <2>1, <3>4, <5>1
      <4>2. ln.taken <= Len(text) /\ Len(rest) <= ln.taken
        BY <1>a, <1>s, <2>1, <2>2, <3>4
      <4>3. text[p + pos] = "lf"
        BY <2>4
      <4>4. QED
        BY <2>3, <3>2, <3>5, <3>6, <3>7, <4>1, <4>2, <4>3 DEF BufferFollows
    <3>9. LinesFollowTheText' /\ ln'.out \in Seq(Item)
      BY <1>b, <2>1, <3>2, <3>3, NextLineRead
    <3>10. ln' \in [text : Seq(Byte), taken : Nat, buffer : Seq(Byte), out : Seq(Item),
                    closed : BOOLEAN, ended : BOOLEAN]
      BY <1>t, <3>1, <3>2, <3>4, <3>9
    <3>11. QED
      BY <3>8, <3>9, <3>10 DEF LineInv
  <2>9. QED
    BY <2>7, <2>8
<1>2. CASE EmitTooLong
  <2>1. /\ Polls /\ LineEnd(buffer) = 0 /\ Len(buffer) > MAX_LINE_LENGTH
        /\ ln' = [ln EXCEPT !.out = Append(ln.out, TooLong)]
    BY <1>2 DEF EmitTooLong, Overgrown, NeedsMore, Yield
  <2>2. \A i \in 1 .. Len(buffer) : buffer[i] # "lf"
    BY <1>t, <2>1, LineEndIsFirst
  <2>3. ~ln.closed /\ p < Len(text)
    BY <1>b, <1>m, <1>t, <2>1
  <2>4. ASSUME NEW last \in p .. Len(text), Reaches(text, p + 1, last)
        PROVE  last - p > MAX_LINE_LENGTH
    <3>1. CASE last - p < Len(buffer)
      <4>1. (last - p) + 1 \in 1 .. Len(buffer) /\ p + ((last - p) + 1) = last + 1 /\ last < Len(text)
        BY <1>a, <1>s, <2>1, <3>1
      <4>2. text[last + 1] # "lf"
        BY <1>b, <2>1, <2>2, <4>1
      <4>3. QED
        BY <1>a, <2>4, <4>1, <4>2 DEF Reaches
    <3>2. CASE ~(last - p < Len(buffer))
      BY <1>a, <1>m, <1>s, <2>1, <3>2
    <3>3. QED
      BY <3>1, <3>2
  <2>5. ReadsLine(text, Len(ln.out) + 1, TooLong)
    BY <1>l, <2>1, <2>3, <2>4
  <2>6. ln' = [ln EXCEPT !.taken = ln.taken, !.out = Append(ln.out, TooLong)]
    BY <1>t, <2>1
  <2>7. QED
    BY <1>a, <1>b, <1>i, <2>1, <2>5, <2>6, ErrorYielded
<1>3. CASE ChunkFails
  <2>1. Polls /\ ln' = [ln EXCEPT !.out = Append(ln.out, BodyFailed)]
    BY <1>3 DEF ChunkFails, NeedsMore, Yield
  <2>2. ln' = [ln EXCEPT !.taken = ln.taken, !.out = Append(ln.out, BodyFailed)]
    BY <1>t, <2>1
  <2>3. QED
    BY <1>a, <1>b, <1>i, <2>1, <2>2, ErrorYielded
<1>4. CASE EmitRest
  <2>1. /\ Polls /\ LineEnd(buffer) = 0 /\ ~(Len(buffer) > MAX_LINE_LENGTH) /\ ln.taken = Len(text)
    BY <1>4 DEF EmitRest, Overgrown, NeedsMore
  <2>2. \A i \in 1 .. Len(buffer) : buffer[i] # "lf"
    BY <1>t, <2>1, LineEndIsFirst
  <2>3. CASE buffer = << >>
    <3>1. ln' = [ln EXCEPT !.ended = TRUE]
      BY <1>4, <2>3 DEF EmitRest
    <3>2. /\ ln'.text = ln.text /\ ln'.taken = ln.taken /\ ln'.buffer = ln.buffer
          /\ ln'.out = ln.out /\ ln'.closed = ln.closed /\ ln'.ended
          /\ ln' \in [text : Seq(Byte), taken : Nat, buffer : Seq(Byte), out : Seq(Item),
                       closed : BOOLEAN, ended : BOOLEAN]
      BY <1>t, <3>1
    <3>3. Len(ln.out) = LineCount(text)
      <4>1. CASE ln.closed
        BY <1>b, <2>1, <4>1
      <4>2. CASE ~ln.closed
        <5>1. p = Len(text) /\ (text = << >> \/ text[Len(text)] = "lf")
          BY <1>b, <1>t, <2>1, <2>3, <4>2
        <5>2. LineEnds(text, Len(text)) \in Nat
          BY <1>t, LineEndsType
        <5>3. QED
          BY <1>b, <2>1, <4>2, <5>1, <5>2 DEF LineCount
      <4>3. QED
        BY <4>1, <4>2
    <3>4. QED
      BY <3>2, <3>3 DEF LineInv, LinesFollowTheText, BufferFollows, Emitted
  <2>4. CASE buffer # << >>
    <3>1. ln' = [ln EXCEPT !.buffer = << >>, !.closed = TRUE, !.out = Append(ln.out, Line(buffer))]
      BY <1>4, <2>4 DEF EmitRest, Yield
    <3>2. /\ ln'.out = Append(ln.out, Line(buffer)) /\ ln'.text = ln.text /\ ln'.taken = ln.taken
          /\ ln'.buffer = << >> /\ ln'.closed = TRUE /\ ln'.ended = ln.ended
      BY <1>t, <3>1
    <3>3. ~ln.closed /\ p < Len(text) /\ p + Len(buffer) = Len(text) /\ Len(buffer) > 0
      BY <1>b, <1>t, <2>1, <2>4
    <3>4. \A i \in p + 1 .. Len(text) : text[i] # "lf"
      <4>1. TAKE i \in p + 1 .. Len(text)
      <4>2. i - p \in 1 .. Len(buffer) /\ i = p + (i - p)
        BY <1>a, <1>s, <2>1, <3>3
      <4>3. QED
        BY <1>b, <2>1, <2>2, <4>2
    <3>5. ReadsLine(text, Len(ln.out) + 1, Read(SubSeq(text, p + 1, Len(text))))
      <4>1. Len(text) \in p .. Len(text)
        BY <1>a, <1>s, <2>1, <3>3
      <4>2. QED
        BY <1>n, <2>1, <3>3, <3>4, <4>1 DEF Reaches
    <3>6. buffer = SubSeq(text, p + 1, Len(text))
      <4>1. SubSeq(buffer, 1, Len(buffer)) = SubSeq(text, p + 1, p + Len(buffer))
        BY <1>b, <1>t, <2>1, <3>3, BufferIsText, SMTT(60)
      <4>2. SubSeq(buffer, 1, Len(buffer)) = buffer
        BY <1>t
      <4>3. QED
        BY <3>3, <4>1, <4>2
    <3>7. ReadsLine(text, Len(ln.out) + 1, Line(buffer)) /\ Line(buffer) \in Item
      BY <1>t, <2>1, <3>5, <3>6, ReadType DEF Read
    <3>8. Len(ln.out) + 1 = LineCount(text)
      <4>1. LineEnds(text, Len(text)) = LineEnds(text, p)
        BY <1>b, <1>t, <2>1, <3>3, <3>4, NoLineEnds
      <4>2. text # << >> /\ text[Len(text)] # "lf"
        BY <1>b, <1>t, <2>1, <3>3, <3>4
      <4>3. QED
        BY <1>b, <2>1, <3>3, <4>1, <4>2 DEF LineCount
    <3>9. BufferFollows'
      <4>1. Len(ln'.out) = Len(ln.out) + 1 /\ Len(<< >>) = 0
        BY <1>t, <3>2
      <4>2. QED
        BY <1>t, <2>1, <3>2, <3>8, <4>1 DEF BufferFollows
    <3>10. << >> \in Seq(Byte)
      OBVIOUS
    <3>11. LinesFollowTheText' /\ ln'.out \in Seq(Item)
      BY <1>b, <2>1, <3>2, <3>7, NextLineRead
    <3>12. ln' \in [text : Seq(Byte), taken : Nat, buffer : Seq(Byte), out : Seq(Item),
                    closed : BOOLEAN, ended : BOOLEAN]
      BY <1>t, <3>1, <3>2, <3>10, <3>11
    <3>13. QED
      BY <3>9, <3>11, <3>12 DEF LineInv
  <2>5. QED
    BY <2>3, <2>4
<1>5. ASSUME NEW n \in 1 .. Len(ln.text), ChunkArrives(n)
      PROVE  LineInv'
  <2> DEFINE chunk == SubSeq(text, ln.taken + 1, ln.taken + n)
  <2>1. /\ Polls /\ LineEnd(buffer) = 0 /\ ~(Len(buffer) > MAX_LINE_LENGTH)
        /\ ln.taken + n <= Len(text)
    BY <1>5 DEF ChunkArrives, Overgrown, NeedsMore
  <2>p. /\ p \in Nat /\ p + Len(buffer) = ln.taken /\ ln.taken + n <= Len(text) /\ n \in Nat /\ n > 0
        /\ Len(text) \in Nat /\ Len(buffer) \in Nat /\ ln.taken \in Nat
    BY <1>a, <1>s, <2>1
  <2>2. \A i \in 1 .. Len(buffer) : buffer[i] # "lf"
    BY <1>t, <2>1, LineEndIsFirst
  <2>3. ~ln.closed /\ p < Len(text)
    BY <1>b, <2>1, <2>p
  <2>4. /\ chunk \in Seq(Byte) /\ Len(chunk) = n /\ \A i \in 1 .. n : chunk[i] = text[ln.taken + i]
    <3>1. ln.taken + 1 \in Nat /\ ln.taken + n \in Nat /\ (ln.taken + n) - (ln.taken + 1) + 1 = n
      BY <1>t
    <3>2. \A i \in 1 .. n : (ln.taken + 1) + i - 1 = ln.taken + i
      BY <1>t
    <3>3. \A i \in ln.taken + 1 .. ln.taken + n : i \in 1 .. Len(text)
      BY <1>a, <2>1
    <3>4. /\ chunk \in Seq(Byte)
          /\ Len(chunk) = IF ln.taken + 1 <= ln.taken + n THEN (ln.taken + n) - (ln.taken + 1) + 1 ELSE 0
          /\ \A i \in 1 .. (ln.taken + n) - (ln.taken + 1) + 1 : chunk[i] = text[(ln.taken + 1) + i - 1]
      <4>1. \A i \in ln.taken + 1 .. ln.taken + n : text[i] \in Byte
        BY <1>t, <3>3
      <4>2. ln.taken + 1 \in Int /\ ln.taken + n \in Int
        BY <2>p
      <4>3. QED
        BY <4>1, <4>2, SubSeqProperties
    <3>5. ln.taken + 1 <= ln.taken + n
      BY <2>p
    <3> HIDE DEF chunk
    <3>6. QED
      BY <3>1, <3>2, <3>4, <3>5
  <2> HIDE DEF chunk
  <2>5. CASE first_line_overflows(buffer, chunk)
    <3>1. ln' = [ln EXCEPT !.taken = ln.taken + n, !.out = Append(ln.out, TooLong)]
      BY <1>5, <2>5 DEF ChunkArrives, Yield, chunk
    <3>2. ln.taken + n \in Nat
      BY <1>a
    <3>3. /\ Len(buffer) + n > MAX_LINE_LENGTH
          /\ LineEnd(chunk) > 0 => Len(buffer) + LineEnd(chunk) - 1 > MAX_LINE_LENGTH
      BY <2>4, <2>5 DEF first_line_overflows
    <3>4. ASSUME NEW last \in p .. Len(text), Reaches(text, p + 1, last)
          PROVE  last - p > MAX_LINE_LENGTH
      <4>1. CASE last - p < Len(buffer)
        <5>1. (last - p) + 1 \in 1 .. Len(buffer) /\ p + ((last - p) + 1) = last + 1 /\ last < Len(text)
          BY <2>p, <4>1
        <5>2. text[last + 1] # "lf"
          BY <1>b, <2>1, <2>2, <5>1
        <5>3. QED
          BY <1>a, <3>4, <5>1, <5>2 DEF Reaches
      <4>2. CASE last - p >= Len(buffer) /\ last - p < Len(buffer) + n
        <5> DEFINE i == (last - p) + 1
                   j == i - Len(buffer)
        <5>0. i \in Nat /\ Len(buffer) < i /\ i <= Len(buffer) + n /\ p + i = last + 1
          BY <2>p, <4>2
        <5> HIDE DEF i
        <5>1. j \in 1 .. n /\ ln.taken + j = last + 1 /\ last < Len(text)
          <6> HIDE DEF p, buffer, text
          <6>1. j \in 1 .. n /\ (p + Len(buffer)) + j = p + i
            BY <2>p, <5>0, BehindBuffer
          <6> HIDE DEF j
          <6>2. QED
            BY <2>p, <5>0, <6>1
        <5>2. chunk[j] = "lf"
          <6>1. text[last + 1] = "lf"
            BY <1>a, <3>4, <5>1 DEF Reaches
          <6>2. QED
            BY <2>4, <5>1, <6>1
        <5>3. /\ LineEnd(chunk) \in 0 .. n
              /\ LineEnd(chunk) = 0 => \A k \in 1 .. n : chunk[k] # "lf"
              /\ LineEnd(chunk) > 0 => \A k \in 1 .. LineEnd(chunk) - 1 : chunk[k] # "lf"
          BY <2>4, LineEndIsFirst
        <5> HIDE DEF j
        <5>4. LineEnd(chunk) > 0 /\ LineEnd(chunk) <= j
          BY <5>1, <5>2, <5>3
        <5>5. last - p = Len(buffer) + j - 1
          BY <2>p, <5>0 DEF i, j
        <5>6. QED
          BY <1>m, <2>p, <3>3, <5>1, <5>3, <5>4, <5>5
      <4>3. CASE last - p >= Len(buffer) + n
        BY <1>m, <2>p, <3>3, <4>3
      <4>4. QED
        BY <2>p, <4>1, <4>2, <4>3
    <3>5. ReadsLine(text, Len(ln.out) + 1, TooLong)
      BY <1>l, <2>1, <2>3, <3>4
    <3>6. QED
      BY <1>b, <1>i, <2>1, <3>1, <3>2, <3>5, ErrorYielded
  <2>6. CASE ~first_line_overflows(buffer, chunk)
    <3> DEFINE joined == buffer \o chunk
    <3>1. ln' = [ln EXCEPT !.taken = ln.taken + n, !.buffer = joined]
      BY <1>5, <2>6 DEF ChunkArrives, chunk
    <3>2. /\ joined \in Seq(Byte) /\ Len(joined) = Len(buffer) + n
          /\ \A i \in 1 .. Len(buffer) : joined[i] = buffer[i]
          /\ \A i \in 1 .. n : joined[Len(buffer) + i] = chunk[i]
      BY <1>t, <2>4
    <3> HIDE DEF joined
    <3>3. /\ ln'.text = ln.text /\ ln'.taken = ln.taken + n /\ ln'.buffer = joined
          /\ ln'.out = ln.out /\ ln'.closed = ln.closed /\ ln'.ended = ln.ended
          /\ ln' \in [text : Seq(Byte), taken : Nat, buffer : Seq(Byte), out : Seq(Item),
                       closed : BOOLEAN, ended : BOOLEAN]
      <4>1. ln.taken + n \in Nat
        BY <1>a
      <4>2. QED
        BY <1>t, <3>1, <3>2, <4>1
    <3>4. Emitted' = p
      BY <1>b, <1>t, <2>1, <3>2, <3>3 DEF Emitted
    <3>5. ASSUME NEW i \in 1 .. Len(joined)
          PROVE  joined[i] = text[p + i]
      <4>1. CASE i <= Len(buffer)
        <5>1. i \in 1 .. Len(buffer)
          BY <1>t, <3>2, <4>1
        <5>2. QED
          BY <1>b, <2>1, <3>2, <5>1
      <4>2. CASE i > Len(buffer)
        <5>1. i - Len(buffer) \in 1 .. n /\ i = Len(buffer) + (i - Len(buffer))
              /\ ln.taken + (i - Len(buffer)) = p + i
          <6>1. i \in Nat /\ Len(buffer) < i /\ i <= Len(buffer) + n
            BY <2>p, <3>2, <4>2
          <6> HIDE DEF p, buffer, text
          <6>2. /\ i - Len(buffer) \in 1 .. n /\ i = Len(buffer) + (i - Len(buffer))
                /\ (p + Len(buffer)) + (i - Len(buffer)) = p + i
            BY <2>p, <6>1, BehindBuffer
          <6>3. QED
            BY <2>p, <6>2
        <5>2. QED
          BY <2>4, <3>2, <5>1
      <4>3. QED
        BY <1>t, <3>2, <4>1, <4>2
    <3>6. BufferFollows'
      <4>1. ln.taken + n <= Len(text) /\ Len(joined) <= ln.taken + n
        BY <1>b, <1>t, <2>1, <3>2
      <4>2. QED
        BY <1>b, <2>1, <2>3, <3>3, <3>4, <3>5, <4>1 DEF BufferFollows
    <3>7. LinesFollowTheText'
      BY <3>3 DEF LineInv, LinesFollowTheText
    <3>8. QED
      BY <3>3, <3>6, <3>7 DEF LineInv
  <2>7. QED
    BY <2>5, <2>6
<1>6. QED
  BY <1>0, <1>1, <1>2, <1>3, <1>4, <1>5 DEF LineNext

\* The buffer of text_lines always is the text between what was emitted and what has arrived,
\* and as many lines were yielded as have ended.
THEOREM LineInvariant == LineSpec => []LineInv
<1>1. LineInit => LineInv
  <2> SUFFICES ASSUME NEW t \in Texts, ln = LineStart(t)
               PROVE  LineInv
    BY DEF LineInit
  <2>1. t \in Seq(Byte)
    BY LineAssumption
  <2>2. ln = [text |-> t, taken |-> 0, buffer |-> << >>, out |-> << >>, closed |-> FALSE,
              ended |-> FALSE]
    BY DEF LineStart
  <2>3. LineEnds(t, 0) = 0
    <3>1. {i \in 1 .. 0 : t[i] = "lf"} = {}
      OBVIOUS
    <3>2. QED
      BY <3>1, FS_EmptySet DEF LineEnds
  <2>4. Len(<< >>) = 0 /\ Len(t) \in Nat
    BY <2>1
  <2>5. BufferFollows
    BY <2>1, <2>2, <2>3, <2>4 DEF BufferFollows, Emitted
  <2>6. LinesFollowTheText
    BY <2>2 DEF LinesFollowTheText
  <2>7. << >> \in Seq(Byte) /\ << >> \in Seq(Item)
    OBVIOUS
  <2>8. ln \in [text : Seq(Byte), taken : Nat, buffer : Seq(Byte), out : Seq(Item),
                closed : BOOLEAN, ended : BOOLEAN]
    BY <2>1, <2>2, <2>7
  <2>9. QED
    BY <2>5, <2>6, <2>8 DEF LineInv
<1>2. QED
  BY <1>1, LineStep, PTL DEF LineSpec

\* However a text is cut into chunks, text_lines yields its lines in order, an over-long one as
\* an error wherever its end was found, and none is missing when the stream ends.
THEOREM LinesAreTheText == LineSpec => []LinesFollowTheText
<1>1. LineInv => LinesFollowTheText
  BY DEF LineInv
<1>2. QED
  BY <1>1, LineInvariant, PTL

-----------------------------------------------------------------------------
(***************************************************************************)
(* Multipart bodies.                                                       *)
(***************************************************************************)
\* A set that holds 0 and with every number below N the next one holds all up to N.
LEMMA UpTo ==
    ASSUME NEW N \in Nat, NEW S, 0 \in S, \A n \in 0 .. N - 1 : n \in S => n + 1 \in S
    PROVE  \A n \in 0 .. N : n \in S
<1> DEFINE Out == {n \in 0 .. N : n \notin S}
<1>1. SUFFICES ASSUME Out # {} PROVE FALSE
  OBVIOUS
<1>2. Out \subseteq Nat
  OBVIOUS
<1>3. Min(Out) \in Out /\ \A j \in Out : Min(Out) <= j
  BY <1>1, <1>2, FirstPosition
<1> DEFINE m == Min(Out)
<1>4. m \in 0 .. N /\ m \notin S /\ \A j \in Out : m <= j
  BY <1>3
<1> HIDE DEF m
<1>5. m # 0 /\ m - 1 \in 0 .. N - 1 /\ m - 1 \in 0 .. N /\ m = (m - 1) + 1 /\ ~(m <= m - 1)
  BY <1>4
<1>6. m - 1 \in S
  BY <1>4, <1>5
<1>7. QED
  BY <1>4, <1>5, <1>6

\* The sums of the first terms grow term by term.
LEMMA SummedStep ==
    ASSUME NEW terms \in Seq(Nat)
    PROVE  /\ Summed(terms)[0] = 0
           /\ \A n \in 1 .. Len(terms) : Summed(terms)[n] = Summed(terms)[n - 1] + terms[n]
           /\ \A n \in 0 .. Len(terms) : Summed(terms)[n] \in Nat
<1> DEFINE N == Len(terms)
           Sums(k, g) == /\ g \in [0 .. k -> Nat] /\ g[0] = 0
                         /\ \A n \in 1 .. k : g[n] = g[n - 1] + terms[n]
           S == {k \in 0 .. N : \E g : Sums(k, g)}
<1>1. N \in Nat /\ \A n \in 1 .. N : terms[n] \in Nat
  OBVIOUS
<1> HIDE DEF N
<1>2. 0 \in S
  <2> DEFINE h == [n \in 0 .. 0 |-> 0]
  <2>1. Sums(0, h)
    OBVIOUS
  <2> HIDE DEF h, Sums
  <2>2. 0 \in 0 .. N
    BY <1>1
  <2>3. QED
    BY <2>1, <2>2
<1>3. ASSUME NEW k \in 0 .. N - 1, k \in S
      PROVE  k + 1 \in S
  <2>1. PICK g : Sums(k, g)
    BY <1>3
  <2>2. k \in Nat /\ k + 1 \in 1 .. N /\ k + 1 \in 0 .. N /\ terms[k + 1] \in Nat /\ k \in 0 .. k
    BY <1>1
  <2>3. g[k] \in Nat
    BY <2>1, <2>2
  <2> DEFINE h == [n \in 0 .. k + 1 |-> IF n = k + 1 THEN g[k] + terms[k + 1] ELSE g[n]]
  <2>4. ASSUME NEW n \in 0 .. k PROVE h[n] = g[n] /\ g[n] \in Nat
    BY <2>1, <2>2
  <2>5. h[k + 1] = g[k] + terms[k + 1]
    BY <2>2
  <2>6. h \in [0 .. k + 1 -> Nat]
    BY <2>1, <2>2, <2>3
  <2>7. ASSUME NEW n \in 1 .. k + 1 PROVE h[n] = h[n - 1] + terms[n]
    <3>1. CASE n = k + 1
      <4>1. n - 1 = k
        BY <2>2, <3>1
      <4>2. QED
        BY <2>2, <2>4, <2>5, <3>1, <4>1
    <3>2. CASE n # k + 1
      <4>1. n \in 1 .. k /\ n \in 0 .. k /\ n - 1 \in 0 .. k
        BY <2>2, <3>2
      <4>2. QED
        BY <2>1, <2>4, <4>1
    <3>3. QED
      BY <3>1, <3>2
  <2>8. h[0] = 0
    BY <2>1, <2>2, <2>4
  <2> HIDE DEF h
  <2>9. Sums(k + 1, h)
    BY <2>6, <2>7, <2>8
  <2>10. QED
    BY <2>2, <2>9
<1>4. N \in S
  <2> HIDE DEF S
  <2>1. \A n \in 0 .. N : n \in S
    BY <1>1, <1>2, <1>3, UpTo
  <2>2. QED
    BY <1>1, <2>1
<1>5. PICK g : Sums(N, g)
  BY <1>4
<1>6. g = [n \in 0 .. N |-> IF n = 0 THEN 0 ELSE g[n - 1] + terms[n]]
  <2>1. \A n \in 0 .. N : g[n] = IF n = 0 THEN 0 ELSE g[n - 1] + terms[n]
    BY <1>1, <1>5
  <2>2. QED
    BY <1>5, <2>1
<1>7. Summed(terms) = [n \in 0 .. N |-> IF n = 0 THEN 0 ELSE Summed(terms)[n - 1] + terms[n]]
  BY <1>6 DEF Summed, N
<1> DEFINE f == Summed(terms)
<1> HIDE DEF f
<1>8. f = [n \in 0 .. N |-> IF n = 0 THEN 0 ELSE f[n - 1] + terms[n]]
  BY <1>7 DEF f
<1>9. f[0] = 0 /\ \A n \in 1 .. N : f[n] = f[n - 1] + terms[n]
  BY <1>1, <1>8
<1>10. \A n \in 0 .. N : f[n] \in Nat
  <2> DEFINE T == {n \in 0 .. N : f[n] \in Nat}
  <2>1. 0 \in T
    BY <1>1, <1>9
  <2>2. ASSUME NEW n \in 0 .. N - 1, n \in T PROVE n + 1 \in T
    <3>1. n + 1 \in 1 .. N /\ n + 1 \in 0 .. N /\ (n + 1) - 1 = n
      BY <1>1
    <3>2. f[n + 1] = f[n] + terms[n + 1] /\ terms[n + 1] \in Nat
      BY <1>1, <1>9, <3>1
    <3>3. QED
      BY <2>2, <3>1, <3>2
  <2> HIDE DEF T
  <2>3. \A n \in 0 .. N : n \in T
    BY <1>1, <2>1, <2>2, UpTo
  <2>4. QED
    BY <2>3 DEF T
<1>11. QED
  BY <1>9, <1>10 DEF f, N

\* The pieces are put together one by one.
LEMMA JoinedStep ==
    ASSUME NEW T, NEW pieces \in Seq(Seq(T))
    PROVE  /\ Joined(pieces)[0] = << >>
           /\ \A n \in 1 .. Len(pieces) : Joined(pieces)[n] = Joined(pieces)[n - 1] \o pieces[n]
           /\ \A n \in 0 .. Len(pieces) : Joined(pieces)[n] \in Seq(T)
<1> DEFINE N == Len(pieces)
           Joins(k, g) == /\ g \in [0 .. k -> Seq(T)] /\ g[0] = << >>
                          /\ \A n \in 1 .. k : g[n] = g[n - 1] \o pieces[n]
           S == {k \in 0 .. N : \E g : Joins(k, g)}
<1>1. N \in Nat /\ \A n \in 1 .. N : pieces[n] \in Seq(T)
  OBVIOUS
<1> HIDE DEF N
<1>2. 0 \in S
  <2> DEFINE h == [n \in 0 .. 0 |-> << >>]
  <2>1. Joins(0, h)
    OBVIOUS
  <2> HIDE DEF h, Joins
  <2>2. 0 \in 0 .. N
    BY <1>1
  <2>3. QED
    BY <2>1, <2>2
<1>3. ASSUME NEW k \in 0 .. N - 1, k \in S
      PROVE  k + 1 \in S
  <2>1. PICK g : Joins(k, g)
    BY <1>3
  <2>2. k \in Nat /\ k + 1 \in 1 .. N /\ k + 1 \in 0 .. N /\ pieces[k + 1] \in Seq(T) /\ k \in 0 .. k
    BY <1>1
  <2>3. g[k] \in Seq(T) /\ g[k] \o pieces[k + 1] \in Seq(T)
    BY <2>1, <2>2, ConcatProperties
  <2> DEFINE x == g[k] \o pieces[k + 1]
             h == [n \in 0 .. k + 1 |-> IF n = k + 1 THEN x ELSE g[n]]
  <2> HIDE DEF x
  <2>4. ASSUME NEW n \in 0 .. k PROVE h[n] = g[n] /\ g[n] \in Seq(T)
    BY <2>1, <2>2
  <2>5. h[k + 1] = g[k] \o pieces[k + 1]
    <3>1. h[k + 1] = x
      BY <2>2
    <3>2. QED
      BY <3>1, Zenon DEF x
  <2>6. h \in [0 .. k + 1 -> Seq(T)]
    BY <2>1, <2>2, <2>3 DEF x
  <2>7. ASSUME NEW n \in 1 .. k + 1 PROVE h[n] = h[n - 1] \o pieces[n]
    <3>1. CASE n = k + 1
      <4>1. n - 1 = k
        BY <2>2, <3>1
      <4>2. QED
        BY <2>2, <2>4, <2>5, <3>1, <4>1
    <3>2. CASE n # k + 1
      <4>1. n \in 1 .. k /\ n \in 0 .. k /\ n - 1 \in 0 .. k
        BY <2>2, <3>2
      <4>2. QED
        BY <2>1, <2>4, <4>1
    <3>3. QED
      BY <3>1, <3>2
  <2>8. h[0] = << >>
    BY <2>1, <2>2, <2>4
  <2> HIDE DEF h
  <2>9. Joins(k + 1, h)
    BY <2>6, <2>7, <2>8
  <2>10. QED
    BY <2>2, <2>9
<1>4. N \in S
  <2> HIDE DEF S
  <2>1. \A n \in 0 .. N : n \in S
    BY <1>1, <1>2, <1>3, UpTo
  <2>2. QED
    BY <1>1, <2>1
<1>5. PICK g : Joins(N, g)
  BY <1>4
<1> DEFINE Longer(p, n) == IF n = 0 THEN << >> ELSE p[n - 1] \o pieces[n]
<1>6. g = [n \in 0 .. N |-> Longer(g, n)]
  <2>1. ASSUME NEW n \in 0 .. N PROVE g[n] = Longer(g, n)
    <3>1. n = 0 \/ n \in 1 .. N
      BY <1>1
    <3>2. QED
      BY <1>5, <3>1, Zenon
  <2> HIDE DEF Longer
  <2>2. QED
    BY <1>5, <2>1
<1>7. Joined(pieces) = [n \in 0 .. N |-> IF n = 0 THEN << >> ELSE Joined(pieces)[n - 1] \o pieces[n]]
  BY <1>6 DEF Joined, N
<1> DEFINE f == Joined(pieces)
<1> HIDE DEF f
<1>8. f = [n \in 0 .. N |-> Longer(f, n)]
  BY <1>7, Zenon DEF f
<1>9. f[0] = << >> /\ \A n \in 1 .. N : f[n] = f[n - 1] \o pieces[n]
  <2> HIDE DEF Longer
  <2>1. \A n \in 0 .. N : f[n] = Longer(f, n)
    BY <1>8
  <2>2. 0 \in 0 .. N /\ \A n \in 1 .. N : n \in 0 .. N /\ n # 0
    BY <1>1
  <2>3. QED
    BY <2>1, <2>2, Zenon DEF Longer
<1>10. \A n \in 0 .. N : f[n] \in Seq(T)
  <2> DEFINE W == {n \in 0 .. N : f[n] \in Seq(T)}
  <2>1. 0 \in W
    <3>1. 0 \in 0 .. N /\ << >> \in Seq(T)
      BY <1>1
    <3>2. QED
      BY <1>9, <3>1, Zenon
  <2>2. ASSUME NEW n \in 0 .. N - 1, n \in W PROVE n + 1 \in W
    <3>1. n + 1 \in 1 .. N /\ n + 1 \in 0 .. N /\ (n + 1) - 1 = n
      BY <1>1
    <3>2. f[n + 1] = f[n] \o pieces[n + 1] /\ pieces[n + 1] \in Seq(T)
      BY <1>1, <1>9, <3>1
    <3>3. QED
      BY <2>2, <3>1, <3>2, ConcatProperties
  <2> HIDE DEF W
  <2>3. \A n \in 0 .. N : n \in W
    BY <1>1, <2>1, <2>2, UpTo
  <2>4. QED
    BY <2>3 DEF W
<1>11. QED
  BY <1>9, <1>10 DEF f, N

\* The first terms have the sums they have before more terms.
LEMMA SumsOfConcat ==
    ASSUME NEW s \in Seq(Nat), NEW t \in Seq(Nat)
    PROVE  Summed(s \o t)[Len(s \o t)] = Summed(s)[Len(s)] + Summed(t)[Len(t)]
<1> DEFINE u == s \o t
           M == Len(s)
           N == Len(t)
           f == Summed(s)
           g == Summed(t)
           h == Summed(u)
<1>1. u \in Seq(Nat) /\ Len(u) = M + N /\ M \in Nat /\ N \in Nat
  BY ConcatProperties
<1>2. \A i \in 1 .. M : u[i] = s[i] /\ s[i] \in Nat
  OBVIOUS
<1>3. \A i \in 1 .. N : u[M + i] = t[i] /\ t[i] \in Nat
  OBVIOUS
<1>4. f[0] = 0 /\ \A n \in 1 .. M : f[n] = f[n - 1] + s[n]
  BY SummedStep
<1>5. g[0] = 0 /\ (\A n \in 1 .. N : g[n] = g[n - 1] + t[n]) /\ \A n \in 0 .. N : g[n] \in Nat
  BY SummedStep
<1>6. h[0] = 0 /\ (\A n \in 1 .. M + N : h[n] = h[n - 1] + u[n]) /\ \A n \in 0 .. M + N : h[n] \in Nat
  BY <1>1, SummedStep
<1> HIDE DEF u, M, N, f, g, h
<1>7. h[M] = f[M]
  <2> DEFINE S == {n \in 0 .. M : h[n] = f[n]}
  <2>1. 0 \in S
    BY <1>1, <1>4, <1>6
  <2>2. ASSUME NEW n \in 0 .. M - 1, n \in S PROVE n + 1 \in S
    <3>1. n + 1 \in 0 .. M /\ n + 1 \in 1 .. M /\ n + 1 \in 1 .. M + N /\ (n + 1) - 1 = n
      BY <1>1
    <3>2. h[n + 1] = h[n] + u[n + 1] /\ f[n + 1] = f[n] + s[n + 1] /\ u[n + 1] = s[n + 1]
      BY <1>2, <1>4, <1>6, <3>1
    <3>3. QED
      BY <2>2, <3>1, <3>2
  <2> HIDE DEF S
  <2>3. \A n \in 0 .. M : n \in S
    BY <1>1, <2>1, <2>2, UpTo
  <2>4. M \in 0 .. M
    BY <1>1
  <2>5. QED
    BY <2>3, <2>4 DEF S
<1>8. h[M + N] = h[M] + g[N]
  <2> DEFINE S == {n \in 0 .. N : h[M + n] = h[M] + g[n]}
  <2>0. h[M] \in Nat
    BY <1>1, <1>6
  <2>1. 0 \in S
    BY <1>1, <1>5, <2>0
  <2>2. ASSUME NEW n \in 0 .. N - 1, n \in S PROVE n + 1 \in S
    <3>1. n + 1 \in 0 .. N /\ n + 1 \in 1 .. N /\ M + (n + 1) \in 1 .. M + N /\ (n + 1) - 1 = n
          /\ (M + (n + 1)) - 1 = M + n /\ n \in 0 .. N
      BY <1>1
    <3>2. h[M + (n + 1)] = h[M + n] + u[M + (n + 1)] /\ g[n + 1] = g[n] + t[n + 1]
          /\ u[M + (n + 1)] = t[n + 1] /\ t[n + 1] \in Nat /\ g[n] \in Nat
      BY <1>3, <1>5, <1>6, <3>1
    <3>3. h[M + n] = h[M] + g[n]
      BY <2>2
    <3>4. h[M + (n + 1)] = h[M] + g[n + 1]
      <4>1. \A a, b, c \in Nat : (a + b) + c = a + (b + c)
        OBVIOUS
      <4>2. (h[M] + g[n]) + t[n + 1] = h[M] + (g[n] + t[n + 1])
        BY <2>0, <3>2, <4>1
      <4>3. QED
        BY <3>2, <3>3, <4>2, Zenon
    <3>5. QED
      BY <3>1, <3>4
  <2> HIDE DEF S
  <2>3. \A n \in 0 .. N : n \in S
    BY <1>1, <2>1, <2>2, UpTo
  <2>4. N \in 0 .. N
    BY <1>1
  <2>5. QED
    BY <2>3, <2>4 DEF S
<1>9. Summed(u)[Len(u)] = Summed(s)[Len(s)] + Summed(t)[Len(t)]
  BY <1>1, <1>7, <1>8 DEF f, g, h, M, N
<1>10. QED
  BY <1>9 DEF u

\* As many ones as terms.
LEMMA SumOfOnes ==
    ASSUME NEW s \in Seq(Nat), \A i \in 1 .. Len(s) : s[i] = 1
    PROVE  Summed(s)[Len(s)] = Len(s)
<1> DEFINE N == Len(s)
           f == Summed(s)
           S == {n \in 0 .. N : f[n] = n}
<1>1. N \in Nat /\ \A i \in 1 .. N : s[i] = 1
  OBVIOUS
<1>2. f[0] = 0 /\ \A n \in 1 .. N : f[n] = f[n - 1] + s[n]
  BY SummedStep
<1> HIDE DEF N, f
<1>3. 0 \in S
  BY <1>1, <1>2
<1>4. ASSUME NEW n \in 0 .. N - 1, n \in S PROVE n + 1 \in S
  <2>1. n + 1 \in 0 .. N /\ n + 1 \in 1 .. N /\ (n + 1) - 1 = n
    BY <1>1
  <2>2. f[n + 1] = f[n] + s[n + 1] /\ s[n + 1] = 1
    BY <1>1, <1>2, <2>1
  <2>3. QED
    BY <1>4, <2>1, <2>2
<1> HIDE DEF S
<1>5. \A n \in 0 .. N : n \in S
  BY <1>1, <1>3, <1>4, UpTo
<1>6. N \in 0 .. N
  BY <1>1
<1>7. QED
  BY <1>5, <1>6 DEF S, N, f

(***************************************************************************)
(* Tokens and their bytes.                                                 *)
(***************************************************************************)
TokenType == [what : {"header", "byte", "line", "final"}, part : Nat,
              boundary : FormBoundary \cup {NoBoundary}]

\* The tokens of a form under a boundary.
TokensOf(parts, b) ==
    {t \in TokenType : /\ t.what = "header" => t.part \in DOMAIN parts /\ t.boundary = b
                       /\ t.what = "final" => t.boundary = b}

Weights(parts, wire) == [i \in 1 .. Len(wire) |-> TokenBytes(parts, wire[i])]

\* A length is the unknown one too.
LEMMA UnknownIsNat == Unknown \in Nat
BY MultipartAssumption DEF Unknown

\* A part has a length and a header.
LEMMA PartSizes ==
    ASSUME NEW part \in FormPart, NEW b \in FormBoundary
    PROVE  /\ len(part) \in Nat /\ part.size \in Nat /\ b.len \in Nat
           /\ format_part_header(b, part) \in Nat
<1>1. b.len \in Nat
  BY DEF FormBoundary
<1>2. part.size \in Nat /\ part.declared \in Nat /\ part.ctype \in Nat /\ part.headers \in Nat
      /\ part.name \in PartName /\ part.filename \in PartName
  BY DEF FormPart
<1>3. \A n \in PartName : quote_string_escape(n) \in Nat
  BY DEF PartName, quote_string_escape, NameLength
<1>4. quote_string_escape(part.name) \in Nat /\ quote_string_escape(part.filename) \in Nat
  BY <1>2, <1>3
<1> HIDE DEF quote_string_escape
<1>5. format_part_header(b, part) \in Nat
  BY <1>1, <1>2, <1>4 DEF format_part_header
<1>6. QED
  BY <1>1, <1>2, <1>5 DEF len

\* A token of a form has a number of bytes.
LEMMA TokenHasBytes ==
    ASSUME NEW parts \in Seq(FormPart), NEW b \in FormBoundary, NEW t \in TokensOf(parts, b)
    PROVE  TokenBytes(parts, t) \in Nat
<1>1. t.what \in {"header", "byte", "line", "final"}
  BY DEF TokensOf, TokenType
<1>2. CASE t.what = "header"
  <2>1. t.part \in DOMAIN parts /\ t.boundary = b
    BY <1>2 DEF TokensOf
  <2>2. parts[t.part] \in FormPart
    BY <2>1
  <2>3. format_part_header(b, parts[t.part]) \in Nat
    BY <2>2, PartSizes
  <2>4. TokenBytes(parts, t) = format_part_header(b, parts[t.part])
    BY <1>2, <2>1 DEF TokenBytes
  <2>5. QED
    BY <2>3, <2>4
<1>3. CASE t.what = "final"
  <2>1. t.boundary = b
    BY <1>3 DEF TokensOf
  <2>2. TokenBytes(parts, t) = b.len + 6
    BY <1>3, <2>1 DEF TokenBytes
  <2>3. QED
    BY <2>2 DEF FormBoundary
<1>4. CASE t.what = "byte"
  BY <1>4 DEF TokenBytes
<1>5. CASE t.what = "line"
  BY <1>5 DEF TokenBytes
<1>6. QED
  BY <1>1, <1>2, <1>3, <1>4, <1>5

\* The bytes of two stretches of the wire add up.
LEMMA BytesAddUp ==
    ASSUME NEW parts \in Seq(FormPart), NEW b \in FormBoundary,
           NEW w \in Seq(TokensOf(parts, b)), NEW v \in Seq(TokensOf(parts, b))
    PROVE  WireBytes(parts, w \o v) = WireBytes(parts, w) + WireBytes(parts, v)
<1> DEFINE T == TokensOf(parts, b)
           bytes(t) == TokenBytes(parts, t)
<1>1. \A t \in T : bytes(t) \in Nat
  BY TokenHasBytes
<1>2. w \in Seq(T) /\ v \in Seq(T)
  OBVIOUS
<1> HIDE DEF T, bytes
<1> DEFINE s == [i \in 1 .. Len(w) |-> bytes(w[i])]
           t == [i \in 1 .. Len(v) |-> bytes(v[i])]
           u == [i \in 1 .. Len(w \o v) |-> bytes((w \o v)[i])]
<1>3. s \in Seq(Nat) /\ Len(s) = Len(w) /\ t \in Seq(Nat) /\ Len(t) = Len(v)
  BY <1>1, <1>2
<1>4. Len(w \o v) = Len(w) + Len(v) /\ Len(w) \in Nat /\ Len(v) \in Nat
      /\ \A i \in 1 .. Len(w) + Len(v) : (w \o v)[i] = IF i <= Len(w) THEN w[i] ELSE v[i - Len(w)]
  BY <1>2
<1>5. u = s \o t
  <2>1. Len(s \o t) = Len(s) + Len(t) /\ s \o t \in Seq(Nat)
        /\ \A i \in 1 .. Len(s) + Len(t) : (s \o t)[i] = IF i <= Len(s) THEN s[i] ELSE t[i - Len(s)]
    BY <1>3, ConcatProperties
  <2>2. Len(u) = Len(s) + Len(t)
    BY <1>3, <1>4
  <2>3. ASSUME NEW i \in 1 .. Len(s) + Len(t) PROVE u[i] = (s \o t)[i]
    <3>1. i \in 1 .. Len(w \o v) /\ u[i] = bytes((w \o v)[i])
      BY <1>3, <1>4
    <3>2. CASE i <= Len(s)
      <4>1. i \in 1 .. Len(w) /\ i \in 1 .. Len(w) + Len(v) /\ i <= Len(w)
        BY <1>3, <1>4, <3>2
      <4>2. (w \o v)[i] = w[i] /\ (s \o t)[i] = s[i] /\ s[i] = bytes(w[i])
        BY <1>4, <2>1, <3>2, <4>1
      <4>3. QED
        BY <3>1, <4>2
    <3>3. CASE ~(i <= Len(s))
      <4>1. i - Len(w) \in 1 .. Len(v) /\ i \in 1 .. Len(w) + Len(v) /\ ~(i <= Len(w))
            /\ i - Len(s) = i - Len(w)
        BY <1>3, <1>4, <3>3
      <4>2. (w \o v)[i] = v[i - Len(w)] /\ (s \o t)[i] = t[i - Len(w)]
            /\ t[i - Len(w)] = bytes(v[i - Len(w)])
        BY <1>4, <2>1, <3>3, <4>1
      <4>3. QED
        BY <3>1, <4>2
    <3>4. QED
      BY <3>2, <3>3
  <2>4. u \in Seq(Nat)
    <3>1. \A i \in 1 .. Len(w \o v) : (w \o v)[i] \in T
      BY <1>2
    <3>2. QED
      BY <1>1, <1>4, <3>1
  <2> HIDE DEF u, s, t
  <2>5. QED
    BY <1>3, <2>1, <2>2, <2>3, <2>4, SeqEqual
<1>6. Summed(s \o t)[Len(s \o t)] = Summed(s)[Len(s)] + Summed(t)[Len(t)]
  BY <1>3, SumsOfConcat
<1>7. /\ WireBytes(parts, w) = Summed(s)[Len(w)]
      /\ WireBytes(parts, v) = Summed(t)[Len(v)]
      /\ WireBytes(parts, w \o v) = Summed(u)[Len(w \o v)]
  BY DEF WireBytes, bytes
<1>8. Len(s \o t) = Len(w \o v)
  <2> HIDE DEF s, t
  <2>1. Len(s \o t) = Len(s) + Len(t)
    BY <1>3, ConcatProperties
  <2>2. QED
    BY <1>3, <1>4, <2>1
<1> HIDE DEF u, s, t
<1>9. QED
  BY <1>3, <1>5, <1>6, <1>7, <1>8

\* The tokens a part is made of.
LEMMA PieceType ==
    ASSUME NEW parts \in Seq(FormPart), NEW b \in FormBoundary, NEW i \in 1 .. Len(parts)
    PROVE  /\ Token("header", i, b) \in TokensOf(parts, b)
           /\ Token("line", i, NoBoundary) \in TokensOf(parts, b)
           /\ \A n \in Nat : Data(i, n) \in Seq(TokensOf(parts, b)) /\ Len(Data(i, n)) = n
<1>1. i \in Nat /\ i \in DOMAIN parts
  OBVIOUS
<1>2. /\ Token("header", i, b) \in TokenType
      /\ Token("line", i, NoBoundary) \in TokenType
      /\ Token("byte", i, NoBoundary) \in TokenType
  BY <1>1 DEF Token, TokenType
<1>3. /\ Token("header", i, b) \in TokensOf(parts, b)
      /\ Token("line", i, NoBoundary) \in TokensOf(parts, b)
      /\ Token("byte", i, NoBoundary) \in TokensOf(parts, b)
  BY <1>1, <1>2 DEF Token, TokensOf
<1>4. ASSUME NEW n \in Nat
      PROVE  Data(i, n) \in Seq(TokensOf(parts, b)) /\ Len(Data(i, n)) = n
  <2> DEFINE t == Token("byte", i, NoBoundary)
             T == TokensOf(parts, b)
  <2>1. t \in T
    BY <1>3
  <2> HIDE DEF t, T
  <2>2. [k \in 1 .. n |-> t] \in Seq(T) /\ Len([k \in 1 .. n |-> t]) = n
    BY <2>1
  <2>3. QED
    BY <2>2 DEF Data, t, T
<1>5. QED
  BY <1>3, <1>4

\* Two chunks of a part are as one.
LEMMA ChunksJoin ==
    ASSUME NEW parts \in Seq(FormPart), NEW b \in FormBoundary, NEW i \in 1 .. Len(parts),
           NEW m \in Nat, NEW n \in Nat
    PROVE  Data(i, m) \o Data(i, n) = Data(i, m + n)
<1> DEFINE T == TokensOf(parts, b)
           t == Token("byte", i, NoBoundary)
           x == Data(i, m)
           y == Data(i, n)
           z == Data(i, m + n)
<1>1. x \in Seq(T) /\ y \in Seq(T) /\ z \in Seq(T) /\ Len(x) = m /\ Len(y) = n /\ Len(z) = m + n
  BY PieceType
<1>2. /\ \A k \in 1 .. m : x[k] = t
      /\ \A k \in 1 .. n : y[k] = t
      /\ \A k \in 1 .. m + n : z[k] = t
  BY DEF Data
<1> HIDE DEF T, t, x, y, z
<1>3. x \o y \in Seq(T) /\ Len(x \o y) = m + n
      /\ \A k \in 1 .. m + n : (x \o y)[k] = IF k <= m THEN x[k] ELSE y[k - m]
  BY <1>1, ConcatProperties
<1>4. ASSUME NEW k \in 1 .. m + n PROVE (x \o y)[k] = z[k]
  <2>1. CASE k <= m
    BY <1>2, <1>3, <2>1
  <2>2. CASE ~(k <= m)
    <3>1. k - m \in 1 .. n
      BY <2>2
    <3>2. QED
      BY <1>2, <1>3, <2>2, <3>1
  <2>3. QED
    BY <2>1, <2>2
<1>5. x \o y = z
  BY <1>1, <1>3, <1>4, SeqEqual
<1>6. QED
  BY <1>5 DEF x, y, z

\* The pieces of a form are tokens of it, and so is the whole.
LEMMA EncodedType ==
    ASSUME NEW parts \in Seq(FormPart), NEW b \in FormBoundary
    PROVE  /\ Joined(PartTokens(parts, b))[0] = << >>
           /\ \A i \in 1 .. Len(parts) :
                 Joined(PartTokens(parts, b))[i] =
                    Joined(PartTokens(parts, b))[i - 1]
                    \o ((<<Token("header", i, b)>> \o Data(i, parts[i].size))
                         \o <<Token("line", i, NoBoundary)>>)
           /\ \A i \in 0 .. Len(parts) : Joined(PartTokens(parts, b))[i] \in Seq(TokensOf(parts, b))
           /\ Token("final", 0, b) \in TokensOf(parts, b)
           /\ Encoded(parts, b) \in Seq(TokensOf(parts, b))
<1> DEFINE T == TokensOf(parts, b)
           N == Len(parts)
           piece(i) == (<<Token("header", i, b)>> \o Data(i, parts[i].size))
                        \o <<Token("line", i, NoBoundary)>>
<1>1. N \in Nat
  OBVIOUS
<1>2. ASSUME NEW i \in 1 .. N PROVE piece(i) \in Seq(T)
  <2> DEFINE x == Token("header", i, b)
             y == Data(i, parts[i].size)
             z == Token("line", i, NoBoundary)
  <2>1. parts[i].size \in Nat
    <3>1. parts[i] \in FormPart
      OBVIOUS
    <3>2. QED
      BY <3>1 DEF FormPart
  <2>2. x \in T /\ y \in Seq(T) /\ z \in T
    BY <2>1, PieceType
  <2> HIDE DEF x, y, z, T
  <2>3. <<x>> \in Seq(T) /\ <<z>> \in Seq(T)
    BY <2>2
  <2>4. <<x>> \o y \in Seq(T)
    BY <2>2, <2>3, ConcatProperties
  <2>5. (<<x>> \o y) \o <<z>> \in Seq(T)
    BY <2>3, <2>4, ConcatProperties
  <2>6. QED
    BY <2>5 DEF x, y, z
<1>3. PartTokens(parts, b) = [i \in 1 .. N |-> piece(i)]
  BY Zenon DEF PartTokens
<1>4. Token("final", 0, b) \in T
  BY DEF Token, TokensOf, TokenType
<1> DEFINE P == PartTokens(parts, b)
<1> HIDE DEF T, piece, N, P
<1>5. P \in Seq(Seq(T)) /\ Len(P) = N /\ \A i \in 1 .. N : P[i] = piece(i)
  <2>1. P = [i \in 1 .. N |-> piece(i)]
    BY <1>3 DEF P
  <2>2. QED
    BY <1>1, <1>2, <2>1
<1>6. /\ Joined(P)[0] = << >>
      /\ \A n \in 1 .. N : Joined(P)[n] = Joined(P)[n - 1] \o P[n]
      /\ \A n \in 0 .. N : Joined(P)[n] \in Seq(T)
  BY <1>5, JoinedStep
<1>7. \A n \in 1 .. N : Joined(P)[n] = Joined(P)[n - 1] \o piece(n)
  BY <1>5, <1>6, Zenon
<1>8. Joined(P)[N] \o <<Token("final", 0, b)>> \in Seq(T)
  <2> DEFINE x == Joined(P)[N]
             y == Token("final", 0, b)
  <2>1. x \in Seq(T)
    BY <1>1, <1>6
  <2>2. y \in T
    BY <1>4
  <2> HIDE DEF x, y
  <2>3. <<y>> \in Seq(T)
    BY <2>2
  <2>4. x \o <<y>> \in Seq(T)
    BY <2>1, <2>3, ConcatProperties
  <2>5. QED
    BY <2>4 DEF x, y
<1>9. Encoded(parts, b) \in Seq(T)
  BY <1>8, Zenon DEF Encoded, P, N
<1>10. QED
  BY <1>4, <1>6, <1>7, <1>9, Zenon DEF P, N, T, piece

\* One token is as many bytes as it stands for.
LEMMA BytesOfOne ==
    ASSUME NEW parts \in Seq(FormPart), NEW b \in FormBoundary, NEW t \in TokensOf(parts, b)
    PROVE  WireBytes(parts, <<t>>) = TokenBytes(parts, t)
<1> DEFINE x == TokenBytes(parts, t)
           s == [i \in 1 .. Len(<<t>>) |-> TokenBytes(parts, <<t>>[i])]
<1>1. x \in Nat
  BY TokenHasBytes
<1>2. s = <<x>>
  OBVIOUS
<1>3. WireBytes(parts, <<t>>) = Summed(s)[1]
  BY DEF WireBytes
<1> HIDE DEF x, s
<1>4. s \in Seq(Nat) /\ Len(s) = 1 /\ s[1] = x
  BY <1>1, <1>2
<1>5. Summed(s)[1] = x
  <2>1. Summed(s)[0] = 0 /\ \A n \in 1 .. Len(s) : Summed(s)[n] = Summed(s)[n - 1] + s[n]
    BY <1>4, SummedStep
  <2>2. Summed(s)[1] = Summed(s)[0] + s[1]
    BY <1>4, <2>1
  <2>3. QED
    BY <1>1, <1>4, <2>1, <2>2
<1>6. QED
  BY <1>3, <1>5 DEF x

\* A part's data is as many bytes as tokens.
LEMMA BytesOfData ==
    ASSUME NEW parts \in Seq(FormPart), NEW i \in 1 .. Len(parts), NEW n \in Nat
    PROVE  WireBytes(parts, Data(i, n)) = n
<1> DEFINE d == Data(i, n)
           s == [k \in 1 .. Len(d) |-> TokenBytes(parts, d[k])]
<1>1. Len(d) = n /\ \A k \in 1 .. n : d[k] = Token("byte", i, NoBoundary)
  BY DEF Data
<1>2. TokenBytes(parts, Token("byte", i, NoBoundary)) = 1
  BY DEF Token, TokenBytes
<1>3. WireBytes(parts, d) = Summed(s)[Len(d)]
  BY DEF WireBytes
<1> DEFINE bytes(t) == TokenBytes(parts, t)
<1>4. s = [k \in 1 .. Len(d) |-> bytes(d[k])] /\ bytes(Token("byte", i, NoBoundary)) = 1
  BY <1>2
<1> HIDE DEF d, s, bytes
<1>5. s \in Seq(Nat) /\ Len(s) = n /\ \A k \in 1 .. Len(s) : s[k] = 1
  BY <1>1, <1>4
<1>6. Summed(s)[Len(s)] = Len(s)
  BY <1>5, SumOfOnes
<1>7. QED
  BY <1>1, <1>3, <1>5, <1>6 DEF d

\* Every stream is as long as its caller stated.
Exact(parts) == \A i \in DOMAIN parts : len(parts[i]) = parts[i].size

\* A part on the wire is as many bytes as the length counts for it.
LEMMA BytesOfPart ==
    ASSUME NEW parts \in Seq(FormPart), NEW b \in FormBoundary, NEW i \in 1 .. Len(parts),
           Exact(parts)
    PROVE  /\ WireBytes(parts, (<<Token("header", i, b)>> \o Data(i, parts[i].size))
                               \o <<Token("line", i, NoBoundary)>>)
                 = PartLengths(parts, b)[i]
           /\ PartLengths(parts, b)[i] \in Nat
<1> DEFINE T == TokensOf(parts, b)
           x == Token("header", i, b)
           y == Data(i, parts[i].size)
           z == Token("line", i, NoBoundary)
           h == format_part_header(b, parts[i])
           n == parts[i].size
<1>1. parts[i] \in FormPart /\ len(parts[i]) = n
  BY DEF Exact
<1>2. n \in Nat /\ h \in Nat
  BY <1>1, PartSizes
<1>3. x \in T /\ y \in Seq(T) /\ z \in T
  BY <1>2, PieceType
<1>4. TokenBytes(parts, x) = h /\ TokenBytes(parts, z) = 2
  BY DEF Token, TokenBytes
<1>5. WireBytes(parts, y) = n
  BY <1>2, BytesOfData
<1>6. PartLengths(parts, b)[i] = (h + n) + 2
  BY <1>1 DEF PartLengths, PartBytes
<1>7. WireBytes(parts, <<x>>) = h /\ WireBytes(parts, <<z>>) = 2
  BY <1>3, <1>4, BytesOfOne
<1> HIDE DEF x, y, z, h, n
<1>8. <<x>> \in Seq(T) /\ <<z>> \in Seq(T) /\ <<x>> \o y \in Seq(T)
  <2> HIDE DEF T
  <2>1. <<x>> \in Seq(T) /\ <<z>> \in Seq(T)
    BY <1>3
  <2>2. QED
    BY <1>3, <2>1, ConcatProperties
<1>9. WireBytes(parts, <<x>> \o y) = h + n
  <2>1. WireBytes(parts, <<x>> \o y) = WireBytes(parts, <<x>>) + WireBytes(parts, y)
    BY <1>3, <1>8, BytesAddUp
  <2>2. QED
    BY <1>5, <1>7, <2>1
<1>10. WireBytes(parts, (<<x>> \o y) \o <<z>>) = (h + n) + 2
  <2>1. WireBytes(parts, (<<x>> \o y) \o <<z>>)
          = WireBytes(parts, <<x>> \o y) + WireBytes(parts, <<z>>)
    BY <1>8, BytesAddUp
  <2>2. QED
    BY <1>7, <1>9, <2>1
<1>11. QED
  BY <1>2, <1>6, <1>10 DEF x, y, z, n

\* The lengths of a form's parts are numbers.
LEMMA PartLengthsType ==
    ASSUME NEW parts \in Seq(FormPart), NEW b \in FormBoundary
    PROVE  PartLengths(parts, b) \in Seq(Nat) /\ Len(PartLengths(parts, b)) = Len(parts)
<1> DEFINE bytes(i) == PartBytes(b, parts[i], len(parts[i]))
<1>1. ASSUME NEW i \in 1 .. Len(parts) PROVE bytes(i) \in Nat
  <2>1. parts[i] \in FormPart
    OBVIOUS
  <2>2. len(parts[i]) \in Nat /\ format_part_header(b, parts[i]) \in Nat
    BY <2>1, PartSizes
  <2>3. QED
    BY <2>2 DEF PartBytes
<1>2. PartLengths(parts, b) = [i \in 1 .. Len(parts) |-> bytes(i)]
  BY DEF PartLengths
<1>3. Len(parts) \in Nat
  OBVIOUS
<1> HIDE DEF bytes
<1>4. QED
  BY <1>1, <1>2, <1>3

\* The length that is declared counts the bytes of the encoding.
LEMMA LengthCountsEncoding ==
    ASSUME NEW parts \in Seq(FormPart), NEW b \in FormBoundary, Exact(parts)
    PROVE  (b.len + 6) + Summed(PartLengths(parts, b))[Len(parts)]
             = WireBytes(parts, Encoded(parts, b))
<1> DEFINE T == TokensOf(parts, b)
           N == Len(parts)
           J == Joined(PartTokens(parts, b))
           f == Summed(PartLengths(parts, b))
           piece(i) == (<<Token("header", i, b)>> \o Data(i, parts[i].size))
                        \o <<Token("line", i, NoBoundary)>>
           bytes(w) == WireBytes(parts, w)
           S == {n \in 0 .. N : f[n] = bytes(J[n])}
<1>1. N \in Nat
  OBVIOUS
<1>2. /\ J[0] = << >>
      /\ \A i \in 1 .. N : J[i] = J[i - 1] \o piece(i)
      /\ \A i \in 0 .. N : J[i] \in Seq(T)
  BY EncodedType
<1>3. /\ f[0] = 0
      /\ \A i \in 1 .. N : f[i] = f[i - 1] + PartLengths(parts, b)[i]
      /\ \A i \in 0 .. N : f[i] \in Nat
  BY PartLengthsType, SummedStep
<1>4. ASSUME NEW i \in 1 .. N
      PROVE  /\ bytes(piece(i)) = PartLengths(parts, b)[i]
             /\ piece(i) \in Seq(T)
  <2>1. bytes(piece(i)) = PartLengths(parts, b)[i]
    BY BytesOfPart
  <2> DEFINE x == Token("header", i, b)
             y == Data(i, parts[i].size)
             z == Token("line", i, NoBoundary)
  <2>2. parts[i] \in FormPart
    OBVIOUS
  <2>3. parts[i].size \in Nat
    BY <2>2, PartSizes
  <2>4. x \in T /\ y \in Seq(T) /\ z \in T
    BY <2>3, PieceType
  <2> HIDE DEF x, y, z, T
  <2>5. <<x>> \in Seq(T) /\ <<z>> \in Seq(T)
    BY <2>4
  <2>6. <<x>> \o y \in Seq(T)
    BY <2>4, <2>5, ConcatProperties
  <2>7. (<<x>> \o y) \o <<z>> \in Seq(T)
    BY <2>5, <2>6, ConcatProperties
  <2>8. QED
    BY <2>1, <2>7 DEF x, y, z
<1>5. ASSUME NEW w \in Seq(T), NEW v \in Seq(T) PROVE bytes(w \o v) = bytes(w) + bytes(v)
  BY BytesAddUp
<1>6. bytes(<< >>) = 0
  <2> DEFINE s == [i \in 1 .. Len(<< >>) |-> TokenBytes(parts, << >>[i])]
  <2>1. s \in Seq(Nat) /\ Len(s) = 0
    OBVIOUS
  <2>2. WireBytes(parts, << >>) = Summed(s)[0]
    BY DEF WireBytes
  <2> HIDE DEF s
  <2>3. Summed(s)[0] = 0
    BY <2>1, SummedStep
  <2>4. QED
    BY <2>2, <2>3
<1> HIDE DEF piece, J, f, N, T, bytes
<1>7. 0 \in S
  BY <1>1, <1>2, <1>3, <1>6
<1>8. ASSUME NEW n \in 0 .. N - 1, n \in S PROVE n + 1 \in S
  <2>1. n + 1 \in 1 .. N /\ n + 1 \in 0 .. N /\ n \in 0 .. N /\ (n + 1) - 1 = n
    BY <1>1
  <2>2. J[n + 1] = J[n] \o piece(n + 1) /\ J[n] \in Seq(T) /\ piece(n + 1) \in Seq(T)
    BY <1>2, <1>4, <2>1
  <2>3. bytes(J[n + 1]) = bytes(J[n]) + bytes(piece(n + 1))
    BY <1>5, <2>2
  <2>4. f[n + 1] = f[n] + PartLengths(parts, b)[n + 1]
    BY <1>3, <2>1
  <2>5. bytes(piece(n + 1)) = PartLengths(parts, b)[n + 1]
    BY <1>4, <2>1
  <2>6. f[n] = bytes(J[n])
    BY <1>8
  <2>7. f[n + 1] = bytes(J[n + 1])
    BY <2>3, <2>4, <2>5, <2>6, Zenon
  <2>8. QED
    BY <2>1, <2>7
<1> HIDE DEF S
<1>9. f[N] = bytes(J[N])
  <2>1. \A n \in 0 .. N : n \in S
    BY <1>1, <1>7, <1>8, UpTo
  <2>2. N \in 0 .. N
    BY <1>1
  <2>3. QED
    BY <2>1, <2>2 DEF S
<1> DEFINE t == Token("final", 0, b)
<1>10. bytes(<<t>>) = b.len + 6 /\ <<t>> \in Seq(T)
  <2>1. t \in TokensOf(parts, b)
    BY EncodedType
  <2>2. TokenBytes(parts, t) = b.len + 6
    BY DEF Token, TokenBytes
  <2>3. WireBytes(parts, <<t>>) = TokenBytes(parts, t)
    BY <2>1, BytesOfOne
  <2> HIDE DEF t
  <2>4. <<t>> \in Seq(T)
    BY <2>1 DEF T
  <2>5. QED
    BY <2>2, <2>3, <2>4 DEF bytes
<1>11. Encoded(parts, b) = J[N] \o <<t>>
  BY Zenon DEF Encoded, J, N
<1> HIDE DEF t
<1>12. J[N] \in Seq(T) /\ f[N] \in Nat
  BY <1>1, <1>2, <1>3
<1>13. bytes(J[N] \o <<t>>) = bytes(J[N]) + bytes(<<t>>)
  BY <1>5, <1>10, <1>12
<1>14. b.len + 6 \in Nat
  BY DEF FormBoundary
<1>15. bytes(J[N] \o <<t>>) = (b.len + 6) + f[N]
  BY <1>9, <1>10, <1>12, <1>13, <1>14
<1>16. QED
  BY <1>11, <1>15 DEF bytes, f, N

\* What is on the wire before part n + 1, and with a part's header.
SoFar(parts, b, n) == Joined(PartTokens(parts, b))[n]
HeaderOut(parts, b, i) == SoFar(parts, b, i - 1) \o <<Token("header", i, b)>>

\* Where the encoder stands, and what it has sent.
WireFollows ==
    /\ mp.state \in {"PartHeader", "PartBody", "TrailingCrlf"} => mp.idx \in 1 .. Len(mp.parts)
    /\ mp.state = "PartHeader" /\ ~mp.pos => mp.wire = SoFar(mp.parts, mp.boundary, mp.idx - 1)
    /\ AtBody => /\ mp.left <= mp.parts[mp.idx].size
                 /\ mp.wire = HeaderOut(mp.parts, mp.boundary, mp.idx)
                              \o Data(mp.idx, mp.parts[mp.idx].size - mp.left)
    /\ mp.state = "TrailingCrlf" =>
          mp.wire = HeaderOut(mp.parts, mp.boundary, mp.idx) \o Data(mp.idx, mp.parts[mp.idx].size)
    /\ mp.state = "FinalBoundary" => mp.wire = SoFar(mp.parts, mp.boundary, Len(mp.parts))
    /\ mp.state = "Done" => mp.wire = Encoded(mp.parts, mp.boundary)

MultipartType ==
    mp \in [caller : {"python", "rust"},
            phase : {"form", "checking", "framing", "sending", "sent", "refused", "failed"},
            parts : Seq(FormPart), boundary : FormBoundary,
            announced : FormBoundary \cup {NoBoundary}, tries : Nat,
            kind : {"none", "body", "encoder", "bytes", "stream"}, length : Nat, header : Nat,
            state : {"Done", "PartHeader", "PartBody", "TrailingCrlf", "FinalBoundary"},
            pos : BOOLEAN, idx : Nat, left : Nat, wire : Seq(TokenType), error : BOOLEAN]

\* The announced boundary is the form's unless it was drawn again, and it was drawn again
\* because it occurs in a part.
Announced == mp.announced \in {NoBoundary, mp.boundary} \/ Collides(mp.parts, mp.announced)

\* Nothing is sent, counted or given up before the boundary is checked.
Unsent ==
    /\ mp.phase = "form" => mp.announced \in {NoBoundary, mp.boundary}
    /\ mp.phase \in {"form", "checking", "framing"} => mp.wire = << >> /\ mp.idx = 1 /\ ~mp.pos
    /\ mp.phase \in {"form", "checking"} => ~mp.error /\ mp.length = Unknown

\* A body that is not an error is under a boundary that occurs in no part.
Framed ==
    /\ mp.error => mp.kind = "stream" /\ mp.state = "Done"
    /\ ~mp.error => ~Collides(mp.parts, mp.boundary)
    /\ mp.kind = "stream" /\ ~mp.error => WireFollows

\* A known length is that of the encoding.
Counts(length) ==
    length # Unknown /\ Exact(mp.parts) => length = WireBytes(mp.parts, Encoded(mp.parts, mp.boundary))

MultipartInv ==
    /\ MultipartType
    /\ Unsent
    /\ mp.phase \in {"checking", "framing", "sending", "sent"} => Announced
    /\ mp.phase \in {"framing", "sending"} => Framed
    /\ mp.phase = "framing" => Counts(mp.length)
    /\ mp.phase \in {"sending", "sent"} => Counts(mp.header)
    /\ mp.phase = "sent" => /\ mp.wire = Encoded(mp.parts, mp.boundary)
                            /\ ~Collides(mp.parts, mp.boundary)

\* Sending a part's line end completes it; its chunks add up.
LEMMA PartOnTheWire ==
    ASSUME NEW parts \in Seq(FormPart), NEW b \in FormBoundary, NEW i \in 1 .. Len(parts)
    PROVE  /\ SoFar(parts, b, i - 1) \in Seq(TokensOf(parts, b))
           /\ HeaderOut(parts, b, i) \in Seq(TokensOf(parts, b))
           /\ HeaderOut(parts, b, i) \o Data(i, 0) = HeaderOut(parts, b, i)
           /\ \A m, n \in Nat : (HeaderOut(parts, b, i) \o Data(i, m)) \o Data(i, n)
                                   = HeaderOut(parts, b, i) \o Data(i, m + n)
           /\ (HeaderOut(parts, b, i) \o Data(i, parts[i].size)) \o <<Token("line", i, NoBoundary)>>
                 = SoFar(parts, b, i)
           /\ \A m \in Nat : HeaderOut(parts, b, i) \o Data(i, m) \in Seq(TokensOf(parts, b))
<1> DEFINE T == TokensOf(parts, b)
           x == Token("header", i, b)
           z == Token("line", i, NoBoundary)
           n == parts[i].size
           d(m) == Data(i, m)
           w == SoFar(parts, b, i - 1)
           H == HeaderOut(parts, b, i)
<1>1. w \in Seq(T) /\ SoFar(parts, b, i) = w \o ((<<x>> \o d(n)) \o <<z>>)
  <2>1. i \in 1 .. Len(parts) /\ i - 1 \in 0 .. Len(parts)
    OBVIOUS
  <2>2. QED
    BY <2>1, EncodedType, Zenon DEF SoFar
<1>2. n \in Nat
  <2>1. parts[i] \in FormPart
    OBVIOUS
  <2>2. QED
    BY <2>1, PartSizes
<1>3. x \in T /\ z \in T /\ \A m \in Nat : d(m) \in Seq(T) /\ Len(d(m)) = m
  BY PieceType
<1>4. \A m, k \in Nat : d(m) \o d(k) = d(m + k)
  BY ChunksJoin
<1>5. H = w \o <<x>>
  BY Zenon DEF HeaderOut
<1> HIDE DEF T, x, z, n, d, w, H
<1>6. <<x>> \in Seq(T) /\ <<z>> \in Seq(T)
  BY <1>3
<1>7. H \in Seq(T)
  BY <1>1, <1>5, <1>6, ConcatProperties
<1>8. H \o d(0) = H
  <2>1. d(0) = << >>
    <3>1. d(0) \in Seq(T) /\ Len(d(0)) = 0
      BY <1>3
    <3>2. QED
      BY <3>1, EmptySeq
  <2>2. QED
    BY <1>7, <2>1, ConcatEmptySeq
<1>9. ASSUME NEW m \in Nat, NEW k \in Nat PROVE (H \o d(m)) \o d(k) = H \o d(m + k)
  <2>1. d(m) \in Seq(T) /\ d(k) \in Seq(T)
    BY <1>3
  <2>2. (H \o d(m)) \o d(k) = H \o (d(m) \o d(k))
    BY <1>7, <2>1, ConcatAssociative, SMTT(60)
  <2>3. QED
    BY <1>4, <2>2, Zenon
<1>10. (H \o d(n)) \o <<z>> = SoFar(parts, b, i)
  <2>1. d(n) \in Seq(T)
    BY <1>2, <1>3
  <2>2. <<x>> \o d(n) \in Seq(T)
    BY <1>6, <2>1, ConcatProperties
  <2>3. w \o ((<<x>> \o d(n)) \o <<z>>) = (w \o (<<x>> \o d(n))) \o <<z>>
    BY <1>1, <1>6, <2>2, ConcatAssociative
  <2>4. w \o (<<x>> \o d(n)) = (w \o <<x>>) \o d(n)
    BY <1>1, <1>6, <2>1, ConcatAssociative
  <2>5. QED
    BY <1>1, <1>5, <2>3, <2>4, Zenon
<1>11. \A m \in Nat : H \o d(m) \in Seq(T)
  BY <1>3, <1>7, ConcatProperties
<1>12. QED
  BY <1>1, <1>7, <1>8, <1>9, <1>10, <1>11 DEF T, z, n, d, w, H

\* Tokens of a form are tokens.
LEMMA TokensAreTyped ==
    ASSUME NEW parts, NEW b
    PROVE  Seq(TokensOf(parts, b)) \subseteq Seq(TokenType)
<1> DEFINE T == TokensOf(parts, b)
<1>1. T \subseteq TokenType
  BY DEF TokensOf
<1> HIDE DEF T
<1>2. Seq(T) \subseteq Seq(TokenType)
  BY <1>1
<1>3. QED
  BY <1>2 DEF T

\* The declared length of a form is a number, and exact where its streams are.
LEMMA ContentLength ==
    ASSUME NEW parts \in Seq(FormPart), NEW b \in FormBoundary
    PROVE  /\ content_length(parts, b) \in Nat
           /\ content_length(parts, b) # Unknown /\ Exact(parts)
                 => content_length(parts, b) = WireBytes(parts, Encoded(parts, b))
<1> DEFINE lengths == PartLengths(parts, b)
           sum == Summed(lengths)[Len(parts)]
<1>1. sum \in Nat
  <2>1. lengths \in Seq(Nat) /\ Len(lengths) = Len(parts)
    BY PartLengthsType
  <2>2. Len(lengths) \in 0 .. Len(lengths)
    BY <2>1
  <2>3. QED
    BY <2>1, <2>2, SummedStep
<1>2. b.len \in Nat
  BY DEF FormBoundary
<1>3. content_length(parts, b) \in {Unknown, (b.len + 6) + sum}
  BY DEF content_length
<1>4. Exact(parts) => (b.len + 6) + sum = WireBytes(parts, Encoded(parts, b))
  BY LengthCountsEncoding
<1> HIDE DEF sum
<1>5. (b.len + 6) + sum \in Nat
  BY <1>1, <1>2
<1>6. QED
  BY <1>3, <1>4, <1>5, UnknownIsNat

\* The encoding of a form has a number of bytes.
LEMMA WireBytesType ==
    ASSUME NEW parts \in Seq(FormPart), NEW b \in FormBoundary
    PROVE  WireBytes(parts, Encoded(parts, b)) \in Nat
<1> DEFINE w == Encoded(parts, b)
           T == TokensOf(parts, b)
           bytes(t) == TokenBytes(parts, t)
           s == [i \in 1 .. Len(w) |-> bytes(w[i])]
<1>1. w \in Seq(T)
  BY EncodedType
<1>2. \A t \in T : bytes(t) \in Nat
  BY TokenHasBytes
<1>3. WireBytes(parts, w) = Summed(s)[Len(w)]
  BY DEF WireBytes
<1> HIDE DEF w, T, bytes
<1>4. s \in Seq(Nat) /\ Len(s) = Len(w) /\ Len(w) \in 0 .. Len(w)
  <2>1. Len(w) \in Nat /\ \A i \in 1 .. Len(w) : w[i] \in T
    BY <1>1
  <2>2. QED
    BY <1>2, <2>1
<1> HIDE DEF s
<1>5. Summed(s)[Len(w)] \in Nat
  BY <1>4, SummedStep
<1>6. QED
  BY <1>3, <1>5 DEF w

\* A form that was refused or failed promises nothing.
LEMMA EndedKeepsInv ==
    ASSUME MultipartType', mp'.phase \in {"refused", "failed"}
    PROVE  MultipartInv'
BY DEF MultipartInv, Unsent

\* A part that is accepted joins the form.
LEMMA AddingKeepsInv ==
    ASSUME MultipartInv, mp.phase = "form", NEW part \in PartInputs,
           mp' = [mp EXCEPT !.parts = Append(@, part)] \/ mp' = [mp EXCEPT !.phase = "refused"]
    PROVE  MultipartInv'
<1>1. CASE mp' = [mp EXCEPT !.phase = "refused"]
  <2>1. MultipartType' /\ mp'.phase = "refused"
    BY <1>1 DEF MultipartInv, MultipartType
  <2>2. QED
    BY <2>1, EndedKeepsInv
<1>2. CASE mp' = [mp EXCEPT !.parts = Append(@, part)]
  <2>1. part \in FormPart
    BY MultipartAssumption
  <2>2. Append(mp.parts, part) \in Seq(FormPart)
    BY <2>1, AppendProperties DEF MultipartInv, MultipartType
  <2>3. MultipartType'
    BY <1>2, <2>2 DEF MultipartInv, MultipartType
  <2>4. /\ mp'.phase = "form" /\ mp'.announced = mp.announced /\ mp'.boundary = mp.boundary
        /\ mp'.wire = mp.wire /\ mp'.idx = mp.idx /\ mp'.pos = mp.pos /\ mp'.error = mp.error
        /\ mp'.length = mp.length
    BY <1>2 DEF MultipartInv, MultipartType
  <2>5. Unsent'
    BY <2>4 DEF MultipartInv, Unsent
  <2>6. QED
    BY <2>3, <2>4, <2>5 DEF MultipartInv
<1>3. QED
  BY <1>1, <1>2

\* Taking the form as a body starts the check of its boundary.
LEMMA CheckingKeepsInv ==
    ASSUME MultipartInv, NEW kind \in {"body", "encoder"}, into_body(kind)
    PROVE  MultipartInv'
<1>1. mp.phase = "form" /\ mp' = [mp EXCEPT !.phase = "checking", !.kind = kind]
  BY DEF into_body
<1>2. MultipartType'
  BY <1>1 DEF MultipartInv, MultipartType
<1>3. /\ mp'.phase = "checking" /\ mp'.announced = mp.announced /\ mp'.boundary = mp.boundary
      /\ mp'.wire = mp.wire /\ mp'.idx = mp.idx /\ mp'.pos = mp.pos /\ mp'.error = mp.error
      /\ mp'.length = mp.length
  BY <1>1 DEF MultipartInv, MultipartType
<1>4. Unsent' /\ Announced'
  BY <1>1, <1>3 DEF MultipartInv, Unsent, Announced
<1>5. QED
  BY <1>2, <1>3, <1>4 DEF MultipartInv

\* A boundary is drawn again because it occurs in a part.
LEMMA RedrawKeepsInv ==
    ASSUME MultipartInv, NEW b \in random, ensure_no_boundary_collision(b)
    PROVE  MultipartInv'
<1>1. mp.phase = "checking" /\ Collides(mp.parts, mp.boundary)
      /\ mp' = [mp EXCEPT !.boundary = b, !.tries = @ + 1]
  BY DEF ensure_no_boundary_collision
<1>2. b \in FormBoundary
  BY MultipartAssumption DEF random
<1>3. MultipartType'
  <2>1. mp' = [mp EXCEPT !.boundary = b, !.tries = mp.tries + 1]
    BY <1>1
  <2>2. mp.tries + 1 \in Nat
    BY DEF MultipartInv, MultipartType
  <2>3. QED
    BY <1>2, <2>1, <2>2, Zenon DEF MultipartInv, MultipartType
<1>4. /\ mp'.phase = "checking" /\ mp'.announced = mp.announced /\ mp'.parts = mp.parts
      /\ mp'.wire = mp.wire /\ mp'.idx = mp.idx /\ mp'.pos = mp.pos /\ mp'.error = mp.error
      /\ mp'.length = mp.length
  BY <1>1 DEF MultipartInv, MultipartType
<1>5. Unsent'
  BY <1>1, <1>4 DEF MultipartInv, Unsent
<1>6. mp.announced = NoBoundary \/ Collides(mp.parts, mp.announced)
  BY <1>1 DEF MultipartInv, Announced
<1>7. Announced'
  BY <1>4, <1>6 DEF Announced
<1>8. QED
  BY <1>3, <1>4, <1>5, <1>7 DEF MultipartInv

\* After its last draw the form is a stream of one error.
LEMMA GivingUpKeepsInv ==
    ASSUME MultipartInv, EncoderError
    PROVE  MultipartInv'
<1>1. mp.phase = "checking"
      /\ mp' = [mp EXCEPT !.phase = "framing", !.kind = "stream", !.error = TRUE, !.state = "Done"]
  BY DEF EncoderError
<1>2. MultipartType'
  BY <1>1 DEF MultipartInv, MultipartType
<1>3. /\ mp'.phase = "framing" /\ mp'.announced = mp.announced /\ mp'.parts = mp.parts
      /\ mp'.wire = mp.wire /\ mp'.idx = mp.idx /\ mp'.pos = mp.pos /\ mp'.error
      /\ mp'.length = mp.length /\ mp'.kind = "stream" /\ mp'.state = "Done"
      /\ mp'.boundary = mp.boundary
  BY <1>1 DEF MultipartInv, MultipartType
<1>4. mp.length = Unknown
  BY <1>1 DEF MultipartInv, Unsent
<1>5. Unsent' /\ Announced'
  BY <1>1, <1>3 DEF MultipartInv, Unsent, Announced
<1>6. Framed' /\ Counts(mp.length)'
  BY <1>3, <1>4 DEF Framed, Counts
<1>7. QED
  BY <1>2, <1>3, <1>5, <1>6 DEF MultipartInv

\* A form of buffered parts is one buffer, and its length is the buffer's.
LEMMA BufferingKeepsInv ==
    ASSUME MultipartInv, Buffered
    PROVE  MultipartInv'
<1> DEFINE bytes == WireBytes(mp.parts, Encoded(mp.parts, mp.boundary))
<1>1. mp.phase = "checking" /\ ~Collides(mp.parts, mp.boundary)
      /\ mp' = [mp EXCEPT !.phase = "framing", !.kind = "bytes", !.length = bytes]
  BY DEF Buffered
<1>2. bytes \in Nat
  BY WireBytesType DEF MultipartInv, MultipartType
<1> HIDE DEF bytes
<1>3. MultipartType'
  BY <1>1, <1>2 DEF MultipartInv, MultipartType
<1>4. /\ mp'.phase = "framing" /\ mp'.announced = mp.announced /\ mp'.parts = mp.parts
      /\ mp'.wire = mp.wire /\ mp'.idx = mp.idx /\ mp'.pos = mp.pos /\ mp'.error = mp.error
      /\ mp'.length = bytes /\ mp'.kind = "bytes" /\ mp'.boundary = mp.boundary
  BY <1>1 DEF MultipartInv, MultipartType
<1>5. Unsent' /\ Announced' /\ ~mp.error
  BY <1>1, <1>4 DEF MultipartInv, Unsent, Announced
<1>6. Framed'
  BY <1>1, <1>4, <1>5 DEF Framed
<1>7. Counts(mp.length)'
  BY <1>4 DEF Counts, bytes
<1>8. QED
  BY <1>3, <1>4, <1>5, <1>6, <1>7 DEF MultipartInv

\* The encoder starts before the first part, or before the final boundary.
LEMMA EncoderKeepsInv ==
    ASSUME MultipartInv, NewEncoder
    PROVE  MultipartInv'
<1> DEFINE length == content_length(mp.parts, mp.boundary)
           given == IF mp.kind = "body" /\ length <= UsizeMax THEN length ELSE Unknown
           state == IF mp.parts = << >> THEN "FinalBoundary" ELSE "PartHeader"
<1>1. mp.phase = "checking" /\ ~Collides(mp.parts, mp.boundary)
      /\ mp' = [mp EXCEPT !.phase = "framing", !.kind = "stream", !.length = given,
                          !.state = state]
  BY DEF NewEncoder
<1>2. mp.parts \in Seq(FormPart) /\ mp.boundary \in FormBoundary
  BY DEF MultipartInv, MultipartType
<1>3. length \in Nat /\ (length # Unknown /\ Exact(mp.parts)
                           => length = WireBytes(mp.parts, Encoded(mp.parts, mp.boundary)))
  BY <1>2, ContentLength
<1>4. given \in Nat /\ given \in {length, Unknown}
  BY <1>3, UnknownIsNat
<1>5. state \in {"FinalBoundary", "PartHeader"}
  OBVIOUS
<1>6. state = "FinalBoundary" <=> mp.parts = << >>
  OBVIOUS
<1> HIDE DEF length, given, state
<1>7. MultipartType'
  BY <1>1, <1>4, <1>5 DEF MultipartInv, MultipartType
<1>8. /\ mp'.phase = "framing" /\ mp'.announced = mp.announced /\ mp'.parts = mp.parts
      /\ mp'.wire = mp.wire /\ mp'.idx = mp.idx /\ mp'.pos = mp.pos /\ mp'.error = mp.error
      /\ mp'.length = given /\ mp'.kind = "stream" /\ mp'.boundary = mp.boundary
      /\ mp'.state = state
  BY <1>1 DEF MultipartInv, MultipartType
<1>9. Unsent' /\ Announced' /\ ~mp.error /\ mp.wire = << >> /\ mp.idx = 1 /\ ~mp.pos
  BY <1>1, <1>8 DEF MultipartInv, Unsent, Announced
<1>10. SoFar(mp.parts, mp.boundary, 0) = << >>
  BY <1>2, EncodedType DEF SoFar
<1>11. WireFollows'
  <2>1. CASE state = "FinalBoundary"
    <3>1. Len(mp.parts) = 0
      BY <1>6, <2>1
    <3>2. QED
      BY <1>8, <1>9, <1>10, <2>1, <3>1 DEF WireFollows, AtBody
  <2>2. CASE state = "PartHeader"
    <3>1. 1 \in 1 .. Len(mp.parts)
      BY <1>2, <1>6, <2>2
    <3>2. mp'.idx - 1 = 0
      BY <1>8, <1>9
    <3>3. QED
      BY <1>8, <1>9, <1>10, <2>2, <3>1, <3>2 DEF WireFollows, AtBody
  <2>3. QED
    BY <1>5, <2>1, <2>2
<1>12. Framed'
  BY <1>1, <1>8, <1>9, <1>11 DEF Framed
<1>13. Counts(mp.length)'
  BY <1>3, <1>4, <1>8 DEF Counts
<1>14. QED
  BY <1>7, <1>8, <1>9, <1>12, <1>13 DEF MultipartInv

\* The request takes the body's length as its Content-Length or is refused.
LEMMA FramingKeepsInv ==
    ASSUME MultipartInv, NEW supplied, apply_content_length(supplied)
    PROVE  MultipartInv'
<1>1. mp.phase = "framing"
  BY DEF apply_content_length
<1>2. CASE mp' = [mp EXCEPT !.phase = "refused"]
  <2>1. MultipartType' /\ mp'.phase = "refused"
    BY <1>2 DEF MultipartInv, MultipartType
  <2>2. QED
    BY <2>1, EndedKeepsInv
<1>3. CASE mp' = [mp EXCEPT !.phase = "sending", !.header = mp.length]
  <2>1. MultipartType'
    BY <1>3 DEF MultipartInv, MultipartType
  <2>2. /\ mp'.phase = "sending" /\ mp'.announced = mp.announced /\ mp'.parts = mp.parts
        /\ mp'.wire = mp.wire /\ mp'.idx = mp.idx /\ mp'.pos = mp.pos /\ mp'.error = mp.error
        /\ mp'.header = mp.length /\ mp'.kind = mp.kind /\ mp'.boundary = mp.boundary
        /\ mp'.state = mp.state /\ mp'.left = mp.left
    BY <1>3 DEF MultipartInv, MultipartType
  <2>3. Announced /\ Framed /\ Counts(mp.length)
    BY <1>1 DEF MultipartInv
  <2>4. WireFollows => WireFollows'
    BY <2>2 DEF WireFollows, AtBody
  <2>5. Framed'
    BY <2>2, <2>3, <2>4 DEF Framed
  <2>6. Announced'
    BY <2>2, <2>3 DEF Announced
  <2>7. Counts(mp.header)'
    BY <2>2, <2>3 DEF Counts
  <2>8. QED
    BY <2>1, <2>2, <2>5, <2>6, <2>7 DEF MultipartInv, Unsent
<1>4. QED
  BY <1>2, <1>3 DEF apply_content_length

\* A step of the encoder keeps what concerns the whole form.
LEMMA PollingKeepsInv ==
    ASSUME MultipartInv, Polled, ~mp.error, MultipartType',
           mp'.phase = "sending", mp'.announced = mp.announced, mp'.parts = mp.parts,
           mp'.boundary = mp.boundary, mp'.kind = mp.kind, mp'.error = mp.error,
           mp'.header = mp.header, WireFollows'
    PROVE  MultipartInv'
<1>1. mp.phase = "sending"
  BY DEF Polled
<1>2. Announced /\ Framed /\ Counts(mp.header)
  BY <1>1 DEF MultipartInv
<1>3. Announced' /\ Framed' /\ Counts(mp.header)'
  BY <1>2 DEF Announced, Framed, Counts
<1>4. QED
  BY <1>3 DEF MultipartInv, Unsent

\* What a poll of an encoder that has not failed finds.
LEMMA PolledState ==
    ASSUME MultipartInv, Polled
    PROVE  /\ mp.parts \in Seq(FormPart) /\ mp.boundary \in FormBoundary /\ mp.wire \in Seq(TokenType)
           /\ mp.left \in Nat
           /\ mp.error => mp.state = "Done"
           /\ ~mp.error => WireFollows
BY DEF MultipartInv, MultipartType, Polled, Framed

\* A part's header follows what was sent before.
LEMMA HeaderKeepsInv ==
    ASSUME MultipartInv, PollHeader
    PROVE  MultipartInv'
<1> DEFINE x == Token("header", mp.idx, mp.boundary)
           size == mp.parts[mp.idx].size
           wire == Append(mp.wire, x)
<1>1. Polled /\ mp.state = "PartHeader" /\ ~mp.pos
      /\ mp' = [mp EXCEPT !.pos = TRUE, !.left = size, !.wire = wire]
  BY DEF PollHeader
<1>2. mp.parts \in Seq(FormPart) /\ mp.boundary \in FormBoundary /\ mp.wire \in Seq(TokenType)
      /\ ~mp.error /\ WireFollows
  BY <1>1, PolledState
<1>3. mp.idx \in 1 .. Len(mp.parts) /\ mp.wire = SoFar(mp.parts, mp.boundary, mp.idx - 1)
  BY <1>1, <1>2 DEF WireFollows
<1>4. size \in Nat
  <2>1. mp.parts[mp.idx] \in FormPart
    BY <1>2, <1>3
  <2>2. QED
    BY <1>2, <2>1, PartSizes
<1>5. x \in TokenType
  BY <1>2, <1>3 DEF Token, TokenType
<1>6. wire = HeaderOut(mp.parts, mp.boundary, mp.idx) /\ wire \in Seq(TokenType)
  <2> HIDE DEF x
  <2>1. wire = mp.wire \o <<x>> /\ wire \in Seq(TokenType)
    BY <1>2, <1>5, AppendIsConcat, AppendProperties
  <2>2. QED
    BY <1>3, <2>1, Zenon DEF HeaderOut, x
<1>7. wire = HeaderOut(mp.parts, mp.boundary, mp.idx) \o Data(mp.idx, size - size)
  <2>1. size - size = 0
    BY <1>4
  <2>2. HeaderOut(mp.parts, mp.boundary, mp.idx) \o Data(mp.idx, 0)
          = HeaderOut(mp.parts, mp.boundary, mp.idx)
    BY <1>2, <1>3, PartOnTheWire
  <2>3. QED
    BY <1>6, <2>1, <2>2, Zenon
<1>8. size <= size
  BY <1>4
<1> HIDE DEF wire, x
<1>9. MultipartType'
  BY <1>1, <1>4, <1>6, Zenon DEF MultipartInv, MultipartType
<1>10. /\ mp'.phase = mp.phase /\ mp'.announced = mp.announced /\ mp'.parts = mp.parts
       /\ mp'.boundary = mp.boundary /\ mp'.kind = mp.kind /\ mp'.error = mp.error
       /\ mp'.header = mp.header /\ mp'.state = mp.state /\ mp'.idx = mp.idx
       /\ mp'.pos /\ mp'.left = size /\ mp'.wire = wire
  BY <1>1 DEF MultipartInv, MultipartType
<1>11. WireFollows'
  BY <1>1, <1>3, <1>7, <1>8, <1>10 DEF WireFollows, AtBody
<1>12. QED
  BY <1>1, <1>2, <1>9, <1>10, <1>11, PollingKeepsInv DEF Polled

\* A chunk follows the chunks before it.
LEMMA BodyKeepsInv ==
    ASSUME MultipartInv, NEW n \in 1 .. LengthMax, PollBody(n)
    PROVE  MultipartInv'
<1> DEFINE i == mp.idx
           size == mp.parts[i].size
           H == HeaderOut(mp.parts, mp.boundary, i)
           wire == mp.wire \o Data(i, n)
           left == mp.left - n
           state == IF is_stream(mp.parts[i]) THEN "PartBody" ELSE "TrailingCrlf"
<1>0. n \in Nat
  BY MultipartAssumption
<1>1. Polled /\ AtBody /\ n <= mp.left /\ (~is_stream(mp.parts[i]) => n = mp.left)
      /\ mp' = [mp EXCEPT !.left = left, !.wire = wire, !.state = state]
  BY DEF PollBody
<1>2. mp.state \in {"PartBody", "PartHeader"}
  BY <1>1 DEF AtBody
<1>3. mp.parts \in Seq(FormPart) /\ mp.boundary \in FormBoundary /\ mp.wire \in Seq(TokenType)
      /\ mp.left \in Nat /\ ~mp.error /\ WireFollows
  BY <1>1, <1>2, PolledState
<1>4. i \in 1 .. Len(mp.parts) /\ mp.left <= size /\ mp.wire = H \o Data(i, size - mp.left)
  BY <1>1, <1>2, <1>3 DEF WireFollows
<1>5. size \in Nat
  <2>1. mp.parts[i] \in FormPart
    BY <1>3, <1>4
  <2>2. QED
    BY <1>3, <2>1, PartSizes
<1>6. state \in {"PartBody", "TrailingCrlf"} /\ (state = "TrailingCrlf" => n = mp.left)
  BY <1>1
<1> HIDE DEF size, i, state
<1>7. left \in Nat /\ size - mp.left \in Nat /\ (size - mp.left) + n = size - left
      /\ left <= size /\ (n = mp.left => size - left = size)
  BY <1>0, <1>1, <1>3, <1>4, <1>5, SMTT(60)
<1> HIDE DEF left
<1>8. wire = H \o Data(i, size - left) /\ size - left \in Nat
  <2>1. (H \o Data(i, size - mp.left)) \o Data(i, n) = H \o Data(i, (size - mp.left) + n)
    BY <1>0, <1>3, <1>4, <1>7, PartOnTheWire, ZenonT(60)
  <2>2. wire = (H \o Data(i, size - mp.left)) \o Data(i, n)
    BY <1>4, Zenon
  <2>3. size - left \in Nat
    BY <1>5, <1>7
  <2>4. QED
    BY <1>7, <2>1, <2>2, <2>3, Zenon
<1>9. wire \in Seq(TokenType)
  <2>1. H \o Data(i, size - left) \in Seq(TokensOf(mp.parts, mp.boundary))
    BY <1>3, <1>4, <1>8, PartOnTheWire
  <2>2. QED
    BY <1>8, <2>1, TokensAreTyped
<1>10. state = "TrailingCrlf" => wire = H \o Data(i, size)
  BY <1>6, <1>7, <1>8, Zenon
<1> HIDE DEF wire
<1>11. MultipartType'
  <2>1. state \in {"Done", "PartHeader", "PartBody", "TrailingCrlf", "FinalBoundary"}
    BY <1>6
  <2>2. QED
    BY <1>1, <1>7, <1>9, <2>1, Zenon DEF MultipartInv, MultipartType
<1>12. /\ mp'.phase = mp.phase /\ mp'.announced = mp.announced /\ mp'.parts = mp.parts
       /\ mp'.boundary = mp.boundary /\ mp'.kind = mp.kind /\ mp'.error = mp.error
       /\ mp'.header = mp.header /\ mp'.state = state /\ mp'.idx = i
       /\ mp'.pos = mp.pos /\ mp'.left = left /\ mp'.wire = wire
  BY <1>1 DEF MultipartInv, MultipartType, i
<1>13. WireFollows'
  BY <1>4, <1>6, <1>7, <1>8, <1>10, <1>12 DEF WireFollows, AtBody, size
<1>14. QED
  BY <1>1, <1>3, <1>11, <1>12, <1>13, PollingKeepsInv DEF Polled

\* A part's line end completes it.
LEMMA LineEndKeepsInv ==
    ASSUME MultipartInv, PollTrailingCrlf
    PROVE  MultipartInv'
<1> DEFINE i == mp.idx
           size == mp.parts[i].size
           H == HeaderOut(mp.parts, mp.boundary, i)
           z == Token("line", i, NoBoundary)
           wire == Append(mp.wire, z)
<1>1. /\ Polled /\ (mp.state = "TrailingCrlf" \/ (AtBody /\ mp.left = 0))
      /\ \/ /\ i < Len(mp.parts)
            /\ mp' = [mp EXCEPT !.wire = wire, !.idx = i + 1, !.state = "PartHeader", !.pos = FALSE]
         \/ /\ ~(i < Len(mp.parts))
            /\ mp' = [mp EXCEPT !.wire = wire, !.state = "FinalBoundary"]
  <2>1. mp \in [DOMAIN mp -> {mp[f] : f \in DOMAIN mp}] /\ mp.idx = i
    BY DEF MultipartInv, MultipartType
  <2>2. QED
    BY <2>1 DEF PollTrailingCrlf, MultipartInv, MultipartType
<1>2. mp.state \in {"PartBody", "PartHeader", "TrailingCrlf"}
  BY <1>1 DEF AtBody
<1>3. mp.parts \in Seq(FormPart) /\ mp.boundary \in FormBoundary /\ mp.wire \in Seq(TokenType)
      /\ ~mp.error /\ WireFollows
  BY <1>1, <1>2, PolledState
<1>4. i \in 1 .. Len(mp.parts)
  BY <1>2, <1>3 DEF WireFollows
<1>5. size \in Nat /\ size - 0 = size
  <2>1. mp.parts[i] \in FormPart
    BY <1>3, <1>4
  <2>2. size \in Nat
    BY <1>3, <2>1, PartSizes
  <2>3. QED
    BY <2>2
<1>6. mp.wire = H \o Data(i, size)
  <2>1. CASE mp.state = "TrailingCrlf"
    BY <1>3, <2>1 DEF WireFollows
  <2>2. CASE AtBody /\ mp.left = 0
    <3>1. mp.wire = H \o Data(i, size - mp.left)
      BY <1>3, <2>2 DEF WireFollows
    <3>2. QED
      BY <1>5, <2>2, <3>1, Zenon
  <2>3. QED
    BY <1>1, <2>1, <2>2
<1>7. z \in TokenType
  BY <1>4 DEF Token, TokenType
<1>8. wire = SoFar(mp.parts, mp.boundary, i) /\ wire \in Seq(TokenType)
  <2>1. (H \o Data(i, size)) \o <<z>> = SoFar(mp.parts, mp.boundary, i)
    BY <1>3, <1>4, PartOnTheWire
  <2> HIDE DEF z
  <2>2. wire = mp.wire \o <<z>> /\ wire \in Seq(TokenType)
    BY <1>3, <1>7, AppendIsConcat, AppendProperties
  <2>3. QED
    BY <1>6, <2>1, <2>2, Zenon
<1> HIDE DEF wire
<1>9. CASE /\ i < Len(mp.parts)
           /\ mp' = [mp EXCEPT !.wire = wire, !.idx = i + 1, !.state = "PartHeader", !.pos = FALSE]
  <2> DEFINE j == i + 1
  <2>1. j \in 1 .. Len(mp.parts) /\ j \in Nat /\ j - 1 = i
    BY <1>4, <1>9
  <2>2. mp' = [mp EXCEPT !.wire = wire, !.idx = j, !.state = "PartHeader", !.pos = FALSE]
    BY <1>9
  <2> HIDE DEF j, i
  <2>3. MultipartType'
    BY <1>8, <2>1, <2>2, Zenon DEF MultipartInv, MultipartType
  <2>4. /\ mp'.phase = mp.phase /\ mp'.announced = mp.announced /\ mp'.parts = mp.parts
        /\ mp'.boundary = mp.boundary /\ mp'.kind = mp.kind /\ mp'.error = mp.error
        /\ mp'.header = mp.header /\ mp'.state = "PartHeader" /\ mp'.idx = j
        /\ ~mp'.pos /\ mp'.wire = wire
    BY <2>2 DEF MultipartInv, MultipartType
  <2>5. WireFollows'
    <3>1. mp'.wire = SoFar(mp'.parts, mp'.boundary, mp'.idx - 1)
      BY <1>8, <2>1, <2>4, Zenon
    <3>2. QED
      BY <2>1, <2>4, <3>1 DEF WireFollows, AtBody
  <2>6. QED
    BY <1>1, <1>3, <2>3, <2>4, <2>5, PollingKeepsInv DEF Polled
<1>10. CASE /\ ~(i < Len(mp.parts))
            /\ mp' = [mp EXCEPT !.wire = wire, !.state = "FinalBoundary"]
  <2>1. i = Len(mp.parts)
    BY <1>4, <1>10
  <2>2. MultipartType'
    BY <1>8, <1>10 DEF MultipartInv, MultipartType
  <2>3. /\ mp'.phase = mp.phase /\ mp'.announced = mp.announced /\ mp'.parts = mp.parts
        /\ mp'.boundary = mp.boundary /\ mp'.kind = mp.kind /\ mp'.error = mp.error
        /\ mp'.header = mp.header /\ mp'.state = "FinalBoundary" /\ mp'.wire = wire
    BY <1>10 DEF MultipartInv, MultipartType
  <2>4. WireFollows'
    BY <1>8, <2>1, <2>3 DEF WireFollows, AtBody
  <2>5. QED
    BY <1>1, <1>3, <2>2, <2>3, <2>4, PollingKeepsInv DEF Polled
<1>11. QED
  BY <1>1, <1>9, <1>10

\* The final boundary completes the encoding.
LEMMA FinalKeepsInv ==
    ASSUME MultipartInv, PollFinal
    PROVE  MultipartInv'
<1> DEFINE x == Token("final", 0, mp.boundary)
           wire == Append(mp.wire, x)
<1>1. Polled /\ mp.state = "FinalBoundary"
      /\ mp' = [mp EXCEPT !.state = "Done", !.wire = wire]
  BY DEF PollFinal
<1>2. mp.parts \in Seq(FormPart) /\ mp.boundary \in FormBoundary /\ mp.wire \in Seq(TokenType)
      /\ ~mp.error /\ WireFollows
  BY <1>1, PolledState
<1>3. mp.wire = SoFar(mp.parts, mp.boundary, Len(mp.parts))
  BY <1>1, <1>2 DEF WireFollows
<1>4. x \in TokenType
  BY <1>2 DEF Token, TokenType
<1>5. wire = Encoded(mp.parts, mp.boundary) /\ wire \in Seq(TokenType)
  <2> HIDE DEF x
  <2>1. wire = mp.wire \o <<x>> /\ wire \in Seq(TokenType)
    BY <1>2, <1>4, AppendIsConcat, AppendProperties
  <2>2. QED
    BY <1>3, <2>1, Zenon DEF SoFar, Encoded, x
<1> HIDE DEF wire
<1>6. MultipartType'
  BY <1>1, <1>5 DEF MultipartInv, MultipartType
<1>7. /\ mp'.phase = mp.phase /\ mp'.announced = mp.announced /\ mp'.parts = mp.parts
      /\ mp'.boundary = mp.boundary /\ mp'.kind = mp.kind /\ mp'.error = mp.error
      /\ mp'.header = mp.header /\ mp'.state = "Done" /\ mp'.wire = wire
  BY <1>1 DEF MultipartInv, MultipartType
<1>8. WireFollows'
  BY <1>5, <1>7 DEF WireFollows, AtBody
<1>9. QED
  BY <1>1, <1>2, <1>6, <1>7, <1>8, PollingKeepsInv DEF Polled

\* A body was sent when its buffer or all of its encoder was.
LEMMA SentKeepsInv ==
    ASSUME MultipartInv, SendBuffer \/ PollDone
    PROVE  MultipartInv'
<1>1. mp.phase = "sending" /\ Announced /\ Framed /\ Counts(mp.header)
      /\ mp.parts \in Seq(FormPart) /\ mp.boundary \in FormBoundary
  BY DEF MultipartInv, MultipartType, SendBuffer, PollDone, Polled
<1> DEFINE wire == Encoded(mp.parts, mp.boundary)
<1>2. wire \in Seq(TokenType)
  BY <1>1, EncodedType, TokensAreTyped
<1>3. ~mp.error /\ mp'.wire = wire /\ mp'.phase = "sent"
      /\ mp'.announced = mp.announced /\ mp'.parts = mp.parts /\ mp'.boundary = mp.boundary
      /\ mp'.header = mp.header /\ MultipartType'
  <2>1. CASE SendBuffer
    <3>1. ~mp.error
      BY <1>1, <2>1 DEF SendBuffer, Framed
    <3>2. mp' = [mp EXCEPT !.phase = "sent", !.wire = wire]
      BY <2>1 DEF SendBuffer
    <3> HIDE DEF wire
    <3>3. QED
      BY <1>2, <3>1, <3>2 DEF MultipartInv, MultipartType
  <2>2. CASE PollDone
    <3>1. ~mp.error /\ mp' = [mp EXCEPT !.phase = "sent"] /\ mp.wire = wire
      BY <1>1, <2>2 DEF PollDone, Polled, Framed, WireFollows
    <3> HIDE DEF wire
    <3>2. QED
      BY <3>1 DEF MultipartInv, MultipartType
  <2>3. QED
    BY <2>1, <2>2
<1>4. ~Collides(mp.parts, mp.boundary)
  BY <1>1, <1>3 DEF Framed
<1>5. Announced' /\ Counts(mp.header)'
  BY <1>1, <1>3 DEF Announced, Counts
<1>6. QED
  BY <1>3, <1>4, <1>5 DEF MultipartInv, Unsent

\* A body that failed is not sent.
LEMMA FailingKeepsInv ==
    ASSUME MultipartInv, PollError \/ PollBodyFails
    PROVE  MultipartInv'
<1>1. MultipartType' /\ mp'.phase = "failed"
  BY DEF MultipartInv, MultipartType, PollError, PollBodyFails
<1>2. QED
  BY <1>1, EndedKeepsInv

LEMMA MultipartInitInv == MultipartInit => MultipartInv
<1>1. ASSUME NEW b \in FormBoundary, NEW c \in {"rust", "python"}, mp = MultipartStart(b, c)
      PROVE  MultipartInv
  <2>1. MultipartType
    BY <1>1, UnknownIsNat DEF MultipartType, MultipartStart
  <2>2. mp.phase = "form" /\ mp.announced \in {NoBoundary, mp.boundary} /\ mp.wire = << >>
        /\ mp.idx = 1 /\ ~mp.pos /\ ~mp.error /\ mp.length = Unknown
    BY <1>1 DEF MultipartStart
  <2>3. QED
    BY <2>1, <2>2 DEF MultipartInv, Unsent
<1>2. random \subseteq FormBoundary /\ Pinned \subseteq FormBoundary
  BY MultipartAssumption DEF random
<1>3. QED
  BY <1>1, <1>2 DEF MultipartInit

LEMMA MultipartStepInv == MultipartInv /\ [MultipartNext]_multipartVars => MultipartInv'
<1> SUFFICES ASSUME MultipartInv, [MultipartNext]_multipartVars PROVE MultipartInv'
  OBVIOUS
<1>1. CASE \E p \in PartInputs : AddPart(p) \/ add_form_fields(p)
  BY <1>1, AddingKeepsInv DEF AddPart, add_form_fields
<1>2. CASE \E p \in PartInputs, readable \in BOOLEAN : add_file_parts(p, readable)
  BY <1>2, AddingKeepsInv DEF add_file_parts
<1>3. CASE \E k \in {"body", "encoder"} : into_body(k)
  BY <1>3, CheckingKeepsInv
<1>4. CASE \E b \in random : ensure_no_boundary_collision(b)
  BY <1>4, RedrawKeepsInv
<1>5. CASE EncoderError
  BY <1>5, GivingUpKeepsInv
<1>6. CASE Buffered
  BY <1>6, BufferingKeepsInv
<1>7. CASE NewEncoder
  BY <1>7, EncoderKeepsInv
<1>8. CASE \E n \in UserLengths \cup {Unknown} : apply_content_length(n)
  BY <1>8, FramingKeepsInv
<1>9. CASE SendBuffer \/ PollDone
  BY <1>9, SentKeepsInv
<1>10. CASE PollError \/ PollBodyFails
  BY <1>10, FailingKeepsInv
<1>11. CASE PollHeader
  BY <1>11, HeaderKeepsInv
<1>12. CASE \E n \in 1 .. LengthMax : PollBody(n)
  BY <1>12, BodyKeepsInv
<1>13. CASE PollTrailingCrlf
  BY <1>13, LineEndKeepsInv
<1>14. CASE PollFinal
  BY <1>14, FinalKeepsInv
<1>15. CASE UNCHANGED multipartVars
  <2>1. mp' = mp
    BY <1>15 DEF multipartVars
  <2>2. QED
    BY <2>1 DEF MultipartInv, MultipartType, Unsent, Announced, Framed, WireFollows, AtBody, Counts
<1>16. QED
  BY <1>1, <1>2, <1>3, <1>4, <1>5, <1>6, <1>7, <1>8, <1>9, <1>10, <1>11, <1>12, <1>13, <1>14, <1>15
     DEF MultipartNext

\* The invariant of a multipart body: where the encoder stands in the form says what is on the
\* wire, the boundary was checked before anything was sent, and a known length is the encoding's.
THEOREM MultipartInvariant == MultipartSpec => []MultipartInv
<1>1. MultipartInit => MultipartInv
  BY MultipartInitInv
<1>2. MultipartInv /\ [MultipartNext]_multipartVars => MultipartInv'
  BY MultipartStepInv
<1>3. QED
  BY <1>1, <1>2, PTL DEF MultipartSpec

\* A form that was sent whole (MultipartEncoder::poll_next and into_body, multipart.rs) is the
\* buffered encoding of its parts under a boundary none of its buffered parts contains, and its
\* Content-Length is what was sent, for every form.
THEOREM FormsAreEncoded == MultipartSpec => []EncodedAsDeclared
<1>1. MultipartInv => EncodedAsDeclared
  BY DEF MultipartInv, Announced, Counts, Exact, EncodedAsDeclared
<1>2. QED
  BY <1>1, MultipartInvariant, PTL
=============================================================================
