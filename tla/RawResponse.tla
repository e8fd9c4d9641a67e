---------------------------- MODULE RawResponse ----------------------------
(***************************************************************************)
(* The response of a request that was written by hand through a CONNECT    *)
(* tunnel (send_https_connect_request_once in transport/connect.rs, with   *)
(* read_proxy_response and response_content_length of transport/proxy.rs): *)
(* the head is read through a BufReader, the reader is taken apart, and    *)
(* TlsProxyResponseStream hands out first what the reader had read too far *)
(* and then what the connection still brings.  ProxyResponseStream, for a  *)
(* forwarded request without Hyper, is the same stream.                    *)
(*                                                                         *)
(* Body bytes are numbered in the order the peer writes them.  The peer    *)
(* may stop at any point and may end the connection with a close_notify,   *)
(* without one, or with an I/O error.                                      *)
(***************************************************************************)
EXTENDS Naturals, Sequences, SequencesExt

CONSTANTS PeerWrites,   \* bound: body bytes the peer writes
          Heads         \* the heads considered: [lengths, chunked]

\* A Content-Length that does not parse, and the absence of a length.
BadLength == PeerWrites + 2
NoLength == PeerWrites + 1

VARIABLE rw

rawVars == <<rw>>

RawStart(head) == [head |-> head, stage |-> "head", wire |-> << >>, written |-> 0, close |-> "open",
                   initial |-> << >>, expected |-> NoLength, delivered |-> << >>]

RawInit == \E h \in Heads : rw = RawStart(h)

(***************************************************************************)
(* The peer.                                                               *)
(***************************************************************************)
PeerWritesByte ==
    /\ rw.close = "open" /\ rw.written < PeerWrites
    /\ rw' = [rw EXCEPT !.written = @ + 1, !.wire = Append(@, rw.written + 1)]

PeerCloses(how) ==
    /\ rw.close = "open"
    /\ rw' = [rw EXCEPT !.close = how]

(***************************************************************************)
(* The head.                                                               *)
(***************************************************************************)
\* Repeats of one Content-Length are tolerated; a mismatch, or a later value
\* that does not parse, leaves no length to trust, and so does chunked coding.
MergeLength(known, length) ==
    CASE known = NoLength -> IF length = BadLength THEN NoLength ELSE length
      [] known # NoLength /\ known = length -> known
      [] OTHER -> BadLength
response_content_length(head) ==
    LET merged == FoldLeft(LAMBDA known, length :
                              IF known = BadLength THEN BadLength ELSE MergeLength(known, length),
                           NoLength, head.lengths)
    IN  IF head.chunked \/ merged = BadLength THEN NoLength ELSE merged

\* A declared length is an Option<u64>.
ASSUME RawAssumption == PeerWrites \in Nat /\ \A h \in Heads : response_content_length(h) \in Nat

\* Mutant: what the reader had read too far is lost with it.
KeepNothing(k) == << >>

\* The k bytes the BufReader holds beyond the head are drained out of it
\* before it is taken apart.
KeepBuffered(k) == SubSeq(rw.wire, 1, k)
read_proxy_response(k) ==
    /\ rw.stage = "head" /\ k <= Len(rw.wire)
    /\ rw' = [rw EXCEPT !.stage = "body", !.initial = KeepBuffered(k),
                        !.wire = SubSeq(@, k + 1, Len(@)),
                        !.expected = response_content_length(rw.head)]

\* read_bounded_line: the connection ends, a line or the head is too long.
HeadFails ==
    /\ rw.stage = "head"
    /\ rw' = [rw EXCEPT !.stage = "failed"]

(***************************************************************************)
(* poll_next.                                                              *)
(***************************************************************************)
body_is_complete(state) == state.expected <= Len(state.delivered)

PollInitial ==
    /\ rw.stage = "body" /\ rw.initial # << >>
    /\ rw' = [rw EXCEPT !.delivered = @ \o rw.initial, !.initial = << >>]

PollSocket(n) ==
    /\ rw.stage = "body" /\ rw.initial = << >> /\ n \in 1 .. Len(rw.wire)
    /\ rw' = [rw EXCEPT !.delivered = @ \o SubSeq(rw.wire, 1, n),
                        !.wire = SubSeq(@, n + 1, Len(@))]

\* UnexpectedEof, a connection that ends without a close_notify.
AbruptEnd ==
    IF rw.expected # NoLength /\ ~body_is_complete(rw) THEN "truncated" ELSE "ended"

PollEnd ==
    /\ rw.stage = "body" /\ rw.initial = << >> /\ rw.wire = << >> /\ rw.close # "open"
    /\ rw' = [rw EXCEPT !.stage = CASE rw.close = "notify" -> "ended"
                                    [] rw.close = "abrupt" -> AbruptEnd
                                    [] rw.close = "error"  -> "failed"]

RawNext ==
    \/ PeerWritesByte
    \/ \E how \in {"notify", "abrupt", "error"} : PeerCloses(how)
    \/ \E k \in 0 .. PeerWrites : read_proxy_response(k) \/ PollSocket(k)
    \/ HeadFails
    \/ PollInitial
    \/ PollEnd

RawSpec == RawInit /\ [][RawNext]_rawVars
-----------------------------------------------------------------------------
(* SwitchLosesNoByte: what the caller got is what the peer wrote, from its     *)
(* first byte and without a gap, and a body that ended without an error is     *)
(* all of it: taking the BufReader apart after the head (connect.rs, :643)     *)
(* must not lose the bytes it had already read.  A connection that ends        *)
(* without a close_notify fails a body with a declared length exactly when     *)
(* bytes of it are missing.                                                    *)
SwitchLosesNoByte ==
    /\ \A i \in DOMAIN rw.delivered : rw.delivered[i] = i
    /\ rw.stage \in {"ended", "truncated"} => Len(rw.delivered) = rw.written
    /\ rw.close = "abrupt" /\ rw.stage \in {"ended", "truncated"} /\ rw.expected # NoLength =>
           (rw.stage = "truncated" <=> rw.written < rw.expected)
=============================================================================
