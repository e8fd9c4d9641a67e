------------------------------ MODULE Exchange ------------------------------
(***************************************************************************)
(* One request on a Hyper connection, from the call to the response head:  *)
(* the upload with its per-chunk write timeout (stream/write_timeout.rs),  *)
(* the completion signal of the request body (transport/mod.rs), the read  *)
(* deadline that starts there (transport/direct.rs) and the total deadline *)
(* around all of it (pipeline/mod.rs).                                     *)
(*                                                                         *)
(* Hyper's connection task and the caller's future run side by side, and   *)
(* the caller may be polled late: the clock moves whenever it likes.       *)
(***************************************************************************)
EXTENDS Naturals

CONSTANTS Horizon,        \* bound: the clock
          LatestStep,     \* bound: when the upload may still go on
          Exchanges       \* the requests considered, a subset of ExchangePlan

Unset == 2 * Horizon + 1  \* "no timeout configured", later than any timer

ExchangePlan == [chunks : Nat, read : 1 .. Unset, write : 1 .. Unset, deadline : 1 .. Unset]

ASSUME ExchangeAssumption == Horizon \in Nat /\ Exchanges \subseteq ExchangePlan

VARIABLES xplan, ex

exchangeVars == <<xplan, ex>>

\* What the sending half has done (chunk of chunks produced, since when the
\* next one is awaited, its timer), what the completion channel carries, what
\* Hyper's send future holds, and what the caller awaits.
ExchangeState ==
    [now : 0 .. Horizon, link : {"connecting", "up"}, chunk : Nat, asked : 0 .. Unset,
     writeLimit : 0 .. Unset, upload : {"waiting", "sending", "done", "failed"},
     completion : {"open", "sent", "dropped"}, sentAt : 0 .. Horizon,
     sending : {"pending", "head", "writeTimeout", "error"},
     caller : {"upload", "send", "read", "done"}, readLimit : 0 .. Unset,
     result : {"none", "head", "error", "read", "write", "total"}]

After(t, d) == IF d = Unset THEN Unset ELSE t + d

ExchangeStart ==
    [now |-> 0, link |-> "connecting", chunk |-> 0, asked |-> Unset, writeLimit |-> Unset,
     upload |-> "waiting", completion |-> "open", sentAt |-> 0, sending |-> "pending",
     caller |-> "upload", readLimit |-> Unset, result |-> "none"]

ExchangeInit == xplan \in Exchanges /\ ex = ExchangeStart
-----------------------------------------------------------------------------
(* Hyper's side. *)

\* Mutant: the channel is never told.
mark_complete_unsent(state) ==
    [state EXCEPT !.upload = "done", !.sentAt = state.now, !.asked = Unset, !.writeLimit = Unset]

\* The completion channel fires once, when the body is seen to have ended: by
\* its last frame, or by an is_end_stream that finds it empty.
mark_complete(state) ==
    [state EXCEPT !.upload = "done", !.completion = "sent", !.sentAt = state.now,
                  !.asked = Unset, !.writeLimit = Unset]

\* The body is asked for its first chunk; an empty one has ended already.
start_timer(now) == After(now, xplan.write)
FirstPoll(state) ==
    [state EXCEPT !.upload = "sending", !.asked = state.now, !.writeLimit = start_timer(state.now)]

LinkUp ==
    /\ ex.link = "connecting" /\ ex.sending = "pending" /\ ex.now <= LatestStep
    /\ LET up == [ex EXCEPT !.link = "up"]
       IN  ex' = IF xplan.chunks = 0 THEN mark_complete(up) ELSE FirstPoll(up)
    /\ UNCHANGED xplan

\* The frame that ends the body marks it complete.
Ended(state) == IF state.chunk = xplan.chunks THEN mark_complete(state) ELSE state

ChunkProduced ==
    /\ ex.upload = "sending" /\ ex.sending \in {"pending", "head"} /\ ex.now <= LatestStep
    /\ LET next == [ex EXCEPT !.chunk = @ + 1, !.asked = ex.now,
                              !.writeLimit = After(ex.now, xplan.write)]
       IN  ex' = Ended(next)
    /\ UNCHANGED xplan

\* Nothing came in time: the body yields a write timeout, Hyper gives up and
\* the completion sender is dropped.
ChunkTimesOut ==
    /\ ex.upload = "sending" /\ ex.writeLimit <= ex.now
    /\ ex' = [ex EXCEPT !.upload = "failed", !.completion = "dropped",
                        !.sending = IF @ = "head" THEN @ ELSE "writeTimeout",
                        !.writeLimit = Unset, !.asked = Unset]
    /\ UNCHANGED xplan

\* The server may answer before the upload has ended.
HeadArrives ==
    /\ ex.link = "up" /\ ex.sending = "pending"
    /\ ex' = [ex EXCEPT !.sending = "head"]
    /\ UNCHANGED xplan

\* The connection, or the attempt to make one, fails; map_send_error turns
\* what Hyper reports into one error of the client.
SendFails ==
    /\ ex.sending = "pending"
    /\ ex' = [ex EXCEPT !.sending = "error", !.upload = IF @ = "done" THEN @ ELSE "failed",
                        !.completion = IF @ = "open" THEN "dropped" ELSE @]
    /\ UNCHANGED xplan
-----------------------------------------------------------------------------
(* The caller's side: send_with_read_timeout. *)

Finish(r) == [ex EXCEPT !.caller = "done", !.result = r]
map_send_error(s) == CASE s = "head" -> "head" [] s = "writeTimeout" -> "write" [] OTHER -> "error"
SendFuture == Finish(map_send_error(ex.sending))

\* Mutant: the read deadline counts from the start of the request.
read_deadline_from_start == After(0, xplan.read)

read_deadline == After(ex.sentAt, xplan.read)

\* The upload has ended: the read deadline counts from the instant the body
\* reported, unless the total deadline comes first or at the same time.
OuterTotalOwns(limit) == xplan.deadline <= limit
UploadEnded ==
    IF OuterTotalOwns(read_deadline) THEN [ex EXCEPT !.caller = "send"]
    ELSE IF ex.now >= read_deadline THEN Finish("read")
    ELSE [ex EXCEPT !.caller = "read", !.readLimit = read_deadline]

\* The first select is biased towards the send future.
PollUpload ==
    /\ ex.caller = "upload"
    /\ \/ ex.sending # "pending" /\ ex' = SendFuture
       \/ ex.sending = "pending" /\ xplan.read # Unset /\ ex.completion = "sent"
          /\ ex' = UploadEnded
       \/ ex.sending = "pending" /\ xplan.read # Unset /\ ex.completion = "dropped"
          /\ ex' = [ex EXCEPT !.caller = "send"]
    /\ UNCHANGED xplan

PollSend ==
    /\ ex.caller = "send" /\ ex.sending # "pending"
    /\ ex' = SendFuture
    /\ UNCHANGED xplan

\* The second select is biased towards the deadline, and a head that is found
\* at or after it does not count.
PollRead ==
    /\ ex.caller = "read"
    /\ \/ ex.readLimit <= ex.now /\ ex' = Finish("read")
       \/ ex.readLimit > ex.now /\ ex.sending # "pending" /\ ex' = SendFuture
    /\ UNCHANGED xplan

\* send_with_total_timeout drops the future; Hyper's side goes with it.
TotalExpires ==
    /\ ex.caller # "done" /\ xplan.deadline <= ex.now
    /\ ex' = Finish("total")
    /\ UNCHANGED xplan

ExchangeTick ==
    /\ ex.caller # "done" /\ ex.now < Horizon
    /\ ex' = [ex EXCEPT !.now = @ + 1]
    /\ UNCHANGED xplan

ExchangeNext ==
    \/ LinkUp \/ ChunkProduced \/ ChunkTimesOut \/ HeadArrives \/ SendFails
    \/ PollUpload \/ PollSend \/ PollRead \/ TotalExpires \/ ExchangeTick

ExchangeSpec == ExchangeInit /\ [][ExchangeNext]_exchangeVars

\* Time passes, and the runtime polls both sides and serves their timers; the
\* server and the producer of the body owe nothing.
ExchangeFairness ==
    /\ WF_exchangeVars(ChunkTimesOut) /\ WF_exchangeVars(PollUpload)
    /\ WF_exchangeVars(PollSend) /\ WF_exchangeVars(PollRead)
    /\ WF_exchangeVars(TotalExpires) /\ WF_exchangeVars(ExchangeTick)
-----------------------------------------------------------------------------
(* PhaseTimeoutIsEarned: a read timeout is reported only when the whole upload *)
(* has gone out and the read budget has passed since that instant, never       *)
(* because of time spent connecting or uploading and never in place of a       *)
(* total deadline that comes first (direct.rs, send_with_read_timeout); and    *)
(* the write timer of a chunk fires only after the producer was asked for that *)
(* chunk and given the whole write budget, although the wrapper exists before  *)
(* the connection does (write_timeout.rs, poll_next).                          *)
PhaseTimeoutIsEarned ==
    [][/\ ex'.result = "read" => /\ ex'.completion = "sent"
                                 /\ ex'.now >= ex'.sentAt + xplan.read
                                 /\ xplan.deadline > ex'.sentAt + xplan.read
       /\ ex'.upload = "failed" /\ ex'.sending # "error" /\ ex.upload = "sending"
              => ex.now >= ex.asked + xplan.write]_exchangeVars

(* HeadWaitEnds: once the upload has ended, a request with a read timeout or a *)
(* total deadline comes to an end whatever the server does.                    *)
HeadWaitEnds ==
    (ex.upload = "done" /\ (xplan.read # Unset \/ xplan.deadline # Unset)) ~> ex.caller = "done"
=============================================================================
