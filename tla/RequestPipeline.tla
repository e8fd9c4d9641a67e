-------------------------- MODULE RequestPipeline --------------------------
(***************************************************************************)
(* One logical request through the policy layers of eggfetch-core:         *)
(* pipeline/retry.rs (attempts, budgets, backoff) around                   *)
(* pipeline/redirect.rs (hops, credential and body policy) around          *)
(* pipeline/hop.rs and prepare.rs (headers, admission, deadlines) around a *)
(* transport that answers, fails, or stays silent.                         *)
(*                                                                         *)
(* Time passes only where the code awaits: for a pool slot, for the        *)
(* transport, while a discarded body is drained, and during a backoff.     *)
(* due is when the await's own timer fires.  The pool has one slot that    *)
(* other requests compete for.  A URL is its origin.  A dispatch may begin *)
(* over HTTP/3 and go on over TCP (pipeline/h3_dispatch.rs); whether an    *)
(* alternative is known and which failures allow that is AltSvc's matter.  *)
(***************************************************************************)
EXTENDS Integers, FiniteSets

CONSTANTS Origins, Home,     \* the origins there are; the one the request is for
          Secure,            \* the https origins
          Requests,          \* the requests to try: a set of records, see RequestType
          RetryMethods,      \* methods the retry policy may retry
          MaxAttempts,       \* RetryPolicy::max_attempts (1: no retries)
          MaxElapsed,        \* RetryPolicy::max_elapsed (Never: none)
          MaxDelay,          \* cap on a backoff or Retry-After delay
          MaxRedirects,      \* RedirectPolicy::max_redirects
          PoolTimeout,       \* Timeout::pool (Never: none)
          DrainCap,          \* min(read timeout, DRAIN_MAX_TIME)
          MaxTime,           \* bound: the clock stops here unless a timer is running
          Never, NoOrigin

\* Times may be Never.
Times == Nat \cup {Never}

\* method and body of the request; auth: an Authorization header of the caller
\* ("manual"), a configured scheme, or both; cookie: the caller set a Cookie
\* header; pinned: a resolved target; total: the request's own total timeout;
\* clientTotal: the client's; deny: RedirectDowngradePolicy::Deny; h3: the client
\* uses an HTTP/3 alternative where it knows one (HttpVersionPolicy::Auto).
RequestType ==
    [method : {"GET", "POST", "HEAD"}, body : {"empty", "bytes", "stream"},
     auth : {"none", "manual", "scheme", "both"}, cookie : BOOLEAN, pinned : BOOLEAN,
     follow : BOOLEAN, deny : BOOLEAN, h3 : BOOLEAN, total : Times, clientTotal : Times]

ASSUME PipelineAssumption ==
    /\ Home \in Origins /\ NoOrigin \notin Origins /\ Secure \subseteq Origins
    /\ Requests \subseteq RequestType
    /\ MaxAttempts \in Nat \ {0} /\ MaxRedirects \in Nat /\ MaxDelay \in Nat /\ DrainCap \in Nat
    /\ MaxElapsed \in Times /\ PoolTimeout \in Times
    /\ MaxTime \in Nat /\ Never \notin Nat

VARIABLES now,      \* the clock; the request is sent at time 0
          conf,     \* the request
          pc,       \* where the policy layers are
          attempt,  \* attempts begun
          hop,      \* the redirect loop's locals, see HopType
          due,      \* when the current await's timer fires
          held,     \* the request owns the pool slot (in the pipeline or a response body)
          others,   \* another request owns it
          jar,      \* origins the cookie jar has a cookie for
          answer,   \* the response in hand
          wire,     \* the last request given to the transport
          trail,    \* what happened so far, for the properties
          result    \* how an attempt, or the request, ended

vars == <<now, conf, pc, attempt, hop, due, held, others, jar, answer, wire, trail, result>>
hopVars == <<attempt, hop, jar, wire, trail>>

\* Redirect statuses by what they do to the method and the body.
Redirects == {"moved", "seeOther", "temporary"}
Statuses == {"ok", "unavailable", "notFound"} \cup Redirects
\* A Location is an origin, is missing, is not text, or is a URL that is refused
\* (another scheme, userinfo, no URL at all).
Locations == Origins \cup {"missing", "invalid", "badUrl"}

\* Errors of an attempt that RetryPolicy::is_error_retryable accepts.
RetryableErrors == {"pool", "connect"}
Failures == RetryableErrors \cup
            {"fatal", "total", "resolvedTarget", "conflict", "tooMany", "notReplayable",
             "downgrade", "badLocation", "budget"}

\* origin, prev: cur_url and prev_url; body: what cur_body holds; replay:
\* replay_body holds the bytes; manual, cookie: headers still in cur_headers.
HopType ==
    [origin : Origins, prev : Origins \cup {NoOrigin}, method : {"GET", "POST", "HEAD"},
     body : {"empty", "bytes", "stream"}, replay : {"none", "empty", "bytes"},
     manual : BOOLEAN, cookie : BOOLEAN, credentials : BOOLEAN, cookies : BOOLEAN,
     count : Nat, deadline : Times]

\* over: the transport; left: remaining_total of an HTTP/3 attempt.
WireType ==
    [origin : Origins \cup {NoOrigin}, auth : BOOLEAN, cookie : BOOLEAN, jar : BOOLEAN,
     pinned : BOOLEAN, body : {"empty", "bytes", "stream"},
     over : {"tcp", "h3", "fallback"}, left : Times]

\* The pcs at which the code awaits.
Awaits == {"acquire", "dispatch", "drainHop", "drainRetry", "backoff"}

Earlier(a, b) == IF a = Never THEN b ELSE IF b = Never \/ a <= b THEN a ELSE b
After(d) == IF d = Never THEN Never ELSE now + d
Remaining(t) == IF t = Never THEN Never ELSE t - now
Passed(t) == t # Never /\ now >= t

\* RequestParts of the request, as the first hop of an attempt that must end by
\* deadline.
FirstHop(deadline) ==
    [origin |-> Home, prev |-> NoOrigin, method |-> conf.method, body |-> conf.body,
     replay |-> IF conf.body = "stream" THEN "none" ELSE conf.body,
     manual |-> conf.auth \in {"manual", "both"}, cookie |-> conf.cookie,
     credentials |-> TRUE, cookies |-> TRUE, count |-> 0, deadline |-> deadline]

Init == /\ now = 0
        /\ conf \in Requests
        /\ pc = "send"
        /\ attempt = 0
        /\ hop = FirstHop(Never)
        /\ due = Never
        /\ held = FALSE
        /\ others \in BOOLEAN
        /\ jar \in SUBSET Origins
        /\ answer = [status |-> "ok", location |-> "missing", retryAfter |-> FALSE]
        /\ wire = [origin |-> NoOrigin, auth |-> FALSE, cookie |-> FALSE, jar |-> FALSE,
                   pinned |-> FALSE, body |-> "empty", over |-> "tcp", left |-> Never]
        /\ trail = [sends |-> 0, streams |-> 0, left |-> FALSE, dropped |-> FALSE,
                    secure |-> FALSE]
        /\ result = "none"

-----------------------------------------------------------------------------
(* The clock and the other users of the pool. *)

Tick == /\ pc \in Awaits
        /\ now < MaxTime \/ due # Never
        /\ ~Passed(due)
        /\ now' = now + 1
        /\ UNCHANGED <<conf, pc, hopVars, due, held, others, answer, result>>

OthersTake == /\ ~held /\ ~others
              /\ others' = TRUE
              /\ UNCHANGED <<now, conf, pc, hopVars, due, held, answer, result>>

OthersRelease == /\ others
                 /\ others' = FALSE
                 /\ UNCHANGED <<now, conf, pc, hopVars, due, held, answer, result>>

-----------------------------------------------------------------------------
(* The retry loop. *)

\* The retry loop runs: an enabled policy and a replayable body.
Retries == MaxAttempts > 1 /\ conf.body # "stream"

\* The request is over.
Finish(r) == /\ pc' = "done"
             /\ result' = r
             /\ due' = Never

\* Mutant: each attempt gets the whole total again.
AttemptTotalRestarted == IF conf.total # Never THEN now + conf.total ELSE After(conf.clientTotal)

\* The total deadline an attempt's hops are built with: the request's own total
\* is shrunk by the time elapsed, the client's is merged in afterwards
\* (Timeout::merge in prepare_first_hop).
AttemptDeadline == IF conf.total # Never THEN conf.total ELSE After(conf.clientTotal)

StartAttempt ==
    /\ attempt' = attempt + 1
    /\ hop' = FirstHop(AttemptDeadline)
    /\ trail' = [trail EXCEPT !.left = FALSE, !.dropped = FALSE, !.secure = FALSE]
    /\ pc' = "hop"
    /\ UNCHANGED <<due, result>>

\* send_with_retry: without a retry loop there is one attempt and no check.
Send ==
    /\ pc = "send"
    /\ ~Retries
    /\ StartAttempt
    /\ UNCHANGED <<now, conf, held, others, jar, answer, wire>>

\* The budget checks at the top of the loop, in order.
RetryTop ==
    /\ pc = "retry" \/ (pc = "send" /\ Retries)
    /\ \/ /\ attempt >= MaxAttempts \/ Passed(MaxElapsed)
          /\ Finish("budget")
          /\ UNCHANGED <<attempt, hop, trail>>
       \/ /\ attempt < MaxAttempts /\ ~Passed(MaxElapsed)
          /\ Passed(conf.total)
          /\ Finish("total")
          /\ UNCHANGED <<attempt, hop, trail>>
       \/ /\ attempt < MaxAttempts /\ ~Passed(MaxElapsed) /\ ~Passed(conf.total)
          /\ StartAttempt
    /\ UNCHANGED <<now, conf, held, others, jar, answer, wire>>

\* should_retry looks at the method and the body of the logical request.
MethodMayRetry == conf.method \in RetryMethods

HasBudget == attempt < MaxAttempts /\ ~Passed(MaxElapsed)

\* A response has come back to the retry loop: it is returned, or its body is
\* drained so that the request can be sent again.
JudgeResponse ==
    /\ pc = "response"
    /\ \/ /\ ~(Retries /\ answer.status = "unavailable" /\ MethodMayRetry /\ HasBudget)
          /\ Finish("response")
       \/ /\ Retries /\ answer.status = "unavailable" /\ MethodMayRetry /\ HasBudget
          /\ pc' = "drainRetry"
          /\ due' = Earlier(After(DrainCap), conf.total)
          /\ UNCHANGED result
    /\ UNCHANGED <<now, conf, attempt, hop, held, others, jar, answer, wire, trail>>

\* An error has come back to the retry loop.
JudgeError ==
    /\ pc = "error"
    /\ \/ /\ ~(Retries /\ result \in RetryableErrors /\ MethodMayRetry /\ HasBudget)
          /\ Finish(result)
          /\ UNCHANGED answer
       \/ /\ Retries /\ result \in RetryableErrors /\ MethodMayRetry /\ HasBudget
          /\ pc' = "delay"
          /\ answer' = [answer EXCEPT !.retryAfter = FALSE]
          /\ UNCHANGED <<due, result>>
    /\ UNCHANGED <<now, conf, attempt, hop, held, others, jar, wire, trail>>

\* BackoffPolicy::delay of the attempt that failed: none for the first, any
\* jittered delay up to the cap after that.
BackoffDelays == IF attempt = 1 THEN {} ELSE (IF MaxDelay = 0 THEN 0 ELSE 1)..MaxDelay

\* compute_retry_delay: a Retry-After comes first.
Delays == IF answer.retryAfter THEN 0..MaxDelay ELSE BackoffDelays

\* sleep_if_budget_allows.
Backoff ==
    /\ pc = "delay"
    /\ \/ /\ Delays = {}
          /\ pc' = "retry"
          /\ UNCHANGED <<due, result>>
       \/ \E d \in Delays :
             \/ /\ MaxElapsed # Never /\ now + d > MaxElapsed
                /\ Finish("budget")
             \/ /\ ~(MaxElapsed # Never /\ now + d > MaxElapsed)
                /\ conf.total # Never /\ now + d > conf.total
                /\ Finish("total")
             \/ /\ ~(MaxElapsed # Never /\ now + d > MaxElapsed)
                /\ ~(conf.total # Never /\ now + d > conf.total)
                /\ pc' = "backoff"
                /\ due' = now + d
                /\ UNCHANGED result
    /\ UNCHANGED <<now, conf, hopVars, held, others, answer>>

BackoffEnds ==
    /\ pc = "backoff"
    /\ Passed(due)
    /\ pc' = "retry"
    /\ due' = Never
    /\ UNCHANGED <<now, conf, hopVars, held, others, answer, result>>

-----------------------------------------------------------------------------
(* The redirect loop. *)

\* The attempt failed with r: an owned permit is dropped on the way out.
Fail(r) == /\ pc' = "error"
           /\ result' = r
           /\ due' = Never
           /\ held' = FALSE

CrossOrigin == hop.prev # NoOrigin /\ hop.prev # hop.origin

\* Mutant: credentials come back once the hops stay on one origin again.
CredentialsAllowedAgain == ~CrossOrigin

\* credentials_allowed and cookie_header_allowed never come back.
CredentialsAllowed == hop.credentials /\ ~CrossOrigin

\* resolve_request_auth refuses an Authorization header next to a scheme.
ConflictingAuth == conf.auth = "both" /\ hop.manual /\ CredentialsAllowed

\* The top of the loop, build_hop_request, and prepare_single_request up to the
\* wait for a slot.
HopTop ==
    /\ pc = "hop"
    /\ \/ /\ Passed(hop.deadline)
          /\ Fail("total")
          /\ UNCHANGED hop
       \/ /\ ~Passed(hop.deadline)
          /\ CrossOrigin /\ conf.pinned
          /\ Fail("resolvedTarget")
          /\ UNCHANGED hop
       \/ /\ ~Passed(hop.deadline)
          /\ ~(CrossOrigin /\ conf.pinned)
          /\ ConflictingAuth
          /\ Fail("conflict")
          /\ UNCHANGED hop
       \/ /\ ~Passed(hop.deadline)
          /\ ~(CrossOrigin /\ conf.pinned)
          /\ ~ConflictingAuth
          /\ hop' = [hop EXCEPT !.credentials = CredentialsAllowed, !.cookies = CredentialsAllowed]
          /\ pc' = "acquire"
          /\ due' = Earlier(After(PoolTimeout), hop.deadline)
          /\ UNCHANGED <<held, result>>
    /\ UNCHANGED <<now, conf, attempt, others, jar, answer, wire, trail>>

\* decide_h3_use: a known alternative of an https origin that nothing else routes.
MayUseH3 == conf.h3 /\ hop.origin \in Secure /\ ~conf.pinned

\* The hop's headers and body as they go to the transport, with the remaining_total an
\* HTTP/3 attempt is given.
Prepared(over) ==
    [origin |-> hop.origin,
     auth |-> hop.manual \/ (conf.auth \in {"scheme", "both"} /\ hop.credentials),
     cookie |-> hop.cookie /\ hop.cookies,
     jar |-> ~hop.cookie /\ hop.cookies /\ hop.origin \in jar,
     pinned |-> conf.pinned,
     body |-> hop.body,
     over |-> over,
     left |-> IF over = "h3" THEN Remaining(hop.deadline) ELSE Never]

\* The slot is ours.  With no time left the request is not dispatched.
Acquire ==
    /\ pc = "acquire"
    /\ ~held /\ ~others
    /\ \/ /\ Passed(hop.deadline)
          /\ Fail("total")
          /\ UNCHANGED <<wire, trail>>
       \/ /\ ~Passed(hop.deadline)
          /\ held' = TRUE
          /\ pc' = "dispatch"
          /\ due' = hop.deadline
          /\ \E over \in {"tcp", "h3"} : /\ over = "h3" => MayUseH3
                                        /\ wire' = Prepared(over)
          /\ trail' = [trail EXCEPT !.sends = @ + 1,
                          !.streams = IF hop.body = "stream" THEN @ + 1 ELSE @,
                          !.left = @ \/ hop.origin # Home,
                          !.secure = @ \/ hop.origin \in Secure]
          /\ UNCHANGED result
    /\ UNCHANGED <<now, conf, attempt, hop, others, jar, answer>>

\* Mutant: with a pool timeout the total one is forgotten.
AcquireTimesOutPoolOnly ==
    /\ pc = "acquire"
    /\ Passed(due) /\ due # hop.deadline
    /\ Fail("pool")
    /\ UNCHANGED <<now, conf, hopVars, others, answer>>

\* The pool deadline; the total one wins a tie.
AcquireTimesOut ==
    /\ pc = "acquire"
    /\ Passed(due)
    /\ Fail(IF due = hop.deadline THEN "total" ELSE "pool")
    /\ UNCHANGED <<now, conf, hopVars, others, answer>>

\* Preparation refuses the request (an unsupported hint, a bad TLS
\* configuration, a wrong length, oversized headers) before or after the wait.
PreparationFails ==
    /\ pc = "acquire"
    /\ Fail("fatal")
    /\ UNCHANGED <<now, conf, hopVars, others, answer>>

\* The HTTP/3 attempt failed before any of the request left, and its body is one that
\* can be sent again: the same request goes out over TCP, with the remaining_total of
\* the dispatch counted from now.
FallsBack ==
    /\ pc = "dispatch"
    /\ wire.over = "h3" /\ hop.body # "stream"
    /\ due' = After(wire.left)
    /\ wire' = [wire EXCEPT !.over = "fallback", !.left = Never]
    /\ UNCHANGED <<now, conf, pc, attempt, hop, held, others, jar, answer, trail, result>>

\* Response headers arrive, the response is finalized and its cookies stored.
Answer(status, location, setCookie, retryAfter) ==
    /\ pc = "dispatch"
    /\ location # "missing" => status \in Redirects
    /\ retryAfter => status = "unavailable"
    /\ answer' = [status |-> status, location |-> location, retryAfter |-> retryAfter]
    /\ jar' = IF setCookie THEN jar \cup {hop.origin} ELSE jar
    /\ pc' = "headers"
    /\ due' = Never
    /\ UNCHANGED <<now, conf, attempt, hop, held, others, wire, trail, result>>

\* The transport, or finalization, fails.
DispatchFails(r) ==
    /\ pc = "dispatch"
    /\ Fail(r)
    /\ UNCHANGED <<now, conf, hopVars, others, answer>>

\* remaining_total ran out; an HTTP/3 attempt that ends so does not fall back.
DispatchTimesOut ==
    /\ pc = "dispatch"
    /\ Passed(due)
    /\ Fail("total")
    /\ UNCHANGED <<now, conf, hopVars, others, answer>>

\* Follow the redirect, after its body has been drained, or hand the response up.
RedirectDecision ==
    /\ pc = "headers"
    /\ \/ /\ answer.status \notin Redirects \/ ~conf.follow \/ answer.location = "missing"
          /\ pc' = "response"
          /\ UNCHANGED <<due, held, result>>
       \/ /\ answer.status \in Redirects /\ conf.follow /\ answer.location = "invalid"
          /\ Fail("badLocation")
       \/ /\ answer.status \in Redirects /\ conf.follow
          /\ answer.location \in Origins \cup {"badUrl"}
          /\ pc' = "drainHop"
          /\ due' = Earlier(After(DrainCap), hop.deadline)
          /\ UNCHANGED <<held, result>>
    /\ UNCHANGED <<now, conf, hopVars, others, answer>>

-----------------------------------------------------------------------------
(* Discarding a body: drain_response_body owns the stream and the slot.    *)

Drained ==
    /\ pc' = IF pc = "drainHop" THEN "advance" ELSE "delay"
    /\ due' = Never
    /\ held' = FALSE

\* The body ends, fails, or is longer than the drain goes.
BodyEnds ==
    /\ pc \in {"drainHop", "drainRetry"}
    /\ Drained
    /\ UNCHANGED <<now, conf, hopVars, others, answer, result>>

DrainTimesOut ==
    /\ pc \in {"drainHop", "drainRetry"}
    /\ Passed(due)
    /\ Drained
    /\ UNCHANGED <<now, conf, hopVars, others, answer, result>>

-----------------------------------------------------------------------------
(* advance_redirect_hop. *)

RedirectMethod == IF answer.status = "seeOther" /\ hop.method # "HEAD" THEN "GET"
                  ELSE IF answer.status = "moved" /\ hop.method = "POST" THEN "GET"
                  ELSE hop.method

DropsBody == \/ answer.status = "seeOther" /\ hop.method # "HEAD"
             \/ answer.status = "moved" /\ hop.method = "POST"

\* check_https_downgrade.
Downgrade == conf.deny /\ hop.origin \in Secure /\ answer.location \notin Secure

\* Mutant: a dropped body stays in replay_body.
NextReplayKept == hop.replay

\* replay_body after this hop.
NextReplay == IF DropsBody THEN "empty" ELSE hop.replay

\* The next hop's request.  A header of the caller survives a hop to the same
\* origin only.
NextHop ==
    LET same == answer.location = hop.origin
    IN  [hop EXCEPT !.origin = answer.location, !.prev = hop.origin, !.count = @ + 1,
                    !.method = RedirectMethod, !.replay = NextReplay,
                    !.body = IF DropsBody THEN "empty" ELSE NextReplay,
                    !.manual = @ /\ same, !.cookie = @ /\ same]

AdvanceRedirect ==
    /\ pc = "advance"
    /\ \/ /\ hop.count + 1 > MaxRedirects
          /\ Fail("tooMany")
          /\ UNCHANGED <<hop, trail>>
       \/ /\ hop.count + 1 <= MaxRedirects
          /\ NextReplay = "none"
          /\ Fail("notReplayable")
          /\ UNCHANGED <<hop, trail>>
       \/ /\ hop.count + 1 <= MaxRedirects
          /\ NextReplay # "none"
          /\ Downgrade \/ answer.location = "badUrl"
          /\ Fail(IF answer.location = "badUrl" THEN "badLocation" ELSE "downgrade")
          /\ UNCHANGED <<hop, trail>>
       \/ /\ hop.count + 1 <= MaxRedirects
          /\ NextReplay # "none"
          /\ ~Downgrade /\ answer.location # "badUrl"
          /\ hop' = NextHop
          /\ trail' = [trail EXCEPT !.dropped = @ \/ DropsBody]
          /\ pc' = "hop"
          /\ UNCHANGED <<due, held, result>>
    /\ UNCHANGED <<now, conf, attempt, others, jar, answer, wire>>

-----------------------------------------------------------------------------
Timers == BackoffEnds \/ AcquireTimesOut \/ DispatchTimesOut \/ DrainTimesOut

Policy == \/ Send \/ RetryTop \/ JudgeResponse \/ JudgeError \/ Backoff
          \/ HopTop \/ RedirectDecision \/ AdvanceRedirect

Server == \/ \E status \in Statuses, location \in Locations, setCookie, retryAfter \in BOOLEAN :
                Answer(status, location, setCookie, retryAfter)
          \/ \E r \in {"connect", "fatal"} : DispatchFails(r)
          \/ FallsBack \/ BodyEnds

Next == \/ Tick \/ OthersTake \/ OthersRelease \/ Timers \/ Policy
        \/ Acquire \/ PreparationFails \/ Server

Spec == Init /\ [][Next]_vars

(* The clock runs, timers fire and the code between two awaits runs on.    *)
(* Neither the server nor the other users of the pool need ever act.       *)
FairSpec == Spec /\ WF_vars(Tick) /\ WF_vars(Timers) /\ WF_vars(Policy)

-----------------------------------------------------------------------------
\* The type invariant.
TypeOK ==
    /\ now \in Nat /\ conf \in Requests
    /\ pc \in Awaits \cup {"send", "retry", "delay", "hop", "headers", "advance", "response",
                           "error", "done"}
    /\ attempt \in 0..MaxAttempts
    /\ hop \in HopType
    /\ due \in Times
    /\ held \in BOOLEAN /\ others \in BOOLEAN /\ jar \subseteq Origins
    /\ answer \in [status : Statuses, location : Locations, retryAfter : BOOLEAN]
    /\ wire \in WireType
    /\ trail \in [sends : Nat, streams : Nat, left : BOOLEAN, dropped : BOOLEAN,
                  secure : BOOLEAN]
    /\ result \in Failures \cup {"none", "response"}

\* The total timeout of the request: its own, or else the client's.
Total == IF conf.total # Never THEN conf.total ELSE conf.clientTotal

(* What the documents and comments say: the total timeout spans all        *)
(* attempts, hops, drains and backoffs (docs/concepts/retry.md) and is     *)
(* "reused, never restarted" by a fallback (pipeline/h3_dispatch.rs).  The *)
(* code does not keep it: see TotalBound for what it does keep.            *)
WithinTotal == Total # Never /\ pc # "done" => now <= Total

\* One deadline spans the whole request: the total is the request's own, or
\* there is one attempt.
OneDeadline == conf.total # Never \/ ~Retries

(* The total timeout spans all attempts, hops, drains and backoffs of a    *)
(* request that has a total of its own or is attempted once, with one      *)
(* exception: once its last dispatch is the TCP fallback of an HTTP/3      *)
(* attempt, which is given the whole remaining total again, a request that *)
(* is not over may take twice its total - but no more, however many        *)
(* attempts, hops and fallbacks came before.  (Where each attempt gets the *)
(* client's total anew, nothing is promised: pipeline/retry.rs.)           *)
TotalBound ==
    OneDeadline /\ Total # Never /\ pc # "done" =>
        now <= IF wire.over = "fallback" THEN 2 * Total ELSE Total

(* Nothing goes to an origin it is not meant for, over any number of hops:  *)
(* credentials and request-local cookies stay with the request's own       *)
(* origin and do not come back once a hop has left it, not even for that   *)
(* origin; a resolved target is never dialled for another one; and under   *)
(* RedirectDowngradePolicy::Deny no http origin follows an https one.      *)
HopsInScope ==
    /\ wire.auth \/ wire.cookie => ~trail.left
    /\ conf.deny /\ trail.secure => wire.origin \in Secure
    /\ wire.pinned /\ wire.origin # NoOrigin => wire.origin = Home

(* What is sent again may be sent again, whatever mix of retries and       *)
(* redirects follows: a one-shot stream is given to a transport once, a    *)
(* body that a redirect dropped is not sent by a later hop of that         *)
(* attempt, only a method the policy names gets a second attempt (not a    *)
(* POST that a redirect turned into a GET), and no more than max_attempts  *)
(* * (max_redirects + 1) requests leave (an HTTP/3 attempt and its         *)
(* fallback are one: nothing of the first has left).                       *)
ReplayAllowed ==
    /\ trail.streams <= 1
    /\ pc = "dispatch" /\ trail.dropped => wire.body = "empty"
    /\ attempt > 1 => conf.method \in RetryMethods
    /\ trail.sends <= MaxAttempts * (MaxRedirects + 1)

(* A request with a total timeout ends although nobody answers, and a      *)
(* discarded body never stalls the loop, however slowly the server sends   *)
(* it.                                                                     *)
RequestEnds ==
    /\ (conf.total # Never \/ conf.clientTotal # Never) ~> (pc = "done")
    /\ (pc \in {"drainHop", "drainRetry"}) ~> (pc \notin {"drainHop", "drainRetry"})

=============================================================================
