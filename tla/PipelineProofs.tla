--------------------------- MODULE PipelineProofs ---------------------------
(***************************************************************************)
(* Proofs about the policy layers of one request, for any number of        *)
(* origins, attempts, redirects and any timeouts.                          *)
(***************************************************************************)
EXTENDS RequestPipeline, TLAPS

\* The points of an attempt before and after its current hop was prepared, the ones
\* after it was given to the transport, and the points between two attempts.
Prepare == {"hop", "acquire"}
Sent == {"dispatch", "headers", "drainHop", "advance"}
HopPoints == Prepare \cup Sent
RetryPoints == {"drainRetry", "delay", "backoff", "retry"}

\* A request is sent once; only what may be retried is between two attempts; a
\* redirect that is followed has a location.
ControlShape ==
    /\ pc = "send" => now = 0 /\ attempt = 0 /\ trail.sends = 0 /\ trail.streams = 0
    /\ pc \in RetryPoints => Retries /\ MethodMayRetry
    /\ pc \in HopPoints => attempt > 0
    /\ pc \in {"drainHop", "advance"} => answer.location \in Origins \cup {"badUrl"}

\* What TotalBound allows.
Limit == IF wire.over = "fallback" THEN 2 * Total ELSE Total

\* Every hop of the request is to end by its total, no await outlasts the limit, and an
\* HTTP/3 attempt has no more than a total left for a fallback.
ClockShape ==
    OneDeadline /\ Total # Never =>
        /\ pc # "done" => now <= Limit
        /\ pc \in HopPoints => hop.deadline = Total
        /\ pc \in Awaits => due # Never /\ due <= Limit
        /\ pc = "dispatch" /\ wire.over = "h3" => wire.left # Never /\ wire.left <= Total

\* The hop in hand comes straight from the request's own origin.
FromHome == IF hop.prev = NoOrigin THEN hop.origin = Home ELSE hop.prev = Home

\* What a hop still carries it may carry to where it goes.
ScopeShape ==
    pc \in HopPoints =>
        /\ hop.manual \/ hop.cookie => hop.origin = Home /\ ~trail.left
        /\ hop.credentials => FromHome /\ ~trail.left
        /\ conf.pinned => FromHome
        /\ pc # "hop" /\ (hop.credentials \/ conf.pinned) => hop.origin = Home
        /\ conf.deny /\ trail.secure => hop.origin \in Secure

\* Requests that a number of whole attempts may send.
Budget(n) == n * (MaxRedirects + 1)

\* What is left to send: the stream only if it was not sent, no dropped body, and
\* no more than one request for each hop.
ReplayShape ==
    /\ pc \in HopPoints =>
          /\ hop.body = "stream" => conf.body = "stream"
          /\ trail.dropped => hop.body = "empty" /\ hop.replay = "empty"
          /\ hop.count <= MaxRedirects
    /\ pc \in Prepare /\ hop.body = "stream" => trail.streams = 0
    /\ trail.sends <= CASE pc \in Prepare -> Budget(attempt - 1) + hop.count
                        [] pc \in Sent    -> Budget(attempt - 1) + hop.count + 1
                        [] OTHER          -> Budget(attempt)

IInv == /\ TypeOK /\ ControlShape /\ ClockShape /\ ScopeShape /\ ReplayShape
        /\ HopsInScope /\ ReplayAllowed

-----------------------------------------------------------------------------
\* Every disjunct of the next-state relation, as a list of cases.
LEMMA NextCases ==
    ASSUME Next
    PROVE  \/ Tick \/ OthersTake \/ OthersRelease \/ BackoffEnds \/ AcquireTimesOut
           \/ DispatchTimesOut \/ DrainTimesOut \/ Send \/ RetryTop \/ JudgeResponse
           \/ JudgeError \/ Backoff \/ HopTop \/ RedirectDecision \/ AdvanceRedirect
           \/ Acquire \/ PreparationFails \/ BodyEnds \/ FallsBack
           \/ \E status \in Statuses, location \in Locations, setCookie, retryAfter \in BOOLEAN :
                 Answer(status, location, setCookie, retryAfter)
           \/ \E r \in {"connect", "fatal"} : DispatchFails(r)
BY DEF Next, Timers, Policy, Server

\* Deadlines are times, and the earlier of two is no later than either.
LEMMA Deadlines ==
    ASSUME now \in Nat
    PROVE  /\ \A d \in Times : After(d) \in Times
           /\ \A a, b \in Times : /\ Earlier(a, b) \in Times
                                  /\ b # Never => Earlier(a, b) # Never /\ Earlier(a, b) <= b
BY PipelineAssumption DEF After, Earlier, Times

-----------------------------------------------------------------------------
(***************************************************************************)
(* The type.                                                               *)
(***************************************************************************)
\* A request that has not been sent is well typed.
LEMMA TypeInit == Init => TypeOK
<1> SUFFICES ASSUME Init
             PROVE  TypeOK
  OBVIOUS
<1>1. conf \in RequestType
  BY PipelineAssumption DEF Init
<1>2. hop \in HopType
  BY <1>1, PipelineAssumption DEF Init, FirstHop, HopType, RequestType, Times
<1>3. wire \in WireType
  BY DEF Init, WireType, Times
<1>4. answer \in [status : Statuses, location : Locations, retryAfter : BOOLEAN]
  BY DEF Init, Statuses, Locations
<1>5. /\ trail \in [sends : Nat, streams : Nat, left : BOOLEAN, dropped : BOOLEAN, secure : BOOLEAN]
      /\ attempt \in 0 .. MaxAttempts
  BY PipelineAssumption DEF Init
<1>6. QED
  BY <1>2, <1>3, <1>4, <1>5, PipelineAssumption DEF Init, TypeOK, Times

\* Every step keeps the types.
LEMMA TypeStep ==
    ASSUME IInv, [Next]_vars
    PROVE  TypeOK'
<1> USE PipelineAssumption DEF IInv, TypeOK
<1>c. conf \in RequestType /\ conf.total \in Times /\ conf.clientTotal \in Times
  BY DEF RequestType
<1>d. \A d \in Times : After(d) \in Times
  BY Deadlines
<1>e. \A a, b \in Times : Earlier(a, b) \in Times
  BY Deadlines
<1>n. Nat \subseteq Times /\ Never \in Times /\ hop.deadline \in Times
  BY DEF Times, HopType
<1>h. AttemptDeadline \in Times
  BY <1>c, <1>d DEF AttemptDeadline
<1>f. FirstHop(AttemptDeadline) \in HopType
  BY <1>c, <1>h DEF FirstHop, HopType, RequestType
<1>s. ASSUME StartAttempt, attempt < MaxAttempts
      PROVE  /\ attempt' \in 0 .. MaxAttempts
             /\ hop' \in HopType
             /\ trail' \in [sends : Nat, streams : Nat, left : BOOLEAN, dropped : BOOLEAN,
                            secure : BOOLEAN]
             /\ pc' = "hop" /\ UNCHANGED <<due, result>>
  <2>1. trail' = [trail EXCEPT !.left = FALSE, !.dropped = FALSE, !.secure = FALSE]
    BY <1>s DEF StartAttempt
  <2>2. trail' \in [sends : Nat, streams : Nat, left : BOOLEAN, dropped : BOOLEAN, secure : BOOLEAN]
    BY <2>1
  <2>3. attempt' \in 0 .. MaxAttempts
    BY <1>s DEF StartAttempt
  <2>4. QED
    BY <1>s, <1>f, <2>2, <2>3 DEF StartAttempt
<1>0. CASE UNCHANGED vars
  BY <1>0 DEF vars
<1>1. CASE Tick \/ OthersTake \/ OthersRelease
  <2>1. now' \in Nat
    BY <1>1 DEF Tick, OthersTake, OthersRelease
  <2>2. others' \in BOOLEAN
    BY <1>1 DEF Tick, OthersTake, OthersRelease
  <2>3. UNCHANGED <<conf, pc, hopVars, due, held, answer, result>>
    BY <1>1 DEF Tick, OthersTake, OthersRelease
  <2>4. QED
    BY <2>1, <2>2, <2>3 DEF hopVars
<1>2. CASE BackoffEnds \/ BodyEnds \/ DrainTimesOut
  BY <1>2, <1>n, ZenonT(60) DEF BackoffEnds, BodyEnds, DrainTimesOut, Drained, hopVars
<1>3. CASE AcquireTimesOut \/ DispatchTimesOut \/ PreparationFails
           \/ \E r \in {"connect", "fatal"} : DispatchFails(r)
  BY <1>3, <1>n, ZenonT(60) DEF AcquireTimesOut, DispatchTimesOut, PreparationFails, DispatchFails, Fail,
     hopVars, Failures, RetryableErrors
<1>4. CASE Send
  <2>1. attempt < MaxAttempts
    BY <1>4 DEF Send, ControlShape
  <2>2. QED
    BY <1>4, <1>s, <2>1 DEF Send
<1>5. CASE RetryTop
  BY <1>5, <1>s, <1>n DEF RetryTop, Finish, Failures
<1>6. CASE JudgeResponse
  BY <1>6, <1>c, <1>d, <1>e, <1>n DEF JudgeResponse, Finish, Awaits
<1>7. CASE JudgeError
  <2>1. answer' = answer \/ answer' = [answer EXCEPT !.retryAfter = FALSE]
    BY <1>7 DEF JudgeError
  <2>2. answer' \in [status : Statuses, location : Locations, retryAfter : BOOLEAN]
    <3>1. CASE answer' = answer
      BY <3>1
    <3>2. CASE answer' = [answer EXCEPT !.retryAfter = FALSE]
      BY <3>2
    <3>3. QED
      BY <2>1, <3>1, <3>2
  <2>3. pc' \in {"done", "delay"} /\ due' \in Times /\ UNCHANGED result
    BY <1>7, <1>n DEF JudgeError, Finish
  <2>4. QED
    BY <1>7, <2>2, <2>3 DEF JudgeError
<1>8. CASE Backoff
  <2>1. \A d \in Delays : now + d \in Times
    BY <1>n DEF Delays, BackoffDelays
  <2>2. due' \in Times /\ pc' \in {"retry", "done", "backoff"}
        /\ result' \in Failures \cup {"none", "response"}
    BY <1>8, <1>n, <2>1 DEF Backoff, Finish, Failures
  <2>3. QED
    BY <1>8, <2>2 DEF Backoff, hopVars, Awaits
<1>9. CASE HopTop
  <2>1. hop' \in HopType
    <3> DEFINE c == CredentialsAllowed
    <3>1. c \in BOOLEAN
      BY DEF CredentialsAllowed, CrossOrigin, HopType
    <3>2. hop' = hop \/ hop' = [hop EXCEPT !.credentials = c, !.cookies = c]
      BY <1>9 DEF HopTop
    <3> HIDE DEF c
    <3>3. CASE hop' = hop
      BY <3>3
    <3>4. CASE hop' = [hop EXCEPT !.credentials = c, !.cookies = c]
      BY <3>1, <3>4 DEF HopType
    <3>5. QED
      BY <3>2, <3>3, <3>4
  <2>2. due' \in Times
    BY <1>9, <1>d, <1>e, <1>n DEF HopTop, Fail
  <2>3. pc' \in {"error", "acquire"} /\ held' \in BOOLEAN /\ result' \in Failures \cup {"none", "response"}
    BY <1>9 DEF HopTop, Fail, Failures
  <2>4. QED
    BY <1>9, <2>1, <2>2, <2>3 DEF HopTop, Awaits
<1>10. CASE RedirectDecision
  <2>1. due' \in Times
    BY <1>10, <1>d, <1>e, <1>n DEF RedirectDecision, Fail
  <2>2. pc' \in {"response", "error", "drainHop"} /\ held' \in BOOLEAN
        /\ result' \in Failures \cup {"none", "response"}
    BY <1>10 DEF RedirectDecision, Fail, Failures
  <2>3. QED
    BY <1>10, <2>1, <2>2 DEF RedirectDecision, Awaits, hopVars
<1>11. CASE AdvanceRedirect
  <2>1. hop' \in HopType
    <3>1. CASE hop' = hop
      BY <3>1
    <3>2. CASE hop' = NextHop /\ answer.location # "badUrl" /\ NextReplay # "none"
      <4>1. answer.location \in Origins
        BY <1>11, <3>2 DEF AdvanceRedirect, ControlShape
      <4>2. NextReplay \in {"empty", "bytes"} /\ RedirectMethod \in {"GET", "POST", "HEAD"}
        BY <3>2 DEF NextReplay, RedirectMethod, HopType
      <4>3. hop.count + 1 \in Nat
        BY DEF HopType
      <4> DEFINE b == IF DropsBody THEN "empty" ELSE NextReplay
                 n == hop.count + 1
                 m == hop.manual /\ answer.location = hop.origin
                 c == hop.cookie /\ answer.location = hop.origin
      <4>4. b \in {"empty", "bytes"} /\ m \in BOOLEAN /\ c \in BOOLEAN /\ n \in Nat
        BY <4>2, <4>3
      <4>5. hop' = [hop EXCEPT !.origin = answer.location, !.prev = hop.origin, !.count = n,
                       !.method = RedirectMethod, !.replay = NextReplay, !.body = b,
                       !.manual = m, !.cookie = c]
        BY <3>2 DEF NextHop
      <4> HIDE DEF b, n, m, c
      <4>6. QED
        BY <4>1, <4>2, <4>4, <4>5, ZenonT(60) DEF HopType
    <3>3. QED
      BY <1>11, <3>1, <3>2 DEF AdvanceRedirect
  <2>2. trail' \in [sends : Nat, streams : Nat, left : BOOLEAN, dropped : BOOLEAN, secure : BOOLEAN]
    BY <1>11 DEF AdvanceRedirect, DropsBody
  <2>3. pc' \in {"error", "hop"} /\ due' \in Times /\ held' \in BOOLEAN
        /\ result' \in Failures \cup {"none", "response"}
    BY <1>11, <1>n, ZenonT(60) DEF AdvanceRedirect, Fail, Failures
  <2>4. QED
    BY <1>11, <2>1, <2>2, <2>3 DEF AdvanceRedirect
<1>12. CASE Acquire
  <2>1. wire' \in WireType
    <3>1. ASSUME NEW over \in {"tcp", "h3"}, ~Passed(hop.deadline)
          PROVE  Prepared(over) \in WireType
      <4>1. Remaining(hop.deadline) \in Times
        BY <1>n, <3>1 DEF Remaining, Passed, Times
      <4>2. QED
        BY <1>c, <1>n, <4>1 DEF Prepared, HopType, RequestType, WireType
    <3>2. QED
      BY <1>12, <3>1 DEF Acquire
  <2>2. trail' \in [sends : Nat, streams : Nat, left : BOOLEAN, dropped : BOOLEAN, secure : BOOLEAN]
    <3> DEFINE n == trail.sends + 1
               k == IF hop.body = "stream" THEN trail.streams + 1 ELSE trail.streams
               l == trail.left \/ hop.origin # Home
               b == trail.secure \/ hop.origin \in Secure
    <3>1. n \in Nat /\ k \in Nat /\ l \in BOOLEAN /\ b \in BOOLEAN
      OBVIOUS
    <3>2. trail' = trail \/ trail' = [trail EXCEPT !.sends = n, !.streams = k, !.left = l, !.secure = b]
      BY <1>12 DEF Acquire
    <3> HIDE DEF n, k, l, b
    <3>3. CASE trail' = [trail EXCEPT !.sends = n, !.streams = k, !.left = l, !.secure = b]
      BY <3>1, <3>3
    <3>4. QED
      BY <3>2, <3>3
  <2>3. pc' \in {"error", "dispatch"} /\ due' \in Times /\ held' \in BOOLEAN
        /\ result' \in Failures \cup {"none", "response"}
    BY <1>12, <1>n, ZenonT(60) DEF Acquire, Fail, Failures
  <2>4. QED
    BY <1>12, <2>1, <2>2, <2>3 DEF Acquire, Awaits
<1>13. ASSUME NEW status \in Statuses, NEW location \in Locations,
              NEW setCookie \in BOOLEAN, NEW retryAfter \in BOOLEAN,
              Answer(status, location, setCookie, retryAfter)
       PROVE  TypeOK'
  <2>1. jar' \subseteq Origins
    BY <1>13 DEF Answer, HopType
  <2>2. QED
    BY <1>13, <1>n, <2>1 DEF Answer
<1>14. CASE FallsBack
  <2>1. wire' \in WireType
    BY <1>14, <1>n DEF FallsBack, WireType
  <2>2. due' \in Times
    BY <1>14, <1>d DEF FallsBack, WireType
  <2>3. QED
    BY <1>14, <2>1, <2>2 DEF FallsBack
<1>15. QED
  BY <1>0, <1>1, <1>2, <1>3, <1>4, <1>5, <1>6, <1>7, <1>8, <1>9, <1>10, <1>11, <1>12, <1>13, <1>14, NextCases

-----------------------------------------------------------------------------
(***************************************************************************)
(* The steps that touch a hop.  Every other step leaves the hop, the wire  *)
(* and the trail alone and only moves on, or out of the attempt.           *)
(***************************************************************************)
Quiet ==
    /\ UNCHANGED <<conf, attempt, hop, wire, trail>>
    /\ \/ pc' = pc
       \/ pc \in Sent /\ pc' \in Sent \ {"dispatch"}
       \/ pc' \notin HopPoints \cup {"send"}

Starts ==
    /\ StartAttempt /\ attempt < MaxAttempts /\ UNCHANGED <<now, conf, wire>>
    /\ pc = "send" \/ (pc = "retry" /\ Retries /\ MethodMayRetry)

HopPrepared ==
    /\ pc = "hop" /\ pc' = "acquire"
    /\ ~(CrossOrigin /\ conf.pinned)
    /\ hop' = [hop EXCEPT !.credentials = CredentialsAllowed, !.cookies = CredentialsAllowed]
    /\ UNCHANGED <<now, conf, attempt, wire, trail>>

HopSent ==
    /\ pc = "acquire" /\ pc' = "dispatch"
    /\ \E over \in {"tcp", "h3"} : wire' = Prepared(over)
    /\ trail' = [trail EXCEPT !.sends = @ + 1,
                    !.streams = IF hop.body = "stream" THEN @ + 1 ELSE @,
                    !.left = @ \/ hop.origin # Home,
                    !.secure = @ \/ hop.origin \in Secure]
    /\ UNCHANGED <<now, conf, attempt, hop>>

HopFellBack ==
    /\ pc = "dispatch" /\ pc' = "dispatch"
    /\ wire' = [wire EXCEPT !.over = "fallback", !.left = Never]
    /\ UNCHANGED <<now, conf, attempt, hop, trail>>

HopAdvanced ==
    /\ pc = "advance" /\ pc' = "hop"
    /\ hop.count + 1 <= MaxRedirects /\ NextReplay # "none"
    /\ ~Downgrade /\ answer.location \in Origins
    /\ hop' = NextHop
    /\ trail' = [trail EXCEPT !.dropped = @ \/ DropsBody]
    /\ UNCHANGED <<now, conf, attempt, wire>>

\* Every step is quiet or one of the five that touch a hop or the wire.
LEMMA StepKinds ==
    ASSUME IInv, [Next]_vars
    PROVE  Quiet \/ Starts \/ HopPrepared \/ HopSent \/ HopFellBack \/ HopAdvanced
<1> USE DEF Quiet, hopVars
<1>0. CASE UNCHANGED vars
  BY <1>0 DEF vars
<1>1. CASE Tick \/ OthersTake \/ OthersRelease
  BY <1>1 DEF Tick, OthersTake, OthersRelease
<1>2. CASE BackoffEnds \/ BodyEnds \/ DrainTimesOut
  BY <1>2 DEF BackoffEnds, BodyEnds, DrainTimesOut, Drained, Sent, HopPoints, Prepare
<1>3. CASE AcquireTimesOut \/ DispatchTimesOut \/ PreparationFails
           \/ \E r \in {"connect", "fatal"} : DispatchFails(r)
  BY <1>3 DEF AcquireTimesOut, DispatchTimesOut, PreparationFails, DispatchFails, Fail,
     Sent, HopPoints, Prepare
<1>4. CASE Send
  <2>1. attempt < MaxAttempts
    BY <1>4, PipelineAssumption DEF Send, IInv, ControlShape
  <2>2. QED
    BY <1>4, <2>1 DEF Send, Starts
<1>5. CASE RetryTop
  <2>1. CASE StartAttempt /\ attempt < MaxAttempts
    <3>1. pc = "retry" => Retries /\ MethodMayRetry
      BY DEF IInv, ControlShape, RetryPoints
    <3>2. QED
      BY <1>5, <2>1, <3>1 DEF RetryTop, Starts
  <2>2. CASE ~(StartAttempt /\ attempt < MaxAttempts)
    BY <1>5, <2>2 DEF RetryTop, Finish, Sent, HopPoints, Prepare
  <2>3. QED
    BY <2>1, <2>2
<1>6. CASE JudgeResponse \/ JudgeError \/ Backoff
  BY <1>6 DEF JudgeResponse, JudgeError, Backoff, Finish, Sent, HopPoints, Prepare
<1>7. CASE HopTop
  BY <1>7 DEF HopTop, HopPrepared, Fail, Sent, HopPoints, Prepare
<1>8. CASE RedirectDecision
  BY <1>8 DEF RedirectDecision, Fail, Sent, HopPoints, Prepare
<1>9. CASE AdvanceRedirect
  <2>1. CASE pc' = "hop"
    <3>1. answer.location # "badUrl"
      BY <1>9, <2>1 DEF AdvanceRedirect, Fail
    <3>2. answer.location \in Origins
      BY <1>9, <3>1 DEF AdvanceRedirect, IInv, ControlShape
    <3>3. QED
      BY <1>9, <2>1, <3>2 DEF AdvanceRedirect, HopAdvanced, Fail
  <2>2. CASE pc' # "hop"
    BY <1>9, <2>2 DEF AdvanceRedirect, Fail, Sent, HopPoints, Prepare
  <2>3. QED
    BY <2>1, <2>2
<1>10. CASE Acquire
  BY <1>10 DEF Acquire, HopSent, Fail, Sent, HopPoints, Prepare
<1>11. ASSUME NEW status \in Statuses, NEW location \in Locations,
              NEW setCookie \in BOOLEAN, NEW retryAfter \in BOOLEAN,
              Answer(status, location, setCookie, retryAfter)
       PROVE  Quiet
  BY <1>11 DEF Answer, Sent
<1>12. CASE FallsBack
  BY <1>12 DEF FallsBack, HopFellBack
<1>13. QED
  BY <1>0, <1>1, <1>2, <1>3, <1>4, <1>5, <1>6, <1>7, <1>8, <1>9, <1>10, <1>11, <1>12, NextCases

-----------------------------------------------------------------------------
(***************************************************************************)
(* Credentials and scope.                                                  *)
(***************************************************************************)
\* No step lets a hop carry what it may not, or sends it out of its scope.
LEMMA ScopeStep ==
    ASSUME IInv, [Next]_vars
    PROVE  ScopeShape' /\ HopsInScope'
<1> USE PipelineAssumption DEF IInv
<1>1. CASE Quiet
  BY <1>1 DEF Quiet, ScopeShape, HopsInScope, FromHome, HopPoints, Prepare, Sent
<1>2. CASE Starts
  <2>1. /\ hop'.origin = Home /\ hop'.prev = NoOrigin /\ conf' = conf /\ wire' = wire
        /\ ~trail'.left /\ ~trail'.secure
    BY <1>2 DEF Starts, StartAttempt, FirstHop, TypeOK
  <2>2. ScopeShape'
    BY <2>1 DEF ScopeShape, FromHome
  <2>3. HopsInScope'
    BY <2>1 DEF HopsInScope
  <2>4. QED
    BY <2>2, <2>3
<1>3. CASE HopPrepared
  <2>1. /\ hop'.origin = hop.origin /\ hop'.prev = hop.prev /\ hop'.manual = hop.manual
        /\ hop'.cookie = hop.cookie /\ hop'.credentials = CredentialsAllowed
        /\ pc = "hop" /\ UNCHANGED <<conf, wire, trail>> /\ ~(CrossOrigin /\ conf.pinned)
    BY <1>3 DEF HopPrepared, TypeOK, HopType
  <2>2. hop.manual \/ hop.cookie => hop.origin = Home /\ ~trail.left
    BY <2>1 DEF ScopeShape, HopPoints, Prepare
  <2>3. (hop.credentials => FromHome /\ ~trail.left) /\ (conf.pinned => FromHome)
        /\ (conf.deny /\ trail.secure => hop.origin \in Secure)
    BY <2>1 DEF ScopeShape, HopPoints, Prepare
  <2>4. (CredentialsAllowed \/ conf.pinned) => FromHome /\ hop.origin = Home
    BY <2>1, <2>3 DEF CredentialsAllowed, CrossOrigin, FromHome
  <2>5. FromHome' = FromHome
    BY <2>1 DEF FromHome
  <2>6. ScopeShape'
    BY <2>1, <2>2, <2>3, <2>4, <2>5 DEF ScopeShape, CredentialsAllowed
  <2>7. QED
    BY <2>1, <2>6 DEF HopsInScope
<1>4. CASE HopSent
  <2>1. /\ pc = "acquire" /\ UNCHANGED <<conf, hop>> /\ \E over \in {"tcp", "h3"} : wire' = Prepared(over)
        /\ trail'.left = (trail.left \/ hop.origin # Home)
        /\ trail'.secure = (trail.secure \/ hop.origin \in Secure)
    BY <1>4 DEF HopSent, TypeOK
  <2>2. /\ hop.manual \/ hop.cookie => hop.origin = Home /\ ~trail.left
        /\ hop.credentials => FromHome /\ ~trail.left /\ hop.origin = Home
        /\ conf.pinned => FromHome /\ hop.origin = Home
        /\ conf.deny /\ trail.secure => hop.origin \in Secure
    BY <2>1 DEF ScopeShape, HopPoints, Prepare
  <2>3. ScopeShape'
    BY <2>1, <2>2 DEF ScopeShape, FromHome
  <2>4. /\ wire'.origin = hop.origin /\ wire'.pinned = conf.pinned
        /\ wire'.auth => hop.manual \/ hop.credentials
        /\ wire'.cookie => hop.cookie
    <3>1. PICK over \in {"tcp", "h3"} : wire' = Prepared(over)
      BY <2>1
    <3>2. /\ Prepared(over).origin = hop.origin /\ Prepared(over).pinned = conf.pinned
          /\ Prepared(over).auth = (hop.manual \/ (conf.auth \in {"scheme", "both"} /\ hop.credentials))
          /\ Prepared(over).cookie = (hop.cookie /\ hop.cookies)
      BY DEF Prepared
    <3>3. QED
      BY <3>1, <3>2
  <2>5. HopsInScope'
    BY <2>1, <2>2, <2>4 DEF HopsInScope
  <2>6. QED
    BY <2>3, <2>5
<1>5. CASE HopAdvanced
  <2>1. /\ pc = "advance" /\ pc' = "hop" /\ UNCHANGED <<conf, wire>>
        /\ hop'.origin = answer.location /\ hop'.prev = hop.origin
        /\ hop'.manual = (hop.manual /\ answer.location = hop.origin)
        /\ hop'.cookie = (hop.cookie /\ answer.location = hop.origin)
        /\ hop'.credentials = hop.credentials
        /\ trail'.left = trail.left /\ trail'.secure = trail.secure
        /\ hop.origin \in Origins
        /\ ~Downgrade
    BY <1>5 DEF HopAdvanced, NextHop, TypeOK, HopType
  <2>2. /\ hop.manual \/ hop.cookie => hop.origin = Home /\ ~trail.left
        /\ hop.credentials => ~trail.left /\ hop.origin = Home
        /\ conf.pinned => hop.origin = Home
        /\ conf.deny /\ trail.secure => hop.origin \in Secure
    BY <2>1 DEF ScopeShape, HopPoints, Sent
  <2>3. hop'.prev # NoOrigin
    BY <2>1
  <2>4. ScopeShape'
    BY <2>1, <2>2, <2>3 DEF ScopeShape, FromHome, Downgrade
  <2>5. HopsInScope'
    BY <2>1 DEF HopsInScope
  <2>6. QED
    BY <2>4, <2>5
<1>6. CASE HopFellBack
  <2>1. /\ pc' = pc /\ UNCHANGED <<conf, hop, trail>>
        /\ wire'.auth = wire.auth /\ wire'.cookie = wire.cookie
        /\ wire'.origin = wire.origin /\ wire'.pinned = wire.pinned
    BY <1>6 DEF HopFellBack, TypeOK, WireType
  <2>2. ScopeShape'
    BY <2>1 DEF ScopeShape, FromHome
  <2>3. HopsInScope'
    BY <2>1 DEF HopsInScope
  <2>4. QED
    BY <2>2, <2>3
<1>7. QED
  BY <1>1, <1>2, <1>3, <1>4, <1>5, <1>6, StepKinds

-----------------------------------------------------------------------------
(***************************************************************************)
(* Replay.                                                                 *)
(***************************************************************************)
\* One attempt more allows one more request for each hop, and the allowance grows
\* with the attempts.
LEMMA Budgets ==
    ASSUME NEW n \in Nat
    PROVE  /\ Budget(n) \in Nat
           /\ Budget(n + 1) = Budget(n) + MaxRedirects + 1
           /\ \A m \in Nat : m <= n => Budget(m) <= Budget(n)
<1> DEFINE r == MaxRedirects + 1
<1>1. r \in Nat
  BY PipelineAssumption
<1>2. \A a, b \in Nat : a * b \in Nat
  OBVIOUS
<1>3. \A a, b, c \in Nat : (a + b) * c = a * c + b * c
  OBVIOUS
<1>4. Budget(n) \in Nat
  BY <1>1, <1>2 DEF Budget
<1>5. Budget(n + 1) = Budget(n) + MaxRedirects + 1
  <2>1. (n + 1) * r = n * r + 1 * r
    BY <1>1, <1>3
  <2>2. 1 * r = r
    BY <1>1
  <2>3. QED
    BY <1>4, <2>1, <2>2, PipelineAssumption DEF Budget
<1>6. ASSUME NEW m \in Nat, m <= n
      PROVE  Budget(m) <= Budget(n)
  <2>1. PICK k \in Nat : n = m + k
    <3>1. n - m \in Nat /\ n = m + (n - m)
      BY <1>6
    <3>2. QED
      BY <3>1
  <2>2. n * r = m * r + k * r
    BY <1>1, <1>3, <2>1
  <2>3. m * r \in Nat /\ k * r \in Nat /\ n * r \in Nat
    BY <1>1, <1>2
  <2>4. m * r <= n * r
    BY <2>2, <2>3
  <2>5. QED
    BY <2>4 DEF Budget
<1>7. QED
  BY <1>4, <1>5, <1>6

\* No step makes a sent stream, a dropped body or a spent attempt sendable again.
LEMMA ReplayStep ==
    ASSUME IInv, [Next]_vars
    PROVE  ReplayShape' /\ ReplayAllowed'
<1> USE PipelineAssumption DEF IInv, HopPoints
<1>a. /\ attempt \in Nat /\ attempt <= MaxAttempts /\ MaxAttempts \in Nat /\ MaxRedirects \in Nat
      /\ trail.sends \in Nat /\ trail.streams \in Nat /\ hop.count \in Nat
  BY DEF TypeOK, HopType
<1>b. Budget(attempt) <= Budget(MaxAttempts) /\ Budget(attempt) \in Nat /\ Budget(MaxAttempts) \in Nat
  BY <1>a, Budgets
<1>c. attempt > 0 => attempt - 1 \in Nat /\ Budget(attempt - 1) \in Nat
                     /\ Budget(attempt) = Budget(attempt - 1) + MaxRedirects + 1
  <2> SUFFICES ASSUME attempt > 0
               PROVE  attempt - 1 \in Nat /\ Budget(attempt - 1) \in Nat
                      /\ Budget(attempt) = Budget(attempt - 1) + MaxRedirects + 1
    OBVIOUS
  <2> DEFINE n == attempt - 1
  <2>1. n \in Nat /\ n + 1 = attempt
    BY <1>a
  <2> HIDE DEF n
  <2>2. Budget(n) \in Nat /\ Budget(n + 1) = Budget(n) + MaxRedirects + 1
    BY <2>1, Budgets
  <2>3. QED
    BY <2>1, <2>2 DEF n
<1>d. pc \in HopPoints => attempt > 0
  BY DEF ControlShape
\* What is sent so far is within the whole attempts.
<1>e. trail.sends <= Budget(attempt)
  <2>1. CASE pc \in Prepare
    <3>1. trail.sends <= Budget(attempt - 1) + hop.count /\ hop.count <= MaxRedirects
      BY <2>1 DEF ReplayShape, Prepare, Sent
    <3>2. QED
      BY <1>a, <1>b, <1>c, <1>d, <2>1, <3>1
  <2>2. CASE pc \in Sent
    <3>1. trail.sends <= Budget(attempt - 1) + hop.count + 1 /\ hop.count <= MaxRedirects
      BY <2>2 DEF ReplayShape, Prepare, Sent
    <3>2. QED
      BY <1>a, <1>b, <1>c, <1>d, <2>2, <3>1
  <2>3. CASE pc \notin HopPoints
    BY <2>3 DEF ReplayShape
  <2>4. QED
    BY <2>1, <2>2, <2>3
<1>1. CASE Quiet
  <2>1. UNCHANGED <<conf, attempt, hop, wire, trail>>
    BY <1>1 DEF Quiet
  <2>2. /\ pc' \in HopPoints => pc \in HopPoints
        /\ pc' \in Prepare => pc \in Prepare
        /\ pc' \in Sent => pc \in Sent
        /\ pc' = "dispatch" => pc = "dispatch"
    BY <1>1 DEF Quiet, Prepare, Sent
  <2>3. trail'.sends <= CASE pc' \in Prepare -> Budget(attempt' - 1) + hop'.count
                          [] pc' \in Sent    -> Budget(attempt' - 1) + hop'.count + 1
                          [] OTHER           -> Budget(attempt')
    BY <2>1, <2>2, <1>e DEF ReplayShape, Prepare, Sent
  <2>4. ReplayShape'
    BY <2>1, <2>2, <2>3 DEF ReplayShape, Budget
  <2>5. ReplayAllowed'
    BY <2>1, <2>2 DEF ReplayAllowed
  <2>6. QED
    BY <2>4, <2>5
<1>2. CASE Starts
  <2>1. /\ attempt' = attempt + 1 /\ conf' = conf /\ wire' = wire /\ pc' = "hop"
        /\ hop'.body = conf.body /\ hop'.count = 0 /\ ~trail'.dropped
        /\ trail'.sends = trail.sends /\ trail'.streams = trail.streams
        /\ attempt < MaxAttempts
    BY <1>2 DEF Starts, StartAttempt, FirstHop, TypeOK
  <2>2. pc = "send" \/ Retries
    BY <1>2 DEF Starts
  <2>3. hop'.body = "stream" => trail'.streams = 0
    BY <2>1, <2>2 DEF Retries, ControlShape
  <2>4. attempt' - 1 = attempt
    BY <1>a, <2>1
  <2>5. trail'.sends <= Budget(attempt' - 1) + hop'.count
    <3>1. Budget(attempt) + 0 = Budget(attempt)
      BY <1>b
    <3>2. QED
      BY <1>e, <2>1, <2>4, <3>1
  <2>6. ReplayShape'
    BY <2>1, <2>3, <2>5 DEF ReplayShape, Prepare, Sent, Budget
  <2>7. attempt' > 1 => conf'.method \in RetryMethods
    <3>1. CASE pc = "send"
      BY <2>1, <3>1 DEF ControlShape
    <3>2. CASE MethodMayRetry
      BY <2>1, <3>2 DEF MethodMayRetry
    <3>3. QED
      BY <1>2, <3>1, <3>2 DEF Starts
  <2>8. ReplayAllowed'
    BY <2>1, <2>7 DEF ReplayAllowed
  <2>9. QED
    BY <2>6, <2>8
<1>3. CASE HopPrepared
  <2>1. /\ hop'.body = hop.body /\ hop'.replay = hop.replay /\ hop'.count = hop.count
        /\ pc = "hop" /\ pc' = "acquire" /\ UNCHANGED <<conf, attempt, wire, trail>>
    BY <1>3 DEF HopPrepared, TypeOK, HopType
  <2>2. ReplayShape'
    BY <2>1 DEF ReplayShape, Prepare, Sent, Budget
  <2>3. QED
    BY <2>1, <2>2 DEF ReplayAllowed
<1>4. CASE HopSent
  <2>1. /\ pc = "acquire" /\ pc' = "dispatch" /\ UNCHANGED <<conf, attempt, hop>>
        /\ trail'.sends = trail.sends + 1 /\ trail'.dropped = trail.dropped
        /\ trail'.streams = IF hop.body = "stream" THEN trail.streams + 1 ELSE trail.streams
        /\ wire'.body = hop.body
    BY <1>4 DEF HopSent, TypeOK, Prepared
  <2>2. /\ trail.sends <= Budget(attempt - 1) + hop.count /\ hop.count <= MaxRedirects
        /\ hop.body = "stream" => trail.streams = 0 /\ conf.body = "stream"
        /\ trail.dropped => hop.body = "empty" /\ hop.replay = "empty"
        /\ attempt > 0
    BY <2>1, <1>d DEF ReplayShape, Prepare, Sent
  <2>3. trail'.sends <= Budget(attempt - 1) + hop.count + 1
    BY <1>a, <1>c, <2>1, <2>2
  <2>4. ReplayShape'
    BY <2>1, <2>2, <2>3 DEF ReplayShape, Prepare, Sent, Budget
  <2>5. trail'.sends <= Budget(MaxAttempts)
    BY <1>a, <1>b, <1>c, <2>1, <2>2
  <2>6. trail'.streams <= 1
    BY <2>1, <2>2 DEF ReplayAllowed
  <2>7. ReplayAllowed'
    BY <2>1, <2>2, <2>5, <2>6 DEF ReplayAllowed, Budget
  <2>8. QED
    BY <2>4, <2>7
<1>5. CASE HopAdvanced
  <2> DEFINE n == hop.count + 1
  <2>1. /\ pc = "advance" /\ pc' = "hop" /\ UNCHANGED <<conf, attempt, wire>>
        /\ hop'.count = n /\ n <= MaxRedirects
        /\ hop'.replay = NextReplay /\ NextReplay # "none"
        /\ hop'.body = IF DropsBody THEN "empty" ELSE NextReplay
        /\ trail'.sends = trail.sends /\ trail'.streams = trail.streams
        /\ trail'.dropped = (trail.dropped \/ DropsBody)
    BY <1>5 DEF HopAdvanced, NextHop, TypeOK, HopType
  <2>2. NextReplay \in {"empty", "bytes"} /\ (DropsBody \/ hop.replay = "empty" => NextReplay = "empty")
    BY <2>1 DEF NextReplay, TypeOK, HopType
  <2>3. /\ trail.sends <= Budget(attempt - 1) + hop.count + 1
        /\ trail.dropped => hop.replay = "empty"
        /\ attempt > 0
    BY <2>1, <1>d DEF ReplayShape, Prepare, Sent
  <2>4. trail'.sends <= Budget(attempt - 1) + n
    BY <1>a, <1>c, <2>1, <2>3
  <2> HIDE DEF n
  <2>5. hop'.body # "stream" /\ (trail'.dropped => hop'.body = "empty" /\ hop'.replay = "empty")
    BY <2>1, <2>2, <2>3
  <2>6. ReplayShape'
    BY <2>1, <2>4, <2>5 DEF ReplayShape, Prepare, Sent, Budget
  <2>7. ReplayAllowed'
    BY <2>1 DEF ReplayAllowed
  <2>8. QED
    BY <2>6, <2>7
<1>6. CASE HopFellBack
  <2>1. /\ pc' = pc /\ UNCHANGED <<conf, attempt, hop, trail>> /\ wire'.body = wire.body
    BY <1>6 DEF HopFellBack, TypeOK, WireType
  <2>2. ReplayShape'
    BY <2>1 DEF ReplayShape, Budget
  <2>3. QED
    BY <2>1, <2>2 DEF ReplayAllowed
<1>7. QED
  BY <1>1, <1>2, <1>3, <1>4, <1>5, <1>6, StepKinds

-----------------------------------------------------------------------------
(***************************************************************************)
(* Control and the clock.                                                  *)
(***************************************************************************)
\* Every step keeps the shape of the control.
LEMMA ControlStep ==
    ASSUME IInv, [Next]_vars
    PROVE  ControlShape'
<1> USE DEF IInv, HopPoints, Prepare, Sent, RetryPoints, hopVars
<1>r. UNCHANGED conf => (Retries' = Retries /\ MethodMayRetry' = MethodMayRetry)
  BY DEF Retries, MethodMayRetry
<1>0. CASE UNCHANGED vars
  BY <1>0, <1>r DEF vars, ControlShape
<1>1. CASE Tick
  BY <1>1, <1>r DEF Tick, ControlShape, Awaits
<1>2. CASE OthersTake \/ OthersRelease
  BY <1>2, <1>r DEF OthersTake, OthersRelease, ControlShape
<1>3. CASE BackoffEnds \/ BodyEnds \/ DrainTimesOut
  BY <1>3, <1>r DEF BackoffEnds, BodyEnds, DrainTimesOut, Drained, ControlShape
<1>4. CASE AcquireTimesOut \/ DispatchTimesOut \/ PreparationFails
           \/ \E r \in {"connect", "fatal"} : DispatchFails(r)
  BY <1>4 DEF AcquireTimesOut, DispatchTimesOut, PreparationFails, DispatchFails, Fail, ControlShape
<1>5. CASE Send \/ RetryTop
  <2>1. pc' = "done" \/ (pc' = "hop" /\ attempt' = attempt + 1)
    BY <1>5 DEF Send, RetryTop, StartAttempt, Finish
  <2>2. attempt + 1 > 0
    BY DEF TypeOK
  <2>3. QED
    BY <2>1, <2>2 DEF ControlShape
<1>6. CASE JudgeResponse \/ JudgeError
  BY <1>6, <1>r DEF JudgeResponse, JudgeError, Finish, ControlShape
<1>7. CASE Backoff
  BY <1>7, <1>r DEF Backoff, Finish, ControlShape
<1>8. CASE HopTop
  BY <1>8 DEF HopTop, Fail, ControlShape
<1>9. CASE RedirectDecision
  BY <1>9 DEF RedirectDecision, Fail, ControlShape
<1>10. CASE AdvanceRedirect
  BY <1>10 DEF AdvanceRedirect, Fail, ControlShape
<1>11. CASE Acquire
  BY <1>11 DEF Acquire, Fail, ControlShape
<1>12. ASSUME NEW status \in Statuses, NEW location \in Locations,
              NEW setCookie \in BOOLEAN, NEW retryAfter \in BOOLEAN,
              Answer(status, location, setCookie, retryAfter)
       PROVE  ControlShape'
  BY <1>12 DEF Answer, ControlShape
<1>13. CASE FallsBack
  BY <1>13, <1>r DEF FallsBack, ControlShape
<1>14. QED
  BY <1>0, <1>1, <1>2, <1>3, <1>4, <1>5, <1>6, <1>7, <1>8, <1>9, <1>10, <1>11, <1>12, <1>13, NextCases

\* No step passes the one deadline of a request that has one.
LEMMA ClockStep ==
    ASSUME IInv, [Next]_vars
    PROVE  ClockShape'
<1> USE PipelineAssumption DEF IInv, HopPoints, Prepare, Sent, hopVars
<1>c. conf' = conf
  BY NextCases DEF vars, Tick, OthersTake, OthersRelease, BackoffEnds, AcquireTimesOut,
     DispatchTimesOut, DrainTimesOut, Send, RetryTop, JudgeResponse, JudgeError, Backoff, HopTop,
     RedirectDecision, AdvanceRedirect, Acquire, PreparationFails, BodyEnds, FallsBack, Answer,
     DispatchFails
<1> SUFFICES ASSUME OneDeadline, Total # Never
             PROVE  /\ pc' # "done" => now' <= Limit'
                    /\ pc' \in HopPoints => hop'.deadline = Total
                    /\ pc' \in Awaits => due' # Never /\ due' <= Limit'
                    /\ pc' = "dispatch" /\ wire'.over = "h3"
                          => wire'.left # Never /\ wire'.left <= Total
  BY <1>c DEF ClockShape, OneDeadline, Total, Retries
<1> DEFINE Goal == /\ pc' # "done" => now' <= Limit'
                   /\ pc' \in HopPoints => hop'.deadline = Total
                   /\ pc' \in Awaits => due' # Never /\ due' <= Limit'
                   /\ pc' = "dispatch" /\ wire'.over = "h3"
                         => wire'.left # Never /\ wire'.left <= Total
<1>t. /\ Total \in Nat /\ now \in Nat /\ due \in Times
      /\ conf.total \in Times /\ conf.clientTotal \in Times
  BY DEF Total, TypeOK, RequestType, Times
<1>h. /\ pc # "done" => now <= Limit
      /\ pc \in HopPoints => hop.deadline = Total
      /\ pc \in Awaits => due # Never /\ due <= Limit
      /\ pc = "dispatch" /\ wire.over = "h3" => wire.left # Never /\ wire.left <= Total
  BY DEF ClockShape
<1>w. Total' = Total /\ (wire' = wire => Limit' = Limit)
  BY <1>c DEF Total, Limit
<1>l. Limit \in Nat /\ Total <= Limit
  BY <1>t DEF Limit
<1>e. \A d \in Times : Earlier(After(d), Total) # Never /\ Earlier(After(d), Total) <= Limit
  <2> SUFFICES ASSUME NEW d \in Times
               PROVE  Earlier(After(d), Total) # Never /\ Earlier(After(d), Total) <= Limit
    OBVIOUS
  <2> DEFINE e == Earlier(After(d), Total)
  <2>1. now \in Nat /\ Total \in Times
    BY <1>t DEF Times
  <2>2. e \in Times /\ e # Never /\ e <= Total
    BY <1>t, <2>1, Deadlines
  <2> HIDE DEF e
  <2>3. e \in Nat
    BY <2>2 DEF Times
  <2>4. e <= Limit
    BY <1>l, <1>t, <2>2, <2>3
  <2>5. QED
    BY <2>2, <2>4 DEF e
\* Steps that neither wait nor touch the hop.
<1>m. ASSUME UNCHANGED <<now, wire>>, pc # "done", pc' \notin Awaits,
             pc' \in HopPoints => pc \in HopPoints /\ UNCHANGED hop
      PROVE  Goal
  BY <1>m, <1>h, <1>w DEF Awaits
<1>0. ASSUME UNCHANGED <<now, hop, pc, due, wire>>
      PROVE  Goal
  BY <1>0, <1>h, <1>w
<1>1. CASE Tick
  <2>1. pc \in Awaits /\ ~Passed(due) /\ now' = now + 1 /\ UNCHANGED <<pc, hop, due>>
    BY <1>1 DEF Tick
  <2>a. UNCHANGED wire
    BY <1>1 DEF Tick
  <2>2. due # Never /\ due \in Nat /\ due <= Limit
    BY <1>h, <1>t, <2>1 DEF Times
  <2>3. now < due
    BY <1>t, <2>1, <2>2 DEF Passed
  <2>4. now + 1 <= Limit
    BY <1>t, <1>l, <2>2, <2>3
  <2>5. QED
    BY <1>h, <1>w, <2>1, <2>4, <2>a
<1>2. CASE OthersTake \/ OthersRelease
  BY <1>0, <1>2 DEF OthersTake, OthersRelease
<1>3. CASE BackoffEnds \/ BodyEnds \/ DrainTimesOut
  BY <1>3, <1>m DEF BackoffEnds, BodyEnds, DrainTimesOut, Drained, Awaits
<1>4. CASE AcquireTimesOut \/ DispatchTimesOut \/ PreparationFails
           \/ \E r \in {"connect", "fatal"} : DispatchFails(r)
  BY <1>4, <1>m DEF AcquireTimesOut, DispatchTimesOut, PreparationFails, DispatchFails, Fail, Awaits
<1>5. CASE Starts
  <2>1. /\ pc' = "hop" /\ hop'.deadline = AttemptDeadline /\ UNCHANGED <<now, wire>>
        /\ pc # "done"
    BY <1>5 DEF Starts, StartAttempt, FirstHop
  <2>2. AttemptDeadline = Total
    <3>1. CASE conf.total # Never
      BY <3>1 DEF AttemptDeadline, Total
    <3>2. CASE conf.total = Never
      <4>1. pc = "send" /\ now = 0
        BY <1>5, <3>2 DEF Starts, OneDeadline, ControlShape
      <4>2. After(conf.clientTotal) = Total
        BY <1>t, <3>2, <4>1 DEF After, Total
      <4>3. QED
        BY <3>2, <4>2 DEF AttemptDeadline
    <3>3. QED
      BY <3>1, <3>2
  <2>3. QED
    BY <1>h, <1>w, <2>1, <2>2 DEF Awaits
<1>6. CASE Send \/ RetryTop
  <2>1. CASE pc' = "done"
    BY <2>1 DEF Awaits
  <2>2. CASE pc' # "done"
    <3>1. Starts
      BY <1>6, <2>2 DEF Send, RetryTop, Starts, Finish, ControlShape, RetryPoints
    <3>2. QED
      BY <1>5, <3>1
  <2>3. QED
    BY <2>1, <2>2
<1>7. CASE JudgeResponse
  <2>1. CASE pc' = "drainRetry"
    <3>1. Retries /\ due' = Earlier(After(DrainCap), conf.total) /\ UNCHANGED <<now, wire>>
          /\ pc # "done"
      BY <1>7, <2>1 DEF JudgeResponse, Finish
    <3>2. conf.total = Total
      BY <3>1 DEF OneDeadline, Total
    <3>3. QED
      BY <1>e, <1>h, <1>w, <2>1, <3>1, <3>2 DEF Times
  <2>2. CASE pc' # "drainRetry"
    BY <1>7, <2>2 DEF JudgeResponse, Finish, Awaits
  <2>3. QED
    BY <2>1, <2>2
<1>8. CASE JudgeError
  BY <1>8, <1>m DEF JudgeError, Finish, Awaits
<1>9. CASE Backoff
  <2>1. CASE pc' = "backoff"
    <3>1. Retries
      BY <1>9 DEF Backoff, ControlShape, RetryPoints
    <3>2. conf.total # Never /\ conf.total = Total
      BY <3>1 DEF OneDeadline, Total
    <3>3. PICK d \in Delays : due' = now + d /\ ~(conf.total # Never /\ now + d > conf.total)
                              /\ UNCHANGED <<now, wire>>
      BY <1>9, <2>1 DEF Backoff, Finish
    <3>4. d \in Nat
      BY DEF Delays, BackoffDelays
    <3>5. now + d \in Nat /\ now + d <= Limit
      BY <1>t, <1>l, <3>2, <3>3, <3>4
    <3>6. QED
      BY <1>9, <1>h, <1>w, <2>1, <3>3, <3>5 DEF Backoff
  <2>2. CASE pc' # "backoff"
    BY <1>9, <1>m, <2>2 DEF Backoff, Finish, Awaits
  <2>3. QED
    BY <2>1, <2>2
<1>10. CASE HopTop
  <2>1. CASE pc' = "acquire"
    <3>1. due' = Earlier(After(PoolTimeout), hop.deadline) /\ UNCHANGED <<now, wire>> /\ pc = "hop"
          /\ hop'.deadline = hop.deadline
      BY <1>10, <2>1 DEF HopTop, Fail, TypeOK, HopType
    <3>2. QED
      BY <1>e, <1>h, <1>w, <2>1, <3>1
  <2>2. CASE pc' # "acquire"
    BY <1>10, <1>m, <2>2 DEF HopTop, Fail, Awaits
  <2>3. QED
    BY <2>1, <2>2
<1>11. CASE RedirectDecision
  <2>1. CASE pc' = "drainHop"
    <3>1. /\ due' = Earlier(After(DrainCap), hop.deadline) /\ UNCHANGED <<now, hop, wire>>
          /\ pc = "headers"
      BY <1>11, <2>1 DEF RedirectDecision, Fail
    <3>2. QED
      BY <1>e, <1>h, <1>w, <2>1, <3>1 DEF Times
  <2>2. CASE pc' # "drainHop"
    BY <1>11, <1>m, <2>2 DEF RedirectDecision, Fail, Awaits
  <2>3. QED
    BY <2>1, <2>2
<1>12. CASE AdvanceRedirect
  <2>1. CASE pc' = "hop"
    <3>1. UNCHANGED <<now, wire>> /\ pc = "advance" /\ hop'.deadline = hop.deadline
      BY <1>12, <2>1, ZenonT(60) DEF AdvanceRedirect, Fail, NextHop, TypeOK, HopType
    <3>2. QED
      BY <1>h, <1>w, <2>1, <3>1 DEF Awaits
  <2>2. CASE pc' # "hop"
    BY <1>12, <1>m, <2>2 DEF AdvanceRedirect, Fail, Awaits
  <2>3. QED
    BY <2>1, <2>2
<1>13. CASE Acquire
  <2>1. CASE pc' = "dispatch"
    <3>1. /\ UNCHANGED <<now, hop>> /\ pc = "acquire" /\ due' = hop.deadline
          /\ ~Passed(hop.deadline)
          /\ \E over \in {"tcp", "h3"} : wire' = Prepared(over)
      BY <1>13, <2>1 DEF Acquire, Fail
    <3>2. /\ hop.deadline = Total /\ now < Total
      BY <1>h, <1>t, <3>1 DEF Passed
    <3>3. /\ wire'.over \in {"tcp", "h3"}
          /\ wire'.over = "h3" => wire'.left = Total - now
      BY <3>1, <3>2 DEF Prepared, Remaining
    <3>4. Limit' = Total
      BY <1>w, <3>3 DEF Limit
    <3>5. now <= Total /\ Total - now \in Nat /\ Total - now <= Total
      BY <1>t, <3>2
    <3>6. wire'.over = "h3" => wire'.left # Never /\ wire'.left <= Total
      BY <3>3, <3>5
    <3>7. QED
      BY <1>t, <2>1, <3>1, <3>2, <3>4, <3>5, <3>6
  <2>2. CASE pc' # "dispatch"
    BY <1>13, <1>m, <2>2 DEF Acquire, Fail, Awaits
  <2>3. QED
    BY <2>1, <2>2
<1>14. ASSUME NEW status \in Statuses, NEW location \in Locations,
              NEW setCookie \in BOOLEAN, NEW retryAfter \in BOOLEAN,
              Answer(status, location, setCookie, retryAfter)
       PROVE  Goal
  BY <1>14, <1>m DEF Answer, Awaits
<1>15. CASE UNCHANGED vars
  BY <1>0, <1>15 DEF vars
<1>16. CASE FallsBack
  <2>1. /\ pc = "dispatch" /\ wire.over = "h3" /\ due' = After(wire.left)
        /\ UNCHANGED <<now, pc, hop>>
    BY <1>16 DEF FallsBack
  <2>2. wire'.over = "fallback" /\ wire.left \in Times
    BY <1>16 DEF FallsBack, TypeOK, WireType
  <2>3. wire.left \in Nat /\ wire.left <= Total /\ now <= Total
    BY <1>h, <2>1, <2>2 DEF Times, Limit
  <2>4. Limit' = 2 * Total
    BY <1>w, <2>2 DEF Limit
  <2>5. due' = now + wire.left
    BY <2>1, <2>3 DEF After
  <2>6. due' \in Nat /\ due' <= 2 * Total /\ now <= 2 * Total
    BY <1>t, <2>3, <2>5
  <2>7. QED
    BY <1>h, <2>1, <2>2, <2>4, <2>6
<1>17. QED
  BY <1>1, <1>2, <1>3, <1>4, <1>6, <1>7, <1>8, <1>9, <1>10, <1>11, <1>12, <1>13, <1>14, <1>15, <1>16,
     NextCases

-----------------------------------------------------------------------------
(***************************************************************************)
(* The theorems.                                                           *)
(***************************************************************************)
\* A request that has not been sent satisfies the inductive invariant.
LEMMA InvInit == Init => IInv
<1> SUFFICES ASSUME Init
             PROVE  IInv
  OBVIOUS
<1>1. TypeOK
  BY TypeInit
<1>2. ControlShape /\ ScopeShape /\ HopsInScope
  BY PipelineAssumption DEF Init, ControlShape, ScopeShape, HopsInScope, HopPoints, Prepare, Sent, RetryPoints
<1>3. ClockShape
  <2>1. Total # Never => 0 <= Total
    BY PipelineAssumption DEF Init, Total, RequestType, Times
  <2>2. QED
    BY <2>1 DEF Init, ClockShape, Limit, HopPoints, Prepare, Sent, Awaits
<1>4. Budget(attempt) \in Nat /\ Budget(MaxAttempts) \in Nat
  BY Budgets, PipelineAssumption DEF Init
<1>5. ReplayShape
  BY <1>4 DEF Init, ReplayShape, HopPoints, Prepare, Sent
<1>6. ReplayAllowed
  BY <1>4 DEF Init, ReplayAllowed, Budget
<1>7. QED
  BY <1>1, <1>2, <1>3, <1>5, <1>6 DEF IInv

\* Every reachable state satisfies the inductive invariant: the shapes of the control,
\* the clock, the scope and the replay state, and the properties they carry.
THEOREM InductiveInvariant == Spec => []IInv
<1>1. Init => IInv
  BY InvInit
<1>2. IInv /\ [Next]_vars => IInv'
  BY TypeStep, ControlStep, ClockStep, ScopeStep, ReplayStep DEF IInv
<1>3. QED
  BY <1>1, <1>2, PTL DEF Spec

\* For any number of origins, hops and attempts: credentials, request-local cookies and
\* resolved targets stay with the request's own origin, and Deny keeps https hops https.
THEOREM ScopeIsKept == Spec => []HopsInScope
<1>1. IInv => HopsInScope
  BY DEF IInv
<1>2. QED
  BY <1>1, InductiveInvariant, PTL

\* For any policy: a one-shot stream, a dropped body and a method that may not be
\* retried are never sent again, and no more requests leave than the policies allow.
THEOREM ReplayIsAllowed == Spec => []ReplayAllowed
<1>1. IInv => ReplayAllowed
  BY DEF IInv
<1>2. QED
  BY <1>1, InductiveInvariant, PTL

\* For any timeouts: a request whose total is its own, or that is attempted once, is never
\* running past its total - past twice its total, where its last dispatch is the TCP
\* fallback of an HTTP/3 attempt.  (With the client's total and retries, and with one total
\* over a fallback, it may be: the runs pipeline_client_total and pipeline_fallback_total.)
THEOREM TotalIsBound == Spec => []TotalBound
<1>1. IInv => TotalBound
  BY DEF IInv, ClockShape, TotalBound, Limit
<1>2. QED
  BY <1>1, InductiveInvariant, PTL
=============================================================================
