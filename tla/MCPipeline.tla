----------------------------- MODULE MCPipeline -----------------------------
(* RequestPipeline for TLC: the requests each run tries.                   *)
EXTENDS RequestPipeline

\* Every method, body and credential policy, without a deadline.
PolicyRequests ==
    {r \in [method : {"GET", "POST"}, body : {"empty", "bytes", "stream"},
            auth : {"none", "manual", "scheme", "both"}, cookie : BOOLEAN, pinned : BOOLEAN,
            follow : BOOLEAN, deny : BOOLEAN, h3 : BOOLEAN,
            total : {Never}, clientTotal : {Never}] :
        /\ r.h3 <=> r.deny /\ r.auth = "none"
        /\ r.method = "GET" <=> r.body = "empty"
        /\ r.pinned => r.auth = "none"
        /\ r.cookie => r.auth \in {"manual", "scheme"}
        /\ ~r.follow => r.auth = "none"}

\* A plain GET under the deadlines of the request or the client.
Plain(total, clientTotal) ==
    [method |-> "GET", body |-> "empty", auth |-> "none", cookie |-> FALSE, pinned |-> FALSE,
     follow |-> TRUE, deny |-> FALSE, h3 |-> FALSE, total |-> total,
     clientTotal |-> clientTotal]

\* The same where HTTP/3 may be tried first.
OverH3(r) == [r EXCEPT !.h3 = TRUE]

TimedRequests == {OverH3(Plain(3, Never)), Plain(3, 2), Plain(Never, Never), Plain(Never, 2),
                  OverH3([Plain(Never, 2) EXCEPT !.body = "stream"])}
ClientTimedRequests == {Plain(Never, 3)}
FallbackTimedRequests == {OverH3(Plain(2, Never))}
=============================================================================
