------------------------------- MODULE Tunnel -------------------------------
(***************************************************************************)
(* How one request gets its connection: the connectors under transport/    *)
(* (direct_connector.rs, uds.rs, dialer.rs, proxy.rs, connect.rs,          *)
(* socks.rs), the connect timeout wrapped around them and the fallback     *)
(* from one destination address to the next.                               *)
(*                                                                         *)
(* A route is a sequence of stages.  Each stage is one await: it succeeds, *)
(* fails, is told that this destination is bad, or runs into a timer.      *)
(* Hosts, headers and bytes are left out; what a stage writes is kept as   *)
(* the fact that it was written, on which connection.  A cached route is   *)
(* driven by Hyper, which sends the request itself once the connection is  *)
(* there (module Exchange); the CONNECT route with several pinned targets  *)
(* writes the request and reads the head by hand.                          *)
(***************************************************************************)
EXTENDS Naturals, Sequences, FiniteSets

CONSTANTS MaxAddresses,   \* bound: addresses of the host that is dialled
          MaxTargets,     \* bound: destinations offered to a proxy
          MaxInstant,     \* bound: the clock
          Plans           \* the requests considered, a subset of Plan

NoTime == MaxInstant + 1  \* "no timeout configured"

Routes == {"direct", "uds", "dialer", "forward", "connect", "socks"}

\* A request as its dispatcher hands it over: cached is FALSE for the CONNECT
\* route that cannot use a Hyper client, addresses are those of the host that
\* is dialled, targets those of the destination behind a proxy; localDns is
\* the socks5 scheme, whose client looks the destination up itself.
Plan == [route : Routes, cached : BOOLEAN, tls : BOOLEAN, proxyTls : BOOLEAN,
         auth : BOOLEAN, manualAuth : BOOLEAN, http2Only : BOOLEAN, replayable : BOOLEAN,
         localDns : BOOLEAN, addresses : 0 .. MaxAddresses, targets : 1 .. MaxTargets,
         connect : 1 .. NoTime, io : 1 .. NoTime, deadline : 1 .. NoTime]
\* proxy_dispatch.rs: only a CONNECT route may go uncached, and must when it
\* has several pinned targets; without a proxy there is one destination.
Dispatchable(p) ==
    /\ p.route # "connect" => p.cached
    /\ p.route = "connect" => p.tls /\ (p.targets > 1 => ~p.cached)
    /\ p.targets > 1 => p.route \in {"connect", "socks"}
    /\ p.localDns => p.route = "socks"

ASSUME TunnelAssumption ==
    /\ MaxAddresses \in Nat \ {0} /\ MaxTargets \in Nat \ {0} /\ MaxInstant \in Nat
    /\ \A p \in Plans : p \in Plan /\ Dispatchable(p)

VARIABLES plan, tn

tunnelVars == <<plan, tn>>

\* stage counts from 1 into Stages, 0 before the first and after the last;
\* attempted, refused and skipped count addresses; conn numbers the connections made,
\* written says what went out on each; limit is the instant the running timer
\* fires; sends counts requests written to an origin; result is how it ended.
Written == {"greeting", "credentials", "command", "request"}
TunnelState ==
    [stage : 0 .. 7, target : 1 .. MaxTargets, attempted : 0 .. MaxAddresses,
     refused : 0 .. MaxAddresses, skipped : 0 .. MaxAddresses, conn : 0 .. MaxTargets, dead : SUBSET (1 .. MaxTargets),
     written : [1 .. MaxTargets -> SUBSET Written], commands : [1 .. MaxTargets -> 0 .. MaxTargets],
     now : 0 .. MaxInstant, limit : 0 .. NoTime, sends : 0 .. MaxTargets,
     result : {"none", "open", "response", "conflict", "unsupported", "rejected",
               "refused", "failed", "timeout", "total"}]

TunnelTypeOK == plan \in Plan /\ tn \in TunnelState
-----------------------------------------------------------------------------
Opt(c, s) == IF c THEN s ELSE << >>

\* What each connector's call awaits, in order.  DirectConnector resolves
\* first; UdsConnector and DialerConnector have one endpoint; the two HTTP
\* proxies and SOCKS dial the proxy and talk to it before the origin's TLS.
DirectStages == <<"dns", "tcp">> \o Opt(plan.tls, <<"tls">>)
UdsStages == <<"tcp">> \o Opt(plan.tls, <<"tls">>)
DialerStages == <<"dial">> \o Opt(plan.tls, <<"tls">>)
connect_to_proxy == <<"tcp">> \o Opt(plan.proxyTls, <<"proxyTls">>)
ForwardStages == connect_to_proxy
establish_https_tunnel == connect_to_proxy \o <<"command", "reply", "tls">>
ConnectStages == establish_https_tunnel
send_https_connect_request_once == establish_https_tunnel \o <<"write", "read">>
establish_socks_proxy_connection == <<"tcp", "greet">> \o Opt(plan.auth, <<"auth">>)
resolve_dest_ips == Opt(plan.localDns, <<"resolve">>)
socks5_handshake == resolve_dest_ips \o establish_socks_proxy_connection \o <<"command", "reply">>
SocksStages == socks5_handshake \o Opt(plan.tls, <<"tls">>)
\* Where the attempt at another target begins: the lookup is not repeated.
FirstOfAttempt == 1 + Len(resolve_dest_ips)

Stages ==
    CASE plan.route = "direct"  -> DirectStages
      [] plan.route = "uds"     -> UdsStages
      [] plan.route = "dialer"  -> DialerStages
      [] plan.route = "forward" -> ForwardStages
      [] plan.route = "connect" /\ plan.cached  -> ConnectStages
      [] plan.route = "connect" /\ ~plan.cached -> send_https_connect_request_once
      [] plan.route = "socks"   -> SocksStages
Stage == Stages[tn.stage]
Running == tn.result = "none" /\ tn.stage > 0

\* The checks made before any I/O: a request with its own Proxy-Authorization
\* next to configured credentials, HTTP/2 only through a forward proxy, and a
\* body that cannot be cloned for a second CONNECT target.
ProxyRoute == plan.route \in {"forward", "connect", "socks"}
Refusal ==
    IF ProxyRoute /\ plan.auth /\ plan.manualAuth THEN "conflict"
    ELSE IF plan.route = "forward" /\ plan.http2Only THEN "unsupported"
    ELSE IF ~plan.cached /\ plan.targets > 1 /\ ~plan.replayable THEN "failed" ELSE "none"

\* effective_timeout: what is left of the deadline caps the stage's own
\* budget, measured against a clock read when the stage begins.
Earlier(a, b) == IF a <= b THEN a ELSE b
effective_timeout(budget, now) ==
    LET own == IF budget = NoTime THEN NoTime ELSE now + budget
    IN  Earlier(own, plan.deadline)

\* Mutant: the waits for a proxy's answer run without a timer.
BudgetNoReply(s) == IF s \in {"command", "reply", "write", "read"} THEN NoTime ELSE plan.connect

\* The timer a stage runs under.  On a cached route ConnectTimeout starts one
\* timer for the whole establishment, whatever the number of targets; the
\* hand-written CONNECT gives each stage a timer of its own.
Budget(s) == IF s \in {"command", "reply", "write", "read"} THEN plan.io ELSE plan.connect
ConnectTimeout(state) ==
    IF state.stage > 0 THEN state.limit
    ELSE IF plan.connect = NoTime THEN NoTime ELSE state.now + plan.connect
LimitFor(state, n) ==
    IF plan.cached THEN ConnectTimeout(state) ELSE effective_timeout(Budget(Stages[n]), state.now)

End(r) == tn' = [tn EXCEPT !.result = r, !.stage = 0, !.limit = NoTime]

\* A stage begins: the deadline is looked at first, then its timer is set.
\* The first stage of every attempt opens a connection.
EnterStage(state, n) ==
    IF ~plan.cached /\ plan.deadline <= state.now
    THEN [state EXCEPT !.result = "total", !.stage = 0, !.limit = NoTime]
    ELSE [state EXCEPT !.stage = n, !.limit = LimitFor(state, n),
                       !.attempted = IF n = FirstOfAttempt THEN 0 ELSE @,
                       !.refused = IF n = FirstOfAttempt THEN 0 ELSE @,
                       !.skipped = IF n = FirstOfAttempt THEN 0 ELSE @]

\* What the attempt at the next target starts from: a fresh connection.
NextTarget(state) == [state EXCEPT !.target = @ + 1, !.dead = @ \cup {state.conn}]

TunnelStart ==
    [stage |-> 0, target |-> 1, attempted |-> 0, refused |-> 0, skipped |-> 0, conn |-> 0, dead |-> {},
     written |-> [c \in 1 .. MaxTargets |-> {}], commands |-> [c \in 1 .. MaxTargets |-> 0],
     now |-> 0, limit |-> NoTime, sends |-> 0, result |-> "none"]

TunnelInit == plan \in Plans /\ tn = TunnelStart

StartRequest ==
    /\ tn.stage = 0 /\ tn.result = "none"
    /\ IF Refusal # "none" THEN End(Refusal) ELSE tn' = EnterStage(tn, 1)
    /\ UNCHANGED plan
-----------------------------------------------------------------------------
(***************************************************************************)
(* Opening the socket: one address after the other.                        *)
(***************************************************************************)
classify_tcp_failures(attempted, refused) ==
    IF plan.route = "direct" /\ attempted > 0 /\ attempted = refused THEN "refused" ELSE "failed"

\* The request is handed to Hyper, or the attempt by hand is complete.
Advance(state) ==
    IF tn.stage < Len(Stages) THEN EnterStage(state, tn.stage + 1)
    ELSE [state EXCEPT !.result = IF plan.cached THEN "open" ELSE "response",
                       !.stage = 0, !.limit = NoTime]

Dialling == Running /\ Stage \in {"tcp", "dial"}
\* uds.rs and dialer.rs know one endpoint.
Endpoints == IF plan.route \in {"uds", "dialer"} THEN 1 ELSE plan.addresses

\* A reused socket of a rejected attempt keeps its number (NextTarget decides).
Opened(state) ==
    IF state.conn = 0 \/ state.conn \in state.dead
    THEN [state EXCEPT !.conn = @ + 1] ELSE state

NextAddress == Dialling /\ tn.attempted + tn.skipped < Endpoints

AddressConnects ==
    /\ NextAddress
    /\ tn' = Advance(Opened(tn))
    /\ UNCHANGED plan

\* Connect failed, or the local bind did (never counted as a refusal).
AddressFails(isRefusal) ==
    /\ NextAddress
    /\ tn' = [tn EXCEPT !.attempted = @ + 1, !.refused = IF isRefusal THEN @ + 1 ELSE @]
    /\ UNCHANGED plan

\* A configured local address of the other family: not counted as an attempt.
AddressSkipped ==
    /\ NextAddress /\ plan.route = "direct"
    /\ tn' = [tn EXCEPT !.skipped = @ + 1]
    /\ UNCHANGED plan

\* The socket cannot be created, or an option is unknown or refused: the
\* other addresses are not tried.
apply_socket_option ==
    /\ NextAddress /\ plan.route = "direct"
    /\ End("failed")
    /\ UNCHANGED plan

\* No address left: a dead proxy or host ends the request, other targets are
\* not tried.
AddressesExhausted ==
    /\ Dialling /\ tn.attempted + tn.skipped = Endpoints
    /\ End(classify_tcp_failures(tn.attempted, tn.refused))
    /\ UNCHANGED plan
-----------------------------------------------------------------------------
(***************************************************************************)
(* Every other stage.                                                      *)
(***************************************************************************)
negotiate_method == {"greeting"}
authenticate == {"credentials"}
\* The CONNECT head carries the credentials, the SOCKS command does not.
encode_connect_request ==
    {"command"} \cup IF plan.route = "connect" /\ plan.auth THEN {"credentials"} ELSE {}
write_proxy_request == {"request"}

Puts(s) == CASE s = "greet" -> negotiate_method
             [] s = "auth" -> authenticate
             [] s = "command" -> encode_connect_request
             [] s = "write" -> write_proxy_request
             [] OTHER -> {}

\* The stage writes before it waits, so its bytes may be out when it fails.
Put(state, s) ==
    [state EXCEPT !.written[state.conn] = @ \cup Puts(s),
                  !.commands[state.conn] = IF s = "command" THEN @ + 1 ELSE @,
                  !.sends = IF s = "write" THEN @ + 1 ELSE @]
Holding == Running /\ Stage \notin {"tcp", "dial"}
Sent == IF Stage \in {"dns", "resolve"} THEN tn ELSE Put(tn, Stage)

StageSucceeds ==
    /\ Holding
    /\ tn' = Advance(Sent)
    /\ UNCHANGED plan

\* Mutant: any failure moves the request on to the next target.
RetryUntilTargetsEnd(destinationIsTheReason) == tn.target < plan.targets

\* Only a proxy that answers 502 or 504, or the SOCKS replies 3, 4 and 5,
\* says that this destination is the reason; nothing else moves the request
\* on to the next target.
target_failure_may_retry(destinationIsTheReason) ==
    destinationIsTheReason /\ tn.target < plan.targets
AttemptFails(state, destinationIsTheReason, r) ==
    IF target_failure_may_retry(destinationIsTheReason) THEN EnterStage(NextTarget(state), FirstOfAttempt)
    ELSE [state EXCEPT !.result = r, !.stage = 0, !.limit = NoTime]

\* DNS, a handshake, credentials, a malformed answer, the request or its head.
StageFails ==
    /\ Holding /\ Stage # "resolve"
    /\ tn' = AttemptFails(Sent, FALSE, "failed")
    /\ UNCHANGED plan

\* A failed lookup is not an error yet: the handshake goes on with the host
\* name as its only target and looks it up once more.
LookupFails ==
    /\ Running /\ Stage = "resolve"
    /\ tn' = Advance([tn EXCEPT !.target = plan.targets])
    /\ UNCHANGED plan

\* The proxy refuses the command.
ProxyRejects(destinationIsTheReason) ==
    /\ Running /\ Stage = "reply"
    /\ tn' = AttemptFails(tn, destinationIsTheReason, "rejected")
    /\ UNCHANGED plan
-----------------------------------------------------------------------------
(***************************************************************************)
(* Time.  A timer that is due is served before the clock moves on.         *)
(***************************************************************************)
StageTimesOut ==
    /\ Running /\ tn.limit <= tn.now
    /\ tn' = [tn EXCEPT !.result = "timeout", !.stage = 0, !.limit = NoTime]
    /\ UNCHANGED plan

\* send_with_total_timeout around the whole dispatch.
TotalTimesOut ==
    /\ Running /\ plan.deadline <= tn.now
    /\ End("total")
    /\ UNCHANGED plan

TunnelTick ==
    /\ Running /\ tn.now < Earlier(tn.limit, plan.deadline) /\ tn.now < MaxInstant
    /\ tn' = [tn EXCEPT !.now = @ + 1]
    /\ UNCHANGED plan

TunnelNext ==
    \/ StartRequest
    \/ AddressConnects
    \/ \E b \in BOOLEAN : AddressFails(b)
    \/ AddressSkipped
    \/ apply_socket_option
    \/ AddressesExhausted
    \/ StageSucceeds
    \/ StageFails
    \/ LookupFails
    \/ \E b \in BOOLEAN : ProxyRejects(b)
    \/ StageTimesOut
    \/ TotalTimesOut
    \/ TunnelTick

TunnelSpec == TunnelInit /\ [][TunnelNext]_tunnelVars

\* The runtime polls a request that can go on and serves due timers; the
\* network owes nothing, so no stage is assumed to succeed or to fail.
TunnelFairness ==
    /\ WF_tunnelVars(StartRequest) /\ WF_tunnelVars(AddressesExhausted)
    /\ WF_tunnelVars(StageTimesOut) /\ WF_tunnelVars(TotalTimesOut) /\ WF_tunnelVars(TunnelTick)
-----------------------------------------------------------------------------
(* SentOnce: whatever fails and whichever targets are tried, the request is    *)
(* written to an origin at most once - the fallback from one CONNECT target to *)
(* the next (connect.rs, send_https_connect_request) may only happen while     *)
(* nothing of the request has left, or a body or a POST would be sent twice -  *)
(* and a proxy connection that has carried one CONNECT is not given another:   *)
(* after a refusal it may hold the rest of an answer, so both loops (connect.rs *)
(* and socks.rs) dial the proxy again.                                         *)
SentOnce ==
    /\ tn.sends <= 1
    /\ \A c \in 1 .. MaxTargets : tn.commands[c] <= 1

(* EstablishEnds: when the timeouts that cover the route's stages are set - the *)
(* connect timeout of a cached route, the connect and the read/write ones of   *)
(* the CONNECT by hand, or a total deadline - a request gets a connection, an  *)
(* answer or an error, even when no peer ever says anything.                   *)
Covered == \/ plan.deadline # NoTime
           \/ plan.connect # NoTime /\ (plan.cached \/ plan.io # NoTime)
EstablishEnds == Covered ~> tn.result # "none"
=============================================================================
