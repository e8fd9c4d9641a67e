--------------------------- MODULE RouteSelection ---------------------------
(***************************************************************************)
(* Which proxy, which route and which configured Hyper client a request is *)
(* dispatched on: the proxy choice of pipeline/prepare.rs over proxy.rs    *)
(* and proxy/no_proxy.rs, the rejections of prepare.rs and                 *)
(* custom_dialing.rs, the precedence of pipeline/route.rs, and the bounded *)
(* get-or-build client caches of client/routes.rs.                         *)
(*                                                                         *)
(* A host is its labels, top level first, so that a label-boundary suffix  *)
(* of the text is a prefix here; an IP literal is one label.  Port 0 is    *)
(* "not written", time 0 is "no timeout", <<>> is "no addresses".          *)
(***************************************************************************)
EXTENDS Integers, Sequences, FiniteSets, SequencesExt

CONSTANTS
    Setups,         \* the client configurations to build
    Calls(_),       \* the requests the callers of a client make
    Loopback,       \* the hosts that are loopback IP literals
    ClientCapacity  \* bound of each client cache (64 or 256 in the code)

Missing == "-"
Localhost == <<"localhost">>

ProxySchemes == {"http", "https", "socks5", "socks5h"}

\* A proxy configuration, of which everything but the peers may be missing ("none": no scheme
\* is written; "other": one that is refused), and a rule of a parsed NO_PROXY.
Optional == STRING \cup {Missing}
ProxyConfig == [scheme : ProxySchemes \cup {"none", "other", Missing}, uri : Optional,
                auth : Optional, headers : Optional, tls : Optional, peers : Seq(STRING)]
NoProxyRule == [kind : STRING, host : Seq(STRING), port : Nat, scheme : STRING,
                members : SUBSET Seq(STRING), dotted : BOOLEAN]
ClientProxy == [config : ProxyConfig, rule : {"All", "Http", "Https"}, bypass : SUBSET NoProxyRule]

\* Configured proxies are of this shape; a request's URL has one of the two
\* schemes a client accepts, and ProxyOverride is one of its three variants.
ASSUME RouteAssumption ==
    \A s \in Setups :
        /\ {s.uds, s.dialer, s.direct} \subseteq BOOLEAN
        /\ s.proxies \in Seq(ClientProxy)
        /\ {s.env.http, s.env.https, s.env.all} \subseteq ProxyConfig
        /\ \A r \in Calls(s) : /\ r.scheme \in {"http", "https"} /\ r.proxy \in ProxyConfig
                                /\ r.override \in {"inherit", "direct", "proxy"}

VARIABLES setup, clients, sent

routeVars == <<setup, clients, sent>>

NoProxyConfig == [scheme |-> Missing, uri |-> Missing, auth |-> Missing, headers |-> Missing,
                  tls |-> Missing, peers |-> <<>>]

-----------------------------------------------------------------------------
(* NO_PROXY: an entry has a form, and two parsers give it different rules. *)
(* HostPortExact is not here: the HTTPX parser, the only one to make it,   *)
(* has refused every bracketed entry before it gets there.                 *)

InvalidRule == [kind |-> "Invalid"]
WithKind(e, kind) == [kind |-> kind, host |-> e.host, port |-> e.port,
                      scheme |-> e.scheme, members |-> e.members,
                      dotted |-> e.form \in {"suffix", "suffixPort"}]

\* The HTTPX parser takes IP-shaped entries first, by narrower rules.
parse_httpx_ip_entry(e) ==
    CASE e.form \in {"ipv4", "ipv4net"} -> WithKind(e, "HostExact")
      [] e.form = "ipv6" -> WithKind(e, "Host")
      [] OTHER -> InvalidRule

IpShaped == {"ipv4", "ipv4net", "ipv6", "ipv6net", "bracketed", "bracketedPort"}

parse_entry(e, httpx) ==
    IF httpx /\ e.form \in IpShaped THEN parse_httpx_ip_entry(e) ELSE
    CASE e.form = "wildcard" -> WithKind(e, "Wildcard")
      [] e.form = "localhost" -> WithKind(e, IF httpx THEN "LocalhostExact" ELSE "Localhost")
      [] e.form = "url" -> IF httpx THEN WithKind(e, "SchemeHostPort") ELSE InvalidRule
      [] e.form \in {"ipv4", "ipv6", "bracketed", "host"} -> WithKind(e, "Host")
      [] e.form \in {"ipv4net", "ipv6net"} -> WithKind(e, "IpNetwork")
      [] e.form = "bracketedPort" -> WithKind(e, "HostPort")
      [] e.form \in {"hostPort", "suffixPort"} -> WithKind(e,
                                               IF httpx THEN "HostPortHttpx" ELSE "HostPort")
      [] e.form = "suffix" -> WithKind(e, "DomainSuffix")
      [] OTHER -> InvalidRule

parse_rules(entries, httpx) == {parse_entry(e, httpx) : e \in entries}

matches_host_rule(host, rule) == IsPrefix(rule, host)
matches_domain_suffix(host, suffix) == IsStrictPrefix(suffix, host)
default_port_for_scheme(scheme) == IF scheme = "https" THEN 443 ELSE 80
EffectivePort(scheme, port) == IF port = 0 THEN default_port_for_scheme(scheme) ELSE port

\* Whether one rule takes this destination off the proxy.
RuleMatches(rule, scheme, host, port) ==
    CASE rule.kind = "Wildcard" -> TRUE
      [] rule.kind = "Localhost" -> host = Localhost \/ host \in Loopback
      [] rule.kind = "LocalhostExact" -> host = Localhost
      [] rule.kind = "Host" -> matches_host_rule(host, rule.host)
      [] rule.kind = "HostExact" -> host = rule.host
      [] rule.kind = "DomainSuffix" -> matches_domain_suffix(host, rule.host)
      [] rule.kind = "HostPort" -> EffectivePort(scheme, port) = rule.port
                                   /\ IF rule.dotted THEN matches_domain_suffix(host, rule.host)
                                      ELSE matches_host_rule(host, rule.host)
      [] rule.kind = "HostPortHttpx" -> port = rule.port /\ matches_host_rule(host, rule.host)
      [] rule.kind = "IpNetwork" -> host \in rule.members
      [] rule.kind = "SchemeHostPort" -> scheme = rule.scheme /\ host = rule.host
                                         /\ rule.port \in {0, EffectivePort(scheme, port)}

should_bypass_components(rules, scheme, host, port) ==
    \E rule \in rules : RuleMatches(rule, scheme, host, port)

-----------------------------------------------------------------------------
(* Proxies: built from explicit configuration or from the environment.     *)

should_use_for_scheme(proxy, scheme) ==
    \/ proxy.rule = "All"
    \/ proxy.rule = "Http" /\ scheme = "http"
    \/ proxy.rule = "Https" /\ scheme = "https"

\* A value without a scheme is an http proxy; other schemes are refused.
normalize_proxy_url(raw) == IF raw.scheme = "none" THEN [raw EXCEPT !.scheme = "http"] ELSE raw
parse_proxy_url(raw) == normalize_proxy_url(raw).scheme \in ProxySchemes

EnvProxy(raw, rule, env) ==
    [config |-> normalize_proxy_url(raw), rule |-> rule,
     bypass |-> parse_rules(env.noProxy, FALSE)]

\* The proxy of a variable that is set, to be pushed on the list.
IfSet(raw, rule, env) == IF raw = NoProxyConfig THEN <<>> ELSE <<EnvProxy(raw, rule, env)>>

\* Mutant: the fallback proxy listed before the specific ones.
client_proxies_fallback_first(env) ==
    IfSet(env.all, "All", env) \o (IfSet(env.https, "Https", env) \o IfSet(env.http, "Http", env))

\* The scheme-scoped proxies of an environment, specific before fallback.
client_proxies(env) ==
    IfSet(env.http, "Http", env) \o (IfSet(env.https, "Https", env) \o IfSet(env.all, "All", env))

\* The variables that are set.
EnvValues(env) == {env.http, env.https, env.all} \ {NoProxyConfig}

EnvironmentValid(env) ==
    /\ InvalidRule \notin parse_rules(env.noProxy, FALSE)
    /\ \A raw \in EnvValues(env) : parse_proxy_url(raw)

\* ProxyEnvironment::resolve, the one-shot resolution of the same snapshot.
select_proxy(env, scheme) ==
    LET specific == IF scheme = "https" THEN env.https ELSE env.http
    IN  IF specific # NoProxyConfig THEN specific ELSE env.all

EnvironmentResolve(env, scheme, host, port) ==
    IF should_bypass_components(parse_rules(env.noProxy, FALSE), scheme, host, port)
    THEN NoProxyConfig
    ELSE normalize_proxy_url(select_proxy(env, scheme))

Candidates == setup.proxies \o client_proxies(setup.env)

\* The first of these proxies that applies to the scheme and is not bypassed.
FirstUsable(proxies, scheme, host, port) ==
    LET usable == {i \in DOMAIN proxies :
                      /\ should_use_for_scheme(proxies[i], scheme)
                      /\ ~should_bypass_components(proxies[i].bypass, scheme, host, port)}
    IN  IF usable = {} THEN NoProxyConfig ELSE proxies[Min(usable)].config

InheritedProxy(scheme, host, port) == FirstUsable(Candidates, scheme, host, port)

\* url::Url drops a port that is the scheme's default; http::Uri keeps it.
UrlPort(r) == IF r.port = default_port_for_scheme(r.scheme) THEN 0 ELSE r.port

resolve_proxy(r) ==
    CASE r.override = "inherit" -> InheritedProxy(r.scheme, r.host, UrlPort(r))
      [] r.override = "direct" -> NoProxyConfig
      [] r.override = "proxy" -> r.proxy

native_would_use_proxy(r) == InheritedProxy(r.scheme, r.host, r.port) # NoProxyConfig

is_socks(p) == p.scheme \in {"socks5", "socks5h"}

-----------------------------------------------------------------------------
(* What is refused before the route is chosen.                             *)

\* The arms in the code's order; "none" when nothing conflicts.
custom_dialing_conflict(r, hasProxy) ==
    IF ~setup.dialer THEN "none"
    ELSE IF r.pinned # <<>> THEN "ResolvedDestinations"
    ELSE IF setup.direct THEN "LocalAddressOrSocketOptions"
    ELSE IF setup.uds THEN "UnixDomainRouting"
    ELSE IF setup.version = "http3Only" THEN "Http3"
    ELSE IF hasProxy THEN "BuiltInProxyRouting" ELSE "none"

PrepareRefuses(r, p) ==
    \/ r.proxied # <<>> /\ (p = NoProxyConfig \/ p.scheme = "socks5h"
                            \/ (r.scheme = "http" /\ ~is_socks(p)))
    \/ r.pinned # <<>> /\ (p # NoProxyConfig \/ setup.uds)
    \/ custom_dialing_conflict(r, FALSE) # "none"

NativeRefuses(r) ==
    \/ native_would_use_proxy(r)
    \/ custom_dialing_conflict(r, FALSE) # "none"
    \/ setup.version = "http3Only"

select_route(hasUds, hasCustom, hasDirectNoProxy, hasProxy, hasSni, useH3) ==
    IF hasUds THEN "Uds"
    ELSE IF hasCustom THEN "Custom"
    ELSE IF hasDirectNoProxy THEN "Direct"
    ELSE IF hasProxy THEN "Proxy"
    ELSE IF hasSni THEN "SniDirect"
    ELSE IF useH3 THEN "H3" ELSE "Standard"

\* HTTP/3 is used by policy, or for a discovered alternative of an https
\* origin that nothing else routes.
decide_h3_use(r, p, discovered) ==
    \/ setup.version = "http3Only"
    \/ /\ discovered /\ setup.version = "autoH3" /\ r.scheme = "https"
       /\ ~setup.uds /\ ~setup.dialer /\ p = NoProxyConfig /\ r.sni = Missing

-----------------------------------------------------------------------------
(* Configured clients and their caches.                                    *)

Origin(r) == <<r.scheme, r.host, EffectivePort(r.scheme, r.port)>>

AnyClient == [family |-> Missing, origin |-> <<>>, proxy |-> NoProxyConfig, pins |-> <<>>,
              target |-> <<>>, sni |-> Missing, connect |-> 0]

\* The clients built once with the ClientBuilder take everything from it.
Singleton(family) == [AnyClient EXCEPT !.family = family, !.connect = setup.connect]

\* What a connection to an HTTP proxy depends on (credentials as a digest).
connection_identity(p) ==
    [scheme |-> p.scheme, uri |-> p.uri, auth |-> p.auth, headers |-> p.headers, tls |-> p.tls,
     peers |-> p.peers]

\* Proxy headers and proxy TLS have no part in a SOCKS connection.
SocksLeg(p) == [p EXCEPT !.headers = Missing, !.tls = Missing]

\* The keys the families are cached under.
SniKey(family, r) == [AnyClient EXCEPT !.family = family, !.sni = r.sni]

ResolvedRouteKey(r) ==
    [SniKey("resolved", r) EXCEPT !.origin = Origin(r), !.pins = r.pinned]

SocksRouteKey(r, p) ==
    [AnyClient EXCEPT !.family = "socks", !.proxy = SocksLeg(p), !.target = r.proxied]

\* Mutant: the connect budget is not keyed.
ForwardRouteKeyWithoutTimeout(r, p) ==
    [AnyClient EXCEPT !.family = "forward", !.proxy = connection_identity(p), !.origin = Origin(r)]

ForwardRouteKey(r, p) ==
    [AnyClient EXCEPT !.family = "forward", !.proxy = connection_identity(p), !.origin = Origin(r),
                      !.connect = r.connect]

ConnectRouteKey(r, p) ==
    [SniKey("connect", r) EXCEPT !.proxy = connection_identity(p), !.origin = Origin(r),
                                 !.target = r.proxied, !.connect = r.connect]

\* What a client of the family is built with for this request: per-request
\* connect budgets on the HTTP proxy families, the client's elsewhere.
BuildFor(family, r, p) ==
    [family |-> family,
     origin |-> IF family = "connect" THEN Origin(r) ELSE <<>>,
     proxy |-> p,
     pins |-> IF family = "resolved" THEN r.pinned ELSE <<>>,
     target |-> r.proxied,
     sni |-> IF family \in {"sni", "sniCustom", "resolved", "connect"} THEN r.sni ELSE Missing,
     connect |-> IF family \in {"forward", "connect"} THEN r.connect ELSE setup.connect]

\* BoundedClientCache::insert: an arbitrary entry of the family makes room.
Inserted(key, client) ==
    LET peers == {k \in DOMAIN clients : k.family = key.family}
        Without(victims) == [k \in (DOMAIN clients \ victims) \union {key} |->
                                IF k = key THEN client ELSE clients[k]]
    IN  IF Cardinality(peers) < ClientCapacity THEN {Without({})}
        ELSE {Without({victim}) : victim \in peers}

Outcome(r, p, result, client) == [call |-> r, proxy |-> p, result |-> result, client |-> client]

Rejected(r, p) == /\ sent' = Outcome(r, p, "rejected", AnyClient)
                  /\ UNCHANGED <<setup, clients>>

DispatchOn(r, p, client) == /\ sent' = Outcome(r, p, "sent", client)
                            /\ UNCHANGED <<setup, clients>>

\* Get or build under the family's mutex; a failed build is never inserted,
\* and the HTTP proxy families build without what could fail (TLS settings).
GetOrBuild(key, r, p) ==
    LET built == BuildFor(key.family, r, p)
    IN  \/ key \in DOMAIN clients /\ DispatchOn(r, p, clients[key])
        \/ /\ key \notin DOMAIN clients
           /\ clients' \in Inserted(key, built)
           /\ sent' = Outcome(r, p, "sent", built)
           /\ UNCHANGED setup
        \/ /\ key \notin DOMAIN clients /\ key.family \notin {"forward", "connect"}
           /\ Rejected(r, p)

resolved_client(r, p) == GetOrBuild(ResolvedRouteKey(r), r, p)
sni_client(r, p) == GetOrBuild(SniKey("sni", r), r, p)
sni_custom_client(r, p) == GetOrBuild(SniKey("sniCustom", r), r, p)
socks_client(r, p) == GetOrBuild(SocksRouteKey(r, p), r, p)
forward_client(r, p) == GetOrBuild(ForwardRouteKey(r, p), r, p)
connect_client(r, p) == GetOrBuild(ConnectRouteKey(r, p), r, p)

\* The hand-written CONNECT path: several targets, or a wire target that is
\* not origin-form, are dialled for this request alone.
send_proxy_route(r, p) ==
    \/ is_socks(p) /\ socks_client(r, p)
    \/ ~is_socks(p) /\ r.scheme = "http" /\ forward_client(r, p)
    \/ /\ ~is_socks(p) /\ r.scheme = "https"
       /\ IF r.originForm /\ Len(r.proxied) <= 1
          THEN connect_client(r, p)
          ELSE DispatchOn(r, p, BuildFor("connect", r, p))

send_uds_route(r, p) == DispatchOn(r, p, Singleton("uds"))

send_custom_route(r, p) ==
    IF r.sni # Missing THEN sni_custom_client(r, p) ELSE DispatchOn(r, p, Singleton("custom"))

send_direct_route(r, p) ==
    IF r.pinned # <<>> THEN resolved_client(r, p) ELSE DispatchOn(r, p, Singleton("direct"))

send_sni_route(r, p) == sni_client(r, p)

SendOn(route, r, p) ==
    \/ route = "Uds" /\ send_uds_route(r, p)
    \/ route = "Custom" /\ send_custom_route(r, p)
    \/ route = "Direct" /\ send_direct_route(r, p)
    \/ route = "Proxy" /\ send_proxy_route(r, p)
    \/ route = "SniDirect" /\ send_sni_route(r, p)
    \/ route = "H3" /\ DispatchOn(r, p, Singleton("h3"))
    \/ route = "Standard" /\ DispatchOn(r, p, Singleton("standard"))

-----------------------------------------------------------------------------
NothingSent == Outcome(CHOOSE r \in Calls(setup) : TRUE, NoProxyConfig, "none", AnyClient)

RouteInit ==
    /\ setup \in {s \in Setups : EnvironmentValid(s.env)}
    /\ clients = [k \in {} |-> AnyClient]
    /\ sent = NothingSent

send_single_request(r) ==
    LET p == resolve_proxy(r)
        hasProxy == p # NoProxyConfig
        direct == ~hasProxy /\ (r.pinned # <<>> \/ setup.direct) /\ ~setup.uds
    IN  /\ ~r.native
        /\ IF PrepareRefuses(r, p) \/ custom_dialing_conflict(r, hasProxy) # "none"
           THEN Rejected(r, p)
           ELSE \E discovered \in BOOLEAN :
                  LET useH3 == decide_h3_use(r, p, discovered)
                  IN  IF r.pinned # <<>> /\ useH3 THEN Rejected(r, p)
                      ELSE SendOn(select_route(setup.uds, setup.dialer, direct, hasProxy,
                                               r.sni # Missing, useH3), r, p)

\* The native frame API: no built-in proxies, no HTTP/3.
send_native_http_body(r) ==
    /\ r.native
    /\ IF NativeRefuses(r) THEN Rejected(r, NoProxyConfig)
       ELSE SendOn(select_route(setup.uds, setup.dialer, r.pinned # <<>> \/ setup.direct, FALSE,
                                r.sni # Missing, FALSE), r, NoProxyConfig)

RouteNext == \E r \in Calls(setup) : send_single_request(r) \/ send_native_http_body(r)

RouteSpec == RouteInit /\ [][RouteNext]_routeVars

-----------------------------------------------------------------------------
(* Properties.                                                             *)

\* The families whose connections take no notice of a request's TLS name: Unix sockets,
\* clients with a local address or socket options, SOCKS; and forward proxies, which are
\* sent plain http.
SniIgnored == {"uds", "direct", "socks", "forward"}

\* Whatever earlier requests left in or evicted from the client caches, a
\* request goes out on a client made for it: the proxy its own rules chose
\* (for SOCKS, the parts of it that reach the wire) or none, exactly its
\* pinned and proxied addresses in order, its TLS name, its origin where the
\* connector is bound to one, and its own connect budget on the HTTP proxy
\* routes.  A configured Unix socket takes precedence over a proxy.  Two
\* exceptions are the code's.  On the families of SniIgnored a TLS name is
\* dropped without an error, although transport_hints.rs promises it for SNI
\* and verification; what is claimed there is that no other request's name is
\* used.  And a native call with pinned addresses on a Unix-socket client is
\* sent to the socket (pipeline/mod.rs, native dispatch).
RouteFits ==
    sent.result = "sent" =>
        LET r == sent.call
            c == sent.client
        IN  /\ \/ c.family = "uds"
               \/ c.proxy = sent.proxy
               \/ c.family = "socks" /\ SocksLeg(c.proxy) = SocksLeg(sent.proxy)
            /\ c.pins = r.pinned \/ (r.native /\ c.family = "uds")
            /\ sent.proxy # NoProxyConfig /\ c.family # "uds" => c.target = r.proxied
            /\ c.sni = r.sni \/ (c.sni = Missing /\ c.family \in SniIgnored)
            /\ c.origin \in {<<>>, Origin(r)}
            /\ c.family \in {"forward", "connect"} => c.connect = r.connect

\* A client that took its proxies from an environment snapshot sends every
\* inheriting request where ProxyEnvironment::resolve of that snapshot says:
\* specific before ALL_PROXY, and NO_PROXY before both.
EnvironmentAgrees ==
    setup.proxies = <<>> => \A r \in Calls(setup) :
        r.override = "inherit" =>
            resolve_proxy(r) = EnvironmentResolve(setup.env, r.scheme, r.host, UrlPort(r))
=============================================================================
