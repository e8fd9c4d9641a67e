---------------------------- MODULE MCClientState ----------------------------
(***************************************************************************)
(* The parts that are state behind locks or ownership, side by side: the   *)
(* response body, an upgraded connection, the hand-read proxied response,  *)
(* the cookie jar, route selection with its client caches, the FFI         *)
(* handles, a multipart form and the text lines of a response.  One of     *)
(* them runs in a behaviour, the others rest in a state they could start   *)
(* in; they share no variable.                                             *)
(***************************************************************************)
EXTENDS ResponseBody, NetworkStream, RawResponse, CookieJar, RouteSelection, FfiHandles,
        Multipart, LineStream

CONSTANT Parts

VARIABLE part

bodyVars == vars
stateVars == <<part, bodyVars, networkVars, rawVars, jarVars, routeVars, handleVars,
               multipartVars, lineVars>>

-----------------------------------------------------------------------------
(* Heads of hand-read responses: no, one, repeated, conflicting and        *)
(* unparseable lengths.                                                    *)
ResponseHeads == [lengths : {<<>>, <<2>>, <<2, 2>>, <<2, 1>>, <<BadLength, 1>>, <<2, BadLength>>},
                  chunked : BOOLEAN]

-----------------------------------------------------------------------------
(* Cookies: a site, a subdomain of it, another site and an address.        *)

Ex == <<"com", "ex">>
Ip == <<"ip">>
Ips == {Ip}
JarLabels == {"com", "ex", "ot", "w", "ip", "a", "b", "", "absent"}

JarUrls == {[host |-> Ex, path |-> <<"a", "b">>, https |-> TRUE],
            [host |-> Ex \o <<"w">>, path |-> <<"a", "">>, https |-> FALSE],
            [host |-> <<"com", "ot">>, path |-> Root, https |-> TRUE],
            [host |-> Ip, path |-> Root, https |-> TRUE]}

Header(name, domain, path, secure, maxAge, expires) ==
    [name |-> name, domain |-> domain, path |-> path, secure |-> secure,
     maxAge |-> maxAge, expires |-> expires]

JarHeaders == {<<Header("n", Absent, Absent, TRUE, NoExpiry, NoExpiry)>>,
               <<Header("n", Ex, Root, FALSE, 9, NoExpiry)>>,
               <<Header("n", Ex, Root, FALSE, NoExpiry, 1), Header("n", Ex, Root, FALSE, 0, NoExpiry)>>,
               <<Header("invalid", Absent, Root, FALSE, 0, NoExpiry),
                 Header("n", Ip, Root, FALSE, 1, NoExpiry)>>}

JarOwn == {[name |-> "n", index |-> 0, setBy |-> Absent, asked |-> Absent, hostOnly |-> FALSE,
             secure |-> FALSE, path |-> Root, domain |-> d[1], expires |-> d[2]] :
                d \in {<<<<>>, NoExpiry>>, <<Ex, 1>>, <<Ex, 2>>}}

-----------------------------------------------------------------------------
(* Clients of every kind, NO_PROXY entries of every form, and what their   *)
(* callers send.                                                           *)

Via(scheme, uri, auth, tls) ==
    [NoProxyConfig EXCEPT !.scheme = scheme, !.uri = uri, !.auth = auth, !.tls = tls]

Entry(form, host) ==
    [form |-> form, host |-> host, port |-> 80, scheme |-> "http", members |-> {Ip}]

Entries == {Entry(f, Ex) : f \in {"wildcard", "localhost", "url", "hostPort", "suffixPort",
                                  "suffix", "host", "malformed"}}
           \cup {Entry(f, Ip) : f \in {"ipv4", "ipv4net", "ipv6", "ipv6net", "bracketed",
                                       "bracketedPort"}}

NoEnv == [http |-> NoProxyConfig, https |-> NoProxyConfig, all |-> NoProxyConfig, noProxy |-> {}]

Base == [uds |-> FALSE, dialer |-> FALSE, direct |-> FALSE, version |-> "autoH3",
         proxies |-> <<>>, env |-> NoEnv, connect |-> 1]

\* An explicit proxy whose bypass entries were read by the HTTPX parser.
HttpxSetups ==
    {[Base EXCEPT !.proxies = <<[config |-> Via("http", "p", Missing, Missing), rule |-> rule,
                                 bypass |-> parse_rules({e}, TRUE)]>>] :
        rule \in {"All", "Https"}, e \in {x \in Entries : parse_entry(x, TRUE) # InvalidRule}}

EnvironmentSetups ==
    {[Base EXCEPT !.env = [http |-> h, https |-> NoProxyConfig, all |-> a, noProxy |-> {e}]] :
        h \in {NoProxyConfig, Via("none", "h", Missing, Missing)},
        a \in {Via("http", "a", Missing, Missing), Via("other", "a", Missing, Missing)},
        e \in Entries}

RouteKinds ==
    {[Base EXCEPT !.uds = u, !.dialer = d, !.direct = l, !.version = v, !.env.https = p] :
        u \in BOOLEAN, d \in BOOLEAN, l \in BOOLEAN, v \in {"autoH3", "http3Only"},
        p \in {NoProxyConfig, Via("http", "e", Missing, Missing)}}

\* Another client's budget, whose requests choose among several proxy targets.
Patient == [Base EXCEPT !.connect = 2]

ClientSetups == HttpxSetups \cup EnvironmentSetups \cup RouteKinds \cup {Patient}

Request == [native |-> FALSE, scheme |-> "https", host |-> Ex, port |-> 0,
            override |-> "inherit", proxy |-> NoProxyConfig, pinned |-> <<>>, proxied |-> <<>>,
            sni |-> Missing, connect |-> 1, originForm |-> TRUE]

PlainRequests ==
    {[Request EXCEPT !.scheme = s, !.host = h, !.port = q] :
        s \in {"http", "https"}, h \in {Ip, Localhost, Ex \o <<"w">>}, q \in {0, 80}}

HintedRequests ==
    {r \in {[Request EXCEPT !.native = n, !.override = o, !.pinned = a, !.sni = s] :
                n \in BOOLEAN, o \in {"inherit", "direct"},
                a \in {<<>>, <<"a", "b">>, <<"b", "a">>}, s \in {Missing, "n"}} :
        r.native => r.override = "inherit"}

ProxiedRequests ==
    {r \in {[Request EXCEPT !.scheme = s, !.override = "proxy", !.proxy = p, !.proxied = t,
                            !.connect = c, !.originForm = (c = 1)] :
                s \in {"http", "https"}, c \in {1, 2},
                p \in {Via("http", "p", "u", Missing), Via("socks5", "p", Missing, "t"),
                       Via("socks5h", "p", Missing, Missing)},
                t \in {<<>>, <<"a">>, <<"a", "b">>}} :
        r.connect = 2 => r.proxied = <<>>}

RequestsOf(s) ==
    CASE s = Base -> HintedRequests \cup {r \in ProxiedRequests : r.proxied = <<>>}
      [] s = Patient -> ProxiedRequests
      [] s \in RouteKinds \ {Base} -> HintedRequests
      [] OTHER -> PlainRequests

-----------------------------------------------------------------------------
(* Parts of a form: names of every kind, bodies that contain boundaries,   *)
(* and streams that state no, their true, a wrong or a huge length.        *)

Name(p, q, b, c) == [plain |-> p, quotes |-> q, backslashes |-> b, controls |-> c, given |-> TRUE]
Drawn == {[text |-> t, len |-> 2, clean |-> TRUE] : t \in {"r1", "r2"}}
Chosen == {[text |-> "pinned", len |-> 1, clean |-> TRUE], [text |-> "long", len |-> 9, clean |-> TRUE],
           [text |-> "", len |-> 0, clean |-> TRUE], [text |-> "a b", len |-> 3, clean |-> FALSE]}

Part(by, kind, name, filename, size, declared, holds) ==
    [by |-> by, kind |-> kind, name |-> name, filename |-> filename, ctype |-> 1, ctypeOk |-> TRUE,
     headers |-> 1, size |-> size, declared |-> declared, holds |-> holds]

FormParts ==
    {Part("text", "bytes", Name(1, 0, 0, c), NoFile, 0, Unknown, {}) : c \in {0, 1}}
    \cup {Part("text", "bytes", Name(0, 0, 1, 0), NoFile, 3, Unknown, h) :
              h \in {{}, {b \in Chosen : b.text = "pinned"}, {b \in Drawn : b.text = "r1"}, Drawn}}
    \cup {Part("bytes", "bytes", Name(1, 0, 0, 0), f, 1, Unknown, {}) :
              f \in {Name(1, 0, 0, 0), Name(0, 0, 0, 0), Name(1, 1, 0, 0)}}
    \cup {Part("stream", "stream", Name(1, 0, 0, 0), Name(1, 0, 0, 0), 2, d, {}) :
              d \in {Unknown, 2, 30, LengthMax}}
    \cup {[Part("stream", "stream", Name(1, 0, 0, 0), Name(1, 0, 0, 0), 0, 0, {}) EXCEPT !.ctypeOk = FALSE]}
    \cup {Part("part", "bytes", Name(1, 0, 0, 0), Name(0, 1, 0, 0), 1, Unknown, {}),
          Part("part", "stream", Name(1, 0, 0, 0), NoFile, 0, 0, {}),
          Part("part", "bytes", Name(0, 0, 0, 0), NoFile, 0, Unknown, {})}

ResponseTexts == UNION {[1..n -> {"x", "cr", "lf", "bad"}] : n \in 0..5}

-----------------------------------------------------------------------------
BodyRests ==
    /\ now = MaxTime
    /\ conf = CHOOSE c \in Configs : TRUE
    /\ body = "dropped" /\ wrapped = FALSE /\ lease = "released" /\ stream = "none"
    /\ source = [chunks |-> <<>>, sent |-> 0, end |-> "eof"]
    /\ pc = "idle"
    /\ timer = [started |-> FALSE, fused |-> FALSE, read |-> Never]
    /\ limiter = [count |-> 0, hit |-> FALSE]
    /\ item = 0
    /\ seen = [last |-> "nothing", bytes |-> 0, taken |-> 0]

StateInit ==
    /\ part \in Parts
    /\ IF part = "body" THEN Init ELSE BodyRests
    /\ IF part = "network" THEN NetworkInit ELSE ns = NetworkStart("direct", FALSE, FALSE, 0)
    /\ IF part = "raw" THEN RawInit ELSE rw = RawStart([lengths |-> <<>>, chunked |-> FALSE])
    /\ JarInit
    /\ IF part = "routes" THEN RouteInit
       ELSE setup = Base /\ clients = [k \in {} |-> AnyClient] /\ sent = NothingSent
    /\ IF part = "handles" THEN HandleInit ELSE fh = HandleStart({})
    /\ IF part = "multipart" THEN MultipartInit ELSE mp = MultipartStart(NoBoundary, "rust")
    /\ IF part = "lines" THEN LineInit ELSE ln = LineStart(<< >>)

StateNext ==
    \/ /\ part = "body" /\ Next
       /\ UNCHANGED <<part, networkVars, rawVars, jarVars, routeVars,
                      handleVars, multipartVars, lineVars>>
    \/ /\ part = "network" /\ NetworkNext
       /\ UNCHANGED <<part, bodyVars, rawVars, jarVars, routeVars,
                      handleVars, multipartVars, lineVars>>
    \/ /\ part = "raw" /\ RawNext
       /\ UNCHANGED <<part, bodyVars, networkVars, jarVars, routeVars,
                      handleVars, multipartVars, lineVars>>
    \/ /\ part = "jar" /\ JarNext
       /\ UNCHANGED <<part, bodyVars, networkVars, rawVars, routeVars,
                      handleVars, multipartVars, lineVars>>
    \/ /\ part = "routes" /\ RouteNext
       /\ UNCHANGED <<part, bodyVars, networkVars, rawVars, jarVars,
                      handleVars, multipartVars, lineVars>>
    \/ /\ part = "handles" /\ HandleNext
       /\ UNCHANGED <<part, bodyVars, networkVars, rawVars, jarVars,
                      routeVars, multipartVars, lineVars>>
    \/ /\ part = "multipart" /\ MultipartNext
       /\ UNCHANGED <<part, bodyVars, networkVars, rawVars, jarVars,
                      routeVars, handleVars, lineVars>>
    \/ /\ part = "lines" /\ LineNext
       /\ UNCHANGED <<part, bodyVars, networkVars, rawVars, jarVars,
                      routeVars, handleVars, multipartVars>>

\* Only the body has a property of what must happen in the end.
StateSpec == StateInit /\ [][StateNext]_stateVars /\ WF_vars(Tick) /\ WF_vars(Poll)
=============================================================================
