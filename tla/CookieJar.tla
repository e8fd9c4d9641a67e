----------------------------- MODULE CookieJar -----------------------------
(***************************************************************************)
(* The cookie jar of a client (eggfetch-core/src/cookie.rs), shared by the *)
(* requests of every thread behind one read-write lock.  Each operation    *)
(* reads the clock and prepares its change BEFORE it takes the lock, so a  *)
(* writer (a response's Set-Cookie headers, set, expire_stale) and a       *)
(* reader (cookies_for_url) are two- and three-step processes here.        *)
(*                                                                         *)
(* A host is the sequence of its labels, the top-level one first, so that  *)
(* "ends with .domain" is "has the domain as a prefix".  A path is the     *)
(* sequence of its segments; a trailing slash is a last segment "".        *)
(* Letter case and values are left out.                                    *)
(***************************************************************************)
EXTENDS Naturals, FiniteSets, FiniteSetsExt, Sequences, SequencesExt

CONSTANTS
    Label,        \* the labels of hosts and the segments of paths
    IpHosts,      \* the hosts that are address literals
    Urls,         \* [host, path, https] of requests and responses
    SetCookies,   \* the sequences of Set-Cookie headers a response may carry
    OwnCookies,   \* the cookies a program stores with set
    Latest,       \* the clock stops here
    MaxAgeCap,    \* the cap of Max-Age (400 days in the code)
    MaxCreated    \* how many cookies are created

VARIABLE ck

jarVars == <<ck>>

Root == <<"">>

(***************************************************************************)
(* Hosts, domains and paths are sequences of labels and segments, expiries *)
(* are instants, and what a program stores itself no response set.         *)
(***************************************************************************)
Labels == Seq(Label)

\* The value of a Domain or Path attribute a header does not have.
Absent == <<"absent">>

\* An expiry later than every instant: a session cookie, an empty cache, an
\* absent Max-Age or Expires.
NoExpiry == Latest + MaxAgeCap + 1

Cookie == [name : STRING, secure : BOOLEAN, index : Nat, domain : Labels, hostOnly : BOOLEAN,
           path : Labels, expires : Nat, setBy : Labels, asked : Labels]

SetCookie == [name : STRING, domain : Labels, path : Labels, secure : BOOLEAN,
              maxAge : Nat, expires : Nat]

ASSUME JarAssumption ==
    /\ {Latest, MaxAgeCap, MaxCreated} \subseteq Nat
    /\ Root \in Labels
    /\ Urls \subseteq [host : Labels, path : Labels, https : BOOLEAN]
    /\ SetCookies \subseteq Seq(SetCookie)
    /\ OwnCookies \subseteq {c \in Cookie : c.setBy = Absent}

Idle == [kind |-> "idle"]

JarState == [cookies |-> {}, next |-> NoExpiry, now |-> 0, created |-> 0,
             writer |-> Idle, reader |-> Idle, sent |-> Idle]

JarInit == ck = JarState

(***************************************************************************)
(* The stored cookies and the cached earliest expiry.                      *)
(***************************************************************************)
CookieKey(c) == <<c.name, c.domain, c.path>>

At(cookies, key) == {c \in cookies : CookieKey(c) = key}

recompute_next_expiry(cookies) == Min({c.expires : c \in cookies} \cup {NoExpiry})

persistent_expiry(cookies, key) == recompute_next_expiry(At(cookies, key))

Stored(cookies, c) == (cookies \ At(cookies, CookieKey(c))) \cup {c}

\* Several cookies, inserted in their order: the last one of a key stays.
StoredAll(cookies, new) ==
    {c \in cookies : \A d \in new : CookieKey(d) # CookieKey(c)}
    \cup {c \in new : \A d \in new : CookieKey(d) = CookieKey(c) => d.index <= c.index}

\* Mutant: a later cookie that expires sooner does not move the cached expiry.
insert_cookie_first(jar, c) ==
    [jar EXCEPT !.cookies = Stored(@, c), !.next = IF @ = NoExpiry THEN c.expires ELSE @]

insert_cookie(jar, c) ==
    LET old == persistent_expiry(jar.cookies, CookieKey(c))
        cookies == Stored(jar.cookies, c)
        next == CASE c.expires < jar.next -> c.expires
                  [] old # NoExpiry /\ old = jar.next /\ c.expires > jar.next ->
                       recompute_next_expiry(cookies)
                  [] OTHER -> jar.next
    IN  [jar EXCEPT !.cookies = cookies, !.next = next]

remove_cookie(jar, key) ==
    LET cookies == jar.cookies \ At(jar.cookies, key)
    IN  [jar EXCEPT !.cookies = cookies,
            !.next = IF persistent_expiry(jar.cookies, key) = @
                     THEN recompute_next_expiry(cookies) ELSE @]

Expired(c, now) == now >= c.expires

\* retain(...) and recompute, the body of expire_stale and of expire_if_due.
Retain(jar, now) ==
    LET cookies == {c \in jar.cookies : ~Expired(c, now)}
    IN  [jar EXCEPT !.cookies = cookies, !.next = recompute_next_expiry(cookies)]

(***************************************************************************)
(* Matching.                                                               *)
(***************************************************************************)
is_ip_address(host) == host \in IpHosts

domain_matches(host, domain) ==
    \/ host = domain
    \/ ~is_ip_address(host) /\ ~is_ip_address(domain) /\ IsStrictPrefix(domain, host)

path_matches(request, path) ==
    \/ request = path
    \/ Last(path) = "" /\ IsPrefix(Front(path), request) /\ Len(request) >= Len(path)
    \/ Last(path) # "" /\ IsStrictPrefix(path, request)

cookie_matches(c, url) ==
    /\ c.secure => url.https
    /\ CASE ~c.hostOnly /\ c.domain = <<>> -> TRUE
         [] c.hostOnly -> url.host = c.domain
         [] OTHER -> domain_matches(url.host, c.domain)
    /\ path_matches(url.path, c.path)

\* Longer paths first, then creation order; the first of each (name, path).
CookieHeader(cookies, url) ==
    LET matches == {c \in cookies : cookie_matches(c, url)}
    IN  {c \in matches : \A d \in matches :
            d.name = c.name /\ d.path = c.path => d.index >= c.index}

(***************************************************************************)
(* parse_set_cookie: {} for a rejected header, otherwise its one cookie.   *)
(* `setBy` and `asked` remember the response's host and Domain attribute.  *)
(***************************************************************************)
default_cookie_path(path) == IF Len(path) > 1 THEN Front(path) ELSE Root

resolve_expiration(h, now) ==
    CASE h.maxAge = 0 -> 0
      [] h.maxAge \notin {0, NoExpiry} -> now + Min({h.maxAge, MaxAgeCap})
      [] OTHER -> h.expires

DomainAllowed(domain, host) ==
    /\ domain # <<>>
    /\ is_ip_address(domain) => domain = host
    /\ domain_matches(host, domain)

parse_set_cookie(h, url, now, index) ==
    IF h.name = "invalid" \/ (h.domain # Absent /\ ~DomainAllowed(h.domain, url.host))
    THEN {}
    ELSE {[name |-> h.name, secure |-> h.secure, index |-> index,
           domain |-> IF h.domain = Absent THEN url.host ELSE h.domain,
           hostOnly |-> h.domain = Absent,
           path |-> IF h.path = Absent THEN default_cookie_path(url.path) ELSE h.path,
           expires |-> resolve_expiration(h, now),
           setBy |-> url.host, asked |-> h.domain]}

(***************************************************************************)
(* The writers.  What a writer found before the lock is in ck.writer.      *)
(***************************************************************************)
JarTick ==
    /\ ck.now < Latest
    /\ ck' = [ck EXCEPT !.now = @ + 1]

\* update_from_response up to the lock: every header is parsed by itself.
update_from_response(url, headers) ==
    /\ ck.writer.kind = "idle"
    /\ ck.created + Len(headers) <= MaxCreated
    /\ LET parsed == [i \in DOMAIN headers |->
                        parse_set_cookie(headers[i], url, ck.now, ck.created + i)]
           all == UNION {parsed[i] : i \in DOMAIN headers}
           removes == {c \in all : Expired(c, ck.now)}
       IN  /\ all # {}
           /\ ck' = [ck EXCEPT !.created = @ + Len(headers),
                        !.writer = [kind |-> "response",
                                    removes |-> {CookieKey(c) : c \in removes},
                                    inserts |-> all \ removes]]

\* ... and under the lock: every removal, then every insertion, then the cache.
UpdateApplies ==
    /\ ck.writer.kind = "response"
    /\ LET kept == {c \in ck.cookies : CookieKey(c) \notin ck.writer.removes}
           cookies == StoredAll(kept, ck.writer.inserts)
       IN  ck' = [ck EXCEPT !.cookies = cookies,
                     !.next = recompute_next_expiry(cookies), !.writer = Idle]

\* set: the clock is compared before the lock.  set_default_cookie is the
\* call with an empty domain: its cookie is a session cookie for every URL.
set(cookie) ==
    /\ ck.writer.kind = "idle"
    /\ ck.created < MaxCreated
    /\ ck' = [ck EXCEPT !.created = @ + 1,
                 !.writer = [kind |-> IF Expired(cookie, ck.now) THEN "remove" ELSE "insert",
                             cookie |-> [cookie EXCEPT !.index = ck.created + 1]]]

SetApplies ==
    /\ ck.writer.kind \in {"insert", "remove"}
    /\ ck' = [IF ck.writer.kind = "insert"
              THEN insert_cookie(ck, ck.writer.cookie)
              ELSE remove_cookie(ck, CookieKey(ck.writer.cookie))
              EXCEPT !.writer = Idle]

delete ==
    \E c \in ck.cookies : ck' = remove_cookie(ck, CookieKey(c))

clear ==
    /\ ck.cookies # {}
    /\ ck' = [ck EXCEPT !.cookies = {}, !.next = NoExpiry]

expire_stale ==
    /\ ck.writer.kind = "idle"
    /\ ck' = [ck EXCEPT !.writer = [kind |-> "expire", now |-> ck.now]]

ExpireApplies ==
    /\ ck.writer.kind = "expire"
    /\ ck' = [Retain(ck, ck.writer.now) EXCEPT !.writer = Idle]

(***************************************************************************)
(* The reader: cookies_for_url (all_cookies and get start alike).          *)
(***************************************************************************)
\* expire_if_due under the read lock.  `stale` is a history: the cookies in
\* the jar that had expired when the call looked at the clock.
CallStarts(url) ==
    /\ ck.reader.kind = "idle"
    /\ ck' = [ck EXCEPT !.sent = Idle, !.reader =
                [kind |-> IF ck.now >= ck.next THEN "due" ELSE "fresh",
                 url |-> url, now |-> ck.now,
                 stale |-> {c \in ck.cookies : Expired(c, ck.now)}]]

\* expire_if_due under the write lock, with the clock of the first look.
expire_if_due ==
    /\ ck.reader.kind = "due"
    /\ ck' = [IF ck.reader.now >= ck.next THEN Retain(ck, ck.reader.now) ELSE ck
              EXCEPT !.reader.kind = "fresh"]

cookies_for_url ==
    /\ ck.reader.kind = "fresh"
    /\ ck' = [ck EXCEPT !.reader = Idle,
                 !.sent = [kind |-> "sent", url |-> ck.reader.url, stale |-> ck.reader.stale,
                           cookies |-> CookieHeader(ck.cookies, ck.reader.url)]]

JarNext ==
    \/ JarTick \/ UpdateApplies \/ SetApplies \/ delete \/ clear
    \/ expire_stale \/ ExpireApplies \/ expire_if_due \/ cookies_for_url
    \/ \E url \in Urls : CallStarts(url)
    \/ \E url \in Urls, headers \in SetCookies : update_from_response(url, headers)
    \/ \E cookie \in OwnCookies : set(cookie)

JarSpec == JarInit /\ [][JarNext]_jarVars

(***************************************************************************)
(* Properties.                                                             *)
(***************************************************************************)
\* The header cookies_for_url builds holds what it should.  Nothing stale: no
\* cookie that was in the jar and had expired when the call looked at the
\* clock - the cached next_expiry, kept incrementally by insert_cookie and
\* remove_cookie, never hides a due cookie from expire_if_due, whatever
\* writers do between its two looks.  Nothing out of scope: a cookie a
\* response stored goes only to the host that set it or, when the response
\* named a Domain, to hosts under that domain, which the setting host is under
\* as well (parse_set_cookie and cookie_matches together).
InScope(c, host) ==
    \/ c.setBy = Absent \/ c.setBy = host
    \/ c.asked # Absent /\ IsPrefix(c.asked, host) /\ IsPrefix(c.asked, c.setBy)
SentCookiesAreDue ==
    ck.sent.kind = "sent" =>
        /\ ck.sent.cookies \cap ck.sent.stale = {}
        /\ \A c \in ck.sent.cookies : InScope(c, ck.sent.url.host)

=============================================================================
