# A TLA+ model of eggfetch

eggfetch is an HTTP client: a core engine in Rust (`crates/eggfetch-core`) with C, Python
and Node bindings and a command line. The core admits a request to a pool, runs it through
retry and redirect policy, picks a transport (Hyper over TCP, TLS, UDS or a proxy, or HTTP/3
over QUIC), and hands the caller a response whose body still owns the pool slot.

This project models the parts that keep state across an await, a lock, a thread or a call.
Paths below are relative to `src/crates/eggfetch-core/src/` unless they say otherwise.

## 1. The system

| Part | State it keeps | Operations | What is hard about it |
|---|---|---|---|
| Logical pool, `pool.rs` | global semaphore; table origin -> (semaphore, waiter count) behind a RwLock | acquire, drop of a guard, sweep of idle entries | cancellation at every await; the sweep reads two counters that change without the lock |
| Response body, `body.rs`, `stream/body_timeout.rs`, `pipeline/finalize.rs`, `response_decode.rs`, `compression.rs` | body variant, pool lease, read timer, total deadline, byte count | finalize, take a stream, poll, drop | a deadline that passes inside a poll; who releases the lease |
| Retry, redirect, preparation, `pipeline/{retry,redirect,hop,prepare,mod}.rs`, `retry.rs`, `redirect.rs` | attempt and hop counters, the headers and body still allowed, deadlines, drains | send, retry, follow, drain, fail | a budget shared by attempts, hops, drains and backoffs; credentials over several hops; a slot needed for the next hop while the last response holds one |
| Alt-Svc and HTTP/3 dispatch, `transport/alt_svc.rs`, `pipeline/h3_dispatch.rs` | advertised endpoints with generations and expiry; suppressed routes with backoff | learn, look up, suppress, dispatch, fall back | each table is locked for one access at a time; a failure is recorded after the endpoint was replaced |
| HTTP/3 sessions, `transport/http3.rs` | bounded cache of OnceCells with sessions; draining flags | get or establish, send, evict, drain | waiters on another request's establishment; eviction that races a replacement |
| Physical connections, `transport/lifecycle.rs`, `transport/metrics.rs` | admission semaphore, live gauge and high-water mark, read and write timers | call, poll, drop, upgrade | a deadline that races a hand-over; atomics; timers that outlive progress |
| Datagram bridge, `transport/datagram.rs` | two bounded queues, wakers, a first failure | try_send, poll_recv, workers, driver | registering a waker after the check it belongs to |
| Connecting, `transport/{direct_connector,uds,dialer,connect,proxy,socks}.rs`, `crates/eggfetch-http-connect` | handshake position, remaining addresses and targets, deadlines | dial, CONNECT, SOCKS5, TLS, forward | what may be tried at another address, and which deadline is running |
| One exchange, `transport/{direct,write_timeout}.rs` | upload position, write, read and total deadlines | poll the upload, the send and the read | which timer a late answer races |
| Hand-read responses, `transport/{connect,proxy}.rs` | bytes read too far, declared length | read the head, switch, poll | the switch from a buffered reader to the connection; how a connection ends |
| Upgraded streams, `network_stream.rs`, Python `network_stream` | socket, leading bytes, connection permit | read, write, start_tls, close, drop | the permit and the socket change hands separately; several threads share a handle |
| Routes and caches, `proxy.rs`, `proxy/no_proxy.rs`, `pipeline/{route,prepare}.rs`, `client.rs`, `client/routes.rs` | proxies, environment snapshot, bounded caches of Hyper clients | select, bypass, get or build | a cache key that forgets an option reuses another request's client |
| Cookie jar, `cookie.rs` | cookies, cached next expiry | store, match, expire | the clock is read before the lock; the cached expiry is read under another lock |
| Multipart, `multipart.rs` | parts, boundary, encoder position | add, into_body, poll | the declared length must be the sent one, at the ends of `u64` and `usize` too |
| Text lines, `response.rs` | buffer, ended flag | poll | line ends cut by chunks; the limit at its edge |
| C streaming, `crates/eggfetch-ffi/src/streaming.rs` | receiver slot, error slot, cancel flag | next, cancel, free, producer | called from several threads |
| C handles, `crates/eggfetch-ffi/src` | builder, client, request, response, error slot | build, send, free | who frees the request on which path, panics included |
| Python streaming, `crates/eggfetch-python/src/streaming` | body owner, bounded bridge, condition, notifier | read, iterate, close | an async producer and a blocking consumer; close from another thread |
| Python runtime, `crates/eggfetch-python/src/client.rs` | runtime slot, reference counts, shutdown flag | request, stream, close | the last holder ends the runtime, and there may be two that think so |
| Everything else | configuration, conversions, I/O | | section 9 |

How they interact. `pipeline/retry.rs` calls `redirect.rs`, which calls `hop.rs` and
`prepare.rs`; preparation awaits `Pool::acquire`; route selection picks
a proxy and a route, and dispatch hands the request to Hyper clients (taken from the route
caches, their connector wrapped by `LifecycleConnector`), to a hand-written CONNECT exchange, or to `h3_dispatch.rs`, which asks
`alt_svc.rs` for an endpoint and `http3.rs` for a session; finalization moves the pool guard
into the body, and the body's stream drops it. The lifecycle permit is independent of the
pool guard: an idle pooled connection keeps the first and not the second.

The bindings sit on top: the Python and C streams own a core body and with it its lease, and the
Python client owns the runtime everything runs on.

What makes each part correct: permits are neither lost nor duplicated and limits hold (pool,
lifecycle, upgraded streams); the lease lives exactly as long as bytes can come, and no chunk
passes a deadline or a limit (body); credentials and bodies go only where policy allows, and the
total bounds the whole request (pipeline); a body is not delivered twice and a generation's
failures stay its own (Alt-Svc); a draining session gets no new request and a fallback is only
ever of an unsent one (sessions); a request reaches an origin once, whatever is tried before
(connecting); a timeout is one of the phase it names (exchange, lifecycle); no byte is lost where
a stream changes hands, and an end without an error is the end of the body (raw, upgraded, C and
Python streams, lines, multipart); a wakeup is not lost (datagrams, bridges, cancel); a cached
client is the one the request asked for (routes); a cookie that is sent is due (jar); a runtime
outlives the work on it (Python); a handle is released once (C).

## 2. Modules

| Module | Models |
|---|---|
| `Semaphore` | tokio's semaphore as the code relies on it (external): a permit, a FIFO queue, hand-over on release, leaving the queue |
| `Limiter` | abstract: what an admission limit promises (at most `Limit` inside, first come first served, a freed place passes on in the same step) |
| `Pool` | `pool.rs` |
| `SemaphoreProofs`, `PoolProofs` | proofs about `Semaphore` and `Pool` |
| `RequestPipeline` | one logical request through retry, redirect, preparation and a transport |
| `H3Outcomes` | the dispatch errors `http3.rs` reports and `h3_dispatch.rs` interprets, shared by the next two |
| `AltSvc` | the Alt-Svc cache, the broken-route suppressor and the dispatch that uses them |
| `H3Connector` | the cache of QUIC sessions |
| `Lifecycle` | connection admission, its gauges, the I/O guards and upgrades |
| `Tunnel` | how a request gets its connection on each route: addresses, proxies, CONNECT, SOCKS5, TLS |
| `Exchange` | upload, response head and the three deadlines of one request on a connection |
| `Datagram` | the bridge between Quinn and a caller's datagram route |
| `PyStream`, `PyRuntime` | the Python streaming response and the runtime of the synchronous client |
| `FfiStream` | the C streaming response |
| `ResponseBody` | finalization, take_stream and the poll of one body |
| `NetworkStream` | an upgraded connection, in the core and in Python |
| `RawResponse` | the response body read by hand behind a proxy |
| `CookieJar` | `cookie.rs` |
| `RouteSelection` | proxy choice, bypass rules, route precedence and the client caches |
| `FfiHandles` | the builder, request, client and response handles of the C interface |
| `Multipart` | a form, its boundary, its length and its encoder |
| `LineStream` | the lines of a response's text |
| `PipelineProofs`, `AltSvcProofs`, `H3ConnectorProofs`, `LifecycleProofs` | proofs about the module each is named for |
| `StreamProofs` | proofs about `Tunnel`, `Exchange`, `Datagram`, `PyStream`, `PyRuntime` and `FfiStream` |
| `ClientStateProofs` | proofs about `ResponseBody`, `NetworkStream`, `RawResponse`, `RouteSelection`, `FfiHandles`, `CookieJar`, `LineStream` and `Multipart` |
| `MCStreams` | the parts with threads, timers and wakeups (`Tunnel` to `FfiStream`), as one specification |
| `MCPipelineAlt` | `RequestPipeline` and `AltSvc`, as one specification |
| `MCClientState` | the parts behind locks or ownership (`ResponseBody` to `LineStream`), as one specification |
| other `MC*` | instances for TLC |

`MCStreams`, `MCClientState` and `MCPipelineAlt` put parts side by side that share no variable: in each behaviour
one of them runs, and the others rest in a state in which nothing of theirs is enabled or taken.
What holds of a part there holds of it in the program, where it runs beside the others. Each
part that is proved about has a specification of its own next to its next-state relation
(`TunnelSpec`, `ExchangeSpec`, `DatagramSpec`, `PySpec`, `PyRuntimeSpec`, `FfiSpec`, `NetworkSpec`,
`RawSpec`, `RouteSpec`, `HandleSpec`, `JarSpec`, `LineSpec`, `MultipartSpec`, `AltSpec`; `ResponseBody` and the
modules with runs of their own have `Spec`): its initial states, and steps that are its own or
leave its variables alone. The theorems are about these.

Correspondence of state and actions:

* `Pool`: a task is a logical request; `pc` is its position in `acquire`, one value per
  await or shared access. `entry` is the `Arc<PerOriginSemaphore>` it holds, `writer` the
  table's write lock. The sweep is one step for `available_permits()` and one for `waiters`,
  because registered tasks run between them. Cancellation is possible exactly where the code
  awaits, and a task that was handed a permit it has not seen gives it back.
* `ResponseBody`: a poll is three steps (deadline, transport, deadline again), with the clock
  free to move in between. A chunk is its decoded size. What a decoder makes of bytes is
  external; the ratio limit may trip at any chunk.
* `RequestPipeline`: time passes only at awaits; `due` is the timer that runs there. The
  layers' locals are `attempt` and `hop`. The pool has one slot that other requests compete
  for, which is the case in which holding it too long matters. `wire` is the request as a transport
  has it: over TCP, over HTTP/3 (with the remaining total it was given), or as the TCP fallback.
* `AltSvc`: every lock acquisition is a step. A header is what parsing makes of it (clear,
  an endpoint with an age, or nothing).
* `H3Connector`: a cell is the `OnceCell` of a key; establishment is one step that succeeds
  or fails; `H3Outcomes` says what each failure reports.
* `Lifecycle`: a task is one connector call and the connection it becomes. Gauge, load and
  compare-exchange are steps of their own. What the inner transport answers to a poll is
  free; hyper (external) writes out its buffer before it flushes.
* `Tunnel`: `plan` is the route with its options, `tn` the position: a stage is one await that
  succeeds, fails, blames the destination, or runs into a timer. What was written on which
  connection is kept, nothing else of the bytes.
* `Exchange`: the upload, the send future and the caller are polled separately, as Hyper and
  `send_with_read_timeout` do; the order in which a `select!` looks at its branches is the order
  of the guards.
* `Datagram`: the two workers, the driver and Quinn's polls step between any two accesses to a
  queue or a waker slot; a poll that finds nothing and its registration are two steps.
* `PyStream`: `py.body` is who owns the body, `py.queue` the bridge. A queued item is the
  number of the last chunk it completes. `drain_and_close` may come at any step. `decoder` says
  whether a text or line iterator decodes a named charset, and whether that lost part of a chunk.
* `PyRuntime`: every atomic operation on the reference count, the slot and the flag is a step of
  a call; the extension also runs on builds of Python without a global lock.
* `FfiStream`: a `next` is several steps, because the receiver is back in its slot only at its
  end; the producer, `cancel` and `free` step in between. Finding the slot empty, recording the
  contention and the host's look at the shared error after a null are steps of their own;
  `cleared` notes that another thread's delivery emptied the error before that look.
* `NetworkStream`: the socket and the permit are tracked as two places, so that one can be
  released without the other; bytes are numbered.
* `RawResponse`: the peer writes and ends its connection at any point; the head's read takes any
  number of body bytes with it.
* `CookieJar`: each operation's read of the clock and its locked part are separate steps. A host
  is its labels from the top, a path its segments. The headers of a response are inserted in their
  order under one lock, so only the last cookie of each key stays (`StoredAll`).
* `RouteSelection`: `setup` is a client's configuration, `clients` its caches by key, `sent` the
  client and route the last call got. A cached client remembers the options it was built with.
* `FfiHandles`: `fh` follows builder, client and one request; a panic may strike at every point
  of `send`.
* `Multipart`: lengths are numbers with the code's checked arithmetic; `u64` and `usize` are
  scaled down. The wire is a sequence of tokens, one per body byte. The sum of the parts' lengths
  (`Summed`) and the buffered encoding (`Joined`) grow part by part, as the code's loops do.
* `LineStream`: the text is cut into chunks at every possible place. The reference definition
  (`ReadsLine`) finds line k by the line ends before it, apart from how the code cuts its buffer.

`TypeOK` of `Pool`, `Lifecycle`, `RequestPipeline` and `ResponseBody` is proved with their
inductive invariants; the other proofs type the state in the first conjunct of theirs.

Some modules hold, next to an action, a variant marked *Mutant*: the action with one
plausible mistake. They are not part of any specification; substituting one for its
original makes the property it is listed with in `PROJECT.json` fail, which shows that the
property depends on that line of the code.

## 3. Runs

Passing:

| Run | Shows |
|---|---|
| `pool_sweep` | With a sweep at every insertion, no interleaving of acquire, release and cancellation loses or mints a permit (`PermitsConserved`), miscounts waiters or removes the entry of a registered task (`RegistrationsExact`). |
| `pool_fair` | While the table stays below the sweep threshold, the whole pool and each origin's part of it implement `Limiter` (`RefinesLimiters`), and every acquire ends (`AcquireEnds`). |
| `pipeline_safety` | Two parts side by side. Pipeline, over chains of two redirects between three origins and two attempts: credentials stay with their origin, downgrades are refused when denied, a resolved target is not dialled for another origin (`HopsInScope`); bodies are replayed and requests repeated only where allowed and within the budgets (`ReplayAllowed`). Alt-Svc, with two callers, four requests, tables of one entry: no second delivery of a body and no fallback under `Http3Only` (`FallbackAllowed`); no order of responses makes a re-advertisement shorten the life of an entry that stays in the table, and a lookup skips an alternative it found only after failures of its own generation (`AdvertisementPrevails`). That an entry stays is not said: see the disagreements below. |
| `pipeline_time` | A total timeout under one deadline bounds attempts, hops, drains and backoffs together; when the last dispatch is the TCP fallback of an HTTP/3 attempt, which gets the remaining total anew, a request takes at most twice its total (`TotalBound`). Drains and the request end even if the server is silent and the pool full (`RequestEnds`). |
| `h3_sessions` | Two callers, three requests, a cache of one: no assignment to a session that was draining when the request arrived and no eviction of another's session by a request that fails before its response (`SessionsStayApart`; the bound of the cache and a response body that breaks evict whatever they find); a fallback is one of an unsent request (`FallbackIsUnsent`); waiters go on (`WaitersGoOn`). |
| `lifecycle` | Three calls under five policies: permits, gauge and high-water mark are exact under every race (`AdmissionExact`); an inactivity timeout is earned and never missed, an admission deadline is met (`TimersExact`). |
| `streams` | Threads, timers and wakeups; the table below. |
| `client_state` | State behind locks or ownership; the table below. |

| Part | Property | Shows |
|---|---|---|
| `streams`: tunnel | `SentOnce` | over both loops (CONNECT targets, SOCKS addresses) a request is written to an origin at most once, and a proxy connection carries one command |
| | `EstablishEnds` | with the timeouts that cover the route's stages set, connecting ends although no peer answers |
| exchange | `PhaseTimeoutIsEarned` | a read timeout is measured from the end of the upload and never replaces a total deadline that comes first; a write timeout from the first request for its chunk |
| | `HeadWaitEnds` | after the upload, a request with a read or total timeout ends whatever the server does |
| datagram | `RouteFailureEndsGeneration` | a failure of the route makes its connection terminal, whenever it is recorded |
| | `ReceiveIsLossless` | a full receive queue holds the route back and drops nothing |
| Python stream | `BridgeNeverStalls` | neither side of the bridge loses the other's wakeup, nor `aread()` that of a close |
| | `EndMeansWhole` | an iterator that simply ends handed out the whole body, except for what the decoder of a named charset dropped of an oversize chunk |
| Python runtime | `RuntimeOutlivesWork` | no `close()` ends the runtime under a dispatch or an open response, and the last holder does end it |
| C stream | `CancelWakesNext` | a `next` that waits for a silent server returns after cancel or free |
| | `ChunksStayInOrder`, `FailureIsReported` | two threads on one stream get its chunks in order, once; null with an empty error slot means the whole body or a cancel, unless another thread's delivery emptied the slot, and a failure that ended the stream stays on record |
| `client_state`: body | `LeaseExact`, `DeliveryBounded`, `ParkedIsResumed` | the lease is held exactly while bytes can come; no chunk after the total deadline or past the size limit; a parked consumer is resumed |
| upgraded stream | `PermitFollowsSocket`, `NoByteLostOrReordered` | through upgrade, `start_tls`, its failure and drops, the permit is free when the socket is gone and not before; leading bytes are read first |
| raw response | `SwitchLosesNoByte` | taking the head's reader apart loses no body byte; an abrupt end fails a declared body exactly when bytes are missing |
| cookie jar | `SentCookiesAreDue` | a cookie that is sent had not expired when the call looked at the clock, whatever writers did in between, and goes only to the host that set it or under the Domain it named |
| routes | `RouteFits` | the client taken from a cache was built for this request's proxy, addresses and timeout, and for its TLS name except on UDS, SOCKS, `direct_client` and plain forward-proxy routes, which ignore an override |
| | `EnvironmentAgrees` | a client that took its proxies from an environment snapshot sends each request where `ProxyEnvironment::resolve` of that snapshot says |
| C handles | `RequestReleasedOnce`, `ClientIsAsConfigured` | on every path, panics included, a sent request is dropped once and a failure leaves its error; a built client has what its builder acknowledged |
| multipart | `EncodedAsDeclared` | a form sent whole is on the wire as its buffered encoding would be, under a boundary that occurs in no buffered part, and as long as its Content-Length says if its streams kept their word |
| lines | `LinesFollowTheText` | the lines are those of the text however it is cut, up to the first error |

Disagreements between the code and what it says of itself, each kept as a run that TLC
refutes:

| Run | The code | What is written |
|---|---|---|
| `pool_sweep_limit` | the sweep reads free permits and waiters at two moments and can remove an entry in use; the origin then exceeds its limit | `pool.rs:613` "sweep only fully idle entries" |
| `pipeline_client_total` | a total timeout set on the client starts afresh with every attempt | `docs/concepts/retry.md:85` "under a single total deadline" |
| `pipeline_fallback_total` | the TCP fallback of an HTTP/3 attempt is given the whole remaining total again (`pipeline/h3_dispatch.rs:341`), so a request may take two totals | `pipeline/h3_dispatch.rs:316` "deadlines are monotonic (reused, never restarted)" |
| `python_close` | `close()` reaches subscribed receivers only: a synchronous iterator, a `read()` that has not subscribed yet and a producer parked on a full bridge keep the body and its pool slot | `crates/eggfetch-python/src/streaming.rs:266` "Wake any reader/iterator that already owns the body" |

Smaller disagreements met while modelling, not kept as runs:

* Retry and redirect: `BackoffPolicy::delay(1)` is `None`, so the second attempt starts at once;
  `docs/concepts/retry.md:64` says "Attempt 2: `initial_delay` with jitter". A cross-origin hop
  clears `cookie_header_allowed`, so later hops carry no jar cookies;
  `docs/concepts/redirects.md:72` says they are recomputed for the new destination.
* Body: a streaming `Content-Encoding: identity` body is read without the decoded-size limit
  (`compression.rs:303`), which the comment at `body.rs:989` says holds for unencoded ones too.
* Alt-Svc: `note_new_advertisement` (`transport/alt_svc.rs:872`) and `get_fresh_counted` (`:552`)
  remove an entry without looking again under the write lock, so a fresh one can be lost.
* Sessions: two requests that find a session draining both establish a new one
  (`transport/http3.rs:1112`, against the comment at `:240`). The cache can exceed its bound by
  the requests that insert together (`:602`), a request of a new generation can be sent on the old
  generation's session (`:1123`), and a failing response body evicts whatever session is
  cached (`:1421`).
* Upgrades: an upgraded stream of the standard route keeps the timed wrapper
  (`transport/direct.rs:523`), although `transport/lifecycle.rs:470` calls upgraded streams
  untimed.
* Hand-read responses: a declared body cut short by a clean end of the connection passes for
  complete (`transport/connect.rs:848`, `transport/proxy.rs:1260`), while the doc at
  `transport/proxy.rs:1288` speaks of truncation as an error; after all declared bytes the
  stream still waits for the peer to close (`transport/connect.rs:809`).
* Routes: an SNI override is ignored on UDS, SOCKS and `direct_client` routes
  (`pipeline/hyper_dispatch.rs:193`, `client/routes.rs:349`, against `transport_hints.rs:115` and
  `docs/architecture/core-engine.md:145`), which `RouteFits` excepts by name; pinned addresses of a native call on a UDS client
  are ignored; `Http3Only` on a client with a UDS, a proxy, a direct client or an SNI
  override is dispatched over TCP (`http_version.rs:28`); `ClientBuilder::no_proxy` called
  before `proxy` is forgotten (`client.rs:833`); bracketed IPv6 entries (`proxy/no_proxy.rs:29`)
  are not what `proxy.rs:60` describes; `native_would_use_proxy` sees an explicit default
  port that `url::Url` drops (`pipeline/prepare.rs:135`).
* Multipart: the Python layer reads the boundary for its Content-Type before `into_body` may draw
  another (`crates/eggfetch-python/src/multipart.rs:142`); the property allows it only for a
  boundary that collided.
* Lines: the chunk that trips the limit is dropped, and polling on after the error yields lines
  that are not the text's; `LinesFollowTheText` speaks of what comes before.
* C streaming: the contention a `next` records can be cleared by another thread's delivery
  (`streaming.rs:487`) before its host looks, so that null comes with an empty error slot in the
  middle of a body, against the comment at `:383`; `FailureIsReported` excepts exactly this. A
  `next` after the end reports contention too (`streaming.rs:382`), and the
  producer looks at the cancel flag only after a chunk (`:167`), so a cancelled stream of a silent
  server keeps its body.
* Python: with a named charset `IncrementalDecoder::decode` writes into a String of at most 64 KiB
  and drops the decoder's result (`streaming/decoding.rs:36`), so the rest of a larger chunk is
  lost, against the comment at `:17` ("not replaced or lost"); `EndMeansWhole` excepts exactly
  this. A runtime whose client is never closed, or whose two last holders drop it together, ends in
  a blocking drop (`crates/eggfetch-python/src/client.rs:46`); two threads in one iterator overwrite
  `pending` (`streaming/sync_iterators.rs:153`).

## 4. Bounds and why they are enough

* Pool: three tasks are one that holds, one that queues and one that overtakes or sweeps; two
  origins let one origin's insertion sweep the other's entry; four allocations let an entry
  be replaced while both its generations are referenced. `SweepThreshold` is
  `max(16 * limit, 64)` in the code; 0 and 2 put the sweep at every insertion and at none.
* Body: two chunks of size one or two around a limit of two reach below, at and above it;
  deadlines of one and two ticks reach read-before-total, total-before-read and both at once.
* Pipeline: three origins are home, another secure one and an insecure one, which are the
  distinctions the policy makes; two hops let a chain leave and return. The timed run has
  three attempts because the second starts without a delay. The policy part has no clock and
  the timed runs no policy, since the policy never reads the clock. HTTP/3 is possible for two of
  the timed requests (one whose body can be sent again, one whose body cannot), and in the policy part for those without credentials under Deny.
* Alt-Svc: tables of one entry make every second insertion evict; four requests are two
  rounds of learn and use by two callers. One tick separates fresh from expired.
* Sessions: two keys with a cache of one force eviction; three requests are an establishment,
  a concurrent one and a late one; two generations make a stale one.
* Lifecycle: a cap of two and three calls race two admissions against each other and queue a
  third; a cap of one with both guards follows one connection at a time, and connections
  share nothing but the semaphore and the gauges. Ages stop at the limit they are compared
  with.
* Tunnel: two addresses and two targets make each loop go on once and give up once; the clock runs
  to 16, past the sum of every plan's timeouts. Exchange: up to two chunks under every
  order of three deadlines, clock to 6, past the latest of them.
* Datagram: three datagrams against queues of two. Python: three chunks against a bridge of
  two, so that the producer parks with one in hand; three calls on the runtime are a request, an
  open stream and a close, or two closes. C: two threads, three chunks, a channel of one.
* Upgraded and raw streams: three bytes are one that came early, one at the boundary and one late;
  two threads contend for the handle.
* Cookies: a site, its subdomain, another site and an address; a clock of two ticks with
  expiries at each; two creations let one replace or outlive another.
* Routes: caches of one client, so that every second configuration evicts; calls differ in every
  field a key must distinguish, and every form of a bypass entry occurs. The caches of different
  families never meet, so one client makes the calls with pins, names and proxies together and
  another (`Patient`) those that choose among the targets of a proxy.
* Multipart: two parts and two draws of a boundary (the second draw can collide as the
  first did); `u64` is 60 and `usize` 44, so that sums cross each. Lines: texts of up to five
  characters with a limit of two: a line below, at and above it, with each line end.

Clocks stop at their bound unless a timer is running, so that no wait is cut short.
Symmetry is used where only invariants are checked over interchangeable tasks, origins or
allocations (`pool_sweep`, `pool_sweep_limit`), and in `pipeline_safety`, whose properties of
`AltSvc` quantify over all tasks; runs with fairness use none.
`CHECK_DEADLOCK FALSE` is set where a request, or a bounded number of them, really ends.

## 5. Fairness

* `Pool`: a task that can run is polled, and a guard that is held is dropped at last (the
  response is read or dropped). Nobody has to start or to give up.
* `ResponseBody`: the clock runs and a consumer that has begun to poll goes on; the server
  need not send.
* `RequestPipeline`: the clock, the timers and the code between awaits; neither the
  server nor the other users of the pool need act, so `RequestEnds` rests on deadlines only.
* `H3Connector`: each task's own steps; a task that establishes succeeds, fails or is dropped.
* `Lifecycle`: tasks that can run, the clock, and hyper's polls of the connections it owns: the
  armed `Sleep` registers hyper's waker, so hyper's task is woken when it is due. Streams
  owned by the application are polled at its pleasure and carry no fairness.
* `Tunnel`, `Exchange`: the clock, due timers and the polls of what can go on; no peer, proxy or
  producer has to act.
* `Datagram`: the driver task, and Quinn's polls after a wake; the route need not deliver.
* `PyStream`: the woken task or thread goes on (`subscribe`, `CancelSeen`, `SendItem`,
  `SpaceNotified`, `recv_blocking`); nobody has to call `next`, and the server need not send.
* `FfiStream`: a thread inside `next` goes on to its wait and leaves it when cancelled.

tokio's scheduler polls woken tasks, its timer wheel wakes sleeping ones and the operating system
runs threads, which is all these conditions say. The other modules state none.

## 6. Proofs

Eight modules hold theorems that TLAPS checks for every value of the constants: any numbers of
tasks, origins, requests, chunks and threads, any limits, depths and timeouts. Each property
named below is the one a run checks on a small instance. Behind each theorem is an inductive
invariant (true at first, kept by every step, stronger than the property), and the proof that
steps keep it takes the actions one at a time.

| Module | Specification | Inductive invariant | Properties proved |
|---|---|---|---|
| `PoolProofs`, `SemaphoreProofs` | `Pool` | `IInv` | `TypeOK`, `PermitsConserved`, `RegistrationsExact`, the global limit, `RefinesLimiters` |
| `PipelineProofs` | `RequestPipeline` | `IInv` | `HopsInScope`, `ReplayAllowed`, `TotalBound` |
| `AltSvcProofs` | `AltSvc` | `AltInv` | `FallbackAllowed`, `AdvertisementPrevails` |
| `H3ConnectorProofs` | `H3Connector` | `H3Inv` | `FallbackIsUnsent`, `SessionsStayApart` |
| `LifecycleProofs` | `Lifecycle` | `IInv` | `AdmissionExact`, the safety half of `TimersExact` |
| `StreamProofs` | `DatagramSpec`, `FfiSpec`, `PyRuntimeSpec`, `PySpec`, `TunnelSpec`, `ExchangeSpec` | one per part, named `...Inv` | `ReceiveIsLossless`, `ChunksStayInOrder`, `FailureIsReported`, `RuntimeOutlivesWork`, `EndMeansWhole`, `SentOnce`, `PhaseTimeoutIsEarned` |
| `ClientStateProofs` | `ResponseBody`, `NetworkSpec`, `RawSpec`, `HandleSpec`, `RouteSpec`, `JarSpec`, `LineSpec`, `MultipartSpec` | one per part, named `...Inv` | `LeaseExact`, `DeliveryBounded`, `PermitFollowsSocket`, `NoByteLostOrReordered`, `SwitchLosesNoByte`, `RequestReleasedOnce`, `ClientIsAsConfigured`, `RouteFits`, `EnvironmentAgrees`, `SentCookiesAreDue`, `LinesFollowTheText`, `EncodedAsDeclared` |

**Assumptions.** Only what the constants mean: each module names its own (`PoolAssumption`,
`PipelineAssumption`, `TunnelAssumption`, ...). They say that tasks or calls are finitely many
where permits or references are counted, that limits, times and lengths are naturals (a queue or
a cache holds at least one), that null values are not members, and that the requests, plans and
configurations considered have the shape the code's types give them. Bounds that exist for TLC
alone are any natural number in the theorems.

**Pool.** The counting facts are not inductive alone. Releasing a permit hands it to the head of
the queue, so the count is kept only if that head is a task that waits there and nowhere else
(`GlobalQueueShape`, `OriginQueueShape`). A task's permit must belong to an entry it still refers
to (`EntryShape`), or reuse of an allocation would forget it. `RegisteredInTable` needs to
know that registration happens under the lock and that the sweep, which removes only what it saw
unregistered, still holds it (`LockShape`). `SemaphoreProofs` gives what each semaphore operation
does to permits, queue and membership; `CountTasks` turns a change of one task's `pc` into a
change of a cardinality.

**Pool as a limiter.** `GlobalIsALimiter` shows `Spec => GlobalLimiter!Spec` whenever there is a
global limit: each step of the pool is a step of `Limiter` or leaves its variables alone. It
needs `Unhurried` as well: nobody queues while permits are free, or a newcomer could overtake.
`PoolRefinesLimiters` adds the limiter of every origin, under `NeverSweeps` (every origin fits
below the sweep threshold), where a request's entry is the one in the table (`Unswept`). Without
that hypothesis the statement is false: a sweep can remove an entry in use, which is
what `pool_sweep_limit` shows. For the same reason `OriginLimit` is not a theorem; what holds
with sweeps is that each entry, removed or not, conserves its permits.

**Pipeline.** `ControlShape` says what is known at each position (between two attempts, only
what may be retried; on a redirect, a location to follow), `ScopeShape` that what may still be sent belongs to the current origin (the hop's credentials
and pinned addresses were filtered when the origin changed), `ReplayShape` bounds the sends by
attempts and hops, and `ClockShape` that every timer lies within `Limit`: the total,
or twice the total once the dispatch has fallen back from HTTP/3. `TotalBound` has the hypothesis
`OneDeadline` (the total is the request's, or there is one attempt): a total of the client starts
afresh with an attempt. `WithinTotal`, the claim without either exception, is what
`pipeline_client_total` and `pipeline_fallback_total` refute.

**Alt-Svc and sessions.** A request remembers the generation it looked up; `AltInv` relates it to
the tables, whatever other requests inserted or evicted meanwhile, and keeps for each suppression
a failure of that generation that explains it (the end of a suppression is an integer, because
it is a failure's time plus a capped backoff). `H3Inv` relates a request to the cell it was
assigned: the cell existed, is initialised by the one request that establishes it, and was not
among those draining when the request arrived. It does not mention the size of the cache.

**Lifecycle.** `PermitCount` and `QueueShape` are the pool's argument again. The gauge and its
high-water mark are updated by separate atomic operations, so `GaugeCount` counts tasks between
the two, and `MarkIsBehind` says by whom a mark that is too low will still be raised.
`TimeoutsAreEarned` states the safety half of `TimersExact`: `TimerShape` keeps an armed timer no
older than the silence it measures.

**Streams.** The datagram, C and Python parts number what they carry, and their invariants say
that the numbers run on without a gap from what was handed out through the queue to what the
producer holds; losing a place between two steps would break the chain. For the C stream it
also matters which thread holds the receiver, and which nulls the host has yet to look at; for the
Python stream who owns the body and whether an end was recorded before or after the last
chunk (`DecoderInv` adds that only a named charset's decoder loses anything). `RuntimeInv` counts who holds the
runtime at each step of a call. `TunnelInv` gives every stage of a plan its rank and shows
that plans only rise in rank from dialling through the handshakes to sending; from a stage's rank
follows what cannot have been written yet, which is why a fallback to another target
finds nothing sent. `ExchangeInv` says of each running timer what set it.

**Bodies, sockets, handles.** `BodyInv` fixes the lease and the deadlines in each stage of a
poll. `NetworkInv` keeps the permit where the socket is and the bytes in one numbered run;
`RawInv` does so across the switch of readers. `HandleInv` relates the settings a builder
acknowledged to those it holds, and says who owns the request on every path of `send`.

**Routes.** `RouteInv` says that a cached client was built with what its key says (`Keyed`): then
it does not matter who built it, or what was evicted. The step lemmas use that preparation
refuses the combinations a route would ignore (pinned addresses behind a proxy, proxied ones
on plain HTTP). `EnvironmentsAgree` rests on lemmas about searching a list that is chained from
several (`FirstUsableIsListed`, `FirstOfChained`).

**Cookies.** `JarInv` says that the cached expiry is never later than that of a stored cookie
(`CacheIsEarly`): had the cache hidden a due cookie, a reader would take it along. A set or a
removal must recompute the cache when the cookie that determined it goes. Between its two looks a
reader knows which cookies had expired; `StaleIsGone` says that when it goes on, none of them is in the
jar any more, and `PendingIsNew` that a writer that was already under way cannot put one back: the
cookies it will store have never been in the jar. `AllScoped` is the scope of every cookie that is stored
or about to be, from the response that set it.

**Lines.** `LineInv` says that the buffer is the text between what was yielded and what was taken
(`BufferFollows`), that this begins the text or follows a line end, and that as many items were
yielded as line ends were passed. With it an item that is cut from the buffer, the rest at the end
and the refusal of a chunk that has not been appended are each the text's next line. The count of
line ends is a cardinality, which `OneLineEnd` and `NoLineEnds` move on.

**Multipart.** `MultipartInv` says for each state of the encoder which part of the encoding is on the
wire (`WireFollows`), that nothing goes out before the boundary was checked (`Framed`), that an
announced boundary differs from the form's only if it occurs in a part (`Announced`), and that a
known length is the encoding's (`Counts`). `LengthCountsEncoding` is the arithmetic behind the last:
the checked sum of the parts' lengths is what their encoding measures on the wire, for any
number of parts, when every stream is as long as its caller stated.

**Recursion and induction.** What `Summed` and `Joined` compute is proved without an induction theorem: a
set of positions that is not empty has a first one (`FirstPosition`, from the well-foundedness of
the naturals), hence a set with 0 and every successor up to N holds all of them (`UpTo`), and with
it the functions exist and grow step by step (`SummedStep`, `JoinedStep`).

**Only model-checked.** Every safety property that holds in the runs is a theorem, except that
`TimersExact` is one in its safety half. Fairness and
ENABLED are outside the prover's reach, so liveness stays with TLC: `AcquireEnds`, `RequestEnds`,
`WaitersGoOn`, the liveness half of `TimersExact`, `EstablishEnds`, `HeadWaitEnds`,
`RouteFailureEndsGeneration`, `BridgeNeverStalls`, `CancelWakesNext`, `ParkedIsResumed`.

## 7. Plan

Done in this order, the most shared state first: pool, its proof, body, pipeline, Alt-Svc,
sessions, lifecycle; then tunnels and SOCKS, the exchange, datagrams, the C and Python streams,
upgraded and raw streams, cookies, routes, C handles, multipart, lines, the Python runtime; then
the theorems of section 6.

Models to come: the pipeline's slot as an instance of `Limiter`, `AltSvc` with `H3Connector`
through `H3Outcomes`, and `Tunnel` under `Lifecycle`'s admission.

## 8. Reading the files

`tlc -config MCPoolSweep.cfg MCPool` checks a run; `tlapm PoolProofs.tla` the proofs of a module.
`PROJECT.json` maps every definition to the lines it stands for and lists the hazards, each
with the properties that would notice it.

## 9. Not modelled

Reported per component in `PROJECT.json`. In short:

* TLS configuration, which reads certificates and fills rustls' configuration (external).
* Value types and conversions: headers, origins, errors, the Python conversions, redaction, the
  grammar of URLs, dates, attributes and response heads (a head is accepted or not).
* The bytes decoders produce (external libraries); which decoder and limit apply is modelled.
* The Python async client, which keeps one option and runs on an ambient runtime; the Node
  binding, a sequential wrapper; the command line; the benchmarks; trace observers, which report.
* DNS and sockets, whose answers are free choices of the models; the QUIC handshake, which is
  one step.
* Poisoned locks and closed semaphores, which nothing in the repository brings about.
