--------------------------- MODULE NetworkStream ---------------------------
(***************************************************************************)
(* An upgraded connection after a 101: the stream the core builds from     *)
(* Hyper's (transport/direct.rs, network_stream.rs) and the handles Python *)
(* code works with, from several threads (eggfetch-python network_stream). *)
(*                                                                         *)
(* The socket and the permit of the physical connection that was counted   *)
(* for it are tracked separately, each by the place that owns it.  Bytes   *)
(* are numbered; the first ones may have arrived with the response head.   *)
(***************************************************************************)
EXTENDS Naturals, Sequences, SequencesExt

CONSTANTS StreamThreads,  \* Python threads or tasks that share the handle
          PeerBytes,      \* bound: bytes the peer sends
          NoThread

ASSUME NetworkStreamAssumption == NoThread \notin StreamThreads /\ PeerBytes \in Nat \ {0}

VARIABLE ns

networkVars == <<ns>>

\* Who owns a thing: Hyper's connection, the first handle, a TLS handshake in
\* flight, the handle start_tls returns, or nobody any more.
Owners == {"connection", "handle", "handshake", "tlsHandle", "gone"}
Connectors == {"direct", "directTls", "uds", "standard"}

NetworkState ==
    [connector : Connectors, guarded : BOOLEAN, sync : BOOLEAN,
     socket : Owners, guard : Owners, variant : {"tcp", "tls", "adapter"},
     leading : Seq(1 .. PeerBytes), arrived : Seq(1 .. PeerBytes), got : Seq(1 .. PeerBytes),
     sent : 0 .. PeerBytes, holder : StreamThreads \cup {NoThread},
     op : {"none", "read", "write", "close", "startTls"},
     handle : BOOLEAN, tlsHandle : BOOLEAN]

\* The bytes that came in one segment with the head are already in Hyper.
NetworkStart(connector, guarded, sync, leading) ==
    [connector |-> connector, guarded |-> guarded, sync |-> sync, socket |-> "connection",
     guard |-> IF guarded THEN "connection" ELSE "gone", variant |-> "adapter",
     leading |-> [i \in 1 .. leading |-> i], arrived |-> << >>, got |-> << >>,
     sent |-> leading, holder |-> NoThread, op |-> "none", handle |-> FALSE,
     tlsHandle |-> FALSE]

NetworkInit == \E c \in Connectors, g \in BOOLEAN, s \in BOOLEAN, k \in 0 .. 1 :
                   ns = NetworkStart(c, g, s, k)

\* Both owners let go: the socket closes, then the permit returns.
Release(state) == [state EXCEPT !.socket = "gone", !.guard = "gone"]
\* Mutant: the permit is dropped when the stream changes hands.
GuardForgotten(state, owner) == "gone"

GuardTo(state, owner) == IF state.guard = "gone" THEN "gone" ELSE owner
-----------------------------------------------------------------------------
\* upgrade_with_connector_metadata: the concrete stream is recovered for the
\* direct connector, with its permit; a Unix socket and Hyper's own connector
\* stay behind an adapter.
VariantOf(c) == CASE c = "direct" -> "tcp" [] c = "directTls" -> "tls" [] OTHER -> "adapter"

upgrade_with_connector_metadata ==
    /\ ns.socket = "connection"
    /\ ns' = [ns EXCEPT !.socket = "handle", !.guard = GuardTo(ns, "handle"),
                        !.variant = VariantOf(ns.connector), !.handle = TRUE]

\* await_upgrade fails: the response is delivered without a stream.
UpgradeFails ==
    /\ ns.socket = "connection"
    /\ ns' = Release(ns)

PeerSends ==
    /\ ns.sent < PeerBytes /\ ns.socket # "gone"
    /\ ns' = [ns EXCEPT !.sent = @ + 1, !.arrived = Append(@, ns.sent + 1)]
-----------------------------------------------------------------------------
(* One thread at a time holds the handle's lock, across the whole I/O. *)

Lock(t, op) ==
    /\ ns.handle /\ ns.holder = NoThread
    /\ ns' = [ns EXCEPT !.holder = t, !.op = op]
Unlocked(state) == [state EXCEPT !.holder = NoThread, !.op = "none"]

BeginRead(t) == Lock(t, "read")
BeginWrite(t) == Lock(t, "write")
BeginClose(t) == Lock(t, "close")

\* Mutant: the socket is read before the bytes that came with the head.
NextByteSocketFirst(state) ==
    IF state.arrived # << >>
    THEN [state EXCEPT !.got = Append(@, Head(state.arrived)), !.arrived = Tail(@)]
    ELSE [state EXCEPT !.got = Append(@, Head(state.leading)), !.leading = Tail(@)]

\* A read takes what came with the head first.
NextByte(state) ==
    IF state.leading # << >>
    THEN [state EXCEPT !.got = Append(@, Head(state.leading)), !.leading = Tail(@)]
    ELSE [state EXCEPT !.got = Append(@, Head(state.arrived)), !.arrived = Tail(@)]

ReadReturns(t) ==
    /\ ns.holder = t /\ ns.op = "read" /\ ns.socket = "handle"
    /\ ns.leading # << >> \/ ns.arrived # << >>
    /\ ns' = Unlocked(NextByte(ns))

\* End of stream, an error, the caller's timeout, or an empty handle.
IoFails(t) ==
    /\ ns.holder = t /\ ns.op \in {"read", "write"}
    /\ ns' = Unlocked(ns)

WriteReturns(t) ==
    /\ ns.holder = t /\ ns.op = "write" /\ ns.socket = "handle"
    /\ ns' = Unlocked(ns)

\* close only shuts the write side down; aclose also takes the stream out.
CloseReturns(t) ==
    /\ ns.holder = t /\ ns.op = "close"
    /\ ns' = Unlocked(IF ~ns.sync /\ ns.socket = "handle" THEN Release(ns) ELSE ns)

\* start_tls: refused unless the socket itself is known; then the stream is
\* taken out for good.  The async one keeps the lock during the handshake.
start_tls(t) ==
    /\ ns.handle /\ ns.holder = NoThread
    /\ ns.variant = "tcp" /\ ns.socket = "handle"
    /\ ns' = [ns EXCEPT !.socket = "handshake", !.guard = GuardTo(ns, "handshake"),
                        !.op = IF ns.sync THEN @ ELSE "startTls",
                        !.holder = IF ns.sync THEN @ ELSE t]
HandshakeEnded(state) == IF state.sync THEN state ELSE Unlocked(state)

HandshakeDone ==
    /\ ns.socket = "handshake"
    /\ ns' = HandshakeEnded([ns EXCEPT !.socket = "tlsHandle", !.guard = GuardTo(ns, "tlsHandle"),
                                       !.variant = "tls", !.tlsHandle = TRUE])

\* A bad server name, a failed handshake, its timeout - or, in the sync call, a
\* timeout argument that is only validated once the stream has been taken.
HandshakeFails ==
    /\ ns.socket = "handshake"
    /\ ns' = HandshakeEnded(Release(ns))

TlsHandleReads ==
    /\ ns.socket = "tlsHandle" /\ (ns.leading # << >> \/ ns.arrived # << >>)
    /\ ns' = NextByte(ns)
-----------------------------------------------------------------------------
DropHandle ==
    /\ ns.handle /\ ns.holder = NoThread
    /\ ns' = [(IF ns.socket = "handle" THEN Release(ns) ELSE ns) EXCEPT !.handle = FALSE]

DropTlsHandle ==
    /\ ns.tlsHandle
    /\ ns' = [Release(ns) EXCEPT !.tlsHandle = FALSE]

NetworkNext ==
    \/ upgrade_with_connector_metadata \/ UpgradeFails \/ PeerSends
    \/ \E t \in StreamThreads : \/ BeginRead(t) \/ BeginWrite(t) \/ BeginClose(t)
                                \/ ReadReturns(t) \/ WriteReturns(t) \/ IoFails(t)
                                \/ CloseReturns(t) \/ start_tls(t)
    \/ HandshakeDone \/ HandshakeFails \/ TlsHandleReads
    \/ DropHandle \/ DropTlsHandle

NetworkSpec == NetworkInit /\ [][NetworkNext]_networkVars
-----------------------------------------------------------------------------
(* PermitFollowsSocket: the permit that counts a physical connection is given *)
(* back exactly when its socket is gone, through the upgrade, a TLS handshake *)
(* on the upgraded stream, its failure, and the drop of either handle: given  *)
(* back early the connection limit is exceeded, kept it leaks a slot.         *)
PermitFollowsSocket == ns.guarded => ns.guard = ns.socket

(* NoByteLostOrReordered: what the threads read is what the peer sent, from   *)
(* its first byte and in order - also the bytes that came in the same segment *)
(* as the 101, and also when the stream moves into a TLS session.             *)
NoByteLostOrReordered == ns.got = [i \in 1 .. Len(ns.got) |-> i]
=============================================================================
