------------------------------ MODULE MCStreams ------------------------------
(***************************************************************************)
(* The parts with threads, timers and wakeups, side by side: in a          *)
(* behaviour one of them runs and the others are at rest, in a state where *)
(* nothing of theirs is enabled.  They share no variable, so what holds of *)
(* each holds of the program that runs them together.                      *)
(***************************************************************************)
EXTENDS Tunnel, Exchange, Datagram, PyStream, PyRuntime, FfiStream

CONSTANT Parts

VARIABLE part

streamsVars == <<part, tunnelVars, exchangeVars, datagramVars, pyVars, pyRuntimeVars, ffiVars>>

\* Every route of the tunnel module, with the options that concern it.
TunnelPlans ==
    {p \in [route : Routes, cached : BOOLEAN, tls : BOOLEAN, proxyTls : BOOLEAN,
            auth : BOOLEAN, manualAuth : BOOLEAN, http2Only : BOOLEAN, replayable : BOOLEAN,
            localDns : BOOLEAN,
            addresses : {0, 2}, targets : {1, 2}, connect : {1, NoTime}, io : {1, NoTime},
            deadline : {2, NoTime}] :
        /\ Dispatchable(p)
        /\ p.proxyTls => p.route \in {"forward", "connect"}
        /\ p.auth \/ p.manualAuth => p.route \in {"forward", "connect", "socks"}
        /\ p.http2Only => p.route = "forward"
        /\ ~p.replayable => ~p.cached
        /\ p.io # NoTime => ~p.cached}

\* Uploads of up to two chunks under every order of the three deadlines.
TimedExchanges == [chunks : 0 .. 2, read : {1, 2, Unset}, write : {1, 2, Unset},
                   deadline : {2, 3, 4, Unset}]

-----------------------------------------------------------------------------
StreamsInit ==
    /\ part \in Parts
    /\ IF part = "tunnel" THEN TunnelInit
       ELSE plan = (CHOOSE p \in Plans : TRUE) /\ tn = [TunnelStart EXCEPT !.result = "response"]
    /\ IF part = "exchange" THEN ExchangeInit
       ELSE /\ xplan = (CHOOSE p \in Exchanges : TRUE)
            /\ ex = [ExchangeStart EXCEPT !.caller = "done", !.sending = "head"]
    /\ IF part = "datagram" THEN DatagramInit ELSE dg = [DatagramStart EXCEPT !.stage = "released"]
    /\ PyInit
    /\ PyRuntimeInit
    /\ FfiInit

StreamsNext ==
    \/ /\ part = "tunnel" /\ TunnelNext
       /\ UNCHANGED <<part, exchangeVars, datagramVars, pyVars, pyRuntimeVars, ffiVars>>
    \/ /\ part = "exchange" /\ ExchangeNext
       /\ UNCHANGED <<part, tunnelVars, datagramVars, pyVars, pyRuntimeVars, ffiVars>>
    \/ /\ part = "datagram" /\ DatagramNext
       /\ UNCHANGED <<part, tunnelVars, exchangeVars, pyVars, pyRuntimeVars, ffiVars>>
    \/ /\ part = "python" /\ PyNext
       /\ UNCHANGED <<part, tunnelVars, exchangeVars, datagramVars, pyRuntimeVars, ffiVars>>
    \/ /\ part = "runtime" /\ PyRuntimeNext
       /\ UNCHANGED <<part, tunnelVars, exchangeVars, datagramVars, pyVars, ffiVars>>
    \/ /\ part = "ffi" /\ FfiNext
       /\ UNCHANGED <<part, tunnelVars, exchangeVars, datagramVars, pyVars, pyRuntimeVars>>

StreamsSpec ==
    /\ StreamsInit /\ [][StreamsNext]_streamsVars
    /\ TunnelFairness /\ ExchangeFairness /\ DatagramFairness /\ PyFairness /\ FfiFairness
=============================================================================
