------------------------------ MODULE PyRuntime ------------------------------
(***************************************************************************)
(* The runtime of the synchronous Python Client (eggfetch-python/src/      *)
(* client.rs): the client, every dispatch and every open response hold a   *)
(* counted reference to it; close() asks for its end, and whoever finds    *)
(* itself the last holder shuts it down in the background.                 *)
(*                                                                         *)
(* A call is one Python thread's request() or stream() with the response   *)
(* it returns, or one close().  Calls step between any two atomic          *)
(* operations of another: the extension runs on builds without the GIL.    *)
(***************************************************************************)
EXTENDS Naturals, FiniteSets

CONSTANT PyCalls   \* calls made on the client

ASSUME PyRuntimeAssumption == IsFiniteSet(PyCalls)

VARIABLES owner,   \* client, slot: what PyClient still has; requested: the flag; runtime
          call     \* per call: where it is, whether a method of the client is
                   \* still running, and how many references it holds

pyRuntimeVars == <<owner, call>>

\* request() returns a response with a reference only for an upgraded
\* stream; stream() returns one always, and a second one with the stream.
CallState ==
    [pc : {"start", "prepare", "dispatch", "working", "open", "take", "request_shutdown",
           "flag", "count", "lock", "release", "done"},
     kind : {"none", "request", "stream", "close"}, inside : BOOLEAN, refs : 0 .. 2]
OwnerState ==
    [client : BOOLEAN, slot : BOOLEAN, requested : BOOLEAN,
     runtime : {"running", "background", "dropped"}]

PyRuntimeInit ==
    /\ owner = [client |-> TRUE, slot |-> TRUE, requested |-> FALSE, runtime |-> "running"]
    /\ call = [c \in PyCalls |-> [pc |-> "start", kind |-> "none", inside |-> FALSE, refs |-> 0]]

\* The references of the calls, as pairs of a call and one of its references.
CallRefs == {r \in PyCalls \X {1, 2} : r[2] <= call[r[1]].refs}
strong_count == Cardinality(CallRefs) + (IF owner.slot THEN 1 ELSE 0)
At(c, pc) == call[c].pc = pc
Goto(c, pc) == call' = [call EXCEPT ![c].pc = pc, ![c].inside = @ /\ pc # "done"]
-----------------------------------------------------------------------------
(***************************************************************************)
(* request() and stream().                                                 *)
(***************************************************************************)
Begin(c, kind) ==
    /\ At(c, "start")
    /\ call' = [call EXCEPT ![c].pc = "prepare", ![c].kind = kind, ![c].inside = TRUE]
    /\ UNCHANGED owner
ensure_not_closed == owner.client
request(c) == ensure_not_closed /\ Begin(c, "request")
stream(c) == ensure_not_closed /\ Begin(c, "stream")

\* The preparation runs Python code and may fail; the client may be closed
\* meanwhile.
clone_client(c) ==
    /\ At(c, "prepare") /\ UNCHANGED owner
    /\ \/ owner.client /\ Goto(c, "dispatch")
       \/ Goto(c, "done")

\* The reference and the handle are fetched once, under the client's lock.
runtime_for_dispatch(c) ==
    /\ At(c, "dispatch") /\ UNCHANGED owner
    /\ IF owner.slot /\ owner.runtime = "running"
       THEN call' = [call EXCEPT ![c].pc = "working", ![c].refs = 1]
       ELSE Goto(c, "done")

\* block_on is over.  An upgraded stream holds a clone of the guard.
Finished(c, kind, upgraded, pc) ==
    /\ At(c, "working") /\ call[c].kind = kind /\ UNCHANGED owner
    /\ call' = [call EXCEPT ![c].refs = IF upgraded THEN 2 ELSE 1, ![c].pc = pc,
                            ![c].inside = pc # "open"]
\* request() has read the body: its own guard is dropped, error or not.
RequestFinished(c, upgraded) == Finished(c, "request", upgraded, "flag")
\* stream() puts its guard into the response; an error drops it.
StreamFinished(c, ok, upgraded) ==
    /\ upgraded => ok
    /\ Finished(c, "stream", upgraded, IF ok THEN "open" ELSE "flag")

\* The response, or the upgraded stream taken from it, is collected.
Collected(c) == At(c, "open") /\ Goto(c, "flag") /\ UNCHANGED owner
-----------------------------------------------------------------------------
(***************************************************************************)
(* close(), and the collection of a client nobody closed.                  *)
(***************************************************************************)
close(c) ==
    /\ At(c, "start")
    /\ owner' = [owner EXCEPT !.client = FALSE]
    /\ call' = [call EXCEPT ![c].kind = "close", ![c].inside = owner.client,
                            ![c].pc = IF owner.client THEN "take" ELSE "done"]
CloseTakes(c) ==
    /\ At(c, "take")
    /\ owner' = [owner EXCEPT !.slot = FALSE]
    /\ call' = [call EXCEPT ![c].refs = IF owner.slot THEN 1 ELSE 0,
                            ![c].inside = owner.slot,
                            ![c].pc = IF owner.slot THEN "request_shutdown" ELSE "done"]
request_shutdown(c) ==
    /\ At(c, "request_shutdown")
    /\ owner' = [owner EXCEPT !.requested = TRUE]
    /\ Goto(c, "flag")

\* The last Arc drops the state, and with it a runtime still inside: a drop
\* that blocks until the workers have stopped.
Dropped(o, left) == [o EXCEPT !.runtime = IF left = 0 /\ @ = "running" THEN "dropped" ELSE @]
ClientCollected ==
    /\ owner.slot /\ \A c \in PyCalls : ~call[c].inside
    /\ owner' = Dropped([owner EXCEPT !.client = FALSE, !.slot = FALSE], strong_count - 1)
    /\ call' = [c \in PyCalls |-> IF At(c, "start") THEN [call[c] EXCEPT !.pc = "done"] ELSE call[c]]
-----------------------------------------------------------------------------
(***************************************************************************)
(* try_shutdown, run by close() and by the drop of every guard before the  *)
(* guard's own reference goes.                                             *)
(***************************************************************************)
\* Mutant: anybody may shut down after close().
anyone == TRUE

last_holder == strong_count = 1

load_requested(c) ==
    /\ At(c, "flag") /\ UNCHANGED owner
    /\ Goto(c, IF owner.requested THEN "count" ELSE "release")
count_first(c) ==
    /\ At(c, "count") /\ UNCHANGED owner
    /\ Goto(c, IF last_holder THEN "lock" ELSE "release")
\* Flag and count are looked at again under the runtime's lock.
take_runtime(c) ==
    /\ At(c, "lock") /\ Goto(c, "release")
    /\ owner' = IF owner.requested /\ last_holder /\ owner.runtime = "running"
                THEN [owner EXCEPT !.runtime = "background"] ELSE owner

\* A remaining reference belongs to the upgraded stream.
Release(c) ==
    /\ At(c, "release")
    /\ owner' = Dropped(owner, strong_count - 1)
    /\ call' = [call EXCEPT ![c].refs = @ - 1, ![c].inside = FALSE,
                            ![c].pc = IF call[c].refs > 1 THEN "open" ELSE "done"]

PyRuntimeNext ==
    \/ \E c \in PyCalls :
           \/ request(c) \/ stream(c) \/ clone_client(c) \/ runtime_for_dispatch(c)
           \/ \E upgraded \in BOOLEAN : RequestFinished(c, upgraded)
           \/ \E ok, upgraded \in BOOLEAN : StreamFinished(c, ok, upgraded)
           \/ Collected(c) \/ close(c) \/ CloseTakes(c) \/ request_shutdown(c)
           \/ load_requested(c) \/ count_first(c) \/ take_runtime(c) \/ Release(c)
    \/ ClientCollected

PyRuntimeSpec == PyRuntimeInit /\ [][PyRuntimeNext]_pyRuntimeVars
-----------------------------------------------------------------------------
(* RuntimeOutlivesWork: close(), from whatever thread and at whatever step of  *)
(* a call, ends the runtime neither under a dispatch nor under an open         *)
(* response, whose body is read on it; and once nobody holds it, it is gone    *)
(* ("the runtime shuts down once the last lease is released",                  *)
(* docs/architecture/python-bindings.md).                                      *)
RuntimeOutlivesWork ==
    /\ \A c \in PyCalls : call[c].pc \in {"working", "open"} => owner.runtime = "running"
    /\ strong_count = 0 => owner.runtime # "running"
=============================================================================
