----------------------------- MODULE FfiHandles -----------------------------
(***************************************************************************)
(* The handles of the C interface (eggfetch-ffi: builder.rs, client.rs,    *)
(* request.rs, handle.rs, protocol.rs, error.rs, response.rs): a builder   *)
(* that is consumed by build, requests that are consumed by send, and what *)
(* a panic caught at the boundary leaves behind.                           *)
(*                                                                         *)
(* The host is assumed to keep the documented contract: it passes handles  *)
(* it has not freed.  A setting is a name in a set; values are left out.   *)
(***************************************************************************)
EXTENDS Naturals, FiniteSets

CONSTANTS MaxRequests       \* bound: requests made

ASSUME HandleAssumption == MaxRequests \in Nat

VARIABLE fh

handleVars == <<fh>>

Phases == {"total", "connect", "read", "write"}
\* Redirects and limits; default headers and credentials.
OtherSettings == {"limits", "headers"}
Settings == SUBSET (Phases \cup OtherSettings)
Gaps == {"none", "http2", "http3"}
Policies == {"auto", "http2Only", "http3Only"}

\* acked: the settings the host was told (0) are in; settings: those the builder
\* holds; inner: the builder is still in its shell; held: the request is still
\* in its handle.  call, frees, slot (the host's err_out, "none" for a null one)
\* and response are about the current send; copied: a buffer with the body is
\* out.
HandleState ==
    [compiled : SUBSET {"http2", "http3"},
     shell : {"none", "live", "freed"}, inner : BOOLEAN, settings : Settings, acked : Settings,
     policy : Policies, ackedPolicy : Policies, gap : Gaps,
     client : {"none", "live", "freed"}, clientSettings : Settings, clientPolicy : Policies,
     clientGap : Gaps,
     request : {"none", "live", "gone"}, held : BOOLEAN, tracked : BOOLEAN, made : 0 .. MaxRequests,
     frees : 0 .. 2, call : {"none", "entered", "consumed", "running", "returned"},
     slot : {"none", "empty", "error"}, response : {"none", "live", "freed"}, copied : BOOLEAN]

HandleStart(compiled) ==
    [compiled |-> compiled, shell |-> "none", inner |-> FALSE, settings |-> {}, acked |-> {},
     policy |-> "auto", ackedPolicy |-> "auto", gap |-> "none", client |-> "none",
     clientSettings |-> {}, clientPolicy |-> "auto", clientGap |-> "none",
     request |-> "none", held |-> FALSE, tracked |-> FALSE, made |-> 0, frees |-> 0,
     call |-> "none", slot |-> "none", response |-> "none", copied |-> FALSE]

HandleInit == \E c \in SUBSET {"http2", "http3"} : fh = HandleStart(c)
-----------------------------------------------------------------------------
(***************************************************************************)
(* The builder.                                                            *)
(***************************************************************************)
eggfetch_client_builder_new ==
    /\ fh.shell = "none" /\ fh.client = "none"
    /\ fh' = [fh EXCEPT !.shell = "live", !.inner = TRUE]
eggfetch_client_builder_free ==
    /\ fh.shell = "live"
    /\ fh' = [fh EXCEPT !.shell = "freed", !.inner = FALSE]

\* update_builder: the builder is taken out, changed and put back; a panic in
\* between leaves the shell empty, and every later call returns -1.
update_builder(changed, ok) == IF ok THEN changed ELSE [fh EXCEPT !.inner = FALSE]
Settable == fh.shell = "live" /\ fh.inner /\ fh.client = "none"

\* Mutant: a timeout replaces the others.
replace_timeout(phase) == (fh.settings \ Phases) \cup {phase}

\* The four timeouts are merged into what is there, phase by phase.
merge_timeout(phase) == fh.settings \cup {phase}
BuilderTimeout(phase, ok) ==
    /\ Settable
    /\ fh' = update_builder([fh EXCEPT !.settings = merge_timeout(phase),
                                           !.acked = @ \cup {phase}], ok)
BuilderSet(setting, ok) ==
    /\ Settable
    /\ fh' = update_builder([fh EXCEPT !.settings = @ \cup {setting},
                                           !.acked = @ \cup {setting}], ok)
eggfetch_client_builder_timeout(ok) == \E p \in Phases : BuilderTimeout(p, ok)
eggfetch_client_builder_follow_redirects(ok) == BuilderSet("limits", ok)
\* A bad name or value is refused before the builder is touched.
eggfetch_client_builder_default_header(ok) == BuilderSet("headers", ok)
eggfetch_client_builder_max_decoded_body_size(ok) == BuilderSet("limits", ok)
eggfetch_client_builder_basic_auth(ok) == BuilderSet("headers", ok)

\* A strict policy the build cannot honour is remembered; the last one wins.
missing_capability(p) == IF p = "http2Only" /\ "http2" \notin fh.compiled THEN "http2"
                         ELSE IF p = "http3Only" /\ "http3" \notin fh.compiled THEN "http3" ELSE "none"
eggfetch_client_builder_http_version(p, ok) ==
    /\ Settable
    /\ LET g == missing_capability(p)
           s == update_builder([fh EXCEPT !.policy = p, !.ackedPolicy = p], ok)
       IN  fh' = [s EXCEPT !.gap = g]

\* The shell stays with the host; a second build finds it empty.
eggfetch_client_builder_build ==
    /\ Settable
    /\ fh' = [fh EXCEPT !.inner = FALSE, !.client = "live", !.clientSettings = fh.settings,
                        !.clientPolicy = fh.policy, !.clientGap = fh.gap]
eggfetch_client_new ==
    /\ fh.shell = "none" /\ fh.client = "none"
    /\ fh' = [fh EXCEPT !.client = "live"]
eggfetch_client_free ==
    /\ fh.client = "live" /\ fh.call \in {"none", "returned"}
    /\ fh' = [fh EXCEPT !.client = "freed"]
-----------------------------------------------------------------------------
(***************************************************************************)
(* Requests.                                                               *)
(***************************************************************************)
\* The handle a constructor (_get, _post, _put, ...) gives; the next request
\* starts with the last one's response and buffer released.
NewRequest ==
    [fh EXCEPT !.request = "live", !.held = TRUE, !.tracked = FALSE, !.made = @ + 1, !.frees = 0,
               !.call = "none", !.slot = "none", !.response = "none", !.copied = FALSE]
\* A bad method or URL gives null.
eggfetch_client_request ==
    /\ fh.client = "live" /\ fh.request # "live" /\ fh.made < MaxRequests
    /\ fh.call \in {"none", "returned"} /\ fh.response # "live" /\ ~fh.copied
    /\ fh' = NewRequest
\* Headers, query, body, auth, ...: taken out, changed and put back; a panic
\* in between leaves the handle empty, and later setters return -1.
update_request(ok) ==
    /\ fh.request = "live" /\ fh.call = "none" /\ fh.held
    /\ fh' = [fh EXCEPT !.held = ok]
Freed(state) == [state EXCEPT !.request = "gone", !.frees = @ + 1]
eggfetch_request_free ==
    /\ fh.request = "live" /\ fh.call = "none"
    /\ fh' = Freed(fh)

\* Every failure writes an error handle into the slot, if the host gave one.
error_to_handle(state) == [state EXCEPT !.call = "returned",
                                        !.slot = IF @ = "none" THEN "none" ELSE "error"]

\* Mutant: the pointer kept for the panic handler is not cleared.
stale_pointer(state) == state

\* The pointer kept for the panic handler is cleared before ownership is taken.
clear_pointer(state) == [state EXCEPT !.tracked = FALSE]

SendBegins(slot) ==
    /\ fh.request = "live" /\ fh.call = "none" /\ fh.client # "freed"
    /\ fh' = [fh EXCEPT !.call = "entered", !.tracked = TRUE, !.slot = slot]
\* A null client: the request is dropped all the same.
SendWithoutClient ==
    /\ fh.call = "entered"
    /\ fh' = error_to_handle(Freed(clear_pointer(fh)))
\* The request moves into the call and lives until it ends; an empty handle
\* is refused.
SendConsumes ==
    /\ fh.call = "entered"
    /\ fh' = IF fh.held THEN [clear_pointer(fh) EXCEPT !.call = "consumed"]
             ELSE error_to_handle(Freed(clear_pointer(fh)))
reject_missing_capability ==
    /\ fh.call = "consumed" /\ fh.clientGap # "none"
    /\ fh' = error_to_handle(Freed(fh))
blocking_send ==
    /\ fh.call = "consumed" /\ fh.clientGap = "none"
    /\ fh' = [fh EXCEPT !.call = "running"]
\* The head and the whole body arrived ...
SendReturns ==
    /\ fh.call = "running"
    /\ fh' = [Freed(fh) EXCEPT !.call = "returned", !.response = "live"]
\* ... or an error, which a panic on the FFI runtime's own thread becomes too.
SendFails ==
    /\ fh.call = "running"
    /\ fh' = error_to_handle(Freed(fh))
\* A panic on this thread unwinds the frames that own the request, then
\* ffi_guard's fallback drops what the tracked pointer still names.
Panics ==
    /\ fh.call \in {"entered", "consumed", "running"}
    /\ LET unwound == IF fh.call = "entered" THEN fh ELSE Freed(fh)
       IN  fh' = error_to_handle([(IF fh.tracked THEN Freed(unwound) ELSE unwound)
                                      EXCEPT !.tracked = FALSE])
\* The body is copied out and freed by itself, before or after the response.
eggfetch_response_body ==
    /\ fh.response = "live" /\ ~fh.copied
    /\ fh' = [fh EXCEPT !.copied = TRUE]
eggfetch_body_free ==
    /\ fh.copied
    /\ fh' = [fh EXCEPT !.copied = FALSE]
eggfetch_response_free ==
    /\ fh.response = "live"
    /\ fh' = [fh EXCEPT !.response = "freed"]

HandleNext ==
    \/ eggfetch_client_builder_new \/ eggfetch_client_builder_free \/ eggfetch_client_builder_build
    \/ \E ok \in BOOLEAN :
          \/ eggfetch_client_builder_timeout(ok) \/ eggfetch_client_builder_follow_redirects(ok)
          \/ eggfetch_client_builder_default_header(ok) \/ eggfetch_client_builder_basic_auth(ok)
          \/ eggfetch_client_builder_max_decoded_body_size(ok)
          \/ \E p \in Policies : eggfetch_client_builder_http_version(p, ok)
    \/ eggfetch_client_new \/ eggfetch_client_free \/ eggfetch_client_request \/ eggfetch_request_free
    \/ \E ok \in BOOLEAN : update_request(ok)
    \/ \E slot \in {"none", "empty"} : SendBegins(slot)
    \/ SendWithoutClient \/ SendConsumes \/ reject_missing_capability \/ blocking_send
    \/ SendReturns \/ SendFails \/ Panics
    \/ eggfetch_response_body \/ eggfetch_body_free \/ eggfetch_response_free

HandleSpec == HandleInit /\ [][HandleNext]_handleVars
-----------------------------------------------------------------------------
(* RequestReleasedOnce: when send has returned - with a response, with an error, *)
(* after a refusal or a panic at any point - the request was dropped exactly    *)
(* once (the host must not free it again, and nobody else may have), and a call *)
(* without a response left its error in the slot the host gave.                 *)
RequestReleasedOnce ==
    fh.call = "returned" => fh.frees = 1 /\ (fh.response = "none" => fh.slot # "empty")

(* ClientIsAsConfigured: a client that was built has every setting its builder  *)
(* acknowledged and the last policy it accepted, whatever the order of calls,   *)
(* and it is marked as unable to honour that policy exactly when the build is.  *)
ClientIsAsConfigured ==
    fh.client # "none" =>
        /\ fh.clientSettings = fh.acked /\ fh.clientPolicy = fh.ackedPolicy
        /\ (fh.clientGap # "none") <=> \/ fh.ackedPolicy = "http2Only" /\ "http2" \notin fh.compiled
                                       \/ fh.ackedPolicy = "http3Only" /\ "http3" \notin fh.compiled
=============================================================================
