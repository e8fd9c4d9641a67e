----------------------------- MODULE H3Outcomes -----------------------------
(***************************************************************************)
(* How an HTTP/3 attempt can fail, as H3Connector::send_request_inner      *)
(* reports it to the pipeline: the error, whether bytes of the request     *)
(* body may have been delivered, and whether the peer is draining.  The    *)
(* connector (H3Connector) produces these records, the dispatch (AltSvc)   *)
(* decides from them about suppression and fallback.                       *)
(***************************************************************************)

\* The variants of Error the two sides tell apart.  "Request" stands for the
\* errors of the request itself (a write timeout, the body's producer, a
\* request that cannot be built).
ErrorVariants == {"Connect", "H3Connect", "ConnectTimeout", "H3Protocol",
                  "H3ConnectionClosed", "CustomTransport", "TotalTimeout", "Request"}

\* H3FailureClass::from_error: only a route failure has a class of its own.
FailureClass(error) ==
    CASE error \in {"Connect", "H3Connect", "ConnectTimeout"} -> "Connectivity"
      [] error = "H3Protocol" -> "Protocol"
      [] error = "H3ConnectionClosed" -> "Closed"
      [] OTHER -> "Other"

\* H3DispatchError::new; the error itself matters to nobody after this.
DispatchError(error, committed, draining) ==
    [failure_class |-> FailureClass(error), body_committed |-> committed, draining |-> draining]

SafeForFallback(e) == ~e.body_committed

\* What the dispatch asks of an error before it falls back.
AllowsFallback(e) == SafeForFallback(e) /\ e.failure_class # "Other"

\* A generation that runs over a caller's datagram route reports the route's
\* own typed failure, when there is one, in place of the QUIC symptom.
RouteEvidence(error) == {error, "H3Connect", "ConnectTimeout", "CustomTransport"}

\* What the connector can report, by the place where the attempt failed.
ConnectErrors ==
    {DispatchError(v, FALSE, FALSE) : v \in RouteEvidence("Connect") \cup {"H3Protocol", "Request"}}
SendErrors ==
    {DispatchError("H3ConnectionClosed", FALSE, TRUE)} \cup
    {DispatchError(v, FALSE, FALSE) : v \in RouteEvidence("H3Protocol")}
\* The errors of the body phase that come from the transport, and the others.
BrokenBodyErrors == {DispatchError(v, TRUE, FALSE) : v \in RouteEvidence("H3Protocol")}
RequestBodyErrors == {DispatchError(v, TRUE, FALSE) : v \in RouteEvidence("Request")}
ForTotalTimeout == DispatchError("TotalTimeout", FALSE, FALSE)

ConnectorErrors == ConnectErrors \cup SendErrors \cup BrokenBodyErrors \cup RequestBodyErrors
DispatchErrors == ConnectorErrors \cup {ForTotalTimeout}
=============================================================================
