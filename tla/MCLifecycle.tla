---------------------------- MODULE MCLifecycle -----------------------------
(* Instances of Lifecycle for TLC.                                         *)
EXTENDS Lifecycle

Policy(m, a, r, w) == [maxLive |-> m, admission |-> a, read |-> r, write |-> w]

\* Two invalid policies; no cap; a cap of two whose waiters time out; a cap of
\* one whose waiters wait on and whose connection is guarded in both directions.
MCPolicies == {Policy(0, None, None, None), Policy(None, 1, None, None),
               Policy(None, None, None, None), Policy(2, 1, None, None),
               Policy(1, None, 2, 1)}

=============================================================================
