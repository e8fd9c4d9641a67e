------------------------------- MODULE MCPool ------------------------------
(* Instances of Pool for TLC: symmetric requests and allocations.          *)
EXTENDS Pool, TLC

\* Requests and allocations are interchangeable; so are origins.
MCSymmetry == Permutations(Tasks) \cup Permutations(Origins) \cup Permutations(Entries)

=============================================================================
