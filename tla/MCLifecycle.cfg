\* Three calls share a client with and without a cap on live connections.
CONSTANTS
    Tasks = {t1, t2, t3}
    Policies <- MCPolicies
    None = None
SPECIFICATION FairSpec
INVARIANTS AdmissionExact
PROPERTIES TimersExact
