\* Three nodes, one of them with a stale log, and one that fails.
SPECIFICATION Spec
CONSTANTS
    Node = {n1, n2, n3}
    Stale = {n3}
    heartbeat_interval = 1
    election_timeout_range = {3, 5}
    MaxCrashes = 1
    None = None
INVARIANT TypeOK
PROPERTY LeaderIsUndisturbed
PROPERTY LeaderEmerges
