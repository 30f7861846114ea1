\* A restart with a snapshot.
SPECIFICATION Spec
CONSTANTS
    Node = {n1, n2, n3}
    Command = {c1}
    Noop = Noop
    None = None
    SnapshotThreshold = 1
    InSessionOnly = TRUE
    LeadersOnly = TRUE
    Duplicates = FALSE
    TornWrites = FALSE
    MaxTerm = 1
    MaxCrashes = 1
    MaxReads = 0
    MaxNet = 1
SYMMETRY Symmetry
\* At MaxTerm, with every message lost, nothing is left to do.
CHECK_DEADLOCK FALSE
INVARIANT SnapshotReachesApplication
