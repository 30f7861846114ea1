\* A snapshot, and an entry behind it.
SPECIFICATION Spec
CONSTANTS
    Node = {n1, n2, n3}
    Command = {c1, c2}
    Noop = Noop
    None = None
    SnapshotThreshold = 1
    InSessionOnly = TRUE
    LeadersOnly = TRUE
    Duplicates = FALSE
    TornWrites = FALSE
    MaxTerm = 1
    MaxCrashes = 0
    MaxReads = 0
    MaxNet = 1
SYMMETRY Symmetry
\* At MaxTerm, with every message lost, nothing is left to do.
CHECK_DEADLOCK FALSE
INVARIANT RestartKeepsState
