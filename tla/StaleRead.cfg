\* A read request at a leader that has been replaced.
SPECIFICATION Spec
CONSTANTS
    Node = {n1, n2, n3}
    Command = {c1}
    Noop = Noop
    None = None
    SnapshotThreshold = 99
    InSessionOnly = TRUE
    LeadersOnly = TRUE
    Duplicates = FALSE
    TornWrites = FALSE
    MaxTerm = 2
    MaxCrashes = 0
    MaxReads = 1
    MaxNet = 2
SYMMETRY Symmetry
VIEW InSessionView
\* At MaxTerm, with every message lost, nothing is left to do.
CHECK_DEADLOCK FALSE
INVARIANT ReadsAreLinearizable
