\* A crash that cuts a write to the log file short.
SPECIFICATION Spec
CONSTANTS
    Node = {n1, n2, n3}
    Command = {}
    Noop = Noop
    None = None
    SnapshotThreshold = 99
    InSessionOnly = TRUE
    LeadersOnly = TRUE
    Duplicates = FALSE
    TornWrites = TRUE
    MaxTerm = 1
    MaxCrashes = 1
    MaxReads = 0
    MaxNet = 2
SYMMETRY Symmetry
\* At MaxTerm, with every message lost, nothing is left to do.
CHECK_DEADLOCK FALSE
INVARIANT CommittedOnQuorumDisks
