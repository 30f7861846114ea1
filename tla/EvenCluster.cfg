\* A cluster of two nodes.
SPECIFICATION Spec
CONSTANTS
    Node = {n1, n2}
    Command = {c1}
    Noop = Noop
    None = None
    SnapshotThreshold = 99
    InSessionOnly = TRUE
    LeadersOnly = TRUE
    Duplicates = FALSE
    TornWrites = FALSE
    MaxTerm = 1
    MaxCrashes = 0
    MaxReads = 0
    MaxNet = 1
SYMMETRY Symmetry
\* At MaxTerm, with every message lost, nothing is left to do.
CHECK_DEADLOCK FALSE
INVARIANT CommittedOnQuorumDisks
