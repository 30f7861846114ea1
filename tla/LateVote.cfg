\* A vote of an earlier election may arrive late.
SPECIFICATION Spec
CONSTANTS
    Node = {n1, n2, n3}
    Command = {}
    Noop = Noop
    None = None
    SnapshotThreshold = 99
    InSessionOnly = FALSE
    LeadersOnly = TRUE
    Duplicates = FALSE
    TornWrites = FALSE
    MaxTerm = 2
    MaxCrashes = 0
    MaxReads = 0
    MaxNet = 2
SYMMETRY Symmetry
\* At MaxTerm, with every message lost, nothing is left to do.
CHECK_DEADLOCK FALSE
INVARIANT ElectionSafety
