\* The request of a leader that has just stepped down, no late responses.
SPECIFICATION Spec
CONSTANTS
    Node = {n1, n2, n3}
    Command = {}
    Noop = Noop
    None = None
    SnapshotThreshold = 99
    InSessionOnly = TRUE
    LeadersOnly = FALSE
    Duplicates = FALSE
    TornWrites = FALSE
    MaxTerm = 3
    MaxCrashes = 0
    MaxReads = 0
    MaxNet = 1
SYMMETRY Symmetry
\* At MaxTerm, with every message lost, nothing is left to do.
CHECK_DEADLOCK FALSE
INVARIANT StateMachineSafety
