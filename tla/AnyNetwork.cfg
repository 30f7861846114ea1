\* Two nodes, snapshots, reads, a crash that may tear a log write, and
\* a network that delivers anything late.
SPECIFICATION Spec
CONSTANTS
    Node = {n1, n2}
    Command = {c1}
    Noop = Noop
    None = None
    SnapshotThreshold = 1
    InSessionOnly = FALSE
    LeadersOnly = FALSE
    Duplicates = FALSE
    TornWrites = TRUE
    MaxTerm = 2
    MaxCrashes = 1
    MaxReads = 1
    MaxNet = 2
SYMMETRY Symmetry
\* At MaxTerm, with every message lost, nothing is left to do.
CHECK_DEADLOCK FALSE
INVARIANT TypeOK
INVARIANT VoteOncePerTerm
INVARIANT NoOrphanedReads
