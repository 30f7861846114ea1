\* A crash at any point of any input, no late responses.
SPECIFICATION Spec
CONSTANTS
    Node = {n1, n2, n3}
    Command = {c1}
    Noop = Noop
    None = None
    SnapshotThreshold = 99
    InSessionOnly = TRUE
    LeadersOnly = TRUE
    Duplicates = FALSE
    TornWrites = FALSE
    MaxTerm = 2
    MaxCrashes = 1
    MaxReads = 0
    MaxNet = 1
SYMMETRY Symmetry
VIEW InSessionView
\* At MaxTerm, with every message lost, nothing is left to do.
CHECK_DEADLOCK FALSE
INVARIANT StateMachineSafety
INVARIANT LeaderCompleteness
INVARIANT CommittedOnQuorumDisks
INVARIANT RestartKeepsState
INVARIANT NoPanic
INVARIANT PendingIsInLog
PROPERTY ReplicatedLogSpec
