\* Logs with entries of three terms, messages delivered any number of times, no
\* late responses.
SPECIFICATION Spec
CONSTANTS
    Node = {n1, n2, n3}
    Command = {c1}
    Noop = Noop
    None = None
    SnapshotThreshold = 99
    InSessionOnly = TRUE
    LeadersOnly = TRUE
    Duplicates = TRUE
    TornWrites = FALSE
    MaxTerm = 3
    MaxCrashes = 0
    MaxReads = 0
    MaxNet = 1
SYMMETRY Symmetry
VIEW InSessionView
\* At MaxTerm, with every message lost, nothing is left to do.
CHECK_DEADLOCK FALSE
INVARIANT LogMatching
INVARIANT ElectionSafety
PROPERTY LeaderAppendOnly
INVARIANT StateMachineSafety
