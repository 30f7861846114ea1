\* Two requests at one of two nodes, and channels of two items.
SPECIFICATION Spec
CONSTANTS
    Client = {c1, c2}
    Key = {k1}
    Value = {v1}
    N = 2
    Pod = 1
    MaxNodeId = 9
    CHANNEL_BUFFER = 2
    SnapshotThreshold = 2
    MaxLog = 1
    MaxTerms = 1
    None = None
\* Once every request is answered and the event loop has panicked, nothing
\* is left to do.
CHECK_DEADLOCK FALSE
INVARIANT TypeOK
INVARIANT NothingSkipped
INVARIANT SnapshotHoldsHanded
PROPERTY MapFollowsLog
INVARIANT ReadsAfterHandover
INVARIANT AnswersAreTrue
INVARIANT RedirectsToLeader
PROPERTY EveryRequestAnswered
