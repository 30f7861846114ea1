\* A set and then a get, at one node of two, both answered by the event loop
\* before the apply task has run.
SPECIFICATION Spec
CONSTANTS
    Client = {c1, c2}
    Key = {k1}
    Value = {v1}
    N = 2
    Pod = 1
    MaxNodeId = 9
    CHANNEL_BUFFER = 2
    SnapshotThreshold = 2
    MaxLog = 1
    MaxTerms = 1
    None = None
CHECK_DEADLOCK FALSE
PROPERTY ReadsSeeWrites
