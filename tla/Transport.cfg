\* A sender and a peer that stops, refuses or loses the connection twice.
SPECIFICATION Spec
CONSTANTS
    MIN_BACKOFF = 1
    MAX_BACKOFF = 3
    MaxSends = 3
    MaxFaults = 2
\* Once every message has arrived there is nothing left to do.
CHECK_DEADLOCK FALSE
INVARIANT TypeOK
INVARIANT NewestIsKept
INVARIANT NeverOvertaken
PROPERTY NetworkSpec
PROPERTY Reconnects
PROPERTY LastMessageArrives
