\* Two entries, start indices up to 2, two crashes.
SPECIFICATION Spec
CONSTANTS
    Entry = {a, b}
    MaxIndex = 2
    MaxFrames = 3
    MaxCrashes = 2
    None = None
INVARIANT TypeOK
INVARIANT StoredLog
INVARIANT WholeFiles
INVARIANT DoubleAgrees
