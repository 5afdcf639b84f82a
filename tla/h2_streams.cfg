CONSTANTS
    Streams = {s1, s2}
    Chunk = 2
    Window = 2
    MaxUnits = 4

SPECIFICATION Spec
CHECK_DEADLOCK FALSE
INVARIANT TypeOK
INVARIANT InOrder
INVARIANT Flushed
INVARIANT EofComplete
