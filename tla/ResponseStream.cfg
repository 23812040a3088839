\* MaxRead is on both sides of MinGenerated, and so is MaxPiece.
\* No deadlock check: the response ends.
SPECIFICATION Spec
CONSTANTS
    MinGenerated = 2
    MaxRead = 4
    MaxPieces = 5
    MaxPiece = 3
INVARIANTS
    BufferBounded
PROPERTIES
    ImplementsByteStream
    StreamEnds
CHECK_DEADLOCK FALSE
