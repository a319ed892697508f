SPECIFICATION Spec
CONSTANTS
    FragmentSize = 2
    BufferSize = 5
    MaxLength = 6
    MaxSequence = 3
INVARIANT
    BufferIsPrefix
PROPERTY
    ImplementsChannel
CHECK_DEADLOCK FALSE
