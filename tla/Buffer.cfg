SPECIFICATION BufferSpec
CONSTANTS
    a = a
    b = b
    Buffers <- MCBuffers
    DefaultCapacity = 2
    MaxBytes = 5
    MaxAdd = 3
    MaxDrain = 3
SYMMETRY Symmetry
INVARIANT Layout
PROPERTY QueueSpec
