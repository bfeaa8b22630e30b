CONSTANTS
    Readers = {r1}
    MaxPendingRecords = 2
    MaxPendingBytes = 3
    MaxBatch = 1
    Sizes = {1}
    MaxLines = 2
SPECIFICATION Spec
INVARIANT AckedOnlySettledAlways
