CONSTANTS
    Readers = {r1}
    MaxPendingRecords = 1
    MaxPendingBytes = 2
    MaxBatch = 2
    Sizes = {1}
    MaxLines = 2
SPECIFICATION FairSpec
INVARIANTS AckedOnlySettled EmitNeverBlocks
PROPERTIES SettlesInOrder ReaderResumes MessagesSettle
