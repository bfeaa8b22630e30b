CONSTANTS
    MaxFiles = 2
    MaxPieces = 3
    MaxPending = 1
    MaxPrefix = 2
    MaxTruncations = 0
    Worlds <- LiveWorlds
SPECIFICATION FairSpec
PROPERTY AllLinesSettle
