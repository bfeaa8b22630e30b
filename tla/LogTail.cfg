CONSTANTS
    MaxFiles = 3
    MaxPieces = 2
    MaxPending = 1
    MaxPrefix = 2
    MaxTruncations = 1
    Worlds <- SafetyWorlds
SPECIFICATION Spec
INVARIANTS PositionNeverAhead NothingDropped LinesNotSpliced
