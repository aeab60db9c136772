SPECIFICATION FairSpec
CONSTANTS
    MaxResponse = 5
    ChunkCap = 2
    Pieces <- MCPieces
    Metered = TRUE
    WithCaps = TRUE
INVARIANTS
    RoomForTheCap
    WholeResponseOnly
    Explained
PROPERTIES
    EndsUnlessStuck
