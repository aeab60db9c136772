SPECIFICATION AbiSpec
CONSTANTS
    Word = 56
    HeapBase = 5
    DataEnd = 3
    ArenaCap = 6
    MaxOutput = 4
    InitialMem = 32
    MemLimit = 48
    MaxFuel = 2
    Page = 8
    InputLens = {0, 3, 9, 20, 30, 33}
    GuestPtrs = {0, 8, 15, 16, 21, 22, 24, 32, 33, 50}
    GuestLens = {0, 1, 2, 4, 5}
INVARIANTS
    RegionsDisjoint
    OutputSound
