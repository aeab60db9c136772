SPECIFICATION Spec
CONSTANTS
    Null = Null
    Garbage = Garbage
    X07Json = X07Json
    Index = Index
    module = module
    entry = entry
    second = second
    outside = outside
    src = src
    v1 = v1
    v2 = v2
    Files = {X07Json, Index, module, entry, second, outside}
    Inside = {X07Json, Index, module, entry, second}
    Roots = {src}
    Under <- MCUnder
    Holds <- MCHolds
    Trees <- MCTrees
    ProfileIds = {"default", "dev", "prod"}
    CellKeys = {"api", "worker", "kernel"}
    CommandLines <- MCCommandLines
    MaxRuns = 3
    MaxEdits = 1
INVARIANTS
    PackListsTruth
    PackIsWhole
    PackStandsAlone
    RuntimePackCoherent
    PreviewSound
