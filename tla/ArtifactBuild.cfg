SPECIFICATION Spec
CONSTANTS
    Histories <- MCHistories
    MaxSource = 2
INVARIANTS
    SuccessFresh
    SuccessDescribed
    ManifestOfWhole
    ExitTellsFailure
