SPECIFICATION Spec
CONSTANTS
    Profiles <- MCProfiles
    Values = {0, 1}
    Lens = {1, 2}
    MaxReads = 2
INVARIANTS
    TypeOK
    EvidenceComplete
    ReplayFromEvidence
    ReplaySame
