SPECIFICATION ServeSpec
CONSTANTS
    Settings <- MCSettings
    small = small
    wide = wide
    Contents <- MCContents
    HeadLen <- MCHeadLen
    BodyLen <- MCBodyLen
    MaxRequest = 1
    ClientIds <- MCIds
    MaxConnections = 2
INVARIANTS
    FailureReachesReport
    FailureRecorded
    ListedComplete
    BundleOfOneRun
