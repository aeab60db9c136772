SPECIFICATION ServeSpec
CONSTANTS
    Settings <- OneConnection
    small = small
    wide = wide
    Contents <- MCContents
    HeadLen <- MCHeadLen
    BodyLen <- MCBodyLen
    MaxRequest = 3
    ClientIds <- MCIds
    MaxConnections = 2
INVARIANTS
    EndsWithReport
