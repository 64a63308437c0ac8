SPECIFICATION FairSpec
CONSTANTS
    d1 = d1
    d2 = d2
    s1 = s1
    s2 = s2
    playlists = playlists
    Device <- MCDevice
    NoDevice = NoDevice
    Songs <- OneSong
    SongOrder <- OneSongOrder
    Tables <- NoTables
    Rows <- MCRows
    Collisions <- Unconstrained
    Dangling <- Unconstrained
    Initial <- MCInitial
    InitialGenerations = {1}
    MaxRebases = 1
    MaxOperations = 2
    FaultKinds = {"interruption", "delay", "restore"}
    MaxFaults = 1
INVARIANTS
    TypeOK
    BaseIsPublished
PROPERTIES
    InstallKeepsLocalChanges
    PublicationsSettle
VIEW LiveView
CHECK_DEADLOCK FALSE
