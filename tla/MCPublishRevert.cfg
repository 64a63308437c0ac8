SPECIFICATION Spec
CONSTANTS
    d1 = d1
    d2 = d2
    s1 = s1
    s2 = s2
    playlists = playlists
    Device <- MCDevice
    NoDevice = NoDevice
    Songs <- OneSong
    SongOrder <- OneSongOrder
    Tables <- NoTables
    Rows <- MCRows
    Collisions <- Unconstrained
    Dangling <- Unconstrained
    Initial <- MCInitial
    InitialGenerations = {1}
    MaxRebases = 1
    MaxOperations = 2
    FaultKinds = {"interruption"}
    MaxFaults = 1
PROPERTIES
    NoSilentRevert
VIEW LiveView
SYMMETRY MCSymmetry
CHECK_DEADLOCK FALSE
