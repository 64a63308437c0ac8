SPECIFICATION Spec
CONSTANTS
    d1 = d1
    d2 = d2
    s1 = s1
    s2 = s2
    playlists = playlists
    Device <- MCDevice
    NoDevice = NoDevice
    Songs <- OneSong
    SongOrder <- OneSongOrder
    Tables <- OneTable
    Rows <- MCRows
    Collisions <- Unconstrained
    Dangling <- PlaylistRows
    Initial <- MCInitial
    InitialGenerations = {0, 1}
    MaxRebases = 1
    MaxOperations = 3
    FaultKinds = {}
    MaxFaults = 0
INVARIANTS
    ConflictsNameOwnEdits
    LibrariesAreValid
PROPERTIES
    GenerationsAreConsecutive
    NoSilentOverwrite
    InstallKeepsLocalChanges
    ImplementsSharedLibrary
VIEW LiveView
SYMMETRY MCSymmetry
CHECK_DEADLOCK FALSE
