SPECIFICATION Spec
CONSTANTS
    s1 = s1
    s2 = s2
    playlists = playlists
    Songs <- MCSongs
    Tables <- MCTables
    Rows <- MCRows
    SongOrder <- MCSongOrder
    Collisions <- MCCollisions
    Dangling <- MCDangling
INVARIANTS
    RemoteChangesKept
    LocalChangesApplied
    MergedIsValid
    OneDisjointEditMerges
    OrderDoesNotMatter
    RetryIsStable
    ConflictsAreLocal
    KeepLocalIsAnExit
CHECK_DEADLOCK FALSE
