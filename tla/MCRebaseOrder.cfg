SPECIFICATION Spec
CONSTANTS
    s1 = s1
    s2 = s2
    playlists = playlists
    Songs <- MCSongs
    Tables <- MCTables
    Rows <- MCRows
    SongOrder <- MCSongOrder
    Collisions <- MCCollisions
    Dangling <- MCDangling
INVARIANT DisjointEditsMerge
CHECK_DEADLOCK FALSE
