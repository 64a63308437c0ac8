--------------------------- MODULE MCRebaseCases ---------------------------
(***************************************************************************)
(* Instance of RebaseCases: two songs, one shared table, three contents    *)
(* per key.  Content 2 of a song lists it in a playlist: its               *)
(* playlist_songs row refers to the playlists table, which has no such     *)
(* playlist when its content is 0.  Content 1 of a song binds it to a      *)
(* streaming track, and the primary key of streaming_track_identities      *)
(* lets one song have that binding.                                        *)
(***************************************************************************)
EXTENDS RebaseCases

CONSTANTS s1, s2, playlists

MCSongs     == {s1, s2}
MCTables    == {playlists}
MCRows      == 0..2
MCSongOrder == <<s1, s2>>

MCLibrary == [MCSongs \cup MCTables -> MCRows]

MCDangling ==
    [library \in MCLibrary |->
        {song \in MCSongs : library[song] = 2 /\ library[playlists] = 0}]

MCCollisions ==
    [library \in MCLibrary |->
        {song \in MCSongs : \A other \in MCSongs : library[other] = 1}]
=============================================================================
