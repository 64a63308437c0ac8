----------------------------- MODULE MCPublish -----------------------------
(***************************************************************************)
(* Instances of PublishChanges for TLC: two devices, one or two songs and  *)
(* in some of them the playlists table.  Three row contents are the fewest *)
(* for which two devices can change the same rows differently.             *)
(***************************************************************************)
EXTENDS PublishChanges, TLC
CONSTANTS d1, d2, s1, s2, playlists

MCDevice   == {d1, d2}
MCSymmetry == Permutations(MCDevice)

MCRows  == 0..2
TwoRows == 0..1

OneSong       == {s1}
TwoSongs      == {s1, s2}
NoTables      == {}
OneTable      == {playlists}
OneSongOrder  == <<s1>>
TwoSongsOrder == <<s1, s2>>

\* No two songs share a unique value, no row refers to another.
Unconstrained == [library \in Library |-> {}]

\* The library at the start: one playlist when there is a playlists table.
MCInitial == [key \in Keys |-> IF key \in Tables THEN 1 ELSE 0]

\* Content 2 of a song lists it in a playlist, which is there only in content
\* 1 of the playlists table.  The table has two contents.
PlaylistRows ==
    [library \in Library |->
        {song \in Songs : library[song] = 2 /\ library[playlists] # 1}
            \cup {table \in Tables : library[table] = 2}]

\* What a device read and computed is dead once it is idle or edits.
LiveSession(d) ==
    IF pc[d] \in {"idle"} \cup EditSteps THEN <<>>
    ELSE <<seen[d], seenRev[d], probe[d], rebases[d], candidate[d], rebased[d], target[d]>>
LiveView ==
    <<manifest, revision, snapshots, inFlight, history, copyVars, stateVars, opVars, pc,
      boundVars, [d \in Device |-> LiveSession(d)]>>
=============================================================================
