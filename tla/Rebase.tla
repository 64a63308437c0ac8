------------------------------- MODULE Rebase -------------------------------
(***************************************************************************)
(* The three-way rebase of the Remote Repository writer (rebase.rs of the  *)
(* openkara-remote crate): how the unpublished edits of one device are put *)
(* on top of a remote snapshot that another device published meanwhile.    *)
(*                                                                         *)
(* A database snapshot is abstracted to a function from merge keys to row  *)
(* contents.  A merge key is either a song - every row of every table that *)
(* carries its hash, compared as one fingerprint - or a shared table,      *)
(* compared as a whole.  Two snapshots have equal digests exactly when     *)
(* they are the same function, so a digest is written as the snapshot      *)
(* itself.                                                                 *)
(***************************************************************************)
EXTENDS Naturals, Sequences

CONSTANTS
    Songs,      \* song hashes
    Tables,     \* tables whose rows belong to no song (playlists, rotation...)
    Rows,       \* contents the rows of one merge key can have
    SongOrder,  \* the songs sorted by hash, the order a BTreeSet iterates in
    Collisions, \* for each snapshot, the songs that share a unique value
    Dangling    \* for each snapshot, the keys with a dangling reference

Keys    == Songs \cup Tables
Library == [Keys -> Rows]

ASSUME SongsAndTablesDiffer == Songs \cap Tables = {}
ASSUME SongOrderAssumption ==
    /\ SongOrder \in Seq(Songs)
    /\ \A song \in Songs : \E n \in 1..Len(SongOrder) : SongOrder[n] = song
ASSUME ConstraintAssumption ==
    /\ Collisions \in [Library -> SUBSET Songs]
    /\ Dangling   \in [Library -> SUBSET Keys]

\* A unique value is shared by the rows of two songs, whatever else the
\* database holds: the primary keys that span songs, such as the one of
\* streaming_track_identities (015_streaming_identity.sql).
ASSUME CollisionAssumption ==
    \A library \in Library : \A song \in Collisions[library] :
        \E other \in Songs \ {song} :
            \A another \in Library :
                (another[song] = library[song] /\ another[other] = library[other])
                    => {song, other} \subseteq Collisions[another]

\* A row of a song refers to that song (stems, lyrics, waveforms, ...) or to a
\* shared table (playlist_songs to playlists), never to another song.
ASSUME ReferenceAssumption ==
    \A library, another \in Library : \A song \in Songs :
        (\A key \in Tables \cup {song} : library[key] = another[key])
            => (song \in Dangling[library] <=> song \in Dangling[another])

\* A snapshot SQLite accepts: no uniqueness and no foreign key violation.
Valid(library) == Collisions[library] = {} /\ Dangling[library] = {}

-----------------------------------------------------------------------------
(* Conflicts and the policy that answers them                              *)

\* What a Pre-Publish Conflict names, and what a Keep Local choice approves:
\* the remote generation the user saw, the songs, and the whole repository.
Conflict == [generation : Nat, songs : SUBSET Songs, whole : BOOLEAN]

\* ConflictPolicy::Stop.  Remote generations start at 1, so an approval of
\* generation 0 answers no conflict.
Stop == [generation |-> 0, songs |-> {}, whole |-> FALSE]

\* Mutant of PolicyAt: a stored Keep Local choice is used at any generation.
PolicyAtAnyGeneration(approval, generation) == approval

\* A Keep Local choice for another generation answered a remote state that
\* is gone.
PolicyAt(approval, generation) ==
    IF approval.generation = generation THEN approval ELSE Stop

\* Mutant of Approves: a whole-repository approval does not cover the songs.
ApprovesNamedSongs(policy, key) == key \in policy.songs

Approves(policy, key) == policy.whole \/ key \in policy.songs

-----------------------------------------------------------------------------
(* Row comparison                                                          *)

ChangedKeys(before, after) == {key \in Keys : before[key] # after[key]}

\* Mutants of Clash: only the remote is compared with the base; arriving at the
\* same rows counts as a conflict.
TwoWayClash(base, remote, local) ==
    {key \in ChangedKeys(base, remote) : local[key] # remote[key]}
EqualRowsClash(base, remote, local) ==
    ChangedKeys(base, local) \cap ChangedKeys(base, remote)

\* The keys both sides changed and left different.  Both arriving at the same
\* rows is no conflict.
Clash(base, remote, local) ==
    {key \in ChangedKeys(base, local) \cap ChangedKeys(base, remote) :
        local[key] # remote[key]}

\* Mutants of LocalOntoRemote: every local row is applied; where both sides
\* changed a key the remote rows win.
EveryLocalRowOntoRemote(base, remote, local) == local
RemoteRowsWin(base, remote, local) ==
    [key \in Keys |->
        IF key \in ChangedKeys(base, local) \ ChangedKeys(base, remote)
        THEN local[key] ELSE remote[key]]

\* The remote snapshot with the rows of the local changes applied.
LocalOntoRemote(base, remote, local) ==
    [key \in Keys |->
        IF key \in ChangedKeys(base, local) THEN local[key] ELSE remote[key]]

\* One turn of the loop over the songs to apply: a song whose rows collide
\* with what the output holds at that moment is rolled back and reported.
ReplaceSongRows(local, output, song) ==
    LET replaced == [output.library EXCEPT ![song] = local[song]]
    IN  IF song \in Collisions[replaced]
        THEN [output EXCEPT !.broken = @ \cup {song}]
        ELSE [output EXCEPT !.library = replaced]

\* Mutant of BrokenKeys: nothing is checked after the rows are applied.
ReportsNothing(base, remote, local) == {}

\* The output of the loop over the songs in hash order, after each of them:
\* those that changed are applied.
AppliedSongs(remote, local, changed) ==
    LET output[n \in 0..Len(SongOrder)] ==
            IF n = 0 THEN [library |-> remote, broken |-> {}]
            ELSE IF SongOrder[n] \in changed
                 THEN ReplaceSongRows(local, output[n - 1], SongOrder[n])
                 ELSE output[n - 1]
    IN  output

\* apply_local_rows on a copy of the remote: the changed songs in hash order,
\* then the changed shared tables, then one foreign key check.  The result is
\* the keys reported broken.
BrokenKeys(base, remote, local) ==
    LET changed == ChangedKeys(base, local) \cap ChangedKeys(remote, local)
        output  == AppliedSongs(remote, local, changed)[Len(SongOrder)]
        final   == [key \in Keys |-> IF key \in changed \cap Tables
                                     THEN local[key] ELSE output.library[key]]
    IN  output.broken \cup Dangling[final]

-----------------------------------------------------------------------------
(* The rebase                                                              *)

Merged(library) ==
    [kind |-> "merged", library |-> library, songs |-> {}, whole |-> FALSE]
Conflicting(remote, songs, whole) ==
    [kind |-> "conflict", library |-> remote, songs |-> songs, whole |-> whole]
Unmergeable(remote) ==
    [kind |-> "unmergeable", library |-> remote, songs |-> {}, whole |-> TRUE]

\* merge_onto_remote: `whole' is the whole-repository flag of the change set;
\* the declared song ids play no part, the rows themselves are compared.
MergeOntoRemote(base, remote, local, whole, policy) ==
    LET clash     == Clash(base, remote, local)
        wholeRepo == whole \/ clash \cap Tables # {}
        broken    == BrokenKeys(base, remote, local)
    IN  IF \/ wholeRepo /\ ~policy.whole
           \/ \E song \in clash \cap Songs : ~Approves(policy, song)
        THEN Conflicting(remote, clash \cap Songs, wholeRepo)
        ELSE IF broken = {} THEN Merged(LocalOntoRemote(base, remote, local))
        ELSE IF policy.whole THEN Unmergeable(remote)
        ELSE Conflicting(remote, broken \cap Songs, TRUE)

\* Mutant of CarriesLocalChanges: a recognized commit is always accepted.
AlwaysCarried(base, committed, local) == TRUE

\* carries_local_changes: the committed snapshot already holds every change
\* the local one made relative to the base.
CarriesLocalChanges(base, committed, local) ==
    \A key \in ChangedKeys(base, local) : committed[key] = local[key]
=============================================================================
