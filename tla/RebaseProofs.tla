---------------------------- MODULE RebaseProofs ----------------------------
(***************************************************************************)
(* Facts about the three-way rebase that hold for every set of songs,      *)
(* tables and rows: first what a merge keeps, for which it only matters    *)
(* that the rebase stops when some keys are reported broken; then the loop *)
(* that applies the songs, by induction over the songs in hash order; then *)
(* which keys it reports.                                                  *)
(***************************************************************************)
EXTENDS Rebase, WellFoundedInduction, TLAPS

\* The merged snapshot is a snapshot.
LEMMA LocalOntoRemoteType ==
    ASSUME NEW base \in Library, NEW remote \in Library, NEW local \in Library
    PROVE  LocalOntoRemote(base, remote, local) \in Library
BY DEF LocalOntoRemote, Library

\* A clash lies in the keys.
LEMMA ClashType ==
    ASSUME NEW base, NEW remote, NEW local
    PROVE  Clash(base, remote, local) \subseteq Keys
BY DEF Clash, ChangedKeys

\* Whatever the rebase decides, it names a snapshot, songs and whether the
\* whole repository is in question.
LEMMA MergeOntoRemoteType ==
    ASSUME NEW base \in Library, NEW remote \in Library, NEW local \in Library,
           NEW whole \in BOOLEAN, NEW policy \in Conflict
    PROVE  LET outcome == MergeOntoRemote(base, remote, local, whole, policy)
           IN  /\ outcome.library \in Library
               /\ outcome.songs \subseteq Songs
               /\ outcome.whole \in BOOLEAN
<1>1. LocalOntoRemote(base, remote, local) \in Library
  BY LocalOntoRemoteType
<1> QED
  BY <1>1 DEF MergeOntoRemote, Conflicting, Merged, Unmergeable

\* The policy for a generation is a conflict the user approved, or none.
LEMMA PolicyAtType ==
    ASSUME NEW approval \in Conflict, NEW generation \in Nat
    PROVE  PolicyAt(approval, generation) \in Conflict
BY DEF PolicyAt, Stop, Conflict

\* ADR 0045: the rebase never replaces a remote row silently.  Wherever the
\* merged snapshot differs from the remote one, the remote still had the row
\* of the base, or the policy approves the key.
THEOREM MergeChangesOnlyUntouchedOrApproved ==
    ASSUME NEW base \in Library, NEW remote \in Library, NEW local \in Library,
           NEW whole \in BOOLEAN, NEW policy \in Conflict,
           MergeOntoRemote(base, remote, local, whole, policy).kind = "merged",
           NEW key \in ChangedKeys(remote,
                    MergeOntoRemote(base, remote, local, whole, policy).library)
    PROVE  remote[key] = base[key] \/ Approves(policy, key)
<1> DEFINE outcome   == MergeOntoRemote(base, remote, local, whole, policy)
           clash     == Clash(base, remote, local)
           wholeRepo == whole \/ clash \cap Tables # {}
<1>1. /\ outcome.library = LocalOntoRemote(base, remote, local)
      /\ ~(wholeRepo /\ ~policy.whole)
      /\ \A song \in clash \cap Songs : Approves(policy, song)
  BY DEF MergeOntoRemote, Conflicting, Merged, Unmergeable
<1>2. key \in Keys /\ local[key] # remote[key] /\ key \in ChangedKeys(base, local)
  BY <1>1 DEF ChangedKeys, LocalOntoRemote
<1>3. CASE remote[key] = base[key]
  BY <1>3
<1>4. CASE remote[key] # base[key]
  <2>1. key \in clash
    BY <1>2, <1>4 DEF Clash, ChangedKeys
  <2>2. CASE key \in Songs
    BY <1>1, <2>1, <2>2
  <2>3. CASE key \in Tables
    BY <1>1, <2>1, <2>3 DEF Approves
  <2> QED BY <1>2, <2>2, <2>3 DEF Keys
<1> QED BY <1>3, <1>4

\* No local edit is lost by a merge: the merged snapshot carries every change
\* the local one made relative to the base.
THEOREM MergeCarriesLocalChanges ==
    ASSUME NEW base \in Library, NEW remote \in Library, NEW local \in Library,
           NEW whole \in BOOLEAN, NEW policy \in Conflict,
           MergeOntoRemote(base, remote, local, whole, policy).kind = "merged"
    PROVE  CarriesLocalChanges(base,
               MergeOntoRemote(base, remote, local, whole, policy).library, local)
<1>1. MergeOntoRemote(base, remote, local, whole, policy).library
        = LocalOntoRemote(base, remote, local)
  BY DEF MergeOntoRemote, Conflicting, Merged, Unmergeable
<1> QED
  BY <1>1 DEF CarriesLocalChanges, LocalOntoRemote, ChangedKeys

-----------------------------------------------------------------------------
(* The loop over the songs                                                 *)

\* Induction over the natural numbers, for a set that is given.
LEMMA NatSetInduction ==
    ASSUME NEW S, 0 \in S, \A n \in Nat : n \in S => n + 1 \in S
    PROVE  Nat \subseteq S
<1> DEFINE Outside == Nat \ S
<1> SUFFICES ASSUME Outside # {} PROVE FALSE
  OBVIOUS
<1>1. PICK n \in Outside : \A m \in Outside : <<m, n>> \notin OpToRel(<, Nat)
  BY WFMin, NatLessThanWellFounded, Zenon
<1>2. \A m \in Outside : ~(m < n)
  BY <1>1, Zenon DEF OpToRel
<1>3. n # 0 /\ n - 1 \in Nat /\ n - 1 < n
  OBVIOUS
<1>4. n - 1 \in S
  BY <1>2, <1>3
<1>5. (n - 1) + 1 \in S
  BY <1>3, <1>4
<1> QED BY <1>3, <1>5

\* What the loop starts from, and what its turn at the n-th song does.
Untouched(remote) == [library |-> remote, broken |-> {}]

Turn(local, changed, output, n) ==
    IF SongOrder[n] \in changed THEN ReplaceSongRows(local, output, SongOrder[n]) ELSE output

\* An initial part of the loop, up to the n-th song.
LoopTo(remote, local, changed, n, output) ==
    output = [m \in 0..n |-> IF m = 0 THEN Untouched(remote)
                             ELSE Turn(local, changed, output[m - 1], m)]

\* Every initial part of the loop exists.
LEMMA LoopExists ==
    ASSUME NEW remote, NEW local, NEW changed
    PROVE  \A n \in Nat : \E output : LoopTo(remote, local, changed, n, output)
<1> DEFINE S == {n \in Nat : \E output : LoopTo(remote, local, changed, n, output)}
<1>1. 0 \in S
  <2> DEFINE first == [m \in 0..0 |-> Untouched(remote)]
  <2>1. first = [m \in 0..0 |-> IF m = 0 THEN Untouched(remote)
                                ELSE Turn(local, changed, first[m - 1], m)]
    OBVIOUS
  <2>2. LoopTo(remote, local, changed, 0, first)
    BY <2>1 DEF LoopTo
  <2> QED BY <2>2
<1>2. ASSUME NEW n \in Nat, n \in S PROVE n + 1 \in S
  <2>1. PICK output : LoopTo(remote, local, changed, n, output)
    BY <1>2
  <2> DEFINE longer == [m \in 0..(n + 1) |->
                            IF m = n + 1 THEN Turn(local, changed, output[n], n + 1)
                            ELSE output[m]]
  <2>2. \A m \in 0..n :
            output[m] = IF m = 0 THEN Untouched(remote)
                        ELSE Turn(local, changed, output[m - 1], m)
    BY <2>1, Zenon DEF LoopTo
  <2>3. /\ \A m \in 0..n : longer[m] = output[m]
        /\ longer[n + 1] = Turn(local, changed, output[n], n + 1)
    OBVIOUS
  <2>4. \A m \in 0..(n + 1) :
            longer[m] = IF m = 0 THEN Untouched(remote)
                        ELSE Turn(local, changed, longer[m - 1], m)
    <3> SUFFICES ASSUME NEW m \in 0..(n + 1)
                 PROVE  longer[m] = IF m = 0 THEN Untouched(remote)
                                    ELSE Turn(local, changed, longer[m - 1], m)
      OBVIOUS
    <3> HIDE DEF longer
    <3>1. CASE m = 0
      BY <2>2, <2>3, <3>1
    <3>2. CASE m # 0 /\ m # n + 1
      <4>1. m \in 0..n /\ m - 1 \in 0..n
        BY <3>2
      <4> QED BY <2>2, <2>3, <3>2, <4>1
    <3>3. CASE m = n + 1
      <4>1. m # 0 /\ m - 1 = n /\ n \in 0..n
        BY <3>3
      <4> QED BY <2>3, <3>3, <4>1
    <3> QED BY <3>1, <3>2, <3>3
  <2>5. longer = [m \in 0..(n + 1) |-> longer[m]]
    OBVIOUS
  <2>6. LoopTo(remote, local, changed, n + 1, longer)
    <3> HIDE DEF longer
    <3> QED BY <2>4, <2>5 DEF LoopTo
  <2> QED BY <2>6
<1>3. Nat \subseteq S
  BY <1>1, <1>2, NatSetInduction
<1> QED BY <1>3

\* The loop is what its definition says.
LEMMA AppliedSongsTurns ==
    ASSUME NEW remote, NEW local, NEW changed
    PROVE  /\ AppliedSongs(remote, local, changed)[0] = Untouched(remote)
           /\ \A n \in 1..Len(SongOrder) :
                AppliedSongs(remote, local, changed)[n]
                    = Turn(local, changed, AppliedSongs(remote, local, changed)[n - 1], n)
<1> DEFINE Loop(output) == LoopTo(remote, local, changed, Len(SongOrder), output)
           loop == AppliedSongs(remote, local, changed)
<1>1. Len(SongOrder) \in Nat
  BY SongOrderAssumption
<1>2. \E output : Loop(output)
  BY <1>1, LoopExists
<1>3. loop = CHOOSE output : Loop(output)
  BY Zenon DEF AppliedSongs, LoopTo, Turn, Untouched
<1>4. Loop(loop)
  BY <1>2, <1>3, Zenon
<1>5. loop = [m \in 0..Len(SongOrder) |->
                IF m = 0 THEN Untouched(remote) ELSE Turn(local, changed, loop[m - 1], m)]
  BY <1>4, Zenon DEF LoopTo
<1> HIDE DEF loop
<1>6. \A m \in 0..Len(SongOrder) :
        loop[m] = IF m = 0 THEN Untouched(remote) ELSE Turn(local, changed, loop[m - 1], m)
  BY <1>5, Zenon
<1>7. loop[0] = Untouched(remote)
  BY <1>1, <1>6
<1>8. \A n \in 1..Len(SongOrder) : loop[n] = Turn(local, changed, loop[n - 1], n)
  BY <1>1, <1>6
<1> QED BY <1>7, <1>8 DEF loop

-----------------------------------------------------------------------------
(* Which keys are reported broken                                          *)

\* The keys apply_local_rows is asked to apply.
Applies(base, remote, local) == ChangedKeys(base, local) \cap ChangedKeys(remote, local)

\* `song' has the local rows in some mixture of the remote and the local
\* database and shares a unique value there.
BreaksIn(song, remote, local, changed) ==
    \E library \in Library :
        /\ \A key \in Keys \ (Songs \cap changed) : library[key] = remote[key]
        /\ library[song] = local[song] /\ song \in Collisions[library]

\* What the loop has done after n songs: it replaced rows of changed songs
\* only, every song it reports collided, and as long as it reports none, no
\* two songs collide and every changed song so far has the local rows.
LoopInv(remote, local, changed, n, output) ==
    /\ output \in [library : Library, broken : SUBSET (Songs \cap changed)]
    /\ \A key \in Keys \ (Songs \cap changed) : output.library[key] = remote[key]
    /\ \A song \in output.broken : BreaksIn(song, remote, local, changed)
    /\ output.broken = {} =>
        /\ Collisions[remote] = {} => Collisions[output.library] = {}
        /\ \A m \in 1..n : SongOrder[m] \in changed =>
                output.library[SongOrder[m]] = local[SongOrder[m]]

\* Rows that collide with no other keep every song collision free.
LEMMA ReplacedWithoutCollision ==
    ASSUME NEW library \in Library, Collisions[library] = {}, NEW song \in Songs,
           NEW replaced \in Library, song \notin Collisions[replaced],
           \A key \in Keys \ {song} : replaced[key] = library[key]
    PROVE  Collisions[replaced] = {}
<1> SUFFICES ASSUME NEW broken \in Collisions[replaced] PROVE FALSE
  OBVIOUS
<1>1. PICK other \in Songs \ {broken} :
        \A another \in Library :
            (another[broken] = replaced[broken] /\ another[other] = replaced[other])
                => {broken, other} \subseteq Collisions[another]
  BY CollisionAssumption
<1>2. broken \in Songs
  BY ConstraintAssumption
<1>3. other # song /\ broken # song
  BY <1>1
<1>4. library[broken] = replaced[broken] /\ library[other] = replaced[other]
  BY <1>1, <1>2, <1>3 DEF Keys
<1> QED BY <1>1, <1>4

\* A turn of the loop keeps the invariant.
LEMMA TurnKeepsLoopInv ==
    ASSUME NEW remote \in Library, NEW local \in Library, NEW changed,
           NEW n \in Nat, n + 1 <= Len(SongOrder), NEW output,
           LoopInv(remote, local, changed, n, output)
    PROVE  LoopInv(remote, local, changed, n + 1, Turn(local, changed, output, n + 1))
<1> DEFINE song == SongOrder[n + 1]
           replaced == [output.library EXCEPT ![song] = local[song]]
<1>1. song \in Songs /\ song \in Keys
  BY SongOrderAssumption, Len(SongOrder) \in Nat DEF Keys
<1>2. \A m \in 1..(n + 1) : m \in 1..n \/ m = n + 1
  OBVIOUS
<1>3. CASE song \notin changed
  BY <1>2, <1>3 DEF Turn, LoopInv
<1>4. CASE song \in changed /\ song \in Collisions[replaced]
  <2>1. /\ replaced \in Library /\ replaced[song] = local[song]
        /\ \A key \in Keys \ (Songs \cap changed) : replaced[key] = remote[key]
    BY <1>1, <1>4 DEF LoopInv, Library
  <2>2. BreaksIn(song, remote, local, changed)
    BY <1>4, <2>1 DEF BreaksIn
  <2>3. Turn(local, changed, output, n + 1)
            = [output EXCEPT !.broken = output.broken \cup {song}]
    BY <1>4 DEF Turn, ReplaceSongRows
  <2> HIDE DEF song, replaced
  <2> QED BY <1>1, <1>4, <2>2, <2>3 DEF LoopInv
<1>5. CASE song \in changed /\ song \notin Collisions[replaced]
  <2>1. /\ replaced \in Library /\ replaced[song] = local[song]
        /\ \A key \in Keys \ {song} : replaced[key] = output.library[key]
    BY <1>1 DEF LoopInv, Library
  <2>2. Turn(local, changed, output, n + 1) = [output EXCEPT !.library = replaced]
    BY <1>5 DEF Turn, ReplaceSongRows
  <2>3. output.broken = {} /\ Collisions[remote] = {} => Collisions[replaced] = {}
    BY ZenonT(40), <1>1, <1>5, <2>1, ReplacedWithoutCollision DEF LoopInv
  <2>4. ASSUME output.broken = {}, NEW m \in 1..(n + 1), SongOrder[m] \in changed
        PROVE  replaced[SongOrder[m]] = local[SongOrder[m]]
    <3>1. SongOrder[m] \in Keys
      BY SongOrderAssumption, Len(SongOrder) \in Nat DEF Keys
    <3>2. CASE SongOrder[m] = song
      BY <2>1, <3>2
    <3>3. CASE SongOrder[m] # song
      BY <1>2, <2>1, <2>4, <3>1, <3>3 DEF LoopInv
    <3> QED BY <3>2, <3>3
  <2> HIDE DEF replaced
  <2>5. Turn(local, changed, output, n + 1).library = replaced
        /\ Turn(local, changed, output, n + 1).broken = output.broken
        /\ Turn(local, changed, output, n + 1)
                \in [library : Library, broken : SUBSET (Songs \cap changed)]
    BY <2>1, <2>2 DEF LoopInv
  <2>6. \A key \in Keys \ (Songs \cap changed) : replaced[key] = remote[key]
    BY <1>1, <1>5, <2>1 DEF LoopInv
  <2> QED BY <2>3, <2>4, <2>5, <2>6 DEF LoopInv
<1> QED BY <1>3, <1>4, <1>5

\* The invariant holds at the end of the loop.
LEMMA LoopInvHolds ==
    ASSUME NEW remote \in Library, NEW local \in Library, NEW changed
    PROVE  LoopInv(remote, local, changed, Len(SongOrder),
                   AppliedSongs(remote, local, changed)[Len(SongOrder)])
<1> DEFINE loop == AppliedSongs(remote, local, changed)
           S == {n \in Nat : n <= Len(SongOrder) => LoopInv(remote, local, changed, n, loop[n])}
<1>1. Len(SongOrder) \in Nat
  BY SongOrderAssumption
<1>2. 0 \in S
  <2>1. loop[0] = Untouched(remote)
    BY AppliedSongsTurns
  <2>2. LoopInv(remote, local, changed, 0, Untouched(remote))
    BY DEF LoopInv, Untouched
  <2> QED BY <2>1, <2>2
<1>3. ASSUME NEW n \in Nat, n \in S PROVE n + 1 \in S
  <2> SUFFICES ASSUME n + 1 <= Len(SongOrder)
               PROVE  LoopInv(remote, local, changed, n + 1, loop[n + 1])
    OBVIOUS
  <2>1. n + 1 \in 1..Len(SongOrder) /\ (n + 1) - 1 = n /\ LoopInv(remote, local, changed, n, loop[n])
    BY <1>1, <1>3
  <2>2. loop[n + 1] = Turn(local, changed, loop[n], n + 1)
    BY <2>1, AppliedSongsTurns
  <2> QED BY <2>1, <2>2, TurnKeepsLoopInv
<1>4. Nat \subseteq S
  BY <1>2, <1>3, NatSetInduction
<1> QED BY <1>1, <1>4
Outputs == [library : Library, broken : SUBSET Songs]

\* What is reported broken: the songs the loop could not apply, and what
\* dangles in the final database, which has the songs of the loop's output and
\* the shared tables of the merged snapshot.
BrokenBy(base, remote, local, output, final) ==
    /\ LoopInv(remote, local, Applies(base, remote, local), Len(SongOrder), output)
    /\ BrokenKeys(base, remote, local) = output.broken \cup Dangling[final]
    /\ \A song \in Songs : final[song] = output.library[song]
    /\ \A table \in Tables : final[table] = LocalOntoRemote(base, remote, local)[table]

\* What the rebase reports after the loop.
LEMMA BrokenKeysFound ==
    ASSUME NEW base \in Library, NEW remote \in Library, NEW local \in Library
    PROVE  \E output \in Outputs, final \in Library :
                BrokenBy(base, remote, local, output, final)
<1> DEFINE changed == Applies(base, remote, local)
           output  == AppliedSongs(remote, local, changed)[Len(SongOrder)]
           final   == [key \in Keys |-> IF key \in changed \cap Tables
                                        THEN local[key] ELSE output.library[key]]
<1>1. LoopInv(remote, local, changed, Len(SongOrder), output)
  BY LoopInvHolds
<1>2. BrokenKeys(base, remote, local) = output.broken \cup Dangling[final]
  BY DEF BrokenKeys, Applies
<1> HIDE DEF output
<1>3. output \in Outputs /\ output.library \in Library
  BY <1>1 DEF LoopInv, Outputs
<1>4. final \in Library
  BY <1>3 DEF Library
<1>5. \A song \in Songs : final[song] = output.library[song]
  BY SongsAndTablesDiffer DEF Keys
<1>6. ASSUME NEW table \in Tables
      PROVE  final[table] = LocalOntoRemote(base, remote, local)[table]
  <2>1. table \in Keys /\ table \notin Songs
    BY SongsAndTablesDiffer DEF Keys
  <2>2. output.library[table] = remote[table]
    BY <1>1, <2>1 DEF LoopInv
  <2>3. final[table] = IF table \in changed THEN local[table] ELSE remote[table]
    BY <2>1, <2>2
  <2> QED BY <2>1, <2>3 DEF Applies, ChangedKeys, LocalOntoRemote
<1> HIDE DEF final
<1>7. BrokenBy(base, remote, local, output, final)
  BY <1>1, <1>2, <1>5, <1>6 DEF BrokenBy
<1> QED BY <1>3, <1>4, <1>7

\* When nothing is broken, the merge combined the rows of two databases into
\* one that satisfies every constraint.
LEMMA UnbrokenIsValid ==
    ASSUME NEW base \in Library, NEW remote \in Library, NEW local \in Library,
           Collisions[remote] = {}, BrokenKeys(base, remote, local) = {}
    PROVE  Valid(LocalOntoRemote(base, remote, local))
<1> DEFINE changed == Applies(base, remote, local)
           merged  == LocalOntoRemote(base, remote, local)
<1>0. PICK output \in Outputs, final \in Library : BrokenBy(base, remote, local, output, final)
  BY BrokenKeysFound
<1>1. /\ LoopInv(remote, local, changed, Len(SongOrder), output)
      /\ BrokenKeys(base, remote, local) = output.broken \cup Dangling[final]
      /\ \A song \in Songs : final[song] = output.library[song]
      /\ \A table \in Tables : final[table] = merged[table]
  BY <1>0 DEF BrokenBy
<1>2. /\ output.library \in Library /\ Collisions[output.library] = {}
      /\ \A m \in 1..Len(SongOrder) : SongOrder[m] \in changed =>
            output.library[SongOrder[m]] = local[SongOrder[m]]
      /\ \A key \in Keys \ (Songs \cap changed) : output.library[key] = remote[key]
  BY <1>1 DEF LoopInv
<1>3. ASSUME NEW song \in Songs PROVE output.library[song] = merged[song]
  <2>1. song \in Keys /\ \E n \in 1..Len(SongOrder) : SongOrder[n] = song
    BY SongOrderAssumption DEF Keys
  <2>2. output.library[song] = IF song \in changed THEN local[song] ELSE remote[song]
    BY <1>2, <2>1
  <2> QED BY <2>1, <2>2 DEF Applies, ChangedKeys, LocalOntoRemote
<1>4. merged \in Library
  BY LocalOntoRemoteType
<1>5. final = merged
  <2>1. \A key \in Keys : final[key] = merged[key]
    BY <1>1, <1>3 DEF Keys
  <2> HIDE DEF merged
  <2> QED BY <1>4, <2>1 DEF Library
<1>6. Collisions[merged] = {}
  <2> HIDE DEF merged
  <2> SUFFICES ASSUME NEW song \in Collisions[merged] PROVE FALSE
    OBVIOUS
  <2>1. song \in Songs
    BY <1>4, ConstraintAssumption
  <2>2. PICK other \in Songs \ {song} :
            \A another \in Library :
                (another[song] = merged[song] /\ another[other] = merged[other])
                    => {song, other} \subseteq Collisions[another]
    BY <1>4, CollisionAssumption
  <2> QED BY <1>2, <1>3, <2>1, <2>2
<1> QED BY <1>1, <1>5, <1>6 DEF Valid

\* A song reported broken is one whose rows were to be applied, or its
\* reference dangles in the combined snapshot.
LEMMA BrokenSongs ==
    ASSUME NEW base \in Library, NEW remote \in Library, NEW local \in Library,
           NEW song \in BrokenKeys(base, remote, local) \cap Songs
    PROVE  \/ song \in ChangedKeys(base, local)
           \/ ~Valid(LocalOntoRemote(base, remote, local))
<1> DEFINE changed == Applies(base, remote, local)
           merged  == LocalOntoRemote(base, remote, local)
<1>0. PICK output \in Outputs, final \in Library : BrokenBy(base, remote, local, output, final)
  BY BrokenKeysFound
<1>1. /\ LoopInv(remote, local, changed, Len(SongOrder), output)
      /\ BrokenKeys(base, remote, local) = output.broken \cup Dangling[final]
      /\ \A other \in Songs : final[other] = output.library[other]
      /\ \A table \in Tables : final[table] = merged[table]
  BY <1>0 DEF BrokenBy
<1>2. CASE song \in output.broken
  BY <1>1, <1>2 DEF LoopInv, Applies
<1>3. CASE song \notin output.broken /\ song \notin ChangedKeys(base, local)
  <2>1. song \in Keys /\ song \notin changed
    BY <1>3 DEF Applies, Keys
  <2>2. final[song] = remote[song]
    BY <1>1, <2>1 DEF LoopInv
  <2>3. merged[song] = remote[song]
    BY <1>3, <2>1 DEF LocalOntoRemote
  <2>4. merged \in Library
    BY LocalOntoRemoteType
  <2>5. song \in Dangling[merged]
    <3> HIDE DEF merged
    <3>1. \A key \in Tables \cup {song} : final[key] = merged[key]
      BY <1>1, <2>2, <2>3
    <3> QED BY <1>1, <1>3, <2>4, <3>1, ReferenceAssumption
  <2> QED BY <2>5 DEF Valid
<1> QED BY <1>2, <1>3

\* When at most one song changed, nothing is reported broken unless the
\* combined rows break a constraint.
LEMMA OneSongBreaks ==
    ASSUME NEW base \in Library, NEW remote \in Library, NEW local \in Library,
           \A one, two \in ChangedKeys(base, local) \cap Songs : one = two,
           BrokenKeys(base, remote, local) # {}
    PROVE  ~Valid(LocalOntoRemote(base, remote, local))
<1> DEFINE changed == Applies(base, remote, local)
           merged  == LocalOntoRemote(base, remote, local)
<1>0. PICK output \in Outputs, final \in Library : BrokenBy(base, remote, local, output, final)
  BY BrokenKeysFound
<1>1. /\ LoopInv(remote, local, changed, Len(SongOrder), output)
      /\ BrokenKeys(base, remote, local) = output.broken \cup Dangling[final]
      /\ \A other \in Songs : final[other] = output.library[other]
      /\ \A table \in Tables : final[table] = merged[table]
  BY <1>0 DEF BrokenBy
<1>2. merged \in Library
  BY LocalOntoRemoteType
<1>3. CASE output.broken # {}
  <2>1. PICK song \in output.broken : TRUE
    BY <1>3
  <2>2. song \in Songs \cap changed /\ BreaksIn(song, remote, local, changed)
    BY <1>1, <2>1 DEF LoopInv
  <2>3. PICK library \in Library :
            /\ \A other \in Keys \ (Songs \cap changed) : library[other] = remote[other]
            /\ library[song] = local[song] /\ song \in Collisions[library]
    BY <2>2 DEF BreaksIn
  <2>4. ASSUME NEW other \in Songs PROVE library[other] = merged[other]
    <3>1. other \in Keys
      BY DEF Keys
    <3>2. CASE other = song
      BY <2>2, <2>3, <3>1, <3>2 DEF Applies, LocalOntoRemote
    <3>3. CASE other # song
      <4>1. other \notin ChangedKeys(base, local)
        BY <2>2, <3>3 DEF Applies
      <4> QED BY <2>3, <3>1, <4>1 DEF Applies, LocalOntoRemote
    <3> QED BY <3>2, <3>3
  <2>5. PICK other \in Songs \ {song} :
            \A another \in Library :
                (another[song] = library[song] /\ another[other] = library[other])
                    => {song, other} \subseteq Collisions[another]
    BY <2>3, CollisionAssumption
  <2>6. song \in Collisions[merged]
    <3> HIDE DEF merged
    <3> QED BY <1>2, <2>2, <2>4, <2>5
  <2> QED BY <2>6 DEF Valid
<1>4. CASE output.broken = {}
  <2>1. \A song \in Songs : output.library[song] = merged[song]
    <3> SUFFICES ASSUME NEW song \in Songs PROVE output.library[song] = merged[song]
      OBVIOUS
    <3>1. song \in Keys /\ \E n \in 1..Len(SongOrder) : SongOrder[n] = song
      BY SongOrderAssumption DEF Keys
    <3>2. output.library[song] = IF song \in changed THEN local[song] ELSE remote[song]
      BY <1>1, <1>4, <3>1 DEF LoopInv
    <3> QED BY <3>1, <3>2 DEF Applies, ChangedKeys, LocalOntoRemote
  <2>2. \A other \in Keys : final[other] = merged[other]
    BY <1>1, <2>1 DEF Keys
  <2>3. final = merged
    <3> HIDE DEF merged
    <3> QED BY <1>2, <2>2 DEF Library
  <2> QED BY <1>1, <1>4, <2>3 DEF Valid
<1> QED BY <1>3, <1>4

\* Where the remote already has every local change, nothing is applied and
\* nothing breaks.
LEMMA NothingToApply ==
    ASSUME NEW base \in Library, NEW remote \in Library, NEW local \in Library,
           Valid(remote), \A key \in ChangedKeys(base, local) : remote[key] = local[key]
    PROVE  BrokenKeys(base, remote, local) = {}
<1> DEFINE changed == Applies(base, remote, local)
<1>0. PICK output \in Outputs, final \in Library : BrokenBy(base, remote, local, output, final)
  BY BrokenKeysFound
<1>1. changed = {}
  BY DEF Applies, ChangedKeys
<1>2. output.broken = {} /\ \A key \in Keys : output.library[key] = remote[key]
  BY <1>0, <1>1 DEF BrokenBy, LoopInv
<1>3. \A key \in Keys : final[key] = remote[key]
  BY <1>0, <1>2 DEF BrokenBy, LocalOntoRemote, Keys
<1>4. final = remote
  BY <1>3 DEF Library
<1> QED BY <1>0, <1>2, <1>4 DEF BrokenBy, Valid
=============================================================================
