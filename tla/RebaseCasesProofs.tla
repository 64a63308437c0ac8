-------------------------- MODULE RebaseCasesProofs --------------------------
(***************************************************************************)
(* The invariants of RebaseCases, for every set of songs, tables and rows. *)
(* The inductive invariant says what TLC's runs enumerate: the inputs are  *)
(* snapshots, the remote one satisfies the constraints, and the outcome,   *)
(* once there, is the one of the rebase.                                   *)
(***************************************************************************)
EXTENDS RebaseCases, RebaseProofs

InputsOK ==
    /\ base \in Library /\ remote \in Library /\ local \in Library
    /\ Valid(remote) /\ whole \in BOOLEAN /\ policy \in Conflict

OutcomeOK ==
    outcome.kind # "none" =>
        outcome = MergeOntoRemote(base, remote, local, whole, policy)

CasesInv == InputsOK /\ OutcomeOK

\* The outcome of a case is what the merge of its inputs says.
LEMMA CasesInvHolds == Spec => []CasesInv
<1>1. Init => CasesInv
  <2> SUFFICES ASSUME Init PROVE CasesInv
    OBVIOUS
  <2>1. /\ base \in Library /\ remote \in Library /\ local \in Library
        /\ Valid(remote) /\ whole \in BOOLEAN
    BY DEF Init
  <2>2. policy \in Conflict
    <3>1. Stop \in Conflict
      BY DEF Stop, Conflict
    <3>2. [generation : {1}, songs : SUBSET Songs, whole : BOOLEAN] \subseteq Conflict
      BY DEF Conflict
    <3> QED BY <3>1, <3>2 DEF Init
  <2>3. outcome.kind = "none"
    BY DEF Init, NotRun
  <2> QED BY <2>1, <2>2, <2>3 DEF CasesInv, InputsOK, OutcomeOK
<1>2. CasesInv /\ [Merge]_vars => CasesInv'
  BY DEF CasesInv, InputsOK, OutcomeOK, Merge, vars
<1> QED BY <1>1, <1>2, PTL DEF Spec

\* No rebase loses a row of the other device without consent.
THEOREM RemoteChangesAreKept == Spec => []RemoteChangesKept
<1>1. CasesInv => RemoteChangesKept
  <2> SUFFICES ASSUME CasesInv, outcome.kind = "merged",
                      NEW key \in ChangedKeys(base, remote),
                      outcome.library[key] # remote[key]
               PROVE  Approves(policy, key)
    BY DEF RemoteChangesKept, IsMerged
  <2>1. outcome = MergeOntoRemote(base, remote, local, whole, policy)
    BY DEF CasesInv, OutcomeOK
  <2>2. key \in ChangedKeys(remote, outcome.library) /\ remote[key] # base[key]
    BY DEF ChangedKeys
  <2> QED
    BY <2>1, <2>2, MergeChangesOnlyUntouchedOrApproved DEF CasesInv, InputsOK
<1> QED BY <1>1, CasesInvHolds, PTL

\* A merged snapshot is the one LocalOntoRemote computes.
LEMMA MergedOutcome ==
    ASSUME CasesInv, IsMerged
    PROVE  outcome.library = LocalOntoRemote(base, remote, local)
BY DEF CasesInv, OutcomeOK, IsMerged, MergeOntoRemote, Conflicting, Merged, Unmergeable

\* A merged snapshot differs from the remote exactly where this device changed
\* something.
THEOREM LocalChangesAreApplied == Spec => []LocalChangesApplied
<1>1. CasesInv => LocalChangesApplied
  BY MergedOutcome
  DEF LocalChangesApplied, CarriesLocalChanges, LocalOntoRemote, ChangedKeys
<1> QED BY <1>1, CasesInvHolds, PTL

\* Approving what a conflict named lets the rebase go through, or names the
\* whole repository, whose approval lets the local database replace the remote.
THEOREM KeepLocalIsAlwaysAnExit == Spec => []KeepLocalIsAnExit
<1>1. CasesInv => KeepLocalIsAnExit
  <2> SUFFICES ASSUME CasesInv, outcome.kind = "conflict"
               PROVE  KeepLocalIsAnExit
    BY DEF KeepLocalIsAnExit
  <2> DEFINE clash  == Clash(base, remote, local)
             broken == BrokenKeys(base, remote, local)
             wholeRepo == whole \/ clash \cap Tables # {}
             approval == [generation |-> 1, songs |-> outcome.songs,
                          whole |-> outcome.whole]
             again == MergeOntoRemote(base, remote, local, whole, approval)
  <2>1. outcome = MergeOntoRemote(base, remote, local, whole, policy)
    BY DEF CasesInv, OutcomeOK
  <2>2. \/ outcome.songs = clash \cap Songs /\ outcome.whole = wholeRepo
        \/ outcome.whole = TRUE
    BY <2>1 DEF MergeOntoRemote, Conflicting, Merged, Unmergeable
  <2>3. ~(wholeRepo /\ ~approval.whole)
    BY <2>2
  <2>4. \A song \in clash \cap Songs : Approves(approval, song)
    BY <2>2 DEF Approves
  <2>5. \/ again.kind = "merged"
        \/ again.kind = "unmergeable" /\ approval.whole
        \/ again.kind = "conflict" /\ again.whole /\ ~approval.whole
    BY <2>3, <2>4 DEF MergeOntoRemote, Conflicting, Merged, Unmergeable
  <2> QED BY <2>5 DEF KeepLocalIsAnExit
<1> QED BY <1>1, CasesInvHolds, PTL

-----------------------------------------------------------------------------
(* Constraints                                                             *)

\* Every merged snapshot satisfies the constraints, although it combines rows
\* of two databases that satisfied them only separately.
THEOREM MergedSnapshotsAreValid == Spec => []MergedIsValid
<1>1. CasesInv => MergedIsValid
  <2> SUFFICES ASSUME CasesInv, IsMerged PROVE Valid(outcome.library)
    BY DEF MergedIsValid
  <2>1. outcome.library = LocalOntoRemote(base, remote, local)
    BY MergedOutcome
  <2>2. BrokenKeys(base, remote, local) = {}
    BY DEF CasesInv, OutcomeOK, IsMerged, MergeOntoRemote, Conflicting, Merged, Unmergeable
  <2>3. Valid(LocalOntoRemote(base, remote, local))
    BY <2>2, UnbrokenIsValid DEF CasesInv, InputsOK, Valid
  <2> QED BY <2>1, <2>3
<1> QED BY <1>1, CasesInvHolds, PTL

\* What a conflict names: the songs both sides changed, or what breaks a
\* constraint.
LEMMA ConflictReasons ==
    ASSUME CasesInv, outcome.kind = "conflict"
    PROVE  \/ /\ outcome.songs = Clash(base, remote, local) \cap Songs
              /\ whole \/ Clash(base, remote, local) # {}
           \/ /\ outcome.songs = BrokenKeys(base, remote, local) \cap Songs
              /\ outcome.whole = TRUE /\ BrokenKeys(base, remote, local) # {}
<1> DEFINE clash  == Clash(base, remote, local)
           broken == BrokenKeys(base, remote, local)
<1>1. outcome = MergeOntoRemote(base, remote, local, whole, policy)
  BY DEF CasesInv, OutcomeOK
<1>2. whole \in BOOLEAN
  BY DEF CasesInv, InputsOK
<1> QED BY <1>1, <1>2 DEF MergeOntoRemote, Conflicting, Merged, Unmergeable

\* A conflict names only songs this device changed, or songs whose rows lose
\* what they refer to in the combined snapshot.
THEOREM ConflictsNameLocalSongs == Spec => []ConflictsAreLocal
<1>1. CasesInv => ConflictsAreLocal
  <2> SUFFICES ASSUME CasesInv, outcome.kind = "conflict", NEW song \in outcome.songs
               PROVE  \/ song \in ChangedKeys(base, local)
                      \/ outcome.whole /\ ~Valid(LocalOntoRemote(base, remote, local))
    BY DEF ConflictsAreLocal
  <2>1. CASE outcome.songs = Clash(base, remote, local) \cap Songs
    BY <2>1 DEF Clash
  <2>2. CASE outcome.songs = BrokenKeys(base, remote, local) \cap Songs /\ outcome.whole = TRUE
    BY <2>2, BrokenSongs DEF CasesInv, InputsOK
  <2> QED BY <2>1, <2>2, ConflictReasons
<1> QED BY <1>1, CasesInvHolds, PTL

\* A device that edited a single song or shared table gets no conflict from
\* edits elsewhere unless the combined rows themselves break a constraint.
THEOREM OneDisjointEditAlwaysMerges == Spec => []OneDisjointEditMerges
<1>1. CasesInv => OneDisjointEditMerges
  <2> SUFFICES ASSUME CasesInv, NEW key \in Keys, ChangedKeys(base, local) = {key},
                      outcome.kind = "conflict",
                      ChangedKeys(base, local) \cap ChangedKeys(base, remote) = {},
                      ~whole
               PROVE  ~Valid(LocalOntoRemote(base, remote, local))
    BY DEF OneDisjointEditMerges, DisjointEditsMerge
  <2>1. Clash(base, remote, local) = {}
    BY DEF Clash
  <2>2. BrokenKeys(base, remote, local) # {}
    BY <2>1, ConflictReasons
  <2> QED BY <2>2, OneSongBreaks DEF CasesInv, InputsOK
<1> QED BY <1>1, CasesInvHolds, PTL

-----------------------------------------------------------------------------
(* Order and retries                                                       *)

\* For disjoint changes the other device's merge gives the same database had
\* this one published first; it stops only if it changed several songs.
THEOREM MergeOrderDoesNotMatter == Spec => []OrderDoesNotMatter
<1>1. CasesInv /\ MergedIsValid => OrderDoesNotMatter
  <2> SUFFICES ASSUME CasesInv, IsMerged, Valid(outcome.library),
                      Clash(base, remote, local) = {}
               PROVE  LET other == MergeOntoRemote(base, local, remote, FALSE, Stop)
                      IN  \/ other = Merged(outcome.library)
                          \/ /\ other.kind = "conflict" /\ other.whole
                             /\ \E one, two \in ChangedKeys(base, remote) \cap Songs : one # two
    BY DEF OrderDoesNotMatter, MergedIsValid
  <2>1. outcome.library = LocalOntoRemote(base, remote, local)
    BY MergedOutcome
  <2>2. ASSUME NEW key \in Keys
        PROVE  LocalOntoRemote(base, local, remote)[key]
                 = LocalOntoRemote(base, remote, local)[key]
    BY DEF LocalOntoRemote, Clash, ChangedKeys
  <2>3. LocalOntoRemote(base, local, remote) = outcome.library
    BY <2>1, <2>2 DEF LocalOntoRemote
  <2>4. Clash(base, local, remote) = {}
    BY DEF Clash
  <2>5. CASE BrokenKeys(base, local, remote) = {}
    BY <2>3, <2>4, <2>5 DEF MergeOntoRemote
  <2>6. CASE BrokenKeys(base, local, remote) # {}
    <3>1. \E one, two \in ChangedKeys(base, remote) \cap Songs : one # two
      BY <2>3, <2>6, OneSongBreaks DEF CasesInv, InputsOK
    <3> DEFINE other == MergeOntoRemote(base, local, remote, FALSE, Stop)
    <3>2. other = Conflicting(local, BrokenKeys(base, local, remote) \cap Songs, TRUE)
      BY <2>4, <2>6 DEF MergeOntoRemote, Stop
    <3> HIDE DEF other
    <3>3. other.kind = "conflict" /\ other.whole
      BY <3>2 DEF Conflicting
    <3> QED BY <3>1, <3>3, Zenon DEF other
  <2> QED BY <2>5, <2>6
<1> QED BY <1>1, CasesInvHolds, MergedSnapshotsAreValid, PTL

\* Rebasing again after the result was committed changes nothing, and asks for
\* consent only where the change set is one of the whole repository.
THEOREM RebaseRetryIsStable == Spec => []RetryIsStable
<1>1. CasesInv /\ MergedIsValid => RetryIsStable
  <2> SUFFICES ASSUME CasesInv, IsMerged, Valid(outcome.library),
                      NEW answer \in {Stop, [Stop EXCEPT !.whole = TRUE]}
               PROVE  MergeOntoRemote(base, outcome.library, local, whole, answer)
                        = IF whole /\ ~answer.whole
                          THEN Conflicting(outcome.library, {}, TRUE)
                          ELSE Merged(outcome.library)
    BY DEF RetryIsStable, MergedIsValid
  <2>1. outcome.library = LocalOntoRemote(base, remote, local) /\ outcome.library \in Library
    BY MergedOutcome, LocalOntoRemoteType DEF CasesInv, InputsOK
  <2>2. \A key \in ChangedKeys(base, local) : outcome.library[key] = local[key]
    BY <2>1 DEF LocalOntoRemote, ChangedKeys
  <2>3. Clash(base, outcome.library, local) = {}
    BY <2>2 DEF Clash
  <2>4. LocalOntoRemote(base, outcome.library, local) = outcome.library
    BY <2>1 DEF LocalOntoRemote
  <2>5. BrokenKeys(base, outcome.library, local) = {}
    BY <2>1, <2>2, NothingToApply DEF CasesInv, InputsOK
  <2>7. CASE whole /\ ~answer.whole
    <3>1. \A song \in {} \cap Songs : Approves(answer, song)
      OBVIOUS
    <3>2. (whole \/ {} \cap Tables # {}) = TRUE /\ {} \cap Songs = {}
      BY <2>7
    <3> QED BY <2>3, <2>7, <3>1, <3>2 DEF MergeOntoRemote
  <2>8. CASE ~(whole /\ ~answer.whole)
    <3>1. ~((whole \/ Clash(base, outcome.library, local) \cap Tables # {}) /\ ~answer.whole)
      BY <2>3, <2>8
    <3>2. ~\E song \in Clash(base, outcome.library, local) \cap Songs : ~Approves(answer, song)
      BY <2>3
    <3> QED BY <2>4, <2>5, <2>8, <3>1, <3>2 DEF MergeOntoRemote
  <2> QED BY <2>7, <2>8
<1> QED BY <1>1, CasesInvHolds, MergedSnapshotsAreValid, PTL
=============================================================================
