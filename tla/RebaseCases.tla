---------------------------- MODULE RebaseCases ----------------------------
(***************************************************************************)
(* Every bounded input of the three-way rebase, as the writer hands it     *)
(* over: a base snapshot, the remote snapshot that replaced it, the local  *)
(* working copy, the change set's whole-repository flag and the policy for *)
(* the remote generation.  One step computes the rebase; the invariants    *)
(* say what its result owes to both devices.                               *)
(***************************************************************************)
EXTENDS Rebase

VARIABLES
    base, remote, local,    \* the three snapshots
    whole,                  \* ChangeSet.whole_repository
    policy,                 \* the policy after for_remote_generation
    outcome                 \* of MergeOntoRemote; kind "none" before it ran

vars == <<base, remote, local, whole, policy, outcome>>

NotRun == [kind |-> "none", library |-> base, songs |-> {}, whole |-> FALSE]

\* Working copies and published snapshots satisfy the constraints.
Init ==
    /\ base   \in {library \in Library : Valid(library)}
    /\ remote \in {library \in Library : Valid(library)}
    /\ local  \in {library \in Library : Valid(library)}
    /\ whole  \in BOOLEAN
    /\ policy \in {Stop} \cup [generation : {1}, songs : SUBSET Songs, whole : BOOLEAN]
    /\ outcome = NotRun

Merge ==
    /\ outcome.kind = "none"
    /\ outcome' = MergeOntoRemote(base, remote, local, whole, policy)
    /\ UNCHANGED <<base, remote, local, whole, policy>>

Spec == Init /\ [][Merge]_vars

-----------------------------------------------------------------------------
IsMerged == outcome.kind = "merged"

\* No rebase loses a row of the other device without consent: where the remote
\* moved away from the base, the merged snapshot keeps the remote rows unless
\* the user approved replacing them.
RemoteChangesKept ==
    IsMerged =>
        \A key \in ChangedKeys(base, remote) :
            \/ outcome.library[key] = remote[key]
            \/ Approves(policy, key)

\* No rebase loses a local edit, and none invents a row: a merged snapshot
\* differs from the remote exactly where this device changed something.
LocalChangesApplied ==
    IsMerged =>
        /\ CarriesLocalChanges(base, outcome.library, local)
        /\ ChangedKeys(remote, outcome.library) \subseteq ChangedKeys(base, local)

\* The published snapshot satisfies the constraints even though it combines
\* rows of two databases that satisfied them only separately.
MergedIsValid == IsMerged => Valid(outcome.library)

\* Devices that edited different songs never get a conflict from each other
\* unless the combined rows themselves break a constraint.
DisjointEditsMerge ==
    (/\ outcome.kind = "conflict"
     /\ ChangedKeys(base, local) \cap ChangedKeys(base, remote) = {}
     /\ ~whole)
        => ~Valid(LocalOntoRemote(base, remote, local))

\* The same when this device changed a single key: with several, the order in
\* which the rows are applied can break a constraint the result satisfies.
OneDisjointEditMerges ==
    (\E key \in Keys : ChangedKeys(base, local) = {key}) => DisjointEditsMerge

\* Devices converge: had this device published first, the other one's merge -
\* a plain change set nobody approved anything for - would have given the same
\* database.  It stops only where the other device changed several songs: the
\* order in which their rows are applied can break a constraint on the way to
\* a result that satisfies it, and then the whole repository is asked for.
OrderDoesNotMatter ==
    (IsMerged /\ Clash(base, remote, local) = {}) =>
        LET other == MergeOntoRemote(base, local, remote, FALSE, Stop)
        IN  \/ other = Merged(outcome.library)
            \/ /\ other.kind = "conflict" /\ other.whole
               /\ \E one, two \in ChangedKeys(base, remote) \cap Songs : one # two

\* A retry that never learned of its commit rebases the same edits onto a
\* generation that has them.  The approval it had was for the generation it
\* replaced.  Without one the merge goes through and changes nothing, except
\* that a whole-repository change set asks again, accusing no song; with the
\* approval it asks for, it goes through too.
RetryIsStable ==
    IsMerged =>
        \A answer \in {Stop, [Stop EXCEPT !.whole = TRUE]} :
            MergeOntoRemote(base, outcome.library, local, whole, answer)
                = IF whole /\ ~answer.whole
                  THEN Conflicting(outcome.library, {}, TRUE)
                  ELSE Merged(outcome.library)

\* A conflict names only songs this device changed, or songs whose rows have
\* lost what they refer to once the two sides are combined.
ConflictsAreLocal ==
    outcome.kind = "conflict" =>
        \A song \in outcome.songs :
            \/ song \in ChangedKeys(base, local)
            \/ outcome.whole /\ ~Valid(LocalOntoRemote(base, remote, local))

\* Keep Local is an exit: approving what a conflict named lets the same rebase
\* go through, or - when the rows cannot be combined - names the whole
\* repository, whose approval lets the local database replace the remote.
KeepLocalIsAnExit ==
    outcome.kind = "conflict" =>
        LET approval == [generation |-> 1, songs |-> outcome.songs, whole |-> outcome.whole]
            again    == MergeOntoRemote(base, remote, local, whole, approval)
        IN  \/ again.kind = "merged"
            \/ again.kind = "unmergeable" /\ approval.whole
            \/ again.kind = "conflict" /\ again.whole /\ ~approval.whole
=============================================================================
