--------------------------- MODULE PublishChanges ---------------------------
(***************************************************************************)
(* Publish Changes: several devices publish their Local Working Copies     *)
(* into one Remote Repository whose manifest is replaced by compare and    *)
(* swap.  The module composes                                              *)
(*   - the core writer (writer.rs, base.rs): read the manifest, rebase,    *)
(*     upload, replace the manifest, verify, retain the base, install;     *)
(*   - its caller (remote/executor.rs, remote/sync): the durable operation *)
(*     row and repository state of the control database, coalescing,       *)
(*     Keep Local, Use Remote, pruning;                                    *)
(*   - the refresh of a clean working copy (remote/sync/revision.rs).      *)
(*                                                                         *)
(* Each storage request and each durable local write is one step, so the   *)
(* steps of different devices interleave and any of them can be the last   *)
(* one before an interruption.  The per-library commit lock makes edits,   *)
(* publications, refreshes and conflict resolutions of one device exclude  *)
(* each other: a device runs one of them at a time (pc).                   *)
(*                                                                         *)
(* Digests are written as the snapshot they hash (Rebase), asset objects   *)
(* and the cleanup of old objects are left out.                            *)
(***************************************************************************)
EXTENDS Rebase, FiniteSets

CONSTANTS
    Device,             \* the installations that share the repository
    NoDevice,           \* writer of a manifest no modelled device wrote
    Initial,            \* the library every device starts from
    InitialGenerations, \* {0}: new repository, {1}: one with a generation
    MaxRebases,         \* MAX_REBASES
    MaxOperations,      \* bound: edits and explicit republications
    FaultKinds,         \* which faults happen, see below
    MaxFaults           \* bound: how many of them

ASSUME DeviceAssumption == NoDevice \notin Device
ASSUME InitialAssumption ==
    /\ Initial \in Library /\ Valid(Initial)
    /\ InitialGenerations \subseteq {0, 1}
ASSUME BoundsAssumption ==
    /\ MaxRebases    \in Nat
    /\ MaxOperations \in Nat
    /\ MaxFaults     \in Nat
    /\ FaultKinds \subseteq {"interruption", "delay", "restore"}

VARIABLES
    (* the remote repository *)
    manifest,   \* the manifest; generation 0 stands for none
    revision,   \* its revision token, new with every write; 0 for none
    snapshots,  \* database objects, one per (generation, operation) path
    inFlight,   \* manifest requests the server has yet to process
    (* what each device keeps on disk *)
    working,    \* openkara.db of the working copy
    bases,      \* retained base snapshots, at most one per generation
    committed,  \* committed_generation and local_base_generation
    baseId,     \* local_base_sha256, recorded when committed > 0
    localState, \* repository state; publishing is folded into dirty
    opState,    \* state of the active operation
    opId,       \* its id
    expected,   \* expected_generation
    whole,      \* whole_repository of its change set
    approval,   \* keep_local_approval
    conflict,   \* pre_publish_conflict
    newer,      \* id of a younger operation not coalesced yet, or 0
    newerWhole, \* whole_repository of that operation
    baseline,   \* remote_revision in the app config
    (* the publication, refresh or resolution a device is running *)
    pc,
    seen,       \* the manifest it read
    seenRev,    \* the revision it will replace
    probe,      \* base_remote_digest
    rebases,    \* rebases done so far
    candidate,  \* the snapshot to commit
    rebased,    \* whether it replaces the working copy
    target,     \* its generation
    (* bookkeeping of the model *)
    operations, \* operations minted so far, the source of fresh ids
    faults,     \* faults so far
    history,    \* every manifest ever written, by revision
    edited      \* the rows the user of a device edited and not yet published

remoteVars  == <<manifest, revision, snapshots, inFlight, history>>
copyVars    == <<working, bases, edited>>
stateVars   == <<committed, baseId, localState, baseline>>
opVars      == <<opState, opId, expected, whole, approval, conflict, newer, newerWhole>>
sessionVars == <<seen, seenRev, probe, rebases, candidate, rebased, target>>
boundVars   == <<operations, faults>>
vars == <<remoteVars, copyVars, stateVars, opVars, pc, sessionVars, boundVars>>

-----------------------------------------------------------------------------
Manifest == [generation : Nat, operation : Nat, library : Library,
             writer : Device \cup {NoDevice}]
Snapshot == [generation : Nat, operation : Nat, library : Library]
Base     == [generation : Nat, library : Library]
Request  == [expects : Nat, manifest : Manifest]

NoManifest == [generation |-> 0, operation |-> 0, library |-> Initial, writer |-> NoDevice]
NoProbe    == [known |-> FALSE, library |-> Initial]

OpStates == {"none", "pending", "running", "retryWait", "conflicted", "failed", "cancelled"}

EditSteps       == {"project", "projectWhole"}
PublishSteps    == {"stat", "read", "restat", "reread", "rebase", "upload", "commit",
                    "verify", "accepted", "retain", "install", "record", "prune", "baseline"}
RefreshSteps    == {"pull", "pulled", "pullRecord", "pullPrune", "pullBaseline"}
UseRemoteSteps  == {"useCancel", "useCopy", "useRecord", "usePrune"}
Steps ==
    {"idle"} \cup EditSteps \cup PublishSteps \cup RefreshSteps \cup UseRemoteSteps

RemoteTypeOK ==
    /\ manifest \in Manifest /\ revision \in Nat
    /\ snapshots \subseteq Snapshot /\ inFlight \subseteq Request
    /\ history \in Seq(Manifest)

CopyTypeOK ==
    /\ working \in [Device -> Library] /\ bases \in [Device -> SUBSET Base]
    /\ edited \in [Device -> SUBSET Keys]

StateTypeOK ==
    /\ committed \in [Device -> Nat] /\ baseId \in [Device -> Library]
    /\ localState \in [Device -> {"clean", "dirty", "conflicted"}]
    /\ baseline \in [Device -> Nat]

OperationTypeOK ==
    /\ opState \in [Device -> OpStates]
    /\ opId \in [Device -> Nat] /\ expected \in [Device -> Nat]
    /\ whole \in [Device -> BOOLEAN]
    /\ approval \in [Device -> Conflict] /\ conflict \in [Device -> Conflict]
    /\ newer \in [Device -> Nat] /\ newerWhole \in [Device -> BOOLEAN]

SessionTypeOK ==
    /\ seen \in [Device -> Manifest] /\ seenRev \in [Device -> Nat]
    /\ probe \in [Device -> [known : BOOLEAN, library : Library]]
    /\ rebases \in [Device -> 0..MaxRebases]
    /\ candidate \in [Device -> Library] /\ rebased \in [Device -> BOOLEAN]
    /\ target \in [Device -> Nat]

TypeOK ==
    /\ RemoteTypeOK /\ CopyTypeOK /\ StateTypeOK /\ OperationTypeOK /\ SessionTypeOK
    /\ pc \in [Device -> Steps]
    /\ operations \in Nat /\ faults \in Nat

-----------------------------------------------------------------------------
(* A repository is either new - no manifest, nothing retained - or has the *)
(* generation every device already pulled.                                 *)
InitialState(generation) ==
    LET first == [NoManifest EXCEPT !.generation = 1]
    IN  /\ manifest   = IF generation = 0 THEN NoManifest ELSE first
        /\ revision   = generation
        /\ snapshots  = IF generation = 0 THEN {}
                       ELSE {[generation |-> 1, operation |-> 0, library |-> Initial]}
        /\ inFlight   = {}
        /\ history    = IF generation = 0 THEN <<>> ELSE <<first>>
        /\ working    = [d \in Device |-> Initial]
        /\ bases      = [d \in Device |-> IF generation = 0 THEN {}
                            ELSE {[generation |-> 1, library |-> Initial]}]
        /\ committed  = [d \in Device |-> generation]
        /\ baseId     = [d \in Device |-> Initial]
        /\ baseline   = [d \in Device |-> generation]
        /\ localState = [d \in Device |-> "clean"]
        /\ opState    = [d \in Device |-> "none"]
        /\ opId       = [d \in Device |-> 0]
        /\ expected   = [d \in Device |-> 0]
        /\ whole      = [d \in Device |-> FALSE]
        /\ approval   = [d \in Device |-> Stop]
        /\ conflict   = [d \in Device |-> Stop]
        /\ newer      = [d \in Device |-> 0]
        /\ newerWhole = [d \in Device |-> FALSE]
        /\ pc         = [d \in Device |-> "idle"]
        /\ seen       = [d \in Device |-> NoManifest]
        /\ seenRev    = [d \in Device |-> 0]
        /\ probe      = [d \in Device |-> NoProbe]
        /\ rebases    = [d \in Device |-> 0]
        /\ candidate  = [d \in Device |-> Initial]
        /\ rebased    = [d \in Device |-> FALSE]
        /\ target     = [d \in Device |-> 0]
        /\ operations = 0
        /\ faults     = 0
        /\ edited     = [d \in Device |-> {}]

Init == \E generation \in InitialGenerations : InitialState(generation)

-----------------------------------------------------------------------------
(* Helpers                                                                 *)

Goto(d, step) == pc' = [pc EXCEPT ![d] = step]

\* Mutant of Retained: retaining a base removes the older ones.
RetainedAlone(kept, generation, library) ==
    {[generation |-> generation, library |-> library]}

\* retain_base_snapshot: the file of that generation is written or replaced.
Retained(kept, generation, library) ==
    {base \in kept : base.generation # generation}
        \cup {[generation |-> generation, library |-> library]}

\* prune_base_snapshots.
Pruned(kept, generation) == {base \in kept : base.generation = generation}

\* verified_base: the retained base of the expected generation, when it
\* hashes to the recorded identity and that identity is the one of the
\* generation the operation expects.
HasVerifiedBase(d) ==
    /\ expected[d] = committed[d] /\ committed[d] > 0
    /\ [generation |-> expected[d], library |-> baseId[d]] \in bases[d]

\* The object a manifest names exists and has the digest the manifest gives.
SnapshotIntact(m) ==
    [generation |-> m.generation, operation |-> m.operation, library |-> m.library]
        \in snapshots

IsOwnCommit(d, m) == m.operation = opId[d] /\ m.generation > expected[d]

\* A publication that stops: the session is over, the operation row and the
\* repository state say how (record_failure).
Fail(d, operation, repository) ==
    /\ opState' = [opState EXCEPT ![d] = operation]
    /\ localState' = [localState EXCEPT ![d] = repository]
    /\ Goto(d, "idle")

\* The manifest is replaced by `m'.
ReplaceManifest(m) ==
    /\ manifest' = m
    /\ revision' = revision + 1
    /\ history'  = Append(history, m)

-----------------------------------------------------------------------------
(* Local mutations                                                         *)

\* Mutant of Mergeable: an operation that waits for a retry is not picked up.
OnlyPending == {"pending"}

\* The states from which an operation is picked up and coalesced.
Mergeable == {"pending", "retryWait"}

\* The bound on operations counts the edits that have yet to get theirs.
MayMint ==
    operations + Cardinality({d \in Device : pc[d] \in EditSteps}) < MaxOperations

\* A fresh publish operation, pending.  Next to an operation that still waits
\* to be published it is coalesced later; otherwise it becomes the active one
\* and a conflicted or failed predecessor is left behind.
MintOperation(d, wholeRepository) ==
    /\ operations' = operations + 1
    /\ IF opState[d] \in Mergeable
       THEN /\ newer' = [newer EXCEPT ![d] = operations + 1]
            /\ newerWhole' = [newerWhole EXCEPT ![d] = @ \/ wholeRepository]
            /\ UNCHANGED <<opState, opId, expected, whole, approval, conflict>>
       ELSE /\ opState'  = [opState  EXCEPT ![d] = "pending"]
            /\ opId'     = [opId     EXCEPT ![d] = operations + 1]
            /\ expected' = [expected EXCEPT ![d] = committed[d]]
            /\ whole'    = [whole    EXCEPT ![d] = wholeRepository]
            /\ approval' = [approval EXCEPT ![d] = Stop]
            /\ conflict' = [conflict EXCEPT ![d] = Stop]
            /\ UNCHANGED <<newer, newerWhole>>
    /\ localState' = [localState EXCEPT ![d] = "dirty"]
    /\ UNCHANGED faults

\* The user changes the rows of one key: the library transaction commits while
\* the repository state still says what it said before ...
Edit(d) ==
    /\ pc[d] = "idle" /\ MayMint
    /\ \E key \in Keys, row \in Rows :
        LET library == [working[d] EXCEPT ![key] = row]
        IN  /\ row # working[d][key] /\ Valid(library)
            /\ working' = [working EXCEPT ![d] = library]
            /\ edited'  = [edited EXCEPT ![d] = @ \cup {key}]
            /\ Goto(d, IF key \in Tables THEN "projectWhole" ELSE "project")
    /\ UNCHANGED <<remoteVars, bases, stateVars, opVars, sessionVars, boundVars>>

\* ... and the operation is projected into the control database, with the
\* state.  A shared table belongs to no song, so its change set is the whole
\* repository.
ProjectEdit(d) ==
    /\ pc[d] \in EditSteps
    /\ MintOperation(d, pc[d] = "projectWhole")
    /\ Goto(d, "idle")
    /\ UNCHANGED <<remoteVars, copyVars, committed, baseId, baseline, sessionVars>>

\* The user publishes again explicitly after a permanent failure.
Republish(d) ==
    /\ pc[d] = "idle" /\ opState[d] = "failed" /\ MayMint
    /\ MintOperation(d, FALSE)
    /\ UNCHANGED <<remoteVars, copyVars, committed, baseId, baseline, pc, sessionVars>>

-----------------------------------------------------------------------------
(* Reading the manifest                                                    *)

\* A publication coalesces the waiting operations into one survivor, rebinds
\* it to the committed generation and runs it.  A Keep Local approval does
\* not cover a change set that grew.
StartPublish(d) ==
    /\ pc[d] = "idle" /\ opState[d] \in Mergeable
    /\ \E survivor \in {opId[d]} \cup ({newer[d]} \ {0}) :
            opId' = [opId EXCEPT ![d] = survivor]
    /\ whole'      = [whole EXCEPT ![d] = @ \/ newerWhole[d]]
    /\ approval'   = [approval EXCEPT ![d] = IF newer[d] = 0 THEN @ ELSE Stop]
    /\ newer'      = [newer EXCEPT ![d] = 0]
    /\ newerWhole' = [newerWhole EXCEPT ![d] = FALSE]
    /\ expected'   = [expected EXCEPT ![d] = committed[d]]
    /\ opState'    = [opState EXCEPT ![d] = "running"]
    /\ localState' = [localState EXCEPT ![d] = "dirty"]
    /\ rebases'    = [rebases EXCEPT ![d] = 0]
    /\ Goto(d, "stat")
    /\ UNCHANGED <<remoteVars, copyVars, committed, baseId, baseline, conflict,
                   seen, seenRev, probe, candidate, rebased, target, boundVars>>

\* read_current_manifest asks for the revision first ...
StatManifest(d) ==
    /\ pc[d] \in {"stat", "restat"}
    /\ seenRev' = [seenRev EXCEPT ![d] = revision]
    /\ Goto(d, IF pc[d] = "stat" THEN "read" ELSE "reread")
    /\ UNCHANGED <<remoteVars, copyVars, stateVars, opVars, seen, probe, rebases,
                   candidate, rebased, target, boundVars>>

\* ... and then for the bytes, which may already be newer.  A repository that
\* had no manifest when asked is taken to have none.
Observed(d) == IF seenRev[d] = 0 THEN NoManifest ELSE manifest

\* The first read also notes the digest of the expected generation, when it
\* sees that generation.
ReadManifest(d) ==
    /\ pc[d] \in {"read", "reread"}
    /\ LET m == Observed(d)
       IN  /\ seen' = [seen EXCEPT ![d] = m]
           /\ IF pc[d] = "reread" THEN UNCHANGED probe
              ELSE probe' = [probe EXCEPT ![d] =
                        IF m.generation > 0 /\ m.generation = expected[d]
                        THEN [known |-> TRUE, library |-> m.library]
                        ELSE NoProbe]
           /\ \/ /\ IsOwnCommit(d, m)
                 /\ Goto(d, "accepted")
                 /\ UNCHANGED <<opState, localState>>
              \/ /\ ~IsOwnCommit(d, m) /\ m.generation < expected[d]
                 /\ Fail(d, "conflicted", "conflicted")
              \/ /\ ~IsOwnCommit(d, m) /\ m.generation >= expected[d]
                 /\ Goto(d, "rebase")
                 /\ UNCHANGED <<opState, localState>>
    /\ UNCHANGED <<remoteVars, copyVars, committed, baseId, baseline, opId, expected,
                   whole, approval, conflict, newer, newerWhole, seenRev, rebases,
                   candidate, rebased, target, boundVars>>

-----------------------------------------------------------------------------
(* The rebase                                                              *)

\* Mutant of RemoteMoved: an unknown base digest counts as an unchanged one.
MovedByDigestOnly(d) ==
    /\ seen[d].generation > 0
    /\ probe[d].known /\ probe[d].library # seen[d].library

\* The remote is no longer the snapshot the working copy was based on.
RemoteMoved(d) ==
    /\ seen[d].generation > 0
    /\ \/ seen[d].generation # expected[d]
       \/ ~probe[d].known
       \/ probe[d].library # seen[d].library

Policy(d) == PolicyAt(approval[d], seen[d].generation)

RebaseOutcome(d) ==
    MergeOntoRemote(baseId[d], seen[d].library, working[d], whole[d], Policy(d))

\* Mutant of Publish: the merged snapshot never replaces the working copy.
PublishOnly(d, library, replacesWorkingCopy) ==
    /\ candidate' = [candidate EXCEPT ![d] = library]
    /\ rebased'   = [rebased EXCEPT ![d] = FALSE]
    /\ target'    = [target EXCEPT ![d] = seen[d].generation + 1]
    /\ Goto(d, "upload")
    /\ UNCHANGED <<localState, opState, approval, conflict>>

\* `library' is what this publication will commit on the observed manifest.
Publish(d, library, replacesWorkingCopy) ==
    /\ candidate' = [candidate EXCEPT ![d] = library]
    /\ rebased'   = [rebased EXCEPT ![d] = replacesWorkingCopy]
    /\ target'    = [target EXCEPT ![d] = seen[d].generation + 1]
    /\ Goto(d, "upload")
    /\ UNCHANGED <<localState, opState, approval, conflict>>

\* A Pre-Publish Conflict is stored with the operation; a stored approval is
\* used up by it (record_pre_publish_conflict).
StopWithConflict(d, songs, wholeRepository) ==
    /\ conflict' = [conflict EXCEPT ![d] =
            [generation |-> seen[d].generation, songs |-> songs, whole |-> wholeRepository]]
    /\ approval' = [approval EXCEPT ![d] = Stop]
    /\ Fail(d, "conflicted", "conflicted")
    /\ UNCHANGED <<candidate, rebased, target>>

\* Without a base, or with rows that cannot be combined, only an approved
\* whole-repository conflict publishes the local database as it is.
ReplaceRemoteOrStop(d) ==
    IF Policy(d).whole THEN Publish(d, working[d], TRUE)
                       ELSE StopWithConflict(d, {}, TRUE)

\* Mutant of MayRebase: the bound is off by one.
MayRebaseOnceMore(d) == rebases[d] <= MaxRebases

MayRebase(d) == rebases[d] < MaxRebases

PublishUnmoved(d) ==
    /\ pc[d] = "rebase" /\ ~RemoteMoved(d)
    /\ Publish(d, working[d], FALSE)
    /\ UNCHANGED rebases

GiveUpContended(d) ==
    /\ pc[d] = "rebase" /\ RemoteMoved(d) /\ ~MayRebase(d)
    /\ Fail(d, "retryWait", "dirty")
    /\ UNCHANGED <<rebases, candidate, rebased, target, approval, conflict>>

\* The fetched remote snapshot does not have the digest the manifest names.
RebaseOntoCorruptSnapshot(d) ==
    /\ HasVerifiedBase(d) /\ ~SnapshotIntact(seen[d])
    /\ Fail(d, "failed", "dirty")
    /\ UNCHANGED <<candidate, rebased, target, approval, conflict>>

RebaseWithoutBase(d) ==
    /\ ~HasVerifiedBase(d)
    /\ ReplaceRemoteOrStop(d)

RebaseMerges(d) ==
    /\ HasVerifiedBase(d) /\ SnapshotIntact(seen[d])
    /\ RebaseOutcome(d).kind = "merged"
    /\ Publish(d, RebaseOutcome(d).library, TRUE)

RebaseConflicts(d) ==
    /\ HasVerifiedBase(d) /\ SnapshotIntact(seen[d])
    /\ RebaseOutcome(d).kind = "conflict"
    /\ StopWithConflict(d, RebaseOutcome(d).songs, RebaseOutcome(d).whole)

RebaseUnmergeable(d) ==
    /\ HasVerifiedBase(d) /\ SnapshotIntact(seen[d])
    /\ RebaseOutcome(d).kind = "unmergeable"
    /\ ReplaceRemoteOrStop(d)

RebaseCandidate(d) ==
    /\ pc[d] = "rebase" /\ RemoteMoved(d) /\ MayRebase(d)
    /\ rebases' = [rebases EXCEPT ![d] = @ + 1]
    /\ \/ RebaseOntoCorruptSnapshot(d)
       \/ RebaseWithoutBase(d)
       \/ RebaseMerges(d)
       \/ RebaseConflicts(d)
       \/ RebaseUnmergeable(d)

BuildCandidate(d) ==
    /\ PublishUnmoved(d) \/ GiveUpContended(d) \/ RebaseCandidate(d)
    /\ UNCHANGED <<remoteVars, copyVars, committed, baseId, baseline, opId, expected,
                   whole, newer, newerWhole, seen, seenRev, probe, boundVars>>

-----------------------------------------------------------------------------
(* Committing the candidate                                                *)

\* Mutant of Committing: the working copy is committed, not the candidate.
CommittingWorkingCopy(d) == [generation |-> target[d], operation |-> opId[d],
                             library |-> working[d], writer |-> d]

\* The manifest this publication writes.
Committing(d) == [generation |-> target[d], operation |-> opId[d],
                  library |-> candidate[d], writer |-> d]

\* The objects at the path this publication writes to.
AtPath(d) ==
    {object \in snapshots : object.generation = target[d] /\ object.operation = opId[d]}

\* Mutant of TornLeftovers: an object already at the path is taken as it is.
NoLeftovers(d) == {}

\* An object at the path is an earlier attempt's of the same operation; with
\* other bytes it is in the way.
TornLeftovers(d) == {object \in AtPath(d) : object.library # candidate[d]}

\* ensure_snapshot_object deletes a leftover ...
DeleteLeftover(d) ==
    /\ pc[d] = "upload" /\ TornLeftovers(d) # {}
    /\ snapshots' = snapshots \ TornLeftovers(d)
    /\ UNCHANGED <<manifest, revision, inFlight, history, copyVars, stateVars, opVars, pc,
                   sessionVars, boundVars>>

\* ... and writes the candidate, unless its bytes are there already.
UploadSnapshot(d) ==
    /\ pc[d] = "upload" /\ TornLeftovers(d) = {}
    /\ snapshots' = IF AtPath(d) # {} THEN snapshots
                    ELSE snapshots \cup {[generation |-> target[d], operation |-> opId[d],
                                          library |-> candidate[d]]}
    /\ Goto(d, "commit")
    /\ UNCHANGED <<manifest, revision, inFlight, history, copyVars, stateVars, opVars,
                   sessionVars, boundVars>>

\* Mutant of CanReplace: the conditional replace degrades to an unconditional one.
AlwaysReplace(expects) == TRUE

\* The compare and swap: conditional_replace on the revision read, or
\* write_new when there was no manifest.
CanReplace(expects) == revision = expects

CommitManifest(d) ==
    /\ pc[d] = "commit"
    /\ \/ /\ CanReplace(seenRev[d])
          /\ ReplaceManifest(Committing(d))
          /\ seenRev' = [seenRev EXCEPT ![d] = revision + 1]
          /\ Goto(d, "verify")
       \/ /\ ~CanReplace(seenRev[d])       \* lost the race: observe again
          /\ Goto(d, "restat")
          /\ UNCHANGED <<manifest, revision, history, seenRev>>
    /\ UNCHANGED <<snapshots, inFlight, copyVars, stateVars, opVars, seen, probe,
                   rebases, candidate, rebased, target, boundVars>>

\* verify_committed_manifest: anything but the manifest just written is an
\* integrity failure, which no retry follows.
VerifyManifest(d) ==
    /\ pc[d] = "verify"
    /\ \/ /\ manifest = Committing(d)
          /\ Goto(d, "retain")
          /\ UNCHANGED <<opState, localState>>
       \/ /\ manifest # Committing(d)
          /\ Fail(d, "failed", "dirty")
    /\ UNCHANGED <<remoteVars, copyVars, committed, baseId, baseline, opId, expected,
                   whole, approval, conflict, newer, newerWhole, sessionVars, boundVars>>

\* The manifest already names this operation: an earlier attempt committed it
\* and never learned.  It is accepted when the working copy still holds the
\* committed library, or when the committed library carries every local
\* change since the base; otherwise the working copy moved on.
AcceptIdentical(d) ==
    /\ seen[d].library = working[d]
    /\ rebased' = [rebased EXCEPT ![d] = FALSE]
    /\ Goto(d, "retain")
    /\ UNCHANGED <<opState, localState>>

AcceptCarried(d) ==
    /\ seen[d].library # working[d]
    /\ HasVerifiedBase(d) /\ SnapshotIntact(seen[d])
    /\ CarriesLocalChanges(baseId[d], seen[d].library, working[d])
    /\ rebased' = [rebased EXCEPT ![d] = TRUE]
    /\ Goto(d, "retain")
    /\ UNCHANGED <<opState, localState>>

AcceptCorrupt(d) ==
    /\ seen[d].library # working[d]
    /\ HasVerifiedBase(d) /\ ~SnapshotIntact(seen[d])
    /\ Fail(d, "failed", "dirty")
    /\ UNCHANGED rebased

RefuseAccepted(d) ==
    /\ seen[d].library # working[d]
    /\ \/ ~HasVerifiedBase(d)
       \/ /\ SnapshotIntact(seen[d])
          /\ ~CarriesLocalChanges(baseId[d], seen[d].library, working[d])
    /\ Fail(d, "conflicted", "conflicted")
    /\ UNCHANGED rebased

ResolveAccepted(d) ==
    /\ pc[d] = "accepted"
    /\ candidate' = [candidate EXCEPT ![d] = seen[d].library]
    /\ target'    = [target EXCEPT ![d] = seen[d].generation]
    /\ AcceptIdentical(d) \/ AcceptCarried(d) \/ AcceptCorrupt(d) \/ RefuseAccepted(d)
    /\ UNCHANGED <<remoteVars, copyVars, committed, baseId, baseline, opId, expected,
                   whole, approval, conflict, newer, newerWhole, seen, seenRev, probe,
                   rebases, boundVars>>

-----------------------------------------------------------------------------
(* Finishing a commit                                                      *)

RetainBase(d) ==
    /\ pc[d] = "retain"
    /\ bases' = [bases EXCEPT ![d] = Retained(@, target[d], candidate[d])]
    /\ Goto(d, IF rebased[d] THEN "install" ELSE "record")
    /\ UNCHANGED <<remoteVars, working, edited, stateVars, opVars, sessionVars, boundVars>>

InstallWorkingCopy(d) ==
    /\ pc[d] = "install"
    /\ working' = [working EXCEPT ![d] = candidate[d]]
    /\ Goto(d, "record")
    /\ UNCHANGED <<remoteVars, bases, edited, stateVars, opVars, sessionVars, boundVars>>

\* record_completed: operation and repository state in one transaction.  No
\* younger operation can exist, the commit lock kept mutations out.
RecordCompleted(d) ==
    /\ pc[d] = "record"
    /\ opState'    = [opState EXCEPT ![d] = "none"]
    /\ committed'  = [committed EXCEPT ![d] = target[d]]
    /\ baseId'     = [baseId EXCEPT ![d] = candidate[d]]
    /\ localState' = [localState EXCEPT ![d] =
            IF working[d] = candidate[d] THEN "clean" ELSE "dirty"]
    /\ edited'     = [edited EXCEPT ![d] = {}]
    /\ Goto(d, "prune")
    /\ UNCHANGED <<remoteVars, working, bases, baseline, opId, expected, whole, approval,
                   conflict, newer, newerWhole, sessionVars, boundVars>>

\* Only now may the base a retry would have needed go.
PruneBases(d) ==
    /\ pc[d] \in {"prune", "pullPrune", "usePrune"}
    /\ bases' = [bases EXCEPT ![d] = Pruned(@, committed[d])]
    /\ Goto(d, CASE pc[d] = "prune"     -> "baseline"
                 [] pc[d] = "pullPrune" -> "pullBaseline"
                 [] pc[d] = "usePrune"  -> "idle")
    /\ UNCHANGED <<remoteVars, working, edited, stateVars, opVars, sessionVars, boundVars>>

\* The committed revision becomes the Remote Revision of the config.
SaveRevision(d) ==
    /\ pc[d] = "baseline"
    /\ baseline' = [baseline EXCEPT ![d] = seenRev[d]]
    /\ Goto(d, "idle")
    /\ UNCHANGED <<remoteVars, copyVars, committed, baseId, localState, opVars,
                   sessionVars, boundVars>>

-----------------------------------------------------------------------------
(* Resolving a Pre-Publish Conflict                                        *)

\* Only a repository whose active operation is conflicted can be resolved.
Resolvable(d) ==
    pc[d] = "idle" /\ localState[d] = "conflicted" /\ opState[d] = "conflicted"

\* Keep Local: what the user saw becomes the approval, and the same operation
\* runs again against its original base.
KeepLocal(d) ==
    /\ Resolvable(d)
    /\ approval' = [approval EXCEPT ![d] = conflict[d]]
    /\ conflict' = [conflict EXCEPT ![d] = Stop]
    /\ opState'  = [opState EXCEPT ![d] = "running"]
    /\ rebases'  = [rebases EXCEPT ![d] = 0]
    /\ Goto(d, "stat")
    /\ UNCHANGED <<remoteVars, copyVars, stateVars, opId, expected, whole, newer,
                   newerWhole, seen, seenRev, probe, candidate, rebased, target, boundVars>>

\* Use Remote pulls and verifies the remote snapshot, retains it as a base ...
UseRemotePull(d) ==
    /\ Resolvable(d)
    /\ manifest.generation > 0 /\ SnapshotIntact(manifest)
    /\ seen'  = [seen EXCEPT ![d] = manifest]
    /\ bases' = [bases EXCEPT ![d] = Retained(@, manifest.generation, manifest.library)]
    /\ Goto(d, "useCancel")
    /\ UNCHANGED <<remoteVars, working, edited, stateVars, opVars, seenRev, probe, rebases,
                   candidate, rebased, target, boundVars>>

\* ... cancels the operation ...
UseRemoteCancel(d) ==
    /\ pc[d] = "useCancel"
    /\ opState' = [opState EXCEPT ![d] = "cancelled"]
    /\ Goto(d, "useCopy")
    /\ UNCHANGED <<remoteVars, copyVars, stateVars, opId, expected, whole, approval,
                   conflict, newer, newerWhole, sessionVars, boundVars>>

\* ... replaces the working database ...
UseRemoteCopy(d) ==
    /\ pc[d] = "useCopy"
    /\ working' = [working EXCEPT ![d] = seen[d].library]
    /\ edited'  = [edited EXCEPT ![d] = {}]
    /\ Goto(d, "useRecord")
    /\ UNCHANGED <<remoteVars, bases, stateVars, opVars, sessionVars, boundVars>>

\* ... and records the generation it now holds; pruning follows.
UseRemoteRecord(d) ==
    /\ pc[d] = "useRecord"
    /\ committed'  = [committed EXCEPT ![d] = seen[d].generation]
    /\ baseId'     = [baseId EXCEPT ![d] = seen[d].library]
    /\ localState' = [localState EXCEPT ![d] = "clean"]
    /\ Goto(d, "usePrune")
    /\ UNCHANGED <<remoteVars, copyVars, baseline, opVars, sessionVars, boundVars>>

-----------------------------------------------------------------------------
(* Refreshing a clean working copy                                         *)

\* The probed revision differs from the stored one and the policy lets the
\* clean copy be replaced: plan from the manifest.
PlanRefresh(d) ==
    /\ pc[d] = "idle" /\ localState[d] = "clean"
    /\ revision > 0 /\ revision # baseline[d]
    /\ seen' = [seen EXCEPT ![d] = manifest]
    /\ Goto(d, "pull")
    /\ UNCHANGED <<remoteVars, copyVars, stateVars, opVars, seenRev, probe, rebases,
                   candidate, rebased, target, boundVars>>

\* Download, verify and swap in the snapshot; a failed pull keeps the copy.
PullSnapshot(d) ==
    /\ pc[d] = "pull"
    /\ \/ /\ SnapshotIntact(seen[d])
          /\ working' = [working EXCEPT ![d] = seen[d].library]
          /\ Goto(d, "pulled")
       \/ /\ ~SnapshotIntact(seen[d])
          /\ Goto(d, "idle")
          /\ UNCHANGED working
    /\ UNCHANGED <<remoteVars, bases, edited, stateVars, opVars, sessionVars, boundVars>>

RetainPulledBase(d) ==
    /\ pc[d] = "pulled"
    /\ bases' = [bases EXCEPT ![d] = Retained(@, seen[d].generation, working[d])]
    /\ Goto(d, "pullRecord")
    /\ UNCHANGED <<remoteVars, working, edited, stateVars, opVars, sessionVars, boundVars>>

\* update_repository_state_after_pull.
RecordPull(d) ==
    /\ pc[d] = "pullRecord"
    /\ committed'  = [committed EXCEPT ![d] = seen[d].generation]
    /\ baseId'     = [baseId EXCEPT ![d] = working[d]]
    /\ localState' = [localState EXCEPT ![d] = "clean"]
    /\ Goto(d, "pullPrune")
    /\ UNCHANGED <<remoteVars, copyVars, baseline, opVars, sessionVars, boundVars>>

\* The stored Remote Revision is asked for once more, after the pull.
SavePulledRevision(d) ==
    /\ pc[d] = "pullBaseline"
    /\ baseline' = [baseline EXCEPT ![d] = revision]
    /\ Goto(d, "idle")
    /\ UNCHANGED <<remoteVars, copyVars, committed, baseId, localState, opVars,
                   sessionVars, boundVars>>

-----------------------------------------------------------------------------
(* Faults                                                                  *)

Fault(kind) ==
    /\ kind \in FaultKinds /\ faults < MaxFaults
    /\ faults' = faults + 1

\* An operation found running after a restart, or stopped by a lost
\* connection, waits for a retry; its edits keep the repository dirty.
SessionEnds(d) ==
    /\ IF opState[d] = "running"
       THEN Fail(d, "retryWait", "dirty")
       ELSE Goto(d, "idle") /\ UNCHANGED <<opState, localState>>
    /\ UNCHANGED <<copyVars, committed, baseId, baseline, opId, expected, whole, approval,
                   conflict, newer, newerWhole, sessionVars, operations>>

\* The process crashes between any two steps, or a request fails for good.
\* After a crash within an edit the startup pass takes the projection up again
\* (MutationOutbox).
Interrupt(d) ==
    /\ pc[d] \notin {"idle"} \cup EditSteps
    /\ Fault("interruption")
    /\ SessionEnds(d)
    /\ UNCHANGED remoteVars

\* The client gives up on its manifest request while the request is on its
\* way; the server processes it later.
DelayCommit(d) ==
    /\ pc[d] = "commit"
    /\ Fault("delay")
    /\ inFlight' = inFlight \cup {[expects |-> seenRev[d], manifest |-> Committing(d)]}
    /\ SessionEnds(d)
    /\ UNCHANGED <<manifest, revision, snapshots, history>>

ProcessDelayedCommit ==
    /\ \E request \in inFlight :
          /\ inFlight' = inFlight \ {request}
          /\ \/ CanReplace(request.expects) /\ ReplaceManifest(request.manifest)
             \/ /\ ~CanReplace(request.expects)
                /\ UNCHANGED <<manifest, revision, history>>
    /\ UNCHANGED <<snapshots, copyVars, stateVars, opVars, pc, sessionVars, boundVars>>

\* Somebody puts an older manifest back, with the object it names.
RestoreBackup ==
    /\ Fault("restore")
    /\ \E past \in 1..Len(history) :
          /\ history[past].generation < manifest.generation
          /\ SnapshotIntact(history[past])
          /\ ReplaceManifest(history[past])
    /\ UNCHANGED <<snapshots, inFlight, copyVars, stateVars, opVars, pc, sessionVars,
                   operations>>

-----------------------------------------------------------------------------
\* What the user does, with the second half of an edit.
UserStep(d) ==
    Edit(d) \/ ProjectEdit(d) \/ Republish(d) \/ KeepLocal(d) \/ UseRemotePull(d)

PublishStep(d) ==
    \/ StartPublish(d) \/ StatManifest(d) \/ ReadManifest(d) \/ BuildCandidate(d)
    \/ DeleteLeftover(d) \/ UploadSnapshot(d) \/ CommitManifest(d) \/ VerifyManifest(d)
    \/ ResolveAccepted(d) \/ RetainBase(d) \/ InstallWorkingCopy(d) \/ RecordCompleted(d)
    \/ PruneBases(d) \/ SaveRevision(d)

UseRemoteStep(d) == UseRemoteCancel(d) \/ UseRemoteCopy(d) \/ UseRemoteRecord(d)

RefreshStep(d) ==
    \/ PlanRefresh(d) \/ PullSnapshot(d) \/ RetainPulledBase(d) \/ RecordPull(d)
    \/ SavePulledRevision(d)

DeviceStep(d) == PublishStep(d) \/ UseRemoteStep(d) \/ RefreshStep(d)

FaultStep(d) == Interrupt(d) \/ DelayCommit(d)

Next ==
    \/ \E d \in Device : UserStep(d) \/ DeviceStep(d) \/ FaultStep(d)
    \/ ProcessDelayedCommit
    \/ RestoreBackup

Spec == Init /\ [][Next]_vars

\* The durable publish executor polls, and an edit, publication or refresh that
\* runs is not abandoned; the user and the faults owe nothing.
FairSpec == Spec /\ \A d \in Device : WF_vars(ProjectEdit(d) \/ DeviceStep(d))

-----------------------------------------------------------------------------
(* What the repository owes its devices                                    *)

\* ADR 0018: the manifest is the only commit point and every failure before it
\* leaves the previous generation consistent.  A manifest names an object that
\* exists with the digest it gives, whatever was interrupted.
ManifestIsBacked == manifest.generation > 0 => SnapshotIntact(manifest)

\* The library this device knows to be the remote's at its base generation is
\* what that generation published: a rebase never starts from anything else.
BaseIsPublished ==
    \A d \in Device : committed[d] > 0 =>
        \E past \in 1..Len(history) :
            /\ history[past].generation = committed[d]
            /\ history[past].library = baseId[d]

\* ADR 0045: a crash at any step of a commit leaves a base the retry can
\* verify.  The base of the recorded generation is always retained.
BaseIsRetained ==
    \A d \in Device : committed[d] > 0 =>
        [generation |-> committed[d], library |-> baseId[d]] \in bases[d]

\* What a rebase will publish as this device's changes - the rows that differ
\* from the base - is what its user edited since the last publication, or what
\* an interrupted installation or refresh already brought in from a generation
\* after the base.
LocalChangesAreExplained ==
    \A d \in Device : committed[d] > 0 =>
        \A key \in ChangedKeys(baseId[d], working[d]) :
            \/ key \in edited[d]
            \/ \E past \in 1..Len(history) :
                  /\ history[past].generation > committed[d]
                  /\ history[past].library[key] = working[d][key]

\* What another device combined is never refused for its rows: neither what is
\* published nor what a device works on breaks a uniqueness or a foreign key
\* constraint, which every reader of a snapshot checks before it installs it.
LibrariesAreValid ==
    Valid(manifest.library) /\ \A d \in Device : Valid(working[d])

\* The manifest is only ever replaced by its successor.
GenerationsAreConsecutive ==
    [][manifest' # manifest => manifest'.generation = manifest.generation + 1]_vars

\* The user kept this device's rows of `key' for a conflict found at exactly
\* the generation the manifest has.
UserConsents(d, key) ==
    /\ approval[d].generation = manifest.generation
    /\ Approves(approval[d], key)

Commits(d) == pc[d] = "commit" /\ pc'[d] = "verify"

\* "OpenKara never overwrites another device silently": a commit changes a row
\* of the manifest it replaces only where that row is still the base's, or
\* where the user kept this device's rows for a conflict found at exactly the
\* generation being replaced.
NoSilentOverwrite ==
    [][\A d \in Device : Commits(d) =>
        \A key \in ChangedKeys(manifest.library, manifest'.library) :
            \/ manifest.generation = 0
            \/ committed[d] > 0 /\ manifest.library[key] = baseId[d][key]
            \/ UserConsents(d, key)]_vars

\* Installing the merged snapshot keeps every row this device changed since
\* its base.
InstallKeepsLocalChanges ==
    [][\A d \in Device : pc[d] = "install" /\ pc'[d] = "record" =>
        \A key \in Keys :
            \/ working'[d][key] = working[d][key]
            \/ committed[d] > 0 /\ working[d][key] = baseId[d][key]]_vars

\* A Pre-Publish Conflict over songs accuses the user only of songs edited on
\* this device since its last recorded publication.
ConflictsNameOwnEdits ==
    \A d \in Device : opState[d] = "conflicted" /\ ~conflict[d].whole =>
        conflict[d].songs \subseteq edited[d]

\* The repository implements the linear history of SharedLibrary.
Shared == INSTANCE SharedLibrary WITH
    published <- [past \in 1..Len(history) |-> history[past].library],
    basis     <- committed,
    consent   <- approval

ImplementsSharedLibrary == Shared!Spec

-----------------------------------------------------------------------------
(* What eventually happens                                                 *)

Unpublished(d) == opState[d] \in {"pending", "retryWait", "running"}

\* An edit is published, or the user hears why not.
PublicationsSettle ==
    \A d \in Device : Unpublished(d) ~> ~Unpublished(d)

-----------------------------------------------------------------------------
(* What the documentation says and the code does not do                    *)

\* The library this device last committed, known to it or not, or else the
\* one it builds on.
LastContributed(d) ==
    LET own == {past \in 1..Len(history) :
                    history[past].writer = d /\ history[past].generation > committed[d]}
    IN  IF own = {} THEN baseId[d]
        ELSE history[CHOOSE past \in own : \A other \in own : other <= past].library

\* The same promise as NoSilentOverwrite, judged against what this device
\* itself contributed: a row another device changed after this device's own
\* commit is not changed back.
NoSilentRevert ==
    [][\A d \in Device : Commits(d) /\ committed[d] > 0 =>
        \A key \in ChangedKeys(manifest.library, manifest'.library) :
            \/ manifest.library[key] = LastContributed(d)[key]
            \/ UserConsents(d, key)]_vars

\* A row the user changed after this device's own commit is not replaced when
\* the merged snapshot is installed.
InstallKeepsNewerEdits ==
    [][\A d \in Device : pc[d] = "install" /\ pc'[d] = "record" /\ committed[d] > 0 =>
        \A key \in Keys :
            \/ working'[d][key] = working[d][key]
            \/ working[d][key] = LastContributed(d)[key]]_vars

\* A permanent integrity failure means that bytes are corrupt somewhere.
FailureMeansCorruption ==
    \A d \in Device : opState[d] = "failed" =>
        \E past \in 1..Len(history) : ~SnapshotIntact(history[past])

\* A clean working copy whose recorded Remote Revision is the current one holds
\* the current generation.
RecordedRevisionIsInstalled ==
    \A d \in Device :
        (/\ pc[d] = "idle" /\ localState[d] = "clean"
         /\ revision > 0 /\ baseline[d] = revision)
            => working[d] = manifest.library
=============================================================================
