--------------------------- MODULE MutationOutbox ---------------------------
(***************************************************************************)
(* The transactional outbox of one library with a remote repository: how   *)
(* an edit of the local working copy becomes a publish operation.          *)
(*                                                                         *)
(* A mutation (remote/mutation.rs) commits its rows and an outbox row in   *)
(* one transaction of the library database, and then projects the outbox   *)
(* row into the control database (remote/control_db.rs), where it makes    *)
(* the operation pending and the repository dirty.  Two databases cannot   *)
(* commit together, so the module follows every step between them, a crash *)
(* at any of them, and the startup pass that repairs what is left          *)
(* (remote/startup.rs, remote/recovery.rs).  Beside the mutation run the   *)
(* publisher, which like the mutation holds the commit lock of the         *)
(* library, and the refresh (remote/lifecycle.rs), which holds only the    *)
(* mutex of the control connection.                                        *)
(*                                                                         *)
(* Rows are reduced to the set of edits they contain, a digest of a        *)
(* database file to a number that every write of the file changes.  How a  *)
(* publication reads, rebases and verifies the manifest is the subject of  *)
(* PublishChanges; here it commits, conflicts or fails.  A publication can *)
(* also be asked for outright, on a repository that is clean               *)
(* (remote/sync/publish.rs), and a conflict is settled by keeping the      *)
(* local changes or by taking the remote ones (remote/sync/conflict.rs).   *)
(***************************************************************************)
EXTENDS Naturals

CONSTANTS
    MaxEdits,       \* bound: mutations and publications asked for outright
    MaxGeneration,  \* bound: generations after which other devices stop
    MaxFaults,      \* bound: crashes, and failed steps of the running program
    MaxAnswers      \* bound: conflicts that the user settles

ASSUME LimitsAssumption ==
    /\ MaxEdits \in Nat /\ MaxGeneration \in Nat /\ MaxFaults \in Nat
    /\ MaxAnswers \in Nat

VARIABLES
    edits,          \* edits whose rows the working copy holds
    outbox,         \* edits with a row in remote_publish_outbox
    digest,         \* digest of the library database file
    opened,         \* the mutation's connection is open on that very file
    remote,         \* the committed snapshot of the repository
    stamp,          \* the last digest given to a file
    state,          \* operation_state of each edit's operation
    scope,          \* the edits its payload names the songs of
    expected,       \* expected_generation
    source,         \* source_db_digest
    target,         \* target_generation
    sealed,         \* candidate_db_digest
    local,          \* local_state of the repository
    committed,      \* committed_generation
    step,           \* how far the mutation is
    current,        \* its operation
    scoped,         \* its songs are known before it runs
    pull,           \* who is replacing the working copy, and how far it is
    pulled,         \* the snapshot being pulled
    publisher,      \* how far the publication is
    primary,        \* the operation it publishes
    candidate,      \* the snapshot it commits
    rebased,        \* the candidate was rebased onto a newer snapshot
    phase,          \* up, or the part of the startup pass
    visited,        \* outbox rows this startup pass has dealt with
    faults,         \* how many of these there have been
    answers,        \* how many conflicts the user has settled
    (* history, read by the properties only *)
    made,           \* edits whose transaction has committed
    overwritten,    \* edits a pull replaced while only an outbox row, or a
                    \* conflict of a clean repository, spoke for them
    discarded       \* edits the user gave up for the remote side of a conflict

copyVars      == <<edits, outbox, digest, opened>>
operationVars == <<state, scope, expected, source, target, sealed>>
repoVars      == <<local, committed>>
mutationVars  == <<step, current, scoped>>
pullVars      == <<pull, pulled>>
publishVars   == <<publisher, primary, candidate, rebased>>
startupVars   == <<phase, visited>>
historyVars   == <<made, overwritten, discarded>>
vars == <<copyVars, remote, stamp, operationVars, repoVars, mutationVars, pullVars,
          publishVars, startupVars, faults, answers, historyVars>>

Ops == 1..MaxEdits

Terminal     == {"completed", "failed", "conflicted", "cancelled"}
Mergeable    == {"pending", "retryWait"}
OpStates     == {"none", "prepared", "running"} \cup Mergeable \cup Terminal
LocalStates  == {"clean", "dirty", "publishing", "conflicted", "reauthRequired"}

\* A pull before and after the file is replaced, by whom.
Pulling      == {"refresh", "prepare", "publish"}
Replaced     == {"refreshRecord", "prepareRecord", "publishRecord"}
RecordOf(by) == CASE by = "refresh" -> "refreshRecord"
                  [] by = "prepare" -> "prepareRecord"
                  [] OTHER          -> "publishRecord"

\* A publication whose operation runs.
Publishing   == {"commit", "install", "record"}

Snapshot     == [generation : Nat, operation : Ops \cup {0}, edits : SUBSET Ops, digest : Nat]

TypeOK ==
    /\ edits \subseteq Ops /\ outbox \subseteq Ops /\ digest \in Nat /\ opened \in BOOLEAN
    /\ remote \in Snapshot /\ stamp \in Nat
    /\ state \in [Ops -> OpStates] /\ scope \in [Ops -> SUBSET Ops]
    /\ expected \in [Ops -> Nat] /\ source \in [Ops -> Nat]
    /\ target \in [Ops -> Nat] /\ sealed \in [Ops -> Nat]
    /\ local \in LocalStates /\ committed \in Nat
    /\ step \in {"idle", "prepare", "digest", "expect", "record", "open", "commit",
                 "cancel", "project", "delete"}
    /\ current \in Ops \cup {0} /\ (step # "idle" => current \in Ops)
    /\ scoped \in BOOLEAN
    /\ pull \in {"none"} \cup Pulling \cup Replaced
    /\ pulled \in Snapshot
    /\ publisher \in {"idle", "prepare", "merge", "replace", "settle"} \cup Publishing
    /\ primary \in Ops \cup {0} /\ (publisher # "idle" => primary \in Ops)
    /\ candidate \in Snapshot /\ rebased \in BOOLEAN
    /\ phase \in {"up", "project", "resolve", "repair"} /\ visited \subseteq Ops
    /\ faults \in Nat /\ answers \in Nat
    /\ made \subseteq Ops /\ overwritten \subseteq Ops /\ discarded \subseteq Ops

FirstSnapshot == [generation |-> 1, operation |-> 0, edits |-> {}, digest |-> 1]

\* A working copy just pulled.
Init ==
    /\ edits = {} /\ outbox = {} /\ digest = 1 /\ opened = FALSE
    /\ remote = FirstSnapshot /\ stamp = 1
    /\ state = [i \in Ops |-> "none"] /\ scope = [i \in Ops |-> {}]
    /\ expected = [i \in Ops |-> 0] /\ source = [i \in Ops |-> 0]
    /\ target = [i \in Ops |-> 0] /\ sealed = [i \in Ops |-> 0]
    /\ local = "clean" /\ committed = 1
    /\ step = "idle" /\ current = 0 /\ scoped = FALSE
    /\ pull = "none" /\ pulled = FirstSnapshot
    /\ publisher = "idle" /\ primary = 0 /\ candidate = FirstSnapshot /\ rebased = FALSE
    /\ phase = "up" /\ visited = {}
    /\ faults = 0 /\ answers = 0
    /\ made = {} /\ overwritten = {} /\ discarded = {}

-----------------------------------------------------------------------------
(* Locks and rows                                                          *)

\* The per-library commit lock: a mutation or a publication holds it.
CommitLockFree == step = "idle" /\ publisher = "idle"

\* The mutex of the control connection: whoever pulls, or replaces the working
\* copy to settle a conflict, holds it throughout.
ControlFree == pull = "none" /\ publisher \notin {"replace", "settle"}

\* The next operation to get a row.
Fresh(i) ==
    LET Taken(j) == state[j] # "none" \/ (step # "idle" /\ j = current)
    IN  ~Taken(i) /\ \A j \in Ops : j < i => Taken(j)

Outstanding == {i \in Ops : state[i] \notin Terminal \cup {"none"}}

\* A step that the environment makes fail.
Fault ==
    /\ faults < MaxFaults
    /\ faults' = faults + 1

\* The library database file is written.
WriteCopy(rows, queued) ==
    /\ edits'  = rows
    /\ outbox' = queued
    /\ digest' = stamp + 1
    /\ stamp'  = stamp + 1

\* Mutant of Bind: whether the operation has ended is not asked.
BindAny(i) ==
    /\ state' = [state EXCEPT ![i] = "pending"]
    /\ scope' = [scope EXCEPT ![i] = {i}]
    /\ local' = "dirty"

\* bind_scope_mark_pending_and_dirty_tx: the operation gets its scope and is
\* pending, and the repository is dirty, in one transaction.
Bind(i) ==
    /\ state[i] \notin Terminal
    /\ state' = [state EXCEPT ![i] = "pending"]
    /\ scope' = [scope EXCEPT ![i] = {i}]
    /\ local' = "dirty"

-----------------------------------------------------------------------------
(* A mutation: with_serialized_remote_mutation, mutate_with_atomic_outbox  *)

\* The mutation takes the commit lock; it may know its songs beforehand.
Begin ==
    /\ phase = "up" /\ CommitLockFree
    /\ \E i \in Ops : Fresh(i) /\ current' = i
    /\ scoped' \in BOOLEAN
    /\ step' = "prepare"
    /\ UNCHANGED <<copyVars, remote, stamp, operationVars, repoVars, pullVars, publishVars,
                   startupVars, faults, answers, historyVars>>

\* Mutant of StartPull: any working copy is pulled over.
PullAnyCopy(by) ==
    /\ ControlFree /\ remote.generation # committed
    /\ pull' = by
    /\ pulled' = remote

\* A pull starts only from a clean working copy and a remote that moved.
StartPull(by) ==
    /\ ControlFree /\ local = "clean" /\ remote.generation # committed
    /\ pull' = by
    /\ pulled' = remote

\* prepare_for_library brings a clean working copy up to date first ...
PrepareByPulling ==
    /\ step = "prepare"
    /\ StartPull("prepare")
    /\ UNCHANGED <<copyVars, remote, stamp, operationVars, repoVars, mutationVars,
                   publishVars, startupVars, faults, answers, historyVars>>

\* ... and leaves any other alone.
Prepare ==
    /\ step = "prepare" /\ ControlFree
    /\ local # "clean" \/ remote.generation = committed
    /\ step' = "digest"
    /\ UNCHANGED <<copyVars, remote, stamp, operationVars, repoVars, current, scoped,
                   pullVars, publishVars, startupVars, faults, answers, historyVars>>

\* The file is hashed with neither mutex held ...
TakeDigest ==
    /\ step = "digest"
    /\ source' = [source EXCEPT ![current] = digest]
    /\ step' = "expect"
    /\ UNCHANGED <<copyVars, remote, stamp, state, scope, expected, target, sealed, repoVars,
                   current, scoped, pullVars, publishVars, startupVars, faults, answers,
                   historyVars>>

\* ... the generation is read under the control mutex ...
ReadExpected ==
    /\ step = "expect" /\ ControlFree
    /\ expected' = [expected EXCEPT ![current] = committed]
    /\ step' = "record"
    /\ UNCHANGED <<copyVars, remote, stamp, state, scope, source, target, sealed, repoVars,
                   current, scoped, pullVars, publishVars, startupVars, faults, answers,
                   historyVars>>

\* ... and the row is written under it once more.
RecordPrepared ==
    /\ step = "record" /\ ControlFree
    /\ state' = [state EXCEPT ![current] = "prepared"]
    /\ scope' = [scope EXCEPT ![current] = IF scoped THEN {current} ELSE {}]
    /\ step' = "open"
    /\ UNCHANGED <<copyVars, remote, stamp, expected, source, target, sealed, repoVars,
                   current, scoped, pullVars, publishVars, startupVars, faults, answers,
                   historyVars>>

OpenCopy ==
    /\ step = "open"
    /\ opened' = TRUE
    /\ step' = "commit"
    /\ UNCHANGED <<edits, outbox, digest, remote, stamp, operationVars, repoVars, current,
                   scoped, pullVars, publishVars, startupVars, faults, answers, historyVars>>

\* Rows and outbox row in one transaction.  A connection whose file a pull
\* has replaced meanwhile commits to the replaced file.
CommitEdit ==
    /\ step = "commit"
    /\ made' = made \cup {current}
    /\ \/ /\ opened
          /\ WriteCopy(edits \cup {current}, outbox \cup {current})
          /\ UNCHANGED overwritten
       \/ /\ ~opened
          /\ overwritten' = overwritten \cup {current}
          /\ UNCHANGED <<edits, outbox, digest, stamp>>
    /\ opened' = FALSE
    /\ step' = "project"
    /\ UNCHANGED <<remote, operationVars, repoVars, current, scoped, pullVars, publishVars,
                   startupVars, faults, answers, discarded>>

\* A mutation that changed no song commits without an outbox row ...
CommitNothing ==
    /\ step = "commit"
    /\ opened' = FALSE
    /\ step' = "cancel"
    /\ UNCHANGED <<edits, outbox, digest, remote, stamp, operationVars, repoVars, current,
                   scoped, pullVars, publishVars, startupVars, faults, answers, historyVars>>

\* ... and cancels its operation.
CancelPrepared ==
    /\ step = "cancel" /\ ControlFree
    /\ state' = [state EXCEPT ![current] = "cancelled"]
    /\ step' = "idle"
    /\ UNCHANGED <<copyVars, remote, stamp, scope, expected, source, target, sealed,
                   repoVars, current, scoped, pullVars, publishVars, startupVars, faults,
                   answers, historyVars>>

\* project_outbox_to_control_db: the control database first ...
Project ==
    /\ step = "project" /\ ControlFree
    /\ Bind(current)
    /\ step' = "delete"
    /\ UNCHANGED <<copyVars, remote, stamp, expected, source, target, sealed, committed,
                   current, scoped, pullVars, publishVars, startupVars, faults, answers,
                   historyVars>>

\* ... then the outbox row goes, from whatever file is in place.
DeleteOutboxRow ==
    /\ step = "delete"
    /\ \/ current \in outbox /\ WriteCopy(edits, outbox \ {current})
       \/ current \notin outbox /\ UNCHANGED <<edits, outbox, digest, stamp>>
    /\ step' = "idle"
    /\ UNCHANGED <<opened, remote, operationVars, repoVars, current, scoped, pullVars,
                   publishVars, startupVars, faults, answers, historyVars>>

\* Any step may fail: the error goes to the caller, the lock is released and
\* what is on disk stays as it is.
MutationFails ==
    /\ step # "idle" /\ pull \notin {"prepare", "prepareRecord"}
    /\ Fault
    /\ opened' = FALSE
    /\ step' = "idle"
    /\ UNCHANGED <<edits, outbox, digest, remote, stamp, operationVars, repoVars, current,
                   scoped, pullVars, publishVars, startupVars, answers, historyVars>>

-----------------------------------------------------------------------------
(* Refresh, and the pull it shares with the preparation of a mutation      *)

\* RemoteRepositoryLifecycle::refresh does not take the commit lock.
Refresh ==
    /\ phase = "up"
    /\ StartPull("refresh")
    /\ UNCHANGED <<copyVars, remote, stamp, operationVars, repoVars, mutationVars,
                   publishVars, startupVars, faults, answers, historyVars>>

\* The pulled file takes the place of the working copy, which is not looked
\* at again: its outbox rows, and an open connection, stay with the old file.
ReplaceCopy ==
    /\ pull \in Pulling
    /\ pull' = RecordOf(pull)
    /\ overwritten' = overwritten \cup
          {i \in edits \ pulled.edits : i \in outbox \/ state[i] = "conflicted"}
    /\ edits' = pulled.edits /\ outbox' = {} /\ digest' = pulled.digest /\ opened' = FALSE
    /\ UNCHANGED <<remote, stamp, operationVars, repoVars, mutationVars, pulled, publishVars,
                   startupVars, faults, answers, made, discarded>>

\* Where the puller goes on.
PullEnds ==
    /\ pull' = "none"
    /\ step' = IF pull \in {"prepare", "prepareRecord"} THEN "digest" ELSE step
    /\ publisher' = IF pull \in {"publish", "publishRecord"} THEN "merge" ELSE publisher

\* update_repository_state_after_pull.
RecordPull ==
    /\ pull \in Replaced
    /\ local' = "clean"
    /\ committed' = pulled.generation
    /\ PullEnds
    /\ UNCHANGED <<copyVars, remote, stamp, operationVars, current, scoped, pulled, primary,
                   candidate, rebased, startupVars, faults, answers, historyVars>>

\* A failed download leaves the working copy as it is; a mutation or a
\* publication goes on with it.  A failed record is only logged.
PullFails ==
    /\ pull # "none"
    /\ Fault
    /\ PullEnds
    /\ UNCHANGED <<copyVars, remote, stamp, operationVars, repoVars, current, scoped, pulled,
                   primary, candidate, rebased, startupVars, answers, historyVars>>

\* Another device publishes.
OtherDeviceCommits ==
    /\ remote.generation < MaxGeneration
    /\ stamp' = stamp + 1
    /\ remote' = [remote EXCEPT !.generation = @ + 1, !.operation = 0, !.digest = stamp + 1]
    /\ UNCHANGED <<copyVars, operationVars, repoVars, mutationVars, pullVars, publishVars,
                   startupVars, faults, answers, historyVars>>

-----------------------------------------------------------------------------
(* Publication                                                             *)

\* resolve_or_create_publish_operation: the user asks for a publication of
\* some song, edited or not.  The new operation waits at once, under the
\* control mutex only; the repository stays as it is.
Republish(i) ==
    /\ phase = "up" /\ ControlFree /\ Fresh(i)
    /\ state' = [state EXCEPT ![i] = "pending"]
    /\ \E songs \in {{}} \cup {{j} : j \in edits} : scope' = [scope EXCEPT ![i] = songs]
    /\ expected' = [expected EXCEPT ![i] = committed]
    /\ source' = [source EXCEPT ![i] = 0]
    /\ UNCHANGED <<copyVars, remote, stamp, target, sealed, repoVars, mutationVars, pullVars,
                   publishVars, startupVars, faults, answers, historyVars>>

\* publish_song_internal takes the commit lock and, like a mutation, brings a
\* clean working copy up to date first.
PublishByPulling(i) ==
    /\ phase = "up" /\ CommitLockFree /\ state[i] \in Mergeable
    /\ StartPull("publish")
    /\ primary' = i
    /\ publisher' = "prepare"
    /\ UNCHANGED <<copyVars, remote, stamp, operationVars, repoVars, mutationVars, candidate,
                   rebased, startupVars, faults, answers, historyVars>>

\* The working copy without its outbox rows becomes the candidate of operation i.
Freeze(i) ==
    /\ primary' = i
    /\ \E written \in {digest, stamp + 1} :
          /\ written = digest <=> outbox = {}
          /\ stamp' = IF written = digest THEN stamp ELSE written
          /\ candidate' = [generation |-> committed + 1, operation |-> i, edits |-> edits,
                           digest |-> written]
    /\ publisher' = "commit"

\* merge_pending_ops_for_publish folds the waiting operations, never a
\* prepared one, into the survivor i, and the executor runs it.
PublishStart(i) ==
    /\ ControlFree /\ state[i] \in Mergeable
    /\ \/ /\ phase = "up" /\ CommitLockFree
          /\ local # "clean" \/ remote.generation = committed
       \/ publisher = "merge" /\ i = primary
    /\ state' = [j \in Ops |-> IF j = i THEN "running"
                               ELSE IF state[j] \in Mergeable THEN "cancelled" ELSE state[j]]
    /\ scope' = [scope EXCEPT ![i] =
            UNION {scope[j] : j \in {k \in Ops : state[k] \in Mergeable}}]
    /\ expected' = [expected EXCEPT ![i] = committed]
    /\ local' = IF local = "clean" THEN "dirty" ELSE local
    /\ Freeze(i)
    /\ UNCHANGED <<copyVars, remote, source, target, sealed, committed, mutationVars,
                   pullVars, rebased, startupVars, faults, answers, historyVars>>

\* The manifest already names this operation.
OwnCommit == remote.operation = primary /\ remote.generation > expected[primary]

\* The remote has not moved: the candidate becomes the next generation.
PublishUnmoved ==
    /\ publisher = "commit" /\ ~OwnCommit /\ remote.generation = expected[primary]
    /\ remote' = candidate
    /\ rebased' = FALSE
    /\ publisher' = "install"
    /\ UNCHANGED <<copyVars, stamp, operationVars, repoVars, mutationVars, pullVars, primary,
                   candidate, startupVars, faults, answers, historyVars>>

\* The remote moved: the local changes are merged onto the newer snapshot.
PublishRebased ==
    /\ publisher = "commit" /\ ~OwnCommit /\ remote.generation # expected[primary]
    /\ candidate' = [generation |-> remote.generation + 1, operation |-> primary,
                     edits |-> remote.edits \cup candidate.edits, digest |-> stamp + 1]
    /\ stamp' = stamp + 1
    /\ remote' = candidate'
    /\ rebased' = TRUE
    /\ publisher' = "install"
    /\ UNCHANGED <<copyVars, operationVars, repoVars, mutationVars, pullVars, primary,
                   startupVars, faults, answers, historyVars>>

\* Mutant of PublishAccepted: what the earlier attempt committed is not
\* compared with what is to be published now.
AcceptAny ==
    /\ publisher = "commit" /\ OwnCommit
    /\ candidate' = remote
    /\ rebased' = (remote.digest # candidate.digest)
    /\ publisher' = "install"
    /\ UNCHANGED <<copyVars, remote, stamp, operationVars, repoVars, mutationVars, pullVars,
                   primary, startupVars, faults, answers, historyVars>>

\* An earlier attempt committed and was not recorded.
PublishAccepted ==
    /\ publisher = "commit" /\ OwnCommit /\ candidate.edits \subseteq remote.edits
    /\ candidate' = remote
    /\ rebased' = (remote.digest # candidate.digest)
    /\ publisher' = "install"
    /\ UNCHANGED <<copyVars, remote, stamp, operationVars, repoVars, mutationVars, pullVars,
                   primary, startupVars, faults, answers, historyVars>>

\* A rebased snapshot replaces the working copy, which keeps its outbox rows.
InstallCandidate ==
    /\ publisher = "install"
    /\ \/ ~rebased /\ UNCHANGED <<edits, digest, stamp>>
       \/ /\ rebased
          /\ edits' = candidate.edits
          /\ \/ outbox = {} /\ digest' = candidate.digest /\ UNCHANGED stamp
             \/ outbox # {} /\ digest' = stamp + 1 /\ stamp' = stamp + 1
    /\ publisher' = "record"
    /\ UNCHANGED <<outbox, opened, remote, operationVars, repoVars, mutationVars, pullVars,
                   primary, candidate, rebased, startupVars, faults, answers, historyVars>>

\* record_completed: clean only with nothing outstanding and a working copy
\* that still is the committed candidate.
RecordCompleted ==
    /\ publisher = "record"
    /\ state'  = [state EXCEPT ![primary] = "completed"]
    /\ target' = [target EXCEPT ![primary] = candidate.generation]
    /\ sealed' = [sealed EXCEPT ![primary] = candidate.digest]
    /\ committed' = candidate.generation
    /\ local' = IF Outstanding = {primary} /\ digest = candidate.digest
                THEN "clean" ELSE "dirty"
    /\ publisher' = "idle"
    /\ UNCHANGED <<copyVars, remote, stamp, scope, expected, source, mutationVars, pullVars,
                   primary, candidate, rebased, startupVars, faults, answers, historyVars>>

\* Mutant of StopPublishing: the two states are swapped.
StopSwapped(operation, repository) ==
    /\ state' = [state EXCEPT ![primary] = repository]
    /\ local' = operation
    /\ publisher' = "idle"
    /\ UNCHANGED <<copyVars, remote, stamp, scope, expected, source, target, sealed,
                   committed, mutationVars, pullVars, primary, candidate, rebased,
                   startupVars, answers, historyVars>>

\* record_failure.
StopPublishing(operation, repository) ==
    /\ state' = [state EXCEPT ![primary] = operation]
    /\ local' = repository
    /\ publisher' = "idle"
    /\ UNCHANGED <<copyVars, remote, stamp, scope, expected, source, target, sealed,
                   committed, mutationVars, pullVars, primary, candidate, rebased,
                   startupVars, answers, historyVars>>

\* Both sides changed the same song, or the accepted commit lacks an edit.
PublishConflicts ==
    /\ publisher = "commit"
    /\ \/ ~OwnCommit /\ remote.generation # expected[primary]
       \/ OwnCommit /\ ~(candidate.edits \subseteq remote.edits)
    /\ StopPublishing("conflicted", "conflicted")
    /\ UNCHANGED faults

\* A network failure is retried; one of the disk, the permissions or the
\* credentials is not.
PublishFails ==
    /\ publisher \in {"commit", "install"}
    /\ Fault
    /\ \/ StopPublishing("retryWait", "publishing")
       \/ StopPublishing("failed", "dirty")
       \/ StopPublishing("failed", "reauthRequired")

-----------------------------------------------------------------------------
(* Settling a conflict: resolve_active_remote_conflict                     *)

\* The operation the repository is stopped on.
Resolvable ==
    /\ phase = "up" /\ CommitLockFree /\ ControlFree
    /\ local = "conflicted" /\ primary \in Ops /\ state[primary] = "conflicted"

Answer ==
    /\ Resolvable
    /\ answers < MaxAnswers
    /\ answers' = answers + 1

\* Keep Local: the operation waits and runs again at once, alone and against
\* the generation it expected before.
KeepLocal ==
    /\ Answer
    /\ state' = [state EXCEPT ![primary] = "running"]
    /\ Freeze(primary)
    /\ UNCHANGED <<copyVars, remote, scope, expected, source, target, sealed, repoVars,
                   mutationVars, pullVars, rebased, startupVars, faults, historyVars>>

\* Use Remote: conflict_use_remote cancels the operation ...
DiscardLocal ==
    /\ Answer
    /\ state' = [state EXCEPT ![primary] = "cancelled"]
    /\ candidate' = remote
    /\ publisher' = "replace"
    /\ UNCHANGED <<copyVars, remote, stamp, scope, expected, source, target, sealed,
                   repoVars, mutationVars, pullVars, primary, rebased, startupVars, faults,
                   historyVars>>

\* ... copies the pulled snapshot over the working copy ...
ReplaceByRemote ==
    /\ publisher = "replace"
    /\ discarded' = discarded \cup (edits \ candidate.edits)
    /\ edits' = candidate.edits /\ outbox' = {} /\ digest' = candidate.digest
    /\ publisher' = "settle"
    /\ UNCHANGED <<opened, remote, stamp, operationVars, repoVars, mutationVars, pullVars,
                   primary, candidate, rebased, startupVars, faults, answers, made,
                   overwritten>>

\* ... and records it.
RecordRemote ==
    /\ publisher = "settle"
    /\ local' = "clean"
    /\ committed' = candidate.generation
    /\ publisher' = "idle"
    /\ UNCHANGED <<copyVars, remote, stamp, operationVars, mutationVars, pullVars, primary,
                   candidate, rebased, startupVars, faults, answers, historyVars>>

\* An error before the operation runs, or between these steps, goes to the
\* caller; what is on disk stays as it is.
StopShort ==
    /\ publisher \in {"merge", "replace", "settle"}
    /\ Fault
    /\ publisher' = "idle"
    /\ UNCHANGED <<copyVars, remote, stamp, operationVars, repoVars, mutationVars, pullVars,
                   primary, candidate, rebased, startupVars, answers, historyVars>>

-----------------------------------------------------------------------------
(* Crash and startup: recover_control_plane                                *)

Crash ==
    /\ Fault
    /\ phase' = "project" /\ visited' = {}
    /\ step' = "idle" /\ pull' = "none" /\ publisher' = "idle" /\ opened' = FALSE
    /\ UNCHANGED <<edits, outbox, digest, remote, stamp, operationVars, repoVars, current,
                   scoped, pulled, primary, candidate, rebased, answers, historyVars>>

\* project_outbox_row: a row whose operation still waits is projected again;
\* the row then goes, or stays if that write fails.
ProjectRow(i) ==
    /\ phase = "project" /\ i \in outbox \ visited
    /\ Bind(i)
    /\ visited' = visited \cup {i}
    /\ \/ WriteCopy(edits, outbox \ {i})
       \/ UNCHANGED <<edits, outbox, digest, stamp>>
    /\ UNCHANGED <<opened, remote, expected, source, target, sealed, committed, mutationVars,
                   pullVars, publishVars, phase, faults, answers, historyVars>>

\* The control database refuses the projection; the row stays.  One pass meets
\* each row once, so this needs no bound of its own.
ProjectRowFails(i) ==
    /\ phase = "project" /\ i \in outbox \ visited /\ state[i] \notin Terminal
    /\ visited' = visited \cup {i}
    /\ UNCHANGED <<copyVars, remote, stamp, operationVars, repoVars, mutationVars, pullVars,
                   publishVars, phase, faults, answers, historyVars>>

\* residual_outbox_safe_to_drop: a row whose operation has ended goes only if
\* the operation named its songs.
SettleResidualRow(i) ==
    /\ phase = "project" /\ i \in outbox \ visited /\ state[i] \in Terminal
    /\ visited' = visited \cup {i}
    /\ \/ i \in scope[i] /\ WriteCopy(edits, outbox \ {i})
       \/ i \notin scope[i] /\ UNCHANGED <<edits, outbox, digest, stamp>>
    /\ UNCHANGED <<opened, remote, operationVars, repoVars, mutationVars, pullVars,
                   publishVars, phase, faults, answers, historyVars>>

\* Mutant of RecoverInFlight: an interrupted publication stays in flight.
LeaveInFlight ==
    /\ phase = "project" /\ outbox \subseteq visited
    /\ phase' = "resolve"
    /\ UNCHANGED <<copyVars, remote, stamp, operationVars, repoVars, mutationVars, pullVars,
                   publishVars, visited, faults, answers, historyVars>>

\* run_recovery begins: an interrupted publication waits for a retry.
RecoverInFlight ==
    /\ phase = "project" /\ outbox \subseteq visited
    /\ state' = [i \in Ops |-> IF state[i] = "running" THEN "retryWait" ELSE state[i]]
    /\ phase' = "resolve"
    /\ UNCHANGED <<copyVars, remote, stamp, scope, expected, source, target, sealed,
                   repoVars, mutationVars, pullVars, publishVars, visited, faults, answers,
                   historyVars>>

\* resolve_prepared_operation: the state of the operation, and whether the
\* repository becomes dirty.
Resolved(i) ==
    IF expected[i] # committed THEN <<"conflicted", FALSE>>
    ELSE IF digest = source[i] THEN <<"cancelled", FALSE>>
    ELSE IF scope[i] = {}      THEN <<"cancelled", TRUE>>
    ELSE                            <<"pending", TRUE>>

ResolvePrepared(i) ==
    /\ phase = "resolve" /\ state[i] = "prepared"
    /\ state' = [state EXCEPT ![i] = Resolved(i)[1]]
    /\ local' = IF Resolved(i)[2] THEN "dirty" ELSE local
    /\ UNCHANGED <<copyVars, remote, stamp, scope, expected, source, target, sealed,
                   committed, mutationVars, pullVars, publishVars, startupVars, faults,
                   answers, historyVars>>

\* The operation and the repository are two writes; a crash between them
\* starts the pass anew.
ResolveInterrupted(i) ==
    /\ phase = "resolve" /\ state[i] = "prepared" /\ Resolved(i)[2]
    /\ Fault
    /\ state' = [state EXCEPT ![i] = Resolved(i)[1]]
    /\ phase' = "project" /\ visited' = {}
    /\ UNCHANGED <<copyVars, remote, stamp, scope, expected, source, target, sealed,
                   repoVars, mutationVars, pullVars, publishVars, answers, historyVars>>

\* force_dirty_for_active_publish_ops.
ForceDirty ==
    /\ phase = "resolve" /\ \A i \in Ops : state[i] # "prepared"
    /\ local' = IF Outstanding = {} THEN local ELSE "dirty"
    /\ phase' = "repair"
    /\ UNCHANGED <<copyVars, remote, stamp, operationVars, committed, mutationVars, pullVars,
                   publishVars, visited, faults, answers, historyVars>>

\* The completed operations of the newest generation.
Latest == {i \in Ops : /\ state[i] = "completed"
                       /\ \A j \in Ops : state[j] = "completed" => target[j] <= target[i]}

\* repair_completed_repository_state: with nothing outstanding a dirty
\* repository goes back to what the last completed operation committed, and
\* is clean only if the working copy still is that candidate.
Repair ==
    /\ phase = "repair"
    /\ IF local \in {"dirty", "publishing"} /\ Latest # {} /\ Outstanding = {}
       THEN \E i \in Latest :
               /\ committed' = target[i]
               /\ local' = IF digest = sealed[i] THEN "clean" ELSE "dirty"
       ELSE UNCHANGED repoVars
    /\ phase' = "up"
    /\ UNCHANGED <<copyVars, remote, stamp, operationVars, mutationVars, pullVars,
                   publishVars, visited, faults, answers, historyVars>>

-----------------------------------------------------------------------------
MutationStep ==
    \/ PrepareByPulling \/ Prepare \/ TakeDigest \/ ReadExpected \/ RecordPrepared
    \/ OpenCopy \/ CommitEdit \/ CommitNothing \/ CancelPrepared \/ Project
    \/ DeleteOutboxRow

PullStep == ReplaceCopy \/ RecordPull

PublishStep ==
    \/ \E i \in Ops : PublishByPulling(i) \/ PublishStart(i)
    \/ PublishUnmoved \/ PublishRebased \/ PublishAccepted \/ InstallCandidate
    \/ RecordCompleted \/ PublishConflicts
    \/ ReplaceByRemote \/ RecordRemote

UserStep ==
    \/ \E i \in Ops : Republish(i)
    \/ KeepLocal \/ DiscardLocal

StartupStep ==
    \/ \E i \in Ops : ProjectRow(i) \/ SettleResidualRow(i) \/ ResolvePrepared(i)
    \/ RecoverInFlight \/ ForceDirty \/ Repair

FaultStep ==
    \/ MutationFails \/ PullFails \/ PublishFails \/ StopShort \/ Crash
    \/ \E i \in Ops : ProjectRowFails(i) \/ ResolveInterrupted(i)

Next ==
    \/ Begin \/ MutationStep \/ Refresh \/ PullStep \/ OtherDeviceCommits
    \/ PublishStep \/ UserStep \/ StartupStep \/ FaultStep

\* A lock is released as soon as its holder is done, the startup pass runs to
\* its end, and the executor polls for waiting operations.  Nobody has to
\* publish by hand or to settle a conflict.
Spec ==
    /\ Init /\ [][Next]_vars
    /\ WF_vars(MutationStep) /\ WF_vars(PullStep) /\ WF_vars(PublishStep)
    /\ WF_vars(StartupStep)

-----------------------------------------------------------------------------
(* Properties                                                              *)

\* An edit whose transaction committed is never lost silently: it is
\* published, or the user gave it up to settle a conflict, or it is in the
\* working copy with something that speaks for it, an outbox row, a
\* repository that is not clean or an operation that conflicts (mutation.rs,
\* recovery.rs).  The one exception, an edit that a pull of a clean repository
\* replaced, is recorded in overwritten.
EditsAreKept ==
    \A i \in made : \/ i \in remote.edits \/ i \in overwritten \/ i \in discarded
                    \/ /\ i \in edits
                       /\ i \in outbox \/ local # "clean" \/ state[i] = "conflicted"

\* A completed operation tells the user that its songs are published.  So are
\* all edits it was merged with, also when it completed by recognizing the
\* commit of an earlier attempt, which must not "incorrectly complete a larger
\* change set" (publish.rs:1014), unless a pull or the user dropped them.
CompletedMeansPublished ==
    \A i \in Ops : state[i] = "completed" =>
        scope[i] \cap made \subseteq remote.edits \cup overwritten \cup discarded

\* "Terminal states must never be reopened" (control_db.rs:139): whatever is
\* projected, merged, resolved or recorded, an operation that has ended stays
\* as it is, except that the user settles the conflict his repository is
\* stopped on, by running the operation again or by dropping it.
EndedStaysEnded ==
    [][\A i \in Ops : state[i] \in Terminal /\ state'[i] # state[i] =>
          Resolvable /\ i = primary /\ state'[i] \in {"running", "cancelled"}]_vars

\* The operation of an edit, or the one it was merged into, was stopped.
Stopped(i) == \E j \in Ops : i \in scope[j] /\ state[j] \in {"conflicted", "failed"}

\* Its projection failed at startup and its operation was cancelled.
Residual(i) == i \in outbox /\ state[i] \in Terminal /\ i \notin scope[i]

\* The user took the remote side of the conflict it is part of; if that was
\* cut short the repository stays conflicted.
GivenUp(i) ==
    \/ i \in discarded
    \/ local = "conflicted" /\ \E j \in Ops :
          j = primary /\ state[j] = "cancelled" /\ i \in scope[j]

\* An edit that a crash left in the outbox is published in the end, unless
\* its publication conflicts or fails for good, or the user gives it up
\* (startup.rs:143).
RecoveredEditsArePublished ==
    \A i \in Ops : (phase = "project" /\ i \in outbox) ~>
        (i \in remote.edits \/ i \in overwritten \/ GivenUp(i) \/ Stopped(i) \/ Residual(i))

\* "Refresh Repository ... never overwrites a Local Working Copy that is not
\* clean" (lifecycle.rs:106): a refresh replaces no unpublished edit.
RefreshSparesEdits ==
    [][pull = "refresh" /\ pull' = "refreshRecord"
        => edits \subseteq pulled.edits]_vars
=============================================================================
