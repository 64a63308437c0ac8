# Formal models of OpenKara

OpenKara is a desktop karaoke application (Rust/Tauri with a React front end).
This directory holds TLA+ models of the parts of it that are hardest to get right
by testing:

- **Synchronization.** Several devices share one library through a **Remote
  Repository** on storage that offers nothing stronger than a conditional replace
  of one file; and on each device an edit travels through two databases that
  cannot commit together.
- **Playback.** A coordinator thread, an audio callback, load and preload threads
  and a few commands that bypass the coordinator change which song plays.

The models are checked with TLC on small instances; the properties that matter
most are proved with TLAPS for every number of devices, songs, rows, operations,
requests and faults.

Reading order: `Rebase.tla`, `RebaseCases.tla`, `PublishChanges.tla` (with
`SharedLibrary.tla` beside it), `MutationOutbox.tla`, `Playback.tla`, then the
proof modules.

## 1. Inventory

The paths below omit the leading `src/`; `OR` is
`src-tauri/crates/openkara-remote/src`, `APP` is `src-tauri/src`. *Hard* names the
behaviours a test hardly reaches.

### Remote Repository

| Component | State | Operations | Hard | Correct when |
|---|---|---|---|---|
| **Three-way rebase** `OR/rebase.rs` | none (pure over three SQLite snapshots) | `merge_onto_remote`, `carries_local_changes`, `ConflictPolicy` | order of row application, constraints of combined rows, stale approvals | no row of either side is lost without consent; devices converge |
| **Core writer** `OR/writer.rs`, `OR/base.rs` | manifest, its revision token, database objects on the store; retained base files | `publish_changes`, `read_current_manifest`, `commit_candidate`, `resolve_accepted_commit`, `retain_base_snapshot`, `verified_base`, `prune_base_snapshots` | two devices racing for the manifest, lost answers, late requests, crash between any two requests | one linear history; each commit builds on the manifest it replaces |
| **Core reader** `OR/reader.rs` | working copy, part files | manifest and snapshot download and verification | interrupted swaps | a refresh installs only verified, published bytes |
| **Publish executor** `APP/remote/executor.rs` | operation row in the control database | run, `record_completed`, `record_failure`, `record_pre_publish_conflict`, Keep Local, Use Remote | crash between remote commit and local record | a publication settles; the row never claims more than happened |
| **Publish queue and refresh** `APP/remote/sync.rs`, `APP/remote/sync/` | operations, repository state, Remote Revision in the config | coalescing, rebinding, refresh planning, conflict listing | stale revision, coalescing over an answered conflict | a dirty copy is never replaced |
| **Startup recovery** `APP/remote/startup.rs`, `recovery.rs` | the same rows | running to retry, durable executor loop | half-finished transactions | nothing is forgotten |
| **Mutation outbox** `APP/remote/mutation.rs`, `library_outbox.rs` | prepared / committed / projected operations | library edits with their change sets | crash between the library commit and the operation | an edit has an operation |
| **Repository lifecycle** `APP/remote/lifecycle.rs` | connection, control database | connect, relocate, refresh, mirror, delete | refresh while a mutation is half done | no edit is under a swapped database |
| **Legacy providers** (Dropbox, Google Drive) | operation phases | 13-phase publication of whole databases | accepted commits, whole-database Keep Local | as the writer |
| **Cleanup** `OR/cleanup` | objects and their ages | delete unreferenced uploads | readers and publishers still using what is deleted | nothing referenced goes |
| **Media cache** `OR/media_cache` | ranges, leases, pins | read-through, eviction | eviction under a lease | leased and pinned media stay |
| **Storage port** WebDAV transport | - | conditional put, get, delete | HTTP only | outside the models |

### The rest of the program

| Component | State | Hard | Correct when |
|---|---|---|---|
| **Playback coordinator** `APP/audio/coordinator.rs`, `playback.rs`, `output/`, `APP/services/track_load`, `next_track.rs`, `cdg.rs` | loads, previews, prepared next track, transport generation, graphics slot | results that arrive after the user moved on; two locks taken one after the other | only the newest request changes what plays; window and graphics are told of it |
| **Streaming playback source** `APP/services/track_load/streaming.rs`, `preview.rs` | buffers, retired flags, credential epochs | fallback, reconnection and withdrawal while the track plays | a source serves only the request it was opened for |
| **Waveform single-flight** `APP/state/playback.rs` | running computations, waiters | a computation that dies or is cancelled | no waiter hangs, one computation per key |
| **Separation jobs** `APP/services/separation.rs` | jobs, cancel registry | cancel racing completion, batch beside single jobs | one job per song, status ends |
| **Source host** `APP/source_host` | sources, gates | start outside the lock, disable meanwhile | a disabled source does not run |
| **Catalog and streaming import** | identities, import conflicts | Apply to Remaining | a track has one binding |
| **Audio processing, model bootstrap, lyrics, local library, AirPlay and video, front end, packaging** | - | little state or pure I/O | not modelled (see 9) |

### How they interact

Library commands change rows of the working copy (`openkara.db`) and, in the
control database, add a publish operation. The commands, publications,
refreshes and conflict resolutions of a library take its **commit lock**
(`APP/state/remote.rs:141`), so one device does one of them at a time. A durable
executor thread polls every 30 seconds (`APP/remote/startup.rs:23`, loop at 417)
and runs what is pending or waits for a retry. The writer talks to the store in
separate requests; other devices do the same without any common lock, and the
manifest is the only commit point (ADR 0018). When the manifest moved, the
writer combines three snapshots: the **base** (the generation this device last
recorded, kept on disk), the remote's and the local one (ADR 0040, 0045).

A mutation takes the commit lock, writes a prepared operation to the control
database, commits its rows together with an **outbox row** in the library
database, and projects that row back into the control database
(`APP/remote/mutation.rs`). **Refresh Repository** holds the mutex of the control
connection but not the commit lock (`APP/remote/lifecycle.rs:165`).

Window commands reach the transport through one channel of the coordinator;
deleting songs and activating a library change the controller directly. Load
threads carry the id of their request, preload threads the number of their
candidate; both are compared when the result is handled, and again under the
controller's lock. The output callback takes the same lock on every buffer. The
graphics slot has a lock of its own, taken after the controller's is released,
and the transport generation tells whether the slot is still of this track.

## 2. Modules

| Module | Models | Notes |
|---|---|---|
| `Rebase` | `rebase.rs` | operators only; the loop over the songs is a recursive function |
| `RebaseCases` | the callers' inputs of one rebase | one step; the properties of a single rebase |
| `PublishChanges` | writer, base, reader, executor, queue, recovery | EXTENDS `Rebase`; the composition of many devices and one store |
| `SharedLibrary` | what the repository promises | abstract specification implemented by `PublishChanges` |
| `MutationOutbox` | mutation, outbox, control database, recovery, refresh of one device | one library, one remote |
| `Playback` | coordinator, controller, load and preload threads, output callback, graphics slot | the composition of all of them |
| `MCRebaseCases`, `MCPublish`, `MCOutbox`, `MCPlayback` | instances for TLC | |
| `RebaseProofs`, `RebaseCasesProofs` | lemmas and theorems on the rebase | |
| `PublishTypes`, `PublishHistory`, `PublishConsent`, `PublishCopies` | the inductive invariants of `PublishChanges` and its refinement, each module on the one before | |
| `OutboxProofs` | the inductive invariants of `MutationOutbox` | |
| `PlaybackProofs` | lemmas on the controller, the inductive invariants of `Playback` | |

### Data of the repository

A snapshot is a function from **merge keys** to contents. A merge key is a song
(all rows of all tables that carry its hash, which `rebase.rs` compares as one
fingerprint) or a shared table (compared as a whole). Digests are equal exactly
when snapshots are, so a digest is written as the snapshot. SQLite's constraints
are two constants: `Collisions` (which songs share a unique value, enforced
row by row while songs are applied) and `Dangling` (which keys have a dangling
reference, checked once at the end). The constants are arbitrary in the proofs, but
for what every constraint of a database satisfies: two songs collide over their
own rows, whatever the other rows are (`CollisionAssumption`), and whether a
reference of a song dangles depends on its own rows and the shared tables
(`ReferenceAssumption`).

### State and steps of `PublishChanges`

- *On the store*: `manifest`, its `revision` token, the database objects
  `snapshots`, and manifest requests still `inFlight`.
- *On each device's disk*: `working`, the retained `bases`, the repository row
  (`committed`, `baseId`, `localState`), the operation row (`opState`, `opId`,
  `expected`, `whole`, `approval`, `conflict`), a younger operation not yet
  coalesced (`newer`), and the Remote Revision of the config (`baseline`).
- *Of the running session*: `pc` and what was read or computed so far.
- `history` and `edited` record what happened, for the properties only.

Every storage request and every durable local write is a step of its own:
`StatManifest` and `ReadManifest` are separate because `read_current_manifest`
asks for the revision first and the bytes later; `DeleteLeftover` (the object of an
earlier attempt at the operation's path), `UploadSnapshot`, `CommitManifest`, `VerifyManifest`,
`RetainBase`, `InstallWorkingCopy`, `RecordCompleted`, `PruneBases` and
`SaveRevision` are the tail of `publish_changes` and of its caller in the order of
the code. An edit is two steps as well: `Edit` commits its rows, `ProjectEdit`
writes the operation and the dirty state; an edit that a crash cut in two is
projected by the startup pass, before anything else of that device happens. `pc` is
per device because of the commit lock. The state `publishing` of the repository row is
folded into `dirty`: the code treats both alike wherever the model looks.

`BuildCandidate` is the decision of one attempt: publish unmoved, give up after
`MAX_REBASES`, rebase, stop with a conflict, or replace the remote with
approval. `ResolveAccepted` is the retry that finds its own operation id in the
manifest. `KeepLocal` and the `UseRemote*` steps resolve a conflict.
`PlanRefresh` to `SavePulledRevision` refresh a clean copy.

Faults, each bounded and switched on by `FaultKinds`:

- *interruption*: the process crashes, or a request fails, before the next step
  of the session; recovery puts a running operation back to `retryWait`. A crash
  right after the replace is the lost answer of a commit.
- *delay*: a manifest request reaches the server after its client gave up.
- *restore*: somebody puts an older manifest back (its object still exists).

### The abstract specification

`SharedLibrary` knows libraries, the generation each device builds on and the
consent of its user: a device may append a library that changes a row only where
nobody else changed it since that generation, or where the user consented at
exactly the newest generation. `PublishChanges` implements it with

    published <- the libraries of history,  basis <- committed,  consent <- approval

so every step of every device is one abstract step or a stutter. The variable
`history` is auxiliary, no action's guard outside the faults reads it.

### State and steps of `MutationOutbox`

- *In the library database*: `edits`, the edits whose rows it holds, `outbox`, and
  the `digest` of the file; `opened` says whether the mutation's connection is
  still open on that file, for a pull swaps the file under it.
- *In the control database*: one operation per edit or explicit publication
  (`state`, `scope`, `expected`,
  `source`, `target`, `sealed`) and the repository row (`local`, `committed`).
- *Of the running program*: how far the mutation (`step`), a pull (`pull`) and the
  publication (`publisher`) are, and what they hold in hand; of the startup pass,
  `phase` and the rows `visited`.
- `made`, `overwritten` and `discarded` are history, read by the properties only.

`Begin` to `DeleteOutboxRow` are `mutate_with_atomic_outbox` in the order of the
code, with a step between any two accesses to different databases or under
different locks: the digest is taken outside both mutexes, the expected
generation is read under the control mutex, and the prepared row written under
it again. `Prepare` and `PrepareByPulling` are `prepare_for_library`, which brings
a clean copy up to date first. A mutation that changed nothing cancels its
operation (`CommitNothing`, `CancelPrepared`). `Refresh`, `ReplaceCopy` and
`RecordPull` are a pull by the lifecycle command. `PublishStart` to
`RecordCompleted` are the publication seen from the rows: it coalesces what
waits, and commits, conflicts or fails; what it does to the manifest is the
matter of `PublishChanges`. A publication can also be asked for outright:
`Republish` mints a pending operation that names no song, also in a clean
repository, and a publication that starts over a clean repository pulls first
(`PublishByPulling`).

The user settles the conflict the repository is stopped on. `KeepLocal` runs its
operation again, alone and against the generation it expected. Use Remote is
`DiscardLocal` (the operation is cancelled), `ReplaceByRemote` (the copy is swapped)
and `RecordRemote`; `StopShort` is an error between them, which leaves what is on
disk as it is.

Every step can fail and the program can crash between any two. After a crash the
startup pass runs as in the code: `ProjectRow` for each outbox row whose operation
still waits, `SettleResidualRow` for one whose operation has ended,
`RecoverInFlight`, `ResolvePrepared` for each prepared operation (conflicted,
cancelled or promoted, from generation, digest and scope), `ForceDirty`, and
`Repair`. `ProjectRowFails` and `ResolveInterrupted` are the refused write and the
crash inside the pass.

A library is reduced to the set of edits it contains and a digest to a number
that every write of the file makes new, which is all that recovery and the
completion of a publication look at.

### State and steps of `Playback`

- *The channel and its thread*: `queue`, and `co`, the command in hand with the
  part of the handler that comes next (controller, graphics slot, output).
- *The controller*: `player`, a record with the current track, the loading song,
  the prepared and the crossfading candidate, the expected candidate id, the fade,
  buffering, the transport generation and the transition still to be announced.
  Each method of `PlaybackController` is an operator from `Player` to `Player`.
- *Threads*: `loads` (one per play request, with its phase and `retired`, the
  shutdown flag), `worker` (whose flag `background_shutdown` is), `preloads` with
  `asked`, and `stemsJob`.
- *Beside it*: `slot` (the graphics), `output` and `format`, the songs of the
  `library`, and `clear`, a command that clears the track directly.
- `begun`, `dismissed` and `recalled` are history, read by the properties only.

A play command takes its id under the controller's lock (`Begin`), then retires
the worker of whoever came before and looks the song up (`RetirePrevious`); the two
are steps of their own because commands run on different threads and may cross.
The load thread delivers or fails (`Deliver`), and that of a remote song or a
preview goes on serving it: `FallBackToFullFile`, `Reconnect`, and `CancelPreview`
when its source goes away. `Receive` drops what is stale before a lock is taken;
each `Handle...` action is the critical section of one handler, which asks again
where the code does; `HandleSlot` and `EnsureOutput` are the parts after it.
`Render` is one callback: buffering, expired fades, crossfade overlap, promotion,
the natural end and the gapless change, with the clock read twice as in the code.
`DeleteSongs` and `ActivateLibrary` go past the coordinator and are followed step by
step; `RemoveMissing` goes through it.

What a load does depends on its song. `Remote` songs are streamed from the
repository and `Previews` from a source; the others are local. Songs in `Graphics`
have CD+G graphics, named by their row or found beside the audio; those in `MediaG`
have a row that names a container or a CDG file, and are never prepared to follow
(`Preparable`); those in `Whole` are decoded before they are installed (the Media+G
ZIP, remote stems). `Streaming(song)` is what the installed track may be: decoded for a song in
`Whole`, either for a remote song, because a server without range requests makes it
decoded whole, and a stream for every other. So graphics meet decoded tracks, local
streams, remote streams and tracks that took over without a load. The withdrawal of
a request may come between the last check of its thread and the installation:
`Deliver` does not ask whether it is retired. A position is at the end of the song
or it is not; time passes between any two readings of the clock.

## 3. Runs

| Run | Instance | Distinct states | Question |
|---|---|---|---|
| `rebase_cases` | 2 songs, playlists, 3 contents | 246,924 | what one rebase owes to both devices |
| `publish_race` | 2 devices, 1 song, playlists, 3 operations, no faults | 707,214 | interleavings of two devices; implements `SharedLibrary` |
| `publish_faults` | 2 devices, 1 song, 2 operations, 2 interruptions, fair | 475,218 | crashes anywhere; bases and manifests; settling |
| `publish_disorder` | 2 devices, 1 song, 2 contents, 3 operations, 1 interruption, delay or restore | 1,242,219 | what survives a store that misbehaves |
| `outbox` | 2 edits or republications, 2 generations, 2 crashes or failed steps, 2 settled conflicts, fair | 508,120 | that an edit survives the way through two databases |
| `playback` | 4 songs (Media+G ZIP, local with paired graphics, remote with graphics, preview), 2 requests, 2 other commands, a channel of 1, fair | 865,325 | which song plays, follows and is shown |

What the properties say:

- **Rebase.** `RemoteChangesKept` and `LocalChangesApplied`: no row of either
  side is lost without approval, none invented. `MergedIsValid`: two valid
  databases combine into a valid one or conflict. `OneDisjointEditMerges`: a
  device that changed one thing nobody else changed is not asked anything.
  `OrderDoesNotMatter`: after a merge that went through, the merge the other device
  would have run had it come second goes through too and yields the same library, or
  it stops over the whole repository and has several songs to apply, which may collide
  on the way (`rebase_order`, section 4); there is no third outcome. `RetryIsStable`: rebasing
  onto one's own result once more yields that result; only a whole-repository change
  set that was not approved has to be approved again. `ConflictsAreLocal`, `KeepLocalIsAnExit`: what
  a conflict accuses, and that answering leads somewhere.
- **Commits.** `GenerationsAreConsecutive`, `NoSilentOverwrite` and
  `ImplementsSharedLibrary`: no commit is lost, and a row of another device is
  replaced only with consent given at exactly that generation.
- **What devices keep.** `BaseIsPublished` (a rebase never starts from anything
  but a published generation), `BaseIsRetained` (a crash never loses the base a
  retry needs), `LocalChangesAreExplained` (what a rebase will publish as this
  device's changes is what its user edited, or a row that an interrupted installation
  or refresh brought in from a newer generation), `InstallKeepsLocalChanges`,
  `ConflictsNameOwnEdits`, `ManifestIsBacked`, and
  `LibrariesAreValid`: what one rebase owes holds of everything many of them publish
  and install.
- **Progress.** `PublicationsSettle`: what is unpublished becomes published,
  conflicted or failed.
- **Outbox.** `EditsAreKept`: an edit whose transaction committed is published,
  given up by the user for the remote side of a conflict, or still in the working
  copy with an outbox row, a repository that is not clean or a conflicted operation to
  speak for it; the exception is an edit that a pull replaced (`overwritten`), which
  `outbox_refresh` and section 5 are about. `CompletedMeansPublished`: an operation
  that reports completion has published all edits merged into it, also when it
  completed by recognizing an earlier attempt. `EndedStaysEnded`: late projections,
  merges, publications and recovery reopen nothing; only the user does, by settling
  the conflict the repository is stopped on. `RecoveredEditsArePublished`: what a
  crash left in the outbox is published in the end, unless its publication stops,
  the user gives it up, or its operation had already ended when the row was met.
- **What plays.** `LatestRequestWins` and `DismissedStaysGone`: no slow load,
  fallback, reconnection or transition brings back a track the user replaced, or
  one that was withdrawn while it loaded. `CandidateIsLastRequested`: what follows
  is what was asked for last, but for a crossfade that a seek aborts.
  `StoppedStaysStopped`: the callback never starts what was stopped.
- **What is shown.** `AnnouncedIsCurrent`, `GenerationNamesOneSong` and
  `CdgFollowsTransport`: the window and the graphics are told of the track that
  plays, although announcement, generation and slot are changed elsewhere. The last
  covers streamed tracks with graphics, and tracks that took over gaplessly.
  `LoadSettles`: the window is not left loading, unless another command retires the
  load.

### Bounds, and why they are enough

Two devices are the fewest that race; a device only meets the others through the
manifest, so a third adds another writer of the same step. Three contents are
the fewest for which two devices change one row differently. One song and the
playlists table give one key the change set names and one that makes it a
whole-repository change; the interplay of several songs is the matter of
`rebase_cases`, which enumerates every base, remote, local, flag and policy.
Three operations let one device publish, the other conflict, and an edit
follow; two suffice with a crash, because the retry of the first is a session of
its own. `MaxRebases` is 1 (3 in the code): once allowed, once refused.
Repositories start new and with one generation, except where a run says `{1}`.

Fault runs take `NoTables`: the shared table changes nothing about what an
interruption does. `publish_faults` affords two interruptions, so that the repetition
of a cut session can be cut as well, by starting from one generation; the first
publication into a new repository meets interruptions in `publish_disorder`, which
takes two contents to afford three operations.

`outbox`: two operations are the fewest that can be coalesced, and of which one can
wait while the other is made, republished or settled. Two generations let another
device commit once, before, during or after a publication; the invariants were also
explored with three (3,081,607 states). Two faults give a crash and a second one
inside the startup pass, or a failed step and a crash. Two settled conflicts let Keep
Local stop again and be followed by Use Remote.

`playback`: two requests are the fewest that supersede each other, and two other
inputs let a candidate be asked for and something happen to it. `Choices` fixes
what each request may ask for: the first the preview, the remote or the ZIP song, the
second the local one with paired graphics, which may also be the candidate to
follow. `Removable` names the songs whose row may be deleted while they are used; the
run takes the remote one, and it was also explored with the local one. A channel of
length one already makes a sender wait and lets other threads act while a command is
queued. A recalled candidate (`recalled`) takes more than two inputs and is not
reached in this instance; the proof of `CandidateIsLastRequested` covers it, as it
covers every other bound.

`SYMMETRY` permutes the two devices, which the specification does not
distinguish; it is used only in runs without liveness. `VIEW LiveView` drops the
session variables of devices that are idle or in the middle of an edit; each of them
is assigned before it is read
once a session starts, so states with equal views have the same futures and
agree on every property checked with it. The actions that no fault can enable
in a run are covered by the other runs. `CHECK_DEADLOCK FALSE`: the
system really stops, when everything is published or played and the user does
nothing, or when the bound on inputs is used up.

### Fairness

`FairSpec` assumes weak fairness of `DeviceStep(d)` for each device: a pending or
retrying operation is picked up and a running publication takes its next step.
The executor thread polls for as long as the application runs and a session is a
straight sequence of requests with timeouts, each of which ends in the next step
or in an interruption. Nothing is assumed of users, faults, delayed requests, or
of one device relative to another. One conjunction per device is enough, since
the commit lock leaves at most one session to advance. The code's retry delay is
left out: it ends by itself.

`MutationOutbox` assumes weak fairness of the next step of a mutation, of a pull, of
a publication and of the startup pass. The first two are straight sequences on a
command's thread, which end or fail; the pass runs on its own and ends by itself
(`APP/remote/startup.rs`); the executor polls for operations that wait. Nothing is
assumed of edits, refreshes, other devices or faults.

`Playback` assumes weak fairness of the coordinator, which blocks only on its channel
and on an output that answers or fails (`OutputOpened`), and of each load thread.
Nothing is assumed of the callback, of the preload and stem threads, or of the user.

## 4. Disagreements with the documentation

Each is a run in which TLC finds one property, taken from the documentation or a
test, violated.

| Run | What happens |
|---|---|
| `rebase_order` | ADR 0040 promises that edits to different songs publish without a conflict. Songs are applied one at a time under immediate uniqueness, so a unique value that moved from one locally changed song to another collides with the row not yet replaced, and the whole repository conflicts although the other device touched none of these songs. |
| `publish_revert` | A device commits and never learns it. Another device pulls and changes the song back. The retry no longer finds its id in the manifest, rebases from its old base, sees the remote equal to the base, and publishes its rows again: the other device's change is silently reverted. |
| `publish_newer_edit` | A device commits and never learns it; its user then changes the song back to the base rows. The retry recognizes its commit, sees no change since the base, and installs the commit over the newer edit. |
| `publish_verify` | Another device commits between a successful replace and its verification. The publication is recorded as a permanent integrity failure although it succeeded and every byte is intact. |
| `publish_refresh` | After installing a snapshot the refresh asks for the manifest's revision again and stores that one. If a device committed meanwhile, the copy counts as current until the next commit. |
| `outbox_refresh` | `lifecycle.rs:106` says that Refresh Repository never overwrites a copy that is not clean. It asks once, before the download, and does not hold the commit lock; an edit committed meanwhile is replaced together with its outbox row, while its operation goes on without it. |

`publish_revert` and `NoSilentOverwrite` do not contradict each other: the
latter judges a commit against the base the device recorded, as the code does,
and holds; the former judges it against what the device itself last contributed.

## 5. Observations

What the models reach and no property forbids, without a run of its own. Each was
read off the code named.

**Publication.** Under a restored manifest a
generation number stands for several libraries, so `NoSilentOverwrite`,
`GenerationsAreConsecutive` and, for a moment, `BaseIsRetained` do not hold; a
delayed manifest request can name an object a retry has rewritten
(`ManifestIsBacked`); after an interruption a conflict can name a song whose
edit is already part of the device's own unrecognized commit
(`ConflictsNameOwnEdits`).
The runs that check these properties therefore exclude the fault in question,
and the theorems name it as a hypothesis.

**Outbox.**

- A clean repository can hold edits: between the commit of the rows and their
  projection the copy is ahead of its base and nothing but the outbox row says so. No
  property therefore says that a clean copy equals its base; `EditsAreKept` and
  `LocalChangesAreExplained` say what holds instead.
- Use Remote cancels the operation before it replaces the copy
  (`APP/remote/executor.rs:1937`). A crash or an error in between leaves a
  conflicted repository that neither choice resolves until the next edit.
- The startup repair puts `committed_generation` back to that of the last completed
  operation although a later pull advanced it (`APP/remote/recovery.rs:148`); the
  next pull brings it forward again.
- A mutation that fails after its prepared row was written leaves that row behind
  until the next start. It counts as outstanding, so the next publication leaves the
  repository dirty and Refresh Repository does nothing.
- A projection that fails in the running program leaves a clean repository with
  nothing but the outbox row; the next pull, of a refresh or of the next mutation,
  replaces row and edit. This is the second way into `overwritten`.
- After a refused projection, a crash and a moved generation an operation ends as
  conflicted while its outbox row stays; the next pass drops the row if the
  operation named its songs, so the edit is known only by that conflict. The repository
  may be clean, and then the next pull replaces the edit: `EditsAreKept` counts a
  conflicted operation as a report, not as protection.

**Playback.**

- `start_track` does not reset `is_buffering`, and only a streaming track ever clears
  it in the callback: a decoded track installed during an underrun stays silent until
  a transition (`APP/audio/playback.rs:286`, `output/mod.rs:138`;
  `docs/references/contracts/playback.md:258` knows buffering
  only as an underrun of what plays).
- The fade-out is finalized at the start of a callback and read at its end
  (`playback.rs:1023`). When its 50 ms end in between, the fade is dropped without
  stopping the track, and the pause is lost; a seek right after a pause does the same.
- A reconnection replaces the source at the position it captured, undoing a seek made
  meanwhile (`APP/services/track_load/streaming.rs:100`); a fallback installs the
  track anew, so one that was paused plays again, and one that was deleted after its
  file was looked up comes back.
- A seek during a crossfade makes its track the prepared one again, even if it was
  cancelled or a newer one is expected (`playback.rs:496`); hence `recalled`.
- A local song with a CDG file beside its audio that its row does not name can be
  prepared. When it follows gaplessly nobody loads its graphics: a transition
  changes the track but never the slot (`APP/services/next_track.rs`, `cdg.rs:148`).
- Asking for a missing song takes an id before it fails, so a load under way becomes
  stale and the window stays loading (`track_load/mod.rs:54`). Two play commands that
  cross between id and shutdown flag let the older retire the thread of the newer
  (`track_load/request.rs:53`, against the comment at 88). The premise `~retired` of
  `LoadSettles` and its comparison with the latest id leave these out.
- `delete_songs` compares with what played before the deletion and clears whatever
  plays after it (`APP/commands/import/mod.rs:402`); a library that is activated
  during a load still gets the old library's song.

## 6. Proofs

All proofs are checked by `tlapm` to the last leaf; nothing is assumed but the
named assumptions of the constants: `SongsAndTablesDiffer`,
`SongOrderAssumption` (every song has its place in the hash order),
`ConstraintAssumption`, `CollisionAssumption`, `ReferenceAssumption` (`Rebase`),
`DeviceAssumption`, `InitialAssumption` (a repository starts with a library that
satisfies its constraints), `BoundsAssumption` (`PublishChanges`),
`LimitsAssumption` (`MutationOutbox`, `Playback`) and `SongsAssumption`
(`Playback`). TLC evaluates them on every run. Where a theorem excludes a fault,
the fault breaks the property (section 5 says how); all others are covered, in any
number, and so are any bounds.

| Theorem | Says |
|---|---|
| `MergeChangesOnlyUntouchedOrApproved`, `MergeCarriesLocalChanges` | the two facts about a merge everything else rests on |
| `RemoteChangesAreKept`, `LocalChangesAreApplied`, `KeepLocalIsAlwaysAnExit` | the rebase properties for every song set, table set, constraint and order |
| `MergedSnapshotsAreValid`, `ConflictsNameLocalSongs`, `OneDisjointEditAlwaysMerges` | `MergedIsValid`, `ConflictsAreLocal`, `OneDisjointEditMerges`: those that depend on what the loop over the songs does |
| `MergeOrderDoesNotMatter` | `OrderDoesNotMatter`: the merge of the other order, run in full, yields the same library or stops over several songs |
| `RebaseRetryIsStable` | `RetryIsStable`: the repeated merge, run in full with its flag and its approval, yields the library it is given |
| `PublishTypes!TypeCorrect` | `TypeOK`, including the bound on rebases |
| `BasesArePublished` | `BaseIsPublished`, under every fault |
| `ManifestAdvancesByOne` | `GenerationsAreConsecutive` without restores |
| `NothingIsOverwrittenSilently` | `NoSilentOverwrite` without restores |
| `RepositoryImplementsSharedLibrary` | `ImplementsSharedLibrary` without restores and delays |
| `LocalChangesAreAlwaysExplained` | `LocalChangesAreExplained` without restores |
| `InstallationsKeepLocalChanges` | `InstallKeepsLocalChanges`, under every fault |
| `ConflictsAreAboutOwnEdits` | `ConflictsNameOwnEdits` without interruptions and delays |
| `RecordedBasesAreRetained` | `BaseIsRetained` without restores |
| `ManifestsAreBacked` | `ManifestIsBacked` without restores and delays |
| `PublishedLibrariesAreValid` | `LibrariesAreValid`, under every fault |
| `OutboxProofs!TypeCorrect` | `TypeOK` |
| `CompletedOperationsArePublished` | `CompletedMeansPublished`, through coalescing, republications and recognized commits |
| `EndedOperationsStayEnded` | `EndedStaysEnded`, with Keep Local and Use Remote among the steps |
| `EditsAreNeverLostSilently` | `EditsAreKept`, for any number of edits, crashes and failed steps |
| `PlaybackProofs!TypeCorrect` | `TypeOK`: a song loads or is loaded, never both |
| `TheLatestRequestWins`, `DismissedRequestsStayGone` | `LatestRequestWins`, `DismissedStaysGone` |
| `AnnouncementsAreCurrent` | `AnnouncedIsCurrent` |
| `CandidatesAreLastRequested` | `CandidateIsLastRequested` |
| `CdgAnswersToTheTrack` | `CdgFollowsTransport` |
| `StoppedTracksStayStopped` | `StoppedStaysStopped` |

The argument for a single rebase needs what the loop over the songs computes, for
any number of songs. `AppliedSongs` is a recursive function over the natural
numbers. That it exists and obeys its definition (`AppliedSongsTurns`), and that
after each turn the output holds the local rows of the songs applied and not
reported, the remote ones elsewhere, and no collision (`LoopInv`), is shown by
induction for a given set of numbers (`NatSetInduction`, from the least element of
its complement). `UnbrokenIsValid`, `BrokenSongs` and `OneChangeBreaks` draw from
it what a merge that reports nothing, and one that reports something, says of the
combined rows.

The argument for `PublishChanges` runs through strengthenings, none of the
properties being inductive alone:

1. **`BaseInv`.** A base is recorded from a candidate or from a pulled manifest,
   so the invariant follows a library along that way: the manifest, every
   manifest a device has read, every candidate that was verified or accepted and
   every copy just pulled are published. Restoring a manifest keeps it, because
   what is restored is in the history.
2. **`HistoryInv`.** Revision, generation and position in the history are equal;
   a request in flight either is outdated or carries the successor; a device that
   still holds the current revision token has read the current manifest, although
   token and bytes were fetched by two requests. The compare and swap then turns
   "expects this revision" into "replaces exactly the manifest it read". A
   restore breaks the first conjunct, hence the hypothesis.
3. **`ConsentInv`.** An operation that runs or is conflicted expects the recorded
   generation (so the base and the expectation cannot drift apart while a
   conflict is open), and the candidate changes rows of the manifest read only
   where that still has the base's rows or the user approved it.
   `MergeChangesOnlyUntouchedOrApproved` establishes it when the candidate is
   built, `HistoryInv` carries it to the moment of the commit, and the two
   together are `NoSilentOverwrite`. The case without a rebase needs that one
   generation has one library
   (`SameGenerationSameLibrary`).
4. **`AdvanceInv`** adds for the refinement that a device records no older generation
   than the one it has and answers no conflict about a generation that is not there.
   `SharedStep` then maps every step: a replaced manifest is a publication of
   `SharedLibrary`, allowed by `ConsentInv`; a recorded generation is an advance; an
   answer to a conflict, or its end, is an answer; the rest is invisible. Delays are
   excluded because `SharedLibrary` asks for the consent at the moment of the
   commit, and a late request may come when it was withdrawn.
5. **`KeepInv`** follows the candidate that replaces a copy from its construction or
   recognition to the installation, and **`CopyInv`** the snapshot that is recorded as
   the base, which is what the copy holds by then; both hold under every fault.
   **`ExplainInv`** is `LocalChangesAreExplained`: an edit adds the keys it changes, a row
   that an installation or a refresh brings in is one of a published generation
   (`BaseInv`) after the recorded one (`HistoryInv`, `AdvanceInv`), and when the base
   is recorded it is equal to the copy (`CopyInv`).
6. **`EditInv`**: without interruptions the rows in which the copy differs from its base
   are all edited ones, and a conflict is stored only while it stops its operation.
7. **`RetainInv`**: the recorded base and the one about to be recorded are both on the
   disk. Retaining replaces a base of the same generation, which is harmless because
   one generation has one library (`HistoryInv`); pruning keeps the recorded one.
8. **`StoreInv`**: operation ids are fresh and of one device, so a path belongs to one
   publication; a retry of an operation that was committed has read that commit or
   a later one, so it builds on it and never writes its object again.
9. **`ValidInv`** carries what `UnbrokenIsValid` says of one merge to everything published,
   read, built or installed.

The argument for `MutationOutbox`:

1. **`LockInv`** says who can be at work at once, and what the repository row must be
   meanwhile: a pull goes on only over a clean row, whoever started it, a publication
   whose operation runs only over one that is not clean, and Use Remote only over a
   conflicted one. A mutation in its middle has exactly the operation state its step
   wrote.
2. **`CopyInv`** says what the files hold. The working copy contains what the remote
   has of this device, the snapshot being pulled has neither more nor less of it,
   and no digest is given twice, so that a completed operation whose sealed digest
   still is the file's digest proves that everything is published. That is what
   makes it right for `RecordCompleted` and `Repair` to call a repository clean.
3. **`EditInv`**: an edit neither published, given up nor overwritten is in the working
   copy, its operation's source digest is older than the file, and in a clean
   repository its operation conflicts or it still has its outbox row, which the pass
   does not drop because the operation did not name it. The digest is what keeps
   `ResolvePrepared` from cancelling an operation whose rows are there.
4. **`ScopeInv`**: an operation past its projection names only edits begun before, never
   the one whose transaction is still open, and once it is completed none that is
   unpublished. Coalescing unites the scopes of operations that wait, the candidate
   holds the whole copy (`CopyInv`), and a commit of an earlier attempt is recognized
   only by the operation that made it, which is why nothing is coalesced into an
   operation that has run. `CompletedMeansPublished` is its last part.

`EndedStaysEnded` follows from the types and `LockInv`, one action at a time: what
writes the state of an operation asks for it first, or runs it.

The argument for `Playback`:

1. *The controller.* Each method, and each piece of a callback, is shown to **continue**
   a player (same request, another song only by a prepared one, never from a stopped
   track) or to **keep** it (same track and song). `PlayerOK` is the part of the type
   invariant about the player, including that an announcement names the track.
2. **`TypeInv`** strengthens the types with what threads and messages are about: a
   worker has a song, a message that names a song has one, only songs that can be
   prepared are. From it `ControllerSteps`, `ChannelSteps` and `CoordinatorSteps` sum
   up what any step can do to the player, the channel and the slot, and the
   invariants below use these instead of the thirty actions.
3. **`RequestInv`**: whatever is delivered is of a request that has begun, requests begin
   in the order of their ids, and a dismissed one is older than the latest. The
   comparison with `latest` in the handler then means "the request that began last".
4. **`CandidateInv`**: cancellations are queued in the order of their numbers and the last
   of them is the newest, so that with none waiting the controller expects the
   newest candidate.
5. **`CdgInv`**: only a song with graphics has a ready slot; when its song could also be
   prepared to follow, the track that plays is the streamed one the load installed, so
   that none took over with the same song but another generation; and between the two
   locks of a handler the generation the handler saw is still that of the track.

Only model-checked: `PublicationsSettle`, `RecoveredEditsArePublished` and
`LoadSettles` are liveness under fairness and stay with TLC, as anything with
ENABLED; so do the properties of the runs in section 4, which do not hold.
`GenerationNamesOneSong` is the next one to prove of `Playback`. The library's
induction theorems take an operator as a parameter, which the installed provers
cannot instantiate; the one induction over data the proofs need, over the songs of a
rebase, is stated with a set instead.

## 7. Abstractions

Left out of `PublishChanges`, with the reason:

- Assets, upload status, progress, wording and logging: no property concerns them.
- Schema mismatch between snapshots (`common_schema`), base files of 0.19.x and a
  missing base identity: a base is either retained and verified or absent.
  Retention after a pull is assumed to succeed.
- Retry delays, authentication failures and the cached copy of the remote
  snapshot: they decide when, not what.
- Deleting the manifest, cleanup of old objects, and a relocated repository.
- A torn `fs::copy`: swaps are atomic in the model.
- The outbox row between the commit of an edit and its projection, failures of the
  projection in the running program, and the refresh that does not take the commit
  lock: `MutationOutbox` has them. Here an edit is its two commits, and one that a
  crash cut in two is completed before anything else of that device.
- At most two unpublished operations at once; the survivor of coalescing is either of
  them, because its order comes from timestamps.
- The revision probe and the plan of a refresh are one step. A base-less
  conflict names no songs, the whole-repository flag stands for it.
- The digest comparison of the installed copy after stripping local tables is
  equality of snapshots.

Left out of `MutationOutbox`:

- Base snapshots, approvals and the rebase itself: `PublishChanges` has them. Here
  Keep Local runs the operation again, and that run commits, conflicts or fails.
- Other libraries: the lock, the outbox and the repository row are those of one.
- Operations that carry the phases of the legacy transfer (`recovery.rs`, resumption
  by part files), and the update of an operation that the control database no longer
  knows, which nothing in the model deletes.
- The two writes of `record_failure` are one step, as are deleting an outbox row and
  the digest it changes.

Left out of `Playback`:

- Samples, volumes, equalizer, stems as audio, ring buffers and range requests.
- Positions other than the end, the length of fades and overlaps, and the crossfade
  setting: the callback may find any of them.
- AirPlay epochs, the video surface and what the window does with events.
- Credential refresh of a stream; a reconnection is a new source or none.
- An output that fails while it is being rebuilt is a further rebuild.

## 8. Plan

Ordered by what is at stake for a user's library; each builds on the modules
before it.

1. `Rebase`, `RebaseCases`, `PublishChanges`, `SharedLibrary` and the first
   proofs: **done**.
2. `MutationOutbox` and its proofs: **done**. Left: base snapshots across a repair, and
   a refinement to "every durable edit is published or protected".
3. `Cleanup` (`cleanup/mod.rs` 108-265): grace period and kept generations
   against a slow reader, a publisher that is about to name an old upload, and
   clocks that differ.
4. `MediaCache` (`media_cache/mod.rs` 471-572): leases, pins, eviction from a
   stale list, a crash with a lease held. Theorem: nothing leased is evicted.
5. `Playback` and its proofs: **done**. Left: the ring buffers of a stream.
6. `WaveformFlight` (`state/playback.rs` 119-245): waiters and the completion
   guard; liveness of every waiter.
7. `SeparationJobs` (`services/separation.rs` 253-276, 537, 695) and `SourceHost`
   (`source_host/supervisor.rs` 11-96).
8. The legacy executor's accepted commits and whole-database Keep Local
   (`executor.rs` 1847-1917), and import conflicts.

Proofs to add: `GenerationNamesOneSong`, for which the controller's lemmas must
also say that the generation never goes back, and an invariant must follow the
answers of one request through the channel.

## 9. Not modelled

Audio processing, lyrics parsing, model downloads, AirPlay and video surfaces,
the front end and packaging have little shared state or are numeric, I/O or
presentation. Local library commands are SQL over one database and enter as
changes of rows. The storage transport is HTTP and XML; the models use it as a
store with a conditional replace. The components planned in 8 are listed in
`PROJECT.json` as not modelled until their module exists, with the hazards of the
cleanup and of the media cache that no property covers yet.

## 10. Running

    tlc -workers 2 -config MCPublishRace.cfg MCPublish
    tlapm PublishConsent.tla
    tlc -workers 2 -config MCOutbox.cfg MCOutbox
    tlapm PlaybackProofs.tla

Each configuration is named after its run. Definitions whose comment begins
"Mutant of" are plausible mistakes in the code, used to see that each property
fails when the code has them; they are not part of the specifications.
