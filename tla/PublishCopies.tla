---------------------------- MODULE PublishCopies ----------------------------
(***************************************************************************)
(* What a device keeps on its disk, and what the store keeps for the       *)
(* manifest. Each section has its own inductive invariant, and the faults  *)
(* it needs to exclude.                                                    *)
(*                                                                         *)
(* Installed copies (any fault): the candidate that replaces a working     *)
(* copy keeps its changes from the moment it is built or recognized,       *)
(* because the mutations of the device wait for the commit lock meanwhile. *)
(*                                                                         *)
(* Local changes (no restore): where a copy differs from its recorded      *)
(* base, its user edited it, or an interrupted installation or refresh     *)
(* brought in a generation after the base.                                 *)
(*                                                                         *)
(* Conflicts (no interruption, no delay; old manifests may come back):     *)
(* where the copy differs from the base, the user edited it, and a         *)
(* conflict is stored only while its operation is stopped by it. After an  *)
(* interruption the device may meet its own unrecognized commit as a       *)
(* foreign one.                                                            *)
(*                                                                         *)
(* Bases (no restore): the base of the recorded generation is never        *)
(* pruned, and the one that will be recorded is retained before it is.     *)
(*                                                                         *)
(* Objects (no delay, no restore): an operation never rewrites the object  *)
(* of a generation it committed, since its retry reads that commit, or a   *)
(* later one, and builds on it. A late request or an old manifest names an *)
(* object the retry has rewritten.                                         *)
(*                                                                         *)
(* Constraints (any fault): whatever is published, read or built satisfies *)
(* the constraints of the database, since a merge that breaks one is       *)
(* reported and not committed.                                             *)
(***************************************************************************)
EXTENDS PublishConsent

-----------------------------------------------------------------------------
(* The merged snapshot keeps what this device changed                      *)

\* `library' has the row of the working copy, or the user did not touch it.
Keeps(d, library) ==
    \A key \in Keys :
        \/ library[key] = working[d][key]
        \/ committed[d] > 0 /\ working[d][key] = baseId[d][key]

\* A candidate that will replace the working copy keeps the local changes from
\* the moment it is built or recognized.
CandidateKeeps(d) ==
    (\/ pc[d] \in {"upload", "commit", "verify", "retain"} /\ rebased[d]
     \/ pc[d] = "install")
        => Keeps(d, candidate[d])

KeepInv == \A d \in Device : CandidateKeeps(d)

\* What carries the local changes keeps them.
LEMMA CarryingKeeps ==
    ASSUME NEW d \in Device, NEW library, HasVerifiedBase(d),
           CarriesLocalChanges(baseId[d], library, working[d])
    PROVE  Keeps(d, library)
BY DEF HasVerifiedBase, CarriesLocalChanges, ChangedKeys, Keeps

\* What a publication builds to replace the working copy keeps the changes.
LEMMA BuiltKeeps ==
    ASSUME TypeOK, NEW d \in Device, BuildCandidate(d)
    PROVE  CandidateKeeps(d)'
<1> USE DEF TypeOK, SessionTypeOK, Goto
<1>1. UNCHANGED <<working, committed, baseId>>
  BY DEF BuildCandidate, copyVars
<1>2. ASSUME NEW library \in Library, NEW replaces \in BOOLEAN,
             Publish(d, library, replaces), replaces => Keeps(d, library)
      PROVE  CandidateKeeps(d)'
  <2>1. candidate'[d] = library /\ rebased'[d] = replaces /\ pc'[d] = "upload"
    BY <1>2 DEF Publish
  <2> QED BY <1>1, <1>2, <2>1 DEF CandidateKeeps, Keeps
<1>3. ASSUME pc'[d] = "idle" PROVE CandidateKeeps(d)'
  BY <1>3 DEF CandidateKeeps
<1>4. CASE PublishUnmoved(d)
  BY <1>2, <1>4, FieldTypes DEF PublishUnmoved
<1>5. CASE GiveUpContended(d) \/ RebaseOntoCorruptSnapshot(d) \/ RebaseConflicts(d)
  BY <1>3, <1>5 DEF GiveUpContended, RebaseOntoCorruptSnapshot, RebaseConflicts,
     StopWithConflict, Fail
<1>6. CASE ReplaceRemoteOrStop(d)
  <2>1. Keeps(d, working[d])
    BY DEF Keeps
  <2>2. CASE Policy(d).whole
    BY <1>2, <1>6, <2>1, <2>2, FieldTypes DEF ReplaceRemoteOrStop
  <2>3. CASE ~Policy(d).whole
    BY <1>3, <1>6, <2>3 DEF ReplaceRemoteOrStop, StopWithConflict, Fail
  <2> QED BY <2>2, <2>3
<1>7. CASE RebaseMerges(d)
  <2>1. /\ baseId[d] \in Library /\ whole[d] \in BOOLEAN /\ HasVerifiedBase(d)
        /\ seen[d].library \in Library /\ working[d] \in Library /\ Policy(d) \in Conflict
    BY <1>7, FieldTypes, RebaseOutcomeType
    DEF StateTypeOK, OperationTypeOK, RebaseMerges
  <2>2. RebaseOutcome(d).kind = "merged" /\ Publish(d, RebaseOutcome(d).library, TRUE)
    BY <1>7 DEF RebaseMerges
  <2>3. CarriesLocalChanges(baseId[d], RebaseOutcome(d).library, working[d])
    BY <2>1, <2>2, MergeCarriesLocalChanges DEF RebaseOutcome
  <2> QED BY <1>2, <2>1, <2>2, <2>3, CarryingKeeps, RebaseOutcomeType
<1> QED
  BY <1>4, <1>5, <1>6, <1>7
  DEF BuildCandidate, RebaseCandidate, RebaseWithoutBase, RebaseUnmergeable

\* A step of a device keeps what the invariant says of it.
LEMMA OwnKeeps ==
    ASSUME TypeOK, NEW d \in Device, CandidateKeeps(d),
           UserStep(d) \/ DeviceStep(d) \/ FaultStep(d)
    PROVE  CandidateKeeps(d)'
<1> USE DEF TypeOK, SessionTypeOK, Goto
<1>1. ASSUME pc'[d] \notin {"upload", "commit", "verify", "retain", "install"}
      PROVE  CandidateKeeps(d)'
  BY <1>1 DEF CandidateKeeps
<1>2. CASE Edit(d) \/ ProjectEdit(d) \/ Republish(d)
  BY <1>1, <1>2, EditCommits, EditMints DEF EditSteps
<1>3. CASE KeepLocal(d) \/ UseRemotePull(d)
  BY <1>1, <1>3 DEF KeepLocal, UseRemotePull
<1>4. CASE StartPublish(d) \/ StatManifest(d) \/ ReadManifest(d)
  BY <1>1, <1>4 DEF StartPublish, StatManifest, ReadManifest, Fail
<1>5. CASE DeleteLeftover(d) \/ UploadSnapshot(d) \/ CommitManifest(d) \/ VerifyManifest(d)
  BY <1>5 DEF DeleteLeftover, UploadSnapshot, CommitManifest, VerifyManifest, Fail,
     CandidateKeeps, Keeps, copyVars, stateVars, sessionVars
<1>6. CASE ResolveAccepted(d)
  <2>1. UNCHANGED <<working, committed, baseId>> /\ candidate'[d] = seen[d].library
    BY <1>6 DEF ResolveAccepted, copyVars
  <2>2. CASE AcceptIdentical(d)
    BY <2>2 DEF AcceptIdentical, CandidateKeeps
  <2>3. CASE AcceptCarried(d)
    <3>1. Keeps(d, seen[d].library)
      BY <2>3, CarryingKeeps DEF AcceptCarried
    <3> QED BY <2>1, <3>1 DEF CandidateKeeps, Keeps
  <2>4. CASE AcceptCorrupt(d) \/ RefuseAccepted(d)
    BY <1>1, <2>4 DEF AcceptCorrupt, RefuseAccepted, Fail
  <2> QED BY <1>6, <2>2, <2>3, <2>4 DEF ResolveAccepted
<1>7. CASE RetainBase(d)
  BY <1>7 DEF RetainBase, CandidateKeeps, Keeps, stateVars, sessionVars
<1>8. CASE InstallWorkingCopy(d) \/ RecordCompleted(d) \/ PruneBases(d) \/ SaveRevision(d)
  BY <1>1, <1>8 DEF InstallWorkingCopy, RecordCompleted, PruneBases, SaveRevision
<1>9. CASE UseRemoteStep(d) \/ RefreshStep(d)
  BY <1>1, <1>9 DEF UseRemoteStep, UseRemoteCancel, UseRemoteCopy, UseRemoteRecord,
     RefreshStep, PlanRefresh, PullSnapshot, RetainPulledBase, RecordPull, SavePulledRevision
<1>10. CASE FaultStep(d)
  BY <1>1, <1>10 DEF FaultStep, Interrupt, DelayCommit, SessionEnds, Fail
<1> QED
  BY <1>2, <1>3, <1>4, <1>5, <1>6, <1>7, <1>8, <1>9, <1>10, BuiltKeeps
  DEF UserStep, DeviceStep, PublishStep

\* The candidate that replaces the working copy keeps its changes, always.
LEMMA KeepInvHolds == Spec => []KeepInv
<1>1. Init => KeepInv
  BY DEF Init, InitialState, KeepInv, CandidateKeeps
<1>2. TypeOK /\ KeepInv /\ [Next]_vars => KeepInv'
  <2> SUFFICES ASSUME TypeOK, KeepInv, [Next]_vars, NEW d \in Device
               PROVE  CandidateKeeps(d)'
    BY DEF KeepInv
  <2>1. CASE UserStep(d) \/ DeviceStep(d) \/ FaultStep(d)
    BY <2>1, OwnKeeps DEF KeepInv
  <2>2. CASE Unaffected(d)
    BY <2>2 DEF Unaffected, KeepInv, CandidateKeeps, Keeps
  <2> QED BY <2>1, <2>2, OwnOrUnaffected
<1> QED BY <1>1, <1>2, TypeCorrect, PTL DEF Spec

\* Only the installation leads from "install" to "record".
LEMMA InstallsOnlyByInstalling ==
    ASSUME TypeOK, [Next]_vars, NEW d \in Device, pc[d] = "install", pc'[d] = "record"
    PROVE  InstallWorkingCopy(d)
<1> USE DEF TypeOK, Goto
<1>1. ~Unaffected(d)
  BY DEF Unaffected
<1>2. ~UserStep(d) /\ ~UseRemoteStep(d) /\ ~RefreshStep(d)
  BY DEF UserStep, Edit, ProjectEdit, Republish, KeepLocal, UseRemotePull, Resolvable,
     UseRemoteStep, UseRemoteCancel, UseRemoteCopy, UseRemoteRecord, RefreshStep,
     PlanRefresh, PullSnapshot, RetainPulledBase, RecordPull, SavePulledRevision
<1>3. ~FaultStep(d)
  BY DEF FaultStep, Interrupt, DelayCommit, SessionEnds, Fail
<1>4. PublishStep(d) => InstallWorkingCopy(d)
  BY DEF PublishStep, StartPublish, StatManifest, ReadManifest, BuildCandidate,
     PublishUnmoved, GiveUpContended, RebaseCandidate, DeleteLeftover, UploadSnapshot,
     CommitManifest, VerifyManifest, ResolveAccepted, RetainBase, RecordCompleted,
     PruneBases, SaveRevision
<1> QED BY <1>1, <1>2, <1>3, <1>4, OwnOrUnaffected DEF DeviceStep

\* Installing the merged snapshot keeps every row this device changed since
\* its base, whatever was interrupted, late or restored before.
THEOREM InstallationsKeepLocalChanges == Spec => InstallKeepsLocalChanges
<1> DEFINE Kept == \A d \in Device : pc[d] = "install" /\ pc'[d] = "record" =>
               \A key \in Keys :
                   \/ working'[d][key] = working[d][key]
                   \/ committed[d] > 0 /\ working[d][key] = baseId[d][key]
<1>1. TypeOK /\ KeepInv /\ [Next]_vars => [Kept]_vars
  <2> SUFFICES ASSUME TypeOK, KeepInv, [Next]_vars, NEW d \in Device,
                      pc[d] = "install", pc'[d] = "record", NEW key \in Keys
               PROVE  \/ working'[d][key] = working[d][key]
                      \/ committed[d] > 0 /\ working[d][key] = baseId[d][key]
    OBVIOUS
  <2>1. working'[d] = candidate[d]
    BY InstallsOnlyByInstalling DEF InstallWorkingCopy, TypeOK, CopyTypeOK
  <2> QED BY <2>1 DEF KeepInv, CandidateKeeps, Keeps
<1> QED BY <1>1, TypeCorrect, KeepInvHolds, PTL DEF Spec, InstallKeepsLocalChanges

-----------------------------------------------------------------------------
(* Local changes are explained                                             *)

\* A publication records what the working copy holds.
CandidateIsCopy(d) ==
    /\ pc[d] \in {"upload", "commit", "verify", "retain"} /\ ~rebased[d]
        => candidate[d] = working[d]
    /\ pc[d] = "record" => candidate[d] = working[d]
    /\ pc[d] = "useRecord" => seen[d].library = working[d]

CopyInv == \A d \in Device : CandidateIsCopy(d)

\* A step of a device keeps its candidate the copy it publishes.
LEMMA OwnCopy ==
    ASSUME TypeOK, NEW d \in Device, CandidateIsCopy(d),
           UserStep(d) \/ DeviceStep(d) \/ FaultStep(d)
    PROVE  CandidateIsCopy(d)'
<1> USE DEF TypeOK, CopyTypeOK, SessionTypeOK, Goto, CandidateIsCopy
<1>1. CASE Edit(d) \/ ProjectEdit(d) \/ Republish(d)
  BY <1>1, EditCommits, EditMints DEF EditSteps
<1>2. CASE KeepLocal(d) \/ UseRemotePull(d)
  BY <1>2 DEF KeepLocal, UseRemotePull
<1>3. CASE StartPublish(d) \/ StatManifest(d) \/ ReadManifest(d)
  BY <1>3 DEF StartPublish, StatManifest, ReadManifest, Fail
<1>4. CASE BuildCandidate(d)
  <2>1. UNCHANGED working
    BY <1>4 DEF BuildCandidate, copyVars
  <2>2. \/ pc'[d] = "idle"
        \/ pc'[d] = "upload" /\ (rebased'[d] \/ candidate'[d] = working[d])
    BY <1>4 DEF BuildCandidate, PublishUnmoved, GiveUpContended, RebaseCandidate,
       RebaseOntoCorruptSnapshot, RebaseWithoutBase, RebaseMerges, RebaseConflicts,
       RebaseUnmergeable, ReplaceRemoteOrStop, Publish, StopWithConflict, Fail
  <2> QED BY <2>1, <2>2
<1>5. CASE DeleteLeftover(d) \/ UploadSnapshot(d) \/ CommitManifest(d) \/ VerifyManifest(d)
  BY <1>5 DEF DeleteLeftover, UploadSnapshot, CommitManifest, VerifyManifest, Fail, copyVars,
     sessionVars
<1>6. CASE ResolveAccepted(d)
  BY <1>6 DEF ResolveAccepted, AcceptIdentical, AcceptCarried, AcceptCorrupt, RefuseAccepted,
     Fail, copyVars
<1>7. CASE RetainBase(d) \/ InstallWorkingCopy(d)
  BY <1>7 DEF RetainBase, InstallWorkingCopy, sessionVars
<1>8. CASE RecordCompleted(d) \/ PruneBases(d) \/ SaveRevision(d)
  BY <1>8 DEF RecordCompleted, PruneBases, SaveRevision
<1>9. CASE UseRemoteStep(d) \/ RefreshStep(d)
  BY <1>9 DEF UseRemoteStep, UseRemoteCancel, UseRemoteCopy, UseRemoteRecord, RefreshStep,
     PlanRefresh, PullSnapshot, RetainPulledBase, RecordPull, SavePulledRevision, sessionVars
<1>10. CASE FaultStep(d)
  BY <1>10 DEF FaultStep, Interrupt, DelayCommit, SessionEnds, Fail
<1> QED
  BY <1>1, <1>2, <1>3, <1>4, <1>5, <1>6, <1>7, <1>8, <1>9, <1>10
  DEF UserStep, DeviceStep, PublishStep

\* Whatever faults happen, what is recorded is what the copy holds.
LEMMA CopyInvHolds == Spec => []CopyInv
<1>1. Init => CopyInv
  BY DEF Init, InitialState, CopyInv, CandidateIsCopy
<1>2. TypeOK /\ CopyInv /\ [Next]_vars => CopyInv'
  <2> SUFFICES ASSUME TypeOK, CopyInv, [Next]_vars, NEW d \in Device
               PROVE  CandidateIsCopy(d)'
    BY DEF CopyInv
  <2>1. CASE UserStep(d) \/ DeviceStep(d) \/ FaultStep(d)
    BY <2>1, OwnCopy DEF CopyInv
  <2>2. CASE Unaffected(d)
    BY <2>2 DEF Unaffected, CopyInv, CandidateIsCopy
  <2> QED BY <2>1, <2>2, OwnOrUnaffected
<1> QED BY <1>1, <1>2, TypeCorrect, PTL DEF Spec

\* A generation after the recorded base brought the row into the copy.
Arrived(d, key) ==
    \E past \in 1..Len(history) :
        /\ history[past].generation > committed[d]
        /\ history[past].library[key] = working[d][key]

Explained(d) ==
    committed[d] > 0 =>
        \A key \in ChangedKeys(baseId[d], working[d]) : key \in edited[d] \/ Arrived(d, key)

ExplainInv == \A d \in Device : Explained(d)

\* What was ever written stays in the history.
LEMMA HistoryGrows ==
    ASSUME TypeOK, [Next]_vars
    PROVE  \A past \in 1..Len(history) :
                past \in 1..Len(history') /\ history'[past] = history[past]
<1>1. CASE UNCHANGED <<manifest, revision, history>>
  BY <1>1
<1>2. ASSUME NEW m \in Manifest, ReplaceManifest(m)
      PROVE  \A past \in 1..Len(history) :
                past \in 1..Len(history') /\ history'[past] = history[past]
  <2>1. history \in Seq(Manifest) /\ history' = Append(history, m)
    BY <1>2 DEF ReplaceManifest, TypeOK, RemoteTypeOK
  <2> QED BY <2>1
<1> QED BY <1>1, <1>2, ManifestSteps

\* What explains a copy goes on explaining it.
LEMMA ExplainedStays ==
    ASSUME TypeOK, [Next]_vars, NEW d \in Device, Explained(d),
           UNCHANGED <<working[d], edited[d], committed[d], baseId[d]>>
    PROVE  Explained(d)'
<1>1. \A key : Arrived(d, key) => Arrived(d, key)'
  BY HistoryGrows DEF Arrived
<1> QED BY <1>1 DEF Explained

\* A row of a published library that is no older than the base is the base's
\* row or explained by its generation.
LEMMA PublishedExplains ==
    ASSUME TypeOK, BaseInv, HistoryInv, [Next]_vars, NEW d \in Device,
           UNCHANGED <<committed[d], baseId[d]>>, NEW generation \in Nat,
           <<generation, working'[d]>> \in Published, generation >= committed[d]
    PROVE  Explained(d)'
<1> SUFFICES ASSUME committed[d] > 0, NEW key \in ChangedKeys(baseId[d], working'[d])
             PROVE  Arrived(d, key)'
  BY DEF Explained
<1>1. PICK past \in 1..Len(history) :
          history[past].generation = generation /\ history[past].library = working'[d]
  BY DEF Published
<1>2. past \in 1..Len(history') /\ history'[past] = history[past]
  BY HistoryGrows
<1>3. generation # committed[d]
  <2> SUFFICES ASSUME generation = committed[d] PROVE FALSE
    OBVIOUS
  <2>1. PICK base \in 1..Len(history) :
            history[base].generation = committed[d] /\ history[base].library = baseId[d]
    BY DEF BaseInv, RecordedIsPublished, Published
  <2>2. baseId[d] = working'[d]
    BY <1>1, <2>1 DEF HistoryInv, HistoryIsLinear
  <2> QED BY <2>2 DEF ChangedKeys
<1>4. generation > committed[d]
  BY <1>3 DEF TypeOK, StateTypeOK
<1> QED BY <1>1, <1>2, <1>4 DEF Arrived

\* An edit explains the row it changes, and no other row changes.
LEMMA EditIsExplained ==
    ASSUME TypeOK, [Next]_vars, NEW d \in Device, Edit(d), Explained(d)
    PROVE  Explained(d)'
<1>1. PICK key \in Keys, row \in Rows :
          /\ working' = [working EXCEPT ![d] = [working[d] EXCEPT ![key] = row]]
          /\ edited' = [edited EXCEPT ![d] = @ \cup {key}]
  BY DEF Edit
<1>2. /\ \A other \in Keys \ {key} : working'[d][other] = working[d][other]
      /\ edited'[d] = edited[d] \cup {key}
  BY <1>1 DEF TypeOK, CopyTypeOK, Library
<1>3. UNCHANGED <<history, committed, baseId>>
  BY DEF Edit, remoteVars, stateVars
<1>4. \A other \in Keys \ {key} : Arrived(d, other) => Arrived(d, other)'
  BY <1>2, <1>3 DEF Arrived
<1> QED BY <1>2, <1>3, <1>4 DEF Explained, ChangedKeys

\* A step of a device keeps what the invariant says of it.
LEMMA OwnExplained ==
    ASSUME TypeOK, BaseInv, HistoryInv, AdvanceInv, [Next]_vars, NEW d \in Device,
           CandidateIsCopy(d), Explained(d), UserStep(d) \/ DeviceStep(d) \/ FaultStep(d)
    PROVE  Explained(d)'
<1> USE DEF TypeOK, CopyTypeOK, StateTypeOK
<1>1. ASSUME UNCHANGED <<working[d], edited[d], committed[d], baseId[d]>>
      PROVE  Explained(d)'
  BY <1>1, ExplainedStays
<1>2. ASSUME baseId'[d] = working'[d] PROVE Explained(d)'
  BY <1>2 DEF Explained, ChangedKeys
<1>3. CASE Edit(d)
  BY <1>3, EditIsExplained
<1>4. CASE ProjectEdit(d) \/ Republish(d)
  BY <1>1, <1>4, EditMints DEF copyVars
<1>5. CASE KeepLocal(d) \/ UseRemotePull(d)
  BY <1>1, <1>5 DEF KeepLocal, UseRemotePull, copyVars, stateVars
<1>6. CASE \/ StartPublish(d) \/ StatManifest(d) \/ ReadManifest(d) \/ BuildCandidate(d)
           \/ DeleteLeftover(d) \/ UploadSnapshot(d) \/ CommitManifest(d) \/ VerifyManifest(d)
           \/ ResolveAccepted(d) \/ RetainBase(d) \/ PruneBases(d) \/ SaveRevision(d)
  BY <1>1, <1>6 DEF StartPublish, StatManifest, ReadManifest, BuildCandidate, DeleteLeftover,
     UploadSnapshot, CommitManifest, VerifyManifest, ResolveAccepted, RetainBase, PruneBases,
     SaveRevision, copyVars, stateVars
<1>7. CASE InstallWorkingCopy(d)
  <2>1. pc[d] = "install" /\ working'[d] = candidate[d] /\ UNCHANGED <<committed, baseId>>
    BY <1>7 DEF InstallWorkingCopy, stateVars
  <2>2. target[d] > committed[d] /\ target[d] \in Nat
    BY <2>1, FieldTypes DEF AdvanceInv, DeviceAdvances, BuildsAhead
  <2>3. <<target[d], candidate[d]>> \in Published
    BY <2>1, <2>2 DEF BaseInv, CandidateIsPublished
  <2> QED BY <2>1, <2>2, <2>3, PublishedExplains
<1>8. CASE RecordCompleted(d)
  BY <1>2, <1>8 DEF RecordCompleted, CandidateIsCopy
<1>9. CASE UseRemoteCancel(d)
  BY <1>1, <1>9 DEF UseRemoteCancel, copyVars, stateVars
<1>10. CASE UseRemoteCopy(d) \/ PullSnapshot(d)
  <2>1. CASE UNCHANGED working /\ PullSnapshot(d)
    BY <1>1, <2>1 DEF PullSnapshot, stateVars
  <2>2. CASE working'[d] = seen[d].library
    <3>1. pc[d] \in {"useCopy", "pull"} /\ UNCHANGED <<committed, baseId>>
      BY <1>10 DEF UseRemoteCopy, PullSnapshot, stateVars
    <3>2. seen[d].generation >= committed[d] /\ seen[d].generation \in Nat
      BY <3>1, FieldTypes DEF AdvanceInv, DeviceAdvances, BuildsAhead
    <3>3. CASE committed[d] > 0
      <4>1. <<seen[d].generation, seen[d].library>> \in Published
        BY <3>2, <3>3 DEF BaseInv, SeenIsPublished
      <4> QED BY <2>2, <3>1, <3>2, <4>1, PublishedExplains
    <3>4. CASE ~(committed[d] > 0)
      BY <3>1, <3>4 DEF Explained
    <3> QED BY <3>3, <3>4
  <2> QED BY <1>10, <2>1, <2>2 DEF UseRemoteCopy, PullSnapshot
<1>11. CASE UseRemoteRecord(d) \/ RecordPull(d)
  BY <1>2, <1>11 DEF UseRemoteRecord, RecordPull, CandidateIsCopy, copyVars
<1>12. CASE PlanRefresh(d) \/ RetainPulledBase(d) \/ SavePulledRevision(d)
  BY <1>1, <1>12 DEF PlanRefresh, RetainPulledBase, SavePulledRevision, copyVars, stateVars
<1>13. CASE FaultStep(d)
  BY <1>1, <1>13 DEF FaultStep, Interrupt, DelayCommit, SessionEnds, copyVars
<1> QED
  BY <1>3, <1>4, <1>5, <1>6, <1>7, <1>8, <1>9, <1>10, <1>11, <1>12, <1>13
  DEF UserStep, DeviceStep, PublishStep, UseRemoteStep, RefreshStep

\* What a rebase will publish as this device's changes is what its user edited
\* since the last recorded publication, or a row an interrupted installation
\* or refresh brought in from a generation after the base - for any number of
\* crashes at any step and of late requests, as long as no old manifest is put
\* back.
THEOREM LocalChangesAreAlwaysExplained ==
    ASSUME "restore" \notin FaultKinds PROVE Spec => []LocalChangesAreExplained
<1>1. Init => ExplainInv
  BY DEF Init, InitialState, ExplainInv, Explained, ChangedKeys
<1>2. TypeOK /\ BaseInv /\ HistoryInv /\ AdvanceInv /\ CopyInv /\ ExplainInv /\ [Next]_vars
        => ExplainInv'
  <2> SUFFICES ASSUME TypeOK, BaseInv, HistoryInv, AdvanceInv, CopyInv, ExplainInv,
                      [Next]_vars, NEW d \in Device
               PROVE  Explained(d)'
    BY DEF ExplainInv
  <2>1. CASE UserStep(d) \/ DeviceStep(d) \/ FaultStep(d)
    BY <2>1, OwnExplained DEF CopyInv, ExplainInv
  <2>2. CASE Unaffected(d)
    BY <2>2, ExplainedStays DEF Unaffected, ExplainInv
  <2> QED BY <2>1, <2>2, OwnOrUnaffected
<1>3. ExplainInv => LocalChangesAreExplained
  BY DEF ExplainInv, Explained, Arrived, LocalChangesAreExplained
<1> QED
  BY <1>1, <1>2, <1>3, TypeCorrect, BaseInvHolds, HistoryInvHolds, AdvanceInvHolds,
     CopyInvHolds, PTL
  DEF Spec

-----------------------------------------------------------------------------
(* Conflicts name own edits                                                *)

\* Where the working copy differs from the base, the user edited it.  The
\* recording steps in the middle of a replacement are excepted: there base and
\* copy are about to become the same snapshot.
EditsAreKnown(d) ==
    pc[d] \notin {"record", "pulled", "pullRecord", "useRecord"}
        => ChangedKeys(baseId[d], working[d]) \subseteq edited[d]

\* A conflict is stored only while its operation is stopped by it.
NoConflictOpen(d) ==
    pc[d] \in BeforeCommit \/ opState[d] \in {"pending", "retryWait", "running"}
        => conflict[d] = Stop

ConflictIsOwn(d) ==
    opState[d] = "conflicted" /\ ~conflict[d].whole => conflict[d].songs \subseteq edited[d]

DeviceEdits(d) ==
    /\ EditsAreKnown(d) /\ NoConflictOpen(d) /\ ConflictIsOwn(d)
    /\ RecordsWithoutConflict(d)

EditInv == \A d \in Device : DeviceEdits(d)

\* A conflict that does not concern the whole repository names songs whose
\* rows the local copy changed.
LEMMA ConflictOverLocalChanges ==
    ASSUME NEW base, NEW remote, NEW local, NEW wholeRepository, NEW policy,
           MergeOntoRemote(base, remote, local, wholeRepository, policy).kind = "conflict",
           ~MergeOntoRemote(base, remote, local, wholeRepository, policy).whole
    PROVE  MergeOntoRemote(base, remote, local, wholeRepository, policy).songs
             \subseteq ChangedKeys(base, local)
BY DEF MergeOntoRemote, Conflicting, Merged, Unmergeable, Clash

\* A local mutation adds the key it changes and starts without a conflict.
LEMMA MintedHasNoConflict ==
    ASSUME TypeOK, NEW d \in Device, NoConflictOpen(d), NEW wholeRepository,
           MintOperation(d, wholeRepository)
    PROVE  conflict'[d] = Stop /\ opState'[d] # "conflicted"
<1> USE DEF TypeOK, OperationTypeOK, MintOperation, NoConflictOpen
<1>1. CASE opState[d] \in Mergeable
  BY <1>1 DEF Mergeable
<1>2. CASE opState[d] \notin Mergeable
  BY <1>2
<1> QED BY <1>1, <1>2

\* A song the working copy changed has been edited on this device.
LEMMA EditIsKnown ==
    ASSUME TypeOK, NEW d \in Device, Edit(d), EditsAreKnown(d)
    PROVE  ChangedKeys(baseId[d], working'[d]) \subseteq edited'[d]
<1>1. PICK key \in Keys, row \in Rows :
          /\ working' = [working EXCEPT ![d] = [working[d] EXCEPT ![key] = row]]
          /\ edited' = [edited EXCEPT ![d] = @ \cup {key}]
  BY DEF Edit
<1>2. /\ working'[d] = [working[d] EXCEPT ![key] = row] /\ edited'[d] = edited[d] \cup {key}
      /\ working[d] \in [Keys -> Rows]
  BY <1>1 DEF TypeOK, CopyTypeOK, Library
<1>3. ChangedKeys(baseId[d], working[d]) \subseteq edited[d]
  BY DEF EditsAreKnown, Edit
<1> QED BY <1>2, <1>3 DEF ChangedKeys

\* A step of a device keeps what the invariant says of it.
LEMMA OwnEdits ==
    ASSUME TypeOK, "interruption" \notin FaultKinds, "delay" \notin FaultKinds, BaseInv,
           NEW d \in Device, DeviceEdits(d), CandidateIsCopy(d),
           UserStep(d) \/ DeviceStep(d) \/ FaultStep(d)
    PROVE  DeviceEdits(d)'
<1> USE DEF TypeOK, CopyTypeOK, StateTypeOK, OperationTypeOK, SessionTypeOK, Goto,
            DeviceEdits, EditsAreKnown, NoConflictOpen, ConflictIsOwn, RecordsWithoutConflict,
            BeforeCommit
<1>1. CASE Edit(d)
  <2>1. /\ pc[d] = "idle" /\ pc'[d] \in EditSteps
        /\ UNCHANGED <<baseId, localState, opState, conflict>>
    BY <1>1, EditCommits DEF stateVars, opVars
  <2>2. ChangedKeys(baseId[d], working'[d]) \subseteq edited'[d]
    BY <1>1, EditIsKnown
  <2>3. edited[d] \subseteq edited'[d]
    BY <1>1 DEF Edit
  <2> QED BY <2>1, <2>2, <2>3 DEF EditSteps
<1>2. CASE ProjectEdit(d) \/ Republish(d)
  <2>1. /\ pc[d] \in {"idle"} \cup EditSteps /\ pc'[d] = "idle"
        /\ UNCHANGED <<baseId, working, edited>>
    BY <1>2, EditMints DEF copyVars
  <2>2. conflict'[d] = Stop /\ opState'[d] # "conflicted" /\ localState'[d] # "clean"
    BY <1>2, EditMints, MintedOperation, MintedHasNoConflict
  <2> QED BY <2>1, <2>2 DEF EditSteps
<1>3. CASE KeepLocal(d) \/ UseRemotePull(d)
  BY <1>3 DEF KeepLocal, UseRemotePull, Resolvable, copyVars, stateVars, opVars
<1>4. CASE StartPublish(d) \/ StatManifest(d)
  BY <1>4 DEF StartPublish, StatManifest, Mergeable, copyVars, stateVars, opVars
<1>5. CASE ReadManifest(d)
  BY <1>5 DEF ReadManifest, Fail, Stop, copyVars
<1>6. CASE BuildCandidate(d)
  <2>1. UNCHANGED <<working, edited, baseId>> /\ pc[d] = "rebase"
    BY <1>6 DEF BuildCandidate, PublishUnmoved, GiveUpContended, RebaseCandidate, copyVars
  <2>2. ASSUME NEW library \in Library, NEW replaces \in BOOLEAN,
               Publish(d, library, replaces), ~replaces => library = working[d]
        PROVE  DeviceEdits(d)'
    BY <2>1, <2>2 DEF Publish
  <2>3. ASSUME NEW songs \in SUBSET Songs, NEW wholeRepository \in BOOLEAN,
               StopWithConflict(d, songs, wholeRepository),
               ~wholeRepository => songs \subseteq ChangedKeys(baseId[d], working[d])
        PROVE  DeviceEdits(d)'
    BY <2>1, <2>3 DEF StopWithConflict, Fail
  <2>4. CASE PublishUnmoved(d)
    BY <2>2, <2>4, FieldTypes DEF PublishUnmoved
  <2>5. CASE GiveUpContended(d) \/ RebaseOntoCorruptSnapshot(d)
    BY <2>1, <2>5 DEF GiveUpContended, RebaseOntoCorruptSnapshot, Fail
  <2>6. CASE ReplaceRemoteOrStop(d)
    BY <2>2, <2>3, <2>6, FieldTypes DEF ReplaceRemoteOrStop
  <2>7. CASE RebaseMerges(d)
    BY <2>2, <2>7, RebaseOutcomeType DEF RebaseMerges
  <2>8. CASE RebaseConflicts(d)
    <3>1. ~RebaseOutcome(d).whole
            => RebaseOutcome(d).songs \subseteq ChangedKeys(baseId[d], working[d])
      BY <2>8, ConflictOverLocalChanges DEF RebaseConflicts, RebaseOutcome
    <3> QED BY <2>3, <2>8, <3>1, RebaseOutcomeType DEF RebaseConflicts
  <2> QED
    BY <1>6, <2>4, <2>5, <2>6, <2>7, <2>8
    DEF BuildCandidate, RebaseCandidate, RebaseWithoutBase, RebaseUnmergeable
<1>7. CASE DeleteLeftover(d) \/ UploadSnapshot(d) \/ CommitManifest(d)
  BY <1>7 DEF DeleteLeftover, UploadSnapshot, CommitManifest, copyVars, stateVars, opVars,
     sessionVars
<1>8. CASE VerifyManifest(d)
  BY <1>8 DEF VerifyManifest, Fail, Stop, copyVars, sessionVars
<1>9. CASE ResolveAccepted(d)
  BY <1>9 DEF ResolveAccepted, AcceptIdentical, AcceptCarried, AcceptCorrupt, RefuseAccepted,
     Fail, Stop, copyVars
<1>10. CASE RetainBase(d) \/ InstallWorkingCopy(d)
  BY <1>10 DEF RetainBase, InstallWorkingCopy, stateVars, opVars, sessionVars
<1>11. CASE RecordCompleted(d)
  BY <1>11 DEF RecordCompleted, CandidateIsCopy, ChangedKeys, sessionVars
<1>12. CASE PruneBases(d) \/ SaveRevision(d)
  BY <1>12 DEF PruneBases, SaveRevision, copyVars, stateVars, opVars, sessionVars
<1>13. CASE UseRemoteCancel(d) \/ UseRemoteCopy(d)
  BY <1>13 DEF UseRemoteCancel, UseRemoteCopy, copyVars, stateVars, opVars, sessionVars
<1>14. CASE UseRemoteRecord(d) \/ RecordPull(d)
  BY <1>14 DEF UseRemoteRecord, RecordPull, CandidateIsCopy, ChangedKeys, copyVars, opVars,
     sessionVars
<1>15. CASE PlanRefresh(d) \/ PullSnapshot(d) \/ RetainPulledBase(d) \/ SavePulledRevision(d)
  BY <1>15 DEF PlanRefresh, PullSnapshot, RetainPulledBase, SavePulledRevision, copyVars,
     stateVars, opVars, sessionVars
<1>16. ~FaultStep(d)
  BY DEF FaultStep, Interrupt, DelayCommit, Fault
<1> QED
  BY <1>1, <1>2, <1>3, <1>4, <1>5, <1>6, <1>7, <1>8, <1>9, <1>10, <1>11, <1>12, <1>13,
     <1>14, <1>15, <1>16
  DEF UserStep, DeviceStep, PublishStep, UseRemoteStep, RefreshStep

\* Without interruptions and delays every conflict is about own edits.
LEMMA EditInvHolds ==
    ASSUME "interruption" \notin FaultKinds, "delay" \notin FaultKinds
    PROVE  Spec => []EditInv
<1>1. Init => EditInv
  BY DEF Init, InitialState, EditInv, DeviceEdits, EditsAreKnown, NoConflictOpen,
     ConflictIsOwn, RecordsWithoutConflict, ChangedKeys, BeforeCommit
<1>2. TypeOK /\ BaseInv /\ CopyInv /\ EditInv /\ [Next]_vars => EditInv'
  <2> SUFFICES ASSUME TypeOK, BaseInv, CopyInv, EditInv, [Next]_vars, NEW d \in Device
               PROVE  DeviceEdits(d)'
    BY DEF EditInv
  <2>1. CASE UserStep(d) \/ DeviceStep(d) \/ FaultStep(d)
    BY <2>1, OwnEdits DEF EditInv, CopyInv
  <2>2. CASE Unaffected(d)
    BY <2>2 DEF Unaffected, EditInv, DeviceEdits, EditsAreKnown, NoConflictOpen,
       ConflictIsOwn, RecordsWithoutConflict
  <2> QED BY <2>1, <2>2, OwnOrUnaffected
<1> QED BY <1>1, <1>2, TypeCorrect, BaseInvHolds, CopyInvHolds, PTL DEF Spec

\* A Pre-Publish Conflict over songs accuses the user only of songs edited on
\* this device since its last recorded publication - as long as no publication
\* is interrupted after its commit, also when old manifests are put back.
THEOREM ConflictsAreAboutOwnEdits ==
    ASSUME "interruption" \notin FaultKinds, "delay" \notin FaultKinds
    PROVE  Spec => []ConflictsNameOwnEdits
<1>1. EditInv => ConflictsNameOwnEdits
  BY DEF EditInv, DeviceEdits, ConflictIsOwn, ConflictsNameOwnEdits
<1> QED BY <1>1, EditInvHolds, PTL

-----------------------------------------------------------------------------
(* The base a retry verifies is retained                                   *)

\* The snapshot of a generation is among the bases device d retained.
Retains(d, generation, library) ==
    [generation |-> generation, library |-> library] \in bases[d]

\* The recorded base is retained at every step; the one that will be recorded
\* is retained before it is.
BasesKept(d) ==
    /\ committed[d] > 0 => Retains(d, committed[d], baseId[d])
    /\ pc[d] \in {"install", "record"} => Retains(d, target[d], candidate[d])
    /\ pc[d] \in {"pullRecord", "useCancel", "useCopy", "useRecord"}
        => Retains(d, seen[d].generation, seen[d].library)

RetainInv == \A d \in Device : BasesKept(d)

\* A retained base is there.
LEMMA RetainedAdds ==
    ASSUME NEW kept, NEW generation, NEW library
    PROVE  [generation |-> generation, library |-> library]
             \in Retained(kept, generation, library)
BY DEF Retained

\* A generation published one library: retaining any published snapshot leaves
\* the recorded base where it is.
LEMMA RecordedSurvives ==
    ASSUME TypeOK, BaseInv, HistoryInv, NEW d \in Device, BasesKept(d), committed[d] > 0,
           NEW generation, NEW library,
           generation > 0 => <<generation, library>> \in Published
    PROVE  [generation |-> committed[d], library |-> baseId[d]]
             \in Retained(bases[d], generation, library)
<1>1. <<committed[d], baseId[d]>> \in Published
  BY DEF BaseInv, RecordedIsPublished
<1>2. generation = committed[d] => library = baseId[d]
  <2> SUFFICES ASSUME generation = committed[d] PROVE library = baseId[d]
    OBVIOUS
  <2>1. PICK past \in 1..Len(history) :
            history[past].generation = generation /\ history[past].library = library
    BY DEF Published
  <2>2. PICK other \in 1..Len(history) :
            history[other].generation = committed[d] /\ history[other].library = baseId[d]
    BY <1>1 DEF Published
  <2> QED BY <2>1, <2>2 DEF HistoryInv, HistoryIsLinear
<1>3. [generation |-> committed[d], library |-> baseId[d]] \in bases[d]
  BY DEF BasesKept, Retains
<1> QED BY <1>2, <1>3 DEF Retained

\* A step of a device keeps what the invariant says of it.
LEMMA OwnBases ==
    ASSUME TypeOK, BaseInv, HistoryInv, NEW d \in Device, BasesKept(d),
           UserStep(d) \/ DeviceStep(d) \/ FaultStep(d)
    PROVE  BasesKept(d)'
<1>0. ASSUME NEW generation, NEW library,
             generation > 0 => <<generation, library>> \in Published
      PROVE  committed[d] > 0 =>
                [generation |-> committed[d], library |-> baseId[d]]
                    \in Retained(bases[d], generation, library)
  BY <1>0, RecordedSurvives
<1> USE DEF TypeOK, CopyTypeOK, StateTypeOK, SessionTypeOK, Goto, BasesKept, Retains
<1>1. CASE Edit(d) \/ ProjectEdit(d) \/ Republish(d)
  BY <1>1, EditCommits, EditMints DEF EditSteps, copyVars, stateVars
<1>2. CASE KeepLocal(d) \/ StartPublish(d) \/ StatManifest(d) \/ ReadManifest(d)
  BY <1>2 DEF KeepLocal, StartPublish, StatManifest, ReadManifest, Fail, copyVars, stateVars
<1>3. CASE UseRemotePull(d)
  <2>1. /\ bases'[d] = Retained(bases[d], manifest.generation, manifest.library)
        /\ seen'[d] = manifest /\ pc'[d] = "useCancel" /\ UNCHANGED <<committed, baseId>>
    BY <1>3 DEF UseRemotePull, stateVars
  <2>2. manifest.generation > 0 => <<manifest.generation, manifest.library>> \in Published
    BY <2>1 DEF BaseInv, ManifestIsPublished
  <2>3. committed[d] > 0 => [generation |-> committed[d], library |-> baseId[d]] \in bases'[d]
    BY <1>0, <2>1, <2>2
  <2> QED BY <2>1, <2>3, RetainedAdds
<1>4. CASE BuildCandidate(d)
  <2>1. UNCHANGED <<bases, committed, baseId>>
    BY <1>4 DEF BuildCandidate, copyVars
  <2>2. pc'[d] \in {"upload", "idle"}
    BY <1>4 DEF BuildCandidate, PublishUnmoved, GiveUpContended, RebaseCandidate,
       RebaseOntoCorruptSnapshot, RebaseWithoutBase, RebaseMerges, RebaseConflicts,
       RebaseUnmergeable, ReplaceRemoteOrStop, Publish, StopWithConflict, Fail
  <2> QED BY <2>1, <2>2
<1>5. CASE DeleteLeftover(d) \/ UploadSnapshot(d) \/ CommitManifest(d) \/ VerifyManifest(d)
  BY <1>5 DEF DeleteLeftover, UploadSnapshot, CommitManifest, VerifyManifest, Fail,
     copyVars, stateVars
<1>6. CASE ResolveAccepted(d)
  BY <1>6 DEF ResolveAccepted, AcceptIdentical, AcceptCarried, AcceptCorrupt, RefuseAccepted,
     Fail, copyVars
<1>7. CASE RetainBase(d)
  <2>1. /\ bases'[d] = Retained(bases[d], target[d], candidate[d]) /\ pc[d] = "retain"
        /\ pc'[d] \in {"install", "record"}
        /\ UNCHANGED <<committed, baseId, target, candidate>>
    BY <1>7 DEF RetainBase, stateVars, sessionVars
  <2>2. target[d] > 0 => <<target[d], candidate[d]>> \in Published
    BY <2>1 DEF BaseInv, CandidateIsPublished
  <2>3. committed[d] > 0 => [generation |-> committed[d], library |-> baseId[d]] \in bases'[d]
    BY <1>0, <2>1, <2>2
  <2> QED BY <2>1, <2>3, RetainedAdds
<1>8. CASE InstallWorkingCopy(d) \/ RecordCompleted(d)
  BY <1>8 DEF InstallWorkingCopy, RecordCompleted, stateVars, sessionVars
<1>9. CASE PruneBases(d)
  BY <1>9 DEF PruneBases, Pruned, stateVars
<1>10. CASE SaveRevision(d) \/ SavePulledRevision(d)
  BY <1>10 DEF SaveRevision, SavePulledRevision, copyVars
<1>11. CASE UseRemoteStep(d)
  BY <1>11 DEF UseRemoteStep, UseRemoteCancel, UseRemoteCopy, UseRemoteRecord, copyVars,
     stateVars, sessionVars
<1>12. CASE PlanRefresh(d) \/ PullSnapshot(d)
  BY <1>12 DEF PlanRefresh, PullSnapshot, copyVars, stateVars
<1>13. CASE RetainPulledBase(d)
  <2>1. /\ bases'[d] = Retained(bases[d], seen[d].generation, working[d])
        /\ pc'[d] = "pullRecord" /\ UNCHANGED <<committed, baseId, seen>>
        /\ working[d] = seen[d].library
    BY <1>13 DEF RetainPulledBase, stateVars, sessionVars, BaseInv, PulledCopyIsSeen
  <2>2. seen[d].generation > 0 => <<seen[d].generation, seen[d].library>> \in Published
    BY <2>1 DEF BaseInv, SeenIsPublished
  <2>3. committed[d] > 0 => [generation |-> committed[d], library |-> baseId[d]] \in bases'[d]
    BY <1>0, <2>1, <2>2
  <2> QED BY <2>1, <2>3, RetainedAdds
<1>14. CASE RecordPull(d)
  BY <1>14 DEF RecordPull, BaseInv, PulledCopyIsSeen, copyVars, sessionVars
<1>15. CASE FaultStep(d)
  BY <1>15 DEF FaultStep, Interrupt, DelayCommit, SessionEnds, Fail, copyVars
<1> QED
  BY <1>1, <1>2, <1>3, <1>4, <1>5, <1>6, <1>7, <1>8, <1>9, <1>10, <1>11, <1>12, <1>13,
     <1>14, <1>15
  DEF UserStep, DeviceStep, PublishStep, RefreshStep

\* Without restores the base of the recorded generation is never pruned.
LEMMA RetainInvHolds ==
    ASSUME "restore" \notin FaultKinds PROVE Spec => []RetainInv
<1>1. Init => RetainInv
  BY InitialAssumption DEF Init, InitialState, RetainInv, BasesKept, Retains
<1>2. TypeOK /\ BaseInv /\ HistoryInv /\ RetainInv /\ [Next]_vars => RetainInv'
  <2> SUFFICES ASSUME TypeOK, BaseInv, HistoryInv, RetainInv, [Next]_vars, NEW d \in Device
               PROVE  BasesKept(d)'
    BY DEF RetainInv
  <2>1. CASE UserStep(d) \/ DeviceStep(d) \/ FaultStep(d)
    BY <2>1, OwnBases DEF RetainInv
  <2>2. CASE Unaffected(d)
    BY <2>2 DEF Unaffected, RetainInv, BasesKept, Retains
  <2> QED BY <2>1, <2>2, OwnOrUnaffected
<1> QED BY <1>1, <1>2, TypeCorrect, BaseInvHolds, HistoryInvHolds, PTL DEF Spec

\* ADR 0045: a crash at any step of a commit, a refresh or a Use Remote leaves
\* the base of the recorded generation in place for the retry to verify.
THEOREM RecordedBasesAreRetained ==
    ASSUME "restore" \notin FaultKinds PROVE Spec => []BaseIsRetained
<1>1. RetainInv => BaseIsRetained
  BY DEF RetainInv, BasesKept, Retains, BaseIsRetained
<1> QED BY <1>1, RetainInvHolds, PTL

-----------------------------------------------------------------------------
(* The manifest is backed by an object                                     *)

\* The operations a device may still publish.
OwnIds(d) == {opId[d], newer[d]} \ {0}

\* Operation ids are fresh, and no two devices have one in common.
IdsAreOwn ==
    /\ \A d \in Device : \A id \in OwnIds(d) : id <= operations
    /\ \A d \in Device : \A e \in Device \ {d} : OwnIds(d) \cap OwnIds(e) = {}

HasOperation(d) ==
    opState[d] # "none" \/ pc[d] \in BeforeCommit \cup {"useCancel"} => opId[d] > 0

\* The object a publication is about to commit is stored.
CommitIsStored(d) ==
    pc[d] = "commit" =>
        [generation |-> target[d], operation |-> opId[d], library |-> candidate[d]]
            \in snapshots

\* A retry of an operation that was committed knows that there is a manifest,
\* and builds on that commit or a later one: it never writes its object again.
ReadsAfterCommit(d) ==
    (pc[d] \in {"read", "reread"} /\ manifest.operation = opId[d] /\ manifest.generation > 0)
        => seenRev[d] > 0

BuildsAfterCommit(d) ==
    (pc[d] \in {"rebase", "upload", "commit"} /\ manifest.operation = opId[d])
        => manifest.generation <= seen[d].generation

DeviceStored(d) ==
    HasOperation(d) /\ CommitIsStored(d) /\ ReadsAfterCommit(d) /\ BuildsAfterCommit(d)

StoreInv ==
    /\ IdsAreOwn /\ ManifestIsBacked /\ inFlight = {}
    /\ \A d \in Device : DeviceStored(d)

\* An operation id is one the device had, or the next one.
LEMMA IdsStep ==
    ASSUME TypeOK, NEW d \in Device, UserStep(d) \/ DeviceStep(d) \/ FaultStep(d)
    PROVE  \/ operations' = operations /\ OwnIds(d)' \subseteq OwnIds(d)
           \/ operations' = operations + 1 /\ OwnIds(d)' \subseteq OwnIds(d) \cup {operations + 1}
<1> USE DEF TypeOK, OperationTypeOK, OwnIds, opVars, boundVars, Goto
<1>0. CASE Edit(d)
  BY <1>0, EditCommits
<1>1. CASE ProjectEdit(d) \/ Republish(d)
  <2>1. PICK wholeRepository : MintOperation(d, wholeRepository)
    BY <1>1, EditMints
  <2>2. CASE opState[d] \in Mergeable
    BY <2>1, <2>2 DEF MintOperation
  <2>3. CASE opState[d] \notin Mergeable
    BY <2>1, <2>3 DEF MintOperation
  <2> QED BY <2>2, <2>3
<1>2. CASE KeepLocal(d) \/ UseRemotePull(d)
  BY <1>2 DEF KeepLocal, UseRemotePull
<1>3. CASE StartPublish(d)
  BY <1>3 DEF StartPublish
<1>4. CASE PublishStep(d) /\ ~StartPublish(d)
  BY <1>4 DEF PublishStep, StatManifest, ReadManifest, BuildCandidate, DeleteLeftover,
     UploadSnapshot, CommitManifest, VerifyManifest, ResolveAccepted, RetainBase,
     InstallWorkingCopy, RecordCompleted, PruneBases, SaveRevision
<1>5. CASE UseRemoteStep(d) \/ RefreshStep(d)
  BY <1>5 DEF UseRemoteStep, UseRemoteCancel, UseRemoteCopy, UseRemoteRecord, RefreshStep,
     PlanRefresh, PullSnapshot, RetainPulledBase, RecordPull, SavePulledRevision
<1>6. CASE FaultStep(d)
  BY <1>6 DEF FaultStep, Interrupt, DelayCommit, SessionEnds
<1> QED BY <1>0, <1>1, <1>2, <1>3, <1>4, <1>5, <1>6 DEF UserStep, DeviceStep

\* Ids stay apart.
LEMMA IdsStayOwn ==
    ASSUME TypeOK, [Next]_vars, IdsAreOwn
    PROVE  IdsAreOwn'
<1>1. CASE UNCHANGED <<opId, newer, operations>>
  BY <1>1 DEF IdsAreOwn, OwnIds
<1>2. ASSUME NEW d \in Device, UserStep(d) \/ DeviceStep(d) \/ FaultStep(d)
      PROVE  IdsAreOwn'
  <2>1. \A e \in Device \ {d} : OwnIds(e)' = OwnIds(e)
    BY <1>2, OthersUnaffected DEF Unaffected, OwnIds
  <2>2. operations \in Nat /\ \A e \in Device : OwnIds(e) \subseteq Nat
    BY DEF TypeOK, OperationTypeOK, OwnIds
  <2>3. CASE operations' = operations /\ OwnIds(d)' \subseteq OwnIds(d)
    BY <2>1, <2>2, <2>3 DEF IdsAreOwn
  <2>4. CASE /\ operations' = operations + 1
             /\ OwnIds(d)' \subseteq OwnIds(d) \cup {operations + 1}
    <3>1. \A e \in Device : operations + 1 \notin OwnIds(e)
      BY <2>2 DEF IdsAreOwn
    <3> QED BY <2>1, <2>2, <2>4, <3>1 DEF IdsAreOwn
  <2> QED BY <1>2, <2>3, <2>4, IdsStep
<1>3. CASE ProcessDelayedCommit \/ RestoreBackup \/ UNCHANGED vars
  BY <1>1, <1>3 DEF ProcessDelayedCommit, RestoreBackup, vars, opVars, boundVars
<1> QED BY <1>2, <1>3 DEF Next

\* The steps that delete and write database objects.
Stores(d) == DeleteLeftover(d) \/ UploadSnapshot(d)

\* Only a commit replaces the manifest, and only an upload touches an object.
LEMMA RemoteWriters ==
    ASSUME TypeOK, [Next]_vars, inFlight = {},
           "delay" \notin FaultKinds, "restore" \notin FaultKinds
    PROVE  /\ inFlight' = {}
           /\ \/ UNCHANGED manifest
              \/ \E d \in Device : CommitManifest(d) /\ manifest' = Committing(d)
           /\ UNCHANGED snapshots \/ \E d \in Device : Stores(d)
<1> USE DEF remoteVars, Stores
<1>1. ASSUME NEW d \in Device, UserStep(d) PROVE UNCHANGED remoteVars
  BY <1>1 DEF UserStep, Edit, ProjectEdit, Republish, KeepLocal, UseRemotePull
<1>2. ASSUME NEW d \in Device, CommitManifest(d)
      PROVE  /\ UNCHANGED <<inFlight, snapshots>>
             /\ UNCHANGED manifest \/ manifest' = Committing(d)
  BY <1>2 DEF CommitManifest, ReplaceManifest
<1>3. ASSUME NEW d \in Device, Stores(d) PROVE UNCHANGED <<inFlight, manifest>>
  BY <1>3 DEF DeleteLeftover, UploadSnapshot
<1>4. ASSUME NEW d \in Device, PublishStep(d), ~CommitManifest(d), ~Stores(d)
      PROVE  UNCHANGED remoteVars
  BY <1>4 DEF PublishStep, StartPublish, StatManifest, ReadManifest, BuildCandidate,
     VerifyManifest, ResolveAccepted, RetainBase, InstallWorkingCopy, RecordCompleted,
     PruneBases, SaveRevision
<1>5. ASSUME NEW d \in Device, UseRemoteStep(d) \/ RefreshStep(d) PROVE UNCHANGED remoteVars
  BY <1>5 DEF UseRemoteStep, UseRemoteCancel, UseRemoteCopy, UseRemoteRecord, RefreshStep,
     PlanRefresh, PullSnapshot, RetainPulledBase, RecordPull, SavePulledRevision
<1>6. ASSUME NEW d \in Device, FaultStep(d) PROVE UNCHANGED remoteVars
  BY <1>6 DEF FaultStep, Interrupt, DelayCommit, Fault
<1>7. ~ProcessDelayedCommit /\ ~RestoreBackup
  BY DEF ProcessDelayedCommit, RestoreBackup, Fault
<1>8. ASSUME UNCHANGED vars PROVE UNCHANGED remoteVars
  BY <1>8 DEF vars
<1> QED BY <1>1, <1>2, <1>3, <1>4, <1>5, <1>6, <1>7, <1>8 DEF Next, DeviceStep, PublishStep

\* A path belongs to one operation: an upload keeps every other object.
LEMMA StoringKeeps ==
    ASSUME NEW d \in Device, Stores(d),
           NEW g, NEW o, NEW l,
           [generation |-> g, operation |-> o, library |-> l] \in snapshots,
           g # target[d] \/ o # opId[d]
    PROVE  [generation |-> g, operation |-> o, library |-> l] \in snapshots'
<1>1. [generation |-> g, operation |-> o, library |-> l] \notin TornLeftovers(d)
  BY DEF TornLeftovers, AtPath
<1> QED BY <1>1 DEF Stores, DeleteLeftover, UploadSnapshot

\* No upload rewrites the object of the manifest.
LEMMA BackingKept ==
    ASSUME TypeOK, HistoryInv, StoreInv, [Next]_vars,
           "delay" \notin FaultKinds, "restore" \notin FaultKinds
    PROVE  ManifestIsBacked'
<1>1. CASE UNCHANGED <<manifest, snapshots>>
  BY <1>1 DEF StoreInv, ManifestIsBacked, SnapshotIntact
<1>2. ASSUME NEW d \in Device, CommitManifest(d), manifest' = Committing(d),
             UNCHANGED snapshots
      PROVE  ManifestIsBacked'
  BY <1>2 DEF CommitManifest, StoreInv, DeviceStored, CommitIsStored, ManifestIsBacked,
     SnapshotIntact, Committing
<1>3. ASSUME NEW d \in Device, Stores(d) PROVE ManifestIsBacked'
  <2>1. pc[d] = "upload" /\ UNCHANGED manifest
    BY <1>3 DEF Stores, DeleteLeftover, UploadSnapshot
  <2>2. target[d] = seen[d].generation + 1 /\ seen[d].generation \in Nat
        /\ manifest.generation \in Nat
    BY <2>1, FieldTypes DEF HistoryInv, TargetIsNext
  <2>3. manifest.operation = opId[d] => manifest.generation # target[d]
    BY <2>1, <2>2 DEF StoreInv, DeviceStored, BuildsAfterCommit
  <2> QED BY <1>3, <2>1, <2>3, StoringKeeps DEF StoreInv, ManifestIsBacked, SnapshotIntact
<1>4. UNCHANGED manifest \/ UNCHANGED snapshots
  BY RemoteWriters DEF StoreInv, CommitManifest, Stores, DeleteLeftover, UploadSnapshot
<1> QED BY <1>1, <1>2, <1>3, <1>4, RemoteWriters DEF StoreInv

\* The step of another device has another operation id.
LEMMA OthersStored ==
    ASSUME TypeOK, StoreInv, [Next]_vars, NEW d \in Device, Unaffected(d),
           "delay" \notin FaultKinds, "restore" \notin FaultKinds
    PROVE  DeviceStored(d)'
<1>1. \A e \in Device : pc[d] \in BeforeCommit /\ opId[e] = opId[d] => e = d
  <2> SUFFICES ASSUME NEW e \in Device, pc[d] \in BeforeCommit, opId[e] = opId[d], e # d
               PROVE  FALSE
    OBVIOUS
  <2>1. opId[d] # 0
    BY DEF StoreInv, DeviceStored, HasOperation, TypeOK, OperationTypeOK
  <2>2. opId[d] \in OwnIds(d) /\ opId[d] \in OwnIds(e)
    BY <2>1 DEF OwnIds
  <2> QED BY <2>2 DEF StoreInv, IdsAreOwn
<1>2. ASSUME pc[d] \in BeforeCommit, manifest' # manifest
      PROVE  manifest'.operation # opId[d]
  <2>1. PICK e \in Device : CommitManifest(e) /\ manifest' = Committing(e)
    BY <1>2, RemoteWriters DEF StoreInv
  <2>2. e # d
    BY <1>2, <2>1 DEF CommitManifest, ReplaceManifest, Goto, Unaffected, TypeOK
  <2> QED BY <1>1, <1>2, <2>1, <2>2 DEF Committing
<1>3. CommitIsStored(d)'
  <2> SUFFICES ASSUME pc[d] = "commit"
               PROVE  [generation |-> target[d], operation |-> opId[d],
                       library |-> candidate[d]] \in snapshots'
    BY DEF CommitIsStored, Unaffected
  <2>1. [generation |-> target[d], operation |-> opId[d], library |-> candidate[d]]
            \in snapshots
    BY DEF StoreInv, DeviceStored, CommitIsStored
  <2>2. ASSUME NEW e \in Device, Stores(e)
        PROVE  [generation |-> target[d], operation |-> opId[d],
                library |-> candidate[d]] \in snapshots'
    <3>1. opId[e] # opId[d]
      BY <1>1, <2>2 DEF Stores, DeleteLeftover, UploadSnapshot, BeforeCommit
    <3> QED BY <2>1, <2>2, <3>1, StoringKeeps
  <2> QED BY <2>1, <2>2, RemoteWriters DEF StoreInv
<1>4. ReadsAfterCommit(d)' /\ BuildsAfterCommit(d)'
  BY <1>2 DEF Unaffected, ReadsAfterCommit, BuildsAfterCommit, BeforeCommit, StoreInv,
     DeviceStored
<1>5. HasOperation(d)'
  BY DEF Unaffected, HasOperation, StoreInv, DeviceStored
<1> QED BY <1>3, <1>4, <1>5 DEF DeviceStored

\* An operation that runs or waits has an id.
LEMMA OwnOperation ==
    ASSUME TypeOK, NEW d \in Device, HasOperation(d),
           UserStep(d) \/ DeviceStep(d) \/ FaultStep(d)
    PROVE  HasOperation(d)'
<1> USE DEF TypeOK, OperationTypeOK, HasOperation, BeforeCommit, opVars, Goto
<1>0. CASE Edit(d)
  BY <1>0, EditCommits DEF EditSteps
<1>1. CASE ProjectEdit(d) \/ Republish(d)
  <2>1. PICK wholeRepository : MintOperation(d, wholeRepository)
    BY <1>1, EditMints
  <2>2. CASE opState[d] \in Mergeable
    BY <1>1, <2>1, <2>2, EditMints DEF MintOperation, Mergeable
  <2>3. CASE opState[d] \notin Mergeable
    BY <1>1, <2>1, <2>3, EditMints DEF MintOperation
  <2> QED BY <2>2, <2>3
<1>2. CASE KeepLocal(d) \/ UseRemotePull(d)
  BY <1>2 DEF KeepLocal, UseRemotePull, Resolvable
<1>3. CASE StartPublish(d) \/ StatManifest(d) \/ ReadManifest(d)
  BY <1>3 DEF StartPublish, StatManifest, ReadManifest, Mergeable, Fail
<1>4. CASE BuildCandidate(d)
  BY <1>4 DEF BuildCandidate, PublishUnmoved, GiveUpContended, RebaseCandidate,
     RebaseOntoCorruptSnapshot, RebaseWithoutBase, RebaseMerges, RebaseConflicts,
     RebaseUnmergeable, ReplaceRemoteOrStop, Publish, StopWithConflict, Fail
<1>5. CASE \/ DeleteLeftover(d) \/ UploadSnapshot(d) \/ CommitManifest(d)
           \/ VerifyManifest(d) \/ ResolveAccepted(d)
  BY <1>5 DEF DeleteLeftover, UploadSnapshot, CommitManifest, VerifyManifest, ResolveAccepted,
     AcceptIdentical, AcceptCarried, AcceptCorrupt, RefuseAccepted, Fail
<1>6. CASE \/ RetainBase(d) \/ InstallWorkingCopy(d) \/ RecordCompleted(d) \/ PruneBases(d)
           \/ SaveRevision(d)
  BY <1>6 DEF RetainBase, InstallWorkingCopy, RecordCompleted, PruneBases, SaveRevision
<1>7. CASE UseRemoteCancel(d)
  BY <1>7 DEF UseRemoteCancel
<1>8. CASE UseRemoteCopy(d) \/ UseRemoteRecord(d) \/ RefreshStep(d)
  BY <1>8 DEF UseRemoteCopy, UseRemoteRecord, RefreshStep, PlanRefresh, PullSnapshot,
     RetainPulledBase, RecordPull, SavePulledRevision
<1>9. CASE FaultStep(d)
  BY <1>9 DEF FaultStep, Interrupt, DelayCommit, SessionEnds, Fail
<1> QED
  BY <1>0, <1>1, <1>2, <1>3, <1>4, <1>5, <1>6, <1>7, <1>8, <1>9
  DEF UserStep, DeviceStep, PublishStep, UseRemoteStep

\* What the invariant says of a device survives its own steps.
LEMMA OwnStored ==
    ASSUME TypeOK, HistoryInv, StoreInv, [Next]_vars, NEW d \in Device,
           UserStep(d) \/ DeviceStep(d) \/ FaultStep(d),
           "delay" \notin FaultKinds, "restore" \notin FaultKinds
    PROVE  DeviceStored(d)'
<1>0. DeviceStored(d) /\ HasOperation(d)'
  BY OwnOperation DEF StoreInv, DeviceStored
<1> SUFFICES CommitIsStored(d)' /\ ReadsAfterCommit(d)' /\ BuildsAfterCommit(d)'
  BY <1>0 DEF DeviceStored
<1>1. ASSUME pc'[d] \notin {"read", "reread", "rebase", "upload", "commit"}
      PROVE  CommitIsStored(d)' /\ ReadsAfterCommit(d)' /\ BuildsAfterCommit(d)'
  BY <1>1 DEF CommitIsStored, ReadsAfterCommit, BuildsAfterCommit
<1> USE DEF TypeOK, Goto
<1>2. CASE UserStep(d) \/ FaultStep(d)
  <2>1. pc'[d] \in {"idle", "stat", "useCancel"} \cup EditSteps
    BY <1>2, EditCommits, EditMints DEF UserStep, KeepLocal, UseRemotePull, FaultStep,
       Interrupt, DelayCommit, SessionEnds, Fail, Resolvable
  <2> QED BY <1>1, <2>1 DEF EditSteps
<1>3. CASE StatManifest(d)
  <2>1. pc'[d] \in {"read", "reread"} /\ seenRev'[d] = revision /\ UNCHANGED manifest
    BY <1>3 DEF StatManifest, remoteVars, SessionTypeOK
  <2>2. revision = manifest.generation
    BY DEF HistoryInv, HistoryIsLinear
  <2> QED BY <2>1, <2>2 DEF CommitIsStored, ReadsAfterCommit, BuildsAfterCommit
<1>4. CASE ReadManifest(d)
  <2>1. /\ pc[d] \in {"read", "reread"} /\ pc'[d] \in {"accepted", "idle", "rebase"}
        /\ seen'[d] = Observed(d) /\ UNCHANGED <<manifest, opId>>
    BY <1>4 DEF ReadManifest, Fail, remoteVars, SessionTypeOK
  <2>2. manifest.generation \in Nat /\ seenRev[d] \in Nat
    BY FieldTypes DEF SessionTypeOK
  <2>3. manifest.operation = opId[d] => manifest.generation <= Observed(d).generation
    BY <1>0, <2>1, <2>2 DEF DeviceStored, ReadsAfterCommit, Observed, NoManifest
  <2> QED BY <2>1, <2>3 DEF CommitIsStored, ReadsAfterCommit, BuildsAfterCommit
<1>5. CASE BuildCandidate(d)
  <2>1. /\ pc[d] = "rebase" /\ pc'[d] \in {"upload", "idle"}
        /\ UNCHANGED <<manifest, opId, seen>>
    BY <1>5 DEF BuildCandidate, PublishUnmoved, GiveUpContended, RebaseCandidate,
       RebaseOntoCorruptSnapshot, RebaseWithoutBase, RebaseMerges, RebaseConflicts,
       RebaseUnmergeable, ReplaceRemoteOrStop, Publish, StopWithConflict, Fail, remoteVars
  <2> QED
    BY <1>0, <2>1 DEF DeviceStored, CommitIsStored, ReadsAfterCommit, BuildsAfterCommit
<1>6. CASE DeleteLeftover(d)
  BY <1>0, <1>6 DEF DeleteLeftover, opVars, sessionVars, DeviceStored, CommitIsStored,
     ReadsAfterCommit, BuildsAfterCommit
<1>10. CASE UploadSnapshot(d)
  <2> DEFINE object == [generation |-> target[d], operation |-> opId[d],
                        library |-> candidate[d]]
  <2>1. /\ pc[d] = "upload" /\ pc'[d] = "commit" /\ TornLeftovers(d) = {}
        /\ snapshots' = IF AtPath(d) # {} THEN snapshots ELSE snapshots \cup {object}
        /\ UNCHANGED <<manifest, opId, seen, target, candidate>>
    BY <1>10 DEF UploadSnapshot, opVars, sessionVars
  <2>2. object \in snapshots'
    <3>1. CASE AtPath(d) = {}
      BY <2>1, <3>1
    <3>2. ASSUME NEW other \in AtPath(d) PROVE object \in snapshots'
      <4>1. /\ other \in snapshots /\ other.generation = target[d]
            /\ other.operation = opId[d] /\ other.library = candidate[d]
        BY <2>1, <3>2 DEF AtPath, TornLeftovers
      <4>2. other \in Snapshot
        BY <4>1 DEF RemoteTypeOK
      <4>3. other = object
        BY <4>1, <4>2 DEF Snapshot
      <4> QED BY <2>1, <3>2, <4>1, <4>3
    <3> QED BY <3>1, <3>2
  <2> HIDE DEF object
  <2>3. CommitIsStored(d)'
    BY <2>1, <2>2 DEF CommitIsStored, object
  <2> QED BY <1>0, <2>1, <2>3 DEF DeviceStored, ReadsAfterCommit, BuildsAfterCommit
<1>7. CASE CommitManifest(d)
  BY <1>1, <1>7 DEF CommitManifest
<1>8. CASE \/ StartPublish(d) \/ VerifyManifest(d) \/ ResolveAccepted(d) \/ RetainBase(d)
           \/ InstallWorkingCopy(d) \/ RecordCompleted(d) \/ PruneBases(d) \/ SaveRevision(d)
  <2>1. pc'[d] \in {"stat", "retain", "idle", "install", "record", "prune", "baseline",
                    "pullBaseline"}
    BY <1>8 DEF StartPublish, VerifyManifest, ResolveAccepted, AcceptIdentical,
       AcceptCarried, AcceptCorrupt, RefuseAccepted, RetainBase, InstallWorkingCopy,
       RecordCompleted, PruneBases, SaveRevision, Fail
  <2> QED BY <1>1, <2>1
<1>9. CASE UseRemoteStep(d) \/ RefreshStep(d)
  <2>1. pc'[d] \in {"useCopy", "useRecord", "usePrune", "pull", "pulled", "idle",
                    "pullRecord", "pullPrune"}
    BY <1>9 DEF UseRemoteStep, UseRemoteCancel, UseRemoteCopy, UseRemoteRecord, RefreshStep,
       PlanRefresh, PullSnapshot, RetainPulledBase, RecordPull, SavePulledRevision
  <2> QED BY <1>1, <2>1
<1> QED
  BY <1>2, <1>3, <1>4, <1>5, <1>6, <1>7, <1>8, <1>9, <1>10 DEF DeviceStep, PublishStep

\* The object of the manifest is the one its operation uploaded.
LEMMA StoreInvHolds ==
    ASSUME "delay" \notin FaultKinds, "restore" \notin FaultKinds
    PROVE  Spec => []StoreInv
<1>1. Init => StoreInv
  <2> SUFFICES ASSUME NEW generation \in {0, 1}, InitialState(generation)
               PROVE  StoreInv
    BY InitialAssumption DEF Init
  <2> USE DEF InitialState, NoManifest
  <2>1. IdsAreOwn
    BY DEF IdsAreOwn, OwnIds
  <2>2. ManifestIsBacked /\ inFlight = {}
    BY DEF ManifestIsBacked, SnapshotIntact
  <2>3. \A d \in Device : pc[d] = "idle" /\ opState[d] = "none"
    OBVIOUS
  <2> QED
    BY <2>1, <2>2, <2>3 DEF StoreInv, DeviceStored, HasOperation, CommitIsStored,
       ReadsAfterCommit, BuildsAfterCommit, BeforeCommit
<1>2. TypeOK /\ HistoryInv /\ StoreInv /\ [Next]_vars => StoreInv'
  <2> SUFFICES ASSUME TypeOK, HistoryInv, StoreInv, [Next]_vars
               PROVE  StoreInv'
    OBVIOUS
  <2>1. IdsAreOwn' /\ inFlight' = {}
    BY IdsStayOwn, RemoteWriters DEF StoreInv
  <2>2. ManifestIsBacked'
    BY BackingKept
  <2>3. ASSUME NEW d \in Device PROVE DeviceStored(d)'
    BY OwnOrUnaffected, OwnStored, OthersStored
  <2> QED BY <2>1, <2>2, <2>3 DEF StoreInv
<1> QED BY <1>1, <1>2, TypeCorrect, HistoryInvHolds, PTL DEF Spec

\* ADR 0018: the object a manifest names exists with the digest it gives, for
\* any number of crashes at any step; the manifest is the only commit point.
THEOREM ManifestsAreBacked ==
    ASSUME "delay" \notin FaultKinds, "restore" \notin FaultKinds
    PROVE  Spec => []ManifestIsBacked
<1>1. StoreInv => ManifestIsBacked
  BY DEF StoreInv
<1> QED BY <1>1, StoreInvHolds, PTL

-----------------------------------------------------------------------------
(* Constraints                                                             *)

\* Everything a manifest names, named or will name satisfies the constraints.
RemoteValid ==
    /\ Valid(manifest.library)
    /\ \A past \in 1..Len(history) : Valid(history[past].library)
    /\ \A request \in inFlight : Valid(request.manifest.library)

\* So does everything a device works on, read or is about to commit.
DeviceValid(d) == Valid(working[d]) /\ Valid(seen[d].library) /\ Valid(candidate[d])

ValidInv == RemoteValid /\ \A d \in Device : DeviceValid(d)

\* Whatever a publication builds satisfies the constraints: it is the working
\* copy, or a merge that reported nothing broken.
LEMMA BuiltIsValid ==
    ASSUME TypeOK, NEW d \in Device, DeviceValid(d), BuildCandidate(d)
    PROVE  Valid(candidate'[d])
<1> USE DEF TypeOK, SessionTypeOK
<1>1. ASSUME NEW library \in Library, NEW replaces, Publish(d, library, replaces),
             Valid(library)
      PROVE  Valid(candidate'[d])
  BY <1>1 DEF Publish
<1>2. CASE UNCHANGED candidate
  BY <1>2 DEF DeviceValid
<1>3. working[d] \in Library /\ Valid(working[d])
  BY FieldTypes DEF DeviceValid
<1>4. CASE PublishUnmoved(d) \/ ReplaceRemoteOrStop(d)
  BY <1>1, <1>2, <1>3, <1>4 DEF PublishUnmoved, ReplaceRemoteOrStop, StopWithConflict
<1>5. CASE GiveUpContended(d) \/ RebaseOntoCorruptSnapshot(d) \/ RebaseConflicts(d)
  BY <1>2, <1>5 DEF GiveUpContended, RebaseOntoCorruptSnapshot, RebaseConflicts,
     StopWithConflict
<1>6. CASE RebaseMerges(d)
  <2>1. /\ baseId[d] \in Library /\ seen[d].library \in Library /\ working[d] \in Library
    BY FieldTypes DEF StateTypeOK
  <2>2. /\ RebaseOutcome(d).kind = "merged"
        /\ Publish(d, RebaseOutcome(d).library, TRUE)
    BY <1>6 DEF RebaseMerges
  <2>3. /\ BrokenKeys(baseId[d], seen[d].library, working[d]) = {}
        /\ RebaseOutcome(d).library =
              LocalOntoRemote(baseId[d], seen[d].library, working[d])
    BY <2>2 DEF RebaseOutcome, MergeOntoRemote, Merged, Conflicting, Unmergeable
  <2>4. Valid(RebaseOutcome(d).library) /\ RebaseOutcome(d).library \in Library
    <3>1. Collisions[seen[d].library] = {}
      BY DEF DeviceValid, Valid
    <3> DEFINE merged == LocalOntoRemote(baseId[d], seen[d].library, working[d])
    <3>2. Valid(merged)
      BY <2>1, <2>3, <3>1, UnbrokenIsValid
    <3>3. merged \in Library
      BY <2>1, LocalOntoRemoteType
    <3> HIDE DEF merged
    <3> QED BY <2>3, <3>2, <3>3 DEF merged
  <2> QED BY <1>1, <2>2, <2>4
<1> QED
  BY <1>4, <1>5, <1>6
  DEF BuildCandidate, RebaseCandidate, RebaseWithoutBase, RebaseUnmergeable

\* A step of a device leaves it with valid libraries.
LEMMA OwnValid ==
    ASSUME TypeOK, RemoteValid, NEW d \in Device, DeviceValid(d),
           UserStep(d) \/ DeviceStep(d) \/ FaultStep(d)
    PROVE  DeviceValid(d)'
<1> USE DEF TypeOK, CopyTypeOK, SessionTypeOK, DeviceValid, RemoteValid
<1>1. CASE Edit(d) \/ ProjectEdit(d) \/ Republish(d)
  BY <1>1 DEF Edit, ProjectEdit, Republish, copyVars, sessionVars
<1>2. CASE KeepLocal(d) \/ UseRemotePull(d)
  BY <1>2 DEF KeepLocal, UseRemotePull, copyVars
<1>3. CASE ReadManifest(d)
  <2>1. Valid(Observed(d).library)
    BY InitialAssumption DEF Observed, NoManifest
  <2> QED BY <1>3, <2>1 DEF ReadManifest, copyVars
<1>4. CASE BuildCandidate(d)
  BY <1>4, BuiltIsValid DEF BuildCandidate, copyVars
<1>5. CASE \/ StartPublish(d) \/ StatManifest(d) \/ DeleteLeftover(d)
           \/ UploadSnapshot(d) \/ CommitManifest(d)
  BY <1>5 DEF StartPublish, StatManifest, DeleteLeftover, UploadSnapshot, CommitManifest,
     copyVars, sessionVars
<1>6. CASE VerifyManifest(d) \/ ResolveAccepted(d) \/ RetainBase(d)
  BY <1>6 DEF VerifyManifest, ResolveAccepted, RetainBase, copyVars, sessionVars
<1>7. CASE InstallWorkingCopy(d) \/ RecordCompleted(d) \/ PruneBases(d) \/ SaveRevision(d)
  BY <1>7 DEF InstallWorkingCopy, RecordCompleted, PruneBases, SaveRevision, copyVars,
     sessionVars
<1>8. CASE UseRemoteStep(d) \/ RefreshStep(d)
  BY <1>8 DEF UseRemoteStep, UseRemoteCancel, UseRemoteCopy, UseRemoteRecord, RefreshStep,
     PlanRefresh, PullSnapshot, RetainPulledBase, RecordPull, SavePulledRevision, copyVars,
     sessionVars
<1>9. CASE FaultStep(d)
  BY <1>9 DEF FaultStep, Interrupt, DelayCommit, SessionEnds, copyVars, sessionVars
<1> QED
  BY <1>1, <1>2, <1>3, <1>4, <1>5, <1>6, <1>7, <1>8, <1>9
  DEF UserStep, DeviceStep, PublishStep

\* A manifest that names a valid library keeps the remote valid.
LEMMA ReplacingKeepsValid ==
    ASSUME TypeOK, RemoteValid, NEW m \in Manifest, ReplaceManifest(m), Valid(m.library),
           \A request \in inFlight' : Valid(request.manifest.library)
    PROVE  RemoteValid'
<1>1. history \in Seq(Manifest) /\ history' = Append(history, m) /\ manifest' = m
  BY DEF ReplaceManifest, TypeOK, RemoteTypeOK
<1>2. /\ Len(history') = Len(history) + 1 /\ Len(history) \in Nat
      /\ \A past \in 1..Len(history) : history'[past] = history[past]
      /\ history'[Len(history) + 1] = m
  BY <1>1
<1> QED BY <1>1, <1>2 DEF RemoteValid

\* No step puts a library into the repository that breaks a constraint.
LEMMA RemoteStaysValid ==
    ASSUME TypeOK, ValidInv, [Next]_vars
    PROVE  RemoteValid'
<1>1. CASE UNCHANGED <<manifest, history, inFlight>>
  BY <1>1 DEF ValidInv, RemoteValid
<1>2. ASSUME NEW d \in Device, CommitManifest(d) PROVE RemoteValid'
  <2>1. /\ inFlight' = inFlight /\ RemoteValid
        /\ ReplaceManifest(Committing(d)) \/ UNCHANGED <<manifest, history>>
    BY <1>2 DEF CommitManifest, ValidInv
  <2>2. Committing(d) \in Manifest /\ Valid(Committing(d).library)
    BY FieldTypes DEF ValidInv, DeviceValid, Committing
  <2>3. CASE ReplaceManifest(Committing(d))
    BY <2>1, <2>2, <2>3, ReplacingKeepsValid DEF RemoteValid
  <2> QED BY <1>1, <2>1, <2>3
<1>3. ASSUME NEW d \in Device, DelayCommit(d) PROVE RemoteValid'
  BY <1>3 DEF DelayCommit, ValidInv, RemoteValid, DeviceValid, Committing
<1>4. CASE ProcessDelayedCommit
  <2>1. PICK request \in inFlight :
            /\ inFlight' = inFlight \ {request}
            /\ \/ ReplaceManifest(request.manifest)
               \/ UNCHANGED <<manifest, history>>
    BY <1>4 DEF ProcessDelayedCommit
  <2>2. /\ request.manifest \in Manifest /\ Valid(request.manifest.library)
        /\ RemoteValid
    BY DEF ValidInv, RemoteValid, TypeOK, RemoteTypeOK, Request
  <2>3. CASE ReplaceManifest(request.manifest)
    BY <2>1, <2>2, <2>3, ReplacingKeepsValid DEF RemoteValid
  <2>4. CASE UNCHANGED <<manifest, history>>
    BY <2>1, <2>2, <2>4 DEF RemoteValid
  <2> QED BY <2>1, <2>3, <2>4
<1>5. CASE RestoreBackup
  <2>1. PICK past \in 1..Len(history) : ReplaceManifest(history[past]) /\ inFlight' = inFlight
    BY <1>5 DEF RestoreBackup
  <2>2. history[past] \in Manifest /\ Valid(history[past].library) /\ RemoteValid
    BY DEF ValidInv, RemoteValid, TypeOK, RemoteTypeOK
  <2> QED BY <2>1, <2>2, ReplacingKeepsValid DEF RemoteValid
<1>6. ASSUME NEW d \in Device, UserStep(d) \/ DeviceStep(d) \/ Interrupt(d)
      PROVE  RemoteValid'
  <2>1. CASE CommitManifest(d)
    BY <1>2, <2>1
  <2>2. CASE ~CommitManifest(d)
    BY <1>1, <1>6, <2>2 DEF UserStep, Edit, ProjectEdit, Republish, KeepLocal,
       UseRemotePull, DeviceStep, PublishStep, StartPublish, StatManifest, ReadManifest,
       BuildCandidate, DeleteLeftover, UploadSnapshot, VerifyManifest, ResolveAccepted,
       RetainBase, InstallWorkingCopy, RecordCompleted, PruneBases, SaveRevision,
       UseRemoteStep, UseRemoteCancel, UseRemoteCopy, UseRemoteRecord, RefreshStep,
       PlanRefresh, PullSnapshot, RetainPulledBase, RecordPull, SavePulledRevision,
       Interrupt, remoteVars
  <2> QED BY <2>1, <2>2
<1>7. CASE UNCHANGED vars
  BY <1>1, <1>7 DEF vars, remoteVars
<1> QED BY <1>3, <1>4, <1>5, <1>6, <1>7 DEF Next, FaultStep

\* Valid libraries only, wherever a step leaves one.
LEMMA ValidInvHolds == Spec => []ValidInv
<1>1. Init => ValidInv
  <2> SUFFICES ASSUME NEW generation \in {0, 1}, InitialState(generation)
               PROVE  ValidInv
    BY InitialAssumption DEF Init
  <2> USE DEF InitialState, NoManifest
  <2>1. manifest.library = Initial /\ inFlight = {}
    OBVIOUS
  <2>2. \A past \in 1..Len(history) : history[past].library = Initial
    OBVIOUS
  <2>3. \A d \in Device :
            working[d] = Initial /\ seen[d].library = Initial /\ candidate[d] = Initial
    OBVIOUS
  <2> QED BY <2>1, <2>2, <2>3, InitialAssumption DEF ValidInv, RemoteValid, DeviceValid
<1>2. TypeOK /\ ValidInv /\ [Next]_vars => ValidInv'
  <2> SUFFICES ASSUME TypeOK, ValidInv, [Next]_vars PROVE ValidInv'
    OBVIOUS
  <2>1. ASSUME NEW d \in Device PROVE DeviceValid(d)'
    <3>1. CASE UserStep(d) \/ DeviceStep(d) \/ FaultStep(d)
      BY <3>1, OwnValid DEF ValidInv
    <3>2. CASE Unaffected(d)
      BY <3>2 DEF Unaffected, ValidInv, DeviceValid
    <3> QED BY <3>1, <3>2, OwnOrUnaffected
  <2> QED BY <2>1, RemoteStaysValid DEF ValidInv
<1> QED BY <1>1, <1>2, TypeCorrect, PTL DEF Spec

\* Neither what is published nor what a device works on breaks a constraint,
\* whatever was merged, interrupted, late or restored.
THEOREM PublishedLibrariesAreValid == Spec => []LibrariesAreValid
<1>1. ValidInv => LibrariesAreValid
  BY DEF ValidInv, RemoteValid, DeviceValid, LibrariesAreValid
<1> QED BY <1>1, ValidInvHolds, PTL
=============================================================================
