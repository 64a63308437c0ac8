--------------------------- MODULE PublishConsent ---------------------------
(***************************************************************************)
(* What a publication may replace, and with whose consent, as long as      *)
(* nobody puts an old manifest back.                                       *)
(*                                                                         *)
(* First: no publication changes a row of another device silently          *)
(* (NoSilentOverwrite), whatever is interrupted, lost or late. The         *)
(* candidate is justified when it is built: against the manifest that was  *)
(* read, the base of the recorded generation and the approval the user     *)
(* gave. ConsentInv says that it still is when the manifest is replaced:   *)
(* the operation expects the recorded generation for as long as it runs or *)
(* waits for the user, and nothing records another one meanwhile.          *)
(*                                                                         *)
(* Second: every step of every device is a step of SharedLibrary or        *)
(* invisible to it (ImplementsSharedLibrary). ConsentInv says what a       *)
(* commit may change; AdvanceInv adds that a device records no older       *)
(* generation than the one it has, and answers no conflict about a         *)
(* generation that is not there yet. Late requests are excluded then:      *)
(* SharedLibrary asks for the consent at the moment of the commit, and a   *)
(* request that is processed after its publication was given up may come   *)
(* when the user has already withdrawn it.                                 *)
(***************************************************************************)
EXTENDS PublishHistory, SequenceTheorems

\* The steps of a publication before its success is certain.
BeforeCommit ==
    {"stat", "read", "restat", "reread", "rebase", "upload", "commit", "verify", "accepted"}

\* An operation that runs or is conflicted builds on the recorded generation.
ExpectsRecorded(d) ==
    (opState[d] = "conflicted" \/ pc[d] \in BeforeCommit) => expected[d] = committed[d]

\* No conflict is open while a refresh or a Use Remote records a generation.
RecordsWithoutConflict(d) ==
    (localState[d] = "clean" \/ pc[d] \in {"pull", "pulled", "pullRecord", "useCopy", "useRecord"})
        => opState[d] # "conflicted"

\* The candidate changes the rows of the manifest read only where that still
\* has the base's rows, or where the user approved it.
CandidateJustified(d) ==
    pc[d] \in {"upload", "commit"} =>
        \A key \in ChangedKeys(seen[d].library, candidate[d]) :
            \/ seen[d].generation = 0
            \/ committed[d] > 0 /\ seen[d].library[key] = baseId[d][key]
            \/ Approves(Policy(d), key)

ConsentInv ==
    \A d \in Device :
        ExpectsRecorded(d) /\ RecordsWithoutConflict(d) /\ CandidateJustified(d)

-----------------------------------------------------------------------------
\* A generation has one library: what a device read of the generation it has
\* recorded is its base.
LEMMA SameGenerationSameLibrary ==
    ASSUME TypeOK, BaseInv, HistoryInv, NEW d \in Device,
           seen[d].generation = committed[d], committed[d] > 0
    PROVE  seen[d].library = baseId[d]
<1>1. PICK past \in 1..Len(history) :
            history[past].generation = seen[d].generation
            /\ history[past].library = seen[d].library
  BY DEF BaseInv, SeenIsPublished, Published
<1>2. PICK other \in 1..Len(history) :
            history[other].generation = committed[d] /\ history[other].library = baseId[d]
  BY DEF BaseInv, RecordedIsPublished, Published
<1> QED BY <1>1, <1>2 DEF HistoryInv, HistoryIsLinear

\* An unmoved remote has the rows of the base: the working copy may replace it.
LEMMA UnmovedIsJustified ==
    ASSUME TypeOK, BaseInv, HistoryInv, NEW d \in Device, ~RemoteMoved(d),
           expected[d] = committed[d]
    PROVE  \/ seen[d].generation = 0
           \/ committed[d] > 0 /\ seen[d].library = baseId[d]
<1>1. seen[d].generation \in Nat
  BY FieldTypes
<1> QED BY <1>1, SameGenerationSameLibrary DEF RemoteMoved

\* The candidate a publication builds is justified.
LEMMA BuiltIsJustified ==
    ASSUME TypeOK, BaseInv, HistoryInv, ConsentInv, NEW d \in Device, BuildCandidate(d)
    PROVE  CandidateJustified(d)'
<1> DEFINE Justifies(library) ==
        \A key \in ChangedKeys(seen[d].library, library) :
            \/ seen[d].generation = 0
            \/ committed[d] > 0 /\ seen[d].library[key] = baseId[d][key]
            \/ Approves(Policy(d), key)
<1>1. ASSUME NEW library \in Library, NEW replaces \in BOOLEAN, Publish(d, library, replaces),
             Justifies(library)
      PROVE  CandidateJustified(d)'
  <2>1. candidate'[d] = library /\ UNCHANGED approval
    BY <1>1 DEF Publish, TypeOK, SessionTypeOK
  <2>2. UNCHANGED <<seen, committed, baseId>>
    BY DEF BuildCandidate
  <2>3. Policy(d)' = Policy(d)
    BY <2>1, <2>2 DEF Policy
  <2> QED BY <1>1, <2>1, <2>2, <2>3 DEF CandidateJustified
<1>2. ASSUME pc'[d] = "idle" PROVE CandidateJustified(d)'
  BY <1>2 DEF CandidateJustified
<1>3. expected[d] = committed[d]
  BY DEF ConsentInv, ExpectsRecorded, BeforeCommit, BuildCandidate, PublishUnmoved,
     GiveUpContended, RebaseCandidate
<1>4. CASE PublishUnmoved(d)
  <2>1. Justifies(working[d])
    BY <1>3, <1>4, UnmovedIsJustified DEF PublishUnmoved, ChangedKeys
  <2> QED BY <1>1, <1>4, <2>1, FieldTypes DEF PublishUnmoved
<1>5. CASE GiveUpContended(d) \/ RebaseOntoCorruptSnapshot(d)
  BY <1>2, <1>5 DEF GiveUpContended, RebaseOntoCorruptSnapshot, Fail, Goto, TypeOK
<1>6. CASE ReplaceRemoteOrStop(d)
  <2>1. CASE Policy(d).whole
    <3>1. Publish(d, working[d], TRUE) /\ Justifies(working[d])
      BY <1>6, <2>1 DEF ReplaceRemoteOrStop, Approves
    <3> QED BY <1>1, <3>1, FieldTypes
  <2>2. CASE ~Policy(d).whole
    BY <1>2, <1>6, <2>2 DEF ReplaceRemoteOrStop, StopWithConflict, Fail, Goto, TypeOK
  <2> QED BY <2>1, <2>2
<1>7. CASE RebaseConflicts(d)
  BY <1>2, <1>7 DEF RebaseConflicts, StopWithConflict, Fail, Goto, TypeOK
<1>8. CASE RebaseMerges(d)
  <2>1. /\ baseId[d] \in Library /\ whole[d] \in BOOLEAN /\ committed[d] > 0
        /\ seen[d].library \in Library /\ working[d] \in Library /\ Policy(d) \in Conflict
    BY <1>8, FieldTypes, RebaseOutcomeType
    DEF TypeOK, StateTypeOK, OperationTypeOK, RebaseMerges, HasVerifiedBase
  <2>2. RebaseOutcome(d).kind = "merged" /\ Publish(d, RebaseOutcome(d).library, TRUE)
    BY <1>8 DEF RebaseMerges
  <2>3. Justifies(RebaseOutcome(d).library)
    BY <2>1, <2>2, MergeChangesOnlyUntouchedOrApproved DEF RebaseOutcome
  <2> QED BY <1>1, <2>2, <2>3, RebaseOutcomeType
<1> QED
  BY <1>4, <1>5, <1>6, <1>7, <1>8
  DEF BuildCandidate, RebaseCandidate, RebaseWithoutBase, RebaseUnmergeable

-----------------------------------------------------------------------------
DeviceConsent(d) == ExpectsRecorded(d) /\ RecordsWithoutConflict(d) /\ CandidateJustified(d)

\* A step of a device keeps what the invariant says of it.
LEMMA OwnConsent ==
    ASSUME TypeOK, BaseInv, HistoryInv, ConsentInv, NEW d \in Device,
           UserStep(d) \/ DeviceStep(d) \/ FaultStep(d)
    PROVE  DeviceConsent(d)'
<1> USE DEF TypeOK, StateTypeOK, OperationTypeOK, SessionTypeOK, stateVars, opVars,
            sessionVars, Goto, BeforeCommit
<1>0. DeviceConsent(d)
  BY DEF ConsentInv, DeviceConsent
<1> USE <1>0 DEF DeviceConsent, ExpectsRecorded, RecordsWithoutConflict
<1>1. CASE Edit(d) \/ ProjectEdit(d) \/ Republish(d)
  <2>1. CASE Edit(d)
    BY <2>1, EditCommits DEF EditSteps, CandidateJustified
  <2>2. CASE ProjectEdit(d) \/ Republish(d)
    BY <2>2, EditMints, MintedOperation DEF CandidateJustified
  <2> QED BY <1>1, <2>1, <2>2
<1>2. CASE KeepLocal(d) \/ UseRemotePull(d)
  BY <1>2 DEF KeepLocal, UseRemotePull, Resolvable, CandidateJustified
<1>3. CASE StartPublish(d) \/ StatManifest(d)
  BY <1>3 DEF StartPublish, StatManifest, CandidateJustified
<1>4. CASE ReadManifest(d)
  BY <1>4 DEF ReadManifest, Fail, CandidateJustified
<1>5. CASE BuildCandidate(d)
  <2>1. CandidateJustified(d)'
    BY <1>5, BuiltIsJustified
  <2> QED
    BY <1>5, <2>1 DEF BuildCandidate, PublishUnmoved, GiveUpContended, RebaseCandidate,
       RebaseOntoCorruptSnapshot, RebaseWithoutBase, RebaseMerges, RebaseConflicts,
       RebaseUnmergeable, ReplaceRemoteOrStop, Publish, StopWithConflict, Fail
<1>6. CASE DeleteLeftover(d) \/ UploadSnapshot(d)
  BY <1>6 DEF DeleteLeftover, UploadSnapshot, CandidateJustified, Policy
<1>7. CASE CommitManifest(d) \/ VerifyManifest(d)
  BY <1>7 DEF CommitManifest, VerifyManifest, Fail, CandidateJustified
<1>8. CASE ResolveAccepted(d)
  <2>1. CASE AcceptIdentical(d) \/ AcceptCarried(d)
    BY <1>8, <2>1 DEF ResolveAccepted, AcceptIdentical, AcceptCarried, CandidateJustified
  <2>2. CASE AcceptCorrupt(d) \/ RefuseAccepted(d)
    BY <1>8, <2>2 DEF ResolveAccepted, AcceptCorrupt, RefuseAccepted, Fail,
       CandidateJustified
  <2> QED BY <1>8, <2>1, <2>2 DEF ResolveAccepted
<1>9. CASE RetainBase(d) \/ InstallWorkingCopy(d) \/ PruneBases(d) \/ SaveRevision(d)
  BY <1>9 DEF RetainBase, InstallWorkingCopy, PruneBases, SaveRevision, CandidateJustified
<1>10. CASE RecordCompleted(d)
  BY <1>10 DEF RecordCompleted, CandidateJustified
<1>11. CASE UseRemoteStep(d)
  BY <1>11 DEF UseRemoteStep, UseRemoteCancel, UseRemoteCopy, UseRemoteRecord,
     CandidateJustified
<1>12. CASE RefreshStep(d)
  BY <1>12 DEF RefreshStep, PlanRefresh, PullSnapshot, RetainPulledBase, RecordPull,
     SavePulledRevision, CandidateJustified
<1>13. CASE FaultStep(d)
  BY <1>13 DEF FaultStep, Interrupt, DelayCommit, SessionEnds, Fail, CandidateJustified
<1> QED
  BY <1>1, <1>2, <1>3, <1>4, <1>5, <1>6, <1>7, <1>8, <1>9, <1>10, <1>11, <1>12, <1>13
  DEF UserStep, DeviceStep, PublishStep

\* Every step keeps the invariant of consent.
LEMMA ConsentInvStep ==
    ASSUME TypeOK, BaseInv, HistoryInv, ConsentInv, [Next]_vars PROVE ConsentInv'
<1>1. ASSUME NEW d \in Device PROVE DeviceConsent(d)'
  <2>1. CASE UserStep(d) \/ DeviceStep(d) \/ FaultStep(d)
    BY <2>1, OwnConsent
  <2>2. CASE Unaffected(d)
    BY <2>2 DEF Unaffected, ConsentInv, DeviceConsent, ExpectsRecorded,
       RecordsWithoutConflict, CandidateJustified, Policy
  <2> QED BY <2>1, <2>2, OwnOrUnaffected
<1> QED BY <1>1 DEF ConsentInv, DeviceConsent

\* Without restores the invariant of consent holds in every state.
THEOREM ConsentInvHolds ==
    ASSUME "restore" \notin FaultKinds PROVE Spec => []ConsentInv
<1>1. Init => ConsentInv
  BY DEF Init, InitialState, ConsentInv, ExpectsRecorded, RecordsWithoutConflict,
     CandidateJustified, BeforeCommit
<1>2. TypeOK /\ BaseInv /\ HistoryInv /\ ConsentInv /\ [Next]_vars => ConsentInv'
  BY ConsentInvStep
<1> QED BY <1>1, <1>2, TypeCorrect, BaseInvHolds, HistoryInvHolds, PTL DEF Spec

\* Only the compare and swap leads from "commit" to "verify".
LEMMA CommitsOnlyByCommitting ==
    ASSUME TypeOK, [Next]_vars, NEW d \in Device, pc[d] = "commit", pc'[d] = "verify"
    PROVE  CommitManifest(d)
<1> USE DEF TypeOK, Goto
<1>1. ~Unaffected(d)
  BY DEF Unaffected
<1>2. ~UserStep(d) /\ ~UseRemoteStep(d) /\ ~RefreshStep(d)
  BY DEF UserStep, Edit, ProjectEdit, Republish, KeepLocal, UseRemotePull, Resolvable,
     UseRemoteStep, UseRemoteCancel, UseRemoteCopy, UseRemoteRecord, RefreshStep,
     PlanRefresh, PullSnapshot, RetainPulledBase, RecordPull, SavePulledRevision
<1>3. ~FaultStep(d)
  BY DEF FaultStep, Interrupt, DelayCommit, SessionEnds, Fail
<1>4. PublishStep(d) => CommitManifest(d)
  BY DEF PublishStep, StartPublish, StatManifest, ReadManifest, BuildCandidate,
     PublishUnmoved, GiveUpContended, RebaseCandidate, DeleteLeftover, UploadSnapshot,
     VerifyManifest, ResolveAccepted, RetainBase, InstallWorkingCopy, RecordCompleted,
     PruneBases, SaveRevision
<1> QED BY <1>1, <1>2, <1>3, <1>4, OwnOrUnaffected DEF DeviceStep

\* "OpenKara never overwrites another device silently": a commit changes a row
\* of the manifest it replaces only where that row is still the base's, or
\* where the user approved it for exactly the generation being replaced.
THEOREM NothingIsOverwrittenSilently ==
    ASSUME "restore" \notin FaultKinds PROVE Spec => NoSilentOverwrite
<1> DEFINE Owed == \A d \in Device : Commits(d) =>
               \A key \in ChangedKeys(manifest.library, manifest'.library) :
                   \/ manifest.generation = 0
                   \/ committed[d] > 0 /\ manifest.library[key] = baseId[d][key]
                   \/ UserConsents(d, key)
<1>1. TypeOK /\ HistoryInv /\ ConsentInv /\ [Next]_vars => [Owed]_vars
  <2> SUFFICES ASSUME TypeOK, HistoryInv, ConsentInv, [Next]_vars, NEW d \in Device,
                      Commits(d),
                      NEW key \in ChangedKeys(manifest.library, manifest'.library)
               PROVE  \/ manifest.generation = 0
                      \/ committed[d] > 0 /\ manifest.library[key] = baseId[d][key]
                      \/ UserConsents(d, key)
    OBVIOUS
  <2>1. pc[d] = "commit" /\ CanReplace(seenRev[d]) /\ manifest' = Committing(d)
    <3>1. pc[d] = "commit" /\ pc'[d] = "verify"
      BY DEF Commits
    <3>2. CommitManifest(d)
      BY <3>1, CommitsOnlyByCommitting
    <3> QED BY <3>1, <3>2 DEF CommitManifest, ReplaceManifest, Goto, TypeOK
  <2>2. seen[d].generation = manifest.generation /\ seen[d].library = manifest.library
    BY <2>1 DEF HistoryInv, SeenIsCurrent, CanReplace
  <2>3. key \in ChangedKeys(seen[d].library, candidate[d])
    BY <2>1, <2>2 DEF Committing
  <2>4. \/ seen[d].generation = 0
        \/ committed[d] > 0 /\ seen[d].library[key] = baseId[d][key]
        \/ Approves(Policy(d), key)
    BY <2>1, <2>3 DEF ConsentInv, CandidateJustified
  <2>5. Approves(Policy(d), key) => UserConsents(d, key)
    BY <2>2 DEF Policy, PolicyAt, Stop, Approves, UserConsents
  <2> QED BY <2>2, <2>4, <2>5
<1> QED BY <1>1, TypeCorrect, HistoryInvHolds, ConsentInvHolds, PTL
        DEF Spec, NoSilentOverwrite

-----------------------------------------------------------------------------
(* The repository implements SharedLibrary                                 *)

\* A device that builds on, records or answers something does not know less
\* than it has recorded, nor more than was published.
KnowsPublished(d) ==
    /\ committed[d] <= revision /\ seen[d].generation <= revision
    /\ conflict[d].generation <= revision

BuildsAhead(d) ==
    /\ pc[d] = "rebase"   => seen[d].generation >= committed[d]
    /\ pc[d] = "accepted" => seen[d].generation > committed[d]
    /\ pc[d] \in {"upload", "commit", "verify", "retain", "install", "record"}
         => target[d] > committed[d]
    /\ pc[d] \in {"pull", "pulled", "pullRecord", "useCancel", "useCopy", "useRecord"}
         => seen[d].generation >= committed[d]

DeviceAdvances(d) == KnowsPublished(d) /\ BuildsAhead(d)

AdvanceInv == \A d \in Device : DeviceAdvances(d)

\* The revision never goes back.
LEMMA RevisionGrows ==
    ASSUME TypeOK, HistoryInv, [Next]_vars, "restore" \notin FaultKinds
    PROVE  revision \in Nat /\ revision' \in Nat /\ revision <= revision'
BY RemoteSteps DEF ReplaceManifest, TypeOK, RemoteTypeOK

\* A step of a device keeps what the invariant says of it.
LEMMA OwnAdvances ==
    ASSUME TypeOK, BaseInv, HistoryInv, ConsentInv, AdvanceInv, [Next]_vars,
           "restore" \notin FaultKinds, NEW d \in Device,
           UserStep(d) \/ DeviceStep(d) \/ FaultStep(d)
    PROVE  DeviceAdvances(d)'
<1> USE DEF DeviceAdvances, KnowsPublished, BuildsAhead
<1>0. /\ DeviceAdvances(d) /\ ExpectsRecorded(d) /\ TargetIsNext(d)
      /\ revision \in Nat /\ revision' \in Nat /\ revision <= revision'
      /\ manifest.generation = revision
  BY RevisionGrows DEF AdvanceInv, ConsentInv, HistoryInv, HistoryIsLinear
<1>1. /\ committed[d] \in Nat /\ seen[d].generation \in Nat /\ target[d] \in Nat
      /\ conflict[d].generation \in Nat /\ expected[d] \in Nat
  BY FieldTypes DEF TypeOK, StateTypeOK, OperationTypeOK, Conflict
<1> USE <1>0, <1>1 DEF TypeOK, StateTypeOK, OperationTypeOK, SessionTypeOK, stateVars, opVars,
            sessionVars, Goto
<1>2. CASE Edit(d) \/ ProjectEdit(d) \/ Republish(d)
  <2>1. /\ pc'[d] \in {"idle"} \cup EditSteps /\ UNCHANGED <<committed, seen, target>>
    BY <1>2, EditMints, EditCommits
  <2>2. conflict'[d] = conflict[d] \/ conflict'[d] = Stop
    BY <1>2, EditMints, EditCommits DEF MintOperation
  <2> QED BY <2>1, <2>2 DEF Stop, EditSteps
<1>3. CASE KeepLocal(d)
  BY <1>3 DEF KeepLocal, Stop
<1>4. CASE UseRemotePull(d) \/ PlanRefresh(d)
  BY <1>4 DEF UseRemotePull, PlanRefresh
<1>5. CASE StartPublish(d) \/ StatManifest(d)
  BY <1>5 DEF StartPublish, StatManifest
<1>6. CASE ReadManifest(d)
  <2>1. Observed(d).generation \in Nat /\ Observed(d).generation <= revision
    BY FieldTypes DEF Observed, NoManifest
  <2>2. expected[d] = committed[d] /\ seen'[d] = Observed(d)
        /\ UNCHANGED <<committed, conflict, target, revision>>
    BY <1>6 DEF ReadManifest, ExpectsRecorded, BeforeCommit, remoteVars
  <2>3. \/ pc'[d] = "accepted" /\ Observed(d).generation > expected[d]
        \/ pc'[d] = "idle"
        \/ pc'[d] = "rebase" /\ Observed(d).generation >= expected[d]
    BY <1>6 DEF ReadManifest, IsOwnCommit, Fail
  <2> QED BY <2>1, <2>2, <2>3
<1>7. CASE BuildCandidate(d)
  <2>1. pc[d] = "rebase" /\ UNCHANGED <<committed, seen>>
    BY <1>7 DEF BuildCandidate, PublishUnmoved, GiveUpContended, RebaseCandidate
  <2>2. \/ pc'[d] = "upload" /\ target'[d] = seen[d].generation + 1
        \/ pc'[d] = "idle"
    BY <1>7 DEF BuildCandidate, PublishUnmoved, GiveUpContended, RebaseCandidate,
       RebaseOntoCorruptSnapshot, RebaseWithoutBase, RebaseMerges, RebaseConflicts,
       RebaseUnmergeable, ReplaceRemoteOrStop, Publish, StopWithConflict, Fail
  <2>3. conflict'[d] = conflict[d] \/ conflict'[d].generation = seen[d].generation
    BY <1>7 DEF BuildCandidate, PublishUnmoved, GiveUpContended, RebaseCandidate,
       RebaseOntoCorruptSnapshot, RebaseWithoutBase, RebaseMerges, RebaseConflicts,
       RebaseUnmergeable, ReplaceRemoteOrStop, Publish, StopWithConflict
  <2> QED BY <2>1, <2>2, <2>3
<1>8. CASE DeleteLeftover(d) \/ UploadSnapshot(d) \/ CommitManifest(d) \/ VerifyManifest(d)
  BY <1>8 DEF DeleteLeftover, UploadSnapshot, CommitManifest, VerifyManifest, Fail
<1>9. CASE ResolveAccepted(d)
  BY <1>9 DEF ResolveAccepted, AcceptIdentical, AcceptCarried, AcceptCorrupt, RefuseAccepted,
     Fail
<1>10. CASE RetainBase(d) \/ InstallWorkingCopy(d)
  BY <1>10 DEF RetainBase, InstallWorkingCopy
<1>11. CASE RecordCompleted(d)
  <2>1. pc[d] = "record" /\ pc'[d] = "prune" /\ committed'[d] = target[d]
        /\ UNCHANGED <<conflict, seen, revision>>
    BY <1>11 DEF RecordCompleted, remoteVars
  <2>2. target[d] <= revision
    <3>0. CandidateIsPublished(d) /\ target[d] > 0
      BY <2>1 DEF BaseInv
    <3>1. <<target[d], candidate[d]>> \in Published
      BY <2>1, <3>0 DEF CandidateIsPublished
    <3>2. PICK past \in 1..Len(history) : target[d] = history[past].generation
      BY <3>1 DEF Published
    <3>3. history[past].generation = past /\ Len(history) = revision
      BY DEF HistoryInv, HistoryIsLinear
    <3> QED BY <3>2, <3>3
  <2> QED BY <2>1, <2>2
<1>12. CASE PruneBases(d) \/ SaveRevision(d)
  BY <1>12 DEF PruneBases, SaveRevision
<1>13. CASE UseRemoteStep(d)
  BY <1>13 DEF UseRemoteStep, UseRemoteCancel, UseRemoteCopy, UseRemoteRecord
<1>14. CASE PullSnapshot(d) \/ RetainPulledBase(d) \/ RecordPull(d) \/ SavePulledRevision(d)
  BY <1>14 DEF PullSnapshot, RetainPulledBase, RecordPull, SavePulledRevision
<1>15. CASE FaultStep(d)
  BY <1>15 DEF FaultStep, Interrupt, DelayCommit, SessionEnds, Fail
<1> QED
  BY <1>2, <1>3, <1>4, <1>5, <1>6, <1>7, <1>8, <1>9, <1>10, <1>11, <1>12, <1>13, <1>14, <1>15
  DEF UserStep, DeviceStep, PublishStep, RefreshStep

\* The invariant of the refinement holds in every state.
LEMMA AdvanceInvHolds ==
    ASSUME "restore" \notin FaultKinds PROVE Spec => []AdvanceInv
<1>1. Init => AdvanceInv
  <2> SUFFICES ASSUME NEW generation \in {0, 1}, InitialState(generation)
               PROVE  AdvanceInv
    BY InitialAssumption DEF Init
  <2> QED BY DEF InitialState, AdvanceInv, DeviceAdvances, KnowsPublished, BuildsAhead,
             NoManifest, Stop
<1>2. TypeOK /\ BaseInv /\ HistoryInv /\ ConsentInv /\ AdvanceInv /\ [Next]_vars => AdvanceInv'
  <2> SUFFICES ASSUME TypeOK, BaseInv, HistoryInv, ConsentInv, AdvanceInv, [Next]_vars
               PROVE  AdvanceInv'
    OBVIOUS
  <2>1. ASSUME NEW d \in Device, Unaffected(d) PROVE DeviceAdvances(d)'
    <3>1. /\ committed[d] \in Nat /\ seen[d].generation \in Nat
          /\ conflict[d].generation \in Nat
      BY FieldTypes DEF TypeOK, StateTypeOK, OperationTypeOK, Conflict
    <3> QED BY <2>1, <3>1, RevisionGrows
            DEF AdvanceInv, Unaffected, DeviceAdvances, KnowsPublished, BuildsAhead
  <2> QED BY <2>1, OwnAdvances, OwnOrUnaffected DEF AdvanceInv
<1> QED BY <1>1, <1>2, TypeCorrect, BaseInvHolds, HistoryInvHolds, ConsentInvHolds, PTL
        DEF Spec

\* Without delays no step leaves a request behind.
LEMMA NoRequestsStep ==
    ASSUME inFlight = {}, [Next]_vars, "delay" \notin FaultKinds
    PROVE  inFlight' = {}
<1> USE DEF remoteVars
<1>1. ASSUME NEW d \in Device, UserStep(d) PROVE UNCHANGED inFlight
  BY <1>1 DEF UserStep, Edit, ProjectEdit, Republish, KeepLocal, UseRemotePull
<1>2. ASSUME NEW d \in Device, PublishStep(d) PROVE UNCHANGED inFlight
  BY <1>2 DEF PublishStep, StartPublish, StatManifest, ReadManifest, BuildCandidate,
     DeleteLeftover, UploadSnapshot, CommitManifest, VerifyManifest, ResolveAccepted,
     RetainBase, InstallWorkingCopy, RecordCompleted, PruneBases, SaveRevision
<1>3. ASSUME NEW d \in Device, UseRemoteStep(d) \/ RefreshStep(d) PROVE UNCHANGED inFlight
  BY <1>3 DEF UseRemoteStep, UseRemoteCancel, UseRemoteCopy, UseRemoteRecord, RefreshStep,
     PlanRefresh, PullSnapshot, RetainPulledBase, RecordPull, SavePulledRevision
<1>4. ASSUME NEW d \in Device, FaultStep(d) PROVE UNCHANGED inFlight
  BY <1>4 DEF FaultStep, Interrupt, DelayCommit, Fault
<1>5. CASE ProcessDelayedCommit \/ RestoreBackup \/ UNCHANGED vars
  BY <1>5 DEF ProcessDelayedCommit, RestoreBackup, vars
<1> QED BY <1>1, <1>2, <1>3, <1>4, <1>5 DEF Next, DeviceStep

\* Without delays no request is ever in flight.
LEMMA NoRequests ==
    ASSUME "delay" \notin FaultKinds PROVE Spec => [](inFlight = {})
<1>1. Init => inFlight = {}
  BY DEF Init, InitialState
<1>2. inFlight = {} /\ [Next]_vars => (inFlight = {})'
  BY NoRequestsStep
<1> QED BY <1>1, <1>2, PTL DEF Spec

\* The history as SharedLibrary sees it.
Lineage == [past \in 1..Len(history) |-> history[past].library]

\* What is published is a library.
LEMMA LibrariesOfManifests ==
    /\ \A m \in Manifest : m.library \in Library
    /\ \A written \in Seq(Manifest) : \A past \in 1..Len(written) :
            written[past].library \in Library
<1>1. \A m \in Manifest : m.library \in Library
  BY DEF Manifest
<1>2. \A written \in Seq(Manifest) : \A past \in 1..Len(written) : written[past] \in Manifest
  BY ElementOfSeq
<1> QED BY <1>1, <1>2

\* What the refinement mapping shows is a lineage of libraries.
LEMMA LineageType ==
    ASSUME TypeOK
    PROVE  /\ Lineage \in Seq(Library) /\ Len(Lineage) = Len(history)
           /\ Len(history) \in Nat
           /\ \A past \in 1..Len(history) : Lineage[past] = history[past].library
           /\ Lineage = <<>> <=> Len(history) = 0
<1>1. history \in Seq(Manifest) /\ Len(history) \in Nat
  BY DEF TypeOK, RemoteTypeOK
<1>2. \A past \in 1..Len(history) : history[past].library \in Library
  BY <1>1, LibrariesOfManifests
<1>3. Lineage \in [1..Len(history) -> Library]
  BY <1>2 DEF Lineage
<1>4. Lineage \in Seq(Library)
  BY <1>1, <1>3, SeqDef
<1>5. Len(Lineage) = Len(history)
  BY <1>1, <1>3, <1>4, LenProperties
<1>6. Lineage = <<>> <=> Len(history) = 0
  BY <1>4, <1>5, EmptySeq
<1> QED BY <1>1, <1>4, <1>5, <1>6 DEF Lineage

\* Replacing the manifest publishes its library.
LEMMA ReplacingPublishes ==
    ASSUME TypeOK, NEW m \in Manifest, ReplaceManifest(m)
    PROVE  Lineage' = Append(Lineage, m.library)
<1>1. /\ history \in Seq(Manifest) /\ history' = Append(history, m)
  BY DEF TypeOK, RemoteTypeOK, ReplaceManifest
<1>2. /\ Len(history) \in Nat /\ Len(history') = Len(history) + 1
      /\ history'[Len(history) + 1] = m
      /\ \A past \in 1..Len(history) :
            history'[past] = history[past] /\ history[past].library \in Library
  <2>1. \A past \in 1..Len(history) : history[past].library \in Library
    BY <1>1, LibrariesOfManifests
  <2> QED BY <1>1, <2>1
<1>3. m.library \in Library
  BY LibrariesOfManifests
<1>4. /\ Lineage \in Seq(Library) /\ Len(Lineage) = Len(history)
      /\ \A past \in 1..Len(history) : Lineage[past] = history[past].library
  BY LineageType
<1>5. /\ Len(Append(Lineage, m.library)) = Len(history) + 1
      /\ Append(Lineage, m.library) \in [1..(Len(history) + 1) -> Library]
      /\ Append(Lineage, m.library)[Len(history) + 1] = m.library
      /\ \A past \in 1..Len(history) :
            Append(Lineage, m.library)[past] = history[past].library
  <2>1. ASSUME NEW lineage \in Seq(Library), Len(lineage) = Len(history)
        PROVE  /\ Append(lineage, m.library) \in Seq(Library)
               /\ Len(Append(lineage, m.library)) = Len(history) + 1
               /\ Append(lineage, m.library)[Len(history) + 1] = m.library
               /\ \A past \in 1..Len(history) :
                        Append(lineage, m.library)[past] = lineage[past]
    BY <1>2, <1>3, <2>1
  <2>2. ASSUME NEW longer \in Seq(Library), Len(longer) = Len(history) + 1
        PROVE  longer \in [1..(Len(history) + 1) -> Library]
    BY <2>2, LenProperties
  <2> QED BY <1>4, <2>1, <2>2
<1>6. /\ Lineage' \in [1..(Len(history) + 1) -> Library]
      /\ Lineage'[Len(history) + 1] = m.library
      /\ \A past \in 1..Len(history) : Lineage'[past] = history[past].library
  <2>1. Lineage' = [past \in 1..(Len(history) + 1) |-> history'[past].library]
    BY <1>2 DEF Lineage
  <2>2. \A past \in 1..(Len(history) + 1) : past \in 1..Len(history) \/ past = Len(history) + 1
    BY <1>2
  <2>3. \A past \in 1..(Len(history) + 1) : history'[past].library \in Library
    BY <1>2, <1>3, <2>2
  <2> QED BY <1>2, <2>1, <2>3
<1>7. \A past \in 1..(Len(history) + 1) : Lineage'[past] = Append(Lineage, m.library)[past]
  BY <1>2, <1>5, <1>6
<1> QED BY <1>5, <1>6, <1>7

\* The newest library is the manifest's, and what was published at the
\* recorded generation is the base.
LEMMA LineageOfGenerations ==
    ASSUME TypeOK, BaseInv, HistoryInv
    PROVE  /\ Len(Lineage) = revision /\ (Lineage = <<>> <=> revision = 0)
           /\ revision > 0 => Lineage[Len(Lineage)] = manifest.library
           /\ \A d \in Device : committed[d] > 0 => Lineage[committed[d]] = baseId[d]
<1>1. Len(history) \in Nat /\ revision = Len(history) /\ manifest.generation = revision
      /\ \A past \in 1..Len(history) : history[past].generation = past
  BY DEF HistoryInv, HistoryIsLinear, TypeOK, RemoteTypeOK
<1>2. Len(Lineage) = revision /\ (Lineage = <<>> <=> revision = 0)
  BY <1>1, LineageType
<1>3. ASSUME NEW generation, NEW library, <<generation, library>> \in Published
      PROVE  Lineage[generation] = library
  <2>1. PICK past \in 1..Len(history) :
            generation = history[past].generation /\ library = history[past].library
    BY <1>3 DEF Published
  <2> QED BY <1>1, <2>1 DEF Lineage
<1>4. revision > 0 => <<revision, manifest.library>> \in Published
  BY <1>1 DEF BaseInv, ManifestIsPublished
<1>5. \A d \in Device : committed[d] > 0 => <<committed[d], baseId[d]>> \in Published
  BY DEF BaseInv, RecordedIsPublished
<1> QED BY <1>2, <1>3, <1>4, <1>5

\* A commit publishes a generation that SharedLibrary allows.
LEMMA CommitPublishes ==
    ASSUME TypeOK, BaseInv, HistoryInv, ConsentInv, NEW d \in Device, CommitManifest(d)
    PROVE  Shared!Publish(d) \/ UNCHANGED <<history, committed, approval>>
<1> SUFFICES ASSUME CanReplace(seenRev[d]), ReplaceManifest(Committing(d))
             PROVE  Shared!Publish(d)
  BY DEF CommitManifest, stateVars, opVars
<1>1. pc[d] = "commit" /\ UNCHANGED <<committed, approval>>
  BY DEF CommitManifest, stateVars, opVars
<1>2. /\ seen[d].generation = revision /\ seen[d].library = manifest.library
  BY <1>1 DEF HistoryInv, HistoryIsLinear, SeenIsCurrent, CanReplace
<1>3. Lineage' = Append(Lineage, candidate[d]) /\ candidate[d] \in Library
  BY ReplacingPublishes, FieldTypes DEF Committing
<1>4. ASSUME NEW key \in Keys, Lineage # <<>>,
             candidate[d][key] # Lineage[Len(Lineage)][key]
      PROVE  \/ committed[d] > 0
                /\ Lineage[Len(Lineage)][key] = Lineage[committed[d]][key]
             \/ /\ approval[d].generation = Len(Lineage)
                /\ approval[d].whole \/ key \in approval[d].songs
  <2>1. revision # 0 /\ revision > 0 /\ Lineage[Len(Lineage)] = seen[d].library
    BY <1>2, <1>4, LineageOfGenerations DEF TypeOK, RemoteTypeOK
  <2>2. key \in ChangedKeys(seen[d].library, candidate[d])
    BY <1>4, <2>1 DEF ChangedKeys
  <2>3. \/ committed[d] > 0 /\ seen[d].library[key] = baseId[d][key]
        \/ Approves(Policy(d), key)
    BY <1>1, <1>2, <2>1, <2>2 DEF ConsentInv, CandidateJustified
  <2>4. Approves(Policy(d), key) =>
            /\ approval[d].generation = Len(Lineage)
            /\ approval[d].whole \/ key \in approval[d].songs
    BY <1>2, LineageOfGenerations DEF Policy, PolicyAt, Stop, Approves
  <2> QED BY <2>1, <2>3, <2>4, LineageOfGenerations
<1> QED
  BY <1>1, <1>3, <1>4
  DEF Lineage, Shared!Publish, Shared!MayChange, Shared!Untouched, Shared!Consented,
      Shared!Newest, Shared!Library, Shared!Keys, Library, Keys

\* Recording a generation advances the device.
LEMMA RecordAdvances ==
    ASSUME TypeOK, BaseInv, HistoryInv, AdvanceInv, NEW d \in Device,
           RecordCompleted(d) \/ RecordPull(d) \/ UseRemoteRecord(d)
    PROVE  Shared!Advance(d)
<1> USE DEF TypeOK, StateTypeOK
<1>1. UNCHANGED <<history, approval>>
  BY DEF RecordCompleted, RecordPull, UseRemoteRecord, remoteVars, opVars
<1>2. /\ committed[d] \in Nat /\ target[d] \in Nat /\ seen[d].generation \in Nat
      /\ revision \in Nat /\ Len(Lineage) = revision
  BY FieldTypes, LineageOfGenerations DEF RemoteTypeOK
<1>3. \E generation \in committed[d]..revision :
        committed' = [committed EXCEPT ![d] = generation]
  <2>1. CASE RecordCompleted(d)
    <3>1. pc[d] = "record" /\ committed' = [committed EXCEPT ![d] = target[d]]
      BY <2>1 DEF RecordCompleted
    <3>2. CandidateIsPublished(d) /\ target[d] > committed[d] /\ target[d] > 0
      BY <1>2, <3>1 DEF BaseInv, AdvanceInv, DeviceAdvances, BuildsAhead
    <3>3. <<target[d], candidate[d]>> \in Published
      BY <3>1, <3>2 DEF CandidateIsPublished
    <3>4. PICK past \in 1..Len(history) : target[d] = history[past].generation
      BY <3>3 DEF Published
    <3>5. target[d] \in committed[d]..revision
      BY <1>2, <3>2, <3>4 DEF HistoryInv, HistoryIsLinear
    <3> QED BY <3>1, <3>5
  <2>2. CASE RecordPull(d) \/ UseRemoteRecord(d)
    <3>1. /\ pc[d] \in {"pullRecord", "useRecord"}
          /\ committed' = [committed EXCEPT ![d] = seen[d].generation]
      BY <2>2 DEF RecordPull, UseRemoteRecord
    <3>2. seen[d].generation \in committed[d]..revision
      BY <1>2, <3>1 DEF AdvanceInv, DeviceAdvances, KnowsPublished, BuildsAhead
    <3> QED BY <3>1, <3>2
  <2> QED BY <2>1, <2>2
<1> QED BY <1>1, <1>2, <1>3 DEF Lineage, Shared!Advance

\* A new approval answers a conflict found at a generation that was published,
\* or withdraws the answer.
LEMMA ApprovalAnswers ==
    ASSUME TypeOK, BaseInv, HistoryInv, NEW d \in Device,
           UNCHANGED <<history, committed>>, NEW answer \in Conflict,
           answer.generation <= revision, approval' = [approval EXCEPT ![d] = answer]
    PROVE  Shared!Answer(d)
<1>1. answer = [generation |-> answer.generation, songs |-> answer.songs,
                whole |-> answer.whole]
      /\ answer.generation \in Nat /\ answer.songs \in SUBSET Songs
      /\ answer.whole \in BOOLEAN
  BY DEF Conflict
<1>2. answer.generation \in 0..Len(Lineage)
  BY <1>1, LineageOfGenerations DEF TypeOK, RemoteTypeOK
<1> QED BY <1>1, <1>2 DEF Lineage, Shared!Answer

\* Every step is one of SharedLibrary, or invisible to it.
LEMMA SharedStep ==
    ASSUME TypeOK, BaseInv, HistoryInv, ConsentInv, AdvanceInv, inFlight = {}, [Next]_vars,
           "delay" \notin FaultKinds, "restore" \notin FaultKinds
    PROVE  [Shared!Next]_(Shared!vars)
<1> DEFINE Stutters == UNCHANGED <<history, committed, approval>>
<1>1. Stutters => UNCHANGED Shared!vars
  BY DEF Shared!vars
<1>2. ASSUME NEW d \in Device, CommitManifest(d)
      PROVE  Stutters \/ Shared!Publish(d)
  BY <1>2, CommitPublishes
<1>3. ASSUME NEW d \in Device, RecordCompleted(d) \/ RecordPull(d) \/ UseRemoteRecord(d)
      PROVE  Shared!Advance(d)
  BY <1>3, RecordAdvances
<1>4. ASSUME NEW d \in Device,
             \/ Edit(d) \/ ProjectEdit(d) \/ Republish(d) \/ KeepLocal(d)
             \/ StartPublish(d) \/ BuildCandidate(d)
      PROVE  Stutters \/ Shared!Answer(d)
  <2>1. UNCHANGED <<history, committed>>
    BY <1>4 DEF Edit, ProjectEdit, Republish, KeepLocal, StartPublish, BuildCandidate,
       remoteVars, stateVars
  <2>2. \/ UNCHANGED approval
        \/ \E answer \in {Stop, conflict[d], approval[d]} :
                approval' = [approval EXCEPT ![d] = answer]
    <3>1. CASE Edit(d) \/ ProjectEdit(d) \/ Republish(d)
      BY <3>1, EditMints, EditCommits DEF MintOperation, opVars
    <3>2. CASE KeepLocal(d) \/ StartPublish(d)
      BY <3>2 DEF KeepLocal, StartPublish
    <3>3. CASE BuildCandidate(d)
      BY <3>3 DEF BuildCandidate, PublishUnmoved, GiveUpContended, RebaseCandidate,
         RebaseOntoCorruptSnapshot, RebaseWithoutBase, RebaseMerges, RebaseConflicts,
         RebaseUnmergeable, ReplaceRemoteOrStop, Publish, StopWithConflict
    <3> QED BY <1>4, <3>1, <3>2, <3>3
  <2>3. /\ Stop \in Conflict /\ Stop.generation <= revision
        /\ conflict[d] \in Conflict /\ conflict[d].generation <= revision
    BY StopType DEF Stop, AdvanceInv, DeviceAdvances, KnowsPublished, TypeOK, RemoteTypeOK,
       OperationTypeOK
  <2>4. approval' = [approval EXCEPT ![d] = approval[d]] => UNCHANGED approval
    BY DEF TypeOK, OperationTypeOK
  <2> QED BY <2>1, <2>2, <2>3, <2>4, ApprovalAnswers
<1>5. ASSUME NEW d \in Device,
             \/ UseRemotePull(d) \/ UseRemoteCancel(d) \/ UseRemoteCopy(d)
             \/ StatManifest(d) \/ ReadManifest(d) \/ DeleteLeftover(d)
             \/ UploadSnapshot(d) \/ VerifyManifest(d)
             \/ ResolveAccepted(d) \/ RetainBase(d) \/ InstallWorkingCopy(d) \/ PruneBases(d)
             \/ SaveRevision(d) \/ PlanRefresh(d) \/ PullSnapshot(d) \/ RetainPulledBase(d)
             \/ SavePulledRevision(d)
      PROVE  Stutters
  BY <1>5 DEF UseRemotePull, UseRemoteCancel, UseRemoteCopy, StatManifest, ReadManifest,
     DeleteLeftover, UploadSnapshot, VerifyManifest, ResolveAccepted, RetainBase,
     InstallWorkingCopy, PruneBases, SaveRevision, PlanRefresh, PullSnapshot,
     RetainPulledBase, SavePulledRevision, remoteVars, stateVars, opVars
<1>6. ASSUME NEW d \in Device, FaultStep(d) PROVE Stutters
  BY <1>6 DEF FaultStep, Interrupt, DelayCommit, Fault, SessionEnds, remoteVars
<1>7. ~ProcessDelayedCommit /\ ~RestoreBackup
  BY DEF ProcessDelayedCommit, RestoreBackup, Fault
<1>8. ASSUME UNCHANGED vars PROVE Stutters
  BY <1>8 DEF vars, remoteVars, stateVars, opVars
<1>9. ASSUME NEW d \in Device, UserStep(d) \/ DeviceStep(d) \/ FaultStep(d)
      PROVE  Stutters \/ Shared!Publish(d) \/ Shared!Advance(d) \/ Shared!Answer(d)
  BY <1>2, <1>3, <1>4, <1>5, <1>6, <1>9
  DEF UserStep, DeviceStep, PublishStep, UseRemoteStep, RefreshStep
<1> QED BY <1>1, <1>7, <1>8, <1>9 DEF Next, Shared!Next

\* The storage protocol implements the linear history of SharedLibrary: every
\* compare and swap that succeeds is a publication it allows, and nothing else
\* is visible.  Crashes and lost connections are allowed, at any step and in
\* any number.  A manifest request that is processed after its publication was
\* given up is not: the approval that justified it may be withdrawn by then.
THEOREM RepositoryImplementsSharedLibrary ==
    ASSUME "delay" \notin FaultKinds, "restore" \notin FaultKinds
    PROVE  Spec => ImplementsSharedLibrary
<1>1. Init => Shared!Init
  <2> SUFFICES ASSUME NEW generation \in InitialGenerations, InitialState(generation)
               PROVE  Shared!Init
    BY DEF Init
  <2>1. generation \in {0, 1}
    BY InitialAssumption
  <2>2. [past \in 1..Len(history) |-> history[past].library]
            = IF generation = 0 THEN <<>> ELSE <<Initial>>
    BY SMTT(30), <2>1 DEF InitialState, NoManifest
  <2>3. /\ committed = [d \in Device |-> generation]
        /\ approval = [d \in Device |-> Stop]
    BY DEF InitialState
  <2> QED BY <2>2, <2>3 DEF Shared!Init, Shared!Stop, Stop
<1>2. /\ TypeOK /\ BaseInv /\ HistoryInv /\ ConsentInv /\ AdvanceInv
      /\ inFlight = {} /\ [Next]_vars
      => [Shared!Next]_(Shared!vars)
  BY SharedStep
<1> QED
  BY <1>1, <1>2, TypeCorrect, BaseInvHolds, HistoryInvHolds, ConsentInvHolds,
     AdvanceInvHolds, NoRequests, PTL
  DEF Spec, ImplementsSharedLibrary, Shared!Spec
=============================================================================
