--------------------------- MODULE PublishHistory ---------------------------
(***************************************************************************)
(* What was published, and in which order.                                 *)
(*                                                                         *)
(* First, whatever faults happen: what a device knows about the generation *)
(* it builds on is what that generation published (BaseIsPublished).  The  *)
(* property is about a record written at the end of a publication, a       *)
(* refresh or a Use Remote; BaseInv follows the snapshot through the steps *)
(* that lead there: the manifest and every manifest a device has read were *)
(* published, the candidate is published once it was verified or           *)
(* recognized, and a pulled copy is the one of the manifest.               *)
(*                                                                         *)
(* Second, as long as nobody puts an old manifest back ("restore" \notin   *)
(* FaultKinds), but with crashes, lost connections and manifest requests   *)
(* that arrive late: the repository has one linear history.  The compare   *)
(* and swap compares revisions; the properties speak of generations and    *)
(* rows.  HistoryInv ties them: revision, generation and position in the   *)
(* history are one number, and a publication that holds the current        *)
(* revision has read the current manifest, although it asked for the       *)
(* revision before it asked for the bytes.                                 *)
(***************************************************************************)
EXTENDS PublishTypes

-----------------------------------------------------------------------------
(* Published generations                                                   *)

Published ==
    {<<history[past].generation, history[past].library>> : past \in 1..Len(history)}

ManifestIsPublished ==
    manifest.generation > 0 => <<manifest.generation, manifest.library>> \in Published

SeenIsPublished(d) ==
    seen[d].generation > 0 => <<seen[d].generation, seen[d].library>> \in Published

CandidateIsPublished(d) ==
    pc[d] \in {"retain", "install", "record"} /\ target[d] > 0
        => <<target[d], candidate[d]>> \in Published

PulledCopyIsSeen(d) ==
    pc[d] \in {"pulled", "pullRecord"} => working[d] = seen[d].library

RecordedIsPublished(d) ==
    committed[d] > 0 => <<committed[d], baseId[d]>> \in Published

BaseInv ==
    /\ ManifestIsPublished
    /\ \A d \in Device :
        /\ SeenIsPublished(d) /\ CandidateIsPublished(d)
        /\ PulledCopyIsSeen(d) /\ RecordedIsPublished(d)

-----------------------------------------------------------------------------
\* The manifest changes only by a replacement, which the history records.
LEMMA ManifestSteps ==
    ASSUME TypeOK, [Next]_vars
    PROVE  \/ UNCHANGED <<manifest, revision, history>>
           \/ \E m \in Manifest : ReplaceManifest(m)
<1> USE DEF remoteVars
<1>1. ASSUME NEW d \in Device, UserStep(d)
      PROVE  UNCHANGED <<manifest, revision, history>>
  BY <1>1 DEF UserStep, Edit, ProjectEdit, Republish, KeepLocal, UseRemotePull
<1>2. ASSUME NEW d \in Device, PublishStep(d)
      PROVE  \/ UNCHANGED <<manifest, revision, history>>
             \/ \E m \in Manifest : ReplaceManifest(m)
  <2>1. CASE CommitManifest(d)
    BY <2>1, FieldTypes DEF CommitManifest
  <2>2. CASE ~CommitManifest(d)
    BY <1>2, <2>2 DEF PublishStep, StartPublish, StatManifest, ReadManifest, BuildCandidate,
       DeleteLeftover, UploadSnapshot, VerifyManifest, ResolveAccepted, RetainBase,
       InstallWorkingCopy, RecordCompleted, PruneBases, SaveRevision
  <2> QED BY <2>1, <2>2
<1>3. ASSUME NEW d \in Device, UseRemoteStep(d) \/ RefreshStep(d)
      PROVE  UNCHANGED <<manifest, revision, history>>
  BY <1>3 DEF UseRemoteStep, RefreshStep, UseRemoteCancel, UseRemoteCopy, UseRemoteRecord,
     PlanRefresh, PullSnapshot, RetainPulledBase, RecordPull, SavePulledRevision
<1>4. ASSUME NEW d \in Device, FaultStep(d)
      PROVE  UNCHANGED <<manifest, revision, history>>
  BY <1>4 DEF FaultStep, Interrupt, DelayCommit
<1>5. ASSUME ProcessDelayedCommit
      PROVE  \/ UNCHANGED <<manifest, revision, history>>
             \/ \E m \in Manifest : ReplaceManifest(m)
  BY <1>5 DEF ProcessDelayedCommit, TypeOK, RemoteTypeOK, Request
<1>6. ASSUME RestoreBackup
      PROVE  \E m \in Manifest : ReplaceManifest(m)
  BY <1>6 DEF RestoreBackup, TypeOK, RemoteTypeOK
<1>7. ASSUME UNCHANGED vars
      PROVE  UNCHANGED <<manifest, revision, history>>
  BY <1>7 DEF vars
<1> QED BY <1>1, <1>2, <1>3, <1>4, <1>5, <1>6, <1>7 DEF Next, DeviceStep

\* What was published stays published.
LEMMA PublishedGrows ==
    ASSUME TypeOK, [Next]_vars
    PROVE  /\ Published \subseteq Published'
           /\ ManifestIsPublished => ManifestIsPublished'
<1>1. CASE UNCHANGED <<manifest, revision, history>>
  BY <1>1 DEF Published, ManifestIsPublished
<1>2. ASSUME NEW m \in Manifest, ReplaceManifest(m)
      PROVE  Published \subseteq Published' /\ ManifestIsPublished'
  <2>1. history \in Seq(Manifest) /\ history' = Append(history, m) /\ manifest' = m
    BY <1>2 DEF ReplaceManifest, TypeOK, RemoteTypeOK
  <2>2. /\ Len(history') = Len(history) + 1 /\ Len(history) \in Nat
        /\ \A past \in 1..Len(history) : history'[past] = history[past]
        /\ history'[Len(history) + 1] = m
    BY <2>1
  <2> QED BY <2>1, <2>2 DEF Published, ManifestIsPublished
<1> QED BY <1>1, <1>2, ManifestSteps

\* The part of BaseInv about one device.
DeviceInv(d) ==
    /\ SeenIsPublished(d) /\ CandidateIsPublished(d)
    /\ PulledCopyIsSeen(d) /\ RecordedIsPublished(d)

\* What the invariant says of a device holds as long as that device does not
\* change what it says.
LEMMA DeviceInvKept ==
    ASSUME TypeOK, [Next]_vars, NEW d \in Device, DeviceInv(d),
           UNCHANGED <<seen[d], target[d], candidate[d], working[d], committed[d], baseId[d]>>,
           pc'[d] = pc[d] \/ pc'[d] \notin {"retain", "install", "record", "pulled", "pullRecord"}
    PROVE  DeviceInv(d)'
BY PublishedGrows
DEF DeviceInv, SeenIsPublished, CandidateIsPublished, PulledCopyIsSeen, RecordedIsPublished

\* A step of a device keeps what the invariant says of that device.
LEMMA OwnDeviceInv ==
    ASSUME TypeOK, [Next]_vars, ManifestIsPublished, NEW d \in Device, DeviceInv(d),
           UserStep(d) \/ DeviceStep(d) \/ FaultStep(d)
    PROVE  DeviceInv(d)'
<1> USE PublishedGrows, FieldTypes
<1> USE DEF TypeOK, CopyTypeOK, StateTypeOK, SessionTypeOK, copyVars, stateVars, sessionVars,
            remoteVars, Goto, DeviceInv, SeenIsPublished, CandidateIsPublished,
            PulledCopyIsSeen, RecordedIsPublished
<1>1. CASE UserStep(d)
  BY <1>1 DEF UserStep, Edit, ProjectEdit, Republish, KeepLocal, UseRemotePull,
     ManifestIsPublished
<1>2. CASE BuildCandidate(d)
  BY <1>2 DEF BuildCandidate, PublishUnmoved, GiveUpContended, RebaseCandidate,
     RebaseOntoCorruptSnapshot, RebaseWithoutBase, RebaseMerges, RebaseConflicts,
     RebaseUnmergeable, ReplaceRemoteOrStop, Publish, StopWithConflict, Fail
<1>3. CASE ReadManifest(d)
  BY <1>3 DEF ReadManifest, Observed, NoManifest, Fail, ManifestIsPublished
<1>4. CASE CommitManifest(d)
  BY <1>4 DEF CommitManifest
<1>5. CASE VerifyManifest(d)
  <2>1. CASE manifest = Committing(d)
    <3>1. manifest.generation = target[d] /\ manifest.library = candidate[d]
      BY <2>1 DEF Committing
    <3>2. target[d] > 0 => <<target[d], candidate[d]>> \in Published
      BY <3>1 DEF ManifestIsPublished
    <3>3. UNCHANGED <<sessionVars, copyVars, committed, baseId>>
      BY <1>5 DEF VerifyManifest
    <3>4. pc'[d] = "retain" /\ pc[d] = "verify"
      BY <1>5, <2>1 DEF VerifyManifest
    <3> QED BY <3>2, <3>3, <3>4
  <2>2. CASE manifest # Committing(d)
    BY <1>5, <2>2 DEF VerifyManifest, Fail
  <2> QED BY <2>1, <2>2
<1>6. CASE ResolveAccepted(d)
  BY <1>6 DEF ResolveAccepted, AcceptIdentical, AcceptCarried, AcceptCorrupt, RefuseAccepted,
     Fail
<1>7. CASE RetainBase(d) \/ InstallWorkingCopy(d) \/ RecordCompleted(d)
  BY <1>7 DEF RetainBase, InstallWorkingCopy, RecordCompleted
<1>8. CASE \/ StartPublish(d) \/ StatManifest(d) \/ DeleteLeftover(d)
           \/ UploadSnapshot(d) \/ PruneBases(d)
           \/ SaveRevision(d)
  BY ZenonT(40), <1>8 DEF StartPublish, StatManifest, DeleteLeftover, UploadSnapshot,
     PruneBases, SaveRevision
<1>9. CASE UseRemoteStep(d)
  <2>1. CASE UseRemoteCancel(d) \/ UseRemoteCopy(d)
    BY <2>1 DEF UseRemoteCancel, UseRemoteCopy
  <2>2. CASE UseRemoteRecord(d)
    BY <2>2 DEF UseRemoteRecord
  <2> QED BY <1>9, <2>1, <2>2 DEF UseRemoteStep
<1>10. CASE RefreshStep(d)
  <2>1. CASE PlanRefresh(d) \/ PullSnapshot(d)
    BY ZenonT(40), <2>1 DEF PlanRefresh, PullSnapshot, ManifestIsPublished
  <2>2. CASE RetainPulledBase(d) \/ RecordPull(d) \/ SavePulledRevision(d)
    BY <2>2 DEF RetainPulledBase, RecordPull, SavePulledRevision
  <2> QED BY <1>10, <2>1, <2>2 DEF RefreshStep
<1>11. CASE FaultStep(d)
  BY <1>11 DEF FaultStep, Interrupt, DelayCommit, SessionEnds, Fail
<1> QED
  BY <1>1, <1>2, <1>3, <1>4, <1>5, <1>6, <1>7, <1>8, <1>9, <1>10, <1>11
  DEF DeviceStep, PublishStep

\* Initially nothing is published and nothing recorded.
LEMMA BaseInvInit == Init => BaseInv
<1> SUFFICES ASSUME NEW generation \in {0, 1}, InitialState(generation)
             PROVE  BaseInv
  BY InitialAssumption DEF Init
<1>1. CASE generation = 0
  BY <1>1 DEF InitialState, BaseInv, ManifestIsPublished, SeenIsPublished,
     CandidateIsPublished, PulledCopyIsSeen, RecordedIsPublished, NoManifest
<1>2. CASE generation = 1
  <2>1. /\ manifest = [NoManifest EXCEPT !.generation = 1]
        /\ history = <<[NoManifest EXCEPT !.generation = 1]>>
    BY <1>2 DEF InitialState
  <2>2. <<1, Initial>> \in Published /\ manifest.generation = 1 /\ manifest.library = Initial
    BY <2>1 DEF Published, NoManifest
  <2>3. ASSUME NEW d \in Device
        PROVE  /\ seen[d].generation = 0 /\ pc[d] = "idle"
               /\ committed[d] = 1 /\ baseId[d] = Initial
    BY <1>2 DEF InitialState, NoManifest
  <2> QED
    BY <2>2, <2>3 DEF BaseInv, ManifestIsPublished, SeenIsPublished,
       CandidateIsPublished, PulledCopyIsSeen, RecordedIsPublished
<1> QED BY <1>1, <1>2

\* Every step keeps the invariant of the bases.
LEMMA BaseInvStep ==
    ASSUME TypeOK, [Next]_vars, BaseInv PROVE BaseInv'
<1>1. ManifestIsPublished'
  BY PublishedGrows DEF BaseInv
<1>2. ASSUME NEW d \in Device PROVE DeviceInv(d)'
  <2>1. DeviceInv(d)
    BY DEF BaseInv, DeviceInv
  <2>2. CASE UserStep(d) \/ DeviceStep(d) \/ FaultStep(d)
    BY <2>1, <2>2, OwnDeviceInv DEF BaseInv
  <2>3. CASE Unaffected(d)
    BY <2>1, <2>3, DeviceInvKept DEF Unaffected
  <2> QED BY <2>2, <2>3, OwnOrUnaffected
<1> QED BY <1>1, <1>2 DEF BaseInv, DeviceInv

\* The strengthened invariant holds in every state.
THEOREM BaseInvHolds == Spec => []BaseInv
<1>1. TypeOK /\ BaseInv /\ [Next]_vars => BaseInv'
  BY BaseInvStep
<1> QED BY <1>1, BaseInvInit, TypeCorrect, PTL DEF Spec

\* A rebase never starts from anything but what the recorded generation
\* published, whatever is interrupted, delayed or restored.
THEOREM BasesArePublished == Spec => []BaseIsPublished
<1>1. TypeOK /\ BaseInv => BaseIsPublished
  BY DEF BaseInv, RecordedIsPublished, Published, BaseIsPublished
<1> QED BY <1>1, BaseInvHolds, TypeCorrect, PTL

-----------------------------------------------------------------------------
(* The linear history                                                      *)

HistoryIsLinear ==
    /\ revision = Len(history)
    /\ \A past \in 1..Len(history) : history[past].generation = past
    /\ manifest.generation = revision

RequestsSucceed ==
    \A request \in inFlight :
        /\ request.expects <= revision
        /\ request.expects = revision => request.manifest.generation = revision + 1

SeenIsCurrent(d) ==
    /\ seenRev[d] <= revision
    /\ pc[d] \in {"rebase", "upload", "commit"} /\ seenRev[d] = revision
        => seen[d].generation = manifest.generation /\ seen[d].library = manifest.library

TargetIsNext(d) ==
    pc[d] \in {"upload", "commit"} => target[d] = seen[d].generation + 1

\* A repository without a manifest has the library NoManifest stands for.
NoGenerationYet == revision = 0 => manifest = NoManifest

HistoryInv ==
    /\ HistoryIsLinear /\ RequestsSucceed /\ NoGenerationYet
    /\ \A d \in Device : SeenIsCurrent(d) /\ TargetIsNext(d)

-----------------------------------------------------------------------------
\* Initially history, revision and generation are empty.
LEMMA HistoryInvInit == Init => HistoryInv
<1> SUFFICES ASSUME NEW generation \in {0, 1}, InitialState(generation)
             PROVE  HistoryInv
  BY InitialAssumption DEF Init
<1> USE DEF HistoryInv, HistoryIsLinear, RequestsSucceed, NoGenerationYet, SeenIsCurrent,
            TargetIsNext, NoManifest
<1>1. CASE generation = 0
  BY <1>1 DEF InitialState
<1>2. CASE generation = 1
  <2>1. /\ manifest = [NoManifest EXCEPT !.generation = 1] /\ revision = 1
        /\ history = <<[NoManifest EXCEPT !.generation = 1]>> /\ inFlight = {}
    BY <1>2 DEF InitialState
  <2>2. ASSUME NEW d \in Device PROVE pc[d] = "idle" /\ seenRev[d] = 0
    BY <1>2 DEF InitialState
  <2> QED BY <2>1, <2>2
<1> QED BY <1>1, <1>2

\* A replacement of the manifest by its successor keeps the history linear and
\* leaves every revision read so far behind.
LEMMA ReplaceKeepsHistory ==
    ASSUME TypeOK, HistoryInv, NEW m \in Manifest, ReplaceManifest(m),
           m.generation = revision + 1
    PROVE  HistoryIsLinear' /\ NoGenerationYet' /\ revision' = revision + 1
<1>1. history \in Seq(Manifest) /\ history' = Append(history, m) /\ manifest' = m
      /\ revision' = revision + 1 /\ revision \in Nat
  BY DEF ReplaceManifest, TypeOK, RemoteTypeOK
<1>2. /\ Len(history') = Len(history) + 1 /\ Len(history) \in Nat
      /\ \A past \in 1..Len(history) : history'[past] = history[past]
      /\ history'[Len(history) + 1] = m
  BY <1>1
<1> QED BY <1>1, <1>2 DEF HistoryInv, HistoryIsLinear, NoGenerationYet

\* A manifest that replaces the current one is its successor.
LEMMA CommitsAreNext ==
    ASSUME TypeOK, HistoryInv, NEW d \in Device, pc[d] = "commit", CanReplace(seenRev[d])
    PROVE  Committing(d).generation = revision + 1
BY DEF HistoryInv, HistoryIsLinear, SeenIsCurrent, TargetIsNext, CanReplace, Committing

\* Every step leaves the remote repository alone, replaces the manifest by its
\* successor, or sends a request that will succeed only as long as it is one.
LEMMA RemoteSteps ==
    ASSUME TypeOK, HistoryInv, [Next]_vars, "restore" \notin FaultKinds
    PROVE  /\ \/ UNCHANGED <<manifest, revision, history>>
              \/ \E m \in Manifest : ReplaceManifest(m) /\ m.generation = revision + 1
           /\ \A request \in inFlight' :
                \/ request \in inFlight
                \/ /\ request.expects <= revision /\ UNCHANGED revision
                   /\ request.expects = revision
                        => request.manifest.generation = revision + 1
<1> USE DEF remoteVars
<1>1. ASSUME NEW d \in Device, UserStep(d)
      PROVE  UNCHANGED <<manifest, revision, history, inFlight>>
  BY <1>1 DEF UserStep, Edit, ProjectEdit, Republish, KeepLocal, UseRemotePull
<1>2. ASSUME NEW d \in Device, CommitManifest(d)
      PROVE  /\ \/ UNCHANGED <<manifest, revision, history>>
                \/ \E m \in Manifest : ReplaceManifest(m) /\ m.generation = revision + 1
             /\ UNCHANGED inFlight
  BY <1>2, FieldTypes, CommitsAreNext DEF CommitManifest
<1>3. ASSUME NEW d \in Device, PublishStep(d), ~CommitManifest(d)
      PROVE  UNCHANGED <<manifest, revision, history, inFlight>>
  BY <1>3 DEF PublishStep, StartPublish, StatManifest, ReadManifest, BuildCandidate,
     DeleteLeftover, UploadSnapshot, VerifyManifest, ResolveAccepted, RetainBase,
     InstallWorkingCopy, RecordCompleted, PruneBases, SaveRevision
<1>4. ASSUME NEW d \in Device, UseRemoteStep(d) \/ RefreshStep(d)
      PROVE  UNCHANGED <<manifest, revision, history, inFlight>>
  BY <1>4 DEF UseRemoteStep, RefreshStep, UseRemoteCancel, UseRemoteCopy, UseRemoteRecord,
     PlanRefresh, PullSnapshot, RetainPulledBase, RecordPull, SavePulledRevision
<1>5. ASSUME NEW d \in Device, Interrupt(d)
      PROVE  UNCHANGED <<manifest, revision, history, inFlight>>
  BY <1>5 DEF Interrupt
<1>6. ASSUME NEW d \in Device, DelayCommit(d)
      PROVE  /\ UNCHANGED <<manifest, revision, history>>
             /\ \A request \in inFlight' \ inFlight :
                    /\ request.expects <= revision
                    /\ request.expects = revision
                         => request.manifest.generation = revision + 1
  <2>1. inFlight' = inFlight \cup
            {[expects |-> seenRev[d], manifest |-> Committing(d)]}
        /\ pc[d] = "commit" /\ UNCHANGED <<manifest, revision, history>>
    BY <1>6 DEF DelayCommit
  <2>2. seenRev[d] <= revision
    BY DEF HistoryInv, SeenIsCurrent
  <2>3. seenRev[d] = revision => Committing(d).generation = revision + 1
    BY <2>1, CommitsAreNext DEF CanReplace
  <2> QED BY <2>1, <2>2, <2>3
<1>7. ASSUME ProcessDelayedCommit
      PROVE  /\ \/ UNCHANGED <<manifest, revision, history>>
                \/ \E m \in Manifest : ReplaceManifest(m) /\ m.generation = revision + 1
             /\ inFlight' \subseteq inFlight
  <2>1. PICK request \in inFlight :
            /\ inFlight' = inFlight \ {request}
            /\ \/ CanReplace(request.expects) /\ ReplaceManifest(request.manifest)
               \/ UNCHANGED <<manifest, revision, history>>
    BY <1>7 DEF ProcessDelayedCommit
  <2>2. request.manifest \in Manifest
    BY DEF TypeOK, RemoteTypeOK, Request
  <2>3. CanReplace(request.expects) => request.manifest.generation = revision + 1
    BY DEF HistoryInv, RequestsSucceed, CanReplace
  <2> QED BY <2>1, <2>2, <2>3
<1>8. ~RestoreBackup
  BY DEF RestoreBackup, Fault
<1>9. ASSUME UNCHANGED vars PROVE UNCHANGED <<manifest, revision, history, inFlight>>
  BY <1>9 DEF vars
<1> QED BY <1>1, <1>2, <1>3, <1>4, <1>5, <1>6, <1>7, <1>8, <1>9
        DEF Next, DeviceStep, PublishStep, FaultStep

\* A revision read so far stays a past one; the current one stays what it was.
LEMMA SeenStaysCurrent ==
    ASSUME TypeOK, HistoryInv, [Next]_vars, "restore" \notin FaultKinds, NEW d \in Device,
           UNCHANGED <<seen[d], seenRev[d], target[d]>>,
           pc'[d] = pc[d] \/ pc'[d] \notin {"rebase", "upload", "commit"}
    PROVE  SeenIsCurrent(d)' /\ TargetIsNext(d)'
<1>1. \/ UNCHANGED <<manifest, revision>>
      \/ revision' = revision + 1
  BY RemoteSteps DEF ReplaceManifest
<1>2. SeenIsCurrent(d) /\ TargetIsNext(d) /\ seenRev[d] \in Nat /\ revision \in Nat
  BY DEF HistoryInv, TypeOK, RemoteTypeOK, SessionTypeOK
<1> QED BY <1>1, <1>2 DEF SeenIsCurrent, TargetIsNext

\* The same for the device that takes the step.
LEMMA OwnHistoryInv ==
    ASSUME TypeOK, HistoryInv, [Next]_vars, "restore" \notin FaultKinds, NEW d \in Device,
           UserStep(d) \/ DeviceStep(d) \/ FaultStep(d)
    PROVE  SeenIsCurrent(d)' /\ TargetIsNext(d)'
<1> USE DEF TypeOK, RemoteTypeOK, SessionTypeOK, sessionVars, remoteVars, Goto
<1>0. SeenIsCurrent(d) /\ TargetIsNext(d)
  BY DEF HistoryInv
<1>1. CASE Edit(d) \/ ProjectEdit(d) \/ Republish(d) \/ KeepLocal(d)
  BY <1>1, SeenStaysCurrent DEF Edit, ProjectEdit, Republish, KeepLocal
<1>2. CASE UseRemotePull(d) \/ PlanRefresh(d)
  BY <1>0, <1>2 DEF UseRemotePull, PlanRefresh, SeenIsCurrent, TargetIsNext
<1>3. CASE StatManifest(d)
  BY <1>3 DEF StatManifest, SeenIsCurrent, TargetIsNext
<1>4. CASE ReadManifest(d)
  BY <1>0, <1>4 DEF ReadManifest, Observed, Fail, SeenIsCurrent, TargetIsNext, HistoryInv,
     NoGenerationYet
<1>5. CASE BuildCandidate(d)
  BY <1>0, <1>5 DEF BuildCandidate, PublishUnmoved, GiveUpContended, RebaseCandidate,
     RebaseOntoCorruptSnapshot, RebaseWithoutBase, RebaseMerges, RebaseConflicts,
     RebaseUnmergeable, ReplaceRemoteOrStop, Publish, StopWithConflict, Fail,
     SeenIsCurrent, TargetIsNext
<1>6. CASE DeleteLeftover(d) \/ UploadSnapshot(d)
  BY <1>0, <1>6 DEF DeleteLeftover, UploadSnapshot, SeenIsCurrent, TargetIsNext
<1>7. CASE CommitManifest(d)
  BY <1>0, <1>7 DEF CommitManifest, ReplaceManifest, CanReplace, SeenIsCurrent, TargetIsNext
<1>8. CASE ResolveAccepted(d)
  BY <1>0, <1>8 DEF ResolveAccepted, AcceptIdentical, AcceptCarried, AcceptCorrupt,
     RefuseAccepted, Fail, SeenIsCurrent, TargetIsNext
<1>9. CASE \/ StartPublish(d) \/ VerifyManifest(d) \/ RetainBase(d) \/ InstallWorkingCopy(d)
           \/ RecordCompleted(d) \/ PruneBases(d) \/ SaveRevision(d)
  BY <1>9, SeenStaysCurrent DEF StartPublish, VerifyManifest, RetainBase, InstallWorkingCopy,
     RecordCompleted, PruneBases, SaveRevision, Fail
<1>10. CASE UseRemoteStep(d)
  BY <1>10, SeenStaysCurrent DEF UseRemoteStep, UseRemoteCancel, UseRemoteCopy, UseRemoteRecord
<1>11. CASE RefreshStep(d) /\ ~PlanRefresh(d)
  BY <1>11, SeenStaysCurrent DEF RefreshStep, PullSnapshot, RetainPulledBase, RecordPull,
     SavePulledRevision
<1>12. CASE FaultStep(d)
  BY <1>12, SeenStaysCurrent DEF FaultStep, Interrupt, DelayCommit, SessionEnds, Fail
<1> QED
  BY <1>1, <1>2, <1>3, <1>4, <1>5, <1>6, <1>7, <1>8, <1>9, <1>10, <1>11, <1>12
  DEF UserStep, DeviceStep, PublishStep, RefreshStep

\* Every step keeps the invariant of the history.
LEMMA HistoryInvStep ==
    ASSUME TypeOK, HistoryInv, [Next]_vars, "restore" \notin FaultKinds
    PROVE  HistoryInv'
<1>1. \/ UNCHANGED <<manifest, revision, history>>
      \/ HistoryIsLinear' /\ NoGenerationYet' /\ revision' = revision + 1
  BY RemoteSteps, ReplaceKeepsHistory
<1>2. HistoryIsLinear' /\ NoGenerationYet'
  BY <1>1 DEF HistoryInv, HistoryIsLinear, NoGenerationYet
<1>3. RequestsSucceed'
  BY <1>1, RemoteSteps DEF HistoryInv, RequestsSucceed, TypeOK, RemoteTypeOK, Request
<1>4. ASSUME NEW d \in Device PROVE SeenIsCurrent(d)' /\ TargetIsNext(d)'
  <2>1. CASE UserStep(d) \/ DeviceStep(d) \/ FaultStep(d)
    BY <2>1, OwnHistoryInv
  <2>2. CASE Unaffected(d)
    BY <2>2, SeenStaysCurrent DEF Unaffected
  <2> QED BY <2>1, <2>2, OwnOrUnaffected
<1> QED BY <1>2, <1>3, <1>4 DEF HistoryInv

\* Without restores the invariant of the history holds in every state.
THEOREM HistoryInvHolds ==
    ASSUME "restore" \notin FaultKinds PROVE Spec => []HistoryInv
<1>1. TypeOK /\ HistoryInv /\ [Next]_vars => HistoryInv'
  BY HistoryInvStep
<1> QED BY <1>1, HistoryInvInit, TypeCorrect, PTL DEF Spec

\* The manifest is only ever replaced by its successor, whatever requests are
\* lost, late or retried.
THEOREM ManifestAdvancesByOne ==
    ASSUME "restore" \notin FaultKinds PROVE Spec => GenerationsAreConsecutive
<1>1. TypeOK /\ HistoryInv /\ [Next]_vars
        => [manifest' # manifest => manifest'.generation = manifest.generation + 1]_vars
  <2> SUFFICES ASSUME TypeOK, HistoryInv, [Next]_vars, manifest' # manifest
               PROVE  manifest'.generation = manifest.generation + 1
    OBVIOUS
  <2> QED BY RemoteSteps DEF ReplaceManifest, HistoryInv, HistoryIsLinear
<1> QED BY <1>1, HistoryInvHolds, TypeCorrect, PTL DEF Spec, GenerationsAreConsecutive
=============================================================================
