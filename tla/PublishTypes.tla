---------------------------- MODULE PublishTypes ----------------------------
(***************************************************************************)
(* Type correctness of PublishChanges, for every number of devices, songs, *)
(* tables, rows, rebases, operations and faults.                           *)
(***************************************************************************)
EXTENDS PublishChanges, RebaseProofs

\* The absent manifest and the unread probe are typed.
LEMMA NoManifestType == NoManifest \in Manifest /\ NoProbe.library \in Library
BY InitialAssumption DEF NoManifest, NoProbe, Manifest

\* The policy that approves nothing is a policy.
LEMMA StopType == Stop \in Conflict
BY DEF Stop, Conflict

\* The rebase a publication computes is well typed.
LEMMA RebaseOutcomeType ==
    ASSUME TypeOK, NEW d \in Device
    PROVE  /\ Policy(d) \in Conflict
           /\ RebaseOutcome(d).library \in Library
           /\ RebaseOutcome(d).songs \subseteq Songs
           /\ RebaseOutcome(d).whole \in BOOLEAN
<1>1. /\ baseId[d] \in Library /\ seen[d].library \in Library
      /\ working[d] \in Library /\ whole[d] \in BOOLEAN
      /\ approval[d] \in Conflict /\ seen[d].generation \in Nat
  BY DEF TypeOK, CopyTypeOK, StateTypeOK, OperationTypeOK, SessionTypeOK, Manifest
<1>2. Policy(d) \in Conflict
  BY <1>1, PolicyAtType DEF Policy
<1> QED BY <1>1, <1>2, MergeOntoRemoteType DEF RebaseOutcome

\* What the fields of a device hold.
LEMMA FieldTypes ==
    ASSUME TypeOK, NEW d \in Device
    PROVE  /\ manifest.library \in Library /\ manifest.generation \in Nat
           /\ seen[d] \in Manifest
           /\ seen[d].library \in Library /\ seen[d].generation \in Nat
           /\ candidate[d] \in Library /\ target[d] \in Nat
           /\ working[d] \in Library /\ opId[d] \in Nat
           /\ Observed(d) \in Manifest
           /\ Committing(d) \in Manifest
<1> USE DEF TypeOK, RemoteTypeOK, CopyTypeOK, OperationTypeOK, SessionTypeOK
<1>1. manifest \in Manifest /\ seen[d] \in Manifest
  OBVIOUS
<1>2. Observed(d) \in Manifest
  BY NoManifestType DEF Observed
<1>3. Committing(d) \in Manifest
  BY DEF Committing, Manifest
<1> QED BY <1>1, <1>2, <1>3 DEF Manifest

\* Retaining a base keeps the set of bases typed.
LEMMA RetainedType ==
    ASSUME NEW kept \in SUBSET Base, NEW generation \in Nat, NEW library \in Library
    PROVE  Retained(kept, generation, library) \in SUBSET Base
BY DEF Retained, Base

\* A new operation has an id, and its rows stay typed.
LEMMA MintOperationType ==
    ASSUME TypeOK, NEW d \in Device, NEW wholeRepository \in BOOLEAN,
           MintOperation(d, wholeRepository)
    PROVE  OperationTypeOK' /\ localState' \in [Device -> {"clean", "dirty", "conflicted"}]
           /\ operations' \in Nat
<1> USE DEF TypeOK, OperationTypeOK, StateTypeOK
<1>1. CASE opState[d] \in Mergeable
  <2>1. newer' \in [Device -> Nat]
    BY <1>1 DEF MintOperation
  <2>2. newerWhole' \in [Device -> BOOLEAN]
    <3>1. newerWhole' = [newerWhole EXCEPT ![d] = newerWhole[d] \/ wholeRepository]
      BY <1>1 DEF MintOperation
    <3>2. (newerWhole[d] \/ wholeRepository) \in BOOLEAN
      OBVIOUS
    <3> QED BY <3>1, <3>2
  <2> QED BY <1>1, <2>1, <2>2 DEF MintOperation
<1>2. CASE opState[d] \notin Mergeable
  <2>1. opState' \in [Device -> OpStates]
    BY <1>2 DEF MintOperation, OpStates
  <2>2. /\ opId' \in [Device -> Nat] /\ expected' \in [Device -> Nat]
        /\ whole' \in [Device -> BOOLEAN]
    BY <1>2 DEF MintOperation
  <2>3. approval' \in [Device -> Conflict] /\ conflict' \in [Device -> Conflict]
    BY <1>2, StopType DEF MintOperation
  <2> QED BY <1>2, <2>1, <2>2, <2>3 DEF MintOperation
<1> QED BY <1>1, <1>2 DEF MintOperation

\* The initial state is typed.
LEMMA TypeInit == Init => TypeOK
<1> SUFFICES ASSUME NEW generation \in {0, 1}, InitialState(generation)
             PROVE  TypeOK
  BY InitialAssumption DEF Init
<1> DEFINE first == [NoManifest EXCEPT !.generation = 1]
<1>1. first \in Manifest /\ first.library = Initial
  BY NoManifestType DEF NoManifest, Manifest
<1>2. manifest \in Manifest /\ revision \in Nat /\ history \in Seq(Manifest)
  BY <1>1, NoManifestType DEF InitialState
<1>3. snapshots \subseteq Snapshot /\ inFlight \subseteq Request
  BY InitialAssumption DEF InitialState, Snapshot
<1>4. working \in [Device -> Library] /\ baseId \in [Device -> Library]
      /\ candidate \in [Device -> Library]
  BY InitialAssumption DEF InitialState
<1>5. bases \in [Device -> SUBSET Base]
  BY InitialAssumption DEF InitialState, Base
<1>6. seen \in [Device -> Manifest]
      /\ probe \in [Device -> [known : BOOLEAN, library : Library]]
  BY NoManifestType DEF InitialState, NoProbe
<1>7. approval \in [Device -> Conflict] /\ conflict \in [Device -> Conflict]
  BY StopType DEF InitialState
<1>8. rebases \in [Device -> 0..MaxRebases]
  BY BoundsAssumption DEF InitialState
<1> QED
  BY <1>2, <1>3, <1>4, <1>5, <1>6, <1>7, <1>8
  DEF InitialState, TypeOK, RemoteTypeOK, CopyTypeOK, StateTypeOK, OperationTypeOK,
      SessionTypeOK, OpStates, Steps

\* Every step of a device but the rebase (below) preserves the types.

\* Edit keeps the types.
LEMMA TypeEdit ==
    ASSUME TypeOK, NEW d \in Device, Edit(d) PROVE TypeOK'
<1> USE DEF TypeOK, Edit, Goto
<1>1. RemoteTypeOK' /\ StateTypeOK' /\ OperationTypeOK' /\ SessionTypeOK'
  BY DEF RemoteTypeOK, StateTypeOK, OperationTypeOK, SessionTypeOK,
         remoteVars, stateVars, opVars, sessionVars
<1>2. CopyTypeOK'
  BY DEF CopyTypeOK, SessionTypeOK, copyVars, Library
<1>3. pc' \in [Device -> Steps] /\ operations' \in Nat /\ faults' \in Nat
  BY DEF boundVars, Steps, EditSteps
<1> QED BY <1>1, <1>2, <1>3

\* ProjectEdit keeps the types.
LEMMA TypeProjectEdit ==
    ASSUME TypeOK, NEW d \in Device, ProjectEdit(d) PROVE TypeOK'
<1> USE DEF TypeOK, ProjectEdit, Goto
<1>1. RemoteTypeOK' /\ CopyTypeOK' /\ SessionTypeOK'
  BY DEF RemoteTypeOK, CopyTypeOK, SessionTypeOK,
         remoteVars, copyVars, sessionVars
<1>2. (pc[d] = "projectWhole") \in BOOLEAN
  OBVIOUS
<1>3. OperationTypeOK' /\ localState' \in [Device -> {"clean", "dirty", "conflicted"}]
      /\ operations' \in Nat
  BY <1>2, MintOperationType
<1>4. StateTypeOK'
  BY <1>3 DEF StateTypeOK
<1>5. pc' \in [Device -> Steps] /\ faults' \in Nat
  BY DEF MintOperation, Steps
<1> QED BY <1>1, <1>3, <1>4, <1>5

\* Republish keeps the types.
LEMMA TypeRepublish ==
    ASSUME TypeOK, NEW d \in Device, Republish(d) PROVE TypeOK'
<1> USE DEF TypeOK, Republish, MintOperation, Goto
<1>1. RemoteTypeOK' /\ CopyTypeOK' /\ SessionTypeOK'
  BY DEF RemoteTypeOK, CopyTypeOK, SessionTypeOK,
         remoteVars, copyVars, sessionVars
<1>2. StateTypeOK'
  BY DEF StateTypeOK, CopyTypeOK, SessionTypeOK, stateVars
<1>3. OperationTypeOK'
  BY MintOperationType
<1>4. pc' \in [Device -> Steps] /\ operations' \in Nat /\ faults' \in Nat
  BY DEF boundVars, Steps, PublishSteps, RefreshSteps, UseRemoteSteps
<1> QED BY <1>1, <1>2, <1>3, <1>4

\* StartPublish keeps the types.
LEMMA TypeStartPublish ==
    ASSUME TypeOK, NEW d \in Device, StartPublish(d) PROVE TypeOK'
<1> USE DEF TypeOK, StartPublish, Goto
<1>1. RemoteTypeOK' /\ CopyTypeOK'
  BY DEF RemoteTypeOK, CopyTypeOK,
         remoteVars, copyVars
<1>2. StateTypeOK'
  BY DEF StateTypeOK, CopyTypeOK, SessionTypeOK, stateVars
<1>3. OperationTypeOK'
  BY StopType DEF OperationTypeOK, StateTypeOK, opVars, OpStates
<1>4. SessionTypeOK'
  BY BoundsAssumption DEF SessionTypeOK
<1>5. pc' \in [Device -> Steps] /\ operations' \in Nat /\ faults' \in Nat
  BY DEF boundVars, Steps, PublishSteps, RefreshSteps, UseRemoteSteps
<1> QED BY <1>1, <1>2, <1>3, <1>4, <1>5

\* StatManifest keeps the types.
LEMMA TypeStatManifest ==
    ASSUME TypeOK, NEW d \in Device, StatManifest(d) PROVE TypeOK'
<1> USE DEF TypeOK, StatManifest, Goto
<1>1. RemoteTypeOK' /\ CopyTypeOK' /\ StateTypeOK' /\ OperationTypeOK'
  BY DEF RemoteTypeOK, CopyTypeOK, StateTypeOK, OperationTypeOK,
         remoteVars, copyVars, stateVars, opVars
<1>2. SessionTypeOK'
  BY NoManifestType DEF SessionTypeOK, RemoteTypeOK, CopyTypeOK, OperationTypeOK, sessionVars
<1>3. pc' \in [Device -> Steps] /\ operations' \in Nat /\ faults' \in Nat
  BY DEF boundVars, Steps, PublishSteps, RefreshSteps, UseRemoteSteps
<1> QED BY <1>1, <1>2, <1>3

\* ReadManifest keeps the types.
LEMMA TypeReadManifest ==
    ASSUME TypeOK, NEW d \in Device, ReadManifest(d) PROVE TypeOK'
<1> USE DEF TypeOK, ReadManifest, Fail, Goto
<1>1. RemoteTypeOK' /\ CopyTypeOK'
  BY DEF RemoteTypeOK, CopyTypeOK,
         remoteVars, copyVars
<1>2. StateTypeOK'
  BY DEF StateTypeOK, CopyTypeOK, SessionTypeOK, stateVars
<1>3. OperationTypeOK'
  BY StopType DEF OperationTypeOK, StateTypeOK, opVars, OpStates
<1>4. SessionTypeOK'
  <2>1. Observed(d) \in Manifest
    BY FieldTypes
  <2>2. seen' = [seen EXCEPT ![d] = Observed(d)]
    OBVIOUS
  <2>3. probe' \in [Device -> [known : BOOLEAN, library : Library]]
    <3>1. [known |-> TRUE, library |-> Observed(d).library]
            \in [known : BOOLEAN, library : Library]
      BY <2>1 DEF Manifest
    <3>2. NoProbe \in [known : BOOLEAN, library : Library]
      BY NoManifestType DEF NoProbe
    <3>3. \/ probe' = probe
          \/ probe' = [probe EXCEPT ![d] =
                          [known |-> TRUE, library |-> Observed(d).library]]
          \/ probe' = [probe EXCEPT ![d] = NoProbe]
      OBVIOUS
    <3> QED BY ZenonT(40), <3>1, <3>2, <3>3 DEF SessionTypeOK
  <2> QED BY <2>1, <2>2, <2>3 DEF SessionTypeOK
<1>5. pc' \in [Device -> Steps] /\ operations' \in Nat /\ faults' \in Nat
  BY DEF boundVars, Steps, PublishSteps, RefreshSteps, UseRemoteSteps
<1> QED BY <1>1, <1>2, <1>3, <1>4, <1>5

\* UploadSnapshot keeps the types.
LEMMA TypeUploadSnapshot ==
    ASSUME TypeOK, NEW d \in Device, UploadSnapshot(d) PROVE TypeOK'
<1> USE DEF TypeOK, UploadSnapshot, Goto
<1>1. CopyTypeOK' /\ StateTypeOK' /\ OperationTypeOK' /\ SessionTypeOK'
  BY DEF CopyTypeOK, StateTypeOK, OperationTypeOK, SessionTypeOK,
         copyVars, stateVars, opVars, sessionVars
<1>2. RemoteTypeOK'
  BY DEF RemoteTypeOK, SessionTypeOK, OperationTypeOK, remoteVars, Snapshot
<1>3. pc' \in [Device -> Steps] /\ operations' \in Nat /\ faults' \in Nat
  BY DEF boundVars, Steps, PublishSteps, RefreshSteps, UseRemoteSteps
<1> QED BY <1>1, <1>2, <1>3

\* DeleteLeftover keeps the types.
LEMMA TypeDeleteLeftover ==
    ASSUME TypeOK, NEW d \in Device, DeleteLeftover(d) PROVE TypeOK'
<1> USE DEF TypeOK, DeleteLeftover
<1>1. CopyTypeOK' /\ StateTypeOK' /\ OperationTypeOK' /\ SessionTypeOK'
  BY DEF CopyTypeOK, StateTypeOK, OperationTypeOK, SessionTypeOK,
         copyVars, stateVars, opVars, sessionVars
<1>2. RemoteTypeOK'
  BY DEF RemoteTypeOK
<1> QED BY <1>1, <1>2 DEF boundVars

\* CommitManifest keeps the types.
LEMMA TypeCommitManifest ==
    ASSUME TypeOK, NEW d \in Device, CommitManifest(d) PROVE TypeOK'
<1> USE DEF TypeOK, CommitManifest, Goto
<1>1. CopyTypeOK' /\ StateTypeOK' /\ OperationTypeOK'
  BY DEF CopyTypeOK, StateTypeOK, OperationTypeOK,
         copyVars, stateVars, opVars
<1>2. RemoteTypeOK'
  <2>1. CASE CanReplace(seenRev[d])
    <3>1. ReplaceManifest(Committing(d)) /\ UNCHANGED <<snapshots, inFlight>>
      BY <2>1
    <3>2. manifest' \in Manifest /\ revision' \in Nat /\ history' \in Seq(Manifest)
      BY <3>1, FieldTypes DEF ReplaceManifest, RemoteTypeOK
    <3> QED BY <3>1, <3>2 DEF RemoteTypeOK
  <2>2. CASE ~CanReplace(seenRev[d])
    BY <2>2 DEF RemoteTypeOK
  <2> QED BY <2>1, <2>2
<1>3. SessionTypeOK'
  BY DEF RemoteTypeOK, SessionTypeOK
<1>4. pc' \in [Device -> Steps] /\ operations' \in Nat /\ faults' \in Nat
  BY DEF boundVars, Steps, PublishSteps, RefreshSteps, UseRemoteSteps
<1> QED BY <1>1, <1>2, <1>3, <1>4

\* VerifyManifest keeps the types.
LEMMA TypeVerifyManifest ==
    ASSUME TypeOK, NEW d \in Device, VerifyManifest(d) PROVE TypeOK'
<1> USE DEF TypeOK, VerifyManifest, Fail, Goto
<1>1. RemoteTypeOK' /\ CopyTypeOK' /\ SessionTypeOK'
  BY DEF RemoteTypeOK, CopyTypeOK, SessionTypeOK,
         remoteVars, copyVars, sessionVars
<1>2. StateTypeOK'
  BY DEF StateTypeOK, CopyTypeOK, SessionTypeOK, stateVars
<1>3. OperationTypeOK'
  BY StopType DEF OperationTypeOK, StateTypeOK, opVars, OpStates
<1>4. pc' \in [Device -> Steps] /\ operations' \in Nat /\ faults' \in Nat
  BY DEF boundVars, Steps, PublishSteps, RefreshSteps, UseRemoteSteps
<1> QED BY <1>1, <1>2, <1>3, <1>4

\* ResolveAccepted keeps the types.
LEMMA TypeResolveAccepted ==
    ASSUME TypeOK, NEW d \in Device, ResolveAccepted(d) PROVE TypeOK'
<1> USE DEF TypeOK, ResolveAccepted, AcceptIdentical, AcceptCarried, AcceptCorrupt,
            RefuseAccepted, Fail, Goto
<1>1. RemoteTypeOK' /\ CopyTypeOK'
  BY DEF RemoteTypeOK, CopyTypeOK,
         remoteVars, copyVars
<1>2. StateTypeOK'
  BY DEF StateTypeOK, CopyTypeOK, SessionTypeOK, stateVars
<1>3. OperationTypeOK'
  BY StopType DEF OperationTypeOK, StateTypeOK, opVars, OpStates
<1>4. SessionTypeOK'
  BY DEF SessionTypeOK, CopyTypeOK, sessionVars, Manifest
<1>5. pc' \in [Device -> Steps] /\ operations' \in Nat /\ faults' \in Nat
  BY DEF boundVars, Steps, PublishSteps, RefreshSteps, UseRemoteSteps
<1> QED BY <1>1, <1>2, <1>3, <1>4, <1>5

\* RetainBase keeps the types.
LEMMA TypeRetainBase ==
    ASSUME TypeOK, NEW d \in Device, RetainBase(d) PROVE TypeOK'
<1> USE DEF TypeOK, RetainBase, Goto
<1>1. RemoteTypeOK' /\ StateTypeOK' /\ OperationTypeOK' /\ SessionTypeOK'
  BY DEF RemoteTypeOK, StateTypeOK, OperationTypeOK, SessionTypeOK,
         remoteVars, stateVars, opVars, sessionVars
<1>2. CopyTypeOK'
  BY DEF CopyTypeOK, SessionTypeOK, copyVars, Retained, Base
<1>3. pc' \in [Device -> Steps] /\ operations' \in Nat /\ faults' \in Nat
  BY DEF boundVars, Steps, PublishSteps, RefreshSteps, UseRemoteSteps
<1> QED BY <1>1, <1>2, <1>3

\* InstallWorkingCopy keeps the types.
LEMMA TypeInstallWorkingCopy ==
    ASSUME TypeOK, NEW d \in Device, InstallWorkingCopy(d) PROVE TypeOK'
<1> USE DEF TypeOK, InstallWorkingCopy, Goto
<1>1. RemoteTypeOK' /\ StateTypeOK' /\ OperationTypeOK' /\ SessionTypeOK'
  BY DEF RemoteTypeOK, StateTypeOK, OperationTypeOK, SessionTypeOK,
         remoteVars, stateVars, opVars, sessionVars
<1>2. CopyTypeOK'
  BY DEF CopyTypeOK, SessionTypeOK, copyVars
<1>3. pc' \in [Device -> Steps] /\ operations' \in Nat /\ faults' \in Nat
  BY DEF boundVars, Steps, PublishSteps, RefreshSteps, UseRemoteSteps
<1> QED BY <1>1, <1>2, <1>3

\* RecordCompleted keeps the types.
LEMMA TypeRecordCompleted ==
    ASSUME TypeOK, NEW d \in Device, RecordCompleted(d) PROVE TypeOK'
<1> USE DEF TypeOK, RecordCompleted, Goto
<1>1. RemoteTypeOK' /\ SessionTypeOK'
  BY DEF RemoteTypeOK, SessionTypeOK,
         remoteVars, sessionVars
<1>2. CopyTypeOK'
  BY DEF CopyTypeOK, SessionTypeOK, copyVars
<1>3. StateTypeOK'
  BY DEF StateTypeOK, CopyTypeOK, SessionTypeOK, stateVars
<1>4. OperationTypeOK'
  BY StopType DEF OperationTypeOK, StateTypeOK, opVars, OpStates
<1>5. pc' \in [Device -> Steps] /\ operations' \in Nat /\ faults' \in Nat
  BY DEF boundVars, Steps, PublishSteps, RefreshSteps, UseRemoteSteps
<1> QED BY <1>1, <1>2, <1>3, <1>4, <1>5

\* PruneBases keeps the types.
LEMMA TypePruneBases ==
    ASSUME TypeOK, NEW d \in Device, PruneBases(d) PROVE TypeOK'
<1> USE DEF TypeOK, PruneBases, Goto
<1>1. RemoteTypeOK' /\ StateTypeOK' /\ OperationTypeOK' /\ SessionTypeOK'
  BY DEF RemoteTypeOK, StateTypeOK, OperationTypeOK, SessionTypeOK,
         remoteVars, stateVars, opVars, sessionVars
<1>2. CopyTypeOK'
  BY DEF CopyTypeOK, SessionTypeOK, copyVars, Pruned
<1>3. pc' \in [Device -> Steps] /\ operations' \in Nat /\ faults' \in Nat
  BY DEF boundVars, Steps, PublishSteps, RefreshSteps, UseRemoteSteps
<1> QED BY <1>1, <1>2, <1>3

\* SaveRevision keeps the types.
LEMMA TypeSaveRevision ==
    ASSUME TypeOK, NEW d \in Device, SaveRevision(d) PROVE TypeOK'
<1> USE DEF TypeOK, SaveRevision, Goto
<1>1. RemoteTypeOK' /\ CopyTypeOK' /\ OperationTypeOK' /\ SessionTypeOK'
  BY DEF RemoteTypeOK, CopyTypeOK, OperationTypeOK, SessionTypeOK,
         remoteVars, copyVars, opVars, sessionVars
<1>2. StateTypeOK'
  BY DEF StateTypeOK, CopyTypeOK, SessionTypeOK, stateVars
<1>3. pc' \in [Device -> Steps] /\ operations' \in Nat /\ faults' \in Nat
  BY DEF boundVars, Steps, PublishSteps, RefreshSteps, UseRemoteSteps
<1> QED BY <1>1, <1>2, <1>3

\* KeepLocal keeps the types.
LEMMA TypeKeepLocal ==
    ASSUME TypeOK, NEW d \in Device, KeepLocal(d) PROVE TypeOK'
<1> USE DEF TypeOK, KeepLocal, Goto
<1>1. RemoteTypeOK' /\ CopyTypeOK' /\ StateTypeOK'
  BY DEF RemoteTypeOK, CopyTypeOK, StateTypeOK,
         remoteVars, copyVars, stateVars
<1>2. OperationTypeOK'
  BY StopType DEF OperationTypeOK, StateTypeOK, opVars, OpStates
<1>3. SessionTypeOK'
  BY BoundsAssumption DEF SessionTypeOK
<1>4. pc' \in [Device -> Steps] /\ operations' \in Nat /\ faults' \in Nat
  BY DEF boundVars, Steps, PublishSteps, RefreshSteps, UseRemoteSteps
<1> QED BY <1>1, <1>2, <1>3, <1>4

\* UseRemotePull keeps the types.
LEMMA TypeUseRemotePull ==
    ASSUME TypeOK, NEW d \in Device, UseRemotePull(d) PROVE TypeOK'
<1> USE DEF TypeOK, UseRemotePull, Goto
<1>1. RemoteTypeOK' /\ StateTypeOK' /\ OperationTypeOK'
  BY DEF RemoteTypeOK, StateTypeOK, OperationTypeOK,
         remoteVars, stateVars, opVars
<1>2. CopyTypeOK'
  BY FieldTypes, RetainedType DEF CopyTypeOK, copyVars
<1>3. SessionTypeOK'
  BY NoManifestType DEF SessionTypeOK, RemoteTypeOK, CopyTypeOK, OperationTypeOK, sessionVars
<1>4. pc' \in [Device -> Steps] /\ operations' \in Nat /\ faults' \in Nat
  BY DEF boundVars, Steps, PublishSteps, RefreshSteps, UseRemoteSteps
<1> QED BY <1>1, <1>2, <1>3, <1>4

\* UseRemoteCancel keeps the types.
LEMMA TypeUseRemoteCancel ==
    ASSUME TypeOK, NEW d \in Device, UseRemoteCancel(d) PROVE TypeOK'
<1> USE DEF TypeOK, UseRemoteCancel, Goto
<1>1. RemoteTypeOK' /\ CopyTypeOK' /\ StateTypeOK' /\ SessionTypeOK'
  BY DEF RemoteTypeOK, CopyTypeOK, StateTypeOK, SessionTypeOK,
         remoteVars, copyVars, stateVars, sessionVars
<1>2. OperationTypeOK'
  BY StopType DEF OperationTypeOK, StateTypeOK, opVars, OpStates
<1>3. pc' \in [Device -> Steps] /\ operations' \in Nat /\ faults' \in Nat
  BY DEF boundVars, Steps, PublishSteps, RefreshSteps, UseRemoteSteps
<1> QED BY <1>1, <1>2, <1>3

\* UseRemoteCopy keeps the types.
LEMMA TypeUseRemoteCopy ==
    ASSUME TypeOK, NEW d \in Device, UseRemoteCopy(d) PROVE TypeOK'
<1> USE DEF TypeOK, UseRemoteCopy, Goto
<1>1. RemoteTypeOK' /\ StateTypeOK' /\ OperationTypeOK' /\ SessionTypeOK'
  BY DEF RemoteTypeOK, StateTypeOK, OperationTypeOK, SessionTypeOK,
         remoteVars, stateVars, opVars, sessionVars
<1>2. CopyTypeOK'
  BY DEF CopyTypeOK, SessionTypeOK, copyVars, Manifest
<1>3. pc' \in [Device -> Steps] /\ operations' \in Nat /\ faults' \in Nat
  BY DEF boundVars, Steps, PublishSteps, RefreshSteps, UseRemoteSteps
<1> QED BY <1>1, <1>2, <1>3

\* UseRemoteRecord keeps the types.
LEMMA TypeUseRemoteRecord ==
    ASSUME TypeOK, NEW d \in Device, UseRemoteRecord(d) PROVE TypeOK'
<1> USE DEF TypeOK, UseRemoteRecord, Goto
<1>1. RemoteTypeOK' /\ CopyTypeOK' /\ OperationTypeOK' /\ SessionTypeOK'
  BY DEF RemoteTypeOK, CopyTypeOK, OperationTypeOK, SessionTypeOK,
         remoteVars, copyVars, opVars, sessionVars
<1>2. StateTypeOK'
  BY DEF StateTypeOK, CopyTypeOK, SessionTypeOK, stateVars, Manifest
<1>3. pc' \in [Device -> Steps] /\ operations' \in Nat /\ faults' \in Nat
  BY DEF boundVars, Steps, PublishSteps, RefreshSteps, UseRemoteSteps
<1> QED BY <1>1, <1>2, <1>3

\* PlanRefresh keeps the types.
LEMMA TypePlanRefresh ==
    ASSUME TypeOK, NEW d \in Device, PlanRefresh(d) PROVE TypeOK'
<1> USE DEF TypeOK, PlanRefresh, Goto
<1>1. RemoteTypeOK' /\ CopyTypeOK' /\ StateTypeOK' /\ OperationTypeOK'
  BY DEF RemoteTypeOK, CopyTypeOK, StateTypeOK, OperationTypeOK,
         remoteVars, copyVars, stateVars, opVars
<1>2. SessionTypeOK'
  BY NoManifestType DEF SessionTypeOK, RemoteTypeOK, CopyTypeOK, OperationTypeOK, sessionVars
<1>3. pc' \in [Device -> Steps] /\ operations' \in Nat /\ faults' \in Nat
  BY DEF boundVars, Steps, PublishSteps, RefreshSteps, UseRemoteSteps
<1> QED BY <1>1, <1>2, <1>3

\* PullSnapshot keeps the types.
LEMMA TypePullSnapshot ==
    ASSUME TypeOK, NEW d \in Device, PullSnapshot(d) PROVE TypeOK'
<1> USE DEF TypeOK, PullSnapshot, Goto
<1>1. RemoteTypeOK' /\ StateTypeOK' /\ OperationTypeOK' /\ SessionTypeOK'
  BY DEF RemoteTypeOK, StateTypeOK, OperationTypeOK, SessionTypeOK,
         remoteVars, stateVars, opVars, sessionVars
<1>2. CopyTypeOK'
  BY FieldTypes DEF CopyTypeOK, copyVars
<1>3. pc' \in [Device -> Steps] /\ operations' \in Nat /\ faults' \in Nat
  BY DEF boundVars, Steps, PublishSteps, RefreshSteps, UseRemoteSteps
<1> QED BY <1>1, <1>2, <1>3

\* RetainPulledBase keeps the types.
LEMMA TypeRetainPulledBase ==
    ASSUME TypeOK, NEW d \in Device, RetainPulledBase(d) PROVE TypeOK'
<1> USE DEF TypeOK, RetainPulledBase, Goto
<1>1. RemoteTypeOK' /\ StateTypeOK' /\ OperationTypeOK' /\ SessionTypeOK'
  BY DEF RemoteTypeOK, StateTypeOK, OperationTypeOK, SessionTypeOK,
         remoteVars, stateVars, opVars, sessionVars
<1>2. CopyTypeOK'
  BY FieldTypes, RetainedType DEF CopyTypeOK
<1>3. pc' \in [Device -> Steps] /\ operations' \in Nat /\ faults' \in Nat
  BY DEF boundVars, Steps, PublishSteps, RefreshSteps, UseRemoteSteps
<1> QED BY <1>1, <1>2, <1>3

\* RecordPull keeps the types.
LEMMA TypeRecordPull ==
    ASSUME TypeOK, NEW d \in Device, RecordPull(d) PROVE TypeOK'
<1> USE DEF TypeOK, RecordPull, Goto
<1>1. RemoteTypeOK' /\ CopyTypeOK' /\ OperationTypeOK' /\ SessionTypeOK'
  BY DEF RemoteTypeOK, CopyTypeOK, OperationTypeOK, SessionTypeOK,
         remoteVars, copyVars, opVars, sessionVars
<1>2. StateTypeOK'
  BY DEF StateTypeOK, CopyTypeOK, SessionTypeOK, stateVars, Manifest
<1>3. pc' \in [Device -> Steps] /\ operations' \in Nat /\ faults' \in Nat
  BY DEF boundVars, Steps, PublishSteps, RefreshSteps, UseRemoteSteps
<1> QED BY <1>1, <1>2, <1>3

\* SavePulledRevision keeps the types.
LEMMA TypeSavePulledRevision ==
    ASSUME TypeOK, NEW d \in Device, SavePulledRevision(d) PROVE TypeOK'
<1> USE DEF TypeOK, SavePulledRevision, Goto
<1>1. RemoteTypeOK' /\ CopyTypeOK' /\ OperationTypeOK' /\ SessionTypeOK'
  BY DEF RemoteTypeOK, CopyTypeOK, OperationTypeOK, SessionTypeOK,
         remoteVars, copyVars, opVars, sessionVars
<1>2. StateTypeOK'
  BY DEF StateTypeOK, RemoteTypeOK
<1>3. pc' \in [Device -> Steps] /\ operations' \in Nat /\ faults' \in Nat
  BY DEF boundVars, Steps, PublishSteps, RefreshSteps, UseRemoteSteps
<1> QED BY <1>1, <1>2, <1>3

\* Interrupt keeps the types.
LEMMA TypeInterrupt ==
    ASSUME TypeOK, NEW d \in Device, Interrupt(d) PROVE TypeOK'
<1> USE DEF TypeOK, Interrupt, SessionEnds, Fail, Fault, Goto
<1>1. RemoteTypeOK' /\ CopyTypeOK' /\ SessionTypeOK'
  BY DEF RemoteTypeOK, CopyTypeOK, SessionTypeOK,
         remoteVars, copyVars, sessionVars
<1>2. StateTypeOK'
  BY DEF StateTypeOK, CopyTypeOK, SessionTypeOK, stateVars
<1>3. OperationTypeOK'
  BY StopType DEF OperationTypeOK, StateTypeOK, opVars, OpStates
<1>4. pc' \in [Device -> Steps] /\ operations' \in Nat /\ faults' \in Nat
  BY DEF boundVars, Steps, PublishSteps, RefreshSteps, UseRemoteSteps
<1> QED BY <1>1, <1>2, <1>3, <1>4

\* DelayCommit keeps the types.
LEMMA TypeDelayCommit ==
    ASSUME TypeOK, NEW d \in Device, DelayCommit(d) PROVE TypeOK'
<1> USE DEF TypeOK, DelayCommit, SessionEnds, Fail, Fault, Goto
<1>1. CopyTypeOK' /\ SessionTypeOK'
  BY DEF CopyTypeOK, SessionTypeOK,
         copyVars, sessionVars
<1>2. RemoteTypeOK'
  BY FieldTypes DEF RemoteTypeOK, SessionTypeOK, Request
<1>3. StateTypeOK'
  BY DEF StateTypeOK, CopyTypeOK, SessionTypeOK, stateVars
<1>4. OperationTypeOK'
  BY StopType DEF OperationTypeOK, StateTypeOK, opVars, OpStates
<1>5. pc' \in [Device -> Steps] /\ operations' \in Nat /\ faults' \in Nat
  BY DEF boundVars, Steps, PublishSteps, RefreshSteps, UseRemoteSteps
<1> QED BY <1>1, <1>2, <1>3, <1>4, <1>5

\* A publication commits a snapshot of the library on the manifest it read.
LEMMA TypePublish ==
    ASSUME TypeOK, NEW d \in Device, NEW library \in Library,
           NEW replaces \in BOOLEAN, Publish(d, library, replaces)
    PROVE  /\ candidate' \in [Device -> Library] /\ rebased' \in [Device -> BOOLEAN]
           /\ target' \in [Device -> Nat]
           /\ pc' \in [Device -> Steps]
           /\ UNCHANGED <<localState, opState, approval, conflict>>
<1>1. target' = [target EXCEPT ![d] = seen[d].generation + 1]
      /\ seen[d].generation + 1 \in Nat
  BY FieldTypes DEF Publish
<1> QED
  BY <1>1 DEF Publish, Goto, TypeOK, SessionTypeOK, Steps, PublishSteps

\* Recording a conflict writes a typed conflict.
LEMMA TypeStopWithConflict ==
    ASSUME TypeOK, NEW d \in Device, NEW songs \in SUBSET Songs,
           NEW wholeRepository \in BOOLEAN, StopWithConflict(d, songs, wholeRepository)
    PROVE  /\ approval' \in [Device -> Conflict] /\ conflict' \in [Device -> Conflict]
           /\ opState' \in [Device -> OpStates]
           /\ localState' \in [Device -> {"clean", "dirty", "conflicted"}]
           /\ pc' \in [Device -> Steps]
           /\ UNCHANGED <<candidate, rebased, target>>
<1>1. [generation |-> seen[d].generation, songs |-> songs, whole |-> wholeRepository]
        \in Conflict
  BY FieldTypes DEF Conflict
<1> QED
  BY <1>1, StopType
  DEF StopWithConflict, Fail, Goto, TypeOK, OperationTypeOK, StateTypeOK, OpStates, Steps

\* What building a candidate may change, and how.
CandidateTypes ==
    /\ candidate' \in [Device -> Library] /\ rebased' \in [Device -> BOOLEAN]
    /\ target' \in [Device -> Nat]
    /\ approval' \in [Device -> Conflict] /\ conflict' \in [Device -> Conflict]
    /\ opState' \in [Device -> OpStates]
    /\ localState' \in [Device -> {"clean", "dirty", "conflicted"}]
    /\ pc' \in [Device -> Steps]

\* Without a base the remote is replaced, or the publication stops.
LEMMA TypeReplaceRemoteOrStop ==
    ASSUME TypeOK, NEW d \in Device, ReplaceRemoteOrStop(d) PROVE CandidateTypes
<1>1. CASE Publish(d, working[d], TRUE)
  BY <1>1, TypePublish, FieldTypes
  DEF CandidateTypes, TypeOK, SessionTypeOK, OperationTypeOK, StateTypeOK
<1>2. CASE StopWithConflict(d, {}, TRUE)
  BY <1>2, TypeStopWithConflict
  DEF CandidateTypes, TypeOK, SessionTypeOK, OperationTypeOK, StateTypeOK
<1> QED BY <1>1, <1>2 DEF ReplaceRemoteOrStop

\* Every branch of BuildCandidate builds a typed candidate or conflict.
LEMMA TypeBuildCandidate ==
    ASSUME TypeOK, NEW d \in Device, BuildCandidate(d) PROVE TypeOK'
<1> USE DEF TypeOK, SessionTypeOK, OperationTypeOK, StateTypeOK
<1>1. CandidateTypes /\ rebases' \in [Device -> 0..MaxRebases]
  <2>1. CASE PublishUnmoved(d)
    <3>1. Publish(d, working[d], FALSE) /\ UNCHANGED rebases
      BY <2>1 DEF PublishUnmoved
    <3> QED BY <3>1, TypePublish, FieldTypes DEF CandidateTypes
  <2>2. CASE GiveUpContended(d)
    BY <2>2 DEF GiveUpContended, Fail, Goto, CandidateTypes, OpStates, Steps
  <2>3. CASE RebaseCandidate(d)
    <3>1. rebases' \in [Device -> 0..MaxRebases]
      <4>1. rebases' = [rebases EXCEPT ![d] = @ + 1] /\ rebases[d] < MaxRebases
        BY <2>3 DEF RebaseCandidate, MayRebase
      <4> QED BY <4>1, BoundsAssumption
    <3>2. CASE RebaseOntoCorruptSnapshot(d)
      BY <3>1, <3>2 DEF RebaseOntoCorruptSnapshot, Fail, Goto, CandidateTypes, OpStates, Steps
    <3>3. CASE RebaseWithoutBase(d)
      BY <3>1, <3>3, TypeReplaceRemoteOrStop DEF RebaseWithoutBase
    <3>4. CASE RebaseMerges(d)
      <4>1. Publish(d, RebaseOutcome(d).library, TRUE)
        BY <3>4 DEF RebaseMerges
      <4> QED BY <3>1, <4>1, TypePublish, RebaseOutcomeType DEF CandidateTypes
    <3>5. CASE RebaseConflicts(d)
      <4>1. StopWithConflict(d, RebaseOutcome(d).songs, RebaseOutcome(d).whole)
        BY <3>5 DEF RebaseConflicts
      <4>2. /\ RebaseOutcome(d).songs \in SUBSET Songs
            /\ RebaseOutcome(d).whole \in BOOLEAN
        BY RebaseOutcomeType
      <4>3. /\ approval' \in [Device -> Conflict] /\ conflict' \in [Device -> Conflict]
            /\ opState' \in [Device -> OpStates]
            /\ localState' \in [Device -> {"clean", "dirty", "conflicted"}]
            /\ pc' \in [Device -> Steps]
            /\ UNCHANGED <<candidate, rebased, target>>
        BY ZenonT(40), <4>1, <4>2, TypeStopWithConflict
      <4> QED BY <3>1, <4>3 DEF CandidateTypes
    <3>6. CASE RebaseUnmergeable(d)
      BY <3>1, <3>6, TypeReplaceRemoteOrStop DEF RebaseUnmergeable
    <3>7. \/ RebaseOntoCorruptSnapshot(d) \/ RebaseWithoutBase(d) \/ RebaseMerges(d)
          \/ RebaseConflicts(d) \/ RebaseUnmergeable(d)
      BY <2>3 DEF RebaseCandidate
    <3> QED BY <3>1, <3>2, <3>3, <3>4, <3>5, <3>6, <3>7
  <2> QED BY <2>1, <2>2, <2>3 DEF BuildCandidate
<1>2. UNCHANGED <<remoteVars, copyVars, committed, baseId, baseline, opId, expected,
                  whole, newer, newerWhole, seen, seenRev, probe, boundVars>>
  BY DEF BuildCandidate
<1> QED
  BY <1>1, <1>2 DEF CandidateTypes, RemoteTypeOK, CopyTypeOK, remoteVars, copyVars, boundVars

-----------------------------------------------------------------------------
\* A late request carries a manifest.
LEMMA TypeProcessDelayedCommit ==
    ASSUME TypeOK, ProcessDelayedCommit PROVE TypeOK'
<1> USE DEF TypeOK, RemoteTypeOK
<1>1. PICK request \in inFlight :
         /\ inFlight' = inFlight \ {request}
         /\ \/ ReplaceManifest(request.manifest)
            \/ UNCHANGED <<manifest, revision, history>>
  BY DEF ProcessDelayedCommit
<1>2. request.manifest \in Manifest
  BY DEF Request
<1>3. RemoteTypeOK'
  BY <1>1, <1>2 DEF ProcessDelayedCommit, ReplaceManifest
<1> QED
  BY <1>3 DEF ProcessDelayedCommit, CopyTypeOK, StateTypeOK, OperationTypeOK, SessionTypeOK,
              copyVars, stateVars, opVars, sessionVars, boundVars

\* A restored manifest is one of the history.
LEMMA TypeRestoreBackup ==
    ASSUME TypeOK, RestoreBackup PROVE TypeOK'
<1> USE DEF TypeOK, RemoteTypeOK
<1>1. PICK past \in 1..Len(history) : ReplaceManifest(history[past])
  BY DEF RestoreBackup
<1>2. history[past] \in Manifest
  OBVIOUS
<1>3. RemoteTypeOK'
  BY <1>1, <1>2 DEF RestoreBackup, ReplaceManifest
<1> QED
  BY <1>3 DEF RestoreBackup, Fault, CopyTypeOK, StateTypeOK, OperationTypeOK, SessionTypeOK,
              copyVars, stateVars, opVars, sessionVars

\* Nothing changes in a stuttering step.
LEMMA TypeStutter ==
    ASSUME TypeOK, UNCHANGED vars PROVE TypeOK'
BY DEF TypeOK, RemoteTypeOK, CopyTypeOK, StateTypeOK, OperationTypeOK, SessionTypeOK, vars,
       remoteVars, copyVars, stateVars, opVars, sessionVars, boundVars

\* The state of a Publish Changes system always has its type; in particular no
\* publication rebases more often than MaxRebases.
THEOREM TypeCorrect == Spec => []TypeOK
<1>1. TypeOK /\ [Next]_vars => TypeOK'
  <2> SUFFICES ASSUME TypeOK, [Next]_vars PROVE TypeOK'
    OBVIOUS
  <2>1. ASSUME NEW d \in Device, UserStep(d) PROVE TypeOK'
    BY <2>1, TypeEdit, TypeProjectEdit, TypeRepublish, TypeKeepLocal, TypeUseRemotePull
    DEF UserStep
  <2>2. ASSUME NEW d \in Device, PublishStep(d) PROVE TypeOK'
    BY <2>2, TypeStartPublish, TypeStatManifest, TypeReadManifest, TypeBuildCandidate,
       TypeDeleteLeftover, TypeUploadSnapshot, TypeCommitManifest, TypeVerifyManifest,
       TypeResolveAccepted, TypeRetainBase, TypeInstallWorkingCopy, TypeRecordCompleted,
       TypePruneBases, TypeSaveRevision
    DEF PublishStep
  <2>3. ASSUME NEW d \in Device, UseRemoteStep(d) PROVE TypeOK'
    BY <2>3, TypeUseRemoteCancel, TypeUseRemoteCopy, TypeUseRemoteRecord DEF UseRemoteStep
  <2>4. ASSUME NEW d \in Device, RefreshStep(d) PROVE TypeOK'
    BY <2>4, TypePlanRefresh, TypePullSnapshot, TypeRetainPulledBase, TypeRecordPull,
       TypeSavePulledRevision
    DEF RefreshStep
  <2>5. ASSUME NEW d \in Device, FaultStep(d) PROVE TypeOK'
    BY <2>5, TypeInterrupt, TypeDelayCommit DEF FaultStep
  <2> QED
    BY <2>1, <2>2, <2>3, <2>4, <2>5, TypeProcessDelayedCommit, TypeRestoreBackup, TypeStutter
    DEF Next, DeviceStep
<1> QED BY <1>1, TypeInit, PTL DEF Spec

-----------------------------------------------------------------------------
(* What the steps of one device leave alone                                *)

\* Everything device d keeps on disk and in its session is as it was.
Unaffected(d) ==
    UNCHANGED <<working[d], bases[d], edited[d], committed[d], baseId[d], localState[d],
                opState[d], opId[d], expected[d], approval[d], conflict[d], newer[d],
                pc[d], seen[d], seenRev[d], candidate[d], rebased[d], target[d]>>

\* A local mutation touches only this device's operation, which is new or one
\* that waits to be published.
LEMMA MintedOperation ==
    ASSUME TypeOK, NEW d \in Device, NEW wholeRepository, MintOperation(d, wholeRepository)
    PROVE  /\ opState'[d] # "conflicted" /\ localState'[d] # "clean"
           /\ \A e \in Device \ {d} :
                UNCHANGED <<opState[e], opId[e], expected[e], approval[e], conflict[e],
                            newer[e], localState[e]>>
<1> USE DEF TypeOK, StateTypeOK, OperationTypeOK, MintOperation
<1>1. CASE opState[d] \in Mergeable
  BY <1>1 DEF Mergeable
<1>2. CASE opState[d] \notin Mergeable
  BY <1>2
<1> QED BY <1>1, <1>2

\* An edit changes the rows and nothing the device publishes.
LEMMA EditCommits ==
    ASSUME TypeOK, NEW d \in Device, Edit(d)
    PROVE  /\ pc[d] = "idle" /\ pc'[d] \in EditSteps
           /\ UNCHANGED <<remoteVars, bases, stateVars, opVars, sessionVars, boundVars>>
BY DEF TypeOK, Edit, Goto, EditSteps

\* Its operation, or one published again, is minted under the commit lock.
LEMMA EditMints ==
    ASSUME TypeOK, NEW d \in Device, ProjectEdit(d) \/ Republish(d)
    PROVE  /\ pc[d] \in {"idle"} \cup EditSteps /\ pc'[d] = "idle"
           /\ \E wholeRepository : MintOperation(d, wholeRepository)
           /\ UNCHANGED <<remoteVars, copyVars, committed, baseId, baseline, sessionVars>>
<1>1. CASE ProjectEdit(d)
  <2>1. \E wholeRepository : MintOperation(d, wholeRepository)
    <3> WITNESS pc[d] = "projectWhole"
    <3> QED BY <1>1 DEF ProjectEdit
  <2> QED BY <1>1, <2>1 DEF TypeOK, ProjectEdit, Goto
<1>2. CASE Republish(d)
  BY <1>2 DEF Republish
<1> QED BY <1>1, <1>2

\* A step of one device leaves the others unaffected.
LEMMA OthersUnaffected ==
    ASSUME TypeOK, NEW d \in Device, UserStep(d) \/ DeviceStep(d) \/ FaultStep(d),
           NEW e \in Device \ {d}
    PROVE  Unaffected(e)
<1> USE DEF TypeOK, CopyTypeOK, StateTypeOK, OperationTypeOK, SessionTypeOK, copyVars,
            stateVars, opVars, sessionVars, Goto, Unaffected
<1>0. CASE Edit(d)
  BY <1>0, EditCommits DEF Edit
<1>1. CASE ProjectEdit(d) \/ Republish(d)
  <2>1. \A other \in Device \ {d} :
            UNCHANGED <<opState[other], opId[other], expected[other], approval[other],
                        conflict[other], newer[other], localState[other]>>
    BY <1>1, EditMints, MintedOperation
  <2>2. pc'[e] = pc[e] /\ UNCHANGED <<copyVars, committed, baseId, sessionVars>>
    BY <1>1, EditMints DEF ProjectEdit, Republish
  <2> QED BY <2>1, <2>2
<1>2. CASE KeepLocal(d) \/ UseRemotePull(d)
  BY <1>2 DEF KeepLocal, UseRemotePull
<1>3. CASE BuildCandidate(d)
  BY <1>3 DEF BuildCandidate, PublishUnmoved, GiveUpContended, RebaseCandidate,
     RebaseOntoCorruptSnapshot, RebaseWithoutBase, RebaseMerges, RebaseConflicts,
     RebaseUnmergeable, ReplaceRemoteOrStop, Publish, StopWithConflict, Fail
<1>4. CASE \/ StartPublish(d) \/ StatManifest(d) \/ ReadManifest(d) \/ DeleteLeftover(d)
           \/ UploadSnapshot(d)
  BY <1>4 DEF StartPublish, StatManifest, ReadManifest, DeleteLeftover, UploadSnapshot, Fail
<1>5. CASE CommitManifest(d) \/ VerifyManifest(d) \/ ResolveAccepted(d)
  BY <1>5 DEF CommitManifest, VerifyManifest, ResolveAccepted, AcceptIdentical,
     AcceptCarried, AcceptCorrupt, RefuseAccepted, Fail
<1>6. CASE \/ RetainBase(d) \/ InstallWorkingCopy(d) \/ RecordCompleted(d) \/ PruneBases(d)
           \/ SaveRevision(d)
  BY <1>6 DEF RetainBase, InstallWorkingCopy, RecordCompleted, PruneBases, SaveRevision
<1>7. CASE UseRemoteStep(d)
  BY <1>7 DEF UseRemoteStep, UseRemoteCancel, UseRemoteCopy, UseRemoteRecord
<1>8. CASE RefreshStep(d)
  BY <1>8 DEF RefreshStep, PlanRefresh, PullSnapshot, RetainPulledBase, RecordPull,
     SavePulledRevision
<1>9. CASE FaultStep(d)
  BY <1>9 DEF FaultStep, Interrupt, DelayCommit, SessionEnds, Fail
<1> QED
  BY <1>0, <1>1, <1>2, <1>3, <1>4, <1>5, <1>6, <1>7, <1>8, <1>9
  DEF UserStep, DeviceStep, PublishStep

\* Nor does the remote repository affect a device on its own.
LEMMA RemoteUnaffecting ==
    ASSUME ProcessDelayedCommit \/ RestoreBackup \/ UNCHANGED vars, NEW d \in Device
    PROVE  Unaffected(d)
BY DEF ProcessDelayedCommit, RestoreBackup, vars, copyVars, stateVars, opVars, sessionVars,
   Unaffected

\* A step is one of this device, or it leaves the device unaffected.
LEMMA OwnOrUnaffected ==
    ASSUME TypeOK, [Next]_vars, NEW d \in Device
    PROVE  \/ UserStep(d) \/ DeviceStep(d) \/ FaultStep(d)
           \/ Unaffected(d)
BY OthersUnaffected, RemoteUnaffecting DEF Next
=============================================================================
