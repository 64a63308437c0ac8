--------------------------- MODULE OutboxProofs ---------------------------
(***************************************************************************)
(* Proofs about MutationOutbox, for any number of edits, generations,      *)
(* faults and answers: who holds which lock and what the repository's      *)
(* state says meanwhile (LockInv), what the working copy holds (CopyInv),  *)
(* from both that no edit is lost silently (EditInv), and what the         *)
(* operations name (ScopeInv), from which a completed operation has        *)
(* published all of it.                                                    *)
(***************************************************************************)
EXTENDS MutationOutbox, TLAPS

-----------------------------------------------------------------------------
(* The inductive invariants.                                               *)

\* Who holds which lock and, with each of them held, what the repository and
\* the operation are known to be.
LockInv ==
    /\ step = "idle" \/ publisher = "idle"
    /\ phase # "up" => step = "idle" /\ publisher = "idle" /\ pull = "none"
    /\ pull # "none" => local = "clean"
    /\ pull \in {"prepare", "prepareRecord"} => step = "prepare"
    /\ publisher = "prepare" <=> pull \in {"publish", "publishRecord"}
    /\ publisher \in Publishing => local # "clean" /\ state[primary] = "running"
    /\ publisher \in {"replace", "settle"} => local = "conflicted"
    /\ step = "delete" => local # "clean"
    /\ step \in {"prepare", "digest", "expect", "record"} => state[current] = "none"
    /\ step \in {"open", "commit", "cancel", "project"} => state[current] = "prepared"

\* What the snapshots in hand contain, and that a digest once given is not
\* given again, so that a sealed candidate is known by its digest.
CopyInv ==
    /\ remote.edits \subseteq edits
    /\ pull # "none" => pulled.edits = remote.edits
    /\ publisher \in Publishing => candidate.edits = edits
    /\ publisher \in {"install", "record"} => remote.edits = edits
    /\ publisher \in {"replace", "settle"} => candidate.edits = remote.edits
    /\ publisher = "settle" => remote.edits = edits
    /\ digest <= stamp /\ remote.digest <= stamp /\ candidate.digest <= stamp
    /\ pulled.digest <= stamp
    /\ \A i \in Ops : source[i] <= stamp /\ sealed[i] <= stamp
    /\ \A i \in Ops : state[i] = "completed" /\ sealed[i] = digest => edits = remote.edits

\* An edit that is neither published nor dropped by a pull or by the user.
Unpublished(i) ==
    i \in made /\ i \notin remote.edits /\ i \notin overwritten /\ i \notin discarded

\* Such an edit is in the working copy, which has been written since the
\* operation took its digest, and in a clean repository its operation conflicts
\* or it still has its outbox row, which no startup pass drops.
EditInv ==
    /\ edits \subseteq made /\ outbox \subseteq made
    /\ \A i \in Ops : state[i] = "none" => i \notin made
    /\ step \in {"open", "commit", "cancel"} => current \notin made
    /\ \A i \in Ops : Unpublished(i) =>
          /\ i \in edits /\ source[i] < digest
          /\ local = "clean" => \/ state[i] = "conflicted"
                                \/ /\ i \in outbox
                                   /\ state[i] \in Terminal => i \notin scope[i]

\* A mutation whose operation is recorded and whose transaction has yet to
\* commit.
BeforeCommit == step \in {"open", "commit", "cancel"}

\* An operation past its projection names edits that were begun before, and
\* none that has yet to commit; once it is completed it names no unpublished
\* one.
ScopeInv ==
    /\ \A i \in Ops : state[i] = "prepared" => scope[i] \subseteq {i}
    /\ \A i \in Ops : state[i] \notin {"none", "prepared"} =>
          \A j \in scope[i] : /\ state[j] # "none"
                              /\ BeforeCommit => j # current
    /\ \A i \in Ops : state[i] = "completed" => \A j \in scope[i] : ~Unpublished(j)

-----------------------------------------------------------------------------
(* Types.                                                                  *)

\* The states the actions write are states of TypeOK.
LEMMA StateNames ==
    /\ {"none", "prepared", "running", "pending", "retryWait", "completed", "failed",
        "conflicted", "cancelled"} \subseteq OpStates
    /\ {"clean", "dirty", "publishing", "conflicted", "reauthRequired"} \subseteq LocalStates
BY DEF OpStates, Mergeable, Terminal, LocalStates

\* The fields of a snapshot.
LEMMA SnapshotFields ==
    ASSUME NEW s \in Snapshot
    PROVE  s.generation \in Nat /\ s.edits \subseteq Ops /\ s.digest \in Nat
BY DEF Snapshot

\* A record built from fields of the right types is a snapshot.
LEMMA SnapshotMade ==
    ASSUME NEW g \in Nat, NEW i \in Ops \cup {0}, NEW rows \in SUBSET Ops, NEW d \in Nat
    PROVE  [generation |-> g, operation |-> i, edits |-> rows, digest |-> d] \in Snapshot
BY DEF Snapshot

\* Writing the working copy keeps its types.
LEMMA WriteTypes ==
    ASSUME NEW rows \in SUBSET Ops, NEW queued \in SUBSET Ops, stamp \in Nat,
           WriteCopy(rows, queued)
    PROVE  edits' \subseteq Ops /\ outbox' \subseteq Ops /\ digest' \in Nat /\ stamp' \in Nat
BY DEF WriteCopy

\* The count of faults stays a number.
LEMMA FaultTypes == faults \in Nat /\ Fault => faults' \in Nat
BY DEF Fault

\* The candidate of an operation is a snapshot.
LEMMA FreezeTypes ==
    ASSUME TypeOK, NEW i \in Ops, Freeze(i)
    PROVE  primary' = i /\ candidate' \in Snapshot /\ stamp' \in Nat /\ publisher' = "commit"
<1>1. committed + 1 \in Nat /\ stamp + 1 \in Nat
  BY DEF TypeOK
<1> QED BY SMTT(30), <1>1, SnapshotMade DEF TypeOK, Freeze

\* The end of a pull leaves step and publisher in their ranges.
LEMMA PullTypes ==
    ASSUME TypeOK, LockInv, PullEnds
    PROVE  /\ step' \in {"digest", step} /\ (step' # "idle" => current \in Ops)
           /\ publisher' \in {"merge", publisher} /\ (publisher' # "idle" => primary \in Ops)
BY DEF TypeOK, LockInv, PullEnds

\* The initial state is typed.
LEMMA TypeInit == Init => TypeOK
<1> SUFFICES ASSUME Init PROVE TypeOK
  OBVIOUS
<1>1. FirstSnapshot \in Snapshot
  BY DEF FirstSnapshot, Snapshot
<1> QED BY <1>1, StateNames DEF Init, TypeOK

\* Every action keeps the types; LockInv tells which operation it writes.
LEMMA TypeStep == TypeOK /\ LockInv /\ [Next]_vars => TypeOK'
<1> SUFFICES ASSUME TypeOK, LockInv, [Next]_vars PROVE TypeOK'
  OBVIOUS
<1> USE StateNames
<1>1. CASE Begin
  BY <1>1 DEF TypeOK, Begin, copyVars, operationVars, repoVars, pullVars, publishVars,
      startupVars, historyVars
<1>2. CASE PrepareByPulling
  BY <1>2 DEF TypeOK, Pulling, PrepareByPulling, StartPull, copyVars, operationVars, repoVars,
      mutationVars, publishVars, startupVars, historyVars
<1>3. CASE Prepare
  BY <1>3 DEF TypeOK, Prepare, copyVars, operationVars, repoVars, pullVars, publishVars,
      startupVars, historyVars
<1>4. CASE TakeDigest
  BY <1>4 DEF TypeOK, TakeDigest, copyVars, repoVars, pullVars, publishVars,
      startupVars, historyVars
<1>5. CASE ReadExpected
  BY <1>5 DEF TypeOK, ReadExpected, copyVars, repoVars, pullVars, publishVars,
      startupVars, historyVars
<1>6. CASE RecordPrepared
  BY <1>6 DEF TypeOK, RecordPrepared, copyVars, repoVars, pullVars, publishVars,
      startupVars, historyVars
<1>7. CASE OpenCopy
  BY <1>7 DEF TypeOK, OpenCopy, operationVars, repoVars, pullVars, publishVars,
      startupVars, historyVars
<1>8. CASE CommitEdit
  <2>1. current \in Ops
    BY <1>8 DEF TypeOK, CommitEdit
  <2>2. edits' \subseteq Ops /\ outbox' \subseteq Ops /\ digest' \in Nat /\ stamp' \in Nat
    BY <1>8, <2>1, WriteTypes DEF TypeOK, CommitEdit
  <2> QED BY ZenonT(40), <1>8, <2>1, <2>2 DEF TypeOK, CommitEdit, operationVars, repoVars, pullVars,
      publishVars, startupVars
<1>9. CASE CommitNothing
  BY ZenonT(40), <1>9 DEF TypeOK, CommitNothing, operationVars, repoVars, pullVars,
     publishVars, startupVars, historyVars
<1>10. CASE CancelPrepared
  BY <1>10 DEF TypeOK, CancelPrepared, copyVars, repoVars, pullVars, publishVars,
      startupVars, historyVars
<1>11. CASE Project
  BY <1>11 DEF TypeOK, Project, Bind, copyVars, pullVars, publishVars, startupVars,
      historyVars
<1>12. CASE DeleteOutboxRow
  BY <1>12 DEF TypeOK, DeleteOutboxRow, WriteCopy, operationVars, repoVars, pullVars,
      publishVars, startupVars, historyVars
<1>13. CASE Refresh
  BY <1>13 DEF TypeOK, Pulling, Refresh, StartPull, copyVars, operationVars, repoVars,
      mutationVars, publishVars, startupVars, historyVars
<1>14. CASE ReplaceCopy
  <2>1. edits' \subseteq Ops /\ outbox' \subseteq Ops /\ digest' \in Nat
    BY <1>14, SnapshotFields DEF TypeOK, ReplaceCopy
  <2>2. overwritten' \subseteq Ops
    BY <1>14 DEF TypeOK, ReplaceCopy
  <2>3. pull' \in Replaced
    BY <1>14 DEF ReplaceCopy, RecordOf, Replaced
  <2>4. UNCHANGED <<remote, stamp, operationVars, repoVars, mutationVars, pulled,
        publishVars, startupVars, faults, answers, made,
        discarded>>
    BY <1>14 DEF ReplaceCopy
  <2>5. UNCHANGED <<remote, stamp, state, scope, expected, source, target,
        sealed, local, committed, step, current, scoped, pulled, publisher,
        primary, candidate, rebased,
        phase, visited, faults, answers, made,
        discarded>>
    BY <2>4 DEF operationVars, repoVars, mutationVars, publishVars, startupVars
  <2>6. opened' \in BOOLEAN
    BY <1>14 DEF ReplaceCopy
  <2>7. /\ edits' \subseteq Ops /\ outbox' \subseteq Ops /\ digest' \in Nat /\ opened' \in BOOLEAN
        /\ pull' \in {"none"} \cup Pulling \cup Replaced
        /\ overwritten' \subseteq Ops
    BY <2>1, <2>2, <2>3, <2>6
  <2> QED BY <2>5, <2>7 DEF TypeOK
<1>15. CASE RecordPull
  <2>1. /\ step' \in {"digest", step} /\ (step' # "idle" => current \in Ops)
        /\ publisher' \in {"merge", publisher} /\ (publisher' # "idle" => primary \in Ops)
    BY <1>15, PullTypes DEF RecordPull
  <2>2. committed' \in Nat /\ pull' = "none"
    BY <1>15, SnapshotFields DEF TypeOK, RecordPull, PullEnds
  <2> QED BY <1>15, <2>1, <2>2 DEF TypeOK, RecordPull, copyVars, operationVars,
      publishVars, startupVars, historyVars
<1>16. CASE OtherDeviceCommits
  <2>1. stamp' \in Nat /\ stamp + 1 \in Nat
    BY <1>16 DEF TypeOK, OtherDeviceCommits
  <2>2. remote.generation + 1 \in Nat
    BY SnapshotFields DEF TypeOK
  <2>3. remote' \in Snapshot
    BY <1>16, <2>1, <2>2 DEF TypeOK, OtherDeviceCommits, Snapshot
  <2> QED BY <1>16, <2>1, <2>2, <2>3 DEF TypeOK, OtherDeviceCommits, copyVars,
      operationVars, repoVars, mutationVars, pullVars, publishVars, startupVars,
      historyVars
<1>17. CASE \E i \in Ops : PublishStart(i)
  <2>1. PICK i \in Ops : PublishStart(i)
    BY <1>17
  <2>2. state' \in [Ops -> OpStates] /\ scope' \in [Ops -> SUBSET Ops]
    BY <2>1 DEF TypeOK, PublishStart
  <2>3. expected' \in [Ops -> Nat] /\ local' \in LocalStates
    BY <2>1 DEF TypeOK, PublishStart
  <2>4. primary' = i /\ candidate' \in Snapshot /\ stamp' \in Nat /\ publisher' = "commit"
    BY <2>1, FreezeTypes DEF PublishStart
  <2> QED BY <2>1, <2>2, <2>3, <2>4 DEF TypeOK, PublishStart, Publishing, copyVars,
      mutationVars, pullVars, startupVars, historyVars
<1>18. CASE PublishUnmoved
  <2>1. remote' = candidate /\ rebased' = FALSE /\ publisher' = "install"
    BY <1>18 DEF PublishUnmoved
  <2>2. primary' = primary /\ primary \in Ops
    BY <1>18 DEF TypeOK, PublishUnmoved, Publishing, publishVars
  <2> QED BY ZenonT(40), <1>18, <2>1, <2>2 DEF TypeOK, PublishUnmoved, Publishing,
      copyVars, operationVars,
      repoVars, mutationVars, pullVars, startupVars, historyVars
<1>19. CASE PublishRebased
  <2>1. /\ remote.generation + 1 \in Nat /\ remote.edits \cup candidate.edits \subseteq Ops
        /\ stamp + 1 \in Nat /\ primary \in Ops \cup {0}
    BY SnapshotFields DEF TypeOK
  <2>2. candidate' \in Snapshot /\ remote' \in Snapshot /\ stamp' \in Nat
    BY <1>19, <2>1, SnapshotMade DEF PublishRebased
  <2> QED BY <1>19, <2>1, <2>2 DEF TypeOK, PublishRebased, Publishing, copyVars, operationVars,
      repoVars, mutationVars, pullVars, startupVars, historyVars
<1>20. CASE PublishAccepted
  BY <1>20 DEF TypeOK, PublishAccepted, Publishing, copyVars, operationVars, repoVars,
     mutationVars, pullVars, startupVars, historyVars
<1>21. CASE InstallCandidate
  <2>1. edits' \subseteq Ops /\ digest' \in Nat /\ stamp' \in Nat
    BY <1>21, SnapshotFields DEF TypeOK, InstallCandidate
  <2> QED BY <1>21, <2>1 DEF TypeOK, InstallCandidate, Publishing, operationVars, repoVars,
      mutationVars, pullVars, startupVars, historyVars
<1>22. CASE RecordCompleted
  BY <1>22, SnapshotFields DEF TypeOK, RecordCompleted, copyVars, mutationVars,
      pullVars, startupVars, historyVars
<1>23. CASE PublishConflicts
  BY <1>23 DEF TypeOK, PublishConflicts, StopPublishing, copyVars, mutationVars,
      pullVars, startupVars, historyVars
<1>24. CASE \E i \in Ops : ProjectRow(i)
  BY <1>24 DEF TypeOK, ProjectRow, Bind, WriteCopy, mutationVars, pullVars, publishVars,
      historyVars
<1>25. CASE \E i \in Ops : SettleResidualRow(i)
  BY <1>25 DEF TypeOK, SettleResidualRow, WriteCopy, operationVars, repoVars,
      mutationVars, pullVars, publishVars, historyVars
<1>26. CASE \E i \in Ops : ResolvePrepared(i)
  BY <1>26 DEF TypeOK, ResolvePrepared, Resolved, copyVars, mutationVars, pullVars,
      publishVars, startupVars, historyVars
<1>27. CASE RecoverInFlight
  BY <1>27 DEF TypeOK, RecoverInFlight, copyVars, repoVars, mutationVars, pullVars,
      publishVars, historyVars
<1>28. CASE ForceDirty
  BY <1>28 DEF TypeOK, ForceDirty, copyVars, operationVars, mutationVars, pullVars,
      publishVars, historyVars
<1>29. CASE Repair
  BY <1>29 DEF TypeOK, Repair, Latest, copyVars, operationVars, repoVars, mutationVars,
      pullVars, publishVars, historyVars
<1>30. CASE MutationFails
  BY ZenonT(40), <1>30, FaultTypes DEF TypeOK, MutationFails, operationVars, repoVars,
     pullVars, publishVars, startupVars, historyVars
<1>31. CASE PullFails
  <2>1. /\ step' \in {"digest", step} /\ (step' # "idle" => current \in Ops)
        /\ publisher' \in {"merge", publisher} /\ (publisher' # "idle" => primary \in Ops)
    BY <1>31, PullTypes DEF PullFails
  <2>2. faults' \in Nat /\ pull' = "none"
    BY <1>31, FaultTypes DEF TypeOK, PullFails, PullEnds
  <2> QED BY <1>31, <2>1, <2>2 DEF TypeOK, PullFails, copyVars, operationVars, repoVars,
      publishVars, startupVars, historyVars
<1>32. CASE PublishFails
  BY <1>32, FaultTypes DEF TypeOK, PublishFails, StopPublishing, copyVars, mutationVars,
      pullVars, startupVars, historyVars
<1>33. CASE Crash
  BY <1>33, FaultTypes DEF TypeOK, Crash, operationVars, repoVars, historyVars
<1>34. CASE \E i \in Ops : ProjectRowFails(i)
  BY <1>34 DEF TypeOK, ProjectRowFails, copyVars, operationVars, repoVars, mutationVars,
      pullVars, publishVars, historyVars
<1>35. CASE \E i \in Ops : ResolveInterrupted(i)
  BY <1>35, FaultTypes DEF TypeOK, ResolveInterrupted, Resolved, copyVars, repoVars,
      mutationVars, pullVars, publishVars, historyVars
<1>36. CASE UNCHANGED vars
  BY <1>36 DEF TypeOK, vars, copyVars, operationVars, repoVars, mutationVars, pullVars,
      publishVars, startupVars, historyVars
<1>37. CASE \E i \in Ops : PublishByPulling(i)
  BY <1>37 DEF TypeOK, PublishByPulling, StartPull, Pulling, copyVars, operationVars, repoVars,
      mutationVars, startupVars, historyVars
<1>38. CASE \E i \in Ops : Republish(i)
  <2>1. PICK i \in Ops : Republish(i)
    BY <1>38
  <2>2. /\ state' \in [Ops -> OpStates] /\ scope' \in [Ops -> SUBSET Ops]
        /\ expected' \in [Ops -> Nat] /\ source' \in [Ops -> Nat]
    BY <2>1 DEF TypeOK, Republish
  <2> QED BY <2>1, <2>2 DEF TypeOK, Republish, copyVars, repoVars, mutationVars, pullVars,
      publishVars, startupVars, historyVars
<1>39. CASE KeepLocal
  <2>1. /\ primary \in Ops /\ committed \in Nat
        /\ state' = [state EXCEPT ![primary] = "running"]
    BY <1>39 DEF TypeOK, KeepLocal, Answer, Resolvable
  <2>2. primary' = primary /\ candidate' \in Snapshot /\ stamp' \in Nat /\ publisher' = "commit"
    BY <1>39, <2>1, FreezeTypes DEF KeepLocal
  <2>3. answers' \in Nat
    BY <1>39 DEF TypeOK, KeepLocal, Answer
  <2> QED BY <1>39, <2>1, <2>2, <2>3 DEF TypeOK, KeepLocal, Publishing, copyVars, repoVars,
      mutationVars, pullVars, startupVars, historyVars
<1>40. CASE DiscardLocal
  BY <1>40 DEF TypeOK, DiscardLocal, Answer, Resolvable, copyVars, repoVars, mutationVars,
      pullVars, startupVars, historyVars
<1>41. CASE ReplaceByRemote
  BY <1>41, SnapshotFields DEF TypeOK, ReplaceByRemote, operationVars, repoVars,
      mutationVars, pullVars, startupVars
<1>42. CASE RecordRemote
  BY <1>42, SnapshotFields DEF TypeOK, RecordRemote, copyVars, operationVars, mutationVars,
      pullVars, startupVars, historyVars
<1>43. CASE StopShort
  BY <1>43, FaultTypes DEF TypeOK, StopShort, copyVars, operationVars, repoVars,
      mutationVars, pullVars, startupVars, historyVars
<1> QED BY <1>1, <1>2, <1>3, <1>4, <1>5, <1>6, <1>7, <1>8, <1>9, <1>10, <1>11, <1>12,
    <1>13, <1>14, <1>15, <1>16, <1>17, <1>18, <1>19, <1>20, <1>21, <1>22, <1>23, <1>24,
    <1>25, <1>26, <1>27, <1>28, <1>29, <1>30, <1>31, <1>32, <1>33, <1>34, <1>35, <1>36,
    <1>37, <1>38, <1>39, <1>40, <1>41, <1>42, <1>43
  DEF Next, MutationStep, PullStep, PublishStep, UserStep, StartupStep, FaultStep

-----------------------------------------------------------------------------
(* Locks, operations and the state of the repository.                      *)

\* Initially nobody holds a lock.
LEMMA LockInit == Init => LockInv
BY DEF Init, LockInv, Publishing

\* No action admits a second holder of a lock.
LEMMA LockStep == TypeOK /\ LockInv /\ [Next]_vars => LockInv'
<1> SUFFICES ASSUME TypeOK, LockInv, [Next]_vars PROVE LockInv'
  OBVIOUS
<1>1. CASE Begin
  BY <1>1 DEF TypeOK, LockInv, Publishing, Begin, Fresh, copyVars, operationVars,
      repoVars, pullVars, publishVars, startupVars, historyVars, CommitLockFree
<1>2. CASE PrepareByPulling
  BY <1>2 DEF TypeOK, LockInv, Publishing, PrepareByPulling, StartPull,
      copyVars, operationVars, repoVars, mutationVars, publishVars, startupVars,
      historyVars, ControlFree
<1>3. CASE Prepare
  BY <1>3 DEF TypeOK, LockInv, Publishing, Prepare, copyVars, operationVars,
      repoVars, pullVars, publishVars, startupVars, historyVars, ControlFree
<1>4. CASE TakeDigest
  BY <1>4 DEF TypeOK, LockInv, Publishing, TakeDigest, copyVars, repoVars,
      pullVars, publishVars, startupVars, historyVars
<1>5. CASE ReadExpected
  BY <1>5 DEF TypeOK, LockInv, Publishing, ReadExpected, copyVars, repoVars,
      pullVars, publishVars, startupVars, historyVars, ControlFree
<1>6. CASE RecordPrepared
  BY <1>6 DEF TypeOK, LockInv, Publishing, RecordPrepared, copyVars, repoVars,
      pullVars, publishVars, startupVars, historyVars, ControlFree
<1>7. CASE OpenCopy
  BY <1>7 DEF TypeOK, LockInv, Publishing, OpenCopy, operationVars, repoVars,
      pullVars, publishVars, startupVars, historyVars
<1>8. CASE CommitEdit
  BY <1>8 DEF TypeOK, LockInv, Publishing, CommitEdit, operationVars, repoVars,
      pullVars, publishVars, startupVars
<1>9. CASE CommitNothing
  BY <1>9 DEF TypeOK, LockInv, Publishing, CommitNothing, operationVars,
      repoVars, pullVars, publishVars, startupVars, historyVars
<1>10. CASE CancelPrepared
  BY <1>10 DEF TypeOK, LockInv, Publishing, CancelPrepared, copyVars, repoVars,
      pullVars, publishVars, startupVars, historyVars, ControlFree
<1>11. CASE Project
  BY <1>11 DEF TypeOK, LockInv, Publishing, Project, Bind, copyVars, pullVars,
      publishVars, startupVars, historyVars, ControlFree
<1>12. CASE DeleteOutboxRow
  BY <1>12 DEF TypeOK, LockInv, Publishing, DeleteOutboxRow, operationVars,
      repoVars, pullVars, publishVars, startupVars, historyVars
<1>13. CASE Refresh
  BY <1>13 DEF TypeOK, LockInv, Publishing, Refresh, StartPull, copyVars,
      operationVars, repoVars, mutationVars, publishVars, startupVars, historyVars,
      ControlFree
<1>14. CASE ReplaceCopy
  BY <1>14 DEF TypeOK, LockInv, Publishing, ReplaceCopy, RecordOf, Pulling, operationVars,
      repoVars, mutationVars, publishVars, startupVars
<1>15. CASE RecordPull
  BY <1>15 DEF TypeOK, LockInv, Publishing, RecordPull, Replaced, PullEnds, copyVars,
      operationVars, publishVars, startupVars, historyVars
<1>16. CASE OtherDeviceCommits
  BY <1>16 DEF TypeOK, LockInv, Publishing, OtherDeviceCommits, copyVars,
      operationVars, repoVars, mutationVars, pullVars, publishVars, startupVars,
      historyVars
<1>17. CASE \E i \in Ops : PublishStart(i)
  BY <1>17 DEF TypeOK, LockInv, Publishing, PublishStart, Freeze, copyVars,
      mutationVars, pullVars, startupVars, historyVars, CommitLockFree, ControlFree
<1>18. CASE PublishUnmoved
  BY <1>18 DEF TypeOK, LockInv, Publishing, PublishUnmoved, copyVars,
      operationVars, repoVars, mutationVars, pullVars, startupVars, historyVars
<1>19. CASE PublishRebased
  BY <1>19 DEF TypeOK, LockInv, Publishing, PublishRebased, copyVars,
      operationVars, repoVars, mutationVars, pullVars, startupVars, historyVars
<1>20. CASE PublishAccepted
  BY <1>20 DEF TypeOK, LockInv, Publishing, PublishAccepted, copyVars,
      operationVars, repoVars, mutationVars, pullVars, startupVars, historyVars
<1>21. CASE InstallCandidate
  BY <1>21 DEF TypeOK, LockInv, Publishing, InstallCandidate, operationVars,
      repoVars, mutationVars, pullVars, startupVars, historyVars
<1>22. CASE RecordCompleted
  BY <1>22 DEF TypeOK, LockInv, Publishing, RecordCompleted, copyVars,
      mutationVars, pullVars, startupVars, historyVars, Outstanding
<1>23. CASE PublishConflicts
  BY <1>23 DEF TypeOK, LockInv, Publishing, PublishConflicts, StopPublishing,
      copyVars, mutationVars, pullVars, startupVars, historyVars
<1>24. CASE \E i \in Ops : ProjectRow(i)
  BY <1>24 DEF TypeOK, LockInv, Publishing, ProjectRow, Bind, mutationVars,
      pullVars, publishVars, historyVars
<1>25. CASE \E i \in Ops : SettleResidualRow(i)
  BY <1>25 DEF TypeOK, LockInv, Publishing, SettleResidualRow, operationVars,
      repoVars, mutationVars, pullVars, publishVars, historyVars
<1>26. CASE \E i \in Ops : ResolvePrepared(i)
  BY <1>26 DEF TypeOK, LockInv, Publishing, ResolvePrepared, Resolved,
      copyVars, mutationVars, pullVars, publishVars, startupVars, historyVars
<1>27. CASE RecoverInFlight
  BY <1>27 DEF TypeOK, LockInv, Publishing, Mergeable, RecoverInFlight, copyVars,
      repoVars, mutationVars, pullVars, publishVars, historyVars
<1>28. CASE ForceDirty
  BY <1>28 DEF TypeOK, LockInv, Publishing, ForceDirty, copyVars,
      operationVars, mutationVars, pullVars, publishVars, historyVars, Outstanding
<1>29. CASE Repair
  BY <1>29 DEF TypeOK, LockInv, Publishing, Repair, copyVars, operationVars,
      repoVars, mutationVars, pullVars, publishVars, historyVars, Outstanding
<1>30. CASE MutationFails
  BY <1>30 DEF TypeOK, LockInv, Publishing, MutationFails, operationVars,
      repoVars, pullVars, publishVars, startupVars, historyVars
<1>31. CASE PullFails
  BY <1>31 DEF TypeOK, LockInv, Publishing, PullFails, PullEnds, copyVars,
      operationVars, repoVars, publishVars, startupVars, historyVars
<1>32. CASE PublishFails
  BY <1>32 DEF TypeOK, LockInv, Publishing, PublishFails, StopPublishing,
      copyVars, mutationVars, pullVars, startupVars, historyVars
<1>33. CASE Crash
  BY <1>33 DEF TypeOK, LockInv, Publishing, Crash, operationVars, repoVars,
      historyVars
<1>34. CASE \E i \in Ops : ProjectRowFails(i)
  BY <1>34 DEF TypeOK, LockInv, Publishing, ProjectRowFails, copyVars,
      operationVars, repoVars, mutationVars, pullVars, publishVars, historyVars
<1>35. CASE \E i \in Ops : ResolveInterrupted(i)
  BY <1>35 DEF TypeOK, LockInv, Publishing, ResolveInterrupted, Resolved,
      copyVars, repoVars, mutationVars, pullVars, publishVars, historyVars
<1>36. CASE UNCHANGED vars
  BY <1>36 DEF TypeOK, LockInv, Publishing, vars, copyVars, operationVars,
      repoVars, mutationVars, pullVars, publishVars, startupVars, historyVars
<1>37. CASE \E i \in Ops : PublishByPulling(i)
  BY <1>37 DEF TypeOK, LockInv, Publishing, PublishByPulling, StartPull, CommitLockFree,
      ControlFree, copyVars, operationVars, repoVars, mutationVars, startupVars, historyVars
<1>38. CASE \E i \in Ops : Republish(i)
  BY <1>38 DEF TypeOK, LockInv, Publishing, Republish, Fresh, copyVars, repoVars,
      mutationVars, pullVars, publishVars, startupVars, historyVars
<1>39. CASE KeepLocal
  BY <1>39 DEF TypeOK, LockInv, Publishing, KeepLocal, Answer, Resolvable, Freeze,
      CommitLockFree, ControlFree, copyVars, repoVars, mutationVars, pullVars, startupVars,
      historyVars
<1>40. CASE DiscardLocal
  BY <1>40 DEF TypeOK, LockInv, Publishing, DiscardLocal, Answer, Resolvable,
      CommitLockFree, ControlFree, copyVars, repoVars, mutationVars, pullVars, startupVars,
      historyVars
<1>41. CASE ReplaceByRemote
  BY <1>41 DEF TypeOK, LockInv, Publishing, ReplaceByRemote, operationVars, repoVars,
      mutationVars, pullVars, startupVars
<1>42. CASE RecordRemote
  BY <1>42 DEF TypeOK, LockInv, Publishing, RecordRemote, copyVars, operationVars,
      mutationVars, pullVars, startupVars, historyVars
<1>43. CASE StopShort
  BY <1>43 DEF TypeOK, LockInv, Publishing, StopShort, copyVars, operationVars, repoVars,
      mutationVars, pullVars, startupVars, historyVars
<1> QED BY <1>1, <1>2, <1>3, <1>4, <1>5, <1>6, <1>7, <1>8, <1>9, <1>10, <1>11, <1>12,
    <1>13, <1>14, <1>15, <1>16, <1>17, <1>18, <1>19, <1>20, <1>21, <1>22, <1>23, <1>24,
    <1>25, <1>26, <1>27, <1>28, <1>29, <1>30, <1>31, <1>32, <1>33, <1>34, <1>35, <1>36,
    <1>37, <1>38, <1>39, <1>40, <1>41, <1>42, <1>43
  DEF Next, MutationStep, PullStep, PublishStep, UserStep, StartupStep, FaultStep

-----------------------------------------------------------------------------
(* Contents and digests.                                                   *)

\* Initially the working copy is what the remote committed.
LEMMA CopyInit == Init => CopyInv
<1> SUFFICES ASSUME Init PROVE CopyInv
  OBVIOUS
<1> QED BY DEF Init, CopyInv, FirstSnapshot, Publishing

\* A write of the working copy that keeps its edits.
LEMMA WrittenCopy ==
    ASSUME TypeOK, CopyInv, publisher = "idle",
           NEW rows \in SUBSET Ops, NEW queued, WriteCopy(rows, queued), edits \subseteq rows,
           pull' = pull, UNCHANGED <<remote, pulled, publisher, candidate, source, sealed>>
    PROVE  CopyInv'
<1>1. /\ digest \in Nat /\ stamp \in Nat /\ source \in [Ops -> Nat] /\ sealed \in [Ops -> Nat]
      /\ digest' = stamp + 1 /\ stamp' = stamp + 1 /\ edits' = rows
  BY DEF TypeOK, WriteCopy
<1>2. remote.digest \in Nat /\ candidate.digest \in Nat /\ pulled.digest \in Nat
  BY SnapshotFields DEF TypeOK
<1>3. digest' <= stamp' /\ remote'.digest <= stamp' /\ candidate'.digest <= stamp'
      /\ pulled'.digest <= stamp'
  BY <1>1, <1>2 DEF CopyInv
<1>4. \A i \in Ops : source'[i] <= stamp' /\ sealed'[i] <= stamp' /\ sealed'[i] # digest'
  BY <1>1 DEF CopyInv
<1> QED BY <1>1, <1>3, <1>4 DEF CopyInv, Publishing

\* The candidate of an operation holds the edits of the working copy.
LEMMA FrozenCopy ==
    ASSUME TypeOK, CopyInv, NEW i \in Ops, Freeze(i), pull = "none",
           UNCHANGED <<edits, digest, remote, source, sealed, pull, pulled>>,
           \A j \in Ops : state'[j] = "completed" => state[j] = "completed"
    PROVE  CopyInv'
<1>1. publisher' = "commit" /\ candidate'.edits = edits
  BY DEF Freeze
<1>2. PICK written \in {digest, stamp + 1} :
          candidate'.digest = written /\ stamp' = (IF written = digest THEN stamp ELSE written)
  BY DEF Freeze
<1>3. remote.digest \in Nat /\ pulled.digest \in Nat
  BY SnapshotFields DEF TypeOK
<1>4. stamp \in Nat /\ digest \in Nat /\ digest <= stamp
  BY DEF TypeOK, CopyInv
<1>5. stamp <= stamp' /\ stamp' \in Nat /\ candidate'.digest <= stamp'
  BY <1>2, <1>4
<1>6. digest' <= stamp' /\ remote'.digest <= stamp' /\ pulled'.digest <= stamp'
  BY <1>3, <1>4, <1>5 DEF CopyInv
<1>7. \A j \in Ops : source'[j] <= stamp' /\ sealed'[j] <= stamp'
  BY <1>4, <1>5 DEF TypeOK, CopyInv
<1> QED BY <1>1, <1>5, <1>6, <1>7 DEF CopyInv, Publishing

\* Every action keeps what the digests and rows say of the edits.
LEMMA CopyStep == TypeOK /\ LockInv /\ CopyInv /\ [Next]_vars => CopyInv'
<1> SUFFICES ASSUME TypeOK, LockInv, CopyInv, [Next]_vars PROVE CopyInv'
  OBVIOUS
<1>1. CASE Begin
  BY <1>1 DEF TypeOK, LockInv, CopyInv, Publishing, Begin, copyVars, operationVars, repoVars,
      pullVars, publishVars, startupVars, historyVars, CommitLockFree
<1>2. CASE PrepareByPulling
  BY <1>2 DEF TypeOK, LockInv, CopyInv, Publishing, PrepareByPulling, StartPull, copyVars,
      operationVars, repoVars, mutationVars, publishVars, startupVars, historyVars,
      ControlFree
<1>3. CASE Prepare
  BY <1>3 DEF TypeOK, LockInv, CopyInv, Publishing, Prepare, copyVars, operationVars, repoVars,
      pullVars, publishVars, startupVars, historyVars, ControlFree
<1>4. CASE TakeDigest
  BY <1>4 DEF TypeOK, LockInv, CopyInv, Publishing, TakeDigest, copyVars, repoVars, pullVars,
      publishVars, startupVars, historyVars
<1>5. CASE ReadExpected
  BY <1>5 DEF TypeOK, LockInv, CopyInv, Publishing, ReadExpected, copyVars, repoVars, pullVars,
      publishVars, startupVars, historyVars, ControlFree
<1>6. CASE RecordPrepared
  BY <1>6 DEF TypeOK, LockInv, CopyInv, Publishing, RecordPrepared, copyVars, repoVars,
     pullVars, publishVars, startupVars, historyVars, ControlFree
<1>7. CASE OpenCopy
  BY <1>7 DEF TypeOK, LockInv, CopyInv, Publishing, OpenCopy, operationVars, repoVars,
     pullVars, publishVars, startupVars, historyVars
<1>8. CASE CommitEdit
  <2>1. current \in Ops /\ publisher = "idle" /\ edits \cup {current} \in SUBSET Ops
    BY <1>8 DEF TypeOK, LockInv, CommitEdit
  <2>2. UNCHANGED <<remote, pulled, pull, publisher, candidate, source, sealed>>
    BY <1>8 DEF CommitEdit, operationVars, pullVars, publishVars
  <2>3. CASE WriteCopy(edits \cup {current}, outbox \cup {current})
    BY <2>1, <2>2, <2>3, WrittenCopy
  <2>4. CASE UNCHANGED <<edits, digest, stamp>>
    BY <1>8, <2>2, <2>4 DEF CopyInv, CommitEdit, operationVars
  <2> QED BY <1>8, <2>3, <2>4 DEF CommitEdit
<1>9. CASE CommitNothing
  BY <1>9 DEF TypeOK, LockInv, CopyInv, Publishing, CommitNothing, operationVars, repoVars,
      pullVars, publishVars, startupVars, historyVars
<1>10. CASE CancelPrepared
  BY <1>10 DEF TypeOK, LockInv, CopyInv, Publishing, CancelPrepared, copyVars, repoVars,
     pullVars, publishVars, startupVars, historyVars, ControlFree
<1>11. CASE Project
  BY <1>11 DEF TypeOK, LockInv, CopyInv, Publishing, Project, Bind, copyVars, pullVars,
     publishVars, startupVars, historyVars, ControlFree
<1>12. CASE DeleteOutboxRow
  <2>1. publisher = "idle" /\ edits \in SUBSET Ops
    BY <1>12 DEF TypeOK, LockInv, DeleteOutboxRow
  <2>2. UNCHANGED <<remote, pulled, pull, publisher, candidate, source, sealed, state>>
    BY <1>12 DEF DeleteOutboxRow, operationVars, pullVars, publishVars
  <2>3. CASE WriteCopy(edits, outbox \ {current})
    BY <2>1, <2>2, <2>3, WrittenCopy
  <2>4. CASE UNCHANGED <<edits, digest, stamp>>
    BY <2>2, <2>4 DEF CopyInv
  <2> QED BY <1>12, <2>3, <2>4 DEF DeleteOutboxRow
<1>13. CASE Refresh
  BY <1>13 DEF TypeOK, LockInv, CopyInv, Publishing, Refresh, StartPull, copyVars,
     operationVars, repoVars, mutationVars, publishVars, startupVars, historyVars,
     ControlFree
<1>14. CASE ReplaceCopy
  BY <1>14 DEF TypeOK, LockInv, CopyInv, Publishing, ReplaceCopy, RecordOf, Pulling,
     operationVars, repoVars, mutationVars, publishVars, startupVars
<1>15. CASE RecordPull
  BY <1>15 DEF TypeOK, LockInv, CopyInv, Publishing, RecordPull, Replaced, PullEnds,
     copyVars, operationVars, publishVars, startupVars, historyVars
<1>16. CASE OtherDeviceCommits
  <2>1. remote'.edits = remote.edits /\ remote'.digest = stamp + 1 /\ stamp' = stamp + 1
    BY <1>16 DEF TypeOK, OtherDeviceCommits, Snapshot
  <2>2. UNCHANGED <<edits, digest, state, source, sealed, pull, pulled, publisher, candidate>>
    BY <1>16 DEF OtherDeviceCommits, copyVars, operationVars, pullVars, publishVars
  <2>3. candidate.digest \in Nat /\ pulled.digest \in Nat
    BY SnapshotFields DEF TypeOK
  <2>4. /\ digest' <= stamp' /\ remote'.digest <= stamp' /\ candidate'.digest <= stamp'
        /\ pulled'.digest <= stamp' /\ \A i \in Ops : source'[i] <= stamp' /\ sealed'[i] <= stamp'
    BY <2>1, <2>2, <2>3 DEF TypeOK, CopyInv
  <2> QED BY <2>1, <2>2, <2>4 DEF CopyInv
<1>17. CASE \E i \in Ops : PublishStart(i)
  <2>1. PICK i \in Ops : PublishStart(i)
    BY <1>17
  <2>2. /\ Freeze(i) /\ committed \in Nat /\ pull = "none"
        /\ UNCHANGED <<edits, digest, remote, source, sealed, pull, pulled>>
    BY <2>1 DEF TypeOK, PublishStart, ControlFree, copyVars, pullVars
  <2>3. \A j \in Ops : state'[j] = "completed" => state[j] = "completed"
    BY <2>1 DEF PublishStart
  <2> QED BY <2>2, <2>3, FrozenCopy
<1>18. CASE PublishUnmoved
  BY <1>18 DEF TypeOK, LockInv, CopyInv, Publishing, PublishUnmoved, copyVars, operationVars,
      repoVars, mutationVars, pullVars, startupVars, historyVars
<1>19. CASE PublishRebased
  <2>1. /\ candidate'.edits = remote.edits \cup candidate.edits
        /\ candidate'.digest = stamp + 1 /\ stamp' = stamp + 1 /\ remote' = candidate'
        /\ publisher' = "install" /\ publisher = "commit"
    BY <1>19 DEF PublishRebased
  <2>2. UNCHANGED <<edits, digest, state, source, sealed, pull, pulled>> /\ pull = "none"
    BY <1>19 DEF LockInv, Publishing, PublishRebased, copyVars, operationVars, pullVars
  <2>3. pulled.digest \in Nat
    BY SnapshotFields DEF TypeOK
  <2>4. candidate'.edits = edits /\ remote'.edits = edits
    BY <2>1 DEF CopyInv, Publishing
  <2>5. /\ digest' <= stamp' /\ remote'.digest <= stamp' /\ candidate'.digest <= stamp'
        /\ pulled'.digest <= stamp' /\ \A i \in Ops : source'[i] <= stamp' /\ sealed'[i] <= stamp'
    BY <2>1, <2>2, <2>3 DEF TypeOK, CopyInv
  <2> QED BY <2>1, <2>2, <2>4, <2>5 DEF CopyInv
<1>20. CASE PublishAccepted
  BY <1>20 DEF TypeOK, LockInv, CopyInv, Publishing, PublishAccepted, copyVars, operationVars,
      repoVars, mutationVars, pullVars, startupVars, historyVars
<1>21. CASE InstallCandidate
  <2>1. UNCHANGED <<remote, state, source, sealed, pull, pulled, candidate>> /\ pull = "none"
    BY <1>21 DEF LockInv, Publishing, InstallCandidate, operationVars, pullVars
  <2>2. publisher = "install" /\ publisher' = "record" /\ edits' = edits
    BY <1>21 DEF CopyInv, Publishing, InstallCandidate
  <2>3. candidate.edits = edits /\ remote.edits = edits
    BY <2>2 DEF CopyInv, Publishing
  <2>4. /\ remote.digest \in Nat /\ pulled.digest \in Nat /\ candidate.digest \in Nat
        /\ stamp \in Nat /\ digest \in Nat
    BY SnapshotFields DEF TypeOK
  <2>5. stamp <= stamp' /\ stamp' \in Nat /\ digest' <= stamp'
    BY <1>21, <2>4 DEF CopyInv, InstallCandidate
  <2>6. remote'.digest <= stamp' /\ pulled'.digest <= stamp' /\ candidate'.digest <= stamp'
    BY <2>1, <2>4, <2>5 DEF CopyInv
  <2>7. \A j \in Ops : source'[j] <= stamp' /\ sealed'[j] <= stamp'
    BY <2>1, <2>4, <2>5 DEF TypeOK, CopyInv
  <2> QED BY <2>1, <2>2, <2>3, <2>5, <2>6, <2>7 DEF CopyInv
<1>22. CASE RecordCompleted
  BY <1>22 DEF TypeOK, LockInv, CopyInv, Publishing, RecordCompleted, copyVars, mutationVars,
      pullVars, startupVars, historyVars, Outstanding
<1>23. CASE PublishConflicts
  BY <1>23 DEF TypeOK, LockInv, CopyInv, Publishing, PublishConflicts, StopPublishing,
     copyVars, mutationVars, pullVars, startupVars, historyVars
<1>24. CASE \E i \in Ops : ProjectRow(i)
  <2>1. PICK i \in Ops : ProjectRow(i)
    BY <1>24
  <2>2. publisher = "idle" /\ edits \in SUBSET Ops
    BY <2>1 DEF TypeOK, LockInv, ProjectRow
  <2>3. UNCHANGED <<remote, pulled, pull, publisher, candidate, source, sealed>>
    BY <2>1 DEF ProjectRow, pullVars, publishVars
  <2>4. CASE WriteCopy(edits, outbox \ {i})
    BY <2>2, <2>3, <2>4, WrittenCopy
  <2>5. CASE UNCHANGED <<edits, digest, stamp>>
    <3>1. \A j \in Ops : state'[j] = "completed" => state[j] = "completed"
      BY <2>1 DEF TypeOK, ProjectRow, Bind
    <3> QED BY <2>3, <2>5, <3>1 DEF CopyInv
  <2> QED BY <2>1, <2>4, <2>5 DEF ProjectRow
<1>25. CASE \E i \in Ops : SettleResidualRow(i)
  <2>1. PICK i \in Ops : SettleResidualRow(i)
    BY <1>25
  <2>2. publisher = "idle" /\ edits \in SUBSET Ops
    BY <2>1 DEF TypeOK, LockInv, SettleResidualRow
  <2>3. UNCHANGED <<remote, pulled, pull, publisher, candidate, source, sealed, state>>
    BY <2>1 DEF SettleResidualRow, operationVars, pullVars, publishVars
  <2>4. CASE WriteCopy(edits, outbox \ {i})
    BY <2>2, <2>3, <2>4, WrittenCopy
  <2>5. CASE UNCHANGED <<edits, digest, stamp>>
    BY <2>3, <2>5 DEF CopyInv
  <2> QED BY <2>1, <2>4, <2>5 DEF SettleResidualRow
<1>26. CASE \E i \in Ops : ResolvePrepared(i)
  BY <1>26 DEF TypeOK, LockInv, CopyInv, Publishing, ResolvePrepared, Resolved, copyVars,
      mutationVars, pullVars, publishVars, startupVars, historyVars
<1>27. CASE RecoverInFlight
  BY <1>27 DEF TypeOK, LockInv, CopyInv, Publishing, RecoverInFlight, copyVars, repoVars,
      mutationVars, pullVars, publishVars, historyVars
<1>28. CASE ForceDirty
  BY <1>28 DEF TypeOK, LockInv, CopyInv, Publishing, ForceDirty, copyVars, operationVars,
      mutationVars, pullVars, publishVars, historyVars, Outstanding
<1>29. CASE Repair
  BY <1>29 DEF TypeOK, LockInv, CopyInv, Publishing, Repair, copyVars, operationVars, repoVars,
      mutationVars, pullVars, publishVars, historyVars, Outstanding
<1>30. CASE MutationFails
  BY <1>30 DEF TypeOK, LockInv, CopyInv, Publishing, MutationFails, operationVars, repoVars,
      pullVars, publishVars, startupVars, historyVars
<1>31. CASE PullFails
  BY <1>31 DEF TypeOK, LockInv, CopyInv, Publishing, PullFails, PullEnds, copyVars,
     operationVars, repoVars, publishVars, startupVars, historyVars
<1>32. CASE PublishFails
  BY <1>32 DEF TypeOK, LockInv, CopyInv, Publishing, PublishFails, StopPublishing, copyVars,
      mutationVars, pullVars, startupVars, historyVars
<1>33. CASE Crash
  BY <1>33 DEF TypeOK, LockInv, CopyInv, Publishing, Crash, operationVars, repoVars,
     historyVars
<1>34. CASE \E i \in Ops : ProjectRowFails(i)
  BY <1>34 DEF TypeOK, LockInv, CopyInv, Publishing, ProjectRowFails, copyVars, operationVars,
      repoVars, mutationVars, pullVars, publishVars, historyVars
<1>35. CASE \E i \in Ops : ResolveInterrupted(i)
  BY <1>35 DEF TypeOK, LockInv, CopyInv, Publishing, ResolveInterrupted, Resolved, copyVars,
      repoVars, mutationVars, pullVars, publishVars, historyVars
<1>36. CASE UNCHANGED vars
  BY <1>36 DEF TypeOK, LockInv, CopyInv, vars, copyVars, operationVars, repoVars,
      mutationVars, pullVars, publishVars, startupVars, historyVars
<1>37. CASE \E i \in Ops : PublishByPulling(i)
  BY <1>37 DEF TypeOK, CopyInv, Publishing, PublishByPulling, StartPull, copyVars,
      operationVars, repoVars, mutationVars, startupVars, historyVars
<1>38. CASE \E i \in Ops : Republish(i)
  BY <1>38 DEF TypeOK, CopyInv, Publishing, Republish, copyVars, repoVars, mutationVars,
      pullVars, publishVars, startupVars, historyVars
<1>39. CASE KeepLocal
  <2>1. /\ primary \in Ops /\ committed \in Nat
        /\ state' = [state EXCEPT ![primary] = "running"] /\ Freeze(primary)
        /\ pull = "none" /\ UNCHANGED <<edits, digest, remote, source, sealed, pull, pulled>>
    BY <1>39 DEF TypeOK, KeepLocal, Answer, Resolvable, ControlFree, copyVars, pullVars
  <2>2. \A j \in Ops : state'[j] = "completed" => state[j] = "completed"
    BY <2>1 DEF TypeOK
  <2> QED BY <2>1, <2>2, FrozenCopy
<1>40. CASE DiscardLocal
  <2>1. /\ candidate' = remote /\ publisher' = "replace" /\ pull = "none"
        /\ UNCHANGED <<edits, digest, stamp, remote, source, sealed, pull, pulled>>
    BY <1>40 DEF DiscardLocal, Answer, Resolvable, ControlFree, copyVars, pullVars
  <2>2. \A j \in Ops : state'[j] = "completed" => state[j] = "completed"
    BY <1>40 DEF TypeOK, DiscardLocal, Answer, Resolvable
  <2> QED BY <2>1, <2>2 DEF CopyInv, Publishing
<1>41. CASE ReplaceByRemote
  <2>1. /\ edits' = candidate.edits /\ digest' = candidate.digest /\ publisher = "replace"
        /\ publisher' = "settle"
        /\ UNCHANGED <<stamp, remote, state, source, sealed, pull, pulled, candidate>>
    BY <1>41 DEF ReplaceByRemote, operationVars, pullVars
  <2>2. edits' = remote.edits /\ remote' = remote
    BY <2>1 DEF CopyInv
  <2> QED BY <2>1, <2>2 DEF CopyInv, Publishing
<1>42. CASE RecordRemote
  BY <1>42 DEF TypeOK, CopyInv, Publishing, RecordRemote, copyVars, operationVars,
      mutationVars, pullVars, startupVars, historyVars
<1>43. CASE StopShort
  BY <1>43 DEF TypeOK, CopyInv, Publishing, StopShort, copyVars, operationVars, repoVars,
      mutationVars, pullVars, startupVars, historyVars
<1> QED BY <1>1, <1>2, <1>3, <1>4, <1>5, <1>6, <1>7, <1>8, <1>9, <1>10, <1>11, <1>12,
    <1>13, <1>14, <1>15, <1>16, <1>17, <1>18, <1>19, <1>20, <1>21, <1>22, <1>23, <1>24,
    <1>25, <1>26, <1>27, <1>28, <1>29, <1>30, <1>31, <1>32, <1>33, <1>34, <1>35, <1>36,
    <1>37, <1>38, <1>39, <1>40, <1>41, <1>42, <1>43
  DEF Next, MutationStep, PullStep, PublishStep, UserStep, StartupStep, FaultStep

-----------------------------------------------------------------------------
(* Operations that have ended.                                             *)

\* An operation that has ended changes only when the user settles its conflict.
LEMMA EndedStep ==
    TypeOK /\ LockInv /\ [Next]_vars
        => \A i \in Ops : state[i] \in Terminal /\ state'[i] # state[i] =>
              Resolvable /\ i = primary /\ state'[i] \in {"running", "cancelled"}
<1> SUFFICES ASSUME TypeOK, LockInv, [Next]_vars, NEW i \in Ops,
                    state[i] \in Terminal, state'[i] # state[i]
             PROVE  Resolvable /\ i = primary /\ state'[i] \in {"running", "cancelled"}
  OBVIOUS
<1>1. CASE Begin
  BY <1>1 DEF TypeOK, LockInv, Mergeable, Terminal, Begin, operationVars
<1>2. CASE PrepareByPulling
  BY <1>2 DEF TypeOK, LockInv, Mergeable, Terminal, PrepareByPulling, StartPull,
      operationVars
<1>3. CASE Prepare
  BY <1>3 DEF TypeOK, LockInv, Mergeable, Terminal, Prepare, operationVars
<1>4. CASE TakeDigest
  BY <1>4 DEF TypeOK, LockInv, Mergeable, Terminal, TakeDigest
<1>5. CASE ReadExpected
  BY <1>5 DEF TypeOK, LockInv, Mergeable, Terminal, ReadExpected
<1>6. CASE RecordPrepared
  BY <1>6 DEF TypeOK, LockInv, Mergeable, Terminal, RecordPrepared
<1>7. CASE OpenCopy
  BY <1>7 DEF TypeOK, LockInv, Mergeable, Terminal, OpenCopy, operationVars
<1>8. CASE CommitEdit
  BY <1>8 DEF TypeOK, LockInv, Mergeable, Terminal, CommitEdit, operationVars
<1>9. CASE CommitNothing
  BY <1>9 DEF TypeOK, LockInv, Mergeable, Terminal, CommitNothing, operationVars
<1>10. CASE CancelPrepared
  BY <1>10 DEF TypeOK, LockInv, Mergeable, Terminal, CancelPrepared
<1>11. CASE Project
  BY <1>11 DEF TypeOK, LockInv, Mergeable, Terminal, Project, Bind
<1>12. CASE DeleteOutboxRow
  BY <1>12 DEF TypeOK, LockInv, Mergeable, Terminal, DeleteOutboxRow, operationVars
<1>13. CASE Refresh
  BY <1>13 DEF TypeOK, LockInv, Mergeable, Terminal, Refresh, StartPull, operationVars
<1>14. CASE ReplaceCopy
  BY <1>14 DEF TypeOK, LockInv, Mergeable, Terminal, ReplaceCopy, operationVars
<1>15. CASE RecordPull
  BY <1>15 DEF TypeOK, LockInv, Mergeable, Terminal, RecordPull, operationVars
<1>16. CASE OtherDeviceCommits
  BY <1>16 DEF TypeOK, LockInv, Mergeable, Terminal, OtherDeviceCommits, operationVars
<1>17. CASE \E j \in Ops : PublishStart(j)
  BY <1>17 DEF TypeOK, LockInv, Mergeable, Terminal, PublishStart
<1>18. CASE PublishUnmoved
  BY <1>18 DEF TypeOK, LockInv, Mergeable, Terminal, PublishUnmoved, operationVars
<1>19. CASE PublishRebased
  BY <1>19 DEF TypeOK, LockInv, Mergeable, Terminal, PublishRebased, operationVars
<1>20. CASE PublishAccepted
  BY <1>20 DEF TypeOK, LockInv, Mergeable, Terminal, PublishAccepted, operationVars
<1>21. CASE InstallCandidate
  BY <1>21 DEF TypeOK, LockInv, Mergeable, Terminal, InstallCandidate, operationVars
<1>22. CASE RecordCompleted
  BY <1>22 DEF TypeOK, LockInv, Publishing, Mergeable, Terminal, RecordCompleted
<1>23. CASE PublishConflicts
  BY <1>23 DEF TypeOK, LockInv, Publishing, Mergeable, Terminal, PublishConflicts,
     StopPublishing
<1>24. CASE \E j \in Ops : ProjectRow(j)
  BY <1>24 DEF TypeOK, LockInv, Mergeable, Terminal, ProjectRow, Bind
<1>25. CASE \E j \in Ops : SettleResidualRow(j)
  BY <1>25 DEF TypeOK, LockInv, Mergeable, Terminal, SettleResidualRow, operationVars
<1>26. CASE \E j \in Ops : ResolvePrepared(j)
  BY <1>26 DEF TypeOK, LockInv, Mergeable, Terminal, ResolvePrepared, Resolved
<1>27. CASE RecoverInFlight
  BY <1>27 DEF TypeOK, LockInv, Mergeable, Terminal, RecoverInFlight
<1>28. CASE ForceDirty
  BY <1>28 DEF TypeOK, LockInv, Mergeable, Terminal, ForceDirty, operationVars
<1>29. CASE Repair
  BY <1>29 DEF TypeOK, LockInv, Mergeable, Terminal, Repair, operationVars
<1>30. CASE MutationFails
  BY <1>30 DEF TypeOK, LockInv, Mergeable, Terminal, MutationFails, operationVars
<1>31. CASE PullFails
  BY <1>31 DEF TypeOK, LockInv, Mergeable, Terminal, PullFails, operationVars
<1>32. CASE PublishFails
  BY <1>32 DEF TypeOK, LockInv, Publishing, Mergeable, Terminal, PublishFails, StopPublishing
<1>33. CASE Crash
  BY <1>33 DEF TypeOK, LockInv, Mergeable, Terminal, Crash, operationVars
<1>34. CASE \E j \in Ops : ProjectRowFails(j)
  BY <1>34 DEF TypeOK, LockInv, Mergeable, Terminal, ProjectRowFails, operationVars
<1>35. CASE \E j \in Ops : ResolveInterrupted(j)
  BY <1>35 DEF TypeOK, LockInv, Mergeable, Terminal, ResolveInterrupted, Resolved
<1>36. CASE UNCHANGED vars
  BY <1>36 DEF TypeOK, LockInv, Mergeable, Terminal, vars, copyVars, operationVars,
      repoVars, mutationVars, pullVars, publishVars, startupVars, historyVars
<1>37. CASE \E j \in Ops : PublishByPulling(j)
  BY <1>37 DEF TypeOK, LockInv, Mergeable, Terminal, PublishByPulling, operationVars
<1>38. CASE \E j \in Ops : Republish(j)
  BY <1>38 DEF TypeOK, LockInv, Mergeable, Terminal, Republish, Fresh
<1>39. CASE KeepLocal
  BY <1>39 DEF TypeOK, KeepLocal, Answer
<1>40. CASE DiscardLocal
  BY <1>40 DEF TypeOK, DiscardLocal, Answer
<1>41. CASE ReplaceByRemote
  BY <1>41 DEF TypeOK, LockInv, Mergeable, Terminal, ReplaceByRemote, operationVars
<1>42. CASE RecordRemote
  BY <1>42 DEF TypeOK, LockInv, Mergeable, Terminal, RecordRemote, operationVars
<1>43. CASE StopShort
  BY <1>43 DEF TypeOK, LockInv, Mergeable, Terminal, StopShort, operationVars
<1> QED BY <1>1, <1>2, <1>3, <1>4, <1>5, <1>6, <1>7, <1>8, <1>9, <1>10, <1>11, <1>12,
    <1>13, <1>14, <1>15, <1>16, <1>17, <1>18, <1>19, <1>20, <1>21, <1>22, <1>23, <1>24,
    <1>25, <1>26, <1>27, <1>28, <1>29, <1>30, <1>31, <1>32, <1>33, <1>34, <1>35, <1>36,
    <1>37, <1>38, <1>39, <1>40, <1>41, <1>42, <1>43
  DEF Next, MutationStep, PullStep, PublishStep, UserStep, StartupStep, FaultStep

-----------------------------------------------------------------------------
(* Edits.                                                                  *)

\* Initially there is no edit to keep.
LEMMA EditInit == Init => EditInv
BY DEF Init, EditInv, Unpublished

\* No action loses a committed edit.
LEMMA EditStep == TypeOK /\ LockInv /\ CopyInv /\ EditInv /\ [Next]_vars => EditInv'
<1> SUFFICES ASSUME TypeOK, LockInv, CopyInv, EditInv, [Next]_vars PROVE EditInv'
  OBVIOUS
<1> USE EndedStep
<1>1. CASE Begin
  BY <1>1 DEF TypeOK, LockInv, CopyInv, EditInv, Unpublished, Terminal, Begin, copyVars,
      operationVars, repoVars, pullVars, publishVars, startupVars, historyVars,
      CommitLockFree
<1>2. CASE PrepareByPulling
  BY <1>2 DEF TypeOK, LockInv, CopyInv, EditInv, Unpublished, Terminal,
      PrepareByPulling, StartPull, copyVars, operationVars, repoVars, mutationVars,
      publishVars, startupVars, historyVars, ControlFree
<1>3. CASE Prepare
  BY <1>3 DEF TypeOK, LockInv, CopyInv, EditInv, Unpublished, Terminal, Prepare,
      copyVars, operationVars, repoVars, pullVars, publishVars, startupVars,
      historyVars, ControlFree
<1>4. CASE TakeDigest
  BY <1>4 DEF TypeOK, LockInv, CopyInv, EditInv, Unpublished, Terminal, TakeDigest,
      copyVars, repoVars, pullVars, publishVars, startupVars, historyVars
<1>5. CASE ReadExpected
  BY <1>5 DEF TypeOK, LockInv, CopyInv, EditInv, Unpublished, Terminal, ReadExpected,
      copyVars, repoVars, pullVars, publishVars, startupVars, historyVars, ControlFree
<1>6. CASE RecordPrepared
  BY <1>6 DEF TypeOK, LockInv, CopyInv, EditInv, Unpublished, Terminal, RecordPrepared,
      copyVars, repoVars, pullVars, publishVars, startupVars, historyVars, ControlFree
<1>7. CASE OpenCopy
  BY <1>7 DEF TypeOK, LockInv, CopyInv, EditInv, Unpublished, Terminal, OpenCopy,
      operationVars, repoVars, pullVars, publishVars, startupVars, historyVars
<1>8. CASE CommitEdit
  BY <1>8 DEF TypeOK, LockInv, CopyInv, EditInv, Unpublished, Terminal, CommitEdit,
      WriteCopy, operationVars, repoVars, pullVars, publishVars, startupVars
<1>9. CASE CommitNothing
  BY <1>9 DEF TypeOK, LockInv, CopyInv, EditInv, Unpublished, Terminal, CommitNothing,
      operationVars, repoVars, pullVars, publishVars, startupVars, historyVars
<1>10. CASE CancelPrepared
  BY <1>10 DEF TypeOK, LockInv, CopyInv, EditInv, Unpublished, Terminal, CancelPrepared,
      copyVars, repoVars, pullVars, publishVars, startupVars, historyVars, ControlFree
<1>11. CASE Project
  BY <1>11 DEF TypeOK, LockInv, CopyInv, EditInv, Unpublished, Terminal, Project, Bind,
      copyVars, pullVars, publishVars, startupVars, historyVars, ControlFree
<1>12. CASE DeleteOutboxRow
  BY <1>12 DEF TypeOK, LockInv, CopyInv, EditInv, Unpublished, Terminal,
      DeleteOutboxRow, WriteCopy, operationVars, repoVars, pullVars, publishVars,
      startupVars, historyVars
<1>13. CASE Refresh
  BY <1>13 DEF TypeOK, LockInv, CopyInv, EditInv, Unpublished, Terminal, Refresh,
      StartPull, copyVars, operationVars, repoVars, mutationVars, publishVars,
      startupVars, historyVars, ControlFree
<1>14. CASE ReplaceCopy
  <2>1. /\ pull # "none" /\ edits' = pulled.edits /\ outbox' = {} /\ local = "clean"
        /\ overwritten' = overwritten \cup
              {i \in edits \ pulled.edits : i \in outbox \/ state[i] = "conflicted"}
        /\ UNCHANGED <<remote, state, step, current, made, discarded>>
    BY <1>14 DEF LockInv, Pulling, ReplaceCopy, operationVars, mutationVars
  <2>2. edits' = remote.edits /\ edits' \subseteq edits
    BY <2>1 DEF CopyInv
  <2>3. \A i \in Ops : ~(Unpublished(i)')
    BY <2>1, <2>2 DEF CopyInv, EditInv, Unpublished
  <2> QED BY <2>1, <2>2, <2>3 DEF EditInv
<1>15. CASE RecordPull
  <2>1. /\ local = "clean" /\ local' = "clean"
        /\ step' \in {step, "digest"} /\ current' = current
        /\ UNCHANGED <<edits, outbox, digest, remote, state, scope, source, made,
               overwritten, discarded>>
    BY <1>15 DEF LockInv, Replaced, RecordPull, PullEnds, copyVars, operationVars, historyVars
  <2> QED BY <2>1 DEF EditInv, Unpublished
<1>16. CASE OtherDeviceCommits
  BY <1>16 DEF TypeOK, LockInv, CopyInv, EditInv, Unpublished, Terminal,
      OtherDeviceCommits, copyVars, operationVars, repoVars, mutationVars, pullVars,
      publishVars, startupVars, historyVars
<1>17. CASE \E i \in Ops : PublishStart(i)
  BY <1>17 DEF TypeOK, LockInv, CopyInv, EditInv, Unpublished, Terminal, PublishStart,
      copyVars, mutationVars, pullVars, startupVars, historyVars, CommitLockFree,
      ControlFree
<1>18. CASE PublishUnmoved
  BY <1>18 DEF TypeOK, LockInv, CopyInv, EditInv, Unpublished, Terminal, PublishUnmoved,
      copyVars, operationVars, repoVars, mutationVars, pullVars, startupVars,
      historyVars
<1>19. CASE PublishRebased
  BY <1>19 DEF TypeOK, LockInv, CopyInv, EditInv, Unpublished, Terminal, PublishRebased,
      copyVars, operationVars, repoVars, mutationVars, pullVars, startupVars,
      historyVars
<1>20. CASE PublishAccepted
  BY <1>20 DEF TypeOK, LockInv, CopyInv, EditInv, Unpublished, Terminal,
      PublishAccepted, copyVars, operationVars, repoVars, mutationVars, pullVars,
      startupVars, historyVars
<1>21. CASE InstallCandidate
  BY <1>21 DEF TypeOK, LockInv, CopyInv, EditInv, Unpublished, Terminal,
      InstallCandidate, operationVars, repoVars, mutationVars, pullVars, startupVars,
      historyVars
<1>22. CASE RecordCompleted
  BY <1>22 DEF TypeOK, LockInv, CopyInv, EditInv, Unpublished, Terminal,
      RecordCompleted, copyVars, mutationVars, pullVars, startupVars, historyVars,
      Outstanding
<1>23. CASE PublishConflicts
  BY <1>23 DEF TypeOK, LockInv, CopyInv, EditInv, Unpublished, Terminal,
      PublishConflicts, StopPublishing, copyVars, mutationVars, pullVars, startupVars,
      historyVars
<1>24. CASE \E i \in Ops : ProjectRow(i)
  BY <1>24 DEF TypeOK, LockInv, CopyInv, EditInv, Unpublished, Terminal, ProjectRow,
      Bind, WriteCopy, mutationVars, pullVars, publishVars, historyVars
<1>25. CASE \E i \in Ops : SettleResidualRow(i)
  BY <1>25 DEF TypeOK, LockInv, CopyInv, EditInv, Unpublished, Terminal,
      SettleResidualRow, WriteCopy, operationVars, repoVars, mutationVars, pullVars,
      publishVars, historyVars
<1>26. CASE \E i \in Ops : ResolvePrepared(i)
  BY <1>26 DEF TypeOK, LockInv, CopyInv, EditInv, Unpublished, Terminal,
      ResolvePrepared, Resolved, copyVars, mutationVars, pullVars, publishVars,
      startupVars, historyVars
<1>27. CASE RecoverInFlight
  BY <1>27 DEF TypeOK, LockInv, CopyInv, EditInv, Unpublished, Terminal,
      RecoverInFlight, copyVars, repoVars, mutationVars, pullVars, publishVars,
      historyVars
<1>28. CASE ForceDirty
  BY <1>28 DEF TypeOK, LockInv, CopyInv, EditInv, Unpublished, Terminal, ForceDirty,
      copyVars, operationVars, mutationVars, pullVars, publishVars, historyVars,
      Outstanding
<1>29. CASE Repair
  <2>1. UNCHANGED <<edits, outbox, digest, remote, state, scope, source, step, current, made,
        overwritten, discarded>>
    BY <1>29 DEF Repair, copyVars, operationVars, mutationVars, historyVars
  <2>2. CASE local' # "clean" \/ local' = local
    BY <2>1, <2>2 DEF EditInv, Unpublished
  <2>3. CASE local' = "clean" /\ local' # local
    <3>1. \E i \in Ops : state[i] = "completed" /\ digest = sealed[i]
      BY <1>29, <2>3 DEF Repair, Latest, repoVars
    <3>2. edits = remote.edits
      BY <3>1 DEF CopyInv
    <3>3. \A i \in Ops : ~Unpublished(i)
      BY <3>2 DEF EditInv, Unpublished
    <3> QED BY <2>1, <3>3 DEF EditInv, Unpublished
  <2> QED BY <2>2, <2>3
<1>30. CASE MutationFails
  BY <1>30 DEF TypeOK, LockInv, CopyInv, EditInv, Unpublished, Terminal, MutationFails,
      operationVars, repoVars, pullVars, publishVars, startupVars, historyVars
<1>31. CASE PullFails
  BY <1>31 DEF TypeOK, LockInv, CopyInv, EditInv, Unpublished, Terminal, PullFails,
      PullEnds, copyVars, operationVars, repoVars, publishVars, startupVars, historyVars
<1>32. CASE PublishFails
  BY <1>32 DEF TypeOK, LockInv, CopyInv, EditInv, Unpublished, Terminal, PublishFails,
      StopPublishing, copyVars, mutationVars, pullVars, startupVars, historyVars
<1>33. CASE Crash
  BY <1>33 DEF TypeOK, LockInv, CopyInv, EditInv, Unpublished, Terminal, Crash,
      operationVars, repoVars, historyVars
<1>34. CASE \E i \in Ops : ProjectRowFails(i)
  BY <1>34 DEF TypeOK, LockInv, CopyInv, EditInv, Unpublished, Terminal,
      ProjectRowFails, copyVars, operationVars, repoVars, mutationVars, pullVars,
      publishVars, historyVars
<1>35. CASE \E i \in Ops : ResolveInterrupted(i)
  BY <1>35 DEF TypeOK, LockInv, CopyInv, EditInv, Unpublished, Terminal,
      ResolveInterrupted, Resolved, copyVars, repoVars, mutationVars, pullVars,
      publishVars, historyVars
<1>36. CASE UNCHANGED vars
  BY <1>36 DEF TypeOK, LockInv, CopyInv, EditInv, Unpublished, Terminal, vars, copyVars,
      operationVars, repoVars, mutationVars, pullVars, publishVars, startupVars,
      historyVars
<1>37. CASE \E i \in Ops : PublishByPulling(i)
  BY <1>37 DEF TypeOK, EditInv, Unpublished, PublishByPulling, StartPull, CommitLockFree,
      copyVars, operationVars, repoVars, mutationVars, startupVars, historyVars
<1>38. CASE \E i \in Ops : Republish(i)
  BY <1>38 DEF TypeOK, LockInv, EditInv, Unpublished, Terminal, Republish, Fresh, copyVars,
      repoVars, mutationVars, pullVars, publishVars, startupVars, historyVars
<1>39. CASE KeepLocal
  <2>1. /\ local' = "conflicted" /\ primary \in Ops /\ state[primary] = "conflicted"
        /\ state' = [state EXCEPT ![primary] = "running"] /\ step' = "idle"
        /\ UNCHANGED <<edits, outbox, digest, remote, source, made, overwritten, discarded>>
    BY <1>39 DEF KeepLocal, Answer, Resolvable, CommitLockFree, copyVars, repoVars,
        mutationVars, historyVars
  <2> QED BY <2>1 DEF TypeOK, EditInv, Unpublished
<1>40. CASE DiscardLocal
  <2>1. /\ local' = "conflicted" /\ primary \in Ops /\ state[primary] = "conflicted"
        /\ state' = [state EXCEPT ![primary] = "cancelled"] /\ step' = "idle"
        /\ UNCHANGED <<edits, outbox, digest, remote, source, made, overwritten, discarded>>
    BY <1>40 DEF DiscardLocal, Answer, Resolvable, CommitLockFree, copyVars, repoVars,
        mutationVars, historyVars
  <2> QED BY <2>1 DEF TypeOK, EditInv, Unpublished
<1>41. CASE ReplaceByRemote
  <2>1. /\ edits' = candidate.edits /\ outbox' = {} /\ publisher = "replace" /\ step = "idle"
        /\ discarded' = discarded \cup (edits \ candidate.edits)
        /\ UNCHANGED <<remote, state, step, made, overwritten>>
    BY <1>41 DEF LockInv, ReplaceByRemote, operationVars, mutationVars
  <2>2. edits' = remote.edits /\ edits' \subseteq edits
    BY <2>1 DEF CopyInv
  <2>3. \A i \in Ops : ~Unpublished(i)'
    BY <2>1, <2>2 DEF EditInv, Unpublished
  <2> QED BY <2>1, <2>2, <2>3 DEF EditInv
<1>42. CASE RecordRemote
  <2>1. /\ publisher = "settle" /\ step = "idle"
        /\ UNCHANGED <<edits, outbox, remote, state, step, made, overwritten, discarded>>
    BY <1>42 DEF LockInv, RecordRemote, copyVars, operationVars, mutationVars, historyVars
  <2>2. remote.edits = edits
    BY <2>1 DEF CopyInv
  <2>3. \A i \in Ops : ~Unpublished(i)'
    BY <2>1, <2>2 DEF EditInv, Unpublished
  <2> QED BY <2>1, <2>3 DEF EditInv
<1>43. CASE StopShort
  BY <1>43 DEF TypeOK, EditInv, Unpublished, StopShort, copyVars, operationVars, repoVars,
      mutationVars, pullVars, startupVars, historyVars
<1> QED BY <1>1, <1>2, <1>3, <1>4, <1>5, <1>6, <1>7, <1>8, <1>9, <1>10, <1>11, <1>12,
    <1>13, <1>14, <1>15, <1>16, <1>17, <1>18, <1>19, <1>20, <1>21, <1>22, <1>23, <1>24,
    <1>25, <1>26, <1>27, <1>28, <1>29, <1>30, <1>31, <1>32, <1>33, <1>34, <1>35, <1>36,
    <1>37, <1>38, <1>39, <1>40, <1>41, <1>42, <1>43
  DEF Next, MutationStep, PullStep, PublishStep, UserStep, StartupStep, FaultStep

-----------------------------------------------------------------------------
(* What the operations name.                                               *)

\* Initially no operation names anything.
LEMMA ScopeInit == Init => ScopeInv
BY DEF Init, ScopeInv

\* Steps that leave the operations alone.
LEMMA ScopeKept ==
    ASSUME ScopeInv, UNCHANGED <<state, scope, made>>,
           BeforeCommit' => BeforeCommit /\ current' = current,
           remote.edits \subseteq remote'.edits, overwritten \subseteq overwritten',
           discarded \subseteq discarded'
    PROVE  ScopeInv'
<1>1. \A j : Unpublished(j)' => Unpublished(j)
  BY DEF Unpublished
<1> QED BY <1>1 DEF ScopeInv

\* Steps that move operations on, and none to its completion.
LEMMA StatesMove ==
    ASSUME TypeOK, ScopeInv, UNCHANGED <<scope, remote, made, overwritten, discarded>>,
           ~BeforeCommit',
           \A i \in Ops : /\ state'[i] = "none" <=> state[i] = "none"
                          /\ state'[i] \in {"prepared", "completed"} => state'[i] = state[i]
    PROVE  ScopeInv'
<1>1. ASSUME NEW i \in Ops, state'[i] \notin {"none", "prepared"}, NEW j \in scope'[i]
      PROVE  state'[j] # "none"
  <2>1. j \in scope[i] /\ j \in Ops /\ state[i] # "none"
    BY <1>1 DEF TypeOK
  <2>2. CASE state[i] = "prepared"
    BY <2>1, <2>2, <1>1 DEF ScopeInv
  <2>3. CASE state[i] # "prepared"
    BY <2>1, <2>3 DEF ScopeInv
  <2> QED BY <2>2, <2>3
<1>2. \A i \in Ops : /\ state'[i] = "prepared" => scope'[i] \subseteq {i}
                     /\ state'[i] = "completed" => \A j \in scope'[i] : ~(Unpublished(j)')
  BY DEF ScopeInv, Unpublished
<1> QED BY <1>1, <1>2 DEF ScopeInv, Unpublished, BeforeCommit

\* A projected operation names its own edit.
LEMMA BoundScope ==
    ASSUME TypeOK, ScopeInv, NEW i \in Ops, Bind(i), state[i] # "none", ~BeforeCommit',
           UNCHANGED <<remote, made, overwritten, discarded>>
    PROVE  ScopeInv'
<1>1. /\ state' = [state EXCEPT ![i] = "pending"] /\ scope' = [scope EXCEPT ![i] = {i}]
  BY DEF Bind
<1>2. \A j \in Ops : state'[j] \notin {"none", "prepared"} =>
          \A k \in scope'[j] : state'[k] # "none"
  BY <1>1 DEF TypeOK, ScopeInv
<1>3. \A j \in Ops : /\ state'[j] = "prepared" => scope'[j] \subseteq {j}
                     /\ state'[j] = "completed" => \A k \in scope'[j] : ~Unpublished(k)'
  BY <1>1 DEF TypeOK, ScopeInv, Unpublished
<1> QED BY <1>2, <1>3 DEF ScopeInv, Unpublished, BeforeCommit

\* No action completes an operation that names an unpublished edit, or adds
\* such an edit to what a completed one names.
LEMMA ScopeStep == TypeOK /\ LockInv /\ CopyInv /\ EditInv /\ ScopeInv /\ [Next]_vars => ScopeInv'
<1> SUFFICES ASSUME TypeOK, LockInv, CopyInv, EditInv, ScopeInv, [Next]_vars PROVE ScopeInv'
  OBVIOUS
<1>1. CASE Begin
  BY <1>1, ScopeKept DEF Begin, BeforeCommit, operationVars, historyVars
<1>2. CASE PrepareByPulling
  BY <1>2, ScopeKept DEF PrepareByPulling, BeforeCommit, operationVars, mutationVars,
     historyVars
<1>3. CASE Prepare
  BY <1>3, ScopeKept DEF Prepare, BeforeCommit, operationVars, historyVars
<1>4. CASE TakeDigest
  BY <1>4, ScopeKept DEF TakeDigest, BeforeCommit, historyVars
<1>5. CASE ReadExpected
  BY <1>5, ScopeKept DEF ReadExpected, BeforeCommit, historyVars
<1>6. CASE OpenCopy
  BY <1>6, ScopeKept DEF OpenCopy, BeforeCommit, operationVars, historyVars
<1>7. CASE CommitNothing
  BY <1>7, ScopeKept DEF CommitNothing, BeforeCommit, operationVars, historyVars
<1>8. CASE DeleteOutboxRow
  BY <1>8, ScopeKept DEF DeleteOutboxRow, BeforeCommit, operationVars, historyVars
<1>9. CASE Refresh
  BY <1>9, ScopeKept DEF Refresh, BeforeCommit, operationVars, mutationVars, historyVars
<1>10. CASE ReplaceCopy
  BY <1>10, ScopeKept DEF ReplaceCopy, BeforeCommit, operationVars, mutationVars
<1>11. CASE RecordPull
  BY <1>11, ScopeKept DEF RecordPull, BeforeCommit, PullEnds, operationVars, historyVars
<1>12. CASE OtherDeviceCommits
  <2>1. remote'.edits = remote.edits
    BY <1>12 DEF TypeOK, OtherDeviceCommits, Snapshot
  <2> QED BY <1>12, <2>1, ScopeKept DEF OtherDeviceCommits, BeforeCommit, operationVars,
      mutationVars, historyVars
<1>13. CASE PublishUnmoved
  BY <1>13, ScopeKept DEF PublishUnmoved, BeforeCommit, CopyInv, Publishing, operationVars,
     mutationVars, historyVars
<1>14. CASE PublishRebased
  BY <1>14, ScopeKept DEF PublishRebased, BeforeCommit, CopyInv, Publishing, operationVars,
     mutationVars, historyVars
<1>15. CASE PublishAccepted
  BY <1>15, ScopeKept DEF PublishAccepted, BeforeCommit, CopyInv, Publishing, operationVars,
     mutationVars, historyVars
<1>16. CASE InstallCandidate
  BY <1>16, ScopeKept DEF InstallCandidate, BeforeCommit, operationVars, mutationVars,
     historyVars
<1>17. CASE \E i \in Ops : SettleResidualRow(i)
  BY <1>17, ScopeKept DEF SettleResidualRow, BeforeCommit, operationVars, mutationVars,
     historyVars
<1>18. CASE ForceDirty
  BY <1>18, ScopeKept DEF ForceDirty, BeforeCommit, operationVars, mutationVars, historyVars
<1>19. CASE Repair
  BY <1>19, ScopeKept DEF Repair, BeforeCommit, operationVars, mutationVars, historyVars
<1>20. CASE MutationFails
  BY <1>20, ScopeKept DEF MutationFails, BeforeCommit, operationVars, historyVars
<1>21. CASE PullFails
  BY <1>21, ScopeKept DEF PullFails, BeforeCommit, PullEnds, operationVars, historyVars
<1>22. CASE Crash
  BY <1>22, ScopeKept DEF Crash, BeforeCommit, operationVars, historyVars
<1>23. CASE \E i \in Ops : ProjectRowFails(i)
  BY <1>23, ScopeKept DEF ProjectRowFails, BeforeCommit, operationVars, mutationVars,
     historyVars
<1>24. CASE \E i \in Ops : PublishByPulling(i)
  BY <1>24, ScopeKept DEF PublishByPulling, BeforeCommit, operationVars, mutationVars,
     historyVars
<1>25. CASE ReplaceByRemote
  BY <1>25, ScopeKept DEF ReplaceByRemote, BeforeCommit, operationVars, mutationVars
<1>26. CASE RecordRemote
  BY <1>26, ScopeKept DEF RecordRemote, BeforeCommit, operationVars, mutationVars, historyVars
<1>27. CASE StopShort
  BY <1>27, ScopeKept DEF StopShort, BeforeCommit, operationVars, mutationVars, historyVars
<1>28. CASE CommitEdit
  <2>1. /\ step = "commit" /\ step' = "project" /\ made' = made \cup {current}
        /\ overwritten \subseteq overwritten'
        /\ UNCHANGED <<state, scope, remote, discarded>>
    BY <1>28 DEF CommitEdit, operationVars
  <2>2. ASSUME NEW i \in Ops, state[i] = "completed", NEW j \in scope[i]
        PROVE  ~Unpublished(j)'
    <3>1. j # current /\ ~Unpublished(j)
      BY <2>1, <2>2 DEF ScopeInv, BeforeCommit
    <3> QED BY <2>1, <3>1 DEF Unpublished
  <2> QED BY <2>1, <2>2 DEF ScopeInv, BeforeCommit
<1>29. CASE CancelPrepared
  BY <1>29, StatesMove DEF TypeOK, LockInv, BeforeCommit, CancelPrepared, historyVars
<1>30. CASE PublishConflicts
  BY <1>30, StatesMove DEF TypeOK, LockInv, Publishing, BeforeCommit, PublishConflicts,
     StopPublishing, mutationVars, historyVars
<1>31. CASE PublishFails
  BY <1>31, StatesMove DEF TypeOK, LockInv, Publishing, BeforeCommit, PublishFails,
     StopPublishing, mutationVars, historyVars
<1>32. CASE \E i \in Ops : ResolvePrepared(i)
  BY <1>32, StatesMove DEF TypeOK, LockInv, BeforeCommit, ResolvePrepared, Resolved,
     mutationVars, historyVars
<1>33. CASE RecoverInFlight
  BY <1>33, StatesMove DEF TypeOK, LockInv, BeforeCommit, RecoverInFlight, mutationVars,
     historyVars
<1>34. CASE \E i \in Ops : ResolveInterrupted(i)
  BY <1>34, StatesMove DEF TypeOK, LockInv, BeforeCommit, ResolveInterrupted, Resolved,
     mutationVars, historyVars
<1>35. CASE KeepLocal
  BY <1>35, StatesMove DEF TypeOK, BeforeCommit, KeepLocal, Answer, Resolvable,
     CommitLockFree, mutationVars, historyVars
<1>36. CASE DiscardLocal
  BY <1>36, StatesMove DEF TypeOK, BeforeCommit, DiscardLocal, Answer, Resolvable,
     CommitLockFree, mutationVars, historyVars
<1>37. CASE RecordPrepared
  <2>1. /\ current \in Ops /\ state[current] = "none" /\ step' = "open"
        /\ state' = [state EXCEPT ![current] = "prepared"]
        /\ scope'[current] \subseteq {current} /\ current' = current
        /\ \A i \in Ops \ {current} : scope'[i] = scope[i]
        /\ UNCHANGED <<remote, made, overwritten, discarded>>
    BY <1>37 DEF TypeOK, LockInv, RecordPrepared, historyVars
  <2> QED BY <2>1 DEF TypeOK, ScopeInv, Unpublished, BeforeCommit
<1>38. CASE Project
  <2>1. /\ current \in Ops /\ state[current] = "prepared" /\ step' = "delete" /\ Bind(current)
        /\ UNCHANGED <<remote, made, overwritten, discarded>>
    BY <1>38 DEF TypeOK, LockInv, Project, historyVars
  <2> QED BY <2>1, BoundScope DEF BeforeCommit
<1>39. CASE \E i \in Ops : ProjectRow(i)
  <2>1. PICK i \in Ops : ProjectRow(i)
    BY <1>39
  <2>2. i \in made /\ state[i] # "none"
    BY <2>1 DEF TypeOK, EditInv, ProjectRow
  <2>3. step' = "idle" /\ Bind(i) /\ UNCHANGED <<remote, made, overwritten, discarded>>
    BY <2>1 DEF LockInv, ProjectRow, mutationVars, historyVars
  <2> QED BY <2>2, <2>3, BoundScope DEF BeforeCommit
<1>40. CASE \E i \in Ops : PublishStart(i)
  <2>1. PICK i \in Ops : PublishStart(i)
    BY <1>40
  <2>2. step' \notin {"open", "commit", "cancel"}
    BY <2>1 DEF LockInv, PublishStart, CommitLockFree, mutationVars
  <2>3. /\ state[i] \in Mergeable
        /\ state' = [j \in Ops |-> IF j = i THEN "running"
                               ELSE IF state[j] \in Mergeable THEN "cancelled" ELSE state[j]]
        /\ scope' = [scope EXCEPT ![i] =
                UNION {scope[j] : j \in {k \in Ops : state[k] \in Mergeable}}]
        /\ UNCHANGED <<remote, made, overwritten, discarded>>
    BY <2>1 DEF PublishStart, historyVars
  <2>4. \A j \in Ops : state[j] # "none" => state'[j] # "none"
    BY <2>3 DEF TypeOK
  <2>5. \A j \in scope'[i] : j \in Ops /\ state[j] # "none"
    BY <2>3 DEF TypeOK, ScopeInv, Mergeable
  <2>6. /\ \A j \in Ops : state'[j] = "prepared" => scope'[j] \subseteq {j}
        /\ \A j \in Ops : state'[j] \notin {"none", "prepared"} =>
              \A k \in scope'[j] : state'[k] # "none"
    <3> SUFFICES ASSUME NEW j \in Ops
                 PROVE  /\ state'[j] = "prepared" => scope'[j] \subseteq {j}
                        /\ state'[j] \notin {"none", "prepared"} =>
                              \A k \in scope'[j] : state'[k] # "none"
      OBVIOUS
    <3>1. CASE j = i
      BY <2>3, <2>4, <2>5, <3>1 DEF TypeOK
    <3>2. CASE j # i
      BY <2>3, <2>4, <3>2 DEF TypeOK, ScopeInv, Mergeable
    <3> QED BY <3>1, <3>2
  <2>7. \A j \in Ops : state'[j] = "completed" => \A k \in scope'[j] : ~Unpublished(k)'
    BY <2>3 DEF TypeOK, ScopeInv, Unpublished
  <2> QED BY <2>2, <2>6, <2>7 DEF ScopeInv, BeforeCommit
<1>41. CASE \E i \in Ops : Republish(i)
  <2>1. PICK i \in Ops : Republish(i)
    BY <1>41
  <2>2. /\ state[i] = "none" /\ state' = [state EXCEPT ![i] = "pending"]
        /\ UNCHANGED <<remote, step, current, made, overwritten, discarded>>
    BY <2>1 DEF Republish, Fresh, mutationVars, historyVars
  <2>3. PICK songs \in {{}} \cup {{j} : j \in edits} : scope' = [scope EXCEPT ![i] = songs]
    BY <2>1 DEF Republish
  <2>4. \A j \in songs : j \in edits
    BY <2>3
  <2>5. \A j \in songs : state[j] # "none" /\ (BeforeCommit => j # current)
    BY <2>4 DEF TypeOK, EditInv, BeforeCommit
  <2>6. \A j \in Ops : state'[j] \notin {"none", "prepared"} =>
            \A k \in scope'[j] : state'[k] # "none" /\ (BeforeCommit' => k # current')
    BY <2>2, <2>3, <2>5 DEF TypeOK, ScopeInv, BeforeCommit
  <2>7. \A j \in Ops : /\ state'[j] = "prepared" => scope'[j] \subseteq {j}
                       /\ state'[j] = "completed" => \A k \in scope'[j] : ~Unpublished(k)'
    BY <2>2, <2>3 DEF TypeOK, ScopeInv, Unpublished
  <2> QED BY <2>6, <2>7 DEF ScopeInv, Unpublished, BeforeCommit
<1>42. CASE RecordCompleted
  <2>1. /\ publisher = "record" /\ primary \in Ops /\ step' = "idle"
        /\ state[primary] = "running" /\ state' = [state EXCEPT ![primary] = "completed"]
        /\ UNCHANGED <<scope, remote, made, overwritten, discarded>>
    BY <1>42 DEF TypeOK, LockInv, Publishing, RecordCompleted, mutationVars, historyVars
  <2>2. remote.edits = edits
    BY <2>1 DEF CopyInv
  <2>3. \A j \in Ops : ~Unpublished(j)'
    BY <2>1, <2>2 DEF EditInv, Unpublished
  <2> QED BY <2>1, <2>3 DEF TypeOK, ScopeInv, BeforeCommit
<1>43. CASE UNCHANGED vars
  BY <1>43, ScopeKept DEF BeforeCommit, vars, operationVars, mutationVars, historyVars
<1> QED BY <1>1, <1>2, <1>3, <1>4, <1>5, <1>6, <1>7, <1>8, <1>9, <1>10, <1>11, <1>12, <1>13,
    <1>14, <1>15, <1>16, <1>17, <1>18, <1>19, <1>20, <1>21, <1>22, <1>23, <1>24, <1>25,
    <1>26, <1>27, <1>28, <1>29, <1>30, <1>31, <1>32, <1>33, <1>34, <1>35, <1>36, <1>37,
    <1>38, <1>39, <1>40, <1>41, <1>42, <1>43
  DEF Next, MutationStep, PullStep, PublishStep, UserStep, StartupStep, FaultStep

-----------------------------------------------------------------------------
(* Theorems.                                                               *)

Inv == TypeOK /\ LockInv /\ CopyInv /\ EditInv /\ ScopeInv

\* Init establishes the invariant and every step keeps it.
LEMMA Invariance == Spec => []Inv
<1>1. Init => Inv
  BY TypeInit, LockInit, CopyInit, EditInit, ScopeInit DEF Inv
<1>2. Inv /\ [Next]_vars => Inv'
  BY TypeStep, LockStep, CopyStep, EditStep, ScopeStep DEF Inv
<1> QED BY <1>1, <1>2, PTL DEF Spec

\* TypeOK, for every number of edits, generations and faults.
THEOREM TypeCorrect == Spec => []TypeOK
<1>1. Inv => TypeOK
  BY DEF Inv
<1> QED BY <1>1, Invariance, PTL

\* No projection, merge, recovery or record of a result reopens an operation
\* that has ended; only the user's answer to the conflict that the repository
\* is stopped on does, and it reopens that one operation (control_db.rs:139,
\* executor.rs:273, executor.rs:1937).
THEOREM EndedOperationsStayEnded == Spec => EndedStaysEnded
<1>1. Inv /\ [Next]_vars =>
          [\A i \in Ops : state[i] \in Terminal /\ state'[i] # state[i] =>
              Resolvable /\ i = primary /\ state'[i] \in {"running", "cancelled"}]_vars
  BY EndedStep DEF Inv
<1> QED BY <1>1, Invariance, PTL DEF Spec, EndedStaysEnded

\* Through merges, retries, crashes between commit and record and publications
\* asked for outright, a completed operation has published every edit it
\* names that neither a pull nor the user has dropped (publish.rs:1014).
THEOREM CompletedOperationsArePublished == Spec => []CompletedMeansPublished
<1>1. Inv => CompletedMeansPublished
  BY DEF Inv, ScopeInv, Unpublished, CompletedMeansPublished
<1> QED BY <1>1, Invariance, PTL

\* Through crashes between the two databases, failed steps, pulls by a refresh
\* or a publication and conflicts the user settles, an edit whose transaction
\* committed is published, given up by the user or still in the working copy
\* behind an outbox row, a conflict or a repository that is not clean; only a
\* pull of a clean repository overwrites it (mutation.rs:437, startup.rs:143,
\* recovery.rs:669).
THEOREM EditsAreNeverLostSilently == Spec => []EditsAreKept
<1>1. Inv => EditsAreKept
  <2> SUFFICES ASSUME Inv, NEW i \in made
               PROVE  \/ i \in remote.edits \/ i \in overwritten \/ i \in discarded
                      \/ /\ i \in edits
                         /\ i \in outbox \/ local # "clean" \/ state[i] = "conflicted"
    BY DEF EditsAreKept
  <2>1. i \in Ops
    BY DEF Inv, TypeOK
  <2> QED BY <2>1 DEF Inv, EditInv, Unpublished
<1> QED BY <1>1, Invariance, PTL
=============================================================================
