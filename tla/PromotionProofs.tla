--------------------------- MODULE PromotionProofs ---------------------------
(***************************************************************************)
(* Proofs about Promotion, for every bound on faults and retries.  The     *)
(* inductive invariant IInv fixes, at each step of the helper, where the   *)
(* old release is; every safety property is read off it.                   *)
(***************************************************************************)
EXTENDS Promotion, TLAPS

\* The directories that RetireBlocked moves, and their parts.
LEMMA Directories ==
  /\ NoDir \in TaskDirs /\ ~NoDir.workDir /\ NoDir.snapshot = "none"
  /\ ~NoDir.torn /\ NoDir.result = "none" /\ ~NoDir.entered
  /\ \A d \in TaskDirs :
       /\ d.workDir \in BOOLEAN /\ d.snapshot \in Prefixes \cup {"none"}
       /\ d.torn \in BOOLEAN /\ d.result \in {"none", "promoted", "failed"}
       /\ d.entered \in BOOLEAN
BY DEF NoDir, Dir, TaskDirs

\* The host of Init satisfies the invariant.
LEMMA InitHolds == Init => IInv
<1> SUFFICES ASSUME Init PROVE IInv
  OBVIOUS
<1> USE DEF Init
<1>1. TypeOK
  <2>1. faults \in 0..MaxFaults /\ retries \in 0..MaxRetries
    BY BoundsAssumption
  <2>2. retired \in TaskDirs
    BY Directories
  <2> QED
    BY <2>1, <2>2, Zenon DEF TypeOK, Prefixes, Installed, ManagerSteps, TaskPhases
<1>2. WhoRuns
  BY DEF WhoRuns
<1>3. HelperKnows
  BY DEF HelperKnows, RecoverSteps, BeforeSnapshot, AfterSnapshot
<1>4. MarkerKnows
  BY Directories DEF MarkerKnows
<1> QED
  BY <1>1, <1>2, <1>3, <1>4 DEF IInv

\* Every step of the helper preserves the invariant.
LEMMA HelperPreserves == IInv /\ HelperStep => IInv'
<1> SUFFICES ASSUME IInv, HelperStep PROVE IInv'
  OBVIOUS
<1> USE BoundsAssumption
    DEF IInv, TypeOK, WhoRuns, HelperKnows, MarkerKnows, Prefixes, Installed,
        ApplySteps, RecoverSteps, Exits, ManagerSteps, TaskPhases,
        BeforeSnapshot, AfterSnapshot, At, files, tasks, moved, Rescue,
        RecoverReturn, RecoverRaise
<1>1. CASE Preflight BY <1>1 DEF Preflight
<1>2. CASE MakeWorkDir BY <1>2 DEF MakeWorkDir
<1>3. CASE MarkPreparing BY <1>3 DEF MarkPreparing
<1>4. CASE StopBridge BY <1>4 DEF StopBridge
<1>5. CASE CopyPrefix BY <1>5 DEF CopyPrefix
<1>6. CASE NameSnapshot BY <1>6 DEF NameSnapshot
<1>7. CASE MarkSnapshotReady BY <1>7 DEF MarkSnapshotReady
<1>8. CASE InstallerStarts BY <1>8 DEF InstallerStarts
<1>9. CASE InstallerEnds BY <1>9 DEF InstallerEnds
<1>10. CASE CheckInstalled BY <1>10 DEF CheckInstalled
<1>11. CASE MarkVerifying BY <1>11 DEF MarkVerifying
<1>12. CASE StartBridge BY <1>12 DEF StartBridge
<1>13. CASE VerifyRuntime BY <1>13 DEF VerifyRuntime
<1>14. CASE Commit BY <1>14 DEF Commit
<1>15. CASE ReportPromoted BY <1>15 DEF ReportPromoted
<1>16. CASE ReportFailed BY <1>16 DEF ReportFailed
<1>17. CASE RecoverCheck BY <1>17 DEF RecoverCheck
<1>18. CASE RecoverStop BY <1>18 DEF RecoverStop
<1>19. CASE MoveAside BY <1>19 DEF MoveAside
<1>20. CASE RestoreSnapshot BY <1>20 DEF RestoreSnapshot
<1>21. CASE RecoverStart BY <1>21 DEF RecoverStart
<1>22. CASE RecoverUnmark BY <1>22 DEF RecoverUnmark
<1> QED
  BY <1>1, <1>2, <1>3, <1>4, <1>5, <1>6, <1>7, <1>8, <1>9, <1>10, <1>11, <1>12,
     <1>13, <1>14, <1>15, <1>16, <1>17, <1>18, <1>19, <1>20, <1>21, <1>22
  DEF HelperStep

\* Every step of the manager preserves the invariant.
LEMMA ManagerPreserves == IInv /\ ManagerStep => IInv'
<1> SUFFICES ASSUME IInv, ManagerStep PROVE IInv'
  OBVIOUS
<1> USE BoundsAssumption
    DEF IInv, TypeOK, WhoRuns, HelperKnows, MarkerKnows, Prefixes, Installed,
        ApplySteps, RecoverSteps, Exits, ManagerSteps, TaskPhases,
        BeforeSnapshot, AfterSnapshot, Start, files, tasks, moved, bounds
<1>1. CASE RecoverInterrupted BY <1>1 DEF RecoverInterrupted
<1>2. CASE RecoveryReturns BY <1>2 DEF RecoveryReturns
<1>3. CASE DeferForActivity BY <1>3 DEF DeferForActivity
<1>4. CASE RunPromotion BY <1>4 DEF RunPromotion
<1>5. CASE PromotionReturns BY <1>5 DEF PromotionReturns
<1>6. CASE DropPending BY <1>6 DEF DropPending
<1>7. CASE QueuePromotion BY <1>7 DEF QueuePromotion, QueuePhase
<1>8. CASE WritePending BY <1>8 DEF WritePending
<1>9. CASE QueueRepair BY <1>9 DEF QueueRepair
<1>10. CASE FinishRepair BY <1>10 DEF FinishRepair
<1>11. CASE RetireBlocked
  <2> USE <1>11 DEF RetireBlocked
  <2>1. retries' \in 0..MaxRetries
    OBVIOUS
  <2>2. /\ torn' \in BOOLEAN /\ workDir' \in BOOLEAN /\ entered' \in BOOLEAN
        /\ ~workDir' /\ ~entered' /\ snapshot' = "none" /\ result' = "none"
    BY Directories, Zenon DEF PutInPlace
  <2>3. /\ retired' \in TaskDirs
        /\ retired'.workDir = workDir /\ retired'.snapshot = snapshot
        /\ retired'.entered = entered
    BY DEF Dir, TaskDirs
  <2>4. TypeOK'
    BY <2>1, <2>2, <2>3
  <2>5. WhoRuns' /\ HelperKnows' /\ MarkerKnows'
    BY <2>2, <2>3
  <2> QED
    BY <2>4, <2>5
<1>12. CASE RequeueRetired BY <1>12 DEF RequeueRetired
<1>13. CASE RequeueFails
  <2> USE <1>13 DEF RequeueFails
  <2>1. CASE PutInPlace(retired) /\ taskPhase' = "blocked" /\ outcome' = "failed"
    <3>1. /\ torn' \in BOOLEAN /\ workDir' \in BOOLEAN /\ entered' \in BOOLEAN
          /\ snapshot' \in Prefixes \cup {"none"}
          /\ result' \in {"none", "promoted", "failed"}
      BY <2>1, Directories, Zenon DEF PutInPlace
    <3>2. ~workDir' => snapshot' = "none" /\ ~entered'
      BY <2>1, Zenon DEF PutInPlace
    <3>3. TypeOK'
      BY <2>1, <3>1
    <3>4. WhoRuns' /\ HelperKnows'
      OBVIOUS
    <3>5. MarkerKnows'
      <4>1. marker' = "none" /\ prefix' = prefix /\ bridge' = bridge /\ retired' = retired
        OBVIOUS
      <4> QED
        BY <3>2, <4>1
    <3> QED
      BY <3>3, <3>4, <3>5
  <2>2. CASE UNCHANGED <<workDir, snapshot, torn, result, entered, taskPhase, outcome>>
    BY <2>2
  <2> QED
    BY <2>1, <2>2
<1> QED
  BY <1>1, <1>2, <1>3, <1>4, <1>5, <1>6, <1>7, <1>8, <1>9, <1>10, <1>11, <1>12,
     <1>13
  DEF ManagerStep

\* Faults preserve the invariant: this is the crash safety of the transaction.
LEMMA FaultsPreserve == IInv /\ Surroundings => IInv'
<1> SUFFICES ASSUME IInv, Surroundings PROVE IInv'
  OBVIOUS
<1> USE BoundsAssumption
    DEF IInv, TypeOK, WhoRuns, HelperKnows, MarkerKnows, Prefixes, Installed,
        ApplySteps, RecoverSteps, Exits, ManagerSteps, TaskPhases,
        BeforeSnapshot, AfterSnapshot, files, tasks, moved, AfterBridgeStart
<1>1. CASE StepFails
  BY <1>1 DEF StepFails, At, BeforeTry, InsideTry, Rescue, RecoverRaise
<1>2. CASE Crash BY <1>2 DEF Crash
<1>3. CASE Reboot BY <1>3 DEF Reboot
<1>4. CASE HelperKilled BY <1>4 DEF HelperKilled
<1>5. CASE DesktopStartsBridge BY <1>5 DEF DesktopStartsBridge
<1> QED
  BY <1>1, <1>2, <1>3, <1>4, <1>5 DEF Surroundings

\* A step that changes nothing preserves it as well.
LEMMA StutterPreserves == IInv /\ UNCHANGED vars => IInv'
  BY DEF IInv, TypeOK, WhoRuns, HelperKnows, MarkerKnows, vars, files, tasks, moved, bounds

\* In every reachable state the old release is where recovery looks for it.
THEOREM InductiveInvariant == Spec => []IInv
<1>1. IInv /\ [Next]_vars => IInv'
  BY HelperPreserves, ManagerPreserves, FaultsPreserve, StutterPreserves DEF Next
<1> QED
  BY InitHolds, <1>1, PTL DEF Spec

\* The types of the state, for every bound.
THEOREM TypeCorrect == Spec => []TypeOK
<1>1. IInv => TypeOK
  BY DEF IInv
<1> QED
  BY InductiveInvariant, <1>1, PTL

\* Whatever crashes, reboots and failing commands occur, a live prefix without a
\* marker is the complete old release or the verified new one.
THEOREM PrefixIsSound == Spec => []LivePrefixSound
<1>1. IInv => LivePrefixSound
  BY DEF IInv, MarkerKnows, LivePrefixSound
<1> QED
  BY InductiveInvariant, <1>1, PTL

\* The complete old prefix is never lost before the commit.
THEOREM OldReleaseIsKept == Spec => []OldReleaseKept
<1>1. IInv => OldReleaseKept
  BY DEF IInv, MarkerKnows, OldReleaseKept
<1> QED
  BY InductiveInvariant, <1>1, PTL

\* The bridge is up whenever no transaction is open.
THEOREM BridgeIsNotStranded == Spec => []BridgeNotStranded
<1>1. IInv => BridgeNotStranded
  BY DEF IInv, MarkerKnows, BridgeNotStranded
<1> QED
  BY InductiveInvariant, <1>1, PTL

\* No second transaction is opened on a task directory, also when a crash has
\* made the manager forget that the first one was rolled back.
THEOREM OneTransaction == Spec => OneTransactionPerTask
<1>1. IInv /\ [Next]_vars => (marker = "none" /\ marker' # "none" => ~entered)
  <2> SUFFICES ASSUME IInv, [Next]_vars, marker = "none", marker' # "none"
               PROVE  ~entered
    OBVIOUS
  <2>1. HelperStep
    BY DEF Next, ManagerStep, Surroundings, vars, files, RecoverInterrupted,
       RecoveryReturns, DeferForActivity, RunPromotion, PromotionReturns,
       DropPending, QueuePromotion, WritePending, QueueRepair, FinishRepair,
       RetireBlocked, RequeueRetired, RequeueFails, StepFails, Crash, Reboot, HelperKilled,
       DesktopStartsBridge
  <2>2. helper \notin RecoverSteps \cup AfterSnapshot \cup (BeforeSnapshot \ {"mark1"})
    BY DEF IInv, HelperKnows
  <2>3. MarkPreparing
    BY <2>1, <2>2 DEF HelperStep, At, files, RecoverSteps, AfterSnapshot,
       BeforeSnapshot, Preflight, MakeWorkDir, StopBridge, CopyPrefix,
       NameSnapshot, MarkSnapshotReady, InstallerStarts, InstallerEnds,
       CheckInstalled, MarkVerifying, StartBridge, VerifyRuntime, Commit,
       ReportPromoted, ReportFailed, RecoverCheck, RecoverStop, MoveAside,
       RestoreSnapshot, RecoverStart, RecoverUnmark
  <2> QED
    BY <2>3 DEF MarkPreparing, At, IInv, HelperKnows
<1> QED
  BY InductiveInvariant, <1>1, PTL DEF Spec, OneTransactionPerTask

\* A committed release is never taken away again by any program or crash.
THEOREM CommitIsFinal == Spec => CommitFinal
<1>1. IInv /\ [Next]_vars => (marker = "none" /\ prefix = "good" => marker' = "none" /\ prefix' = "good")
  <2> SUFFICES ASSUME IInv, [Next]_vars, marker = "none", prefix = "good"
               PROVE  marker' = "none" /\ prefix' = "good"
    OBVIOUS
  <2>1. helper \notin RecoverSteps \cup AfterSnapshot \cup BeforeSnapshot
    BY DEF IInv, HelperKnows
  <2>2. CASE HelperStep
    BY <2>1, <2>2 DEF HelperStep, At, files, RecoverSteps, AfterSnapshot,
       BeforeSnapshot, Preflight, MakeWorkDir, MarkPreparing, StopBridge, CopyPrefix,
       NameSnapshot, MarkSnapshotReady, InstallerStarts, InstallerEnds,
       CheckInstalled, MarkVerifying, StartBridge, VerifyRuntime, Commit,
       ReportPromoted, ReportFailed, RecoverCheck, RecoverStop, MoveAside,
       RestoreSnapshot, RecoverStart, RecoverUnmark
  <2>3. CASE ManagerStep
    BY <2>3 DEF ManagerStep, files, RecoverInterrupted,
       RecoveryReturns, DeferForActivity, RunPromotion, PromotionReturns,
       DropPending, QueuePromotion, WritePending, QueueRepair, FinishRepair,
       RetireBlocked, RequeueRetired, RequeueFails
  <2>4. CASE Surroundings
    BY <2>4 DEF Surroundings, files, StepFails, Crash, Reboot, HelperKilled,
       DesktopStartsBridge, AfterBridgeStart
  <2>5. CASE UNCHANGED vars
    BY <2>5 DEF vars, files
  <2> QED
    BY <2>2, <2>3, <2>4, <2>5 DEF Next
<1> QED
  BY InductiveInvariant, <1>1, PTL DEF Spec, CommitFinal

\* A helper step is a Begin, a Commit or an Abort of the atomic upgrade, or
\* leaves its state alone.
LEMMA HelperImplements == IInv /\ IInv' /\ HelperStep => [Upgrade!Next]_(Upgrade!vars)
<1> SUFFICES ASSUME IInv, IInv', HelperStep PROVE [Upgrade!Next]_(Upgrade!vars)
  OBVIOUS
<1> USE DEF At, files, Upgrade!vars, Upgrade!Next, IInv, HelperKnows, MarkerKnows
<1>1. CASE MarkPreparing
  <2>1. Upgrade!Begin
    BY <1>1 DEF MarkPreparing, BeforeSnapshot, Upgrade!Begin
  <2> QED BY <2>1
<1>2. CASE Commit
  <2>1. Upgrade!Commit
    BY <1>2 DEF Commit, AfterSnapshot, Upgrade!Commit
  <2> QED BY <2>1
<1>3. CASE RecoverUnmark
  <2>1. Upgrade!Abort
    BY <1>3 DEF RecoverUnmark, RecoverSteps, Upgrade!Abort
  <2> QED BY <2>1
<1>4. CASE MarkSnapshotReady
  BY <1>4 DEF MarkSnapshotReady, AfterSnapshot
<1>5. CASE MarkVerifying
  BY <1>5 DEF MarkVerifying, AfterSnapshot
<1>6. CASE InstallerStarts \/ InstallerEnds
  BY <1>6 DEF InstallerStarts, InstallerEnds, AfterSnapshot
<1>7. CASE MoveAside \/ RestoreSnapshot
  BY <1>7 DEF MoveAside, RestoreSnapshot, RecoverSteps
<1>8. CASE Preflight \/ MakeWorkDir \/ StopBridge \/ CopyPrefix \/ NameSnapshot
  BY <1>8 DEF Preflight, MakeWorkDir, StopBridge, CopyPrefix, NameSnapshot
<1>9. CASE CheckInstalled \/ StartBridge \/ VerifyRuntime \/ ReportPromoted \/ ReportFailed
  BY <1>9 DEF CheckInstalled, StartBridge, VerifyRuntime, ReportPromoted, ReportFailed
<1>10. CASE RecoverCheck \/ RecoverStop \/ RecoverStart
  BY <1>10 DEF RecoverCheck, RecoverStop, RecoverStart
<1> QED
  BY <1>1, <1>2, <1>3, <1>4, <1>5, <1>6, <1>7, <1>8, <1>9, <1>10 DEF HelperStep

\* Manager and helper, with every crash between their steps, implement the
\* atomic upgrade.
THEOREM RefinesUpgrade == Spec => ImplementsUpgrade
<1>1. Init => Upgrade!Init
  BY DEF Init, Upgrade!Init
<1>2. IInv /\ IInv' /\ [Next]_vars => [Upgrade!Next]_(Upgrade!vars)
  <2> SUFFICES ASSUME IInv, IInv', [Next]_vars PROVE [Upgrade!Next]_(Upgrade!vars)
    OBVIOUS
  <2>1. CASE HelperStep
    BY <2>1, HelperImplements
  <2>2. CASE ManagerStep
    BY <2>2 DEF ManagerStep, Upgrade!vars, files, RecoverInterrupted,
       RecoveryReturns, DeferForActivity, RunPromotion, PromotionReturns,
       DropPending, QueuePromotion, WritePending, QueueRepair, FinishRepair,
       RetireBlocked, RequeueRetired, RequeueFails
  <2>3. CASE Surroundings
    BY <2>3 DEF Surroundings, Upgrade!vars, files, StepFails, Crash, Reboot,
       HelperKilled, DesktopStartsBridge, AfterBridgeStart, IInv, MarkerKnows
  <2>4. CASE UNCHANGED vars
    BY <2>4 DEF vars, files, Upgrade!vars
  <2> QED
    BY <2>1, <2>2, <2>3, <2>4 DEF Next
<1> QED
  BY InductiveInvariant, <1>1, <1>2, PTL DEF Spec, ImplementsUpgrade, Upgrade!Spec
=============================================================================
