------------------------ MODULE UpdateManagerProofs ------------------------
(***************************************************************************)
(* Proofs about the update manager: first the repair tasks (UpdateTasks),  *)
(* then live recovery (KnownGood), whose monitor runs when no task is      *)
(* pending.  The two keep separate states.                                 *)
(***************************************************************************)
EXTENDS UpdateTasks, KnownGood, TLAPS

-----------------------------------------------------------------------------
(* Repair tasks.  The invariant says what the record of the pending task   *)
(* and the command's copy of it have to do with one another.               *)

\* The record constructor, and the two constant records.
LEMMA RecordOf ==
  ASSUME NEW p \in Phases, NEW th \in Models \cup {None},
         NEW m \in Models \cup {None}, NEW d \in {"now", "later"}
  PROVE  /\ Rec(p, th, m, d) \in Records
         /\ Rec(p, th, m, d).phase = p /\ Rec(p, th, m, d).thread = th
         /\ Rec(p, th, m, d).model = m /\ Rec(p, th, m, d).due = d
  BY DEF Records, Rec

LEMMA ConstantRecords ==
  /\ Absent \in Records /\ Absent.phase = "absent" /\ Absent.thread = None
  /\ Absent.model = None /\ Absent.due = "now"
  /\ Fresh \in Records /\ Fresh.phase = "queued" /\ Fresh.thread = None
  /\ Fresh.model = None /\ Fresh.due = "now"
  BY DEF Absent, Fresh, Records, Phases, Rec

\* The fields of a record.
LEMMA Fields ==
  ASSUME NEW r \in Records
  PROVE  /\ r.phase \in Phases /\ r.thread \in Models \cup {None}
         /\ r.model \in Models \cup {None} /\ r.due \in {"now", "later"}
  BY DEF Records

\* What the actions that build a record save.
LEMMA SavedRecords ==
  ASSUME TypeOK
  PROVE  /\ MonitorPending =>
              /\ rec' \in Records /\ rec'.due = pendRec.due /\ rec'.model = config
              /\ rec'.phase \in {pendRec.phase, "codex-model-reset"}
              /\ rec'.thread # None => rec'.thread = pendRec.thread
              /\ rec'.thread # None => pendRec.model \in {None, config}
         /\ Defer => /\ rec' \in Records /\ rec'.phase \in Deferred
                     /\ rec'.model = rec.model /\ rec'.thread = rec.thread
         /\ StartAttempt => /\ rec' \in Records /\ rec'.phase = "codex-running"
                            /\ rec'.model = rec.model /\ rec'.thread = rec.thread
                            /\ rec'.due = rec.due
         /\ ThreadStarted /\ using # None =>
              /\ rec' \in Records /\ rec'.phase = rec.phase
              /\ rec'.model = rec.model /\ rec'.due = rec.due
              /\ rec'.thread = IF rec.thread = None THEN using ELSE rec.thread
         /\ CodexInterrupted => /\ rec' \in Records /\ rec'.phase = "codex-interrupted"
                                /\ rec'.model = rec.model /\ rec'.thread = rec.thread
         /\ FinishTask => /\ rec' \in Records /\ rec'.phase \in Terminal
                          /\ rec'.model = rec.model /\ rec'.thread = rec.thread
                          /\ rec'.due = rec.due
         /\ Retry => /\ rec' \in Records /\ rec'.phase = "queued"
                     /\ rec'.thread = None /\ rec'.due = "now"
         /\ \A r \in Records : /\ Due(r) \in Records /\ Due(r).phase = r.phase
                               /\ Due(r).thread = r.thread /\ Due(r).model = r.model
                               /\ Due(r).due = "now"
  <1>1. ASSUME MonitorPending
        PROVE  /\ rec' \in Records /\ rec'.due = pendRec.due /\ rec'.model = config
               /\ rec'.phase \in {pendRec.phase, "codex-model-reset"}
               /\ rec'.thread # None => rec'.thread = pendRec.thread
               /\ rec'.thread # None => pendRec.model \in {None, config}
    <2>1. rec' = Adopted(pendRec) /\ pendRec \in Records /\ config \in Models
      BY <1>1 DEF MonitorPending, Save, TypeOK
    <2>2. CASE pendRec.model \notin {None, config}
      <3>1. rec' = Rec("codex-model-reset", None, config, pendRec.due)
        BY <2>1, <2>2 DEF Adopted
      <3> QED
        BY <2>1, <3>1 DEF Rec, Records, Phases
    <2>3. CASE pendRec.model \in {None, config}
      <3>1. rec' = Rec(pendRec.phase, pendRec.thread, config, pendRec.due)
        BY <2>1, <2>3 DEF Adopted
      <3> QED
        BY <2>1, <2>3, <3>1 DEF Rec, Records
    <2> QED
      BY <2>2, <2>3
  <1>2. ASSUME Defer
        PROVE  /\ rec' \in Records /\ rec'.phase \in Deferred
               /\ rec'.model = rec.model /\ rec'.thread = rec.thread
    <2>1. PICK p \in Deferred : rec' = Rec(p, rec.thread, rec.model, "later")
      BY <1>2 DEF Defer, Save
    <2> QED
      BY <2>1 DEF Rec, Records, TypeOK, Phases, Retryable
  <1>3. ASSUME StartAttempt
        PROVE  /\ rec' \in Records /\ rec'.phase = "codex-running"
               /\ rec'.model = rec.model /\ rec'.thread = rec.thread
               /\ rec'.due = rec.due
    <2>1. rec' = Rec("codex-running", rec.thread, rec.model, rec.due)
      BY <1>3 DEF StartAttempt, Save
    <2> QED
      BY <2>1 DEF Rec, Records, TypeOK, Phases
  <1>4. ASSUME ThreadStarted, using # None
        PROVE  /\ rec' \in Records /\ rec'.phase = rec.phase
               /\ rec'.model = rec.model /\ rec'.due = rec.due
               /\ rec'.thread = IF rec.thread = None THEN using ELSE rec.thread
    <2> DEFINE th == IF rec.thread = None THEN using ELSE rec.thread
    <2>1. rec' = Rec(rec.phase, th, rec.model, rec.due)
      BY <1>4 DEF ThreadStarted, Save
    <2>2. th \in Models \cup {None}
      BY Fields DEF TypeOK
    <2> QED
      BY <2>1, <2>2 DEF Rec, Records, TypeOK
  <1>5. ASSUME CodexInterrupted
        PROVE  /\ rec' \in Records /\ rec'.phase = "codex-interrupted"
               /\ rec'.model = rec.model /\ rec'.thread = rec.thread
    <2>1. rec' = Rec("codex-interrupted", rec.thread, rec.model, "later")
      BY <1>5 DEF CodexInterrupted, Save
    <2> QED
      BY <2>1 DEF Rec, Records, TypeOK, Phases, Retryable
  <1>6. ASSUME FinishTask
        PROVE  /\ rec' \in Records /\ rec'.phase \in Terminal
               /\ rec'.model = rec.model /\ rec'.thread = rec.thread
               /\ rec'.due = rec.due
    <2>1. PICK p \in Terminal : rec' = Rec(p, rec.thread, rec.model, rec.due)
      BY <1>6 DEF FinishTask, Verdict, Terminal
    <2> QED
      BY <2>1 DEF Rec, Records, TypeOK, Phases
  <1>7. ASSUME Retry
        PROVE  /\ rec' \in Records /\ rec'.phase = "queued"
               /\ rec'.thread = None /\ rec'.due = "now"
    <2>1. rec' = Rec("queued", None, RetryRecord.model, "now")
      BY <1>7 DEF Retry, Save
    <2>2. RetryRecord \in Records
      BY <1>7 DEF Retry, RetryTarget, RetryRecord, TypeOK
    <2> QED
      BY <2>1, <2>2 DEF Rec, Records, Phases
  <1>8. ASSUME NEW r \in Records
        PROVE  /\ Due(r) \in Records /\ Due(r).phase = r.phase
               /\ Due(r).thread = r.thread /\ Due(r).model = r.model
               /\ Due(r).due = "now"
    BY DEF Due, Rec, Records
  <1> QED
    BY <1>1, <1>2, <1>3, <1>4, <1>5, <1>6, <1>7, <1>8

\* The initial state satisfies the invariant.
LEMMA InitInvariant == Init => IInv
  <1> SUFFICES ASSUME Init PROVE IInv
    OBVIOUS
  <1>1. TypeOK
    BY ConstantRecords, NoneAssumption DEF Init, TypeOK, Steps, Ids
  <1>2. RecordsFit
    BY ConstantRecords DEF Init, RecordsFit, Fits, OnTask, Working
  <1>3. CommandKnows
    BY DEF Init, CommandKnows, OnTask, Working
  <1>4. FinishedAtRest /\ PendingHasRecord /\ FinishedIsLastAttempt
    BY ConstantRecords, NoneAssumption
       DEF Init, FinishedAtRest, PendingHasRecord, FinishedIsLastAttempt, Terminal, Ids
  <1>5. AttemptIsPending
    BY DEF Init, AttemptIsPending, Attempting, OnTask
  <1> QED
    BY <1>1, <1>2, <1>3, <1>4, <1>5 DEF IInv

\* Every step keeps the invariant.
LEMMA StepInvariant == IInv /\ [Next]_vars => IInv'
  <1> SUFFICES ASSUME IInv, [Next]_vars PROVE IInv'
    OBVIOUS
  <1> USE NoneAssumption DEF IInv, TypeOK, RecordsFit, CommandKnows, FinishedAtRest,
        PendingHasRecord, AttemptIsPending, FinishedIsLastAttempt, Fits, OnTask,
        Working, Attempting, Steps, store, world, command, Save, End
  <1>1. CASE SaveDisk
    BY <1>1, Fields DEF SaveDisk
  <1>2. CASE SavePending
    <2>1. after \in {"report", "gate", "launch", "started"}
      BY <1>2 DEF SavePending
    <2> QED
      BY <1>2, <2>1 DEF SavePending
  <1>3. CASE Report
    BY <1>3, ConstantRecords DEF Report
  <1>4. CASE Check \/ CheckEnds \/ UnknownRelease
    BY <1>4, ConstantRecords DEF Check, CheckEnds, UnknownRelease, Ids
  <1>5. CASE RetainResult
    BY <1>5 DEF RetainResult, Terminal
  <1>6. CASE ResumeTask
    BY <1>6, Fields DEF ResumeTask, Terminal
  <1>7. CASE StageCandidate \/ QueueNew
    BY <1>7, ConstantRecords DEF StageCandidate, QueueNew, Terminal
  <1>8. CASE MonitorHealth
    BY <1>8 DEF MonitorHealth, Ids
  <1>9. CASE MonitorPending
    <2>1. /\ rec' \in Records /\ rec'.model = config
          /\ rec'.phase \in {pendRec.phase, "codex-model-reset"}
          /\ rec'.thread # None => rec'.thread = pendRec.thread
          /\ rec'.thread # None => pendRec.model \in {None, config}
      BY <1>9, SavedRecords
    <2>2. rec'.thread # None => rec'.thread = rec'.model
      BY <2>1
    <2>3. rec'.phase \notin Terminal \cup {"absent"}
      BY <1>9, <2>1 DEF MonitorPending, Terminal
    <2>4. /\ step = "idle" /\ pendId # None /\ job' = pendId /\ using' = config
          /\ step' = "disk" /\ after' = "gate" /\ config \in Models
          /\ UNCHANGED <<disk, pendId, pendRec, active, config, endpoint, minute, faults>>
      BY <1>9 DEF MonitorPending
    <2>5. TypeOK' /\ FinishedAtRest' /\ PendingHasRecord' /\ AttemptIsPending'
            /\ FinishedIsLastAttempt'
      BY <2>1, <2>4
    <2>6. RecordsFit'
      BY <2>1, <2>2, <2>4
    <2>7. CommandKnows'
      BY <2>3, <2>4
    <2> QED
      BY <2>5, <2>6, <2>7
  <1>10. CASE Wait \/ Launch \/ CodexFinishes \/ VerifyFails
    BY <1>10, ConstantRecords DEF Wait, Launch, CodexFinishes, VerifyFails
  <1>11. CASE Defer
    BY <1>11, SavedRecords DEF Defer, Deferred, Terminal
  <1>12. CASE StartAttempt
    BY <1>12, SavedRecords DEF StartAttempt, Terminal
  <1>13. CASE ThreadStarted
    BY <1>13, SavedRecords DEF ThreadStarted, Terminal
  <1>14. CASE CodexInterrupted
    BY <1>14, SavedRecords DEF CodexInterrupted, Terminal
  <1>15. CASE FinishTask
    <2>1. /\ step = "verify" /\ step' = "unpend" /\ disk' = [disk EXCEPT ![job] = rec']
          /\ UNCHANGED <<pendId, pendRec, active, world, after, job, using>>
      BY <1>15 DEF FinishTask
    <2> QED
      BY <1>15, <2>1, SavedRecords DEF Terminal
  <1>16. CASE Unpend
    BY <1>16, ConstantRecords DEF Unpend
  <1>17. CASE Retry
    <2>1. /\ RetryTarget \in Ids
          /\ RetryTarget # pendId => RetryRecord = disk[RetryTarget]
      BY <1>17 DEF Retry, RetryTarget, RetryRecord
    <2>2. RetryRecord.phase \in Terminal => RetryRecord.phase = "blocked"
      BY <1>17 DEF Retry, Retryable, Deferred, Terminal
    <2> QED
      BY <1>17, <2>1, <2>2, SavedRecords DEF Retry, Terminal
  <1>18. CASE Crash
    BY <1>18, ConstantRecords DEF Crash
  <1>19. CASE TimePasses
    BY <1>19, SavedRecords DEF TimePasses
  <1>20. CASE Reconfigure \/ Publish
    BY <1>20 DEF Reconfigure, Publish
  <1>21. CASE UNCHANGED vars
    BY <1>21 DEF vars
  <1> QED
    BY <1>1, <1>2, <1>3, <1>4, <1>5, <1>6, <1>7, <1>8, <1>9, <1>10, <1>11, <1>12,
       <1>13, <1>14, <1>15, <1>16, <1>17, <1>18, <1>19, <1>20, <1>21
    DEF Next, Command

\* The invariant holds in every reachable state, for any sets of releases,
\* minutes and models and any number of crashes.
THEOREM InductiveInvariant == Spec => []IInv
  <1>1. Init => IInv
    BY InitInvariant
  <1>2. IInv /\ [Next]_vars => IInv'
    BY StepInvariant
  <1> QED
    BY <1>1, <1>2, PTL DEF Spec

\* No copy of a record ever makes a command resume a Codex thread under a model
\* other than the one the thread was opened with.
THEOREM ResumeAlwaysFits == Spec => []ResumeFits
  <1>1. IInv => ResumeFits
    BY DEF IInv, RecordsFit, Fits, OnTask, Working, ResumeFits
  <1> QED
    BY <1>1, InductiveInvariant, PTL

\* A verdict stands beside no pending copy but that of the attempt that earned
\* it, wherever a crash falls.
THEOREM FinishedAlwaysLastAttempt == Spec => []FinishedIsLastAttempt
  <1>1. IInv => FinishedIsLastAttempt
    BY DEF IInv
  <1> QED
    BY <1>1, InductiveInvariant, PTL

\* Only SaveDisk, FinishTask and the passing of time write task.json.
LEMMA RecordWriters ==
  ASSUME IInv, [Next]_vars, NEW t \in Ids, disk[t].phase \in Terminal,
         pendId # t, disk'[t] # disk[t]
  PROVE  disk[t].phase = "blocked" /\ disk'[t].phase = "queued"
  <1> USE DEF IInv, TypeOK, store
  <1>1. CASE SaveDisk
    BY <1>1 DEF SaveDisk, CommandKnows
  <1>2. CASE FinishTask
    <2>1. pendId = job
      BY <1>2 DEF FinishTask, CommandKnows, OnTask, Working
    <2> QED
      BY <1>2, <2>1 DEF FinishTask
  <1>3. CASE TimePasses
    <2>1. disk'[t] = Due(disk[t]) /\ disk[t] \in Records /\ disk[t].due = "now"
      BY <1>3 DEF TimePasses, FinishedAtRest
    <2>2. Due(disk[t]) = disk[t]
      BY <2>1 DEF Due, Rec, Records
    <2> QED
      BY <2>1, <2>2
  <1>4. CASE UNCHANGED disk
    BY <1>4
  <1> QED
    BY <1>1, <1>2, <1>3, <1>4
    DEF Next, Command, vars, SavePending, Report, Check, CheckEnds, UnknownRelease,
        RetainResult, ResumeTask, StageCandidate, QueueNew, MonitorHealth,
        MonitorPending, Wait, Defer, StartAttempt, Launch, ThreadStarted,
        CodexFinishes, CodexInterrupted, VerifyFails, Unpend, Retry, Crash,
        Reconfigure, Publish

\* A verdict that is no longer pending is only reopened by an operator's retry.
THEOREM VerdictsStand == Spec => VerdictStands
  <1>1. IInv /\ [Next]_vars =>
          [\A t \in Ids : disk[t].phase \in Terminal /\ pendId # t /\ disk'[t] # disk[t]
             => disk[t].phase = "blocked" /\ disk'[t].phase = "queued"]_vars
    BY RecordWriters
  <1> QED
    BY <1>1, InductiveInvariant, PTL DEF Spec, VerdictStands

\* A finished task does not come back to pending.json by itself.
THEOREM FinishedStayOut == Spec => FinishedStaysOut
  <1>1. ASSUME IInv, [Next]_vars, NEW t \in Ids, disk[t].phase \in Terminal, pendId # t
        PROVE  pendId' # t
    <2> USE DEF IInv, TypeOK, store
    <2>1. CASE SavePending
      BY <1>1, <2>1 DEF SavePending, CommandKnows
    <2>2. CASE Unpend
      BY <1>1, <2>2, NoneAssumption DEF Unpend, Ids
    <2>3. CASE UNCHANGED pendId
      BY <1>1, <2>3
    <2> QED
      BY <1>1, <2>1, <2>2, <2>3
      DEF Next, Command, vars, SaveDisk, Report, Check, CheckEnds, UnknownRelease,
          RetainResult, ResumeTask, StageCandidate, QueueNew, MonitorHealth,
          MonitorPending, Wait, Defer, StartAttempt, Launch, ThreadStarted,
          CodexFinishes, CodexInterrupted, FinishTask, VerifyFails, Retry, Crash,
          TimePasses, Reconfigure, Publish
  <1>2. IInv /\ [Next]_vars =>
          [\A t \in Ids : disk[t].phase \in Terminal /\ pendId # t => pendId' # t]_vars
    BY <1>1
  <1> QED
    BY <1>2, InductiveInvariant, PTL DEF Spec, FinishedStaysOut

-----------------------------------------------------------------------------
(* Live recovery, for any items, any list of the snapshot, any track and   *)
(* any number of attempts and failures.  That a runtime is never lost      *)
(* needs to know when the first snapshot is finished; that a rollback is   *)
(* exact needs to know what the copy holds at every step of its loops.     *)

\* What a crash leaves of the runtime is a runtime of the same items.
LEMMA StopsTyped ==
  ASSUME RecoveryTypeOK, StopsAtItem
  PROVE  /\ live' \in [Items -> Contents]
         /\ stage \notin {"install", "restore"} => UNCHANGED live
BY RuntimeAssumption DEF RuntimeAssumption, StopsAtItem, Broken, RecoveryTypeOK

\* The snapshot of an installed runtime, and of one that install.sh went over.
LEMMA ListingTyped ==
  ASSUME NEW r \in [Items -> Contents]
  PROVE  Listing(r) \in [Listed -> Contents]
BY RuntimeAssumption DEF RuntimeAssumption, Listing

\* A runtime before anything was done to it.
LEMMA RecoveryStarts == RecoveryInit => RecoveryInv
<1> SUFFICES ASSUME RecoveryInit PROVE RecoveryInv
  OBVIOUS
<1> USE RuntimeAssumption DEF RuntimeAssumption, RecoveryInit
<1>0. Nothing(Listed) \in [Listed -> Contents] /\ Nothing(Items) \in [Items -> Contents]
  BY DEF Nothing
<1>1. RecoveryTypeOK
  <2>1. /\ live \in [Items -> Contents] /\ archive \subseteq [Listed -> Contents]
        /\ service \in {"running", "broken", "stopped"}
        /\ option \in BOOLEAN /\ pending \in BOOLEAN /\ auto \in BOOLEAN
    OBVIOUS
  <2>2. /\ status = "none" /\ stage \in Stages /\ todo \subseteq Items
        /\ copy \in [Listed -> Contents] /\ before \in [Items -> Contents]
    BY <1>0 DEF Stages
  <2>3. attempts \in 0..MaxAttempts /\ failures \in 0..MaxFailures
    OBVIOUS
  <2> QED
    BY <2>1, <2>2, <2>3 DEF RecoveryTypeOK
<1>2. Listing(live) \in Whole /\ live \in Runtimes /\ stage = "idle"
  BY DEF Whole
<1> QED
  BY <1>1, <1>2 DEF RecoveryInv, WholeIsKept, SnapshotExact, Changing

\* Probes, restarts, refusals, reports, and whatever happens outside.
LEMMA QuietStepsPreserve ==
  ASSUME RecoveryInv,
         \/ BeginProbing \/ FirstProbe \/ Confirm \/ RestartBridge \/ AwaitRestart
         \/ CloneTrack \/ Refuse \/ Prepared \/ InstallEnds \/ Judge \/ StartRestored
         \/ Settle \/ QueueTask \/ ServiceChanges \/ OptionChanges \/ TasksChange
  PROVE  RecoveryInv'
<1> USE RuntimeAssumption DEF RuntimeAssumption
<1>1. UNCHANGED <<live, archive>>
  BY DEF BeginProbing, FirstProbe, Confirm, RestartBridge, AwaitRestart, CloneTrack,
         Refuse, Prepared, InstallEnds, Judge, StartRestored, Settle, QueueTask,
         ServiceChanges, OptionChanges, TasksChange
<1>2. Listing(live)' = Listing(live)
  BY <1>1 DEF Listing
<1>3. Nothing(Listed) \in [Listed -> Contents] /\ Nothing(Items) \in [Items -> Contents]
  BY DEF Nothing
<1> USE <1>1, <1>2, <1>3 DEF RecoveryInv, RecoveryTypeOK, WholeIsKept, SnapshotExact, Changing, Stages,
                   Goto, EndRecovery, Probe, monitor, outside
<1>4. CASE BeginProbing BY <1>4 DEF BeginProbing
<1>5. CASE FirstProbe BY <1>5 DEF FirstProbe
<1>6. CASE Confirm BY <1>6 DEF Confirm
<1>7. CASE RestartBridge BY <1>7 DEF RestartBridge
<1>8. CASE AwaitRestart BY <1>8 DEF AwaitRestart
<1>9. CASE CloneTrack BY <1>9 DEF CloneTrack
<1>10. CASE Refuse BY <1>10 DEF Refuse
<1>11. CASE Prepared BY <1>11 DEF Prepared
<1>12. CASE InstallEnds BY <1>12 DEF InstallEnds
<1>13. CASE Judge BY <1>13 DEF Judge
<1>14. CASE StartRestored
  <2>1. /\ stage = "restore" /\ todo = {} /\ stage' = "settle"
        /\ service' \in {"running", "broken", service}
        /\ UNCHANGED <<status, auto, todo, copy, before, option, pending, attempts, failures>>
    BY <1>14 DEF StartRestored
  <2>2. copy = Listing(before) /\ \A i \in Listed : live[i] = copy[i]
    BY <2>1
  <2>3. Listing(live) = Listing(before)
    BY <2>2 DEF Listing
  <2>4. Listing(before)' = Listing(before)
    BY <2>1 DEF Listing
  <2> QED
    BY <2>1, <2>2, <2>3, <2>4
<1>15. CASE Settle BY <1>15 DEF Settle
<1>16. CASE QueueTask BY <1>16 DEF QueueTask
<1>17. CASE ServiceChanges BY <1>17 DEF ServiceChanges
<1>18. CASE OptionChanges BY <1>18 DEF OptionChanges
<1>19. CASE TasksChange BY <1>19 DEF TasksChange
<1> QED
  BY <1>4, <1>5, <1>6, <1>7, <1>8, <1>9, <1>10, <1>11, <1>12, <1>13, <1>14, <1>15,
     <1>16, <1>17, <1>18, <1>19

\* Snapshot, installation and rollback.
LEMMA LoopsPreserve ==
  ASSUME RecoveryInv,
         \/ FinishSnapshot \/ InstallFails \/ StopForRollback
         \/ \E i \in Items : SnapshotItem(i) \/ InstallItem(i) \/ RestoreItem(i)
  PROVE  RecoveryInv'
<1> USE RuntimeAssumption DEF RuntimeAssumption
<1>1. CASE FinishSnapshot
  <2>1. /\ stage = "snapshot" /\ todo = {} /\ archive' = archive \cup {copy}
        /\ stage' = "install" /\ todo' = Items /\ service' \in {"stopped", service}
        /\ UNCHANGED <<live, outside, status, auto, copy, before>>
    BY <1>1 DEF FinishSnapshot
  <2>2. live = before /\ copy \in [Listed -> Contents] /\ \A i \in Listed : copy[i] = live[i]
    BY <2>1 DEF RecoveryInv, RecoveryTypeOK, SnapshotExact
  <2>3. copy = Listing(live) /\ copy = Listing(before)
    BY <2>2 DEF Listing
  <2>4. Listing(before)' = Listing(before)
    BY <2>1 DEF Listing
  <2>5. RecoveryTypeOK'
    BY <2>1, <2>2 DEF RecoveryInv, RecoveryTypeOK, Stages, outside
  <2>6. archive' \cap Whole # {}
    BY <2>1, <2>3 DEF RecoveryInv, WholeIsKept, Changing
  <2>7. SnapshotExact'
    BY <2>1, <2>3, <2>4 DEF SnapshotExact, Changing
  <2> QED
    BY <2>5, <2>6, <2>7 DEF RecoveryInv, WholeIsKept
<1>2. CASE InstallFails
  <2>1. /\ stage = "install" /\ stage' = "stop" /\ service' \in {"running", "broken", "stopped"}
        /\ live' \in [Items -> Contents]
        /\ UNCHANGED <<archive, outside, status, auto, todo, copy, before>>
    BY <1>2 DEF InstallFails, Broken, Goto, monitor, RecoveryInv, RecoveryTypeOK
  <2>2. Listing(before)' = Listing(before)
    BY <2>1 DEF Listing
  <2> QED
    BY <2>1, <2>2 DEF RecoveryInv, RecoveryTypeOK, Stages, WholeIsKept,
                            SnapshotExact, Changing, outside
<1>3. CASE StopForRollback
  <2>1. /\ stage = "stop" /\ stage' = "restore" /\ service' \in {"stopped", service}
        /\ todo' = Listed
        /\ UNCHANGED <<live, archive, outside, status, auto, copy, before>>
    BY <1>3 DEF StopForRollback
  <2>2. Listing(before)' = Listing(before)
    BY <2>1 DEF Listing
  <2> QED
    BY <2>1, <2>2 DEF RecoveryInv, RecoveryTypeOK, Stages, WholeIsKept,
                            SnapshotExact, Changing, outside
<1>4. ASSUME NEW i \in Items, SnapshotItem(i) PROVE RecoveryInv'
  <2>1. /\ stage = "snapshot" /\ i \in todo /\ copy' = [copy EXCEPT ![i] = live[i]]
        /\ todo' = todo \ {i}
        /\ UNCHANGED <<live, archive, service, outside, status, stage, auto, before>>
    BY <1>4 DEF SnapshotItem
  <2>2. /\ live \in [Items -> Contents] /\ copy \in [Listed -> Contents]
        /\ live = before /\ todo \subseteq Listed
        /\ \A j \in Listed \ todo : copy[j] = live[j]
    BY <2>1 DEF RecoveryInv, RecoveryTypeOK, SnapshotExact
  <2>3. /\ copy' \in [Listed -> Contents]
        /\ \A j \in Listed \ todo' : copy'[j] = live[j]
    BY <2>1, <2>2
  <2>4. RecoveryTypeOK'
    BY <2>1, <2>2, <2>3 DEF RecoveryInv, RecoveryTypeOK, outside
  <2>5. Listing(live)' = Listing(live)
    BY <2>1 DEF Listing
  <2> QED
    BY <2>1, <2>2, <2>3, <2>4, <2>5 DEF RecoveryInv, WholeIsKept, SnapshotExact, Changing
<1>5. ASSUME NEW i \in Items, InstallItem(i) PROVE RecoveryInv'
  <2>1. /\ stage = "install" /\ live' = [live EXCEPT ![i] = Over(live)[i]]
        /\ todo' = todo \ {i}
        /\ UNCHANGED <<archive, service, outside, status, stage, auto, copy, before>>
    BY <1>5 DEF InstallItem
  <2>2. live \in [Items -> Contents] /\ Over(live)[i] \in Contents
    BY DEF RecoveryInv, RecoveryTypeOK, Over
  <2>3. live' \in [Items -> Contents]
    BY <2>1, <2>2
  <2>4. Listing(before)' = Listing(before)
    BY <2>1 DEF Listing
  <2> QED
    BY <2>1, <2>3, <2>4 DEF RecoveryInv, RecoveryTypeOK, Stages, WholeIsKept,
                            SnapshotExact, Changing, outside
<1>6. ASSUME NEW i \in Items, RestoreItem(i) PROVE RecoveryInv'
  <2>1. /\ stage = "restore" /\ i \in todo /\ live' = [live EXCEPT ![i] = copy[i]]
        /\ todo' = todo \ {i}
        /\ UNCHANGED <<archive, service, outside, status, stage, auto, copy, before>>
    BY <1>6 DEF RestoreItem
  <2>2. /\ live \in [Items -> Contents] /\ copy \in [Listed -> Contents]
        /\ todo \subseteq Listed /\ copy = Listing(before)
        /\ \A j \in Listed \ todo : live[j] = copy[j]
    BY <2>1 DEF RecoveryInv, RecoveryTypeOK, SnapshotExact, Changing
  <2>3. live' \in [Items -> Contents]
    BY <2>1, <2>2
  <2>4. \A j \in Listed \ todo' : live'[j] = copy[j]
    BY <2>1, <2>2
  <2>5. Listing(before)' = Listing(before)
    BY <2>1 DEF Listing
  <2>6. RecoveryTypeOK'
    BY <2>1, <2>2, <2>3 DEF RecoveryInv, RecoveryTypeOK, outside
  <2> QED
    BY <2>1, <2>2, <2>4, <2>5, <2>6 DEF RecoveryInv, WholeIsKept, SnapshotExact, Changing
<1> QED
  BY <1>1, <1>2, <1>3, <1>4, <1>5, <1>6

\* A monitor that dies or gives up leaves what is in the archive.
LEMMA FailuresPreserve ==
  ASSUME RecoveryInv, MonitorDies \/ Raises
  PROVE  RecoveryInv'
<1>1. /\ live' \in [Items -> Contents]
      /\ stage \notin {"install", "restore"} => UNCHANGED live
  BY StopsTyped DEF RecoveryInv, MonitorDies, Raises
<1>2. /\ stage' = "idle" /\ status' \in {status, "error"}
      /\ auto' = FALSE /\ todo' = {} /\ copy' = Nothing(Listed) /\ before' = Nothing(Items)
      /\ failures < MaxFailures /\ failures' = failures + 1
      /\ UNCHANGED <<archive, service, option, pending, attempts>>
  BY DEF MonitorDies, Raises, EndRecovery, Fault
<1>3. Nothing(Listed) \in [Listed -> Contents] /\ Nothing(Items) \in [Items -> Contents]
  BY RuntimeAssumption DEF RuntimeAssumption, Nothing
<1>4. failures' \in 0..MaxFailures
  BY <1>2, RuntimeAssumption DEF RuntimeAssumption, RecoveryInv, RecoveryTypeOK
<1>5. RecoveryTypeOK'
  BY <1>1, <1>2, <1>3, <1>4 DEF RecoveryInv, RecoveryTypeOK, Stages
<1>6. WholeIsKept'
  <2>1. CASE archive \cap Whole # {}
    BY <1>2, <2>1 DEF WholeIsKept
  <2>2. CASE Listing(live) \in Whole /\ stage \notin Changing
    <3>1. Listing(live)' = Listing(live)
      BY <1>1, <2>2 DEF Listing, Changing
    <3> QED
      BY <1>2, <2>2, <3>1 DEF WholeIsKept, Changing
  <2> QED
    BY <2>1, <2>2 DEF RecoveryInv, WholeIsKept
<1>7. SnapshotExact'
  BY <1>2 DEF SnapshotExact, Changing
<1> QED
  BY <1>5, <1>6, <1>7 DEF RecoveryInv

LEMMA RecoveryPreserved == RecoveryInv /\ [RecoveryNext]_recoveryVars => RecoveryInv'
<1> SUFFICES ASSUME RecoveryInv, [RecoveryNext]_recoveryVars PROVE RecoveryInv'
  OBVIOUS
<1>1. CASE Monitor
  BY <1>1, QuietStepsPreserve, LoopsPreserve DEF Monitor
<1>2. CASE World
  BY <1>2, QuietStepsPreserve, FailuresPreserve DEF World
<1>3. CASE UNCHANGED recoveryVars
  BY <1>3 DEF recoveryVars, monitor, outside, RecoveryInv, RecoveryTypeOK,
              WholeIsKept, SnapshotExact, Listing
<1> QED
  BY <1>1, <1>2, <1>3 DEF RecoveryNext

\* The invariant holds at every moment of every recovery.
THEOREM RecoveryInvariant == RecoverySpec => []RecoveryInv
<1> QED
  BY RecoveryStarts, RecoveryPreserved, PTL DEF RecoverySpec

\* The runtime, the snapshots and the monitor's variables (monitor_health,
\* reinstall_known_good) always have their types.
THEOREM RecoveryTypeCorrect == RecoverySpec => []RecoveryTypeOK
<1>1. RecoveryInv => RecoveryTypeOK
  BY DEF RecoveryInv
<1> QED
  BY <1>1, RecoveryInvariant, PTL

\* Whatever dies or fails, and however often a reinstallation is tried, a
\* whole runtime remains, installed or in a finished snapshot
\* (snapshot_live_runtime).
THEOREM RuntimeKept == RecoverySpec => []RuntimeNeverLost
<1>1. RecoveryInv => RuntimeNeverLost
  BY DEF RecoveryInv, WholeIsKept, RuntimeNeverLost
<1> QED
  BY <1>1, RecoveryInvariant, PTL

\* A finished rollback has put every listed item back as it was
\* (restore_live_runtime).
THEOREM RollbackIsExact == RecoverySpec => []RollbackExact
<1>1. RecoveryInv => RollbackExact
  BY DEF RecoveryInv, SnapshotExact, RollbackExact
<1> QED
  BY <1>1, RecoveryInvariant, PTL

=============================================================================
