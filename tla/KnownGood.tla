----------------------------- MODULE KnownGood -----------------------------
(***************************************************************************)
(* Live recovery by the update manager (monitor_health and what it calls   *)
(* in uu_update_manager.py).  When no task is pending, the monitor probes  *)
(* the bridge twice.  A bridge that is down is reported as a task or, with *)
(* --auto-reinstall, restarted; if that does not help, install.sh of the   *)
(* known-good track runs over the runtime, after a snapshot of it to which *)
(* a failed installation is rolled back.  The monitor may die, and any     *)
(* command of its may fail or time out, at every step.  The specification  *)
(* is RecoverySpec: Spec and its parts are those of UpdateTasks, and the   *)
(* proofs are about both.                                                  *)
(***************************************************************************)
EXTENDS Naturals

CONSTANTS
  Items,        \* files and directories that install.sh writes
  Listed,       \* those that runtime_snapshot_paths lists
  Contents,     \* what an item may be
  Track,        \* the runtime of the known-good track
  Runtimes,     \* runtimes that may be installed to begin with
  Missing,      \* not there
  Torn,         \* written in part
  MaxAttempts,  \* bound: reinstallations in a behaviour
  MaxFailures   \* bound: crashes and failing commands in a behaviour

ASSUME RuntimeAssumption ==
  /\ Listed \subseteq Items
  /\ {Missing, Torn} \subseteq Contents
  /\ Track \in [Items -> Contents] /\ Runtimes \subseteq [Items -> Contents]
  /\ MaxAttempts \in Nat /\ MaxFailures \in Nat

VARIABLES
  live,         \* the installed runtime
  archive,      \* finished snapshots: files and manifest.json
  service,      \* the bridge: "running", "broken" or "stopped"
  option,       \* auto_reinstall_known_good in updater.json
  pending,      \* a task is pending
  status,       \* status.json
  stage,        \* next step of the monitor
  auto,         \* the option, as the monitor read it
  todo,         \* items the present loop has not come to
  copy,         \* files of the snapshot it makes or restores
  before,       \* history: the runtime when the reinstallation began
  attempts, failures

monitor == <<auto, todo, copy, before>>
outside == <<option, pending, attempts, failures>>
recoveryVars == <<live, archive, service, outside, status, stage, monitor>>

Nothing(S) == [i \in S |-> Missing]
Listing(r) == [i \in Listed |-> r[i]]

\* install.sh puts what the track has over what is there.  (What it takes away,
\* the devcon.exe of the vendor, has gone since the first installation; an old
\* file that a directory of the new version does not have is no part of it.)
Over(r) == [i \in Items |-> IF Track[i] = Missing THEN r[i] ELSE Track[i]]

Whole == {Listing(r) : r \in Runtimes} \cup {Listing(Over(r)) : r \in Runtimes}

Stages == {"idle", "probe", "confirm", "restart", "await", "clone", "prepare",
           "snapshot", "install", "judge", "stop", "restore", "settle", "queue"}

RecoveryInit ==
  /\ live \in Runtimes /\ archive = {}
  /\ service \in {"running", "broken", "stopped"}
  /\ option \in BOOLEAN /\ pending = FALSE /\ status = "none"
  /\ stage = "idle"
  /\ auto = FALSE /\ todo = {} /\ copy = Nothing(Listed) /\ before = Nothing(Items)
  /\ attempts = 0 /\ failures = 0

-----------------------------------------------------------------------------
(* Probing *)

\* health: only a bridge that runs looks healthy; one that runs may look bad
\* (a restart storm), and the service manager may not answer.
Probe == {"bad", "indeterminate"} \cup IF service = "running" THEN {"healthy"} ELSE {}

EndRecovery(outcome) ==
  /\ stage' = "idle" /\ status' = outcome
  /\ auto' = FALSE /\ todo' = {} /\ copy' = Nothing(Listed) /\ before' = Nothing(Items)

Goto(next) == stage' = next /\ UNCHANGED <<status, monitor>>

BeginProbing ==
  /\ stage = "idle" /\ ~pending
  /\ stage' = "probe" /\ auto' = option
  /\ UNCHANGED <<live, archive, service, outside, status, todo, copy, before>>

FirstProbe ==
  /\ stage = "probe"
  /\ \E p \in Probe : IF p = "healthy" THEN EndRecovery("healthy") ELSE Goto("confirm")
  /\ UNCHANGED <<live, archive, service, outside>>

\* MUTANT of Confirm: a probe without an answer is left to the next run.
Confirm_Ignores ==
  /\ stage = "confirm"
  /\ \E p \in Probe :
       \/ p \in {"healthy", "indeterminate"} /\ EndRecovery("healthy")
       \/ p = "bad" /\ auto /\ Goto("restart")
       \/ p = "bad" /\ ~auto /\ Goto("queue")
  /\ UNCHANGED <<live, archive, service, outside>>

\* 20 seconds later.
Confirm ==
  /\ stage = "confirm"
  /\ \E p \in Probe :
       \/ p = "healthy" /\ EndRecovery("healthy")
       \/ p = "bad" /\ auto /\ Goto("restart")
       \/ p = "indeterminate" /\ Goto("queue")
       \/ p = "bad" /\ ~auto /\ Goto("queue")
  /\ UNCHANGED <<live, archive, service, outside>>

-----------------------------------------------------------------------------
(* Restart and reinstallation *)

\* The return code of systemctl is not looked at.
RestartBridge ==
  /\ stage = "restart"
  /\ service' \in {"running", "broken", service}
  /\ Goto("await")
  /\ UNCHANGED <<live, archive, outside>>

\* Up to 25 probes in a minute.
AwaitRestart ==
  /\ stage = "await"
  /\ \E p \in Probe : IF p = "healthy" THEN EndRecovery("self-healed") ELSE Goto("clone")
  /\ UNCHANGED <<live, archive, service, outside>>

CloneTrack ==
  /\ stage = "clone"
  /\ Goto("prepare")
  /\ UNCHANGED <<live, archive, service, outside>>

\* Tests, builds and the relay credential; what fails here is reported as not
\* attempted.
Refuse ==
  /\ stage = "prepare"
  /\ Goto("queue")
  /\ UNCHANGED <<live, archive, service, outside>>

Prepared ==
  /\ stage = "prepare" /\ attempts < MaxAttempts
  /\ stage' = "snapshot" /\ todo' = Listed /\ before' = live
  /\ attempts' = attempts + 1
  /\ UNCHANGED <<live, archive, service, option, pending, status, auto, copy, failures>>

SnapshotItem(i) ==
  /\ stage = "snapshot" /\ i \in todo
  /\ copy' = [copy EXCEPT ![i] = live[i]]
  /\ todo' = todo \ {i}
  /\ UNCHANGED <<live, archive, service, outside, status, stage, auto, before>>

\* MUTANT of FinishSnapshot: the manifest is written first, files as they come.
FinishSnapshot_ManifestFirst ==
  /\ stage = "snapshot"
  /\ archive' = archive \cup {copy}
  /\ stage' = "install" /\ todo' = Items /\ service' \in {"stopped", service}
  /\ UNCHANGED <<live, outside, status, auto, copy, before>>

\* manifest.json makes it a snapshot.  Then install.sh starts, and stops the
\* bridge.
FinishSnapshot ==
  /\ stage = "snapshot" /\ todo = {}
  /\ archive' = archive \cup {copy}
  /\ stage' = "install" /\ todo' = Items /\ service' \in {"stopped", service}
  /\ UNCHANGED <<live, outside, status, auto, copy, before>>

InstallItem(i) ==
  /\ stage = "install" /\ i \in todo
  /\ live' = [live EXCEPT ![i] = Over(live)[i]]
  /\ todo' = todo \ {i}
  /\ UNCHANGED <<archive, service, outside, status, stage, auto, copy, before>>

\* install.sh has started the bridge and verified it.
InstallEnds ==
  /\ stage = "install" /\ todo = {}
  /\ service' \in {"running", "broken"}
  /\ Goto("judge")
  /\ UNCHANGED <<live, archive, outside>>

\* What a program that stops in the middle may leave of the item it is at.
Broken(i, kinds) == live' \in {live} \cup {[live EXCEPT ![i] = c] : c \in kinds}

\* install.sh gives up at any item; its exit trap starts the bridge it found
\* running.
InstallFails ==
  /\ stage = "install"
  /\ \/ \E i \in {j \in todo : Track[j] # Missing} : Broken(i, {Torn})
     \/ UNCHANGED live
  /\ service' \in {"running", "broken", "stopped"}
  /\ Goto("stop")
  /\ UNCHANGED <<archive, outside>>

\* One probe, without waiting.
Judge ==
  /\ stage = "judge"
  /\ \E p \in Probe : IF p = "healthy" THEN EndRecovery("reinstalled") ELSE Goto("stop")
  /\ UNCHANGED <<live, archive, service, outside>>

-----------------------------------------------------------------------------
(* Rollback *)

StopForRollback ==
  /\ stage = "stop"
  /\ service' \in {"stopped", service}
  /\ stage' = "restore" /\ todo' = Listed
  /\ UNCHANGED <<live, archive, outside, status, auto, copy, before>>

\* MUTANT of RestoreItem: what was not there stays.
RestoreItem_KeepsNew(i) ==
  /\ stage = "restore" /\ i \in todo
  /\ live' = [live EXCEPT ![i] = IF copy[i] = Missing THEN live[i] ELSE copy[i]]
  /\ todo' = todo \ {i}
  /\ UNCHANGED <<archive, service, outside, status, stage, auto, copy, before>>

\* The item is removed, and copied back if the snapshot has it.
RestoreItem(i) ==
  /\ stage = "restore" /\ i \in todo
  /\ live' = [live EXCEPT ![i] = copy[i]]
  /\ todo' = todo \ {i}
  /\ UNCHANGED <<archive, service, outside, status, stage, auto, copy, before>>

StartRestored ==
  /\ stage = "restore" /\ todo = {}
  /\ service' \in {"running", "broken", service}
  /\ Goto("settle")
  /\ UNCHANGED <<live, archive, outside>>

\* Up to 25 probes in a minute.
Settle ==
  /\ stage = "settle"
  /\ \E p \in Probe : IF p = "healthy" THEN EndRecovery("restored") ELSE Goto("queue")
  /\ UNCHANGED <<live, archive, service, outside>>

\* The context is collected and queue_task writes task.json and pending.json:
\* a monitor that dies between the two has not queued the task.  (The task is
\* named by the minute; that of a minute in which one was already finished, which
\* queue_task would only name in the status, does not occur here.)
QueueTask ==
  /\ stage = "queue"
  /\ pending' = TRUE
  /\ EndRecovery("repair-queued")
  /\ UNCHANGED <<live, archive, service, option, attempts, failures>>

-----------------------------------------------------------------------------
(* Failures, and everybody else *)

\* The item a loop is at when the monitor stops.
StopsAtItem ==
  \/ UNCHANGED live
  \/ stage = "install" /\ \E i \in {j \in todo : Track[j] # Missing} : Broken(i, {Torn})
  \/ stage = "restore" /\ \E i \in todo : Broken(i, {Missing, Torn})

Fault == failures < MaxFailures /\ failures' = failures + 1

\* The process is killed.
MonitorDies ==
  /\ stage # "idle" /\ Fault
  /\ StopsAtItem
  /\ EndRecovery(status)
  /\ UNCHANGED <<archive, service, option, pending, attempts>>

\* A command exceeds its time, git or a file operation fails: main reports it
\* and ends.  There is no rollback.
Raises ==
  /\ stage # "idle" /\ Fault
  /\ StopsAtItem
  /\ EndRecovery("error")
  /\ UNCHANGED <<archive, service, option, pending, attempts>>

\* The bridge fails, systemd restarts it, the desktop starts or stops it.
ServiceChanges ==
  /\ service' \in {"running", "broken", "stopped"}
  /\ UNCHANGED <<live, archive, outside, status, stage, monitor>>

\* The operator edits updater.json.
OptionChanges ==
  /\ option' = ~option
  /\ UNCHANGED <<live, archive, service, pending, attempts, failures,
                 status, stage, monitor>>

\* The other commands of the manager write pending.json (queue_task,
\* save_task) or remove it (finish_task); see module UpdateTasks.
TasksChange ==
  /\ stage = "idle"
  /\ pending' = ~pending
  /\ UNCHANGED <<live, archive, service, option, attempts, failures,
                 status, stage, monitor>>

Monitor ==
  \/ BeginProbing \/ FirstProbe \/ Confirm \/ RestartBridge \/ AwaitRestart
  \/ CloneTrack \/ Refuse \/ Prepared \/ FinishSnapshot
  \/ \E i \in Items : SnapshotItem(i) \/ InstallItem(i) \/ RestoreItem(i)
  \/ InstallEnds \/ InstallFails \/ Judge
  \/ StopForRollback \/ StartRestored \/ Settle \/ QueueTask

World == MonitorDies \/ Raises \/ ServiceChanges \/ OptionChanges \/ TasksChange

RecoveryNext == Monitor \/ World

RecoverySpec == RecoveryInit /\ [][RecoveryNext]_recoveryVars

\* The timer starts the monitor again and again, and it goes on with what it
\* does: no command waits longer than its time-out.
FairRecovery == RecoverySpec /\ WF_recoveryVars(Monitor)

-----------------------------------------------------------------------------
(* Correctness *)

RecoveryTypeOK ==
  /\ live \in [Items -> Contents] /\ archive \subseteq [Listed -> Contents]
  /\ service \in {"running", "broken", "stopped"}
  /\ option \in BOOLEAN /\ pending \in BOOLEAN /\ auto \in BOOLEAN
  /\ status \in {"none", "healthy", "self-healed", "reinstalled", "restored",
                 "repair-queued", "error"}
  /\ stage \in Stages /\ todo \subseteq Items
  /\ copy \in [Listed -> Contents] /\ before \in [Items -> Contents]
  /\ attempts \in 0..MaxAttempts /\ failures \in 0..MaxFailures

\* However an installation or its rollback ends, and however often it is
\* tried again over what an earlier one left, a whole runtime is left: the
\* installed one or a finished snapshot (snapshot_live_runtime before
\* install.sh, with the manifest last).
RuntimeNeverLost ==
  Listing(live) \in Whole \/ archive \cap Whole # {}

\* What a rollback has restored is the runtime this reinstallation began
\* with: every listed item as it was, and none that was not there
\* (restore_live_runtime).
RollbackExact ==
  stage = "settle" => Listing(live) = Listing(before)

\* Once commands no longer fail, a bridge that is down, also one that a
\* recovery stopped and did not live to start again, comes up or becomes a
\* task (monitor_health).
OutageHandled ==
  service # "running" ~> service = "running" \/ pending

\* A report that the previous runtime was restored means the runtime that was
\* there before the reinstallation (the message of monitor_health).
RestoredMeansPrevious ==
  [][stage = "settle" /\ status' = "restored" => live = before]_recoveryVars

-----------------------------------------------------------------------------
(* The inductive invariant behind the proofs.                              *)

Changing == {"install", "judge", "stop", "restore", "settle"}

\* Nothing is changed before a snapshot of a whole runtime is finished.
WholeIsKept ==
  \/ archive \cap Whole # {}
  \/ Listing(live) \in Whole /\ stage \notin Changing

SnapshotExact ==
  /\ stage = "snapshot" =>
       live = before /\ todo \subseteq Listed
                     /\ \A i \in Listed \ todo : copy[i] = live[i]
  /\ stage \in Changing => copy = Listing(before)
  /\ stage = "restore" => todo \subseteq Listed /\ \A i \in Listed \ todo : live[i] = copy[i]
  /\ stage = "settle" => Listing(live) = Listing(before)

RecoveryInv == RecoveryTypeOK /\ WholeIsKept /\ SnapshotExact

=============================================================================
