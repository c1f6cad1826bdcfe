----------------------------- MODULE Promotion -----------------------------
(***************************************************************************)
(* The guarded promotion of an accepted UU release into the live Wine      *)
(* prefix.  Two programs take part.  The manager (uu_update_manager.py,    *)
(* run by a timer or by an operator, one at a time under a file lock)      *)
(* queues the task and starts the helper; the helper                       *)
(* (promote-approved-release.py) stops the bridge, copies the prefix, runs *)
(* the installer over it and either commits or puts the copy back.  Both   *)
(* may die between any two steps, and the next manager run recovers from   *)
(* the durable marker alone.                                               *)
(*                                                                         *)
(* `prefix' is what the live prefix path holds; the four outcomes of the   *)
(* installer are told apart because different checks of `apply' must       *)
(* reject them.  An untested deployment is represented by what is wrong    *)
(* with it, never by file contents.                                        *)
(***************************************************************************)
EXTENDS Naturals

CONSTANTS
  MaxFaults,    \* bound: failing commands, crashes and reboots in a behaviour
  MaxRetries    \* bound: operator retries of a blocked task

ASSUME BoundsAssumption == MaxFaults \in Nat /\ MaxRetries \in Nat

VARIABLES
  prefix,       \* the live Wine prefix
  snapshot,     \* work_dir/snapshot-prefix
  torn,         \* the snapshot was copied while the bridge was running
  workDir,      \* work_dir exists
  result,       \* status in work_dir/result.json
  marker,       \* phase in promotion-in-progress.json
  entered,      \* history: a transaction on this task directory was opened
  bridge,       \* uu-remote-bridge.service
  verb,         \* command the helper was started with
  helper,       \* next step of the helper
  manager,      \* next step of the manager
  taskPhase,    \* phase in tasks/<id>/task.json
  outcome,      \* status in the task's "result" field
  pending,      \* task named by pending.json
  retired,      \* tasks/retired/<id>-<time>: the directory moved there last
  faults,
  retries

files == <<prefix, snapshot, torn, workDir, result, marker, entered>>
tasks == <<taskPhase, outcome, pending>>
moved == <<retired, retries>>
bounds == <<faults, moved>>
vars == <<files, bridge, verb, helper, manager, tasks, bounds>>

-----------------------------------------------------------------------------
(* The values the state takes.                                             *)

Installed == {"good", "loginLost", "wrongManifest", "unstable"}
Prefixes  == {"absent", "stub", "old", "mixed"} \cup Installed
ApplySteps == {"preflight", "mkdir", "mark1", "stop", "copy", "copied", "mark2",
               "install", "installing", "check", "mark3", "start", "verify",
               "commit", "report", "fail"}
RecoverSteps == {"rCheck", "rStop", "rAside", "rRestore", "rStart", "rUnmark"}
Exits == {"exit0", "exit1"}
ManagerSteps == {"idle", "recovering", "promoting", "unpend", "queueing",
                 "requeue", "queueingNow", "promoteNow"}
TaskPhases == {"none", "queued", "deferred", "waiting", "running", "promoted",
               "blocked"}

\* A task directory: its work directory, and whether it has been in use.
TaskDirs == [workDir : BOOLEAN, snapshot : Prefixes \cup {"none"}, torn : BOOLEAN,
             result : {"none", "promoted", "failed"}, entered : BOOLEAN]
Dir(w, s, t, r, e) ==
  [workDir |-> w, snapshot |-> s, torn |-> t, result |-> r, entered |-> e]
NoDir == Dir(FALSE, "none", FALSE, "none", FALSE)

\* Steps of `apply' before its try block: an exception just ends the helper.
BeforeTry == {"preflight", "mkdir", "mark1"}
\* Steps inside the try block that run a command or write a file.
InsideTry == {"stop", "copy", "copied", "mark2", "install", "installing",
              "mark3", "start", "verify", "report"}

TypeOK ==
  /\ prefix \in Prefixes
  /\ snapshot \in Prefixes \cup {"none"}
  /\ torn \in BOOLEAN
  /\ workDir \in BOOLEAN
  /\ result \in {"none", "promoted", "failed"}
  /\ marker \in {"none", "preparing", "snapshot-ready", "verifying"}
  /\ entered \in BOOLEAN
  /\ bridge \in {"up", "down"}
  /\ verb \in {"apply", "recover"}
  /\ helper \in {"none"} \cup ApplySteps \cup RecoverSteps \cup Exits
  /\ manager \in ManagerSteps
  /\ taskPhase \in TaskPhases
  /\ outcome \in {"none", "promoted", "failed"}
  /\ pending \in {"none", "promotion", "other"}
  /\ retired \in TaskDirs
  /\ faults \in 0..MaxFaults
  /\ retries \in 0..MaxRetries

\* A healthy host with the old release installed and no maintenance under way.
Init ==
  /\ prefix = "old" /\ bridge = "up"
  /\ snapshot = "none" /\ torn = FALSE
  /\ workDir = FALSE /\ result = "none" /\ marker = "none" /\ entered = FALSE
  /\ verb = "apply" /\ helper = "none" /\ manager = "idle"
  /\ taskPhase = "none" /\ outcome = "none" /\ pending = "none"
  /\ retired = NoDir
  /\ faults = 0 /\ retries = 0

-----------------------------------------------------------------------------
(* The helper.  At(s) is the frame of every helper step.                   *)

At(s) == helper = s /\ UNCHANGED <<verb, manager, tasks, moved>>

\* The except clause of `apply': roll back when a marker is on disk.
Rescue == IF marker # "none" THEN "rCheck" ELSE "fail"

\* What `recover' returns to: apply's except clause, or the exit of the
\* command that the manager started.
RecoverReturn == IF verb = "apply" THEN "fail" ELSE "exit0"
RecoverRaise  == IF verb = "apply" THEN "fail" ELSE "exit1"

Preflight ==
  /\ At("preflight")
  /\ helper' = IF marker = "none" /\ prefix = "old" /\ bridge = "up"
                 THEN "mkdir" ELSE "exit1"
  /\ UNCHANGED <<files, bridge, faults>>

\* MUTANT: mkdir(exist_ok=True).
MakeWorkDir_Reuse ==
  /\ At("mkdir")
  /\ workDir' = TRUE /\ helper' = "mark1"
  /\ UNCHANGED <<prefix, snapshot, torn, result, marker, entered, bridge, faults>>

\* mkdir(exist_ok=False): a work directory that exists is an error.
MakeWorkDir ==
  /\ At("mkdir")
  /\ helper' = IF workDir THEN "exit1" ELSE "mark1"
  /\ workDir' = TRUE
  /\ UNCHANGED <<prefix, snapshot, torn, result, marker, entered, bridge, faults>>

MarkPreparing ==
  /\ At("mark1")
  /\ marker' = "preparing" /\ entered' = TRUE
  /\ helper' = "stop"
  /\ UNCHANGED <<prefix, snapshot, torn, workDir, result, bridge, faults>>

StopBridge ==
  /\ At("stop")
  /\ bridge' = "down" /\ helper' = "copy"
  /\ UNCHANGED <<files, faults>>

\* MUTANT: the copy is made under its final name.
CopyPrefix_InPlace ==
  /\ At("copy")
  /\ helper' = "copied"
  /\ torn' = (bridge = "up") /\ snapshot' = "mixed"
  /\ UNCHANGED <<prefix, workDir, result, marker, entered, bridge, faults>>

\* cp -a into snapshot-prefix.partial; the copy is torn when Wine runs.
CopyPrefix ==
  /\ At("copy")
  /\ helper' = "copied"
  /\ torn' = (bridge = "up")
  /\ UNCHANGED <<prefix, snapshot, workDir, result, marker, entered, bridge, faults>>

\* The finished copy gets its final name in one rename.
NameSnapshot ==
  /\ At("copied")
  /\ snapshot' = prefix /\ helper' = "mark2"
  /\ UNCHANGED <<prefix, torn, workDir, result, marker, entered, bridge, faults>>

MarkSnapshotReady ==
  /\ At("mark2")
  /\ marker' = "snapshot-ready" /\ helper' = "install"
  /\ UNCHANGED <<prefix, snapshot, torn, workDir, result, entered, bridge, faults>>

InstallerStarts ==
  /\ At("install")
  /\ prefix' = "mixed" /\ helper' = "installing"
  /\ UNCHANGED <<snapshot, torn, workDir, result, marker, entered, bridge, faults>>

InstallerEnds ==
  /\ At("installing")
  /\ prefix' \in Installed /\ helper' = "check"
  /\ UNCHANGED <<snapshot, torn, workDir, result, marker, entered, bridge, faults>>

\* MUTANT: the login comparison is dropped.
CheckInstalled_NoLogin ==
  /\ At("check")
  /\ helper' = IF prefix = "wrongManifest" THEN Rescue ELSE "mark3"
  /\ UNCHANGED <<files, bridge, faults>>

\* Login state byte for byte, then the hash of the installed manifest.
CheckInstalled ==
  /\ At("check")
  /\ helper' = IF prefix \in {"loginLost", "wrongManifest"} THEN Rescue ELSE "mark3"
  /\ UNCHANGED <<files, bridge, faults>>

MarkVerifying ==
  /\ At("mark3")
  /\ marker' = "verifying" /\ helper' = "start"
  /\ UNCHANGED <<prefix, snapshot, torn, workDir, result, entered, bridge, faults>>

StartBridge ==
  /\ At("start")
  /\ bridge' = "up" /\ helper' = "verify"
  /\ UNCHANGED <<files, faults>>

\* MUTANT: the service is looked at, the runtime is not.
VerifyRuntime_ServiceOnly ==
  /\ At("verify")
  /\ helper' = IF bridge = "down" THEN Rescue ELSE "commit"
  /\ UNCHANGED <<files, bridge, faults>>

\* Two runtime checks around the stability interval and the XRDP comparison;
\* a failure of a sound runtime is a fault (InsideTry).
VerifyRuntime ==
  /\ At("verify")
  /\ helper' = IF prefix = "unstable" \/ bridge = "down" THEN Rescue ELSE "commit"
  /\ UNCHANGED <<files, bridge, faults>>

Commit ==
  /\ At("commit")
  /\ marker' = "none" /\ helper' = "report"
  /\ UNCHANGED <<prefix, snapshot, torn, workDir, result, entered, bridge, faults>>

ReportPromoted ==
  /\ At("report")
  /\ result' = "promoted" /\ helper' = "exit0"
  /\ UNCHANGED <<prefix, snapshot, torn, workDir, marker, entered, bridge, faults>>

ReportFailed ==
  /\ At("fail")
  /\ result' = "failed" /\ helper' = "exit1"
  /\ UNCHANGED <<prefix, snapshot, torn, workDir, marker, entered, bridge, faults>>

(* recover, called by apply's except clause and by the recover command.    *)

\* MUTANT: nothing to put back, nothing to start again.
RecoverCheck_NoRestart ==
  /\ At("rCheck")
  /\ helper' = IF snapshot # "none" THEN "rStop" ELSE "rUnmark"
  /\ UNCHANGED <<files, bridge, faults>>

RecoverCheck ==
  /\ At("rCheck")
  /\ helper' = IF snapshot # "none" THEN "rStop" ELSE "rStart"
  /\ UNCHANGED <<files, bridge, faults>>

RecoverStop ==
  /\ At("rStop")
  /\ bridge' = "down" /\ helper' = "rAside"
  /\ UNCHANGED <<files, faults>>

\* MUTANT: only a prefix with an installation in it is moved away.
MoveAside_KeepsStub ==
  /\ At("rAside")
  /\ prefix' = (IF prefix = "stub" THEN "stub" ELSE "absent") /\ helper' = "rRestore"
  /\ UNCHANGED <<snapshot, torn, workDir, result, marker, entered, bridge, faults>>

\* Whatever is at the prefix path moves to failed-prefix-<time>.
MoveAside ==
  /\ At("rAside")
  /\ prefix' = "absent" /\ helper' = "rRestore"
  /\ UNCHANGED <<snapshot, torn, workDir, result, marker, entered, bridge, faults>>

\* Renaming a directory over a directory that is not empty is an error.
RestoreSnapshot ==
  /\ At("rRestore")
  /\ IF prefix = "absent"
       THEN prefix' = snapshot /\ snapshot' = "none" /\ helper' = "rStart"
       ELSE UNCHANGED <<prefix, snapshot>> /\ helper' = RecoverRaise
  /\ UNCHANGED <<torn, workDir, result, marker, entered, bridge, faults>>

\* bridge_was_active is always true: preflight refuses an inactive bridge.
RecoverStart ==
  /\ At("rStart")
  /\ bridge' = "up" /\ helper' = "rUnmark"
  /\ UNCHANGED <<files, faults>>

RecoverUnmark ==
  /\ At("rUnmark")
  /\ marker' = "none" /\ helper' = RecoverReturn
  /\ UNCHANGED <<prefix, snapshot, torn, workDir, result, entered, bridge, faults>>

\* A command of the current step fails or times out, or a write fails.  A
\* failing stop may have stopped the service all the same.
StepFails ==
  /\ faults < MaxFaults /\ faults' = faults + 1
  /\ \/ At(helper) /\ helper \in BeforeTry /\ helper' = "exit1"
     \/ At(helper) /\ helper \in InsideTry /\ helper' = Rescue
     \/ At(helper) /\ helper \in RecoverSteps \ {"rCheck"} /\ helper' = RecoverRaise
  /\ bridge' \in IF helper \in {"stop", "rStop"} THEN {bridge, "down"} ELSE {bridge}
  /\ UNCHANGED files

HelperStep ==
  \/ Preflight \/ MakeWorkDir \/ MarkPreparing \/ StopBridge
  \/ CopyPrefix \/ NameSnapshot \/ MarkSnapshotReady
  \/ InstallerStarts \/ InstallerEnds \/ CheckInstalled
  \/ MarkVerifying \/ StartBridge \/ VerifyRuntime \/ Commit
  \/ ReportPromoted \/ ReportFailed
  \/ RecoverCheck \/ RecoverStop \/ MoveAside \/ RestoreSnapshot
  \/ RecoverStart \/ RecoverUnmark

-----------------------------------------------------------------------------
(* The manager.  Every command holds the maintenance lock, so at most one   *)
(* of them is under way; each starts at "idle".                            *)

Start(v, step) == verb' = v /\ helper' = step

\* monitor and promote-now look at the marker before anything else.
RecoverInterrupted ==
  /\ manager = "idle" /\ marker # "none"
  /\ Start("recover", "rCheck") /\ manager' = "recovering"
  /\ UNCHANGED <<files, bridge, tasks, bounds>>

\* The helper left: "recovered" is recorded in the task before pending.json
\* goes; a failing helper leaves both for the next run.
RecoveryReturns ==
  /\ manager = "recovering" /\ helper \in Exits
  /\ IF helper = "exit0"
       THEN taskPhase' = "blocked" /\ manager' = "unpend"
       ELSE UNCHANGED taskPhase /\ manager' = "idle"
  /\ helper' = "none"
  /\ UNCHANGED <<files, bridge, verb, outcome, pending, bounds>>

\* Recent or unverifiable UU activity keeps the live connection untouched.
DeferForActivity ==
  /\ manager = "idle" /\ marker = "none" /\ pending = "promotion"
  /\ taskPhase' = "waiting"
  /\ UNCHANGED <<files, bridge, verb, helper, manager, outcome, pending, bounds>>

RunPromotion ==
  /\ manager \in {"idle", "promoteNow"} /\ marker = "none" /\ pending = "promotion"
  /\ taskPhase' = "running"
  /\ Start("apply", "preflight") /\ manager' = "promoting"
  /\ UNCHANGED <<files, bridge, outcome, pending, bounds>>

\* Without a result.json the manager makes up a failed one.
PromotionReturns ==
  /\ manager = "promoting" /\ helper \in Exits
  /\ taskPhase' = IF helper = "exit0" /\ result = "promoted" THEN "promoted" ELSE "blocked"
  /\ outcome' = IF result = "none" THEN "failed" ELSE result
  /\ helper' = "none" /\ manager' = "unpend"
  /\ UNCHANGED <<files, bridge, verb, pending, bounds>>

DropPending ==
  /\ manager = "unpend"
  /\ pending' = IF pending = "promotion" THEN "none" ELSE pending
  /\ manager' = "idle"
  /\ UNCHANGED <<files, bridge, verb, helper, taskPhase, outcome, bounds>>

\* check: the installed manifest is older than the accepted release.
UpdateNeeded == prefix \notin Installed

QueuePhase == IF pending = "other" THEN "deferred" ELSE "queued"

\* queue_promotion: task.json first; a finished task is not queued again.
QueuePromotion ==
  /\ manager = "idle" /\ UpdateNeeded
  /\ taskPhase \notin {"promoted", "blocked"}
  /\ taskPhase' = QueuePhase
  /\ manager' = IF pending = "other" THEN "idle" ELSE "queueing"
  /\ UNCHANGED <<files, bridge, verb, helper, outcome, pending, bounds>>

WritePending ==
  /\ manager \in {"queueing", "queueingNow"}
  /\ pending' = "promotion"
  /\ manager' = IF manager = "queueing" THEN "idle" ELSE "promoteNow"
  /\ UNCHANGED <<files, bridge, verb, helper, taskPhase, outcome, bounds>>

\* check: an unknown upstream release replaces whatever is pending.
QueueRepair ==
  /\ manager = "idle" /\ pending' = "other"
  /\ UNCHANGED <<files, bridge, verb, helper, manager, taskPhase, outcome, bounds>>

FinishRepair ==
  /\ manager = "idle" /\ marker = "none" /\ pending = "other"
  /\ pending' = "none"
  /\ UNCHANGED <<files, bridge, verb, helper, manager, taskPhase, outcome, bounds>>

\* The task directory becomes directory d.
PutInPlace(d) ==
  /\ workDir' = d.workDir /\ snapshot' = d.snapshot /\ torn' = d.torn
  /\ result' = d.result /\ entered' = d.entered

\* promote-now on a blocked task whose tooling changed: the task directory,
\* and the work directory in it, moves to tasks/retired.
RetireBlocked ==
  /\ manager = "idle" /\ marker = "none" /\ pending = "none"
  /\ taskPhase = "blocked" /\ outcome = "failed"
  /\ retries < MaxRetries /\ retries' = retries + 1
  /\ retired' = Dir(workDir, snapshot, torn, result, entered)
  /\ PutInPlace(NoDir)
  /\ taskPhase' = "none" /\ outcome' = "none"
  /\ manager' = "requeue"
  /\ UNCHANGED <<prefix, marker, bridge, verb, helper, pending, faults>>

\* The check that promote-now runs queues the release again, or gives up.
RequeueRetired ==
  /\ manager = "requeue"
  /\ IF UpdateNeeded THEN taskPhase' = "queued" /\ manager' = "queueingNow"
                     ELSE UNCHANGED taskPhase /\ manager' = "idle"
  /\ UNCHANGED <<files, bridge, verb, helper, outcome, pending, bounds>>

\* It raises: the directory comes back, unless the check has made a new one.
RequeueFails ==
  /\ manager = "requeue"
  /\ manager' = "idle"
  /\ \/ PutInPlace(retired) /\ taskPhase' = "blocked" /\ outcome' = "failed"
     \/ UNCHANGED <<workDir, snapshot, torn, result, entered, taskPhase, outcome>>
  /\ UNCHANGED <<prefix, marker, bridge, verb, helper, pending, bounds>>

ManagerStep ==
  \/ RecoverInterrupted \/ RecoveryReturns
  \/ DeferForActivity \/ RunPromotion \/ PromotionReturns \/ DropPending
  \/ QueuePromotion \/ WritePending \/ QueueRepair \/ FinishRepair
  \/ RetireBlocked \/ RequeueRetired \/ RequeueFails

-----------------------------------------------------------------------------
(* The surroundings.                                                       *)

\* The bridge creates the prefix directory when it starts without one.
AfterBridgeStart == IF prefix = "absent" THEN "stub" ELSE prefix

\* The manager and the helper die together (service stop, Ctrl-C, timeout).
Crash ==
  /\ manager # "idle"
  /\ faults < MaxFaults /\ faults' = faults + 1
  /\ helper' = "none" /\ manager' = "idle"
  /\ UNCHANGED <<files, bridge, verb, tasks, moved>>

\* The host reboots; the enabled bridge service comes up by itself.
Reboot ==
  /\ faults < MaxFaults /\ faults' = faults + 1
  /\ helper' = "none" /\ manager' = "idle"
  /\ bridge' = "up" /\ prefix' = AfterBridgeStart
  /\ UNCHANGED <<snapshot, torn, workDir, result, marker, entered, verb, tasks, moved>>

\* The helper alone is killed; the manager sees a failed command.
HelperKilled ==
  /\ helper \in ApplySteps \cup RecoverSteps
  /\ faults < MaxFaults /\ faults' = faults + 1
  /\ helper' = "exit1"
  /\ UNCHANGED <<files, bridge, verb, manager, tasks, moved>>

\* Somebody opens the controller window: it starts a bridge that is down.
DesktopStartsBridge ==
  /\ bridge = "down"
  /\ faults < MaxFaults /\ faults' = faults + 1
  /\ bridge' = "up" /\ prefix' = AfterBridgeStart
  /\ torn' = (torn \/ helper = "copied")
  /\ UNCHANGED <<snapshot, workDir, result, marker, entered, verb, helper,
                 manager, tasks, moved>>

Surroundings == StepFails \/ Crash \/ Reboot \/ HelperKilled \/ DesktopStartsBridge

Next == HelperStep \/ ManagerStep \/ Surroundings

\* A started helper runs on and the manager handles its exit.  The monitor
\* timer fires every 15 minutes and the lock it needs is free again and again,
\* so an interrupted promotion that stays is taken up (strong fairness: a
\* check may hold the lock when the timer fires).
Fairness ==
  /\ WF_vars(HelperStep)
  /\ SF_vars(RecoverInterrupted)
  /\ WF_vars(RecoveryReturns \/ PromotionReturns \/ DropPending \/ WritePending
             \/ RequeueRetired \/ RequeueFails)

Spec == Init /\ [][Next]_vars
FairSpec == Spec /\ Fairness

-----------------------------------------------------------------------------
(* Correctness.                                                            *)

\* Without a marker nothing else will repair the prefix, so it must be the
\* old release, complete, or the new one with its login kept and verified
\* (the promise of `apply' and `recover' across every crash).  A copy made of a
\* prefix in use counts as the old release here; SnapshotAtRest is about that.
LivePrefixSound == marker = "none" => prefix \in {"old", "good"}

\* The complete old prefix exists somewhere until the new one is committed:
\* at the prefix path, or as the snapshot that `recover' will find.
OldReleaseKept ==
  \/ prefix = "old"
  \/ snapshot = "old"
  \/ marker = "none" /\ prefix = "good"

\* No transaction ends with the bridge left stopped: with no marker and no
\* helper at work, the service is up again.
BridgeNotStranded == marker = "none" /\ helper \in {"none"} \cup Exits => bridge = "up"

\* A task directory carries at most one transaction.  After a crash has lost
\* the record of a recovered task the monitor starts the helper again, and
\* only the work directory that is still there keeps the prefix untouched.
OneTransactionPerTask == [][marker = "none" /\ marker' # "none" => ~entered]_vars

\* The commit is final: no later step of any program takes a committed
\* release away or opens a transaction on it again.
CommitFinal ==
  [][marker = "none" /\ prefix = "good" => marker' = "none" /\ prefix' = "good"]_vars

\* The refinement: outside a transaction the live prefix is the release; inside
\* one it still counts as the old release.
Upgrade == INSTANCE AtomicUpgrade WITH
  release <- IF marker = "none" THEN prefix ELSE "old",
  busy <- marker # "none"

\* Manager and helper with all their crashes implement the atomic upgrade: a
\* commit is one step, and every other end of a transaction is an abort.
ImplementsUpgrade == Upgrade!Spec

\* Once faults stop, an interrupted transaction is resolved by the monitor
\* and the bridge is back.
InterruptionResolved ==
  (marker # "none") ~> (marker = "none" /\ bridge = "up" /\ prefix \in {"old", "good"})

(* What the documentation says and the code does not keep.                 *)

\* docs/automatic-updates.md: the bridge is stopped first and the prefix is
\* copied after that, so the snapshot is a copy at rest.
SnapshotAtRest == snapshot # "none" => ~torn

-----------------------------------------------------------------------------
(* The inductive invariant behind the safety properties.  It says what the  *)
(* prefix and the snapshot hold at each step of the helper.                *)

WhoRuns ==
  /\ manager = "recovering" => verb = "recover" /\ helper \in RecoverSteps \cup Exits
  /\ manager = "promoting" => verb = "apply" /\ helper # "none"
  /\ manager \notin {"recovering", "promoting"} => helper = "none"
  /\ manager = "requeue" => marker = "none"

BeforeSnapshot == {"mark1", "stop", "copy", "copied"}
AfterSnapshot  == {"mark2", "install", "installing", "check", "mark3", "start",
                   "verify", "commit"}

HelperKnows ==
  /\ helper \in {"preflight", "mkdir", "mark1", "report"} => marker = "none"
  /\ helper \in RecoverSteps \cup AfterSnapshot \cup (BeforeSnapshot \ {"mark1"})
       => marker # "none"
  /\ helper \in BeforeSnapshot \cup AfterSnapshot => workDir
  /\ helper = "mark1" => ~entered
  /\ helper \in BeforeSnapshot => snapshot = "none"
  /\ helper \in BeforeSnapshot \cup {"mkdir", "mark2"} => prefix = "old"
  /\ helper \in AfterSnapshot \cup {"rStop", "rAside", "rRestore"} => snapshot = "old"
  /\ helper = "check" => prefix \in Installed
  /\ helper \in {"mark3", "start", "verify"} => prefix \in {"good", "unstable"}
  /\ helper \in {"commit", "report"} => prefix = "good"
  /\ helper \in {"commit", "rUnmark"} => bridge = "up"
  /\ helper \in {"rStart", "rUnmark"} => prefix = "old" /\ snapshot = "none"

MarkerKnows ==
  /\ marker # "none" => snapshot = "old" \/ (snapshot = "none" /\ prefix = "old")
  /\ marker = "none" => prefix \in {"old", "good"} /\ bridge = "up"
  /\ ~workDir => snapshot = "none" /\ ~entered
  /\ ~retired.workDir => retired.snapshot = "none" /\ ~retired.entered

\* At every step of the helper the old release is where recovery looks for it.
IInv == TypeOK /\ WhoRuns /\ HelperKnows /\ MarkerKnows

=============================================================================
