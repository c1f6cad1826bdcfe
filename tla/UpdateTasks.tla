---------------------------- MODULE UpdateTasks ----------------------------
(***************************************************************************)
(* The repair tasks of the update manager (uu_update_manager.py).  A task   *)
(* has its record in tasks/<id>/task.json; one task at a time is named, by  *)
(* a second copy of its record, in pending.json.  `check' queues a task for *)
(* an unknown upstream release, `monitor' queues one for a relay that stays *)
(* unhealthy and otherwise lets Codex work on the pending task, `retry'     *)
(* queues a task again on the operator's word.  The commands exclude each   *)
(* other by a lock, but each writes its files one after the other and may   *)
(* die in between.                                                          *)
(*                                                                          *)
(* A Codex thread is represented by the model it was opened with, a retry   *)
(* time by whether it lies ahead, and status.json by its active_task: no    *)
(* repair command reads more of it.  Promotions are in module Promotion.    *)
(***************************************************************************)
EXTENDS Naturals

CONSTANTS
  Releases,     \* unknown upstream releases: a task identity each
  Minutes,      \* minutes in which a runtime-health task may be named
  Models,       \* Codex models the operator may configure
  None,         \* no task, no thread, no model
  MaxFaults     \* bound: crashes in a behaviour

ASSUME NoneAssumption ==
  /\ None \notin Releases \cup Minutes \cup Models
  /\ Minutes # {} /\ Models # {}
  /\ MaxFaults \in Nat

VARIABLES
  disk,         \* tasks/<id>/task.json
  pendId,       \* "id" of pending.json
  pendRec,      \* the rest of pending.json
  active,       \* "active_task" of status.json
  config,       \* codex_model in updater.json
  endpoint,     \* the release the official endpoint offers
  minute,       \* the current minute
  step,         \* next step of the command that holds the lock
  after,        \* the step that follows a save
  job,          \* the command's task: id
  rec,          \* the command's task: record
  using,        \* codex_model of the command
  faults

store == <<disk, pendId, pendRec>>
world == <<config, endpoint, minute, faults>>
command == <<job, rec, using>>
vars == <<store, active, world, step, after, command>>

-----------------------------------------------------------------------------
(* The values the state takes.                                             *)

Ids == Releases \cup Minutes
Terminal == {"blocked", "no-change", "ready-for-review"}
Deferred == {"codex-budget-deferred", "codex-sandbox-deferred"}
Retryable == Deferred \cup {"blocked", "codex-interrupted"}
Phases == {"absent", "queued", "codex-model-reset", "codex-running"}
            \cup Terminal \cup Retryable

Records == [phase : Phases, thread : Models \cup {None},
            model : Models \cup {None}, due : {"now", "later"}]
Rec(p, th, m, d) == [phase |-> p, thread |-> th, model |-> m, due |-> d]
Absent == Rec("absent", None, None, "now")
Fresh  == Rec("queued", None, None, "now")

Steps == {"idle", "check", "decide", "name", "queue", "gate", "disk", "pend",
          "launch", "codex", "started", "verify", "unpend", "report"}

TypeOK ==
  /\ disk \in [Ids -> Records]
  /\ pendId \in Ids \cup {None} /\ pendRec \in Records
  /\ active \in Ids \cup {None}
  /\ config \in Models /\ endpoint \in Releases \cup {None} /\ minute \in Minutes
  /\ step \in Steps /\ after \in Steps
  /\ job \in Ids \cup {None} /\ rec \in Records /\ using \in Models \cup {None}
  /\ faults \in 0..MaxFaults

Init ==
  /\ disk = [t \in Ids |-> Absent]
  /\ pendId = None /\ pendRec = Absent /\ active = None
  /\ config \in Models /\ endpoint = None /\ minute \in Minutes
  /\ step = "idle" /\ after = "idle"
  /\ job = None /\ rec = Absent /\ using = None
  /\ faults = 0

-----------------------------------------------------------------------------
(* Writing the files.  A saved record goes to task.json and then to         *)
(* pending.json; `after' is what the command does next.                     *)

\* main: the command ends; an exception leaves only "error" in status.json.
End ==
  /\ step' = "idle" /\ after' = "idle"
  /\ job' = None /\ rec' = Absent /\ using' = None

Save(r, next) == rec' = r /\ step' = "disk" /\ after' = next

SaveDisk ==
  /\ step = "disk"
  /\ disk' = [disk EXCEPT ![job] = rec]
  /\ step' = "pend"
  /\ UNCHANGED <<pendId, pendRec, active, world, after, command>>

SavePending ==
  /\ step = "pend"
  /\ pendId' = job /\ pendRec' = rec
  /\ step' = after
  /\ UNCHANGED <<disk, active, world, after, command>>

Report ==
  /\ step = "report"
  /\ active' = job
  /\ End
  /\ UNCHANGED <<store, world>>

-----------------------------------------------------------------------------
(* check                                                                   *)

Check ==
  /\ step = "idle"
  /\ step' = "check" /\ using' = config
  /\ UNCHANGED <<store, active, world, after, job, rec>>

\* The fetch, the probe or the download fails, or the installed and approved
\* releases need nothing.
CheckEnds ==
  /\ step = "check"
  /\ End
  /\ UNCHANGED <<store, active, world>>

\* The installer on offer has the hash of no approved manifest.
UnknownRelease ==
  /\ step = "check" /\ endpoint # None
  /\ job' = endpoint /\ step' = "decide"
  /\ UNCHANGED <<store, active, world, after, rec, using>>

\* A finished task is only named in the status.
RetainResult ==
  /\ step \in {"decide", "queue"} /\ disk[job].phase \in Terminal
  /\ step' = "report"
  /\ UNCHANGED <<store, active, world, after, command>>

\* MUTANT: a finished task is queued once more.
ResumeTask_Finished ==
  /\ step \in {"decide", "queue"}
  /\ disk[job].phase # "absent"
  /\ rec' = Rec("queued", disk[job].thread, disk[job].model, disk[job].due) /\ step' = "pend" /\ after' = "report"
  /\ UNCHANGED <<store, active, world, job, using>>

\* An unfinished one becomes the pending task, whatever was pending before.
ResumeTask ==
  /\ step \in {"decide", "queue"}
  /\ disk[job].phase \notin Terminal \cup {"absent"}
  /\ rec' = disk[job] /\ step' = "pend" /\ after' = "report"
  /\ UNCHANGED <<store, active, world, job, using>>

\* A new release is staged before its task is queued; staging may time out.
StageCandidate ==
  /\ step = "decide" /\ disk[job].phase = "absent"
  /\ \/ step' = "queue" /\ UNCHANGED <<after, command>>
     \/ End
  /\ UNCHANGED <<store, active, world>>

\* queue_task of a new task: the checkout and the context come first, and an
\* error in making them leaves no record.
QueueNew ==
  /\ step = "queue" /\ disk[job].phase = "absent"
  /\ \/ Save(Fresh, "report") /\ UNCHANGED <<job, using>>
     \/ End
  /\ UNCHANGED <<store, active, world>>

-----------------------------------------------------------------------------
(* monitor                                                                 *)

\* No task is pending and the relay is healthy, or heals: nothing is queued.
\* (The status is all that changes; live recovery is in module KnownGood.)
\* Otherwise a task named by the minute is queued.
MonitorHealth ==
  /\ step = "idle" /\ pendId = None
  /\ job' = minute /\ using' = config /\ step' = "queue"
  /\ UNCHANGED <<store, active, world, after, rec>>

\* MUTANT: the thread survives a change of the model.
Adopted_KeepsThread(r) == Rec(r.phase, r.thread, config, r.due)

\* Codex does not resume a thread under another model.
Adopted(r) ==
  IF r.model \notin {None, config}
    THEN Rec("codex-model-reset", None, config, r.due)
    ELSE Rec(r.phase, r.thread, config, r.due)

\* MUTANT: nothing is resumed before the operator says so.
MonitorPending_Manual ==
  /\ step = "idle" /\ pendId # None /\ pendRec.phase # "codex-interrupted"
  /\ job' = pendId /\ using' = config
  /\ Save(Adopted(pendRec), "gate")
  /\ UNCHANGED <<store, active, world>>

\* The pending copy is taken up.  (Rewriting the context may fail: then the
\* command ends with the files as they were.)
MonitorPending ==
  /\ step = "idle" /\ pendId # None
  /\ job' = pendId /\ using' = config
  /\ Save(Adopted(pendRec), "gate")
  /\ UNCHANGED <<store, active, world>>

\* The retry time lies ahead.
Wait ==
  /\ step = "gate" /\ rec.due = "later"
  /\ step' = "report"
  /\ UNCHANGED <<store, active, world, after, command>>

\* No sandbox or no budget: an hour or more until the next try.
Defer ==
  /\ step = "gate" /\ rec.due = "now"
  /\ \E p \in Deferred : Save(Rec(p, rec.thread, rec.model, "later"), "report")
  /\ UNCHANGED <<store, active, world, job, using>>

StartAttempt ==
  /\ step = "gate" /\ rec.due = "now"
  /\ Save(Rec("codex-running", rec.thread, rec.model, rec.due), "launch")
  /\ UNCHANGED <<store, active, world, job, using>>

Launch ==
  /\ step = "launch"
  /\ active' = job
  /\ step' = "codex"
  /\ UNCHANGED <<store, world, after, command>>

\* MUTANT of ThreadStarted: the thread goes to task.json alone.
ThreadStarted_DiskOnly ==
  /\ step = "codex"
  /\ rec' = Rec(rec.phase, IF rec.thread = None THEN using ELSE rec.thread,
                rec.model, rec.due)
  /\ disk' = [disk EXCEPT ![job] = rec']
  /\ step' = "started"
  /\ UNCHANGED <<pendId, pendRec, active, world, after, job, using>>

\* thread.started: a resumed thread names itself again, a new one is opened
\* with the model of the command.
ThreadStarted ==
  /\ step = "codex"
  /\ Save(Rec(rec.phase, IF rec.thread = None THEN using ELSE rec.thread,
              rec.model, rec.due), "started")
  /\ UNCHANGED <<store, active, world, job, using>>

\* Codex exits with status 0 and a last message.
CodexFinishes ==
  /\ step \in {"codex", "started"}
  /\ step' = "verify"
  /\ UNCHANGED <<store, active, world, after, command>>

\* Any other exit: 15 minutes, doubled with each attempt, until the next.
CodexInterrupted ==
  /\ step \in {"codex", "started"}
  /\ Save(Rec("codex-interrupted", rec.thread, rec.model, "later"), "report")
  /\ UNCHANGED <<store, active, world, job, using>>

\* finish_task: what the checks of the checkout and the last message amount to.
Verdict(violations, tests, requested, changed) ==
  IF ~violations /\ tests /\ requested = "ready_for_review" /\ changed
    THEN "ready-for-review"
  ELSE IF ~violations /\ tests /\ requested = "no_change" /\ ~changed
    THEN "no-change"
  ELSE "blocked"

FinishTask ==
  /\ step = "verify"
  /\ \E violations, tests, changed \in BOOLEAN,
        requested \in {"ready_for_review", "no_change", "blocked"} :
       LET r == Rec(Verdict(violations, tests, requested, changed),
                    rec.thread, rec.model, rec.due)
       IN rec' = r /\ disk' = [disk EXCEPT ![job] = r]
  /\ step' = "unpend"
  /\ UNCHANGED <<pendId, pendRec, active, world, after, job, using>>

\* git fails, the tests run longer than 30 minutes, the message is no JSON.
VerifyFails ==
  /\ step = "verify"
  /\ End
  /\ UNCHANGED <<store, active, world>>

Unpend ==
  /\ step = "unpend"
  /\ pendId' = None /\ pendRec' = Absent
  /\ step' = "report"
  /\ UNCHANGED <<disk, active, world, after, command>>

-----------------------------------------------------------------------------
(* retry                                                                   *)

\* The pending task, or else the one the status names.
RetryTarget == IF pendId # None THEN pendId ELSE active
RetryRecord == IF pendId # None THEN pendRec ELSE disk[active]

\* MUTANT: a task is retried from any phase.
Retry_AnyPhase ==
  /\ step = "idle" /\ RetryTarget # None
  /\ RetryRecord.phase # "absent"
  /\ job' = RetryTarget /\ using' = config
  /\ Save(Rec("queued", None, RetryRecord.model, "now"), "report")
  /\ UNCHANGED <<store, active, world>>

Retry ==
  /\ step = "idle" /\ RetryTarget # None
  /\ RetryRecord.phase \in Retryable
  /\ job' = RetryTarget /\ using' = config
  /\ Save(Rec("queued", None, RetryRecord.model, "now"), "report")
  /\ UNCHANGED <<store, active, world>>

-----------------------------------------------------------------------------
(* The surroundings.                                                       *)

Command ==
  \/ SaveDisk \/ SavePending \/ Report
  \/ CheckEnds \/ UnknownRelease \/ RetainResult \/ ResumeTask
  \/ StageCandidate \/ QueueNew
  \/ Wait \/ Defer \/ StartAttempt \/ Launch \/ ThreadStarted
  \/ CodexFinishes \/ CodexInterrupted \/ FinishTask \/ VerifyFails \/ Unpend

\* A reboot, a kill, or the time limit of the systemd service, which takes
\* Codex with it.
Crash ==
  /\ step # "idle" /\ faults < MaxFaults
  /\ faults' = faults + 1
  /\ End
  /\ UNCHANGED <<store, active, config, endpoint, minute>>

Due(r) == Rec(r.phase, r.thread, r.model, "now")

\* Retry times pass; the minute changes to one without a task.
TimePasses ==
  /\ step = "idle"
  /\ disk' = [t \in Ids |-> Due(disk[t])]
  /\ pendRec' = Due(pendRec)
  /\ minute' \in {minute} \cup {t \in Minutes : disk[t] = Absent}
  /\ UNCHANGED <<pendId, active, config, endpoint, faults, step, after, command>>

\* The operator configures another model; upstream publishes or withdraws.
Reconfigure ==
  /\ config' \in Models \ {config} /\ step = "idle"
  /\ UNCHANGED <<store, active, endpoint, minute, faults, step, after, command>>

Publish ==
  /\ endpoint' \in (Releases \cup {None}) \ {endpoint} /\ step = "idle"
  /\ UNCHANGED <<store, active, config, minute, faults, step, after, command>>

Next ==
  \/ Check \/ MonitorHealth \/ MonitorPending \/ Retry \/ Command
  \/ Crash \/ TimePasses \/ Reconfigure \/ Publish

Spec == Init /\ [][Next]_vars

\* A command that runs goes on.  The monitor timer fires every 15 minutes, and
\* again and again it finds the lock free, the context writable and a sandbox
\* and budget that allow an attempt (the documented remedies restore both).
FairSpec ==
  /\ Spec
  /\ WF_vars(Command)
  /\ SF_vars(MonitorPending)
  /\ SF_vars(StartAttempt)
  /\ SF_vars(TimePasses)

-----------------------------------------------------------------------------
(* Correctness.                                                            *)

\* "Codex does not permit resuming a thread under a different model": the
\* thread a command resumes was opened with the model it passes, whichever
\* copy of the record the command started from.
ResumeFits == step = "codex" /\ rec.thread # None => rec.thread = using

\* Where pending.json names a finished task (finish_task between its two writes,
\* or a crash there), it holds the attempt that earned the verdict as the last
\* save_task left it: running, due, with the thread that Codex had opened.  So
\* the run that takes it up goes on with that thread; no order of commands and
\* crashes sets a verdict beside a queued, a deferred or an older copy.
FinishedIsLastAttempt ==
  pendId # None /\ disk[pendId].phase \in Terminal =>
    /\ pendRec.phase = "codex-running"
    /\ pendRec.thread = disk[pendId].thread
    /\ pendRec.model = disk[pendId].model
    /\ pendRec.due = disk[pendId].due

\* The "terminal states" of docs/automatic-updates.md: nobody works on a task
\* in one of them but on an operator's retry.
TerminalIsFinal ==
  [][\A t \in Ids : disk[t].phase \in Terminal /\ disk'[t] # disk[t]
       => disk[t].phase = "blocked" /\ disk'[t].phase = "queued"]_vars

\* A verdict that is no longer pending stays for review: only an operator's
\* retry of a blocked task opens it again.
VerdictStands ==
  [][\A t \in Ids : disk[t].phase \in Terminal /\ pendId # t /\ disk'[t] # disk[t]
       => disk[t].phase = "blocked" /\ disk'[t].phase = "queued"]_vars

\* A finished task does not come back to pending.json by itself.
FinishedStaysOut ==
  [][\A t \in Ids : disk[t].phase \in Terminal /\ pendId # t => pendId' # t]_vars

\* A task that stays pending is attempted again, through deferrals, crashes,
\* model changes and failed attempts ("retaining the task indefinitely").
PendingIsAttempted ==
  \A t \in Ids : (pendId = t) ~> (pendId # t \/ (step = "codex" /\ job = t))

-----------------------------------------------------------------------------
(* The inductive invariant behind the safety properties.                   *)

\* Steps at which the command has the task that monitor took up: directly, or
\* as the continuation of a save.
Working == {"gate", "launch", "codex", "started", "verify"}
OnTask(s) == step = s \/ (step \in {"disk", "pend"} /\ after = s)

Fits(r) == r.thread # None => r.thread = r.model

RecordsFit ==
  /\ Fits(rec) /\ Fits(pendRec)
  /\ \A t \in Ids : Fits(disk[t])
  /\ \A s \in Working : OnTask(s) => rec.model = using

CommandKnows ==
  /\ step \notin {"idle", "check"} => job # None
  /\ step # "idle" => using # None
  /\ after \in {"idle", "report", "gate", "launch", "started"}
  /\ step \in {"idle", "check", "decide", "queue"} => after = "idle"
  /\ step \in {"disk", "pend"} => after # "idle"
  /\ \A s \in Working \cup {"unpend"} : OnTask(s) => pendId = job
  /\ step \in {"disk", "pend"} \cup Working => rec.phase \notin Terminal \cup {"absent"}
  /\ step \in {"launch", "codex", "started", "verify"} => rec.due = "now"
  /\ step \in {"disk", "pend"} /\ after \in {"launch", "started"} => rec.due = "now"
  /\ step = "pend" => disk[job].phase \notin Terminal \cup {"absent"}
  /\ step = "disk" /\ disk[job].phase \in Terminal /\ pendId # job
       => disk[job].phase = "blocked" /\ rec.phase = "queued"

FinishedAtRest == \A t \in Ids : disk[t].phase \in Terminal => disk[t].due = "now"

\* The pending task has its record.  Its copy there is never a verdict; the
\* record is one where finish_task stands, or was killed, between its writes.
PendingHasRecord ==
  pendId # None => /\ disk[pendId].phase # "absent"
                   /\ pendRec.phase \notin Terminal \cup {"absent"}

\* While an attempt runs, and until the files of its verdict are written, the
\* pending copy is the one that the attempt saved last.
Attempting == {"launch", "codex", "started", "verify"}

AttemptIsPending ==
  /\ step \in Attempting => pendRec = rec
  /\ \A s \in Attempting : OnTask(s) => rec.phase = "codex-running"

\* What each copy of a record may say, and what the running command knows.
IInv ==
  /\ TypeOK /\ RecordsFit /\ CommandKnows /\ FinishedAtRest
  /\ PendingHasRecord /\ AttemptIsPending /\ FinishedIsLastAttempt

=============================================================================
