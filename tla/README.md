# UU remote bridge: specifications

The bridge lets UU Remote (GameViewer), a Windows remote-control host that runs
under Wine, drive a native Ubuntu desktop, and keeps that installation up to
date without taking the machine off line. This directory holds TLA+
specifications of its parts, TLC configurations that check them on small
instances, and proofs, checked by TLAPS, for every value of the constants.

* [The system](#the-system) - the inventory
* [Modules](#modules) - what is modelled where, and how it corresponds to the code
* [Runs](#runs) - what is checked, with which bounds and fairness
* [Proofs](#proofs)
* [Where code and documents disagree](#where-code-and-documents-disagree)
* [What is not modelled](#what-is-not-modelled)
* [Plan](#plan)

Definitions that begin with `MUTANT` in their comment are faulty variants of
the definition that follows; each shows that a property notices such a fault.

## The system

| Component | State it keeps | Operations | What is hard about it | What makes it correct |
|---|---|---|---|---|
| Update manager, repair tasks (`uu_update_manager.py`) | `task.json` per task, one `pending.json`, `status.json`, staged releases, the Codex thread of a task | `check`, `monitor`, `monitor_health`, `retry`, run of Codex, verification | every operation is a separate process that may die between two writes; `pending.json` is a copy that may be stale; the model may be reconfigured between attempts; attempts cost money | a task whose end is recorded and that is put away is not run again, a task that stays pending is attempted again, a thread is only resumed under its model |
| Update manager, promotion queue | the same files, phases `promotion-*` | queue, run, recover and retry a promotion | the helper, the manager and the host fail independently | an interrupted promotion is always resolved; what is reported is true |
| Promotion helper (`promote-approved-release.py`) | marker, snapshot of the Wine prefix, live prefix, `result.json` | `apply` (13 steps), `recover` (6 steps) | a crash at any step; the rollback may fail too; other programs start the bridge meanwhile | the live prefix is always the complete old release or the checked new one, or recovery can make it so |
| Input broker (`uu_input_broker.c`) | one client, the deletion allowance (`semantic_edit_state`), route | serve one `SendInput` call at a time over three routes | a request may be ambiguous, partial or refused at every stage | nothing is typed twice, a call reported as sent is complete, Backspaces delete only the client's own recent text |
| Input bridge DLL (`uu_input_bridge.c`) | pipe to the broker | patch `SendInput`, forward, retry once | a pipe that breaks after the broker acted | no call is sent twice |
| Native X11 input helper (`uu_x11_input.c`) | held keys and buttons, pending surrogate, carriage return, two xclip processes | serve one broker: inject keys and mouse, paste a text through both selections | XTEST calls that fail half-way, a clipboard manager and applications that use the selections meanwhile, signals in the middle of a handoff | nothing is held for a client that has gone; a text leaves the client's keys alone, pastes nothing old and is acknowledged only when it was asked for |
| Agent messages (`uu-link`) | outbox, inbox, receipts as files | `send`, `retry`, `receive`, `list`, `read` | lost replies, late receivers, two processes with one ID, crashes before a directory is flushed | a receipt is held only for a message the peer stored durably; the inbox never changes |
| Clipboard companion and helper (`uu_wine_clipboard_bridge.c`, `uu_x11_clipboard.c`) | `delivered_sequence`, a socket; two xclip processes | poll, read, send; hand over CLIPBOARD and PRIMARY | deadlines of a second on both sides, a partial handoff, host applications that copy meanwhile | only GameViewer's text reaches the host, both selections agree, an acknowledged text was handed over |
| Terminal bridge and proxy (`uu_terminal_bridge.c`, `uu_terminal_proxy.c`) | four session slots, one handler and shell per session | accept, relay, reap, stop | signals between two statements; a shell that ends with output left; a stop during a session | no session without a slot, no shell without a session |
| Bridge supervisor (`uu-remote-bridge`) | process IDs of a dozen programs, ready files, ports | start in order, wait for the first exit, clean up | partial start-up, processes that do not stop | all run or none; the next start finds nothing of the last |
| Console coordinator (`uu-remote-console`) | locks, focus marker, window list | open, focus, close the viewer; ensure the bridge runs | two invocations at a time; windows that appear late | one viewer at a time; the bridge is not started during maintenance |
| Update manager, live recovery (`uu_update_manager.py`) | the installed runtime, snapshots of it, the bridge service | probe, restart, check the known-good track out, snapshot, `install.sh`, roll back | a monitor that dies, or a command that times out, in the middle of an installation or of its rollback; the next attempt starts from what is left | a whole runtime is always left; a rollback is exact; a bridge that is down comes up or is reported |
| Server patching (`gameviewer_patchlib.py`, `patch-gameviewer.py`, `audit-gameviewer.py`) | `GameViewerServer.exe`, its backup, approved manifests | `patch`, `restore`, `verify`; `inspect`, `finalize` | a crash during a copy or a write, executables that the vendor's updater replaces meanwhile, overlapping byte patterns | the executable is whole and either the vendor's or exactly the reviewed one; the original is never lost |
| Installation and upgrade scripts (`install.sh`, `upgrade-uu-remote.sh`) | files of the installation, backups of earlier releases | install, upgrade, uninstall, configure | rollback of a half-done upgrade | the old version works after a failure; a run that was interrupted can be repeated |

The parts talk to each other through files (manager, helper and monitor; the
patch tools, the installer and the audit share the executable, its backup and the
manifests),
through a named pipe (server DLL and broker), through loopback sockets with a
token (broker and X11 helper, companion and clipboard helper, proxy and terminal
bridge), through systemd (manager, helper and console start and stop the bridge;
the bridge's supervisor ends when one of its processes ends and is restarted as
a whole), and over SSH (`uu-link`). The hazards in this, each with its line, are
listed under "hazards" in `PROJECT.json`.

## Modules

### Promotion, AtomicUpgrade, PromotionProofs

`AtomicUpgrade` is the promise: an upgrade begins, and either the new release is
committed or the old one is kept. `Promotion` has one action per statement of
`apply` and `recover` after which the helper may die (`MakeWorkDir`,
`MarkPreparing`, `StopBridge`, `CopyPrefix`, `NameSnapshot`, ... ; `RecoverCheck`,
`RecoverStop`, `MoveAside`, `RestoreSnapshot`, `RecoverStart`, `RecoverUnmark`) and
the manager's steps around it (`QueuePromotion`, `RunPromotion`,
`RecoverInterrupted`, `RetireBlocked`, ...). `StepFails` is a Python exception in a
step, `HelperKilled`, `Crash` and `Reboot` are what else may happen. A prefix is
one of a few kinds (old, new, partial, torn, stub, absent); the installer may
leave any of those an installer can leave. The bridge is up or down; the desktop
may start it at any time, as `ensure_bridge` of the console does. A retry of a blocked
promotion is `RetireBlocked`, which puts the task directory away (`retired`), and then
`RequeueRetired`, or `RequeueFails`, which brings it back unless there is a new one.

### UpdateTasks

The manager's repair tasks. Each command (`check`, `monitor`, `monitor_health`,
`retry`) is a sequence of actions with a write of one file at most in each, so
that `Crash` can come between two of them. A record of a task is its phase, its
thread, its model and whether its retry time has come; `disk` are the
`task.json` files, `pending` is `pending.json`. Time is the predicate "the
retry time has come", which `TimePasses` makes true. Codex is what it leaves
behind: a result or an interruption.

### SemanticInput, SemanticInputProofs

One client of the broker and its calls. A batch is a sequence of items (a
character, a surrogate half, a Backspace, a key). `send_x11_clipboard_text` is
modelled one turn of its loop at a time: `ScanBackspace`, `ScanText` and `ScanKey`
collect the item at hand or hold it back (`Clamped`), and when the item ends the
collected segment (`MustSend`) a request goes out, which ends in `TextSent`,
`TextFailed`, `SegmentRefused`, or, for keys, `KeysRequested`, an `InjectKey` per key
and `KeysSent` or `KeysFailed`; `ClipboardUnconvertible` is its early return.
`call` holds the locals of the loop: the position, the events, `next` for the
prospective `next_state`, `sent` for `sent_any`, and `draft`, what the helper will make
of the text collected so far. The key route is `HelperTakesPart` or
`HelperTakesNoPart`, then `TypeItem` per item, then `KeysDone` or one of the failures.

`edit.credit` is what the broker believes it may delete, `tail` the characters that really
stand before the caret and came from this client. The two part in four ways that
the code does not notice, and the variable `astray` records that one happened: the helper
swallows a line feed after a carriage return the broker has forgotten; a batch mixes
text and physical keys, which move the caret; the Backspaces of a Unicode batch go
out as key chords, where nothing bounds them; `SendInput` takes only part of a
batch. A new client and two idle seconds clear the credit, and `astray` with it. Every
batch and every failure is enabled at all times; `OwnTextKept` and `CreditCovered`
speak of the client until its credit goes astray, `NeverReplayed` and
`SentMeansComplete` of every call.

### AgentMail, AgentLink, AgentLinkProofs

`AgentMail` is the promise: a message is delivered at most once per ID and
confirmed only then. In `AgentLink` each `uu-link` process is a record with a
step; files are `pending` until their directory is flushed, and `AfterCrash`
decides what survives. `SessionEnds`, `TimeOut` and `Reply` are independent, so a
receiver may outlive its sender.

### ClipboardRelay, ClipboardRelayLive, ClipboardRelayProofs

A text is the sequence number of the Win32 clipboard under which it was copied.
The companion's loop is `Poll`, `ReadClipboard`, `SendAgain` or `Connect` and
`HelloReceived`, then `AnswerReceived` or `CompanionGivesUp`. The helper serves
one connection at a time: `Accept`, `Greet`, `Receive`, then `StartOwner` and
`OwnerChanged` or `OwnerUnchanged` per selection, then `KeepHandoff` or
`AbandonHandoff`, then `Reply`, or `HangUp`. A connection is the set of its ends
that are still open and a buffer each way, so requests and answers outlive the
side that sent them. xclip processes have a role: `kept` by the helper, or `fresh`
during a handoff. `Takes` is X11's rule that a selection has one owner, together
with xclip's reaction to losing it. `ClipboardRelayLive` bounds the faults for
the liveness property.

### X11Input, InputService, X11InputProofs

The native helper around one connection at a time: `Accept`, `Handshake`, then
`ReceiveBatch` with `Inject` for each press and release, or `ReceiveText`, then
`Reply`, and `ReleaseAll` when the broker has gone. A text runs through
`StartOwner` and `OwnerIsNew` or `OwnerIsOld` for each selection, `Settle` (both
xclips wait, readers are quiet, the baseline is taken), `Retire` (the old pair is
stopped), the chord `PressShift`, `PressInsert`, `ReleaseInsert`, `ReleaseShift`, and
`PasteSeen` or `PasteUnseen`; every failure has an action that goes the code's way
out (`ChordFails` and `UndoChord`, `StartFails`, `SettleFails`, `Drop`). `pressed` is
what `serve_client` records, `chord` the two flags of `inject_clipboard_text`,
`down` what the display really holds; XTEST may refuse any call. `conn` is
`closed` from the moment the broker, or the signal handler, closed it; the helper
learns of it where it reads or writes. The xclips have the roles `kept` and
`fresh` as in `ClipboardRelay`; here the target also reads (`TargetPastes`), and
a clipboard manager reads, and restores what it has when it finds a selection
without an owner. The two models are separate: the programs have their
own xclips and share nothing but the selections, where each is one of
the other's host applications.

`InputService` is the helper as the broker assumes it, without display, xclips and
signals: a request at a time, whose moves are made in order and each once, `ok` with
the last of them, `unsupported` before the first, and a text that may be inserted
until it is answered with anything but `ok`. `X11Input` implements it (the mapping is
at its end: `MovesMade` counts up to the helper's position in the batch, `Given` is
the answer about to be sent). `SemanticInput` is written against the same promise:
`SegmentRefused`, which takes another route, is the answer `unsupported`; `KeysSent`
and `TextSent` are `ok`; `KeysFailed` and `TextFailed` leave any number of the moves,
or the text or not, as an injection error or a lost connection may. That an
acknowledged text was inserted is `OkMeansPasted`, with its exception; the
promise has no more to say about it. A text whose connection was lost may
be inserted a little after the broker gave up; for `SemanticInput` it is in at once or not
at all, since the helper accepts the next connection only when it is done.

### PatchBytes, ServerPatch, ServerPatchProofs

`PatchBytes` is the byte arithmetic of `gameviewer_patchlib.py` on sequences:
where a signature stands (`OnlyAt`, `verify_signatures`), which manifests are
refused (`WellFormed`, `manifest_from_dict`), one turn of `render_patched`
(`Splice`), and what `masked_candidates` looks for (`Fixed`, `FixedRuns`,
`IsAnchor`). A content stands for its SHA-256 digest, so equality is what the
code compares. `ServerPatch` has the files and the programs: `patch_file` is
`Patch`, `CheckBackup`, `CopyBackup`, `VerifyBackup`, `RenderNext` per patch,
`MakePatched` or `RenderRefused`, `WriteTemporary` and `Replace`; `restore_file` is
`Restore` and the last two; `finalize` renders the same way and ends in
`Approve`; the loop of `masked_candidates` is `SearchNext`, one occurrence of the
anchor at a time. `install.sh` appears where it touches these files:
`KeepBackup` and `DropBackup` move the backup of the leaving release,
`Install` goes to the vendor's installer, `SetUp`, or straight to the check, as
`GameViewer.exe`, which is not part of the state, is missing or there; `CheckTarget` is `verify`, `PatchInstalled` the
call of `patch`. `Interrupted` ends any program between two steps and leaves
what a copy had written; `ForeignUpdate` replaces the executable at any moment.
One of the programs runs at a time, as the scripts call them.

### KnownGood, UpdateManagerProofs

`monitor_health` as it is run when no task is pending. A runtime is a function
from items (files and directories that `install.sh` writes) to what they are: a
version, absent or torn. `Listed` are the items of `runtime_snapshot_paths`.
`BeginProbing` starts the monitor, `FirstProbe` and `Confirm` are the two probes, `RestartBridge` and `AwaitRestart`
the supervised restart, `CloneTrack`, `Refuse` and `Prepared` the preparation of
`reinstall_known_good`; `SnapshotItem`, `InstallItem` and `RestoreItem` are one turn of
their loops, and `Judge` the single probe after the installation. `MonitorDies` and `Raises`
(a time-out, a failing git or file operation) stop the monitor between any two
items and may leave the item at hand torn. A probe is healthy only when the
bridge runs, but a bridge that runs may look bad, or not answer. The
bridge changes by itself at any time (`ServiceChanges`). The order of the items in a loop is
left open.

The three modules about the update manager are separate: a monitor runs one of
promotion, task or live recovery, and `pending` in `KnownGood` is what
`UpdateTasks` makes of it.

### TerminalBridge, TerminalBridgeProofs

The native bridge behind UU's terminal. The parent's loop is `Top`, `Reap` per
`waitpid`, `ReapEnds`, `Clear`, then `PollAgain` or `Fork` and `Record`; its end is
`KillNext` and `WaitNext` per slot. A handler is `HandshakeOk` or `HandshakeFails`,
then `Polls`, `Relays` and `RelayEnds` until `LoopStops`, `ShellReaped` or `PollEnds`
leads to `stop_shell`: `CloseEnds`, `Insists` (SIGHUP, SIGTERM, SIGKILL), `StopShellEnds`.
`proc` and `shell` are the kernel's view of the processes - a process ID is free
once its parent has waited for it, and may be given to the next handler - while
`handlers`, `handler` and `shell_pid` are the variables of the program, which must agree
with it whenever it sends a signal. The two flags are set by signals between any two steps.
`Terminate` is the supervisor's clean-up, which signals the parent, or systemd's,
which signals every process of the service; `SupervisorKills` is the clean-up's
SIGKILL a second later. What a relay carries is left out; that it may block is not.

## Runs

| Run | Question | Size |
|---|---|---|
| `promotion` | Do prefix, old release and bridge survive every interruption, does every interruption get resolved, and does the whole implement `AtomicUpgrade`? | MaxFaults 3, MaxRetries 1; 39 520 states |
| `promotion_torn` | a disagreement, see below | MaxFaults 1 |
| `semantic_input` | Do revisions delete only the client's own text, is the credit covered, and is anything typed twice, out of order, or reported but missing? | every batch of up to 3 of the 10 kinds of items, credit up to 4, 9 settings, every failure; 2 380 224 states |
| `agent_link` | Are receipts honest and inboxes immutable, whatever is lost, and is the whole receipt-confirmed delivery? | 2 hosts, 1 ID, 2 bodies, 2 processes; 77 632 states |
| `update_tasks` | Can a stale copy, a crash or a changed model make the manager resume a foreign thread, start a finished task over, or bring one back that it had put away, and is a pending task attempted again until it ends? | 1 release, 1 minute, 2 models, MaxFaults 1; 434 946 states |
| `update_tasks_terminal` | a disagreement, see below | as `update_tasks` |
| `clipboard` | Does the host see only the controller's text, the same in both selections, was what is acknowledged handed over, and does a text arrive once faults end? | 2 connections, 1 application, 2 copies, 2 faults; 196 646 states |
| `x11_input` | Is anything held for a client that has gone, does a text disturb the client's keys, paste something old or succeed unasked, does an xclip stay behind, and does every answer mean what the broker takes it for? | 3 inputs, 2 requests, batches of 2, 1 refused call, 1 read per xclip, 1 application; 1 131 783 states |
| `server_patch` | Is the executable ever anything but a vendor's file or a reviewed one, is the original of a patched one kept, and does the search of an audit find every candidate? | 3 executables of 5 bytes, 6 drafts of 2 releases, of which 3 must be refused; 715 978 states |
| `known_good` | Is a whole runtime left whatever fails, is a finished rollback exact, and does a bridge that is down come up or become a task? | 3 items, 2 runtimes, 2 reinstallations, 2 faults; 727 296 states |
| `known_good_rollback` | a disagreement | as `known_good` |
| `terminal_bridge` | Does a signal ever reach a process that is not the bridge's own, does a lost SIGCHLD fill it for good, and does a stop end every session? | 2 slots, 3 process IDs; 188 834 states |

Why these bounds are enough to be interesting. The promotion helper has 19
steps; with three faults a step can fail, the rollback of that failure can be
interrupted, and the recovery after that as well. The fault in `update_tasks`
is a crash between any two writes, met by every command that follows; that a
second crash adds nothing to safety is what the proofs show. Two bodies under one ID are the conflict `uu-link` guards against, and two
processes are a sender and its retry, or two senders. Two connections are the one
the companion gave up and the one it opened instead; the companion never has
more than these two that the helper has not closed. Two copies are the text that
is being forwarded and the one that replaces it. Two requests in `x11_input` are
a batch that leaves keys down and a text after it, or a text and the one that
takes over its xclips; the inputs are the two keys of the chord, which the client may
hold itself, and a button whose event presses and releases. The drafts of `server_patch`
have two patches, one patch whose anchor overlaps itself, overlapping
patches, a signature that stands at two places, and one whose result has
it twice; two reviews of the same release make the digests of two manifests meet. The items of
`known_good` are one that is always there, one that may be absent, and one
that the snapshot does not list; the second reinstallation works on what the
first left. Two slots and three process IDs let `terminal_bridge` refuse a client, lose a
SIGCHLD while a slot is free, and use an ID again while another session runs. The proofs cover any number of each.

Fairness. `promotion`: the steps of a running helper and the manager's
continuation happen (weak fairness; they are straight-line code), and a recovery
that is possible again and again is tried (strong; the monitor's timer comes
back while crashes may intervene). `update_tasks`: a started command goes
on (weak); the monitor's timer comes back, an attempt is not deferred for ever,
and time passes (strong). `clipboard`: companion, helper and a started
xclip go on; faults (a deadline that passes although the peer works, a failed
read, a failed or overtaken xclip) are bounded by `MaxFaults`, while a connection
that the helper closed after an idle second, whose loss the companion meets every
time, is not a fault. `x11_input`: the helper goes on (weak); every wait of a
request has a deadline, and nothing is assumed of the broker, the xclips or the
target. `known_good`: the monitor is started again and goes on (weak; a timer, and
a time-out on every command); the faults are bounded, the bridge may fail again
at any time. `terminal_bridge`: the parent and each handler go on (weak; every wait
has a time-out, or ends with the process waited for), and SIGKILL ends a
shell; no fairness for the user, or for a relay, whose reads and writes may block: that none
is blocked for ever is a premise of `StopEnds`. `server_patch` has no liveness property.

Deadlock is checked except where a cfg says otherwise: a finished promotion and
exhausted bounds leave nothing to do, and a terminal bridge that has ended does
nothing more.

## Proofs

Each model has an inductive invariant, `IInv` (`RecoveryInv` in `KnownGood`), from which
its proof module derives the named properties. TLC checked each `IInv` before it was proved; now that
it is a theorem, and the type invariant with it as its first conjunct, the runs spend
their time on the named properties alone.

* `PromotionProofs`: the invariant says, for each step of the helper, what the
  marker, the snapshot and the live prefix are (`HelperKnows`), and what the marker
  alone tells a helper that starts afterwards (`MarkerKnows`). It is needed because
  `LivePrefixSound` says nothing about the states between two steps, from which a
  crash may continue. From it follow type correctness, soundness of the live
  prefix, that an intact copy of the old release exists while it may be needed, that the
  bridge is not left stopped, that a task directory serves one transaction, that a
  commit is final, and the refinement of `AtomicUpgrade`.
* `AgentLinkProofs`: what the sender and the receiver of a step may rely on
  (`SenderHolds`, `ReceiverHolds`), which a crash of a host must not take from
  the other host. From it follow honest receipts, an immutable inbox and the refinement of
  `AgentMail`.
* `UpdateManagerProofs`, repair tasks: what every copy of a record may say (`RecordsFit`),
  what the running command knows of the files it read (`CommandKnows`), that a
  finished task is at rest (`FinishedAtRest`), and that the pending copy has its record
  and is, while an attempt runs, the one this attempt saved last (`PendingHasRecord`,
  `AttemptIsPending`). From it follow `ResumeFits`, `VerdictStands`, `FinishedStaysOut`
  and `FinishedIsLastAttempt`: that a finished task may still be pending is a
  disagreement (below), but what is pending then is the attempt that finished it,
  with its thread, and never an older or a queued copy.
* `UpdateManagerProofs`, live recovery: `WholeIsKept` (nothing changes before a snapshot of
  a whole runtime is finished) and `SnapshotExact` (what the loops have passed is
  done). From it follow `RuntimeNeverLost` and `RollbackExact`, for any items and any
  number of attempts and faults. The module extends both models, whose states are
  separate: hence the names of `KnownGood`'s specification (`RecoverySpec`,
  `RecoveryNext`, `RecoveryInv`), which do not meet those of `UpdateTasks`.
* `SemanticInputProofs`: the four properties speak of a call as a whole; the
  invariant says what holds after each item. `Positioned`: where the scan stands in
  each phase of a call. `InBatchOrder`: what took effect, and behind it what is collected,
  increases and lies before the scan, so that nothing can come back; when a call falls
  back to the key route, nothing had taken effect. `NothingDropped`: every item before the
  scan took effect, is collected, or was held back. `CreditPays` is the argument about
  the credit: at any moment of a scan the prospective credit is covered by what stands
  plus the text on its way (`CreditIsInserted`: what the broker credits, the helper
  inserts), or, when Backspaces are on their way, what stands pays for both. So a
  Backspace that is injected always finds a character of the client's own. From it
  follow `OwnTextKept`, `CreditCovered`, `NeverReplayed` and `SentMeansComplete`,
  for batches of any length and any number of calls.
* `ClipboardRelayProofs`: a text is GameViewer's and newer than the service
  wherever it is - in the companion, in a connection, in the helper, in an xclip -
  and an answer `ok` names a completed handoff. From it follow `OnlyControllerText`
  and `AckedWasHandedOver`. `PairAgrees` and `NewestStays` need a second invariant,
  `NInv`, about order. A request the companion gave up on must not be served after its
  successor: `OneRequest` says that a connection carries at most one request, only after
  it was greeted, and that an unanswered one is the companion's present text;
  `BacklogIdle` and `LastIsCurrent` that the connections waiting to be
  accepted are distinct, empty, and end with the companion's. With `Newer`
  (what is under way is newer than what was acknowledged) and what is known of the
  xclips of a handoff (`FreshOfRequest`, `KeptAgree`, `OkReplyHonest`) it is inductive,
  for any number of connections and copies.
* `X11InputProofs`: the properties of the helper speak of the few moments when it
  answers or waits; the invariant says what holds in between. `KeysRecorded`:
  what the display holds is recorded as the client's or the chord's, or was
  refused, and there is no chord outside the paste. `ChordApart`: during a text
  the display differs from what it was only in the chord. `HandoffSound`: where
  in a handoff an xclip of either pair may live, and that a selection the fresh xclip
  has owned offers nothing old unless the clipboard manager restored it.
  `RequestsCounted`: after the baseline a count above it is the target's. From it
  follow all safety properties of the run, `NoOwnerGap` included, and that the helper
  implements `InputService` (`KeepsPromise`), one lemma per kind of step: `NextMove` shows that
  the helper's position enumerates the places of a batch in their order, and
  `InsertOrUnseen` that a chord the target acts on late finds a text only while its
  request may still succeed.
* `ServerPatchProofs`: `Progress` says what the output is after the first n patches;
  with the manifest's well-formedness (no two patches overlap, `SpliceProgress`) it
  survives every turn of `render_patched`, and `ApprovedSound` records its end.
  `PatchKnows` says what the read, the backup and the output are at each step of a
  program that the vendor may overtake, `TargetKnown` where the original of a patched
  executable is, `SearchKnows` that the candidates before `from` have been found;
  `AnchorStands` is why a candidate cannot be missed: where the unchanged bytes
  stand, so does the anchor. From it follow `OnlyReviewedBytes`, `OriginalKept` and
  `SearchComplete`, for any bytes, drafts and foreign files.
* `TerminalBridgeProofs`: `OnlyChildren` says which processes are children at each step
  of the parent, the one between fork and record and those it has already waited
  for at its end included; `ShellKnown` what `shell_pid` is worth at each step of a
  handler. `FlagMeansZombie` is the point of the argument about lost signals: the
  flag is only up while some child is waiting to be reaped, so a reap always
  finds one, and a slot is free when `Clear` may lose a signal (`RoomAfterReap`). From
  it follow `ChildrenAccounted`, `NotWedged`, and that there are never more
  handlers than slots (`AtMostMaxSessions`, which counts them).

The assumptions are those on the constants, named `...Assumption` in each module;
none limits the number of hosts, processes, connections, copies, releases or
faults, and the bounds that the assumptions mention may be any numbers. Every safety
invariant and every action property that a run checks is a theorem. Only model-checked
are the liveness properties `InterruptionResolved`, `PendingIsAttempted`,
`ViewerTextArrives`, `HeldReleased`, `OutageHandled` and `StopEnds` (fairness is out of
reach of the prover).

## Where code and documents disagree

Each of the first three has a run that expects the violation; "findings" in
`PROJECT.json` quotes both sides.

* `promotion_torn`: the snapshot may be copied from a running prefix, because the
  desktop console starts the bridge that the promotion stopped.
* `known_good_rollback`: a rollback leaves the files that `runtime_snapshot_paths` does not
  list as the failed installation left them, and reports the previous runtime
  as restored. The upgrade script's own list (`upgrade-uu-remote.sh:270-296`) has them.
* `update_tasks_terminal`: a crash before the unlink of `pending.json`
  (`uu_update_manager.py:2258`) leaves a finished task pending, and the next monitor run
  reopens it although it is in one of the "terminal states" of
  `docs/automatic-updates.md:233`. What does hold is `FinishedIsLastAttempt` (what it goes on
  with) and `VerdictStands`.

Four more were found with these models, by runs that are no longer kept:

* A copy of the original executable that was interrupted stays under the backup's
  name (`patch-gameviewer.py:69`); every later patch refuses it (62-67), so that
  `install.sh` never completes until somebody removes the file, although
  `README.md:158` says "Re-running the same command is idempotent".
* A promotion reported as rolled back may have been committed: the helper dies
  between removing the marker and writing its result (`promote-approved-release.py:739-751`),
  and `docs/automatic-updates.md:243` says "the old prefix was restored".
* Backspaces of an ASCII revision are sent as key chords, whatever the allowance, when
  the helper cannot be reached (`uu_input_broker.c:833`), although a comment says that
  "ASCII replacements must not bypass the same deletion allowance" (407); `astray`
  records it.
* Any new owner of a selection is taken for the helper's xclip
  (`uu_x11_clipboard.c:306`), although `docs/architecture.md:279` says the xclips
  "are verified as the new owners".

## What is not modelled

Data that no property distinguishes: contents of texts, file names, log lines,
the Codex conversation; a digest is the content it was taken of. Programs outside the
sources appear as what the sources assume of them: the installer, Wine, systemd, SSH,
xclip, the X server, Codex. Components with status `not_modelled` in
`PROJECT.json` give their reason there: import patching and one-shot Windows
programs have no state of their own, observers change nothing, and the
remaining scripts start one external program. Of `install.sh` only what it does to
the server executable and to the items of the runtime is modelled; of
`audit-gameviewer.py` not the landmarks, imports and disassembly of its report.
Two patch programs at the same time are not modelled: nothing locks the
executable, and the scripts never start two.

Remarks made while modelling, without a run of their own:

* A daily check that finds a health problem replaces an unfinished health task in
  `pending.json` (`uu_update_manager.py:1050`); nothing names the old one any more.
* A verification of a repair that raises leaves the phase and the retry time, so
  that every monitor run starts another attempt (`uu_update_manager.py:2168`).
* Three more ways in which a Backspace reaches text that is not the client's own
  recent text: a `SendInput` that accepts part of a batch, a batch that mixes text
  and physical keys, and a carriage return that the helper remembers from a
  client before. Together with the Backspaces above they are the ways in which
  `SemanticInput` goes `astray`.
* The clipboard helper does not compare sequence numbers: a text whose answer came
  too late is handed over again and replaces what a host application copied in between.
* The input helper takes its baseline before it retires the old xclips and sends the
  chord, so a reader that comes in between counts as the paste, although the
  comment says that a request "must follow the synthetic chord"
  (`uu_x11_input.c:757-760`); `OkMeansPasted` excepts it as `late`.
* The DLL in the server reconnects and sends a call again when its pipe broke
  (`uu_input_bridge.c:170`), although the broker may have acted on it.
* An executable that the vendor's updater puts in place between the read and the write of
  `patch_file` is replaced by the patched old release (`patch-gameviewer.py:76`); the
  vendor's file is gone, which is no loss of an original the tools ever knew.
* A restart of the bridge after which the probe is indeterminate leads to a
  reinstallation, unlike an indeterminate probe before it (`uu_update_manager.py:1552,1590`).
* `install.sh` that exceeds its half hour raises, and is not rolled back
  (`uu_update_manager.py:1397-1409`); the runtime stays torn until the next monitor run
  reinstalls over it, from a new snapshot of what is left. The whole runtime is
  then only in the older snapshot, which nothing restores by itself.
* A reinstallation is judged by one probe without waiting (`uu_update_manager.py:1411`),
  so that a good one may be rolled back.
* Crashes and exceptions in live recovery end in status "error" and never in a task;
  `OutageHandled` holds because the next run starts anew.
* A session may end with output left: the handler looks for the end of the shell before
  it reads what the shell wrote last (`uu_terminal_bridge.c:247`).
* A handler that writes a large paste into a program which is itself blocked on its
  output is stuck: nothing reads that output meanwhile. SIGTERM does not get it out
  (`uu_terminal_bridge.c:96-108`), nor does the parent's wait have a limit (474); the supervisor
  kills the parent after a second, and systemd the handler after fifteen.
* Slots whose SIGCHLD was lost stay taken until the next session ends, so a client
  may be refused with fewer than four sessions open (`uu_terminal_bridge.c:326`).
* An error of `accept4` that concerns one connection (ECONNABORTED) ends the
  terminal bridge (437-441), and with it the supervisor ends the whole relay.
* Shells inherit an ignored SIGPIPE from the bridge (398).
* What the display refuses to release when the broker leaves stays down and is
  forgotten (`uu_x11_input.c:1145`); a helper that is killed leaves everything down.

What the models simplify in parts they do cover, and what that leaves unsaid:

* `Promotion`: removing the marker and renaming a directory take effect at once, also for
  a reboot, although the directory is not flushed there
  (`promote-approved-release.py:739`). A power loss that brings the marker back is not
  modelled. A killed helper takes the installer it started with it; one that
  survives it and goes on writing is not modelled.
* `KnownGood`: a time-out ends the whole installation, although only the shell of
  `install.sh` is killed. An item is written at once or torn; that a directory written
  file by file keeps old files, and the removal of `devcon.exe` (`install.sh:928-930`), are
  left out; `devcon.exe` is not on the snapshot's list.
  `QueueTask` is the case that no task of the same minute exists
  (`uu_update_manager.py:1018-1033` keeps one; `UpdateTasks` has that branch), and its
  two writes (1049-1050) are one.
* `UpdateTasks` and `KnownGood` meet only in the proof module; no run composes them.
* `AgentLink`: `Flushed` makes a new directory durable with what is in it; the code
  flushes the directory itself but not the parents of a newly made one (`uu-link:78`,
  114-116), so that the model is a little stronger there.
* `X11Input`: the last check of a selection's owner and the kill of the xclip that failed
  it are one step (`uu_x11_input.c:503-521`), the request has failed by then. A
  connection that was closed before it is accepted, and a frame that is refused
  as malformed (1202-1208), end without any effect and are left out.
* `ServerPatch`: `--allow-experimental` and the check for a second manifest of a version
  are left out, so the code refuses more than the model; a copy that
  was interrupted is always the empty file, which the checks refuse like any
  other part.
* `SemanticInput`: `SendInput` that accepts no item at all is a failure like any other,
  and does not lead `astray`; nothing of the batch took effect.
* `TerminalBridge`: reads of the flags that follow each other without a wait are one step
  (`uu_terminal_bridge.c:129-140`).

## Plan

In this order, most important first; all but 12 and 13 are done.

1. `Promotion` with `AtomicUpgrade` - the one operation that can lose the
   installation.
2. `SemanticInput` - the path of every keystroke.
3. `AgentLink` with `AgentMail`.
4. `UpdateTasks`.
5. `ClipboardRelay`.
6. `X11Input`: held keys and buttons, the chord, the handoff.
7. `ServerPatch`: the patched executable and its original.
8. `KnownGood`: live recovery and its rollback.
9. `TerminalBridge`: slots, signals, shutdown.
10. Theorems: every safety property of the runs.
11. `InputService`: that the helper gives the answers the broker assumes.
12. The upgrade script's rollback, with the longer list of items; its model would be
    `KnownGood`'s loops around another command.
13. The supervisor's start and clean-up, the console coordinator with its locks, and
    the bytes of a terminal session between shell, handler and proxy.
