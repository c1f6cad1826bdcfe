--------------------------- MODULE TerminalBridge ---------------------------
(***************************************************************************)
(* uu_terminal_bridge.c: a process that accepts terminal sessions on a     *)
(* loopback port and forks one handler per session, which in turn runs a   *)
(* login shell.  Signals arrive between any two steps: SIGCHLD only sets a *)
(* flag, and so do SIGTERM, SIGINT and SIGHUP.  A process ID is free again *)
(* as soon as its parent has waited for it.                                *)
(***************************************************************************)
EXTENDS Naturals

CONSTANTS
  MAX_SESSIONS,
  Pids,         \* process IDs the kernel may give to handlers
  NoPid         \* an empty slot

BridgeAssumption ==
  /\ MAX_SESSIONS \in Nat \ {0}
  /\ NoPid \notin Pids

ASSUME BridgeAssumption

VARIABLES
  step,              \* where main stands
  index,             \* its slot, and the variable of its last two loops
  handler,           \* what fork returned, until it is recorded
  handlers,          \* the slots
  children_changed, stop_requested,      \* flags that the signals set
  proc,              \* the handler with that process ID, or "free", "zombie"
  told,              \* the handler's copy of stop_requested
  shell_pid,         \* the handler's variable: does it hold a process ID?
  shell              \* the kernel's view of that shell

parent == <<step, index, handler, handlers>>
session == <<shell_pid, shell>>
vars == <<parent, children_changed, stop_requested, proc, told, session>>

Slots == 1..MAX_SESSIONS

Steps == {"start", "top", "reap", "clear", "poll", "record",
          "kill", "wait", "exited", "killed"}

Running == {"greet", "loop", "poll", "relay", "close", "hup", "term", "kill"}

Gone == {"exited", "killed"}

Init ==
  /\ step = "start" /\ index = 1 /\ handler = NoPid
  /\ handlers = [s \in Slots |-> NoPid]
  /\ children_changed = FALSE /\ stop_requested = FALSE
  /\ proc = [p \in Pids |-> "free"]
  /\ told = [p \in Pids |-> FALSE]
  /\ shell_pid = [p \in Pids |-> FALSE]
  /\ shell = [p \in Pids |-> "none"]

-----------------------------------------------------------------------------
(* The parent *)

\* The listener stands and the ready file is written, or nothing comes of it.
Start ==
  /\ step = "start"
  /\ step' \in {"top", "kill"}
  /\ UNCHANGED <<index, handler, handlers, children_changed, stop_requested,
                 proc, told, session>>

Top ==
  /\ step = "top"
  /\ step' = IF stop_requested THEN "kill"
             ELSE IF children_changed THEN "reap" ELSE "poll"
  /\ index' = 1
  /\ UNCHANGED <<handler, handlers, children_changed, stop_requested, proc,
                 told, session>>

\* The parent waits for zombie p, which frees the process ID.
Collect(p) ==
  /\ proc[p] = "zombie"
  /\ proc' = [proc EXCEPT ![p] = "free"]

\* MUTANT of Reap: the loop stops before the last slot.
Reap_ForgetsLast(p) ==
  /\ step = "reap"
  /\ Collect(p)
  /\ handlers' = [s \in Slots |-> IF handlers[s] = p /\ s < MAX_SESSIONS
                                  THEN NoPid ELSE handlers[s]]
  /\ UNCHANGED <<step, index, handler, children_changed, stop_requested,
                 told, session>>

\* One turn of the loop of reap_handlers.
Reap(p) ==
  /\ step = "reap"
  /\ Collect(p)
  /\ handlers' = [s \in Slots |-> IF handlers[s] = p THEN NoPid
                                  ELSE handlers[s]]
  /\ UNCHANGED <<step, index, handler, children_changed, stop_requested,
                 told, session>>

ReapEnds ==
  /\ step = "reap"
  /\ \A p \in Pids : proc[p] # "zombie"
  /\ step' = "clear"
  /\ UNCHANGED <<index, handler, handlers, children_changed, stop_requested,
                 proc, told, session>>

\* The flag is cleared after the last look: a child that ended in between
\* goes unnoticed until another one does.
Clear ==
  /\ step = "clear"
  /\ step' = "poll" /\ children_changed' = FALSE
  /\ UNCHANGED <<index, handler, handlers, stop_requested, proc, told, session>>

\* Nobody came, a signal came, the client found every slot taken, or fork
\* failed.
PollAgain ==
  /\ step = "poll"
  /\ step' = "top"
  /\ UNCHANGED <<index, handler, handlers, children_changed, stop_requested,
                 proc, told, session>>

\* poll or accept4 fails for good.
ListenerFails ==
  /\ step = "poll"
  /\ step' = "kill"
  /\ UNCHANGED <<index, handler, handlers, children_changed, stop_requested,
                 proc, told, session>>

AvailableSlot(s) ==
  handlers[s] = NoPid /\ \A r \in 1..(s - 1) : handlers[r] # NoPid

\* A client is accepted; its handler inherits the flag.
Fork(p) ==
  /\ step = "poll"
  /\ \E s \in Slots : AvailableSlot(s) /\ index' = s
  /\ proc[p] = "free"
  /\ proc' = [proc EXCEPT ![p] = "greet"]
  /\ told' = [told EXCEPT ![p] = stop_requested]
  /\ shell_pid' = [shell_pid EXCEPT ![p] = FALSE]
  /\ shell' = [shell EXCEPT ![p] = "none"]
  /\ step' = "record" /\ handler' = p
  /\ UNCHANGED <<handlers, children_changed, stop_requested>>

Record ==
  /\ step = "record"
  /\ handlers' = [handlers EXCEPT ![index] = handler]
  /\ step' = "top" /\ handler' = NoPid /\ index' = 1
  /\ UNCHANGED <<children_changed, stop_requested, proc, told, session>>

Advance(next) ==
  IF index = MAX_SESSIONS THEN step' = next /\ index' = 1
                          ELSE step' = step /\ index' = index + 1

\* MUTANT of KillNext: one handler is told, the others are only waited for.
KillNext_FirstOnly ==
  /\ step = "kill"
  /\ told' = IF handlers[index] # NoPid /\ proc[handlers[index]] \in Running
                /\ index = 1
             THEN [told EXCEPT ![handlers[index]] = TRUE] ELSE told
  /\ Advance("wait")
  /\ UNCHANGED <<handler, handlers, children_changed, stop_requested, proc,
                 session>>

\* SIGTERM for the handler in one slot.
KillNext ==
  /\ step = "kill"
  /\ told' = IF handlers[index] # NoPid /\ proc[handlers[index]] \in Running
             THEN [told EXCEPT ![handlers[index]] = TRUE] ELSE told
  /\ Advance("wait")
  /\ UNCHANGED <<handler, handlers, children_changed, stop_requested, proc,
                 session>>

\* MUTANT of WaitNext: a signal ends the wait.
WaitNext_Interrupted ==
  /\ step = "wait"
  /\ LET p == handlers[index] IN
     \/ p = NoPid /\ UNCHANGED proc
     \/ p # NoPid /\ UNCHANGED proc
     \/ p # NoPid /\ Collect(p)
  /\ Advance("exited")
  /\ UNCHANGED <<handler, handlers, children_changed, stop_requested, told,
                 session>>

\* Waits for the handler in one slot, for as long as it takes.
WaitNext ==
  /\ step = "wait"
  /\ LET p == handlers[index] IN
     \/ p = NoPid /\ UNCHANGED proc
     \/ p # NoPid /\ Collect(p)
  /\ Advance("exited")
  /\ UNCHANGED <<handler, handlers, children_changed, stop_requested, told,
                 session>>

-----------------------------------------------------------------------------
(* The handler of one session *)

\* MUTANT of Ends: the signal handler waits for the child itself.
Ends_ReapedAtOnce(p) ==
  /\ proc' = [proc EXCEPT ![p] = "free"]
  /\ handlers' = [s \in Slots |-> IF handlers[s] = p THEN NoPid
                                  ELSE handlers[s]]
  /\ UNCHANGED <<step, index, handler, children_changed>>

\* The handler exits.  Its parent gets SIGCHLD; without a parent, init waits.
Ends(p) ==
  /\ proc' = [proc EXCEPT ![p] = IF step = "killed" THEN "free" ELSE "zombie"]
  /\ children_changed' = TRUE
  /\ UNCHANGED parent

\* The client is not ours, is too slow or goes away, or no terminal is left.
HandshakeFails(p) ==
  /\ proc[p] = "greet"
  /\ Ends(p)
  /\ UNCHANGED <<stop_requested, told, session>>

HandshakeOk(p) ==
  /\ proc[p] = "greet"
  /\ proc' = [proc EXCEPT ![p] = "loop"]
  /\ shell_pid' = [shell_pid EXCEPT ![p] = TRUE]
  /\ shell' = [shell EXCEPT ![p] = "running"]
  /\ UNCHANGED <<parent, children_changed, stop_requested, told>>

Goes(p, to) ==
  /\ proc' = [proc EXCEPT ![p] = to]
  /\ UNCHANGED <<parent, children_changed, stop_requested, told>>

LoopStops(p) ==
  /\ proc[p] = "loop" /\ told[p]
  /\ Goes(p, "close")
  /\ UNCHANGED session

\* MUTANT of ShellReaped: the variable keeps the process ID.
ShellReaped_KeepsPid(p) ==
  /\ proc[p] = "loop" /\ ~told[p] /\ shell[p] = "ended"
  /\ shell' = [shell EXCEPT ![p] = "none"]
  /\ Goes(p, "close")
  /\ UNCHANGED shell_pid

\* The shell has ended; what it wrote last may still be unread.
ShellReaped(p) ==
  /\ proc[p] = "loop" /\ ~told[p] /\ shell[p] = "ended"
  /\ shell' = [shell EXCEPT ![p] = "none"]
  /\ shell_pid' = [shell_pid EXCEPT ![p] = FALSE]
  /\ Goes(p, "close")

Polls(p) ==
  /\ proc[p] = "loop" /\ ~told[p] /\ shell[p] = "running"
  /\ Goes(p, "poll")
  /\ UNCHANGED session

\* Nothing to do (again), or an end of the connection is gone.
PollEnds(p) ==
  /\ proc[p] = "poll"
  /\ \E to \in {"loop", "close"} : Goes(p, to)
  /\ UNCHANGED session

\* There is something to pass on.
Relays(p) ==
  /\ proc[p] = "poll"
  /\ Goes(p, "relay")
  /\ UNCHANGED session

\* It has been passed on, or could not be.  The reads and writes block and
\* take no notice of signals.
RelayEnds(p) ==
  /\ proc[p] = "relay"
  /\ \E to \in {"loop", "close"} : Goes(p, to)
  /\ UNCHANGED session

\* stop_shell: a shell that has ended needs no signal.
CloseEnds(p) ==
  /\ proc[p] = "close"
  /\ ~shell_pid[p] \/ shell[p] = "ended"
  /\ shell' = [shell EXCEPT ![p] = "none"]
  /\ Ends(p)
  /\ UNCHANGED <<stop_requested, told, shell_pid>>

\* SIGHUP, then SIGTERM, then SIGKILL for the shell's process group.
Harder == [close |-> "hup", hup |-> "term", term |-> "kill"]

Insists(p) ==
  /\ proc[p] \in DOMAIN Harder
  /\ shell_pid[p] /\ shell[p] # "ended"
  /\ Goes(p, Harder[proc[p]])
  /\ UNCHANGED session

\* The wait between two signals, or the last one, finds the shell ended.
StopShellEnds(p) ==
  /\ proc[p] \in {"hup", "term", "kill"} /\ shell[p] = "ended"
  /\ shell' = [shell EXCEPT ![p] = "none"]
  /\ Ends(p)
  /\ UNCHANGED <<stop_requested, told, shell_pid>>

-----------------------------------------------------------------------------
(* The world around them *)

\* The user leaves the shell, or a signal ends it.
ShellEnds(p) ==
  /\ shell[p] = "running"
  /\ shell' = [shell EXCEPT ![p] = "ended"]
  /\ UNCHANGED <<parent, children_changed, stop_requested, proc, told,
                 shell_pid>>

KilledShellEnds(p) == proc[p] = "kill" /\ ShellEnds(p)

\* The supervisor's clean-up signals the parent; systemd signals every
\* process of the service.
Terminate(all) ==
  /\ step \notin Gone
  /\ stop_requested' = TRUE
  /\ told' = IF all THEN [p \in Pids |-> proc[p] \in Running \/ told[p]]
                    ELSE told
  /\ UNCHANGED <<parent, children_changed, proc, session>>

\* The supervisor waits for a second, then it uses SIGKILL.
SupervisorKills ==
  /\ stop_requested /\ step \notin Gone
  /\ step' = "killed"
  /\ proc' = [p \in Pids |-> IF proc[p] = "zombie" THEN "free" ELSE proc[p]]
  /\ UNCHANGED <<index, handler, handlers, children_changed, stop_requested,
                 told, session>>

-----------------------------------------------------------------------------
Parent ==
  \/ Start \/ Top \/ (\E p \in Pids : Reap(p)) \/ ReapEnds \/ Clear
  \/ PollAgain \/ ListenerFails \/ (\E p \in Pids : Fork(p)) \/ Record
  \/ KillNext \/ WaitNext

Handler(p) ==
  \/ HandshakeFails(p) \/ HandshakeOk(p)
  \/ LoopStops(p) \/ ShellReaped(p) \/ Polls(p) \/ PollEnds(p) \/ Relays(p)
  \/ CloseEnds(p) \/ Insists(p) \/ StopShellEnds(p)

Next ==
  \/ Parent
  \/ \E p \in Pids : Handler(p) \/ RelayEnds(p) \/ ShellEnds(p)
  \/ \E all \in BOOLEAN : Terminate(all)
  \/ SupervisorKills

\* No fairness for a relay: a terminal whose reader is stuck may block it.
Fairness ==
  /\ WF_vars(Parent)
  /\ \A p \in Pids : WF_vars(Handler(p)) /\ WF_vars(KilledShellEnds(p))

Spec == Init /\ [][Next]_vars /\ Fairness

-----------------------------------------------------------------------------
TypeOK ==
  /\ step \in Steps /\ index \in Slots
  /\ handler \in Pids \cup {NoPid}
  /\ handlers \in [Slots -> Pids \cup {NoPid}]
  /\ children_changed \in BOOLEAN /\ stop_requested \in BOOLEAN
  /\ proc \in [Pids -> Running \cup {"free", "zombie"}]
  /\ told \in [Pids -> BOOLEAN]
  /\ shell_pid \in [Pids -> BOOLEAN]
  /\ shell \in [Pids -> {"none", "running", "ended"}]

Recorded(p) == \E s \in Slots : handlers[s] = p

\* No signal reaches a stranger and no session is left over.  While the parent
\* serves clients, the slots hold each of its children once and nothing else,
\* but for the child it has just forked; when it has returned from main, there
\* is no handler, and no shell that a handler has not waited for.  A handler
\* that signals its shell has not waited for that shell yet.  So neither of
\* the process IDs that are signalled can belong to another process by then
\* (uu_terminal_bridge.c lines 303 to 307, 318 to 326 and 447 to 477).
ChildrenAccounted ==
  /\ step \notin {"wait"} \cup Gone =>
       /\ \A p \in Pids : proc[p] # "free" <=> Recorded(p) \/ handler = p
       /\ \A s \in Slots : handlers[s] = handler => handlers[s] = NoPid
  /\ \A s \in Slots, r \in Slots :
       handlers[s] = handlers[r] /\ handlers[s] # NoPid => s = r
  /\ step = "exited" => \A p \in Pids : proc[p] = "free" /\ shell[p] = "none"
  /\ \A p \in Pids :
       proc[p] \in {"hup", "term", "kill"} => shell[p] # "none"

\* The bridge is never full of the dead.  SIGCHLD may be lost between the
\* last waitpid and the reset of the flag (line 326), and then a slot stays
\* taken; but some slot is free, or a reap is under way, or a child still
\* lives whose end will raise the flag again.
NotWedged ==
  step \in {"top", "poll"} =>
    \/ children_changed
    \/ \E s \in Slots : handlers[s] = NoPid
    \/ \E p \in Pids : Recorded(p) /\ proc[p] \in Running

\* Once it is to stop, the bridge ends every session and itself,
\* unless it is killed first or a handler is stuck in a relay for ever
\* (lines 85, 104 and 244).
StopEnds ==
  (\A p \in Pids : []<>(proc[p] # "relay"))
    => (stop_requested \/ step \in {"kill", "wait"} ~> step \in Gone)
=============================================================================
