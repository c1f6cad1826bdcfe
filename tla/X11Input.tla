------------------------------ MODULE X11Input ------------------------------
(***************************************************************************)
(* The native input helper (uu_x11_input.c).  It serves one broker at a     *)
(* time: a batch of key and mouse events is checked as a whole and then     *)
(* injected through XTEST, and what it presses it records, to release it    *)
(* when the broker goes.  A text is handed to two xclip processes that take *)
(* over CLIPBOARD and PRIMARY from those of the text before, pasted with    *)
(* Shift+Insert, and confirmed when an xclip reports a new request.         *)
(*                                                                          *)
(* An event is the sequence of presses and releases it stands for: one for  *)
(* a key, any number for the flags of a mouse event; motion and the scan    *)
(* code tables are left out.  A text is the number of the request it came   *)
(* with.                                                                    *)
(***************************************************************************)
EXTENDS Naturals, Sequences, FiniteSets

CONSTANTS
  Inputs,       \* keys and buttons
  Shift, Insert,
  Events,       \* supported events
  HostApps,     \* applications of the target desktop that own selections
  MaxBatch,     \* bound: events of a batch
  MaxRequests,  \* bound: requests
  MaxRefusals,  \* bound: XTEST calls that fail
  MaxReads      \* bound: requests to one xclip

Moves == [input : Inputs, down : BOOLEAN]

ASSUME ConstantsAssumption ==
  /\ IsFiniteSet(Inputs) /\ Shift \in Inputs /\ Insert \in Inputs /\ Shift # Insert
  /\ Events \subseteq Seq(Moves) \ {<<>>}
  /\ HostApps \cap {"manager", "kept", "fresh", "none"} = {}
  /\ {MaxBatch, MaxRequests, MaxRefusals, MaxReads} \subseteq Nat

Selections == {"CLIPBOARD", "PRIMARY"}
Roles == {"kept", "fresh"}
Owners == HostApps \cup Roles \cup {"manager", "none"}

VARIABLES
  conn,         \* the broker's connection
  sent,         \* requests received
  step,         \* next step of the helper
  sel,          \* the selection it hands over
  batch,        \* the events of the request, <<>>: a text
  ev, mv,       \* the event it injects, and its next move
  answer,       \* the answer it will give
  chord,        \* shift_pressed_here, insert_pressed
  pressed,      \* pressed_keys, pressed_buttons
  stop,         \* stop_requested
  down,         \* what the display holds down for XTEST
  refusals,     \* XTEST calls that failed
  refused,      \* history: inputs the helper could not let go of
  owner,        \* owner of each selection
  before,       \* previous_owner of start_selection_owner
  proc,         \* the xclip processes of a selection
  text,         \* the text the fresh pair offers
  served,       \* completed_selection_requests of the fresh xclips
  baseline,     \* clipboard_baseline, primary_baseline
  restoring,    \* selections the clipboard manager found without an owner
  due,          \* Shift+Insert chords the target has not acted on
  stale,        \* history: selections that offer what they did before the text
  prior,        \* history: down when the request came
  pasted,       \* history: the target has asked for the text of the request
  late,         \* history: another client read the text after the baseline
  staleRead     \* history: owners that gave the target an old text

helper == <<step, sel, batch, ev, mv, answer, chord, pressed>>
keys == <<down, refusals, refused>>
x11 == <<owner, proc, served>>
local == <<before, text, baseline>>
target == <<restoring, due>>
history == <<stale, prior, pasted, late, staleRead>>
vars == <<conn, sent, stop, helper, keys, x11, local, target, history>>

Handoff == {"start", "watch", "settle", "retire"}
Pasting == {"insert", "uninsert", "unshift", "await"}
Steps == {"accept", "hello", "receive", "event", "shift", "undo", "drop", "reply",
          "release", "exit", "gone", "killed"} \cup Handoff \cup Pasting

TypeOK ==
  /\ conn \in {"none", "open", "closed"} /\ sent \in 0..MaxRequests /\ stop \in BOOLEAN
  /\ step \in Steps /\ sel \in Selections
  /\ batch \in Seq(Events) /\ ev \in Nat /\ mv \in Nat
  /\ answer \in {"none", "ok", "unsupported", "injection"}
  /\ chord \subseteq {Shift, Insert} /\ pressed \subseteq Inputs
  /\ down \subseteq Inputs /\ refusals \in 0..MaxRefusals /\ refused \subseteq Inputs
  /\ owner \in [Selections -> Owners] /\ before \in Owners
  /\ proc \in [Selections -> [Roles -> {"none", "starting", "running", "ending", "ended"}]]
  /\ text \in Nat /\ served \in [Selections -> Nat] /\ baseline \in [Selections -> Nat]
  /\ restoring \subseteq Selections /\ due \in Nat
  /\ stale \subseteq Selections /\ prior \subseteq Inputs
  /\ pasted \in BOOLEAN /\ late \in BOOLEAN /\ staleRead \subseteq Owners

Init ==
  /\ conn = "none" /\ sent = 0 /\ stop = FALSE
  /\ step = "accept" /\ sel = "CLIPBOARD" /\ batch = <<>> /\ ev = 1 /\ mv = 1
  /\ answer = "none" /\ chord = {} /\ pressed = {}
  /\ down = {} /\ refusals = 0 /\ refused = {}
  /\ owner \in [Selections -> HostApps] /\ before = "none"
  /\ proc = [s \in Selections |-> [r \in Roles |-> "none"]]
  /\ text = 0
  /\ served = [s \in Selections |-> 0] /\ baseline = [s \in Selections |-> 0]
  /\ restoring = {} /\ due = 0
  /\ stale = {} /\ prior = {} /\ pasted = FALSE /\ late = FALSE /\ staleRead = {}

-----------------------------------------------------------------------------
(* The helper's main loop and serve_client.                                *)

NewAnswer(a) == step' = "reply" /\ answer' = a

\* accept; the descriptor of the client is known to the signal handler.
Accept ==
  /\ step = "accept" /\ conn = "open" /\ ~stop
  /\ step' = "hello"
  /\ UNCHANGED <<conn, sent, stop, sel, batch, ev, mv, answer, chord, pressed, keys, x11,
                 local, target, history>>

\* The handler closed the listener.
AcceptEnds ==
  /\ step = "accept" /\ stop
  /\ step' = "exit"
  /\ UNCHANGED <<conn, sent, stop, sel, batch, ev, mv, answer, chord, pressed, keys, x11,
                 local, target, history>>

Handshake ==
  /\ step = "hello"
  /\ \/ conn = "open" /\ step' = "receive"
     \/ step' = "release"
  /\ UNCHANGED <<conn, sent, stop, sel, batch, ev, mv, answer, chord, pressed, keys, x11,
                 local, target, history>>

\* Every event of a batch is translated before the first one is injected.
ReceiveBatch ==
  /\ step = "receive" /\ conn = "open" /\ ~stop /\ sent < MaxRequests
  /\ sent' = sent + 1 /\ prior' = down
  /\ \E n \in 1..MaxBatch : batch' \in [1..n -> Events]
  /\ ev' = 1 /\ mv' = 1
  /\ \/ step' = "event" /\ answer' = "none"
     \/ NewAnswer("unsupported")
  /\ pasted' = FALSE
  /\ UNCHANGED <<conn, stop, sel, chord, pressed, keys, x11, local, target, stale, late, staleRead>>

\* A text that is not valid UTF-16 is refused, half a surrogate pair is kept
\* for the next request, and a display may have no Shift or Insert key.
ReceiveText ==
  /\ step = "receive" /\ conn = "open" /\ ~stop /\ sent < MaxRequests
  /\ sent' = sent + 1 /\ prior' = down /\ pasted' = FALSE /\ batch' = <<>>
  /\ \/ step' = "start" /\ answer' = "none"
     \/ \E a \in {"unsupported", "ok", "injection"} : NewAnswer(a)
  /\ sel' = "CLIPBOARD"
  /\ IF step' = "start"
       THEN /\ proc' = [s \in Selections |-> [kept |-> proc[s]["fresh"], fresh |-> "none"]]
            /\ owner' = [s \in Selections |->
                           IF owner[s] = "fresh" THEN "kept" ELSE owner[s]]
            /\ text' = sent + 1
            /\ stale' = Selections
       ELSE UNCHANGED <<proc, owner, text, stale>>
  /\ UNCHANGED <<conn, stop, ev, mv, chord, pressed, keys, served, before, baseline, target,
                 late, staleRead>>

\* The broker has gone, or the signal handler closed its connection.
ReceiveEnds ==
  /\ step = "receive" /\ (conn = "closed" \/ stop)
  /\ step' = "release"
  /\ UNCHANGED <<conn, sent, stop, sel, batch, ev, mv, answer, chord, pressed, keys, x11,
                 local, target, history>>

\* What belongs to one request is forgotten.
Reply ==
  /\ step = "reply"
  /\ step' = IF conn = "open" /\ ~stop THEN "receive" ELSE "release"
  /\ batch' = <<>> /\ ev' = 1 /\ mv' = 1 /\ sel' = "CLIPBOARD" /\ answer' = "none"
  /\ served' = [s \in Selections |-> 0] /\ baseline' = [s \in Selections |-> 0]
  /\ stale' = {} /\ prior' = {} /\ pasted' = FALSE /\ late' = FALSE /\ staleRead' = {}
  /\ UNCHANGED <<conn, sent, stop, chord, pressed, keys, owner, proc, before, text, target>>

-----------------------------------------------------------------------------
(* Keys and buttons.                                                       *)

Apply(held, m) == IF m.down THEN held \cup {m.input} ELSE held \ {m.input}

\* One press or release, and its place in the batch.
Inject ==
  /\ step = "event"
  /\ LET m == batch[ev][mv] IN
       /\ down' = Apply(down, m)
       /\ pressed' = Apply(pressed, m)
  /\ IF mv < Len(batch[ev])
       THEN mv' = mv + 1 /\ UNCHANGED <<ev, step, answer>>
       ELSE /\ mv' = 1
            /\ IF ev < Len(batch)
                 THEN ev' = ev + 1 /\ UNCHANGED <<step, answer>>
                 ELSE NewAnswer("ok") /\ UNCHANGED ev
  /\ UNCHANGED <<conn, sent, stop, sel, batch, chord, refusals, refused, x11, local, target, history>>

\* A refused call changes neither the display nor the record.
Refuse == refusals < MaxRefusals /\ refusals' = refusals + 1 /\ UNCHANGED <<down, refused>>

\* MUTANT: an event without a mapping is noticed when its turn comes.
InjectFails_Unsupported ==
  /\ step = "event" /\ Refuse
  /\ NewAnswer("unsupported")
  /\ UNCHANGED <<conn, sent, stop, sel, batch, ev, mv, chord, pressed, x11, local, target, history>>

InjectFails ==
  /\ step = "event" /\ Refuse
  /\ NewAnswer("injection")
  /\ UNCHANGED <<conn, sent, stop, sel, batch, ev, mv, chord, pressed, x11, local, target, history>>

\* The paste chord.  An input the chord pressed is the chord's until released.
Chord(from, to) ==
  /\ step = from /\ step' = to
  /\ UNCHANGED <<conn, sent, stop, sel, batch, ev, mv, answer, pressed, x11, local, history>>

Press(i) ==
  /\ down' = down \cup {i} /\ chord' = chord \cup {i}
  /\ UNCHANGED <<refusals, refused>>

Release(i) ==
  /\ down' = down \ {i} /\ chord' = chord \ {i}
  /\ UNCHANGED <<refusals, refused>>

\* MUTANT: Shift is the chord's even when the client holds it.
PressShift_Always ==
  /\ Chord("shift", "insert")
  /\ Press(Shift)
  /\ UNCHANGED target

PressShift ==
  /\ Chord("shift", "insert")
  /\ IF Shift \in pressed THEN UNCHANGED <<keys, chord>> ELSE Press(Shift)
  /\ UNCHANGED target

PressInsert ==
  /\ Chord("insert", "uninsert")
  /\ Press(Insert)
  /\ due' = due + 1 /\ UNCHANGED restoring

ReleaseInsert ==
  /\ Chord("uninsert", "unshift")
  /\ Release(Insert)
  /\ UNCHANGED target

ReleaseShift ==
  /\ Chord("unshift", "await")
  /\ IF Shift \in chord THEN Release(Shift) ELSE UNCHANGED <<keys, chord>>
  /\ UNCHANGED target

ChordFails ==
  /\ \/ step = "shift" /\ Shift \notin pressed
     \/ step \in {"insert", "uninsert"}
     \/ step = "unshift" /\ Shift \in chord
  /\ Refuse
  /\ step' = "undo" /\ answer' = "injection"
  /\ UNCHANGED <<conn, sent, stop, sel, batch, ev, mv, chord, pressed, x11, local, target, history>>

\* Releases nobody looks at the result of.
LetGo(held) ==
  \E r \in SUBSET held :
    /\ refusals + Cardinality(r) <= MaxRefusals
    /\ refusals' = refusals + Cardinality(r)
    /\ down' = down \ (held \ r)
    /\ refused' = refused \cup r

\* MUTANT: Shift stays down when the chord fails.
UndoChord_InsertOnly ==
  /\ step = "undo"
  /\ LetGo(chord \cap {Insert}) /\ chord' = {}
  /\ step' = "drop"
  /\ UNCHANGED <<conn, sent, stop, sel, batch, ev, mv, answer, pressed, x11, local, target, history>>

UndoChord ==
  /\ step = "undo"
  /\ LetGo(chord) /\ chord' = {}
  /\ step' = "drop"
  /\ UNCHANGED <<conn, sent, stop, sel, batch, ev, mv, answer, pressed, x11, local, target, history>>

\* release_pressed_inputs; then main closes the connection.
ReleaseAll ==
  /\ step = "release"
  /\ LetGo(pressed) /\ pressed' = {}
  /\ conn' = "none"
  /\ step' = IF stop THEN "exit" ELSE "accept"
  /\ UNCHANGED <<sent, stop, sel, batch, ev, mv, answer, chord, x11, local, target, history>>

-----------------------------------------------------------------------------
(* The handoff of both selections (start_clipboard_owner).                 *)

\* stop_selection_owner for the pair in role r: a selection it owns has no owner.
StopPair(r) ==
  /\ proc' = [s \in Selections |-> [proc[s] EXCEPT ![r] = "none"]]
  /\ owner' = [s \in Selections |-> IF owner[s] = r THEN "none" ELSE owner[s]]

SetProc(s, r, p) == proc' = [proc EXCEPT ![s] = [@ EXCEPT ![r] = p]]

Fails(at) == step' = at /\ answer' = "injection"

\* MUTANT: the old pair is stopped before the new one is started.
StartOwner_StopsOld ==
  /\ step = "start"
  /\ step' = "watch" /\ before' = owner[sel]
  /\ proc' = [proc EXCEPT ![sel] = [kept |-> "none", fresh |-> "starting"]]
  /\ owner' = [owner EXCEPT ![sel] = IF @ = "kept" THEN "none" ELSE @]
  /\ served' = [served EXCEPT ![sel] = 0]
  /\ UNCHANGED <<conn, sent, stop, sel, batch, ev, mv, answer, chord, pressed, keys, text,
                 baseline, target, history>>

StartOwner ==
  /\ step = "start"
  /\ step' = "watch" /\ before' = owner[sel]
  /\ SetProc(sel, "fresh", "starting")
  /\ served' = [served EXCEPT ![sel] = 0]
  /\ UNCHANGED <<conn, sent, stop, sel, batch, ev, mv, answer, chord, pressed, keys, owner, text,
                 baseline, target, history>>

StartFails ==
  /\ step = "start" /\ Fails("retire")
  /\ UNCHANGED <<conn, sent, stop, sel, batch, ev, mv, chord, pressed, keys, x11, local, target,
                 history>>

\* Any owner but none and the one before counts.
OwnerIsNew ==
  /\ step = "watch" /\ owner[sel] \notin {"none", before}
  /\ IF sel = "CLIPBOARD" THEN sel' = "PRIMARY" /\ step' = "start"
                          ELSE step' = "settle" /\ UNCHANGED sel
  /\ before' = "none"
  /\ UNCHANGED <<conn, sent, stop, batch, ev, mv, answer, chord, pressed, keys, x11, text, baseline,
                 target, history>>

\* MUTANT: the paste goes ahead although no new owner showed up.
OwnerIsOld_Ignored ==
  /\ step = "watch" /\ owner[sel] \in {"none", before}
  /\ step' = "shift"
  /\ UNCHANGED <<conn, sent, stop, sel, batch, ev, mv, answer, chord, pressed, keys, x11, local,
                 target, history>>

\* Half a second without one, or the xclip has ended.
OwnerIsOld ==
  /\ step = "watch" /\ owner[sel] \in {"none", before}
  /\ Fails("retire")
  /\ SetProc(sel, "fresh", "none")
  /\ before' = "none"
  /\ UNCHANGED <<conn, sent, stop, sel, batch, ev, mv, chord, pressed, keys, owner, served, text,
                 baseline, target, history>>

\* Both have printed that they wait for a request, and requests have been
\* quiet for a while; what has been asked so far is the baseline.
Settle ==
  /\ step = "settle" /\ ~stop
  /\ \A s \in Selections : proc[s]["fresh"] \in {"running", "ending", "ended"}
  /\ step' = "retire" /\ baseline' = served
  /\ UNCHANGED <<conn, sent, stop, sel, batch, ev, mv, answer, chord, pressed, keys, x11, before,
                 text, target, history>>

SettleFails ==
  /\ step = "settle" /\ Fails("retire")
  /\ UNCHANGED <<conn, sent, stop, sel, batch, ev, mv, chord, pressed, keys, x11, local, target,
                 history>>

\* MUTANT: the old pair is stopped only when the new one is in place.
Retire_WhenReady ==
  /\ step = "retire"
  /\ IF answer = "injection" THEN UNCHANGED <<proc, owner>> ELSE StopPair("kept")
  /\ step' = IF answer = "injection" THEN "drop" ELSE "shift"
  /\ UNCHANGED <<conn, sent, stop, sel, batch, ev, mv, answer, chord, pressed, keys, served, local,
                 target, history>>

Retire ==
  /\ step = "retire"
  /\ StopPair("kept")
  /\ step' = IF answer = "injection" THEN "drop" ELSE "shift"
  /\ UNCHANGED <<conn, sent, stop, sel, batch, ev, mv, answer, chord, pressed, keys, served, local,
                 target, history>>

\* MUTANT: requests since the xclip was started count.
Requested_Any == \E s \in Selections : served[s] > 0

Requested == \E s \in Selections : served[s] > baseline[s]

PasteSeen ==
  /\ step = "await" /\ ~stop /\ Requested
  /\ NewAnswer("ok")
  /\ UNCHANGED <<conn, sent, stop, sel, batch, ev, mv, chord, pressed, keys, x11, local, target,
                 history>>

\* MUTANT: the wait has no deadline.
PasteUnseen_Waits ==
  /\ step = "await" /\ stop
  /\ Fails("drop")
  /\ UNCHANGED <<conn, sent, stop, sel, batch, ev, mv, chord, pressed, keys, x11, local, target,
                 history>>

\* The deadline, a signal, or an xclip that has ended.
PasteUnseen ==
  /\ step = "await" /\ (stop \/ ~Requested)
  /\ Fails("drop")
  /\ UNCHANGED <<conn, sent, stop, sel, batch, ev, mv, chord, pressed, keys, x11, local, target,
                 history>>

\* MUTANT: the pair of a failed text stays.
Drop_Keeps ==
  /\ step = "drop"
  /\ step' = "reply"
  /\ UNCHANGED <<conn, sent, stop, sel, batch, ev, mv, answer, chord, pressed, keys, x11, local,
                 target, history>>

\* stop_clipboard_owner.
Drop ==
  /\ step = "drop"
  /\ StopPair("fresh")
  /\ step' = "reply"
  /\ UNCHANGED <<conn, sent, stop, sel, batch, ev, mv, answer, chord, pressed, keys, served, local,
                 target, history>>

Exit ==
  /\ step = "exit"
  /\ StopPair("fresh")
  /\ step' = "gone"
  /\ UNCHANGED <<conn, sent, stop, sel, batch, ev, mv, answer, chord, pressed, keys, served, local,
                 target, history>>

HelperStep ==
  \/ Accept \/ AcceptEnds \/ Handshake \/ ReceiveEnds \/ Reply
  \/ Inject \/ InjectFails \/ ReleaseAll
  \/ PressShift \/ PressInsert \/ ReleaseInsert \/ ReleaseShift \/ ChordFails \/ UndoChord
  \/ StartOwner \/ StartFails \/ OwnerIsNew \/ OwnerIsOld \/ Settle \/ SettleFails \/ Retire
  \/ PasteSeen \/ PasteUnseen \/ Drop \/ Exit

-----------------------------------------------------------------------------
(* The surroundings.                                                       *)

Others == <<sent, helper, keys, local>>

BrokerConnects ==
  /\ conn = "none" /\ ~stop
  /\ conn' = "open"
  /\ UNCHANGED <<Others, stop, x11, target, history>>

\* A broker that ends, or has waited long enough for an answer.
BrokerCloses ==
  /\ conn = "open" /\ conn' = "closed"
  /\ UNCHANGED <<Others, stop, x11, target, history>>

\* SIGTERM closes listener and connection and ends the xclips it knows of.
Stop ==
  /\ ~stop /\ stop' = TRUE
  /\ conn' = IF conn = "open" THEN "closed" ELSE conn
  /\ proc' = [s \in Selections |->
                [proc[s] EXCEPT !["fresh"] =
                   IF @ = "starting" THEN "ended" ELSE IF @ = "running" THEN "ending" ELSE @]]
  /\ UNCHANGED <<Others, owner, served, target, history>>

\* SIGKILL, or the X server closed the connection.
Die ==
  /\ step' = "killed"
  /\ UNCHANGED <<conn, sent, stop, sel, batch, ev, mv, answer, chord, pressed, keys, x11, local,
                 target, history>>

\* A selection changes hands: an xclip that loses it ends.
Takes(s, o) ==
  /\ owner' = [owner EXCEPT ![s] = o]
  /\ proc' = [proc EXCEPT ![s] =
                [r \in Roles |-> IF r = o THEN "running"
                                 ELSE IF r = owner[s] /\ @[r] = "running" THEN "ending" ELSE @[r]]]

XclipOwns(s) ==
  /\ proc[s]["fresh"] = "starting"
  /\ Takes(s, "fresh") /\ stale' = stale \ {s}
  /\ UNCHANGED <<conn, stop, Others, served, target, prior, pasted, late, staleRead>>

XclipEnds(s, r) ==
  /\ proc[s][r] = "ending"
  /\ SetProc(s, r, "ended")
  /\ owner' = [owner EXCEPT ![s] = IF @ = r THEN "none" ELSE @]
  /\ UNCHANGED <<conn, stop, Others, served, target, history>>

HostCopies(s, a) ==
  /\ owner[s] # a
  /\ Takes(s, a) /\ stale' = stale \ {s}
  /\ UNCHANGED <<conn, stop, Others, served, target, prior, pasted, late, staleRead>>

\* The clipboard manager keeps a copy and offers it when the owner is gone.
ManagerNotices(s) ==
  /\ owner[s] = "none" /\ restoring' = restoring \cup {s}
  /\ UNCHANGED <<conn, stop, Others, x11, due, history>>

ManagerRestores(s) ==
  /\ s \in restoring /\ restoring' = restoring \ {s}
  /\ Takes(s, "manager") /\ stale' = stale \cup {s}
  /\ UNCHANGED <<conn, stop, Others, served, due, prior, pasted, late, staleRead>>

Serves(s, r) == owner[s] = r /\ proc[s][r] = "running"

Count(s) == served' = [served EXCEPT ![s] = @ + 1]

\* The clipboard manager, or any other client, reads the new text; the helper
\* looks at the count only during a request.
OtherReads(s) ==
  /\ Serves(s, "fresh") /\ served[s] + due < MaxReads /\ step \in Handoff \cup Pasting
  /\ Count(s)
  /\ late' = (late \/ step \in {"retire", "shift"} \cup Pasting)
  /\ UNCHANGED <<conn, stop, Others, owner, proc, target, stale, prior, pasted, staleRead>>

\* The target acts on a chord: it asks the owner of one selection.
TargetPastes(s) ==
  /\ due > 0 /\ due' = due - 1
  /\ pasted' = (pasted \/ (Serves(s, "fresh") /\ text = sent))
  /\ IF Serves(s, "fresh") THEN Count(s) ELSE UNCHANGED served
  /\ staleRead' = IF step \in Pasting /\ s \in stale /\ owner[s] # "none"
                   THEN staleRead \cup {owner[s]} ELSE staleRead
  /\ UNCHANGED <<conn, stop, Others, owner, proc, restoring, stale, prior, late>>

Outside ==
  \/ BrokerConnects \/ BrokerCloses \/ Stop \/ Die
  \/ \E s \in Selections :
       \/ XclipOwns(s) \/ \E r \in Roles : XclipEnds(s, r)
       \/ \E a \in HostApps : HostCopies(s, a)
       \/ ManagerNotices(s) \/ ManagerRestores(s) \/ OtherReads(s) \/ TargetPastes(s)

\* Nothing is of interest after the helper has ended.
Surroundings == step \notin {"gone", "killed"} /\ Outside

Next == HelperStep \/ ReceiveBatch \/ ReceiveText \/ Surroundings

Spec == Init /\ [][Next]_vars

\* The helper goes on by itself: every wait of a request has a deadline.
FairSpec == Spec /\ WF_vars(HelperStep)

-----------------------------------------------------------------------------
(* Properties.                                                             *)

\* "Held keys and buttons are released when the broker disconnects": without a
\* client the display holds nothing, except what it refused to let go of while
\* the helper was not looking (serve_client, inject_clipboard_text).
HeldNeedsClient == step \in {"accept", "exit", "gone"} => down \subseteq refused

\* A text leaves the client's keys as they were, whether it is pasted, refused
\* or fails in the middle of the chord, and whether or not the client holds
\* Shift.  Only a client that holds Insert itself loses it (inject_clipboard_text).
TextLeavesKeysAlone ==
  step = "reply" /\ batch = <<>> =>
    down \ (refused \cup {Insert}) = prior \ (refused \cup {Insert})

\* "requires a new CLIPBOARD or PRIMARY request before it reports success": the
\* target has pasted an acknowledged text, unless another client read it after
\* the readers had been quiet (selection_owners_quiet, wait_for_selection_request).
OkMeansPasted ==
  step = "reply" /\ batch = <<>> /\ answer = "ok" /\ text = sent /\ ~late
    => pasted

\* "fails closed instead of pasting stale user data": while the helper pastes,
\* only a clipboard manager that restores a selection left without an owner can
\* give the target what was copied before the text came (start_selection_owner).
NoStalePaste == staleRead \subseteq {"manager"}

\* "An ownership handoff must not look like a clipboard loss": a selection an
\* xclip owns loses its owner only when a text fails or the helper is stopped
\* (start_clipboard_owner).
NoOwnerGap ==
  [][\A s \in Selections :
       owner[s] \in Roles /\ owner'[s] = "none" => stop \/ answer = "injection"]_vars

Live(s, r) == proc[s][r] \in {"starting", "running"}

\* A helper that ends in order leaves no xclip behind, wherever in a handoff
\* the signal found it: two pairs are there then, and the signal handler only
\* knows the new one (handle_signal, start_clipboard_owner, main).
NoXclipLeft == step = "gone" => \A s \in Selections, r \in Roles : ~Live(s, r)

\* Whatever the helper is doing for a broker that goes away, what it holds is
\* released, unless the helper is killed first.
HeldReleased == conn = "closed" ~> (down \subseteq refused \/ step = "killed")

-----------------------------------------------------------------------------
(* The inductive invariant behind the safety properties.                   *)

Paste == {"shift"} \cup Pasting
TextSteps == Handoff \cup Paste \cup {"undo", "drop"}

\* What is down is on record: the client's, the chord's, or refused.
KeysRecorded ==
  /\ step = "event" => batch # <<>> /\ ev \in 1..Len(batch) /\ mv \in 1..Len(batch[ev])
  /\ down \subseteq pressed \cup chord \cup refused
  /\ step \in {"accept", "exit", "gone"} => pressed = {}
  /\ chord # {} => step \in {"insert", "uninsert", "unshift", "undo", "killed"}
  /\ step \in {"insert", "unshift"} => Insert \notin chord

\* A text request changes nothing but the chord, and only what was up.
ChordApart ==
  /\ step \in TextSteps =>
       /\ batch = <<>> /\ text = sent
       /\ down \ (refused \cup chord \cup {Insert}) = prior \ (refused \cup chord \cup {Insert})
  /\ Shift \in chord => Shift \notin prior \ refused
  /\ TextLeavesKeysAlone

\* The fresh xclip of selection s has owned it.
HasOwned(s) == proc[s]["fresh"] \in {"running", "ending", "ended"}

\* Past the baseline: in the retirement of a sound handoff and in the paste.
Settled == (step = "retire" /\ answer # "injection") \/ step \in Paste

\* A text that was answered with an injection error is not there to be pasted
\* later: no xclip offers it (stop_clipboard_owner).
FailedTextWithdrawn ==
  step = "reply" /\ batch = <<>> /\ answer = "injection" /\ text = sent =>
    \A s \in Selections : ~Live(s, "fresh")

HandoffSound ==
  /\ step \in {"undo", "drop"} => answer = "injection"
  /\ step \in {"start", "watch", "settle"} \cup Paste => answer = "none"
  /\ step = "retire" => answer \in {"none", "injection"}
  /\ step = "exit" => stop
  /\ step \notin Handoff \cup {"killed"} =>
       \A s \in Selections : owner[s] # "kept" /\ ~Live(s, "kept")
  /\ \A s \in Selections, r \in Roles : proc[s][r] = "ending" /\ owner[s] = r => stop
  /\ \A s \in Selections :
       Settled \/ (step \in Handoff /\ ~stop /\ HasOwned(s)) =>
         owner[s] # "kept" /\ (s \in stale => owner[s] = "manager")
  /\ NoStalePaste /\ FailedTextWithdrawn /\ NoXclipLeft

RequestsCounted ==
  /\ text <= sent
  /\ Settled /\ ~late /\ Requested => pasted
  /\ step = "reply" /\ answer = "unsupported" => text # sent
  /\ OkMeansPasted

IInv == TypeOK /\ KeysRecorded /\ ChordApart /\ HandoffSound /\ RequestsCounted

-----------------------------------------------------------------------------
(* The helper as the broker sees it.                                       *)

Serving == step \in {"event", "reply"} \cup TextSteps

\* The move n of event e has been made.
Made(e, n) ==
  \/ step = "reply" /\ answer = "ok"
  \/ e < ev \/ (e = ev /\ n < mv)

Kind == IF ~Serving THEN "none" ELSE IF batch = <<>> THEN "text" ELSE "keys"
Asked == IF Serving THEN batch ELSE <<>>
MovesMade == UNION {{<<e, n>> : n \in {m \in DOMAIN Asked[e] : Made(e, m)}} : e \in DOMAIN Asked}
Inserted == Kind = "text" /\ pasted
Given == IF step = "reply" THEN answer ELSE "none"

Service == INSTANCE InputService WITH
  ChordKeys <- {Shift, Insert}, display <- down,
  kind <- Kind, batch <- Asked, made <- MovesMade, inserted <- Inserted, reply <- Given

\* Whatever fails, an answer tells the broker what became of its request, as
\* the broker takes it (send_x11_inputs and send_x11_clipboard_text of
\* uu_input_broker.c): nothing of an unsupported request took effect, all of an
\* acknowledged batch did and nothing twice, and a text that failed is not
\* inserted any more (serve_client).
ServesAsPromised == Service!Spec
=============================================================================
