--------------------------- MODULE ClipboardRelay ---------------------------
(***************************************************************************)
(* Controller clipboard text on its way to the host desktop.  A companion   *)
(* in Wine (uu_wine_clipboard_bridge.c) polls the Win32 clipboard and sends *)
(* what GameViewer copied over a loopback connection; a native helper       *)
(* (uu_x11_clipboard.c) hands it to two xclip processes, which are to own   *)
(* CLIPBOARD and PRIMARY, and acknowledges.  Both sides give up on an       *)
(* answer after a second.                                                   *)
(*                                                                          *)
(* A text is represented by the sequence number it was copied under; the    *)
(* encoding is left out.  Connections carry at most one request each way,   *)
(* so a connection is its two buffers.                                      *)
(***************************************************************************)
EXTENDS Naturals, Sequences

CONSTANTS
  Conns,        \* names for connections that one side still has open
  HostApps,     \* applications of the host desktop that own selections
  NoConn,
  MaxCopies     \* bound: changes of the Win32 clipboard

ASSUME ConstantsAssumption ==
  /\ NoConn \notin Conns
  /\ HostApps \cap {"kept", "fresh", "none"} = {}
  /\ MaxCopies \in Nat

Selections == {"CLIPBOARD", "PRIMARY"}
Numbers == 0..MaxCopies

VARIABLES
  seq,          \* sequence number of the Win32 clipboard
  byViewer,     \* the sequence numbers under which GameViewer is the owner
  base,         \* sequence number when the companion started
  delivered,    \* delivered_sequence
  cstep,        \* next step of the companion
  cseq,         \* the sequence it forwards
  csock,        \* clipboard_socket
  request,      \* request waiting in a connection, 0: none
  answer,       \* answer waiting in a connection
  open,         \* ends of a connection that are still open
  backlog,      \* connections the helper has not accepted
  sstep,        \* next step of the helper
  sconn,        \* the connection it serves
  sseq,         \* the request it works on
  owner,        \* owner of each selection
  before,       \* previous_owner of start_owner
  text,         \* text of the kept and of the fresh xclip of a selection
  proc,         \* state of these processes
  done          \* history: texts whose handoff succeeded

win == <<seq, byViewer, base>>
companion == <<delivered, cstep, cseq, csock>>
net == <<request, answer, open, backlog>>
helper == <<sstep, sconn, sseq, before, text, done>>
x11 == <<owner, proc>>
vars == <<win, companion, net, helper, x11>>

Roles == {"kept", "fresh"}
NoAnswer == [kind |-> "none", seq |-> 0]
Answers == [kind : {"none", "hello", "ok", "error"}, seq : Numbers]

TypeOK ==
  /\ seq \in Numbers /\ byViewer \subseteq Numbers /\ base \in Numbers
  /\ delivered \in Numbers /\ cseq \in Numbers
  /\ cstep \in {"poll", "read", "connect", "hello", "await"}
  /\ csock \in Conns \cup {NoConn}
  /\ request \in [Conns -> Numbers] /\ answer \in [Conns -> Answers]
  /\ open \in [Conns -> SUBSET {"client", "server"}]
  /\ backlog \in Seq(Conns)
  /\ sstep \in {"accept", "hello", "wait", "start", "watch", "fail", "keep", "reply"}
                 \X (Selections \cup {"both", "ok", "error"})
  /\ sconn \in Conns \cup {NoConn} /\ sseq \in Numbers
  /\ owner \in [Selections -> HostApps \cup Roles \cup {"none"}]
  /\ before \in HostApps \cup Roles \cup {"none"}
  /\ text \in [Selections -> [Roles -> Numbers]]
  /\ proc \in [Selections -> [Roles -> {"none", "starting", "running"}]]
  /\ done \subseteq Numbers

AcceptStep == <<"accept", "both">>

Init ==
  /\ seq = 0 /\ byViewer \in {{}, {0}} /\ base = 0
  /\ delivered = 0 /\ cstep = "poll" /\ cseq = 0 /\ csock = NoConn
  /\ request = [c \in Conns |-> 0] /\ answer = [c \in Conns |-> NoAnswer]
  /\ open = [c \in Conns |-> {}] /\ backlog = <<>>
  /\ sstep = AcceptStep /\ sconn = NoConn /\ sseq = 0
  /\ owner \in [Selections -> HostApps] /\ before = "none"
  /\ text = [s \in Selections |-> [r \in Roles |-> 0]]
  /\ proc = [s \in Selections |-> [r \in Roles |-> "none"]]
  /\ done = {}

-----------------------------------------------------------------------------
(* The companion.                                                          *)

\* Back to the loop; the socket is closed after a failure.
DropSocket ==
  /\ csock' = NoConn
  /\ open' = IF csock = NoConn THEN open
             ELSE [open EXCEPT ![csock] = @ \ {"client"}]

Poll ==
  /\ cstep = "poll" /\ seq # delivered
  /\ cseq' = seq /\ cstep' = "read"
  /\ UNCHANGED <<win, delivered, csock, net, helper, x11>>

\* MUTANT: the owner is compared before the clipboard is opened.
ReadClipboard_OwnerFirst ==
  /\ cstep = "read"
  /\ cstep' = (IF cseq \in byViewer THEN "connect" ELSE "poll")
  /\ cseq' = seq
  /\ UNCHANGED <<win, delivered, csock, net, helper, x11>>

\* OpenClipboard keeps writers out; then sequence and owner are one decision.
\* The clipboard may be in use, hold no text, or text that is not Unicode.
ReadClipboard ==
  /\ cstep = "read"
  /\ \/ seq = cseq /\ cseq \in byViewer /\ cstep' = "connect" /\ UNCHANGED cseq
     \/ cstep' = "poll" /\ cseq' = 0
  /\ UNCHANGED <<win, delivered, csock, net, helper, x11>>

Send(c) ==
  /\ request' = [request EXCEPT ![c] = cseq]
  /\ cstep' = "await"

\* A socket that is there is used again, whatever its peer did to it.
SendAgain ==
  /\ cstep = "connect" /\ csock # NoConn
  /\ Send(csock)
  /\ UNCHANGED <<win, delivered, cseq, csock, answer, open, backlog, helper, x11>>

\* connect succeeds while the backlog of the listener has room; the handshake
\* is in the buffer from then on.
Connect ==
  /\ cstep = "connect" /\ csock = NoConn /\ Len(backlog) < 2
  /\ \E c \in Conns :
       /\ open[c] = {}
       /\ open' = [open EXCEPT ![c] = {"client", "server"}]
       /\ request' = [request EXCEPT ![c] = 0]
       /\ answer' = [answer EXCEPT ![c] = NoAnswer]
       /\ backlog' = Append(backlog, c)
       /\ csock' = c
  /\ cstep' = "hello"
  /\ UNCHANGED <<win, delivered, cseq, helper, x11>>

\* No room, or the helper is gone.
ConnectFails ==
  /\ cstep = "connect" /\ csock = NoConn
  /\ cstep' = "poll" /\ cseq' = 0
  /\ UNCHANGED <<win, delivered, csock, net, helper, x11>>

HelloReceived ==
  /\ cstep = "hello" /\ answer[csock].kind = "hello"
  /\ answer' = [answer EXCEPT ![csock] = NoAnswer]
  /\ Send(csock)
  /\ UNCHANGED <<win, delivered, cseq, csock, open, backlog, helper, x11>>

\* MUTANT: any answer that arrives is taken for success.
AnswerReceived_Unread ==
  /\ cstep = "await" /\ answer[csock].kind # "none"
  /\ answer' = [answer EXCEPT ![csock] = NoAnswer]
  /\ delivered' = cseq /\ UNCHANGED <<csock, open>>
  /\ cstep' = "poll" /\ cseq' = 0
  /\ UNCHANGED <<win, request, backlog, helper, x11>>

AnswerReceived ==
  /\ cstep = "await" /\ answer[csock].kind # "none"
  /\ answer' = [answer EXCEPT ![csock] = NoAnswer]
  /\ IF answer[csock] = [kind |-> "ok", seq |-> cseq]
       THEN delivered' = cseq /\ UNCHANGED <<csock, open>>
       ELSE DropSocket /\ UNCHANGED delivered
  /\ cstep' = "poll" /\ cseq' = 0
  /\ UNCHANGED <<win, request, backlog, helper, x11>>

\* MUTANT: the connection is kept for the next attempt.
CompanionGivesUp_KeepsSocket ==
  /\ cstep \in {"hello", "await"} /\ answer[csock].kind = "none"
  /\ cstep' = "poll" /\ cseq' = 0
  /\ UNCHANGED <<win, delivered, csock, net, helper, x11>>

\* The deadline of a second passes, or the helper has closed the connection.
CompanionGivesUp ==
  /\ cstep \in {"hello", "await"} /\ answer[csock].kind = "none"
  /\ DropSocket /\ cstep' = "poll" /\ cseq' = 0
  /\ UNCHANGED <<win, delivered, request, answer, backlog, helper, x11>>

-----------------------------------------------------------------------------
(* The helper.  It serves one connection at a time.                        *)

Go(step, s) == sstep' = <<step, s>>

Accept ==
  /\ sstep = AcceptStep /\ backlog # <<>>
  /\ sconn' = Head(backlog) /\ backlog' = Tail(backlog)
  /\ Go("hello", "both")
  /\ UNCHANGED <<win, companion, request, answer, open, sseq, before, text, done, x11>>

\* The handshake of a peer that has left may still be answered.
Greet ==
  /\ sstep = <<"hello", "both">>
  /\ answer' = [answer EXCEPT ![sconn] = [kind |-> "hello", seq |-> 0]]
  /\ Go("wait", "both")
  /\ UNCHANGED <<win, companion, request, open, backlog, sconn, sseq, before, text,
                 done, x11>>

Receive ==
  /\ sstep = <<"wait", "both">> /\ request[sconn] # 0
  /\ sseq' = request[sconn]
  /\ request' = [request EXCEPT ![sconn] = 0]
  /\ Go("start", "CLIPBOARD")
  /\ UNCHANGED <<win, companion, answer, open, backlog, sconn, before, text, done, x11>>

\* End of file, or a second without the handshake or a request; the reset by
\* a companion that left may take its request away.
HangUp ==
  /\ \/ sstep = <<"hello", "both">>
     \/ sstep = <<"wait", "both">> /\ (request[sconn] = 0 \/ "client" \notin open[sconn])
  /\ open' = [open EXCEPT ![sconn] = @ \ {"server"}]
  /\ sconn' = NoConn /\ sstep' = AcceptStep
  /\ UNCHANGED <<win, companion, request, answer, backlog, sseq, before, text, done, x11>>

\* start_owner: remember the owner, fork xclip, give it the text.
StartOwner ==
  \E s \in Selections :
    /\ sstep = <<"start", s>>
    /\ before' = owner[s]
    /\ proc' = [proc EXCEPT ![s]["fresh"] = "starting"]
    /\ text' = [text EXCEPT ![s]["fresh"] = sseq]
    /\ Go("watch", s)
    /\ UNCHANGED <<win, companion, net, sconn, sseq, done, owner>>

\* The pipe, the fork or the write to xclip fails.
StartOwnerFails ==
  \E s \in Selections :
    /\ sstep = <<"start", s>>
    /\ Go("fail", "both")
    /\ UNCHANGED <<win, companion, net, sconn, sseq, before, text, done, x11>>

\* Any new owner will do.
OwnerChanged ==
  \E s \in Selections :
    /\ sstep = <<"watch", s>> /\ owner[s] \notin {"none", before}
    /\ IF s = "CLIPBOARD" THEN Go("start", "PRIMARY") ELSE Go("keep", "both")
    /\ before' = "none"
    /\ UNCHANGED <<win, companion, net, sconn, sseq, text, done, x11>>

\* xclip is gone, or half a second is over.
OwnerUnchanged ==
  \E s \in Selections :
    /\ sstep = <<"watch", s>> /\ owner[s] \in {"none", before}
    /\ Go("fail", "both")
    /\ before' = "none"
    /\ UNCHANGED <<win, companion, net, sconn, sseq, text, done, x11>>

\* Selections after the processes in the given roles are stopped.
Stopped(roles) ==
  /\ proc' = [s \in Selections |-> [r \in Roles |-> IF r \in roles THEN "none" ELSE proc[s][r]]]
  /\ owner' = [s \in Selections |-> IF owner[s] \in roles THEN "none" ELSE owner[s]]

\* MUTANT: a new owner of CLIPBOARD stays when PRIMARY fails.
AbandonHandoff_KeepsNew ==
  /\ sstep = <<"fail", "both">>
  /\ Stopped({"kept"})
  /\ Go("reply", "error")
  /\ UNCHANGED <<win, companion, net, sconn, sseq, before, text, done>>

\* A partial handoff may have displaced the old owners: all four are stopped.
AbandonHandoff ==
  /\ sstep = <<"fail", "both">>
  /\ Stopped(Roles)
  /\ Go("reply", "error")
  /\ UNCHANGED <<win, companion, net, sconn, sseq, before, text, done>>

\* The fresh owners take the place of the old ones, which are stopped.
KeepHandoff ==
  /\ sstep = <<"keep", "both">>
  /\ proc' = [s \in Selections |-> [r \in Roles |-> IF r = "kept" THEN proc[s]["fresh"] ELSE "none"]]
  /\ text' = [s \in Selections |-> [r \in Roles |-> text[s]["fresh"]]]
  /\ owner' = [s \in Selections |-> IF owner[s] = "fresh" THEN "kept"
                                   ELSE IF owner[s] = "kept" THEN "none" ELSE owner[s]]
  /\ done' = done \cup {sseq}
  /\ Go("reply", "ok")
  /\ UNCHANGED <<win, companion, net, sconn, sseq, before>>

Reply ==
  \E result \in {"ok", "error"} :
    /\ sstep = <<"reply", result>>
    /\ answer' = [answer EXCEPT ![sconn] = [kind |-> result, seq |-> sseq]]
    /\ Go("wait", "both") /\ sseq' = 0
    /\ UNCHANGED <<win, companion, request, open, backlog, sconn, before, text,
                   done, x11>>

-----------------------------------------------------------------------------
(* The surroundings.                                                       *)

\* Somebody takes a selection; an xclip that loses it exits.
Takes(s, who) ==
  /\ owner' = [owner EXCEPT ![s] = who]
  /\ proc' = [proc EXCEPT ![s] = [r \in Roles |->
                IF r = who THEN "running" ELSE IF r = owner[s] THEN "none" ELSE @[r]]]
  /\ UNCHANGED <<win, companion, net, helper>>

\* xclip has read its input.
XclipOwns ==
  \E s \in Selections, r \in Roles : proc[s][r] = "starting" /\ Takes(s, r)

HostCopies ==
  \E s \in Selections, a \in HostApps : owner[s] # a /\ Takes(s, a)

\* xclip fails, or somebody kills it.
XclipExits ==
  \E s \in Selections, r \in Roles :
    /\ proc[s][r] # "none"
    /\ proc' = [proc EXCEPT ![s][r] = "none"]
    /\ owner' = [owner EXCEPT ![s] = IF @ = r THEN "none" ELSE @]
    /\ UNCHANGED <<win, companion, net, helper>>

\* GameViewer, or another program in Wine, changes the Win32 clipboard.
Win32Copy ==
  /\ seq < MaxCopies
  /\ seq' = seq + 1
  /\ byViewer' \in {byViewer, byViewer \cup {seq + 1}}
  /\ UNCHANGED <<base, companion, net, helper, x11>>

\* MUTANT: the xclips outlive the helper.
Restart_KeepsOwners ==
  /\ base' = seq /\ delivered' = seq
  /\ cstep' = "poll" /\ cseq' = 0 /\ csock' = NoConn
  /\ request' = [c \in Conns |-> 0] /\ answer' = [c \in Conns |-> NoAnswer]
  /\ open' = [c \in Conns |-> {}] /\ backlog' = <<>>
  /\ sstep' = AcceptStep /\ sconn' = NoConn /\ sseq' = 0
  /\ before' = "none"
  /\ UNCHANGED <<seq, byViewer, text, done, x11>>

\* When one process of the service ends, the service stops all of them and
\* starts again.
Restart ==
  /\ base' = seq /\ delivered' = seq
  /\ cstep' = "poll" /\ cseq' = 0 /\ csock' = NoConn
  /\ request' = [c \in Conns |-> 0] /\ answer' = [c \in Conns |-> NoAnswer]
  /\ open' = [c \in Conns |-> {}] /\ backlog' = <<>>
  /\ sstep' = AcceptStep /\ sconn' = NoConn /\ sseq' = 0
  /\ before' = "none" /\ Stopped(Roles)
  /\ UNCHANGED <<seq, byViewer, text, done>>

-----------------------------------------------------------------------------
CompanionStep ==
  \/ Poll \/ ReadClipboard \/ SendAgain \/ Connect \/ ConnectFails
  \/ HelloReceived \/ AnswerReceived \/ CompanionGivesUp

HelperStep ==
  \/ Accept \/ Greet \/ Receive \/ HangUp
  \/ StartOwner \/ StartOwnerFails \/ OwnerChanged \/ OwnerUnchanged
  \/ AbandonHandoff \/ KeepHandoff \/ Reply

Next ==
  \/ CompanionStep \/ HelperStep
  \/ XclipOwns \/ HostCopies \/ XclipExits \/ Win32Copy \/ Restart

Spec == Init /\ [][Next]_vars

-----------------------------------------------------------------------------
(* Properties.                                                             *)

Live(s, r) == proc[s][r] # "none"

\* Whatever xclip offers on the host was copied by GameViewer, after the
\* service started: reading it and deciding whose it is are not torn apart by
\* a copy in between (read_clipboard_utf8, wmain).
OnlyControllerText ==
  \A s \in Selections, r \in Roles :
    Live(s, r) => text[s][r] \in byViewer /\ text[s][r] > base

\* Between requests both selections offer the same text, and no xclip of a
\* handoff that failed is left behind (replace_clipboard).
PairAgrees ==
  sstep[1] \in {"accept", "hello", "wait"} =>
    /\ \A s \in Selections : ~Live(s, "fresh")
    /\ \A s, t \in Selections :
         Live(s, "kept") /\ Live(t, "kept") => text[s]["kept"] = text[t]["kept"]

\* The companion stops sending a text only when the helper replaced both
\* owners with it, whatever answers were lost or came too late on the way.
AckedWasHandedOver == delivered # base => delivered \in done

\* Nothing older than the acknowledged text is offered on the host: a handoff
\* stops the xclips before it, and a request its sender gave up on does not
\* come back, since none is sent before the helper greets the connection, one
\* at a time (replace_clipboard, connect_clipboard_listener, main).
NewestStays ==
  \A s \in Selections, r \in Roles : Live(s, r) => text[s][r] >= delivered

\* The inductive invariant.  What a text on its way may be, wherever it is: in
\* the companion, in a connection, in the helper.  What an answer says.
Ours(n) == n \in byViewer /\ n > base

InOrder == base <= delivered /\ delivered <= seq /\ cseq <= seq
Connected ==
  /\ cstep \in {"hello", "await"} => csock \in Conns
  /\ sstep[1] # "accept" => sconn \in Conns
CompanionHonest ==
  /\ cstep = "read" => cseq > base
  /\ cstep \in {"connect", "hello", "await"} => Ours(cseq)
RequestsHonest == \A c \in Conns : request[c] # 0 => Ours(request[c])
HelperHonest ==
  /\ sstep[1] \in {"start", "watch", "fail", "keep", "reply"} => Ours(sseq)
  /\ sstep = <<"reply", "ok">> => sseq \in done
AnswersHonest == \A c \in Conns : answer[c].kind = "ok" => answer[c].seq \in done

IInv ==
  /\ TypeOK /\ InOrder /\ Connected
  /\ CompanionHonest /\ RequestsHonest /\ HelperHonest /\ AnswersHonest
  /\ OnlyControllerText /\ AckedWasHandedOver

=============================================================================
