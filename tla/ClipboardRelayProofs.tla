------------------------ MODULE ClipboardRelayProofs ------------------------
(***************************************************************************)
(* Only what GameViewer copied reaches the host, only what was handed over *)
(* is acknowledged, both selections agree, and nothing older than the      *)
(* acknowledged text stays, for any number of copies, connections and host *)
(* applications, whatever is lost, late or restarted on the way.           *)
(***************************************************************************)
EXTENDS ClipboardRelay, TLAPS

\* What the helper and the companion put into a connection is an answer.
LEMMA AnswersAreTyped ==
  /\ NoAnswer \in Answers /\ NoAnswer.kind = "none"
  /\ \A k \in {"none", "hello", "ok", "error"}, n \in Numbers :
       [kind |-> k, seq |-> n] \in Answers
  BY ConstantsAssumption DEF NoAnswer, Answers, Numbers

LEMMA InitIInv == Init => IInv
  BY ConstantsAssumption, SMT DEF Init, IInv, TypeOK, InOrder, Connected, CompanionHonest, RequestsHonest,
     HelperHonest, AnswersHonest, OnlyControllerText, AckedWasHandedOver, Live, Numbers,
     NoAnswer, Answers, AcceptStep, Selections, Roles

\* Steps of the companion.
LEMMA CompanionKeeps == IInv /\ CompanionStep => IInv'
<1> SUFFICES ASSUME IInv, CompanionStep PROVE IInv'
  OBVIOUS
<1> USE ConstantsAssumption, AnswersAreTyped DEF IInv, TypeOK, InOrder, Connected, CompanionHonest, RequestsHonest,
     HelperHonest, AnswersHonest, OnlyControllerText, AckedWasHandedOver, Live, Ours, Numbers,
     Selections, Roles, win, helper, x11, net
<1>1. CASE Poll
  BY <1>1 DEF Poll
<1>2. CASE ReadClipboard
  <2>1. TypeOK'
    BY <1>2 DEF ReadClipboard
  <2>2. InOrder' /\ Connected' /\ CompanionHonest' /\ RequestsHonest'
    BY <1>2 DEF ReadClipboard
  <2>3. HelperHonest' /\ AnswersHonest' /\ OnlyControllerText' /\ AckedWasHandedOver'
    BY <1>2 DEF ReadClipboard
  <2>4. QED
    BY <2>1, <2>2, <2>3
<1>3. CASE SendAgain
  BY <1>3 DEF SendAgain, Send
<1>4. CASE Connect
  BY <1>4 DEF Connect
<1>5. CASE ConnectFails
  BY <1>5 DEF ConnectFails
<1>6. CASE HelloReceived
  <2>1. TypeOK'
    BY <1>6 DEF HelloReceived, Send
  <2>2. InOrder' /\ Connected' /\ CompanionHonest' /\ RequestsHonest'
    BY <1>6 DEF HelloReceived, Send
  <2>3. HelperHonest' /\ AnswersHonest' /\ OnlyControllerText' /\ AckedWasHandedOver'
    BY <1>6 DEF HelloReceived, Send
  <2>4. QED
    BY <2>1, <2>2, <2>3
<1>7. CASE AnswerReceived
  <2>1. TypeOK'
    <3>1. CASE UNCHANGED <<csock, open>>
      BY <1>7, <3>1 DEF AnswerReceived, DropSocket
    <3>2. CASE DropSocket /\ UNCHANGED delivered
      BY <1>7, <3>2 DEF AnswerReceived, DropSocket
    <3>3. QED
      BY <1>7, <3>1, <3>2 DEF AnswerReceived
  <2>2. InOrder' /\ Connected' /\ CompanionHonest' /\ RequestsHonest'
    BY <1>7 DEF AnswerReceived, DropSocket
  <2>3. HelperHonest' /\ AnswersHonest' /\ OnlyControllerText' /\ AckedWasHandedOver'
    BY <1>7 DEF AnswerReceived, DropSocket
  <2>4. QED
    BY <2>1, <2>2, <2>3
<1>8. CASE CompanionGivesUp
  BY <1>8 DEF CompanionGivesUp, DropSocket
<1>9. QED
  BY <1>1, <1>2, <1>3, <1>4, <1>5, <1>6, <1>7, <1>8 DEF CompanionStep

\* Steps of the helper.
LEMMA HelperKeeps == IInv /\ HelperStep => IInv'
<1> SUFFICES ASSUME IInv, HelperStep PROVE IInv'
  OBVIOUS
<1> USE ConstantsAssumption, AnswersAreTyped DEF IInv, TypeOK, InOrder, Connected, CompanionHonest, RequestsHonest,
     HelperHonest, AnswersHonest, OnlyControllerText, AckedWasHandedOver, Live, Ours, Numbers,
     Selections, Roles, win, companion, net, x11, Go, AcceptStep
<1>1. CASE Accept
  BY <1>1 DEF Accept
<1>2. CASE Greet
  <2>1. TypeOK'
    BY <1>2 DEF Greet
  <2>2. InOrder' /\ Connected' /\ CompanionHonest' /\ RequestsHonest'
    BY <1>2 DEF Greet
  <2>3. HelperHonest' /\ AnswersHonest' /\ OnlyControllerText' /\ AckedWasHandedOver'
    BY <1>2 DEF Greet
  <2>4. QED
    BY <2>1, <2>2, <2>3
<1>3. CASE Receive
  <2>1. TypeOK'
    BY <1>3 DEF Receive
  <2>2. InOrder' /\ Connected' /\ CompanionHonest' /\ RequestsHonest'
    BY <1>3 DEF Receive
  <2>3. HelperHonest' /\ AnswersHonest' /\ OnlyControllerText' /\ AckedWasHandedOver'
    BY <1>3 DEF Receive
  <2>4. QED
    BY <2>1, <2>2, <2>3
<1>4. CASE HangUp
  BY <1>4 DEF HangUp
<1>5. CASE StartOwner
  BY <1>5 DEF StartOwner
<1>6. CASE StartOwnerFails
  BY <1>6 DEF StartOwnerFails
<1>7. CASE OwnerChanged
  BY <1>7 DEF OwnerChanged
<1>8. CASE OwnerUnchanged
  BY <1>8 DEF OwnerUnchanged
<1>9. CASE AbandonHandoff
  BY <1>9 DEF AbandonHandoff, Stopped
<1>10. CASE KeepHandoff
  BY <1>10 DEF KeepHandoff
<1>11. CASE Reply
  <2>1. TypeOK'
    BY <1>11 DEF Reply
  <2>2. InOrder' /\ Connected' /\ CompanionHonest' /\ RequestsHonest'
    BY <1>11 DEF Reply
  <2>3. HelperHonest' /\ AnswersHonest' /\ OnlyControllerText' /\ AckedWasHandedOver'
    BY <1>11 DEF Reply
  <2>4. QED
    BY <2>1, <2>2, <2>3
<1>12. QED
  BY <1>1, <1>2, <1>3, <1>4, <1>5, <1>6, <1>7, <1>8, <1>9, <1>10, <1>11 DEF HelperStep

\* Steps of the surroundings.
LEMMA SurroundingsKeep ==
  IInv /\ (XclipOwns \/ HostCopies \/ XclipExits \/ Win32Copy \/ Restart) => IInv'
<1> SUFFICES ASSUME IInv, XclipOwns \/ HostCopies \/ XclipExits \/ Win32Copy \/ Restart
             PROVE  IInv'
  OBVIOUS
<1> USE ConstantsAssumption, AnswersAreTyped DEF IInv, TypeOK, InOrder, Connected, CompanionHonest, RequestsHonest,
     HelperHonest, AnswersHonest, OnlyControllerText, AckedWasHandedOver, Live, Ours, Numbers,
     Selections, Roles, win, companion, helper, net, x11, AcceptStep
<1>1. CASE XclipOwns
  BY <1>1 DEF XclipOwns, Takes
<1>2. CASE HostCopies
  BY <1>2 DEF HostCopies, Takes
<1>3. CASE XclipExits
  BY <1>3 DEF XclipExits
<1>4. CASE Win32Copy
  BY <1>4 DEF Win32Copy
<1>5. CASE Restart
  BY <1>5 DEF Restart, Stopped
<1>6. QED
  BY <1>1, <1>2, <1>3, <1>4, <1>5

\* A step that changes nothing.
LEMMA StutterKeeps == IInv /\ UNCHANGED vars => IInv'
  BY DEF IInv, TypeOK, InOrder, Connected, CompanionHonest, RequestsHonest, HelperHonest, AnswersHonest,
     OnlyControllerText, AckedWasHandedOver, Live, Ours, vars, win, companion, helper, net, x11

\* Every state of the relay satisfies the inductive invariant of ClipboardRelay
\* (wmain and serve_client with everything that happens around them).
THEOREM InductiveInvariant == Spec => []IInv
<1>1. IInv /\ [Next]_vars => IInv'
  BY CompanionKeeps, HelperKeeps, SurroundingsKeep, StutterKeeps DEF Next
<1>2. QED
  BY InitIInv, <1>1, PTL DEF Spec

\* What xclip offers on the host was copied by GameViewer after the service
\* started (read_clipboard_utf8's single decision about sequence and owner).
THEOREM HostSeesOnlyController == Spec => []OnlyControllerText
<1>1. IInv => OnlyControllerText
  BY DEF IInv
<1>2. QED
  BY InductiveInvariant, <1>1, PTL

\* A text counts as delivered only when both owners were replaced with it
\* (forward_current_clipboard, replace_clipboard).
THEOREM DeliveredWasHandedOver == Spec => []AckedWasHandedOver
<1>1. IInv => AckedWasHandedOver
  BY DEF IInv
<1>2. QED
  BY InductiveInvariant, <1>1, PTL
\* What PairAgrees and NewestStays rest on.  A fresh xclip only lives in a
\* handoff and has its text; the kept ones always agree.
Working == sstep[1] \in {"start", "watch", "fail", "keep"}
FreshOfRequest ==
  \A s \in Selections : Live(s, "fresh") => Working /\ text[s]["fresh"] = sseq
KeptAgree ==
  \A s, t \in Selections :
    Live(s, "kept") /\ Live(t, "kept") => text[s]["kept"] = text[t]["kept"]
OkReplyHonest ==
  sstep = <<"reply", "ok">> => \A s \in Selections : Live(s, "kept") => text[s]["kept"] = sseq

\* Nothing is sent on a connection before it is accepted, and no other is
\* accepted while its server end is open.
BacklogIdle ==
  /\ \A i, j \in DOMAIN backlog : backlog[i] = backlog[j] => i = j
  /\ \A i \in DOMAIN backlog :
       /\ backlog[i] # sconn /\ "server" \in open[backlog[i]]
       /\ request[backlog[i]] = 0 /\ answer[backlog[i]].kind = "none"
  /\ sconn # NoConn => "server" \in open[sconn]
  /\ csock # NoConn => "client" \in open[csock]
  /\ sstep[1] = "accept" => sconn = NoConn

\* The companion's connection is the last that was made: once it is accepted,
\* the helper is done with those before.
LastIsCurrent ==
  csock # NoConn =>
    \/ backlog # <<>> /\ backlog[Len(backlog)] = csock /\ cstep = "hello"
    \/ backlog = <<>> /\ sconn \in {csock, NoConn}

\* A request is in one place: on its way, in work, or answered.
Serves(steps) == sconn = csock => sstep[1] \in steps
OneRequest ==
  csock # NoConn =>
    /\ cstep \in {"poll", "read", "connect"} =>
         request[csock] = 0 /\ answer[csock].kind = "none" /\ Serves({"wait"})
    /\ cstep = "hello" =>
         /\ request[csock] = 0 /\ Serves({"hello", "wait"})
         /\ answer[csock].kind # "none" =>
              answer[csock].kind = "hello" /\ Serves({"wait"})
    /\ cstep = "await" =>
         \/ request[csock] = cseq /\ answer[csock].kind = "none" /\ Serves({"wait"})
         \/ /\ request[csock] = 0 /\ answer[csock].kind = "none" /\ sconn = csock
            /\ Working \/ sstep[1] = "reply"
            /\ sseq = cseq
         \/ /\ request[csock] = 0 /\ Serves({"wait"})
            /\ answer[csock].kind \in {"ok", "error"}
            /\ answer[csock].kind = "ok" =>
                 \A s \in Selections, r \in Roles : Live(s, r) => text[s][r] >= cseq

\* What is still to be handed over is newer than what was acknowledged.
Newer ==
  /\ cstep # "poll" => cseq > delivered
  /\ sconn # NoConn /\ request[sconn] # 0 => request[sconn] > delivered
  /\ Working => sseq > delivered

NInv ==
  /\ IInv /\ NewestStays /\ FreshOfRequest /\ KeptAgree /\ OkReplyHonest
  /\ BacklogIdle /\ LastIsCurrent /\ OneRequest /\ Newer

\* A connection that joins the queue of the listener, and one that leaves it.
LEMMA JoinsQueue ==
  ASSUME NEW S, NEW q \in Seq(S), NEW e \in S
  PROVE  /\ Len(Append(q, e)) = Len(q) + 1 /\ Append(q, e)[Len(q) + 1] = e
         /\ Append(q, e) # <<>>
         /\ DOMAIN Append(q, e) = DOMAIN q \cup {Len(q) + 1}
         /\ \A i \in DOMAIN q : Append(q, e)[i] = q[i]
         /\ Len(q) + 1 \notin DOMAIN q
  OBVIOUS

LEMMA LeavesQueue ==
  ASSUME NEW S, NEW q \in Seq(S), q # <<>>
  PROVE  /\ Head(q) = q[1] /\ 1 \in DOMAIN q
         /\ \A i \in DOMAIN Tail(q) :
              i + 1 \in DOMAIN q /\ i + 1 # 1 /\ Tail(q)[i] = q[i + 1]
         /\ \A i, j \in DOMAIN Tail(q) : i + 1 = j + 1 => i = j
         /\ Tail(q) = <<>> \/ (Tail(q))[Len(Tail(q))] = q[Len(q)]
         /\ Tail(q) = <<>> => q[Len(q)] = q[1]
<1>1. Head(q) = q[1] /\ Len(q) \in Nat \ {0} /\ DOMAIN q = 1..Len(q)
  OBVIOUS
<1>2. /\ Len(Tail(q)) = Len(q) - 1 /\ DOMAIN Tail(q) = 1..(Len(q) - 1)
      /\ \A i \in 1..(Len(q) - 1) : Tail(q)[i] = q[i + 1]
  OBVIOUS
<1>3. Tail(q) = <<>> <=> Len(Tail(q)) = 0
  BY <1>2
<1>4. QED
  BY <1>1, <1>2, <1>3

\* A new connection is the last of the queue, and nothing was sent on it.
LEMMA ConnectQueues ==
  ASSUME NInv, Connect
  PROVE  BacklogIdle' /\ LastIsCurrent'
<1>1. PICK c \in Conns :
        /\ open[c] = {} /\ open' = [open EXCEPT ![c] = {"client", "server"}]
        /\ request' = [request EXCEPT ![c] = 0]
        /\ answer' = [answer EXCEPT ![c] = NoAnswer]
        /\ backlog' = Append(backlog, c) /\ csock' = c
  BY DEF Connect
<1>2. /\ backlog \in Seq(Conns) /\ NoConn \notin Conns /\ csock = NoConn
      /\ UNCHANGED <<sconn, sstep>> /\ cstep' = "hello"
      /\ open \in [Conns -> SUBSET {"client", "server"}] /\ sconn \in Conns \cup {NoConn}
      /\ request \in [Conns -> Numbers] /\ answer \in [Conns -> Answers]
  BY ConstantsAssumption DEF Connect, NInv, IInv, TypeOK, helper
<1>3. sconn # c /\ \A i \in DOMAIN backlog : backlog[i] \in Conns /\ backlog[i] # c
  BY <1>1, <1>2 DEF NInv, BacklogIdle
<1>4. /\ Len(backlog') = Len(backlog) + 1 /\ backlog'[Len(backlog) + 1] = c
      /\ backlog' # <<>> /\ DOMAIN backlog' = DOMAIN backlog \cup {Len(backlog) + 1}
      /\ \A i \in DOMAIN backlog : backlog'[i] = backlog[i]
      /\ Len(backlog) + 1 \notin DOMAIN backlog
  BY <1>1, <1>2, JoinsQueue
<1>5. BacklogIdle'
  <2>1. \A i, j \in DOMAIN backlog' : backlog'[i] = backlog'[j] => i = j
    BY <1>3, <1>4 DEF NInv, BacklogIdle
  <2>2. ASSUME NEW i \in DOMAIN backlog'
        PROVE  /\ backlog'[i] # sconn /\ "server" \in open'[backlog'[i]]
               /\ request'[backlog'[i]] = 0 /\ answer'[backlog'[i]].kind = "none"
    <3>1. CASE i \in DOMAIN backlog
      BY <1>1, <1>2, <1>3, <1>4, <3>1 DEF NInv, BacklogIdle
    <3>2. CASE i = Len(backlog) + 1
      BY <1>1, <1>2, <1>3, <1>4, <3>2, AnswersAreTyped
    <3>3. QED
      BY <1>4, <3>1, <3>2
  <2>3. /\ sconn # NoConn => "server" \in open'[sconn]
        /\ "client" \in open'[csock']
        /\ sstep[1] = "accept" => sconn = NoConn
    BY <1>1, <1>2, <1>3 DEF NInv, BacklogIdle
  <2>4. QED
    BY <1>2, <2>1, <2>2, <2>3 DEF BacklogIdle
<1>6. LastIsCurrent'
  BY <1>1, <1>2, <1>4 DEF LastIsCurrent
<1>7. QED
  BY <1>5, <1>6

\* The helper takes the first of the queue; if that was the last, it is the
\* companion's or one the companion left.
LEMMA AcceptQueues ==
  ASSUME NInv, Accept
  PROVE  BacklogIdle' /\ LastIsCurrent'
<1>1. /\ backlog \in Seq(Conns) /\ NoConn \notin Conns /\ backlog # <<>>
      /\ sconn' = Head(backlog) /\ backlog' = Tail(backlog) /\ sstep' = <<"hello", "both">>
      /\ UNCHANGED <<request, answer, open, csock, cstep>>
  BY ConstantsAssumption DEF Accept, Go, NInv, IInv, TypeOK, companion
<1>2. /\ sconn' = backlog[1] /\ 1 \in DOMAIN backlog /\ backlog[1] \in Conns
      /\ \A i \in DOMAIN backlog' :
           i + 1 \in DOMAIN backlog /\ i + 1 # 1 /\ backlog'[i] = backlog[i + 1]
      /\ \A i, j \in DOMAIN backlog' : i + 1 = j + 1 => i = j
      /\ backlog' = <<>> \/ backlog'[Len(backlog')] = backlog[Len(backlog)]
      /\ backlog' = <<>> => backlog[Len(backlog)] = backlog[1]
  BY <1>1, LeavesQueue
<1>3. BacklogIdle'
  <2>1. \A i, j \in DOMAIN backlog' : backlog'[i] = backlog'[j] => i = j
    BY <1>2 DEF NInv, BacklogIdle
  <2>2. ASSUME NEW i \in DOMAIN backlog'
        PROVE  /\ backlog'[i] # sconn' /\ "server" \in open[backlog'[i]]
               /\ request[backlog'[i]] = 0 /\ answer[backlog'[i]].kind = "none"
    BY <1>2 DEF NInv, BacklogIdle
  <2>3. /\ "server" \in open[sconn']
        /\ csock # NoConn => "client" \in open[csock]
        /\ sstep'[1] # "accept"
    BY <1>1, <1>2 DEF NInv, BacklogIdle
  <2>4. QED
    BY <1>1, <2>1, <2>2, <2>3 DEF BacklogIdle
<1>4. LastIsCurrent'
  BY <1>1, <1>2 DEF NInv, LastIsCurrent
<1>5. QED
  BY <1>3, <1>4

LEMMA CompanionKeepsOrder ==
  NInv /\ IInv' /\ CompanionStep => NInv'
<1> SUFFICES ASSUME NInv, IInv', CompanionStep PROVE NInv'
  OBVIOUS
<1> USE ConstantsAssumption, AnswersAreTyped DEF NInv, IInv, TypeOK, InOrder, Connected, Live, Numbers,
     Selections, Roles, NewestStays, Working, FreshOfRequest, KeptAgree, OkReplyHonest,
     BacklogIdle, LastIsCurrent, Serves, OneRequest, Newer, win, companion, helper, x11, net, Go, AcceptStep
<1>1. CASE Poll
  BY <1>1 DEF Poll
<1>2. CASE ReadClipboard
  BY <1>2 DEF ReadClipboard
<1>3. CASE SendAgain
  BY <1>3 DEF SendAgain, Send
<1>4. CASE Connect
  <2>1. NewestStays' /\ FreshOfRequest' /\ KeptAgree' /\ OkReplyHonest'
    BY <1>4 DEF Connect
  <2>2. BacklogIdle' /\ LastIsCurrent'
    BY <1>4, ConnectQueues
  <2>3. OneRequest' /\ Newer'
    BY <1>4 DEF Connect
  <2>4. QED
    BY <2>1, <2>2, <2>3
<1>5. CASE ConnectFails
  BY <1>5 DEF ConnectFails
<1>6. CASE HelloReceived
  BY <1>6 DEF HelloReceived, Send
<1>7. CASE AnswerReceived
  BY <1>7 DEF AnswerReceived, DropSocket
<1>8. CASE CompanionGivesUp
  BY <1>8 DEF CompanionGivesUp, DropSocket
<1>9. QED
  BY <1>1, <1>2, <1>3, <1>4, <1>5, <1>6, <1>7, <1>8 DEF CompanionStep

LEMMA HelperKeepsOrder ==
  NInv /\ IInv' /\ HelperStep => NInv'
<1> SUFFICES ASSUME NInv, IInv', HelperStep PROVE NInv'
  OBVIOUS
<1> USE ConstantsAssumption, AnswersAreTyped DEF NInv, IInv, TypeOK, InOrder, Connected, Live, Numbers,
     Selections, Roles, NewestStays, Working, FreshOfRequest, KeptAgree, OkReplyHonest,
     BacklogIdle, LastIsCurrent, Serves, OneRequest, Newer, win, companion, helper, x11, net, Go, AcceptStep
<1>1. CASE Accept
  <2>1. NewestStays' /\ FreshOfRequest' /\ KeptAgree' /\ OkReplyHonest'
    BY <1>1 DEF Accept
  <2>2. BacklogIdle' /\ LastIsCurrent'
    BY <1>1, AcceptQueues
  <2>3. OneRequest' /\ Newer'
    BY <1>1 DEF Accept
  <2>4. QED
    BY <2>1, <2>2, <2>3
<1>2. CASE Greet
  BY <1>2 DEF Greet
<1>3. CASE Receive
  BY <1>3 DEF Receive
<1>4. CASE HangUp
  BY <1>4 DEF HangUp
<1>5. CASE StartOwner
  <2>1. NewestStays' /\ FreshOfRequest' /\ KeptAgree' /\ OkReplyHonest'
    BY <1>5 DEF StartOwner
  <2>2. BacklogIdle' /\ LastIsCurrent'
    BY <1>5 DEF StartOwner
  <2>3. OneRequest' /\ Newer'
    BY <1>5 DEF StartOwner
  <2>4. QED
    BY <2>1, <2>2, <2>3
<1>6. CASE StartOwnerFails
  BY <1>6 DEF StartOwnerFails
<1>7. CASE OwnerChanged
  BY <1>7 DEF OwnerChanged
<1>8. CASE OwnerUnchanged
  BY <1>8 DEF OwnerUnchanged
<1>9. CASE AbandonHandoff
  BY <1>9 DEF AbandonHandoff, Stopped
<1>10. CASE KeepHandoff
  BY <1>10 DEF KeepHandoff
<1>11. CASE Reply
  BY <1>11 DEF Reply
<1>12. QED
  BY <1>1, <1>2, <1>3, <1>4, <1>5, <1>6, <1>7, <1>8, <1>9, <1>10, <1>11 DEF HelperStep

LEMMA SurroundingsKeepOrder ==
  NInv /\ IInv' /\ (XclipOwns \/ HostCopies \/ XclipExits \/ Win32Copy \/ Restart) => NInv'
<1> SUFFICES ASSUME NInv, IInv', (XclipOwns \/ HostCopies \/ XclipExits \/ Win32Copy \/ Restart) PROVE NInv'
  OBVIOUS
<1> USE ConstantsAssumption, AnswersAreTyped DEF NInv, IInv, TypeOK, InOrder, Connected, Live, Numbers,
     Selections, Roles, NewestStays, Working, FreshOfRequest, KeptAgree, OkReplyHonest,
     BacklogIdle, LastIsCurrent, Serves, OneRequest, Newer, win, companion, helper, x11, net, Go, AcceptStep
<1>1. CASE XclipOwns
  <2>1. NewestStays' /\ FreshOfRequest' /\ KeptAgree' /\ OkReplyHonest'
    BY <1>1 DEF XclipOwns, Takes
  <2>2. BacklogIdle' /\ LastIsCurrent'
    BY <1>1 DEF XclipOwns, Takes
  <2>3. OneRequest' /\ Newer'
    BY <1>1 DEF XclipOwns, Takes
  <2>4. QED
    BY <2>1, <2>2, <2>3
<1>2. CASE HostCopies
  BY <1>2 DEF HostCopies, Takes
<1>3. CASE XclipExits
  BY <1>3 DEF XclipExits
<1>4. CASE Win32Copy
  BY <1>4 DEF Win32Copy
<1>5. CASE Restart
  BY <1>5 DEF Restart, Stopped
<1>6. QED
  BY <1>1, <1>2, <1>3, <1>4, <1>5

\* A step that changes nothing.
LEMMA StutterKeepsOrder == NInv /\ IInv' /\ UNCHANGED vars => NInv'
  BY DEF NInv, NewestStays, FreshOfRequest, KeptAgree, OkReplyHonest, BacklogIdle, LastIsCurrent,
     OneRequest, Newer, Live, Working, Serves, vars, win, companion, helper, net, x11

LEMMA InitNInv == Init => NInv
  BY InitIInv, ConstantsAssumption DEF Init, NInv, NewestStays, FreshOfRequest, KeptAgree, OkReplyHonest,
     BacklogIdle, LastIsCurrent, OneRequest, Newer, Live, Working, Selections, Roles, AcceptStep

\* Every state of the relay satisfies the stronger invariant as well: one
\* request at a time, on the connection that was made last.
THEOREM OneAtATime == Spec => []NInv
<1>1. NInv /\ [Next]_vars => NInv'
  <2>1. NInv => IInv
    BY DEF NInv
  <2>2. IInv /\ [Next]_vars => IInv'
    BY CompanionKeeps, HelperKeeps, SurroundingsKeep, StutterKeeps DEF Next
  <2>3. QED
    BY <2>1, <2>2, CompanionKeepsOrder, HelperKeepsOrder, SurroundingsKeepOrder, StutterKeepsOrder
       DEF Next
<1>2. QED
  BY InitNInv, <1>1, PTL DEF Spec

\* Between requests both selections offer the same text, and no xclip of a
\* failed handoff is left (replace_clipboard).
THEOREM PairAlwaysAgrees == Spec => []PairAgrees
<1>1. NInv => PairAgrees
  BY DEF NInv, FreshOfRequest, KeptAgree, Working, PairAgrees
<1>2. QED
  BY OneAtATime, <1>1, PTL

\* Nothing older than the acknowledged text is offered, however many requests
\* were given up, answered late or sent again (connect_clipboard_listener,
\* forward_current_clipboard, main).
THEOREM NewestAlwaysStays == Spec => []NewestStays
<1>1. NInv => NewestStays
  BY DEF NInv
<1>2. QED
  BY OneAtATime, <1>1, PTL
=============================================================================
