----------------------------- MODULE AgentLink -----------------------------
(***************************************************************************)
(* uu-link: agent messages over SSH.  Every invocation is a process of its *)
(* own; there is no daemon and no automatic retry.  `send' saves the       *)
(* message in the host's outbox and tries one delivery, `retry' tries one  *)
(* more, and each delivery runs `uu-link receive' on the peer, which       *)
(* stores the message and answers with its ID and digest; the sender then  *)
(* stores that receipt.  All three stores use the same routine: a          *)
(* temporary file linked to its final name (atomic, never overwriting),    *)
(* then a flush of the directory.  An entry is `safe' once the flush is    *)
(* done: before it, a crash of the host may lose the entry.                *)
(*                                                                         *)
(* A process may be killed between any two steps, a host may go down, and  *)
(* a receiver outlives the sender that gave up on it.  A digest is the     *)
(* body it is computed from.  Nothing makes IDs of different hosts         *)
(* different here: the code does not rely on it.                           *)
(***************************************************************************)
CONSTANTS
  Hosts,        \* sending hosts
  Ids,          \* message IDs
  Bodies,       \* message contents
  NoBody,
  Attempts      \* uu-link processes that may run at once

ASSUME ConstantsAssumption == NoBody \notin Bodies \cup Hosts \cup Ids

VARIABLES
  outbox,       \* outbox[h][id]: entry of a sending host
  receipts,     \* receipts[h][id]: receipt entry of a sending host
  inbox,        \* inbox[id]: entry of the receiving host
  pc,           \* pc[a]: next step of sending process a
  job,          \* job[a]: the message process a is sending, and its host
  rpc,          \* rpc[a]: next step of the receiver that a has started
  mail          \* mail[a]: the message that receiver was given

stores == <<outbox, receipts, inbox>>
senders == <<pc, job>>
receivers == <<rpc, mail>>
vars == <<stores, senders, receivers>>

-----------------------------------------------------------------------------
(* The store routine.                                                      *)

Absent == [body |-> NoBody, safe |-> FALSE]
Entries == {Absent} \cup [body : Bodies, safe : BOOLEAN]

\* MUTANT: the temporary file is renamed over the final name
Linkable_Overwrites(entry, body) == TRUE

\* os.link creates the name, or finds an entry with the same content.
Linkable(entry, body) == entry = Absent \/ entry.body = body

\* MUTANT: renaming replaces what is there
Linked_Replaced(entry, body) == [body |-> body, safe |-> FALSE]

Linked(entry, body) ==
  IF entry = Absent THEN [body |-> body, safe |-> FALSE] ELSE entry
Flushed(entry) == [body |-> entry.body, safe |-> TRUE]

\* What may be left of an entry when its host goes down.
Survivors(entry) == IF entry.safe THEN {entry} ELSE {Absent, Flushed(entry)}
AfterCrash(entry) == IF entry = Absent THEN {Absent} ELSE Survivors(entry)

-----------------------------------------------------------------------------
(* Sending processes.                                                      *)

Jobs == [host : Hosts, id : Ids, body : Bodies]
NoJob == [host |-> NoBody, id |-> NoBody, body |-> NoBody]
Mails == [id : Ids, body : Bodies]
NoMail == [id |-> NoBody, body |-> NoBody]

At(a, step) == pc[a] = step
Goto(a, step) == pc' = [pc EXCEPT ![a] = step] /\ UNCHANGED job
Start(a, step, h, id, body) ==
  /\ pc' = [pc EXCEPT ![a] = step]
  /\ job' = [job EXCEPT ![a] = [host |-> h, id |-> id, body |-> body]]
Exit(a) ==
  /\ pc' = [pc EXCEPT ![a] = "idle"]
  /\ job' = [job EXCEPT ![a] = NoJob]

SaveOutbox(a, entry) ==
  outbox' = [outbox EXCEPT ![job[a].host][job[a].id] = entry]
SaveReceipt(a, entry) ==
  receipts' = [receipts EXCEPT ![job[a].host][job[a].id] = entry]
Saved(a) == outbox[job[a].host][job[a].id]
Receipt(a) == receipts[job[a].host][job[a].id]

Send(a) ==
  /\ At(a, "idle")
  /\ \E h \in Hosts, id \in Ids, body \in Bodies : Start(a, "save", h, id, body)
  /\ UNCHANGED <<stores, receivers>>

Retry(a) ==
  /\ At(a, "idle")
  /\ \E h \in Hosts, id \in Ids :
       /\ outbox[h][id] # Absent
       /\ Start(a, "deliver", h, id, outbox[h][id].body)
  /\ UNCHANGED <<stores, receivers>>

Save(a) ==
  /\ At(a, "save")
  /\ IF Linkable(Saved(a), job[a].body)
       THEN /\ SaveOutbox(a, Linked(Saved(a), job[a].body))
            /\ Goto(a, "flush")
       ELSE Exit(a) /\ UNCHANGED outbox
  /\ UNCHANGED <<receipts, inbox, receivers>>

\* The ID is announced; --queue-only stops here.
FlushSaved(a) ==
  /\ At(a, "flush")
  /\ SaveOutbox(a, Flushed(Saved(a)))
  /\ Goto(a, "deliver") \/ Exit(a)
  /\ UNCHANGED <<receipts, inbox, receivers>>

\* `deliver' returns a receipt it already has, and starts SSH otherwise.
Deliver(a) ==
  /\ At(a, "deliver")
  /\ \/ Receipt(a) # Absent /\ Exit(a) /\ UNCHANGED receivers
     \/ Receipt(a) = Absent /\ Exit(a) /\ UNCHANGED receivers    \* SSH fails
     \/ /\ Receipt(a) = Absent
        /\ rpc[a] = "none"
        /\ rpc' = [rpc EXCEPT ![a] = "store"]
        /\ mail' = [mail EXCEPT ![a] = [id |-> job[a].id, body |-> job[a].body]]
        /\ Goto(a, "wait")
  /\ UNCHANGED stores

\* subprocess.run raises TimeoutExpired after 20 seconds.
TimeOut(a) ==
  /\ At(a, "wait")
  /\ Exit(a)
  /\ UNCHANGED <<stores, receivers>>

Confirm(a) ==
  /\ At(a, "confirm")
  /\ IF Linkable(Receipt(a), job[a].body)
       THEN /\ SaveReceipt(a, Linked(Receipt(a), job[a].body))
            /\ Goto(a, "flushReceipt")
       ELSE Exit(a) /\ UNCHANGED receipts
  /\ UNCHANGED <<outbox, inbox, receivers>>

FlushReceipt(a) ==
  /\ At(a, "flushReceipt")
  /\ SaveReceipt(a, Flushed(Receipt(a)))
  /\ Exit(a)
  /\ UNCHANGED <<outbox, inbox, receivers>>

Killed(a) ==
  /\ ~At(a, "idle")
  /\ Exit(a)
  /\ UNCHANGED <<stores, receivers>>

-----------------------------------------------------------------------------
(* Receiving processes.                                                    *)

In(a, step) == rpc[a] = step
Continue(a, step) == rpc' = [rpc EXCEPT ![a] = step] /\ UNCHANGED mail
Leave(a) ==
  /\ rpc' = [rpc EXCEPT ![a] = "none"]
  /\ mail' = [mail EXCEPT ![a] = NoMail]

Stored(a) == inbox[mail[a].id]
SaveInbox(a, entry) == inbox' = [inbox EXCEPT ![mail[a].id] = entry]

\* MUTANT: a duplicate is acknowledged without flushing the directory
ReceiverStore_TrustsDuplicate(a) ==
  /\ In(a, "store")
  /\ IF Stored(a) = Absent
       THEN /\ SaveInbox(a, Linked(Stored(a), mail[a].body))
            /\ Continue(a, "flush")
       ELSE /\ UNCHANGED inbox
            /\ IF Stored(a).body = mail[a].body
                 THEN Continue(a, "reply")
                 ELSE Leave(a)
  /\ UNCHANGED <<outbox, receipts, senders>>

ReceiverStore(a) ==
  /\ In(a, "store")
  /\ IF Linkable(Stored(a), mail[a].body)
       THEN /\ SaveInbox(a, Linked(Stored(a), mail[a].body))
            /\ Continue(a, "flush")
       ELSE Leave(a) /\ UNCHANGED inbox
  /\ UNCHANGED <<outbox, receipts, senders>>

ReceiverFlush(a) ==
  /\ In(a, "flush")
  /\ SaveInbox(a, Flushed(Stored(a)))
  /\ Continue(a, "reply")
  /\ UNCHANGED <<outbox, receipts, senders>>

\* The reply reaches the sender if it still waits; what arrives damaged is
\* not what `deliver' expects and fails the attempt like a lost reply.
Reply(a) ==
  /\ In(a, "reply")
  /\ Leave(a)
  /\ IF At(a, "wait") THEN Goto(a, "confirm") ELSE UNCHANGED senders
  /\ UNCHANGED stores

\* The receiver is killed, or its connection breaks.
SessionEnds(a) ==
  /\ rpc[a] # "none"
  /\ Leave(a)
  /\ UNCHANGED <<stores, senders>>

-----------------------------------------------------------------------------
(* Hosts going down.                                                       *)

SenderDown(h) ==
  /\ pc' = [a \in Attempts |-> IF job[a].host = h THEN "idle" ELSE pc[a]]
  /\ job' = [a \in Attempts |-> IF job[a].host = h THEN NoJob ELSE job[a]]
  /\ \E left \in [Ids -> Entries] :
       /\ \A id \in Ids : left[id] \in AfterCrash(outbox[h][id])
       /\ outbox' = [outbox EXCEPT ![h] = left]
  /\ \E left \in [Ids -> Entries] :
       /\ \A id \in Ids : left[id] \in AfterCrash(receipts[h][id])
       /\ receipts' = [receipts EXCEPT ![h] = left]
  /\ UNCHANGED <<inbox, receivers>>

ReceiverDown ==
  /\ rpc' = [a \in Attempts |-> "none"]
  /\ mail' = [a \in Attempts |-> NoMail]
  /\ inbox' \in [Ids -> Entries]
  /\ \A id \in Ids : inbox'[id] \in AfterCrash(inbox[id])
  /\ UNCHANGED <<outbox, receipts, senders>>

-----------------------------------------------------------------------------

Init ==
  /\ outbox = [h \in Hosts |-> [id \in Ids |-> Absent]]
  /\ receipts = [h \in Hosts |-> [id \in Ids |-> Absent]]
  /\ inbox = [id \in Ids |-> Absent]
  /\ pc = [a \in Attempts |-> "idle"]
  /\ job = [a \in Attempts |-> NoJob]
  /\ rpc = [a \in Attempts |-> "none"]
  /\ mail = [a \in Attempts |-> NoMail]

SenderStep(a) ==
  \/ Save(a) \/ FlushSaved(a) \/ Deliver(a) \/ TimeOut(a)
  \/ Confirm(a) \/ FlushReceipt(a)
ReceiverStep(a) == ReceiverStore(a) \/ ReceiverFlush(a) \/ Reply(a)

Next ==
  \/ \E a \in Attempts :
       \/ Send(a) \/ Retry(a) \/ SenderStep(a) \/ ReceiverStep(a)
       \/ Killed(a) \/ SessionEnds(a)
  \/ \E h \in Hosts : SenderDown(h)
  \/ ReceiverDown

Spec == Init /\ [][Next]_vars

-----------------------------------------------------------------------------
(* Properties                                                              *)

StoresTyped ==
  /\ outbox \in [Hosts -> [Ids -> Entries]]
  /\ receipts \in [Hosts -> [Ids -> Entries]]
  /\ inbox \in [Ids -> Entries]

SendersTyped ==
  /\ pc \in [Attempts -> {"idle", "save", "flush", "deliver", "wait",
                         "confirm", "flushReceipt"}]
  /\ job \in [Attempts -> Jobs \cup {NoJob}]
  /\ \A a \in Attempts : ~At(a, "idle") => job[a] \in Jobs

ReceiversTyped ==
  /\ rpc \in [Attempts -> {"none", "store", "flush", "reply"}]
  /\ mail \in [Attempts -> Mails \cup {NoMail}]
  /\ \A a \in Attempts : ~In(a, "none") => mail[a] \in Mails

\* The types of the state; a process that runs has a message to work on.
TypeOK == StoresTyped /\ SendersTyped /\ ReceiversTyped

InboxHolds(id, body) == inbox[id] = [body |-> body, safe |-> TRUE]

\* A receipt on a sending host means that the peer stored this very message
\* and that no crash of the peer can lose it, however the receipt came about:
\* retries, duplicates, a conflicting message under the same ID, lost replies.
ReceiptHonest ==
  \A h \in Hosts, id \in Ids :
    receipts[h][id] # Absent => InboxHolds(id, receipts[h][id].body)

\* A message that was flushed to the inbox is never replaced or lost.
InboxImmutable ==
  [][\A id \in Ids : inbox[id].safe => inbox'[id] = inbox[id]]_vars

\* uu-link implements receipt-confirmed delivery: the durable part of the
\* stores changes only as AgentMail allows.
Durable(entry) == IF entry.safe THEN entry.body ELSE NoBody

Mail == INSTANCE AgentMail WITH
  delivered <- [id \in Ids |-> Durable(inbox[id])],
  confirmed <- [h \in Hosts |-> [id \in Ids |-> Durable(receipts[h][id])]]

ImplementsMail == Mail!Spec

\* What the next step of a sending process relies on.
SenderHolds(a) ==
  /\ At(a, "confirm") => InboxHolds(job[a].id, job[a].body)
  /\ At(a, "flushReceipt") =>
       /\ InboxHolds(job[a].id, job[a].body)
       /\ Receipt(a).body = job[a].body
  /\ At(a, "flush") => Saved(a).body = job[a].body

\* What the next step of a receiving process relies on, and the sender that
\* still waits for it.
ReceiverHolds(a) ==
  /\ In(a, "flush") => Stored(a).body = mail[a].body
  /\ In(a, "reply") => InboxHolds(mail[a].id, mail[a].body)
  /\ At(a, "wait") /\ ~In(a, "none") =>
       /\ mail[a].id = job[a].id
       /\ mail[a].body = job[a].body

\* The inductive invariant behind them.
IInv ==
  /\ TypeOK
  /\ ReceiptHonest
  /\ \A a \in Attempts : SenderHolds(a) /\ ReceiverHolds(a)

=============================================================================
