-------------------------- MODULE AgentLinkProofs --------------------------
(***************************************************************************)
(* Proofs about uu-link for any number of hosts, IDs, message bodies and   *)
(* concurrent processes.  The inductive invariant IInv ties every running  *)
(* process to the entry its next step relies on.  The argument is that     *)
(* stores only grow (StoresGrow): an entry that exists keeps its body, and *)
(* one that is safe never changes.  A step of one process therefore leaves *)
(* alone what the others rely on.  Only the crash of a host takes entries  *)
(* away, none of them safe, and it ends the processes of that host.        *)
(***************************************************************************)
EXTENDS AgentLink, TLAPS

USE DEF At, In

-----------------------------------------------------------------------------
(* The store routine.                                                      *)

\* An entry is absent, or it has a body.
LEMMA EntryBody ==
  ASSUME NEW e \in Entries
  PROVE  /\ e # Absent <=> e.body \in Bodies
         /\ e.safe => e # Absent
         /\ e.safe \in BOOLEAN
         /\ e = [body |-> e.body, safe |-> e.safe]
<1>1. CASE e = Absent
  BY <1>1, ConstantsAssumption DEF Absent
<1>2. CASE e \in [body : Bodies, safe : BOOLEAN]
  <2>1. e.body \in Bodies /\ e.safe \in BOOLEAN
    BY <1>2
  <2>2. e = [body |-> e.body, safe |-> e.safe]
    BY <1>2
  <2>3. e # Absent
    BY <2>1, ConstantsAssumption DEF Absent
  <2> QED
    BY <2>1, <2>2, <2>3
<1> QED
  BY <1>1, <1>2 DEF Entries

\* Linking gives an entry with the wanted body and leaves a present one as
\* it is.
LEMMA LinkedEntry ==
  ASSUME NEW e \in Entries, NEW body \in Bodies, Linkable(e, body)
  PROVE  /\ Linked(e, body) \in Entries
         /\ Linked(e, body).body = body
         /\ e # Absent => Linked(e, body) = e
<1>1. CASE e = Absent
  <2>1. Linked(e, body) = [body |-> body, safe |-> FALSE]
    BY <1>1 DEF Linked
  <2> QED
    BY <1>1, <2>1 DEF Entries
<1>2. CASE e # Absent
  BY <1>2 DEF Linkable, Linked
<1> QED
  BY <1>1, <1>2

\* Flushing a present entry keeps its body.
LEMMA FlushedEntry ==
  ASSUME NEW e \in Entries, e.body \in Bodies
  PROVE  /\ Flushed(e) \in Entries
         /\ Flushed(e) = [body |-> e.body, safe |-> TRUE]
         /\ e.safe => Flushed(e) = e
<1>1. Flushed(e) = [body |-> e.body, safe |-> TRUE]
  BY DEF Flushed
<1>2. Flushed(e) \in Entries
  BY <1>1 DEF Entries
<1>3. e.safe => Flushed(e) = e
  BY <1>1, EntryBody
<1> QED
  BY <1>1, <1>2, <1>3

\* A crash keeps safe entries and invents nothing.
LEMMA CrashedEntry ==
  ASSUME NEW e \in Entries, NEW left \in AfterCrash(e)
  PROVE  /\ left \in Entries
         /\ e.safe => left = e
         /\ left = Absent \/ left.body = e.body
<1>1. CASE e = Absent
  BY <1>1 DEF AfterCrash, Entries, Absent
<1>2. CASE e # Absent /\ e.safe
  BY <1>2 DEF AfterCrash, Survivors
<1>3. CASE e # Absent /\ ~e.safe
  <2>1. left = Absent \/ left = Flushed(e)
    BY <1>3 DEF AfterCrash, Survivors
  <2>2. Flushed(e) \in Entries /\ Flushed(e).body = e.body
    BY <1>3, EntryBody, FlushedEntry
  <2> QED
    BY <1>3, <2>1, <2>2 DEF Entries
<1> QED
  BY <1>1, <1>2, <1>3

-----------------------------------------------------------------------------
(* What a step does to the stores and to the processes.                    *)

\* An entry keeps its body, and a safe one stays as it is.
Grows(old, new) ==
  /\ old # Absent => new.body = old.body
  /\ old.safe => new = old

StoresGrow ==
  /\ \A h \in Hosts, id \in Ids : Grows(outbox[h][id], outbox'[h][id])
  /\ \A h \in Hosts, id \in Ids : Grows(receipts[h][id], receipts'[h][id])
  /\ \A id \in Ids : Grows(inbox[id], inbox'[id])

\* A running sender has a job, so the entries it works on exist.
LEMMA SenderJob ==
  ASSUME TypeOK, NEW a \in Attempts, ~At(a, "idle")
  PROVE  /\ job[a].host \in Hosts /\ job[a].id \in Ids /\ job[a].body \in Bodies
         /\ Saved(a) \in Entries /\ Receipt(a) \in Entries
<1>1. job[a] \in Jobs
  BY DEF TypeOK, SendersTyped
<1>2. job[a].host \in Hosts /\ job[a].id \in Ids /\ job[a].body \in Bodies
  BY <1>1 DEF Jobs
<1> QED
  BY <1>2 DEF TypeOK, StoresTyped, Saved, Receipt

\* A running receiver has a message, so the entry it works on exists.
LEMMA ReceiverMail ==
  ASSUME TypeOK, NEW a \in Attempts, ~In(a, "none")
  PROVE  mail[a].id \in Ids /\ mail[a].body \in Bodies /\ Stored(a) \in Entries
<1>1. mail[a] \in Mails
  BY DEF TypeOK, ReceiversTyped
<1>2. mail[a].id \in Ids /\ mail[a].body \in Bodies
  BY <1>1 DEF Mails
<1> QED
  BY <1>2 DEF TypeOK, StoresTyped, Stored

\* The ways a sending process moves on keep the types.
LEMMA SenderMoves ==
  ASSUME TypeOK, NEW a \in Attempts
  PROVE  /\ Exit(a) => SendersTyped'
         /\ \A step \in {"flush", "deliver", "wait", "confirm", "flushReceipt"} :
              ~At(a, "idle") /\ Goto(a, step) => SendersTyped'
         /\ \A step \in {"save", "deliver"}, h \in Hosts, id \in Ids, body \in Bodies :
              Start(a, step, h, id, body) => SendersTyped'
<1> USE DEF TypeOK, SendersTyped
<1>1. Exit(a) => SendersTyped'
  BY DEF Exit
<1>2. ASSUME NEW step \in {"flush", "deliver", "wait", "confirm", "flushReceipt"},
             ~At(a, "idle"), Goto(a, step)
      PROVE  SendersTyped'
  BY <1>2 DEF Goto
<1>3. ASSUME NEW step \in {"save", "deliver"},
             NEW h \in Hosts, NEW id \in Ids, NEW body \in Bodies,
             Start(a, step, h, id, body)
      PROVE  SendersTyped'
  <2>1. [host |-> h, id |-> id, body |-> body] \in Jobs
    BY DEF Jobs
  <2> QED
    BY <1>3, <2>1 DEF Start
<1> QED
  BY <1>1, <1>2, <1>3

\* The ways a receiving process moves on keep the types.
LEMMA ReceiverMoves ==
  ASSUME TypeOK, NEW a \in Attempts
  PROVE  /\ Leave(a) => ReceiversTyped'
         /\ \A step \in {"flush", "reply"} :
              ~In(a, "none") /\ Continue(a, step) => ReceiversTyped'
BY DEF TypeOK, ReceiversTyped, Leave, Continue

\* A process that does not move still finds what it relies on.
LEMMA OthersKeep ==
  ASSUME IInv, StoresGrow, NEW b \in Attempts
  PROVE  /\ pc'[b] = pc[b] /\ job'[b] = job[b] => SenderHolds(b)'
         /\ (/\ (pc'[b] = pc[b] /\ job'[b] = job[b]) \/ pc'[b] # "wait"
             /\ rpc'[b] = rpc[b] /\ mail'[b] = mail[b]) => ReceiverHolds(b)'
<1>1. ASSUME pc'[b] = pc[b], job'[b] = job[b]
      PROVE  SenderHolds(b)'
  <2>1. CASE At(b, "confirm")
    BY <1>1, <2>1, SenderJob
       DEF IInv, SenderHolds, InboxHolds, StoresGrow, Grows
  <2>2. CASE At(b, "flushReceipt")
    BY <1>1, <2>2, SenderJob, EntryBody
       DEF IInv, SenderHolds, InboxHolds, StoresGrow, Grows, Receipt
  <2>3. CASE At(b, "flush")
    BY <1>1, <2>3, SenderJob, EntryBody
       DEF IInv, SenderHolds, StoresGrow, Grows, Saved
  <2> QED
    BY <1>1, <2>1, <2>2, <2>3 DEF SenderHolds
<1>2. ASSUME (pc'[b] = pc[b] /\ job'[b] = job[b]) \/ pc'[b] # "wait",
             rpc'[b] = rpc[b], mail'[b] = mail[b]
      PROVE  ReceiverHolds(b)'
  <2>1. CASE In(b, "flush")
    BY <1>2, <2>1, ReceiverMail, EntryBody
       DEF IInv, ReceiverHolds, StoresGrow, Grows, Stored
  <2>2. CASE In(b, "reply")
    BY <1>2, <2>2, ReceiverMail
       DEF IInv, ReceiverHolds, InboxHolds, StoresGrow, Grows
  <2>3. CASE In(b, "none") \/ In(b, "store")
    BY <1>2, <2>3 DEF ReceiverHolds, IInv
  <2> QED
    BY <1>2, <2>1, <2>2, <2>3 DEF IInv, TypeOK, ReceiversTyped
<1> QED
  BY <1>1, <1>2

\* Receipts that were there stay honest.
LEMMA HonestKept ==
  ASSUME IInv, StoresGrow, receipts' = receipts
  PROVE  ReceiptHonest'
<1> SUFFICES ASSUME NEW h \in Hosts, NEW id \in Ids, receipts[h][id] # Absent
             PROVE  inbox'[id] = [body |-> receipts[h][id].body, safe |-> TRUE]
  BY DEF ReceiptHonest, InboxHolds, Absent
<1>1. inbox[id] = [body |-> receipts[h][id].body, safe |-> TRUE]
  BY DEF IInv, ReceiptHonest, InboxHolds
<1> QED
  BY <1>1 DEF StoresGrow, Grows

\* Stores that do not change grow.
LEMMA SameStoresGrow ==
  ASSUME UNCHANGED stores
  PROVE  StoresGrow
BY DEF stores, StoresGrow, Grows

-----------------------------------------------------------------------------
(* The invariant is kept by every step.                                    *)

\* The initial state satisfies the invariant.
LEMMA InitHolds == Init => IInv
BY ConstantsAssumption
   DEF Init, IInv, TypeOK, StoresTyped, SendersTyped, ReceiversTyped,
       ReceiptHonest, SenderHolds, ReceiverHolds, Entries

\* Steps of a sending process that leave the stores alone.
LEMMA QuietSender ==
  ASSUME IInv, NEW a \in Attempts, UNCHANGED stores,
         Send(a) \/ Retry(a) \/ Deliver(a) \/ TimeOut(a) \/ Killed(a)
  PROVE  IInv'
<1>1. StoresGrow /\ StoresTyped'
  BY SameStoresGrow DEF IInv, TypeOK, StoresTyped, stores
<1>2. SendersTyped' /\ ReceiversTyped'
  <2>1. CASE Send(a)
    BY <2>1, SenderMoves DEF Send, IInv, TypeOK, ReceiversTyped, receivers
  <2>2. CASE Retry(a)
    <3>1. PICK h \in Hosts, id \in Ids :
            outbox[h][id] # Absent /\ Start(a, "deliver", h, id, outbox[h][id].body)
      BY <2>2 DEF Retry
    <3>2. outbox[h][id].body \in Bodies
      BY <3>1, EntryBody DEF IInv, TypeOK, StoresTyped
    <3> QED
      BY <2>2, <3>1, <3>2, SenderMoves
         DEF Retry, IInv, TypeOK, ReceiversTyped, receivers
  <2>3. CASE Deliver(a)
    <3>1. SendersTyped'
      BY <2>3, SenderMoves DEF Deliver, IInv
    <3>2. CASE UNCHANGED receivers
      BY <3>1, <3>2 DEF receivers, IInv, TypeOK, ReceiversTyped
    <3>3. CASE /\ rpc' = [rpc EXCEPT ![a] = "store"]
               /\ mail' = [mail EXCEPT ![a] = [id |-> job[a].id, body |-> job[a].body]]
      <4>1. [id |-> job[a].id, body |-> job[a].body] \in Mails
        BY <2>3, SenderJob DEF Deliver, IInv, Mails
      <4> QED
        BY <3>1, <3>3, <4>1 DEF IInv, TypeOK, ReceiversTyped
    <3> QED
      BY <2>3, <3>2, <3>3 DEF Deliver
  <2>4. CASE TimeOut(a) \/ Killed(a)
    BY <2>4, SenderMoves DEF TimeOut, Killed, IInv, TypeOK, ReceiversTyped, receivers
  <2> QED
    BY <2>1, <2>2, <2>3, <2>4
<1>3. ReceiptHonest'
  BY <1>1, HonestKept DEF stores
<1>4. ASSUME NEW b \in Attempts PROVE SenderHolds(b)' /\ ReceiverHolds(b)'
  <2>1. CASE b # a
    <3>1. pc'[b] = pc[b] /\ job'[b] = job[b] /\ rpc'[b] = rpc[b] /\ mail'[b] = mail[b]
      BY <2>1 DEF Send, Retry, Deliver, TimeOut, Killed, Start, Exit, Goto,
                  receivers, IInv, TypeOK, SendersTyped, ReceiversTyped
    <3> QED
      BY <3>1, <1>1, OthersKeep
  <2>2. CASE b = a
    <3>1. pc'[a] \in {"save", "deliver", "idle", "wait"}
      BY DEF Send, Retry, Deliver, TimeOut, Killed, Start, Exit, Goto,
             IInv, TypeOK, SendersTyped
    <3>2. SenderHolds(b)'
      BY <2>2, <3>1 DEF SenderHolds
    <3>3. CASE pc'[a] # "wait"
      <4>1. rpc'[a] = rpc[a] /\ mail'[a] = mail[a]
        BY <3>3 DEF Send, Retry, Deliver, TimeOut, Killed, Start, Exit, Goto,
                    receivers, IInv, TypeOK, SendersTyped
      <4> QED
        BY <2>2, <3>2, <3>3, <4>1, <1>1, OthersKeep
    <3>4. CASE pc'[a] = "wait"
      <4>1. /\ rpc' = [rpc EXCEPT ![a] = "store"]
            /\ mail' = [mail EXCEPT ![a] = [id |-> job[a].id, body |-> job[a].body]]
            /\ job' = job
        BY <3>4 DEF Send, Retry, Deliver, TimeOut, Killed, Start, Exit, Goto,
                    IInv, TypeOK, SendersTyped
      <4> QED
        BY <2>2, <3>2, <4>1 DEF ReceiverHolds, IInv, TypeOK, ReceiversTyped
    <3> QED
      BY <3>3, <3>4
  <2> QED
    BY <2>1, <2>2
<1> QED
  BY <1>1, <1>2, <1>3, <1>4 DEF IInv, TypeOK

\* `store' on the outbox.
LEMMA SavePreserves ==
  ASSUME IInv, NEW a \in Attempts, Save(a) \/ FlushSaved(a)
  PROVE  IInv'
<1>1. ~At(a, "idle") /\ UNCHANGED <<receipts, inbox, rpc, mail>>
  BY DEF Save, FlushSaved, receivers
<1>2. /\ job[a].host \in Hosts /\ job[a].id \in Ids /\ job[a].body \in Bodies
      /\ Saved(a) \in Entries
  BY <1>1, SenderJob DEF IInv
<1>3. PICK entry \in Entries :
        /\ outbox' = outbox \/ SaveOutbox(a, entry)
        /\ Grows(Saved(a), entry)
        /\ pc'[a] = "flush" => SaveOutbox(a, entry) /\ entry.body = job[a].body
  <2>1. CASE Save(a) /\ Linkable(Saved(a), job[a].body)
    <3>1. SaveOutbox(a, Linked(Saved(a), job[a].body))
      BY <2>1 DEF Save
    <3>2. /\ Linked(Saved(a), job[a].body) \in Entries
          /\ Linked(Saved(a), job[a].body).body = job[a].body
          /\ Grows(Saved(a), Linked(Saved(a), job[a].body))
      BY <1>2, <2>1, LinkedEntry, EntryBody DEF Grows
    <3> QED
      BY <3>1, <3>2
  <2>2. CASE Save(a) /\ ~Linkable(Saved(a), job[a].body)
    <3>1. outbox' = outbox /\ pc'[a] # "flush"
      BY <2>2 DEF Save, Exit, IInv, TypeOK, SendersTyped
    <3> QED
      BY <1>2, <3>1 DEF Grows
  <2>3. CASE FlushSaved(a)
    <3>1. Saved(a).body \in Bodies
      BY <2>3, <1>2 DEF FlushSaved, IInv, SenderHolds
    <3>2. /\ Flushed(Saved(a)) \in Entries
          /\ Grows(Saved(a), Flushed(Saved(a)))
      BY <1>2, <3>1, FlushedEntry DEF Grows
    <3>3. SaveOutbox(a, Flushed(Saved(a))) /\ pc'[a] # "flush"
      BY <2>3 DEF FlushSaved, Goto, Exit, IInv, TypeOK, SendersTyped
    <3> QED
      BY <3>2, <3>3
  <2> QED
    BY <2>1, <2>2, <2>3
<1>4. StoresTyped'
  <2>1. outbox' = outbox \/ SaveOutbox(a, entry)
    BY <1>3
  <2>2. outbox' \in [Hosts -> [Ids -> Entries]]
    <3>1. CASE outbox' = outbox
      BY <3>1 DEF IInv, TypeOK, StoresTyped
    <3>2. CASE SaveOutbox(a, entry)
      BY <1>2, <3>2 DEF SaveOutbox, IInv, TypeOK, StoresTyped
    <3> QED
      BY <2>1, <3>1, <3>2
  <2> QED
    BY <1>1, <2>2 DEF IInv, TypeOK, StoresTyped
<1>5. StoresGrow
  BY <1>1, <1>2, <1>3 DEF SaveOutbox, StoresGrow, Grows, Saved, IInv, TypeOK, StoresTyped
<1>6. SendersTyped' /\ ReceiversTyped'
  BY <1>1, SenderMoves DEF Save, FlushSaved, IInv, TypeOK, ReceiversTyped
<1>7. ReceiptHonest'
  BY <1>1, <1>5, HonestKept
<1>8. ASSUME NEW b \in Attempts PROVE SenderHolds(b)' /\ ReceiverHolds(b)'
  <2>1. CASE b # a
    <3>1. pc'[b] = pc[b] /\ job'[b] = job[b]
      BY <2>1 DEF Save, FlushSaved, Exit, Goto, IInv, TypeOK, SendersTyped
    <3> QED
      BY <3>1, <1>1, <1>5, OthersKeep
  <2>2. CASE b = a
    <3>1. pc'[a] \in {"flush", "deliver", "idle"} /\ (pc'[a] = "flush" => job' = job)
      BY DEF Save, FlushSaved, Exit, Goto, IInv, TypeOK, SendersTyped
    <3>2. ReceiverHolds(b)'
      BY <2>2, <3>1, <1>1, <1>5, OthersKeep
    <3>3. pc'[a] = "flush" => outbox'[job[a].host][job[a].id].body = job[a].body
      BY <1>2, <1>3 DEF SaveOutbox, IInv, TypeOK, StoresTyped
    <3> QED
      BY <2>2, <3>1, <3>2, <3>3 DEF SenderHolds, Saved
  <2> QED
    BY <2>1, <2>2
<1> QED
  BY <1>4, <1>6, <1>7, <1>8 DEF IInv, TypeOK

\* `store' on the receipts: the only steps that add one.
LEMMA ConfirmPreserves ==
  ASSUME IInv, NEW a \in Attempts, Confirm(a) \/ FlushReceipt(a)
  PROVE  IInv'
<1>1. ~At(a, "idle") /\ UNCHANGED <<outbox, inbox, rpc, mail>>
  BY DEF Confirm, FlushReceipt, receivers
<1>2. /\ job[a].host \in Hosts /\ job[a].id \in Ids /\ job[a].body \in Bodies
      /\ Receipt(a) \in Entries
  BY <1>1, SenderJob DEF IInv
<1>3. inbox[job[a].id] = [body |-> job[a].body, safe |-> TRUE]
  BY DEF Confirm, FlushReceipt, IInv, SenderHolds, InboxHolds
<1>4. PICK entry \in Entries :
        /\ receipts' = receipts \/ (SaveReceipt(a, entry) /\ entry.body = job[a].body)
        /\ Grows(Receipt(a), entry)
        /\ pc'[a] = "flushReceipt" => SaveReceipt(a, entry) /\ entry.body = job[a].body
  <2>1. CASE Confirm(a) /\ Linkable(Receipt(a), job[a].body)
    <3>1. SaveReceipt(a, Linked(Receipt(a), job[a].body))
      BY <2>1 DEF Confirm
    <3>2. /\ Linked(Receipt(a), job[a].body) \in Entries
          /\ Linked(Receipt(a), job[a].body).body = job[a].body
          /\ Grows(Receipt(a), Linked(Receipt(a), job[a].body))
      BY <1>2, <2>1, LinkedEntry, EntryBody DEF Grows
    <3> QED
      BY <3>1, <3>2
  <2>2. CASE Confirm(a) /\ ~Linkable(Receipt(a), job[a].body)
    <3>1. receipts' = receipts /\ pc'[a] # "flushReceipt"
      BY <2>2 DEF Confirm, Exit, IInv, TypeOK, SendersTyped
    <3> QED
      BY <1>2, <3>1 DEF Grows
  <2>3. CASE FlushReceipt(a)
    <3>1. Receipt(a).body = job[a].body
      BY <2>3 DEF FlushReceipt, IInv, SenderHolds
    <3>2. /\ Flushed(Receipt(a)) \in Entries
          /\ Flushed(Receipt(a)).body = job[a].body
          /\ Grows(Receipt(a), Flushed(Receipt(a)))
      BY <1>2, <3>1, FlushedEntry DEF Grows
    <3>3. SaveReceipt(a, Flushed(Receipt(a))) /\ pc'[a] # "flushReceipt"
      BY <2>3 DEF FlushReceipt, Exit, IInv, TypeOK, SendersTyped
    <3> QED
      BY <3>2, <3>3
  <2> QED
    BY <2>1, <2>2, <2>3
<1>5. StoresTyped'
  <2>1. receipts' = receipts \/ SaveReceipt(a, entry)
    BY <1>4
  <2>2. /\ receipts \in [Hosts -> [Ids -> Entries]]
        /\ outbox \in [Hosts -> [Ids -> Entries]]
        /\ inbox \in [Ids -> Entries]
    BY DEF IInv, TypeOK, StoresTyped
  <2>3. receipts' \in [Hosts -> [Ids -> Entries]]
    <3>1. CASE receipts' = receipts
      BY <2>2, <3>1
    <3>2. CASE SaveReceipt(a, entry)
      BY <1>2, <2>2, <3>2 DEF SaveReceipt
    <3> QED
      BY <2>1, <3>1, <3>2
  <2> QED
    BY <1>1, <2>2, <2>3 DEF StoresTyped
<1>6. StoresGrow
  BY <1>1, <1>2, <1>4
     DEF SaveReceipt, StoresGrow, Grows, Receipt, IInv, TypeOK, StoresTyped
<1>7. SendersTyped' /\ ReceiversTyped'
  BY <1>1, SenderMoves DEF Confirm, FlushReceipt, IInv, TypeOK, ReceiversTyped
<1>8. ReceiptHonest'
  <2> SUFFICES ASSUME NEW h \in Hosts, NEW id \in Ids, receipts'[h][id] # Absent
               PROVE  inbox[id] = [body |-> receipts'[h][id].body, safe |-> TRUE]
    BY <1>1 DEF ReceiptHonest, InboxHolds, Absent
  <2>1. CASE receipts'[h][id] = receipts[h][id]
    BY <2>1 DEF IInv, ReceiptHonest, InboxHolds
  <2>2. CASE receipts'[h][id] # receipts[h][id]
    <3>1. id = job[a].id /\ receipts'[h][id].body = job[a].body
      BY <1>2, <1>4, <2>2 DEF SaveReceipt, IInv, TypeOK, StoresTyped
    <3> QED
      BY <1>3, <3>1
  <2> QED
    BY <2>1, <2>2
<1>9. ASSUME NEW b \in Attempts PROVE SenderHolds(b)' /\ ReceiverHolds(b)'
  <2>1. CASE b # a
    <3>1. pc'[b] = pc[b] /\ job'[b] = job[b]
      BY <2>1 DEF Confirm, FlushReceipt, Exit, Goto, IInv, TypeOK, SendersTyped
    <3> QED
      BY <3>1, <1>1, <1>6, OthersKeep
  <2>2. CASE b = a
    <3>1. /\ pc'[a] \in {"flushReceipt", "idle"}
          /\ pc'[a] = "flushReceipt" => job' = job
      BY DEF Confirm, FlushReceipt, Exit, Goto, IInv, TypeOK, SendersTyped
    <3>2. ReceiverHolds(b)'
      BY <2>2, <3>1, <1>1, <1>6, OthersKeep
    <3>3. pc'[a] = "flushReceipt"
            => receipts'[job[a].host][job[a].id].body = job[a].body
      BY <1>2, <1>4 DEF SaveReceipt, IInv, TypeOK, StoresTyped
    <3> QED
      BY <2>2, <3>1, <3>2, <3>3, <1>1, <1>3 DEF SenderHolds, Receipt, InboxHolds
  <2> QED
    BY <2>1, <2>2
<1> QED
  BY <1>5, <1>7, <1>8, <1>9 DEF IInv, TypeOK

\* Steps of a receiving process.
LEMMA ReceiverPreserves ==
  ASSUME IInv, NEW a \in Attempts, ReceiverStep(a) \/ SessionEnds(a)
  PROVE  IInv'
<1>1. ~In(a, "none") /\ UNCHANGED <<outbox, receipts>>
  BY DEF ReceiverStep, ReceiverStore, ReceiverFlush, Reply, SessionEnds, stores
<1>2. mail[a].id \in Ids /\ mail[a].body \in Bodies /\ Stored(a) \in Entries
  BY <1>1, ReceiverMail DEF IInv
<1>3. PICK entry \in Entries :
        /\ inbox' = inbox \/ SaveInbox(a, entry)
        /\ Grows(Stored(a), entry)
        /\ rpc'[a] \in {"flush", "reply"} =>
             SaveInbox(a, entry) /\ entry.body = mail[a].body /\ mail' = mail
        /\ rpc'[a] = "reply" => entry.safe = TRUE
        /\ rpc'[a] \in {"none", "flush", "reply"}
  <2> USE DEF IInv, TypeOK, ReceiversTyped
  <2>1. CASE ReceiverStore(a) /\ Linkable(Stored(a), mail[a].body)
    <3>1. /\ SaveInbox(a, Linked(Stored(a), mail[a].body))
          /\ rpc'[a] = "flush" /\ mail' = mail
      BY <2>1 DEF ReceiverStore, Continue
    <3>2. /\ Linked(Stored(a), mail[a].body) \in Entries
          /\ Linked(Stored(a), mail[a].body).body = mail[a].body
          /\ Grows(Stored(a), Linked(Stored(a), mail[a].body))
      BY <1>2, <2>1, LinkedEntry, EntryBody DEF Grows
    <3> QED
      BY <3>1, <3>2
  <2>2. CASE ReceiverStore(a) /\ ~Linkable(Stored(a), mail[a].body)
    <3>1. inbox' = inbox /\ rpc'[a] = "none"
      BY <2>2 DEF ReceiverStore, Leave
    <3> QED
      BY <1>2, <3>1 DEF Grows
  <2>3. CASE ReceiverFlush(a)
    <3>1. Stored(a).body = mail[a].body
      BY <2>3 DEF ReceiverFlush, ReceiverHolds
    <3>2. /\ Flushed(Stored(a)) \in Entries
          /\ Flushed(Stored(a)).body = mail[a].body
          /\ Flushed(Stored(a)).safe = TRUE
          /\ Grows(Stored(a), Flushed(Stored(a)))
      BY <1>2, <3>1, FlushedEntry DEF Grows
    <3>3. SaveInbox(a, Flushed(Stored(a))) /\ rpc'[a] = "reply" /\ mail' = mail
      BY <2>3 DEF ReceiverFlush, Continue
    <3> QED
      BY <3>2, <3>3
  <2>4. CASE Reply(a) \/ SessionEnds(a)
    <3>1. inbox' = inbox /\ rpc'[a] = "none"
      BY <2>4 DEF Reply, SessionEnds, Leave, stores
    <3> QED
      BY <1>2, <3>1 DEF Grows
  <2> QED
    BY <2>1, <2>2, <2>3, <2>4 DEF ReceiverStep
<1>4. StoresTyped'
  <2>1. inbox' \in [Ids -> Entries]
    BY <1>2, <1>3 DEF SaveInbox, IInv, TypeOK, StoresTyped
  <2> QED
    BY <1>1, <2>1 DEF IInv, TypeOK, StoresTyped
<1>5. StoresGrow
  BY <1>1, <1>2, <1>3
     DEF SaveInbox, StoresGrow, Grows, Stored, IInv, TypeOK, StoresTyped
<1>6. ReceiptHonest'
  BY <1>1, <1>5, HonestKept
<1>7. ReceiversTyped'
  BY <1>1, ReceiverMoves
     DEF ReceiverStep, ReceiverStore, ReceiverFlush, Reply, SessionEnds, IInv
<1>8. SendersTyped'
  <2>1. CASE UNCHANGED senders
    BY <2>1 DEF senders, IInv, TypeOK, SendersTyped
  <2>2. CASE At(a, "wait") /\ Goto(a, "confirm")
    BY <2>2, SenderMoves DEF IInv
  <2> QED
    BY <2>1, <2>2
       DEF ReceiverStep, ReceiverStore, ReceiverFlush, Reply, SessionEnds, senders
<1>9. ASSUME NEW b \in Attempts PROVE SenderHolds(b)' /\ ReceiverHolds(b)'
  <2>1. CASE b # a
    <3>1. pc'[b] = pc[b] /\ job'[b] = job[b] /\ rpc'[b] = rpc[b] /\ mail'[b] = mail[b]
      BY <2>1 DEF ReceiverStep, ReceiverStore, ReceiverFlush, Reply, SessionEnds,
                  Leave, Continue, Goto, senders, IInv, TypeOK, SendersTyped,
                  ReceiversTyped
    <3> QED
      BY <3>1, <1>5, OthersKeep
  <2>2. CASE b = a
    <3>1. SenderHolds(a)'
      <4>1. CASE UNCHANGED senders
        BY <4>1, <1>5, OthersKeep DEF senders
      <4>2. CASE Reply(a) /\ At(a, "wait") /\ Goto(a, "confirm")
        <5>1. /\ mail[a].id = job[a].id /\ mail[a].body = job[a].body
              /\ inbox[mail[a].id] = [body |-> mail[a].body, safe |-> TRUE]
          BY <4>2, <1>1 DEF Reply, IInv, ReceiverHolds, InboxHolds
        <5>2. pc'[a] = "confirm" /\ job' = job /\ inbox' = inbox
          BY <4>2 DEF Reply, Goto, stores, IInv, TypeOK, SendersTyped
        <5> QED
          BY <5>1, <5>2 DEF SenderHolds, InboxHolds
      <4> QED
        BY <4>1, <4>2
           DEF ReceiverStep, ReceiverStore, ReceiverFlush, Reply, SessionEnds, senders
    <3>2. ReceiverHolds(a)'
      <4>1. CASE rpc'[a] = "none"
        BY <4>1 DEF ReceiverHolds
      <4>2. CASE rpc'[a] \in {"flush", "reply"}
        <5>1. /\ inbox'[mail[a].id] = entry /\ mail' = mail
              /\ entry.body = mail[a].body /\ (rpc'[a] = "reply" => entry.safe = TRUE)
          BY <4>2, <1>2, <1>3 DEF SaveInbox, IInv, TypeOK, StoresTyped
        <5>2. rpc'[a] = "reply" => entry = [body |-> mail[a].body, safe |-> TRUE]
          BY <5>1, EntryBody
        <5>3. pc'[a] = "wait" => mail[a].id = job[a].id /\ mail[a].body = job[a].body
          BY <4>2, <1>1
             DEF ReceiverStep, ReceiverStore, ReceiverFlush, Reply, SessionEnds,
                 Leave, senders, IInv, TypeOK, ReceiversTyped, ReceiverHolds
        <5>4. pc'[a] = "wait" => job' = job
          BY DEF ReceiverStep, ReceiverStore, ReceiverFlush, Reply, SessionEnds,
                 Goto, senders
        <5> QED
          BY <4>2, <5>1, <5>2, <5>3, <5>4 DEF ReceiverHolds, Stored, InboxHolds
      <4> QED
        BY <1>3, <4>1, <4>2
    <3> QED
      BY <2>2, <3>1, <3>2
  <2> QED
    BY <2>1, <2>2
<1> QED
  BY <1>4, <1>6, <1>7, <1>8, <1>9 DEF IInv, TypeOK

\* A host that goes down loses unsafe entries and its own processes only.
LEMMA SenderDownPreserves ==
  ASSUME IInv, NEW h \in Hosts, SenderDown(h)
  PROVE  IInv'
<1> USE DEF IInv, TypeOK, SenderDown
<1>1. /\ outbox' \in [Hosts -> [Ids -> Entries]]
      /\ receipts' \in [Hosts -> [Ids -> Entries]]
      /\ \A g \in Hosts, id \in Ids : g # h =>
           outbox'[g][id] = outbox[g][id] /\ receipts'[g][id] = receipts[g][id]
      /\ \A id \in Ids : receipts'[h][id] \in AfterCrash(receipts[h][id])
  BY DEF StoresTyped
<1>2. SendersTyped'
  BY ConstantsAssumption DEF SendersTyped, NoJob
<1>3. ReceiptHonest'
  <2> SUFFICES ASSUME NEW g \in Hosts, NEW id \in Ids, receipts'[g][id] # Absent
               PROVE  inbox[id] = [body |-> receipts'[g][id].body, safe |-> TRUE]
    BY DEF ReceiptHonest, InboxHolds, Absent
  <2>1. /\ receipts[g][id] # Absent
        /\ receipts'[g][id].body = receipts[g][id].body
    <3>1. CASE g # h
      BY <1>1, <3>1
    <3>2. CASE g = h
      BY <1>1, <3>2, CrashedEntry DEF StoresTyped, AfterCrash
    <3> QED
      BY <3>1, <3>2
  <2> QED
    BY <2>1 DEF ReceiptHonest, InboxHolds
<1>4. ASSUME NEW b \in Attempts PROVE SenderHolds(b)' /\ ReceiverHolds(b)'
  <2>1. CASE job[b].host = h
    <3>1. pc'[b] = "idle"
      BY <2>1 DEF SendersTyped
    <3> QED
      BY <3>1 DEF SenderHolds, ReceiverHolds, InboxHolds, Stored, receivers
  <2>2. CASE job[b].host # h
    <3>1. pc'[b] = pc[b] /\ job'[b] = job[b] /\ inbox' = inbox
      BY <2>2
    <3>2. ~At(b, "idle") =>
            /\ Saved(b)' = Saved(b)
            /\ Receipt(b)' = Receipt(b)
      BY <1>1, <2>2, <3>1, SenderJob DEF Saved, Receipt
    <3> QED
      BY <3>1, <3>2 DEF SenderHolds, ReceiverHolds, InboxHolds, Stored, receivers
  <2> QED
    BY <2>1, <2>2
<1> QED
  BY <1>1, <1>2, <1>3, <1>4 DEF StoresTyped, ReceiversTyped, receivers

\* The receiving host loses unsafe entries and all its processes; the senders
\* rely on safe entries alone.
LEMMA ReceiverDownPreserves ==
  ASSUME IInv, ReceiverDown
  PROVE  IInv'
<1> USE DEF IInv, TypeOK, ReceiverDown
<1>1. \A id \in Ids : inbox[id].safe => inbox'[id] = inbox[id]
  BY CrashedEntry DEF StoresTyped
<1>2. StoresTyped' /\ SendersTyped' /\ ReceiversTyped'
  BY DEF StoresTyped, SendersTyped, ReceiversTyped, senders
<1>3. ReceiptHonest'
  <2> SUFFICES ASSUME NEW g \in Hosts, NEW id \in Ids, receipts[g][id] # Absent
               PROVE  inbox'[id] = [body |-> receipts[g][id].body, safe |-> TRUE]
    BY DEF ReceiptHonest, InboxHolds, Absent
  <2>1. inbox[id] = [body |-> receipts[g][id].body, safe |-> TRUE]
    BY DEF ReceiptHonest, InboxHolds
  <2> QED
    BY <1>1, <2>1
<1>4. ASSUME NEW b \in Attempts PROVE SenderHolds(b)' /\ ReceiverHolds(b)'
  <2>1. rpc'[b] = "none" /\ pc'[b] = pc[b] /\ job'[b] = job[b]
    BY DEF senders
  <2>2. ReceiverHolds(b)'
    BY <2>1 DEF ReceiverHolds
  <2>3. SenderHolds(b)'
    <3>1. /\ (job[b]') = job[b] /\ (pc[b]') = pc[b]
          /\ outbox' = outbox /\ receipts' = receipts
      BY <2>1
    <3>2. pc[b] \in {"confirm", "flushReceipt"} /\ InboxHolds(job[b].id, job[b].body)
            => InboxHolds(job[b].id, job[b].body)'
      <4> SUFFICES ASSUME pc[b] \in {"confirm", "flushReceipt"},
                          InboxHolds(job[b].id, job[b].body)
                   PROVE  InboxHolds(job[b].id, job[b].body)'
        OBVIOUS
      <4>1. job[b].id \in Ids
        BY SenderJob
      <4>2. inbox[job[b].id].safe
        BY DEF InboxHolds
      <4>3. inbox'[job[b].id] = inbox[job[b].id]
        BY <1>1, <4>1, <4>2
      <4> QED
        BY <3>1, <4>3 DEF InboxHolds
    <3>3. SenderHolds(b)
      OBVIOUS
    <3> QED
      BY <3>1, <3>2, <3>3 DEF SenderHolds, Saved, Receipt
  <2> QED
    BY <2>2, <2>3
<1> QED
  BY <1>2, <1>3, <1>4

\* A stuttering step keeps the invariant.
LEMMA StutterPreserves ==
  ASSUME IInv, UNCHANGED vars
  PROVE  IInv'
BY DEF IInv, TypeOK, StoresTyped, SendersTyped, ReceiversTyped, ReceiptHonest,
       SenderHolds, ReceiverHolds, InboxHolds, Saved, Receipt, Stored, vars,
       stores, senders, receivers

\* Every step of every process and every crash keeps the invariant.
LEMMA NextPreserves ==
  ASSUME IInv, [Next]_vars
  PROVE  IInv'
<1>1. ASSUME NEW a \in Attempts, Send(a) \/ Retry(a) \/ Killed(a) PROVE IInv'
  BY <1>1, QuietSender DEF Send, Retry, Killed
<1>2. ASSUME NEW a \in Attempts, SenderStep(a) PROVE IInv'
  BY <1>2, QuietSender, SavePreserves, ConfirmPreserves
     DEF SenderStep, Deliver, TimeOut
<1>3. ASSUME NEW a \in Attempts, ReceiverStep(a) \/ SessionEnds(a) PROVE IInv'
  BY <1>3, ReceiverPreserves
<1> QED
  BY <1>1, <1>2, <1>3, SenderDownPreserves, ReceiverDownPreserves,
     StutterPreserves DEF Next

-----------------------------------------------------------------------------
(* What is durable.                                                        *)

\* Safe entries stay as they are, and no step touches inbox and receipts.
LEMMA SafeKept ==
  ASSUME IInv, [Next]_vars
  PROVE  /\ \A id \in Ids : inbox[id].safe => inbox'[id] = inbox[id]
         /\ \A h \in Hosts, id \in Ids :
              receipts[h][id].safe => receipts'[h][id] = receipts[h][id]
         /\ inbox' = inbox \/ receipts' = receipts
<1> USE DEF IInv, TypeOK, StoresTyped
<1>1. CASE UNCHANGED <<inbox, receipts>>
  BY <1>1
<1>2. ASSUME NEW a \in Attempts, Confirm(a) \/ FlushReceipt(a)
      PROVE  /\ inbox' = inbox
             /\ \A h \in Hosts, id \in Ids :
                  receipts[h][id].safe => receipts'[h][id] = receipts[h][id]
  <2>1. ~At(a, "idle") /\ inbox' = inbox
    BY <1>2 DEF Confirm, FlushReceipt
  <2>2. /\ job[a].host \in Hosts /\ job[a].id \in Ids /\ job[a].body \in Bodies
        /\ Receipt(a) \in Entries
    BY <2>1, SenderJob
  <2>3. CASE receipts' = receipts
    BY <2>1, <2>3
  <2>4. CASE Confirm(a) /\ Linkable(Receipt(a), job[a].body)
    <3>1. SaveReceipt(a, Linked(Receipt(a), job[a].body))
      BY <2>4 DEF Confirm
    <3>2. Receipt(a).safe => Linked(Receipt(a), job[a].body) = Receipt(a)
      BY <2>2, <2>4, LinkedEntry, EntryBody
    <3> QED
      BY <2>1, <2>2, <3>1, <3>2 DEF SaveReceipt, Receipt
  <2>5. CASE FlushReceipt(a)
    <3>1. SaveReceipt(a, Flushed(Receipt(a))) /\ Receipt(a).body \in Bodies
      BY <2>2, <2>5 DEF FlushReceipt, SenderHolds
    <3>2. Receipt(a).safe => Flushed(Receipt(a)) = Receipt(a)
      BY <2>2, <3>1, FlushedEntry
    <3> QED
      BY <2>1, <2>2, <3>1, <3>2 DEF SaveReceipt, Receipt
  <2> QED
    BY <1>2, <2>3, <2>4, <2>5 DEF Confirm
<1>3. ASSUME NEW a \in Attempts, ReceiverStore(a) \/ ReceiverFlush(a)
      PROVE  /\ receipts' = receipts
             /\ \A id \in Ids : inbox[id].safe => inbox'[id] = inbox[id]
  <2>1. ~In(a, "none") /\ receipts' = receipts
    BY <1>3 DEF ReceiverStore, ReceiverFlush
  <2>2. mail[a].id \in Ids /\ mail[a].body \in Bodies /\ Stored(a) \in Entries
    BY <2>1, ReceiverMail
  <2>3. CASE inbox' = inbox
    BY <2>1, <2>3
  <2>4. CASE ReceiverStore(a) /\ Linkable(Stored(a), mail[a].body)
    <3>1. SaveInbox(a, Linked(Stored(a), mail[a].body))
      BY <2>4 DEF ReceiverStore
    <3>2. Stored(a).safe => Linked(Stored(a), mail[a].body) = Stored(a)
      BY <2>2, <2>4, LinkedEntry, EntryBody
    <3> QED
      BY <2>1, <2>2, <3>1, <3>2 DEF SaveInbox, Stored
  <2>5. CASE ReceiverFlush(a)
    <3>1. SaveInbox(a, Flushed(Stored(a))) /\ Stored(a).body \in Bodies
      BY <2>2, <2>5 DEF ReceiverFlush, ReceiverHolds
    <3>2. Stored(a).safe => Flushed(Stored(a)) = Stored(a)
      BY <2>2, <3>1, FlushedEntry
    <3> QED
      BY <2>1, <2>2, <3>1, <3>2 DEF SaveInbox, Stored
  <2> QED
    BY <1>3, <2>3, <2>4, <2>5 DEF ReceiverStore
<1>4. ASSUME NEW h \in Hosts, SenderDown(h)
      PROVE  /\ inbox' = inbox
             /\ \A g \in Hosts, id \in Ids :
                  receipts[g][id].safe => receipts'[g][id] = receipts[g][id]
  <2>1. \A g \in Hosts, id \in Ids :
          \/ receipts'[g][id] = receipts[g][id]
          \/ receipts'[g][id] \in AfterCrash(receipts[g][id])
    BY <1>4 DEF SenderDown
  <2> QED
    BY <1>4, <2>1, CrashedEntry DEF SenderDown
<1>5. ASSUME ReceiverDown
      PROVE  /\ receipts' = receipts
             /\ \A id \in Ids : inbox[id].safe => inbox'[id] = inbox[id]
  BY <1>5, CrashedEntry DEF ReceiverDown
<1>6. ASSUME NEW a \in Attempts,
             Send(a) \/ Retry(a) \/ Save(a) \/ FlushSaved(a) \/ Deliver(a) \/ TimeOut(a)
               \/ Reply(a) \/ Killed(a) \/ SessionEnds(a)
      PROVE  UNCHANGED <<inbox, receipts>>
  BY <1>6 DEF Send, Retry, Save, FlushSaved, Deliver, TimeOut, Reply, Killed,
              SessionEnds, stores
<1> QED
  BY <1>1, <1>2, <1>3, <1>4, <1>5, <1>6
     DEF Next, SenderStep, ReceiverStep, vars, stores

\* A step of uu-link is a Deliver or a Confirm of the abstract mail, or
\* changes nothing durable.
LEMMA StepImplements ==
  ASSUME IInv, IInv', [Next]_vars
  PROVE  [Mail!Next]_(Mail!vars)
<1> USE DEF IInv, TypeOK, StoresTyped
<1>1. ASSUME NEW e \in Entries
      PROVE  Durable(e) \in Bodies \cup {NoBody} /\ (Durable(e) # NoBody <=> e.safe)
  BY <1>1, EntryBody, ConstantsAssumption DEF Durable
<1>2. CASE receipts' = receipts
  <2>1. \A id \in Ids : Durable(inbox'[id]) \in Bodies \cup {NoBody}
    BY <1>1
  <2>2. \A id \in Ids : Durable(inbox[id]) # NoBody => Durable(inbox'[id]) = Durable(inbox[id])
    BY <1>1, SafeKept
  <2>3. Mail!Deliver
    BY <1>2, <2>1, <2>2 DEF Mail!Deliver
  <2> QED
    BY <2>3 DEF Mail!Next
<1>3. CASE inbox' = inbox
  <2>1. \A h \in Hosts, id \in Ids : Durable(receipts'[h][id]) \in Bodies \cup {NoBody}
    BY <1>1
  <2>2. ASSUME NEW h \in Hosts, NEW id \in Ids,
               Durable(receipts'[h][id]) # Durable(receipts[h][id])
        PROVE  /\ Durable(receipts[h][id]) = NoBody
               /\ Durable(receipts'[h][id]) = Durable(inbox[id])
    <3>1. ~receipts[h][id].safe
      BY <2>2, SafeKept
    <3>2. Durable(receipts[h][id]) = NoBody
      BY <3>1 DEF Durable
    <3>3. receipts'[h][id].safe
      BY <1>1, <2>2, <3>2
    <3>4. inbox[id] = [body |-> receipts'[h][id].body, safe |-> TRUE]
      BY <1>3, <3>3, EntryBody DEF ReceiptHonest, InboxHolds, Absent
    <3> QED
      BY <3>2, <3>3, <3>4 DEF Durable
  <2>3. Mail!Confirm
    BY <1>3, <2>1, <2>2 DEF Mail!Confirm
  <2> QED
    BY <2>3 DEF Mail!Next
<1> QED
  BY <1>2, <1>3, SafeKept

-----------------------------------------------------------------------------
(* The theorems.                                                           *)

\* Every state of uu-link satisfies the inductive invariant.
THEOREM InductiveInvariant == Spec => []IInv
BY InitHolds, NextPreserves, PTL DEF Spec

\* The state keeps its types, and a process that runs has a message.
THEOREM TypeCorrect == Spec => []TypeOK
<1>1. IInv => TypeOK
  BY DEF IInv
<1> QED
  BY <1>1, InductiveInvariant, PTL

\* A receipt is only ever held for a message that the peer stored durably
\* with exactly this body.
THEOREM ReceiptsAreHonest == Spec => []ReceiptHonest
<1>1. IInv => ReceiptHonest
  BY DEF IInv
<1> QED
  BY <1>1, InductiveInvariant, PTL

\* A message that is durable in the inbox is never replaced or lost.
THEOREM InboxIsImmutable == Spec => InboxImmutable
<1>1. IInv /\ [Next]_vars =>
        [\A id \in Ids : inbox[id].safe => inbox'[id] = inbox[id]]_vars
  BY SafeKept
<1> QED
  BY <1>1, InductiveInvariant, PTL DEF Spec, InboxImmutable

\* All processes together, with every crash and every lost reply, implement
\* receipt-confirmed delivery.
THEOREM RefinesMail == Spec => ImplementsMail
<1>1. Init => Mail!Init
  BY DEF Init, Mail!Init, Durable, Absent
<1>2. IInv /\ IInv' /\ [Next]_vars => [Mail!Next]_(Mail!vars)
  BY StepImplements
<1> QED
  BY <1>1, <1>2, InductiveInvariant, PTL DEF Spec, ImplementsMail, Mail!Spec

=============================================================================
