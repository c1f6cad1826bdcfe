----------------------------- MODULE AgentMail -----------------------------
(***************************************************************************)
(* What uu-link promises about its receipts.  A message is delivered at    *)
(* most once under its ID and then stays as it is; a host confirms only    *)
(* the very message that was delivered.  Nothing here crashes or retries.  *)
(* Several entries may become durable at once: the disk of a host that     *)
(* goes down may or may not have written what was not flushed yet.         *)
(***************************************************************************)
CONSTANTS Hosts, Ids, Bodies, NoBody

VARIABLES
  delivered,    \* body stored for good under an ID, at the receiver
  confirmed     \* body a sending host holds a durable receipt for

vars == <<delivered, confirmed>>

Init ==
  /\ delivered = [id \in Ids |-> NoBody]
  /\ confirmed = [h \in Hosts |-> [id \in Ids |-> NoBody]]

Deliver ==
  /\ delivered' \in [Ids -> Bodies \cup {NoBody}]
  /\ \A id \in Ids : delivered[id] # NoBody => delivered'[id] = delivered[id]
  /\ UNCHANGED confirmed

Confirm ==
  /\ confirmed' \in [Hosts -> [Ids -> Bodies \cup {NoBody}]]
  /\ \A h \in Hosts, id \in Ids :
       \/ confirmed'[h][id] = confirmed[h][id]
       \/ confirmed[h][id] = NoBody /\ confirmed'[h][id] = delivered[id]
  /\ UNCHANGED delivered

Next == Deliver \/ Confirm

Spec == Init /\ [][Next]_vars
=============================================================================
