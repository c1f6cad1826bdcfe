---------------------------- MODULE InputService ----------------------------
(***************************************************************************)
(* What the native input helper promises the broker, which decides by the  *)
(* answer to a request whether it may try another route.  Requests are     *)
(* served one at a time.  The moves of a batch are made in their order and *)
(* none twice; "ok" comes with the last of them, and a batch is            *)
(* "unsupported" before the first.  A text may be inserted until it is     *)
(* answered with anything but "ok", and not afterwards.                    *)
(***************************************************************************)
EXTENDS Naturals, Sequences

CONSTANTS
  Events,       \* events of a batch: sequences of moves
  ChordKeys     \* keys that a text borrows

VARIABLES
  display,      \* keys and buttons that are down
  kind,         \* the request: "none", "keys" or "text"
  batch,        \* events of the request, <<>> of a text
  made,         \* places of the batch whose moves were made
  inserted,     \* the text has been inserted
  reply         \* "none" as long as the request is served

request == <<kind, batch, made, inserted, reply>>
vars == <<display, request>>

Init ==
  /\ display = {}
  /\ kind = "none" /\ batch = <<>> /\ made = {} /\ inserted = FALSE /\ reply = "none"

Begin ==
  /\ kind = "none"
  /\ \/ kind' = "keys" /\ batch' \in Seq(Events) /\ batch' # <<>>
        /\ reply' \in {"none", "unsupported"}
     \/ kind' = "text" /\ batch' = <<>>
        /\ reply' \in {"none", "ok", "unsupported", "injection"}
  /\ made' = {} /\ inserted' = FALSE
  /\ UNCHANGED display

Serving(k) == kind = k /\ reply = "none"

Places == UNION {{<<e, m>> : m \in DOMAIN batch[e]} : e \in DOMAIN batch}
Earlier(p, q) == p[1] < q[1] \/ (p[1] = q[1] /\ p[2] < q[2])

MakeMove ==
  /\ Serving("keys")
  /\ \E p \in Places \ made :
       LET move == batch[p[1]][p[2]] IN
         /\ \A q \in Places : Earlier(q, p) => q \in made
         /\ made' = made \cup {p}
         /\ display' = IF move.down THEN display \cup {move.input} ELSE display \ {move.input}
  /\ reply' = IF Places \subseteq made' THEN "ok" ELSE "none"
  /\ UNCHANGED <<kind, batch, inserted>>

BorrowKeys ==
  /\ Serving("text")
  /\ display' \ ChordKeys = display \ ChordKeys
  /\ UNCHANGED request

InsertText ==
  /\ kind = "text" /\ reply \in {"none", "ok"}
  /\ inserted' = TRUE
  /\ UNCHANGED <<display, kind, batch, made, reply>>

Answer ==
  /\ \/ kind # "none" /\ reply' = "injection"
     \/ kind = "text" /\ reply' = "ok"
  /\ reply = "none"
  /\ UNCHANGED <<display, kind, batch, made, inserted>>

\* The answer is sent, or the helper dies.
Forget ==
  /\ kind' = "none" /\ batch' = <<>> /\ made' = {} /\ inserted' = FALSE /\ reply' = "none"
  /\ UNCHANGED display

ReleaseKeys ==
  /\ kind = "none" /\ display' \subseteq display
  /\ UNCHANGED request

Next ==
  \/ Begin \/ MakeMove \/ BorrowKeys \/ InsertText \/ Answer \/ Forget \/ ReleaseKeys

Spec == Init /\ [][Next]_vars
=============================================================================
