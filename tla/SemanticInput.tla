--------------------------- MODULE SemanticInput ---------------------------
(***************************************************************************)
(* SendInput calls of the phone, as the input broker (uu_input_broker.c)   *)
(* serves them.  A call is a batch of items.  Text that keys cannot        *)
(* express, and every batch that revises provisional text, is scanned item *)
(* by item into alternating text and key segments for the native X11       *)
(* helper (uu_x11_input.c); everything else is turned into key chords and  *)
(* sent through the helper, or through Wine's SendInput when the helper    *)
(* takes no part.                                                          *)
(*                                                                         *)
(* The broker lets a revision delete at most what the same client inserted *)
(* in the last two seconds: it keeps a credit of removable characters.     *)
(* The model keeps what the screen really holds, `tail': the characters    *)
(* that stand directly before the caret and came from this client since    *)
(* the credit was last due to be cleared.  The two may part in four ways,  *)
(* none of which the broker notices; `astray' records that one happened.   *)
(* Key presses and their releases are one item; the caret is in one editor.*)
(***************************************************************************)
EXTENDS Naturals, Sequences, Functions

CONSTANTS
  MaxBatch,     \* bound: items in a call
  MaxTail       \* bound: characters before the caret, and the credit

ASSUME ConstantsAssumption == MaxBatch \in Nat \ {0} /\ MaxTail \in Nat

\* UTF-16 units: an ASCII character, a character no key produces, the halves
\* of a surrogate pair, carriage return and line feed.
Units == {"char", "han", "hi", "lo", "cr", "lf"}
\* A Backspace arrives as a Unicode unit (erase) or as a physical key (back).
Backspaces == {"erase", "back"}
\* "key" is any other key or mouse event, "dead" a key without a scan code.
Keys == {"key", "dead"}
Items == Units \cup Backspaces \cup Keys

TextModes == {"auto", "clipboard", "keys"}  \* UU_PHONE_TEXT_MODE
Helpers == {"none", "split", "direct"}      \* split: semantic text only

VARIABLES
  config,       \* [text, helper]: the broker's settings, read once
  edit,         \* semantic_edit_state of the connected client:
  helper,       \* what the helper remembers between text requests: high, cr
  tail,
  ownErased,    \* history: a revision deleted text it had not inserted,
                \* although credit and screen had not parted
  astray,       \* history: they parted, since the credit was last cleared
  call          \* the call being served

vars == <<config, edit, helper, tail, ownErased, astray, call>>
screen == <<tail, ownErased, astray>>

Has(batch, kinds) == \E i \in DOMAIN batch : batch[i] \in kinds
Unicode(batch) == Has(batch, Units \cup {"erase"})
Batches == UNION {[1..n -> Items] : n \in 1..MaxBatch}
Blank == [credit |-> 0, high |-> FALSE, cr |-> FALSE]
Fresh == [high |-> FALSE, cr |-> FALSE]

\* Locals of send_relay_inputs and send_x11_clipboard_text: the item at hand,
\* the events collected for the next request (as positions of the batch), the
\* text the helper will make of them, the prospective edit state; and, for the
\* properties, what took effect and what the credit held back.
NoText == [ok |-> TRUE, size |-> 0, high |-> FALSE, cr |-> FALSE]
NoCall ==
  [path |-> "idle", batch |-> <<>>, at |-> 1, events |-> <<>>, text |-> FALSE,
   draft |-> NoText, next |-> Blank, sent |-> FALSE, applied |-> <<>>,
   clamped |-> {}, reply |-> "none"]

EditStates == [credit : Nat, high : BOOLEAN, cr : BOOLEAN]
Drafts == [ok : BOOLEAN, size : Nat, high : BOOLEAN, cr : BOOLEAN]
Calls ==
  [path : {"idle", "scan", "inject", "keys", "direct", "rdp", "done"},
   batch : Seq(Items), at : Nat \ {0}, events : Seq(Nat), text : BOOLEAN,
   draft : Drafts, next : EditStates, sent : BOOLEAN, applied : Seq(Nat), clamped : SUBSET Nat,
   reply : {"none", "sent", "failed"}]

TypeOK ==
  /\ config \in [text : TextModes, helper : Helpers]
  /\ edit \in EditStates
  /\ helper \in [high : BOOLEAN, cr : BOOLEAN]
  /\ tail \in Nat /\ ownErased \in BOOLEAN /\ astray \in BOOLEAN
  /\ call \in Calls

-----------------------------------------------------------------------------
(* Which batches take the clipboard route, and what keys can express.      *)

UsesClipboard(batch) ==
  /\ config.helper # "none"
  /\ config.text # "keys"
  /\ Unicode(batch)
  /\ \/ config.text = "clipboard"
     \/ Has(batch, Backspaces \cup (Units \ {"char"}))

Translatable(batch) == ~Has(batch, {"han", "hi", "lo"})

-----------------------------------------------------------------------------
(* Counting characters, on the broker's side and on the helper's.          *)

CreditUnit(e, unit) ==
  IF e.high
    THEN [credit |-> e.credit + (IF unit = "lo" THEN 1 ELSE 0),
          high |-> FALSE, cr |-> FALSE]
  ELSE IF unit \in {"hi", "lo"}
    THEN [e EXCEPT !.high = (unit = "hi"), !.cr = FALSE]
  ELSE IF unit = "lf" /\ e.cr
    THEN [e EXCEPT !.cr = FALSE]
  ELSE [e EXCEPT !.credit = @ + 1, !.cr = (unit = "cr")]

\* The helper turns units into text.  A low half without its high half, or a
\* high half followed by anything else, makes the whole request unsupported.
ConvertUnit(t, unit) ==
  IF ~t.ok THEN t
  ELSE IF t.high
    THEN [t EXCEPT !.ok = (unit = "lo"), !.high = FALSE, !.size = @ + 1]
  ELSE IF unit = "lo" THEN [t EXCEPT !.ok = FALSE]
  ELSE IF unit = "hi" THEN [t EXCEPT !.high = TRUE, !.cr = FALSE]
  ELSE IF unit = "lf" /\ t.cr THEN [t EXCEPT !.cr = FALSE]
  ELSE [t EXCEPT !.size = @ + 1, !.cr = (unit = "cr")]

-----------------------------------------------------------------------------
Item == call.batch[call.at]
More == call.at <= Len(call.batch)

Answer(reply) == call' = [call EXCEPT !.path = "done", !.reply = reply]

FallBackToKeys ==
  call' = [call EXCEPT !.path = "keys", !.at = 1, !.events = <<>>, !.clamped = {}]

\* What a key does to the editor.
Typed == {"char", "cr", "lf"}     \* as key chords
AfterKey(kind) ==
  CASE kind \in Typed -> tail + 1
    [] kind \in Backspaces -> IF tail = 0 THEN 0 ELSE tail - 1
    [] OTHER -> 0

-----------------------------------------------------------------------------
(* The client.                                                             *)

Accept ==
  /\ call.path = "idle"
  /\ \E batch \in Batches :
       /\ tail + Len(batch) <= MaxTail
       /\ edit.credit + Len(batch) <= MaxTail
       /\ call' = [NoCall EXCEPT
            !.path = IF UsesClipboard(batch) THEN "scan" ELSE "keys",
            !.batch = batch, !.next = edit]
  /\ UNCHANGED <<config, edit, helper, screen>>

Respond ==
  /\ call.path = "done"
  /\ call' = NoCall
  /\ UNCHANGED <<config, edit, helper, screen>>

\* The pipe's client leaves and another one connects: serve_client starts
\* with an empty edit state.  What stands in the editor is no longer its text.
NewClient ==
  /\ call.path = "idle"
  /\ edit' = Blank
  /\ tail' = 0 /\ astray' = FALSE
  /\ UNCHANGED <<config, helper, ownErased, call>>

\* More than two seconds pass: expire_semantic_edit_state clears the
\* allowance when the next call looks at it.
IdleGap ==
  /\ call.path = "idle"
  /\ edit' = Blank
  /\ tail' = 0 /\ astray' = FALSE
  /\ UNCHANGED <<config, helper, ownErased, call>>

-----------------------------------------------------------------------------
(* The clipboard route: send_x11_clipboard_text scans the batch and sends  *)
(* one helper request per segment.                                         *)

RelayFocusFails ==
  /\ call.path = "scan" /\ call.at = 1
  /\ config.helper = "split"
  /\ Answer("failed")
  /\ UNCHANGED <<config, edit, helper, screen>>

Spend(e) == [e EXCEPT !.credit = @ - 1]
Clamped == Item \in Backspaces /\ call.next.credit = 0

\* The item at hand ends the segment that was collected.
MustSend ==
  /\ call.path = "scan" /\ call.events # <<>>
  /\ More => Item # "dead" /\ ~Clamped /\ (Item \in Units) # call.text

Scanning(kinds) ==
  call.path = "scan" /\ More /\ Item \in kinds /\ ~MustSend

\* MUTANT: a revision may delete without credit.
ScanBackspace_Unclamped ==
  /\ Scanning(Backspaces)
  /\ call' = [call EXCEPT !.at = @ + 1, !.text = FALSE,
                          !.events = Append(@, call.at),
                          !.next = IF Clamped THEN @ ELSE Spend(@)]
  /\ UNCHANGED <<config, edit, helper, screen>>

ScanBackspace ==
  /\ Scanning(Backspaces)
  /\ call' = IF Clamped
       THEN [call EXCEPT !.at = @ + 1, !.clamped = @ \cup {call.at}]
       ELSE [call EXCEPT !.at = @ + 1, !.text = FALSE,
                         !.events = Append(@, call.at), !.next = Spend(@)]
  /\ UNCHANGED <<config, edit, helper, screen>>

\* The text the helper has made of the units before.
Draft == IF call.events = <<>>
           THEN [NoText EXCEPT !.high = helper.high, !.cr = helper.cr]
           ELSE call.draft

\* They part when the helper takes a line feed for the end of a carriage
\* return that the broker has forgotten.
ScanText ==
  /\ Scanning(Units)
  /\ call' = [call EXCEPT !.at = @ + 1, !.text = TRUE,
                          !.events = Append(@, call.at),
                          !.draft = ConvertUnit(Draft, Item),
                          !.next = CreditUnit(@, Item)]
  /\ astray' = (astray \/ (Item = "lf" /\ Draft.cr /\ ~call.next.cr))
  /\ UNCHANGED <<config, edit, helper, tail, ownErased>>

\* They part when a physical key between text moves the caret.
ScanKey ==
  /\ Scanning({"key"})
  /\ call' = [call EXCEPT !.at = @ + 1, !.text = FALSE,
                          !.events = Append(@, call.at)]
  /\ astray' = TRUE
  /\ UNCHANGED <<config, edit, helper, tail, ownErased>>

\* An item that no key event expresses ends the scan; what was collected
\* since the last request is dropped and the edit state is left alone.
ClipboardUnconvertible ==
  /\ Scanning({"dead"})
  /\ IF call.sent THEN Answer("failed") /\ astray' = TRUE
                  ELSE FallBackToKeys /\ UNCHANGED astray
  /\ UNCHANGED <<config, edit, helper, tail, ownErased>>

TextSent ==
  /\ MustSend /\ call.text /\ call.draft.ok
  /\ helper' = [high |-> call.draft.high, cr |-> call.draft.cr]
  /\ tail' = tail + call.draft.size
  /\ call' = [call EXCEPT !.sent = TRUE, !.events = <<>>, !.applied = @ \o call.events]
  /\ UNCHANGED <<config, edit, ownErased, astray>>

\* The connection breaks, or the helper cannot hand the text over: it may be
\* in or not.
TextFailed ==
  /\ MustSend /\ call.text /\ call.draft.ok
  /\ \/ helper' = Fresh
     \/ /\ call.draft.size > 0
        /\ helper' = [helper EXCEPT !.high = call.draft.high]
  /\ \/ /\ tail' = tail + call.draft.size
        /\ call' = [call EXCEPT !.path = "done", !.reply = "failed",
                                !.applied = @ \o call.events]
     \/ UNCHANGED tail /\ Answer("failed")
  /\ edit' = Blank
  /\ UNCHANGED <<config, ownErased, astray>>

KeysRequested ==
  /\ MustSend /\ ~call.text
  /\ call' = [call EXCEPT !.path = "inject"]
  /\ UNCHANGED <<config, edit, helper, screen>>

\* The helper injects the keys of a request one after the other.
InjectKey ==
  /\ call.path = "inject" /\ call.events # <<>>
  /\ LET kind == call.batch[Head(call.events)]
     IN /\ tail' = AfterKey(kind)
        /\ ownErased' = (ownErased \/ (kind \in Backspaces /\ tail = 0 /\ ~astray))
  /\ call' = [call EXCEPT !.events = Tail(@), !.applied = Append(@, Head(call.events))]
  /\ UNCHANGED <<config, edit, helper, astray>>

KeysSent ==
  /\ call.path = "inject" /\ call.events = <<>>
  /\ call' = [call EXCEPT !.path = "scan", !.sent = TRUE]
  /\ UNCHANGED <<config, edit, helper, screen>>

\* The helper reports an error or the connection breaks after some of the keys.
KeysFailed ==
  /\ call.path = "inject"
  /\ \/ helper' = Fresh
     \/ UNCHANGED helper
  /\ edit' = Blank
  /\ Answer("failed")
  /\ UNCHANGED <<config, screen>>

\* The helper cannot be reached, or refuses the request before any event.
Refused ==
  \/ ~call.sent /\ helper' = Fresh
  \/ call.text /\ ~call.draft.ok /\ helper' = [helper EXCEPT !.high = FALSE]
  \/ ~call.text /\ UNCHANGED helper

\* MUTANT: a refused segment always falls back to key chords.
SegmentRefused_AlwaysFallsBack ==
  /\ MustSend /\ Refused
  /\ edit' = Blank
  /\ FallBackToKeys
  /\ UNCHANGED <<config, screen>>

SegmentRefused ==
  /\ MustSend /\ Refused
  /\ edit' = Blank
  /\ IF call.sent THEN Answer("failed") ELSE FallBackToKeys
  /\ UNCHANGED <<config, screen>>

\* MUTANT: the last segment is forgotten.
ClipboardDone_DropsLast ==
  /\ call.path = "scan" /\ ~More
  /\ edit' = call.next
  /\ Answer("sent")
  /\ UNCHANGED <<config, helper, screen>>

ClipboardDone ==
  /\ call.path = "scan" /\ ~More /\ call.events = <<>>
  /\ edit' = call.next
  /\ Answer("sent")
  /\ UNCHANGED <<config, helper, screen>>

-----------------------------------------------------------------------------
(* The key route: translate_inputs, then the helper, then SendInput.       *)

Untranslatable ==
  /\ call.path = "keys"
  /\ ~Translatable(call.batch)
  /\ Answer("failed")
  /\ UNCHANGED <<config, edit, helper, screen>>

TakeRoute(route) == call' = [call EXCEPT !.path = route, !.next = edit]

HelperTakesPart ==
  /\ call.path = "keys" /\ Translatable(call.batch)
  /\ config.helper = "direct" /\ ~Has(call.batch, {"dead"})
  /\ TakeRoute("direct")
  /\ UNCHANGED <<config, edit, helper, screen>>

\* send_x11_inputs answered NOT_USED: keys do not go there, an item has no
\* scan code, the helper has no key for it or cannot be reached.
HelperTakesNoPart ==
  /\ call.path = "keys" /\ Translatable(call.batch)
  /\ \/ UNCHANGED helper
     \/ config.helper = "direct" /\ ~Has(call.batch, {"dead"}) /\ helper' = Fresh
  /\ TakeRoute("rdp")
  /\ UNCHANGED <<config, edit, screen>>

\* They part when a batch with Unicode text takes this route with Backspaces,
\* which have no bound here, or with physical keys.
TypeItem ==
  /\ call.path \in {"direct", "rdp"} /\ More
  /\ tail' = AfterKey(Item)
  /\ astray' = (astray \/ (Unicode(call.batch) /\ Item \in Backspaces \cup Keys))
  /\ call' = [call EXCEPT !.at = @ + 1, !.applied = Append(@, call.at),
                          !.next = IF Item \in Units THEN CreditUnit(@, Item) ELSE @]
  /\ UNCHANGED <<config, edit, helper, ownErased>>

\* MUTANT: physical input leaves the allowance alone.
KeysDone_NeverCleared ==
  /\ call.path \in {"direct", "rdp"} /\ ~More
  /\ edit' = call.next
  /\ Answer("sent")
  /\ UNCHANGED <<config, helper, screen>>

\* After a success Unicode text earns credit; physical input clears it.
KeysDone ==
  /\ call.path \in {"direct", "rdp"} /\ ~More
  /\ edit' = (IF Unicode(call.batch) THEN call.next ELSE Blank)
  /\ Answer("sent")
  /\ UNCHANGED <<config, helper, screen>>

HelperFails ==
  /\ call.path = "direct"
  /\ \/ helper' = Fresh
     \/ UNCHANGED helper
  /\ edit' = Blank
  /\ Answer("failed")
  /\ UNCHANGED <<config, screen>>

\* They part when SendInput takes only some of the items: the edit state is
\* left alone.
SendInputShort ==
  /\ call.path = "rdp" /\ More
  /\ astray' = (astray \/ call.at > 1)
  /\ Answer("failed")
  /\ UNCHANGED <<config, edit, helper, tail, ownErased>>

DesktopFocusFails ==
  /\ call.path = "rdp" /\ call.at = 1
  /\ Answer("failed")
  /\ UNCHANGED <<config, edit, helper, screen>>

-----------------------------------------------------------------------------

Init ==
  /\ config \in [text : TextModes, helper : Helpers]
  /\ edit = Blank
  /\ helper = Fresh
  /\ tail = 0 /\ ownErased = FALSE /\ astray = FALSE
  /\ call = NoCall

ClipboardRoute ==
  \/ RelayFocusFails \/ ScanBackspace \/ ScanText \/ ScanKey
  \/ ClipboardUnconvertible \/ TextSent \/ TextFailed \/ KeysRequested
  \/ InjectKey \/ KeysSent \/ KeysFailed \/ SegmentRefused \/ ClipboardDone

KeyRoute ==
  \/ Untranslatable \/ HelperTakesPart \/ HelperTakesNoPart \/ TypeItem
  \/ KeysDone \/ HelperFails \/ SendInputShort \/ DesktopFocusFails

Next == Accept \/ ClipboardRoute \/ KeyRoute \/ Respond \/ NewClient \/ IdleGap

Spec == Init /\ [][Next]_vars

-----------------------------------------------------------------------------
(* Properties                                                              *)

\* Unless credit and screen have parted, a revision on the clipboard route
\* deletes only characters that the same client inserted recently and that
\* still stand before the caret: never text that was there before
\* (send_x11_clipboard_text, whose comments promise it of every revision).
OwnTextKept == ~ownErased

\* Between calls the allowance never exceeds what stands before the caret,
\* whatever failed, unless they have parted in one of the ways marked above
\* (credit_semantic_text against what the helper or SendInput really did).
CreditCovered == call.path = "idle" /\ ~astray => edit.credit <= tail

\* Whatever fails, no item of a call takes effect twice and none overtakes an
\* earlier one: an ambiguous request is never replayed on another route.
NeverReplayed ==
  \A k, l \in DOMAIN call.applied : k < l => call.applied[k] < call.applied[l]

\* A call is reported as sent only when every item took effect, apart from
\* the Backspaces that the credit did not cover.
SentMeansComplete ==
  (call.path = "done" /\ call.reply = "sent") =>
    \A i \in DOMAIN call.batch :
      i \in Range(call.applied) \/ i \in call.clamped

=============================================================================
