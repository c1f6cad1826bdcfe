-------------------------- MODULE X11InputProofs --------------------------
(***************************************************************************)
(* What the input helper holds down and what it hands to the xclips, for    *)
(* any keys, batches, host applications and numbers of requests, with every *)
(* XTEST call free to fail and signals and lost owners at every step.       *)
(***************************************************************************)
EXTENDS X11Input, FiniteSetTheorems, TLAPS

\* The move that is injected next is one.
LEMMA MoveIsTyped ==
  ASSUME TypeOK, KeysRecorded, step = "event"
  PROVE  /\ batch[ev][mv] \in Moves /\ batch[ev][mv].input \in Inputs
         /\ batch # <<>> /\ Len(batch) \in Nat /\ Len(batch[ev]) \in Nat
         /\ ev < Len(batch) => Len(batch[ev + 1]) \in Nat /\ 1 <= Len(batch[ev + 1])
<1>1. /\ batch \in Seq(Events) /\ ev \in 1..Len(batch) /\ mv \in 1..Len(batch[ev])
      /\ batch # <<>> /\ Events \subseteq Seq(Moves) \ {<<>>}
  BY ConstantsAssumption DEF TypeOK, KeysRecorded
<1>2. batch[ev] \in Seq(Moves)
  BY <1>1
<1>3. batch[ev][mv] \in Moves
  BY <1>1, <1>2
<1>4. batch[ev][mv].input \in Inputs
  BY <1>3 DEF Moves
<1>5. ASSUME ev < Len(batch) PROVE Len(batch[ev + 1]) \in Nat /\ 1 <= Len(batch[ev + 1])
  <2>1. batch[ev + 1] \in Seq(Moves) /\ batch[ev + 1] # <<>>
    BY <1>1, <1>5
  <2>2. QED
    BY <2>1
<1>6. QED
  BY <1>1, <1>2, <1>3, <1>4, <1>5

\* The display may refuse some of a finite set of releases.
LEMMA LetGoIsTyped ==
  ASSUME TypeOK, NEW held \in SUBSET Inputs, LetGo(held)
  PROVE  /\ refusals' \in 0..MaxRefusals /\ down' \subseteq Inputs /\ refused' \subseteq Inputs
         /\ down \ (refused' \cup held) \subseteq down'
         /\ down' \subseteq (down \ held) \cup refused' /\ down' \subseteq down
         /\ refused \subseteq refused' /\ refused' \subseteq refused \cup held
<1>1. PICK r \in SUBSET held :
        /\ refusals + Cardinality(r) <= MaxRefusals
        /\ refusals' = refusals + Cardinality(r)
        /\ down' = down \ (held \ r)
        /\ refused' = refused \cup r
  BY DEF LetGo
<1>2. Cardinality(r) \in Nat
  BY <1>1, ConstantsAssumption, FS_Subset, FS_CardinalityType
<1>3. QED
  BY <1>1, <1>2, ConstantsAssumption DEF TypeOK

\* A refused call is counted.
LEMMA RefuseIsTyped ==
  ASSUME TypeOK, Refuse
  PROVE  refusals' \in 0..MaxRefusals /\ down' = down /\ refused' = refused
  BY ConstantsAssumption DEF TypeOK, Refuse

\* After a move the helper is at the next one, or has done all.
LEMMA InjectAdvances ==
  ASSUME TypeOK, KeysRecorded, Inject
  PROVE  /\ down' \subseteq Inputs /\ pressed' \subseteq Inputs
         /\ ev' \in Nat /\ mv' \in Nat
         /\ step' = "event" =>
              batch' # <<>> /\ ev' \in 1..Len(batch') /\ mv' \in 1..Len(batch'[ev'])
         /\ \/ step' = "event" /\ answer' = answer
            \/ step' = "reply" /\ answer' = "ok"
         /\ \A r : down \subseteq pressed \cup r => down' \subseteq pressed' \cup r
         /\ step = "event" /\ batch # <<>>
         /\ UNCHANGED <<conn, sent, stop, sel, batch, chord, refusals, refused, x11, local, target,
                        history>>
<1> USE MoveIsTyped DEF Inject, NewAnswer
<1>1. down' \subseteq Inputs /\ pressed' \subseteq Inputs
  BY DEF Apply, TypeOK
<1>2. \A r : down \subseteq pressed \cup r => down' \subseteq pressed' \cup r
  BY DEF Apply
<1>3. ev \in Nat /\ mv \in Nat /\ ev \in 1..Len(batch) /\ mv \in 1..Len(batch[ev]) /\ batch' = batch
  BY DEF TypeOK, KeysRecorded
<1>4. /\ ev' \in Nat /\ mv' \in Nat
      /\ step' = "event" =>
           batch' # <<>> /\ ev' \in 1..Len(batch') /\ mv' \in 1..Len(batch'[ev'])
      /\ \/ step' = "event" /\ answer' = answer
         \/ step' = "reply" /\ answer' = "ok"
  <2>1. CASE mv < Len(batch[ev])
    BY <1>3, <2>1
  <2>2. CASE ~(mv < Len(batch[ev])) /\ ev < Len(batch)
    BY <1>3, <2>2
  <2>3. CASE ~(mv < Len(batch[ev])) /\ ~(ev < Len(batch))
    BY <1>3, <2>3
  <2>4. QED
    BY <2>1, <2>2, <2>3
<1>5. QED
  BY <1>1, <1>2, <1>4

\* The steps of the helper, one case each.
LEMMA HelperKeeps == IInv /\ HelperStep => IInv'
<1> SUFFICES ASSUME IInv, HelperStep PROVE IInv'
  OBVIOUS
<1> USE ConstantsAssumption DEF IInv, TypeOK, KeysRecorded, ChordApart, HandoffSound,
     RequestsCounted, TextLeavesKeysAlone, NoStalePaste, FailedTextWithdrawn,
     NoXclipLeft, Live, OkMeansPasted, HasOwned, Settled, Requested,
     Paste, Pasting, Handoff, TextSteps, Steps, Selections, Roles, Owners, keys, x11, local, target,
     history
<1>1. CASE Accept
  BY <1>1 DEF Accept
<1>2. CASE AcceptEnds
  BY <1>2 DEF AcceptEnds
<1>3. CASE Handshake
  BY <1>3 DEF Handshake
<1>4. CASE ReceiveEnds
  BY <1>4 DEF ReceiveEnds
<1>5. CASE Reply
  <2>1. <<>> \in Seq(Events) /\ {} \subseteq Selections /\ {} \subseteq Owners
    OBVIOUS
  <2>7. TypeOK'
    BY <1>5, <2>1 DEF Reply
  <2>2. KeysRecorded'
    BY <1>5 DEF Reply
  <2>3. ChordApart'
    BY <1>5 DEF Reply
  <2>4. HandoffSound'
    BY <1>5 DEF Reply
  <2>5. RequestsCounted'
    BY <1>5 DEF Reply
  <2>6. QED
    BY <2>7, <2>2, <2>3, <2>4, <2>5
<1>6. CASE Inject
  <2> HIDE DEF KeysRecorded
  <2>1. TypeOK'
    <3>1. TypeOK /\ step' \in Steps /\ answer' \in {"none", "ok", "unsupported", "injection"}
      BY <1>6, InjectAdvances
    <3>2. /\ down' \subseteq Inputs /\ pressed' \subseteq Inputs /\ ev' \in Nat /\ mv' \in Nat
          /\ UNCHANGED <<conn, sent, stop, sel, batch, chord, refusals, refused, x11, local, target,
                         history>>
      BY <1>6, InjectAdvances
    <3> HIDE DEF IInv, KeysRecorded, ChordApart, HandoffSound, RequestsCounted, Steps
    <3>3. QED
      BY <3>1, <3>2
  <2>2. KeysRecorded'
    BY <1>6, InjectAdvances DEF KeysRecorded
  <2>3. ChordApart'
    BY <1>6, InjectAdvances
  <2>4. HandoffSound'
    BY <1>6, InjectAdvances
  <2>5. RequestsCounted'
    BY <1>6, InjectAdvances, SMTT(30)
  <2>6. QED
    BY <2>1, <2>2, <2>3, <2>4, <2>5
<1>7. CASE InjectFails
  <2>1. TypeOK'
    BY <1>7, RefuseIsTyped DEF InjectFails, NewAnswer
  <2>2. KeysRecorded'
    BY <1>7 DEF InjectFails, NewAnswer, Refuse
  <2>3. ChordApart'
    BY <1>7, MoveIsTyped DEF InjectFails, NewAnswer, Refuse
  <2>4. HandoffSound'
    BY <1>7 DEF InjectFails, NewAnswer, Refuse
  <2>5. RequestsCounted'
    BY <1>7 DEF InjectFails, NewAnswer, Refuse
  <2>6. QED
    BY <2>1, <2>2, <2>3, <2>4, <2>5
<1>8. CASE ReleaseAll
  <2>1. TypeOK'
    BY <1>8, LetGoIsTyped DEF ReleaseAll
  <2>2. KeysRecorded'
    BY <1>8 DEF ReleaseAll, LetGo
  <2>3. ChordApart'
    BY <1>8 DEF ReleaseAll, LetGo
  <2>4. HandoffSound'
    BY <1>8 DEF ReleaseAll, LetGo
  <2>5. RequestsCounted'
    BY <1>8 DEF ReleaseAll, LetGo
  <2>6. QED
    BY <2>1, <2>2, <2>3, <2>4, <2>5
<1>9. CASE PressShift
  BY <1>9 DEF PressShift, Chord, Press
<1>10. CASE PressInsert
  BY <1>10 DEF PressInsert, Chord, Press
<1>11. CASE ReleaseInsert
  BY <1>11 DEF ReleaseInsert, Chord, Release
<1>12. CASE ReleaseShift
  BY <1>12 DEF ReleaseShift, Chord, Release
<1>13. CASE ChordFails
  BY <1>13 DEF ChordFails, Refuse
<1>14. CASE UndoChord
  <2>1. TypeOK'
    BY <1>14, LetGoIsTyped DEF UndoChord
  <2>2. KeysRecorded'
    BY <1>14 DEF UndoChord, LetGo
  <2>3. ChordApart'
    BY <1>14 DEF UndoChord, LetGo
  <2>4. HandoffSound'
    BY <1>14 DEF UndoChord, LetGo
  <2>5. RequestsCounted'
    BY <1>14 DEF UndoChord, LetGo
  <2>6. QED
    BY <2>1, <2>2, <2>3, <2>4, <2>5
<1>15. CASE StartOwner
  BY <1>15 DEF StartOwner, SetProc
<1>16. CASE StartFails
  BY <1>16 DEF StartFails, Fails
<1>17. CASE OwnerIsNew
  BY <1>17 DEF OwnerIsNew
<1>18. CASE OwnerIsOld
  BY <1>18 DEF OwnerIsOld, Fails, SetProc
<1>19. CASE Settle
  BY <1>19 DEF Settle
<1>20. CASE SettleFails
  BY <1>20 DEF SettleFails, Fails
<1>21. CASE Retire
  BY <1>21 DEF Retire, StopPair
<1>22. CASE PasteSeen
  BY <1>22 DEF PasteSeen, NewAnswer
<1>23. CASE PasteUnseen
  BY <1>23 DEF PasteUnseen, Fails
<1>24. CASE Drop
  BY <1>24 DEF Drop, StopPair
<1>25. CASE Exit
  BY <1>25 DEF Exit, StopPair
<1>26. QED
  BY <1>1, <1>2, <1>3, <1>4, <1>5, <1>6, <1>7, <1>8, <1>9, <1>10, <1>11, <1>12, <1>13, <1>14, <1>15, <1>16, <1>17, <1>18, <1>19, <1>20, <1>21, <1>22, <1>23, <1>24, <1>25 DEF HelperStep

\* A request is read.
LEMMA ReceiveKeeps == IInv /\ (ReceiveBatch \/ ReceiveText) => IInv'
<1> SUFFICES ASSUME IInv, ReceiveBatch \/ ReceiveText PROVE IInv'
  OBVIOUS
<1> USE ConstantsAssumption DEF IInv, TypeOK, KeysRecorded, ChordApart, HandoffSound,
     RequestsCounted, TextLeavesKeysAlone, NoStalePaste, FailedTextWithdrawn,
     NoXclipLeft, Live, OkMeansPasted, HasOwned, Settled, Requested,
     Paste, Pasting, Handoff, TextSteps, Steps, Selections, Roles, Owners, keys, x11, local, target,
     history
<1>1. CASE ReceiveBatch
  <2>0. pasted' \in BOOLEAN
    BY <1>1 DEF ReceiveBatch
  <2>1. TypeOK'
    <3>1. step' \in Steps /\ answer' \in {"none", "ok", "unsupported", "injection"}
      BY <1>1 DEF ReceiveBatch, NewAnswer
    <3>2. batch' \in Seq(Events) /\ ev' \in Nat /\ mv' \in Nat /\ sent' \in 0..MaxRequests
      BY <1>1 DEF ReceiveBatch
    <3>3. /\ prior' = down
          /\ UNCHANGED <<conn, stop, sel, chord, pressed, keys, x11, local, target, stale, late,
                         staleRead>>
      BY <1>1 DEF ReceiveBatch
    <3>4. QED
      BY <2>0, <3>1, <3>2, <3>3
  <2>2. KeysRecorded'
    BY <1>1 DEF ReceiveBatch, NewAnswer
  <2>3. ChordApart'
    BY <1>1 DEF ReceiveBatch, NewAnswer
  <2>4. HandoffSound'
    BY <1>1 DEF ReceiveBatch, NewAnswer
  <2>5. RequestsCounted'
    BY <1>1 DEF ReceiveBatch, NewAnswer
  <2>6. QED
    BY <2>1, <2>2, <2>3, <2>4, <2>5
<1>2. CASE ReceiveText
  <2>0. <<>> \in Seq(Events)
    OBVIOUS
  <2>1. CASE step' = "start"
    <3>0. pasted' \in BOOLEAN
      BY <1>2 DEF ReceiveText
    <3>7. /\ sent' \in 0..MaxRequests /\ text' \in Nat /\ answer' = "none"
          /\ prior' = down /\ batch' \in Seq(Events) /\ sel' = "CLIPBOARD"
          /\ stale' = Selections
          /\ UNCHANGED <<conn, stop, ev, mv, chord, pressed, keys, served, before, baseline, target,
                         late, staleRead>>
      BY <1>2, <2>0, <2>1 DEF ReceiveText, NewAnswer
    <3>8. /\ owner' \in [Selections -> Owners]
          /\ proc' \in [Selections ->
                         [Roles -> {"none", "starting", "running", "ending", "ended"}]]
      BY <1>2, <2>1 DEF ReceiveText
    <3>1. TypeOK'
      BY <2>1, <3>0, <3>7, <3>8
    <3>2. KeysRecorded'
      BY <1>2, <2>0, <2>1 DEF ReceiveText, NewAnswer
    <3>3. ChordApart'
      BY <1>2, <2>0, <2>1 DEF ReceiveText, NewAnswer
    <3>4. HandoffSound'
      BY <1>2, <2>0, <2>1 DEF ReceiveText, NewAnswer
    <3>5. RequestsCounted'
      BY <1>2, <2>0, <2>1 DEF ReceiveText, NewAnswer
    <3>6. QED
      BY <3>1, <3>2, <3>3, <3>4, <3>5
  <2>2. CASE step' # "start"
    <3>0. PICK a \in {"unsupported", "ok", "injection"} : step' = "reply" /\ answer' = a
      BY <1>2, <2>2 DEF ReceiveText, NewAnswer
    <3>7. /\ sent' \in 0..MaxRequests /\ prior' = down /\ batch' \in Seq(Events)
          /\ pasted' = FALSE /\ sel' = "CLIPBOARD" /\ step' \in Steps
          /\ answer' \in {"none", "ok", "unsupported", "injection"}
          /\ UNCHANGED <<conn, stop, ev, mv, chord, pressed, keys, x11, local, target, late,
                         staleRead, stale>>
      BY <1>2, <2>0, <2>2, <3>0 DEF ReceiveText
    <3>1. TypeOK'
      BY <3>7
    <3>2. KeysRecorded'
      BY <1>2, <2>0, <2>2 DEF ReceiveText, NewAnswer
    <3>3. ChordApart'
      BY <1>2, <2>0, <2>2 DEF ReceiveText, NewAnswer
    <3>4. HandoffSound'
      BY <1>2, <2>0, <2>2 DEF ReceiveText, NewAnswer
    <3>5. RequestsCounted'
      BY <1>2, <2>0, <2>2 DEF ReceiveText, NewAnswer
    <3>6. QED
      BY <3>1, <3>2, <3>3, <3>4, <3>5
  <2>3. QED
    BY <2>1, <2>2
<1>3. QED
  BY <1>1, <1>2

\* The display's other clients, the xclips, the broker and signals.
LEMMA SurroundingsKeep == IInv /\ Surroundings => IInv'
<1> SUFFICES ASSUME IInv, Surroundings PROVE IInv'
  OBVIOUS
<1> USE ConstantsAssumption DEF IInv, TypeOK, KeysRecorded, ChordApart, HandoffSound,
     RequestsCounted, TextLeavesKeysAlone, NoStalePaste, FailedTextWithdrawn,
     NoXclipLeft, Live, OkMeansPasted, HasOwned, Settled, Requested,
     Paste, Pasting, Handoff, TextSteps, Steps, Selections, Roles, Owners, keys, x11, local, target,
     history, helper, Others
<1>1. CASE BrokerConnects
  BY <1>1 DEF BrokerConnects
<1>2. CASE BrokerCloses
  BY <1>2 DEF BrokerCloses
<1>3. CASE Stop
  BY <1>3 DEF Stop
<1>4. CASE Die
  BY <1>4 DEF Die
<1>5. ASSUME NEW s \in Selections, XclipOwns(s) PROVE IInv'
  BY <1>5 DEF XclipOwns, Takes
<1>6. ASSUME NEW s \in Selections, NEW r \in Roles, XclipEnds(s, r) PROVE IInv'
  <2>1. TypeOK'
    BY <1>6 DEF XclipEnds, SetProc
  <2>2. KeysRecorded'
    BY <1>6 DEF XclipEnds, SetProc
  <2>3. ChordApart'
    BY <1>6 DEF XclipEnds, SetProc
  <2>4. HandoffSound'
    BY <1>6 DEF XclipEnds, SetProc
  <2>5. RequestsCounted'
    BY <1>6 DEF XclipEnds, SetProc
  <2>6. QED
    BY <2>1, <2>2, <2>3, <2>4, <2>5
<1>7. ASSUME NEW s \in Selections, NEW a \in HostApps, HostCopies(s, a) PROVE IInv'
  BY <1>7 DEF HostCopies, Takes
<1>8. ASSUME NEW s \in Selections, ManagerNotices(s) PROVE IInv'
  BY <1>8 DEF ManagerNotices
<1>9. ASSUME NEW s \in Selections, ManagerRestores(s) PROVE IInv'
  BY <1>9 DEF ManagerRestores, Takes
<1>10. ASSUME NEW s \in Selections, OtherReads(s) PROVE IInv'
  <2>0. served' \in [Selections -> Nat] /\ late' \in BOOLEAN
    BY <1>10 DEF OtherReads, Count
  <2>1. TypeOK'
    BY <1>10, <2>0 DEF OtherReads
  <2>2. KeysRecorded'
    BY <1>10 DEF OtherReads, Serves, Count
  <2>3. ChordApart'
    BY <1>10 DEF OtherReads, Serves, Count
  <2>4. HandoffSound'
    BY <1>10 DEF OtherReads, Serves, Count
  <2>5. RequestsCounted'
    BY <1>10 DEF OtherReads, Serves, Count
  <2>6. QED
    BY <2>1, <2>2, <2>3, <2>4, <2>5
<1>11. ASSUME NEW s \in Selections, TargetPastes(s) PROVE IInv'
  <2>7. due' \in Nat /\ served' \in [Selections -> Nat]
    BY <1>11 DEF TargetPastes, Count
  <2>8. pasted' \in BOOLEAN
    BY <1>11 DEF TargetPastes
  <2>9. staleRead' \subseteq Owners
    BY <1>11 DEF TargetPastes
  <2>1. TypeOK'
    BY <1>11, <2>7, <2>8, <2>9 DEF TargetPastes
  <2>2. KeysRecorded'
    BY <1>11 DEF TargetPastes, Serves, Count
  <2>3. ChordApart'
    BY <1>11 DEF TargetPastes, Serves, Count
  <2>4. HandoffSound'
    BY <1>11 DEF TargetPastes, Serves, Count
  <2>5. RequestsCounted'
    BY <1>11 DEF TargetPastes, Serves, Count
  <2>6. QED
    BY <2>1, <2>2, <2>3, <2>4, <2>5
<1>12. QED
  BY <1>1, <1>2, <1>3, <1>4, <1>5, <1>6, <1>7, <1>8, <1>9, <1>10, <1>11 DEF Surroundings, Outside

\* A helper without a client and without xclips.
LEMMA InitIInv == Init => IInv
<1> SUFFICES ASSUME Init PROVE IInv
  OBVIOUS
<1> USE ConstantsAssumption DEF Init, Paste, Pasting, Handoff, TextSteps, Steps, Selections, Roles,
     Owners
<1>1. <<>> \in Seq(Events)
  OBVIOUS
<1>2. TypeOK
  <2>1. sent \in 0..MaxRequests /\ refusals \in 0..MaxRefusals /\ batch \in Seq(Events)
    BY <1>1
  <2>2. owner \in [Selections -> Owners] /\ before \in Owners
    OBVIOUS
  <2>3. /\ step \in Steps /\ sel \in Selections /\ chord \subseteq {Shift, Insert}
        /\ pressed \subseteq Inputs /\ down \subseteq Inputs /\ refused \subseteq Inputs
        /\ restoring \subseteq Selections /\ stale \subseteq Selections /\ prior \subseteq Inputs
        /\ staleRead \subseteq Owners
    OBVIOUS
  <2>4. QED
    BY <2>1, <2>2, <2>3 DEF TypeOK
<1>3. KeysRecorded
  BY DEF KeysRecorded
<1>4. ChordApart
  BY DEF ChordApart, TextLeavesKeysAlone
<1>5. HandoffSound
  BY DEF HandoffSound, NoStalePaste, FailedTextWithdrawn, NoXclipLeft, Live, HasOwned, Settled
<1>6. RequestsCounted
  BY DEF RequestsCounted, OkMeansPasted, Requested, Settled
<1>7. QED
  BY <1>2, <1>3, <1>4, <1>5, <1>6 DEF IInv

\* Nothing in the invariant changes when nothing changes.
LEMMA StutterKeeps == IInv /\ UNCHANGED vars => IInv'
  BY DEF IInv, TypeOK, KeysRecorded, ChordApart, HandoffSound, RequestsCounted, TextLeavesKeysAlone,
     NoStalePaste, FailedTextWithdrawn,
     NoXclipLeft, Live, OkMeansPasted, HasOwned, Settled, Requested, vars, helper, keys, x11, local,
     target, history

\* The invariant holds in every state of helper, xclips and surroundings
\* (serve_client, inject_clipboard_text, start_clipboard_owner).
THEOREM InductiveInvariant == Spec => []IInv
<1>1. IInv /\ [Next]_vars => IInv'
  BY HelperKeeps, ReceiveKeeps, SurroundingsKeep, StutterKeeps DEF Next
<1>2. QED
  BY InitIInv, <1>1, PTL DEF Spec

\* Types of the helper's and the display's state.
THEOREM TypeCorrect == Spec => []TypeOK
  BY InductiveInvariant, PTL DEF IInv

\* release_pressed_inputs and the undo of the chord leave nothing down.
THEOREM HeldNeedsAClient == Spec => []HeldNeedsClient
<1>1. IInv => HeldNeedsClient
  BY DEF IInv, KeysRecorded, HeldNeedsClient
<1>2. QED
  BY <1>1, InductiveInvariant, PTL

\* The chord gives back exactly what it took (inject_clipboard_text).
THEOREM TextKeepsKeys == Spec => []TextLeavesKeysAlone
  BY InductiveInvariant, PTL DEF IInv, ChordApart

\* An answer ok stands for a paste, when nobody else reads after the baseline.
THEOREM OkIsPasted == Spec => []OkMeansPasted
  BY InductiveInvariant, PTL DEF IInv, RequestsCounted

\* Old contents are pasted only if a clipboard manager brought them back.
THEOREM PasteIsNew == Spec => []NoStalePaste
  BY InductiveInvariant, PTL DEF IInv, HandoffSound

\* stop_clipboard_owner withdraws a text that failed.
THEOREM FailedTextIsWithdrawn == Spec => []FailedTextWithdrawn
  BY InductiveInvariant, PTL DEF IInv, HandoffSound

\* Both pairs of a handoff are gone when the helper has ended in order.
THEOREM NoXclipIsLeft == Spec => []NoXclipLeft
  BY InductiveInvariant, PTL DEF IInv, HandoffSound

\* The new pair owns the selections before the old one is stopped.
THEOREM HandoffHasNoGap == Spec => NoOwnerGap
<1> DEFINE Kept(s) == owner[s] \in Roles /\ owner'[s] = "none" => stop \/ answer = "injection"
<1>1. IInv /\ [Next]_vars => \A s \in Selections : Kept(s)
  <2> SUFFICES ASSUME IInv, [Next]_vars, NEW s \in Selections PROVE Kept(s)
    OBVIOUS
  <2> USE ConstantsAssumption DEF x11, keys, local, target, history, helper, Others
  <2>1. CASE Retire
    <3>1. answer # "injection" => owner[s] # "kept"
      BY <2>1 DEF Retire, IInv, HandoffSound, Settled
    <3>2. owner'[s] = "none" => owner[s] \in {"kept", "none"}
      BY <2>1 DEF Retire, StopPair
    <3>3. QED
      BY <3>1, <3>2 DEF Roles
  <2>2. CASE Drop \/ Exit
    BY <2>2 DEF Drop, Exit, IInv, HandoffSound
  <2>3. CASE HelperStep /\ ~Retire /\ ~Drop /\ ~Exit
    <3>1. owner' = owner
      BY <2>3 DEF HelperStep, Accept, AcceptEnds, Handshake, ReceiveEnds, Reply, Inject, InjectFails,
           ReleaseAll, PressShift, PressInsert, ReleaseInsert, ReleaseShift, ChordFails, UndoChord,
           Chord, StartOwner, StartFails, OwnerIsNew, OwnerIsOld, Settle, SettleFails, PasteSeen,
           PasteUnseen
    <3>2. QED
      BY <3>1 DEF Roles
  <2>4. CASE ReceiveBatch \/ ReceiveText
    BY <2>4 DEF ReceiveBatch, ReceiveText, Roles
  <2>5. CASE Surroundings
    <3>1. CASE BrokerConnects \/ BrokerCloses \/ Stop \/ Die
      BY <3>1 DEF BrokerConnects, BrokerCloses, Stop, Die, Roles
    <3>2. ASSUME NEW t \in Selections, NEW r \in Roles, XclipEnds(t, r) PROVE Kept(s)
      BY <3>2 DEF XclipEnds, IInv, HandoffSound, TypeOK, Roles
    <3>3. ASSUME NEW t \in Selections,
                 XclipOwns(t) \/ ManagerRestores(t) \/ \E a \in HostApps : HostCopies(t, a)
          PROVE Kept(s)
      <4>1. PICK o : o # "none" /\ owner' = [owner EXCEPT ![t] = o]
        BY <3>3 DEF XclipOwns, ManagerRestores, HostCopies, Takes
      <4>2. owner \in [Selections -> Owners]
        BY DEF IInv, TypeOK
      <4>3. QED
        BY <4>1, <4>2 DEF Roles
    <3>4. ASSUME NEW t \in Selections, ManagerNotices(t) \/ OtherReads(t) \/ TargetPastes(t)
          PROVE Kept(s)
      BY <3>4 DEF ManagerNotices, OtherReads, TargetPastes, Roles
    <3>5. QED
      BY <2>5, <3>1, <3>2, <3>3, <3>4 DEF Surroundings, Outside
  <2>6. CASE UNCHANGED vars
    BY <2>6 DEF vars, Roles
  <2>7. QED
    BY <2>1, <2>2, <2>3, <2>4, <2>5, <2>6 DEF Next
<1>2. QED
  BY <1>1, InductiveInvariant, PTL DEF Spec, NoOwnerGap

-----------------------------------------------------------------------------
(* The helper serves requests as InputService promises.                    *)

\* A step that touches nothing the broker can see.
LEMMA UnseenStep ==
  ASSUME UNCHANGED <<down, step, batch, ev, mv, answer, pasted>>
  PROVE  UNCHANGED Service!vars
  BY DEF Service!vars, Service!request, Kind, Asked, MovesMade, Inserted, Given, Serving, Made

\* Between requests the broker sees keys that are let go, and nothing else.
LEMMA IdleStep ==
  ASSUME ~Serving, ~Serving', down' \subseteq down
  PROVE  Service!ReleaseKeys
<1>1. step # "reply" /\ step' # "reply"
  BY DEF Serving
<1>2. /\ Kind = "none" /\ Kind' = "none" /\ Asked = <<>> /\ Asked' = <<>>
      /\ Inserted = FALSE /\ Inserted' = FALSE /\ Given = "none" /\ Given' = "none"
  BY <1>1 DEF Kind, Asked, Inserted, Given
<1>3. MovesMade = {} /\ MovesMade' = {}
  BY <1>2 DEF MovesMade
<1>4. QED
  BY <1>2, <1>3 DEF Service!ReleaseKeys, Service!request

\* A request is over.
LEMMA EndOfRequest ==
  ASSUME ~Serving', down' = down
  PROVE  Service!Forget
<1>1. step' # "reply"
  BY DEF Serving
<1>2. Kind' = "none" /\ Asked' = <<>> /\ Inserted' = FALSE /\ Given' = "none"
  BY <1>1 DEF Kind, Asked, Inserted, Given
<1>3. MovesMade' = {}
  BY <1>2 DEF MovesMade
<1>4. QED
  BY <1>2, <1>3 DEF Service!Forget

\* A step within a text moves none but the keys of the chord.
LEMMA TextStep ==
  ASSUME step \in TextSteps, step' \in TextSteps, batch = <<>>, batch' = <<>>,
         pasted' = pasted, down' \ {Shift, Insert} = down \ {Shift, Insert}
  PROVE  Service!BorrowKeys
<1>1. Serving /\ Serving' /\ step # "reply" /\ step' # "reply"
  BY DEF Serving, TextSteps, Handoff, Paste, Pasting
<1>2. /\ Kind = "text" /\ Kind' = "text" /\ Asked = <<>> /\ Asked' = <<>>
      /\ Inserted' = Inserted /\ Given = "none" /\ Given' = "none"
  BY <1>1 DEF Kind, Asked, Inserted, Given
<1>3. MovesMade = {} /\ MovesMade' = {}
  BY <1>2 DEF MovesMade
<1>4. QED
  BY <1>2, <1>3 DEF Service!BorrowKeys, Service!Serving, Service!request

\* A new request has had no effect yet.
LEMMA NewRequest ==
  ASSUME IInv, ReceiveBatch \/ ReceiveText
  PROVE  Service!Begin
<1>1. step = "receive" /\ ~Serving /\ Kind = "none"
  BY DEF ReceiveBatch, ReceiveText, Serving, Kind, TextSteps, Handoff, Paste, Pasting
<1>2. down' = down /\ pasted' = FALSE /\ Inserted' = FALSE
  BY DEF ReceiveBatch, ReceiveText, keys, Inserted
<1>3. CASE ReceiveBatch
  <2>1. PICK n \in 1..MaxBatch : batch' \in [1..n -> Events]
    BY <1>3 DEF ReceiveBatch
  <2>2. batch' \in Seq(Events) /\ batch' # <<>> /\ Len(batch') = n /\ n \in Nat
    BY <2>1, ConstantsAssumption
  <2>3. /\ ev' = 1 /\ mv' = 1 /\ Serving'
        /\ \/ step' = "event"
           \/ step' = "reply" /\ answer' = "unsupported"
    BY <1>3 DEF ReceiveBatch, NewAnswer, Serving
  <2>4. Kind' = "keys" /\ Asked' = batch' /\ Given' \in {"none", "unsupported"}
    BY <2>2, <2>3 DEF Kind, Asked, Given
  <2>5. \A e \in DOMAIN Asked' : \A m \in DOMAIN Asked'[e] : ~Made(e, m)'
    <3>1. SUFFICES ASSUME NEW e \in DOMAIN batch', NEW m \in DOMAIN batch'[e]
                   PROVE  ~Made(e, m)'
      BY <2>4
    <3>2. batch'[e] \in Seq(Moves)
      BY <2>2, ConstantsAssumption
    <3>3. e \in Nat /\ e >= 1 /\ m \in Nat /\ m >= 1
      BY <2>2, <3>2
    <3>4. QED
      BY <2>3, <3>3 DEF Made
  <2>6. MovesMade' = {}
    BY <2>5 DEF MovesMade
  <2>7. QED
    BY <1>1, <1>2, <2>2, <2>4, <2>6 DEF Service!Begin
<1>4. CASE ReceiveText
  <2>1. /\ batch' = <<>> /\ Serving'
        /\ \/ step' = "start"
           \/ step' = "reply" /\ answer' \in {"ok", "unsupported", "injection"}
    BY <1>4 DEF ReceiveText, NewAnswer, Serving, TextSteps, Handoff
  <2>2. Kind' = "text" /\ Asked' = <<>>
        /\ Given' \in {"none", "ok", "unsupported", "injection"}
    BY <2>1 DEF Kind, Asked, Given
  <2>3. MovesMade' = {}
    BY <2>2 DEF MovesMade
  <2>4. QED
    BY <1>1, <1>2, <2>2, <2>3 DEF Service!Begin
<1>5. QED
  BY <1>3, <1>4

\* inject_inputs makes the moves of a batch in their order, and answers with
\* the last one.
LEMMA NextMove ==
  ASSUME IInv, Inject
  PROVE  Service!MakeMove
<1> USE DEF Inject, NewAnswer
<1>0. TypeOK /\ KeysRecorded /\ step = "event"
  BY DEF IInv
<1>1. /\ batch \in Seq(Events) /\ batch # <<>> /\ Len(batch) \in Nat
      /\ ev \in 1..Len(batch) /\ ev \in Nat
      /\ mv \in 1..Len(batch[ev]) /\ mv \in Nat /\ Len(batch[ev]) \in Nat
  BY <1>0, MoveIsTyped DEF TypeOK, KeysRecorded
<1>2. \A e \in DOMAIN batch : /\ e \in 1..Len(batch)
                              /\ batch[e] \in Seq(Moves) /\ Len(batch[e]) \in Nat \ {0}
                              /\ DOMAIN batch[e] = 1..Len(batch[e])
  <2>1. SUFFICES ASSUME NEW e \in DOMAIN batch
                 PROVE  /\ e \in 1..Len(batch) /\ batch[e] \in Seq(Moves)
                        /\ Len(batch[e]) \in Nat \ {0} /\ DOMAIN batch[e] = 1..Len(batch[e])
    OBVIOUS
  <2>2. e \in 1..Len(batch) /\ batch[e] \in Seq(Moves) /\ batch[e] # <<>>
    BY <1>1, ConstantsAssumption
  <2>3. QED
    BY <2>2
<1>3. batch' = batch /\ Serving /\ Serving' /\ pasted' = pasted
  BY DEF Serving, history
<1>4. /\ Kind = "keys" /\ Kind' = "keys" /\ Asked = batch /\ Asked' = batch
      /\ Inserted' = Inserted /\ Given = "none"
  BY <1>1, <1>3, <1>0 DEF Kind, Asked, Inserted, Given
<1> DEFINE here == <<ev, mv>>
           Last == mv = Len(batch[ev]) /\ ev = Len(batch)
<1>5. Given' = IF Last THEN "ok" ELSE "none"
  <2>1. CASE Last
    BY <1>0, <1>1, <2>1 DEF Given
  <2>2. CASE ~Last
    BY <1>0, <1>1, <2>2 DEF Given
  <2>3. QED
    BY <2>1, <2>2
<1>6. \A e \in DOMAIN batch : \A m \in DOMAIN batch[e] :
        /\ Made(e, m) <=> e < ev \/ (e = ev /\ m < mv)
        /\ Made(e, m)' <=> Made(e, m) \/ (e = ev /\ m = mv)
  <2>1. SUFFICES ASSUME NEW e \in DOMAIN batch, NEW m \in DOMAIN batch[e]
                 PROVE  /\ Made(e, m) <=> e < ev \/ (e = ev /\ m < mv)
                        /\ Made(e, m)' <=> Made(e, m) \/ (e = ev /\ m = mv)
    OBVIOUS
  <2>2. /\ e \in Nat /\ m \in Nat /\ 1 <= m /\ m <= Len(batch[e]) /\ 1 <= e /\ e <= Len(batch)
    BY <1>1, <1>2
  <2>3. Made(e, m) <=> e < ev \/ (e = ev /\ m < mv)
    BY <1>0 DEF Made
  <2>4. CASE mv < Len(batch[ev])
    <3>1. mv' = mv + 1 /\ ev' = ev /\ step' = "event"
      BY <2>4, <1>0
    <3>2. Made(e, m)' <=> e < ev \/ (e = ev /\ m < mv + 1)
      BY <3>1 DEF Made
    <3>3. QED
      BY <2>2, <2>3, <3>2, <1>1
  <2>5. CASE ~(mv < Len(batch[ev])) /\ ev < Len(batch)
    <3>1. mv' = 1 /\ ev' = ev + 1 /\ step' = "event"
      BY <2>5, <1>0
    <3>2. Made(e, m)' <=> e < ev + 1 \/ (e = ev + 1 /\ m < 1)
      BY <3>1 DEF Made
    <3>3. mv = Len(batch[ev])
      BY <2>5, <1>1
    <3>4. QED
      BY <2>2, <2>3, <3>2, <3>3, <1>1
  <2>6. CASE ~(mv < Len(batch[ev])) /\ ~(ev < Len(batch))
    <3>1. step' = "reply" /\ answer' = "ok"
      BY <2>6
    <3>2. Made(e, m)'
      BY <3>1 DEF Made
    <3>3. mv = Len(batch[ev]) /\ ev = Len(batch)
      BY <2>6, <1>1
    <3>4. QED
      BY <2>2, <2>3, <3>2, <3>3, <1>1
  <2>7. QED
    BY <2>3, <2>4, <2>5, <2>6
<1>7. /\ \A e, m : <<e, m>> \in MovesMade <=> e \in DOMAIN batch /\ m \in DOMAIN batch[e] /\ Made(e, m)
      /\ \A e, m : <<e, m>> \in MovesMade'
                    <=> e \in DOMAIN batch /\ m \in DOMAIN batch[e] /\ Made(e, m)'
      /\ \A p \in MovesMade : p = <<p[1], p[2]>>
      /\ \A p \in MovesMade' : p = <<p[1], p[2]>>
  BY <1>4 DEF MovesMade
<1>8. /\ here \in Service!Places /\ here \notin MovesMade
      /\ \A q \in Service!Places : Service!Earlier(q, here) => q \in MovesMade
  <2>1. \A e, m : <<e, m>> \in Service!Places <=> e \in DOMAIN batch /\ m \in DOMAIN batch[e]
    BY <1>4 DEF Service!Places
  <2>2. ev \in DOMAIN batch /\ mv \in DOMAIN batch[ev]
    BY <1>1, <1>2
  <2>3. here \notin MovesMade
    BY <1>1, <1>6, <1>7, <2>2
  <2>4. ASSUME NEW q \in Service!Places, Service!Earlier(q, here) PROVE q \in MovesMade
    <3>1. PICK e \in DOMAIN batch : \E m \in DOMAIN batch[e] : q = <<e, m>>
      BY <2>4, <1>4 DEF Service!Places
    <3>2. PICK m \in DOMAIN batch[e] : q = <<e, m>>
      BY <3>1
    <3>3. e < ev \/ (e = ev /\ m < mv)
      BY <2>4, <3>2 DEF Service!Earlier
    <3>4. QED
      BY <1>6, <1>7, <3>2, <3>3
  <2>5. QED
    BY <2>1, <2>2, <2>3, <2>4
<1>9. MovesMade' = MovesMade \cup {here}
  <2>1. ev \in DOMAIN batch /\ mv \in DOMAIN batch[ev]
    BY <1>1, <1>2
  <2>2. ASSUME NEW e \in DOMAIN batch, NEW m \in DOMAIN batch[e]
        PROVE  <<e, m>> \in MovesMade' <=> <<e, m>> \in MovesMade \cup {here}
    BY <1>6, <1>7
  <2>3. ASSUME NEW p \in MovesMade' PROVE p \in MovesMade \cup {here}
    BY <1>7, <2>2
  <2>4. ASSUME NEW p \in MovesMade \cup {here} PROVE p \in MovesMade'
    BY <1>7, <2>1, <2>2
  <2>5. QED
    BY <2>3, <2>4
<1>10. Service!Places \subseteq MovesMade' <=> Last
  <2>1. CASE Last
    <3>1. ASSUME NEW q \in Service!Places PROVE q \in MovesMade'
      <4>1. PICK e \in DOMAIN batch : \E m \in DOMAIN batch[e] : q = <<e, m>>
        BY <1>4 DEF Service!Places
      <4>2. PICK m \in DOMAIN batch[e] : q = <<e, m>>
        BY <4>1
      <4>3. step' = "reply" /\ answer' = "ok"
        BY <1>0, <1>1, <2>1
      <4>4. Made(e, m)'
        BY <4>3 DEF Made
      <4>5. QED
        BY <1>7, <4>2, <4>4
    <3>2. QED
      BY <2>1, <3>1
  <2>2. CASE ~Last
    <3> DEFINE e == IF mv < Len(batch[ev]) THEN ev ELSE ev + 1
               m == IF mv < Len(batch[ev]) THEN mv + 1 ELSE 1
    <3>1. e \in DOMAIN batch /\ m \in DOMAIN batch[e]
      <4>1. CASE mv < Len(batch[ev])
        BY <1>1, <1>2, <4>1
      <4>2. CASE ~(mv < Len(batch[ev]))
        <5>1. ev + 1 \in DOMAIN batch
          BY <1>1, <2>2, <4>2
        <5>2. QED
          BY <1>2, <4>2, <5>1
      <4>3. QED
        BY <4>1, <4>2
    <3>2. ~(e < ev \/ (e = ev /\ m < mv)) /\ ~(e = ev /\ m = mv)
      BY <1>1
    <3> HIDE DEF e, m
    <3>3. <<e, m>> \notin MovesMade'
      BY <1>6, <1>7, <3>1, <3>2
    <3>4. <<e, m>> \in Service!Places
      BY <1>4, <3>1 DEF Service!Places
    <3>5. QED
      BY <2>2, <3>3, <3>4
  <2>3. QED
    BY <2>1, <2>2
<1>11. down' = IF batch[ev][mv].down THEN down \cup {batch[ev][mv].input}
                                     ELSE down \ {batch[ev][mv].input}
  BY DEF Apply
<1>12. QED
  <2> HIDE DEF Inject, NewAnswer, Last
  <2>1. Given' = IF Service!Places \subseteq MovesMade' THEN "ok" ELSE "none"
    BY <1>5, <1>10
  <2>2. here[1] = ev /\ here[2] = mv
    OBVIOUS
  <2>3. QED
    BY <1>4, <1>8, <1>9, <1>11, <2>1, <2>2 DEF Service!MakeMove, Service!Serving

\* A batch that XTEST refused, and the end of a text.
LEMMA AnswerGiven ==
  ASSUME IInv, InjectFails \/ PasteSeen \/ Drop
  PROVE  Service!Answer
<1> USE DEF keys, x11, local, target, history
<1>1. /\ step \in {"event", "await", "drop"} /\ step' = "reply" /\ batch' = batch
      /\ ev' = ev /\ mv' = mv /\ down' = down /\ pasted' = pasted
  BY DEF InjectFails, PasteSeen, Drop, NewAnswer, Refuse
<1>2. /\ Serving /\ Serving' /\ Kind' = Kind /\ Kind # "none" /\ Asked' = Asked
      /\ Inserted' = Inserted /\ Given = "none" /\ Given' = answer'
  BY <1>1 DEF Serving, Kind, Asked, Inserted, Given, TextSteps, Paste, Pasting
<1>3. \/ answer' = "injection"
      \/ answer' = "ok" /\ Kind = "text"
  <2>1. CASE InjectFails
    BY <2>1 DEF InjectFails, NewAnswer
  <2>2. CASE PasteSeen
    <3>1. step = "await" /\ batch = <<>>
      BY <2>2 DEF PasteSeen, IInv, ChordApart, TextSteps, Paste, Pasting
    <3>2. QED
      BY <1>2, <2>2, <3>1 DEF PasteSeen, NewAnswer, Kind
  <2>3. CASE Drop
    BY <2>3 DEF Drop, IInv, HandoffSound
  <2>4. QED
    BY <2>1, <2>2, <2>3
<1>4. MovesMade' = MovesMade
  <2>1. CASE batch = <<>>
    BY <1>1, <1>2, <2>1 DEF MovesMade, Asked
  <2>2. CASE batch # <<>>
    <3>1. step = "event" /\ answer' # "ok"
      BY <1>1, <1>3, <2>2 DEF IInv, ChordApart, TextSteps, Paste, Pasting, Kind
    <3>2. \A e, n : Made(e, n)' <=> Made(e, n)
      BY <1>1, <3>1 DEF Made
    <3>3. QED
      BY <1>2, <3>2 DEF MovesMade
  <2>3. QED
    BY <2>1, <2>2
<1>5. QED
  BY <1>1, <1>2, <1>3, <1>4 DEF Service!Answer

\* The target inserts a text as long as its request may still succeed.
LEMMA InsertOrUnseen ==
  ASSUME IInv, NEW s \in Selections, TargetPastes(s)
  PROVE  Service!InsertText \/ UNCHANGED Service!vars
<1>1. UNCHANGED <<down, step, batch, ev, mv, answer>>
  BY DEF TargetPastes, Others, helper, keys
<1>2. CASE pasted' = pasted
  BY <1>1, <1>2, UnseenStep
<1>3. CASE pasted' # pasted
  <2>1. Serves(s, "fresh") /\ text = sent /\ pasted' = TRUE /\ pasted = FALSE
    BY <1>3 DEF TargetPastes, IInv, TypeOK
  <2>2. UNCHANGED <<down, Kind, Asked, MovesMade, Given>>
    BY <1>1 DEF Kind, Asked, MovesMade, Given, Serving, Made
  <2>3. CASE Kind # "text"
    <3>1. Inserted' = Inserted
      BY <2>2, <2>3 DEF Inserted
    <3>2. QED
      BY <2>2, <3>1 DEF Service!vars, Service!request
  <2>4. CASE Kind = "text"
    <3>1. batch = <<>> /\ Inserted' = TRUE
      BY <2>1, <2>2, <2>4 DEF Kind, Inserted
    <3>2. ~(step = "reply" /\ answer = "injection")
      BY <2>1, <3>1 DEF IInv, HandoffSound, FailedTextWithdrawn, Live, Serves
    <3>3. ~(step = "reply" /\ answer = "unsupported")
      BY <2>1 DEF IInv, RequestsCounted
    <3>4. Given \in {"none", "ok"}
      BY <3>2, <3>3 DEF Given, IInv, TypeOK
    <3>5. QED
      BY <2>2, <2>4, <3>1, <3>4 DEF Service!InsertText
  <2>5. QED
    BY <2>3, <2>4
<1>4. QED
  BY <1>2, <1>3

\* Every step is a step of the service or unseen by the broker.
LEMMA StepServes == IInv /\ [Next]_vars => [Service!Next]_(Service!vars)
<1> SUFFICES ASSUME IInv, [Next]_vars PROVE [Service!Next]_(Service!vars)
  OBVIOUS
<1> USE DEF Service!Next
<1>1. CASE Accept \/ AcceptEnds \/ Handshake \/ ReceiveEnds \/ Exit \/ ReleaseAll
  <2>1. ~Serving /\ ~Serving'
    BY <1>1 DEF Accept, AcceptEnds, Handshake, ReceiveEnds, Exit, ReleaseAll, Serving, TextSteps,
         Handoff, Paste, Pasting
  <2>2. down' \subseteq down
    BY <1>1 DEF Accept, AcceptEnds, Handshake, ReceiveEnds, Exit, ReleaseAll, LetGo, keys
  <2>3. QED
    BY <2>1, <2>2, IdleStep
<1>2. CASE Reply \/ Die
  <2>1. ~Serving' /\ down' = down
    BY <1>2 DEF Reply, Die, Serving, TextSteps, Handoff, Paste, Pasting, keys
  <2>2. QED
    BY <2>1, EndOfRequest
<1>3. CASE ReceiveBatch \/ ReceiveText
  BY <1>3, NewRequest
<1>4. CASE Inject
  BY <1>4, NextMove
<1>5. CASE InjectFails \/ PasteSeen \/ Drop
  BY <1>5, AnswerGiven
<1>6. CASE \/ PressShift \/ PressInsert \/ ReleaseInsert \/ ReleaseShift \/ ChordFails \/ UndoChord
           \/ StartOwner \/ StartFails \/ OwnerIsNew \/ OwnerIsOld \/ Settle \/ SettleFails \/ Retire
           \/ PasteUnseen
  <2>1. step \in TextSteps /\ step' \in TextSteps
    BY <1>6 DEF PressShift, PressInsert, ReleaseInsert, ReleaseShift, ChordFails, UndoChord, Chord,
         StartOwner, StartFails, OwnerIsNew, OwnerIsOld, Settle, SettleFails, Retire, PasteUnseen,
         Fails, TextSteps, Handoff, Paste, Pasting
  <2>2. batch = <<>> /\ batch' = batch /\ pasted' = pasted
    <3>1. batch = <<>>
      BY <2>1 DEF IInv, ChordApart
    <3>2. QED
      BY <1>6, <3>1 DEF PressShift, PressInsert, ReleaseInsert, ReleaseShift, ChordFails, UndoChord,
           Chord, StartOwner, StartFails, OwnerIsNew, OwnerIsOld, Settle, SettleFails, Retire,
           PasteUnseen, history
  <2>3. down' \ {Shift, Insert} = down \ {Shift, Insert}
    <3>1. CASE UndoChord
      BY <3>1 DEF UndoChord, LetGo, IInv, TypeOK
    <3>2. CASE ~UndoChord
      BY <1>6, <3>2 DEF PressShift, PressInsert, ReleaseInsert, ReleaseShift, ChordFails, Chord,
           Press, Release, Refuse, StartOwner, StartFails, OwnerIsNew, OwnerIsOld, Settle,
           SettleFails, Retire, PasteUnseen, keys
    <3>3. QED
      BY <3>1, <3>2
  <2>4. QED
    BY <2>1, <2>2, <2>3, TextStep
<1>7. CASE Surroundings /\ ~Die
  <2>1. CASE \E s \in Selections : TargetPastes(s)
    BY <2>1, InsertOrUnseen
  <2>2. CASE ~\E s \in Selections : TargetPastes(s)
    <3>1. UNCHANGED <<down, step, batch, ev, mv, answer, pasted>>
      BY <1>7, <2>2 DEF Surroundings, Outside, BrokerConnects, BrokerCloses, Stop, XclipOwns,
           XclipEnds, HostCopies, ManagerNotices, ManagerRestores, OtherReads, Others, helper, keys,
           history
    <3>2. QED
      BY <3>1, UnseenStep
  <2>3. QED
    BY <2>1, <2>2
<1>8. CASE UNCHANGED vars
  BY <1>8, UnseenStep DEF vars, helper, keys, history
<1>9. QED
  BY <1>1, <1>2, <1>3, <1>4, <1>5, <1>6, <1>7, <1>8 DEF Next, HelperStep, Surroundings

\* The helper, with every refused call, lost connection and signal, serves
\* requests as the broker assumes (serve_client).
THEOREM KeepsPromise == Spec => ServesAsPromised
<1>1. Init => Service!Init
  <2> SUFFICES ASSUME Init PROVE Service!Init
    OBVIOUS
  <2>1. step = "accept" /\ down = {} /\ ~Serving
    BY DEF Init, Serving, TextSteps, Handoff, Paste, Pasting
  <2>2. Kind = "none" /\ Asked = <<>> /\ Given = "none"
    BY <2>1 DEF Kind, Asked, Given
  <2>3. Inserted = FALSE
    BY <2>2 DEF Inserted
  <2>4. MovesMade = {}
    BY <2>2 DEF MovesMade
  <2>5. QED
    BY <2>1, <2>2, <2>3, <2>4 DEF Service!Init
<1>2. QED
  BY <1>1, StepServes, InductiveInvariant, PTL DEF Spec, ServesAsPromised, Service!Spec
=============================================================================
