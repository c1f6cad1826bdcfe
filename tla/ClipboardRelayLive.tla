------------------------- MODULE ClipboardRelayLive -------------------------
(***************************************************************************)
(* ClipboardRelay with a bound on what goes wrong for no lasting reason: a  *)
(* deadline that passes although the peer is at work, a clipboard that      *)
(* cannot be read, an xclip that fails or is overtaken while the helper     *)
(* watches it.  When such faults end, texts arrive.                         *)
(***************************************************************************)
EXTENDS ClipboardRelay

CONSTANT MaxFaults  \* bound: faults

ASSUME FaultsAssumption == MaxFaults \in Nat

VARIABLE faults     \* faults so far

\* The companion waits for the helper on connection c.
Waiting(c) == csock = c /\ cstep \in {"hello", "await"}

Fault ==
  \/ ReadClipboard /\ seq = cseq /\ cseq \in byViewer /\ cstep' = "poll"
  \/ ConnectFails /\ Len(backlog) < 2 /\ \E c \in Conns : open[c] = {}
  \/ CompanionGivesUp /\ "server" \in open[csock]
  \/ HangUp /\ Waiting(sconn)
  \/ StartOwnerFails
  \/ OwnerUnchanged /\ \E s \in Selections : sstep = <<"watch", s>> /\ proc[s]["fresh"] # "none"
  \/ (HostCopies \/ XclipExits) /\ \E s \in Selections : proc[s]["fresh"] # "none"

Counted(A) ==
  /\ A
  /\ \/ ~Fault /\ UNCHANGED faults
     \/ Fault /\ faults < MaxFaults /\ faults' = faults + 1

LiveInit == Init /\ faults = 0

\* Both loops go on by themselves, and so does an xclip that was started.
LiveSpec ==
  /\ LiveInit
  /\ [][Counted(Next)]_<<vars, faults>>
  /\ WF_<<vars, faults>>(Counted(CompanionStep))
  /\ WF_<<vars, faults>>(Counted(HelperStep))
  /\ WF_<<vars, faults>>(Counted(XclipOwns))

\* A text GameViewer copied arrives unless another copy or a restart of the
\* service comes first: a failed handoff, a lost answer or a connection the
\* helper closed while it was idle only make the companion send it again
\* (forward_current_clipboard, wmain).
ViewerTextArrives ==
  \A n \in 1..MaxCopies :
    (seq = n /\ n \in byViewer /\ base < n) ~> (delivered = n \/ seq # n \/ base >= n)
=============================================================================
