------------------------ MODULE TerminalBridgeProofs ------------------------
(***************************************************************************)
(* Proofs about TerminalBridge, for any number of sessions and any set of  *)
(* process IDs.  IInv says who is a child of the parent at each of its     *)
(* steps (OnlyChildren), what a handler knows of its shell (ShellKnown),   *)
(* and why a lost SIGCHLD does no lasting harm (FlagMeansZombie and        *)
(* RoomAfterReap): a reap never starts without a child to wait for, so     *)
(* there is a free slot by the time the flag is cleared.                   *)
(***************************************************************************)
EXTENDS TerminalBridge, FiniteSetTheorems, TLAPS

Serving == {"start", "top", "reap", "clear", "poll", "record", "kill"}

\* A slot whose handler the parent has not waited for at its end.
Held(s) == step # "wait" \/ index <= s

OnlyChildren ==
  step \notin Gone =>
    \A p \in Pids :
      proc[p] # "free" <=> handler = p \/ \E s \in Slots : Held(s) /\ handlers[s] = p

SlotsDiffer ==
  \A s \in Slots, r \in Slots :
    handlers[s] = handlers[r] /\ handlers[s] # NoPid => s = r

ForkedOnce ==
  step \notin Gone =>
    IF step = "record"
      THEN /\ handler \in Pids /\ handlers[index] = NoPid
           /\ \A s \in Slots : handlers[s] # handler
      ELSE handler = NoPid

ShellKnown ==
  \A p \in Pids :
    /\ proc[p] \in {"free", "zombie", "greet"} => shell[p] = "none"
    /\ proc[p] \in {"loop", "poll", "relay", "hup", "term", "kill"} =>
         shell_pid[p] /\ shell[p] # "none"
    /\ proc[p] = "close" => (shell_pid[p] <=> shell[p] # "none")

FlagMeansZombie ==
  /\ step \in {"start", "top", "poll", "record"} =>
       (children_changed => \E p \in Pids : proc[p] = "zombie")
  /\ step = "start" => \A s \in Slots : handlers[s] = NoPid

SomeSlotFree == \E s \in Slots : handlers[s] = NoPid

RoomAfterReap ==
  /\ step = "reap" =>
       SomeSlotFree \/ \E p \in Pids : Recorded(p) /\ proc[p] = "zombie"
  /\ step = "clear" => SomeSlotFree
  /\ step = "record" => children_changed \/ proc[handler] \in Running

AllEnded == step = "exited" => \A p \in Pids : proc[p] = "free"

IInv ==
  /\ TypeOK /\ OnlyChildren /\ SlotsDiffer /\ ForkedOnce /\ ShellKnown
  /\ FlagMeansZombie /\ RoomAfterReap /\ NotWedged /\ AllEnded

-----------------------------------------------------------------------------
(* Type correctness *)

LEMMA TypeInit == Init => TypeOK
<1>1. 1 \in Slots
  BY BridgeAssumption DEF BridgeAssumption, Slots
<1>2. /\ "start" \in Steps
      /\ "free" \in Running \cup {"free", "zombie"}
  BY DEF Steps, Running
<1> QED
  BY <1>1, <1>2 DEF Init, TypeOK

LEMMA ParentTypes == TypeOK /\ Parent => TypeOK'
<1> SUFFICES ASSUME TypeOK, Parent PROVE TypeOK'
  OBVIOUS
<1> USE BridgeAssumption DEF BridgeAssumption, TypeOK, Steps, Running, session
<1>1. CASE Start
  BY <1>1 DEF Start
<1>2. CASE Top
  BY <1>2 DEF Top, Slots
<1>3. ASSUME NEW p \in Pids, Reap(p) PROVE TypeOK'
  BY <1>3 DEF Reap, Collect
<1>4. CASE ReapEnds
  BY <1>4 DEF ReapEnds
<1>5. CASE Clear
  BY <1>5 DEF Clear
<1>6. CASE PollAgain \/ ListenerFails
  BY <1>6 DEF PollAgain, ListenerFails
<1>7. ASSUME NEW p \in Pids, Fork(p) PROVE TypeOK'
  BY <1>7 DEF Fork
<1>8. CASE Record
  BY <1>8 DEF Record, Slots
<1>9. CASE KillNext
  BY <1>9 DEF KillNext, Advance, Slots
<1>10. CASE WaitNext
  BY <1>10 DEF WaitNext, Advance, Collect, Slots
<1> QED
  BY <1>1, <1>2, <1>3, <1>4, <1>5, <1>6, <1>7, <1>8, <1>9, <1>10 DEF Parent

LEMMA HandlerTypes ==
  ASSUME TypeOK, NEW p \in Pids, Handler(p) \/ RelayEnds(p) \/ ShellEnds(p)
  PROVE  TypeOK'
<1> USE DEF TypeOK, Running, session, parent
<1>1. CASE HandshakeFails(p) \/ CloseEnds(p) \/ StopShellEnds(p)
  BY <1>1 DEF HandshakeFails, CloseEnds, StopShellEnds, Ends
<1>2. CASE HandshakeOk(p)
  BY <1>2 DEF HandshakeOk
<1>3. CASE LoopStops(p) \/ ShellReaped(p) \/ Polls(p)
  BY <1>3 DEF LoopStops, ShellReaped, Polls, Goes
<1>4. CASE PollEnds(p) \/ Relays(p) \/ RelayEnds(p)
  BY <1>4 DEF PollEnds, Relays, RelayEnds, Goes
<1>5. CASE Insists(p)
  BY <1>5 DEF Insists, Harder, Goes
<1>6. CASE ShellEnds(p)
  BY <1>6 DEF ShellEnds
<1> QED
  BY <1>1, <1>2, <1>3, <1>4, <1>5, <1>6 DEF Handler

LEMMA WorldTypes ==
  ASSUME TypeOK,
         (\E all \in BOOLEAN : Terminate(all)) \/ SupervisorKills \/ UNCHANGED vars
  PROVE  TypeOK'
<1> USE DEF TypeOK, Steps, session, parent
<1>1. ASSUME NEW all \in BOOLEAN, Terminate(all) PROVE TypeOK'
  BY <1>1 DEF Terminate
<1>2. CASE SupervisorKills
  BY <1>2 DEF SupervisorKills
<1>3. CASE UNCHANGED vars
  BY <1>3 DEF vars
<1> QED
  BY <1>1, <1>2, <1>3

\* Type correctness: the program counters, flags and slots keep their types.
THEOREM TypeCorrect == Spec => []TypeOK
<1>1. TypeOK /\ [Next]_vars => TypeOK'
  BY ParentTypes, HandlerTypes, WorldTypes DEF Next
<1> QED
  BY <1>1, TypeInit, PTL DEF Spec

-----------------------------------------------------------------------------
(* Who is a child, and who is recorded *)

Children == TypeOK /\ OnlyChildren /\ SlotsDiffer /\ ForkedOnce

LEMMA ParentChildren == Children /\ Parent => Children'
<1> SUFFICES ASSUME Children, Parent PROVE Children'
  OBVIOUS
<1>0. TypeOK'
  BY ParentTypes DEF Children
<1> USE <1>0, BridgeAssumption
    DEF BridgeAssumption, Children, TypeOK, Gone, Held, Slots, session,
        OnlyChildren, SlotsDiffer, ForkedOnce
<1>1. CASE Start
  BY <1>1 DEF Start
<1>2. CASE Top
  BY <1>2 DEF Top
<1>3. ASSUME NEW p \in Pids, Reap(p) PROVE Children'
  BY <1>3 DEF Reap, Collect
<1>4. CASE ReapEnds
  BY <1>4 DEF ReapEnds
<1>5. CASE Clear
  BY <1>5 DEF Clear
<1>6. CASE PollAgain \/ ListenerFails
  BY <1>6 DEF PollAgain, ListenerFails
<1>7. ASSUME NEW p \in Pids, Fork(p) PROVE Children'
  BY <1>7 DEF Fork, AvailableSlot
<1>8. CASE Record
  BY <1>8 DEF Record
<1>9. CASE KillNext
  BY <1>9 DEF KillNext, Advance
<1>10. CASE WaitNext
  BY <1>10 DEF WaitNext, Advance, Collect
<1> QED
  BY <1>1, <1>2, <1>3, <1>4, <1>5, <1>6, <1>7, <1>8, <1>9, <1>10 DEF Parent

\* A handler's step leaves the parent alone and frees no process ID while
\* there is a parent.
LEMMA HandlerFrame ==
  ASSUME TypeOK, NEW p \in Pids, Handler(p) \/ RelayEnds(p) \/ ShellEnds(p)
  PROVE  /\ UNCHANGED parent
         /\ step # "killed" =>
              \A q \in Pids : proc'[q] = "free" <=> proc[q] = "free"
<1> USE DEF TypeOK, Running, session, parent
<1>1. CASE HandshakeFails(p) \/ CloseEnds(p) \/ StopShellEnds(p)
  BY <1>1 DEF HandshakeFails, CloseEnds, StopShellEnds, Ends
<1>2. CASE HandshakeOk(p)
  BY <1>2 DEF HandshakeOk
<1>3. CASE LoopStops(p) \/ ShellReaped(p) \/ Polls(p)
  BY <1>3 DEF LoopStops, ShellReaped, Polls, Goes
<1>4. CASE PollEnds(p) \/ Relays(p) \/ RelayEnds(p)
  BY <1>4 DEF PollEnds, Relays, RelayEnds, Goes
<1>5. CASE Insists(p)
  BY <1>5 DEF Insists, Harder, Goes
<1>6. CASE ShellEnds(p)
  BY <1>6 DEF ShellEnds
<1> QED
  BY <1>1, <1>2, <1>3, <1>4, <1>5, <1>6 DEF Handler

LEMMA OtherChildren ==
  ASSUME Children, [Next]_vars, ~Parent
  PROVE  Children'
<1>1. ASSUME NEW p \in Pids, Handler(p) \/ RelayEnds(p) \/ ShellEnds(p)
      PROVE  Children'
  <2>1. TypeOK'
    BY <1>1, HandlerTypes DEF Children
  <2>2. /\ UNCHANGED parent
        /\ step # "killed" =>
             \A q \in Pids : proc'[q] = "free" <=> proc[q] = "free"
    BY <1>1, HandlerFrame DEF Children
  <2>3. OnlyChildren'
    BY <2>2 DEF Children, OnlyChildren, Gone, Held, parent
  <2> QED
    BY <2>1, <2>2, <2>3 DEF Children, SlotsDiffer, ForkedOnce, Gone, parent
<1>2. ASSUME NEW all \in BOOLEAN, Terminate(all) PROVE Children'
  <2>1. TypeOK'
    BY <1>2, WorldTypes DEF Children
  <2> QED
    BY <1>2, <2>1 DEF Terminate, Children, OnlyChildren, SlotsDiffer,
                      ForkedOnce, Gone, Held, parent
<1>3. CASE SupervisorKills
  <2>1. TypeOK'
    BY <1>3, WorldTypes DEF Children
  <2> QED
    BY <1>3, <2>1 DEF SupervisorKills, Children, OnlyChildren, SlotsDiffer,
                      ForkedOnce, Gone
<1>4. CASE UNCHANGED vars
  <2>1. TypeOK'
    BY <1>4, WorldTypes DEF Children
  <2> QED
    BY <1>4, <2>1 DEF vars, Children, OnlyChildren, SlotsDiffer, ForkedOnce,
                      Gone, Held, parent
<1> QED
  BY <1>1, <1>2, <1>3, <1>4 DEF Next

-----------------------------------------------------------------------------
(* What a handler knows of its shell *)

LEMMA ParentShells == TypeOK /\ ShellKnown /\ Parent => ShellKnown'
<1> SUFFICES ASSUME TypeOK, ShellKnown, Parent PROVE ShellKnown'
  OBVIOUS
<1> USE DEF TypeOK, ShellKnown, session
<1>1. CASE Start \/ Top \/ ReapEnds \/ Clear \/ PollAgain \/ ListenerFails
  BY <1>1 DEF Start, Top, ReapEnds, Clear, PollAgain, ListenerFails
<1>2. ASSUME NEW p \in Pids, Reap(p) PROVE ShellKnown'
  BY <1>2 DEF Reap, Collect
<1>3. ASSUME NEW p \in Pids, Fork(p) PROVE ShellKnown'
  BY <1>3 DEF Fork
<1>4. CASE Record \/ KillNext
  BY <1>4 DEF Record, KillNext
<1>5. CASE WaitNext
  BY <1>5 DEF WaitNext, Collect
<1> QED
  BY <1>1, <1>2, <1>3, <1>4, <1>5 DEF Parent

LEMMA HandlerShells ==
  ASSUME TypeOK, ShellKnown,
         NEW p \in Pids, Handler(p) \/ RelayEnds(p) \/ ShellEnds(p)
  PROVE  ShellKnown'
<1> USE DEF TypeOK, ShellKnown, session
<1>1. CASE HandshakeFails(p) \/ HandshakeOk(p)
  BY <1>1 DEF HandshakeFails, HandshakeOk, Ends
<1>2. CASE LoopStops(p) \/ Polls(p)
  BY <1>2 DEF LoopStops, Polls, Goes
<1>3. CASE ShellReaped(p)
  BY <1>3 DEF ShellReaped, Goes
<1>4. CASE PollEnds(p) \/ Relays(p) \/ RelayEnds(p)
  BY <1>4 DEF PollEnds, Relays, RelayEnds, Goes
<1>5. CASE CloseEnds(p) \/ StopShellEnds(p)
  BY <1>5 DEF CloseEnds, StopShellEnds, Ends
<1>6. CASE Insists(p)
  BY <1>6 DEF Insists, Harder, Goes
<1>7. CASE ShellEnds(p)
  BY <1>7 DEF ShellEnds
<1> QED
  BY <1>1, <1>2, <1>3, <1>4, <1>5, <1>6, <1>7 DEF Handler

LEMMA ShellStep == TypeOK /\ ShellKnown /\ [Next]_vars => ShellKnown'
<1> SUFFICES ASSUME TypeOK, ShellKnown, [Next]_vars PROVE ShellKnown'
  OBVIOUS
<1>1. ASSUME NEW all \in BOOLEAN, Terminate(all) PROVE ShellKnown'
  BY <1>1 DEF Terminate, ShellKnown, session
<1>2. CASE SupervisorKills
  BY <1>2 DEF SupervisorKills, TypeOK, ShellKnown, session
<1>3. CASE UNCHANGED vars
  BY <1>3 DEF vars, ShellKnown, session
<1> QED
  BY <1>1, <1>2, <1>3, ParentShells, HandlerShells DEF Next

-----------------------------------------------------------------------------
(* A lost SIGCHLD does no lasting harm *)

Room == FlagMeansZombie /\ RoomAfterReap /\ NotWedged /\ AllEnded

LEMMA ParentRoom == Children /\ Room /\ Parent => Room'
<1> SUFFICES ASSUME Children, Room, Parent PROVE Room'
  OBVIOUS
<1> USE BridgeAssumption
    DEF BridgeAssumption, Children, TypeOK, OnlyChildren, ForkedOnce, Gone,
        Held, Slots, session, Recorded, SomeSlotFree, Room, FlagMeansZombie,
        RoomAfterReap, NotWedged, AllEnded
<1>1. CASE Start
  BY <1>1 DEF Start
<1>2. CASE Top
  BY <1>2 DEF Top
<1>3. ASSUME NEW p \in Pids, Reap(p) PROVE Room'
  BY <1>3 DEF Reap, Collect
<1>4. CASE ReapEnds
  BY <1>4 DEF ReapEnds
<1>5. CASE Clear
  BY <1>5 DEF Clear
<1>6. CASE PollAgain \/ ListenerFails
  BY <1>6 DEF PollAgain, ListenerFails
<1>7. ASSUME NEW p \in Pids, Fork(p) PROVE Room'
  BY <1>7 DEF Fork, AvailableSlot, Running
<1>8. CASE Record
  BY <1>8 DEF Record
<1>9. CASE KillNext
  BY <1>9 DEF KillNext, Advance
<1>10. CASE WaitNext
  BY <1>10 DEF WaitNext, Advance, Collect
<1> QED
  BY <1>1, <1>2, <1>3, <1>4, <1>5, <1>6, <1>7, <1>8, <1>9, <1>10 DEF Parent

\* A handler that ends raises the flag and becomes a zombie; every other step
\* of a handler keeps it running.
LEMMA HandlerEnds ==
  ASSUME TypeOK, NEW p \in Pids, Handler(p) \/ RelayEnds(p) \/ ShellEnds(p),
         step # "killed"
  PROVE  /\ UNCHANGED parent
         /\ \A q \in Pids : q # p => proc'[q] = proc[q]
         /\ \/ children_changed' = TRUE /\ proc'[p] = "zombie"
            \/ children_changed' = children_changed /\ proc' = proc
            \/ /\ children_changed' = children_changed
               /\ proc[p] \in Running /\ proc'[p] \in Running
<1> USE DEF TypeOK, Running, session, parent
<1>1. CASE HandshakeFails(p) \/ CloseEnds(p) \/ StopShellEnds(p)
  BY <1>1 DEF HandshakeFails, CloseEnds, StopShellEnds, Ends
<1>2. CASE HandshakeOk(p)
  BY <1>2 DEF HandshakeOk
<1>3. CASE LoopStops(p) \/ ShellReaped(p) \/ Polls(p)
  BY <1>3 DEF LoopStops, ShellReaped, Polls, Goes
<1>4. CASE PollEnds(p) \/ Relays(p) \/ RelayEnds(p)
  BY <1>4 DEF PollEnds, Relays, RelayEnds, Goes
<1>5. CASE Insists(p)
  BY <1>5 DEF Insists, Harder, Goes
<1>6. CASE ShellEnds(p)
  BY <1>6 DEF ShellEnds
<1> QED
  BY <1>1, <1>2, <1>3, <1>4, <1>5, <1>6 DEF Handler

LEMMA OtherRoom ==
  ASSUME Children, Room, [Next]_vars, ~Parent
  PROVE  Room'
<1>1. ASSUME NEW p \in Pids, Handler(p) \/ RelayEnds(p) \/ ShellEnds(p),
             step \in Serving \cup {"wait"}
      PROVE  Room'
  <2>1. /\ UNCHANGED parent
        /\ \A q \in Pids : q # p => proc'[q] = proc[q]
        /\ \/ children_changed' = TRUE /\ proc'[p] = "zombie"
           \/ children_changed' = children_changed /\ proc' = proc
           \/ /\ children_changed' = children_changed
              /\ proc[p] \in Running /\ proc'[p] \in Running
    BY <1>1, HandlerEnds DEF Children, Serving
  <2>2. proc[p] = "zombie" => proc'[p] = "zombie"
    BY <2>1 DEF Running
  <2>3. FlagMeansZombie'
    BY <2>1, <2>2 DEF Room, FlagMeansZombie, parent
  <2>4. RoomAfterReap'
    <3>1. /\ SomeSlotFree' <=> SomeSlotFree
          /\ \A q \in Pids : Recorded(q)' <=> Recorded(q)
      BY <2>1 DEF SomeSlotFree, Recorded, parent
    <3>2. \A q \in Pids : proc[q] = "zombie" => proc'[q] = "zombie"
      BY <2>1, <2>2
    <3>3. (step = "reap" =>
             SomeSlotFree \/ \E q \in Pids : Recorded(q) /\ proc[q] = "zombie")'
      BY <2>1, <3>1, <3>2 DEF Room, RoomAfterReap, parent
    <3>4. (step = "clear" => SomeSlotFree)'
      BY <2>1, <3>1 DEF Room, RoomAfterReap, parent
    <3>5. (step = "record" => children_changed \/ proc[handler] \in Running)'
      <4>1. step = "record" => handler \in Pids
        BY DEF Children, ForkedOnce, Gone
      <4> QED
        BY <4>1, <2>1 DEF Room, RoomAfterReap, parent
    <3> QED
      BY <3>3, <3>4, <3>5 DEF RoomAfterReap
  <2>5. NotWedged'
    BY <2>1 DEF Room, NotWedged, Recorded, parent
  <2>6. AllEnded'
    BY <1>1, <2>1 DEF AllEnded, parent, Serving
  <2> QED
    BY <2>3, <2>4, <2>5, <2>6 DEF Room
<1>2. ASSUME NEW p \in Pids, Handler(p) \/ RelayEnds(p) \/ ShellEnds(p),
             step \in Gone
      PROVE  Room'
  <2>1. UNCHANGED parent
    BY <1>2, HandlerFrame DEF Children
  <2>2. step = "exited" => \A q \in Pids : proc'[q] = "free"
    BY <1>2, HandlerFrame DEF Children, Room, AllEnded, Gone
  <2> QED
    BY <1>2, <2>1, <2>2 DEF Room, FlagMeansZombie, RoomAfterReap, NotWedged,
                            AllEnded, Gone, parent
<1>3. step \in Gone \/ step \in Serving \cup {"wait"}
  BY DEF Children, TypeOK, Steps, Gone, Serving
<1>4. ASSUME NEW all \in BOOLEAN, Terminate(all) PROVE Room'
  BY <1>4 DEF Terminate, Room, FlagMeansZombie, RoomAfterReap, NotWedged,
              AllEnded, SomeSlotFree, Recorded, parent
<1>5. CASE SupervisorKills
  BY <1>5 DEF SupervisorKills, Room, FlagMeansZombie, RoomAfterReap, NotWedged,
              AllEnded
<1>6. CASE UNCHANGED vars
  BY <1>6 DEF vars, Room, FlagMeansZombie, RoomAfterReap, NotWedged,
              AllEnded, SomeSlotFree, Recorded, parent
<1> QED
  BY <1>1, <1>2, <1>3, <1>4, <1>5, <1>6 DEF Next

-----------------------------------------------------------------------------
(* The inductive invariant and what follows from it *)

LEMMA InvInit == Init => IInv
<1> SUFFICES ASSUME Init PROVE IInv
  OBVIOUS
<1>1. TypeOK
  BY TypeInit
<1>2. OnlyChildren /\ SlotsDiffer /\ ForkedOnce
  BY BridgeAssumption DEF BridgeAssumption, Init, OnlyChildren, SlotsDiffer,
                          ForkedOnce, Gone, Held
<1>3. ShellKnown
  BY DEF Init, ShellKnown
<1>4. FlagMeansZombie /\ RoomAfterReap /\ NotWedged /\ AllEnded
  BY DEF Init, FlagMeansZombie, RoomAfterReap, NotWedged, AllEnded
<1> QED
  BY <1>1, <1>2, <1>3, <1>4 DEF IInv

LEMMA InvStep == IInv /\ [Next]_vars => IInv'
<1> SUFFICES ASSUME IInv, [Next]_vars PROVE IInv'
  OBVIOUS
<1>1. Children /\ Room /\ ShellKnown
  BY DEF IInv, Children, Room
<1>2. Children'
  BY <1>1, ParentChildren, OtherChildren
<1>3. Room'
  BY <1>1, ParentRoom, OtherRoom
<1>4. ShellKnown'
  BY <1>1, ShellStep DEF Children
<1> QED
  BY <1>2, <1>3, <1>4 DEF IInv, Children, Room

LEMMA InvAlways == Spec => []IInv
BY InvInit, InvStep, PTL DEF Spec

\* The slots hold each child of the parent once and nothing else, a handler
\* only signals a shell it has not waited for, and no session is left when the
\* parent returns from main: no signal of the bridge reaches a process that is
\* not its own.
THEOREM AllAccounted == Spec => []ChildrenAccounted
<1>1. IInv => ChildrenAccounted
  <2> SUFFICES ASSUME IInv PROVE ChildrenAccounted
    OBVIOUS
  <2>1. ASSUME step \notin {"wait"} \cup Gone
        PROVE  /\ \A p \in Pids : proc[p] # "free" <=> Recorded(p) \/ handler = p
               /\ \A s \in Slots : handlers[s] = handler => handlers[s] = NoPid
    <3>1. \A s \in Slots : Held(s)
      BY <2>1 DEF Held
    <3>2. \A p \in Pids : proc[p] # "free" <=> Recorded(p) \/ handler = p
      BY <2>1, <3>1 DEF IInv, OnlyChildren, Recorded
    <3>3. \A s \in Slots : handlers[s] = handler => handlers[s] = NoPid
      BY <2>1 DEF IInv, ForkedOnce
    <3> QED
      BY <3>2, <3>3
  <2>2. \A p \in Pids :
          proc[p] \in {"hup", "term", "kill"} => shell[p] # "none"
    BY DEF IInv, ShellKnown
  <2>3. step = "exited" =>
          \A p \in Pids : proc[p] = "free" /\ shell[p] = "none"
    BY DEF IInv, AllEnded, ShellKnown
  <2> QED
    BY <2>1, <2>2, <2>3 DEF ChildrenAccounted, IInv, SlotsDiffer
<1> QED
  BY <1>1, InvAlways, PTL

\* The bridge is never full of handlers that have ended unnoticed.
THEOREM NeverWedged == Spec => []NotWedged
<1>1. IInv => NotWedged
  BY DEF IInv
<1> QED
  BY <1>1, InvAlways, PTL

\* There are never more sessions than slots: the code's limit of four is the
\* number of handlers alive, not of slots in use.
SessionsBounded ==
  step \notin Gone => Cardinality({p \in Pids : proc[p] # "free"}) <= MAX_SESSIONS

THEOREM AtMostMaxSessions == Spec => []SessionsBounded
<1>1. IInv => SessionsBounded
  <2> SUFFICES ASSUME IInv, step \notin Gone
               PROVE  Cardinality({p \in Pids : proc[p] # "free"}) <= MAX_SESSIONS
    BY DEF SessionsBounded
  <2> DEFINE Alive == {p \in Pids : proc[p] # "free"}
             Of == [s \in Slots |-> IF step = "record" /\ s = index
                                    THEN handler ELSE handlers[s]]
             Image == {Of[s] : s \in Slots}
  <2>1. IsFiniteSet(Slots) /\ Cardinality(Slots) = MAX_SESSIONS
    <3>1. MAX_SESSIONS \in Nat
      BY BridgeAssumption DEF BridgeAssumption
    <3>2. 1 \in Int /\ MAX_SESSIONS \in Int
      BY <3>1
    <3>3. /\ IsFiniteSet(1..MAX_SESSIONS)
          /\ Cardinality(1..MAX_SESSIONS) =
               IF 1 > MAX_SESSIONS THEN 0 ELSE MAX_SESSIONS - 1 + 1
      BY <3>2, FS_Interval
    <3> QED
      BY <3>1, <3>3, BridgeAssumption DEF BridgeAssumption, Slots
  <2>2. IsFiniteSet(Image) /\ Cardinality(Image) <= Cardinality(Slots)
    <3>1. Of \in [Slots -> Image]
      OBVIOUS
    <3>2. \A y \in Image : \E s \in Slots : Of[s] = y
      OBVIOUS
    <3> HIDE DEF Of, Image
    <3>3. Of \in Surjection(Slots, Image)
      BY <3>1, <3>2 DEF Surjection
    <3> QED
      BY <2>1, <3>3, FS_Surjection
  <2>3. Alive \subseteq Image
    <3> SUFFICES ASSUME NEW p \in Pids, proc[p] # "free"
                 PROVE  \E s \in Slots : Of[s] = p
      OBVIOUS
    <3>1. CASE handler = p
      <4>1. step = "record" /\ index \in Slots
        BY <3>1, BridgeAssumption
           DEF IInv, ForkedOnce, TypeOK, BridgeAssumption
      <4> QED
        BY <3>1, <4>1
    <3>2. CASE handler # p
      <4>1. PICK s \in Slots : handlers[s] = p
        BY <3>2 DEF IInv, OnlyChildren
      <4>2. ~(step = "record" /\ s = index)
        BY <4>1, BridgeAssumption
           DEF IInv, ForkedOnce, BridgeAssumption, Gone
      <4> QED
        BY <4>1, <4>2
    <3> QED
      BY <3>1, <3>2
  <2> HIDE DEF Alive, Image
  <2>4. Cardinality(Alive) <= Cardinality(Image)
    BY <2>2, <2>3, FS_Subset
  <2>5. /\ Cardinality(Alive) \in Nat /\ Cardinality(Image) \in Nat
    BY <2>2, <2>3, FS_Subset, FS_CardinalityType
  <2>6. MAX_SESSIONS \in Nat
    BY BridgeAssumption DEF BridgeAssumption
  <2> QED
    BY <2>1, <2>2, <2>4, <2>5, <2>6 DEF Alive
<1> QED
  BY <1>1, InvAlways, PTL
=============================================================================
