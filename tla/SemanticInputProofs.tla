------------------------ MODULE SemanticInputProofs ------------------------
(***************************************************************************)
(* Proofs about SemanticInput, for batches of any length and any number of *)
(* calls.  That nothing is typed twice or dropped follows from where the   *)
(* scan stands and in what order positions leave it; that revisions keep   *)
(* to the client's own text, from what the credit pays for at each step.   *)
(***************************************************************************)
EXTENDS SemanticInput, TLAPS

\* Where a call stands in its batch.
Positioned ==
  /\ call.path = "idle" => call = NoCall
  /\ call.at <= Len(call.batch) + 1
  /\ \A k \in DOMAIN call.events : call.events[k] \in 1..(call.at - 1)
  /\ call.path \in {"keys", "direct", "rdp"} => call.events = <<>>
  /\ call.path = "inject" => ~call.text
  /\ call.path = "keys" => call.at = 1
  /\ call.path \in {"direct", "rdp"} => Translatable(call.batch)
  /\ call.sent \/ call.path = "inject" => call.at > 1
  /\ (call.path = "scan" /\ ~call.sent) \/ call.path = "keys" => call.applied = <<>>

Increasing(s) == \A k, l \in DOMAIN s : k < l => s[k] < s[l]

\* Nothing collected, and nothing that took effect, comes back.
InBatchOrder ==
  /\ Increasing(call.applied) /\ Increasing(call.events)
  /\ call.path # "done" =>
       /\ \A k \in DOMAIN call.applied : call.applied[k] < call.at
       /\ \A k \in DOMAIN call.applied, l \in DOMAIN call.events :
            call.applied[k] < call.events[l]

\* What was scanned took effect, is collected, or was held back.
NothingDropped ==
  call.path \in {"scan", "inject", "direct", "rdp"} =>
    \A i \in 1..(call.at - 1) :
      i \in Range(call.applied) \/ i \in Range(call.events) \/ i \in call.clamped

\* The credit is covered by what stands before the caret together with the
\* text on its way, and pays for the Backspaces on their way.
CreditPays ==
  ~astray =>
    /\ \/ call.path \in {"idle", "done", "keys"}
       \/ call.path \in {"direct", "rdp"} /\ call.at = 1
       \/ call.path = "scan" /\ ~call.sent
       => edit.credit <= tail
    /\ call.path = "scan" /\ call.events = <<>> => call.next.credit <= tail
    /\ call.path = "scan" /\ call.events # <<>> /\ call.text /\ call.draft.ok
         => call.next.credit <= tail + call.draft.size
    /\ call.path \in {"scan", "inject"} /\ ~call.text =>
         /\ \A k \in DOMAIN call.events : call.batch[call.events[k]] \in Backspaces
         /\ call.next.credit + Len(call.events) <= tail
    /\ call.path \in {"direct", "rdp"} /\ Unicode(call.batch) => call.next.credit <= tail

IInv ==
  /\ TypeOK /\ Positioned /\ InBatchOrder /\ NothingDropped /\ CreditPays /\ OwnTextKept

-----------------------------------------------------------------------------
(* Sequences of positions.                                                 *)

\* A position behind all others joins a sequence.
LEMMA Joins ==
  ASSUME NEW s \in Seq(Nat), NEW n \in Nat
  PROVE  /\ Append(s, n) \in Seq(Nat) /\ Append(s, n) # <<>>
         /\ Len(Append(s, n)) = Len(s) + 1
         /\ Range(Append(s, n)) = Range(s) \cup {n}
         /\ \A k \in DOMAIN Append(s, n) :
              \/ k \in DOMAIN s /\ Append(s, n)[k] = s[k]
              \/ k = Len(s) + 1 /\ Append(s, n)[k] = n
         /\ Increasing(s) /\ (\A k \in DOMAIN s : s[k] < n) => Increasing(Append(s, n))
<1>1. /\ Append(s, n) \in Seq(Nat) /\ Len(Append(s, n)) = Len(s) + 1
      /\ DOMAIN s = 1..Len(s) /\ DOMAIN Append(s, n) = 1..(Len(s) + 1) /\ Len(s) \in Nat
      /\ \A k \in 1..Len(s) : Append(s, n)[k] = s[k] /\ s[k] \in Nat
      /\ Append(s, n)[Len(s) + 1] = n
  OBVIOUS
<1>2. Append(s, n) # <<>>
  BY <1>1
<1>3. \A k \in DOMAIN Append(s, n) :
        \/ k \in DOMAIN s /\ Append(s, n)[k] = s[k]
        \/ k = Len(s) + 1 /\ Append(s, n)[k] = n
  BY <1>1
<1>4. Range(Append(s, n)) = Range(s) \cup {n}
  BY <1>1, <1>3 DEF Range
<1>5. Increasing(s) /\ (\A k \in DOMAIN s : s[k] < n) => Increasing(Append(s, n))
  BY <1>1 DEF Increasing
<1> QED
  BY <1>1, <1>2, <1>3, <1>4, <1>5

\* The first position leaves a sequence.
LEMMA Leaves ==
  ASSUME NEW s \in Seq(Nat), s # <<>>
  PROVE  /\ Head(s) \in Nat /\ Head(s) = s[1] /\ 1 \in DOMAIN s
         /\ Tail(s) \in Seq(Nat) /\ Len(Tail(s)) = Len(s) - 1 /\ Len(s) >= 1
         /\ Range(s) = {Head(s)} \cup Range(Tail(s))
         /\ \A k \in DOMAIN Tail(s) : k + 1 \in DOMAIN s /\ Tail(s)[k] = s[k + 1]
         /\ Increasing(s) =>
              Increasing(Tail(s)) /\ \A k \in DOMAIN Tail(s) : Head(s) < Tail(s)[k]
<1>1. /\ Len(s) \in Nat /\ Len(s) >= 1 /\ DOMAIN s = 1..Len(s) /\ Head(s) = s[1]
      /\ \A k \in 1..Len(s) : s[k] \in Nat
  OBVIOUS
<1>2. /\ Tail(s) \in Seq(Nat) /\ Len(Tail(s)) = Len(s) - 1
      /\ DOMAIN Tail(s) = 1..(Len(s) - 1)
      /\ \A k \in 1..(Len(s) - 1) : Tail(s)[k] = s[k + 1]
  OBVIOUS
<1>3. Range(s) = {Head(s)} \cup Range(Tail(s))
  <2>1. ASSUME NEW k \in DOMAIN s PROVE s[k] \in {Head(s)} \cup Range(Tail(s))
    <3>1. CASE k = 1
      BY <1>1, <3>1
    <3>2. CASE k # 1
      <4>1. k - 1 \in DOMAIN Tail(s) /\ Tail(s)[k - 1] = s[k]
        BY <1>1, <1>2, <3>2
      <4> QED
        BY <4>1 DEF Range
    <3> QED
      BY <3>1, <3>2
  <2>2. ASSUME NEW k \in DOMAIN Tail(s) PROVE Tail(s)[k] \in Range(s)
    BY <1>1, <1>2 DEF Range
  <2>3. Head(s) \in Range(s)
    BY <1>1 DEF Range
  <2> QED
    BY <2>1, <2>2, <2>3 DEF Range
<1>4. Increasing(s) =>
        Increasing(Tail(s)) /\ \A k \in DOMAIN Tail(s) : Head(s) < Tail(s)[k]
  <2> SUFFICES ASSUME Increasing(s)
               PROVE  Increasing(Tail(s)) /\ \A k \in DOMAIN Tail(s) : Head(s) < Tail(s)[k]
    OBVIOUS
  <2>1. \A k \in 1..Len(s), l \in 1..Len(s) : k < l => s[k] < s[l]
    BY <1>1 DEF Increasing
  <2>2. \A k \in DOMAIN Tail(s) : k \in Nat /\ k + 1 \in 1..Len(s) /\ 1 < k + 1 /\ Tail(s)[k] = s[k + 1]
    BY <1>1, <1>2
  <2>3. Increasing(Tail(s))
    BY <2>1, <2>2 DEF Increasing
  <2> QED
    BY <1>1, <2>1, <2>2, <2>3
<1> QED
  BY <1>1, <1>2, <1>3, <1>4

\* A whole segment follows what took effect before.
LEMMA Follows ==
  ASSUME NEW s \in Seq(Nat), NEW t \in Seq(Nat)
  PROVE  /\ s \o t \in Seq(Nat)
         /\ Range(s \o t) = Range(s) \cup Range(t)
         /\ \A k \in DOMAIN (s \o t) :
              \/ k \in DOMAIN s /\ (s \o t)[k] = s[k]
              \/ k - Len(s) \in DOMAIN t /\ (s \o t)[k] = t[k - Len(s)]
         /\ /\ Increasing(s) /\ Increasing(t)
            /\ \A k \in DOMAIN s, l \in DOMAIN t : s[k] < t[l]
            => Increasing(s \o t)
<1>1. /\ s \o t \in Seq(Nat) /\ Len(s) \in Nat /\ Len(t) \in Nat
      /\ DOMAIN s = 1..Len(s) /\ DOMAIN t = 1..Len(t) /\ DOMAIN (s \o t) = 1..(Len(s) + Len(t))
      /\ \A k \in 1..Len(s) : (s \o t)[k] = s[k] /\ s[k] \in Nat
      /\ \A k \in 1..Len(t) : (s \o t)[Len(s) + k] = t[k] /\ t[k] \in Nat
  OBVIOUS
<1>2. \A k \in DOMAIN (s \o t) :
        \/ k \in DOMAIN s /\ (s \o t)[k] = s[k]
        \/ k - Len(s) \in DOMAIN t /\ (s \o t)[k] = t[k - Len(s)]
  <2> TAKE k \in DOMAIN (s \o t)
  <2>1. CASE k <= Len(s)
    BY <1>1, <2>1
  <2>2. CASE k > Len(s)
    <3>1. k - Len(s) \in 1..Len(t) /\ Len(s) + (k - Len(s)) = k
      BY <1>1, <2>2
    <3> QED
      BY <1>1, <3>1
  <2> QED
    BY <1>1, <2>1, <2>2
<1>3. Range(s \o t) = Range(s) \cup Range(t)
  <2>1. \A k \in DOMAIN (s \o t) : (s \o t)[k] \in Range(s) \cup Range(t)
    BY <1>2 DEF Range
  <2>2. \A k \in DOMAIN s : s[k] \in Range(s \o t)
    BY <1>1 DEF Range
  <2>3. \A k \in DOMAIN t : t[k] \in Range(s \o t)
    <3> TAKE k \in DOMAIN t
    <3>1. Len(s) + k \in DOMAIN (s \o t)
      BY <1>1
    <3> QED
      BY <1>1, <3>1 DEF Range
  <2> QED
    BY <2>1, <2>2, <2>3 DEF Range
<1>4. ASSUME Increasing(s), Increasing(t), \A k \in DOMAIN s, l \in DOMAIN t : s[k] < t[l]
      PROVE  Increasing(s \o t)
  <2> SUFFICES ASSUME NEW k \in DOMAIN (s \o t), NEW l \in DOMAIN (s \o t), k < l
               PROVE  (s \o t)[k] < (s \o t)[l]
    BY DEF Increasing
  <2>1. CASE k \in DOMAIN s
    BY <1>1, <1>2, <1>4, <2>1 DEF Increasing
  <2>2. CASE k \notin DOMAIN s
    BY <1>1, <1>2, <1>4, <2>2 DEF Increasing
  <2> QED
    BY <2>1, <2>2
<1> QED
  BY <1>1, <1>2, <1>3, <1>4

\* Nothing has happened yet.
LEMMA NothingYet ==
  <<>> \in Seq(Nat) /\ Increasing(<<>>) /\ Range(<<>>) = {} /\ DOMAIN <<>> = {} /\ Len(<<>>) = 0
BY DEF Increasing, Range

-----------------------------------------------------------------------------
(* What the state functions return.                                        *)

LEMMA Starts ==
  /\ Blank \in EditStates /\ Blank.credit = 0
  /\ Fresh \in [high : BOOLEAN, cr : BOOLEAN]
  /\ NoText \in Drafts /\ NoCall \in Calls /\ OwnTextKept \in BOOLEAN
BY NothingYet DEF Blank, EditStates, Fresh, NoText, Drafts, NoCall, Calls, OwnTextKept

\* Records with one or more fields changed.
LEMMA EditUpdates ==
  ASSUME NEW e \in EditStates, NEW n \in Nat, NEW b \in BOOLEAN, NEW c \in BOOLEAN
  PROVE  /\ [e EXCEPT !.credit = n] \in EditStates
         /\ [e EXCEPT !.credit = n, !.cr = b] \in EditStates
         /\ [e EXCEPT !.high = b, !.cr = c] \in EditStates
         /\ [e EXCEPT !.cr = b] \in EditStates
         /\ [credit |-> n, high |-> b, cr |-> c] \in EditStates
         /\ e.credit \in Nat /\ e.credit + 1 \in Nat
<1>1. [e EXCEPT !.credit = n] \in EditStates
  BY DEF EditStates
<1>2. [e EXCEPT !.credit = n, !.cr = b] \in EditStates
  BY DEF EditStates
<1>3. [e EXCEPT !.high = b, !.cr = c] \in EditStates
  BY DEF EditStates
<1>4. [e EXCEPT !.cr = b] \in EditStates
  BY DEF EditStates
<1>5. [credit |-> n, high |-> b, cr |-> c] \in EditStates
  BY DEF EditStates
<1>6. e.credit \in Nat /\ e.credit + 1 \in Nat
  BY DEF EditStates
<1> QED
  BY <1>1, <1>2, <1>3, <1>4, <1>5, <1>6

LEMMA DraftUpdates ==
  ASSUME NEW t \in Drafts, NEW n \in Nat, NEW b \in BOOLEAN, NEW c \in BOOLEAN
  PROVE  /\ [t EXCEPT !.ok = b] \in Drafts
         /\ [t EXCEPT !.ok = b, !.high = c, !.size = n] \in Drafts
         /\ [t EXCEPT !.high = b, !.cr = c] \in Drafts
         /\ [t EXCEPT !.cr = b] \in Drafts
         /\ [t EXCEPT !.size = n, !.cr = b] \in Drafts
         /\ t.size \in Nat /\ t.size + 1 \in Nat
<1>1. [t EXCEPT !.ok = b] \in Drafts
  BY DEF Drafts
<1>2. [t EXCEPT !.ok = b, !.high = c, !.size = n] \in Drafts
  BY DEF Drafts
<1>3. [t EXCEPT !.high = b, !.cr = c] \in Drafts
  BY DEF Drafts
<1>4. [t EXCEPT !.cr = b] \in Drafts
  BY DEF Drafts
<1>5. [t EXCEPT !.size = n, !.cr = b] \in Drafts
  BY DEF Drafts
<1>6. t.size \in Nat /\ t.size + 1 \in Nat
  BY DEF Drafts
<1> QED
  BY <1>1, <1>2, <1>3, <1>4, <1>5, <1>6

LEMMA CallUpdates ==
  ASSUME call \in Calls
  PROVE  /\ call.at \in Nat /\ call.at + 1 \in Nat \ {0}
         /\ call.clamped \cup {call.at} \in SUBSET Nat
         /\ \A n \in Nat \ {0}, c \in SUBSET Nat : [call EXCEPT !.at = n, !.clamped = c] \in Calls
         /\ \A n \in Nat \ {0}, b \in BOOLEAN, s \in Seq(Nat) :
              [call EXCEPT !.at = n, !.text = b, !.events = s] \in Calls
         /\ \A n \in Nat \ {0}, b \in BOOLEAN, s \in Seq(Nat), e \in EditStates :
              [call EXCEPT !.at = n, !.text = b, !.events = s, !.next = e] \in Calls
         /\ \A n \in Nat \ {0}, b \in BOOLEAN, s \in Seq(Nat), d \in Drafts, e \in EditStates :
              [call EXCEPT !.at = n, !.text = b, !.events = s, !.draft = d, !.next = e] \in Calls
         /\ \A n \in Nat \ {0}, a \in Seq(Nat), e \in EditStates :
              [call EXCEPT !.at = n, !.applied = a, !.next = e] \in Calls
<1>1. call.at \in Nat /\ call.at + 1 \in Nat \ {0} /\ call.clamped \cup {call.at} \in SUBSET Nat
  BY DEF Calls
<1>2. ASSUME NEW n \in Nat \ {0}, NEW c \in SUBSET Nat
      PROVE  [call EXCEPT !.at = n, !.clamped = c] \in Calls
  BY DEF Calls
<1>3. ASSUME NEW n \in Nat \ {0}, NEW b \in BOOLEAN, NEW s \in Seq(Nat)
      PROVE  [call EXCEPT !.at = n, !.text = b, !.events = s] \in Calls
  BY DEF Calls
<1>4. ASSUME NEW n \in Nat \ {0}, NEW b \in BOOLEAN, NEW s \in Seq(Nat), NEW e \in EditStates
      PROVE  [call EXCEPT !.at = n, !.text = b, !.events = s, !.next = e] \in Calls
  BY DEF Calls
<1>5. ASSUME NEW n \in Nat \ {0}, NEW b \in BOOLEAN, NEW s \in Seq(Nat), NEW d \in Drafts,
             NEW e \in EditStates
      PROVE  [call EXCEPT !.at = n, !.text = b, !.events = s, !.draft = d, !.next = e] \in Calls
  BY DEF Calls
<1>6. ASSUME NEW n \in Nat \ {0}, NEW a \in Seq(Nat), NEW e \in EditStates
      PROVE  [call EXCEPT !.at = n, !.applied = a, !.next = e] \in Calls
  BY DEF Calls
<1> QED
  BY <1>1, <1>2, <1>3, <1>4, <1>5, <1>6

LEMMA ItemTyped ==
  ASSUME TypeOK, More
  PROVE  Item \in Items /\ call.at \in DOMAIN call.batch
BY DEF TypeOK, Calls, More, Item

LEMMA AfterKeyTyped ==
  ASSUME NEW kind, tail \in Nat
  PROVE  /\ AfterKey(kind) \in Nat
         /\ kind \in Typed => AfterKey(kind) = tail + 1
         /\ kind \in Backspaces /\ tail > 0 => AfterKey(kind) = tail - 1
BY DEF AfterKey, Typed, Backspaces

\* A unit earns at most one character, and less when it is half of one or the
\* end of a line that has ended.
LEMMA CreditTyped ==
  ASSUME NEW e \in EditStates, NEW unit
  PROVE  /\ CreditUnit(e, unit) \in EditStates
         /\ CreditUnit(e, unit).credit \in {e.credit, e.credit + 1}
<1>1. (unit = "hi") \in BOOLEAN /\ (unit = "cr") \in BOOLEAN
  OBVIOUS
<1>2. CreditUnit(e, unit) \in EditStates
  <2>1. e.credit + (IF unit = "lo" THEN 1 ELSE 0) \in Nat
    BY DEF EditStates
  <2> QED
    BY <1>1, <2>1, EditUpdates, ZenonT(30) DEF CreditUnit
<1>3. CreditUnit(e, unit).credit \in {e.credit, e.credit + 1}
  BY DEF CreditUnit, EditStates
<1> QED
  BY <1>2, <1>3

LEMMA ConvertTyped ==
  ASSUME NEW t \in Drafts, NEW unit
  PROVE  ConvertUnit(t, unit) \in Drafts
<1>1. (unit = "lo") \in BOOLEAN /\ (unit = "cr") \in BOOLEAN
  OBVIOUS
<1> QED
  BY <1>1, DraftUpdates, ZenonT(30) DEF ConvertUnit

LEMMA DraftTyped ==
  ASSUME TypeOK
  PROVE  /\ Draft \in Drafts
         /\ call.events = <<>> => Draft.ok /\ Draft.size = 0
         /\ call.events # <<>> => Draft = call.draft
BY DEF Draft, TypeOK, Calls, NoText, Drafts

\* What the broker credits, the helper will insert, unless it refuses the text
\* or takes a line feed for the end of the line.
LEMMA CreditIsInserted ==
  ASSUME NEW e \in EditStates, NEW t \in Drafts, NEW unit \in Units,
         ConvertUnit(t, unit).ok, ~(unit = "lf" /\ t.cr /\ ~e.cr)
  PROVE  /\ t.ok
         /\ ConvertUnit(t, unit).size \in {t.size, t.size + 1}
         /\ CreditUnit(e, unit).credit = e.credit + 1 => ConvertUnit(t, unit).size = t.size + 1
<1>1. CASE unit = "lf"
  BY <1>1 DEF CreditUnit, ConvertUnit, EditStates, Drafts
<1>2. CASE unit \in {"hi", "lo"}
  BY <1>2 DEF CreditUnit, ConvertUnit, EditStates, Drafts
<1>3. CASE unit \in {"char", "han", "cr"}
  BY <1>3 DEF CreditUnit, ConvertUnit, EditStates, Drafts
<1> QED
  BY <1>1, <1>2, <1>3 DEF Units

\* On the key route the credit is typed.
LEMMA CreditIsTyped ==
  ASSUME NEW e \in EditStates, NEW unit \in Typed, tail \in Nat, e.credit <= tail
  PROVE  CreditUnit(e, unit).credit <= AfterKey(unit)
BY CreditTyped, AfterKeyTyped DEF EditStates

-----------------------------------------------------------------------------
(* The scan of a batch.                                                    *)

\* An item that is collected.
LEMMA Collects ==
  ASSUME IInv, call.path = "scan", More,
         call'.path = "scan", call'.at = call.at + 1, call'.text \in BOOLEAN,
         call'.events = Append(call.events, call.at),
         call'.batch = call.batch, call'.applied = call.applied,
         call'.clamped = call.clamped, call'.sent = call.sent
  PROVE  /\ call'.events \in Seq(Nat) /\ call'.events # <<>>
         /\ Positioned' /\ InBatchOrder' /\ NothingDropped'
<1>1. /\ call.events \in Seq(Nat) /\ call.at \in Nat \ {0} /\ call.batch \in Seq(Items)
      /\ call.applied \in Seq(Nat) /\ call.at <= Len(call.batch)
  BY DEF IInv, TypeOK, Calls, More
<1>0. call.at \in Nat /\ call'.events = Append(call.events, call.at)
  BY <1>1
<1>2. /\ call'.events \in Seq(Nat) /\ call'.events # <<>>
      /\ Range(call'.events) = Range(call.events) \cup {call.at}
  <2>1. /\ Append(call.events, call.at) \in Seq(Nat) /\ Append(call.events, call.at) # <<>>
        /\ Range(Append(call.events, call.at)) = Range(call.events) \cup {call.at}
    BY <1>0, <1>1, Joins
  <2> QED
    BY <1>0, <2>1
<1>7. \A k \in DOMAIN call'.events :
        \/ k \in DOMAIN call.events /\ call'.events[k] = call.events[k]
        \/ call'.events[k] = call.at
  <2>1. \A k \in DOMAIN Append(call.events, call.at) :
          \/ k \in DOMAIN call.events /\ Append(call.events, call.at)[k] = call.events[k]
          \/ Append(call.events, call.at)[k] = call.at
    BY <1>0, <1>1, Joins
  <2> QED
    BY <1>0, <2>1
<1>8. /\ Increasing(call.events) /\ (\A k \in DOMAIN call.events : call.events[k] < call.at)
        => Increasing(call'.events)
  <2>1. Increasing(call.events) /\ (\A k \in DOMAIN call.events : call.events[k] < call.at)
          => Increasing(Append(call.events, call.at))
    BY <1>0, <1>1, Joins
  <2> QED
    BY <1>0, <2>1
<1>3. \A k \in DOMAIN call.events : call.events[k] \in 1..(call.at - 1)
  BY DEF IInv, Positioned
<1>4. Positioned'
  <2>1. \A k \in DOMAIN call'.events : call'.events[k] \in 1..(call'.at - 1)
    BY <1>1, <1>3, <1>7
  <2>2. call'.at <= Len(call'.batch) + 1
    BY <1>1
  <2> QED
    BY <1>1, <2>1, <2>2 DEF IInv, Positioned
<1>5. InBatchOrder'
  BY <1>1, <1>2, <1>7, <1>8, <1>3 DEF IInv, InBatchOrder
<1>6. NothingDropped'
  BY <1>1, <1>2 DEF IInv, NothingDropped
<1> QED
  BY <1>2, <1>4, <1>5, <1>6

LEMMA ScanBackspaceKeeps == IInv /\ ScanBackspace => IInv'
<1> SUFFICES ASSUME IInv, ScanBackspace PROVE IInv'
  OBVIOUS
<1>1. /\ call.path = "scan" /\ More /\ Item \in Backspaces /\ ~MustSend /\ Item \notin Units
      /\ UNCHANGED <<config, edit, helper, tail, ownErased, astray>>
      /\ call \in Calls /\ call.next \in EditStates /\ call.at \in Nat \ {0} /\ call.batch \in Seq(Items)
  BY DEF ScanBackspace, Scanning, screen, IInv, TypeOK, Calls, Backspaces, Units
<1>2. CASE Clamped
  <2>1. call' = [call EXCEPT !.at = @ + 1, !.clamped = @ \cup {call.at}]
    BY <1>2 DEF ScanBackspace
  <2>2. TypeOK'
    <3>1. call' \in Calls
      BY <1>1, <2>1, CallUpdates, Zenon
    <3> QED
      BY <1>1, <3>1 DEF IInv, TypeOK
  <2>3. Positioned'
    BY <1>1, <2>1 DEF IInv, Positioned, More, Calls
  <2>4. InBatchOrder'
    BY <1>1, <2>1 DEF IInv, InBatchOrder, Calls
  <2>5. NothingDropped'
    BY <1>1, <2>1 DEF IInv, NothingDropped, Calls
  <2>6. CreditPays'
    BY <1>1, <2>1 DEF IInv, CreditPays, Calls
  <2> QED
    BY <1>1, <2>2, <2>3, <2>4, <2>5, <2>6 DEF IInv, OwnTextKept
<1>3. CASE ~Clamped
  <2>1. call' = [call EXCEPT !.at = @ + 1, !.text = FALSE,
                             !.events = Append(@, call.at), !.next = Spend(@)]
    BY <1>3 DEF ScanBackspace
  <2>2. Spend(call.next) \in EditStates /\ Spend(call.next).credit = call.next.credit - 1
    <3>1. call.next.credit # 0
      BY <1>1, <1>3 DEF Clamped
    <3>2. call.next.credit - 1 \in Nat
      BY <1>1, <3>1 DEF EditStates
    <3> QED
      BY <1>1, <3>2, EditUpdates DEF Spend, EditStates
  <2>3. /\ call'.path = "scan" /\ call'.at = call.at + 1 /\ call'.text = FALSE
        /\ call'.events = Append(call.events, call.at)
        /\ UNCHANGED <<call.batch, call.applied, call.clamped, call.sent>>
        /\ call'.next.credit = call.next.credit - 1
    BY <1>1, <2>1, <2>2 DEF Calls
  <2>4. /\ call'.events \in Seq(Nat) /\ call'.events # <<>>
        /\ Positioned' /\ InBatchOrder' /\ NothingDropped'
    BY <1>1, <2>3, Collects
  <2>5. TypeOK'
    <3>1. call' \in Calls
      <4>1. Append(call.events, call.at) \in Seq(Nat) /\ FALSE \in BOOLEAN
        BY <2>3, <2>4
      <4> QED
        BY <1>1, <2>1, <2>2, <4>1, CallUpdates, Zenon
    <3> QED
      BY <1>1, <3>1 DEF IInv, TypeOK
  <2>6. CreditPays'
    <3> SUFFICES ASSUME ~astray
                 PROVE  /\ ~call'.sent => edit.credit <= tail
                        /\ \A k \in DOMAIN call'.events : call.batch[call'.events[k]] \in Backspaces
                        /\ call'.next.credit + Len(call'.events) <= tail
      BY <1>1, <2>3, <2>4 DEF CreditPays
    <3>1. call.events \in Seq(Nat) /\ tail \in Nat /\ call.next.credit \in Nat
      BY <1>1 DEF IInv, TypeOK, Calls, EditStates
    <3>2. /\ \A k \in DOMAIN call.events : call.batch[call.events[k]] \in Backspaces
          /\ call.next.credit + Len(call.events) <= tail
      <4>1. CASE call.events = <<>>
        BY <1>1, <3>1, <4>1, NothingYet DEF IInv, CreditPays
      <4>2. CASE call.events # <<>>
        BY <1>1, <1>3, <4>2 DEF MustSend, Backspaces, IInv, CreditPays
      <4> QED
        BY <4>1, <4>2
    <3>3. ~call'.sent => edit.credit <= tail
      BY <1>1, <2>3 DEF IInv, CreditPays
    <3>4. /\ Len(call'.events) = Len(call.events) + 1
          /\ \A k \in DOMAIN call'.events :
               \/ k \in DOMAIN call.events /\ call'.events[k] = call.events[k]
               \/ call'.events[k] = call.at
      BY <1>1, <2>3, <3>1, Joins
    <3>5. call'.next.credit + Len(call'.events) <= tail
      BY <2>3, <3>1, <3>2, <3>4
    <3>6. \A k \in DOMAIN call'.events : call.batch[call'.events[k]] \in Backspaces
      BY <1>1, <3>2, <3>4 DEF Item
    <3> QED
      BY <3>3, <3>5, <3>6
  <2> QED
    BY <1>1, <2>4, <2>5, <2>6 DEF IInv, OwnTextKept
<1> QED
  BY <1>2, <1>3

LEMMA ScanTextKeeps == IInv /\ ScanText => IInv'
<1> SUFFICES ASSUME IInv, ScanText PROVE IInv'
  OBVIOUS
<1>1. /\ call.path = "scan" /\ More /\ Item \in Units /\ ~MustSend /\ Item \notin Backspaces
      /\ UNCHANGED <<config, edit, helper, tail, ownErased>>
      /\ astray' = (astray \/ (Item = "lf" /\ Draft.cr /\ ~call.next.cr))
      /\ call \in Calls /\ call.next \in EditStates /\ call.at \in Nat \ {0} /\ call.batch \in Seq(Items)
      /\ Draft \in Drafts /\ tail \in Nat
  BY DraftTyped DEF ScanText, Scanning, IInv, TypeOK, Calls, Backspaces, Units
<1>2. call' = [call EXCEPT !.at = @ + 1, !.text = TRUE,
                           !.events = Append(@, call.at),
                           !.draft = ConvertUnit(Draft, Item),
                           !.next = CreditUnit(@, Item)]
  BY DEF ScanText
<1>3. /\ call'.path = "scan" /\ call'.at = call.at + 1 /\ call'.text = TRUE
      /\ call'.events = Append(call.events, call.at)
      /\ UNCHANGED <<call.batch, call.applied, call.clamped, call.sent>>
      /\ call'.next = CreditUnit(call.next, Item) /\ call'.draft = ConvertUnit(Draft, Item)
  BY <1>1, <1>2 DEF Calls
<1>4. call'.events \in Seq(Nat) /\ call'.events # <<>> /\ Positioned' /\ InBatchOrder' /\ NothingDropped'
  BY <1>1, <1>3, Collects
<1>5. TypeOK'
  <2>1. call'.next \in EditStates /\ call'.draft \in Drafts
    BY <1>1, <1>3, CreditTyped, ConvertTyped
  <2>2. call' \in Calls
    <3>1. /\ Append(call.events, call.at) \in Seq(Nat) /\ TRUE \in BOOLEAN
          /\ ConvertUnit(Draft, Item) \in Drafts /\ CreditUnit(call.next, Item) \in EditStates
      BY <1>3, <1>4, <2>1
    <3> QED
      BY <1>1, <1>2, <3>1, CallUpdates, Zenon
  <2> QED
    BY <1>1, <2>2 DEF IInv, TypeOK
<1>6. CreditPays'
  <2> SUFFICES ASSUME ~astray'
               PROVE  /\ ~call'.sent => edit.credit <= tail
                      /\ call'.draft.ok => call'.next.credit <= tail + call'.draft.size
    BY <1>1, <1>3, <1>4 DEF CreditPays
  <2>1. ~call'.sent => edit.credit <= tail
    BY <1>1, <1>3 DEF IInv, CreditPays
  <2>2. Draft.ok => call.next.credit <= tail + Draft.size
    BY <1>1, DraftTyped DEF MustSend, IInv, CreditPays, Drafts, EditStates
  <2>3. ASSUME call'.draft.ok PROVE call'.next.credit <= tail + call'.draft.size
    <3>1. /\ ConvertUnit(Draft, Item).ok
          /\ ~(Item = "lf" /\ Draft.cr /\ ~call.next.cr)
      BY <1>1, <1>3, <2>3
    <3>2. /\ Draft.ok
          /\ ConvertUnit(Draft, Item).size \in {Draft.size, Draft.size + 1}
          /\ CreditUnit(call.next, Item).credit = call.next.credit + 1
               => ConvertUnit(Draft, Item).size = Draft.size + 1
      BY <1>1, <3>1, CreditIsInserted
    <3>3. CreditUnit(call.next, Item).credit \in {call.next.credit, call.next.credit + 1}
      BY <1>1, CreditTyped
    <3>4. Draft.size \in Nat /\ call.next.credit \in Nat
      BY <1>1 DEF Drafts, EditStates
    <3> QED
      BY <1>1, <1>3, <2>2, <3>2, <3>3, <3>4
  <2> QED
    BY <2>1, <2>3
<1> QED
  BY <1>1, <1>4, <1>5, <1>6 DEF IInv, OwnTextKept

LEMMA ScanKeyKeeps == IInv /\ ScanKey => IInv'
<1> SUFFICES ASSUME IInv, ScanKey PROVE IInv'
  OBVIOUS
<1>1. /\ call.path = "scan" /\ More /\ astray' = TRUE
      /\ UNCHANGED <<config, edit, helper, tail, ownErased>>
      /\ call \in Calls
  BY DEF ScanKey, Scanning, IInv, TypeOK
<1>2. call' = [call EXCEPT !.at = @ + 1, !.text = FALSE, !.events = Append(@, call.at)]
  BY DEF ScanKey
<1>3. call'.events \in Seq(Nat) /\ Positioned' /\ InBatchOrder' /\ NothingDropped'
  BY <1>1, <1>2, Collects DEF Calls
<1>4. TypeOK'
  <2>1. Append(call.events, call.at) \in Seq(Nat) /\ FALSE \in BOOLEAN
    BY <1>1, <1>2, <1>3 DEF Calls
  <2>2. call' \in Calls
    BY <1>1, <1>2, <2>1, CallUpdates, Zenon
  <2> QED
    BY <1>1, <2>2 DEF IInv, TypeOK
<1> QED
  BY <1>1, <1>3, <1>4 DEF IInv, OwnTextKept, CreditPays

-----------------------------------------------------------------------------
(* Requests to the helper, and their answers.                              *)

LEMMA CallOutcomes ==
  ASSUME call \in Calls
  PROVE  /\ \A r \in {"sent", "failed"} : [call EXCEPT !.path = "done", !.reply = r] \in Calls
         /\ \A r \in {"sent", "failed"}, a \in Seq(Nat) :
              [call EXCEPT !.path = "done", !.reply = r, !.applied = a] \in Calls
         /\ \A b \in BOOLEAN, s \in Seq(Nat), a \in Seq(Nat) :
              [call EXCEPT !.sent = b, !.events = s, !.applied = a] \in Calls
         /\ \A s \in Seq(Nat), a \in Seq(Nat) : [call EXCEPT !.events = s, !.applied = a] \in Calls
         /\ \A n \in Nat \ {0}, s \in Seq(Nat), c \in SUBSET Nat :
              [call EXCEPT !.path = "keys", !.at = n, !.events = s, !.clamped = c] \in Calls
<1>1. ASSUME NEW r \in {"sent", "failed"}
      PROVE  [call EXCEPT !.path = "done", !.reply = r] \in Calls
  BY DEF Calls
<1>2. ASSUME NEW r \in {"sent", "failed"}, NEW a \in Seq(Nat)
      PROVE  [call EXCEPT !.path = "done", !.reply = r, !.applied = a] \in Calls
  BY DEF Calls
<1>3. ASSUME NEW b \in BOOLEAN, NEW s \in Seq(Nat), NEW a \in Seq(Nat)
      PROVE  [call EXCEPT !.sent = b, !.events = s, !.applied = a] \in Calls
  BY DEF Calls
<1>4. ASSUME NEW s \in Seq(Nat), NEW a \in Seq(Nat)
      PROVE  [call EXCEPT !.events = s, !.applied = a] \in Calls
  BY DEF Calls
<1>5. ASSUME NEW n \in Nat \ {0}, NEW s \in Seq(Nat), NEW c \in SUBSET Nat
      PROVE  [call EXCEPT !.path = "keys", !.at = n, !.events = s, !.clamped = c] \in Calls
  BY DEF Calls
<1> QED
  BY <1>1, <1>2, <1>3, <1>4, <1>5

\* A call that is answered keeps what it did.
LEMMA Answered ==
  ASSUME IInv, NEW r \in {"sent", "failed"}, Answer(r)
  PROVE  /\ call' \in Calls /\ call'.path = "done" /\ UNCHANGED call.applied
         /\ Positioned' /\ InBatchOrder' /\ NothingDropped'
<1>1. call \in Calls /\ call' = [call EXCEPT !.path = "done", !.reply = r]
  BY DEF Answer, IInv, TypeOK
<1>2. call' \in Calls
  BY <1>1, CallOutcomes
<1>3. /\ call'.path = "done"
      /\ UNCHANGED <<call.at, call.batch, call.events, call.applied, call.text, call.sent>>
  BY <1>1 DEF Calls
<1>4. Positioned'
  BY <1>3 DEF IInv, Positioned
<1>5. InBatchOrder' /\ NothingDropped'
  BY <1>3 DEF IInv, InBatchOrder, NothingDropped
<1> QED
  BY <1>2, <1>3, <1>4, <1>5

\* A call of which nothing was sent starts over as key chords.
LEMMA StartsOver ==
  ASSUME IInv, call.path = "scan", ~call.sent, FallBackToKeys
  PROVE  /\ call' \in Calls /\ call'.path = "keys"
         /\ Positioned' /\ InBatchOrder' /\ NothingDropped'
<1>1. call \in Calls /\ call.applied = <<>>
  BY DEF IInv, TypeOK, Positioned
<1>2. call' \in Calls
  <2>1. 1 \in Nat \ {0} /\ <<>> \in Seq(Nat) /\ {} \in SUBSET Nat
    OBVIOUS
  <2> QED
    BY <1>1, <2>1, CallOutcomes, Zenon DEF FallBackToKeys
<1>3. /\ call'.path = "keys" /\ call'.at = 1 /\ call'.events = <<>>
      /\ UNCHANGED <<call.batch, call.applied, call.text, call.sent>>
  BY <1>1 DEF FallBackToKeys, Calls
<1>4. call'.at <= Len(call'.batch) + 1
  BY <1>1, <1>3 DEF Calls
<1>5. Positioned'
  BY <1>1, <1>3, <1>4, NothingYet DEF Positioned
<1>6. InBatchOrder' /\ NothingDropped'
  BY <1>1, <1>3, NothingYet DEF InBatchOrder, NothingDropped
<1> QED
  BY <1>2, <1>3, <1>5, <1>6

\* What a segment brings follows what took effect.
LEMMA SegmentFollows ==
  ASSUME IInv, call.path \in {"scan", "inject"}
  PROVE  /\ call.applied \o call.events \in Seq(Nat)
         /\ Increasing(call.applied \o call.events)
         /\ Range(call.applied \o call.events) = Range(call.applied) \cup Range(call.events)
         /\ \A k \in DOMAIN (call.applied \o call.events) :
              (call.applied \o call.events)[k] < call.at
<1>1. /\ call.applied \in Seq(Nat) /\ call.events \in Seq(Nat) /\ call.at \in Nat
      /\ Increasing(call.applied) /\ Increasing(call.events)
      /\ \A k \in DOMAIN call.applied, l \in DOMAIN call.events : call.applied[k] < call.events[l]
      /\ \A k \in DOMAIN call.applied : call.applied[k] < call.at
  BY DEF IInv, TypeOK, Calls, InBatchOrder
<1>2. \A l \in DOMAIN call.events : call.events[l] < call.at
  BY <1>1 DEF IInv, Positioned
<1>3. \A k \in DOMAIN (call.applied \o call.events) :
        (call.applied \o call.events)[k] < call.at
  BY <1>1, <1>2, Follows
<1> QED
  BY <1>1, <1>3, Follows

\* Something was scanned before anything was collected.
LEMMA BeyondFirst ==
  ASSUME IInv, call.events # <<>>
  PROVE  call.at > 1
<1>1. call.events \in Seq(Nat) /\ call.at \in Nat
  BY DEF IInv, TypeOK, Calls
<1>2. 1 \in DOMAIN call.events
  BY <1>1
<1>3. call.events[1] \in 1..(call.at - 1)
  BY <1>2 DEF IInv, Positioned
<1> QED
  BY <1>1, <1>3

LEMMA ClipboardUnconvertibleKeeps == IInv /\ ClipboardUnconvertible => IInv'
<1> SUFFICES ASSUME IInv, ClipboardUnconvertible PROVE IInv'
  OBVIOUS
<1>1. call.path = "scan" /\ UNCHANGED <<config, edit, helper, tail, ownErased>>
  BY DEF ClipboardUnconvertible, Scanning
<1>2. CASE call.sent
  <2>1. Answer("failed") /\ astray' = TRUE
    BY <1>2 DEF ClipboardUnconvertible
  <2> QED
    BY <1>1, <2>1, Answered DEF IInv, TypeOK, CreditPays, OwnTextKept
<1>3. CASE ~call.sent
  <2>1. FallBackToKeys /\ UNCHANGED astray
    BY <1>3 DEF ClipboardUnconvertible
  <2>2. ~astray => edit.credit <= tail
    BY <1>1, <1>3 DEF IInv, CreditPays
  <2>3. /\ call' \in Calls /\ call'.path = "keys"
        /\ Positioned' /\ InBatchOrder' /\ NothingDropped'
    BY <1>1, <1>3, <2>1, StartsOver
  <2>4. CreditPays'
    BY <1>1, <2>1, <2>2, <2>3 DEF CreditPays
  <2> QED
    BY <1>1, <2>1, <2>3, <2>4 DEF IInv, TypeOK, OwnTextKept
<1> QED
  BY <1>2, <1>3

LEMMA SegmentRefusedKeeps == IInv /\ SegmentRefused => IInv'
<1> SUFFICES ASSUME IInv, SegmentRefused PROVE IInv'
  OBVIOUS
<1>1. /\ call.path = "scan" /\ edit' = Blank /\ UNCHANGED <<config, tail, ownErased, astray>>
      /\ helper \in [high : BOOLEAN, cr : BOOLEAN] /\ tail \in Nat
  BY DEF SegmentRefused, MustSend, screen, IInv, TypeOK
<1>2. helper' \in [high : BOOLEAN, cr : BOOLEAN]
  BY <1>1, Starts DEF SegmentRefused, Refused
<1>3. edit' \in EditStates /\ edit'.credit <= tail'
  BY <1>1, Starts
<1>4. /\ call' \in Calls /\ call'.path \in {"done", "keys"}
      /\ Positioned' /\ InBatchOrder' /\ NothingDropped'
  <2>1. CASE call.sent
    BY <2>1, Answered DEF SegmentRefused
  <2>2. CASE ~call.sent
    BY <1>1, <2>2, StartsOver DEF SegmentRefused
  <2> QED
    BY <2>1, <2>2
<1>5. CreditPays'
  BY <1>3, <1>4 DEF CreditPays
<1> QED
  BY <1>1, <1>2, <1>3, <1>4, <1>5 DEF IInv, TypeOK, OwnTextKept

LEMMA TextSentKeeps == IInv /\ TextSent => IInv'
<1> SUFFICES ASSUME IInv, TextSent PROVE IInv'
  OBVIOUS
<1>1. /\ call.path = "scan" /\ call.text /\ call.draft.ok /\ call.events # <<>>
      /\ helper' = [high |-> call.draft.high, cr |-> call.draft.cr]
      /\ tail' = tail + call.draft.size
      /\ UNCHANGED <<config, edit, ownErased, astray>>
      /\ call \in Calls /\ call.draft \in Drafts /\ tail \in Nat
  BY DEF TextSent, MustSend, IInv, TypeOK, Calls
<1>2. call' = [call EXCEPT !.sent = TRUE, !.events = <<>>, !.applied = call.applied \o call.events]
  BY DEF TextSent
<1>3. /\ call'.path = "scan" /\ call'.sent /\ call'.text /\ call'.events = <<>>
      /\ call'.applied = call.applied \o call.events
      /\ UNCHANGED <<call.batch, call.at, call.next, call.clamped>>
  BY <1>1, <1>2 DEF Calls
<1>4. TypeOK'
  <2>1. TRUE \in BOOLEAN /\ <<>> \in Seq(Nat) /\ call.applied \o call.events \in Seq(Nat)
    BY <1>1, SegmentFollows
  <2>2. call' \in Calls
    BY <1>1, <1>2, <2>1, CallOutcomes, Zenon
  <2>3. helper' \in [high : BOOLEAN, cr : BOOLEAN] /\ tail' \in Nat
    BY <1>1 DEF Drafts
  <2> QED
    BY <1>1, <2>2, <2>3 DEF IInv, TypeOK
<1>5. Positioned'
  BY <1>1, <1>3, NothingYet, BeyondFirst DEF IInv, Positioned
<1>6. InBatchOrder'
  BY <1>1, <1>3, SegmentFollows, NothingYet DEF InBatchOrder
<1>7. NothingDropped'
  BY <1>1, <1>3, SegmentFollows DEF IInv, NothingDropped
<1>8. CreditPays'
  BY <1>1, <1>3 DEF IInv, CreditPays
<1> QED
  BY <1>1, <1>4, <1>5, <1>6, <1>7, <1>8 DEF IInv, OwnTextKept

LEMMA TextFailedKeeps == IInv /\ TextFailed => IInv'
<1> SUFFICES ASSUME IInv, TextFailed PROVE IInv'
  OBVIOUS
<1>1. /\ call.path = "scan" /\ edit' = Blank /\ UNCHANGED <<config, ownErased, astray>>
      /\ helper \in [high : BOOLEAN, cr : BOOLEAN] /\ tail \in Nat
      /\ call \in Calls /\ call.draft \in Drafts
  BY DEF TextFailed, MustSend, IInv, TypeOK, Calls
<1>2. helper' \in [high : BOOLEAN, cr : BOOLEAN]
  <2>1. CASE helper' = Fresh
    BY <2>1, Starts
  <2>2. CASE helper' = [helper EXCEPT !.high = call.draft.high]
    BY <1>1, <2>2 DEF Drafts
  <2> QED
    BY <2>1, <2>2 DEF TextFailed
<1>3. /\ tail' \in Nat /\ call' \in Calls /\ call'.path = "done"
      /\ Positioned' /\ InBatchOrder' /\ NothingDropped'
  <2>1. CASE /\ tail' = tail + call.draft.size
             /\ call' = [call EXCEPT !.path = "done", !.reply = "failed",
                                     !.applied = call.applied \o call.events]
    <3>1. call' \in Calls
      <4>1. "failed" \in {"sent", "failed"} /\ call.applied \o call.events \in Seq(Nat)
        BY <1>1, SegmentFollows
      <4> QED
        BY <1>1, <2>1, <4>1, CallOutcomes, Zenon
    <3>2. /\ call'.path = "done" /\ call'.applied = call.applied \o call.events
          /\ UNCHANGED <<call.at, call.batch, call.events, call.text, call.sent>>
      BY <1>1, <2>1 DEF Calls
    <3>3. Positioned' /\ NothingDropped'
      BY <3>2 DEF IInv, Positioned, NothingDropped
    <3>4. InBatchOrder'
      BY <1>1, <3>2, SegmentFollows DEF IInv, InBatchOrder
    <3>5. tail' \in Nat
      BY <1>1, <2>1 DEF Drafts
    <3> QED
      BY <3>1, <3>2, <3>3, <3>4, <3>5
  <2>2. CASE UNCHANGED tail /\ Answer("failed")
    BY <1>1, <2>2, Answered
  <2> QED
    BY <2>1, <2>2 DEF TextFailed
<1>4. edit' \in EditStates /\ edit'.credit <= tail'
  BY <1>1, <1>3, Starts
<1>5. CreditPays'
  BY <1>3, <1>4 DEF CreditPays
<1> QED
  BY <1>1, <1>2, <1>3, <1>4, <1>5 DEF IInv, TypeOK, OwnTextKept

LEMMA InjectKeyKeeps == IInv /\ InjectKey => IInv'
<1> SUFFICES ASSUME IInv, InjectKey PROVE IInv'
  OBVIOUS
<1> DEFINE first == Head(call.events)
           kind == call.batch[first]
<1>1. /\ call.path = "inject" /\ call.events # <<>> /\ ~call.text
      /\ UNCHANGED <<config, edit, helper, astray>>
      /\ tail' = AfterKey(kind)
      /\ ownErased' = (ownErased \/ (kind \in Backspaces /\ tail = 0 /\ ~astray))
      /\ call \in Calls /\ tail \in Nat /\ call.events \in Seq(Nat) /\ call.applied \in Seq(Nat)
      /\ call.at \in Nat /\ call.next.credit \in Nat
  BY DEF InjectKey, IInv, TypeOK, Calls, Positioned, EditStates
<1>2. call' = [call EXCEPT !.events = Tail(call.events), !.applied = Append(call.applied, first)]
  BY DEF InjectKey
<1>3. /\ call'.path = "inject" /\ ~call'.text
      /\ call'.events = Tail(call.events) /\ call'.applied = Append(call.applied, first)
      /\ UNCHANGED <<call.batch, call.at, call.next, call.clamped, call.sent>>
  BY <1>1, <1>2 DEF Calls
<1>4. /\ first \in Nat /\ first = call.events[1] /\ 1 \in DOMAIN call.events
      /\ Tail(call.events) \in Seq(Nat) /\ Len(Tail(call.events)) = Len(call.events) - 1
      /\ Len(call.events) >= 1 /\ Range(call.events) = {first} \cup Range(Tail(call.events))
      /\ \A k \in DOMAIN Tail(call.events) :
           k + 1 \in DOMAIN call.events /\ Tail(call.events)[k] = call.events[k + 1]
      /\ Increasing(Tail(call.events)) /\ \A k \in DOMAIN Tail(call.events) : first < Tail(call.events)[k]
  BY <1>1, Leaves DEF IInv, InBatchOrder
<1>5. /\ \A k \in DOMAIN call.applied : call.applied[k] < first
      /\ first < call.at
      /\ \A k \in DOMAIN call.events : call.events[k] \in 1..(call.at - 1)
  BY <1>1, <1>4 DEF IInv, InBatchOrder, Positioned
<1>6. /\ Append(call.applied, first) \in Seq(Nat) /\ Increasing(Append(call.applied, first))
      /\ Range(Append(call.applied, first)) = Range(call.applied) \cup {first}
      /\ \A k \in DOMAIN Append(call.applied, first) :
           \/ k \in DOMAIN call.applied /\ Append(call.applied, first)[k] = call.applied[k]
           \/ Append(call.applied, first)[k] = first
  BY <1>1, <1>4, <1>5, Joins DEF IInv, InBatchOrder
<1> HIDE DEF first, kind
<1>7. call' \in Calls
  BY <1>1, <1>2, <1>4, <1>6, CallOutcomes, Zenon
<1>8. Positioned'
  <2>1. \A k \in DOMAIN call'.events : call'.events[k] \in 1..(call'.at - 1)
    BY <1>3, <1>4, <1>5
  <2> QED
    BY <1>1, <1>3, <2>1 DEF IInv, Positioned
<1>9. InBatchOrder'
  <2>1. \A k \in DOMAIN call'.applied : call'.applied[k] <= first
    <3>1. \A k \in DOMAIN Append(call.applied, first) : Append(call.applied, first)[k] <= first
      <4> TAKE k \in DOMAIN Append(call.applied, first)
      <4>1. CASE k \in DOMAIN call.applied /\ Append(call.applied, first)[k] = call.applied[k]
        <5>1. call.applied[k] \in Nat /\ call.applied[k] < first
          BY <1>1, <1>5, <4>1
        <5> QED
          BY <1>4, <4>1, <5>1
      <4>2. CASE Append(call.applied, first)[k] = first
        BY <1>4, <4>2
      <4> QED
        BY <1>6, <4>1, <4>2
    <3> QED
      BY <1>3, <3>1
  <2>2. /\ \A k \in DOMAIN call'.applied : call'.applied[k] \in Nat
        /\ \A l \in DOMAIN call'.events : call'.events[l] \in Nat /\ first < call'.events[l]
    <3>1. call'.applied \in Seq(Nat) /\ call'.events \in Seq(Nat)
      BY <1>3, <1>4, <1>6
    <3>2. \A l \in DOMAIN call'.events : first < call'.events[l]
      BY <1>3, <1>4
    <3> QED
      BY <3>1, <3>2
  <2>3. /\ \A k \in DOMAIN call'.applied : call'.applied[k] < call'.at
        /\ \A k \in DOMAIN call'.applied, l \in DOMAIN call'.events :
             call'.applied[k] < call'.events[l]
    <3>1. first \in Nat /\ call'.at \in Nat /\ first < call'.at
      BY <1>1, <1>3, <1>4, <1>5
    <3> QED
      BY <2>1, <2>2, <3>1
  <2> QED
    BY <1>3, <1>4, <1>6, <2>3 DEF InBatchOrder
<1>10. NothingDropped'
  BY <1>1, <1>3, <1>4, <1>6 DEF IInv, NothingDropped
<1>11. ASSUME ~astray
       PROVE  /\ kind \in Backspaces /\ tail > 0 /\ tail' = tail - 1
              /\ call'.next.credit + Len(call'.events) <= tail'
              /\ \A k \in DOMAIN call'.events : call'.batch[call'.events[k]] \in Backspaces
  <2>1. /\ \A k \in DOMAIN call.events : call.batch[call.events[k]] \in Backspaces
        /\ call.next.credit + Len(call.events) <= tail
    BY <1>1, <1>11 DEF IInv, CreditPays
  <2>2. kind \in Backspaces
    BY <1>4, <2>1 DEF kind
  <2>3. Len(call.events) \in Nat /\ tail > 0
    BY <1>1, <1>4, <2>1
  <2>4. tail' = tail - 1
    BY <1>1, <2>2, <2>3, AfterKeyTyped
  <2>5. call'.next.credit + Len(call'.events) <= tail'
    <3>1. call'.next.credit = call.next.credit /\ Len(call'.events) = Len(call.events) - 1
      BY <1>3, <1>4
    <3> QED
      BY <1>1, <2>1, <2>3, <2>4, <3>1
  <2>6. \A k \in DOMAIN call'.events : call'.batch[call'.events[k]] \in Backspaces
    BY <1>3, <1>4, <2>1
  <2> QED
    BY <2>2, <2>3, <2>4, <2>5, <2>6
<1>12. TypeOK' /\ OwnTextKept' /\ CreditPays'
  <2>1. tail' \in Nat
    BY <1>1, AfterKeyTyped
  <2>2. OwnTextKept'
    <3>1. ~ownErased /\ (~astray => tail # 0)
      BY <1>1, <1>11 DEF IInv, OwnTextKept
    <3> QED
      BY <1>1, <3>1, Zenon DEF OwnTextKept
  <2>3. TypeOK'
    BY <1>1, <1>7, <2>1 DEF IInv, TypeOK
  <2>4. CreditPays'
    BY <1>1, <1>3, <1>11 DEF CreditPays
  <2> QED
    BY <2>2, <2>3, <2>4
<1> QED
  BY <1>8, <1>9, <1>10, <1>12 DEF IInv

-----------------------------------------------------------------------------
(* Key chords.                                                             *)

LEMMA TypeItemKeeps == IInv /\ TypeItem => IInv'
<1> SUFFICES ASSUME IInv, TypeItem PROVE IInv'
  OBVIOUS
<1> DEFINE next == IF Item \in Units THEN CreditUnit(call.next, Item) ELSE call.next
<1>1. /\ call.path \in {"direct", "rdp"} /\ More
      /\ UNCHANGED <<config, edit, helper, ownErased>>
      /\ tail' = AfterKey(Item)
      /\ astray' = (astray \/ (Unicode(call.batch) /\ Item \in Backspaces \cup Keys))
      /\ call \in Calls /\ tail \in Nat /\ call.applied \in Seq(Nat)
      /\ call.at \in Nat \ {0} /\ call.next \in EditStates /\ call.batch \in Seq(Items)
      /\ Item \in Items /\ call.at \in DOMAIN call.batch
  BY ItemTyped DEF TypeItem, IInv, TypeOK, Calls
<1>2. call' = [call EXCEPT !.at = call.at + 1, !.applied = Append(call.applied, call.at),
                           !.next = next]
  BY DEF TypeItem
<1>3. /\ call'.path = call.path /\ call'.at = call.at + 1
      /\ call'.applied = Append(call.applied, call.at) /\ call'.next = next
      /\ UNCHANGED <<call.batch, call.events, call.text, call.clamped, call.sent>>
  BY <1>1, <1>2 DEF Calls
<1>4. next \in EditStates
  BY <1>1, CreditTyped
<1> HIDE DEF next
<1>5. /\ call.events = <<>> /\ Translatable(call.batch)
      /\ Increasing(call.applied)
      /\ \A k \in DOMAIN call.applied : call.applied[k] < call.at
  BY <1>1 DEF IInv, Positioned, InBatchOrder
<1>6. /\ Append(call.applied, call.at) \in Seq(Nat)
      /\ Increasing(Append(call.applied, call.at))
      /\ Range(Append(call.applied, call.at)) = Range(call.applied) \cup {call.at}
      /\ \A k \in DOMAIN Append(call.applied, call.at) :
           \/ k \in DOMAIN call.applied /\ Append(call.applied, call.at)[k] = call.applied[k]
           \/ Append(call.applied, call.at)[k] = call.at
  BY <1>1, <1>5, Joins
<1>7. TypeOK'
  <2>1. call.at + 1 \in Nat \ {0}
    BY <1>1
  <2>2. call' \in Calls
    BY <1>1, <1>2, <1>4, <1>6, <2>1, CallUpdates, Zenon
  <2>3. tail' \in Nat /\ astray' \in BOOLEAN
    BY <1>1, AfterKeyTyped
  <2> QED
    BY <1>1, <2>2, <2>3 DEF IInv, TypeOK
<1>8. Positioned'
  BY <1>1, <1>3, <1>5, NothingYet DEF IInv, Positioned, More
<1>9. InBatchOrder'
  <2>1. \A k \in DOMAIN call'.applied : call'.applied[k] < call'.at
    <3>1. \A k \in DOMAIN Append(call.applied, call.at) : Append(call.applied, call.at)[k] < call.at + 1
      <4> TAKE k \in DOMAIN Append(call.applied, call.at)
      <4>1. Append(call.applied, call.at)[k] \in Nat
        BY <1>6
      <4>2. Append(call.applied, call.at)[k] <= call.at
        <5>1. CASE k \in DOMAIN call.applied /\ Append(call.applied, call.at)[k] = call.applied[k]
          <6>1. call.applied[k] < call.at
            BY <1>5, <5>1
          <6> QED
            BY <1>1, <4>1, <5>1, <6>1
        <5>2. CASE Append(call.applied, call.at)[k] = call.at
          BY <1>1, <5>2
        <5> QED
          BY <1>6, <5>1, <5>2
      <4> QED
        BY <1>1, <4>1, <4>2
    <3> QED
      BY <1>3, <3>1
  <2> QED
    BY <1>3, <1>5, <1>6, <2>1, NothingYet DEF InBatchOrder
<1>10. NothingDropped'
  <2>1. \A i \in 1..(call.at - 1) :
          i \in Range(call.applied) \/ i \in Range(call.events) \/ i \in call.clamped
    BY <1>1 DEF IInv, NothingDropped
  <2>2. \A i \in 1..(call'.at - 1) : i \in 1..(call.at - 1) \/ i = call.at
    BY <1>1, <1>3
  <2> QED
    BY <1>3, <1>6, <2>1, <2>2 DEF NothingDropped
<1>11. ASSUME ~astray', Unicode(call.batch) PROVE next.credit <= tail'
  <2>1. ~astray /\ Item \in Units
    BY <1>1, <1>11 DEF Items
  <2>2. Item \in Typed
    BY <1>1, <1>5, <2>1 DEF Translatable, Has, Item, Units, Typed
  <2>3. call.next.credit <= tail
    BY <1>1, <1>11, <2>1 DEF IInv, CreditPays
  <2> QED
    BY <1>1, <2>1, <2>2, <2>3, CreditIsTyped DEF next
<1>12. CreditPays'
  <2>1. call'.at # 1 /\ call'.path \in {"direct", "rdp"}
    BY <1>1, <1>3
  <2> QED
    BY <1>3, <1>11, <2>1 DEF CreditPays
<1> QED
  BY <1>1, <1>7, <1>8, <1>9, <1>10, <1>12 DEF IInv, OwnTextKept

-----------------------------------------------------------------------------
(* Where a call begins, and the steps that only choose or report.          *)

LEMMA AcceptKeeps == IInv /\ Accept => IInv'
<1> SUFFICES ASSUME IInv, Accept PROVE IInv'
  OBVIOUS
<1>1. /\ call.path = "idle" /\ UNCHANGED <<config, edit, helper, tail, ownErased, astray>>
      /\ edit \in EditStates
  BY DEF Accept, screen, IInv, TypeOK
<1>2. PICK batch \in Batches :
        call' = [NoCall EXCEPT !.path = IF UsesClipboard(batch) THEN "scan" ELSE "keys",
                               !.batch = batch, !.next = edit]
  BY DEF Accept
<1>3. batch \in Seq(Items)
  BY ConstantsAssumption DEF Batches
<1>4. /\ call'.path \in {"scan", "keys"} /\ call'.at = 1 /\ call'.events = <<>>
      /\ call'.applied = <<>> /\ call'.batch = batch /\ call'.next = edit
      /\ call'.sent = FALSE /\ call'.text = FALSE /\ call'.clamped = {}
  BY <1>2 DEF NoCall
<1>5. call' \in Calls
  <2>1. \A p \in {"scan", "keys"} : [NoCall EXCEPT !.path = p, !.batch = batch, !.next = edit] \in Calls
    <3> TAKE p \in {"scan", "keys"}
    <3>1. NoCall \in Calls
      BY Starts
    <3> QED
      BY <1>1, <1>3, <3>1 DEF Calls
  <2> QED
    BY <1>2, <2>1
<1>6. edit.credit <= tail \/ astray
  BY <1>1 DEF IInv, CreditPays
<1>7. TypeOK'
  BY <1>1, <1>5 DEF IInv, TypeOK
<1>8. Positioned'
  BY <1>3, <1>4, NothingYet DEF Positioned
<1>9. InBatchOrder' /\ NothingDropped'
  BY <1>4, NothingYet DEF InBatchOrder, NothingDropped
<1>10. CreditPays'
  <2>1. edit.credit \in Nat /\ tail \in Nat
    BY <1>1 DEF IInv, TypeOK, EditStates
  <2> QED
    BY <1>1, <1>4, <1>6, <2>1, NothingYet DEF CreditPays
<1> QED
  BY <1>1, <1>7, <1>8, <1>9, <1>10 DEF IInv, OwnTextKept

\* The answer is reported; between calls the client leaves or pauses.
LEMMA BetweenCallsKeeps == IInv /\ (Respond \/ NewClient \/ IdleGap) => IInv'
<1> SUFFICES ASSUME IInv, Respond \/ NewClient \/ IdleGap PROVE IInv'
  OBVIOUS
<1>1. /\ call'.path = "idle" /\ call' = NoCall
      /\ UNCHANGED <<config, helper, ownErased>>
      /\ edit' \in EditStates /\ tail' \in Nat /\ astray' \in BOOLEAN
      /\ ~astray' => edit'.credit <= tail'
  <2>1. CASE Respond
    BY <2>1 DEF Respond, screen, NoCall, IInv, TypeOK, CreditPays
  <2>2. CASE NewClient \/ IdleGap
    <3>1. /\ call.path = "idle" /\ UNCHANGED <<config, helper, ownErased, call>>
          /\ edit' = Blank /\ tail' = 0 /\ astray' = FALSE
      BY <2>2 DEF NewClient, IdleGap
    <3>2. call = NoCall
      BY <3>1 DEF IInv, Positioned
    <3>3. Blank \in EditStates /\ Blank.credit <= 0
      BY Starts
    <3> QED
      BY <3>1, <3>2, <3>3
  <2> QED
    BY <2>1, <2>2
<1>2. TypeOK'
  BY <1>1, Starts DEF IInv, TypeOK
<1>3. Positioned' /\ InBatchOrder' /\ NothingDropped'
  BY <1>1, NothingYet DEF NoCall, Positioned, InBatchOrder, NothingDropped
<1>4. CreditPays'
  BY <1>1 DEF CreditPays
<1> QED
  BY <1>1, <1>2, <1>3, <1>4 DEF IInv, OwnTextKept

\* Every answer leaves an allowance that is covered.
LEMMA AnswersKeep ==
  /\ IInv
  /\ \/ RelayFocusFails \/ KeysFailed \/ ClipboardDone \/ Untranslatable
     \/ KeysDone \/ HelperFails \/ SendInputShort \/ DesktopFocusFails
  => IInv'
<1> SUFFICES ASSUME IInv,
                    \/ RelayFocusFails \/ KeysFailed \/ ClipboardDone \/ Untranslatable
                    \/ KeysDone \/ HelperFails \/ SendInputShort \/ DesktopFocusFails
             PROVE  IInv'
  OBVIOUS
<1>1. /\ edit \in EditStates /\ helper \in [high : BOOLEAN, cr : BOOLEAN]
      /\ tail \in Nat /\ astray \in BOOLEAN /\ call \in Calls /\ call.next \in EditStates
      /\ call.at \in Nat
  BY DEF IInv, TypeOK, Calls
<1>2. /\ Answer("sent") \/ Answer("failed")
      /\ UNCHANGED <<config, tail, ownErased>>
      /\ helper' \in [high : BOOLEAN, cr : BOOLEAN] /\ astray' \in BOOLEAN
      /\ edit' \in {edit, call.next, Blank}
  BY <1>1, Starts
     DEF RelayFocusFails, KeysFailed, ClipboardDone, Untranslatable, KeysDone, HelperFails,
         SendInputShort, DesktopFocusFails, screen
<1>3. ~astray' => edit'.credit <= tail
  <2> SUFFICES ASSUME ~astray' PROVE edit'.credit <= tail
    OBVIOUS
  <2>1. CASE RelayFocusFails
    <3>1. ~call.sent
      BY <2>1 DEF RelayFocusFails, IInv, Positioned
    <3> QED
      BY <2>1, <3>1 DEF RelayFocusFails, screen, IInv, CreditPays
  <2>2. CASE KeysFailed \/ HelperFails
    BY <1>1, <2>2, Starts DEF KeysFailed, HelperFails
  <2>3. CASE ClipboardDone
    BY <2>3 DEF ClipboardDone, screen, IInv, CreditPays
  <2>4. CASE Untranslatable
    BY <2>4 DEF Untranslatable, screen, IInv, CreditPays
  <2>5. CASE KeysDone
    BY <1>1, <2>5, Starts DEF KeysDone, screen, IInv, CreditPays
  <2>6. CASE SendInputShort
    <3>1. astray' = (astray \/ call.at > 1) /\ call.at \in Nat \ {0}
      BY <2>6 DEF SendInputShort, IInv, TypeOK, Calls
    <3>2. ~astray /\ ~(call.at > 1)
      BY <3>1
    <3>3. call.at = 1
      BY <3>1, <3>2
    <3> QED
      BY <2>6, <3>2, <3>3 DEF SendInputShort, IInv, CreditPays
  <2>7. CASE DesktopFocusFails
    BY <2>7 DEF DesktopFocusFails, screen, IInv, CreditPays
  <2> QED
    BY <2>1, <2>2, <2>3, <2>4, <2>5, <2>6, <2>7
<1>4. /\ call' \in Calls /\ call'.path = "done"
      /\ Positioned' /\ InBatchOrder' /\ NothingDropped'
  BY <1>2, Answered
<1>5. edit' \in EditStates
  BY <1>1, <1>2, Starts
<1>6. TypeOK'
  BY <1>1, <1>2, <1>4, <1>5 DEF IInv, TypeOK
<1>7. CreditPays'
  BY <1>2, <1>3, <1>4 DEF CreditPays
<1> QED
  BY <1>2, <1>4, <1>6, <1>7 DEF IInv, OwnTextKept

\* A request for keys goes out, or has been served.
LEMMA RequestsKeep == IInv /\ (KeysRequested \/ KeysSent) => IInv'
<1> SUFFICES ASSUME IInv, KeysRequested \/ KeysSent PROVE IInv'
  OBVIOUS
<1>1. /\ call \in Calls /\ UNCHANGED <<config, edit, helper, tail, ownErased, astray>>
  BY DEF KeysRequested, KeysSent, screen, IInv, TypeOK
<1>2. CASE KeysRequested
  <2>1. /\ call.path = "scan" /\ call.events # <<>> /\ ~call.text
        /\ call' = [call EXCEPT !.path = "inject"]
    BY <1>2 DEF KeysRequested, MustSend
  <2>2. /\ call' \in Calls /\ call'.path = "inject" /\ call'.text = call.text
        /\ UNCHANGED <<call.batch, call.at, call.events, call.next, call.applied, call.clamped,
                       call.sent>>
    BY <1>1, <2>1 DEF Calls
  <2>3. TypeOK' /\ Positioned'
    BY <1>1, <2>1, <2>2, BeyondFirst DEF IInv, TypeOK, Positioned
  <2>4. InBatchOrder' /\ NothingDropped' /\ CreditPays'
    BY <1>1, <2>1, <2>2 DEF IInv, InBatchOrder, NothingDropped, CreditPays
  <2> QED
    BY <1>1, <2>3, <2>4 DEF IInv, OwnTextKept
<1>3. CASE KeysSent
  <2>1. /\ call.path = "inject" /\ call.events = <<>>
        /\ call' = [call EXCEPT !.path = "scan", !.sent = TRUE]
    BY <1>3 DEF KeysSent
  <2>2. /\ call' \in Calls /\ call'.path = "scan" /\ call'.sent = TRUE /\ call'.text = call.text
        /\ UNCHANGED <<call.batch, call.at, call.events, call.next, call.applied, call.clamped>>
    BY <1>1, <2>1 DEF Calls
  <2>3. TypeOK' /\ Positioned'
    BY <1>1, <2>1, <2>2 DEF IInv, TypeOK, Positioned
  <2>4. InBatchOrder' /\ NothingDropped'
    BY <1>1, <2>1, <2>2 DEF IInv, InBatchOrder, NothingDropped
  <2>5. CreditPays'
    <3>1. call.next.credit \in Nat /\ tail \in Nat
      BY <1>1 DEF IInv, TypeOK, Calls, EditStates
    <3> QED
      BY <1>1, <2>1, <2>2, <3>1, NothingYet DEF IInv, CreditPays, Positioned
  <2> QED
    BY <1>1, <2>3, <2>4, <2>5 DEF IInv, OwnTextKept
<1> QED
  BY <1>2, <1>3

\* The key route is chosen.
LEMMA RoutesKeep == IInv /\ (HelperTakesPart \/ HelperTakesNoPart) => IInv'
<1> SUFFICES ASSUME IInv, HelperTakesPart \/ HelperTakesNoPart PROVE IInv'
  OBVIOUS
<1>1. /\ call \in Calls /\ call.path = "keys" /\ Translatable(call.batch)
      /\ UNCHANGED <<config, edit, tail, ownErased, astray>>
      /\ helper' \in [high : BOOLEAN, cr : BOOLEAN]
      /\ edit \in EditStates /\ tail \in Nat
  BY Starts DEF HelperTakesPart, HelperTakesNoPart, screen, IInv, TypeOK
<1>2. PICK route \in {"direct", "rdp"} : call' = [call EXCEPT !.path = route, !.next = edit]
  BY DEF HelperTakesPart, HelperTakesNoPart, TakeRoute
<1>3. /\ call' \in Calls /\ call'.path \in {"direct", "rdp"} /\ call'.next = edit
      /\ UNCHANGED <<call.batch, call.at, call.events, call.applied, call.text, call.clamped,
                     call.sent>>
  BY <1>1, <1>2 DEF Calls
<1>4. /\ call.at = 1 /\ call.applied = <<>> /\ call.events = <<>>
      /\ call.at <= Len(call.batch) + 1 /\ ~call.sent
      /\ ~astray => edit.credit <= tail
  BY <1>1 DEF IInv, Positioned, CreditPays
<1>5. TypeOK'
  BY <1>1, <1>3 DEF IInv, TypeOK
<1>6. Positioned'
  BY <1>1, <1>3, <1>4, NothingYet DEF Positioned
<1>7. InBatchOrder' /\ NothingDropped'
  BY <1>3, <1>4, NothingYet DEF InBatchOrder, NothingDropped
<1>8. CreditPays'
  BY <1>1, <1>3, <1>4 DEF CreditPays
<1> QED
  BY <1>1, <1>5, <1>6, <1>7, <1>8 DEF IInv, OwnTextKept

-----------------------------------------------------------------------------
(* The invariant, and what it says.                                        *)

LEMMA InitIInv == Init => IInv
<1> SUFFICES ASSUME Init PROVE IInv
  OBVIOUS
<1>1. TypeOK
  BY Starts DEF Init, TypeOK
<1>2. Positioned /\ InBatchOrder /\ NothingDropped
  BY NothingYet DEF Init, NoCall, Positioned, InBatchOrder, NothingDropped
<1>3. CreditPays
  BY Starts DEF Init, NoCall, CreditPays
<1> QED
  BY <1>1, <1>2, <1>3 DEF IInv, OwnTextKept, Init

LEMMA StepIInv == IInv /\ [Next]_vars => IInv'
<1> SUFFICES ASSUME IInv, [Next]_vars PROVE IInv'
  OBVIOUS
<1>1. CASE UNCHANGED vars
  BY <1>1 DEF vars, IInv, TypeOK, Positioned, InBatchOrder, NothingDropped, CreditPays, OwnTextKept
<1>2. CASE Accept
  BY <1>2, AcceptKeeps
<1>3. CASE ClipboardRoute
  BY <1>3, AnswersKeep, ScanBackspaceKeeps, ScanTextKeeps, ScanKeyKeeps,
     ClipboardUnconvertibleKeeps, TextSentKeeps, TextFailedKeeps, RequestsKeep,
     InjectKeyKeeps, SegmentRefusedKeeps DEF ClipboardRoute
<1>4. CASE KeyRoute
  BY <1>4, AnswersKeep, RoutesKeep, TypeItemKeeps DEF KeyRoute
<1>5. CASE Respond \/ NewClient \/ IdleGap
  BY <1>5, BetweenCallsKeeps
<1> QED
  BY <1>1, <1>2, <1>3, <1>4, <1>5 DEF Next

\* The invariant holds of every behaviour.
THEOREM InductiveInvariant == Spec => []IInv
BY InitIInv, StepIInv, PTL DEF Spec

\* The broker's and the helper's variables keep their types.
THEOREM TypeCorrect == Spec => []TypeOK
<1>1. IInv => TypeOK
  BY DEF IInv
<1> QED
  BY <1>1, InductiveInvariant, PTL

\* While credit and screen agree, revisions on the clipboard route keep to the
\* client's own text (send_x11_clipboard_text).
THEOREM RevisionsKeepOwnText == Spec => []OwnTextKept
<1>1. IInv => OwnTextKept
  BY DEF IInv
<1> QED
  BY <1>1, InductiveInvariant, PTL

\* Between calls the allowance is covered by what stands before the caret,
\* whatever failed in the calls before (credit_semantic_text).
THEOREM AllowanceCovered == Spec => []CreditCovered
<1>1. IInv => CreditCovered
  BY DEF IInv, CreditPays, CreditCovered
<1> QED
  BY <1>1, InductiveInvariant, PTL

\* No item takes effect twice or overtakes an earlier one, on whichever routes
\* the call is tried (process_packet's fallback).
THEOREM NothingReplayed == Spec => []NeverReplayed
<1>1. IInv => NeverReplayed
  BY DEF IInv, InBatchOrder, Increasing, NeverReplayed
<1> QED
  BY <1>1, InductiveInvariant, PTL

\* A scan that is over has left nothing out.
LEMMA ScanIsOver ==
  ASSUME IInv, call.path \in {"scan", "direct", "rdp"}, ~More, call.events = <<>>
  PROVE  \A i \in DOMAIN call.batch : i \in Range(call.applied) \/ i \in call.clamped
<1>1. call.at \in Nat /\ Len(call.batch) \in Nat /\ DOMAIN call.batch = 1..Len(call.batch)
  BY DEF IInv, TypeOK, Calls
<1>2. DOMAIN call.batch \subseteq 1..(call.at - 1)
  BY <1>1 DEF More
<1> QED
  BY <1>2, NothingYet DEF IInv, NothingDropped

LEMMA SentStaysComplete == IInv /\ SentMeansComplete /\ [Next]_vars => SentMeansComplete'
<1> SUFFICES ASSUME IInv, SentMeansComplete, [Next]_vars,
                    call'.path = "done", call'.reply = "sent"
             PROVE  \A i \in DOMAIN call'.batch :
                      i \in Range(call'.applied) \/ i \in call'.clamped
  BY DEF SentMeansComplete
<1>1. call \in Calls
  BY DEF IInv, TypeOK
<1>2. CASE ClipboardDone \/ KeysDone
  <2>1. /\ call.path \in {"scan", "direct", "rdp"} /\ ~More /\ call.events = <<>>
        /\ Answer("sent")
    BY <1>2 DEF ClipboardDone, KeysDone, IInv, Positioned
  <2>2. UNCHANGED <<call.batch, call.applied, call.clamped>>
    BY <1>1, <2>1 DEF Answer, Calls
  <2> QED
    BY <2>1, <2>2, ScanIsOver
<1>3. CASE UNCHANGED call
  BY <1>3 DEF SentMeansComplete
<1>4. CASE ~(ClipboardDone \/ KeysDone) /\ call' # call
  <2>1. ASSUME Answer("failed") PROVE FALSE
    BY <1>1, <2>1 DEF Answer, Calls
  <2>2. ~Respond /\ ~Accept
    <3>1. ASSUME NEW p \in {"scan", "keys"}, NEW b, NEW e,
                 call' = [NoCall EXCEPT !.path = p, !.batch = b, !.next = e]
          PROVE  FALSE
      BY <3>1 DEF NoCall
    <3>2. ~Accept
      BY <3>1 DEF Accept
    <3>3. ~Respond
      BY DEF Respond, NoCall
    <3> QED
      BY <3>2, <3>3
  <2>3. ~NewClient /\ ~IdleGap
    BY <1>4 DEF NewClient, IdleGap
  <2>4. ~(ScanBackspace \/ ScanText \/ ScanKey \/ TextSent \/ InjectKey \/ TypeItem)
    BY <1>1 DEF ScanBackspace, ScanText, ScanKey, TextSent, InjectKey, TypeItem, Scanning,
                MustSend, Calls
  <2>5. ~(KeysRequested \/ KeysSent)
    BY <1>1 DEF KeysRequested, KeysSent, Calls
  <2>6. ~(HelperTakesPart \/ HelperTakesNoPart)
    BY <1>1 DEF HelperTakesPart, HelperTakesNoPart, TakeRoute, Calls
  <2>7. ~(ClipboardUnconvertible \/ SegmentRefused)
    BY <1>1, <2>1 DEF ClipboardUnconvertible, SegmentRefused, FallBackToKeys, Calls
  <2>8. ~TextFailed
    BY <1>1, <2>1 DEF TextFailed, Calls
  <2>9. ~(RelayFocusFails \/ KeysFailed \/ Untranslatable \/ HelperFails \/ SendInputShort
          \/ DesktopFocusFails)
    BY <2>1 DEF RelayFocusFails, KeysFailed, Untranslatable, HelperFails, SendInputShort,
                DesktopFocusFails
  <2> QED
    BY <1>4, <2>2, <2>3, <2>4, <2>5, <2>6, <2>7, <2>8, <2>9
    DEF Next, ClipboardRoute, KeyRoute, vars
<1> QED
  BY <1>2, <1>3, <1>4

\* A call that is reported as sent took effect, up to the Backspaces that had
\* no credit (process_packet's reply).
THEOREM SentIsComplete == Spec => []SentMeansComplete
<1>1. Init => SentMeansComplete
  BY DEF Init, NoCall, SentMeansComplete
<1> QED
  BY <1>1, SentStaysComplete, InductiveInvariant, PTL DEF Spec
=============================================================================
