---------------------------- MODULE PatchBytes ----------------------------
(***************************************************************************)
(* Byte patches of an executable (gameviewer_patchlib.py): a patch         *)
(* replaces the bytes `old' at position `at' by as many bytes `new', and a *)
(* reviewed release is the original it was made for and its patches.       *)
(* Contents are sequences of bytes; positions count from 1, the code's     *)
(* offsets from 0.  A digest stands for the content it was taken of.       *)
(***************************************************************************)
EXTENDS Integers, Sequences

Region(p) == p.at .. p.at + Len(p.old) - 1

\* `needle' stands in `data' at position `pos'.
Occurs(data, needle, pos) ==
  /\ pos \in 1..Len(data)
  /\ pos + Len(needle) - 1 <= Len(data)
  /\ \A i \in 1..Len(needle) : data[pos + i - 1] = needle[i]

OnlyAt(data, needle, pos) ==
  \A q \in 1..Len(data) : Occurs(data, needle, q) <=> q = pos

\* Every signature is found once, and at its declared position.
OriginalSignatures(data, ps) ==
  \A k \in 1..Len(ps) : /\ ps[k].at \in 1..Len(data)
                        /\ OnlyAt(data, ps[k].old, ps[k].at)
PatchedSignatures(data, ps) ==
  \A k \in 1..Len(ps) : /\ ps[k].at \in 1..Len(data)
                        /\ OnlyAt(data, ps[k].new, ps[k].at)

Disjoint(p, q) == Region(p) \cap Region(q) = {}

\* What a manifest must satisfy before anything is done with it.
WellFormed(ps) ==
  /\ Len(ps) > 0
  /\ \A k \in 1..Len(ps) : /\ Len(ps[k].old) = Len(ps[k].new)
                           /\ Len(ps[k].old) > 0
                           /\ ps[k].old # ps[k].new
  /\ \A j, k \in 1..Len(ps) : j # k => Disjoint(ps[j], ps[k])

\* One turn of the loop in render_patched.
Splice(data, p) ==
  [i \in 1..Len(data) |-> IF i \in Region(p) THEN p.new[i - p.at + 1]
                                             ELSE data[i]]

-----------------------------------------------------------------------------
(* Finding a patch again in another release: the bytes that it leaves      *)
(* alone must stand there, whatever the ones it changes have become.       *)

Fixed(p) == {i \in 1..Len(p.old) : p.old[i] = p.new[i]}

FixedRuns(p) ==
  {r \in (1..Len(p.old)) \X (1..Len(p.old)) :
     /\ r[1] <= r[2]
     /\ r[1]..r[2] \subseteq Fixed(p)
     /\ r[1] - 1 \notin Fixed(p) /\ r[2] + 1 \notin Fixed(p)}

\* The first of the longest runs, whose occurrences the search looks at.
IsAnchor(p, r) ==
  /\ r \in FixedRuns(p)
  /\ \A s \in FixedRuns(p) : \/ s[2] - s[1] < r[2] - r[1]
                             \/ s[2] - s[1] = r[2] - r[1] /\ r[1] <= s[1]

AnchorOccurs(data, p, r, pos) ==
  /\ pos + r[2] - r[1] <= Len(data)
  /\ \A i \in r[1]..r[2] : data[pos + i - r[1]] = p.old[i]

FixedBytesStand(data, p, start) ==
  /\ start >= 1 /\ start + Len(p.old) - 1 <= Len(data)
  /\ \A i \in Fixed(p) : data[start + i - 1] = p.old[i]

=============================================================================
