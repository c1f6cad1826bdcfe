------------------------- MODULE ServerPatchProofs -------------------------
(***************************************************************************)
(* Proofs about ServerPatch, for any executables, drafts and programs that *)
(* replace the executable.  The first part is about bytes: what one turn   *)
(* of the loop in render_patched does, and that the search of              *)
(* masked_candidates cannot miss a place.  The second is the inductive     *)
(* invariant IInv and what follows from it.                                *)
(***************************************************************************)
EXTENDS ServerPatch, TLAPS

\* A draft has a whole executable and typed patches.
LEMMA DraftTypes ==
  ASSUME NEW d \in Drafts
  PROVE  /\ d.original \in Foreign /\ d.original \in Seq(Byte)
         /\ d.patches \in Seq(Patches)
         /\ \A j \in 1..Len(d.patches) :
              /\ d.patches[j] \in Patches
              /\ d.patches[j].at \in Nat /\ d.patches[j].at >= 1
              /\ d.patches[j].old \in Seq(Byte) /\ d.patches[j].new \in Seq(Byte)
         /\ d # Absent
<1>1. /\ d.original \in Foreign /\ d.original \in Seq(Byte)
      /\ d.patches \in Seq(Patches) /\ d # Absent
  BY DraftsAssumption DEF DraftsAssumption
<1>2. \A j \in 1..Len(d.patches) : d.patches[j] \in Patches
  BY <1>1
<1> QED
  BY <1>1, <1>2 DEF Patches

\* What an applicable draft guarantees of each patch: it lies inside the
\* executable, and no two of them meet.
LEMMA PatchesFit ==
  ASSUME NEW d \in Drafts, Applicable(d), NEW j \in 1..Len(d.patches)
  PROVE  /\ Len(d.patches[j].new) = Len(d.patches[j].old)
         /\ d.patches[j].at + Len(d.patches[j].old) - 1 <= Len(d.original)
         /\ \A i \in 1..Len(d.patches) :
              i # j => \A x \in Int : ~(x \in Region(d.patches[i])
                                        /\ x \in Region(d.patches[j]))
<1>1. Len(d.patches[j].new) = Len(d.patches[j].old)
  BY DEF Applicable, WellFormed
<1>2. Occurs(d.original, d.patches[j].old, d.patches[j].at)
  BY DEF Applicable, OriginalSignatures, OnlyAt
<1>3. \A i \in 1..Len(d.patches) : i # j => Disjoint(d.patches[i], d.patches[j])
  BY DEF Applicable, WellFormed
<1> QED
  BY <1>1, <1>2, <1>3 DEF Occurs, Disjoint

\* The i-th byte of a run of l bytes at a lies in the run and in the file.
LEMMA ByteOfRun ==
  ASSUME NEW a \in Nat, a >= 1, NEW l \in Nat, NEW size \in Nat,
         a + l - 1 <= size, NEW i \in 1..l
  PROVE  a + i - 1 \in a..(a + l - 1) /\ a + i - 1 \in 1..size
BY SMTT(60)

\* One turn of the loop writes its patch, keeps those before it, and leaves
\* every other byte alone.
LEMMA SpliceProgress ==
  ASSUME NEW d \in Drafts, Applicable(d), NEW n \in 1..Len(d.patches),
         NEW content, Progress(d, content, n - 1)
  PROVE  Progress(d, Splice(content, d.patches[n]), n)
<1> DEFINE p == d.patches[n]
           out == Splice(content, p)
<1>1. /\ p.at \in Nat /\ p.at >= 1 /\ p.old \in Seq(Byte) /\ p.new \in Seq(Byte)
      /\ Len(p.new) = Len(p.old)
      /\ p.at + Len(p.old) - 1 <= Len(d.original)
      /\ Len(p.new) \in Nat
  <2>1. /\ p.at \in Nat /\ p.at >= 1 /\ p.old \in Seq(Byte) /\ p.new \in Seq(Byte)
    BY DraftTypes
  <2>2. /\ Len(p.new) = Len(p.old)
        /\ p.at + Len(p.old) - 1 <= Len(d.original)
    BY PatchesFit
  <2> HIDE DEF p
  <2> QED
    BY <2>1, <2>2
<1>2. /\ content \in Seq(Byte) /\ Len(content) = Len(d.original)
      /\ Len(content) \in Nat
  BY DEF Progress
<1> HIDE DEF p
<1>3. \A i \in 1..Len(content) : i \in Region(p) => i - p.at + 1 \in 1..Len(p.new)
  BY <1>1, <1>2 DEF Region
<1>4. out \in [1..Len(content) -> Byte]
  BY <1>1, <1>2, <1>3 DEF Splice
<1>5. out \in Seq(Byte) /\ Len(out) = Len(d.original)
  BY <1>2, <1>4
<1>6. \A i \in 1..Len(p.new) : out[p.at + i - 1] = p.new[i]
  <2> SUFFICES ASSUME NEW i \in 1..Len(p.new)
               PROVE  out[p.at + i - 1] = p.new[i]
    OBVIOUS
  <2>1. p.at + i - 1 \in Region(p) /\ p.at + i - 1 \in 1..Len(content)
    <3>1. /\ p.at \in Nat /\ p.at >= 1 /\ Len(p.new) \in Nat
          /\ Len(content) \in Nat /\ p.at + Len(p.new) - 1 <= Len(content)
      BY <1>1, <1>2
    <3>2. /\ p.at + i - 1 \in p.at..(p.at + Len(p.new) - 1)
          /\ p.at + i - 1 \in 1..Len(content)
      BY <3>1, ByteOfRun
    <3>3. Region(p) = p.at..(p.at + Len(p.new) - 1)
      BY <1>1 DEF Region
    <3> QED
      BY <3>2, <3>3
  <2>2. (p.at + i - 1) - p.at + 1 = i
    BY <1>1
  <2> QED
    BY <2>1, <2>2 DEF Splice
<1>7. \A j \in 1..(n - 1) : \A i \in 1..Len(d.patches[j].new) :
        out[d.patches[j].at + i - 1] = d.patches[j].new[i]
  <2> SUFFICES ASSUME NEW j \in 1..(n - 1), NEW i \in 1..Len(d.patches[j].new)
               PROVE  out[d.patches[j].at + i - 1] = d.patches[j].new[i]
    OBVIOUS
  <2> DEFINE q == d.patches[j]
             x == q.at + i - 1
  <2>1. j \in 1..Len(d.patches) /\ j # n
    <3>1. Len(d.patches) \in Nat
      BY DraftTypes
    <3> QED
      BY <3>1
  <2>2. /\ q.at \in Nat /\ q.at >= 1 /\ q.old \in Seq(Byte) /\ q.new \in Seq(Byte)
        /\ Len(q.new) = Len(q.old)
        /\ q.at + Len(q.old) - 1 <= Len(d.original)
    <3>1. /\ q.at \in Nat /\ q.at >= 1 /\ q.old \in Seq(Byte) /\ q.new \in Seq(Byte)
      BY <2>1, DraftTypes
    <3>2. /\ Len(q.new) = Len(q.old)
          /\ q.at + Len(q.old) - 1 <= Len(d.original)
      BY <2>1, PatchesFit
    <3> QED
      BY <3>1, <3>2
  <2>3. x \in Region(q) /\ x \in 1..Len(content) /\ x \in Int
    <3>1. i \in 1..Len(q.new)
      OBVIOUS
    <3>2. Len(q.new) \in Nat
      BY <2>2
    <3> HIDE DEF q
    <3>3. /\ q.at \in Nat /\ q.at >= 1 /\ Len(q.new) \in Nat
          /\ Len(content) \in Nat /\ q.at + Len(q.new) - 1 <= Len(content)
      BY <2>2, <3>2, <1>2
    <3>4. /\ x \in q.at..(q.at + Len(q.new) - 1)
          /\ x \in 1..Len(content)
      BY <3>1, <3>3, ByteOfRun
    <3>5. Region(q) = q.at..(q.at + Len(q.new) - 1)
      BY <2>2 DEF Region
    <3>6. x \in Int
      BY <3>4
    <3> QED
      BY <3>4, <3>5, <3>6
  <2>4. x \notin Region(p)
    BY <2>1, <2>3, PatchesFit DEF p
  <2>5. out[x] = content[x]
    BY <2>3, <2>4 DEF Splice
  <2>6. content[x] = q.new[i]
    BY DEF Progress
  <2> QED
    BY <2>5, <2>6
<1>8. ASSUME NEW i \in 1..Len(out), \A j \in 1..n : i \notin Region(d.patches[j])
      PROVE  out[i] = d.original[i]
  <2>1. i \notin Region(p) /\ i \in 1..Len(content)
    <3>1. n \in 1..n
      BY DraftTypes
    <3> QED
      BY <3>1, <1>2, <1>5, <1>8 DEF p
  <2>2. \A j \in 1..(n - 1) : i \notin Region(d.patches[j])
    BY <1>8
  <2>3. content[i] = d.original[i]
    BY <2>1, <2>2 DEF Progress
  <2> QED
    BY <2>1, <2>3 DEF Splice
<1>9. \A j \in 1..n : j = n \/ j \in 1..(n - 1)
  OBVIOUS
<1> HIDE DEF out
<1>10. \A j \in 1..n : \A i \in 1..Len(d.patches[j].new) :
        out[d.patches[j].at + i - 1] = d.patches[j].new[i]
  BY <1>6, <1>7, <1>9 DEF p
<1> QED
  BY <1>5, <1>8, <1>10 DEF Progress, out, p

\* Where the unchanged bytes of a patch stand, its anchor stands too.
LEMMA AnchorStands ==
  ASSUME NEW content \in Seq(Byte), NEW p \in Patches, NEW r \in FixedRuns(p),
         NEW s \in 1..Len(content), FixedBytesStand(content, p, s)
  PROVE  /\ s + r[1] - 1 \in 1..Len(content)
         /\ AnchorOccurs(content, p, r, s + r[1] - 1)
<1>1. /\ r[1] \in 1..Len(p.old) /\ r[2] \in 1..Len(p.old) /\ r[1] <= r[2]
      /\ r[1]..r[2] \subseteq Fixed(p)
      /\ Len(p.old) \in Nat /\ Len(content) \in Nat
  BY DEF FixedRuns, Patches
<1>2. s + Len(p.old) - 1 <= Len(content)
  BY DEF FixedBytesStand
<1>3. \A i \in r[1]..r[2] : content[(s + r[1] - 1) + i - r[1]] = p.old[i]
  <2> SUFFICES ASSUME NEW i \in r[1]..r[2]
               PROVE  content[(s + r[1] - 1) + i - r[1]] = p.old[i]
    OBVIOUS
  <2>1. (s + r[1] - 1) + i - r[1] = s + i - 1
    BY <1>1
  <2>2. content[s + i - 1] = p.old[i]
    BY <1>1 DEF FixedBytesStand
  <2> QED
    BY <2>1, <2>2
<1> QED
  BY <1>1, <1>2, <1>3 DEF AnchorOccurs

-----------------------------------------------------------------------------

\* No executable, no manifest and no backup yet.
LEMMA InitHolds == Init => IInv
<1> SUFFICES ASSUME Init PROVE IInv
  OBVIOUS
<1> USE DraftsAssumption DEF DraftsAssumption, Init
<1>1. <<>> \in Seq(Byte)
  OBVIOUS
<1>2. TypeOK
  BY <1>1 DEF TypeOK, Contents, Steps
<1>3. Approved = {}
  BY DEF Approved
<1> QED
  BY <1>2, <1>3 DEF IInv, ApprovedSound, RenderKnows, PatchKnows, Patching,
                    InstallKnows, TargetKnown, SearchKnows

\* Steps that end a program or change the executable from outside.
LEMMA EndPreserves ==
  IInv /\ (Report \/ RenderRefused \/ Interrupted \/ ForeignUpdate) => IInv'
<1> SUFFICES ASSUME IInv, Report \/ RenderRefused \/ Interrupted \/ ForeignUpdate
             PROVE  IInv'
  OBVIOUS
<1>e. <<>> \in Seq(Byte) /\ <<1, 1>> \in Nat \X Nat /\ Absent \notin Seq(Byte)
  BY DraftsAssumption DEF DraftsAssumption
<1>f. \A c \in Foreign : c \in Contents
  BY DraftsAssumption DEF DraftsAssumption, Contents
<1>a. ApprovedSound'
  <2>1. UNCHANGED patched
    BY DEF Report, RenderRefused, Interrupted, ForeignUpdate
  <2> QED
    BY <2>1 DEF IInv, ApprovedSound, Approved
<1> USE <1>a, <1>e, <1>f
    DEF IInv, TypeOK, Contents, Steps, Approved, files, locals, search, Return, Forget,
        RenderKnows, PatchKnows, Patching, InstallKnows, TargetKnown, SearchKnows, Goal
<1>1. CASE Report BY <1>1 DEF Report
<1>2. CASE RenderRefused BY <1>2 DEF RenderRefused, Rendered
<1>3. CASE Interrupted
  <2>1. /\ pc' = "idle" /\ cmd' = "none" /\ man' = Absent /\ data' = <<>>
        /\ output' = <<>> /\ k' = 1 /\ anchor' = <<1, 1>> /\ from' = 1 /\ found' = {}
        /\ UNCHANGED <<installed, patched>>
    BY <1>3 DEF Interrupted
  <2>2. CASE UNCHANGED <<target, backup, kept>>
    BY <2>1, <2>2
  <2>3. CASE pc = "copy" /\ backup' = <<>> /\ UNCHANGED <<target, kept>>
    BY <2>1, <2>3
  <2>4. CASE /\ pc = "keep" /\ backup # Absent
             /\ kept' = [kept EXCEPT ![installed] = <<>>] /\ UNCHANGED <<target, backup>>
    <3>1. kept' \in [Drafts -> Contents]
      BY <2>4
    <3>2. TargetKnown'
      BY <2>1, <2>4
    <3> QED
      BY <2>1, <2>4, <3>1, <3>2
  <2>5. CASE /\ pc = "setup" /\ target' \in Foreign \cup {Absent}
             /\ UNCHANGED <<backup, kept>>
    BY <2>1, <2>5
  <2> QED
    BY <1>3, <2>2, <2>3, <2>4, <2>5 DEF Interrupted
<1>4. CASE ForeignUpdate BY <1>4 DEF ForeignUpdate
<1> QED
  BY <1>1, <1>2, <1>3, <1>4

\* Inspecting, finalizing and rendering.
LEMMA RenderPreserves ==
  IInv /\ ((\E d \in Drafts : Finalize(d)) \/ RenderNext \/ Approve \/ MakePatched) => IInv'
<1> SUFFICES ASSUME IInv,
                    (\E d \in Drafts : Finalize(d)) \/ RenderNext \/ Approve \/ MakePatched
             PROVE  IInv'
  OBVIOUS
<1>e. <<>> \in Seq(Byte) /\ <<1, 1>> \in Nat \X Nat /\ Absent \notin Seq(Byte)
  BY DraftsAssumption DEF DraftsAssumption
<1>1. CASE \E d \in Drafts : Finalize(d)
  <2>1. PICK d \in Drafts : Finalize(d)
    BY <1>1
  <2>2. Progress(d, d.original, 0)
    BY DraftTypes DEF Progress
  <2>3. ApprovedSound'
    BY <2>1 DEF IInv, ApprovedSound, Approved, Finalize
  <2>4. d.original \in Seq(Byte) /\ Len(d.patches) \in Nat
    BY DraftTypes
  <2>5. Applicable(d)
    BY <2>1 DEF Finalize, Applicable
  <2> QED
    BY <2>1, <2>2, <2>3, <2>4, <2>5
    DEF Finalize, IInv, TypeOK, Contents, Steps, Approved, files, locals, search,
        RenderKnows, PatchKnows, Patching, InstallKnows, TargetKnown, SearchKnows, Goal
<1>2. CASE RenderNext
  <2>1. /\ man \in Drafts /\ Applicable(man) /\ k \in 1..Len(man.patches)
        /\ Progress(man, output, k - 1)
    <3>1. man \in Drafts /\ k \in Nat /\ k >= 1 /\ k <= Len(man.patches)
      BY <1>2 DEF RenderNext, IInv, TypeOK, RenderKnows
    <3>2. Len(man.patches) \in Nat
      BY <3>1, DraftTypes
    <3> QED
      BY <1>2, <3>1, <3>2 DEF RenderNext, IInv, RenderKnows
  <2>2. Progress(man, output', k)
    BY <1>2, <2>1, SpliceProgress DEF RenderNext
  <2>3. ApprovedSound'
    BY <1>2 DEF IInv, ApprovedSound, Approved, RenderNext, files
  <2>4. output' \in Seq(Byte)
    BY <2>2 DEF Progress
  <2>5. k' = k + 1 /\ k' - 1 = k /\ k' <= Len(man.patches) + 1
    <3>1. Len(man.patches) \in Nat
      BY <2>1, DraftTypes
    <3> QED
      BY <1>2, <2>1, <3>1 DEF RenderNext
  <2> QED
    BY <1>2, <2>1, <2>2, <2>3, <2>4, <2>5
    DEF RenderNext, IInv, TypeOK, Contents, Steps, Approved, files, locals, search,
        RenderKnows, PatchKnows, Patching, InstallKnows, TargetKnown, SearchKnows, Goal
<1>3. CASE Approve
  <2>1. /\ man \in Drafts /\ Applicable(man) /\ pc = "render"
        /\ Progress(man, output, Len(man.patches))
    <3>1. man \in Drafts /\ k \in Nat /\ k > Len(man.patches) /\ k <= Len(man.patches) + 1
      BY <1>3 DEF Approve, Rendered, IInv, TypeOK, RenderKnows
    <3>2. Len(man.patches) \in Nat
      BY <3>1, DraftTypes
    <3>3. k - 1 = Len(man.patches)
      BY <3>1, <3>2
    <3> QED
      BY <1>3, <3>1, <3>3 DEF Approve, Rendered, IInv, RenderKnows
  <2>2. output \in Seq(Byte) /\ output # Absent
    BY <2>1, <1>e DEF Progress
  <2>3. patched' = [patched EXCEPT ![man] = output] /\ patched \in [Drafts -> Contents]
    BY <1>3 DEF Approve, IInv, TypeOK
  <2>4. /\ patched' \in [Drafts -> Contents]
        /\ Approved' = Approved \cup {man} /\ patched'[man] = output
        /\ \A d \in Drafts : d # man => patched'[d] = patched[d]
    BY <2>1, <2>2, <2>3 DEF Approved, Contents
  <2>5. ApprovedSound'
    <3> SUFFICES ASSUME NEW d \in Approved'
                 PROVE  /\ Applicable(d)
                        /\ PatchedSignatures(patched'[d], d.patches)
                        /\ Progress(d, patched'[d], Len(d.patches))
      BY DEF ApprovedSound
    <3>1. CASE d = man
      BY <1>3, <2>1, <2>4, <3>1 DEF Approve, Accepted
    <3>2. CASE d # man
      BY <2>4, <3>2 DEF IInv, ApprovedSound, Approved
    <3> QED
      BY <3>1, <3>2
  <2>6. TargetKnown'
    <3>1. UNCHANGED files
      BY <1>3 DEF Approve
    <3>2. \A d \in Approved : patched[d] \in Seq(Byte)
      BY DEF IInv, ApprovedSound, Progress
    <3>3. CASE target \in Foreign \cup {Absent}
      BY <3>1, <3>3 DEF TargetKnown, files
    <3>4. CASE target \notin Foreign \cup {Absent}
      <4>1. PICK d \in Approved :
              /\ target = patched[d]
              /\ \/ backup = d.original
                 \/ backup = Absent /\ \E e \in Drafts : kept[e] = d.original
        BY <3>4 DEF IInv, TargetKnown
      <4>2. d # man /\ patched'[d] = patched[d] /\ d \in Approved'
        BY <1>3, <2>4 DEF Approve, Rendered, IInv, RenderKnows, Approved
      <4> QED
        BY <3>1, <4>1, <4>2 DEF TargetKnown, files
    <3> QED
      BY <3>3, <3>4
  <2> QED
    BY <1>3, <1>e, <2>2, <2>4, <2>5, <2>6
    DEF Approve, Return, Forget, IInv, TypeOK, Contents, Steps, files, locals, search,
        RenderKnows, PatchKnows, Patching, InstallKnows, SearchKnows, Goal, Rendered
<1>4. CASE MakePatched
  <2>1. ApprovedSound'
    BY <1>4 DEF IInv, ApprovedSound, Approved, MakePatched
  <2> QED
    BY <1>4, <2>1
    DEF MakePatched, Rendered, Accepted, IInv, TypeOK, Contents, Steps, Approved, files,
        locals, search, RenderKnows, PatchKnows, Patching, InstallKnows,
        TargetKnown, SearchKnows, Goal
<1> QED
  BY <1>1, <1>2, <1>3, <1>4

\* The backup, the executable and the installer's files.
LEMMA FilesPreserve ==
  IInv /\ (\/ Patch \/ PatchInstalled \/ CheckBackup \/ CopyBackup \/ VerifyBackup
           \/ Restore \/ WriteTemporary \/ Replace
           \/ (\E d \in Drafts, upgrade \in BOOLEAN : Install(d, upgrade))
           \/ KeepBackup \/ DropBackup \/ SetUp \/ CheckTarget) => IInv'
<1> SUFFICES ASSUME IInv,
                    \/ Patch \/ PatchInstalled \/ CheckBackup \/ CopyBackup \/ VerifyBackup
                    \/ Restore \/ WriteTemporary \/ Replace
                    \/ (\E d \in Drafts, upgrade \in BOOLEAN : Install(d, upgrade))
                    \/ KeepBackup \/ DropBackup \/ SetUp \/ CheckTarget
             PROVE  IInv'
  OBVIOUS
<1>e. <<>> \in Seq(Byte) /\ <<1, 1>> \in Nat \X Nat /\ Absent \notin Seq(Byte) /\ Absent \notin Drafts
  BY DraftsAssumption DEF DraftsAssumption
<1>f. \A c \in Foreign : c \in Contents /\ c \in Seq(Byte)
  BY DraftsAssumption DEF DraftsAssumption, Contents
<1>g. \A d \in Drafts : /\ d.original \in Foreign /\ d.original \in Seq(Byte)
                         /\ d.original # Absent
  BY <1>e, DraftTypes
<1>u. UNCHANGED patched
  BY DEF Patch, PatchInstalled, CheckBackup, CopyBackup, VerifyBackup, Restore,
         WriteTemporary, Replace, Install, KeepBackup, DropBackup, SetUp, CheckTarget, ReadTarget
<1>a. ApprovedSound'
  BY <1>u DEF IInv, ApprovedSound, Approved
<1>p. \A d \in Approved : /\ d \in Drafts /\ Applicable(d) /\ Progress(d, d.original, 0)
                           /\ patched[d] \in Seq(Byte) /\ Len(d.patches) \in Nat
  BY DraftTypes DEF IInv, ApprovedSound, Approved, Progress
<1>v. Approved' = Approved /\ Approved \subseteq Drafts
  BY <1>u DEF Approved
<1> USE <1>a, <1>u, <1>v, <1>e, <1>f, <1>g, <1>p
    DEF IInv, TypeOK, Contents, Steps, files, locals, search, Return, Forget,
        RenderKnows, PatchKnows, Patching, InstallKnows, TargetKnown, SearchKnows, Goal
<1>1. ASSUME NEW d \in Approved, ReadTarget(d), pc \in {"idle", "patch"} PROVE IInv'
  BY <1>1 DEF ReadTarget
<1>2. CASE Patch
  BY <1>1, <1>2 DEF Patch, Loads
<1>3. CASE PatchInstalled
  <2>1. man \in Approved /\ pc = "patch"
    BY <1>3 DEF PatchInstalled
  <2>2. CASE ReadTarget(man)
    BY <1>1, <2>1, <2>2
  <2>3. CASE Return /\ UNCHANGED <<files, patched>>
    BY <2>1, <2>3
  <2> QED
    BY <1>3, <2>2, <2>3 DEF PatchInstalled
<1>r. ASSUME pc \in {"backup", "verify"}, backup = man.original,
             pc' = "render", output' = data, k' = 1,
             UNCHANGED <<cmd, man, data, search, files>>
      PROVE  IInv'
  <2>1. man \in Approved /\ cmd = "patch" /\ data = man.original
    BY <1>r
  <2>2. 1 <= Len(man.patches) + 1 /\ k' - 1 = 0
    BY <1>r, <2>1
  <2>3. Progress(man, output', k' - 1)
    BY <1>r, <2>1, <2>2
  <2>4. TypeOK'
    BY <1>r
  <2>5. RenderKnows'
    BY <1>r, <2>1, <2>2, <2>3
  <2>6. PatchKnows'
    BY <1>r, <2>1
  <2> QED
    BY <1>r, <2>4, <2>5, <2>6
<1>s. ASSUME pc # "idle", Return, UNCHANGED files
      PROVE  IInv'
  BY <1>s
<1>4. CASE CheckBackup
  <2>1. CASE backup = Absent /\ pc' = "copy" /\ UNCHANGED locals
    BY <1>4, <2>1 DEF CheckBackup
  <2>2. CASE /\ backup = man.original /\ pc' = "render" /\ output' = data /\ k' = 1
             /\ UNCHANGED <<cmd, man, data, search>>
    BY <1>4, <1>r, <2>2 DEF CheckBackup
  <2>3. CASE Return
    BY <1>4, <1>s, <2>3 DEF CheckBackup
  <2> QED
    BY <1>4, <2>1, <2>2, <2>3 DEF CheckBackup
<1>5. CASE CopyBackup
  <2>1. CASE target = Absent
    BY <1>5, <1>s, <2>1 DEF CopyBackup
  <2>2. CASE target # Absent
    <3>1. /\ pc = "copy" /\ pc' = "verify" /\ backup' = target /\ UNCHANGED locals
          /\ UNCHANGED <<target, kept, installed, patched>>
      BY <1>5, <2>2 DEF CopyBackup
    <3>2. target \in Foreign \cup {Absent}
      BY <3>1
    <3> QED
      BY <3>1, <3>2
  <2> QED
    BY <2>1, <2>2
<1>6. CASE VerifyBackup
  <2>1. CASE backup = man.original
    BY <1>6, <1>r, <2>1 DEF VerifyBackup
  <2>2. CASE backup # man.original
    BY <1>6, <1>s, <2>2 DEF VerifyBackup
  <2> QED
    BY <2>1, <2>2
<1>7. CASE Restore BY <1>7 DEF Restore, Loads
<1>8. CASE WriteTemporary BY <1>8 DEF WriteTemporary
<1>9. CASE Replace BY <1>9 DEF Replace
<1>10. CASE \E d \in Drafts, upgrade \in BOOLEAN : Install(d, upgrade)
  BY <1>10 DEF Install
<1>11. CASE KeepBackup
  <2>1. CASE backup = Absent
    BY <1>11, <2>1 DEF KeepBackup
  <2>2. CASE backup # Absent
    <3>1. /\ pc = "keep" /\ pc' = "drop" /\ kept' = [kept EXCEPT ![installed] = backup]
          /\ UNCHANGED <<target, backup, installed, patched, locals>>
      BY <1>11, <2>2 DEF KeepBackup
    <3>2. installed \in Drafts /\ man \in Approved
      BY <3>1
    <3>3. kept' \in [Drafts -> Contents] /\ kept'[installed] = backup
      BY <3>1, <3>2
    <3>4. TypeOK'
      BY <3>1, <3>3
    <3>5. TargetKnown'
      BY <2>2, <3>1
    <3>6. InstallKnows'
      BY <2>2, <3>1, <3>2, <3>3
    <3> QED
      BY <3>1, <3>4, <3>5, <3>6
  <2> QED
    BY <2>1, <2>2
<1>12. CASE DropBackup BY <1>12 DEF DropBackup
<1>13. CASE SetUp BY <1>13 DEF SetUp
<1>14. CASE CheckTarget
  <2>1. CASE target \in Digests(man)
    <3>1. /\ pc = "check" /\ pc' = "patch" /\ installed' = man /\ UNCHANGED locals
          /\ UNCHANGED <<target, backup, kept, patched>>
      BY <1>14, <2>1 DEF CheckTarget
    <3> QED
      BY <3>1
  <2>2. CASE target \notin Digests(man)
    <3>1. pc # "idle" /\ Return /\ UNCHANGED files
      BY <1>14, <2>2 DEF CheckTarget
    <3> QED
      BY <1>s, <3>1
  <2> QED
    BY <2>1, <2>2
<1> QED
  BY <1>2, <1>3, <1>4, <1>5, <1>6, <1>7, <1>8, <1>9, <1>10, <1>11, <1>12, <1>13, <1>14

\* The search: every turn extends what has been found by the places whose
\* anchor it has passed.
LEMMA SearchPreserves ==
  IInv /\ (\/ (\E d \in Drafts, server \in Foreign : \E j \in 1..Len(d.patches) : Inspect(d, j, server))
           \/ SearchNext \/ SearchEnds) => IInv'
<1> SUFFICES ASSUME IInv,
                    \/ (\E d \in Drafts, server \in Foreign : \E j \in 1..Len(d.patches) : Inspect(d, j, server))
                    \/ SearchNext \/ SearchEnds
             PROVE  IInv'
  OBVIOUS
<1>a. ApprovedSound' /\ UNCHANGED <<files, patched>>
  BY DEF IInv, ApprovedSound, Approved, Inspect, SearchNext, SearchEnds
<1>f. \A c \in Foreign : c \in Seq(Byte)
  BY DraftsAssumption DEF DraftsAssumption
<1>1. CASE \E d \in Drafts, server \in Foreign : \E j \in 1..Len(d.patches) : Inspect(d, j, server)
  <2>1. PICK d \in Drafts, server \in Foreign : \E j \in 1..Len(d.patches) : Inspect(d, j, server)
    BY <1>1
  <2>2. PICK j \in 1..Len(d.patches) : Inspect(d, j, server)
    BY <2>1
  <2>3. /\ d.patches[j] \in Patches /\ Len(d.patches[j].old) \in Nat /\ Len(d.patches) \in Nat
        /\ j \in Nat /\ j >= 1
    <3>1. d.patches[j] \in Patches /\ d.patches[j].old \in Seq(Byte) /\ d.patches \in Seq(Patches)
      BY DraftTypes
    <3> QED
      BY <3>1
  <2>4. /\ anchor' \in FixedRuns(d.patches[j]) /\ pc' = "search" /\ pc = "idle" /\ cmd' = "inspect"
        /\ man' = d /\ k' = j /\ data' = server /\ from' = 1 /\ found' = {} /\ output' = output
    BY <2>2 DEF Inspect, IsAnchor
  <2>5. anchor' \in Nat \X Nat /\ anchor'[1] >= 1 /\ anchor'[1] \in Nat
    BY <2>3, <2>4 DEF FixedRuns
  <2>6. SearchKnows'
    <3>1. \A s \in 1..Len(server) : ~(s + anchor'[1] - 1 < 1)
      BY <2>5
    <3> QED
      BY <2>3, <2>4, <3>1 DEF SearchKnows, Goal
  <2>7. TypeOK'
    BY <1>a, <1>f, <2>3, <2>4, <2>5 DEF IInv, TypeOK, Steps, files
  <2> QED
    BY <1>a, <2>4, <2>6, <2>7 DEF IInv, Approved, files, RenderKnows, PatchKnows, Patching, InstallKnows, TargetKnown
<1>2. CASE SearchNext
  <2>1. PICK pos \in from..Len(data) :
          /\ FirstAnchorAt(pos)
          /\ found' = IF FixedBytesStand(data, Goal, pos - anchor[1] + 1)
                      THEN found \cup {pos - anchor[1] + 1} ELSE found
          /\ from' = pos + 1
    BY <1>2 DEF SearchNext
  <2>2. /\ pc = "search" /\ UNCHANGED <<pc, cmd, man, data, output, k, anchor>>
    BY <1>2 DEF SearchNext
  <2>3. /\ man \in Drafts /\ k \in 1..Len(man.patches) /\ anchor \in FixedRuns(Goal)
        /\ found = {s \in 1..Len(data) : FixedBytesStand(data, Goal, s)
                                         /\ s + anchor[1] - 1 < from}
        /\ data \in Seq(Byte) /\ Len(data) \in Nat /\ from \in Nat /\ from >= 1
        /\ found \subseteq Int
    BY <2>2 DEF IInv, TypeOK, SearchKnows
  <2>4. Goal \in Patches /\ Len(Goal.old) \in Nat
    <3>1. Goal \in Patches /\ Goal.old \in Seq(Byte)
      BY <2>3, DraftTypes DEF Goal
    <3> QED
      BY <3>1
  <2>5. anchor[1] \in Nat /\ anchor[1] >= 1
    BY <2>3, <2>4 DEF FixedRuns
  <2>6. ASSUME NEW s \in 1..Len(data), FixedBytesStand(data, Goal, s)
        PROVE  ~(s + anchor[1] - 1 \in from..(pos - 1))
    <3>1. AnchorOccurs(data, Goal, anchor, s + anchor[1] - 1)
      BY <2>3, <2>4, <2>6, AnchorStands
    <3> QED
      BY <2>1, <3>1 DEF FirstAnchorAt
  <2> DEFINE upto(n) == {s \in 1..Len(data) : FixedBytesStand(data, Goal, s)
                                             /\ s + anchor[1] - 1 < n}
  <2>7. found' = upto(pos + 1)
    <3>1. ASSUME NEW s PROVE s \in found' => s \in upto(pos + 1)
      <4>1. CASE s \in found
        <5>1. s \in 1..Len(data) /\ FixedBytesStand(data, Goal, s) /\ s + anchor[1] - 1 < from
          BY <2>3, <4>1
        <5>2. s + anchor[1] - 1 < pos + 1
          BY <2>1, <2>3, <2>5, <5>1
        <5> QED
          BY <5>1, <5>2
      <4>2. CASE s = pos - anchor[1] + 1 /\ FixedBytesStand(data, Goal, s)
        <5>1. s \in 1..Len(data)
          BY <2>1, <2>3, <2>5, <4>2 DEF FixedBytesStand
        <5> QED
          BY <2>1, <2>3, <2>5, <4>2, <5>1
      <4> QED
        BY <2>1, <4>1, <4>2
    <3>2. ASSUME NEW s \in upto(pos + 1) PROVE s \in found'
      <4>1. /\ s \in 1..Len(data) /\ FixedBytesStand(data, Goal, s)
            /\ s + anchor[1] - 1 < pos + 1
        OBVIOUS
      <4>2. s + anchor[1] - 1 < from \/ s + anchor[1] - 1 = pos
        <5>1. ~(s + anchor[1] - 1 \in from..(pos - 1))
          BY <2>6, <4>1
        <5>2. s \in Int /\ pos \in Int /\ from \in Int /\ s + anchor[1] - 1 \in Int
          BY <2>1, <2>3, <2>5, <4>1
        <5> QED
          BY <4>1, <5>1, <5>2
      <4>3. CASE s + anchor[1] - 1 < from
        BY <2>1, <2>3, <4>1, <4>3
      <4>4. CASE s + anchor[1] - 1 = pos
        <5>1. s = pos - anchor[1] + 1
          BY <2>1, <2>3, <2>5, <4>1, <4>4
        <5> QED
          BY <2>1, <4>1, <5>1
      <4> QED
        BY <4>2, <4>3, <4>4
    <3> HIDE DEF upto
    <3> QED
      BY <3>1, <3>2
  <2>8. from' \in Nat \ {0} /\ found' \subseteq Int /\ from' = pos + 1
    <3>1. from' \in Nat \ {0} /\ from' = pos + 1
      BY <2>1, <2>3
    <3>2. upto(pos + 1) \subseteq Int
      OBVIOUS
    <3> QED
      BY <2>7, <3>1, <3>2
  <2>9. SearchKnows'
    <3>1. Goal' = Goal
      BY <2>2 DEF Goal
    <3> QED
      BY <2>2, <2>3, <2>7, <2>8, <3>1 DEF SearchKnows
  <2>10. TypeOK'
    BY <1>a, <2>2, <2>8 DEF IInv, TypeOK, files
  <2> QED
    BY <1>a, <2>2, <2>9, <2>10 DEF IInv, Approved, files, RenderKnows, PatchKnows, Patching, InstallKnows, TargetKnown
<1>3. CASE SearchEnds
  <2>1. /\ pc = "search" /\ pc' = "report" /\ UNCHANGED locals
        /\ \A pos \in from..Len(data) : ~AnchorOccurs(data, Goal, anchor, pos)
    BY <1>3 DEF SearchEnds
  <2>2. /\ man \in Drafts /\ k \in 1..Len(man.patches) /\ anchor \in FixedRuns(Goal)
        /\ found = {s \in 1..Len(data) : FixedBytesStand(data, Goal, s)
                                         /\ s + anchor[1] - 1 < from}
        /\ data \in Seq(Byte) /\ Len(data) \in Nat /\ from \in Nat /\ from >= 1
    BY <2>1 DEF IInv, TypeOK, SearchKnows
  <2>3. Goal \in Patches /\ Len(Goal.old) \in Nat
    <3>1. Goal \in Patches /\ Goal.old \in Seq(Byte)
      BY <2>2, DraftTypes DEF Goal
    <3> QED
      BY <3>1
  <2>4. anchor[1] \in Nat /\ anchor[1] >= 1
    BY <2>2, <2>3 DEF FixedRuns
  <2>5. ASSUME NEW s \in 1..Len(data), FixedBytesStand(data, Goal, s)
        PROVE  s + anchor[1] - 1 < from
    <3>1. /\ AnchorOccurs(data, Goal, anchor, s + anchor[1] - 1)
          /\ s + anchor[1] - 1 \in 1..Len(data)
      BY <2>2, <2>3, <2>5, AnchorStands
    <3> QED
      BY <2>1, <2>2, <3>1
  <2>6. found = {s \in 1..Len(data) : FixedBytesStand(data, Goal, s)}
    BY <2>2, <2>5
  <2>7. SearchKnows'
    <3>1. Goal' = Goal /\ data' = data /\ found' = found /\ man' = man /\ k' = k /\ anchor' = anchor
      BY <2>1 DEF Goal, locals, search
    <3> QED
      BY <2>1, <2>2, <2>6, <3>1 DEF SearchKnows
  <2> QED
    BY <1>a, <2>1, <2>7 DEF IInv, TypeOK, Steps, Approved, files, locals, search, RenderKnows, PatchKnows, Patching, InstallKnows, TargetKnown
<1> QED
  BY <1>1, <1>2, <1>3

-----------------------------------------------------------------------------

\* Every step of every program keeps the invariant.
LEMMA Preserved == IInv /\ [Next]_vars => IInv'
<1> SUFFICES ASSUME IInv, [Next]_vars PROVE IInv'
  OBVIOUS
<1>1. CASE Audit
  BY <1>1, EndPreserves, RenderPreserves, SearchPreserves DEF Audit
<1>2. CASE PatchTool
  BY <1>2, EndPreserves, RenderPreserves, FilesPreserve DEF PatchTool
<1>3. CASE Installer
  BY <1>3, FilesPreserve DEF Installer
<1>4. CASE Interrupted \/ ForeignUpdate
  BY <1>4, EndPreserves
<1>5. CASE UNCHANGED vars
  BY <1>5 DEF vars, files, locals, search, IInv, TypeOK, ApprovedSound, Approved,
              RenderKnows, PatchKnows, InstallKnows, TargetKnown, SearchKnows, Goal
<1> QED
  BY <1>1, <1>2, <1>3, <1>4, <1>5 DEF Next

\* The invariant holds at every moment, for any contents, drafts and
\* interruptions.
THEOREM InductiveInvariant == Spec => []IInv
<1> QED
  BY InitHolds, Preserved, PTL DEF Spec

\* The executable, the backups and the variables of the tools
\* (patch-gameviewer.py, audit-gameviewer.py, install.sh) always have their
\* types.
THEOREM TypeCorrect == Spec => []TypeOK
<1>1. IInv => TypeOK
  BY DEF IInv
<1> QED
  BY <1>1, InductiveInvariant, PTL

\* Whatever dies at whatever moment, GameViewerServer.exe is a file that
\* somebody else put there whole, or an original with exactly the bytes of
\* an approved review changed (render_patched, atomic_write).
THEOREM TargetSound == Spec => []OnlyReviewedBytes
<1>1. IInv => OnlyReviewedBytes
  <2> SUFFICES ASSUME IInv, target \notin Foreign \cup {Absent}
               PROVE  \E d \in Approved : Reviewed(d, target)
    BY DEF OnlyReviewedBytes
  <2>1. PICK d \in Approved : target = patched[d]
    BY DEF IInv, TargetKnown
  <2>2. Progress(d, target, Len(d.patches))
    BY <2>1 DEF IInv, ApprovedSound
  <2> QED
    BY <2>2 DEF Progress, Reviewed
<1> QED
  BY <1>1, InductiveInvariant, PTL

\* While the executable is a patched one its original is at hand: beside it,
\* or among the backups that install.sh moved away (patch_file, install.sh).
THEOREM OriginalSafe == Spec => []OriginalKept
<1>1. IInv => OriginalKept
  BY DEF IInv, TargetKnown, OriginalKept, Approved
<1> QED
  BY <1>1, InductiveInvariant, PTL

\* masked_candidates reports every place where the unchanged bytes of a patch
\* stand, and no other, in any executable.
THEOREM SearchFindsAll == Spec => []SearchComplete
<1>1. IInv => SearchComplete
  BY DEF IInv, SearchKnows, SearchComplete
<1> QED
  BY <1>1, InductiveInvariant, PTL
=============================================================================
