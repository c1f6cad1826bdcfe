---------------------------- MODULE ServerPatch ----------------------------
(***************************************************************************)
(* GameViewerServer.exe and the tools that change it: audit-gameviewer.py  *)
(* finds and approves patches, patch-gameviewer.py applies and reverts     *)
(* them, and install.sh puts a release in place and calls it.  One of      *)
(* these programs runs at a time; it may die between any two steps, and    *)
(* others (the vendor's updater, a user) may replace the executable        *)
(* meanwhile.                                                              *)
(***************************************************************************)
EXTENDS PatchBytes

CONSTANTS
  Byte,
  Drafts,       \* reviewed drafts: the original they were made for, patches
  Foreign,      \* contents that others may put in the executable's place
  Absent        \* no such file; no such manifest

Patches == [at : Nat \ {0}, old : Seq(Byte), new : Seq(Byte)]

\* A draft is made of a file of the vendor.
DraftsAssumption ==
  /\ Drafts \subseteq [original : Foreign, patches : Seq(Patches)]
  /\ Foreign \subseteq Seq(Byte)
  /\ Absent \notin Seq(Byte) /\ Absent \notin Drafts

ASSUME DraftsAssumption

VARIABLES
  target,       \* GameViewerServer.exe
  backup,       \* GameViewerServer.exe.uu-original
  kept,         \* compat/release-backups/VERSION, by release
  installed,    \* compat/release-manifest.json: the release it names
  patched,      \* patched_sha256 of an approved manifest, by release
  pc,           \* next step of the program that runs
  cmd,          \* what it was started for
  man,          \* the release it works on
  data,         \* what it read
  output,       \* what it is making of it
  k,            \* the patch its loop has come to
  anchor, from, found     \* the search of masked_candidates

files == <<target, backup, kept, installed>>
search == <<anchor, from, found>>
locals == <<cmd, man, data, output, k, search>>
vars == <<files, patched, pc, locals>>

Contents == Seq(Byte) \cup {Absent}
Approved == {d \in Drafts : patched[d] # Absent}

Steps == {"idle", "keep", "drop", "setup", "check", "patch", "backup", "copy",
          "verify", "render", "write", "replace", "search", "report"}

Forget ==
  /\ cmd' = "none" /\ man' = Absent /\ data' = <<>> /\ output' = <<>> /\ k' = 1
  /\ anchor' = <<1, 1>> /\ from' = 1 /\ found' = {}

Return == pc' = "idle" /\ Forget

Init ==
  /\ target \in Foreign \cup {Absent} /\ backup = Absent
  /\ kept = [d \in Drafts |-> Absent] /\ installed = Absent
  /\ patched = [d \in Drafts |-> Absent]
  /\ pc = "idle"
  /\ cmd = "none" /\ man = Absent /\ data = <<>> /\ output = <<>> /\ k = 1
  /\ anchor = <<1, 1>> /\ from = 1 /\ found = {}

-----------------------------------------------------------------------------
(* audit-gameviewer.py *)

\* Start looking for patch j of an approved release in another executable.
Inspect(d, j, server) ==
  /\ pc = "idle" /\ d \in Approved
  /\ Fixed(d.patches[j]) # {}
  /\ \E r \in FixedRuns(d.patches[j]) :
       IsAnchor(d.patches[j], r) /\ anchor' = r
  /\ pc' = "search" /\ cmd' = "inspect"
  /\ man' = d /\ k' = j /\ data' = server /\ from' = 1 /\ found' = {}
  /\ UNCHANGED <<files, patched, output>>

Goal == man.patches[k]

FirstAnchorAt(pos) ==
  /\ AnchorOccurs(data, Goal, anchor, pos)
  /\ \A q \in from..(pos - 1) : ~AnchorOccurs(data, Goal, anchor, q)

\* MUTANT of SearchNext: goes on behind the anchor, as if matches could not
\* overlap.
SearchNext_Skips ==
  /\ pc = "search"
  /\ \E pos \in from..Len(data) :
       LET start == pos - anchor[1] + 1 IN
       /\ FirstAnchorAt(pos)
       /\ found' = IF FixedBytesStand(data, Goal, start)
                   THEN found \cup {start} ELSE found
       /\ from' = pos + anchor[2] - anchor[1] + 1
  /\ UNCHANGED <<files, patched, pc, cmd, man, data, output, k, anchor>>

\* One turn of the loop of masked_candidates.
SearchNext ==
  /\ pc = "search"
  /\ \E pos \in from..Len(data) :
       LET start == pos - anchor[1] + 1 IN
       /\ FirstAnchorAt(pos)
       /\ found' = IF FixedBytesStand(data, Goal, start)
                   THEN found \cup {start} ELSE found
       /\ from' = pos + 1
  /\ UNCHANGED <<files, patched, pc, cmd, man, data, output, k, anchor>>

SearchEnds ==
  /\ pc = "search"
  /\ \A pos \in from..Len(data) : ~AnchorOccurs(data, Goal, anchor, pos)
  /\ pc' = "report"
  /\ UNCHANGED <<files, patched, locals>>

\* The candidates go into a draft that nothing accepts before its review.
Report ==
  /\ pc = "report"
  /\ Return
  /\ UNCHANGED <<files, patched>>

\* A reviewed draft is to become a manifest.
Finalize(d) ==
  /\ pc = "idle" /\ d \notin Approved
  /\ WellFormed(d.patches)
  /\ OriginalSignatures(d.original, d.patches)
  /\ pc' = "render" /\ cmd' = "finalize"
  /\ man' = d /\ data' = d.original /\ output' = d.original /\ k' = 1
  /\ UNCHANGED <<files, patched, search>>

-----------------------------------------------------------------------------
(* render_patched, for `finalize' and for `patch' *)

RenderNext ==
  /\ pc = "render" /\ k <= Len(man.patches)
  /\ output' = Splice(output, man.patches[k])
  /\ k' = k + 1
  /\ UNCHANGED <<files, patched, pc, cmd, man, data, search>>

\* The result has every signature once; then its digest is recorded by
\* finalize, and compared with the recorded one by patch.
Accepted ==
  /\ PatchedSignatures(output, man.patches)
  /\ cmd = "finalize" => output # man.original
  /\ cmd = "patch" => output = patched[man]

Rendered == pc = "render" /\ k > Len(man.patches)

Approve ==
  /\ Rendered /\ Accepted /\ cmd = "finalize"
  /\ patched' = [patched EXCEPT ![man] = output]
  /\ Return
  /\ UNCHANGED files

MakePatched ==
  /\ Rendered /\ Accepted /\ cmd = "patch"
  /\ pc' = "write"
  /\ UNCHANGED <<files, patched, locals>>

RenderRefused ==
  /\ Rendered /\ ~Accepted
  /\ Return
  /\ UNCHANGED <<files, patched>>

-----------------------------------------------------------------------------
(* patch-gameviewer.py: the manifests it was given must not name a digest  *)
(* twice, so that at most one of them knows a file.                        *)

Digests(d) == {d.original, patched[d]}

Loads(ms) ==
  /\ ms # {} /\ ms \subseteq Approved
  /\ \A d, e \in ms : d # e => Digests(d) \cap Digests(e) = {}

\* --manifest names one, and without it all of patches/ are loaded.
Given == {{d} : d \in Approved} \cup {Approved}

\* patch_file has read an original that a manifest knows.  A patched or an
\* unknown target ends the program without a change.
ReadTarget(d) ==
  /\ target = d.original /\ OriginalSignatures(target, d.patches)
  /\ pc' = "backup" /\ cmd' = "patch" /\ man' = d /\ data' = target
  /\ UNCHANGED <<files, patched, output, k, search>>

Patch ==
  /\ pc = "idle"
  /\ \E ms \in Given : Loads(ms) /\ \E d \in ms : ReadTarget(d)

\* MUTANT of CheckBackup: trusts any file of that name.
CheckBackup_AnyFile ==
  /\ pc = "backup"
  /\ IF backup = Absent THEN pc' = "copy" /\ UNCHANGED locals
     ELSE /\ pc' = "render" /\ output' = data /\ k' = 1
          /\ UNCHANGED <<cmd, man, data, search>>
  /\ UNCHANGED <<files, patched>>

CheckBackup ==
  /\ pc = "backup"
  /\ \/ /\ backup = Absent
        /\ pc' = "copy"
        /\ UNCHANGED locals
     \/ /\ backup = man.original
        /\ pc' = "render" /\ output' = data /\ k' = 1
        /\ UNCHANGED <<cmd, man, data, search>>
     \/ /\ backup \notin {Absent, man.original}
        /\ Return
  /\ UNCHANGED <<files, patched>>

\* shutil.copy2 copies what stands there now, not what was read.
CopyBackup ==
  /\ pc = "copy"
  /\ IF target = Absent THEN Return /\ UNCHANGED backup
     ELSE backup' = target /\ pc' = "verify" /\ UNCHANGED locals
  /\ UNCHANGED <<target, kept, installed, patched>>

VerifyBackup ==
  /\ pc = "verify"
  /\ \/ /\ backup = man.original
        /\ pc' = "render" /\ output' = data /\ k' = 1
        /\ UNCHANGED <<cmd, man, data, search>>
     \/ backup # man.original /\ Return
  /\ UNCHANGED <<files, patched>>

\* restore_file has compared backup and target with one manifest.
Restore ==
  /\ pc = "idle"
  /\ \E ms \in Given : Loads(ms) /\ \E d \in ms :
       /\ backup = d.original /\ OriginalSignatures(backup, d.patches)
       /\ target \in Digests(d) \cup {Absent}
       /\ man' = d
  /\ pc' = "write" /\ cmd' = "restore" /\ output' = backup
  /\ UNCHANGED <<files, patched, data, k, search>>

\* MUTANT of WriteTemporary: truncates and writes the file in place.
WriteTemporary_InPlace ==
  /\ pc = "write" /\ ~(cmd = "patch" /\ target = Absent)
  /\ target' = SubSeq(output, 1, Len(output) - 1)
  /\ pc' = "replace"
  /\ UNCHANGED <<backup, kept, installed, patched, locals>>

\* atomic_write: a file of a name of its own, flushed to the disk.  The mode of
\* a file that has gone cannot be read.
WriteTemporary ==
  /\ pc = "write" /\ ~(cmd = "patch" /\ target = Absent)
  /\ pc' = "replace"
  /\ UNCHANGED <<files, patched, locals>>

Replace ==
  /\ pc = "replace"
  /\ target' = output
  /\ Return
  /\ UNCHANGED <<backup, kept, installed, patched>>

-----------------------------------------------------------------------------
(* install.sh, as far as it touches these files *)

\* A run for release d; `upgrade' is --upgrade-existing.  Whether the vendor's
\* installer runs depends on GameViewer.exe, which may be there or not whatever
\* has become of the server.
Install(d, upgrade) ==
  /\ pc = "idle" /\ d \in Approved
  /\ \/ pc' = "setup"
     \/ ~upgrade /\ pc' = "check"
     \/ upgrade /\ installed # Absent /\ pc' = "keep"
  /\ cmd' = "install" /\ man' = d
  /\ UNCHANGED <<files, patched, data, output, k, search>>

\* The backup of the release that is leaving moves to release-backups.
KeepBackup ==
  /\ pc = "keep"
  /\ IF backup = Absent THEN pc' = "setup" /\ UNCHANGED kept
     ELSE pc' = "drop" /\ kept' = [kept EXCEPT ![installed] = backup]
  /\ UNCHANGED <<target, backup, installed, patched, locals>>

DropBackup ==
  /\ pc = "drop"
  /\ backup' = Absent
  /\ pc' = "setup"
  /\ UNCHANGED <<target, kept, installed, patched, locals>>

SetUp ==
  /\ pc = "setup"
  /\ target' = man.original
  /\ pc' = "check"
  /\ UNCHANGED <<backup, kept, installed, patched, locals>>

\* `verify' must know the executable; then the manifest is installed.
CheckTarget ==
  /\ pc = "check"
  /\ IF target \in Digests(man) THEN pc' = "patch" /\ installed' = man /\ UNCHANGED locals
     ELSE Return /\ UNCHANGED installed
  /\ UNCHANGED <<target, backup, kept, patched>>

PatchInstalled ==
  /\ pc = "patch"
  /\ IF target = man.original THEN ReadTarget(man)
     ELSE Return /\ UNCHANGED <<files, patched>>

-----------------------------------------------------------------------------
(* Everybody else *)

\* The program dies, or a copy fails: a copy that was under way stays as far
\* as it had come.
Interrupted ==
  /\ pc # "idle"
  /\ Return
  /\ \/ UNCHANGED <<target, backup, kept>>
     \/ pc = "copy" /\ backup' = <<>> /\ UNCHANGED <<target, kept>>
     \/ /\ pc = "keep" /\ backup # Absent
        /\ kept' = [kept EXCEPT ![installed] = <<>>] /\ UNCHANGED <<target, backup>>
     \/ /\ pc = "setup"
        /\ target' \in Foreign \cup {Absent} /\ UNCHANGED <<backup, kept>>
  /\ UNCHANGED <<installed, patched>>

\* An update of the vendor, or a user, replaces or removes the executable.
ForeignUpdate ==
  /\ target' \in Foreign \cup {Absent}
  /\ UNCHANGED <<backup, kept, installed, patched, pc, locals>>

Audit ==
  \/ \E d \in Drafts, server \in Foreign : \E j \in 1..Len(d.patches) : Inspect(d, j, server)
  \/ SearchNext \/ SearchEnds \/ Report
  \/ \E d \in Drafts : Finalize(d)
  \/ Approve

PatchTool ==
  \/ RenderNext \/ MakePatched \/ RenderRefused
  \/ Patch \/ CheckBackup \/ CopyBackup \/ VerifyBackup
  \/ Restore \/ WriteTemporary \/ Replace

Installer ==
  \/ \E d \in Drafts, upgrade \in BOOLEAN : Install(d, upgrade)
  \/ KeepBackup \/ DropBackup \/ SetUp \/ CheckTarget \/ PatchInstalled

Next == Audit \/ PatchTool \/ Installer \/ Interrupted \/ ForeignUpdate

Spec == Init /\ [][Next]_vars

-----------------------------------------------------------------------------
(* Correctness *)

TypeOK ==
  /\ target \in Contents /\ backup \in Contents
  /\ kept \in [Drafts -> Contents] /\ installed \in Drafts \cup {Absent}
  /\ patched \in [Drafts -> Contents]
  /\ pc \in Steps
  /\ cmd \in {"none", "inspect", "finalize", "patch", "restore", "install"}
  /\ man \in Drafts \cup {Absent}
  /\ data \in Seq(Byte) /\ output \in Contents
  /\ k \in Nat \ {0}
  /\ anchor \in Nat \X Nat /\ from \in Nat \ {0} /\ found \subseteq Int

\* The content that a review of release d asked for: the bytes of each patch,
\* and the original's everywhere else.
Reviewed(d, content) ==
  /\ Len(content) = Len(d.original)
  /\ \A j \in 1..Len(d.patches) : \A i \in 1..Len(d.patches[j].new) :
       content[d.patches[j].at + i - 1] = d.patches[j].new[i]
  /\ \A i \in 1..Len(content) :
       (\A j \in 1..Len(d.patches) : i \notin Region(d.patches[j]))
         => content[i] = d.original[i]

\* Whoever dies at whatever moment, the executable is a file that somebody
\* else put there whole, or an original with exactly the reviewed bytes
\* changed (atomic_write, render_patched and the checks around it).
OnlyReviewedBytes ==
  target \in Foreign \cup {Absent} \/ \E d \in Approved : Reviewed(d, target)

\* While the executable is a patched one, the original that it was made of
\* exists: beside it, or among the backups of the releases that were replaced
\* (patch_file's backup, and its move by install.sh).
OriginalKept ==
  target \notin Foreign \cup {Absent} =>
    \E d \in Approved :
      /\ target = patched[d]
      /\ d.original \in {backup} \cup {kept[e] : e \in Drafts}

\* The search of masked_candidates, which goes from one occurrence of the
\* longest unchanged run to the next, has found every place where the
\* unchanged bytes of the patch stand, and no other.
SearchComplete ==
  pc = "report" =>
    found = {s \in 1..Len(data) : FixedBytesStand(data, Goal, s)}

-----------------------------------------------------------------------------
(* The inductive invariant behind the proofs.                              *)

\* `content' after the first n patches of release d have been written.
Progress(d, content, n) ==
  /\ content \in Seq(Byte) /\ Len(content) = Len(d.original)
  /\ \A j \in 1..n : \A i \in 1..Len(d.patches[j].new) :
       content[d.patches[j].at + i - 1] = d.patches[j].new[i]
  /\ \A i \in 1..Len(content) :
       (\A j \in 1..n : i \notin Region(d.patches[j])) => content[i] = d.original[i]

Applicable(d) == WellFormed(d.patches) /\ OriginalSignatures(d.original, d.patches)

ApprovedSound ==
  \A d \in Approved :
    /\ Applicable(d)
    /\ PatchedSignatures(patched[d], d.patches)
    /\ Progress(d, patched[d], Len(d.patches))

RenderKnows ==
  pc = "render" =>
    /\ cmd \in {"patch", "finalize"} /\ man \in Drafts /\ Applicable(man)
    /\ k <= Len(man.patches) + 1
    /\ cmd = "finalize" => man \notin Approved
    /\ Progress(man, output, k - 1)

Patching == {"backup", "copy", "verify", "render", "write", "replace"}

PatchKnows ==
  pc \in Patching =>
    /\ cmd = "patch" =>
         /\ man \in Approved /\ data = man.original
         /\ target \in Foreign \cup {Absent}
         /\ pc \in {"render", "write", "replace"} => backup = man.original
         /\ pc \in {"write", "replace"} => output = patched[man]
    /\ pc \in {"backup", "copy", "verify"} => cmd = "patch"
    /\ pc \in {"write", "replace"} => cmd \in {"patch", "restore"}
    /\ pc \in {"write", "replace"} /\ cmd = "restore" => output \in Foreign

InstallKnows ==
  /\ pc \in {"keep", "drop", "setup", "check", "patch"} => man \in Approved
  /\ pc \in {"keep", "drop"} => installed \in Drafts
  /\ pc = "drop" => backup # Absent /\ kept[installed] = backup

TargetKnown ==
  \/ target \in Foreign \cup {Absent}
  \/ \E d \in Approved :
       /\ target = patched[d]
       /\ \/ backup = d.original
          \/ backup = Absent /\ \E e \in Drafts : kept[e] = d.original

SearchKnows ==
  pc \in {"search", "report"} =>
    /\ man \in Drafts /\ k \in 1..Len(man.patches)
    /\ anchor \in FixedRuns(Goal)
    /\ found = {s \in 1..Len(data) :
                  /\ FixedBytesStand(data, Goal, s)
                  /\ pc = "search" => s + anchor[1] - 1 < from}

IInv ==
  /\ TypeOK /\ ApprovedSound /\ RenderKnows /\ PatchKnows /\ InstallKnows
  /\ TargetKnown /\ SearchKnows

=============================================================================
