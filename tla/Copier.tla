------------------------------- MODULE Copier -------------------------------
(***************************************************************************)
(* cp after the image is merged and the source resolved (RunCp from        *)
(* internal/command/cp.go:82 on): where the copy lands, then copyFile, or  *)
(* copyTree in its three passes: directories and symlinks in path order,   *)
(* contents layer by layer, directory modes.                               *)
(*                                                                         *)
(* An entry is what overlay shows below the source: rel is its path from   *)
(* the source on, link a raw name, mode the owner's bits.                  *)
(***************************************************************************)
EXTENDS Disk

CONSTANTS
  Sources,  \* what may be copied, as [root, base, contentsOnly, tree]: the
            \* resolved entry, path.Base of its path (<< >> for the root), the
            \* source ends in "/.", and what Under lists, in its order
  Disks,    \* the disks copied to
  Dests     \* the clean destination paths

\* "partial" is what is there of a content that was cut, and no entry's own.
Entry == [rel : Seq(Names), kind : STRING, mode : SUBSET STRING, link : Seq(Word),
          layer : Nat, content : STRING \ {"partial"}]

\* Under lists a directory, and sorts by path: what is below a path comes after
\* it, and no path comes twice.
ASSUME SourcesAssumption ==
  \A s \in Sources :
    /\ s \in [root : Entry, base : Seq(Names), contentsOnly : BOOLEAN, tree : Seq(Entry)]
    /\ \A k \in DOMAIN s.tree : s.tree[k].rel = << >> => s.tree[k].kind = "dir"
    /\ \A j, k \in DOMAIN s.tree : IsPrefix(s.tree[j].rel, s.tree[k].rel) => j <= k

ASSUME DisksAssumption == \A d \in Disks : IsDisk(d)
ASSUME DestsAssumption == Dests \subseteq Seq(Names)

VARIABLES
  before,   \* the disk before the copy
  source, dest,
  target,   \* where the copy lands
  pc,       \* "target", "file", "plan", "write", "modes", or how it returned
  error,    \* why, for a failed call
  disk,
  at,       \* the next entry to plan
  pending,  \* byLayer: the regular entries still to be written
  dirs,     \* the directories whose modes are still to be set, in order
  files, skipped

input    == <<before, source, dest>>
lists    == <<pending, dirs>>
counters == <<files, skipped>>
vars     == <<input, target, pc, error, disk, at, lists, counters>>

IsRegular(e) == e.kind \in {"reg", "hardlink"}

Outcomes == {"ok", "unsupported", "refused", "planError", "writeError", "readError", "modeError"}

Init ==
  /\ before \in Disks /\ source \in Sources /\ dest \in Dests
  /\ disk = before
  /\ target = dest /\ pc = "target" /\ error = NoError
  /\ at = 1 /\ pending = {} /\ dirs = << >> /\ files = 0 /\ skipped = 0

\* The end of a call, with the disk the last operation left.
Return(outcome, r) ==
  /\ pc' = outcome /\ disk' = r.disk /\ error' = r.error
  /\ UNCHANGED <<input, target, at, lists, counters>>

\* On to another pass.
Enter(pass) == pc' = pass /\ UNCHANGED <<input, target, error, disk, at, lists, counters>>

Here(e) == target \o e.rel

-----------------------------------------------------------------------------
\* RunCp: a file lands at the destination or inside it if that is a directory,
\* a directory too unless only its contents are asked for.
Target ==
  IF Stat(disk, dest) = "dir" /\ ~(source.root.kind = "dir" /\ source.contentsOnly)
  THEN dest \o source.base ELSE dest

ChooseTarget ==
  /\ pc = "target"
  /\ target' = Target
  /\ pc' = IF source.root.kind = "dir" THEN "tree" ELSE "file"
  /\ UNCHANGED <<input, error, disk, at, lists, counters>>

\* perm: of the mode, which may have "s" (setuid, setgid), only rwx.
Perm(e) == e.mode \cap Full

\* mutant: the mode OpenFile gave is left as it is
WrittenOnly(d, p, e) == WriteFile(d, p, Perm(e), e.content)

\* writeFile: create, copy, set the image's bits.
Written(d, p, e) ==
  LET w == WriteFile(d, p, Perm(e), e.content) IN
  IF ~Fails(w) THEN Chmod(w.disk, p, Perm(e)) ELSE w

\* The content stops coming, or the disk is full, after the file was opened.
Cut(d, p, e) == WriteFile(d, p, Perm(e), "partial")

-----------------------------------------------------------------------------
\* copyFile

Unsupported ==
  pc = "file" /\ ~IsRegular(source.root) /\ Return("unsupported", Failed(disk, "not regular"))

FileParent == MkdirAll(disk, Front(target))

CopyFile ==
  /\ pc = "file" /\ IsRegular(source.root)
  /\ LET parent == FileParent
         w == Written(parent.disk, target, source.root) IN
     IF Fails(parent) THEN Return("planError", parent)
     ELSE IF Fails(w) THEN Return("writeError", w)
     ELSE /\ pc' = "ok" /\ disk' = w.disk /\ files' = 1
          /\ UNCHANGED <<input, target, error, at, lists, skipped>>

CopyFileReadError ==
  /\ pc = "file" /\ IsRegular(source.root)
  /\ \/ Return("readError", Failed(disk, "open"))
     \/ LET cut == Cut(FileParent.disk, target, source.root) IN
          /\ ~Fails(FileParent) /\ ~Fails(cut)
          /\ Return("readError", Failed(cut.disk, "copy"))

-----------------------------------------------------------------------------
\* copyTree, first pass.

MakeTarget ==
  /\ pc = "tree"
  /\ LET r == MkdirAll(disk, target) IN
     IF Fails(r) THEN Return("planError", r)
     ELSE /\ pc' = "plan" /\ disk' = r.disk
          /\ UNCHANGED <<input, target, error, at, lists, counters>>

\* The paths refuseSymlinkParents looks at, from the top down: filepath.Rel of
\* the entry's directory from the target, which is ".." for the target itself.
Parents(rel) ==
  IF rel = << >> THEN IF target = Root THEN << >> ELSE << Front(target) >>
  ELSE [k \in 1..(Len(rel) - 1) |-> target \o SubSeq(rel, 1, k)]

RefusalNever(rel) == NoError  \* mutant: symlinks are not looked for

\* What it finds: "symlink", an error other than ENOENT, or nothing.
Refusal(rel) ==
  LET found == [k \in DOMAIN Parents(rel) |-> Lstat(disk, Parents(rel)[k])]
      ends  == {k \in DOMAIN found : found[k] \notin {"dir", "file"}}
  IN  IF ends = {} \/ found[Min(ends)] = "ENOENT" THEN NoError ELSE found[Min(ends)]

entry == source.tree[at]
Planning == pc = "plan" /\ at <= Len(source.tree)
Passed   == Refusal(entry.rel) = NoError

Refuse ==
  /\ Planning
  /\ LET why == Refusal(entry.rel) IN
     why # NoError /\ Return(IF why = "symlink" THEN "refused" ELSE "planError", Failed(disk, why))

Planned(d) == at' = at + 1 /\ disk' = d /\ UNCHANGED <<input, target, pc, error>>

\* mutant: a directory gets its own mode at once
PlanDirMode ==
  /\ Planning /\ entry.kind = "dir" /\ Passed
  /\ LET r == Chmod(MkdirAll(disk, Here(entry)).disk, Here(entry), Perm(entry)) IN
     IF Fails(r) THEN Return("planError", r)
     ELSE Planned(r.disk) /\ dirs' = Append(dirs, entry) /\ UNCHANGED <<pending, counters>>

PlanDir ==
  /\ Planning /\ entry.kind = "dir" /\ Passed
  /\ LET r == MkdirAll(disk, Here(entry)) IN
     IF Fails(r) THEN Return("planError", r)
     ELSE Planned(r.disk) /\ dirs' = Append(dirs, entry) /\ UNCHANGED <<pending, counters>>

\* What is at the symlink's path is replaced, if it can be removed.
Linked(e) ==
  LET made    == MkdirAll(disk, Front(Here(e)))
      removed == RemoveNode(made.disk, Here(e))
  IN  IF Fails(made) THEN made
      ELSE IF Fails(removed) /\ removed.error # "ENOENT" THEN removed
      ELSE MakeSymlink(removed.disk, Here(e), e.link)

PlanSymlink ==
  /\ Planning /\ entry.kind = "symlink" /\ Passed
  /\ LET r == Linked(entry) IN
     IF Fails(r) THEN Return("planError", r)
     ELSE Planned(r.disk) /\ files' = files + 1 /\ UNCHANGED <<lists, skipped>>

\* mutant: a file is counted before it is written
PlanRegularCounted ==
  /\ Planning /\ IsRegular(entry) /\ Passed
  /\ Planned(disk) /\ pending' = pending \cup {entry} /\ files' = files + 1
  /\ UNCHANGED <<dirs, skipped>>

PlanRegular ==
  /\ Planning /\ IsRegular(entry) /\ Passed
  /\ Planned(disk) /\ pending' = pending \cup {entry} /\ UNCHANGED <<dirs, counters>>

\* Devices and fifos.
PlanSkip ==
  /\ Planning /\ entry.kind \notin {"dir", "symlink"} /\ ~IsRegular(entry) /\ Passed
  /\ Planned(disk) /\ skipped' = skipped + 1 /\ UNCHANGED <<lists, files>>

PlanEnd == pc = "plan" /\ at > Len(source.tree) /\ Enter("write")

-----------------------------------------------------------------------------
\* Second pass: Extract on each layer in turn, in the order of its archive.

\* The entries of the layer being extracted.
Extracted == {e \in pending : \A f \in pending : e.layer <= f.layer}

FileMade(e) ==
  LET made == MkdirAll(disk, Front(Here(e)))
  IN  IF Fails(made) THEN made ELSE Written(made.disk, Here(e), e)

\* mutant: an entry is handed over again
WriteEntryKept ==
  /\ pc = "write"
  /\ \E e \in Extracted :
       LET r == FileMade(e) IN
       /\ ~Fails(r) /\ disk' = r.disk /\ files' = files + 1
       /\ UNCHANGED <<input, target, pc, error, at, lists, skipped>>

WriteEntry ==
  /\ pc = "write"
  /\ \E e \in Extracted :
       LET r == FileMade(e) IN
       IF Fails(r) THEN Return("writeError", r)
       ELSE /\ disk' = r.disk
            /\ pending' = pending \ {e} /\ files' = files + 1
            /\ UNCHANGED <<input, target, pc, error, at, dirs, skipped>>

\* The archive fails between two entries, or in the middle of one.
ExtractError ==
  /\ pc = "write" /\ pending # {}
  /\ \/ Return("readError", Failed(disk, "extract"))
     \/ \E e \in Extracted :
          LET made == MkdirAll(disk, Front(Here(e)))
              cut  == Cut(made.disk, Here(e), e)
          IN  /\ ~Fails(made) /\ ~Fails(cut)
              /\ Return("readError", Failed(cut.disk, "copy"))

WriteEnd == pc = "write" /\ pending = {} /\ Enter("modes")

-----------------------------------------------------------------------------
\* Third pass: the directories' own modes.

SetMode ==
  /\ pc = "modes" /\ dirs # << >>
  /\ LET r == Chmod(disk, Here(Head(dirs)), Perm(Head(dirs))) IN
     IF Fails(r) THEN Return("modeError", r)
     ELSE /\ disk' = r.disk /\ dirs' = Tail(dirs)
          /\ UNCHANGED <<input, target, pc, error, at, pending, counters>>

Complete == pc = "modes" /\ dirs = << >> /\ Return("ok", Done(disk))

\* Any call may also fail for a reason of the disk's own, and leaves what was
\* done by then: some of the directories that were to be made, ...
Made(d, p) == {MkdirAll(d, SubSeq(p, 1, k)).disk : k \in 0..Len(p)}

\* ... a file that is cut, or whole and neither closed nor given its mode, ...
FileLeft(p, e) ==
  LET made == MkdirAll(disk, Front(p)) IN
  Made(disk, Front(p))
    \cup {WriteFile(made.disk, p, Perm(e), content).disk :
            content \in IF Fails(made) THEN {} ELSE {"partial", e.content}}

\* ... or nothing where a symlink is to be.
LinkLeft(e) ==
  LET made == MkdirAll(disk, Front(Here(e))) IN
  Made(disk, Front(Here(e)))
    \cup IF Fails(made) THEN {} ELSE {RemoveNode(made.disk, Here(e)).disk}

\* Nothing is made for an entry whose parents are still being looked at.
PlanLeft ==
  IF Passed /\ entry.kind = "dir" THEN Made(disk, Here(entry))
  ELSE IF Passed /\ entry.kind = "symlink" THEN LinkLeft(entry) ELSE {disk}

Broken(outcome, disks) == \E d \in disks : Return(outcome, Failed(d, "EIO"))

DiskError ==
  \/ /\ pc = "file" /\ IsRegular(source.root)
     /\ Broken("writeError", FileLeft(target, source.root))
  \/ pc = "tree" /\ Broken("planError", Made(disk, target))
  \/ Planning /\ Broken("planError", PlanLeft)
  \/ /\ pc = "write"
     /\ \E e \in Extracted : Broken("writeError", FileLeft(Here(e), e))
  \/ pc = "modes" /\ dirs # << >> /\ Broken("modeError", {disk})

Returned == pc \in Outcomes /\ UNCHANGED vars

Next ==
  \/ ChooseTarget \/ Unsupported \/ CopyFile \/ CopyFileReadError
  \/ MakeTarget \/ Refuse \/ PlanDir \/ PlanSymlink \/ PlanRegular \/ PlanSkip \/ PlanEnd
  \/ WriteEntry \/ ExtractError \/ WriteEnd
  \/ SetMode \/ Complete \/ DiskError \/ Returned

Spec == Init /\ [][Next]_vars
-----------------------------------------------------------------------------
(***************************************************************************)
(* Properties.                                                             *)
(***************************************************************************)

\* Every variable holds a value of its kind; in particular no entry is counted
\* twice and no directory that holds something is ever lost.
TypeOK ==
  /\ pc \in {"target", "file", "tree", "plan", "write", "modes"} \cup Outcomes
  /\ target \in {dest, dest \o source.base}
  /\ at \in 1..(Len(source.tree) + 1)
  /\ pending \subseteq {source.tree[k] : k \in 1..(at - 1)}
  /\ files + skipped + Cardinality(pending) <= Len(source.tree) + 1
  /\ \A q \in DOMAIN disk : q # Root => Kind(disk, Front(q)) = "dir"

\* Where the target really is, past the symlinks on the way to it.
Real == Walk(MkdirAll(before, target).disk, target, Follow).at

CopiesTree == source.root.kind = "dir" /\ pc # "target"

\* No symlink was below the target, really at r, before the copy.
FreshBelow(r) == \A q \in DOMAIN before : IsStrictPrefix(r, q) => before[q].kind # "symlink"

\* "A layer can ship a symlink and then files inside it; writing those would
\* land wherever the link points, possibly outside root" (cp.go:257-259): at
\* every point of the copy of a tree, what is not below the target is as it
\* was, but for the target's own new parents.
NothingOutside ==
  LET r == Real IN
  CopiesTree /\ FreshBelow(r) =>
    /\ \A q \in DOMAIN before : ~IsPrefix(r, q) => q \in DOMAIN disk /\ disk[q] = before[q]
    /\ \A q \in DOMAIN disk \ DOMAIN before : IsPrefix(r, q) \/ IsPrefix(q, r)

\* The entry is on disk, the target being at r: its content and permissions, or
\* its link.
Copied(r, e) ==
  LET q == r \o e.rel IN
  /\ q \in DOMAIN disk
  /\ \/ e.kind = "dir" /\ disk[q] = Directory(Perm(e))
     \/ IsRegular(e) /\ disk[q] = File(Perm(e), e.content)
     \/ e.kind = "symlink" /\ disk[q] = Symlink(e.link)

\* A copy that reports success has copied everything but devices and fifos, the
\* permissions of files and directories included (README.md:112-127).  They are
\* what perm leaves of a mode: setuid, setgid and sticky go.
CopiesTheTree ==
  LET r == Real IN
  pc = "ok" /\ CopiesTree /\ FreshBelow(r) =>
    \A k \in DOMAIN source.tree :
      LET e == source.tree[k] IN
      e.kind \in {"dir", "symlink"} \/ IsRegular(e) => Copied(r, e)

\* "OpenFile applies the umask; set the image's bits exactly" (cp.go:243): a
\* file that was copied has the mode the image gives it.
SpecialBitsAreKept ==
  LET r == Real IN
  pc = "ok" /\ CopiesTree /\ FreshBelow(r) =>
    \A k \in DOMAIN source.tree :
      IsRegular(source.tree[k]) => disk[r \o source.tree[k].rel].mode = source.tree[k].mode

\* No file was there before with the content and permissions it is to get.
NewHere(r) ==
  \A k \in DOMAIN source.tree :
    LET e == source.tree[k]
        q == r \o e.rel
    IN  IsRegular(e) /\ q \in DOMAIN before => before[q] # File(Perm(e), e.content)

\* A file or symlink is counted only once it is there, whole, and on success
\* all are (cp.go:198 and 248).  When none was there before, all that are there
\* are counted at every point, but one whose Close or Chmod failed after it was
\* written (cp.go:239-246).
CountsWhatIsThere ==
  LET r == Real
      there == {k \in DOMAIN source.tree :
                  source.tree[k].kind # "dir" /\ Copied(r, source.tree[k])}
  IN  CopiesTree /\ FreshBelow(r) =>
        /\ files <= Cardinality(there)
        /\ pc = "ok" => files = Cardinality(there)
        /\ NewHere(r) => Cardinality(there) <= files + IF pc = "writeError" THEN 1 ELSE 0

\* "Directories get their final mode last, so a read-only directory does not
\* block the files written into it" (cp.go:182-183).  A symlink that was there
\* may lead one file to another, which is read-only once written.
FilesAreNotBlocked ==
  (\A q \in DOMAIN before : Full \subseteq before[q].mode)
    /\ (CopiesTree => FreshBelow(Real)) /\ pc \in {"planError", "writeError"} =>
      error # "EACCES"

\* "refuseSymlinkParents errors when any directory between root and p is a
\* symlink on disk" (cp.go:257-258): only then does it refuse, the root being
\* the target.
RefusesOnlyLinksBetween ==
  pc = "refused" =>
    \E k \in 1..(Len(entry.rel) - 1) : Lstat(disk, target \o SubSeq(entry.rel, 1, k)) = "symlink"
=============================================================================
