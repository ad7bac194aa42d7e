------------------------------- MODULE Files -------------------------------
(***************************************************************************)
(* cat and cp (RunCat, RunCp): an image or one of its layers is merged,    *)
(* a path resolved in the result, and contents read a second time from     *)
(* the archives.  Resolving is one answer of module Lookup, which Resolve  *)
(* implements; copying is one step, whose own steps, on the disk copied    *)
(* to, are those of module Copier; reading is taken from what Content      *)
(* does: the first header that holds bytes under the name.                 *)
(***************************************************************************)
EXTENDS Commands, Lookup

VARIABLE data  \* what a command has made for its view, one record for cat and cp

\* FS.entries, and the entry Resolve returns for the path it answers with:
\* the root is a directory made up for it.
Entries(fs) == [p \in {e.path : e \in fs} |-> CHOOSE e \in fs : e.path = p]

RootEntry == [path |-> Root, kind |-> "dir", mode |-> "", link |-> << >>,
              layer |-> 0, content |-> NoContent]

EntryAt(fs, p) == IF p = Root THEN RootEntry ELSE Entries(fs)[p]

IsRegular(e) == e.kind \in {"reg", "hardlink"}

ContentPath(e) == IF e.kind = "hardlink" THEN Clean(e.link) ELSE e.path

\* What is read of archive: one content, or none.
BytesIn(archive, e) ==
  LET holders == {k \in DOMAIN archive : /\ archive[k].kind = "reg"
                                         /\ Clean(archive[k].name) = ContentPath(e)}
  IN  IF holders = {} THEN {} ELSE {archive[Min(holders)].content}

\* mutant: an entry's layer is looked up among all layers of the image
BytesOfImage(e) == BytesIn(image.layers[e.layer], e)

\* Entry.Layer counts the layers the filesystem was built from.
Bytes(e) == BytesIn(Chosen[e.layer], e)

-----------------------------------------------------------------------------
\* The path leads to an entry the command can read; cp takes directories too.
Find ==
  /\ pc = "find"
  /\ \E answer \in Answers(Entries(loaded[1].entries), input.path) :
       LET e      == EntryAt(loaded[1].entries, answer.path)
           usable == answer.outcome = "found" /\ (IsRegular(e) \/ (IsDir(e) /\ input.name = "cp"))
       IN  IF usable THEN pc' = "read" /\ out' = {e} ELSE pc' = "failed" /\ UNCHANGED out
  /\ UNCHANGED <<input, ref, image, asked, loaded, dirs, todo, lines, data>>

target == CHOOSE e \in out : TRUE

\* The content as far as it can be read: a stream may break off.
OpenFile ==
  /\ pc = "read" /\ input.name = "cat" /\ pc' = "done"
  /\ \E content \in Bytes(target) :
       data' = [path |-> target.path, content |-> content, whole |-> ~input.broken]
  /\ UNCHANGED context

Copied ==
  IF IsDir(target) THEN Under(loaded[1].entries, target.path) ELSE {target}

Counted(entries) == Cardinality({e \in entries : IsRegular(e) \/ e.kind = "symlink"})

\* A copy that goes well has every regular file's content.
Copy ==
  /\ pc = "read" /\ input.name = "cp" /\ pc' = "done"
  /\ \A e \in Copied : IsRegular(e) => Bytes(e) # {}
  /\ data' = [files   |-> Counted(Copied),
              skipped |-> Cardinality({e \in Copied : e.kind = "device"}),
              contents |-> UNION {{[path |-> e.path, content |-> c] : c \in Bytes(e)} :
                                    e \in {f \in Copied : IsRegular(f)}}]
  /\ UNCHANGED context

\* The layer cannot be read again, the content is not in it, or the disk
\* refuses (module Copier has what is on it then).
ReadFails == pc = "read" /\ Fail /\ UNCHANGED data

Reading == OpenFile \/ Copy \/ ReadFails
-----------------------------------------------------------------------------
(***************************************************************************)
(* Properties.                                                             *)
(***************************************************************************)

\* The archive gives no path twice and its hardlinks name regular files in it.
OrdinaryArchive(a) ==
  /\ \A p \in Path : Cardinality(Positions(a, p)) <= 1
  /\ \A k \in DOMAIN a : Adds(a[k]) /\ a[k].kind = "hardlink" =>
       \E j \in Positions(a, Clean(a[k].link)) : a[j].kind = "reg"

\* The entry the kernel finds at the path in the image, or the layer, chosen.
KernelsEntry ==
  EntryAt(loaded[1].entries, Kernel(Entries(loaded[1].entries), input.path).path)

\* cat prints, and cp copies, what the merged filesystem, or the layer asked
\* for, has at the path a kernel would walk to: every content is the one Build
\* recorded for that file, although it is read from an archive found by an
\* index and a name only (README.md:92-93, fs.go:11-13, cp.go:207).
ReadsTheChosenLayers ==
  /\ pc = "done" /\ input.name \in {"cat", "cp"}
  /\ \A k \in DOMAIN Chosen : OrdinaryArchive(Chosen[k])
  /\ PlainInput(Entries(loaded[1].entries), input.path)
  =>
    LET e == KernelsEntry
        below == IF IsDir(e) THEN {f \in loaded[1].entries : IsPrefix(e.path, f.path)} ELSE {e}
    IN  IF input.name = "cat" THEN data.path = e.path /\ data.content = e.content
        ELSE data.contents = {[path |-> f.path, content |-> f.content] :
                                f \in {g \in below : IsRegular(g)}}
=============================================================================
