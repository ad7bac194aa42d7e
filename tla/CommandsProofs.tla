--------------------------- MODULE CommandsProofs ---------------------------
(***************************************************************************)
(* What ls, tree, diff, cat and cp make of the filesystems they work on,   *)
(* for every image and every path and pattern, and that the two views of a *)
(* command say the same of it.                                             *)
(***************************************************************************)
EXTENDS ProgramProofs, LookupProofs

-----------------------------------------------------------------------------
\* diff: of two sets of files and the differences found between them.

\* A file that is on both sides and not told as modified looks the same on
\* both, and is a directory on both or on neither.
LEMMA SameUnlessModified ==
  ASSUME NEW a, NEW b, ~(~(IsDir(a) /\ IsDir(b)) /\ FileChanged(a, b))
  PROVE  /\ IsDir(a) <=> IsDir(b)
         /\ ~IsDir(a) => FileState(a) = FileState(b)
BY DEF IsDir, FileChanged, FileState

\* Only the state of a directory has the type of one.
LEMMA StateOfDirectory == \A e : FileState(e).type = "dir" <=> IsDir(e)
BY DEF FileState, IsDir

\* What the differences D between two sets of entries are, path by path.
AreDifferences(D, as, bs) ==
  /\ \A d \in D : \A t \in d.b :
       t.type # "dir" => \E e \in bs : e.path = d.path /\ t = FileState(e) /\ ~IsDir(e)
  /\ \A d \in D : \A t \in d.a :
       t.type # "dir" => \E e \in as : e.path = d.path /\ t = FileState(e) /\ ~IsDir(e)
  /\ \A a \in as : ~IsDir(a) /\ (\A d \in D : d.path # a.path) => \E b \in bs : b.path = a.path
  /\ \A b \in bs : ~IsDir(b) /\ (\A d \in D : d.path # b.path) => \E a \in as : a.path = b.path
  /\ \A a \in as, b \in bs : a.path = b.path /\ (\A d \in D : d.path # b.path) =>
       ~(~(IsDir(a) /\ IsDir(b)) /\ FileChanged(a, b))
  /\ \A b \in bs : \A d \in D : d.path = b.path => FileState(b) \in d.b
  /\ \A a \in as : \A d \in D : d.path = a.path => FileState(a) \in d.a

\* The differences found are all there are, each with what both sides have.
LEMMA DifferencesFound ==
  ASSUME NEW as, NEW bs
  PROVE  AreDifferences(DiffFiles(as, bs), as, bs)
<1> DEFINE D == DiffFiles(as, bs)
<1> DEFINE At(entries, p) == {e \in entries : e.path = p}
           Paths(entries) == {e.path : e \in entries}
           Modified(p) == \E a \in At(as, p), b \in At(bs, p) :
                            ~(IsDir(a) /\ IsDir(b)) /\ FileChanged(a, b)
           Only(some, others) == {e.path : e \in {f \in some : ~IsDir(f)}} \ Paths(others)
           inAs(p) == {FileState(e) : e \in At(as, p)}
           inBs(p) == {FileState(e) : e \in At(bs, p)}
           both == {q \in Paths(as) \cap Paths(bs) : Modified(q)}
           inBoth(p) == Difference("modified", p, At(as, p), At(bs, p))
           inFirst(p) == Difference("removed", p, At(as, p), {})
           inSecond(p) == Difference("added", p, {}, At(bs, p))
           gone == Only(as, bs)
           new == Only(bs, as)
<1>1. D = {inBoth(p) : p \in both} \cup {inFirst(p) : p \in gone} \cup {inSecond(p) : p \in new}
  BY DEF DiffFiles
<1>2. /\ \A p : /\ inBoth(p).path = p
                /\ inBoth(p).a = inAs(p) /\ inBoth(p).b = inBs(p)
      /\ \A p : inFirst(p).path = p /\ inFirst(p).a = inAs(p) /\ inFirst(p).b = {}
      /\ \A p : inSecond(p).path = p /\ inSecond(p).a = {} /\ inSecond(p).b = inBs(p)
  BY DEF Difference
<1>3. /\ \A p \in gone : p \notin Paths(bs)
      /\ \A p \in new : p \notin Paths(as)
      /\ \A e \in as : ~IsDir(e) => e.path \in gone \/ e.path \in Paths(bs)
      /\ \A e \in bs : ~IsDir(e) => e.path \in new \/ e.path \in Paths(as)
  OBVIOUS
<1>4. /\ \A p : \A t \in inAs(p) : \E e \in as : e.path = p /\ t = FileState(e)
      /\ \A e \in as : FileState(e) \in inAs(e.path)
  OBVIOUS
<1>5. /\ \A p : \A t \in inBs(p) : \E e \in bs : e.path = p /\ t = FileState(e)
      /\ \A e \in bs : FileState(e) \in inBs(e.path)
  OBVIOUS
<1>6. \A a \in as, b \in bs : a.path = b.path =>
        a.path \in both \/ ~(~(IsDir(a) /\ IsDir(b)) /\ FileChanged(a, b))
  OBVIOUS
<1>7. /\ \A e \in as : e.path \in Paths(as)
      /\ \A e \in bs : e.path \in Paths(bs)
      /\ \A p \in Paths(as) : \E e \in as : e.path = p
      /\ \A p \in Paths(bs) : \E e \in bs : e.path = p
  OBVIOUS
<1> HIDE DEF D, At, Paths, both, gone, new, inAs, inBs, inBoth, inFirst, inSecond
<1>8. \A d \in D : \/ /\ d.path \in both
                      /\ d.a = inAs(d.path) /\ d.b = inBs(d.path)
                   \/ d.path \in gone /\ d.a = inAs(d.path) /\ d.b = {}
                   \/ d.path \in new /\ d.a = {} /\ d.b = inBs(d.path)
  <2> TAKE d \in D
  <2>1. CASE \E p \in both : d = inBoth(p)
    BY <1>2, <2>1
  <2>2. CASE \E p \in gone : d = inFirst(p)
    BY <1>2, <2>2
  <2>3. CASE \E p \in new : d = inSecond(p)
    BY <1>2, <2>3
  <2>4. QED
    BY <1>1, <2>1, <2>2, <2>3
<1>9. \A p \in both \cup gone \cup new : \E d \in D : d.path = p
  BY <1>1, <1>2
<1>10. /\ \A d \in D : \A t \in d.b :
            t.type # "dir" => \E e \in bs : e.path = d.path /\ t = FileState(e) /\ ~IsDir(e)
       /\ \A d \in D : \A t \in d.a :
            t.type # "dir" => \E e \in as : e.path = d.path /\ t = FileState(e) /\ ~IsDir(e)
  <2> SUFFICES ASSUME NEW d \in D, NEW t, t.type # "dir"
               PROVE  /\ t \in d.b =>
                           \E e \in bs : e.path = d.path /\ t = FileState(e) /\ ~IsDir(e)
                      /\ t \in d.a =>
                           \E e \in as : e.path = d.path /\ t = FileState(e) /\ ~IsDir(e)
    OBVIOUS
  <2> DEFINE p == d.path
  <2>1. (d.b = {} \/ d.b = inBs(p)) /\ (d.a = {} \/ d.a = inAs(p))
    BY <1>8
  <2> HIDE DEF p
  <2>2. t \in d.b => \E e \in bs : e.path = p /\ t = FileState(e)
    <3>1. t \in d.b => t \in inBs(p)
      BY <2>1
    <3>2. QED
      BY <1>5, <3>1
  <2>3. t \in d.a => \E e \in as : e.path = p /\ t = FileState(e)
    <3>1. t \in d.a => t \in inAs(p)
      BY <2>1
    <3>2. QED
      BY <1>4, <3>1
  <2>4. QED
    BY <2>2, <2>3, StateOfDirectory DEF p
<1>11. /\ \A a \in as : ~IsDir(a) /\ (\A d \in D : d.path # a.path) =>
             \E b \in bs : b.path = a.path
       /\ \A b \in bs : ~IsDir(b) /\ (\A d \in D : d.path # b.path) =>
             \E a \in as : a.path = b.path
  BY <1>3, <1>7, <1>9
<1>12. \A a \in as, b \in bs : a.path = b.path /\ (\A d \in D : d.path # b.path) =>
         ~(~(IsDir(a) /\ IsDir(b)) /\ FileChanged(a, b))
  BY <1>6, <1>9
<1>13. /\ \A b \in bs : \A d \in D : d.path = b.path => FileState(b) \in d.b
       /\ \A a \in as : \A d \in D : d.path = a.path => FileState(a) \in d.a
  <2>1. ASSUME NEW b \in bs, NEW d \in D, d.path = b.path PROVE FileState(b) \in d.b
    <3>1. d.path \notin gone
      BY <1>3, <1>7, <2>1
    <3>2. d.b = inBs(b.path)
      BY <1>8, <2>1, <3>1
    <3>3. QED
      BY <1>5, <3>2
  <2>2. ASSUME NEW a \in as, NEW d \in D, d.path = a.path PROVE FileState(a) \in d.a
    <3>1. d.path \notin new
      BY <1>3, <1>7, <2>2
    <3>2. d.a = inAs(a.path)
      BY <1>8, <2>2, <3>1
    <3>3. QED
      BY <1>4, <3>2
  <2>3. QED
    BY <2>1, <2>2
<1>14. QED
  BY <1>10, <1>11, <1>12, <1>13 DEF AreDifferences, D

\* The files of a set of entries: all that is in it but directories.
FilesIn(entries) ==
  {[path |-> e.path, state |-> FileState(e)] : e \in {f \in entries : ~IsDir(f)}}

\* Every difference found, and as it is: put in place of what the first set has
\* at its path, the second sides of the differences make the second set.
LEMMA SecondSide ==
  ASSUME NEW as, NEW bs, AreDifferences(out, as, bs)
  PROVE  Patched(FilesIn(as), LAMBDA d : d.b) = FilesIn(bs)
<1> DEFINE file(p, t) == [path |-> p, state |-> t]
           differ == {d.path : d \in out}
           kept == {f \in FilesIn(as) : f.path \notin differ}
           of(d) == {file(d.path, t) : t \in {u \in d.b : u.type # "dir"}}
           put == UNION {of(d) : d \in out}
<1>1. Patched(FilesIn(as), LAMBDA d : d.b) = kept \cup put
  BY DEF Patched
<1>2. \A es, f : f \in FilesIn(es) <=> \E e \in es : ~IsDir(e) /\ f = file(e.path, FileState(e))
  BY DEF FilesIn
<1>3. \A p, t : file(p, t).path = p
  OBVIOUS
<1>4. \A d, f : f \in of(d) <=> \E t \in d.b : t.type # "dir" /\ f = file(d.path, t)
  OBVIOUS
<1>5. \A p : p \in differ <=> \E d \in out : d.path = p
  OBVIOUS
<1> HIDE DEF file, of
<1>6. \A f : f \in put <=> \E d \in out : f \in of(d)
  OBVIOUS
<1> HIDE DEF differ, put
<1>7. ASSUME NEW f \in kept PROVE f \in FilesIn(bs)
  <2>1. f \in FilesIn(as) /\ f.path \notin differ
    OBVIOUS
  <2>2. PICK a \in as : ~IsDir(a) /\ f = file(a.path, FileState(a))
    BY <1>2, <2>1
  <2>3. \A d \in out : d.path # a.path
    BY <1>3, <1>5, <2>1, <2>2
  <2>4. PICK b \in bs : b.path = a.path
    BY <2>2, <2>3 DEF AreDifferences
  <2>5. ~(~(IsDir(a) /\ IsDir(b)) /\ FileChanged(a, b))
    BY <2>3, <2>4 DEF AreDifferences
  <2>6. ~IsDir(b) /\ FileState(a) = FileState(b)
    BY <2>2, <2>5, SameUnlessModified
  <2>7. QED
    BY <1>2, <2>2, <2>4, <2>6
<1>8. ASSUME NEW f \in put PROVE f \in FilesIn(bs)
  <2>1. PICK d \in out : f \in of(d)
    BY <1>6
  <2>2. PICK t \in d.b : t.type # "dir" /\ f = file(d.path, t)
    BY <1>4, <2>1
  <2>3. PICK e \in bs : e.path = d.path /\ t = FileState(e) /\ ~IsDir(e)
    BY <2>2 DEF AreDifferences
  <2>4. QED
    BY <1>2, <2>2, <2>3
<1>9. ASSUME NEW f \in FilesIn(bs) PROVE f \in kept \cup put
  <2>1. PICK b \in bs : ~IsDir(b) /\ f = file(b.path, FileState(b))
    BY <1>2
  <2>2. CASE b.path \in differ
    <3>1. PICK d \in out : d.path = b.path
      BY <1>5, <2>2
    <3>2. FileState(b) \in d.b /\ FileState(b).type # "dir"
      BY <2>1, <3>1, StateOfDirectory DEF AreDifferences
    <3>3. f = file(d.path, FileState(b))
      BY <2>1, <3>1
    <3>4. QED
      BY <1>4, <1>6, <3>2, <3>3
  <2>3. CASE b.path \notin differ
    <3>1. \A d \in out : d.path # b.path
      BY <1>5, <2>3
    <3>2. PICK a \in as : a.path = b.path
      BY <2>1, <3>1 DEF AreDifferences
    <3>3. ~(~(IsDir(a) /\ IsDir(b)) /\ FileChanged(a, b))
      BY <3>1, <3>2 DEF AreDifferences
    <3>4. ~IsDir(a) /\ FileState(a) = FileState(b)
      BY <2>1, <3>3, SameUnlessModified
    <3>5. f = file(a.path, FileState(a))
      BY <2>1, <3>2, <3>4
    <3>6. f \in FilesIn(as) /\ f.path = b.path
      BY <1>2, <1>3, <2>1, <3>2, <3>4, <3>5
    <3>7. QED
      BY <2>3, <3>6
  <2>4. QED
    BY <2>2, <2>3
<1>10. QED
  BY <1>1, <1>7, <1>8, <1>9

\* And the first sides, put in place of what the second set has, the first set.
LEMMA FirstSide ==
  ASSUME NEW as, NEW bs, AreDifferences(out, as, bs)
  PROVE  Patched(FilesIn(bs), LAMBDA d : d.a) = FilesIn(as)
<1> DEFINE file(p, t) == [path |-> p, state |-> t]
           differ == {d.path : d \in out}
           kept == {f \in FilesIn(bs) : f.path \notin differ}
           of(d) == {file(d.path, t) : t \in {u \in d.a : u.type # "dir"}}
           put == UNION {of(d) : d \in out}
<1>1. Patched(FilesIn(bs), LAMBDA d : d.a) = kept \cup put
  BY DEF Patched
<1>2. \A es, f : f \in FilesIn(es) <=> \E e \in es : ~IsDir(e) /\ f = file(e.path, FileState(e))
  BY DEF FilesIn
<1>3. \A p, t : file(p, t).path = p
  OBVIOUS
<1>4. \A d, f : f \in of(d) <=> \E t \in d.a : t.type # "dir" /\ f = file(d.path, t)
  OBVIOUS
<1>5. \A p : p \in differ <=> \E d \in out : d.path = p
  OBVIOUS
<1> HIDE DEF file, of
<1>6. \A f : f \in put <=> \E d \in out : f \in of(d)
  OBVIOUS
<1> HIDE DEF differ, put
<1>7. ASSUME NEW f \in kept PROVE f \in FilesIn(as)
  <2>1. f \in FilesIn(bs) /\ f.path \notin differ
    OBVIOUS
  <2>2. PICK b \in bs : ~IsDir(b) /\ f = file(b.path, FileState(b))
    BY <1>2, <2>1
  <2>3. \A d \in out : d.path # b.path
    BY <1>3, <1>5, <2>1, <2>2
  <2>4. PICK a \in as : a.path = b.path
    BY <2>2, <2>3 DEF AreDifferences
  <2>5. ~(~(IsDir(a) /\ IsDir(b)) /\ FileChanged(a, b))
    BY <2>3, <2>4 DEF AreDifferences
  <2>6. ~IsDir(a) /\ FileState(a) = FileState(b)
    BY <2>2, <2>5, SameUnlessModified
  <2>7. QED
    BY <1>2, <2>2, <2>4, <2>6
<1>8. ASSUME NEW f \in put PROVE f \in FilesIn(as)
  <2>1. PICK d \in out : f \in of(d)
    BY <1>6
  <2>2. PICK t \in d.a : t.type # "dir" /\ f = file(d.path, t)
    BY <1>4, <2>1
  <2>3. PICK e \in as : e.path = d.path /\ t = FileState(e) /\ ~IsDir(e)
    BY <2>2 DEF AreDifferences
  <2>4. QED
    BY <1>2, <2>2, <2>3
<1>9. ASSUME NEW f \in FilesIn(as) PROVE f \in kept \cup put
  <2>1. PICK a \in as : ~IsDir(a) /\ f = file(a.path, FileState(a))
    BY <1>2
  <2>2. CASE a.path \in differ
    <3>1. PICK d \in out : d.path = a.path
      BY <1>5, <2>2
    <3>2. FileState(a) \in d.a /\ FileState(a).type # "dir"
      BY <2>1, <3>1, StateOfDirectory DEF AreDifferences
    <3>3. f = file(d.path, FileState(a))
      BY <2>1, <3>1
    <3>4. QED
      BY <1>4, <1>6, <3>2, <3>3
  <2>3. CASE a.path \notin differ
    <3>1. \A d \in out : d.path # a.path
      BY <1>5, <2>3
    <3>2. PICK b \in bs : b.path = a.path
      BY <2>1, <3>1 DEF AreDifferences
    <3>3. ~(~(IsDir(a) /\ IsDir(b)) /\ FileChanged(a, b))
      BY <3>1, <3>2 DEF AreDifferences
    <3>4. ~IsDir(b) /\ FileState(a) = FileState(b)
      BY <2>1, <3>3, SameUnlessModified
    <3>5. f = file(b.path, FileState(b))
      BY <2>1, <3>2, <3>4
    <3>6. f \in FilesIn(bs) /\ f.path = a.path
      BY <1>2, <1>3, <2>1, <3>2, <3>4, <3>5
    <3>7. QED
      BY <2>3, <3>6
  <2>4. QED
    BY <2>2, <2>3
<1>10. QED
  BY <1>1, <1>7, <1>8, <1>9

\* A command that has worked on a filesystem and is done was done already or has
\* taken its last step.
LEMMA DonePlaces ==
  ASSUME CommandInv, [Next]_vars, pc' = "done", input.name \in DOMAIN Works
  PROVE  \/ pc = "done" /\ UNCHANGED <<commandVars, data>>
         \/ input.name = "ls" /\ List
         \/ input.name = "tree" /\ PrintEnd
         \/ input.name = "diff" /\ Compare
         \/ input.name = "cat" /\ OpenFile
         \/ input.name = "cp" /\ Copy
<1>1. input.name \in {"ls", "tree", "diff", "cat", "cp"}
  BY DEF Works
<1>2. CASE Execute
  <2>1. CASE Start
    <3>1. FirstStep = "fetch"
      BY <1>1 DEF FirstStep
    <3>2. QED
      BY <2>1, <3>1 DEF Start
  <2>2. QED
    BY <1>2, <2>1 DEF Execute, UsageError, Render, Report
<1>3. CASE Fetching
  BY <1>3 DEF Fetching, FetchImage, BadArgument, ChooseSource, DaemonAnswers, DaemonFails,
     BadPlatform, RegistryAnswers, RegistryFails, FetchFailed, Fetched
<1>4. CASE Load
  <2>1. Works[input.name] # "done"
    BY <1>1 DEF Works
  <2>2. QED
    BY <1>4, <2>1 DEF Load
<1>5. CASE NoSuchLayer \/ LoadError \/ Find
  BY <1>5 DEF NoSuchLayer, LoadError, Fail, Find
<1>6. CASE Work
  BY <1>6 DEF Work, MapTree, PrintEntry, List, PrintEnd, Compare, CommandInv
<1>7. CASE Reading
  BY <1>7 DEF Reading, ReadFails, Fail, OpenFile, Copy
<1>8. CASE Handed
  <2>1. pc \in {"blob", "tags"} \/ (pc = "load" /\ input.name \notin DOMAIN Works)
    BY <1>8 DEF Handed, Handing, CheckLayer, NoSuchBlob, OpenBlob, WriteTarball, TarballFails,
       PrintDocument, InspectImage, DocumentError, BadReference, ListTags, TagsFail
  <2>2. QED
    BY <1>1, <2>1 DEF CommandInv
<1>9. CASE UNCHANGED vars
  BY <1>9 DEF vars, documentVars, commandVars
<1>10. QED
  BY <1>2, <1>3, <1>4, <1>5, <1>6, <1>7, <1>8, <1>9 DEF Next, Ended

\* What the specification's steps keep of a comparison made.
DiffInv ==
  Ran("diff") =>
    out = DiffFiles(ScopedEntries(loaded[1].entries), ScopedEntries(loaded[2].entries))

\* The files of an image in scope are those of its entries in scope.
LEMMA FilesInScope ==
  ASSUME NEW k
  PROVE  FilesOf(k) = FilesIn(ScopedEntries(loaded[k].entries))
BY DEF FilesOf, FilesIn, ScopedEntries, Under

\* Every step keeps DiffInv.
LEMMA DiffStep ==
  ASSUME IInv, DiffInv, [Next]_vars
  PROVE  DiffInv'
<1> SUFFICES ASSUME (Ran("diff"))'
             PROVE  out' = DiffFiles((ScopedEntries(loaded[1].entries))',
                                     (ScopedEntries(loaded[2].entries))')
  BY DEF DiffInv, DiffFiles
<1>1. input' = input /\ CommandInv
  BY InputStays DEF IInv
<1>2. input.name = "diff" /\ pc' = "done"
  BY <1>1 DEF Ran
<1>3. \A entries : (ScopedEntries(entries))' = ScopedEntries(entries)
  BY <1>1 DEF ScopedEntries
<1>4. CASE Compare
  BY <1>1, <1>4 DEF Compare, ScopedEntries
<1>5. CASE pc = "done" /\ UNCHANGED commandVars
  <2>1. Ran("diff") /\ out' = out /\ loaded' = loaded
    BY <1>2, <1>5 DEF Ran, commandVars, context, printing
  <2>2. QED
    BY <1>1, <2>1 DEF DiffInv, ScopedEntries
<1>6. QED
  BY <1>1, <1>2, <1>4, <1>5, DonePlaces DEF Works

\* A diff told is complete and right: applied to the files of the first image,
\* what it says of the second gives the files of the second, and backwards
\* (Compare, for DiffFiles of command/diff.go).
THEOREM DiffIsRight == Spec => []DiffIsAPatch
<1>1. Init => DiffInv
  BY DEF Init, DiffInv, Ran
<1>2. IInv /\ DiffInv /\ [Next]_vars => DiffInv'
  BY DiffStep
<1>3. DiffInv => DiffIsAPatch
  <2> SUFFICES ASSUME DiffInv, Ran("diff") PROVE DiffIsAPatch
    BY DEF DiffIsAPatch
  <2> DEFINE as == ScopedEntries(loaded[1].entries)
             bs == ScopedEntries(loaded[2].entries)
  <2>1. AreDifferences(out, as, bs)
    BY DifferencesFound DEF DiffInv
  <2>2. FilesOf(1) = FilesIn(as) /\ FilesOf(2) = FilesIn(bs)
    BY FilesInScope
  <2> HIDE DEF as, bs
  <2>3. /\ Patched(FilesIn(as), LAMBDA d : d.b) = FilesIn(bs)
        /\ Patched(FilesIn(bs), LAMBDA d : d.a) = FilesIn(as)
    BY <2>1, FirstSide, SecondSide
  <2>4. QED
    BY <2>2, <2>3 DEF DiffIsAPatch
<1>4. QED
  BY <1>1, <1>2, <1>3, ProgramInvariant, PTL DEF Spec
-----------------------------------------------------------------------------
\* What of a sequence is in a set.

\* The sequence Among goes through is there.
LEMMA AmongGoesOn ==
  ASSUME NEW s, NEW S, Len(s) \in Nat
  PROVE  \E kept : /\ kept[0] = << >> /\ kept[Len(s)] = Among(s, S)
                   /\ \A k \in 1..Len(s) :
                        kept[k] = IF s[k] \in S THEN Append(kept[k - 1], s[k]) ELSE kept[k - 1]
<1> DEFINE N == Len(s)
           on(w, k) == IF s[k] \in S THEN Append(w, s[k]) ELSE w
           Good(n, f) == f[0] = << >> /\ \A k \in 1..n : f[k] = on(f[k - 1], k)
           Some(n) == \E f : f = [k \in 0..n |-> f[k]] /\ Good(n, f)
           T == {n \in Nat : Some(n)}
           Equation(f) == f = [k \in 0..N |-> IF k = 0 THEN << >> ELSE on(f[k - 1], k)]
           kept == CHOOSE f : Equation(f)
<1>1. Among(s, S) = kept[N]
  <2>1. \A f : Equation(f) <=>
          f = [k \in 0..N |-> IF k = 0 THEN << >>
                              ELSE IF s[k] \in S THEN Append(f[k - 1], s[k]) ELSE f[k - 1]]
    OBVIOUS
  <2>2. QED
    BY <2>1 DEF Among
<1> HIDE DEF on, N
<1>2. N \in Nat
  BY DEF N
<1>3. 0 \in T
  <2> DEFINE f == [k \in 0..0 |-> << >>]
  <2>1. f = [k \in 0..0 |-> f[k]] /\ Good(0, f)
    OBVIOUS
  <2>2. QED
    BY <2>1
<1>4. ASSUME NEW n \in Nat, n \in T PROVE n + 1 \in T
  <2>1. PICK f : f = [k \in 0..n |-> f[k]] /\ Good(n, f)
    BY <1>4
  <2> DEFINE g == [k \in 0..(n + 1) |-> IF k <= n THEN f[k] ELSE on(f[n], n + 1)]
  <2>2. g = [k \in 0..(n + 1) |-> g[k]]
    OBVIOUS
  <2>3. g[0] = << >> /\ \A k \in 0..n : g[k] = f[k]
    BY <2>1
  <2>4. g[n + 1] = on(f[n], n + 1)
    OBVIOUS
  <2> HIDE DEF g
  <2>5. ASSUME NEW k \in 1..(n + 1) PROVE g[k] = on(g[k - 1], k)
    <3>1. CASE k = n + 1
      BY <2>3, <2>4, <3>1
    <3>2. CASE k # n + 1
      <4>1. k \in 1..n /\ k - 1 \in 0..n /\ k \in 0..n
        BY <3>2
      <4>2. QED
        BY <2>1, <2>3, <4>1
    <3>3. QED
      BY <3>1, <3>2
  <2>6. Good(n + 1, g)
    BY <2>3, <2>5
  <2> HIDE DEF Good
  <2>7. QED
    BY <2>2, <2>6
<1>5. N \in T
  <2>1. \A n \in Nat : n \in T => n + 1 \in T
    BY <1>4
  <2> HIDE DEF T
  <2>2. QED
    BY <1>2, <1>3, <2>1, NatSetInduction
<1>6. PICK f : f = [k \in 0..N |-> f[k]] /\ Good(N, f)
  BY <1>5
<1>7. Equation(f)
  <2>1. \A k \in 0..N : f[k] = IF k = 0 THEN << >> ELSE on(f[k - 1], k)
    BY <1>2, <1>6
  <2>2. QED
    BY <1>6, <2>1
<1>8. Equation(kept)
  BY <1>7
<1> HIDE DEF kept
<1>9. kept[0] = << >> /\ \A k \in 1..N : kept[k] = on(kept[k - 1], k)
  BY <1>2, <1>8
<1>10. QED
  BY <1>1, <1>9 DEF on, N

\* One element more is kept if it is in the set.
LEMMA AmongAppend ==
  ASSUME NEW R, NEW s \in Seq(R), NEW x \in R, NEW S
  PROVE  Among(Append(s, x), S) = IF x \in S THEN Append(Among(s, S), x) ELSE Among(s, S)
<1> DEFINE n == Len(s)
           t == Append(s, x)
<1>1. /\ n \in Nat /\ Len(t) = n + 1 /\ t[n + 1] = x
      /\ \A k \in 1..n : t[k] = s[k]
  OBVIOUS
<1>2. PICK f : /\ f[0] = << >> /\ f[n] = Among(s, S)
               /\ \A k \in 1..n : f[k] = IF s[k] \in S THEN Append(f[k - 1], s[k]) ELSE f[k - 1]
  BY <1>1, AmongGoesOn
<1> HIDE DEF t
<1>3. PICK g : /\ g[0] = << >> /\ g[n + 1] = Among(t, S)
               /\ \A k \in 1..(n + 1) :
                    g[k] = IF t[k] \in S THEN Append(g[k - 1], t[k]) ELSE g[k - 1]
  BY <1>1, AmongGoesOn
<1> HIDE DEF n
<1> DEFINE T == {k \in Nat : k <= n => f[k] = g[k]}
<1>4. 0 \in T
  BY <1>2, <1>3
<1>5. ASSUME NEW k \in Nat, k \in T PROVE k + 1 \in T
  <2> SUFFICES ASSUME k + 1 <= n PROVE f[k + 1] = g[k + 1]
    OBVIOUS
  <2>1. k + 1 \in 1..n /\ k + 1 \in 1..(n + 1) /\ (k + 1) - 1 = k /\ f[k] = g[k]
    BY <1>1, <1>5
  <2>2. QED
    BY <1>1, <1>2, <1>3, <2>1
<1>6. f[n] = g[n]
  <2>1. \A k \in Nat : k \in T => k + 1 \in T
    BY <1>5
  <2>2. n \in T
    <3> HIDE DEF T
    <3>1. QED
      BY <1>1, <1>4, <2>1, NatSetInduction
  <2>3. QED
    BY <1>1, <2>2
<1>7. n + 1 \in 1..(n + 1) /\ (n + 1) - 1 = n
  BY <1>1
<1>8. g[n + 1] = IF x \in S THEN Append(g[n], x) ELSE g[n]
  BY <1>1, <1>3, <1>7
<1>9. QED
  BY <1>2, <1>3, <1>6, <1>8 DEF t

\* Of nothing nothing is kept.
LEMMA AmongNothing == \A S : Among(<< >>, S) = << >>
<1>1. Len(<< >>) = 0
  OBVIOUS
<1>2. QED
  BY <1>1, AmongGoesOn

\* What is kept is what is in both.
LEMMA AmongIsSequence ==
  ASSUME NEW R, NEW S
  PROVE  \A s \in Seq(R) : Among(s, S) \in Seq(R) /\ ToSet(Among(s, S)) = ToSet(s) \cap S
<1> DEFINE T == {s \in Seq(R) : Among(s, S) \in Seq(R) /\ ToSet(Among(s, S)) = ToSet(s) \cap S}
<1>1. << >> \in T
  <2>1. << >> \in Seq(R) /\ ToSet(<< >>) = {}
    BY DEF ToSet
  <2>2. QED
    BY <2>1, AmongNothing
<1>2. \A s \in Seq(R) : \A x \in R : ToSet(Append(s, x)) = ToSet(s) \cup {x}
  <2> SUFFICES ASSUME NEW s \in Seq(R), NEW x \in R
               PROVE  ToSet(Append(s, x)) = ToSet(s) \cup {x}
    OBVIOUS
  <2> DEFINE t == Append(s, x)
             n == Len(s)
  <2>1. /\ n \in Nat /\ DOMAIN s = 1..n /\ DOMAIN t = 1..(n + 1) /\ t[n + 1] = x
        /\ \A k \in 1..n : t[k] = s[k]
    OBVIOUS
  <2> HIDE DEF t, n
  <2>2. 1..(n + 1) = (1..n) \cup {n + 1}
    BY <2>1
  <2>3. {t[k] : k \in (1..n) \cup {n + 1}} = {s[k] : k \in 1..n} \cup {x}
    BY <2>1
  <2>4. QED
    BY <2>1, <2>2, <2>3 DEF ToSet, t
<1>3. ASSUME NEW s \in Seq(R), NEW x \in R, s \in T PROVE Append(s, x) \in T
  <2> DEFINE kept == Among(s, S)
             more == Among(Append(s, x), S)
  <2>1. kept \in Seq(R) /\ ToSet(kept) = ToSet(s) \cap S
    BY <1>3
  <2>2. more = IF x \in S THEN Append(kept, x) ELSE kept
    BY AmongAppend
  <2> HIDE DEF kept, more
  <2>3. more \in Seq(R)
    BY <2>1, <2>2
  <2>4. ToSet(more) = ToSet(Append(s, x)) \cap S
    <3>1. ToSet(Append(s, x)) = ToSet(s) \cup {x}
      BY <1>2
    <3>2. x \in S => ToSet(more) = ToSet(kept) \cup {x}
      BY <1>2, <2>1, <2>2
    <3>3. QED
      BY <2>1, <2>2, <3>1, <3>2
  <2>5. QED
    BY <2>3, <2>4 DEF more
<1>4. \A s \in Seq(R) : \A x \in R : s \in T => Append(s, x) \in T
  BY <1>3
<1> HIDE DEF T
<1>5. \A s \in Seq(R) : s \in T
  BY <1>1, <1>4, SeqSetInduction
<1>6. QED
  BY <1>5 DEF T

\* What is kept of one sequence and another behind it is kept of each.
LEMMA AmongConcat ==
  ASSUME NEW R, NEW s \in Seq(R), NEW S
  PROVE  \A t \in Seq(R) : Among(s \o t, S) = Among(s, S) \o Among(t, S)
<1> DEFINE T == {t \in Seq(R) : Among(s \o t, S) = Among(s, S) \o Among(t, S)}
<1>1. \A t \in Seq(R) : Among(t, S) \in Seq(R)
  BY AmongIsSequence
<1>2. << >> \in T
  <2>1. s \o << >> = s /\ << >> \in Seq(R)
    OBVIOUS
  <2>2. Among(s, S) \o << >> = Among(s, S)
    BY <1>1
  <2>3. QED
    BY <2>1, <2>2, AmongNothing
<1>3. ASSUME NEW t \in Seq(R), NEW x \in R, t \in T PROVE Append(t, x) \in T
  <2> DEFINE u == s \o t
             a == Among(s, S)
             b == Among(t, S)
  <2>1. u \in Seq(R) /\ s \o Append(t, x) = Append(u, x) /\ Append(t, x) \in Seq(R)
    OBVIOUS
  <2>2. a \in Seq(R) /\ b \in Seq(R) /\ Among(u, S) = a \o b
    BY <1>1, <1>3
  <2> HIDE DEF u, a, b
  <2>3. a \o Append(b, x) = Append(a \o b, x)
    BY <2>2
  <2>4. Among(Append(u, x), S) = IF x \in S THEN Append(a \o b, x) ELSE a \o b
    BY <2>1, <2>2, AmongAppend
  <2>5. Among(Append(t, x), S) = IF x \in S THEN Append(b, x) ELSE b
    BY AmongAppend DEF b
  <2>6. Among(Append(u, x), S) = a \o Among(Append(t, x), S)
    BY <2>3, <2>4, <2>5
  <2>7. QED
    BY <2>1, <2>6 DEF a
<1>4. \A t \in Seq(R) : \A x \in R : t \in T => Append(t, x) \in T
  BY <1>3
<1> HIDE DEF T
<1>5. \A t \in Seq(R) : t \in T
  BY <1>2, <1>4, SeqSetInduction
<1>6. QED
  BY <1>5 DEF T

\* All is kept of what is in the set, nothing of what is not.
LEMMA AmongAllOrNone ==
  ASSUME NEW R, NEW S
  PROVE  /\ R \subseteq S => \A s \in Seq(R) : Among(s, S) = s
         /\ R \cap S = {} => \A s \in Seq(R) : Among(s, S) = << >>
<1>1. << >> \in Seq(R)
  OBVIOUS
<1>2. ASSUME R \subseteq S PROVE \A s \in Seq(R) : Among(s, S) = s
  <2> DEFINE T == {s \in Seq(R) : Among(s, S) = s}
  <2>1. << >> \in T
    BY <1>1, AmongNothing
  <2>2. ASSUME NEW s \in Seq(R), NEW x \in R, s \in T PROVE Append(s, x) \in T
    <3>1. Among(Append(s, x), S) = Append(Among(s, S), x)
      BY <1>2, AmongAppend
    <3>2. Among(Append(s, x), S) = Append(s, x)
      BY <2>2, <3>1
    <3>3. QED
      BY <3>2
  <2>3. \A s \in Seq(R) : \A x \in R : s \in T => Append(s, x) \in T
    BY <2>2
  <2> HIDE DEF T
  <2>4. \A s \in Seq(R) : s \in T
    BY <2>1, <2>3, SeqSetInduction
  <2>5. QED
    BY <2>4 DEF T
<1>3. ASSUME R \cap S = {} PROVE \A s \in Seq(R) : Among(s, S) = << >>
  <2> DEFINE T == {s \in Seq(R) : Among(s, S) = << >>}
  <2>1. << >> \in T
    BY <1>1, AmongNothing
  <2>2. ASSUME NEW s \in Seq(R), NEW x \in R, s \in T PROVE Append(s, x) \in T
    <3>1. x \notin S
      BY <1>3
    <3>2. Among(Append(s, x), S) = Among(s, S)
      BY <3>1, AmongAppend
    <3>3. QED
      BY <2>2, <3>2
  <2>3. \A s \in Seq(R) : \A x \in R : s \in T => Append(s, x) \in T
    BY <2>2
  <2> HIDE DEF T
  <2>4. \A s \in Seq(R) : s \in T
    BY <2>1, <2>3, SeqSetInduction
  <2>5. QED
    BY <2>4 DEF T
<1>4. QED
  BY <1>2, <1>3

\* diff: of two lists of layers.

\* The lines of two lists of layers are, as a set, what the code's two loops
\* say of each; the first list's lines come first, one for each layer.
LEMMA LinesAre ==
  ASSUME NEW a, IsSequence(a), NEW b, IsSequence(b)
  PROVE  \E told, new :
           /\ IsSequence(told) /\ IsSequence(new) /\ DiffLayers(a, b) = told \o new
           /\ DOMAIN told = DOMAIN a
           /\ \A k \in DOMAIN a :
                told[k] = [status |-> IF a[k] \in ToSet(b) THEN "shared" ELSE "removed",
                           digest |-> a[k]]
           /\ ToSet(new) = {[status |-> "added", digest |-> d] : d \in ToSet(b) \ ToSet(a)}
           /\ [k \in DOMAIN new |-> new[k].digest] = Among(b, ToSet(b) \ ToSet(a))
<1> DEFINE only == Among(b, ToSet(b) \ ToSet(a))
           told == [k \in DOMAIN a |->
                      [status |-> IF a[k] \in ToSet(b) THEN "shared" ELSE "removed",
                       digest |-> a[k]]]
           new == [k \in DOMAIN only |-> [status |-> "added", digest |-> only[k]]]
<1>1. only \in Seq(ToSet(b)) /\ ToSet(only) = ToSet(b) \ ToSet(a)
  <2>1. b \in Seq(ToSet(b))
    BY DEF IsSequence
  <2>2. QED
    BY <2>1, AmongIsSequence
<1>2. DiffLayers(a, b) = told \o new
  BY DEF DiffLayers
<1>3. IsSequence(told)
  <2>1. Len(a) \in Nat /\ DOMAIN a = 1..Len(a)
    BY SequenceFacts
  <2>2. DOMAIN told = 1..Len(a) /\ told = [k \in 1..Len(a) |-> told[k]]
    BY <2>1
  <2> HIDE DEF told
  <2>3. QED
    BY <2>1, <2>2, FunctionIsSequence
<1> HIDE DEF only
<1>4. IsSequence(new)
  <2>1. Len(only) \in Nat /\ DOMAIN only = 1..Len(only)
    BY <1>1
  <2>2. DOMAIN new = 1..Len(only) /\ new = [k \in 1..Len(only) |-> new[k]]
    BY <2>1
  <2> HIDE DEF new
  <2>3. QED
    BY <2>1, <2>2, FunctionIsSequence
<1>5. ToSet(new) = {[status |-> "added", digest |-> d] : d \in ToSet(only)}
  BY DEF ToSet
<1>6. [k \in DOMAIN new |-> new[k].digest] = only
  <2>1. only = [k \in DOMAIN only |-> only[k]]
    BY <1>1
  <2>2. QED
    BY <2>1
<1>7. /\ DOMAIN told = DOMAIN a
      /\ \A k \in DOMAIN a :
           told[k] = [status |-> IF a[k] \in ToSet(b) THEN "shared" ELSE "removed",
                      digest |-> a[k]]
  OBVIOUS
<1>8. ToSet(new) = {[status |-> "added", digest |-> d] : d \in ToSet(b) \ ToSet(a)}
  BY <1>1, <1>5
<1>9. [k \in DOMAIN new |-> new[k].digest] = Among(b, ToSet(b) \ ToSet(a))
  BY <1>6 DEF only
<1> HIDE DEF told, new
<1>10. QED
  BY <1>2, <1>3, <1>4, <1>7, <1>8, <1>9

\* The digests of some lines are, as a set, those of their set.
LEMMA DigestsOf ==
  ASSUME NEW ls
  PROVE  ToSet([k \in DOMAIN ls |-> ls[k].digest]) = {l.digest : l \in ToSet(ls)}
BY DEF ToSet

\* What the specification's steps keep of the lines made for the layers.
LayersInv == Ran("diff") => lines = DiffLayers(loaded[1].manifest, loaded[2].manifest)

\* The lines told account for every layer of two lists, and tell the shared
\* from the others.
LEMMA LinesAccount ==
  ASSUME LayersInv, Ran("diff"),
         IsSequence(loaded[1].manifest), IsSequence(loaded[2].manifest)
  PROVE  LayersAccounted
<1> DEFINE a == loaded[1].manifest
           b == loaded[2].manifest
           Status(d) == IF d \in ToSet(b) THEN "shared" ELSE "removed"
           Of(statuses) == {l \in ToSet(lines) : l.status \in statuses}
           With(statuses) == Among(lines, Of(statuses))
           Digests(ls) == [k \in DOMAIN ls |-> ls[k].digest]
           L == ToSet(lines)
<1>0. IsSequence(a) /\ IsSequence(b) /\ lines = DiffLayers(a, b)
  BY DEF LayersInv
<1> HIDE DEF a, b
<1>1. PICK told, new :
        /\ IsSequence(told) /\ IsSequence(new) /\ lines = told \o new
        /\ DOMAIN told = DOMAIN a
        /\ \A k \in DOMAIN a :
             told[k] = [status |-> Status(a[k]), digest |-> a[k]]
        /\ ToSet(new) = {[status |-> "added", digest |-> d] : d \in ToSet(b) \ ToSet(a)}
        /\ Digests(new) = Among(b, ToSet(b) \ ToSet(a))
  <2>1. \E told, new :
           /\ IsSequence(told) /\ IsSequence(new) /\ DiffLayers(a, b) = told \o new
           /\ DOMAIN told = DOMAIN a
           /\ \A k \in DOMAIN a :
                told[k] = [status |-> IF a[k] \in ToSet(b) THEN "shared" ELSE "removed",
                           digest |-> a[k]]
           /\ ToSet(new) = {[status |-> "added", digest |-> d] : d \in ToSet(b) \ ToSet(a)}
           /\ [k \in DOMAIN new |-> new[k].digest] = Among(b, ToSet(b) \ ToSet(a))
    BY <1>0, LinesAre
  <2>2. QED
    BY <1>0, <2>1
<1>2. IsSequence(lines) /\ L = ToSet(told) \cup ToSet(new)
  BY <1>1, ConcatHolds
<1>3. /\ \A l \in ToSet(told) : l.digest \in ToSet(a) /\ l.status = Status(l.digest)
      /\ \A d \in ToSet(a) : \E l \in ToSet(told) : l.digest = d /\ l.status = Status(d)
  <2>1. \A k \in DOMAIN a : /\ told[k] \in ToSet(told)
                            /\ told[k].digest = a[k] /\ told[k].status = Status(a[k])
    <3> HIDE DEF Status
    <3>1. QED
      BY <1>1 DEF ToSet
  <2>2. ToSet(told) = {told[k] : k \in DOMAIN a} /\ ToSet(a) = {a[k] : k \in DOMAIN a}
    BY <1>1 DEF ToSet
  <2> HIDE DEF Status
  <2>3. QED
    BY <2>1, <2>2
<1>4. \A statuses : ToSet(With(statuses)) = Of(statuses)
  BY <1>2, AmongIsSequence DEF IsSequence
<1>5. \A statuses : ToSet(Digests(With(statuses))) = {l.digest : l \in Of(statuses)}
  BY <1>4, DigestsOf
<1>6. With({"shared", "removed"}) = told /\ With({"added"}) = new
  <2> DEFINE W == Of({"shared", "removed"})
             V == Of({"added"})
  <2>1. ToSet(told) \subseteq W /\ ToSet(told) \cap V = {}
    BY <1>2, <1>3 DEF Status
  <2>2. ToSet(new) \subseteq V /\ ToSet(new) \cap W = {}
    BY <1>1, <1>2
  <2> HIDE DEF W, V
  <2>3. told \in Seq(L) /\ new \in Seq(L)
    <3>1. told \in Seq(ToSet(told)) /\ new \in Seq(ToSet(new))
      BY <1>1 DEF IsSequence
    <3>2. QED
      BY <1>2, <3>1
  <2>4. \A S : Among(lines, S) = Among(told, S) \o Among(new, S)
    BY <1>1, <2>3, AmongConcat
  <2>5. /\ Among(told, W) = told /\ Among(new, W) = << >>
        /\ Among(told, V) = << >> /\ Among(new, V) = new
    BY <1>1, <2>1, <2>2, AmongAllOrNone DEF IsSequence
  <2>6. told \o << >> = told /\ << >> \o new = new
    BY <2>3
  <2>7. QED
    BY <2>4, <2>5, <2>6 DEF W, V
<1>7. Digests(With({"shared", "removed"})) = a
  <2>1. a = [k \in DOMAIN a |-> a[k]]
    <3>1. a \in Seq(ToSet(a))
      BY <1>0 DEF IsSequence
    <3>2. QED
      BY <3>1
  <2>2. Digests(told) = [k \in DOMAIN a |-> a[k]]
    BY <1>1
  <2>3. QED
    BY <1>6, <2>1, <2>2
<1>8. Digests(With({"added"})) = Among(b, ToSet(b) \ ToSet(a))
  BY <1>1, <1>6
<1> HIDE DEF Digests, With
<1>9. /\ \A l \in L : l.status = "shared" => l.digest \in ToSet(a) \cap ToSet(b)
      /\ \A d \in ToSet(a) \cap ToSet(b) : \E l \in L : l.status = "shared" /\ l.digest = d
  <2>1. \A l \in ToSet(new) : l.status = "added"
    BY <1>1
  <2>2. QED
    BY <1>2, <1>3, <2>1
<1>10. \A statuses : ToSet(Digests(With(statuses)))
                       = {l.digest : l \in {m \in L : m.status \in statuses}}
  BY <1>5
<1> HIDE DEF Of, Status
<1>11. ToSet(Digests(With({"shared"}))) = ToSet(a) \cap ToSet(b)
  <2>1. {l.digest : l \in {m \in L : m.status \in {"shared"}}} = ToSet(a) \cap ToSet(b)
    BY <1>9
  <2>2. QED
    BY <1>10, <2>1
<1>12. QED
  BY <1>7, <1>8, <1>11 DEF LayersAccounted, a, b, Digests, With, Of

\* Every step keeps LayersInv.
LEMMA LayersStep ==
  ASSUME IInv, LayersInv, [Next]_vars
  PROVE  LayersInv'
<1> SUFFICES ASSUME (Ran("diff"))'
             PROVE  lines' = DiffLayers(loaded'[1].manifest, loaded'[2].manifest)
  BY DEF LayersInv, DiffLayers
<1>1. input' = input /\ CommandInv
  BY InputStays DEF IInv
<1>2. input.name = "diff" /\ pc' = "done"
  BY <1>1 DEF Ran
<1>3. CASE Compare
  BY <1>3 DEF Compare
<1>4. CASE pc = "done" /\ UNCHANGED commandVars
  <2>1. Ran("diff") /\ lines' = lines /\ loaded' = loaded
    BY <1>2, <1>4 DEF Ran, commandVars, context, printing
  <2>2. QED
    BY <2>1 DEF LayersInv
<1>5. QED
  BY <1>1, <1>2, <1>3, <1>4, DonePlaces DEF Works

\* When a diff is done both images are loaded.
LEMMA BothLoaded ==
  ASSUME IInv, input \in Inputs, Ran("diff")
  PROVE  1 \in DOMAIN loaded /\ 2 \in DOMAIN loaded
<1>1. Len(loaded) = Len(input.refs) /\ IsSequence(loaded)
  BY DEF IInv, LoadInv, Ran, Works
<1>2. Len(input.refs) = 2
  <2>1. Accepted /\ input.name = "diff"
    BY DEF IInv, CommandInv, Ran
  <2>2. AddCommands["diff"].args = 2..3
    BY DEF AddCommands, NewDiffCommand, Command
  <2>3. input.args \in 2..3
    BY <2>1, <2>2 DEF Accepted
  <2>4. QED
    BY <2>1, <2>3, InputsAssumption
<1>3. QED
  BY <1>1, <1>2, SequenceFacts

\* Every layer of the images compared is told, the first image's and what only
\* the second has in order and as often as they are there, and those of both,
\* and only those, as shared (diffLayers of command/diff.go).
THEOREM LayersAreTold == Spec => []LayersAccounted
<1>1. Init => LayersInv
  BY DEF Init, LayersInv, Ran
<1>2. IInv /\ LayersInv /\ [Next]_vars => LayersInv'
  BY LayersStep
<1>3. IInv /\ input \in Inputs /\ LayersInv => LayersAccounted
  <2> SUFFICES ASSUME IInv, input \in Inputs, LayersInv, Ran("diff") PROVE LayersAccounted
    BY DEF LayersAccounted
  <2>1. IsSequence(loaded[1].manifest) /\ IsSequence(loaded[2].manifest)
    BY BothLoaded DEF IInv, LoadInv
  <2>2. QED
    BY <2>1, LinesAccount
<1>4. QED
  BY <1>1, <1>2, <1>3, ProgramKeeps, PTL DEF Spec
-----------------------------------------------------------------------------
\* Matching a pattern.

\* The ends Match works with are there, and as its definition says.
LEMMA MatchEnds ==
  ASSUME NEW S, NEW pattern \in Seq(S), NEW R, NEW names \in Seq(R)
  PROVE  \E ends \in [0..Len(pattern) -> SUBSET (0..Len(names))] :
           /\ ends[0] = {0}
           /\ \A i \in 1..Len(pattern) : ends[i] = Consume(pattern[i], names, ends[i - 1])
           /\ Match(pattern, names) <=> Len(names) \in ends[Len(pattern)]
<1> DEFINE l == Len(pattern)
           n == Len(names)
           on(i, from) == Consume(pattern[i], names, from)
           Good(m, f) == f[0] = {0} /\ \A i \in 1..m : f[i] = on(i, f[i - 1])
           Some(m) == \E f \in [0..m -> SUBSET (0..n)] : Good(m, f)
           T == {m \in Nat : m <= l => Some(m)}
           Equation(f) == f = [i \in 0..l |-> IF i = 0 THEN {0} ELSE on(i, f[i - 1])]
           ends == CHOOSE f : Equation(f)
<1>1. l \in Nat /\ n \in Nat
  OBVIOUS
<1>2. \A i, from : on(i, from) \in SUBSET (0..n)
  BY <1>1 DEF Consume
<1>3. Match(pattern, names) <=> n \in ends[l]
  BY DEF Match
<1> HIDE DEF l, n, on
<1>4. 0 \in T
  <2> DEFINE f == [i \in 0..0 |-> {0}]
  <2>1. f \in [0..0 -> SUBSET (0..n)] /\ Good(0, f)
    BY <1>1
  <2>2. QED
    BY <2>1
<1>5. ASSUME NEW m \in T PROVE m + 1 \in T
  <2> HIDE DEF Some
  <2> SUFFICES ASSUME m + 1 <= l PROVE Some(m + 1)
    OBVIOUS
  <2> USE DEF Some
  <2>1. PICK f \in [0..m -> SUBSET (0..n)] : Good(m, f)
    BY <1>1
  <2> DEFINE g == [i \in 0..(m + 1) |-> IF i <= m THEN f[i] ELSE on(m + 1, f[m])]
  <2>2. g \in [0..(m + 1) -> SUBSET (0..n)]
    BY <1>2, <2>1
  <2>3. g[0] = {0} /\ \A i \in 0..m : g[i] = f[i]
    BY <2>1
  <2>4. g[m + 1] = on(m + 1, f[m])
    OBVIOUS
  <2> HIDE DEF g
  <2>5. ASSUME NEW i \in 1..(m + 1) PROVE g[i] = on(i, g[i - 1])
    <3>1. CASE i = m + 1
      BY <2>3, <2>4, <3>1
    <3>2. CASE i # m + 1
      <4>1. i \in 1..m /\ i - 1 \in 0..m /\ i \in 0..m
        BY <3>2
      <4>2. QED
        BY <2>1, <2>3, <4>1
    <3>3. QED
      BY <3>1, <3>2
  <2>6. Good(m + 1, g)
    BY <2>3, <2>5
  <2>7. QED
    BY <2>2, <2>6
<1>6. l \in T
  <2> HIDE DEF T
  <2>1. T \in SUBSET Nat
    BY DEF T
  <2>2. QED
    BY <1>1, <1>4, <1>5, <2>1, NatSetInduction
<1>7. PICK f \in [0..l -> SUBSET (0..n)] : Good(l, f)
  BY <1>1, <1>6
<1>8. Equation(f)
  <2>1. \A i \in 0..l : f[i] = IF i = 0 THEN {0} ELSE on(i, f[i - 1])
    BY <1>1, <1>7
  <2>2. f = [i \in 0..l |-> f[i]]
    BY <1>7
  <2> HIDE DEF Good
  <2>3. QED
    BY <2>1, <2>2
<1>9. Equation(ends)
  <2> HIDE DEF Equation
  <2>1. QED
    BY <1>8
<1> HIDE DEF ends
<1>10. \A i \in 0..l : ends[i] = IF i = 0 THEN {0} ELSE on(i, ends[i - 1])
  BY <1>9
<1>11. DOMAIN ends = 0..l /\ ends = [i \in 0..l |-> ends[i]]
  BY <1>9
<1>12. ends \in [0..l -> SUBSET (0..n)]
  BY <1>1, <1>2, <1>10, <1>11
<1>13. ends[0] = {0} /\ \A i \in 1..l : ends[i] = on(i, ends[i - 1])
  BY <1>1, <1>10
<1>14. QED
  BY <1>3, <1>12, <1>13 DEF l, n, on

\* What a sequence that is not empty is made of.
LEMMA NonEmptyParts ==
  ASSUME NEW S, NEW s \in Seq(S), s # << >>
  PROVE  /\ Len(s) \in Nat /\ Len(s) >= 1 /\ DOMAIN s = 1..Len(s)
         /\ Tail(s) \in Seq(S) /\ Len(Tail(s)) = Len(s) - 1
         /\ \A i \in 1..(Len(s) - 1) : Tail(s)[i] = s[i + 1]
         /\ Last(s) = s[Len(s)]
<1>1. Len(s) \in Nat \ {0} /\ DOMAIN s = 1..Len(s)
  BY EmptySeq
<1>2. /\ Tail(s) \in Seq(S) /\ Len(Tail(s)) = Len(s) - 1
      /\ \A i \in 1..(Len(s) - 1) : Tail(s)[i] = s[i + 1]
  BY HeadTailProperties
<1>3. QED
  BY <1>1, <1>2 DEF Last

\* The component before a slash at the beginning of a name.
Empty == ""

\* A name is absolute if its first component is that one, which no glob and not
\* "**" is.
LEMMA EmptyFacts ==
  /\ \A name : IsAbs(name) <=> name # << >> /\ name[1] = Empty
  /\ Empty \notin DOMAIN Globs /\ Empty # "**"
<1>1. \A name : IsAbs(name) <=> name # << >> /\ name[1] = Empty
  BY Zenon DEF IsAbs, Empty
<1>2. Empty \notin DOMAIN Globs
  BY InputsAssumption, Zenon DEF InputsAssumption, Empty
<1>3. Empty # "**"
  BY DEF Empty
<1>4. QED
  BY <1>1, <1>2, <1>3

\* A name with a slash before it.
LEMMA SlashBefore ==
  ASSUME NEW S, NEW s \in Seq(S)
  PROVE  /\ <<Empty>> \o s \in Seq(S \cup {Empty})
         /\ Len(<<Empty>> \o s) = Len(s) + 1 /\ Len(s) \in Nat
         /\ (<<Empty>> \o s)[1] = Empty
         /\ \A j \in 1..Len(s) : (<<Empty>> \o s)[j + 1] = s[j]
<1> DEFINE R == S \cup {Empty}
           one == <<Empty>>
           both == one \o s
<1>1. one \in Seq(R) /\ Len(one) = 1 /\ one[1] = Empty /\ Len(s) \in Nat
  OBVIOUS
<1>2. s \in Seq(R)
  BY SeqMonotonic
<1> HIDE DEF one, R
<1>3. /\ both \in Seq(R) /\ Len(both) = Len(s) + 1
      /\ \A i \in 1..(Len(one) + Len(s)) :
           both[i] = IF i <= Len(one) THEN one[i] ELSE s[i - Len(one)]
  <2>1. one \in Seq(R)
    BY <1>1
  <2>2. /\ both \in Seq(R) /\ Len(both) = Len(one) + Len(s)
        /\ \A i \in 1..(Len(one) + Len(s)) :
             both[i] = IF i <= Len(one) THEN one[i] ELSE s[i - Len(one)]
    BY <1>2, <2>1, ConcatProperties
  <2>3. QED
    BY <1>1, <2>2
<1> HIDE DEF both
<1>4. both[1] = Empty
  BY <1>1, <1>3
<1>5. ASSUME NEW j \in 1..Len(s) PROVE both[j + 1] = s[j]
  <2>1. j + 1 \in 1..(Len(one) + Len(s)) /\ ~(j + 1 <= Len(one)) /\ (j + 1) - Len(one) = j
    BY <1>1
  <2>2. QED
    BY <1>3, <2>1
<1>6. QED
  BY <1>1, <1>3, <1>4, <1>5 DEF both, one, R

\* A pattern that begins with a slash matches no path that does not.
LEMMA AbsMatchesNoPath ==
  ASSUME NEW Q, NEW pattern \in Seq(Q), IsAbs(pattern),
         NEW R, NEW names \in Seq(R), \A k \in DOMAIN names : names[k] # Empty
  PROVE  ~Match(pattern, names)
<1> DEFINE l == Len(pattern)
           n == Len(names)
<1>1. l \in Nat /\ l >= 1 /\ pattern[1] = Empty /\ n \in Nat /\ DOMAIN names = 1..n
  BY NonEmptyParts, EmptyFacts
<1>2. PICK ends \in [0..l -> SUBSET (0..n)] :
        /\ ends[0] = {0}
        /\ \A i \in 1..l : ends[i] = Consume(pattern[i], names, ends[i - 1])
        /\ Match(pattern, names) <=> n \in ends[l]
  BY MatchEnds
<1>3. Consume(Empty, names, {0}) = {}
  <2>1. Empty # "**"
    BY EmptyFacts
  <2>2. ASSUME NEW j \in 1..n PROVE ~Fits(Empty, names[j])
    <3>1. names[j] # Empty
      BY <1>1
    <3>2. QED
      BY <3>1, EmptyFacts DEF Fits
  <2>3. QED
    BY <2>1, <2>2 DEF Consume
<1>4. \A part : Consume(part, names, {}) = {}
  BY DEF Consume
<1> DEFINE None(i) == i \in 1..l => ends[i] = {}
           T == {i \in Nat : None(i)}
<1> HIDE DEF l, n
<1>5. 0 \in T
  BY <1>1
<1>6. ASSUME NEW i \in Nat, i \in T PROVE i + 1 \in T
  <2>1. None(i)
    BY <1>6
  <2> DEFINE k == i + 1
  <2>2. k \in Nat /\ k - 1 = i /\ (i = 0 => k = 1) /\ (i # 0 /\ k \in 1..l => i \in 1..l)
    BY <1>1
  <2> HIDE DEF k
  <2>3. ASSUME k \in 1..l PROVE ends[k] = {}
    <3>1. ends[k] = Consume(pattern[k], names, ends[i])
      BY <1>2, <2>2, <2>3
    <3>2. CASE i = 0
      BY <1>1, <1>2, <1>3, <2>2, <3>1, <3>2
    <3>3. CASE i # 0
      BY <1>4, <2>1, <2>2, <2>3, <3>1, <3>3
    <3>4. QED
      BY <3>2, <3>3
  <2>4. None(k)
    BY <2>3
  <2> HIDE DEF None
  <2>5. QED
    BY <2>2, <2>4 DEF k
<1>7. l \in T
  <2> HIDE DEF T
  <2>1. QED
    BY <1>1, <1>5, <1>6, NatSetInduction
<1>8. ends[l] = {}
  BY <1>1, <1>7
<1>9. QED
  BY <1>2, <1>8

\* With the slash before the path, too, the rest of the pattern matches the path
\* or not.
LEMMA AbsMatchesAbs ==
  ASSUME NEW Q, NEW pattern \in Seq(Q), IsAbs(pattern), NEW R, NEW names \in Seq(R)
  PROVE  Match(pattern, <<Empty>> \o names) <=> Match(Tail(pattern), names)
<1> DEFINE rest == Tail(pattern)
           abs == <<Empty>> \o names
           l == Len(rest)
           n == Len(names)
           Shifted(S) == {j + 1 : j \in S}
<1>1. /\ rest \in Seq(Q) /\ abs \in Seq(R \cup {Empty})
      /\ l \in Nat /\ n \in Nat /\ Len(pattern) = l + 1 /\ Len(abs) = n + 1
  BY NonEmptyParts, SlashBefore, EmptyFacts
<1>2. pattern[1] = Empty /\ \A i \in 1..l : rest[i] = pattern[i + 1]
  BY NonEmptyParts, EmptyFacts
<1>3. abs[1] = Empty /\ \A j \in 1..n : abs[j + 1] = names[j]
  BY SlashBefore
<1> HIDE DEF rest, abs
<1>4. PICK long \in [0..Len(pattern) -> SUBSET (0..Len(abs))] :
        /\ long[0] = {0}
        /\ \A i \in 1..Len(pattern) : long[i] = Consume(pattern[i], abs, long[i - 1])
        /\ Match(pattern, abs) <=> Len(abs) \in long[Len(pattern)]
  BY <1>1, MatchEnds
<1>5. PICK short \in [0..l -> SUBSET (0..n)] :
        /\ short[0] = {0}
        /\ \A i \in 1..l : short[i] = Consume(rest[i], names, short[i - 1])
        /\ Match(rest, names) <=> n \in short[l]
  BY <1>1, MatchEnds
<1> HIDE DEF l, n
<1>6. Consume(Empty, abs, {0}) = {1}
  <2>1. Fits(Empty, abs[1])
    BY <1>3, EmptyFacts DEF Fits
  <2>2. Empty # "**" /\ Len(abs) = n + 1 /\ n \in Nat
    BY <1>1, EmptyFacts DEF l, n
  <2>3. QED
    BY <2>1, <2>2 DEF Consume
<1>7. ASSUME NEW part, NEW S \in SUBSET (0..n)
      PROVE  Consume(part, abs, Shifted(S)) = Shifted(Consume(part, names, S))
  <2>1. n \in Nat /\ Len(abs) = n + 1 /\ Len(names) = n
    BY <1>1 DEF n
  <2>2. CASE part = "**"
    <3>1. ASSUME NEW j \in 0..(n + 1), NEW k \in S, k + 1 <= j
          PROVE  j - 1 \in 0..n /\ k <= j - 1 /\ j = (j - 1) + 1
      BY <2>1, <3>1
    <3>2. \A j \in 0..n : \A k \in S : k <= j => k + 1 <= j + 1 /\ j + 1 \in 0..(n + 1)
      BY <2>1
    <3>3. Consume(part, abs, Shifted(S)) = {j \in 0..(n + 1) : \E k \in S : k + 1 <= j}
      BY <2>1, <2>2 DEF Consume
    <3>4. Consume(part, names, S) = {j \in 0..n : \E k \in S : k <= j}
      BY <2>1, <2>2 DEF Consume
    <3>5. QED
      BY <3>1, <3>2, <3>3, <3>4
  <2>3. CASE part # "**"
    <3>1. Consume(part, abs, Shifted(S)) =
            {j \in 1..(n + 1) : j - 1 \in Shifted(S) /\ Fits(part, abs[j])}
      BY <2>1, <2>3 DEF Consume
    <3>2. Consume(part, names, S) = {j \in 1..n : j - 1 \in S /\ Fits(part, names[j])}
      BY <2>1, <2>3 DEF Consume
    <3>3. ASSUME NEW j \in 1..(n + 1), j - 1 \in Shifted(S), Fits(part, abs[j])
          PROVE  /\ j - 1 \in 1..n /\ (j - 1) - 1 \in S /\ Fits(part, names[j - 1])
                 /\ j = (j - 1) + 1
      <4>1. PICK k \in S : j - 1 = k + 1
        BY <3>3
      <4>2. /\ k \in 0..n /\ j - 1 \in 1..n /\ (j - 1) - 1 = k
            /\ j = (j - 1) + 1
        BY <2>1, <4>1
      <4>3. abs[j] = names[j - 1]
        BY <1>3, <4>2 DEF n
      <4>4. QED
        BY <3>3, <4>2, <4>3
    <3>4. ASSUME NEW j \in 1..n, j - 1 \in S, Fits(part, names[j])
          PROVE  j + 1 \in 1..(n + 1) /\ (j + 1) - 1 \in Shifted(S) /\ Fits(part, abs[j + 1])
      <4>1. j + 1 \in 1..(n + 1) /\ (j + 1) - 1 = (j - 1) + 1
        BY <2>1
      <4>2. (j + 1) - 1 \in Shifted(S)
        BY <3>4, <4>1
      <4>3. abs[j + 1] = names[j]
        BY <1>3 DEF n
      <4>4. QED
        BY <3>4, <4>1, <4>2, <4>3
    <3> HIDE DEF Shifted
    <3>5. \A i : i \in Consume(part, abs, Shifted(S)) <=>
                   \E j \in Consume(part, names, S) : i = j + 1
      BY <3>1, <3>2, <3>3, <3>4
    <3>6. QED
      BY <3>5 DEF Shifted
  <2>4. QED
    BY <2>2, <2>3
<1> DEFINE T == {i \in Nat : i <= l => long[i + 1] = Shifted(short[i])}
<1>8. 0 \in T
  <2>1. long[1] = {1}
    <3>1. 1 \in 1..(l + 1) /\ 1 - 1 = 0
      BY <1>1 DEF l
    <3>2. QED
      BY <1>1, <1>2, <1>4, <1>6, <3>1 DEF l
  <2>2. Shifted(short[0]) = {1}
    BY <1>5
  <2> HIDE DEF Shifted
  <2>3. 0 + 1 = 1
    OBVIOUS
  <2>4. QED
    BY <2>1, <2>2, <2>3
<1>9. ASSUME NEW i \in Nat, i \in T PROVE i + 1 \in T
  <2> HIDE DEF Shifted
  <2>1. i <= l => long[i + 1] = Shifted(short[i])
    BY <1>9
  <2> SUFFICES ASSUME i + 1 <= l PROVE long[(i + 1) + 1] = Shifted(short[i + 1])
    OBVIOUS
  <2> DEFINE k == i + 1
  <2>2. k \in 1..l /\ k + 1 \in 1..(l + 1) /\ (k + 1) - 1 = k /\ k - 1 = i /\ i \in 0..l
    BY <1>1 DEF l
  <2>3. long[k] = Shifted(short[i])
    BY <1>1, <2>1 DEF l
  <2> HIDE DEF k, T, Shifted
  <2>4. long[k + 1] = Consume(pattern[k + 1], abs, Shifted(short[i]))
    BY <1>1, <1>4, <2>2, <2>3 DEF l
  <2>5. pattern[k + 1] = rest[k]
    BY <1>2, <2>2 DEF l
  <2>6. short[i] \in SUBSET (0..n) /\ short[k] = Consume(rest[k], names, short[i])
    BY <1>5, <2>2
  <2>7. long[k + 1] = Shifted(short[k])
    BY <1>7, <2>4, <2>5, <2>6
  <2>8. QED
    BY <2>7 DEF k
<1>10. l \in T
  <2> HIDE DEF T
  <2>1. l \in Nat
    BY <1>1 DEF l
  <2>2. QED
    BY <1>8, <1>9, <2>1, NatSetInduction
<1>11. long[l + 1] = Shifted(short[l])
  BY <1>10
<1>12. n + 1 \in Shifted(short[l]) <=> n \in short[l]
  <2>1. n \in Nat /\ short[l] \in SUBSET (0..n)
    BY <1>1, <1>5 DEF l, n
  <2> DEFINE S == short[l]
  <2> HIDE DEF S
  <2>2. S \in SUBSET (0..n)
    BY <2>1 DEF S
  <2>3. n + 1 \in Shifted(S) <=> n \in S
    BY <2>1, <2>2
  <2>4. QED
    BY <2>3 DEF S
<1>13. QED
  BY <1>1, <1>4, <1>5, <1>11, <1>12 DEF rest, abs, l, n

\* A pattern of one component, with ** before it, is matched by the last name.
LEMMA OneMatchesTheLast ==
  ASSUME NEW part, NEW S, NEW names \in Seq(S), names # << >>
  PROVE  Match(<<"**", part>>, names) <=> Match(<<part>>, <<Last(names)>>)
<1> DEFINE n == Len(names)
<1>1. n \in Nat /\ n >= 1 /\ names[n] = Last(names)
  BY NonEmptyParts
<1>2. Match(<<"**", part>>, names) <=> n \in Consume(part, names, Consume("**", names, {0}))
  <2> DEFINE pattern == <<"**", part>>
  <2> HIDE DEF pattern
  <2>1. /\ pattern \in Seq({"**", part}) /\ Len(pattern) = 2
        /\ pattern[1] = "**" /\ pattern[2] = part
    BY DEF pattern
  <2>2. PICK ends \in [0..Len(pattern) -> SUBSET (0..n)] :
          /\ ends[0] = {0}
          /\ \A i \in 1..Len(pattern) : ends[i] = Consume(pattern[i], names, ends[i - 1])
          /\ Match(pattern, names) <=> n \in ends[Len(pattern)]
    BY <2>1, MatchEnds
  <2>3. ends[1] = Consume("**", names, {0}) /\ ends[2] = Consume(part, names, ends[1])
    <3>1. 1 \in 1..Len(pattern) /\ 2 \in 1..Len(pattern) /\ 1 - 1 = 0 /\ 2 - 1 = 1
      BY <2>1
    <3>2. ends[1] = Consume(pattern[1], names, ends[1 - 1])
      BY <2>2, <3>1
    <3>3. ends[2] = Consume(pattern[2], names, ends[2 - 1])
      BY <2>2, <3>1
    <3>4. QED
      BY <2>1, <2>2, <3>1, <3>2, <3>3
  <2>4. QED
    BY <2>1, <2>2, <2>3 DEF pattern
<1>3. Match(<<part>>, <<Last(names)>>) <=> 1 \in Consume(part, <<Last(names)>>, {0})
  <2> DEFINE pattern == <<part>>
             last == <<Last(names)>>
  <2> HIDE DEF pattern, last
  <2>1. /\ pattern \in Seq({part}) /\ Len(pattern) = 1 /\ pattern[1] = part
        /\ last \in Seq({Last(names)}) /\ Len(last) = 1
    BY DEF pattern, last
  <2>2. PICK ends \in [0..Len(pattern) -> SUBSET (0..Len(last))] :
          /\ ends[0] = {0}
          /\ \A i \in 1..Len(pattern) : ends[i] = Consume(pattern[i], last, ends[i - 1])
          /\ Match(pattern, last) <=> Len(last) \in ends[Len(pattern)]
    BY <2>1, MatchEnds
  <2>3. ends[1] = Consume(part, last, {0})
    BY <2>1, <2>2
  <2>4. QED
    BY <2>1, <2>2, <2>3 DEF pattern, last
<1>4. Consume("**", names, {0}) = 0..n
  BY <1>1 DEF Consume
<1>5. n \in Consume(part, names, 0..n) <=> part = "**" \/ Fits(part, names[n])
  BY <1>1 DEF Consume
<1>6. 1 \in Consume(part, <<Last(names)>>, {0}) <=> part = "**" \/ Fits(part, Last(names))
  <2>1. Len(<<Last(names)>>) = 1 /\ <<Last(names)>>[1] = Last(names)
    OBVIOUS
  <2>2. QED
    BY <2>1 DEF Consume
<1>7. QED
  BY <1>1, <1>2, <1>3, <1>4, <1>5, <1>6

\* The two ways ls looks at a pattern (FilterFiles) are what its help says of
\* one, for a path as entries have it.
LEMMA MatchesAsSaid ==
  ASSUME NEW S, input.pattern \in Seq(S), input.pattern # << >>,
         NEW p \in Seq(Names), p # << >>
  PROVE  IF Len(input.pattern) = 1
         THEN Match(<<"**">> \o input.pattern, p) <=> MatchesAsDocumented(p)
         ELSE Match(input.pattern, p) \/ (IsAbs(input.pattern) /\ Match(input.pattern, <<"">> \o p))
                <=> MatchesAsDocumented(p)
<1> DEFINE pattern == input.pattern
<1>1. \A k \in DOMAIN p : p[k] # Empty
  <2>1. \A k \in DOMAIN p : p[k] \in Names
    OBVIOUS
  <2>2. Empty \notin Names
    BY Zenon DEF Empty, Names
  <2>3. QED
    BY <2>1, <2>2
<1>2. CASE Len(pattern) = 1
  <2> DEFINE part == pattern[1]
             star == "**"
  <2>1. pattern = <<part>>
    <3>1. pattern \in Seq(S) /\ <<part>> \in Seq({part}) /\ Len(<<part>>) = 1 /\ <<part>>[1] = part
      OBVIOUS
    <3>2. DOMAIN pattern = 1..1 /\ DOMAIN <<part>> = 1..1
      BY <1>2, <3>1
    <3>3. pattern = [k \in 1..1 |-> pattern[k]] /\ <<part>> = [k \in 1..1 |-> <<part>>[k]]
      BY <3>1, <3>2
    <3>4. \A k \in 1..1 : pattern[k] = <<part>>[k]
      BY <3>1
    <3>5. QED
      BY <3>3, <3>4
  <2> HIDE DEF part
  <2>2. <<star>> \o <<part>> = <<star, part>>
    <3> DEFINE R == {star, part}
               a == <<star>>
               b == <<part>>
               ab == a \o b
               two == <<star, part>>
    <3> HIDE DEF star
    <3>1. /\ a \in Seq(R) /\ Len(a) = 1 /\ a[1] = star
          /\ b \in Seq(R) /\ Len(b) = 1 /\ b[1] = part
          /\ two \in Seq(R) /\ Len(two) = 2 /\ two[1] = star /\ two[2] = part
      OBVIOUS
    <3> HIDE DEF a, b, two, R
    <3>2. /\ ab \in Seq(R) /\ Len(ab) = Len(a) + Len(b)
          /\ \A i \in 1..(Len(a) + Len(b)) : ab[i] = IF i <= Len(a) THEN a[i] ELSE b[i - Len(a)]
      BY <3>1, ConcatProperties
    <3> HIDE DEF ab
    <3>3. ab[1] = star /\ ab[2] = part
      BY <3>1, <3>2
    <3>4. \A i \in 1..Len(ab) : ab[i] = two[i]
      BY <3>1, <3>2, <3>3
    <3>5. ab = two
      BY <3>1, <3>2, <3>4, SeqEqual
    <3>6. QED
      BY <3>5 DEF ab, a, b, two
  <2>3. Match(<<"**">> \o pattern, p) <=> Match(<<part>>, <<Last(p)>>)
    BY <2>1, <2>2, OneMatchesTheLast
  <2>4. QED
    BY <1>2, <2>1, <2>3 DEF MatchesAsDocumented
<1>3. CASE Len(pattern) # 1
  <2>1. CASE IsAbs(pattern)
    <3>1. ~Match(pattern, p)
      BY <1>1, <2>1, AbsMatchesNoPath
    <3>2. Match(pattern, <<Empty>> \o p) <=> Match(Tail(pattern), p)
      BY <2>1, AbsMatchesAbs
    <3>3. Match(pattern, <<"">> \o p) <=> Match(Tail(pattern), p)
      BY <3>2, Zenon DEF Empty
    <3>4. MatchesAsDocumented(p) <=> Match(Tail(pattern), p)
      BY <1>3, <2>1, Zenon DEF MatchesAsDocumented
    <3>5. QED
      BY <1>3, <2>1, <3>1, <3>3, <3>4, Zenon
  <2>2. CASE ~IsAbs(pattern)
    BY <1>3, <2>2, Zenon DEF MatchesAsDocumented
  <2>3. QED
    BY <2>1, <2>2
<1>4. QED
  BY <1>2, <1>3

\* The paths of the entries a command works on.
LEMMA EntryPaths ==
  ASSUME IInv, input \in Inputs, pc = "done", input.name \in DOMAIN Works,
         NEW e \in loaded[1].entries
  PROVE  e.path \in Seq(Names) /\ e.path # << >>
<1>1. 1 \in DOMAIN loaded
  <2>1. Len(loaded) = Len(input.refs) /\ IsSequence(loaded)
    BY DEF IInv, LoadInv
  <2>2. Len(input.refs) \in Nat \ {0}
    BY InputFacts
  <2>3. QED
    BY <2>1, <2>2, SequenceFacts
<1>2. e.path \in Path \ {Root}
  BY <1>1 DEF IInv, LoadInv, WellMerged
<1>3. PICK n \in RawNames \cup {<< >>} : e.path = Clean(n)
  BY <1>2 DEF Path
<1>4. n \in Seq(Word)
  BY <1>3, EmptySeq, ImagesAssumption DEF ImagesAssumption, Word
<1>5. QED
  BY <1>2, <1>3, <1>4, CleanType DEF Root

\* What List makes of the entries.
Listed(all) ==
  LET scoped == IF input.path = NoArgument THEN all ELSE FilterByPath(all, input.path)
  IN  IF input.pattern = NoArgument THEN scoped ELSE FilterFiles(scoped, input.pattern)

ListInv == Ran("ls") => out = Listed(loaded[1].entries)

\* ls lists what its help says: the entries at or below the path, when it is a
\* plain one, that the pattern matches (List, for RunLs of command/ls.go).
THEOREM LsIsRight == Spec => []LsListsWhatIsAsked
<1>1. Init => ListInv
  BY DEF Init, ListInv, Ran
<1>2. IInv /\ ListInv /\ [Next]_vars => ListInv'
  <2> SUFFICES ASSUME IInv, ListInv, [Next]_vars, (Ran("ls"))'
               PROVE  out' = Listed(loaded[1].entries)'
    BY DEF ListInv
  <2>1. input' = input /\ CommandInv
    BY InputStays DEF IInv
  <2>2. input.name = "ls" /\ pc' = "done"
    BY <2>1 DEF Ran
  <2>3. CASE List
    BY <2>1, <2>3 DEF List, Listed
  <2>4. CASE pc = "done" /\ UNCHANGED commandVars
    <3>1. Ran("ls") /\ out' = out /\ loaded' = loaded
      BY <2>2, <2>4 DEF Ran, commandVars, context, printing
    <3>2. QED
      BY <2>1, <3>1 DEF ListInv, Listed
  <2>5. QED
    BY <2>1, <2>2, <2>3, <2>4, DonePlaces DEF Works
<1>3. IInv /\ input \in Inputs /\ ListInv => LsListsWhatIsAsked
  <2> SUFFICES ASSUME IInv, input \in Inputs, ListInv, Ran("ls"),
                      input.path # NoArgument => PlainPath
               PROVE  out = {e \in loaded[1].entries :
                               /\ input.path # NoArgument => IsPrefix(Clean(input.path), e.path)
                               /\ input.pattern # NoArgument =>
                                    IF HasWildcard(input.pattern) THEN MatchesAsDocumented(e.path)
                                    ELSE e.path \in Substring[input.pattern]}
    BY DEF LsListsWhatIsAsked
  <2> DEFINE all == loaded[1].entries
             InScope(e) == input.path # NoArgument => IsPrefix(Clean(input.path), e.path)
             Asked(e) == IF HasWildcard(input.pattern) THEN MatchesAsDocumented(e.path)
                         ELSE e.path \in Substring[input.pattern]
             scoped == {e \in all : InScope(e)}
  <2>1. input.pattern \in Seq(STRING) /\ input.pattern # << >>
    BY InputsAssumption DEF InputsAssumption
  <2>2. \A e \in all : e.path \in Seq(Names) /\ e.path # << >>
    BY EntryPaths DEF Ran, Works
  <2>3. scoped = IF input.path = NoArgument THEN all ELSE FilterByPath(all, input.path)
    BY DEF FilterByPath, PlainPath
  <2>4. FilterFiles(scoped, input.pattern) = {e \in scoped : Asked(e)}
    <3>1. ASSUME NEW e \in scoped, HasWildcard(input.pattern)
          PROVE  IF Len(input.pattern) = 1
                 THEN Match(<<"**">> \o input.pattern, e.path) <=> MatchesAsDocumented(e.path)
                 ELSE Match(input.pattern, e.path)
                        \/ (IsAbs(input.pattern) /\ Match(input.pattern, <<"">> \o e.path))
                        <=> MatchesAsDocumented(e.path)
      BY <2>1, <2>2, MatchesAsSaid
    <3>2. QED
      BY <3>1, Zenon DEF FilterFiles
  <2> HIDE DEF scoped
  <2>5. out = IF input.pattern = NoArgument THEN scoped ELSE {e \in scoped : Asked(e)}
    BY <2>3, <2>4 DEF ListInv, Listed
  <2> HIDE DEF Asked, InScope
  <2>6. out = {e \in all : InScope(e) /\ (input.pattern # NoArgument => Asked(e))}
    BY <2>5 DEF scoped
  <2>7. QED
    BY <2>6 DEF Asked, InScope
<1>4. Spec => [](IInv /\ input \in Inputs)
  BY ProgramKeeps
<1>5. QED
  BY <1>1, <1>2, <1>3, <1>4, PTL DEF Spec
-----------------------------------------------------------------------------
\* cat and cp: where a path leads, and what is read there.

\* What the kernel can stand on: the root, an entry or what lies above one.
IsPlace(f, d) == d = Root \/ d \in DOMAIN f \/ Implicit(f, d)

\* What lies above a place is a place.
LEMMA PlacesAbove ==
  ASSUME NEW f, IsFilesystem(f), NEW d \in Raw, IsPlace(f, d), d # Root
  PROVE  IsPlace(f, Dir(d))
<1>1. Len(d) \in Nat /\ Len(d) # 0
  BY DEF Raw, Root
<1>2. Dir(d) \in Raw /\ Len(Dir(d)) = Len(d) - 1 /\ IsStrictPrefix(Dir(d), d)
  <2>1. Dir(d) \in Raw /\ Len(Dir(d)) = Len(d) - 1
    <3>1. Dir(d) \in Raw
      BY DirType DEF Raw
    <3> DEFINE n == Len(d) - 1
    <3>2. n \in Int /\ n >= 0 /\ \A i \in 1..n : d[i] \in Word
      BY <1>1 DEF Raw
    <3>3. Dir(d) = SubSeq(d, 1, n)
      BY DEF Dir
    <3> HIDE DEF n
    <3>4. Len(SubSeq(d, 1, n)) = IF 1 <= n THEN n - 1 + 1 ELSE 0
      BY <3>2, SubSeqProperties
    <3>5. Len(Dir(d)) = n
      BY <3>2, <3>3, <3>4
    <3>6. QED
      BY <3>1, <3>5 DEF n
  <2>2. SubSeq(d, 1, Len(Dir(d))) = Dir(d)
    BY <2>1 DEF Dir
  <2>3. Dir(d) # d
    BY <1>1, <2>1
  <2>4. QED
    BY <1>1, <2>1, <2>2, <2>3 DEF IsStrictPrefix, IsPrefix
<1>3. PICK r \in DOMAIN f : d = r \/ IsStrictPrefix(d, r)
  BY DEF IsPlace, Implicit
<1>4. r \in Raw
  BY DEF IsFilesystem, Raw
<1>5. IsStrictPrefix(Dir(d), r)
  <2>1. IsPrefix(d, r)
    <3>1. CASE d = r
      BY <1>1, <3>1 DEF IsPrefix, Raw
    <3>2. QED
      BY <1>3, <3>1 DEF IsStrictPrefix
  <2>2. IsPrefix(Dir(d), r)
    BY <1>2, <1>4, <2>1, PrefixOfPrefix DEF IsStrictPrefix
  <2>3. Len(Dir(d)) = Len(d) - 1
    BY <1>2
  <2>4. Len(d) <= Len(r) /\ Len(r) \in Nat
    BY <1>4, <2>1 DEF Raw, IsPrefix
  <2>5. Dir(d) # r
    BY <1>1, <2>3, <2>4
  <2>6. QED
    BY <2>2, <2>5 DEF IsStrictPrefix
<1>6. QED
  BY <1>5 DEF IsPlace, Implicit

\* The kernel ends on a place if it starts from one.
LEMMA KernelPlaces ==
  ASSUME NEW f, IsFilesystem(f)
  PROVE  \A d, n \in Raw, h \in Hops :
           IsPlace(f, d) /\ KernelFrom(f, d, n, h).outcome = "found" =>
             IsPlace(f, KernelFrom(f, d, n, h).path)
<1> DEFINE Ends(x) == IsPlace(f, x[1]) /\ KernelFrom(f, x[1], x[2], x[3]).outcome = "found" =>
                        IsPlace(f, KernelFrom(f, x[1], x[2], x[3]).path)
           T == {x \in Lookups : Ends(x)}
<1>1. ASSUME NEW x \in Lookups, \A y \in Lookups : Earlier(y, x) => y \in T
      PROVE  x \in T
  <2> SUFFICES ASSUME IsPlace(f, x[1]),
                      KernelFrom(f, x[1], x[2], x[3]).outcome = "found"
               PROVE  IsPlace(f, KernelFrom(f, x[1], x[2], x[3]).path)
    OBVIOUS
  <2> DEFINE d == x[1]
             n == x[2]
             h == x[3]
             To(e, m, i) == KernelFrom(f, d, n, h) = KernelFrom(f, e, m, i)
  <2>1. d \in Raw /\ n \in Raw /\ h \in Hops
    BY LookupParts DEF Raw
  <2>2. ASSUME NEW e \in Raw, NEW m \in Raw, NEW i \in Hops, IsPlace(f, e), To(e, m, i),
               i > h \/ (i = h /\ Len(m) < Len(n))
        PROVE  IsPlace(f, KernelFrom(f, d, n, h).path)
    <3> DEFINE y == <<e, m, i>>
    <3>1. y \in Lookups /\ y[1] = e /\ y[2] = m /\ y[3] = i
      BY InLookups DEF Raw
    <3>2. Earlier(y, x)
      BY <2>2, <3>1 DEF Earlier
    <3>3. Ends(y)
      BY <1>1, <3>1, <3>2
    <3> HIDE DEF y
    <3>4. KernelFrom(f, e, m, i).outcome = "found" => IsPlace(f, KernelFrom(f, e, m, i).path)
      BY <2>2, <3>1, <3>3
    <3>5. QED
      BY <2>2, <3>4
  <2>3. CASE n = << >>
    BY <2>1, <2>3, KernelEnd DEF Found
  <2>4. CASE n # << >>
    <3>1. PICK c \in Word, r \in Raw : n = <<c>> \o r /\ Len(r) < Len(n)
      BY <2>1, <2>4, RawCases
    <3>2. CASE Skips(c)
      <4>1. To(d, r, h)
        BY <2>1, <3>1, <3>2, KernelSkips
      <4>2. QED
        BY <2>1, <2>2, <3>1, <4>1
    <3>3. CASE Climbs(c)
      <4> DEFINE up == IF d = Root THEN Root ELSE Dir(d)
      <4>1. To(up, r, h)
        BY <2>1, <3>1, <3>3, KernelClimbs
      <4>2. up \in Raw /\ IsPlace(f, up)
        BY <2>1, UpType, PlacesAbove
      <4> HIDE DEF up
      <4>3. QED
        BY <2>1, <2>2, <3>1, <4>1, <4>2
    <3>4. CASE c \in Names
      <4> DEFINE to == Append(d, c)
      <4>1. to \in Raw
        BY <2>1, RawFacts
      <4>2. KindAt(f, to) # "none" => IsPlace(f, to)
        BY DEF KindAt, IsPlace
      <4>3. CASE KindAt(f, to) = "none"
        <5>1. KernelFrom(f, d, n, h) = Failed("ErrNotExist")
          BY <2>1, <3>1, <3>4, <4>3, KernelNone
        <5>2. QED
          BY <5>1 DEF Failed
      <4>4. CASE KindAt(f, to) = "dir"
        <5>1. To(to, r, h)
          BY <2>1, <3>1, <3>4, <4>4, KernelDir
        <5> HIDE DEF to
        <5>2. QED
          BY <2>1, <2>2, <3>1, <4>1, <4>2, <4>4, <5>1
      <4>5. CASE KindAt(f, to) = "symlink" /\ h = MaxHops
        <5>1. KernelFrom(f, d, n, h) = Failed("ErrLoop")
          BY <2>1, <3>1, <3>4, <4>5, KernelLoop
        <5>2. QED
          BY <5>1 DEF Failed
      <4>6. CASE KindAt(f, to) = "symlink" /\ h # MaxHops
        <5> DEFINE s == LinkStart(f, d, to)
                   m == f[to].link \o r
        <5>1. To(s, m, h + 1)
          BY <2>1, <3>1, <3>4, <4>6, KernelLink
        <5>2. s \in Raw /\ IsPlace(f, s)
          BY <2>1, StartType DEF LinkStart, IsPlace
        <5>3. m \in Raw
          BY <3>1, <4>1, <4>6, KindAtLink, RawConcat DEF Raw
        <5>4. h + 1 \in Hops /\ h + 1 > h
          BY <2>1, <4>6, HopsFacts DEF Hops
        <5> HIDE DEF s, m
        <5>5. QED
          BY <2>2, <5>1, <5>2, <5>3, <5>4
      <4>7. CASE KindAt(f, to) \notin {"none", "dir", "symlink"}
        <5>1. KernelFrom(f, d, n, h) = IF r = << >> THEN Found(to) ELSE Failed("ErrNotDir")
          BY <2>1, <3>1, <3>4, <4>7, KernelOther
        <5>2. QED
          BY <4>2, <4>7, <5>1 DEF Found, Failed
      <4>8. QED
        BY <4>3, <4>4, <4>5, <4>6, <4>7
    <3>5. QED
      BY <3>2, <3>3, <3>4, WordCases
  <2>5. QED
    BY <2>3, <2>4
<1>2. \A x \in Lookups : x \in T
  BY <1>1, EarlierInduction
<1> SUFFICES ASSUME NEW d \in Raw, NEW n \in Raw, NEW h \in Hops PROVE Ends(<<d, n, h>>)
  OBVIOUS
<1>3. <<d, n, h>> \in Lookups
  BY InLookups DEF Raw
<1>4. QED
  BY <1>2, <1>3

\* Archives of well-formed headers, and what there is in one.
Archives == Seq({h \in Header : WellFormed(h)})

\* A header of an archive, its name and its target.
LEMMA HeaderParts ==
  ASSUME NEW a \in Archives, NEW k \in DOMAIN a
  PROVE  /\ a[k] \in Header /\ WellFormed(a[k]) /\ a[k].kind \in Kinds
         /\ a[k].link \in Seq(Word) /\ a[k].name \in Seq(Word)
         /\ Clean(a[k].link) \in Path /\ Clean(a[k].name) \in Path
<1>1. a[k] \in Header /\ WellFormed(a[k])
  BY DEF Archives
<1>2. /\ a[k].kind \in Kinds /\ a[k].link \in RawNames \cup {<< >>}
      /\ a[k].name \in RawNames
  BY <1>1 DEF Header
<1>3. RawNames \cup {<< >>} \subseteq Seq(Word)
  BY EmptySeq, ImagesAssumption DEF Word
<1>4. QED
  BY <1>1, <1>2, <1>3 DEF Path

\* The positions of an archive are naturals up to its length.
LEMMA PositionsFinite ==
  ASSUME NEW a \in Archives, NEW p
  PROVE  /\ Positions(a, p) \in SUBSET (1..Len(a)) /\ Len(a) \in Nat
         /\ IsFiniteSet(Positions(a, p))
         /\ Positions(a, p) # {} => Max(Positions(a, p)) \in Positions(a, p)
<1>1. DOMAIN a = 1..Len(a) /\ Len(a) \in Nat
  BY DEF Archives
<1>2. Positions(a, p) \in SUBSET (1..Len(a))
  BY <1>1 DEF Positions
<1>3. IsFiniteSet(1..Len(a))
  BY <1>1, FS_Interval
<1>4. IsFiniteSet(Positions(a, p))
  BY <1>2, <1>3, FS_Subset
<1>5. QED
  BY <1>1, <1>2, <1>4, MaxOfSome

\* In an ordinary archive a path has one position at most.
LEMMA OnePosition ==
  ASSUME NEW a \in Archives, OrdinaryArchive(a), NEW p \in Path,
         NEW j \in Positions(a, p), NEW k \in Positions(a, p)
  PROVE  j = k
<1> DEFINE ks == Positions(a, p)
<1>1. Cardinality(ks) <= 1 /\ IsFiniteSet(ks)
  BY PositionsFinite DEF OrdinaryArchive
<1>2. Cardinality(ks) \in Nat /\ Cardinality(ks) # 0
  BY <1>1, FS_CardinalityType, FS_EmptySet
<1>3. Cardinality(ks) = 1
  BY <1>1, <1>2
<1>4. PICK x : ks = {x}
  BY <1>1, <1>3, FS_Singleton
<1>5. QED
  BY <1>4

\* What a layer adds is provided by it once it has been applied.
LEMMA AddedIsProvided ==
  ASSUME NEW layers \in Seq(Archives), NEW i \in 1..Len(layers), NEW q \in Path,
         Positions(layers[i], q) # {}
  PROVE  /\ Built(layers, i)[q] = [layer |-> i, pos |-> Max(Positions(layers[i], q))]
         /\ Built(layers, i)[q] # Absent
<1> DEFINE S == KeptLayers(layers, i, q)
           ks == Positions(layers[i], q)
<1>1. i \in Nat /\ layers[i] \in Archives
  OBVIOUS
<1>2. S \in SUBSET Nat /\ i \in S /\ \A s \in S : s <= i
  BY <1>1 DEF KeptLayers, LayersWith
<1> HIDE DEF S
<1>3. Max(S) \in S /\ \A s \in S : s <= Max(S)
  BY <1>1, <1>2, MaxOfBounded
<1>4. Max(S) = i
  <2>1. Max(S) <= i /\ i <= Max(S)
    BY <1>2, <1>3
  <2>2. Max(S) \in Nat
    BY <1>2, <1>3
  <2>3. QED
    BY <1>1, <2>1, <2>2
<1>5. Built(layers, i)[q] = [layer |-> i, pos |-> Max(ks)]
  BY <1>2, <1>4 DEF Built, Provider, S, ProviderIfAny
<1>6. Max(ks) \in Nat
  BY <1>1, PositionsFinite
<1>7. QED
  BY <1>1, <1>5, <1>6, ImagesAssumption

\* An entry of a merged filesystem is made from one header of one archive.
MadeFrom(layers, e, i, k) ==
  /\ i \in 1..Len(layers) /\ k \in Positions(layers[i], e.path)
  /\ e.layer = i /\ e.path \in Path
  /\ e.kind = layers[i][k].kind /\ e.link = layers[i][k].link
  /\ e.content = IF e.kind = "hardlink" THEN LinkedContent(layers, i, e.link)
                 ELSE layers[i][k].content

\* The entries Build promises (EntriesOf) have a header each.
LEMMA EntriesAreMade ==
  ASSUME NEW layers \in Seq(Archives), NEW e \in EntriesOf(layers)
  PROVE  \E i, k : MadeFrom(layers, e, i, k)
<1> DEFINE n == Len(layers)
           merged == Built(layers, n)
           at(p) == merged[p]
           h(p) == layers[at(p).layer][at(p).pos]
           made(p) == [path |-> p, kind |-> h(p).kind, mode |-> h(p).mode, link |-> h(p).link,
                       layer |-> at(p).layer,
                       content |-> IF h(p).kind = "hardlink"
                                   THEN LinkedContent(layers, at(p).layer, h(p).link)
                                   ELSE h(p).content]
           there == {p \in Path : merged[p] # Absent}
<1>1. EntriesOf(layers) = {made(p) : p \in there}
  BY DEF EntriesOf, Made
<1>2. PICK p \in there : e = made(p)
  BY <1>1
<1> DEFINE S == KeptLayers(layers, n, p)
           i == Max(S)
           k == Max(Positions(layers[i], p))
<1>3. S # {} /\ at(p) = [layer |-> i, pos |-> k]
  BY DEF Built, Provider, ProviderIfAny
<1>4. S \in SUBSET Nat /\ n \in Nat /\ S \subseteq 1..n /\ \A s \in S : s <= n
  BY DEF KeptLayers, LayersWith
<1>5. i \in S
  <2> HIDE DEF S
  <2>1. QED
    BY <1>3, <1>4, MaxOfBounded
<1>6. i \in 1..n /\ Positions(layers[i], p) # {}
  <2>1. \A s \in S : Positions(layers[s], p) # {}
    BY DEF KeptLayers, LayersWith
  <2> HIDE DEF S
  <2>2. QED
    BY <1>4, <1>5, <2>1
<1>7. layers[i] \in Archives
  <2> HIDE DEF i
  <2>1. QED
    BY <1>6
<1>8. k \in Positions(layers[i], p)
  BY <1>6, <1>7, PositionsFinite
<1> HIDE DEF i, k, S, merged
<1>9. MadeFrom(layers, e, i, k)
  BY <1>2, <1>3, <1>6, <1>8 DEF MadeFrom
<1>10. QED
  BY <1>9

\* In an ordinary archive the header that holds bytes under a path is the one
\* that adds it.
LEMMA HoldersAre ==
  ASSUME NEW a \in Archives, OrdinaryArchive(a), NEW p \in Path, NEW j \in Positions(a, p),
         a[j].kind = "reg"
  PROVE  {k \in DOMAIN a : a[k].kind = "reg" /\ Clean(a[k].name) = p} = {j}
<1>1. j \in DOMAIN a /\ Adds(a[j]) /\ Clean(a[j].name) = p
  BY DEF Positions
<1>2. ASSUME NEW k \in DOMAIN a, a[k].kind = "reg", Clean(a[k].name) = p
      PROVE  k = j
  <2>1. Adds(a[k])
    BY <1>1, <1>2 DEF Adds, Whiteout, Opaque, Ignored
  <2>2. k \in Positions(a, p)
    BY <1>2, <2>1 DEF Positions
  <2>3. QED
    BY <2>2, OnePosition
<1>3. QED
  BY <1>1, <1>2

\* What is read for a file is what Build recorded for it, where the archives
\* are ordinary: the bytes under its name, or its target's, in its layer.
LEMMA ReadsItsContent ==
  ASSUME NEW layers \in Seq(Archives), \A k \in DOMAIN layers : OrdinaryArchive(layers[k]),
         NEW e \in EntriesOf(layers), IsRegular(e)
  PROVE  BytesIn(layers[e.layer], e) = {e.content}
<1>1. PICK i, k : MadeFrom(layers, e, i, k)
  BY EntriesAreMade
<1> DEFINE a == layers[i]
<1>2. a \in Archives /\ OrdinaryArchive(a) /\ e.layer = i /\ i \in 1..Len(layers)
  BY <1>1 DEF MadeFrom
<1>3. k \in Positions(a, e.path) /\ e.path \in Path
  BY <1>1 DEF MadeFrom
<1>4. k \in DOMAIN a /\ Adds(a[k]) /\ Clean(a[k].name) = e.path
  BY <1>3 DEF Positions
<1>5. ASSUME NEW j, ContentPath(e) \in Path, j \in Positions(a, ContentPath(e)),
             a[j].kind = "reg", a[j].content = e.content
      PROVE  BytesIn(a, e) = {e.content}
  <2> DEFINE holders == {m \in DOMAIN a : a[m].kind = "reg" /\ Clean(a[m].name) = ContentPath(e)}
  <2>1. holders = {j}
    BY <1>2, <1>5, HoldersAre
  <2>2. j \in Nat
    BY <1>2, <1>5, PositionsFinite
  <2>3. Min({j}) = j
    BY <2>2 DEF Min
  <2>4. BytesIn(a, e) = IF holders = {} THEN {} ELSE {a[Min(holders)].content}
    BY DEF BytesIn
  <2> HIDE DEF holders
  <2>5. QED
    BY <1>5, <2>1, <2>3, <2>4
<1>6. CASE e.kind = "reg"
  <2>1. ContentPath(e) = e.path /\ a[k].kind = "reg" /\ a[k].content = e.content
    BY <1>1, <1>6 DEF MadeFrom, ContentPath
  <2>2. QED
    BY <1>2, <1>3, <1>5, <2>1
<1>7. CASE e.kind = "hardlink"
  <2> DEFINE q == Clean(e.link)
  <2>1. a[k].kind = "hardlink" /\ a[k].link = e.link /\ ContentPath(e) = q
    BY <1>1, <1>7 DEF MadeFrom, ContentPath
  <2>2. q \in Path
    BY <1>2, <1>4, <2>1, HeaderParts
  <2>3. PICK j \in Positions(a, q) : a[j].kind = "reg"
    BY <1>2, <1>4, <2>1 DEF OrdinaryArchive
  <2>4. Max(Positions(a, q)) \in Positions(a, q)
    BY <1>2, <2>3, PositionsFinite
  <2>5. Max(Positions(a, q)) = j
    BY <1>2, <2>2, <2>3, <2>4, OnePosition
  <2>6. Built(layers, i)[q] = [layer |-> i, pos |-> j] /\ Built(layers, i)[q] # Absent
    BY <1>2, <2>2, <2>3, <2>5, AddedIsProvided
  <2>7. LinkedContent(layers, i, e.link) = a[j].content
    BY <2>6 DEF LinkedContent
  <2>8. e.content = a[j].content
    BY <1>1, <1>7, <2>7 DEF MadeFrom
  <2>9. QED
    BY <1>2, <1>5, <2>1, <2>2, <2>3, <2>8
<1>8. QED
  BY <1>2, <1>6, <1>7 DEF IsRegular

\* A merged filesystem is one Lookup can be asked about, and its function gives
\* entries of it.
LEMMA EntriesAreFilesystem ==
  ASSUME NEW layers \in Seq(Archives)
  PROVE  LET fs == EntriesOf(layers) IN
         /\ IsFilesystem(Entries(fs))
         /\ \A p \in DOMAIN Entries(fs) : Entries(fs)[p] \in fs /\ Entries(fs)[p].path = p
<1> DEFINE fs == EntriesOf(layers)
           f == Entries(fs)
<1>1. ASSUME NEW p \in DOMAIN f PROVE f[p] \in fs /\ f[p].path = p
  <2>1. p \in {e.path : e \in fs} /\ f[p] = CHOOSE e \in fs : e.path = p
    BY DEF Entries
  <2> HIDE DEF f, fs
  <2>2. \E e \in fs : e.path = p
    BY <2>1
  <2>3. QED
    BY <2>1, <2>2
<1> HIDE DEF f
<1>2. ASSUME NEW p \in DOMAIN f
      PROVE  /\ p \in Seq(Word) /\ f[p].link \in Seq(Word)
             /\ f[p].kind \in {"reg", "dir", "symlink", "hardlink", "device"}
  <2> DEFINE e == f[p]
  <2>1. PICK i, k : MadeFrom(layers, e, i, k)
    BY <1>1, EntriesAreMade
  <2>2. layers[i] \in Archives /\ k \in Positions(layers[i], e.path)
    BY <2>1 DEF MadeFrom
  <2>3. k \in DOMAIN layers[i] /\ Adds(layers[i][k]) /\ Clean(layers[i][k].name) = e.path
    BY <2>2 DEF Positions
  <2>4. /\ layers[i][k].link \in Seq(Word) /\ layers[i][k].name \in Seq(Word)
        /\ layers[i][k].kind \in Kinds
    BY <2>2, <2>3, HeaderParts
  <2>5. layers[i][k].kind # "global"
    BY <2>3 DEF Adds, Ignored
  <2>6. e.path \in Seq(Names)
    BY <2>3, <2>4, CleanType
  <2>7. e.path \in Seq(Word)
    BY <2>6, NamesAreWords
  <2>8. QED
    BY <1>1, <2>1, <2>4, <2>5, <2>7 DEF MadeFrom, Kinds
<1>3. IsFilesystem(f)
  BY <1>2 DEF IsFilesystem
<1>4. QED
  BY <1>1, <1>3 DEF f

\* What Find takes for the path given.
Led(fs, answer) ==
  LET e == EntryAt(fs, answer.path) IN
  answer.outcome = "found" /\ (IsRegular(e) \/ (IsDir(e) /\ input.name = "cp"))

\* Where the path and the links are plain, Find has the kernel's entry: it is
\* there, or it is the root.
LEMMA LedToKernels ==
  ASSUME NEW layers \in Seq(Archives), NEW name \in Raw,
         PlainInput(Entries(EntriesOf(layers)), name),
         NEW answer \in Answers(Entries(EntriesOf(layers)), name),
         Led(EntriesOf(layers), answer)
  PROVE  LET e == EntryAt(EntriesOf(layers), answer.path) IN
         /\ answer = Kernel(Entries(EntriesOf(layers)), name)
         /\ IsRegular(e) => e \in EntriesOf(layers)
<1> DEFINE fs == EntriesOf(layers)
           f == Entries(fs)
           k == Kernel(f, name)
           e == EntryAt(fs, answer.path)
<1>1. answer.outcome = "found" /\ Failed("ErrNotExist").outcome # "found"
  BY DEF Led, Failed
<1>2. answer = k /\ ~(Implicit(f, k.path) /\ k.path # Root)
  <2> HIDE DEF f, k
  <2>1. Answers(f, name) = IF k.outcome = "found" /\ Implicit(f, k.path) /\ k.path # Root
                           THEN {Failed("ErrNotExist")} ELSE {k}
    BY DEF Answers, f, k
  <2>2. QED
    BY <1>1, <2>1 DEF f
<1>3. IsPlace(f, k.path)
  <2>1. IsFilesystem(f)
    BY EntriesAreFilesystem
  <2> HIDE DEF f
  <2>2. k = KernelFrom(f, Root, name, 0)
    BY DEF Kernel
  <2>3. Root \in Raw /\ 0 \in Hops /\ IsPlace(f, Root)
    BY RawFacts, HopsFacts, MaxHopsAssumption DEF Root, Hops, IsPlace
  <2> HIDE DEF k
  <2>4. QED
    BY <1>1, <1>2, <2>1, <2>2, <2>3, KernelPlaces
<1>4. k.path = Root \/ k.path \in DOMAIN f
  BY <1>2, <1>3 DEF IsPlace
<1>5. ASSUME IsRegular(e) PROVE e \in fs
  <2>1. ~IsRegular(RootEntry)
    BY DEF IsRegular, RootEntry
  <2>2. answer.path # Root
    BY <1>5, <2>1 DEF EntryAt
  <2>3. e = f[answer.path] /\ answer.path \in DOMAIN f
    BY <1>2, <1>4, <2>2 DEF EntryAt
  <2>4. QED
    BY <2>3, EntriesAreFilesystem
<1>6. QED
  BY <1>2, <1>5

\* What Find found, what OpenFile read of it, and what Copy copied.
FoundIt ==
  \E answer \in Answers(Entries(loaded[1].entries), input.path) :
    Led(loaded[1].entries, answer) /\ out = {EntryAt(loaded[1].entries, answer.path)}

ReadIt == \E c \in Bytes(target) : data.path = target.path /\ data.content = c

CopiedIt ==
  data.contents = UNION {{[path |-> e.path, content |-> c] : c \in Bytes(e)} :
                           e \in {f \in Copied : IsRegular(f)}}

FilesInv ==
  /\ pc \in {"find", "read"} \/ Ran("cat") \/ Ran("cp") => input.layer <= Len(image.layers)
  /\ pc = "read" \/ Ran("cat") \/ Ran("cp") => FoundIt
  /\ Ran("cat") => ReadIt
  /\ Ran("cp") => CopiedIt

\* A path is looked for once the layers are merged, and read from once it is
\* found.
LEMMA ReadPlaces ==
  ASSUME CommandInv, [Next]_vars, pc' \in {"find", "read"}
  PROVE  \/ pc' = pc /\ UNCHANGED <<commandVars, data>>
         \/ pc' = "find" /\ Load
         \/ pc' = "read" /\ Find
<1>1. CASE Execute
  <2>1. FirstStep \notin {"find", "read"}
    BY DEF FirstStep
  <2>2. QED
    BY <1>1, <2>1 DEF Execute, Start, UsageError, Render, Report
<1>2. CASE Fetching
  BY <1>2 DEF Fetching, FetchImage, BadArgument, ChooseSource, DaemonAnswers, DaemonFails,
     BadPlatform, RegistryAnswers, RegistryFails, FetchFailed, Fetched
<1>3. CASE Load
  <2>1. Works[input.name] # "read"
    BY <1>3 DEF Works, Load, Loading
  <2>2. QED
    BY <1>3, <2>1 DEF Load
<1>4. CASE NoSuchLayer \/ LoadError
  BY <1>4 DEF NoSuchLayer, LoadError, Fail
<1>5. CASE Find
  BY <1>5 DEF Find
<1>6. CASE Work
  BY <1>6 DEF Work, MapTree, PrintEntry, List, PrintEnd, Compare
<1>7. CASE Reading
  <2>1. OpenFile => pc' = "done"
    BY Zenon DEF OpenFile
  <2>2. Copy => pc' = "done"
    BY Zenon DEF Copy
  <2>3. ReadFails => pc' = "failed"
    BY Zenon DEF ReadFails, Fail
  <2>4. QED
    BY <1>7, <2>1, <2>2, <2>3 DEF Reading
<1>8. CASE Handed
  BY <1>8 DEF Handed, CheckLayer, NoSuchBlob, OpenBlob, WriteTarball, TarballFails,
     PrintDocument, InspectImage, DocumentError, BadReference, ListTags, TagsFail, Fail, Hand
<1>9. CASE UNCHANGED vars
  BY <1>9 DEF vars, documentVars, commandVars
<1>10. QED
  BY <1>1, <1>2, <1>3, <1>4, <1>5, <1>6, <1>7, <1>8, <1>9 DEF Next, Ended

\* The same of the same filesystem and the same entry found.
LEMMA FoundStays ==
  ASSUME UNCHANGED <<input, loaded, out>>, FoundIt
  PROVE  FoundIt'
BY DEF FoundIt, Led

\* The same of the same image and data.
LEMMA DataStays ==
  ASSUME UNCHANGED <<input, image, loaded, out, data>>
  PROVE  (ReadIt => ReadIt') /\ (CopiedIt => CopiedIt')
<1>1. target' = target /\ Chosen' = Chosen
  BY DEF target, Chosen
<1>2. \A e : (Bytes(e))' = Bytes(e)
  BY <1>1 DEF Bytes
<1>3. Copied' = Copied
  BY <1>1 DEF Copied
<1>4. (Bytes(target))' = Bytes(target)
  BY <1>1, <1>2
<1>5. QED
  BY <1>1, <1>2, <1>3, <1>4 DEF ReadIt, CopiedIt

\* FilesInv holds after every step: Load leaves the layers to work on there,
\* Find the entry found, OpenFile and Copy what was read.
LEMMA FilesStep ==
  ASSUME IInv, input \in Inputs, FilesInv, [Next]_vars
  PROVE  FilesInv'
<1>1. input' = input /\ CommandInv
  BY InputStays DEF IInv
<1>2. CASE pc' \in {"find", "read"}
  <2>1. CASE pc' = pc /\ UNCHANGED <<commandVars, data>>
    <3>1. UNCHANGED <<pc, input, image, loaded, out>>
      BY <2>1 DEF commandVars, context, printing
    <3>2. input.layer <= Len(image.layers)
      BY <1>2, <2>1 DEF FilesInv
    <3>3. pc = "read" => FoundIt'
      BY <3>1, FoundStays DEF FilesInv
    <3>4. QED
      BY <1>2, <3>1, <3>2, <3>3 DEF FilesInv, Ran
  <2>2. CASE pc' = "find" /\ Load
    <3>1. input'.layer <= Len(image'.layers)
      BY <2>2 DEF Load
    <3>2. QED
      BY <2>2, <3>1 DEF FilesInv, Ran
  <2>3. CASE pc' = "read" /\ Find
    <3>1. pc = "find" /\ UNCHANGED <<input, image, loaded>>
      BY <2>3 DEF Find
    <3>2. input'.layer <= Len(image'.layers)
      BY <3>1 DEF FilesInv
    <3>3. PICK answer \in Answers(Entries(loaded[1].entries), input.path) :
            /\ Led(loaded[1].entries, answer)
            /\ out' = {EntryAt(loaded[1].entries, answer.path)}
      BY <2>3 DEF Find, Led
    <3>4. FoundIt'
      BY <3>1, <3>3 DEF FoundIt, Led
    <3>5. QED
      BY <2>3, <3>2, <3>4 DEF FilesInv, Ran
  <2>4. QED
    BY <1>1, <1>2, <2>1, <2>2, <2>3, ReadPlaces
<1>3. CASE pc' = "done" /\ input.name \in {"cat", "cp"}
  <2>1. input.name \in DOMAIN Works
    BY <1>3 DEF Works
  <2>2. CASE pc = "done" /\ UNCHANGED <<commandVars, data>>
    <3>1. UNCHANGED <<pc, input, image, loaded, out, data>>
      BY <2>2 DEF commandVars, context, printing
    <3>2. input.layer <= Len(image.layers) /\ FoundIt
      BY <1>3, <2>2 DEF FilesInv, Ran
    <3>3. FoundIt'
      BY <3>1, <3>2, FoundStays
    <3>4. (input.name = "cat" => ReadIt) /\ (input.name = "cp" => CopiedIt)
      BY <2>2 DEF FilesInv, Ran
    <3>5. (input.name = "cat" => ReadIt') /\ (input.name = "cp" => CopiedIt')
      BY <3>1, <3>4, DataStays
    <3>6. QED
      BY <3>1, <3>2, <3>3, <3>5 DEF FilesInv, Ran
  <2>3. CASE input.name = "cat" /\ OpenFile
    <3>1. pc = "read" /\ UNCHANGED <<input, image, loaded, out>>
      BY <2>3 DEF OpenFile, context, printing
    <3>2. input.layer <= Len(image.layers) /\ FoundIt
      BY <3>1 DEF FilesInv
    <3>3. FoundIt'
      BY <3>1, <3>2, FoundStays
    <3>4. PICK c \in Bytes(target) :
            data' = [path |-> target.path, content |-> c, whole |-> ~input.broken]
      BY <2>3 DEF OpenFile
    <3>5. target' = target /\ (Bytes(target))' = Bytes(target)
      BY <3>1 DEF target, Bytes, Chosen
    <3>6. ReadIt'
      BY <3>4, <3>5 DEF ReadIt
    <3>7. QED
      BY <1>3, <2>3, <3>1, <3>2, <3>3, <3>6 DEF FilesInv, Ran
  <2>4. CASE input.name = "cp" /\ Copy
    <3>1. pc = "read" /\ UNCHANGED <<input, image, loaded, out>>
      BY <2>4 DEF Copy, context, printing
    <3>2. input.layer <= Len(image.layers) /\ FoundIt
      BY <3>1 DEF FilesInv
    <3>3. FoundIt'
      BY <3>1, <3>2, FoundStays
    <3>4. data'.contents = UNION {{[path |-> e.path, content |-> c] : c \in Bytes(e)} :
                                    e \in {f \in Copied : IsRegular(f)}}
      BY <2>4 DEF Copy
    <3>5. target' = target /\ Chosen' = Chosen
      BY <3>1 DEF target, Chosen
    <3>6. Copied' = Copied /\ \A e : (Bytes(e))' = Bytes(e)
      BY <3>1, <3>5 DEF Copied, Bytes
    <3>7. CopiedIt'
      BY <3>4, <3>6 DEF CopiedIt
    <3>8. QED
      BY <1>3, <2>4, <3>1, <3>2, <3>3, <3>7 DEF FilesInv, Ran
  <2>5. QED
    BY <1>1, <1>3, <2>1, <2>2, <2>3, <2>4, DonePlaces
<1>4. QED
  BY <1>1, <1>2, <1>3 DEF FilesInv, Ran

\* The layers chosen are archives, one of them if a layer is asked for.
LEMMA ChosenLayers ==
  ASSUME IInv, input \in Inputs, input.layer <= Len(image.layers)
  PROVE  Chosen \in Seq(Archives)
<1> DEFINE layers == image.layers
           n == input.layer
<1>1. layers \in Seq(Archives)
  BY DEF IInv, LoadInv, Archives
<1>2. n \in Int /\ n <= Len(layers)
  BY InputFacts
<1>3. Chosen = IF n > 0 THEN SubSeq(layers, n, n) ELSE layers
  BY DEF Chosen
<1> HIDE DEF layers, n
<1>4. CASE n > 0
  <2>1. \A k \in n..n : layers[k] \in Archives
    BY <1>1, <1>2, <1>4
  <2>2. SubSeq(layers, n, n) \in Seq(Archives)
    BY <1>2, <2>1, SubSeqProperties
  <2>3. QED
    BY <1>3, <1>4, <2>2
<1>5. QED
  BY <1>1, <1>2, <1>3, <1>4

\* What is copied of a directory or a file, with the content each file has.
LEMMA ContentsAre ==
  ASSUME NEW S, \A e \in S : Bytes(e) = {e.content}
  PROVE  UNION {{[path |-> e.path, content |-> c] : c \in Bytes(e)} : e \in S}
           = {[path |-> e.path, content |-> e.content] : e \in S}
<1> DEFINE Pair(e, c) == [path |-> e.path, content |-> c]
           Given(e) == {Pair(e, c) : c \in Bytes(e)}
<1>1. \A e \in S : Given(e) = {Pair(e, e.content)}
  OBVIOUS
<1> HIDE DEF Given, Pair
<1>2. UNION {Given(e) : e \in S} = {Pair(e, e.content) : e \in S}
  BY <1>1
<1>3. QED
  BY <1>2 DEF Given, Pair

\* cat prints, and cp copies, what the merged filesystem has where the kernel's
\* walk ends, with the contents Build recorded, although both are read a second
\* time from archives found by an index and a name (Find, OpenFile and Copy, for
\* RunCat of command/cat.go, RunCp of command/cp.go and Open and Extract of
\* overlay/fs.go).
THEOREM FilesAreTheChosenLayers == Spec => []ReadsTheChosenLayers
<1>1. Init => FilesInv
  BY DEF Init, FilesInv, Ran
<1>2. IInv /\ input \in Inputs /\ FilesInv => ReadsTheChosenLayers
  <2> SUFFICES ASSUME IInv, input \in Inputs, FilesInv,
                      pc = "done", input.name \in {"cat", "cp"},
                      \A k \in DOMAIN Chosen : OrdinaryArchive(Chosen[k]),
                      PlainInput(Entries(loaded[1].entries), input.path)
               PROVE  LET e == KernelsEntry
                          below == IF IsDir(e)
                                   THEN {f \in loaded[1].entries : IsPrefix(e.path, f.path)}
                                   ELSE {e}
                      IN  IF input.name = "cat"
                          THEN data.path = e.path /\ data.content = e.content
                          ELSE data.contents = {[path |-> f.path, content |-> f.content] :
                                                  f \in {g \in below : IsRegular(g)}}
    BY DEF ReadsTheChosenLayers
  <2> DEFINE fs == loaded[1].entries
             e == KernelsEntry
             below == IF IsDir(e) THEN {f \in fs : IsPrefix(e.path, f.path)} ELSE {e}
  <2>1. input.layer <= Len(image.layers) /\ FoundIt
    BY DEF FilesInv, Ran
  <2>2. Chosen \in Seq(Archives)
    BY <2>1, ChosenLayers
  <2>3. fs = EntriesOf(Chosen)
    <3>1. input.name # "diff" /\ input.name \in DOMAIN Works
      BY DEF Works
    <3>2. Len(loaded) = Len(input.refs) /\ IsSequence(loaded) /\ Len(input.refs) = 1
      BY <3>1, InputFacts DEF IInv, LoadInv
    <3>3. 1 \in DOMAIN loaded
      BY <3>2, SequenceFacts
    <3>4. QED
      BY <3>1, <3>3 DEF IInv, LoadInv
  <2>4. PICK answer \in Answers(Entries(fs), input.path) :
          Led(fs, answer) /\ out = {EntryAt(fs, answer.path)}
    BY <2>1 DEF FoundIt
  <2>5. input.path \in Raw
    BY InputsAssumption DEF Raw, Word
  <2>6. /\ answer = Kernel(Entries(fs), input.path)
        /\ IsRegular(EntryAt(fs, answer.path)) => EntryAt(fs, answer.path) \in fs
    BY <2>2, <2>3, <2>4, <2>5, LedToKernels
  <2>7. e = EntryAt(fs, answer.path) /\ (IsRegular(e) => e \in fs)
    BY <2>6 DEF KernelsEntry
  <2>8. IsRegular(e) \/ (IsDir(e) /\ input.name = "cp")
    BY <2>4, <2>7 DEF Led
  <2>9. target = e
    BY <2>4, <2>7 DEF target
  <2>10. \A f \in fs : IsRegular(f) => Bytes(f) = {f.content}
    BY <2>2, <2>3, ReadsItsContent DEF Bytes
  <2> HIDE DEF e
  <2>11. CASE input.name = "cat"
    <3>1. Bytes(e) = {e.content}
      BY <2>7, <2>8, <2>10, <2>11
    <3>2. \E c \in Bytes(e) : data.path = e.path /\ data.content = c
      BY <2>9, <2>11 DEF FilesInv, Ran, ReadIt
    <3>3. data.path = e.path /\ data.content = e.content
      BY <3>1, <3>2
    <3>4. QED
      BY <2>11, <3>3 DEF e
  <2>12. CASE input.name = "cp"
    <3>1. Copied = below
      BY <2>9 DEF Copied, Under
    <3> DEFINE S == {f \in Copied : IsRegular(f)}
    <3>2. \A f \in S : f \in fs
      BY <2>7, <3>1
    <3>3. \A f \in S : Bytes(f) = {f.content}
      BY <2>10, <3>2
    <3>4. data.contents = UNION {{[path |-> f.path, content |-> c] : c \in Bytes(f)} : f \in S}
      BY <2>12 DEF FilesInv, Ran, CopiedIt
    <3> HIDE DEF S
    <3>5. data.contents = {[path |-> f.path, content |-> f.content] : f \in S}
      BY <3>3, <3>4, ContentsAre
    <3>6. QED
      BY <2>12, <3>1, <3>5 DEF S, e
  <2>13. QED
    BY <2>11, <2>12
<1>3. Spec => [](IInv /\ input \in Inputs)
  BY ProgramKeeps
<1>4. (IInv /\ input \in Inputs) /\ FilesInv /\ [Next]_vars => FilesInv'
  BY FilesStep
<1>5. QED
  BY <1>1, <1>2, <1>3, <1>4, PTL DEF Spec

-----------------------------------------------------------------------------
\* tree: paths above and below one another.

\* A path is at or below itself, and what is at or below it is not shorter.
LEMMA PrefixLength ==
  ASSUME NEW a \in Raw, NEW b \in Raw
  PROVE  /\ IsPrefix(a, a)
         /\ IsPrefix(a, b) => Len(a) <= Len(b) /\ a = SubSeq(b, 1, Len(a))
         /\ IsPrefix(a, b) /\ Len(a) = Len(b) => a = b
<1>1. Len(a) \in Nat /\ Len(b) \in Nat /\ SubSeq(a, 1, Len(a)) = a /\ SubSeq(b, 1, Len(b)) = b
  BY SubSeqFull DEF Raw
<1>2. IsPrefix(a, b) => Len(a) <= Len(b) /\ a = SubSeq(b, 1, Len(a))
  <2>1. IsPrefix(a, b) => Len(a) <= Len(b) /\ SubSeq(a, 1, Len(a)) = SubSeq(b, 1, Len(a))
    BY Zenon DEF IsPrefix
  <2>2. QED
    BY <1>1, <2>1, Zenon
<1>3. IsPrefix(a, a)
  BY <1>1 DEF IsPrefix
<1>4. QED
  BY <1>1, <1>2, <1>3, Zenon

\* The first names of a path are a path above it.
LEMMA UpTo ==
  ASSUME NEW p \in Raw, NEW k \in 0..Len(p)
  PROVE  /\ SubSeq(p, 1, k) \in Raw /\ Len(SubSeq(p, 1, k)) = k
         /\ IsPrefix(SubSeq(p, 1, k), p)
         /\ k = Len(p) => SubSeq(p, 1, k) = p
         /\ k > 0 => Dir(SubSeq(p, 1, k)) = SubSeq(p, 1, k - 1)
         /\ \A j \in 0..k : SubSeq(SubSeq(p, 1, k), 1, j) = SubSeq(p, 1, j)
<1>1. Len(p) \in Nat /\ k \in Nat /\ k <= Len(p) /\ \A i \in 1..k : p[i] \in Word
  BY DEF Raw
<1> DEFINE q == SubSeq(p, 1, k)
<1>2. q \in Raw /\ Len(q) = k /\ \A i \in 1..k : q[i] = p[i]
  <2>1. /\ q \in Seq(Word) /\ Len(q) = IF 1 <= k THEN k - 1 + 1 ELSE 0
        /\ \A i \in 1..(k - 1 + 1) : q[i] = p[1 + i - 1]
    BY <1>1, SubSeqProperties
  <2>2. QED
    BY <1>1, <2>1 DEF Raw
<1>3. ASSUME NEW j \in 0..k PROVE SubSeq(q, 1, j) = SubSeq(p, 1, j)
  <2> DEFINE s == SubSeq(q, 1, j)
             t == SubSeq(p, 1, j)
  <2>1. j \in Nat /\ j <= k /\ \A i \in 1..j : q[i] \in Word /\ p[i] \in Word /\ q[i] = p[i]
    BY <1>1, <1>2
  <2>2. /\ s \in Seq(Word) /\ Len(s) = IF 1 <= j THEN j - 1 + 1 ELSE 0
        /\ \A i \in 1..(j - 1 + 1) : s[i] = q[1 + i - 1]
    BY <2>1, SubSeqProperties
  <2>3. /\ t \in Seq(Word) /\ Len(t) = IF 1 <= j THEN j - 1 + 1 ELSE 0
        /\ \A i \in 1..(j - 1 + 1) : t[i] = p[1 + i - 1]
    BY <2>1, SubSeqProperties
  <2> HIDE DEF s, t, q
  <2>4. Len(s) = j /\ Len(t) = j /\ \A i \in 1..j : s[i] = t[i]
    BY <2>1, <2>2, <2>3
  <2>5. s = t
    BY <2>2, <2>3, <2>4, SeqEqual
  <2>6. QED
    BY <2>5 DEF s, t
<1>4. k = Len(p) => q = p
  BY <1>1, SubSeqFull DEF Raw
<1>5. k > 0 => Dir(q) = SubSeq(p, 1, k - 1)
  <2>1. k > 0 => k - 1 \in 0..k
    BY <1>1
  <2>2. Dir(q) = SubSeq(q, 1, k - 1)
    BY <1>2 DEF Dir
  <2> HIDE DEF q
  <2>3. k > 0 => SubSeq(q, 1, k - 1) = SubSeq(p, 1, k - 1)
    BY <1>3, <2>1
  <2>4. QED
    BY <2>2, <2>3
<1>6. IsPrefix(q, p)
  <2>1. SubSeq(q, 1, k) = q
    BY <1>2, SubSeqFull DEF Raw
  <2> HIDE DEF q
  <2>2. SubSeq(p, 1, k) = q
    BY DEF q
  <2>3. QED
    BY <1>1, <1>2, <2>1, <2>2 DEF IsPrefix
<1>7. QED
  BY <1>2, <1>3, <1>4, <1>5, <1>6

\* The directory of a path is the path above it, and all others are above that.
LEMMA DirAbove ==
  ASSUME NEW b \in Raw, b # Root
  PROVE  /\ Len(b) \in Nat \ {0}
         /\ Dir(b) \in Raw /\ Len(Dir(b)) = Len(b) - 1 /\ IsPrefix(Dir(b), b)
         /\ Append(Dir(b), Base(b)) = b
         /\ \A a \in Raw : IsPrefix(a, b) /\ a # b => IsPrefix(a, Dir(b))
<1>1. Len(b) \in Nat \ {0}
  BY RawFacts DEF Root, Raw
<1> DEFINE n == Len(b)
           d == SubSeq(b, 1, n - 1)
<1>2. Dir(b) = d
  BY DEF Dir
<1>3. n - 1 \in 0..n
  BY <1>1
<1>4. d \in Raw /\ Len(d) = n - 1 /\ IsPrefix(d, b)
  BY <1>3, UpTo
<1>5. Append(d, b[n]) = b
  <2>1. \A i \in 1..(n - 1) : d[i] = b[i]
    <3>1. d = SubSeq(b, 1, Len(d))
      BY <1>4, PrefixLength
    <3>2. \A i \in 1..(n - 1) : b[i] \in Word
      BY DEF Raw
    <3>3. \A i \in 1..((n - 1) - 1 + 1) : d[i] = b[1 + i - 1]
      BY <1>3, <3>2, SubSeqProperties
    <3> HIDE DEF d
    <3>4. QED
      BY <1>1, <3>3
  <2>2. b[n] \in Word
    BY <1>1 DEF Raw
  <2> HIDE DEF d
  <2> DEFINE c == Append(d, b[n])
  <2>3. /\ c \in Seq(Word) /\ Len(c) = n - 1 + 1
        /\ \A i \in 1..(n - 1) : c[i] = d[i]
        /\ c[n] = b[n]
    BY <1>1, <1>4, <2>2 DEF Raw
  <2> HIDE DEF c
  <2>4. Len(c) = Len(b) /\ \A i \in 1..Len(c) : c[i] = b[i]
    BY <1>1, <2>1, <2>3
  <2>5. c = b
    BY <2>3, <2>4, SeqEqual DEF Raw
  <2>6. QED
    BY <2>5 DEF c
<1>6. ASSUME NEW a \in Raw, IsPrefix(a, b), a # b PROVE IsPrefix(a, d)
  <2>1. Len(a) <= Len(b) /\ a = SubSeq(b, 1, Len(a)) /\ Len(a) # Len(b)
    BY <1>6, PrefixLength
  <2>2. Len(a) \in 0..(n - 1)
    BY <1>1, <2>1 DEF Raw
  <2>3. SubSeq(d, 1, Len(a)) = SubSeq(b, 1, Len(a))
    BY <1>3, <2>2, UpTo
  <2>4. IsPrefix(SubSeq(d, 1, Len(a)), d)
    BY <1>4, <2>2, UpTo
  <2>5. QED
    BY <2>1, <2>3, <2>4
<1>7. QED
  BY <1>1, <1>2, <1>4, <1>5, <1>6 DEF Base

\* A set of entries that are told apart by their paths.
OnePerPath(E) == \A e, f \in E : e.path = f.path => e = f

\* What the merge makes of an image has finitely many entries: each is made from
\* a header of its own.
LEMMA EntriesAreFinite ==
  ASSUME NEW layers \in Seq(Archives)
  PROVE  IsFiniteSet(EntriesOf(layers))
<1> DEFINE E == EntriesOf(layers)
           n == Len(layers)
           Row(i) == {i} \X (1..Len(layers[i]))
           S == UNION {Row(i) : i \in 1..n}
           f == [e \in E |-> CHOOSE x \in S : MadeFrom(layers, e, x[1], x[2])]
<1>1. n \in Nat /\ \A i \in 1..n : layers[i] \in Archives
  OBVIOUS
<1>2. IsFiniteSet(S)
  <2>1. \A i \in 1..n : IsFiniteSet(Row(i))
    <3> SUFFICES ASSUME NEW i \in 1..n PROVE IsFiniteSet(Row(i))
      OBVIOUS
    <3>1. Len(layers[i]) \in Nat
      BY <1>1 DEF Archives
    <3> DEFINE m == Len(layers[i])
    <3>2. IsFiniteSet({i})
      BY FS_Singleton
    <3> HIDE DEF m
    <3>3. m \in Int /\ 1 \in Int
      BY <3>1 DEF m
    <3>4. IsFiniteSet(1..m)
      BY <3>3, FS_Interval
    <3>5. IsFiniteSet({i} \X (1..m))
      BY <3>2, <3>4, FS_Product
    <3>6. QED
      BY <3>5 DEF m
  <2>2. IsFiniteSet({Row(i) : i \in 1..n})
    <3>1. IsFiniteSet(1..n)
      BY <1>1, FS_Interval
    <3> HIDE DEF Row, n
    <3> DEFINE Rows == {Row(i) : i \in 1..n}
               g == [i \in 1..n |-> Row(i)]
    <3>2. g \in Surjection(1..n, Rows)
      BY DEF Surjection
    <3> HIDE DEF g, Rows
    <3>3. IsFiniteSet(Rows)
      BY <3>1, <3>2, FS_Surjection
    <3>4. QED
      BY <3>3 DEF Rows
  <2> HIDE DEF Row, n
  <2>3. \A T \in {Row(i) : i \in 1..n} : IsFiniteSet(T)
    BY <2>1
  <2>4. QED
    BY <2>2, <2>3, FS_UNION
<1>3. \A e \in E : f[e] \in S /\ MadeFrom(layers, e, f[e][1], f[e][2])
  <2> SUFFICES ASSUME NEW e \in E PROVE \E x \in S : MadeFrom(layers, e, x[1], x[2])
    BY Zenon
  <2>1. PICK i, k : MadeFrom(layers, e, i, k)
    BY EntriesAreMade
  <2>2. i \in 1..n /\ k \in 1..Len(layers[i])
    BY <1>1, <2>1, PositionsFinite DEF MadeFrom
  <2>3. <<i, k>> \in S
    BY <2>2
  <2>4. QED
    BY <2>1, <2>3
<1> HIDE DEF E, S
<1>f. f = [e \in E |-> f[e]]
  OBVIOUS
<1> HIDE DEF f
<1>4. f \in [E -> S]
  BY <1>3, <1>f
<1>5. ASSUME NEW a \in E, NEW b \in E, f[a] = f[b] PROVE a = b
  <2> DEFINE i == f[a][1]
             k == f[a][2]
  <2>1. MadeFrom(layers, a, i, k) /\ MadeFrom(layers, b, i, k)
    BY <1>3, <1>5
  <2>2. a.path = Clean(layers[i][k].name) /\ b.path = Clean(layers[i][k].name)
    BY <2>1 DEF MadeFrom, Positions
  <2>3. QED
    BY <2>2, EntriesAreMerged DEF WellMerged, E
<1>6. f \in Injection(E, S)
  BY <1>4, <1>5 DEF Injection, IsInjective
<1>7. IsFiniteSet(E)
  BY <1>2, <1>6, FS_Injection
<1>8. QED
  BY <1>7 DEF E

-----------------------------------------------------------------------------
\* tree: the entries of a directory in their order.

\* The entries of one directory are told apart by the last names of their paths.
LEMMA NamesDiffer ==
  ASSUME NEW e, e.path \in Path \ {Root}, e.path \in Raw,
         NEW f, f.path \in Path \ {Root}, f.path \in Raw,
         Dir(e.path) = Dir(f.path), e.path # f.path
  PROVE  /\ Rank[Base(e.path)] \in Int /\ Rank[Base(f.path)] \in Int
         /\ Rank[Base(e.path)] # Rank[Base(f.path)]
<1>1. Append(Dir(e.path), Base(e.path)) = e.path /\ Append(Dir(f.path), Base(f.path)) = f.path
  BY DirAbove
<1>2. Base(e.path) # Base(f.path)
  BY <1>1
<1>3. QED
  BY <1>2, RankAssumption

\* A set of entries of one directory.
Siblings(E) ==
  /\ IsFiniteSet(E) /\ OnePerPath(E)
  /\ \A e \in E : e.path \in Path \ {Root} /\ e.path \in Raw
  /\ \A e, f \in E : Dir(e.path) = Dir(f.path)

\* They are in a strict total order.
LEMMA BeforeOrders ==
  ASSUME NEW E, Siblings(E)
  PROVE  /\ \A e \in E : ~Before(e, e)
         /\ \A e, f, g \in E : Before(e, f) /\ Before(f, g) => Before(e, g)
         /\ \A e, f \in E : e = f \/ Before(e, f) \/ Before(f, e)
<1> DEFINE r(e) == Rank[Base(e.path)]
<1>1. \A e \in E : r(e) \in Int
  BY RankAssumption DEF Siblings
<1>2. \A e, f \in E : e # f => r(e) # r(f)
  BY NamesDiffer DEF Siblings, OnePerPath
<1>3. \A e, f \in E : Before(e, f) <=> IF input.dirsFirst /\ IsDir(e) # IsDir(f) THEN IsDir(e)
                                       ELSE r(e) < r(f)
  BY DEF Before
<1>4. \A e : IsDir(e) \in BOOLEAN
  BY DEF IsDir
<1> HIDE DEF r
<1>5. \A e \in E : ~Before(e, e)
  BY <1>1, <1>3
<1>6. ASSUME NEW e \in E, NEW f \in E, NEW g \in E, Before(e, f), Before(f, g) PROVE Before(e, g)
  <2>1. r(e) \in Int /\ r(f) \in Int /\ r(g) \in Int
    BY <1>1
  <2>2. /\ IF input.dirsFirst /\ IsDir(e) # IsDir(f) THEN IsDir(e) ELSE r(e) < r(f)
        /\ IF input.dirsFirst /\ IsDir(f) # IsDir(g) THEN IsDir(f) ELSE r(f) < r(g)
    BY <1>3, <1>6
  <2>3. IF input.dirsFirst /\ IsDir(e) # IsDir(g) THEN IsDir(e) ELSE r(e) < r(g)
    BY <1>4, <2>1, <2>2
  <2>4. QED
    BY <1>3, <2>3
<1>7. ASSUME NEW e \in E, NEW f \in E, e # f PROVE Before(e, f) \/ Before(f, e)
  <2>1. r(e) \in Int /\ r(f) \in Int /\ r(e) # r(f)
    BY <1>1, <1>2, <1>7
  <2>2. \/ IF input.dirsFirst /\ IsDir(e) # IsDir(f) THEN IsDir(e) ELSE r(e) < r(f)
        \/ IF input.dirsFirst /\ IsDir(f) # IsDir(e) THEN IsDir(f) ELSE r(f) < r(e)
    BY <1>4, <2>1
  <2>3. QED
    BY <1>3, <2>2
<1>8. QED
  BY <1>5, <1>6, <1>7

\* Sorted has each of them once.
LEMMA SortedIsList ==
  ASSUME NEW E, Siblings(E)
  PROVE  LET s == Sorted(E)
             n == Cardinality(E)
         IN  /\ n \in Nat /\ DOMAIN s = 1..n /\ s = [k \in 1..n |-> s[k]]
             /\ \A k \in 1..n : s[k] \in E
             /\ \A e \in E : \E k \in 1..n : s[k] = e
             /\ \A j, k \in 1..n : s[j] = s[k] => j = k
<1> DEFINE s == Sorted(E)
           n == Cardinality(E)
           Less(e) == {f \in E : Before(f, e)}
           place == [e \in E |-> Cardinality(Less(e))]
<1>1. n \in Nat /\ IsFiniteSet(E)
  BY FS_CardinalityType DEF Siblings
<1>2. \A e \in E : /\ IsFiniteSet(Less(e)) /\ Cardinality(Less(e)) \in Nat
                   /\ Cardinality(Less(e)) < n
  <2> SUFFICES ASSUME NEW e \in E
               PROVE  /\ IsFiniteSet(Less(e)) /\ Cardinality(Less(e)) \in Nat
                      /\ Cardinality(Less(e)) < n
    OBVIOUS
  <2>1. Less(e) \in SUBSET E /\ e \notin Less(e)
    BY BeforeOrders
  <2> HIDE DEF Less
  <2>2. /\ IsFiniteSet(Less(e)) /\ Cardinality(Less(e)) <= Cardinality(E)
        /\ Cardinality(E) = Cardinality(Less(e)) => E = Less(e)
    BY <1>1, <2>1, FS_Subset
  <2>3. Cardinality(Less(e)) \in Nat
    BY <2>2, FS_CardinalityType
  <2>4. Cardinality(E) # Cardinality(Less(e))
    BY <2>1, <2>2
  <2>5. QED
    BY <1>1, <2>2, <2>3, <2>4
<1>3. ASSUME NEW e \in E, NEW f \in E, Before(e, f)
      PROVE  Cardinality(Less(e)) < Cardinality(Less(f))
  <2>1. Less(e) \in SUBSET Less(f) /\ e \in Less(f) /\ e \notin Less(e)
    BY <1>3, BeforeOrders
  <2> HIDE DEF Less
  <2>2. /\ Cardinality(Less(e)) <= Cardinality(Less(f))
        /\ Cardinality(Less(f)) = Cardinality(Less(e)) => Less(f) = Less(e)
    BY <1>2, <2>1, FS_Subset
  <2>3. Cardinality(Less(e)) \in Nat /\ Cardinality(Less(f)) \in Nat
    BY <1>2
  <2>4. QED
    BY <2>1, <2>2, <2>3
<1> HIDE DEF Less
<1>4. \A e \in E : place[e] = Cardinality(Less(e))
  OBVIOUS
<1>5. place \in [E -> 0..(n - 1)]
  BY <1>1, <1>2
<1> HIDE DEF place
<1>6. ASSUME NEW e \in E, NEW f \in E, place[e] = place[f] PROVE e = f
  <2>1. ~Before(e, f) /\ ~Before(f, e)
    BY <1>2, <1>3, <1>4, <1>6
  <2>2. QED
    BY <2>1, BeforeOrders
<1>7. place \in Surjection(E, 0..(n - 1))
  <2>1. IsFiniteSet(0..(n - 1)) /\ Cardinality(0..(n - 1)) = n
    BY <1>1, FS_Interval
  <2>2. place \in Injection(E, 0..(n - 1))
    BY <1>5, <1>6 DEF Injection, IsInjective
  <2>3. QED
    BY <2>1, <2>2, FS_Injection
<1>8. s = [k \in 1..n |-> CHOOSE e \in E : Cardinality(Less(e)) = k - 1]
  BY DEF Sorted, Less
<1>9. ASSUME NEW k \in 1..n PROVE s[k] \in E /\ place[s[k]] = k - 1
  <2>1. k - 1 \in 0..(n - 1)
    BY <1>1
  <2>2. \E e \in E : Cardinality(Less(e)) = k - 1
    BY <1>4, <1>7, <2>1 DEF Surjection
  <2>3. s[k] \in E /\ Cardinality(Less(s[k])) = k - 1
    <3>1. s[k] = CHOOSE e \in E : Cardinality(Less(e)) = k - 1
      BY <1>8
    <3> HIDE DEF s
    <3>2. QED
      BY <2>2, <3>1
  <2>4. QED
    BY <1>4, <2>3
<1>10. DOMAIN s = 1..n /\ s = [k \in 1..n |-> s[k]]
  BY <1>8
<1> HIDE DEF s, n
<1>11. ASSUME NEW e \in E PROVE \E k \in 1..n : s[k] = e
  <2>1. place[e] \in 0..(n - 1)
    BY <1>5
  <2>2. place[e] + 1 \in 1..n /\ (place[e] + 1) - 1 = place[e]
    BY <1>1, <2>1
  <2>3. s[place[e] + 1] \in E /\ place[s[place[e] + 1]] = place[e]
    BY <1>9, <2>2
  <2>4. s[place[e] + 1] = e
    BY <1>6, <2>3
  <2>5. QED
    BY <2>2, <2>4
<1>12. ASSUME NEW j \in 1..n, NEW k \in 1..n, s[j] = s[k] PROVE j = k
  <2>1. j - 1 = k - 1
    BY <1>9, <1>12
  <2>2. QED
    BY <1>1, <2>1
<1>13. QED
  BY <1>1, <1>9, <1>10, <1>11, <1>12 DEF s, n

\* An image's entries as tree takes them.
TreeEntries(E) ==
  /\ IsFiniteSet(E) /\ OnePerPath(E)
  /\ \A e \in E : e.path \in Path \ {Root}

\* Those whose place in the tree is seen.
Seen(E) == {e \in E : InTree(E, e)}

\* The path asked for is a path.
LEMMA RootIsRaw ==
  ASSUME input \in Inputs
  PROVE  RootPath \in Raw /\ Len(RootPath) \in Nat
<1> DEFINE name == input.path
           full == {k \in DOMAIN name : name[k] # ""}
<1>1. name \in Raw
  BY InputsAssumption DEF Raw, Word
<1>2. RootPath = IF full = {} THEN Root ELSE SubSeq(name, Min(full), Max(full))
  BY DEF RootPath, TrimSlashes
<1> DEFINE n == Len(name)
<1>3. n \in Nat /\ DOMAIN name = 1..n /\ \A k \in 1..n : name[k] \in Word
  BY <1>1 DEF Raw
<1>4. full \in SUBSET (1..n)
  BY <1>3
<1> HIDE DEF full, n
<1>5. CASE full = {}
  BY <1>2, <1>5, RawFacts DEF Root, Raw
<1>6. CASE full # {}
  <2>1. Max(full) \in 1..n
    BY <1>3, <1>4, <1>6, MaxOfSome
  <2>2. full \in SUBSET Nat
    BY <1>4
  <2>3. \E x \in full : \A y \in full : x <= y
    BY <1>6, <2>2, SmallestNat
  <2>4. Min(full) \in 1..n
    BY <1>4, <2>3 DEF Min
  <2> DEFINE i == Min(full)
             j == Max(full)
  <2> HIDE DEF i, j
  <2>5. i \in Int /\ j \in Int /\ \A k \in i..j : name[k] \in Word
    BY <1>3, <2>1, <2>4 DEF i, j
  <2>6. SubSeq(name, i, j) \in Seq(Word)
    BY <2>5, SubSeqProperties
  <2>7. QED
    BY <1>2, <1>6, <2>6 DEF i, j, Raw
<1>7. QED
  BY <1>5, <1>6

\* The paths of an image are raw names too.
LEMMA PathsAreRaw == Path \subseteq Raw
<1>1. \A n \in RawNames \cup {<< >>} : n \in Seq(Word)
  BY ImagesAssumption, EmptySeq DEF Word
<1>2. \A n \in RawNames \cup {<< >>} : Clean(n) \in Seq(Word)
  BY <1>1, CleanType, NamesAreWords
<1>3. QED
  BY <1>2 DEF Path, Raw

\* What an entry has to do with its directory.
LEMMA EntryFacts ==
  ASSUME NEW E, TreeEntries(E), NEW e \in E
  PROVE  /\ e.path \in Raw /\ e.path # Root /\ Len(e.path) \in Nat \ {0}
         /\ Dir(e.path) \in Raw /\ Len(Dir(e.path)) = Len(e.path) - 1
         /\ IsPrefix(Dir(e.path), e.path)
<1>1. e.path \in Raw /\ e.path # Root
  BY PathsAreRaw DEF TreeEntries
<1>2. QED
  BY <1>1, DirAbove

\* A path above a path above another is above it.
LEMMA PrefixGoesOn ==
  ASSUME NEW a \in Raw, NEW b \in Raw, NEW c \in Raw, IsPrefix(a, b), IsPrefix(b, c)
  PROVE  IsPrefix(a, c)
<1>1. Len(a) <= Len(b) /\ a = SubSeq(b, 1, Len(a)) /\ Len(b) <= Len(c) /\ b = SubSeq(c, 1, Len(b))
  BY PrefixLength
<1>2. Len(a) \in Nat /\ Len(b) \in Nat /\ Len(c) \in Nat
  BY DEF Raw
<1> DEFINE k == Len(a)
           l == Len(b)
<1>3. k \in 0..l /\ l \in 0..Len(c) /\ k \in 0..Len(c)
  BY <1>1, <1>2
<1>4. SubSeq(SubSeq(c, 1, l), 1, k) = SubSeq(c, 1, k)
  BY <1>3, UpTo
<1>5. IsPrefix(SubSeq(c, 1, k), c)
  BY <1>3, UpTo
<1>6. SubSeq(c, 1, k) = a
  BY <1>1, <1>4
<1>7. QED
  BY <1>5, <1>6

\* An entry is seen just when it is kept and its directory is the one asked for
\* or is seen.
LEMMA SeenStep ==
  ASSUME input \in Inputs, NEW E, TreeEntries(E), NEW e \in E
  PROVE  e \in Seen(E) <=>
           /\ e \in Kept(E) /\ IsStrictPrefix(RootPath, e.path)
           /\ \/ Dir(e.path) = RootPath
              \/ \E f \in Seen(E) : IsDir(f) /\ f.path = Dir(e.path)
<1> DEFINE R == RootPath
           r == Len(R)
           p == e.path
           n == Len(p)
           d == Dir(p)
           On(f, k, m) == Allowed(f) /\ (k < m => IsDir(f))
<1>1. R \in Raw /\ r \in Nat
  BY RootIsRaw
<1>2. p \in Raw /\ p # Root /\ n \in Nat \ {0} /\ d \in Raw /\ Len(d) = n - 1 /\ IsPrefix(d, p)
  BY EntryFacts
<1>3. \A f \in E : f.path = p => f = e
  BY DEF TreeEntries, OnePerPath
<1>4. \A g \in E : g \in Seen(E) <=>
        /\ IsStrictPrefix(R, g.path)
        /\ input.level > 0 => Len(g.path) - r <= input.level
        /\ \A k \in (r + 1)..Len(g.path) :
             \E f \in E : f.path = SubSeq(g.path, 1, k) /\ On(f, k, Len(g.path))
  BY DEF Seen, InTree
<1>5. IsStrictPrefix(R, p) => r + 1 <= n /\ IsPrefix(R, d)
  <2>1. IsStrictPrefix(R, p) => IsPrefix(R, p) /\ R # p
    BY DEF IsStrictPrefix
  <2>2. IsStrictPrefix(R, p) => r <= n /\ r # n
    BY <1>1, <1>2, <2>1, PrefixLength
  <2>3. IsStrictPrefix(R, p) => IsPrefix(R, d)
    BY <1>1, <1>2, <2>1, DirAbove
  <2>4. QED
    BY <1>1, <1>2, <2>2, <2>3
<1>6. IsStrictPrefix(R, p) =>
        (e \in Kept(E) <=> Allowed(e) /\ (input.level > 0 => n - r <= input.level))
  <2> SUFFICES ASSUME IsStrictPrefix(R, p)
               PROVE  e \in Kept(E) <=> Allowed(e) /\ (input.level > 0 => n - r <= input.level)
    OBVIOUS
  <2>1. IsPrefix(R, p) /\ R # p
    BY DEF IsStrictPrefix
  <2>2. HasRoot(p) /\ Depth(p) = n - r
    <3>1. Depth(p) = n - r + 0
      BY <2>1 DEF Depth
    <3>2. QED
      BY <1>1, <1>2, <2>1, <3>1 DEF HasRoot
  <2>3. e \in Kept(E) <=> /\ HasRoot(p) /\ p # R /\ Allowed(e)
                          /\ input.level > 0 => Depth(p) <= input.level
    BY DEF Kept
  <2>4. QED
    BY <2>1, <2>2, <2>3
<1>7. SubSeq(p, 1, n) = p /\ d = SubSeq(p, 1, n - 1)
  BY <1>2, SubSeqFull DEF Raw, Dir
<1>8. ASSUME e \in Seen(E)
      PROVE  /\ e \in Kept(E) /\ IsStrictPrefix(R, p)
             /\ d = R \/ \E f \in Seen(E) : IsDir(f) /\ f.path = d
  <2>1. IsStrictPrefix(R, p) /\ (input.level > 0 => n - r <= input.level)
    BY <1>4, <1>8
  <2>2. ASSUME NEW k \in (r + 1)..n
        PROVE  \E f \in E : f.path = SubSeq(p, 1, k) /\ On(f, k, n)
    BY <1>4, <1>8
  <2>3. Allowed(e)
    <3>1. n \in (r + 1)..n
      BY <1>1, <1>2, <1>5, <2>1
    <3>2. PICK f \in E : f.path = SubSeq(p, 1, n) /\ On(f, n, n)
      BY <2>2, <3>1
    <3>3. QED
      BY <1>3, <1>7, <3>2
  <2>4. ASSUME d # R PROVE \E f \in Seen(E) : IsDir(f) /\ f.path = d
    <3>1. IsStrictPrefix(R, d) /\ r + 1 <= n - 1
      <4>1. IsPrefix(R, d)
        BY <1>5, <2>1
      <4>2. r <= n - 1 /\ r # n - 1
        BY <1>1, <1>2, <2>4, <4>1, PrefixLength
      <4>3. QED
        BY <1>1, <1>2, <2>4, <4>1, <4>2 DEF IsStrictPrefix
    <3>2. n - 1 \in (r + 1)..n /\ n - 1 < n
      BY <1>1, <1>2, <3>1
    <3>3. PICK f \in E : f.path = SubSeq(p, 1, n - 1) /\ On(f, n - 1, n)
      BY <2>2, <3>2
    <3>4. f.path = d /\ IsDir(f) /\ Len(f.path) = n - 1
      BY <1>2, <1>7, <3>2, <3>3
    <3>5. ASSUME NEW k \in (r + 1)..(n - 1)
          PROVE  \E g \in E : g.path = SubSeq(d, 1, k) /\ On(g, k, n - 1)
      <4>1. k \in (r + 1)..n /\ (k < n - 1 => k < n) /\ k \in 0..(n - 1) /\ n - 1 \in 0..n
        BY <1>1, <1>2
      <4>2. PICK g \in E : g.path = SubSeq(p, 1, k) /\ On(g, k, n)
        BY <2>2, <4>1
      <4>3. SubSeq(d, 1, k) = SubSeq(p, 1, k)
        BY <1>2, <1>7, <4>1, UpTo
      <4>4. QED
        BY <4>1, <4>2, <4>3
    <3>6. input.level > 0 => (n - 1) - r <= input.level
      <4>1. input.level \in Int
        BY InputsAssumption
      <4>2. QED
        BY <1>1, <1>2, <2>1, <4>1
    <3>7. f \in Seen(E)
      BY <1>4, <3>1, <3>4, <3>5, <3>6
    <3>8. QED
      BY <3>4, <3>7
  <2>5. QED
    BY <1>6, <2>1, <2>3, <2>4
<1>9. ASSUME e \in Kept(E), IsStrictPrefix(R, p),
             d = R \/ \E f \in Seen(E) : IsDir(f) /\ f.path = d
      PROVE  e \in Seen(E)
  <2>1. Allowed(e) /\ (input.level > 0 => n - r <= input.level) /\ r + 1 <= n
    BY <1>5, <1>6, <1>9
  <2>2. ASSUME NEW k \in (r + 1)..n
        PROVE  \E f \in E : f.path = SubSeq(p, 1, k) /\ On(f, k, n)
    <3>1. CASE k = n
      BY <1>2, <1>7, <2>1, <3>1
    <3>2. CASE k # n
      <4>1. k \in (r + 1)..(n - 1) /\ k < n /\ k \in 0..(n - 1) /\ n - 1 \in 0..n
        BY <1>1, <1>2, <3>2
      <4>2. d # R
        BY <1>1, <1>2, <4>1
      <4>3. PICK f \in Seen(E) : IsDir(f) /\ f.path = d
        BY <1>9, <4>2
      <4>4. f \in E
        BY <4>3 DEF Seen
      <4>5. PICK g \in E : g.path = SubSeq(d, 1, k) /\ On(g, k, n - 1)
        <5>1. k \in (r + 1)..Len(f.path) /\ Len(f.path) = n - 1
          BY <1>2, <4>1, <4>3
        <5>2. \E g \in E : g.path = SubSeq(f.path, 1, k) /\ On(g, k, Len(f.path))
          BY <1>4, <4>3, <4>4, <5>1
        <5>3. QED
          BY <4>3, <5>1, <5>2
      <4>6. g.path = SubSeq(p, 1, k)
        BY <1>2, <1>7, <4>1, <4>5, UpTo
      <4>7. IsDir(g)
        <5>1. CASE k < n - 1
          BY <4>5, <5>1
        <5>2. CASE k = n - 1
          <6>1. g.path = f.path
            BY <1>7, <4>3, <4>6, <5>2
          <6>2. g = f
            BY <4>4, <4>5, <6>1 DEF TreeEntries, OnePerPath
          <6>3. QED
            BY <4>3, <6>2
        <5>3. QED
          BY <1>1, <1>2, <4>1, <5>1, <5>2
      <4>8. QED
        BY <4>5, <4>6, <4>7
    <3>3. QED
      BY <3>1, <3>2
  <2>3. QED
    BY <1>4, <1>9, <2>1, <2>2
<1>10. QED
  BY <1>8, <1>9

\* An entry as it waits to be printed, in the tree of the directory at R, and
\* the line it will be.
Item(R, e) == [entry |-> e, depth |-> Len(e.path) - Len(R)]
Line(R, e) == [depth |-> Len(e.path) - Len(R), name |-> Base(e.path)]

\* Entries below R, told apart by their paths.
BelowRoot(S, R) ==
  /\ R \in Raw /\ OnePerPath(S)
  /\ \A e \in S : e.path \in Raw /\ e.path # Root /\ IsStrictPrefix(R, e.path)

\* A path is of the first level, or what is printed before position n leaves no
\* doubt that it goes below its directory.
Leads(R, printed, n, p) ==
  \/ Len(p) = Len(R) + 1
  \/ \E m \in 1..n : /\ printed[m].path = Dir(p)
                     /\ \A i \in (m + 1)..n : Len(printed[i].path) # Len(p) - 1

\* What is printed of the entries S, with its lines, and what waits: nothing
\* twice, nothing that is no entry, the deepest first, each below its directory,
\* and with everything in a directory printed.
Printing(S, R, printed, told, waiting) ==
  /\ printed \in Seq(S) /\ \A j, k \in 1..Len(printed) : printed[j] = printed[k] => j = k
  /\ waiting \in Seq({Item(R, e) : e \in S})
  /\ \A j, k \in 1..Len(waiting) : waiting[j] = waiting[k] => j = k
  /\ \A k \in 1..Len(printed), j \in 1..Len(waiting) : printed[k] # waiting[j].entry
  /\ told = [k \in 1..Len(printed) |-> Line(R, printed[k])]
  /\ \A j, k \in 1..Len(waiting) :
       j < k => Len(waiting[k].entry.path) <= Len(waiting[j].entry.path)
  /\ \A k \in 1..Len(printed) : Leads(R, printed, k - 1, printed[k].path)
  /\ \A j \in 1..Len(waiting) : Leads(R, printed, Len(printed), waiting[j].entry.path)
  /\ \A e \in S :
       (Dir(e.path) = R \/ \E k \in 1..Len(printed) : IsDir(printed[k]) /\ printed[k].path = Dir(e.path)) =>
         \/ \E k \in 1..Len(printed) : printed[k] = e
         \/ \E j \in 1..Len(waiting) : waiting[j].entry = e

\* A list of the entries of S in directory d, each once.
ListsDir(S, R, d, list) ==
  /\ list \in Seq({Item(R, e) : e \in {f \in S : Dir(f.path) = d}})
  /\ \A j, k \in 1..Len(list) : list[j] = list[k] => j = k
  /\ \A e \in S : Dir(e.path) = d => \E k \in 1..Len(list) : list[k].entry = e

\* Lengths of the paths below R.
LEMMA BelowLengths ==
  ASSUME NEW S, NEW R, BelowRoot(S, R), NEW e \in S
  PROVE  /\ Len(R) \in Nat /\ Len(e.path) \in Nat /\ Len(R) < Len(e.path)
         /\ Len(Dir(e.path)) = Len(e.path) - 1 /\ IsPrefix(R, Dir(e.path))
         /\ e.path = Append(Dir(e.path), Base(e.path))
         /\ Len(e.path) = Len(R) + 1 => Dir(e.path) = R
<1>1. R \in Raw /\ e.path \in Raw /\ e.path # Root /\ IsPrefix(R, e.path) /\ R # e.path
  BY DEF BelowRoot, IsStrictPrefix
<1>2. Len(R) \in Nat /\ Len(e.path) \in Nat
  BY <1>1 DEF Raw
<1>3. Len(R) <= Len(e.path) /\ Len(R) # Len(e.path)
  BY <1>1, PrefixLength
<1>4. /\ Dir(e.path) \in Raw /\ Len(Dir(e.path)) = Len(e.path) - 1 /\ IsPrefix(R, Dir(e.path))
      /\ e.path = Append(Dir(e.path), Base(e.path))
  BY <1>1, DirAbove
<1>5. Len(R) = Len(Dir(e.path)) => R = Dir(e.path)
  BY <1>1, <1>4, PrefixLength
<1>6. QED
  BY <1>2, <1>3, <1>4, <1>5

\* What waits when nothing is printed yet is the directory asked for.
LEMMA PrintingStarts ==
  ASSUME NEW S, NEW R, BelowRoot(S, R), NEW list, ListsDir(S, R, R, list)
  PROVE  Printing(S, R, << >>, << >>, list)
<1> DEFINE Given == {Item(R, e) : e \in {f \in S : Dir(f.path) = R}}
<1>1. list \in Seq(Given)
  BY DEF ListsDir
<1>2. \A x \in Given : /\ x.entry \in S /\ Dir(x.entry.path) = R /\ x = Item(R, x.entry)
  BY DEF Item
<1> HIDE DEF Given
<1> DEFINE n == Len(list)
<1>3. n \in Nat /\ \A k \in 1..n : list[k] \in Given
  BY <1>1
<1>4. \A k \in 1..n : Len(list[k].entry.path) = Len(R) + 1
  BY <1>2, <1>3, BelowLengths
<1>5. list \in Seq({Item(R, e) : e \in S})
  <2>1. Given \subseteq {Item(R, e) : e \in S}
    BY DEF Given
  <2>2. QED
    BY <1>1, <2>1
<1>6. << >> \in Seq(S) /\ Len(<< >>) = 0 /\ 1..0 = {}
  BY EmptySeq
<1>7. << >> = [k \in 1..0 |-> Line(R, << >>[k])]
  BY <1>6
<1>8. \A j, k \in 1..n : Len(list[k].entry.path) <= Len(list[j].entry.path)
  <2>1. Len(R) \in Nat
    BY DEF BelowRoot, Raw
  <2>2. QED
    BY <1>4, <2>1
<1>9. \A j \in 1..n : Leads(R, << >>, 0, list[j].entry.path)
  BY <1>4 DEF Leads
<1>10. \A e \in S : Dir(e.path) = R => \E j \in 1..n : list[j].entry = e
  BY DEF ListsDir
<1>11. \A j, k \in 1..n : list[j] = list[k] => j = k
  BY DEF ListsDir
<1> HIDE DEF n
<1>12. \A e \in S : (Dir(e.path) = R \/ \E k \in 1..0 : IsDir(<< >>[k]) /\ << >>[k].path = Dir(e.path)) =>
         \/ \E k \in 1..0 : << >>[k] = e
         \/ \E j \in 1..n : list[j].entry = e
  BY <1>6, <1>10
<1>13. QED
  BY <1>5, <1>6, <1>7, <1>8, <1>9, <1>11, <1>12 DEF Printing, n

\* The first that waits is printed, and what is in it waits before the others.
LEMMA PrintingGoesOn ==
  ASSUME NEW S, NEW R, BelowRoot(S, R), NEW printed, NEW told, NEW waiting,
         Printing(S, R, printed, told, waiting), waiting # << >>,
         NEW list, NEW e, e = Head(waiting).entry,
         IF IsDir(e) THEN ListsDir(S, R, e.path, list) ELSE list = << >>
  PROVE  /\ Head(waiting) = Item(R, e) /\ e \in S
         /\ Printing(S, R, Append(printed, e), Append(told, Line(R, e)), list \o Tail(waiting))
<1> DEFINE Items == {Item(R, f) : f \in S}
           m == Len(printed)
           t == Len(waiting)
           n == Len(list)
           r == Len(R)
           P == Append(printed, e)
           W == list \o Tail(waiting)
           L(f) == Len(f.path)
<1>1. /\ printed \in Seq(S) /\ m \in Nat /\ \A k \in 1..m : printed[k] \in S
      /\ waiting \in Seq(Items) /\ t \in Nat \ {0} /\ \A k \in 1..t : waiting[k] \in Items
      /\ r \in Nat
  BY DEF Printing, BelowRoot, Raw
<1>2. \A x \in Items : x.entry \in S /\ x = Item(R, x.entry)
  BY DEF Item
<1>3. Head(waiting) = waiting[1] /\ e = waiting[1].entry /\ e \in S /\ Head(waiting) = Item(R, e)
  BY <1>1, <1>2
<1>4. /\ list \in Seq(Items) /\ n \in Nat
      /\ \A k \in 1..n : list[k] \in Items /\ Dir(list[k].entry.path) = e.path
      /\ \A j, k \in 1..n : list[j] = list[k] => j = k
      /\ \A f \in S : IsDir(e) /\ Dir(f.path) = e.path => \E k \in 1..n : list[k].entry = f
  <2>1. CASE IsDir(e)
    <3> DEFINE Given == {Item(R, g) : g \in {f \in S : Dir(f.path) = e.path}}
    <3>1. list \in Seq(Given)
      BY <2>1 DEF ListsDir
    <3>2. \A x \in Given : x \in Items /\ Dir(x.entry.path) = e.path
      BY DEF Item
    <3> HIDE DEF Given, Items
    <3>3. list \in Seq(Items) /\ n \in Nat /\ \A k \in 1..n : list[k] \in Given
      BY <3>1, <3>2
    <3>4. /\ \A j, k \in 1..n : list[j] = list[k] => j = k
          /\ \A f \in S : Dir(f.path) = e.path => \E k \in 1..n : list[k].entry = f
      BY <2>1 DEF ListsDir
    <3>5. QED
      BY <3>2, <3>3, <3>4
  <2>2. CASE ~IsDir(e)
    <3>1. list = << >> /\ n = 0 /\ list \in Seq(Items)
      BY <2>2, EmptySeq
    <3>2. QED
      BY <2>2, <3>1
  <2>3. QED
    BY <2>1, <2>2
<1>5. /\ P \in Seq(S) /\ Len(P) = m + 1
      /\ \A k \in 1..m : P[k] = printed[k]
      /\ P[m + 1] = e
  BY <1>1, <1>3, AppendProperties
<1>6. /\ W \in Seq(Items) /\ Len(W) = n + (t - 1)
      /\ \A k \in 1..n : W[k] = list[k]
      /\ \A k \in (n + 1)..(n + (t - 1)) : W[k] = waiting[k - n + 1]
  <2> DEFINE T == Tail(waiting)
  <2> HIDE DEF Items
  <2>1. T \in Seq(Items) /\ Len(T) = t - 1 /\ \A k \in 1..(t - 1) : T[k] = waiting[k + 1]
    BY <1>1, HeadTailProperties
  <2> HIDE DEF T
  <2>2. /\ list \o T \in Seq(Items) /\ Len(list \o T) = n + Len(T)
        /\ \A k \in 1..(n + Len(T)) : (list \o T)[k] = IF k <= n THEN list[k] ELSE T[k - n]
    <3>1. list \in Seq(Items) /\ T \in Seq(Items)
      BY <1>4, <2>1
    <3>2. QED
      BY <3>1, ConcatProperties
  <2> DEFINE V == list \o T
  <2> HIDE DEF V, n, t
  <2>3. /\ V \in Seq(Items) /\ Len(V) = n + (t - 1)
        /\ \A k \in 1..(n + (t - 1)) : V[k] = IF k <= n THEN list[k] ELSE T[k - n]
    BY <2>1, <2>2 DEF V
  <2>4. ASSUME NEW k \in 1..n PROVE V[k] = list[k]
    <3>1. n \in Nat /\ t - 1 \in Nat
      BY <1>1, <1>4 DEF n, t
    <3>2. k \in 1..(n + (t - 1)) /\ k <= n
      BY <3>1
    <3>3. QED
      BY <2>3, <3>2
  <2>5. ASSUME NEW k \in (n + 1)..(n + (t - 1)) PROVE V[k] = waiting[k - n + 1]
    <3>1. k \in 1..(n + (t - 1)) /\ ~(k <= n) /\ k - n \in 1..(t - 1)
      BY <1>1, <1>4 DEF n, t
    <3>2. QED
      BY <2>1, <2>3, <3>1
  <2>6. QED
    BY <2>3, <2>4, <2>5 DEF V, T
<1> HIDE DEF P, W, Items, m, n, t, r
<1>7. \A f \in S : L(f) \in Nat /\ r < L(f) /\ Len(Dir(f.path)) = L(f) - 1
  BY BelowLengths DEF r
<1>8. \A k \in 1..n : list[k].entry \in S /\ L(list[k].entry) = L(e) + 1
  <2> SUFFICES ASSUME NEW k \in 1..n PROVE list[k].entry \in S /\ L(list[k].entry) = L(e) + 1
    OBVIOUS
  <2>1. list[k].entry \in S /\ Dir(list[k].entry.path) = e.path
    BY <1>2, <1>4
  <2>2. L(e) = L(list[k].entry) - 1
    BY <1>7, <2>1
  <2>3. QED
    BY <1>3, <1>7, <2>1, <2>2
<1>9. \A k \in 1..t : waiting[k].entry \in S /\ L(waiting[k].entry) <= L(e)
  <2> SUFFICES ASSUME NEW k \in 1..t PROVE waiting[k].entry \in S /\ L(waiting[k].entry) <= L(e)
    OBVIOUS
  <2>1. waiting[k].entry \in S
    BY <1>1, <1>2
  <2>2. CASE k = 1
    BY <1>3, <1>7, <2>2
  <2>3. CASE k # 1
    <3>1. 1 \in 1..t /\ 1 < k
      BY <1>1, <2>3
    <3>2. Len(waiting[k].entry.path) <= Len(waiting[1].entry.path)
      BY <3>1 DEF Printing, t
    <3>3. QED
      BY <1>3, <2>1, <3>2
  <2>4. QED
    BY <2>1, <2>2, <2>3
<1>10. ASSUME NEW k \in 1..n
       PROVE  /\ \A j \in 1..m : printed[j] # list[k].entry
              /\ \A j \in 1..t : waiting[j].entry # list[k].entry
  <2> DEFINE c == list[k].entry
  <2>1. c \in S /\ L(c) = L(e) + 1 /\ Dir(c.path) = e.path
    BY <1>4, <1>8
  <2>2. L(c) # r + 1
    BY <1>3, <1>7, <1>1, <2>1
  <2>3. \A j \in 1..m : printed[j] # e
    BY <1>1, <1>3 DEF Printing, m, t
  <2>4. ASSUME NEW l \in 0..m, Leads(R, printed, l, c.path) PROVE FALSE
    <3>1. PICK j \in 1..l : printed[j].path = Dir(c.path)
      BY <2>2, <2>4 DEF Leads, r
    <3>2. j \in 1..m
      BY <1>1, <3>1
    <3>3. printed[j] = e
      BY <1>1, <1>3, <2>1, <3>1, <3>2 DEF BelowRoot, OnePerPath
    <3>4. QED
      BY <2>3, <3>2, <3>3
  <2>5. ASSUME NEW j \in 1..m, printed[j] = c PROVE FALSE
    <3>1. j - 1 \in 0..m
      BY <1>1
    <3>2. Leads(R, printed, j - 1, c.path)
      BY <2>5 DEF Printing, m
    <3>3. QED
      BY <2>4, <3>1, <3>2
  <2>6. ASSUME NEW j \in 1..t, waiting[j].entry = c PROVE FALSE
    <3>1. m \in 0..m
      BY <1>1
    <3>2. Leads(R, printed, m, c.path)
      BY <2>6 DEF Printing, m, t
    <3>3. QED
      BY <2>4, <3>1, <3>2
  <2>7. QED
    BY <2>5, <2>6
<1>11. \A j, k \in 1..Len(P) : P[j] = P[k] => j = k
  <2>1. \A j, k \in 1..m : printed[j] = printed[k] => j = k
    BY DEF Printing, m
  <2>2. \A j \in 1..m : printed[j] # e
    BY <1>1, <1>3 DEF Printing, m, t
  <2>3. \A j \in 1..(m + 1) : j \in 1..m \/ j = m + 1
    BY <1>1
  <2>4. QED
    BY <1>5, <2>1, <2>2, <2>3
<1>12. \A k \in 1..Len(W) : \/ k \in 1..n /\ W[k] = list[k]
                            \/ k - n + 1 \in 2..t /\ W[k] = waiting[k - n + 1]
  <2> SUFFICES ASSUME NEW k \in 1..(n + (t - 1))
               PROVE  \/ k \in 1..n /\ W[k] = list[k]
                      \/ k - n + 1 \in 2..t /\ W[k] = waiting[k - n + 1]
    BY <1>6
  <2>1. CASE k <= n
    BY <1>1, <1>4, <1>6, <2>1
  <2>2. CASE ~(k <= n)
    <3>1. k \in (n + 1)..(n + (t - 1)) /\ k - n + 1 \in 2..t
      BY <1>1, <1>4, <2>2
    <3>2. QED
      BY <1>6, <3>1
  <2>3. QED
    BY <2>1, <2>2
<1>13. \A j, k \in 1..Len(W) : W[j] = W[k] => j = k
  <2> SUFFICES ASSUME NEW j \in 1..Len(W), NEW k \in 1..Len(W), W[j] = W[k] PROVE j = k
    OBVIOUS
  <2>1. CASE j \in 1..n /\ W[j] = list[j]
    <3>1. CASE k \in 1..n /\ W[k] = list[k]
      BY <1>4, <2>1, <3>1
    <3>2. CASE k - n + 1 \in 2..t /\ W[k] = waiting[k - n + 1]
      <4>1. k - n + 1 \in 1..t
        BY <1>1, <3>2
      <4>2. waiting[k - n + 1].entry # list[j].entry
        BY <1>10, <2>1, <4>1
      <4>3. QED
        BY <2>1, <3>2, <4>2
    <3>3. QED
      BY <1>12, <3>1, <3>2
  <2>2. CASE j - n + 1 \in 2..t /\ W[j] = waiting[j - n + 1]
    <3>1. CASE k \in 1..n /\ W[k] = list[k]
      <4>1. j - n + 1 \in 1..t
        BY <1>1, <2>2
      <4>2. waiting[j - n + 1].entry # list[k].entry
        BY <1>10, <3>1, <4>1
      <4>3. QED
        BY <2>2, <3>1, <4>2
    <3>2. CASE k - n + 1 \in 2..t /\ W[k] = waiting[k - n + 1]
      <4>1. j - n + 1 \in 1..t /\ k - n + 1 \in 1..t
        BY <1>1, <2>2, <3>2
      <4>2. waiting[j - n + 1] = waiting[k - n + 1]
        BY <2>2, <3>2
      <4>3. j - n + 1 = k - n + 1
        BY <4>1, <4>2 DEF Printing, t
      <4>4. QED
        BY <1>4, <1>6, <1>1, <4>3
    <3>3. QED
      BY <1>12, <3>1, <3>2
  <2>3. QED
    BY <1>12, <2>1, <2>2
<1>14. \A k \in 1..Len(P), j \in 1..Len(W) : P[k] # W[j].entry
  <2> SUFFICES ASSUME NEW k \in 1..Len(P), NEW j \in 1..Len(W), P[k] = W[j].entry PROVE FALSE
    OBVIOUS
  <2>0. k \in 1..m \/ k = m + 1
    BY <1>1, <1>5
  <2>1. (k \in 1..m /\ P[k] = printed[k]) \/ P[k] = e
    BY <1>5, <2>0
  <2>2. CASE j \in 1..n /\ W[j] = list[j]
    <3>1. 1 \in 1..t
      BY <1>1
    <3>2. e # list[j].entry /\ \A l \in 1..m : printed[l] # list[j].entry
      BY <1>3, <1>10, <2>2, <3>1
    <3>3. QED
      BY <2>1, <2>2, <3>2
  <2>3. CASE j - n + 1 \in 2..t /\ W[j] = waiting[j - n + 1]
    <3>1. j - n + 1 \in 1..t /\ j - n + 1 # 1 /\ 1 \in 1..t
      BY <1>1, <2>3
    <3>2. \A l \in 1..m : printed[l] # waiting[j - n + 1].entry
      BY <3>1 DEF Printing, m, t
    <3>3. waiting[j - n + 1].entry # e
      <4>1. waiting[j - n + 1] # waiting[1]
        BY <3>1 DEF Printing, t
      <4>2. /\ waiting[1] = Item(R, waiting[1].entry)
            /\ waiting[j - n + 1] = Item(R, waiting[j - n + 1].entry)
        BY <1>1, <1>2, <3>1
      <4>3. QED
        BY <1>3, <4>1, <4>2
    <3>4. QED
      BY <2>1, <2>3, <3>2, <3>3
  <2>4. QED
    BY <1>12, <2>2, <2>3
<1>15. Append(told, Line(R, e)) = [k \in 1..Len(P) |-> Line(R, P[k])]
  <2> DEFINE Lines == {Line(R, f) : f \in S}
             l == Line(R, e)
             old == [k \in 1..m |-> Line(R, printed[k])]
             new == [k \in 1..(m + 1) |-> Line(R, P[k])]
  <2>1. told = old
    BY DEF Printing, m
  <2>2. old \in Seq(Lines) /\ Len(old) = m /\ \A k \in 1..m : old[k] = Line(R, printed[k])
    BY <1>1
  <2>3. l \in Lines
    BY <1>3
  <2>4. new \in Seq(Lines) /\ Len(new) = m + 1 /\ \A k \in 1..(m + 1) : new[k] = Line(R, P[k])
    BY <1>1, <1>5
  <2> HIDE DEF Lines, l, old, new
  <2>5. /\ Append(old, l) \in Seq(Lines) /\ Len(Append(old, l)) = m + 1
        /\ \A k \in 1..m : Append(old, l)[k] = old[k]
        /\ Append(old, l)[m + 1] = l
    BY <2>2, <2>3, AppendProperties
  <2>6. \A k \in 1..(m + 1) : Append(old, l)[k] = new[k]
    <3> SUFFICES ASSUME NEW k \in 1..(m + 1) PROVE Append(old, l)[k] = new[k]
      OBVIOUS
    <3>1. CASE k \in 1..m
      BY <1>5, <2>2, <2>4, <2>5, <3>1
    <3>2. CASE k = m + 1
      BY <1>5, <2>4, <2>5, <3>2 DEF l
    <3>3. k \in 1..m \/ k = m + 1
      BY <1>1
    <3>4. QED
      BY <3>1, <3>2, <3>3
  <2>7. Append(old, l) = new
    BY <2>4, <2>5, <2>6, SeqEqual
  <2>8. QED
    BY <1>5, <2>1, <2>7 DEF l, new
<1>16. \A j, k \in 1..Len(W) : j < k => L(W[k].entry) <= L(W[j].entry)
  <2> SUFFICES ASSUME NEW j \in 1..Len(W), NEW k \in 1..Len(W), j < k
               PROVE  L(W[k].entry) <= L(W[j].entry)
    OBVIOUS
  <2>1. L(e) \in Nat
    BY <1>3, <1>7
  <2>2. CASE j \in 1..n /\ W[j] = list[j]
    <3>1. L(W[j].entry) = L(e) + 1
      BY <1>8, <2>2
    <3>2. CASE k \in 1..n /\ W[k] = list[k]
      BY <1>8, <2>1, <3>1, <3>2
    <3>3. CASE k - n + 1 \in 2..t /\ W[k] = waiting[k - n + 1]
      <4>1. k - n + 1 \in 1..t
        BY <1>1, <3>3
      <4>2. L(W[k].entry) <= L(e) /\ L(W[k].entry) \in Nat
        BY <1>7, <1>9, <3>3, <4>1
      <4>3. QED
        BY <2>1, <3>1, <4>2
    <3>4. QED
      BY <1>12, <3>2, <3>3
  <2>3. CASE j - n + 1 \in 2..t /\ W[j] = waiting[j - n + 1]
    <3>1. ~(k \in 1..n)
      BY <1>1, <1>4, <1>6, <2>3
    <3>2. k - n + 1 \in 2..t /\ W[k] = waiting[k - n + 1]
      BY <1>12, <3>1
    <3>3. j - n + 1 < k - n + 1 /\ j - n + 1 \in 1..t /\ k - n + 1 \in 1..t
      BY <1>1, <1>4, <1>6, <2>3, <3>2
    <3>4. L(waiting[k - n + 1].entry) <= L(waiting[j - n + 1].entry)
      BY <3>3 DEF Printing, t
    <3>5. QED
      BY <2>3, <3>2, <3>4
  <2>4. QED
    BY <1>12, <2>2, <2>3
<1>17. ASSUME NEW p, NEW l \in 0..m, Leads(R, printed, l, p) PROVE Leads(R, P, l, p)
  <2>1. CASE Len(p) = Len(R) + 1
    BY <2>1 DEF Leads
  <2>2. CASE Len(p) # Len(R) + 1
    <3>1. PICK k \in 1..l : /\ printed[k].path = Dir(p)
                            /\ \A i \in (k + 1)..l : Len(printed[i].path) # Len(p) - 1
      BY <1>17, <2>2 DEF Leads
    <3>2. \A i \in 1..l : P[i] = printed[i]
      BY <1>1, <1>5
    <3>3. k \in 1..l /\ \A i \in (k + 1)..l : i \in 1..l
      OBVIOUS
    <3> HIDE DEF P
    <3>4. P[k].path = Dir(p) /\ \A i \in (k + 1)..l : Len(P[i].path) # Len(p) - 1
      BY <3>1, <3>2, <3>3
    <3>5. QED
      BY <3>4 DEF Leads
  <2>3. QED
    BY <2>1, <2>2
<1>18. \A k \in 1..Len(P) : Leads(R, P, k - 1, P[k].path)
  <2> SUFFICES ASSUME NEW k \in 1..(m + 1) PROVE Leads(R, P, k - 1, P[k].path)
    BY <1>5
  <2>1. k - 1 \in 0..m
    BY <1>1
  <2>2. CASE k \in 1..m
    BY <1>5, <1>17, <2>1, <2>2 DEF Printing, m
  <2>3. CASE k = m + 1
    <3>1. 1 \in 1..t /\ k - 1 = m
      BY <1>1, <2>3
    <3>2. Leads(R, printed, m, waiting[1].entry.path)
      BY <3>1 DEF Printing, m, t
    <3>3. QED
      BY <1>3, <1>5, <1>17, <2>1, <2>3, <3>1, <3>2
  <2>4. QED
    BY <1>1, <2>2, <2>3
<1>19. \A j \in 1..Len(W) : Leads(R, P, Len(P), W[j].entry.path)
  <2> SUFFICES ASSUME NEW j \in 1..Len(W) PROVE Leads(R, P, m + 1, W[j].entry.path)
    BY <1>5
  <2>1. CASE j \in 1..n /\ W[j] = list[j]
    <3>1. P[m + 1].path = Dir(W[j].entry.path)
      BY <1>4, <1>5, <2>1
    <3>2. m + 1 \in 1..(m + 1) /\ ((m + 1) + 1)..(m + 1) = {}
      BY <1>1
    <3>3. QED
      BY <3>1, <3>2 DEF Leads
  <2>2. CASE j - n + 1 \in 2..t /\ W[j] = waiting[j - n + 1]
    <3> DEFINE f == waiting[j - n + 1].entry
    <3>1. j - n + 1 \in 1..t /\ m \in 0..m
      BY <1>1, <2>2
    <3>2. Leads(R, printed, m, f.path)
      BY <3>1 DEF Printing, m, t
    <3>3. Leads(R, P, m, f.path)
      BY <1>17, <3>1, <3>2
    <3>4. L(f) <= L(e) /\ L(f) \in Nat /\ L(e) \in Nat
      BY <1>3, <1>7, <1>9, <3>1
    <3>5. Len(P[m + 1].path) # Len(f.path) - 1
      BY <1>5, <3>4
    <3> HIDE DEF f
    <3>6. Leads(R, P, m + 1, f.path)
      <4>1. CASE Len(f.path) = Len(R) + 1
        BY <4>1 DEF Leads
      <4>2. CASE Len(f.path) # Len(R) + 1
        <5>1. PICK k \in 1..m : /\ P[k].path = Dir(f.path)
                                /\ \A i \in (k + 1)..m : Len(P[i].path) # Len(f.path) - 1
          BY <3>3, <4>2 DEF Leads
        <5>2. k \in 1..(m + 1) /\ \A i \in (k + 1)..(m + 1) : i \in (k + 1)..m \/ i = m + 1
          BY <1>1
        <5>3. \A i \in (k + 1)..(m + 1) : Len(P[i].path) # Len(f.path) - 1
          BY <3>5, <5>1, <5>2
        <5>4. QED
          BY <5>1, <5>2, <5>3 DEF Leads
      <4>3. QED
        BY <4>1, <4>2
    <3>7. QED
      BY <2>2, <3>6 DEF f
  <2>3. QED
    BY <1>12, <2>1, <2>2
<1>20. ASSUME NEW f \in S,
              Dir(f.path) = R \/ \E k \in 1..Len(P) : IsDir(P[k]) /\ P[k].path = Dir(f.path)
       PROVE  \/ \E k \in 1..Len(P) : P[k] = f
              \/ \E j \in 1..Len(W) : W[j].entry = f
  <2>1. CASE IsDir(e) /\ e.path = Dir(f.path)
    <3>1. PICK k \in 1..n : list[k].entry = f
      BY <1>4, <2>1
    <3>2. k \in 1..Len(W)
      BY <1>1, <1>4, <1>6
    <3>3. QED
      BY <1>6, <3>1, <3>2
  <2>2. CASE Dir(f.path) = R \/ \E k \in 1..m : IsDir(printed[k]) /\ printed[k].path = Dir(f.path)
    <3>1. (\E k \in 1..m : printed[k] = f) \/ \E j \in 1..t : waiting[j].entry = f
      BY <2>2 DEF Printing, m, t
    <3>2. CASE \E k \in 1..m : printed[k] = f
      <4>1. PICK k \in 1..m : printed[k] = f
        BY <3>2
      <4>2. k \in 1..Len(P)
        BY <1>1, <1>5
      <4>3. QED
        BY <1>5, <4>1, <4>2
    <3>3. CASE waiting[1].entry = f
      <4>1. m + 1 \in 1..Len(P)
        BY <1>1, <1>5
      <4>2. QED
        BY <1>3, <1>5, <3>3, <4>1
    <3>4. ASSUME NEW j \in 2..t, waiting[j].entry = f PROVE \E k \in 1..Len(W) : W[k].entry = f
      <4>1. j - 1 + n \in (n + 1)..(n + (t - 1)) /\ j - 1 + n \in 1..Len(W) /\ (j - 1 + n) - n + 1 = j
        BY <1>1, <1>4, <1>6
      <4>2. W[j - 1 + n] = waiting[j]
        BY <1>6, <4>1
      <4>3. QED
        BY <3>4, <4>1, <4>2
    <3>5. \A j \in 1..t : j = 1 \/ j \in 2..t
      BY <1>1
    <3>6. QED
      BY <3>1, <3>2, <3>3, <3>4, <3>5
  <2>3. \A k \in 1..Len(P) : (k \in 1..m /\ P[k] = printed[k]) \/ P[k] = e
    BY <1>1, <1>5
  <2>4. QED
    BY <1>20, <2>1, <2>2, <2>3
<1>21. Printing(S, R, P, Append(told, Line(R, e)), W)
  <2> HIDE DEF L
  <2>1. W \in Seq({Item(R, f) : f \in S})
    BY <1>6 DEF Items
  <2>2. \A j, k \in 1..Len(W) : j < k => Len(W[k].entry.path) <= Len(W[j].entry.path)
    BY <1>16 DEF L
  <2>3. QED
    BY <1>5, <1>11, <1>13, <1>14, <1>15, <1>18, <1>19, <1>20, <2>1, <2>2 DEF Printing
<1>22. QED
  BY <1>3, <1>21 DEF P, W

\* What is seen is below the path asked for.
LEMMA SeenIsBelow ==
  ASSUME input \in Inputs, NEW E, TreeEntries(E)
  PROVE  /\ BelowRoot(Seen(E), RootPath)
         /\ \A e \in Seen(E) : \/ Dir(e.path) = RootPath
                               \/ \E f \in Seen(E) : IsDir(f) /\ f.path = Dir(e.path)
<1>1. \A e \in Seen(E) : e \in E
  BY DEF Seen
<1>2. \A e \in Seen(E) : /\ IsStrictPrefix(RootPath, e.path)
                         /\ \/ Dir(e.path) = RootPath
                            \/ \E f \in Seen(E) : IsDir(f) /\ f.path = Dir(e.path)
  BY <1>1, SeenStep
<1>3. \A e \in Seen(E) : e.path \in Raw /\ e.path # Root
  BY <1>1, EntryFacts
<1>4. OnePerPath(Seen(E))
  BY <1>1 DEF OnePerPath, TreeEntries
<1>5. QED
  BY <1>2, <1>3, <1>4, RootIsRaw DEF BelowRoot

\* What printTreeDir makes of a directory lists what is seen in it.
LEMMA ChildrenAre ==
  ASSUME input \in Inputs, NEW E, TreeEntries(E), NEW d,
         d = RootPath \/ \E f \in Seen(E) : IsDir(f) /\ f.path = d
  PROVE  ListsDir(Seen(E), RootPath, d, Children(DirMap(Kept(E)), d, Len(d) - Len(RootPath)))
<1> DEFINE R == RootPath
           r == Len(R)
           S == Seen(E)
           K == {e \in Kept(E) : Dir(e.path) = d}
           s == Sorted(K)
           n == Cardinality(K)
           depth == Len(d) - Len(R)
           map == DirMap(Kept(E))
           q == Children(map, d, depth)
<1>1. R \in Raw /\ r \in Nat
  BY RootIsRaw
<1>2. d \in Raw /\ Len(d) \in Nat /\ IsPrefix(R, d)
  <2>1. CASE d = R
    BY <1>1, <2>1, PrefixLength
  <2>2. CASE \E f \in Seen(E) : IsDir(f) /\ f.path = d
    <3>1. PICK f \in Seen(E) : f.path = d
      BY <2>2
    <3>2. f.path \in Raw /\ IsStrictPrefix(R, f.path)
      BY <3>1, SeenIsBelow DEF BelowRoot
    <3>3. QED
      BY <3>1, <3>2 DEF IsStrictPrefix, Raw
  <2>3. QED
    BY <2>1, <2>2
<1>3. \A e \in K : e \in Kept(E) /\ e \in E /\ Dir(e.path) = d
  BY DEF Kept
<1>4. {f \in S : Dir(f.path) = d} = K
  <2>1. ASSUME NEW e \in S, Dir(e.path) = d PROVE e \in K
    <3>1. e \in E
      BY DEF Seen
    <3>2. e \in Kept(E)
      BY <3>1, SeenStep
    <3>3. QED
      BY <2>1, <3>2
  <2>2. ASSUME NEW e \in K PROVE e \in S
    <3>1. e \in E /\ e \in Kept(E) /\ Dir(e.path) = d
      BY <1>3
    <3>2. e.path \in Raw /\ IsPrefix(d, e.path) /\ Len(d) = Len(e.path) - 1 /\ Len(e.path) \in Nat
      BY <3>1, EntryFacts
    <3>3. IsPrefix(R, e.path)
      BY <1>1, <1>2, <3>2, PrefixGoesOn
    <3>4. r <= Len(d)
      BY <1>1, <1>2, PrefixLength
    <3>5. R # e.path
      BY <1>1, <3>2, <3>4
    <3>6. IsStrictPrefix(R, e.path)
      BY <3>3, <3>5 DEF IsStrictPrefix
    <3>7. Dir(e.path) = R \/ \E f \in Seen(E) : IsDir(f) /\ f.path = Dir(e.path)
      BY <3>1
    <3>8. QED
      BY <3>1, <3>6, <3>7, SeenStep
  <2>3. QED
    BY <2>1, <2>2, <1>3
<1>5. Siblings(K)
  <2>1. IsFiniteSet(E) /\ K \in SUBSET E
    BY <1>3 DEF TreeEntries
  <2>2. IsFiniteSet(K)
    BY <2>1, FS_Subset
  <2>3. OnePerPath(K)
    BY <1>3 DEF OnePerPath, TreeEntries
  <2>4. \A e \in K : e.path \in Path \ {Root} /\ e.path \in Raw
    BY <1>3, PathsAreRaw DEF TreeEntries
  <2>5. \A e, f \in K : Dir(e.path) = Dir(f.path)
    BY <1>3
  <2> HIDE DEF K
  <2>6. QED
    BY <2>2, <2>3, <2>4, <2>5 DEF Siblings
<1>6. /\ n \in Nat /\ DOMAIN s = 1..n
      /\ \A k \in 1..n : s[k] \in K
      /\ \A e \in K : \E k \in 1..n : s[k] = e
      /\ \A j, k \in 1..n : s[j] = s[k] => j = k
  BY <1>5, SortedIsList
<1>7. \A e \in K : Len(e.path) - r = depth + 1
  <2> SUFFICES ASSUME NEW e \in K PROVE Len(e.path) - r = depth + 1
    OBVIOUS
  <2>1. e \in E /\ Dir(e.path) = d
    BY <1>3
  <2>2. Len(d) = Len(e.path) - 1 /\ Len(e.path) \in Nat
    BY <2>1, EntryFacts
  <2>3. QED
    BY <1>1, <1>2, <2>2
<1>8. d \in DOMAIN map <=> K # {}
  <2>1. DOMAIN map = {Dir(e.path) : e \in Kept(E)}
    BY DEF DirMap
  <2>2. QED
    BY <2>1
<1>9. d \in DOMAIN map => map[d] = s
  <2>1. map = [c \in {Dir(e.path) : e \in Kept(E)} |-> Sorted({e \in Kept(E) : Dir(e.path) = c})]
    BY DEF DirMap
  <2>2. QED
    BY <2>1, Zenon
<1>10. input.level > 0 /\ depth > input.level => K = {}
  <2> SUFFICES ASSUME input.level > 0, depth > input.level, NEW e \in K PROVE FALSE
    OBVIOUS
  <2>1. e \in Kept(E)
    BY <1>3
  <2>2. e \in S
    BY <1>4
  <2>3. IsPrefix(R, e.path)
    BY <2>2, SeenIsBelow DEF BelowRoot, IsStrictPrefix
  <2>4. Depth(e.path) = Len(e.path) - r + 0
    BY <2>3 DEF Depth
  <2>5. Depth(e.path) <= input.level
    BY <2>1 DEF Kept
  <2>6. Len(e.path) - r = depth + 1
    BY <1>7
  <2>7. input.level \in Int
    BY InputsAssumption
  <2>8. depth \in Int
    BY <1>1, <1>2
  <2>9. QED
    BY <2>4, <2>5, <2>6, <2>7, <2>8
<1> DEFINE Given == {Item(R, e) : e \in K}
<1>11. /\ q \in Seq(Given) /\ Len(q) = n
       /\ \A k \in 1..n : q[k] = [entry |-> s[k], depth |-> depth + 1]
  <2>1. CASE K = {}
    <3>1. q = << >>
      <4>1. d \notin DOMAIN map
        BY <1>8, <2>1
      <4> HIDE DEF map, depth
      <4>2. QED
        BY <4>1 DEF Children
    <3>2. n = 0
      BY <1>6, <2>1
    <3> HIDE DEF q, n, Given
    <3>3. q \in Seq(Given) /\ Len(q) = 0
      BY <3>1, EmptySeq
    <3>4. QED
      BY <3>2, <3>3
  <2>2. CASE K # {}
    <3> HIDE DEF K, s, n, depth, map
    <3>1. q = [k \in DOMAIN map[d] |-> [entry |-> map[d][k], depth |-> depth + 1]]
      BY <1>8, <1>10, <2>2 DEF Children
    <3>2. q = [k \in 1..n |-> [entry |-> s[k], depth |-> depth + 1]]
      BY <1>6, <1>8, <1>9, <2>2, <3>1
    <3>3. \A k \in 1..n : [entry |-> s[k], depth |-> depth + 1] = Item(R, s[k])
      BY <1>6, <1>7 DEF Item
    <3>4. \A k \in 1..n : Item(R, s[k]) \in Given
      BY <1>6
    <3> HIDE DEF q, Given
    <3>5. \A k \in 1..n : q[k] = [entry |-> s[k], depth |-> depth + 1]
      BY <3>2
    <3>6. q = [k \in 1..n |-> q[k]] /\ \A k \in 1..n : q[k] \in Given
      BY <3>2, <3>3, <3>4
    <3>7. q \in Seq(Given) /\ Len(q) = n
      BY <1>6, <3>6
    <3>8. QED
      BY <3>5, <3>7
  <2>3. QED
    BY <2>1, <2>2
<1> HIDE DEF q, K, s, n, depth, S, R
<1>12. \A j, k \in 1..Len(q) : q[j] = q[k] => j = k
  <2> SUFFICES ASSUME NEW j \in 1..n, NEW k \in 1..n, q[j] = q[k] PROVE j = k
    BY <1>11
  <2>1. q[j].entry = s[j] /\ q[k].entry = s[k]
    BY <1>11
  <2>2. QED
    BY <1>6, <2>1
<1>13. \A e \in S : Dir(e.path) = d => \E k \in 1..Len(q) : q[k].entry = e
  <2> SUFFICES ASSUME NEW e \in S, Dir(e.path) = d PROVE \E k \in 1..n : q[k].entry = e
    BY <1>11
  <2>1. PICK k \in 1..n : s[k] = e
    BY <1>4, <1>6
  <2>2. q[k].entry = e
    BY <1>11, <2>1
  <2>3. QED
    BY <2>2
<1>14. ListsDir(S, R, d, q)
  BY <1>4, <1>11, <1>12, <1>13 DEF ListsDir
<1>15. QED
  BY <1>14 DEF S, R, q, map, depth

-----------------------------------------------------------------------------
\* tree: the tree, when all of it is printed.

\* Everything is.
LEMMA AllPrinted ==
  ASSUME NEW S, NEW R, BelowRoot(S, R),
         \A e \in S : Dir(e.path) = R \/ \E f \in S : IsDir(f) /\ f.path = Dir(e.path),
         NEW printed, NEW told, Printing(S, R, printed, told, << >>)
  PROVE  \A e \in S : \E k \in 1..Len(printed) : printed[k] = e
<1> DEFINE Is(e) == \E k \in 1..Len(printed) : printed[k] = e
           T == {Len(e.path) : e \in {f \in S : ~Is(f)}}
<1> SUFFICES ASSUME NEW x \in S, ~Is(x) PROVE FALSE
  OBVIOUS
<1>1. T \in SUBSET Nat /\ T # {}
  <2>1. \A e \in S : Len(e.path) \in Nat
    BY BelowLengths
  <2> HIDE DEF Is
  <2>2. QED
    BY <2>1
<1>2. PICK n \in T : \A m \in T : n <= m
  <2> HIDE DEF T
  <2>1. QED
    BY <1>1, SmallestNat
<1>3. PICK e \in S : ~Is(e) /\ Len(e.path) = n
  BY <1>2
<1>4. Dir(e.path) = R \/ \E k \in 1..Len(printed) : IsDir(printed[k]) /\ printed[k].path = Dir(e.path)
  <2> SUFFICES ASSUME Dir(e.path) # R
               PROVE  \E k \in 1..Len(printed) : IsDir(printed[k]) /\ printed[k].path = Dir(e.path)
    OBVIOUS
  <2>1. PICK f \in S : IsDir(f) /\ f.path = Dir(e.path)
    OBVIOUS
  <2>2. Len(f.path) < Len(e.path) /\ Len(f.path) \in Nat /\ Len(e.path) \in Nat
    BY <2>1, BelowLengths
  <2>3. Is(f)
    <3>1. ~Is(f) => Len(f.path) \in T
      OBVIOUS
    <3> HIDE DEF Is, T
    <3>2. QED
      BY <1>2, <1>3, <2>2, <3>1
  <2>4. QED
    BY <2>1, <2>3
<1>5. Len(<< >>) = 0 /\ 1..0 = {}
  BY EmptySeq
<1>6. Is(e)
  BY <1>4, <1>5 DEF Printing
<1>7. QED
  BY <1>3, <1>6

\* What a reader makes of a line is the path of its entry.
LEMMA DrawnIsPrinted ==
  ASSUME NEW S, BelowRoot(S, RootPath),
         NEW printed, Printing(S, RootPath, printed, lines, << >>)
  PROVE  /\ Len(lines) = Len(printed) /\ DOMAIN lines = 1..Len(printed)
         /\ \A k \in 1..Len(printed) : Drawn[k] = printed[k].path
<1> DEFINE R == RootPath
           n == Len(printed)
           Up(k) == {j \in 1..(k - 1) : lines[j].depth = lines[k].depth - 1}
           Eq(f) == f = [k \in DOMAIN lines |->
                           Append(IF lines[k].depth = 1 THEN R ELSE f[Max(Up(k))], lines[k].name)]
           h == [k \in 1..n |-> printed[k].path]
           g == CHOOSE f : Eq(f)
<1>1. /\ n \in Nat /\ \A k \in 1..n : printed[k] \in S
      /\ lines = [k \in 1..n |-> Line(R, printed[k])]
  BY DEF Printing
<1>2. Len(lines) = n /\ DOMAIN lines = 1..n
  BY <1>1
<1>3. Drawn = g
  BY DEF Drawn
<1> HIDE DEF R, n, g
<1>4. \A k \in 1..n : /\ lines[k].depth = Len(printed[k].path) - Len(R)
                      /\ lines[k].name = Base(printed[k].path)
  BY <1>1 DEF Line
<1>5. \A k \in 1..n : /\ Len(R) \in Nat /\ Len(printed[k].path) \in Nat
                      /\ printed[k].path = Append(Dir(printed[k].path), Base(printed[k].path))
                      /\ Len(printed[k].path) = Len(R) + 1 => Dir(printed[k].path) = R
                      /\ Len(Dir(printed[k].path)) = Len(printed[k].path) - 1
  BY <1>1, BelowLengths DEF R
<1>6. ASSUME NEW k \in 1..n
      PROVE  /\ lines[k].depth = 1 => Dir(printed[k].path) = R
             /\ lines[k].depth # 1 => /\ Max(Up(k)) \in 1..(k - 1)
                                      /\ printed[Max(Up(k))].path = Dir(printed[k].path)
  <2> DEFINE p == printed[k].path
  <2>1. lines[k].depth = 1 => Len(p) = Len(R) + 1
    BY <1>4, <1>5
  <2>2. ASSUME lines[k].depth # 1
        PROVE  Max(Up(k)) \in 1..(k - 1) /\ printed[Max(Up(k))].path = Dir(p)
    <3>1. Len(p) # Len(R) + 1
      BY <1>4, <1>5, <2>2
    <3>2. Leads(R, printed, k - 1, p)
      BY DEF Printing, n, R
    <3>3. PICK m \in 1..(k - 1) : /\ printed[m].path = Dir(p)
                                  /\ \A i \in (m + 1)..(k - 1) : Len(printed[i].path) # Len(p) - 1
      BY <3>1, <3>2 DEF Leads
    <3>4. \A j \in 1..(k - 1) : j \in 1..n
      BY <1>1
    <3>5. \A j \in 1..(k - 1) : j \in Up(k) <=> Len(printed[j].path) = Len(p) - 1
      <4> SUFFICES ASSUME NEW j \in 1..(k - 1)
                   PROVE  lines[j].depth = lines[k].depth - 1 <=> Len(printed[j].path) = Len(p) - 1
        OBVIOUS
      <4>1. /\ lines[j].depth = Len(printed[j].path) - Len(R)
            /\ lines[k].depth = Len(p) - Len(R)
            /\ Len(printed[j].path) \in Nat /\ Len(p) \in Nat /\ Len(R) \in Nat
        BY <1>4, <1>5, <3>4
      <4>2. QED
        BY <4>1
    <3>6. Up(k) \in SUBSET (1..(k - 1))
      OBVIOUS
    <3> HIDE DEF Up
    <3>7. m \in Up(k)
      BY <1>5, <3>3, <3>5
    <3>8. k - 1 \in Nat
      BY <1>1
    <3>9. Max(Up(k)) \in Up(k) /\ m <= Max(Up(k))
      BY <3>6, <3>7, <3>8, MaxOfSome
    <3>10. Max(Up(k)) \in 1..(k - 1) /\ Len(printed[Max(Up(k))].path) = Len(p) - 1
      BY <3>5, <3>6, <3>9
    <3>11. Max(Up(k)) = m
      <4> DEFINE u == Max(Up(k))
      <4> HIDE DEF u
      <4>1. u \in 1..(k - 1) /\ m <= u /\ Len(printed[u].path) = Len(p) - 1
        BY <3>9, <3>10 DEF u
      <4>2. u \notin (m + 1)..(k - 1)
        BY <3>3, <4>1
      <4>3. u = m
        BY <4>1, <4>2
      <4>4. QED
        BY <4>3 DEF u
    <3>12. QED
      BY <3>3, <3>10, <3>11
  <2>3. QED
    BY <1>5, <2>1, <2>2
<1> HIDE DEF Up
<1>7. Eq(h)
  <2>1. ASSUME NEW k \in 1..n
        PROVE  h[k] = Append(IF lines[k].depth = 1 THEN R ELSE h[Max(Up(k))], lines[k].name)
    <3>1. lines[k].depth # 1 => h[Max(Up(k))] = Dir(printed[k].path)
      <4>1. \A j \in 1..(k - 1) : j \in 1..n
        BY <1>1
      <4>2. QED
        BY <1>6, <4>1
    <3>2. lines[k].depth = 1 => R = Dir(printed[k].path)
      BY <1>6
    <3>3. h[k] = Append(Dir(printed[k].path), lines[k].name)
      BY <1>4, <1>5
    <3> HIDE DEF h
    <3>4. QED
      BY <3>1, <3>2, <3>3
  <2>2. h = [k \in 1..n |-> h[k]]
    OBVIOUS
  <2> HIDE DEF h
  <2>3. h = [k \in 1..n |-> Append(IF lines[k].depth = 1 THEN R ELSE h[Max(Up(k))], lines[k].name)]
    BY <2>1, <2>2
  <2>4. QED
    BY <1>2, <2>3
<1>8. Eq(g)
  BY <1>7, Zenon DEF g
<1>9. \A k \in 1..n : g[k] = Append(IF lines[k].depth = 1 THEN R ELSE g[Max(Up(k))], lines[k].name)
  <2> HIDE DEF g
  <2>1. QED
    BY <1>2, <1>8
<1>10. \A k \in 1..n : g[k] = printed[k].path
  <2> DEFINE T == {k \in 1..n : g[k] # printed[k].path}
  <2> SUFFICES ASSUME T # {} PROVE FALSE
    OBVIOUS
  <2>1. T \in SUBSET Nat
    OBVIOUS
  <2>2. PICK k \in T : \A m \in T : k <= m
    <3> HIDE DEF T
    <3>1. QED
      BY <2>1, SmallestNat
  <2>3. k \in 1..n
    OBVIOUS
  <2>4. CASE lines[k].depth = 1
    <3>1. g[k] = Append(Dir(printed[k].path), Base(printed[k].path))
      BY <1>4, <1>6, <1>9, <2>3, <2>4
    <3>2. QED
      BY <1>5, <2>2, <2>3, <3>1
  <2>5. CASE lines[k].depth # 1
    <3> DEFINE m == Max(Up(k))
    <3>1. m \in 1..(k - 1) /\ printed[m].path = Dir(printed[k].path)
      BY <1>6, <2>3, <2>5
    <3>2. g[k] = Append(g[m], Base(printed[k].path))
      BY <1>4, <1>9, <2>3, <2>5
    <3> HIDE DEF m
    <3>3. m \in 1..n /\ ~(k <= m)
      BY <1>1, <2>3, <3>1
    <3>4. g[m] = printed[m].path
      BY <2>2, <3>3
    <3>5. QED
      BY <1>5, <2>2, <2>3, <3>1, <3>2, <3>4
  <2>6. QED
    BY <2>4, <2>5
<1>11. QED
  BY <1>2, <1>3, <1>10 DEF n

\* The tree printed is the directory.
LEMMA TreeIsRight ==
  ASSUME input \in Inputs, TreeEntries(loaded[1].entries),
         NEW printed, Printing(Seen(loaded[1].entries), RootPath, printed, lines, << >>)
  PROVE  TreeShowsTheDirectory
<1> DEFINE S == Seen(loaded[1].entries)
           n == Len(printed)
<1>1. /\ BelowRoot(S, RootPath)
      /\ \A e \in S : Dir(e.path) = RootPath \/ \E f \in S : IsDir(f) /\ f.path = Dir(e.path)
  BY SeenIsBelow
<1>2. {e \in loaded[1].entries : InTree(loaded[1].entries, e)} = S
  BY DEF Seen
<1> HIDE DEF S
<1>3. Printing(S, RootPath, printed, lines, << >>)
  BY DEF S
<1>4. \A e \in S : \E k \in 1..n : printed[k] = e
  BY <1>1, <1>3, AllPrinted
<1>5. Len(lines) = n /\ DOMAIN lines = 1..n /\ \A k \in 1..n : Drawn[k] = printed[k].path
  BY <1>1, <1>3, DrawnIsPrinted
<1>6. /\ printed \in Seq(S) /\ n \in Nat /\ \A k \in 1..n : printed[k] \in S
      /\ \A j, k \in 1..n : printed[j] = printed[k] => j = k
      /\ printed = [k \in 1..n |-> printed[k]]
  BY <1>3 DEF Printing
<1> HIDE DEF n
<1>7. Cardinality(S) = n
  <2>1. printed \in [1..n -> S]
    BY <1>6
  <2>2. printed \in Bijection(1..n, S)
    BY <1>4, <1>6, <2>1 DEF Bijection, Injection, Surjection, IsInjective
  <2>3. ExistsBijection(1..n, S)
    BY <2>2 DEF ExistsBijection
  <2>4. QED
    BY <1>6, <2>3, FS_CountingElements
<1>8. {Drawn[k] : k \in DOMAIN lines} = {e.path : e \in S}
  BY <1>4, <1>5, <1>6
<1>9. QED
  BY <1>2, <1>5, <1>7, <1>8 DEF TreeShowsTheDirectory

\* What the specification's steps keep of a tree being printed.
TreeInv ==
  /\ \A k \in DOMAIN loaded : IsFiniteSet(loaded[k].entries)
  /\ pc = "print" => dirs = DirMap(Kept(loaded[1].entries))
  /\ pc = "print" \/ Ran("tree") =>
       \E printed : Printing(Seen(loaded[1].entries), RootPath, printed, lines, todo)
  /\ Ran("tree") => todo = << >>

\* A tree is printed from its map on.
LEMMA PrintPlaces ==
  ASSUME CommandInv, [Next]_vars, pc' = "print"
  PROVE  (pc = "print" /\ UNCHANGED commandVars) \/ MapTree \/ PrintEntry
<1>1. CASE Execute
  <2>1. FirstStep # "print"
    BY DEF FirstStep
  <2>2. QED
    BY <1>1, <2>1 DEF Execute, Start, UsageError, Render, Report
<1>2. CASE Fetching
  BY <1>2 DEF Fetching, FetchImage, BadArgument, ChooseSource, DaemonAnswers, DaemonFails,
     BadPlatform, RegistryAnswers, RegistryFails, FetchFailed, Fetched
<1>3. CASE Load
  <2>1. Works[input.name] # "print"
    BY <1>3 DEF Works, Load, Loading
  <2>2. QED
    BY <1>3, <2>1 DEF Load
<1>4. CASE NoSuchLayer \/ LoadError \/ Find
  BY <1>4 DEF NoSuchLayer, LoadError, Fail, Find
<1>5. CASE Work
  BY <1>5 DEF Work, List, PrintEnd, Compare
<1>6. CASE Reading
  <2>1. OpenFile => pc' = "done"
    BY Zenon DEF OpenFile
  <2>2. Copy => pc' = "done"
    BY Zenon DEF Copy
  <2>3. ReadFails => pc' = "failed"
    BY Zenon DEF ReadFails, Fail
  <2>4. QED
    BY <1>6, <2>1, <2>2, <2>3 DEF Reading
<1>7. CASE Handed
  BY <1>7 DEF Handed, CheckLayer, NoSuchBlob, OpenBlob, WriteTarball, TarballFails,
     PrintDocument, InspectImage, DocumentError, BadReference, ListTags, TagsFail, Fail, Hand
<1>8. CASE UNCHANGED vars
  BY <1>8 DEF vars, documentVars, commandVars
<1>9. QED
  BY <1>1, <1>2, <1>3, <1>4, <1>5, <1>6, <1>7, <1>8 DEF Next, Ended

\* Only Load adds an image.
LEMMA LoadedStays ==
  ASSUME [Next]_vars
  PROVE  loaded' = loaded \/ Load
<1>1. CASE Fetching \/ NoSuchLayer \/ LoadError \/ Find \/ Reading \/ Handed
  BY <1>1 DEF Fetching, FetchImage, BadArgument, ChooseSource, DaemonAnswers,
     DaemonFails, BadPlatform, RegistryAnswers, RegistryFails,
     NoSuchLayer, LoadError, Loading, Fail, Find, Reading, OpenFile, Copy, ReadFails, Handed,
     Handing, CheckLayer, NoSuchBlob, OpenBlob, WriteTarball, TarballFails, PrintDocument,
     InspectImage, DocumentError, BadReference, ListTags, TagsFail, context
<1>2. CASE Work
  BY <1>2 DEF Work, List, MapTree, PrintEntry, PrintEnd, Compare, context
<1>3. CASE Execute
  BY <1>3 DEF Execute, UsageError, Start, Render, Report, context
<1>4. CASE UNCHANGED vars
  BY <1>4 DEF vars, documentVars, commandVars, context
<1>5. QED
  BY <1>1, <1>2, <1>3, <1>4 DEF Next, Ended

\* The entries of images loaded stay finitely many.
LEMMA FiniteStep ==
  ASSUME IInv, input \in Inputs, [Next]_vars,
         \A k \in DOMAIN loaded : IsFiniteSet(loaded[k].entries)
  PROVE  \A k \in DOMAIN loaded' : IsFiniteSet(loaded'[k].entries)
<1>1. CASE loaded' = loaded
  BY <1>1
<1>2. CASE Load
  <2> DEFINE E == EntriesOf(Chosen)
             x == [platform |-> image.platform, manifest |-> Manifest, entries |-> E]
  <2>1. loaded' = Append(loaded, x) /\ input.layer <= Len(image.layers)
    BY <1>2 DEF Load
  <2>2. IsFiniteSet(E)
    BY <2>1, ChosenLayers, EntriesAreFinite
  <2>3. x.entries = E
    OBVIOUS
  <2>4. IsSequence(loaded)
    BY DEF IInv, LoadInv
  <2> HIDE DEF E, x
  <2>5. /\ IsSequence(Append(loaded, x)) /\ Len(Append(loaded, x)) = Len(loaded) + 1
        /\ \A k \in 1..Len(loaded) : Append(loaded, x)[k] = loaded[k]
        /\ Append(loaded, x)[Len(loaded) + 1] = x
    BY <2>4, AppendIsSequence
  <2> DEFINE n == Len(loaded)
  <2>6. n \in Nat /\ DOMAIN loaded = 1..n /\ DOMAIN loaded' = 1..(n + 1)
    BY <2>1, <2>4, <2>5, SequenceFacts
  <2> HIDE DEF n
  <2>7. \A k \in DOMAIN loaded' : k \in DOMAIN loaded \/ k = n + 1
    BY <2>6
  <2>8. (\A k \in DOMAIN loaded : loaded'[k] = loaded[k]) /\ loaded'[n + 1] = x
    BY <2>1, <2>5, <2>6 DEF n
  <2>9. QED
    BY <2>2, <2>3, <2>7, <2>8
<1>3. QED
  BY <1>1, <1>2, LoadedStays

\* The filesystem a tree is printed of.
LEMMA TreeHasEntries ==
  ASSUME IInv, input \in Inputs, input.name = "tree",
         pc \in {"map", "print"} \/ pc = "done",
         \A k \in DOMAIN loaded : IsFiniteSet(loaded[k].entries)
  PROVE  TreeEntries(loaded[1].entries)
<1>1. input.name \in DOMAIN Works
  BY DEF Works
<1>2. Len(loaded) = Len(input.refs) /\ IsSequence(loaded) /\ Len(input.refs) \in Nat \ {0}
  BY <1>1, InputFacts DEF IInv, LoadInv
<1>3. 1 \in DOMAIN loaded
  BY <1>2, SequenceFacts
<1>4. WellMerged(loaded[1].entries) /\ IsFiniteSet(loaded[1].entries)
  BY <1>3 DEF IInv, LoadInv
<1>5. QED
  BY <1>4 DEF TreeEntries, WellMerged, OnePerPath

\* What is seen, and how it is laid out, depend on the command line alone.
LEMMA SameTree ==
  ASSUME input' = input
  PROVE  /\ RootPath' = RootPath
         /\ \A E : (Seen(E))' = Seen(E) /\ (DirMap(Kept(E)))' = DirMap(Kept(E))
<1>1. RootPath' = RootPath
  BY DEF RootPath
<1>2. \A e : (Allowed(e))' = Allowed(e)
  BY DEF Allowed, Excluded
<1>3. \A E, e : (InTree(E, e))' = InTree(E, e)
  BY <1>1, <1>2 DEF InTree
<1>4. \A E : (Seen(E))' = Seen(E)
  BY <1>3 DEF Seen
<1>5. \A p : (HasRoot(p))' = HasRoot(p) /\ (Depth(p))' = Depth(p)
  BY <1>1 DEF HasRoot, Depth
<1>6. \A E : (Kept(E))' = Kept(E)
  BY <1>1, <1>2, <1>5 DEF Kept
<1>7. \A e, f : (Before(e, f))' = Before(e, f)
  BY DEF Before
<1>8. \A E : (Sorted(E))' = Sorted(E)
  <2> SUFFICES ASSUME NEW E PROVE (Sorted(E))' = Sorted(E)
    OBVIOUS
  <2> DEFINE Less(e) == {f \in E : Before(f, e)}
             At(k) == CHOOSE e \in E : Cardinality(Less(e)) = k - 1
  <2>1. \A e : (Less(e))' = Less(e)
    BY <1>7
  <2> HIDE DEF Less
  <2>2. \A k : (At(k))' = At(k)
    BY <2>1, Zenon
  <2>3. (Sorted(E))' = [k \in 1..Cardinality(E) |-> (At(k))'] /\ Sorted(E) = [k \in 1..Cardinality(E) |-> At(k)]
    BY DEF Sorted, Less
  <2> HIDE DEF At
  <2>4. QED
    BY <2>2, <2>3
<1>9. \A E : (DirMap(E))' = DirMap(E)
  BY <1>8 DEF DirMap
<1>10. \A E : (DirMap(Kept(E)))' = DirMap(Kept(E))
  BY <1>6, <1>9
<1>11. QED
  BY <1>1, <1>4, <1>10

\* TreeInv holds after every step.
LEMMA TreeStep ==
  ASSUME IInv, IInv', input \in Inputs, TreeInv, [Next]_vars
  PROVE  TreeInv'
<1> DEFINE E == loaded[1].entries
           S == Seen(E)
           R == RootPath
<1>1. input' = input /\ CommandInv
  BY InputStays DEF IInv
<1>2. /\ \A k \in DOMAIN loaded : IsFiniteSet(loaded[k].entries)
      /\ \A k \in DOMAIN loaded' : IsFiniteSet(loaded'[k].entries)
  BY FiniteStep DEF TreeInv
<1>3. ASSUME loaded' = loaded
      PROVE  /\ RootPath' = R /\ (Seen(loaded[1].entries))' = S
             /\ (DirMap(Kept(loaded[1].entries)))' = DirMap(Kept(E))
  <2>1. /\ RootPath' = RootPath
        /\ \A F : (Seen(F))' = Seen(F) /\ (DirMap(Kept(F)))' = DirMap(Kept(F))
    BY <1>1, SameTree
  <2>2. (loaded[1].entries)' = loaded[1].entries
    BY <1>3
  <2>3. QED
    BY <2>1, <2>2
<1>4. ASSUME loaded' = loaded, pc' \in {"print", "done"},
             dirs' = DirMap(Kept(E)), NEW printed, Printing(S, R, printed, lines', todo'),
             pc' = "done" => todo' = << >>
      PROVE  TreeInv'
  <2> HIDE DEF S, R, E
  <2>1. Printing((Seen(loaded[1].entries))', RootPath', printed, lines', todo')
    BY <1>3, <1>4
  <2>2. dirs' = (DirMap(Kept(loaded[1].entries)))'
    BY <1>3, <1>4
  <2>3. QED
    BY <1>2, <1>4, <2>1, <2>2 DEF TreeInv, Ran
<1>5. CASE pc' = "print"
  <2>1. CASE pc = "print" /\ UNCHANGED commandVars
    <3>1. UNCHANGED <<loaded, dirs, lines, todo>>
      BY <2>1 DEF commandVars, context, printing
    <3>2. PICK printed : Printing(S, R, printed, lines, todo)
      BY <2>1 DEF TreeInv
    <3>3. dirs = DirMap(Kept(E))
      BY <2>1 DEF TreeInv
    <3> HIDE DEF S, R, E
    <3>4. QED
      BY <1>4, <1>5, <3>1, <3>2, <3>3
  <2>2. CASE MapTree
    <3>1. /\ pc = "map" /\ loaded' = loaded /\ lines' = lines /\ dirs' = DirMap(Kept(E))
          /\ todo' = Children(DirMap(Kept(E)), R, 0)
      BY <2>2 DEF MapTree
    <3>2. input.name = "tree" /\ lines = << >>
      BY <1>1, <3>1 DEF CommandInv, IInv, TypeOK
    <3>3. TreeEntries(E)
      BY <1>2, <3>1, <3>2, TreeHasEntries
    <3>4. Len(R) - Len(R) = 0
      BY RootIsRaw
    <3> HIDE DEF E
    <3>5. ListsDir(S, R, R, Children(DirMap(Kept(E)), R, Len(R) - Len(R)))
      BY <3>3, ChildrenAre
    <3>6. ListsDir(S, R, R, todo')
      BY <3>1, <3>4, <3>5
    <3>7. BelowRoot(S, R)
      BY <3>3, SeenIsBelow
    <3> HIDE DEF S, R
    <3>8. Printing(S, R, << >>, lines', todo')
      BY <3>1, <3>2, <3>6, <3>7, PrintingStarts
    <3>9. QED
      BY <1>4, <1>5, <3>1, <3>8
  <2>3. CASE PrintEntry
    <3> DEFINE x == Head(todo)
               e == x.entry
               list == IF IsDir(e) THEN Children(dirs, e.path, x.depth) ELSE << >>
    <3>1. /\ pc = "print" /\ todo # << >> /\ loaded' = loaded /\ dirs' = dirs
          /\ lines' = Append(lines, [depth |-> x.depth, name |-> Base(e.path)])
          /\ todo' = list \o Tail(todo)
      BY <2>3 DEF PrintEntry, context, printing
    <3>2. PICK printed : Printing(S, R, printed, lines, todo)
      BY <3>1 DEF TreeInv
    <3>3. dirs = DirMap(Kept(E))
      BY <3>1 DEF TreeInv
    <3>4. TreeEntries(E)
      BY <1>1, <1>2, <3>1, TreeHasEntries DEF CommandInv
    <3>5. BelowRoot(S, R)
      BY <3>4, SeenIsBelow
    <3>6. e \in S /\ x = Item(R, e)
      <4> HIDE DEF S, R, E
      <4>1. todo \in Seq({Item(R, f) : f \in S})
        BY <3>2 DEF Printing
      <4>2. Head(todo) \in {Item(R, f) : f \in S}
        BY <3>1, <4>1, HeadTailProperties
      <4>3. PICK f \in S : x = Item(R, f)
        BY <4>2
      <4> HIDE DEF x
      <4>4. x.entry = f
        BY <4>3 DEF Item
      <4>5. QED
        BY <4>3, <4>4
    <3>7. x.depth = Len(e.path) - Len(R)
      BY <3>6 DEF Item
    <3> HIDE DEF E
    <3>8. IF IsDir(e) THEN ListsDir(S, R, e.path, list) ELSE list = << >>
      <4>1. CASE IsDir(e)
        <5>1. ListsDir(S, R, e.path, Children(DirMap(Kept(E)), e.path, Len(e.path) - Len(R)))
          BY <3>4, <3>6, <4>1, ChildrenAre
        <5>2. list = Children(DirMap(Kept(E)), e.path, Len(e.path) - Len(R))
          BY <3>3, <3>7, <4>1
        <5>3. QED
          BY <4>1, <5>1, <5>2
      <4>2. CASE ~IsDir(e)
        BY <4>2
      <4>3. QED
        BY <4>1, <4>2
    <3> HIDE DEF list, S, R
    <3>9. Printing(S, R, Append(printed, e), Append(lines, Line(R, e)), list \o Tail(todo))
      BY <3>1, <3>2, <3>5, <3>8, PrintingGoesOn
    <3>10. lines' = Append(lines, Line(R, e))
      BY <3>1, <3>7 DEF Line
    <3>11. Printing(S, R, Append(printed, e), lines', todo')
      BY <3>1, <3>9, <3>10
    <3>12. QED
      BY <1>4, <1>5, <3>1, <3>3, <3>11
  <2>4. QED
    BY <1>1, <1>5, <2>1, <2>2, <2>3, PrintPlaces
<1>6. CASE pc' = "done" /\ input.name = "tree"
  <2>1. input.name \in DOMAIN Works
    BY <1>6 DEF Works
  <2>2. CASE pc = "done" /\ UNCHANGED <<commandVars, data>>
    <3>1. UNCHANGED <<loaded, lines, todo>> /\ Ran("tree") /\ todo = << >>
      BY <1>6, <2>2 DEF commandVars, context, printing, TreeInv, Ran
    <3>2. PICK printed : Printing(S, R, printed, lines, todo)
      BY <3>1 DEF TreeInv
    <3> HIDE DEF S, R, E
    <3>3. Printing((Seen(loaded[1].entries))', RootPath', printed, lines', todo')
      BY <1>3, <3>1, <3>2
    <3>4. QED
      BY <1>2, <1>6, <3>1, <3>3 DEF TreeInv, Ran
  <2>3. CASE PrintEnd
    <3>1. pc = "print" /\ todo = << >> /\ UNCHANGED <<loaded, dirs, lines, todo>>
      BY <2>3 DEF PrintEnd, context, printing
    <3>2. PICK printed : Printing(S, R, printed, lines, todo)
      BY <3>1 DEF TreeInv
    <3>3. dirs = DirMap(Kept(E))
      BY <3>1 DEF TreeInv
    <3> HIDE DEF S, R, E
    <3>4. QED
      BY <1>4, <1>6, <3>1, <3>2, <3>3
  <2>4. QED
    BY <1>1, <1>6, <2>1, <2>2, <2>3, DonePlaces
<1>7. CASE pc' # "print" /\ ~(pc' = "done" /\ input.name = "tree")
  BY <1>1, <1>2, <1>7 DEF TreeInv, Ran
<1>8. QED
  BY <1>5, <1>6, <1>7

\* A tree read off its lines is the directory asked for: every entry that can be
\* seen, each once, below its own directory, and nothing else (MapTree and
\* PrintEntry, for printTreeSimple and printTreeDir of command/tree.go).
THEOREM TreeIsTheDirectory == Spec => []TreeShowsTheDirectory
<1>1. Init => TreeInv
  BY DEF Init, TreeInv, Ran
<1>2. IInv /\ input \in Inputs /\ TreeInv => TreeShowsTheDirectory
  <2> SUFFICES ASSUME IInv, input \in Inputs, TreeInv, Ran("tree")
               PROVE  TreeShowsTheDirectory
    BY DEF TreeShowsTheDirectory
  <2>1. TreeEntries(loaded[1].entries)
    BY TreeHasEntries DEF TreeInv, Ran
  <2>2. PICK printed : Printing(Seen(loaded[1].entries), RootPath, printed, lines, << >>)
    BY DEF TreeInv
  <2>3. QED
    BY <2>1, <2>2, TreeIsRight
<1>3. Spec => [](IInv /\ input \in Inputs)
  BY ProgramKeeps
<1>4. (IInv /\ input \in Inputs) /\ (IInv /\ input \in Inputs)' /\ TreeInv /\ [Next]_vars => TreeInv'
  BY TreeStep
<1>5. QED
  BY <1>1, <1>2, <1>3, <1>4, PTL DEF Spec

-----------------------------------------------------------------------------
\* diff: what its two views say.

\* The marker of a line or a row is read as its status.
ReadMarker(marker) ==
  CASE marker = "+" -> "added" [] marker = "-" -> "removed"
    [] marker = "~" -> "modified" [] marker = "=" -> "shared"

LEMMA MarkersRead ==
  \A s \in {"added", "removed", "modified", "shared"} : ReadMarker(Marker(s)) = s
BY DEF ReadMarker, Marker

\* There is one difference for a path at most, told as one of three kinds.
LEMMA FilesAreTold ==
  ASSUME NEW as, NEW bs
  PROVE  LET D == DiffFiles(as, bs) IN
         /\ OnePerPath(D) /\ \A d \in D : d.status \in {"added", "removed", "modified"}
         /\ {d.path : d \in D} \subseteq {e.path : e \in as} \cup {e.path : e \in bs}
<1> DEFINE D == DiffFiles(as, bs)
           At(entries, p) == {e \in entries : e.path = p}
           Paths(entries) == {e.path : e \in entries}
           Modified(p) == \E a \in At(as, p), b \in At(bs, p) :
                            ~(IsDir(a) /\ IsDir(b)) /\ FileChanged(a, b)
           Only(some, others) == {e.path : e \in {f \in some : ~IsDir(f)}} \ Paths(others)
           both == {q \in Paths(as) \cap Paths(bs) : Modified(q)}
           inBoth(p) == Difference("modified", p, At(as, p), At(bs, p))
           inFirst(p) == Difference("removed", p, At(as, p), {})
           inSecond(p) == Difference("added", p, {}, At(bs, p))
           gone == Only(as, bs)
           new == Only(bs, as)
<1>1. D = {inBoth(p) : p \in both} \cup {inFirst(p) : p \in gone} \cup {inSecond(p) : p \in new}
  BY DEF DiffFiles
<1>2. \A p : /\ inBoth(p).path = p /\ inBoth(p).status = "modified"
             /\ inFirst(p).path = p /\ inFirst(p).status = "removed"
             /\ inSecond(p).path = p /\ inSecond(p).status = "added"
  BY DEF Difference
<1>3. /\ both \subseteq Paths(as) \cap Paths(bs)
      /\ gone \subseteq Paths(as) \ Paths(bs) /\ new \subseteq Paths(bs) \ Paths(as)
  OBVIOUS
<1> HIDE DEF D, At, Paths, both, gone, new, inBoth, inFirst, inSecond
<1>4. \A d \in D : \/ d.path \in both /\ d = inBoth(d.path)
                   \/ d.path \in gone /\ d = inFirst(d.path)
                   \/ d.path \in new /\ d = inSecond(d.path)
  <2> TAKE d \in D
  <2>1. CASE \E p \in both : d = inBoth(p)
    BY <1>2, <2>1
  <2>2. CASE \E p \in gone : d = inFirst(p)
    BY <1>2, <2>2
  <2>3. CASE \E p \in new : d = inSecond(p)
    BY <1>2, <2>3
  <2>4. QED
    BY <1>1, <2>1, <2>2, <2>3
<1>5. \A d, e \in D : d.path = e.path => d = e
  BY <1>3, <1>4
<1>6. \A d \in D : d.status \in {"added", "removed", "modified"}
  BY <1>2, <1>4
<1>7. \A d \in D : d.path \in Paths(as) \cup Paths(bs)
  BY <1>3, <1>4
<1>8. QED
  BY <1>5, <1>6, <1>7 DEF OnePerPath, D, Paths

\* The paths of finitely many things are finitely many, and a set of things that
\* are told apart by them is as large as the set of its paths.
LEMMA FinitePaths == ASSUME NEW S, IsFiniteSet(S) PROVE IsFiniteSet({e.path : e \in S})
<1> DEFINE T == {e.path : e \in S}
           f == [e \in S |-> e.path]
<1>1. f \in Surjection(S, T)
  BY DEF Surjection
<1> HIDE DEF f, T
<1>2. IsFiniteSet(T)
  BY <1>1, FS_Surjection
<1>3. QED
  BY <1>2 DEF T

LEMMA FiniteByPaths ==
  ASSUME NEW D, OnePerPath(D), NEW P, IsFiniteSet(P), {d.path : d \in D} \subseteq P
  PROVE  IsFiniteSet(D)
<1> DEFINE f == [d \in D |-> d.path]
<1>1. f \in Injection(D, P)
  BY DEF Injection, IsInjective, OnePerPath
<1> HIDE DEF f
<1>2. QED
  BY <1>1, FS_Injection

\* The summary counts every difference once.
LEMMA SummaryCounts ==
  ASSUME NEW D, IsFiniteSet(D), \A d \in D : d.status \in {"added", "removed", "modified"}
  PROVE  Summary(D)["added"] + Summary(D)["removed"] + Summary(D)["modified"] = Cardinality(D)
<1> DEFINE Of(s) == {d \in D : d.status = s}
           A == Of("added")
           R == Of("removed")
           M == Of("modified")
<1>1. /\ Summary(D)["added"] = Cardinality(A) /\ Summary(D)["removed"] = Cardinality(R)
      /\ Summary(D)["modified"] = Cardinality(M)
  BY DEF Summary
<1>2. D = (A \cup R) \cup M /\ A \cap R = {} /\ (A \cup R) \cap M = {}
  OBVIOUS
<1>3. A \in SUBSET D /\ R \in SUBSET D /\ M \in SUBSET D
  OBVIOUS
<1> HIDE DEF A, R, M
<1>4. IsFiniteSet(A) /\ IsFiniteSet(R) /\ IsFiniteSet(M)
  BY <1>3, FS_Subset
<1>5. /\ IsFiniteSet(A \cup R)
      /\ Cardinality(A \cup R) = Cardinality(A) + Cardinality(R) - Cardinality(A \cap R)
  BY <1>4, FS_Union
<1>6. Cardinality((A \cup R) \cup M)
        = Cardinality(A \cup R) + Cardinality(M) - Cardinality((A \cup R) \cap M)
  BY <1>4, <1>5, FS_Union
<1>7. /\ Cardinality(A) \in Nat /\ Cardinality(R) \in Nat /\ Cardinality(M) \in Nat
      /\ Cardinality({}) = 0
  BY <1>4, FS_CardinalityType, FS_EmptySet
<1>8. Cardinality(D) = Cardinality(A) + Cardinality(R) + Cardinality(M)
  <2> DEFINE a == Cardinality(A)
             r == Cardinality(R)
             m == Cardinality(M)
  <2>1. Cardinality(A \cup R) = a + r - 0
    BY <1>2, <1>5, <1>7
  <2>2. Cardinality(D) = Cardinality(A \cup R) + m - 0
    BY <1>2, <1>6, <1>7
  <2>3. a \in Nat /\ r \in Nat /\ m \in Nat
    BY <1>7
  <2> HIDE DEF a, r, m
  <2>4. Cardinality(D) = a + r + m
    BY <2>1, <2>2, <2>3
  <2>5. QED
    BY <2>4 DEF a, r, m
<1>9. QED
  BY <1>1, <1>8

\* A row of the table of files.
FileRow(f) == [marker |-> Marker(f.status), path |-> f.path, detail |-> FileDetail(f)]
FileRows(files) == {FileRow(f) : f \in files}

\* The table has one row for a file.
LEMMA RowsCount ==
  ASSUME NEW D, IsFiniteSet(D), OnePerPath(D)
  PROVE  Cardinality(FileRows(D)) = Cardinality(D)
<1> DEFINE f == [d \in D |-> FileRow(d)]
           T == FileRows(D)
<1>1. \A d \in D : f[d] \in T /\ f[d].path = d.path
  BY DEF FileRow, FileRows
<1>2. f \in [D -> T] /\ \A t \in T : \E d \in D : f[d] = t
  BY DEF FileRows
<1> HIDE DEF f, T
<1>3. f \in Surjection(D, T)
  BY <1>2 DEF Surjection
<1>4. f \in Injection(D, T)
  BY <1>1, <1>2 DEF Injection, IsInjective, OnePerPath
<1>5. ExistsBijection(D, T)
  BY <1>3, <1>4 DEF ExistsBijection, Bijection
<1>6. QED
  BY <1>5, FS_Bijection DEF T

\* The aspects shown of a file that was modified are those that differ.
LEMMA AspectsShown ==
  ASSUME NEW f, f.status = "modified"
  PROVE  LET a == The(f.a)
             b == The(f.b)
             Shown(aspect) == [aspect |-> aspect] \in FileRow(f).detail
         IN  /\ Shown("mode") <=> a.type # b.type \/ a.mode # b.mode
             /\ Shown("link") <=> a.link # b.link
             /\ Shown("size") <=> a.content # b.content
<1> DEFINE a == The(f.a)
           b == The(f.b)
           Aspect(name, x, y) == IF x = y THEN {} ELSE {[aspect |-> name]}
<1>1. FileRow(f).detail = Aspect("mode", <<a.type, a.mode>>, <<b.type, b.mode>>)
                            \cup Aspect("link", a.link, b.link)
                            \cup Aspect("size", a.content, b.content)
  BY DEF FileRow, FileDetail
<1>2. <<a.type, a.mode>> # <<b.type, b.mode>> <=> a.type # b.type \/ a.mode # b.mode
  OBVIOUS
<1>3. /\ [aspect |-> "mode"] # [aspect |-> "link"] /\ [aspect |-> "mode"] # [aspect |-> "size"]
      /\ [aspect |-> "link"] # [aspect |-> "size"]
  <2>1. \A x, y : x # y => [aspect |-> x] # [aspect |-> y]
    <3> SUFFICES ASSUME NEW x, NEW y, [aspect |-> x] = [aspect |-> y] PROVE x = y
      OBVIOUS
    <3>1. [aspect |-> x].aspect = x /\ [aspect |-> y].aspect = y
      OBVIOUS
    <3>2. QED
      BY <3>1
  <2>2. QED
    BY <2>1
<1> DEFINE mode == [aspect |-> "mode"]
           link == [aspect |-> "link"]
           size == [aspect |-> "size"]
           types == <<a.type, a.mode>> # <<b.type, b.mode>>
           detail == FileRow(f).detail
<1>4. detail = (IF types THEN {mode} ELSE {}) \cup (IF a.link = b.link THEN {} ELSE {link})
                 \cup (IF a.content = b.content THEN {} ELSE {size})
  BY <1>1
<1>5. mode # link /\ mode # size /\ link # size
  BY <1>3
<1>6. types <=> a.type # b.type \/ a.mode # b.mode
  BY <1>2
<1> HIDE DEF mode, link, size, types, detail, a, b
<1>7. /\ mode \in detail <=> a.type # b.type \/ a.mode # b.mode
      /\ link \in detail <=> a.link # b.link
      /\ size \in detail <=> a.content # b.content
  BY <1>4, <1>5, <1>6
<1>8. QED
  BY <1>7 DEF mode, link, size, detail, a, b

\* Where what the table of layers, that of files and the summary are written.
LEMMA DiffWrites ==
  ASSUME NEW layers, NEW files
  PROVE  LET human == DiffHuman(layers, files) IN
         /\ human[2].text = [k \in DOMAIN layers |-> [marker |-> Marker(layers[k].status),
                                                      digest |-> layers[k].digest]]
         /\ IF files = {} THEN Len(human) = 4
            ELSE /\ Len(human) = 6 /\ human[5].text = FileRows(files)
                 /\ human[6].text = Summary(files)
<1> DEFINE table == [k \in DOMAIN layers |-> [marker |-> Marker(layers[k].status),
                                             digest |-> layers[k].digest]]
           title == Printf("Layers:")
           first == Flush(table)
           space == Printf("")
           none == Printf("Files: no changes")
           name == Printf("Files:")
           rows == Flush(FileRows(files))
           sum == Printf(Summary(files))
           head == <<title, first, space>>
           rest == IF files = {} THEN <<none>> ELSE <<name, rows, sum>>
           human == DiffHuman(layers, files)
<1>1. human = head \o rest
  BY DEF DiffHuman, FileRows, FileRow
<1>2. /\ first.text = table /\ rows.text = FileRows(files) /\ sum.text = Summary(files)
  BY DEF Printf, Flush, Write
<1> HIDE DEF first, title, space, none, name, rows, sum, table, human
<1>3. IsSequence(head) /\ IsSequence(rest)
  BY TuplesAreSequences
<1>4. /\ Len(head) = 3 /\ head[2] = first
      /\ files = {} => Len(rest) = 1
      /\ files # {} => Len(rest) = 3 /\ rest[2] = rows /\ rest[3] = sum
  OBVIOUS
<1> HIDE DEF head, rest
<1>5. /\ Len(human) = Len(head) + Len(rest)
      /\ \A k \in 1..Len(head) : human[k] = head[k]
      /\ \A k \in 1..Len(rest) : human[Len(head) + k] = rest[k]
  BY <1>1, <1>3, ConcatIsSequence
<1>6. human[2] = first
  BY <1>4, <1>5
<1>7. files = {} => Len(human) = 4
  <2> SUFFICES ASSUME files = {} PROVE Len(human) = 4
    OBVIOUS
  <2>1. Len(head) = 3 /\ Len(rest) = 1
    BY <1>4
  <2>2. QED
    BY <1>5, <2>1
<1>8. files # {} => Len(human) = 6 /\ human[3 + 2] = rows /\ human[3 + 3] = sum
  <2> SUFFICES ASSUME files # {} PROVE Len(human) = 6 /\ human[3 + 2] = rows /\ human[3 + 3] = sum
    OBVIOUS
  <2>1. Len(head) = 3 /\ Len(rest) = 3 /\ rest[2] = rows /\ rest[3] = sum
    BY <1>4
  <2>2. 2 \in 1..3 /\ 3 \in 1..3
    OBVIOUS
  <2>3. QED
    BY <1>5, <2>1, <2>2
<1>9. 3 + 2 = 5 /\ 3 + 3 = 6
  OBVIOUS
<1>10. QED
  BY <1>2, <1>6, <1>7, <1>8, <1>9 DEF human, table

\* A line tells a layer by its digest, as one of three kinds.
TellsLayer(l) ==
  \E s \in {"shared", "removed", "added"} : \E d : l = [status |-> s, digest |-> d]

LEMMA LinesTell ==
  ASSUME NEW a, IsSequence(a), NEW b, IsSequence(b)
  PROVE  /\ IsSequence(DiffLayers(a, b))
         /\ \A k \in DOMAIN DiffLayers(a, b) : TellsLayer(DiffLayers(a, b)[k])
<1> DEFINE ls == DiffLayers(a, b)
<1>1. PICK told, new :
        /\ IsSequence(told) /\ IsSequence(new) /\ ls = told \o new
        /\ DOMAIN told = DOMAIN a
        /\ \A k \in DOMAIN a :
             told[k] = [status |-> IF a[k] \in ToSet(b) THEN "shared" ELSE "removed",
                        digest |-> a[k]]
        /\ ToSet(new) = {[status |-> "added", digest |-> d] : d \in ToSet(b) \ ToSet(a)}
  BY LinesAre
<1>2. \A k \in DOMAIN told : TellsLayer(told[k])
  BY <1>1 DEF TellsLayer
<1>3. \A k \in DOMAIN new : TellsLayer(new[k])
  <2>1. \A k \in DOMAIN new : new[k] \in ToSet(new)
    BY DEF ToSet
  <2>2. QED
    BY <1>1, <2>1 DEF TellsLayer
<1> HIDE DEF ls
<1>4. /\ IsSequence(ls) /\ Len(ls) = Len(told) + Len(new)
      /\ \A k \in 1..Len(told) : ls[k] = told[k]
      /\ \A k \in 1..Len(new) : ls[Len(told) + k] = new[k]
  BY <1>1, ConcatIsSequence
<1> DEFINE m == Len(told)
           n == Len(new)
<1>5. m \in Nat /\ n \in Nat /\ DOMAIN told = 1..m /\ DOMAIN new = 1..n /\ DOMAIN ls = 1..(m + n)
  BY <1>1, <1>4, SequenceFacts
<1> HIDE DEF m, n
<1>6. ASSUME NEW k \in 1..(m + n) PROVE TellsLayer(ls[k])
  <2>1. CASE k \in 1..m
    BY <1>2, <1>4, <1>5, <2>1 DEF m
  <2>2. CASE k - m \in 1..n
    <3>1. m + (k - m) = k
      BY <1>5
    <3>2. ls[m + (k - m)] = new[k - m]
      BY <1>4, <2>2 DEF m, n
    <3>3. QED
      BY <1>3, <1>5, <2>2, <3>1, <3>2
  <2>3. QED
    BY <1>5, <2>1, <2>2
<1>7. QED
  BY <1>4, <1>5, <1>6 DEF ls

\* The table of layers is read as the layers.
LEMMA LayersRead ==
  ASSUME NEW ls, IsSequence(ls), \A k \in DOMAIN ls : TellsLayer(ls[k])
  PROVE  LET table == [k \in DOMAIN ls |-> [marker |-> Marker(ls[k].status),
                                            digest |-> ls[k].digest]]
         IN  [k \in DOMAIN table |-> [status |-> ReadMarker(table[k].marker),
                                      digest |-> table[k].digest]] = ls
<1> DEFINE table == [k \in DOMAIN ls |-> [marker |-> Marker(ls[k].status),
                                          digest |-> ls[k].digest]]
           read == [k \in DOMAIN table |-> [status |-> ReadMarker(table[k].marker),
                                            digest |-> table[k].digest]]
<1>1. ls = [k \in DOMAIN ls |-> ls[k]]
  BY DEF IsSequence
<1>2. DOMAIN table = DOMAIN ls /\ \A k \in DOMAIN ls : /\ table[k].marker = Marker(ls[k].status)
                                                       /\ table[k].digest = ls[k].digest
  OBVIOUS
<1> HIDE DEF table
<1>3. ASSUME NEW k \in DOMAIN ls
      PROVE  [status |-> ReadMarker(table[k].marker), digest |-> table[k].digest] = ls[k]
  <2>0. PICK s \in {"shared", "removed", "added"} :
          \E d : ls[k] = [status |-> s, digest |-> d]
    BY DEF TellsLayer
  <2>1. PICK d : ls[k] = [status |-> s, digest |-> d]
    BY <2>0
  <2>2. ls[k].status = s /\ ls[k].digest = d
    BY <2>1
  <2>3. ReadMarker(Marker(s)) = s
    BY MarkersRead
  <2>4. QED
    BY <1>2, <2>1, <2>2, <2>3
<1>4. read = [k \in DOMAIN ls |-> ls[k]]
  BY <1>2, <1>3
<1>5. QED
  BY <1>1, <1>4 DEF table

\* What the two views of a diff say is the same, whatever is compared.
LEMMA DiffReads ==
  ASSUME NEW a, IsSequence(a), NEW b, IsSequence(b),
         NEW as, IsFiniteSet(as), NEW bs, IsFiniteSet(bs)
  PROVE  DiffAgrees(DiffLayers(a, b), DiffFiles(as, bs))
<1> DEFINE layers == DiffLayers(a, b)
           files == DiffFiles(as, bs)
           human == DiffHuman(layers, files)
           doc   == DiffJson(layers, files)[1].text
           rows  == IF Len(human) = 4 THEN {} ELSE human[5].text
           Read(marker) == CASE marker = "+" -> "added" [] marker = "-" -> "removed"
                             [] marker = "~" -> "modified" [] marker = "=" -> "shared"
           Shown(r, aspect) == [aspect |-> aspect] \in r.detail
           As(r, f) == LET x == The(f.a)
                           y == The(f.b)
                       IN  /\ Shown(r, "mode") <=> x.type # y.type \/ x.mode # y.mode
                           /\ Shown(r, "link") <=> x.link # y.link
                           /\ Shown(r, "size") <=> x.content # y.content
           table == human[2].text
           sum == doc.summary
<1>1. doc.layers = layers /\ doc.files = files /\ sum = Summary(files)
  BY DEF DiffJson, Encode, Write
<1>2. \A marker : Read(marker) = ReadMarker(marker)
  BY DEF ReadMarker
<1>3. /\ table = [k \in DOMAIN layers |-> [marker |-> Marker(layers[k].status),
                                           digest |-> layers[k].digest]]
      /\ IF files = {} THEN Len(human) = 4
         ELSE Len(human) = 6 /\ human[5].text = FileRows(files) /\ human[6].text = Summary(files)
  BY DiffWrites
<1>4. /\ OnePerPath(files) /\ \A f \in files : f.status \in {"added", "removed", "modified"}
      /\ {f.path : f \in files} \subseteq {e.path : e \in as} \cup {e.path : e \in bs}
  BY FilesAreTold
<1>5. IsFiniteSet(files)
  <2> DEFINE P == {e.path : e \in as}
             Q == {e.path : e \in bs}
  <2>1. IsFiniteSet(P) /\ IsFiniteSet(Q)
    BY FinitePaths
  <2>2. {f.path : f \in files} \subseteq P \cup Q
    BY <1>4
  <2> HIDE DEF P, Q, files
  <2>3. IsFiniteSet(P \cup Q)
    BY <2>1, FS_Union
  <2>4. QED
    BY <1>4, <2>2, <2>3, FiniteByPaths
<1>6. IsSequence(layers) /\ \A k \in DOMAIN layers : TellsLayer(layers[k])
  BY LinesTell
<1> HIDE DEF layers, files
<1>7. rows = FileRows(files)
  <2>1. CASE files = {}
    BY <1>3, <2>1 DEF FileRows
  <2>2. CASE files # {}
    <3>1. Len(human) = 6 /\ human[5].text = FileRows(files)
      BY <1>3, <2>2
    <3> HIDE DEF human
    <3>2. QED
      BY <3>1
  <2>3. QED
    BY <2>1, <2>2
<1> HIDE DEF human, doc, Read
<1>8. [k \in DOMAIN table |-> [status |-> Read(table[k].marker),
                               digest |-> table[k].digest]] = doc.layers
  <2>1. [k \in DOMAIN table |-> [status |-> ReadMarker(table[k].marker),
                                 digest |-> table[k].digest]] = layers
    BY <1>3, <1>6, LayersRead
  <2>2. QED
    BY <1>1, <1>2, <2>1
<1>9. {<<r.path, Read(r.marker)>> : r \in rows} = {<<f.path, f.status>> : f \in doc.files}
  <2>1. \A f \in files : FileRow(f).path = f.path /\ Read(FileRow(f).marker) = f.status
    BY <1>2, <1>4, MarkersRead DEF FileRow
  <2> HIDE DEF rows
  <2>2. {<<r.path, Read(r.marker)>> : r \in FileRows(files)} = {<<f.path, f.status>> : f \in files}
    BY <2>1 DEF FileRows
  <2>3. QED
    BY <1>1, <1>7, <2>2
<1>10. \A r \in rows : \A f \in doc.files : f.path = r.path /\ f.status = "modified" => As(r, f)
  <2> SUFFICES ASSUME NEW r \in rows, NEW f \in files, f.path = r.path, f.status = "modified"
               PROVE  As(r, f)
    BY <1>1
  <2>1. r \in FileRows(files)
    BY <1>7
  <2>2. PICK g \in files : r = FileRow(g)
    BY <2>1 DEF FileRows
  <2>3. r.path = g.path
    BY <2>2 DEF FileRow
  <2>4. g = f
    BY <1>4, <2>3 DEF OnePerPath
  <2>5. QED
    BY <2>2, <2>4, AspectsShown
<1>11. rows # {} => human[6].text = sum
  <2>1. rows # {} => files # {}
    BY <1>7 DEF FileRows
  <2>2. QED
    BY <1>1, <1>3, <2>1
<1>12. sum["added"] + sum["removed"] + sum["modified"] = Cardinality(rows)
  <2>1. Summary(files)["added"] + Summary(files)["removed"] + Summary(files)["modified"]
          = Cardinality(files)
    BY <1>4, <1>5, SummaryCounts
  <2>2. Cardinality(FileRows(files)) = Cardinality(files)
    BY <1>4, <1>5, RowsCount
  <2> HIDE DEF rows, sum
  <2>3. QED
    BY <1>1, <1>7, <2>1, <2>2
<1> HIDE DEF rows, table, sum, As
<1>13. /\ [k \in DOMAIN table |-> [status |-> Read(table[k].marker),
                                   digest |-> table[k].digest]] = doc.layers
       /\ {<<r.path, Read(r.marker)>> : r \in rows} = {<<f.path, f.status>> : f \in doc.files}
       /\ \A r \in rows : \A f \in doc.files : f.path = r.path /\ f.status = "modified" => As(r, f)
       /\ rows # {} => human[6].text = sum
       /\ sum["added"] + sum["removed"] + sum["modified"] = Cardinality(rows)
  BY <1>8, <1>9, <1>10, <1>11, <1>12
<1>14. DiffAgrees(layers, files)
  BY <1>13 DEF DiffAgrees, human, doc, rows, Read, As, table, sum
<1>15. QED
  BY <1>14 DEF layers, files

\* What a diff compares are two lists of layers and two filesystems.
LEMMA DiffData ==
  ASSUME IInv, input \in Inputs, Ran("diff"),
         \A k \in DOMAIN loaded : IsFiniteSet(loaded[k].entries), NEW k \in {1, 2}
  PROVE  IsSequence(loaded[k].manifest) /\ IsFiniteSet(ScopedEntries(loaded[k].entries))
<1>1. IsSequence(loaded[k].manifest) /\ IsFiniteSet(loaded[k].entries)
  BY BothLoaded DEF IInv, LoadInv
<1>2. ScopedEntries(loaded[k].entries) \in SUBSET loaded[k].entries
  BY DEF ScopedEntries, Under
<1>3. QED
  BY <1>1, <1>2, FS_Subset

\* What the human view and the JSON view say of the data of ls, diff, tags and
\* cp, and of the layers inspect shows, is the same (package view).
THEOREM ViewsAgree == Spec => []HumanAndJsonAgree
<1> DEFINE Finite == \A k \in DOMAIN loaded : IsFiniteSet(loaded[k].entries)
           ViewInv == DiffInv /\ LayersInv /\ InspectInv /\ Finite
<1>1. Init => ViewInv
  BY DEF Init, DiffInv, LayersInv, InspectInv, Ran
<1>2. IInv /\ input \in Inputs /\ ViewInv /\ [Next]_vars => ViewInv'
  BY DiffStep, LayersStep, InspectStep, FiniteStep DEF IInv
<1>3. IInv /\ input \in Inputs /\ ViewInv => HumanAndJsonAgree
  <2> SUFFICES ASSUME IInv, input \in Inputs, DiffInv, LayersInv, InspectInv, Finite
               PROVE  HumanAndJsonAgree
    OBVIOUS
  <2>1. Ran("ls") => LsAgrees({FileInfo(e) : e \in out}, input.path, input.pattern)
    BY LsReads
  <2>2. Ran("diff") => DiffAgrees(lines, out)
    <3> SUFFICES ASSUME Ran("diff") PROVE DiffAgrees(lines, out)
      OBVIOUS
    <3>1. /\ lines = DiffLayers(loaded[1].manifest, loaded[2].manifest)
          /\ out = DiffFiles(ScopedEntries(loaded[1].entries), ScopedEntries(loaded[2].entries))
      BY DEF LayersInv, DiffInv
    <3>2. /\ IsSequence(loaded[1].manifest) /\ IsSequence(loaded[2].manifest)
          /\ IsFiniteSet(ScopedEntries(loaded[1].entries))
          /\ IsFiniteSet(ScopedEntries(loaded[2].entries))
      BY DiffData
    <3>3. QED
      BY <3>1, <3>2, DiffReads
  <2>3. Ran("tags") =>
          LET doc == TagsJson(data.tags)[1].text
              Texts(writes) == [k \in DOMAIN writes |-> writes[k].text]
          IN  Texts(TagsHuman(data.tags)) = IF doc.tags = << >> THEN <<doc.message>> ELSE doc.tags
    <3>1. Ran("tags") => IsSequence(data.tags)
      BY DEF IInv, DataInv, Ran
    <3>2. QED
      BY <3>1, TagsRead
  <2>4. LET human == CpHuman(data)
            doc   == CpJson(data)[1].text
        IN  human[1].text.files = doc.files /\ (doc.skipped > 0 <=> Len(human) = 3)
    BY CpReads
  <2>5. Ran("inspect") =>
          LET human == InspectHuman(data)
              doc   == InspectJson(data)[1].text
              Rows(write) == IF write.call = "Flush" THEN ToSet(write.text) ELSE {}
              rows  == UNION {Rows(human[k]) : k \in DOMAIN human}
          IN  \A k \in DOMAIN doc.layers :
                /\ [index |-> k, digest |-> doc.layers[k].digest] \in rows
                /\ \A j \in DOMAIN doc.layers[k].annotations :
                     \E row \in rows : /\ row.index = k /\ "value" \in DOMAIN row
                                       /\ row.value = Truncate(doc.layers[k].annotations[j])
    <3>1. Ran("inspect") =>
            /\ IsSequence(data.layers)
            /\ \A k \in DOMAIN data.layers : /\ data.layers[k].index = k
                                             /\ IsSequence(data.layers[k].annotations)
      BY InspectData DEF IInv
    <3>2. QED
      BY <3>1, InspectReads
  <2>6. QED
    BY <2>1, <2>2, <2>3, <2>4, <2>5 DEF HumanAndJsonAgree
<1>4. QED
  BY <1>1, <1>2, <1>3, ProgramKeeps, PTL DEF Spec
=============================================================================
