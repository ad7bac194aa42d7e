----------------------------- MODULE Commands -----------------------------
(***************************************************************************)
(* ls, tree and diff (RunLs, RunTree, RunDiff in internal/command): fetch  *)
(* an image, or two, merge its layers, then list, draw or compare the      *)
(* filesystem.  Module Program starts them and renders what they made;     *)
(* Files continues a merged filesystem with cat and cp.                    *)
(*                                                                         *)
(* Merging is taken from its specification, Built of module Image, which   *)
(* Overlay implements.  The order of a list printed is left out, that of a *)
(* tree is kept: its lines mean nothing without it.                        *)
(***************************************************************************)
EXTENDS Fetch, Image

CONSTANTS
  Inputs,   \* the command lines and worlds, see Fetch and the uses below
  Hidden,   \* the names that begin with "."
  Longer,   \* pairs of a name and a name it begins with
  Globs,    \* component of a pattern with * ? [ |-> the names it matches
  Substring, \* pattern without * ? [ |-> the paths it is a substring of
  Rank      \* the order of names

\* What split strings, flags and images are; diff takes two images, any other
\* command one (for tags a repository).  Only a glob has characters a pattern
\* gives a meaning to.
ASSUME InputsAssumption ==
  /\ \A i \in Inputs :
       /\ i.name \in STRING /\ i.args \in Nat
       /\ i.refs \in Seq(STRING) /\ i.refs # << >>
       /\ i.name # "diff" => Len(i.refs) = 1
       /\ i.name = "diff" /\ i.args \in 2..3 => Len(i.refs) = 2
       /\ {i.path, i.pattern} \subseteq Seq(STRING) \ {<< >>}
       /\ {i.layer, i.limit, i.level} \subseteq Int /\ i.room \in Nat /\ i.broken \in BOOLEAN
       /\ i.tags \in Seq(STRING) /\ i.annotations \in Seq(Seq(Seq(STRING)))
       /\ {i.config["Entrypoint"], i.config["Cmd"]} \subseteq Seq(Seq(STRING))
       /\ \A held \in i.daemon \cup i.registry :
            held.layers \in Seq(Seq({h \in Header : WellFormed(h)}))
  /\ "" \notin DOMAIN Globs

\* The order of names tells any two of those a path can end with apart.
ASSUME RankAssumption ==
  /\ Rank \in [DOMAIN Rank -> Int]
  /\ \A m, n \in DOMAIN Rank : Rank[m] = Rank[n] => m = n
  /\ \A p \in Path \ {Root} : Base(p) \in DOMAIN Rank

VARIABLES
  loaded,  \* the images loaded: layers with their digests, filesystem
  dirs,    \* tree: dirMap
  todo,    \* tree: the entries still to be printed, with their depth
  lines,   \* printed in order: lines of the tree, layers of a diff
  out      \* the entries listed, the differences found

printing == <<dirs, todo, lines, out>>
context == <<input, ref, image, asked, loaded, printing>>
commandVars == <<pc, context>>

NoArgument == <<"">>  \* strings.Split("", "/")

-----------------------------------------------------------------------------
(***************************************************************************)
(* Entries.                                                                *)
(***************************************************************************)

\* What a hardlink in layer i gets: the content of what the filesystem has at
\* its target when the layer has been applied.
LinkedContent(layers, i, link) ==
  LET p == Built(layers, i)[Clean(link)]
  IN  IF p = Absent THEN NoContent ELSE layers[p.layer][p.pos].content

\* The entry for path p, whose header is at a place in the image.
Made(layers, p, at) ==
  LET h == layers[at.layer][at.pos]
  IN  [path |-> p, kind |-> h.kind, mode |-> h.mode, link |-> h.link, layer |-> at.layer,
       content |-> IF h.kind = "hardlink"
                   THEN LinkedContent(layers, at.layer, h.link) ELSE h.content]

\* overlay.Build: the entries of the merged filesystem.
EntriesOf(layers) ==
  LET merged == Built(layers, Len(layers))
  IN  {Made(layers, p, merged[p]) : p \in {q \in Path : merged[q] # Absent}}

\* fileInfo and fileState: a mode string tells directories, symlinks and
\* devices from the rest, but not hardlinks from files.
FileState(e) ==
  [type    |-> IF e.kind \in {"dir", "symlink", "device"} THEN e.kind ELSE "-",
   mode    |-> e.mode,
   link    |-> IF e.kind = "symlink" THEN e.link ELSE << >>,
   content |-> e.content]

IsDir(e) == e.kind = "dir"

\* The entry at p and those below it.
Under(entries, p) == {e \in entries : IsPrefix(p, e.path)}

\* doublestar.Match, a component at a time: ** stands for any number.
Fits(part, name) == IF part \in DOMAIN Globs THEN name \in Globs[part] ELSE name = part

\* How many names are matched when part goes on from one of those in from.
Consume(part, names, from) ==
  IF part = "**" THEN {j \in 0..Len(names) : \E k \in from : k <= j}
  ELSE {j \in 1..Len(names) : j - 1 \in from /\ Fits(part, names[j])}

Match(pattern, names) ==
  LET ends[i \in 0..Len(pattern)] ==
        IF i = 0 THEN {0} ELSE Consume(pattern[i], names, ends[i - 1])
  IN  Len(names) \in ends[Len(pattern)]

-----------------------------------------------------------------------------
Fail == pc' = "failed" /\ UNCHANGED context

Fetching == FetchImage /\ UNCHANGED <<input, loaded, printing>>

Works == [ls |-> "list", tree |-> "map", diff |-> "compare", cat |-> "find", cp |-> "find"]

Loading == pc = "load" /\ input.name \in DOMAIN Works

\* The layers the command works on: buildFS picks one for --layer n.
Chosen == IF input.layer > 0 THEN SubSeq(image.layers, input.layer, input.layer)
          ELSE image.layers

\* A daemon exports a layer anew, with a digest of its own (README.md:307-310).
Manifest == [k \in DOMAIN image.layers |-> [layer |-> image.layers[k], from |-> image.from]]

\* mutant: the first image is compared before there is a second
LoadOnce ==
  /\ Loading /\ input.layer <= Len(image.layers)
  /\ loaded' = Append(loaded, [platform |-> image.platform, manifest |-> Manifest,
                              entries |-> EntriesOf(Chosen)])
  /\ pc' = Works[input.name]
  /\ UNCHANGED <<input, ref, image, asked, printing>>

\* The layers of the image are merged; diff comes back for the second one.
Load ==
  /\ Loading /\ input.layer <= Len(image.layers)
  /\ loaded' = Append(loaded, [platform |-> image.platform, manifest |-> Manifest,
                              entries |-> EntriesOf(Chosen)])
  /\ IF Len(loaded') < Len(input.refs)
     THEN pc' = "fetch" /\ ref' = input.refs[Len(loaded') + 1]
     ELSE pc' = Works[input.name] /\ UNCHANGED ref
  /\ UNCHANGED <<input, image, asked, printing>>

NoSuchLayer == Loading /\ input.layer > Len(image.layers) /\ Fail

\* The manifest, the list of layers or a layer's archive cannot be read.
LoadError == Loading /\ Fail

-----------------------------------------------------------------------------
\* ls

\* strings.Trim(path, "/") and what path.Dir and prefixes make of it
TrimSlashes(name) ==
  LET full == {k \in DOMAIN name : name[k] # ""}
  IN  IF full = {} THEN Root
      ELSE SubSeq(name, Min(full), Max(full))

\* mutant: /ab is listed with /a
FilterByPrefix(entries, path) ==
  LET p == TrimSlashes(path) IN
  {e \in entries : p # Root /\ Len(e.path) >= Len(p) /\ IsPrefix(Front(p), e.path)
                     /\ (e.path[Len(p)] = Last(p) \/ <<e.path[Len(p)], Last(p)>> \in Longer)}

\* For the root the prefix is "//", which no path has.
FilterByPath(entries, path) ==
  LET p == TrimSlashes(path) IN
  {e \in entries : p # Root /\ IsPrefix(p, e.path)}

HasWildcard(pattern) == \E k \in DOMAIN pattern : pattern[k] \in DOMAIN Globs \cup {"**"}

FilterFiles(entries, pattern) ==
  LET Matched(p) ==
        IF ~HasWildcard(pattern) THEN p \in Substring[pattern]
        ELSE IF Len(pattern) = 1 THEN Match(<<"**">> \o pattern, p)
        ELSE Match(pattern, p) \/ (IsAbs(pattern) /\ Match(pattern, <<"">> \o p))
  IN  {e \in entries : Matched(e.path)}

List ==
  /\ pc = "list"
  /\ LET all    == loaded[1].entries
         scoped == IF input.path = NoArgument THEN all ELSE FilterByPath(all, input.path)
         files  == IF input.pattern = NoArgument THEN scoped
                   ELSE FilterFiles(scoped, input.pattern)
     IN  out' = files
  /\ pc' = "done"
  /\ UNCHANGED <<input, ref, image, asked, loaded, dirs, todo, lines>>

-----------------------------------------------------------------------------
\* tree

RootPath == TrimSlashes(input.path)

\* strings.HasPrefix(p, rootPath), with no separator at its end
HasRoot(p) ==
  \/ IsPrefix(RootPath, p)
  \/ /\ RootPath # Root /\ Len(p) >= Len(RootPath) /\ IsPrefix(Front(RootPath), p)
     /\ <<p[Len(RootPath)], Last(RootPath)>> \in Longer

\* One more than the separators in what is left of p without the prefix.
Depth(p) == Len(p) - Len(RootPath) + IF IsPrefix(RootPath, p) THEN 0 ELSE 1

Excluded(p) ==
  /\ input.exclude # NoArgument
  /\ Match(input.exclude, <<Base(p)>>) \/ Match(input.exclude, <<"">> \o p)

Allowed(e) ==
  /\ input.all \/ Base(e.path) \notin Hidden
  /\ input.dirsOnly => IsDir(e)
  /\ ~Excluded(e.path)

\* mutant: off by one in the depth
KeptAbove(entries) ==
  {e \in entries : /\ HasRoot(e.path) /\ e.path # RootPath /\ Allowed(e)
                   /\ input.level > 0 => Depth(e.path) < input.level}

Kept(entries) ==
  {e \in entries : /\ HasRoot(e.path) /\ e.path # RootPath /\ Allowed(e)
                   /\ input.level > 0 => Depth(e.path) <= input.level}

\* Directories first, if asked, then by name.
Before(e, f) ==
  IF input.dirsFirst /\ IsDir(e) # IsDir(f) THEN IsDir(e)
  ELSE Rank[Base(e.path)] < Rank[Base(f.path)]

Sorted(entries) ==
  [k \in 1..Cardinality(entries) |->
     CHOOSE e \in entries : Cardinality({f \in entries : Before(f, e)}) = k - 1]

DirMap(entries) ==
  [d \in {Dir(e.path) : e \in entries} |-> Sorted({e \in entries : Dir(e.path) = d})]

\* What printTreeDir prints of directory d, called at the given depth.
Children(map, d, depth) ==
  IF (input.level > 0 /\ depth > input.level) \/ d \notin DOMAIN map THEN << >>
  ELSE [k \in DOMAIN map[d] |-> [entry |-> map[d][k], depth |-> depth + 1]]

MapTree ==
  /\ pc = "map" /\ pc' = "print"
  /\ dirs' = DirMap(Kept(loaded[1].entries))
  /\ todo' = Children(dirs', RootPath, 0)
  /\ UNCHANGED <<input, ref, image, asked, loaded, lines, out>>

\* mutant: the loop does not move on
PrintEntryAgain == pc = "print" /\ todo # << >> /\ UNCHANGED commandVars

\* A line, its depth shown by its prefix; then, recursively, what is below.
PrintEntry ==
  /\ pc = "print" /\ todo # << >>
  /\ LET e == Head(todo).entry
         d == Head(todo).depth
     IN  /\ lines' = Append(lines, [depth |-> d, name |-> Base(e.path)])
         /\ todo' = (IF IsDir(e) THEN Children(dirs, e.path, d) ELSE << >>) \o Tail(todo)
  /\ UNCHANGED <<input, pc, ref, image, asked, loaded, dirs, out>>

PrintEnd ==
  /\ pc = "print" /\ todo = << >> /\ pc' = "done"
  /\ UNCHANGED context

-----------------------------------------------------------------------------
\* diff

ScopedEntries(entries) ==
  IF input.path = NoArgument THEN entries ELSE Under(entries, Clean(input.path))

\* mutant: contents are compared by their presence only
FileChangedMeta(a, b) == a.kind # b.kind \/ a.mode # b.mode \/ a.link # b.link

FileChanged(a, b) ==
  a.kind # b.kind \/ a.mode # b.mode \/ a.link # b.link \/ a.content # b.content

\* One path that differs, with the file on each side that has one.
Difference(status, p, as, bs) ==
  [status |-> status, path |-> p,
   a |-> {FileState(e) : e \in as}, b |-> {FileState(e) : e \in bs}]

DiffFiles(as, bs) ==
  LET At(entries, p) == {e \in entries : e.path = p}
      Paths(entries) == {e.path : e \in entries}
      Modified(p) == \E a \in At(as, p), b \in At(bs, p) :
                       ~(IsDir(a) /\ IsDir(b)) /\ FileChanged(a, b)
      Only(some, others) == {e.path : e \in {f \in some : ~IsDir(f)}} \ Paths(others)
  IN  {Difference("modified", p, At(as, p), At(bs, p)) :
         p \in {q \in Paths(as) \cap Paths(bs) : Modified(q)}}
        \cup {Difference("removed", p, At(as, p), {}) : p \in Only(as, bs)}
        \cup {Difference("added", p, {}, At(bs, p)) : p \in Only(bs, as)}

\* mutant: what only the second image has is told from what it has in all
DiffLayersPresent(a, b) ==
  [k \in DOMAIN a |->
     [status |-> IF a[k] \in ToSet(b) THEN "shared" ELSE "removed", digest |-> a[k]]]
  \o [k \in DOMAIN b |-> [status |-> "added", digest |-> b[k]]]

\* The elements of s that are in S, in order.
Among(s, S) ==
  LET kept[k \in 0..Len(s)] ==
        IF k = 0 THEN << >>
        ELSE IF s[k] \in S THEN Append(kept[k - 1], s[k]) ELSE kept[k - 1]
  IN  kept[Len(s)]

\* The layers of a in order, then those only b has.
DiffLayers(a, b) ==
  LET Line(status, digest) == [status |-> status, digest |-> digest]
      new == Among(b, ToSet(b) \ ToSet(a))
  IN  [k \in DOMAIN a |-> Line(IF a[k] \in ToSet(b) THEN "shared" ELSE "removed", a[k])]
        \o [k \in DOMAIN new |-> Line("added", new[k])]

Compare ==
  /\ pc = "compare" /\ pc' = "done"
  /\ out' = DiffFiles(ScopedEntries(loaded[1].entries), ScopedEntries(loaded[2].entries))
  /\ lines' = DiffLayers(loaded[1].manifest, loaded[2].manifest)
  /\ UNCHANGED <<input, ref, image, asked, loaded, dirs, todo>>

-----------------------------------------------------------------------------
\* What is done with images that are loaded, up to the program alone.
Work == List \/ MapTree \/ PrintEntry \/ PrintEnd \/ Compare
-----------------------------------------------------------------------------
(***************************************************************************)
(* Properties.                                                             *)
(***************************************************************************)

Ran(name) == input.name = name /\ pc = "done"

\* The path is written with slashes around it at most, and is not the root.
PlainPath == TrimSlashes(input.path) = Clean(input.path) /\ Clean(input.path) # Root

\* "Patterns without slashes match against basenames. Patterns with slashes
\* match against full paths" (README.md:69-70), a leading slash or not.
MatchesAsDocumented(p) ==
  LET pattern == input.pattern IN
  IF Len(pattern) = 1 THEN Match(pattern, <<Last(p)>>)
  ELSE IF IsAbs(pattern) THEN Match(Tail(pattern), p) ELSE Match(pattern, p)

\* ls lists every entry of the filesystem at or below the path given that the
\* pattern matches, and no other, when the path is a plain one.
LsListsWhatIsAsked ==
  Ran("ls") /\ (input.path # NoArgument => PlainPath) =>
    out = {e \in loaded[1].entries :
             /\ input.path # NoArgument => IsPrefix(Clean(input.path), e.path)
             /\ input.pattern # NoArgument =>
                  IF HasWildcard(input.pattern) THEN MatchesAsDocumented(e.path)
                  ELSE e.path \in Substring[input.pattern]}

\* The path a reader makes out of line k: its name below that of the last line
\* above it that is one level up.
Drawn ==
  LET path[k \in DOMAIN lines] ==
        LET up == {j \in 1..(k - 1) : lines[j].depth = lines[k].depth - 1}
        IN  Append(IF lines[k].depth = 1 THEN RootPath ELSE path[Max(up)], lines[k].name)
  IN  path

\* What a tree from the root asked for can show of an entry: it and everything
\* between the root and it is there and allowed, and a directory on the way.
InTree(entries, e) ==
  LET r == Len(RootPath) IN
  /\ IsStrictPrefix(RootPath, e.path)
  /\ input.level > 0 => Len(e.path) - r <= input.level
  /\ \A k \in (r + 1)..Len(e.path) :
       \E f \in entries : /\ f.path = SubSeq(e.path, 1, k) /\ Allowed(f)
                          /\ k < Len(e.path) => IsDir(f)

\* The tree, read off its lines and their indentation, shows every entry it
\* can, each once, and nothing else (tree.go:112-245).
TreeShowsTheDirectory ==
  Ran("tree") =>
    LET entries == loaded[1].entries
        seen    == {e \in entries : InTree(entries, e)}
    IN  /\ Len(lines) = Cardinality(seen)
        /\ {Drawn[k] : k \in DOMAIN lines} = {e.path : e \in seen}

\* The files of an image in scope, as diff shows a file.
FilesOf(k) ==
  {[path |-> e.path, state |-> FileState(e)] :
     e \in {f \in loaded[k].entries :
              ~IsDir(f) /\ (input.path # NoArgument => IsPrefix(Clean(input.path), f.path))}}

\* files with what the differences say of one side put in place of the other
Patched(files, New(_)) ==
  LET differ == {d.path : d \in out} IN
  {f \in files : f.path \notin differ}
    \cup UNION {{[path |-> d.path, state |-> s] : s \in {t \in New(d) : t.type # "dir"}} :
                  d \in out}

\* Every difference is shown, and as it is: applied to the files of the first
\* image the differences give those of the second, and backwards, whichever
\* source each image came from (README.md:170-174).
DiffIsAPatch ==
  Ran("diff") =>
    /\ Patched(FilesOf(1), LAMBDA d : d.b) = FilesOf(2)
    /\ Patched(FilesOf(2), LAMBDA d : d.a) = FilesOf(1)

\* "which layers two images share" (README.md:170): the lines of the first
\* image are its layers in order, a shared one is in both, and what is added are
\* the layers that only the second image has, each where and as often as it is
\* there.
LayersAccounted ==
  Ran("diff") =>
    LET a == loaded[1].manifest
        b == loaded[2].manifest
        With(statuses) == Among(lines, {l \in ToSet(lines) : l.status \in statuses})
        Digests(ls) == [k \in DOMAIN ls |-> ls[k].digest]
    IN  /\ Digests(With({"shared", "removed"})) = a
        /\ Digests(With({"added"})) = Among(b, ToSet(b) \ ToSet(a))
        /\ ToSet(Digests(With({"shared"}))) = ToSet(a) \cap ToSet(b)

\* "Optionally specify a path to list only files under that directory"
\* (ls.go:33): the root is one, and everything is under it.
LsListsTheRoot ==
  Ran("ls") /\ input.path = <<"", "">> /\ input.pattern = NoArgument =>
    out = loaded[1].entries
=============================================================================
