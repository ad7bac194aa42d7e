# cek in TLA+

cek explores OCI images: it fetches an image from the container daemon or a
registry, merges the archives of its layers into one filesystem in memory, and
lists, prints, copies or compares what is in it. This directory holds TLA+
models of that program, the TLC configurations that check them on small
instances and TLAPS proofs of what holds for every image.

    tlc -workers 2 -config Overlay.cfg MCOverlay.tla
    tlc -workers 2 -config Commands.cfg MCCommands.tla
    tlapm OverlayProofs.tla

`PROJECT.json` lists every run with its properties, every definition with the
lines of code it stands for, the hazards, and for each property a mutated
definition (in the modules, marked `mutant`) under which TLC must find the
property violated.

## The system

cek is a command line tool: one process runs one command in one goroutine and
exits. Nothing is persisted but what `cp` and `export` write, and nothing runs
concurrently with the command inside the process. What is hard here is not
interleaving but order: the order headers, layers, whiteouts and hardlinks are
applied in, the order a symlink is followed in, what is read a second time from
an archive, and what is left behind when a step of many fails.

| component | state | operations | hard behaviours |
|---|---|---|---|
| `overlay.Build` (`internal/overlay`) | the filesystem (path to entry), four lists per layer | read an archive, apply whiteouts, opaque whiteouts, entries, hardlinks | whiteouts before or after what they name; paths given twice; pointers shared between lists and filesystem; a layer failing half-way |
| `FS.Resolve` | path being walked, hops | walk component by component, restart at a symlink | `..` around symlinks, cycles, omitted directories |
| `overlay.Open`, `Extract` | entries still wanted, position in the archive | find contents in one pass | several hardlinks to one content, hardlinks to hardlinks, paths given twice, errors half-way |
| `FS.Entries`, `Under`, `Lookup` | none (reads the filesystem) | sorted listing, scope | root scope, path prefixes |
| `cp` (`internal/command`) | files on disk, entries by layer, counters | create directories and symlinks, write contents layer by layer, set modes | symlinks on disk, in the image and among parents; modes before or after contents; a failure half-way |
| `diff` | two filesystems, two manifests | classify layers and paths | hardlink against regular file, directories against files |
| `ls`, `tree` | a filtered list; a map from directory to children | filter, sort, print | omitted or filtered directories, scope `/` |
| image fetch (`internal/oci`) | pull policy, answers of daemon and registry | parse, ask daemon, ask registry | every daemon error is "not there", the daemon ignores the platform |
| `cat`, `blob`, `export`, `manifest`, `config`, `inspect`, `tags` | the layer slice; what was written before an error | one fetch, one rendering | layer numbers from 1, the index of the layer within the slice it was built from |
| views, logger, command tree | the writer, the chosen view and log level | render | logs and payload on one writer |

They interact by plain calls: a command fetches an image, hands all its layers
or one of them to `Build`, asks the filesystem for entries (`Resolve`,
`Entries`, `Under`), and reads contents back from the same slice of layers with
`Open` or `Extract`. The entry's layer index and its tar name are what ties the
last step to the first.

What makes each correct:

- Build: the result is the merge of the layers as the OCI layer format defines
  it, whatever the order of headers in each archive; a hardlink carries its
  target's size and digest; an error leaves nothing.
- Resolve: the entry a kernel would reach, or the error it would give; never a
  symlink, never something below a file; always an end.
- Open, Extract: every entry asked for exactly once, or an error; the bytes that
  were measured and hashed.
- cp: the tree on disk is the tree in the image, with its permissions, nothing
  is written outside the destination, an error says so.
- diff: each path in exactly one class, empty exactly when the two filesystems
  show the same.
- ls, tree: every entry in scope once, and no other.
- cat: the bytes the merged filesystem, or the layer asked for, has at the path.
- blob, export, manifest, config, inspect, tags: what the image, or the
  registry, has, under the numbers and in the order shown elsewhere.
- views: one datum, two renderings that say the same; a document whole or not
  at all; exact bytes where the help promises them; an exit status that is true.
- fetch: `never` never reaches the registry, `always` never the daemon, and the
  image is one of the platform asked for.

## Modules

| module | stands for | 
|---|---|
| `Paths` | names, `clean`, `path.Dir`, `path.Base`, the prefix test of `removeChildren` |
| `Image` | an image as data (layers of headers), how the reading loop classifies a header, and the merge path by path, twice: `Merged`, what the doc of `Build` and the OCI rules it cites promise, and `Built`, what the code's removals make. They differ only where a layer empties the root (`RootEmptied`) |
| `Overlay` | `Build` and `builder.apply` as a state machine, one action per loop iteration |
| `OverlayMount` | what a caller of `Build` sees: one step, everything or nothing; `Overlay` implements it |
| `OverlayInv`, `OverlayProofs` | the inductive invariant and the proofs |
| `Resolve` | `FS.Resolve` and `FS.resolve`, one action per branch of the loop |
| `Lookup` | path resolution as a kernel does it, and the answers `Resolve` may give |
| `LookupOnce` | what a caller of `FS.Resolve` sees: one step to one of those answers; `Resolve` implements it |
| `Content` | `Open` and `Extract` over one archive |
| `Disk` | the file system `cp` writes to: the calls of package `os` that it makes, the path walks below them, the owner's permissions |
| `Copier` | `RunCp` from the resolved source on: where the copy lands, `copyFile`, and `copyTree` in its three passes, over `Disk` |
| `Fetch` | `FetchImage`: the pull policies, a daemon and a registry that answer or fail |
| `Commands` | loading images and `buildFS`, then `ls`, `tree` and `diff`, over `Fetch` and the merge `Built` that `Image` defines and `Overlay` implements |
| `Files` | `cat`, and `cp` as far as the image is concerned: resolve, then read contents from the layers chosen |
| `Documents` | `blob`, `export`, `manifest`, `config`, `inspect`, `tags` |
| `Views` | `internal/view`: both renderings of every command's data, as the writes they make |
| `Program` | the whole: command tree and flags, choice of view and log level, every command, its rendering, the exit status |
| `CopierInv`, `CopierProofs` | the inductive invariant of a copy and the proofs |
| `PathProofs`, `LookupProofs`, `ResolveProofs` | proofs about names, about the kernel's walk, about `Resolve` |
| `ContentProofs` | proofs about `Content` |
| `ProgramProofs`, `CommandsProofs` | proofs about a whole run and what `inspect` prints, about what `ls`, `tree`, `diff`, `cat` and `cp` make of filesystems and print of it |
| `SmallImages`, `MCOverlay`, `MCResolve`, `MCContent`, `MCCopier`, `MCCommands` | the instances TLC checks |

How state and actions correspond to the code:

- **Names.** A raw name is a sequence of components split at `/`; a clean path
  is the sequence of its components, the root the empty one. `Clean` computes
  what `path.Clean` computes, so `./a/`, `/a` and `a` really are one path and
  `..` really climbs. Whiteout names are strings; what is left of one without
  its prefix is the constant `Stem`.
- **Contents.** A content is a model value that stands for its bytes, their
  number and their digest; two different contents differ in all three.
- **Overlay.** `pc` names the loop of `apply`, `at` its next element; `adds`,
  `links`, `whiteouts` and `opaques` are the code's slices. The code shares
  entries by pointer between `fs.entries`, `adds` and `links`. An entry is
  identified by the header it was made from (`layer`, `pos`), and a write
  through a pointer of `links` shows in the filesystem only where that same
  entry still is. `OpenError`, `HeaderError` and `DigestError` may strike
  wherever the code has a failing call.
- **Resolve.** `p`, `hops`, `i` and `cur` are the code's variables; the
  recursive call is the return to `pc = "enter"`.
- **Content.** `wanted` is the code's map, kept as the set of entries in it;
  `given` records the callbacks. `Open` is the same loop with one entry, ending
  when it reaches it.
- **Disk.** A disk is a function from the paths that exist to nodes; a call is
  an operator that returns the disk it leaves and an error. It is external: the
  kernel's side, written down as far as `cp` relies on it. A mode is the set of
  the owner's bits, the copying user owns every file, and a path walk is cut off
  after `Fuel` names and symlinks where a kernel counts symlinks only. `Trail`
  is where a walk stands after each name; `Follow` and `Keep` say what becomes
  of a symlink that is the last one (`open` and `stat` follow it, `lstat`,
  `mkdir`, `remove` and `symlink` do not).
- **Copier.** `pc` names the pass, `at` the next entry of the first one;
  `pending` is the code's `byLayer`, `dirs` its `dirs`, `files` and `skipped` the
  counters. The second pass takes the entries of the lowest layer left in any
  order, which covers every order an archive can have. `ExtractError` is an
  archive that fails between two entries or in the middle of one (`Cut`: the
  part written stays), `DiskError` any call that fails for a reason outside the
  model, such as a full disk. It leaves what was done by then: some of the
  directories of a `MkdirAll` (`Made`), a file cut, or whole and not closed or
  without its mode (`FileLeft`), a removed file with no symlink in its place yet
  (`LinkLeft`). `Refusal` is what the loop of
  `refuseSymlinkParents` finds along `Parents`. The properties of a tree's copy
  speak of the place the target really is (`Real`, past symlinks on the way to
  it) and assume `FreshBelow`: no symlink lies below that place when the copy
  starts. The code checks parents only, so a symlink at a file's own path is
  written through, and the model does the same. A file copied by itself is
  left out of them: its path may be a symlink.
- **Fetch.** The daemon and the registry are part of `input`; an answer needs
  the image to be there, a failure may come at any time. `asked` records the
  requests. The daemon has one platform of an image; a registry has an index or
  a single image, which it gives for any platform.
- **How the modules of the commands build on each other.** `Fetch`, `Commands`,
  `Files`, `Documents` and `Program` extend one another and share `pc`; each
  leaves its variables to the next. Only `Program` has `Init`, `Next` and a
  specification. What other modules have shown is used as one step: merging is
  `Built` (which `Overlay` implements), resolving is one of `Answers` (which
  `Resolve` implements: `ResolvesAtOnce`), a content is that of the first
  regular header of its name (what `Content` gives), a copy is there or failed
  (its own steps are in `Copier`).
- **Commands.** `loaded` holds what `loadForDiff`, or `buildFS` for one image,
  returns. The layers a daemon gives have other digests than the registry's
  (README.md of cek, lines 307-310). The filter loops and the comparison of two
  filesystems are single expressions, in one action each; the recursion that
  prints a tree is one action per line, with the entries still to be printed in
  `todo`. Lists are sets, as their order is layout; the lines of a tree keep
  their order and depth, which is all that tells whose child an entry is.
  Patterns are matched component by component, `Globs` says what a component
  with wildcards matches; `Match` goes through the pattern and keeps the set of
  places in the name it can have come to.
- **Files, Documents.** `data` is what a command hands to its view. An image is
  reread for contents by the entry's layer index and name alone (`Bytes`), so
  an index into the wrong slice reads another layer. `input.broken` says that
  the stream breaks off in the middle; `written` is the state of the file
  `export` writes. Every request to an image or registry may fail.
- **Program, Views.** A rendering is a sequence of writes to the one stream the
  logs go to as well. `input.room` is how many more the standard output takes;
  a write that is not taken is an error `Stream.Printf` drops and the others
  return. A write is taken whole or not at all: on a real disk a prefix of the
  last one may be left. A table is one write, as is a heading or a document.
  The log lines of a run, all at the level debug and all before the payload,
  are one write. `viewer` is what `ConfigureView` makes; flags are a set of
  names, and the number of arguments stands for the arguments themselves where
  `cobra` looks at nothing else. Words of an argv are sequences of characters,
  as `shellJoin` is about them; in labels and annotations their number is all
  that counts. Two more renderings are written down for that: `strconv.Quote`,
  with its escapes (`GoEscape`, where one character stands for all that are not
  printable), and a shell (`ShellStep`). The shell's side owes nothing to the
  code: it knows what ends a word, what double quotes and a backslash in them
  do, and gives up (`lost`) at a character that is more than itself, outside of
  quotes (`Metacharacter`, among them `*`, `?`, `[`, `~`) or in them too
  (`Expanded`).

## Runs

| run | asks | bounds |
|---|---|---|
| `overlay` | Is what `Build` computes the declared merge after every layer, unless one empties the root (`MergeCorrect`)? Does a whiteout ever take what its own layer adds (`OwnEntriesStay`)? Do hardlinks end with their target's content, and nobody else with another's (`HardlinkContent`, `OtherContentKept`)? Is the call atomic (`BuildIsAtomic`, the abstract specification) and does it end? | 16 headers over a directory with a child and a file: every kind, every form of whiteout, names that clean to the root; two layers of two of the common headers, three of one, and every rare header before and after others |
| `overlay_container_view` | Does the merge show what a container shows when a file replaces a directory? No: see below. | same |
| `overlay_opaque_root` | Does an opaque whiteout in the root hide the lower layers? No: see below. | same |
| `resolve` | Is the walk a kernel walk, errors and hop limit included and, seen by its caller, one step (`ResolvesAtOnce`, the abstract specification)? Is what it returns free of symlinks (`ResultIsCanonical`)? Does it end? `IInv` is what `ResolveProofs` proves inductive. | every filesystem over four paths, each missing, directory, file or one of five symlinks; hop limit 3 in place of 40, so that chains and cycles pass it |
| `resolve_kernel` | Is it one for any name? No: see below. | same |
| `content` | Does a successful call hand over everything once (`SuccessIsComplete`, `EachEntryOnce`)? Are the bytes those Build recorded (`ReadsWhatBuildRecorded`)? Does it end? `IInv` is what `ContentProofs` proves inductive. | every archive of up to three of eight headers, hardlinks before and after their target, alone or with a layer of one header above or below; every set of entries asked for |
| `content_duplicate` | Are they, when an archive gives a path twice? No: see below. | same |
| `copier` | Does a copy change anything outside its target (`NothingOutside`)? Is a reported success a complete copy, permissions included, those of directories too (`CopiesTheTree`)? Is the count what is there, also after an error, but for the one file whose `Close` or `Chmod` failed after it was written (`CountsWhatIsThere`)? Does a read-only directory of the image block the files in it (`FilesAreNotBlocked`)? `IInv` is what `CopierProofs` proves inductive. | every tree of a root, `a`, `a/b` and `b`, each missing or one of the kinds that matter there, entries from two layers; ten disks: the destination missing, a file, a symlink, a directory that is empty, read-only, or has files, a symlink or a file as the image has it in it, and one that a symlink elsewhere leads through and out of again by `..`; three destinations: that directory, and one below each of the two symlinks; `Fuel` 10, more than any walk over these paths takes |
| `copier_refusal` | Is it only for a symlink between the target and a file that a copy is refused? No: see below. | same |
| `copier_special_bits` | Does a copy keep the setuid bit? No: see below. | same |
| `commands` | Is the registry asked only when the policy needs it (`RegistryOnlyWhenNeeded`)? Does `ls` list what path and pattern ask for (`LsListsWhatIsAsked`)? Read off its lines, is a tree the directory (`TreeShowsTheDirectory`)? Do the differences turn each image into the other (`DiffIsAPatch`), and are layers accounted for (`LayersAccounted`)? Do `cat` and `cp` read the file of the layers chosen, where a kernel would find it (`ReadsTheChosenLayers`)? Is `blob --layer n` the layer `inspect` numbers n (`BlobIsTheLayerInspected`), and what `tags` shows the end of the list (`TagsAreTheLast`)? Does `--json` give a whole document or a failure, when a stream breaks off or the output is full too (`JsonIsAllOrNothing`)? Are bytes exact where promised (`ExactBytes`)? Is a success of `export` true (`ExportTells`)? Do the two views agree (`HumanAndJsonAgree`)? Is the argv of `inspect` read word for word by a shell, where no word has what a shell expands where it stands or Go escapes its own way (`ShellJoinReadsBack`)? Does a command end once its images are loaded (`EndsOnceLoaded`)? `IInv` is what `ProgramProofs` proves inductive. | 50 images over `/a`, three levels below it, a hidden name, a name that begins like another, hardlinks, symlinks, whiteouts, directories there or omitted; six paths, five patterns, all flags of `tree` over the deepest image, 27 by 27 images for `diff`, every policy with every platform and holder; seven two-layer images with links, overwritten and removed files by eight paths and `--layer` -1, 1, 2 and one past the last for `cat` and `cp`, with a whole and a broken stream; `blob --layer` -1 to 3 of two; every pair of nine words for `inspect`, and seven words that a shell may read as something else (`OddWords`); three lists of tags with limits -1 to 4; every command in both views, with every source of a log level, into an output that takes 0, 1, 2, 4 writes or all; each way a command line is refused. One symlink hop (`MaxHops`), so that chains pass it; values cut after two characters (`MaxWidth`) |
| `commands_root` | Is everything listed under `/`? No: see below. | same |

Why these bounds are enough to be worth something: the code compares paths only
for equality and prefix, so a directory, a child and a bystander give every
relation two paths can have; a header acts on the filesystem alone or together
with one other of its layer (order, duplicate, hardlink and target) and one of
another layer; three layers give a whiteout something below and something above.
The proofs below lift these bounds; what stays with TLC is listed with
them.

**Fairness.** Each `FairSpec` has weak fairness of the steps the goroutine
takes without an error. The code blocks on nothing but reads of its archives,
which return; errors get no fairness, since none needs to happen. In `Program`
only the work of `ls`, `tree` and `diff` on loaded images, `Render` and `Report`
are fair: nothing in the code ends a call to a daemon that does not answer, and
`cat`, `cp`, `blob` and `export` stream layers from there. Deadlock is checked:
a returned call stutters by an action of its own.

### Where code and docs disagree

- `overlay_container_view`: an upper layer's file or symlink at the path of a
  lower layer's directory replaces that entry only; the lower layer's files
  below it stay listed. Neither a container nor "the merged overlay filesystem"
  (README) shows them.
- `overlay_opaque_root`: an opaque whiteout in the root removes nothing.
  `removeChildren` looks for paths that begin with the directory and a slash,
  for the root with `//`. `MergeCorrect` says what holds of all other images;
  of these, `BuildIsAtomic` says what they become (`Built`).
- `resolve_kernel`: `a/../b` is cleaned to `/b` before `a` is looked up, as is
  the target of every symlink with what follows it. Where `a` is a symlink to a
  directory elsewhere, a kernel takes the `..` there. Without such a `..` the
  two agree (run `resolve`), up to one difference stated in
  `Answers`: a directory the archives omit can be walked through but
  not asked for.
- `content_duplicate`: of a path given twice in one archive, `ls` and `diff`
  show size and digest of the last copy, `cat` and `cp` write the first.
- `copier_special_bits`: setuid, setgid and sticky are dropped before the mode
  is set (`perm`), where the comment has the image's bits set exactly.
- `copier_refusal`: for the target itself, `refuseSymlinkParents` looks at the
  directory the target is in (`filepath.Rel` gives `..`), which is not between
  the target and what is written. A directory cannot be copied to a destination
  right below a symlink to a directory, such as macOS's `/tmp`.
- `commands_root`: `cek ls <image> /` finds no files: the path becomes the prefix
  `//`. `tree` and `diff` take `/` for everything.

These, too, are written otherwise than the code does, and no run is spent on
them: a line of the code shows each.

- A hardlink whose target is a hardlink cannot be read: `Extract` looks for the
  header with the contents under the name the link gives, one link deep
  (overlay.go:109-115), while `ls` shows such a file like any other.
  `Ordinary` leaves it out of `ReadsWhatBuildRecorded`.
- `diff` compares tar types and hardlink targets, so a file that is a hardlink in
  one image only is told as modified although content, permissions and symlink
  target are the same (diff.go:31-32), and shown with two equal states.
- The daemon's image is used whatever platform was asked for (image.go:76-80 says
  so, the help does not), and so is a registry's single image.
- Logs go to the stream the payload goes to (view.go:43), so `--debug` or
  `CEK_LOG` puts a line in front of the bytes that, by the help of `manifest` and
  `config`, hash to a digest. `ExactBytes` excepts it.
- `shellJoin` leaves `*`, `?`, `[`, `~`, `{` and `!` without quotes (inspect.go:154),
  double quotes do not keep `$`, backticks and `!`, and Go's escapes are none of
  a shell's (inspect.go:155). The comment promises the argv as it would be typed.
  `ShellJoinReadsBack` says for which words it is.

Seen while modelling, and no contradiction of anything written: `tree` and
`version` ignore `--json`; `export --json` fails after its tarball is complete and `blob --json`
after its blob was fetched; a full standard output goes unnoticed where lines
are printed with `Printf`; a file whose `Close` or `Chmod` fails is on the disk
and not in the count the error comes with; a layer both images have counts as
two when one comes from the daemon and one from the registry.

## Proofs

Everything below is checked by TLAPS for every value of the constants that
satisfies the assumptions named, which TLC evaluates in its runs. None of them
restricts the program: they say what kind of thing a constant is.

| assumption | says |
|---|---|
| `ImagesAssumption` | names are sequences of components, an image a sequence of layers of well-formed headers; "no content" is no content, and "no entry" no place in an image |
| `AbsentAssumption` | "no entry" is no entry |
| `FilesystemsAssumption` | a filesystem maps names to entries of the kinds tar knows, with links that are names; a request is a name |
| `MaxHopsAssumption` | the limit of hops is a natural |
| `SourcesAssumption` | what `Under` lists: sorted by path, no path twice, below a directory; no entry's content is the mark of a cut one |
| `DisksAssumption` | what is on a disk is in a directory that is, up to the root (`IsDisk`) |
| `DestsAssumption`, `FuelAssumption` | a destination is a path, the cut-off of a walk a natural |
| `RankAssumption` | the bytes of names order them: no two names have the same place (`sort.Slice` of `printTreeDir` compares strings) |
| `InputsAssumption` | flags, arguments and images are what `strings.Split`, the flag package and a registry give; one reference, for `diff` two; annotations and the words of an argv are lists of texts |

### Build (`OverlayProofs`)

`TypeCorrect`, `MergeIsCorrect`, `OwnEntriesAreKept`, `HardlinksAreLinked`,
`OthersKeepTheirContent` and `BuildRefinesMount` all follow from `Invariant`,
`Spec => []IInv`.

`MergeCorrect` speaks of the points between two layers only and says nothing of
the lists, so no step within a layer preserves it by itself. `IInv` adds what
each loop has established when its next element is at:

1. `LayerInv`: the layer applied exists, and no list outlives it.
2. `ListsInv`: each list holds what the headers read so far call for and nothing
   else, `adds` in archive order.
3. `MergeInv`: path by path, the filesystem is `Built` of the layers below
   with the first `at - 1` elements of the current list, and all of the earlier
   ones, applied. The step from the last loop's end to `Built` of one
   more layer rests on the lemmas `WhiteoutsHide` (the two removal lists cover
   exactly the paths `removeChildren` finds for the archive), `AddsProvide` (the last add of a path
   is its last header) and `BuiltStep` (how `Built` grows by a layer).
   `BuiltIsMerged` then gives the declared merge where no layer empties the root:
   there the paths removed are the paths the OCI rules hide.
4. `DepthInv`: until a layer's entries land, only lower layers are in the
   filesystem; `OwnEntriesStay` follows.
5. `ContentInv`: every entry shown is the one its header makes, up to the
   content of hardlinks, and hardlinks of finished layers, or already visited by
   the last loop, have their target's. The lemma `LinkTarget` is the core: in the
   last loop, the entry at the target's path is the last header of that path in
   the same archive.

### Names and the kernel's walk (`PathProofs`, `LookupProofs`)

`Clean` is a fold and `Kernel` a recursion over names that grow when a symlink's
target is put in front of what is left. To say anything of either, one must know
first that a function satisfying the recursion exists (`FoldsExist`,
`WalkExists`): a `CHOOSE` among none means nothing. Both are built from
approximations, by induction. The induction theorems of the library take an
operator and are out of reach, but induction does not need them: the least
element of a set of counterexamples will do. `SmallestNat`, `NatSetInduction`,
`SeqSetInduction` and `SeqTailInduction` say so with a set in place of the
predicate, and `EarlierInduction` does it for the walk, along "more hops used,
or as many and a shorter name".

From there: cleaning makes a path (`CleanType`), does nothing to one
(`CleanOfClean`), and is the same before or after more is appended
(`CleanConcat`). `KernelEnd` to `KernelOther` are the walk case by case.
`PlainLookup`, which `Resolve` rests on, says that where `..` only climbs in
front a name may be cleaned before it is walked, behind any directories. The
proof of these found two branches of the walk that overlapped (a symlink at the
hop limit and below it); `Lookup` states them apart now.

### Resolve (`ResolveProofs`)

`ResolveTypes`, `ResultsAreCanonical`, and `ResolveIsOneLookup`: `Resolve`
implements `LookupOnce`, whose one step takes one of the kernel's answers. The
invariant has two halves. `WalkInv`: the path is clean and what the walk has
come through are directories or omitted; without it nothing follows for what is
returned. `KernelInv`: from where the walk stands the kernel finds what it finds
from the start, or there is nothing further on and it finds nothing, as the code
goes on where an entry is missing and notices at the end. A step into a
directory is a step of the kernel's; a symlink makes `Resolve` start over at the
root with the target and the rest cleaned, which is where `PlainLookup` comes
in. A step that does not return is a stutter of the abstract specification, one
that does is its answer (`ReturnsAnAnswer`).

### Open and Extract (`ContentProofs`)

`ContentTypes`, `EntriesAreGivenOnce`, `NothingIsLeftOut` and
`BytesAreWhatBuildRecorded` follow from `ContentInvariant`. That nothing is
given twice takes more than the set of what was given: the entries that share
one header's bytes are taken from the map before the first is handed over, so
`EachEntryOnce`, which keeps what is wanted, being shared and given apart, is
part of the invariant. `AheadInv` says that the bytes of what is still wanted have
not been passed, so that in an archive without duplicates the end is never
reached with something left; `SourceInv` where the bytes given came from.

### A copy (`CopierProofs`)

`CopierTypes`, `NotBlocked`, `CopyStaysInside`, `CopyIsComplete` and
`CountIsTrue` follow from `CopierInvariant`, whatever is copied wherever to.
None of the properties is preserved by itself. That a write stays inside needs
that no symlink lies among its parents, which depends on every entry planned
before; that a success is complete needs that no later write undoes an earlier
one; and none of it can be said of the target without saying how every call gets
there. `IInv` adds:

1. `CallInv`: what is changed when, and that a disk stays a disk.
2. `ListsInv`: `pending` and `dirs` hold entries of the part of the tree that is
   planned, and each list is empty when its pass is over.
3. `TreeInv`, for the copy of a tree to a target with no symlinks below it. It is
   about to create the target, has failed to, or all of these hold:
   - `KeptOutside`: but for the target's own mode, nothing differs from the disk
     `MakeTarget` left, except below the target.
   - `OnWay`: the way every call takes to the target (`Way`, symlinks and `..`
     included) has directories only. It may lead through what is below the
     target, as where `h/x` is a symlink to `d/a/../..` and the copy goes to
     `h/x/d`; "nothing outside changes" alone would not keep it.
   - `LinksInv`: below the target there are no symlinks but those planned, and
     none in the middle of the path of an entry already planned. This is what
     `refuseSymlinkParents`, in a tree sorted by path, has achieved by the time
     the second pass writes the contents without looking.
   - `PlacedInv`, `WaitingInv`: what is planned is there, or in a list; where a
     file is to be written, there is what was there before, or a directory that
     will make the write fail, or what is left of a cut. Once a write has failed
     nothing can be said of the one file it was about (`odd`).
   - `AllowedInv`: until the last pass, directories allow everything if all did.
   - `files` is the number of entries settled.

The proof has three layers. Walks: a walk to the target goes the known way
and from there, with no symlink in between, name by name down (`WalkBelow`,
`WalkDown`), also where walks are cut off. Calls: what `MkdirAll`, a write, a
`chmod`, a removal and a symlink do to a disk when they are made below the
target (`MkdirBelow`, `FileBelow`, `ModeBelow`, `LinkBelow`, `DirBelow`): which
one path changes, which parents appear, and why they may fail. A call that fails
half-way leaves a disk between the two: fewer parents (`MadeBetween`), or the one
path changed to something else (`FileLeftBelow`, `LinkLeftBelow`); that the
invariant holds of all of these is `DiskErrorHolds`. Steps: one lemma
per part of the invariant and step. `CountIsTrue` counts: when no file was there
before as the image has it, what is not settled is not there either, but for
`odd`, which may be there whole without being counted.

### A run (`ProgramProofs`)

`ProgramInvariant`, with `ProgramTypes`, `RegistryIsALastResort`,
`BlobIsTheLayer`, `TagsAreNewestFirst`, `JsonIsWhole`, `BytesAreExact` and
`ExportIsTold`. `IInv` has one part per stage of a run, as none of the
properties, which speak of the end, is preserved without what led to it:
`CommandInv` (a step belongs to its command, and the command line was accepted),
`FetchInv` (before the registry, the daemon was asked for the same image and
did not give it, or the policy was to skip it), `LoadInv` (how many images are
there, how often was asked, and each filesystem is that of the layers chosen),
`DataInv` (what a command hands to its view) and `ShownInv` (until then nothing
is written but logs). `RenderTells` is the core of the last step: how many of
the writes of a rendering are taken, and which errors are seen. For it every
rendering must be known to be a sequence, whatever its data
(`HumanOutputIsSequence`, `JsonOutput`).

`ArgvReadsBack` is about every argv, so the shell of `Split` is a machine that
takes a character at a time, and gives up (`lost`) at one that stands for
something else; the theorem is about the words such a shell can keep
(`ShellKeeps`): printed in quotes, they have nothing that is expanded there and
nothing Go writes as an escape of its own; printed without, nothing with a
meaning to a shell. What it makes of a text and one more character is a step from
what it made of the text (`ReadsAppend`); from there by induction on how much of
a text is read: a plain word is taken as it is (`ReadsPlain`), an escaped
character as the character (`ReadsOne`), the inside of a quoted word as the
word (`ReadsEscaped`, `ReadsQuoted`), and each further part of a line ends one
word and begins the next (`OnePartMore`), which gives `ReadsBack`. `Joined` is a recursive
function for it, as the provers cannot unfold `FlattenSeq`. `InspectInv` says
what the data of `inspect` is, at its end: the layers of the image and its
config. `LsReads`, `TagsRead`, `CpReads` and
`InspectReads` say for all data that the two renderings of a command agree.

### ls, tree, diff, cat and cp (`CommandsProofs`)

- `DiffIsRight`: `AreDifferences` says what the differences are, path by path;
  that they turn either side into the other needs that a filesystem has one
  entry for a path (`WellMerged`, part of `LoadInv`), and that a file told as
  unchanged looks the same on both sides (`SameUnlessModified`).
- `LsIsRight`: the code matches a pattern without a slash as `**/` and the
  pattern, and one that begins with a slash against two forms of the path, the
  help says otherwise. `MatchesAsSaid` is that they agree: `OneMatchesTheLast`,
  `AbsMatchesAbs` and `AbsMatchesNoPath`, by induction on how much of a pattern
  is matched. `Match` was restated for it with a recursion of one argument, as the
  provers cannot unfold one of two.
- `TreeIsTheDirectory`: `TreeInv` is about the printer between any two lines.
  `dirs` is the map of what the filters keep, and there is a list `printed` of
  the entries the lines stand for, in their order, such that (`Printing`) no
  entry is printed or waiting twice; what waits is ordered deepest first; every
  entry, printed or waiting, is led to its own directory by the lines before it
  (`Leads`: the last line less deep than it is that directory's); and what is
  in a directory already printed is printed or waiting. `SortedIsList` says that
  sorting lists siblings once each, `ChildrenAre` that the level limit of
  `printTreeDir` adds nothing to that of the filter, `SeenStep` that an entry is
  seen exactly if it is kept and its directory is seen, `AllPrinted` that with
  nothing waiting everything seen is printed, and `DrawnIsPrinted` that a reader
  of depths and names alone gets each entry's path.
- `LayersAreTold`: `Among` keeps the elements of a sequence that are in a set,
  by a recursion the provers can unfold, as those inside the standard modules
  they cannot. It distributes over `\o` (`AmongConcat`) and keeps all or nothing
  of what is all in the set or all out of it (`AmongAllOrNone`), so that each
  list of lines falls into what the first image says and what the second adds,
  each in its order and as often as it is there. `LoadInv` says for it that a manifest is a sequence.
- `ViewsAgree`: a reader of the tables gets what the document says. `ls`, `tags`, `cp` and
  `inspect` are lemmas of `ProgramProofs`; `diff` needs more. A row is read back
  as a file and what happened to it (`MarkersRead`, `FilesAreTold`), a layer's line as the layer and its
  side (`LinesTell`, `LayersRead`), and the summary of the document counts the rows
  of each kind (`RowsCount`, `SummaryCounts`), which is so only if no path has
  two differences and they are finitely many: `DiffStep` has the first from
  `AreDifferences`, `FinitePaths` the second from `EntriesAreFinite`.
- `FilesAreTheChosenLayers`: an entry is read again as the first header of its
  name, or its hardlink's target, in the archive its index leads to.
  `EntriesAreMade` leads each entry of a merge back to one header, `ReadsItsContent` from there
  to the bytes, where the archive gives no path twice; `KernelPlaces`, by
  `EarlierInduction`, says that the kernel's walk ends at the root, at an entry
  or above one, so that what `Find` takes is an entry of the filesystem.

### Only model-checked

- Termination of `Build`, `Resolve` and `Content`, and `EndsOnceLoaded`:
  liveness under fairness is beyond the prover.

## Not modelled

- Sizes as numbers (`FormatBytes`), mode strings (`ModeString`) beyond the type
  they begin with, colours, column widths, dates, the wording of messages and
  of log lines: layout, which no property is about.
- Shell completion, `cek` without a command, and the texts of help.
- `Lookup` and `Len` of a filesystem, which only tests call.
- gzip, the tar format and the registry and daemon protocols: libraries. Their
  failures are the error actions.
- The fields of a header cek ignores (owner, times, device numbers).
- Two commands at once: nothing is shared between processes but the disk
  copied to, and there the code takes no precaution a model could check.

## Plan

Every component is modelled, and every safety property the passing runs check is
proved. Left: a copy as an abstract
specification (the tree at once, on success). It would add to `CopiesTheTree`
only the steps in between, which a failure makes visible.
