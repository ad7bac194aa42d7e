------------------------------ MODULE Overlay ------------------------------
(***************************************************************************)
(* overlay.Build and builder.apply (internal/overlay/overlay.go): each     *)
(* layer's archive is read to its end into four lists, then the lists are  *)
(* applied to the filesystem in four loops, whiteouts first.               *)
(*                                                                         *)
(* One action is one iteration of a loop or the code between two loops.    *)
(* An entry of the code is a pointer, shared by fs.entries, adds and       *)
(* links; the header it was made from identifies it (layer and pos).       *)
(***************************************************************************)
EXTENDS Image

VARIABLES
  image,      \* the layers given to Build
  digests,    \* WithDigests
  pc,         \* the loop being run
  layer,      \* the layer being applied, counted from 1 (the code's index + 1)
  at,         \* the next element of the loop being run
  adds,       \* entries of this archive, in its order
  links,      \* the hardlinks among them
  whiteouts,  \* paths removed from lower layers, subtree included
  opaques,    \* directories whose lower-layer children are removed
  entries     \* FS.entries: path |-> entry or Absent

lists == <<adds, links, whiteouts, opaques>>
vars  == <<image, digests, pc, layer, at, adds, links, whiteouts, opaques, entries>>

archive == image[layer]
header  == archive[at]

Empty == [p \in Path |-> Absent]

\* The Entry made for the header at position k of layer i.  A hardlink gets
\* its size and digest only in the last loop.
EntryOf(i, k) ==
  LET h == image[i][k] IN
  [path |-> Clean(h.name), kind |-> h.kind, mode |-> h.mode, link |-> h.link,
   layer |-> i, pos |-> k,
   size |-> h.content,
   digest |-> IF digests THEN h.content ELSE NoContent]

-----------------------------------------------------------------------------

Init ==
  /\ image \in Images
  /\ digests \in BOOLEAN
  /\ pc = "open"
  /\ layer = 1
  /\ at = 1
  /\ adds = << >> /\ links = << >> /\ whiteouts = << >> /\ opaques = << >>
  /\ entries = Empty

\* The lists of apply() go out of scope.
DropLists == adds' = << >> /\ links' = << >> /\ whiteouts' = << >> /\ opaques' = << >>

\* An error: Build returns nil and everything built so far is lost.
Abort ==
  /\ pc' = "failed"
  /\ at' = 1
  /\ DropLists
  /\ entries' = Empty
  /\ UNCHANGED <<image, digests, layer>>

\* layer.Uncompressed() opens the archive of the next layer.
OpenLayer ==
  /\ pc = "open" /\ layer <= Len(image)
  /\ pc' = "read"
  /\ UNCHANGED <<image, digests, layer, at, lists, entries>>

OpenError == pc = "open" /\ layer <= Len(image) /\ Abort

\* No layer is left: return fs.
Return ==
  /\ pc = "open" /\ layer > Len(image)
  /\ pc' = "done"
  /\ UNCHANGED <<image, digests, layer, at, lists, entries>>
-----------------------------------------------------------------------------
\* The reading loop: one header an iteration.

Reading == pc = "read" /\ at <= Len(archive)

\* mutant: a truncated archive is taken for its end
HeaderErrorAsEnd ==
  /\ pc = "read"
  /\ pc' = "whiteouts" /\ at' = 1
  /\ UNCHANGED <<image, digests, layer, lists, entries>>

\* tr.Next() fails, at a header or where the archive should have ended.
HeaderError == pc = "read" /\ Abort

\* The content is only read, and can only fail to, when it is hashed.
DigestError ==
  Reading /\ digests /\ Adds(header) /\ header.kind = "reg" /\ Abort

\* mutant: continue comes back to the same header
IgnoreHeaderAgain == Reading /\ Ignored(header) /\ UNCHANGED vars

IgnoreHeader ==
  /\ Reading /\ Ignored(header)
  /\ at' = at + 1
  /\ UNCHANGED <<image, digests, pc, layer, lists, entries>>

ReadOpaque ==
  /\ Reading /\ Opaque(header)
  /\ opaques' = Append(opaques, OpaqueDir(header))
  /\ at' = at + 1
  /\ UNCHANGED <<image, digests, pc, layer, adds, links, whiteouts, entries>>

ReadWhiteout ==
  /\ Reading /\ Whiteout(header)
  /\ whiteouts' = Append(whiteouts, WhiteoutTarget(header))
  /\ at' = at + 1
  /\ UNCHANGED <<image, digests, pc, layer, adds, links, opaques, entries>>

\* mutant: the entry lands in the filesystem while the archive is still read
ReadEntryAtOnce ==
  /\ Reading /\ Adds(header)
  /\ adds' = adds
  /\ entries' = [entries EXCEPT ![Clean(header.name)] = EntryOf(layer, at)]
  /\ links' = IF header.kind = "hardlink"
              THEN Append(links, EntryOf(layer, at)) ELSE links
  /\ at' = at + 1
  /\ UNCHANGED <<image, digests, pc, layer, whiteouts, opaques>>

ReadEntry ==
  /\ Reading /\ Adds(header)
  /\ adds' = Append(adds, EntryOf(layer, at))
  /\ links' = IF header.kind = "hardlink"
              THEN Append(links, EntryOf(layer, at)) ELSE links
  /\ at' = at + 1
  /\ UNCHANGED <<image, digests, pc, layer, whiteouts, opaques, entries>>

\* io.EOF
EndOfArchive ==
  /\ pc = "read" /\ at > Len(archive)
  /\ pc' = "whiteouts" /\ at' = 1
  /\ UNCHANGED <<image, digests, layer, lists, entries>>
-----------------------------------------------------------------------------
\* The four loops over the lists.

EndLoop(list, loop, next) ==
  /\ pc = loop /\ at > Len(list)
  /\ pc' = next /\ at' = 1
  /\ UNCHANGED <<image, digests, layer, lists, entries>>

\* removeChildren and removeTree
WithoutChildren(fs, d) == [p \in Path |-> IF Below(d, p) THEN Absent ELSE fs[p]]

\* mutants: a whiteout leaves a nil entry behind; it forgets the subtree
WithoutTreeNil(fs, w) ==
  [p \in Path |-> IF p = w \/ Below(w, p) THEN NoContent ELSE fs[p]]
WithoutPathOnly(fs, w) == [p \in Path |-> IF p = w THEN Absent ELSE fs[p]]

WithoutTree(fs, w) ==
  [p \in Path |-> IF p = w \/ Below(w, p) THEN Absent ELSE fs[p]]

ApplyWhiteout ==
  /\ pc = "whiteouts" /\ at <= Len(whiteouts)
  /\ entries' = WithoutTree(entries, whiteouts[at])
  /\ at' = at + 1
  /\ UNCHANGED <<image, digests, pc, layer, lists>>

EndWhiteouts == EndLoop(whiteouts, "whiteouts", "opaques")

ApplyOpaque ==
  /\ pc = "opaques" /\ at <= Len(opaques)
  /\ entries' = WithoutChildren(entries, opaques[at])
  /\ at' = at + 1
  /\ UNCHANGED <<image, digests, pc, layer, lists>>

EndOpaques == EndLoop(opaques, "opaques", "adds")

ApplyAdd ==
  /\ pc = "adds" /\ at <= Len(adds)
  /\ entries' = [entries EXCEPT ![adds[at].path] = adds[at]]
  /\ at' = at + 1
  /\ UNCHANGED <<image, digests, pc, layer, lists>>

EndAdds == EndLoop(adds, "adds", "links")

\* mutants: the digest is not passed on; the entry is found by path alone
SetSizeOnly(fs, l, target) ==
  [p \in Path |->
     IF fs[p] # Absent /\ fs[p].layer = l.layer /\ fs[p].pos = l.pos
     THEN [fs[p] EXCEPT !.size = target.size] ELSE fs[p]]
SetContentByPath(fs, l, target) ==
  [fs EXCEPT ![l.path] = [fs[l.path] EXCEPT !.size = target.size,
                                            !.digest = target.digest]]

\* The entry is updated through its pointer: the filesystem shows the change
\* at its path, unless a later header of the archive has taken the path over.
SetContent(fs, l, target) ==
  [p \in Path |->
     IF fs[p] # Absent /\ fs[p].layer = l.layer /\ fs[p].pos = l.pos
     THEN [fs[p] EXCEPT !.size = target.size, !.digest = target.digest]
     ELSE fs[p]]

ApplyLink ==
  /\ pc = "links" /\ at <= Len(links)
  /\ LET l == links[at]
         t == entries[Clean(l.link)]
     IN  entries' = IF t # Absent THEN SetContent(entries, l, t) ELSE entries
  /\ at' = at + 1
  /\ UNCHANGED <<image, digests, pc, layer, lists>>

\* apply() returns nil and Build goes on with the next layer.
EndLayer ==
  /\ pc = "links" /\ at > Len(links)
  /\ pc' = "open" /\ at' = 1 /\ layer' = layer + 1
  /\ DropLists
  /\ UNCHANGED <<image, digests, entries>>
-----------------------------------------------------------------------------

Stopped == pc \in {"done", "failed"} /\ UNCHANGED vars

Step ==
  \/ OpenLayer \/ Return
  \/ IgnoreHeader \/ ReadOpaque \/ ReadWhiteout \/ ReadEntry \/ EndOfArchive
  \/ ApplyWhiteout \/ EndWhiteouts \/ ApplyOpaque \/ EndOpaques
  \/ ApplyAdd \/ EndAdds \/ ApplyLink \/ EndLayer

Error == OpenError \/ HeaderError \/ DigestError

Next == Step \/ Error \/ Stopped

Spec == Init /\ [][Next]_vars

\* A sequential program runs until it stops; errors need not happen.
FairSpec == Spec /\ WF_vars(Step)
-----------------------------------------------------------------------------
(***************************************************************************)
(* Properties.                                                             *)
(***************************************************************************)

Locations == {"open", "read", "whiteouts", "opaques", "adds", "links", "done", "failed"}

RemovalTargets ==
  {OpaqueDir(h) : h \in {g \in Header : Opaque(g)}}
    \cup {WhiteoutTarget(h) : h \in {g \in Header : Whiteout(g)}}

Entry == [path : Path, kind : Kinds, mode : Modes, link : RawNames \cup {<< >>},
          layer : Nat, pos : Nat,
          size : Contents \cup {NoContent}, digest : Contents \cup {NoContent}]

\* "no entry" is told apart from every entry, too
ASSUME AbsentAssumption == Absent \notin Entry

\* Every variable holds a value of its kind; in particular the lists and the
\* filesystem only ever hold entries of paths the archives can name.
TypeOK ==
  /\ image \in Seq(Seq(Header))
  /\ digests \in BOOLEAN
  /\ pc \in Locations
  /\ layer \in Nat \ {0}
  /\ at \in Nat \ {0}
  /\ adds \in Seq(Entry) /\ links \in Seq(Entry)
  /\ whiteouts \in Seq(RemovalTargets) /\ opaques \in Seq(RemovalTargets)
  /\ entries \in [Path -> Entry \cup {Absent}]

\* Which header provides each path, the rest of the entry left out.
Providers ==
  [p \in Path |-> IF entries[p] = Absent THEN Absent
                  ELSE [layer |-> entries[p].layer, pos |-> entries[p].pos]]

\* Between two layers and at the end, whatever the order of the headers in
\* each archive, the filesystem is the merge of the layers applied so far: the
\* last header of the uppermost layer that adds the path, unless a layer above
\* that one hides it (overlay.go:135-138 and 222-232).  Not so where a layer
\* empties the root, which removeChildren cannot do.
MergeCorrect ==
  pc \in {"open", "done"} /\ ~RootEmptied(image, layer - 1) =>
    Providers = Merged(image, layer - 1)

\* "Directories whose lower-layer children are removed" (overlay.go:167): of an
\* image with an opaque whiteout in the root, nothing from below its layer is
\* shown, the root being a directory like any other.
OpaqueRootHides ==
  pc = "done" =>
    \A i \in DOMAIN image : \A k \in DOMAIN image[i] :
      Opaque(image[i][k]) /\ OpaqueDir(image[i][k]) = Root =>
        \A p \in Path : entries[p] # Absent => entries[p].layer >= i

\* A whiteout never takes away what its own layer adds, although the archive
\* may list it after the entry it names (overlay.go:222-223).
KeepsOwnEntries ==
  \A p \in Path :
    pc' # "failed" /\ entries[p] # Absent /\ entries'[p] = Absent
    => entries[p].layer < layer

OwnEntriesStay == [][KeepsOwnEntries]_vars

\* "A hardlink's content lives at its target in the same archive"
\* (overlay.go:234): once Build is done, a hardlink whose name in its own
\* archive last stands for a regular file has that file's size and digest,
\* whatever became of the file in later layers.
HasTargetContent(e) ==
  LET ks == Positions(image[e.layer], Clean(e.link))
      t  == image[e.layer][Max(ks)]
  IN  ks # {} /\ t.kind = "reg" =>
        /\ e.size = t.content
        /\ e.digest = IF digests THEN t.content ELSE NoContent

HardlinkContent ==
  pc = "done" =>
    \A p \in Path : entries[p] # Absent /\ entries[p].kind = "hardlink"
                    => HasTargetContent(entries[p])

\* What diff compares is what the archive says: an entry that is not a
\* hardlink keeps its own header's size and digest through the loop that
\* writes to entries through the pointers of links (overlay.go:235-240).
OtherContentKept ==
  pc = "done" =>
    \A p \in Path :
      LET e == entries[p] IN
      (e # Absent /\ e.kind # "hardlink") => e = EntryOf(e.layer, e.pos)

\* Build is one call to its caller: a failure in any layer leaves nothing
\* behind, a success returns what all of them make, for every image
\* (overlay.go:139-152).
AllBuilt(img) == Built(img, Len(img))

Mount == INSTANCE OverlayMount WITH
  Nothing <- Empty,
  Mounted <- AllBuilt,
  status  <- IF pc \in {"done", "failed"} THEN pc ELSE "building",
  fs      <- IF pc = "done" THEN Providers ELSE Empty

BuildIsAtomic == Mount!MountSpec

\* Build returns: every loop of every layer comes to its end or to an error.
Terminates == <>(pc \in {"done", "failed"})

\* "cek ls shows the merged overlay filesystem, which is what you see inside a
\* running container" (README.md:43-44): when an upper layer puts something
\* that is not a directory where a lower layer had one, the lower layer's
\* files below it cannot be seen.
NothingBelowAReplacedDirectory ==
  pc = "done" =>
    \A p, q \in Path :
      (entries[p] # Absent /\ entries[q] # Absent /\ Below(p, q)
         /\ entries[q].layer < entries[p].layer)
      => entries[p].kind = "dir"
=============================================================================
