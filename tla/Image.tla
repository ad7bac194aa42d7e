------------------------------- MODULE Image -------------------------------
(***************************************************************************)
(* What overlay.go reads: an image is a sequence of layers, a layer an     *)
(* uncompressed tar archive, an archive a sequence of headers with their   *)
(* content.  Here are the headers and how the reading loop of apply()      *)
(* classifies them; what is done with them is in Overlay.                  *)
(***************************************************************************)
EXTENDS Paths

CONSTANTS
  RawNames,   \* the names headers carry, as raw names
  Contents,   \* the contents of regular files; a content stands for its
              \* bytes, their number and their SHA-256
  NoContent,  \* size 0 and the empty digest
  Modes,      \* permission and special bits
  Absent,     \* what a path without an entry maps to
  Stem,       \* whiteout name |-> what strings.TrimPrefix leaves after ".wh.",
              \* as a raw name: ".wh.a" :> <<"a">>, ".wh..." :> <<"..">>
  Images      \* the images that may be given to Build

OpaqueMark == ".wh..wh..opq"

\* tar.TypeReg and TypeRegA, TypeDir, TypeSymlink, TypeLink, the devices and
\* fifos, and TypeXGlobalHeader
Kinds == {"reg", "dir", "symlink", "hardlink", "device", "global"}

Header == [name: RawNames, kind: Kinds, mode: Modes,
           link: RawNames \cup {<< >>}, content: Contents \cup {NoContent}]

\* Only regular files have content, only links a target.
WellFormed(h) ==
  /\ h.kind = "reg" <=> h.content # NoContent
  /\ h.kind \in {"symlink", "hardlink"} <=> h.link # << >>

\* "no entry" is told apart from every place a header can have in an image.
ASSUME ImagesAssumption ==
  /\ RawNames \subseteq Seq(STRING)
  /\ NoContent \notin Contents
  /\ Absent \notin [layer : Nat, pos : Nat]
  /\ Images \subseteq Seq(Seq({h \in Header : WellFormed(h)}))

\* Without a link, a header's link is the empty name, which cleans to the root.
Path == {Clean(n) : n \in RawNames \cup {<< >>}}

-----------------------------------------------------------------------------
\* The branches of the reading loop, in its order.

Ignored(h) == h.kind = "global" \/ Clean(h.name) = Root

Opaque(h) == ~Ignored(h) /\ Base(Clean(h.name)) = OpaqueMark

Whiteout(h) ==
  ~Ignored(h) /\ ~Opaque(h) /\ Base(Clean(h.name)) \in DOMAIN Stem

Adds(h) == ~Ignored(h) /\ ~Opaque(h) /\ ~Whiteout(h)

\* The directory an opaque whiteout empties.
OpaqueDir(h) == Dir(Clean(h.name))

\* path.Join(path.Dir(p), TrimPrefix(base, ".wh.")): Join cleans, so a bare
\* ".wh." names its own directory.
WhiteoutTarget(h) ==
  LET p == Clean(h.name) IN Clean(Dir(p) \o Stem[Base(p)])

-----------------------------------------------------------------------------
(***************************************************************************)
(* What Build promises (overlay.go:135-138): "Layers apply in order, later *)
(* ones overriding earlier ones, and whiteouts remove what lower layers    *)
(* added."  Stated path by path over the archives, with none of the lists  *)
(* and loops of the code.                                                  *)
(***************************************************************************)

\* The headers of an archive that add path p.
Positions(archive, p) ==
  {k \in DOMAIN archive : Adds(archive[k]) /\ Clean(archive[k].name) = p}

\* One of the archive's whiteouts removes p from the layers below: what it
\* names, subtree included, or what is in the directory it empties, the root too.
Hides(archive, p) ==
  \E k \in DOMAIN archive :
    LET h == archive[k] IN
    \/ Whiteout(h) /\ IsPrefix(WhiteoutTarget(h), p)
    \/ Opaque(h) /\ IsStrictPrefix(OpaqueDir(h), p)

\* The layers among the first n that add p with none above that takes it away.
LayersWith(img, n, p, Gone(_, _)) ==
  {i \in 1..n : /\ Positions(img[i], p) # {}
                /\ \A j \in (i + 1)..n : ~Gone(img[j], p)}

Sources(img, n, p) == LayersWith(img, n, p, Hides)

\* The header that provides p if these layers do: the last of the uppermost.
Provider(img, layers, p) ==
  LET i == Max(layers) IN [layer |-> i, pos |-> Max(Positions(img[i], p))]

ProviderIfAny(img, layers, p) == IF layers = {} THEN Absent ELSE Provider(img, layers, p)

\* What provides each path once n layers are merged.
Merged(img, n) == [p \in Path |-> ProviderIfAny(img, Sources(img, n, p), p)]

-----------------------------------------------------------------------------
(***************************************************************************)
(* What Build makes instead, likewise path by path.  removeChildren looks  *)
(* for the prefix "//" below the root, and finds nothing: whatever empties *)
(* the root leaves it as it is.                                            *)
(***************************************************************************)

Removes(archive, p) ==
  \E k \in DOMAIN archive :
    LET h == archive[k] IN
    \/ Whiteout(h) /\ (p = WhiteoutTarget(h) \/ Below(WhiteoutTarget(h), p))
    \/ Opaque(h) /\ Below(OpaqueDir(h), p)

KeptLayers(img, n, p) == LayersWith(img, n, p, Removes)

Built(img, n) == [p \in Path |-> ProviderIfAny(img, KeptLayers(img, n, p), p)]

\* Such an archive, and one among the first n layers that has layers below it.
EmptiesRoot(archive) ==
  \E k \in DOMAIN archive :
    LET h == archive[k] IN
    \/ Whiteout(h) /\ WhiteoutTarget(h) = Root
    \/ Opaque(h) /\ OpaqueDir(h) = Root

RootEmptied(img, n) == \E i \in 2..n : EmptiesRoot(img[i])
=============================================================================
