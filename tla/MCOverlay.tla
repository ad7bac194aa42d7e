----------------------------- MODULE MCOverlay -----------------------------
(***************************************************************************)
(* Small images for Overlay: every header that matters to apply() over a   *)
(* directory /a with a child and a file /b, in every order, in up to three *)
(* layers.                                                                 *)
(***************************************************************************)
EXTENDS OverlayInv, SmallImages

Common == {WhA, OpaqueA, FileA, FileAB, LinkBtoAB}

Rare == {DirA, FileAB2,
         H(<<".">>, "dir", << >>, none),               \* the root itself
         H(<<"pax">>, "global", << >>, none),
         H(<<OpaqueMark>>, "reg", << >>, c1),          \* opaque root
         H(<<"a", ".wh.b">>, "reg", << >>, c1),
         H(<<"a", ".wh.">>, "reg", << >>, c1),         \* names /a
         H(<<"a", ".wh...">>, "reg", << >>, c1),       \* names the root
         FileB,
         H(B, "symlink", <<"..", "a">>, none),
         LinkABtoB}

MCRawNames ==
  {h.name : h \in Common \cup Rare} \cup {h.link : h \in Common \cup Rare}

\* Two layers of up to two common headers, three layers of at most one, one
\* layer of three with a rare header among them, and a rare header together
\* with any other, before or after it, above a layer of at most one.
AllImages ==
  LET Short == SeqOf(Common, 2)
      One   == SeqOf(Common, 1)
      Both  == Common \cup Rare
  IN  {<<x, y>> : x \in Short, y \in Short}
      \cup {<<x, y, z>> : x \in One, y \in One, z \in One}
      \cup {<< <<x, y, z>> >> : x \in Common, y \in Rare, z \in Common}
      \cup {<< <<x, y, z>> >> : x \in Rare, y \in Common, z \in Common}
      \cup {<<x, <<r, y>> >> : x \in One, r \in Rare, y \in Both}
      \cup {<<x, <<y, r>> >> : x \in One, r \in Rare, y \in Common}

\* The same set, enumerated once: TLC tests membership in it at every state.
MCImages == {i \in AllImages : TRUE}
=============================================================================
