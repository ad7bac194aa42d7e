----------------------------- MODULE MCContent -----------------------------
(***************************************************************************)
(* Archives of up to three headers, with hardlinks before and after their  *)
(* target, chains of them, two names for one content and names given       *)
(* twice; alone, or with a lower and an upper layer of one header.         *)
(***************************************************************************)
EXTENDS Content, SmallImages

Used == {DirA, FileA, FileAB, FileAB2, FileB, LinkBtoAB, LinkCtoAB, LinkABtoB}

Other == {WhA, FileAB2}

MCRawNames == {h.name : h \in Used \cup Other} \cup {h.link : h \in Used \cup Other}

AllImages ==
  {<<x>> : x \in SeqOf(Used, 3)}
    \cup {<< <<x>>, <<y, z>> >> : x \in Other, y \in Used, z \in Used}
    \cup {<< <<y, z>>, <<x>> >> : x \in Other, y \in Used, z \in Used}

\* Enumerated once: TLC tests membership in it in the assumption on images.
MCImages == {i \in AllImages : TRUE}
=============================================================================
