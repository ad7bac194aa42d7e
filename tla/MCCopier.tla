------------------------------ MODULE MCCopier ------------------------------
(***************************************************************************)
(* Trees of a directory with what may be at a, below a and at b, from two  *)
(* layers, copied to disks where the destination is missing, a directory   *)
(* with something in it, a file or a symlink, below a symlink, or behind   *)
(* one that leads through the directory copied to.                         *)
(***************************************************************************)
EXTENDS CopierInv

E(rel, kind, mode, link, layer) ==
  [rel |-> rel, kind |-> kind, mode |-> mode, link |-> link, layer |-> layer,
   content |-> IF kind \in {"reg", "hardlink"} THEN "new" ELSE ""]

ReadOnly == {"r", "x"}
NoSearch == {"r", "w"}

AtRoot == {E(<< >>, "dir", md, << >>, 1) : md \in {Full, ReadOnly}}

AtA == {E(<<"a">>, "dir", md, << >>, 1) : md \in {Full, ReadOnly, NoSearch}}
         \cup {E(<<"a">>, "reg", Full, << >>, 2), E(<<"a">>, "symlink", Full, <<"", "o">>, 2)}

AtAB == {E(<<"a", "b">>, "reg", {"r"}, << >>, 1), E(<<"a", "b">>, "dir", Full, << >>, 2),
         E(<<"a", "b">>, "symlink", Full, <<"..", "b">>, 1)}

AtB == {E(<<"b">>, "hardlink", Full \cup {"s"}, << >>, 1), E(<<"b">>, "device", Full, << >>, 2)}

\* Nothing, or one of them.
Maybe(entries) == {<< >>} \cup {<<e>> : e \in entries}

Trees == {x \o y \o z : x \in Maybe(AtA), y \in Maybe(AtAB), z \in Maybe(AtB)}

MCSources ==
  {[root |-> r, base |-> <<"n">>, contentsOnly |-> FALSE, tree |-> <<r>> \o t]
     : r \in AtRoot, t \in Trees}
    \cup {[root |-> E(<< >>, "dir", Full, << >>, 1), base |-> << >>, contentsOnly |-> TRUE,
           tree |-> t] : t \in Trees}                        \* the image's root
    \cup {[root |-> E(<< >>, k, Full, << >>, 1), base |-> <<"n">>, contentsOnly |-> c,
           tree |-> << >>] : k \in {"reg", "device"}, c \in BOOLEAN}

H == <<"h">>
D == <<"h", "d">>

Base0 == (Root :> Directory(Full)) @@ (H :> Directory(Full)) @@ (<<"o">> :> Directory(Full))
           @@ (<<"o", "b">> :> File(Full, "old")) @@ (<<"l">> :> Symlink(<<"", "o">>))

WithDir == (D :> Directory(Full)) @@ Base0

MCDisks ==
  {Base0,
   WithDir,
   (D :> File(Full, "old")) @@ Base0,
   (D :> Symlink(<<"", "o">>)) @@ Base0,
   (D :> Directory(ReadOnly)) @@ Base0,
   (<<"h", "d", "n">> :> Directory(Full)) @@ (<<"h", "d", "n", "b">> :> File({"r"}, "old")) @@ WithDir,
   (<<"h", "d", "a">> :> Directory(Full)) @@ (<<"h", "d", "a", "b">> :> File(Full, "old")) @@ WithDir,
   (<<"h", "d", "a">> :> Symlink(<<"", "o">>)) @@ WithDir,
   (<<"h", "d", "b">> :> File(Full, "new")) @@ WithDir,
   (<<"h", "d", "a">> :> Directory(Full)) @@ (<<"h", "x">> :> Symlink(<<"d", "a", "..", "..">>))
     @@ WithDir}

MCDests == {D, <<"h", "x", "d">>, <<"l", "d">>}
=============================================================================
