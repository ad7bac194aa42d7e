---------------------------- MODULE SmallImages ----------------------------
(***************************************************************************)
(* Headers for small images: a directory /a with a child, files /b and /c, *)
(* their whiteouts and hardlinks.  Names are written the ways archives     *)
(* write them.                                                             *)
(***************************************************************************)
EXTENDS Image

CONSTANTS c1, c2, none, absent, m

A  == <<".", "a", "">>      \* "./a/"
AB == <<"a", "b">>
B  == <<"", "b">>           \* "/b"

MCStem == (".wh.a" :> <<"a">>) @@ (".wh.b" :> <<"b">>) @@ (".wh." :> << >>)
          @@ (".wh..." :> <<"..">>)

H(name, kind, link, content) ==
  [name |-> name, kind |-> kind, mode |-> m, link |-> link, content |-> content]

WhA      == H(<<".wh.a">>, "reg", << >>, c1)
OpaqueA  == H(<<"a", OpaqueMark>>, "reg", << >>, c1)
DirA     == H(A, "dir", << >>, none)
FileA    == H(A, "reg", << >>, c1)
FileAB   == H(AB, "reg", << >>, c1)
FileAB2  == H(AB, "reg", << >>, c2)
LinkBtoAB == H(B, "hardlink", AB, none)
LinkCtoAB == H(<<"c">>, "hardlink", AB, none)
LinkABtoB == H(AB, "hardlink", B, none)
FileB     == H(B, "reg", << >>, c2)
=============================================================================
