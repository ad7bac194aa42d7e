---------------------------- MODULE MCCommands ----------------------------
(***************************************************************************)
(* Small command lines and images for Program: a directory /a with a child *)
(* a hidden child and a directory with a file, a file /ab that begins like *)
(* it and a file /b, with the parents there or left out.  Every image goes *)
(* through every listing, every pair of images through diff, and one image *)
(* through every policy, platform and holder; layered ones with links are  *)
(* read by cat and cp, and every command runs in both views, with and      *)
(* without logs, into a standard output that is full sooner or later.      *)
(***************************************************************************)
EXTENDS Program

CONSTANTS c1, c2, none, absent, m1, m2

H(name, kind, mode, link, content) ==
  [name |-> name, kind |-> kind, mode |-> mode, link |-> link, content |-> content]

Reg(name, mode, content) == H(name, "reg", mode, << >>, content)
DirAt(name) == H(name, "dir", m1, << >>, none)

A  == <<"a">>
AB == <<"a", "b">>
AH == <<"a", ".h">>
AD == <<"a", "ab">>
ADB == <<"a", "ab", "b">>
N  == <<"ab">>
B  == <<"b">>

AtAB == {<< >>, <<Reg(AB, m1, c1)>>, <<Reg(AB, m1, c2)>>}
AtB  == {<< >>, <<Reg(B, m1, c1)>>, <<Reg(B, m2, c1)>>, <<H(B, "hardlink", m1, AB, none)>>,
         <<H(B, "symlink", m1, A, none)>>, <<DirAt(B)>>}

Deep == <<DirAt(A), Reg(AH, m1, c1), DirAt(AD), Reg(ADB, m1, c2), Reg(N, m1, c1)>>

Tree(x, y, z) == << x \o y \o z >>

\* One layer; the directory is there, left out, or a file instead.
OneLayer == {Tree(<<DirAt(A)>>, y, z) : y \in AtAB, z \in AtB}
              \cup {Tree(<< >>, y, z) : y \in AtAB, z \in AtB}
              \cup {Tree(<<Reg(A, m1, c1)>>, << >>, z) : z \in AtB}

Upper == {<<Reg(<<"a", ".wh.b">>, m1, c1)>>, <<Reg(AB, m2, c2)>>, Deep}

Layered == {<<l, u>> : l \in {<<DirAt(A), Reg(AB, m1, c1)>>, <<Reg(B, m1, c1)>>}, u \in Upper}
             \cup {<< <<Reg(B, m1, c1)>>, <<Reg(B, m1, c1)>> >>}

Compared == {Tree(<<DirAt(A)>>, y, z) : y \in AtAB, z \in AtB}
              \cup {Tree(<<Reg(A, m1, c1)>>, << >>, << >>), <<Deep>>} \cup Layered

Listed == OneLayer \cup Layered \cup {<<Deep>>}

Held(name, platform, layers, index) ==
  [ref |-> name, platform |-> platform, layers |-> layers, index |-> index]

Default ==
  [name |-> "ls", refs |-> <<"x">>, policy |-> "always", platform |-> "",
   path |-> NoArgument, layer |-> -1, pattern |-> NoArgument, all |-> TRUE,
   dirsOnly |-> FALSE, exclude |-> NoArgument, level |-> -1, dirsFirst |-> FALSE,
   daemon |-> {}, registry |-> {},
   args |-> 0, flags |-> {}, env |-> "", room |-> 99,
   limit |-> 0, tags |-> << >>, broken |-> FALSE, valid |-> TRUE,
   config |-> [field \in ToSet(ConfigFields) |-> << >>], annotations |-> << >>]

\* A command line that gives just what i needs.
Typed(i) ==
  LET Given(set, flag) == IF set THEN {flag} ELSE {}
      path == IF i.path = NoArgument THEN 0 ELSE 1
  IN  [i EXCEPT
        !.args = CASE i.name = "version" -> 0 [] i.name \in {"ls", "tree"} -> 1 + path
                   [] i.name = "diff" -> 2 + path [] i.name = "cat" -> 2 [] i.name = "cp" -> 3
                   [] OTHER -> 1,
        !.flags = @ \cup Given(i.policy # "", "pull") \cup Given(i.platform # "", "platform")
                    \cup Given(i.layer # -1 \/ i.name = "blob", "layer")
                    \cup Given(i.pattern # NoArgument, "filter")
                    \cup Given(i.name = "tree" /\ i.level # -1, "L")
                    \cup Given(i.name = "tree" /\ i.all, "all") \cup Given(i.dirsOnly, "d")
                    \cup Given(i.exclude # NoArgument, "I") \cup Given(i.dirsFirst, "dirsfirst")
                    \cup Given(i.name = "export", "output") \cup Given(i.limit # 0, "limit")]

With(layers) == [Default EXCEPT !.registry = {Held("x", DefaultPlatform, layers, TRUE)}]

MCPaths == {NoArgument, <<"", "a", "">>, <<"a">>, <<"", "">>, <<"a", "..">>, <<"", "a", "ab">>}

LsInputs ==
  {[With(i) EXCEPT !.path = p] : i \in Listed, p \in MCPaths}
    \cup {[With(i) EXCEPT !.layer = l] : i \in Layered, l \in 0..3}
    \cup {[With(i) EXCEPT !.path = p, !.pattern = g] :
            i \in Layered, p \in {NoArgument, A},
            g \in {<<"b">>, <<"b*">>, <<"a", "b*">>, <<"", "a", "b*">>, <<"", "**", "b*">>}}

TreeInputs ==
  {[With(i) EXCEPT !.name = "tree", !.path = p, !.all = a, !.level = l] :
     i \in Listed, p \in MCPaths, a \in BOOLEAN, l \in {-1, 1}}
    \cup {[With(<<Deep>>) EXCEPT !.name = "tree", !.level = l, !.dirsOnly = d, !.exclude = x,
                                 !.dirsFirst = f] :
            l \in 0..3, d \in BOOLEAN, f \in BOOLEAN,
            x \in {NoArgument, <<"b*">>, <<"ab">>, <<"", "a", "ab">>, <<"a">>}}

\* The first image may come from the daemon.
DiffInputs ==
  {[Default EXCEPT !.name = "diff", !.refs = <<"x", "y">>, !.path = p, !.policy = "",
                   !.daemon = {Held("x", DefaultPlatform, i, FALSE)},
                   !.registry = {Held("x", DefaultPlatform, i, TRUE),
                                 Held("y", DefaultPlatform, j, FALSE)}] :
     i \in Compared, j \in Compared, p \in {NoArgument, <<"", "a", "">>}}

FetchInputs ==
  LET some == << <<Reg(B, m1, c1)>> >>
      arm  == Held("x", "linux/arm64", << <<Reg(B, m1, c2)>> >>, TRUE)
      amd  == Held("x", DefaultPlatform, some, TRUE)
  IN  {[Default EXCEPT !.policy = q, !.platform = p, !.daemon = d, !.registry = r, !.refs = f] :
         q \in {"always", "if-not-present", "never", "", "Always"},
         p \in {"", DefaultPlatform, "linux/arm64", "linux/"},
         d \in {{}, {arm}, {amd}},
         r \in {{}, {arm, amd}, {Held("x", DefaultPlatform, some, FALSE)}},
         f \in {<<"x">>, <<"X">>}}

\* Files overwritten, linked to and left without their parent, for cat and cp.
Linked ==
  LET base == <<DirAt(A), Reg(AB, m1, c1), H(N, "symlink", m1, A, none),
                H(B, "hardlink", m1, AB, none)>>
  IN  {<<base, u>> : u \in {<<Reg(AB, m1, c2)>>, <<Reg(AB, m1, c2), H(B, "hardlink", m1, AB, none)>>,
                            <<H(B, "symlink", m1, <<"", "a", "b">>, none)>>,
                            <<H(B, "hardlink", m1, AB, none)>>, <<H(AD, "device", m1, << >>, none)>>,
                            <<H(AB, "symlink", m1, <<"..", "b">>, none)>>,
                            <<Reg(<<"a", ".wh.b">>, m1, c1)>>}}

FileInputs ==
  {[With(i) EXCEPT !.name = n, !.path = p, !.layer = l, !.broken = b] :
     n \in {"cat", "cp"}, i \in Linked, l \in {-1, 1, 2, 3}, b \in BOOLEAN,
     p \in {AB, <<"", "a", "b">>, B, A, <<"ab", "b">>, <<"ab", "..", "b">>, <<"", "">>, <<"c">>}}

MCImages == Listed \cup Compared \cup Linked

\* Small worlds for the rest of the commands, and for every view.
Two == << <<Reg(B, m1, c1)>>, <<Reg(AB, m1, c2)>> >>

Words == {<< >>, <<"a">>, <<"space">>, <<"quote">>, <<"backslash">>, <<"apostrophe">>,
          <<"backslash", "quote">>, <<"a", "space">>, <<";">>}

\* Words that a shell reads as something else, and some that it does only
\* without the quotes, or only with them.
OddWords == {<<"*">>, <<"$", "a">>, <<"!", "a", "space">>, <<"newline">>, <<"unprintable", "space">>,
             <<"*", "space">>, <<"return">>}

Configs ==
  LET Config(entrypoint, cmd) ==
        [Default.config EXCEPT !["Entrypoint"] = entrypoint, !["Cmd"] = cmd,
                               !["Labels"] = << <<"a", "a", "a">> >>]
  IN  {Config(<<v, w>>, << >>) : v \in Words, w \in Words} \cup {Config(<< >>, <<w>>) : w \in Words}
        \cup {Config(<<w, <<"a">> >>, <<w>>) : w \in OddWords}

DocumentInputs ==
  {[With(Two) EXCEPT !.name = "blob", !.layer = l, !.broken = b] : l \in -1..3, b \in BOOLEAN}
    \cup {[With(Two) EXCEPT !.name = n, !.valid = v] :
            n \in {"manifest", "config", "export"}, v \in BOOLEAN}
    \cup {[With(Two) EXCEPT !.name = "inspect", !.config = c] : c \in Configs}
    \cup {[With(Two) EXCEPT !.name = "inspect", !.annotations = a] :
            a \in {<< <<w>> >> : w \in {<< >>, <<"a", "a">>, <<"a", "a", "a">>}}
                    \cup {<< << >>, << <<"a">>, <<"space">> >> >>}}
    \cup {[Default EXCEPT !.name = "tags", !.policy = "", !.tags = t, !.limit = l, !.refs = f] :
            t \in {<< >>, <<"1">>, <<"1", "2", "3">>}, l \in -1..4, f \in {<<"x">>, <<"X">>}}
    \cup {[Default EXCEPT !.name = "version", !.policy = ""]}

\* One or two command lines of every command, for the views, logs and writes.
ViewInputs ==
  LET Some(name, layers) == [With(layers) EXCEPT !.name = name]
      linked == << <<DirAt(A), Reg(AB, m1, c1), H(B, "symlink", m1, A, none),
                     H(AD, "device", m1, << >>, none)>> >>
      one    == << <<Reg(B, m1, c1)>> >>
      worlds == {Some(n, linked) : n \in {"ls", "tree"}} \cup {Some("ls", << << >> >>)}
                  \cup {[Some(n, linked) EXCEPT !.path = AB, !.broken = b] :
                          n \in {"cat", "cp"}, b \in BOOLEAN}
                  \cup {[Some("cp", linked) EXCEPT !.path = A]}
                  \cup {[Some("diff", linked) EXCEPT !.refs = <<"x", r>>,
                          !.registry = @ \cup {Held("y", DefaultPlatform, i, FALSE)}] :
                          r \in {"x", "y"}, i \in {one}}
                  \cup {[Some("blob", one) EXCEPT !.layer = 1, !.broken = b] : b \in BOOLEAN}
                  \cup {Some(n, one) : n \in {"manifest", "config", "export", "inspect"}}
                  \cup {[Default EXCEPT !.name = "tags", !.policy = "", !.tags = t] :
                          t \in {<< >>, <<"1", "2">>}}
                  \cup {[Default EXCEPT !.name = "version", !.policy = ""]}
  IN  {[w EXCEPT !.flags = f, !.env = e, !.room = r] :
         w \in worlds, f \in SUBSET NewRootCommand, e \in {"", "info", "debug"},
         r \in {0, 1, 2, 4, 99}}

\* Command lines that are not taken: an unknown command, too few or too many
\* arguments, a flag of another command, none of those required.
UsageInputs ==
  LET Refs(n) == IF n = "diff" THEN <<"x", "y">> ELSE <<"x">>
      Named(n) == Typed([Default EXCEPT !.name = n, !.refs = Refs(n), !.flags = {"json"}]) IN
  {Named("rm")}
    \cup {[Named(n) EXCEPT !.args = 4] : n \in DOMAIN AddCommands}
    \cup {[Named(n) EXCEPT !.args = 0] : n \in DOMAIN AddCommands \ {"version"}}
    \cup {[Named(n) EXCEPT !.flags = {"limit", "L"}] : n \in DOMAIN AddCommands}
    \cup {[Named(n) EXCEPT !.flags = {"json"}] : n \in {"export", "blob"}}

MCInputs ==
  UsageInputs \cup
  {Typed(i) : i \in LsInputs \cup TreeInputs \cup DiffInputs \cup FetchInputs \cup FileInputs
                       \cup DocumentInputs \cup ViewInputs}

MCRawNames == {A, AB, AH, AD, ADB, N, B, <<"a", ".wh.b">>, <<"", "a", "b">>, <<"..", "b">>}
MCStem == ".wh.b" :> <<"b">>
MCLonger == {<<"ab", "a">>}
MCGlobs == "b*" :> {"b"}
MCSubstring == <<"b">> :> {AB, AD, ADB, N, B}
MCRank == (".h" :> 1) @@ (".wh.b" :> 2) @@ ("a" :> 3) @@ ("ab" :> 4) @@ ("b" :> 5)
=============================================================================
