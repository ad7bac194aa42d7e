------------------------------- MODULE Paths -------------------------------
(***************************************************************************)
(* Slash-separated names the way internal/overlay handles them.            *)
(*                                                                         *)
(* A raw name is what a tar header or a command line carries, split at     *)
(* every "/": "./etc/" is <<".", "etc", "">> and the absolute "/etc" is    *)
(* <<"", "etc">>.  A clean path is the sequence of its components, the     *)
(* root being the empty sequence, so "/etc/ssl" is <<"etc", "ssl">>.       *)
(***************************************************************************)
EXTENDS Integers, SequencesExt

Root == << >>

\* The components of raw names and those of clean paths.
Word  == STRING
Names == Word \ {"", ".", ".."}

\* Go's path.Clean of a rooted name, one component at a time.
CleanStep(p, c) ==
  IF c \in {"", "."} THEN p
  ELSE IF c # ".." THEN Append(p, c)
  ELSE IF p = Root THEN Root ELSE Front(p)

\* clean(): any tar name becomes an absolute path without a trailing slash.
Clean(name) == FoldLeft(CleanStep, Root, name)

IsAbs(name) == name # << >> /\ name[1] = ""

\* path.Dir and path.Base of a clean path other than the root.
Dir(p)  == SubSeq(p, 1, Len(p) - 1)
Base(p) == p[Len(p)]

\* strings.HasPrefix(p, d + "/").  For d = "/" the prefix is "//", which no
\* clean path has.
Below(d, p) == d # Root /\ IsStrictPrefix(d, p)
=============================================================================
