------------------------------- MODULE Lookup -------------------------------
(***************************************************************************)
(* What looking a path up in a filesystem means: a walk as the kernel does *)
(* it (path_resolution(7)), the reference for overlay.go:303-306.  It goes *)
(* one component at a time from the directory reached, takes "." and ".."  *)
(* where it stands and puts a symlink's target in front of what is left.   *)
(*                                                                         *)
(* A filesystem is a function from paths to entries with .kind and .link.  *)
(***************************************************************************)
EXTENDS Paths

CONSTANT MaxHops  \* maxSymlinkHops

ASSUME MaxHopsAssumption == MaxHops \in Nat

Errors == {"ErrNotExist", "ErrNotDir", "ErrLoop"}

Found(q) == [outcome |-> "found", path |-> q]
Failed(error) == [outcome |-> error, path |-> Root]

\* A directory some entry lies below exists, whether it has an entry or not.
Implicit(fs, q) == q \notin DOMAIN fs /\ \E r \in DOMAIN fs : IsStrictPrefix(q, r)

KindAt(fs, q) ==
  IF q \in DOMAIN fs THEN fs[q].kind ELSE IF Implicit(fs, q) THEN "dir" ELSE "none"

Lookups == Seq(STRING) \X Seq(STRING) \X (0..MaxHops)

\* One step of the walk from directory dir, with names left to go through.
KernelStep(fs, walk, dir, names, hops) ==
  IF names = << >> THEN Found(dir)
  ELSE
  LET c    == Head(names)
      rest == Tail(names)
      to   == Append(dir, c)
      kind == KindAt(fs, to)
  IN  IF c \in {"", "."} THEN walk[<<dir, rest, hops>>]
      ELSE IF c = ".." THEN walk[<<IF dir = Root THEN Root ELSE Dir(dir), rest, hops>>]
      ELSE
      CASE kind = "none" -> Failed("ErrNotExist")
        [] kind = "dir"  -> walk[<<to, rest, hops>>]
        [] kind = "symlink" /\ hops = MaxHops -> Failed("ErrLoop")
        [] kind = "symlink" /\ hops # MaxHops ->
             walk[<<IF IsAbs(fs[to].link) THEN Root ELSE dir, fs[to].link \o rest, hops + 1>>]
        [] OTHER -> IF rest = << >> THEN Found(to) ELSE Failed("ErrNotDir")

KernelFrom(fs, dir, names, hops) ==
  LET walk[x \in Lookups] == KernelStep(fs, walk, x[1], x[2], x[3])
  IN  walk[<<dir, names, hops>>]

Kernel(fs, name) == KernelFrom(fs, Root, name, 0)

\* ".." only climbs before the first name and nothing follows the last name.
IsDot(c) == c \in {"", ".", ".."}
Plain(name) ==
  /\ \A j, k \in DOMAIN name : j < k /\ name[k] = ".." => IsDot(name[j])
  /\ \A k \in DOMAIN name : k = Len(name) /\ IsDot(name[k]) => \A j \in 1..k : IsDot(name[j])

PlainInput(fs, name) ==
  Plain(name) /\ \A q \in DOMAIN fs : fs[q].kind = "symlink" => Plain(fs[q].link)

\* Where ".." only climbs from the start of a name there is one answer, the
\* kernel's, but that a directory the archives omit can be walked through and
\* not asked for.  Elsewhere it is an error or some entry that is no symlink.
Answers(fs, name) ==
  LET k == Kernel(fs, name) IN
  IF ~PlainInput(fs, name)
  THEN {Failed(e) : e \in Errors}
         \cup {Found(q) : q \in {Root} \cup {r \in DOMAIN fs : fs[r].kind # "symlink"}}
  ELSE IF k.outcome = "found" /\ Implicit(fs, k.path) /\ k.path # Root
  THEN {Failed("ErrNotExist")}
  ELSE {k}
=============================================================================
