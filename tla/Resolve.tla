------------------------------ MODULE Resolve ------------------------------
(***************************************************************************)
(* FS.Resolve (internal/overlay/overlay.go): the walk that turns the path  *)
(* a user gives cat or cp into an entry, following symlinks.  The code     *)
(* restarts the walk from the root, on a cleaned path, at every symlink it *)
(* meets.                                                                  *)
(***************************************************************************)
EXTENDS Lookup

CONSTANTS
  Filesystems,  \* FS.entries: path -> [kind, link], for the paths that exist
  Requests      \* the raw names Resolve is called with

\* Paths are sequences of components, and entries what archives can hold.
ASSUME FilesystemsAssumption ==
  /\ Requests \subseteq Seq(STRING)
  /\ \A f \in Filesystems : \A q \in DOMAIN f :
       /\ q \in Seq(STRING) /\ f[q].link \in Seq(STRING)
       /\ f[q].kind \in {"reg", "dir", "symlink", "hardlink", "device"}

VARIABLES
  fs, request,
  pc,     \* "enter" resolve(), "walk" its loop, or how it returned
  p,      \* the clean path of this call of resolve()
  hops,   \* symlinks followed so far
  i,      \* the component of p the loop is at
  cur,    \* the directory walked to so far
  found   \* the path of the entry returned

vars == <<fs, request, pc, p, hops, i, cur, found>>

Outcomes == {"found"} \cup Errors

Init ==
  /\ fs \in Filesystems
  /\ request \in Requests
  /\ pc = "enter"
  /\ p = Clean(request) /\ hops = 0
  /\ i = 1 /\ cur = Root /\ found = Root

next == Append(cur, p[i])
last == i = Len(p)
Exists(q) == q \in DOMAIN fs

Finish(outcome, q) ==
  /\ pc' = outcome /\ found' = q
  /\ UNCHANGED <<fs, request, p, hops, i, cur>>

HopsExceededLate == hops > MaxHops + 1  \* mutant: one symlink too many
HopsExceededEarly == hops >= MaxHops    \* mutant: one symlink too few
HopsExceeded == hops > MaxHops

TooManyHops == pc = "enter" /\ HopsExceeded /\ Finish("ErrLoop", Root)

\* The root resolves to a synthetic directory.
ResolveRoot == pc = "enter" /\ ~HopsExceeded /\ p = Root /\ Finish("found", Root)

Enter ==
  /\ pc = "enter" /\ ~HopsExceeded /\ p # Root
  /\ pc' = "walk"
  /\ UNCHANGED <<fs, request, p, hops, i, cur, found>>

Descend ==
  /\ i' = i + 1 /\ cur' = next
  /\ UNCHANGED <<fs, request, pc, p, hops, found>>

\* A directory the archives omit is taken to be there, unless it is asked for.
Missing == pc = "walk" /\ ~Exists(next) /\ ~last /\ Descend
MissingLast == pc = "walk" /\ ~Exists(next) /\ last /\ Finish("ErrNotExist", Root)

\* mutants: a relative target is taken from the link itself, not from its
\* directory; the hop is not counted
FollowFromLink ==
  /\ pc = "walk" /\ Exists(next) /\ fs[next].kind = "symlink"
  /\ LET link   == fs[next].link
         target == IF IsAbs(link) THEN Clean(link) ELSE Clean(next \o link)
     IN  p' = Clean(target \o SubSeq(p, i + 1, Len(p)))
  /\ hops' = hops + 1
  /\ pc' = "enter" /\ i' = 1 /\ cur' = Root
  /\ UNCHANGED <<fs, request, found>>
FollowUncounted ==
  /\ pc = "walk" /\ Exists(next) /\ fs[next].kind = "symlink"
  /\ p' = Clean((IF IsAbs(fs[next].link) THEN fs[next].link ELSE cur \o fs[next].link)
                  \o SubSeq(p, i + 1, Len(p)))
  /\ pc' = "enter" /\ i' = 1 /\ cur' = Root
  /\ UNCHANGED <<fs, request, hops, found>>

\* The target is joined to the directory and to the rest of the path, and the
\* result is cleaned before anything in it is looked up.
Follow ==
  /\ pc = "walk" /\ Exists(next) /\ fs[next].kind = "symlink"
  /\ LET link   == fs[next].link
         target == IF IsAbs(link) THEN Clean(link) ELSE Clean(cur \o link)
     IN  p' = Clean(target \o SubSeq(p, i + 1, Len(p)))
  /\ hops' = hops + 1
  /\ pc' = "enter" /\ i' = 1 /\ cur' = Root
  /\ UNCHANGED <<fs, request, found>>

FoundLast ==
  pc = "walk" /\ Exists(next) /\ fs[next].kind # "symlink" /\ last /\ Finish("found", next)

NotDirectory ==
  /\ pc = "walk" /\ Exists(next) /\ fs[next].kind \notin {"symlink", "dir"} /\ ~last
  /\ Finish("ErrNotDir", Root)

IntoAnything ==  \* mutant: the check for a directory is dropped
  pc = "walk" /\ Exists(next) /\ fs[next].kind # "symlink" /\ ~last /\ Descend
IntoDirectory ==
  pc = "walk" /\ Exists(next) /\ fs[next].kind = "dir" /\ ~last /\ Descend

Returned == pc \in Outcomes /\ UNCHANGED vars

Walk ==
  \/ TooManyHops \/ ResolveRoot \/ Enter
  \/ Missing \/ MissingLast \/ Follow \/ FoundLast \/ NotDirectory \/ IntoDirectory

Next == Walk \/ Returned

Spec == Init /\ [][Next]_vars

\* One goroutine, no blocking call: the walk goes on until it returns.
FairSpec == Spec /\ WF_vars(Walk)
-----------------------------------------------------------------------------

TypeOK ==
  /\ pc \in {"enter", "walk"} \cup Outcomes
  /\ hops \in 0..(MaxHops + 1)
  /\ i \in 1..Len(p) \/ p = Root
  /\ pc = "walk" => cur = SubSeq(p, 1, i - 1)

\* What cat and cp rely on: the path returned has no symlink in it and nothing
\* but directories above it, so reading or copying it cannot lead elsewhere.
ResultIsCanonical ==
  pc = "found" /\ found # Root =>
    /\ Exists(found) /\ fs[found].kind # "symlink"
    /\ \A q \in DOMAIN fs : Below(q, found) => fs[q].kind = "dir"

\* What the call amounts to: one lookup, whatever the steps of the walk.
Answered == [outcome |-> pc, path |-> found]
NoAnswer == [outcome |-> "none", path |-> Root]

Once == INSTANCE LookupOnce WITH answer <- IF pc \in Outcomes THEN Answered ELSE NoAnswer

\* Restarting on a cleaned path at every symlink implements a single lookup:
\* where ".." only climbs from the start of a name it is a kernel walk, with
\* the same entry or the same error and the same hop limit.  A directory the
\* archives omit is walked through but not found (overlay.go:303-306).
ResolvesAtOnce == Once!OnceSpec

-----------------------------------------------------------------------------
(***************************************************************************)
(* Why these hold: what is known at every step of the walk.                *)
(***************************************************************************)

\* The path is clean and what was walked through is a directory or not there.
WalkInv ==
  /\ fs \in Filesystems /\ request \in Requests
  /\ p \in Seq(STRING \ {"", ".", ".."})
  /\ pc = "walk" => p # Root /\ hops <= MaxHops
  /\ pc = "enter" => i = 1 /\ cur = Root
  /\ pc = "walk" => \A k \in 1..(i - 1) :
       SubSeq(p, 1, k) \in DOMAIN fs => fs[SubSeq(p, 1, k)].kind = "dir"
  /\ pc # "found" => found = Root

\* Nothing is at or below cur: every further component is missing too.
NothingUnder(q) == \A r \in DOMAIN fs : ~IsPrefix(q, r)

\* From where the walk stands the kernel finds what it finds from the start.
KernelInv ==
  PlainInput(fs, request) =>
    LET k == Kernel(fs, request) IN
    /\ pc = "enter" =>
         k = IF HopsExceeded THEN Failed("ErrLoop") ELSE KernelFrom(fs, Root, p, hops)
    /\ pc = "walk" =>
         \/ k = KernelFrom(fs, cur, SubSeq(p, i, Len(p)), hops)
         \/ k = Failed("ErrNotExist") /\ NothingUnder(cur)

\* What is known at every step, strong enough to follow from itself.
IInv == TypeOK /\ WalkInv /\ ResultIsCanonical /\ KernelInv
-----------------------------------------------------------------------------

\* "Resolve returns the entry at p, following symlinks in every component the
\* way a kernel path walk does" (overlay.go:303-304), for any name at all:
\* where both find an entry it is the same one.
EveryWalkIsKernels ==
  pc = "found" =>
    LET k == Kernel(fs, request) IN k.outcome = "found" => k.path = found

\* Every walk ends, in a filesystem with symlink cycles too.
Terminates == <>(pc \in Outcomes)
=============================================================================
