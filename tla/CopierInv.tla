----------------------------- MODULE CopierInv -----------------------------
(***************************************************************************)
(* Why a copy does what Copier promises: what is known of the lists and of *)
(* the disk between two of its steps, as one inductive invariant.          *)
(***************************************************************************)
EXTENDS Copier

tree == source.tree

\* The entries planned so far, and those of them that are there: written, if
\* they have a content.
Past    == 1..(at - 1)
Settled == {k \in Past : tree[k].kind = "symlink" \/ (IsRegular(tree[k]) /\ tree[k] \notin pending)}

\* Nothing is changed before the target is chosen, and a file has no passes.
CallInv ==
  /\ before \in Disks /\ source \in Sources /\ dest \in Dests
  /\ IsDisk(disk)
  /\ pc \in {"target", "file", "tree"} =>
       disk = before /\ at = 1 /\ pending = {} /\ dirs = << >> /\ files = 0 /\ skipped = 0
  /\ pc = "target" => target = dest
  /\ pc \in {"file", "unsupported"} => source.root.kind # "dir"
  /\ pc \in {"tree", "plan", "write", "modes", "refused", "modeError"} => source.root.kind = "dir"

\* The lists hold what was planned, each until its pass is over.
ListsInv ==
  /\ pending \subseteq {tree[k] : k \in {j \in Past : IsRegular(tree[j])}}
  /\ dirs \in Seq({tree[k] : k \in {j \in Past : tree[j].kind = "dir"}})
  /\ files \in Nat /\ skipped \in Nat
  /\ files + skipped + Cardinality(pending) <= IF source.root.kind = "dir" THEN at - 1 ELSE 1
  /\ pc \in {"write", "modes"} \/ (pc = "ok" /\ CopiesTree) => at = Len(tree) + 1
  /\ pc = "modes" \/ (pc = "ok" /\ CopiesTree) => pending = {}
  /\ pc = "ok" /\ CopiesTree => dirs = << >>

-----------------------------------------------------------------------------
(***************************************************************************)
(* The copy of a tree to a target without symlinks below it.               *)
(***************************************************************************)

First == MkdirAll(before, target)          \* what MakeTarget leaves
Way   == Trail(First.disk, target, Follow)   \* how every call gets to the target

\* Nothing but the target's own mode differs, except for what is below it.
KeptOutside(r, d, first) ==
  \A q \in DOMAIN d \cup DOMAIN first :
    ~IsStrictPrefix(r, q) =>
      /\ q \in DOMAIN d /\ q \in DOMAIN first
      /\ IF q = r THEN d[q].kind = "dir" ELSE d[q] = first[q]

\* The way may lead through what is below the target, and back by "..": as long
\* as there are directories on it, it leads to the target.
OnWay(d) == LET way == Way IN \A k \in DOMAIN way : Kind(d, way[k].at) = "dir"

\* Below the target there are the tree's own symlinks only, and none of them is
\* in the middle of the path of an entry already planned.
LinksInv(r) ==
  /\ \A q \in DOMAIN disk : IsStrictPrefix(r, q) /\ disk[q].kind = "symlink" =>
       \E k \in Past : tree[k].kind = "symlink" /\ q = r \o tree[k].rel
  /\ \A k \in Past : \A i \in 1..(Len(tree[k].rel) - 1) :
       Kind(disk, r \o SubSeq(tree[k].rel, 1, i)) # "symlink"

\* What was planned is there, or still in a list.
PlacedInv(r) ==
  /\ \A k \in Settled : Copied(r, tree[k])
  /\ \A k \in Past : tree[k].kind = "dir" =>
       /\ Kind(disk, r \o tree[k].rel) = "dir"
       /\ Copied(r, tree[k]) \/ \E i \in DOMAIN dirs : dirs[i] = tree[k]

\* Where a file is still to be written there is what there was, a directory if
\* something below comes first, or what is left of a cut; only of the file a
\* failed write was about, odd, nothing can be said.
WaitingInv(r) ==
  \E odd \in 0..Len(tree) :
    /\ pc # "writeError" => odd = 0
    /\ \A k \in DOMAIN tree \ (Settled \cup {odd}) : IsRegular(tree[k]) =>
         LET q == r \o tree[k].rel IN
         q \in DOMAIN disk => \/ disk[q].kind = "dir"
                              \/ q \in DOMAIN before /\ disk[q] = before[q]
                              \/ pc = "readError" /\ disk[q].content = "partial"

\* Until the last pass every directory allows everything, if all did.
AllowedInv ==
  pc \in {"plan", "write"} /\ (\A q \in DOMAIN before : Full \subseteq before[q].mode) =>
    \A q \in DOMAIN disk : disk[q].kind = "dir" => Full \subseteq disk[q].mode

TreeInv ==
  LET r == Real
      first == First
  IN  CopiesTree /\ FreshBelow(r) =>
        \/ pc = "tree"
        \/ pc = "planError" /\ at = 1 /\ files = 0 /\ disk \in Made(before, target)
        \/ /\ ~Fails(first)
           /\ KeptOutside(r, disk, first.disk)
           /\ pc \in {"plan", "write", "modes"} => OnWay(disk)
           /\ LinksInv(r) /\ PlacedInv(r) /\ WaitingInv(r) /\ AllowedInv
           /\ files = Cardinality(Settled)

IInv == TypeOK /\ CallInv /\ ListsInv /\ TreeInv /\ FilesAreNotBlocked
=============================================================================
