-------------------------------- MODULE Disk --------------------------------
(***************************************************************************)
(* The calls cp makes to the file system it copies to, as the os package   *)
(* and the kernel carry them out for the owner of every file: which paths  *)
(* they reach through symlinks, what they change, when they fail.          *)
(*                                                                         *)
(* A disk is a function from the paths that exist to nodes.  A mode is the *)
(* set of the owner's permissions.  A call returns the disk it leaves and  *)
(* an error, or NoError.                                                   *)
(***************************************************************************)
EXTENDS Paths

CONSTANT Fuel  \* names and symlinks followed by one path walk, at most

ASSUME FuelAssumption == Fuel \in Nat

Full == {"r", "w", "x"}  \* the owner's part of 0o755

NoError  == ""
Fails(r) == r.error # NoError

Node(kind, mode, content, link) ==
  [kind |-> kind, mode |-> mode, content |-> content, link |-> link]
Directory(mode)     == Node("dir", mode, "", << >>)
File(mode, content) == Node("file", mode, content, << >>)
Symlink(link)       == Node("symlink", Full, "", link)

Kind(disk, p) == IF p \in DOMAIN disk THEN disk[p].kind ELSE "none"

IsNode(n) ==
  \/ n = Directory(n.mode) \/ n = File(n.mode, n.content)
  \/ n = Symlink(n.link) /\ n.link \in Seq(Word)

\* What exists is in a directory that exists, up to the root.
IsDisk(disk) ==
  /\ Kind(disk, Root) = "dir"
  /\ \A q \in DOMAIN disk :
       /\ q \in Seq(Names) /\ IsNode(disk[q])
       /\ q # Root => Kind(disk, Front(q)) = "dir"

-----------------------------------------------------------------------------
\* Path walks.  at: where the walk stands; rest: the names left; last: what to
\* do with a symlink that is the last name.

Follow == "follow"
Keep   == "keep"

WalkName(disk, last, w) ==
  LET name == Head(w.rest)
      to   == Append(w.at, name)
      left == Tail(w.rest)
      Stop(error)  == [w EXCEPT !.error = error]
      Go(p, names) == [w EXCEPT !.at = p, !.rest = names]
  IN  IF w.rest = << >> \/ Fails(w) THEN w
      ELSE IF Kind(disk, w.at) # "dir" THEN Stop("ENOTDIR")
      ELSE IF "x" \notin disk[w.at].mode THEN Stop("EACCES")
      ELSE IF name \in {"", "."} THEN Go(w.at, left)
      ELSE IF name = ".." THEN Go(IF w.at = Root THEN Root ELSE Front(w.at), left)
      ELSE IF Kind(disk, to) = "none" /\ left # << >> THEN Stop("ENOENT")
      ELSE IF Kind(disk, to) = "symlink" /\ (left # << >> \/ last = Follow)
           THEN Go(IF IsAbs(disk[to].link) THEN Root ELSE w.at, disk[to].link \o left)
      ELSE Go(to, left)

\* Where the walk is after each name.
Trail(disk, p, last) ==
  LET after[k \in 0..Fuel] ==
        IF k = 0 THEN [at |-> Root, rest |-> p, error |-> NoError]
        ELSE WalkName(disk, last, after[k - 1])
  IN  after

Ended(w) == IF w.rest # << >> /\ ~Fails(w) THEN [w EXCEPT !.error = "ELOOP"] ELSE w

\* Only the last name may be missing from the disk.
Walk(disk, p, last) == Ended(Trail(disk, p, last)[Fuel])

\* os.Stat and os.Lstat: the kind of what is at p, or why it cannot be told.
Stated(disk, w) ==
  IF Fails(w) THEN w.error
  ELSE IF Kind(disk, w.at) = "none" THEN "ENOENT" ELSE Kind(disk, w.at)
Stat(disk, p)  == Stated(disk, Walk(disk, p, Follow))
Lstat(disk, p) == Stated(disk, Walk(disk, p, Keep))

-----------------------------------------------------------------------------
Done(disk)        == [disk |-> disk, error |-> NoError]
Failed(disk, why) == [disk |-> disk, error |-> why]

\* Change what is at w, which the walk's last directory must allow.
Changed(disk, w, changed) ==
  IF "w" \in disk[Front(w.at)].mode THEN Done(changed) ELSE Failed(disk, "EACCES")

With(disk, p, node) == [q \in DOMAIN disk \cup {p} |-> IF q = p THEN node ELSE disk[q]]
Put(disk, w, node)  == Changed(disk, w, With(disk, w.at, node))

\* os.MkdirAll: from the top down, every directory that is not there.
MkdirOne(r, p) ==
  LET w == Walk(r.disk, p, Keep) IN
  IF Fails(r) \/ Stat(r.disk, p) = "dir" THEN r
  ELSE IF Fails(w) THEN Failed(r.disk, w.error)
  ELSE IF Kind(r.disk, w.at) # "none" THEN Failed(r.disk, "ENOTDIR")
  ELSE Put(r.disk, w, Directory(Full))
MkdirAll(disk, p) ==
  LET made[k \in 0..Len(p)] ==
        IF k = 0 THEN Done(disk) ELSE MkdirOne(made[k - 1], SubSeq(p, 1, k))
  IN  made[Len(p)]

\* os.OpenFile for writing, created or truncated, and what is then written.
WriteFile(disk, p, mode, content) ==
  LET w == Walk(disk, p, Follow) IN
  IF Fails(w) THEN Failed(disk, w.error)
  ELSE IF Kind(disk, w.at) = "none" THEN Put(disk, w, File(mode, content))
  ELSE IF Kind(disk, w.at) = "dir" THEN Failed(disk, "EISDIR")
  ELSE IF "w" \notin disk[w.at].mode THEN Failed(disk, "EACCES")
  ELSE Done([disk EXCEPT ![w.at].content = content])

Chmod(disk, p, mode) ==
  LET w == Walk(disk, p, Follow) IN
  IF Fails(w) THEN Failed(disk, w.error)
  ELSE IF Kind(disk, w.at) = "none" THEN Failed(disk, "ENOENT")
  ELSE Done([disk EXCEPT ![w.at].mode = mode])

\* os.Remove: a file, a symlink or an empty directory, but the root.
RemoveNode(disk, p) ==
  LET w == Walk(disk, p, Keep) IN
  IF Fails(w) THEN Failed(disk, w.error)
  ELSE IF Kind(disk, w.at) = "none" THEN Failed(disk, "ENOENT")
  ELSE IF w.at = Root \/ \E q \in DOMAIN disk : IsStrictPrefix(w.at, q)
       THEN Failed(disk, "ENOTEMPTY")
  ELSE Changed(disk, w, Restrict(disk, DOMAIN disk \ {w.at}))

MakeSymlink(disk, p, link) ==
  LET w == Walk(disk, p, Keep) IN
  IF Fails(w) THEN Failed(disk, w.error)
  ELSE IF Kind(disk, w.at) # "none" THEN Failed(disk, "EEXIST")
  ELSE Put(disk, w, Symlink(link))
=============================================================================
