--------------------------- MODULE ResolveProofs ---------------------------
(***************************************************************************)
(* What Resolve promises, for every filesystem, request and hop limit: the *)
(* walk never returns a path through a symlink, and seen from its caller   *)
(* it is one step that gives the kernel's answer.                          *)
(***************************************************************************)
EXTENDS Resolve, LookupProofs

\* The filesystems and the requests are as the lemmas of Lookup take them.
LEMMA InputsAreTyped ==
  /\ \A f \in Filesystems : IsFilesystem(f)
  /\ \A q \in Requests : q \in Raw
BY FilesystemsAssumption DEF IsFilesystem, Raw, Word

-----------------------------------------------------------------------------
\* The path being walked.

\* A clean path and the paths above it.
LEMMA PathParts ==
  ASSUME NEW q \in Cleaned, q # Root
  PROVE  /\ Len(q) \in Nat \ {0}
         /\ \A k \in 1..Len(q) : q[k] \in Names /\ SubSeq(q, 1, k) \in Cleaned
         /\ \A k \in 1..Len(q) : Append(SubSeq(q, 1, k - 1), q[k]) = SubSeq(q, 1, k)
         /\ SubSeq(q, 1, 0) = Root /\ SubSeq(q, 1, Len(q)) = q
BY DEF Cleaned, Root

\* What is left of it, one component further.
LEMMA RestParts ==
  ASSUME NEW q \in Cleaned, NEW k \in 1..Len(q)
  PROVE  /\ SubSeq(q, k, Len(q)) = <<q[k]>> \o SubSeq(q, k + 1, Len(q))
         /\ SubSeq(q, k + 1, Len(q)) \in Cleaned
         /\ SubSeq(q, k + 1, Len(q)) = << >> <=> k = Len(q)
<1>1. SubSeq(q, k, Len(q)) = <<q[k]>> \o SubSeq(q, k + 1, Len(q))
  BY SubSeqRecursiveFirst DEF Cleaned
<1>2. /\ SubSeq(q, k + 1, Len(q)) \in Cleaned
      /\ SubSeq(q, k + 1, Len(q)) = << >> <=> k = Len(q)
  BY DEF Cleaned
<1>3. QED
  BY <1>1, <1>2

\* The path that is walked is clean.
LEMMA WalkInvCleaned == WalkInv => p \in Cleaned
BY DEF WalkInv, Cleaned, Names, Word

\* The clean paths are the paths of the model.
LEMMA CleanedNames == Cleaned = Seq(STRING \ {"", ".", ".."})
BY DEF Cleaned, Names, Word

\* Where the walk stands.
LEMMA Standing ==
  ASSUME TypeOK, WalkInv, pc = "walk"
  PROVE  /\ fs \in Filesystems /\ p \in Cleaned /\ p # Root
         /\ i \in 1..Len(p) /\ Len(p) \in Nat \ {0}
         /\ p[i] \in Names
         /\ cur = SubSeq(p, 1, i - 1) /\ next = SubSeq(p, 1, i)
         /\ cur \in Cleaned
<1>1. p \in Cleaned /\ p # Root /\ fs \in Filesystems
  BY WalkInvCleaned DEF WalkInv
<1>2. i \in 1..Len(p) /\ cur = SubSeq(p, 1, i - 1)
  BY <1>1 DEF TypeOK
<1>3. /\ Len(p) \in Nat \ {0}
      /\ \A k \in 1..Len(p) : p[k] \in Names /\ SubSeq(p, 1, k) \in Cleaned
      /\ \A k \in 1..Len(p) : Append(SubSeq(p, 1, k - 1), p[k]) = SubSeq(p, 1, k)
      /\ SubSeq(p, 1, 0) = Root
  BY <1>1, PathParts
<1>4. i = 1 \/ i - 1 \in 1..Len(p)
  BY <1>2, <1>3
<1>5. cur \in Cleaned
  <2>1. CASE i = 1
    <3>1. cur = SubSeq(p, 1, 0)
      BY <1>2, <2>1
    <3>2. QED
      BY <1>3, <3>1, CleanedFacts
  <2>2. CASE i - 1 \in 1..Len(p)
    BY <1>2, <1>3, <2>2
  <2>3. QED
    BY <1>4, <2>1, <2>2
<1>6. QED
  BY <1>1, <1>2, <1>3, <1>5 DEF next

-----------------------------------------------------------------------------
\* The first half of the invariant: the path is clean, and what was walked
\* through is a directory or not there.

WalkIInv == TypeOK /\ WalkInv /\ ResultIsCanonical

\* The next path, after a symlink.
LEMMA FollowIsClean ==
  ASSUME TypeOK, WalkInv, Follow
  PROVE  /\ p' \in Cleaned
         /\ p' = Clean((IF IsAbs(fs[next].link) THEN Root ELSE cur)
                         \o (fs[next].link \o SubSeq(p, i + 1, Len(p))))
<1> DEFINE link == fs[next].link
           rest == SubSeq(p, i + 1, Len(p))
           from == IF IsAbs(link) THEN Root ELSE cur
<1>1. link \in Raw
  BY Standing, InputsAreTyped DEF Follow, Exists, IsFilesystem, Raw
<1>2. rest \in Raw /\ from \in Raw
  BY Standing, RestParts, CleanedFacts DEF Follow
<1>3. p' = Clean(Clean(from \o link) \o rest)
  <2>1. Root \o link = link
    BY <1>1, RawFacts DEF Root
  <2>2. QED
    BY <2>1 DEF Follow
<1> HIDE DEF link, rest, from
<1>4. from \o link \in Raw /\ (from \o link) \o rest = from \o (link \o rest)
  BY <1>1, <1>2, RawConcat, RawAssociative
<1>5. Clean(Clean(from \o link) \o rest) = Clean((from \o link) \o rest)
  BY <1>2, <1>4, CleanConcat DEF Raw
<1>6. from \o (link \o rest) \in Raw
  BY <1>1, <1>2, RawConcat
<1>7. Clean(from \o (link \o rest)) \in Cleaned
  BY <1>6, CleanType DEF Raw, Cleaned
<1>8. QED
  BY <1>3, <1>4, <1>5, <1>7 DEF link, rest, from

\* The invariant of the walk holds when it starts.
LEMMA StartsWell == Init => WalkIInv
<1> SUFFICES ASSUME Init PROVE WalkIInv
  OBVIOUS
<1>1. request \in Seq(Word)
  BY InputsAreTyped DEF Init, Raw
<1>2. Clean(request) \in Cleaned
  BY <1>1, CleanType DEF Cleaned
<1>3. p \in Cleaned
  BY <1>2 DEF Init
<1>4. i \in 1..Len(p) \/ p = Root
  BY <1>3, PathParts DEF Init
<1>5. TypeOK
  BY <1>4, MaxHopsAssumption DEF Init, TypeOK, Outcomes, Errors
<1>6. WalkInv
  BY <1>3, CleanedNames DEF Init, WalkInv
<1>7. ResultIsCanonical
  BY DEF Init, ResultIsCanonical
<1>8. QED
  BY <1>5, <1>6, <1>7 DEF WalkIInv

\* Returning.
LEMMA FinishKeeps ==
  ASSUME TypeOK, WalkInv, NEW outcome \in Errors, Finish(outcome, Root)
  PROVE  WalkIInv'
<1>1. outcome # "walk" /\ outcome # "enter" /\ outcome # "found"
  BY DEF Errors
<1>2. TypeOK'
  BY <1>1 DEF TypeOK, Finish, Outcomes
<1>3. WalkInv'
  BY <1>1 DEF WalkInv, Finish
<1>4. ResultIsCanonical'
  BY <1>1 DEF ResultIsCanonical, Finish
<1>5. QED
  BY <1>2, <1>3, <1>4 DEF WalkIInv

\* The last component keeps it.
LEMMA FoundKeeps ==
  ASSUME TypeOK, WalkInv, FoundLast
  PROVE  WalkIInv'
<1>1. TypeOK'
  BY DEF TypeOK, FoundLast, Finish, Outcomes
<1>2. WalkInv'
  BY DEF WalkInv, FoundLast, Finish
<1>3. pc = "walk" /\ Exists(next) /\ fs[next].kind # "symlink" /\ i = Len(p)
      /\ found' = next /\ UNCHANGED fs
  BY DEF FoundLast, Finish, last
<1>4. next = p /\ p \in Cleaned /\ p # Root /\ Len(p) \in Nat \ {0}
  BY <1>3, Standing, PathParts
<1>5. \A k \in 1..(Len(p) - 1) :
        SubSeq(p, 1, k) \in DOMAIN fs => fs[SubSeq(p, 1, k)].kind = "dir"
  BY <1>3 DEF WalkInv
<1>6. ASSUME NEW q \in DOMAIN fs, Below(q, p) PROVE fs[q].kind = "dir"
  <2>1. q \in Seq(Word)
    BY Standing, <1>3, InputsAreTyped DEF IsFilesystem
  <2>2. q # Root /\ q # p /\ Len(q) <= Len(p) /\ SubSeq(q, 1, Len(q)) = SubSeq(p, 1, Len(q))
    BY <1>6 DEF Below, IsStrictPrefix, IsPrefix
  <2>3. Len(q) \in Nat /\ Len(q) # 0 /\ SubSeq(q, 1, Len(q)) = q
    BY <2>1, <2>2 DEF Root
  <2>4. Len(q) # Len(p)
    BY <1>4, <2>2, <2>3, PathParts
  <2>5. Len(q) \in 1..(Len(p) - 1)
    BY <1>4, <2>2, <2>3, <2>4
  <2>6. QED
    BY <1>5, <2>2, <2>3, <2>5
<1>7. ResultIsCanonical'
  BY <1>3, <1>4, <1>6 DEF ResultIsCanonical, Exists
<1>8. QED
  BY <1>1, <1>2, <1>7 DEF WalkIInv

\* Going down into a directory, or into one the archives omit.
LEMMA DescendKeeps ==
  ASSUME TypeOK, WalkInv, pc = "walk", ~last, Descend,
         Exists(next) => fs[next].kind = "dir"
  PROVE  WalkIInv'
<1>1. /\ p \in Cleaned /\ p # Root /\ i \in 1..Len(p) /\ Len(p) \in Nat \ {0}
      /\ cur = SubSeq(p, 1, i - 1) /\ next = SubSeq(p, 1, i)
  BY Standing
<1>2. i + 1 \in 1..Len(p) /\ (i + 1) - 1 = i
  BY <1>1 DEF last
<1>3. /\ i' = i + 1 /\ cur' = SubSeq(p, 1, i)
      /\ UNCHANGED <<fs, request, pc, p, hops, found>>
  BY <1>1 DEF Descend
<1>4. TypeOK'
  BY <1>2, <1>3 DEF TypeOK, Outcomes
<1>5. \A k \in 1..i : SubSeq(p, 1, k) \in DOMAIN fs => fs[SubSeq(p, 1, k)].kind = "dir"
  <2>1. \A k \in 1..i : k = i \/ k \in 1..(i - 1)
    BY <1>1
  <2>2. QED
    BY <1>1, <2>1 DEF WalkInv, Exists
<1>6. WalkInv'
  BY <1>2, <1>3, <1>5 DEF WalkInv
<1>7. ResultIsCanonical'
  BY <1>3 DEF ResultIsCanonical
<1>8. QED
  BY <1>4, <1>6, <1>7 DEF WalkIInv

\* A symlink keeps it.
LEMMA FollowKeeps ==
  ASSUME TypeOK, WalkInv, Follow
  PROVE  WalkIInv'
<1>1. p' \in Cleaned
  BY FollowIsClean
<1>2. /\ i' = 1 /\ cur' = Root /\ pc' = "enter" /\ hops' = hops + 1 /\ hops <= MaxHops
      /\ UNCHANGED <<fs, request, found>> /\ pc = "walk"
  BY DEF Follow, WalkInv
<1>3. i' \in 1..Len(p') \/ p' = Root
  BY <1>1, <1>2, PathParts
<1>4. hops' \in 0..(MaxHops + 1)
  BY <1>2, MaxHopsAssumption DEF TypeOK
<1>5. TypeOK'
  BY <1>2, <1>3, <1>4 DEF TypeOK
<1>6. WalkInv'
  BY <1>1, <1>2, CleanedNames DEF WalkInv
<1>7. ResultIsCanonical'
  BY <1>2 DEF ResultIsCanonical
<1>8. QED
  BY <1>5, <1>6, <1>7 DEF WalkIInv

\* Every step keeps it.
LEMMA StepsKeepWalk ==
  ASSUME WalkIInv, [Next]_vars
  PROVE  WalkIInv'
<1> USE DEF WalkIInv
<1>1. CASE TooManyHops
  <2>1. Finish("ErrLoop", Root) /\ "ErrLoop" \in Errors
    BY <1>1 DEF TooManyHops, Errors
  <2>2. QED
    BY <2>1, FinishKeeps
<1>2. CASE ResolveRoot
  <2>1. TypeOK'
    BY <1>2 DEF ResolveRoot, Finish, TypeOK, Outcomes
  <2>2. WalkInv'
    BY <1>2 DEF ResolveRoot, Finish, WalkInv
  <2>3. ResultIsCanonical'
    BY <1>2 DEF ResolveRoot, Finish, ResultIsCanonical
  <2>4. QED
    BY <2>1, <2>2, <2>3
<1>3. CASE Enter
  <2>1. hops <= MaxHops
    BY <1>3, MaxHopsAssumption DEF Enter, HopsExceeded, TypeOK
  <2>2. i = 1 /\ cur = Root /\ p # Root /\ p \in Cleaned
    BY <1>3, WalkInvCleaned DEF Enter, WalkInv
  <2>3. cur = SubSeq(p, 1, i - 1) /\ i - 1 = 0 /\ 1..0 = {}
    BY <2>2, PathParts
  <2>4. TypeOK'
    BY <1>3, <2>2, <2>3 DEF Enter, TypeOK
  <2>5. WalkInv'
    BY <1>3, <2>1, <2>2, <2>3 DEF Enter, WalkInv
  <2>6. ResultIsCanonical'
    BY <1>3 DEF Enter, ResultIsCanonical
  <2>7. QED
    BY <2>4, <2>5, <2>6
<1>4. CASE Missing
  BY <1>4, DescendKeeps DEF Missing
<1>5. CASE MissingLast
  <2>1. Finish("ErrNotExist", Root) /\ "ErrNotExist" \in Errors
    BY <1>5 DEF MissingLast, Errors
  <2>2. QED
    BY <2>1, FinishKeeps
<1>6. CASE Follow
  BY <1>6, FollowKeeps
<1>7. CASE FoundLast
  BY <1>7, FoundKeeps
<1>8. CASE NotDirectory
  <2>1. Finish("ErrNotDir", Root) /\ "ErrNotDir" \in Errors
    BY <1>8 DEF NotDirectory, Errors
  <2>2. QED
    BY <2>1, FinishKeeps
<1>9. CASE IntoDirectory
  BY <1>9, DescendKeeps DEF IntoDirectory
<1>10. CASE UNCHANGED vars
  BY <1>10 DEF vars, TypeOK, WalkInv, ResultIsCanonical, Exists
<1>11. QED
  BY <1>1, <1>2, <1>3, <1>4, <1>5, <1>6, <1>7, <1>8, <1>9, <1>10
     DEF Next, Walk, Returned

\* It holds throughout.
LEMMA WalkInvariant == Spec => []WalkIInv
BY StartsWell, StepsKeepWalk, PTL DEF Spec

\* The components of a walk are what the code takes them for, with hops within
\* the limit and the index within the path (overlay.go:311-322).
THEOREM ResolveTypes == Spec => []TypeOK
<1>1. WalkIInv => TypeOK
  BY DEF WalkIInv
<1>2. QED
  BY <1>1, WalkInvariant, PTL

\* What cat and cp open is not a symlink and has only directories above it
\* (overlay.go:342-349), whatever the links on the way.
THEOREM ResultsAreCanonical == Spec => []ResultIsCanonical
<1>1. WalkIInv => ResultIsCanonical
  BY DEF WalkIInv
<1>2. QED
  BY <1>1, WalkInvariant, PTL

-----------------------------------------------------------------------------
\* The second half: from where the walk stands the kernel finds what it finds
\* from the start.

\* A plain name with clean components behind it is plain.
LEMMA PlainConcat ==
  ASSUME NEW n \in Raw, Plain(n), NEW r \in Cleaned
  PROVE  Plain(n \o r)
<1> DEFINE m == n \o r
           len == Len(n)
           all == Len(m)
<1>1. /\ len \in Nat /\ Len(r) \in Nat /\ all = len + Len(r)
      /\ DOMAIN n = 1..len /\ DOMAIN m = 1..all
      /\ \A k \in 1..len : m[k] = n[k]
      /\ \A k \in (len + 1)..all : m[k] \in Names
      /\ Len(r) = 0 => m = n
  <2>1. n \in Seq(Word) /\ r \in Seq(Word) /\ r \in Seq(Names)
    BY CleanedFacts DEF Raw, Cleaned
  <2>2. /\ Len(m) = len + Len(r) /\ m \in Seq(Word)
        /\ \A k \in 1..(len + Len(r)) : m[k] = IF k <= len THEN n[k] ELSE r[k - len]
    BY <2>1, ConcatProperties
  <2>3. len \in Nat /\ Len(r) \in Nat
    BY <2>1
  <2>4. ASSUME NEW k \in (len + 1)..all PROVE m[k] \in Names
    <3>1. k - len \in 1..Len(r) /\ k \in 1..(len + Len(r)) /\ ~(k <= len)
      BY <2>2, <2>3
    <3>2. m[k] = r[k - len]
      BY <2>2, <3>1
    <3>3. QED
      BY <2>1, <3>1, <3>2, ElementOfSeq
  <2>5. Len(r) = 0 => m = n
    BY <2>1, ConcatEmptySeq, EmptySeq
  <2>6. DOMAIN n = 1..len /\ DOMAIN m = 1..all
    BY <2>1, <2>2
  <2>7. \A k \in 1..len : m[k] = n[k]
    BY <2>2, <2>3
  <2>8. QED
    BY <2>2, <2>3, <2>4, <2>5, <2>6, <2>7
<1> HIDE DEF m, len, all
<1>2. CASE Len(r) = 0
  BY <1>1, <1>2 DEF m
<1>3. CASE Len(r) # 0
  <2>1. all \in (len + 1)..all /\ m[all] \in Names
    BY <1>1, <1>3
  <2>2. ~IsDot(m[all])
    BY <2>1, DotsAreNoNames, NamesAreWords
  <2>3. ASSUME NEW j \in 1..all, NEW k \in 1..all, j < k, Climbs(m[k]) PROVE IsDot(m[j])
    <3>1. k \in 1..len
      <4>1. k \notin (len + 1)..all
        BY <1>1, <2>3, NamesAreNone
      <4>2. QED
        BY <1>1, <4>1
    <3>2. j \in 1..len
      BY <1>1, <2>3, <3>1
    <3>3. Climbs(n[k]) => IsDot(n[j])
      BY <1>1, <2>3, <3>1, <3>2, PlainMeans
    <3>4. QED
      BY <1>1, <2>3, <3>1, <3>2, <3>3
  <2>4. \A k \in 1..all : k = Len(m) => ~IsDot(m[k])
    BY <2>2 DEF all
  <2>5. Plain(m)
    BY <1>1, <2>3, <2>4, PlainMeans
  <2>6. QED
    BY <2>5 DEF m
<1>4. QED
  BY <1>2, <1>3

\* The paths above a path are in front of each other.
LEMMA PathPrefixes ==
  ASSUME NEW q \in Cleaned, NEW k \in 0..Len(q), NEW j \in k..Len(q)
  PROVE  /\ IsPrefix(SubSeq(q, 1, k), SubSeq(q, 1, j))
         /\ k # j => SubSeq(q, 1, k) # SubSeq(q, 1, j)
BY DEF Cleaned, IsPrefix

\* Under a path with nothing under it there is nothing; elsewhere what the
\* kernel sees at the next component is what Resolve looks up there.
LEMMA NothingFurther ==
  ASSUME TypeOK, WalkInv, pc = "walk"
  PROVE  /\ NothingUnder(cur) => NothingUnder(next)
         /\ NothingUnder(next) => ~Exists(next)
         /\ KindAt(fs, next) = "none" => NothingUnder(next)
         /\ KindAt(fs, next) \in {"none", "dir"} \/ Exists(next)
         /\ Exists(next) => KindAt(fs, next) = fs[next].kind
         /\ ~Exists(next) /\ KindAt(fs, next) = "dir" => Implicit(fs, next)
<1>1. /\ fs \in Filesystems /\ p \in Cleaned /\ i \in 1..Len(p) /\ Len(p) \in Nat
      /\ cur = SubSeq(p, 1, i - 1) /\ next = SubSeq(p, 1, i) /\ cur \in Raw
  BY Standing, CleanedFacts
<1>2. next \in Raw
  BY <1>1, Standing, PathParts, CleanedFacts
<1>3. i - 1 \in 0..Len(p) /\ i \in (i - 1)..Len(p) /\ i \in 0..Len(p) /\ i \in i..Len(p)
  BY <1>1
<1>4. IsPrefix(cur, next) /\ IsPrefix(next, next)
  BY <1>1, <1>3, PathPrefixes
<1>5. \A r \in DOMAIN fs : r \in Raw
  BY <1>1, InputsAreTyped DEF IsFilesystem, Raw
<1>6. NothingUnder(cur) => NothingUnder(next)
  BY <1>1, <1>2, <1>4, <1>5, PrefixOfPrefix DEF NothingUnder
<1>7. NothingUnder(next) => ~Exists(next)
  BY <1>4 DEF NothingUnder, Exists
<1>8. KindAt(fs, next) = "none" => NothingUnder(next)
  <2>1. Exists(next) => fs[next].kind # "none"
    BY <1>1, InputsAreTyped DEF IsFilesystem, Exists
  <2>2. ~Exists(next) /\ ~Implicit(fs, next) => NothingUnder(next)
    BY DEF Implicit, IsStrictPrefix, NothingUnder, Exists
  <2>3. QED
    BY <2>1, <2>2 DEF KindAt, Exists
<1>9. QED
  BY <1>6, <1>7, <1>8 DEF KindAt, Exists

\* The lookup the walk stands for, as a component and the rest.
LEMMA KernelHere ==
  ASSUME TypeOK, WalkInv, pc = "walk"
  PROVE  /\ IsFilesystem(fs) /\ hops \in Hops /\ cur \in Raw /\ p[i] \in Names
         /\ SubSeq(p, i + 1, Len(p)) \in Cleaned /\ SubSeq(p, i + 1, Len(p)) \in Raw
         /\ SubSeq(p, i + 1, Len(p)) = << >> <=> last
         /\ SubSeq(p, i, Len(p)) = <<p[i]>> \o SubSeq(p, i + 1, Len(p))
<1>1. hops \in Hops
  <2>1. hops \in 0..(MaxHops + 1)
    BY DEF TypeOK
  <2>2. hops <= MaxHops
    BY DEF WalkInv
  <2>3. QED
    BY <2>1, <2>2, MaxHopsAssumption DEF Hops
<1>2. QED
  BY <1>1, Standing, RestParts, CleanedFacts, InputsAreTyped DEF last

\* Above a symlink there are directories only, written down or not.
LEMMA AboveAreDirectories ==
  ASSUME TypeOK, WalkInv, pc = "walk", Exists(next)
  PROVE  DirChain(fs, cur)
<1>1. /\ p \in Cleaned /\ i \in 1..Len(p) /\ Len(p) \in Nat
      /\ cur = SubSeq(p, 1, i - 1) /\ next = SubSeq(p, 1, i)
  BY Standing
<1>2. Len(cur) = i - 1 /\ \A k \in 1..(i - 1) : SubSeq(cur, 1, k) = SubSeq(p, 1, k)
  BY <1>1 DEF Cleaned
<1>3. ASSUME NEW k \in 1..(i - 1) PROVE KindAt(fs, SubSeq(p, 1, k)) = "dir"
  <2> DEFINE q == SubSeq(p, 1, k)
  <2>1. q \in DOMAIN fs => fs[q].kind = "dir"
    BY <1>3 DEF WalkInv
  <2>2. k \in 0..Len(p) /\ i \in k..Len(p) /\ k # i
    BY <1>1, <1>3
  <2>3. IsStrictPrefix(q, next)
    BY <1>1, <2>2, PathPrefixes DEF IsStrictPrefix
  <2> HIDE DEF q
  <2>4. q \notin DOMAIN fs => Implicit(fs, q)
    BY <2>3 DEF Implicit, Exists
  <2>5. KindAt(fs, q) = "dir"
    BY <2>1, <2>4 DEF KindAt
  <2>6. QED
    BY <2>5 DEF q
<1>4. QED
  BY <1>2, <1>3 DEF DirChain

\* The lookup after a symlink is the walk from the start of the new path.
LEMMA FollowIsKernels ==
  ASSUME TypeOK, WalkInv, Follow, PlainInput(fs, request), hops # MaxHops
  PROVE  KernelFrom(fs, cur, SubSeq(p, i, Len(p)), hops) = KernelFrom(fs, Root, p', hops + 1)
<1> DEFINE link == fs[next].link
           rest == SubSeq(p, i + 1, Len(p))
           from == LinkStart(fs, cur, next)
           n    == link \o rest
<1>1. pc = "walk" /\ Exists(next) /\ fs[next].kind = "symlink"
  BY DEF Follow
<1>2. KindAt(fs, next) = "symlink" /\ next = Append(cur, p[i])
  BY <1>1, NothingFurther DEF next
<1>3. /\ IsFilesystem(fs) /\ hops \in Hops /\ cur \in Raw /\ cur \in Cleaned /\ p[i] \in Names
      /\ rest \in Cleaned /\ rest \in Raw /\ SubSeq(p, i, Len(p)) = <<p[i]>> \o rest
  BY <1>1, KernelHere, Standing
<1>4. hops + 1 \in Hops
  BY <1>3, MaxHopsAssumption DEF Hops
<1>5. KernelFrom(fs, cur, <<p[i]>> \o rest, hops) = KernelFrom(fs, from, n, hops + 1)
  <2> HIDE DEF rest
  <2> DEFINE on == Append(cur, p[i])
  <2>1. KindAt(fs, on) = "symlink"
    BY <1>2
  <2>2. KernelFrom(fs, cur, <<p[i]>> \o rest, hops)
          = KernelFrom(fs, LinkStart(fs, cur, on), fs[on].link \o rest, hops + 1)
    BY <1>3, <2>1, KernelLink
  <2>3. LinkStart(fs, cur, on) = from /\ fs[on].link \o rest = n
    BY <1>2
  <2> HIDE DEF on, from, n
  <2>4. QED
    BY <2>2, <2>3
<1>6. link \in Raw /\ Plain(link)
  BY <1>1, <1>2, <1>3, KindAtLink DEF PlainInput, Exists, Raw
<1>7. n \in Raw /\ Plain(n)
  BY <1>3, <1>6, PlainConcat, RawConcat
<1>8. from \in Cleaned /\ DirChain(fs, from)
  BY <1>1, <1>3, AboveAreDirectories, ChainOfRoot, CleanedFacts DEF LinkStart
<1>9. p' = Clean(from \o n)
  BY FollowIsClean DEF LinkStart
<1> HIDE DEF link, rest, from, n
<1>10. KernelFrom(fs, from, n, hops + 1) = KernelFrom(fs, Root, Clean(from \o n), hops + 1)
  BY <1>3, <1>4, <1>7, <1>8, PlainLookup
<1>11. QED
  BY <1>3, <1>5, <1>9, <1>10

\* KernelInv, as the steps use it.
LEMMA KernelStarts ==
  ASSUME Init
  PROVE  KernelInv
<1> SUFFICES ASSUME PlainInput(fs, request)
             PROVE  Kernel(fs, request) = KernelFrom(fs, Root, p, hops)
  BY MaxHopsAssumption DEF KernelInv, Init, HopsExceeded
<1>1. request \in Raw /\ IsFilesystem(fs) /\ Plain(request) /\ 0 \in Hops
  BY InputsAreTyped, MaxHopsAssumption DEF Init, PlainInput, Hops
<1>2. Root \in Cleaned /\ DirChain(fs, Root)
  BY CleanedFacts, ChainOfRoot
<1>3. KernelFrom(fs, Root, request, 0) = KernelFrom(fs, Root, Clean(Root \o request), 0)
  BY <1>1, <1>2, PlainLookup
<1>4. Root \o request = request
  BY <1>1, RawFacts DEF Root
<1>5. QED
  BY <1>3, <1>4 DEF Kernel, Init

\* A directory, or a component that is not there, keeps the kernel's answer.
LEMMA DescendKeepsKernel ==
  ASSUME TypeOK, WalkInv, KernelInv, pc = "walk", Descend,
         Exists(next) => fs[next].kind = "dir"
  PROVE  KernelInv'
<1> DEFINE k == Kernel(fs, request)
           rest == SubSeq(p, i + 1, Len(p))
<1>1. UNCHANGED <<fs, request, pc, p, hops>> /\ i' = i + 1 /\ cur' = next
  BY DEF Descend
<1> SUFFICES ASSUME PlainInput(fs, request)
             PROVE  \/ k = KernelFrom(fs, next, rest, hops)
                    \/ k = Failed("ErrNotExist") /\ NothingUnder(next)
  BY <1>1 DEF KernelInv, NothingUnder
<1>2. \/ k = KernelFrom(fs, cur, SubSeq(p, i, Len(p)), hops)
      \/ k = Failed("ErrNotExist") /\ NothingUnder(cur)
  BY DEF KernelInv
<1>3. CASE k = Failed("ErrNotExist") /\ NothingUnder(cur)
  BY <1>3, NothingFurther
<1>4. CASE k = KernelFrom(fs, cur, SubSeq(p, i, Len(p)), hops)
  <2>1. /\ IsFilesystem(fs) /\ hops \in Hops /\ cur \in Raw /\ p[i] \in Names
        /\ rest \in Raw /\ SubSeq(p, i, Len(p)) = <<p[i]>> \o rest
    BY KernelHere
  <2>2. next = Append(cur, p[i])
    BY DEF next
  <2> HIDE DEF k, rest
  <2>3. CASE KindAt(fs, next) = "dir"
    <3>1. KernelFrom(fs, cur, <<p[i]>> \o rest, hops) = KernelFrom(fs, next, rest, hops)
      BY <2>1, <2>2, <2>3, KernelDir
    <3>2. QED
      BY <1>4, <2>1, <3>1
  <2>4. CASE KindAt(fs, next) = "none"
    <3>1. KernelFrom(fs, cur, <<p[i]>> \o rest, hops) = Failed("ErrNotExist")
      BY <2>1, <2>2, <2>4, KernelNone
    <3>2. NothingUnder(next)
      BY <2>4, NothingFurther
    <3>3. QED
      BY <1>4, <2>1, <3>1, <3>2
  <2>5. QED
    BY <2>3, <2>4, NothingFurther
<1>5. QED
  BY <1>2, <1>3, <1>4

\* A symlink keeps it.
LEMMA FollowKeepsKernel ==
  ASSUME TypeOK, WalkInv, KernelInv, Follow
  PROVE  KernelInv'
<1> DEFINE k == Kernel(fs, request)
           rest == SubSeq(p, i + 1, Len(p))
<1>1. /\ pc = "walk" /\ Exists(next) /\ fs[next].kind = "symlink"
      /\ UNCHANGED <<fs, request>> /\ pc' = "enter" /\ hops' = hops + 1
  BY DEF Follow
<1>2. hops \in Hops /\ hops \in Nat /\ hops <= MaxHops
  BY <1>1, KernelHere, HopsFacts
<1>3. (HopsExceeded)' <=> hops = MaxHops
  BY <1>1, <1>2, MaxHopsAssumption DEF HopsExceeded
<1> SUFFICES ASSUME PlainInput(fs, request)
             PROVE  k = IF hops = MaxHops THEN Failed("ErrLoop")
                        ELSE KernelFrom(fs, Root, p', hops + 1)
  BY <1>1, <1>3 DEF KernelInv
<1>4. k = KernelFrom(fs, cur, SubSeq(p, i, Len(p)), hops)
  <2>1. ~NothingUnder(cur)
    BY <1>1, NothingFurther
  <2>2. QED
    BY <1>1, <2>1 DEF KernelInv
<1>5. CASE hops # MaxHops
  BY <1>4, <1>5, FollowIsKernels
<1>6. CASE hops = MaxHops
  <2>1. /\ IsFilesystem(fs) /\ cur \in Raw /\ p[i] \in Names
        /\ rest \in Raw /\ SubSeq(p, i, Len(p)) = <<p[i]>> \o rest
    BY <1>1, KernelHere
  <2>2. KindAt(fs, Append(cur, p[i])) = "symlink"
    BY <1>1, NothingFurther DEF next
  <2> HIDE DEF k, rest
  <2>3. KernelFrom(fs, cur, <<p[i]>> \o rest, MaxHops) = Failed("ErrLoop")
    BY <2>1, <2>2, KernelLoop
  <2>4. QED
    BY <1>4, <1>6, <2>1, <2>3
<1>7. QED
  BY <1>5, <1>6

\* Every step keeps it.
LEMMA StepsKeepKernel ==
  ASSUME TypeOK, WalkInv, KernelInv, [Next]_vars
  PROVE  KernelInv'
<1>1. ASSUME pc' \in Outcomes PROVE KernelInv'
  BY <1>1 DEF KernelInv, Outcomes, Errors
<1>2. CASE TooManyHops \/ ResolveRoot \/ MissingLast \/ FoundLast \/ NotDirectory
  BY <1>1, <1>2
     DEF TooManyHops, ResolveRoot, MissingLast, FoundLast, NotDirectory, Finish, Outcomes, Errors
<1>3. CASE Enter
  <2>1. /\ pc = "enter" /\ ~HopsExceeded /\ pc' = "walk"
        /\ UNCHANGED <<fs, request, p, hops, i, cur>>
    BY <1>3 DEF Enter
  <2>2. i = 1 /\ cur = Root /\ p \in Cleaned
    BY <2>1, WalkInvCleaned DEF WalkInv
  <2>3. SubSeq(p, i, Len(p)) = p
    BY <2>2, SubSeqFull DEF Cleaned
  <2>4. QED
    BY <2>1, <2>2, <2>3 DEF KernelInv
<1>4. CASE Missing
  BY <1>4, DescendKeepsKernel DEF Missing
<1>5. CASE Follow
  BY <1>5, FollowKeepsKernel
<1>6. CASE IntoDirectory
  BY <1>6, DescendKeepsKernel DEF IntoDirectory
<1>7. CASE UNCHANGED vars
  BY <1>7 DEF vars, KernelInv, HopsExceeded, NothingUnder
<1>8. QED
  BY <1>2, <1>3, <1>4, <1>5, <1>6, <1>7 DEF Next, Walk, Returned

\* The inductive invariant: the walk of overlay.go:311-353 stands at every
\* step where the kernel's walk would reach the same end.
THEOREM ResolveInvariant == Spec => []IInv
<1>1. Init => IInv
  BY StartsWell, KernelStarts DEF IInv, WalkIInv
<1>2. IInv /\ [Next]_vars => IInv'
  BY StepsKeepWalk, StepsKeepKernel DEF IInv, WalkIInv
<1>3. QED
  BY <1>1, <1>2, PTL DEF Spec

-----------------------------------------------------------------------------
\* The refinement.

\* An answer to a name that is not plain.
LEMMA LooseAnswers ==
  ASSUME ~PlainInput(fs, request)
  PROVE  /\ \A e \in Errors : Failed(e) \in Answers(fs, request)
         /\ Found(Root) \in Answers(fs, request)
         /\ \A q \in DOMAIN fs : fs[q].kind # "symlink" => Found(q) \in Answers(fs, request)
BY DEF Answers

\* An answer to a plain one.
LEMMA PlainAnswers ==
  ASSUME PlainInput(fs, request)
  PROVE  /\ \A e \in Errors : Kernel(fs, request) = Failed(e) =>
                                Failed(e) \in Answers(fs, request)
         /\ \A q : Kernel(fs, request) = Found(q) =>
              IF Implicit(fs, q) /\ q # Root
              THEN Failed("ErrNotExist") \in Answers(fs, request)
              ELSE Found(q) \in Answers(fs, request)
BY DEF Answers, Found, Failed, Errors

\* A failure that is the kernel's is one of the answers.
LEMMA AnswersFailure ==
  ASSUME NEW e \in Errors,
         PlainInput(fs, request) => Kernel(fs, request) = Failed(e)
  PROVE  Failed(e) \in Answers(fs, request)
BY LooseAnswers, PlainAnswers

\* At the last component the kernel's answer is what is found there.
LEMMA LastComponent ==
  ASSUME TypeOK, WalkInv, KernelInv, pc = "walk", last, PlainInput(fs, request)
  PROVE  LET k == Kernel(fs, request) IN
         /\ ~Exists(next) => \/ k = Failed("ErrNotExist")
                             \/ k = Found(next) /\ Implicit(fs, next)
         /\ Exists(next) /\ fs[next].kind # "symlink" => k = Found(next)
<1> DEFINE k == Kernel(fs, request)
           rest == SubSeq(p, i + 1, Len(p))
<1>1. /\ IsFilesystem(fs) /\ hops \in Hops /\ cur \in Raw /\ p[i] \in Names
      /\ SubSeq(p, i, Len(p)) = <<p[i]>> \o rest /\ rest \in Raw
  BY KernelHere
<1>2. rest = << >>
  BY KernelHere
<1> HIDE DEF rest
<1>3. \/ k = KernelFrom(fs, cur, <<p[i]>> \o rest, hops)
      \/ k = Failed("ErrNotExist") /\ NothingUnder(cur)
  BY <1>1 DEF KernelInv
<1>4. next = Append(cur, p[i]) /\ next \in Raw
  BY <1>1, NamesAreWords, RawFacts DEF next
<1>5. ASSUME KindAt(fs, next) = "dir"
      PROVE  KernelFrom(fs, cur, <<p[i]>> \o rest, hops) = Found(next)
  <2>1. KernelFrom(fs, cur, <<p[i]>> \o rest, hops) = KernelFrom(fs, next, rest, hops)
    BY <1>1, <1>4, <1>5, KernelDir
  <2>2. QED
    BY <1>1, <1>4, <1>2, <2>1, KernelEnd
<1>6. ASSUME KindAt(fs, next) = "none"
      PROVE  KernelFrom(fs, cur, <<p[i]>> \o rest, hops) = Failed("ErrNotExist")
  BY <1>1, <1>4, <1>6, KernelNone
<1>7. ASSUME KindAt(fs, next) \notin {"none", "dir", "symlink"}
      PROVE  KernelFrom(fs, cur, <<p[i]>> \o rest, hops) = Found(next)
  <2>1. KernelFrom(fs, cur, <<p[i]>> \o rest, hops) =
          IF rest = << >> THEN Found(next) ELSE Failed("ErrNotDir")
    BY <1>1, <1>4, <1>7, KernelOther
  <2>2. QED
    BY <1>2, <2>1
<1> HIDE DEF k
<1>8. ~Exists(next) => k = Failed("ErrNotExist") \/ (k = Found(next) /\ Implicit(fs, next))
  BY <1>3, <1>5, <1>6, NothingFurther
<1>9. Exists(next) => KindAt(fs, next) # "none" /\ ~NothingUnder(cur)
  BY NothingFurther
<1>10. Exists(next) /\ fs[next].kind # "symlink" => k = Found(next)
  BY <1>3, <1>5, <1>7, <1>9, NothingFurther
<1>11. QED
  BY <1>8, <1>10 DEF k

\* A step that returns gives one of the answers LookupOnce allows.
LEMMA ReturnsAnAnswer ==
  ASSUME IInv, Next, pc \notin Outcomes, pc' \in Outcomes
  PROVE  [outcome |-> pc', path |-> found'] \in Answers(fs, request)
<1> USE DEF IInv
<1> DEFINE k == Kernel(fs, request)
           plain == PlainInput(fs, request)
<1>1. ASSUME NEW e \in Errors, Finish(e, Root), plain => k = Failed(e)
      PROVE  [outcome |-> pc', path |-> found'] \in Answers(fs, request)
  <2>1. pc' = e /\ found' = Root
    BY <1>1 DEF Finish
  <2>2. [outcome |-> pc', path |-> found'] = Failed(e)
    BY <2>1 DEF Failed
  <2>3. QED
    BY <1>1, <2>2, AnswersFailure
<1>2. ASSUME NEW q, Finish("found", q), Found(q) \in Answers(fs, request)
      PROVE  [outcome |-> pc', path |-> found'] \in Answers(fs, request)
  BY <1>2 DEF Finish, Found
<1>3. CASE TooManyHops
  <2>1. "ErrLoop" \in Errors /\ Finish("ErrLoop", Root)
    BY <1>3 DEF Errors, TooManyHops
  <2>2. plain => k = Failed("ErrLoop")
    BY <1>3 DEF TooManyHops, KernelInv
  <2>3. QED
    BY <1>1, <2>1, <2>2
<1>4. CASE ResolveRoot
  <2>1. pc = "enter" /\ ~HopsExceeded /\ p = Root /\ Finish("found", Root)
    BY <1>4 DEF ResolveRoot
  <2>2. hops \in Hops
    BY <2>1, MaxHopsAssumption DEF TypeOK, HopsExceeded, Hops
  <2>3. IsFilesystem(fs) /\ Root \in Raw
    BY InputsAreTyped, CleanedFacts DEF WalkInv
  <2>4. KernelFrom(fs, Root, << >>, hops) = Found(Root)
    BY <2>2, <2>3, KernelEnd
  <2>5. plain => k = Found(Root)
    BY <2>1, <2>4 DEF KernelInv, Root
  <2>6. Found(Root) \in Answers(fs, request)
    BY <2>5, LooseAnswers, PlainAnswers
  <2>7. QED
    BY <1>2, <2>1, <2>6
<1>5. CASE MissingLast
  <2>1. "ErrNotExist" \in Errors /\ Finish("ErrNotExist", Root) /\ pc = "walk" /\ last
        /\ ~Exists(next)
    BY <1>5 DEF Errors, MissingLast
  <2>2. [outcome |-> pc', path |-> found'] = Failed("ErrNotExist")
    BY <2>1 DEF Finish, Failed
  <2>3. CASE ~plain
    BY <2>1, <2>2, <2>3, LooseAnswers
  <2>4. CASE plain /\ k = Failed("ErrNotExist")
    BY <2>1, <2>2, <2>4, PlainAnswers
  <2>5. CASE plain /\ k = Found(next) /\ Implicit(fs, next)
    <3>1. next # Root
      BY <2>1, Standing, AppendProperties DEF next, Root, Cleaned
    <3>2. QED
      BY <2>2, <2>5, <3>1, PlainAnswers
  <2>6. QED
    BY <2>1, <2>3, <2>4, <2>5, LastComponent
<1>6. CASE FoundLast
  <2>1. /\ pc = "walk" /\ last /\ Exists(next) /\ fs[next].kind # "symlink"
        /\ Finish("found", next)
    BY <1>6 DEF FoundLast
  <2>2. CASE ~plain
    <3>1. Found(next) \in Answers(fs, request)
      BY <2>1, <2>2, LooseAnswers DEF Exists
    <3>2. QED
      BY <1>2, <2>1, <3>1
  <2>3. CASE plain
    <3>1. k = Found(next) /\ ~Implicit(fs, next)
      BY <2>1, <2>3, LastComponent DEF Implicit, Exists
    <3>2. Found(next) \in Answers(fs, request)
      BY <2>3, <3>1, PlainAnswers
    <3>3. QED
      BY <1>2, <2>1, <3>2
  <2>4. QED
    BY <2>2, <2>3
<1>7. CASE NotDirectory
  <2>1. /\ "ErrNotDir" \in Errors /\ Finish("ErrNotDir", Root) /\ pc = "walk" /\ ~last
        /\ Exists(next) /\ fs[next].kind \notin {"symlink", "dir"}
    BY <1>7 DEF Errors, NotDirectory
  <2> DEFINE rest == SubSeq(p, i + 1, Len(p))
  <2>2. /\ IsFilesystem(fs) /\ hops \in Hops /\ cur \in Raw /\ p[i] \in Names
        /\ rest \in Raw /\ rest # << >> /\ SubSeq(p, i, Len(p)) = <<p[i]>> \o rest
    BY <2>1, KernelHere
  <2>3. KindAt(fs, next) \notin {"none", "dir", "symlink"} /\ ~NothingUnder(cur)
    BY <2>1, NothingFurther
  <2>4. next = Append(cur, p[i])
    BY DEF next
  <2> HIDE DEF rest
  <2>5. KernelFrom(fs, cur, <<p[i]>> \o rest, hops) = Failed("ErrNotDir")
    BY <2>2, <2>3, <2>4, KernelOther
  <2>6. plain => k = Failed("ErrNotDir")
    BY <2>1, <2>2, <2>3, <2>5 DEF KernelInv
  <2>7. QED
    BY <1>1, <2>1, <2>6
<1>8. QED
  <2>1. CASE Enter
    BY <2>1 DEF Enter, Outcomes, Errors
  <2>2. CASE Missing \/ IntoDirectory
    BY <2>2 DEF Missing, IntoDirectory, Descend
  <2>3. CASE Follow
    BY <2>3 DEF Follow, Outcomes, Errors
  <2>4. CASE Returned
    BY <2>4 DEF Returned
  <2>5. QED
    BY <1>3, <1>4, <1>5, <1>6, <1>7, <2>1, <2>2, <2>3, <2>4 DEF Next, Walk

\* Resolve, seen from its caller, is one lookup with the kernel's answer,
\* errors and hop limit included (overlay.go:303-309).
THEOREM ResolveIsOneLookup == Spec => ResolvesAtOnce
<1> DEFINE answer == IF pc \in Outcomes THEN Answered ELSE NoAnswer
<1>1. Init => Once!OnceInit
  BY DEF Init, Once!OnceInit, Outcomes, Errors
<1>2. ASSUME IInv, [Next]_vars
      PROVE  [Once!Answer]_<<fs, request, answer>>
  <2>1. CASE UNCHANGED vars
    BY <2>1 DEF vars, Answered
  <2>2. CASE Next /\ pc \in Outcomes
    <3>1. UNCHANGED vars
      BY <2>2 DEF Next, Walk, Returned, TooManyHops, ResolveRoot, Enter, Missing, MissingLast,
                  Follow, FoundLast, NotDirectory, IntoDirectory, Outcomes, Errors
    <3>2. QED
      BY <3>1 DEF vars, Answered
  <2>3. CASE Next /\ pc \notin Outcomes /\ pc' \notin Outcomes
    <3>1. UNCHANGED <<fs, request>>
      BY <2>3 DEF Next, Walk, Returned, TooManyHops, ResolveRoot, Enter, Missing, MissingLast,
                  Follow, FoundLast, NotDirectory, IntoDirectory, Finish, Descend, vars
    <3>2. QED
      BY <2>3, <3>1
  <2>4. CASE Next /\ pc \notin Outcomes /\ pc' \in Outcomes
    <3>1. UNCHANGED <<fs, request>>
      BY <2>4 DEF Next, Walk, Returned, TooManyHops, ResolveRoot, Enter, Missing, MissingLast,
                  Follow, FoundLast, NotDirectory, IntoDirectory, Finish, Descend, vars
    <3>2. answer = NoAnswer /\ answer' = [outcome |-> pc', path |-> found']
      BY <2>4 DEF Answered
    <3>3. answer' \in Answers(fs, request)
      BY <1>2, <2>4, <3>2, ReturnsAnAnswer
    <3>4. Once!Answer
      BY <3>1, <3>2, <3>3 DEF Once!Answer
    <3>5. QED
      BY <3>4
  <2>5. QED
    BY <1>2, <2>1, <2>2, <2>3, <2>4
<1>3. QED
  BY <1>1, <1>2, ResolveInvariant, PTL DEF Spec, ResolvesAtOnce, Once!OnceSpec
=============================================================================
