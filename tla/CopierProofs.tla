---------------------------- MODULE CopierProofs ----------------------------
(***************************************************************************)
(* Proofs about a copy: that nothing outside its target changes, that a    *)
(* success is a complete copy, and that the count is of what is there.     *)
(***************************************************************************)
EXTENDS CopierInv, PathProofs, FiniteSetTheorems

\* A name more, and names after names: opaque, that no prover takes them apart.
Into(a, n) == Append(a, n)
Then(s, t) == s \o t

\* A path is below another when it goes on from it.
LEMMA PrefixGoesOn ==
  ASSUME NEW S, NEW a \in Seq(S), NEW b \in Seq(S)
  PROVE  /\ IsPrefix(a, b) <=> \E c \in Seq(S) : b = Then(a, c)
         /\ IsStrictPrefix(a, b) <=> \E c \in Seq(S) : c # << >> /\ b = Then(a, c)
<1>1. ASSUME NEW c \in Seq(S), b = a \o c PROVE IsPrefix(a, b)
  BY <1>1 DEF IsPrefix
<1>2. ASSUME IsPrefix(a, b) PROVE \E c \in Seq(S) : b = Then(a, c)
  <2> DEFINE c == SubSeq(b, Len(a) + 1, Len(b))
  <2>1. Len(a) <= Len(b) /\ \A i \in 1..Len(a) : a[i] = b[i]
    <3>1. SubSeq(a, 1, Len(a)) = SubSeq(b, 1, Len(a)) /\ Len(a) <= Len(b)
      BY <1>2 DEF IsPrefix
    <3>2. \A i \in 1..Len(a) : SubSeq(a, 1, Len(a))[i] = a[i] /\ SubSeq(b, 1, Len(a))[i] = b[i]
      BY <3>1
    <3>3. QED
      BY <3>1, <3>2
  <2>2. c \in Seq(S) /\ Len(c) = Len(b) - Len(a)
    BY <2>1
  <2>3. \A i \in 1..Len(c) : c[i] = b[i + Len(a)]
    BY <2>1
  <2> HIDE DEF c
  <2>4. /\ a \o c \in Seq(S) /\ Len(a \o c) = Len(b)
        /\ \A i \in 1..Len(b) : (a \o c)[i] = b[i]
    BY <2>1, <2>2, <2>3
  <2>5. b = a \o c
    BY <2>4, SeqEqual
  <2>6. b = Then(a, c)
    BY <2>5 DEF Then
  <2>7. QED
    BY <2>2, <2>6
<1>3. ASSUME NEW c \in Seq(S), b = a \o c PROVE a = b <=> c = << >>
  BY <1>3
<1>4. ASSUME NEW c \in Seq(S), b = Then(a, c) PROVE IsPrefix(a, b) /\ (a = b <=> c = << >>)
  BY <1>1, <1>3, <1>4 DEF Then
<1>5. QED
  BY <1>2, <1>4 DEF IsStrictPrefix

-----------------------------------------------------------------------------
(***************************************************************************)
(* Path walks, a name at a time.                                           *)
(***************************************************************************)

LEMMA IntoPath ==
  ASSUME NEW a \in Seq(Names), NEW n \in Names
  PROVE  Into(a, n) \in Seq(Names) /\ Into(a, n) # Root /\ Front(Into(a, n)) = a
BY FrontOfAppend, AppendProperties DEF Into, Root

LEMMA ThenNames ==
  ASSUME NEW S, NEW s, NEW t, s \in Seq(S), t \in Seq(S)
  PROVE  /\ Then(s, t) \in Seq(S) /\ (Then(s, t) = << >> <=> s = << >> /\ t = << >>)
         /\ s = << >> => Then(s, t) = t
         /\ t = << >> => Then(s, t) = s
<1>1. s \o t \in Seq(S) /\ (s \o t = << >> <=> s = << >> /\ t = << >>)
  OBVIOUS
<1>2. << >> \o t = t /\ s \o << >> = s
  OBVIOUS
<1>3. QED
  BY <1>1, <1>2 DEF Then

LEMMA ThenThen ==
  ASSUME NEW S, NEW s \in Seq(S), NEW t \in Seq(S), NEW u \in Seq(S)
  PROVE  Then(Then(s, t), u) = Then(s, Then(t, u))
<1>1. (s \o t) \o u = s \o (t \o u)
  OBVIOUS
<1>2. QED
  BY <1>1 DEF Then

\* The first name of a path, and the names after it.
Starts(s, n, l) == s # << >> /\ Head(s) = n /\ Tail(s) = l

LEMMA StartsSome ==
  ASSUME NEW s \in Seq(Word), s # << >>
  PROVE  \E n \in Word, l \in Seq(Word) : Starts(s, n, l)
<1>1. Head(s) \in Word /\ Tail(s) \in Seq(Word)
  OBVIOUS
<1>2. QED
  BY <1>1 DEF Starts

LEMMA ThenStarts ==
  ASSUME NEW s \in Seq(Word), NEW t \in Seq(Word), NEW n, NEW l, Starts(s, n, l)
  PROVE  Starts(Then(s, t), n, Then(l, t))
<1>1. s \o t \in Seq(Word) /\ s \o t # << >> /\ Tail(s) \in Seq(Word) /\ Head(s \o t) = Head(s)
  BY DEF Starts
<1>2. /\ Tail(s \o t) \in Seq(Word) /\ Tail(s) \o t \in Seq(Word)
      /\ Len(Tail(s \o t)) = Len(Tail(s) \o t)
      /\ \A i \in 1..Len(Tail(s \o t)) : Tail(s \o t)[i] = (Tail(s) \o t)[i]
  BY <1>1
<1>3. Tail(s \o t) = Tail(s) \o t
  BY <1>2, SeqEqual
<1>4. QED
  BY <1>1, <1>3 DEF Starts, Then

\* The first i names of t below r, and the names after those.
Down(r, t, i) == r \o SubSeq(t, 1, i)
After(t, i)   == SubSeq(t, i + 1, Len(t))

LEMMA AfterNames ==
  ASSUME NEW S, NEW t \in Seq(S), NEW i \in 0..Len(t)
  PROVE  /\ After(t, i) \in Seq(S) /\ Len(After(t, i)) = Len(t) - i
         /\ \A j \in 1..(Len(t) - i) : After(t, i)[j] = t[i + j]
         /\ After(t, i) = << >> <=> i = Len(t)
<1> DEFINE c == SubSeq(t, i + 1, Len(t))
<1>1. /\ c \in Seq(S) /\ Len(c) = Len(t) - i
      /\ \A j \in 1..(Len(t) - i) : c[j] = t[i + j]
  OBVIOUS
<1> HIDE DEF c
<1>2. c = << >> <=> i = Len(t)
  BY <1>1
<1>3. QED
  BY <1>1, <1>2 DEF After, c

LEMMA DownPath ==
  ASSUME NEW S, NEW r \in Seq(S), NEW t \in Seq(S), NEW i \in 0..Len(t)
  PROVE  Down(r, t, i) \in Seq(S) /\ Then(Down(r, t, i), After(t, i)) = Then(r, t)
<1> DEFINE a == SubSeq(t, 1, i)
           c == After(t, i)
<1>1. /\ a \in Seq(S) /\ Len(a) = i
      /\ \A j \in 1..i : a[j] = t[j]
  OBVIOUS
<1> HIDE DEF a, c
<1>2. /\ c \in Seq(S) /\ Len(c) = Len(t) - i
      /\ \A j \in 1..(Len(t) - i) : c[j] = t[i + j]
  BY AfterNames DEF c
<1>3. a \o c = t
  <2>1. a \o c \in Seq(S) /\ Len(a \o c) = Len(t)
    <3>1. a \in Seq(S) /\ c \in Seq(S)
      BY <1>1, <1>2
    <3>2. a \o c \in Seq(S) /\ Len(a \o c) = Len(a) + Len(c)
      BY <3>1
    <3>3. Len(t) \in Nat
      OBVIOUS
    <3>4. QED
      BY <1>1, <1>2, <3>2, <3>3
  <2>2. ASSUME NEW j \in 1..Len(t) PROVE (a \o c)[j] = t[j]
    <3>1. CASE j <= i
      BY <1>1, <1>2, <3>1
    <3>2. CASE ~(j <= i)
      <4>1. (a \o c)[j] = c[j - i] /\ j - i \in 1..(Len(t) - i) /\ i + (j - i) = j
        BY <1>1, <1>2, <3>2
      <4>2. QED
        BY <1>2, <4>1
    <3>3. QED
      BY <3>1, <3>2
  <2>3. QED
    BY <2>1, <2>2, SeqEqual
<1>4. (r \o a) \o c = r \o (a \o c) /\ r \o a \in Seq(S)
  BY <1>1, <1>2
<1>5. QED
  BY <1>3, <1>4 DEF Down, Then, a, c

LEMMA DownEnds ==
  ASSUME NEW S, NEW r \in Seq(S), NEW t \in Seq(S)
  PROVE  /\ Down(r, t, 0) = r /\ Down(r, t, Len(t)) = Then(r, t)
         /\ After(t, 0) = t /\ Len(t) \in Nat
<1>1. SubSeq(t, 1, 0) = << >> /\ SubSeq(t, 1, Len(t)) = t /\ SubSeq(t, 0 + 1, Len(t)) = t
      /\ Len(t) \in Nat
  OBVIOUS
<1>2. r \o << >> = r
  OBVIOUS
<1>3. QED
  BY <1>1, <1>2 DEF Down, After, Then

\* One name more.
LEMMA OneNameMore ==
  ASSUME NEW S, NEW r \in Seq(S), NEW t \in Seq(S), NEW i \in 0..(Len(t) - 1)
  PROVE  /\ t[i + 1] \in S /\ i \in 0..Len(t) /\ i + 1 \in 0..Len(t)
         /\ Down(r, t, i + 1) = Into(Down(r, t, i), t[i + 1])
         /\ Starts(After(t, i), t[i + 1], After(t, i + 1))
<1> DEFINE a == SubSeq(t, 1, i)
           b == SubSeq(t, 1, i + 1)
<1>1. a \in Seq(S) /\ b \in Seq(S) /\ t[i + 1] \in S /\ i \in 0..Len(t) /\ i + 1 \in 0..Len(t)
  OBVIOUS
<1>2. b = Append(a, t[i + 1])
  OBVIOUS
<1>3. r \o b = Append(r \o a, t[i + 1])
  <2> HIDE DEF a, b
  <2>1. QED
    BY <1>1, <1>2, AppendOfConcat
<1>4. Starts(After(t, i), t[i + 1], After(t, i + 1))
  <2> DEFINE c == After(t, i)
             m == After(t, i + 1)
  <2>1. /\ c \in Seq(S) /\ Len(c) = Len(t) - i
        /\ \A j \in 1..(Len(t) - i) : c[j] = t[i + j]
    BY <1>1, AfterNames
  <2>2. /\ m \in Seq(S) /\ Len(m) = Len(t) - (i + 1)
        /\ \A j \in 1..(Len(t) - (i + 1)) : m[j] = t[i + 1 + j]
    BY <1>1, AfterNames
  <2> HIDE DEF c, m
  <2>3. c # << >> /\ Head(c) = t[i + 1]
    BY <2>1
  <2>4. /\ Tail(c) \in Seq(S) /\ Len(Tail(c)) = Len(m)
        /\ \A j \in 1..Len(m) : Tail(c)[j] = m[j]
    BY <2>1, <2>2
  <2>5. Tail(c) = m
    BY <2>2, <2>4, SeqEqual
  <2>6. QED
    BY <2>3, <2>5 DEF Starts, c, m
<1>5. QED
  BY <1>1, <1>3, <1>4 DEF Down, Into

\* The states of a walk.
Walker == [at : Seq(Names), rest : Seq(Word),
           error : {NoError, "ENOTDIR", "EACCES", "ENOENT", "ELOOP"}]
Stop(a, s, e) == [at |-> a, rest |-> s, error |-> e]
Stand(a, s)   == Stop(a, s, NoError)

LEMMA StopFields ==
  ASSUME NEW a, NEW s, NEW e
  PROVE  Stop(a, s, e).at = a /\ Stop(a, s, e).rest = s /\ Stop(a, s, e).error = e
BY DEF Stop

LEMMA StandFields ==
  ASSUME NEW a, NEW s
  PROVE  Stand(a, s).at = a /\ Stand(a, s).rest = s /\ Stand(a, s).error = NoError
BY DEF Stop, Stand

\* Where a walk stands tells it.
LEMMA StandSame ==
  ASSUME NEW a, NEW s, NEW b, NEW u, Stand(a, s) = Stand(b, u)
  PROVE  b = a /\ u = s
<1>1. Stand(a, s).at = Stand(b, u).at /\ Stand(a, s).rest = Stand(b, u).rest
  OBVIOUS
<1>2. QED
  BY <1>1, StandFields

\* The errors of a walk are errors.
LEMMA StopFails ==
  /\ \A e \in {"ENOTDIR", "EACCES", "ENOENT", "ELOOP"} : e # NoError
  /\ \A a, s : ~Fails(Stand(a, s))
  /\ \A a, s : \A e \in {"ENOTDIR", "EACCES", "ENOENT", "ELOOP"} : Fails(Stop(a, s, e))
<1>1. \A e \in {"ENOTDIR", "EACCES", "ENOENT", "ELOOP"} : e # NoError
  BY DEF NoError
<1>2. QED
  BY <1>1, StopFields, StandFields DEF Fails

\* A trail is what its definition says: it exists, and goes on by WalkName.
LEMMA TrailGoesOn ==
  ASSUME NEW d, NEW p, NEW last
  PROVE  LET trail == Trail(d, p, last) IN
         /\ DOMAIN trail = 0..Fuel
         /\ trail[0] = Stand(Root, p)
         /\ \A k \in 0..(Fuel - 1) : trail[k + 1] = WalkName(d, last, trail[k])
<1> DEFINE on(w) == WalkName(d, last, w)
           start == Stand(Root, p)
           Good(n, f) == f[0] = start /\ \A k \in 1..n : f[k] = on(f[k - 1])
           Some(n) == \E f : f = [k \in 0..n |-> f[k]] /\ Good(n, f)
           T == {n \in Nat : Some(n)}
           Equation(f) == f = [k \in 0..Fuel |-> IF k = 0 THEN start ELSE on(f[k - 1])]
           trail == CHOOSE f : Equation(f)
<1>1. Trail(d, p, last) = trail
  BY DEF Trail, Stop, Stand
<1> HIDE DEF on, start
<1>2. 0 \in T
  <2> DEFINE f == [k \in 0..0 |-> start]
  <2>1. f = [k \in 0..0 |-> f[k]] /\ Good(0, f)
    OBVIOUS
  <2>2. QED
    BY <2>1
<1>3. ASSUME NEW n \in Nat, n \in T PROVE n + 1 \in T
  <2>1. PICK f : f = [k \in 0..n |-> f[k]] /\ Good(n, f)
    BY <1>3
  <2> DEFINE g == [k \in 0..(n + 1) |-> IF k <= n THEN f[k] ELSE on(f[n])]
  <2>2. g = [k \in 0..(n + 1) |-> g[k]]
    OBVIOUS
  <2>3. g[0] = start /\ \A k \in 0..n : g[k] = f[k]
    BY <2>1
  <2>4. g[n + 1] = on(f[n])
    OBVIOUS
  <2> HIDE DEF g
  <2>5. ASSUME NEW k \in 1..(n + 1) PROVE g[k] = on(g[k - 1])
    <3>1. CASE k = n + 1
      BY <2>3, <2>4, <3>1
    <3>2. CASE k # n + 1
      <4>1. k \in 1..n /\ k - 1 \in 0..n /\ k \in 0..n
        BY <3>2
      <4>2. QED
        BY <2>1, <2>3, <4>1
    <3>3. QED
      BY <3>1, <3>2
  <2>6. Good(n + 1, g)
    BY <2>3, <2>5
  <2> HIDE DEF Good
  <2>7. QED
    BY <2>2, <2>6
<1>4. Fuel \in T
  <2> HIDE DEF T
  <2>1. \A n \in Nat : n \in T => n + 1 \in T
    BY <1>3
  <2>2. QED
    BY <1>2, <2>1, NatSetInduction, FuelAssumption
<1>5. PICK f : f = [k \in 0..Fuel |-> f[k]] /\ Good(Fuel, f)
  BY <1>4
<1>6. Equation(f)
  <2>1. ASSUME NEW k \in 0..Fuel PROVE f[k] = IF k = 0 THEN start ELSE on(f[k - 1])
    <3>1. k = 0 \/ k \in 1..Fuel
      BY FuelAssumption
    <3>2. f[0] = start /\ \A i \in 1..Fuel : f[i] = on(f[i - 1])
      BY <1>5
    <3>3. QED
      BY <3>1, <3>2
  <2> HIDE DEF Good
  <2>2. QED
    BY <1>5, <2>1
<1>7. Equation(trail)
  <2> HIDE DEF Equation
  <2>1. QED
    BY <1>6
<1> HIDE DEF trail
<1>8. \A k \in 0..Fuel : trail[k] = IF k = 0 THEN start ELSE on(trail[k - 1])
  BY <1>7
<1>9. DOMAIN trail = 0..Fuel
  BY <1>7
<1>10. trail[0] = start
  BY <1>8, FuelAssumption
<1>11. ASSUME NEW k \in 0..(Fuel - 1) PROVE trail[k + 1] = on(trail[k])
  <2>1. k + 1 \in 0..Fuel /\ k + 1 # 0 /\ (k + 1) - 1 = k
    BY FuelAssumption
  <2>2. QED
    BY <1>8, <2>1
<1>12. QED
  BY <1>1, <1>9, <1>10, <1>11 DEF on, start

\* A walk that is over, or has failed, stands still.
Over(w) == w.rest = << >> \/ Fails(w)

LEMMA StepStays ==
  ASSUME NEW d, NEW last, NEW w, Over(w)
  PROVE  WalkName(d, last, w) = w
BY DEF WalkName, Over

\* What a walk does with the next name: for each branch of WalkName what it
\* comes to.
LEMMA StepNoDirectory ==
  ASSUME NEW d, NEW last, NEW a, NEW s, NEW n, NEW l, Starts(s, n, l), Kind(d, a) # "dir"
  PROVE  WalkName(d, last, Stand(a, s)) = Stop(a, s, "ENOTDIR")
BY DEF WalkName, Stop, Stand, Fails, Starts

LEMMA StepDenied ==
  ASSUME NEW d, NEW last, NEW a, NEW s, NEW n, NEW l, Starts(s, n, l),
         Kind(d, a) = "dir", "x" \notin d[a].mode
  PROVE  WalkName(d, last, Stand(a, s)) = Stop(a, s, "EACCES")
BY DEF WalkName, Stop, Stand, Fails, Starts

LEMMA StepSkips ==
  ASSUME NEW d, NEW last, NEW a, NEW s, NEW n, NEW l, Starts(s, n, l),
         Kind(d, a) = "dir", "x" \in d[a].mode, Skips(n)
  PROVE  WalkName(d, last, Stand(a, s)) = Stand(a, l)
<1>1. n = Head(s) /\ l = Tail(s) /\ s # << >>
  BY DEF Starts
<1>2. WalkName(d, last, Stand(a, s)) = Stand(a, Tail(s))
  BY <1>1 DEF WalkName, Stop, Stand, Skips, Fails
<1>3. QED
  BY <1>1, <1>2

LEMMA StepClimbs ==
  ASSUME NEW d, NEW last, NEW a, NEW s, NEW n, NEW l, Starts(s, n, l),
         Kind(d, a) = "dir", "x" \in d[a].mode, Climbs(n)
  PROVE  WalkName(d, last, Stand(a, s)) = Stand(IF a = Root THEN Root ELSE Front(a), l)
<1>1. n = Head(s) /\ l = Tail(s) /\ s # << >>
  BY DEF Starts
<1>2. WalkName(d, last, Stand(a, s)) = Stand(IF a = Root THEN Root ELSE Front(a), Tail(s))
  BY <1>1 DEF WalkName, Stop, Stand, Climbs, Fails
<1>3. QED
  BY <1>1, <1>2

LEMMA StepMissing ==
  ASSUME NEW d, NEW last, NEW a, NEW s, NEW n, NEW l, Starts(s, n, l),
         Kind(d, a) = "dir", "x" \in d[a].mode, n \in Names,
         Kind(d, Into(a, n)) = "none", l # << >>
  PROVE  WalkName(d, last, Stand(a, s)) = Stop(a, s, "ENOENT")
BY DEF WalkName, Stop, Stand, Names, Fails, Into, Then, Starts

LEMMA StepLink ==
  ASSUME NEW d, NEW last, NEW a, NEW s, NEW n, NEW l, Starts(s, n, l),
         Kind(d, a) = "dir", "x" \in d[a].mode, n \in Names,
         Kind(d, Into(a, n)) = "symlink", l # << >> \/ last = Follow
  PROVE  LET link == d[Into(a, n)].link IN
         WalkName(d, last, Stand(a, s)) = Stand(IF IsAbs(link) THEN Root ELSE a, Then(link, l))
<1> DEFINE link == d[Into(a, Head(s))].link
<1>1. n = Head(s) /\ l = Tail(s) /\ s # << >>
  BY DEF Starts
<1>2. WalkName(d, last, Stand(a, s)) = Stand(IF IsAbs(link) THEN Root ELSE a, Then(link, Tail(s)))
  BY <1>1 DEF WalkName, Stop, Stand, Names, Fails, Into, Then
<1>3. QED
  BY <1>1, <1>2

LEMMA StepEnters ==
  ASSUME NEW d, NEW last, NEW a, NEW s, NEW n, NEW l, Starts(s, n, l),
         Kind(d, a) = "dir", "x" \in d[a].mode, n \in Names,
         Kind(d, Into(a, n)) # "none" \/ l = << >>,
         Kind(d, Into(a, n)) # "symlink" \/ (l = << >> /\ last # Follow)
  PROVE  WalkName(d, last, Stand(a, s)) = Stand(Into(a, n), l)
<1>1. n = Head(s) /\ l = Tail(s) /\ s # << >>
  BY DEF Starts
<1>2. WalkName(d, last, Stand(a, s)) = Stand(Into(a, Head(s)), Tail(s))
  BY <1>1 DEF WalkName, Stop, Stand, Names, Fails, Into, Then
<1>3. QED
  BY <1>1, <1>2
-----------------------------------------------------------------------------
(***************************************************************************)
(* What holds of every walk on a disk.                                     *)
(***************************************************************************)

\* Induction over the naturals up to a bound.
LEMMA BoundedInduction ==
  ASSUME NEW n \in Nat, NEW T, 0 \in T, \A k \in 0..(n - 1) : k \in T => k + 1 \in T
  PROVE  \A k \in 0..n : k \in T
<1> DEFINE U == {k \in Nat : k <= n => k \in T}
<1>1. 0 \in U
  OBVIOUS
<1>2. ASSUME NEW k \in Nat, k \in U PROVE k + 1 \in U
  <2>1. CASE k + 1 <= n
    <3>1. k \in 0..(n - 1) /\ k \in T
      BY <1>2, <2>1
    <3>2. QED
      BY <3>1
  <2>2. CASE ~(k + 1 <= n)
    BY <2>2
  <2>3. QED
    BY <2>1, <2>2
<1>3. \A k \in Nat : k \in U
  <2> HIDE DEF U
  <2>1. QED
    BY <1>1, <1>2, NatSetInduction
<1>4. QED
  BY <1>3

\* The three kinds of node, and what each looks like.
LEMMA NodeKinds ==
  ASSUME NEW n, IsNode(n)
  PROVE  /\ n.kind \in {"dir", "file", "symlink"}
         /\ n.kind = "dir" => n = Directory(n.mode)
         /\ n.kind = "file" => n = File(n.mode, n.content)
         /\ n.kind = "symlink" => n = Symlink(n.link) /\ n.link \in Seq(Word)
<1>1. /\ \A m : Directory(m).kind = "dir"
      /\ \A m, c : File(m, c).kind = "file"
      /\ \A l : Symlink(l).kind = "symlink"
  BY DEF Directory, File, Symlink, Node
<1>2. CASE n = Directory(n.mode)
  BY <1>1, <1>2
<1>3. CASE n = File(n.mode, n.content)
  BY <1>1, <1>3
<1>4. CASE n = Symlink(n.link) /\ n.link \in Seq(Word)
  BY <1>1, <1>4
<1>5. QED
  BY <1>2, <1>3, <1>4 DEF IsNode

LEMMA KindOf ==
  ASSUME NEW d, IsDisk(d), NEW q
  PROVE  /\ q \in DOMAIN d <=> Kind(d, q) # "none"
         /\ Kind(d, q) \in {"none", "dir", "file", "symlink"}
         /\ q \in DOMAIN d => /\ q \in Seq(Names) /\ IsNode(d[q]) /\ d[q].kind = Kind(d, q)
                              /\ q # Root => Kind(d, Front(q)) = "dir"
<1>1. ASSUME q \in DOMAIN d
      PROVE  /\ q \in Seq(Names) /\ IsNode(d[q])
             /\ q # Root => Kind(d, Front(q)) = "dir"
  BY <1>1 DEF IsDisk
<1>2. q \in DOMAIN d => d[q].kind \in {"dir", "file", "symlink"}
  BY <1>1, NodeKinds
<1>3. QED
  BY <1>1, <1>2 DEF Kind

\* The root exists, and is a clean path.
LEMMA RootOfDisk ==
  ASSUME NEW d, IsDisk(d)
  PROVE  Root \in DOMAIN d /\ d[Root].kind = "dir" /\ Kind(d, Root) = "dir" /\ Root \in Seq(Names)
BY KindOf DEF IsDisk, Kind, Root

\* A walk without an error stands on what exists, or on a last name that is
\* missing from a directory.
Sound(d, last, w) ==
  /\ w \in Walker
  /\ ~Fails(w) =>
       \/ Kind(d, w.at) # "none" /\ (last # Follow \/ Kind(d, w.at) # "symlink")
       \/ /\ Kind(d, w.at) = "none" /\ w.rest = << >>
          /\ w.at # Root /\ Kind(d, Front(w.at)) = "dir"

LEMMA StandSound ==
  ASSUME NEW d, NEW last, NEW a \in Seq(Names), NEW s \in Seq(Word), Kind(d, a) = "dir"
  PROVE  Sound(d, last, Stand(a, s))
BY DEF Sound, Stop, Stand, Walker

\* A path of names has a last name, and the path before it.
LEMMA FrontIsPath ==
  ASSUME NEW S, NEW a \in Seq(S), a # << >>
  PROVE  /\ Front(a) \in Seq(S) /\ a = Append(Front(a), a[Len(a)]) /\ a[Len(a)] \in S
         /\ Len(Front(a)) = Len(a) - 1
<1>1. Len(a) \in Nat /\ Len(a) # 0 /\ a[Len(a)] \in S
  OBVIOUS
<1>2. /\ Front(a) \in Seq(S) /\ Len(Front(a)) = Len(a) - 1
      /\ \A i \in 1..(Len(a) - 1) : Front(a)[i] = a[i]
  <2> DEFINE n == Len(a) - 1
  <2>1. n \in Int /\ n <= Len(a) /\ \A i \in 1..n : a[i] \in S /\ 1 + i - 1 = i
    <3>1. \A i \in 1..Len(a) : a[i] \in S
      OBVIOUS
    <3>2. QED
      BY <1>1, <3>1
  <2>2. n \in Nat
    BY <1>1
  <2> HIDE DEF n
  <2>3. /\ SubSeq(a, 1, n) \in Seq(S)
        /\ Len(SubSeq(a, 1, n)) = IF 1 <= n THEN n - 1 + 1 ELSE 0
        /\ \A i \in 1..(n - 1 + 1) : SubSeq(a, 1, n)[i] = a[1 + i - 1]
    BY <2>1, SubSeqProperties
  <2>4. Front(a) = SubSeq(a, 1, n)
    BY DEF Front, n
  <2>5. /\ Front(a) \in Seq(S) /\ Len(Front(a)) = n
        /\ \A i \in 1..n : Front(a)[i] = a[i]
    <3>1. n - 1 + 1 = n /\ (1 <= n \/ n = 0)
      BY <2>2
    <3>2. QED
      BY <2>1, <2>2, <2>3, <2>4, <3>1
  <2>6. QED
    BY <2>5 DEF n
<1>3. /\ Append(Front(a), a[Len(a)]) \in Seq(S) /\ Len(Append(Front(a), a[Len(a)])) = Len(a)
      /\ \A i \in 1..Len(a) : Append(Front(a), a[Len(a)])[i] = a[i]
  BY <1>1, <1>2
<1>4. QED
  BY <1>1, <1>2, <1>3, SeqEqual

LEMMA StopSound ==
  ASSUME NEW d, NEW last, NEW a \in Seq(Names), NEW s \in Seq(Word),
         NEW e \in {"ENOTDIR", "EACCES", "ENOENT", "ELOOP"}
  PROVE  Sound(d, last, Stop(a, s, e))
<1>1. Stop(a, s, e) \in Walker
  BY DEF Walker, Stop
<1>2. QED
  BY <1>1, StopFails DEF Sound

LEMMA StepSound ==
  ASSUME NEW d, IsDisk(d), NEW last, NEW w, Sound(d, last, w)
  PROVE  Sound(d, last, WalkName(d, last, w))
<1> DEFINE v == WalkName(d, last, w)
<1>1. CASE Over(w)
  BY <1>1, StepStays
<1>2. CASE ~Over(w)
  <2>1. PICK a \in Seq(Names), s \in Seq(Word) : w = Stand(a, s)
    <3>1. w \in Walker
      BY DEF Sound
    <3>2. w.at \in Seq(Names) /\ w.rest \in Seq(Word) /\ w = Stand(w.at, w.rest)
      BY <1>2, <3>1 DEF Walker, Stop, Stand, Over, Fails
    <3>3. QED
      BY <3>2
  <2>2. s # << >> /\ Head(s) \in Word /\ Tail(s) \in Seq(Word)
    <3>1. w.rest = s /\ w.rest # << >>
      BY <1>2, <2>1 DEF Stop, Stand, Over
    <3>2. QED
      BY <3>1
  <2>2a. PICK n \in Word, l \in Seq(Word) : Starts(s, n, l)
    BY <2>2 DEF Starts
  <2> DEFINE to == Into(a, n)
  <2>3. CASE Kind(d, a) # "dir"
    <3>1. v = Stop(a, s, "ENOTDIR")
      BY <2>1, <2>2a, <2>3, StepNoDirectory
    <3>2. QED
      BY <3>1, StopSound
  <2>4. CASE Kind(d, a) = "dir" /\ "x" \notin d[a].mode
    <3>1. v = Stop(a, s, "EACCES")
      BY <2>1, <2>2a, <2>4, StepDenied
    <3>2. QED
      BY <3>1, StopSound
  <2>5. CASE Kind(d, a) = "dir" /\ "x" \in d[a].mode /\ Skips(n)
    <3>1. v = Stand(a, l)
      BY <2>1, <2>2a, <2>5, StepSkips
    <3>2. QED
      BY <2>2a, <2>5, <3>1, StandSound
  <2>6. CASE Kind(d, a) = "dir" /\ "x" \in d[a].mode /\ Climbs(n)
    <3> DEFINE up == IF a = Root THEN Root ELSE Front(a)
    <3>1. v = Stand(up, l)
      BY <2>1, <2>2a, <2>6, StepClimbs
    <3>2. Kind(d, up) = "dir" /\ up \in Seq(Names)
      BY <2>6, KindOf, RootOfDisk, FrontIsPath DEF Root
    <3> HIDE DEF up
    <3>3. QED
      BY <2>2a, <3>1, <3>2, StandSound
  <2>7. CASE Kind(d, a) = "dir" /\ "x" \in d[a].mode /\ n \in Names
    <3>1. to \in Seq(Names) /\ to # Root /\ Front(to) = a
      BY <2>7, IntoPath
    <3>2. CASE Kind(d, to) = "none" /\ l # << >>
      <4>1. v = Stop(a, s, "ENOENT")
        BY <2>1, <2>2a, <2>7, <3>2, StepMissing
      <4>2. QED
        BY <4>1, StopSound
    <3>3. CASE Kind(d, to) = "symlink" /\ (l # << >> \/ last = Follow)
      <4> DEFINE link == d[to].link
                 from == IF IsAbs(link) THEN Root ELSE a
      <4>1. v = Stand(from, Then(link, l))
        BY <2>1, <2>2a, <2>7, <3>3, StepLink
      <4>2. link \in Seq(Word)
        BY <3>3, KindOf, NodeKinds
      <4>3. Kind(d, from) = "dir" /\ from \in Seq(Names) /\ Then(link, l) \in Seq(Word)
        BY <2>2a, <2>7, <4>2, RootOfDisk, ThenNames
      <4> HIDE DEF link, from
      <4>4. QED
        BY <4>1, <4>3, StandSound
    <3>4. CASE /\ Kind(d, to) # "none" \/ l = << >>
               /\ Kind(d, to) # "symlink" \/ (l = << >> /\ last # Follow)
      <4>1. v = Stand(to, l)
        BY <2>1, <2>2a, <2>7, <3>4, StepEnters
      <4>2. Stand(to, l) \in Walker
        BY <2>2a, <3>1 DEF Stop, Stand, Walker
      <4>3. Stand(to, l).at = to /\ Stand(to, l).rest = l
        BY DEF Stop, Stand
      <4>4. QED
        BY <2>7, <3>1, <3>4, <4>1, <4>2, <4>3 DEF Sound
    <3>5. QED
      BY <3>2, <3>3, <3>4
  <2>8. QED
    BY <2>2a, <2>3, <2>4, <2>5, <2>6, <2>7, WordCases
<1>3. QED
  BY <1>1, <1>2

\* Every state of a trail is sound.
LEMMA TrailSound ==
  ASSUME NEW d, IsDisk(d), NEW p \in Seq(Word), NEW last
  PROVE  \A k \in 0..Fuel : Sound(d, last, Trail(d, p, last)[k])
<1> DEFINE trail == Trail(d, p, last)
           T == {k \in 0..Fuel : Sound(d, last, trail[k])}
<1>1. 0 \in T
  BY TrailGoesOn, RootOfDisk, StandSound, FuelAssumption
<1>2. ASSUME NEW k \in 0..(Fuel - 1), k \in T PROVE k + 1 \in T
  BY <1>2, TrailGoesOn, StepSound, FuelAssumption
<1>3. QED
  <2> HIDE DEF T
  <2>1. \A k \in 0..Fuel : k \in T
    BY <1>1, <1>2, BoundedInduction, FuelAssumption
  <2>2. QED
    BY <2>1 DEF T

\* What is over, or has failed, stays so.
LEMMA TrailStays ==
  ASSUME NEW d, NEW p, NEW last, NEW j \in 0..Fuel, Over(Trail(d, p, last)[j])
  PROVE  \A k \in j..Fuel : Trail(d, p, last)[k] = Trail(d, p, last)[j]
<1> DEFINE trail == Trail(d, p, last)
           T == {k \in 0..Fuel : j <= k => trail[k] = trail[j]}
<1>1. 0 \in T
  BY FuelAssumption
<1>2. ASSUME NEW k \in 0..(Fuel - 1), k \in T PROVE k + 1 \in T
  <2>1. CASE j <= k
    <3>1. trail[k + 1] = WalkName(d, last, trail[k])
      BY TrailGoesOn
    <3>2. QED
      BY <1>2, <2>1, <3>1, StepStays, FuelAssumption
  <2>2. CASE ~(j <= k)
    <3>1. j <= k + 1 => k + 1 = j
      BY <2>2
    <3>2. QED
      BY <3>1, FuelAssumption
  <2>3. QED
    BY <2>1, <2>2
<1>3. QED
  <2> HIDE DEF T
  <2>1. \A k \in 0..Fuel : k \in T
    BY <1>1, <1>2, BoundedInduction, FuelAssumption
  <2>2. QED
    BY <2>1, FuelAssumption DEF T

\* How a walk ends, and that one without an error had none on its trail.
LEMMA WalkEnds ==
  ASSUME NEW d, IsDisk(d), NEW p \in Seq(Word), NEW last
  PROVE  LET w == Walk(d, p, last)
             trail == Trail(d, p, last)
         IN  /\ Sound(d, last, w) /\ w.at = trail[Fuel].at /\ w.rest = trail[Fuel].rest
             /\ ~Fails(w) => /\ w = trail[Fuel] /\ w.rest = << >>
                                /\ \A k \in 0..Fuel : ~Fails(trail[k])
             /\ Fails(w) => w.error = trail[Fuel].error \/ w.error = "ELOOP"
<1> DEFINE trail == Trail(d, p, last)
           w == Walk(d, p, last)
           v == trail[Fuel]
<1>1. Sound(d, last, v)
  BY TrailSound, FuelAssumption
<1>2. w = IF v.rest # << >> /\ ~Fails(v) THEN [v EXCEPT !.error = "ELOOP"] ELSE v
  BY DEF Walk, Ended
<1>3. ASSUME ~Fails(w) PROVE w = v /\ w.rest = << >>
  <2> HIDE DEF v, w
  <2>1. Fails([v EXCEPT !.error = "ELOOP"])
    BY <1>1, StopFails DEF Sound, Walker, Fails
  <2>2. v.rest = << >> \/ Fails(v)
    BY <1>2, <1>3, <2>1
  <2>3. w = v
    BY <1>2, <2>2
  <2>4. QED
    BY <1>3, <2>2, <2>3
<1>4. ASSUME ~Fails(w), NEW k \in 0..Fuel, Fails(trail[k]) PROVE FALSE
  <2>1. v = trail[k]
    <3>1. Over(trail[k])
      BY <1>4 DEF Over
    <3>2. Fuel \in k..Fuel
      BY FuelAssumption
    <3>3. QED
      BY <3>1, <3>2, TrailStays
  <2>2. QED
    BY <1>3, <1>4, <2>1
<1>5. Sound(d, last, w) /\ w.at = v.at /\ w.rest = v.rest
  <2> HIDE DEF v, w
  <2>1. QED
    BY <1>1, <1>2 DEF Sound, Walker
<1>6. Fails(w) => w.error = v.error \/ w.error = "ELOOP"
  <2> HIDE DEF v, w
  <2>1. QED
    BY <1>1, <1>2 DEF Sound, Walker
<1>7. QED
  BY <1>3, <1>4, <1>5, <1>6

\* A step without an error found a directory that can be searched and, unless
\* it was after the last name, something there.
LEMMA StepGoes ==
  ASSUME NEW d, NEW last, NEW a, NEW s, NEW l, NEW n \in Word, Starts(s, n, l),
         ~Fails(WalkName(d, last, Stand(a, s)))
  PROVE  /\ Kind(d, a) = "dir" /\ "x" \in d[a].mode
         /\ \/ Skips(n)
            \/ Climbs(n)
            \/ n \in Names /\ (Kind(d, Into(a, n)) # "none" \/ l = << >>)
<1>1. \A e \in {"ENOTDIR", "EACCES", "ENOENT", "ELOOP"} : Fails(Stop(a, s, e))
  BY StopFails
<1>2. Kind(d, a) = "dir"
  BY <1>1, StepNoDirectory
<1>3. "x" \in d[a].mode
  BY <1>1, <1>2, StepDenied
<1>4. ASSUME n \in Names PROVE Kind(d, Into(a, n)) # "none" \/ l = << >>
  BY <1>1, <1>2, <1>3, <1>4, StepMissing
<1>5. QED
  BY <1>2, <1>3, <1>4, WordCases

\* A disk that has what another has, the content of files aside.
Carries(d, y) ==
  \A q : Kind(d, q) # "none" =>
    Kind(y, q) = Kind(d, q) /\ (Kind(d, q) # "file" => y[q] = d[q])

\* What is new at the end of a walk, but for a symlink, does not change it.
LEMMA StepKept ==
  ASSUME NEW d, NEW y, NEW last, NEW a, NEW s, NEW n, NEW l,
         Carries(d, y), \A q : Kind(d, q) = "none" => Kind(y, q) # "symlink",
         n \in Word, Starts(s, n, l), ~Fails(WalkName(d, last, Stand(a, s)))
  PROVE  WalkName(y, last, Stand(a, s)) = WalkName(d, last, Stand(a, s))
<1> DEFINE to == Into(a, n)
<1>1. /\ Kind(d, a) = "dir" /\ "x" \in d[a].mode
      /\ \/ Skips(n)
         \/ Climbs(n)
         \/ n \in Names /\ (Kind(d, to) # "none" \/ l = << >>)
  BY StepGoes
<1>2. Kind(y, a) = "dir" /\ "x" \in y[a].mode
  BY <1>1 DEF Carries
<1>3. CASE Skips(n)
  BY <1>1, <1>2, <1>3, StepSkips
<1>4. CASE Climbs(n)
  BY <1>1, <1>2, <1>4, StepClimbs
<1>5. CASE n \in Names /\ (Kind(d, to) # "none" \/ l = << >>)
  <2>1. CASE Kind(d, to) = "symlink" /\ (l # << >> \/ last = Follow)
    <3>1. Kind(y, to) = "symlink" /\ y[to] = d[to]
      BY <2>1 DEF Carries
    <3>2. QED
      BY <1>1, <1>2, <1>5, <2>1, <3>1, StepLink
  <2>2. CASE /\ Kind(d, to) # "none"
             /\ Kind(d, to) # "symlink" \/ (l = << >> /\ last # Follow)
    <3>1. Kind(y, to) = Kind(d, to)
      BY <2>2 DEF Carries
    <3>2. QED
      BY <1>1, <1>2, <1>5, <2>2, <3>1, StepEnters
  <2>3. CASE Kind(d, to) = "none"
    <3>1. Kind(y, to) # "symlink"
      BY <2>3
    <3>2. QED
      BY <1>1, <1>2, <1>5, <2>3, <3>1, StepEnters
  <2>4. QED
    BY <2>1, <2>2, <2>3
<1>6. QED
  BY <1>1, <1>3, <1>4, <1>5

\* A state of a trail without an error is where a walk stands.
LEMMA StandsThere ==
  ASSUME NEW d, IsDisk(d), NEW p \in Seq(Word), NEW last, NEW k \in 0..Fuel,
         ~Fails(Trail(d, p, last)[k])
  PROVE  LET w == Trail(d, p, last)[k] IN
         w.at \in Seq(Names) /\ w.rest \in Seq(Word) /\ w = Stand(w.at, w.rest)
<1> DEFINE w == Trail(d, p, last)[k]
<1>1. w \in Walker
  BY TrailSound DEF Sound
<1> HIDE DEF w
<1>2. ~Fails(w)
  BY DEF w
<1>3. w.at \in Seq(Names) /\ w.rest \in Seq(Word) /\ w = Stand(w.at, w.rest)
  BY <1>1, <1>2 DEF Walker, Stop, Stand, Fails
<1>4. QED
  BY <1>3 DEF w

\* An error never goes away.
LEMMA ErrorStays ==
  ASSUME NEW d, NEW p, NEW last, NEW k \in 0..(Fuel - 1),
         ~Fails(Trail(d, p, last)[k + 1])
  PROVE  ~Fails(Trail(d, p, last)[k])
<1> DEFINE w == Trail(d, p, last)[k]
<1>1. ASSUME Over(w) PROVE Trail(d, p, last)[k + 1] = w
  BY <1>1, TrailGoesOn, StepStays
<1> HIDE DEF w
<1>2. Fails(w) => Over(w)
  BY DEF Over
<1>3. QED
  BY <1>1, <1>2 DEF w

LEMMA TrailKept ==
  ASSUME NEW d, IsDisk(d), NEW y, Carries(d, y),
         \A q : Kind(d, q) = "none" => Kind(y, q) # "symlink",
         NEW p \in Seq(Word), NEW last
  PROVE  \A k \in 0..Fuel : ~Fails(Trail(d, p, last)[k]) =>
           Trail(y, p, last)[k] = Trail(d, p, last)[k]
<1> DEFINE w == Trail(d, p, last)
           v == Trail(y, p, last)
           T == {k \in 0..Fuel : ~Fails(w[k]) => v[k] = w[k]}
<1>1. 0 \in T
  <2>1. w[0] = Stand(Root, p) /\ v[0] = Stand(Root, p)
    BY TrailGoesOn
  <2>2. QED
    BY <2>1, FuelAssumption
<1>2. ASSUME NEW k \in 0..(Fuel - 1), k \in T PROVE k + 1 \in T
  <2>1. k \in 0..Fuel /\ k + 1 \in 0..Fuel
    BY FuelAssumption
  <2>2. v[k + 1] = WalkName(y, last, v[k]) /\ w[k + 1] = WalkName(d, last, w[k])
    BY TrailGoesOn
  <2>3. ASSUME ~Fails(w[k + 1]) PROVE v[k + 1] = w[k + 1]
    <3>1. ~Fails(w[k])
      BY <2>3, ErrorStays
    <3>2. v[k] = w[k]
      BY <1>2, <3>1
    <3>3. PICK a \in Seq(Names), s \in Seq(Word) : w[k] = Stand(a, s)
      BY <2>1, <3>1, StandsThere
    <3>4. CASE s = << >>
      <4>1. Over(Stand(a, s))
        BY <3>4 DEF Over, Stop, Stand
      <4>2. WalkName(y, last, Stand(a, s)) = Stand(a, s)
             /\ WalkName(d, last, Stand(a, s)) = Stand(a, s)
        BY <4>1, StepStays
      <4>3. QED
        BY <2>2, <3>2, <3>3, <4>2
    <3>5. CASE s # << >>
      <4>1. ~Fails(WalkName(d, last, Stand(a, s)))
        BY <2>2, <2>3, <3>3
      <4>2. WalkName(y, last, Stand(a, s)) = WalkName(d, last, Stand(a, s))
        <5>1. PICK n \in Word, l \in Seq(Word) : Starts(s, n, l)
          <6>1. Head(s) \in Word /\ Tail(s) \in Seq(Word)
            BY <3>5
          <6>2. QED
            BY <3>5, <6>1 DEF Starts
        <5>2. QED
          BY <4>1, <5>1, StepKept
      <4>3. QED
        BY <2>2, <3>2, <3>3, <4>2
    <3>6. QED
      BY <3>4, <3>5
  <2>4. QED
    BY <2>1, <2>3
<1>3. QED
  <2> HIDE DEF T
  <2>1. \A k \in 0..Fuel : k \in T
    BY <1>1, <1>2, BoundedInduction, FuelAssumption
  <2>2. QED
    BY <2>1 DEF T

\* What exists is below directories only.
LEMMA Ancestors ==
  ASSUME NEW d, IsDisk(d), NEW a \in Seq(Names)
  PROVE  \A c \in Seq(Names) : Kind(d, Then(a, c)) # "none" =>
           Kind(d, a) # "none" /\ (c # << >> => Kind(d, a) = "dir")
<1> DEFINE T == {c \in Seq(Names) : Kind(d, Then(a, c)) # "none" =>
                   Kind(d, a) # "none" /\ (c # << >> => Kind(d, a) = "dir")}
<1>1. << >> \in T
  <2>1. << >> \in Seq(Names)
    OBVIOUS
  <2>2. Then(a, << >>) = a
    BY <2>1, ThenNames
  <2>3. QED
    BY <2>1, <2>2
<1>2. ASSUME NEW c \in Seq(Names), NEW n \in Names, c \in T PROVE Append(c, n) \in T
  <2> DEFINE ac == Then(a, c)
             to == Into(ac, n)
  <2>1. Append(c, n) \in Seq(Names) /\ Then(a, Append(c, n)) = to /\ ac \in Seq(Names)
    <3>1. Append(c, n) \in Seq(Names) /\ a \o c \in Seq(Names)
      OBVIOUS
    <3>2. a \o Append(c, n) = Append(a \o c, n)
      BY AppendOfConcat
    <3>3. QED
      BY <3>1, <3>2 DEF Then, Into
  <2>2. ASSUME Kind(d, to) # "none" PROVE Kind(d, ac) = "dir"
    <3> HIDE DEF ac
    <3>1. to \in DOMAIN d /\ to # Root /\ Front(to) = ac
      BY <2>1, <2>2, KindOf, IntoPath
    <3>2. QED
      BY <3>1, KindOf
  <2> HIDE DEF to
  <2>3. ASSUME Kind(d, to) # "none" PROVE Kind(d, a) = "dir"
    <3>1. CASE c = << >>
      <4>1. ac = a
        BY <3>1, ThenNames
      <4>2. QED
        BY <2>2, <2>3, <4>1
    <3>2. CASE c # << >>
      BY <1>2, <2>2, <2>3, <3>2
    <3>3. QED
      BY <3>1, <3>2
  <2>4. QED
    BY <2>1, <2>3
<1>3. QED
  <2> HIDE DEF T
  <2>1. \A c \in Seq(Names) : \A n \in Names : c \in T => Append(c, n) \in T
    BY <1>2
  <2>2. \A c \in Seq(Names) : c \in T
    BY <1>1, <2>1, SeqSetInduction
  <2>3. QED
    BY <2>2 DEF T
-----------------------------------------------------------------------------
(***************************************************************************)
(* The way to the target, on the disk e that MakeTarget leaves, and what   *)
(* walks do on a disk d that a later call has made of it.  p is the        *)
(* target, r where it really is.                                           *)
(***************************************************************************)

\* The way leads to a directory, without an error, through directories.
Leads(e, p, r) ==
  /\ IsDisk(e)
  /\ Trail(e, p, Follow)[Fuel] = Stand(r, << >>)
  /\ \A k \in 0..Fuel : /\ ~Fails(Trail(e, p, Follow)[k])
                        /\ Kind(e, Trail(e, p, Follow)[k].at) = "dir"

\* Its symlinks are still there.
LinksKept(e, d) == \A q \in DOMAIN e : e[q].kind = "symlink" => q \in DOMAIN d /\ d[q] = e[q]

\* Nothing on it has become a symlink; everything on it is a directory.
Open(e, p, d)   == \A k \in 0..Fuel : Kind(d, Trail(e, p, Follow)[k].at) # "symlink"
Passes(e, p, d) == \A k \in 0..Fuel : Kind(d, Trail(e, p, Follow)[k].at) = "dir"

\* A step on the way, from the names s at a to the names u at b.
Steps(e, a, s, b, u) == WalkName(e, Follow, Stand(a, s)) = Stand(b, u)

\* It goes to the same place on d, with more names to follow.
LEMMA StepOnWay ==
  ASSUME NEW e, NEW d, NEW a, NEW b, NEW last, NEW s, NEW t, NEW u,
         IsDisk(e), LinksKept(e, d), Steps(e, a, s, b, u), Kind(d, b) # "symlink",
         s \in Seq(Word), s # << >>, t \in Seq(Word), u \in Seq(Word),
         t # << >> \/ last = Follow
  PROVE  LET v == WalkName(d, last, Stand(a, Then(s, t))) IN
         /\ Fails(v) \/ v = Stand(b, Then(u, t))
         /\ Kind(d, a) = "dir" /\ Kind(d, b) = "dir" /\ Fails(v) =>
              v.error = "EACCES" /\ "x" \notin d[a].mode
<1> PICK n \in Word, l \in Seq(Word) : Starts(s, n, l)
  BY StartsSome
<1> DEFINE q  == Then(s, t)
           m  == Then(l, t)
           to == Into(a, n)
           v  == WalkName(d, last, Stand(a, q))
           w  == WalkName(e, Follow, Stand(a, s))
<1>1. Starts(q, n, m) /\ (m = << >> => l = << >>)
  BY ThenStarts, ThenNames
<1>2. w = Stand(b, u) /\ w.at = b /\ w.rest = u /\ ~Fails(w)
  BY StandFields, StopFails DEF Steps
<1>3. m # << >> \/ last = Follow
  BY ThenNames
<1>4. Kind(e, a) = "dir" /\ "x" \in e[a].mode
  BY <1>2, StepGoes
<1> SUFFICES /\ Fails(v) \/ v = Stand(b, Then(u, t))
             /\ Kind(d, a) = "dir" /\ Kind(d, b) = "dir" /\ Fails(v) =>
                  v.error = "EACCES" /\ "x" \notin d[a].mode
  OBVIOUS
<1> HIDE DEF q, m, to, v, w
<1>5. CASE Kind(d, a) # "dir"
  <2>1. v = Stop(a, q, "ENOTDIR")
    BY <1>1, <1>5, StepNoDirectory DEF v
  <2>2. QED
    BY <1>5, <2>1, StopFails
<1>6. CASE Kind(d, a) = "dir" /\ "x" \notin d[a].mode
  <2>1. v = Stop(a, q, "EACCES")
    BY <1>1, <1>6, StepDenied DEF v
  <2>2. QED
    BY <1>6, <2>1, StopFails, StopFields
<1>7. CASE Kind(d, a) = "dir" /\ "x" \in d[a].mode /\ Skips(n)
  <2>1. v = Stand(a, m)
    BY <1>1, <1>7, StepSkips DEF v
  <2>2. w = Stand(a, l)
    BY <1>4, <1>7, StepSkips DEF w
  <2>3. b = a /\ u = l
    BY <1>2, <2>2, StandFields
  <2>4. QED
    BY <2>1, <2>3, StopFails DEF m
<1>8. CASE Kind(d, a) = "dir" /\ "x" \in d[a].mode /\ Climbs(n)
  <2> DEFINE up == IF a = Root THEN Root ELSE Front(a)
  <2>1. v = Stand(up, m)
    BY <1>1, <1>8, StepClimbs DEF v
  <2>2. w = Stand(up, l)
    BY <1>4, <1>8, StepClimbs DEF w
  <2> HIDE DEF up
  <2>3. b = up /\ u = l
    BY <1>2, <2>2, StandFields
  <2>4. QED
    BY <2>1, <2>3, StopFails DEF m
<1>9. CASE Kind(d, a) = "dir" /\ "x" \in d[a].mode /\ n \in Names
  <2>1. Kind(e, to) # "none" \/ l = << >>
    <3>1. ASSUME Kind(e, to) = "none", l # << >> PROVE w = Stop(a, s, "ENOENT")
      BY <1>4, <1>9, <3>1, StepMissing DEF w, to
    <3>2. QED
      BY <1>2, <3>1, StopFails
  <2>2. CASE Kind(e, to) = "symlink"
    <3> DEFINE link == e[to].link
               from == IF IsAbs(link) THEN Root ELSE a
    <3>1. Kind(d, to) = "symlink" /\ d[to].link = link
      <4>1. to \in DOMAIN e /\ e[to].kind = "symlink"
        BY <2>2, KindOf
      <4>2. to \in DOMAIN d /\ d[to] = e[to]
        BY <4>1 DEF LinksKept
      <4>3. QED
        BY <4>1, <4>2 DEF Kind
    <3>2. w = Stand(from, Then(link, l))
      BY <1>4, <1>9, <2>2, StepLink DEF w, to
    <3>3. v = Stand(from, Then(link, m))
      <4>1. v = Stand(IF IsAbs(d[to].link) THEN Root ELSE a, Then(d[to].link, m))
        BY <1>1, <1>3, <1>9, <3>1, StepLink DEF v, to
      <4> HIDE DEF link
      <4>2. QED
        BY <3>1, <4>1
    <3>4. link \in Seq(Word)
      <4>1. IsNode(e[to]) /\ e[to].kind = "symlink"
        BY <2>2, KindOf
      <4>2. QED
        BY <4>1, NodeKinds
    <3> HIDE DEF link, from
    <3>5. Then(link, m) = Then(Then(link, l), t)
      BY <3>4, ThenThen DEF m
    <3>6. b = from /\ u = Then(link, l)
      BY <1>2, <3>2, StandFields
    <3>7. QED
      BY <3>3, <3>5, <3>6, StopFails
  <2>3. CASE Kind(e, to) # "symlink"
    <3>1. w = Stand(to, l)
      BY <1>4, <1>9, <2>1, <2>3, StepEnters DEF w, to
    <3>2. b = to /\ u = l
      BY <1>2, <3>1, StandFields
    <3>3. CASE Kind(d, to) = "none" /\ m # << >>
      <4>1. v = Stop(a, q, "ENOENT")
        BY <1>1, <1>9, <3>3, StepMissing DEF v, to
      <4>2. QED
        BY <3>2, <3>3, <4>1, StopFails
    <3>4. CASE Kind(d, to) # "none" \/ m = << >>
      <4>1. v = Stand(to, m)
        BY <1>1, <1>9, <3>2, <3>4, StepEnters DEF v, to
      <4>2. QED
        BY <3>2, <4>1, StopFails DEF m
    <3>5. QED
      BY <3>3, <3>4
  <2>4. QED
    BY <2>2, <2>3
<1>10. QED
  BY <1>5, <1>6, <1>7, <1>8, <1>9, WordCases

\* A step on the way ends the same on d when the names end there, but that a
\* symlink is not followed then.
LEMMA StepBeforeWay ==
  ASSUME NEW e, NEW d, NEW a, NEW b, NEW s, NEW t, NEW u,
         IsDisk(e), LinksKept(e, d), Steps(e, a, Then(s, t), b, u),
         s \in Seq(Word), s # << >>, t \in Seq(Word), u \in Seq(Word),
         Kind(d, a) = "dir", Kind(d, b) = "dir"
  PROVE  LET v == WalkName(d, Keep, Stand(a, s)) IN
         \/ Fails(v)
         \/ v.at = b /\ u = Then(v.rest, t)
         \/ v.rest = << >> /\ Kind(d, v.at) # "none"
<1> PICK n \in Word, l \in Seq(Word) : Starts(s, n, l)
  BY StartsSome
<1> DEFINE q  == Then(s, t)
           m  == Then(l, t)
           to == Into(a, n)
           v  == WalkName(d, Keep, Stand(a, s))
           w  == WalkName(e, Follow, Stand(a, q))
<1>1. Starts(q, n, m) /\ m \in Seq(Word)
  BY ThenStarts, ThenNames
<1>2. w = Stand(b, u) /\ w.at = b /\ w.rest = u /\ ~Fails(w)
  BY StandFields, StopFails DEF Steps
<1> SUFFICES \/ Fails(v)
             \/ v.at = b /\ u = Then(v.rest, t)
             \/ v.rest = << >> /\ Kind(d, v.at) # "none"
  OBVIOUS
<1>3. Keep # Follow
  BY DEF Keep, Follow
<1>4. Kind(e, a) = "dir" /\ "x" \in e[a].mode
  <2> HIDE DEF q, m
  <2>1. QED
    BY <1>1, <1>2, StepGoes
<1> HIDE DEF q, m, to, v, w
<1>5. CASE "x" \notin d[a].mode
  <2>1. v = Stop(a, s, "EACCES")
    BY <1>5, StepDenied DEF v
  <2>2. QED
    BY <2>1, StopFails
<1>6. CASE "x" \in d[a].mode /\ Skips(n)
  <2>1. v = Stand(a, l)
    BY <1>6, StepSkips DEF v
  <2>2. w = Stand(a, m)
    BY <1>1, <1>4, <1>6, StepSkips DEF w
  <2>3. b = a /\ u = m
    BY <1>2, <2>2, StandFields
  <2>4. v.at = a /\ v.rest = l
    BY <2>1, StandFields
  <2>5. QED
    BY <2>3, <2>4 DEF m
<1>7. CASE "x" \in d[a].mode /\ Climbs(n)
  <2> DEFINE up == IF a = Root THEN Root ELSE Front(a)
  <2>1. v = Stand(up, l)
    BY <1>7, StepClimbs DEF v
  <2>2. w = Stand(up, m)
    BY <1>1, <1>4, <1>7, StepClimbs DEF w
  <2> HIDE DEF up
  <2>3. b = up /\ u = m
    BY <1>2, <2>2, StandFields
  <2>4. v.at = up /\ v.rest = l
    BY <2>1, StandFields
  <2>5. QED
    BY <2>3, <2>4 DEF m
<1>8. CASE "x" \in d[a].mode /\ n \in Names
  <2>1. Kind(e, to) # "none" \/ m = << >>
    <3>1. ASSUME Kind(e, to) = "none", m # << >> PROVE w = Stop(a, q, "ENOENT")
      BY <1>1, <1>4, <1>8, <3>1, StepMissing DEF w, to
    <3>2. QED
      BY <1>2, <3>1, StopFails
  <2>2. CASE Kind(e, to) = "symlink"
    <3> DEFINE link == e[to].link
               from == IF IsAbs(link) THEN Root ELSE a
    <3>1. Kind(d, to) = "symlink" /\ d[to].link = link
      <4>1. to \in DOMAIN e /\ e[to].kind = "symlink"
        BY <2>2, KindOf
      <4>2. to \in DOMAIN d /\ d[to] = e[to]
        BY <4>1 DEF LinksKept
      <4>3. QED
        BY <4>1, <4>2 DEF Kind
    <3>2. w = Stand(from, Then(link, m))
      BY <1>1, <1>4, <1>8, <2>2, StepLink DEF w, to
    <3>3. link \in Seq(Word)
      <4>1. IsNode(e[to]) /\ e[to].kind = "symlink"
        BY <2>2, KindOf
      <4>2. QED
        BY <4>1, NodeKinds
    <3>4. CASE l # << >>
      <4>1. v = Stand(from, Then(link, l))
        BY <1>8, <3>1, <3>4, StepLink DEF v, to
      <4> HIDE DEF link, from
      <4>2. Then(link, m) = Then(Then(link, l), t)
        BY <3>3, ThenThen DEF m
      <4>3. b = from /\ u = Then(link, m)
        BY <1>2, <3>2, StandFields
      <4>4. v.at = from /\ v.rest = Then(link, l)
        BY <4>1, StandFields
      <4>5. QED
        BY <4>2, <4>3, <4>4
    <3>5. CASE l = << >>
      <4>1. v = Stand(to, l)
        BY <1>3, <1>8, <3>1, <3>5, StepEnters DEF v, to
      <4>2. v.at = to /\ v.rest = l
        BY <4>1, StandFields
      <4>3. QED
        BY <3>1, <3>5, <4>2
    <3>6. QED
      BY <3>4, <3>5
  <2>3. CASE Kind(e, to) # "symlink"
    <3>1. w = Stand(to, m)
      BY <1>1, <1>4, <1>8, <2>1, <2>3, StepEnters DEF w, to
    <3>2. b = to /\ u = m
      BY <1>2, <3>1, StandFields
    <3>3. v = Stand(to, l)
      BY <1>8, <3>2, StepEnters DEF v, to
    <3>4. v.at = to /\ v.rest = l
      BY <3>3, StandFields
    <3>5. QED
      BY <3>2, <3>4 DEF m
  <2>4. QED
    BY <2>2, <2>3
<1>9. QED
  BY <1>5, <1>6, <1>7, <1>8, WordCases

\* Where the way is after k names: on a clean path, at the target once no names
\* are left.
LEMMA WayStates ==
  ASSUME NEW e, NEW p, NEW r, NEW k, p \in Seq(Names), Leads(e, p, r), k \in 0..Fuel
  PROVE  LET w == Trail(e, p, Follow)[k] IN
         /\ w.at \in Seq(Names) /\ w.rest \in Seq(Word) /\ w = Stand(w.at, w.rest)
         /\ Kind(e, w.at) = "dir" /\ (w.rest = << >> => w.at = r)
<1> DEFINE T == Trail(e, p, Follow)
           w == T[k]
<1>1. p \in Seq(Word) /\ IsDisk(e)
  BY NamesAreWords DEF Leads
<1>2. ~Fails(w) /\ Kind(e, w.at) = "dir" /\ T[Fuel] = Stand(r, << >>)
  BY DEF Leads
<1>3. w.at \in Seq(Names) /\ w.rest \in Seq(Word) /\ w = Stand(w.at, w.rest)
  BY <1>1, <1>2, StandsThere
<1>4. ASSUME w.rest = << >> PROVE w.at = r
  <2>1. Over(w)
    BY <1>4 DEF Over
  <2>2. \A j \in k..Fuel : T[j] = T[k]
    BY <2>1, TrailStays
  <2>3. T[Fuel] = w
    BY <2>2, FuelAssumption
  <2> HIDE DEF T, w
  <2>4. QED
    BY <1>2, <2>3, StandFields
<1>5. QED
  BY <1>2, <1>3, <1>4

\* Both ends of a step on the way.
LEMMA WayGoesOn ==
  ASSUME NEW e, NEW p, NEW r, NEW k, p \in Seq(Names), Leads(e, p, r), k \in 0..(Fuel - 1),
         Trail(e, p, Follow)[k].rest # << >>
  PROVE  LET w == Trail(e, p, Follow)[k]
             v == Trail(e, p, Follow)[k + 1]
         IN  Steps(e, w.at, w.rest, v.at, v.rest)
<1> DEFINE w == Trail(e, p, Follow)[k]
           v == Trail(e, p, Follow)[k + 1]
<1>1. k \in 0..Fuel /\ k + 1 \in 0..Fuel
  BY FuelAssumption
<1>2. w = Stand(w.at, w.rest) /\ w.rest \in Seq(Word) /\ v = Stand(v.at, v.rest)
  BY <1>1, WayStates
<1>3. v = WalkName(e, Follow, w)
  BY TrailGoesOn
<1> HIDE DEF w, v
<1>4. QED
  BY <1>2, <1>3 DEF w, v, Steps

\* None but the last of the names below r is a symlink, and that is not followed.
Clear(d, r, t, last) ==
  \A i \in 1..Len(t) : Kind(d, Down(r, t, i)) = "symlink" => i = Len(t) /\ last # Follow

\* Where a walk leads whose names go on from the target's: below the target, as
\* long as nothing on the way is a symlink that was not, and none below is followed.
LEMMA WalkBelow ==
  ASSUME NEW e, NEW p \in Seq(Names), NEW r \in Seq(Names), Leads(e, p, r),
         NEW d, IsDisk(d), LinksKept(e, d), Open(e, p, d),
         NEW t \in Seq(Names), NEW last, t # << >> \/ last = Follow,
         Clear(d, r, t, last)
  PROVE  LET w == Walk(d, Then(p, t), last) IN
         /\ ~Fails(w) => w.at = Then(r, t) /\ (t # << >> => Passes(e, p, d))
         /\ Passes(e, p, d) /\ w.error = "ENOENT" => Kind(d, Then(r, t)) = "none"
<1> DEFINE T == Trail(e, p, Follow)
           S == Trail(d, Then(p, t), last)
           lost(w)   == Fails(w) /\ (Passes(e, p, d) /\ w.error = "ENOENT" => Kind(d, Then(r, t)) = "none")
           onWay(k)  == T[k].rest # << >> /\ S[k] = Stand(T[k].at, Then(T[k].rest, t))
           below(k)  == /\ T[k].rest = << >>
                        /\ \E i \in 0..Len(t) : /\ S[k] = Stand(Down(r, t, i), After(t, i))
                                                /\ i # 0 => Kind(d, r) = "dir"
           J == {k \in 0..Fuel : lost(S[k]) \/ onWay(k) \/ below(k)}
<1>1. p \in Seq(Word) /\ t \in Seq(Word) /\ Then(p, t) \in Seq(Word) /\ IsDisk(e)
  BY NamesAreWords, ThenNames DEF Leads
<1>2. Down(r, t, 0) = r /\ Down(r, t, Len(t)) = Then(r, t) /\ After(t, 0) = t /\ 0 \in 0..Len(t)
  BY DownEnds
<1>3. 0 \in 0..Fuel /\ Fuel \in 0..Fuel
  BY FuelAssumption
<1>4. 0 \in J
  <2>1. T[0] = Stand(Root, p) /\ S[0] = Stand(Root, Then(p, t))
    BY TrailGoesOn
  <2>2. T[0].at = Root /\ T[0].rest = p
    BY <2>1, StandFields
  <2>3. CASE p # << >>
    BY <1>3, <2>1, <2>2, <2>3
  <2>4. CASE p = << >>
    <3>1. r = Root
      <4> HIDE DEF T
      <4>1. T[0].rest = << >> => T[0].at = r
        BY <1>3, WayStates DEF T
      <4>2. QED
        BY <2>2, <2>4, <4>1
    <3>1a. Then(p, t) = t
      BY <1>1, <2>4, ThenNames
    <3>2. S[0] = Stand(Down(r, t, 0), After(t, 0))
      BY <1>2, <2>1, <3>1, <3>1a
    <3>3. QED
      BY <1>2, <1>3, <2>2, <2>4, <3>2
  <2>5. QED
    BY <2>3, <2>4
<1>5. ASSUME NEW k \in 0..(Fuel - 1), k \in J PROVE k + 1 \in J
  <2>1. k \in 0..Fuel /\ k + 1 \in 0..Fuel /\ S[k + 1] = WalkName(d, last, S[k])
    BY TrailGoesOn, FuelAssumption
  <2>2. CASE lost(S[k])
    <3>1. S[k + 1] = S[k]
      BY <2>1, <2>2, StepStays DEF Over
    <3>2. QED
      BY <2>1, <2>2, <3>1
  <2>3. CASE onWay(k)
    <3> DEFINE a == T[k].at
               s == T[k].rest
               b == T[k + 1].at
               u == T[k + 1].rest
               v == WalkName(d, last, Stand(a, Then(s, t)))
    <3>1. Steps(e, a, s, b, u) /\ s # << >>
      BY <2>3, WayGoesOn
    <3>2. s \in Seq(Word) /\ u \in Seq(Word) /\ (u = << >> => b = r)
      BY <2>1, WayStates
    <3>3. Kind(d, b) # "symlink"
      BY <2>1 DEF Open
    <3>4. Passes(e, p, d) => Kind(d, a) = "dir" /\ Kind(d, b) = "dir"
      BY <2>1 DEF Passes
    <3>5. S[k + 1] = v
      BY <2>1, <2>3
    <3>6. k + 1 \in J <=> lost(v) \/ (u # << >> /\ v = Stand(b, Then(u, t))) \/ below(k + 1)
      BY <2>1, <3>5
    <3>7. ASSUME u = << >>, v = Stand(b, Then(u, t)) PROVE below(k + 1)
      <4>1. Then(u, t) = t /\ b = r
        <5> HIDE DEF u, b
        <5>1. QED
          BY <1>1, <3>2, <3>7, ThenNames
      <4>2. S[k + 1] = Stand(Down(r, t, 0), After(t, 0))
        BY <1>2, <3>5, <3>7, <4>1
      <4>3. QED
        BY <1>2, <3>7, <4>2
    <3> HIDE DEF a, s, b, u, v, T, S, J, below
    <3>10. /\ Fails(v) \/ v = Stand(b, Then(u, t))
           /\ Kind(d, a) = "dir" /\ Kind(d, b) = "dir" /\ Fails(v) => v.error = "EACCES"
      BY <1>1, <3>1, <3>2, <3>3, StepOnWay DEF v
    <3>11. CASE Fails(v)
      <4>1. lost(v)
        BY <3>4, <3>10, <3>11
      <4>2. QED
        BY <3>6, <4>1
    <3>12. CASE v = Stand(b, Then(u, t))
      BY <3>6, <3>7, <3>12
    <3>13. QED
      BY <3>10, <3>11, <3>12
  <2>4. CASE below(k)
    <3>1. PICK i \in 0..Len(t) : S[k] = Stand(Down(r, t, i), After(t, i)) /\ (i # 0 => Kind(d, r) = "dir")
      BY <2>4
    <3>2. T[k + 1].rest = << >>
      <4>1. T[k + 1] = WalkName(e, Follow, T[k])
        BY TrailGoesOn
      <4>2. T[k + 1] = T[k]
        BY <2>4, <4>1, StepStays DEF Over
      <4>3. QED
        BY <2>4, <4>2
    <3>3. CASE i = Len(t)
      <4>1. Over(S[k])
        <5>1. S[k].rest = After(t, i)
          BY <3>1, StandFields
        <5>2. QED
          BY <3>3, <5>1, AfterNames DEF Over
      <4>2. S[k + 1] = S[k]
        BY <2>1, <4>1, StepStays
      <4>3. QED
        BY <2>1, <3>1, <3>2, <4>2
    <3>4. CASE i # Len(t)
      <4> DEFINE a  == Down(r, t, i)
                 s  == After(t, i)
                 n  == t[i + 1]
                 l  == After(t, i + 1)
                 to == Into(a, n)
                 v  == WalkName(d, last, Stand(a, s))
      <4>1. i \in 0..(Len(t) - 1)
        BY <1>2, <3>4
      <4>2. n \in Names /\ Starts(s, n, l) /\ to = Down(r, t, i + 1) /\ i + 1 \in 0..Len(t) /\ i + 1 # 0
        BY <4>1, OneNameMore
      <4>3. l = << >> <=> i + 1 = Len(t)
        BY <4>2, AfterNames
      <4>4. Then(to, l) = Then(r, t) /\ to \in Seq(Names) /\ l \in Seq(Names)
        BY <4>2, DownPath, AfterNames
      <4>5. Kind(d, to) = "symlink" => l = << >> /\ last # Follow
        BY <4>1, <4>2, <4>3 DEF Clear
      <4>6. S[k + 1] = v
        BY <2>1, <3>1
      <4>7. i = 0 => a = r
        BY <1>2
      <4>8. v = Stand(to, l) /\ Kind(d, r) = "dir" => below(k + 1)
        BY <3>2, <4>2, <4>6
      <4>9. k + 1 \in J <=> lost(v) \/ onWay(k + 1) \/ below(k + 1)
        BY <2>1, <4>6
      <4> HIDE DEF a, s, n, l, to, v, T, S, J, below, onWay
      <4>10. CASE Kind(d, a) # "dir"
        <5>1. v = Stop(a, s, "ENOTDIR")
          BY <4>2, <4>10, StepNoDirectory DEF v
        <5>2. v.error = "ENOTDIR" /\ Fails(v)
          BY <5>1, StopFails, StopFields
        <5>3. QED
          BY <4>9, <5>2
      <4>11. CASE Kind(d, a) = "dir" /\ "x" \notin d[a].mode
        <5>1. v = Stop(a, s, "EACCES")
          BY <4>2, <4>11, StepDenied DEF v
        <5>2. v.error = "EACCES" /\ Fails(v)
          BY <5>1, StopFails, StopFields
        <5>3. QED
          BY <4>9, <5>2
      <4>12. CASE Kind(d, a) = "dir" /\ "x" \in d[a].mode /\ Kind(d, to) = "none" /\ l # << >>
        <5>1. v = Stop(a, s, "ENOENT")
          BY <4>2, <4>12, StepMissing DEF v, to
        <5>2. Kind(d, Then(r, t)) = "none"
          BY <4>4, <4>12, Ancestors
        <5>3. Fails(v)
          BY <5>1, StopFails
        <5>4. QED
          BY <4>9, <5>2, <5>3
      <4>13. CASE /\ Kind(d, a) = "dir" /\ "x" \in d[a].mode
                  /\ Kind(d, to) # "none" \/ l = << >>
        <5>1. v = Stand(to, l)
          BY <4>2, <4>5, <4>13, StepEnters DEF v, to
        <5>2. Kind(d, r) = "dir"
          BY <3>1, <4>7, <4>13
        <5>3. QED
          BY <4>8, <4>9, <5>1, <5>2
      <4>14. QED
        BY <4>10, <4>11, <4>12, <4>13
    <3>5. QED
      BY <3>3, <3>4
  <2> HIDE DEF J, lost, onWay, below
  <2>5. QED
    BY <1>5, <2>2, <2>3, <2>4 DEF J
<1>6. \A k \in 0..Fuel : k \in J
  <2> HIDE DEF J
  <2>1. QED
    BY <1>4, <1>5, BoundedInduction, FuelAssumption
<1> DEFINE w == Walk(d, Then(p, t), last)
<1>7. /\ Sound(d, last, w)
      /\ ~Fails(w) => w = S[Fuel] /\ w.rest = << >> /\ \A k \in 0..Fuel : ~Fails(S[k])
      /\ Fails(w) => w.error = S[Fuel].error \/ w.error = "ELOOP"
  BY <1>1, WalkEnds
<1>8. T[Fuel] = Stand(r, << >>) /\ T[Fuel].rest = << >>
  BY StandFields DEF Leads
<1>9. lost(S[Fuel]) \/ below(Fuel)
  BY <1>3, <1>6, <1>8
<1> SUFFICES /\ ~Fails(w) => w.at = Then(r, t)
             /\ ~Fails(w) /\ t # << >> => Passes(e, p, d)
             /\ Passes(e, p, d) /\ w.error = "ENOENT" => Kind(d, Then(r, t)) = "none"
  OBVIOUS
<1>10. ASSUME ~Fails(w)
       PROVE  w.at = Then(r, t) /\ (t # << >> => Kind(d, r) = "dir")
  <2>1. PICK i \in 0..Len(t) : S[Fuel] = Stand(Down(r, t, i), After(t, i)) /\ (i # 0 => Kind(d, r) = "dir")
    BY <1>3, <1>7, <1>9, <1>10
  <2>2. w.at = Down(r, t, i) /\ w.rest = After(t, i) /\ w.rest = << >>
    BY <1>7, <1>10, <2>1, StandFields
  <2>3. i = Len(t)
    BY <2>2, AfterNames
  <2>4. t # << >> => i # 0
    BY <2>3
  <2>5. QED
    BY <1>2, <2>1, <2>2, <2>3, <2>4
<1>11. ASSUME ~Fails(w), t # << >>, NEW k \in 0..Fuel PROVE Kind(d, T[k].at) = "dir"
  <2>1. CASE T[k].rest = << >>
    <3>1. T[k].at = r
      BY <2>1, WayStates
    <3>2. QED
      BY <1>10, <1>11, <3>1
  <2>2. CASE T[k].rest # << >>
    <3>1. k # Fuel
      BY <1>8, <2>2
    <3>2. k \in 0..(Fuel - 1) /\ k + 1 \in 0..Fuel
      BY <3>1, FuelAssumption
    <3>3. S[k] = Stand(T[k].at, Then(T[k].rest, t))
      BY <1>6, <1>7, <1>11, <2>2
    <3>4. ~Fails(WalkName(d, last, Stand(T[k].at, Then(T[k].rest, t))))
      <4>1. S[k + 1] = WalkName(d, last, S[k])
        BY <3>2, TrailGoesOn
      <4>2. QED
        BY <1>7, <1>11, <3>2, <3>3, <4>1
    <3>5. T[k].rest \in Seq(Word)
      BY WayStates
    <3>6. PICK n \in Word, l \in Seq(Word) : Starts(T[k].rest, n, l)
      BY <2>2, <3>5, StartsSome
    <3> HIDE DEF T
    <3>7. Starts(Then(T[k].rest, t), n, Then(l, t))
      BY <1>1, <3>5, <3>6, ThenStarts
    <3>8. QED
      BY <3>4, <3>7, StepGoes
  <2>3. QED
    BY <2>1, <2>2
<1>12. ASSUME Passes(e, p, d), w.error = "ENOENT" PROVE Kind(d, Then(r, t)) = "none"
  <2>1. Fails(w)
    BY <1>12, StopFails DEF Fails
  <2>2. S[Fuel].error = "ENOENT"
    BY <1>7, <1>12, <2>1
  <2>3. Fails(S[Fuel])
    BY <2>2, StopFails DEF Fails
  <2>4. ~below(Fuel)
    BY <2>3, StopFails
  <2>5. QED
    BY <1>9, <1>12, <2>2, <2>4
<1>13. QED
  BY <1>10, <1>11, <1>12 DEF Passes

\* A walk to a directory on the way by name finds something there.
LEMMA WalkBefore ==
  ASSUME NEW e, NEW p \in Seq(Names), NEW r, Leads(e, p, r),
         NEW d, IsDisk(d), LinksKept(e, d), Passes(e, p, d),
         NEW q \in Seq(Names), NEW t \in Seq(Names), p = Then(q, t)
  PROVE  LET w == Walk(d, q, Keep) IN Fails(w) \/ Kind(d, w.at) # "none"
<1> DEFINE T == Trail(e, p, Follow)
           S == Trail(d, q, Keep)
           ends(w)   == w.rest = << >> /\ Kind(d, w.at) # "none"
           goes(w, k) == T[k] = Stand(w.at, Then(w.rest, t))
           J == {k \in 0..Fuel : Fails(S[k]) \/ goes(S[k], k) \/ ends(S[k])}
<1>1. q \in Seq(Word) /\ t \in Seq(Word) /\ p \in Seq(Word) /\ IsDisk(e)
  BY NamesAreWords DEF Leads
<1>2. 0 \in 0..Fuel /\ Fuel \in 0..Fuel
  BY FuelAssumption
<1>3. 0 \in J
  <2>1. T[0] = Stand(Root, Then(q, t)) /\ S[0] = Stand(Root, q)
    BY TrailGoesOn
  <2>2. S[0].at = Root /\ S[0].rest = q
    BY <2>1, StandFields
  <2>3. QED
    BY <1>2, <2>1, <2>2
<1>4. ASSUME NEW k \in 0..(Fuel - 1), k \in J PROVE k + 1 \in J
  <2>1. k \in 0..Fuel /\ k + 1 \in 0..Fuel /\ S[k + 1] = WalkName(d, Keep, S[k])
    BY TrailGoesOn, FuelAssumption
  <2> DEFINE a == S[k].at
             s == S[k].rest
             b == T[k + 1].at
             u == T[k + 1].rest
  <2>2. CASE Over(S[k])
    <3>1. S[k + 1] = S[k]
      BY <2>1, <2>2, StepStays
    <3>2. Fails(S[k]) \/ ends(S[k]) => k + 1 \in J
      BY <2>1, <3>1
    <3>3. ASSUME goes(S[k], k) PROVE Kind(d, a) = "dir"
      <4>1. T[k].at = a
        BY <3>3, StandFields
      <4>2. QED
        BY <2>1, <4>1 DEF Passes
    <3>4. QED
      BY <1>4, <2>2, <3>2, <3>3 DEF Over
  <2>3. CASE ~Over(S[k])
    <3>1. s # << >> /\ ~Fails(S[k])
      BY <2>3 DEF Over
    <3>2. goes(S[k], k)
      BY <1>4, <3>1
    <3>3. a \in Seq(Names) /\ s \in Seq(Word) /\ S[k] = Stand(a, s)
      BY <1>1, <2>1, <3>1, StandsThere
    <3>4. T[k].at = a /\ T[k].rest = Then(s, t)
      BY <3>2, StandFields
    <3>5. u \in Seq(Word) /\ T[k + 1] = Stand(b, u)
      BY <2>1, WayStates
    <3>6. Kind(d, T[k].at) = "dir" /\ Kind(d, b) = "dir"
      BY <2>1 DEF Passes
    <3>7. T[k].rest # << >> => Steps(e, T[k].at, T[k].rest, b, u)
      BY WayGoesOn
    <3>8. k + 1 \in J <=> Fails(S[k + 1]) \/ goes(S[k + 1], k + 1) \/ ends(S[k + 1])
      BY <2>1
    <3> DEFINE v == WalkName(d, Keep, Stand(a, s))
    <3>9. S[k + 1] = v
      BY <2>1, <3>3
    <3> HIDE DEF a, s, b, u, T, S, J
    <3>10. Steps(e, a, Then(s, t), b, u)
      BY <1>1, <3>1, <3>3, <3>4, <3>7, ThenNames
    <3>11. Fails(v) \/ (v.at = b /\ u = Then(v.rest, t)) \/ ends(v)
      BY <1>1, <3>1, <3>3, <3>4, <3>5, <3>6, <3>10, StepBeforeWay
    <3>12. QED
      BY <3>5, <3>8, <3>9, <3>11
  <2>4. QED
    BY <2>2, <2>3
<1>5. \A k \in 0..Fuel : k \in J
  <2> HIDE DEF J
  <2>1. QED
    BY <1>3, <1>4, BoundedInduction, FuelAssumption
<1> DEFINE w == Walk(d, q, Keep)
<1>6. ASSUME ~Fails(w) PROVE Kind(d, w.at) # "none"
  <2>1. w = S[Fuel] /\ ~Fails(S[Fuel])
    BY <1>1, <1>2, <1>6, WalkEnds
  <2>2. goes(S[Fuel], Fuel) \/ ends(S[Fuel])
    BY <1>2, <1>5, <2>1
  <2>3. ASSUME goes(S[Fuel], Fuel) PROVE Kind(d, S[Fuel].at) = "dir"
    <3>1. T[Fuel].at = S[Fuel].at
      BY <2>3, StandFields
    <3>2. QED
      BY <1>2, <3>1 DEF Passes
  <2>4. QED
    BY <2>1, <2>2, <2>3
<1>7. QED
  BY <1>6
-----------------------------------------------------------------------------
(***************************************************************************)
(* What the calls do to a disk.                                            *)
(***************************************************************************)

LEMMA RestrictFields ==
  ASSUME NEW d, NEW q
  PROVE  LET y == Restrict(d, DOMAIN d \ {q}) IN
         /\ DOMAIN y = DOMAIN d \ {q}
         /\ \A a \in DOMAIN d : a # q => y[a] = d[a]
BY DEF Restrict

\* The node at a path is as it was; the node at q alone is n now.
Same(d, y, a)     == Kind(y, a) = Kind(d, a) /\ (Kind(d, a) # "none" => y[a] = d[a])
SetAt(d, y, q, n) == /\ DOMAIN y = DOMAIN d \cup {q} /\ y[q] = n
                     /\ \A a \in DOMAIN d : a # q => y[a] = d[a]

LEMMA SetAtKinds ==
  ASSUME NEW d, NEW y, NEW q, NEW n, SetAt(d, y, q, n)
  PROVE  /\ Kind(y, q) = n.kind /\ y[q] = n
         /\ \A a : a # q => Same(d, y, a)
<1>1. Kind(y, q) = n.kind /\ y[q] = n
  BY DEF SetAt, Kind
<1>2. ASSUME NEW a, a # q PROVE Same(d, y, a)
  <2>1. a \in DOMAIN y <=> a \in DOMAIN d
    BY <1>2 DEF SetAt
  <2>2. a \in DOMAIN d => y[a] = d[a]
    BY <1>2 DEF SetAt
  <2>3. QED
    BY <2>1, <2>2 DEF Same, Kind
<1>3. QED
  BY <1>1, <1>2

\* A node may be added below a directory, and changed to one of its kind.
LEMMA SetAtDisk ==
  ASSUME NEW d, NEW y, NEW q, NEW n, IsDisk(d), SetAt(d, y, q, n), q \in Seq(Names), IsNode(n),
         \/ q # Root /\ Kind(d, q) = "none" /\ Kind(d, Front(q)) = "dir"
         \/ Kind(d, q) = n.kind
  PROVE  IsDisk(y)
<1>1. Kind(y, q) = n.kind /\ y[q] = n /\ \A a : a # q => Same(d, y, a)
  BY SetAtKinds
<1>2. \A a : Kind(d, a) = "dir" => Kind(y, a) = "dir"
  BY <1>1 DEF Same
<1>3. Kind(y, Root) = "dir"
  BY <1>2, RootOfDisk
<1>4. ASSUME NEW a \in DOMAIN y
      PROVE  a \in Seq(Names) /\ IsNode(y[a]) /\ (a # Root => Kind(y, Front(a)) = "dir")
  <2>1. CASE a \in DOMAIN d
    <3>1. a \in Seq(Names) /\ IsNode(d[a]) /\ (a # Root => Kind(d, Front(a)) = "dir")
      BY <2>1, KindOf
    <3>2. a # q => y[a] = d[a]
      BY <2>1 DEF SetAt
    <3>3. QED
      BY <1>1, <1>2, <3>1, <3>2
  <2>2. CASE a \notin DOMAIN d
    <3>1. a = q
      BY <2>2 DEF SetAt
    <3>2. Kind(d, q) = "none"
      BY <2>2, <3>1 DEF Kind
    <3>3. n.kind # "none"
      BY NodeKinds
    <3>4. QED
      BY <1>1, <1>2, <3>1, <3>2, <3>3
  <2>3. QED
    BY <2>1, <2>2
<1>5. QED
  BY <1>3, <1>4 DEF IsDisk

\* What a removal leaves.
RemovedAt(d, y, q) == DOMAIN y = DOMAIN d \ {q} /\ \A a \in DOMAIN d : a # q => y[a] = d[a]

LEMMA RemovedKinds ==
  ASSUME NEW d, NEW y, NEW q, RemovedAt(d, y, q)
  PROVE  Kind(y, q) = "none" /\ \A a : a # q => Same(d, y, a)
<1>1. Kind(y, q) = "none"
  BY DEF RemovedAt, Kind
<1>2. ASSUME NEW a, a # q PROVE Same(d, y, a)
  <2>1. a \in DOMAIN y <=> a \in DOMAIN d
    BY <1>2 DEF RemovedAt
  <2>2. a \in DOMAIN d => y[a] = d[a]
    BY <1>2 DEF RemovedAt
  <2>3. QED
    BY <2>1, <2>2 DEF Same, Kind
<1>3. QED
  BY <1>1, <1>2

LEMMA FrontAbove ==
  ASSUME NEW a \in Seq(Names), a # Root
  PROVE  IsStrictPrefix(Front(a), a)
<1>1. Front(a) \in Seq(Names) /\ a = Append(Front(a), a[Len(a)]) /\ a[Len(a)] \in Names
  BY FrontIsPath DEF Root
<1> DEFINE f == Front(a)
           c == <<a[Len(a)]>>
<1>2. c \in Seq(Names) /\ c # << >>
  BY <1>1
<1>3. \A n : Append(f, n) = f \o <<n>>
  <2> HIDE DEF f
  <2>1. f \in Seq(Names)
    BY <1>1 DEF f
  <2>2. QED
    BY <2>1
<1>4. a = Then(f, c)
  BY <1>1, <1>3 DEF Then
<1> HIDE DEF f, c
<1>5. f \in Seq(Names)
  BY <1>1 DEF f
<1>6. IsStrictPrefix(f, a)
  BY <1>2, <1>4, <1>5, PrefixGoesOn
<1>7. QED
  BY <1>6 DEF f

LEMMA RemovedDisk ==
  ASSUME NEW d, NEW y, NEW q, IsDisk(d), RemovedAt(d, y, q), q # Root,
         \A a \in DOMAIN d : ~IsStrictPrefix(q, a)
  PROVE  IsDisk(y)
<1>1. Kind(y, q) = "none" /\ \A a : a # q => Same(d, y, a)
  BY RemovedKinds
<1>2. Kind(y, Root) = "dir"
  BY <1>1, RootOfDisk DEF Same
<1>3. ASSUME NEW a \in DOMAIN y
      PROVE  a \in Seq(Names) /\ IsNode(y[a]) /\ (a # Root => Kind(y, Front(a)) = "dir")
  <2>1. a \in DOMAIN d /\ y[a] = d[a]
    BY DEF RemovedAt
  <2>2. a \in Seq(Names) /\ IsNode(d[a]) /\ (a # Root => Kind(d, Front(a)) = "dir")
    BY <2>1, KindOf
  <2>3. a # Root => Front(a) # q
    BY <2>1, <2>2, FrontAbove
  <2>4. QED
    BY <1>1, <2>1, <2>2, <2>3 DEF Same
<1>4. QED
  BY <1>2, <1>3 DEF IsDisk

\* Nodes, with one of their fields changed.
LEMMA NodeMode ==
  ASSUME NEW n, IsNode(n), NEW m
  PROVE  /\ n.kind = "dir"  => [n EXCEPT !.mode = m] = Directory(m)
         /\ n.kind = "file" => [n EXCEPT !.mode = m] = File(m, n.content)
<1>1. \A k, b, l : [Node(k, n.mode, b, l) EXCEPT !.mode = m] = Node(k, m, b, l)
  BY DEF Node
<1>2. PICK b, l : \A a : Directory(a) = Node("dir", a, b, l)
  <2>1. \A a : Directory(a) = Node("dir", a, "", << >>)
    BY Zenon DEF Directory
  <2>2. QED
    BY <2>1, Zenon
<1>3. PICK l2 : \A a, b2 : File(a, b2) = Node("file", a, b2, l2)
  BY Zenon DEF File
<1>4. n.kind = "dir" => n = Node("dir", n.mode, b, l)
  BY <1>2, NodeKinds
<1>5. n.kind = "file" => n = Node("file", n.mode, n.content, l2)
  BY <1>3, NodeKinds
<1>6. n.kind = "dir"  => [n EXCEPT !.mode = m] = Directory(m)
  BY <1>1, <1>2, <1>4
<1>7. n.kind = "file" => [n EXCEPT !.mode = m] = File(m, n.content)
  BY <1>1, <1>3, <1>5
<1>8. QED
  BY <1>6, <1>7

LEMMA NodeContent ==
  ASSUME NEW n, IsNode(n), n.kind = "file", NEW c
  PROVE  [n EXCEPT !.content = c] = File(n.mode, c)
<1>1. \A k, a, b, l : [Node(k, a, b, l) EXCEPT !.content = c] = Node(k, a, c, l)
  BY DEF Node
<1>2. PICK l : \A a, b : File(a, b) = Node("file", a, b, l)
  BY Zenon DEF File
<1>3. n = Node("file", n.mode, n.content, l)
  BY <1>2, NodeKinds
<1>4. [n EXCEPT !.content = c] = Node("file", n.mode, c, l)
  BY <1>1, <1>3
<1>5. QED
  BY <1>2, <1>4

\* The disk in which MakeSymlink, WriteFile, Chmod and RemoveNode leave it.
LEMMA SetAtForms ==
  ASSUME NEW d, NEW q, NEW n, NEW m, NEW c
  PROVE  /\ SetAt(d, With(d, q, n), q, n)
         /\ q \in DOMAIN d => SetAt(d, [d EXCEPT ![q].content = c], q, [d[q] EXCEPT !.content = c])
         /\ q \in DOMAIN d => SetAt(d, [d EXCEPT ![q].mode = m], q, [d[q] EXCEPT !.mode = m])
         /\ RemovedAt(d, Restrict(d, DOMAIN d \ {q}), q)
<1>1. SetAt(d, With(d, q, n), q, n)
  <2> DEFINE y == With(d, q, n)
  <2>1. DOMAIN y = DOMAIN d \cup {q} /\ y[q] = n /\ \A a \in DOMAIN d : a # q => y[a] = d[a]
    BY DEF With
  <2> HIDE DEF y
  <2>2. SetAt(d, y, q, n)
    BY <2>1 DEF SetAt
  <2>3. QED
    BY <2>2 DEF y
<1>2. q \in DOMAIN d => SetAt(d, [d EXCEPT ![q].content = c], q, [d[q] EXCEPT !.content = c])
  BY DEF SetAt
<1>3. q \in DOMAIN d => SetAt(d, [d EXCEPT ![q].mode = m], q, [d[q] EXCEPT !.mode = m])
  BY DEF SetAt
<1>4. RemovedAt(d, Restrict(d, DOMAIN d \ {q}), q)
  BY RestrictFields DEF RemovedAt
<1>5. QED
  BY <1>1, <1>2, <1>3, <1>4

\* Every directory allows everything.
Permits(d) == \A q \in DOMAIN d : d[q].kind = "dir" => Full \subseteq d[q].mode

LEMMA PermitsAll ==
  ASSUME NEW d, Permits(d), NEW q, Kind(d, q) = "dir"
  PROVE  "x" \in d[q].mode /\ "w" \in d[q].mode
<1>1. q \in DOMAIN d /\ d[q].kind = "dir"
  BY DEF Kind
<1>2. Full \subseteq d[q].mode
  BY <1>1 DEF Permits
<1>3. QED
  BY <1>2 DEF Full

\* A step is denied where a directory cannot be searched.
LEMMA StepAllowed ==
  ASSUME NEW d, NEW last, NEW a, NEW s, NEW n, NEW l, n \in Word, Starts(s, n, l),
         Kind(d, a) = "dir" => "x" \in d[a].mode
  PROVE  WalkName(d, last, Stand(a, s)).error # "EACCES"
<1> DEFINE v == WalkName(d, last, Stand(a, s))
           to == Into(a, n)
<1>0. NoError # "EACCES"
  BY StopFails
<1>1. CASE Kind(d, a) # "dir"
  <2>1. v = Stop(a, s, "ENOTDIR")
    BY <1>1, StepNoDirectory
  <2>2. QED
    BY <2>1, StopFields
<1>2. CASE Kind(d, a) = "dir" /\ "x" \in d[a].mode /\ Skips(n)
  BY <1>0, <1>2, StepSkips, StandFields
<1>3. CASE Kind(d, a) = "dir" /\ "x" \in d[a].mode /\ Climbs(n)
  BY <1>0, <1>3, StepClimbs, StandFields
<1>4. CASE Kind(d, a) = "dir" /\ "x" \in d[a].mode /\ n \in Names
  <2>1. CASE Kind(d, to) = "none" /\ l # << >>
    <3>1. v = Stop(a, s, "ENOENT")
      BY <1>4, <2>1, StepMissing
    <3>2. QED
      BY <3>1, StopFields
  <2>2. CASE Kind(d, to) = "symlink" /\ (l # << >> \/ last = Follow)
    <3> DEFINE link == d[to].link
               from == IF IsAbs(link) THEN Root ELSE a
    <3>1. v = Stand(from, Then(link, l))
      BY <1>4, <2>2, StepLink
    <3> HIDE DEF link, from, v
    <3>2. QED
      BY <1>0, <3>1, StandFields DEF v
  <2>3. CASE /\ Kind(d, to) # "none" \/ l = << >>
             /\ Kind(d, to) # "symlink" \/ (l = << >> /\ last # Follow)
    <3>1. v = Stand(to, l)
      BY <1>4, <2>3, StepEnters
    <3>2. QED
      BY <1>0, <3>1, StandFields
  <2>4. QED
    BY <2>1, <2>2, <2>3
<1>5. QED
  BY <1>1, <1>2, <1>3, <1>4, WordCases

LEMMA WalkPermits ==
  ASSUME NEW d, IsDisk(d), Permits(d), NEW p \in Seq(Word), NEW last
  PROVE  Walk(d, p, last).error # "EACCES"
<1> DEFINE T == Trail(d, p, last)
           J == {k \in 0..Fuel : T[k].error # "EACCES"}
<1>0. NoError # "EACCES" /\ 0 \in 0..Fuel /\ Fuel \in 0..Fuel
  BY StopFails, FuelAssumption
<1>1. 0 \in J
  <2>1. T[0] = Stand(Root, p)
    BY TrailGoesOn
  <2>2. QED
    BY <1>0, <2>1, StandFields
<1>2. ASSUME NEW k \in 0..(Fuel - 1), k \in J PROVE k + 1 \in J
  <2>1. k \in 0..Fuel /\ k + 1 \in 0..Fuel /\ T[k + 1] = WalkName(d, last, T[k])
    BY TrailGoesOn, FuelAssumption
  <2>2. CASE Over(T[k])
    <3>1. T[k + 1] = T[k]
      BY <2>1, <2>2, StepStays
    <3>2. QED
      BY <1>2, <2>1, <3>1
  <2>3. CASE ~Over(T[k])
    <3>1. T[k].at \in Seq(Names) /\ T[k].rest \in Seq(Word) /\ T[k] = Stand(T[k].at, T[k].rest)
      BY <2>1, <2>3, StandsThere DEF Over
    <3>2. T[k].rest # << >>
      BY <2>3 DEF Over
    <3>3. PICK n \in Word, l \in Seq(Word) : Starts(T[k].rest, n, l)
      BY <3>1, <3>2, StartsSome
    <3>4. Kind(d, T[k].at) = "dir" => "x" \in d[T[k].at].mode
      BY PermitsAll
    <3>5. WalkName(d, last, Stand(T[k].at, T[k].rest)).error # "EACCES"
      BY <3>3, <3>4, StepAllowed
    <3>6. T[k + 1].error # "EACCES"
      BY <2>1, <3>1, <3>5
    <3>7. QED
      BY <2>1, <3>6
  <2>4. QED
    BY <2>2, <2>3
<1>3. \A k \in 0..Fuel : k \in J
  <2> HIDE DEF J
  <2>1. QED
    BY <1>1, <1>2, BoundedInduction, FuelAssumption
<1>4. T[Fuel].error # "EACCES"
  BY <1>0, <1>3
<1> DEFINE w == Walk(d, p, last)
<1>5. /\ ~Fails(w) => w = T[Fuel]
      /\ Fails(w) => w.error = T[Fuel].error \/ w.error = "ELOOP"
  BY WalkEnds
<1>6. QED
  BY <1>4, <1>5

\* A walk that succeeds goes the same way on a disk that has more.
LEMMA WalkKept ==
  ASSUME NEW d, IsDisk(d), NEW y, IsDisk(y), Carries(d, y),
         \A q : Kind(d, q) = "none" => Kind(y, q) # "symlink",
         NEW p \in Seq(Word), NEW last, ~Fails(Walk(d, p, last))
  PROVE  Walk(y, p, last) = Walk(d, p, last)
<1> DEFINE T == Trail(d, p, last)
           S == Trail(y, p, last)
           w == Walk(d, p, last)
<1>1. w = T[Fuel] /\ w.rest = << >> /\ ~Fails(T[Fuel])
  BY WalkEnds, FuelAssumption
<1>2. S[Fuel] = T[Fuel]
  BY <1>1, TrailKept, FuelAssumption
<1>3. S[Fuel] = w /\ Over(w)
  BY <1>1, <1>2 DEF Over
<1>4. Walk(y, p, last) = Ended(S[Fuel])
  BY DEF Walk
<1>5. Ended(w) = w
  <2> HIDE DEF w
  <2>1. QED
    BY <1>3 DEF Ended, Over
<1> HIDE DEF w, S, T
<1>6. Walk(y, p, last) = w
  BY <1>3, <1>4, <1>5
<1>7. QED
  BY <1>6 DEF w

\* What a walk that succeeds has found.
LEMMA WalkFound ==
  ASSUME NEW d, IsDisk(d), NEW p \in Seq(Word), NEW last, ~Fails(Walk(d, p, last))
  PROVE  LET w == Walk(d, p, last) IN
         /\ w.at \in Seq(Names)
         /\ Kind(d, w.at) = "none" => w.at # Root /\ Kind(d, Front(w.at)) = "dir"
         /\ last = Follow => Kind(d, w.at) # "symlink"
<1> DEFINE w == Walk(d, p, last)
<1>1. Sound(d, last, w) /\ ~Fails(w)
  BY WalkEnds
<1> HIDE DEF w
<1>2. w.at \in Seq(Names)
  BY <1>1 DEF Sound, Walker
<1>3. /\ Kind(d, w.at) = "none" => w.at # Root /\ Kind(d, Front(w.at)) = "dir"
      /\ last = Follow => Kind(d, w.at) # "symlink"
  BY <1>1 DEF Sound
<1>4. QED
  BY <1>2, <1>3 DEF w

LEMMA WalkFails ==
  ASSUME NEW d, IsDisk(d), NEW p \in Seq(Word), NEW last, Fails(Walk(d, p, last))
  PROVE  Walk(d, p, last).error \in {"ENOTDIR", "EACCES", "ENOENT", "ELOOP"}
<1> DEFINE w == Walk(d, p, last)
<1>1. Sound(d, last, w) /\ Fails(w)
  BY WalkEnds
<1> HIDE DEF w
<1>2. w.error \in {"ENOTDIR", "EACCES", "ENOENT", "ELOOP"}
  BY <1>1 DEF Sound, Walker, Fails
<1>3. QED
  BY <1>2 DEF w

\* What a call returns.
LEMMA Results ==
  ASSUME NEW d, NEW why
  PROVE  /\ Done(d).disk = d /\ Done(d).error = NoError /\ ~Fails(Done(d))
         /\ Failed(d, why).disk = d /\ Failed(d, why).error = why
         /\ why # NoError => Fails(Failed(d, why))
BY DEF Done, Failed, Fails

\* The errors that calls add to those of a walk are errors.
LEMMA CallErrors ==
  \A e \in {"EISDIR", "EEXIST", "ENOTEMPTY", "EIO", "symlink", "dir", "file", "none",
            "open", "copy", "extract", "not regular"} : e # NoError
BY DEF NoError

\* A new node is put where the walk ended, if that directory allows it.
LEMMA PutIs ==
  ASSUME NEW d, NEW w, NEW n
  PROVE  /\ "w" \in d[Front(w.at)].mode => Put(d, w, n) = Done(With(d, w.at, n))
         /\ "w" \notin d[Front(w.at)].mode => Put(d, w, n) = Failed(d, "EACCES")
BY DEF Put, Changed

\* One directory of MkdirAll: it is there, it cannot be made, or it is made.
LEMMA MkdirOneIs ==
  ASSUME NEW r, NEW q, IsDisk(r.disk), q \in Seq(Word)
  PROVE  LET v == MkdirOne(r, q)
             w == Walk(r.disk, q, Keep)
         IN  \/ (Fails(r) \/ Stat(r.disk, q) = "dir") /\ v = r
             \/ /\ ~Fails(r) /\ Fails(v) /\ v.disk = r.disk /\ Stat(r.disk, q) # "dir"
                /\ v.error = "EACCES" => ~Permits(r.disk)
             \/ /\ ~Fails(r) /\ ~Fails(w) /\ Kind(r.disk, w.at) = "none"
                /\ v = Done(With(r.disk, w.at, Directory(Full)))
<1> DEFINE v == MkdirOne(r, q)
           d == r.disk
           w == Walk(d, q, Keep)
<1>1. CASE Fails(r) \/ Stat(d, q) = "dir"
  BY <1>1 DEF MkdirOne
<1>2. CASE ~(Fails(r) \/ Stat(d, q) = "dir") /\ Fails(w)
  <2>1. v = Failed(d, w.error)
    BY <1>2 DEF MkdirOne
  <2>2. w.error # NoError
    BY <1>2 DEF Fails
  <2>3. Permits(d) => w.error # "EACCES"
    BY WalkPermits
  <2> HIDE DEF v, w, d
  <2>4. Fails(v) /\ v.disk = d /\ v.error = w.error
    BY <2>1, <2>2, Results
  <2>5. QED
    BY <1>2, <2>3, <2>4 DEF v, w, d
<1>3. CASE ~(Fails(r) \/ Stat(d, q) = "dir") /\ ~Fails(w) /\ Kind(d, w.at) # "none"
  <2>1. v = Failed(d, "ENOTDIR")
    BY <1>3 DEF MkdirOne
  <2>2. Fails(v) /\ v.disk = d /\ v.error = "ENOTDIR"
    BY <2>1, Results, StopFails
  <2>3. QED
    BY <1>3, <2>2
<1>4. CASE ~(Fails(r) \/ Stat(d, q) = "dir") /\ ~Fails(w) /\ Kind(d, w.at) = "none"
  <2>1. v = Put(d, w, Directory(Full))
    BY <1>4 DEF MkdirOne
  <2>2. Kind(d, Front(w.at)) = "dir"
    BY <1>4, WalkFound
  <2>3. Permits(d) => "w" \in d[Front(w.at)].mode
    BY <2>2, PermitsAll
  <2>4. CASE "w" \in d[Front(w.at)].mode
    <3>1. v = Done(With(d, w.at, Directory(Full)))
      BY <2>1, <2>4, PutIs
    <3>2. QED
      BY <1>4, <3>1
  <2>5. CASE "w" \notin d[Front(w.at)].mode
    <3>1. v = Failed(d, "EACCES")
      BY <2>1, <2>5, PutIs
    <3>2. Fails(v) /\ v.disk = d
      BY <3>1, Results, StopFails
    <3>3. QED
      BY <1>4, <2>3, <2>5, <3>2
  <2>6. QED
    BY <2>4, <2>5
<1>5. QED
  BY <1>1, <1>2, <1>3, <1>4

\* A disk to which directories that allow everything were added.
Adds(d, y) ==
  /\ IsDisk(y)
  /\ \A q : Kind(d, q) # "none" => Same(d, y, q)
  /\ \A q : Kind(d, q) = "none" /\ Kind(y, q) # "none" =>
       Kind(y, q) = "dir" /\ y[q] = Directory(Full)

LEMMA AddsOne ==
  ASSUME NEW d, IsDisk(d), NEW q \in Seq(Names),
         Kind(d, q) = "none", q # Root, Kind(d, Front(q)) = "dir"
  PROVE  LET y == With(d, q, Directory(Full)) IN
         /\ Adds(d, y) /\ Kind(y, q) = "dir" /\ y[q] = Directory(Full)
         /\ \A a : a # q => Same(d, y, a)
<1> DEFINE n == Directory(Full)
           y == With(d, q, n)
<1>1. SetAt(d, y, q, n)
  BY SetAtForms
<1>2. IsNode(n) /\ n.kind = "dir"
  <2>1. \A m : Directory(m).kind = "dir" /\ Directory(m).mode = m
    BY DEF Directory, Node
  <2>2. n = Directory(n.mode)
    BY <2>1
  <2>3. QED
    BY <2>1, <2>2 DEF IsNode
<1> HIDE DEF y, n
<1>3. IsDisk(y)
  BY <1>1, <1>2, SetAtDisk
<1>4. Kind(y, q) = "dir" /\ y[q] = n /\ \A a : a # q => Same(d, y, a)
  BY <1>1, <1>2, SetAtKinds
<1>5. Adds(d, y)
  BY <1>3, <1>4 DEF Adds, Same, n
<1>6. QED
  BY <1>4, <1>5 DEF y, n

LEMMA AddsMore ==
  ASSUME NEW d, NEW y, NEW z, IsDisk(d), Adds(d, y), Adds(y, z)
  PROVE  Adds(d, z)
<1>1. \A q : Kind(d, q) # "none" => Same(d, z, q)
  BY DEF Adds, Same
<1>2. ASSUME NEW q, Kind(d, q) = "none", Kind(z, q) # "none"
      PROVE  Kind(z, q) = "dir" /\ z[q] = Directory(Full)
  BY <1>2 DEF Adds, Same
<1>3. QED
  BY <1>1, <1>2 DEF Adds

LEMMA AddsNone ==
  ASSUME NEW d, IsDisk(d)
  PROVE  Adds(d, d)
BY DEF Adds, Same

LEMMA AddsPermits ==
  ASSUME NEW d, NEW y, Adds(d, y)
  PROVE  /\ Permits(d) => Permits(y)
         /\ (\A q \in DOMAIN d : Full \subseteq d[q].mode) => \A q \in DOMAIN y : Full \subseteq y[q].mode
<1>1. \A m : Directory(m).mode = m
  BY DEF Directory, Node
<1>2. \A q : q \in DOMAIN d <=> q \in DOMAIN d /\ Kind(d, q) = d[q].kind
  BY DEF Kind
<1>3. ASSUME NEW q \in DOMAIN y
      PROVE  \/ q \in DOMAIN d /\ y[q] = d[q]
             \/ y[q] = Directory(Full)
  <2>1. Kind(y, q) # "none"
    BY <1>3, KindOf DEF Adds
  <2>2. CASE Kind(d, q) = "none"
    BY <2>1, <2>2 DEF Adds
  <2>3. CASE Kind(d, q) # "none"
    <3>1. Same(d, y, q)
      BY <2>3 DEF Adds
    <3>2. q \in DOMAIN d
      BY <2>3 DEF Kind
    <3>3. QED
      BY <2>3, <3>1, <3>2 DEF Same
  <2>4. QED
    BY <2>2, <2>3
<1>4. Permits(d) => Permits(y)
  BY <1>1, <1>3 DEF Permits
<1>5. QED
  BY <1>1, <1>3, <1>4
-----------------------------------------------------------------------------
(***************************************************************************)
(* MkdirAll, a directory at a time.                                        *)
(***************************************************************************)

LEMMA MadeGoesOn ==
  ASSUME NEW d, NEW p, Len(p) \in Nat
  PROVE  \E made : /\ made[0] = Done(d) /\ made[Len(p)] = MkdirAll(d, p)
                   /\ \A k \in 0..(Len(p) - 1) : made[k + 1] = MkdirOne(made[k], SubSeq(p, 1, k + 1))
<1> DEFINE N == Len(p)
           on(w, k) == MkdirOne(w, SubSeq(p, 1, k))
           start == Done(d)
           Good(n, f) == f[0] = start /\ \A k \in 1..n : f[k] = on(f[k - 1], k)
           Some(n) == \E f : f = [k \in 0..n |-> f[k]] /\ Good(n, f)
           T == {n \in Nat : Some(n)}
           Equation(f) == f = [k \in 0..N |-> IF k = 0 THEN start ELSE on(f[k - 1], k)]
           made == CHOOSE f : Equation(f)
<1>1. MkdirAll(d, p) = made[N]
  BY DEF MkdirAll
<1> HIDE DEF on, start, N
<1>1a. N \in Nat
  BY DEF N
<1>2. 0 \in T
  <2> DEFINE f == [k \in 0..0 |-> start]
  <2>1. f = [k \in 0..0 |-> f[k]] /\ Good(0, f)
    OBVIOUS
  <2>2. QED
    BY <2>1
<1>3. ASSUME NEW n \in Nat, n \in T PROVE n + 1 \in T
  <2>1. PICK f : f = [k \in 0..n |-> f[k]] /\ Good(n, f)
    BY <1>3
  <2> DEFINE g == [k \in 0..(n + 1) |-> IF k <= n THEN f[k] ELSE on(f[n], n + 1)]
  <2>2. g = [k \in 0..(n + 1) |-> g[k]]
    OBVIOUS
  <2>3. g[0] = start /\ \A k \in 0..n : g[k] = f[k]
    BY <2>1
  <2>4. g[n + 1] = on(f[n], n + 1)
    OBVIOUS
  <2> HIDE DEF g
  <2>5. ASSUME NEW k \in 1..(n + 1) PROVE g[k] = on(g[k - 1], k)
    <3>1. CASE k = n + 1
      BY <2>3, <2>4, <3>1
    <3>2. CASE k # n + 1
      <4>1. k \in 1..n /\ k - 1 \in 0..n /\ k \in 0..n
        BY <3>2
      <4>2. QED
        BY <2>1, <2>3, <4>1
    <3>3. QED
      BY <3>1, <3>2
  <2>6. Good(n + 1, g)
    BY <2>3, <2>5
  <2> HIDE DEF Good
  <2>7. QED
    BY <2>2, <2>6
<1>4. N \in T
  <2> HIDE DEF T
  <2>1. \A n \in Nat : n \in T => n + 1 \in T
    BY <1>3
  <2>2. QED
    BY <1>1a, <1>2, <2>1, NatSetInduction
<1>5. PICK f : f = [k \in 0..N |-> f[k]] /\ Good(N, f)
  BY <1>4
<1>6. Equation(f)
  <2>1. ASSUME NEW k \in 0..N PROVE f[k] = IF k = 0 THEN start ELSE on(f[k - 1], k)
    <3>1. k = 0 \/ k \in 1..N
      BY <1>1a
    <3>2. f[0] = start /\ \A i \in 1..N : f[i] = on(f[i - 1], i)
      BY <1>5
    <3>3. QED
      BY <3>1, <3>2
  <2> HIDE DEF Good
  <2>2. QED
    BY <1>5, <2>1
<1>7. Equation(made)
  <2> HIDE DEF Equation
  <2>1. QED
    BY <1>6
<1> HIDE DEF made
<1>8. \A k \in 0..N : made[k] = IF k = 0 THEN start ELSE on(made[k - 1], k)
  BY <1>7
<1>9. made[0] = start
  BY <1>1a, <1>8
<1>10. ASSUME NEW k \in 0..(N - 1) PROVE made[k + 1] = on(made[k], k + 1)
  <2>1. k + 1 \in 0..N /\ k + 1 # 0 /\ (k + 1) - 1 = k
    BY <1>1a
  <2>2. QED
    BY <1>8, <2>1
<1>11. QED
  BY <1>1, <1>9, <1>10 DEF on, start, N

\* The directory itself comes after the directories above it.
LEMMA MkdirFront ==
  ASSUME NEW d, NEW q \in Seq(Names), NEW n \in Names
  PROVE  MkdirAll(d, Into(q, n)) = MkdirOne(MkdirAll(d, q), Into(q, n))
<1> DEFINE p == Append(q, n)
<1>1. /\ p \in Seq(Names) /\ Len(p) = Len(q) + 1 /\ Len(q) \in Nat /\ Len(p) \in Nat
      /\ SubSeq(p, 1, Len(q) + 1) = p
      /\ \A k \in 0..(Len(q) - 1) : SubSeq(p, 1, k + 1) = SubSeq(q, 1, k + 1)
  OBVIOUS
<1>2. PICK f : /\ f[0] = Done(d) /\ f[Len(q)] = MkdirAll(d, q)
               /\ \A k \in 0..(Len(q) - 1) : f[k + 1] = MkdirOne(f[k], SubSeq(q, 1, k + 1))
  BY <1>1, MadeGoesOn
<1>2a. Len(p) \in Nat
  BY <1>1
<1> HIDE DEF p
<1>3. PICK g : /\ g[0] = Done(d) /\ g[Len(p)] = MkdirAll(d, p)
               /\ \A k \in 0..(Len(p) - 1) : g[k + 1] = MkdirOne(g[k], SubSeq(p, 1, k + 1))
  BY <1>2a, MadeGoesOn
<1> DEFINE T == {k \in 0..Len(q) : g[k] = f[k]}
<1>4. 0 \in T
  BY <1>1, <1>2, <1>3
<1>5. ASSUME NEW k \in 0..(Len(q) - 1), k \in T PROVE k + 1 \in T
  <2>1. k + 1 \in 0..Len(q) /\ k \in 0..(Len(p) - 1)
    BY <1>1
  <2>2. g[k + 1] = MkdirOne(g[k], SubSeq(p, 1, k + 1)) /\ f[k + 1] = MkdirOne(f[k], SubSeq(q, 1, k + 1))
    BY <1>2, <1>3, <2>1
  <2>3. QED
    BY <1>1, <1>5, <2>1, <2>2
<1>6. \A k \in 0..Len(q) : k \in T
  <2> HIDE DEF T
  <2>1. QED
    BY <1>1, <1>4, <1>5, BoundedInduction
<1>7. g[Len(q)] = f[Len(q)]
  BY <1>1, <1>6
<1>8. g[Len(q) + 1] = MkdirOne(g[Len(q)], SubSeq(p, 1, Len(q) + 1))
  BY <1>1, <1>3
<1>9. MkdirAll(d, p) = MkdirOne(MkdirAll(d, q), p)
  BY <1>1, <1>2, <1>3, <1>7, <1>8
<1>10. QED
  BY <1>9 DEF Into, p

LEMMA MkdirRoot ==
  ASSUME NEW d
  PROVE  MkdirAll(d, << >>) = Done(d)
<1>1. Len(<< >>) = 0 /\ Len(<< >>) \in Nat
  OBVIOUS
<1>2. PICK h : h[0] = Done(d) /\ h[Len(<< >>)] = MkdirAll(d, << >>)
  BY <1>1, MadeGoesOn
<1>3. QED
  BY <1>1, <1>2

\* Induction over paths, a name at a time.
LEMMA PathInduction ==
  ASSUME NEW T, << >> \in T, \A q \in Seq(Names) : \A n \in Names : q \in T => Into(q, n) \in T
  PROVE  \A q \in Seq(Names) : q \in T
BY SeqSetInduction DEF Into

\* MkdirAll only adds directories, and is denied only by one that does not
\* allow everything.
LEMMA MkdirAdds ==
  ASSUME NEW d, IsDisk(d)
  PROVE  \A p \in Seq(Names) :
           /\ Adds(d, MkdirAll(d, p).disk)
           /\ Permits(d) => MkdirAll(d, p).error # "EACCES"
<1> DEFINE P(p) == /\ Adds(d, MkdirAll(d, p).disk)
                   /\ Permits(d) => MkdirAll(d, p).error # "EACCES"
           T == {p \in Seq(Names) : P(p)}
<1>0. << >> \in Seq(Names) /\ NoError # "EACCES"
  BY StopFails
<1>1. << >> \in T
  <2>1. MkdirAll(d, << >>) = Done(d)
    BY MkdirRoot
  <2>2. P(<< >>)
    BY <1>0, <2>1, AddsNone, Results
  <2>3. QED
    BY <1>0, <2>2
<1>2. ASSUME NEW q \in Seq(Names), NEW n \in Names, q \in T PROVE Into(q, n) \in T
  <2> DEFINE r == MkdirAll(d, q)
             v == MkdirOne(r, Into(q, n))
             w == Walk(r.disk, Into(q, n), Keep)
  <2>1. MkdirAll(d, Into(q, n)) = v /\ Into(q, n) \in Seq(Names)
    BY MkdirFront, IntoPath
  <2>2. Adds(d, r.disk) /\ IsDisk(r.disk) /\ (Permits(d) => r.error # "EACCES" /\ Permits(r.disk))
    BY <1>2, AddsPermits DEF Adds
  <2>3. Into(q, n) \in Seq(Word)
    BY <2>1, NamesAreWords
  <2>4. \/ v = r
        \/ v.disk = r.disk /\ (v.error = "EACCES" => ~Permits(r.disk))
        \/ /\ ~Fails(w) /\ Kind(r.disk, w.at) = "none"
           /\ v = Done(With(r.disk, w.at, Directory(Full)))
    BY <2>2, <2>3, MkdirOneIs
  <2>5. ~Fails(w) /\ Kind(r.disk, w.at) = "none" => Adds(r.disk, With(r.disk, w.at, Directory(Full)))
    BY <2>2, <2>3, WalkFound, AddsOne
  <2> HIDE DEF r, v, w
  <2>6. CASE v = r
    BY <2>1, <2>2, <2>6
  <2>7. CASE v.disk = r.disk /\ (v.error = "EACCES" => ~Permits(r.disk))
    BY <2>1, <2>2, <2>7
  <2>8. CASE ~Fails(w) /\ Kind(r.disk, w.at) = "none" /\ v = Done(With(r.disk, w.at, Directory(Full)))
    <3> DEFINE y == With(r.disk, w.at, Directory(Full))
    <3>1. v.disk = y /\ v.error = NoError
      BY <2>8, Results
    <3>2. Adds(d, y)
      BY <2>2, <2>5, <2>8, AddsMore
    <3>3. QED
      BY <1>0, <2>1, <3>1, <3>2
  <2>9. QED
    BY <2>4, <2>6, <2>7, <2>8
<1>3. \A p \in Seq(Names) : p \in T
  <2> HIDE DEF T
  <2>1. \A q \in Seq(Names) : \A n \in Names : q \in T => Into(q, n) \in T
    BY <1>2
  <2>2. QED
    BY <1>1, <2>1, PathInduction
<1>4. QED
  BY <1>3

\* A MkdirAll that stops half-way leaves less than it would have.
LEMMA MadeBetween ==
  ASSUME NEW d, IsDisk(d)
  PROVE  \A p \in Seq(Names) : \A y \in Made(d, p) : Adds(d, y) /\ Adds(y, MkdirAll(d, p).disk)
<1> DEFINE P(p) == \A y \in Made(d, p) : Adds(d, y) /\ Adds(y, MkdirAll(d, p).disk)
           T == {p \in Seq(Names) : P(p)}
<1>1. << >> \in T
  <2>1. << >> \in Seq(Names) /\ Len(<< >>) = 0
    OBVIOUS
  <2>2. \A k \in 0..0 : SubSeq(<< >>, 1, k) = << >>
    OBVIOUS
  <2>3. MkdirAll(d, << >>).disk = d
    BY MkdirRoot, Results
  <2>4. Made(d, << >>) = {d}
    <3>1. Made(d, << >>) = {MkdirAll(d, SubSeq(<< >>, 1, k)).disk : k \in 0..0}
      BY <2>1 DEF Made
    <3>2. 0..0 = {0}
      OBVIOUS
    <3>3. Made(d, << >>) = {MkdirAll(d, SubSeq(<< >>, 1, 0)).disk}
      BY <3>1, <3>2, Zenon
    <3>4. SubSeq(<< >>, 1, 0) = << >>
      BY <2>2
    <3>5. QED
      BY <2>3, <3>3, <3>4, Zenon
  <2>5. P(<< >>)
    BY <2>3, <2>4, AddsNone
  <2>6. QED
    BY <2>1, <2>5
<1>2. ASSUME NEW q \in Seq(Names), NEW n \in Names, q \in T PROVE Into(q, n) \in T
  <2> DEFINE t == Into(q, n)
             r == MkdirAll(d, q)
             v == MkdirOne(r, t)
             w == Walk(r.disk, t, Keep)
  <2>1. MkdirAll(d, t) = v /\ t \in Seq(Names) /\ t \in Seq(Word)
    BY MkdirFront, IntoPath, NamesAreWords
  <2>2. Adds(d, r.disk) /\ IsDisk(r.disk) /\ Adds(d, v.disk) /\ IsDisk(v.disk)
    BY <2>1, MkdirAdds DEF Adds
  <2>3. Adds(r.disk, v.disk)
    <3>1. \/ v.disk = r.disk
          \/ /\ ~Fails(w) /\ Kind(r.disk, w.at) = "none"
             /\ v.disk = With(r.disk, w.at, Directory(Full))
      BY <2>1, <2>2, MkdirOneIs, Results
    <3>2. ~Fails(w) /\ Kind(r.disk, w.at) = "none" => Adds(r.disk, With(r.disk, w.at, Directory(Full)))
      BY <2>1, <2>2, WalkFound, AddsOne
    <3>3. Adds(r.disk, r.disk)
      BY <2>2, AddsNone
    <3> HIDE DEF v, r, w
    <3>4. QED
      BY <3>1, <3>2, <3>3
  <2>4. \A k \in 0..Len(t) : (k \in 0..Len(q) /\ SubSeq(t, 1, k) = SubSeq(q, 1, k)) \/ SubSeq(t, 1, k) = t
    <3>1. /\ Len(Append(q, n)) = Len(q) + 1 /\ Len(q) \in Nat
          /\ SubSeq(Append(q, n), 1, Len(q) + 1) = Append(q, n)
          /\ \A k \in 0..Len(q) : SubSeq(Append(q, n), 1, k) = SubSeq(q, 1, k)
      OBVIOUS
    <3> DEFINE z == Append(q, n)
    <3> HIDE DEF z
    <3>2. \A k \in 0..Len(z) : (k \in 0..Len(q) /\ SubSeq(z, 1, k) = SubSeq(q, 1, k)) \/ SubSeq(z, 1, k) = z
      BY <3>1 DEF z
    <3>3. QED
      BY <3>2 DEF z, Into
  <2> HIDE DEF v, r, w, t
  <2>5. ASSUME NEW y \in Made(d, t) PROVE y \in Made(d, q) \/ y = v.disk
    <3>1. PICK k \in 0..Len(t) : y = MkdirAll(d, SubSeq(t, 1, k)).disk
      BY <2>5 DEF Made
    <3>2. QED
      BY <2>1, <2>4, <3>1 DEF Made
  <2>6. ASSUME NEW y \in Made(d, q) PROVE Adds(d, y) /\ Adds(y, v.disk)
    <3>1. Adds(d, y) /\ Adds(y, r.disk)
      BY <1>2, <2>6 DEF r
    <3>2. IsDisk(y)
      BY <3>1 DEF Adds
    <3>3. QED
      BY <2>3, <3>1, <3>2, AddsMore
  <2>7. Adds(v.disk, v.disk)
    BY <2>2, AddsNone
  <2>8. P(t)
    BY <2>1, <2>2, <2>5, <2>6, <2>7
  <2> HIDE DEF P
  <2>9. QED
    BY <2>1, <2>8 DEF t
<1>3. \A p \in Seq(Names) : p \in T
  <2> HIDE DEF T
  <2>1. \A q \in Seq(Names) : \A n \in Names : q \in T => Into(q, n) \in T
    BY <1>2
  <2>2. QED
    BY <1>1, <2>1, PathInduction
<1>4. QED
  BY <1>3

LEMMA IntoThen ==
  ASSUME NEW p \in Seq(Names), NEW s \in Seq(Names), NEW n \in Names
  PROVE  /\ Then(p, Into(s, n)) = Into(Then(p, s), n)
         /\ Into(s, n) = Then(s, << n >>) /\ << n >> \in Seq(Names)
         /\ Len(Into(s, n)) = Len(s) + 1 /\ Len(s) \in Nat
         /\ Down(p, Into(s, n), Len(s) + 1) = Then(p, Into(s, n))
         /\ \A i \in 1..Len(s) : Down(p, Into(s, n), i) = Down(p, s, i)
<1> DEFINE t == Append(s, n)
<1>1. /\ t \in Seq(Names) /\ Len(t) = Len(s) + 1 /\ Len(s) \in Nat
      /\ SubSeq(t, 1, Len(s) + 1) = t /\ << n >> \in Seq(Names)
  OBVIOUS
<1>2. \A i \in 1..Len(s) : SubSeq(t, 1, i) = SubSeq(s, 1, i)
  OBVIOUS
<1>3. t = s \o << n >>
  OBVIOUS
<1>4. p \o t = Append(p \o s, n)
  BY AppendOfConcat
<1> HIDE DEF t
<1>5. Down(p, t, Len(s) + 1) = Then(p, t) /\ \A i \in 1..Len(s) : Down(p, t, i) = Down(p, s, i)
  BY <1>1, <1>2 DEF Down, Then
<1>6. Then(p, t) = Into(Then(p, s), n) /\ t = Then(s, << n >>)
  BY <1>3, <1>4 DEF Then, Into
<1>7. QED
  BY <1>1, <1>5, <1>6 DEF Into, t

\* d is a disk on which the way still leads to the target.
Reached(e, p, r, d) == Leads(e, p, r) /\ IsDisk(d) /\ LinksKept(e, d) /\ Passes(e, p, d)

LEMMA ReachedTarget ==
  ASSUME NEW e, NEW p, NEW r, NEW d, Reached(e, p, r, d)
  PROVE  Kind(d, r) = "dir" /\ Open(e, p, d)
<1>1. Trail(e, p, Follow)[Fuel].at = r
  BY StandFields DEF Reached, Leads
<1>2. QED
  BY <1>1, FuelAssumption DEF Reached, Passes, Open

LEMMA AddsReached ==
  ASSUME NEW e, NEW p, NEW r, NEW d, NEW y, Reached(e, p, r, d), Adds(d, y)
  PROVE  /\ Reached(e, p, r, y)
         /\ \A s, last : Clear(d, r, s, last) => Clear(y, r, s, last)
<1>1. \A a : Kind(d, a) = "dir" => Kind(y, a) = "dir"
  BY DEF Adds, Same
<1>2. Passes(e, p, y)
  BY <1>1 DEF Reached, Passes
<1>3. ASSUME NEW q \in DOMAIN e, e[q].kind = "symlink" PROVE q \in DOMAIN y /\ y[q] = e[q]
  <2>1. q \in DOMAIN d /\ d[q] = e[q]
    BY <1>3 DEF Reached, LinksKept
  <2>2. Kind(d, q) # "none"
    BY <2>1, KindOf DEF Reached
  <2>3. Kind(y, q) = Kind(d, q) /\ y[q] = d[q]
    BY <2>2 DEF Adds, Same
  <2>4. q \in DOMAIN y
    BY <2>2, <2>3 DEF Kind
  <2>5. QED
    BY <2>1, <2>3, <2>4
<1>4. Reached(e, p, r, y)
  BY <1>2, <1>3 DEF Reached, LinksKept, Adds
<1>5. \A a : Kind(y, a) = "symlink" => Kind(d, a) = "symlink"
  BY DEF Adds, Same
<1>6. QED
  BY <1>4, <1>5 DEF Clear

LEMMA StatDir ==
  ASSUME NEW d, IsDisk(d), NEW p \in Seq(Word), Stat(d, p) = "dir"
  PROVE  ~Fails(Walk(d, p, Follow)) /\ Kind(d, Walk(d, p, Follow).at) = "dir"
<1> DEFINE w == Walk(d, p, Follow)
<1>1. Stated(d, w) = "dir"
  BY DEF Stat
<1>2. Fails(w) => w.error \in {"ENOTDIR", "EACCES", "ENOENT", "ELOOP"}
  BY WalkFails
<1> HIDE DEF w
<1>3. ~Fails(w) /\ Kind(d, w.at) = "dir"
  BY <1>1, <1>2 DEF Stated
<1>4. QED
  BY <1>3 DEF w

\* The directories on the way are there.
LEMMA MkdirReached ==
  ASSUME NEW e, NEW p \in Seq(Names), NEW r, NEW d, Reached(e, p, r, d)
  PROVE  \A q \in Seq(Names) : \A t \in Seq(Names) : p = Then(q, t) => MkdirAll(d, q).disk = d
<1> DEFINE T == {q \in Seq(Names) : \A t \in Seq(Names) : p = Then(q, t) => MkdirAll(d, q).disk = d}
<1>1. << >> \in T
  <2>1. << >> \in Seq(Names)
    OBVIOUS
  <2>2. MkdirAll(d, << >>).disk = d
    BY MkdirRoot, Results
  <2>3. QED
    BY <2>1, <2>2
<1>2. ASSUME NEW q \in Seq(Names), NEW n \in Names, q \in T PROVE Into(q, n) \in T
  <2> DEFINE m == MkdirAll(d, q)
             v == MkdirOne(m, Into(q, n))
             w == Walk(d, Into(q, n), Keep)
  <2>1. Into(q, n) \in Seq(Names) /\ Into(q, n) = Then(q, << n >>) /\ << n >> \in Seq(Names)
    BY IntoPath, IntoThen
  <2>2. MkdirAll(d, Into(q, n)) = v
    BY MkdirFront
  <2>3. ASSUME NEW t \in Seq(Names), p = Then(Into(q, n), t) PROVE v.disk = d
    <3>1. p = Then(q, Then(<< n >>, t)) /\ Then(<< n >>, t) \in Seq(Names)
      <4> DEFINE u == << n >>
                 i == Into(q, n)
      <4>1. i = Then(q, u) /\ u \in Seq(Names) /\ p = Then(i, t)
        BY <2>1, <2>3
      <4> HIDE DEF u, i
      <4>2. Then(i, t) = Then(q, Then(u, t)) /\ Then(u, t) \in Seq(Names)
        BY <4>1, ThenThen, ThenNames
      <4>3. p = Then(q, Then(u, t)) /\ Then(u, t) \in Seq(Names)
        BY <4>1, <4>2
      <4>4. QED
        BY <4>3 DEF u
    <3>2. m.disk = d
      BY <1>2, <3>1
    <3>3. Into(q, n) \in Seq(Word) /\ IsDisk(m.disk)
      BY <2>1, <3>2, NamesAreWords DEF Reached
    <3>4. v = m \/ v.disk = m.disk \/ (~Fails(w) /\ Kind(d, w.at) = "none")
      <4>1. LET u == Walk(m.disk, Into(q, n), Keep) IN
            v = m \/ v.disk = m.disk \/ (~Fails(u) /\ Kind(m.disk, u.at) = "none")
        BY <3>3, MkdirOneIs
      <4>2. QED
        BY <3>2, <4>1
    <3>5. Fails(w) \/ Kind(d, w.at) # "none"
      BY <2>1, <2>3, WalkBefore DEF Reached
    <3>6. QED
      BY <3>2, <3>4, <3>5
  <2>4. QED
    BY <2>1, <2>2, <2>3
<1>3. \A q \in Seq(Names) : q \in T
  <2> HIDE DEF T
  <2>1. \A q \in Seq(Names) : \A n \in Names : q \in T => Into(q, n) \in T
    BY <1>2
  <2>2. QED
    BY <1>1, <2>1, PathInduction
<1>4. QED
  BY <1>3

\* The directories that MkdirAll adds below the target.
Grows(d, y, r, s) ==
  \A a : Same(d, y, a) \/ (Kind(d, a) = "none" /\ \E i \in 1..Len(s) : a = Down(r, s, i))

LEMMA WholeMade ==
  ASSUME NEW d, NEW p \in Seq(Names)
  PROVE  MkdirAll(d, p).disk \in Made(d, p)
<1>1. Len(p) \in 0..Len(p) /\ SubSeq(p, 1, Len(p)) = p
  OBVIOUS
<1>2. QED
  BY <1>1 DEF Made

LEMMA BetweenGrows ==
  ASSUME NEW d, NEW y, NEW z, NEW r, NEW s, Adds(d, y), Adds(y, z), Grows(d, z, r, s)
  PROVE  Grows(d, y, r, s)
<1>1. SUFFICES ASSUME NEW a, Same(d, z, a) PROVE Same(d, y, a)
  BY DEF Grows
<1>2. CASE Kind(d, a) # "none"
  BY <1>2 DEF Adds
<1>3. CASE Kind(d, a) = "none"
  <2>1. Kind(z, a) = "none"
    BY <1>1, <1>3 DEF Same
  <2>2. Kind(y, a) = "none"
    BY <2>1 DEF Adds, Same
  <2>3. QED
    BY <1>3, <2>2 DEF Same
<1>4. QED
  BY <1>2, <1>3

LEMMA MkdirBelow ==
  ASSUME NEW e, NEW p \in Seq(Names), NEW r \in Seq(Names), NEW d, Reached(e, p, r, d)
  PROVE  \A s \in Seq(Names) : Clear(d, r, s, Follow) =>
           LET m == MkdirAll(d, Then(p, s)) IN
           /\ Grows(d, m.disk, r, s)
           /\ ~Fails(m) => Kind(m.disk, Then(r, s)) = "dir"
<1> DEFINE P(s) == LET m == MkdirAll(d, Then(p, s)) IN
                   Grows(d, m.disk, r, s) /\ (~Fails(m) => Kind(m.disk, Then(r, s)) = "dir")
           T == {s \in Seq(Names) : Clear(d, r, s, Follow) => P(s)}
<1>0. IsDisk(d) /\ Leads(e, p, r)
  BY DEF Reached
<1>1. << >> \in T
  <2> DEFINE m == MkdirAll(d, Then(p, << >>))
  <2>1. << >> \in Seq(Names)
    OBVIOUS
  <2>2. Then(p, << >>) = p /\ Then(r, << >>) = r
    BY <2>1, ThenNames
  <2>3. MkdirAll(d, p).disk = d
    <3>1. \A t \in Seq(Names) : p = Then(p, t) => MkdirAll(d, p).disk = d
      BY MkdirReached
    <3>2. p = Then(p, << >>)
      BY <2>2
    <3>3. QED
      BY <2>1, <3>1, <3>2
  <2>4. m.disk = d
    BY <2>2, <2>3
  <2>5. Grows(d, d, r, << >>)
    BY DEF Grows, Same
  <2>6. Kind(d, Then(r, << >>)) = "dir"
    BY <2>2, ReachedTarget
  <2>7. P(<< >>)
    BY <2>4, <2>5, <2>6
  <2>8. QED
    BY <2>1, <2>7
<1>2. ASSUME NEW s \in Seq(Names), NEW n \in Names, s \in T PROVE Into(s, n) \in T
  <2> DEFINE t == Into(s, n)
             m == MkdirAll(d, Then(p, s))
             y == m.disk
             q == Then(p, t)
             v == MkdirOne(m, q)
             w == Walk(y, q, Keep)
             f == Walk(y, q, Follow)
             a == Then(r, t)
  <2>1. t \in Seq(Names) /\ Len(t) = Len(s) + 1 /\ Len(s) \in Nat /\ t # << >>
    BY IntoPath, IntoThen DEF Root
  <2>2. /\ q = Into(Then(p, s), n) /\ Down(r, t, Len(s) + 1) = a
        /\ \A i \in 1..Len(s) : Down(r, t, i) = Down(r, s, i)
    BY IntoThen
  <2>3. Then(p, s) \in Seq(Names) /\ q \in Seq(Names) /\ q \in Seq(Word) /\ a \in Seq(Names)
    BY <2>1, ThenNames, NamesAreWords
  <2>4. MkdirAll(d, q) = v
    <3>1. MkdirAll(d, Into(Then(p, s), n)) = MkdirOne(m, Into(Then(p, s), n))
      BY <2>3, MkdirFront
    <3>2. QED
      BY <2>2, <3>1
  <2>5. ASSUME Clear(d, r, t, Follow) PROVE P(t)
    <3>1. Clear(d, r, s, Follow)
      <4>1. \A i \in 1..Len(s) : i \in 1..Len(t) /\ Down(r, t, i) = Down(r, s, i)
        BY <2>1, <2>2
      <4>2. QED
        BY <2>5, <4>1 DEF Clear
    <3>2. Grows(d, y, r, s) /\ (~Fails(m) => Kind(y, Then(r, s)) = "dir")
      BY <1>2, <3>1
    <3>3. Adds(d, y)
      BY <1>0, <2>3, MkdirAdds
    <3>4. Reached(e, p, r, y) /\ IsDisk(y) /\ Clear(y, r, t, Follow) /\ Clear(y, r, t, Keep)
      <4>1. Reached(e, p, r, y) /\ Clear(y, r, t, Follow)
        <5> HIDE DEF t, y
        <5>1. QED
          BY <2>5, <3>3, AddsReached
      <4>2. QED
        BY <4>1 DEF Clear, Reached
    <3>5. Leads(e, p, r) /\ LinksKept(e, y) /\ Open(e, p, y)
      BY <3>4, ReachedTarget DEF Reached
    <3>6. Grows(d, y, r, t)
      <4>1. \A i \in 1..Len(s) : i \in 1..Len(t) /\ Down(r, t, i) = Down(r, s, i)
        BY <2>1, <2>2
      <4>2. QED
        BY <3>2, <4>1 DEF Grows
    <3>7. ~Fails(f) => f.at = a
      BY <2>1, <3>4, <3>5, WalkBelow
    <3>8. ~Fails(w) => w.at = a
      BY <2>1, <3>4, <3>5, WalkBelow
    <3>9. Stat(y, q) = "dir" => ~Fails(f) /\ Kind(y, f.at) = "dir"
      BY <2>3, <3>4, StatDir
    <3>10. \/ (Fails(m) \/ Stat(y, q) = "dir") /\ v = m
           \/ Fails(v) /\ v.disk = y
           \/ ~Fails(w) /\ Kind(y, w.at) = "none" /\ v = Done(With(y, w.at, Directory(Full)))
      BY <2>3, <3>4, MkdirOneIs
    <3> SUFFICES Grows(d, v.disk, r, t) /\ (~Fails(v) => Kind(v.disk, a) = "dir")
      BY <2>4
    <3> HIDE DEF t, m, y, q, v, w, f, a
    <3>11. CASE (Fails(m) \/ Stat(y, q) = "dir") /\ v = m
      <4>1. v.disk = y
        BY <3>11 DEF y
      <4>2. QED
        BY <3>6, <3>7, <3>9, <3>11, <4>1
    <3>12. CASE Fails(v) /\ v.disk = y
      BY <3>6, <3>12
    <3>13. CASE ~Fails(w) /\ Kind(y, w.at) = "none" /\ v = Done(With(y, w.at, Directory(Full)))
      <4> DEFINE z == With(y, a, Directory(Full))
      <4>1. v = Done(z) /\ Kind(y, a) = "none"
        BY <3>8, <3>13
      <4>2. a # Root /\ Kind(y, Front(a)) = "dir"
        BY <2>3, <3>4, <3>8, <3>13, WalkFound DEF w
      <4>3. Kind(z, a) = "dir" /\ \A b : b # a => Same(y, z, b)
        BY <2>3, <3>4, <4>1, <4>2, AddsOne
      <4>4. Kind(d, a) = "none"
        BY <3>3, <4>1 DEF Adds, Same
      <4> HIDE DEF z
      <4>5. \A b : Same(d, y, b) /\ Same(y, z, b) => Same(d, z, b)
        BY DEF Same
      <4>6. \A b : Kind(y, b) = "dir" /\ Same(y, z, b) => Kind(z, b) = "dir"
        BY DEF Same
      <4>7. Grows(d, z, r, t)
        <5>1. Len(s) + 1 \in 1..Len(t)
          BY <2>1
        <5>2. QED
          BY <2>2, <3>6, <4>3, <4>4, <4>5, <5>1 DEF Grows
      <4>8. QED
        BY <4>1, <4>3, <4>7, Results
    <3>14. QED
      BY <3>10, <3>11, <3>12, <3>13
  <2> HIDE DEF P
  <2>6. QED
    BY <2>1, <2>5
<1>3. \A s \in Seq(Names) : s \in T
  <2> HIDE DEF T
  <2>1. \A s \in Seq(Names) : \A n \in Names : s \in T => Into(s, n) \in T
    BY <1>2
  <2>2. QED
    BY <1>1, <2>1, PathInduction
<1>4. QED
  BY <1>3
-----------------------------------------------------------------------------
(***************************************************************************)
(* Where the target is: MakeTarget's directories, one after the other.     *)
(***************************************************************************)

LEMMA PrefixThen ==
  ASSUME NEW a, NEW b, NEW c, a \in Seq(Names), b \in Seq(Names), c \in Seq(Names)
  PROVE  /\ IsPrefix(a, Then(a, c))
         /\ c # << >> => IsStrictPrefix(a, Then(a, c))
         /\ IsPrefix(a, b) <=> \E t \in Seq(Names) : b = Then(a, t)
         /\ IsStrictPrefix(a, b) <=> \E t \in Seq(Names) : t # << >> /\ b = Then(a, t)
<1>1. Then(a, c) \in Seq(Names)
  BY ThenNames
<1>2. QED
  BY <1>1, PrefixGoesOn

LEMMA PrefixMore ==
  ASSUME NEW a, NEW b, NEW c, a \in Seq(Names), b \in Seq(Names), c \in Seq(Names), IsPrefix(a, b)
  PROVE  IsPrefix(a, Then(b, c))
<1>1. PICK t \in Seq(Names) : b = Then(a, t)
  BY PrefixThen
<1>2. Then(b, c) = Then(a, Then(t, c)) /\ Then(t, c) \in Seq(Names)
  BY <1>1, ThenThen, ThenNames
<1>3. QED
  BY <1>2, PrefixThen

\* A walk that ends at a directory led there through directories.
LEMMA WalkLeads ==
  ASSUME NEW d, NEW p, IsDisk(d), p \in Seq(Word), ~Fails(Walk(d, p, Follow)),
         Kind(d, Walk(d, p, Follow).at) = "dir"
  PROVE  Leads(d, p, Walk(d, p, Follow).at)
<1> DEFINE T == Trail(d, p, Follow)
           w == Walk(d, p, Follow)
<1>1. w = T[Fuel] /\ w.rest = << >> /\ Fuel \in 0..Fuel /\ \A k \in 0..Fuel : ~Fails(T[k])
  BY WalkEnds, FuelAssumption
<1>2. ASSUME NEW k \in 0..Fuel
      PROVE  T[k].at \in Seq(Names) /\ T[k].rest \in Seq(Word) /\ T[k] = Stand(T[k].at, T[k].rest)
  BY <1>1, StandsThere
<1>3. T[Fuel] = Stand(w.at, << >>)
  BY <1>1, <1>2
<1>4. ASSUME NEW k \in 0..Fuel PROVE Kind(d, T[k].at) = "dir"
  <2>1. CASE T[k].rest = << >>
    <3>1. T[Fuel] = T[k]
      <4>1. Over(T[k]) /\ Fuel \in k..Fuel
        BY <2>1, FuelAssumption DEF Over
      <4>2. QED
        BY <4>1, TrailStays
    <3>2. QED
      BY <1>1, <3>1
  <2>2. CASE T[k].rest # << >>
    <3>1. k # Fuel
      BY <1>1, <2>2
    <3>2. k \in 0..(Fuel - 1) /\ k + 1 \in 0..Fuel
      BY <3>1, FuelAssumption
    <3>3. PICK n \in Word, l \in Seq(Word) : Starts(T[k].rest, n, l)
      BY <1>2, <2>2, StartsSome
    <3>4. T[k + 1] = WalkName(d, Follow, T[k]) /\ ~Fails(T[k + 1])
      BY <1>1, <3>2, TrailGoesOn
    <3>5. ~Fails(WalkName(d, Follow, Stand(T[k].at, T[k].rest)))
      BY <1>2, <3>4
    <3>6. QED
      BY <3>3, <3>5, StepGoes
  <2>3. QED
    BY <2>1, <2>2
<1>5. QED
  BY <1>1, <1>3, <1>4 DEF Leads

\* And what leads there is what walks there.
LEMMA LeadsWalk ==
  ASSUME NEW d, NEW p, NEW r, Leads(d, p, r)
  PROVE  Walk(d, p, Follow) = Stand(r, << >>) /\ Walk(d, p, Follow).at = r
<1> DEFINE w == Trail(d, p, Follow)[Fuel]
<1>1. w = Stand(r, << >>)
  BY DEF Leads
<1>2. Walk(d, p, Follow) = Ended(w)
  BY DEF Walk
<1> HIDE DEF w
<1>3. w.rest = << >>
  BY <1>1, StandFields
<1>4. Ended(w) = w
  BY <1>3 DEF Ended
<1>5. QED
  BY <1>1, <1>2, <1>4, StandFields

LEMMA LeadsRoot ==
  ASSUME NEW d, IsDisk(d)
  PROVE  Leads(d, << >>, Root)
<1> DEFINE T == Trail(d, << >>, Follow)
<1>1. T[0] = Stand(Root, << >>) /\ 0 \in 0..Fuel
  BY TrailGoesOn, FuelAssumption
<1>2. Over(T[0])
  BY <1>1, StandFields DEF Over
<1>3. \A k \in 0..Fuel : T[k] = Stand(Root, << >>)
  BY <1>1, <1>2, TrailStays
<1>4. \A k \in 0..Fuel : ~Fails(T[k]) /\ Kind(d, T[k].at) = "dir"
  BY <1>3, StandFields, StopFails, RootOfDisk
<1>5. Fuel \in 0..Fuel
  BY FuelAssumption
<1>6. QED
  BY <1>3, <1>4, <1>5 DEF Leads

\* The way on its own disk.
LEMMA LeadsReached ==
  ASSUME NEW e, NEW p, NEW r, Leads(e, p, r)
  PROVE  Reached(e, p, r, e)
BY DEF Leads, Reached, LinksKept, Passes

\* Whether the last name is followed matters only for a symlink.
LEMMA StepEither ==
  ASSUME NEW d, NEW a, NEW s, NEW n, NEW l, n \in Word, Starts(s, n, l),
         ~(n \in Names /\ Kind(d, Into(a, n)) = "symlink" /\ l = << >>)
  PROVE  WalkName(d, Follow, Stand(a, s)) = WalkName(d, Keep, Stand(a, s))
<1> DEFINE to == Into(a, n)
           v(last) == WalkName(d, last, Stand(a, s))
<1>1. CASE Kind(d, a) # "dir"
  BY <1>1, StepNoDirectory
<1>2. CASE Kind(d, a) = "dir" /\ "x" \notin d[a].mode
  BY <1>2, StepDenied
<1>3. CASE Kind(d, a) = "dir" /\ "x" \in d[a].mode /\ Skips(n)
  BY <1>3, StepSkips
<1>4. CASE Kind(d, a) = "dir" /\ "x" \in d[a].mode /\ Climbs(n)
  BY <1>4, StepClimbs
<1>5. CASE Kind(d, a) = "dir" /\ "x" \in d[a].mode /\ n \in Names
  <2>1. CASE Kind(d, to) = "none" /\ l # << >>
    BY <1>5, <2>1, StepMissing
  <2>2. CASE Kind(d, to) = "symlink" /\ l # << >>
    BY <1>5, <2>2, StepLink
  <2>3. CASE (Kind(d, to) # "none" \/ l = << >>) /\ Kind(d, to) # "symlink"
    BY <1>5, <2>3, StepEnters
  <2>4. QED
    BY <1>5, <2>1, <2>2, <2>3
<1>6. QED
  BY <1>1, <1>2, <1>3, <1>4, <1>5, WordCases

LEMMA FollowKeep ==
  ASSUME NEW d, NEW p, IsDisk(d), p \in Seq(Word), ~Fails(Walk(d, p, Keep)),
         Kind(d, Walk(d, p, Keep).at) # "symlink"
  PROVE  Walk(d, p, Follow) = Walk(d, p, Keep)
<1> DEFINE T == Trail(d, p, Follow)
           S == Trail(d, p, Keep)
           w == Walk(d, p, Keep)
           J == {k \in 0..Fuel : T[k] = S[k]}
<1>1. w = S[Fuel] /\ Fuel \in 0..Fuel /\ 0 \in 0..Fuel /\ \A k \in 0..Fuel : ~Fails(S[k])
  BY WalkEnds, FuelAssumption
<1>2. 0 \in J
  BY <1>1, TrailGoesOn
<1>3. ASSUME NEW k \in 0..(Fuel - 1), k \in J PROVE k + 1 \in J
  <2>1. /\ k \in 0..Fuel /\ k + 1 \in 0..Fuel /\ Fuel \in (k + 1)..Fuel
        /\ S[k + 1] = WalkName(d, Keep, S[k]) /\ T[k + 1] = WalkName(d, Follow, T[k])
    BY TrailGoesOn, FuelAssumption
  <2>2. T[k] = S[k]
    BY <1>3
  <2>3. CASE Over(S[k])
    BY <2>1, <2>2, <2>3, StepStays
  <2>4. CASE ~Over(S[k])
    <3> DEFINE a == S[k].at
               s == S[k].rest
    <3>1. a \in Seq(Names) /\ s \in Seq(Word) /\ S[k] = Stand(a, s)
      BY <1>1, <2>1, StandsThere
    <3>2. s # << >>
      BY <2>4 DEF Over
    <3>3. PICK n \in Word, l \in Seq(Word) : Starts(s, n, l)
      BY <3>1, <3>2, StartsSome
    <3> HIDE DEF a, s
    <3>4. ASSUME n \in Names, Kind(d, Into(a, n)) = "symlink", l = << >> PROVE FALSE
      <4>1. ~Fails(S[k + 1]) /\ S[k + 1] = WalkName(d, Keep, Stand(a, s))
        BY <1>1, <2>1, <3>1
      <4>2. Kind(d, a) = "dir" /\ "x" \in d[a].mode
        BY <3>3, <4>1, StepGoes
      <4>3. WalkName(d, Keep, Stand(a, s)) = Stand(Into(a, n), l)
        <5>1. Keep # Follow
          BY DEF Keep, Follow
        <5>2. QED
          BY <3>3, <3>4, <4>2, <5>1, StepEnters
      <4>4. S[k + 1].at = Into(a, n) /\ Over(S[k + 1])
        BY <3>4, <4>1, <4>3, StandFields DEF Over
      <4>5. S[Fuel] = S[k + 1]
        BY <2>1, <4>4, TrailStays
      <4>6. Kind(d, S[Fuel].at) = "symlink"
        BY <3>4, <4>4, <4>5
      <4>7. QED
        BY <1>1, <4>6
    <3>5. WalkName(d, Follow, Stand(a, s)) = WalkName(d, Keep, Stand(a, s))
      BY <3>3, <3>4, StepEither
    <3>6. QED
      BY <2>1, <2>2, <3>1, <3>5
  <2>5. QED
    BY <2>3, <2>4
<1>4. \A k \in 0..Fuel : k \in J
  <2> HIDE DEF J
  <2>1. QED
    BY <1>2, <1>3, BoundedInduction, FuelAssumption
<1>5. T[Fuel] = S[Fuel]
  BY <1>1, <1>4
<1>6. QED
  BY <1>5 DEF Walk

\* Where nothing is below the target, every walk below it ends there or, by its
\* own names, below it.
LEMMA WalkDown ==
  ASSUME NEW e, NEW p, NEW r, NEW t, p \in Seq(Names), r \in Seq(Names), t \in Seq(Names),
         Leads(e, p, r), t # << >>, \A a : Kind(e, a) # "none" => ~IsStrictPrefix(r, a)
  PROVE  \E i \in 0..Len(t) : Walk(e, Then(p, t), Follow).at = Down(r, t, i)
<1> DEFINE T == Trail(e, p, Follow)
           S == Trail(e, Then(p, t), Follow)
           onWay(k)  == T[k].rest # << >> /\ S[k] = Stand(T[k].at, Then(T[k].rest, t))
           below(k)  == /\ T[k].rest = << >>
                        /\ \E i \in 0..Len(t) :
                             /\ S[k].at = Down(r, t, i)
                             /\ Fails(S[k]) \/ S[k] = Stand(Down(r, t, i), After(t, i))
           J == {k \in 0..Fuel : onWay(k) \/ below(k)}
<1>1. p \in Seq(Word) /\ t \in Seq(Word) /\ Then(p, t) \in Seq(Word) /\ IsDisk(e)
  BY NamesAreWords, ThenNames DEF Leads
<1>2. Down(r, t, 0) = r /\ Down(r, t, Len(t)) = Then(r, t) /\ After(t, 0) = t /\ 0 \in 0..Len(t)
  BY DownEnds
<1>3. 0 \in 0..Fuel /\ Fuel \in 0..Fuel
  BY FuelAssumption
<1>4. 0 \in J
  <2>1. T[0] = Stand(Root, p) /\ S[0] = Stand(Root, Then(p, t))
    BY TrailGoesOn
  <2>2. T[0].at = Root /\ T[0].rest = p /\ S[0].at = Root
    BY <2>1, StandFields
  <2>3. CASE p # << >>
    BY <1>3, <2>1, <2>2, <2>3
  <2>4. CASE p = << >>
    <3>1. r = Root
      <4> HIDE DEF T
      <4>1. T[0].rest = << >> => T[0].at = r
        BY <1>3, WayStates DEF T
      <4>2. QED
        BY <2>2, <2>4, <4>1
    <3>1a. Then(p, t) = t
      BY <1>1, <2>4, ThenNames
    <3>2. S[0] = Stand(Down(r, t, 0), After(t, 0)) /\ S[0].at = Down(r, t, 0)
      BY <1>2, <2>1, <2>2, <3>1, <3>1a
    <3>3. QED
      BY <1>2, <1>3, <2>2, <2>4, <3>2
  <2>5. QED
    BY <2>3, <2>4
<1>5. ASSUME NEW k \in 0..(Fuel - 1), k \in J PROVE k + 1 \in J
  <2>1. k \in 0..Fuel /\ k + 1 \in 0..Fuel /\ S[k + 1] = WalkName(e, Follow, S[k])
    BY TrailGoesOn, FuelAssumption
  <2>2. CASE onWay(k)
    <3> DEFINE a == T[k].at
               s == T[k].rest
               b == T[k + 1].at
               u == T[k + 1].rest
               v == WalkName(e, Follow, Stand(a, Then(s, t)))
    <3>1. Steps(e, a, s, b, u) /\ s # << >>
      BY <2>2, WayGoesOn
    <3>2. s \in Seq(Word) /\ u \in Seq(Word) /\ (u = << >> => b = r)
      BY <2>1, WayStates
    <3>3. Kind(e, a) = "dir" /\ Kind(e, b) = "dir"
      BY <2>1 DEF Leads
    <3>4. S[k + 1] = v
      BY <2>1, <2>2
    <3>5. k + 1 \in J <=> (u # << >> /\ v = Stand(b, Then(u, t))) \/ below(k + 1)
      BY <2>1, <3>4
    <3>6. ASSUME u = << >>, v = Stand(b, Then(u, t)) PROVE below(k + 1)
      <4>1. Then(u, t) = t /\ b = r
        <5> HIDE DEF u, b
        <5>1. QED
          BY <1>1, <3>2, <3>6, ThenNames
      <4>2. S[k + 1] = Stand(Down(r, t, 0), After(t, 0))
        BY <1>2, <3>4, <3>6, <4>1
      <4>3. S[k + 1].at = Down(r, t, 0)
        BY <4>2, StandFields
      <4>4. QED
        BY <1>2, <3>6, <4>2, <4>3
    <3> HIDE DEF a, s, b, u, v, T, S, J, below
    <3>7. LinksKept(e, e)
      BY DEF LinksKept
    <3>8. "x" \in e[a].mode
      <4>1. PICK n \in Word, l \in Seq(Word) : Starts(s, n, l)
        BY <3>1, <3>2, StartsSome
      <4>2. WalkName(e, Follow, Stand(a, s)) = Stand(b, u)
        BY <3>1 DEF Steps
      <4>3. ~Fails(WalkName(e, Follow, Stand(a, s)))
        BY <4>2, StopFails
      <4>4. QED
        BY <4>1, <4>3, StepGoes
    <3>9. /\ Fails(v) \/ v = Stand(b, Then(u, t))
          /\ Kind(e, a) = "dir" /\ Kind(e, b) = "dir" /\ Fails(v) =>
               v.error = "EACCES" /\ "x" \notin e[a].mode
      BY <1>1, <3>1, <3>2, <3>3, <3>7, StepOnWay DEF v
    <3>10. v = Stand(b, Then(u, t))
      BY <3>3, <3>8, <3>9
    <3>11. QED
      BY <3>5, <3>6, <3>10
  <2>3. CASE below(k)
    <3>1. PICK i \in 0..Len(t) : /\ S[k].at = Down(r, t, i)
                                 /\ Fails(S[k]) \/ S[k] = Stand(Down(r, t, i), After(t, i))
      BY <2>3
    <3>2. T[k + 1].rest = << >>
      <4>1. T[k + 1] = WalkName(e, Follow, T[k])
        BY TrailGoesOn
      <4>2. T[k + 1] = T[k]
        BY <2>3, <4>1, StepStays DEF Over
      <4>3. QED
        BY <2>3, <4>2
    <3>3. CASE Over(S[k])
      <4>1. S[k + 1] = S[k]
        BY <2>1, <3>3, StepStays
      <4>2. QED
        BY <2>1, <3>1, <3>2, <4>1
    <3>4. CASE ~Over(S[k])
      <4> DEFINE a  == Down(r, t, i)
                 s  == After(t, i)
                 n  == t[i + 1]
                 l  == After(t, i + 1)
                 to == Into(a, n)
                 v  == WalkName(e, Follow, Stand(a, s))
      <4>1. S[k] = Stand(a, s) /\ i # Len(t)
        <5>1. ~Fails(S[k]) /\ S[k].rest # << >>
          BY <3>4 DEF Over
        <5>2. S[k] = Stand(a, s)
          BY <3>1, <5>1
        <5>3. s # << >>
          BY <5>1, <5>2, StandFields
        <5>4. QED
          BY <5>2, <5>3, AfterNames
      <4>2. i \in 0..(Len(t) - 1)
        BY <1>2, <4>1
      <4>3. n \in Names /\ Starts(s, n, l) /\ to = Down(r, t, i + 1) /\ i + 1 \in 0..Len(t)
        BY <4>2, OneNameMore
      <4>4. S[k + 1] = v
        BY <2>1, <4>1
      <4>5. v.at = a /\ Fails(v) => below(k + 1)
        BY <3>2, <4>4
      <4>6. v = Stand(to, l) => below(k + 1)
        BY <3>2, <4>3, <4>4, StandFields
      <4>7. Kind(e, to) = "none"
        <5> DEFINE c == SubSeq(t, 1, i + 1)
        <5>1. c \in Seq(Names) /\ c # << >>
          BY <4>2
        <5>2. to = Then(r, c)
          BY <4>3 DEF Down, Then
        <5> HIDE DEF c, to
        <5>3. IsStrictPrefix(r, to)
          BY <5>1, <5>2, PrefixThen
        <5>4. QED
          BY <1>1, <5>3, KindOf
      <4> HIDE DEF a, s, n, l, to, v, T, S, J, below, onWay
      <4>8. CASE Kind(e, a) # "dir"
        <5>1. v = Stop(a, s, "ENOTDIR")
          BY <4>3, <4>8, StepNoDirectory DEF v
        <5>2. v.at = a /\ Fails(v)
          BY <5>1, StopFails, StopFields
        <5>3. QED
          BY <2>1, <4>5, <5>2 DEF J
      <4>9. CASE Kind(e, a) = "dir" /\ "x" \notin e[a].mode
        <5>1. v = Stop(a, s, "EACCES")
          BY <4>3, <4>9, StepDenied DEF v
        <5>2. v.at = a /\ Fails(v)
          BY <5>1, StopFails, StopFields
        <5>3. QED
          BY <2>1, <4>5, <5>2 DEF J
      <4>10. CASE Kind(e, a) = "dir" /\ "x" \in e[a].mode /\ l # << >>
        <5>1. v = Stop(a, s, "ENOENT")
          BY <4>3, <4>7, <4>10, StepMissing DEF v, to
        <5>2. v.at = a /\ Fails(v)
          BY <5>1, StopFails, StopFields
        <5>3. QED
          BY <2>1, <4>5, <5>2 DEF J
      <4>11. CASE Kind(e, a) = "dir" /\ "x" \in e[a].mode /\ l = << >>
        <5>1. v = Stand(to, l)
          BY <4>3, <4>7, <4>11, StepEnters DEF v, to
        <5>2. QED
          BY <2>1, <4>6, <5>1 DEF J
      <4>12. QED
        BY <4>8, <4>9, <4>10, <4>11
    <3>5. QED
      BY <3>3, <3>4
  <2>4. QED
    BY <1>5, <2>2, <2>3
<1>6. \A k \in 0..Fuel : k \in J
  <2> HIDE DEF J
  <2>1. QED
    BY <1>4, <1>5, BoundedInduction, FuelAssumption
<1>7. T[Fuel].rest = << >>
  BY StandFields DEF Leads
<1>8. below(Fuel)
  BY <1>3, <1>6, <1>7
<1>9. Walk(e, Then(p, t), Follow).at = S[Fuel].at
  BY <1>1, WalkEnds
<1>10. QED
  BY <1>8, <1>9

\* What is new on y is on the way to r, and nothing is below r.
NewAbove(d, y, r) ==
  /\ \A a : Kind(y, a) # "none" /\ Kind(d, a) = "none" => IsPrefix(a, r)
  /\ \A a : Kind(y, a) # "none" => ~IsStrictPrefix(r, a)
NoneNew(d, y) == \A a : Kind(y, a) # "none" => Kind(d, a) # "none"

\* A directory put at the end of a walk is where the target's name leads then.
LEMMA PutLeads ==
  ASSUME NEW y, NEW q, IsDisk(y), q \in Seq(Word), ~Fails(Walk(y, q, Keep)),
         Kind(y, Walk(y, q, Keep).at) = "none"
  PROVE  LET a == Walk(y, q, Keep).at
             z == With(y, a, Directory(Full))
         IN  /\ Leads(z, q, a) /\ Kind(z, a) = "dir"
             /\ \A b : b # a => Same(y, z, b)
<1> DEFINE w == Walk(y, q, Keep)
           a == w.at
           z == With(y, a, Directory(Full))
<1>1. a \in Seq(Names) /\ a # Root /\ Kind(y, Front(a)) = "dir" /\ Kind(y, a) = "none"
  BY WalkFound
<1>2. ~Fails(w) /\ q \in Seq(Word) /\ IsDisk(y)
  OBVIOUS
<1> HIDE DEF a
<1>3. /\ Adds(y, z) /\ Kind(z, a) = "dir" /\ \A b : b # a => Same(y, z, b)
  BY <1>1, AddsOne
<1> HIDE DEF z
<1>4. IsDisk(z) /\ Carries(y, z) /\ \A b : Kind(y, b) = "none" => Kind(z, b) # "symlink"
  BY <1>1, <1>3 DEF Adds, Same, Carries
<1>5. Walk(z, q, Keep) = w
  BY <1>4, WalkKept
<1>6. Kind(z, Walk(z, q, Keep).at) = "dir" /\ ~Fails(Walk(z, q, Keep))
  BY <1>3, <1>5 DEF a
<1>7. Walk(z, q, Follow) = w
  BY <1>4, <1>5, <1>6, FollowKeep
<1>8. Leads(z, q, Walk(z, q, Follow).at)
  <2>1. ~Fails(Walk(z, q, Follow)) /\ Kind(z, Walk(z, q, Follow).at) = "dir"
    BY <1>5, <1>6, <1>7
  <2>2. QED
    BY <1>4, <2>1, WalkLeads
<1>9. Leads(z, q, a)
  BY <1>7, <1>8 DEF a
<1>10. QED
  BY <1>3, <1>9 DEF a, z

LEMMA PrefixSelf ==
  ASSUME NEW a \in Seq(Names)
  PROVE  IsPrefix(a, a) /\ ~IsStrictPrefix(a, a)
<1>1. << >> \in Seq(Names)
  OBVIOUS
<1>2. Then(a, << >>) = a
  BY <1>1, ThenNames
<1>3. IsPrefix(a, a)
  BY <1>1, <1>2, PrefixThen
<1>4. QED
  BY <1>3 DEF IsStrictPrefix

\* Nothing is below what is missing.
LEMMA NothingBelow ==
  ASSUME NEW d, NEW a, NEW b, IsDisk(d), a \in Seq(Names), Kind(d, a) = "none",
         IsStrictPrefix(a, b), b \in Seq(Names)
  PROVE  Kind(d, b) = "none"
<1>1. PICK c \in Seq(Names) : b = Then(a, c)
  BY PrefixThen
<1>2. QED
  BY <1>1, Ancestors

LEMMA MadeLeads ==
  ASSUME NEW d, IsDisk(d)
  PROVE  \A q \in Seq(Names) : LET m == MkdirAll(d, q) IN
           ~Fails(m) => \E r \in Seq(Names) :
             Leads(m.disk, q, r) /\ (NoneNew(d, m.disk) \/ NewAbove(d, m.disk, r))
<1> DEFINE P(q) == LET m == MkdirAll(d, q) IN
             ~Fails(m) => \E r \in Seq(Names) :
               Leads(m.disk, q, r) /\ (NoneNew(d, m.disk) \/ NewAbove(d, m.disk, r))
           T == {q \in Seq(Names) : P(q)}
<1>1. << >> \in T
  <2>1. << >> \in Seq(Names) /\ Root \in Seq(Names)
    BY RootOfDisk
  <2>2. MkdirAll(d, << >>).disk = d
    BY MkdirRoot, Results
  <2>3. Leads(d, << >>, Root)
    BY LeadsRoot
  <2>4. NoneNew(d, d)
    BY DEF NoneNew
  <2>5. P(<< >>)
    BY <2>1, <2>2, <2>3, <2>4
  <2>6. QED
    BY <2>1, <2>5
<1>2. ASSUME NEW q \in Seq(Names), NEW n \in Names, q \in T PROVE Into(q, n) \in T
  <2> DEFINE t == Into(q, n)
             m == MkdirAll(d, q)
             y == m.disk
             v == MkdirOne(m, t)
             w == Walk(y, t, Keep)
             f == Walk(y, t, Follow)
  <2>1. t \in Seq(Names) /\ t \in Seq(Word) /\ MkdirAll(d, t) = v
    BY IntoPath, MkdirFront, NamesAreWords
  <2>2. Adds(d, y) /\ IsDisk(y)
    BY MkdirAdds DEF Adds
  <2>3. /\ ~Fails(v) => ~Fails(m)
        /\ \/ Fails(v)
           \/ Stat(y, t) = "dir" /\ v = m
           \/ ~Fails(w) /\ Kind(y, w.at) = "none" /\ v = Done(With(y, w.at, Directory(Full)))
    <3>1. \/ (Fails(m) \/ Stat(y, t) = "dir") /\ v = m
          \/ ~Fails(m) /\ Fails(v)
          \/ /\ ~Fails(m) /\ ~Fails(w) /\ Kind(y, w.at) = "none"
             /\ v = Done(With(y, w.at, Directory(Full)))
      BY <2>1, <2>2, MkdirOneIs
    <3> HIDE DEF v, m, w, y, t
    <3>2. QED
      BY <3>1
  <2>4. ASSUME ~Fails(v)
        PROVE  \E r \in Seq(Names) : Leads(v.disk, t, r) /\ (NoneNew(d, v.disk) \/ NewAbove(d, v.disk, r))
    <3>1. PICK r \in Seq(Names) : Leads(y, q, r) /\ (NoneNew(d, y) \/ NewAbove(d, y, r))
      BY <1>2, <2>3, <2>4
    <3> DEFINE u == << n >>
               to == Then(r, u)
    <3>2. t = Then(q, u) /\ u \in Seq(Names) /\ u # << >> /\ to \in Seq(Names)
      <4>1. u \in Seq(Names) /\ u # << >>
        OBVIOUS
      <4>2. t = Then(q, u)
        BY IntoThen
      <4> HIDE DEF u, t
      <4>3. to \in Seq(Names)
        BY <4>1, ThenNames
      <4>4. QED
        BY <4>1, <4>2, <4>3
    <3>2a. Down(r, u, 1) = to /\ Len(u) = 1
      BY DEF Down, Then
    <3> HIDE DEF u, to, t
    <3>3. Reached(y, q, r, y) /\ LinksKept(y, y) /\ Open(y, q, y)
      BY <3>1, LeadsReached, ReachedTarget DEF Reached
    <3>4. ASSUME NewAbove(d, y, r)
          PROVE  Kind(y, to) = "none" /\ (~Fails(f) => f.at = to) /\ (~Fails(w) => w.at = to)
      <4>1. IsStrictPrefix(r, to)
        BY <3>2, PrefixThen DEF to
      <4>2. Kind(y, to) = "none"
        BY <3>4, <4>1 DEF NewAbove
      <4>3. Clear(y, r, u, Follow) /\ Clear(y, r, u, Keep)
        BY <3>2a, <4>2 DEF Clear
      <4>4. ~Fails(Walk(y, Then(q, u), Follow)) => Walk(y, Then(q, u), Follow).at = Then(r, u)
        BY <2>2, <3>1, <3>2, <3>3, <4>3, WalkBelow
      <4>5. ~Fails(Walk(y, Then(q, u), Keep)) => Walk(y, Then(q, u), Keep).at = Then(r, u)
        BY <2>2, <3>1, <3>2, <3>3, <4>3, WalkBelow
      <4>6. QED
        BY <3>2, <4>2, <4>4, <4>5 DEF to
    <3>5. CASE Stat(y, t) = "dir" /\ v = m
      <4>1. ~Fails(f) /\ Kind(y, f.at) = "dir"
        BY <2>1, <2>2, <3>5, StatDir
      <4>2. Leads(y, t, f.at) /\ f.at \in Seq(Names)
        BY <2>1, <2>2, <4>1, WalkLeads, WalkFound
      <4>3. NoneNew(d, y)
        BY <3>1, <3>4, <4>1
      <4>4. v.disk = y
        BY <3>5
      <4> HIDE DEF v, y, f
      <4>5. QED
        BY <4>2, <4>3, <4>4
    <3>6. CASE ~Fails(w) /\ Kind(y, w.at) = "none" /\ v = Done(With(y, w.at, Directory(Full)))
      <4> DEFINE a == w.at
                 z == With(y, a, Directory(Full))
      <4>1. Leads(z, t, a) /\ Kind(z, a) = "dir" /\ \A b : b # a => Same(y, z, b)
        BY <2>1, <2>2, <3>6, PutLeads
      <4>2. v.disk = z /\ a \in Seq(Names) /\ Kind(y, a) = "none"
        BY <2>1, <2>2, <3>6, Results, WalkFound
      <4>3. NewAbove(d, y, r) => a = to
        BY <3>4, <3>6
      <4> HIDE DEF v, y, f, w, a, z
      <4>4. IsDisk(z)
        BY <4>1 DEF Leads
      <4>5. ASSUME NEW b, Kind(z, b) # "none", Kind(d, b) = "none" PROVE IsPrefix(b, a)
        <5>1. CASE b = a
          BY <4>2, <5>1, PrefixSelf
        <5>2. CASE b # a
          <6>1. Kind(y, b) # "none"
            BY <4>1, <4>5, <5>2 DEF Same
          <6>2. NewAbove(d, y, r)
            BY <3>1, <4>5, <6>1 DEF NoneNew
          <6>3. IsPrefix(b, r) /\ b \in Seq(Names)
            BY <2>2, <4>5, <6>1, <6>2, KindOf DEF NewAbove
          <6>4. IsPrefix(b, to)
            BY <3>2, <6>3, PrefixMore DEF to
          <6>5. QED
            BY <4>3, <6>2, <6>4
        <5>3. QED
          BY <5>1, <5>2
      <4>6. ASSUME NEW b, Kind(z, b) # "none", IsStrictPrefix(a, b) PROVE FALSE
        <5>1. b # a
          BY <4>6 DEF IsStrictPrefix
        <5>2. Kind(y, b) # "none"
          BY <4>1, <4>6, <5>1 DEF Same
        <5>3. b \in Seq(Names)
          BY <2>2, <5>2, KindOf
        <5>4. QED
          BY <2>2, <4>2, <4>6, <5>2, <5>3, NothingBelow
      <4>7. NewAbove(d, z, a)
        BY <4>5, <4>6 DEF NewAbove
      <4>8. QED
        BY <4>1, <4>2, <4>7
    <3>7. QED
      BY <2>3, <2>4, <3>5, <3>6
  <2> HIDE DEF v, t
  <2>5. P(t)
    BY <2>1, <2>4
  <2> HIDE DEF P
  <2>6. QED
    BY <2>1, <2>5 DEF t
<1>3. \A q \in Seq(Names) : q \in T
  <2> HIDE DEF T
  <2>1. \A q \in Seq(Names) : \A n \in Names : q \in T => Into(q, n) \in T
    BY <1>2
  <2>2. QED
    BY <1>1, <2>1, PathInduction
<1>4. QED
  BY <1>3

\* A failed MkdirAll leaves the disk of the last directory that was made.
LEMMA MadeUpTo ==
  ASSUME NEW d, IsDisk(d)
  PROVE  \A p \in Seq(Names) : Fails(MkdirAll(d, p)) =>
           \E q, t \in Seq(Names) :
             /\ p = Then(q, t) /\ t # << >> /\ ~Fails(MkdirAll(d, q))
             /\ MkdirAll(d, p).disk = MkdirAll(d, q).disk
<1> DEFINE Up(p, q, t) == /\ p = Then(q, t) /\ t # << >> /\ ~Fails(MkdirAll(d, q))
                          /\ MkdirAll(d, p).disk = MkdirAll(d, q).disk
           P(p) == Fails(MkdirAll(d, p)) => \E q, t \in Seq(Names) : Up(p, q, t)
           T == {p \in Seq(Names) : P(p)}
<1>1. << >> \in T
  <2>1. ~Fails(MkdirAll(d, << >>)) /\ << >> \in Seq(Names)
    BY MkdirRoot, Results
  <2>2. QED
    BY <2>1
<1>2. ASSUME NEW s \in Seq(Names), NEW n \in Names, s \in T PROVE Into(s, n) \in T
  <2> DEFINE p == Into(s, n)
             m == MkdirAll(d, s)
             v == MkdirOne(m, p)
             u == << n >>
  <2>1. p \in Seq(Names) /\ p \in Seq(Word) /\ MkdirAll(d, p) = v
    BY IntoPath, MkdirFront, NamesAreWords
  <2>2. IsDisk(m.disk)
    BY MkdirAdds DEF Adds
  <2>3. u \in Seq(Names) /\ u # << >> /\ p = Then(s, u)
    <3>1. u \in Seq(Names) /\ u # << >>
      OBVIOUS
    <3>2. QED
      BY <3>1, IntoThen
  <2>4. Fails(v) => v.disk = m.disk
    BY <2>1, <2>2, MkdirOneIs, Results
  <2> HIDE DEF u, p
  <2>5. ASSUME Fails(v) PROVE \E q, t \in Seq(Names) : Up(p, q, t)
    <3>1. CASE ~Fails(m)
      <4>1. Up(p, s, u)
        BY <2>1, <2>3, <2>4, <2>5, <3>1
      <4>2. QED
        BY <2>3, <4>1
    <3>2. CASE Fails(m)
      <4>1. PICK q \in Seq(Names), t \in Seq(Names) : Up(s, q, t)
        BY <1>2, <3>2
      <4>2. p = Then(q, Then(t, u)) /\ Then(t, u) \in Seq(Names) /\ Then(t, u) # << >>
        BY <2>3, <4>1, ThenThen, ThenNames
      <4>3. Up(p, q, Then(t, u))
        BY <2>1, <2>4, <2>5, <4>1, <4>2
      <4>4. QED
        BY <4>2, <4>3
    <3>3. QED
      BY <3>1, <3>2
  <2> HIDE DEF v, Up
  <2>6. P(p)
    BY <2>1, <2>5
  <2> HIDE DEF P
  <2>7. QED
    BY <2>1, <2>6 DEF p
<1>3. \A q \in Seq(Names) : q \in T
  <2> HIDE DEF T
  <2>1. \A q \in Seq(Names) : \A n \in Names : q \in T => Into(q, n) \in T
    BY <1>2
  <2>2. QED
    BY <1>1, <2>1, PathInduction
<1>4. QED
  BY <1>3

LEMMA FirstLeads ==
  ASSUME NEW d, IsDisk(d), NEW p \in Seq(Names)
  PROVE  LET f == MkdirAll(d, p)
             r == Walk(f.disk, p, Follow).at
         IN  /\ r \in Seq(Names) /\ Adds(d, f.disk)
             /\ ~Fails(f) => Leads(f.disk, p, r)
             /\ \A a : Kind(f.disk, a) # "none" /\ Kind(d, a) = "none" => IsPrefix(a, r)
<1> DEFINE f == MkdirAll(d, p)
           e == f.disk
           r == Walk(e, p, Follow).at
<1>1. Adds(d, e) /\ IsDisk(e) /\ p \in Seq(Word)
  BY MkdirAdds, NamesAreWords DEF Adds
<1>2. r \in Seq(Names)
  BY <1>1, WalkEnds DEF Sound, Walker
<1>3. ASSUME ~Fails(f)
      PROVE  Leads(e, p, r) /\ \A a : Kind(e, a) # "none" /\ Kind(d, a) = "none" => IsPrefix(a, r)
  <2>1. PICK r2 \in Seq(Names) : Leads(e, p, r2) /\ (NoneNew(d, e) \/ NewAbove(d, e, r2))
    BY <1>3, MadeLeads
  <2>2. r = r2
    BY <2>1, LeadsWalk
  <2> HIDE DEF f, e, r
  <2>3. QED
    BY <2>1, <2>2 DEF NoneNew, NewAbove
<1>4. ASSUME Fails(f), NEW a, Kind(e, a) # "none", Kind(d, a) = "none" PROVE IsPrefix(a, r)
  <2>1. PICK q \in Seq(Names), t \in Seq(Names) :
          p = Then(q, t) /\ t # << >> /\ ~Fails(MkdirAll(d, q)) /\ e = MkdirAll(d, q).disk
    BY <1>4, MadeUpTo
  <2>2. PICK r2 \in Seq(Names) : Leads(e, q, r2) /\ (NoneNew(d, e) \/ NewAbove(d, e, r2))
    BY <2>1, MadeLeads
  <2> HIDE DEF e, f
  <2>3. NewAbove(d, e, r2)
    BY <1>4, <2>2 DEF NoneNew
  <2>4. \A b : Kind(e, b) # "none" => ~IsStrictPrefix(r2, b)
    BY <2>3 DEF NewAbove
  <2>5. PICK i \in 0..Len(t) : Walk(e, Then(q, t), Follow).at = Down(r2, t, i)
    BY <2>1, <2>2, <2>4, WalkDown
  <2>6. r = Down(r2, t, i)
    BY <2>1, <2>5
  <2> DEFINE c == SubSeq(t, 1, i)
  <2>7. c \in Seq(Names) /\ Down(r2, t, i) = Then(r2, c)
    <3>1. c \in Seq(Names)
      OBVIOUS
    <3>2. QED
      BY <3>1 DEF Down, Then
  <2> HIDE DEF c, r
  <2>8. IsPrefix(a, r2) /\ a \in Seq(Names)
    BY <1>1, <1>4, <2>3, KindOf DEF NewAbove
  <2>9. IsPrefix(a, Then(r2, c))
    BY <2>7, <2>8, PrefixMore
  <2>10. QED
    BY <2>6, <2>7, <2>9
<1>5. QED
  BY <1>1, <1>2, <1>3, <1>4
-----------------------------------------------------------------------------
(***************************************************************************)
(* What the other calls do below the target.                               *)
(***************************************************************************)

\* A file as WriteFile left it, when d has none there or one of its kind.
Leaves(d, y, q, n) == IsDisk(y) /\ SetAt(d, y, q, n) /\ Kind(d, q) \in {"none", n.kind}

LEMMA FileIsNode ==
  ASSUME NEW m, NEW c
  PROVE  IsNode(File(m, c)) /\ File(m, c).kind = "file" /\ IsNode(Directory(m))
<1>1. /\ File(m, c).kind = "file" /\ File(m, c).mode = m /\ File(m, c).content = c
      /\ Directory(m).mode = m
  BY DEF File, Directory, Node
<1>2. File(m, c) = File(File(m, c).mode, File(m, c).content) /\ Directory(m) = Directory(Directory(m).mode)
  BY <1>1
<1>3. QED
  BY <1>1, <1>2 DEF IsNode

\* WriteFile: the file is new, or has new content and the mode it had.
LEMMA WriteIs ==
  ASSUME NEW d, NEW u, IsDisk(d), u \in Seq(Word), NEW mode, NEW content
  PROVE  LET w == Walk(d, u, Follow)
             v == WriteFile(d, u, mode, content)
         IN  \/ /\ Fails(v) /\ v.disk = d
                /\ v.error = "EACCES" =>
                     ~Permits(d) \/ (~Fails(w) /\ Kind(d, w.at) = "file" /\ "w" \notin d[w.at].mode)
             \/ /\ v.error = NoError /\ ~Fails(w)
                /\ \E m : Leaves(d, v.disk, w.at, File(m, content))
<1> DEFINE w == Walk(d, u, Follow)
           q == w.at
           v == WriteFile(d, u, mode, content)
           n == File(mode, content)
<1>2. q \in Seq(Names)
  BY WalkEnds DEF Sound, Walker
<1>4. ~Fails(w) /\ Kind(d, q) = "none" => q # Root /\ Kind(d, Front(q)) = "dir"
  BY WalkFound
<1>4a. ~Fails(w) => Kind(d, q) # "symlink"
  BY WalkFound
<1>5. Permits(d) => w.error # "EACCES"
  BY WalkPermits
<1>6. v = IF Fails(w) THEN Failed(d, w.error)
          ELSE IF Kind(d, q) = "none" THEN Put(d, w, n)
          ELSE IF Kind(d, q) = "dir" THEN Failed(d, "EISDIR")
          ELSE IF "w" \notin d[q].mode THEN Failed(d, "EACCES")
          ELSE Done([d EXCEPT ![q].content = content])
  BY DEF WriteFile
<1> HIDE DEF q, w, v
<1>7. CASE Fails(w)
  <2>1. v = Failed(d, w.error) /\ w.error # NoError
    BY <1>6, <1>7 DEF Fails
  <2>2. Fails(v) /\ v.disk = d /\ v.error = w.error
    BY <2>1, Results
  <2>3. QED
    BY <1>5, <2>2 DEF v, w, q
<1>8. CASE ~Fails(w) /\ Kind(d, q) = "none"
  <2>1. v = Put(d, w, n) /\ w.at = q
    BY <1>6, <1>8 DEF q
  <2>2. CASE "w" \in d[Front(q)].mode
    <3> DEFINE y == With(d, q, n)
    <3>1. v = Done(y)
      BY <2>1, <2>2, PutIs
    <3>2. SetAt(d, y, q, n)
      BY SetAtForms
    <3>3. IsNode(n) /\ n.kind = "file"
      BY FileIsNode
    <3> HIDE DEF y, n
    <3>4. IsDisk(y)
      BY <1>2, <1>4, <1>8, <3>2, <3>3, SetAtDisk
    <3>5. Leaves(d, y, q, n)
      BY <1>8, <3>2, <3>4 DEF Leaves
    <3>6. v.error = NoError /\ v.disk = y
      BY <3>1, Results
    <3>7. QED
      BY <1>8, <3>5, <3>6 DEF v, w, q, n
  <2>3. CASE "w" \notin d[Front(q)].mode
    <3>1. v = Failed(d, "EACCES")
      BY <2>1, <2>3, PutIs
    <3>2. Fails(v) /\ v.disk = d
      BY <3>1, Results, StopFails
    <3>3. ~Permits(d)
      BY <1>4, <1>8, <2>3, PermitsAll
    <3>4. QED
      BY <3>2, <3>3 DEF v, w, q
  <2>4. QED
    BY <2>2, <2>3
<1>9. CASE ~Fails(w) /\ Kind(d, q) = "dir"
  <2>1. v = Failed(d, "EISDIR")
    BY <1>6, <1>9
  <2>1a. "EISDIR" # NoError
    BY CallErrors
  <2>2. Fails(v) /\ v.disk = d /\ v.error = "EISDIR"
    BY <2>1, <2>1a, Results
  <2>3. QED
    BY <2>2 DEF v, w, q
<1>10. CASE ~Fails(w) /\ Kind(d, q) = "file" /\ "w" \notin d[q].mode
  <2>1. v = Failed(d, "EACCES")
    BY <1>6, <1>10
  <2>2. Fails(v) /\ v.disk = d
    BY <2>1, Results, StopFails
  <2>3. QED
    BY <1>10, <2>2 DEF v, w, q
<1>11. CASE ~Fails(w) /\ Kind(d, q) = "file" /\ "w" \in d[q].mode
  <2> DEFINE y == [d EXCEPT ![q].content = content]
             k == [d[q] EXCEPT !.content = content]
  <2>1. v = Done(y)
    BY <1>6, <1>11
  <2>2. q \in DOMAIN d /\ IsNode(d[q]) /\ d[q].kind = "file"
    BY <1>11, KindOf
  <2>3. SetAt(d, y, q, k)
    BY <2>2, SetAtForms
  <2>4. k = File(d[q].mode, content)
    <3> DEFINE node == d[q]
    <3>1. IsNode(node) /\ node.kind = "file"
      BY <2>2
    <3> HIDE DEF node
    <3>2. [node EXCEPT !.content = content] = File(node.mode, content)
      BY <3>1, NodeContent
    <3>3. QED
      BY <3>2 DEF node
  <2> HIDE DEF k
  <2>5. IsNode(k) /\ k.kind = "file"
    BY <2>4, FileIsNode
  <2> HIDE DEF y, k
  <2>6. IsDisk(y)
    BY <1>2, <1>11, <2>3, <2>5, SetAtDisk
  <2>7. Leaves(d, y, q, k)
    BY <1>11, <2>3, <2>5, <2>6 DEF Leaves
  <2>8. v.error = NoError /\ v.disk = y
    BY <2>1, Results
  <2>9. QED
    BY <1>11, <2>4, <2>7, <2>8 DEF v, w, q
<1>12. Kind(d, q) \in {"none", "dir", "file", "symlink"}
  BY KindOf
<1>13. QED
  BY <1>4a, <1>7, <1>8, <1>9, <1>10, <1>11, <1>12

\* Chmod: what is there has another mode.
LEMMA ChmodIs ==
  ASSUME NEW d, NEW u, IsDisk(d), u \in Seq(Word), NEW mode
  PROVE  LET w == Walk(d, u, Follow)
             v == Chmod(d, u, mode)
         IN  \/ Fails(v) /\ v.disk = d /\ (Fails(w) \/ Kind(d, w.at) = "none")
             \/ /\ v.error = NoError /\ ~Fails(w) /\ Kind(d, w.at) # "none" /\ IsDisk(v.disk)
                /\ SetAt(d, v.disk, w.at, [d[w.at] EXCEPT !.mode = mode])
<1> DEFINE w == Walk(d, u, Follow)
           q == w.at
           v == Chmod(d, u, mode)
<1>1. q \in Seq(Names)
  BY WalkEnds DEF Sound, Walker
<1>2. ~Fails(w) => Kind(d, q) # "symlink"
  BY WalkFound
<1>3. v = IF Fails(w) THEN Failed(d, w.error)
          ELSE IF Kind(d, q) = "none" THEN Failed(d, "ENOENT")
          ELSE Done([d EXCEPT ![q].mode = mode])
  BY DEF Chmod
<1> HIDE DEF q, w, v
<1>4. CASE Fails(w)
  <2>1. v = Failed(d, w.error) /\ w.error # NoError
    BY <1>3, <1>4 DEF Fails
  <2>2. Fails(v) /\ v.disk = d
    BY <2>1, Results
  <2>3. QED
    BY <1>4, <2>2 DEF v, w
<1>5. CASE ~Fails(w) /\ Kind(d, q) = "none"
  <2>1. v = Failed(d, "ENOENT")
    BY <1>3, <1>5
  <2>2. Fails(v) /\ v.disk = d
    BY <2>1, Results, StopFails
  <2>3. QED
    BY <1>5, <2>2 DEF v, w, q
<1>6. CASE ~Fails(w) /\ Kind(d, q) # "none"
  <2> DEFINE y == [d EXCEPT ![q].mode = mode]
             k == [d[q] EXCEPT !.mode = mode]
             node == d[q]
  <2>1. v = Done(y)
    BY <1>3, <1>6
  <2>2. q \in DOMAIN d /\ IsNode(node) /\ node.kind = Kind(d, q) /\ node.kind \in {"dir", "file"}
    BY <1>2, <1>6, KindOf
  <2>3. SetAt(d, y, q, k)
    BY <2>2, SetAtForms
  <2>4. k = [node EXCEPT !.mode = mode]
    OBVIOUS
  <2> HIDE DEF y, k, node
  <2>5. k = Directory(mode) \/ k = File(mode, node.content)
    BY <2>2, <2>4, NodeMode
  <2>6. IsNode(k)
    BY <2>5, FileIsNode
  <2>7. k.kind = node.kind
    BY <2>4, <2>2 DEF IsNode, Directory, File, Symlink, Node
  <2>8. IsDisk(y)
    BY <1>1, <2>2, <2>3, <2>6, <2>7, SetAtDisk
  <2>9. v.error = NoError /\ v.disk = y
    BY <2>1, Results
  <2>10. QED
    BY <1>6, <2>3, <2>8, <2>9 DEF v, w, q, k, node
<1>7. QED
  BY <1>4, <1>5, <1>6

LEMMA SetAtAgain ==
  ASSUME NEW d, NEW y, NEW z, NEW q, NEW n, NEW k, SetAt(d, y, q, n), SetAt(y, z, q, k)
  PROVE  SetAt(d, z, q, k)
BY DEF SetAt

\* writeFile: unless it fails, the file is as the entry has it.  Its mode can be
\* set once it is written.
LEMMA WrittenIs ==
  ASSUME NEW d, NEW u, NEW e, IsDisk(d), u \in Seq(Word)
  PROVE  LET w == Walk(d, u, Follow)
             v == Written(d, u, e)
         IN  \/ /\ Fails(v) /\ v.disk = d
                /\ v.error = "EACCES" =>
                     ~Permits(d) \/ (~Fails(w) /\ Kind(d, w.at) = "file" /\ "w" \notin d[w.at].mode)
             \/ /\ v.error = NoError /\ ~Fails(w)
                /\ Leaves(d, v.disk, w.at, File(Perm(e), e.content))
<1> DEFINE w == Walk(d, u, Follow)
           q == w.at
           x == WriteFile(d, u, Perm(e), e.content)
           y == x.disk
           c == Chmod(y, u, Perm(e))
           v == Written(d, u, e)
<1>1. v = IF ~Fails(x) THEN c ELSE x
  BY DEF Written
<1>2. \/ /\ Fails(x) /\ x.disk = d
         /\ x.error = "EACCES" =>
              ~Permits(d) \/ (~Fails(w) /\ Kind(d, w.at) = "file" /\ "w" \notin d[w.at].mode)
      \/ /\ x.error = NoError /\ ~Fails(w)
         /\ \E m : Leaves(d, x.disk, w.at, File(m, e.content))
  BY WriteIs
<1>3. CASE Fails(x)
  <2>1. v = x
    BY <1>1, <1>3
  <2> HIDE DEF x, v, w
  <2>2. QED
    BY <1>2, <1>3, <2>1 DEF v, w, Fails
<1>4. CASE ~Fails(x)
  <2>1. PICK m : Leaves(d, y, q, File(m, e.content)) /\ ~Fails(w)
    BY <1>2, <1>4
  <2> DEFINE n == File(m, e.content)
  <2>2. n.kind = "file" /\ n = File(n.mode, n.content) /\ n.content = e.content /\ IsNode(n)
    <3>1. n.kind = "file" /\ n.mode = m /\ n.content = e.content
      BY DEF File, Node
    <3>2. QED
      BY <3>1, FileIsNode
  <2>3. v = c
    BY <1>1, <1>4
  <2>4. q \in Seq(Names)
    BY WalkEnds DEF Sound, Walker
  <2> HIDE DEF n, y
  <2>5. IsDisk(y) /\ SetAt(d, y, q, n) /\ Kind(d, q) \in {"none", "file"}
    BY <2>1, <2>2 DEF Leaves, n
  <2>6. Kind(y, q) = "file" /\ y[q] = n /\ \A a : a # q => Same(d, y, a)
    BY <2>2, <2>5, SetAtKinds
  <2> HIDE DEF q
  <2>7. Carries(d, y) /\ \A a : Kind(d, a) = "none" => Kind(y, a) # "symlink"
    BY <2>5, <2>6 DEF Carries, Same
  <2>8. Walk(y, u, Follow) = w
    BY <2>1, <2>5, <2>7, WalkKept
  <2> HIDE DEF w, c, v, x
  <2>9. \/ Fails(c) /\ c.disk = y /\ (Fails(w) \/ Kind(y, w.at) = "none")
        \/ /\ c.error = NoError /\ ~Fails(w) /\ Kind(y, w.at) # "none" /\ IsDisk(c.disk)
           /\ SetAt(y, c.disk, w.at, [y[w.at] EXCEPT !.mode = Perm(e)])
    <3>1. LET w2 == Walk(y, u, Follow) IN
          \/ Fails(c) /\ c.disk = y /\ (Fails(w2) \/ Kind(y, w2.at) = "none")
          \/ /\ c.error = NoError /\ ~Fails(w2) /\ Kind(y, w2.at) # "none" /\ IsDisk(c.disk)
             /\ SetAt(y, c.disk, w2.at, [y[w2.at] EXCEPT !.mode = Perm(e)])
      BY <2>5, ChmodIs DEF c
    <3>2. QED
      BY <2>8, <3>1
  <2> DEFINE k == [y[q] EXCEPT !.mode = Perm(e)]
  <2>10. c.error = NoError /\ IsDisk(c.disk) /\ SetAt(y, c.disk, q, k)
    BY <2>1, <2>6, <2>9 DEF q
  <2>11. k = File(Perm(e), e.content)
    <3>1. k = [n EXCEPT !.mode = Perm(e)]
      BY <2>6
    <3>2. [n EXCEPT !.mode = Perm(e)] = File(Perm(e), n.content)
      BY <2>2, NodeMode
    <3>3. QED
      BY <2>2, <3>1, <3>2
  <2> HIDE DEF k
  <2>12. SetAt(d, c.disk, q, k)
    BY <2>5, <2>10, SetAtAgain
  <2>13. k.kind = "file"
    BY <2>11, FileIsNode
  <2>14. Leaves(d, c.disk, q, k)
    BY <2>5, <2>10, <2>12, <2>13 DEF Leaves
  <2>15. QED
    BY <2>1, <2>3, <2>10, <2>11, <2>14 DEF v, w, q
<1>5. QED
  BY <1>3, <1>4

\* RemoveNode: what is there is removed, if there is nothing below it.
LEMMA RemoveIs ==
  ASSUME NEW d, NEW u, IsDisk(d), u \in Seq(Word)
  PROVE  LET w == Walk(d, u, Keep)
             v == RemoveNode(d, u)
         IN  \/ Fails(v) /\ v.disk = d /\ (v.error = "EACCES" => ~Permits(d))
             \/ /\ v.error = NoError /\ ~Fails(w) /\ w.at # Root /\ IsDisk(v.disk)
                /\ RemovedAt(d, v.disk, w.at)
<1> DEFINE w == Walk(d, u, Keep)
           q == w.at
           v == RemoveNode(d, u)
           y == Restrict(d, DOMAIN d \ {q})
           holds == q = Root \/ \E a \in DOMAIN d : IsStrictPrefix(q, a)
<1>1. v = IF Fails(w) THEN Failed(d, w.error)
          ELSE IF Kind(d, q) = "none" THEN Failed(d, "ENOENT")
          ELSE IF holds THEN Failed(d, "ENOTEMPTY")
          ELSE Changed(d, w, y)
  BY DEF RemoveNode
<1>2. Permits(d) => w.error # "EACCES"
  BY WalkPermits
<1>3. RemovedAt(d, y, q)
  BY SetAtForms
<1>4. Changed(d, w, y) = IF "w" \in d[Front(q)].mode THEN Done(y) ELSE Failed(d, "EACCES")
  BY DEF Changed
<1>5. Kind(d, q) # "none" /\ q # Root => Kind(d, Front(q)) = "dir"
  BY KindOf
<1>5a. "ENOTEMPTY" # NoError
  BY CallErrors
<1> HIDE DEF q, w, v, y
<1>6. CASE Fails(w)
  <2>1. v = Failed(d, w.error) /\ w.error # NoError
    BY <1>1, <1>6 DEF Fails
  <2>2. Fails(v) /\ v.disk = d /\ v.error = w.error
    BY <2>1, Results
  <2>3. QED
    BY <1>2, <2>2 DEF v, w
<1>7. CASE ~Fails(w) /\ Kind(d, q) = "none"
  <2>1. v = Failed(d, "ENOENT")
    BY <1>1, <1>7
  <2>2. Fails(v) /\ v.disk = d /\ v.error = "ENOENT"
    BY <2>1, Results, StopFails
  <2>3. QED
    BY <2>2 DEF v
<1>8. CASE ~Fails(w) /\ Kind(d, q) # "none" /\ holds
  <2>1. v = Failed(d, "ENOTEMPTY")
    BY <1>1, <1>8
  <2>2. Fails(v) /\ v.disk = d /\ v.error = "ENOTEMPTY"
    BY <1>5a, <2>1, Results
  <2>3. QED
    BY <2>2 DEF v
<1>9. CASE ~Fails(w) /\ Kind(d, q) # "none" /\ ~holds
  <2>1. CASE "w" \in d[Front(q)].mode
    <3>1. v = Done(y)
      BY <1>1, <1>4, <1>9, <2>1
    <3>2. v.error = NoError /\ v.disk = y
      BY <3>1, Results
    <3>3. IsDisk(y)
      BY <1>3, <1>9, RemovedDisk
    <3>4. QED
      BY <1>3, <1>9, <3>2, <3>3 DEF v, w, q
  <2>2. CASE "w" \notin d[Front(q)].mode
    <3>1. v = Failed(d, "EACCES")
      BY <1>1, <1>4, <1>9, <2>2
    <3>2. Fails(v) /\ v.disk = d
      BY <3>1, Results, StopFails
    <3>3. ~Permits(d)
      BY <1>5, <1>9, <2>2, PermitsAll
    <3>4. QED
      BY <3>2, <3>3 DEF v
  <2>3. QED
    BY <2>1, <2>2
<1>10. QED
  BY <1>6, <1>7, <1>8, <1>9

\* MakeSymlink: the symlink is new.
LEMMA LinkIs ==
  ASSUME NEW d, NEW u, NEW link, IsDisk(d), u \in Seq(Word), link \in Seq(Word)
  PROVE  LET w == Walk(d, u, Keep)
             v == MakeSymlink(d, u, link)
         IN  \/ Fails(v) /\ v.disk = d /\ (v.error = "EACCES" => ~Permits(d))
             \/ /\ v.error = NoError /\ ~Fails(w) /\ Kind(d, w.at) = "none"
                /\ Leaves(d, v.disk, w.at, Symlink(link))
<1> DEFINE w == Walk(d, u, Keep)
           q == w.at
           v == MakeSymlink(d, u, link)
           n == Symlink(link)
           y == With(d, q, n)
<1>1. v = IF Fails(w) THEN Failed(d, w.error)
          ELSE IF Kind(d, q) # "none" THEN Failed(d, "EEXIST")
          ELSE Put(d, w, n)
  BY DEF MakeSymlink
<1>2. Permits(d) => w.error # "EACCES"
  BY WalkPermits
<1>3. SetAt(d, y, q, n)
  BY SetAtForms
<1>4. /\ "w" \in d[Front(q)].mode => Put(d, w, n) = Done(y)
      /\ "w" \notin d[Front(q)].mode => Put(d, w, n) = Failed(d, "EACCES")
  BY PutIs
<1>5. ~Fails(w) /\ Kind(d, q) = "none" => q \in Seq(Names) /\ q # Root /\ Kind(d, Front(q)) = "dir"
  BY WalkFound
<1>6. IsNode(n) /\ n.kind = "symlink"
  <2>1. n.kind = "symlink" /\ n.link = link
    BY DEF Symlink, Node
  <2>2. n = Symlink(n.link)
    BY <2>1
  <2>3. QED
    BY <2>1, <2>2 DEF IsNode
<1>6a. "EEXIST" # NoError
  BY CallErrors
<1> HIDE DEF q, w, v, y, n
<1>7. CASE Fails(w)
  <2>1. v = Failed(d, w.error) /\ w.error # NoError
    BY <1>1, <1>7 DEF Fails
  <2>2. Fails(v) /\ v.disk = d /\ v.error = w.error
    BY <2>1, Results
  <2>3. QED
    BY <1>2, <2>2 DEF v, w
<1>8. CASE ~Fails(w) /\ Kind(d, q) # "none"
  <2>1. v = Failed(d, "EEXIST")
    BY <1>1, <1>8
  <2>2. Fails(v) /\ v.disk = d /\ v.error = "EEXIST"
    BY <1>6a, <2>1, Results
  <2>3. QED
    BY <2>2 DEF v
<1>9. CASE ~Fails(w) /\ Kind(d, q) = "none"
  <2>1. CASE "w" \in d[Front(q)].mode
    <3>1. v = Done(y)
      BY <1>1, <1>4, <1>9, <2>1
    <3>2. v.error = NoError /\ v.disk = y
      BY <3>1, Results
    <3>3. IsDisk(y)
      BY <1>3, <1>5, <1>6, <1>9, SetAtDisk
    <3>4. Leaves(d, y, q, n)
      BY <1>3, <1>9, <3>3 DEF Leaves
    <3>5. QED
      BY <1>9, <3>2, <3>4 DEF v, w, q, n
  <2>2. CASE "w" \notin d[Front(q)].mode
    <3>1. v = Failed(d, "EACCES")
      BY <1>1, <1>4, <1>9, <2>2
    <3>2. Fails(v) /\ v.disk = d
      BY <3>1, Results, StopFails
    <3>3. ~Permits(d)
      BY <1>5, <1>9, <2>2, PermitsAll
    <3>4. QED
      BY <3>2, <3>3 DEF v
  <2>3. QED
    BY <2>1, <2>2
<1>10. QED
  BY <1>7, <1>8, <1>9

\* The paths above a path below r, told by that path or by itself.
LEMMA SubDown ==
  ASSUME NEW r \in Seq(Names), NEW t \in Seq(Names), NEW i \in 0..Len(t)
  PROVE  LET u == SubSeq(t, 1, i) IN
         /\ u \in Seq(Names) /\ Len(u) = i /\ Then(r, u) = Down(r, t, i)
         /\ \A j \in 0..i : /\ Down(r, u, j) = Down(r, t, j) /\ Down(r, t, j) \in Seq(Names)
                            /\ \E c \in Seq(Names) : Down(r, t, i) = Then(Down(r, t, j), c)
<1> DEFINE u == SubSeq(t, 1, i)
<1>1. u \in Seq(Names) /\ Len(u) = i /\ Len(t) \in Nat
  OBVIOUS
<1>2. \A j \in 0..i : SubSeq(u, 1, j) = SubSeq(t, 1, j)
  OBVIOUS
<1>3. Then(r, u) = Down(r, t, i)
  BY DEF Then, Down
<1> HIDE DEF u
<1>4. ASSUME NEW j \in 0..i
      PROVE  /\ Down(r, u, j) = Down(r, t, j) /\ Down(r, t, j) \in Seq(Names)
             /\ \E c \in Seq(Names) : Down(r, t, i) = Then(Down(r, t, j), c)
  <2>1. j \in 0..Len(u)
    BY <1>1
  <2>2. Down(r, u, j) \in Seq(Names) /\ Then(Down(r, u, j), After(u, j)) = Then(r, u)
    BY <1>1, <2>1, DownPath
  <2>3. After(u, j) \in Seq(Names)
    BY <1>1, <2>1, AfterNames
  <2>4. Down(r, u, j) = Down(r, t, j)
    BY <1>2 DEF Down
  <2>5. QED
    BY <1>3, <2>2, <2>3, <2>4
<1>5. QED
  BY <1>1, <1>3, <1>4 DEF u

LEMMA MinOfSome ==
  ASSUME NEW T \in SUBSET Nat, T # {}
  PROVE  Min(T) \in T /\ \A m \in T : Min(T) <= m
<1>1. \E n \in T : \A m \in T : n <= m
  BY SmallestNat
<1>2. QED
  BY <1>1 DEF Min

\* The refusal of an entry, without the functions it is told by.
LEMMA RefusalIs ==
  ASSUME NEW rel \in Seq(Names), rel # << >>
  PROVE  LET F(k) == Lstat(disk, Then(target, SubSeq(rel, 1, k)))
             bad  == {k \in 1..(Len(rel) - 1) : F(k) \notin {"dir", "file"}}
         IN  Refusal(rel) = IF bad = {} \/ F(Min(bad)) = "ENOENT" THEN NoError ELSE F(Min(bad))
<1> DEFINE F(k) == Lstat(disk, Then(target, SubSeq(rel, 1, k)))
           L == Len(rel) - 1
           bad == {k \in 1..L : F(k) \notin {"dir", "file"}}
           above == [k \in 1..L |-> target \o SubSeq(rel, 1, k)]
           found == [k \in 1..L |-> Lstat(disk, above[k])]
<1>1. Parents(rel) = above
  BY DEF Parents
<1>2. Refusal(rel) =
        LET f == [k \in DOMAIN above |-> Lstat(disk, above[k])]
            ends == {k \in DOMAIN f : f[k] \notin {"dir", "file"}}
        IN  IF ends = {} \/ f[Min(ends)] = "ENOENT" THEN NoError ELSE f[Min(ends)]
  BY <1>1 DEF Refusal
<1>3. DOMAIN above = 1..L /\ \A k \in 1..L : above[k] = Then(target, SubSeq(rel, 1, k))
  BY DEF Then
<1> HIDE DEF above
<1>4. DOMAIN found = 1..L /\ \A k \in 1..L : found[k] = F(k)
  BY <1>3
<1>5. Refusal(rel) =
        LET ends == {k \in DOMAIN found : found[k] \notin {"dir", "file"}}
        IN  IF ends = {} \/ found[Min(ends)] = "ENOENT" THEN NoError ELSE found[Min(ends)]
  BY <1>2, <1>3
<1> HIDE DEF found, F
<1>6. {k \in DOMAIN found : found[k] \notin {"dir", "file"}} = bad
  BY <1>4
<1>7. Refusal(rel) = IF bad = {} \/ found[Min(bad)] = "ENOENT" THEN NoError ELSE found[Min(bad)]
  BY <1>5, <1>6
<1>8. bad # {} => found[Min(bad)] = F(Min(bad))
  <2>1. SUFFICES ASSUME bad # {} PROVE found[Min(bad)] = F(Min(bad))
    OBVIOUS
  <2>2. L \in Int /\ bad \in SUBSET Nat
    OBVIOUS
  <2>3. Min(bad) \in bad
    BY <2>1, <2>2, MinOfSome
  <2>4. QED
    BY <1>4, <2>3
<1>9. QED
  BY <1>7, <1>8 DEF F

\* What Lstat tells of a path below the target, when nothing above it is a symlink.
LEMMA LstatBelow ==
  ASSUME NEW e, NEW p \in Seq(Names), NEW r \in Seq(Names), NEW d, Reached(e, p, r, d),
         NEW t \in Seq(Names), t # << >>, Clear(d, r, t, Keep)
  PROVE  LET f == Lstat(d, Then(p, t))
             k == Kind(d, Then(r, t))
         IN  /\ f # NoError /\ (Permits(d) => f # "EACCES")
             /\ k = "symlink" => f \notin {"dir", "file", "ENOENT"}
             /\ f = "ENOENT" => k = "none"
<1> DEFINE u == Then(p, t)
           w == Walk(d, u, Keep)
           f == Lstat(d, u)
           k == Kind(d, Then(r, t))
<1>1. IsDisk(d) /\ Leads(e, p, r) /\ LinksKept(e, d) /\ Passes(e, p, d) /\ Open(e, p, d)
  BY ReachedTarget DEF Reached
<1>2. u \in Seq(Names) /\ u \in Seq(Word)
  BY ThenNames, NamesAreWords
<1>3. (~Fails(w) => w.at = Then(r, t)) /\ (w.error = "ENOENT" => k = "none")
  BY <1>1, WalkBelow
<1>4. Fails(w) => w.error \in {"ENOTDIR", "EACCES", "ENOENT", "ELOOP"}
  BY <1>1, <1>2, WalkFails
<1>5. Permits(d) => w.error # "EACCES"
  BY <1>1, <1>2, WalkPermits
<1>6. f = IF Fails(w) THEN w.error ELSE IF Kind(d, w.at) = "none" THEN "ENOENT" ELSE Kind(d, w.at)
  BY DEF Lstat, Stated
<1>7. k \in {"none", "dir", "file", "symlink"}
  BY <1>1, KindOf
<1>8. /\ \A c \in {"ENOTDIR", "EACCES", "ENOENT", "ELOOP"} : c # NoError
      /\ \A c \in {"dir", "file", "symlink"} : c # NoError
  BY StopFails, CallErrors
<1> HIDE DEF w, f, u, k
<1>9. CASE Fails(w)
  <2>1. f = w.error /\ w.error \in {"ENOTDIR", "EACCES", "ENOENT", "ELOOP"}
    BY <1>4, <1>6, <1>9
  <2>2. QED
    BY <1>3, <1>5, <1>8, <2>1 DEF f, u, k
<1>10. CASE ~Fails(w)
  <2>1. f = IF k = "none" THEN "ENOENT" ELSE k
    BY <1>3, <1>6, <1>10 DEF k
  <2>2. QED
    BY <1>7, <1>8, <2>1 DEF f, u, k
<1>11. QED
  BY <1>9, <1>10

\* A path that is not refused has no symlink above it, below the target.
LEMMA Unrefused ==
  ASSUME NEW e, NEW r \in Seq(Names), target \in Seq(Names), Reached(e, target, r, disk),
         NEW rel \in Seq(Names), Refusal(rel) = NoError
  PROVE  \A i \in 1..(Len(rel) - 1) : Kind(disk, Down(r, rel, i)) # "symlink"
<1> DEFINE F(k) == Lstat(disk, Then(target, SubSeq(rel, 1, k)))
           K(k) == Kind(disk, Down(r, rel, k))
           L == Len(rel) - 1
           bad == {k \in 1..L : F(k) \notin {"dir", "file"}}
           links == {k \in 1..L : K(k) = "symlink"}
<1>1. SUFFICES ASSUME links # {} PROVE FALSE
  OBVIOUS
<1>2. Len(rel) \in Nat /\ L \in Int /\ links \in SUBSET Nat /\ bad \in SUBSET Nat /\ rel # << >>
  BY <1>1
<1>3. PICK i \in links : \A m \in links : i <= m
  BY <1>1, <1>2, SmallestNat
<1>4. i \in 1..L /\ K(i) = "symlink" /\ \A m \in 1..L : m < i => K(m) # "symlink"
  BY <1>2, <1>3
<1>5. ASSUME NEW m \in 1..L, m <= i
      PROVE  /\ F(m) # NoError /\ (K(m) = "symlink" => F(m) \notin {"dir", "file", "ENOENT"})
             /\ F(m) = "ENOENT" => K(m) = "none"
  <2> DEFINE u == SubSeq(rel, 1, m)
  <2>1. m \in 0..Len(rel)
    BY <1>2, <1>5
  <2>2. /\ u \in Seq(Names) /\ Len(u) = m /\ Then(r, u) = Down(r, rel, m)
        /\ \A j \in 0..m : Down(r, u, j) = Down(r, rel, j)
    BY <2>1, SubDown
  <2> HIDE DEF u
  <2>3. u # << >>
    BY <2>2, <1>5
  <2>4. Clear(disk, r, u, Keep)
    <3>1. ASSUME NEW j \in 1..m PROVE Kind(disk, Down(r, u, j)) = "symlink" => j = m
      BY <1>4, <1>5, <2>2, <3>1
    <3>2. QED
      BY <2>2, <3>1 DEF Clear, Keep, Follow
  <2>5. QED
    BY <2>2, <2>3, <2>4, LstatBelow DEF u
<1>6. i \in bad /\ F(i) # "ENOENT"
  BY <1>4, <1>5
<1>7. Min(bad) \in bad /\ \A m \in bad : Min(bad) <= m
  BY <1>2, <1>6, MinOfSome
<1>8. PICK m : m = Min(bad)
  OBVIOUS
<1>9. m \in 1..L /\ m <= i /\ F(m) # NoError
  BY <1>5, <1>6, <1>7, <1>8
<1>10. NoError = IF bad = {} \/ F(m) = "ENOENT" THEN NoError ELSE F(m)
  BY <1>2, <1>8, RefusalIs
<1>11. F(m) = "ENOENT"
  BY <1>6, <1>9, <1>10
<1>12. K(m) = "none"
  BY <1>5, <1>9, <1>11
<1>13. /\ \E c \in Seq(Names) : Down(r, rel, i) = Then(Down(r, rel, m), c)
       /\ Down(r, rel, m) \in Seq(Names)
  <2>1. i \in 0..Len(rel) /\ m \in 0..i
    BY <1>2, <1>4, <1>9
  <2>2. /\ Down(r, rel, m) \in Seq(Names)
        /\ \E c \in Seq(Names) : Down(r, rel, i) = Then(Down(r, rel, m), c)
    BY <2>1, SubDown
  <2>3. QED
    BY <2>2
<1>14. K(i) = "none"
  <2>1. IsDisk(disk)
    BY DEF Reached
  <2>2. QED
    BY <1>12, <1>13, <2>1, Ancestors
<1>15. QED
  BY <1>4, <1>14

\* Where every directory allows everything, no refusal is a denial.
LEMMA RefusalPermits ==
  ASSUME IsDisk(disk), Permits(disk), target \in Seq(Names), NEW rel \in Seq(Names)
  PROVE  Refusal(rel) # "EACCES"
<1>0. "EACCES" # NoError
  BY StopFails
<1>1. ASSUME NEW u \in Seq(Word) PROVE Lstat(disk, u) # "EACCES"
  <2> DEFINE w == Walk(disk, u, Keep)
  <2>1. w.error # "EACCES"
    BY <1>1, WalkPermits
  <2>2. Kind(disk, w.at) \in {"none", "dir", "file", "symlink"}
    BY KindOf
  <2>3. Lstat(disk, u) =
          IF Fails(w) THEN w.error ELSE IF Kind(disk, w.at) = "none" THEN "ENOENT" ELSE Kind(disk, w.at)
    BY DEF Lstat, Stated
  <2> HIDE DEF w
  <2>4. QED
    BY <2>1, <2>2, <2>3
<1>2. CASE rel # << >>
  <2> DEFINE F(k) == Lstat(disk, Then(target, SubSeq(rel, 1, k)))
             bad  == {k \in 1..(Len(rel) - 1) : F(k) \notin {"dir", "file"}}
  <2>1. Refusal(rel) = IF bad = {} \/ F(Min(bad)) = "ENOENT" THEN NoError ELSE F(Min(bad))
    BY <1>2, RefusalIs
  <2>2. bad = {} \/ (Min(bad) \in bad /\ bad \in SUBSET Nat)
    <3>1. bad \in SUBSET Nat
      OBVIOUS
    <3>2. QED
      BY <3>1, MinOfSome
  <2>3. CASE bad = {}
    BY <1>0, <2>1, <2>3
  <2>4. CASE bad # {}
    <3>1. PICK m : m = Min(bad)
      OBVIOUS
    <3>2. m \in 1..(Len(rel) - 1)
      BY <2>2, <2>4, <3>1
    <3>3. m \in 0..Len(rel)
      BY <3>2
    <3>4. SubSeq(rel, 1, m) \in Seq(Names)
      BY <3>3, SubDown
    <3>5. Then(target, SubSeq(rel, 1, m)) \in Seq(Word)
      BY <3>4, ThenNames, NamesAreWords
    <3>6. F(m) # "EACCES"
      BY <1>1, <3>5
    <3>7. QED
      BY <1>0, <2>1, <3>1, <3>6
  <2>5. QED
    BY <2>3, <2>4
<1>3. CASE rel = << >>
  <2> DEFINE above == IF target = Root THEN << >> ELSE << Front(target) >>
             found == [k \in DOMAIN above |-> Lstat(disk, above[k])]
             ends == {k \in DOMAIN found : found[k] \notin {"dir", "file"}}
  <2>1. Refusal(rel) = IF ends = {} \/ found[Min(ends)] = "ENOENT" THEN NoError ELSE found[Min(ends)]
    <3>1. Parents(rel) = above
      BY <1>3 DEF Parents
    <3>2. QED
      BY <3>1 DEF Refusal
  <2>2. CASE ends = {}
    BY <1>0, <2>1, <2>2
  <2>3. CASE ends # {}
    <3>1. DOMAIN above \in SUBSET Nat /\ DOMAIN found = DOMAIN above
      OBVIOUS
    <3>2. PICK m : m = Min(ends)
      OBVIOUS
    <3>3. ends \in SUBSET Nat
      BY <3>1
    <3>4. m \in ends
      BY <2>3, <3>2, <3>3, MinOfSome
    <3>5. target # Root /\ m = 1 /\ found[m] = Lstat(disk, Front(target))
      BY <3>4
    <3>6. Front(target) \in Seq(Word)
      BY <3>5, FrontIsPath, NamesAreWords DEF Root
    <3>7. found[m] # "EACCES"
      BY <1>1, <3>5, <3>6
    <3>8. QED
      BY <1>0, <2>1, <3>2, <3>7
  <2>4. QED
    BY <2>2, <2>3
<1>4. QED
  BY <1>2, <1>3

-----------------------------------------------------------------------------
(***************************************************************************)
(* The tree's entries, and what a step that treats one of them changes.    *)
(***************************************************************************)

LEMMA SourceFacts ==
  ASSUME source \in Sources
  PROVE  /\ tree \in Seq(Entry) /\ Len(tree) \in Nat /\ DOMAIN tree = 1..Len(tree)
         /\ source.root \in Entry /\ source.base \in Seq(Names)
         /\ \A k \in DOMAIN tree : tree[k].rel = << >> => tree[k].kind = "dir"
         /\ \A j, k \in DOMAIN tree : IsPrefix(tree[j].rel, tree[k].rel) => j <= k
<1>1. /\ source \in [root : Entry, base : Seq(Names), contentsOnly : BOOLEAN, tree : Seq(Entry)]
      /\ \A k \in DOMAIN source.tree : source.tree[k].rel = << >> => source.tree[k].kind = "dir"
      /\ \A j, k \in DOMAIN source.tree :
           IsPrefix(source.tree[j].rel, source.tree[k].rel) => j <= k
  BY SourcesAssumption
<1>2. tree \in Seq(Entry) /\ source.root \in Entry /\ source.base \in Seq(Names)
  BY <1>1 DEF tree
<1>3. Len(tree) \in Nat /\ DOMAIN tree = 1..Len(tree)
  BY <1>2
<1>4. QED
  BY <1>1, <1>2, <1>3 DEF tree

LEMMA EntryFacts ==
  ASSUME NEW e \in Entry
  PROVE  /\ e.rel \in Seq(Names) /\ e.link \in Seq(Word) /\ e.content # "partial"
  BY DEF Entry

LEMMA EntryOfTree ==
  ASSUME source \in Sources, NEW k \in DOMAIN tree
  PROVE  tree[k] \in Entry /\ tree[k].rel \in Seq(Names) /\ tree[k].link \in Seq(Word)
<1>1. tree \in Seq(Entry)
  BY SourceFacts
<1>2. tree[k] \in Entry
  BY <1>1
<1>3. QED
  BY <1>2, EntryFacts

\* Every entry has a path of its own, which comes after those above it.
LEMMA ThenCancels ==
  ASSUME NEW r \in Seq(Names), NEW a \in Seq(Names), NEW b \in Seq(Names), Then(r, a) = Then(r, b)
  PROVE  a = b
<1>1. Len(a) = Len(b)
  BY DEF Then
<1>2. ASSUME NEW i \in 1..Len(a) PROVE a[i] = b[i]
  <2>1. (r \o a)[Len(r) + i] = a[i] /\ (r \o b)[Len(r) + i] = b[i]
    BY <1>1
  <2>2. QED
    BY <2>1 DEF Then
<1>3. QED
  BY <1>1, <1>2, SeqEqual

LEMMA SelfPrefix ==
  ASSUME NEW a \in Seq(Names)
  PROVE  /\ IsPrefix(a, a)
         /\ \A i \in 0..Len(a) : IsPrefix(SubSeq(a, 1, i), a)
<1>1. ASSUME NEW i \in 0..Len(a) PROVE IsPrefix(SubSeq(a, 1, i), a)
  <2>1. << >> \in Seq(Names)
    OBVIOUS
  <2>2. Down(<< >>, a, i) = SubSeq(a, 1, i)
    <3>1. SubSeq(a, 1, i) \in Seq(Names)
      BY SubDown
    <3>2. << >> \o SubSeq(a, 1, i) = SubSeq(a, 1, i)
      BY <3>1
    <3>3. QED
      BY <3>2 DEF Down
  <2>3. Then(Down(<< >>, a, i), After(a, i)) = Then(<< >>, a) /\ Down(<< >>, a, i) \in Seq(Names)
    BY <2>1, DownPath
  <2>4. Then(<< >>, a) = a /\ After(a, i) \in Seq(Names)
    BY <2>1, ThenNames, AfterNames
  <2>5. QED
    BY <2>2, <2>3, <2>4, PrefixThen
<1>2. IsPrefix(a, a)
  BY PrefixSelf
<1>3. QED
  BY <1>1, <1>2

LEMMA Distinct ==
  ASSUME source \in Sources, NEW r \in Seq(Names), NEW j \in DOMAIN tree, NEW k \in DOMAIN tree,
         Then(r, tree[k].rel) = Then(r, tree[j].rel)
  PROVE  k = j
<1>1. tree[k].rel \in Seq(Names) /\ tree[j].rel \in Seq(Names)
  BY EntryOfTree
<1>2. tree[k].rel = tree[j].rel
  BY <1>1, ThenCancels
<1>3. IsPrefix(tree[k].rel, tree[j].rel) /\ IsPrefix(tree[j].rel, tree[k].rel)
  BY <1>1, <1>2, SelfPrefix
<1>4. k <= j /\ j <= k
  BY <1>3, SourceFacts
<1>5. k \in Int /\ j \in Int
  BY SourceFacts
<1>6. QED
  BY <1>4, <1>5

LEMMA ComesBefore ==
  ASSUME source \in Sources, NEW r \in Seq(Names), NEW j \in DOMAIN tree, NEW k \in DOMAIN tree,
         NEW i \in 1..(Len(tree[k].rel) - 1), Down(r, tree[k].rel, i) = Then(r, tree[j].rel)
  PROVE  j < k
<1> DEFINE t == tree[k].rel
           u == SubSeq(t, 1, i)
<1>1. t \in Seq(Names) /\ tree[j].rel \in Seq(Names)
  BY EntryOfTree
<1>2. i \in 0..Len(t) /\ i < Len(t)
  BY <1>1
<1>3. u \in Seq(Names) /\ Len(u) = i /\ Then(r, u) = Down(r, t, i)
  BY <1>1, <1>2, SubDown
<1>4. IsPrefix(u, t)
  BY <1>1, <1>2, SelfPrefix
<1>5. tree[j].rel = u
  BY <1>1, <1>3, ThenCancels
<1>6. j <= k
  BY <1>4, <1>5, SourceFacts
<1>7. j # k
  BY <1>2, <1>3, <1>5
<1>8. j \in Int /\ k \in Int
  BY SourceFacts
<1>9. QED
  BY <1>6, <1>7, <1>8

\* A directory that was made.
Fresh(d, y, a) == Kind(d, a) = "none" /\ Kind(y, a) = "dir" /\ y[a] = Directory(Full)

\* What an entry's path s below r may change: the path itself, and directories
\* that were missing above it.
Sets(d, y, r, s) ==
  /\ IsDisk(y)
  /\ \A a : a # Then(r, s) =>
       Same(d, y, a) \/ (Fresh(d, y, a) /\ \E i \in 1..(Len(s) - 1) : a = Down(r, s, i))

LEMMA SetsElse ==
  ASSUME NEW d, NEW y, NEW r, NEW s, NEW a, Sets(d, y, r, s), a # Then(r, s)
  PROVE  Same(d, y, a) \/ Fresh(d, y, a)
  BY DEF Sets

LEMMA BelowIt ==
  ASSUME NEW r \in Seq(Names), NEW s \in Seq(Names)
  PROVE  /\ s # << >> => IsStrictPrefix(r, Then(r, s))
         /\ s = << >> => Then(r, s) = r
         /\ \A i \in 1..(Len(s) - 1) : IsStrictPrefix(r, Down(r, s, i))
<1>1. \A c \in Seq(Names) : c # << >> => IsStrictPrefix(r, Then(r, c))
  BY PrefixThen
<1>2. s = << >> => Then(r, s) = r
  BY ThenNames
<1>3. ASSUME NEW i \in 1..(Len(s) - 1) PROVE IsStrictPrefix(r, Down(r, s, i))
  <2> DEFINE u == SubSeq(s, 1, i)
  <2>1. i \in 0..Len(s)
    OBVIOUS
  <2>2. u \in Seq(Names) /\ Len(u) = i /\ Then(r, u) = Down(r, s, i)
    BY <2>1, SubDown
  <2> HIDE DEF u
  <2>3. u # << >>
    BY <2>2
  <2>4. QED
    BY <1>1, <2>2, <2>3
<1>4. QED
  BY <1>1, <1>2, <1>3

LEMMA SetsOutside ==
  ASSUME NEW d, NEW y, NEW r \in Seq(Names), NEW s \in Seq(Names), NEW a, Sets(d, y, r, s),
         a # Then(r, s), ~IsStrictPrefix(r, a)
  PROVE  Same(d, y, a)
  BY BelowIt DEF Sets

\* Nothing changes.
LEMMA SetsNothing ==
  ASSUME NEW d, IsDisk(d), NEW r, NEW s
  PROVE  Sets(d, d, r, s)
  BY DEF Sets, Same

LEMMA SameMore ==
  ASSUME NEW d, NEW y, NEW z, NEW a, Same(y, z, a)
  PROVE  /\ Same(d, y, a) => Same(d, z, a)
         /\ Fresh(d, y, a) => Fresh(d, z, a)
  BY DEF Same, Fresh

\* The directories above an entry, or the entry's own with them.
LEMMA GrowsSets ==
  ASSUME NEW d, NEW y, NEW r \in Seq(Names), NEW s \in Seq(Names), Adds(d, y), Grows(d, y, r, s)
  PROVE  Sets(d, y, r, s)
<1>1. ASSUME NEW a, a # Then(r, s)
      PROVE  Same(d, y, a) \/ (Fresh(d, y, a) /\ \E i \in 1..(Len(s) - 1) : a = Down(r, s, i))
  <2>1. CASE Same(d, y, a)
    BY <2>1
  <2>2. CASE ~Same(d, y, a)
    <3>1. PICK i \in 1..Len(s) : a = Down(r, s, i) /\ Kind(d, a) = "none"
      BY <2>2 DEF Grows
    <3>2. i # Len(s)
      BY <1>1, <3>1, DownEnds
    <3>3. i \in 1..(Len(s) - 1)
      <4>1. Len(s) \in Nat
        OBVIOUS
      <4>2. QED
        BY <3>1, <3>2, <4>1
    <3>4. Kind(y, a) # "none"
      BY <2>2, <3>1 DEF Same
    <3>5. Fresh(d, y, a)
      BY <3>1, <3>4 DEF Adds, Fresh
    <3>6. QED
      BY <3>1, <3>3, <3>5
  <2>3. QED
    BY <2>1, <2>2
<1>2. QED
  BY <1>1 DEF Sets, Adds

LEMMA FrontDown ==
  ASSUME NEW r \in Seq(Names), NEW s \in Seq(Names), s # << >>
  PROVE  /\ Front(s) \in Seq(Names) /\ Len(Front(s)) = Len(s) - 1 /\ Len(s) \in Nat
         /\ Front(Then(r, s)) = Then(r, Front(s)) /\ Then(r, Front(s)) # Then(r, s)
         /\ \A i \in 1..(Len(s) - 1) : Down(r, Front(s), i) = Down(r, s, i)
<1>1. /\ Front(s) \in Seq(Names) /\ s = Append(Front(s), s[Len(s)]) /\ s[Len(s)] \in Names
      /\ Len(Front(s)) = Len(s) - 1
  BY FrontIsPath
<1> DEFINE u == Front(s)
           n == s[Len(s)]
<1>2. u \in Seq(Names) /\ n \in Names /\ s = Into(u, n) /\ Len(s) \in Nat
  BY <1>1 DEF Into
<1>3. Len(u) = Len(s) - 1
  BY <1>1
<1> HIDE DEF u, n
<1>4. Then(r, s) = Into(Then(r, u), n) /\ \A i \in 1..Len(u) : Down(r, Into(u, n), i) = Down(r, u, i)
  BY <1>2, IntoThen
<1>5. Then(r, u) \in Seq(Names)
  BY <1>2, ThenNames
<1>6. Front(Then(r, s)) = Then(r, u)
  BY <1>2, <1>4, <1>5, IntoPath
<1>7. Then(r, u) # Then(r, s)
  <2>1. Then(r, s) # Root /\ Then(r, s) \in Seq(Names)
    BY <1>2, <1>4, <1>5, IntoPath
  <2>2. IsStrictPrefix(Front(Then(r, s)), Then(r, s))
    BY <2>1, FrontAbove
  <2>3. QED
    BY <1>6, <2>1, <2>2, PrefixSelf
<1>8. QED
  BY <1>2, <1>3, <1>4, <1>6, <1>7 DEF u

\* And what is done at the entry's path after that.
LEMMA GrowsThenSets ==
  ASSUME NEW d, NEW y, NEW z, NEW r \in Seq(Names), NEW s \in Seq(Names), s # << >>,
         Adds(d, y), Grows(d, y, r, Front(s)), IsDisk(z),
         \A a : a # Then(r, s) => Same(y, z, a)
  PROVE  Sets(d, z, r, s) /\ Same(d, y, Then(r, s))
<1>1. ASSUME NEW a, a # Then(r, s)
      PROVE  Same(d, z, a) \/ (Fresh(d, z, a) /\ \E i \in 1..(Len(s) - 1) : a = Down(r, s, i))
  <2>1. Same(y, z, a)
    BY <1>1
  <2>2. CASE Same(d, y, a)
    BY <2>1, <2>2, SameMore
  <2>3. CASE ~Same(d, y, a)
    <3>1. PICK i \in 1..Len(Front(s)) : a = Down(r, Front(s), i) /\ Kind(d, a) = "none"
      BY <2>3 DEF Grows
    <3>2. i \in 1..(Len(s) - 1) /\ a = Down(r, s, i)
      BY <3>1, FrontDown
    <3>3. Kind(y, a) # "none"
      BY <2>3, <3>1 DEF Same
    <3>4. Fresh(d, y, a)
      BY <3>1, <3>3 DEF Adds, Fresh
    <3>5. QED
      BY <2>1, <3>2, <3>4, SameMore
  <2>4. QED
    BY <2>2, <2>3
<1>2. Same(d, y, Then(r, s))
  <2>1. SUFFICES ASSUME ~Same(d, y, Then(r, s)) PROVE FALSE
    OBVIOUS
  <2>2. PICK i \in 1..Len(Front(s)) : Then(r, s) = Down(r, Front(s), i)
    BY <2>1 DEF Grows
  <2>3. i \in 1..(Len(s) - 1) /\ i \in 0..Len(s) /\ Len(s) \in Nat /\ i # Len(s)
    BY <2>2, FrontDown
  <2>4. Then(r, SubSeq(s, 1, i)) = Then(r, s) /\ Len(SubSeq(s, 1, i)) = i /\ SubSeq(s, 1, i) \in Seq(Names)
    BY <2>2, <2>3, FrontDown, SubDown
  <2>5. SubSeq(s, 1, i) = s
    BY <2>4, ThenCancels
  <2>6. QED
    BY <2>3, <2>4, <2>5
<1>3. QED
  BY <1>1, <1>2 DEF Sets

\* What is outside stays as it was.
LEMMA KeptStep ==
  ASSUME NEW d, NEW y, NEW e, NEW r \in Seq(Names), NEW s \in Seq(Names), IsDisk(d),
         Sets(d, y, r, s), KeptOutside(r, d, e), Kind(d, r) = "dir",
         s = << >> => Kind(y, r) = "dir"
  PROVE  KeptOutside(r, y, e)
<1>1. IsDisk(y)
  BY DEF Sets
<1>2. SUFFICES ASSUME NEW q \in DOMAIN y \cup DOMAIN e, ~IsStrictPrefix(r, q)
               PROVE  /\ q \in DOMAIN y /\ q \in DOMAIN e
                      /\ IF q = r THEN y[q].kind = "dir" ELSE y[q] = e[q]
  BY DEF KeptOutside
<1>3. r \in DOMAIN d /\ ~IsStrictPrefix(r, r)
  BY KindOf, PrefixSelf
<1>4. r \in DOMAIN e
  BY <1>3 DEF KeptOutside
<1>5. CASE q = Then(r, s)
  <2>1. s = << >> /\ q = r
    BY <1>2, <1>5, BelowIt
  <2>2. q \in DOMAIN y /\ y[q].kind = "dir"
    BY <1>1, <2>1, KindOf
  <2>3. QED
    BY <1>4, <2>1, <2>2
<1>6. CASE q # Then(r, s)
  <2>1. Same(d, y, q)
    BY <1>2, <1>6, SetsOutside
  <2>2. q \in DOMAIN y <=> q \in DOMAIN d
    BY <1>1, <2>1, KindOf DEF Same
  <2>3. q \in DOMAIN d /\ q \in DOMAIN e /\ IF q = r THEN d[q].kind = "dir" ELSE d[q] = e[q]
    BY <1>2, <2>2 DEF KeptOutside
  <2>4. y[q] = d[q]
    BY <2>1, <2>3, KindOf DEF Same
  <2>5. QED
    BY <2>2, <2>3, <2>4
<1>7. QED
  BY <1>5, <1>6

\* The parts of the invariant, of any disk and lists.
SettledAt(n, waiting) ==
  {k \in 1..(n - 1) : tree[k].kind = "symlink" \/ (IsRegular(tree[k]) /\ tree[k] \notin waiting)}

LinksAt(d, n, r) ==
  /\ \A q \in DOMAIN d : IsStrictPrefix(r, q) /\ d[q].kind = "symlink" =>
       \E k \in 1..(n - 1) : tree[k].kind = "symlink" /\ q = Then(r, tree[k].rel)
  /\ \A k \in 1..(n - 1) : \A i \in 1..(Len(tree[k].rel) - 1) :
       Kind(d, Down(r, tree[k].rel, i)) # "symlink"

Shown(d, q, e) ==
  /\ q \in DOMAIN d
  /\ \/ e.kind = "dir" /\ d[q] = Directory(Perm(e))
     \/ IsRegular(e) /\ d[q] = File(Perm(e), e.content)
     \/ e.kind = "symlink" /\ d[q] = Symlink(e.link)

Listed(ds, e) == \E i \in DOMAIN ds : ds[i] = e

PlacedAt(d, n, settled, ds, r) ==
  /\ \A k \in settled : Shown(d, Then(r, tree[k].rel), tree[k])
  /\ \A k \in 1..(n - 1) : tree[k].kind = "dir" =>
       /\ Kind(d, Then(r, tree[k].rel)) = "dir"
       /\ Shown(d, Then(r, tree[k].rel), tree[k]) \/ Listed(ds, tree[k])

WaitsAt(d, q, cut) ==
  q \in DOMAIN d => \/ d[q].kind = "dir"
                    \/ q \in DOMAIN before /\ d[q] = before[q]
                    \/ cut /\ d[q].content = "partial"

WaitingAt(d, settled, cut, r) ==
  \A k \in DOMAIN tree \ settled : IsRegular(tree[k]) => WaitsAt(d, Then(r, tree[k].rel), cut)

LEMMA PartsNow ==
  ASSUME NEW r
  PROVE  /\ Settled = SettledAt(at, pending)
         /\ LinksInv(r) <=> LinksAt(disk, at, r)
         /\ PlacedInv(r) <=> PlacedAt(disk, at, Settled, dirs, r)
         /\ WaitingInv(r) <=> \E odd \in 0..Len(tree) :
              (pc # "writeError" => odd = 0) /\ WaitingAt(disk, Settled \cup {odd}, pc = "readError", r)
<1>1. Settled = SettledAt(at, pending)
  BY DEF Settled, SettledAt, Past
<1>2. LinksInv(r) <=> LinksAt(disk, at, r)
  BY DEF LinksInv, LinksAt, Past, Down, Then
<1>3. PlacedInv(r) <=> PlacedAt(disk, at, Settled, dirs, r)
  <2>1. \A k : Copied(r, tree[k]) <=> Shown(disk, Then(r, tree[k].rel), tree[k])
    BY DEF Copied, Shown, Then
  <2>2. QED
    BY <2>1 DEF PlacedInv, PlacedAt, Past, Then, Listed
<1>4. WaitingInv(r) <=> \E odd \in 0..Len(tree) :
        (pc # "writeError" => odd = 0) /\ WaitingAt(disk, Settled \cup {odd}, pc = "readError", r)
  BY DEF WaitingInv, WaitingAt, WaitsAt, Then
<1>5. QED
  BY <1>1, <1>2, <1>3, <1>4

LEMMA PartsNext ==
  ASSUME NEW r, source' = source, before' = before
  PROVE  /\ Settled' = SettledAt(at', pending')
         /\ LinksInv(r)' <=> LinksAt(disk', at', r)
         /\ PlacedInv(r)' <=> PlacedAt(disk', at', Settled', dirs', r)
         /\ WaitingInv(r)' <=> \E odd \in 0..Len(tree) :
              (pc' # "writeError" => odd = 0) /\ WaitingAt(disk', Settled' \cup {odd}, pc' = "readError", r)
<1>0. tree' = tree
  BY DEF tree
<1>1. Settled' = SettledAt(at', pending')
  BY <1>0 DEF Settled, SettledAt, Past
<1>2. LinksInv(r)' <=> LinksAt(disk', at', r)
  BY <1>0 DEF LinksInv, LinksAt, Past, Down, Then
<1>3. PlacedInv(r)' <=> PlacedAt(disk', at', Settled', dirs', r)
  <2>1. \A k : Copied(r, tree[k])' <=> Shown(disk', Then(r, tree[k].rel), tree[k])
    BY <1>0 DEF Copied, Shown, Then
  <2>2. QED
    BY <1>0, <2>1 DEF PlacedInv, PlacedAt, Past, Then, Listed
<1>4. WaitingInv(r)' <=> \E odd \in 0..Len(tree) :
        (pc' # "writeError" => odd = 0) /\ WaitingAt(disk', Settled' \cup {odd}, pc' = "readError", r)
  BY <1>0 DEF WaitingInv, WaitingAt, WaitsAt, Then
<1>5. QED
  BY <1>1, <1>2, <1>3, <1>4

\* While nothing has failed something is known of every entry.
LEMMA WaitingNow ==
  ASSUME NEW r, WaitingInv(r), pc # "writeError", pc # "readError", source \in Sources
  PROVE  WaitingAt(disk, Settled, FALSE, r)
<1>1. WaitingAt(disk, Settled \cup {0}, FALSE, r)
  BY PartsNow
<1>2. 0 \notin DOMAIN tree
  BY SourceFacts
<1>3. DOMAIN tree \ (Settled \cup {0}) = DOMAIN tree \ Settled
  BY <1>2
<1>4. QED
  BY <1>1, <1>3 DEF WaitingAt

\* The entries planned so far, n - 1 before a step that treats entry j and m - 1
\* after it.
Turns(n, m, j) ==
  /\ n \in 1..(Len(tree) + 1) /\ j \in DOMAIN tree /\ j <= n
  /\ m = n \/ (m = n + 1 /\ j = n)

LEMMA TurnFacts ==
  ASSUME source \in Sources, NEW n, NEW m, NEW j, Turns(n, m, j)
  PROVE  /\ \A k \in 1..(n - 1) : k \in DOMAIN tree /\ k \in 1..(m - 1)
         /\ \A k \in 1..(m - 1) : k \in DOMAIN tree /\ (k \in 1..(n - 1) \/ (k = j /\ k = n /\ m = n + 1))
         /\ m = n + 1 => j \in 1..(m - 1)
<1>1. Len(tree) \in Nat /\ DOMAIN tree = 1..Len(tree)
  BY SourceFacts
<1>2. QED
  BY <1>1 DEF Turns

LEMMA NodeKept ==
  ASSUME NEW d, NEW y, NEW q, NEW e, IsDisk(d), Same(d, y, q), Shown(d, q, e)
  PROVE  Shown(y, q, e)
<1>1. Kind(d, q) # "none" /\ d[q].kind = Kind(d, q)
  BY KindOf DEF Shown
<1>2. y[q] = d[q] /\ q \in DOMAIN y
  BY <1>1 DEF Same, Kind
<1>3. QED
  BY <1>2 DEF Shown

LEMMA ShownKind ==
  ASSUME NEW d, NEW q, NEW e, IsDisk(d), Shown(d, q, e)
  PROVE  Kind(d, q) # "none"
  BY KindOf DEF Shown

\* A new symlink is an entry, and above no planned entry.
LEMMA LinksStep ==
  ASSUME source \in Sources, NEW d, NEW y, NEW n, NEW m, NEW j, NEW r \in Seq(Names),
         Turns(n, m, j), IsDisk(d), Sets(d, y, r, tree[j].rel), LinksAt(d, n, r),
         Kind(y, Then(r, tree[j].rel)) = "symlink" =>
           Same(d, y, Then(r, tree[j].rel)) \/ (tree[j].kind = "symlink" /\ m = n + 1),
         m = n + 1 => \A i \in 1..(Len(tree[j].rel) - 1) : Kind(d, Down(r, tree[j].rel, i)) # "symlink"
  PROVE  LinksAt(y, m, r)
<1> DEFINE s == tree[j].rel
           own == Then(r, s)
<1>0. /\ \A k \in 1..(n - 1) : k \in DOMAIN tree /\ k \in 1..(m - 1)
      /\ \A k \in 1..(m - 1) : k \in DOMAIN tree /\ (k \in 1..(n - 1) \/ (k = j /\ k = n /\ m = n + 1))
      /\ m = n + 1 => j \in 1..(m - 1)
  BY TurnFacts
<1>1. j \in DOMAIN tree
  BY DEF Turns
<1>2. IsDisk(y)
  BY DEF Sets
<1>3. ASSUME NEW a, Kind(y, a) = "symlink"
      PROVE  \/ Kind(d, a) = "symlink"
             \/ a = own /\ tree[j].kind = "symlink" /\ m = n + 1
  <2>1. CASE a = own
    BY <1>3, <2>1 DEF Same
  <2>2. CASE a # own
    <3>1. Same(d, y, a) \/ Fresh(d, y, a)
      BY <2>2, SetsElse
    <3>2. QED
      BY <1>3, <3>1 DEF Same, Fresh
  <2>3. QED
    BY <2>1, <2>2
<1>4. ASSUME NEW q \in DOMAIN y, IsStrictPrefix(r, q), y[q].kind = "symlink"
      PROVE  \E k \in 1..(m - 1) : tree[k].kind = "symlink" /\ q = Then(r, tree[k].rel)
  <2>1. Kind(y, q) = "symlink"
    BY <1>2, <1>4, KindOf
  <2>2. CASE Kind(d, q) = "symlink"
    <3>1. q \in DOMAIN d /\ d[q].kind = "symlink"
      BY <2>2, KindOf
    <3>2. PICK k \in 1..(n - 1) : tree[k].kind = "symlink" /\ q = Then(r, tree[k].rel)
      BY <1>4, <3>1 DEF LinksAt
    <3>3. QED
      BY <1>0, <3>2
  <2>3. CASE q = own /\ tree[j].kind = "symlink" /\ m = n + 1
    BY <1>0, <2>3
  <2>4. QED
    BY <1>3, <2>1, <2>2, <2>3
<1>5. ASSUME NEW k \in 1..(m - 1), NEW i \in 1..(Len(tree[k].rel) - 1)
      PROVE  Kind(y, Down(r, tree[k].rel, i)) # "symlink"
  <2> DEFINE a == Down(r, tree[k].rel, i)
  <2>1. Kind(d, a) # "symlink"
    <3>1. CASE k \in 1..(n - 1)
      BY <1>5, <3>1 DEF LinksAt
    <3>2. CASE k = j /\ m = n + 1
      BY <1>5, <3>2
    <3>3. QED
      BY <1>0, <3>1, <3>2
  <2>2. a = own => j < k
    BY <1>0, <1>1, <1>5, ComesBefore
  <2>3. m = n + 1 /\ a = own => FALSE
    <3>1. m = n + 1 => j = n /\ n \in Int /\ k \in 1..n
      BY <1>5 DEF Turns
    <3>2. QED
      BY <2>2, <3>1
  <2>4. QED
    BY <1>3, <2>1, <2>3
<1>6. QED
  BY <1>4, <1>5 DEF LinksAt

\* What was there already stays there.
LEMMA PlacedStep ==
  ASSUME source \in Sources, NEW d, NEW y, NEW n, NEW m, NEW j, NEW r \in Seq(Names),
         Turns(n, m, j), IsDisk(d), Sets(d, y, r, tree[j].rel),
         NEW old, NEW new, NEW ds, NEW dt, PlacedAt(d, n, old, ds, r),
         new \subseteq old \cup {j}, old \subseteq DOMAIN tree,
         j \in new => Shown(y, Then(r, tree[j].rel), tree[j]),
         tree[j].kind = "dir" /\ j \in 1..(m - 1) =>
           /\ Kind(y, Then(r, tree[j].rel)) = "dir"
           /\ Shown(y, Then(r, tree[j].rel), tree[j]) \/ Listed(dt, tree[j]),
         \A k \in DOMAIN tree : k # j /\ Listed(ds, tree[k]) => Listed(dt, tree[k])
  PROVE  PlacedAt(y, m, new, dt, r)
<1>0. \A k \in 1..(m - 1) : k \in DOMAIN tree /\ (k \in 1..(n - 1) \/ k = j)
  BY TurnFacts
<1>1. j \in DOMAIN tree
  BY DEF Turns
<1>2. ASSUME NEW k \in DOMAIN tree, k # j, Kind(d, Then(r, tree[k].rel)) # "none"
      PROVE  Same(d, y, Then(r, tree[k].rel))
  <2>1. Then(r, tree[k].rel) # Then(r, tree[j].rel)
    BY <1>1, <1>2, Distinct
  <2>2. QED
    BY <1>2, <2>1, SetsElse DEF Fresh
<1>3. ASSUME NEW k \in DOMAIN tree, k # j, Shown(d, Then(r, tree[k].rel), tree[k])
      PROVE  Shown(y, Then(r, tree[k].rel), tree[k])
  <2>1. Kind(d, Then(r, tree[k].rel)) # "none"
    BY <1>3, ShownKind
  <2>2. Same(d, y, Then(r, tree[k].rel))
    BY <1>2, <1>3, <2>1
  <2>3. QED
    BY <1>3, <2>2, NodeKept
<1>4. ASSUME NEW k \in new PROVE Shown(y, Then(r, tree[k].rel), tree[k])
  <2>1. CASE k = j
    BY <1>4, <2>1
  <2>2. CASE k # j
    <3>1. k \in old /\ k \in DOMAIN tree
      BY <1>4, <2>2
    <3>2. Shown(d, Then(r, tree[k].rel), tree[k])
      BY <3>1 DEF PlacedAt
    <3>3. QED
      BY <1>3, <2>2, <3>1, <3>2
  <2>3. QED
    BY <2>1, <2>2
<1>5. ASSUME NEW k \in 1..(m - 1), tree[k].kind = "dir"
      PROVE  /\ Kind(y, Then(r, tree[k].rel)) = "dir"
             /\ Shown(y, Then(r, tree[k].rel), tree[k]) \/ Listed(dt, tree[k])
  <2>1. CASE k = j
    BY <1>5, <2>1
  <2>2. CASE k # j
    <3>1. k \in DOMAIN tree /\ k \in 1..(n - 1)
      BY <1>0, <2>2
    <3>2. /\ Kind(d, Then(r, tree[k].rel)) = "dir"
          /\ Shown(d, Then(r, tree[k].rel), tree[k]) \/ Listed(ds, tree[k])
      BY <1>5, <3>1 DEF PlacedAt
    <3>3. Same(d, y, Then(r, tree[k].rel))
      BY <1>2, <2>2, <3>1, <3>2
    <3>4. Kind(y, Then(r, tree[k].rel)) = "dir"
      BY <3>2, <3>3 DEF Same
    <3>5. Shown(y, Then(r, tree[k].rel), tree[k]) \/ Listed(dt, tree[k])
      BY <1>3, <2>2, <3>1, <3>2
    <3>6. QED
      BY <3>4, <3>5
  <2>3. QED
    BY <2>1, <2>2
<1>6. QED
  BY <1>4, <1>5 DEF PlacedAt

\* Where an entry is still to be written, a step that treats another one leaves
\* what was there, or a directory.
LEMMA WaitingStep ==
  ASSUME source \in Sources, NEW d, NEW y, NEW j \in DOMAIN tree, NEW r \in Seq(Names),
         IsDisk(d), Sets(d, y, r, tree[j].rel),
         NEW old, NEW new, NEW cut, WaitingAt(d, old, FALSE, r), old \subseteq new,
         j \notin new /\ IsRegular(tree[j]) => WaitsAt(y, Then(r, tree[j].rel), cut)
  PROVE  WaitingAt(y, new, cut, r)
<1>1. SUFFICES ASSUME NEW k \in DOMAIN tree \ new, IsRegular(tree[k])
               PROVE  WaitsAt(y, Then(r, tree[k].rel), cut)
  BY DEF WaitingAt
<1>2. CASE k = j
  BY <1>1, <1>2
<1>3. CASE k # j
  <2> DEFINE q == Then(r, tree[k].rel)
  <2>1. WaitsAt(d, q, FALSE)
    BY <1>1 DEF WaitingAt
  <2>2. q # Then(r, tree[j].rel)
    BY <1>1, <1>3, Distinct
  <2>3. Same(d, y, q) \/ Fresh(d, y, q)
    BY <2>2, SetsElse
  <2>4. IsDisk(y)
    BY DEF Sets
  <2> HIDE DEF q
  <2>5. CASE Fresh(d, y, q)
    <3>1. q \in DOMAIN y /\ y[q].kind = "dir"
      BY <2>4, <2>5, KindOf DEF Fresh
    <3>2. QED
      BY <3>1 DEF WaitsAt, q
  <2>6. CASE Same(d, y, q)
    <3>1. SUFFICES ASSUME q \in DOMAIN y PROVE WaitsAt(y, q, cut)
      BY DEF WaitsAt, q
    <3>2. Kind(y, q) # "none"
      BY <2>4, <3>1, KindOf
    <3>3. q \in DOMAIN d /\ y[q] = d[q]
      BY <2>6, <3>2, KindOf DEF Same
    <3>4. QED
      BY <2>1, <3>3 DEF WaitsAt
  <2>7. QED
    BY <2>3, <2>5, <2>6
<1>4. QED
  BY <1>2, <1>3

\* A directory that is new, or was there, allows everything.
LEMMA PermitsStep ==
  ASSUME NEW d, NEW y, NEW r, NEW s, IsDisk(d), Permits(d), Sets(d, y, r, s),
         Kind(y, Then(r, s)) = "dir" => Full \subseteq y[Then(r, s)].mode
  PROVE  Permits(y)
<1>1. IsDisk(y)
  BY DEF Sets
<1>2. SUFFICES ASSUME NEW q \in DOMAIN y, y[q].kind = "dir" PROVE Full \subseteq y[q].mode
  BY DEF Permits
<1>3. Kind(y, q) = "dir"
  BY <1>1, <1>2, KindOf
<1>4. CASE q = Then(r, s)
  BY <1>3, <1>4
<1>5. CASE q # Then(r, s)
  <2>1. CASE Same(d, y, q)
    <3>1. Kind(d, q) = "dir" /\ y[q] = d[q]
      BY <1>3, <2>1 DEF Same
    <3>2. q \in DOMAIN d /\ d[q].kind = "dir"
      BY <3>1, KindOf
    <3>3. QED
      BY <3>1, <3>2 DEF Permits
  <2>2. CASE Fresh(d, y, q)
    <3>1. y[q] = Directory(Full)
      BY <2>2 DEF Fresh
    <3>2. Directory(Full).mode = Full
      BY DEF Directory, Node
    <3>3. QED
      BY <3>1, <3>2
  <2>3. QED
    BY <1>5, <2>1, <2>2, SetsElse
<1>6. QED
  BY <1>4, <1>5

-----------------------------------------------------------------------------
(***************************************************************************)
(* The copy of a tree, a step at a time.  r is where the target really is. *)
(***************************************************************************)

\* What no step changes.
Aims(r) ==
  /\ r \in Seq(Names) /\ target \in Seq(Names) /\ IsDisk(before) /\ FreshBelow(r)
  /\ Adds(before, First.disk) /\ Leads(First.disk, target, r)

\* What holds once the target is there.
Held(r) ==
  /\ ~Fails(First)
  /\ KeptOutside(r, disk, First.disk)
  /\ pc \in {"plan", "write", "modes"} => OnWay(disk)
  /\ LinksInv(r) /\ PlacedInv(r) /\ WaitingInv(r) /\ AllowedInv
  /\ files = Cardinality(Settled)

AllFull == \A q \in DOMAIN before : Full \subseteq before[q].mode

LEMMA WayIs ==
  /\ \A d : OnWay(d) <=> Passes(First.disk, target, d)
  /\ AllowedInv <=> (pc \in {"plan", "write"} /\ AllFull => Permits(disk))
<1>1. DOMAIN Way = 0..Fuel
  BY TrailGoesOn DEF Way
<1>2. \A d : OnWay(d) <=> Passes(First.disk, target, d)
  BY <1>1 DEF OnWay, Passes, Way
<1>3. AllowedInv <=> (pc \in {"plan", "write"} /\ AllFull => Permits(disk))
  BY DEF AllowedInv, AllFull, Permits
<1>4. QED
  BY <1>2, <1>3

LEMMA WayNext ==
  ASSUME before' = before, target' = target
  PROVE  /\ First' = First
         /\ OnWay(disk)' <=> Passes(First.disk, target, disk')
         /\ AllowedInv' <=> (pc' \in {"plan", "write"} /\ AllFull => Permits(disk'))
<1>0. First' = First
  BY DEF First
<1>1. Way' = Way
  BY <1>0 DEF Way
<1>2. DOMAIN Way = 0..Fuel
  BY TrailGoesOn DEF Way
<1>3. OnWay(disk)' <=> Passes(First.disk, target, disk')
  <2>1. OnWay(disk)' <=> \A k \in DOMAIN Way : Kind(disk', Way[k].at) = "dir"
    BY <1>1 DEF OnWay
  <2>2. QED
    BY <1>2, <2>1 DEF Passes, Way
<1>4. AllowedInv' <=> (pc' \in {"plan", "write"} /\ AllFull => Permits(disk'))
  BY DEF AllowedInv, AllFull, Permits
<1>5. QED
  BY <1>0, <1>3, <1>4

\* The copy's symlinks are below the target, those on the way to it are not.
LEMMA HeldReached ==
  ASSUME NEW r, Aims(r), Held(r), pc \in {"plan", "write", "modes"}, IsDisk(disk)
  PROVE  Reached(First.disk, target, r, disk)
<1> DEFINE e == First.disk
<1>1. /\ r \in Seq(Names) /\ FreshBelow(r) /\ Adds(before, e) /\ Leads(e, target, r) /\ IsDisk(before)
      /\ KeptOutside(r, disk, e) /\ OnWay(disk)
  BY DEF Aims, Held
<1>2. Passes(e, target, disk)
  BY <1>1, WayIs
<1>3. IsDisk(e) /\ Kind(e, r) = "dir"
  BY <1>1, LeadsReached, ReachedTarget DEF Leads
<1> HIDE DEF e
<1>4. ASSUME NEW q \in DOMAIN e, e[q].kind = "symlink"
      PROVE  q \in DOMAIN disk /\ disk[q] = e[q]
  <2>1. Kind(e, q) = "symlink"
    BY <1>3, <1>4, KindOf
  <2>2. Kind(before, q) # "none"
    BY <1>1, <2>1 DEF Adds
  <2>3. before[q] = e[q] /\ q \in DOMAIN before
    BY <1>1, <2>2, KindOf DEF Adds, Same
  <2>4. ~IsStrictPrefix(r, q)
    BY <1>1, <1>4, <2>3 DEF FreshBelow
  <2>5. q # r
    BY <1>3, <2>1
  <2>6. QED
    BY <1>1, <1>4, <2>4, <2>5 DEF KeptOutside
<1>5. QED
  BY <1>1, <1>2, <1>4 DEF Reached, LinksKept, e

\* What holds goes on to hold when a step treats entry j.
LEMMA StepHolds ==
  ASSUME NEW r, NEW j, Aims(r), Held(r), pc \in {"plan", "write", "modes"}, IsDisk(disk),
         source \in Sources, source' = source, before' = before, target' = target,
         Turns(at, at', j), Sets(disk, disk', r, tree[j].rel),
         tree[j].rel = << >> => Kind(disk', r) = "dir",
         Kind(disk', Then(r, tree[j].rel)) = "symlink" =>
           Same(disk, disk', Then(r, tree[j].rel)) \/ (tree[j].kind = "symlink" /\ at' = at + 1),
         at' = at + 1 =>
           \A i \in 1..(Len(tree[j].rel) - 1) : Kind(disk, Down(r, tree[j].rel, i)) # "symlink",
         pc' \in {"plan", "write", "modes"} => Passes(First.disk, target, disk'),
         Settled' \subseteq Settled \cup {j}, Settled \subseteq Settled',
         files' = Cardinality(Settled'),
         j \in Settled' => Shown(disk', Then(r, tree[j].rel), tree[j]),
         tree[j].kind = "dir" /\ j \in 1..(at' - 1) =>
           /\ Kind(disk', Then(r, tree[j].rel)) = "dir"
           /\ Shown(disk', Then(r, tree[j].rel), tree[j]) \/ Listed(dirs', tree[j]),
         \A k \in DOMAIN tree : k # j /\ Listed(dirs, tree[k]) => Listed(dirs', tree[k]),
         j \notin Settled' /\ IsRegular(tree[j]) =>
           pc' = "writeError" \/ WaitsAt(disk', Then(r, tree[j].rel), pc' = "readError"),
         pc' \in {"plan", "write"} =>
           /\ pc \in {"plan", "write"}
           /\ AllFull /\ Kind(disk', Then(r, tree[j].rel)) = "dir" =>
                Full \subseteq disk'[Then(r, tree[j].rel)].mode
  PROVE  Held(r)'
<1> DEFINE e == First.disk
           s == tree[j].rel
<1>1. /\ r \in Seq(Names) /\ Leads(e, target, r)
      /\ ~Fails(First) /\ KeptOutside(r, disk, e) /\ OnWay(disk)
      /\ LinksInv(r) /\ PlacedInv(r) /\ WaitingInv(r) /\ AllowedInv
  BY DEF Aims, Held
<1>2. j \in DOMAIN tree /\ s \in Seq(Names)
  BY EntryOfTree DEF Turns
<1>3. First' = First
  BY WayNext
<1>4. Kind(disk, r) = "dir"
  BY HeldReached, ReachedTarget
<1>5. KeptOutside(r, disk', e)
  <2>1. KeptOutside(r, disk, e) /\ Sets(disk, disk', r, s)
    BY <1>1
  <2>2. s = << >> => Kind(disk', r) = "dir"
    OBVIOUS
  <2> HIDE DEF e, s
  <2>3. QED
    BY <1>1, <1>2, <1>4, <2>1, <2>2, KeptStep
<1>6. KeptOutside(r, disk, First.disk)'
  BY <1>3, <1>5 DEF KeptOutside
<1>7. LinksInv(r)'
  <2>1. LinksAt(disk, at, r)
    BY <1>1, PartsNow
  <2>2. LinksAt(disk', at', r)
    BY <1>1, <2>1, LinksStep
  <2>3. QED
    BY <2>2, PartsNext
<1>8. PlacedInv(r)'
  <2>1. PlacedAt(disk, at, Settled, dirs, r)
    BY <1>1, PartsNow
  <2>2. Settled \subseteq DOMAIN tree
    <3>1. Settled \subseteq 1..(at - 1)
      BY DEF Settled, Past
    <3>2. \A k \in 1..(at - 1) : k \in DOMAIN tree
      BY TurnFacts
    <3>3. QED
      BY <3>1, <3>2
  <2>3. PlacedAt(disk', at', Settled', dirs', r)
    BY <1>1, <2>1, <2>2, PlacedStep
  <2>4. QED
    BY <2>3, PartsNext
<1>9. WaitingInv(r)'
  <2>1. WaitingAt(disk, Settled, FALSE, r)
    BY <1>1, WaitingNow
  <2>2. PICK cut : cut = (pc' = "readError")
    OBVIOUS
  <2>3. PICK odd \in 0..Len(tree) : odd = IF pc' = "writeError" THEN j ELSE 0
    <3>1. j \in 0..Len(tree) /\ 0 \in 0..Len(tree)
      BY <1>2, SourceFacts
    <3>2. QED
      BY <3>1
  <2>4. WaitingAt(disk', Settled' \cup {odd}, cut, r)
    <3>1. Settled \subseteq Settled' \cup {odd}
      OBVIOUS
    <3>2. j \notin Settled' \cup {odd} /\ IsRegular(tree[j]) => WaitsAt(disk', Then(r, tree[j].rel), cut)
      BY <2>2, <2>3
    <3>3. QED
      BY <1>1, <1>2, <2>1, <3>1, <3>2, WaitingStep
  <2>5. (pc' # "writeError" => odd = 0) /\ WaitingAt(disk', Settled' \cup {odd}, pc' = "readError", r)
    BY <2>2, <2>3, <2>4
  <2>6. QED
    BY <2>3, <2>5, PartsNext
<1>10. AllowedInv'
  <2>1. SUFFICES ASSUME pc' \in {"plan", "write"}, AllFull PROVE Permits(disk')
    BY WayNext
  <2>2. Permits(disk)
    BY <1>1, <2>1, WayIs
  <2>3. Kind(disk', Then(r, s)) = "dir" => Full \subseteq disk'[Then(r, s)].mode
    BY <2>1
  <2>4. QED
    BY <2>2, <2>3, PermitsStep
<1>11. (pc \in {"plan", "write", "modes"} => OnWay(disk))'
  BY WayNext
<1>12. QED
  BY <1>1, <1>3, <1>6, <1>7, <1>8, <1>9, <1>10, <1>11 DEF Held

\* What holds goes on to hold when only the pass changes.
LEMMA StillHolds ==
  ASSUME NEW r, Held(r), source' = source, before' = before, target' = target,
         disk' = disk, at' = at, pending' = pending, dirs' = dirs, files' = files,
         pc' \in {"plan", "write", "modes"} => pc \in {"plan", "write", "modes"},
         pc' \in {"plan", "write"} => pc \in {"plan", "write"},
         pc = "readError" => pc' = "readError", pc = "writeError" => pc' = "writeError"
  PROVE  Held(r)'
<1>1. /\ ~Fails(First) /\ KeptOutside(r, disk, First.disk)
      /\ pc \in {"plan", "write", "modes"} => OnWay(disk)
      /\ LinksInv(r) /\ PlacedInv(r) /\ WaitingInv(r) /\ AllowedInv
      /\ files = Cardinality(Settled)
  BY DEF Held
<1>2. First' = First /\ tree' = tree
  BY WayNext DEF tree
<1>3. Settled' = Settled
  BY <1>2 DEF Settled, Past
<1>4. (pc \in {"plan", "write", "modes"} => OnWay(disk))'
  BY <1>1, WayIs, WayNext
<1>5. LinksInv(r)' /\ PlacedInv(r)'
  <2>1. LinksAt(disk, at, r) /\ PlacedAt(disk, at, Settled, dirs, r)
    BY <1>1, PartsNow
  <2>2. LinksAt(disk', at', r) /\ PlacedAt(disk', at', Settled', dirs', r)
    BY <1>3, <2>1
  <2>3. QED
    BY <2>2, PartsNext
<1>6. WaitingInv(r)'
  <2>1. PICK odd \in 0..Len(tree) :
          (pc # "writeError" => odd = 0) /\ WaitingAt(disk, Settled \cup {odd}, pc = "readError", r)
    BY <1>1, PartsNow
  <2>2. WaitingAt(disk, Settled \cup {odd}, pc' = "readError", r)
    BY <2>1 DEF WaitingAt, WaitsAt
  <2>3. WaitingAt(disk', Settled' \cup {odd}, pc' = "readError", r) /\ (pc' # "writeError" => odd = 0)
    BY <1>3, <2>1, <2>2
  <2>4. QED
    BY <2>3, PartsNext
<1>7. AllowedInv'
  BY <1>1, WayIs, WayNext
<1>8. QED
  <2>1. KeptOutside(r, disk, First.disk)'
    BY <1>1, <1>2 DEF KeptOutside
  <2>2. ~Fails(First)' /\ (files = Cardinality(Settled))'
    BY <1>1, <1>2, <1>3
  <2>3. QED
    BY <1>4, <1>5, <1>6, <1>7, <2>1, <2>2 DEF Held

\* Nothing above an entry's path s, below the target, is a symlink.
Unlinked(d, r, s) == \A i \in 1..(Len(s) - 1) : Kind(d, Down(r, s, i)) # "symlink"

LEMMA UnlinkedClear ==
  ASSUME NEW d, NEW r, NEW s \in Seq(Names), Unlinked(d, r, s)
  PROVE  /\ Clear(d, r, s, Keep)
         /\ Kind(d, Then(r, s)) # "symlink" => Clear(d, r, s, Follow)
<1>1. Len(s) \in Nat
  OBVIOUS
<1>2. Down(r, s, Len(s)) = Then(r, s)
  <2>1. SubSeq(s, 1, Len(s)) = s
    OBVIOUS
  <2>2. QED
    BY <2>1 DEF Down, Then
<1>3. ASSUME NEW i \in 1..Len(s), Kind(d, Down(r, s, i)) = "symlink" PROVE i = Len(s)
  BY <1>1, <1>3 DEF Unlinked
<1>4. QED
  BY <1>2, <1>3 DEF Clear, Keep, Follow

\* The target's directory and the way to it are kept.
LEMMA PassesSets ==
  ASSUME NEW e, NEW p, NEW d, NEW y, NEW r, NEW s, Passes(e, p, d), Sets(d, y, r, s),
         Kind(d, Then(r, s)) = "dir" => Kind(y, Then(r, s)) = "dir"
  PROVE  Passes(e, p, y)
<1>1. ASSUME NEW a, Kind(d, a) = "dir" PROVE Kind(y, a) = "dir"
  <2>1. CASE a = Then(r, s)
    BY <1>1, <2>1
  <2>2. CASE a # Then(r, s)
    BY <1>1, <2>2, SetsElse DEF Same, Fresh
  <2>3. QED
    BY <2>1, <2>2
<1>2. QED
  BY <1>1 DEF Passes

\* The directories above an entry.
LEMMA FrontMade ==
  ASSUME NEW e, NEW p \in Seq(Names), NEW r \in Seq(Names), NEW d, Reached(e, p, r, d),
         NEW s \in Seq(Names), s # << >>, Unlinked(d, r, s)
  PROVE  LET m == MkdirAll(d, Front(Then(p, s))) IN
         /\ Adds(d, m.disk) /\ Grows(d, m.disk, r, Front(s)) /\ Reached(e, p, r, m.disk)
         /\ Unlinked(m.disk, r, s) /\ Same(d, m.disk, Then(r, s))
         /\ Permits(d) => Permits(m.disk) /\ m.error # "EACCES"
<1> DEFINE u == Front(s)
           m == MkdirAll(d, Then(p, u))
<1>1. u \in Seq(Names) /\ Front(Then(p, s)) = Then(p, u) /\ Len(u) = Len(s) - 1 /\ Len(s) \in Nat
  BY FrontDown
<1>2. \A i \in 1..(Len(s) - 1) : Down(r, u, i) = Down(r, s, i)
  BY FrontDown
<1>3. IsDisk(d)
  BY DEF Reached
<1>4. Clear(d, r, u, Follow)
  BY <1>1, <1>2 DEF Clear, Unlinked
<1>5. Then(p, u) \in Seq(Names)
  BY <1>1, ThenNames
<1>6. Adds(d, m.disk) /\ (Permits(d) => m.error # "EACCES")
  BY <1>3, <1>5, MkdirAdds
<1>7. Grows(d, m.disk, r, u)
  BY <1>1, <1>4, MkdirBelow
<1> HIDE DEF m, u
<1>8. Reached(e, p, r, m.disk) /\ Clear(m.disk, r, u, Follow)
  BY <1>4, <1>6, AddsReached
<1>9. Unlinked(m.disk, r, s)
  BY <1>1, <1>2, <1>8 DEF Clear, Unlinked
<1>10. Same(d, m.disk, Then(r, s))
  <2>1. IsDisk(m.disk) /\ \A a : a # Then(r, s) => Same(m.disk, m.disk, a)
    BY <1>6 DEF Adds, Same
  <2>2. QED
    BY <1>6, <1>7, <2>1, GrowsThenSets DEF u
<1>11. Permits(d) => Permits(m.disk)
  BY <1>6, AddsPermits
<1>12. QED
  BY <1>1, <1>6, <1>7, <1>8, <1>9, <1>10, <1>11 DEF m, u

\* A node put at the entry's path, once the directories above are there.
Puts(d, y, r, s, n) ==
  /\ Sets(d, y, r, s) /\ Kind(d, Then(r, s)) \in {"none", n.kind}
  /\ Kind(y, Then(r, s)) = n.kind /\ y[Then(r, s)] = n

LEMMA LeavesSets ==
  ASSUME NEW d, NEW m, NEW y, NEW n, NEW r, NEW s,
         Leaves(m, y, Then(r, s), n), Grows(d, m, r, Front(s)), Adds(d, m),
         r \in Seq(Names), s \in Seq(Names), s # << >>
  PROVE  Puts(d, y, r, s, n)
<1>1. IsDisk(y) /\ SetAt(m, y, Then(r, s), n) /\ Kind(m, Then(r, s)) \in {"none", n.kind}
  BY DEF Leaves
<1>2. /\ Kind(y, Then(r, s)) = n.kind /\ y[Then(r, s)] = n
      /\ \A a : a # Then(r, s) => Same(m, y, a)
  BY <1>1, SetAtKinds
<1>3. Sets(d, y, r, s) /\ Same(d, m, Then(r, s))
  BY <1>1, <1>2, GrowsThenSets
<1>4. QED
  BY <1>1, <1>2, <1>3 DEF Same, Puts

\* A file of the tree is written at its own path.
LEMMA FileBelow ==
  ASSUME NEW e, NEW r \in Seq(Names), NEW x, target \in Seq(Names), Reached(e, target, r, disk),
         x.rel \in Seq(Names), x.rel # << >>, Unlinked(disk, r, x.rel),
         Kind(disk, Then(r, x.rel)) # "symlink"
  PROVE  LET v == FileMade(x)
             q == Then(r, x.rel)
         IN  /\ Sets(disk, v.disk, r, x.rel)
             /\ \/ /\ Fails(v) /\ Same(disk, v.disk, q)
                   /\ v.error = "EACCES" =>
                        ~Permits(disk) \/ (Kind(disk, q) = "file" /\ "w" \notin disk[q].mode)
                \/ /\ ~Fails(v) /\ Kind(disk, q) \in {"none", "file"}
                   /\ Kind(v.disk, q) = "file" /\ v.disk[q] = File(Perm(x), x.content)
<1> DEFINE s == x.rel
           u == Then(target, s)
           m == MkdirAll(disk, Front(u))
           b == Written(m.disk, u, x)
           w == Walk(m.disk, u, Follow)
           q == Then(r, s)
           n == File(Perm(x), x.content)
<1>0. s \in Seq(Names) /\ s # << >> /\ u \in Seq(Names) /\ u \in Seq(Word)
  BY ThenNames, NamesAreWords
<1>1. FileMade(x) = IF Fails(m) THEN m ELSE b
  BY DEF FileMade, Here, Then
<1>2. /\ Adds(disk, m.disk) /\ Grows(disk, m.disk, r, Front(s)) /\ Reached(e, target, r, m.disk)
      /\ Unlinked(m.disk, r, s) /\ Same(disk, m.disk, q)
      /\ Permits(disk) => Permits(m.disk) /\ m.error # "EACCES"
  BY FrontMade
<1>3. n.kind = "file"
  BY FileIsNode
<1> HIDE DEF m, n
<1>4. IsDisk(m.disk) /\ Leads(e, target, r) /\ LinksKept(e, m.disk) /\ Open(e, target, m.disk)
  BY <1>2, ReachedTarget DEF Reached
<1>5. Kind(m.disk, q) = Kind(disk, q) /\ (Kind(disk, q) # "none" => m.disk[q] = disk[q])
  BY <1>2 DEF Same
<1>6. Clear(m.disk, r, s, Follow)
  BY <1>0, <1>2, <1>5, UnlinkedClear
<1>7. ~Fails(w) => w.at = q
  BY <1>0, <1>4, <1>6, WalkBelow
<1>8. \/ /\ Fails(b) /\ b.disk = m.disk
         /\ b.error = "EACCES" =>
              ~Permits(m.disk) \/ (~Fails(w) /\ Kind(m.disk, w.at) = "file" /\ "w" \notin m.disk[w.at].mode)
      \/ b.error = NoError /\ ~Fails(w) /\ Leaves(m.disk, b.disk, w.at, n)
  BY <1>0, <1>4, WrittenIs DEF n
<1> HIDE DEF b, w, u
<1>9. Sets(disk, m.disk, r, s)
  <2>1. \A a : a # q => Same(m.disk, m.disk, a)
    BY DEF Same
  <2>2. QED
    BY <1>0, <1>2, <1>4, <2>1, GrowsThenSets
<1>10. CASE Fails(m)
  BY <1>1, <1>2, <1>9, <1>10
<1>11. CASE ~Fails(m) /\ Fails(b)
  <2>1. FileMade(x) = b
    BY <1>1, <1>11
  <2>2. b.disk = m.disk
    BY <1>8, <1>11 DEF Fails
  <2>3. b.error = "EACCES" => ~Permits(disk) \/ (Kind(disk, q) = "file" /\ "w" \notin disk[q].mode)
    BY <1>2, <1>5, <1>7, <1>8, <1>11 DEF Fails
  <2>4. QED
    BY <1>2, <1>9, <1>11, <2>1, <2>2, <2>3
<1>12. CASE ~Fails(m) /\ ~Fails(b)
  <2>1. FileMade(x) = b /\ Leaves(m.disk, b.disk, q, n)
    BY <1>1, <1>7, <1>8, <1>12
  <2>2. Puts(disk, b.disk, r, s, n)
    BY <1>0, <1>2, <2>1, LeavesSets
  <2>3. QED
    BY <1>3, <1>12, <2>1, <2>2 DEF n, Puts
<1>13. QED
  BY <1>10, <1>11, <1>12

\* And so is what is left of one that was cut.
LEMMA CutBelow ==
  ASSUME NEW e, NEW r \in Seq(Names), NEW x, target \in Seq(Names), Reached(e, target, r, disk),
         x.rel \in Seq(Names), x.rel # << >>, Unlinked(disk, r, x.rel),
         Kind(disk, Then(r, x.rel)) # "symlink"
  PROVE  LET m == MkdirAll(disk, Front(Here(x)))
             v == Cut(m.disk, Here(x), x)
             q == Then(r, x.rel)
         IN  ~Fails(v) =>
               /\ Sets(disk, v.disk, r, x.rel) /\ Kind(disk, q) \in {"none", "file"}
               /\ Kind(v.disk, q) = "file" /\ v.disk[q].content = "partial"
<1> DEFINE s == x.rel
           u == Then(target, s)
           m == MkdirAll(disk, Front(u))
           b == WriteFile(m.disk, u, Perm(x), "partial")
           w == Walk(m.disk, u, Follow)
           q == Then(r, s)
<1>0. s \in Seq(Names) /\ s # << >> /\ u \in Seq(Names) /\ u \in Seq(Word) /\ Here(x) = u
  BY ThenNames, NamesAreWords DEF Here, Then
<1>1. Cut(m.disk, Here(x), x) = b /\ MkdirAll(disk, Front(Here(x))) = m
  BY <1>0 DEF Cut
<1>2. /\ Adds(disk, m.disk) /\ Grows(disk, m.disk, r, Front(s)) /\ Reached(e, target, r, m.disk)
      /\ Unlinked(m.disk, r, s) /\ Same(disk, m.disk, q)
  BY FrontMade
<1> HIDE DEF m
<1>4. IsDisk(m.disk) /\ Leads(e, target, r) /\ LinksKept(e, m.disk) /\ Open(e, target, m.disk)
  BY <1>2, ReachedTarget DEF Reached
<1>5. Kind(m.disk, q) = Kind(disk, q)
  BY <1>2 DEF Same
<1>6. Clear(m.disk, r, s, Follow)
  BY <1>0, <1>2, <1>5, UnlinkedClear
<1>7. ~Fails(w) => w.at = q
  BY <1>0, <1>4, <1>6, WalkBelow
<1>8. Fails(b) \/ (~Fails(w) /\ \E k : Leaves(m.disk, b.disk, w.at, File(k, "partial")))
  BY <1>0, <1>4, WriteIs
<1> HIDE DEF b, w, u
<1>9. SUFFICES ASSUME ~Fails(b)
               PROVE  /\ Sets(disk, b.disk, r, x.rel) /\ Kind(disk, q) \in {"none", "file"}
                      /\ Kind(b.disk, q) = "file" /\ b.disk[q].content = "partial"
  BY <1>1
<1>10. PICK k : Leaves(m.disk, b.disk, q, File(k, "partial"))
  BY <1>7, <1>8, <1>9
<1> DEFINE n == File(k, "partial")
<1>11. n.kind = "file"
  BY FileIsNode
<1>12. n.content = "partial"
  BY DEF File, Node
<1>13. Leaves(m.disk, b.disk, q, n)
  BY <1>10
<1> HIDE DEF n
<1>14. Puts(disk, b.disk, r, s, n)
  BY <1>0, <1>2, <1>13, LeavesSets
<1>15. QED
  BY <1>11, <1>12, <1>14 DEF Puts

\* A directory of the tree is made at its own path.
LEMMA DirBelow ==
  ASSUME NEW e, NEW r \in Seq(Names), NEW x, target \in Seq(Names), Reached(e, target, r, disk),
         x.rel \in Seq(Names), Unlinked(disk, r, x.rel), Kind(disk, Then(r, x.rel)) # "symlink"
  PROVE  LET m == MkdirAll(disk, Here(x))
             q == Then(r, x.rel)
         IN  /\ Sets(disk, m.disk, r, x.rel) /\ (~Fails(m) => Kind(m.disk, q) = "dir")
             /\ Same(disk, m.disk, q) \/ Fresh(disk, m.disk, q)
             /\ m.error = "EACCES" => ~Permits(disk)
<1> DEFINE s == x.rel
           u == Then(target, s)
           m == MkdirAll(disk, u)
           q == Then(r, s)
<1>1. s \in Seq(Names) /\ u \in Seq(Names) /\ Here(x) = u /\ IsDisk(disk)
  BY ThenNames DEF Here, Then, Reached
<1>2. Clear(disk, r, s, Follow)
  BY UnlinkedClear
<1>3. Grows(disk, m.disk, r, s) /\ (~Fails(m) => Kind(m.disk, q) = "dir")
  BY <1>1, <1>2, MkdirBelow
<1>4. Adds(disk, m.disk) /\ (Permits(disk) => m.error # "EACCES")
  BY <1>1, MkdirAdds
<1> HIDE DEF m
<1>5. Sets(disk, m.disk, r, s)
  BY <1>1, <1>3, <1>4, GrowsSets
<1>6. Same(disk, m.disk, q) \/ Fresh(disk, m.disk, q)
  BY <1>3, <1>4 DEF Grows, Adds, Fresh, Same
<1>7. QED
  BY <1>1, <1>3, <1>4, <1>5, <1>6 DEF m

\* And gets its mode there.
LEMMA ModeBelow ==
  ASSUME NEW e, NEW r \in Seq(Names), NEW x, target \in Seq(Names), Reached(e, target, r, disk),
         x.rel \in Seq(Names), Unlinked(disk, r, x.rel), Kind(disk, Then(r, x.rel)) = "dir"
  PROVE  LET v == Chmod(disk, Here(x), Perm(x))
             q == Then(r, x.rel)
         IN  \/ Fails(v) /\ v.disk = disk
             \/ /\ ~Fails(v) /\ Sets(disk, v.disk, r, x.rel)
                /\ Kind(v.disk, q) = "dir" /\ v.disk[q] = Directory(Perm(x))
<1> DEFINE s == x.rel
           u == Then(target, s)
           w == Walk(disk, u, Follow)
           v == Chmod(disk, u, Perm(x))
           q == Then(r, s)
           n == [disk[q] EXCEPT !.mode = Perm(x)]
<1>1. s \in Seq(Names) /\ u \in Seq(Names) /\ u \in Seq(Word) /\ Here(x) = u /\ IsDisk(disk)
  BY ThenNames, NamesAreWords DEF Here, Then, Reached
<1>2. Clear(disk, r, s, Follow)
  BY UnlinkedClear
<1>3. Leads(e, target, r) /\ LinksKept(e, disk) /\ Open(e, target, disk)
  BY ReachedTarget DEF Reached
<1>4. ~Fails(w) => w.at = q
  BY <1>1, <1>2, <1>3, WalkBelow
<1>5. \/ Fails(v) /\ v.disk = disk
      \/ /\ v.error = NoError /\ ~Fails(w) /\ IsDisk(v.disk)
         /\ SetAt(disk, v.disk, w.at, [disk[w.at] EXCEPT !.mode = Perm(x)])
  BY <1>1, ChmodIs
<1>6. n = Directory(Perm(x)) /\ n.kind = "dir"
  <2>1. IsNode(disk[q]) /\ disk[q].kind = "dir"
    BY <1>1, KindOf
  <2>2. n = Directory(Perm(x))
    BY <2>1, NodeMode
  <2>3. Directory(Perm(x)).kind = "dir"
    BY DEF Directory, Node
  <2>4. QED
    BY <2>2, <2>3
<1> HIDE DEF w, v
<1>7. CASE Fails(v)
  <2>1. v.disk = disk
    BY <1>5, <1>7 DEF Fails
  <2>2. QED
    BY <1>1, <1>7, <2>1 DEF v
<1>8. CASE ~Fails(v)
  <2>1. IsDisk(v.disk) /\ SetAt(disk, v.disk, q, n)
    BY <1>4, <1>5, <1>8
  <2> HIDE DEF n
  <2>2. Kind(v.disk, q) = n.kind /\ v.disk[q] = n /\ \A a : a # q => Same(disk, v.disk, a)
    BY <2>1, SetAtKinds
  <2>3. Sets(disk, v.disk, r, s)
    BY <2>1, <2>2 DEF Sets
  <2>4. QED
    BY <1>1, <1>6, <1>8, <2>2, <2>3 DEF v
<1>9. QED
  BY <1>7, <1>8

\* What is at a symlink's path goes away, or stays.
Removes(e, p, r, d, s, v) ==
  LET z == v.disk
      q == Then(r, s)
  IN  /\ IsDisk(z) /\ \A a : a # q => Same(d, z, a)
      /\ Same(d, z, q) \/ Kind(z, q) = "none"
      /\ LinksKept(e, z) /\ Open(e, p, z) /\ Unlinked(z, r, s)
      /\ Permits(d) => Permits(z) /\ v.error # "EACCES"

LEMMA RemoveBelow ==
  ASSUME NEW e, NEW p, NEW r, NEW d, NEW s, Reached(e, p, r, d), Unlinked(d, r, s),
         p \in Seq(Names), r \in Seq(Names), s \in Seq(Names), s # << >>,
         Kind(e, Then(r, s)) # "symlink"
  PROVE  Removes(e, p, r, d, s, RemoveNode(d, Then(p, s)))
<1> DEFINE u == Then(p, s)
           w == Walk(d, u, Keep)
           v == RemoveNode(d, u)
           z == v.disk
           q == Then(r, s)
<1>1. u \in Seq(Word) /\ IsDisk(d) /\ Leads(e, p, r) /\ LinksKept(e, d) /\ Open(e, p, d) /\ IsDisk(e)
  BY ThenNames, NamesAreWords, ReachedTarget DEF Reached, Leads
<1>2. ~Fails(w) => w.at = q
  BY <1>1, UnlinkedClear, WalkBelow
<1>3. \/ Fails(v) /\ v.disk = d /\ (v.error = "EACCES" => ~Permits(d))
      \/ v.error = NoError /\ ~Fails(w) /\ IsDisk(v.disk) /\ RemovedAt(d, v.disk, w.at)
  BY <1>1, RemoveIs
<1>4. "EACCES" # NoError
  BY StopFails
<1> HIDE DEF v, w
<1>5. IsDisk(z) /\ (\A a : a # q => Same(d, z, a)) /\ (Same(d, z, q) \/ Kind(z, q) = "none")
  <2>1. CASE Fails(v)
    <3>1. z = d
      BY <1>3, <2>1 DEF Fails
    <3>2. QED
      BY <1>1, <3>1 DEF Same
  <2>2. CASE ~Fails(v)
    <3>1. IsDisk(z) /\ RemovedAt(d, z, q)
      BY <1>2, <1>3, <2>2
    <3>2. QED
      BY <3>1, RemovedKinds
  <2>3. QED
    BY <2>1, <2>2
<1>6. Permits(d) => v.error # "EACCES"
  BY <1>3, <1>4
<1> HIDE DEF z, q
<1>7. \A a : Kind(z, a) # "none" => Kind(d, a) = Kind(z, a) /\ z[a] = d[a]
  BY <1>5 DEF Same
<1>8. LinksKept(e, z)
  <2>1. SUFFICES ASSUME NEW a \in DOMAIN e, e[a].kind = "symlink" PROVE a \in DOMAIN z /\ z[a] = e[a]
    BY DEF LinksKept
  <2>2. a \in DOMAIN d /\ d[a] = e[a]
    BY <1>1, <2>1 DEF LinksKept
  <2>3. a # q
    BY <1>1, <2>1, KindOf DEF q
  <2>4. Same(d, z, a) /\ Kind(d, a) # "none"
    BY <1>1, <1>5, <2>2, <2>3, KindOf
  <2>5. z[a] = d[a] /\ Kind(z, a) # "none"
    BY <2>4 DEF Same
  <2>6. a \in DOMAIN z
    BY <1>5, <2>5, KindOf
  <2>7. QED
    BY <2>2, <2>5, <2>6
<1>9. Open(e, p, z)
  <2>1. \A k \in 0..Fuel : Kind(d, Trail(e, p, Follow)[k].at) # "symlink"
    BY <1>1 DEF Open
  <2>2. \A a : Kind(z, a) = "symlink" => Kind(d, a) = "symlink"
    BY <1>7
  <2>3. QED
    BY <2>1, <2>2 DEF Open
<1>10. Unlinked(z, r, s)
  BY <1>7 DEF Unlinked
<1>11. Permits(d) => Permits(z)
  <2>1. SUFFICES ASSUME Permits(d), NEW a \in DOMAIN z, z[a].kind = "dir" PROVE Full \subseteq z[a].mode
    BY DEF Permits
  <2>2. Kind(z, a) = "dir"
    BY <1>5, <2>1, KindOf
  <2>3. Kind(d, a) = "dir" /\ z[a] = d[a]
    BY <1>7, <2>2
  <2>4. a \in DOMAIN d /\ d[a].kind = "dir"
    BY <1>1, <2>3, KindOf
  <2>5. QED
    BY <2>1, <2>3, <2>4 DEF Permits
<1>12. QED
  BY <1>5, <1>6, <1>8, <1>9, <1>10, <1>11 DEF z, v, q, Removes

\* A symlink of the tree is made at its own path.
LEMMA LinkBelow ==
  ASSUME NEW e, NEW r \in Seq(Names), NEW x, target \in Seq(Names), Reached(e, target, r, disk),
         x.rel \in Seq(Names), x.rel # << >>, x.link \in Seq(Word), Unlinked(disk, r, x.rel),
         Kind(e, Then(r, x.rel)) # "symlink"
  PROVE  LET v == Linked(x)
             q == Then(r, x.rel)
         IN  /\ Sets(disk, v.disk, r, x.rel) /\ (v.error = "EACCES" => ~Permits(disk))
             /\ \/ Fails(v) /\ (Same(disk, v.disk, q) \/ Kind(v.disk, q) = "none")
                \/ /\ ~Fails(v) /\ Kind(v.disk, q) = "symlink" /\ v.disk[q] = Symlink(x.link)
                   /\ Passes(e, target, v.disk)
<1> DEFINE s == x.rel
           u == Then(target, s)
           q == Then(r, s)
           m == MkdirAll(disk, Front(u))
           b == RemoveNode(m.disk, u)
           z == b.disk
           c == MakeSymlink(z, u, x.link)
           w == Walk(z, u, Keep)
           n == Symlink(x.link)
           v == Linked(x)
<1>1. s \in Seq(Names) /\ s # << >> /\ u \in Seq(Names) /\ u \in Seq(Word) /\ Here(x) = u
  BY ThenNames, NamesAreWords DEF Here, Then
<1>2. v = IF Fails(m) THEN m ELSE IF Fails(b) /\ b.error # "ENOENT" THEN b ELSE c
  BY <1>1 DEF Linked
<1>3. /\ Adds(disk, m.disk) /\ Grows(disk, m.disk, r, Front(s)) /\ Reached(e, target, r, m.disk)
      /\ Unlinked(m.disk, r, s) /\ Same(disk, m.disk, q)
      /\ Permits(disk) => Permits(m.disk) /\ m.error # "EACCES"
  BY FrontMade
<1> HIDE DEF m
<1>3a. Removes(e, target, r, m.disk, s, b)
  BY <1>1, <1>3, RemoveBelow
<1>4. /\ IsDisk(z) /\ \A a : a # q => Same(m.disk, z, a)
      /\ Same(m.disk, z, q) \/ Kind(z, q) = "none"
      /\ LinksKept(e, z) /\ Open(e, target, z) /\ Unlinked(z, r, s)
      /\ Permits(m.disk) => Permits(z) /\ b.error # "EACCES"
  BY <1>3a DEF Removes
<1> HIDE DEF b
<1>5. Leads(e, target, r) /\ IsDisk(m.disk)
  BY <1>3 DEF Reached
<1>6. ~Fails(w) => w.at = q /\ Passes(e, target, z)
  BY <1>1, <1>4, <1>5, UnlinkedClear, WalkBelow
<1>7. \/ Fails(c) /\ c.disk = z /\ (c.error = "EACCES" => ~Permits(z))
      \/ c.error = NoError /\ ~Fails(w) /\ Kind(z, w.at) = "none" /\ Leaves(z, c.disk, w.at, n)
  BY <1>1, <1>4, LinkIs
<1>8. n.kind = "symlink"
  BY DEF Symlink, Node
<1> HIDE DEF w, c, n
\* What holds of the disk z, and of m's.
<1>9. Sets(disk, m.disk, r, s)
  <2>1. \A a : a # q => Same(m.disk, m.disk, a)
    BY DEF Same
  <2>2. QED
    BY <1>1, <1>3, <1>5, <2>1, GrowsThenSets
<1>10. Sets(disk, z, r, s)
  BY <1>1, <1>3, <1>4, GrowsThenSets
<1>11. Same(disk, z, q) \/ Kind(z, q) = "none"
  BY <1>3, <1>4, SameMore
<1> HIDE DEF z
<1>12. CASE Fails(m)
  <2>1. v = m
    BY <1>2, <1>12
  <2>2. QED
    BY <1>3, <1>9, <1>12, <2>1 DEF v, q
<1>13. CASE ~Fails(m) /\ Fails(b) /\ b.error # "ENOENT"
  <2>1. v = b /\ v.disk = z
    BY <1>2, <1>13 DEF z
  <2>2. v.error = "EACCES" => ~Permits(disk)
    BY <1>3, <1>4, <2>1
  <2>3. QED
    BY <1>10, <1>11, <1>13, <2>1, <2>2 DEF v, q
<1>14. CASE ~Fails(m) /\ ~(Fails(b) /\ b.error # "ENOENT") /\ Fails(c)
  <2>1. v = c
    BY <1>2, <1>14
  <2>2. c.disk = z /\ (c.error = "EACCES" => ~Permits(z))
    BY <1>7, <1>14 DEF Fails
  <2>3. v.error = "EACCES" => ~Permits(disk)
    BY <1>3, <1>4, <2>1, <2>2
  <2>4. QED
    BY <1>10, <1>11, <1>14, <2>1, <2>2, <2>3 DEF v, q
<1>15. CASE ~Fails(m) /\ ~(Fails(b) /\ b.error # "ENOENT") /\ ~Fails(c)
  <2>1. v = c
    BY <1>2, <1>15
  <2>2. Kind(z, q) = "none" /\ Leaves(z, c.disk, q, n) /\ Passes(e, target, z)
    BY <1>6, <1>7, <1>15
  <2> HIDE DEF q
  <2>3. IsDisk(c.disk) /\ SetAt(z, c.disk, q, n)
    BY <2>2 DEF Leaves
  <2>4. Kind(c.disk, q) = n.kind /\ c.disk[q] = n /\ \A a : a # q => Same(z, c.disk, a)
    BY <2>3, SetAtKinds
  <2>5. \A a : a # q => Same(m.disk, c.disk, a)
    BY <1>4, <2>4, SameMore
  <2>6. Sets(disk, c.disk, r, s)
    BY <1>1, <1>3, <2>3, <2>5, GrowsThenSets DEF q
  <2>7. Passes(e, target, c.disk)
    <3>1. ASSUME NEW a, Kind(z, a) = "dir" PROVE Kind(c.disk, a) = "dir"
      <4>1. a # q
        BY <2>2, <3>1
      <4>2. QED
        BY <2>4, <3>1, <4>1 DEF Same
    <3>2. QED
      BY <2>2, <3>1 DEF Passes
  <2>8. v.error = "EACCES" => ~Permits(disk)
    <3>1. "EACCES" # NoError
      BY StopFails
    <3>2. QED
      BY <1>15, <2>1, <3>1 DEF Fails
  <2>9. QED
    BY <1>8, <1>15, <2>1, <2>4, <2>6, <2>7, <2>8 DEF v, n, q
<1>16. QED
  BY <1>12, <1>13, <1>14, <1>15

-----------------------------------------------------------------------------
(***************************************************************************)
(* What the passes do to the lists.                                        *)
(***************************************************************************)

-----------------------------------------------------------------------------
(***************************************************************************)
(* What the calls for an entry leave when the disk fails.                  *)
(***************************************************************************)

LEMMA DirLeft ==
  ASSUME NEW e, NEW r \in Seq(Names), NEW x, target \in Seq(Names), Reached(e, target, r, disk),
         x.rel \in Seq(Names), Unlinked(disk, r, x.rel), Kind(disk, Then(r, x.rel)) # "symlink",
         NEW y \in Made(disk, Here(x))
  PROVE  /\ Sets(disk, y, r, x.rel) /\ Kind(y, Then(r, x.rel)) # "symlink"
         /\ Kind(disk, r) = "dir" => Kind(y, r) = "dir"
<1> DEFINE s == x.rel
           u == Then(target, s)
           m == MkdirAll(disk, u)
<1>1. s \in Seq(Names) /\ u \in Seq(Names) /\ Here(x) = u /\ IsDisk(disk)
  BY ThenNames DEF Here, Then, Reached
<1>2. Clear(disk, r, s, Follow)
  BY UnlinkedClear
<1>3. Grows(disk, m.disk, r, s)
  BY <1>1, <1>2, MkdirBelow
<1>4. Adds(disk, y) /\ Adds(y, m.disk)
  BY <1>1, MadeBetween
<1> HIDE DEF m
<1>5. Grows(disk, y, r, s)
  BY <1>3, <1>4, BetweenGrows
<1>6. Sets(disk, y, r, s)
  BY <1>1, <1>4, <1>5, GrowsSets
<1>7. \A a : Kind(y, a) = "symlink" => Kind(disk, a) = "symlink"
  BY <1>4 DEF Adds, Same
<1>8. Kind(disk, r) = "dir" => Kind(y, r) = "dir"
  BY <1>4 DEF Adds, Same
<1>9. QED
  BY <1>6, <1>7, <1>8

LEMMA FrontLeft ==
  ASSUME NEW e, NEW p \in Seq(Names), NEW r \in Seq(Names), NEW d, Reached(e, p, r, d),
         NEW s \in Seq(Names), s # << >>, Unlinked(d, r, s), NEW y \in Made(d, Front(Then(p, s)))
  PROVE  Sets(d, y, r, s) /\ Same(d, y, Then(r, s))
<1> DEFINE a == Front(Then(p, s))
           m == MkdirAll(d, a)
<1>1. Adds(d, m.disk) /\ Grows(d, m.disk, r, Front(s))
  BY FrontMade
<1>2. a \in Seq(Names) /\ IsDisk(d)
  BY FrontDown, ThenNames DEF Reached
<1>3. Adds(d, y) /\ Adds(y, m.disk)
  BY <1>2, MadeBetween
<1> HIDE DEF m, a
<1>4. Grows(d, y, r, Front(s))
  BY <1>1, <1>3, BetweenGrows
<1>5. IsDisk(y) /\ \A b : b # Then(r, s) => Same(y, y, b)
  BY <1>3 DEF Adds, Same
<1>6. QED
  BY <1>3, <1>4, <1>5, GrowsThenSets

LEMMA FileLeftBelow ==
  ASSUME NEW e, NEW r \in Seq(Names), NEW x, target \in Seq(Names), Reached(e, target, r, disk),
         x.rel \in Seq(Names), x.rel # << >>, Unlinked(disk, r, x.rel),
         Kind(disk, Then(r, x.rel)) # "symlink", NEW y \in FileLeft(Here(x), x)
  PROVE  Sets(disk, y, r, x.rel) /\ Kind(y, Then(r, x.rel)) # "symlink"
<1> DEFINE s == x.rel
           u == Then(target, s)
           m == MkdirAll(disk, Front(u))
           w == Walk(m.disk, u, Follow)
           q == Then(r, s)
<1>1. s \in Seq(Names) /\ s # << >> /\ u \in Seq(Names) /\ u \in Seq(Word) /\ Here(x) = u
  BY ThenNames, NamesAreWords DEF Here, Then
<1>2. y \in Made(disk, Front(u)) \/ \E c : y = WriteFile(m.disk, u, Perm(x), c).disk
  BY <1>1 DEF FileLeft
<1>3. CASE y \in Made(disk, Front(u))
  <2>1. Sets(disk, y, r, s) /\ Same(disk, y, q)
    BY <1>1, <1>3, FrontLeft
  <2>2. QED
    BY <2>1 DEF Same
<1>4. ASSUME NEW c, y = WriteFile(m.disk, u, Perm(x), c).disk
      PROVE  Sets(disk, y, r, s) /\ Kind(y, q) # "symlink"
  <2> DEFINE b == WriteFile(m.disk, u, Perm(x), c)
  <2>1. /\ Adds(disk, m.disk) /\ Grows(disk, m.disk, r, Front(s)) /\ Reached(e, target, r, m.disk)
        /\ Unlinked(m.disk, r, s) /\ Same(disk, m.disk, q)
    BY <1>1, FrontMade
  <2> HIDE DEF m
  <2>2. IsDisk(m.disk) /\ Leads(e, target, r) /\ LinksKept(e, m.disk) /\ Open(e, target, m.disk)
    BY <2>1, ReachedTarget DEF Reached
  <2>3. Kind(m.disk, q) = Kind(disk, q)
    BY <2>1 DEF Same
  <2>4. Clear(m.disk, r, s, Follow)
    BY <1>1, <2>1, <2>3, UnlinkedClear
  <2>5. ~Fails(w) => w.at = q
    BY <1>1, <2>2, <2>4, WalkBelow
  <2>6. b.disk = m.disk \/ (~Fails(w) /\ \E k : Leaves(m.disk, b.disk, w.at, File(k, c)))
    BY <1>1, <2>2, WriteIs
  <2>7. y = b.disk
    BY <1>4
  <2> HIDE DEF b, w, u
  <2>8. CASE y = m.disk
    <3>1. \A a : a # q => Same(m.disk, m.disk, a)
      BY DEF Same
    <3>2. Sets(disk, m.disk, r, s)
      BY <1>1, <2>1, <2>2, <3>1, GrowsThenSets
    <3>3. QED
      BY <2>3, <2>8, <3>2
  <2>9. CASE y # m.disk
    <3>1. PICK k : Leaves(m.disk, y, q, File(k, c))
      BY <2>5, <2>6, <2>7, <2>9
    <3> DEFINE n == File(k, c)
    <3>2. n.kind = "file"
      BY FileIsNode
    <3>3. Leaves(m.disk, y, q, n)
      BY <3>1
    <3> HIDE DEF n
    <3>4. Puts(disk, y, r, s, n)
      BY <1>1, <2>1, <3>3, LeavesSets
    <3>5. QED
      BY <3>2, <3>4 DEF Puts
  <2>10. QED
    BY <2>8, <2>9
<1>5. QED
  BY <1>2, <1>3, <1>4

LEMMA LinkLeftBelow ==
  ASSUME NEW e, NEW r \in Seq(Names), NEW x, target \in Seq(Names), Reached(e, target, r, disk),
         x.rel \in Seq(Names), x.rel # << >>, Unlinked(disk, r, x.rel),
         Kind(disk, Then(r, x.rel)) # "symlink", Kind(e, Then(r, x.rel)) # "symlink",
         NEW y \in LinkLeft(x)
  PROVE  Sets(disk, y, r, x.rel) /\ Kind(y, Then(r, x.rel)) # "symlink"
<1> DEFINE s == x.rel
           u == Then(target, s)
           m == MkdirAll(disk, Front(u))
           v == RemoveNode(m.disk, u)
           q == Then(r, s)
<1>1. s \in Seq(Names) /\ s # << >> /\ u \in Seq(Names) /\ Here(x) = u
  BY ThenNames DEF Here, Then
<1>2. y \in Made(disk, Front(u)) \/ y = v.disk
  BY <1>1 DEF LinkLeft
<1>3. CASE y \in Made(disk, Front(u))
  <2>1. Sets(disk, y, r, s) /\ Same(disk, y, q)
    BY <1>1, <1>3, FrontLeft
  <2>2. QED
    BY <2>1 DEF Same
<1>4. CASE y = v.disk
  <2>1. /\ Adds(disk, m.disk) /\ Grows(disk, m.disk, r, Front(s)) /\ Reached(e, target, r, m.disk)
        /\ Unlinked(m.disk, r, s) /\ Same(disk, m.disk, q)
    BY <1>1, FrontMade
  <2> HIDE DEF m
  <2>2. Removes(e, target, r, m.disk, s, v)
    BY <1>1, <2>1, RemoveBelow
  <2> HIDE DEF v, u
  <2>3. /\ IsDisk(y) /\ \A a : a # q => Same(m.disk, y, a)
        /\ Same(m.disk, y, q) \/ Kind(y, q) = "none"
    BY <1>4, <2>2 DEF Removes
  <2>4. Sets(disk, y, r, s)
    BY <1>1, <2>1, <2>3, GrowsThenSets
  <2>5. Kind(y, q) # "symlink"
    BY <2>1, <2>3 DEF Same
  <2>6. QED
    BY <2>4, <2>5
<1>5. QED
  BY <1>2, <1>3, <1>4

-----------------------------------------------------------------------------

LEMMA TreeInjective ==
  ASSUME source \in Sources, NEW j \in DOMAIN tree, NEW k \in DOMAIN tree, tree[k] = tree[j]
  PROVE  k = j
<1>1. << >> \in Seq(Names)
  OBVIOUS
<1>2. QED
  BY <1>1, Distinct

LEMMA SettledFinite ==
  ASSUME at \in Nat
  PROVE  IsFiniteSet(Settled) /\ Cardinality(Settled) \in Nat
<1>1. IsFiniteSet(1..(at - 1))
  BY FS_Interval
<1>2. Settled \subseteq 1..(at - 1)
  BY DEF Settled, Past
<1>3. QED
  BY <1>1, <1>2, FS_Subset, FS_CardinalityType

LEMMA SettledSame ==
  ASSUME source' = source, at' = at, pending' = pending
  PROVE  Settled' = Settled
  BY DEF Settled, Past, tree

LEMMA SettledPlan ==
  ASSUME source \in Sources, source' = source, at \in DOMAIN tree, at' = at + 1
  PROVE  /\ tree[at].kind = "symlink" /\ pending' = pending =>
              Settled' = Settled \cup {at} /\ at \notin Settled
         /\ tree[at].kind # "symlink" /\ ~IsRegular(tree[at]) /\ pending' = pending => Settled' = Settled
         /\ IsRegular(tree[at]) /\ pending' = pending \cup {tree[at]} => Settled' = Settled
<1>0. tree' = tree
  BY DEF tree
<1>1. at \in Nat /\ at \notin 1..(at - 1) /\ 1..(at' - 1) = 1..(at - 1) \cup {at}
  BY SourceFacts
<1>2. \A k \in 1..(at - 1) : k \in DOMAIN tree /\ tree[k] # tree[at]
  <2>1. \A k \in 1..(at - 1) : k \in DOMAIN tree /\ k # at
    BY SourceFacts
  <2>2. QED
    BY <2>1, TreeInjective
<1>3. Settled = {k \in 1..(at - 1) : tree[k].kind = "symlink" \/ (IsRegular(tree[k]) /\ tree[k] \notin pending)}
  BY DEF Settled, Past
<1>4. Settled' = {k \in 1..(at' - 1) : tree[k].kind = "symlink" \/ (IsRegular(tree[k]) /\ tree[k] \notin pending')}
  BY <1>0 DEF Settled, Past
<1>5. ASSUME tree[at].kind = "symlink", pending' = pending
      PROVE  Settled' = Settled \cup {at} /\ at \notin Settled
  BY <1>1, <1>3, <1>4, <1>5
<1>6. ASSUME tree[at].kind # "symlink", ~IsRegular(tree[at]), pending' = pending PROVE Settled' = Settled
  BY <1>1, <1>3, <1>4, <1>6
<1>7. ASSUME IsRegular(tree[at]), pending' = pending \cup {tree[at]} PROVE Settled' = Settled
  <2>1. tree[at].kind # "symlink"
    BY <1>7 DEF IsRegular
  <2>2. QED
    BY <1>1, <1>2, <1>3, <1>4, <1>7, <2>1
<1>8. QED
  BY <1>5, <1>6, <1>7

LEMMA SettledWrite ==
  ASSUME source \in Sources, source' = source, at \in 1..(Len(tree) + 1), at' = at,
         NEW j \in 1..(at - 1), IsRegular(tree[j]), tree[j] \in pending,
         pending' = pending \ {tree[j]}
  PROVE  Settled' = Settled \cup {j} /\ j \notin Settled
<1>0. tree' = tree
  BY DEF tree
<1>1. \A k \in 1..(at - 1) : k # j => tree[k] # tree[j]
  <2>1. \A k \in 1..(at - 1) : k \in DOMAIN tree
    BY SourceFacts
  <2>2. QED
    BY <2>1, TreeInjective
<1>2. Settled = {k \in 1..(at - 1) : tree[k].kind = "symlink" \/ (IsRegular(tree[k]) /\ tree[k] \notin pending)}
  BY DEF Settled, Past
<1>3. Settled' = {k \in 1..(at - 1) : tree[k].kind = "symlink" \/ (IsRegular(tree[k]) /\ tree[k] \notin pending')}
  BY <1>0 DEF Settled, Past
<1>4. tree[j].kind # "symlink"
  BY DEF IsRegular
<1>5. QED
  BY <1>1, <1>2, <1>3, <1>4

LEMMA CountOneMore ==
  ASSUME at \in Nat, files = Cardinality(Settled), NEW j, j \notin Settled,
         Settled' = Settled \cup {j}, files' = files + 1
  PROVE  files' = Cardinality(Settled')
<1>1. IsFiniteSet(Settled)
  BY SettledFinite
<1>2. Cardinality(Settled \cup {j}) = Cardinality(Settled) + 1
  BY <1>1, FS_AddElement
<1>3. QED
  BY <1>2

LEMMA ListedMore ==
  ASSUME NEW S, NEW ds \in Seq(S), NEW x
  PROVE  /\ Listed(Append(ds, x), x)
         /\ \A y : Listed(ds, y) => Listed(Append(ds, x), y)
<1>1. Len(Append(ds, x)) = Len(ds) + 1 /\ DOMAIN ds = 1..Len(ds) /\ Len(ds) \in Nat
  OBVIOUS
<1>2. DOMAIN Append(ds, x) = 1..(Len(ds) + 1)
  OBVIOUS
<1>3. Append(ds, x)[Len(ds) + 1] = x /\ \A i \in 1..Len(ds) : Append(ds, x)[i] = ds[i]
  OBVIOUS
<1>4. QED
  BY <1>1, <1>2, <1>3 DEF Listed

LEMMA ListedLess ==
  ASSUME NEW S, NEW ds \in Seq(S), ds # << >>
  PROVE  \A y : y # Head(ds) /\ Listed(ds, y) => Listed(Tail(ds), y)
<1>1. DOMAIN ds = 1..Len(ds) /\ Len(ds) \in Nat /\ DOMAIN Tail(ds) = 1..(Len(ds) - 1)
  OBVIOUS
<1>2. Head(ds) = ds[1] /\ \A i \in 2..Len(ds) : i - 1 \in 1..(Len(ds) - 1) /\ Tail(ds)[i - 1] = ds[i]
  OBVIOUS
<1>3. ASSUME NEW y, y # Head(ds), NEW i \in DOMAIN ds, ds[i] = y PROVE Listed(Tail(ds), y)
  <2>1. i \in 2..Len(ds)
    BY <1>1, <1>2, <1>3
  <2>2. i - 1 \in DOMAIN Tail(ds) /\ Tail(ds)[i - 1] = y
    BY <1>1, <1>2, <1>3, <2>1
  <2>3. QED
    BY <2>2 DEF Listed
<1>4. QED
  BY <1>3 DEF Listed

\* Where a symlink of the tree is not planned yet, or is none, there is none.
LEMMA NotLinked ==
  ASSUME source \in Sources, NEW r \in Seq(Names), NEW j \in DOMAIN tree,
         LinksAt(disk, at, r), IsDisk(disk), Kind(disk, r) = "dir", at \in 1..(Len(tree) + 1),
         j \notin 1..(at - 1) \/ tree[j].kind # "symlink"
  PROVE  Kind(disk, Then(r, tree[j].rel)) # "symlink"
<1> DEFINE q == Then(r, tree[j].rel)
<1>1. SUFFICES ASSUME Kind(disk, q) = "symlink" PROVE FALSE
  OBVIOUS
<1>2. tree[j].rel \in Seq(Names)
  BY EntryOfTree
<1>3. IsStrictPrefix(r, q)
  BY <1>1, <1>2, BelowIt
<1>4. q \in DOMAIN disk /\ disk[q].kind = "symlink"
  BY <1>1, KindOf
<1>5. PICK k \in 1..(at - 1) : tree[k].kind = "symlink" /\ q = Then(r, tree[k].rel)
  BY <1>3, <1>4 DEF LinksAt
<1>6. k \in DOMAIN tree
  BY SourceFacts
<1>7. k = j
  BY <1>5, <1>6, Distinct
<1>8. QED
  BY <1>5, <1>7

-----------------------------------------------------------------------------
(***************************************************************************)
(* Every pass keeps what holds.                                            *)
(***************************************************************************)

\* The copy is under way, and nothing has failed.
Going(r) ==
  /\ Aims(r) /\ Held(r) /\ pc \in {"plan", "write", "modes"} /\ IsDisk(disk)
  /\ source \in Sources /\ at \in 1..(Len(tree) + 1)
  /\ pending \subseteq {tree[k] : k \in {j \in Past : IsRegular(tree[j])}}
  /\ dirs \in Seq({tree[k] : k \in {j \in Past : tree[j].kind = "dir"}})

LEMMA GoingFacts ==
  ASSUME NEW r, Going(r)
  PROVE  /\ r \in Seq(Names) /\ target \in Seq(Names) /\ Reached(First.disk, target, r, disk)
         /\ Passes(First.disk, target, disk) /\ Kind(disk, r) = "dir"
         /\ LinksAt(disk, at, r) /\ at \in Nat /\ files = Cardinality(Settled)
         /\ AllFull /\ pc \in {"plan", "write"} => Permits(disk)
         /\ \A s \in Seq(Names) : s # << >> => Kind(First.disk, Then(r, s)) # "symlink"
<1>1. /\ Aims(r) /\ Held(r) /\ pc \in {"plan", "write", "modes"} /\ IsDisk(disk)
      /\ source \in Sources /\ at \in 1..(Len(tree) + 1)
  BY DEF Going
<1>2. Reached(First.disk, target, r, disk)
  BY <1>1, HeldReached
<1>3. Kind(disk, r) = "dir" /\ Passes(First.disk, target, disk)
  BY <1>2, ReachedTarget DEF Reached
<1>4. LinksInv(r) /\ AllowedInv /\ files = Cardinality(Settled)
  BY <1>1 DEF Held
<1>5. LinksAt(disk, at, r) /\ (AllFull /\ pc \in {"plan", "write"} => Permits(disk))
  BY <1>4, PartsNow, WayIs
<1>6. r \in Seq(Names) /\ target \in Seq(Names) /\ IsDisk(before) /\ FreshBelow(r) /\ Adds(before, First.disk)
  BY <1>1 DEF Aims
<1>7. ASSUME NEW s \in Seq(Names), s # << >> PROVE Kind(First.disk, Then(r, s)) # "symlink"
  <2> DEFINE q == Then(r, s)
  <2>1. IsStrictPrefix(r, q)
    BY <1>6, <1>7, BelowIt
  <2> HIDE DEF q
  <2>2. SUFFICES ASSUME Kind(First.disk, q) = "symlink" PROVE FALSE
    BY DEF q
  <2>3. Kind(before, q) = "symlink"
    BY <1>6, <2>2 DEF Adds, Same
  <2>4. q \in DOMAIN before /\ before[q].kind = "symlink"
    BY <1>6, <2>3, KindOf
  <2>5. QED
    BY <1>6, <2>1, <2>4 DEF FreshBelow
<1>8. at \in Nat
  BY <1>1
<1>9. QED
  BY <1>2, <1>3, <1>4, <1>5, <1>6, <1>7, <1>8

LEMMA PlanFacts ==
  ASSUME NEW r, Going(r), Planning, Passed
  PROVE  /\ at \in DOMAIN tree /\ entry = tree[at] /\ entry \in Entry
         /\ entry.rel \in Seq(Names) /\ entry.link \in Seq(Word)
         /\ entry.rel = << >> => entry.kind = "dir"
         /\ Unlinked(disk, r, entry.rel) /\ Kind(disk, Then(r, entry.rel)) # "symlink"
         /\ Turns(at, at, at) /\ Turns(at, at + 1, at) /\ at + 1 # at /\ at \notin 1..(at - 1)
<1>1. source \in Sources /\ at \in 1..(Len(tree) + 1) /\ IsDisk(disk)
  BY DEF Going
<1>2. at \in DOMAIN tree /\ at \in Nat
  BY <1>1, SourceFacts DEF Planning, tree
<1>3. entry = tree[at]
  BY DEF entry, tree
<1>4. entry \in Entry /\ entry.rel \in Seq(Names) /\ entry.link \in Seq(Word)
  BY <1>1, <1>2, <1>3, EntryOfTree
<1>5. entry.rel = << >> => entry.kind = "dir"
  BY <1>1, <1>2, <1>3, SourceFacts
<1>6. Unlinked(disk, r, entry.rel)
  <2>1. Refusal(entry.rel) = NoError
    BY DEF Passed
  <2> HIDE DEF entry
  <2>2. QED
    BY <1>4, <2>1, GoingFacts, Unrefused DEF Unlinked
<1>7. at \notin 1..(at - 1) /\ Turns(at, at, at) /\ Turns(at, at + 1, at) /\ at + 1 # at
  BY <1>1, <1>2 DEF Turns
<1>8. Kind(disk, Then(r, entry.rel)) # "symlink"
  BY <1>1, <1>2, <1>3, <1>7, GoingFacts, NotLinked
<1>9. QED
  BY <1>2, <1>3, <1>4, <1>5, <1>6, <1>7, <1>8

\* A directory that was there, or was made, allows everything if all did.
LEMMA DirAllowed ==
  ASSUME NEW d, NEW y, NEW q, IsDisk(d), Permits(d), Same(d, y, q) \/ Fresh(d, y, q), Kind(y, q) = "dir"
  PROVE  Full \subseteq y[q].mode
<1>1. CASE Same(d, y, q)
  <2>1. q \in DOMAIN d /\ d[q].kind = "dir" /\ y[q] = d[q]
    BY <1>1, KindOf DEF Same
  <2>2. QED
    BY <2>1 DEF Permits
<1>2. CASE Fresh(d, y, q)
  <2>1. y[q] = Directory(Full)
    BY <1>2 DEF Fresh
  <2>2. Directory(Full).mode = Full
    BY DEF Directory, Node
  <2>3. QED
    BY <2>1, <2>2
<1>3. QED
  BY <1>1, <1>2

LEMMA PlanDirHolds ==
  ASSUME NEW r, Going(r), PlanDir
  PROVE  Held(r)'
<1> DEFINE m == MkdirAll(disk, Here(entry))
           y == m.disk
           s == tree[at].rel
           q == Then(r, s)
<1>1. Planning /\ Passed /\ entry.kind = "dir"
  BY DEF PlanDir
<1>2. /\ at \in DOMAIN tree /\ entry = tree[at] /\ s \in Seq(Names) /\ Unlinked(disk, r, s)
      /\ Kind(disk, q) # "symlink" /\ Turns(at, at, at) /\ Turns(at, at + 1, at)
      /\ at + 1 # at /\ at \notin 1..(at - 1)
  BY <1>1, PlanFacts
<1>3. /\ r \in Seq(Names) /\ target \in Seq(Names) /\ Reached(First.disk, target, r, disk)
      /\ Passes(First.disk, target, disk) /\ Kind(disk, r) = "dir" /\ at \in Nat
      /\ files = Cardinality(Settled) /\ (AllFull /\ pc \in {"plan", "write"} => Permits(disk))
  BY GoingFacts
<1>4. /\ Sets(disk, y, r, s) /\ (~Fails(m) => Kind(y, q) = "dir")
      /\ Same(disk, y, q) \/ Fresh(disk, y, q)
  BY <1>2, <1>3, DirBelow
<1>5. Kind(y, q) = "symlink" => Same(disk, y, q)
  BY <1>4 DEF Fresh
<1>6. s = << >> => Kind(y, r) = "dir"
  BY <1>2, <1>3, <1>4, BelowIt DEF Same, Fresh
<1>7. Kind(disk, q) = "dir" => Kind(y, q) = "dir"
  BY <1>4 DEF Same, Fresh
<1>8. Passes(First.disk, target, y)
  BY <1>3, <1>4, <1>7, PassesSets
<1>9. tree[at].kind = "dir" /\ tree[at].kind # "symlink" /\ ~IsRegular(tree[at])
  BY <1>1, <1>2 DEF IsRegular
<1>10. Aims(r) /\ Held(r) /\ pc = "plan" /\ IsDisk(disk) /\ source \in Sources
  BY <1>1 DEF Going, Planning
<1>11. AllFull /\ Kind(y, q) = "dir" => Full \subseteq y[q].mode
  BY <1>3, <1>4, <1>10, DirAllowed
<1> HIDE DEF y, q, s
<1>12. CASE Fails(m)
  <2>1. /\ pc' = "planError" /\ disk' = y /\ source' = source /\ before' = before /\ target' = target
        /\ at' = at /\ pending' = pending /\ dirs' = dirs /\ files' = files
    BY <1>12 DEF PlanDir, Return, input, lists, counters, y
  <2>2. Settled' = Settled
    BY <2>1, SettledSame
  <2>3. at \notin Settled
    BY <1>2 DEF Settled, Past
  <2>4. QED
    BY <1>2, <1>3, <1>4, <1>5, <1>6, <1>9, <1>10, <2>1, <2>2, <2>3, StepHolds DEF s, q
<1>13. CASE ~Fails(m)
  <2>1. /\ pc' = "plan" /\ disk' = y /\ source' = source /\ before' = before /\ target' = target
        /\ at' = at + 1 /\ pending' = pending /\ dirs' = Append(dirs, entry) /\ files' = files
    BY <1>1, <1>13 DEF PlanDir, Planned, Planning, input, lists, counters, y
  <2>2. Settled' = Settled
    BY <1>2, <1>9, <1>10, <2>1, SettledPlan
  <2>3. at \notin Settled
    BY <1>2 DEF Settled, Past
  <2>4. Listed(dirs', tree[at]) /\ \A k \in DOMAIN tree : Listed(dirs, tree[k]) => Listed(dirs', tree[k])
    BY <1>2, <2>1, ListedMore DEF Going
  <2>5. Kind(y, q) = "dir"
    BY <1>4, <1>13
  <2>6. QED
    BY <1>2, <1>3, <1>4, <1>5, <1>6, <1>8, <1>9, <1>10, <1>11, <2>1, <2>2, <2>3, <2>4, <2>5, StepHolds
    DEF s, q, Unlinked
<1>14. QED
  BY <1>12, <1>13

LEMMA PlanSymlinkHolds ==
  ASSUME NEW r, Going(r), PlanSymlink
  PROVE  Held(r)'
<1> DEFINE v == Linked(entry)
           y == v.disk
           s == tree[at].rel
           q == Then(r, s)
           n == Symlink(entry.link)
<1>1. Planning /\ Passed /\ entry.kind = "symlink"
  BY DEF PlanSymlink
<1>2. /\ at \in DOMAIN tree /\ entry = tree[at] /\ s \in Seq(Names) /\ Unlinked(disk, r, s)
      /\ Kind(disk, q) # "symlink" /\ Turns(at, at, at) /\ Turns(at, at + 1, at)
      /\ at + 1 # at /\ at \notin 1..(at - 1) /\ entry.link \in Seq(Word)
      /\ s = << >> => entry.kind = "dir"
  BY <1>1, PlanFacts
<1>3. /\ r \in Seq(Names) /\ target \in Seq(Names) /\ Reached(First.disk, target, r, disk)
      /\ Kind(disk, r) = "dir" /\ at \in Nat /\ files = Cardinality(Settled)
  BY GoingFacts
<1>4. s # << >>
  BY <1>1, <1>2
<1>5. Kind(First.disk, q) # "symlink"
  BY <1>2, <1>4, GoingFacts
<1>6. /\ Sets(disk, y, r, s)
      /\ \/ Fails(v) /\ (Same(disk, y, q) \/ Kind(y, q) = "none")
         \/ ~Fails(v) /\ Kind(y, q) = "symlink" /\ y[q] = n /\ Passes(First.disk, target, y)
  BY <1>2, <1>3, <1>4, <1>5, LinkBelow
<1>7. tree[at].kind = "symlink" /\ tree[at].kind # "dir" /\ ~IsRegular(tree[at])
  BY <1>1, <1>2 DEF IsRegular
<1>8. Aims(r) /\ Held(r) /\ pc = "plan" /\ IsDisk(disk) /\ source \in Sources
  BY <1>1 DEF Going, Planning
<1> HIDE DEF y, q, s, n
<1>9. CASE Fails(v)
  <2>1. /\ pc' = "planError" /\ disk' = y /\ source' = source /\ before' = before /\ target' = target
        /\ at' = at /\ pending' = pending /\ dirs' = dirs /\ files' = files
    BY <1>9 DEF PlanSymlink, Return, input, lists, counters, y
  <2>2. Settled' = Settled
    BY <2>1, SettledSame
  <2>3. at \notin Settled
    BY <1>2 DEF Settled, Past
  <2>4. Kind(y, q) = "symlink" => Same(disk, y, q)
    BY <1>6, <1>9
  <2>5. QED
    BY <1>2, <1>3, <1>4, <1>6, <1>7, <1>8, <2>1, <2>2, <2>3, <2>4, StepHolds DEF s, q
<1>10. CASE ~Fails(v)
  <2>1. /\ pc' = "plan" /\ disk' = y /\ source' = source /\ before' = before /\ target' = target
        /\ at' = at + 1 /\ pending' = pending /\ dirs' = dirs /\ files' = files + 1
    BY <1>1, <1>10 DEF PlanSymlink, Planned, Planning, input, lists, counters, y
  <2>2. Settled' = Settled \cup {at} /\ at \notin Settled
    BY <1>2, <1>7, <1>8, <2>1, SettledPlan
  <2>3. files' = Cardinality(Settled')
    BY <1>3, <2>1, <2>2, CountOneMore
  <2>4. Kind(y, q) = "symlink" /\ y[q] = n /\ Passes(First.disk, target, y)
    BY <1>6, <1>10
  <2>5. Shown(y, q, tree[at])
    <3>1. IsDisk(y)
      BY <1>6 DEF Sets
    <3>2. q \in DOMAIN y
      BY <2>4, <3>1, KindOf
    <3>3. QED
      BY <1>2, <1>7, <2>4, <3>2 DEF Shown, n
  <2>6. QED
    BY <1>2, <1>3, <1>4, <1>6, <1>7, <1>8, <2>1, <2>2, <2>3, <2>4, <2>5, StepHolds
    DEF s, q, Unlinked
<1>11. QED
  BY <1>9, <1>10

\* The other entries, at first, change nothing on the disk.
LEMMA PlanNothing ==
  ASSUME NEW r, Going(r), Planning, Passed, entry.kind # "dir", Planned(disk), Settled' = Settled,
         dirs' = dirs, files' = files
  PROVE  Held(r)'
<1> DEFINE s == tree[at].rel
           q == Then(r, s)
<1>1. /\ at \in DOMAIN tree /\ entry = tree[at] /\ s \in Seq(Names) /\ Unlinked(disk, r, s)
      /\ Kind(disk, q) # "symlink" /\ Turns(at, at + 1, at)
      /\ at \notin 1..(at - 1) /\ (s = << >> => entry.kind = "dir")
  BY PlanFacts
<1>2. /\ r \in Seq(Names) /\ Passes(First.disk, target, disk) /\ files = Cardinality(Settled)
      /\ AllFull /\ pc \in {"plan", "write"} => Permits(disk)
  BY GoingFacts
<1>3. Aims(r) /\ Held(r) /\ pc = "plan" /\ IsDisk(disk) /\ source \in Sources
  BY DEF Going, Planning
<1>4. /\ pc' = "plan" /\ disk' = disk /\ source' = source /\ before' = before /\ target' = target
      /\ at' = at + 1
  BY <1>3 DEF Planned, input
<1>5. Sets(disk, disk, r, s) /\ Same(disk, disk, q)
  BY <1>3, SetsNothing DEF Same
<1>6. at \notin Settled
  BY <1>1 DEF Settled, Past
<1>7. IsRegular(tree[at]) => WaitsAt(disk, q, FALSE)
  <2>1. WaitingAt(disk, Settled, FALSE, r)
    BY <1>3, WaitingNow DEF Held
  <2>2. QED
    BY <1>1, <1>6, <2>1 DEF WaitingAt
<1>7a. IsRegular(tree[at]) => WaitsAt(disk', q, pc' = "readError")
  BY <1>4, <1>7 DEF WaitsAt
<1>8. AllFull /\ Kind(disk, q) = "dir" => Full \subseteq disk[q].mode
  BY <1>2, <1>3, <1>5, DirAllowed
<1> HIDE DEF s, q
<1>9. QED
  BY <1>1, <1>2, <1>3, <1>4, <1>5, <1>6, <1>7a, <1>8, StepHolds DEF s, q, Unlinked

LEMMA PlanRegularHolds ==
  ASSUME NEW r, Going(r), PlanRegular
  PROVE  Held(r)'
<1>1. /\ Planning /\ Passed /\ IsRegular(entry) /\ Planned(disk)
      /\ pending' = pending \cup {entry} /\ dirs' = dirs /\ files' = files
  BY DEF PlanRegular, counters
<1>2. entry.kind # "dir"
  BY <1>1 DEF IsRegular
<1>3. at \in DOMAIN tree /\ entry = tree[at] /\ source \in Sources
  BY <1>1, PlanFacts DEF Going
<1>4. source' = source /\ at' = at + 1
  BY <1>1 DEF Planned, input
<1>5. Settled' = Settled
  BY <1>1, <1>3, <1>4, SettledPlan
<1>6. QED
  BY <1>1, <1>2, <1>5, PlanNothing

LEMMA PlanSkipHolds ==
  ASSUME NEW r, Going(r), PlanSkip
  PROVE  Held(r)'
<1>1. /\ Planning /\ Passed /\ entry.kind # "symlink" /\ entry.kind # "dir" /\ ~IsRegular(entry)
      /\ Planned(disk) /\ pending' = pending /\ dirs' = dirs /\ files' = files
  BY DEF PlanSkip, lists
<1>2. at \in DOMAIN tree /\ entry = tree[at] /\ source \in Sources
  BY <1>1, PlanFacts DEF Going
<1>3. source' = source /\ at' = at + 1
  BY <1>1 DEF Planned, input
<1>4. Settled' = Settled
  BY <1>1, <1>2, <1>3, SettledPlan
<1>5. QED
  BY <1>1, <1>4, PlanNothing

\* An entry that waits to be written.
LEMMA WriteFacts ==
  ASSUME NEW r, Going(r), NEW x \in pending
  PROVE  \E j \in 1..(at - 1) :
           /\ x = tree[j] /\ j \in DOMAIN tree /\ IsRegular(tree[j]) /\ j \notin Settled
           /\ tree[j].rel \in Seq(Names) /\ tree[j].rel # << >> /\ Unlinked(disk, r, tree[j].rel)
           /\ Kind(disk, Then(r, tree[j].rel)) # "symlink" /\ Turns(at, at, j)
           /\ WaitsAt(disk, Then(r, tree[j].rel), FALSE)
<1>1. /\ source \in Sources /\ at \in 1..(Len(tree) + 1) /\ IsDisk(disk) /\ Held(r)
      /\ pc \in {"plan", "write", "modes"}
      /\ pending \subseteq {tree[k] : k \in {j \in Past : IsRegular(tree[j])}}
  BY DEF Going
<1>2. PICK j \in 1..(at - 1) : IsRegular(tree[j]) /\ x = tree[j]
  BY <1>1 DEF Past
<1>3. j \in DOMAIN tree /\ Turns(at, at, j)
  BY <1>1, <1>2, SourceFacts DEF Turns
<1>4. tree[j].kind # "dir" /\ tree[j].kind # "symlink"
  BY <1>2 DEF IsRegular
<1>5. tree[j].rel \in Seq(Names) /\ tree[j].rel # << >>
  BY <1>1, <1>3, <1>4, EntryOfTree, SourceFacts
<1>6. r \in Seq(Names) /\ LinksAt(disk, at, r) /\ Kind(disk, r) = "dir"
  BY GoingFacts
<1>7. Unlinked(disk, r, tree[j].rel)
  BY <1>2, <1>6 DEF LinksAt, Unlinked
<1>8. Kind(disk, Then(r, tree[j].rel)) # "symlink"
  BY <1>1, <1>3, <1>4, <1>6, NotLinked
<1>9. j \notin Settled
  BY <1>2, <1>4 DEF Settled
<1>10. WaitsAt(disk, Then(r, tree[j].rel), FALSE)
  <2>1. WaitingAt(disk, Settled, FALSE, r)
    BY <1>1, WaitingNow DEF Held
  <2>2. QED
    BY <1>2, <1>3, <1>9, <2>1 DEF WaitingAt
<1>11. QED
  BY <1>2, <1>3, <1>5, <1>7, <1>8, <1>9, <1>10

LEMMA WaitsSame ==
  ASSUME NEW d, NEW y, NEW q, NEW cut, IsDisk(d), IsDisk(y), Same(d, y, q), WaitsAt(d, q, FALSE)
  PROVE  WaitsAt(y, q, cut)
<1>1. SUFFICES ASSUME q \in DOMAIN y PROVE WaitsAt(y, q, cut)
  BY DEF WaitsAt
<1>2. Kind(y, q) # "none"
  BY <1>1, KindOf
<1>3. q \in DOMAIN d /\ y[q] = d[q]
  BY <1>2, KindOf DEF Same
<1>4. QED
  BY <1>3 DEF WaitsAt

LEMMA WriteEntryHolds ==
  ASSUME NEW r, Going(r), WriteEntry
  PROVE  Held(r)'
<1>1. PICK x \in Extracted :
        LET v == FileMade(x) IN
        IF Fails(v) THEN Return("writeError", v)
        ELSE /\ disk' = v.disk
             /\ pending' = pending \ {x} /\ files' = files + 1
             /\ UNCHANGED <<input, target, pc, error, at, dirs, skipped>>
  BY DEF WriteEntry
<1>2. x \in pending /\ pc = "write"
  BY DEF Extracted, WriteEntry
<1>3. PICK j \in 1..(at - 1) :
        /\ x = tree[j] /\ j \in DOMAIN tree /\ IsRegular(tree[j]) /\ j \notin Settled
        /\ tree[j].rel \in Seq(Names) /\ tree[j].rel # << >> /\ Unlinked(disk, r, tree[j].rel)
        /\ Kind(disk, Then(r, tree[j].rel)) # "symlink" /\ Turns(at, at, j)
        /\ WaitsAt(disk, Then(r, tree[j].rel), FALSE)
  BY <1>2, WriteFacts
<1> DEFINE v == FileMade(x)
           y == v.disk
           s == tree[j].rel
           q == Then(r, s)
           n == File(Perm(x), x.content)
<1>4. /\ r \in Seq(Names) /\ target \in Seq(Names) /\ Reached(First.disk, target, r, disk)
      /\ Passes(First.disk, target, disk) /\ at \in Nat /\ files = Cardinality(Settled)
  BY GoingFacts
<1>5. /\ Sets(disk, y, r, s)
      /\ \/ Fails(v) /\ Same(disk, y, q)
         \/ /\ ~Fails(v) /\ Kind(disk, q) \in {"none", "file"}
            /\ Kind(y, q) = "file" /\ y[q] = n
  BY <1>3, <1>4, FileBelow
<1>6. tree[j].kind # "dir" /\ tree[j].kind # "symlink"
  BY <1>3 DEF IsRegular
<1>7. /\ Aims(r) /\ Held(r) /\ IsDisk(disk) /\ source \in Sources /\ at # at + 1
      /\ at \in 1..(Len(tree) + 1)
  BY <1>4 DEF Going
<1>7a. IsDisk(y)
  BY <1>5 DEF Sets
<1> HIDE DEF y, q, s, n, v
<1>8. CASE Fails(v)
  <2>1. /\ pc' = "writeError" /\ disk' = y /\ source' = source /\ before' = before /\ target' = target
        /\ at' = at /\ pending' = pending /\ dirs' = dirs /\ files' = files
    BY <1>1, <1>8 DEF Return, input, lists, counters, y, v
  <2>2. Settled' = Settled
    BY <2>1, SettledSame
  <2>3. Same(disk, y, q)
    BY <1>5, <1>8
  <2>4. \A cut : WaitsAt(y, q, cut)
    BY <1>3, <1>7, <1>7a, <2>3, WaitsSame DEF q, s
  <2>5. QED
    BY <1>2, <1>3, <1>4, <1>5, <1>6, <1>7, <2>1, <2>2, <2>3, <2>4, StepHolds DEF s, q
<1>9. CASE ~Fails(v)
  <2>1. /\ pc' = "write" /\ disk' = y /\ source' = source /\ before' = before /\ target' = target
        /\ at' = at /\ pending' = pending \ {tree[j]} /\ dirs' = dirs /\ files' = files + 1
    BY <1>1, <1>2, <1>3, <1>9 DEF input, y, v
  <2>2. Settled' = Settled \cup {j}
    BY <1>2, <1>3, <1>7, <2>1, SettledWrite
  <2>3. files' = Cardinality(Settled')
    BY <1>3, <1>4, <2>1, <2>2, CountOneMore
  <2>4. Kind(disk, q) \in {"none", "file"} /\ Kind(y, q) = "file" /\ y[q] = n
    BY <1>5, <1>9
  <2>5. Passes(First.disk, target, y)
    <3>1. Kind(disk, q) # "dir"
      BY <2>4
    <3>2. QED
      BY <1>4, <1>5, <3>1, PassesSets DEF q
  <2>6. Shown(y, q, tree[j])
    <3>1. q \in DOMAIN y
      BY <1>7a, <2>4, KindOf
    <3>2. QED
      BY <1>3, <2>4, <3>1 DEF Shown, n
  <2>7. QED
    BY <1>2, <1>3, <1>4, <1>5, <1>6, <1>7, <2>1, <2>2, <2>3, <2>4, <2>5, <2>6, StepHolds DEF s, q
<1>10. QED
  BY <1>8, <1>9

LEMMA ExtractErrorHolds ==
  ASSUME NEW r, Going(r), ExtractError
  PROVE  Held(r)'
<1>1. pc = "write" /\ Held(r) /\ Aims(r) /\ IsDisk(disk) /\ source \in Sources
  BY DEF ExtractError, Going
<1>2. CASE Return("readError", Failed(disk, "extract"))
  <2>1. /\ pc' = "readError" /\ source' = source /\ before' = before /\ target' = target
        /\ at' = at /\ pending' = pending /\ dirs' = dirs /\ files' = files
        /\ disk' = Failed(disk, "extract").disk
    BY <1>2 DEF Return, input, lists, counters
  <2>2. disk' = disk
    BY <2>1, Results
  <2>3. QED
    BY <1>1, <2>1, <2>2, StillHolds
<1>3. CASE \E x \in Extracted :
             LET made == MkdirAll(disk, Front(Here(x)))
                 cut  == Cut(made.disk, Here(x), x)
             IN  /\ ~Fails(made) /\ ~Fails(cut)
                 /\ Return("readError", Failed(cut.disk, "copy"))
  <2>1. PICK x \in Extracted :
          LET made == MkdirAll(disk, Front(Here(x)))
              cut  == Cut(made.disk, Here(x), x)
          IN  /\ ~Fails(made) /\ ~Fails(cut)
              /\ Return("readError", Failed(cut.disk, "copy"))
    BY <1>3
  <2>2. x \in pending
    BY DEF Extracted
  <2>3. PICK j \in 1..(at - 1) :
          /\ x = tree[j] /\ j \in DOMAIN tree /\ IsRegular(tree[j]) /\ j \notin Settled
          /\ tree[j].rel \in Seq(Names) /\ tree[j].rel # << >> /\ Unlinked(disk, r, tree[j].rel)
          /\ Kind(disk, Then(r, tree[j].rel)) # "symlink" /\ Turns(at, at, j)
          /\ WaitsAt(disk, Then(r, tree[j].rel), FALSE)
    BY <2>2, WriteFacts
  <2> DEFINE m == MkdirAll(disk, Front(Here(x)))
             v == Cut(m.disk, Here(x), x)
             y == v.disk
             s == tree[j].rel
             q == Then(r, s)
  <2>4. /\ r \in Seq(Names) /\ target \in Seq(Names) /\ Reached(First.disk, target, r, disk)
        /\ at \in Nat /\ files = Cardinality(Settled)
    BY GoingFacts
  <2>5. ~Fails(v) /\ Return("readError", Failed(y, "copy"))
    BY <2>1
  <2>6. Sets(disk, y, r, s) /\ Kind(y, q) = "file" /\ y[q].content = "partial"
    BY <2>3, <2>4, <2>5, CutBelow
  <2> HIDE DEF m, v, y, s, q
  <2>7. tree[j].kind # "dir" /\ tree[j].kind # "symlink" /\ at # at + 1
    BY <2>3, <2>4 DEF IsRegular
  <2>8. /\ pc' = "readError" /\ source' = source /\ before' = before /\ target' = target
        /\ at' = at /\ pending' = pending /\ dirs' = dirs /\ files' = files
        /\ disk' = Failed(y, "copy").disk
    BY <2>5 DEF Return, input, lists, counters
  <2>9. disk' = y
    BY <2>8, Results
  <2>10. Settled' = Settled
    BY <2>8, SettledSame
  <2>11. WaitsAt(y, q, pc' = "readError")
    BY <2>6, <2>8 DEF WaitsAt
  <2>12. QED
    BY <1>1, <2>3, <2>4, <2>6, <2>7, <2>8, <2>9, <2>10, <2>11, StepHolds DEF s, q
<1>4. QED
  BY <1>2, <1>3 DEF ExtractError

LEMMA DiskErrorHolds ==
  ASSUME NEW r, Going(r), DiskError
  PROVE  Held(r)'
<1>1. /\ Aims(r) /\ Held(r) /\ pc \in {"plan", "write", "modes"} /\ IsDisk(disk) /\ source \in Sources
      /\ at \in 1..(Len(tree) + 1)
  BY DEF Going
<1>2. \A d : Failed(d, "EIO").disk = d
  BY Results
<1>3. PICK y :
        /\ disk' = y /\ source' = source /\ before' = before /\ target' = target
        /\ at' = at /\ pending' = pending /\ dirs' = dirs /\ files' = files
        /\ \/ Planning /\ pc' = "planError" /\ y \in PlanLeft
           \/ /\ pc = "write" /\ pc' = "writeError"
              /\ \E x \in Extracted : y \in FileLeft(Here(x), x)
           \/ pc' = "modeError" /\ y = disk
  BY <1>1, <1>2 DEF DiskError, Broken, Return, input, lists, counters
<1>4. /\ r \in Seq(Names) /\ target \in Seq(Names) /\ Reached(First.disk, target, r, disk)
      /\ Kind(disk, r) = "dir" /\ at \in Nat /\ files = Cardinality(Settled) /\ at # at + 1
  BY GoingFacts
<1>5. Settled' = Settled
  BY <1>3, SettledSame
<1>6. CASE y = disk /\ pc' \in {"planError", "modeError"}
  BY <1>1, <1>3, <1>6, StillHolds
<1>7. CASE Planning /\ pc' = "planError" /\ y \in PlanLeft /\ y # disk
  <2> DEFINE s == tree[at].rel
             q == Then(r, s)
  <2>1. Passed /\ entry.kind \in {"dir", "symlink"}
    BY <1>7 DEF PlanLeft
  <2>2. /\ at \in DOMAIN tree /\ entry = tree[at] /\ s \in Seq(Names) /\ Unlinked(disk, r, s)
        /\ Kind(disk, q) # "symlink" /\ Turns(at, at, at) /\ at \notin 1..(at - 1)
        /\ s = << >> => entry.kind = "dir"
    BY <1>7, <2>1, PlanFacts
  <2>3. Sets(disk, y, r, s) /\ Kind(y, q) # "symlink" /\ (s = << >> => Kind(y, r) = "dir")
    <3> HIDE DEF entry
    <3>1. CASE entry.kind = "dir"
      <4>1. y \in Made(disk, Here(tree[at]))
        BY <1>7, <2>1, <2>2, <3>1 DEF PlanLeft
      <4>2. QED
        BY <1>4, <2>2, <4>1, DirLeft
    <3>2. CASE entry.kind = "symlink"
      <4>1. y \in LinkLeft(tree[at])
        BY <1>7, <2>1, <2>2, <3>2 DEF PlanLeft
      <4>2. s # << >>
        BY <2>2, <3>2
      <4>3. Kind(First.disk, q) # "symlink"
        BY <2>2, <4>2, GoingFacts
      <4>4. QED
        BY <1>4, <2>2, <4>1, <4>2, <4>3, LinkLeftBelow
    <3>3. QED
      BY <2>1, <3>1, <3>2
  <2>4. ~IsRegular(tree[at])
    BY <2>1, <2>2 DEF IsRegular
  <2>5. at \notin Settled
    BY <2>2 DEF Settled, Past
  <2> HIDE DEF s, q
  <2>6. QED
    BY <1>1, <1>3, <1>4, <1>5, <1>7, <2>2, <2>3, <2>4, <2>5, StepHolds DEF s, q
<1>8. CASE pc = "write" /\ pc' = "writeError" /\ \E x \in Extracted : y \in FileLeft(Here(x), x)
  <2>1. PICK x \in Extracted : y \in FileLeft(Here(x), x)
    BY <1>8
  <2>2. x \in pending
    BY DEF Extracted
  <2>3. PICK j \in 1..(at - 1) :
          /\ x = tree[j] /\ j \in DOMAIN tree /\ IsRegular(tree[j]) /\ j \notin Settled
          /\ tree[j].rel \in Seq(Names) /\ tree[j].rel # << >> /\ Unlinked(disk, r, tree[j].rel)
          /\ Kind(disk, Then(r, tree[j].rel)) # "symlink" /\ Turns(at, at, j)
    BY <2>2, WriteFacts
  <2> DEFINE s == tree[j].rel
             q == Then(r, s)
  <2>4. Sets(disk, y, r, s) /\ Kind(y, q) # "symlink"
    BY <1>4, <2>1, <2>3, FileLeftBelow
  <2>5. tree[j].kind # "dir"
    BY <2>3 DEF IsRegular
  <2> HIDE DEF s, q
  <2>6. QED
    BY <1>1, <1>3, <1>4, <1>5, <1>8, <2>3, <2>4, <2>5, StepHolds DEF s, q
<1>9. QED
  BY <1>3, <1>6, <1>7, <1>8

LEMMA SetModeHolds ==
  ASSUME NEW r, Going(r), SetMode
  PROVE  Held(r)'
<1> DEFINE x == Head(dirs)
           v == Chmod(disk, Here(x), Perm(x))
           y == v.disk
           n == Directory(Perm(x))
<1>1. /\ pc = "modes" /\ dirs # << >> /\ Held(r) /\ Aims(r) /\ IsDisk(disk) /\ source \in Sources
      /\ at \in 1..(Len(tree) + 1)
      /\ dirs \in Seq({tree[k] : k \in {j \in Past : tree[j].kind = "dir"}})
  BY DEF SetMode, Going
<1>2. PICK j \in 1..(at - 1) : tree[j].kind = "dir" /\ x = tree[j]
  <2>1. x \in {tree[k] : k \in {j \in Past : tree[j].kind = "dir"}}
    BY <1>1
  <2>2. QED
    BY <2>1 DEF Past
<1> DEFINE s == tree[j].rel
           q == Then(r, s)
<1>3. j \in DOMAIN tree /\ Turns(at, at, j) /\ tree[j].kind # "symlink" /\ ~IsRegular(tree[j])
  BY <1>1, <1>2, SourceFacts DEF Turns, IsRegular
<1>4. s \in Seq(Names)
  BY <1>1, <1>3, EntryOfTree
<1>5. /\ r \in Seq(Names) /\ target \in Seq(Names) /\ Reached(First.disk, target, r, disk)
      /\ Passes(First.disk, target, disk) /\ at \in Nat /\ files = Cardinality(Settled)
      /\ LinksAt(disk, at, r)
  BY GoingFacts
<1>6. Unlinked(disk, r, s)
  BY <1>5 DEF LinksAt, Unlinked
<1>7. Kind(disk, q) = "dir"
  <2>1. PlacedAt(disk, at, Settled, dirs, r)
    BY <1>1, PartsNow DEF Held
  <2>2. QED
    BY <1>2, <2>1 DEF PlacedAt
<1>8. \/ Fails(v) /\ y = disk
      \/ ~Fails(v) /\ Sets(disk, y, r, s) /\ Kind(y, q) = "dir" /\ y[q] = n
  BY <1>2, <1>4, <1>5, <1>6, <1>7, ModeBelow
<1>9. IF Fails(v) THEN Return("modeError", v)
      ELSE /\ disk' = y /\ dirs' = Tail(dirs)
           /\ UNCHANGED <<input, target, pc, error, at, pending, counters>>
  BY DEF SetMode
<1> HIDE DEF y, q, s, n, v, x
<1>10. CASE Fails(v)
  <2>1. /\ pc' = "modeError" /\ disk' = disk /\ source' = source /\ before' = before /\ target' = target
        /\ at' = at /\ pending' = pending /\ dirs' = dirs /\ files' = files
    BY <1>8, <1>9, <1>10 DEF Return, input, lists, counters, y
  <2>2. QED
    BY <1>1, <2>1, StillHolds
<1>11. CASE ~Fails(v)
  <2>1. /\ pc' = "modes" /\ disk' = y /\ source' = source /\ before' = before /\ target' = target
        /\ at' = at /\ pending' = pending /\ dirs' = Tail(dirs) /\ files' = files
    BY <1>1, <1>9, <1>11 DEF input, counters
  <2>2. Settled' = Settled
    BY <2>1, SettledSame
  <2>3. Sets(disk, y, r, s) /\ Kind(y, q) = "dir" /\ y[q] = n
    BY <1>8, <1>11
  <2>4. Passes(First.disk, target, y)
    BY <1>5, <2>3, PassesSets DEF q
  <2>5. Shown(y, q, tree[j])
    <3>1. IsDisk(y)
      BY <2>3 DEF Sets
    <3>2. q \in DOMAIN y
      BY <2>3, <3>1, KindOf
    <3>3. QED
      BY <1>2, <2>3, <3>2 DEF Shown, n
  <2>6. j \notin Settled
    BY <1>3 DEF Settled
  <2>7. \A k \in DOMAIN tree : k # j /\ Listed(dirs, tree[k]) => Listed(dirs', tree[k])
    <3>1. ASSUME NEW k \in DOMAIN tree, k # j PROVE tree[k] # Head(dirs)
      BY <1>1, <1>2, <1>3, <3>1, TreeInjective DEF x
    <3>2. QED
      BY <1>1, <2>1, <3>1, ListedLess
  <2>8. s = << >> => Kind(y, r) = "dir"
    BY <1>4, <1>5, <2>3, BelowIt DEF q
  <2>9. at # at + 1
    BY <1>5
  <2>10. QED
    BY <1>1, <1>2, <1>3, <1>5, <2>1, <2>2, <2>3, <2>4, <2>5, <2>6, <2>7, <2>8, <2>9, StepHolds DEF s, q
<1>12. QED
  BY <1>10, <1>11

\* The target is there.
LEMMA MakeTargetHolds ==
  ASSUME NEW r, Aims(r), ~Fails(First), source \in Sources, disk = before, at = 1, pending = {},
         files = 0, source' = source, before' = before, target' = target,
         disk' = First.disk, at' = at, pending' = pending, files' = files
  PROVE  Held(r)'
<1> DEFINE e == First.disk
<1>1. /\ r \in Seq(Names) /\ target \in Seq(Names) /\ IsDisk(before) /\ FreshBelow(r)
      /\ Adds(before, e) /\ Leads(e, target, r)
  BY DEF Aims
<1>2. First' = First /\ tree' = tree
  BY WayNext DEF tree
<1>3. Reached(e, target, r, e) /\ IsDisk(e)
  BY <1>1, LeadsReached DEF Leads
<1>4. Kind(e, r) = "dir" /\ Passes(e, target, e)
  BY <1>3, ReachedTarget DEF Reached
<1>5. r \in DOMAIN e /\ e[r].kind = "dir"
  BY <1>3, <1>4, KindOf
<1>6. KeptOutside(r, disk, First.disk)'
  BY <1>2, <1>5 DEF KeptOutside
<1>7. (pc \in {"plan", "write", "modes"} => OnWay(disk))'
  BY <1>4, WayNext
<1>8. Settled' = {} /\ 1..(at' - 1) = {}
  BY <1>2 DEF Settled, Past
<1> HIDE DEF e
<1>9. LinksInv(r)'
  <2>1. ASSUME NEW q \in DOMAIN e, IsStrictPrefix(r, q), e[q].kind = "symlink" PROVE FALSE
    <3>1. Kind(e, q) = "symlink"
      BY <1>3, <2>1, KindOf
    <3>2. Kind(before, q) = "symlink"
      BY <1>1, <3>1 DEF Adds, Same
    <3>3. q \in DOMAIN before /\ before[q].kind = "symlink"
      BY <1>1, <3>2, KindOf
    <3>4. QED
      BY <1>1, <2>1, <3>3 DEF FreshBelow
  <2>2. LinksAt(e, at', r)
    BY <1>8, <2>1 DEF LinksAt
  <2>3. QED
    BY <2>2, PartsNext DEF e
<1>10. PlacedInv(r)'
  <2>1. PlacedAt(e, at', {}, dirs', r)
    BY <1>8 DEF PlacedAt
  <2>2. QED
    BY <1>8, <2>1, PartsNext DEF e
<1>11. WaitingInv(r)'
  <2>1. ASSUME NEW q, NEW cut PROVE WaitsAt(e, q, cut)
    <3>1. SUFFICES ASSUME q \in DOMAIN e
                   PROVE  e[q].kind = "dir" \/ (q \in DOMAIN before /\ e[q] = before[q])
      BY DEF WaitsAt
    <3>2. Kind(e, q) # "none" /\ e[q].kind = Kind(e, q)
      BY <1>3, <3>1, KindOf
    <3>3. CASE Kind(before, q) = "none"
      BY <1>1, <3>2, <3>3 DEF Adds
    <3>4. CASE Kind(before, q) # "none"
      BY <1>1, <3>4, KindOf DEF Adds, Same
    <3>5. QED
      BY <3>3, <3>4
  <2>2. \A S : WaitingAt(e, S, pc' = "readError", r)
    BY <2>1 DEF WaitingAt
  <2>3. 0 \in 0..Len(tree)
    BY SourceFacts
  <2>4. QED
    BY <2>2, <2>3, PartsNext DEF e
<1>12. AllowedInv'
  <2>1. SUFFICES ASSUME AllFull PROVE Permits(disk')
    BY WayNext
  <2>2. Permits(before)
    BY <2>1 DEF AllFull, Permits
  <2>3. Permits(e)
    BY <1>1, <2>2, AddsPermits
  <2>4. QED
    BY <2>3 DEF e
<1>13. (files = Cardinality(Settled))'
  BY <1>8, FS_EmptySet
<1>14. QED
  BY <1>2, <1>6, <1>7, <1>9, <1>10, <1>11, <1>12, <1>13 DEF Held

\* The invariant of a copied tree, where the target is known.
LEMMA TreeNow ==
  ASSUME NEW r, r = Real
  PROVE  TreeInv <=> (CopiesTree /\ FreshBelow(r) =>
           \/ pc = "tree"
           \/ pc = "planError" /\ at = 1 /\ files = 0 /\ disk \in Made(before, target)
           \/ Held(r))
  BY DEF TreeInv, Held

LEMMA TreeNext ==
  ASSUME NEW r, r = Real, before' = before, source' = source, target' = target
  PROVE  /\ CopiesTree' <=> source.root.kind = "dir" /\ pc' # "target"
         /\ FreshBelow(r)' <=> FreshBelow(r)
         /\ Real' = Real
         /\ (CopiesTree' /\ FreshBelow(r) =>
               \/ pc' = "tree"
               \/ pc' = "planError" /\ at' = 1 /\ files' = 0 /\ disk' \in Made(before, target)
               \/ Held(r)') => TreeInv'
<1>1. First' = First /\ Real' = Real
  BY WayNext DEF Real
<1>2. CopiesTree' <=> source.root.kind = "dir" /\ pc' # "target"
  BY DEF CopiesTree
<1>3. FreshBelow(r)' <=> FreshBelow(r)
  BY DEF FreshBelow
<1>4. ASSUME CopiesTree' /\ FreshBelow(r) =>
               \/ pc' = "tree"
               \/ pc' = "planError" /\ at' = 1 /\ files' = 0 /\ disk' \in Made(before, target)
               \/ Held(r)'
      PROVE  TreeInv'
  <2>1. SUFFICES ASSUME CopiesTree', FreshBelow(Real)'
                 PROVE  \/ pc' = "tree"
                        \/ pc' = "planError" /\ at' = 1 /\ files' = 0 /\ disk' \in Made(before', target')
                        \/ /\ ~Fails(First)'
                           /\ KeptOutside(Real, disk, First.disk)'
                           /\ pc' \in {"plan", "write", "modes"} => OnWay(disk)'
                           /\ LinksInv(Real)' /\ PlacedInv(Real)' /\ WaitingInv(Real)' /\ AllowedInv'
                           /\ (files = Cardinality(Settled))'
    BY DEF TreeInv
  <2>2. FreshBelow(r)
    BY <1>1, <2>1 DEF FreshBelow
  <2>3. CASE pc' = "tree"
    BY <2>3
  <2>4. CASE pc' = "planError" /\ at' = 1 /\ files' = 0 /\ disk' \in Made(before, target)
    BY <1>1, <2>4
  <2>5. CASE Held(r)'
    <3>1. /\ ~Fails(First)'
          /\ KeptOutside(r, disk, First.disk)'
          /\ pc' \in {"plan", "write", "modes"} => OnWay(disk)'
          /\ LinksInv(r)' /\ PlacedInv(r)' /\ WaitingInv(r)' /\ AllowedInv'
          /\ (files = Cardinality(Settled))'
      BY <2>5 DEF Held
    <3>2. KeptOutside(Real, disk, First.disk)'
      BY <1>1, <3>1 DEF KeptOutside
    <3>3. LinksInv(Real)'
      BY <1>1, <3>1 DEF LinksInv
    <3>4. PlacedInv(Real)'
      BY <1>1, <3>1 DEF PlacedInv, Copied
    <3>5. WaitingInv(Real)'
      BY <1>1, <3>1 DEF WaitingInv
    <3>6. QED
      BY <3>1, <3>2, <3>3, <3>4, <3>5
  <2>6. QED
    BY <1>4, <2>1, <2>2, <2>3, <2>4, <2>5
<1>5. QED
  BY <1>1, <1>2, <1>3, <1>4

LEMMA TargetNames ==
  ASSUME source \in Sources, dest \in Dests, target \in {dest, dest \o source.base}
  PROVE  dest \in Seq(Names) /\ target \in Seq(Names)
<1>1. dest \in Seq(Names) /\ source.base \in Seq(Names)
  BY DestsAssumption, SourceFacts
<1>2. dest \o source.base \in Seq(Names)
  BY <1>1
<1>3. QED
  BY <1>1, <1>2

LEMMA InvFacts ==
  ASSUME IInv
  PROVE  /\ target \in Seq(Names) /\ source \in Sources /\ dest \in Seq(Names)
         /\ before \in Disks /\ IsDisk(before) /\ IsDisk(disk) /\ Real \in Seq(Names)
         /\ Len(tree) \in Nat /\ DOMAIN tree = 1..Len(tree) /\ at \in 1..(Len(tree) + 1)
         /\ FreshBelow(Real) /\ ~Fails(First) => Aims(Real)
<1>1. /\ source \in Sources /\ before \in Disks /\ IsDisk(before) /\ IsDisk(disk)
      /\ dest \in Seq(Names) /\ target \in Seq(Names)
  BY DisksAssumption, TargetNames DEF IInv, TypeOK, CallInv
<1>2. Len(tree) \in Nat /\ DOMAIN tree = 1..Len(tree) /\ at \in 1..(Len(tree) + 1)
  BY <1>1, SourceFacts DEF IInv, TypeOK, tree
<1>3. /\ Real \in Seq(Names) /\ Adds(before, First.disk)
      /\ ~Fails(First) => Leads(First.disk, target, Real)
  BY <1>1, FirstLeads DEF Real, First
<1>4. QED
  BY <1>1, <1>2, <1>3 DEF Aims

LEMMA InvGoing ==
  ASSUME IInv, pc \in {"plan", "write", "modes"}, FreshBelow(Real)
  PROVE  Going(Real)
<1>1. CopiesTree
  BY DEF IInv, CallInv, CopiesTree
<1>2. pc # "tree" /\ pc # "planError"
  OBVIOUS
<1>3. Held(Real)
  BY <1>1, <1>2, TreeNow DEF IInv
<1>4. Aims(Real)
  BY <1>3, InvFacts DEF Held
<1>5. QED
  BY <1>3, <1>4, InvFacts DEF Going, IInv, ListsInv

\* A step of a copy that is under way keeps what is known of the tree.
LEMMA GoingStep ==
  ASSUME NEW r, Going(r), Next
  PROVE  Held(r)'
<1>0. /\ pc \in {"plan", "write", "modes"} /\ Held(r) /\ pc # "readError" /\ pc \notin Outcomes
  BY DEF Going, Outcomes
<1>1. CASE PlanDir \/ PlanSymlink \/ PlanRegular \/ PlanSkip
  BY <1>1, PlanDirHolds, PlanSymlinkHolds, PlanRegularHolds, PlanSkipHolds
<1>2. CASE WriteEntry \/ ExtractError \/ SetMode \/ DiskError
  BY <1>2, WriteEntryHolds, ExtractErrorHolds, SetModeHolds, DiskErrorHolds
<1>3. CASE PlanEnd \/ WriteEnd
  <2>1. /\ source' = source /\ before' = before /\ target' = target /\ disk' = disk
        /\ at' = at /\ pending' = pending /\ dirs' = dirs /\ files' = files
        /\ (pc = "plan" /\ pc' = "write") \/ (pc = "write" /\ pc' = "modes")
    BY <1>3 DEF PlanEnd, WriteEnd, Enter, input, lists, counters
  <2>2. QED
    BY <1>0, <2>1, StillHolds
<1>4. CASE Refuse \/ Complete
  <2>1. \A why : Failed(disk, why).disk = disk
    BY Results
  <2>2. Done(disk).disk = disk
    BY Results
  <2>3. /\ source' = source /\ before' = before /\ target' = target /\ disk' = disk
        /\ at' = at /\ pending' = pending /\ dirs' = dirs /\ files' = files
    BY <1>4, <2>1, <2>2 DEF Refuse, Complete, Return, input, lists, counters
  <2>4. pc' \in {"refused", "planError", "ok"}
    BY <1>4 DEF Refuse, Complete, Return
  <2>5. QED
    BY <1>0, <2>3, <2>4, StillHolds
<1>5. CASE ChooseTarget \/ Unsupported \/ CopyFile \/ CopyFileReadError \/ MakeTarget \/ Returned
  BY <1>0, <1>5 DEF ChooseTarget, Unsupported, CopyFile, CopyFileReadError, MakeTarget, Returned
<1>6. QED
  BY <1>1, <1>2, <1>3, <1>4, <1>5 DEF Next

\* The disk and the lists are the only things that change, once the target is chosen.
LEMMA InputsStay ==
  ASSUME Next
  PROVE  /\ source' = source /\ before' = before /\ dest' = dest
         /\ pc # "target" => target' = target /\ pc' # "target"
  BY DEF Next, ChooseTarget, Unsupported, CopyFile, CopyFileReadError, MakeTarget, Refuse, PlanDir,
         PlanSymlink, PlanRegular, PlanSkip, PlanEnd, WriteEntry, ExtractError, WriteEnd, SetMode,
         Complete, DiskError, Broken, Returned, Return, Enter, Planned, Planning, input, vars

LEMMA TreeStep ==
  ASSUME IInv, Next
  PROVE  TreeInv'
<1>1. source' = source /\ before' = before /\ (pc # "target" => target' = target /\ pc' # "target")
  BY InputsStay
<1>2. CASE pc = "target"
  <2>1. ChooseTarget
    BY <1>2 DEF Next, ChooseTarget, Unsupported, CopyFile, CopyFileReadError, MakeTarget, Refuse,
                PlanDir, PlanSymlink, PlanRegular, PlanSkip, PlanEnd, WriteEntry, ExtractError,
                WriteEnd, SetMode, Complete, DiskError, Broken, Returned, Planning, Outcomes
  <2>2. pc' = "tree" \/ source'.root.kind # "dir"
    BY <1>1, <2>1 DEF ChooseTarget
  <2>3. QED
    BY <2>2 DEF TreeInv, CopiesTree
<1>3. CASE pc # "target"
  <2>1. PICK r : r = Real
    OBVIOUS
  <2>2. target' = target
    BY <1>1, <1>3
  <2>3. SUFFICES ASSUME source.root.kind = "dir", FreshBelow(r)
                 PROVE  \/ pc' = "tree"
                        \/ pc' = "planError" /\ at' = 1 /\ files' = 0 /\ disk' \in Made(before, target)
                        \/ Held(r)'
    BY <1>1, <2>1, <2>2, TreeNext
  <2>4. CopiesTree
    BY <1>3, <2>3 DEF CopiesTree
  <2>5. \/ pc = "tree"
        \/ pc = "planError" /\ at = 1 /\ files = 0 /\ disk \in Made(before, target)
        \/ Held(r)
    BY <2>1, <2>3, <2>4, TreeNow DEF IInv
  <2>6. CASE pc = "tree"
    <3>1. disk = before /\ at = 1 /\ pending = {} /\ files = 0
      BY <2>6 DEF IInv, CallInv
    <3>2. MakeTarget \/ DiskError
      BY <2>6 DEF Next, ChooseTarget, Unsupported, CopyFile, CopyFileReadError, MakeTarget, Refuse,
                  PlanDir, PlanSymlink, PlanRegular, PlanSkip, PlanEnd, WriteEntry, ExtractError,
                  WriteEnd, SetMode, Complete, DiskError, Broken, Returned, Planning, Outcomes
    <3>3. CASE DiskError
      <4>1. PICK y \in Made(disk, target) :
              pc' = "planError" /\ at' = at /\ files' = files /\ disk' = Failed(y, "EIO").disk
        BY <2>6, <3>3 DEF DiskError, Broken, Return, counters, Planning
      <4>2. disk' = y
        BY <4>1, Results
      <4>3. QED
        BY <3>1, <4>1, <4>2
    <3>4. CASE MakeTarget /\ Fails(First)
      <4>1. Return("planError", First)
        BY <3>1, <3>4 DEF MakeTarget, First
      <4>2. First.disk \in Made(before, target)
        BY <2>1, WholeMade, InvFacts DEF First
      <4>3. QED
        BY <3>1, <4>1, <4>2 DEF Return, counters
    <3>5. CASE MakeTarget /\ ~Fails(First)
      <4>1. disk' = First.disk /\ at' = at /\ pending' = pending /\ files' = files
        BY <3>1, <3>5 DEF MakeTarget, First, input, lists, counters
      <4>2. Aims(r) /\ source \in Sources
        BY <2>1, <2>3, <3>5, InvFacts
      <4>3. QED
        BY <1>1, <2>2, <3>1, <3>5, <4>1, <4>2, MakeTargetHolds
    <3>6. QED
      BY <3>2, <3>3, <3>4, <3>5
  <2>7. CASE pc \in {"plan", "write", "modes"}
    BY <2>1, <2>3, <2>7, GoingStep, InvGoing
  <2>8. CASE pc \notin {"tree", "plan", "write", "modes"}
    <3>1. pc \in Outcomes
      BY <1>3, <2>3, <2>8 DEF IInv, TypeOK, CallInv
    <3>2. UNCHANGED vars
      BY <3>1 DEF Next, ChooseTarget, Unsupported, CopyFile, CopyFileReadError, MakeTarget, Refuse,
                  PlanDir, PlanSymlink, PlanRegular, PlanSkip, PlanEnd, WriteEntry, ExtractError,
                  WriteEnd, SetMode, Complete, DiskError, Broken, Returned, Planning, Outcomes
    <3>3. /\ disk' = disk /\ at' = at /\ pending' = pending /\ dirs' = dirs /\ files' = files
          /\ pc' = pc
      BY <3>2 DEF vars, lists, counters
    <3>4. CASE Held(r)
      BY <1>1, <2>2, <3>3, <3>4, StillHolds
    <3>5. QED
      BY <2>5, <2>8, <3>3, <3>4
  <2>9. QED
    BY <2>6, <2>7, <2>8
<1>4. QED
  BY <1>2, <1>3

-----------------------------------------------------------------------------
(***************************************************************************)
(* The other parts of the invariant.                                       *)
(***************************************************************************)

LEMMA FrontNames ==
  ASSUME NEW a \in Seq(Names)
  PROVE  Front(a) \in Seq(Names)
<1>1. CASE a # << >>
  BY <1>1, FrontIsPath
<1>2. CASE a = << >>
  BY <1>2 DEF Front
<1>3. QED
  BY <1>1, <1>2

\* Every call leaves a disk.
LEMMA CallsLeaveDisks ==
  ASSUME NEW d, IsDisk(d), NEW u \in Seq(Names), NEW x
  PROVE  /\ IsDisk(MkdirAll(d, u).disk) /\ IsDisk(Written(d, u, x).disk) /\ IsDisk(Cut(d, u, x).disk)
         /\ \A mode : IsDisk(Chmod(d, u, mode).disk)
         /\ IsDisk(RemoveNode(d, u).disk)
         /\ \A link \in Seq(Word) : IsDisk(MakeSymlink(d, u, link).disk)
<1>0. u \in Seq(Word)
  BY NamesAreWords
<1>1. IsDisk(MkdirAll(d, u).disk)
  BY MkdirAdds DEF Adds
<1>2. IsDisk(Written(d, u, x).disk)
  BY <1>0, WrittenIs DEF Leaves
<1>3. IsDisk(Cut(d, u, x).disk)
  BY <1>0, WriteIs DEF Leaves, Cut
<1>4. \A mode : IsDisk(Chmod(d, u, mode).disk)
  BY <1>0, ChmodIs
<1>5. IsDisk(RemoveNode(d, u).disk)
  BY <1>0, RemoveIs
<1>6. \A link \in Seq(Word) : IsDisk(MakeSymlink(d, u, link).disk)
  BY <1>0, LinkIs DEF Leaves
<1>7. QED
  BY <1>1, <1>2, <1>3, <1>4, <1>5, <1>6

LEMMA HereNames ==
  ASSUME target \in Seq(Names), NEW x \in Entry
  PROVE  Here(x) \in Seq(Names) /\ Front(Here(x)) \in Seq(Names) /\ x.link \in Seq(Word)
<1>1. x.rel \in Seq(Names) /\ x.link \in Seq(Word)
  BY EntryFacts
<1>2. Here(x) \in Seq(Names)
  BY <1>1 DEF Here
<1>3. QED
  BY <1>1, <1>2, FrontNames

LEMMA MadeDisk ==
  ASSUME IsDisk(disk), target \in Seq(Names), NEW x \in Entry
  PROVE  IsDisk(FileMade(x).disk) /\ IsDisk(Linked(x).disk)
<1> DEFINE u == Here(x)
           m == MkdirAll(disk, Front(u))
           b == RemoveNode(m.disk, u)
<1>1. u \in Seq(Names) /\ Front(u) \in Seq(Names) /\ x.link \in Seq(Word)
  BY HereNames
<1>2. IsDisk(m.disk)
  BY <1>1, CallsLeaveDisks
<1>3. IsDisk(Written(m.disk, u, x).disk) /\ IsDisk(b.disk)
  BY <1>1, <1>2, CallsLeaveDisks
<1>4. IsDisk(MakeSymlink(b.disk, u, x.link).disk)
  BY <1>1, <1>3, CallsLeaveDisks
<1>5. QED
  BY <1>2, <1>3, <1>4 DEF FileMade, Linked

LEMMA LeftDisk ==
  ASSUME IsDisk(disk), NEW u \in Seq(Names), NEW x
  PROVE  /\ \A y \in Made(disk, u) \cup FileLeft(u, x) : IsDisk(y)
         /\ LET m == MkdirAll(disk, Front(u)) IN
            \A y \in Made(disk, Front(u)) \cup {RemoveNode(m.disk, u).disk} : IsDisk(y)
<1> DEFINE m == MkdirAll(disk, Front(u))
<1>1. Front(u) \in Seq(Names) /\ u \in Seq(Word)
  BY FrontNames, NamesAreWords
<1>2. \A a \in Seq(Names) : \A y \in Made(disk, a) : IsDisk(y)
  BY MadeBetween DEF Adds
<1>3. IsDisk(m.disk)
  BY <1>1, CallsLeaveDisks
<1> HIDE DEF m
<1>4. \A c : IsDisk(WriteFile(m.disk, u, Perm(x), c).disk)
  BY <1>1, <1>3, WriteIs DEF Leaves
<1>5. IsDisk(RemoveNode(m.disk, u).disk)
  BY <1>3, CallsLeaveDisks
<1>6. \A y \in FileLeft(u, x) : IsDisk(y)
  BY <1>1, <1>2, <1>4 DEF FileLeft, m
<1>7. QED
  BY <1>1, <1>2, <1>5, <1>6 DEF m

\* The entries in the lists are the tree's.
LEMMA ListedEntries ==
  ASSUME IInv
  PROVE  /\ pending \subseteq Entry
         /\ dirs # << >> => Head(dirs) \in Entry /\ Head(dirs).kind = "dir"
         /\ at <= Len(source.tree) => entry \in Entry
         /\ IsFiniteSet(pending)
<1>1. tree \in Seq(Entry) /\ DOMAIN tree = 1..Len(tree) /\ at \in 1..(Len(tree) + 1) /\ Len(tree) \in Nat
  BY InvFacts, SourceFacts
<1>2. \A k \in Past : k \in DOMAIN tree /\ tree[k] \in Entry
  BY <1>1 DEF Past
<1>3. pending \subseteq Entry
  BY <1>2 DEF IInv, ListsInv
<1>4. dirs # << >> => Head(dirs) \in {tree[k] : k \in {j \in Past : tree[j].kind = "dir"}}
  BY DEF IInv, ListsInv
<1>5. dirs # << >> => Head(dirs) \in Entry /\ Head(dirs).kind = "dir"
  BY <1>2, <1>4
<1>6. at <= Len(source.tree) => entry \in Entry
  BY <1>1 DEF entry, tree
<1>7. IsFiniteSet(pending)
  <2> DEFINE f == [k \in Past |-> tree[k]]
             T == {tree[k] : k \in Past}
  <2>1. IsFiniteSet(Past)
    BY <1>1, FS_Interval DEF Past
  <2>2. f \in Surjection(Past, T)
    BY DEF Surjection
  <2>3. IsFiniteSet(T)
    BY <2>1, <2>2, FS_Surjection
  <2>4. pending \subseteq T
    BY DEF IInv, ListsInv
  <2>5. QED
    BY <2>3, <2>4, FS_Subset
<1>8. QED
  BY <1>3, <1>5, <1>6, <1>7

LEMMA DiskStep ==
  ASSUME IInv, Next
  PROVE  IsDisk(disk')
<1>1. target \in Seq(Names) /\ IsDisk(disk) /\ source \in Sources /\ source.root \in Entry
  BY InvFacts, SourceFacts
<1>2. /\ \A y, why : Failed(y, why).disk = y
      /\ \A y : Done(y).disk = y
  BY Results
<1>3. Front(target) \in Seq(Names) /\ IsDisk(FileParent.disk)
  BY <1>1, FrontNames, CallsLeaveDisks DEF FileParent
<1>4. CASE ChooseTarget \/ PlanEnd \/ WriteEnd \/ Returned \/ PlanRegular \/ PlanSkip
  BY <1>1, <1>4 DEF ChooseTarget, PlanEnd, WriteEnd, Returned, PlanRegular, PlanSkip, Enter, Planned, vars
<1>5. CASE Unsupported \/ Refuse \/ Complete
  BY <1>1, <1>2, <1>5 DEF Unsupported, Refuse, Complete, Return
<1>6. CASE CopyFile
  <2>1. IsDisk(Written(FileParent.disk, target, source.root).disk)
    BY <1>1, <1>3, CallsLeaveDisks
  <2>2. QED
    BY <1>3, <1>6, <2>1 DEF CopyFile, Return
<1>7. CASE CopyFileReadError
  <2>1. IsDisk(Cut(FileParent.disk, target, source.root).disk)
    BY <1>1, <1>3, CallsLeaveDisks
  <2>2. QED
    BY <1>1, <1>2, <1>7, <2>1 DEF CopyFileReadError, Return
<1>8. CASE MakeTarget
  <2>1. IsDisk(MkdirAll(disk, target).disk)
    BY <1>1, CallsLeaveDisks
  <2>2. QED
    BY <1>8, <2>1 DEF MakeTarget, Return
<1>9. CASE PlanDir \/ PlanSymlink
  <2>1. at <= Len(source.tree)
    BY <1>9 DEF PlanDir, PlanSymlink, Planning
  <2>2. entry \in Entry
    BY <2>1, ListedEntries
  <2> HIDE DEF entry
  <2>3. IsDisk(MkdirAll(disk, Here(entry)).disk) /\ IsDisk(Linked(entry).disk)
    BY <1>1, <2>2, HereNames, CallsLeaveDisks, MadeDisk
  <2>4. QED
    BY <1>9, <2>3 DEF PlanDir, PlanSymlink, Return, Planned
<1>10. CASE WriteEntry
  <2>1. PICK x \in Extracted : disk' = FileMade(x).disk
    BY <1>10 DEF WriteEntry, Return
  <2>2. x \in Entry
    BY ListedEntries DEF Extracted
  <2>3. QED
    BY <1>1, <2>1, <2>2, MadeDisk
<1>11. CASE ExtractError
  <2>1. \/ disk' = disk
        \/ \E x \in Extracted : disk' = Cut(MkdirAll(disk, Front(Here(x))).disk, Here(x), x).disk
    BY <1>2, <1>11 DEF ExtractError, Return
  <2>2. ASSUME NEW x \in Extracted
        PROVE  IsDisk(Cut(MkdirAll(disk, Front(Here(x))).disk, Here(x), x).disk)
    <3>1. x \in Entry
      BY ListedEntries DEF Extracted
    <3>2. Here(x) \in Seq(Names) /\ Front(Here(x)) \in Seq(Names)
      BY <1>1, <3>1, HereNames
    <3>3. IsDisk(MkdirAll(disk, Front(Here(x))).disk)
      BY <1>1, <3>2, CallsLeaveDisks
    <3>4. QED
      BY <3>2, <3>3, CallsLeaveDisks
  <2>3. QED
    BY <1>1, <2>1, <2>2
<1>12. CASE SetMode
  <2>1. dirs # << >> /\ disk' = Chmod(disk, Here(Head(dirs)), Perm(Head(dirs))).disk
    BY <1>12 DEF SetMode, Return
  <2>2. Here(Head(dirs)) \in Seq(Names)
    BY <1>1, <2>1, ListedEntries, HereNames
  <2>3. QED
    BY <1>1, <2>1, <2>2, CallsLeaveDisks
<1>13. CASE DiskError
  <2>1. \/ disk' = disk
        \/ disk' \in FileLeft(target, source.root)
        \/ disk' \in Made(disk, target)
        \/ /\ at <= Len(source.tree)
           /\ disk' \in Made(disk, Here(entry)) \cup LinkLeft(entry)
        \/ \E x \in Extracted : disk' \in FileLeft(Here(x), x)
    BY <1>2, <1>13 DEF DiskError, Broken, PlanLeft, Planning, Return
  <2>2. ASSUME NEW x \in Entry PROVE \A y \in Made(disk, Here(x)) \cup LinkLeft(x) \cup FileLeft(Here(x), x) : IsDisk(y)
    <3>1. Here(x) \in Seq(Names)
      BY <1>1, <2>2, HereNames
    <3>2. QED
      BY <1>1, <3>1, LeftDisk DEF LinkLeft
  <2>3. \A y \in Made(disk, target) \cup FileLeft(target, source.root) : IsDisk(y)
    BY <1>1, LeftDisk
  <2>4. at <= Len(source.tree) => entry \in Entry
    BY ListedEntries
  <2>5. Extracted \subseteq Entry
    BY ListedEntries DEF Extracted
  <2> HIDE DEF entry
  <2>6. QED
    BY <1>1, <2>1, <2>2, <2>3, <2>4, <2>5
<1>14. QED
  BY <1>4, <1>5, <1>6, <1>7, <1>8, <1>9, <1>10, <1>11, <1>12, <1>13 DEF Next

\* Where a step leads to, and what it leaves for the passes to come.
LEMMA ControlStep ==
  ASSUME IInv, Next
  PROVE  /\ pc' \in {"target", "file", "tree", "plan", "write", "modes"} \cup Outcomes
         /\ target' \in {dest', dest' \o source'.base}
         /\ at' \in 1..(Len(tree) + 1)
         /\ pc' \in {"target", "file", "tree"} =>
              /\ disk' = before' /\ at' = 1 /\ pending' = {} /\ dirs' = << >>
              /\ files' = 0 /\ skipped' = 0
         /\ pc' = "target" => target' = dest'
         /\ pc' \in {"file", "unsupported"} => source'.root.kind # "dir"
         /\ pc' \in {"tree", "plan", "write", "modes", "refused", "modeError"} => source'.root.kind = "dir"
<1>1. /\ pc \in {"target", "file", "tree", "plan", "write", "modes"} \cup Outcomes
      /\ target \in {dest, dest \o source.base} /\ at \in 1..(Len(tree) + 1) /\ Len(tree) \in Nat
      /\ pc \in {"target", "file", "tree"} =>
           disk = before /\ at = 1 /\ pending = {} /\ dirs = << >> /\ files = 0 /\ skipped = 0
      /\ pc \in {"file", "unsupported"} => source.root.kind # "dir"
      /\ pc \in {"tree", "plan", "write", "modes", "refused", "modeError"} => source.root.kind = "dir"
  BY InvFacts DEF IInv, TypeOK, CallInv, tree
<1>2. source' = source /\ before' = before /\ dest' = dest
  BY InputsStay
<1>3. CASE ChooseTarget
  <2>1. /\ pc = "target" /\ pc' \in {"tree", "file"} /\ (pc' = "tree" <=> source.root.kind = "dir")
        /\ target' \in {dest, dest \o source.base}
        /\ disk' = disk /\ at' = at /\ pending' = pending /\ dirs' = dirs
        /\ files' = files /\ skipped' = skipped
    BY <1>3 DEF ChooseTarget, Target, lists, counters
  <2>2. QED
    BY <1>1, <1>2, <2>1
<1>4. CASE Unsupported \/ CopyFile \/ CopyFileReadError
  <2>1. /\ pc = "file" /\ pc' \in {"unsupported", "planError", "writeError", "readError", "ok"}
        /\ target' = target /\ at' = at
    BY <1>4 DEF Unsupported, CopyFile, CopyFileReadError, Return, input
  <2>2. QED
    BY <1>1, <1>2, <2>1 DEF Outcomes
<1>5. CASE MakeTarget \/ Refuse \/ PlanEnd \/ WriteEnd \/ WriteEntry \/ ExtractError \/ SetMode \/ Complete
  <2>1. /\ pc \in {"tree", "plan", "write", "modes"}
        /\ pc' \in {"plan", "write", "modes", "refused", "planError", "writeError", "readError",
                    "modeError", "ok"}
        /\ target' = target /\ at' = at
    BY <1>5 DEF MakeTarget, Refuse, PlanEnd, WriteEnd, WriteEntry, ExtractError, SetMode, Complete,
                Planning, Return, Enter, input
  <2>2. QED
    BY <1>1, <1>2, <2>1 DEF Outcomes
<1>6. CASE PlanDir \/ PlanSymlink \/ PlanRegular \/ PlanSkip
  <2>1. /\ pc = "plan" /\ pc' \in {"plan", "planError"} /\ at <= Len(tree)
        /\ target' = target /\ at' \in {at, at + 1}
    BY <1>6 DEF PlanDir, PlanSymlink, PlanRegular, PlanSkip, Planning, Planned, Return, input, tree
  <2>2. QED
    BY <1>1, <1>2, <2>1 DEF Outcomes
<1>7. CASE DiskError
  <2>1. /\ target' = target /\ at' = at
        /\ \/ pc = "modes" /\ pc' = "modeError"
           \/ pc \in {"file", "tree", "plan", "write"} /\ pc' \in {"planError", "writeError"}
    BY <1>7 DEF DiskError, Broken, Return, Planning, input
  <2>2. QED
    BY <1>1, <1>2, <2>1 DEF Outcomes
<1>8. CASE Returned
  <2>1. /\ pc \in Outcomes /\ pc' = pc /\ target' = target /\ at' = at /\ disk' = disk
    BY <1>8 DEF Returned, vars
  <2>2. QED
    BY <1>1, <1>2, <2>1 DEF Outcomes
<1>9. QED
  BY <1>3, <1>4, <1>5, <1>6, <1>7, <1>8 DEF Next

\* An interval of indices grows with them, and so does what is taken from it.
LEMMA PastNext ==
  ASSUME tree' = tree, at \in Nat, at' \in {at, at + 1}
  PROVE  /\ {tree[k] : k \in {j \in Past : IsRegular(tree[j])}}
              \subseteq {tree[k] : k \in {j \in Past : IsRegular(tree[j])}}'
         /\ {tree[k] : k \in {j \in Past : tree[j].kind = "dir"}}
              \subseteq {tree[k] : k \in {j \in Past : tree[j].kind = "dir"}}'
<1>1. 1..(at - 1) \subseteq 1..(at' - 1)
  <2>1. CASE at' = at
    BY <2>1
  <2>2. CASE at' = at + 1
    <3>1. at' - 1 = at /\ at' \in Int
      BY <2>2
    <3>2. 1..(at - 1) \subseteq 1..at
      OBVIOUS
    <3>3. QED
      BY <3>1, <3>2
  <2>3. QED
    BY <2>1, <2>2
<1>1a. Past \subseteq Past'
  BY <1>1 DEF Past
<1>2. QED
  BY <1>1a DEF IsRegular

LEMMA SeqWider ==
  ASSUME NEW S, NEW T, S \subseteq T, NEW s \in Seq(S)
  PROVE  s \in Seq(T)
  OBVIOUS

\* What a set of lists has, with one more or one less.
LEMMA OneMore ==
  ASSUME NEW S, IsFiniteSet(S), NEW x
  PROVE  Cardinality(S \cup {x}) \in Nat /\ Cardinality(S) \in Nat
           /\ Cardinality(S \cup {x}) <= Cardinality(S) + 1
<1>1. Cardinality(S) \in Nat
  BY FS_CardinalityType
<1>2. CASE x \in S
  <2>1. S \cup {x} = S
    BY <1>2
  <2>2. QED
    BY <1>1, <2>1
<1>3. CASE x \notin S
  BY <1>1, <1>3, FS_AddElement
<1>4. QED
  BY <1>2, <1>3

LEMMA OneLess ==
  ASSUME NEW S, IsFiniteSet(S), NEW x \in S
  PROVE  Cardinality(S \ {x}) = Cardinality(S) - 1 /\ Cardinality(S) \in Nat
           /\ Cardinality(S \ {x}) \in Nat
  BY FS_RemoveElement, FS_CardinalityType

\* What the lists are after a step that plans nothing and takes nothing.
LEMMA ListsKept ==
  ASSUME IInv, Next, UNCHANGED <<at, lists, counters>>,
         pc' \in {"write", "modes"} \/ (pc' = "ok" /\ CopiesTree') => at = Len(tree) + 1,
         pc' = "modes" \/ (pc' = "ok" /\ CopiesTree') => pending = {},
         pc' = "ok" /\ CopiesTree' => dirs = << >>
  PROVE  ListsInv'
<1>1. source' = source
  BY InputsStay
<1>2. at' = at /\ pending' = pending /\ dirs' = dirs /\ files' = files /\ skipped' = skipped
  BY DEF lists, counters
<1>3. tree' = tree /\ Past' = Past /\ source'.tree = source.tree
  BY <1>1, <1>2 DEF tree, Past
<1>4. ListsInv
  BY DEF IInv
<1>5. pending' \subseteq {tree[k] : k \in {j \in Past : IsRegular(tree[j])}}'
  BY <1>2, <1>3, <1>4 DEF ListsInv, IsRegular
<1>6. dirs' \in Seq({tree[k] : k \in {j \in Past : tree[j].kind = "dir"}}')
  BY <1>2, <1>3, <1>4 DEF ListsInv
<1>7. QED
  BY <1>1, <1>2, <1>3, <1>4, <1>5, <1>6 DEF ListsInv

LEMMA ListsRest ==
  ASSUME IInv, Next,
         ChooseTarget \/ Unsupported \/ CopyFileReadError \/ MakeTarget \/ Refuse \/ PlanEnd
           \/ ExtractError \/ WriteEnd \/ Complete \/ DiskError \/ Returned
  PROVE  ListsInv'
<1>1. source' = source /\ (pc # "target" => pc' # "target")
  BY InputsStay
<1>2. UNCHANGED <<at, lists, counters>>
  BY DEF ChooseTarget, Unsupported, CopyFileReadError, MakeTarget, Refuse, PlanEnd, ExtractError,
         WriteEnd, Complete, DiskError, Broken, Returned, Return, Enter, lists, counters, vars
<1>3. ListsInv /\ at \in 1..(Len(tree) + 1) /\ Len(tree) \in Nat
  BY InvFacts DEF IInv
<1>4. CASE pc' \notin {"write", "modes", "ok"}
  BY <1>2, <1>4, ListsKept
<1>5. CASE pc' = "write"
  <2>1. PlanEnd
    BY <1>5 DEF ChooseTarget, Unsupported, CopyFileReadError, MakeTarget, Refuse, PlanEnd, ExtractError,
                WriteEnd, Complete, DiskError, Broken, Returned, Return, Enter, vars, Outcomes
  <2>2. at > Len(tree)
    BY <2>1 DEF PlanEnd, tree
  <2>3. at = Len(tree) + 1
    BY <1>3, <2>2
  <2>4. QED
    BY <1>2, <1>5, <2>3, ListsKept
<1>6. CASE pc' = "modes"
  <2>1. WriteEnd
    BY <1>6 DEF ChooseTarget, Unsupported, CopyFileReadError, MakeTarget, Refuse, PlanEnd, ExtractError,
                WriteEnd, Complete, DiskError, Broken, Returned, Return, Enter, vars, Outcomes
  <2>2. pc = "write" /\ pending = {}
    BY <2>1 DEF WriteEnd
  <2>3. at = Len(tree) + 1
    BY <1>3, <2>2 DEF ListsInv
  <2>4. QED
    BY <1>2, <1>6, <2>2, <2>3, ListsKept
<1>7. CASE pc' = "ok"
  <2>1. \/ pc = "modes" /\ dirs = << >>
        \/ pc = "ok"
    BY <1>7 DEF ChooseTarget, Unsupported, CopyFileReadError, MakeTarget, Refuse, PlanEnd, ExtractError,
                WriteEnd, Complete, DiskError, Broken, Returned, Return, Enter, vars, Outcomes
  <2>2. CopiesTree' => CopiesTree
    BY <1>1, <2>1 DEF CopiesTree
  <2>3. CopiesTree' => at = Len(tree) + 1 /\ pending = {} /\ dirs = << >>
    BY <1>3, <2>1, <2>2 DEF ListsInv
  <2>4. QED
    BY <1>2, <1>7, <2>3, ListsKept
<1>8. QED
  BY <1>4, <1>5, <1>6, <1>7

LEMMA ListsFile ==
  ASSUME IInv, Next, CopyFile
  PROVE  ListsInv'
<1>1. /\ source' = source /\ pc = "file" /\ at' = at /\ pending' = pending /\ dirs' = dirs
      /\ skipped' = skipped
      /\ \/ pc' \in {"planError", "writeError"} /\ UNCHANGED <<at, lists, counters>>
         \/ pc' = "ok" /\ files' = 1
  BY InputsStay DEF CopyFile, Return, lists, counters
<1>2. pending = {} /\ dirs = << >> /\ skipped = 0 /\ at = 1 /\ source.root.kind # "dir"
  BY <1>1 DEF IInv, CallInv
<1>3. CASE pc' \in {"planError", "writeError"} /\ UNCHANGED <<at, lists, counters>>
  BY <1>3, ListsKept
<1>4. CASE pc' = "ok" /\ files' = 1
  <2>1. ~CopiesTree'
    BY <1>1, <1>2 DEF CopiesTree
  <2>2. Cardinality(pending') = 0
    BY <1>1, <1>2, FS_EmptySet
  <2>3. files' + skipped' + Cardinality(pending') <= 1
    BY <1>1, <1>2, <1>4, <2>2
  <2>4. \A S : << >> \in Seq(S)
    OBVIOUS
  <2>5. dirs' \in Seq({tree[k] : k \in {j \in Past : tree[j].kind = "dir"}}')
    BY <1>1, <1>2, <2>4
  <2>6. source'.root.kind # "dir" /\ pending' = {} /\ files' \in Nat /\ skipped' \in Nat
    BY <1>1, <1>2, <1>4
  <2>7. QED
    BY <1>4, <2>1, <2>3, <2>5, <2>6 DEF ListsInv
<1>5. QED
  BY <1>1, <1>3, <1>4

\* One more entry is planned, into one list, or counted.
LEMMA ListsPlan ==
  ASSUME IInv, Next, PlanDir \/ PlanSymlink \/ PlanRegular \/ PlanSkip
  PROVE  ListsInv'
<1>1. source' = source /\ tree' = tree
  BY InputsStay DEF tree
<1>2. /\ ListsInv /\ at \in Nat /\ IsFiniteSet(pending) /\ pc = "plan"
      /\ at <= Len(tree) /\ tree[at] = entry
      /\ source.root.kind = "dir"
  BY InvFacts, ListedEntries DEF IInv, CallInv, PlanDir, PlanSymlink, PlanRegular, PlanSkip, Planning,
                                 tree, entry
<1>3. Cardinality(pending) \in Nat /\ files \in Nat /\ skipped \in Nat
  BY <1>2, FS_CardinalityType DEF ListsInv
<1>4. CASE pc' = "planError" /\ UNCHANGED <<at, lists, counters>>
  BY <1>4, ListsKept
<1>5. CASE pc' = "plan" /\ at' = at + 1
  <2>1. at \in Past'
    <3>1. at >= 1 /\ at' - 1 = at
      BY <1>2, <1>5, InvFacts
    <3>2. QED
      BY <1>2, <3>1 DEF Past
  <2>2. /\ {tree[k] : k \in {j \in Past : IsRegular(tree[j])}}
              \subseteq {tree[k] : k \in {j \in Past : IsRegular(tree[j])}}'
        /\ {tree[k] : k \in {j \in Past : tree[j].kind = "dir"}}
              \subseteq {tree[k] : k \in {j \in Past : tree[j].kind = "dir"}}'
    BY <1>1, <1>2, <1>5, PastNext
  <2>3. pending' \subseteq {tree[k] : k \in {j \in Past : IsRegular(tree[j])}}'
    <3>1. CASE pending' = pending
      BY <1>2, <2>2, <3>1 DEF ListsInv
    <3>2. CASE PlanRegular
      <4>1. pending' = pending \cup {tree[at]} /\ IsRegular(tree[at])
        BY <1>2, <1>5, <3>2 DEF PlanRegular
      <4>2. tree[at] \in {tree[k] : k \in {j \in Past : IsRegular(tree[j])}}'
        BY <1>1, <2>1, <4>1 DEF IsRegular
      <4>3. QED
        BY <1>2, <2>2, <4>1, <4>2 DEF ListsInv
    <3>3. QED
      BY <1>5, <3>1, <3>2 DEF PlanDir, PlanSymlink, PlanSkip, Return, lists
  <2>4. dirs' \in Seq({tree[k] : k \in {j \in Past : tree[j].kind = "dir"}}')
    <3> DEFINE T == {tree[k] : k \in {j \in Past : tree[j].kind = "dir"}}
    <3>1. dirs \in Seq(T')
      <4>1. dirs \in Seq(T) /\ T \subseteq T'
        BY <1>2, <2>2 DEF ListsInv
      <4> HIDE DEF T
      <4>2. QED
        BY <4>1, SeqWider
    <3>2. CASE dirs' = dirs
      BY <3>1, <3>2
    <3>3. CASE PlanDir
      <4>1. dirs' = Append(dirs, tree[at]) /\ tree[at].kind = "dir"
        BY <1>2, <1>5, <3>3 DEF PlanDir, Return
      <4>2. tree[at] \in T'
        BY <1>1, <2>1, <4>1
      <4> HIDE DEF T
      <4>3. QED
        BY <3>1, <4>1, <4>2 DEF T
    <3>4. QED
      BY <1>5, <3>2, <3>3 DEF PlanSymlink, PlanRegular, PlanSkip, Return, lists
  <2>5. files' \in Nat /\ skipped' \in Nat /\ files' + skipped' + Cardinality(pending') <= at
    <3>1. files + skipped + Cardinality(pending) <= at - 1
      BY <1>2 DEF ListsInv
    <3>2. CASE PlanDir
      <4>1. files' = files /\ skipped' = skipped /\ pending' = pending
        BY <1>5, <3>2 DEF PlanDir, Return, counters
      <4>2. QED
        BY <1>2, <1>3, <3>1, <4>1
    <3>3. CASE PlanSymlink
      <4>1. files' = files + 1 /\ skipped' = skipped /\ pending' = pending
        BY <1>5, <3>3 DEF PlanSymlink, Return, lists
      <4>2. QED
        BY <1>2, <1>3, <3>1, <4>1
    <3>4. CASE PlanSkip
      <4>1. files' = files /\ skipped' = skipped + 1 /\ pending' = pending
        BY <3>4 DEF PlanSkip, lists
      <4>2. QED
        BY <1>2, <1>3, <3>1, <4>1
    <3>5. CASE PlanRegular
      <4>1. files' = files /\ skipped' = skipped /\ pending' = pending \cup {entry}
        BY <3>5 DEF PlanRegular, counters
      <4>2. /\ Cardinality(pending') \in Nat
            /\ Cardinality(pending') <= Cardinality(pending) + 1
        BY <1>2, <4>1, OneMore
      <4>3. QED
        BY <1>2, <1>3, <3>1, <4>1, <4>2
    <3>6. QED
      BY <3>2, <3>3, <3>4, <3>5
  <2>6. source'.root.kind = "dir" /\ at' - 1 = at
    BY <1>1, <1>2, <1>5
  <2>7. QED
    BY <1>5, <2>3, <2>4, <2>5, <2>6 DEF ListsInv
<1>6. \/ pc' = "planError" /\ UNCHANGED <<at, lists, counters>>
      \/ pc' = "plan" /\ at' = at + 1
  BY <1>2 DEF PlanDir, PlanSymlink, PlanRegular, PlanSkip, Return, Planned
<1>7. QED
  BY <1>4, <1>5, <1>6

LEMMA ListsWrite ==
  ASSUME IInv, Next, WriteEntry
  PROVE  ListsInv'
<1>1. source' = source /\ tree' = tree
  BY InputsStay DEF tree
<1>2. /\ ListsInv /\ IsFiniteSet(pending) /\ pc = "write" /\ at \in Nat
      /\ source.root.kind = "dir"
  BY InvFacts, ListedEntries DEF IInv, CallInv, WriteEntry
<1>3. Cardinality(pending) \in Nat /\ files \in Nat /\ skipped \in Nat
  BY <1>2, FS_CardinalityType DEF ListsInv
<1>4. CASE pc' = "writeError" /\ UNCHANGED <<at, lists, counters>>
  BY <1>4, ListsKept
<1>5. ASSUME NEW x \in pending,
             pc' = "write" /\ pending' = pending \ {x} /\ files' = files + 1,
             at' = at /\ dirs' = dirs /\ skipped' = skipped
      PROVE  ListsInv'
  <2>1. Past' = Past
    BY <1>5 DEF Past
  <2>2. pending' \subseteq {tree[k] : k \in {j \in Past : IsRegular(tree[j])}}'
    BY <1>1, <1>2, <1>5, <2>1 DEF ListsInv, IsRegular
  <2>3. dirs' \in Seq({tree[k] : k \in {j \in Past : tree[j].kind = "dir"}}')
    BY <1>1, <1>2, <1>5, <2>1 DEF ListsInv
  <2>4. Cardinality(pending') = Cardinality(pending) - 1 /\ Cardinality(pending') \in Nat
    BY <1>2, <1>5, OneLess
  <2>5. files + skipped + Cardinality(pending) <= at - 1
    BY <1>2 DEF ListsInv
  <2>6. files' \in Nat /\ skipped' \in Nat /\ files' + skipped' + Cardinality(pending') <= at' - 1
    BY <1>2, <1>3, <1>5, <2>4, <2>5
  <2>7. at' = Len(tree') + 1
    BY <1>1, <1>2, <1>5 DEF ListsInv
  <2>8. source'.root.kind = "dir"
    BY <1>1, <1>2
  <2>9. QED
    BY <1>5, <2>2, <2>3, <2>6, <2>7, <2>8 DEF ListsInv
<1>6. \/ pc' = "writeError" /\ UNCHANGED <<at, lists, counters>>
      \/ \E x \in pending :
           /\ pc' = "write" /\ pending' = pending \ {x} /\ files' = files + 1
           /\ at' = at /\ dirs' = dirs /\ skipped' = skipped
  BY <1>2 DEF WriteEntry, Return, Extracted
<1>7. QED
  BY <1>4, <1>5, <1>6

LEMMA ListsModes ==
  ASSUME IInv, Next, SetMode
  PROVE  ListsInv'
<1>1. source' = source /\ tree' = tree
  BY InputsStay DEF tree
<1>2. ListsInv /\ pc = "modes" /\ dirs # << >> /\ source.root.kind = "dir"
  BY DEF IInv, CallInv, SetMode
<1>3. CASE pc' = "modeError" /\ UNCHANGED <<at, lists, counters>>
  BY <1>3, ListsKept
<1>4. CASE /\ pc' = "modes" /\ dirs' = Tail(dirs)
           /\ at' = at /\ pending' = pending /\ files' = files /\ skipped' = skipped
  <2>1. Past' = Past
    BY <1>4 DEF Past
  <2>2. pending' \subseteq {tree[k] : k \in {j \in Past : IsRegular(tree[j])}}'
    BY <1>1, <1>2, <1>4, <2>1 DEF ListsInv, IsRegular
  <2>3. dirs' \in Seq({tree[k] : k \in {j \in Past : tree[j].kind = "dir"}}')
    <3> DEFINE T == {tree[k] : k \in {j \in Past : tree[j].kind = "dir"}}
    <3>1. T' = T
      BY <1>1, <2>1
    <3>2. dirs \in Seq(T) /\ dirs # << >> /\ dirs' = Tail(dirs)
      BY <1>2, <1>4 DEF ListsInv
    <3> HIDE DEF T
    <3>3. dirs' \in Seq(T)
      BY <3>2
    <3>4. QED
      BY <3>1, <3>3 DEF T
  <2>4. /\ files' \in Nat /\ skipped' \in Nat /\ files' + skipped' + Cardinality(pending') <= at' - 1
        /\ source'.root.kind = "dir" /\ pending' = {} /\ at' = Len(tree') + 1
    BY <1>1, <1>2, <1>4 DEF ListsInv
  <2>5. QED
    BY <1>4, <2>2, <2>3, <2>4 DEF ListsInv
<1>5. \/ pc' = "modeError" /\ UNCHANGED <<at, lists, counters>>
      \/ /\ pc' = "modes" /\ dirs' = Tail(dirs)
         /\ at' = at /\ pending' = pending /\ files' = files /\ skipped' = skipped
  BY <1>2 DEF SetMode, Return, counters
<1>6. QED
  BY <1>3, <1>4, <1>5

LEMMA ListsStep ==
  ASSUME IInv, Next
  PROVE  ListsInv'
BY ListsRest, ListsFile, ListsPlan, ListsWrite, ListsModes DEF Next

LEMMA CallStep ==
  ASSUME IInv, Next
  PROVE  TypeOK' /\ CallInv'
<1>1. source' = source /\ before' = before /\ dest' = dest /\ tree' = tree /\ tree = source.tree
  BY InputsStay DEF tree
<1>2. IsDisk(disk') /\ ListsInv'
  BY DiskStep, ListsStep
<1>3. /\ pc' \in {"target", "file", "tree", "plan", "write", "modes"} \cup Outcomes
      /\ target' \in {dest', dest' \o source'.base}
      /\ at' \in 1..(Len(tree) + 1)
      /\ pc' \in {"target", "file", "tree"} =>
           /\ disk' = before' /\ at' = 1 /\ pending' = {} /\ dirs' = << >>
           /\ files' = 0 /\ skipped' = 0
      /\ pc' = "target" => target' = dest'
      /\ pc' \in {"file", "unsupported"} => source'.root.kind # "dir"
      /\ pc' \in {"tree", "plan", "write", "modes", "refused", "modeError"} => source'.root.kind = "dir"
  BY ControlStep
<1>4. before \in Disks /\ source \in Sources /\ dest \in Dests /\ Len(tree) \in Nat
  BY InvFacts DEF IInv, CallInv
<1>5. CallInv'
  BY <1>1, <1>2, <1>3, <1>4 DEF CallInv
<1>6. pending' \subseteq {source'.tree[k] : k \in 1..(at' - 1)}
  BY <1>1, <1>2 DEF ListsInv, Past
<1>7. files' + skipped' + Cardinality(pending') <= Len(source'.tree) + 1
  <2>1. IsFiniteSet(pending')
    <3> DEFINE f == [k \in 1..(at' - 1) |-> tree[k]]
               T == {tree[k] : k \in 1..(at' - 1)}
    <3>1. IsFiniteSet(1..(at' - 1))
      BY <1>3, <1>4, FS_Interval
    <3>2. f \in Surjection(1..(at' - 1), T)
      BY DEF Surjection
    <3>3. IsFiniteSet(T)
      BY <3>1, <3>2, FS_Surjection
    <3>4. pending' \subseteq T
      BY <1>1, <1>6
    <3>5. QED
      BY <3>3, <3>4, FS_Subset
  <2>2. Cardinality(pending') \in Nat
    BY <2>1, FS_CardinalityType
  <2>3. /\ files' \in Nat /\ skipped' \in Nat
        /\ files' + skipped' + Cardinality(pending') <= IF source'.root.kind = "dir" THEN at' - 1 ELSE 1
    BY <1>2 DEF ListsInv
  <2>4. QED
    BY <1>1, <1>3, <1>4, <2>2, <2>3
<1>8. \A q \in DOMAIN disk' : q # Root => Kind(disk', Front(q)) = "dir"
  BY <1>2 DEF IsDisk
<1>9. TypeOK'
  BY <1>1, <1>3, <1>6, <1>7, <1>8 DEF TypeOK
<1>10. QED
  BY <1>5, <1>9

\* A file is copied to a place that allows it, if the whole disk does.
LEMMA FileAllowed ==
  ASSUME IInv, pc = "file", AllFull
  PROVE  /\ FileParent.error # "EACCES"
         /\ LET w == Written(FileParent.disk, target, source.root) IN
            Fails(w) => w.error # "EACCES"
<1>1. disk = before /\ IsDisk(before) /\ target \in Seq(Names)
  BY InvFacts DEF IInv, CallInv
<1>2. Permits(before)
  BY DEF AllFull, Permits
<1>3. Front(target) \in Seq(Names)
  BY <1>1, FrontNames
<1>4. Adds(before, FileParent.disk) /\ FileParent.error # "EACCES"
  BY <1>1, <1>2, <1>3, MkdirAdds DEF FileParent
<1> DEFINE d == FileParent.disk
           v == Written(d, target, source.root)
           w == Walk(d, target, Follow)
<1>5. Permits(d) /\ \A q \in DOMAIN d : Full \subseteq d[q].mode
  BY <1>2, <1>4, AddsPermits DEF AllFull
<1>6. IsDisk(d) /\ target \in Seq(Word)
  BY <1>1, <1>4, NamesAreWords DEF Adds
<1> HIDE DEF d
<1>7. \/ v.error = "EACCES" =>
           ~Permits(d) \/ (~Fails(w) /\ Kind(d, w.at) = "file" /\ "w" \notin d[w.at].mode)
      \/ v.error = NoError
  BY <1>6, WrittenIs
<1> HIDE DEF v, w
<1>8. Kind(d, w.at) = "file" => "w" \in d[w.at].mode
  <2>1. "w" \in Full
    BY DEF Full
  <2>2. QED
    BY <1>5, <1>6, <2>1, KindOf
<1>9. Fails(v) => v.error # "EACCES"
  BY <1>5, <1>7, <1>8 DEF Fails
<1>10. QED
  BY <1>4, <1>9 DEF v, d

\* In a tree under way no pass is refused anything, if the whole disk allows all.
LEMMA PassAllowed ==
  ASSUME NEW r, Going(r), AllFull
  PROVE  /\ Planning => Refusal(entry.rel) # "EACCES"
         /\ PlanDir => MkdirAll(disk, Here(entry)).error # "EACCES"
         /\ PlanSymlink => Linked(entry).error # "EACCES"
         /\ pc = "write" => \A x \in pending : Fails(FileMade(x)) => FileMade(x).error # "EACCES"
<1>1. /\ r \in Seq(Names) /\ target \in Seq(Names) /\ Reached(First.disk, target, r, disk)
      /\ IsDisk(disk)
      /\ pc \in {"plan", "write"} => Permits(disk)
      /\ \A s \in Seq(Names) : s # << >> => Kind(First.disk, Then(r, s)) # "symlink"
  BY GoingFacts DEF Going
<1>2. ASSUME Planning PROVE Refusal(entry.rel) # "EACCES"
  <2>1. at \in DOMAIN tree /\ source \in Sources /\ entry = tree[at]
    BY <1>2, SourceFacts DEF Going, Planning, tree, entry
  <2>2. entry.rel \in Seq(Names)
    BY <2>1, EntryOfTree
  <2>3. Permits(disk)
    BY <1>1, <1>2 DEF Planning
  <2> HIDE DEF entry
  <2>4. QED
    BY <1>1, <2>2, <2>3, RefusalPermits
<1>3. ASSUME PlanDir PROVE MkdirAll(disk, Here(entry)).error # "EACCES"
  <2>1. Planning /\ Passed
    BY <1>3 DEF PlanDir
  <2>2. /\ entry.rel \in Seq(Names) /\ Unlinked(disk, r, entry.rel)
        /\ Kind(disk, Then(r, entry.rel)) # "symlink" /\ Permits(disk)
    BY <1>1, <2>1, PlanFacts DEF Planning
  <2> HIDE DEF entry
  <2>3. QED
    BY <1>1, <2>2, DirBelow
<1>4. ASSUME PlanSymlink PROVE Linked(entry).error # "EACCES"
  <2>1. Planning /\ Passed /\ entry.kind # "dir"
    BY <1>4 DEF PlanSymlink
  <2>2. /\ entry.rel \in Seq(Names) /\ entry.rel # << >> /\ entry.link \in Seq(Word)
        /\ Unlinked(disk, r, entry.rel) /\ Permits(disk)
    BY <1>1, <2>1, PlanFacts DEF Planning
  <2> HIDE DEF entry
  <2>3. Kind(First.disk, Then(r, entry.rel)) # "symlink"
    BY <1>1, <2>2
  <2>4. QED
    BY <1>1, <2>2, <2>3, LinkBelow
<1>5. ASSUME pc = "write", NEW x \in pending, Fails(FileMade(x))
      PROVE  FileMade(x).error # "EACCES"
  <2>1. PICK j \in 1..(at - 1) :
          /\ x = tree[j] /\ tree[j].rel \in Seq(Names) /\ tree[j].rel # << >>
          /\ Unlinked(disk, r, tree[j].rel) /\ Kind(disk, Then(r, tree[j].rel)) # "symlink"
          /\ WaitsAt(disk, Then(r, tree[j].rel), FALSE)
    BY WriteFacts
  <2> DEFINE q == Then(r, x.rel)
             v == FileMade(x)
  <2>2. v.error = "EACCES" =>
          ~Permits(disk) \/ (Kind(disk, q) = "file" /\ "w" \notin disk[q].mode)
    BY <1>1, <1>5, <2>1, FileBelow
  <2>3. WaitsAt(disk, q, FALSE)
    BY <2>1
  <2> HIDE DEF q, v
  <2>4. Kind(disk, q) = "file" => q \in DOMAIN before /\ disk[q] = before[q]
    BY <1>1, <2>3, KindOf DEF WaitsAt
  <2>5. "w" \in Full
    BY DEF Full
  <2>6. Kind(disk, q) = "file" => "w" \in disk[q].mode
    BY <2>4, <2>5 DEF AllFull
  <2>7. QED
    BY <1>1, <1>5, <2>2, <2>6 DEF v
<1>6. QED
  BY <1>2, <1>3, <1>4, <1>5

LEMMA SameReal ==
  ASSUME before' = before, target' = target
  PROVE  Real' = Real /\ \A r : FreshBelow(r)' <=> FreshBelow(r)
<1>1. Real' = Real
  BY DEF Real
<1>2. QED
  BY <1>1 DEF FreshBelow

LEMMA BlockedStep ==
  ASSUME IInv, Next
  PROVE  FilesAreNotBlocked'
<1>1. source' = source /\ before' = before /\ (pc # "target" => target' = target /\ pc' # "target")
  BY InputsStay
<1>2. SUFFICES ASSUME AllFull, CopiesTree' => FreshBelow(Real)', pc' \in {"planError", "writeError"}
               PROVE  error' # "EACCES"
  BY <1>1 DEF FilesAreNotBlocked, AllFull
<1>3. pc # "target"
  BY <1>2 DEF Next, ChooseTarget, Unsupported, CopyFile, CopyFileReadError, MakeTarget, Refuse,
              PlanDir, PlanSymlink, PlanRegular, PlanSkip, PlanEnd, WriteEntry, ExtractError,
              WriteEnd, SetMode, Complete, DiskError, Broken, Returned, Planning, Outcomes, Return, Enter
<1>4. target' = target /\ CopiesTree' = CopiesTree
  BY <1>1, <1>3 DEF CopiesTree
<1>5. CopiesTree => FreshBelow(Real)
  BY <1>1, <1>2, <1>4, SameReal
<1>6. pc \in {"plan", "write", "modes"} => Going(Real)
  BY <1>5, InvGoing DEF IInv, CallInv, CopiesTree
<1>7. CASE CopyFile
  <2>1. \/ error' = FileParent.error
        \/ /\ Fails(Written(FileParent.disk, target, source.root))
           /\ error' = Written(FileParent.disk, target, source.root).error
    BY <1>2, <1>7 DEF CopyFile, Return
  <2>2. pc = "file"
    BY <1>7 DEF CopyFile
  <2>3. QED
    BY <1>2, <2>1, <2>2, FileAllowed
<1>8. CASE MakeTarget
  <2>1. error' = MkdirAll(disk, target).error /\ disk = before
    BY <1>2, <1>8 DEF MakeTarget, Return, IInv, CallInv
  <2>2. IsDisk(before) /\ target \in Seq(Names) /\ Permits(before)
    BY <1>2, InvFacts DEF AllFull, Permits
  <2>3. QED
    BY <2>1, <2>2, MkdirAdds
<1>9. CASE Refuse
  <2>1. Planning /\ error' = Failed(disk, Refusal(entry.rel)).error
    BY <1>9 DEF Refuse, Return
  <2> HIDE DEF entry
  <2>2. error' = Refusal(entry.rel)
    BY <2>1, Results
  <2>3. QED
    BY <1>2, <1>6, <2>1, <2>2, PassAllowed DEF Planning
<1>10. CASE PlanDir \/ PlanSymlink
  <2>1. pc = "plan"
    BY <1>10 DEF PlanDir, PlanSymlink, Planning
  <2>2. \/ PlanDir /\ error' = MkdirAll(disk, Here(entry)).error
        \/ PlanSymlink /\ error' = Linked(entry).error
    BY <1>2, <1>10, <2>1 DEF PlanDir, PlanSymlink, Return, Planned
  <2>3. QED
    BY <1>2, <1>6, <2>1, <2>2, PassAllowed
<1>11. CASE WriteEntry
  <2>1. pc = "write"
    BY <1>11 DEF WriteEntry
  <2>2. PICK x \in pending : Fails(FileMade(x)) /\ error' = FileMade(x).error
    BY <1>2, <1>11, <2>1 DEF WriteEntry, Return, Extracted
  <2>3. QED
    BY <1>2, <1>6, <2>1, <2>2, PassAllowed
<1>12. CASE DiskError
  <2>1. \E y : error' = Failed(y, "EIO").error
    BY <1>12 DEF DiskError, Broken, Return
  <2>2. error' = "EIO"
    BY <2>1, Results
  <2>3. QED
    BY <2>2
<1>13. CASE Returned
  <2>1. error' = error /\ pc' = pc
    BY <1>13 DEF Returned, vars
  <2>2. QED
    BY <1>2, <1>5, <2>1 DEF IInv, FilesAreNotBlocked, AllFull
<1>14. CASE \/ ChooseTarget \/ Unsupported \/ CopyFileReadError \/ PlanRegular \/ PlanSkip
            \/ PlanEnd \/ ExtractError \/ WriteEnd \/ SetMode \/ Complete
  BY <1>2, <1>14 DEF ChooseTarget, Unsupported, CopyFileReadError, PlanRegular, PlanSkip, PlanEnd,
                     ExtractError, WriteEnd, SetMode, Complete, Return, Enter, Planned, Planning
<1>15. QED
  BY <1>7, <1>8, <1>9, <1>10, <1>11, <1>12, <1>13, <1>14 DEF Next

-----------------------------------------------------------------------------
(***************************************************************************)
(* The invariant, and what it says of a copy.                              *)
(***************************************************************************)

LEMMA InitInv ==
  ASSUME Init
  PROVE  IInv
<1>1. /\ before \in Disks /\ source \in Sources /\ dest \in Dests
      /\ disk = before /\ target = dest /\ pc = "target" /\ error = NoError
      /\ at = 1 /\ pending = {} /\ dirs = << >> /\ files = 0 /\ skipped = 0
  BY DEF Init
<1>2. IsDisk(disk) /\ tree = source.tree /\ Len(tree) \in Nat
  BY <1>1, DisksAssumption, SourceFacts DEF tree
<1>3. Cardinality({}) = 0
  BY FS_EmptySet
<1>4. CallInv
  BY <1>1, <1>2 DEF CallInv
<1>5. ListsInv
  <2>1. \A S : << >> \in Seq(S)
    OBVIOUS
  <2>2. files + skipped + Cardinality(pending) <= IF source.root.kind = "dir" THEN at - 1 ELSE 1
    BY <1>1, <1>3
  <2>3. QED
    BY <1>1, <2>1, <2>2 DEF ListsInv
<1>6. TypeOK
  <2>1. \A q \in DOMAIN disk : q # Root => Kind(disk, Front(q)) = "dir"
    BY <1>2 DEF IsDisk
  <2>2. files + skipped + Cardinality(pending) <= Len(source.tree) + 1
    BY <1>1, <1>2, <1>3
  <2>3. at \in 1..(Len(source.tree) + 1)
    BY <1>1, <1>2
  <2>4. QED
    BY <1>1, <2>1, <2>2, <2>3 DEF TypeOK
<1>7. TreeInv /\ FilesAreNotBlocked
  BY <1>1 DEF TreeInv, CopiesTree, FilesAreNotBlocked
<1>8. QED
  BY <1>4, <1>5, <1>6, <1>7 DEF IInv

LEMMA SameInv ==
  ASSUME IInv, UNCHANGED vars
  PROVE  IInv'
<1>1. /\ before' = before /\ source' = source /\ dest' = dest /\ target' = target /\ pc' = pc
      /\ error' = error /\ disk' = disk /\ at' = at /\ pending' = pending /\ dirs' = dirs
      /\ files' = files /\ skipped' = skipped
  BY DEF vars, input, lists, counters
<1>2. TypeOK' /\ CallInv'
  BY <1>1 DEF IInv, TypeOK, CallInv
<1>3. ListsInv'
  BY <1>1 DEF IInv, ListsInv, Past, tree, CopiesTree, IsRegular
<1>4. FilesAreNotBlocked'
  BY <1>1, SameReal DEF IInv, FilesAreNotBlocked, CopiesTree
<1>5. TreeInv'
  <2>1. CASE pc = "target"
    BY <1>1, <2>1 DEF TreeInv, CopiesTree
  <2>2. CASE pc # "target"
    <3>1. PICK r : r = Real
      OBVIOUS
    <3>2. SUFFICES ASSUME source.root.kind = "dir", FreshBelow(r)
                   PROVE  \/ pc' = "tree"
                          \/ pc' = "planError" /\ at' = 1 /\ files' = 0 /\ disk' \in Made(before, target)
                          \/ Held(r)'
      BY <1>1, <2>2, <3>1, TreeNext
    <3>3. \/ pc = "tree"
          \/ pc = "planError" /\ at = 1 /\ files = 0 /\ disk \in Made(before, target)
          \/ Held(r)
      BY <2>2, <3>1, <3>2, TreeNow DEF IInv, CopiesTree
    <3>4. CASE Held(r)
      BY <1>1, <3>4, StillHolds
    <3>5. QED
      BY <1>1, <3>3, <3>4
  <2>3. QED
    BY <2>1, <2>2
<1>6. QED
  BY <1>2, <1>3, <1>4, <1>5 DEF IInv

\* IInv holds all through a copy, whatever is copied, wherever to: the lists and
\* the disk stay as copyTree's passes left them (cp.go:157-247).
THEOREM CopierInvariant == Spec => []IInv
<1>1. Init => IInv
  BY InitInv
<1>2. IInv /\ [Next]_vars => IInv'
  BY CallStep, ListsStep, TreeStep, BlockedStep, SameInv DEF IInv
<1>3. QED
  BY <1>1, <1>2, PTL DEF Spec

\* Every variable of a copy holds a value of its kind, no entry is counted
\* twice, and no call loses a directory that holds something.
THEOREM CopierTypes == Spec => []TypeOK
<1>1. IInv => TypeOK
  BY DEF IInv
<1>2. QED
  BY <1>1, CopierInvariant, PTL

\* No pass is refused for lack of permission when the disk allowed everything:
\* directories get their own modes last (cp.go:182-183).
THEOREM NotBlocked == Spec => []FilesAreNotBlocked
<1>1. IInv => FilesAreNotBlocked
  BY DEF IInv
<1>2. QED
  BY <1>1, CopierInvariant, PTL

\* What the invariant says of a tree to a target with no symlinks below it.
LEMMA TreeCases ==
  ASSUME IInv, NEW r, r = Real, CopiesTree, FreshBelow(r)
  PROVE  /\ r \in Seq(Names) /\ Adds(before, First.disk) /\ IsDisk(before) /\ IsDisk(disk)
         /\ source \in Sources /\ at \in Nat /\ Past \subseteq DOMAIN tree /\ DOMAIN tree = 1..Len(tree)
         /\ Len(tree) \in Nat
         /\ \A q : Kind(First.disk, q) # "none" /\ Kind(before, q) = "none" => IsPrefix(q, r)
         /\ \/ pc = "tree" /\ disk = before /\ files = 0 /\ Past = {}
            \/ /\ pc = "planError" /\ files = 0 /\ Past = {}
               /\ Adds(before, disk) /\ Adds(disk, First.disk)
            \/ Held(r)
<1>1. /\ target \in Seq(Names) /\ source \in Sources /\ IsDisk(before) /\ IsDisk(disk) /\ Real \in Seq(Names)
      /\ Len(tree) \in Nat /\ DOMAIN tree = 1..Len(tree) /\ at \in 1..(Len(tree) + 1)
  BY InvFacts
<1>2. /\ Adds(before, First.disk)
      /\ \A q : Kind(First.disk, q) # "none" /\ Kind(before, q) = "none" => IsPrefix(q, r)
  BY <1>1, FirstLeads DEF Real, First
<1>3. at \in Nat /\ Past \subseteq DOMAIN tree /\ (at = 1 => Past = {})
  BY <1>1 DEF Past
<1>4. \/ pc = "tree"
      \/ pc = "planError" /\ at = 1 /\ files = 0 /\ disk \in Made(before, target)
      \/ Held(r)
  BY TreeNow DEF IInv
<1>5. pc = "tree" => disk = before /\ files = 0 /\ at = 1
  BY DEF IInv, CallInv
<1>6. disk \in Made(before, target) => Adds(before, disk) /\ Adds(disk, First.disk)
  BY <1>1, MadeBetween DEF First
<1>7. QED
  BY <1>1, <1>2, <1>3, <1>4, <1>5, <1>6

\* What is not below the target stays as it was, at every point of the copy of a
\* tree, whatever symlinks the tree has (cp.go:257-259).
LEMMA InvOutside ==
  ASSUME IInv
  PROVE  NothingOutside
<1>1. SUFFICES ASSUME NEW r, r = Real, CopiesTree, FreshBelow(r)
               PROVE  /\ \A q \in DOMAIN before : ~IsPrefix(r, q) => q \in DOMAIN disk /\ disk[q] = before[q]
                      /\ \A q \in DOMAIN disk \ DOMAIN before : IsPrefix(r, q) \/ IsPrefix(q, r)
  BY DEF NothingOutside
<1>2. /\ r \in Seq(Names) /\ Adds(before, First.disk) /\ IsDisk(before) /\ IsDisk(disk)
      /\ \A q : Kind(First.disk, q) # "none" /\ Kind(before, q) = "none" => IsPrefix(q, r)
      /\ \/ Adds(before, disk) /\ Adds(disk, First.disk)
         \/ Held(r)
  BY <1>1, TreeCases, AddsNone
<1>3. IsDisk(First.disk)
  BY <1>2 DEF Adds
<1>4. ASSUME NEW q \in DOMAIN before
      PROVE  q \in DOMAIN First.disk /\ First.disk[q] = before[q]
  <2>1. Kind(before, q) # "none"
    BY <1>2, KindOf
  <2>2. Kind(First.disk, q) # "none" /\ First.disk[q] = before[q]
    BY <1>2, <2>1 DEF Adds, Same
  <2>3. QED
    BY <1>3, <2>2, KindOf
<1>5. ASSUME NEW q \in DOMAIN First.disk, q \notin DOMAIN before
      PROVE  IsPrefix(q, r)
  BY <1>2, <1>3, <1>5, KindOf
<1>6. CASE Adds(before, disk) /\ Adds(disk, First.disk)
  <2>1. ASSUME NEW q \in DOMAIN before
        PROVE  q \in DOMAIN disk /\ disk[q] = before[q]
    <3>1. Kind(before, q) # "none"
      BY <1>2, KindOf
    <3>2. Kind(disk, q) # "none" /\ disk[q] = before[q]
      BY <1>6, <3>1 DEF Adds, Same
    <3>3. QED
      BY <1>2, <3>2, KindOf
  <2>2. ASSUME NEW q \in DOMAIN disk
        PROVE  q \in DOMAIN First.disk
    <3>1. Kind(disk, q) # "none"
      BY <1>2, KindOf
    <3>2. Kind(First.disk, q) # "none"
      BY <1>6, <3>1 DEF Adds, Same
    <3>3. QED
      BY <1>3, <3>2, KindOf
  <2>3. QED
    BY <1>5, <2>1, <2>2
<1>7. CASE Held(r)
  <2>1. KeptOutside(r, disk, First.disk)
    BY <1>7 DEF Held
  <2>2. ASSUME NEW q, q \in DOMAIN disk \cup DOMAIN First.disk, ~IsPrefix(r, q)
        PROVE  q \in DOMAIN disk /\ q \in DOMAIN First.disk /\ disk[q] = First.disk[q]
    <3>1. ~IsStrictPrefix(r, q) /\ q # r
      BY <1>2, <2>2, SelfPrefix DEF IsStrictPrefix
    <3>2. QED
      BY <2>1, <2>2, <3>1 DEF KeptOutside
  <2>3. QED
    BY <1>4, <1>5, <2>2
<1>8. QED
  BY <1>2, <1>6, <1>7

\* At every point of the copy of a tree only what is below the target differs
\* from what was there, but for the target's own new parents.
THEOREM CopyStaysInside == Spec => []NothingOutside
<1>1. IInv => NothingOutside
  BY InvOutside
<1>2. QED
  BY <1>1, CopierInvariant, PTL

\* Once the copy is over, whatever was planned is settled.
LEMMA AllSettled ==
  ASSUME IInv, pc = "ok", CopiesTree, NEW k \in DOMAIN tree,
         tree[k].kind = "symlink" \/ IsRegular(tree[k])
  PROVE  k \in Settled
<1>1. at = Len(tree) + 1 /\ pending = {}
  BY DEF IInv, ListsInv
<1>2. DOMAIN tree = 1..Len(tree) /\ Len(tree) \in Nat
  BY InvFacts
<1>3. k \in Past
  BY <1>1, <1>2 DEF Past
<1>4. QED
  BY <1>1, <1>3 DEF Settled

LEMMA InvComplete ==
  ASSUME IInv
  PROVE  CopiesTheTree
<1>1. SUFFICES ASSUME NEW r, r = Real, pc = "ok", CopiesTree, FreshBelow(r), NEW k \in DOMAIN tree,
                      tree[k].kind \in {"dir", "symlink"} \/ IsRegular(tree[k])
               PROVE  Copied(r, tree[k])
  BY DEF CopiesTheTree, tree
<1>2. Held(r)
  BY <1>1, TreeCases
<1>3. PlacedInv(r)
  BY <1>2 DEF Held
<1>4. CASE tree[k].kind = "symlink" \/ IsRegular(tree[k])
  <2>1. k \in Settled
    BY <1>1, <1>4, AllSettled
  <2>2. QED
    BY <1>3, <2>1 DEF PlacedInv
<1>5. CASE tree[k].kind = "dir"
  <2>1. at = Len(tree) + 1 /\ dirs = << >>
    BY <1>1 DEF IInv, ListsInv
  <2>2. k \in Past
    BY <1>1, <2>1, InvFacts DEF Past
  <2>3. Copied(r, tree[k]) \/ \E i \in DOMAIN dirs : dirs[i] = tree[k]
    BY <1>3, <1>5, <2>2 DEF PlacedInv
  <2>4. DOMAIN dirs = {}
    BY <2>1
  <2>5. QED
    BY <2>3, <2>4
<1>6. QED
  BY <1>1, <1>4, <1>5

\* A copy that reports success has copied every directory, file and symlink, the
\* permissions of files and directories included (README.md:112-127).
THEOREM CopyIsComplete == Spec => []CopiesTheTree
<1>1. IInv => CopiesTheTree
  BY InvComplete
<1>2. QED
  BY <1>1, CopierInvariant, PTL

\* The entries other than directories that are there, the target being at r.
There(r) == {k \in DOMAIN tree : tree[k].kind # "dir" /\ Copied(r, tree[k])}

\* What such an entry is on the disk.
LEMMA ThereIs ==
  ASSUME source \in Sources, IsDisk(disk), NEW r \in Seq(Names), NEW k \in There(r)
  PROVE  LET q == r \o tree[k].rel IN
         /\ k \in DOMAIN tree /\ q \in DOMAIN disk /\ IsStrictPrefix(r, q)
         /\ \/ /\ IsRegular(tree[k]) /\ Kind(disk, q) = "file" /\ disk[q].content # "partial"
               /\ disk[q] = File(Perm(tree[k]), tree[k].content)
            \/ tree[k].kind = "symlink" /\ Kind(disk, q) = "symlink"
<1> DEFINE q == r \o tree[k].rel
           n == File(Perm(tree[k]), tree[k].content)
<1>1. k \in DOMAIN tree /\ tree[k].kind # "dir" /\ Copied(r, tree[k])
  BY DEF There
<1>2. /\ q \in DOMAIN disk
      /\ \/ IsRegular(tree[k]) /\ disk[q] = n
         \/ tree[k].kind = "symlink" /\ disk[q] = Symlink(tree[k].link)
  BY <1>1 DEF Copied
<1>3. tree[k].rel \in Seq(Names) /\ tree[k].content # "partial" /\ tree[k].rel # << >>
  BY <1>1, EntryOfTree, EntryFacts, SourceFacts
<1>4. IsStrictPrefix(r, q)
  BY <1>3, BelowIt DEF Then
<1>5. /\ n.kind = "file" /\ n.content = tree[k].content
      /\ Symlink(tree[k].link).kind = "symlink"
  BY DEF File, Symlink, Node
<1>6. disk[q].kind = Kind(disk, q)
  BY <1>2, KindOf
<1> HIDE DEF q, n
<1>7. QED
  BY <1>1, <1>2, <1>3, <1>4, <1>5, <1>6 DEF q, n

\* Before anything is planned nothing new is there.
LEMMA NothingThere ==
  ASSUME source \in Sources, IsDisk(before), IsDisk(disk), Adds(before, disk), NEW r \in Seq(Names),
         FreshBelow(r), NewHere(r)
  PROVE  There(r) = {}
<1>1. SUFFICES ASSUME NEW k \in There(r) PROVE FALSE
  OBVIOUS
<1> DEFINE q == r \o tree[k].rel
<1>2. /\ k \in DOMAIN tree /\ q \in DOMAIN disk /\ IsStrictPrefix(r, q)
      /\ \/ /\ IsRegular(tree[k]) /\ Kind(disk, q) = "file"
            /\ disk[q] = File(Perm(tree[k]), tree[k].content)
         \/ tree[k].kind = "symlink" /\ Kind(disk, q) = "symlink"
  BY ThereIs
<1>3. IsRegular(tree[k]) /\ q \in DOMAIN before => before[q] # File(Perm(tree[k]), tree[k].content)
  BY <1>2 DEF NewHere, tree
<1> HIDE DEF q
<1>4. Kind(before, q) # "none"
  BY <1>2 DEF Adds
<1>5. q \in DOMAIN before /\ disk[q] = before[q] /\ Kind(disk, q) = Kind(before, q)
      /\ before[q].kind = Kind(before, q)
  BY <1>4, KindOf DEF Adds, Same
<1>6. Kind(disk, q) # "symlink"
  BY <1>2, <1>5 DEF FreshBelow
<1>7. QED
  BY <1>2, <1>3, <1>5, <1>6

\* What is settled is there, and nothing else when nothing was.
LEMMA SettledThere ==
  ASSUME IInv, NEW r, r = Real, CopiesTree, FreshBelow(r), Held(r)
  PROVE  /\ Settled \subseteq There(r)
         /\ pc = "ok" => There(r) \subseteq Settled
         /\ NewHere(r) => \E odd \in 0..Len(tree) :
              (pc # "writeError" => odd = 0) /\ There(r) \subseteq Settled \cup {odd}
<1>1. /\ r \in Seq(Names) /\ IsDisk(disk) /\ source \in Sources /\ at \in Nat /\ Past \subseteq DOMAIN tree
      /\ DOMAIN tree = 1..Len(tree) /\ Len(tree) \in Nat /\ IsDisk(before)
  BY TreeCases
<1>2. PlacedInv(r) /\ LinksInv(r) /\ WaitingInv(r)
  BY DEF Held
<1>3. ASSUME NEW k \in Settled PROVE k \in There(r)
  <2>1. k \in DOMAIN tree /\ tree[k].kind # "dir"
    BY <1>1 DEF Settled, IsRegular
  <2>2. Copied(r, tree[k])
    BY <1>2 DEF PlacedInv
  <2>3. QED
    BY <2>1, <2>2 DEF There
<1>3a. PICK odd \in 0..Len(tree) :
         (pc # "writeError" => odd = 0) /\ WaitingAt(disk, Settled \cup {odd}, pc = "readError", r)
  BY <1>2, PartsNow
<1>4. ASSUME NEW k \in There(r), pc = "ok" \/ (NewHere(r) /\ k # odd) PROVE k \in Settled
  <2> DEFINE q == r \o tree[k].rel
             n == File(Perm(tree[k]), tree[k].content)
  <2>1. /\ k \in DOMAIN tree /\ q \in DOMAIN disk /\ IsStrictPrefix(r, q)
        /\ \/ IsRegular(tree[k]) /\ Kind(disk, q) = "file" /\ disk[q].content # "partial" /\ disk[q] = n
           \/ tree[k].kind = "symlink" /\ Kind(disk, q) = "symlink"
    BY <1>1, ThereIs
  <2>2. disk[q].kind = Kind(disk, q)
    BY <1>1, <2>1, KindOf
  <2>3. CASE pc = "ok"
    BY <2>1, <2>3, AllSettled
  <2>4. CASE NewHere(r) /\ k # odd /\ IsRegular(tree[k]) /\ Kind(disk, q) = "file"
    <3>1. SUFFICES ASSUME k \notin Settled PROVE FALSE
      OBVIOUS
    <3>2. \/ disk[q].kind = "dir"
          \/ q \in DOMAIN before /\ disk[q] = before[q]
          \/ disk[q].content = "partial"
      BY <1>3a, <2>1, <2>4, <3>1 DEF WaitingAt, WaitsAt, Then
    <3>3. q \in DOMAIN before => before[q] # n
      BY <2>1, <2>4 DEF NewHere, tree
    <3>4. disk[q] = n /\ disk[q].content # "partial"
      BY <2>1, <2>4 DEF IsRegular
    <3> HIDE DEF q, n
    <3>5. QED
      BY <2>2, <2>4, <3>2, <3>3, <3>4
  <2>5. CASE tree[k].kind = "symlink" /\ Kind(disk, q) = "symlink"
    <3>1. PICK j \in Past : tree[j].kind = "symlink" /\ q = r \o tree[j].rel
      BY <1>2, <2>1, <2>2, <2>5 DEF LinksInv
    <3>2. Then(r, tree[k].rel) = Then(r, tree[j].rel) /\ j \in DOMAIN tree
      BY <1>1, <3>1 DEF Then
    <3>3. k = j
      BY <1>1, <2>1, <3>2, Distinct
    <3>4. QED
      BY <2>5, <3>1, <3>3 DEF Settled
  <2>6. QED
    BY <1>4, <2>1, <2>3, <2>4, <2>5
<1>5. NewHere(r) => There(r) \subseteq Settled \cup {odd}
  BY <1>4
<1>6. QED
  BY <1>3, <1>3a, <1>4, <1>5

LEMMA InvCounts ==
  ASSUME IInv
  PROVE  CountsWhatIsThere
<1>1. SUFFICES ASSUME NEW r, r = Real, CopiesTree, FreshBelow(r)
               PROVE  /\ files <= Cardinality(There(r))
                      /\ pc = "ok" => files = Cardinality(There(r))
                      /\ NewHere(r) => Cardinality(There(r)) <= files + IF pc = "writeError" THEN 1 ELSE 0
  BY DEF CountsWhatIsThere, There, tree
<1>2. /\ r \in Seq(Names) /\ Adds(before, First.disk) /\ IsDisk(before) /\ IsDisk(disk)
      /\ source \in Sources /\ at \in Nat /\ DOMAIN tree = 1..Len(tree) /\ Len(tree) \in Nat
      /\ \/ pc # "ok" /\ Adds(before, disk) /\ files = 0
         \/ Held(r)
  BY <1>1, TreeCases, AddsNone
<1>3. IsFiniteSet(There(r)) /\ Cardinality(There(r)) \in Nat
  <2>1. IsFiniteSet(1..Len(tree))
    BY <1>2, FS_Interval
  <2>2. There(r) \subseteq 1..Len(tree)
    BY <1>2 DEF There
  <2>3. QED
    BY <2>1, <2>2, FS_Subset, FS_CardinalityType
<1>4. CASE pc # "ok" /\ Adds(before, disk) /\ files = 0
  <2>1. NewHere(r) => There(r) = {}
    BY <1>1, <1>2, <1>4, NothingThere
  <2>2. Cardinality({}) = 0
    BY FS_EmptySet
  <2>3. QED
    BY <1>3, <1>4, <2>1, <2>2
<1>5. CASE Held(r)
  <2>1. files = Cardinality(Settled)
    BY <1>5 DEF Held
  <2>2. /\ Settled \subseteq There(r)
        /\ pc = "ok" => There(r) \subseteq Settled
        /\ NewHere(r) => \E odd \in 0..Len(tree) :
             (pc # "writeError" => odd = 0) /\ There(r) \subseteq Settled \cup {odd}
    BY <1>1, <1>5, SettledThere
  <2>3. Cardinality(Settled) <= Cardinality(There(r)) /\ IsFiniteSet(Settled) /\ Cardinality(Settled) \in Nat
    BY <1>3, <2>2, FS_Subset, FS_CardinalityType
  <2>4. ASSUME NewHere(r)
        PROVE  Cardinality(There(r)) <= Cardinality(Settled) + IF pc = "writeError" THEN 1 ELSE 0
    <3>1. PICK odd \in 0..Len(tree) :
            (pc # "writeError" => odd = 0) /\ There(r) \subseteq Settled \cup {odd}
      BY <2>2, <2>4
    <3>2. Cardinality(There(r)) <= Cardinality(Settled \cup {odd})
      BY <2>3, <3>1, FS_AddElement, FS_Subset
    <3>3. Cardinality(Settled \cup {odd}) \in {Cardinality(Settled), Cardinality(Settled) + 1}
      BY <2>3, FS_AddElement
    <3>4. 0 \notin There(r)
      BY <1>2 DEF There
    <3>5. CASE pc # "writeError"
      <4>1. There(r) \subseteq Settled
        BY <3>1, <3>4, <3>5
      <4>2. Cardinality(There(r)) <= Cardinality(Settled)
        BY <2>3, <4>1, FS_Subset
      <4>3. QED
        BY <2>3, <3>5, <4>2
    <3>6. CASE pc = "writeError"
      BY <1>3, <2>3, <3>2, <3>3, <3>6
    <3>7. QED
      BY <3>5, <3>6
  <2>5. pc = "ok" => Settled = There(r)
    BY <2>2
  <2>6. QED
    BY <2>1, <2>3, <2>4, <2>5
<1>6. QED
  BY <1>2, <1>4, <1>5

\* A file or symlink is counted only once it is there, whole; on success all
\* are, and when none was there before, all that are there are counted at every
\* point, but one whose Close or Chmod failed after it was written (cp.go:198
\* and 239-248).
THEOREM CountIsTrue == Spec => []CountsWhatIsThere
<1>1. IInv => CountsWhatIsThere
  BY InvCounts
<1>2. QED
  BY <1>1, CopierInvariant, PTL
=============================================================================
