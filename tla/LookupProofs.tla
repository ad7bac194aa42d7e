---------------------------- MODULE LookupProofs ----------------------------
(***************************************************************************)
(* Lemmas about the kernel's walk of Lookup: that the recursion defines a  *)
(* function, what one step of it does, and which names lead to the same    *)
(* place.                                                                  *)
(***************************************************************************)
EXTENDS Lookup, PathProofs

\* A filesystem as Resolve is given one.
IsFilesystem(f) ==
  \A q \in DOMAIN f :
    /\ q \in Seq(Word) /\ f[q].link \in Seq(Word)
    /\ f[q].kind \in {"reg", "dir", "symlink", "hardlink", "device"}

Hops == 0..MaxHops

\* The number of hops is a natural up to the limit.
LEMMA HopsFacts == MaxHops \in Nat /\ \A h \in Hops : h \in Nat /\ h <= MaxHops
BY MaxHopsAssumption DEF Hops

\* A lookup is a directory, the name behind it and the hops so far.
LEMMA LookupsAre == Lookups = Seq(Word) \X Seq(Word) \X Hops
BY DEF Lookups, Word, Hops

\* LookupsAre, for a lookup given by its parts.
LEMMA InLookups ==
  \A d, n \in Seq(Word), h \in Hops : <<d, n, h>> \in Lookups
BY LookupsAre

\* LookupsAre, for the parts of a lookup.
LEMMA LookupParts ==
  ASSUME NEW x \in Lookups
  PROVE  /\ x[1] \in Seq(Word) /\ x[2] \in Seq(Word) /\ x[3] \in Hops
         /\ x = <<x[1], x[2], x[3]>>
         /\ Len(x[2]) \in Nat /\ x[3] \in Nat /\ x[3] <= MaxHops
         /\ MaxHops - x[3] \in Nat
<1>1. /\ x[1] \in Seq(Word) /\ x[2] \in Seq(Word) /\ x[3] \in Hops
      /\ x = <<x[1], x[2], x[3]>>
  BY LookupsAre
<1>2. \A h \in Hops : h \in Nat /\ h <= MaxHops /\ MaxHops - h \in Nat
  BY MaxHopsAssumption DEF Hops
<1>3. QED
  BY <1>1, <1>2

-----------------------------------------------------------------------------
\* A step either stops or goes on at a lookup that comes before: with more
\* hops used, or as many and fewer names left.

Earlier(y, x) == y[3] > x[3] \/ (y[3] = x[3] /\ Len(y[2]) < Len(x[2]))

\* Earlier is transitive.
LEMMA EarlierTransitive ==
  ASSUME NEW x \in Lookups, NEW y \in Lookups, NEW z \in Lookups,
         Earlier(z, y), Earlier(y, x)
  PROVE  Earlier(z, x)
BY LookupParts DEF Earlier

\* Induction along Earlier: first over the hops left, then over the length of
\* the name, each by the smallest counterexample.
LEMMA EarlierInduction ==
  ASSUME NEW T,
         \A x \in Lookups : (\A y \in Lookups : Earlier(y, x) => y \in T) => x \in T
  PROVE  \A x \in Lookups : x \in T
<1> SUFFICES ASSUME NEW x0 \in Lookups, x0 \notin T PROVE FALSE
  OBVIOUS
<1> DEFINE U == {x \in Lookups : x \notin T}
           H == {h \in Nat : \E x \in U : h = MaxHops - x[3]}
<1>1. PICK h \in H : \A k \in H : h <= k
  <2>1. MaxHops - x0[3] \in Nat /\ x0 \in U
    BY LookupParts, HopsFacts
  <2>2. MaxHops - x0[3] \in H
    BY <2>1
  <2>3. H \in SUBSET Nat /\ H # {}
    BY <2>2
  <2> HIDE DEF H
  <2>4. QED
    BY <2>3, SmallestNat
<1>2. PICK u \in U : MaxHops - u[3] = h
  OBVIOUS
<1> DEFINE L == {l \in Nat : \E x \in U : x[3] = u[3] /\ l = Len(x[2])}
<1>3. PICK l \in L : \A k \in L : l <= k
  <2>1. Len(u[2]) \in Nat
    BY LookupParts
  <2>2. Len(u[2]) \in L
    BY <2>1
  <2>3. L \in SUBSET Nat /\ L # {}
    BY <2>2
  <2> HIDE DEF L
  <2>4. QED
    BY <2>3, SmallestNat
<1>4. PICK x \in U : x[3] = u[3] /\ Len(x[2]) = l
  OBVIOUS
<1>5. ASSUME NEW y \in Lookups, Earlier(y, x) PROVE y \in T
  <2> SUFFICES ASSUME y \in U PROVE FALSE
    OBVIOUS
  <2>1. MaxHops - y[3] \in Nat /\ Len(y[2]) \in Nat
    BY LookupParts, HopsFacts
  <2>2. MaxHops - y[3] \in H
    BY <2>1
  <2>3. y[3] = u[3] => Len(y[2]) \in L
    BY <2>1
  <2> HIDE DEF H, L
  <2>4. h <= MaxHops - y[3] /\ (y[3] = u[3] => l <= Len(y[2]))
    BY <1>1, <1>3, <2>2, <2>3
  <2>5. y[3] \in Nat /\ u[3] \in Nat /\ MaxHops \in Nat /\ Len(y[2]) \in Nat
    BY LookupParts, HopsFacts
  <2>6. QED
    BY <1>2, <1>4, <1>5, <2>4, <2>5 DEF Earlier
<1>6. QED
  BY <1>4, <1>5

-----------------------------------------------------------------------------
\* The alternatives of a step.

\* One step of the walk, case by case: nothing is left of the name.
LEMMA StepEnd ==
  ASSUME NEW f, NEW w, NEW d, NEW h
  PROVE  KernelStep(f, w, d, << >>, h) = Found(d)
BY DEF KernelStep

\* An empty component or a dot is skipped.
LEMMA StepSkips ==
  ASSUME NEW f, NEW w, NEW d, NEW h, NEW n, n # << >>, Skips(Head(n))
  PROVE  KernelStep(f, w, d, n, h) = w[<<d, Tail(n), h>>]
BY DEF KernelStep, Skips

\* ".." climbs, and stays at the root.
LEMMA StepClimbs ==
  ASSUME NEW f, NEW w, NEW d, NEW h, NEW n, n # << >>, Climbs(Head(n))
  PROVE  KernelStep(f, w, d, n, h) =
           w[<<IF d = Root THEN Root ELSE Dir(d), Tail(n), h>>]
BY DEF KernelStep, Climbs

\* There is nothing of that name.
LEMMA StepNone ==
  ASSUME NEW f, NEW w, NEW d, NEW h, NEW n, n # << >>, Head(n) \in Names,
         KindAt(f, Append(d, Head(n))) = "none"
  PROVE  KernelStep(f, w, d, n, h) = Failed("ErrNotExist")
BY DEF KernelStep, Names

\* A directory is entered.
LEMMA StepDir ==
  ASSUME NEW f, NEW w, NEW d, NEW h, NEW n, n # << >>, Head(n) \in Names,
         KindAt(f, Append(d, Head(n))) = "dir"
  PROVE  KernelStep(f, w, d, n, h) = w[<<Append(d, Head(n)), Tail(n), h>>]
BY DEF KernelStep, Names

\* A symlink past the limit ends the walk.
LEMMA StepLoop ==
  ASSUME NEW f, NEW w, NEW d, NEW n, n # << >>, Head(n) \in Names,
         KindAt(f, Append(d, Head(n))) = "symlink"
  PROVE  KernelStep(f, w, d, n, MaxHops) = Failed("ErrLoop")
BY DEF KernelStep, Names

\* Where a symlink at q in directory d starts from.
LinkStart(f, d, q) == IF IsAbs(f[q].link) THEN Root ELSE d

\* A symlink is followed, with the rest of the name behind its target.
LEMMA StepLink ==
  ASSUME NEW f, NEW w, NEW d, NEW h, NEW n, n # << >>, Head(n) \in Names, h # MaxHops,
         NEW q, q = Append(d, Head(n)), KindAt(f, q) = "symlink"
  PROVE  KernelStep(f, w, d, n, h) = w[<<LinkStart(f, d, q), f[q].link \o Tail(n), h + 1>>]
BY DEF KernelStep, Names, LinkStart

\* Anything else ends the walk, well at the end of the name only.
LEMMA StepOther ==
  ASSUME NEW f, NEW w, NEW d, NEW h, NEW n, n # << >>, Head(n) \in Names,
         KindAt(f, Append(d, Head(n))) \notin {"none", "dir", "symlink"}
  PROVE  KernelStep(f, w, d, n, h) =
           IF Tail(n) = << >> THEN Found(Append(d, Head(n))) ELSE Failed("ErrNotDir")
BY DEF KernelStep, Names

\* What is left of a name after its first component is a shorter name.
LEMMA HeadTailType ==
  ASSUME NEW n \in Seq(Word), n # << >>
  PROVE  Head(n) \in Word /\ Tail(n) \in Seq(Word) /\ Len(Tail(n)) < Len(n)
BY HeadTailProperties

\* The parent of a path is a path.
LEMMA DirType ==
  ASSUME NEW d \in Seq(Word), d # Root
  PROVE  Dir(d) \in Seq(Word)
BY DEF Dir, Root

\* What is seen as a symlink is an entry of the filesystem, with a target.
LEMMA KindAtLink ==
  ASSUME NEW f, IsFilesystem(f), NEW q, KindAt(f, q) = "symlink"
  PROVE  q \in DOMAIN f /\ f[q].kind = "symlink" /\ f[q].link \in Seq(Word)
BY DEF KindAt, IsFilesystem

\* One step stops, or it asks for one lookup that comes before.
Stops(f, x, r) == \A w : KernelStep(f, w, x[1], x[2], x[3]) = r
GoesOn(f, x, y) ==
  y \in Lookups /\ Earlier(y, x) /\ \A w : KernelStep(f, w, x[1], x[2], x[3]) = w[y]

\* Either a step ends the walk, or it asks for one lookup that is before.
LEMMA StepForm ==
  ASSUME NEW f, IsFilesystem(f), NEW x \in Lookups
  PROVE  (\E r : Stops(f, x, r)) \/ (\E y : GoesOn(f, x, y))
<1> DEFINE d == x[1]
           n == x[2]
           h == x[3]
           c == Head(n)
           to == Append(d, c)
           kind == KindAt(f, to)
<1>1. d \in Seq(Word) /\ n \in Seq(Word) /\ h \in Hops
  BY LookupParts
<1>2. ASSUME NEW e \in Seq(Word), NEW m \in Seq(Word), NEW k \in Hops,
             k > h \/ (k = h /\ Len(m) < Len(n)),
             \A w : KernelStep(f, w, d, n, h) = w[<<e, m, k>>]
      PROVE  \E y : GoesOn(f, x, y)
  <2> DEFINE y == <<e, m, k>>
  <2>1. y \in Lookups
    BY InLookups
  <2>2. Earlier(y, x)
    BY <1>2 DEF Earlier
  <2>3. \A w : KernelStep(f, w, d, n, h) = w[y]
    BY <1>2
  <2> HIDE DEF y
  <2>4. GoesOn(f, x, y)
    BY <2>1, <2>2, <2>3 DEF GoesOn
  <2>5. QED
    BY <2>4
<1>3. ASSUME NEW r, \A w : KernelStep(f, w, d, n, h) = r PROVE \E q : Stops(f, x, q)
  BY <1>3 DEF Stops
<1> HIDE DEF d, n, h
<1>4. CASE n = << >>
  BY <1>3, <1>4, StepEnd
<1>5. CASE n # << >> /\ Skips(c)
  <2>1. \A w : KernelStep(f, w, d, n, h) = w[<<d, Tail(n), h>>]
    BY <1>5, StepSkips
  <2>2. Tail(n) \in Seq(Word) /\ Len(Tail(n)) < Len(n)
    BY <1>1, <1>5, HeadTailType
  <2>3. QED
    BY <1>1, <1>2, <2>1, <2>2
<1>6. CASE n # << >> /\ Climbs(c)
  <2> DEFINE up == IF d = Root THEN Root ELSE Dir(d)
  <2>1. \A w : KernelStep(f, w, d, n, h) = w[<<up, Tail(n), h>>]
    BY <1>6, StepClimbs
  <2>2. Tail(n) \in Seq(Word) /\ Len(Tail(n)) < Len(n)
    BY <1>1, <1>6, HeadTailType
  <2>3. up \in Seq(Word)
    BY <1>1, DirType
  <2> HIDE DEF up
  <2>4. QED
    BY <1>1, <1>2, <2>1, <2>2, <2>3
<1>7. CASE n # << >> /\ c \in Names
  <2>1. c \in Word /\ Tail(n) \in Seq(Word) /\ Len(Tail(n)) < Len(n) /\ to \in Seq(Word)
    BY <1>1, <1>7, HeadTailType, AppendProperties
  <2>2. CASE kind = "none"
    <3>1. \A w : KernelStep(f, w, d, n, h) = Failed("ErrNotExist")
      BY <1>7, <2>2, StepNone
    <3>2. QED
      BY <1>3, <3>1
  <2>3. CASE kind = "dir"
    <3>1. \A w : KernelStep(f, w, d, n, h) = w[<<to, Tail(n), h>>]
      BY <1>7, <2>3, StepDir
    <3>2. QED
      BY <1>1, <1>2, <2>1, <3>1
  <2>4. CASE kind = "symlink" /\ h = MaxHops
    <3>1. \A w : KernelStep(f, w, d, n, h) = Failed("ErrLoop")
      BY <1>7, <2>4, StepLoop
    <3>2. QED
      BY <1>3, <3>1
  <2>5. CASE kind = "symlink" /\ h # MaxHops
    <3> DEFINE e == LinkStart(f, d, to)
               m == f[to].link \o Tail(n)
    <3>1. \A w : KernelStep(f, w, d, n, h) = w[<<e, m, h + 1>>]
      BY <1>7, <2>5, StepLink
    <3>2. e \in Seq(Word)
      BY <1>1, EmptySeq DEF Root, LinkStart
    <3>3. m \in Seq(Word)
      BY <2>1, <2>5, KindAtLink, ConcatProperties
    <3>4. h + 1 \in Hops /\ h + 1 > h
      BY <1>1, <2>5, MaxHopsAssumption DEF Hops
    <3> HIDE DEF e, m
    <3>5. QED
      BY <1>2, <3>1, <3>2, <3>3, <3>4
  <2>6. CASE kind \notin {"none", "dir", "symlink"}
    <3> DEFINE r == IF Tail(n) = << >> THEN Found(to) ELSE Failed("ErrNotDir")
    <3>1. \A w : KernelStep(f, w, d, n, h) = r
      BY <1>7, <2>6, StepOther
    <3> HIDE DEF r
    <3>2. QED
      BY <1>3, <3>1
  <2>7. QED
    BY <2>2, <2>3, <2>4, <2>5, <2>6
<1>8. QED
  <2>1. n # << >> => c \in Word
    BY <1>1, HeadTailType
  <2>2. QED
    BY <1>4, <1>5, <1>6, <1>7, <2>1, WordCases

\* So a step depends on the lookups before it only.
LEMMA StepAgrees ==
  ASSUME NEW f, IsFilesystem(f), NEW x \in Lookups, NEW v, NEW w,
         \A y \in Lookups : Earlier(y, x) => v[y] = w[y]
  PROVE  KernelStep(f, v, x[1], x[2], x[3]) = KernelStep(f, w, x[1], x[2], x[3])
BY StepForm DEF Stops, GoesOn
-----------------------------------------------------------------------------
\* The recursion of KernelFrom defines a walk: every lookup comes after
\* finitely many, so a solution for those can be extended to it.

\* g satisfies the equation of the walk at x and at every lookup before x.
Approx(f, x, g) ==
  \A y \in Lookups :
    y = x \/ Earlier(y, x) => g[y] = KernelStep(f, g, y[1], y[2], y[3])

\* An approximation up to a lookup is one up to any before it.
LEMMA ApproxDown ==
  ASSUME NEW f, NEW x \in Lookups, NEW y \in Lookups, Earlier(y, x), NEW g, Approx(f, x, g)
  PROVE  Approx(f, y, g)
BY EarlierTransitive DEF Approx

\* Two approximations agree: the walk is unique.
LEMMA ApproxAgree ==
  ASSUME NEW f, IsFilesystem(f), NEW x \in Lookups,
         NEW g, Approx(f, x, g), NEW k, Approx(f, x, k)
  PROVE  g[x] = k[x]
<1> DEFINE T == {y \in Lookups : y = x \/ Earlier(y, x) => g[y] = k[y]}
<1>1. ASSUME NEW y \in Lookups, \A z \in Lookups : Earlier(z, y) => z \in T
      PROVE  y \in T
  <2> SUFFICES ASSUME y = x \/ Earlier(y, x) PROVE g[y] = k[y]
    OBVIOUS
  <2>1. \A z \in Lookups : Earlier(z, y) => g[z] = k[z]
    BY <1>1, EarlierTransitive
  <2>2. KernelStep(f, g, y[1], y[2], y[3]) = KernelStep(f, k, y[1], y[2], y[3])
    BY <2>1, StepAgrees
  <2>3. QED
    BY <2>2 DEF Approx
<1> HIDE DEF T
<1>2. \A y \in Lookups : y \in T
  BY <1>1, EarlierInduction
<1>3. QED
  BY <1>2 DEF T

\* The solutions found at each lookup, put together.
Best(f, x) == CHOOSE g : Approx(f, x, g)
Together(f) == [x \in Lookups |-> Best(f, x)[x]]

\* Approximations taken together solve the recursion one step further.
LEMMA TogetherSolves ==
  ASSUME NEW f, IsFilesystem(f), NEW x \in Lookups, NEW g, Approx(f, x, g),
         \A y \in Lookups : Earlier(y, x) => \E k : Approx(f, y, k)
  PROVE  /\ \A y \in Lookups : Earlier(y, x) => Together(f)[y] = g[y]
         /\ Together(f)[x] = KernelStep(f, Together(f), x[1], x[2], x[3])
<1>1. ASSUME NEW y \in Lookups, y = x \/ Earlier(y, x)
      PROVE  Together(f)[y] = g[y]
  <2>1. Approx(f, y, g)
    BY <1>1, ApproxDown
  <2>2. Approx(f, y, Best(f, y))
    BY <2>1 DEF Best
  <2>3. Best(f, y)[y] = g[y]
    BY <2>1, <2>2, ApproxAgree
  <2>4. QED
    BY <2>3 DEF Together
<1>2. KernelStep(f, Together(f), x[1], x[2], x[3]) = KernelStep(f, g, x[1], x[2], x[3])
  BY <1>1, StepAgrees
<1>3. QED
  BY <1>1, <1>2 DEF Approx

\* There is an approximation up to every lookup.
LEMMA ApproxExists ==
  ASSUME NEW f, IsFilesystem(f)
  PROVE  \A x \in Lookups : \E g : Approx(f, x, g)
<1> DEFINE T == {x \in Lookups : \E g : Approx(f, x, g)}
<1>1. ASSUME NEW x \in Lookups, \A y \in Lookups : Earlier(y, x) => y \in T
      PROVE  x \in T
  <2> DEFINE low == Together(f)
             at  == KernelStep(f, low, x[1], x[2], x[3])
             g   == [z \in Lookups |-> IF z = x THEN at ELSE low[z]]
  <2>1. ~Earlier(x, x)
    BY LookupParts DEF Earlier
  <2>2. \A y \in Lookups : Earlier(y, x) => g[y] = low[y]
    BY <2>1
  <2>3. g[x] = at
    OBVIOUS
  <2> HIDE DEF g
  <2>4. ASSUME NEW y \in Lookups, Earlier(y, x)
        PROVE  g[y] = KernelStep(f, g, y[1], y[2], y[3])
    <3>1. low[y] = KernelStep(f, low, y[1], y[2], y[3])
      <4>1. PICK k : Approx(f, y, k)
        BY <1>1, <2>4
      <4>2. \A z \in Lookups : Earlier(z, y) => \E j : Approx(f, z, j)
        BY <1>1, <2>4, EarlierTransitive
      <4>3. QED
        BY <4>1, <4>2, TogetherSolves
    <3>2. \A z \in Lookups : Earlier(z, y) => g[z] = low[z]
      BY <2>2, <2>4, EarlierTransitive
    <3>3. QED
      BY <2>2, <2>4, <3>1, <3>2, StepAgrees
  <2>5. g[x] = KernelStep(f, g, x[1], x[2], x[3])
    BY <2>2, <2>3, StepAgrees
  <2>6. Approx(f, x, g)
    BY <2>4, <2>5 DEF Approx
  <2>7. QED
    BY <2>6
<1> HIDE DEF T
<1>2. \A x \in Lookups : x \in T
  BY <1>1, EarlierInduction
<1>3. QED
  BY <1>2 DEF T

IsWalk(f, w) == w = [x \in Lookups |-> KernelStep(f, w, x[1], x[2], x[3])]
TheWalk(f) == CHOOSE w : IsWalk(f, w)

\* The recursion of Lookup has a solution: KernelFrom is not an arbitrary value.
LEMMA WalkExists ==
  ASSUME NEW f, IsFilesystem(f)
  PROVE  IsWalk(f, TheWalk(f))
<1> DEFINE w == Together(f)
<1>1. \A x \in Lookups : w[x] = KernelStep(f, w, x[1], x[2], x[3])
  BY ApproxExists, TogetherSolves
<1>2. w = [x \in Lookups |-> w[x]]
  BY DEF Together
<1> HIDE DEF w
<1>3. IsWalk(f, w)
  BY <1>1, <1>2 DEF IsWalk
<1>4. QED
  BY <1>3 DEF TheWalk

\* KernelFrom is that solution.
LEMMA KernelIsWalk ==
  ASSUME NEW f, NEW d, NEW n, NEW h
  PROVE  KernelFrom(f, d, n, h) = TheWalk(f)[<<d, n, h>>]
BY DEF KernelFrom, TheWalk, IsWalk

\* A lookup is a step of the walk.
LEMMA KernelUnfold ==
  ASSUME NEW f, IsFilesystem(f), NEW d \in Seq(Word), NEW n \in Seq(Word), NEW h \in Hops
  PROVE  KernelFrom(f, d, n, h) = KernelStep(f, TheWalk(f), d, n, h)
<1> DEFINE x == <<d, n, h>>
           w == TheWalk(f)
<1>1. x \in Lookups /\ x[1] = d /\ x[2] = n /\ x[3] = h
  BY InLookups
<1>2. w = [y \in Lookups |-> KernelStep(f, w, y[1], y[2], y[3])]
  BY WalkExists DEF IsWalk
<1> HIDE DEF x, w
<1>3. w[x] = KernelStep(f, w, x[1], x[2], x[3])
  BY <1>1, <1>2
<1>4. QED
  BY <1>1, <1>3, KernelIsWalk DEF x, w
-----------------------------------------------------------------------------
\* What the first component of a name leads to.

\* The raw names, as a set of its own.
Raw == Seq(Word)

\* Names as they are given, put one behind the other.
LEMMA RawFacts ==
  /\ << >> \in Raw
  /\ \A a, b \in Raw : a \o b \in Raw /\ (a \o b = << >> <=> a = << >> /\ b = << >>)
  /\ \A a, b, c \in Raw : (a \o b) \o c = a \o (b \o c)
  /\ \A a \in Raw : a \o << >> = a /\ << >> \o a = a
  /\ \A a \in Raw, c \in Word : Append(a, c) \in Raw
<1>1. << >> \in Seq(Word)
  BY EmptySeq
<1>2. \A a, b \in Seq(Word) :
        a \o b \in Seq(Word) /\ (a \o b = << >> <=> a = << >> /\ b = << >>)
  BY ConcatProperties, ConcatEqualIffEmpty
<1>3. \A a, b, c \in Seq(Word) : (a \o b) \o c = a \o (b \o c)
  BY ConcatAssociative
<1>4. \A a \in Seq(Word) : a \o << >> = a /\ << >> \o a = a
  BY ConcatEmptySeq
<1>5. \A a \in Seq(Word), c \in Word : Append(a, c) \in Seq(Word)
  BY AppendProperties
<1>6. QED
  BY <1>1, <1>2, <1>3, <1>4, <1>5 DEF Raw

\* RawFacts, one by one: the provers find them so.
LEMMA RawConcat == \A a, b \in Raw : a \o b \in Raw
BY RawFacts

\* Which of three names are put together first does not matter.
LEMMA RawAssociative == \A a, b, c \in Raw : (a \o b) \o c = a \o (b \o c)
BY RawFacts

\* A component put in front of a name.
LEMMA OneInFront ==
  ASSUME NEW c \in Word, NEW r \in Raw
  PROVE  /\ <<c>> \o r \in Raw /\ <<c>> \o r # << >>
         /\ Head(<<c>> \o r) = c /\ Tail(<<c>> \o r) = r
BY DEF Raw

\* Every name but the empty one has a first component and a rest.
LEMMA RawCases ==
  ASSUME NEW n \in Raw, n # << >>
  PROVE  \E c \in Word, r \in Raw : n = <<c>> \o r /\ Len(r) < Len(n)
<1>1. Head(n) \in Word /\ Tail(n) \in Raw /\ Len(Tail(n)) < Len(n)
  BY HeadTailType DEF Raw
<1>2. n = <<Head(n)>> \o Tail(n)
  BY DEF Raw
<1>3. QED
  BY <1>1, <1>2

\* The walk is one step of it, then the walk.
LEMMA KernelUnfolds ==
  ASSUME NEW f, IsFilesystem(f), NEW d \in Raw, NEW n \in Raw, NEW h \in Hops
  PROVE  KernelFrom(f, d, n, h) = KernelStep(f, TheWalk(f), d, n, h)
BY KernelUnfold DEF Raw

\* The walk, case by case, for a name given by its first component and the
\* rest: nothing is left.
LEMMA KernelEnd ==
  ASSUME NEW f, IsFilesystem(f), NEW d \in Raw, NEW h \in Hops
  PROVE  KernelFrom(f, d, << >>, h) = Found(d)
<1>1. KernelFrom(f, d, << >>, h) = KernelStep(f, TheWalk(f), d, << >>, h)
  BY KernelUnfolds, RawFacts
<1>2. QED
  BY <1>1, StepEnd

\* An empty component or a dot.
LEMMA KernelSkips ==
  ASSUME NEW f, IsFilesystem(f), NEW d \in Raw, NEW r \in Raw,
         NEW h \in Hops, NEW c \in Word, Skips(c)
  PROVE  KernelFrom(f, d, <<c>> \o r, h) = KernelFrom(f, d, r, h)
<1> DEFINE n == <<c>> \o r
<1>1. n \in Raw /\ n # << >> /\ Head(n) = c /\ Tail(n) = r
  BY OneInFront, NamesAreWords
<1> HIDE DEF n
<1>2. KernelFrom(f, d, n, h) = KernelStep(f, TheWalk(f), d, n, h)
  BY <1>1, KernelUnfolds
<1>3. Skips(Head(n))
  BY <1>1
<1>4. KernelStep(f, TheWalk(f), d, n, h) = TheWalk(f)[<<d, Tail(n), h>>]
  BY <1>1, <1>3, StepSkips
<1>5. QED
  BY <1>1, <1>2, <1>4, KernelIsWalk DEF n

\* "..".
LEMMA KernelClimbs ==
  ASSUME NEW f, IsFilesystem(f), NEW d \in Raw, NEW r \in Raw,
         NEW h \in Hops, NEW c \in Word, Climbs(c)
  PROVE  KernelFrom(f, d, <<c>> \o r, h) = KernelFrom(f, IF d = Root THEN Root ELSE Dir(d), r, h)
<1> DEFINE n == <<c>> \o r
<1>1. n \in Raw /\ n # << >> /\ Head(n) = c /\ Tail(n) = r
  BY OneInFront, NamesAreWords
<1> HIDE DEF n
<1>2. KernelFrom(f, d, n, h) = KernelStep(f, TheWalk(f), d, n, h)
  BY <1>1, KernelUnfolds
<1>3. Climbs(Head(n))
  BY <1>1
<1>4. KernelStep(f, TheWalk(f), d, n, h)
        = TheWalk(f)[<<IF d = Root THEN Root ELSE Dir(d), Tail(n), h>>]
  BY <1>1, <1>3, StepClimbs
<1>5. QED
  BY <1>1, <1>2, <1>4, KernelIsWalk DEF n

\* A name that is not there.
LEMMA KernelNone ==
  ASSUME NEW f, IsFilesystem(f), NEW d \in Raw, NEW r \in Raw,
         NEW h \in Hops, NEW c \in Names, KindAt(f, Append(d, c)) = "none"
  PROVE  KernelFrom(f, d, <<c>> \o r, h) = Failed("ErrNotExist")
<1> DEFINE n == <<c>> \o r
<1>1. n \in Raw /\ n # << >> /\ Head(n) = c /\ Tail(n) = r
  BY OneInFront, NamesAreWords
<1> HIDE DEF n
<1>2. KernelFrom(f, d, n, h) = KernelStep(f, TheWalk(f), d, n, h)
  BY <1>1, KernelUnfolds
<1>3. Head(n) \in Names /\ KindAt(f, Append(d, Head(n))) = "none"
  BY <1>1
<1>4. KernelStep(f, TheWalk(f), d, n, h) = Failed("ErrNotExist")
  BY <1>1, <1>3, StepNone
<1>5. QED
  BY <1>1, <1>2, <1>4 DEF n

\* A directory.
LEMMA KernelDir ==
  ASSUME NEW f, IsFilesystem(f), NEW d \in Raw, NEW r \in Raw,
         NEW h \in Hops, NEW c \in Names, KindAt(f, Append(d, c)) = "dir"
  PROVE  KernelFrom(f, d, <<c>> \o r, h) = KernelFrom(f, Append(d, c), r, h)
<1> DEFINE n == <<c>> \o r
<1>1. n \in Raw /\ n # << >> /\ Head(n) = c /\ Tail(n) = r
  BY OneInFront, NamesAreWords
<1> HIDE DEF n
<1>2. KernelFrom(f, d, n, h) = KernelStep(f, TheWalk(f), d, n, h)
  BY <1>1, KernelUnfolds
<1>3. Head(n) \in Names /\ KindAt(f, Append(d, Head(n))) = "dir"
  BY <1>1
<1>4. KernelStep(f, TheWalk(f), d, n, h) = TheWalk(f)[<<Append(d, Head(n)), Tail(n), h>>]
  BY <1>1, <1>3, StepDir
<1>5. QED
  BY <1>1, <1>2, <1>4, KernelIsWalk DEF n

\* A symlink at the limit.
LEMMA KernelLoop ==
  ASSUME NEW f, IsFilesystem(f), NEW d \in Raw, NEW r \in Raw,
         NEW c \in Names, KindAt(f, Append(d, c)) = "symlink"
  PROVE  KernelFrom(f, d, <<c>> \o r, MaxHops) = Failed("ErrLoop")
<1> DEFINE n == <<c>> \o r
<1>1. n \in Raw /\ n # << >> /\ Head(n) = c /\ Tail(n) = r
  BY OneInFront, NamesAreWords
<1> HIDE DEF n
<1>2. KernelFrom(f, d, n, MaxHops) = KernelStep(f, TheWalk(f), d, n, MaxHops)
  BY <1>1, KernelUnfolds, HopsFacts DEF Hops
<1>3. Head(n) \in Names /\ KindAt(f, Append(d, Head(n))) = "symlink"
  BY <1>1
<1>4. KernelStep(f, TheWalk(f), d, n, MaxHops) = Failed("ErrLoop")
  BY <1>1, <1>3, StepLoop
<1>5. QED
  BY <1>1, <1>2, <1>4 DEF n

\* A symlink below it.
LEMMA KernelLink ==
  ASSUME NEW f, IsFilesystem(f), NEW d \in Raw, NEW r \in Raw,
         NEW h \in Hops, h # MaxHops, NEW c \in Names, KindAt(f, Append(d, c)) = "symlink"
  PROVE  KernelFrom(f, d, <<c>> \o r, h)
           = KernelFrom(f, LinkStart(f, d, Append(d, c)), f[Append(d, c)].link \o r, h + 1)
<1> DEFINE n == <<c>> \o r
<1>1. n \in Raw /\ n # << >> /\ Head(n) = c /\ Tail(n) = r
  BY OneInFront, NamesAreWords
<1> HIDE DEF n
<1>2. KernelFrom(f, d, n, h) = KernelStep(f, TheWalk(f), d, n, h)
  BY <1>1, KernelUnfolds
<1>3. Head(n) \in Names /\ KindAt(f, Append(d, Head(n))) = "symlink"
  BY <1>1
<1>4. KernelStep(f, TheWalk(f), d, n, h)
        = TheWalk(f)[<<LinkStart(f, d, Append(d, Head(n))),
                       f[Append(d, Head(n))].link \o Tail(n), h + 1>>]
  BY <1>1, <1>3, StepLink
<1>5. QED
  BY <1>1, <1>2, <1>4, KernelIsWalk DEF n

\* A file, a device or a pipe.
LEMMA KernelOther ==
  ASSUME NEW f, IsFilesystem(f), NEW d \in Raw, NEW r \in Raw,
         NEW h \in Hops, NEW c \in Names,
         KindAt(f, Append(d, c)) \notin {"none", "dir", "symlink"}
  PROVE  KernelFrom(f, d, <<c>> \o r, h)
           = IF r = << >> THEN Found(Append(d, c)) ELSE Failed("ErrNotDir")
<1> DEFINE n == <<c>> \o r
<1>1. n \in Raw /\ n # << >> /\ Head(n) = c /\ Tail(n) = r
  BY OneInFront, NamesAreWords
<1> HIDE DEF n
<1>2. KernelFrom(f, d, n, h) = KernelStep(f, TheWalk(f), d, n, h)
  BY <1>1, KernelUnfolds
<1>3. Head(n) \in Names /\ KindAt(f, Append(d, Head(n))) \notin {"none", "dir", "symlink"}
  BY <1>1
<1>4. KernelStep(f, TheWalk(f), d, n, h)
            = IF Tail(n) = << >> THEN Found(Append(d, Head(n))) ELSE Failed("ErrNotDir")
  BY <1>1, <1>3, StepOther
<1>5. QED
  BY <1>1, <1>2, <1>4 DEF n

\* IsPrefix is transitive.
LEMMA PrefixOfPrefix ==
  ASSUME NEW a \in Raw, NEW b \in Raw, NEW r \in Raw, IsPrefix(a, b), IsPrefix(b, r)
  PROVE  IsPrefix(a, r)
<1>1. Len(a) \in Nat /\ Len(b) \in Nat /\ Len(r) \in Nat
  BY DEF Raw
<1>2. Len(a) <= Len(b) /\ Len(b) <= Len(r)
  BY DEF IsPrefix
<1>3. \A k \in 1..Len(a) : a[k] = b[k]
  BY <1>1, <1>2 DEF Raw, IsPrefix
<1>4. \A k \in 1..Len(b) : b[k] = r[k]
  BY <1>1, <1>2 DEF Raw, IsPrefix
<1>5. \A k \in 1..Len(a) : a[k] = r[k]
  BY <1>1, <1>2, <1>3, <1>4
<1>6. SubSeq(a, 1, Len(a)) = SubSeq(r, 1, Len(a))
  BY <1>1, <1>2, <1>5 DEF Raw
<1>7. QED
  BY <1>1, <1>2, <1>6 DEF IsPrefix

-----------------------------------------------------------------------------
\* Names that lead to the same place.

\* A symlink starts from a path.
LEMMA StartType ==
  ASSUME NEW f, NEW d \in Raw, NEW q
  PROVE  LinkStart(f, d, q) \in Raw
BY RawFacts DEF LinkStart, Root

\* Climbing leads to a path.
LEMMA UpType ==
  ASSUME NEW d \in Raw
  PROVE  (IF d = Root THEN Root ELSE Dir(d)) \in Raw
BY RawFacts, DirType DEF Raw, Root

\* Two rests looked up alike, also behind a symlink's target, are looked up
\* alike behind one more component.
LEMMA SameBehindOne ==
  ASSUME NEW f, IsFilesystem(f), NEW d \in Raw, NEW h \in Hops, NEW c \in Word,
         NEW m \in Raw, NEW k \in Raw, m = << >> <=> k = << >>,
         \A e \in Raw : KernelFrom(f, e, m, h) = KernelFrom(f, e, k, h),
         h # MaxHops => \A e, l \in Raw :
           KernelFrom(f, e, l \o m, h + 1) = KernelFrom(f, e, l \o k, h + 1)
  PROVE  KernelFrom(f, d, <<c>> \o m, h) = KernelFrom(f, d, <<c>> \o k, h)
<1> DEFINE to == Append(d, c)
           kind == KindAt(f, to)
<1>1. to \in Raw
  BY RawFacts
<1>2. CASE Skips(c)
  BY <1>2, KernelSkips
<1>3. CASE Climbs(c)
  <2> DEFINE up == IF d = Root THEN Root ELSE Dir(d)
  <2>1. up \in Raw
    BY UpType
  <2>2. /\ KernelFrom(f, d, <<c>> \o m, h) = KernelFrom(f, up, m, h)
        /\ KernelFrom(f, d, <<c>> \o k, h) = KernelFrom(f, up, k, h)
    BY <1>3, KernelClimbs
  <2> HIDE DEF up
  <2>3. QED
    BY <2>1, <2>2
<1>4. CASE c \in Names /\ kind = "none"
  BY <1>4, KernelNone
<1>5. CASE c \in Names /\ kind = "dir"
  <2>1. /\ KernelFrom(f, d, <<c>> \o m, h) = KernelFrom(f, to, m, h)
        /\ KernelFrom(f, d, <<c>> \o k, h) = KernelFrom(f, to, k, h)
    BY <1>5, KernelDir
  <2> HIDE DEF to
  <2>2. QED
    BY <1>1, <2>1
<1>6. CASE c \in Names /\ kind = "symlink" /\ h = MaxHops
  BY <1>6, KernelLoop
<1>7. CASE c \in Names /\ kind = "symlink" /\ h # MaxHops
  <2> DEFINE e == LinkStart(f, d, to)
             l == f[to].link
  <2>1. /\ KernelFrom(f, d, <<c>> \o m, h) = KernelFrom(f, e, l \o m, h + 1)
        /\ KernelFrom(f, d, <<c>> \o k, h) = KernelFrom(f, e, l \o k, h + 1)
    BY <1>7, KernelLink
  <2>2. e \in Raw
    BY StartType
  <2>3. l \in Raw
    BY <1>7, KindAtLink DEF Raw
  <2> HIDE DEF e, l
  <2>4. QED
    BY <1>7, <2>1, <2>2, <2>3
<1>8. CASE c \in Names /\ kind \notin {"none", "dir", "symlink"}
  <2>1. /\ KernelFrom(f, d, <<c>> \o m, h) =
             IF m = << >> THEN Found(to) ELSE Failed("ErrNotDir")
        /\ KernelFrom(f, d, <<c>> \o k, h) =
             IF k = << >> THEN Found(to) ELSE Failed("ErrNotDir")
    BY <1>8, KernelOther
  <2>2. QED
    BY <2>1
<1>9. QED
  BY <1>2, <1>3, <1>4, <1>5, <1>6, <1>7, <1>8, WordCases

\* What is left of a name can be replaced by what is looked up alike.
LEMMA SameRest ==
  ASSUME NEW f, IsFilesystem(f),
         NEW m \in Raw, m # << >>, NEW k \in Raw, k # << >>,
         \A d \in Raw, h \in Hops : KernelFrom(f, d, m, h) = KernelFrom(f, d, k, h)
  PROVE  \A d, a \in Raw, h \in Hops :
           KernelFrom(f, d, a \o m, h) = KernelFrom(f, d, a \o k, h)
<1> DEFINE Same(d, a, h) == KernelFrom(f, d, a \o m, h) = KernelFrom(f, d, a \o k, h)
           T == {x \in Lookups : Same(x[1], x[2], x[3])}
<1>1. ASSUME NEW x \in Lookups, \A y \in Lookups : Earlier(y, x) => y \in T
      PROVE  x \in T
  <2> DEFINE d == x[1]
             a == x[2]
             h == x[3]
  <2>1. d \in Raw /\ a \in Raw /\ h \in Hops
    BY LookupParts DEF Raw
  <2>2. ASSUME NEW e \in Raw, NEW b \in Raw, NEW j \in Hops,
               j > h \/ (j = h /\ Len(b) < Len(a))
        PROVE  Same(e, b, j)
    <3> DEFINE y == <<e, b, j>>
    <3> HIDE DEF Same
    <3>1. y \in Lookups /\ y[1] = e /\ y[2] = b /\ y[3] = j
      BY InLookups DEF Raw
    <3>2. Earlier(y, x)
      BY <2>2 DEF Earlier
    <3>3. QED
      BY <1>1, <3>1, <3>2
  <2> SUFFICES Same(d, a, h)
    OBVIOUS
  <2> HIDE DEF d, a, h
  <2>3. CASE a = << >>
    <3>1. a \o m = m /\ a \o k = k
      BY <2>3, RawFacts
    <3>2. QED
      BY <2>1, <3>1
  <2>4. CASE a # << >>
    <3>1. PICK c \in Word, r \in Raw : a = <<c>> \o r /\ Len(r) < Len(a)
      BY <2>1, <2>4, RawCases
    <3>2. <<c>> \in Raw
      BY DEF Raw
    <3> DEFINE rm == r \o m
               rk == r \o k
    <3>3. a \o m = <<c>> \o rm /\ a \o k = <<c>> \o rk
      <4> DEFINE one == <<c>>
      <4>1. one \in Raw /\ a = one \o r
        BY <3>1, <3>2
      <4> HIDE DEF one
      <4>2. (one \o r) \o m = one \o (r \o m) /\ (one \o r) \o k = one \o (r \o k)
        BY <3>1, <4>1, RawAssociative
      <4>3. QED
        BY <4>1, <4>2 DEF one
    <3>4. rm \in Raw /\ rm # << >> /\ rk \in Raw /\ rk # << >>
      BY RawFacts
    <3>5. \A e \in Raw : Same(e, r, h)
      BY <2>1, <2>2, <3>1
    <3>6. ASSUME h # MaxHops, NEW e \in Raw, NEW l \in Raw
          PROVE  KernelFrom(f, e, l \o rm, h + 1) = KernelFrom(f, e, l \o rk, h + 1)
      <4> DEFINE j == h + 1
                 b == l \o r
      <4>1. j \in Hops /\ j > h
        BY <2>1, <3>6, MaxHopsAssumption DEF Hops
      <4>2. b \in Raw
        BY <3>1, <3>6, RawConcat
      <4>3. (l \o r) \o m = l \o (r \o m)
        BY <3>1, <3>6, RawAssociative
      <4>4. (l \o r) \o k = l \o (r \o k)
        BY <3>1, <3>6, RawAssociative
      <4> HIDE DEF j, b
      <4>5. Same(e, b, j)
        BY <2>2, <4>1, <4>2
      <4>6. QED
        BY <4>3, <4>4, <4>5 DEF j, b
    <3> HIDE DEF rm, rk
    <3>7. \A e \in Raw : KernelFrom(f, e, rm, h) = KernelFrom(f, e, rk, h)
      BY <3>5 DEF rm, rk
    <3>8. KernelFrom(f, d, <<c>> \o rm, h) = KernelFrom(f, d, <<c>> \o rk, h)
      BY <2>1, <3>4, <3>6, <3>7, SameBehindOne
    <3>9. QED
      BY <3>3, <3>8
  <2>5. QED
    BY <2>3, <2>4
<1> HIDE DEF T
<1>2. \A x \in Lookups : x \in T
  BY <1>1, EarlierInduction
<1>3. ASSUME NEW d \in Raw, NEW a \in Raw, NEW h \in Hops
      PROVE  Same(d, a, h)
  <2> DEFINE x == <<d, a, h>>
  <2>1. x \in Lookups /\ x[1] = d /\ x[2] = a /\ x[3] = h
    BY InLookups DEF Raw
  <2> HIDE DEF x, Same
  <2>2. QED
    BY <1>2, <2>1 DEF T
<1>4. QED
  BY <1>3

\* A "." or an empty component changes nothing where a name goes on.
LEMMA WithoutSkip ==
  ASSUME NEW f, IsFilesystem(f), NEW c \in Word, Skips(c), NEW b \in Raw, b # << >>
  PROVE  \A d, a \in Raw, h \in Hops :
           KernelFrom(f, d, a \o (<<c>> \o b), h) = KernelFrom(f, d, a \o b, h)
<1> DEFINE m == <<c>> \o b
<1>1. m \in Raw /\ m # << >>
  BY OneInFront
<1>2. \A d \in Raw, h \in Hops : KernelFrom(f, d, m, h) = KernelFrom(f, d, b, h)
  BY KernelSkips
<1> HIDE DEF m
<1>3. \A d, a \in Raw, h \in Hops :
        KernelFrom(f, d, a \o m, h) = KernelFrom(f, d, a \o b, h)
  BY <1>1, <1>2, SameRest
<1>4. QED
  BY <1>3 DEF m

-----------------------------------------------------------------------------
\* A clean path of directories is walked through as it stands.

\* The clean paths, as a set of its own.
Cleaned == Seq(Names)

\* Clean paths: the root, and one name behind another.
LEMMA CleanedFacts ==
  /\ Root \in Cleaned /\ Cleaned \subseteq Raw
  /\ \A p \in Cleaned, c \in Names : Append(p, c) \in Cleaned
  /\ \A p \in Cleaned : p # Root => \E q \in Cleaned, c \in Names : p = Append(q, c)
<1>1. Root \in Seq(Names)
  BY EmptySeq DEF Root
<1>2. \A p \in Seq(Names), c \in Names : Append(p, c) \in Seq(Names)
  BY AppendProperties
<1>3. \A p \in Seq(Names) : p # Root => \E q \in Seq(Names), c \in Names : p = Append(q, c)
  BY SequenceEmptyOrAppend DEF Root
<1>4. QED
  BY <1>1, <1>2, <1>3, NamesAreWords DEF Cleaned, Raw

DirChain(f, d) == \A k \in 1..Len(d) : KindAt(f, SubSeq(d, 1, k)) = "dir"

\* Nothing stands in the way to the root.
LEMMA ChainOfRoot ==
  ASSUME NEW f
  PROVE  DirChain(f, Root)
BY DEF DirChain, Root

\* What stands in the way to a path stands in the way to its parent, or is it.
LEMMA ChainOfAppend ==
  ASSUME NEW f, NEW d \in Cleaned, NEW c \in Names
  PROVE  DirChain(f, Append(d, c)) <=>
           DirChain(f, d) /\ KindAt(f, Append(d, c)) = "dir"
<1> DEFINE e == Append(d, c)
           n == Len(d)
<1>1. n \in Nat /\ Len(e) = n + 1
  BY DEF Cleaned
<1>2. \A k \in 1..n : SubSeq(e, 1, k) = SubSeq(d, 1, k)
  BY DEF Cleaned
<1>3. SubSeq(e, 1, n + 1) = e
  BY DEF Cleaned
<1> HIDE DEF e, n
<1>4. \A k : k \in 1..(n + 1) <=> k \in 1..n \/ k = n + 1
  BY <1>1
<1>5. DirChain(f, e) <=> \A k \in 1..(n + 1) : KindAt(f, SubSeq(e, 1, k)) = "dir"
  BY <1>1 DEF DirChain
<1>6. DirChain(f, d) <=> \A k \in 1..n : KindAt(f, SubSeq(d, 1, k)) = "dir"
  BY DEF DirChain, n
<1>7. QED
  BY <1>2, <1>3, <1>4, <1>5, <1>6 DEF e

\* The parent of a path with a name behind it.
LEMMA DirOfAppend ==
  ASSUME NEW d \in Cleaned, NEW c \in Names
  PROVE  Dir(Append(d, c)) = d /\ Append(d, c) # Root
BY DEF Cleaned, Dir, Root

\* A component may be moved from the name to the directory.
LEMMA ConsOfAppend ==
  ASSUME NEW d \in Raw, NEW c \in Word, NEW r \in Raw
  PROVE  Append(d, c) \o r = d \o (<<c>> \o r)
<1>1. Append(d, c) = d \o <<c>> /\ <<c>> \in Raw
  BY AppendIsConcat DEF Raw
<1> DEFINE one == <<c>>
<1> HIDE DEF one
<1>2. one \in Raw /\ (d \o one) \o r = d \o (one \o r)
  <2>1. one \in Raw
    BY <1>1 DEF one
  <2>2. QED
    BY <2>1, RawAssociative
<1>3. QED
  BY <1>1, <1>2 DEF one

\* A walk along directories comes to the last of them: it makes no
\* difference whether the path in front has been walked yet.
LEMMA ThroughDirectories ==
  ASSUME NEW f, IsFilesystem(f)
  PROVE  \A d \in Cleaned : DirChain(f, d) =>
           \A r \in Raw, h \in Hops :
             KernelFrom(f, Root, d \o r, h) = KernelFrom(f, d, r, h)
<1> DEFINE Through(d) == \A r \in Raw, h \in Hops :
                           KernelFrom(f, Root, d \o r, h) = KernelFrom(f, d, r, h)
           T == {d \in Seq(Names) : DirChain(f, d) => Through(d)}
<1>1. << >> \in T
  <2>1. Through(Root)
    BY RawFacts DEF Root
  <2>2. << >> \in Seq(Names)
    BY EmptySeq
  <2>3. QED
    BY <2>1, <2>2 DEF Root
<1>2. ASSUME NEW d \in Seq(Names), NEW c \in Names, d \in T
      PROVE  Append(d, c) \in T
  <2> DEFINE e == Append(d, c)
  <2>1. d \in Cleaned /\ d \in Raw /\ e \in Cleaned /\ c \in Word
    BY CleanedFacts, NamesAreWords DEF Cleaned
  <2>2. ASSUME DirChain(f, e), NEW r \in Raw, NEW h \in Hops
        PROVE  KernelFrom(f, Root, e \o r, h) = KernelFrom(f, e, r, h)
    <3> DEFINE cr == <<c>> \o r
    <3>1. DirChain(f, d) /\ KindAt(f, e) = "dir"
      BY <2>1, <2>2, ChainOfAppend
    <3>2. e \o r = d \o cr
      BY <2>1, ConsOfAppend
    <3>3. KernelFrom(f, d, cr, h) = KernelFrom(f, e, r, h)
      BY <2>1, <3>1, KernelDir
    <3>4. cr \in Raw
      BY <2>1, OneInFront
    <3> HIDE DEF cr, e
    <3>5. KernelFrom(f, Root, d \o cr, h) = KernelFrom(f, d, cr, h)
      BY <1>2, <3>1, <3>4
    <3>6. QED
      BY <3>2, <3>3, <3>5
  <2>3. DirChain(f, e) => Through(e)
    BY <2>2
  <2> HIDE DEF Through
  <2>4. QED
    BY <2>1, <2>3 DEF Cleaned
<1> HIDE DEF T
<1>3. \A d \in Seq(Names) : d \in T
  BY <1>1, <1>2, SeqSetInduction
<1>4. QED
  BY <1>3 DEF T, Cleaned

-----------------------------------------------------------------------------
\* A name that only goes down is looked up as the clean path of it is.

\* Induction over names from the back to the front.
LEMMA RawInduction ==
  ASSUME NEW T, << >> \in T, \A c \in Word, r \in Raw : r \in T => <<c>> \o r \in T
  PROVE  \A n \in Raw : n \in T
<1>1. ASSUME NEW n \in Seq(Word), n # << >>, Tail(n) \in T PROVE n \in T
  <2>1. Head(n) \in Word /\ Tail(n) \in Raw
    BY <1>1, HeadTailType DEF Raw
  <2>2. n = <<Head(n)>> \o Tail(n)
    BY <1>1
  <2>3. QED
    BY <1>1, <2>1, <2>2
<1>2. \A n \in Seq(Word) : n \in T
  BY <1>1, SeqTailInduction
<1>3. QED
  BY <1>2 DEF Raw

\* Cleaning takes the first component of the name first.
LEMMA CleanCons ==
  ASSUME NEW p \in Cleaned, NEW c \in Word, NEW r \in Raw
  PROVE  /\ CleanStep(p, c) \in Cleaned
         /\ Clean(p \o (<<c>> \o r)) = Clean(CleanStep(p, c) \o r)
<1> DEFINE pc == Append(p, c)
<1>1. p \in Raw /\ pc \in Raw
  BY CleanedFacts, RawFacts
<1>2. Clean(pc) = CleanStep(p, c)
  <2>1. Clean(pc) = CleanStep(Clean(p), c)
    BY <1>1, CleanAppend DEF Raw
  <2>2. Clean(p) = p
    BY CleanOfClean DEF Cleaned
  <2>3. QED
    BY <2>1, <2>2
<1>3. p \o (<<c>> \o r) = pc \o r
  BY <1>1, ConsOfAppend
<1> HIDE DEF pc
<1>4. Clean(pc \o r) = Clean(Clean(pc) \o r)
  BY <1>1, CleanConcat DEF Raw
<1>5. CleanStep(p, c) \in Cleaned
  BY CleanStepType DEF Cleaned
<1>6. QED
  BY <1>2, <1>3, <1>4, <1>5

Onward(n) ==
  /\ \A k \in DOMAIN n : ~Climbs(n[k])
  /\ n # << >> => n[Len(n)] \in Names

\* The parts of a name with a component in front.
LEMMA ConsParts ==
  ASSUME NEW c \in Word, NEW r \in Raw
  PROVE  /\ Len(r) \in Nat /\ Len(<<c>> \o r) = Len(r) + 1
         /\ DOMAIN r = 1..Len(r) /\ DOMAIN (<<c>> \o r) = 1..(Len(r) + 1)
         /\ (<<c>> \o r)[1] = c
         /\ \A k \in 1..Len(r) : (<<c>> \o r)[k + 1] = r[k]
         /\ r = << >> <=> Len(r) = 0
BY DEF Raw

\* What is left of an onward name is onward.
LEMMA OnwardRest ==
  ASSUME NEW c \in Word, NEW r \in Raw, Onward(<<c>> \o r)
  PROVE  /\ Onward(r) /\ ~Climbs(c)
         /\ r = << >> => c \in Names
<1> DEFINE n == <<c>> \o r
           len == Len(r)
<1>1. /\ len \in Nat /\ Len(n) = len + 1
      /\ DOMAIN r = 1..len /\ DOMAIN n = 1..(len + 1)
      /\ n[1] = c /\ \A k \in 1..len : n[k + 1] = r[k]
      /\ r = << >> <=> len = 0
  BY ConsParts
<1>2. n # << >>
  BY OneInFront
<1>3. \A k \in 1..(len + 1) : ~Climbs(n[k])
  BY <1>1 DEF Onward
<1>4. n[len + 1] \in Names
  BY <1>1, <1>2 DEF Onward
<1> HIDE DEF n
<1>5. \A k \in 1..len : k + 1 \in 1..(len + 1)
  BY <1>1
<1>6. \A k \in 1..len : ~Climbs(r[k])
  BY <1>1, <1>3, <1>5
<1>7. r # << >> => r[len] \in Names
  BY <1>1, <1>4
<1>8. ~Climbs(c)
  BY <1>1, <1>3
<1>9. QED
  BY <1>1, <1>4, <1>6, <1>7, <1>8 DEF Onward

\* A name is neither skipped nor climbs.
LEMMA NamesAreNone ==
  \A c \in Names : ~Skips(c) /\ ~Climbs(c)
BY DEF Names, Skips, Climbs

\* A name that only goes onward may be cleaned before it is walked: the dots
\* in it are those the kernel skips.
LEMMA ThroughNames ==
  ASSUME NEW f, IsFilesystem(f)
  PROVE  \A n \in Raw : Onward(n) =>
           \A p \in Cleaned, d \in Raw, h \in Hops :
             KernelFrom(f, d, p \o n, h) = KernelFrom(f, d, Clean(p \o n), h)
<1> DEFINE Through(n) ==
             \A p \in Cleaned, d \in Raw, h \in Hops :
               KernelFrom(f, d, p \o n, h) = KernelFrom(f, d, Clean(p \o n), h)
           T == {n \in Raw : Onward(n) => Through(n)}
<1>1. << >> \in T
  <2>1. \A p \in Cleaned : p \o << >> = p /\ Clean(p) = p
    BY CleanedFacts, RawFacts, CleanOfClean DEF Cleaned
  <2>2. Through(<< >>)
    BY <2>1
  <2> HIDE DEF Through
  <2>3. QED
    BY <2>2, RawFacts
<1>2. ASSUME NEW c \in Word, NEW r \in Raw, r \in T
      PROVE  <<c>> \o r \in T
  <2> DEFINE n == <<c>> \o r
  <2>1. n \in Raw
    BY OneInFront
  <2>2. ASSUME Onward(n), NEW p \in Cleaned, NEW d \in Raw, NEW h \in Hops
        PROVE  KernelFrom(f, d, p \o n, h) = KernelFrom(f, d, Clean(p \o n), h)
    <3> DEFINE q == CleanStep(p, c)
    <3>1. Onward(r) /\ ~Climbs(c) /\ (r = << >> => c \in Names)
      BY <2>2, OnwardRest
    <3>2. q \in Cleaned /\ Clean(p \o n) = Clean(q \o r) /\ p \in Raw
      BY CleanCons, CleanedFacts
    <3>3. KernelFrom(f, d, p \o n, h) = KernelFrom(f, d, q \o r, h)
      <4>1. CASE Skips(c)
        <5>1. r # << >>
          BY <3>1, <4>1, NamesAreNone
        <5>2. KernelFrom(f, d, p \o n, h) = KernelFrom(f, d, p \o r, h)
          BY <3>2, <4>1, <5>1, WithoutSkip
        <5>3. q = p
          BY <4>1, CleanStepSkips
        <5>4. QED
          BY <5>2, <5>3
      <4>2. CASE c \in Names
        <5>1. q = Append(p, c)
          BY <4>2, CleanStepName
        <5>2. q \o r = p \o n
          BY <3>2, <5>1, ConsOfAppend
        <5>3. QED
          BY <5>2
      <4>3. QED
        BY <3>1, <4>1, <4>2, WordCases
    <3> HIDE DEF q, n
    <3>4. KernelFrom(f, d, q \o r, h) = KernelFrom(f, d, Clean(q \o r), h)
      BY <1>2, <3>1, <3>2
    <3>5. QED
      BY <3>2, <3>3, <3>4
  <2>3. Onward(n) => Through(n)
    BY <2>2
  <2> HIDE DEF Through
  <2>4. QED
    BY <2>1, <2>3
<1> HIDE DEF T
<1>3. \A n \in Raw : n \in T
  BY <1>1, <1>2, RawInduction
<1>4. QED
  BY <1>3 DEF T

-----------------------------------------------------------------------------
\* Where ".." only climbs from the start, looking a name up below a chain of
\* directories is looking up the clean path of the two joined.

\* Plain, spelled out.
LEMMA PlainMeans ==
  ASSUME NEW n
  PROVE  Plain(n) <=>
           /\ \A j, k \in DOMAIN n : j < k /\ Climbs(n[k]) => IsDot(n[j])
           /\ \A k \in DOMAIN n : k = Len(n) /\ IsDot(n[k]) => \A j \in 1..k : IsDot(n[j])
BY DEF Plain, Climbs

\* A component is a dot or a name.
LEMMA DotsAreNoNames == \A c \in Word : /\ IsDot(c) <=> c \notin Names
                                        /\ IsDot(c) <=> Skips(c) \/ Climbs(c)
BY DEF IsDot, Names, Skips, Climbs

\* The parts of a plain name.
LEMMA PlainParts ==
  ASSUME NEW n \in Raw
  PROVE  /\ Len(n) \in Nat /\ DOMAIN n = 1..Len(n)
         /\ \A k \in 1..Len(n) : n[k] \in Word
         /\ n # << >> => Len(n) >= 1
BY DEF Raw

\* What is left of a plain name is plain, and onward from its first name.
LEMMA PlainRest ==
  ASSUME NEW c \in Word, NEW r \in Raw, Plain(<<c>> \o r)
  PROVE  /\ Plain(r)
         /\ c \in Names => Onward(<<c>> \o r)
<1> DEFINE n == <<c>> \o r
           len == Len(r)
<1>1. /\ len \in Nat /\ Len(n) = len + 1
      /\ DOMAIN r = 1..len /\ DOMAIN n = 1..(len + 1)
      /\ n[1] = c /\ \A k \in 1..len : n[k + 1] = r[k]
  BY ConsParts
<1>2. n \in Raw
  BY OneInFront
<1>3. \A k \in 1..(len + 1) : n[k] \in Word
  BY <1>1, <1>2, PlainParts
<1>4. /\ \A j, k \in DOMAIN n : j < k /\ Climbs(n[k]) => IsDot(n[j])
      /\ \A k \in DOMAIN n : k = Len(n) /\ IsDot(n[k]) => \A j \in 1..k : IsDot(n[j])
  BY PlainMeans
<1> HIDE DEF n
<1>5. \A j, k \in 1..(len + 1) : j < k /\ Climbs(n[k]) => IsDot(n[j])
  BY <1>1, <1>4
<1>6. IsDot(n[len + 1]) => \A j \in 1..(len + 1) : IsDot(n[j])
  BY <1>1, <1>4
<1>7. Plain(r)
  <2>1. ASSUME NEW j \in 1..len, NEW k \in 1..len, j < k, Climbs(r[k])
        PROVE  IsDot(r[j])
    <3>1. j + 1 \in 1..(len + 1) /\ k + 1 \in 1..(len + 1) /\ j + 1 < k + 1
      BY <1>1, <2>1
    <3>2. n[j + 1] = r[j] /\ n[k + 1] = r[k]
      BY <1>1
    <3>3. QED
      BY <1>5, <2>1, <3>1, <3>2
  <2>2. ASSUME NEW k \in 1..len, k = len, IsDot(r[k]), NEW j \in 1..k
        PROVE  IsDot(r[j])
    <3>1. n[len + 1] = r[len] /\ j \in 1..len
      BY <1>1, <2>2
    <3>2. n[j + 1] = r[j] /\ j + 1 \in 1..(len + 1)
      BY <1>1, <3>1
    <3>3. QED
      BY <1>6, <2>2, <3>1, <3>2
  <2>3. QED
    BY <1>1, <2>1, <2>2, PlainMeans
<1>8. ASSUME c \in Names PROVE Onward(n)
  <2>1. ~IsDot(n[1]) /\ 1 \in 1..(len + 1)
    BY <1>1, <1>8, DotsAreNoNames, NamesAreWords
  <2>2. ASSUME NEW k \in 1..(len + 1), Climbs(n[k]) PROVE FALSE
    <3>1. k # 1
      BY <1>1, <1>8, <2>2, NamesAreNone
    <3>2. 1 < k
      BY <1>1, <3>1
    <3>3. QED
      BY <1>5, <2>1, <2>2, <3>2
  <2>3. ~IsDot(n[len + 1])
    BY <1>6, <2>1
  <2>4. n[len + 1] \in Names
    BY <1>1, <1>3, <2>3, DotsAreNoNames
  <2>5. QED
    BY <1>1, <2>2, <2>4 DEF Onward
<1>9. QED
  BY <1>7, <1>8 DEF n

\* Where a name climbs only in front, it may be cleaned before it is walked,
\* behind directories: what path.Clean in Resolve does to the request and to
\* the target of every symlink (overlay.go, Resolve).
THEOREM PlainLookup ==
  ASSUME NEW f, IsFilesystem(f)
  PROVE  \A n \in Raw : Plain(n) =>
           \A d \in Cleaned, h \in Hops : DirChain(f, d) =>
             KernelFrom(f, d, n, h) = KernelFrom(f, Root, Clean(d \o n), h)
<1> DEFINE Alike(d, n, h) ==
             KernelFrom(f, d, n, h) = KernelFrom(f, Root, Clean(d \o n), h)
           All(n) == \A d \in Cleaned, h \in Hops : DirChain(f, d) => Alike(d, n, h)
           T == {n \in Raw : Plain(n) => All(n)}
<1>1. << >> \in T
  <2>1. ASSUME NEW d \in Cleaned, NEW h \in Hops, DirChain(f, d)
        PROVE  Alike(d, << >>, h)
    <3>1. d \o << >> = d /\ Clean(d) = d /\ << >> \in Raw
      BY CleanedFacts, RawFacts, CleanOfClean DEF Cleaned
    <3>2. KernelFrom(f, Root, d \o << >>, h) = KernelFrom(f, d, << >>, h)
      BY <2>1, <3>1, ThroughDirectories
    <3>3. QED
      BY <3>1, <3>2
  <2> HIDE DEF Alike
  <2>2. QED
    BY <2>1, RawFacts
<1>2. ASSUME NEW c \in Word, NEW r \in Raw, r \in T
      PROVE  <<c>> \o r \in T
  <2> DEFINE n == <<c>> \o r
  <2>1. n \in Raw
    BY OneInFront
  <2>2. ASSUME Plain(n), NEW d \in Cleaned, NEW h \in Hops, DirChain(f, d)
        PROVE  Alike(d, n, h)
    <3> DEFINE e == CleanStep(d, c)
    <3>1. Plain(r) /\ (c \in Names => Onward(n))
      BY <2>2, PlainRest
    <3>2. d \in Raw /\ e \in Cleaned /\ Clean(d \o n) = Clean(e \o r)
      BY CleanCons, CleanedFacts
    <3>3. ASSUME DirChain(f, e), KernelFrom(f, d, n, h) = KernelFrom(f, e, r, h)
          PROVE  Alike(d, n, h)
      <4> HIDE DEF e, n
      <4>1. KernelFrom(f, e, r, h) = KernelFrom(f, Root, Clean(e \o r), h)
        BY <1>2, <3>1, <3>2, <3>3
      <4>2. QED
        BY <3>2, <3>3, <4>1
    <3>4. CASE Skips(c)
      <4>1. e = d /\ KernelFrom(f, d, n, h) = KernelFrom(f, d, r, h)
        BY <3>2, <3>4, CleanStepSkips, KernelSkips
      <4> HIDE DEF e, n, Alike
      <4>2. QED
        BY <2>2, <3>3, <4>1
    <3>5. CASE Climbs(c)
      <4> DEFINE up == IF d = Root THEN Root ELSE Dir(d)
      <4>1. e = up
        BY <3>5, CleanStepClimbs DEF Front, Dir
      <4>2. KernelFrom(f, d, n, h) = KernelFrom(f, up, r, h)
        BY <3>2, <3>5, KernelClimbs
      <4>3. DirChain(f, up)
        <5>1. CASE d = Root
          BY <5>1, ChainOfRoot
        <5>2. CASE d # Root
          <6>1. PICK q \in Cleaned, b \in Names : d = Append(q, b)
            BY <5>2, CleanedFacts
          <6>2. up = q
            BY <5>2, <6>1, DirOfAppend
          <6>3. QED
            BY <2>2, <6>1, <6>2, ChainOfAppend
        <5>3. QED
          BY <5>1, <5>2
      <4> HIDE DEF e, n, up, Alike
      <4>4. QED
        BY <3>3, <4>1, <4>2, <4>3
    <3>6. CASE c \in Names
      <4>1. KernelFrom(f, Root, d \o n, h) = KernelFrom(f, d, n, h)
        BY <2>1, <2>2, ThroughDirectories
      <4>2. Root \in Raw
        BY CleanedFacts
      <4> HIDE DEF n
      <4>3. KernelFrom(f, Root, d \o n, h) = KernelFrom(f, Root, Clean(d \o n), h)
        BY <2>1, <3>1, <3>6, <4>2, ThroughNames
      <4>4. QED
        BY <4>1, <4>3
    <3>7. QED
      BY <3>4, <3>5, <3>6, WordCases
  <2>3. Plain(n) => All(n)
    BY <2>2
  <2> HIDE DEF All
  <2>4. QED
    BY <2>1, <2>3
<1> HIDE DEF T
<1>3. \A n \in Raw : n \in T
  BY <1>1, <1>2, RawInduction
<1>4. QED
  BY <1>3 DEF T
=============================================================================
