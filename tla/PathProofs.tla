----------------------------- MODULE PathProofs -----------------------------
(***************************************************************************)
(* Lemmas about Paths: that the fold in Clean is one component after the   *)
(* other, and what follows for clean paths.  The library's induction       *)
(* theorems take a predicate as their parameter, which the provers cannot  *)
(* instantiate; the ones here take a set, and come from the smallest       *)
(* element of the set of counterexamples.                                  *)
(***************************************************************************)
EXTENDS Paths, WellFoundedInduction, SequenceTheorems, TLAPS

\* Every set of naturals with an element has a smallest one.
LEMMA SmallestNat ==
  ASSUME NEW T \in SUBSET Nat, T # {}
  PROVE  \E n \in T : \A m \in T : n <= m
<1>1. PICK n \in T : \A m \in T : ~(<<m, n>> \in OpToRel(<, Nat))
  BY WFMin, NatLessThanWellFounded
<1>2. \A m \in T : ~(m < n)
  BY <1>1 DEF OpToRel
<1>3. QED
  BY <1>2

\* A set of naturals with a bound has a greatest element, and Max is it.
LEMMA MaxOfBounded ==
  ASSUME NEW S \in SUBSET Nat, S # {}, NEW b \in Nat, \A s \in S : s <= b
  PROVE  Max(S) \in S /\ \A s \in S : s <= Max(S)
<1> DEFINE T == {n \in Nat : \A s \in S : s <= n}
<1>1. PICK n \in T : \A m \in T : n <= m
  BY SmallestNat
<1>2. n \in S
  <2> SUFFICES ASSUME n \notin S PROVE FALSE
    OBVIOUS
  <2>1. \A s \in S : s <= n - 1 /\ n - 1 \in Nat
    OBVIOUS
  <2>2. n - 1 \in T
    BY <2>1
  <2>3. QED
    BY <2>2, <1>1
<1>3. QED
  BY <1>1, <1>2 DEF Max

\* Induction over the naturals, for a set in place of a predicate.
LEMMA NatSetInduction ==
  ASSUME NEW T, 0 \in T, \A n \in Nat : n \in T => n + 1 \in T
  PROVE  \A n \in Nat : n \in T
<1> SUFFICES ASSUME NEW k \in Nat, k \notin T PROVE FALSE
  OBVIOUS
<1>1. PICK n \in Nat \ T : \A m \in Nat \ T : n <= m
  <2> DEFINE U == Nat \ T
  <2>1. U \in SUBSET Nat /\ U # {}
    OBVIOUS
  <2> HIDE DEF U
  <2>2. \E n \in U : \A m \in U : n <= m
    BY <2>1, SmallestNat
  <2>3. QED
    BY <2>2 DEF U
<1>2. n # 0 /\ n - 1 \in Nat
  OBVIOUS
<1>3. n - 1 \in T
  BY <1>1, <1>2
<1>4. QED
  BY <1>2, <1>3

\* The function the fold of Clean defines, on the subsets of 1..n.
Folds(name, n, iter) ==
  iter = [s \in SUBSET (1..n) |->
            IF s = {} THEN Root ELSE CleanStep(iter[s \ {Max(s)}], name[Max(s)])]

\* MaxOfBounded, for positions: what Max picks from a set of them.
LEMMA MaxOfSome ==
  ASSUME NEW n \in Nat, NEW s \in SUBSET (1..n), s # {}
  PROVE  Max(s) \in s /\ Max(s) \in 1..n /\ \A k \in s : k <= Max(s)
<1>1. s \in SUBSET Nat /\ \A k \in s : k <= n
  OBVIOUS
<1>2. QED
  BY <1>1, MaxOfBounded

\* The function that folds a name exists for every set of its components:
\* what MapThenFoldSet needs before anything can be said of it.
LEMMA FoldsExist ==
  ASSUME NEW name
  PROVE  \A n \in Nat : \E iter : Folds(name, n, iter)
<1> DEFINE T == {n \in Nat : \E iter : Folds(name, n, iter)}
<1>1. 0 \in T
  <2> DEFINE g == [s \in SUBSET (1..0) |-> Root]
  <2>1. \A s \in SUBSET (1..0) : s = {}
    OBVIOUS
  <2>2. Folds(name, 0, g)
    BY <2>1 DEF Folds
  <2>3. QED
    BY <2>2
<1>2. ASSUME NEW n \in Nat, n \in T PROVE n + 1 \in T
  <2>1. PICK g : Folds(name, n, g)
    BY <1>2
  <2> DEFINE h == [s \in SUBSET (1..(n + 1)) |->
                     IF n + 1 \in s THEN CleanStep(g[s \ {n + 1}], name[n + 1])
                     ELSE g[s]]
             r(s) == IF s = {} THEN Root ELSE CleanStep(h[s \ {Max(s)}], name[Max(s)])
  <2>2. ASSUME NEW s \in SUBSET (1..(n + 1)) PROVE h[s] = r(s)
    <3>1. CASE n + 1 \in s
      <4>1. Max(s) = n + 1
        BY <3>1, MaxOfSome
      <4>2. s \ {n + 1} \in SUBSET (1..n) /\ s \ {n + 1} \in SUBSET (1..(n + 1))
        OBVIOUS
      <4>3. h[s \ {n + 1}] = g[s \ {n + 1}]
        BY <4>2
      <4>4. QED
        BY <3>1, <4>1, <4>3
    <3>2. CASE n + 1 \notin s
      <4>1. s \in SUBSET (1..n)
        BY <3>2
      <4>2. g[s] = IF s = {} THEN Root ELSE CleanStep(g[s \ {Max(s)}], name[Max(s)])
        BY <2>1, <4>1 DEF Folds
      <4>3. s # {} => /\ s \ {Max(s)} \in SUBSET (1..(n + 1))
                      /\ n + 1 \notin s \ {Max(s)}
        BY <3>2
      <4>4. s # {} => h[s \ {Max(s)}] = g[s \ {Max(s)}]
        BY <4>3
      <4>5. QED
        BY <3>2, <4>2, <4>4
    <3>3. QED
      BY <3>1, <3>2
  <2>3. h = [s \in SUBSET (1..(n + 1)) |-> r(s)]
    BY <2>2
  <2>4. Folds(name, n + 1, h)
    BY <2>3 DEF Folds
  <2>5. QED
    BY <2>4
<1>3. QED
  <2>1. \A n \in Nat : n \in T => n + 1 \in T
    BY <1>2
  <2> HIDE DEF T
  <2>2. \A n \in Nat : n \in T
    BY <1>1, <2>1, NatSetInduction
  <2>3. QED
    BY <2>2 DEF T

\* There is only one such function, and a longer one extends a shorter one.
LEMMA FoldsAgree ==
  ASSUME NEW a, NEW b, NEW n \in Nat, NEW m \in Nat, n <= m,
         \A i \in 1..n : a[i] = b[i],
         NEW f, Folds(a, n, f), NEW g, Folds(b, m, g)
  PROVE  f[1..n] = g[1..n]
<1> DEFINE T == {k \in Nat : k <= n => \A s \in SUBSET (1..k) : f[s] = g[s]}
<1>1. \A s \in SUBSET (1..n) :
        /\ f[s] = IF s = {} THEN Root ELSE CleanStep(f[s \ {Max(s)}], a[Max(s)])
        /\ g[s] = IF s = {} THEN Root ELSE CleanStep(g[s \ {Max(s)}], b[Max(s)])
  <2>1. \A s \in SUBSET (1..n) : s \in SUBSET (1..m)
    OBVIOUS
  <2>2. QED
    BY <2>1 DEF Folds
<1>2. 0 \in T
  <2>1. \A s \in SUBSET (1..0) : s = {} /\ s \in SUBSET (1..n)
    OBVIOUS
  <2>2. QED
    BY <2>1, <1>1
<1>3. ASSUME NEW k \in Nat, k \in T PROVE k + 1 \in T
  <2> SUFFICES ASSUME k + 1 <= n, NEW s \in SUBSET (1..(k + 1)) PROVE f[s] = g[s]
    OBVIOUS
  <2>1. s \in SUBSET (1..n) /\ k <= n
    OBVIOUS
  <2>2. CASE s = {}
    BY <1>1, <2>1, <2>2
  <2>3. CASE s # {}
    <3>1. Max(s) \in s /\ Max(s) \in 1..n /\ \A j \in s : j <= Max(s)
      BY <2>1, <2>3, MaxOfSome
    <3>2. ASSUME NEW j \in s, j # Max(s) PROVE j \in 1..k
      <4>1. j \in Int /\ 1 <= j /\ j <= k + 1 /\ j <= Max(s) /\ Max(s) \in Int
        BY <3>1
      <4>2. Max(s) <= k + 1
        BY <3>1
      <4>3. j < k + 1
        BY <3>2, <4>1, <4>2
      <4>4. QED
        BY <4>1, <4>3
    <3>3. s \ {Max(s)} \in SUBSET (1..k)
      BY <3>2
    <3>4. f[s \ {Max(s)}] = g[s \ {Max(s)}]
      BY <1>3, <2>1, <3>3
    <3>5. a[Max(s)] = b[Max(s)]
      BY <3>1
    <3>6. QED
      BY <1>1, <2>1, <2>3, <3>4, <3>5
  <2>4. QED
    BY <2>2, <2>3
<1>4. QED
  <2>1. \A k \in Nat : k \in T => k + 1 \in T
    BY <1>3
  <2>2. n \in T
    <3> HIDE DEF T
    <3>1. QED
      BY <1>2, <2>1, NatSetInduction
  <2>3. \A s \in SUBSET (1..n) : f[s] = g[s]
    BY <2>2
  <2>4. QED
    BY <2>3

\* Clean is the fold of all components, so it can be unfolded.
LEMMA CleanFolds ==
  ASSUME NEW n \in Nat, NEW name, DOMAIN name = 1..n
  PROVE  \E iter : Folds(name, n, iter) /\ Clean(name) = iter[1..n]
<1> DEFINE it == CHOOSE iter : Folds(name, n, iter)
<1>1. Folds(name, n, it)
  BY FoldsExist
<1>2. Clean(name) = it[1..n]
  BY DEF Clean, FoldLeft, MapThenFoldSet, Folds
<1>3. QED
  BY <1>1, <1>2

\* Clean takes one component after the other.
LEMMA CleanRoot == Clean(<< >>) = Root
<1>1. PICK iter : Folds(<< >>, 0, iter) /\ Clean(<< >>) = iter[1..0]
  <2>1. DOMAIN << >> = 1..0
    OBVIOUS
  <2>2. QED
    BY <2>1, CleanFolds
<1>2. 1..0 = {}
  OBVIOUS
<1>3. QED
  BY <1>1, <1>2 DEF Folds

\* One component more is one CleanStep more.
LEMMA CleanExtends ==
  ASSUME NEW n \in Nat, NEW a, DOMAIN a = 1..n,
         NEW b, DOMAIN b = 1..(n + 1), \A i \in 1..n : a[i] = b[i]
  PROVE  Clean(b) = CleanStep(Clean(a), b[n + 1])
<1>1. PICK m \in Nat : m = n + 1
  OBVIOUS
<1>2. n <= m /\ DOMAIN b = 1..m
  BY <1>1
<1>3. PICK f : Folds(a, n, f) /\ Clean(a) = f[1..n]
  BY CleanFolds
<1>4. PICK g : Folds(b, m, g) /\ Clean(b) = g[1..m]
  BY <1>2, CleanFolds
<1>5. f[1..n] = g[1..n]
  BY <1>2, <1>3, <1>4, FoldsAgree
<1>6. (1..m) \ {m} = 1..n
  BY <1>1
<1> DEFINE all == 1..m
<1>7. m \in all
  BY <1>1
<1>8. \A k \in all : k <= m /\ k \in Int
  OBVIOUS
<1>9. all \in SUBSET (1..m) /\ all # {}
  BY <1>7
<1> HIDE DEF all
<1>10. Max(all) = m
  <2>1. Max(all) \in all /\ m <= Max(all)
    BY <1>9, <1>7, MaxOfSome
  <2>2. Max(all) <= m /\ Max(all) \in Int
    BY <2>1, <1>8
  <2>3. QED
    BY <2>1, <2>2
<1>11. g[1..m] = CleanStep(g[1..n], b[m])
  BY <1>4, <1>6, <1>9, <1>10 DEF Folds, all
<1>12. QED
  BY <1>1, <1>3, <1>4, <1>5, <1>11

\* CleanExtends, for a component put behind a name.
LEMMA CleanAppend ==
  ASSUME NEW S, NEW name \in Seq(S), NEW c \in S
  PROVE  Clean(Append(name, c)) = CleanStep(Clean(name), c)
<1>1. /\ Len(name) \in Nat /\ DOMAIN name = 1..Len(name)
      /\ DOMAIN Append(name, c) = 1..(Len(name) + 1)
      /\ \A i \in 1..Len(name) : name[i] = Append(name, c)[i]
      /\ Append(name, c)[Len(name) + 1] = c
  OBVIOUS
<1>2. QED
  BY <1>1, CleanExtends

\* Induction over sequences, for a set in place of a predicate: from the
\* front to the back.
LEMMA SeqSetInduction ==
  ASSUME NEW S, NEW T, << >> \in T,
         \A s \in Seq(S) : \A e \in S : s \in T => Append(s, e) \in T
  PROVE  \A s \in Seq(S) : s \in T
<1> DEFINE N == {n \in Nat : \A s \in Seq(S) : Len(s) = n => s \in T}
<1>1. 0 \in N
  <2>1. \A s \in Seq(S) : Len(s) = 0 => s = << >>
    OBVIOUS
  <2>2. QED
    BY <2>1
<1>2. ASSUME NEW n \in Nat, n \in N PROVE n + 1 \in N
  <2> SUFFICES ASSUME NEW s \in Seq(S), Len(s) = n + 1 PROVE s \in T
    OBVIOUS
  <2>1. PICK t \in Seq(S), e \in S : s = Append(t, e)
    BY SequenceEmptyOrAppend
  <2>2. Len(t) = n
    BY <2>1
  <2>3. t \in T
    BY <1>2, <2>2
  <2>4. QED
    BY <2>1, <2>3
<1>3. \A n \in Nat : n \in N
  <2>1. \A n \in Nat : n \in N => n + 1 \in N
    BY <1>2
  <2> HIDE DEF N
  <2>2. QED
    BY <1>1, <2>1, NatSetInduction
<1>4. QED
  BY <1>3

\* A set of sequences closed under putting an element in front is all of them.
LEMMA SeqTailInduction ==
  ASSUME NEW S, NEW T, << >> \in T,
         \A s \in Seq(S) : s # << >> /\ Tail(s) \in T => s \in T
  PROVE  \A s \in Seq(S) : s \in T
<1> DEFINE N == {n \in Nat : \A s \in Seq(S) : Len(s) = n => s \in T}
<1>1. 0 \in N
  <2>1. \A s \in Seq(S) : Len(s) = 0 => s = << >>
    OBVIOUS
  <2>2. QED
    BY <2>1
<1>2. ASSUME NEW n \in Nat, n \in N PROVE n + 1 \in N
  <2> SUFFICES ASSUME NEW s \in Seq(S), Len(s) = n + 1 PROVE s \in T
    OBVIOUS
  <2>1. s # << >>
    OBVIOUS
  <2>2. Tail(s) \in Seq(S) /\ Len(Tail(s)) = n
    BY <2>1, HeadTailProperties
  <2>3. QED
    BY <1>2, <2>1, <2>2
<1>3. \A n \in Nat : n \in N
  <2>1. \A n \in Nat : n \in N => n + 1 \in N
    BY <1>2
  <2> HIDE DEF N
  <2>2. QED
    BY <1>1, <2>1, NatSetInduction
<1>4. QED
  BY <1>3

\* Appending to the second of two sequences appends to both together.
LEMMA AppendOfConcat ==
  ASSUME NEW S, NEW a \in Seq(S), NEW b \in Seq(S), NEW c \in S
  PROVE  a \o Append(b, c) = Append(a \o b, c)
OBVIOUS

\* The front of a sequence with an element appended is the sequence.
LEMMA FrontOfAppend ==
  ASSUME NEW S, NEW p \in Seq(S), NEW c \in S
  PROVE  Front(Append(p, c)) = p
BY DEF Front

\* The components that are none: skipped, or leading up.
Skips(c)  == c \in {"", "."}
Climbs(c) == c = ".."

\* Every component is skipped, climbs or is a name.
LEMMA WordCases == \A c \in Word : Skips(c) \/ Climbs(c) \/ c \in Names
BY DEF Names, Skips, Climbs

\* Names are components.
LEMMA NamesAreWords == Names \subseteq Word /\ Seq(Names) \subseteq Seq(Word)
BY SeqMonotonic DEF Names

\* CleanStep on an empty component or a single dot.
LEMMA CleanStepSkips ==
  ASSUME NEW p, NEW c, Skips(c)
  PROVE  CleanStep(p, c) = p
BY DEF CleanStep, Skips

\* CleanStep on "..".
LEMMA CleanStepClimbs ==
  ASSUME NEW p, NEW c, Climbs(c)
  PROVE  CleanStep(p, c) = IF p = Root THEN Root ELSE Front(p)
BY DEF CleanStep, Climbs

\* CleanStep on a name.
LEMMA CleanStepName ==
  ASSUME NEW p, NEW c \in Names
  PROVE  CleanStep(p, c) = Append(p, c)
BY DEF CleanStep, Names

\* CleanStep leaves no dots.
LEMMA CleanStepType ==
  ASSUME NEW p \in Seq(Names), NEW c \in Word
  PROVE  CleanStep(p, c) \in Seq(Names)
<1>1. CASE Skips(c)
  BY <1>1, CleanStepSkips
<1>2. CASE c \in Names
  BY <1>2, CleanStepName, AppendProperties
<1>3. CASE Climbs(c)
  <2>1. CASE p = Root
    BY <1>3, <2>1, CleanStepClimbs
  <2>2. CASE p # Root
    <3>1. PICK q \in Seq(Names), e \in Names : p = Append(q, e)
      BY <2>2, SequenceEmptyOrAppend DEF Root
    <3>2. Front(p) = q
      BY <3>1, FrontOfAppend
    <3>3. QED
      BY <1>3, <2>2, <3>2, CleanStepClimbs
  <2>3. QED
    BY <2>1, <2>2
<1>4. QED
  BY <1>1, <1>2, <1>3, WordCases

\* What Clean returns has neither dots nor empty components: the paths of
\* entries, and those Resolve returns, are in this form.
LEMMA CleanType == \A name \in Seq(Word) : Clean(name) \in Seq(Names)
<1> DEFINE T == {name \in Seq(Word) : Clean(name) \in Seq(Names)}
<1>1. << >> \in T
  <2>1. << >> \in Seq(Word) /\ << >> \in Seq(Names)
    BY EmptySeq
  <2>2. QED
    BY <2>1, CleanRoot DEF Root
<1>2. ASSUME NEW s \in Seq(Word), NEW c \in Word, s \in T
      PROVE  Append(s, c) \in T
  <2>1. Clean(s) \in Seq(Names) /\ Append(s, c) \in Seq(Word)
    BY <1>2, AppendProperties
  <2>2. Clean(Append(s, c)) = CleanStep(Clean(s), c)
    BY CleanAppend
  <2>3. QED
    BY <2>1, <2>2, CleanStepType
<1>3. \A s \in Seq(Word) : s \in T
  <2> HIDE DEF T
  <2>1. QED
    BY <1>1, <1>2, SeqSetInduction
<1>4. QED
  BY <1>3

\* A clean path is its own Clean.
LEMMA CleanOfClean == \A p \in Seq(Names) : Clean(p) = p
<1> DEFINE T == {p \in Seq(Names) : Clean(p) = p}
<1>1. << >> \in T
  BY CleanRoot DEF Root
<1>2. ASSUME NEW p \in Seq(Names), NEW c \in Names, p \in T
      PROVE  Append(p, c) \in T
  BY <1>2, CleanAppend, CleanStepName, AppendProperties
<1>3. \A s \in Seq(Names) : s \in T
  <2> HIDE DEF T
  <2>1. QED
    BY <1>1, <1>2, SeqSetInduction
<1>4. QED
  BY <1>3

\* A name can be cleaned in front before the rest is put behind it: what
\* Resolve does at every symlink it follows.
LEMMA CleanConcat ==
  \A a, b \in Seq(Word) : Clean(a \o b) = Clean(Clean(a) \o b)
<1> SUFFICES ASSUME NEW a \in Seq(Word)
             PROVE  \A b \in Seq(Word) : Clean(a \o b) = Clean(Clean(a) \o b)
  OBVIOUS
<1> DEFINE T == {b \in Seq(Word) : Clean(a \o b) = Clean(Clean(a) \o b)}
<1>1. Clean(a) \in Seq(Names) /\ Clean(a) \in Seq(Word)
  BY CleanType, NamesAreWords
<1>2. << >> \in T
  <2>1. a \o << >> = a /\ Clean(a) \o << >> = Clean(a)
    BY <1>1, ConcatEmptySeq
  <2>2. QED
    BY <1>1, <2>1, CleanOfClean
<1>3. ASSUME NEW b \in Seq(Word), NEW c \in Word, b \in T
      PROVE  Append(b, c) \in T
  <2>1. /\ a \o b \in Seq(Word) /\ Clean(a) \o b \in Seq(Word)
        /\ Append(b, c) \in Seq(Word)
    BY <1>1, AppendProperties, ConcatProperties
  <2>2. /\ a \o Append(b, c) = Append(a \o b, c)
        /\ Clean(a) \o Append(b, c) = Append(Clean(a) \o b, c)
    BY <1>1, AppendOfConcat
  <2>3. Clean(a \o b) = Clean(Clean(a) \o b)
    BY <1>3
  <2>4. /\ Clean(Append(a \o b, c)) = CleanStep(Clean(a \o b), c)
        /\ Clean(Append(Clean(a) \o b, c)) = CleanStep(Clean(Clean(a) \o b), c)
    BY <2>1, CleanAppend
  <2>5. QED
    BY <2>1, <2>2, <2>3, <2>4
<1>4. \A s \in Seq(Word) : s \in T
  <2> HIDE DEF T
  <2>1. QED
    BY <1>2, <1>3, SeqSetInduction
<1>5. QED
  BY <1>4
=============================================================================
