--------------------------- MODULE ProgramProofs ---------------------------
(***************************************************************************)
(* What cek promises of a whole run, for every command line, daemon,       *)
(* registry, image, failure and standard output: who is asked for an       *)
(* image, what is written and how it reads, and what the exit status says. *)
(***************************************************************************)
EXTENDS Program, PathProofs, FiniteSetTheorems

-----------------------------------------------------------------------------
\* Sequences whatever their elements are.
LEMMA SequenceFacts ==
  ASSUME NEW s, IsSequence(s)
  PROVE  /\ Len(s) \in Nat /\ DOMAIN s = 1..Len(s)
         /\ s = << >> <=> Len(s) = 0
BY DEF IsSequence

\* A sequence with an element behind it is a sequence.
LEMMA AppendIsSequence ==
  ASSUME NEW s, IsSequence(s), NEW x
  PROVE  /\ IsSequence(Append(s, x))
         /\ Len(Append(s, x)) = Len(s) + 1
         /\ Append(s, x)[Len(s) + 1] = x
         /\ \A k \in 1..Len(s) : Append(s, x)[k] = s[k]
<1> DEFINE t == Append(s, x)
           S == ToSet(s) \cup {x}
<1>1. s \in Seq(S) /\ x \in S /\ Len(s) \in Nat
  BY DEF IsSequence
<1>2. /\ t \in Seq(S) /\ Len(t) = Len(s) + 1 /\ t[Len(s) + 1] = x
      /\ \A k \in 1..Len(s) : t[k] = s[k]
  BY <1>1
<1> HIDE DEF t
<1>3. t \in Seq(ToSet(t))
  BY <1>2 DEF ToSet
<1>4. QED
  BY <1>2, <1>3 DEF t, IsSequence

\* A function on the numbers up to n is a sequence.
LEMMA FunctionIsSequence ==
  ASSUME NEW n \in Nat, NEW f, DOMAIN f = 1..n, f = [k \in 1..n |-> f[k]]
  PROVE  IsSequence(f) /\ Len(f) = n
<1>1. f \in [1..n -> ToSet(f)]
  BY DEF ToSet
<1>2. f \in Seq(ToSet(f)) /\ Len(f) = n
  BY <1>1
<1>3. QED
  BY <1>2 DEF IsSequence

\* Two sequences, one after the other.
LEMMA ConcatIsSequence ==
  ASSUME NEW s, IsSequence(s), NEW t, IsSequence(t)
  PROVE  /\ IsSequence(s \o t) /\ Len(s \o t) = Len(s) + Len(t)
         /\ \A k \in 1..Len(s) : (s \o t)[k] = s[k]
         /\ \A k \in 1..Len(t) : (s \o t)[Len(s) + k] = t[k]
<1> DEFINE S == ToSet(s) \cup ToSet(t)
           c == s \o t
<1>1. s \in Seq(S) /\ t \in Seq(S) /\ Len(s) \in Nat /\ Len(t) \in Nat
  BY DEF IsSequence
<1> HIDE DEF S
<1>2. /\ c \in Seq(S) /\ Len(c) = Len(s) + Len(t)
      /\ \A k \in 1..Len(s) : c[k] = s[k]
      /\ \A k \in 1..Len(t) : c[Len(s) + k] = t[k]
  BY <1>1
<1> HIDE DEF c
<1>3. c \in Seq(ToSet(c))
  BY <1>2 DEF ToSet
<1>4. QED
  BY <1>2, <1>3 DEF c, IsSequence

\* What is in one of two sequences is in one after the other.
LEMMA ConcatHolds ==
  ASSUME NEW s, IsSequence(s), NEW t, IsSequence(t)
  PROVE  IsSequence(s \o t) /\ ToSet(s \o t) = ToSet(s) \cup ToSet(t)
<1> DEFINE c == s \o t
           m == Len(s)
           n == Len(t)
<1>1. /\ IsSequence(c) /\ Len(c) = Len(s) + Len(t)
      /\ \A k \in 1..Len(s) : c[k] = s[k]
      /\ \A k \in 1..Len(t) : c[Len(s) + k] = t[k]
  BY ConcatIsSequence
<1>2. m \in Nat /\ n \in Nat /\ DOMAIN s = 1..m /\ DOMAIN t = 1..n /\ DOMAIN c = 1..(m + n)
  BY <1>1, SequenceFacts
<1>3. /\ \A x : x \in ToSet(s) <=> \E k \in 1..m : s[k] = x
      /\ \A x : x \in ToSet(t) <=> \E k \in 1..n : t[k] = x
      /\ \A x : x \in ToSet(c) <=> \E k \in 1..(m + n) : c[k] = x
  BY <1>2 DEF ToSet
<1> HIDE DEF c, m, n
<1>4. ASSUME NEW x \in ToSet(c) PROVE x \in ToSet(s) \cup ToSet(t)
  <2>1. PICK k \in 1..(m + n) : c[k] = x
    BY <1>3
  <2>2. CASE k \in 1..m
    BY <1>1, <1>3, <2>1, <2>2 DEF m
  <2>3. CASE k - m \in 1..n
    <3>1. m + (k - m) = k
      BY <1>2
    <3>2. c[m + (k - m)] = t[k - m]
      BY <1>1, <2>3 DEF m, n
    <3>3. QED
      BY <1>3, <2>1, <2>3, <3>1, <3>2
  <2>4. QED
    BY <1>2, <2>2, <2>3
<1>5. ASSUME NEW x \in ToSet(s) PROVE x \in ToSet(c)
  <2>1. PICK k \in 1..m : s[k] = x
    BY <1>3
  <2>2. k \in 1..(m + n) /\ c[k] = x
    BY <1>1, <1>2, <2>1 DEF m
  <2>3. QED
    BY <1>3, <2>2
<1>6. ASSUME NEW x \in ToSet(t) PROVE x \in ToSet(c)
  <2>1. PICK k \in 1..n : t[k] = x
    BY <1>3
  <2>2. m + k \in 1..(m + n)
    BY <1>2
  <2>3. c[m + k] = x
    BY <1>1, <2>1 DEF m, n
  <2>4. QED
    BY <1>3, <2>2, <2>3
<1>7. QED
  BY <1>1, <1>4, <1>5, <1>6 DEF c

\* What is said of inputs, for the one of this run.
LEMMA InputFacts ==
  ASSUME input \in Inputs
  PROVE  /\ input.refs \in Seq(STRING) /\ Len(input.refs) \in Nat \ {0}
         /\ DOMAIN input.refs = 1..Len(input.refs)
         /\ input.name # "diff" => Len(input.refs) = 1
         /\ input.layer \in Int /\ input.limit \in Int /\ input.room \in Nat
         /\ input.broken \in BOOLEAN /\ input.tags \in Seq(STRING)
         /\ \A held \in input.daemon \cup input.registry :
              held.layers \in Seq(Seq({h \in Header : WellFormed(h)}))
<1>1. /\ input.refs \in Seq(STRING) /\ input.refs # << >>
      /\ input.name # "diff" => Len(input.refs) = 1
  BY InputsAssumption
<1>2. /\ input.layer \in Int /\ input.limit \in Int /\ input.room \in Nat
      /\ input.broken \in BOOLEAN /\ input.tags \in Seq(STRING)
  BY InputsAssumption
<1>3. \A held \in input.daemon \cup input.registry :
        held.layers \in Seq(Seq({h \in Header : WellFormed(h)}))
  BY InputsAssumption
<1>4. QED
  BY <1>1, <1>2, <1>3

-----------------------------------------------------------------------------
\* Every step leaves the input alone.
LEMMA InputStays == [Next]_vars => input' = input
BY DEF Next, vars, documentVars, commandVars, context, printing, Fail,
       Execute, UsageError, Start, Render, Report, Ended,
       Fetching, Load, NoSuchLayer, LoadError, Work, List, MapTree, PrintEntry, PrintEnd, Compare,
       Find, Reading, OpenFile, Copy, ReadFails,
       Handed, CheckLayer, NoSuchBlob, OpenBlob, WriteTarball, TarballFails, PrintDocument,
       InspectImage, DocumentError, BadReference, ListTags, TagsFail

\* Where the commands that merge nothing go.
LEMMA HandedPlaces ==
  ASSUME Handed
  PROVE  \/ CheckLayer
         \/ pc = "load" /\ pc' \in {"done", "failed"}
         \/ pc = "tags" /\ pc' \in {"done", "failed"}
BY DEF Handed, Handing, Hand, NoSuchBlob, OpenBlob, WriteTarball, TarballFails, PrintDocument,
       InspectImage, DocumentError, BadReference, ListTags, TagsFail, Fail

\* Every step keeps CommandInv.
LEMMA CommandStep ==
  ASSUME CommandInv, input \in Inputs, [Next]_vars
  PROVE  CommandInv'
<1> USE DEF CommandInv
<1>1. input' = input
  BY InputStays
<1>2. Accepted' <=> Accepted
  BY <1>1 DEF Accepted
<1>3. CASE Execute
  <2>1. /\ pc' \in {"done", "tags", "blob", "fetch"} /\ pc = "start" /\ Accepted
        /\ (pc' \in {"tags", "blob"} => input.name = pc')
        /\ pc' = "fetch" => input.name \notin {"version", "tags", "blob"}
        /\ pc' = "done" => input.name = "version"
        \/ pc' = "exit"
    BY <1>3 DEF Execute, UsageError, Start, Render, Report, FirstStep
  <2>2. QED
    BY <1>1, <1>2, <2>1
<1>4. CASE Fetching
  <2>1. pc \in {"fetch", "daemon", "registry"}
        /\ pc' \in {"daemon", "registry", "load", "failed"}
    BY <1>4 DEF Fetching, FetchImage, BadArgument, ChooseSource, DaemonAnswers, DaemonFails,
               BadPlatform, RegistryAnswers, RegistryFails, FetchFailed, Fetched
  <2>2. QED
    BY <1>1, <1>2, <2>1
<1>5. CASE Load
  <2>1. pc = "load" /\ input.name \in DOMAIN Works
        /\ (pc' = "fetch" \/ pc' = Works[input.name])
    BY <1>5 DEF Load, Loading
  <2>2. QED
    BY <1>1, <1>2, <2>1 DEF Works
<1>6. CASE NoSuchLayer \/ LoadError \/ Work
  BY <1>1, <1>2, <1>6 DEF NoSuchLayer, LoadError, Loading, Fail, Work, List, MapTree, PrintEntry,
                         PrintEnd, Compare
<1>7. CASE Find \/ Reading
  BY <1>1, <1>2, <1>7 DEF Find, Reading, OpenFile, Copy, ReadFails, Fail
<1>8. CASE Handed
  <2>1. CASE CheckLayer
    <3>1. pc = "blob" /\ (pc' = "failed" \/ (pc' = "fetch" /\ ~(input.layer < 1)))
      BY <2>1 DEF CheckLayer
    <3>2. input.layer \in Int
      BY InputFacts
    <3>3. QED
      BY <1>1, <1>2, <3>1, <3>2
  <2>2. CASE pc = "load" /\ pc' \in {"done", "failed"}
    BY <1>1, <1>2, <2>2
  <2>3. CASE pc = "tags" /\ pc' \in {"done", "failed"}
    BY <1>1, <1>2, <2>3
  <2>4. QED
    BY <1>8, <2>1, <2>2, <2>3, HandedPlaces
<1>9. CASE UNCHANGED vars
  BY <1>1, <1>2, <1>9 DEF vars, documentVars, commandVars
<1>10. QED
  BY <1>3, <1>4, <1>5, <1>6, <1>7, <1>8, <1>9 DEF Next, Ended

-----------------------------------------------------------------------------
\* Who is asked for an image.

\* One more is asked, the registry only when it may be.
LEMMA AskStep ==
  ASSUME FetchInv, NEW w, NEW g, Ask(w, g), input' = input,
         input.name = "tags" => asked = << >>,
         w = "registry" =>
           \/ Policy = "always"
           \/ input.name = "tags"
           \/ /\ Policy = "if-not-present" /\ asked # << >>
              /\ asked[Len(asked)] = [who |-> "daemon", ref |-> ref, given |-> FALSE]
  PROVE  /\ IsSequence(asked') /\ Len(asked') = Len(asked) + 1 /\ Len(asked) \in Nat
         /\ asked' # << >> /\ asked'[Len(asked')] = [who |-> w, ref |-> ref, given |-> g]
         /\ RegistryOnlyWhenNeeded'
         /\ input.name = "tags" => Len(asked') <= 1
<1> DEFINE n == Len(asked)
           x == [who |-> w, ref |-> ref, given |-> g]
           InVain(s, k, r) == s[k] = [who |-> "daemon", ref |-> r, given |-> FALSE]
<1>1. n \in Nat /\ DOMAIN asked = 1..n /\ (asked = << >> <=> n = 0)
  BY SequenceFacts DEF FetchInv
<1>2. /\ IsSequence(asked') /\ Len(asked') = n + 1 /\ asked'[n + 1] = x
      /\ \A k \in 1..n : asked'[k] = asked[k]
  BY AppendIsSequence DEF FetchInv, Ask
<1>3. DOMAIN asked' = 1..(n + 1) /\ asked' # << >>
  BY <1>1, <1>2, SequenceFacts
<1>4. x.who = w /\ x.ref = ref
  OBVIOUS
<1>5. \A k \in 1..n : asked[k].who = "registry" =>
        \/ Policy = "always"
        \/ input.name = "tags" /\ n = 1
        \/ Policy = "if-not-present" /\ k > 1 /\ InVain(asked, k - 1, asked[k].ref)
  <2>1. RegistryOnlyWhenNeeded
    BY DEF FetchInv
  <2>2. QED
    BY <1>1, <2>1 DEF RegistryOnlyWhenNeeded
<1>6. \A r : \A k \in 1..n : InVain(asked, k, r) <=> InVain(asked', k, r)
  BY <1>2
<1>7. w = "registry" =>
        \/ Policy = "always"
        \/ input.name = "tags"
        \/ Policy = "if-not-present" /\ asked # << >> /\ InVain(asked, n, ref)
  OBVIOUS
<1> HIDE DEF n, x, InVain
<1>8. ASSUME NEW k \in 1..(n + 1), asked'[k].who = "registry"
      PROVE  \/ Policy = "always"
             \/ input.name = "tags" /\ n + 1 = 1
             \/ Policy = "if-not-present" /\ k > 1 /\ InVain(asked', k - 1, asked'[k].ref)
  <2>1. CASE k \in 1..n
    <3>1. asked'[k] = asked[k] /\ n # 0
      BY <1>1, <1>2, <2>1
    <3>2. k > 1 => k - 1 \in 1..n
      BY <1>1, <2>1
    <3>3. input.name # "tags"
      BY <1>1, <3>1
    <3>4. \/ Policy = "always"
          \/ Policy = "if-not-present" /\ k > 1 /\ InVain(asked, k - 1, asked[k].ref)
      BY <1>5, <1>8, <2>1, <3>1, <3>3
    <3>5. k > 1 => (InVain(asked, k - 1, asked[k].ref) <=> InVain(asked', k - 1, asked'[k].ref))
      BY <1>6, <3>1, <3>2
    <3>6. QED
      BY <3>4, <3>5
  <2>2. CASE k = n + 1
    <3>1. w = "registry" /\ asked'[k].ref = ref
      BY <1>2, <1>4, <1>8, <2>2
    <3>2. input.name = "tags" => n = 0
      BY <1>1
    <3>3. n # 0 => k - 1 = n /\ n \in 1..n /\ k > 1
      BY <1>1, <2>2
    <3>4. InVain(asked, n, ref) /\ n # 0 => InVain(asked', k - 1, asked'[k].ref)
      BY <1>6, <3>1, <3>3
    <3>5. input.name = "tags" => n + 1 = 1
      BY <3>2
    <3>6. QED
      BY <1>1, <1>7, <3>1, <3>3, <3>4, <3>5
  <2>3. QED
    BY <1>1, <2>1, <2>2
<1>9. Policy' = Policy
  BY DEF Policy
<1>10. RegistryOnlyWhenNeeded'
  BY <1>2, <1>3, <1>8, <1>9 DEF RegistryOnlyWhenNeeded, InVain
<1>11. QED
  BY <1>1, <1>2, <1>3, <1>10 DEF n, x

\* Nobody is asked: what is known of those who were stays.
LEMMA NobodyAsked ==
  ASSUME FetchInv, input' = input, asked' = asked,
         pc' \notin {"daemon", "registry"},
         pc' \in {"start", "tags"} => pc \in {"start", "tags"}
  PROVE  FetchInv'
BY DEF FetchInv, RegistryOnlyWhenNeeded, Policy

\* Every step keeps FetchInv.
LEMMA FetchStep ==
  ASSUME FetchInv, CommandInv, input \in Inputs, [Next]_vars
  PROVE  FetchInv'
<1>1. input' = input /\ Policy' = Policy
  BY InputStays DEF Policy
<1>2. CASE Fetching
  <2>1. pc \in {"fetch", "daemon", "registry"} /\ input.name # "tags"
    BY <1>2 DEF CommandInv, Fetching, FetchImage, BadArgument, ChooseSource, DaemonAnswers,
               DaemonFails, BadPlatform, RegistryAnswers, RegistryFails
  <2>2. CASE BadArgument \/ BadPlatform
    BY <1>1, <2>2, NobodyAsked DEF BadArgument, BadPlatform, FetchFailed
  <2>3. CASE ChooseSource
    BY <1>1, <2>1, <2>3 DEF FetchInv, ChooseSource, RegistryOnlyWhenNeeded, Policies
  <2>4. CASE DaemonAnswers
    <3>1. Ask("daemon", TRUE) /\ pc' = "load"
      BY <2>4 DEF DaemonAnswers, Fetched
    <3>2. IsSequence(asked') /\ RegistryOnlyWhenNeeded'
      BY <1>1, <2>1, <3>1, AskStep
    <3>3. QED
      BY <1>1, <2>1, <3>1, <3>2 DEF FetchInv
  <2>5. CASE DaemonFails
    <3>1. Ask("daemon", FALSE) /\ ref' = ref /\ Policy \in Policies /\ Policy # "always"
          /\ (pc' = "failed" \/ (pc' = "registry" /\ Policy # "never"))
      BY <2>5 DEF DaemonFails, FetchFailed, FetchInv
    <3>2. /\ IsSequence(asked') /\ RegistryOnlyWhenNeeded' /\ asked' # << >>
          /\ asked'[Len(asked')] = [who |-> "daemon", ref |-> ref, given |-> FALSE]
      BY <1>1, <2>1, <3>1, AskStep
    <3>3. QED
      BY <1>1, <2>1, <3>1, <3>2 DEF FetchInv, Policies
  <2>6. CASE RegistryAnswers \/ RegistryFails
    <3>1. PICK g \in BOOLEAN : Ask("registry", g)
      BY <2>6 DEF RegistryAnswers, RegistryFails
    <3>2. pc = "registry" /\ pc' \in {"load", "failed"}
      BY <2>6 DEF RegistryAnswers, RegistryFails, Fetched, FetchFailed
    <3>3. \/ Policy = "always"
          \/ /\ Policy = "if-not-present" /\ asked # << >>
             /\ asked[Len(asked)] = [who |-> "daemon", ref |-> ref, given |-> FALSE]
      BY <3>2 DEF FetchInv
    <3>4. IsSequence(asked') /\ RegistryOnlyWhenNeeded'
      BY <1>1, <2>1, <3>1, <3>3, AskStep
    <3>5. QED
      BY <1>1, <2>1, <3>2, <3>4 DEF FetchInv
  <2>7. QED
    BY <1>2, <2>2, <2>3, <2>4, <2>5, <2>6 DEF Fetching, FetchImage
<1>3. CASE ListTags \/ TagsFail
  <2>1. PICK g \in BOOLEAN : Ask("registry", g)
    BY <1>3 DEF ListTags, TagsFail
  <2>2. pc = "tags" /\ pc' \in {"done", "failed"} /\ input.name = "tags" /\ asked = << >>
    BY <1>3 DEF ListTags, TagsFail, Hand, CommandInv, FetchInv
  <2>3. IsSequence(asked') /\ RegistryOnlyWhenNeeded' /\ Len(asked') <= 1
    BY <1>1, <2>1, <2>2, AskStep
  <2>4. QED
    BY <1>1, <2>2, <2>3 DEF FetchInv
<1>4. CASE UNCHANGED vars
  <2>1. UNCHANGED <<input, pc, ref, asked>>
    BY <1>4 DEF vars, documentVars, commandVars, context
  <2>2. QED
    BY <1>1, <2>1 DEF FetchInv, RegistryOnlyWhenNeeded
<1>5. CASE Execute
  <2>1. asked' = asked /\ pc' \in {"done", "tags", "blob", "fetch", "exit"}
        /\ (pc' = "tags" => pc = "start")
    BY <1>5 DEF Execute, UsageError, Start, Render, Report, FirstStep, context
  <2>2. QED
    BY <1>1, <2>1, NobodyAsked
<1>6. CASE Load
  <2>1. asked' = asked /\ (pc' = "fetch" \/ pc' = Works[input.name]) /\ input.name \in DOMAIN Works
    BY <1>6 DEF Load, Loading
  <2>2. QED
    BY <1>1, <2>1, NobodyAsked DEF Works
<1>7. CASE NoSuchLayer \/ LoadError \/ Work \/ Find \/ Reading
  <2>1. asked' = asked /\ pc' \in {"failed", "done", "print", "read"}
    BY <1>7 DEF NoSuchLayer, LoadError, Fail, Work, List, MapTree, PrintEntry,
       PrintEnd, Compare, Find, Reading, OpenFile, Copy, ReadFails, context
  <2>2. QED
    BY <1>1, <2>1, NobodyAsked
<1>8. CASE Handed /\ ~ListTags /\ ~TagsFail
  <2>1. asked' = asked /\ pc' \in {"done", "failed", "fetch"}
    BY <1>8 DEF Handed, Handing, Hand, CheckLayer, NoSuchBlob, OpenBlob, WriteTarball,
       TarballFails, PrintDocument, InspectImage, DocumentError, BadReference, Fail, context
  <2>2. QED
    BY <1>1, <2>1, NobodyAsked
<1>9. QED
  BY <1>2, <1>3, <1>4, <1>5, <1>6, <1>7, <1>8 DEF Next, Ended

-----------------------------------------------------------------------------
\* What is loaded.

\* A merged filesystem has one entry for a path and none for the root, which
\* every header for it is ignored for.
LEMMA EntriesAreMerged ==
  ASSUME NEW layers
  PROVE  WellMerged(EntriesOf(layers))
<1> DEFINE n == Len(layers)
           merged == Built(layers, n)
           at(p) == merged[p]
           h(p) == layers[at(p).layer][at(p).pos]
           made(p) == [path |-> p, kind |-> h(p).kind, mode |-> h(p).mode, link |-> h(p).link,
                       layer |-> at(p).layer,
                       content |-> IF h(p).kind = "hardlink"
                                   THEN LinkedContent(layers, at(p).layer, h(p).link)
                                   ELSE h(p).content]
           there == {p \in Path : merged[p] # Absent}
<1>1. EntriesOf(layers) = {made(p) : p \in there}
  BY DEF EntriesOf, Made
<1>2. \A p : made(p).path = p
  OBVIOUS
<1>3. \A p \in there : p \in Path /\ p # Root
  <2> SUFFICES ASSUME NEW p \in there PROVE p # Root
    OBVIOUS
  <2>1. KeptLayers(layers, n, p) # {}
    BY DEF Built, ProviderIfAny
  <2>2. PICK i : Positions(layers[i], p) # {}
    BY <2>1 DEF KeptLayers, LayersWith
  <2>3. QED
    BY <2>2 DEF Positions, Adds, Ignored
<1> HIDE DEF made, there
<1>4. QED
  BY <1>1, <1>2, <1>3 DEF WellMerged

\* The images the daemon and the registry give are images.
LEMMA FetchedLayers ==
  ASSUME input \in Inputs, NEW i \in HeldByDaemon \cup HeldByRegistry
  PROVE  i.layers \in Seq(Seq({h \in Header : WellFormed(h)}))
<1>1. PICK held \in input.daemon \cup input.registry : i.layers = held.layers
  BY DEF HeldByDaemon, HeldByRegistry
<1>2. QED
  BY <1>1, InputFacts

\* One more is asked, as LoadInv counts them.
LEMMA AskedCounts ==
  ASSUME FetchInv, NEW w, NEW g, Ask(w, g)
  PROVE  Len(asked') = Len(asked) + 1 /\ Len(asked) \in Nat
BY AppendIsSequence, SequenceFacts DEF FetchInv, Ask

\* The steps of LoadInv that load nothing: the image may be another as long as
\* none is loaded where one is all there is to load.
LEMMA NothingLoaded ==
  ASSUME LoadInv, input \in Inputs, input' = input, loaded' = loaded,
         image' = image \/ Len(loaded) < Len(input.refs),
         image'.layers \in Seq(Seq({h \in Header : WellFormed(h)})),
         pc' \in {"start", "blob", "tags", "fetch", "daemon", "registry", "load"} =>
           /\ Len(loaded) < Len(input.refs)
           /\ Len(asked') <= 2 * Len(loaded)
                               + (IF pc' = "registry" THEN 1 ELSE IF pc' = "load" THEN 2 ELSE 0),
         pc' \in {"list", "map", "print", "compare", "find", "read"}
           \/ (pc' = "done" /\ input.name \in DOMAIN Works) => Len(loaded) = Len(input.refs)
  PROVE  LoadInv'
<1>1. /\ IsSequence(loaded)
      /\ \A k \in DOMAIN loaded : IsSequence(loaded[k].manifest) /\ WellMerged(loaded[k].entries)
      /\ input.name # "diff" => \A k \in DOMAIN loaded : loaded[k].entries = EntriesOf(Chosen)
  BY DEF LoadInv
<1>2. input.name # "diff" => \A k \in DOMAIN loaded : loaded[k].entries = EntriesOf(Chosen')
  <2>1. CASE image' = image
    BY <1>1, <2>1 DEF Chosen
  <2>2. CASE Len(loaded) < Len(input.refs)
    <3>1. input.name # "diff" => Len(input.refs) = 1
      BY InputFacts
    <3>2. Len(loaded) \in Nat /\ DOMAIN loaded = 1..Len(loaded)
      BY <1>1, SequenceFacts
    <3>3. ASSUME input.name # "diff" PROVE Len(loaded) = 0
      <4> DEFINE n == Len(loaded)
                 m == Len(input.refs)
      <4>1. n \in Nat /\ n < m /\ m = 1
        BY <2>2, <3>1, <3>2, <3>3
      <4> HIDE DEF n, m
      <4>2. n = 0
        BY <4>1
      <4>3. QED
        BY <4>2 DEF n
    <3>4. input.name # "diff" => DOMAIN loaded = {}
      BY <3>2, <3>3
    <3>5. QED
      BY <3>4
  <2>3. QED
    BY <2>1, <2>2
<1>3. QED
  BY <1>1, <1>2 DEF LoadInv

\* Every step keeps LoadInv.
LEMMA LoadStep ==
  ASSUME LoadInv, FetchInv, CommandInv, input \in Inputs, [Next]_vars
  PROVE  LoadInv'
<1>1. input' = input
  BY InputStays
<1>2. /\ Len(asked) \in Nat /\ Len(loaded) \in Nat /\ Len(input.refs) \in Nat
      /\ DOMAIN loaded = 1..Len(loaded)
  BY SequenceFacts, InputFacts DEF LoadInv, FetchInv
<1>3. image.layers \in Seq(Seq({h \in Header : WellFormed(h)}))
  BY DEF LoadInv
<1>4. /\ pc \in {"start", "blob", "tags", "fetch", "daemon", "registry", "load"} =>
           Len(loaded) < Len(input.refs)
      /\ pc \in {"start", "blob", "tags", "fetch", "daemon"} => Len(asked) <= 2 * Len(loaded)
      /\ pc = "registry" => Len(asked) <= 2 * Len(loaded) + 1
      /\ pc = "load" => Len(asked) <= 2 * Len(loaded) + 2
      /\ pc \in {"list", "map", "print", "compare", "find", "read"} => Len(loaded) = Len(input.refs)
  BY <1>2 DEF LoadInv
<1>5. CASE Fetching
  <2>1. loaded' = loaded /\ pc \in {"fetch", "daemon", "registry"}
    BY <1>5 DEF Fetching, FetchImage, BadArgument, ChooseSource, DaemonAnswers,
               DaemonFails, BadPlatform, RegistryAnswers, RegistryFails
  <2>2. CASE BadArgument \/ BadPlatform
    BY <1>1, <1>3, <2>1, <2>2, NothingLoaded DEF BadArgument, BadPlatform, FetchFailed
  <2>3. CASE ChooseSource
    BY <1>1, <1>2, <1>3, <1>4, <2>1, <2>3, NothingLoaded DEF ChooseSource
  <2>4. CASE DaemonFails
    <3>1. Len(asked') = Len(asked) + 1
      BY <2>4, AskedCounts DEF DaemonFails
    <3>2. pc = "daemon" /\ image' = image /\ pc' \in {"failed", "registry"}
      BY <2>4 DEF DaemonFails, FetchFailed
    <3>3. QED
      BY <1>1, <1>2, <1>3, <1>4, <2>1, <3>1, <3>2, NothingLoaded
  <2>5. CASE DaemonAnswers \/ RegistryAnswers
    <3>1. Len(asked') = Len(asked) + 1
      BY <2>5, AskedCounts DEF DaemonAnswers, RegistryAnswers
    <3>2. /\ pc \in {"daemon", "registry"} /\ pc' = "load"
          /\ image' \in HeldByDaemon \cup HeldByRegistry
      BY <2>5 DEF DaemonAnswers, RegistryAnswers, Fetched
    <3>3. image'.layers \in Seq(Seq({h \in Header : WellFormed(h)}))
      BY <3>2, FetchedLayers
    <3>4. Len(loaded) < Len(input.refs) /\ Len(asked') <= 2 * Len(loaded) + 2
      BY <1>2, <1>4, <3>1, <3>2
    <3>5. QED
      BY <1>1, <2>1, <3>2, <3>3, <3>4, NothingLoaded
  <2>6. CASE RegistryFails
    BY <1>1, <1>3, <2>1, <2>6, NothingLoaded DEF RegistryFails, FetchFailed
  <2>7. QED
    BY <1>5, <2>2, <2>3, <2>4, <2>5, <2>6 DEF Fetching, FetchImage
<1>6. CASE Load
  <2> DEFINE new == [platform |-> image.platform, manifest |-> Manifest,
                     entries |-> EntriesOf(Chosen)]
  <2>1. /\ pc = "load" /\ input.name \in DOMAIN Works /\ loaded' = Append(loaded, new)
        /\ UNCHANGED <<image, asked>>
        /\ IF Len(loaded') < Len(input.refs) THEN pc' = "fetch" ELSE pc' = Works[input.name]
    BY <1>6 DEF Load, Loading
  <2>2. /\ IsSequence(loaded') /\ Len(loaded') = Len(loaded) + 1 /\ loaded'[Len(loaded) + 1] = new
        /\ \A k \in 1..Len(loaded) : loaded'[k] = loaded[k]
    BY <2>1, AppendIsSequence DEF LoadInv
  <2>3. DOMAIN loaded' = 1..(Len(loaded) + 1)
    BY <2>2, SequenceFacts
  <2>4. new.entries = EntriesOf(Chosen) /\ WellMerged(new.entries)
    BY EntriesAreMerged
  <2>5. IsSequence(new.manifest)
    <3> DEFINE n == Len(image.layers)
    <3>1. n \in Nat /\ DOMAIN image.layers = 1..n
      BY <1>3
    <3> HIDE DEF n
    <3>2. DOMAIN Manifest = 1..n /\ Manifest = [k \in 1..n |-> Manifest[k]]
      BY <3>1 DEF Manifest
    <3>3. IsSequence(Manifest)
      BY <3>1, <3>2, FunctionIsSequence
    <3>4. QED
      BY <3>3
  <2> HIDE DEF new
  <2>6. \A k \in DOMAIN loaded' :
          IsSequence(loaded'[k].manifest) /\ WellMerged(loaded'[k].entries)
    BY <1>2, <2>2, <2>3, <2>4, <2>5 DEF LoadInv
  <2>7. Chosen' = Chosen
    BY <1>1, <2>1 DEF Chosen
  <2>8. input.name # "diff" => \A k \in DOMAIN loaded' : loaded'[k].entries = EntriesOf(Chosen)
    BY <1>2, <2>2, <2>3, <2>4 DEF LoadInv
  <2>9. /\ Len(loaded') <= Len(input.refs)
        /\ pc' = "fetch" => Len(loaded') < Len(input.refs) /\ Len(asked') <= 2 * Len(loaded')
        /\ pc' # "fetch" => Len(loaded') = Len(input.refs)
    BY <1>2, <1>4, <2>1, <2>2 DEF Works
  <2>10. pc' \in {"fetch", "list", "map", "compare", "find"}
    BY <2>1 DEF Works
  <2>11. QED
    BY <1>1, <1>3, <2>1, <2>2, <2>6, <2>7, <2>8, <2>9, <2>10 DEF LoadInv
<1>7. CASE Execute
  <2>1. UNCHANGED <<loaded, image, asked>>
        /\ (pc' = "exit" \/ (pc = "start" /\ pc' \in {"blob", "tags", "fetch"})
                         \/ (pc' = "done" /\ input.name = "version"))
    BY <1>7 DEF Execute, UsageError, Start, Render, Report, FirstStep, context
  <2>2. QED
    BY <1>1, <1>3, <1>4, <2>1, NothingLoaded DEF Works
<1>8. CASE NoSuchLayer \/ LoadError \/ Work \/ Find \/ Reading
  <2>1. UNCHANGED <<loaded, image, asked>>
        /\ (pc' = "failed" \/ (pc \in {"list", "map", "print", "compare", "find", "read"}
                               /\ pc' \in {"print", "read", "done"}))
    BY <1>8 DEF NoSuchLayer, LoadError, Fail, Work, List, MapTree, PrintEntry,
       PrintEnd, Compare, Find, Reading, OpenFile, Copy, ReadFails, context
  <2>2. QED
    BY <1>1, <1>3, <1>4, <2>1, NothingLoaded
<1>9. CASE Handed
  <2>1. UNCHANGED <<loaded, image>>
        /\ (pc' = "failed" \/ (pc' = "fetch" /\ pc = "blob" /\ asked' = asked)
                           \/ (pc' = "done" /\ input.name \notin DOMAIN Works))
    <3>1. pc = "tags" => input.name \notin DOMAIN Works
      BY DEF CommandInv, Works
    <3>2. QED
      BY <1>9, <3>1 DEF Handed, Handing, Hand, CheckLayer, NoSuchBlob, OpenBlob, WriteTarball,
         TarballFails, PrintDocument, InspectImage, DocumentError, BadReference, Fail,
         ListTags, TagsFail, context
  <2>2. QED
    BY <1>1, <1>3, <1>4, <2>1, NothingLoaded
<1>10. CASE UNCHANGED vars
  <2>1. UNCHANGED <<input, pc, loaded, image, asked>>
    BY <1>10 DEF vars, documentVars, commandVars, context
  <2>2. QED
    BY <2>1 DEF LoadInv, Chosen
<1>11. QED
  BY <1>5, <1>6, <1>7, <1>8, <1>9, <1>10 DEF Next, Ended

-----------------------------------------------------------------------------
\* What a command has made for its view.

\* The last tags come first, and as many as were asked for.
LEMMA NewestFirstAreTheLast ==
  ASSUME NEW tags \in Seq(STRING), NEW limit \in Int, input.limit = limit
  PROVE  LET shownTags == NewestFirst(tags)
             n == Len(tags)
         IN  /\ IsSequence(shownTags)
             /\ Len(shownTags) = IF limit \in 1..n THEN limit ELSE n
             /\ \A k \in DOMAIN shownTags : shownTags[k] = tags[n + 1 - k]
<1> DEFINE n == Len(tags)
           r == Reverse(tags)
           c == Cut(r, limit)
<1>1. n \in Nat /\ tags \in [1..n -> STRING]
  OBVIOUS
<1>2. r = [k \in 1..n |-> tags[(n - k) + 1]]
  BY DEF Reverse
<1>3. \A k \in 1..n : (n - k) + 1 \in 1..n /\ (n - k) + 1 = n + 1 - k
  BY <1>1
<1>4. \A k \in 1..n : tags[(n - k) + 1] \in STRING
  BY <1>1, <1>3
<1> HIDE DEF n
<1>5. r \in [1..n -> STRING]
  BY <1>2, <1>4
<1>6. r \in Seq(STRING) /\ Len(r) = n
  BY <1>1, <1>5
<1>7. \A k \in 1..n : r[k] = tags[n + 1 - k]
  BY <1>2, <1>3
<1> HIDE DEF r
<1>8. /\ c \in Seq(STRING) /\ Len(c) = IF limit \in 1..n THEN limit ELSE n
      /\ \A k \in 1..Len(c) : c[k] = r[k]
  <2>1. CASE limit > 0 /\ limit < n
    <3>1. c = SubSeq(r, 1, limit)
      BY <1>6, <2>1 DEF Cut
    <3>2. limit \in 1..n
      BY <1>1, <2>1
    <3>3. QED
      BY <1>1, <1>6, <2>1, <3>1, <3>2
  <2>2. CASE ~(limit > 0 /\ limit < n)
    <3>1. c = r
      BY <1>6, <2>2 DEF Cut
    <3>2. limit \in 1..n => limit = n
      BY <1>1, <2>2
    <3>3. QED
      BY <1>6, <3>1, <3>2
  <2>3. QED
    BY <2>1, <2>2
<1>9. NewestFirst(tags) = c
  BY DEF NewestFirst, r
<1> HIDE DEF c
<1>10. DOMAIN c = 1..Len(c) /\ Len(c) \in Nat
  BY <1>8
<1>11. 1..Len(c) \subseteq 1..n
  BY <1>1, <1>8, <1>10
<1>12. IsSequence(c)
  BY <1>8 DEF IsSequence, ToSet
<1>13. \A k \in DOMAIN c : c[k] = tags[n + 1 - k]
  BY <1>7, <1>8, <1>10, <1>11
<1>14. QED
  BY <1>8, <1>9, <1>12, <1>13 DEF n

\* The layer opened is the one inspect numbers so.
LEMMA LayerDataRows ==
  ASSUME input \in Inputs, input.layer >= 1, input.layer <= Len(image.layers),
         image.layers \in Seq(Seq({h \in Header : WellFormed(h)}))
  PROVE  \E row \in ToSet(LayerData) :
           row.index = input.layer /\ row.digest = Manifest[input.layer]
<1> DEFINE n == Len(image.layers)
           k == input.layer
<1>1. k \in Int /\ n \in Nat /\ DOMAIN image.layers = 1..n
  BY InputFacts
<1>2. k \in 1..n
  BY <1>1
<1> HIDE DEF k, n
<1>3. /\ k \in DOMAIN LayerData
      /\ LayerData[k].index = k /\ LayerData[k].digest = Manifest[k]
  BY <1>1, <1>2 DEF LayerData
<1>4. LayerData[k] \in ToSet(LayerData)
  BY <1>3 DEF ToSet
<1>5. QED
  BY <1>3, <1>4 DEF k

\* Every step keeps DataInv.
LEMMA DataStep ==
  ASSUME DataInv, CommandInv, LoadInv, input \in Inputs, [Next]_vars
  PROVE  DataInv'
<1>1. input' = input
  BY InputStays
<1>2. CASE Execute
  <2>1. UNCHANGED <<data, written, lines, image>>
        /\ (pc' = "exit" \/ (pc = "start" /\ pc' # "done" /\ pc' # "failed")
                         \/ (pc = "start" /\ pc' = "done" /\ input.name = "version"))
    BY <1>2 DEF Execute, UsageError, Start, Render, Report, FirstStep, context, printing
  <2>2. QED
    BY <1>1, <2>1 DEF DataInv, IsSequence, ToSet, BlobIsTheLayerInspected, TagsAreTheLast, Ran
<1>3. CASE /\ Fetching \/ Load \/ NoSuchLayer \/ LoadError \/ Work
           /\ UNCHANGED <<data, written, shown>>
  <2>1. /\ written' = written /\ pc \notin {"done", "failed", "exit"} /\ pc' # "exit"
        /\ pc' = "done" => input.name \in {"ls", "tree", "diff"}
    <3>1. CASE Fetching
      BY <1>3, <3>1 DEF Fetching, FetchImage, BadArgument, ChooseSource, DaemonAnswers,
         DaemonFails, BadPlatform, RegistryAnswers, RegistryFails, Fetched, FetchFailed
    <3>2. CASE Load
      <4>1. /\ pc = "load" /\ input.name \in DOMAIN Works
            /\ (pc' = "fetch" \/ pc' = Works[input.name])
        BY <3>2 DEF Load, Loading
      <4>2. QED
        BY <1>3, <4>1 DEF Works
    <3>3. CASE NoSuchLayer \/ LoadError
      BY <1>3, <3>3 DEF NoSuchLayer, LoadError, Loading, Fail, Works
    <3>4. CASE Work
      BY <1>3, <3>4 DEF Work, List, MapTree, PrintEntry, PrintEnd, Compare, CommandInv
    <3>5. QED
      BY <1>3, <3>1, <3>2, <3>3, <3>4
  <2>2. input.name = "tree" => IsSequence(lines')
    <3>1. CASE PrintEntry
      BY <3>1, AppendIsSequence DEF PrintEntry, DataInv
    <3>2. CASE Compare
      BY <3>2 DEF Compare, CommandInv
    <3>3. CASE ~PrintEntry /\ ~Compare
      <4>1. lines' = lines
        BY <1>3, <3>3 DEF Fetching, Load, NoSuchLayer, LoadError, Fail, Work, List, MapTree,
           PrintEnd, context, printing
      <4>2. QED
        BY <4>1 DEF DataInv
    <3>4. QED
      BY <3>1, <3>2, <3>3
  <2>3. QED
    BY <1>1, <2>1, <2>2 DEF DataInv, BlobIsTheLayerInspected, TagsAreTheLast, Ran, IsSequence
<1>4. CASE (Find \/ Reading) /\ UNCHANGED <<written, shown>>
  <2>1. /\ written' = written /\ lines' = lines /\ pc' \in {"read", "failed", "done"}
        /\ input.name \in {"cat", "cp"} /\ pc \notin {"done", "failed", "exit"}
        /\ pc' = "done" /\ input.name = "cat" => data'.whole = ~input.broken
    BY <1>4 DEF Find, Reading, OpenFile, Copy, ReadFails, Fail, context, printing, CommandInv
  <2>2. QED
    BY <1>1, <2>1 DEF DataInv, BlobIsTheLayerInspected, TagsAreTheLast, Ran, IsSequence
<1>5. CASE Handed
  <2>1. UNCHANGED <<lines, image>> /\ pc \in {"blob", "load", "tags"}
        /\ written = "old" /\ pc' \in {"fetch", "failed", "done"}
    BY <1>5 DEF Handed, Handing, Hand, CheckLayer, NoSuchBlob, OpenBlob, WriteTarball,
       TarballFails, PrintDocument, InspectImage, DocumentError, BadReference, Fail,
       ListTags, TagsFail, context, printing, DataInv
  <2>2. CASE OpenBlob
    <3>1. /\ data' = [blob |-> Manifest[input.layer], whole |-> ~input.broken]
          /\ written' = written /\ input.name = "blob"
          /\ input.layer >= 1 /\ input.layer <= Len(image.layers)
      BY <2>2 DEF OpenBlob, Hand, Handing, CommandInv
    <3>2. \E row \in ToSet(LayerData) :
            row.index = input.layer /\ row.digest = Manifest[input.layer]
      BY <3>1, LayerDataRows DEF LoadInv
    <3>3. LayerData' = LayerData
      BY <1>1, <2>1 DEF LayerData, Manifest
    <3>4. BlobIsTheLayerInspected'
      BY <1>1, <3>1, <3>2, <3>3 DEF BlobIsTheLayerInspected
    <3>5. QED
      BY <1>1, <2>1, <3>1, <3>4 DEF DataInv, TagsAreTheLast, Ran, IsSequence
  <2>3. CASE ListTags
    <3>1. data' = [tags |-> NewestFirst(input.tags)] /\ written' = written /\ input.name = "tags"
      BY <2>3 DEF ListTags, Hand, CommandInv
    <3>2. input.tags \in Seq(STRING) /\ input.limit \in Int
      BY InputFacts
    <3>3. TagsAreTheLast' /\ IsSequence(data'.tags)
      BY <1>1, <3>1, <3>2, NewestFirstAreTheLast DEF TagsAreTheLast
    <3>4. QED
      BY <1>1, <2>1, <3>1, <3>3 DEF DataInv, BlobIsTheLayerInspected, Ran, IsSequence
  <2>4. CASE PrintDocument
    <3>1. /\ data' = [document |-> Served] /\ written' = written
          /\ input.name \in {"manifest", "config"} /\ Served' = Served
      BY <1>1, <2>1, <2>4 DEF PrintDocument, Hand, Served
    <3>2. QED
      BY <1>1, <2>1, <3>1 DEF DataInv, BlobIsTheLayerInspected, TagsAreTheLast, Ran, IsSequence
  <2>5. CASE ~OpenBlob /\ ~ListTags /\ ~PrintDocument
    <3>1. \/ pc' = "done" /\ input.name = "inspect" /\ written' = written
          \/ pc' = "done" /\ input.name = "export" /\ written' = "whole"
          \/ pc' = "failed" /\ (written' = written \/ written' \in {"old", "part"})
          \/ pc' = "fetch" /\ written' = written
      BY <1>5, <2>5 DEF Handed, Handing, Hand, CheckLayer, NoSuchBlob, WriteTarball,
         TarballFails, InspectImage, DocumentError, BadReference, Fail, TagsFail
    <3>2. QED
      BY <1>1, <2>1, <3>1 DEF DataInv, BlobIsTheLayerInspected, TagsAreTheLast, Ran, IsSequence
  <2>6. QED
    BY <2>2, <2>3, <2>4, <2>5
<1>6. CASE UNCHANGED vars
  <2>1. UNCHANGED <<input, pc, image, data, written, lines>>
    BY <1>6 DEF vars, documentVars, commandVars, context, printing
  <2>2. QED
    BY <2>1 DEF DataInv, BlobIsTheLayerInspected, TagsAreTheLast, Ran, IsSequence, Served,
       LayerData, Manifest
<1>7. QED
  BY <1>2, <1>3, <1>4, <1>5, <1>6 DEF Next, Ended

-----------------------------------------------------------------------------
\* What is written.

\* Tuples are sequences.
LEMMA TuplesAreSequences ==
  /\ IsSequence(<< >>) /\ Len(<< >>) = 0
  /\ \A x : IsSequence(<<x>>) /\ Len(<<x>>) = 1 /\ <<x>>[1] = x
  /\ \A x, y : IsSequence(<<x, y>>)
  /\ \A x, y, z : IsSequence(<<x, y, z>>)
<1>1. << >> \in Seq(ToSet(<< >>))
  OBVIOUS
<1>2. \A x : <<x>> \in Seq(ToSet(<<x>>))
  BY DEF ToSet
<1>3. \A x, y : <<x, y>> \in Seq(ToSet(<<x, y>>))
  BY DEF ToSet
<1>4. \A x, y, z : <<x, y, z>> \in Seq(ToSet(<<x, y, z>>))
  BY DEF ToSet
<1>5. QED
  BY <1>1, <1>2, <1>3, <1>4 DEF IsSequence

\* Of some writes the standard output takes as many as there is room for.
LEMMA TakenFacts ==
  ASSUME IsSequence(stdout), Len(stdout) <= input.room, input.room \in Nat,
         NEW writes, IsSequence(writes)
  PROVE  LET m == IF Len(writes) <= room THEN Len(writes) ELSE room
             taken == Taken(writes)
         IN  /\ room \in Nat /\ Len(writes) \in Nat
             /\ IsSequence(taken) /\ Len(taken) = Len(stdout) + m
             /\ Len(taken) <= input.room
             /\ \A k \in 1..Len(stdout) : taken[k] = stdout[k]
             /\ \A k \in 1..m : taken[Len(stdout) + k] = writes[k]
<1> DEFINE m == IF Len(writes) <= room THEN Len(writes) ELSE room
           part == SubSeq(writes, 1, m)
           S == ToSet(writes)
<1>1. Len(stdout) \in Nat /\ Len(writes) \in Nat
  BY SequenceFacts
<1>2. room \in Nat /\ room = input.room - Len(stdout)
  BY <1>1 DEF room
<1>3. Min({room, Len(writes)}) = m
  <2>1. \A x \in {room, Len(writes)} :
          (\A y \in {room, Len(writes)} : x <= y) <=> x = m
    BY <1>1, <1>2
  <2>2. m \in {room, Len(writes)}
    OBVIOUS
  <2> HIDE DEF m
  <2>3. QED
    BY <2>1, <2>2 DEF Min
<1>4. m \in 0..Len(writes) /\ m <= room
  BY <1>1, <1>2
<1>5. Taken(writes) = stdout \o part
  BY <1>3 DEF Taken
<1> HIDE DEF m
<1>6. part \in Seq(S) /\ Len(part) = m /\ \A k \in 1..m : part[k] = writes[k]
  <2>1. writes \in Seq(S)
    BY DEF IsSequence
  <2> HIDE DEF S
  <2>2. QED
    BY <1>1, <1>4, <2>1
<1> HIDE DEF part, S
<1>7. IsSequence(part)
  <2>1. part \in Seq(ToSet(part))
    BY <1>6 DEF ToSet
  <2>2. QED
    BY <2>1 DEF IsSequence
<1>8. /\ IsSequence(stdout \o part) /\ Len(stdout \o part) = Len(stdout) + m
      /\ \A k \in 1..Len(stdout) : (stdout \o part)[k] = stdout[k]
      /\ \A k \in 1..m : (stdout \o part)[Len(stdout) + k] = part[k]
  <2>1. /\ IsSequence(stdout \o part) /\ Len(stdout \o part) = Len(stdout) + Len(part)
        /\ \A k \in 1..Len(stdout) : (stdout \o part)[k] = stdout[k]
        /\ \A k \in 1..Len(part) : (stdout \o part)[Len(stdout) + k] = part[k]
    BY <1>7, ConcatIsSequence
  <2>2. QED
    BY <1>6, <2>1
<1>9. Len(stdout) + m <= input.room
  BY <1>1, <1>2, <1>4
<1>10. QED
  BY <1>1, <1>2, <1>5, <1>6, <1>8, <1>9 DEF m

\* tree prints a line for the root, then the lines it has made.
LEMMA TreeOutputIsSequence ==
  ASSUME DataInv, pc = "done", input.name = "tree"
  PROVE  IsSequence(Output.writes)
<1> DEFINE rest == [k \in DOMAIN lines |-> Printf(lines[k])]
<1>1. Output.writes = <<Printf("root")>> \o rest
  BY DEF Output, Rendering
<1>2. IsSequence(lines)
  BY DEF DataInv
<1>3. Len(lines) \in Nat /\ DOMAIN lines = 1..Len(lines)
  BY <1>2, SequenceFacts
<1>4. IsSequence(rest)
  BY <1>3, FunctionIsSequence
<1> HIDE DEF rest
<1>5. QED
  BY <1>1, <1>4, ConcatIsSequence, TuplesAreSequences

\* The lines of the runtime config are a sequence.
LEMMA ConfigIsSequence == ASSUME NEW config PROVE IsSequence(RenderConfig(config))
<1> DEFINE line(field, value) ==
             IF config[field] = << >> THEN << >>
             ELSE <<Printf([field |-> field, value |-> value])>>
           shell(field) == line(field, ShellJoin(config[field]))
           as(field) == line(field, config[field])
           labels == line("Labels", [k \in DOMAIN config["Labels"] |->
                                       Truncate(config["Labels"][k])])
<1>1. \A s, t : IsSequence(s) /\ IsSequence(t) => IsSequence(s \o t)
  BY ConcatIsSequence
<1>2. \A field, value : IsSequence(line(field, value))
  BY TuplesAreSequences
<1>3. RenderConfig(config) =
        shell("Entrypoint") \o shell("Cmd") \o as("User") \o as("WorkingDir")
          \o as("ExposedPorts") \o as("Volumes") \o as("Env") \o labels
  BY DEF RenderConfig
<1> HIDE DEF line
<1>4. (\A field : IsSequence(shell(field)) /\ IsSequence(as(field))) /\ IsSequence(labels)
  BY <1>2
<1> HIDE DEF shell, as, labels
<1>5. IsSequence(shell("Entrypoint") \o shell("Cmd") \o as("User") \o as("WorkingDir"))
  BY <1>1, <1>4
<1>6. QED
  BY <1>1, <1>3, <1>4, <1>5

\* The writes of a command's data for people are a sequence.
LEMMA HumanOutputIsSequence ==
  ASSUME DataInv, pc = "done", Accepted, viewer.type = "human"
  PROVE  IsSequence(Output.writes)
<1> USE TuplesAreSequences
<1>1. CASE input.name = "ls"
  <2> DEFINE files == {FileInfo(e) : e \in out}
  <2>1. Output.writes = LsHuman(files, input.path, input.pattern)
    BY <1>1 DEF Output, Rendering
  <2> HIDE DEF files
  <2>2. QED
    BY <2>1 DEF LsHuman
<1>2. CASE input.name = "diff"
  <2> DEFINE layers == <<Printf("Layers:"),
                         Flush([k \in DOMAIN lines |-> [marker |-> Marker(lines[k].status),
                                                        digest |-> lines[k].digest]]),
                         Printf("")>>
             files == IF out = {} THEN <<Printf("Files: no changes")>>
                      ELSE <<Printf("Files:"),
                             Flush({[marker |-> Marker(f.status), path |-> f.path,
                                     detail |-> FileDetail(f)] : f \in out}),
                             Printf(Summary(out))>>
  <2>1. Output.writes = DiffHuman(lines, out)
    BY <1>2 DEF Output, Rendering
  <2>2. DiffHuman(lines, out) = layers \o files
    BY DEF DiffHuman
  <2>3. IsSequence(layers) /\ IsSequence(files)
    OBVIOUS
  <2> HIDE DEF layers, files
  <2>4. QED
    BY <2>1, <2>2, <2>3, ConcatIsSequence
<1>3. CASE input.name \in {"cat", "blob"}
  <2>1. Output.writes = <<Write("Copy", data)>>
    BY <1>3 DEF Output, CatHuman, BlobHuman
  <2>2. QED
    BY <2>1
<1>4. CASE input.name = "cp"
  <2> DEFINE files == <<Printf([files |-> data.files,
                                noun |-> IF data.files = 1 THEN "file" ELSE "files"])>>
             skipped == IF data.skipped > 0 THEN <<Printf([skipped |-> data.skipped])>> ELSE << >>
             end == <<Printf("")>>
  <2>1. Output.writes = CpHuman(data)
    BY <1>4 DEF Output, Rendering
  <2>2. CpHuman(data) = files \o skipped \o end
    BY DEF CpHuman
  <2>3. IsSequence(files) /\ IsSequence(skipped) /\ IsSequence(end)
    OBVIOUS
  <2> HIDE DEF files, skipped, end
  <2>4. QED
    BY <2>1, <2>2, <2>3, ConcatIsSequence
<1>5. CASE input.name = "export"
  BY <1>5 DEF Output, ExportHuman, Rendering
<1>6. CASE input.name \in {"manifest", "config"}
  <2>1. Output = RawHuman(data.document, input.valid)
    BY <1>6 DEF Output
  <2>2. QED
    BY <2>1 DEF RawHuman, Rendering
<1>7. CASE input.name = "tags"
  <2>1. Output.writes = TagsHuman(data.tags) /\ IsSequence(data.tags)
    BY <1>7 DEF Output, Rendering, DataInv
  <2>2. Len(data.tags) \in Nat /\ DOMAIN data.tags = 1..Len(data.tags)
    BY <2>1, SequenceFacts
  <2>3. IsSequence([k \in DOMAIN data.tags |-> Printf(data.tags[k])])
    BY <2>2, FunctionIsSequence
  <2>4. QED
    BY <2>1, <2>3 DEF TagsHuman
<1>8. CASE input.name = "inspect"
  <2>1. Output.writes = InspectHuman(data)
    BY <1>8 DEF Output, Rendering
  <2>2. \A s, t : IsSequence(s) /\ IsSequence(t) => IsSequence(s \o t)
    BY ConcatIsSequence
  <2>3. IsSequence(RenderConfig(data.config))
    BY ConfigIsSequence
  <2> DEFINE title == <<Printf("Image:")>>
             layers == <<Printf("Layers:"),
                         Flush([k \in DOMAIN data.layers |->
                                  [index |-> data.layers[k].index,
                                   digest |-> data.layers[k].digest]])>>
             rows == IF AnnotationRows(data.layers) = << >> THEN << >>
                     ELSE <<Printf("Layer annotations:"), Flush(AnnotationRows(data.layers))>>
  <2>4. InspectHuman(data) = title \o RenderConfig(data.config) \o layers \o rows
    BY DEF InspectHuman
  <2>5. IsSequence(title) /\ IsSequence(layers) /\ IsSequence(rows)
    OBVIOUS
  <2> HIDE DEF title, layers, rows
  <2>6. QED
    BY <2>1, <2>2, <2>3, <2>4, <2>5
<1>9. CASE input.name = "version"
  BY <1>9 DEF Output, Rendering, Version
<1>10. CASE input.name = "tree"
  BY <1>10, TreeOutputIsSequence
<1>11. input.name \in DOMAIN AddCommands
  BY DEF Accepted
<1>12. QED
  BY <1>1, <1>2, <1>3, <1>4, <1>5, <1>6, <1>7, <1>8, <1>9, <1>10, <1>11 DEF AddCommands

\* The JSON view makes one write, whose failure is told, or an error.
LEMMA JsonOutput ==
  ASSUME Accepted, viewer.type = "json", input.name \notin {"tree", "version"}
  PROVE  \/ Output = Refusal
         \/ \E w : Output = Rendering(<<w>>) /\ Checked(w) /\ w.call # "Log"
<1>1. \A doc : Checked(Encode(doc)) /\ Encode(doc).call # "Log"
  BY DEF Encode, Write, Checked
<1>2. CASE input.name \in {"export", "blob"}
  BY <1>2 DEF Output, ExportJson, BlobJson
<1>3. CASE input.name \in {"ls", "diff", "cp", "tags", "inspect"}
  <2>1. \E doc : Output = Rendering(<<Encode(doc)>>)
    BY <1>3 DEF Output, LsJson, DiffJson, CpJson, TagsJson, InspectJson
  <2>2. QED
    BY <1>1, <2>1
<1>4. CASE input.name = "cat"
  <2>1. Output = CatJson(data)
    BY <1>4 DEF Output
  <2>2. QED
    BY <1>1, <2>1 DEF CatJson
<1>5. CASE input.name \in {"manifest", "config"}
  <2>1. Output = RawJson(data.document)
    BY <1>5 DEF Output
  <2>2. QED
    BY <2>1 DEF RawJson, Write, Checked
<1>6. input.name \in DOMAIN AddCommands
  BY DEF Accepted
<1>7. QED
  BY <1>2, <1>3, <1>4, <1>5, <1>6 DEF AddCommands

-----------------------------------------------------------------------------
\* What is shown.

\* The log level is one of three, and debug logs show at one of them only.
LEMMA LevelFacts ==
  /\ LogLevel \in {"debug", "info", "silent"}
  /\ Logs(LogLevel, "debug") <=> LogLevel = "debug"
<1>1. LogLevel \in {"debug", "info", "silent"}
  BY DEF LogLevel
<1>2. Severity["debug"] = -4 /\ Severity["info"] = 0
  BY DEF Severity
<1>3. ~(-4 >= 0) /\ -4 >= -4
  OBVIOUS
<1>4. QED
  BY <1>1, <1>2, <1>3 DEF Logs

\* Before anything is rendered there is a log on the standard output, or nothing.
LEMMA StdoutBefore ==
  ASSUME ShownInv, input \in Inputs, pc # "exit"
  PROVE  /\ IsSequence(stdout) /\ Len(stdout) \in 0..1 /\ Len(stdout) <= input.room
         /\ \A k \in DOMAIN stdout : stdout[k].call = "Log"
         /\ viewer.level # "debug" => stdout = << >>
<1>1. input.room \in Nat
  BY InputFacts
<1>2. CASE stdout = << >>
  BY <1>1, <1>2, TuplesAreSequences
<1>3. CASE stdout = <<Write("Log", "debug")>> /\ viewer.level = "debug" /\ input.room > 0
  <2>1. IsSequence(stdout) /\ Len(stdout) = 1 /\ stdout[1] = Write("Log", "debug")
    BY <1>3, TuplesAreSequences
  <2>2. DOMAIN stdout = 1..1
    BY <2>1, SequenceFacts
  <2>3. \A k \in DOMAIN stdout : stdout[k].call = "Log"
    BY <2>1, <2>2 DEF Write
  <2>4. QED
    BY <1>1, <1>3, <2>1, <2>3
<1>4. QED
  BY <1>2, <1>3 DEF ShownInv

\* Nothing is shown, and nothing begins or ends, but where a command line is
\* refused, a command started, its data rendered or its failure reported.
LEMMA QuietSteps ==
  ASSUME ~Execute, [Next]_vars
  PROVE  /\ UNCHANGED shown
         /\ pc' # pc => pc \notin {"start", "exit"} /\ pc' \notin {"start", "exit"}
         /\ pc = "exit" => UNCHANGED vars
<1>1. UNCHANGED shown
  BY DEF Next, Ended, vars
<1>2. CASE Fetching
  BY <1>1, <1>2 DEF Fetching, FetchImage, BadArgument, ChooseSource, DaemonAnswers,
     DaemonFails, BadPlatform, RegistryAnswers, RegistryFails, Fetched, FetchFailed
<1>3. CASE Load
  <2>1. /\ pc = "load" /\ input.name \in DOMAIN Works
        /\ (pc' = "fetch" \/ pc' = Works[input.name])
    BY <1>3 DEF Load, Loading
  <2>2. pc' \notin {"start", "exit"}
    BY <2>1 DEF Works
  <2>3. QED
    BY <1>1, <2>1, <2>2
<1>4. CASE NoSuchLayer \/ LoadError \/ Work \/ Find \/ Reading \/ Handed
  BY <1>1, <1>4 DEF NoSuchLayer, LoadError, Loading, Fail, Work, List, MapTree, PrintEntry,
     PrintEnd, Compare, Find, Reading, OpenFile, Copy, ReadFails, Handed, Handing, Hand,
     CheckLayer, NoSuchBlob, OpenBlob, WriteTarball, TarballFails, PrintDocument,
     InspectImage, DocumentError, BadReference, ListTags, TagsFail
<1>5. CASE UNCHANGED vars
  BY <1>1, <1>5 DEF vars, documentVars, commandVars
<1>6. QED
  BY <1>2, <1>3, <1>4, <1>5 DEF Next, Ended

\* Every step keeps ShownInv.
LEMMA ShownStep ==
  ASSUME ShownInv, input \in Inputs, [Next]_vars
  PROVE  ShownInv'
<1>1. input' = input
  BY InputStays
<1>2. LogLevel' = LogLevel
  BY <1>1 DEF LogLevel
<1>3. CASE Start
  <2> DEFINE log == <<Write("Log", "debug")>>
  <2>1. /\ pc = "start" /\ pc' \notin {"start", "exit"}
        /\ viewer' = [type |-> IF "json" \in input.flags THEN "json" ELSE "human",
                      level |-> LogLevel]
        /\ stdout' = IF Logs(LogLevel, "debug") /\ input.name # "version"
                     THEN Taken(log) ELSE stdout
    BY <1>3 DEF Start, FirstStep, Accepted
  <2>2. stdout = << >>
    BY <2>1 DEF ShownInv
  <2>3. input.room \in Nat /\ IsSequence(stdout) /\ Len(stdout) = 0
    BY <2>2, InputFacts, TuplesAreSequences
  <2>4. room = input.room
    BY <2>3 DEF room
  <2>5. IsSequence(log) /\ Len(log) = 1 /\ log[1] = Write("Log", "debug")
    BY TuplesAreSequences
  <2> HIDE DEF log
  <2>6. /\ IsSequence(Taken(log))
        /\ Len(Taken(log)) = Len(stdout) + IF Len(log) <= room THEN Len(log) ELSE room
        /\ \A k \in 1..(IF Len(log) <= room THEN Len(log) ELSE room) :
             Taken(log)[Len(stdout) + k] = log[k]
    <3>1. Len(stdout) <= input.room
      BY <2>3
    <3>2. QED
      BY <2>3, <2>5, <3>1, TakenFacts
  <2>7. CASE input.room > 0
    <3>1. Len(Taken(log)) = 1 /\ Taken(log)[1] = log[1]
      BY <2>3, <2>4, <2>5, <2>6, <2>7
    <3>2. DOMAIN Taken(log) = 1..1
      BY <2>6, <3>1, SequenceFacts
    <3>3. Taken(log) \in Seq(ToSet(Taken(log)))
      BY <2>6 DEF IsSequence
    <3>4. Taken(log) = <<log[1]>>
      BY <3>1, <3>3
    <3>5. QED
      BY <1>1, <1>2, <2>1, <2>2, <2>5, <2>7, <3>4, LevelFacts DEF ShownInv
  <2>8. CASE ~(input.room > 0)
    <3>1. Len(Taken(log)) = 0
      BY <2>3, <2>4, <2>5, <2>6, <2>8
    <3>2. Taken(log) = << >>
      BY <2>6, <3>1, SequenceFacts
    <3>3. QED
      BY <1>1, <1>2, <2>1, <2>2, <3>2 DEF ShownInv
  <2>9. QED
    BY <2>7, <2>8
<1>4. CASE UsageError \/ Render \/ Report
  <2>1. pc' = "exit"
    BY <1>4 DEF UsageError, Render, Report
  <2>2. QED
    BY <2>1 DEF ShownInv
<1>5. CASE ~Execute
  <2>1. UNCHANGED shown /\ (pc' # pc => pc \notin {"start", "exit"} /\ pc' \notin {"start", "exit"})
    BY <1>5, QuietSteps
  <2>2. viewer' = viewer /\ stdout' = stdout
    BY <2>1 DEF shown
  <2>3. QED
    BY <1>1, <1>2, <2>1, <2>2 DEF ShownInv
<1>6. QED
  BY <1>3, <1>4, <1>5 DEF Execute

\* What the exit status and the standard output say once a command has rendered.
LEMMA RenderTells ==
  ASSUME CommandInv, DataInv, ShownInv, input \in Inputs, Render
  PROVE  /\ exit' \in {0, 1} /\ Len(stdout') <= input.room
         /\ JsonIsAllOrNothing' /\ ExactBytes' /\ ExportTells'
<1> DEFINE n == Len(stdout)
           W == Output.writes
           m == IF Len(W) <= room THEN Len(W) ELSE room
           lost == \E k \in DOMAIN W : k > room /\ Checked(W[k])
<1>1. /\ pc = "done" /\ Accepted /\ input' = input /\ image' = image
      /\ data' = data /\ viewer' = viewer /\ written' = written
      /\ out' = out /\ lines' = lines
      /\ stdout' = Taken(W) /\ exit' = IF Output.error \/ lost THEN 1 ELSE 0
  BY DEF Render, CommandInv, context, printing
<1>2. Output' = Output
  BY <1>1 DEF Output
<1>3. /\ IsSequence(stdout) /\ n \in 0..1 /\ n <= input.room /\ input.room \in Nat
      /\ \A k \in DOMAIN stdout : stdout[k].call = "Log"
      /\ viewer.level # "debug" => n = 0
  BY <1>1, StdoutBefore, InputFacts, TuplesAreSequences
<1>4. viewer.type = IF "json" \in input.flags THEN "json" ELSE "human"
  BY <1>1 DEF ShownInv
<1>5. viewer.type = "json" /\ input.name \notin {"tree", "version"} =>
        \/ Output = Refusal
        \/ \E w : Output = Rendering(<<w>>) /\ Checked(w) /\ w.call # "Log"
  BY <1>1, JsonOutput
<1>6. IsSequence(W)
  <2>1. CASE viewer.type = "human"
    BY <1>1, <2>1, HumanOutputIsSequence
  <2>2. CASE viewer.type = "json" /\ input.name \notin {"tree", "version"}
    BY <1>5, <2>2, TuplesAreSequences DEF Refusal, Rendering
  <2>3. CASE input.name = "version"
    BY <2>3, TuplesAreSequences DEF Output, Rendering, Version
  <2>4. CASE input.name = "tree"
    BY <1>1, <2>4, TreeOutputIsSequence
  <2>5. QED
    BY <1>4, <2>1, <2>2, <2>3, <2>4
<1>7. /\ room \in Nat /\ Len(W) \in Nat
      /\ IsSequence(stdout') /\ Len(stdout') = n + m /\ Len(stdout') <= input.room
      /\ \A k \in 1..n : stdout'[k] = stdout[k]
      /\ \A k \in 1..m : stdout'[n + k] = W[k]
  BY <1>1, <1>3, <1>6, TakenFacts
<1>8. DOMAIN stdout = 1..n /\ DOMAIN stdout' = 1..Len(stdout')
  BY <1>3, <1>7, SequenceFacts
\* A view that makes one write and looks at its error.
<1>9. ASSUME NEW w, W = <<w>>, Checked(w)
      PROVE  \/ /\ room >= 1 /\ Len(stdout') = n + 1 /\ stdout'[n + 1] = w
                /\ exit' = IF Output.error THEN 1 ELSE 0
             \/ Len(stdout') = n /\ exit' = 1
  <2>1. Len(W) = 1 /\ DOMAIN W = 1..1 /\ W[1] = w
    BY <1>9, TuplesAreSequences, SequenceFacts
  <2>2. CASE room >= 1
    <3>1. m = 1 /\ ~lost
      BY <1>7, <2>1, <2>2
    <3>2. QED
      BY <1>1, <1>7, <2>1, <2>2, <3>1
  <2>3. CASE ~(room >= 1)
    <3>1. m = 0 /\ lost
      BY <1>7, <1>9, <2>1, <2>3
    <3>2. QED
      BY <1>1, <1>3, <1>7, <3>1
  <2>4. QED
    BY <2>2, <2>3
<1>10. JsonIsAllOrNothing'
  <2> SUFFICES ASSUME viewer.type = "json", input.name \notin {"tree", "version"}
               PROVE  IF exit' = 0
                      THEN \E k \in DOMAIN stdout' : Payload' = {k} /\ W = <<stdout'[k]>>
                      ELSE Payload' = {}
    BY <1>1, <1>2 DEF JsonIsAllOrNothing
  <2>1. CASE Output = Refusal
    <3>1. Len(W) = 0 /\ Output.error
      BY <2>1, TuplesAreSequences DEF Refusal
    <3>2. exit' = 1 /\ Len(stdout') = n
      BY <1>1, <1>3, <1>7, <3>1
    <3>3. Payload' = {}
      BY <1>3, <1>7, <1>8, <3>2 DEF Payload
    <3>4. QED
      BY <3>2, <3>3
  <2>2. ASSUME NEW w, Output = Rendering(<<w>>), Checked(w), w.call # "Log"
        PROVE  IF exit' = 0
               THEN \E k \in DOMAIN stdout' : Payload' = {k} /\ W = <<stdout'[k]>>
               ELSE Payload' = {}
    <3>1. W = <<w>> /\ ~Output.error
      BY <2>2 DEF Rendering
    <3>2. CASE Len(stdout') = n + 1 /\ stdout'[n + 1] = w /\ exit' = 0
      <4>1. n + 1 \in DOMAIN stdout' /\ W = <<stdout'[n + 1]>>
        BY <1>3, <1>8, <3>1, <3>2
      <4>2. \A k \in DOMAIN stdout' : stdout'[k].call # "Log" <=> k = n + 1
        <5> TAKE k \in DOMAIN stdout'
        <5>1. k \in 1..n \/ (k = n + 1 /\ k \notin 1..n)
          BY <1>3, <1>8, <3>2
        <5>2. QED
          BY <1>3, <1>7, <1>8, <2>2, <3>2, <5>1
      <4>3. Payload' = {n + 1}
        BY <4>1, <4>2 DEF Payload
      <4>4. QED
        BY <3>2, <4>1, <4>3
    <3>3. CASE Len(stdout') = n /\ exit' = 1
      <4>1. Payload' = {}
        BY <1>3, <1>7, <1>8, <3>3 DEF Payload
      <4>2. QED
        BY <3>3, <4>1
    <3>4. QED
      BY <1>9, <2>2, <3>1, <3>2, <3>3
  <2>3. QED
    BY <1>5, <2>1, <2>2
<1>11. ExactBytes'
  <2> SUFFICES ASSUME exit' = 0, viewer.level # "debug"
               PROVE
                 /\ input.name \in {"manifest", "config"} /\ viewer.type = "json" =>
                      /\ Len(stdout') = 1
                      /\ stdout'[1].text = [doc |-> [of |-> input.name, image |-> image],
                                            indented |-> FALSE, newline |-> FALSE]
                 /\ input.name \in {"cat", "blob"} /\ viewer.type = "human" =>
                      Len(stdout') = 1 /\ stdout'[1].text = data /\ data.whole
    BY <1>1 DEF ExactBytes
  <2>1. n = 0
    BY <1>3
  <2>2. CASE input.name \in {"manifest", "config"} /\ viewer.type = "json"
    <3> DEFINE text == [doc |-> Served, indented |-> FALSE, newline |-> FALSE]
               w == Write("Write", text)
    <3>1. data.document = Served
      BY <1>1, <2>2 DEF DataInv
    <3>2. Output = RawJson(data.document)
      BY <2>2 DEF Output
    <3>3. W = <<w>>
      BY <3>1, <3>2 DEF RawJson, Rendering
    <3>4. Checked(w) /\ w.text = text
      BY DEF Checked, Write
    <3> HIDE DEF w
    <3>5. Len(stdout') = 1 /\ stdout'[1] = w
      BY <1>9, <2>1, <3>3, <3>4
    <3>6. QED
      BY <2>2, <3>4, <3>5 DEF Served
  <2>3. CASE input.name \in {"cat", "blob"} /\ viewer.type = "human"
    <3> DEFINE w == Write("Copy", data)
    <3>1. Output = CatHuman(data)
      BY <2>3 DEF Output, BlobHuman
    <3>2. W = <<w>> /\ Output.error = ~data.whole
      BY <3>1 DEF CatHuman
    <3>3. Checked(w) /\ w.text = data
      BY DEF Checked, Write
    <3> HIDE DEF w
    <3>4. Len(stdout') = 1 /\ stdout'[1] = w /\ ~Output.error
      BY <1>9, <2>1, <3>2, <3>3
    <3>5. QED
      BY <2>3, <3>2, <3>3, <3>4
  <2>4. QED
    BY <2>2, <2>3
<1>12. ExportTells'
  <2>1. CASE input.name = "export"
    <3>1. written' = "whole"
      BY <1>1, <2>1 DEF DataInv
    <3>2. CASE viewer.type = "human"
      <4>1. Output = ExportHuman(data)
        BY <2>1, <3>2 DEF Output
      <4>2. ~Output.error /\ W = <<Printf(data)>>
        BY <4>1 DEF ExportHuman, Rendering
      <4>3. DOMAIN W = 1..1 /\ W[1] = Printf(data)
        BY <4>2, TuplesAreSequences, SequenceFacts
      <4>4. ~Checked(Printf(data))
        BY DEF Checked, Printf, Write
      <4>5. ~lost
        BY <4>3, <4>4
      <4>6. exit' = 0
        BY <1>1, <4>2, <4>5
      <4>7. QED
        BY <3>1, <4>6 DEF ExportTells
    <3>3. CASE viewer.type = "json"
      BY <1>1, <3>1, <3>3 DEF ExportTells
    <3>4. QED
      BY <1>4, <3>2, <3>3
  <2>2. CASE input.name # "export"
    BY <1>1, <2>2 DEF ExportTells
  <2>3. QED
    BY <2>1, <2>2
<1>13. QED
  BY <1>1, <1>7, <1>10, <1>11, <1>12

-----------------------------------------------------------------------------
\* Nothing is drawn or left to draw before a command has its data.
LEMMA LinesStep ==
  ASSUME pc \notin {"print", "done", "exit"} => lines = << >> /\ todo = << >>,
         [Next]_vars
  PROVE  pc' \notin {"print", "done", "exit"} => lines' = << >> /\ todo' = << >>
<1>1. CASE Fetching \/ NoSuchLayer \/ LoadError \/ Find \/ Reading \/ Handed
  <2>1. UNCHANGED <<lines, todo>> /\ pc \notin {"print", "done", "exit"}
    BY <1>1 DEF Fetching, FetchImage, BadArgument, ChooseSource, DaemonAnswers,
       DaemonFails, BadPlatform, RegistryAnswers, RegistryFails,
       NoSuchLayer, LoadError, Loading, Fail, Find, Reading, OpenFile, Copy, ReadFails, Handed,
       Handing, CheckLayer, NoSuchBlob, OpenBlob, WriteTarball, TarballFails, PrintDocument,
       InspectImage, DocumentError, BadReference, ListTags, TagsFail, context, printing
  <2>2. QED
    BY <2>1
<1>2. CASE Load
  <2>1. UNCHANGED <<lines, todo>> /\ pc = "load"
    BY <1>2 DEF Load, Loading, printing
  <2>2. QED
    BY <2>1
<1>3. CASE Work
  BY <1>3 DEF Work, List, MapTree, PrintEntry, PrintEnd, Compare, context, printing
<1>4. CASE Execute
  <2>1. UNCHANGED <<lines, todo>> /\ (pc = "start" \/ pc' = "exit")
    BY <1>4 DEF Execute, UsageError, Start, Render, Report, context, printing
  <2>2. QED
    BY <2>1
<1>5. CASE UNCHANGED vars
  BY <1>5 DEF vars, documentVars, commandVars, context, printing
<1>6. QED
  BY <1>1, <1>2, <1>3, <1>4, <1>5 DEF Next, Ended

\* Nobody is asked more than twice for an image.
LEMMA AskedStep ==
  ASSUME Len(asked) <= 2 * Len(input.refs), LoadInv, LoadInv', FetchInv, CommandInv,
         input \in Inputs, [Next]_vars
  PROVE  Len(asked') <= 2 * Len(input.refs)
<1>1. input' = input
  BY InputStays
<1>2. Len(asked) \in Nat /\ Len(loaded) \in Nat /\ Len(input.refs) \in Nat
  BY SequenceFacts, InputFacts DEF LoadInv, FetchInv
<1>3. CASE Fetching \/ ListTags \/ TagsFail
  <2>1. pc \in {"fetch", "daemon", "registry", "tags"}
    BY <1>3 DEF Fetching, FetchImage, BadArgument, ChooseSource, DaemonAnswers,
               DaemonFails, BadPlatform, RegistryAnswers, RegistryFails, ListTags, TagsFail
  <2>2. asked' = asked \/ \E w, g : Ask(w, g)
    BY <1>3 DEF Fetching, FetchImage, BadArgument, ChooseSource, DaemonAnswers,
               DaemonFails, BadPlatform, RegistryAnswers, RegistryFails, ListTags, TagsFail
  <2>3. asked' = asked \/ Len(asked') = Len(asked) + 1
    BY <2>2, AskedCounts
  <2>4. Len(loaded) < Len(input.refs) /\ Len(asked) <= 2 * Len(loaded) + 1
    BY <1>2, <2>1 DEF LoadInv
  <2> DEFINE a == Len(asked)
             l == Len(loaded)
             r == Len(input.refs)
  <2>5. a \in Nat /\ l \in Nat /\ r \in Nat /\ l < r /\ a <= 2 * l + 1 /\ a <= 2 * r
    BY <1>2, <2>4
  <2> HIDE DEF a, l, r
  <2>6. a + 1 <= 2 * r
    BY <2>5
  <2>7. QED
    BY <2>3, <2>6 DEF a, r
<1>4. CASE Load \/ NoSuchLayer \/ LoadError \/ Work \/ Find \/ Reading \/ Execute
  BY <1>4 DEF Load, NoSuchLayer, LoadError, Fail, Work, List, MapTree, PrintEntry,
     PrintEnd, Compare, Find, Reading, OpenFile, Copy, ReadFails, context, Execute,
     UsageError, Start, Render, Report
<1>5. CASE Handed /\ ~ListTags /\ ~TagsFail
  BY <1>5 DEF Handed, CheckLayer, NoSuchBlob, OpenBlob, WriteTarball, TarballFails,
     PrintDocument, InspectImage, DocumentError, BadReference, Fail, context
<1>6. CASE UNCHANGED vars
  BY <1>6 DEF vars, documentVars, commandVars, context
<1>7. QED
  BY <1>3, <1>4, <1>5, <1>6 DEF Next, Ended

\* What the exit status and the standard output are, with a step.
LEMMA ExitStep ==
  ASSUME CommandInv, DataInv, ShownInv, ShownInv', input \in Inputs, [Next]_vars,
         exit \in {-1, 0, 1} /\ (exit = -1 <=> pc # "exit"), Len(stdout) <= input.room,
         written \in {"old", "part", "whole"},
         JsonIsAllOrNothing, ExactBytes, ExportTells
  PROVE  /\ exit' \in {-1, 0, 1} /\ (exit' = -1 <=> pc' # "exit")
         /\ Len(stdout') <= input.room
         /\ JsonIsAllOrNothing' /\ ExactBytes' /\ ExportTells'
<1>1. input' = input
  BY InputStays
<1>2. CASE Render
  <2>1. pc' = "exit"
    BY <1>2 DEF Render
  <2>2. QED
    BY <1>2, <2>1, RenderTells
<1>3. CASE UsageError \/ Report
  <2>1. /\ pc \in {"start", "failed"} /\ pc' = "exit" /\ exit' = 1
        /\ stdout' = stdout /\ viewer' = viewer /\ written' = written
    BY <1>3 DEF UsageError, Report
  <2>2. \A k \in DOMAIN stdout : stdout[k].call = "Log"
    BY <2>1, StdoutBefore
  <2>3. Payload' = {}
    BY <2>1, <2>2 DEF Payload
  <2>4. JsonIsAllOrNothing'
    BY <2>1, <2>3 DEF JsonIsAllOrNothing
  <2>5. ExactBytes'
    BY <2>1 DEF ExactBytes
  <2>6. input.name = "export" => written' # "whole"
    BY <2>1 DEF DataInv
  <2>7. ExportTells'
    BY <1>1, <2>1, <2>6 DEF ExportTells
  <2>8. QED
    BY <2>1, <2>4, <2>5, <2>7
<1>4. CASE UNCHANGED vars
  <2>1. UNCHANGED <<input, pc, image, lines, out, data, written, viewer, stdout, exit>>
    BY <1>4 DEF vars, documentVars, commandVars, context, printing, shown
  <2>2. Output' = Output /\ Payload' = Payload
    BY <2>1 DEF Output, Payload
  <2>3. JsonIsAllOrNothing'
    BY <2>1, <2>2 DEF JsonIsAllOrNothing
  <2>4. ExactBytes' /\ ExportTells'
    BY <2>1 DEF ExactBytes, ExportTells
  <2>5. QED
    BY <2>1, <2>3, <2>4
<1>5. CASE ~UsageError /\ ~Report /\ ~Render /\ ~UNCHANGED vars
  <2>1. CASE Start
    <3>1. pc # "exit" /\ pc' # "exit" /\ exit' = exit
      BY <2>1 DEF Start, FirstStep, Accepted
    <3>2. Len(stdout') <= input.room
      <4>1. CASE stdout' = << >>
        BY <1>1, <4>1, InputFacts
      <4>2. CASE stdout' = <<Write("Log", "debug")>> /\ input.room > 0
        BY <4>2, InputFacts
      <4>3. QED
        BY <1>1, <3>1, <4>1, <4>2 DEF ShownInv
    <3>3. QED
      BY <3>1, <3>2 DEF JsonIsAllOrNothing, ExactBytes, ExportTells
  <2>2. CASE ~Start
    <3>1. UNCHANGED shown /\ pc # "exit" /\ pc' # "exit"
      BY <1>5, <2>2, QuietSteps DEF Execute
    <3>2. QED
      BY <3>1 DEF shown, JsonIsAllOrNothing, ExactBytes, ExportTells
  <2>3. QED
    BY <2>1, <2>2
<1>6. QED
  BY <1>2, <1>3, <1>4, <1>5

\* The images loaded are counted, with a step too.
LEMMA LoadedCount == LoadInv' => Len(loaded') \in Nat
BY DEF LoadInv, IsSequence

\* The tarball is written by export only.
LEMMA WrittenStays ==
  ASSUME [Next]_vars, Fetching \/ Load \/ NoSuchLayer \/ LoadError \/ Work \/ Find \/ Reading
  PROVE  written' = written
<1>1. CASE Handed
  <2>1. pc \in {"blob", "tags"} \/ (pc = "load" /\ input.name \notin DOMAIN Works)
    BY <1>1 DEF Handed, Handing, CheckLayer, NoSuchBlob, OpenBlob, WriteTarball, TarballFails,
       PrintDocument, InspectImage, DocumentError, BadReference, ListTags, TagsFail
  <2>2. pc \notin {"blob", "tags"} /\ (pc = "load" => input.name \in DOMAIN Works)
    BY DEF Fetching, FetchImage, BadArgument, ChooseSource, DaemonAnswers,
       DaemonFails, BadPlatform, RegistryAnswers, RegistryFails, Load, NoSuchLayer, LoadError,
       Loading, Work, List, MapTree, PrintEntry, PrintEnd, Compare, Find, Reading, OpenFile,
       Copy, ReadFails
  <2>3. QED
    BY <2>1, <2>2
<1>2. CASE Execute
  BY <1>2 DEF Execute, UsageError, Start, Render, Report
<1>3. CASE ~Handed /\ ~Execute
  BY <1>3 DEF Next, Ended, vars, documentVars
<1>4. QED
  BY <1>1, <1>2, <1>3

\* Every step keeps TypeOK.
LEMMA TypeStep ==
  ASSUME IInv, CommandInv', LoadInv', ShownInv', exit' \in {-1, 0, 1},
         exit' = -1 <=> pc' # "exit", Len(stdout') <= input.room, input \in Inputs, [Next]_vars
  PROVE  TypeOK'
<1>1. input' = input
  BY InputStays
<1>2. /\ pc' \in {"start", "fetch", "daemon", "registry", "load", "list", "map", "print",
                  "compare", "find", "read", "blob", "tags", "done", "failed", "exit"}
      /\ ref' \in ToSet(input.refs)
      /\ written' \in {"old", "part", "whole"}
      /\ viewer'.type \in {"human", "json"} /\ viewer'.level \in DOMAIN Severity
  <2>1. /\ pc \in {"start", "fetch", "daemon", "registry", "load", "list", "map", "print",
                   "compare", "find", "read", "blob", "tags", "done", "failed", "exit"}
        /\ ref \in ToSet(input.refs) /\ written \in {"old", "part", "whole"}
        /\ viewer.type \in {"human", "json"} /\ viewer.level \in DOMAIN Severity
    BY DEF IInv, TypeOK
  <2>2. CASE Execute
    <3>1. ref' = ref /\ written' = written
      BY <2>2 DEF Execute, UsageError, Start, Render, Report, context
    <3>2. pc' \in {"done", "tags", "blob", "fetch", "exit"}
      BY <2>2 DEF Execute, UsageError, Start, Render, Report, FirstStep
    <3>3. CASE Start
      <4>1. viewer' = [type |-> IF "json" \in input.flags THEN "json" ELSE "human",
                       level |-> LogLevel]
        BY <3>3 DEF Start
      <4>2. QED
        BY <2>1, <3>1, <3>2, <4>1, LevelFacts DEF Severity
    <3>4. CASE UsageError \/ Render \/ Report
      BY <2>1, <3>1, <3>2, <3>4 DEF UsageError, Render, Report
    <3>5. QED
      BY <2>2, <3>3, <3>4 DEF Execute
  <2>3. CASE ~Execute
    <3>1. viewer' = viewer
      BY <2>3, QuietSteps DEF shown
    <3>2. CASE Fetching
      BY <2>1, <3>1, <3>2, WrittenStays DEF Fetching, FetchImage, BadArgument,
         ChooseSource, DaemonAnswers, DaemonFails, BadPlatform, RegistryAnswers,
         RegistryFails, Fetched, FetchFailed
    <3>3. CASE Load
      <4>1. /\ input.name \in DOMAIN Works
            /\ (pc' = "fetch" \/ pc' = Works[input.name])
            /\ (ref' = ref \/ (ref' = input.refs[Len(loaded') + 1]
                                  /\ Len(loaded') < Len(input.refs)))
        BY <3>3 DEF Load, Loading
      <4>2. pc' \in {"fetch", "list", "map", "compare", "find"}
        BY <4>1 DEF Works
      <4>3. ref' \in ToSet(input.refs)
        <5>1. Len(loaded') \in Nat /\ DOMAIN input.refs = 1..Len(input.refs)
              /\ Len(input.refs) \in Nat
          BY InputFacts, LoadedCount
        <5>2. QED
          BY <2>1, <4>1, <5>1 DEF ToSet
      <4>4. QED
        BY <2>1, <3>1, <4>2, <4>3, WrittenStays, <3>3
    <3>4. CASE NoSuchLayer \/ LoadError \/ Work \/ Find \/ Reading
      <4>1. ref' = ref /\ pc' \in {"failed", "done", "print", "read"}
        BY <3>4 DEF NoSuchLayer, LoadError, Fail, Work, List, MapTree, PrintEntry,
           PrintEnd, Compare, Find, Reading, OpenFile, Copy, ReadFails, context
      <4>2. written' = written
        BY <3>4, WrittenStays
      <4>3. QED
        BY <2>1, <3>1, <4>1, <4>2
    <3>5. CASE Handed
      BY <2>1, <3>1, <3>5 DEF Handed, Handing, Hand, CheckLayer, NoSuchBlob, OpenBlob,
         WriteTarball, TarballFails, PrintDocument, InspectImage, DocumentError,
         BadReference, Fail, ListTags, TagsFail, context
    <3>6. CASE UNCHANGED vars
      BY <2>1, <3>6 DEF vars, documentVars, commandVars, context, shown
    <3>7. QED
      BY <2>3, <3>2, <3>3, <3>4, <3>5, <3>6 DEF Next, Ended
  <2>4. QED
    BY <2>2, <2>3
<1>3. Len(asked') <= 2 * Len(input.refs)
  <2>1. /\ Len(asked) <= 2 * Len(input.refs) /\ LoadInv /\ FetchInv /\ CommandInv
    BY DEF IInv, TypeOK
  <2>2. QED
    BY <2>1, AskedStep
<1>4. pc' \notin {"print", "done", "exit"} => lines' = << >> /\ todo' = << >>
  <2>1. pc \notin {"print", "done", "exit"} => lines = << >> /\ todo = << >>
    BY DEF IInv, TypeOK
  <2>2. QED
    BY <2>1, LinesStep
<1>5. \A k \in DOMAIN loaded' : {e.path : e \in loaded'[k].entries} \subseteq Path
  <2>1. \A k \in DOMAIN loaded' : \A e \in loaded'[k].entries : e.path \in Path \ {Root}
    BY DEF LoadInv, WellMerged
  <2>2. QED
    BY <2>1
<1>6. Len(loaded') < Len(input.refs) /\ input.name \in DOMAIN Works =>
        pc' \in {"start", "fetch", "daemon", "registry", "load", "failed", "exit"}
  <2>1. Len(loaded') \in Nat /\ Len(input.refs) \in Nat
    BY InputFacts, LoadedCount
  <2>2. pc' \in {"tags", "blob"} => input.name = pc'
    BY <1>1 DEF CommandInv
  <2>3. pc' \in {"list", "map", "print", "compare", "find", "read"}
          \/ (pc' = "done" /\ input.name \in DOMAIN Works) => Len(loaded') = Len(input.refs)
    BY <1>1 DEF LoadInv
  <2>4. QED
    BY <1>2, <2>1, <2>2, <2>3 DEF Works
<1>7. pc' # "exit" => Len(stdout') <= 1 /\ \A k \in DOMAIN stdout' : stdout'[k].call = "Log"
  <2>1. CASE stdout' = << >>
    BY <2>1
  <2>2. CASE stdout' = <<Write("Log", "debug")>>
    BY <2>2 DEF Write
  <2>3. QED
    BY <2>1, <2>2 DEF ShownInv
<1>8. QED
  BY <1>1, <1>2, <1>3, <1>4, <1>5, <1>6, <1>7 DEF TypeOK

-----------------------------------------------------------------------------
\* The first state satisfies the invariant.
LEMMA InitHolds == Init => IInv /\ input \in Inputs
<1> SUFFICES ASSUME Init PROVE IInv /\ input \in Inputs
  OBVIOUS
<1>1. input \in Inputs /\ pc = "start"
  BY DEF Init
<1>2. IsSequence(asked) /\ IsSequence(loaded) /\ IsSequence(lines)
      /\ Len(asked) = 0 /\ Len(loaded) = 0 /\ Len(stdout) = 0
      /\ DOMAIN loaded = {} /\ DOMAIN asked = {} /\ DOMAIN stdout = {}
  BY TuplesAreSequences DEF Init
<1>3. Len(input.refs) \in Nat \ {0} /\ input.refs \in Seq(STRING) /\ input.room \in Nat
  BY <1>1, InputFacts
<1>4. ref \in ToSet(input.refs)
  <2>1. ref = input.refs[1] /\ 1 \in DOMAIN input.refs
    BY <1>3 DEF Init
  <2>2. QED
    BY <2>1 DEF ToSet
<1>5. TypeOK
  BY <1>1, <1>2, <1>3, <1>4 DEF Init, TypeOK, Severity
<1>6. CommandInv
  BY <1>1 DEF CommandInv
<1>7. FetchInv
  BY <1>1, <1>2 DEF Init, FetchInv, RegistryOnlyWhenNeeded
<1>8. image.layers \in Seq(Seq({h \in Header : WellFormed(h)}))
  <2>1. image.layers = << >>
    BY DEF Init, NoImage
  <2>2. \A S : << >> \in Seq(S)
    OBVIOUS
  <2>3. QED
    BY <2>1, <2>2
<1>9. LoadInv
  BY <1>1, <1>2, <1>3, <1>8 DEF LoadInv
<1>10. DataInv
  BY <1>1, <1>2 DEF Init, DataInv, BlobIsTheLayerInspected, TagsAreTheLast, Ran
<1>11. ShownInv
  BY <1>1 DEF Init, ShownInv
<1>12. JsonIsAllOrNothing /\ ExactBytes /\ ExportTells
  BY <1>1 DEF JsonIsAllOrNothing, ExactBytes, ExportTells
<1>13. QED
  BY <1>1, <1>5, <1>6, <1>7, <1>9, <1>10, <1>11, <1>12 DEF IInv

\* Every step keeps the invariant.
LEMMA StepHolds == IInv /\ input \in Inputs /\ [Next]_vars => IInv' /\ input' \in Inputs
<1> SUFFICES ASSUME IInv, input \in Inputs, [Next]_vars PROVE IInv' /\ input' \in Inputs
  OBVIOUS
<1>1. CommandInv /\ FetchInv /\ LoadInv /\ DataInv /\ ShownInv
      /\ JsonIsAllOrNothing /\ ExactBytes /\ ExportTells
  BY DEF IInv
<1>2. /\ exit \in {-1, 0, 1} /\ (exit = -1 <=> pc # "exit") /\ Len(stdout) <= input.room
      /\ written \in {"old", "part", "whole"}
  BY DEF IInv, TypeOK
<1>3. input' \in Inputs
  BY InputStays
<1>4. CommandInv'
  BY <1>1, CommandStep
<1>5. FetchInv'
  BY <1>1, FetchStep
<1>6. LoadInv'
  BY <1>1, LoadStep
<1>7. DataInv'
  BY <1>1, DataStep
<1>8. ShownInv'
  BY <1>1, ShownStep
<1>9. /\ exit' \in {-1, 0, 1} /\ (exit' = -1 <=> pc' # "exit") /\ Len(stdout') <= input.room
      /\ JsonIsAllOrNothing' /\ ExactBytes' /\ ExportTells'
  BY <1>1, <1>2, <1>8, ExitStep
<1>10. TypeOK'
  BY <1>4, <1>6, <1>8, <1>9, TypeStep
<1>11. QED
  BY <1>3, <1>4, <1>5, <1>6, <1>7, <1>8, <1>9, <1>10 DEF IInv

\* The invariant holds in every state of every run of cek, and the input is the
\* one the run was started with.
LEMMA ProgramKeeps == Spec => [](IInv /\ input \in Inputs)
<1>1. Init => IInv /\ input \in Inputs
  BY InitHolds
<1>2. (IInv /\ input \in Inputs) /\ [Next]_vars => (IInv /\ input \in Inputs)'
  BY StepHolds
<1>3. QED
  BY <1>1, <1>2, PTL DEF Spec

\* The invariant, without the input (the whole of cek).
THEOREM ProgramInvariant == Spec => []IInv
BY ProgramKeeps, PTL

\* Every variable holds a value of its kind: nothing is printed but logs before
\* every image is loaded and the command has its data, nobody is asked more than
\* twice for an image, and the exit status is there exactly at the end.
THEOREM ProgramTypes == Spec => []TypeOK
<1>1. IInv => TypeOK
  BY DEF IInv
<1>2. QED
  BY <1>1, ProgramInvariant, PTL

\* The registry is asked only where the pull policy says so, or where it allows
\* it and the daemon was just asked for the same image in vain (image.go:46-76).
THEOREM RegistryIsALastResort == Spec => []RegistryOnlyWhenNeeded
<1>1. IInv => RegistryOnlyWhenNeeded
  BY DEF IInv, FetchInv
<1>2. QED
  BY <1>1, ProgramInvariant, PTL

\* blob hands out the layer that inspect lists under the number given.
THEOREM BlobIsTheLayer == Spec => []BlobIsTheLayerInspected
<1>1. IInv => BlobIsTheLayerInspected
  BY DEF IInv, DataInv
<1>2. QED
  BY <1>1, ProgramInvariant, PTL

\* tags shows the tags the registry lists last, the last one first, and as many
\* as --limit says (tags.go:60-75).
THEOREM TagsAreNewestFirst == Spec => []TagsAreTheLast
<1>1. IInv => TagsAreTheLast
  BY DEF IInv, DataInv
<1>2. QED
  BY <1>1, ProgramInvariant, PTL

\* With --json a command that succeeds has written one whole document, and one
\* that fails none, whatever fails and however full the standard output is.
THEOREM JsonIsWhole == Spec => []JsonIsAllOrNothing
<1>1. IInv => JsonIsAllOrNothing
  BY DEF IInv
<1>2. QED
  BY <1>1, ProgramInvariant, PTL

\* cat, blob, manifest and config succeed only when the exact bytes, whole and
\* with nothing added, are on the standard output.
THEOREM BytesAreExact == Spec => []ExactBytes
<1>1. IInv => ExactBytes
  BY DEF IInv
<1>2. QED
  BY <1>1, ProgramInvariant, PTL

\* export succeeds only with a tarball that is complete.
THEOREM ExportIsTold == Spec => []ExportTells
<1>1. IInv => ExportTells
  BY DEF IInv
<1>2. QED
  BY <1>1, ProgramInvariant, PTL

-----------------------------------------------------------------------------
\* inspect: the line of an argv, and what a shell reads there.

\* The sequence Joined goes through is there.
LEMMA JoinedGoesOn ==
  ASSUME NEW s, Len(s) \in Nat
  PROVE  \E upTo : /\ upTo[0] = << >> /\ upTo[Len(s)] = Joined(s)
                   /\ \A k \in 1..Len(s) : upTo[k] = upTo[k - 1] \o s[k]
<1> DEFINE N == Len(s)
           on(w, k) == w \o s[k]
           Good(n, f) == f[0] = << >> /\ \A k \in 1..n : f[k] = on(f[k - 1], k)
           Some(n) == \E f : f = [k \in 0..n |-> f[k]] /\ Good(n, f)
           T == {n \in Nat : Some(n)}
           Equation(f) == f = [k \in 0..N |-> IF k = 0 THEN << >> ELSE on(f[k - 1], k)]
           upTo == CHOOSE f : Equation(f)
<1>1. Joined(s) = upTo[N]
  <2>1. \A f : Equation(f) <=>
          f = [k \in 0..N |-> IF k = 0 THEN << >> ELSE f[k - 1] \o s[k]]
    OBVIOUS
  <2>2. QED
    BY <2>1 DEF Joined
<1> HIDE DEF on, N
<1>2. N \in Nat
  BY DEF N
<1>3. 0 \in T
  <2> DEFINE f == [k \in 0..0 |-> << >>]
  <2>1. f = [k \in 0..0 |-> f[k]] /\ Good(0, f)
    OBVIOUS
  <2>2. QED
    BY <2>1
<1>4. ASSUME NEW n \in Nat, n \in T PROVE n + 1 \in T
  <2>1. PICK f : f = [k \in 0..n |-> f[k]] /\ Good(n, f)
    BY <1>4
  <2> DEFINE g == [k \in 0..(n + 1) |-> IF k <= n THEN f[k] ELSE on(f[n], n + 1)]
  <2>2. g = [k \in 0..(n + 1) |-> g[k]]
    OBVIOUS
  <2>3. g[0] = << >> /\ \A k \in 0..n : g[k] = f[k]
    BY <2>1
  <2>4. g[n + 1] = on(f[n], n + 1)
    OBVIOUS
  <2> HIDE DEF g
  <2>5. ASSUME NEW k \in 1..(n + 1) PROVE g[k] = on(g[k - 1], k)
    <3>1. CASE k = n + 1
      BY <2>3, <2>4, <3>1
    <3>2. CASE k # n + 1
      <4>1. k \in 1..n /\ k - 1 \in 0..n /\ k \in 0..n
        BY <3>2
      <4>2. QED
        BY <2>1, <2>3, <4>1
    <3>3. QED
      BY <3>1, <3>2
  <2>6. Good(n + 1, g)
    BY <2>3, <2>5
  <2> HIDE DEF Good
  <2>7. QED
    BY <2>2, <2>6
<1>5. N \in T
  <2>1. \A n \in Nat : n \in T => n + 1 \in T
    BY <1>4
  <2> HIDE DEF T
  <2>2. QED
    BY <1>2, <1>3, <2>1, NatSetInduction
<1>6. PICK f : f = [k \in 0..N |-> f[k]] /\ Good(N, f)
  BY <1>5
<1>7. Equation(f)
  <2>1. \A k \in 0..N : f[k] = IF k = 0 THEN << >> ELSE on(f[k - 1], k)
    BY <1>2, <1>6
  <2>2. QED
    BY <1>6, <2>1
<1>8. Equation(upTo)
  BY <1>7
<1> HIDE DEF upTo
<1>9. upTo[0] = << >> /\ \A k \in 1..N : upTo[k] = on(upTo[k - 1], k)
  BY <1>2, <1>8
<1>10. QED
  BY <1>1, <1>9 DEF on, N

\* One part more is put at the end.
LEMMA JoinedAppend ==
  ASSUME NEW R, NEW s \in Seq(R), NEW x \in R
  PROVE  Joined(Append(s, x)) = Joined(s) \o x
<1> DEFINE n == Len(s)
           t == Append(s, x)
<1>1. /\ n \in Nat /\ Len(t) = n + 1 /\ t[n + 1] = x
      /\ \A k \in 1..n : t[k] = s[k]
  OBVIOUS
<1>2. PICK f : /\ f[0] = << >> /\ f[n] = Joined(s)
               /\ \A k \in 1..n : f[k] = f[k - 1] \o s[k]
  BY <1>1, JoinedGoesOn
<1> HIDE DEF t
<1>3. PICK g : /\ g[0] = << >> /\ g[n + 1] = Joined(t)
               /\ \A k \in 1..(n + 1) : g[k] = g[k - 1] \o t[k]
  <2>1. Len(t) \in Nat
    BY <1>1
  <2>2. \E g : /\ g[0] = << >> /\ g[Len(t)] = Joined(t)
               /\ \A k \in 1..Len(t) : g[k] = g[k - 1] \o t[k]
    BY <2>1, JoinedGoesOn
  <2>3. QED
    BY <1>1, <2>2
<1> HIDE DEF n
<1> DEFINE T == {k \in Nat : k <= n => f[k] = g[k]}
<1>4. 0 \in T
  BY <1>2, <1>3
<1>5. ASSUME NEW k \in Nat, k \in T PROVE k + 1 \in T
  <2> SUFFICES ASSUME k + 1 <= n PROVE f[k + 1] = g[k + 1]
    OBVIOUS
  <2>1. k + 1 \in 1..n /\ k + 1 \in 1..(n + 1) /\ (k + 1) - 1 = k /\ f[k] = g[k]
    BY <1>1, <1>5
  <2>2. QED
    BY <1>1, <1>2, <1>3, <2>1
<1>6. f[n] = g[n]
  <2>1. \A k \in Nat : k \in T => k + 1 \in T
    BY <1>5
  <2>2. n \in T
    <3> HIDE DEF T
    <3>1. QED
      BY <1>1, <1>4, <2>1, NatSetInduction
  <2>3. QED
    BY <1>1, <2>2
<1>7. n + 1 \in 1..(n + 1) /\ (n + 1) - 1 = n
  BY <1>1
<1>8. g[n + 1] = g[n] \o x
  BY <1>1, <1>3, <1>7
<1>9. QED
  BY <1>2, <1>3, <1>6, <1>8 DEF t

\* The states ShellReads goes through are there.
LEMMA ShellGoesOn ==
  ASSUME NEW s, Len(s) \in Nat
  PROVE  \E after : /\ after[0] = ShellStart /\ after[Len(s)] = ShellReads(s)
                   /\ \A k \in 1..Len(s) : after[k] = ShellStep(after[k - 1], s[k])
<1> DEFINE N == Len(s)
           on(w, k) == ShellStep(w, s[k])
           Good(n, f) == f[0] = ShellStart /\ \A k \in 1..n : f[k] = on(f[k - 1], k)
           Some(n) == \E f : f = [k \in 0..n |-> f[k]] /\ Good(n, f)
           T == {n \in Nat : Some(n)}
           Equation(f) == f = [k \in 0..N |-> IF k = 0 THEN ShellStart ELSE on(f[k - 1], k)]
           after == CHOOSE f : Equation(f)
<1>1. ShellReads(s) = after[N]
  <2>1. \A f : Equation(f) <=>
          f = [k \in 0..N |-> IF k = 0 THEN ShellStart ELSE ShellStep(f[k - 1], s[k])]
    OBVIOUS
  <2>2. QED
    BY <2>1 DEF ShellReads
<1> HIDE DEF on, N
<1>2. N \in Nat
  BY DEF N
<1>3. 0 \in T
  <2> DEFINE f == [k \in 0..0 |-> ShellStart]
  <2>1. f = [k \in 0..0 |-> f[k]] /\ Good(0, f)
    OBVIOUS
  <2>2. QED
    BY <2>1
<1>4. ASSUME NEW n \in Nat, n \in T PROVE n + 1 \in T
  <2>1. PICK f : f = [k \in 0..n |-> f[k]] /\ Good(n, f)
    BY <1>4
  <2> DEFINE g == [k \in 0..(n + 1) |-> IF k <= n THEN f[k] ELSE on(f[n], n + 1)]
  <2>2. g = [k \in 0..(n + 1) |-> g[k]]
    OBVIOUS
  <2>3. g[0] = ShellStart /\ \A k \in 0..n : g[k] = f[k]
    BY <2>1
  <2>4. g[n + 1] = on(f[n], n + 1)
    OBVIOUS
  <2> HIDE DEF g
  <2>5. ASSUME NEW k \in 1..(n + 1) PROVE g[k] = on(g[k - 1], k)
    <3>1. CASE k = n + 1
      BY <2>3, <2>4, <3>1
    <3>2. CASE k # n + 1
      <4>1. k \in 1..n /\ k - 1 \in 0..n /\ k \in 0..n
        BY <3>2
      <4>2. QED
        BY <2>1, <2>3, <4>1
    <3>3. QED
      BY <3>1, <3>2
  <2>6. Good(n + 1, g)
    BY <2>3, <2>5
  <2> HIDE DEF Good
  <2>7. QED
    BY <2>2, <2>6
<1>5. N \in T
  <2>1. \A n \in Nat : n \in T => n + 1 \in T
    BY <1>4
  <2> HIDE DEF T
  <2>2. QED
    BY <1>2, <1>3, <2>1, NatSetInduction
<1>6. PICK f : f = [k \in 0..N |-> f[k]] /\ Good(N, f)
  BY <1>5
<1>7. Equation(f)
  <2>1. \A k \in 0..N : f[k] = IF k = 0 THEN ShellStart ELSE on(f[k - 1], k)
    BY <1>2, <1>6
  <2>2. QED
    BY <1>6, <2>1
<1>8. Equation(after)
  BY <1>7
<1> HIDE DEF after
<1>9. after[0] = ShellStart /\ \A k \in 1..N : after[k] = on(after[k - 1], k)
  BY <1>2, <1>8
<1>10. QED
  BY <1>1, <1>9 DEF on, N

\* One character more is one step more.
LEMMA ReadsAppend ==
  ASSUME NEW R, NEW s \in Seq(R), NEW x \in R
  PROVE  ShellReads(Append(s, x)) = ShellStep(ShellReads(s), x)
<1> DEFINE n == Len(s)
           t == Append(s, x)
<1>1. /\ n \in Nat /\ Len(t) = n + 1 /\ t[n + 1] = x
      /\ \A k \in 1..n : t[k] = s[k]
  OBVIOUS
<1>2. PICK f : /\ f[0] = ShellStart /\ f[n] = ShellReads(s)
               /\ \A k \in 1..n : f[k] = ShellStep(f[k - 1], s[k])
  BY <1>1, ShellGoesOn
<1> HIDE DEF t
<1>3. PICK g : /\ g[0] = ShellStart /\ g[n + 1] = ShellReads(t)
               /\ \A k \in 1..(n + 1) : g[k] = ShellStep(g[k - 1], t[k])
  <2>1. Len(t) \in Nat
    BY <1>1
  <2>2. \E g : /\ g[0] = ShellStart /\ g[Len(t)] = ShellReads(t)
               /\ \A k \in 1..Len(t) : g[k] = ShellStep(g[k - 1], t[k])
    BY <2>1, ShellGoesOn
  <2>3. QED
    BY <1>1, <2>2
<1> HIDE DEF n
<1> DEFINE T == {k \in Nat : k <= n => f[k] = g[k]}
<1>4. 0 \in T
  BY <1>2, <1>3
<1>5. ASSUME NEW k \in Nat, k \in T PROVE k + 1 \in T
  <2> SUFFICES ASSUME k + 1 <= n PROVE f[k + 1] = g[k + 1]
    OBVIOUS
  <2>1. k + 1 \in 1..n /\ k + 1 \in 1..(n + 1) /\ (k + 1) - 1 = k /\ f[k] = g[k]
    BY <1>1, <1>5
  <2>2. QED
    BY <1>1, <1>2, <1>3, <2>1
<1>6. f[n] = g[n]
  <2>1. \A k \in Nat : k \in T => k + 1 \in T
    BY <1>5
  <2>2. n \in T
    <3> HIDE DEF T
    <3>1. QED
      BY <1>1, <1>4, <2>1, NatSetInduction
  <2>3. QED
    BY <1>1, <2>2
<1>7. n + 1 \in 1..(n + 1) /\ (n + 1) - 1 = n
  BY <1>1
<1>8. g[n + 1] = ShellStep(g[n], x)
  BY <1>1, <1>3, <1>7
<1>9. QED
  BY <1>2, <1>3, <1>6, <1>8 DEF t

\* Of nothing there is nothing to put together or to read.
LEMMA NothingToRead == Joined(<< >>) = << >> /\ ShellReads(<< >>) = ShellStart
<1>1. Len(<< >>) = 0
  OBVIOUS
<1>2. Joined(<< >>) = << >>
  BY <1>1, JoinedGoesOn
<1>3. ShellReads(<< >>) = ShellStart
  BY <1>1, ShellGoesOn
<1>4. QED
  BY <1>2, <1>3

\* Where a shell can be, and what a word of an argv is made of that it reads as
\* the word it is.  (That a given string is one, the provers do not know.)
Shell(words, word, mode) == [words |-> words, word |-> word, mode |-> mode]
Chars    == STRING \cup {"quote", "backslash", "space"} \cup {"n", "t", "r", "x"}
Readable == Chars \ (Expanded \cup DOMAIN GoEscape)
Ordinary == Chars \ (Special \cup Metacharacter)
KeptWord == {w \in Seq(Chars) : ShellKeeps(w)}

\* A separator ends a word only where the code quotes it.
LEMMA Separators == {"space", "tab", "quote"} \subseteq Special
BY DEF Special

\* The steps of a shell over what strconv.Quote and strings.Join write.
LEMMA ShellSteps ==
  ASSUME NEW ws, NEW w, NEW c
  PROVE  /\ c \notin Metacharacter \cup {"space", "tab", "quote"} =>
              /\ ShellStep(Shell(ws, w, "between"), c) = Shell(ws, Append(w, c), "plain")
              /\ ShellStep(Shell(ws, w, "plain"), c) = Shell(ws, Append(w, c), "plain")
         /\ ShellStep(Shell(ws, w, "between"), "quote") = Shell(ws, w, "quoted")
         /\ c \notin Expanded \cup {"quote", "backslash"} =>
              ShellStep(Shell(ws, w, "quoted"), c) = Shell(ws, Append(w, c), "quoted")
         /\ ShellStep(Shell(ws, w, "quoted"), "backslash") = Shell(ws, w, "escaped")
         /\ c \in {"quote", "backslash"} =>
              ShellStep(Shell(ws, w, "escaped"), c) = Shell(ws, Append(w, c), "quoted")
         /\ ShellStep(Shell(ws, w, "quoted"), "quote") = Shell(ws, w, "plain")
         /\ ShellStep(Shell(ws, w, "plain"), "space") = Shell(Append(ws, w), << >>, "between")
BY DEF ShellStep, Shell, WordEnds

\* A word without special characters is read as it is.
LEMMA ReadsPlain ==
  ASSUME NEW line \in Seq(Chars), NEW ws, ShellReads(line) = Shell(ws, << >>, "between")
  PROVE  \A w \in Seq(Ordinary) :
           w # << >> => ShellReads(line \o w) = Shell(ws, w, "plain")
<1> DEFINE P(w) == ShellReads(line \o w) = Shell(ws, w, IF w = << >> THEN "between" ELSE "plain")
           C == Ordinary
           T == {w \in Seq(C) : P(w)}
<1>1. << >> \in T
  <2>1. line \o << >> = line /\ << >> \in Seq(C)
    OBVIOUS
  <2>2. QED
    BY <2>1
<1>2. ASSUME NEW w \in Seq(C), NEW c \in C, w \in T PROVE Append(w, c) \in T
  <2>1. Append(w, c) \in Seq(C) /\ Append(w, c) # << >>
    OBVIOUS
  <2>2. w \in Seq(Chars) /\ c \in Chars /\ c \notin Special \cup Metacharacter
    BY DEF Ordinary
  <2>3. line \o Append(w, c) = Append(line \o w, c) /\ line \o w \in Seq(Chars)
    BY <2>2, AppendOfConcat
  <2>4. ShellReads(line \o Append(w, c)) = ShellStep(ShellReads(line \o w), c)
    BY <2>2, <2>3, ReadsAppend
  <2>5. c \notin Metacharacter \cup {"space", "tab", "quote"}
    BY <2>2, Separators
  <2>6. P(w)
    BY <1>2
  <2>7. ShellReads(line \o Append(w, c)) = Shell(ws, Append(w, c), "plain")
    BY <2>2, <2>4, <2>5, <2>6, ShellSteps
  <2>8. QED
    BY <2>1, <2>7
<1>3. \A w \in Seq(C) : w \in T
  <2>1. \A w \in Seq(C) : \A c \in C : w \in T => Append(w, c) \in T
    BY <1>2
  <2> HIDE DEF T, C
  <2>2. QED
    BY <1>1, <2>1, SeqSetInduction
<1>4. QED
  BY <1>3

\* A word, escaped as strconv.Quote does it, character by character.
EscapedWord(w) == [k \in DOMAIN w |-> Escaped(w[k])]

\* One character, or two, at the end of a text.
LEMMA OneAtTheEnd ==
  ASSUME NEW C, NEW text \in Seq(C), NEW c \in C
  PROVE  /\ <<c>> \in Seq(C) /\ Append(text, c) \in Seq(C)
         /\ text \o <<c>> = Append(text, c)
OBVIOUS

LEMMA TwoAreText == ASSUME NEW C, NEW c \in C, NEW d \in C PROVE <<c, d>> \in Seq(C)
OBVIOUS

LEMMA TextAssociates == \A a, b, c \in Seq(Chars) : (a \o b) \o c = a \o (b \o c)
BY ConcatAssociative

LEMMA FourParts ==
  ASSUME NEW C
  PROVE  \A a, b, c, d \in Seq(C) : a \o ((b \o c) \o d) = ((a \o b) \o c) \o d
<1>1. \A a, b, c \in Seq(C) : (a \o b) \o c = a \o (b \o c)
  BY ConcatAssociative
<1>2. \A b, c \in Seq(C) : b \o c \in Seq(C)
  OBVIOUS
<1> DEFINE B == Seq(C)
<1> HIDE DEF B
<1>3. \A a, b, c \in B : (a \o b) \o c = a \o (b \o c)
  BY <1>1 DEF B
<1>4. \A b, c \in B : b \o c \in B
  BY <1>2 DEF B
<1>5. ASSUME NEW a \in B, NEW b \in B, NEW c \in B, NEW d \in B
      PROVE  a \o ((b \o c) \o d) = ((a \o b) \o c) \o d
  <2>1. (a \o (b \o c)) \o d = a \o ((b \o c) \o d)
    <3> DEFINE e == b \o c
    <3>1. e \in B
      BY <1>4
    <3> HIDE DEF e
    <3>2. (a \o e) \o d = a \o (e \o d)
      BY <1>3, <3>1
    <3>3. QED
      BY <3>2 DEF e
  <2>2. (a \o b) \o c = a \o (b \o c)
    BY <1>3
  <2>3. QED
    BY <2>1, <2>2
<1>6. QED
  BY <1>5 DEF B

LEMMA CharsAre == /\ "quote" \in Chars /\ "backslash" \in Chars /\ "space" \in Chars
                  /\ {"n", "t", "r", "x"} \subseteq Chars
BY DEF Chars

LEMMA EscapedIsText == \A c \in Chars : Escaped(c) \in Seq(Chars)
<1> SUFFICES ASSUME NEW c \in Chars PROVE Escaped(c) \in Seq(Chars)
  OBVIOUS
<1>1. \/ Escaped(c) = <<c>>
      \/ \E d \in {c, "n", "t", "r", "x"} : Escaped(c) = <<"backslash", d>>
  BY DEF Escaped, GoEscape
<1>2. << >> \in Seq(Chars)
  OBVIOUS
<1>3. \A d \in Chars : <<"backslash", d>> \in Seq(Chars)
  BY <1>2, CharsAre, TwoAreText
<1>4. <<c>> \in Seq(Chars)
  BY <1>2, OneAtTheEnd
<1>5. {c, "n", "t", "r", "x"} \subseteq Chars
  BY CharsAre
<1>6. QED
  BY <1>1, <1>3, <1>4, <1>5

\* In double quotes an escaped character is read as the character.
LEMMA ReadsOne ==
  ASSUME NEW u \in Seq(Chars), NEW ws, NEW w, ShellReads(u) = Shell(ws, w, "quoted"),
         NEW c \in Readable
  PROVE  ShellReads(u \o Escaped(c)) = Shell(ws, Append(w, c), "quoted")
<1>1. c \in Chars
  BY DEF Readable
<1>2. CASE c \in {"quote", "backslash"}
  <2> DEFINE b == "backslash"
             t == Append(u, b)
  <2>1. Escaped(c) = <<b, c>>
    BY <1>2 DEF Escaped
  <2>2. b \in Chars
    BY CharsAre
  <2>3. ShellStep(Shell(ws, w, "quoted"), b) = Shell(ws, w, "escaped")
    BY ShellSteps
  <2> HIDE DEF b
  <2>4. t \in Seq(Chars)
    BY <2>2
  <2>5. u \o <<b, c>> = Append(t, c)
    BY <1>1, <2>2
  <2>6. ShellReads(t) = Shell(ws, w, "escaped")
    BY <2>2, <2>3, ReadsAppend
  <2> HIDE DEF t
  <2>7. ShellReads(Append(t, c)) = ShellStep(Shell(ws, w, "escaped"), c)
    BY <1>1, <2>4, <2>6, ReadsAppend
  <2>8. QED
    BY <1>2, <2>1, <2>5, <2>7, ShellSteps
<1>3. CASE c \notin {"quote", "backslash"}
  <2>1. c \notin Expanded \cup DOMAIN GoEscape \cup {"quote", "backslash"}
    BY <1>3 DEF Readable
  <2>2. Escaped(c) = <<c>>
    BY <2>1 DEF Escaped
  <2>3. u \o <<c>> = Append(u, c)
    BY <1>1, OneAtTheEnd
  <2>4. ShellReads(Append(u, c)) = ShellStep(Shell(ws, w, "quoted"), c)
    BY <1>1, ReadsAppend
  <2>5. QED
    BY <2>1, <2>2, <2>3, <2>4, ShellSteps
<1>4. QED
  BY <1>2, <1>3

\* In double quotes an escaped word is read as the word.
LEMMA ReadsEscaped ==
  ASSUME NEW line \in Seq(Chars), NEW ws, ShellReads(line) = Shell(ws, << >>, "quoted")
  PROVE  \A w \in Seq(Readable) :
           /\ Joined(EscapedWord(w)) \in Seq(Chars)
           /\ ShellReads(line \o Joined(EscapedWord(w))) = Shell(ws, w, "quoted")
<1> DEFINE P(w) == /\ EscapedWord(w) \in Seq(Seq(Chars))
                   /\ Joined(EscapedWord(w)) \in Seq(Chars)
                   /\ ShellReads(line \o Joined(EscapedWord(w))) = Shell(ws, w, "quoted")
           T == {w \in Seq(Readable) : P(w)}
<1>1. << >> \in T
  <2>1. line \o << >> = line /\ << >> \in Seq(Readable) /\ << >> \in Seq(Seq(Chars))
        /\ << >> \in Seq(Chars)
    OBVIOUS
  <2>2. EscapedWord(<< >>) = << >>
    BY DEF EscapedWord
  <2>3. QED
    BY <2>1, <2>2, NothingToRead
<1>2. ASSUME NEW w \in Seq(Readable), NEW c \in Readable, w \in T PROVE Append(w, c) \in T
  <2> DEFINE before == EscapedWord(w)
             text == Joined(before)
             e == Escaped(c)
  <2>1. c \in Chars /\ e \in Seq(Chars) /\ P(w)
    BY <1>2, EscapedIsText DEF Readable
  <2>2. EscapedWord(Append(w, c)) = Append(before, e)
    <3> DEFINE n == Len(w)
               v == Append(w, c)
    <3>1. /\ n \in Nat /\ DOMAIN w = 1..n /\ DOMAIN v = 1..(n + 1) /\ v[n + 1] = c
          /\ \A k \in 1..n : v[k] = w[k]
      OBVIOUS
    <3>2. EscapedWord(v) = [k \in 1..(n + 1) |-> Escaped(v[k])]
      BY <3>1 DEF EscapedWord
    <3>3. before \in Seq(Seq(Chars)) /\ before = [k \in 1..n |-> Escaped(w[k])]
      BY <2>1, <3>1 DEF EscapedWord
    <3> HIDE DEF v, before, n, e
    <3>4. Len(before) = n
      BY <3>1, <3>3
    <3>5. /\ Append(before, e) \in Seq(Seq(Chars)) /\ Len(Append(before, e)) = n + 1
          /\ Append(before, e)[n + 1] = e /\ \A k \in 1..n : Append(before, e)[k] = before[k]
      <4> DEFINE B == Seq(Chars)
      <4>1. before \in Seq(B) /\ e \in B
        BY <2>1, <3>3
      <4> HIDE DEF B
      <4>2. /\ Append(before, e) \in Seq(B) /\ Len(Append(before, e)) = Len(before) + 1
            /\ Append(before, e)[Len(before) + 1] = e
            /\ \A k \in 1..Len(before) : Append(before, e)[k] = before[k]
        BY <4>1, AppendProperties
      <4>3. QED
        BY <3>4, <4>2 DEF B
    <3>6. Append(before, e) = [k \in 1..(n + 1) |-> Append(before, e)[k]]
      <4> DEFINE s == Append(before, e)
                 B == Seq(Chars)
      <4>1. s \in Seq(B) /\ Len(s) = n + 1
        BY <3>5
      <4> HIDE DEF s, B
      <4>2. s = [k \in 1..(n + 1) |-> s[k]]
        BY <4>1
      <4>3. QED
        BY <4>2 DEF s
    <3>7. \A k \in 1..(n + 1) : Append(before, e)[k] = Escaped(v[k])
      <4> SUFFICES ASSUME NEW k \in 1..(n + 1) PROVE Append(before, e)[k] = Escaped(v[k])
        OBVIOUS
      <4>1. CASE k = n + 1
        BY <3>1, <3>5, <4>1 DEF e
      <4>2. CASE k # n + 1
        <5>1. k \in 1..n
          BY <3>1, <4>2
        <5>2. QED
          BY <3>1, <3>3, <3>5, <5>1
      <4>3. QED
        BY <4>1, <4>2
    <3>8. QED
      BY <3>2, <3>6, <3>7 DEF v
  <2>3. Joined(Append(before, e)) = text \o e
    BY <2>1, JoinedAppend
  <2>4. text \in Seq(Chars) /\ ShellReads(line \o text) = Shell(ws, w, "quoted")
    BY <2>1
  <2>5. Append(before, e) \in Seq(Seq(Chars))
    BY <2>1
  <2> HIDE DEF text
  <2>6. ShellReads(line \o (text \o e)) = Shell(ws, Append(w, c), "quoted")
    <3>1. line \o text \in Seq(Chars) /\ ShellReads((line \o text) \o e) = Shell(ws, Append(w, c), "quoted")
      <4>1. line \o text \in Seq(Chars)
        BY <2>4
      <4>2. QED
        BY <2>4, <4>1, ReadsOne
    <3>2. line \o (text \o e) = (line \o text) \o e
      <4> DEFINE X == Seq(Chars)
      <4>1. line \in X /\ text \in X /\ e \in X
        BY <2>1, <2>4
      <4>2. \A a, b, d \in X : (a \o b) \o d = a \o (b \o d)
        BY TextAssociates
      <4> HIDE DEF X, e
      <4>3. QED
        BY <4>1, <4>2
    <3>3. QED
      BY <3>1, <3>2
  <2>7. text \o e \in Seq(Chars)
    BY <2>1, <2>4
  <2>8. Append(w, c) \in Seq(Readable)
    OBVIOUS
  <2> HIDE DEF before, e
  <2>9. QED
    BY <2>2, <2>3, <2>5, <2>6, <2>7, <2>8
<1>3. \A w \in Seq(Readable) : w \in T
  <2>1. \A w \in Seq(Readable) : \A c \in Readable : w \in T => Append(w, c) \in T
    BY <1>2
  <2> HIDE DEF T
  <2>2. QED
    BY <1>1, <2>1, SeqSetInduction
<1>4. QED
  BY <1>3

\* What strconv.Quote writes of a word, or what is left as it is, is read as the
\* word.
LEMMA ReadsQuoted ==
  ASSUME NEW line \in Seq(Chars), NEW ws, ShellReads(line) = Shell(ws, << >>, "between"),
         NEW w \in KeptWord
  PROVE  /\ Quoted(w) \in Seq(Chars)
         /\ ShellReads(line \o Quoted(w)) = Shell(ws, w, "plain")
<1>0. /\ w \in Seq(Chars)
      /\ NeedsQuotes(w) => ToSet(w) \cap (Expanded \cup DOMAIN GoEscape) = {}
      /\ ~NeedsQuotes(w) => ToSet(w) \cap (Special \cup Metacharacter) = {} /\ w # << >>
  <2>1. w \in Seq(Chars) /\ ShellKeeps(w)
    BY DEF KeptWord
  <2>2. QED
    BY <2>1 DEF ShellKeeps, NeedsQuotes
<1>9. \A k \in 1..Len(w) : w[k] \in Chars /\ w[k] \in ToSet(w)
  BY <1>0 DEF ToSet
<1>1. CASE NeedsQuotes(w)
  <2> DEFINE text == Joined(EscapedWord(w))
             first == <<"quote">>
             opened == Append(line, "quote")
  <2>1. Quoted(w) = first \o text \o first
    BY <1>1 DEF Quoted, Quote, EscapedWord
  <2>2. ShellReads(opened) = Shell(ws, << >>, "quoted") /\ opened \in Seq(Chars)
    <3>1. ShellReads(opened) = ShellStep(Shell(ws, << >>, "between"), "quote")
      BY CharsAre, ReadsAppend
    <3>2. opened \in Seq(Chars)
      BY CharsAre, OneAtTheEnd
    <3>3. QED
      BY <3>1, <3>2, ShellSteps
  <2> HIDE DEF opened
  <2>3. text \in Seq(Chars) /\ ShellReads(opened \o text) = Shell(ws, w, "quoted")
    <3>1. w \in Seq(Readable)
      <4> DEFINE R == Readable
      <4>1. \A k \in 1..Len(w) : w[k] \in R
        BY <1>0, <1>1, <1>9 DEF Readable
      <4> HIDE DEF R
      <4>2. w \in Seq(R)
        BY <1>0, <4>1
      <4>3. QED
        BY <4>2 DEF R
    <3>2. QED
      BY <2>2, <3>1, ReadsEscaped
  <2> HIDE DEF text
  <2>4. /\ first \o text \o first \in Seq(Chars) /\ opened \o text \in Seq(Chars)
        /\ line \o (first \o text \o first) = Append(opened \o text, "quote")
    <3>1. first \in Seq(Chars) /\ opened = line \o first
      <4>1. << >> \in Seq(Chars)
        OBVIOUS
      <4>2. QED
        BY <4>1, CharsAre, OneAtTheEnd DEF opened
    <3> HIDE DEF first
    <3>2. /\ first \o text \in Seq(Chars) /\ (first \o text) \o first \in Seq(Chars)
          /\ line \o first \in Seq(Chars) /\ (line \o first) \o text \in Seq(Chars)
      BY <2>3, <3>1, ConcatProperties
    <3>3. line \o ((first \o text) \o first) = ((line \o first) \o text) \o first
      <4>1. text \in Seq(Chars)
        BY <2>3
      <4>2. QED
        BY <3>1, <4>1, FourParts
    <3>4. (opened \o text) \o first = Append(opened \o text, "quote")
      <4>1. opened \o text \in Seq(Chars)
        BY <3>1, <3>2
      <4>2. QED
        BY <4>1, CharsAre, OneAtTheEnd DEF first
    <3>5. QED
      BY <3>1, <3>2, <3>3, <3>4
  <2> HIDE DEF first
  <2>5. ShellReads(Append(opened \o text, "quote")) = ShellStep(Shell(ws, w, "quoted"), "quote")
    BY <2>3, <2>4, CharsAre, ReadsAppend
  <2>6. QED
    BY <2>1, <2>4, <2>5, ShellSteps
<1>2. CASE ~NeedsQuotes(w)
  <2>1. Quoted(w) = w /\ w # << >>
    BY <1>0, <1>2 DEF Quoted
  <2>2. w \in Seq(Ordinary)
    <3> DEFINE R == Ordinary
    <3>1. \A k \in 1..Len(w) : w[k] \in R
      BY <1>0, <1>2, <1>9 DEF Ordinary
    <3> HIDE DEF R
    <3>2. w \in Seq(R)
      BY <1>0, <3>1
    <3>3. QED
      BY <3>2 DEF R
  <2>3. QED
    BY <1>0, <2>1, <2>2, ReadsPlain
<1>3. QED
  BY <1>1, <1>2

\* A part of a line of words, with the space before it.
LinePart(args, k) == IF k = 1 THEN Quoted(args[k]) ELSE <<"space">> \o Quoted(args[k])
LineParts(args)   == [k \in DOMAIN args |-> LinePart(args, k)]

\* One word more makes one part more.
LEMMA OnePartMore ==
  ASSUME NEW R, NEW args \in Seq(R), NEW w \in R, NEW P, LineParts(args) \in Seq(P),
         IF args = << >> THEN Quoted(w) \in P ELSE <<"space">> \o Quoted(w) \in P
  PROVE  /\ LineParts(Append(args, w)) \in Seq(P)
         /\ Joined(LineParts(Append(args, w)))
              = Joined(LineParts(args))
                  \o (IF args = << >> THEN Quoted(w) ELSE <<"space">> \o Quoted(w))
<1> DEFINE part == IF args = << >> THEN Quoted(w) ELSE <<"space">> \o Quoted(w)
           n == Len(args)
           v == Append(args, w)
           before == LineParts(args)
           s == Append(before, part)
<1>1. /\ n \in Nat /\ DOMAIN args = 1..n /\ DOMAIN v = 1..(n + 1) /\ v[n + 1] = w
      /\ \A k \in 1..n : v[k] = args[k]
      /\ n = 0 <=> args = << >>
  OBVIOUS
<1>2. part \in P
  OBVIOUS
<1>3. LineParts(v) = [k \in 1..(n + 1) |-> LinePart(v, k)]
  BY <1>1 DEF LineParts
<1>4. before \in Seq(P) /\ before = [k \in 1..n |-> LinePart(args, k)]
  BY <1>1 DEF LineParts
<1>5. \A k \in 1..n : LinePart(v, k) = LinePart(args, k)
  BY <1>1 DEF LinePart
<1>6. LinePart(v, n + 1) = part
  BY <1>1 DEF LinePart
<1> HIDE DEF v, before, part, n
<1>7. Len(before) = n
  BY <1>1, <1>4
<1>8. /\ s \in Seq(P) /\ Len(s) = n + 1 /\ s[n + 1] = part
      /\ \A k \in 1..n : s[k] = before[k]
  <2>1. /\ s \in Seq(P) /\ Len(s) = Len(before) + 1 /\ s[Len(before) + 1] = part
        /\ \A k \in 1..Len(before) : s[k] = before[k]
    <3>1. before \in Seq(P) /\ part \in P
      BY <1>2, <1>4
    <3>2. QED
      BY <3>1, AppendProperties DEF s
  <2>2. QED
    BY <1>7, <2>1
<1> HIDE DEF s
<1>9. s = [k \in 1..(n + 1) |-> s[k]]
  BY <1>8
<1>10. ASSUME NEW k \in 1..(n + 1) PROVE s[k] = LinePart(v, k)
  <2>1. CASE k = n + 1
    BY <1>6, <1>8, <2>1
  <2>2. CASE k # n + 1
    <3>1. k \in 1..n
      BY <1>1, <2>2
    <3>2. QED
      BY <1>4, <1>5, <1>8, <3>1
  <2>3. QED
    BY <2>1, <2>2
<1>11. LineParts(v) = s
  BY <1>3, <1>9, <1>10
<1>12. Joined(s) = Joined(before) \o part
  BY <1>2, <1>4, JoinedAppend DEF s
<1>13. QED
  BY <1>8, <1>11, <1>12 DEF v, before, part

\* The line of an argv is read as the argv.
LEMMA ReadsBack == \A args \in Seq(KeptWord) : Split(ShellJoin(args)) = args
<1> DEFINE W == KeptWord
           X == Seq(Chars)
           Line(args) == Joined(LineParts(args))
           Told(args) == \E ws \in Seq(W), w \in W :
                           ShellReads(Line(args)) = Shell(ws, w, "plain") /\ args = Append(ws, w)
           P(args) == /\ LineParts(args) \in Seq(X) /\ Line(args) \in X
                      /\ args # << >> => Told(args)
           T == {args \in Seq(W) : P(args)}
<1>1. << >> \in T
  <2>1. << >> \in Seq(W) /\ << >> \in Seq(X) /\ << >> \in X
    OBVIOUS
  <2>2. LineParts(<< >>) = << >>
    BY DEF LineParts
  <2>3. QED
    BY <2>1, <2>2, NothingToRead
<1>2. ASSUME NEW args \in Seq(W), NEW w \in W, args \in T PROVE Append(args, w) \in T
  <2>1. P(args)
    BY <1>2
  <2>2. Append(args, w) \in Seq(W)
    OBVIOUS
  <2>3. CASE args = << >>
    <3>1. ShellReads(<< >>) = Shell(<< >>, << >>, "between") /\ << >> \in X
      BY NothingToRead DEF ShellStart, Shell
    <3>2. Quoted(w) \in X /\ ShellReads(<< >> \o Quoted(w)) = Shell(<< >>, w, "plain")
      BY <3>1, ReadsQuoted
    <3> HIDE DEF W
    <3>3. /\ LineParts(Append(args, w)) \in Seq(X)
          /\ Line(Append(args, w)) = Line(args) \o Quoted(w)
      <4> HIDE DEF X
      <4>1. QED
        BY <2>1, <2>3, <3>2, OnePartMore
    <3>4. Line(args) = << >>
      <4>1. LineParts(<< >>) = << >>
        BY DEF LineParts
      <4>2. QED
        BY <2>3, <4>1, NothingToRead
    <3>5. << >> \o Quoted(w) \in X
      BY <3>2
    <3>6. << >> \in Seq(W) /\ args = << >>
      BY <2>3
    <3> HIDE DEF X, Line
    <3>7. Told(Append(args, w))
      BY <3>2, <3>3, <3>4, <3>6
    <3> HIDE DEF Told
    <3>8. QED
      BY <2>2, <3>3, <3>4, <3>5, <3>7
  <2>4. CASE args # << >>
    <3>1. PICK ws \in Seq(W), last \in W :
            ShellReads(Line(args)) = Shell(ws, last, "plain") /\ args = Append(ws, last)
      BY <2>1, <2>4
    <3> DEFINE opened == Append(Line(args), "space")
               part == <<"space">> \o Quoted(w)
    <3>2. Line(args) \in X /\ LineParts(args) \in Seq(X)
      BY <2>1
    <3> HIDE DEF Line
    <3>3. opened \in X /\ ShellReads(opened) = Shell(args, << >>, "between")
      <4>1. ShellReads(opened) = ShellStep(Shell(ws, last, "plain"), "space")
        BY <3>1, <3>2, CharsAre, ReadsAppend
      <4>2. opened \in X
        BY <3>2, CharsAre, OneAtTheEnd
      <4>3. QED
        BY <3>1, <4>1, <4>2, ShellSteps
    <3> HIDE DEF opened
    <3>4. Quoted(w) \in X /\ ShellReads(opened \o Quoted(w)) = Shell(args, w, "plain")
      BY <3>3, ReadsQuoted
    <3>5. <<"space">> \in X /\ part \in X
      <4>1. << >> \in X
        OBVIOUS
      <4>2. <<"space">> \in X
        BY <4>1, CharsAre, OneAtTheEnd
      <4>3. QED
        BY <3>4, <4>2, ConcatProperties
    <3>6. opened \o Quoted(w) = Line(args) \o part /\ opened \o Quoted(w) \in X
      <4> DEFINE t == Line(args)
                 q == Quoted(w)
                 b == <<"space">>
      <4>1. t \in Seq(Chars) /\ q \in Seq(Chars) /\ b \in Seq(Chars)
        BY <3>2, <3>4, <3>5
      <4>9. Append(t, "space") = t \o b
        BY <3>2, CharsAre, OneAtTheEnd
      <4> HIDE DEF t, q, b
      <4>2. (t \o b) \o q = t \o (b \o q) /\ (t \o b) \o q \in Seq(Chars)
        <5>1. (t \o b) \o q = t \o (b \o q)
          BY <4>1, TextAssociates
        <5>2. t \o b \in Seq(Chars)
          BY <4>1, ConcatProperties
        <5>3. (t \o b) \o q \in Seq(Chars)
          BY <4>1, <5>2, ConcatProperties
        <5>4. QED
          BY <5>1, <5>3
      <4>3. QED
        BY <4>2, <4>9 DEF t, q, b, opened
    <3>7. /\ LineParts(Append(args, w)) \in Seq(X)
          /\ Line(Append(args, w)) = Line(args) \o part
      <4> HIDE DEF X, W
      <4>1. QED
        BY <2>4, <3>2, <3>5, OnePartMore DEF Line
    <3> HIDE DEF part, X, W
    <3>8. Told(Append(args, w))
      BY <3>4, <3>6, <3>7
    <3> HIDE DEF Told
    <3>9. QED
      BY <2>2, <3>6, <3>7, <3>8 DEF Line
  <2>5. QED
    BY <2>3, <2>4
<1>3. \A args \in Seq(W) : args \in T
  <2>1. \A args \in Seq(W) : \A w \in W : args \in T => Append(args, w) \in T
    BY <1>2
  <2> HIDE DEF T, W
  <2>2. QED
    BY <1>1, <2>1, SeqSetInduction
<1>4. ASSUME NEW args \in Seq(W) PROVE Split(Line(args)) = args
  <2>1. P(args)
    BY <1>3
  <2>2. CASE args = << >>
    <3>1. Line(args) = << >>
      <4>1. LineParts(<< >>) = << >>
        BY DEF LineParts
      <4>2. QED
        BY <2>2, <4>1, NothingToRead
    <3> HIDE DEF Line
    <3>2. QED
      BY <2>2, <3>1, NothingToRead DEF Split, WordEnds, ShellStart
  <2>3. CASE args # << >>
    <3>1. PICK ws \in Seq(W), w \in W :
            ShellReads(Line(args)) = Shell(ws, w, "plain") /\ args = Append(ws, w)
      BY <2>1, <2>3
    <3> HIDE DEF Line, W
    <3>2. QED
      BY <3>1 DEF Split, WordEnds, Shell
  <2>4. QED
    BY <2>2, <2>3
<1>5. \A args : ShellJoin(args) = Line(args)
  BY DEF ShellJoin, LineParts, LinePart
<1> HIDE DEF Line
<1>6. QED
  BY <1>4, <1>5

-----------------------------------------------------------------------------
\* ls, tags and cp: what two views say.

\* A row of the table of ls is read as the file it shows.
LEMMA LsReads == \A S, path, filter : LsAgrees({FileInfo(e) : e \in S}, path, filter)
<1> SUFFICES ASSUME NEW S, NEW path, NEW filter
             PROVE  LsAgrees({FileInfo(e) : e \in S}, path, filter)
  OBVIOUS
<1> DEFINE files == {FileInfo(e) : e \in S}
           Row(f) == [type |-> f.type, mode |-> f.mode, size |-> f.content, shown |-> DisplayPath(f)]
           Read(row) == [path |-> row.shown[1], type |-> row.type, mode |-> row.mode,
                         content |-> row.size,
                         link |-> IF Len(row.shown) = 3 THEN row.shown[3] ELSE << >>]
           table == LsHuman(files, path, filter)[1].text
           doc == LsJson(files, path, filter)[1].text
<1>1. /\ doc.files = files
      /\ doc.message = IF files = {} THEN <<NoFiles(path, filter)>> ELSE << >>
  BY DEF LsJson, Encode, Write
<1>2. table = IF files = {} THEN NoFiles(path, filter) ELSE {Row(f) : f \in files}
  BY DEF LsHuman, Flush, Printf, Write
<1>3. \A f \in files : Read(Row(f)) = f
  <2> SUFFICES ASSUME NEW e \in S PROVE Read(Row(FileInfo(e))) = FileInfo(e)
    OBVIOUS
  <2> DEFINE s == FileState(e)
             f == [path |-> e.path, type |-> s.type, mode |-> s.mode, link |-> s.link,
                   content |-> s.content]
  <2>1. FileInfo(e) = f
    BY DEF FileInfo
  <2>2. f.type = "dir" => f.link = << >>
    BY DEF FileState
  <2> HIDE DEF s
  <2>3. Read(Row(f)) = f
    BY <2>2 DEF DisplayPath
  <2> HIDE DEF f, Read, Row
  <2>4. QED
    BY <2>1, <2>3
<1> HIDE DEF files, Row, Read, table, doc
<1>4. files # {} => files = {Read(row) : row \in {Row(f) : f \in files}}
  BY <1>3
<1>5. IF files = {} THEN doc.message = <<table>>
      ELSE doc.message = << >> /\ doc.files = {Read(row) : row \in table}
  BY <1>1, <1>2, <1>4
<1>6. QED
  BY <1>5 DEF LsAgrees, files, Read, table, doc

\* A tuple of one is a function on one number.
LEMMA OneTuple ==
  /\ \A x, s : s = <<x>> => DOMAIN s = 1..1 /\ s[1] = x
  /\ \A x : [k \in 1..1 |-> x] = <<x>>
OBVIOUS

\* The tags are the lines, and a line says so if there are none.
LEMMA TagsRead ==
  ASSUME NEW tags, IsSequence(tags)
  PROVE  LET doc == TagsJson(tags)[1].text
             Texts(writes) == [k \in DOMAIN writes |-> writes[k].text]
         IN  Texts(TagsHuman(tags)) = IF doc.tags = << >> THEN <<doc.message>> ELSE doc.tags
<1> DEFINE doc == TagsJson(tags)[1].text
           human == TagsHuman(tags)
           texts == [k \in DOMAIN human |-> human[k].text]
<1>1. doc.tags = tags /\ doc.message = IF tags = << >> THEN "No tags found" ELSE ""
  BY DEF TagsJson, Encode, Write
<1>2. CASE tags = << >>
  <2>1. human = <<Printf("No tags found")>>
    BY <1>2 DEF TagsHuman
  <2> DEFINE y == "No tags found"
             x == Printf(y)
  <2>2. x.text = y
    BY DEF Printf, Write
  <2>3. human = <<x>>
    BY <2>1
  <2> HIDE DEF x, y, human
  <2>4. DOMAIN human = 1..1 /\ human[1] = x
    BY <2>3, OneTuple
  <2>5. texts = [k \in 1..1 |-> y]
    BY <2>2, <2>4
  <2> HIDE DEF texts
  <2>6. texts = <<y>>
    BY <2>5, OneTuple
  <2>7. QED
    BY <1>1, <1>2, <2>6 DEF texts, human, y
<1>3. CASE tags # << >>
  <2>1. human = [k \in DOMAIN tags |-> Printf(tags[k])]
    BY <1>3 DEF TagsHuman
  <2>2. texts = [k \in DOMAIN tags |-> tags[k]]
    BY <2>1 DEF Printf, Write
  <2>3. tags = [k \in DOMAIN tags |-> tags[k]]
    BY DEF IsSequence
  <2> HIDE DEF texts
  <2>4. texts = doc.tags
    BY <1>1, <2>2, <2>3
  <2>5. QED
    BY <1>1, <1>3, <2>4 DEF texts
<1>4. QED
  BY <1>2, <1>3

\* cp tells how many files were copied, and has a line more if any was skipped.
LEMMA CpReads ==
  ASSUME NEW d
  PROVE  LET human == CpHuman(d)
             doc   == CpJson(d)[1].text
         IN  human[1].text.files = doc.files /\ (doc.skipped > 0 <=> Len(human) = 3)
<1> DEFINE doc == CpJson(d)[1].text
           files == Printf([files |-> d.files, noun |-> IF d.files = 1 THEN "file" ELSE "files"])
           skipped == Printf([skipped |-> d.skipped])
           end == Printf("")
<1>1. doc.files = d.files /\ doc.skipped = d.skipped /\ files.text.files = d.files
  BY DEF CpJson, Encode, Printf, Write
<1> DEFINE first == <<files>>
           more == IF d.skipped > 0 THEN <<skipped>> ELSE << >>
           last == <<end>>
<1>2. CpHuman(d) = (first \o more) \o last
  BY DEF CpHuman
<1> HIDE DEF doc, files, skipped, end
<1>3. /\ IsSequence(first) /\ Len(first) = 1 /\ first[1] = files
      /\ IsSequence(more) /\ Len(more) = IF d.skipped > 0 THEN 1 ELSE 0
      /\ IsSequence(last) /\ Len(last) = 1
  BY TuplesAreSequences
<1> HIDE DEF first, more, last
<1>4. /\ IsSequence(first \o more) /\ Len(first \o more) = Len(first) + Len(more)
      /\ \A k \in 1..Len(first) : (first \o more)[k] = first[k]
  BY <1>3, ConcatIsSequence
<1> DEFINE begin == first \o more
<1>5. /\ IsSequence(begin) /\ Len(begin) = (IF d.skipped > 0 THEN 2 ELSE 1) /\ begin[1] = files
  BY <1>3, <1>4
<1> HIDE DEF begin
<1>6. /\ Len(begin \o last) = Len(begin) + Len(last)
      /\ \A k \in 1..Len(begin) : (begin \o last)[k] = begin[k]
  BY <1>3, <1>5, ConcatIsSequence
<1>7. Len(begin \o last) = (IF d.skipped > 0 THEN 3 ELSE 2) /\ (begin \o last)[1] = files
  BY <1>3, <1>5, <1>6
<1>8. CpHuman(d)[1] = files /\ (d.skipped > 0 <=> Len(CpHuman(d)) = 3)
  BY <1>2, <1>7 DEF begin
<1>9. QED
  BY <1>1, <1>8 DEF doc

-----------------------------------------------------------------------------
\* inspect: what its two views say.

\* What is in a part is in all the parts joined.
LEMMA JoinedHolds ==
  ASSUME NEW parts, IsSequence(parts), \A k \in DOMAIN parts : IsSequence(parts[k])
  PROVE  /\ IsSequence(Joined(parts))
         /\ \A k \in DOMAIN parts : ToSet(parts[k]) \subseteq ToSet(Joined(parts))
<1> DEFINE R == ToSet(parts)
           P(s) == /\ IsSequence(Joined(s))
                   /\ \A x \in ToSet(s) : ToSet(x) \subseteq ToSet(Joined(s))
           T == {s \in Seq(R) : P(s)}
<1>1. \A x \in R : IsSequence(x)
  BY DEF ToSet
<1>2. parts \in Seq(R)
  BY DEF IsSequence
<1> HIDE DEF R
<1>3. << >> \in T
  <2>1. << >> \in Seq(R) /\ ToSet(<< >>) = {}
    BY DEF ToSet
  <2>2. QED
    BY <2>1, NothingToRead, TuplesAreSequences
<1>4. ASSUME NEW s \in Seq(R), NEW x \in R, s \in T PROVE Append(s, x) \in T
  <2>1. P(s) /\ IsSequence(x)
    BY <1>1, <1>4
  <2>2. Joined(Append(s, x)) = Joined(s) \o x
    BY JoinedAppend
  <2>3. /\ IsSequence(Joined(s) \o x)
        /\ ToSet(Joined(s) \o x) = ToSet(Joined(s)) \cup ToSet(x)
    BY <2>1, ConcatHolds
  <2>4. Append(s, x) \in Seq(R) /\ ToSet(Append(s, x)) \subseteq ToSet(s) \cup {x}
    <3>1. /\ Append(s, x) \in Seq(R) /\ Len(Append(s, x)) = Len(s) + 1
          /\ Append(s, x)[Len(s) + 1] = x
          /\ \A k \in 1..Len(s) : Append(s, x)[k] = s[k]
      BY AppendProperties
    <3>2. \A k \in 1..(Len(s) + 1) : k \in 1..Len(s) \/ k = Len(s) + 1
      OBVIOUS
    <3>3. DOMAIN Append(s, x) = 1..(Len(s) + 1) /\ DOMAIN s = 1..Len(s)
      BY <3>1
    <3>4. \A y \in ToSet(Append(s, x)) : y \in ToSet(s) \cup {x}
      BY <3>1, <3>2, <3>3 DEF ToSet
    <3>5. QED
      BY <3>1, <3>4
  <2>5. QED
    BY <2>1, <2>2, <2>3, <2>4
<1>5. \A s \in Seq(R) : s \in T
  <2>1. \A s \in Seq(R) : \A x \in R : s \in T => Append(s, x) \in T
    BY <1>4
  <2> HIDE DEF T
  <2>2. QED
    BY <1>3, <2>1, SeqSetInduction
<1>6. P(parts)
  BY <1>2, <1>5
<1>7. \A k \in DOMAIN parts : parts[k] \in ToSet(parts)
  BY DEF ToSet
<1>8. QED
  BY <1>6, <1>7

\* The tables inspect writes: of layers, and of annotations if there are any.
LEMMA InspectWrites ==
  ASSUME NEW d
  PROVE  LET shows(rows) == Flush(rows) \in ToSet(InspectHuman(d)) IN
         /\ shows([k \in DOMAIN d.layers |-> [index |-> d.layers[k].index,
                                              digest |-> d.layers[k].digest]])
         /\ AnnotationRows(d.layers) # << >> => shows(AnnotationRows(d.layers))
<1> DEFINE table == [k \in DOMAIN d.layers |-> [index |-> d.layers[k].index,
                                                digest |-> d.layers[k].digest]]
           title == <<Printf("Image:")>>
           config == RenderConfig(d.config)
           layers == <<Printf("Layers:"), Flush(table)>>
           rows == IF AnnotationRows(d.layers) = << >> THEN << >>
                   ELSE <<Printf("Layer annotations:"), Flush(AnnotationRows(d.layers))>>
<1>1. InspectHuman(d) = ((title \o config) \o layers) \o rows
  BY DEF InspectHuman
<1>2. IsSequence(title) /\ IsSequence(layers) /\ IsSequence(rows)
  BY TuplesAreSequences
<1>3. IsSequence(config)
  BY ConfigIsSequence
<1>4. \A x, y : y \in ToSet(<<x, y>>)
  BY DEF ToSet
<1>5. /\ Flush(table) \in ToSet(layers)
      /\ AnnotationRows(d.layers) # << >> => Flush(AnnotationRows(d.layers)) \in ToSet(rows)
  BY <1>4
<1> HIDE DEF table, title, config, layers, rows
<1>6. IsSequence(title \o config)
  BY <1>2, <1>3, ConcatHolds
<1>7. /\ IsSequence((title \o config) \o layers)
      /\ ToSet(layers) \subseteq ToSet((title \o config) \o layers)
  BY <1>2, <1>6, ConcatHolds
<1>8. ToSet(((title \o config) \o layers) \o rows)
        = ToSet((title \o config) \o layers) \cup ToSet(rows)
  BY <1>2, <1>7, ConcatHolds
<1>9. QED
  BY <1>1, <1>5, <1>7, <1>8 DEF table

\* What inspect says of the layers in a table it says of them in the document.
LEMMA InspectReads ==
  ASSUME NEW d, IsSequence(d.layers),
         \A k \in DOMAIN d.layers : /\ d.layers[k].index = k
                                    /\ IsSequence(d.layers[k].annotations)
  PROVE  LET human == InspectHuman(d)
             doc   == InspectJson(d)[1].text
             Rows(write) == IF write.call = "Flush" THEN ToSet(write.text) ELSE {}
             rows  == UNION {Rows(human[k]) : k \in DOMAIN human}
         IN  \A k \in DOMAIN doc.layers :
               /\ [index |-> k, digest |-> doc.layers[k].digest] \in rows
               /\ \A j \in DOMAIN doc.layers[k].annotations :
                    \E row \in rows : /\ row.index = k /\ "value" \in DOMAIN row
                                      /\ row.value = Truncate(doc.layers[k].annotations[j])
<1> DEFINE human == InspectHuman(d)
           doc   == InspectJson(d)[1].text
           Rows(write) == IF write.call = "Flush" THEN ToSet(write.text) ELSE {}
           rows  == UNION {Rows(human[k]) : k \in DOMAIN human}
           layers == d.layers
           table == [k \in DOMAIN layers |-> [index |-> layers[k].index,
                                              digest |-> layers[k].digest]]
           Row(k, j) == [index |-> layers[k].index, value |-> Truncate(layers[k].annotations[j])]
           part(k) == [j \in DOMAIN layers[k].annotations |-> Row(k, j)]
           parts == [k \in DOMAIN layers |-> part(k)]
           told == AnnotationRows(layers)
<1>1. doc = d
  BY DEF InspectJson, Encode, Write
<1>2. \A t : Flush(t) \in ToSet(human) => ToSet(t) \subseteq rows
  <2> SUFFICES ASSUME NEW t, Flush(t) \in ToSet(human) PROVE ToSet(t) \subseteq rows
    OBVIOUS
  <2>1. Flush(t).call = "Flush" /\ Flush(t).text = t
    BY DEF Flush, Write
  <2>2. Rows(Flush(t)) = ToSet(t)
    BY <2>1
  <2> HIDE DEF human, Rows
  <2>3. PICK k \in DOMAIN human : human[k] = Flush(t)
    BY DEF ToSet
  <2>4. QED
    BY <2>2, <2>3
<1>3. Flush(table) \in ToSet(human) /\ (told # << >> => Flush(told) \in ToSet(human))
  BY InspectWrites
<1>4. told = Joined(parts)
  BY DEF AnnotationRows
<1>5. IsSequence(parts) /\ \A k \in DOMAIN parts : IsSequence(parts[k])
  <2>1. \A k \in DOMAIN layers : IsSequence(part(k))
    <3> SUFFICES ASSUME NEW k \in DOMAIN layers PROVE IsSequence(part(k))
      OBVIOUS
    <3>1. IsSequence(layers[k].annotations)
      OBVIOUS
    <3> DEFINE n == Len(layers[k].annotations)
    <3>2. n \in Nat /\ DOMAIN layers[k].annotations = 1..n
      BY <3>1, SequenceFacts
    <3> HIDE DEF n, Row
    <3>3. DOMAIN part(k) = 1..n /\ part(k) = [j \in 1..n |-> part(k)[j]]
      BY <3>2
    <3> HIDE DEF part
    <3>4. QED
      BY <3>2, <3>3, FunctionIsSequence
  <2> HIDE DEF part
  <2> DEFINE m == Len(layers)
  <2>2. m \in Nat /\ DOMAIN layers = 1..m
    BY SequenceFacts
  <2> HIDE DEF m, layers
  <2>3. DOMAIN parts = 1..m /\ parts = [k \in 1..m |-> parts[k]]
    BY <2>2
  <2>4. \A k \in DOMAIN parts : IsSequence(parts[k])
    BY <2>1, <2>2
  <2> HIDE DEF parts
  <2>5. QED
    BY <2>2, <2>3, <2>4, FunctionIsSequence
<1>6. \A k \in DOMAIN layers : \A j \in DOMAIN layers[k].annotations : Row(k, j) \in ToSet(told)
  <2> SUFFICES ASSUME NEW k \in DOMAIN layers, NEW j \in DOMAIN layers[k].annotations
               PROVE  Row(k, j) \in ToSet(told)
    OBVIOUS
  <2>1. parts[k] = part(k) /\ k \in DOMAIN parts /\ j \in DOMAIN part(k) /\ part(k)[j] = Row(k, j)
    OBVIOUS
  <2> HIDE DEF parts, part, Row, told
  <2>2. ToSet(parts[k]) \subseteq ToSet(told)
    BY <1>4, <1>5, <2>1, JoinedHolds
  <2>3. Row(k, j) \in ToSet(part(k))
    BY <2>1 DEF ToSet
  <2>4. QED
    BY <2>1, <2>2, <2>3
<1>7. ASSUME NEW k \in DOMAIN layers
      PROVE  /\ [index |-> k, digest |-> layers[k].digest] \in rows
             /\ \A j \in DOMAIN layers[k].annotations :
                  \E row \in rows : /\ row.index = k /\ "value" \in DOMAIN row
                                    /\ row.value = Truncate(layers[k].annotations[j])
  <2>1. table[k] = [index |-> k, digest |-> layers[k].digest] /\ table[k] \in ToSet(table)
    BY DEF ToSet
  <2>2. ToSet(table) \subseteq rows
    <3> HIDE DEF table, rows, human
    <3>1. QED
      BY <1>2, <1>3
  <2>3. ASSUME NEW j \in DOMAIN layers[k].annotations
        PROVE  \E row \in rows : /\ row.index = k /\ "value" \in DOMAIN row
                                 /\ row.value = Truncate(layers[k].annotations[j])
    <3>1. Row(k, j) \in ToSet(told)
      BY <1>6
    <3>2. told # << >>
      <4>1. ToSet(<< >>) = {}
        BY DEF ToSet
      <4> HIDE DEF told, Row
      <4>2. QED
        BY <3>1, <4>1
    <3>3. ToSet(told) \subseteq rows
      <4> HIDE DEF told, rows, human
      <4>1. QED
        BY <1>2, <1>3, <3>2
    <3>4. Row(k, j) \in rows
      BY <3>1, <3>3
    <3>5. /\ Row(k, j).index = k /\ "value" \in DOMAIN Row(k, j)
          /\ Row(k, j).value = Truncate(layers[k].annotations[j])
      OBVIOUS
    <3> HIDE DEF rows, Row
    <3>6. QED
      BY <3>4, <3>5
  <2> HIDE DEF table, rows
  <2>4. QED
    BY <2>1, <2>2, <2>3
<1> HIDE DEF rows, doc
<1>8. QED
  BY <1>1, <1>7 DEF rows, doc, Rows, human

-----------------------------------------------------------------------------
\* What there is to be shown.

\* What inspect has for its views is the layers of the image and its config.
InspectInv == Ran("inspect") => data = [layers |-> LayerData, config |-> input.config]

\* inspect is done when it was done already or has taken its only step.
LEMMA InspectPlaces ==
  ASSUME CommandInv, [Next]_vars, pc' = "done", input.name = "inspect"
  PROVE  (pc = "done" /\ UNCHANGED <<commandVars, data>>) \/ InspectImage
<1>1. input.name \notin DOMAIN Works
  BY DEF Works
<1>2. CASE Execute
  <2>1. CASE Start
    <3>1. FirstStep = "fetch"
      BY DEF FirstStep
    <3>2. QED
      BY <2>1, <3>1 DEF Start
  <2>2. QED
    BY <1>2, <2>1 DEF Execute, UsageError, Render, Report
<1>3. CASE Fetching
  BY <1>3 DEF Fetching, FetchImage, BadArgument, ChooseSource, DaemonAnswers, DaemonFails,
     BadPlatform, RegistryAnswers, RegistryFails, FetchFailed, Fetched
<1>4. CASE Load \/ NoSuchLayer \/ LoadError
  BY <1>1, <1>4 DEF Load, NoSuchLayer, LoadError, Loading
<1>5. CASE Work
  BY <1>5 DEF Work, MapTree, PrintEntry, List, PrintEnd, Compare, CommandInv
<1>6. CASE Find \/ Reading
  BY <1>6 DEF Find, Reading, ReadFails, OpenFile, Copy, CommandInv
<1>7. CASE Handed
  <2>1. pc \notin {"blob", "tags"}
    BY DEF CommandInv
  <2>2. QED
    BY <1>7, <2>1 DEF Handed, CheckLayer, NoSuchBlob, OpenBlob, WriteTarball, TarballFails,
       PrintDocument, InspectImage, DocumentError, BadReference, ListTags, TagsFail, Fail
<1>8. CASE UNCHANGED vars
  BY <1>8 DEF vars, documentVars, commandVars
<1>9. QED
  BY <1>2, <1>3, <1>4, <1>5, <1>6, <1>7, <1>8 DEF Next, Ended

\* Every step keeps InspectInv.
LEMMA InspectStep ==
  ASSUME CommandInv, InspectInv, [Next]_vars
  PROVE  InspectInv'
<1> SUFFICES ASSUME (Ran("inspect"))'
             PROVE  (data = [layers |-> LayerData, config |-> input.config])'
  BY DEF InspectInv
<1>1. input' = input
  BY InputStays
<1>2. input.name = "inspect" /\ pc' = "done"
  BY <1>1 DEF Ran
<1>3. image' = image => LayerData' = LayerData
  BY <1>1 DEF LayerData, Manifest
<1>4. CASE InspectImage
  <2>1. data' = [layers |-> LayerData, config |-> input.config] /\ image' = image
    BY <1>4 DEF InspectImage, Hand, context
  <2>2. QED
    BY <1>1, <1>3, <2>1
<1>5. CASE pc = "done" /\ UNCHANGED <<commandVars, data>>
  <2>1. Ran("inspect") /\ image' = image /\ data' = data
    BY <1>2, <1>5 DEF Ran, commandVars, context
  <2>2. data = [layers |-> LayerData, config |-> input.config]
    BY <2>1 DEF InspectInv
  <2>3. QED
    BY <1>1, <1>3, <2>1, <2>2
<1>6. QED
  BY <1>2, <1>4, <1>5, InspectPlaces

\* The Entrypoint and the Cmd of an image, printed as a shell line (shellJoin of
\* view/inspect.go), are read by a shell as what they are, if it keeps each word.
THEOREM ArgvReadsBack == Spec => []ShellJoinReadsBack
<1>1. Init => InspectInv
  BY DEF Init, InspectInv, Ran
<1>2. IInv /\ InspectInv /\ [Next]_vars => InspectInv'
  BY InspectStep DEF IInv
<1>3. input \in Inputs /\ InspectInv => ShellJoinReadsBack
  <2> SUFFICES ASSUME input \in Inputs, InspectInv, Ran("inspect"),
                      NEW field \in {"Entrypoint", "Cmd"},
                      \A k \in DOMAIN data.config[field] : ShellKeeps(data.config[field][k])
               PROVE  Split(ShellJoin(data.config[field])) = data.config[field]
    BY DEF ShellJoinReadsBack
  <2> DEFINE args == data.config[field]
  <2>1. args \in Seq(Seq(STRING))
    <3>1. data.config = input.config
      BY DEF InspectInv
    <3>2. {input.config["Entrypoint"], input.config["Cmd"]} \subseteq Seq(Seq(STRING))
      BY InputsAssumption
    <3>3. QED
      BY <3>1, <3>2
  <2>2. \A k \in DOMAIN args : ShellKeeps(args[k])
    OBVIOUS
  <2> HIDE DEF args
  <2>3. ASSUME NEW k \in 1..Len(args) PROVE args[k] \in KeptWord
    <3> DEFINE word == args[k]
               R == Chars
    <3>1. word \in Seq(STRING) /\ ShellKeeps(word)
      BY <2>1, <2>2
    <3> HIDE DEF word
    <3>2. \A j \in 1..Len(word) : word[j] \in R
      BY <3>1 DEF Chars
    <3> HIDE DEF R
    <3>3. word \in Seq(R)
      BY <3>1, <3>2
    <3>4. QED
      BY <3>1, <3>3 DEF word, R, KeptWord
  <2>4. args \in Seq(KeptWord)
    <3> DEFINE W == KeptWord
    <3>1. \A k \in 1..Len(args) : args[k] \in W
      BY <2>3
    <3> HIDE DEF W
    <3>2. args \in Seq(W)
      BY <2>1, <3>1
    <3>3. QED
      BY <3>2 DEF W
  <2>5. QED
    BY <2>4, ReadsBack DEF args
<1>4. QED
  BY <1>1, <1>2, <1>3, ProgramKeeps, PTL DEF Spec

\* What an image is to inspect: a list of layers numbered from 1.
LEMMA InspectData ==
  ASSUME LoadInv, input \in Inputs, InspectInv, Ran("inspect")
  PROVE  /\ IsSequence(data.layers)
         /\ \A k \in DOMAIN data.layers : /\ data.layers[k].index = k
                                          /\ IsSequence(data.layers[k].annotations)
<1> DEFINE Notes(k) == IF k \in DOMAIN input.annotations THEN input.annotations[k] ELSE << >>
           n == Len(image.layers)
           row(k) == [index |-> k, digest |-> Manifest[k], annotations |-> Notes(k)]
           layers == data.layers
<1>1. n \in Nat /\ DOMAIN image.layers = 1..n
  BY DEF LoadInv
<1>2. \A k : IsSequence(Notes(k))
  <2> DEFINE A == Seq(Seq(STRING))
             notes == input.annotations
  <2>1. notes \in Seq(A)
    BY InputsAssumption
  <2>2. \A a \in A : IsSequence(a)
    <3> DEFINE B == Seq(STRING)
    <3>1. \A a \in Seq(B) : a \in Seq(ToSet(a))
      <4> HIDE DEF B
      <4>1. QED
        BY DEF ToSet
    <3>2. QED
      BY <3>1 DEF IsSequence
  <2> HIDE DEF A, notes
  <2>3. \A k \in DOMAIN notes : IsSequence(notes[k])
    BY <2>1, <2>2
  <2>4. IsSequence(<< >>)
    BY TuplesAreSequences
  <2>5. QED
    BY <2>3, <2>4 DEF notes
<1>3. layers = [k \in DOMAIN image.layers |-> row(k)]
  BY DEF InspectInv, LayerData
<1> HIDE DEF n, Notes
<1>4. \A k : row(k).index = k /\ row(k).annotations = Notes(k)
  OBVIOUS
<1> HIDE DEF row, layers
<1>5. DOMAIN layers = 1..n /\ layers = [k \in 1..n |-> layers[k]]
      /\ \A k \in 1..n : layers[k] = row(k)
  BY <1>1, <1>3
<1>6. IsSequence(layers)
  BY <1>1, <1>5, FunctionIsSequence
<1>7. \A k \in DOMAIN layers : layers[k].index = k /\ IsSequence(layers[k].annotations)
  BY <1>2, <1>4, <1>5
<1>8. QED
  BY <1>6, <1>7 DEF layers
=============================================================================
