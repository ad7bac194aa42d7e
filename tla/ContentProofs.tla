---------------------------- MODULE ContentProofs ----------------------------
(***************************************************************************)
(* Proofs about Content: what Open and Extract hand over is complete, once *)
(* each, and what Build recorded.                                          *)
(***************************************************************************)
EXTENDS Content, PathProofs, FiniteSetTheorems

-----------------------------------------------------------------------------
\* What an archive and the entries asked for are.

\* The name of an entry is a clean path.
LEMMA CleanInPath == \A n \in RawNames \cup {<< >>} : Clean(n) \in Path
BY DEF Path

\* The positions of a path in an archive are finitely many, so the last one exists.
LEMMA PositionsBound ==
  ASSUME NEW a \in Seq(Header), NEW p
  PROVE  /\ Positions(a, p) \in SUBSET (1..Len(a)) /\ IsFiniteSet(Positions(a, p))
         /\ Positions(a, p) # {} => Max(Positions(a, p)) \in Positions(a, p)
<1>1. Positions(a, p) \in SUBSET (1..Len(a)) /\ Len(a) \in Nat
  BY DEF Positions
<1>2. IsFiniteSet(1..Len(a))
  BY <1>1, FS_Interval
<1>3. QED
  BY <1>1, <1>2, FS_Subset, MaxOfSome

\* The entry made of a header has the fields of one.
LEMMA EntryType ==
  ASSUME NEW a \in Seq(Header), NEW k \in DOMAIN a
  PROVE  EntryOf(a, a[k]) \in Entry
<1> DEFINE h == a[k]
           ks == Positions(a, Clean(h.link))
<1>1. h \in Header /\ DOMAIN a = 1..Len(a)
  OBVIOUS
<1>2. /\ h.name \in RawNames /\ h.kind \in Kinds
      /\ h.link \in RawNames \cup {<< >>} /\ h.content \in Contents \cup {NoContent}
  BY <1>1 DEF Header
<1>3. Clean(h.name) \in Path /\ Clean(h.link) \in Path
  BY <1>2, CleanInPath
<1>4. ks # {} => Max(ks) \in DOMAIN a
  BY <1>1, PositionsBound
<1>5. ks # {} => a[Max(ks)].content \in Contents \cup {NoContent}
  <2>1. ks # {} => a[Max(ks)] \in Header
    BY <1>4
  <2>2. QED
    BY <2>1 DEF Header
<1>6. Recorded(a, h) \in Contents \cup {NoContent}
  BY <1>2, <1>5 DEF Recorded
<1>7. ContentPath(h) \in Path
  BY <1>3 DEF ContentPath
<1>8. QED
  BY <1>2, <1>3, <1>6, <1>7 DEF EntryOf, Entry

\* The archive of the layer that is read is one the merge has seen.
LEMMA ArchiveType ==
  ASSUME AskedInv
  PROVE  /\ archive \in Seq(Header) /\ Len(archive) \in Nat
         /\ DOMAIN archive = 1..Len(archive)
         /\ \A k \in DOMAIN archive : archive[k] \in Header /\ WellFormed(archive[k])
<1>1. archive \in Seq({h \in Header : WellFormed(h)})
  BY DEF AskedInv
<1>2. {h \in Header : WellFormed(h)} \subseteq Header
  OBVIOUS
<1>3. archive \in Seq(Header)
  BY <1>1, <1>2, SeqMonotonic
<1>4. QED
  BY <1>1, <1>3, ElementOfSeq, LenProperties

\* What is asked for is a finite set of entries.
LEMMA AskedFinite ==
  ASSUME AskedInv
  PROVE  IsFiniteSet(asked) /\ asked \subseteq Entry
<1> DEFINE D == {j \in DOMAIN archive : Adds(archive[j])}
           f == [k \in D |-> EntryOf(archive, archive[k])]
           R == {f[k] : k \in D}
<1>1. IsFiniteSet(D)
  <2>1. D \in SUBSET (1..Len(archive)) /\ IsFiniteSet(1..Len(archive))
    BY ArchiveType, FS_Interval
  <2>2. QED
    BY <2>1, FS_Subset
<1>2. f \in Surjection(D, R)
  BY DEF Surjection
<1>3. IsFiniteSet(R)
  BY <1>1, <1>2, FS_Surjection
<1>4. asked \in SUBSET R
  BY DEF AskedInv
<1>5. IsFiniteSet(asked)
  BY <1>3, <1>4, FS_Subset
<1>6. R \subseteq Entry
  BY ArchiveType, EntryType
<1>7. QED
  BY <1>4, <1>5, <1>6

\* The entries this header holds the bytes of.
LEMMA HoldersFacts ==
  ASSUME TypeOK, AskedInv, Reading
  PROVE  /\ at \in DOMAIN archive /\ header \in Header
         /\ Holders \subseteq wanted /\ Holders \subseteq asked
         /\ \A e \in wanted : e \in Holders <=> Holds(header, e)
         /\ Holders # {} => header.content \in Contents
<1>1. at \in DOMAIN archive /\ header \in Header /\ WellFormed(header)
  BY ArchiveType DEF TypeOK, Reading, header
<1>2. Holders \subseteq wanted /\ Holders \subseteq asked
  BY DEF Holders, TypeOK
<1>3. \A e \in wanted : e \in Holders <=> Holds(header, e)
  BY DEF Holders, Holds
<1>4. Holders # {} => header.kind = "reg"
  BY DEF Holders, HoldsBytes
<1>5. header.kind = "reg" => header.content \in Contents
  BY <1>1 DEF Header, WellFormed
<1>6. QED
  BY <1>1, <1>2, <1>3, <1>4, <1>5

-----------------------------------------------------------------------------
\* The invariant holds initially and after each step.

\* The invariant holds before a layer is opened.
LEMMA InitInv == Init => IInv
<1> SUFFICES ASSUME Init PROVE IInv
  OBVIOUS
<1>1. PICK img \in Images : \E i \in DOMAIN img :
        archive = img[i] /\ asked \in SUBSET ShownFrom(img, i)
  BY DEF Init
<1>2. PICK i \in DOMAIN img : archive = img[i] /\ asked \in SUBSET ShownFrom(img, i)
  BY <1>1
<1>3. archive \in Seq({h \in Header : WellFormed(h)})
  <2>1. img \in Seq(Seq({h \in Header : WellFormed(h)}))
    BY ImagesAssumption
  <2>2. QED
    BY <1>2, <2>1
<1>4. {h \in Header : WellFormed(h)} \subseteq Header
  OBVIOUS
<1>5. archive \in Seq(Header)
  BY <1>3, <1>4, SeqMonotonic
<1>6. asked \subseteq {EntryOf(archive, archive[k]) :
                          k \in {j \in DOMAIN archive : Adds(archive[j])}}
  <2> SUFFICES ASSUME NEW e \in asked
               PROVE  \E k \in DOMAIN archive : Adds(archive[k]) /\ e = EntryOf(archive, archive[k])
    OBVIOUS
  <2>1. PICK p \in Path : /\ i \in KeptLayers(img, Len(img), p)
                          /\ e = EntryOf(img[i], img[i][Max(Positions(img[i], p))])
    BY <1>2 DEF ShownFrom
  <2>2. Positions(archive, p) # {}
    BY <1>2, <2>1 DEF KeptLayers, LayersWith
  <2>3. Max(Positions(archive, p)) \in Positions(archive, p)
    BY <1>5, <2>2, PositionsBound
  <2>4. QED
    BY <1>2, <2>1, <2>3 DEF Positions
<1>7. AskedInv
  BY <1>3, <1>6 DEF AskedInv, Init
<1>8. asked \subseteq Entry
  BY <1>7, AskedFinite
<1>9. TypeOK
  BY <1>5, <1>8 DEF TypeOK, Init
<1>10. PhaseInv /\ EachEntryOnce /\ SourceInv /\ AheadInv
  BY DEF Init, PhaseInv, EachEntryOnce, SourceInv, AheadInv
<1>11. QED
  BY <1>7, <1>9, <1>10 DEF IInv, Init

\* No step changes what was asked for, so AskedInv stays.
LEMMA AskedStep == AskedInv /\ [Next]_vars => AskedInv'
<1>1. [Next]_vars => archive' = archive /\ asked' = asked /\ call' = call
  BY DEF Next, Step, Error, Returned, NotRegular, NothingAsked, OpenLayer, SkipHeader,
         GiveOne, ReadShared, GiveShared, EndOfArchive, AllGiven, OpenError,
         HeaderError, ReadError, CallerError, Finish, vars
<1>2. QED
  BY <1>1 DEF AskedInv

\* The invariant speaks of the variables alone.
LEMMA Unchanged ==
  ASSUME UNCHANGED vars
  PROVE  IInv' <=> IInv
BY DEF vars, IInv, TypeOK, AskedInv, PhaseInv, EachEntryOnce, SourceInv, AheadInv,
       Regular, Source, Holds, Ordinary, Positions

\* A call that returns changes nothing but how it returned.
LEMMA FinishStep ==
  ASSUME IInv, NEW o \in Outcomes, Finish(o), pc \in {"open", "read", "share"},
         o = "ok" => wanted = {},
         o = "callerError" \/ pc # "share",
         o = "notFound" => wanted # {} /\ at > Len(archive) /\ pc = "read"
  PROVE  IInv'
<1>1. UNCHANGED <<archive, call, asked, wanted, sharing, data, at, given>> /\ pc' = o
  BY DEF Finish
<1>2. TypeOK' /\ AskedInv'
  BY <1>1 DEF IInv, TypeOK, AskedInv
<1>3. PhaseInv'
  BY <1>1 DEF IInv, PhaseInv, Outcomes, Regular
<1>4. EachEntryOnce' /\ SourceInv'
  BY <1>1 DEF IInv, EachEntryOnce, SourceInv, Source, Holds
<1>5. AheadInv'
  BY <1>1 DEF AheadInv, Outcomes
<1>6. Ordinary(archive) => o # "notFound"
  <2> SUFFICES ASSUME Ordinary(archive), o = "notFound" PROVE FALSE
    OBVIOUS
  <2>1. PICK e \in wanted : \E j \in at..Len(archive) : Holds(archive[j], e)
    BY DEF IInv, AheadInv
  <2>2. at \in Int /\ Len(archive) \in Int
    BY ArchiveType DEF IInv, TypeOK
  <2>3. QED
    BY <2>1, <2>2
<1>7. (Ordinary(archive) => pc # "notFound")'
  BY <1>1, <1>6 DEF Ordinary, Positions
<1>8. QED
  BY <1>2, <1>3, <1>4, <1>5, <1>7 DEF IInv

\* Opening the layer keeps the invariant.
LEMMA OpenStep == IInv /\ OpenLayer => IInv'
<1> SUFFICES ASSUME IInv, OpenLayer PROVE IInv'
  OBVIOUS
<1>1. /\ UNCHANGED <<archive, call, asked, wanted, sharing, data, at, given>>
      /\ pc = "open" /\ pc' = "read" /\ Regular
  BY DEF OpenLayer, Finish
<1>2. TypeOK' /\ AskedInv'
  BY <1>1 DEF IInv, TypeOK, AskedInv
<1>3. PhaseInv'
  BY <1>1 DEF IInv, PhaseInv, Regular
<1>4. EachEntryOnce' /\ SourceInv'
  BY <1>1 DEF IInv, EachEntryOnce, SourceInv, Source, Holds
<1>5. AheadInv'
  <2> SUFFICES ASSUME Ordinary(archive), NEW e \in asked
               PROVE  \E j \in DOMAIN archive : Holds(archive[j], e)
    BY <1>1, ArchiveType DEF AheadInv, IInv, PhaseInv, Ordinary, Positions, Holds
  <2>1. PICK k \in DOMAIN archive : Adds(archive[k]) /\ e = EntryOf(archive, archive[k])
    BY DEF IInv, AskedInv
  <2>2. CASE archive[k].kind = "reg"
    BY <2>1, <2>2 DEF EntryOf, ContentPath, Holds, HoldsBytes
  <2>3. CASE archive[k].kind = "hardlink"
    <3>1. PICK j \in Positions(archive, Clean(archive[k].link)) : archive[j].kind = "reg"
      BY <2>1, <2>3 DEF Ordinary
    <3>2. QED
      BY <2>1, <2>3, <3>1 DEF Positions, EntryOf, ContentPath, Holds, HoldsBytes
  <2>4. QED
    BY <1>1, <2>1, <2>2, <2>3 DEF Regular, IsRegular, EntryOf
<1>6. QED
  BY <1>1, <1>2, <1>3, <1>4, <1>5 DEF IInv

\* The loop goes on: what this header does not hold is still ahead.
LEMMA AheadStep ==
  ASSUME IInv, Reading, archive' = archive, at' = at + 1, wanted' = wanted \ Holders
  PROVE  AheadInv'
<1> SUFFICES ASSUME Ordinary(archive), NEW e \in wanted, e \notin Holders
             PROVE  \E j \in (at + 1)..Len(archive) : Holds(archive[j], e)
  BY DEF AheadInv, Ordinary, Positions, Holds
<1>1. PICK j \in at..Len(archive) : Holds(archive[j], e)
  BY DEF IInv, AheadInv, Reading
<1>2. j # at
  BY <1>1, HoldersFacts DEF IInv, header
<1>3. at \in Int /\ Len(archive) \in Int
  BY ArchiveType DEF IInv, TypeOK
<1>4. QED
  BY <1>1, <1>2, <1>3

\* A header nobody asked for keeps the invariant.
LEMMA SkipStep == IInv /\ SkipHeader => IInv'
<1> SUFFICES ASSUME IInv, SkipHeader PROVE IInv'
  OBVIOUS
<1>1. /\ UNCHANGED <<archive, call, asked, wanted, sharing, data, given, pc>>
      /\ pc = "read" /\ at' = at + 1 /\ Reading /\ Holders = {}
  BY DEF SkipHeader, Reading
<1>2. at \in DOMAIN archive /\ DOMAIN archive = 1..Len(archive) /\ Len(archive) \in Nat
  BY <1>1, HoldersFacts, ArchiveType DEF IInv
<1>3. TypeOK' /\ AskedInv'
  BY <1>1, <1>2 DEF IInv, TypeOK, AskedInv
<1>4. PhaseInv'
  BY <1>1 DEF IInv, PhaseInv, Regular
<1>5. EachEntryOnce' /\ SourceInv'
  BY <1>1 DEF IInv, EachEntryOnce, SourceInv, Source, Holds
<1>6. AheadInv'
  BY <1>1, AheadStep
<1>7. QED
  BY <1>1, <1>3, <1>4, <1>5, <1>6 DEF IInv

\* Reading a content that several entries share keeps the invariant.
LEMMA ReadSharedStep == IInv /\ ReadShared => IInv'
<1> SUFFICES ASSUME IInv, ReadShared PROVE IInv'
  OBVIOUS
<1>1. /\ UNCHANGED <<archive, call, asked, given>> /\ Reading
      /\ pc = "read" /\ pc' = "share" /\ at' = at + 1
      /\ data' = header.content /\ sharing' = Holders /\ wanted' = wanted \ Holders
  BY DEF ReadShared, Reading
<1>2. sharing = {}
  BY <1>1 DEF IInv, PhaseInv
<1>3. Holders # {}
  BY FS_EmptySet DEF ReadShared
<1>4. /\ at \in DOMAIN archive /\ DOMAIN archive = 1..Len(archive)
      /\ Len(archive) \in Nat /\ Holders \subseteq wanted
      /\ header.content \in Contents /\ \A e \in Holders : Holds(header, e)
  BY <1>1, <1>3, HoldersFacts, ArchiveType DEF IInv
<1>5. TypeOK' /\ AskedInv'
  BY <1>1, <1>4 DEF IInv, TypeOK, AskedInv
<1>6. PhaseInv'
  BY <1>1 DEF IInv, PhaseInv, Regular
<1>7. EachEntryOnce'
  BY <1>2, <1>1, <1>4 DEF IInv, EachEntryOnce
<1>8. SourceInv'
  <2>1. \A e \in Holders : Source(e, header.content)
    BY <1>4 DEF Source, header
  <2>2. QED
    BY <1>1, <2>1 DEF IInv, SourceInv, Source, Holds
<1>9. AheadInv'
  BY <1>1, AheadStep
<1>10. QED
  BY <1>1, <1>5, <1>6, <1>7, <1>8, <1>9 DEF IInv

\* Giving the shared content to every one of them keeps the invariant.
LEMMA GiveSharedStep == IInv /\ GiveShared => IInv'
<1> SUFFICES ASSUME IInv, GiveShared PROVE IInv'
  OBVIOUS
<1>1. PICK e \in sharing : /\ given' = given \cup {[entry |-> e, content |-> data]}
                           /\ sharing' = sharing \ {e}
                           /\ pc' = IF sharing' = {} THEN "read" ELSE "share"
  BY DEF GiveShared
<1>2. UNCHANGED <<archive, call, asked, wanted, data, at>> /\ pc = "share"
  BY DEF GiveShared
<1>3. e \in asked /\ e \notin wanted
  BY DEF IInv, TypeOK, EachEntryOnce
<1>4. data \in Contents
  <2>1. PICK j \in DOMAIN archive : Holds(archive[j], e) /\ archive[j].content = data
    BY DEF IInv, SourceInv, Source
  <2>2. archive[j] \in Header /\ WellFormed(archive[j]) /\ archive[j].kind = "reg"
    BY <2>1, ArchiveType DEF IInv, Holds, HoldsBytes
  <2>3. QED
    BY <2>1, <2>2 DEF Header, WellFormed
<1>5. TypeOK' /\ AskedInv'
  BY <1>1, <1>2, <1>3, <1>4 DEF IInv, TypeOK, AskedInv
<1>6. e \notin {g.entry : g \in given}
  BY DEF IInv, EachEntryOnce
<1>7. PhaseInv'
  <2>1. \A g, h \in given' : g.entry = h.entry => g = h
    BY <1>1, <1>6 DEF IInv, PhaseInv
  <2>2. QED
    BY <1>1, <1>2, <2>1 DEF IInv, PhaseInv, Regular
<1>8. EachEntryOnce'
  <2> DEFINE r == [entry |-> e, content |-> data]
  <2>1. r.entry = e /\ given' = given \cup {r}
    BY <1>1
  <2> HIDE DEF r
  <2>2. {g.entry : g \in given'} = {g.entry : g \in given} \cup {e}
    BY <2>1
  <2>3. QED
    BY <1>1, <1>2, <1>3, <2>2 DEF IInv, EachEntryOnce
<1>9. SourceInv' /\ AheadInv'
  BY <1>1, <1>2 DEF IInv, SourceInv, Source, Holds, AheadInv, Ordinary, Positions
<1>10. QED
  BY <1>1, <1>2, <1>5, <1>7, <1>8, <1>9 DEF IInv

Pairs(H, c) == [entry : H, content : {c}]

\* Pairs gives each entry the content once.
LEMMA PairFacts ==
  ASSUME NEW H, NEW c
  PROVE  /\ \A g \in Pairs(H, c) : g.entry \in H /\ g.content = c
         /\ \A g, h \in Pairs(H, c) : g.entry = h.entry => g = h
         /\ \A e \in H : \E g \in Pairs(H, c) : g.entry = e
<1>1. \A e \in H : /\ [entry |-> e, content |-> c] \in [entry : H, content : {c}]
                   /\ [entry |-> e, content |-> c].entry = e
  OBVIOUS
<1>2. \A e \in H : \E g \in [entry : H, content : {c}] : g.entry = e
  BY <1>1
<1>3. \A g, h \in [entry : H, content : {c}] : g.entry = h.entry => g = h
  OBVIOUS
<1>4. QED
  BY <1>2, <1>3 DEF Pairs

\* Giving a content to its one entry keeps the invariant.
LEMMA GiveOneStep == IInv /\ GiveOne => IInv'
<1> SUFFICES ASSUME IInv, GiveOne PROVE IInv'
  OBVIOUS
<1>1. /\ UNCHANGED <<archive, call, asked, sharing, data>> /\ Reading /\ pc = "read"
      /\ given' = given \cup [entry : Holders, content : {header.content}]
      /\ wanted' = wanted \ Holders /\ at' = at + 1
      /\ pc' = IF call = "Open" THEN "ok" ELSE "read"
  BY DEF GiveOne, Reading
<1>2. Holders # {}
  BY FS_EmptySet DEF GiveOne
<1>3. /\ at \in DOMAIN archive /\ DOMAIN archive = 1..Len(archive)
      /\ Len(archive) \in Nat /\ Holders \subseteq wanted /\ Holders \subseteq asked
      /\ header.content \in Contents /\ \A e \in Holders : Holds(header, e)
  BY <1>1, <1>2, HoldersFacts, ArchiveType DEF IInv
<1> DEFINE new == Pairs(Holders, header.content)
<1>4. /\ new \subseteq [entry : asked, content : Contents]
      /\ \A g \in new : g.entry \in Holders /\ g.content = header.content
      /\ \A g, h \in new : g.entry = h.entry => g = h
      /\ \A e \in Holders : \E g \in new : g.entry = e
  <2>1. new \subseteq [entry : asked, content : Contents]
    BY <1>3 DEF Pairs
  <2>2. QED
    BY <2>1, PairFacts
<1>5. given' = given \cup new
  BY <1>1 DEF Pairs
<1> HIDE DEF new
<1>6. {g.entry : g \in given'} = {g.entry : g \in given} \cup Holders
  BY <1>5, <1>4
<1>7. TypeOK' /\ AskedInv'
  BY <1>1, <1>5, <1>3, <1>4 DEF IInv, TypeOK, AskedInv, Outcomes
<1>8. EachEntryOnce'
  BY <1>1, <1>3, <1>6 DEF IInv, EachEntryOnce
<1>9. PhaseInv'
  <2>1. \A g, h \in given' : g.entry = h.entry => g = h
    <3>1. \A g \in given : g.entry \notin wanted
      BY DEF IInv, EachEntryOnce
    <3>2. \A g \in given, h \in new : g.entry # h.entry
      BY <1>3, <1>4, <3>1
    <3>3. QED
      BY <1>5, <1>4, <3>2 DEF IInv, PhaseInv
  <2>2. call = "Open" => wanted' = {}
    <3> SUFFICES ASSUME call = "Open" PROVE wanted \subseteq Holders
      BY <1>1
    <3>1. PICK e : asked = {e}
      BY AskedFinite, FS_Singleton DEF IInv, AskedInv
    <3>2. QED
      BY <1>2, <1>3, <3>1 DEF IInv, TypeOK
  <2>3. QED
    BY <1>1, <1>3, <2>1, <2>2 DEF IInv, PhaseInv, Regular
<1>10. SourceInv'
  <2>1. \A e \in Holders : Source(e, header.content)
    BY <1>3 DEF Source, header
  <2>2. QED
    BY <1>1, <1>5, <1>4, <2>1 DEF IInv, SourceInv, Source, Holds
<1>11. AheadInv'
  BY <1>1, AheadStep
<1>12. QED
  BY <1>1, <1>7, <1>8, <1>9, <1>10, <1>11 DEF IInv

\* Every step keeps the invariant.
LEMMA StepInv == IInv /\ [Next]_vars => IInv'
<1> SUFFICES ASSUME IInv, [Next]_vars PROVE IInv'
  OBVIOUS
<1> USE DEF Outcomes
<1>1. CASE NotRegular
  BY <1>1, FinishStep DEF NotRegular
<1>2. CASE NothingAsked
  <2>1. wanted = {}
    BY <1>2 DEF NothingAsked, IInv, PhaseInv
  <2>2. QED
    BY <1>2, <2>1, FinishStep DEF NothingAsked
<1>3. CASE OpenLayer
  BY <1>3, OpenStep
<1>4. CASE SkipHeader
  BY <1>4, SkipStep
<1>5. CASE GiveOne
  BY <1>5, GiveOneStep
<1>6. CASE ReadShared
  BY <1>6, ReadSharedStep
<1>7. CASE GiveShared
  BY <1>7, GiveSharedStep
<1>8. CASE EndOfArchive
  BY <1>8, FinishStep DEF EndOfArchive
<1>9. CASE AllGiven
  BY <1>9, FinishStep DEF AllGiven
<1>10. CASE OpenError
  BY <1>10, FinishStep DEF OpenError
<1>11. CASE HeaderError
  BY <1>11, FinishStep DEF HeaderError
<1>12. CASE ReadError
  BY <1>12, FinishStep DEF ReadError, Reading
<1>13. CASE CallerError
  BY <1>13, FinishStep DEF CallerError, Reading
<1>14. CASE UNCHANGED vars
  BY <1>14, Unchanged
<1>15. QED
  BY <1>1, <1>2, <1>3, <1>4, <1>5, <1>6, <1>7, <1>8, <1>9, <1>10, <1>11, <1>12,
     <1>13, <1>14 DEF Next, Step, Error, Returned

\* The inductive invariant holds throughout: what was asked for is what the
\* merge keeps of the layer, what is still ahead in the archive has not been
\* given, and what has been given was read from the header the entry was
\* made of (overlay.go, Open and Extract).
THEOREM ContentInvariant == Spec => []IInv
BY InitInv, StepInv, PTL DEF Spec

-----------------------------------------------------------------------------
\* What follows from it.

\* The variables keep their types.
THEOREM ContentTypes == Spec => []TypeOK
<1>1. IInv => TypeOK
  BY DEF IInv
<1>2. QED
  BY <1>1, ContentInvariant, PTL

\* Whatever ends the call, the caller knows which entries it has.
THEOREM EntriesAreGivenOnce == Spec => []EachEntryOnce
<1>1. IInv => EachEntryOnce
  BY DEF IInv
<1>2. QED
  BY <1>1, ContentInvariant, PTL

\* A call that succeeds has handed over all that was asked for, once each.
THEOREM NothingIsLeftOut == Spec => []SuccessIsComplete
<1>1. IInv => SuccessIsComplete
  <2> SUFFICES ASSUME IInv, pc = "ok"
               PROVE  /\ {g.entry : g \in given} = asked
                      /\ Cardinality(given) = Cardinality(asked)
    BY DEF SuccessIsComplete
  <2>1. {g.entry : g \in given} = asked
    BY DEF IInv, PhaseInv, EachEntryOnce
  <2> DEFINE f == [e \in asked |-> CHOOSE g \in given : g.entry = e]
  <2>2. \A e \in asked : f[e] \in given /\ f[e].entry = e
    BY <2>1
  <2>3. \A g \in given : g.entry \in asked /\ f[g.entry] = g
    BY <2>1, <2>2 DEF IInv, PhaseInv
  <2>4. f \in [asked -> given]
    BY <2>2
  <2> HIDE DEF f
  <2>5. \A x, y \in asked : f[x] = f[y] => x = y
    BY <2>2
  <2>6. \A g \in given : \E x \in asked : f[x] = g
    BY <2>3
  <2>7. f \in Bijection(asked, given)
    BY <2>4, <2>5, <2>6 DEF Bijection, Injection, Surjection, IsInjective
  <2>8. QED
    BY <2>1, <2>7, AskedFinite, FS_Bijection DEF IInv, ExistsBijection
<1>2. QED
  BY <1>1, ContentInvariant, PTL

\* In an ordinary archive one header has a name's bytes.
LEMMA OneSource ==
  ASSUME NEW a \in Seq(Header), Ordinary(a), NEW k \in DOMAIN a, NEW j \in DOMAIN a,
         Adds(a[k]), a[j].kind = "reg", Clean(a[j].name) = Clean(a[k].name),
         Clean(a[k].name) \in Path
  PROVE  j = k
<1> DEFINE p == Clean(a[k].name)
           ks == Positions(a, p)
<1>1. Adds(a[j])
  BY DEF Adds, Whiteout, Opaque, Ignored
<1>2. j \in ks /\ k \in ks
  BY <1>1 DEF Positions
<1>3. Cardinality(ks) <= 1 /\ IsFiniteSet(ks)
  BY PositionsBound DEF Ordinary
<1>4. Cardinality(ks) \in Nat /\ Cardinality(ks) # 0
  BY <1>2, <1>3, FS_CardinalityType, FS_EmptySet
<1>5. Cardinality(ks) = 1
  BY <1>3, <1>4
<1>6. PICK x : ks = {x}
  BY <1>3, <1>5, FS_Singleton
<1>7. QED
  BY <1>2, <1>6

\* In an ordinary archive what is found under an entry's name is its content.
LEMMA SourceIsRecorded ==
  ASSUME AskedInv, Regular, Ordinary(archive), NEW e \in asked, NEW c, Source(e, c)
  PROVE  c = e.recorded
<1>1. PICK k \in DOMAIN archive : Adds(archive[k]) /\ e = EntryOf(archive, archive[k])
  BY DEF AskedInv
<1>2. PICK j \in DOMAIN archive : /\ archive[j].kind = "reg" /\ archive[j].content = c
                                  /\ Clean(archive[j].name) = e.contentPath
  BY DEF Source, Holds, HoldsBytes
<1>3. archive \in Seq(Header)
  BY ArchiveType
<1>4. e.kind = archive[k].kind /\ e.contentPath = ContentPath(archive[k])
      /\ e.recorded = Recorded(archive, archive[k])
  BY <1>1 DEF EntryOf
<1>5. \A i \in DOMAIN archive :
        Clean(archive[i].name) \in Path /\ Clean(archive[i].link) \in Path
  <2>1. \A i \in DOMAIN archive :
          archive[i].name \in RawNames /\ archive[i].link \in RawNames \cup {<< >>}
    BY ArchiveType DEF Header
  <2>2. QED
    BY <2>1, CleanInPath
<1>6. CASE archive[k].kind = "reg"
  <2>1. j = k
    BY <1>1, <1>2, <1>3, <1>4, <1>5, <1>6, OneSource DEF ContentPath
  <2>2. QED
    BY <1>2, <1>4, <1>6, <2>1 DEF Recorded
<1>7. CASE archive[k].kind = "hardlink"
  <2> DEFINE ks == Positions(archive, Clean(archive[k].link))
  <2>1. PICK t \in ks : archive[t].kind = "reg"
    BY <1>1, <1>7 DEF Ordinary
  <2>2. Max(ks) \in ks
    BY <1>3, <2>1, PositionsBound
  <2>3. /\ Max(ks) \in DOMAIN archive /\ Adds(archive[Max(ks)])
        /\ Clean(archive[Max(ks)].name) = Clean(archive[k].link)
    BY <2>2 DEF Positions
  <2>4. j = Max(ks)
    BY <1>2, <1>3, <1>4, <1>5, <1>7, <2>3, OneSource DEF ContentPath
  <2>5. QED
    BY <1>2, <1>4, <1>7, <2>1, <2>4 DEF Recorded
<1>8. QED
  BY <1>4, <1>6, <1>7 DEF Regular, IsRegular

\* What Build shows as a file of an ordinary archive can be read, and the bytes
\* are those Build measured and hashed.
THEOREM BytesAreWhatBuildRecorded == Spec => []ReadsWhatBuildRecorded
<1>1. IInv => ReadsWhatBuildRecorded
  <2> SUFFICES ASSUME IInv, Ordinary(archive), NEW g \in given
               PROVE  g.content = g.entry.recorded
    BY DEF IInv, ReadsWhatBuildRecorded
  <2>1. g.entry \in asked /\ Source(g.entry, g.content)
    BY DEF IInv, TypeOK, SourceInv
  <2>2. QED
    BY <2>1, SourceIsRecorded DEF IInv, PhaseInv
<1>2. QED
  BY <1>1, ContentInvariant, PTL
=============================================================================
