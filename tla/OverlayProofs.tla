--------------------------- MODULE OverlayProofs ---------------------------
(***************************************************************************)
(* Proofs about Overlay: type correctness, the merge of the layers, and    *)
(* that Build implements OverlayMount.                                     *)
(***************************************************************************)
EXTENDS OverlayInv, TLAPS

-----------------------------------------------------------------------------
\* Headers and the entries made from them.

LEMMA ImageHeaders ==
  ASSUME image \in Images
  PROVE  image \in Seq(Seq(Header))
<1>1. Images \subseteq Seq(Seq({h \in Header : WellFormed(h)}))
  BY ImagesAssumption
<1>2. image \in Seq(Seq({h \in Header : WellFormed(h)}))
  BY <1>1
<1>3. \A i \in 1..Len(image) : image[i] \in Seq(Header)
  BY <1>2
<1>4. QED
  BY <1>2, <1>3

\* What a name of an archive cleans to is a path of the model.
LEMMA CleanIsPath == \A n \in RawNames \cup {<< >>} : Clean(n) \in Path
BY DEF Path

\* The entry made from a header is one.
LEMMA EntryOfType ==
  ASSUME image \in Seq(Seq(Header)), digests \in BOOLEAN,
         NEW i \in 1..Len(image), NEW k \in 1..Len(image[i])
  PROVE  EntryOf(i, k) \in Entry
<1> DEFINE h == image[i][k]
<1>1. h \in Header
  OBVIOUS
<1>2. Clean(h.name) \in Path
  BY <1>1, CleanIsPath DEF Header
<1>3. h.kind \in Kinds /\ h.mode \in Modes /\ h.link \in RawNames \cup {<< >>}
      /\ h.content \in Contents \cup {NoContent}
  BY <1>1 DEF Header
<1>4. i \in Nat /\ k \in Nat
  OBVIOUS
<1>5. QED
  BY <1>2, <1>3, <1>4 DEF EntryOf, Entry

\* The header being read is one, and so is its archive.
LEMMA HeaderType ==
  ASSUME TypeOK, LayerInv, Reading
  PROVE  /\ layer \in 1..Len(image) /\ at \in 1..Len(image[layer])
         /\ image[layer] \in Seq(Header) /\ header \in Header
<1>1. layer \in 1..Len(image)
  BY DEF TypeOK, LayerInv, Reading, Loops
<1>2. image[layer] \in Seq(Header)
  BY <1>1 DEF TypeOK
<1>3. at \in 1..Len(image[layer])
  BY <1>2 DEF TypeOK, Reading, archive
<1>4. QED
  BY <1>1, <1>2, <1>3 DEF header, archive

\* What an opaque whiteout and a whiteout name is a target of removals.
LEMMA RemovalTypes ==
  ASSUME NEW h \in Header
  PROVE  /\ Opaque(h) => OpaqueDir(h) \in RemovalTargets
         /\ Whiteout(h) => WhiteoutTarget(h) \in RemovalTargets
BY DEF RemovalTargets

\* The loop over links changes sizes and digests and nothing else.
LEMMA LinkKeeps ==
  ASSUME TypeOK, ApplyLink
  PROVE  \A p \in Path :
           /\ entries'[p] \in Entry \cup {Absent}
           /\ entries'[p] = Absent <=> entries[p] = Absent
           /\ entries[p] # Absent =>
                /\ entries'[p].layer = entries[p].layer
                /\ entries'[p].pos = entries[p].pos
                /\ entries'[p] = [entries[p] EXCEPT !.size = entries'[p].size,
                                                    !.digest = entries'[p].digest]
<1> DEFINE l == links[at]
           t == entries[Clean(l.link)]
<1>1. l \in Entry
  BY DEF ApplyLink, TypeOK
<1>2. Clean(l.link) \in Path
  BY <1>1, CleanIsPath DEF Entry
<1>3. t \in Entry \cup {Absent}
  BY <1>2 DEF TypeOK
<1>4. ASSUME NEW e \in Entry
      PROVE  e = [e EXCEPT !.size = e.size, !.digest = e.digest]
  BY DEF Entry
<1>5. ASSUME t # Absent, NEW e \in Entry, NEW f,
             f = [e EXCEPT !.size = t.size, !.digest = t.digest]
      PROVE  /\ f \in Entry /\ f.layer = e.layer /\ f.pos = e.pos
             /\ f = [e EXCEPT !.size = f.size, !.digest = f.digest]
  <2>1. t.size \in Contents \cup {NoContent} /\ t.digest \in Contents \cup {NoContent}
    BY <1>3, <1>5 DEF Entry
  <2> HIDE DEF t
  <2>2. QED
    BY <1>5, <2>1 DEF Entry
<1>6. \A p \in Path : entries[p] \in Entry \cup {Absent}
  BY DEF TypeOK
<1>7. Absent \notin Entry
  BY AbsentAssumption
<1>8. CASE t = Absent
  <2>1. entries' = entries
    BY <1>8 DEF ApplyLink
  <2>2. QED
    BY <1>4, <1>6, <2>1
<1>9. CASE t # Absent
  <2>1. ASSUME NEW p \in Path
        PROVE  entries'[p] = entries[p]
               \/ /\ entries[p] # Absent
                  /\ entries'[p] = [entries[p] EXCEPT !.size = t.size, !.digest = t.digest]
    BY <1>9 DEF ApplyLink, SetContent
  <2> HIDE DEF t
  <2>2. ASSUME NEW p \in Path, entries[p] = Absent
        PROVE  entries'[p] = Absent
    BY <2>1, <2>2
  <2>3. ASSUME NEW p \in Path, entries[p] # Absent
        PROVE  /\ entries'[p] \in Entry /\ entries'[p].layer = entries[p].layer
               /\ entries'[p].pos = entries[p].pos
               /\ entries'[p] = [entries[p] EXCEPT !.size = entries'[p].size,
                                                   !.digest = entries'[p].digest]
    <3>1. entries[p] \in Entry
      BY <1>6, <2>3
    <3>2. CASE entries'[p] = entries[p]
      BY <1>4, <3>1, <3>2
    <3>3. CASE entries'[p] = [entries[p] EXCEPT !.size = t.size, !.digest = t.digest]
      BY <1>5, <1>9, <3>1, <3>3
    <3>4. QED
      BY <2>1, <3>2, <3>3
  <2>4. QED
    BY <1>7, <2>2, <2>3
<1>10. QED
  BY <1>8, <1>9

-----------------------------------------------------------------------------
(***************************************************************************)
(* Type correctness.  It needs LayerInv: a header can only be read from an *)
(* archive of the image.                                                   *)
(***************************************************************************)

\* Build starts with the type and with no layer applied.
LEMMA TypeInit == Init => TypeOK /\ LayerInv
<1> SUFFICES ASSUME Init PROVE TypeOK /\ LayerInv
  OBVIOUS
<1>1. image \in Seq(Seq(Header))
  BY ImageHeaders DEF Init
<1>2. TypeOK
  BY <1>1 DEF Init, TypeOK, Locations, Empty
<1>3. Len(image) \in Nat
  BY <1>1
<1>4. LayerInv
  BY <1>3 DEF Init, LayerInv, Loops
<1>5. QED
  BY <1>2, <1>4

\* No step leaves the image's layers or keeps a list from one layer to the next.
LEMMA LayerStep == TypeOK /\ LayerInv /\ [Next]_vars => LayerInv'
<1> SUFFICES ASSUME TypeOK, LayerInv, [Next]_vars PROVE LayerInv'
  OBVIOUS
<1> USE DEF LayerInv, Loops
<1>1. image \in Seq(Seq(Header)) /\ Len(image) \in Nat /\ layer \in Nat
  BY DEF TypeOK
<1>2. CASE OpenLayer
  BY <1>1, <1>2 DEF OpenLayer, lists
<1>3. CASE Return
  BY <1>1, <1>3 DEF Return, lists
<1>4. CASE IgnoreHeader
  BY <1>1, <1>4 DEF IgnoreHeader, Reading, lists
<1>5. CASE ReadOpaque
  BY <1>1, <1>5 DEF ReadOpaque, Reading
<1>6. CASE ReadWhiteout
  BY <1>1, <1>6 DEF ReadWhiteout, Reading
<1>7. CASE ReadEntry
  BY <1>1, <1>7 DEF ReadEntry, Reading
<1>8. CASE EndOfArchive
  BY <1>1, <1>8 DEF EndOfArchive, lists
<1>9. CASE ApplyWhiteout
  BY <1>1, <1>9 DEF ApplyWhiteout, lists
<1>10. CASE EndWhiteouts
  BY <1>1, <1>10 DEF EndWhiteouts, EndLoop, lists
<1>11. CASE ApplyOpaque
  BY <1>1, <1>11 DEF ApplyOpaque, lists
<1>12. CASE EndOpaques
  BY <1>1, <1>12 DEF EndOpaques, EndLoop, lists
<1>13. CASE ApplyAdd
  BY <1>1, <1>13 DEF ApplyAdd, lists
<1>14. CASE EndAdds
  BY <1>1, <1>14 DEF EndAdds, EndLoop, lists
<1>15. CASE ApplyLink
  BY <1>1, <1>15 DEF ApplyLink, lists
<1>16. CASE EndLayer
  BY <1>1, <1>16 DEF EndLayer, DropLists
<1>17. CASE Error
  BY <1>1, <1>17 DEF Error, OpenError, HeaderError, DigestError, Abort, DropLists
<1>18. CASE UNCHANGED vars
  BY <1>18 DEF vars
<1>19. QED
  BY <1>2, <1>3, <1>4, <1>5, <1>6, <1>7, <1>8, <1>9, <1>10, <1>11, <1>12, <1>13,
     <1>14, <1>15, <1>16, <1>17, <1>18 DEF Next, Step, Stopped

\* Every step keeps the types.
LEMMA TypeStep == TypeOK /\ LayerInv /\ [Next]_vars => TypeOK'
<1> SUFFICES ASSUME TypeOK, LayerInv, [Next]_vars PROVE TypeOK'
  OBVIOUS
<1> USE DEF TypeOK, Locations
<1>1. CASE OpenLayer
  BY <1>1 DEF OpenLayer, lists
<1>2. CASE Return
  BY <1>2 DEF Return, lists
<1>3. CASE IgnoreHeader
  BY <1>3 DEF IgnoreHeader, lists
<1>4. CASE ReadOpaque
  <2>1. OpaqueDir(header) \in RemovalTargets
    BY <1>4, HeaderType, RemovalTypes DEF ReadOpaque
  <2>2. opaques' \in Seq(RemovalTargets)
    BY <1>4, <2>1 DEF ReadOpaque
  <2>3. QED
    BY <1>4, <2>2 DEF ReadOpaque
<1>5. CASE ReadWhiteout
  <2>1. WhiteoutTarget(header) \in RemovalTargets
    BY <1>5, HeaderType, RemovalTypes DEF ReadWhiteout
  <2>2. whiteouts' \in Seq(RemovalTargets)
    BY <1>5, <2>1 DEF ReadWhiteout
  <2>3. QED
    BY <1>5, <2>2 DEF ReadWhiteout
<1>6. CASE ReadEntry
  <2>1. EntryOf(layer, at) \in Entry
    BY <1>6, HeaderType, EntryOfType DEF ReadEntry
  <2>2. adds' \in Seq(Entry) /\ links' \in Seq(Entry)
    BY <1>6, <2>1 DEF ReadEntry
  <2>3. QED
    BY <1>6, <2>2 DEF ReadEntry
<1>7. CASE EndOfArchive
  BY <1>7 DEF EndOfArchive, lists
<1>8. CASE ApplyWhiteout
  BY <1>8 DEF ApplyWhiteout, WithoutTree, lists
<1>9. CASE EndWhiteouts
  BY <1>9 DEF EndWhiteouts, EndLoop, lists
<1>10. CASE ApplyOpaque
  BY <1>10 DEF ApplyOpaque, WithoutChildren, lists
<1>11. CASE EndOpaques
  BY <1>11 DEF EndOpaques, EndLoop, lists
<1>12. CASE ApplyAdd
  <2>1. adds[at] \in Entry
    BY <1>12 DEF ApplyAdd
  <2>2. entries' \in [Path -> Entry \cup {Absent}]
    BY <1>12, <2>1 DEF ApplyAdd
  <2>3. QED
    BY <1>12, <2>2 DEF ApplyAdd, lists
<1>13. CASE EndAdds
  BY <1>13 DEF EndAdds, EndLoop, lists
<1>14. CASE ApplyLink
  <2>1. \A p \in Path : entries'[p] \in Entry \cup {Absent}
    BY <1>14, LinkKeeps
  <2>2. entries' = [p \in Path |-> entries'[p]]
    BY <1>14 DEF ApplyLink, SetContent
  <2>3. entries' \in [Path -> Entry \cup {Absent}]
    BY <2>1, <2>2
  <2>4. QED
    BY <1>14, <2>3 DEF ApplyLink, lists
<1>15. CASE EndLayer
  <2>1. adds' = << >> /\ links' = << >> /\ whiteouts' = << >> /\ opaques' = << >>
    BY <1>15 DEF EndLayer, DropLists
  <2>2. QED
    BY <1>15, <2>1 DEF EndLayer
<1>16. CASE Error
  <2>1. Abort
    BY <1>16 DEF Error, OpenError, HeaderError, DigestError
  <2>2. adds' = << >> /\ links' = << >> /\ whiteouts' = << >> /\ opaques' = << >>
    BY <2>1 DEF Abort, DropLists
  <2>3. entries' \in [Path -> Entry \cup {Absent}]
    BY <2>1 DEF Abort, Empty
  <2>4. QED
    BY <2>1, <2>2, <2>3 DEF Abort
<1>17. CASE UNCHANGED vars
  BY <1>17 DEF vars
<1>18. QED
  BY <1>1, <1>2, <1>3, <1>4, <1>5, <1>6, <1>7, <1>8, <1>9, <1>10, <1>11, <1>12,
     <1>13, <1>14, <1>15, <1>16, <1>17 DEF Next, Step, Stopped

\* Every variable keeps its type, for every set of images, names and contents.
THEOREM TypeCorrect == Spec => []TypeOK
<1>1. Init => TypeOK /\ LayerInv
  BY TypeInit
<1>2. TypeOK /\ LayerInv /\ [Next]_vars => (TypeOK /\ LayerInv)'
  BY TypeStep, LayerStep
<1>3. QED
  BY <1>1, <1>2, PTL DEF Spec

-----------------------------------------------------------------------------
(***************************************************************************)
(* The lists: each header read is in the list it belongs to, and the loops *)
(* that follow find exactly the archive's whiteouts and entries.           *)
(***************************************************************************)

\* What one more element does to a list.
LEMMA AppendFacts ==
  ASSUME NEW S, NEW s \in Seq(S), NEW e
  PROVE  /\ DOMAIN s = 1..Len(s) /\ Len(s) \in Nat
         /\ DOMAIN Append(s, e) = 1..(Len(s) + 1)
         /\ \A i \in DOMAIN s : Append(s, e)[i] = s[i]
         /\ Append(s, e)[Len(s) + 1] = e
OBVIOUS

\* Reading an archive fills the lists with what it says and nothing else.
LEMMA ListsStep == TypeOK /\ LayerInv /\ ListsInv /\ [Next]_vars => ListsInv'
<1> SUFFICES ASSUME TypeOK, LayerInv, ListsInv, [Next]_vars PROVE ListsInv'
  OBVIOUS
<1>1. image \in Seq(Seq(Header)) /\ layer \in Nat \ {0} /\ at \in Nat \ {0}
      /\ adds \in Seq(Entry) /\ whiteouts \in Seq(RemovalTargets)
      /\ opaques \in Seq(RemovalTargets)
  BY DEF TypeOK
<1>2. pc \in Loops => Len(archive) \in Nat /\ HeadersRead \in Int
  BY <1>1, HeaderType DEF HeadersRead, archive, LayerInv
<1>3. CASE OpenLayer
  <2>1. Len(adds) = 0 /\ Len(whiteouts) = 0 /\ Len(opaques) = 0 /\ at = 1
    BY <1>1, <1>3 DEF OpenLayer, LayerInv, Loops, TypeOK
  <2>2. pc' = "read" /\ HeadersRead' = 0 /\ Len(archive') \in Nat
    BY <1>1, <1>3, <2>1 DEF OpenLayer, HeadersRead, archive, lists
  <2>3. WhiteoutsInv' /\ OpaquesInv' /\ AddsInv'
    BY <1>1, <1>3, <2>1, <2>2 DEF OpenLayer, lists, WhiteoutsInv, OpaquesInv, AddsInv
  <2>4. QED
    BY <2>2, <2>3 DEF ListsInv
<1>4. CASE Return
  BY <1>4 DEF Return, ListsInv, Loops
<1>5. CASE Reading /\ at' = at + 1 /\ UNCHANGED <<image, digests, pc, layer, entries>>
           /\ (IgnoreHeader \/ ReadOpaque \/ ReadWhiteout \/ ReadEntry)
  <2>1. /\ HeadersRead = at - 1 /\ HeadersRead' = at /\ archive' = archive
        /\ pc \in Loops /\ at \in 1..Len(archive) /\ Len(archive) \in Nat
        /\ header = archive[at]
    BY <1>1, <1>5, HeaderType DEF Reading, HeadersRead, archive, header, Loops
  <2>2. WhiteoutsInv /\ OpaquesInv /\ AddsInv
    BY <2>1 DEF ListsInv
  <2>3. WhiteoutsInv'
    <3>1. CASE ReadWhiteout
      <4>1. whiteouts' = Append(whiteouts, WhiteoutTarget(header)) /\ Whiteout(header)
        BY <3>1 DEF ReadWhiteout
      <4>2. /\ DOMAIN whiteouts = 1..Len(whiteouts) /\ DOMAIN whiteouts' = 1..(Len(whiteouts) + 1)
            /\ \A i \in DOMAIN whiteouts : whiteouts'[i] = whiteouts[i]
            /\ whiteouts'[Len(whiteouts) + 1] = WhiteoutTarget(archive[at])
            /\ Len(whiteouts) \in Nat
        BY <1>1, <2>1, <4>1, AppendFacts
      <4>3. ASSUME NEW i \in DOMAIN whiteouts'
            PROVE  \E k \in 1..at :
                     Whiteout(archive[k]) /\ whiteouts'[i] = WhiteoutTarget(archive[k])
        <5>1. CASE i \in DOMAIN whiteouts
          BY <1>1, <2>1, <2>2, <4>2, <5>1 DEF WhiteoutsInv
        <5>2. CASE i = Len(whiteouts) + 1
          BY <1>1, <2>1, <4>1, <4>2, <5>2
        <5>3. QED
          BY <4>2, <5>1, <5>2
      <4>4. ASSUME NEW k \in 1..at, Whiteout(archive[k])
            PROVE  \E i \in DOMAIN whiteouts' : whiteouts'[i] = WhiteoutTarget(archive[k])
        <5>1. CASE k = at
          BY <4>2, <5>1
        <5>2. CASE k # at
          <6>1. PICK i \in DOMAIN whiteouts : whiteouts[i] = WhiteoutTarget(archive[k])
            BY <1>1, <2>1, <2>2, <4>4, <5>2 DEF WhiteoutsInv
          <6>2. QED
            BY <4>2, <6>1
        <5>3. QED
          BY <5>1, <5>2
      <4>5. QED
        BY <2>1, <4>3, <4>4 DEF WhiteoutsInv
    <3>2. CASE ~ReadWhiteout
      <4>1. whiteouts' = whiteouts /\ ~Whiteout(header)
        BY <1>5, <3>2 DEF IgnoreHeader, ReadOpaque, ReadEntry, lists, Whiteout, Adds
      <4>2. \A k \in 1..at : Whiteout(archive[k]) => k \in 1..HeadersRead
        BY <1>1, <2>1, <4>1
      <4>3. 1..HeadersRead \subseteq 1..HeadersRead'
        BY <1>1, <2>1
      <4>4. QED
        BY <2>1, <2>2, <4>1, <4>2, <4>3 DEF WhiteoutsInv
    <3>3. QED
      BY <3>1, <3>2
  <2>4. OpaquesInv'
    <3>1. CASE ReadOpaque
      <4>1. opaques' = Append(opaques, OpaqueDir(header)) /\ Opaque(header)
        BY <3>1 DEF ReadOpaque
      <4>2. /\ DOMAIN opaques = 1..Len(opaques) /\ DOMAIN opaques' = 1..(Len(opaques) + 1)
            /\ \A i \in DOMAIN opaques : opaques'[i] = opaques[i]
            /\ opaques'[Len(opaques) + 1] = OpaqueDir(archive[at]) /\ Len(opaques) \in Nat
        BY <1>1, <2>1, <4>1, AppendFacts
      <4>3. ASSUME NEW i \in DOMAIN opaques'
            PROVE  \E k \in 1..at :
                     Opaque(archive[k]) /\ opaques'[i] = OpaqueDir(archive[k])
        <5>1. CASE i \in DOMAIN opaques
          BY <1>1, <2>1, <2>2, <4>2, <5>1 DEF OpaquesInv
        <5>2. CASE i = Len(opaques) + 1
          BY <1>1, <2>1, <4>1, <4>2, <5>2
        <5>3. QED
          BY <4>2, <5>1, <5>2
      <4>4. ASSUME NEW k \in 1..at, Opaque(archive[k])
            PROVE  \E i \in DOMAIN opaques' : opaques'[i] = OpaqueDir(archive[k])
        <5>1. CASE k = at
          BY <4>2, <5>1
        <5>2. CASE k # at
          <6>1. PICK i \in DOMAIN opaques : opaques[i] = OpaqueDir(archive[k])
            BY <1>1, <2>1, <2>2, <4>4, <5>2 DEF OpaquesInv
          <6>2. QED
            BY <4>2, <6>1
        <5>3. QED
          BY <5>1, <5>2
      <4>5. QED
        BY <2>1, <4>3, <4>4 DEF OpaquesInv
    <3>2. CASE ~ReadOpaque
      <4>1. opaques' = opaques /\ ~Opaque(header)
        BY <1>5, <3>2 DEF IgnoreHeader, ReadWhiteout, ReadEntry, lists, Whiteout,
                          Opaque, Adds
      <4>2. \A k \in 1..at : Opaque(archive[k]) => k \in 1..HeadersRead
        BY <1>1, <2>1, <4>1
      <4>3. 1..HeadersRead \subseteq 1..HeadersRead'
        BY <1>1, <2>1
      <4>4. QED
        BY <2>1, <2>2, <4>1, <4>2, <4>3 DEF OpaquesInv
    <3>3. QED
      BY <3>1, <3>2
  <2>5. AddsInv'
    <3>1. \A k : EntryOf(layer, k)' = EntryOf(layer, k) /\ EntryOf(layer, k).pos = k
      BY <1>5 DEF EntryOf
    <3>2. CASE ReadEntry
      <4>1. adds' = Append(adds, EntryOf(layer, at)) /\ Adds(header)
        BY <3>2 DEF ReadEntry
      <4>2. /\ DOMAIN adds = 1..Len(adds) /\ DOMAIN adds' = 1..(Len(adds) + 1)
            /\ \A i \in DOMAIN adds : adds'[i] = adds[i]
            /\ adds'[Len(adds) + 1] = EntryOf(layer, at) /\ Len(adds) \in Nat
        BY <1>1, <4>1, AppendFacts
      <4>3. \A i \in DOMAIN adds' :
              /\ adds'[i].pos \in 1..at /\ Adds(archive[adds'[i].pos])
              /\ adds'[i] = EntryOf(layer, adds'[i].pos)
        BY <1>1, <2>1, <2>2, <3>1, <4>1, <4>2 DEF AddsInv
      <4>4. \A i, j \in DOMAIN adds' : i < j => adds'[i].pos < adds'[j].pos
        BY <1>1, <2>1, <2>2, <3>1, <4>1, <4>2 DEF AddsInv
      <4>5. ASSUME NEW k \in 1..at, Adds(archive[k])
            PROVE  \E i \in DOMAIN adds' : adds'[i].pos = k
        <5>1. CASE k = at
          <6>1. adds'[Len(adds) + 1].pos = k
            BY <3>1, <4>2, <5>1
          <6>2. Len(adds) + 1 \in DOMAIN adds'
            BY <4>2
          <6>3. QED
            BY <6>1, <6>2
        <5>2. CASE k # at
          <6>1. PICK i \in DOMAIN adds : adds[i].pos = k
            BY <1>1, <2>1, <2>2, <4>5, <5>2 DEF AddsInv
          <6>2. QED
            BY <1>1, <4>2, <6>1
        <5>3. QED
          BY <5>1, <5>2
      <4>6. QED
        BY <1>5, <2>1, <3>1, <4>3, <4>4, <4>5 DEF AddsInv
    <3>3. CASE ~ReadEntry
      <4>1. adds' = adds /\ ~Adds(header)
        BY <1>5, <3>3 DEF IgnoreHeader, ReadOpaque, ReadWhiteout, lists, Whiteout,
                          Opaque, Adds
      <4>2. \A k \in 1..at : Adds(archive[k]) => k \in 1..(at - 1)
        BY <1>1, <2>1, <4>1
      <4>3. \A i \in DOMAIN adds : adds[i].pos \in 1..(at - 1) => adds[i].pos \in 1..at
        BY <1>1
      <4>4. \A k \in 1..at : Adds(archive[k]) => \E i \in DOMAIN adds : adds[i].pos = k
        BY <2>1, <2>2, <4>2 DEF AddsInv
      <4>5. \A i \in DOMAIN adds :
              /\ adds[i].pos \in 1..at /\ Adds(archive[adds[i].pos])
              /\ adds[i] = EntryOf(layer, adds[i].pos)
        BY <2>1, <2>2, <4>3 DEF AddsInv
      <4>6. \A i, j \in DOMAIN adds : i < j => adds[i].pos < adds[j].pos
        BY <2>2 DEF AddsInv
      <4>7. QED
        BY <1>5, <2>1, <3>1, <4>1, <4>4, <4>5, <4>6 DEF AddsInv
    <3>4. QED
      BY <3>2, <3>3
  <2>6. QED
    BY <1>5, <2>1, <2>3, <2>4, <2>5 DEF ListsInv
<1>6. ASSUME /\ pc \in Loops /\ pc' \in Loops /\ HeadersRead' = HeadersRead
             /\ UNCHANGED <<image, digests, layer, lists>>
      PROVE  ListsInv'
  <2>1. archive' = archive /\ \A k : EntryOf(layer, k)' = EntryOf(layer, k)
    BY <1>6 DEF archive, EntryOf
  <2>2. QED
    BY <1>6, <2>1 DEF ListsInv, WhiteoutsInv, OpaquesInv, AddsInv, lists
<1>7. CASE EndOfArchive
  <2>1. /\ pc = "read" /\ pc' = "whiteouts" /\ image' = image /\ layer' = layer
        /\ at > Len(archive) /\ HeadersRead <= Len(archive) /\ Len(archive) \in Nat
    BY <1>7, <1>2 DEF EndOfArchive, ListsInv, Loops
  <2>2. HeadersRead = at - 1 /\ HeadersRead' = Len(archive)
    BY <2>1 DEF HeadersRead, archive
  <2>3. HeadersRead' = HeadersRead
    BY <1>1, <2>1, <2>2
  <2>4. QED
    BY <1>6, <1>7, <2>3 DEF EndOfArchive, Loops
<1>8. CASE ApplyWhiteout \/ ApplyOpaque \/ ApplyAdd \/ ApplyLink
           \/ EndWhiteouts \/ EndOpaques \/ EndAdds
  <2>1. /\ pc \in Loops \ {"read"} /\ pc' \in Loops \ {"read"}
        /\ UNCHANGED <<image, digests, layer, lists>>
    BY <1>8 DEF ApplyWhiteout, ApplyOpaque, ApplyAdd, ApplyLink,
                EndWhiteouts, EndOpaques, EndAdds, EndLoop, Loops
  <2>2. HeadersRead' = HeadersRead
    BY <2>1 DEF HeadersRead, archive
  <2>3. QED
    BY <1>6, <2>1, <2>2
<1>9. CASE EndLayer
  BY <1>9 DEF EndLayer, ListsInv, Loops
<1>10. CASE Error
  BY <1>10 DEF Error, OpenError, HeaderError, DigestError, Abort, ListsInv, Loops
<1>11. CASE UNCHANGED vars
  BY <1>11 DEF vars, ListsInv, HeadersRead, WhiteoutsInv, OpaquesInv, AddsInv, archive, EntryOf
<1>12. QED
  <2>1. CASE IgnoreHeader \/ ReadOpaque \/ ReadWhiteout \/ ReadEntry
    BY <1>5, <2>1 DEF IgnoreHeader, ReadOpaque, ReadWhiteout, ReadEntry
  <2>2. QED
    BY <1>3, <1>4, <1>7, <1>8, <1>9, <1>10, <1>11, <2>1 DEF Next, Step, Stopped

-----------------------------------------------------------------------------
(***************************************************************************)
(* What one more layer does to the merge.                                  *)
(***************************************************************************)

\* The greatest element of a set is its Max.
LEMMA MaxIs ==
  ASSUME NEW S \in SUBSET Int, NEW m \in S, \A x \in S : m >= x
  PROVE  Max(S) = m
<1>1. \A x \in S : (\A y \in S : x >= y) => x = m
  OBVIOUS
<1>2. QED
  BY <1>1 DEF Max

\* How the layers that can provide a path change with one more layer.
LEMMA KeptStep ==
  ASSUME NEW img, NEW n \in Nat, NEW p
  PROVE  KeptLayers(img, n + 1, p) =
           (IF Removes(img[n + 1], p) THEN {} ELSE KeptLayers(img, n, p))
             \cup (IF Positions(img[n + 1], p) # {} THEN {n + 1} ELSE {})
<1>1. ASSUME NEW i \in KeptLayers(img, n + 1, p), i # n + 1
      PROVE  i \in KeptLayers(img, n, p) /\ ~Removes(img[n + 1], p)
  BY <1>1 DEF KeptLayers, LayersWith
<1>2. ASSUME n + 1 \in KeptLayers(img, n + 1, p)
      PROVE  Positions(img[n + 1], p) # {}
  BY <1>2 DEF KeptLayers, LayersWith
<1>3. ASSUME NEW i \in KeptLayers(img, n, p), ~Removes(img[n + 1], p)
      PROVE  i \in KeptLayers(img, n + 1, p)
  BY <1>3 DEF KeptLayers, LayersWith
<1>4. ASSUME Positions(img[n + 1], p) # {}
      PROVE  n + 1 \in KeptLayers(img, n + 1, p)
  BY <1>4 DEF KeptLayers, LayersWith
<1>5. QED
  BY <1>1, <1>2, <1>3, <1>4

\* How the merged filesystem changes with one more layer.
LEMMA BuiltStep ==
  ASSUME NEW img, NEW n \in Nat, NEW p \in Path
  PROVE  Built(img, n + 1)[p] =
           IF Positions(img[n + 1], p) # {}
           THEN [layer |-> n + 1, pos |-> Max(Positions(img[n + 1], p))]
           ELSE IF Removes(img[n + 1], p) THEN Absent ELSE Built(img, n)[p]
<1>1. CASE Positions(img[n + 1], p) # {}
  <2>1. KeptLayers(img, n + 1, p) \in SUBSET Int /\ n + 1 \in KeptLayers(img, n + 1, p)
        /\ \A i \in KeptLayers(img, n + 1, p) : n + 1 >= i
    BY <1>1, KeptStep DEF KeptLayers, LayersWith
  <2>2. Max(KeptLayers(img, n + 1, p)) = n + 1
    BY <2>1, MaxIs
  <2>3. QED
    BY <1>1, <2>1, <2>2 DEF Built, Provider, ProviderIfAny
<1>2. CASE Positions(img[n + 1], p) = {} /\ Removes(img[n + 1], p)
  <2>1. KeptLayers(img, n + 1, p) = {}
    BY <1>2, KeptStep
  <2>2. QED
    BY <1>2, <2>1 DEF Built, ProviderIfAny
<1>3. CASE Positions(img[n + 1], p) = {} /\ ~Removes(img[n + 1], p)
  <2>1. KeptLayers(img, n + 1, p) = KeptLayers(img, n, p) \cup {}
    BY <1>3, KeptStep
  <2>2. QED
    BY <1>3, <2>1 DEF Built, Provider, ProviderIfAny
<1>4. QED
  BY <1>1, <1>2, <1>3

\* The same for a layer that is there, rather than one more.
LEMMA BuiltLayer ==
  ASSUME NEW img, NEW n \in Nat \ {0}, NEW p \in Path
  PROVE  Built(img, n)[p] =
           IF Positions(img[n], p) # {}
           THEN [layer |-> n, pos |-> Max(Positions(img[n], p))]
           ELSE IF Removes(img[n], p) THEN Absent ELSE Built(img, n - 1)[p]
<1> DEFINE Grown(k) ==
             IF Positions(img[k], p) # {}
             THEN [layer |-> k, pos |-> Max(Positions(img[k], p))]
             ELSE IF Removes(img[k], p) THEN Absent ELSE Built(img, n - 1)[p]
<1>1. n - 1 \in Nat /\ (n - 1) + 1 = n
  OBVIOUS
<1>2. Built(img, (n - 1) + 1)[p] = Grown((n - 1) + 1)
  BY <1>1, BuiltStep
<1> HIDE DEF Grown
<1>3. Built(img, n)[p] = Grown(n)
  BY <1>1, <1>2
<1>4. QED
  BY <1>3 DEF Grown

\* No layer merged, no entry.
LEMMA BuiltNone == \A img : \A p \in Path : Built(img, 0)[p] = Absent
BY DEF Built, KeptLayers, LayersWith, ProviderIfAny

\* The two whiteout loops remove what the archive hides.
LEMMA WhiteoutsHide ==
  ASSUME TypeOK, LayerInv, ListsInv, pc \in Loops \ {"read"}, NEW p \in Path
  PROVE  WhitedOut(Len(whiteouts), p) \/ Emptied(Len(opaques), p)
           <=> Removes(archive, p)
<1>1. /\ HeadersRead = Len(archive) /\ WhiteoutsInv /\ OpaquesInv
      /\ DOMAIN archive = 1..Len(archive)
      /\ whiteouts \in Seq(RemovalTargets) /\ opaques \in Seq(RemovalTargets)
  BY DEF ListsInv, HeadersRead, archive, TypeOK, LayerInv
<1>2. WhitedOut(Len(whiteouts), p)
        <=> \E k \in DOMAIN archive : Whiteout(archive[k])
              /\ Covers(WhiteoutTarget(archive[k]), p)
  <2>1. WhitedOut(Len(whiteouts), p) <=> \E i \in DOMAIN whiteouts : Covers(whiteouts[i], p)
    BY <1>1 DEF WhitedOut
  <2>2. QED
    BY <1>1, <2>1 DEF WhiteoutsInv
<1>3. Emptied(Len(opaques), p)
        <=> \E k \in DOMAIN archive : Opaque(archive[k]) /\ Below(OpaqueDir(archive[k]), p)
  <2>1. Emptied(Len(opaques), p) <=> \E i \in DOMAIN opaques : Below(opaques[i], p)
    BY <1>1 DEF Emptied
  <2>2. QED
    BY <1>1, <2>1 DEF OpaquesInv
<1>4. QED
  BY <1>2, <1>3 DEF Removes, Covers

\* The loop over adds ends with the archive's last header of each path.
LEMMA AddsProvide ==
  ASSUME TypeOK, LayerInv, ListsInv, pc \in Loops \ {"read"}, NEW p \in Path
  PROVE  /\ AddedBy(Len(adds), p) <=> Positions(archive, p) # {}
         /\ \A i \in DOMAIN adds :
              LastAddedBy(Len(adds), p, i) => adds[i].pos = Max(Positions(archive, p))
<1>1. /\ HeadersRead = Len(archive) /\ AddsInv
      /\ DOMAIN archive = 1..Len(archive) /\ Len(archive) \in Nat
      /\ adds \in Seq(Entry) /\ DOMAIN adds = 1..Len(adds) /\ Len(adds) \in Nat
  BY DEF ListsInv, HeadersRead, archive, TypeOK, LayerInv
<1>2. \A i \in DOMAIN adds : adds[i].path = Clean(archive[adds[i].pos].name)
  BY <1>1 DEF AddsInv, EntryOf, archive
<1>3. ASSUME NEW k \in Positions(archive, p)
      PROVE  \E i \in DOMAIN adds : adds[i].pos = k /\ adds[i].path = p
  BY <1>1, <1>2, <1>3 DEF Positions, AddsInv
<1>4. ASSUME NEW i \in DOMAIN adds, adds[i].path = p
      PROVE  adds[i].pos \in Positions(archive, p)
  BY <1>1, <1>2, <1>4 DEF Positions, AddsInv
<1>5. AddedBy(Len(adds), p) <=> Positions(archive, p) # {}
  BY <1>1, <1>3, <1>4 DEF AddedBy
<1>6. ASSUME NEW i \in DOMAIN adds, LastAddedBy(Len(adds), p, i)
      PROVE  adds[i].pos = Max(Positions(archive, p))
  <2>1. adds[i].pos \in Positions(archive, p)
    BY <1>4, <1>6 DEF LastAddedBy
  <2>2. ASSUME NEW k \in Positions(archive, p)
        PROVE  adds[i].pos >= k
    <3>1. PICK j \in DOMAIN adds : adds[j].pos = k /\ adds[j].path = p
      BY <1>3
    <3>2. j <= i
      BY <1>1, <1>6, <3>1 DEF LastAddedBy
    <3>3. QED
      BY <1>1, <3>1, <3>2 DEF AddsInv
  <2>3. Positions(archive, p) \in SUBSET Int
    BY <1>1 DEF Positions
  <2>4. QED
    BY <2>1, <2>2, <2>3, MaxIs
<1>7. QED
  BY <1>5, <1>6

-----------------------------------------------------------------------------
(***************************************************************************)
(* The merge, loop by loop.                                                *)
(***************************************************************************)

\* Until the adds of a layer land there is nothing of it in the filesystem, at any
\* step (the order of the loops in apply).
LEMMA DepthStep == TypeOK /\ LayerInv /\ ListsInv /\ DepthInv /\ [Next]_vars => DepthInv'
<1> SUFFICES ASSUME TypeOK, LayerInv, ListsInv, DepthInv, [Next]_vars PROVE DepthInv'
  OBVIOUS
<1>1. /\ layer \in Nat /\ at \in Nat \ {0} /\ entries \in [Path -> Entry \cup {Absent}]
      /\ \A p \in Path : entries[p] # Absent => entries[p].layer \in Nat
  BY DEF TypeOK, Entry
<1>2. ASSUME entries' = entries, layer' = layer,
             pc \in {"open", "read", "whiteouts"} \/ pc' \in {"adds", "links"} \/ pc' = pc
      PROVE  DepthInv'
  BY <1>2 DEF DepthInv
<1>3. CASE OpenLayer \/ Return \/ IgnoreHeader \/ ReadOpaque \/ ReadWhiteout
           \/ ReadEntry \/ EndOfArchive \/ EndWhiteouts \/ EndOpaques \/ EndAdds
  BY <1>2, <1>3 DEF OpenLayer, Return, IgnoreHeader, ReadOpaque, ReadWhiteout,
     ReadEntry, Reading, EndOfArchive, EndWhiteouts, EndOpaques, EndAdds, EndLoop
<1>4. CASE ApplyWhiteout
  BY <1>1, <1>4 DEF ApplyWhiteout, WithoutTree, DepthInv
<1>5. CASE ApplyOpaque
  BY <1>1, <1>5 DEF ApplyOpaque, WithoutChildren, DepthInv
<1>6. CASE ApplyAdd
  <2>1. adds[at].layer = layer
    BY <1>6, <1>1 DEF ApplyAdd, ListsInv, AddsInv, EntryOf, Loops, TypeOK
  <2>2. \A p \in Path : entries'[p] = entries[p] \/ entries'[p] = adds[at]
    BY <1>1, <1>6 DEF ApplyAdd
  <2>3. QED
    BY <1>1, <1>6, <2>1, <2>2 DEF ApplyAdd, DepthInv
<1>7. CASE ApplyLink
  <2>1. \A p \in Path : entries[p] = Absent <=> entries'[p] = Absent
    BY <1>7, LinkKeeps
  <2>2. \A p \in Path : entries[p] # Absent => entries'[p].layer = entries[p].layer
    BY <1>7, LinkKeeps
  <2>3. QED
    BY <1>1, <1>7, <2>1, <2>2 DEF ApplyLink, DepthInv
<1>8. CASE EndLayer
  BY <1>1, <1>8 DEF EndLayer, DepthInv
<1>9. CASE Error
  BY <1>9 DEF Error, OpenError, HeaderError, DigestError, Abort, Empty, DepthInv
<1>10. CASE UNCHANGED vars
  BY <1>10 DEF vars, DepthInv
<1>11. QED
  BY <1>3, <1>4, <1>5, <1>6, <1>7, <1>8, <1>9, <1>10 DEF Next, Step, Stopped

\* Every step of every loop keeps what the loop is for, path by path.
LEMMA MergeStep ==
  TypeOK /\ LayerInv /\ ListsInv /\ MergeInv /\ [Next]_vars => MergeInv'
<1> SUFFICES ASSUME TypeOK, LayerInv, ListsInv, MergeInv, [Next]_vars,
                    NEW p \in Path
             PROVE  Phase(p)'
  BY DEF MergeInv
<1>1. /\ layer \in Nat \ {0} /\ at \in Nat \ {0} /\ pc \in Locations
      /\ entries \in [Path -> Entry \cup {Absent}] /\ Phase(p)
      /\ adds \in Seq(Entry) /\ Len(adds) \in Nat /\ DOMAIN adds = 1..Len(adds)
      /\ whiteouts \in Seq(RemovalTargets) /\ opaques \in Seq(RemovalTargets)
  BY DEF TypeOK, MergeInv
<1>2. Providers[p] = IF entries[p] = Absent THEN Absent
                     ELSE [layer |-> entries[p].layer, pos |-> entries[p].pos]
  BY DEF Providers
<1>3. Providers'[p] = IF entries'[p] = Absent THEN Absent
                      ELSE [layer |-> entries'[p].layer, pos |-> entries'[p].pos]
  BY DEF Providers
<1>4. CASE OpenLayer \/ Return \/ IgnoreHeader \/ ReadOpaque \/ ReadWhiteout \/ ReadEntry
  <2>1. /\ pc \in {"open", "read"} /\ pc' \in {"read", "done"}
        /\ UNCHANGED <<image, layer, entries>>
    BY <1>4 DEF OpenLayer, Return, IgnoreHeader, ReadOpaque, ReadWhiteout,
                ReadEntry, Reading
  <2>2. QED
    BY <1>1, <1>2, <1>3, <2>1 DEF Phase, Before
<1>5. CASE EndOfArchive
  <2>1. pc = "read" /\ pc' = "whiteouts" /\ at' = 1
        /\ UNCHANGED <<image, layer, entries, whiteouts>>
    BY <1>5 DEF EndOfArchive, lists
  <2>2. ~WhitedOut(at - 1, p)'
    BY <1>1, <2>1 DEF WhitedOut
  <2>3. QED
    BY <1>1, <1>2, <1>3, <2>1, <2>2 DEF Phase, Before
<1>6. CASE ApplyWhiteout
  <2>1. /\ pc = "whiteouts" /\ pc' = "whiteouts" /\ at' = at + 1
        /\ UNCHANGED <<image, layer, whiteouts>>
        /\ at \in DOMAIN whiteouts
        /\ entries'[p] = IF Covers(whiteouts[at], p) THEN Absent ELSE entries[p]
    BY <1>1, <1>6 DEF ApplyWhiteout, WithoutTree, Covers, lists
  <2>2. WhitedOut(at - 1, p)' <=> WhitedOut(at - 1, p) \/ Covers(whiteouts[at], p)
    BY <1>1, <2>1 DEF WhitedOut, Covers
  <2>3. QED
    BY <1>1, <1>2, <1>3, <2>1, <2>2 DEF Phase, Before
<1>7. CASE EndWhiteouts
  <2>1. /\ pc = "whiteouts" /\ pc' = "opaques" /\ at' = 1 /\ at > Len(whiteouts)
        /\ UNCHANGED <<image, layer, entries, whiteouts, opaques>>
    BY <1>7 DEF EndWhiteouts, EndLoop, lists
  <2>2. WhitedOut(Len(whiteouts), p)' <=> WhitedOut(at - 1, p)
    BY <1>1, <2>1 DEF WhitedOut, Covers
  <2>3. ~Emptied(at - 1, p)'
    BY <1>1, <2>1 DEF Emptied
  <2>4. QED
    BY <1>1, <1>2, <1>3, <2>1, <2>2, <2>3 DEF Phase, Before
<1>8. CASE ApplyOpaque
  <2>1. /\ pc = "opaques" /\ pc' = "opaques" /\ at' = at + 1
        /\ UNCHANGED <<image, layer, whiteouts, opaques>>
        /\ at \in DOMAIN opaques
        /\ entries'[p] = IF Below(opaques[at], p) THEN Absent ELSE entries[p]
    BY <1>1, <1>8 DEF ApplyOpaque, WithoutChildren, lists
  <2>2. Emptied(at - 1, p)' <=> Emptied(at - 1, p) \/ Below(opaques[at], p)
    BY <1>1, <2>1 DEF Emptied
  <2>3. WhitedOut(Len(whiteouts), p)' <=> WhitedOut(Len(whiteouts), p)
    BY <2>1 DEF WhitedOut, Covers
  <2>4. QED
    BY <1>1, <1>2, <1>3, <2>1, <2>2, <2>3 DEF Phase, Before
<1>9. CASE EndOpaques
  <2>1. /\ pc = "opaques" /\ pc' = "adds" /\ at' = 1 /\ at > Len(opaques)
        /\ UNCHANGED <<image, layer, entries, adds>>
    BY <1>9 DEF EndOpaques, EndLoop, lists
  <2>2. Emptied(at - 1, p) <=> Emptied(Len(opaques), p)
    BY <1>1, <2>1 DEF Emptied
  <2>3. WhitedOut(Len(whiteouts), p) \/ Emptied(at - 1, p) <=> Removes(archive, p)
    BY <2>1, <2>2, WhiteoutsHide DEF Loops
  <2>4. ~AddedBy(at - 1, p)'
    BY <1>1, <2>1 DEF AddedBy
  <2>5. Removes(archive, p)' <=> Removes(archive, p)
    BY <2>1 DEF archive
  <2>6. QED
    BY <1>1, <1>2, <1>3, <2>1, <2>3, <2>4, <2>5 DEF Phase, Before
<1>10. CASE ApplyAdd
  <2>1. /\ pc = "adds" /\ pc' = "adds" /\ at' = at + 1
        /\ UNCHANGED <<image, layer, adds>> /\ at \in DOMAIN adds
        /\ entries'[p] = IF adds[at].path = p THEN adds[at] ELSE entries[p]
    BY <1>1, <1>10 DEF ApplyAdd, lists
  <2>2. AddedBy(at - 1, p)' <=> AddedBy(at - 1, p) \/ adds[at].path = p
    BY <1>1, <2>1 DEF AddedBy
  <2>3. CASE adds[at].path = p
    <3>1. adds[at].layer = layer
      BY <1>1, <2>1 DEF ListsInv, AddsInv, EntryOf, Loops
    <3>2. adds[at] # Absent
      BY <1>1, <2>1, AbsentAssumption, ImagesAssumption
    <3>3. \A i \in DOMAIN adds : i = at => LastAddedBy(at - 1, p, i)'
      BY <1>1, <2>1, <2>3 DEF LastAddedBy
    <3>4. Providers'[p] = [layer |-> layer, pos |-> adds[at].pos]
      BY <1>3, <2>1, <2>3, <3>1, <3>2
    <3>5. AddedBy(at - 1, p)'
      BY <2>2, <2>3
    <3>6. QED
      BY <2>1, <3>3, <3>4, <3>5 DEF Phase
  <2>4. CASE adds[at].path # p
    <3>1. Providers'[p] = Providers[p]
      BY <1>2, <1>3, <2>1, <2>4
    <3>2. \A i \in DOMAIN adds : LastAddedBy(at - 1, p, i) => LastAddedBy(at - 1, p, i)'
      BY <1>1, <2>1, <2>4 DEF LastAddedBy
    <3>3. Removes(archive, p)' <=> Removes(archive, p)
      BY <2>1 DEF archive
    <3>4. CASE AddedBy(at - 1, p)
      <4>1. PICK i \in DOMAIN adds : LastAddedBy(at - 1, p, i)
              /\ Providers[p] = [layer |-> layer, pos |-> adds[i].pos]
        BY <1>1, <2>1, <3>4 DEF Phase
      <4>2. QED
        BY <2>1, <2>2, <3>1, <3>2, <3>4, <4>1 DEF Phase
    <3>5. CASE ~AddedBy(at - 1, p)
      BY <1>1, <2>1, <2>2, <2>4, <3>1, <3>3, <3>5 DEF Phase, Before
    <3>6. QED
      BY <3>4, <3>5
  <2>5. QED
    BY <2>3, <2>4
<1>11. CASE EndAdds
  <2>1. /\ pc = "adds" /\ pc' = "links" /\ at > Len(adds)
        /\ UNCHANGED <<image, layer, entries, adds>>
    BY <1>11 DEF EndAdds, EndLoop, lists
  <2>2. /\ AddedBy(at - 1, p) <=> AddedBy(Len(adds), p)
        /\ \A i : LastAddedBy(at - 1, p, i) <=> LastAddedBy(Len(adds), p, i)
    BY <1>1, <2>1 DEF AddedBy, LastAddedBy
  <2>3. /\ AddedBy(at - 1, p) <=> Positions(archive, p) # {}
        /\ \A i \in DOMAIN adds :
             LastAddedBy(at - 1, p, i) => adds[i].pos = Max(Positions(archive, p))
    BY <2>1, <2>2, AddsProvide DEF Loops
  <2>4. Built(image, layer)[p] =
          IF Positions(archive, p) # {}
          THEN [layer |-> layer, pos |-> Max(Positions(archive, p))]
          ELSE IF Removes(archive, p) THEN Absent ELSE Before(p)
    <3>1. layer \in Nat \ {0}
      BY <1>1
    <3>2. QED
      BY <3>1, BuiltLayer DEF archive, Before
  <2>5. Providers[p] = Built(image, layer)[p]
    BY <1>1, <2>1, <2>3, <2>4 DEF Phase
  <2>6. Positions(archive, p) # {} => entries[p] # Absent
    <3>1. \A i \in DOMAIN adds : adds[i] \in Entry
      BY <1>1
    <3>2. \A i \in DOMAIN adds : [layer |-> layer, pos |-> adds[i].pos] # Absent
      BY <1>1, <3>1, ImagesAssumption DEF Entry
    <3>3. Positions(archive, p) # {} =>
            \E i \in DOMAIN adds : Providers[p] = [layer |-> layer, pos |-> adds[i].pos]
      BY <1>1, <2>1, <2>3 DEF Phase
    <3>4. QED
      BY <1>2, <3>2, <3>3
  <2>7. (Positions(archive, p) # {})' <=> Positions(archive, p) # {}
    BY <2>1 DEF archive
  <2>8. QED
    BY <1>2, <1>3, <2>1, <2>5, <2>6, <2>7 DEF Phase
<1>12. CASE ApplyLink
  <2>1. /\ pc = "links" /\ pc' = "links" /\ UNCHANGED <<image, layer>>
    BY <1>12 DEF ApplyLink
  <2>2. entries'[p] = Absent <=> entries[p] = Absent
    BY <1>12, LinkKeeps
  <2>3. entries[p] # Absent =>
          entries'[p].layer = entries[p].layer /\ entries'[p].pos = entries[p].pos
    BY <1>12, LinkKeeps
  <2>4. (Positions(archive, p) # {})' <=> Positions(archive, p) # {}
    BY <2>1 DEF archive
  <2>5. QED
    BY <1>1, <1>2, <1>3, <2>1, <2>2, <2>3, <2>4 DEF Phase
<1>13. CASE EndLayer
  <2>1. pc = "links" /\ pc' = "open" /\ layer' = layer + 1 /\ UNCHANGED <<image, entries>>
    BY <1>13 DEF EndLayer
  <2>2. Before(p)' = Built(image, layer)[p]
    BY <1>1, <2>1 DEF Before
  <2>3. QED
    BY <1>1, <1>2, <1>3, <2>1, <2>2 DEF Phase
<1>14. CASE Error
  <2>1. pc' = "failed" /\ entries'[p] = Absent
    BY <1>14 DEF Error, OpenError, HeaderError, DigestError, Abort, Empty
  <2>2. QED
    BY <1>3, <2>1 DEF Phase
<1>15. CASE UNCHANGED vars
  BY <1>1, <1>15 DEF vars, Phase, Before, Providers, WhitedOut, Emptied, AddedBy,
                     LastAddedBy, Covers, archive
<1>16. QED
  BY <1>4, <1>5, <1>6, <1>7, <1>8, <1>9, <1>10, <1>11, <1>12, <1>13, <1>14, <1>15
     DEF Next, Step, Stopped

-----------------------------------------------------------------------------
(***************************************************************************)
(* The contents of the entries.                                            *)
(***************************************************************************)

\* links holds the archive's hardlinks and nothing else.
LEMMA LinksStep == TypeOK /\ LayerInv /\ ListsInv /\ LinksInv /\ [Next]_vars => LinksInv'
<1> SUFFICES ASSUME TypeOK, LayerInv, ListsInv, LinksInv, [Next]_vars PROVE LinksInv'
  OBVIOUS
<1>1. image \in Seq(Seq(Header)) /\ layer \in Nat \ {0} /\ at \in Nat \ {0}
      /\ links \in Seq(Entry)
  BY DEF TypeOK
<1>2. CASE OpenLayer
  <2>1. Len(links) = 0 /\ at = 1
    BY <1>1, <1>2 DEF OpenLayer, LayerInv, Loops, TypeOK
  <2>2. links' = links /\ HeadersRead' = 0
    BY <1>2, <2>1 DEF OpenLayer, HeadersRead, lists
  <2>3. QED
    BY <1>1, <2>1, <2>2 DEF LinksInv
<1>3. CASE Return
  BY <1>3 DEF Return, LinksInv, Loops
<1>4. CASE IgnoreHeader \/ ReadOpaque \/ ReadWhiteout \/ ReadEntry
  <2>1. Reading /\ at' = at + 1 /\ UNCHANGED <<image, digests, pc, layer>>
    BY <1>4 DEF IgnoreHeader, ReadOpaque, ReadWhiteout, ReadEntry
  <2>2. /\ HeadersRead = at - 1 /\ HeadersRead' = at /\ archive' = archive
        /\ pc \in Loops /\ pc' \in Loops /\ header = archive[at]
    BY <1>1, <2>1 DEF Reading, HeadersRead, archive, header, Loops
  <2>3. \A k : EntryOf(layer, k)' = EntryOf(layer, k) /\ EntryOf(layer, k).pos = k
               /\ EntryOf(layer, k).kind = archive[k].kind
    BY <2>1 DEF EntryOf, archive
  <2>4. CASE ReadEntry /\ header.kind = "hardlink"
    <3>1. /\ DOMAIN links = 1..Len(links) /\ DOMAIN links' = 1..(Len(links) + 1)
          /\ \A i \in DOMAIN links : links'[i] = links[i]
          /\ links'[Len(links) + 1] = EntryOf(layer, at) /\ Len(links) \in Nat
      BY <1>1, <2>4, AppendFacts DEF ReadEntry
    <3>2. ASSUME NEW i \in DOMAIN links'
          PROVE  /\ links'[i].pos \in 1..at /\ links'[i].kind = "hardlink"
                 /\ links'[i] = EntryOf(layer, links'[i].pos)
      <4>1. CASE i \in DOMAIN links
        BY <1>1, <2>2, <3>1, <4>1 DEF LinksInv
      <4>2. CASE i = Len(links) + 1
        BY <1>1, <2>2, <2>3, <2>4, <3>1, <4>2
      <4>3. QED
        BY <3>1, <4>1, <4>2
    <3>3. ASSUME NEW k \in 1..at, Adds(archive[k]) /\ archive[k].kind = "hardlink"
          PROVE  \E i \in DOMAIN links' : links'[i].pos = k
      <4>1. CASE k = at
        <5>1. links'[Len(links) + 1].pos = k /\ Len(links) + 1 \in DOMAIN links'
          BY <2>3, <3>1, <4>1
        <5>2. QED
          BY <5>1
      <4>2. CASE k # at
        <5>1. PICK i \in DOMAIN links : links[i].pos = k
          BY <1>1, <2>2, <3>3, <4>2 DEF LinksInv
        <5>2. links'[i].pos = k /\ i \in DOMAIN links'
          BY <3>1, <5>1
        <5>3. QED
          BY <5>2
      <4>3. QED
        BY <4>1, <4>2
    <3>4. QED
      BY <2>2, <2>3, <3>2, <3>3 DEF LinksInv
  <2>5. CASE ~(ReadEntry /\ header.kind = "hardlink")
    <3>1. links' = links
      BY <1>4, <2>5 DEF IgnoreHeader, ReadOpaque, ReadWhiteout, ReadEntry, lists
    <3>2. ~(Adds(header) /\ header.kind = "hardlink")
      BY <1>4, <2>5 DEF IgnoreHeader, ReadOpaque, ReadWhiteout, Adds, Whiteout, Opaque
    <3>3. \A k \in 1..at : Adds(archive[k]) /\ archive[k].kind = "hardlink" => k \in 1..HeadersRead
      BY <1>1, <2>2, <3>2
    <3>4. 1..HeadersRead \subseteq 1..at
      BY <1>1, <2>2
    <3>5. QED
      BY <2>2, <2>3, <3>1, <3>3, <3>4 DEF LinksInv
  <2>6. QED
    BY <2>4, <2>5
<1>5. ASSUME /\ pc \in Loops /\ pc' \in Loops /\ HeadersRead' = HeadersRead
             /\ UNCHANGED <<image, digests, layer, lists>>
      PROVE  LinksInv'
  <2>1. archive' = archive /\ \A k : EntryOf(layer, k)' = EntryOf(layer, k)
    BY <1>5 DEF archive, EntryOf
  <2>2. QED
    BY <1>5, <2>1 DEF LinksInv, lists
<1>6. CASE EndOfArchive
  <2>1. /\ pc = "read" /\ pc' = "whiteouts" /\ image' = image /\ layer' = layer
        /\ at > Len(archive) /\ HeadersRead <= Len(archive) /\ Len(archive) \in Nat
    BY <1>1, <1>6, HeaderType DEF EndOfArchive, ListsInv, Loops, archive, LayerInv
  <2>2. HeadersRead = at - 1 /\ HeadersRead' = Len(archive)
    BY <2>1 DEF HeadersRead, archive
  <2>3. HeadersRead' = HeadersRead
    BY <1>1, <2>1, <2>2
  <2>4. QED
    BY <1>5, <1>6, <2>3 DEF EndOfArchive, Loops
<1>7. CASE ApplyWhiteout \/ ApplyOpaque \/ ApplyAdd \/ ApplyLink
           \/ EndWhiteouts \/ EndOpaques \/ EndAdds
  <2>1. /\ pc \in Loops \ {"read"} /\ pc' \in Loops \ {"read"}
        /\ UNCHANGED <<image, digests, layer, lists>>
    BY <1>7 DEF ApplyWhiteout, ApplyOpaque, ApplyAdd, ApplyLink,
                EndWhiteouts, EndOpaques, EndAdds, EndLoop, Loops
  <2>2. HeadersRead' = HeadersRead
    BY <2>1 DEF HeadersRead, archive
  <2>3. QED
    BY <1>5, <2>1, <2>2
<1>8. CASE EndLayer \/ Error
  BY <1>8 DEF EndLayer, Error, OpenError, HeaderError, DigestError, Abort, LinksInv, Loops
<1>9. CASE UNCHANGED vars
  BY <1>9 DEF vars, LinksInv, HeadersRead, archive, EntryOf
<1>10. QED
  BY <1>2, <1>3, <1>4, <1>6, <1>7, <1>8, <1>9 DEF Next, Step, Stopped

\* The entry an add puts in place is the one made for its header.
LEMMA AddedEntry ==
  ASSUME TypeOK, LayerInv, ListsInv, ApplyAdd
  PROVE  adds[at].layer = layer /\ FromHeader(adds[at])
<1>1. /\ pc = "adds" /\ at \in DOMAIN adds /\ layer \in 1..Len(image)
      /\ HeadersRead <= Len(archive) /\ AddsInv
  BY DEF ApplyAdd, TypeOK, LayerInv, ListsInv, Loops
<1>2. /\ adds[at].pos \in 1..Len(archive) /\ Adds(archive[adds[at].pos])
      /\ adds[at] = EntryOf(layer, adds[at].pos)
  BY <1>1 DEF AddsInv, HeadersRead
<1>3. QED
  BY <1>1, <1>2 DEF FromHeader, EntryOf, archive

\* What a hardlink of this archive is given is its target's content.
LEMMA LinkTarget ==
  ASSUME TypeOK, LayerInv, MergeInv, OriginInv, ApplyLink,
         Positions(archive, Clean(links[at].link)) # {}
  PROVE  LET ks == Positions(archive, Clean(links[at].link))
             t  == entries[Clean(links[at].link)]
         IN  /\ t # Absent
             /\ archive[Max(ks)].kind = "reg" => t = EntryOf(layer, Max(ks))
<1> DEFINE q  == Clean(links[at].link)
           ks == Positions(archive, q)
           t  == entries[q]
<1>1. links[at] \in Entry
  BY DEF ApplyLink, TypeOK
<1>2. q \in Path
  BY <1>1, CleanIsPath DEF Entry
<1>3. Providers[q] = Built(image, layer)[q]
  BY <1>2 DEF MergeInv, Phase, ApplyLink
<1>4. Built(image, layer)[q] = [layer |-> layer, pos |-> Max(ks)]
  <2>1. layer \in Nat \ {0}
    BY DEF TypeOK
  <2>2. QED
    BY <1>2, <2>1, BuiltLayer DEF archive
<1>5. layer \in Nat
  BY DEF TypeOK
<1>6. t # Absent /\ t.layer = layer /\ t.pos = Max(ks)
  <2>1. t # Absent
    BY <1>2 DEF MergeInv, Phase, ApplyLink
  <2>2. QED
    BY <1>2, <1>3, <1>4, <2>1 DEF Providers
<1>7. ASSUME archive[Max(ks)].kind = "reg"
      PROVE  t = EntryOf(layer, Max(ks))
  <2>1. FromHeader(t)
    BY <1>2, <1>6 DEF OriginInv
  <2>2. t.kind = "reg"
    BY <1>6, <1>7, <2>1 DEF FromHeader, archive
  <2>3. QED
    BY <1>6, <2>1, <2>2 DEF FromHeader
<1>8. QED
  BY <1>6, <1>7

\* No step makes an entry tell what its header does not.
LEMMA OriginStep ==
  TypeOK /\ LayerInv /\ ListsInv /\ LinksInv /\ OriginInv /\ [Next]_vars => OriginInv'
<1> SUFFICES ASSUME TypeOK, LayerInv, ListsInv, LinksInv, OriginInv, [Next]_vars,
                    NEW p \in Path, NEW e, e = entries'[p], e # Absent
             PROVE  FromHeader(e)'
  BY DEF OriginInv
<1>1. /\ image' = image /\ digests' = digests
      /\ \A i, k : EntryOf(i, k)' = EntryOf(i, k)
  <2>1. image' = image /\ digests' = digests
    BY DEF Next, Step, Stopped, vars, OpenLayer, Return, IgnoreHeader,
       ReadOpaque, ReadWhiteout, ReadEntry, EndOfArchive, ApplyWhiteout, EndWhiteouts,
       ApplyOpaque, EndOpaques, ApplyAdd, EndAdds, EndLoop, ApplyLink, EndLayer,
       Error, OpenError, HeaderError, DigestError, Abort
  <2>2. QED
    BY <2>1 DEF EntryOf
<1>2. CASE e = entries[p]
  <2>1. FromHeader(e)
    BY <1>2 DEF OriginInv
  <2>2. QED
    BY <1>1, <2>1 DEF FromHeader
<1>3. CASE ApplyAdd /\ e # entries[p]
  <2>1. e = adds[at]
    BY <1>3 DEF ApplyAdd, TypeOK
  <2>2. FromHeader(e)
    BY <1>3, <2>1, AddedEntry
  <2>3. QED
    BY <1>1, <2>2 DEF FromHeader
<1>4. CASE ApplyLink /\ e # entries[p]
  <2> DEFINE l == links[at]
  <2>1. entries[p] # Absent /\ entries[p].layer = l.layer /\ entries[p].pos = l.pos
    BY <1>4 DEF ApplyLink, SetContent
  <2>2. /\ entries[p] \in Entry /\ e.layer = entries[p].layer
        /\ e.pos = entries[p].pos
        /\ e = [entries[p] EXCEPT !.size = e.size,
                                            !.digest = e.digest]
    BY <1>4, <2>1, LinkKeeps DEF TypeOK
  <2>3. /\ e.path = entries[p].path /\ e.kind = entries[p].kind
        /\ e.link = entries[p].link
    BY <2>2 DEF Entry
  <2>4. l.kind = "hardlink" /\ l = EntryOf(layer, l.pos) /\ l.layer = layer
    <3>1. at \in DOMAIN links /\ pc \in Loops
      BY <1>4 DEF ApplyLink, TypeOK, Loops
    <3>2. l.kind = "hardlink" /\ l = EntryOf(layer, l.pos)
      BY <3>1 DEF LinksInv
    <3>3. EntryOf(layer, l.pos).layer = layer
      BY DEF EntryOf
    <3>4. QED
      BY <3>2, <3>3
  <2>5. entries[p].kind = "hardlink"
    <3>1. FromHeader(entries[p])
      BY <2>1 DEF OriginInv
    <3>2. EntryOf(layer, l.pos).kind = image[layer][l.pos].kind
      BY DEF EntryOf
    <3>3. QED
      BY <2>1, <2>4, <3>1, <3>2 DEF FromHeader
  <2>6. QED
    BY <1>1, <2>1, <2>2, <2>3, <2>5 DEF OriginInv, FromHeader
<1>5. CASE ApplyWhiteout \/ ApplyOpaque \/ Error
  <2>1. e = entries[p]
    BY <1>5 DEF ApplyWhiteout, WithoutTree, ApplyOpaque, WithoutChildren,
       Error, OpenError, HeaderError, DigestError, Abort, Empty
  <2>2. QED
    BY <1>2, <2>1
<1>6. CASE entries' = entries
  BY <1>2, <1>6
<1>7. QED
  BY <1>2, <1>3, <1>4, <1>5, <1>6 DEF Next, Step, Stopped, vars, OpenLayer, Return,
     IgnoreHeader, ReadOpaque, ReadWhiteout, ReadEntry, EndOfArchive, EndWhiteouts,
     EndOpaques, EndAdds, EndLoop, EndLayer

\* A hardlink that has its content keeps it, and the last loop gives it to the rest.
LEMMA HardlinkStep ==
  TypeOK /\ LayerInv /\ ListsInv /\ MergeInv /\ DepthInv /\ ContentInv /\ [Next]_vars
    => HardlinkInv'
<1> SUFFICES ASSUME TypeOK, LayerInv, ListsInv, MergeInv, DepthInv, ContentInv, [Next]_vars,
                    NEW p \in Path, NEW e, e = entries'[p], e # Absent,
                    e.kind = "hardlink", Linked(e)'
             PROVE  HasTargetContent(e)'
  BY DEF HardlinkInv
<1>1. image' = image /\ digests' = digests /\ layer \in Nat \ {0} /\ at \in Nat \ {0}
  BY DEF Next, Step, Stopped, vars, OpenLayer, Return, IgnoreHeader,
     ReadOpaque, ReadWhiteout, ReadEntry, EndOfArchive, ApplyWhiteout, EndWhiteouts,
     ApplyOpaque, EndOpaques, ApplyAdd, EndAdds, EndLoop, ApplyLink, EndLayer,
     Error, OpenError, HeaderError, DigestError, Abort, TypeOK
<1>2. CASE e = entries[p] /\ Linked(entries[p])
  BY <1>1, <1>2 DEF ContentInv, HardlinkInv, HasTargetContent
<1>3. CASE ApplyAdd /\ e # entries[p]
  <2>1. e.layer = layer
    <3>1. e = adds[at]
      BY <1>3 DEF ApplyAdd, TypeOK
    <3>2. QED
      BY <1>3, <3>1, AddedEntry
  <2>2. ~Linked(e)'
    BY <1>1, <1>3, <2>1 DEF ApplyAdd, Linked
  <2>3. QED
    BY <2>2
<1>4. CASE ApplyLink
  <2> DEFINE l  == links[at]
             o  == entries[p]
             ks == Positions(archive, Clean(l.link))
             t  == entries[Clean(l.link)]
  <2>1. /\ pc = "links" /\ pc' = "links" /\ layer' = layer /\ at' = at + 1
        /\ links' = links /\ at \in DOMAIN links
        /\ l = EntryOf(layer, l.pos) /\ l.layer = layer
    <3>1. /\ pc = "links" /\ pc' = "links" /\ layer' = layer /\ at' = at + 1
          /\ links' = links /\ at \in DOMAIN links
      BY <1>4 DEF ApplyLink, lists, TypeOK
    <3>2. l = EntryOf(layer, l.pos)
      BY <3>1 DEF ContentInv, LinksInv, Loops
    <3>3. EntryOf(layer, l.pos).layer = layer
      BY DEF EntryOf
    <3>4. QED
      BY <3>1, <3>2, <3>3
  <2>2. /\ o # Absent /\ o \in Entry
        /\ e.layer = o.layer /\ e.pos = o.pos
        /\ e.link = o.link /\ e.kind = o.kind
    <3>1. o # Absent /\ o \in Entry
      BY <1>4, LinkKeeps DEF TypeOK
    <3>2. /\ e.layer = o.layer /\ e.pos = o.pos
          /\ e = [o EXCEPT !.size = e.size, !.digest = e.digest]
      BY <1>4, <3>1, LinkKeeps
    <3>3. QED
      BY <3>1, <3>2 DEF Entry
  <2>3. CASE o.layer = layer /\ o.pos = l.pos
    <3>1. o.link = l.link
      <4>1. FromHeader(o)
        BY <2>2 DEF ContentInv, OriginInv
      <4>2. EntryOf(layer, l.pos).link = image[layer][l.pos].link
        BY DEF EntryOf
      <4>3. QED
        BY <2>1, <2>3, <4>1, <4>2 DEF FromHeader
    <3>2. SUFFICES ASSUME ks # {}, archive[Max(ks)].kind = "reg"
                   PROVE  /\ e.size = archive[Max(ks)].content
                          /\ e.digest = IF digests THEN archive[Max(ks)].content
                                                  ELSE NoContent
      BY <1>1, <2>1, <2>2, <2>3, <3>1 DEF HasTargetContent, archive
    <3>3. t # Absent /\ t = EntryOf(layer, Max(ks))
      BY <1>4, <3>2, LinkTarget DEF ContentInv
    <3>4. t.size = archive[Max(ks)].content
          /\ t.digest = IF digests THEN archive[Max(ks)].content ELSE NoContent
      BY <3>3 DEF EntryOf, archive
    <3>5. e = [o EXCEPT !.size = t.size, !.digest = t.digest]
      BY <1>4, <2>1, <2>2, <2>3, <3>3 DEF ApplyLink, SetContent
    <3> HIDE DEF t
    <3>6. e.size = t.size /\ e.digest = t.digest
      BY <2>2, <3>5 DEF Entry
    <3>7. QED
      BY <3>4, <3>6
  <2>4. CASE ~(o.layer = layer /\ o.pos = l.pos)
    <3>1. e = o
      BY <1>4, <2>1, <2>2, <2>4 DEF ApplyLink, SetContent
    <3>2. o.layer <= layer /\ o.layer \in Nat
      BY <2>2 DEF DepthInv, Entry
    <3>3. Linked(o)
      <4>1. o.layer < layer \/ \E i \in DOMAIN links : i < at + 1 /\ links[i].pos = o.pos
        BY <2>1, <3>1 DEF Linked
      <4>2. QED
        BY <1>1, <2>1, <2>4, <3>2, <4>1 DEF Linked, TypeOK
    <3>4. QED
      BY <1>2, <3>1, <3>3
  <2>5. QED
    BY <2>3, <2>4
<1>5. CASE EndLayer
  <2>1. /\ e = entries[p] /\ entries' = entries /\ layer' = layer + 1
        /\ pc' = "open" /\ pc = "links"
        /\ at > Len(links)
    BY <1>5 DEF EndLayer
  <2>2. e # Absent /\ e.kind = "hardlink" /\ FromHeader(e) /\ e.layer <= layer
        /\ e.layer \in Nat
    BY <2>1 DEF ContentInv, OriginInv, DepthInv, TypeOK, Entry
  <2>3. Linked(e)
    <3>1. CASE e.layer < layer
      BY <3>1 DEF Linked
    <3>2. CASE e.layer = layer
      <4>1. e.pos \in 1..HeadersRead /\ Adds(archive[e.pos]) /\ archive[e.pos].kind = "hardlink"
        BY <2>1, <2>2, <3>2 DEF FromHeader, HeadersRead, archive
      <4>2. PICK i \in DOMAIN links : links[i].pos = e.pos
        BY <2>1, <4>1 DEF ContentInv, LinksInv, Loops
      <4>3. i < at
        BY <1>1, <2>1, <4>2 DEF TypeOK
      <4>4. QED
        BY <2>1, <4>2, <4>3 DEF Linked
    <3>3. QED
      BY <1>1, <2>2, <3>1, <3>2
  <2>4. QED
    BY <1>2, <2>1, <2>3
<1>6. CASE e = entries[p] /\ layer' = layer /\ pc' # "links"
  BY <1>2, <1>6 DEF Linked
<1>7. CASE EndAdds
  <2>1. entries' = entries /\ layer' = layer /\ at' = 1 /\ links' = links
    BY <1>7 DEF EndAdds, EndLoop, lists
  <2>2. \A i \in DOMAIN links : i \in Nat /\ ~(i < 1)
    BY DEF TypeOK
  <2>3. e.layer < layer
    BY <2>1, <2>2 DEF Linked
  <2>4. QED
    BY <1>2, <2>1, <2>3 DEF Linked
<1>8. CASE UNCHANGED vars
  BY <1>2, <1>8 DEF vars, Linked
<1>9. CASE ApplyWhiteout \/ ApplyOpaque
  <2>1. e = entries[p] /\ layer' = layer /\ pc' # "links"
    BY <1>9 DEF ApplyWhiteout, ApplyOpaque, WithoutTree, WithoutChildren
  <2>2. QED
    BY <1>6, <2>1
<1>10. CASE Error
  BY <1>10 DEF Error, OpenError, HeaderError, DigestError, Abort, Empty
<1>11. CASE OpenLayer \/ Return \/ IgnoreHeader \/ ReadOpaque \/ ReadWhiteout
            \/ ReadEntry \/ EndOfArchive \/ EndWhiteouts \/ EndOpaques
  <2>1. entries' = entries /\ layer' = layer /\ pc' # "links"
    BY <1>11 DEF OpenLayer, Return, IgnoreHeader, ReadOpaque, ReadWhiteout, ReadEntry,
       Reading, EndOfArchive, EndWhiteouts, EndOpaques, EndLoop
  <2>2. QED
    BY <1>6, <2>1
<1>12. CASE ApplyAdd /\ e = entries[p]
  BY <1>6, <1>12 DEF ApplyAdd
<1>13. QED
  BY <1>3, <1>4, <1>5, <1>7, <1>8, <1>9, <1>10, <1>11, <1>12 DEF Next, Step, Stopped

-----------------------------------------------------------------------------
(***************************************************************************)
(* The theorems about the merge.                                           *)
(***************************************************************************)

\* IInv holds in every state: what each loop has established so far.
THEOREM Invariant == Spec => []IInv
<1>1. Init => IInv
  <2> SUFFICES ASSUME Init PROVE ListsInv /\ MergeInv /\ DepthInv /\ ContentInv
    BY TypeInit DEF IInv
  <2>1. ListsInv
    BY DEF Init, ListsInv, Loops
  <2>2. MergeInv
    BY BuiltNone DEF Init, MergeInv, Phase, Before, Providers, Empty
  <2>3. DepthInv
    BY DEF Init, DepthInv, Empty
  <2>4. ContentInv
    BY DEF Init, ContentInv, LinksInv, OriginInv, HardlinkInv, Loops, Empty
  <2>5. QED
    BY <2>1, <2>2, <2>3, <2>4
<1>2. IInv /\ [Next]_vars => IInv'
  BY TypeStep, LayerStep, ListsStep, MergeStep, DepthStep,
     LinksStep, OriginStep, HardlinkStep DEF IInv, ContentInv
<1>3. QED
  BY <1>1, <1>2, PTL DEF Spec

\* Where no layer empties the root, what Build makes is the merge promised.
LEMMA BuiltIsMerged ==
  ASSUME NEW img, NEW n \in Nat, ~RootEmptied(img, n)
  PROVE  Built(img, n) = Merged(img, n)
<1>1. ASSUME NEW j \in 2..n, NEW p
      PROVE  Hides(img[j], p) <=> Removes(img[j], p)
  <2>1. \A k \in DOMAIN img[j] :
          /\ Whiteout(img[j][k]) => WhiteoutTarget(img[j][k]) # Root
          /\ Opaque(img[j][k]) => OpaqueDir(img[j][k]) # Root
    BY DEF RootEmptied, EmptiesRoot
  <2>2. ASSUME NEW t, t # Root
        PROVE  /\ IsPrefix(t, p) <=> p = t \/ Below(t, p)
               /\ IsStrictPrefix(t, p) <=> Below(t, p)
    BY <2>2 DEF Below, IsStrictPrefix, IsPrefix
  <2>3. QED
    BY <2>1, <2>2 DEF Hides, Removes
<1>2. ASSUME NEW p PROVE Sources(img, n, p) = KeptLayers(img, n, p)
  <2>1. ASSUME NEW i \in 1..n, NEW j \in (i + 1)..n PROVE j \in 2..n
    OBVIOUS
  <2>2. QED
    BY <1>1, <2>1 DEF Sources, KeptLayers, LayersWith
<1>3. QED
  BY <1>2 DEF Built, Merged

\* Between two layers, and at the end, the invariant is what Build promises.
LEMMA BuiltAtRest ==
  ASSUME IInv, pc \in {"open", "done"}
  PROVE  Providers = Built(image, layer - 1)
<1>1. \A p \in Path : Providers[p] = Built(image, layer - 1)[p]
  BY DEF IInv, MergeInv, Phase, Before
<1>2. Providers = [p \in Path |-> Providers[p]]
  BY DEF Providers
<1>3. Built(image, layer - 1) = [p \in Path |-> Built(image, layer - 1)[p]]
  BY DEF Built
<1>4. QED
  BY <1>1, <1>2, <1>3

LEMMA MergeAtRest == IInv => MergeCorrect
<1> SUFFICES ASSUME IInv, pc \in {"open", "done"}, ~RootEmptied(image, layer - 1)
             PROVE  Providers = Merged(image, layer - 1)
  BY DEF MergeCorrect
<1>1. layer - 1 \in Nat
  BY DEF IInv, TypeOK
<1>2. QED
  BY <1>1, BuiltAtRest, BuiltIsMerged

\* Between layers and at the end, the filesystem is the merge of the layers
\* applied, for every image and every order of the headers in its archives.
THEOREM MergeIsCorrect == Spec => []MergeCorrect
BY Invariant, MergeAtRest, PTL

\* No whiteout removes what its own layer adds, wherever the archive lists it.
THEOREM OwnEntriesAreKept == Spec => OwnEntriesStay
<1>1. IInv /\ [Next]_vars => [KeepsOwnEntries]_vars
  <2> SUFFICES ASSUME IInv, Next, NEW p \in Path, pc' # "failed",
                      entries[p] # Absent, entries'[p] = Absent
               PROVE  entries[p].layer < layer
    BY DEF KeepsOwnEntries
  <2>1. CASE pc \in {"open", "read", "whiteouts", "opaques", "done"}
    BY <2>1 DEF IInv, DepthInv
  <2>2. CASE ApplyAdd
    <3>1. adds[at] \in Entry /\ adds[at] # Absent
      BY <2>2, AbsentAssumption DEF ApplyAdd, IInv, TypeOK
    <3>2. entries'[p] = entries[p] \/ entries'[p] = adds[at]
      BY <2>2 DEF ApplyAdd, IInv, TypeOK
    <3>3. QED
      BY <3>1, <3>2
  <2>3. CASE ApplyLink
    BY <2>3, LinkKeeps DEF IInv
  <2>4. CASE entries' = entries
    BY <2>4
  <2>5. QED
    BY <2>1, <2>2, <2>3, <2>4 DEF Next, Step, Stopped, vars, OpenLayer, Return, IgnoreHeader,
       ReadOpaque, ReadWhiteout, ReadEntry, EndOfArchive, ApplyWhiteout, EndWhiteouts,
       ApplyOpaque, EndOpaques, EndAdds, EndLoop, EndLayer,
       Error, OpenError, HeaderError, DigestError, Abort
<1>2. QED
  BY <1>1, Invariant, PTL DEF Spec, OwnEntriesStay

\* Build implements OverlayMount: one call that fails and returns nothing or
\* returns the merge of all the layers; no state in between shows.
THEOREM BuildRefinesMount == Spec => BuildIsAtomic
<1> DEFINE status == IF pc \in {"done", "failed"} THEN pc ELSE "building"
           fs == IF pc = "done" THEN Providers ELSE Empty
<1>1. Init => Mount!MountInit
  BY DEF Init, Mount!MountInit, Empty
<1>2. IInv /\ IInv' /\ [Next]_vars => [Mount!MountNext]_<<image, status, fs>>
  <2> SUFFICES ASSUME IInv, IInv', [Next]_vars
               PROVE  Mount!MountNext \/ UNCHANGED <<image, status, fs>>
    OBVIOUS
  <2>1. CASE Return
    <3>1. /\ pc = "open" /\ pc' = "done"
          /\ image' = image /\ layer' = layer /\ entries' = entries
      BY <2>1 DEF Return
    <3>2. layer' - 1 = Len(image)
      BY <3>1 DEF IInv, TypeOK, LayerInv
    <3>3. Providers' = Built(image, Len(image))
      <4>1. Providers = Built(image, layer - 1) /\ layer' - 1 = layer - 1
        BY <3>1, BuiltAtRest
      <4>2. QED
        BY <3>1, <3>2, <4>1 DEF Providers
    <3>4. Mount!ReturnMount
      BY <3>1, <3>3 DEF Mount!ReturnMount, AllBuilt
    <3>5. QED
      BY <3>4 DEF Mount!MountNext
  <2>2. CASE Error
    <3>1. pc \in {"open", "read"} /\ pc' = "failed" /\ image' = image
      BY <2>2 DEF Error, OpenError, HeaderError, DigestError, Reading, Abort
    <3>2. Mount!ReturnError
      BY <3>1 DEF Mount!ReturnError, Empty
    <3>3. QED
      BY <3>2 DEF Mount!MountNext
  <2>3. CASE Step /\ ~Return
    <3>1. /\ pc \notin {"done", "failed"} /\ pc' \notin {"done", "failed"}
          /\ image' = image
      BY <2>3 DEF Step, OpenLayer, Return, IgnoreHeader, ReadOpaque, ReadWhiteout,
         ReadEntry, Reading, EndOfArchive, ApplyWhiteout, EndWhiteouts,
         ApplyOpaque, EndOpaques, ApplyAdd, EndAdds, EndLoop, ApplyLink, EndLayer
    <3>2. QED
      BY <3>1 DEF Empty
  <2>4. CASE UNCHANGED vars
    BY <2>4 DEF vars, Providers, Empty
  <2>5. QED
    BY <2>1, <2>2, <2>3, <2>4 DEF Next, Stopped
<1>3. QED
  BY <1>1, <1>2, Invariant, PTL DEF Spec, BuildIsAtomic, Mount!MountSpec

\* A hardlink carries the size and digest of the regular file its own archive
\* last gives its target's name to.
THEOREM HardlinksAreLinked == Spec => []HardlinkContent
<1>1. IInv => HardlinkContent
  <2> SUFFICES ASSUME IInv, pc = "done", NEW p \in Path, entries[p] # Absent,
                      entries[p].kind = "hardlink"
               PROVE  HasTargetContent(entries[p])
    BY DEF HardlinkContent
  <2>1. entries[p].layer < layer
    BY DEF IInv, DepthInv
  <2>2. QED
    BY <2>1 DEF IInv, ContentInv, HardlinkInv, Linked
<1>2. QED
  BY <1>1, Invariant, PTL

\* Every other entry carries its own header's size and digest.
THEOREM OthersKeepTheirContent == Spec => []OtherContentKept
<1>1. IInv => OtherContentKept
  BY DEF IInv, ContentInv, OriginInv, FromHeader, OtherContentKept
<1>2. QED
  BY <1>1, Invariant, PTL
=============================================================================
