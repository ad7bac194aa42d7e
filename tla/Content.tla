------------------------------ MODULE Content ------------------------------
(***************************************************************************)
(* overlay.Open and overlay.Extract (internal/overlay/overlay.go): reading *)
(* the bytes of entries back from the layer that provides them, after      *)
(* Build.  cat and a copied file use Open, a copied directory uses Extract *)
(* once per layer.  The entries are those of the merge Build computes.     *)
(***************************************************************************)
EXTENDS Image

VARIABLES
  archive,  \* the layer read
  call,     \* "Open" or "Extract"
  asked,    \* the entries to read
  wanted,   \* Extract's map: the entries asked for and not reached yet
  sharing,  \* entries still to be given the content read into memory
  data,     \* that content
  at,       \* the next header of the archive
  given,    \* what the caller was handed, as [entry, content]
  pc        \* "open", "read", "share", or how the call returned

vars == <<archive, call, asked, wanted, sharing, data, at, given, pc>>

header == archive[at]

\* What Build records as an entry's size and digest, see Overlay: those of the
\* last header of its path, or of its link's target (HardlinkContent).
Recorded(a, h) ==
  LET ks == Positions(a, Clean(h.link))
  IN  IF h.kind = "hardlink" /\ ks # {} THEN a[Max(ks)].content ELSE h.content

\* The tar name that holds the entry's bytes.
ContentPathOwn(h) == Clean(h.name)  \* mutant: a hardlink's bytes are under its own name
ContentPath(h) == IF h.kind = "hardlink" THEN Clean(h.link) ELSE Clean(h.name)

EntryOf(a, h) ==
  [path |-> Clean(h.name), kind |-> h.kind, contentPath |-> ContentPath(h),
   recorded |-> Recorded(a, h)]

\* The entries the merged filesystem shows from layer i.
ShownFrom(img, i) ==
  LET q == {p \in Path : /\ i \in KeptLayers(img, Len(img), p)
                         /\ i = Max(KeptLayers(img, Len(img), p))}
  IN  {EntryOf(img[i], img[i][Max(Positions(img[i], p))]) : p \in q}

IsRegular(e) == e.kind \in {"reg", "hardlink"}

Outcomes == {"ok", "notRegular", "readError", "callerError", "notFound"}

Init ==
  /\ \E img \in Images : \E i \in DOMAIN img :
       archive = img[i] /\ asked \in SUBSET ShownFrom(img, i)
  /\ call \in {"Open", "Extract"}
  /\ call = "Open" => Cardinality(asked) = 1
  /\ wanted = asked /\ sharing = {} /\ data = NoContent
  /\ at = 1 /\ given = {} /\ pc = "open"

Finish(outcome) ==
  pc' = outcome /\ UNCHANGED <<archive, call, asked, wanted, sharing, data, at, given>>

Regular == \A e \in asked : IsRegular(e)

NotRegular == pc = "open" /\ ~Regular /\ Finish("notRegular")

\* Extract returns at once when there is nothing to read.
NothingAsked == pc = "open" /\ asked = {} /\ Finish("ok")
OpenLayer    == pc = "open" /\ Regular /\ asked # {} /\ Finish("read")
OpenError    == pc = "open" /\ Regular /\ asked # {} /\ Finish("readError")

\* for len(wanted) > 0 { hdr, err := tr.Next() ... }
Reading == pc = "read" /\ wanted # {} /\ at <= Len(archive)

HeaderError == pc = "read" /\ wanted # {} /\ Finish("readError")

HoldsBytesAny(h) == TRUE  \* mutant: links and directories match too
HoldsBytes(h) == h.kind = "reg"

\* The entries whose bytes are under this header.
Holders == {e \in wanted : HoldsBytes(header) /\ e.contentPath = Clean(header.name)}

SkipHeaderAgain == Reading /\ Holders = {} /\ UNCHANGED vars  \* mutant: never reads on
SkipHeader ==
  /\ Reading /\ Holders = {}
  /\ at' = at + 1
  /\ UNCHANGED <<archive, call, asked, wanted, sharing, data, given, pc>>

\* One entry reads the archive directly; Open leaves the archive open here.
GiveOne ==
  /\ Reading /\ Cardinality(Holders) = 1
  /\ given' = given \cup [entry : Holders, content : {header.content}]
  /\ wanted' = wanted \ Holders
  /\ at' = at + 1
  /\ pc' = IF call = "Open" THEN "ok" ELSE "read"
  /\ UNCHANGED <<archive, call, asked, sharing, data>>

\* mutant: the entries stay wanted
ReadSharedKept ==
  /\ Reading /\ Cardinality(Holders) > 1
  /\ data' = header.content /\ sharing' = Holders
  /\ at' = at + 1 /\ pc' = "share"
  /\ UNCHANGED <<archive, call, asked, wanted, given>>

\* Several hardlinks share this content: it is read into memory once.
ReadShared ==
  /\ Reading /\ Cardinality(Holders) > 1
  /\ data' = header.content
  /\ sharing' = Holders
  /\ wanted' = wanted \ Holders
  /\ at' = at + 1
  /\ pc' = "share"
  /\ UNCHANGED <<archive, call, asked, given>>

ReadError == Reading /\ Cardinality(Holders) > 1 /\ Finish("readError")

GiveShared ==
  /\ pc = "share"
  /\ \E e \in sharing :
       /\ given' = given \cup {[entry |-> e, content |-> data]}
       /\ sharing' = sharing \ {e}
       /\ pc' = IF sharing' = {} THEN "read" ELSE "share"
  /\ UNCHANGED <<archive, call, asked, wanted, data, at>>

\* fn fails, after it may have written some of the content.
CallerError ==
  /\ call = "Extract"
  /\ pc = "share" \/ (Reading /\ Cardinality(Holders) = 1)
  /\ Finish("callerError")

\* The archive ends before everything asked for was reached.
EndOfArchiveOk ==  \* mutant: what is left in the map is not reported
  pc = "read" /\ wanted # {} /\ at > Len(archive) /\ Finish("ok")
EndOfArchive ==
  pc = "read" /\ wanted # {} /\ at > Len(archive) /\ Finish("notFound")

AllGiven == pc = "read" /\ wanted = {} /\ Finish("ok")

Returned == pc \in Outcomes /\ UNCHANGED vars

Step ==
  \/ NotRegular \/ NothingAsked \/ OpenLayer \/ SkipHeader
  \/ GiveOne \/ ReadShared \/ GiveShared \/ EndOfArchive \/ AllGiven

Error == OpenError \/ HeaderError \/ ReadError \/ CallerError

Next == Step \/ Error \/ Returned

Spec == Init /\ [][Next]_vars

\* The loop runs until it returns; errors need not happen.
FairSpec == Spec /\ WF_vars(Step)
-----------------------------------------------------------------------------

Entry == [path : Path, kind : Kinds, contentPath : Path,
          recorded : Contents \cup {NoContent}]

\* Every variable holds a value of its kind: what is handed over is always the
\* content of a regular file.
TypeOK ==
  /\ archive \in Seq(Header)
  /\ asked \subseteq Entry /\ wanted \subseteq asked /\ sharing \subseteq asked
  /\ data \in Contents \cup {NoContent}
  /\ at \in 1..(Len(archive) + 1)
  /\ given \subseteq [entry : asked, content : Contents]
  /\ pc \in {"open", "read", "share"} \cup Outcomes

\* Success means everything: an entry is never left out silently, and each is
\* handed over once (overlay.go:394-396 and 456-459).
SuccessIsComplete ==
  pc = "ok" => /\ {g.entry : g \in given} = asked
               /\ Cardinality(given) = Cardinality(asked)

\* An entry is waiting, being shared or handed over, and only one of these,
\* at every point an error can end the call: the caller knows from its own
\* callbacks which entries it has (overlay.go:424-453).
EachEntryOnce ==
  /\ wanted \cap sharing = {}
  /\ {g.entry : g \in given} = (asked \ wanted) \ sharing

\* The archive gives no path twice, and its hardlinks name regular files in it.
Ordinary(a) ==
  /\ \A q \in Path : Cardinality(Positions(a, q)) <= 1
  /\ \A k \in DOMAIN a : Adds(a[k]) /\ a[k].kind = "hardlink" =>
       \E j \in Positions(a, Clean(a[k].link)) : a[j].kind = "reg"

\* From an ordinary archive the bytes read are the bytes Build measured and
\* hashed, and only a failing read or caller ends the call early: what Build
\* shows as a file can be read (overlay.go:355-356 and 394-396).
ReadsWhatBuildRecorded ==
  Ordinary(archive) =>
    /\ pc # "notFound"
    /\ \A g \in given : g.content = g.entry.recorded

-----------------------------------------------------------------------------
(***************************************************************************)
(* Why these hold: what is known at every step of the reading loop.        *)
(***************************************************************************)

\* The layer is one Build may be given; what is asked for comes from it.
AskedInv ==
  /\ archive \in Seq({h \in Header : WellFormed(h)})
  /\ asked \subseteq {EntryOf(archive, archive[k]) :
                         k \in {j \in DOMAIN archive : Adds(archive[j])}}
  /\ call = "Open" => Cardinality(asked) = 1

\* Where the loop stands.
PhaseInv ==
  /\ pc = "open" => at = 1 /\ wanted = asked /\ given = {}
  /\ pc \in {"read", "share"} \/ given # {} => Regular
  /\ pc \notin {"share", "callerError"} => sharing = {}
  /\ pc = "ok" => wanted = {}
  /\ \A g, h \in given : g.entry = h.entry => g = h

\* A regular file of the archive has the entry's bytes under this name.
Holds(h, e) == HoldsBytes(h) /\ Clean(h.name) = e.contentPath
Source(e, c) == \E j \in DOMAIN archive : Holds(archive[j], e) /\ archive[j].content = c

SourceInv ==
  /\ \A g \in given : Source(g.entry, g.content)
  /\ \A e \in sharing : Source(e, data)

\* The bytes of what is still wanted have not been passed.
AheadInv ==
  Ordinary(archive) /\ pc \in {"read", "share"} =>
    \A e \in wanted : \E j \in at..Len(archive) : Holds(archive[j], e)

\* What is known at every step, strong enough to follow from itself: nothing
\* asked for is lost, handed over twice or overtaken (overlay.go:424-459).
IInv ==
  TypeOK /\ AskedInv /\ PhaseInv /\ EachEntryOnce /\ SourceInv
    /\ AheadInv /\ (Ordinary(archive) => pc # "notFound")

\* The call comes to an end.
Terminates == <>(pc \in Outcomes)

\* "The cat command reads the file as it exists in the merged filesystem, just
\* like in a running container" (README.md:92-93): where an archive gives a
\* path twice, unpacking it leaves the later one.
ReadsTheFileShown ==
  \A g \in given : g.entry.kind = "reg" => g.content = g.entry.recorded
=============================================================================
