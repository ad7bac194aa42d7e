----------------------------- MODULE OverlayInv -----------------------------
(***************************************************************************)
(* Why Overlay merges correctly: what each loop of apply() has established *)
(* when its next element is at, as one inductive invariant.                *)
(***************************************************************************)
EXTENDS Overlay

Loops == {"read", "whiteouts", "opaques", "adds", "links"}

\* The layer being applied is one of the image's, and no list outlives it.
LayerInv ==
  /\ pc \in Loops => layer <= Len(image)
  /\ pc = "open" => layer <= Len(image) + 1
  /\ pc = "done" => layer = Len(image) + 1
  /\ pc \notin Loops => at = 1 /\ Len(adds) + Len(links) + Len(whiteouts) + Len(opaques) = 0

\* How many headers of the archive are in the lists.
HeadersRead == IF pc = "read" THEN at - 1 ELSE Len(archive)

\* The lists hold what the archive says so far and nothing else.
WhiteoutsInv ==
  /\ \A i \in DOMAIN whiteouts : \E k \in 1..HeadersRead :
       Whiteout(archive[k]) /\ whiteouts[i] = WhiteoutTarget(archive[k])
  /\ \A k \in 1..HeadersRead : Whiteout(archive[k]) =>
       \E i \in DOMAIN whiteouts : whiteouts[i] = WhiteoutTarget(archive[k])

OpaquesInv ==
  /\ \A i \in DOMAIN opaques : \E k \in 1..HeadersRead :
       Opaque(archive[k]) /\ opaques[i] = OpaqueDir(archive[k])
  /\ \A k \in 1..HeadersRead : Opaque(archive[k]) =>
       \E i \in DOMAIN opaques : opaques[i] = OpaqueDir(archive[k])

\* adds holds its entries in the order of the archive, which is what makes the
\* last header of a path win.
AddsInv ==
  /\ \A i \in DOMAIN adds :
       /\ adds[i].pos \in 1..HeadersRead
       /\ Adds(archive[adds[i].pos])
       /\ adds[i] = EntryOf(layer, adds[i].pos)
  /\ \A i, j \in DOMAIN adds : i < j => adds[i].pos < adds[j].pos
  /\ \A k \in 1..HeadersRead : Adds(archive[k]) =>
       \E i \in DOMAIN adds : adds[i].pos = k

ListsInv ==
  pc \in Loops =>
    /\ HeadersRead <= Len(archive)
    /\ WhiteoutsInv /\ OpaquesInv /\ AddsInv

-----------------------------------------------------------------------------
\* The filesystem, path by path.

Covers(w, p) == p = w \/ Below(w, p)

\* Removed by the first n whiteouts, by the first n opaque whiteouts.
WhitedOut(n, p) == \E i \in DOMAIN whiteouts : i <= n /\ Covers(whiteouts[i], p)
Emptied(n, p)   == \E i \in DOMAIN opaques : i <= n /\ Below(opaques[i], p)

\* Added by one of the first n adds, and the last of these.
AddedBy(n, p) == \E i \in DOMAIN adds : i <= n /\ adds[i].path = p

LastAddedBy(n, p, i) ==
  /\ i \in DOMAIN adds /\ i <= n /\ adds[i].path = p
  /\ \A j \in DOMAIN adds : j > i /\ j <= n => adds[j].path # p

Before(p) == Built(image, layer - 1)[p]

Phase(p) ==
  CASE pc \in {"open", "read", "done"} ->
         Providers[p] = Before(p)
    [] pc = "whiteouts" ->
         Providers[p] = IF WhitedOut(at - 1, p) THEN Absent ELSE Before(p)
    [] pc = "opaques" ->
         Providers[p] = IF WhitedOut(Len(whiteouts), p) \/ Emptied(at - 1, p)
                        THEN Absent ELSE Before(p)
    [] pc = "adds" ->
         IF AddedBy(at - 1, p)
         THEN \E i \in DOMAIN adds :
                /\ LastAddedBy(at - 1, p, i)
                /\ Providers[p] = [layer |-> layer, pos |-> adds[i].pos]
         ELSE Providers[p] = IF Removes(archive, p) THEN Absent ELSE Before(p)
    [] pc = "links" ->
         /\ Providers[p] = Built(image, layer)[p]
         /\ Positions(archive, p) # {} => entries[p] # Absent
    [] OTHER -> Providers[p] = Absent

MergeInv == \A p \in Path : Phase(p)

\* Until its own entries land, only lower layers are in the filesystem.
DepthInv ==
  \A p \in Path : entries[p] # Absent =>
    /\ entries[p].layer <= layer
    /\ pc \in {"open", "read", "whiteouts", "opaques", "done"} => entries[p].layer < layer

-----------------------------------------------------------------------------
\* The contents.

\* links holds the archive's hardlinks.
LinksInv ==
  pc \in Loops =>
    /\ \A i \in DOMAIN links :
         /\ links[i].pos \in 1..HeadersRead
         /\ links[i] = EntryOf(layer, links[i].pos)
         /\ links[i].kind = "hardlink"
    /\ \A k \in 1..HeadersRead : Adds(archive[k]) /\ archive[k].kind = "hardlink" =>
         \E i \in DOMAIN links : links[i].pos = k

\* An entry tells what its header says; only a hardlink's content may differ.
FromHeader(e) ==
  /\ e.layer \in 1..Len(image) /\ e.pos \in 1..Len(image[e.layer])
  /\ LET h == image[e.layer][e.pos] IN
       Adds(h) /\ e.path = Clean(h.name) /\ e.kind = h.kind /\ e.link = h.link
  /\ e.kind # "hardlink" => e = EntryOf(e.layer, e.pos)

OriginInv == \A p \in Path : entries[p] # Absent => FromHeader(entries[p])

\* The hardlinks of the layers below have their content, and so do those the
\* last loop has come to.
Linked(e) ==
  \/ e.layer < layer
  \/ pc = "links" /\ \E i \in DOMAIN links : i < at /\ links[i].pos = e.pos

HardlinkInv ==
  \A p \in Path :
    entries[p] # Absent /\ entries[p].kind = "hardlink" /\ Linked(entries[p])
    => HasTargetContent(entries[p])

ContentInv == LinksInv /\ OriginInv /\ HardlinkInv

IInv == TypeOK /\ LayerInv /\ ListsInv /\ MergeInv /\ DepthInv /\ ContentInv
=============================================================================
