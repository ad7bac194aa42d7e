----------------------------- MODULE Documents -----------------------------
(***************************************************************************)
(* The commands that merge nothing: blob, export, manifest, config and     *)
(* inspect hand on what an image is made of, tags what a registry lists.   *)
(***************************************************************************)
EXTENDS Files

VARIABLE written  \* export: the file at --output, "old" until it is opened

documentVars == <<commandVars, data, written>>

Handing == pc = "load" /\ input.name \notin DOMAIN Works
Hand(d) == pc' = "done" /\ data' = d

-----------------------------------------------------------------------------
\* blob: the number is looked at before anything is fetched.
CheckLayer ==
  /\ pc = "blob"
  /\ pc' = IF input.layer < 1 THEN "failed" ELSE "fetch"
  /\ UNCHANGED <<context, data, written>>

NoSuchBlob ==
  /\ Handing /\ input.name = "blob" /\ input.layer > Len(image.layers)
  /\ Fail /\ UNCHANGED <<data, written>>

OpenBlobFromZero ==  \* mutant: the layers are counted from 0
  /\ Handing /\ input.name = "blob" /\ input.layer < Len(image.layers)
  /\ Hand([blob |-> Manifest[input.layer + 1], whole |-> ~input.broken])
  /\ UNCHANGED <<context, written>>

OpenBlob ==
  /\ Handing /\ input.name = "blob" /\ input.layer <= Len(image.layers)
  /\ Hand([blob |-> Manifest[input.layer], whole |-> ~input.broken])
  /\ UNCHANGED <<context, written>>

\* export: the tarball is written to the end, or the disk or a layer fails
\* before the file is opened or after; only then the view is asked.
WriteTarball ==
  /\ Handing /\ input.name = "export" /\ Hand([image |-> image])
  /\ written' = "whole"
  /\ UNCHANGED context

TarballFailsUntold ==  \* mutant: the error of the writer is dropped
  /\ Handing /\ input.name = "export" /\ Hand([image |-> image])
  /\ written' \in {"old", "part"}
  /\ UNCHANGED context

TarballFails ==
  /\ Handing /\ input.name = "export" /\ Fail
  /\ written' \in {"old", "part"} /\ UNCHANGED data

\* manifest and config: the document as it was served.
Served == [of |-> input.name, image |-> image]

PrintDocument ==
  /\ Handing /\ input.name \in {"manifest", "config"} /\ Hand([document |-> Served])
  /\ UNCHANGED <<context, written>>

\* inspect: the layers as the manifest describes them, numbered from 1, and the
\* runtime config.
LayerData ==
  [k \in DOMAIN image.layers |->
     [index |-> k, digest |-> Manifest[k],
      annotations |-> IF k \in DOMAIN input.annotations THEN input.annotations[k] ELSE << >>]]

InspectImage ==
  /\ Handing /\ input.name = "inspect"
  /\ Hand([layers |-> LayerData, config |-> input.config])
  /\ UNCHANGED <<context, written>>

\* The manifest, the config or the layer cannot be had.
DocumentError == Handing /\ Fail /\ UNCHANGED <<data, written>>

-----------------------------------------------------------------------------
\* tags: no daemon, no pull policy and no platform.
BadReference ==
  /\ pc = "tags" /\ ref \notin References
  /\ Fail /\ UNCHANGED <<data, written>>

Cut(tags, limit) == IF limit > 0 /\ limit < Len(tags) THEN SubSeq(tags, 1, limit) ELSE tags

CutThenReverse(tags) == Reverse(Cut(tags, input.limit))  \* mutant: in the other order

NewestFirst(tags) == Cut(Reverse(tags), input.limit)

ListTags ==
  /\ pc = "tags" /\ ref \in References
  /\ Ask("registry", TRUE) /\ Hand([tags |-> NewestFirst(input.tags)])
  /\ UNCHANGED <<input, ref, image, loaded, printing, written>>

TagsFail ==
  /\ pc = "tags" /\ ref \in References
  /\ Ask("registry", FALSE) /\ pc' = "failed"
  /\ UNCHANGED <<input, ref, image, loaded, printing, data, written>>

Handed ==
  \/ CheckLayer \/ NoSuchBlob \/ OpenBlob \/ WriteTarball \/ TarballFails
  \/ PrintDocument \/ InspectImage \/ DocumentError
  \/ BadReference \/ ListTags \/ TagsFail
-----------------------------------------------------------------------------
(***************************************************************************)
(* Properties.                                                             *)
(***************************************************************************)

\* "Layers are 1-indexed, matching the # column of cek inspect", and the digest
\* of the bytes is the one inspect shows (README.md:297-306): blob hands out
\* the layer that inspect lists under the number given.
BlobIsTheLayerInspected ==
  Ran("blob") => \E row \in ToSet(LayerData) : row.index = input.layer /\ row.digest = data.blob

\* "Reverse to display newest tags first" (tags.go:64-65) and "--limit": what
\* is shown are the tags the registry lists last, the last one first.
TagsAreTheLast ==
  Ran("tags") =>
    LET n == Len(input.tags) IN
    /\ Len(data.tags) = IF input.limit \in 1..n THEN input.limit ELSE n
    /\ \A k \in DOMAIN data.tags : data.tags[k] = input.tags[n + 1 - k]
=============================================================================
