---------------------------- MODULE OverlayMount ----------------------------
(***************************************************************************)
(* What a caller of overlay.Build sees: one call that either fails and     *)
(* returns no filesystem, or returns the merge of every layer at once.     *)
(* Nothing in between is ever visible.                                     *)
(***************************************************************************)
CONSTANTS
  Images,     \* the images that may be given to Build
  Nothing,    \* no filesystem
  Mounted(_)  \* the merge of all layers of an image

VARIABLES
  image,    \* the layers given to Build
  status,   \* "building", then "done" or "failed"
  fs        \* what was returned

MountInit ==
  /\ image \in Images
  /\ status = "building"
  /\ fs = Nothing

\* return fs, nil
ReturnMount ==
  /\ status = "building"
  /\ status' = "done"
  /\ fs' = Mounted(image)
  /\ UNCHANGED image

\* return nil, err
ReturnError ==
  /\ status = "building"
  /\ status' = "failed"
  /\ UNCHANGED <<image, fs>>

MountNext == ReturnMount \/ ReturnError

MountSpec == MountInit /\ [][MountNext]_<<image, status, fs>>
=============================================================================
