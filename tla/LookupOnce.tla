----------------------------- MODULE LookupOnce -----------------------------
(***************************************************************************)
(* What a caller of FS.Resolve sees: a request that one step answers.      *)
(***************************************************************************)
CONSTANTS
  Filesystems,    \* the filesystems that are looked into
  Requests,       \* the raw names looked up
  NoAnswer,       \* while there is none
  Answers(_, _)   \* the answers a filesystem allows to a name (Lookup.tla)

VARIABLES fs, request, answer

OnceInit == fs \in Filesystems /\ request \in Requests /\ answer = NoAnswer

Answer ==
  /\ answer = NoAnswer
  /\ answer' \in Answers(fs, request)
  /\ UNCHANGED <<fs, request>>

OnceSpec == OnceInit /\ [][Answer]_<<fs, request, answer>>
=============================================================================
