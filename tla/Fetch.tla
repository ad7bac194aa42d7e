------------------------------- MODULE Fetch -------------------------------
(***************************************************************************)
(* oci.FetchImage (internal/oci/image.go): the container daemon first,     *)
(* unless the policy says otherwise, then the registry.  Both are external *)
(* and may fail at any time, also for an image they have; the code takes   *)
(* every failure of the daemon for the image not being there.              *)
(***************************************************************************)
EXTENDS Integers, Sequences

CONSTANTS
  References,  \* what parses as an image reference
  Platforms    \* what parses as a platform

VARIABLES
  input,  \* the command line and the world: .policy, .platform, .daemon and
          \* .registry are used here
  pc,     \* "fetch", "daemon", "registry"; "load" once fetched, "failed"
  ref,    \* the image asked for
  image,  \* the image fetched last
  asked   \* who was asked for which image, and whether it was given

NoImage == [platform |-> "", layers |-> << >>, from |-> ""]

DefaultPlatform == "linux/amd64"

Policies == {"always", "if-not-present", "never"}

\* No policy given means the default one.
Policy == IF input.policy = "" THEN "if-not-present" ELSE input.policy

Platform == IF input.platform = "" THEN DefaultPlatform ELSE input.platform

Ask(who, given) == asked' = Append(asked, [who |-> who, ref |-> ref, given |-> given])

\* The daemon has one platform of an image, whichever was pulled.
HeldByDaemon ==
  {[platform |-> i.platform, layers |-> i.layers, from |-> "daemon"] :
     i \in {j \in input.daemon : j.ref = ref}}

\* A registry holds an index with an image for each platform, or one image,
\* which it gives for every platform.
HeldByRegistry ==
  {[platform |-> i.platform, layers |-> i.layers, from |-> "registry"] :
     i \in {j \in input.registry : j.ref = ref /\ (j.index => j.platform = Platform)}}

FetchFailed == pc' = "failed" /\ UNCHANGED <<ref, image>>

Fetched(i) == pc' = "load" /\ image' = i /\ UNCHANGED ref
-----------------------------------------------------------------------------
\* Neither the reference nor the policy is taken as it is.
BadArgument ==
  /\ pc = "fetch"
  /\ ref \notin References \/ Policy \notin Policies
  /\ FetchFailed /\ UNCHANGED asked

ChooseSource ==
  /\ pc = "fetch" /\ ref \in References /\ Policy \in Policies
  /\ pc' = IF Policy # "always" THEN "daemon" ELSE "registry"
  /\ UNCHANGED <<ref, image, asked>>

DaemonAnswers ==
  /\ pc = "daemon"
  /\ \E i \in HeldByDaemon : Fetched(i)
  /\ Ask("daemon", TRUE)

\* mutant: the policy is forgotten once the daemon has failed
DaemonFailsOver ==
  /\ pc = "daemon" /\ pc' = "registry"
  /\ Ask("daemon", FALSE) /\ UNCHANGED <<ref, image>>

DaemonFails ==
  /\ pc = "daemon"
  /\ IF Policy = "never" THEN FetchFailed
     ELSE pc' = "registry" /\ UNCHANGED <<ref, image>>
  /\ Ask("daemon", FALSE)

\* The platform is looked at only here.
BadPlatform ==
  /\ pc = "registry" /\ Platform \notin Platforms
  /\ FetchFailed /\ UNCHANGED asked

RegistryAnswers ==
  /\ pc = "registry" /\ Platform \in Platforms
  /\ \E i \in HeldByRegistry : Fetched(i)
  /\ Ask("registry", TRUE)

RegistryFails ==
  /\ pc = "registry" /\ Platform \in Platforms
  /\ FetchFailed /\ Ask("registry", FALSE)

FetchImage ==
  \/ BadArgument \/ ChooseSource \/ DaemonAnswers \/ DaemonFails
  \/ BadPlatform \/ RegistryAnswers \/ RegistryFails
-----------------------------------------------------------------------------
\* "Check daemon cache first to avoid registry rate limits" (image.go:59): the
\* registry is asked, once for each image, when the policy is to, or when it
\* allows it and the daemon was just asked for the same image in vain.  tags
\* asks it alone (tags.go:25).
RegistryOnlyWhenNeeded ==
  \A k \in DOMAIN asked :
    asked[k].who = "registry" =>
      \/ Policy = "always"
      \/ input.name = "tags" /\ Len(asked) = 1
      \/ /\ Policy = "if-not-present"
         /\ k > 1 /\ asked[k - 1] = [who |-> "daemon", ref |-> asked[k].ref, given |-> FALSE]
=============================================================================
