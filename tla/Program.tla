------------------------------ MODULE Program ------------------------------
(***************************************************************************)
(* cek as a whole: the command line is parsed and the view chosen (package *)
(* command, root.go), one command runs (modules Commands, Files and        *)
(* Documents, over Fetch and Lookup), its data is rendered (module Views)  *)
(* and the process exits.  Logs and payload share the standard output.     *)
(***************************************************************************)
EXTENDS Documents, Views

VARIABLES
  viewer,  \* the CLI's view: type and log level
  stdout,  \* what has been written, in order
  exit     \* the exit status, -1 while the process runs

shown == <<viewer, stdout, exit>>
vars == <<documentVars, shown>>

-----------------------------------------------------------------------------
(***************************************************************************)
(* The command tree: how many arguments a command takes, which flags, and  *)
(* which of them it must be given.                                         *)
(***************************************************************************)

Command(args, flags, required) == [args |-> args, flags |-> flags, required |-> required]

AddFetchFlags == {"platform", "pull"}

NewVersionCommand  == Command(0..0, {}, {})
NewInspectCommand  == Command(1..1, AddFetchFlags, {})
NewCatCommand      == Command(2..2, {"layer"} \cup AddFetchFlags, {})
NewLsCommand       == Command(1..2, {"layer", "filter"} \cup AddFetchFlags, {})
NewTagsCommand     == Command(1..1, {"limit"}, {})
NewExportCommand   == Command(1..1, {"output"} \cup AddFetchFlags, {"output"})
NewTreeCommand     == Command(1..2, {"layer", "L", "all", "d", "I", "human", "dirsfirst"}
                                      \cup AddFetchFlags, {})
NewBlobCommand     == Command(1..1, {"layer"} \cup AddFetchFlags, {"layer"})
NewManifestCommand == Command(1..1, AddFetchFlags, {})
NewConfigCommand   == Command(1..1, AddFetchFlags, {})
NewDiffCommand     == Command(2..3, AddFetchFlags, {})
NewCpCommand       == Command(3..3, {"layer"} \cup AddFetchFlags, {})

AddCommands ==
  [version |-> NewVersionCommand, inspect |-> NewInspectCommand, cat |-> NewCatCommand,
   ls |-> NewLsCommand, tags |-> NewTagsCommand, export |-> NewExportCommand,
   tree |-> NewTreeCommand, blob |-> NewBlobCommand, manifest |-> NewManifestCommand,
   config |-> NewConfigCommand, diff |-> NewDiffCommand, cp |-> NewCpCommand]

NewRootCommand == {"json", "debug"}  \* the flags every command takes

Accepted ==
  /\ input.name \in DOMAIN AddCommands
  /\ LET c == AddCommands[input.name]
     IN  /\ input.args \in c.args
         /\ input.flags \subseteq c.flags \cup NewRootCommand
         /\ c.required \subseteq input.flags

-----------------------------------------------------------------------------
\* The flag wins over CEK_LOG; input.env is its value in lower case.
LogLevel ==
  IF "debug" \in input.flags THEN "debug"
  ELSE IF input.env \in {"debug", "info"} THEN input.env ELSE "silent"

Severity == [debug |-> -4, info |-> 0, warn |-> 4, error |-> 8, silent |-> 100]

\* At the level silent the logger is one that discards everything.
Logs(level, of) == level # "silent" /\ Severity[of] >= Severity[level]

\* Standard output takes that many more writes, then every write fails.
room == input.room - Len(stdout)

Taken(writes) == stdout \o SubSeq(writes, 1, Min({room, Len(writes)}))

Init ==
  /\ input \in Inputs
  /\ pc = "start" /\ ref = Head(input.refs)
  /\ image = NoImage /\ asked = << >>
  /\ loaded = << >> /\ dirs = << >> /\ todo = << >> /\ lines = << >> /\ out = {}
  /\ data = << >> /\ written = "old"
  /\ viewer = [type |-> "human", level |-> "silent"] /\ stdout = << >> /\ exit = -1

\* Whether it is found before the view is chosen or after does not show.
UsageError ==
  /\ pc = "start" /\ ~Accepted
  /\ pc' = "exit" /\ exit' = 1
  /\ UNCHANGED <<context, data, written, viewer, stdout>>

FirstStep ==
  CASE input.name = "version" -> "done"
    [] input.name \in {"tags", "blob"} -> input.name
    [] OTHER -> "fetch"

\* ConfigureView, then the command's Run function, whose calls of the logger,
\* all at the level debug and all before anything is rendered, stand as one
\* line.
Start ==
  /\ pc = "start" /\ Accepted
  /\ viewer' = [type |-> IF "json" \in input.flags THEN "json" ELSE "human", level |-> LogLevel]
  /\ pc' = FirstStep
  /\ stdout' = IF Logs(LogLevel, "debug") /\ input.name # "version"
               THEN Taken(<<Write("Log", "debug")>>) ELSE stdout
  /\ UNCHANGED <<context, data, written, exit>>

FileInfo(e) ==
  LET s == FileState(e)
  IN  [path |-> e.path, type |-> s.type, mode |-> s.mode, link |-> s.link, content |-> s.content]

\* What the view chosen makes of the data.
Output ==
  LET files == {FileInfo(e) : e \in out}
      Either(human, json) == IF viewer.type = "human" THEN human ELSE json
  IN  CASE input.name = "ls" ->
             Rendering(Either(LsHuman(files, input.path, input.pattern),
                              LsJson(files, input.path, input.pattern)))
        [] input.name = "diff" -> Rendering(Either(DiffHuman(lines, out), DiffJson(lines, out)))
        [] input.name = "cat" -> Either(CatHuman(data), CatJson(data))
        [] input.name = "cp" -> Rendering(Either(CpHuman(data), CpJson(data)))
        [] input.name = "blob" -> Either(BlobHuman(data), BlobJson)
        [] input.name = "export" -> Either(ExportHuman(data), ExportJson)
        [] input.name \in {"manifest", "config"} ->
             Either(RawHuman(data.document, input.valid), RawJson(data.document))
        [] input.name = "tags" -> Rendering(Either(TagsHuman(data.tags), TagsJson(data.tags)))
        [] input.name = "inspect" -> Rendering(Either(InspectHuman(data), InspectJson(data)))
        \* no view: the same for --json
        [] input.name = "version" -> Rendering(Version)
        [] input.name = "tree" ->
             Rendering(<<Printf("root")>> \o [k \in DOMAIN lines |-> Printf(lines[k])])

\* The command renders, returns nil or the view's error, and main exits.
Render ==
  /\ pc = "done" /\ pc' = "exit"
  /\ LET output == Output
         lost   == \E k \in DOMAIN output.writes : k > room /\ Checked(output.writes[k])
     IN  /\ stdout' = Taken(output.writes)
         /\ exit' = IF output.error \/ lost THEN 1 ELSE 0
  /\ UNCHANGED <<context, data, written, viewer>>

\* Errors go to standard error.
Report ==
  /\ pc = "failed" /\ pc' = "exit" /\ exit' = 1
  /\ UNCHANGED <<context, data, written, viewer, stdout>>

Execute == UsageError \/ Start \/ Render \/ Report

Ended == pc = "exit" /\ UNCHANGED vars

Next ==
  \/ Execute
  \/ /\ Fetching \/ Load \/ NoSuchLayer \/ LoadError \/ Work
     /\ UNCHANGED <<data, written, shown>>
  \/ (Find \/ Reading) /\ UNCHANGED <<written, shown>>
  \/ Handed /\ UNCHANGED shown
  \/ Ended

Spec == Init /\ [][Next]_vars

\* The daemon and the registry need not answer: the one is asked without a
\* deadline, the other under the command's context, which has none; layers are
\* streamed from there, too.  What is done with images that are merged is up to
\* the program alone, and the standard output takes or refuses what it writes.
FairSpec ==
  /\ Spec
  /\ WF_vars(Work /\ UNCHANGED <<data, written, shown>>)
  /\ WF_vars(Render) /\ WF_vars(Report)
-----------------------------------------------------------------------------
(***************************************************************************)
(* Properties.                                                             *)
(***************************************************************************)

\* Every variable holds a value of its kind; in particular nothing is printed
\* but logs before every image is loaded and the command has its data, and the
\* exit status is there exactly at the end.
TypeOK ==
  /\ pc \in {"start", "fetch", "daemon", "registry", "load", "list", "map", "print", "compare",
             "find", "read", "blob", "tags", "done", "failed", "exit"}
  /\ ref \in ToSet(input.refs)
  /\ Len(asked) <= 2 * Len(input.refs)
  /\ Len(loaded) < Len(input.refs) /\ input.name \in DOMAIN Works =>
       pc \in {"start", "fetch", "daemon", "registry", "load", "failed", "exit"}
  /\ pc \notin {"print", "done", "exit"} => lines = << >> /\ todo = << >>
  /\ \A k \in DOMAIN loaded : {e.path : e \in loaded[k].entries} \subseteq Path
  /\ written \in {"old", "part", "whole"}
  /\ viewer.type \in {"human", "json"} /\ viewer.level \in DOMAIN Severity
  /\ pc # "exit" => Len(stdout) <= 1 /\ \A k \in DOMAIN stdout : stdout[k].call = "Log"
  /\ exit \in {-1, 0, 1} /\ (exit = -1 <=> pc # "exit")
  /\ Len(stdout) <= input.room

\* The writes on the standard output that are no logs.
Payload == {k \in DOMAIN stdout : stdout[k].call # "Log"}

\* A consumer of --json gets one document, whole and after a success, or
\* nothing and a failure, also when a layer breaks off while it is read, the
\* standard output is full or the command has no JSON view.  tree and version
\* print for people only.
JsonIsAllOrNothing ==
  pc = "exit" /\ viewer.type = "json" /\ input.name \notin {"tree", "version"} =>
    IF exit = 0 THEN \E k \in DOMAIN stdout : Payload = {k} /\ Output.writes = <<stdout[k]>>
    ELSE Payload = {}

\* "The exact bytes are written instead, so the output hashes to the manifest
\* digest" (manifest.go:26-27; config.go:26-27, blob.go:24-25 and cat.go:28-31
\* likewise): after a success the standard output is the document, blob or
\* file, whole and with nothing added, unless debug logs were asked for, which
\* go before it on the same stream.
ExactBytes ==
  pc = "exit" /\ exit = 0 /\ viewer.level # "debug" =>
    /\ input.name \in {"manifest", "config"} /\ viewer.type = "json" =>
         /\ Len(stdout) = 1
         /\ stdout[1].text = [doc |-> [of |-> input.name, image |-> image],
                              indented |-> FALSE, newline |-> FALSE]
    /\ input.name \in {"cat", "blob"} /\ viewer.type = "human" =>
         Len(stdout) = 1 /\ stdout[1].text = data /\ data.whole

\* export reports a success only for a tarball that is complete, and a failure
\* after a complete one only because --json was given (export.go:61-70).
ExportTells ==
  pc = "exit" /\ input.name = "export" =>
    /\ exit = 0 => written = "whole"
    /\ exit = 1 /\ written = "whole" => viewer.type = "json"

\* "Use --json to get the same data" (README.md:263-264): for the data of ls,
\* diff, tags, cp and, its layers and their annotations, inspect, what is read off
\* the lines for people is what the document says, though some of it is cut short
\* or rounded.  ShellJoinReadsBack is about two fields of the config inspect
\* shows, ExactBytes about cat, manifest and config.
HumanAndJsonAgree ==
  /\ Ran("ls") => LsAgrees({FileInfo(e) : e \in out}, input.path, input.pattern)
  /\ Ran("diff") => DiffAgrees(lines, out)
  /\ Ran("tags") =>
       LET doc == TagsJson(data.tags)[1].text
           Texts(writes) == [k \in DOMAIN writes |-> writes[k].text]
       IN  Texts(TagsHuman(data.tags)) = IF doc.tags = << >> THEN <<doc.message>> ELSE doc.tags
  /\ Ran("cp") =>
       LET human == CpHuman(data)
           doc   == CpJson(data)[1].text
       IN  human[1].text.files = doc.files /\ (doc.skipped > 0 <=> Len(human) = 3)
  /\ Ran("inspect") =>
       LET human == InspectHuman(data)
           doc   == InspectJson(data)[1].text
           Rows(write) == IF write.call = "Flush" THEN ToSet(write.text) ELSE {}
           rows  == UNION {Rows(human[k]) : k \in DOMAIN human}
       IN  \A k \in DOMAIN doc.layers :
             /\ [index |-> k, digest |-> doc.layers[k].digest] \in rows
             /\ \A j \in DOMAIN doc.layers[k].annotations :
                  \E row \in rows : /\ row.index = k /\ "value" \in DOMAIN row
                                    /\ row.value = Truncate(doc.layers[k].annotations[j])

\* A word that a shell reads as itself in the line of shellJoin: in quotes one
\* without expansions and without what strconv.Quote writes as an escape of Go,
\* else one without the characters a shell gives a meaning to.
ShellKeeps(word) ==
  ToSet(word) \cap (IF NeedsQuotes(word) THEN Expanded \cup DOMAIN GoEscape ELSE Metacharacter) = {}

\* "Entrypoint and Cmd read as a shell line" (inspect.go:115): of words that a
\* shell keeps, empty ones and ones with spaces, quotes, operators and
\* backslashes among them, it makes the words of the config again.
ShellJoinReadsBack ==
  Ran("inspect") =>
    \A field \in {"Entrypoint", "Cmd"} :
      LET args == data.config[field] IN
      (\A k \in DOMAIN args : ShellKeeps(args[k])) => Split(ShellJoin(args)) = args

\* A tuple of any length.
IsSequence(s) == s \in Seq(ToSet(s))

\* A step of a command is taken by this command only, and by none whose command
\* line is refused.
CommandInv ==
  /\ pc \notin {"start", "exit"} => Accepted
  /\ pc = "list" => input.name = "ls"
  /\ pc \in {"map", "print"} => input.name = "tree"
  /\ pc = "compare" => input.name = "diff"
  /\ pc \in {"find", "read"} => input.name \in {"cat", "cp"}
  /\ pc \in {"tags", "blob"} => input.name = pc
  /\ pc \in {"fetch", "daemon", "registry", "load", "done"} /\ input.name = "blob" =>
       input.layer >= 1
  /\ pc \in {"fetch", "daemon", "registry", "load"} => input.name \notin {"tags", "version"}

\* The registry is next when the policy is to ask it, or when it allows it and
\* the daemon was the last to be asked, for the same image and in vain.
FetchInv ==
  /\ IsSequence(asked)
  /\ pc \in {"daemon", "registry"} => Policy \in Policies
  /\ pc = "daemon" => Policy # "always"
  /\ pc = "registry" =>
       \/ Policy = "always"
       \/ /\ Policy = "if-not-present" /\ asked # << >>
          /\ asked[Len(asked)] = [who |-> "daemon", ref |-> ref, given |-> FALSE]
  /\ input.name = "tags" => Len(asked) <= 1 /\ (pc \in {"start", "tags"} => asked = << >>)
  /\ RegistryOnlyWhenNeeded

\* A merged filesystem has one entry for a path, and none for the root.
WellMerged(entries) ==
  /\ \A e \in entries : e.path \in Path \ {Root}
  /\ \A e, f \in entries : e.path = f.path => e = f

\* Each image is asked for twice at most, and a command works on images once
\* all are there.
LoadInv ==
  /\ IsSequence(loaded)
  /\ pc \in {"start", "blob", "tags", "fetch", "daemon", "registry", "load"} =>
       /\ Len(loaded) < Len(input.refs)
       /\ Len(asked) <= 2 * Len(loaded)
                          + (IF pc = "registry" THEN 1 ELSE IF pc = "load" THEN 2 ELSE 0)
  /\ pc \in {"list", "map", "print", "compare", "find", "read"}
       \/ (pc = "done" /\ input.name \in DOMAIN Works) => Len(loaded) = Len(input.refs)
  /\ image.layers \in Seq(Seq({h \in Header : WellFormed(h)}))
  /\ \A k \in DOMAIN loaded : IsSequence(loaded[k].manifest) /\ WellMerged(loaded[k].entries)
  /\ input.name # "diff" => \A k \in DOMAIN loaded : loaded[k].entries = EntriesOf(Chosen)

\* What there is for the view once a command is done, and for nobody before.
DataInv ==
  /\ pc \notin {"done", "failed", "exit"} => written = "old"
  /\ input.name = "export" => /\ pc = "done" => written = "whole"
                              /\ pc = "failed" => written # "whole"
  /\ pc = "done" /\ input.name \in {"manifest", "config"} => data = [document |-> Served]
  /\ pc = "done" /\ input.name \in {"cat", "blob"} => data.whole = ~input.broken
  /\ pc = "done" /\ input.name = "tags" => IsSequence(data.tags)
  /\ input.name = "tree" => IsSequence(lines)
  /\ BlobIsTheLayerInspected /\ TagsAreTheLast

\* Until something is rendered there is nothing on the standard output but the
\* logs, and none if nobody asked for them.
ShownInv ==
  /\ pc = "start" => viewer = [type |-> "human", level |-> "silent"]
  /\ pc \notin {"start", "exit"} =>
       viewer = [type |-> IF "json" \in input.flags THEN "json" ELSE "human", level |-> LogLevel]
  /\ pc # "exit" =>
       \/ stdout = << >>
       \/ stdout = <<Write("Log", "debug")>> /\ viewer.level = "debug" /\ input.room > 0

\* What is known at every step, strong enough to follow from itself.
IInv ==
  /\ TypeOK /\ CommandInv /\ FetchInv /\ LoadInv /\ DataInv /\ ShownInv
  /\ JsonIsAllOrNothing /\ ExactBytes /\ ExportTells

\* Once every image is merged, ls, tree and diff exit: the tree, printed by a
\* function that calls itself, is finite.
EndsOnceLoaded ==
  (Len(loaded) = Len(input.refs) /\ input.name \in {"ls", "tree", "diff"}) ~> (pc = "exit")
=============================================================================
