------------------------------- MODULE Views -------------------------------
(***************************************************************************)
(* internal/view: what a command's data looks like in the human and in the *)
(* JSON view.  A rendering is the sequence of writes to the one stream     *)
(* that logs go to as well.  A table is one write, and so is a document;   *)
(* widths, colours and dates are left out, and a content stands for its    *)
(* size.                                                                   *)
(***************************************************************************)
EXTENDS Integers, FiniteSets, SequencesExt

CONSTANT MaxWidth  \* maxAnnotationValueWidth

Write(call, text) == [call |-> call, text |-> text]

\* mutant: nobody looks at the error of the encoder
CheckedByHuman(write) == write.call \in {"Flush", "Copy", "Write"}

\* The error of a write is returned by the view, but not by Stream.Printf.
Checked(write) == write.call \in {"Flush", "Copy", "Write", "Encode"}

Printf(text) == Write("Printf", text)
Flush(rows)  == Write("Flush", rows)   \* of a tabwriter
Encode(doc)  == Write("Encode", doc)   \* of a json.Encoder

\* What a view does: its writes, and whether it returns an error after them.
Rendering(writes) == [writes |-> writes, error |-> FALSE]
Refusal == [writes |-> << >>, error |-> TRUE]

-----------------------------------------------------------------------------
\* ls

\* mutant: the target of a symlink is not shown
DisplayPathOnly(f) == IF f.type = "dir" THEN <<f.path, "/">> ELSE <<f.path>>

DisplayPath(f) ==
  IF f.type = "dir" THEN <<f.path, "/">>
  ELSE IF f.link # << >> THEN <<f.path, "->", f.link>> ELSE <<f.path>>

\* One of four messages, by which of the two were given.
NoFiles(path, filter) == [noFilesIn |-> path, matching |-> filter]

LsHuman(files, path, filter) ==
  IF files = {} THEN <<Printf(NoFiles(path, filter))>>
  ELSE <<Flush({[type |-> f.type, mode |-> f.mode, size |-> f.content, shown |-> DisplayPath(f)]
                  : f \in files})>>

LsJson(files, path, filter) ==
  <<Encode([files   |-> files,
            message |-> IF files = {} THEN <<NoFiles(path, filter)>> ELSE << >>])>>

\* The table of ls says of every file what the document says.
LsAgrees(files, path, filter) ==
  LET table == LsHuman(files, path, filter)[1].text
      doc   == LsJson(files, path, filter)[1].text
      Read(row) == [path |-> row.shown[1], type |-> row.type, mode |-> row.mode,
                    content |-> row.size,
                    link |-> IF Len(row.shown) = 3 THEN row.shown[3] ELSE << >>]
  IN  IF files = {} THEN doc.message = <<table>>
      ELSE doc.message = << >> /\ doc.files = {Read(row) : row \in table}

-----------------------------------------------------------------------------
\* diff

Marker(status) ==
  CASE status = "added" -> "+" [] status = "removed" -> "-" [] status = "modified" -> "~"
    [] OTHER -> "="

Summary(files) ==
  [s \in {"added", "removed", "modified"} |-> Cardinality({f \in files : f.status = s})]

The(states) == CHOOSE s \in states : TRUE

StateDetail(s) == IF s.type = "symlink" THEN [link |-> s.link] ELSE [size |-> s.content]

\* mutant: links are compared only when the modes are the same
FileDetailOne(f) ==
  IF f.status = "added" THEN {StateDetail(The(f.b))}
  ELSE IF f.status = "removed" THEN {StateDetail(The(f.a))}
  ELSE LET a == The(f.a)
           b == The(f.b)
       IN  IF <<a.type, a.mode>> # <<b.type, b.mode>> THEN {[aspect |-> "mode"]}
           ELSE IF a.link # b.link THEN {[aspect |-> "link"]}
           ELSE IF a.content # b.content THEN {[aspect |-> "size"]} ELSE {}

\* The size or target of a file that one side has, else every aspect changed.
FileDetail(f) ==
  IF f.status = "added" THEN {StateDetail(The(f.b))}
  ELSE IF f.status = "removed" THEN {StateDetail(The(f.a))}
  ELSE LET a == The(f.a)
           b == The(f.b)
           Aspect(name, x, y) == IF x = y THEN {} ELSE {[aspect |-> name]}
       IN  Aspect("mode", <<a.type, a.mode>>, <<b.type, b.mode>>)
             \cup Aspect("link", a.link, b.link) \cup Aspect("size", a.content, b.content)

DiffHuman(layers, files) ==
  <<Printf("Layers:"),
    Flush([k \in DOMAIN layers |-> [marker |-> Marker(layers[k].status), digest |-> layers[k].digest]]),
    Printf("")>>
  \o (IF files = {} THEN <<Printf("Files: no changes")>>
      ELSE <<Printf("Files:"),
             Flush({[marker |-> Marker(f.status), path |-> f.path, detail |-> FileDetail(f)]
                      : f \in files}),
             Printf(Summary(files))>>)

DiffJson(layers, files) ==
  <<Encode([layers |-> layers, files |-> files, summary |-> Summary(files)])>>

\* The markers read as the help says, "+ added, - removed, ~ modified, = shared"
\* (diff.go:33), rows of files and layers are those of the document, an aspect
\* of a modified file is shown when its two states differ in it, and every row
\* is counted once.
DiffAgrees(layers, files) ==
  LET human == DiffHuman(layers, files)
      doc   == DiffJson(layers, files)[1].text
      rows  == IF Len(human) = 4 THEN {} ELSE human[5].text
      Read(marker) == CASE marker = "+" -> "added" [] marker = "-" -> "removed"
                        [] marker = "~" -> "modified" [] marker = "=" -> "shared"
      Shown(r, aspect) == [aspect |-> aspect] \in r.detail
  IN  /\ [k \in DOMAIN human[2].text |-> [status |-> Read(human[2].text[k].marker),
                                          digest |-> human[2].text[k].digest]] = doc.layers
      /\ {<<r.path, Read(r.marker)>> : r \in rows} = {<<f.path, f.status>> : f \in doc.files}
      /\ \A r \in rows : \A f \in doc.files : f.path = r.path /\ f.status = "modified" =>
           LET a == The(f.a)
               b == The(f.b)
           IN  /\ Shown(r, "mode") <=> a.type # b.type \/ a.mode # b.mode
               /\ Shown(r, "link") <=> a.link # b.link
               /\ Shown(r, "size") <=> a.content # b.content
      /\ rows # {} => human[6].text = doc.summary
      /\ doc.summary["added"] + doc.summary["removed"] + doc.summary["modified"] = Cardinality(rows)

-----------------------------------------------------------------------------
\* cat, blob, manifest and config: bytes

\* A stream that breaks off has been written that far; the JSON view reads it
\* to its end first.
CatHuman(d) == [writes |-> <<Write("Copy", d)>>, error |-> ~d.whole]
CatJsonStreamed(d) == [writes |-> <<Encode(d)>>, error |-> ~d.whole]  \* mutant: it does not
CatJson(d) == IF d.whole THEN Rendering(<<Encode(d)>>) ELSE Refusal

BlobHuman(d) == CatHuman(d)
BlobJson == Refusal

\* Indented, or as it is when it is no JSON, and a newline.
RawHuman(doc, valid) == Rendering(<<Write("Write", [doc |-> doc, indented |-> valid, newline |-> TRUE])>>)
RawJsonLine(doc) ==  \* mutant: the newline of the human view is written too
  Rendering(<<Write("Write", [doc |-> doc, indented |-> FALSE, newline |-> TRUE])>>)
RawJson(doc) == Rendering(<<Write("Write", [doc |-> doc, indented |-> FALSE, newline |-> FALSE])>>)

-----------------------------------------------------------------------------
\* export, tags, cp and version

ExportHuman(d) == Rendering(<<Printf(d)>>)
ExportJson == Refusal

TagsHuman(tags) ==
  IF tags = << >> THEN <<Printf("No tags found")>> ELSE [k \in DOMAIN tags |-> Printf(tags[k])]

TagsJson(tags) ==
  <<Encode([tags |-> tags, message |-> IF tags = << >> THEN "No tags found" ELSE ""])>>

CpHuman(d) ==
  <<Printf([files |-> d.files, noun |-> IF d.files = 1 THEN "file" ELSE "files"])>>
  \o (IF d.skipped > 0 THEN <<Printf([skipped |-> d.skipped])>> ELSE << >>)
  \o <<Printf("")>>

CpJson(d) == <<Encode([files |-> d.files, skipped |-> d.skipped])>>

Version == <<Printf("version"), Printf("os/arch")>>

-----------------------------------------------------------------------------
\* inspect

Truncate(s) == IF Len(s) <= MaxWidth THEN s ELSE Append(SubSeq(s, 1, MaxWidth), "...")

\* A word is a sequence of characters, the special ones by their names.
Special == {"space", "tab", "newline", "quote", "apostrophe", "backslash", "$", "backtick",
            "#", ";", "&", "|", "<", ">", "(", ")"}

\* What the parts are one after the other.
Joined(parts) ==
  LET upTo[k \in 0..Len(parts)] == IF k = 0 THEN << >> ELSE upTo[k - 1] \o parts[k]
  IN  upTo[Len(parts)]

\* strconv.Quote: a quote and a backslash behind a backslash, what does not print
\* by an escape of Go, here without its digits; "unprintable" stands for all that
\* have no name here (\a, \x7f, \u200b...).
GoEscape == [newline |-> "n", tab |-> "t", return |-> "r", unprintable |-> "x"]

Escaped(c) ==
  IF c \in {"quote", "backslash"} THEN <<"backslash", c>>
  ELSE IF c \in DOMAIN GoEscape THEN <<"backslash", GoEscape[c]>> ELSE <<c>>

Quote(word) ==
  <<"quote">> \o Joined([k \in DOMAIN word |-> Escaped(word[k])]) \o <<"quote">>

\* mutant: an empty word is left empty
NeedsQuotesUnlessEmpty(word) == ToSet(word) \cap Special # {}

NeedsQuotes(word) == word = << >> \/ ToSet(word) \cap Special # {}

Quoted(word) == IF NeedsQuotes(word) THEN Quote(word) ELSE word

ShellJoin(args) ==
  Joined([k \in DOMAIN args |-> IF k = 1 THEN Quoted(args[k]) ELSE <<"space">> \o Quoted(args[k])])

ConfigFields == <<"Entrypoint", "Cmd", "User", "WorkingDir", "ExposedPorts", "Volumes", "Env", "Labels">>

\* A field that is not set is << >> and left out.
RenderConfig(config) ==
  LET Line(field, value) ==
        IF config[field] = << >> THEN << >> ELSE <<Printf([field |-> field, value |-> value])>>
      AsShell(field) == Line(field, ShellJoin(config[field]))
      AsIs(field)    == Line(field, config[field])
      labels == config["Labels"]
  IN  AsShell("Entrypoint") \o AsShell("Cmd") \o AsIs("User") \o AsIs("WorkingDir")
        \o AsIs("ExposedPorts") \o AsIs("Volumes") \o AsIs("Env")
        \o Line("Labels", [k \in DOMAIN labels |-> Truncate(labels[k])])

\* The rows of annotations, each with the number of its layer.
AnnotationRows(layers) ==
  Joined([k \in DOMAIN layers |->
    [j \in DOMAIN layers[k].annotations |->
       [index |-> layers[k].index, value |-> Truncate(layers[k].annotations[j])]]])

InspectHuman(d) ==
  <<Printf("Image:")>> \o RenderConfig(d.config)
  \o <<Printf("Layers:"),
       Flush([k \in DOMAIN d.layers |-> [index |-> d.layers[k].index, digest |-> d.layers[k].digest]])>>
  \o (IF AnnotationRows(d.layers) = << >> THEN << >>
      ELSE <<Printf("Layer annotations:"), Flush(AnnotationRows(d.layers))>>)

InspectJson(d) == <<Encode(d)>>

\* A shell that has read some of a line: the words that have ended, the one that
\* has begun, and whether it is between words, in a plain part of one, in one in
\* double quotes or behind a backslash there.  At a character that may stand for
\* anything but itself it gives up: outside of quotes the operators, quotes,
\* expansions and patterns of sh(1) and the ! of an interactive shell, in double
\* quotes an expansion.  What it makes of the words (an assignment, a keyword) is
\* left out.
Expanded == {"$", "backtick", "!"}

Metacharacter ==
  Expanded \cup {"newline", "apostrophe", "backslash", "#", ";", "&", "|", "<", ">", "(", ")",
                 "*", "?", "[", "~", "{"}

ShellStart == [words |-> << >>, word |-> << >>, mode |-> "between"]

WordEnds(s) ==
  IF s.mode = "plain"
  THEN [words |-> Append(s.words, s.word), word |-> << >>, mode |-> "between"] ELSE s

ShellStep(s, c) ==
  LET take(d, mode) == [s EXCEPT !.word = Append(@, d), !.mode = mode]
      turn(mode)    == [s EXCEPT !.mode = mode]
  IN  CASE s.mode \in {"between", "plain"} ->
             IF c \in {"space", "tab"} THEN WordEnds(s)
             ELSE IF c = "quote" THEN turn("quoted")
             ELSE IF c \in Metacharacter THEN turn("lost") ELSE take(c, "plain")
        [] s.mode = "quoted" ->
             IF c = "quote" THEN turn("plain")
             ELSE IF c = "backslash" THEN turn("escaped")
             ELSE IF c \in Expanded THEN turn("lost") ELSE take(c, "quoted")
        [] s.mode = "escaped" ->
             IF c \in {"quote", "backslash", "$", "backtick"} THEN take(c, "quoted")
             ELSE IF c = "newline" THEN turn("quoted")
             ELSE [s EXCEPT !.word = @ \o <<"backslash", c>>, !.mode = "quoted"]
        [] OTHER -> s

\* Where a line leaves it, and the words it makes of one.
ShellReads(line) ==
  LET after[k \in 0..Len(line)] == IF k = 0 THEN ShellStart ELSE ShellStep(after[k - 1], line[k])
  IN  after[Len(line)]

Split(line) == WordEnds(ShellReads(line)).words
=============================================================================
