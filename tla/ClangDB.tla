------------------------------- MODULE ClangDB --------------------------------
(* What the Clang indexer records of a translation unit                      *)
(* (glean/lang/clang: preprocessor.cpp, db.cpp and path.cpp): the callbacks  *)
(* of the preprocessor, the cross-references found in the AST, and finish.   *)
(*                                                                           *)
(* A FileID is the index of a buffer that clang has entered: entering a file *)
(* twice makes two of them.  A FileData * is an index into file_data, 0 for  *)
(* nullptr; a folly::Optional is a sequence with at most one element.        *)
EXTENDS Integers, Sequences, FiniteSets, FiniteSetsExt, SequencesExt

CONSTANTS Entries,      \* the files that clang finds, Main one of them
          Targets,      \* declarations that are referred to
          Spans,        \* the byte spans of cross-references
          MaxFileIDs,   \* bound: buffers entered
          MaxOffset,    \* bound: bytes of a buffer that are read
          MaxNested,    \* bound: nested expansions in a file's events
          MaxXRefs,     \* bound: cross-references of the unit
          Roots, Subdirs, Names, \* paths, as sequences of components
          MaxText       \* bound: characters of a file

Main == "main.cpp"
Builtin == "<built-in>"   \* the buffer of predefined macros, no file
NoEntry == "nullptr"      \* an include that clang couldn't find

ASSUME ClangAssumption == Main \in Entries /\ {Builtin, NoEntry} \cap Entries = {}

VARIABLES entry, stack, offset, \* clang: the FileEntry of every FileID, the open ones, where each is read
          includer,             \* clang: the FileID that every FileID was entered from, 0 for none
          pending,              \* clang: the file of the directive that is being handled
          outer,                \* clang: the range of the outermost expansion that is going on
          last_include, expansion, \* PPCallbacks
          file_data, files,     \* ClangDB
          recorded,             \* history: the cross-references
          finished,             \* what finish made of each file
          contents, naming      \* a file's text, and how clang names a file

unitVars == <<entry, stack, offset, includer, pending, outer, last_include, expansion,
              file_data, files, recorded, finished>>
fileVars == <<contents, naming>>
clangVars == <<entry, stack, offset, includer, pending, outer>>

-----------------------------------------------------------------------------
(* Ranges and events. *)

FileOf(id) == IF id \in DOMAIN files THEN files[id] ELSE 0

\* immediateSrcRange.
RangeAt(id, start, length) == [file |-> FileOf(id), start |-> start, length |-> length]
End(range) == range.start + range.length

\* An event, with the FileID of a PreInclude and, for a macro, whether the
\* expansion is nested and in what.
Event(kind, range, id, nested) ==
    [kind |-> kind, start |-> range.start, length |-> range.length, id |-> id,
     nested |-> nested, outer |-> IF nested THEN outer ELSE <<>>]

PPEvent(data, event, range) ==
    IF range.file = 0 THEN data ELSE [data EXCEPT ![range.file].events = Append(@, event)]

IncludeLength == 2

\* ClangDB::include: the event goes to the file that has the directive.
Include(data, inc, id) ==
    LET range == RangeAt(inc.at, inc.start, IncludeLength)
    IN  PPEvent(data, Event("include", range, id, FALSE), range)

FileData(id, e) ==
    [id |-> id, fact |-> e, events |-> <<>>, xrefs |-> <<>>]

-----------------------------------------------------------------------------
(* The callbacks of the preprocessor. *)

Top == Last(stack)

\* Clang reads a buffer: the callbacks of the last directive have been called.
Reading == Len(entry) > 1 /\ stack # <<>> /\ pending = <<>>

\* Where the next token outside of the current expansion starts.
Here == IF outer = <<>> THEN offset[Top] ELSE End(outer[1])

\* ClangDB::enterFile, and PPCallbacks::FileChanged for EnterFile.
FileChanged(e) ==
    /\ Len(entry) < MaxFileIDs
    /\ \/ entry = <<>> /\ e = Main
       \/ Len(entry) = 1 /\ e = Builtin
       \/ pending = <<e>>
    /\ LET id == Len(entry) + 1
           data == Append(file_data, FileData(id, e))
       IN  /\ entry' = Append(entry, e)
           /\ stack' = Append(stack, id)
           /\ offset' = Append(offset, 0)
           /\ includer' = Append(includer, IF pending = <<>> THEN 0 ELSE Top)
           /\ IF e = Builtin THEN UNCHANGED <<file_data, files>>
              ELSE /\ files' = [i \in DOMAIN files \cup {id} |-> IF i = id THEN Len(data) ELSE files[i]]
                   /\ file_data' = IF last_include # <<>> /\ last_include[1].entry = e
                                   THEN Include(data, last_include[1], <<id>>) ELSE data
    /\ last_include' = <<>>
    /\ pending' = <<>>
    /\ UNCHANGED <<outer, expansion, recorded, finished>>

\* ClangDB::skipFile, and PPCallbacks::FileSkipped: the file has a guard.
FileSkipped ==
    /\ pending # <<>> /\ pending[1] \in Range(entry)
    /\ file_data' = IF last_include # <<>> /\ last_include[1].entry = pending[1]
                    THEN Include(file_data, last_include[1], <<>>) ELSE file_data
    /\ last_include' = <<>>
    /\ pending' = <<>>
    /\ UNCHANGED <<entry, stack, offset, includer, outer, expansion, files, recorded, finished>>

InclusionDirective(e) ==
    /\ Reading
    /\ Here + IncludeLength <= MaxOffset
    /\ last_include' = <<[at |-> Top, start |-> Here, entry |-> e]>>
    /\ pending' = IF e = NoEntry THEN <<>> ELSE <<e>>
    /\ offset' = [offset EXCEPT ![Top] = Here + IncludeLength]
    /\ outer' = <<>>
    /\ UNCHANGED <<entry, stack, includer, expansion, file_data, files, recorded, finished>>

\* Clang can't read the file that it found (external): no callback.
NotEntered ==
    /\ pending # <<>>
    /\ pending' = <<>>
    /\ UNCHANGED <<entry, stack, offset, includer, outer, last_include, expansion, file_data,
                   files, recorded, finished>>

\* The end of a buffer; FileChanged does nothing for ExitFile.
ExitFile ==
    /\ Reading
    /\ stack' = Front(stack)
    /\ outer' = <<>>
    /\ UNCHANGED <<entry, offset, includer, pending, last_include, expansion, file_data, files,
                   recorded, finished>>

\* MacroDefined and MacroUndefined.
MacroDefined ==
    /\ Reading
    /\ Here < MaxOffset
    /\ LET src == RangeAt(Top, Here, 1)
       IN  file_data' = PPEvent(file_data, Event("define", src, <<>>, FALSE), src)
    /\ offset' = [offset EXCEPT ![Top] = Here + 1]
    /\ outer' = <<>>
    /\ UNCHANGED <<entry, stack, includer, pending, last_include, expansion, files, recorded, finished>>

\* When the range of a top-level use becomes that of the current expansion.
Renews(src) ==
    expansion # <<>> => src.file # expansion[1].file \/ End(src) > End(expansion[1])

\* macroUsed: a nested use gets the range of the current top-level expansion.
macroUsed(nested, start, length) ==
    LET src == IF nested /\ expansion # <<>> THEN expansion[1] ELSE RangeAt(Top, start, length)
    IN  /\ expansion' = IF ~nested /\ Renews(src) THEN <<src>> ELSE expansion
        /\ file_data' = PPEvent(file_data, Event("use", src, <<>>, nested), src)
        /\ UNCHANGED <<entry, stack, includer, pending, last_include, files, recorded, finished>>

MacroLength == 3

\* MacroExpands for a macro in the text of the file, MacroLength bytes with
\* its arguments.
MacroExpands ==
    /\ Reading
    /\ Here + MacroLength <= MaxOffset
    /\ macroUsed(FALSE, Here, MacroLength)
    /\ outer' = <<RangeAt(Top, Here, MacroLength)>>
    /\ offset' = [offset EXCEPT ![Top] = Here + 1]

\* MacroExpands for a macro in an argument, as it is in the text of the file.
ExpandArgument ==
    /\ Reading
    /\ outer # <<>> /\ offset[Top] + 1 < End(outer[1])
    /\ macroUsed(FALSE, offset[Top], 1)
    /\ offset' = [offset EXCEPT ![Top] = @ + 1]
    /\ UNCHANGED outer

\* MacroExpands for a macro in what another one expands to (isMacroID).
ExpandNested ==
    /\ Reading
    /\ outer # <<>>
    /\ \A i \in DOMAIN file_data : Len(SelectSeq(file_data[i].events, LAMBDA v : v.nested)) < MaxNested
    /\ macroUsed(TRUE, 0, 0)
    /\ UNCHANGED <<offset, outer>>

\* Ifdef, Ifndef and Defined.
Ifdef ==
    /\ Reading
    /\ Here < MaxOffset
    /\ macroUsed(FALSE, Here, 1)
    /\ outer' = <<>>
    /\ offset' = [offset EXCEPT ![Top] = Here + 1]

-----------------------------------------------------------------------------
(* Cross-references, and finish. *)

Parsed == entry # <<>> /\ stack = <<>> /\ finished = <<>>

\* ClangDB::xref for a token of the buffer id and a declaration in the buffer
\* loc, if any.
XRef(id, span, loc, target) ==
    /\ Parsed
    /\ Cardinality(recorded) < MaxXRefs
    /\ LET file == FileOf(id)
           local == loc # <<>> /\ FileOf(loc[1]) = file
           ref == [span |-> span, local |-> local, target |-> target]
       IN  /\ file # 0
           /\ file_data' = [file_data EXCEPT ![file].xrefs = Append(@, ref)]
           /\ recorded' = recorded \cup {<<Len(file_data[file].xrefs), file, ref>>}
    /\ UNCHANGED <<clangVars, last_include, expansion, files, finished>>

SpanLess(a, b) == a[1] < b[1] \/ (a[1] = b[1] /\ a[2] < b[2])

\* Sorted, without duplicates, each relative to the start of the one before.
byteSpans(v) ==
    LET s == SetToSortSeq(Range(v), SpanLess)
    IN  [i \in DOMAIN s |-> <<s[i][1] - (IF i = 1 THEN 0 ELSE s[i - 1][1]), s[i][2]>>]

\* The order of vectors of spans.
RangesLess(a, b) ==
    \/ IsStrictPrefix(a, b)
    \/ \E i \in DOMAIN a \cap DOMAIN b :
           SpanLess(a[i], b[i]) /\ SubSeq(a, 1, i - 1) = SubSeq(b, 1, i - 1)

\* The references by target, in an order that std::sort may leave them in.
finishRefs(refs) ==
    LET of(t) == SelectSeq(refs, LAMBDA r : r.target = t)
        all == {[target |-> t, ranges |-> byteSpans([i \in DOMAIN of(t) |-> of(t)[i].span])]
                    : t \in {refs[i].target : i \in DOMAIN refs}}
    IN  {s \in [1 .. Cardinality(all) -> all] :
            Range(s) = all /\ \A i, j \in DOMAIN s : i < j => ~RangesLess(s[j].ranges, s[i].ranges)}

HasTrace(file) == \E k \in DOMAIN finished : finished[k].file = file


\* finish goes from the last file that was entered to the first.
NextToFinish == Len(file_data) - Len(finished)

\* One turn of the loop of finish.
FinishFile ==
    /\ entry # <<>> /\ stack = <<>>
    /\ Len(finished) < Len(file_data)
    /\ LET i == NextToFinish
           refs(local) == SelectSeq(file_data[i].xrefs, LAMBDA r : r.local = local)
           trace(v) == IF v.id # <<>> /\ FileOf(v.id[1]) # 0 /\ HasTrace(FileOf(v.id[1]))
                       THEN <<FileOf(v.id[1])>> ELSE <<>>
       IN  /\ \E fixed \in finishRefs(refs(TRUE)), ext \in finishRefs(refs(FALSE)) :
                  finished' = Append(finished,
                      [file |-> i,
                       fixed |-> fixed,
                       variable |-> [k \in DOMAIN ext |-> ext[k].ranges],
                       externals |-> [k \in DOMAIN ext |-> ext[k].target],
                       pp |-> [k \in DOMAIN file_data[i].events |->
                                  [event |-> file_data[i].events[k], trace |-> trace(file_data[i].events[k])]]])
           /\ file_data' = [file_data EXCEPT ![i].xrefs = <<>>, ![i].events = <<>>]
    /\ UNCHANGED <<clangVars, last_include, expansion, files, recorded>>

UnitInit ==
    /\ entry = <<>> /\ stack = <<>> /\ offset = <<>> /\ includer = <<>> /\ pending = <<>> /\ outer = <<>>
    /\ last_include = <<>> /\ expansion = <<>>
    /\ file_data = <<>> /\ files = <<>>
    /\ recorded = {} /\ finished = <<>>

Inclusions ==
    \/ \E e \in Entries \cup {Builtin} : FileChanged(e)
    \/ \E e \in Entries \cup {NoEntry} : InclusionDirective(e)
    \/ FileSkipped
    \/ NotEntered
    \/ ExitFile

Macros == MacroDefined \/ MacroExpands \/ ExpandArgument \/ ExpandNested \/ Ifdef

XRefs ==
    \E id \in DOMAIN files, span \in Spans, target \in Targets :
        \E loc \in {<<>>} \cup {<<i>> : i \in DOMAIN entry} : XRef(id, span, loc, target)

-----------------------------------------------------------------------------
(* FileLines, and the names of files. *)

\* The loop of fileFromEntry, with the characters read, the lengths so far and
\* the length of the current line.  "\t" stands for a tab or a byte >= 0x80.
FileLines(text) ==
    LET step(s, c) ==
            IF c = "\n" THEN [s EXCEPT !.lengths = Append(@, s.len + 1), !.len = 0]
            ELSE [s EXCEPT !.len = @ + 1, !.special = @ \/ c = "\t"]
        s == FoldLeft(step, [lengths |-> <<>>, len |-> 0, special |-> FALSE], text)
    IN  [lengths |-> IF s.len # 0 THEN Append(s.lengths, s.len) ELSE s.lengths,
         endsInNewline |-> s.len = 0,
         hasUnicodeOrTabs |-> s.special]

IsAbsolute(path) == path # <<>> /\ path[1] = "/"

\* lexically_normal (external): a path is the sequence of its components.
Normal(path) ==
    FoldLeft(LAMBDA p, c : IF c = ".." /\ p # <<>> /\ Last(p) # ".."
                           THEN IF Last(p) = "/" THEN p ELSE Front(p)
                           ELSE Append(p, c), <<>>, path)

subpath(subdir, path) == IF IsAbsolute(path) THEN path ELSE subdir \o path


\* The loop of goodPath along a relative path: how many components of the root
\* are left at its end (up), and how many of the path are read.
Follow(root, path) ==
    LET step(s, c) ==
            IF s.done \/ s.up = Len(root) THEN s
            ELSE IF c = ".." THEN [s EXCEPT !.up = @ + 1, !.read = @ + 1]
            ELSE IF s.up > 0 /\ c = root[Len(root) - s.up + 1] THEN [s EXCEPT !.up = @ - 1, !.read = @ + 1]
            ELSE [s EXCEPT !.done = TRUE]
    IN  FoldLeft(step, [up |-> 0, read |-> 0, done |-> FALSE], path)

goodPath(root, given) ==
    LET path == Normal(given)
        s == Follow(root, path)
    IN  IF ~IsAbsolute(path) THEN [i \in 1 .. s.up |-> ".."] \o SubSeq(path, s.read + 1, Len(path))
        ELSE IF IsPrefix(root, path) THEN SubSeq(path, Len(root) + 1, Len(path))
        ELSE path

betterPath(path1, path2) ==
    IF path1 # <<>> /\ (~IsAbsolute(path1) \/ IsAbsolute(path2)) THEN path1 ELSE path2

\* The path of fileFromEntry, for the name of an entry and its real path, if
\* that is known.
PathOf(n) ==
    LET path == goodPath(n.root, subpath(n.subdir, n.name))
    IN  IF n.real = <<>> THEN path
        ELSE betterPath(goodPath(n.root, subpath(n.subdir, n.real)), path)

ReadChar(c) ==
    /\ Len(contents) < MaxText
    /\ contents' = Append(contents, c)
    /\ UNCHANGED naming

Name(root, subdir, name, real) ==
    /\ naming = <<>>
    /\ naming' = <<[root |-> root, subdir |-> subdir, name |-> name, real |-> real]>>
    /\ UNCHANGED contents

FileInit == contents = <<>> /\ naming = <<>>

-----------------------------------------------------------------------------
(* Properties. *)

\* Every file that was entered from a physical file is in exactly one include
\* event, of the file that includes it, and that event has its own trace: the
\* traces of a unit are a tree from the main file (finish, enterFile).
TraceComplete ==
    (finished # <<>> /\ Len(finished) = Len(file_data)) =>
        \A id \in DOMAIN files :
            FileOf(includer[id]) # 0 =>
                LET named == UNION {{<<finished[k].file, finished[k].pp[j]>> :
                                         j \in {j \in DOMAIN finished[k].pp :
                                                   finished[k].pp[j].event.id = <<id>>}} : k \in DOMAIN finished}
                IN  Cardinality(named) = 1
                    /\ \A n \in named : n[1] = FileOf(includer[id]) /\ n[2].trace = <<FileOf(id)>>

\* A macro in what another macro expands to is recorded where the outermost
\* expansion is, also after an expansion in an argument of it (macroUsed).
NestedInOuter ==
    \A f \in DOMAIN file_data :
        \A k \in DOMAIN file_data[f].events :
            LET v == file_data[f].events[k]
            IN  v.nested => v.outer = <<[file |-> f, start |-> v.start, length |-> v.length]>>

\* What a reader of the relative spans of a target gets.
Absolute(ranges) ==
    [i \in DOMAIN ranges |-> <<FoldLeft(LAMBDA n, r : n + r[1], 0, SubSeq(ranges, 1, i)), ranges[i][2]>>]

\* The FileXRefMap and the FileXRefs of a file give back exactly the
\* cross-references that were recorded in it, each target once and its spans in
\* order without duplicates, the targets of other files paired with their spans
\* by position (finish, finishRefs, byteSpans).
XRefsExact ==
    \A k \in DOMAIN finished :
        LET f == finished[k]
            ext == [i \in DOMAIN f.externals |-> [target |-> f.externals[i], ranges |-> f.variable[i]]]
            read(refs) == UNION {{<<refs[i].target, span>> : span \in Range(Absolute(refs[i].ranges))} : i \in DOMAIN refs}
            wrote(local) == {<<r[3].target, r[3].span>> : r \in {r \in recorded : r[2] = f.file /\ r[3].local = local}}
            once(refs) == \A i \in DOMAIN refs :
                              /\ \A j \in DOMAIN refs : refs[i].target = refs[j].target => i = j
                              /\ LET s == Absolute(refs[i].ranges)
                                 IN  \A a, b \in DOMAIN s : a < b => SpanLess(s[a], s[b])
        IN  /\ read(f.fixed) = wrote(TRUE) /\ read(ext) = wrote(FALSE)
            /\ once(f.fixed) /\ once(ext)

\* The lengths of FileLines add up to the size of the file, every line but the
\* last ends in its only newline, and endsInNewline is about the last line, if
\* there is one (fileFromEntry).
LinesExact ==
    LET lines == FileLines(contents)
        end(i) == FoldLeft(LAMBDA n, len : n + len, 0, SubSeq(lines.lengths, 1, i))
        last == Len(lines.lengths)
        ends == {end(i) : i \in 1 .. last}
    IN  /\ end(last) = Len(contents)
        /\ \A i \in 1 .. last : lines.lengths[i] > 0
        /\ {i \in DOMAIN contents : contents[i] = "\n"} = IF lines.endsInNewline THEN ends ELSE ends \ {end(last)}
        /\ contents # <<>> => (lines.endsInNewline <=> Last(contents) = "\n")

\* A path of fileFromEntry is that of the file's name or of its real path; it is
\* relative if either of them is or is in the root, and it goes out of the root
\* only for a file that isn't in the root, unless it was given by a path above
\* "/" (goodPath, betterPath).
PathsGood ==
    \A i \in DOMAIN naming :
        LET n == naming[i]
            full(path) == IF IsAbsolute(path) THEN Normal(path) ELSE Normal(n.root \o path)
            given == {subpath(n.subdir, n.name)} \cup (IF n.real = <<>> THEN {} ELSE {subpath(n.subdir, n.real)})
            ups(path) == Len(SelectSeq(Normal(path), LAMBDA c : c = ".."))
            path == PathOf(n)
        IN  /\ full(path) \in {full(g) : g \in given}
            /\ (\E g \in given : ~IsAbsolute(g) \/ IsPrefix(n.root, full(g))) => ~IsAbsolute(path)
            /\ (IsPrefix(n.root, full(path)) /\ \A g \in given : ups(g) < Len(n.root)) =>
                   ~IsAbsolute(path) /\ ups(path) = 0



=============================================================================
