----------------------------- MODULE MCStructures -----------------------------
(* The data structures and encodings of the runtime and what the Clang       *)
(* indexer records, each from its own initial state: mode says which one     *)
(* this behaviour is about.                                                  *)
EXTENDS SetU32, TrieArray, Encoding, Lookups, DenseMap, ClangDB

VARIABLE mode

modes == {"sets", "trie", "numbers", "bytes", "texts", "spans", "lookups", "dense",
          "units", "macros", "refs", "lines", "paths"}

vars == <<mode, setVars, trieVars, encVars, lookupVars, denseVars, unitVars, fileVars>>

\* Ranges of keys: every single one, and some pairs of them.
MCRanges ==
    {<<r>> : r \in {q \in (0 .. 4) \X (0 .. 4) : q[1] <= q[2]}}
        \cup {<<>>, <<<<0, 0>>, <<2, 2>>>>, <<<<1, 2>>, <<4, 7>>>>, <<<<0, 1>>, <<3, 3>>>>}

\* NUL, SOH, letters, and characters of two bytes.
MCChars == {<<0>>, <<1>>, <<UpperA>>, <<LowerA>>, <<Lead, TailUpper>>, <<Lead, TailLower>>}

\* Keys that are prefixes of one another, with the largest byte at the end.
MCClauses ==
    {[type |-> 1, key |-> k] : k \in {<<0>>, <<0, MaxByte>>, <<MaxByte>>, <<MaxByte, MaxByte>>}}
        \cup {[type |-> 2, key |-> <<0>>]}

MCSpans == {<<0, 1>>, <<0, 2>>, <<3, 1>>}

MCRoots == {<<"/", "r">>, <<"/", "r", "s">>}
MCSubdirs == {<<>>, <<"t">>}

\* Paths with up to three steps out of the current directory, and absolute ones.
MCNames ==
    {[i \in 1 .. n |-> ".."] \o p : n \in 0 .. 3, p \in {<<"x">>, <<"s", "x">>, <<"r", "x">>, <<"r", "s", "x">>, <<"r", "t", "x">>}}
        \cup {<<"/", "x">>, <<"/", "r", "x">>, <<"/", "r", "s", "x">>, <<"/", "r", "t", "..", "s", "x">>, <<"/", "..", "x">>}

\* The main file, predefined macros and one other file, included at the start.
OneInclusion ==
    \/ Len(entry) < 3 /\ \E e \in Entries \cup {Builtin} : FileChanged(e)
    \/ Len(entry) = 2 /\ InclusionDirective("a.h")
    \/ ExitFile

Init ==
    /\ mode \in modes
    /\ SetInit /\ TrieInit /\ EncodingInit /\ LookupInit /\ DenseInit /\ UnitInit /\ FileInit
    /\ mode # "lookups" => lookup.kind = "set"

Next ==
    \/ mode = "sets" /\ SetNext /\ UNCHANGED <<mode, trieVars, encVars, lookupVars, denseVars, unitVars, fileVars>>
    \/ mode = "trie" /\ TrieNext /\ UNCHANGED <<mode, setVars, encVars, lookupVars, denseVars, unitVars, fileVars>>
    \/ mode = "lookups" /\ LookupNext /\ UNCHANGED <<mode, setVars, trieVars, encVars, denseVars, unitVars, fileVars>>
    \/ mode = "dense" /\ DenseNext /\ UNCHANGED <<mode, setVars, trieVars, encVars, lookupVars, unitVars, fileVars>>
    \/ /\ UNCHANGED <<mode, setVars, trieVars, lookupVars, denseVars, unitVars, fileVars>>
       /\ \/ mode = "numbers" /\ Count
          \/ mode = "bytes" /\ \E b \in Byte : ReceiveByte(b)
          \/ mode = "texts" /\ \E char \in Chars : TypeText(char) \/ TypeOther(char)
          \/ mode = "spans" /\ \E o, length \in {0, 1, 5, WordSize - 1} : AddSpan(o, length)
    \/ /\ UNCHANGED <<mode, setVars, trieVars, encVars, lookupVars, denseVars, fileVars>>
       /\ \/ mode \in {"units", "macros", "refs"} /\ FinishFile
          \/ mode = "units" /\ Inclusions
          \/ mode = "macros" /\ (Macros \/ OneInclusion)
          \/ mode = "refs" /\ (XRefs \/ OneInclusion)
    \/ /\ UNCHANGED <<mode, setVars, trieVars, encVars, lookupVars, denseVars, unitVars>>
       /\ \/ mode = "lines" /\ \E c \in {"x", "\t", "\n"} : ReadChar(c)
          \/ mode = "paths" /\ \E root \in Roots, subdir \in Subdirs, name \in Names, real \in Names \cup {<<>>} :
                                   Name(root, subdir, name, real)

Spec == Init /\ [][Next]_vars

=============================================================================
