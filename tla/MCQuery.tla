------------------------------- MODULE MCQuery -------------------------------
(* Queries in the shapes that Glean.Query.Codegen gives them, over a small   *)
(* database on a base, for Query.tla.                                        *)
EXTENDS Query

\* Predicates: files, uses in a file, lists of facts, derived facts.
File == 1
Use == 2
Set == 3
Dead == 4

F(id, type, key) == [id |-> id, type |-> type, key |-> key]

MCBaseFacts == {F(1, File, <<1>>), F(2, File, <<2>>), F(3, Use, <<1, 1>>), F(4, Set, <<3, 5>>)}
MCVisible == {1, 3, 4}
MCDbFacts == {F(5, Use, <<1, 2>>), F(6, File, <<3>>), F(7, File, <<1, 0>>)}
MCWritten == <<F(8, Set, <<5>>)>>
\* A write to a predicate that a query seeks.
MCWrittenFile == <<F(8, File, <<0>>)>>
MCRefIds == [id \in 1 .. 12 |-> CASE id = 3 -> {1} [] id = 5 -> {3} [] id = 4 -> {3, 5} [] OTHER -> {}]

-----------------------------------------------------------------------------
(* Programs are written with labels: <<label, instruction>>, "" for none. *)

Jumps == {"Jump", "JumpIf0", "JumpIfNot0", "JumpIfEq", "JumpIfNe", "JumpIfGt", "JumpIfGe",
          "JumpIfLt", "JumpIfLe", "DecrAndJumpIf0", "DecrAndJumpIfNot0"}

Assemble(lines) ==
    LET At(label) == CHOOSE n \in DOMAIN lines : lines[n][1] = label
        code == [n \in DOMAIN lines |->
            LET i == lines[n][2]
            IN  CASE i.op \in Jumps -> [i EXCEPT !.tgt = At(@)]
                  [] i.op = "Suspend" -> [i EXCEPT !.cont = At(@)]
                  [] i.op = "LoadLabel" -> [i EXCEPT !.lbl = At(@)]
                  [] i.op = "Select" -> [i EXCEPT !.tgts = [t \in DOMAIN @ |-> At(@[t])]]
                  [] OTHER -> i]
    IN  SubSeq(code, 1, Len(code))

ResetO(o) == <<"", [op |-> "ResetOutput", output |-> o]>>
GetO(o) == <<"", [op |-> "GetOutput", output |-> o, ptr |-> "ptr", end |-> "ptrend"]>>
PutO(o, p, e) == <<"", [op |-> "OutputBytes", output |-> o, ptr |-> p, end |-> e]>>
Const(v, r) == <<"", [op |-> "LoadConst", imm |-> v, dst |-> r]>>
Go(label) == <<"", [op |-> "Jump", tgt |-> label]>>
If0(r, label) == <<"", [op |-> "JumpIf0", reg |-> r, tgt |-> label]>>
End(label, r) == <<label, [op |-> "endSeek", src |-> r]>>

\* Seeks the facts of a type with the prefix that is in an output.
SeekO(type, o, tok) ==
    <<Const(type, "type"), GetO(o),
      <<"", [op |-> "seek", src1 |-> "type", src2 |-> "ptr", src3 |-> "ptrend", dst |-> tok]>>>>

\* The head of the loop over the facts of an iterator.
NextFact(loop, body, done, tok, id) ==
    <<<<loop, [op |-> "next", src1 |-> tok, dst1 |-> "ok", dst2 |-> "clause", dst3 |-> "keyend", dst5 |-> id]>>,
      If0("ok", done),
      <<"", [op |-> "DecrAndJumpIf0", reg |-> "ok", tgt |-> body]>>,
      <<"", [op |-> "Suspend", cont |-> loop]>>>>

\* Reports a result with the key that is in an output; continues at done.
Result(id, o, pause, done) ==
    <<<<"", [op |-> "result", id |-> id, key |-> o, dst |-> "new"]>>,
      If0("new", done),
      <<"", [op |-> "DecrAndJumpIf0", reg |-> "maxResults", tgt |-> pause]>>,
      <<"", [op |-> "GetOutputSize", output |-> o, dst |-> "len"]>>,
      <<"", [op |-> "AddConst", imm |-> 8, dst |-> "len"]>>,
      <<"", [op |-> "JumpIfGt", reg1 |-> "len", reg2 |-> "maxBytes", tgt |-> pause]>>,
      <<"", [op |-> "Sub", src |-> "len", dst |-> "maxBytes"]>>,
      Go(done),
      <<pause, [op |-> "Suspend", cont |-> done]>>>>

\* File K; Use that starts with K: a nested loop.
Join ==
    [maxResults |-> 1, maxBytes |-> 20, code |-> Assemble(
        <<ResetO("o1")>> \o SeekO(File, "o1", "tok1")
        \o NextFact("files", "file", "nofile", "tok1", "id1")
        \o <<<<"file", [op |-> "ResetOutput", output |-> "o1"]>>, PutO("o1", "clause", "keyend")>>
        \o SeekO(Use, "o1", "tok2")
        \o NextFact("uses", "use", "nouse", "tok2", "id2")
        \o <<<<"use", [op |-> "ResetOutput", output |-> "o2"]>>, PutO("o2", "clause", "keyend")>>
        \o Result("id2", "o2", "pause", "again")
        \o <<<<"again", [op |-> "Jump", tgt |-> "uses"]>>,
             End("nouse", "tok2"), Go("files"),
             End("nofile", "tok1"), <<"", [op |-> "Ret"]>>>>),
     expected |-> <<<<1, 1>>, <<1, 2>>>>,
     deps |-> <<>>]

\* Files that no Use starts with, each giving a derived fact: a negation
\* whose iterators are dropped at once, wherever it stops.
Unused ==
    [maxResults |-> 2, maxBytes |-> 10, code |-> Assemble(
        <<ResetO("o1")>> \o SeekO(File, "o1", "tok1")
        \o NextFact("files", "file", "nofile", "tok1", "id1")
        \o <<<<"file", [op |-> "ResetOutput", output |-> "o1"]>>, PutO("o1", "clause", "keyend"),
             <<"", [op |-> "currentSeek", dst |-> "level"]>>>>
        \o SeekO(Use, "o1", "tok2")
        \o NextFact("uses", "match", "nouse", "tok2", "id2")
        \* a nested generator of the negated query
        \o <<<<"match", [op |-> "ResetOutput", output |-> "o3"]>>, PutO("o3", "clause", "keyend")>>
        \o SeekO(Use, "o3", "tok3")
        \o NextFact("same", "found", "nosame", "tok3", "id3")
        \o <<End("nosame", "tok3"), Go("uses"),
             End("found", "level"), Go("files"),
             End("nouse", "tok2"),
             ResetO("o2"), GetO("o1"), PutO("o2", "ptr", "ptrend"),
             <<"", [op |-> "OutputByteImm", src |-> 19, output |-> "o2"]>>,
             Const(Dead, "type"),
             <<"", [op |-> "GetOutputSize", output |-> "o2", dst |-> "len"]>>,
             <<"", [op |-> "newDerivedFact", type |-> "type", key |-> "o2", size |-> "len", dst |-> "id2"]>>>>
        \o Result("id2", "o2", "pause", "again")
        \o <<<<"again", [op |-> "Jump", tgt |-> "files"]>>,
             End("nofile", "tok1"), <<"", [op |-> "Ret"]>>>>),
     expected |-> <<<<1, 0, 9>>, <<3, 9>>>>,
     deps |-> (<<1, 0, 9>> :> {7}) @@ (<<3, 9>> :> {6})]

\* The elements of a Set, whose second byte is 1 or 2: a lookup by id, an
\* array, and a disjunction that returns through a label.
Elements ==
    [maxResults |-> 3, maxBytes |-> 20, code |-> Assemble(
        <<Const(4, "id1"),
          <<"", [op |-> "lookupKeyValue", fid |-> "id1", kout |-> "o1", dst |-> "type"]>>,
          Const(0, "off"), GetO("o1"),
          <<"", [op |-> "PtrDiff", src1 |-> "ptr", src2 |-> "ptrend", dst |-> "size"]>>,
          <<"loop", [op |-> "JumpIfGe", reg1 |-> "off", reg2 |-> "size", tgt |-> "end"]>>,
          GetO("o1"),
          <<"", [op |-> "Add", src |-> "off", dst |-> "ptr"]>>,
          <<"", [op |-> "InputNat", begin |-> "ptr", end |-> "ptrend", dst |-> "id2"]>>,
          <<"", [op |-> "AddConst", imm |-> 1, dst |-> "off"]>>,
          <<"", [op |-> "lookupKeyValue", fid |-> "id2", kout |-> "o2", dst |-> "type"]>>,
          \* the first alternative: the second byte is 1
          <<"", [op |-> "LoadLabel", lbl |-> "second", dst |-> "ret"]>>,
          GetO("o2"),
          <<"", [op |-> "InputSkipNat", begin |-> "ptr", end |-> "ptrend"]>>,
          <<"", [op |-> "InputShiftLit", begin |-> "ptr", end |-> "ptrend", lit |-> <<1>>, match |-> "ok"]>>,
          If0("ok", "second"), Go("inner"),
          \* the second: the key is the number 1 and then 2
          <<"second", [op |-> "LoadLabel", lbl |-> "loop", dst |-> "ret"]>>,
          GetO("o2"),
          Const(1, "len"),
          <<"", [op |-> "LoadReg", src |-> "ptr", dst |-> "clause"]>>,
          <<"", [op |-> "InputBytes", begin |-> "ptr", end |-> "ptrend", size |-> "len"]>>,
          ResetO("o3"), Const(2, "new"),
          <<"", [op |-> "OutputNat", src |-> "new", output |-> "o3"]>>,
          <<"", [op |-> "GetOutput", output |-> "o3", ptr |-> "clause", end |-> "keyend"]>>,
          <<"", [op |-> "InputShiftBytes", begin |-> "ptr", end |-> "ptrend",
                 ptr |-> "clause", ptrend |-> "keyend", match |-> "ok"]>>,
          <<"", [op |-> "SubConst", imm |-> 0, dst |-> "ok"]>>,
          <<"", [op |-> "Select", sel |-> "ok", tgts |-> <<"loop", "inner">>]>>,
          <<"inner", [op |-> "ResetOutput", output |-> "o3"]>>,
          GetO("o2"), PutO("o3", "ptr", "ptrend")>>
        \o Result("id2", "o3", "pause", "again")
        \o <<<<"again", [op |-> "JumpReg", tgt |-> "ret"]>>,
             <<"end", [op |-> "Ret"]>>>>),
     expected |-> <<<<1, 1>>, <<1, 2>>>>,
     deps |-> <<>>]

MCPrograms == [join |-> Join, unused |-> Unused, elements |-> Elements]

MCLocals == {"maxResults", "maxBytes", "type", "ptr", "ptrend", "clause", "keyend", "ok", "new", "len",
             "tok1", "tok2", "tok3", "id1", "id2", "id3", "level", "off", "size", "ret"}
MCPointers == {"ptr", "ptrend", "clause", "keyend"}
MCOutputs == {"o1", "o2", "o3"}

=============================================================================
