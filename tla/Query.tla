-------------------------------- MODULE Query --------------------------------
(* Running a compiled query (glean/rts/query, glean/rts/bytecode): the       *)
(* bytecode evaluator, the query executor its programs call, and the pages   *)
(* of a query that is suspended and resumed from a continuation.             *)
(*                                                                           *)
(* A program is a sequence of instructions, records with the operands that   *)
(* the source names; jump targets are absolute.  Registers hold numbers or   *)
(* pointers; a pointer is [fresh, bytes, off] where bytes is the buffer it   *)
(* points into, and fresh is FALSE once the page in whose memory that buffer *)
(* was is over.  A packed number is one byte: all numbers here are small.    *)
EXTENDS Iterators

CONSTANTS Programs,      \* name |-> compiled query [code, maxResults, maxBytes, expected, deps]
          Locals,        \* the registers of a program ...
          Pointers,      \* ... and those of them that hold pointers
          Outputs,       \* its output registers
          BaseFacts,     \* facts of the base database ...
          Visible,       \* ... and the ids of those that the slice shows
          DbFacts,       \* facts of the database at the start
          Written,       \* the facts that are written to it during the query
          RefIds,        \* fact id |-> ids of the facts that it refers to
          ExpandPids,    \* the predicates whose nested facts are expanded
          CheckInterval, \* CHECK_TIMEOUT_INTERVAL
          MaxInterrupts, \* bound: interrupts
          NoCont, Unset  \* no continuation; a register that has no value

ASSUME QueryAssumption ==
    /\ CheckInterval > 0
    /\ \A p \in DOMAIN Programs : Programs[p].maxResults > 0 /\ Programs[p].maxBytes > 0
    /\ {f.id : f \in BaseFacts} = 1 .. Cardinality(BaseFacts)
    /\ \A i \in DOMAIN Written : Written[i].id = Cardinality(BaseFacts \cup DbFacts) + i

VARIABLES prog,    \* the name of the program
          db,      \* facts of the database
          pc, regs, outs, \* the machine: next instruction, frame, output buffers
          iters,   \* the stack of live iterators
          derived, \* the fact set of derived facts of the page
          page,    \* the executor: its limits and results
          cont,    \* the continuation, or NoCont
          status,  \* "idle" between pages, "running", "done", "error"
          interrupts, \* interrupts so far
          reported, \* keys of the results of all pages, one for each call of result
          owned    \* derivedFrom calls: [id, key, deps]

machine == <<pc, regs, outs>>
executor == <<iters, derived, page, status>>
history == <<reported, owned>>
vars == <<prog, db, machine, executor, cont, interrupts, history>>

-----------------------------------------------------------------------------
(* The machine. *)

Code == Programs[prog].code
MaxResults == Programs[prog].maxResults \* limits of a page
MaxBytes == Programs[prog].maxBytes
a == Code[pc]

\* Byte range between two pointers into a buffer.
Bytes(p, end) == SubSeq(p.bytes, p.off + 1, end.off)
Pointer(bytes, off) == [fresh |-> TRUE, bytes |-> bytes, off |-> off]

Op(op) == status = "running" /\ a.op = op

SetReg(dst, v) == regs' = [regs EXCEPT ![dst] = v]
Step == pc' = pc + 1

\* Only registers, outputs and the program counter change.
Local == UNCHANGED <<prog, db, executor, cont, interrupts, history>>
LocalReg(dst, v) == SetReg(dst, v) /\ Step /\ UNCHANGED outs /\ Local
LocalOut(output, bytes) == outs' = [outs EXCEPT ![output] = bytes] /\ Step /\ UNCHANGED regs /\ Local
Goto(target) == pc' = target /\ UNCHANGED outs /\ Local

-----------------------------------------------------------------------------
(* Reading input. *)

\* Reads n bytes at begin and sets dst to what they say, or fails.
Input(n, dst, v) ==
    IF regs[a.begin].off + n > regs[a.end].off
    THEN status' = "error" /\ UNCHANGED <<prog, db, machine, iters, derived, page, cont, interrupts, history>>
    ELSE /\ regs' = [r \in Locals |-> IF r = a.begin THEN [regs[r] EXCEPT !.off = @ + n]
                                      ELSE IF r = dst THEN v ELSE regs[r]]
         /\ Step /\ UNCHANGED outs /\ Local

InputNat == Op("InputNat") /\ Input(1, a.dst, Head(Bytes(regs[a.begin], regs[a.end])))
InputSkipNat == Op("InputSkipNat") /\ Input(1, Unset, Unset)
InputBytes == Op("InputBytes") /\ Input(regs[a.size], Unset, Unset)

\* binary::Input::shift: skips a pattern, if the input starts with it.
Shift(pat) ==
    IF HasPrefix(Bytes(regs[a.begin], regs[a.end]), pat, Len(pat))
    THEN Input(Len(pat), a.match, 1)
    ELSE LocalReg(a.match, 0)

InputShiftLit == Op("InputShiftLit") /\ Shift(a.lit)
InputShiftBytes == Op("InputShiftBytes") /\ Shift(Bytes(regs[a.ptr], regs[a.ptrend]))

-----------------------------------------------------------------------------
(* Outputs. *)

ResetOutput == Op("ResetOutput") /\ LocalOut(a.output, <<>>)
OutputByteImm == Op("OutputByteImm") /\ LocalOut(a.output, Append(outs[a.output], a.src % (MaxByte + 1)))
OutputNat == Op("OutputNat") /\ LocalOut(a.output, Append(outs[a.output], regs[a.src]))

OutputBytes ==
    Op("OutputBytes") /\ LocalOut(a.output, outs[a.output] \o Bytes(regs[a.ptr], regs[a.end]))

GetOutput ==
    /\ Op("GetOutput")
    /\ LET bytes == outs[a.output]
       IN  regs' = [regs EXCEPT ![a.ptr] = Pointer(bytes, 0), ![a.end] = Pointer(bytes, Len(bytes))]
    /\ Step /\ UNCHANGED outs /\ Local

GetOutputSize == Op("GetOutputSize") /\ LocalReg(a.dst, Len(outs[a.output]))

-----------------------------------------------------------------------------
(* Registers and jumps. *)

LoadConst == Op("LoadConst") /\ LocalReg(a.dst, a.imm)
LoadReg == Op("LoadReg") /\ LocalReg(a.dst, regs[a.src])
LoadLabel == Op("LoadLabel") /\ LocalReg(a.dst, a.lbl)
AddConst == Op("AddConst") /\ LocalReg(a.dst, regs[a.dst] + a.imm)
SubConst == Op("SubConst") /\ LocalReg(a.dst, regs[a.dst] - a.imm)
Sub == Op("Sub") /\ LocalReg(a.dst, regs[a.dst] - regs[a.src])
PtrDiff == Op("PtrDiff") /\ LocalReg(a.dst, regs[a.src2].off - regs[a.src1].off)

\* Add also moves a pointer.
Add == Op("Add") /\ LocalReg(a.dst, [regs[a.dst] EXCEPT !.off = @ + regs[a.src]])

Jump == Op("Jump") /\ Goto(a.tgt) /\ UNCHANGED regs
JumpReg == Op("JumpReg") /\ Goto(regs[a.tgt]) /\ UNCHANGED regs

\* The conditions of the conditional jumps.
Condition(op) ==
    CASE op = "JumpIf0" -> regs[a.reg] = 0
      [] op = "JumpIfNot0" -> regs[a.reg] # 0
      [] op = "JumpIfEq" -> regs[a.reg1] = regs[a.reg2]
      [] op = "JumpIfNe" -> regs[a.reg1] # regs[a.reg2]
      [] op = "JumpIfGt" -> regs[a.reg1] > regs[a.reg2]
      [] op = "JumpIfGe" -> regs[a.reg1] >= regs[a.reg2]
      [] op = "JumpIfLt" -> regs[a.reg1] < regs[a.reg2]
      [] op = "JumpIfLe" -> regs[a.reg1] <= regs[a.reg2]

JumpIf ==
    \E op \in {"JumpIf0", "JumpIfNot0", "JumpIfEq", "JumpIfNe",
               "JumpIfGt", "JumpIfGe", "JumpIfLt", "JumpIfLe"} :
        /\ Op(op)
        /\ Goto(IF Condition(op) THEN a.tgt ELSE pc + 1)
        /\ UNCHANGED regs

DecrAndJump ==
    \E op \in {"DecrAndJumpIf0", "DecrAndJumpIfNot0"} :
        /\ Op(op)
        /\ SetReg(a.reg, regs[a.reg] - 1)
        /\ Goto(IF (regs[a.reg] - 1 = 0) = (op = "DecrAndJumpIf0") THEN a.tgt ELSE pc + 1)

Select ==
    /\ Op("Select")
    /\ Goto(IF regs[a.sel] < Len(a.tgts) THEN a.tgts[regs[a.sel] + 1] ELSE pc + 1)
    /\ UNCHANGED regs

-----------------------------------------------------------------------------
(* The query executor: the functions that a program calls. *)

\* The facts that a query sees: its own derived facts over the database over
\* the slice of its base.
LookupWith(own) ==
    StackedOn(StackedOn(SliceOf(Database(1, BaseFacts), Visible), Database(Cardinality(BaseFacts) + 1, db)), own)
Lookup == LookupWith(derived)

\* A call changes the executor, not the outputs of the machine.
Call(dst, v) ==
    /\ SetReg(dst, v) /\ Step
    /\ UNCHANGED <<prog, db, outs, cont, status, interrupts>>

seek ==
    /\ Op("seek")
    /\ \E key \in {Bytes(regs[a.src2], regs[a.src3])}, lookup \in {Lookup} :
           iters' = Append(iters, [iter |-> Seek(lookup, regs[a.src1], key, Len(key)),
                                   type |-> regs[a.src1], id |-> NoId,
                                   prefix |-> key, first |-> TRUE])
    /\ Call(a.dst, Len(iters))
    /\ UNCHANGED <<derived, page, history>>

currentSeek ==
    /\ Op("currentSeek") /\ Call(a.dst, Len(iters))
    /\ UNCHANGED <<iters, derived, page, history>>

endSeek(token) == SubSeq(iters, 1, token)

EndSeek ==
    /\ Op("endSeek") /\ iters' = endSeek(regs[a.src])
    /\ Step /\ UNCHANGED <<prog, db, regs, outs, cont, status, interrupts, derived, page, history>>

\* Mutant: the time is looked at in every call of next.
TimeExpiredAlways == page.expired

\* The time is looked at in every CheckInterval-th call of next only.
TimeExpired == page.checks = 1 /\ page.expired

\* The iterator that next is called for.
Token == regs[a.src1] + 1


\* The iterator when next stops the query.
NextStops(it) == it

\* Stopped by the timeout or an interrupt.
nextStopped ==
    /\ Op("next") /\ (TimeExpired \/ page.interrupted)
    /\ page' = [page EXCEPT !.checks = IF TimeExpired THEN 0 ELSE IF @ = 1 THEN CheckInterval ELSE @ - 1]
    /\ iters' = [iters EXCEPT ![Token] = NextStops(@)]
    /\ Call(a.dst1, 2)
    /\ UNCHANGED <<derived, history>>

\* The next fact of the iterator.
next ==
    /\ Op("next") /\ ~TimeExpired /\ ~page.interrupted
    /\ page' = [page EXCEPT !.checks = IF @ = 1 THEN CheckInterval ELSE @ - 1]
    /\ LET it == iters[Token]
           res == Get(IF it.first THEN it.iter ELSE Advance(it.iter))
           fact == res.fact
       IN  /\ iters' = [iters EXCEPT ![Token] =
                            [it EXCEPT !.iter = res.it, !.first = FALSE,
                                       !.id = IF fact = NoFact THEN @ ELSE fact.id]]
           /\ IF fact = NoFact THEN SetReg(a.dst1, 0)
              ELSE regs' = [regs EXCEPT ![a.dst1] = 1, ![a.dst2] = Pointer(fact.key, 0),
                                        ![a.dst3] = Pointer(fact.key, Len(fact.key)), ![a.dst5] = fact.id]
    /\ Step
    /\ UNCHANGED <<prog, db, outs, cont, status, interrupts, derived, history>>

\* The fact with an id.
FactById(id) == CHOOSE f \in FactsOf(Lookup) : f.id = id

lookupKeyValue ==
    /\ Op("lookupKeyValue")
    /\ outs' = [outs EXCEPT ![a.kout] = FactById(regs[a.fid]).key]
    /\ SetReg(a.dst, FactById(regs[a.fid]).type)
    /\ Step /\ Local

\* The facts that facts refer to, directly or not, through the predicates
\* that are expanded.
RECURSIVE NestedFacts(_, _)
NestedFacts(pending, added) ==
    LET nested == {id \in UNION {RefIds[f] : f \in pending} : FactById(id).type \in ExpandPids} \ added
    IN  IF nested = {} THEN added ELSE NestedFacts(nested, added \cup nested)

\* The nested facts of a result.
resultWithPid(id) == NestedFacts({id}, page.nested)

\* Answers 0 if the fact is among the results of the page already.
result ==
    /\ Op("result")
    /\ LET id == regs[a.id]
           new == id \notin Range(page.results)
       IN  /\ Call(a.dst, IF new THEN 1 ELSE 0)
           /\ page' = IF new THEN [page EXCEPT !.results = Append(@, id), !.nested = resultWithPid(id),
                                               !.sizes = Append(@, 8 + Len(outs[a.key]))]
                      ELSE page
           /\ reported' = Append(reported, outs[a.key])
    /\ UNCHANGED <<iters, derived, owned>>

\* Defines the fact, unless the database or the page has it, and remembers
\* which facts it was derived from: those the iterators are at.
newDerivedFact ==
    /\ Op("newDerivedFact")
    /\ LET key == SubSeq(outs[a.key], 1, regs[a.size])
           same == {f \in FactsOf(Lookup) : f.type = regs[a.type] /\ f.key = key}
           id == IF same = {} THEN derived.next ELSE (CHOOSE f \in same : TRUE).id
           deps == {iters[i].id : i \in DOMAIN iters} \ {NoId}
       IN  /\ derived' = IF same # {} THEN derived
                         ELSE FactSet(derived.start,
                                      derived.facts \cup {[id |-> id, type |-> regs[a.type], key |-> key]})
           /\ Call(a.dst, id)
           /\ owned' = Append(owned, [id |-> id, key |-> key, deps |-> deps])
    /\ UNCHANGED <<iters, page, reported>>

-----------------------------------------------------------------------------
(* Suspending and resuming. *)

\* An iterator in a continuation: the key it is at, or nothing if it is
\* finished.
SaveIter(it) ==
    LET fact == Get(it.iter).fact
    IN  IF fact = NoFact THEN [type |-> NoId]
        ELSE [type |-> it.type, key |-> fact.key, prefix |-> Len(it.prefix), first |-> it.first]

\* The instruction that the program goes on with.
Entry == a.cont

\* The inputs of the program, which the continuation does not have.
Inputs == {"maxResults", "maxBytes"}

\* saveState, and the evaluator returns.
Suspend ==
    /\ Op("Suspend")
    /\ cont' = [iters |-> [i \in DOMAIN iters |-> SaveIter(iters[i])], outs |-> outs,
                pc |-> Entry, locals |-> [r \in Locals \ Inputs |-> regs[r]], nextId |-> derived.next]
    /\ status' = "idle"
    /\ UNCHANGED <<prog, db, machine, iters, derived, page, interrupts, history>>

\* The program has ended: there is no continuation.
Ret ==
    /\ Op("Ret") /\ status' = "done" /\ cont' = NoCont
    /\ UNCHANGED <<prog, db, machine, iters, derived, page, interrupts, history>>

NewPage == [results |-> <<>>, sizes |-> <<>>, nested |-> {},
            checks |-> CheckInterval, expired |-> FALSE, interrupted |-> FALSE]

\* The derived facts of a page start where those of the page before ended.
FirstId == IF cont = NoCont THEN Cardinality(BaseFacts \cup db) + 1 ELSE cont.nextId

\* executeQuery of a new query.
ExecuteQuery ==
    /\ status = "idle" /\ cont = NoCont
    /\ page' = NewPage /\ derived' = FactSet(FirstId, {}) /\ iters' = <<>> /\ pc' = 1
    /\ regs' = [r \in Locals |-> IF r = "maxResults" THEN MaxResults
                                 ELSE IF r = "maxBytes" THEN MaxBytes ELSE Unset]
    /\ outs' = [o \in Outputs |-> <<>>]
    /\ status' = "running"
    /\ UNCHANGED <<prog, db, cont, interrupts, history>>

\* A saved iterator starts at its key again.
RestartIter(saved, lookup) ==
    IF saved.type = NoId THEN [iter |-> EmptyIterator, type |-> NoId, id |-> NoId, prefix |-> <<>>, first |-> FALSE]
    ELSE With(Get(Seek(lookup, saved.type, saved.key, saved.prefix)), LAMBDA res :
             [iter |-> res.it, type |-> saved.type, id |-> IF res.fact = NoFact THEN NoId ELSE res.fact.id,
              prefix |-> SubSeq(saved.key, 1, saved.prefix), first |-> saved.first])

\* The seek has found the key that was saved.
Restartable(saved, it) ==
    saved.type # NoId => Get(it.iter).fact # NoFact /\ Get(it.iter).fact.key = saved.key

\* restartQuery, with the continuation of the page before.
RestartQuery ==
    /\ status = "idle" /\ cont # NoCont
    /\ derived' = FactSet(FirstId, {})
    /\ \E lookup \in {LookupWith(FactSet(FirstId, {}))} :
           \E its \in {FoldLeft(LAMBDA done, saved : Append(done, RestartIter(saved, lookup)), <<>>, cont.iters)} :
               /\ iters' = its
               /\ status' = IF \A i \in DOMAIN its : Restartable(cont.iters[i], its[i]) THEN "running" ELSE "error"
    /\ page' = NewPage /\ pc' = cont.pc /\ outs' = cont.outs
    /\ regs' = [r \in Locals |-> IF r = "maxResults" THEN MaxResults
                                 ELSE IF r = "maxBytes" THEN MaxBytes ELSE IF r \in Pointers /\ cont.locals[r] # Unset
                                 THEN [cont.locals[r] EXCEPT !.fresh = FALSE] ELSE cont.locals[r]]
    /\ UNCHANGED <<prog, db, cont, interrupts, history>>

-----------------------------------------------------------------------------
(* The world around the query. *)

\* The time of the page is up.
Expire ==
    /\ status = "running" /\ ~page.expired
    /\ page' = [page EXCEPT !.expired = TRUE]
    /\ UNCHANGED <<prog, db, machine, iters, derived, status, cont, interrupts, history>>

\* All running queries are interrupted.
interruptRunningQueries ==
    /\ status = "running" /\ ~page.interrupted /\ interrupts < MaxInterrupts
    /\ page' = [page EXCEPT !.interrupted = TRUE] /\ interrupts' = interrupts + 1
    /\ UNCHANGED <<prog, db, machine, iters, derived, status, cont, history>>

\* A write to the database commits its facts while the query is not done.
Write ==
    /\ status # "done"
    /\ LET n == Cardinality(db) - Cardinality(DbFacts)
       IN  n < Len(Written) /\ db' = db \cup {Written[n + 1]}
    /\ UNCHANGED <<prog, machine, executor, cont, interrupts, history>>

Finished == status \in {"done", "error"} /\ UNCHANGED vars

Init ==
    /\ prog \in DOMAIN Programs /\ db = DbFacts
    /\ pc = 1 /\ regs = [r \in Locals |-> Unset] /\ outs = [o \in Outputs |-> <<>>]
    /\ iters = <<>> /\ derived = FactSet(1, {}) /\ page = NewPage
    /\ cont = NoCont /\ status = "idle" /\ interrupts = 0 /\ reported = <<>> /\ owned = <<>>

Instruction ==
    \/ InputNat \/ InputSkipNat \/ InputBytes \/ InputShiftLit \/ InputShiftBytes
    \/ ResetOutput \/ OutputByteImm \/ OutputNat \/ OutputBytes \/ GetOutput \/ GetOutputSize
    \/ LoadConst \/ LoadReg \/ LoadLabel \/ AddConst \/ SubConst \/ Sub \/ PtrDiff \/ Add
    \/ Jump \/ JumpReg \/ JumpIf \/ DecrAndJump \/ Select
    \/ seek \/ currentSeek \/ EndSeek \/ nextStopped \/ next \/ lookupKeyValue \/ result \/ newDerivedFact
    \/ Suspend \/ Ret

Progress == Instruction \/ ExecuteQuery \/ RestartQuery

Next == Progress \/ Expire \/ interruptRunningQueries \/ Write \/ Finished

Spec == Init /\ [][Next]_vars

\* The thread of a query runs, and its client asks for the next page.
FairSpec == Spec /\ WF_vars(Progress)

-----------------------------------------------------------------------------
(* Properties. *)

\* The registers, the outputs and the executor have their types.
TypeOK ==
    /\ prog \in DOMAIN Programs
    /\ pc \in DOMAIN Code
    /\ DOMAIN regs = Locals /\ outs \in [Outputs -> Seq(0 .. MaxByte)]
    /\ page.nested \subseteq {f.id : f \in FactsOf(Lookup)}
    /\ status \in {"idle", "running", "done", "error"}
    /\ interrupts \in 0 .. MaxInterrupts

\* The pointer operands of an instruction.
PointerOperands(i) ==
    CASE i.op \in {"InputNat", "InputSkipNat", "InputBytes", "InputShiftLit"} -> {i.begin, i.end}
      [] i.op = "InputShiftBytes" -> {i.begin, i.end, i.ptr, i.ptrend}
      [] i.op = "OutputBytes" -> {i.ptr, i.end}
      [] i.op = "PtrDiff" -> {i.src1, i.src2}
      [] i.op = "Add" -> {i.dst}
      [] i.op = "seek" -> {i.src2, i.src3}
      [] OTHER -> {}

\* No instruction uses a pointer that was made in an earlier page: the
\* registers of a continuation are those of a process that is gone, and the
\* compiler must not keep pointers in them across Suspend.
PointersFresh ==
    status = "running" => \A r \in PointerOperands(a) : regs[r] # Unset /\ regs[r].fresh

\* A query that is resumed never fails: its iterators find their keys.
NoError == status # "error"

\* What the query has reported, over all of its pages, are the results of
\* one uninterrupted run, in the same order: wherever it was suspended,
\* nothing is left out and nothing is reported twice.
SamePages ==
    /\ IsPrefix(reported, Programs[prog].expected)
    /\ status = "done" => reported = Programs[prog].expected

RECURSIVE Drain(_)
Drain(it) == LET r == Get(it) IN IF r.fact = NoFact THEN <<>> ELSE <<r.fact>> \o Drain(Advance(r.it))

\* A live iterator will give exactly the facts that seek promises, from the
\* one it is at, whether it was made by seek or restored from a continuation;
\* next is called for the innermost one, as it asserts.
IteratorsRight ==
    status = "running" =>
        /\ a.op = "next" => Token = Len(iters)
        /\ \A i \in DOMAIN iters :
               LET it == iters[i]
                   left == Drain(it.iter)
                   all == PromisedSeek(Lookup, it.type, it.prefix, Len(it.prefix))
               IN  it.type # NoId =>
                       /\ left = SubSeq(all, Len(all) - Len(left) + 1, Len(all))
                       /\ it.first => left = all
                       /\ left # <<>> /\ ~it.first => it.id = Head(left).id

\* A derived fact depends on the facts of its binding and on no others: not
\* on those that a negation looked at and not on those of an earlier loop.
DepsRight == \A i \in DOMAIN owned : owned[i].deps = Programs[prog].deps[owned[i].key]

\* A page has its results once, no more than the limits say (the last result
\* may pass the limit on the bytes), and with every result and every nested
\* fact all the facts that they refer to.
PageRight ==
    LET ids == Range(page.results)
        Total(sizes) == FoldLeft(LAMBDA x, y : x + y, 0, sizes)
    IN  /\ Cardinality(ids) = Len(page.results) /\ Len(page.results) <= MaxResults
        /\ page.sizes # <<>> => Total(Front(page.sizes)) <= MaxBytes
        /\ \A f \in ids \cup page.nested : \A n \in RefIds[f] :
                FactById(n).type \in ExpandPids => n \in page.nested

\* Every query ends, even if the time of each of its pages is up at once: a
\* page looks at the clock late enough to get further than the one before.
QueryEnds == <>(status = "done")


=============================================================================
