------------------------------ MODULE Iterators ------------------------------
(* Lookups and the iterators over their facts (glean/rts/lookup, factset,    *)
(* stacked, ownership/slice, rocksdb).                                       *)
(*                                                                           *)
(* A fact is [id, type, key] where the key is a sequence of bytes; types are *)
(* numbers.  A lookup is a record with its kind: "set" (a FactSet), "db" (a  *)
(* RocksDB database), "stacked", "snapshot" or "sliced".  An iterator is a   *)
(* record too; its get may change it, so Get answers the iterator and the    *)
(* fact, which is NoFact when the iterator is exhausted.                     *)
EXTENDS Integers, Sequences, FiniteSets, FiniteSetsExt, SequencesExt

CONSTANTS MaxByte, \* the largest byte, 0xFF
          NoFact,  \* Fact::Ref::invalid()
          NoIter   \* a null pointer to an iterator

NoId == 0

-----------------------------------------------------------------------------
(* Keys in lexicographic order. *)

LexLess(a, b) ==
    \E n \in 0 .. Len(b) - 1 :
        /\ n <= Len(a)
        /\ SubSeq(a, 1, n) = SubSeq(b, 1, n)
        /\ n = Len(a) \/ a[n + 1] < b[n + 1]

LexLeq(a, b) == a = b \/ LexLess(a, b)

\* Mutant: the last byte is incremented even if it is the largest one.
LexicographicallyNextCarry(bytes) ==
    IF bytes = <<>> THEN <<>> ELSE [bytes EXCEPT ![Len(bytes)] = (@ + 1) % (MaxByte + 1)]

\* The least sequence that is greater than all those with the prefix bytes,
\* or <<>> if there is none.
LexicographicallyNext(bytes) ==
    LET small == {i \in DOMAIN bytes : bytes[i] # MaxByte}
    IN  IF small = {} THEN <<>>
        ELSE [i \in 1 .. Max(small) |-> IF i = Max(small) THEN bytes[i] + 1 ELSE bytes[i]]

\* F of a value that is evaluated once.
With(value, F(_)) == CHOOSE x \in {F(v) : v \in {value}} : TRUE

\* The elements of a finite set in the order Less.
Ordered(S, Less(_, _)) ==
    With(S, LAMBDA T :
        [i \in 1 .. Cardinality(T) |-> CHOOSE f \in T : Cardinality({g \in T : Less(g, f)}) = i - 1])

ByKey(S) == Ordered(S, LAMBDA f, g : LexLess(f.key, g.key))
ById(S) == Ordered(S, LAMBDA f, g : f.id < g.id)

-----------------------------------------------------------------------------
(* Iterators. *)

EmptyIterator == [kind |-> "list", facts |-> <<>>]
List(facts) == [kind |-> "list", facts |-> facts]

RECURSIVE Get(_)
RECURSIVE Advance(_)

\* Get of an iterator with a base, where r is what the base gives.
GetOfBase(it, r) ==
    CASE it.kind = "snapshot" ->
            [it |-> [it EXCEPT !.base = r.it],
             fact |-> IF r.fact # NoFact /\ r.fact.id < it.boundary THEN r.fact ELSE NoFact]
      [] it.kind = "filter" ->
            IF r.fact # NoFact /\ r.fact.id \notin it.visible
            THEN Get([it EXCEPT !.base = Advance(r.it)])
            ELSE [it |-> [it EXCEPT !.base = r.it], fact |-> r.fact]

\* Get of an AppendIterator, where r is what its current iterator gives.
GetOfAppend(it, r) ==
    IF r.fact = NoFact /\ it.other # NoIter
    THEN With(Get(it.other), LAMBDA o : [it |-> [it EXCEPT !.checked = TRUE, !.current = o.it, !.other = NoIter],
                                         fact |-> o.fact])
    ELSE [it |-> [it EXCEPT !.checked = TRUE, !.current = r.it], fact |-> r.fact]

\* Get of a MergeIterator that has not chosen its current iterator; l and r
\* are what its iterators give.  An iterator that is finished is dropped.
GetOfMerge(it, l, r) ==
    LET Suffix(f) == SubSeq(f.key, it.prefix + 1, Len(f.key))
        left == l.fact # NoFact /\ (r.fact # NoFact => ~LexLess(Suffix(r.fact), Suffix(l.fact)))
        Kept(g) == IF g.fact = NoFact THEN NoIter ELSE g.it
    IN  [it |-> [it EXCEPT !.left = Kept(l), !.right = Kept(r),
                           !.current = IF left THEN "left" ELSE IF r.fact = NoFact THEN "none" ELSE "right"],
         fact |-> IF left THEN l.fact ELSE r.fact]

Exhausted(it) == [it |-> it, fact |-> NoFact]
TryGet(it) == IF it = NoIter THEN Exhausted(it) ELSE Get(it)

Get(iter) ==
    With(iter, LAMBDA it :
        CASE it.kind = "list" -> [it |-> it, fact |-> IF it.facts = <<>> THEN NoFact ELSE Head(it.facts)]
          [] it.kind \in {"snapshot", "filter"} -> With(Get(it.base), LAMBDA r : GetOfBase(it, r))
          [] it.kind = "append" -> With(Get(it.current), LAMBDA r : GetOfAppend(it, r))
          [] it.kind = "merge" /\ it.current # "none" ->
                With(Get(it[it.current]), LAMBDA r : [it |-> [it EXCEPT ![it.current] = r.it], fact |-> r.fact])
          [] it.kind = "merge" /\ it.current = "none" ->
                With(<<TryGet(it.left), TryGet(it.right)>>, LAMBDA b : GetOfMerge(it, b[1], b[2])))

\* next is only called while there is a current fact.
Advance(iter) ==
    With(IF (iter.kind = "append" /\ ~iter.checked) \/ (iter.kind = "merge" /\ iter.current = "none")
         THEN Get(iter).it ELSE iter,
         LAMBDA it :
            CASE it.kind = "list" -> [it EXCEPT !.facts = IF @ = <<>> THEN @ ELSE Tail(@)]
              [] it.kind \in {"snapshot", "filter"} -> [it EXCEPT !.base = Advance(@)]
              [] it.kind = "append" -> [it EXCEPT !.current = Advance(@), !.checked = FALSE]
              [] it.kind = "merge" -> [it EXCEPT ![it.current] = Advance(@), !.current = "none"])

Append2(left, right) == [kind |-> "append", current |-> left, other |-> right, checked |-> FALSE]
Filter(base, visible) == [kind |-> "filter", base |-> base, visible |-> visible]

MergeIters(left, right, prefix) ==
    With(<<Get(left), Get(right)>>, LAMBDA b :
        IF b[1].fact = NoFact THEN b[2].it
        ELSE IF b[2].fact = NoFact THEN b[1].it
        ELSE [kind |-> "merge", left |-> b[1].it, right |-> b[2].it, current |-> "none", prefix |-> prefix])

-----------------------------------------------------------------------------
(* Lookups.  A fact set or a database has the facts with the ids from start  *)
(* to next - 1; a stacked lookup shows the facts of base before mid and      *)
(* those of top; a slice shows the facts with the ids in visible.            *)

FactSet(start, facts) == [kind |-> "set", start |-> start, next |-> start + Cardinality(facts), facts |-> facts]
Database(start, facts) == [kind |-> "db", start |-> start, next |-> start + Cardinality(facts), facts |-> facts]
StackedOn(base, top) == [kind |-> "stacked", base |-> base, top |-> top, mid |-> top.start, start |-> base.start, next |-> top.next]
SnapshotOf(base, boundary) == [kind |-> "snapshot", base |-> base, boundary |-> boundary, start |-> base.start, next |-> boundary]
SliceOf(base, visible) == [kind |-> "sliced", base |-> base, visible |-> visible, start |-> base.start, next |-> base.next]

\* Facts of a type with the keys from start on that have the prefix.
FactSetSeek(lk, type, start, prefix) ==
    With(LexicographicallyNext(SubSeq(start, 1, prefix)), LAMBDA next :
        List(ByKey({f \in lk.facts :
            f.type = type /\ LexLeq(start, f.key) /\ (next = <<>> \/ LexLess(f.key, next))})))

\* The keys of all predicates are in one family, the type comes first.
RocksDBSeek(lk, type, start, prefix) ==
    LET Key(f) == <<f.type>> \o f.key
        From(next) == List(Ordered({f \in lk.facts : LexLeq(<<type>> \o start, Key(f)) /\ LexLess(Key(f), next)},
                                   LAMBDA f, g : LexLess(Key(f), Key(g))))
    IN  IF \A f \in lk.facts : f.type # type THEN EmptyIterator
        ELSE With(LexicographicallyNext(<<type>> \o SubSeq(start, 1, prefix)), From)

SnapshotSeek(base, boundary) == [kind |-> "snapshot", base |-> base, boundary |-> boundary]

RECURSIVE Seek(_, _, _, _)
Seek(lk, type, start, prefix) ==
    CASE lk.kind = "set" -> FactSetSeek(lk, type, start, prefix)
      [] lk.kind = "db" -> RocksDBSeek(lk, type, start, prefix)
      [] lk.kind = "snapshot" -> SnapshotSeek(Seek(lk.base, type, start, prefix), lk.boundary)
      [] lk.kind = "sliced" -> Filter(Seek(lk.base, type, start, prefix), lk.visible)
      [] lk.kind = "stacked" ->
            MergeIters(SnapshotSeek(Seek(lk.base, type, start, prefix), lk.mid),
                       Seek(lk.top, type, start, prefix), prefix)

\* FactSet::enumerate: lower_bound of both ends, the end if upto is invalid.
FactSetEnumerate(lk, from, upto) ==
    List(ById({f \in lk.facts : f.id >= from /\ (upto = NoId \/ f.id < upto)}))

ForwardBounds(from, upto, start, next) ==
    IF from >= next \/ (upto # NoId /\ upto <= start) THEN <<NoId, NoId>>
    ELSE <<Max({from, start}), IF upto # NoId /\ upto <= next THEN upto ELSE next>>

BackwardBounds(from, downto, start, next) ==
    IF downto >= next \/ (from # NoId /\ from <= start) THEN <<NoId, NoId>>
    ELSE <<(IF from # NoId /\ from <= next THEN from ELSE next) - 1, Max({downto, start})>>

RocksDBEnumerate(lk, from, upto) ==
    LET b == ForwardBounds(from, upto, lk.start, lk.next)
    IN  IF b[1] = NoId THEN EmptyIterator
        ELSE List(ById({f \in lk.facts : f.id >= b[1] /\ f.id < b[2]}))

RocksDBEnumerateBack(lk, from, downto) ==
    LET b == BackwardBounds(from, downto, lk.start, lk.next)
    IN  IF b[1] = NoId THEN EmptyIterator
        ELSE List(Reverse(ById({f \in lk.facts : f.id <= b[1] /\ f.id >= b[2]})))

\* BackIterator: from the fact before from down to the one at downto.
FactSetEnumerateBack(lk, from, downto) ==
    List(Reverse(ById({f \in lk.facts : (from = NoId \/ f.id < from) /\ f.id >= downto})))

RECURSIVE Enumerate(_, _, _)
Enumerate(lk, from, upto) ==
    CASE lk.kind = "set" -> FactSetEnumerate(lk, from, upto)
      [] lk.kind = "db" -> RocksDBEnumerate(lk, from, upto)
      [] lk.kind = "snapshot" ->
            IF from >= lk.boundary THEN EmptyIterator
            ELSE Enumerate(lk.base, from, IF upto # NoId THEN Min({upto, lk.boundary}) ELSE lk.boundary)
      [] lk.kind = "sliced" -> Filter(Enumerate(lk.base, from, upto), lk.visible)
      [] lk.kind = "stacked" ->
            IF from >= lk.mid THEN Enumerate(lk.top, from, upto)
            ELSE IF upto # NoId /\ upto <= lk.mid THEN Enumerate(lk.base, from, upto)
            ELSE Append2(Enumerate(lk.base, from, lk.mid), Enumerate(lk.top, lk.mid, upto))

\* A snapshot and a slice enumerate their base forwards.
RECURSIVE EnumerateBack(_, _, _)
EnumerateBack(lk, from, downto) ==
    CASE lk.kind = "set" -> FactSetEnumerateBack(lk, from, downto)
      [] lk.kind = "db" -> RocksDBEnumerateBack(lk, from, downto)
      [] lk.kind = "snapshot" ->
            IF downto >= lk.boundary THEN EmptyIterator
            ELSE Enumerate(lk.base, IF from # NoId THEN Min({from, lk.boundary}) ELSE lk.boundary, downto)
      [] lk.kind = "sliced" -> Filter(Enumerate(lk.base, from, downto), lk.visible)
      [] lk.kind = "stacked" ->
            IF from # NoId /\ from <= lk.mid THEN EnumerateBack(lk.base, from, downto)
            ELSE IF downto >= lk.mid THEN EnumerateBack(lk.top, from, downto)
            ELSE Append2(EnumerateBack(lk.top, from, lk.mid), EnumerateBack(lk.base, lk.mid, downto))

-----------------------------------------------------------------------------
(* What lookup.h promises. *)

\* The facts that a lookup has.
RECURSIVE FactsOf(_)
FactsOf(lk) ==
    CASE lk.kind \in {"set", "db"} -> lk.facts
      [] lk.kind = "snapshot" -> {f \in FactsOf(lk.base) : f.id < lk.boundary}
      [] lk.kind = "sliced" -> {f \in FactsOf(lk.base) : f.id \in lk.visible}
      [] lk.kind = "stacked" -> {f \in FactsOf(lk.base) : f.id < lk.mid} \cup FactsOf(lk.top)

HasPrefix(key, start, prefix) == Len(key) >= prefix /\ SubSeq(key, 1, prefix) = SubSeq(start, 1, prefix)

PromisedSeek(lk, type, start, prefix) ==
    ByKey({f \in FactsOf(lk) : f.type = type /\ HasPrefix(f.key, start, prefix) /\ LexLeq(start, f.key)})

PromisedEnumerate(lk, from, upto) ==
    ById({f \in FactsOf(lk) : f.id >= from /\ (upto = NoId \/ f.id < upto)})

=============================================================================
