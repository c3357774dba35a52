------------------------------- MODULE SetU32 --------------------------------
(* Sets of 32-bit numbers (glean/rts/ownership/setu32): append and merge.    *)
(*                                                                           *)
(* A set is [hdrs, dense, sparse].  A header is [id, type, len]: the number  *)
(* of the block, how it is stored, and how many elements of a sparse block   *)
(* are in sparse; a dense block has one element of dense, the set of its     *)
(* indices.  An iterator is [h, d, s], the offsets into the three vectors.   *)
EXTENDS Integers, Sequences, FiniteSets, FiniteSetsExt, SequencesExt

CONSTANTS BlockSize,   \* values in a block, 256
          SparseLimit, \* a block with fewer elements is sparse, 32
          SetValues    \* the values that are appended

\* Two sparse blocks never make a full one.
ASSUME SetAssumption == SparseLimit > 1 /\ BlockSize > 2 * (SparseLimit - 1)

VARIABLES left, right,  \* two sets
          given,        \* history: the values that each of them was given
          merged        \* where the last merge left its result

setVars == <<left, right, given, merged>>

EmptySetU32 == [hdrs |-> <<>>, dense |-> <<>>, sparse |-> <<>>]

Hdr(id, type, len) == [id |-> id, type |-> type, len |-> len]
DenseLen(hdr) == IF hdr.type = "dense" THEN 1 ELSE 0
All == 0 .. BlockSize - 1

FitsSparse(m, n) == m + n < SparseLimit

-----------------------------------------------------------------------------
(* Blocks and iterators. *)

Begin == [h |-> 0, d |-> 0, s |-> 0]
EndOf(set) == [h |-> Len(set.hdrs), d |-> Len(set.dense), s |-> Len(set.sparse)]

HdrAt(set, it) == set.hdrs[it.h + 1]
IdAt(set, it) == HdrAt(set, it).id

Forward(set, it) ==
    [h |-> it.h + 1, d |-> it.d + DenseLen(HdrAt(set, it)), s |-> it.s + HdrAt(set, it).len]

SparseAt(set, it) == SubSeq(set.sparse, it.s + 1, it.s + HdrAt(set, it).len)

\* The indices of the elements of a block.
ElementsAt(set, it) ==
    CASE HdrAt(set, it).type = "sparse" -> Range(SparseAt(set, it))
      [] HdrAt(set, it).type = "dense" -> set.dense[it.d + 1]
      [] HdrAt(set, it).type = "full" -> All

SameBlock(l, i, r, j) == HdrAt(l, i) = HdrAt(r, j) /\ ElementsAt(l, i) = ElementsAt(r, j)

\* A sparse block does not include a dense one, nor a dense one a full one,
\* and the other cases compare the elements.
BlockIncludes(l, i, r, j) ==
    /\ IdAt(l, i) = IdAt(r, j)
    /\ HdrAt(l, i).type = "sparse" => HdrAt(r, j).type = "sparse"
    /\ HdrAt(l, i).type = "dense" => HdrAt(r, j).type # "full"
    /\ ElementsAt(r, j) \subseteq ElementsAt(l, i)

\* Dense and sparse elements of the blocks from one position to another.
Lengths(set, from, to) ==
    LET Sum(F(_)) == FoldLeft(LAMBDA n, h : n + F(h), 0, SubSeq(set.hdrs, from + 1, to))
    IN  [d |-> Sum(DenseLen), s |-> Sum(LAMBDA h : h.len)]

\* The first block from start on that is not before the one with the id; the
\* offsets are counted from the nearer end.
LowerBound(set, start, finish, id) ==
    LET pos == start.h + Cardinality({h \in start.h + 1 .. finish.h : set.hdrs[h].id < id})
        l == Lengths(set, start.h, pos)
        r == Lengths(set, pos, finish.h)
    IN  IF pos - start.h <= finish.h - pos
        THEN [h |-> pos, d |-> start.d + l.d, s |-> start.s + l.s]
        ELSE [h |-> pos, d |-> finish.d - r.d, s |-> finish.s - r.s]

\* foreach: the values in the set.
RECURSIVE ValuesFrom(_, _)
ValuesFrom(set, it) ==
    IF it = EndOf(set) THEN {}
    ELSE {IdAt(set, it) * BlockSize + e : e \in ElementsAt(set, it)} \cup ValuesFrom(set, Forward(set, it))

Values(set) == ValuesFrom(set, Begin)

\* size and upper.
RECURSIVE SizeFrom(_, _)
SizeFrom(set, it) ==
    IF it = EndOf(set) THEN 0 ELSE Cardinality(ElementsAt(set, it)) + SizeFrom(set, Forward(set, it))

Upper(set) ==
    LET hdr == Last(set.hdrs)
    IN  hdr.id * BlockSize + CASE hdr.type = "sparse" -> Last(set.sparse)
                               [] hdr.type = "dense" -> Max(Last(set.dense))
                               [] hdr.type = "full" -> BlockSize - 1

-----------------------------------------------------------------------------
(* append. *)

Without(s, n) == SubSeq(s, 1, Len(s) - n)
PushHdr(set, hdr) == [set EXCEPT !.hdrs = Append(@, hdr)]
SetHdr(set, hdr) == [set EXCEPT !.hdrs[Len(set.hdrs)] = hdr]

AppendDense(set, bit) ==
    IF Last(set.dense) \cup {bit} = All
    THEN SetHdr([set EXCEPT !.dense = Without(@, 1)], Hdr(Last(set.hdrs).id, "full", 0))
    ELSE [set EXCEPT !.dense[Len(set.dense)] = @ \cup {bit}]

AppendSparse(set, bit) ==
    LET hdr == Last(set.hdrs)
        n == Len(set.sparse)
    IN  IF bit = Last(set.sparse) THEN set
        ELSE IF FitsSparse(hdr.len, 1)
        THEN SetHdr([set EXCEPT !.sparse = Append(@, bit)], Hdr(hdr.id, "sparse", hdr.len + 1))
        ELSE SetHdr([set EXCEPT !.dense = Append(@, Range(SubSeq(set.sparse, n - hdr.len + 1, n)) \cup {bit}),
                                !.sparse = Without(@, hdr.len)],
                    Hdr(hdr.id, "dense", 0))

\* Appends a value that is not less than any in the set.
AppendValue(set, value) ==
    LET block == value \div BlockSize
        bit == value % BlockSize
    IN  IF set.hdrs = <<>> \/ Last(set.hdrs).id # block
        THEN PushHdr([set EXCEPT !.sparse = Append(@, bit)], Hdr(block, "sparse", 1))
        ELSE CASE Last(set.hdrs).type = "sparse" -> AppendSparse(set, bit)
               [] Last(set.hdrs).type = "dense" -> AppendDense(set, bit)
               [] Last(set.hdrs).type = "full" -> set

-----------------------------------------------------------------------------
(* merge. *)

\* Blocks of a set are copied.
AppendRange(result, set, start, finish) ==
    [hdrs |-> result.hdrs \o SubSeq(set.hdrs, start.h + 1, finish.h),
     dense |-> result.dense \o SubSeq(set.dense, start.d + 1, finish.d),
     sparse |-> result.sparse \o SubSeq(set.sparse, start.s + 1, finish.s)]

AppendBits(result, id, bits) ==
    IF bits = All THEN PushHdr(result, Hdr(id, "full", 0))
    ELSE PushHdr([result EXCEPT !.dense = Append(@, bits)], Hdr(id, "dense", 0))

\* The loop of mergeSparse, which stops when the result is about to be full.
RECURSIVE MergeLoop(_, _, _)
MergeLoop(ls, rs, out) ==
    IF ls = <<>> \/ rs = <<>> \/ ~FitsSparse(Len(out), 1) THEN <<ls, rs, out>>
    ELSE MergeLoop(IF Head(ls) <= Head(rs) THEN Tail(ls) ELSE ls,
                   IF Head(rs) <= Head(ls) THEN Tail(rs) ELSE rs,
                   Append(out, Min({Head(ls), Head(rs)})))

\* Mutant: only what is left of the first block is counted.
MergeSparseLeft(result, id, ls, rs) ==
    LET m == MergeLoop(ls, rs, <<>>)
        all == m[3] \o m[1] \o m[2]
    IN  IF FitsSparse(Len(m[3]), Len(m[1]))
        THEN PushHdr([result EXCEPT !.sparse = @ \o all], Hdr(id, "sparse", Len(all)))
        ELSE PushHdr([result EXCEPT !.dense = Append(@, Range(all))], Hdr(id, "dense", 0))

MergeSparse(result, id, ls, rs) ==
    LET m == MergeLoop(ls, rs, <<>>)
        all == m[3] \o m[1] \o m[2]
    IN  IF FitsSparse(Len(m[3]), Len(m[1]) + Len(m[2]))
        THEN PushHdr([result EXCEPT !.sparse = @ \o all], Hdr(id, "sparse", Len(all)))
        ELSE PushHdr([result EXCEPT !.dense = Append(@, Range(all))], Hdr(id, "dense", 0))

MergeBlocks(result, l, i, r, j) ==
    LET id == IdAt(l, i)
        types == {HdrAt(l, i).type, HdrAt(r, j).type}
    IN  IF types = {"sparse"} THEN MergeSparse(result, id, SparseAt(l, i), SparseAt(r, j))
        ELSE IF "full" \in types THEN PushHdr(result, Hdr(id, "full", 0))
        ELSE AppendBits(result, id, ElementsAt(l, i) \cup ElementsAt(r, j))

RECURSIVE AppendMerge(_, _, _, _, _)
AppendMerge(result, l, i, r, j) ==
    IF i.h = EndOf(l).h \/ j.h = EndOf(r).h
    THEN AppendRange(AppendRange(result, l, i, EndOf(l)), r, j, EndOf(r))
    ELSE IF IdAt(l, i) < IdAt(r, j)
    THEN LET k == LowerBound(l, i, EndOf(l), IdAt(r, j))
         IN  AppendMerge(AppendRange(result, l, i, k), l, k, r, j)
    ELSE IF IdAt(r, j) < IdAt(l, i)
    THEN LET k == LowerBound(r, j, EndOf(r), IdAt(l, i))
         IN  AppendMerge(AppendRange(result, r, j, k), l, i, r, k)
    ELSE AppendMerge(MergeBlocks(result, l, i, r, j), l, Forward(l, i), r, Forward(r, j))

RECURSIVE SkipEqual(_, _, _, _)
SkipEqual(l, i, r, j) ==
    IF i.h # EndOf(l).h /\ j.h # EndOf(r).h /\ SameBlock(l, i, r, j)
    THEN SkipEqual(l, Forward(l, i), r, Forward(r, j)) ELSE <<i, j>>

\* Skips while the first set may still include the second one.
RECURSIVE SkipIncluded(_, _, _, _)
SkipIncluded(l, i, r, j) ==
    IF i.h = EndOf(l).h \/ j.h = EndOf(r).h THEN <<i, j>>
    ELSE IF IdAt(l, i) < IdAt(r, j) THEN SkipIncluded(l, LowerBound(l, i, EndOf(l), IdAt(r, j)), r, j)
    ELSE IF BlockIncludes(l, i, r, j) THEN SkipIncluded(l, Forward(l, i), r, Forward(r, j))
    ELSE <<i, j>>

\* Which set may include the other one, and up to where it does.
SkipSubset(l, r) ==
    LET e == SkipEqual(l, Begin, r, Begin)
        i == e[1]
        j == e[2]
        Answer(super, s) == [super |-> super, super_s |-> s[1], sub_s |-> s[2]]
    IN  IF j.h = EndOf(r).h THEN Answer("left", SkipIncluded(l, i, r, j))
        ELSE IF i.h = EndOf(l).h THEN Answer("right", SkipIncluded(r, j, l, i))
        ELSE IF IdAt(r, j) < IdAt(l, i) THEN Answer("right", SkipIncluded(r, j, l, i))
        ELSE IF BlockIncludes(r, j, l, i)
        THEN Answer("right", SkipIncluded(r, Forward(r, j), l, Forward(l, i)))
        ELSE Answer("left", SkipIncluded(l, i, r, j))

\* Answers the set and where it is: in left, in right, or in a new one.
MergeSets(l, r) ==
    LET s == SkipSubset(l, r)
        super == IF s.super = "left" THEN l ELSE r
        sub == IF s.super = "left" THEN r ELSE l
    IN  IF s.sub_s.h = EndOf(sub).h THEN [where |-> s.super, set |-> super]
        ELSE [where |-> "result",
              set |-> AppendMerge(AppendRange(EmptySetU32, super, Begin, s.super_s),
                                  super, s.super_s, sub, s.sub_s)]

-----------------------------------------------------------------------------
(* The sets grow by appends, and a merge replaces one of them.               *)

Appendable(set, value) == set.hdrs # <<>> => value >= Upper(set)

AppendLeft(value) ==
    /\ Appendable(left, value)
    /\ left' = AppendValue(left, value)
    /\ given' = [given EXCEPT !.left = @ \cup {value}]
    /\ merged' = "none"
    /\ UNCHANGED right

AppendRight(value) ==
    /\ Appendable(right, value)
    /\ right' = AppendValue(right, value)
    /\ given' = [given EXCEPT !.right = @ \cup {value}]
    /\ merged' = "none"
    /\ UNCHANGED left

\* Usets::merge keeps the answer of merge, here in place of left.
MergeBoth ==
    \E m \in {MergeSets(left, right)} :
        /\ left' = m.set
        /\ merged' = m.where
        /\ given' = [given EXCEPT !.left = @ \cup given.right]
        /\ UNCHANGED right

SetInit ==
    /\ left = EmptySetU32 /\ right = EmptySetU32
    /\ given = [left |-> {}, right |-> {}]
    /\ merged = "none"

SetNext == MergeBoth \/ \E value \in SetValues : AppendLeft(value) \/ AppendRight(value)

-----------------------------------------------------------------------------
(* Properties. *)

BlockOf(S, id) == {v % BlockSize : v \in {w \in S : w \div BlockSize = id}}

\* The set holds exactly the values given to it, one block for each number
\* that has any, in ascending order, and stored in the one way that suits the
\* number of its elements.
Canonical(set, values) ==
    LET n == Len(set.hdrs)
        its[h \in 0 .. n] == IF h = 0 THEN Begin ELSE Forward(set, its[h - 1])
    IN  /\ {set.hdrs[h].id : h \in 1 .. n} = {v \div BlockSize : v \in values}
        /\ \A h \in 2 .. n : set.hdrs[h - 1].id < set.hdrs[h].id
        /\ its[n] = EndOf(set)
        /\ \A h \in 0 .. n - 1 : \A it \in {its[h]} : \A elements \in {ElementsAt(set, it)} :
              LET hdr == HdrAt(set, it)
                  size == Cardinality(elements)
              IN  /\ elements = BlockOf(values, hdr.id)
                  /\ hdr.type = IF size = BlockSize THEN "full"
                                ELSE IF FitsSparse(size, 0) THEN "sparse" ELSE "dense"
                  /\ hdr.type = "sparse" =>
                        \A i \in 2 .. hdr.len : SparseAt(set, it)[i - 1] < SparseAt(set, it)[i]

\* "Blocks with less than 32 elements are sparse ... more than 31 but less than
\* 256 ... dense ... 256 elements are full" (setu32.h): after any appends and
\* merges both sets hold what they were given in that form.  Equality and the
\* hash compare the vectors, so Usets stores a set once only if this holds.
SetsCanonical(l, r, values) == Canonical(l, values.left) /\ Canonical(r, values.right)

\* "If right is a subset of left or vice versa, returns a pointer to the
\* superset" (setu32.h): and only then.
MergeReuses ==
    merged' # "none" =>
        /\ merged' = "left" => given.right \subseteq given.left
        /\ merged' = "right" => given.left \subseteq given.right
        /\ merged' = "result" => ~(given.right \subseteq given.left) /\ ~(given.left \subseteq given.right)

\* What toEliasFano tells the encoder: the number of values and the largest.
EliasFanoBounds(set) ==
    set.hdrs # <<>> =>
        /\ SizeFrom(set, Begin) = Cardinality(Values(set))
        /\ Upper(set) = Max(Values(set))

\* Every append and every merge leaves a set in the one representation that it
\* has, which tells the encoder the truth, and merge gives an operand back exactly
\* when it holds the other.
SetsRight ==
    [][MergeReuses /\ \A l \in {left'}, r \in {right'}, values \in {given'} :
                         SetsCanonical(l, r, values) /\ EliasFanoBounds(l)]_setVars

=============================================================================
