------------------------------- MODULE DenseMap -------------------------------
(* The map of glean/rts/densemap.h, in which the statistics of the           *)
(* predicates are kept: a vector of optional values from a first key on.     *)
(* A folly::Optional is a sequence with at most one element.                 *)
EXTENDS Integers, Sequences, FiniteSets, FiniteSetsExt, SequencesExt, Functions

CONSTANTS DenseKeys, MaxTotal   \* bound: updates

VARIABLES dense,     \* two maps
          expected   \* history: what was put in each

denseVars == <<dense, expected>>

EmptyDense == [start |-> 0, data |-> <<>>, count |-> 0]

Nones(n) == SubSeq([i \in 1 .. n |-> <<>>], 1, n)

Total(f) == FoldFunction(+, 0, f)

\* Space for the keys from from up to, but not including, upto.
Reserve(m, from, upto) ==
    IF m.data = <<>> THEN [m EXCEPT !.start = from, !.data = Nones(upto - from)]
    ELSE IF from < m.start
    THEN LET size == Max({upto, m.start + Len(m.data)}) - from
         IN  [m EXCEPT !.start = from,
                       !.data = Nones(m.start - from) \o m.data \o Nones(size - (m.start - from) - Len(m.data))]
    ELSE IF upto - m.start > Len(m.data)
    THEN [m EXCEPT !.data = m.data \o Nones(upto - m.start - Len(m.data))]
    ELSE m

\* operator[], and the caller's addition to the value.
AddTo(map, key, n) ==
    LET m == Reserve(map, key, key + 1)
        i == key - m.start + 1
    IN  IF m.data[i] = <<>> THEN [m EXCEPT !.data[i] = <<n>>, !.count = @ + 1]
        ELSE [m EXCEPT !.data[i] = <<@[1] + n>>]

DenseLookup(m, key) ==
    LET i == key - m.start + 1
    IN  IF key >= m.start /\ i <= Len(m.data) THEN m.data[i] ELSE <<>>

\* Mutant: no space is made below the first key.
DenseMergeAbove(m, other) ==
    FoldLeft(LAMBDA r, i : IF other.data[i] = <<>> \/ other.start + i - 1 < m.start THEN r
                           ELSE AddTo(r, other.start + i - 1, other.data[i][1]),
             m, [i \in DOMAIN other.data |-> i])

\* merge, with addition as the combining function.
DenseMerge(m, other) ==
    IF other.data = <<>> THEN m
    ELSE IF m.data = <<>> THEN other
    ELSE LET r == Reserve(m, Min({m.start, other.start}),
                          Max({m.start + Len(m.data), other.start + Len(other.data)}))
             d == other.start - r.start
             from(i) == IF i - d \in DOMAIN other.data THEN other.data[i - d] ELSE <<>>
         IN  [r EXCEPT !.data = [i \in DOMAIN @ |-> IF from(i) = <<>> THEN @[i]
                                                    ELSE IF @[i] = <<>> THEN from(i)
                                                    ELSE <<@[i][1] + from(i)[1]>>],
                       !.count = @ + Cardinality({i \in DOMAIN r.data : r.data[i] = <<>> /\ from(i) # <<>>})]

\* The pairs that Iter goes through: the first value is taken without a look
\* whether it is there, then the positions without one are left out.
Iterated(m) ==
    LET at == SelectSeq([i \in DOMAIN m.data |-> i], LAMBDA i : i = 1 \/ m.data[i] # <<>>)
    IN  [k \in DOMAIN at |-> <<m.start + at[k] - 1, m.data[at[k]]>>]

Bump(k, key) ==
    /\ Total(expected[1]) + Total(expected[2]) < MaxTotal
    /\ dense' = [dense EXCEPT ![k] = AddTo(dense[k], key, 1)]
    /\ expected' = [expected EXCEPT ![k][key] = @ + 1]

MergeMaps ==
    /\ Total(expected[1]) + 2 * Total(expected[2]) <= MaxTotal
    /\ dense' = [dense EXCEPT ![1] = DenseMerge(dense[1], dense[2])]
    /\ expected' = [expected EXCEPT ![1] = [key \in DenseKeys |-> @[key] + expected[2][key]]]

DenseInit ==
    /\ dense = <<EmptyDense, EmptyDense>>
    /\ expected = <<[key \in DenseKeys |-> 0], [key \in DenseKeys |-> 0]>>

DenseNext == MergeMaps \/ \E k \in 1 .. 2, key \in DenseKeys : Bump(k, key)

\* A map holds the values that were put into it or merged into it and no other;
\* its size is the number of keys, and since the first and the last position of
\* its data always have a value an iteration sees exactly those keys, in order.
DenseExact ==
    \A k \in 1 .. 2 :
        LET m == dense[k]
            present == {key \in DenseKeys : expected[k][key] > 0}
        IN  /\ \A key \in DenseKeys : DenseLookup(m, key) = IF key \in present THEN <<expected[k][key]>> ELSE <<>>
            /\ m.count = Cardinality(present)
            /\ m.data # <<>> => m.data[1] # <<>> /\ Last(m.data) # <<>>
            /\ Iterated(m) = [i \in 1 .. m.count |->
                                 LET key == SetToSortSeq(present, <)[i] IN <<key, <<expected[k][key]>>>>]
=============================================================================
