--------------------------- MODULE WorklistProofs ---------------------------
(***************************************************************************)
(* Proofs about Worklist, for any number of workers and any ranges: every  *)
(* item is handed out at most once, none is lost, and the increments of an *)
(* idle worker never carry into its end index.                             *)
(***************************************************************************)
EXTENDS Worklist, TLAPS

\* A worker inside next() past its own increment has an empty word, which
\* nobody else touches, and polls left; what it has stolen is a proper, bounded range.
IdleIsEmpty ==
    \A w \in Workers : pc[w] # "call" => Empty(counters[w]) /\ empties[w] <= MaxEmpty
StolenRange ==
    \A w \in Workers : pc[w] = "store" =>
        /\ ~Empty(value[w])
        /\ value[w].end + MaxEmpty + 1 < WordSize
HeldExists == \A w \in Workers : Held(w) \subseteq AllItems

\* The inductive invariant.
Inv ==
    /\ TypeOK
    /\ NoCarry
    /\ IdleIsEmpty
    /\ StolenRange
    /\ HeldExists
    /\ ExclusiveOwner
    /\ NothingLost
    /\ AtMostOnce

\* What a packed word contains.
LEMMA ValueFields ==
    ASSUME NEW v \in Value
    PROVE  v.start \in Nat /\ v.start < WordSize /\ v.end \in Nat /\ v.end < WordSize
BY WidthAssumption DEF Value

\* Packing two half words gives a word.
LEMMA MakeValue ==
    ASSUME NEW a \in Nat, a < WordSize, NEW b \in Nat, b < WordSize
    PROVE  [start |-> a, end |-> b] \in Value
BY WidthAssumption DEF Value

\* Halving a non-empty range leaves a part, maybe empty, to the victim and a
\* non-empty part to the thief.
LEMMA SplitBounds ==
    ASSUME NEW v \in Value, ~Empty(v)
    PROVE  /\ Split(v) \in 0 .. WordSize - 1
           /\ v.start <= Split(v)
           /\ Split(v) < v.end
<1>1. v.start \in Nat /\ v.end \in Nat /\ v.start < v.end /\ v.end < WordSize
  BY ValueFields DEF Empty
<1>2. Size(v) = v.end - v.start /\ Size(v) \in Nat /\ Size(v) > 0
  BY <1>1 DEF Size
<1>3. \A n \in Nat : n > 0 => n \div 2 \in Nat /\ n \div 2 < n
  OBVIOUS
<1> QED
  BY <1>1, <1>2, <1>3, WidthAssumption DEF Split

\* The scan stays within the file.
LEMMA NextWorker == \A w \in Workers : After(w) \in Workers
BY SizeAssumption DEF Workers, After

\* One item leaves the range of the worker that takes it.
LEMMA TakeItem ==
    ASSUME TypeOK, NEW w \in Workers, NEW i \in Held(w),
           HeldExists, ExclusiveOwner, NothingLost, AtMostOnce,
           \A v \in Workers \ {w} : Held(v)' = Held(v),
           Held(w)' = Held(w) \ {i},
           taken' = [taken EXCEPT ![i] = @ + 1]
    PROVE  HeldExists' /\ ExclusiveOwner' /\ NothingLost' /\ AtMostOnce'
<1>1. i \in AllItems /\ taken[i] = 0
  BY DEF HeldExists, NothingLost
<1>2. HeldExists'
  BY DEF HeldExists
<1>3. ExclusiveOwner'
  <2> SUFFICES ASSUME NEW u \in Workers, NEW v \in Workers, u # v,
                      NEW x \in Held(u)', x \in Held(v)'
               PROVE  FALSE
    BY DEF ExclusiveOwner
  <2>1. x \in Held(u) /\ x \in Held(v)
    OBVIOUS
  <2> QED
    BY <2>1 DEF ExclusiveOwner
<1>4. NothingLost'
  <2> SUFFICES ASSUME NEW x \in AllItems
               PROVE  taken'[x] = 0 <=> \E v \in Workers : x \in Held(v)'
    BY DEF NothingLost
  <2>1. CASE x = i
    <3>1. taken'[x] = 1
      BY <1>1, <2>1 DEF TypeOK
    <3>2. \A v \in Workers : x \notin Held(v)'
      BY <2>1 DEF ExclusiveOwner
    <3> QED BY <3>1, <3>2
  <2>2. CASE x # i
    <3>1. taken'[x] = taken[x]
      BY <2>2 DEF TypeOK
    <3>2. \A v \in Workers : x \in Held(v)' <=> x \in Held(v)
      BY <2>2
    <3> QED BY <3>1, <3>2 DEF NothingLost
  <2> QED BY <2>1, <2>2
<1>5. AtMostOnce'
  BY <1>1 DEF AtMostOnce, TypeOK
<1> QED BY <1>2, <1>3, <1>4, <1>5

\* Items move from one worker to another that had none.
LEMMA MoveItems ==
    ASSUME NEW w \in Workers, NEW z \in Workers, w # z,
           HeldExists, ExclusiveOwner, NothingLost, AtMostOnce,
           Held(w) = {},
           \A v \in Workers \ {w, z} : Held(v)' = Held(v),
           Held(w)' \cup Held(z)' = Held(z),
           Held(w)' \cap Held(z)' = {},
           taken' = taken
    PROVE  HeldExists' /\ ExclusiveOwner' /\ NothingLost' /\ AtMostOnce'
<1>1. \A v \in Workers : Held(v)' \subseteq UNION {Held(u) : u \in {v, z}}
  OBVIOUS
<1>2. HeldExists'
  BY <1>1 DEF HeldExists
<1>3. ExclusiveOwner'
  <2> SUFFICES ASSUME NEW u \in Workers, NEW v \in Workers, u # v,
                      NEW x \in Held(u)', x \in Held(v)'
               PROVE  FALSE
    BY DEF ExclusiveOwner
  <2> QED BY DEF ExclusiveOwner
<1>4. NothingLost'
  <2> SUFFICES ASSUME NEW x \in AllItems
               PROVE  (\E v \in Workers : x \in Held(v)) <=> \E v \in Workers : x \in Held(v)'
    BY DEF NothingLost
  <2> QED OBVIOUS
<1>5. AtMostOnce'
  BY DEF AtMostOnce
<1> QED BY <1>2, <1>3, <1>4, <1>5

\* Nothing changes hands.
LEMMA SameItems ==
    ASSUME HeldExists, ExclusiveOwner, NothingLost, AtMostOnce,
           \A v \in Workers : Held(v)' = Held(v),
           taken' = taken
    PROVE  HeldExists' /\ ExclusiveOwner' /\ NothingLost' /\ AtMostOnce'
BY DEF HeldExists, ExclusiveOwner, NothingLost, AtMostOnce

\* The invariant holds when the workers open the file.
LEMMA InitInv == Init => Inv
<1> SUFFICES ASSUME Init PROVE Inv
  OBVIOUS
<1> USE WidthAssumption, InitialAssumption
<1>1. TypeOK
  BY DEF Init, TypeOK
<1>2. NoCarry
  BY ValueFields DEF Init, NoCarry
<1>3. IdleIsEmpty /\ StolenRange
  BY DEF Init, IdleIsEmpty, StolenRange
<1>4. \A w \in Workers : Held(w) = Items(Initial[w])
  BY DEF Init, Held
<1>5. HeldExists
  BY <1>4 DEF HeldExists, AllItems
<1>6. ExclusiveOwner
  BY <1>4 DEF ExclusiveOwner
<1>7. NothingLost
  BY <1>4 DEF NothingLost, AllItems, Init
<1>8. AtMostOnce
  BY DEF AtMostOnce, Init
<1> QED BY <1>1, <1>2, <1>3, <1>5, <1>6, <1>7, <1>8 DEF Inv

-----------------------------------------------------------------------------
(* Each step of next() preserves the invariant.                            *)

\* fetch_add on the own word keeps the invariant.
LEMMA TakeOwnInv ==
    ASSUME Inv, NEW w \in Workers, TakeOwn(w)
    PROVE  Inv'
<1> USE WidthAssumption
<1> DEFINE c == counters[w]
<1>1. c \in Value /\ c.start \in Nat /\ c.end \in Nat
  BY ValueFields DEF Inv, TypeOK
<1>2. c.start + 1 < WordSize /\ FetchAdd(c) = [start |-> c.start + 1, end |-> c.end]
  BY <1>1 DEF Inv, NoCarry, TypeOK, TakeOwn, FetchAdd
<1>3. FetchAdd(c) \in Value
  BY <1>1, <1>2, ValueFields, MakeValue
<1>4. counters' = [counters EXCEPT ![w] = FetchAdd(c)]
  BY DEF TakeOwn
<1>5. CASE Empty(c)
  <2>1. TypeOK'
    BY <1>3, <1>4, <1>5, NextWorker DEF Inv, TypeOK, TakeOwn
  <2>2. NoCarry'
    BY <1>1, <1>2, <1>4, <1>5 DEF Inv, NoCarry, TypeOK, TakeOwn
  <2>3. IdleIsEmpty'
    BY <1>1, <1>2, <1>4, <1>5 DEF Inv, IdleIsEmpty, TypeOK, TakeOwn, Empty
  <2>4. StolenRange'
    BY <1>4, <1>5 DEF Inv, StolenRange, TypeOK, TakeOwn
  <2>5. \A v \in Workers : Held(v)' = Held(v)
    <3> TAKE v \in Workers
    <3>1. CASE v = w
      BY <1>1, <1>2, <1>4, <1>5, <3>1 DEF Inv, TypeOK, TakeOwn, Held, Items, Empty
    <3>2. CASE v # w
      BY <1>4, <1>5, <3>2 DEF Inv, TypeOK, TakeOwn, Held
    <3> QED BY <3>1, <3>2
  <2>6. taken' = taken
    BY <1>5 DEF TakeOwn
  <2>7. HeldExists' /\ ExclusiveOwner' /\ NothingLost' /\ AtMostOnce'
    BY <2>5, <2>6, SameItems DEF Inv
  <2> QED BY <2>1, <2>2, <2>3, <2>4, <2>7 DEF Inv
<1>6. CASE ~Empty(c)
  <2>1. c.start \in Held(w)
    BY <1>1, <1>6 DEF Inv, IdleIsEmpty, TypeOK, Held, Items, Empty
  <2>2. c.start \in AllItems /\ taken' = [taken EXCEPT ![c.start] = @ + 1]
    BY <1>6, <2>1 DEF Inv, HeldExists, TakeOwn
  <2>3. TypeOK'
    BY <1>3, <1>4, <1>6, <2>2 DEF Inv, TypeOK, TakeOwn
  <2>4. NoCarry'
    BY <1>1, <1>2, <1>4, <1>6 DEF Inv, NoCarry, TypeOK, TakeOwn, Empty
  <2>5. IdleIsEmpty' /\ StolenRange'
    BY <1>4, <1>6 DEF Inv, IdleIsEmpty, StolenRange, TypeOK, TakeOwn
  <2>6. \A v \in Workers \ {w} : Held(v)' = Held(v)
    BY <1>4, <1>6 DEF Inv, TypeOK, TakeOwn, Held
  <2>7. Held(w)' = Held(w) \ {c.start}
    BY <1>1, <1>2, <1>4, <1>6 DEF Inv, TypeOK, TakeOwn, Held, Items
  <2>8. HeldExists' /\ ExclusiveOwner' /\ NothingLost' /\ AtMostOnce'
    BY ZenonT(30), <2>1, <2>2, <2>6, <2>7, TakeItem DEF Inv
  <2> QED BY <2>3, <2>4, <2>5, <2>8 DEF Inv
<1> QED BY <1>5, <1>6

\* So do the loads of the scan, and giving up after it.
LEMMA ScanInv ==
    ASSUME Inv, NEW w \in Workers, ScanOne(w) \/ GiveUp(w)
    PROVE  Inv'
<1> USE WidthAssumption
<1>1. TypeOK'
  <2>1. CASE ScanOne(w)
    <3>1. After(scan[w]) \in Workers
      BY NextWorker DEF Inv, TypeOK
    <3> QED BY <2>1, <3>1 DEF Inv, TypeOK, ScanOne
  <2>2. CASE GiveUp(w)
    <3>1. empties[w] + 1 \in 0 .. MaxEmpty + 1
      BY <2>2 DEF Inv, TypeOK, IdleIsEmpty, GiveUp
    <3> QED BY <2>2, <3>1 DEF Inv, TypeOK, GiveUp
  <2> QED BY <2>1, <2>2
<1>2. NoCarry'
  <2>1. \A v \in Workers : /\ counters[v].start \in Nat
                           /\ counters[v].end \in Nat
                           /\ empties[v] \in Nat
    BY ValueFields DEF Inv, TypeOK
  <2>2. CASE ScanOne(w)
    BY <2>2 DEF Inv, NoCarry, ScanOne
  <2>3. CASE GiveUp(w)
    BY <2>1, <2>3 DEF Inv, TypeOK, NoCarry, GiveUp
  <2> QED BY <2>2, <2>3
<1>3. IdleIsEmpty' /\ StolenRange'
  BY DEF Inv, TypeOK, IdleIsEmpty, StolenRange, ScanOne, GiveUp
<1>4. \A v \in Workers : Held(v)' = Held(v)
  BY DEF Inv, TypeOK, ScanOne, GiveUp, Held
<1>5. taken' = taken
  BY DEF ScanOne, GiveUp
<1>6. HeldExists' /\ ExclusiveOwner' /\ NothingLost' /\ AtMostOnce'
  BY <1>4, <1>5, SameItems DEF Inv
<1> QED BY <1>1, <1>2, <1>3, <1>6 DEF Inv

\* So does the compare-and-swap, whether it succeeds or not.
LEMMA StealHalfInv ==
    ASSUME Inv, NEW w \in Workers, StealHalf(w)
    PROVE  Inv'
<1> USE WidthAssumption
<1> DEFINE o == other[w]
           z == victim[w]
           split == Split(o)
<1>1. o \in Value /\ o.start \in Nat /\ o.end \in Nat /\ z \in Workers /\ ~Empty(o)
  BY ValueFields DEF Inv, TypeOK, StealHalf
<1>2. split \in 0 .. WordSize - 1 /\ o.start <= split /\ split < o.end
  BY <1>1, SplitBounds
<1>3. CASE counters[z] = o
  <2>1. z # w /\ pc[z] = "call"
    BY <1>1, <1>3 DEF Inv, IdleIsEmpty, TypeOK, StealHalf
  <2>2. /\ counters' = [counters EXCEPT ![z] = [start |-> o.start, end |-> split]]
        /\ value' = [value EXCEPT ![w] = [start |-> split, end |-> o.end]]
        /\ pc' = [pc EXCEPT ![w] = "store"]
        /\ taken' = taken
        /\ UNCHANGED <<other, scan, victim, empties>>
    BY <1>3 DEF StealHalf, Kept, Stolen
  <2>3. TypeOK'
    BY <1>1, <1>2, <2>2, ValueFields, MakeValue DEF Inv, TypeOK
  <2>4. NoCarry'
    BY <1>1, <1>2, <1>3, <2>1, <2>2 DEF Inv, TypeOK, NoCarry, StealHalf
  <2>5. IdleIsEmpty'
    BY <1>1, <1>2, <2>1, <2>2 DEF Inv, TypeOK, IdleIsEmpty, StealHalf
  <2>6. StolenRange'
    BY <1>1, <1>2, <1>3, <2>2 DEF Inv, TypeOK, StolenRange, NoCarry, Empty
  <2>7. Held(w) = {}
    <3>1. counters[w].start \in Nat /\ counters[w].end \in Nat
      BY ValueFields DEF Inv, TypeOK
    <3>2. pc[w] = "scan" /\ counters[w].start >= counters[w].end
      BY DEF Inv, IdleIsEmpty, StealHalf, Empty
    <3> QED BY <3>1, <3>2 DEF Held, Items
  <2>8. \A v \in Workers \ {w, z} : Held(v)' = Held(v)
    BY <2>2 DEF Inv, TypeOK, Held
  <2>9. /\ Held(w)' = split .. o.end - 1
        /\ Held(z)' = o.start .. split - 1
        /\ Held(z) = o.start .. o.end - 1
    BY <1>1, <1>2, <1>3, <2>1, <2>2 DEF Inv, TypeOK, Held, Items
  <2>10. Held(w)' \cup Held(z)' = Held(z) /\ Held(w)' \cap Held(z)' = {}
    BY <1>1, <1>2, <2>9
  <2>11. HeldExists' /\ ExclusiveOwner' /\ NothingLost' /\ AtMostOnce'
    BY <1>1, <2>1, <2>2, <2>7, <2>8, <2>10, MoveItems DEF Inv
  <2> QED BY <2>3, <2>4, <2>5, <2>6, <2>11 DEF Inv
<1>4. CASE counters[z] # o
  <2>1. After(w) \in Workers
    BY NextWorker
  <2>2. TypeOK'
    BY <1>4, <2>1 DEF Inv, TypeOK, StealHalf
  <2>3. NoCarry' /\ IdleIsEmpty' /\ StolenRange'
    BY <1>4 DEF Inv, TypeOK, NoCarry, IdleIsEmpty, StolenRange, StealHalf
  <2>4. (\A v \in Workers : Held(v)' = Held(v)) /\ taken' = taken
    BY <1>4 DEF Inv, TypeOK, StealHalf, Held
  <2>5. HeldExists' /\ ExclusiveOwner' /\ NothingLost' /\ AtMostOnce'
    BY <2>4, SameItems DEF Inv
  <2> QED BY <2>2, <2>3, <2>5 DEF Inv
<1> QED BY <1>3, <1>4

\* So does the store that publishes the stolen range.
LEMMA StoreOwnInv ==
    ASSUME Inv, NEW w \in Workers, StoreOwn(w)
    PROVE  Inv'
<1> USE WidthAssumption
<1> DEFINE s == value[w]
<1>1. /\ s \in Value /\ s.start \in Nat /\ s.end \in Nat
      /\ s.start < s.end /\ s.end + MaxEmpty + 1 < WordSize
  BY ValueFields DEF Inv, TypeOK, StolenRange, StoreOwn, Empty
<1>2. s.start \in Held(w) /\ s.start \in AllItems
  BY <1>1 DEF Inv, HeldExists, StoreOwn, Held, Items
<1>3. TypeOK'
  <2>1. [start |-> s.start + 1, end |-> s.end] \in Value
    <3>1. s.start + 1 \in Nat /\ s.start + 1 < WordSize /\ s.end < WordSize
      BY <1>1
    <3> QED BY <1>1, <3>1, MakeValue
  <2> QED BY <1>2, <2>1 DEF Inv, TypeOK, StoreOwn
<1>4. NoCarry'
  BY <1>1 DEF Inv, TypeOK, NoCarry, StoreOwn
<1>5. IdleIsEmpty' /\ StolenRange'
  BY <1>1 DEF Inv, TypeOK, IdleIsEmpty, StolenRange, StoreOwn
<1>6. \A v \in Workers \ {w} : Held(v)' = Held(v)
  BY DEF Inv, TypeOK, StoreOwn, Held
<1>7. Held(w)' = Held(w) \ {s.start}
  BY <1>1 DEF Inv, TypeOK, StoreOwn, Held, Items
<1>8. taken' = [taken EXCEPT ![s.start] = @ + 1]
  BY DEF StoreOwn
<1>9. HeldExists' /\ ExclusiveOwner' /\ NothingLost' /\ AtMostOnce'
  BY ZenonT(30), <1>2, <1>6, <1>7, <1>8, TakeItem DEF Inv
<1> QED BY <1>3, <1>4, <1>5, <1>9 DEF Inv

\* A step that changes nothing.
LEMMA StutterInv == Inv /\ UNCHANGED vars => Inv'
<1> SUFFICES ASSUME Inv, UNCHANGED vars PROVE Inv'
  OBVIOUS
<1>1. TypeOK' /\ NoCarry' /\ IdleIsEmpty' /\ StolenRange'
  BY DEF Inv, vars, TypeOK, NoCarry, IdleIsEmpty, StolenRange
<1>2. (\A v \in Workers : Held(v)' = Held(v)) /\ taken' = taken
  BY DEF vars, Held
<1>3. HeldExists' /\ ExclusiveOwner' /\ NothingLost' /\ AtMostOnce'
  BY <1>2, SameItems DEF Inv
<1> QED BY <1>1, <1>3 DEF Inv

\* Every step of next() keeps the invariant.
LEMMA NextInv == Inv /\ [Next]_vars => Inv'
<1> SUFFICES ASSUME Inv, [Next]_vars PROVE Inv'
  OBVIOUS
<1>1. ASSUME NEW w \in Workers, Step(w) PROVE Inv'
  BY <1>1, TakeOwnInv, ScanInv, StealHalfInv, StoreOwnInv DEF Step
<1> QED BY <1>1, StutterInv DEF Next

-----------------------------------------------------------------------------
\* The invariant holds in every state the workers can reach.
THEOREM Invariance == Spec => []Inv
BY InitInv, NextInv, PTL DEF Spec

\* Every variable keeps its type, for every number of workers and all ranges.
THEOREM TypeCorrect == Spec => []TypeOK
<1>1. Inv => TypeOK
  BY DEF Inv
<1> QED BY <1>1, Invariance, PTL

\* next() never hands an item out twice, for every number of workers and all
\* ranges: neither racing increments nor racing steals duplicate work.
THEOREM HandedOutOnce == Spec => []AtMostOnce
<1>1. Inv => AtMostOnce
  BY DEF Inv
<1> QED BY <1>1, Invariance, PTL

\* An item not handed out yet is in the range of exactly one worker: stealing
\* neither drops an item nor gives it to two workers.
THEOREM NoItemLost == Spec => [](NothingLost /\ ExclusiveOwner)
<1>1. Inv => NothingLost /\ ExclusiveOwner
  BY DEF Inv
<1> QED BY <1>1, Invariance, PTL

\* The increments of workers without work stay within the start half of the
\* word, as long as each polls at most MaxEmpty + 1 times after the end.
THEOREM CarryFree == Spec => []NoCarry
<1>1. Inv => NoCarry
  BY DEF Inv
<1> QED BY <1>1, Invariance, PTL

=============================================================================
