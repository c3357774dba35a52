------------------------------ MODULE Worklist ------------------------------
(***************************************************************************)
(* The work-stealing counter that indexer processes share through a        *)
(* memory-mapped file (glean/interprocess/cpp/worklist.cpp).  Every worker *)
(* owns one atomic 64-bit word that packs a range [start, end) of item     *)
(* indices.  A worker increments its own word to take the next item; when  *)
(* its range is exhausted it looks for the worker with the most items left *)
(* and steals the upper half of that range with a compare-and-swap.        *)
(*                                                                         *)
(* Every atomic operation of the code is one step here: the fetch_add, one *)
(* load per scanned worker, the compare-and-swap and the final store.      *)
(***************************************************************************)
EXTENDS Integers, FiniteSets

CONSTANTS
    size,       \* number of workers: the first word of the file
    WordSize,   \* 2^32 in the code: start and end are this wide
    Initial,    \* the ranges that stealingCounterSetup wrote to the file
    MaxEmpty    \* bound: how often a worker asks again after it got nothing

Workers == 0 .. size - 1

\* Counter::Value.
Value == [start : 0 .. WordSize - 1, end : 0 .. WordSize - 1]

\* Counter::Value::size and Counter::Value::empty.
Size(v) == IF v.start < v.end THEN v.end - v.start ELSE 0
Empty(v) == v.start >= v.end

\* The items a range stands for.
Items(v) == v.start .. v.end - 1
AllItems == UNION {Items(Initial[w]) : w \in Workers}

\* The ranges given to stealingCounterSetup are disjoint, and far enough below
\* the width of a half word that MaxEmpty further increments cannot carry.
ASSUME SizeAssumption == size \in Nat \ {0}
ASSUME WidthAssumption == WordSize \in Nat \ {0} /\ MaxEmpty \in Nat
ASSUME InitialAssumption ==
    /\ Initial \in [Workers -> Value]
    /\ \A w \in Workers : /\ Initial[w].start <= Initial[w].end
                          /\ Initial[w].end + MaxEmpty + 1 < WordSize
    /\ \A v, w \in Workers :
          v # w => Items(Initial[v]) \cap Items(Initial[w]) = {}

VARIABLES
    counters,   \* the shared words, unpacked
    pc,         \* where each worker is inside next()
    value,      \* local: the range next() is going to return
    other,      \* local: the best victim range seen by the scan
    victim,     \* local: the worker `other' was read from
    scan,       \* local: the worker the scan loads next
    empties,    \* how often next() returned an empty range to the worker
    taken       \* history: how often each item was handed out

vars == <<counters, pc, value, other, victim, scan, empties, taken>>

\* counters[worker].fetch_add(1): one addition on the packed word, so a start
\* that is all ones carries into end.
FetchAdd(v) ==
    IF v.start + 1 < WordSize
    THEN [start |-> v.start + 1, end |-> v.end]
    ELSE [start |-> 0, end |-> (v.end + 1) % WordSize]

\* The worker that the scan looks at after w.
After(w) == (w + 1) % size

\* stealingCounterSetup wrote Initial; every worker opens the file.
Init ==
    /\ counters = Initial
    /\ pc = [w \in Workers |-> "call"]
    /\ value = Initial
    /\ other = Initial
    /\ victim = [w \in Workers |-> w]
    /\ scan = [w \in Workers |-> w]
    /\ empties = [w \in Workers |-> 0]
    /\ taken = [i \in AllItems |-> 0]

\* next() starts: take an item of the own range if there is one.
TakeOwn(w) ==
    /\ pc[w] = "call"
    /\ empties[w] <= MaxEmpty
    /\ counters' = [counters EXCEPT ![w] = FetchAdd(@)]
    /\ victim' = [victim EXCEPT ![w] = w]
    /\ value' = [value EXCEPT ![w] = counters[w]]
    /\ IF Empty(counters[w])
       THEN /\ pc' = [pc EXCEPT ![w] = "scan"]
            /\ other' = [other EXCEPT ![w] = counters[w]]
            /\ scan' = [scan EXCEPT ![w] = After(w)]
            /\ UNCHANGED taken
       ELSE /\ taken' = [taken EXCEPT ![counters[w].start] = @ + 1]
            /\ UNCHANGED <<pc, other, scan>>
    /\ UNCHANGED empties

\* One load of the loop that looks for the worker with the most work.
ScanOne(w) ==
    LET x == counters[scan[w]] IN
    /\ pc[w] = "scan"
    /\ scan[w] # w
    /\ IF Size(x) > Size(other[w])
       THEN /\ other' = [other EXCEPT ![w] = x]
            /\ victim' = [victim EXCEPT ![w] = scan[w]]
       ELSE UNCHANGED <<other, victim>>
    /\ scan' = [scan EXCEPT ![w] = After(@)]
    /\ UNCHANGED <<counters, pc, value, empties, taken>>

\* Mutant: a worker that finds no work scans again.
GiveUpNever(w) ==
    /\ pc[w] = "scan"
    /\ scan[w] = w
    /\ Empty(other[w])
    /\ scan' = [scan EXCEPT ![w] = After(w)]
    /\ UNCHANGED <<counters, pc, value, other, victim, empties, taken>>

\* Nobody has work left: next() returns the empty range.
GiveUp(w) ==
    /\ pc[w] = "scan"
    /\ scan[w] = w
    /\ Empty(other[w])
    /\ pc' = [pc EXCEPT ![w] = "call"]
    /\ empties' = [empties EXCEPT ![w] = @ + 1]
    /\ UNCHANGED <<counters, value, other, victim, scan, taken>>

\* What the victim keeps of its range, and the half that is stolen.
Split(v) == v.start + Size(v) \div 2
Kept(v) == [start |-> v.start, end |-> Split(v)]
Stolen(v) == [start |-> Split(v), end |-> v.end]

\* Mutant: a store instead of the compare-and-swap.
StealBlind(w) ==
    /\ pc[w] = "scan"
    /\ scan[w] = w
    /\ ~Empty(other[w])
    /\ counters' = [counters EXCEPT ![victim[w]] = Kept(other[w])]
    /\ value' = [value EXCEPT ![w] = Stolen(other[w])]
    /\ pc' = [pc EXCEPT ![w] = "store"]
    /\ UNCHANGED <<other, victim, scan, empties, taken>>

\* The compare-and-swap on the victim's word.  When the word has changed since
\* it was loaded the whole scan starts again (victim keeps its old value).
StealHalf(w) ==
    /\ pc[w] = "scan"
    /\ scan[w] = w
    /\ ~Empty(other[w])
    /\ IF counters[victim[w]] = other[w]
       THEN /\ counters' = [counters EXCEPT ![victim[w]] = Kept(other[w])]
            /\ value' = [value EXCEPT ![w] = Stolen(other[w])]
            /\ pc' = [pc EXCEPT ![w] = "store"]
            /\ UNCHANGED <<other, scan>>
       ELSE /\ other' = [other EXCEPT ![w] = value[w]]
            /\ scan' = [scan EXCEPT ![w] = After(w)]
            /\ UNCHANGED <<counters, value, pc>>
    /\ UNCHANGED <<victim, empties, taken>>

\* Mutant: the rest of the stolen range isn't published.
StoreNothing(w) ==
    /\ pc[w] = "store"
    /\ taken' = [taken EXCEPT ![value[w].start] = @ + 1]
    /\ pc' = [pc EXCEPT ![w] = "call"]
    /\ UNCHANGED <<counters, value, other, victim, scan, empties>>

\* Publish what is left of the stolen range; next() returns its first item.
StoreOwn(w) ==
    /\ pc[w] = "store"
    /\ counters' = [counters EXCEPT ![w] =
                      [start |-> value[w].start + 1, end |-> value[w].end]]
    /\ taken' = [taken EXCEPT ![value[w].start] = @ + 1]
    /\ pc' = [pc EXCEPT ![w] = "call"]
    /\ UNCHANGED <<value, other, victim, scan, empties>>

Step(w) == \/ TakeOwn(w)
           \/ ScanOne(w)
           \/ GiveUp(w)
           \/ StealHalf(w)
           \/ StoreOwn(w)

Next == \E w \in Workers : Step(w)

Spec == Init /\ [][Next]_vars

\* Worker processes run independently and no step of next() blocks.
FairSpec == Spec /\ \A w \in Workers : WF_vars(Step(w))

-----------------------------------------------------------------------------
\* The items a worker is responsible for: those of its word, or, between the
\* compare-and-swap and the store, those it holds in `value'.
Held(w) == IF pc[w] = "store" THEN Items(value[w]) ELSE Items(counters[w])

\* Every variable has its type.
TypeOK ==
    /\ counters \in [Workers -> Value]
    /\ pc \in [Workers -> {"call", "scan", "store"}]
    /\ value \in [Workers -> Value]
    /\ other \in [Workers -> Value]
    /\ victim \in [Workers -> Workers]
    /\ scan \in [Workers -> Workers]
    /\ empties \in [Workers -> 0 .. MaxEmpty + 1]
    /\ taken \in [AllItems -> Nat]

\* No item is handed out twice, whatever the interleaving of increments, scans
\* and steals (the test Steal2 counts visits with one schedule).
AtMostOnce == \A i \in AllItems : taken[i] <= 1

\* No item is lost: one that was not handed out is in the range of some worker,
\* so it is still going to be processed.
NothingLost ==
    \A i \in AllItems : taken[i] = 0 <=> \E w \in Workers : i \in Held(w)

\* The ranges of different workers never overlap, not even between the
\* compare-and-swap and the store of a steal.
ExclusiveOwner ==
    \A v, w \in Workers : v # w => Held(v) \cap Held(w) = {}

\* The increments of a worker without work never carry from start into end.
NoCarry ==
    \A w \in Workers :
       /\ counters[w].start <= counters[w].end + empties[w]
                                 + (IF pc[w] = "call" THEN 0 ELSE 1)
       /\ counters[w].end + MaxEmpty + 1 < WordSize

\* The retry loop of next() ends: as long as workers keep asking, every item is
\* eventually handed out ...
AllHandedOut == <>[](\A i \in AllItems : taken[i] = 1)

\* ... and every worker is eventually told that there is no work left.
EveryoneStops == <>[](\A w \in Workers : pc[w] = "call" /\ empties[w] > MaxEmpty)

\* The loop around next() ends: everything is handed out and everyone is told.
WorkEnds == AllHandedOut /\ EveryoneStops

=============================================================================
