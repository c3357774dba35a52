------------------------------ MODULE TrieArray ------------------------------
(* The trie of ownership sets (glean/rts/ownership/triearray.h) and the two  *)
(* passes of computeOwnership that fill and flatten it.                      *)
(*                                                                           *)
(* trie maps the trees that are not forests, <<key, block>>, to what they    *)
(* hold: nothing, or a pointer to a Uset.  heap maps the pointers to         *)
(* [set, refs].  Sets of units are plain sets here (see SetU32).             *)
EXTENDS Ownership

CONSTANTS FANOUT_TOP, \* trees at the top, 65536
          FANOUT,     \* trees of a forest, 16
          BLOCK,      \* keys of a tree at the top, 65536
          Ranges,     \* what a unit may own: sequences of <<first, last>>
          Units,      \* the units, from 1
          MaxInserts  \* bound on the entries of the ownership log

ASSUME TrieAssumption ==
    /\ FANOUT > 1
    /\ \E n \in 1 .. BLOCK : BLOCK = FANOUT ^ n
    /\ \A ranges \in Ranges : \A i \in 2 .. Len(ranges) : ranges[i - 1][2] < ranges[i][1]

VARIABLES phase,       \* "fill", "collected", "flat"
          trie, heap,
          minkey_, maxkey_,
          facts,       \* the flattened trie
          log          \* history: the entries so far, as Ownership has them

trieVars == <<phase, trie, heap, minkey_, maxkey_, facts, log>>

NoUset == 0
Keys == 0 .. FANOUT_TOP * BLOCK - 1

KeysOf(tree) == tree[1] .. tree[1] + tree[2] - 1
TreesWith(ptr) == {tree \in DOMAIN trie : trie[tree] = ptr}

-----------------------------------------------------------------------------
(* insert. *)

\* A tree that is covered in part becomes a forest of copies of it.
Split(st, tree) ==
    LET block == tree[2] \div FANOUT
        parts == {<<tree[1] + i * block, block>> : i \in 0 .. FANOUT - 1}
        ptr == st.trie[tree]
    IN  [trie |-> [t \in (DOMAIN st.trie \ {tree}) \cup parts |->
                      IF t \in parts THEN ptr ELSE st.trie[t]],
         heap |-> IF ptr = NoUset THEN st.heap
                  ELSE [st.heap EXCEPT ![ptr].refs = @ + FANOUT - 1]]

\* The descent along a range, until every tree it meets is covered by it.
RECURSIVE Descend(_, _)
Descend(st, range) ==
    LET partly == {tree \in DOMAIN st.trie :
                     KeysOf(tree) \cap range # {} /\ ~(KeysOf(tree) \subseteq range)}
    IN  IF partly = {} THEN st
        ELSE Descend(Split(st, CHOOSE tree \in partly : TRUE), range)

\* The trees on the list of each value that insert collected.
Covered(st, keys) == {tree \in DOMAIN st.trie : KeysOf(tree) \subseteq keys}

NewPtr(h) == Min((1 .. Cardinality(DOMAIN h) + 1) \ DOMAIN h)

\* Mutant: a set is appended to in place whoever else refers to it.
GetUsetInPlace(h, ptr, unit) ==
    IF ptr = NoUset THEN <<NewPtr(h), Extend(h, NewPtr(h), [set |-> {unit}, refs |-> 1])>>
    ELSE <<ptr, [h EXCEPT ![ptr].set = @ \cup {unit}]>>

\* fillOwnership's get, with refs = 1: the value with the unit appended, in
\* place when nothing else refers to it.
GetUset(h, ptr, unit) ==
    IF ptr = NoUset THEN <<NewPtr(h), Extend(h, NewPtr(h), [set |-> {unit}, refs |-> 1])>>
    ELSE IF h[ptr].refs = 1 THEN <<ptr, [h EXCEPT ![ptr].set = @ \cup {unit}]>>
    ELSE <<NewPtr(h), Extend([h EXCEPT ![ptr].refs = @ - 1], NewPtr(h),
                             [set |-> h[ptr].set \cup {unit}, refs |-> 1])>>

\* unlink: every tree on the list gets the value that get answered.  The list
\* kept one reference to the old value.
Unlink(st, trees, ptr, unit) ==
    LET kept == IF ptr = NoUset THEN st.heap
                ELSE [st.heap EXCEPT ![ptr].refs = @ - (Cardinality(trees) - 1)]
        got == GetUset(kept, ptr, unit)
    IN  [trie |-> [t \in DOMAIN st.trie |-> IF t \in trees THEN got[1] ELSE st.trie[t]],
         heap |-> [got[2] EXCEPT ![got[1]].refs = @ + Cardinality(trees) - 1]]

InsertRanges(st, ranges, unit) ==
    LET Keyed(r) == r[1] .. r[2]
        keys == UNION {Keyed(ranges[i]) : i \in DOMAIN ranges}
        split == FoldLeft(LAMBDA s, r : Descend(s, Keyed(r)), st, ranges)
        covered == Covered(split, keys)
        ptrs == Ascending({split.trie[t] : t \in covered})
    IN  FoldLeft(LAMBDA s, ptr : Unlink(s, {t \in covered : split.trie[t] = ptr}, ptr, unit),
                 split, ptrs)

\* The next entry of the log: of the same unit again, or of a later one.
LastUnit == IF log = <<>> THEN 1 ELSE Max({k[1] : k \in DOMAIN log})

Insert(unit, ranges) ==
    /\ phase = "fill"
    /\ Cardinality(DOMAIN log) < MaxInserts
    /\ unit >= LastUnit
    /\ log' = Extend(log, <<unit, Cardinality(DOMAIN log)>>,
                     UNION {ranges[i][1] .. ranges[i][2] : i \in DOMAIN ranges})
    /\ \E st \in {InsertRanges([trie |-> trie, heap |-> heap], ranges, unit)} :
          trie' = st.trie /\ heap' = st.heap
    /\ minkey_' = IF ranges = <<>> THEN minkey_ ELSE Min({minkey_, Head(ranges)[1]})
    /\ maxkey_' = IF ranges = <<>> THEN maxkey_ ELSE Max({maxkey_, ranges[Len(ranges)][2]})
    /\ UNCHANGED <<phase, facts>>

-----------------------------------------------------------------------------
(* collectUsets and flatten. *)

\* The trees that hold a value, in the order of their keys.
Visits == LET trees == {t \in DOMAIN trie : trie[t] # NoUset}
              keys == Ascending({t[1] : t \in trees})
          IN  [i \in DOMAIN keys |-> CHOOSE t \in trees : t[1] = keys[i]]

\* Uset::drop
DropRef(h, ptr) ==
    IF h[ptr].refs = 1 THEN Restrict(h, DOMAIN h \ {ptr}) ELSE [h EXCEPT ![ptr].refs = @ - 1]

\* One call of collectUsets' function.  link caches what Usets::add answered,
\* and is the pointer itself for a set that was added.
Visit(st, tree) ==
    LET ptr == st.trie[tree]
        same == {p \in st.added : st.heap[p].set = st.heap[ptr].set}
        known == ptr \in DOMAIN st.link
        p == IF known THEN st.link[ptr] ELSE IF same = {} THEN ptr ELSE Min(same)
        used == IF known \/ same = {} THEN st.heap
                ELSE [st.heap EXCEPT ![p].refs = @ + st.heap[ptr].refs]
    IN  [trie |-> [st.trie EXCEPT ![tree] = p],
         heap |-> IF p = ptr THEN used ELSE DropRef(used, ptr),
         added |-> IF p = ptr THEN st.added \cup {ptr} ELSE st.added,
         link |-> Extend(st.link, ptr, p)]

Collect ==
    /\ phase = "fill"
    /\ phase' = "collected"
    /\ \E st \in {FoldLeft(Visit, [trie |-> trie, heap |-> heap, added |-> {}, link |-> <<>>], Visits)} :
          trie' = st.trie /\ heap' = st.heap
    /\ UNCHANGED <<minkey_, maxkey_, facts, log>>

\* Every key between the two bounds refers to the value of its tree.
Flatten ==
    /\ phase = "collected"
    /\ phase' = "flat"
    /\ facts' = [id \in minkey_ .. maxkey_ |-> trie[CHOOSE t \in DOMAIN trie : id \in KeysOf(t)]]
    /\ heap' = [ptr \in DOMAIN heap |->
                  [heap[ptr] EXCEPT !.refs = @ +
                     FoldSet(LAMBDA t, n : n + Cardinality(KeysOf(t) \cap (minkey_ .. maxkey_)) - 1,
                             0, TreesWith(ptr))]]
    /\ UNCHANGED <<trie, minkey_, maxkey_, log>>

TrieInit ==
    /\ phase = "fill"
    /\ trie = [tree \in {<<i * BLOCK, BLOCK>> : i \in 0 .. FANOUT_TOP - 1} |-> NoUset]
    /\ heap = <<>>
    /\ minkey_ = FANOUT_TOP * BLOCK /\ maxkey_ = 0
    /\ facts = <<>> /\ log = <<>>

TrieNext == Collect \/ Flatten \/ \E unit \in Units, ranges \in Ranges : Insert(unit, ranges)

-----------------------------------------------------------------------------
(* Properties. *)

\* The trees partition the keys, and as many trees refer to a set as it has
\* references: a set whose count is too low is changed or freed under the
\* trees that still refer to it.
TrieCounted ==
    /\ \A key \in Keys : Cardinality({t \in DOMAIN trie : key \in KeysOf(t)}) = 1
    /\ \A t \in DOMAIN trie : trie[t] \in DOMAIN heap \cup {NoUset}
    /\ phase # "flat" =>
          \A ptr \in DOMAIN heap : heap[ptr].refs = Cardinality(TreesWith(ptr)) /\ heap[ptr].refs > 0

\* Appending in place changes no other key: each key has the units of the
\* entries that name it.
TrieOwners ==
    \A t \in DOMAIN trie, key \in Keys : key \in KeysOf(t) =>
        {k[1] : k \in {e \in DOMAIN log : key \in log[e]}} =
            IF trie[t] = NoUset THEN {} ELSE heap[trie[t]].set

\* Filling, collecting and flattening the trie compute what StartCompletion of
\* Ownership says: the owners of every fact, each set once, and its references.
TrieImplements ==
    phase = "flat" =>
        LET SetOf(ptr) == IF ptr = NoUset THEN NoSet ELSE Or(heap[ptr].set)
            start == StartCompletion(log, minkey_)
        IN  /\ [id \in DOMAIN facts |-> SetOf(facts[id])] = start.facts
            /\ Cardinality({SetOf(ptr) : ptr \in DOMAIN heap}) = Cardinality(DOMAIN heap)
            /\ [exp \in {SetOf(ptr) : ptr \in DOMAIN heap} |->
                   [refs |-> heap[CHOOSE ptr \in DOMAIN heap : SetOf(ptr) = exp].refs, id |-> INVALID_USET]]
                 = start.usets.sets

\* The trie of owners shares sets without mixing them up: each set is counted as
\* often as it is used, every fact has the owners it was given, and the flat
\* result is the ownership that completion starts from.
TrieRight == TrieCounted /\ TrieOwners /\ TrieImplements

=============================================================================
