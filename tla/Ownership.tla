------------------------------ MODULE Ownership ------------------------------
(* Ownership of facts (glean/rts/ownership): the container of unique sets,   *)
(* the completion of the ownership that indexers report, the ownership of    *)
(* derived facts, and slices.                                                *)
(*                                                                           *)
(* A set expression is [op, set]; the members of the set are units and, from *)
(* the first set id on, other sets.  Usets, which stores every set once, is  *)
(* [sets, firstId, nextId] where sets maps an expression to the number of    *)
(* its references and to its id: a pointer to a Uset is the expression.      *)
EXTENDS Integers, FiniteSets, Sequences, FiniteSetsExt, SequencesExt, TLC

INVALID_USET == -1

Or(set) == [op |-> "or", set |-> set]
And(set) == [op |-> "and", set |-> set]

\* The pointer of a fact that no unit owns.
NoSet == Or({})

\* The elements of a set of integers in ascending order.
Ascending(S) == [i \in 1 .. Cardinality(S) |->
    CHOOSE x \in S : Cardinality({y \in S : y < x}) = i - 1]

Extend(f, x, y) == (x :> y) @@ f

-----------------------------------------------------------------------------
(* Usets. *)

NewUsets(first) == [sets |-> <<>>, firstId |-> first, nextId |-> first]

Stored(us, exp) == exp \in DOMAIN us.sets

Use(us, exp, n) == [us EXCEPT !.sets[exp].refs = @ + n]

Add(us, exp, refs) ==
    IF Stored(us, exp) THEN Use(us, exp, refs)
    ELSE [us EXCEPT !.sets = Extend(@, exp, [refs |-> refs, id |-> INVALID_USET])]

Drop(us, exp) ==
    IF us.sets[exp].refs = 1
    THEN [us EXCEPT !.sets = Restrict(@, DOMAIN @ \ {exp})]
    ELSE Use(us, exp, -1)

Promote(us, exp) ==
    IF us.sets[exp].id # INVALID_USET THEN us
    ELSE [us EXCEPT !.sets[exp] = [refs |-> @.refs + 1, id |-> us.nextId],
                    !.nextId = @ + 1]

\* The union of two sets; a set that includes the other one is used again.
Merged(left, right) == Or(left.set \cup right.set)
Merge(us, left, right) == Add(us, Merged(left, right), 1)

IdOf(us, exp) == IF exp = NoSet THEN INVALID_USET ELSE us.sets[exp].id

Lookup(us, exp) == IF Stored(us, exp) THEN us.sets[exp].id ELSE INVALID_USET

\* The promoted sets, by id.
Exported(us) ==
    [id \in us.firstId .. us.nextId - 1 |->
        CHOOSE exp \in DOMAIN us.sets : us.sets[exp].id = id]

-----------------------------------------------------------------------------
(* The ownership of the facts that were written with units.  The log maps    *)
(* <<unit, n>> to the ids that the n-th batch reported for the unit.         *)

NumUnits(log) == IF log = <<>> THEN 1 ELSE Max({k[1] : k \in DOMAIN log}) + 1

LoggedIds(log) == UNION {log[k] : k \in DOMAIN log}

\* The set of every id up to the largest one that is owned.
FillOwnership(log, lowest) ==
    [id \in IF LoggedIds(log) = {} THEN {} ELSE lowest .. Max(LoggedIds(log)) |->
        Or({k[1] : k \in {key \in DOMAIN log : id \in log[key]}})]

CollectUsets(numUnits, facts) ==
    LET found == {facts[id] : id \in DOMAIN facts} \ {NoSet}
        Users(exp) == Cardinality({id \in DOMAIN facts : facts[id] = exp})
    IN  [NewUsets(numUnits) EXCEPT
            !.sets = [exp \in found |-> [refs |-> Users(exp), id |-> INVALID_USET]]]

StartCompletion(log, lowest) ==
    LET facts == FillOwnership(log, lowest)
    IN  [facts |-> facts, usets |-> CollectUsets(NumUnits(log), facts)]

\* Add the owners in set to those of the fact id; st.link caches the unions
\* that were already computed for the fact that refers to id.
AddOwner(st, set, id) ==
    LET me == st.facts[id]
    IN  IF me = NoSet
        THEN [st EXCEPT !.facts[id] = set, !.usets = Use(@, set, 1)]
        ELSE IF me \in DOMAIN st.link
        THEN [st EXCEPT !.facts[id] = st.link[me],
                        !.usets = Drop(Use(@, st.link[me], 1), me)]
        ELSE [st EXCEPT !.facts[id] = Merged(me, set),
                        !.usets = Merge(@, me, set),
                        !.link = Extend(@, me, Merged(me, set)),
                        !.touched = Append(@, me)]

\* One fact of completeOwnership: its owners own what it refers to.
CompleteFact(own, id, refs) ==
    LET set == own.facts[id]
        started == [facts |-> own.facts, usets |-> Promote(own.usets, set),
                    link |-> <<>>, touched |-> <<>>]
        st == FoldLeft(LAMBDA s, ref : AddOwner(s, set, ref), started, refs)
    IN  IF set = NoSet THEN own
        ELSE [facts |-> st.facts, usets |-> FoldLeft(Drop, st.usets, st.touched)]

\* The ids where the owner changes, in a list of ids and their owners.
Intervals(ids, owner) ==
    LET Before(i) == IF i = 1 THEN INVALID_USET ELSE owner[ids[i - 1]]
        changes == {i \in DOMAIN ids : owner[ids[i]] # Before(i)}
    IN  [id \in {ids[i] : i \in changes} |-> owner[id]]

\* ComputedOwnership: the sets by id and the intervals.
Computed(us, ids, owner) == [sets |-> Exported(us), facts |-> Intervals(ids, owner)]

ComputeOwnership(own) ==
    LET owner == [id \in DOMAIN own.facts |-> IdOf(own.usets, own.facts[id])]
    IN  Computed(own.usets, Ascending(DOMAIN own.facts), owner)

-----------------------------------------------------------------------------
(* The ownership of derived facts.                                           *)

\* DefineOwnership: the ids and owners of one batch of derived facts, and the
\* sets that it needs which the database doesn't have.
NewDefine(us) == [ids |-> <<>>, owners |-> <<>>, usets |-> NewUsets(us.nextId), newSets |-> <<>>]

\* The fact id was derived from facts with the owners deps.
DerivedFrom(def, dbUsets, id, deps) ==
    LET exp == And(deps)
        isNew == Lookup(dbUsets, exp) = INVALID_USET /\ ~Stored(def.usets, exp)
        usets == IF isNew THEN Promote(Add(def.usets, exp, 0), exp) ELSE def.usets
        owner == IF Cardinality(deps) = 1 THEN Max(deps)
                 ELSE IF Stored(dbUsets, exp) THEN Lookup(dbUsets, exp)
                 ELSE Lookup(usets, exp)
    IN  IF deps = {} THEN def
        ELSE [ids |-> Append(def.ids, id), owners |-> Append(def.owners, owner),
              usets |-> IF Cardinality(deps) = 1 THEN def.usets ELSE usets,
              newSets |-> IF Cardinality(deps) > 1 /\ isNew THEN Append(def.newSets, exp)
                          ELSE def.newSets]

Renumber(subst, id) == IF id \in DOMAIN subst THEN subst[id] ELSE id


\* The sets of the batch with ids of the database: the container afterwards,
\* the sets to write, and the new ids of the old ones.
RebaseSets(dbUsets, def) ==
    LET Step(st, exp) ==
            LET new == [exp EXCEPT !.set = {Renumber(st.subst, e) : e \in @}]
                usets == IF Stored(st.usets, new) THEN st.usets
                         ELSE Promote(Add(st.usets, new, 0), new)
                id == Lookup(usets, new)
            IN  [usets |-> usets,
                 written |-> IF Stored(st.usets, new) THEN st.written
                             ELSE Extend(st.written, id, new),
                 subst |-> Extend(st.subst, Lookup(def.usets, exp), id)]
    IN  FoldLeft(Step, [usets |-> dbUsets, written |-> <<>>, subst |-> <<>>], def.newSets)

\* The log is a sequence of pairs of an id and an owner.  Only the first owner
\* of a fact gets into its set of owners.
ComputeDerivedOwnership(dbUsets, log) ==
    LET ids == {log[i][1] : i \in DOMAIN log}
        First(id) == log[Min({i \in DOMAIN log : log[i][1] = id})][2]
        ownerSets == [id \in ids |-> {First(id)}]
        Step(st, id) ==
            LET exp == Or(ownerSets[id])
                known == Lookup(dbUsets, exp)
                usets == IF known # INVALID_USET THEN st.usets
                         ELSE Promote(Add(st.usets, exp, 0), exp)
            IN  IF Cardinality(ownerSets[id]) = 1 THEN st
                ELSE [usets |-> usets,
                      owner |-> [st.owner EXCEPT ![id] =
                          IF known # INVALID_USET THEN known ELSE Lookup(usets, exp)]]
        st == FoldLeft(Step,
                  [usets |-> NewUsets(dbUsets.nextId), owner |-> [id \in ids |-> First(id)]],
                  Ascending(ids))
    IN  Computed(st.usets, Ascending(ids), st.owner)

-----------------------------------------------------------------------------
(* Slices.  A reader is a list of members in ascending order and a position  *)
(* in it: 0 before the first call, beyond the end when it is exhausted.      *)

Valid(list, pos) == pos \in DOMAIN list

SkipTo(list, pos, value) ==
    LET from == {p \in DOMAIN list : p >= pos /\ list[p] >= value}
    IN  IF from = {} THEN Len(list) + 1 ELSE Min(from)

\* Are the units of the list, which come before first, all in units?  Answers
\* with the position that the reader is left at.
IsSubset(list, units, first) ==
    LET outside == {p \in DOMAIN list : list[p] < first /\ list[p] \notin units}
    IN  IF outside = {} THEN [holds |-> TRUE, pos |-> SkipTo(list, 1, first)]
        ELSE [holds |-> FALSE, pos |-> Min(outside)]

EmptyIntersection(list, units) ==
    LET Step(r, unit) ==
            LET pos == IF list[r.pos] < unit THEN SkipTo(list, r.pos, unit) ELSE r.pos
            IN  IF ~r.holds \/ ~Valid(list, r.pos) THEN r
                ELSE [holds |-> ~Valid(list, pos) \/ list[pos] # unit, pos |-> pos]
    IN  FoldLeft(Step, [holds |-> TRUE, pos |-> SkipTo(list, 1, Min(units))], Ascending(units))

\* The sets in the list from the position on.
SetsFrom(list, pos, first) ==
    LET from == IF Valid(list, pos) /\ list[pos] < first THEN SkipTo(list, pos, first) ELSE pos
    IN  {list[p] : p \in {q \in DOMAIN list : q >= from}}

OrVisible(members, list, pos, first) == \E s \in SetsFrom(list, pos, first) : members[s]
AndVisible(members, list, pos, first) == \A s \in SetsFrom(list, pos, first) : members[s]

ExpVisible(members, exp, units, exclude, first) ==
    LET list == Ascending(exp.set)
        subset == IsSubset(list, units, first)
        disjoint == EmptyIntersection(list, units)
    IN  IF exp.op = "or"
        THEN IF exclude THEN ~subset.holds \/ OrVisible(members, list, subset.pos, first)
             ELSE ~disjoint.holds \/ OrVisible(members, list, disjoint.pos, first)
        ELSE IF exclude THEN disjoint.holds /\ AndVisible(members, list, disjoint.pos, first)
             ELSE subset.holds /\ AndVisible(members, list, subset.pos, first)

\* The slice of the sets: the ids of those that are visible when only the
\* units are included, or when they are excluded.
Slice(sets, units, exclude) ==
    LET ids == DOMAIN sets
        first == IF ids = {} THEN 0 ELSE Min(ids)
        all == IF ids = {} THEN {} ELSE first .. Max(ids)
        Step(members, id) ==
            [members EXCEPT ![id] = ExpVisible(members, sets[id], units, exclude, first)]
    IN  IF units = {} THEN [id \in all |-> exclude]
        ELSE FoldLeft(Step, [id \in all |-> FALSE], Ascending(ids))

Visible(members, uset) == uset # INVALID_USET /\ members[uset]

=============================================================================
