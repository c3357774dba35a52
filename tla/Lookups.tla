------------------------------- MODULE Lookups --------------------------------
(* Lookups built from one another, and what their iterators give: a database *)
(* or a fact set, under stacked fact sets, snapshots and slices.             *)
EXTENDS Iterators

CONSTANTS Clauses,   \* [type, key] of the facts
          StartId,   \* the first id
          MaxFacts,  \* bound on the facts
          MaxLayers  \* bound on the lookups on top of the first one

VARIABLES lookup,    \* the lookup
          layers     \* how many lookups it has on top of the first one

lookupVars == <<lookup, layers>>

FactWith(id, clause) == [id |-> id, type |-> clause.type, key |-> clause.key]
ClauseOf(f) == [type |-> f.type, key |-> f.key]

\* The clauses of all facts, also of those that a layer hides.
RECURSIVE Known(_)
Known(lk) ==
    CASE lk.kind \in {"set", "db"} -> {ClauseOf(f) : f \in lk.facts}
      [] lk.kind \in {"snapshot", "sliced"} -> Known(lk.base)
      [] lk.kind = "stacked" -> Known(lk.base) \cup Known(lk.top)

\* Facts added to a set or to a database.
With1(lk, clause) == [lk EXCEPT !.facts = @ \cup {FactWith(lk.next, clause)}, !.next = @ + 1]

\* define on a fact set, and on a stacked one, which defines in its top.
DefineFact(clause) ==
    /\ lookup.kind \in {"set", "db", "stacked"}
    /\ clause \notin Known(lookup)
    /\ Cardinality(Known(lookup)) < MaxFacts
    /\ lookup' = IF lookup.kind = "stacked"
                 THEN [lookup EXCEPT !.top = With1(@, clause), !.next = @ + 1]
                 ELSE With1(lookup, clause)
    /\ UNCHANGED layers

StackFactSet ==
    /\ layers < MaxLayers
    /\ layers' = layers + 1
    /\ lookup' = StackedOn(lookup, FactSet(lookup.next, {}))

TakeSnapshot(boundary) ==
    /\ layers < MaxLayers
    /\ layers' = layers + 1
    /\ lookup' = SnapshotOf(lookup, boundary)

TakeSlice(visible) ==
    /\ layers < MaxLayers
    /\ layers' = layers + 1
    /\ lookup' = SliceOf(lookup, visible)

LookupInit ==
    /\ layers = 0
    /\ lookup \in {FactSet(StartId, {}), Database(StartId, {})}

\* Ids to enumerate from and to: invalid, and up to the first one not in use.
Ends == {NoId} \cup (StartId - 1 .. lookup.next)

LookupNext ==
    \/ \E clause \in Clauses : DefineFact(clause)
    \/ StackFactSet
    \/ \E boundary \in StartId .. lookup.next : TakeSnapshot(boundary)
    \/ \E visible \in SUBSET (StartId .. lookup.next - 1) : TakeSlice(visible)

-----------------------------------------------------------------------------
(* Properties. *)

\* Everything that is left of an iterator.
RECURSIVE Rest(_)
Rest(it) ==
    With(Get(it), LAMBDA r :
        IF r.fact = NoFact THEN <<>> ELSE <<r.fact>> \o Rest(Advance(r.it)))

\* Layers of these kinds occur in the lookup.
RECURSIVE Has(_, _)
Has(lk, kinds) ==
    \/ lk.kind \in kinds
    \/ lk.kind \in {"snapshot", "sliced", "stacked"} /\ Has(lk.base, kinds)

\* Nothing was added to the first lookup.
Blank == layers = 0 /\ lookup.facts = {}

\* enumerate of every lookup gives the facts with ids in the range, in the
\* order of their ids, whatever is invalid, empty or past the end.
EnumerateRight ==
    ~Blank => \A from, upto \in Ends :
        Rest(Enumerate(lookup, from, upto)) = PromisedEnumerate(lookup, from, upto)

\* enumerateBack gives them in the opposite order.  Snapshots and slices do
\* not: they enumerate their base forwards.
EnumerateBackRight ==
    ~Blank /\ ~Has(lookup, {"snapshot", "sliced"}) =>
        \A from, downto \in Ends :
            Rest(EnumerateBack(lookup, from, downto)) = Reverse(PromisedEnumerate(lookup, downto, from))

\* seek gives the facts of the type whose keys have the prefix, from start on
\* and in the order of the keys.  A snapshot of a lookup with later facts does
\* not: its iterator ends at the first of them.
SeekRight ==
    ~Blank /\ ~Has(lookup, {"snapshot"}) =>
        \A type \in {c.type : c \in Clauses}, start \in {c.key : c \in Known(lookup)} \cup {<<>>, <<MaxByte>>} :
            \A prefix \in 0 .. Len(start) :
                Rest(Seek(lookup, type, start, prefix)) = PromisedSeek(lookup, type, start, prefix)

\* Stacks, snapshots and slices of fact sets give what Lookup promises, in both
\* directions and for every prefix, where they give it at all.
LookupsRight == EnumerateRight /\ EnumerateBackRight /\ SeekRight

=============================================================================
