------------------------------- MODULE Facts -------------------------------
(* Fact sets, stacked lookups, substitutions and the renaming of batches     *)
(* (glean/rts/factset, stacked, substitution, define).                       *)
(*                                                                           *)
(* A fact is a record of its predicate (type), its key and its value; the    *)
(* last two are clauses, i.e. an atom that stands for the encoded data and   *)
(* the ids of the facts that the data refers to.  A fact set is              *)
(* [start, facts] with the facts in the order of their ids.  A lookup that   *)
(* only answers questions (a database, a cache) is a function from ids to    *)
(* facts.                                                                    *)
EXTENDS Integers, Sequences, FiniteSetsExt, SequencesExt

CONSTANTS
    Predicates,   \* the inventory: the predicates of the schema
    RefTypes,     \* [Predicates -> [key: Seq(Predicates), val: Seq(Predicates)]]
    Lowest        \* Id::lowest(), FIRST_FREE_ID

Invalid == 0
NoType == "none"

Clause(atom, refs) == [atom |-> atom, refs |-> refs]
NoValue == Clause("unit", <<>>)
Fact(type, key, val) == [type |-> type, key |-> key, val |-> val]

-----------------------------------------------------------------------------
(* Lookups. *)

IdByKey(lookup, type, key) ==
    LET found == {id \in DOMAIN lookup : lookup[id].type = type /\ lookup[id].key = key}
    IN  IF found = {} THEN Invalid ELSE CHOOSE id \in found : TRUE

TypeById(lookup, id) ==
    IF id \in DOMAIN lookup THEN lookup[id].type ELSE NoType

FirstFreeIn(lookup) == IF DOMAIN lookup = {} THEN Lowest ELSE Max(DOMAIN lookup) + 1

\* The lookup without the facts from the boundary on.
Snapshot(lookup, boundary) == Restrict(lookup, {id \in DOMAIN lookup : id < boundary})

-----------------------------------------------------------------------------
(* Fact sets. *)

EmptySet(start) == [start |-> start, facts |-> <<>>]

FirstFreeId(fs) == fs.start + Len(fs.facts)

\* What the fact set answers as a lookup.
View(fs) == [id \in fs.start .. FirstFreeId(fs) - 1 |-> fs.facts[id - fs.start + 1]]

\* The number of facts before the first one with an id not less than id.
LowerBound(fs, id) ==
    IF id <= fs.start THEN 0 ELSE Min({id - fs.start, Len(fs.facts)})

\* define answers the id of the fact and the fact set after it; the id is
\* Invalid when the key is there with another value.
Define(fs, fact) ==
    LET old == IdByKey(View(fs), fact.type, fact.key)
    IN  IF old = Invalid
        THEN [id |-> FirstFreeId(fs), fs |-> [fs EXCEPT !.facts = Append(@, fact)]]
        ELSE [id |-> IF View(fs)[old].val = fact.val THEN old ELSE Invalid, fs |-> fs]

-----------------------------------------------------------------------------
(* A fact set stacked on a lookup.  Facts of the base with an id from the    *)
(* start of the fact set on are invisible.                                   *)

StackedTypeById(base, fs, id) ==
    IF id < fs.start THEN TypeById(base, id) ELSE TypeById(View(fs), id)

\* Mutant: what the base has is defined again.
StackedDefineBlind(base, fs, fact, maxRef) == Define(fs, fact)

\* maxRef is the largest id that the clause refers to, or Invalid if the
\* caller doesn't know it.  A clause that refers to a fact of the fact set
\* isn't looked up in the base.
StackedDefine(base, fs, fact, maxRef) ==
    LET id == IF maxRef < fs.start THEN IdByKey(base, fact.type, fact.key) ELSE Invalid
    IN  IF id # Invalid /\ id < fs.start
        THEN [id |-> IF fact.val = NoValue \/ base[id].val = fact.val THEN id ELSE Invalid,
              fs |-> fs]
        ELSE Define(fs, fact)

-----------------------------------------------------------------------------
(* Substitutions: the ids from base on are mapped to items, others to        *)
(* themselves.                                                               *)

Finish(subst) == subst.base + Len(subst.items)

Subst(subst, id) ==
    IF id >= subst.base /\ id < Finish(subst) THEN subst.items[id - subst.base + 1] ELSE id

\* Mutant: only the domain counts.
SubstFirstFreeDomain(subst) == Finish(subst)

\* The first id beyond the domain and the range of the substitution.
SubstFirstFreeId(subst) ==
    Max({Finish(subst)} \cup {subst.items[i] + 1 : i \in DOMAIN subst.items})

Compose(first, second) ==
    [first EXCEPT !.items = [i \in DOMAIN @ |->
        IF @[i] < Finish(second) THEN Subst(second, @[i]) ELSE @[i]]]

-----------------------------------------------------------------------------
(* Predicate::typecheck and substitute: a clause with its references         *)
(* renamed by ren, a function on the ids that it refers to.                  *)

RenameClause(ren, clause) ==
    [clause EXCEPT !.refs = [i \in DOMAIN @ |-> ren[@[i]]]]

RenameFact(ren, fact) ==
    [fact EXCEPT !.key = RenameClause(ren, @), !.val = RenameClause(ren, @)]

Refs(fact) == fact.key.refs \o fact.val.refs
TypesOfRefs(type) == RefTypes[type].key \o RefTypes[type].val

-----------------------------------------------------------------------------
(* defineUntrustedBatch on a fact set stacked on base: it defines the facts  *)
(* of the batch one after the other, with the references to earlier facts of *)
(* the batch replaced by the ids that these have got.  An error ends it.     *)
(* (Batches whose facts have names of their own come from JSON only.)        *)

StartRename(batch, next) ==
    [fs    |-> EmptySet(next),
     subst |-> [base |-> batch.start, items |-> [i \in DOMAIN batch.facts |-> Invalid]],
     done  |-> 0,
     error |-> FALSE]

\* The state of the renaming after one more fact.
DefineNext(base, r, fact) ==
    LET ren == [id \in ToSet(Refs(fact)) |-> Subst(r.subst, id)]
        new == RenameFact(ren, fact)
        types == TypesOfRefs(fact.type)
        wellTyped == /\ fact.type \in Predicates
                     /\ Len(Refs(new)) = Len(types)
                     /\ \A i \in DOMAIN types :
                           StackedTypeById(base, r.fs, Refs(new)[i]) = types[i]
        d == StackedDefine(base, r.fs, new, Max({Invalid} \cup ToSet(Refs(new))))
    IN  IF r.error \/ ~wellTyped \/ d.id = Invalid
        THEN [r EXCEPT !.error = TRUE]
        ELSE [fs    |-> d.fs,
              subst |-> [r.subst EXCEPT !.items[r.done + 1] = d.id],
              done  |-> r.done + 1,
              error |-> FALSE]

RenameFacts(base, batch, next) ==
    FoldLeft(LAMBDA r, fact : DefineNext(base, r, fact), StartRename(batch, next), batch.facts)

-----------------------------------------------------------------------------
(* FactSet::rebase splits a fact set along a substitution: the facts in its  *)
(* domain become global ones, the others get new ids behind all ids of the   *)
(* substitution.  It is CHECKed that no two of the others become equal.      *)

Rebase(fs, subst) ==
    LET newStart == SubstFirstFreeId(subst)
        ren == [id \in UNION {ToSet(Refs(fs.facts[i])) : i \in DOMAIN fs.facts} |->
                   IF id < Finish(subst) THEN Subst(subst, id)
                   ELSE id + (newStart - Finish(subst))]
        split == LowerBound(fs, Finish(subst))
        renamed == [i \in DOMAIN fs.facts |-> RenameFact(ren, fs.facts[i])]
        local == FoldLeft(LAMBDA l, fact : Define(l, fact).fs,
                          EmptySet(newStart), SubSeq(renamed, split + 1, Len(renamed)))
    IN  [global |-> {<<Subst(subst, fs.start + i - 1), renamed[i]>> : i \in 1 .. split},
         local  |-> local,
         checked |-> Len(local.facts) = Len(renamed) - split]
=============================================================================
