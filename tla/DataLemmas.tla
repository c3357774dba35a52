----------------------------- MODULE DataLemmas -----------------------------
(***************************************************************************)
(* What the proofs about the queues need of numbers, finite sets, sums and *)
(* sequences, whatever the component.                                      *)
(*                                                                         *)
(* The provers can't instantiate an induction theorem with a predicate, so *)
(* induction is stated here for the SET of the values that have a          *)
(* property, from the well-foundedness of < on the natural numbers.        *)
(***************************************************************************)
EXTENDS Integers, Sequences, FiniteSets, FiniteSetsExt, FiniteSetTheorems,
        Lists, TLAPS

\* A set of natural numbers that is not empty has a least element.
LEMMA LeastNatural ==
    ASSUME NEW T \in SUBSET Nat, T # {}
    PROVE  \E m \in T : \A k \in T : m <= k
<1> DEFINE R == OpToRel(<, Nat)
<1>1. IsWellFoundedOn(R, Nat) BY ZenonT(30), NatLessThanWellFounded
<1>2. \A a, b \in Nat : <<a, b>> \in R <=> a < b BY DEF OpToRel
<1> HIDE DEF R
<1>3. PICK m \in T : \A y \in T : ~ (<<y, m>> \in R) BY ZenonT(30), <1>1, WFMin
<1>4. \A k \in T : m <= k
  <2> TAKE k \in T
  <2>1. k \in Nat /\ m \in Nat OBVIOUS
  <2>2. ~ (k < m) BY ZenonT(30), <1>2, <1>3, <2>1
  <2> QED BY <2>1, <2>2
<1> QED BY <1>4

\* Induction over the natural numbers, for the set of those that have a property.
LEMMA NaturalInduction ==
    ASSUME NEW P \in SUBSET Nat, 0 \in P, \A n \in P : n + 1 \in P
    PROVE  \A n \in Nat : n \in P
<1> SUFFICES ASSUME Nat \ P # {} PROVE FALSE OBVIOUS
<1>1. PICK m \in Nat \ P : \A k \in Nat \ P : m <= k BY ZenonT(30), LeastNatural
<1>2. m # 0 /\ m - 1 \in Nat OBVIOUS
<1>3. m - 1 \in P BY <1>1, <1>2
<1> QED BY <1>1, <1>2, <1>3

\* Induction over finite sets, for the set of those that have a property.
LEMMA FiniteInduction ==
    ASSUME NEW S, IsFiniteSet(S), NEW P, {} \in P,
           \A T \in SUBSET S : T \in P => \A x \in S \ T : T \cup {x} \in P
    PROVE  S \in P
<1> DEFINE N == {n \in Nat : \A T \in SUBSET S : Cardinality(T) = n => T \in P}
<1>1. \A T \in SUBSET S : IsFiniteSet(T) /\ Cardinality(T) \in Nat BY FS_Subset, FS_CardinalityType
<1>2. 0 \in N BY ZenonT(30), <1>1, FS_EmptySet
<1>3. ASSUME NEW n \in N PROVE n + 1 \in N
  <2> SUFFICES ASSUME NEW T \in SUBSET S, Cardinality(T) = n + 1 PROVE T \in P OBVIOUS
  <2>1. PICK x : x \in T BY FS_EmptySet
  <2>2. Cardinality(T \ {x}) = n BY <1>1, <2>1, FS_RemoveElement
  <2>3. T \ {x} \in P BY <2>2
  <2>4. T = (T \ {x}) \cup {x} BY <2>1
  <2>5. x \in S \ (T \ {x}) BY <2>1
  <2> QED BY <2>3, <2>4, <2>5
<1> HIDE DEF N
<1>4. Cardinality(S) \in N BY ZenonT(30), <1>1, <1>2, <1>3, NaturalInduction DEF N
<1> QED BY <1>4 DEF N
\* A finite set without one of its elements.
LEMMA OneLess ==
    ASSUME NEW T, IsFiniteSet(T), NEW c \in T, NEW n \in Nat, Cardinality(T) = n + 1
    PROVE  Cardinality(T \ {c}) = n
BY FS_RemoveElement

\* A set whose elements are all equal has at most one.
LEMMA AtMostOne ==
    ASSUME NEW S, \A x, y \in S : x = y
    PROVE  Cardinality(S) = IF S = {} THEN 0 ELSE 1
<1>1. CASE S = {}
  BY <1>1, FS_EmptySet
<1>2. CASE S # {}
  <2>1. PICK x : S = {x} BY <1>2
  <2>2. Cardinality({x}) = 1 BY FS_Singleton
  <2> QED BY <1>2, <2>1, <2>2
<1> QED BY <1>1, <1>2

-----------------------------------------------------------------------------
(* Sums.  A sum is the fold over the set with an arbitrary order.          *)

\* What the fold takes from s, one step of it on a family of sets, and the
\* function that it defines for the subsets of S.
Pick(s) == CHOOSE x \in s : TRUE
Unfold(w, D, g) == [s \in D |-> IF s = {} THEN 0 ELSE w[Pick(s)] + g[s \ {Pick(s)}]]
Iter(w, S) == CHOOSE g : g = Unfold(w, SUBSET S, g)

\* The sum is what the fold of the community modules gives for the whole set.
LEMMA SumIter == \A w, S : SumOf(w, S) = Iter(w, S)[S]
BY DEF SumOf, MapThenSumSet, MapThenFoldSet, Iter, Unfold, Pick

\* The fold takes elements of the set.
LEMMA PickIn == \A s : s # {} => Pick(s) \in s
BY DEF Pick

\* The recursive function of the fold exists for a finite set.
LEMMA IterExists ==
    ASSUME NEW w, NEW S, IsFiniteSet(S)
    PROVE  Iter(w, S) = Unfold(w, SUBSET S, Iter(w, S))
<1> DEFINE Sub(n) == {s \in SUBSET S : Cardinality(s) <= n}
           N == {n \in Nat : \E g : g = Unfold(w, Sub(n), g)}
<1>1. \A T \in SUBSET S : IsFiniteSet(T) /\ Cardinality(T) \in Nat BY FS_Subset, FS_CardinalityType
<1>2. \A n \in Nat : \A s \in Sub(n + 1) : s # {} => s \ {Pick(s)} \in Sub(n)
  BY <1>1, PickIn, FS_RemoveElement
<1>3. 0 \in N
  <2> DEFINE g == [s \in Sub(0) |-> 0]
  <2>1. \A s \in Sub(0) : s = {} BY <1>1, FS_EmptySet
  <2>2. g = Unfold(w, Sub(0), g) BY <2>1 DEF Unfold
  <2> QED BY <2>2
<1>4. ASSUME NEW n \in N PROVE n + 1 \in N
  <2>1. PICK g : g = Unfold(w, Sub(n), g) OBVIOUS
  <2> DEFINE h == Unfold(w, Sub(n + 1), g)
  <2>2. \A s \in Sub(n) : s \in Sub(n + 1) BY <1>1
  <2>3. \A s \in Sub(n) : h[s] = g[s] BY ZenonT(30), <2>1, <2>2 DEF Unfold
  <2>4. h = Unfold(w, Sub(n + 1), h) BY ZenonT(30), <2>3, <1>2 DEF Unfold
  <2> HIDE DEF h
  <2>5. \E f : f = Unfold(w, Sub(n + 1), f) BY ZenonT(30), <2>4
  <2> HIDE DEF Sub
  <2>6. n + 1 \in Nat OBVIOUS
  <2> QED BY <2>5, <2>6
<1>5. Cardinality(S) \in N
  <2> HIDE DEF N
  <2> QED BY ZenonT(30), <1>1, <1>3, <1>4, NaturalInduction DEF N
<1>6. Sub(Cardinality(S)) = SUBSET S BY FS_Subset
<1>7. PICK g : g = Unfold(w, SUBSET S, g) BY <1>5, <1>6
<1> QED BY ZenonT(30), <1>7 DEF Iter

\* What the fold does in one step.
LEMMA IterStep ==
    ASSUME NEW w, NEW S, IsFiniteSet(S)
    PROVE  /\ Iter(w, S)[{}] = 0
           /\ \A s \in SUBSET S : s # {} =>
                 Pick(s) \in s /\ Iter(w, S)[s] = w[Pick(s)] + Iter(w, S)[s \ {Pick(s)}]
<1> DEFINE I == Iter(w, S)
<1>1. I = Unfold(w, SUBSET S, I) BY IterExists
<1> HIDE DEF I
<1>2. \A s \in SUBSET S : I[s] = IF s = {} THEN 0 ELSE w[Pick(s)] + I[s \ {Pick(s)}]
  BY ZenonT(30), <1>1 DEF Unfold
<1>3. {} \in SUBSET S OBVIOUS
<1>4. I[{}] = 0 BY <1>2, <1>3
<1> QED BY <1>2, <1>4, PickIn DEF I

\* The fold gives natural numbers.
LEMMA IterType ==
    ASSUME NEW D, NEW w \in [D -> Nat], NEW S \in SUBSET D, IsFiniteSet(S)
    PROVE  \A s \in SUBSET S : Iter(w, S)[s] \in Nat
<1> DEFINE I == Iter(w, S)
           N == {n \in Nat : \A s \in SUBSET S : Cardinality(s) = n => I[s] \in Nat}
<1>1. \A T \in SUBSET S : IsFiniteSet(T) /\ Cardinality(T) \in Nat BY FS_Subset, FS_CardinalityType
<1>a. I[{}] = 0 BY IterStep
<1>b. \A s \in SUBSET S : s # {} => Pick(s) \in s /\ I[s] = w[Pick(s)] + I[s \ {Pick(s)}] BY IterStep
<1> HIDE DEF I
<1>2. 0 \in N
  <2>1. \A s \in SUBSET S : Cardinality(s) = 0 => s = {} BY <1>1, FS_EmptySet
  <2> QED BY <1>a, <2>1
<1>3. ASSUME NEW n \in N PROVE n + 1 \in N
  <2> SUFFICES ASSUME NEW s \in SUBSET S, Cardinality(s) = n + 1 PROVE I[s] \in Nat OBVIOUS
  <2>1. n \in Nat /\ \A t \in SUBSET S : Cardinality(t) = n => I[t] \in Nat OBVIOUS
  <2>a. n \in Nat BY <2>1
  <2> HIDE DEF N
  <2>2. s # {} BY <2>a, FS_EmptySet
  <2>3. PICK c \in s : I[s] = w[c] + I[s \ {c}] BY ZenonT(30), <1>b, <2>2
  <2>4. Cardinality(s \ {c}) = n BY <1>1, <2>a, OneLess
  <2>5. I[s \ {c}] \in Nat BY <2>1, <2>4
  <2>6. w[c] \in Nat OBVIOUS
  <2> QED BY <2>3, <2>5, <2>6
<1> HIDE DEF N
<1>4. \A n \in Nat : n \in N BY ZenonT(30), <1>2, <1>3, NaturalInduction DEF N
<1> QED BY <1>1, <1>4 DEF N, I

\* The order in which the fold takes the elements does not matter.
LEMMA IterRemove ==
    ASSUME NEW D, NEW w \in [D -> Nat], NEW S \in SUBSET D, IsFiniteSet(S)
    PROVE  \A s \in SUBSET S : \A x \in s : Iter(w, S)[s] = w[x] + Iter(w, S)[s \ {x}]
<1> DEFINE I == Iter(w, S)
           N == {n \in Nat : \A s \in SUBSET S : Cardinality(s) = n => \A x \in s : I[s] = w[x] + I[s \ {x}]}
<1>1. \A T \in SUBSET S : IsFiniteSet(T) /\ Cardinality(T) \in Nat BY FS_Subset, FS_CardinalityType
<1>b. \A s \in SUBSET S : s # {} => Pick(s) \in s /\ I[s] = w[Pick(s)] + I[s \ {Pick(s)}] BY IterStep
<1>c. \A s \in SUBSET S : I[s] \in Nat BY IterType
<1> HIDE DEF I
<1>2. 0 \in N BY <1>1, FS_EmptySet
<1>3. ASSUME NEW n \in N PROVE n + 1 \in N
  <2> SUFFICES ASSUME NEW s \in SUBSET S, Cardinality(s) = n + 1, NEW x \in s
               PROVE I[s] = w[x] + I[s \ {x}] OBVIOUS
  <2>1. n \in Nat OBVIOUS
  <2>0. PICK c \in s : I[s] = w[c] + I[s \ {c}] BY ZenonT(30), <1>b
  <2>2. CASE x = c BY <2>0, <2>2
  <2>3. CASE x # c
    <3>1. Cardinality(s \ {c}) = n /\ Cardinality(s \ {x}) = n
      <4> HIDE DEF N
      <4> QED BY <1>1, <2>1, FS_RemoveElement
    <3>2. I[s \ {c}] = w[x] + I[(s \ {c}) \ {x}] BY <2>3, <3>1
    <3>3. I[s \ {x}] = w[c] + I[(s \ {x}) \ {c}] BY <2>3, <3>1
    <3>4. (s \ {c}) \ {x} = (s \ {x}) \ {c} OBVIOUS
    <3>5. I[(s \ {c}) \ {x}] \in Nat BY <1>c
    <3>6. w[x] \in Nat /\ w[c] \in Nat OBVIOUS
    <3> HIDE DEF N
    <3> QED BY <2>0, <3>2, <3>3, <3>4, <3>5, <3>6
  <2> QED BY <2>2, <2>3
<1> HIDE DEF N
<1>4. \A n \in Nat : n \in N BY ZenonT(30), <1>2, <1>3, NaturalInduction DEF N
<1> QED BY ZenonT(30), <1>1, <1>4 DEF N, I

\* Nor does the set of which s is a part.
LEMMA IterAgrees ==
    ASSUME NEW D, NEW w \in [D -> Nat], NEW S \in SUBSET D, IsFiniteSet(S), NEW T \in SUBSET S
    PROVE  Iter(w, T)[T] = Iter(w, S)[T]
<1> DEFINE P == {s \in SUBSET T : Iter(w, T)[s] = Iter(w, S)[s]}
<1>1. IsFiniteSet(T) BY FS_Subset
<1>2. {} \in P BY <1>1, IterStep
<1>3. ASSUME NEW s \in SUBSET T, s \in P, NEW x \in T \ s PROVE s \cup {x} \in P
  <2>1. (s \cup {x}) \ {x} = s OBVIOUS
  <2>a. s \cup {x} \in SUBSET T /\ s \cup {x} \in SUBSET S /\ x \in s \cup {x} OBVIOUS
  <2>b. T \in SUBSET D OBVIOUS
  <2>c. Iter(w, T)[s \cup {x}] = w[x] + Iter(w, T)[(s \cup {x}) \ {x}] BY <1>1, <2>a, <2>b, IterRemove
  <2>d. Iter(w, S)[s \cup {x}] = w[x] + Iter(w, S)[(s \cup {x}) \ {x}] BY <2>a, IterRemove
  <2>2. Iter(w, T)[s \cup {x}] = w[x] + Iter(w, T)[s] BY ZenonT(30), <2>c, <2>1
  <2>3. Iter(w, S)[s \cup {x}] = w[x] + Iter(w, S)[s] BY <2>d, <2>1
  <2> QED BY <1>3, <2>2, <2>3
<1> HIDE DEF P
<1>4. T \in P BY ZenonT(30), <1>1, <1>2, <1>3, FiniteInduction
<1> QED BY <1>4 DEF P

\* Nothing adds up to 0.
LEMMA SumEmpty == \A w : SumOf(w, {}) = 0
BY SumIter, IterStep, FS_EmptySet

\* A sum of natural numbers is one.
LEMMA SumType ==
    ASSUME NEW D, NEW w \in [D -> Nat], NEW S \in SUBSET D, IsFiniteSet(S)
    PROVE  SumOf(w, S) \in Nat
BY SumIter, IterType

\* One more element adds its weight.
LEMMA SumAdd ==
    ASSUME NEW D, NEW w \in [D -> Nat], NEW S \in SUBSET D, IsFiniteSet(S), NEW x \in D \ S
    PROVE  SumOf(w, S \cup {x}) = SumOf(w, S) + w[x]
<1> DEFINE T == S \cup {x}
<1>1. IsFiniteSet(T) BY FS_AddElement
<1>2. T \ {x} = S OBVIOUS
<1>3. Iter(w, T)[T] = w[x] + Iter(w, T)[S] BY <1>1, <1>2, IterRemove
<1>4. Iter(w, T)[S] = Iter(w, S)[S] BY <1>1, IterAgrees
<1>5. Iter(w, S)[S] \in Nat BY IterType
<1> QED BY <1>3, <1>4, <1>5, SumIter

\* One element less takes its weight away.
LEMMA SumRemove ==
    ASSUME NEW D, NEW w \in [D -> Nat], NEW S \in SUBSET D, IsFiniteSet(S), NEW x \in S
    PROVE  SumOf(w, S \ {x}) = SumOf(w, S) - w[x]
<1> DEFINE T == S \ {x}
<1>1. IsFiniteSet(T) BY FS_RemoveElement
<1>2. S = T \cup {x} /\ x \notin T OBVIOUS
<1>3. SumOf(w, T) \in Nat /\ w[x] \in Nat BY <1>1, SumType
<1> HIDE DEF T
<1>4. SumOf(w, T \cup {x}) = SumOf(w, T) + w[x] BY <1>1, <1>2, SumAdd
<1>5. \A a, b \in Nat : (a + b) - b = a OBVIOUS
<1>6. SumOf(w, S) = SumOf(w, T) + w[x] BY <1>2, <1>4
<1>7. SumOf(w, T) = SumOf(w, S) - w[x] BY <1>3, <1>5, <1>6
<1> QED BY <1>7 DEF T

\* The sum over two sets that have nothing in common.
LEMMA SumUnion ==
    ASSUME NEW D, NEW w \in [D -> Nat], NEW S \in SUBSET D, IsFiniteSet(S),
           NEW T \in SUBSET D, IsFiniteSet(T), S \cap T = {}
    PROVE  SumOf(w, S \cup T) = SumOf(w, S) + SumOf(w, T)
<1> DEFINE P == {U \in SUBSET T : SumOf(w, S \cup U) = SumOf(w, S) + SumOf(w, U)}
<1>1. SumOf(w, S) \in Nat BY SumType
<1>2. {} \in P
  <2>1. S \cup {} = S OBVIOUS
  <2> QED BY <1>1, <2>1, SumEmpty
<1>3. ASSUME NEW U \in SUBSET T, U \in P, NEW x \in T \ U PROVE U \cup {x} \in P
  <2>1. IsFiniteSet(U) /\ IsFiniteSet(S \cup U) BY ZenonT(30), FS_Subset, FS_Union
  <2>2. S \cup (U \cup {x}) = (S \cup U) \cup {x} OBVIOUS
  <2>3. x \notin S \cup U /\ x \notin U OBVIOUS
  <2>a. S \cup U \in SUBSET D /\ x \in D \ (S \cup U) OBVIOUS
  <2>4. SumOf(w, (S \cup U) \cup {x}) = SumOf(w, S \cup U) + w[x]
    <3> DEFINE V == S \cup U
    <3>1. V \in SUBSET D /\ x \in D \ V /\ IsFiniteSet(V) BY <2>1, <2>a
    <3> HIDE DEF V
    <3>2. SumOf(w, V \cup {x}) = SumOf(w, V) + w[x] BY <3>1, SumAdd
    <3> QED BY <3>2 DEF V
  <2>5. SumOf(w, U \cup {x}) = SumOf(w, U) + w[x] BY <2>1, <2>3, SumAdd
  <2>6. SumOf(w, U) \in Nat /\ w[x] \in Nat BY <2>1, SumType
  <2>7. SumOf(w, S \cup U) = SumOf(w, S) + SumOf(w, U) BY <1>3
  <2>8. SumOf(w, S \cup (U \cup {x})) = SumOf(w, S) + SumOf(w, U \cup {x})
    <3>1. \A a, b, c \in Nat : (a + b) + c = a + (b + c) OBVIOUS
    <3>2. (SumOf(w, S) + SumOf(w, U)) + w[x] = SumOf(w, S) + (SumOf(w, U) + w[x]) BY <1>1, <2>6, <3>1
    <3> HIDE DEF P
    <3> QED BY <2>2, <2>4, <2>5, <2>7, <3>2
  <2> QED BY <2>8
<1> HIDE DEF P
<1>4. T \in P BY ZenonT(30), <1>2, <1>3, FiniteInduction
<1> QED BY <1>4 DEF P

-----------------------------------------------------------------------------
(* Sequences.                                                              *)

\* No element occurs twice.
Distinct(s) == \A i, k \in 1 .. Len(s) : s[i] = s[k] => i = k

\* x occurs in s.
Occurs(x, s) == \E i \in 1 .. Len(s) : s[i] = x

\* The sequence without its element k, starting behind it.
Rotated(s, k) == SubSeq(s, k + 1, Len(s)) \o SubSeq(s, 1, k - 1)

\* What a sequence is.
LEMMA SeqFacts ==
    ASSUME NEW S, NEW s \in Seq(S)
    PROVE  /\ Len(s) \in Nat /\ s \in [1 .. Len(s) -> S] /\ DOMAIN s = 1 .. Len(s)
           /\ s # << >> => Len(s) \in Nat \ {0}
           /\ s \o << >> = s
           /\ << >> \in Seq(S) /\ Len(<< >>) = 0
OBVIOUS

\* What concatenating gives.
LEMMA ConcatFacts ==
    ASSUME NEW S, NEW a \in Seq(S), NEW b \in Seq(S)
    PROVE  /\ a \o b \in Seq(S) /\ Len(a \o b) = Len(a) + Len(b)
           /\ \A i \in 1 .. Len(a) + Len(b) :
                 (a \o b)[i] = IF i <= Len(a) THEN a[i] ELSE b[i - Len(a)]
OBVIOUS

\* Appending is concatenating.
LEMMA AppendIsConcat ==
    ASSUME NEW S, NEW s \in Seq(S), NEW x \in S
    PROVE  Append(s, x) = s \o <<x>>
OBVIOUS

\* Append: the element is at the end, and the rest is where it was.
LEMMA AppendFacts ==
    ASSUME NEW S, NEW s \in Seq(S), NEW x \in S
    PROVE  /\ Append(s, x) \in Seq(S) /\ Append(s, x) # <<>>
           /\ Len(Append(s, x)) = Len(s) + 1
           /\ \A i \in 1 .. Len(s) : Append(s, x)[i] = s[i]
           /\ Append(s, x)[Len(s) + 1] = x
           /\ \A y : Occurs(y, Append(s, x)) <=> Occurs(y, s) \/ y = x
           /\ Distinct(s) /\ ~Occurs(x, s) => Distinct(Append(s, x))
BY DEF Occurs, Distinct

\* Head and Tail: what was at i + 1 is at i.
LEMMA TailFacts ==
    ASSUME NEW S, NEW s \in Seq(S), s # <<>>
    PROVE  /\ Len(s) > 0 /\ Head(s) = s[1] /\ Head(s) \in S
           /\ Tail(s) \in Seq(S) /\ Len(Tail(s)) = Len(s) - 1
           /\ \A i \in 1 .. Len(s) - 1 : Tail(s)[i] = s[i + 1]
           /\ \A y : Occurs(y, s) <=> Occurs(y, Tail(s)) \/ y = Head(s)
           /\ Distinct(s) => Distinct(Tail(s)) /\ ~Occurs(Head(s), Tail(s))
<1>1. /\ Len(s) > 0 /\ Head(s) = s[1] /\ Head(s) \in S
      /\ Tail(s) \in Seq(S) /\ Len(Tail(s)) = Len(s) - 1
      /\ \A i \in 1 .. Len(s) - 1 : Tail(s)[i] = s[i + 1]
  OBVIOUS
<1>2. \A i \in 2 .. Len(s) : s[i] = Tail(s)[i - 1]
  BY <1>1
<1>3. ASSUME NEW y PROVE Occurs(y, s) <=> Occurs(y, Tail(s)) \/ y = Head(s)
  <2>1. ASSUME NEW i \in 1 .. Len(s), s[i] = y PROVE Occurs(y, Tail(s)) \/ y = Head(s)
    <3>1. CASE i = 1 BY <1>1, <2>1, <3>1
    <3>2. CASE i # 1
      <4>1. i - 1 \in 1 .. Len(Tail(s)) /\ Tail(s)[i - 1] = y BY <1>1, <1>2, <2>1, <3>2
      <4> QED BY ZenonT(30), <4>1 DEF Occurs
    <3> QED BY <3>1, <3>2
  <2>2. ASSUME NEW i \in 1 .. Len(Tail(s)), Tail(s)[i] = y PROVE Occurs(y, s)
    <3>1. i + 1 \in 1 .. Len(s) /\ s[i + 1] = y BY <1>1, <2>2
    <3> QED BY <3>1 DEF Occurs
  <2>3. Occurs(Head(s), s) BY <1>1 DEF Occurs
  <2> QED BY <2>1, <2>2, <2>3 DEF Occurs
<1>4. ASSUME Distinct(s) PROVE Distinct(Tail(s)) /\ ~Occurs(Head(s), Tail(s))
  <2>1. ASSUME NEW i \in 1 .. Len(Tail(s)), NEW k \in 1 .. Len(Tail(s)), Tail(s)[i] = Tail(s)[k]
        PROVE  i = k
    <3>1. i + 1 \in 1 .. Len(s) /\ k + 1 \in 1 .. Len(s) /\ s[i + 1] = s[k + 1] BY <1>1, <2>1
    <3>2. i + 1 = k + 1 BY <1>4, <3>1 DEF Distinct
    <3> QED BY <1>1, <3>2
  <2>2. ASSUME NEW i \in 1 .. Len(Tail(s)), Tail(s)[i] = Head(s) PROVE FALSE
    <3>1. i + 1 \in 1 .. Len(s) /\ 1 \in 1 .. Len(s) /\ s[i + 1] = s[1] BY <1>1, <2>2
    <3>2. i + 1 = 1 BY <1>4, <3>1 DEF Distinct
    <3> QED BY <1>1, <3>2
  <2> QED BY <2>1, <2>2 DEF Distinct, Occurs
<1> QED BY <1>1, <1>3, <1>4

\* Rotated: everything but element k, each once.
LEMMA RotatedFacts ==
    ASSUME NEW S, NEW s \in Seq(S), NEW k \in 1 .. Len(s), Distinct(s)
    PROVE  /\ Rotated(s, k) \in Seq(S)
           /\ Distinct(Rotated(s, k))
           /\ \A y : Occurs(y, Rotated(s, k)) <=> Occurs(y, s) /\ y # s[k]
<1> DEFINE n == Len(s)
           a == SubSeq(s, k + 1, n)
           b == SubSeq(s, 1, k - 1)
           t == a \o b
           From(i) == IF i <= n - k THEN i + k ELSE i - (n - k)
<1>1. n \in Nat /\ k \in Nat /\ k <= n /\ k >= 1 /\ \A i \in 1 .. n : s[i] \in S
  OBVIOUS
<1>2. /\ a \in Seq(S) /\ Len(a) = n - k
      /\ \A i \in 1 .. n - k : a[i] = s[i + k]
  <2>1. \A i \in (k + 1) .. n : s[i] \in S BY <1>1
  <2>2. k + 1 \in Int /\ n \in Int BY <1>1
  <2>3. /\ a \in Seq(S) /\ Len(a) = IF k + 1 <= n THEN n - (k + 1) + 1 ELSE 0
        /\ \A i \in 1 .. n - (k + 1) + 1 : a[i] = s[(k + 1) + i - 1]
    BY <2>1, <2>2
  <2> QED BY <1>1, <2>3
<1>3. /\ b \in Seq(S) /\ Len(b) = k - 1
      /\ \A i \in 1 .. k - 1 : b[i] = s[i]
  <2>1. \A i \in 1 .. k - 1 : s[i] \in S BY <1>1
  <2>2. 1 \in Int /\ k - 1 \in Int BY <1>1
  <2>3. /\ b \in Seq(S) /\ Len(b) = IF 1 <= k - 1 THEN (k - 1) - 1 + 1 ELSE 0
        /\ \A i \in 1 .. (k - 1) - 1 + 1 : b[i] = s[1 + i - 1]
    BY <2>1, <2>2
  <2> QED BY <1>1, <2>3
<1> HIDE DEF a, b
<1>4. /\ t \in Seq(S) /\ Len(t) = n - 1
      /\ \A i \in 1 .. n - 1 : t[i] = s[From(i)]
  <2>1. /\ t \in Seq(S) /\ Len(t) = Len(a) + Len(b)
        /\ \A i \in 1 .. Len(a) + Len(b) : t[i] = IF i <= Len(a) THEN a[i] ELSE b[i - Len(a)]
    BY ZenonT(30), <1>2, <1>3, ConcatFacts
  <2> QED BY <1>1, <1>2, <1>3, <2>1
<1> HIDE DEF t
<1>5. \A i \in 1 .. n - 1 : From(i) \in 1 .. n /\ From(i) # k
  BY <1>1
<1>6. \A i, j \in 1 .. n - 1 : From(i) = From(j) => i = j
  BY <1>1
<1>7. \A j \in 1 .. n : j # k => \E i \in 1 .. n - 1 : From(i) = j
  <2> SUFFICES ASSUME NEW j \in 1 .. n, j # k PROVE \E i \in 1 .. n - 1 : From(i) = j OBVIOUS
  <2>1. CASE j > k
    <3>1. j - k \in 1 .. n - 1 /\ From(j - k) = j BY <1>1, <2>1
    <3> QED BY <3>1
  <2>2. CASE j < k
    <3>1. j + (n - k) \in 1 .. n - 1 /\ From(j + (n - k)) = j BY <1>1, <2>2
    <3> QED BY <3>1
  <2> QED BY <1>1, <2>1, <2>2
<1> HIDE DEF From
<1>8. Distinct(t)
  BY <1>4, <1>5, <1>6 DEF Distinct
<1>9. ASSUME NEW y PROVE Occurs(y, t) <=> Occurs(y, s) /\ y # s[k]
  <2>1. ASSUME Occurs(y, t) PROVE Occurs(y, s) /\ y # s[k]
    <3>1. PICK i \in 1 .. n - 1 : y = s[From(i)] BY <1>4, <2>1 DEF Occurs
    <3> QED BY <1>5, <3>1 DEF Occurs, Distinct
  <2>2. ASSUME Occurs(y, s), y # s[k] PROVE Occurs(y, t)
    <3>1. PICK j \in 1 .. n : s[j] = y BY <2>2 DEF Occurs
    <3>2. PICK i \in 1 .. n - 1 : From(i) = j BY <1>7, <2>2, <3>1
    <3> QED BY <1>4, <3>1, <3>2 DEF Occurs
  <2> QED BY <2>1, <2>2
<1> QED BY ZenonT(30), <1>4, <1>8, <1>9 DEF t, a, b, Rotated

-----------------------------------------------------------------------------
(* Loops: functions that are defined by recursion over 0 .. n.             *)

\* One round of a loop whose step i takes a value v to f[i][v].
Traversal(n, a, f, g) == [i \in 0 .. n |-> IF i = 0 THEN a ELSE f[i][g[i - 1]]]
HasTraversal(V, n, a, f) == \E g \in [0 .. n -> V] : g = Traversal(n, a, f, g)

\* The function exists, when every step gives a value of V.
LEMMA TraversalExists ==
    ASSUME NEW V, NEW n \in Nat, NEW a \in V, NEW f \in [1 .. n -> [V -> V]]
    PROVE  HasTraversal(V, n, a, f)
<1> DEFINE N == {m \in Nat : m <= n => \E g \in [0 .. m -> V] : g = Traversal(m, a, f, g)}
<1>1. 0 \in N
  <2> DEFINE g == [i \in 0 .. 0 |-> a]
  <2>1. g = Traversal(0, a, f, g) /\ g \in [0 .. 0 -> V] BY DEF Traversal
  <2> QED BY <2>1
<1>2. ASSUME NEW m \in N PROVE m + 1 \in N
  <2>0. m \in Nat /\ m + 1 \in Nat OBVIOUS
  <2> SUFFICES ASSUME m + 1 <= n PROVE \E g \in [0 .. m + 1 -> V] : g = Traversal(m + 1, a, f, g) BY <2>0
  <2>1. PICK g \in [0 .. m -> V] : g = Traversal(m, a, f, g) BY <2>0
  <2> DEFINE h == Traversal(m + 1, a, f, g)
  <2>2. /\ \A i \in 0 .. m : i \in 0 .. m + 1
        /\ \A i \in 0 .. m + 1 : i # 0 => i - 1 \in 0 .. m /\ i \in 1 .. n
    BY <2>0
  <2>3. \A i \in 0 .. m : h[i] = g[i] BY ZenonT(30), <2>1, <2>2 DEF Traversal
  <2>4. h = Traversal(m + 1, a, f, h) BY ZenonT(30), <2>2, <2>3 DEF Traversal
  <2>5. h \in [0 .. m + 1 -> V]
    <3>1. \A i \in 0 .. m + 1 : i # 0 => g[i - 1] \in V /\ f[i] \in [V -> V] BY <2>2
    <3> QED BY <3>1 DEF Traversal
  <2> HIDE DEF h
  <2> QED BY ZenonT(30), <2>4, <2>5
<1>3. n \in N
  <2> HIDE DEF N
  <2> QED BY ZenonT(30), <1>1, <1>2, NaturalInduction DEF N
<1> QED BY <1>3 DEF HasTraversal

\* One round of the loop of Without, and the function that it computes.
Keep(list, gone, g) ==
    [i \in 0 .. Len(list) |->
        IF i = 0 THEN <<>>
        ELSE IF list[i] \in gone THEN g[i - 1] ELSE Append(g[i - 1], list[i])]
Kept(list, gone) == CHOOSE g : g = Keep(list, gone, g)

\* It exists.
LEMMA KeptExists ==
    ASSUME NEW S, NEW list \in Seq(S), NEW gone
    PROVE  Kept(list, gone) = Keep(list, gone, Kept(list, gone))
<1> DEFINE n == Len(list)
           V == Seq(S)
           none == <<>>
           f == [i \in 1 .. n |-> [l \in V |-> IF list[i] \in gone THEN l ELSE Append(l, list[i])]]
<1>1. n \in Nat /\ none \in V /\ f \in [1 .. n -> [V -> V]] OBVIOUS
<1>2. /\ \A i \in 1 .. n : \A l \in V : f[i][l] = IF list[i] \in gone THEN l ELSE Append(l, list[i])
      /\ \A i \in 0 .. n : i # 0 => i \in 1 .. n /\ i - 1 \in 0 .. n
  OBVIOUS
<1> HIDE DEF f, V
<1> HIDE DEF n, none
<1>3. PICK g \in [0 .. n -> V] : g = Traversal(n, none, f, g)
  <2>1. HasTraversal(V, n, none, f) BY <1>1, TraversalExists
  <2> QED BY <2>1 DEF HasTraversal
<1>4. \A i \in 0 .. n : i # 0 => f[i][g[i - 1]] = IF list[i] \in gone THEN g[i - 1]
                                                  ELSE Append(g[i - 1], list[i])
  BY <1>2
<1>5. g = Keep(list, gone, g) BY ZenonT(30), <1>3, <1>4 DEF Traversal, Keep, n, none
<1> QED BY ZenonT(30), <1>5 DEF Kept

\* Without is what has been kept in the end.
LEMMA WithoutKept == \A list, gone : Without(list, gone) = Kept(list, gone)[Len(list)]
BY DEF Without, Kept, Keep

\* It has all the other elements, each once.
LEMMA WithoutFacts ==
    ASSUME NEW S, NEW list \in Seq(S), NEW gone, Distinct(list)
    PROVE  /\ Without(list, gone) \in Seq(S)
           /\ Distinct(Without(list, gone))
           /\ \A y : Occurs(y, Without(list, gone)) <=> Occurs(y, list) /\ y \notin gone
<1> DEFINE n == Len(list)
           k == Kept(list, gone)
           Before(y, i) == \E j \in 1 .. i : list[j] = y
           Good(i) == /\ k[i] \in Seq(S) /\ Distinct(k[i])
                      /\ \A y : Occurs(y, k[i]) <=> y \notin gone /\ Before(y, i)
           N == {i \in Nat : i <= n => Good(i)}
<1>1. n \in Nat /\ \A i \in 1 .. n : list[i] \in S OBVIOUS
<1>0. k = Keep(list, gone, k) BY <1>1, KeptExists
<1> HIDE DEF k, n
<1>2. \A i \in 0 .. n : k[i] = IF i = 0 THEN <<>>
                               ELSE IF list[i] \in gone THEN k[i - 1] ELSE Append(k[i - 1], list[i])
  BY ZenonT(30), <1>0 DEF Keep, n
<1>3. 0 \in N
  <2>1. k[0] = <<>> BY <1>1, <1>2
  <2>2. \A y : ~Before(y, 0) OBVIOUS
  <2>3. <<>> \in Seq(S) /\ Len(<<>>) = 0 OBVIOUS
  <2>4. Distinct(<<>>) /\ \A y : ~Occurs(y, <<>>) BY <2>3 DEF Distinct, Occurs
  <2> HIDE DEF Before
  <2>5. Good(0) BY <2>1, <2>2, <2>3, <2>4
  <2> QED BY <2>5
<1>4. ASSUME NEW i \in N PROVE i + 1 \in N
  <2> SUFFICES ASSUME i + 1 <= n PROVE Good(i + 1) OBVIOUS
  <2>1. i \in Nat /\ i + 1 \in 0 .. n /\ i + 1 # 0 /\ (i + 1) - 1 = i /\ i + 1 \in 1 .. n
    BY <1>1
  <2>2. Good(i) BY <1>1, <2>1
  <2>3. k[i + 1] = IF list[i + 1] \in gone THEN k[i] ELSE Append(k[i], list[i + 1])
    BY <1>2, <2>1
  <2>4. \A y : Before(y, i + 1) <=> Before(y, i) \/ y = list[i + 1]
    BY <2>1
  <2>5. ~Before(list[i + 1], i)
    BY <1>1, <2>1 DEF Distinct, n
  <2> HIDE DEF Before
  <2>6. CASE list[i + 1] \in gone
    BY <2>2, <2>3, <2>4, <2>6
  <2>7. CASE list[i + 1] \notin gone
    <3>1. ~Occurs(list[i + 1], k[i]) /\ list[i + 1] \in S BY <1>1, <2>1, <2>2, <2>5
    <3>2. k[i + 1] = Append(k[i], list[i + 1]) BY <2>3, <2>7
    <3>3. /\ k[i + 1] \in Seq(S) /\ Distinct(k[i + 1])
          /\ \A y : Occurs(y, k[i + 1]) <=> Occurs(y, k[i]) \/ y = list[i + 1]
      BY <2>2, <3>1, <3>2, AppendFacts
    <3> QED BY <2>2, <2>4, <2>7, <3>3
  <2> QED BY <2>6, <2>7
<1>5. n \in N
  <2> HIDE DEF N
  <2> QED BY ZenonT(30), <1>1, <1>3, <1>4, NaturalInduction DEF N
<1>6. Good(n) BY <1>1, <1>5
<1>7. \A y : Before(y, n) <=> Occurs(y, list) BY DEF Occurs, n
<1> QED BY <1>6, <1>7, WithoutKept DEF k, n

=============================================================================
