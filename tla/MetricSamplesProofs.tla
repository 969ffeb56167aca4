------------------------- MODULE MetricSamplesProofs -------------------------
(***************************************************************************)
(* For any endpoints, retention and number of bytes: what the charts show. *)
(***************************************************************************)
EXTENDS MetricSamples, FiniteSetTheorems, WellFoundedInduction, TLAPS

Pick(T) == CHOOSE x \in T : TRUE

IsIter(g, f, D) == g = [T \in D |-> IF T = {} THEN 0 ELSE At(f, Pick(T)) + g[T \ {Pick(T)}]]
Iter(f, S) == CHOOSE g : IsIter(g, f, SUBSET S)

LEMMA SumIsIter ==
    ASSUME NEW f, NEW S
    PROVE  Sum(f, S) = Iter(f, S)[S]
BY DEF Sum, MapThenSumSet, MapThenFoldSet, Iter, IsIter, Pick

-----------------------------------------------------------------------------
\* Induction over numbers and over the subsets of a finite set, for a property
\* that is given as the set of what has it.

LEMMA NumbersRule ==
    ASSUME NEW A, 0 \in A, \A n \in Nat : n \in A => n + 1 \in A
    PROVE  Nat \subseteq A
<1> DEFINE B == Nat \ A
<1>1. SUFFICES ASSUME B # {} PROVE FALSE
    OBVIOUS
<1>2. PICK n \in B : \A m \in B : ~(<<m, n>> \in OpToRel(<, Nat))
    <2>1. B \subseteq Nat /\ B # {}
        BY <1>1
    <2> HIDE DEF B
    <2>q. QED
        BY <2>1, WFMin, NatLessThanWellFounded
<1>3. \A m \in B : ~(m < n)
    BY <1>2 DEF OpToRel
<1>4. n # 0 /\ n - 1 \in Nat /\ n - 1 \notin B
    BY <1>3
<1>5. n - 1 \in A /\ (n - 1) + 1 = n
    BY <1>4
<1>q. QED
    BY <1>4, <1>5

LEMMA SubsetsRule ==
    ASSUME NEW S, IsFiniteSet(S), NEW A, {} \in A,
           \A T \in SUBSET S : T # {} /\ (\A x \in T : T \ {x} \in A) => T \in A
    PROVE  SUBSET S \subseteq A
<1> DEFINE N == {n \in Nat : \A T \in SUBSET S : Cardinality(T) = n => T \in A}
<1>0. \A T \in SUBSET S : IsFiniteSet(T) /\ Cardinality(T) \in Nat
    BY FS_Subset, FS_CardinalityType
<1>1. 0 \in N
    BY <1>0, FS_EmptySet
<1>2. ASSUME NEW n \in Nat, n \in N PROVE n + 1 \in N
    <2>1. SUFFICES ASSUME NEW T \in SUBSET S, Cardinality(T) = n + 1 PROVE T \in A
        OBVIOUS
    <2>2. T # {}
        <3>1. n + 1 # 0 /\ Cardinality({}) = 0
            BY FS_EmptySet
        <3>q. QED
            BY <3>1, <2>1
    <2>3. ASSUME NEW x \in T PROVE T \ {x} \in A
        <3>1. Cardinality(T \ {x}) = n /\ T \ {x} \in SUBSET S
            BY <1>0, <2>1, FS_RemoveElement
        <3>q. QED
            BY <3>1, <1>2
    <2>q. QED
        BY <2>2, <2>3
<1>3. Nat \subseteq N
    <2> HIDE DEF N
    <2>q. QED
        BY <1>1, <1>2, NumbersRule
<1>q. QED
    BY <1>0, <1>3

-----------------------------------------------------------------------------
\* Sums.  MapThenSumSet is a recursive function that a CHOOSE names: that there
\* is one has to be proved first.

LEMMA IterExists ==
    ASSUME NEW f, NEW S, IsFiniteSet(S)
    PROVE  \E g : IsIter(g, f, SUBSET S)
<1> DEFINE D(n) == {T \in SUBSET S : Cardinality(T) <= n}
           Body(g, T) == IF T = {} THEN 0 ELSE At(f, Pick(T)) + g[T \ {Pick(T)}]
           N == {n \in Nat : \E g : IsIter(g, f, D(n))}
<1>0. \A T \in SUBSET S : IsFiniteSet(T) /\ Cardinality(T) \in Nat
    BY FS_Subset, FS_CardinalityType
<1>1. 0 \in N
    <2>1. \A T \in D(0) : T = {}
        BY <1>0, FS_EmptySet
    <2> DEFINE g == [T \in D(0) |-> 0]
    <2>2. g = [T \in D(0) |-> Body(g, T)]
        BY <2>1
    <2>q. QED
        BY <2>2 DEF IsIter
<1>2. ASSUME NEW n \in Nat, n \in N PROVE n + 1 \in N
    <2>1. PICK h : h = [T \in D(n) |-> Body(h, T)]
        BY <1>2 DEF IsIter
    <2> DEFINE g == [T \in D(n + 1) |-> Body(h, T)]
    <2>2. ASSUME NEW T \in D(n + 1) PROVE Body(g, T) = Body(h, T)
        <3>1. CASE T = {}
            BY <3>1
        <3>2. CASE T # {}
            <4> DEFINE V == T \ {Pick(T)}
            <4>1. Pick(T) \in T
                BY <3>2 DEF Pick
            <4>2. V \in D(n) /\ V \in D(n + 1)
                BY <4>1, <1>0, FS_RemoveElement
            <4>3. g[V] = Body(h, V) /\ h[V] = Body(h, V)
                <5> HIDE DEF V
                <5>q. QED
                    BY <4>2, <2>1
            <4>q. QED
                BY <4>3
        <3>q. QED
            BY <3>1, <3>2
    <2>3. g = [T \in D(n + 1) |-> Body(g, T)]
        BY <2>2
    <2>4. IsIter(g, f, D(n + 1)) /\ n + 1 \in Nat
        <3> DEFINE E == D(n + 1)
        <3>1. g = [T \in E |-> IF T = {} THEN 0 ELSE At(f, Pick(T)) + g[T \ {Pick(T)}]]
            BY <2>3
        <3> HIDE DEF g, E
        <3>2. IsIter(g, f, E)
            BY <3>1 DEF IsIter
        <3>q. QED
            BY <3>2 DEF E
    <2> HIDE DEF g, D
    <2>q. QED
        BY <2>4
<1>3. Nat \subseteq N
    <2> HIDE DEF N
    <2>q. QED
        BY <1>1, <1>2, NumbersRule
<1>4. D(Cardinality(S)) = SUBSET S
    BY <1>0, FS_Subset
<1>q. QED
    BY <1>0, <1>3, <1>4

LEMMA IterFacts ==
    ASSUME NEW f, NEW S, IsFiniteSet(S)
    PROVE  /\ Iter(f, S)[{}] = 0
           /\ \A T \in SUBSET S : T # {} =>
                  Iter(f, S)[T] = At(f, Pick(T)) + Iter(f, S)[T \ {Pick(T)}]
<1>1. IsIter(Iter(f, S), f, SUBSET S)
    BY IterExists DEF Iter
<1> DEFINE g == Iter(f, S)
<1>2. g = [T \in SUBSET S |-> IF T = {} THEN 0 ELSE At(f, Pick(T)) + g[T \ {Pick(T)}]]
    BY <1>1 DEF IsIter
<1> HIDE DEF g
<1>3. g[{}] = 0
    BY <1>2
<1>4. \A T \in SUBSET S : T # {} => g[T] = At(f, Pick(T)) + g[T \ {Pick(T)}]
    BY <1>2
<1>q. QED
    BY <1>3, <1>4 DEF g

LEMMA IterOfPart ==
    ASSUME NEW f, NEW S, IsFiniteSet(S), NEW V \in SUBSET S
    PROVE  \A T \in SUBSET V : Iter(f, V)[T] = Iter(f, S)[T]
<1> DEFINE A == {T \in SUBSET V : Iter(f, V)[T] = Iter(f, S)[T]}
<1>0. IsFiniteSet(V)
    BY FS_Subset
<1>1. {} \in A
    BY <1>0, IterFacts
<1>2. ASSUME NEW T \in SUBSET V, T # {}, \A x \in T : T \ {x} \in A
      PROVE  T \in A
    <2>1. Pick(T) \in T
        BY <1>2 DEF Pick
    <2>2. Iter(f, V)[T \ {Pick(T)}] = Iter(f, S)[T \ {Pick(T)}]
        BY <1>2, <2>1
    <2>3. Iter(f, V)[T] = At(f, Pick(T)) + Iter(f, V)[T \ {Pick(T)}]
        BY <1>0, <1>2, IterFacts
    <2>4. Iter(f, S)[T] = At(f, Pick(T)) + Iter(f, S)[T \ {Pick(T)}]
        <3>1. T \in SUBSET S
            OBVIOUS
        <3>q. QED
            BY <3>1, <1>2, IterFacts
    <2>q. QED
        BY <2>2, <2>3, <2>4
<1>3. SUBSET V \subseteq A
    <2> HIDE DEF A
    <2>q. QED
        BY <1>0, <1>1, <1>2, SubsetsRule
<1>q. QED
    BY <1>3

LEMMA SumNone ==
    ASSUME NEW f
    PROVE  Sum(f, {}) = 0
BY SumIsIter, IterFacts, FS_EmptySet

LEMMA SumPick ==
    ASSUME NEW f, NEW S, IsFiniteSet(S), S # {}
    PROVE  Pick(S) \in S /\ Sum(f, S) = At(f, Pick(S)) + Sum(f, S \ {Pick(S)})
<1> DEFINE V == S \ {Pick(S)}
<1>1. Pick(S) \in S
    BY DEF Pick
<1>2. Sum(f, S) = At(f, Pick(S)) + Iter(f, S)[V]
    BY SumIsIter, IterFacts
<1>3. Sum(f, V) = Iter(f, V)[V]
    BY SumIsIter
<1>4. Iter(f, V)[V] = Iter(f, S)[V]
    <2>1. V \in SUBSET S /\ V \in SUBSET V
        OBVIOUS
    <2> HIDE DEF V
    <2>q. QED
        BY <2>1, IterOfPart
<1>q. QED
    BY <1>1, <1>2, <1>3, <1>4

\* The weights of a set are natural numbers.
Weighed(f, S) == \A x \in S : At(f, x) \in Nat

LEMMA SumType ==
    ASSUME NEW f, NEW S, IsFiniteSet(S), Weighed(f, S)
    PROVE  \A T \in SUBSET S : Sum(f, T) \in Nat
<1> DEFINE A == {T \in SUBSET S : Sum(f, T) \in Nat}
<1>1. {} \in A
    BY SumNone
<1>2. ASSUME NEW T \in SUBSET S, T # {}, \A x \in T : T \ {x} \in A
      PROVE  T \in A
    <2>1. IsFiniteSet(T)
        BY FS_Subset
    <2>2. Pick(T) \in T /\ Sum(f, T) = At(f, Pick(T)) + Sum(f, T \ {Pick(T)})
        BY <1>2, <2>1, SumPick
    <2>3. Sum(f, T \ {Pick(T)}) \in Nat /\ At(f, Pick(T)) \in Nat
        BY <1>2, <2>2 DEF Weighed
    <2>q. QED
        BY <2>2, <2>3
<1>3. SUBSET S \subseteq A
    <2> HIDE DEF A
    <2>q. QED
        BY <1>1, <1>2, SubsetsRule
<1>q. QED
    BY <1>3

\* Any element can be taken out of a sum.
LEMMA SumRemove ==
    ASSUME NEW f, NEW S, IsFiniteSet(S), Weighed(f, S)
    PROVE  \A T \in SUBSET S : \A x \in T : Sum(f, T) = At(f, x) + Sum(f, T \ {x})
<1> DEFINE A == {T \in SUBSET S : \A x \in T : Sum(f, T) = At(f, x) + Sum(f, T \ {x})}
<1>0. \A T \in SUBSET S : Sum(f, T) \in Nat /\ IsFiniteSet(T)
    BY SumType, FS_Subset
<1>1. {} \in A
    OBVIOUS
<1>2. ASSUME NEW T \in SUBSET S, T # {}, \A y \in T : T \ {y} \in A
      PROVE  T \in A
    <2>1. SUFFICES ASSUME NEW x \in T PROVE Sum(f, T) = At(f, x) + Sum(f, T \ {x})
        OBVIOUS
    <2> DEFINE p == Pick(T)
    <2>2. p \in T /\ Sum(f, T) = At(f, p) + Sum(f, T \ {p})
        BY <1>0, <1>2, SumPick
    <2> HIDE DEF p
    <2>3. CASE x = p
        BY <2>2, <2>3
    <2>4. CASE x # p
        <3>1. Sum(f, T \ {p}) = At(f, x) + Sum(f, (T \ {p}) \ {x})
            BY <1>2, <2>2, <2>4
        <3>2. Sum(f, T \ {x}) = At(f, p) + Sum(f, (T \ {x}) \ {p})
            BY <1>2, <2>2, <2>4
        <3>3. (T \ {p}) \ {x} = (T \ {x}) \ {p}
            OBVIOUS
        <3>4. /\ Sum(f, (T \ {x}) \ {p}) \in Nat
              /\ At(f, x) \in Nat /\ At(f, p) \in Nat
            BY <1>0, <2>2 DEF Weighed
        <3>q. QED
            BY <2>2, <3>1, <3>2, <3>3, <3>4
    <2>q. QED
        BY <2>3, <2>4
<1>3. SUBSET S \subseteq A
    <2> HIDE DEF A
    <2>q. QED
        BY <1>1, <1>2, SubsetsRule
<1>q. QED
    BY <1>3

\* A part weighs no more than the whole.
LEMMA SumOfPart ==
    ASSUME NEW f, NEW S, IsFiniteSet(S), Weighed(f, S), NEW V \in SUBSET S
    PROVE  Sum(f, V) <= Sum(f, S)
<1> DEFINE A == {T \in SUBSET S : Sum(f, T \cap V) <= Sum(f, T)}
<1>0. \A T \in SUBSET S : Sum(f, T) \in Nat /\ IsFiniteSet(T)
    BY SumType, FS_Subset
<1>1. {} \in A
    <2>1. {} \cap V = {}
        OBVIOUS
    <2>q. QED
        BY <2>1, <1>0
<1>2. ASSUME NEW T \in SUBSET S, T # {}, \A y \in T : T \ {y} \in A
      PROVE  T \in A
    <2>1. PICK x \in T : TRUE
        BY <1>2
    <2>2. Sum(f, T) = At(f, x) + Sum(f, T \ {x}) /\ At(f, x) \in Nat
        BY SumRemove DEF Weighed
    <2>3. Sum(f, (T \ {x}) \cap V) <= Sum(f, T \ {x})
        BY <1>2
    <2>4. /\ Sum(f, (T \ {x}) \cap V) \in Nat /\ Sum(f, T \ {x}) \in Nat
          /\ Sum(f, T \cap V) \in Nat
        BY <1>0
    <2>5. CASE x \in V
        <3>1. Sum(f, T \cap V) = At(f, x) + Sum(f, (T \cap V) \ {x})
            BY <2>5, SumRemove
        <3>2. (T \cap V) \ {x} = (T \ {x}) \cap V
            OBVIOUS
        <3>q. QED
            BY <2>2, <2>3, <2>4, <3>1, <3>2
    <2>6. CASE x \notin V
        <3>1. T \cap V = (T \ {x}) \cap V
            BY <2>6
        <3>q. QED
            BY <2>2, <2>3, <2>4, <3>1
    <2>q. QED
        BY <2>5, <2>6
<1>3. SUBSET S \subseteq A
    <2> HIDE DEF A
    <2>q. QED
        BY <1>1, <1>2, SubsetsRule
<1>4. S \cap V = V
    OBVIOUS
<1>q. QED
    BY <1>3, <1>4

\* What weighs nothing adds nothing.
LEMMA SumOfSupport ==
    ASSUME NEW f, NEW S, IsFiniteSet(S), Weighed(f, S), NEW L,
           \A x \in S : x \notin L => At(f, x) = 0
    PROVE  Sum(f, S) = Sum(f, S \cap L)
<1> DEFINE A == {T \in SUBSET S : Sum(f, T) = Sum(f, T \cap L)}
<1>1. {} \in A
    <2>1. {} \cap L = {}
        OBVIOUS
    <2>q. QED
        BY <2>1
<1>2. ASSUME NEW T \in SUBSET S, T # {}, \A x \in T : T \ {x} \in A
      PROVE  T \in A
    <2>1. PICK x \in T : TRUE
        BY <1>2
    <2>2. Sum(f, T) = At(f, x) + Sum(f, T \ {x}) /\ Sum(f, T \ {x}) \in Nat
        BY SumRemove, SumType
    <2>3. Sum(f, T \ {x}) = Sum(f, (T \ {x}) \cap L)
        BY <1>2
    <2>4. CASE x \in L
        <3>1. Sum(f, T \cap L) = At(f, x) + Sum(f, (T \cap L) \ {x})
            BY <2>4, SumRemove
        <3>2. (T \cap L) \ {x} = (T \ {x}) \cap L
            OBVIOUS
        <3>q. QED
            BY <2>2, <2>3, <3>1, <3>2
    <2>5. CASE x \notin L
        <3>1. T \cap L = (T \ {x}) \cap L /\ At(f, x) = 0
            BY <2>5
        <3>2. Sum(f, T) = Sum(f, T \ {x})
            BY <2>2, <3>1
        <3>q. QED
            BY <2>3, <3>1, <3>2
    <2>q. QED
        BY <2>4, <2>5
<1>3. SUBSET S \subseteq A
    <2> HIDE DEF A
    <2>q. QED
        BY <1>1, <1>2, SubsetsRule
<1>q. QED
    BY <1>3

\* What is no more at every place is no more in sum.
LEMMA SumOfTwo ==
    ASSUME NEW f, NEW g, NEW h, NEW S, IsFiniteSet(S),
           Weighed(f, S), Weighed(g, S), Weighed(h, S),
           \A x \in S : At(f, x) <= At(g, x) + At(h, x)
    PROVE  Sum(f, S) <= Sum(g, S) + Sum(h, S)
<1> DEFINE A == {T \in SUBSET S : Sum(f, T) <= Sum(g, T) + Sum(h, T)}
<1>0. \A T \in SUBSET S : Sum(f, T) \in Nat /\ Sum(g, T) \in Nat /\ Sum(h, T) \in Nat
    BY SumType
<1>1. {} \in A
    BY SumNone
<1>2. ASSUME NEW T \in SUBSET S, T # {}, \A y \in T : T \ {y} \in A
      PROVE  T \in A
    <2>1. PICK x \in T : TRUE
        BY <1>2
    <2>2. /\ Sum(f, T) = At(f, x) + Sum(f, T \ {x}) /\ At(f, x) \in Nat
          /\ Sum(g, T) = At(g, x) + Sum(g, T \ {x}) /\ At(g, x) \in Nat
          /\ Sum(h, T) = At(h, x) + Sum(h, T \ {x}) /\ At(h, x) \in Nat
        BY SumRemove DEF Weighed
    <2>3. Sum(f, T \ {x}) <= Sum(g, T \ {x}) + Sum(h, T \ {x})
        BY <1>2
    <2>4. Sum(f, T \ {x}) \in Nat /\ Sum(g, T \ {x}) \in Nat /\ Sum(h, T \ {x}) \in Nat
        BY <1>0
    <2>5. At(f, x) <= At(g, x) + At(h, x)
        OBVIOUS
    <2>q. QED
        BY <2>2, <2>3, <2>4, <2>5
<1>3. SUBSET S \subseteq A
    <2> HIDE DEF A
    <2>q. QED
        BY <1>1, <1>2, SubsetsRule
<1>q. QED
    BY <1>3

\* A sum does not change when every element takes another name.
LEMMA SumRenamed ==
    ASSUME NEW f, NEW g, NEW S, IsFiniteSet(S), Weighed(f, S), NEW h,
           \A x, y \in S : h[x] = h[y] => x = y,
           \A x \in S : At(g, h[x]) = At(f, x)
    PROVE  Sum(g, {h[x] : x \in S}) = Sum(f, S)
<1> DEFINE Image(T) == {h[x] : x \in T}
           A == {T \in SUBSET S : IsFiniteSet(Image(T)) /\ Sum(g, Image(T)) = Sum(f, T)}
<1>1. {} \in A
    <2>1. Image({}) = {}
        OBVIOUS
    <2>q. QED
        BY <2>1, SumNone, FS_EmptySet
<1>2. ASSUME NEW T \in SUBSET S, T # {}, \A y \in T : T \ {y} \in A
      PROVE  T \in A
    <2>1. PICK x \in T : TRUE
        BY <1>2
    <2>2. Image(T) = Image(T \ {x}) \cup {h[x]} /\ Image(T) \ {h[x]} = Image(T \ {x})
        OBVIOUS
    <2>3. IsFiniteSet(Image(T \ {x})) /\ Sum(g, Image(T \ {x})) = Sum(f, T \ {x})
        BY <1>2
    <2>4. IsFiniteSet(Image(T))
        BY <2>2, <2>3, FS_AddElement
    <2>5. Weighed(g, Image(T))
        BY DEF Weighed
    <2>6. Sum(g, Image(T)) = At(g, h[x]) + Sum(g, Image(T) \ {h[x]})
        <3>1. Image(T) \in SUBSET Image(T) /\ h[x] \in Image(T)
            OBVIOUS
        <3> HIDE DEF Image
        <3>q. QED
            BY <2>4, <2>5, <3>1, SumRemove
    <2>7. Sum(f, T) = At(f, x) + Sum(f, T \ {x})
        BY SumRemove
    <2>q. QED
        BY <2>2, <2>3, <2>4, <2>6, <2>7
<1>3. SUBSET S \subseteq A
    <2> HIDE DEF A
    <2>q. QED
        BY <1>1, <1>2, SubsetsRule
<1>q. QED
    BY <1>3

\* A sum depends on the weights of its elements only.
LEMMA SumAgrees ==
    ASSUME NEW f, NEW g, NEW S, IsFiniteSet(S), Weighed(f, S),
           \A x \in S : At(g, x) = At(f, x)
    PROVE  Sum(g, S) = Sum(f, S)
<1> DEFINE h == [x \in S |-> x]
<1>1. {h[x] : x \in S} = S
    OBVIOUS
<1>2. /\ \A x, y \in S : h[x] = h[y] => x = y
      /\ \A x \in S : At(g, h[x]) = At(f, x)
    OBVIOUS
<1> HIDE DEF h
<1>3. Sum(g, {h[x] : x \in S}) = Sum(f, S)
    BY <1>2, SumRenamed
<1>q. QED
    BY <1>1, <1>3

-----------------------------------------------------------------------------
\* The inductive invariant.

\* A table of samples does not grow without end: pruning follows every round,
\* unless a restart gets between the two.
Ages ==
    /\ IsFiniteSet(table)
    /\ \A r \in table : r.age <= Retention + (IF thread = "pruning" THEN 1 ELSE 0)
                                           + (IF restarted THEN 1 ELSE 0)

\* Nothing is known of an endpoint before it is created.
Origins ==
    /\ DOMAIN look \subseteq rows \cup deleted
    /\ DOMAIN previous \subseteq rows \cup deleted \cup {Overall}
    /\ DOMAIN points \subseteq rows \cup deleted \cup {Overall}
    /\ SamplesHaveEndpoints
    /\ \A e \in Endpoints \ (rows \cup deleted) : total[e] = 0

\* What this round and the next will add to the chart of e, as things stand.
Due(e) ==
    CASE thread = "listing" -> Sample(At(look, e), At(previous, e)) + Sample(total[e], At(look, e))
      [] thread = "storing" -> At(points, e) + Sample(total[e], At(previous, e))
      [] thread \in Dead -> 0
      [] OTHER -> Sample(total[e], At(previous, e))

\* The bytes are there for what is charted and for what is due, of every
\* endpoint whose own file was never disturbed.
Honest ==
    ~restarted =>
        \A e \in Endpoints \ (deleted \cup disturbed) : Charted(e) + Due(e) <= moved[e]

\* The noted sum is no less than the noted totals of the endpoints there are.
Parts ==
    /\ Sum(previous, rows) <= At(previous, Overall)
    /\ OverallWithinParts

IInv == TypeOK /\ Ages /\ Origins /\ Honest /\ Parts

-----------------------------------------------------------------------------
\* Samples and charts.

LEMMA AtType ==
    ASSUME NEW f, IsSamples(f)
    PROVE  \A c : At(f, c) \in Nat
BY DEF IsSamples, At

LEMMA NoneIsSamples == IsSamples(None) /\ DOMAIN None = {} /\ \A c : At(None, c) = 0
BY DEF IsSamples, None, At

LEMMA SampleFacts ==
    ASSUME NEW now \in Nat, NEW before \in Nat
    PROVE  /\ Sample(now, before) \in Nat
           /\ now <= Sample(now, before) + before
           /\ now <= before => Sample(now, before) = 0
           /\ before <= now => Sample(now, before) = now - before
BY DEF Sample

LEMMA SampleGrows ==
    ASSUME NEW now \in Nat, NEW before \in Nat
    PROVE  /\ Sample(now + 1, before) <= Sample(now, before) + 1
           /\ \A less \in 0..now : Sample(less, before) <= Sample(now, before)
BY DEF Sample

LEMMA ChartsFinite ==
    \A S \in SUBSET Charts : IsFiniteSet(S)
BY MetricsAssumption, FS_AddElement, FS_Subset DEF Charts

Samples == [age : Nat, chart : Endpoints, bytes : Nat]
Rows(t, e) == {r \in t : r.chart = e}
Chart(t, e) == Sum([r \in t |-> r.bytes], Rows(t, e))

LEMMA RowsFacts ==
    ASSUME NEW t, t \subseteq Samples, IsFiniteSet(t), NEW e
    PROVE  /\ IsFiniteSet(Rows(t, e)) /\ Rows(t, e) \subseteq t
           /\ \A r \in t : At([q \in t |-> q.bytes], r) = r.bytes /\ r.bytes \in Nat
           /\ Weighed([r \in t |-> r.bytes], Rows(t, e))
<1>1. Rows(t, e) \in SUBSET t
    BY DEF Rows
<1>2. \A r \in t : At([q \in t |-> q.bytes], r) = r.bytes /\ r.bytes \in Nat
    BY DEF At, Samples
<1>q. QED
    BY <1>1, <1>2, FS_Subset DEF Weighed

LEMMA ChartType ==
    ASSUME NEW t, t \subseteq Samples, IsFiniteSet(t), NEW e
    PROVE  Chart(t, e) \in Nat
<1> DEFINE S == Rows(t, e)
           f == [r \in t |-> r.bytes]
<1>1. IsFiniteSet(S) /\ Weighed(f, S) /\ S \in SUBSET S
    BY RowsFacts
<1> HIDE DEF S, f
<1>2. Sum(f, S) \in Nat
    BY <1>1, SumType
<1>q. QED
    BY <1>2 DEF Chart, S, f

\* What shows the bytes of fewer rows shows no more.
LEMMA ChartOfPart ==
    ASSUME NEW t, t \subseteq Samples, IsFiniteSet(t), NEW u \in SUBSET t, NEW e
    PROVE  Chart(u, e) <= Chart(t, e)
<1> DEFINE S == Rows(t, e)
           U == Rows(u, e)
           f == [r \in t |-> r.bytes]
           g == [r \in u |-> r.bytes]
<1>1. /\ IsFiniteSet(S) /\ Weighed(f, S) /\ U \in SUBSET S
      /\ IsFiniteSet(U) /\ Weighed(f, U)
    BY RowsFacts, FS_Subset DEF Rows, Weighed
<1>2. \A r \in U : At(g, r) = At(f, r)
    BY DEF At, Rows
<1> HIDE DEF S, U, f, g
<1>3. Sum(f, U) <= Sum(f, S)
    BY <1>1, SumOfPart
<1>4. Sum(g, U) = Sum(f, U)
    BY <1>1, <1>2, SumAgrees
<1>q. QED
    BY <1>3, <1>4 DEF Chart, S, U, f, g

LEMMA ChartOfNone ==
    ASSUME NEW t, NEW e, \A r \in t : r.chart # e
    PROVE  Chart(t, e) = 0
<1>1. Rows(t, e) = {}
    BY DEF Rows
<1>q. QED
    BY <1>1, SumNone DEF Chart

\* Rows that grow older show the same.
LEMMA ChartOfAged ==
    ASSUME NEW t, t \subseteq Samples, IsFiniteSet(t), NEW e
    PROVE  Chart({[r EXCEPT !.age = @ + 1] : r \in t}, e) = Chart(t, e)
<1> DEFINE u == {[r EXCEPT !.age = @ + 1] : r \in t}
           S == Rows(t, e)
           f == [r \in t |-> r.bytes]
           g == [r \in u |-> r.bytes]
           h == [r \in t |-> [r EXCEPT !.age = @ + 1]]
<1>1. IsFiniteSet(S) /\ Weighed(f, S) /\ S \subseteq t
    BY RowsFacts
<1>2. \A x \in t : h[x] \in u /\ h[x].bytes = x.bytes /\ h[x].chart = x.chart
                   /\ h[x].age = x.age + 1
    BY DEF Samples
<1>3. \A x, y \in S : h[x] = h[y] => x = y
    <2>1. SUFFICES ASSUME NEW x \in S, NEW y \in S, h[x] = h[y] PROVE x = y
        OBVIOUS
    <2>2. x \in Samples /\ y \in Samples /\ x \in t /\ y \in t
        BY <1>1
    <2>3. x.bytes = y.bytes /\ x.chart = y.chart /\ x.age + 1 = y.age + 1
        <3> HIDE DEF h, S
        <3>q. QED
            BY <2>1, <2>2, <1>2
    <2>4. x.age = y.age
        BY <2>2, <2>3 DEF Samples
    <2>q. QED
        BY <2>2, <2>3, <2>4 DEF Samples
<1>4. \A x \in S : At(g, h[x]) = At(f, x)
    BY <1>1, <1>2 DEF At
<1>5. Rows(u, e) = {h[x] : x \in S}
    <2>1. u = {h[x] : x \in t}
        OBVIOUS
    <2> HIDE DEF u, h
    <2>q. QED
        BY <2>1, <1>2 DEF Rows
<1> HIDE DEF S, f, g, h
<1>6. Sum(g, {h[x] : x \in S}) = Sum(f, S)
    BY <1>1, <1>3, <1>4, SumRenamed
<1>q. QED
    BY <1>5, <1>6 DEF Chart, S, f, g

\* One row more in a chart.
LEMMA ChartOfMore ==
    ASSUME NEW t, t \subseteq Samples, IsFiniteSet(t),
           NEW u, u \subseteq Samples, IsFiniteSet(u), NEW e,
           NEW r \in Samples, r \notin t, Rows(u, e) = {r}
    PROVE  Chart(t \cup u, e) = Chart(t, e) + r.bytes
<1> DEFINE w == t \cup u
           S == Rows(w, e)
           f == [q \in w |-> q.bytes]
           g == [q \in t |-> q.bytes]
<1>1. w \subseteq Samples /\ IsFiniteSet(w)
    BY FS_Union
<1>2. IsFiniteSet(S) /\ Weighed(f, S)
    <2> HIDE DEF w
    <2>q. QED
        BY <1>1, RowsFacts
<1>3. r \in S /\ S \ {r} = Rows(t, e)
    BY DEF Rows
<1>4. At(f, r) = r.bytes
    BY <1>3 DEF At, Rows
<1>5. \A q \in Rows(t, e) : At(f, q) = At(g, q)
    BY DEF At, Rows
<1>6. IsFiniteSet(Rows(t, e)) /\ Weighed(g, Rows(t, e))
    BY RowsFacts
<1>7. Chart(w, e) = Sum(f, S) /\ Chart(t, e) = Sum(g, Rows(t, e))
    BY DEF Chart
<1> HIDE DEF w, S, f, g
<1>8. Sum(f, S) = At(f, r) + Sum(f, S \ {r})
    <2>1. S \in SUBSET S
        OBVIOUS
    <2>q. QED
        BY <2>1, <1>2, <1>3, SumRemove
<1>9. Sum(f, Rows(t, e)) = Sum(g, Rows(t, e))
    BY <1>5, <1>6, SumAgrees
<1>10. Chart(t, e) \in Nat /\ r.bytes \in Nat
    BY ChartType DEF Samples
<1>11. Chart(w, e) = r.bytes + Chart(t, e)
    BY <1>3, <1>4, <1>7, <1>8, <1>9
<1>12. Chart(w, e) = Chart(t, e) + r.bytes
    BY <1>10, <1>11
<1>q. QED
    BY <1>12 DEF w

\* And none more.
LEMMA ChartOfOthers ==
    ASSUME NEW t, t \subseteq Samples, IsFiniteSet(t),
           NEW u, u \subseteq Samples, NEW e, Rows(u, e) = {}
    PROVE  Chart(t \cup u, e) = Chart(t, e)
<1> DEFINE S == Rows(t, e)
           f == [q \in t \cup u |-> q.bytes]
           g == [q \in t |-> q.bytes]
<1>1. Rows(t \cup u, e) = S
    BY DEF Rows
<1>2. \A q \in S : At(f, q) = At(g, q)
    BY DEF At, Rows
<1>3. IsFiniteSet(S) /\ Weighed(g, S)
    BY RowsFacts
<1>4. Chart(t \cup u, e) = Sum(f, Rows(t \cup u, e)) /\ Chart(t, e) = Sum(g, S)
    BY DEF Chart
<1> HIDE DEF S, f, g
<1>q. QED
    BY <1>1, <1>2, <1>3, <1>4, SumAgrees

LEMMA TableIsSamples ==
    ASSUME TypeOK
    PROVE  table \subseteq Samples
BY MetricsAssumption DEF TypeOK, Samples

LEMMA ChartedIsChart ==
    ASSUME NEW e
    PROVE  Charted(e) = Chart(table, e) /\ Charted(e)' = Chart(table', e)
BY DEF Charted, Chart, Rows

-----------------------------------------------------------------------------
\* Types.

\* The requests about logins leave the rest alone.
LoginStep == \E t \in Tokens : Login(t) \/ Expire(t) \/ Request(t) \/ Logout(t)
OnlyLogin == UNCHANGED <<rows, deleted, workerVars, metricVars, restarted>>

LEMMA LoginOnly ==
    ASSUME LoginStep
    PROVE  OnlyLogin
BY DEF LoginStep, OnlyLogin, Login, Expire, Request, Logout

LEMMA LoginType ==
    ASSUME TypeOK, [Next]_vars
    PROVE  login' \in [Tokens -> {"none", "live", "expired"}]
<1>0. login \in [Tokens -> {"none", "live", "expired"}]
    BY DEF TypeOK
<1>1. CASE login' = login
    BY <1>0, <1>1
<1>2. CASE Wake
    BY <1>0, <1>2 DEF Wake
<1>3. CASE Restart
    BY <1>3 DEF Restart
<1>4. CASE LoginStep
    BY <1>0, <1>4 DEF LoginStep, Login, Expire, Request, Logout
<1>q. QED
    BY <1>1, <1>2, <1>3, <1>4
    DEF Next, MetricsThread, Look, Count, Store, Prune, MoveBytes, SessionEnds, PublishLate, CreateEndpoint,
        DeleteEndpoint, LoginStep, vars

LEMMA MovedWithin ==
    ASSUME TypeOK, NEW e \in Endpoints
    PROVE  moved[e] <= Sum(moved, Endpoints) /\ Sum(moved, Endpoints) \in Nat
<1>1. IsFiniteSet(Endpoints) /\ MaxBytes \in Nat
    BY MetricsAssumption
<1>2. \A x \in Endpoints : At(moved, x) = moved[x] /\ moved[x] \in Nat
    BY <1>1 DEF TypeOK, At
<1>3. Weighed(moved, Endpoints)
    BY <1>2 DEF Weighed
<1>4. /\ Sum(moved, Endpoints) = moved[e] + Sum(moved, Endpoints \ {e})
      /\ Sum(moved, Endpoints \ {e}) \in Nat /\ Sum(moved, Endpoints) \in Nat
    <2>1. Endpoints \in SUBSET Endpoints /\ Endpoints \ {e} \in SUBSET Endpoints
        OBVIOUS
    <2>q. QED
        BY <2>1, <1>1, <1>2, <1>3, SumRemove, SumType
<1>q. QED
    BY <1>2, <1>4

LEMMA TotalsType ==
    ASSUME TypeOK
    PROVE  \A c \in Charts : Totals[c] \in Nat
<1>1. \A c : At(look, c) \in Nat
    BY AtType DEF TypeOK
<1>2. Sum(look, DOMAIN look) \in Nat
    <2>1. DOMAIN look \in SUBSET Charts
        BY DEF TypeOK, IsSamples
    <2>2. IsFiniteSet(DOMAIN look) /\ Weighed(look, DOMAIN look)
        BY <2>1, <1>1, ChartsFinite DEF Weighed
    <2>3. DOMAIN look \in SUBSET DOMAIN look
        OBVIOUS
    <2>q. QED
        BY <2>2, <2>3, SumType
<1>q. QED
    BY <1>1, <1>2 DEF Totals, Charts

LEMMA CountType ==
    ASSUME TypeOK, Count
    PROVE  IsSamples(points') /\ IsSamples(previous')
<1>0. /\ rows \subseteq Endpoints /\ IsSamples(previous)
      /\ rows \cup {Overall} \subseteq Charts
    BY DEF TypeOK, Charts
<1>1. \A c \in Charts : Totals[c] \in Nat /\ At(previous, c) \in Nat
    BY <1>0, TotalsType, AtType
<1>2. \A c \in Charts : Sample(Totals[c], At(previous, c)) \in Nat
    BY <1>1, SampleFacts
<1>3. IsSamples(points')
    <2>1. points' = [c \in rows \cup {Overall} |-> Sample(Totals[c], At(previous, c))]
        BY DEF Count
    <2> HIDE DEF Sample
    <2>q. QED
        BY <2>1, <1>0, <1>2 DEF IsSamples
<1>4. IsSamples(previous')
    <2>1. previous' = [c \in DOMAIN previous \cup rows \cup {Overall} |->
                          IF c \in rows \cup {Overall} THEN Totals[c] ELSE previous[c]]
        BY DEF Count
    <2>2. DOMAIN previous \subseteq Charts /\ \A c \in DOMAIN previous : previous[c] \in Nat
        BY <1>0 DEF IsSamples
    <2>q. QED
        BY <2>1, <2>2, <1>0, <1>1 DEF IsSamples
<1>q. QED
    BY <1>3, <1>4

LEMMA NewRowsFacts ==
    ASSUME TypeOK
    PROVE  /\ NewRows \subseteq [age : {0}, chart : Endpoints, bytes : Nat]
           /\ NewRows \subseteq Samples /\ IsFiniteSet(NewRows)
           /\ \A e \in Endpoints :
                  Rows(NewRows, e) = IF e \in DOMAIN points
                                       THEN {[age |-> 0, chart |-> e, bytes |-> points[e]]}
                                       ELSE {}
           /\ \A r \in NewRows : r.chart \in DOMAIN points
<1> DEFINE D == DOMAIN points \ {Overall}
           R(e) == [age |-> 0, chart |-> e, bytes |-> points[e]]
<1>0. D \subseteq Endpoints /\ (\A e \in D : points[e] \in Nat) /\ Overall \notin Endpoints
    BY MetricsAssumption DEF TypeOK, IsSamples, Charts
<1>1. NewRows = {R(e) : e \in D}
    BY DEF NewRows
<1>2. \A e \in D : R(e) \in [age : {0}, chart : Endpoints, bytes : Nat]
    BY <1>0
<1>3. IsFiniteSet(D)
    BY <1>0, ChartsFinite DEF Charts
<1>4. IsFiniteSet({R(e) : e \in D})
    <2> DEFINE f == [e \in D |-> R(e)]
    <2>1. f \in Surjection(D, {R(e) : e \in D})
        BY DEF Surjection
    <2> HIDE DEF f, D
    <2>q. QED
        BY <2>1, <1>3, FS_Surjection
<1>5. \A e \in Endpoints : Rows(NewRows, e) = IF e \in DOMAIN points THEN {R(e)} ELSE {}
    BY <1>0, <1>1 DEF Rows
<1>6. NewRows \subseteq [age : {0}, chart : Endpoints, bytes : Nat]
    BY <1>1, <1>2
<1>7. NewRows \subseteq Samples
    BY <1>6 DEF Samples
<1>8. \A r \in NewRows : r.chart \in DOMAIN points
    BY <1>1
<1>q. QED
    BY <1>1, <1>4, <1>5, <1>6, <1>7, <1>8

LEMMA AgedFacts ==
    ASSUME TypeOK, IsFiniteSet(table)
    PROVE  /\ IsFiniteSet(Aged) /\ Aged \subseteq Samples
           /\ \A r \in Aged : \E q \in table : r.age = q.age + 1 /\ r.chart = q.chart
<1> DEFINE h == [r \in table |-> [r EXCEPT !.age = @ + 1]]
<1>0. table \subseteq Samples
    BY TableIsSamples
<1>1. \A r \in table : h[r] \in Samples /\ h[r].age = r.age + 1 /\ h[r].chart = r.chart
    BY <1>0 DEF Samples
<1>2. Aged = {h[r] : r \in table}
    BY DEF Aged
<1>3. h \in Surjection(table, Aged)
    BY <1>2 DEF Surjection
<1> HIDE DEF h
<1>4. IsFiniteSet(Aged)
    BY <1>3, FS_Surjection
<1>q. QED
    BY <1>1, <1>2, <1>4

LEMMA TypeStep ==
    ASSUME TypeOK, Ages, Origins, [Next]_vars
    PROVE  TypeOK'
<1>0. /\ rows \subseteq Endpoints /\ deleted \subseteq Endpoints /\ rows \cap deleted = {}
      /\ total \in [Endpoints -> Nat] /\ moved \in [Endpoints -> 0..MaxBytes]
      /\ thread \in {"waiting", "looking", "listing", "storing", "pruning"} \cup Dead
      /\ IsSamples(look) /\ IsSamples(previous) /\ IsSamples(points)
      /\ table \subseteq [age : 0..(Retention + 2), chart : Endpoints, bytes : Nat]
      /\ disturbed \subseteq Endpoints /\ restarted \in BOOLEAN
      /\ MaxBytes \in Nat /\ Retention \in Nat
    BY MetricsAssumption DEF TypeOK
<1>00. login' \in [Tokens -> {"none", "live", "expired"}]
    BY LoginType
<1>1. CASE UNCHANGED vars
    BY <1>0, <1>00, <1>1 DEF TypeOK, vars, workerVars, metricVars
<1>2. CASE LoginStep
    BY <1>0, <1>00, <1>2, LoginOnly DEF TypeOK, OnlyLogin, workerVars, metricVars
<1>3. CASE Wake
    BY <1>0, <1>00, <1>3 DEF TypeOK, Wake, workerVars
<1>4. CASE Look
    <2>1. UNCHANGED <<rows, deleted, total, moved, previous, points, table, restarted>>
        BY <1>4 DEF Look, workerVars
    <2>2. /\ disturbed' \subseteq Endpoints
          /\ thread' \in {"listing", "unread"}
        <3>1. PICK torn \in SUBSET rows : disturbed' = disturbed \cup torn
            BY <1>4 DEF Look
        <3>2. disturbed' \subseteq Endpoints
            BY <3>1, <1>0
        <3>q. QED
            BY <3>2, <1>4 DEF Look
    <2>3. IsSamples(look')
        <3>1. CASE look' = look
            BY <3>1, <1>0
        <3>2. ASSUME NEW torn \in SUBSET rows,
                     look' = [e \in rows |-> IF e \in torn THEN 0 ELSE total[e]]
              PROVE  IsSamples(look')
            BY <3>2, <1>0 DEF IsSamples, Charts
        <3>q. QED
            BY <3>1, <3>2, <1>4 DEF Look
    <2>q. QED
        BY <2>1, <2>2, <2>3, <1>0, <1>00 DEF TypeOK, Dead
<1>5. CASE Count
    BY <1>0, <1>00, <1>5, CountType DEF TypeOK, Count, workerVars
<1>6. CASE Store
    <2>1. UNCHANGED <<rows, deleted, total, moved, look, previous, points, disturbed, restarted>>
        BY <1>6 DEF Store, workerVars
    <2>2. thread' \in {"pruning", "unstored"}
        BY <1>6 DEF Store
    <2>3. table' \subseteq [age : 0..(Retention + 2), chart : Endpoints, bytes : Nat]
        <3>1. CASE table' = table
            BY <3>1, <1>0
        <3>2. CASE table' = Aged \cup NewRows
            <4>1. \A r \in Aged : r.age \in 0..(Retention + 2)
                <5>1. \A q \in table : q.age <= Retention + 1 /\ q.age \in Nat
                    BY <1>0, <1>6 DEF Ages, Store
                <5>q. QED
                    BY <5>1, <1>0, AgedFacts DEF Ages
            <4>2. Aged \subseteq Samples
                BY AgedFacts DEF Ages
            <4>3. Aged \subseteq [age : 0..(Retention + 2), chart : Endpoints, bytes : Nat]
                BY <4>1, <4>2 DEF Samples
            <4>4. NewRows \subseteq [age : 0..(Retention + 2), chart : Endpoints, bytes : Nat]
                BY <1>0, NewRowsFacts
            <4>q. QED
                BY <3>2, <4>3, <4>4
        <3>q. QED
            BY <3>1, <3>2, <1>6 DEF Store
    <2>q. QED
        BY <2>1, <2>2, <2>3, <1>0, <1>00 DEF TypeOK, Dead
<1>7. CASE Prune
    <2>1. /\ UNCHANGED <<rows, deleted, total, moved, previous, disturbed, restarted>>
          /\ thread' \in {"waiting", "unread"} /\ look' = None /\ points' = None
          /\ table' \subseteq table
        BY <1>7 DEF Prune, workerVars
    <2>q. QED
        BY <2>1, <1>0, <1>00, NoneIsSamples DEF TypeOK, Dead
<1>8. ASSUME NEW e \in Endpoints, MoveBytes(e)
      PROVE  TypeOK'
    <2>1. /\ UNCHANGED <<rows, deleted, thread, look, previous, points, table, disturbed, restarted>>
          /\ total' = [total EXCEPT ![e] = @ + 1]
          /\ moved' = [moved EXCEPT ![e] = @ + 1] /\ Sum(moved, Endpoints) < MaxBytes
        BY <1>8 DEF MoveBytes, metricVars
    <2>2. moved[e] + 1 \in 0..MaxBytes /\ total[e] + 1 \in Nat
        BY <2>1, <1>0, MovedWithin
    <2>3. moved' \in [Endpoints -> 0..MaxBytes] /\ total' \in [Endpoints -> Nat]
        BY <2>1, <2>2, <1>0
    <2>q. QED
        BY <2>1, <2>3, <1>0, <1>00 DEF TypeOK
<1>9. ASSUME NEW e \in Endpoints, SessionEnds(e)
      PROVE  TypeOK'
    <2>1. UNCHANGED <<rows, deleted, moved, thread, look, previous, points, table, disturbed, restarted>>
        BY <1>9 DEF SessionEnds, metricVars
    <2>2. total' \in [Endpoints -> Nat]
        BY <1>9, <1>0 DEF SessionEnds
    <2>q. QED
        BY <2>1, <2>2, <1>0, <1>00 DEF TypeOK
<1>10. ASSUME NEW e \in Endpoints, CreateEndpoint(e)
       PROVE  TypeOK'
    BY <1>10, <1>0, <1>00 DEF TypeOK, CreateEndpoint, workerVars, metricVars
<1>11. ASSUME NEW e \in Endpoints, DeleteEndpoint(e)
       PROVE  TypeOK'
    BY <1>11, <1>0, <1>00 DEF TypeOK, DeleteEndpoint, workerVars
<1>12. CASE Restart
    BY <1>12, <1>0, <1>00, NoneIsSamples DEF TypeOK, Restart, workerVars
<1>13. ASSUME NEW e \in Endpoints, PublishLate(e)
       PROVE  TypeOK'
    <2>1. UNCHANGED <<rows, deleted, moved, thread, look, previous, points, table, restarted>>
        BY <1>13 DEF PublishLate
    <2>2. moved[e] \in Nat
        BY <1>0
    <2>3. total' \in [Endpoints -> Nat] /\ disturbed' \subseteq Endpoints
        BY <1>13, <1>0, <2>2 DEF PublishLate
    <2>q. QED
        BY <2>1, <2>3, <1>0, <1>00 DEF TypeOK
<1>q. QED
    BY <1>1, <1>2, <1>3, <1>4, <1>5, <1>6, <1>7, <1>8, <1>9, <1>10, <1>11, <1>12, <1>13
    DEF Next, MetricsThread, LoginStep

-----------------------------------------------------------------------------
\* Ages and origins.

LEMMA AgesStep ==
    ASSUME TypeOK, Ages, [Next]_vars
    PROVE  Ages'
<1> DEFINE Limit == Retention + (IF thread = "pruning" THEN 1 ELSE 0)
                              + (IF restarted THEN 1 ELSE 0)
<1>0. /\ IsFiniteSet(table) /\ \A r \in table : r.age \in Nat /\ r.age <= Limit
      /\ Retention \in Nat /\ restarted \in BOOLEAN
    BY MetricsAssumption DEF TypeOK, Ages
<1>1. CASE UNCHANGED <<table, restarted>> /\ (thread' = thread \/ thread # "pruning")
    BY <1>0, <1>1 DEF Ages
<1>2. CASE Store
    <2>1. CASE table' = table
        BY <1>0, <1>2, <2>1 DEF Ages, Store
    <2>2. CASE table' = Aged \cup NewRows /\ thread' = "pruning"
        <3>1. thread = "storing" /\ restarted' = restarted
            BY <1>2 DEF Store
        <3>2. IsFiniteSet(Aged) /\ IsFiniteSet(NewRows)
            BY <1>0, AgedFacts, NewRowsFacts
        <3>3. IsFiniteSet(table')
            BY <2>2, <3>2, FS_Union
        <3>4. \A r \in Aged : r.age <= Limit + 1
            BY <1>0, AgedFacts
        <3>5. \A r \in NewRows : r.age = 0
            BY NewRowsFacts
        <3>6. \A r \in table' : r.age <= Limit + 1
            BY <2>2, <3>4, <3>5, <1>0
        <3>q. QED
            BY <2>2, <3>1, <3>3, <3>6, <1>0 DEF Ages
    <2>q. QED
        BY <1>2, <2>1, <2>2 DEF Store
<1>3. CASE Prune
    <2>1. /\ table' = {r \in table : r.age <= Retention} /\ restarted' = restarted
          /\ thread' # "pruning"
        BY <1>3 DEF Prune
    <2>2. IsFiniteSet(table')
        BY <2>1, <1>0, FS_Subset
    <2>3. \A r \in table' : r.age \in Nat /\ r.age <= Retention
        BY <2>1, <1>0
    <2>q. QED
        BY <2>1, <2>2, <2>3, <1>0 DEF Ages
<1>4. ASSUME NEW e \in Endpoints, DeleteEndpoint(e)
      PROVE  Ages'
    <2>1. /\ table' = {r \in table : r.chart # e} /\ restarted' = restarted
          /\ thread' = thread
        BY <1>4 DEF DeleteEndpoint
    <2>2. IsFiniteSet(table')
        BY <2>1, <1>0, FS_Subset
    <2>q. QED
        BY <2>1, <2>2, <1>0 DEF Ages
<1>5. CASE Restart
    <2>1. table' = table /\ ~restarted /\ restarted' = TRUE /\ thread' = "waiting"
        BY <1>5 DEF Restart
    <2>q. QED
        BY <2>1, <1>0 DEF Ages
<1>q. QED
    BY <1>1, <1>2, <1>3, <1>4, <1>5
    DEF Next, MetricsThread, Wake, Look, Count, MoveBytes, SessionEnds, PublishLate, CreateEndpoint,
        Login, Expire, Request, Logout, vars, metricVars

LEMMA OriginsStep ==
    ASSUME TypeOK, Ages, Origins, [Next]_vars
    PROVE  Origins'
<1>0. /\ DOMAIN look \subseteq rows \cup deleted
      /\ DOMAIN previous \subseteq rows \cup deleted \cup {Overall}
      /\ DOMAIN points \subseteq rows \cup deleted \cup {Overall}
      /\ \A r \in table : r.chart \in rows
      /\ \A e \in Endpoints \ (rows \cup deleted) : total[e] = 0
      /\ total \in [Endpoints -> Nat] /\ rows \subseteq Endpoints
      /\ table \subseteq Samples
    BY TableIsSamples DEF Origins, SamplesHaveEndpoints, TypeOK
<1>1. CASE UNCHANGED <<rows, deleted, total, look, previous, points, table>>
    BY <1>0, <1>1 DEF Origins, SamplesHaveEndpoints
<1>2. CASE Look
    <2>1. UNCHANGED <<rows, deleted, total, previous, points, table>>
        BY <1>2 DEF Look, workerVars
    <2>2. DOMAIN look' = rows \/ look' = look
        BY <1>2 DEF Look
    <2>q. QED
        BY <2>1, <2>2, <1>0 DEF Origins, SamplesHaveEndpoints
<1>3. CASE Count
    <2>1. /\ UNCHANGED <<rows, deleted, total, look, table>>
          /\ DOMAIN points' = rows \cup {Overall}
          /\ DOMAIN previous' = DOMAIN previous \cup rows \cup {Overall}
        BY <1>3 DEF Count, workerVars
    <2>q. QED
        BY <2>1, <1>0 DEF Origins, SamplesHaveEndpoints
<1>4. CASE Store
    <2>1. UNCHANGED <<rows, deleted, total, look, previous, points>>
        BY <1>4 DEF Store, workerVars
    <2>2. \A r \in table' : r.chart \in rows
        <3>1. CASE table' = table
            BY <3>1, <1>0
        <3>2. CASE table' = Aged \cup NewRows /\ DOMAIN points \subseteq rows \cup {Overall}
            <4>1. \A r \in Aged : r.chart \in rows
                BY <1>0, AgedFacts DEF Ages
            <4>2. \A r \in NewRows : r.chart \in rows
                BY <3>2, NewRowsFacts, MetricsAssumption
            <4>q. QED
                BY <3>2, <4>1, <4>2
        <3>q. QED
            BY <3>1, <3>2, <1>4 DEF Store
    <2>q. QED
        BY <2>1, <2>2, <1>0 DEF Origins, SamplesHaveEndpoints
<1>5. CASE Prune
    <2>1. /\ UNCHANGED <<rows, deleted, total, previous>> /\ look' = None /\ points' = None
          /\ table' \subseteq table
        BY <1>5 DEF Prune, workerVars
    <2>q. QED
        BY <2>1, <1>0, NoneIsSamples DEF Origins, SamplesHaveEndpoints
<1>6. ASSUME NEW e \in Endpoints, MoveBytes(e)
      PROVE  Origins'
    <2>1. /\ UNCHANGED <<rows, deleted, look, previous, points, table>> /\ e \in rows
          /\ \A d \in Endpoints : d # e => total'[d] = total[d]
        BY <1>6, <1>0 DEF MoveBytes, metricVars
    <2>q. QED
        BY <2>1, <1>0 DEF Origins, SamplesHaveEndpoints
<1>7. ASSUME NEW e \in Endpoints, SessionEnds(e)
      PROVE  Origins'
    <2>1. /\ UNCHANGED <<rows, deleted, look, previous, points, table>> /\ total[e] > 0
          /\ \A d \in Endpoints : d # e => total'[d] = total[d]
        BY <1>7, <1>0 DEF SessionEnds, metricVars
    <2>2. e \in rows \cup deleted
        BY <2>1, <1>0
    <2>q. QED
        BY <2>1, <2>2, <1>0 DEF Origins, SamplesHaveEndpoints
<1>8. ASSUME NEW e \in Endpoints, CreateEndpoint(e)
      PROVE  Origins'
    <2>1. /\ UNCHANGED <<deleted, total, look, previous, points, table>>
          /\ rows' = rows \cup {e}
        BY <1>8 DEF CreateEndpoint, workerVars, metricVars
    <2>q. QED
        BY <2>1, <1>0 DEF Origins, SamplesHaveEndpoints
<1>9. ASSUME NEW e \in Endpoints, DeleteEndpoint(e)
      PROVE  Origins'
    <2>1. /\ UNCHANGED <<total, look, previous, points>>
          /\ rows' = rows \ {e} /\ deleted' = deleted \cup {e}
          /\ table' = {r \in table : r.chart # e} /\ rows' \cup deleted' = rows \cup deleted
        BY <1>9 DEF DeleteEndpoint, workerVars
    <2>q. QED
        BY <2>1, <1>0 DEF Origins, SamplesHaveEndpoints
<1>10. CASE Restart
    <2>1. /\ UNCHANGED <<rows, deleted, total, table>>
          /\ look' = None /\ previous' = None /\ points' = None
        BY <1>10 DEF Restart, workerVars
    <2>q. QED
        BY <2>1, <1>0, NoneIsSamples DEF Origins, SamplesHaveEndpoints
<1>11. ASSUME NEW e \in Endpoints, PublishLate(e)
       PROVE  Origins'
    <2>1. /\ UNCHANGED <<rows, deleted, look, previous, points, table>> /\ e \in rows
          /\ \A d \in Endpoints : d # e => total'[d] = total[d]
        BY <1>11, <1>0 DEF PublishLate
    <2>q. QED
        BY <2>1, <1>0 DEF Origins, SamplesHaveEndpoints
<1>q. QED
    BY <1>1, <1>2, <1>3, <1>4, <1>5, <1>6, <1>7, <1>8, <1>9, <1>10, <1>11
    DEF Next, MetricsThread, Wake, Login, Expire, Request, Logout, vars, metricVars, workerVars

-----------------------------------------------------------------------------
\* The sample of all endpoints.

LEMMA PreviousWeighs ==
    ASSUME TypeOK
    PROVE  /\ \A S : Weighed(previous, S) /\ Weighed(look, S) /\ Weighed(points, S)
           /\ IsFiniteSet(rows) /\ IsFiniteSet(DOMAIN look)
           /\ DOMAIN look \subseteq Charts /\ rows \subseteq Charts
<1>1. DOMAIN look \in SUBSET Charts /\ rows \in SUBSET Charts
    BY DEF TypeOK, IsSamples, Charts
<1>q. QED
    BY <1>1, AtType, ChartsFinite DEF TypeOK, Weighed

LEMMA PartsOfCount ==
    ASSUME TypeOK, Origins, Parts, Count
    PROVE  Parts'
<1> DEFINE L == DOMAIN look
<1>0. /\ IsFiniteSet(rows) /\ IsFiniteSet(L) /\ rows \subseteq Endpoints
      /\ Overall \notin Endpoints /\ L \subseteq Endpoints
      /\ \A S : Weighed(previous, S) /\ Weighed(look, S)
      /\ \A c : At(look, c) \in Nat /\ At(previous, c) \in Nat
    BY PreviousWeighs, MetricsAssumption, AtType DEF TypeOK, Origins
<1>1. /\ rows' = rows /\ look' = look
      /\ points' = [c \in rows \cup {Overall} |-> Sample(Totals[c], At(previous, c))]
      /\ previous' = [c \in DOMAIN previous \cup rows \cup {Overall} |->
                         IF c \in rows \cup {Overall} THEN Totals[c] ELSE previous[c]]
    BY DEF Count
<1>2. /\ Totals[Overall] = Sum(look, L)
      /\ \A e \in rows : Totals[e] = At(look, e)
    BY <1>0 DEF Totals, Charts
<1>3. Sum(look, L) \in Nat
    <2>1. L \in SUBSET L
        OBVIOUS
    <2>q. QED
        BY <2>1, <1>0, SumType
<1>4. Sum(previous, rows)' <= At(previous, Overall)'
    <2>1. \A e \in rows : At(previous', e) = At(look, e)
        BY <1>1, <1>2, <1>0 DEF At
    <2>2. Sum(previous', rows) = Sum(look, rows)
        BY <2>1, <1>0, SumAgrees
    <2>3. At(previous', Overall) = Sum(look, L)
        BY <1>1, <1>2 DEF At
    <2>4. Sum(look, rows) <= Sum(look, L)
        <3>1. Sum(look, rows) = Sum(look, rows \cap L)
            <4>1. \A x \in rows : x \notin L => At(look, x) = 0
                BY DEF At
            <4> HIDE DEF L
            <4>q. QED
                BY <4>1, <1>0, SumOfSupport
        <3>2. Sum(look, rows \cap L) <= Sum(look, L)
            <4>1. rows \cap L \in SUBSET L
                OBVIOUS
            <4> HIDE DEF L
            <4>q. QED
                BY <4>1, <1>0, SumOfPart
        <3>q. QED
            BY <3>1, <3>2
    <2>q. QED
        BY <2>2, <2>3, <2>4, <1>1
<1>5. ASSUME L \subseteq rows \cup {Overall}
      PROVE  points'[Overall] <= Sum(points', rows)
    <2>1. L \subseteq rows
        BY <1>0, <1>5
    <2>2. \A e \in rows : At(points', e) = Sample(At(look, e), At(previous, e))
        BY <1>1, <1>2 DEF At
    <2>3. \A e \in rows : At(points', e) \in Nat
                          /\ At(look, e) <= At(points', e) + At(previous, e)
        BY <2>2, <1>0, SampleFacts
    <2>4. Weighed(points', rows) /\ Weighed(points', L)
        BY <2>1, <2>3 DEF Weighed
    <2>5. Sum(look, L) <= Sum(points', L) + Sum(previous, L)
        <3>1. \A e \in L : At(look, e) <= At(points', e) + At(previous, e)
            BY <2>1, <2>3
        <3> HIDE DEF L
        <3>q. QED
            BY <3>1, <2>4, <1>0, SumOfTwo
    <2>6. Sum(points', L) <= Sum(points', rows) /\ Sum(previous, L) <= Sum(previous, rows)
        <3> HIDE DEF L
        <3>q. QED
            BY <2>1, <2>4, <1>0, SumOfPart
    <2>7. /\ Sum(points', L) \in Nat /\ Sum(points', rows) \in Nat
          /\ Sum(previous, L) \in Nat /\ Sum(previous, rows) \in Nat
        <3>1. L \in SUBSET rows /\ rows \in SUBSET rows
            BY <2>1
        <3>q. QED
            BY <3>1, <2>4, <1>0, SumType
    <2>8. Sum(previous, rows) <= At(previous, Overall) /\ At(previous, Overall) \in Nat
        BY <1>0 DEF Parts
    <2>9. points'[Overall] = Sample(Sum(look, L), At(previous, Overall))
        BY <1>1, <1>2
    <2>10. CASE Sum(look, L) <= At(previous, Overall)
        <3>1. points'[Overall] = 0
            BY <2>9, <2>10, <2>8, <1>3, SampleFacts
        <3>q. QED
            BY <3>1, <2>7
    <2>11. CASE At(previous, Overall) <= Sum(look, L)
        <3>1. points'[Overall] = Sum(look, L) - At(previous, Overall)
            BY <2>9, <2>11, <2>8, <1>3, SampleFacts
        <3>q. QED
            BY <3>1, <2>5, <2>6, <2>7, <2>8, <1>3
    <2>q. QED
        BY <2>8, <2>10, <2>11, <1>3
<1>6. OverallWithinParts'
    <2>1. DOMAIN points' = rows \cup {Overall} /\ DOMAIN points' \ {Overall} = rows
        BY <1>0, <1>1
    <2>q. QED
        BY <2>1, <1>1, <1>5 DEF OverallWithinParts
<1>q. QED
    BY <1>4, <1>6 DEF Parts

LEMMA PartsStep ==
    ASSUME TypeOK, Origins, Parts, [Next]_vars
    PROVE  Parts'
<1>0. /\ IsFiniteSet(rows) /\ (\A S : Weighed(previous, S))
      /\ Sum(previous, rows) <= At(previous, Overall)
    BY PreviousWeighs DEF Parts
<1>1. CASE UNCHANGED <<rows, previous, points, look>> /\ (thread' = thread \/ thread' # "storing")
    BY <1>1 DEF Parts, OverallWithinParts
<1>2. CASE Count
    BY <1>2, PartsOfCount
<1>3. CASE UNCHANGED <<rows, previous>> /\ thread' # "storing"
    BY <1>3 DEF Parts, OverallWithinParts
<1>4. ASSUME NEW e \in Endpoints, CreateEndpoint(e)
      PROVE  Parts'
    <2>1. /\ UNCHANGED <<previous, points, look, thread>> /\ rows' = rows \cup {e}
          /\ e \notin rows \cup deleted
        BY <1>4 DEF CreateEndpoint, metricVars
    <2>2. At(previous, e) = 0
        BY <2>1, MetricsAssumption DEF Origins, At
    <2>3. IsFiniteSet(rows \cup {e})
        BY <1>0, FS_AddElement
    <2>4. Sum(previous, rows \cup {e}) = At(previous, e) + Sum(previous, rows)
        <3> DEFINE S == rows \cup {e}
        <3>1. S \in SUBSET S /\ e \in S /\ S \ {e} = rows
            BY <2>1
        <3> HIDE DEF S
        <3>2. Sum(previous, S) = At(previous, e) + Sum(previous, S \ {e})
            BY <3>1, <2>3, <1>0, SumRemove DEF S
        <3>q. QED
            BY <3>1, <3>2 DEF S
    <2>5. Sum(previous, rows) \in Nat
        <3>1. rows \in SUBSET rows
            OBVIOUS
        <3>q. QED
            BY <3>1, <1>0, SumType
    <2>6. Sum(previous, rows)' <= At(previous, Overall)'
        BY <2>1, <2>2, <2>4, <2>5, <1>0
    <2>q. QED
        BY <2>1, <2>6 DEF Parts, OverallWithinParts
<1>5. ASSUME NEW e \in Endpoints, DeleteEndpoint(e)
      PROVE  Parts'
    <2>1. UNCHANGED <<previous, points, look, thread>> /\ rows' = rows \ {e}
        BY <1>5 DEF DeleteEndpoint
    <2>2. Sum(previous, rows \ {e}) <= Sum(previous, rows)
        BY <1>0, SumOfPart
    <2>3. /\ Sum(previous, rows \ {e}) \in Nat /\ Sum(previous, rows) \in Nat
          /\ At(previous, Overall) \in Nat
        <3>1. rows \in SUBSET rows /\ rows \ {e} \in SUBSET rows
            OBVIOUS
        <3>q. QED
            BY <3>1, <1>0, SumType, AtType DEF TypeOK
    <2>4. Sum(previous, rows)' <= At(previous, Overall)'
        BY <2>1, <2>2, <2>3, <1>0
    <2>q. QED
        BY <2>1, <2>4 DEF Parts, OverallWithinParts
<1>6. CASE Restart
    <2>1. previous' = None /\ rows' = rows /\ thread' = "waiting"
        BY <1>6 DEF Restart
    <2>2. Weighed(None, rows) /\ \A x \in rows : At(None, x) = 0
        BY NoneIsSamples DEF Weighed
    <2>3. Sum(None, rows) = 0
        <3>1. Sum(None, rows) = Sum(None, rows \cap {})
            BY <1>0, <2>2, SumOfSupport
        <3>2. rows \cap {} = {}
            OBVIOUS
        <3>q. QED
            BY <3>1, <3>2, SumNone
    <2>4. Sum(previous, rows)' <= At(previous, Overall)'
        BY <2>1, <2>3, NoneIsSamples
    <2>q. QED
        BY <2>1, <2>4 DEF Parts, OverallWithinParts
<1>q. QED
    BY <1>1, <1>2, <1>3, <1>4, <1>5, <1>6
    DEF Next, MetricsThread, Wake, Look, Store, Prune, MoveBytes, SessionEnds, PublishLate,
        Login, Expire, Request, Logout, vars, metricVars

-----------------------------------------------------------------------------
\* No invented traffic.

LEMMA DueCases ==
    ASSUME TypeOK, NEW e \in Endpoints
    PROVE  /\ thread = "listing" =>
                  Due(e) = Sample(At(look, e), At(previous, e)) + Sample(total[e], At(look, e))
           /\ thread = "storing" =>
                  Due(e) = At(points, e) + Sample(total[e], At(previous, e))
           /\ thread \in Dead => Due(e) = 0
           /\ thread \in {"waiting", "looking", "pruning"} =>
                  Due(e) = Sample(total[e], At(previous, e))
BY DEF Due, Dead

LEMMA HonestTypes ==
    ASSUME TypeOK, Ages, NEW e \in Endpoints
    PROVE  /\ total[e] \in Nat /\ moved[e] \in Nat
           /\ At(look, e) \in Nat /\ At(previous, e) \in Nat /\ At(points, e) \in Nat
           /\ Charted(e) \in Nat /\ Due(e) \in Nat
<1>1. /\ total[e] \in Nat /\ moved[e] \in Nat
      /\ At(look, e) \in Nat /\ At(previous, e) \in Nat /\ At(points, e) \in Nat
    BY AtType, MetricsAssumption DEF TypeOK
<1>2. Charted(e) \in Nat
    BY TableIsSamples, ChartType, ChartedIsChart DEF Ages
<1>3. Due(e) \in Nat
    <2>1. /\ Sample(At(look, e), At(previous, e)) \in Nat
          /\ Sample(total[e], At(look, e)) \in Nat
          /\ Sample(total[e], At(previous, e)) \in Nat
        BY <1>1, SampleFacts
    <2>q. QED
        BY <1>1, <2>1, DueCases DEF TypeOK
<1>q. QED
    BY <1>1, <1>2, <1>3

\* A step that adds to the chart only what was due.
LEMMA StoreCharts ==
    ASSUME TypeOK, Ages, NEW e \in Endpoints, table' = Aged \cup NewRows
    PROVE  Charted(e)' = Charted(e) + At(points, e)
<1>0. table \subseteq Samples /\ IsFiniteSet(table)
    BY TableIsSamples DEF Ages
<1>1. IsFiniteSet(Aged) /\ Aged \subseteq Samples
    BY <1>0, AgedFacts
<1>2. Chart(Aged, e) = Charted(e)
    BY <1>0, ChartOfAged, ChartedIsChart DEF Aged
<1>3. NewRows \subseteq Samples /\ IsFiniteSet(NewRows)
    BY NewRowsFacts
<1>4. CASE e \in DOMAIN points
    <2>0. PICK r : r = [age |-> 0, chart |-> e, bytes |-> points[e]]
        OBVIOUS
    <2>1. Rows(NewRows, e) = {r}
        BY <2>0, <1>4, NewRowsFacts
    <2>2. r \in Samples /\ At(points, e) = points[e]
        BY <2>0, <1>4 DEF TypeOK, IsSamples, Samples, At
    <2>3. r \notin Aged
        <3>1. SUFFICES ASSUME r \in Aged PROVE FALSE
            OBVIOUS
        <3>2. PICK q \in table : r.age = q.age + 1
            BY <1>0, <3>1, AgedFacts
        <3>3. q.age \in Nat /\ r.age = 0
            BY <2>0, <1>0, <3>2 DEF Samples
        <3>q. QED
            BY <3>2, <3>3
    <2>4. r.bytes = points[e]
        BY <2>0
    <2>5. Chart(Aged \cup NewRows, e) = Chart(Aged, e) + r.bytes
        BY <1>1, <1>3, <2>1, <2>2, <2>3, ChartOfMore
    <2>q. QED
        BY <1>2, <2>2, <2>4, <2>5, ChartedIsChart
<1>5. CASE e \notin DOMAIN points
    <2>1. Rows(NewRows, e) = {} /\ At(points, e) = 0
        BY <1>5, NewRowsFacts DEF At
    <2>2. Chart(Aged \cup NewRows, e) = Chart(Aged, e)
        BY <1>1, <1>3, <2>1, ChartOfOthers
    <2>3. Charted(e) \in Nat
        BY HonestTypes
    <2>q. QED
        BY <1>2, <2>1, <2>2, <2>3, ChartedIsChart
<1>q. QED
    BY <1>4, <1>5

\* A look that reads the file of e notes what is due; one that dies of another
\* file leaves nothing due.
LEMMA LookDue ==
    ASSUME TypeOK, TypeOK', Origins, Look, NEW e \in Endpoints \ (deleted \cup disturbed')
    PROVE  Due(e)' = Due(e) \/ Due(e)' = 0
<1>1. PICK torn \in SUBSET rows :
         /\ disturbed' = disturbed \cup torn
         /\ \/ /\ thread' = "listing"
               /\ look' = [d \in rows |-> IF d \in torn THEN 0 ELSE total[d]]
            \/ torn # {} /\ thread' = "unread" /\ UNCHANGED look
    BY DEF Look
<1>2. e \notin torn
    BY <1>1
<1>3. CASE thread' = "unread"
    BY <1>3 DEF Due, Dead
<1>4. SUFFICES ASSUME thread' = "listing",
                      look' = [d \in rows |-> IF d \in torn THEN 0 ELSE total[d]]
               PROVE  Due(e)' = Due(e)
    BY <1>1, <1>3
<1>5. At(look', e) = total[e] /\ total[e] \in Nat
    <2>1. CASE e \in rows
        BY <2>1, <1>2, <1>4 DEF At, TypeOK
    <2>2. CASE e \notin rows
        BY <2>2, <1>4 DEF At, Origins
    <2>q. QED
        BY <2>1, <2>2
<1>6. thread = "looking" /\ total' = total /\ previous' = previous
    BY DEF Look, workerVars
<1>7. Due(e) = Sample(total[e], At(previous, e))
    BY <1>6, DueCases
<1>8. Due(e)' = Sample(total[e], At(previous, e)) + Sample(total[e], total[e])
    <2>1. Due(e)' = Sample(At(look', e), At(previous', e)) + Sample(total'[e], At(look', e))
        BY <1>4 DEF Due, Dead
    <2>q. QED
        BY <2>1, <1>5, <1>6
<1>9. Sample(total[e], total[e]) = 0 /\ Sample(total[e], At(previous, e)) \in Nat
    <2>1. At(previous, e) \in Nat
        BY AtType DEF TypeOK
    <2>q. QED
        BY <1>5, <2>1, SampleFacts
<1>q. QED
    BY <1>7, <1>8, <1>9

LEMMA CountDue ==
    ASSUME TypeOK, Origins, Count, NEW e \in Endpoints \ deleted
    PROVE  Due(e)' = Due(e)
<1>1. /\ thread = "listing" /\ thread' = "storing" /\ total' = total /\ look' = look
      /\ points' = [c \in rows \cup {Overall} |-> Sample(Totals[c], At(previous, c))]
      /\ previous' = [c \in DOMAIN previous \cup rows \cup {Overall} |->
                         IF c \in rows \cup {Overall} THEN Totals[c] ELSE previous[c]]
    BY DEF Count, workerVars
<1>2. e # Overall /\ Totals[e] = At(look, e)
    BY MetricsAssumption DEF Totals
<1>3. Due(e) = Sample(At(look, e), At(previous, e)) + Sample(total[e], At(look, e))
    BY <1>1, DueCases
<1>4. Due(e)' = At(points', e) + Sample(total[e], At(previous', e))
    BY <1>1 DEF Due, Dead
<1>5. CASE e \in rows
    <2>1. At(points', e) = Sample(At(look, e), At(previous, e))
        BY <1>1, <1>2, <1>5 DEF At
    <2>2. At(previous', e) = At(look, e)
        BY <1>1, <1>2, <1>5 DEF At
    <2>q. QED
        BY <1>3, <1>4, <2>1, <2>2
<1>6. CASE e \notin rows
    <2>1. At(look, e) = 0 /\ At(previous, e) = 0
        BY <1>2, <1>6 DEF Origins, At
    <2>2. At(points', e) = 0 /\ At(previous', e) = 0
        BY <1>1, <1>2, <1>6 DEF Origins, At
    <2>3. Sample(0, 0) = 0
        BY DEF Sample
    <2>q. QED
        BY <1>3, <1>4, <2>1, <2>2, <2>3
<1>q. QED
    BY <1>5, <1>6

\* What is due grows by no more than the bytes moved.
LEMMA MoveDue ==
    ASSUME TypeOK, NEW e \in Endpoints,
           UNCHANGED <<thread, look, previous, points>>
    PROVE  /\ total'[e] = total[e] + 1 => Due(e)' <= Due(e) + 1
           /\ total'[e] \in 0..total[e] => Due(e)' <= Due(e)
<1>0. /\ total[e] \in Nat /\ At(look, e) \in Nat /\ At(previous, e) \in Nat
      /\ At(points, e) \in Nat
    BY AtType DEF TypeOK
<1>1. \A b \in {At(look, e), At(previous, e)} :
         /\ total'[e] = total[e] + 1 => Sample(total'[e], b) <= Sample(total[e], b) + 1
         /\ total'[e] \in 0..total[e] => Sample(total'[e], b) <= Sample(total[e], b)
    BY <1>0, SampleGrows
<1>2. ASSUME total'[e] \in Nat
      PROVE  /\ Sample(At(look, e), At(previous, e)) \in Nat
             /\ \A b \in {At(look, e), At(previous, e)} :
                    Sample(total[e], b) \in Nat /\ Sample(total'[e], b) \in Nat
    BY <1>0, <1>2, SampleFacts
<1>3. total'[e] = total[e] + 1 \/ total'[e] \in 0..total[e] => total'[e] \in Nat
    BY <1>0
<1>4. CASE thread = "listing"
    <2>1. Due(e) = Sample(At(look, e), At(previous, e)) + Sample(total[e], At(look, e))
        BY <1>4 DEF Due, Dead
    <2>2. Due(e)' = Sample(At(look, e), At(previous, e)) + Sample(total'[e], At(look, e))
        BY <1>4 DEF Due, Dead
    <2>q. QED
        BY <1>1, <1>2, <1>3, <2>1, <2>2
<1>5. CASE thread = "storing"
    <2>1. Due(e) = At(points, e) + Sample(total[e], At(previous, e))
        BY <1>5 DEF Due, Dead
    <2>2. Due(e)' = At(points, e) + Sample(total'[e], At(previous, e))
        BY <1>5 DEF Due, Dead
    <2>q. QED
        BY <1>0, <1>1, <1>2, <1>3, <2>1, <2>2
<1>6. CASE thread \in Dead
    BY <1>6 DEF Due, Dead
<1>7. CASE thread \in {"waiting", "looking", "pruning"}
    <2>1. Due(e) = Sample(total[e], At(previous, e))
        BY <1>7, DueCases
    <2>2. Due(e)' = Sample(total'[e], At(previous, e))
        BY <1>7 DEF Due, Dead
    <2>q. QED
        BY <1>1, <2>1, <2>2
<1>q. QED
    BY <1>4, <1>5, <1>6, <1>7 DEF TypeOK

LEMMA HonestStep ==
    ASSUME TypeOK, TypeOK', Ages, Ages', Origins, Honest, [Next]_vars
    PROVE  Honest'
<1>1. SUFFICES ASSUME ~restarted', NEW e \in Endpoints, e \notin deleted' \cup disturbed'
               PROVE  Charted(e)' + Due(e)' <= moved'[e]
    BY DEF Honest
<1>2. ~restarted /\ e \notin deleted /\ e \notin disturbed
    <2>1. restarted' = restarted \/ restarted' = TRUE
        BY DEF Next, MetricsThread, Wake, Look, Count, Store, Prune, MoveBytes, SessionEnds, PublishLate,
               CreateEndpoint, DeleteEndpoint, Login, Expire, Request, Logout, Restart, vars
    <2>2. disturbed \subseteq disturbed'
        <3>1. CASE Look
            BY <3>1 DEF Look
        <3>2. ASSUME NEW d \in Endpoints, PublishLate(d) PROVE disturbed \subseteq disturbed'
            BY <3>2 DEF PublishLate
        <3>3. CASE disturbed' = disturbed
            BY <3>3
        <3>q. QED
            BY <3>1, <3>2, <3>3
            DEF Next, MetricsThread, Wake, Count, Store, Prune, MoveBytes, SessionEnds,
                CreateEndpoint, DeleteEndpoint, Login, Expire, Request, Logout, Restart,
                vars, metricVars
    <2>3. deleted \subseteq deleted'
        BY DEF Next, MetricsThread, Wake, Look, Count, Store, Prune, MoveBytes, SessionEnds, PublishLate,
               CreateEndpoint, DeleteEndpoint, Login, Expire, Request, Logout, Restart, vars
    <2>q. QED
        BY <2>1, <2>2, <2>3, <1>1
<1>3. Charted(e) + Due(e) <= moved[e]
    BY <1>1, <1>2 DEF Honest
<1>4. /\ total[e] \in Nat /\ moved[e] \in Nat /\ Charted(e) \in Nat /\ Due(e) \in Nat
      /\ At(points, e) \in Nat /\ At(previous, e) \in Nat
    BY HonestTypes
<1>5. Charted(e)' \in Nat /\ Due(e)' \in Nat
    <2>1. Charted(e)' \in Nat
        BY ChartType, ChartedIsChart, MetricsAssumption DEF Ages, TypeOK, Samples
    <2>2. /\ At(look', e) \in Nat /\ At(previous', e) \in Nat /\ At(points', e) \in Nat
          /\ total'[e] \in Nat
        BY AtType DEF TypeOK
    <2>3. /\ Sample(At(look', e), At(previous', e)) \in Nat
          /\ Sample(total'[e], At(look', e)) \in Nat
          /\ Sample(total'[e], At(previous', e)) \in Nat
        BY <2>2, SampleFacts
    <2>4. Due(e)' \in Nat
        BY <2>2, <2>3 DEF Due, TypeOK, Dead
    <2>q. QED
        BY <2>1, <2>4
<1>6. ASSUME table' \subseteq table
      PROVE  Charted(e)' <= Charted(e)
    BY <1>6, TableIsSamples, ChartOfPart, ChartedIsChart DEF Ages
<1>7. ASSUME UNCHANGED <<thread, look, previous, points, total>>
      PROVE  Due(e)' = Due(e)
    BY <1>7 DEF Due
<1>8. CASE UNCHANGED <<thread, look, previous, points, total, moved>> /\ table' \subseteq table
    BY <1>3, <1>4, <1>5, <1>6, <1>7, <1>8
<1>9. CASE Wake
    <2>1. /\ UNCHANGED <<look, previous, points, total, moved, table>>
          /\ thread = "waiting" /\ thread' = "looking"
        BY <1>9 DEF Wake, workerVars
    <2>2. Due(e)' = Due(e)
        BY <2>1 DEF Due, Dead
    <2>q. QED
        BY <2>1, <2>2, <1>3, <1>4, <1>5, <1>6
<1>10. CASE Look
    <2>1. table' = table /\ moved' = moved
        BY <1>10 DEF Look, workerVars
    <2>2. Due(e)' = Due(e) \/ Due(e)' = 0
        BY <1>1, <1>2, <1>10, LookDue
    <2>q. QED
        BY <2>1, <2>2, <1>3, <1>4, <1>5, <1>6
<1>11. CASE Count
    <2>1. table' = table /\ moved' = moved
        BY <1>11 DEF Count, workerVars
    <2>2. Due(e)' = Due(e)
        BY <1>2, <1>11, CountDue
    <2>q. QED
        BY <2>1, <2>2, <1>3, <1>4, <1>5, <1>6
<1>12. CASE Store
    <2>1. /\ UNCHANGED <<look, previous, points, total, moved>> /\ thread = "storing"
        BY <1>12 DEF Store, workerVars
    <2>2. Due(e) = At(points, e) + Sample(total[e], At(previous, e))
        BY <2>1, DueCases
    <2>3. Sample(total[e], At(previous, e)) \in Nat
        BY <1>4, SampleFacts
    <2>4. CASE thread' = "pruning" /\ table' = Aged \cup NewRows
        <3>1. Charted(e)' = Charted(e) + At(points, e)
            BY <2>4, StoreCharts
        <3>2. Due(e)' = Sample(total[e], At(previous, e))
            BY <2>1, <2>4 DEF Due, Dead
        <3>q. QED
            BY <2>1, <2>2, <2>3, <3>1, <3>2, <1>3, <1>4
    <2>5. CASE thread' = "unstored" /\ table' = table
        <3>1. Due(e)' = 0
            BY <2>5 DEF Due, Dead
        <3>q. QED
            BY <2>1, <2>5, <3>1, <1>3, <1>4, <1>5, <1>6
    <2>q. QED
        BY <2>4, <2>5, <1>12 DEF Store
<1>13. CASE Prune
    <2>1. /\ UNCHANGED <<previous, total, moved>> /\ thread = "pruning"
          /\ thread' \in {"waiting", "unread"} /\ table' \subseteq table
        BY <1>13 DEF Prune, workerVars
    <2>2. Due(e) = Sample(total[e], At(previous, e))
        BY <2>1, DueCases
    <2>3. Due(e)' = Due(e) \/ Due(e)' = 0
        BY <2>1, <2>2 DEF Due, Dead
    <2>q. QED
        BY <2>1, <2>3, <1>3, <1>4, <1>5, <1>6
<1>14. ASSUME NEW d \in Endpoints, MoveBytes(d)
       PROVE  Charted(e)' + Due(e)' <= moved'[e]
    <2>1. /\ UNCHANGED <<thread, look, previous, points, table>>
          /\ total' = [total EXCEPT ![d] = @ + 1] /\ moved' = [moved EXCEPT ![d] = @ + 1]
        BY <1>14 DEF MoveBytes, metricVars
    <2>2. CASE e = d
        <3>1. total'[e] = total[e] + 1 /\ moved'[e] = moved[e] + 1
            BY <2>1, <2>2 DEF TypeOK
        <3>2. Due(e)' <= Due(e) + 1
            BY <2>1, <3>1, MoveDue
        <3>q. QED
            BY <2>1, <3>1, <3>2, <1>3, <1>4, <1>5, <1>6
    <2>3. CASE e # d
        <3>1. total'[e] = total[e] /\ moved'[e] = moved[e]
            BY <2>1, <2>3 DEF TypeOK
        <3>2. Due(e)' <= Due(e)
            BY <2>1, <3>1, <1>4, MoveDue
        <3>q. QED
            BY <2>1, <3>1, <3>2, <1>3, <1>4, <1>5, <1>6
    <2>q. QED
        BY <2>2, <2>3
<1>15. ASSUME NEW d \in Endpoints, SessionEnds(d)
       PROVE  Charted(e)' + Due(e)' <= moved'[e]
    <2>1. /\ UNCHANGED <<thread, look, previous, points, table, moved>>
          /\ \E left \in 0..(total[d] - 1) : total' = [total EXCEPT ![d] = left]
        BY <1>15 DEF SessionEnds, metricVars
    <2>2. total'[e] \in 0..total[e]
        <3>1. total \in [Endpoints -> Nat]
            BY DEF TypeOK
        <3>q. QED
            BY <2>1, <3>1
    <2>3. Due(e)' <= Due(e)
        BY <2>1, <2>2, MoveDue
    <2>q. QED
        BY <2>1, <2>3, <1>3, <1>4, <1>5, <1>6
<1>16. ASSUME NEW d \in Endpoints, DeleteEndpoint(d)
       PROVE  Charted(e)' + Due(e)' <= moved'[e]
    BY <1>8, <1>16 DEF DeleteEndpoint, workerVars
<1>17. CASE Restart
    BY <1>1, <1>17 DEF Restart
<1>18. ASSUME NEW d \in Endpoints, PublishLate(d)
       PROVE  Charted(e)' + Due(e)' <= moved'[e]
    <2>1. UNCHANGED <<thread, look, previous, points, table, moved>> /\ d # e
        BY <1>1, <1>18 DEF PublishLate
    <2>2. total'[e] = total[e]
        BY <1>18, <2>1 DEF PublishLate, TypeOK
    <2>3. Due(e)' <= Due(e)
        BY <2>1, <2>2, <1>4, MoveDue
    <2>q. QED
        BY <2>1, <2>3, <1>3, <1>4, <1>5, <1>6
<1>q. QED
    BY <1>8, <1>9, <1>10, <1>11, <1>12, <1>13, <1>14, <1>15, <1>16, <1>17, <1>18
    DEF Next, MetricsThread, CreateEndpoint, Login, Expire, Request, Logout, vars,
        metricVars, workerVars

-----------------------------------------------------------------------------
\* The theorems.

LEMMA InitInv ==
    ASSUME Init
    PROVE  IInv
<1>1. TypeOK
    <2>1. /\ total \in [Endpoints -> Nat] /\ moved \in [Endpoints -> 0..MaxBytes]
          /\ login \in [Tokens -> {"none", "live", "expired"}]
        BY MetricsAssumption DEF Init
    <2>2. IsSamples(look) /\ IsSamples(previous) /\ IsSamples(points)
        BY NoneIsSamples DEF Init
    <2>q. QED
        BY <2>1, <2>2 DEF Init, TypeOK
<1>2. Ages
    BY FS_EmptySet DEF Init, Ages
<1>3. Origins
    BY NoneIsSamples DEF Init, Origins, SamplesHaveEndpoints
<1>4. Honest
    <2>1. SUFFICES ASSUME NEW e \in Endpoints PROVE Charted(e) + Due(e) <= moved[e]
        BY DEF Honest
    <2>2. Charted(e) = 0
        <3>1. Chart(table, e) = 0
            BY ChartOfNone DEF Init
        <3>q. QED
            BY <3>1, ChartedIsChart
    <2>3. Due(e) = 0
        <3>1. Due(e) = Sample(0, 0)
            BY NoneIsSamples DEF Init, Due, Dead
        <3>q. QED
            BY <3>1 DEF Sample
    <2>q. QED
        BY <2>2, <2>3 DEF Init
<1>5. Parts
    BY SumNone, NoneIsSamples DEF Init, Parts, OverallWithinParts
<1>q. QED
    BY <1>1, <1>2, <1>3, <1>4, <1>5 DEF IInv

LEMMA StepInv ==
    ASSUME IInv, [Next]_vars
    PROVE  IInv'
<1>1. TypeOK' /\ Ages'
    BY TypeStep, AgesStep DEF IInv
<1>2. Origins' /\ Parts'
    BY OriginsStep, PartsStep DEF IInv
<1>3. Honest'
    BY <1>1, HonestStep DEF IInv
<1>q. QED
    BY <1>1, <1>2, <1>3 DEF IInv

\* IInv holds of every state the metrics thread and the requests can bring about.
THEOREM Invariant == Spec => []IInv
BY InitInv, StepInv, PTL DEF Spec

\* Every variable has its type: no sample gets older than the retention by more
\* than a round and a restart.
THEOREM TypeCorrect == Spec => []TypeOK
<1>1. IInv => TypeOK
    BY DEF IInv
<1>q. QED
    BY <1>1, Invariant, PTL

\* No chart shows more than was moved while the control plane is not restarted,
\* but that of an endpoint whose own file was once not read or showed an older
\* snapshot after a newer one: what happens to the files of others does not
\* matter.
THEOREM TrafficTheorem == Spec => []NoInventedTraffic
<1>1. ASSUME IInv
      PROVE  NoInventedTraffic
    <2>1. SUFFICES ASSUME ~restarted, NEW e \in Endpoints \ disturbed
                   PROVE  Charted(e) <= moved[e]
        BY DEF NoInventedTraffic
    <2>2. Charted(e) \in Nat /\ Due(e) \in Nat /\ moved[e] \in Nat
        BY <1>1, HonestTypes DEF IInv
    <2>3. CASE e \in deleted
        <3>1. \A r \in table : r.chart # e
            BY <1>1, <2>3 DEF IInv, TypeOK, Origins, SamplesHaveEndpoints
        <3>2. Charted(e) = 0
            BY <3>1, ChartOfNone, ChartedIsChart
        <3>q. QED
            BY <2>2, <3>2
    <2>4. CASE e \notin deleted
        <3>1. Charted(e) + Due(e) <= moved[e]
            BY <1>1, <2>1, <2>4 DEF IInv, Honest
        <3>q. QED
            BY <2>2, <3>1
    <2>q. QED
        BY <2>3, <2>4
<1>q. QED
    BY <1>1, Invariant, PTL

\* The sample of all endpoints is no more than theirs together.
THEOREM OverallTheorem == Spec => []OverallWithinParts
<1>1. IInv => OverallWithinParts
    BY DEF IInv, Parts
<1>q. QED
    BY <1>1, Invariant, PTL

\* No sample outlives its endpoint.
THEOREM SamplesTheorem == Spec => []SamplesHaveEndpoints
<1>1. IInv => SamplesHaveEndpoints
    BY DEF IInv, Origins
<1>q. QED
    BY <1>1, Invariant, PTL

=============================================================================
