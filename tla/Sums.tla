--------------------------------- MODULE Sums ---------------------------------
(***************************************************************************)
(* Sums over finite sets: what SumFunction returns, which is the size of   *)
(* the cache of ObjectStore and the merged targets of Canonical.           *)
(***************************************************************************)
EXTENDS Functions, FiniteSetTheorems, WellFoundedInduction, TLAPS

\* A nonempty family of subsets of a finite set has a least one: what stands for
\* induction over finite sets here.
LEMMA LeastSet ==
    ASSUME NEW T, IsFiniteSet(T), NEW F \in SUBSET SUBSET T, F # {}
    PROVE  \E s \in F : \A r \in F : r \subseteq s => r = s
<1>1. IsWellFoundedOn(StrictSubsetOrdering(T), FiniteSubsetsOf(T))
    BY FS_StrictSubsetOrderingWellFounded
<1>2. F \subseteq FiniteSubsetsOf(T)
    BY FS_FiniteSubsetsOfFinite
<1>3. \E s \in F : \A r \in F : ~(<<r, s>> \in StrictSubsetOrdering(T))
    BY <1>1, <1>2, WFMin
<1> QED
    BY <1>3 DEF StrictSubsetOrdering

\* In an order, a nonempty finite set has an element that none comes before.
LEMMA FirstExists ==
    ASSUME NEW S, IsFiniteSet(S), S # {}, NEW R,
           \A x \in S : <<x, x>> \notin R,
           \A x, y, z \in S : <<x, y>> \in R /\ <<y, z>> \in R => <<x, z>> \in R
    PROVE  \E x \in S : \A y \in S : <<y, x>> \notin R
<1> DEFINE before(x) == {y \in S : <<y, x>> \in R}
           F == {before(x) : x \in S}
<1>0. F \in SUBSET SUBSET S /\ \A x \in S : before(x) \in F
    OBVIOUS
<1>a. F # {}
    <2> HIDE DEF F
    <2> QED
        BY <1>0
<1>1. PICK s \in F : \A r \in F : r \subseteq s => r = s
    <2> HIDE DEF F
    <2> QED
        BY <1>0, <1>a, LeastSet
<1>2. PICK x \in S : s = before(x)
    BY <1>1
<1>3. ASSUME NEW y \in before(x) PROVE FALSE
    <2>1. y \in S /\ <<y, x>> \in R /\ y \notin before(y)
        BY <1>3
    <2>2. before(y) \subseteq before(x)
        BY <2>1
    <2>3. before(y) \in F
        BY <1>0, <2>1
    <2> HIDE DEF F, before
    <2> QED
        BY <1>1, <1>2, <1>3, <2>1, <2>2, <2>3
<1> QED
    BY <1>3

\* A tally has the sum of a function over every subset of its domain, adding the
\* elements in the order in which they are chosen.
Some(s) == CHOOSE x \in s : TRUE
Tallies(h, f) ==
    h = [s \in SUBSET DOMAIN f |-> IF s = {} THEN 0 ELSE f[Some(s)] + h[s \ {Some(s)}]]

\* What a tally is, for one set.
LEMMA TallyOf ==
    ASSUME NEW f, NEW h, Tallies(h, f), NEW s \in SUBSET DOMAIN f
    PROVE  /\ s = {} => h[s] = 0
           /\ s # {} => Some(s) \in s /\ h[s] = f[Some(s)] + h[s \ {Some(s)}]
<1>1. h[s] = IF s = {} THEN 0 ELSE f[Some(s)] + h[s \ {Some(s)}]
    BY DEF Tallies
<1>2. s # {} => Some(s) \in s
    BY DEF Some
<1> QED
    BY <1>1, <1>2

\* It counts in integers.
LEMMA TallyType ==
    ASSUME NEW S, IsFiniteSet(S), NEW f \in [S -> Int], NEW h, Tallies(h, f)
    PROVE  \A s \in SUBSET S : h[s] \in Int
<1> DEFINE F == {s \in SUBSET S : h[s] \notin Int}
<1> SUFFICES ASSUME F # {} PROVE FALSE
    OBVIOUS
<1>0. F \in SUBSET SUBSET S
    OBVIOUS
<1>1. PICK s \in F : \A r \in F : r \subseteq s => r = s
    <2> HIDE DEF F
    <2> QED
        BY <1>0, LeastSet
<1>2. s # {} /\ Some(s) \in s /\ h[s] = f[Some(s)] + h[s \ {Some(s)}]
    BY <1>1, TallyOf
<1>3. h[s \ {Some(s)}] \in Int
    BY <1>1, <1>2
<1> QED
    BY <1>1, <1>2, <1>3

\* It counts in natural numbers if all terms are.
LEMMA TallyNat ==
    ASSUME NEW S, IsFiniteSet(S), NEW f \in [S -> Nat], NEW h, Tallies(h, f)
    PROVE  \A s \in SUBSET S : h[s] \in Nat
<1> DEFINE F == {s \in SUBSET S : h[s] \notin Nat}
<1> SUFFICES ASSUME F # {} PROVE FALSE
    OBVIOUS
<1>0. F \in SUBSET SUBSET S
    OBVIOUS
<1>1. PICK s \in F : \A r \in F : r \subseteq s => r = s
    <2> HIDE DEF F
    <2> QED
        BY <1>0, LeastSet
<1>2. s # {} /\ Some(s) \in s /\ h[s] = f[Some(s)] + h[s \ {Some(s)}]
    BY <1>1, TallyOf
<1>3. h[s \ {Some(s)}] \in Nat
    BY <1>1, <1>2
<1> QED
    BY <1>1, <1>2, <1>3

\* Any element may be taken out first.
LEMMA TallyParts ==
    ASSUME NEW S, IsFiniteSet(S), NEW f \in [S -> Int], NEW h, Tallies(h, f)
    PROVE  \A s \in SUBSET S : \A x \in s : h[s] = f[x] + h[s \ {x}]
<1> DEFINE F == {s \in SUBSET S : \E x \in s : h[s] # f[x] + h[s \ {x}]}
<1> SUFFICES ASSUME F # {} PROVE FALSE
    OBVIOUS
<1>0. F \in SUBSET SUBSET S
    OBVIOUS
<1>1. PICK s \in F : \A r \in F : r \subseteq s => r = s
    <2> HIDE DEF F
    <2> QED
        BY <1>0, LeastSet
<1>2. PICK x \in s : h[s] # f[x] + h[s \ {x}]
    BY <1>1
<1> DEFINE c == Some(s)
<1>3. c \in s /\ h[s] = f[c] + h[s \ {c}]
    <2>1. s \in SUBSET DOMAIN f /\ s # {}
        BY <1>1, <1>2
    <2> QED
        BY <2>1, TallyOf
<1>4. c # x
    BY <1>2, <1>3
<1> HIDE DEF c
<1>5. h[s \ {c}] = f[x] + h[(s \ {c}) \ {x}]
    BY <1>1, <1>2, <1>3, <1>4
<1>6. h[s \ {x}] = f[c] + h[(s \ {x}) \ {c}]
    BY <1>1, <1>2, <1>3, <1>4
<1>7. (s \ {c}) \ {x} = (s \ {x}) \ {c} /\ s \in SUBSET S
    BY <1>1
<1>8. h[(s \ {c}) \ {x}] \in Int /\ f[x] \in Int /\ f[c] \in Int
    BY <1>2, <1>3, <1>7, TallyType
<1> DEFINE rest == h[(s \ {c}) \ {x}]
<1>9. h[s] = f[c] + (f[x] + rest) /\ h[s \ {x}] = f[c] + rest
    BY <1>3, <1>5, <1>6, <1>7
<1> HIDE DEF rest
<1>10. f[c] + (f[x] + rest) = f[x] + (f[c] + rest)
    <2>1. rest \in Int
        BY <1>8 DEF rest
    <2> QED
        BY <1>8, <2>1
<1> QED
    BY <1>2, <1>9, <1>10

\* A tally over a larger set agrees with one over a smaller.
LEMMA TallyAgrees ==
    ASSUME NEW S, IsFiniteSet(S), NEW f, DOMAIN f = S, NEW h, Tallies(h, f),
           NEW T \in SUBSET S, NEW g, Tallies(g, [x \in T |-> f[x]])
    PROVE  \A s \in SUBSET T : g[s] = h[s]
<1> DEFINE F == {s \in SUBSET T : g[s] # h[s]}
           k == [x \in T |-> f[x]]
<1> SUFFICES ASSUME F # {} PROVE FALSE
    OBVIOUS
<1>1. PICK s \in F : \A r \in F : r \subseteq s => r = s
    <2>1. IsFiniteSet(T)
        BY FS_Subset
    <2>2. F \in SUBSET SUBSET T
        OBVIOUS
    <2> HIDE DEF F
    <2> QED
        BY <2>1, <2>2, LeastSet
<1>2. DOMAIN k = T /\ \A x \in T : k[x] = f[x]
    OBVIOUS
<1>3. /\ s # {} => Some(s) \in s /\ h[s] = f[Some(s)] + h[s \ {Some(s)}]
      /\ s = {} => h[s] = 0
    BY <1>1, TallyOf
<1>4. /\ s # {} => g[s] = k[Some(s)] + g[s \ {Some(s)}]
      /\ s = {} => g[s] = 0
    <2> HIDE DEF k
    <2>1. Tallies(g, k)
        BY DEF k
    <2> QED
        BY <1>1, <1>2, <2>1, TallyOf
<1>5. s # {} => g[s \ {Some(s)}] = h[s \ {Some(s)}]
    BY <1>1, <1>3
<1> QED
    BY <1>1, <1>2, <1>3, <1>4, <1>5

\* There is a tally of every function on a finite set: the least subset without
\* one would get one from those of its own subsets.
LEMMA TallyExists ==
    ASSUME NEW S, IsFiniteSet(S), NEW f, f = [x \in S |-> f[x]]
    PROVE  \E h : Tallies(h, f)
<1> DEFINE on(s) == [x \in s |-> f[x]]
           F == {s \in SUBSET S : ~ \E h : Tallies(h, on(s))}
<1> SUFFICES ASSUME F # {} PROVE FALSE
    <2>1. F = {} => \E h : Tallies(h, on(S))
        OBVIOUS
    <2> QED
        BY <2>1
<1>0. F \in SUBSET SUBSET S
    OBVIOUS
<1>1. PICK s \in F : \A r \in F : r \subseteq s => r = s
    <2> HIDE DEF F
    <2> QED
        BY <1>0, LeastSet
<1> DEFINE tally(r) == CHOOSE h : Tallies(h, on(r))
           k == [r \in SUBSET s |->
                    IF r = {} THEN 0
                    ELSE f[Some(r)] + tally(r \ {Some(r)})[r \ {Some(r)}]]
<1>2. ASSUME NEW r \in SUBSET s, r # s
      PROVE  Tallies(tally(r), on(r))
    <2>1. \E h : Tallies(h, on(r))
        BY <1>1, <1>2
    <2> QED
        BY <2>1
<1>d. \A r : DOMAIN on(r) = r
    OBVIOUS
<1>3. ASSUME NEW q \in SUBSET s, q # s
      PROVE  k[q] = tally(q)[q]
    <2> DEFINE p == q \ {Some(q)}
    <2>1. Tallies(tally(q), on(q))
        BY <1>2, <1>3
    <2>2. CASE q = {}
        <3> HIDE DEF on, tally
        <3>1. tally(q)[q] = 0
            BY <1>d, <2>1, <2>2, TallyOf
        <3> QED
            BY <2>2, <3>1
    <2>3. CASE q # {}
        <3>0. Some(q) \in q
            BY <2>3 DEF Some
        <3>1. p \in SUBSET s /\ p # s /\ p \in SUBSET q
            BY <1>3
        <3>2. Tallies(tally(p), on(p))
            BY <1>2, <3>1
        <3>3. on(p) = [x \in p |-> on(q)[x]]
            BY <3>1
        <3>4. on(q)[Some(q)] = f[Some(q)]
            BY <3>0
        <3>5. IsFiniteSet(q)
            <4>1. q \in SUBSET S
                BY <1>1
            <4> QED
                BY <4>1, FS_Subset
        <3>6. k[q] = f[Some(q)] + tally(p)[p]
            BY <2>3
        <3> HIDE DEF on, tally, p, k
        <3>7. tally(p)[p] = tally(q)[p]
            BY <1>d, <2>1, <3>1, <3>2, <3>3, <3>5, TallyAgrees
        <3>8. tally(q)[q] = on(q)[Some(q)] + tally(q)[p]
            BY <1>d, <2>1, <2>3, TallyOf DEF p
        <3> QED
            BY <3>4, <3>6, <3>7, <3>8
    <2> QED
        BY <2>2, <2>3
<1>4. Tallies(k, on(s))
    <2>1. ASSUME NEW r \in SUBSET s
          PROVE  k[r] = IF r = {} THEN 0 ELSE on(s)[Some(r)] + k[r \ {Some(r)}]
        <3>1. CASE r = {}
            BY <3>1
        <3>2. CASE r # {}
            <4> DEFINE q == r \ {Some(r)}
            <4>1. Some(r) \in r
                BY <3>2 DEF Some
            <4>2. q \in SUBSET s /\ q # s
                BY <4>1
            <4>3. k[q] = tally(q)[q]
                BY <1>3, <4>2
            <4>4. on(s)[Some(r)] = f[Some(r)]
                BY <4>1
            <4>5. k[r] = f[Some(r)] + tally(q)[q]
                BY <3>2
            <4> QED
                BY <3>2, <4>3, <4>4, <4>5
        <3> QED
            BY <3>1, <3>2
    <2>2. k = [r \in SUBSET s |-> k[r]]
        OBVIOUS
    <2> HIDE DEF k, on
    <2>3. k = [r \in SUBSET s |->
                IF r = {} THEN 0 ELSE on(s)[Some(r)] + k[r \ {Some(r)}]]
        BY <2>1, <2>2
    <2> QED
        BY <1>d, <2>3 DEF Tallies
<1> QED
    BY <1>1, <1>4

\* The sum of a function is what its tally has for the whole domain.
LEMMA SumTally ==
    ASSUME NEW S, IsFiniteSet(S), NEW f, f = [x \in S |-> f[x]]
    PROVE  \E h : Tallies(h, f) /\ SumFunction(f) = h[S]
<1> DEFINE tally == CHOOSE h : Tallies(h, f)
<1>1. SumFunction(f) = tally[DOMAIN f]
    BY DEF SumFunction, SumFunctionOnSet, FoldFunctionOnSet, MapThenFoldSet, Tallies, Some
<1>2. Tallies(tally, f)
    BY TallyExists
<1>3. DOMAIN f = S
    OBVIOUS
<1> QED
    BY <1>1, <1>2, <1>3

\* A sum is a number, and it grows with its terms: those that are not zero have
\* their match in the larger sum.
LEMMA SumGrows ==
    ASSUME NEW S, IsFiniteSet(S), NEW f \in [S -> Nat],
           NEW T, IsFiniteSet(T), NEW g \in [T -> Nat],
           \A x \in S : f[x] = 0 \/ (x \in T /\ f[x] <= g[x])
    PROVE  /\ SumFunction(f) \in Nat /\ SumFunction(g) \in Nat
           /\ SumFunction(f) <= SumFunction(g)
<1>1. PICK h : Tallies(h, f) /\ SumFunction(f) = h[S]
    BY SumTally
<1>2. PICK k : Tallies(k, g) /\ SumFunction(g) = k[T]
    BY SumTally
<1>3. (\A s \in SUBSET S : h[s] \in Nat) /\ (\A t \in SUBSET T : k[t] \in Nat)
    BY <1>1, <1>2, TallyNat
<1> DEFINE Match(s, t) == \A x \in s : f[x] = 0 \/ (x \in t /\ f[x] <= g[x])
           F == {s \in SUBSET S : \E t \in SUBSET T : Match(s, t) /\ ~(h[s] <= k[t])}
<1>4. F = {}
    <2> SUFFICES ASSUME F # {} PROVE FALSE
        OBVIOUS
    <2>0. F \in SUBSET SUBSET S
        OBVIOUS
    <2>1. PICK s \in F : \A r \in F : r \subseteq s => r = s
        <3> HIDE DEF F
        <3> QED
            BY <2>0, LeastSet
    <2>2. PICK t \in SUBSET T : Match(s, t) /\ ~(h[s] <= k[t])
        BY <2>1
    <2>3. h[s] \in Nat /\ k[t] \in Nat /\ s \in SUBSET S
        BY <1>3, <2>1
    <2>4. s # {}
        <3>1. {} \in SUBSET DOMAIN f
            OBVIOUS
        <3>2. h[{}] = 0
            BY <1>1, <3>1, TallyOf
        <3> HIDE DEF Match
        <3>3. 0 <= k[t]
            BY <2>3
        <3> QED
            BY <2>2, <3>2, <3>3
    <2>5. PICK x : x \in s
        BY <2>4
    <2>6. h[s] = f[x] + h[s \ {x}] /\ h[s \ {x}] \in Nat /\ f[x] \in Nat
        BY <1>1, <1>3, <2>3, <2>5, TallyParts
    <2>7. \A u \in SUBSET T : Match(s \ {x}, u) => h[s \ {x}] <= k[u]
        <3>1. s \ {x} \in SUBSET S /\ s \ {x} # s /\ s \ {x} \subseteq s
            BY <2>3, <2>5
        <3> QED
            BY <2>1, <3>1
    <2>8. CASE f[x] = 0
        <3>1. Match(s \ {x}, t)
            BY <2>2
        <3> HIDE DEF Match
        <3>2. h[s \ {x}] <= k[t]
            BY <2>7, <3>1
        <3>3. h[s] = h[s \ {x}]
            BY <2>6, <2>8
        <3> QED
            BY <2>2, <3>2, <3>3
    <2>9. CASE x \in t /\ f[x] <= g[x] /\ f[x] # 0
        <3>1. Match(s \ {x}, t \ {x})
            BY <2>2
        <3>2. k[t] = g[x] + k[t \ {x}] /\ k[t \ {x}] \in Nat /\ g[x] \in Nat
            <4>1. g \in [T -> Int]
                OBVIOUS
            <4>2. k[t] = g[x] + k[t \ {x}]
                BY <1>2, <2>9, <4>1, TallyParts
            <4> QED
                BY <1>3, <2>9, <4>2
        <3>3. h[s \ {x}] <= k[t \ {x}]
            BY <2>7, <3>1
        <3> QED
            BY <2>2, <2>6, <2>9, <3>2, <3>3
    <2> QED
        BY <2>2, <2>5, <2>8, <2>9
<1> QED
    BY <1>1, <1>2, <1>3, <1>4

\* What adds nothing but zeros comes to zero.
LEMMA SumOfZeros ==
    ASSUME NEW S, IsFiniteSet(S), NEW f \in [S -> Nat], \A x \in S : f[x] = 0
    PROVE  SumFunction(f) = 0
<1> DEFINE g == [x \in {} |-> 0]
<1>1. g \in [{} -> Nat] /\ DOMAIN g = {} /\ g = [x \in {} |-> g[x]]
    OBVIOUS
<1>2. IsFiniteSet({})
    BY FS_EmptySet
<1> HIDE DEF g
<1>3. PICK h : Tallies(h, g) /\ SumFunction(g) = h[{}]
    BY <1>1, <1>2, SumTally
<1>4. SumFunction(g) = 0
    BY <1>1, <1>3, TallyOf
<1>5. SumFunction(f) \in Nat /\ SumFunction(f) <= SumFunction(g)
    BY <1>1, <1>2, SumGrows
<1> QED
    BY <1>4, <1>5

\* A sum of nothing, and of one term.
LEMMA SumOfFew ==
    ASSUME NEW S, NEW f \in [S -> Int]
    PROVE  /\ S = {} => SumFunction(f) = 0
           /\ \A x : S = {x} => SumFunction(f) = f[x]
<1>1. ASSUME S = {} PROVE SumFunction(f) = 0
    <2>1. IsFiniteSet(S)
        BY <1>1, FS_EmptySet
    <2>2. PICK h : Tallies(h, f) /\ SumFunction(f) = h[S]
        BY <2>1, SumTally
    <2> QED
        BY <1>1, <2>2, TallyOf
<1>2. ASSUME NEW x, S = {x} PROVE SumFunction(f) = f[x]
    <2>1. IsFiniteSet(S)
        BY <1>2, FS_Singleton
    <2>2. PICK h : Tallies(h, f) /\ SumFunction(f) = h[S]
        BY <2>1, SumTally
    <2>3. S # {} /\ Some(S) = x /\ S \ {x} = {}
        BY <1>2 DEF Some
    <2>4. h[S] = f[x] + h[{}]
        BY <2>2, <2>3, TallyOf
    <2>5. h[{}] = 0
        <3>1. {} \in SUBSET DOMAIN f
            OBVIOUS
        <3> QED
            BY <2>2, <3>1, TallyOf
    <2> QED
        BY <1>2, <2>2, <2>4, <2>5
<1> QED
    BY <1>1, <1>2

\* A sum is between its least and its greatest term, times their number.
LEMMA SumBetween ==
    ASSUME NEW S, IsFiniteSet(S), NEW f \in [S -> Int], NEW low \in Int, NEW high \in Int,
           \A x \in S : low <= f[x] /\ f[x] <= high
    PROVE  /\ SumFunction(f) \in Int /\ Cardinality(S) \in Nat
           /\ low * Cardinality(S) <= SumFunction(f)
           /\ SumFunction(f) <= high * Cardinality(S)
<1>1. PICK h : Tallies(h, f) /\ SumFunction(f) = h[S]
    BY SumTally
<1>2. \A s \in SUBSET S : h[s] \in Int /\ Cardinality(s) \in Nat /\ IsFiniteSet(s)
    BY <1>1, TallyType, FS_Subset, FS_CardinalityType
<1> DEFINE Between(s) == low * Cardinality(s) <= h[s] /\ h[s] <= high * Cardinality(s)
           F == {s \in SUBSET S : ~Between(s)}
<1>3. F = {}
    <2> SUFFICES ASSUME F # {} PROVE FALSE
        OBVIOUS
    <2>0. F \in SUBSET SUBSET S
        OBVIOUS
    <2>1. PICK s \in F : \A r \in F : r \subseteq s => r = s
        <3> HIDE DEF F
        <3> QED
            BY <2>0, LeastSet
    <2>2. CASE s = {}
        <3>1. h[s] = 0 /\ Cardinality(s) = 0
            BY <1>1, <2>1, <2>2, TallyOf, FS_EmptySet
        <3>2. low * 0 = 0 /\ high * 0 = 0
            OBVIOUS
        <3> QED
            BY <2>1, <3>1, <3>2
    <2>3. CASE s # {}
        <3> DEFINE x == Some(s)
                   n == Cardinality(s \ {x})
                   rest == h[s \ {x}]
        <3>1. x \in s /\ h[s] = f[x] + rest
            <4>1. s \in SUBSET DOMAIN f
                BY <2>1
            <4> QED
                BY <1>1, <2>3, <4>1, TallyOf
        <3>2. Between(s \ {x})
            BY <2>1, <3>1
        <3>3. n \in Nat /\ rest \in Int /\ f[x] \in Int /\ low <= f[x] /\ f[x] <= high
            BY <1>2, <2>1, <3>1
        <3>4. Cardinality(s) = n + 1
            BY <1>2, <2>1, <3>1, FS_RemoveElement
        <3>5. low * n <= rest /\ rest <= high * n
            BY <3>2
        <3> HIDE DEF x, n, rest
        <3>6. low * (n + 1) = low * n + low /\ high * (n + 1) = high * n + high
            BY <3>3, Z3T(30)
        <3>7. low * n \in Int /\ high * n \in Int
            BY <3>3
        <3> DEFINE ln == low * n
                   hn == high * n
        <3>8. ln + low <= f[x] + rest /\ f[x] + rest <= hn + high
            <4>1. ln \in Int /\ hn \in Int /\ ln <= rest /\ rest <= hn
                BY <3>5, <3>7
            <4> HIDE DEF ln, hn
            <4> QED
                BY <3>3, <4>1
        <3>9. Between(s)
            BY <3>1, <3>4, <3>6, <3>8
        <3> QED
            BY <2>1, <3>9
    <2> QED
        BY <2>2, <2>3
<1> QED
    BY <1>1, <1>2, <1>3

===============================================================================
