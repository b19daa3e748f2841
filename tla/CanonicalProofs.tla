---------------------------- MODULE CanonicalProofs ----------------------------
(***************************************************************************)
(* What a version keeps of its file, for every file: the rows and keys, in *)
(* order, and values the models can use.                                   *)
(*                                                                         *)
(* Most of it is what the operators of Canonical do to a sequence of rows: *)
(* merging those of a key, aggregating, sorting.  The inductive invariant  *)
(* then says what data is at each check, up to the sorted rows that are    *)
(* returned.                                                               *)
(***************************************************************************)
EXTENDS Canonical, Sums

-----------------------------------------------------------------------------
(* Numbers *)

\* A nonempty finite set of integers has a least and a greatest element.
LEMMA Extremes ==
    ASSUME NEW S \in SUBSET Int, IsFiniteSet(S), S # {}
    PROVE  /\ \E low \in S : \A x \in S : low <= x
           /\ Max(S) \in S /\ \A x \in S : x <= Max(S)
<1> DEFINE Less == {pair \in S \X S : pair[1] < pair[2]}
           More == {pair \in S \X S : pair[1] > pair[2]}
<1>1. /\ \A x, y \in S : <<x, y>> \in Less <=> x < y
      /\ \A x, y \in S : <<x, y>> \in More <=> x > y
    OBVIOUS
<1> HIDE DEF Less, More
<1>2. \E low \in S : \A x \in S : low <= x
    <2>1. /\ \A x \in S : <<x, x>> \notin Less
          /\ \A x, y, z \in S : <<x, y>> \in Less /\ <<y, z>> \in Less => <<x, z>> \in Less
        BY <1>1
    <2>2. PICK low \in S : \A x \in S : <<x, low>> \notin Less
        BY <2>1, FirstExists, Zenon
    <2>3. \A x \in S : ~(x < low)
        BY <1>1, <2>2
    <2>4. \A x, y \in Int : ~(x < y) => y <= x
        OBVIOUS
    <2> QED
        BY <2>3, <2>4
<1>3. \E high \in S : \A x \in S : high >= x
    <2>1. /\ \A x \in S : <<x, x>> \notin More
          /\ \A x, y, z \in S : <<x, y>> \in More /\ <<y, z>> \in More => <<x, z>> \in More
        BY <1>1
    <2>2. PICK high \in S : \A x \in S : <<x, high>> \notin More
        BY <2>1, FirstExists, Zenon
    <2>3. \A x \in S : ~(x > high)
        BY <1>1, <2>2
    <2>4. \A x, y \in Int : ~(x > y) => y >= x
        OBVIOUS
    <2> QED
        BY <2>3, <2>4
<1> QED
    BY <1>2, <1>3 DEF Max

\* A mean is between what bounds the sum.
LEMMA Quotient ==
    ASSUME NEW total \in Int, NEW n \in Nat \ {0}, NEW low \in Int, NEW high \in Int,
           low * n <= total, total <= high * n
    PROVE  /\ total \div n \in Int
           /\ low <= total \div n /\ total \div n <= high
<1> DEFINE q == total \div n
<1>1. q \in Int /\ n * q <= total /\ total < n * q + n
    BY Z3T(30)
<1> HIDE DEF q
<1>2. n * q <= high * n
    BY <1>1, Z3T(30)
<1>3. q <= high
    BY <1>1, <1>2, Z3T(30)
<1>4. low * n < n * q + n
    BY <1>1, Z3T(30)
<1>5. low < q + 1
    BY <1>1, <1>4, Z3T(30)
<1> QED
    BY <1>1, <1>3, <1>5 DEF q

-----------------------------------------------------------------------------
(* Rows of the same key *)

\* A row of a file that has passed the check of its values.
Valid ==
    [item : Int, time : Int, target : Int \cup {Null},
     weight : Int \cup {Null, NaN}, attribute : Attributes]

\* The rows of a key that occurs are finitely many, and one is the last.
LEMMA OfKey ==
    ASSUME NEW rows \in Seq(Valid), NEW key \in KeysOf(rows)
    PROVE  LET at == Of(rows, key) IN
           /\ at \subseteq DOMAIN rows /\ IsFiniteSet(at)
           /\ Max(at) \in at /\ rows[Max(at)] \in Valid
           /\ \A i \in at : KeyOf(rows[i]) = key /\ i <= Max(at)
<1> DEFINE at == Of(rows, key)
<1>1. at \subseteq DOMAIN rows /\ at # {} /\ \A i \in at : KeyOf(rows[i]) = key
    BY DEF Of, KeysOf
<1>2. DOMAIN rows = 1..Len(rows) /\ Len(rows) \in Nat
    OBVIOUS
<1> HIDE DEF at
<1>3. IsFiniteSet(at)
    <2>1. IsFiniteSet(1..Len(rows))
        BY <1>2, FS_Interval
    <2> QED
        BY <1>1, <1>2, <2>1, FS_Subset
<1>4. at \in SUBSET Int
    BY <1>1, <1>2
<1>5. Max(at) \in at /\ \A i \in at : i <= Max(at)
    BY <1>1, <1>3, <1>4, Extremes
<1> QED
    BY <1>1, <1>2, <1>3, <1>5 DEF at

\* What the targets of some rows add up to.
LEMMA TotalOf ==
    ASSUME NEW rows \in Seq(Valid), NEW at \in SUBSET DOMAIN rows, IsFiniteSet(at)
    PROVE  LET present == Present(rows, at)
               targets == [i \in present |-> rows[i].target]
           IN  /\ present \subseteq at /\ IsFiniteSet(present)
               /\ targets \in [present -> Int]
               /\ Total(rows, at) = SumFunction(targets)
               /\ Total(rows, at) \in Int
<1> DEFINE present == Present(rows, at)
           targets == [i \in present |-> rows[i].target]
<1>1. present \subseteq at
    BY DEF Present
<1>2. IsFiniteSet(present)
    BY <1>1, FS_Subset
<1>3. targets \in [present -> Int]
    <2>1. \A i \in at : rows[i] \in Valid
        OBVIOUS
    <2>2. \A i \in present : rows[i].target \in Int
        BY <1>1, <2>1 DEF Present, Valid
    <2> QED
        BY <2>2
<1>4. Total(rows, at) = SumFunction(targets)
    BY DEF Total
<1> HIDE DEF present, targets
<1>5. SumFunction(targets) \in Int
    <2>1. PICK h : Tallies(h, targets) /\ SumFunction(targets) = h[present]
        BY <1>2, <1>3, SumTally
    <2> QED
        BY <1>2, <1>3, <2>1, TallyType
<1> QED
    BY <1>1, <1>2, <1>3, <1>4, <1>5 DEF present, targets

\* A mean lies between two of the targets it is made of, and is absent if all of
\* them are.
LEMMA MeanOf ==
    ASSUME NEW rows \in Seq(Valid), NEW at \in SUBSET DOMAIN rows, IsFiniteSet(at)
    PROVE  IF Present(rows, at) = {} THEN Mean(rows, at) = Null
           ELSE /\ Mean(rows, at) \in Int
                /\ \E i, j \in Present(rows, at) :
                    rows[i].target <= Mean(rows, at) /\ Mean(rows, at) <= rows[j].target
<1> DEFINE present == Present(rows, at)
           targets == [i \in present |-> rows[i].target]
           values == {targets[i] : i \in present}
<1>1. CASE present = {}
    BY <1>1 DEF Mean
<1>2. CASE present # {}
    <2>1. /\ IsFiniteSet(present) /\ targets \in [present -> Int]
          /\ Total(rows, at) = SumFunction(targets) /\ Total(rows, at) \in Int
        BY TotalOf
    <2>2. Mean(rows, at) = Total(rows, at) \div Cardinality(present)
        BY <1>2 DEF Mean
    <2>3. \A i \in present : targets[i] = rows[i].target
        OBVIOUS
    <2> HIDE DEF present, targets
    <2>4. values \in SUBSET Int /\ values # {}
        BY <1>2, <2>1
    <2>5. IsFiniteSet(values)
        <3>1. targets \in Surjection(present, values)
            BY <2>1 DEF Surjection
        <3> QED
            BY <2>1, <3>1, FS_Surjection
    <2>6. PICK i \in present, j \in present :
                \A k \in present : targets[i] <= targets[k] /\ targets[k] <= targets[j]
        <3>1. \A k \in present : targets[k] \in values
            OBVIOUS
        <3>2. \A x \in values : \E k \in present : x = targets[k]
            OBVIOUS
        <3> HIDE DEF values
        <3>3. PICK low \in values : \A x \in values : low <= x
            BY <2>4, <2>5, Extremes
        <3>4. PICK high \in values : \A x \in values : x <= high
            BY <2>4, <2>5, Extremes
        <3>5. PICK i \in present, j \in present : low = targets[i] /\ high = targets[j]
            BY <3>2, <3>3, <3>4
        <3> QED
            BY <3>1, <3>3, <3>4, <3>5
    <2>7. Cardinality(present) \in Nat \ {0}
        BY <1>2, <2>1, FS_CardinalityType, FS_EmptySet
    <2> DEFINE low == targets[i]
               high == targets[j]
    <2>8. low \in Int /\ high \in Int /\ \A k \in present : low <= targets[k] /\ targets[k] <= high
        BY <2>1, <2>6
    <2> HIDE DEF low, high
    <2>9. /\ low * Cardinality(present) <= Total(rows, at)
          /\ Total(rows, at) <= high * Cardinality(present)
        BY <2>1, <2>8, SumBetween
    <2>10. Mean(rows, at) \in Int /\ low <= Mean(rows, at) /\ Mean(rows, at) <= high
        BY <2>1, <2>2, <2>7, <2>8, <2>9, Quotient
    <2> QED
        BY <1>2, <2>3, <2>10 DEF present, low, high
<1> QED
    BY <1>1, <1>2

\* A row that rows of a key are merged into has this key, and a target that is
\* absent or a number.
LEMMA MergedRow ==
    ASSUME NEW policy \in Policies, NEW rows \in Seq(Valid), NEW key \in KeysOf(rows)
    PROVE  LET at == Of(rows, key)
               row == Merged(policy, rows, at)
           IN  /\ row \in Valid /\ KeyOf(row) = key
               /\ row.target = Combined(policy, rows, at)
<1> DEFINE at == Of(rows, key)
           last == rows[Max(at)]
           target == Combined(policy, rows, at)
<1>1. /\ at \in SUBSET DOMAIN rows /\ IsFiniteSet(at) /\ last \in Valid /\ KeyOf(last) = key
    BY OfKey
<1>2. target \in Int \cup {Null}
    <2>1. Total(rows, at) \in Int
        BY <1>1, TotalOf
    <2>2. Mean(rows, at) \in Int \cup {Null}
        BY <1>1, MeanOf
    <2>3. last.target \in Int \cup {Null}
        BY <1>1 DEF Valid
    <2> QED
        BY <2>1, <2>2, <2>3 DEF Combined
<1>3. Merged(policy, rows, at) = [last EXCEPT !.target = target]
    BY DEF Merged
<1> HIDE DEF at, last, target
<1>4. ASSUME NEW row \in Valid, NEW value \in Int \cup {Null}
      PROVE  /\ [row EXCEPT !.target = value] \in Valid
             /\ [row EXCEPT !.target = value].target = value
             /\ KeyOf([row EXCEPT !.target = value]) = KeyOf(row)
    BY <1>4 DEF Valid, KeyOf
<1> QED
    BY <1>1, <1>2, <1>3, <1>4 DEF at, last, target

\* A row whose key occurs once stays as it is, but for a sum of nothing.
LEMMA MergedAlone ==
    ASSUME NEW policy \in Policies, NEW rows \in Seq(Valid), NEW i \in DOMAIN rows,
           Of(rows, KeyOf(rows[i])) = {i}
    PROVE  \/ Merged(policy, rows, {i}) = rows[i]
           \/ /\ policy = "sum" /\ rows[i].target = Null
              /\ Merged(policy, rows, {i}) = [rows[i] EXCEPT !.target = 0]
<1> DEFINE targets == [j \in Present(rows, {i}) |-> rows[j].target]
<1>0. i \in Int /\ rows[i] \in Valid /\ IsFiniteSet({i})
    <2>1. IsFiniteSet({i})
        BY FS_Singleton
    <2> QED
        BY <2>1
<1>1. Max({i}) = i
    BY <1>0 DEF Max
<1>2. Merged(policy, rows, {i}) = [rows[i] EXCEPT !.target = Combined(policy, rows, {i})]
    BY <1>1 DEF Merged
<1>3. [rows[i] EXCEPT !.target = rows[i].target] = rows[i]
    BY <1>0 DEF Valid
<1>4. targets \in [Present(rows, {i}) -> Int] /\ Total(rows, {i}) = SumFunction(targets)
    BY <1>0, TotalOf
<1>5. CASE rows[i].target = Null
    <2>1. Present(rows, {i}) = {}
        BY <1>5 DEF Present
    <2>2. Total(rows, {i}) = 0
        BY <1>4, <2>1, SumOfFew
    <2>3. Combined(policy, rows, {i}) = IF policy = "sum" THEN 0 ELSE rows[i].target
        BY <1>1, <1>5, <2>1, <2>2 DEF Combined, Mean
    <2> QED
        BY <1>2, <1>3, <1>5, <2>3
<1>6. CASE rows[i].target # Null
    <2>1. Present(rows, {i}) = {i}
        BY <1>6 DEF Present
    <2>2. SumFunction(targets) = targets[i]
        <3> HIDE DEF targets
        <3> QED
            BY <1>4, <2>1, SumOfFew
    <2>3. Total(rows, {i}) = rows[i].target /\ rows[i].target \in Int
        <3>1. i \in Present(rows, {i})
            BY <2>1
        <3>2. targets[i] = rows[i].target
            BY <3>1
        <3>3. rows[i].target \in Int
            BY <1>0, <1>6 DEF Valid
        <3> QED
            BY <1>4, <2>2, <3>2, <3>3
    <2>4. Mean(rows, {i}) = rows[i].target
        <3>1. Cardinality({i}) = 1
            BY FS_Singleton
        <3>2. Mean(rows, {i}) = rows[i].target \div 1
            BY <2>1, <2>3, <3>1 DEF Mean
        <3>3. \A n \in Int : n \div 1 = n
            OBVIOUS
        <3> QED
            BY <2>3, <3>2, <3>3
    <2>5. Combined(policy, rows, {i}) = rows[i].target
        BY <1>1, <2>3, <2>4 DEF Combined
    <2> QED
        BY <1>2, <1>3, <2>5
<1> QED
    BY <1>5, <1>6

-----------------------------------------------------------------------------
(* Frames *)

\* A sequence of rows is a function on an interval, whose range is finite.
LEMMA FrameShape ==
    ASSUME NEW rows \in Seq(Valid)
    PROVE  /\ Len(rows) \in Nat /\ DOMAIN rows = 1..Len(rows)
           /\ rows \in [1..Len(rows) -> Valid]
           /\ IsFiniteSet(1..Len(rows)) /\ Cardinality(1..Len(rows)) = Len(rows)
           /\ rows \in Surjection(1..Len(rows), Range(rows))
           /\ IsFiniteSet(Range(rows)) /\ Range(rows) \subseteq Valid
<1>1. Len(rows) \in Nat /\ DOMAIN rows = 1..Len(rows) /\ rows \in [1..Len(rows) -> Valid]
    OBVIOUS
<1>2. IsFiniteSet(1..Len(rows)) /\ Cardinality(1..Len(rows)) = Len(rows)
    BY <1>1, FS_Interval
<1>3. rows \in Surjection(1..Len(rows), Range(rows)) /\ Range(rows) \subseteq Valid
    BY <1>1 DEF Surjection, Range
<1> QED
    BY <1>1, <1>2, <1>3, FS_Surjection

\* A set of rows as a sequence has each of them once.
LEMMA AsSequence ==
    ASSUME NEW S \in SUBSET Valid, IsFiniteSet(S)
    PROVE  LET rows == SetToSeq(S) IN
           /\ rows \in Seq(Valid) /\ Range(rows) = S
           /\ \A i, j \in DOMAIN rows : rows[i] = rows[j] => i = j
<1> DEFINE rows == SetToSeq(S)
           n == Cardinality(S)
<1>1. \E f \in [1..n -> S] : IsInjective(f)
    BY FS_CardinalityType DEF ExistsBijection, Bijection, Injection
<1>2. rows \in [1..n -> S] /\ IsInjective(rows)
    BY <1>1 DEF SetToSeq
<1>3. n \in Nat
    BY FS_CardinalityType
<1> HIDE DEF rows, n
<1>4. rows \in Seq(Valid) /\ DOMAIN rows = 1..n
    BY <1>2, <1>3
<1>5. Cardinality(1..n) = n
    BY <1>3, FS_Interval
<1>6. rows \in Surjection(1..n, S)
    <2>1. rows \in Injection(1..n, S)
        BY <1>2 DEF Injection
    <2> QED
        BY <1>5, <2>1, FS_Injection DEF n
<1>7. Range(rows) = S
    BY <1>2, <1>6 DEF Surjection, Range
<1>8. \A i, j \in DOMAIN rows : rows[i] = rows[j] => i = j
    BY <1>2 DEF IsInjective
<1> QED
    BY <1>4, <1>7, <1>8 DEF rows

\* Rows with the same range have the same keys.
LEMMA SameKeys ==
    ASSUME NEW rows, NEW others, Range(rows) = Range(others)
    PROVE  KeysOf(rows) = KeysOf(others)
<1>1. KeysOf(rows) = {KeyOf(row) : row \in Range(rows)}
    BY DEF KeysOf, Range
<1>2. KeysOf(others) = {KeyOf(row) : row \in Range(others)}
    BY DEF KeysOf, Range
<1> QED
    BY <1>1, <1>2

\* Aggregation leaves one row for each key, merged from the rows of that key.
LEMMA AggregatedFrame ==
    ASSUME NEW policy \in Policies, NEW rows \in Seq(Valid)
    PROVE  LET out == Aggregate(policy, rows)
               merged(key) == Merged(policy, rows, Of(rows, key))
           IN  /\ out \in Seq(Valid) /\ ~HasDuplicates(out) /\ KeysOf(out) = KeysOf(rows)
               /\ Range(out) = {merged(key) : key \in KeysOf(rows)}
<1> DEFINE out == Aggregate(policy, rows)
           merged(key) == Merged(policy, rows, Of(rows, key))
           S == {merged(key) : key \in KeysOf(rows)}
           Dom == 1..Len(rows)
           f == [i \in Dom |-> merged(KeyOf(rows[i]))]
<1>1. \A key \in KeysOf(rows) : merged(key) \in Valid /\ KeyOf(merged(key)) = key
    BY MergedRow
<1>2. IsFiniteSet(Dom) /\ DOMAIN rows = Dom
    BY FrameShape
<1> HIDE DEF merged, Dom
<1>3. f \in Surjection(Dom, S)
    <2>1. KeysOf(rows) = {KeyOf(rows[i]) : i \in Dom}
        BY <1>2 DEF KeysOf
    <2>2. \A i \in Dom : f[i] \in S
        BY <2>1
    <2>3. \A row \in S : \E i \in Dom : f[i] = row
        BY <2>1
    <2> QED
        BY <2>2, <2>3 DEF Surjection
<1> HIDE DEF f
<1>4. IsFiniteSet(S) /\ S \in SUBSET Valid
    BY <1>1, <1>2, <1>3, FS_Surjection
<1>5. out = SetToSeq(S)
    BY DEF Aggregate, merged
<1> HIDE DEF out, S
<1>6. /\ out \in Seq(Valid) /\ Range(out) = S
      /\ \A i, j \in DOMAIN out : out[i] = out[j] => i = j
    BY <1>4, <1>5, AsSequence
<1>7. \A row \in S : \E key \in KeysOf(rows) : row = merged(key) /\ KeyOf(row) = key
    BY <1>1 DEF S
<1>8. ~HasDuplicates(out)
    <2> SUFFICES ASSUME NEW i \in DOMAIN out, NEW j \in DOMAIN out, i # j,
                        KeyOf(out[i]) = KeyOf(out[j])
                 PROVE  FALSE
        BY DEF HasDuplicates
    <2>1. out[i] \in S /\ out[j] \in S
        BY <1>6 DEF Range
    <2>2. out[i] = out[j]
        BY <1>7, <2>1
    <2> QED
        BY <1>6, <2>2
<1>9. KeysOf(out) = KeysOf(rows)
    <2>1. KeysOf(out) = {KeyOf(row) : row \in S}
        BY <1>6 DEF KeysOf, Range
    <2>2. \A key \in KeysOf(rows) : merged(key) \in S
        BY DEF S
    <2> QED
        BY <1>1, <1>7, <2>1, <2>2
<1> QED
    BY <1>6, <1>8, <1>9 DEF out, S, merged

\* Of two rows with different keys one comes before the other.
LEMMA BeforeOrders ==
    ASSUME NEW S \in SUBSET Valid, \A q, r \in S : KeyOf(q) = KeyOf(r) => q = r
    PROVE  /\ \A r \in S : ~Before(r, r)
           /\ \A q, r \in S : q # r => Before(q, r) \/ Before(r, q)
           /\ \A p, q, r \in S : Before(p, q) /\ Before(q, r) => Before(p, r)
<1>1. \A r \in S : r.item \in Int /\ r.time \in Int
    BY DEF Valid
<1>2. \A q, r \in S : q.item = r.item /\ q.time = r.time => q = r
    BY DEF KeyOf
<1> QED
    BY <1>1, <1>2 DEF Before

\* Sorting rows of different keys puts them in ascending order, and loses none.
LEMMA SortedFrame ==
    ASSUME NEW rows \in Seq(Valid), ~HasDuplicates(rows)
    PROVE  LET out == Sorted(rows) IN
           /\ DOMAIN out = DOMAIN rows /\ Range(out) = Range(rows)
           /\ \A i, j \in DOMAIN out : i < j => Before(out[i], out[j])
<1> DEFINE R == Range(rows)
           n == Len(rows)
           below(r) == {q \in R : Before(q, r)}
           rank == [r \in R |-> Cardinality(below(r))]
           out == Sorted(rows)
<1>1. /\ n \in Nat /\ DOMAIN rows = 1..n /\ IsFiniteSet(1..n) /\ Cardinality(1..n) = n
      /\ rows \in Surjection(1..n, R) /\ IsFiniteSet(R) /\ R \subseteq Valid
    BY FrameShape
<1>2. \A q, r \in R : KeyOf(q) = KeyOf(r) => q = r
    BY DEF HasDuplicates, Range
<1>3. Cardinality(R) = n
    <2>1. \A i, j \in DOMAIN rows : rows[i] = rows[j] => i = j
        BY DEF HasDuplicates
    <2>2. rows \in Injection(1..n, R)
        BY <1>1, <2>1 DEF Surjection, Injection, IsInjective
    <2> QED
        BY <1>1, <2>2, FS_Surjection
<1>o. out = [k \in 1..n |-> CHOOSE r \in R : Cardinality(below(r)) = k - 1]
    BY <1>1 DEF Sorted
<1> HIDE DEF R, n, out
<1>4. /\ \A r \in R : ~Before(r, r)
      /\ \A q, r \in R : q # r => Before(q, r) \/ Before(r, q)
      /\ \A p, q, r \in R : Before(p, q) /\ Before(q, r) => Before(p, r)
    BY <1>1, <1>2, BeforeOrders
<1>5. ASSUME NEW r \in R
      PROVE  IsFiniteSet(below(r)) /\ rank[r] = Cardinality(below(r)) /\ rank[r] \in 0..(n - 1)
    <2>1. below(r) \in SUBSET (R \ {r})
        BY <1>4
    <2>2. IsFiniteSet(R \ {r}) /\ Cardinality(R \ {r}) = n - 1
        BY <1>1, <1>3, FS_RemoveElement
    <2>3. rank[r] = Cardinality(below(r))
        OBVIOUS
    <2> HIDE DEF below, rank
    <2>4. IsFiniteSet(below(r)) /\ Cardinality(below(r)) <= n - 1
        BY <2>1, <2>2, FS_Subset
    <2>5. Cardinality(below(r)) \in Nat
        BY <2>4, FS_CardinalityType
    <2> QED
        BY <1>1, <2>3, <2>4, <2>5
<1> HIDE DEF rank
<1>r. \A r \in R : rank[r] \in 0..(n - 1) /\ rank[r] \in Int
    <2>1. \A r \in R : rank[r] \in 0..(n - 1)
        BY <1>5
    <2>2. \A k \in 0..(n - 1) : k \in Int
        OBVIOUS
    <2> QED
        BY <2>1, <2>2
<1>6. ASSUME NEW q \in R, NEW r \in R, Before(q, r)
      PROVE  rank[q] < rank[r]
    <2>1. below(q) \in SUBSET below(r) /\ below(q) # below(r)
        <3>1. q \in below(r) /\ q \notin below(q)
            BY <1>4, <1>6
        <3>2. \A p \in below(q) : p \in below(r)
            BY <1>4, <1>6
        <3> QED
            BY <3>1, <3>2
    <2> HIDE DEF below
    <2>2. /\ IsFiniteSet(below(r))
          /\ rank[r] = Cardinality(below(r)) /\ rank[q] = Cardinality(below(q))
        BY <1>5
    <2>3. rank[q] <= rank[r] /\ rank[q] # rank[r]
        BY <2>1, <2>2, FS_Subset
    <2> QED
        BY <1>r, <2>3
<1>7. \A q, r \in R : rank[q] = rank[r] => q = r
    BY <1>4, <1>6, <1>r
<1> DEFINE place == [r \in R |-> rank[r] + 1]
<1>8. place \in Surjection(R, 1..n)
    <2>1. place \in [R -> 1..n]
        <3>1. \A r \in R : rank[r] + 1 \in 1..n
            BY <1>1, <1>r
        <3> QED
            BY <3>1
    <2>2. \A q, r \in R : place[q] = place[r] => q = r
        BY <1>7, <1>r
    <2> HIDE DEF place
    <2>3. place \in Injection(R, 1..n)
        BY <2>1, <2>2 DEF Injection, IsInjective
    <2> QED
        BY <1>1, <1>3, <2>3, FS_Injection
<1>9. ASSUME NEW k \in 1..n
      PROVE  out[k] \in R /\ rank[out[k]] = k - 1
    <2>1. PICK r \in R : place[r] = k
        BY <1>8 DEF Surjection
    <2>2. rank[r] = k - 1
        BY <1>r, <2>1
    <2>3. out[k] = CHOOSE q \in R : Cardinality(below(q)) = k - 1
        BY <1>o
    <2> HIDE DEF below, place
    <2>4. \A q \in R : rank[q] = Cardinality(below(q))
        BY <1>5
    <2> QED
        BY <2>2, <2>3, <2>4
<1>10. Range(out) = R
    <2>0. DOMAIN out = 1..n
        BY <1>o
    <2>1. \A k \in DOMAIN out : out[k] \in R
        BY <1>9, <2>0
    <2>2. ASSUME NEW r \in R PROVE \E k \in DOMAIN out : out[k] = r
        <3>1. rank[r] + 1 \in 1..n /\ (rank[r] + 1) - 1 = rank[r]
            BY <1>1, <1>r
        <3>2. out[rank[r] + 1] = r
            BY <1>7, <1>9, <3>1
        <3> QED
            BY <2>0, <3>1, <3>2
    <2> QED
        BY <2>1, <2>2 DEF Range
<1>11. ASSUME NEW i \in 1..n, NEW j \in 1..n, i < j
       PROVE  Before(out[i], out[j])
    <2>1. out[i] \in R /\ rank[out[i]] = i - 1 /\ out[j] \in R /\ rank[out[j]] = j - 1
        BY <1>9
    <2>2. i - 1 # j - 1 /\ ~(j - 1 < i - 1)
        BY <1>1, <1>11
    <2>3. out[i] # out[j]
        BY <2>1, <2>2
    <2>4. ~Before(out[j], out[i])
        BY <1>6, <2>1, <2>2
    <2> QED
        BY <1>4, <2>1, <2>3, <2>4
<1>12. DOMAIN out = 1..n
    BY <1>o
<1> QED
    BY <1>1, <1>10, <1>11, <1>12 DEF R, n, out

-----------------------------------------------------------------------------
(* The inductive invariant *)

\* What is sorted in the end.
Whole == IF HasDuplicates(Source) THEN Aggregate(manifest.policy, Source) ELSE Source

CanonicalInv ==
    /\ table \in Tables /\ manifest \in Manifests
    /\ check \in {"columns", "values", "weights", "attributes", "keys", "sign", "done", "rejected"}
    /\ check \in {"values", "weights", "attributes", "keys"} => data = Source
    /\ check \in {"weights", "attributes", "keys", "sign", "done"} => Source \in Seq(Valid)
    /\ check \in {"attributes", "keys", "sign", "done"} /\ "weight" \in manifest.declared =>
        \E w \in Values("weight", Source) : w > 0
    /\ check \in {"sign", "done"} /\ HasDuplicates(Source) => manifest.policy # "reject"
    /\ check = "sign" => data = Whole
    /\ check = "done" => data = Sorted(Whole)

\* The file as the version sees it has as many rows, and they are rows.
LEMMA SourceRows ==
    ASSUME table \in Tables
    PROVE  /\ Source \in Seq(FileRows)
           /\ Source = IF "item" \in manifest.declared THEN table
                       ELSE [i \in DOMAIN table |-> [table[i] EXCEPT !.item = Single]]
<1>1. table \in Seq(FileRows) /\ Single \in Int
    BY CanonicalAssumption
<1>2. \A i \in DOMAIN table : table[i] \in FileRows
    BY <1>1
<1>3. ASSUME NEW row \in FileRows
      PROVE  [row EXCEPT !.item = row.item] = row /\ [row EXCEPT !.item = Single] \in FileRows
    BY <1>1, <1>3 DEF FileRows
<1>4. CASE "item" \in manifest.declared
    <2>1. Source = [i \in DOMAIN table |-> [table[i] EXCEPT !.item = table[i].item]]
        BY <1>4 DEF Source
    <2>2. Source = [i \in DOMAIN table |-> table[i]]
        BY <1>2, <1>3, <2>1
    <2>3. table = [i \in DOMAIN table |-> table[i]]
        BY <1>1
    <2> QED
        BY <1>1, <1>4, <2>2, <2>3
<1>5. CASE "item" \notin manifest.declared
    <2>1. Source = [i \in DOMAIN table |-> [table[i] EXCEPT !.item = Single]]
        BY <1>5 DEF Source
    <2>2. \A i \in DOMAIN table : [table[i] EXCEPT !.item = Single] \in FileRows
        BY <1>2, <1>3
    <2>3. DOMAIN table = 1..Len(table) /\ Len(table) \in Nat
        BY <1>1
    <2> QED
        BY <1>5, <2>1, <2>2, <2>3
<1> QED
    BY <1>4, <1>5

\* Rows whose times are present and whose targets are finite or absent.
LEMMA ValuesValid ==
    ASSUME NEW file \in Seq(FileRows),
           Null \notin Values("time", file), NaN \notin Values("target", file)
    PROVE  file \in Seq(Valid)
<1>1. \A i \in DOMAIN file : file[i] \in FileRows /\ file[i].time # Null /\ file[i].target # NaN
    BY DEF Values
<1>2. ASSUME NEW row \in FileRows, row.time # Null, row.target # NaN
      PROVE  row \in Valid
    BY <1>2 DEF FileRows, Valid
<1>3. \A i \in DOMAIN file : file[i] \in Valid
    BY <1>1, <1>2
<1>4. DOMAIN file = 1..Len(file) /\ Len(file) \in Nat /\ file = [i \in 1..Len(file) |-> file[i]]
    OBVIOUS
<1> QED
    BY <1>3, <1>4

\* The invariant holds of the file.
LEMMA InvInit == CanonicalInit => CanonicalInv
BY DEF CanonicalInit, CanonicalInv

\* Every check keeps it.
LEMMA InvStep == CanonicalInv /\ [CanonicalNext]_canonicalVars => CanonicalInv'
<1> SUFFICES ASSUME CanonicalInv, [CanonicalNext]_canonicalVars PROVE CanonicalInv'
    OBVIOUS
<1>1. table' = table /\ manifest' = manifest
    BY DEF CanonicalNext, canonicalVars, ReadColumns, CheckValues, CheckWeights, CheckAttributes,
        MergeDuplicates, CheckSignAndSort, Check
<1>2. Source' = Source /\ Whole' = Whole /\ Values("weight", Source)' = Values("weight", Source)
    BY <1>1 DEF Source, Whole, Values
<1>d. HasDuplicates(Source)' = HasDuplicates(Source)
    BY <1>2 DEF HasDuplicates
<1>3. ASSUME check' = "rejected" PROVE CanonicalInv'
    BY <1>1, <1>3 DEF CanonicalInv
<1>4. ASSUME NEW columns, ReadColumns(columns) PROVE CanonicalInv'
    <2>1. check' = "values" => data' = Source
        BY <1>4, SourceRows DEF CanonicalInv, ReadColumns, Check
    <2>2. check' \in {"values", "rejected"}
        BY <1>4 DEF ReadColumns, Check
    <2> QED
        BY <1>1, <1>2, <2>1, <2>2 DEF CanonicalInv
<1>5. CASE CheckValues
    <2>1. CASE check' = "weights"
        <3>1. /\ data = Source /\ data' = Source
              /\ Null \notin Values("time", Source) /\ NaN \notin Values("target", Source)
            BY <1>5, <2>1 DEF CanonicalInv, CheckValues, Check
        <3>2. Source \in Seq(Valid)
            BY <3>1, SourceRows, ValuesValid DEF CanonicalInv
        <3> QED
            BY <1>1, <1>2, <2>1, <3>1, <3>2 DEF CanonicalInv
    <2> QED
        BY <1>3, <1>5, <2>1 DEF CheckValues, Check
<1>6. CASE CheckWeights
    <2>1. CASE check' = "attributes"
        <3>1. /\ data = Source /\ data' = Source /\ Source \in Seq(Valid)
              /\ "weight" \in manifest.declared => \E w \in Values("weight", Source) : w > 0
            BY <1>6, <2>1 DEF CanonicalInv, CheckWeights, Check
        <3> QED
            BY <1>1, <1>2, <2>1, <3>1 DEF CanonicalInv
    <2> QED
        BY <1>3, <1>6, <2>1 DEF CheckWeights, Check
<1>7. CASE CheckAttributes
    <2>1. CASE check' = "keys"
        <3>1. check = "attributes" /\ data' = data
            BY <1>7, <2>1 DEF CheckAttributes, Check
        <3> QED
            BY <1>1, <1>2, <2>1, <3>1 DEF CanonicalInv
    <2> QED
        BY <1>3, <1>7, <2>1 DEF CheckAttributes, Check
<1>8. CASE MergeDuplicates
    <2>1. CASE check' = "sign"
        <3>1. /\ check = "keys" /\ data = Source /\ data' = Whole
              /\ HasDuplicates(Source) => manifest.policy # "reject"
            BY <1>8, <2>1 DEF CanonicalInv, MergeDuplicates, Check, Whole
        <3> QED
            BY <1>1, <1>2, <1>d, <2>1, <3>1 DEF CanonicalInv
    <2> QED
        BY <1>3, <1>8, <2>1 DEF MergeDuplicates, Check
<1>9. CASE CheckSignAndSort
    <2>1. CASE check' = "done"
        <3>1. check = "sign" /\ data' = Sorted(Whole)
            BY <1>9, <2>1 DEF CanonicalInv, CheckSignAndSort, Check
        <3>2. Sorted(Whole)' = Sorted(Whole)
            BY <1>2 DEF Sorted, Range, Before
        <3> QED
            BY <1>1, <1>2, <1>d, <2>1, <3>1, <3>2 DEF CanonicalInv
    <2> QED
        BY <1>3, <1>9, <2>1 DEF CheckSignAndSort, Check
<1>10. CASE UNCHANGED canonicalVars
    <2>1. check' = check /\ data' = data
        BY <1>10 DEF canonicalVars
    <2>2. Sorted(Whole)' = Sorted(Whole)
        BY <1>2 DEF Sorted, Range, Before
    <2> QED
        BY <1>1, <1>2, <1>d, <2>1, <2>2 DEF CanonicalInv
<1> QED
    BY <1>4, <1>5, <1>6, <1>7, <1>8, <1>9, <1>10 DEF CanonicalNext

-----------------------------------------------------------------------------
(* The theorems *)

\* The inductive invariant of a file on its way.
LEMMA InvAlways == CanonicalSpec => []CanonicalInv
BY InvInit, InvStep, PTL DEF CanonicalSpec

\* Without duplicates a row is alone with its key.
LEMMA Unduplicated ==
    ASSUME NEW rows, ~HasDuplicates(rows), NEW i \in DOMAIN rows
    PROVE  Of(rows, KeyOf(rows[i])) = {i}
BY DEF HasDuplicates, Of

\* What comes out are the rows of the file, or those they were merged into.
LEMMA Finished ==
    ASSUME CanonicalInv, check = "done"
    PROVE  /\ Source \in Seq(Valid) /\ manifest.policy \in Policies
           /\ \A i, j \in DOMAIN data : i < j => Before(data[i], data[j])
           /\ KeysOf(data) = KeysOf(Source)
           /\ Range(data) =
                IF HasDuplicates(Source)
                THEN {Merged(manifest.policy, Source, Of(Source, key)) : key \in KeysOf(Source)}
                ELSE Range(Source)
<1>1. Source \in Seq(Valid) /\ manifest.policy \in Policies /\ data = Sorted(Whole)
    BY DEF CanonicalInv, Manifests
<1>2. /\ Whole \in Seq(Valid) /\ ~HasDuplicates(Whole) /\ KeysOf(Whole) = KeysOf(Source)
      /\ HasDuplicates(Source) =>
            Range(Whole) =
                {Merged(manifest.policy, Source, Of(Source, key)) : key \in KeysOf(Source)}
      /\ ~HasDuplicates(Source) => Whole = Source
    BY <1>1, AggregatedFrame DEF Whole
<1>3. /\ Range(data) = Range(Whole)
      /\ \A i, j \in DOMAIN data : i < j => Before(data[i], data[j])
    BY <1>1, <1>2, SortedFrame
<1>4. KeysOf(data) = KeysOf(Source)
    BY <1>2, <1>3, SameKeys
<1> QED
    BY <1>1, <1>2, <1>3, <1>4

\* A version has the keys of its file in ascending order, and the rows whose
\* keys occur once, but for a sum of nothing.
THEOREM RowsAreKept == CanonicalSpec => []RowsKept
<1>1. CanonicalInv => RowsKept
    <2> SUFFICES ASSUME CanonicalInv, check = "done",
                        NEW i \in DOMAIN Source, Of(Source, KeyOf(Source[i])) = {i}
                 PROVE  \/ Source[i] \in Range(data)
                        \/ /\ HasDuplicates(Source) /\ manifest.policy = "sum"
                           /\ Source[i].target = Null
                           /\ [Source[i] EXCEPT !.target = 0] \in Range(data)
        BY Finished DEF RowsKept
    <2> DEFINE merged(key) == Merged(manifest.policy, Source, Of(Source, key))
    <2>1. Source \in Seq(Valid) /\ manifest.policy \in Policies
        BY Finished
    <2>2. CASE ~HasDuplicates(Source)
        BY <2>2, Finished DEF Range
    <2>3. CASE HasDuplicates(Source)
        <3>1. merged(KeyOf(Source[i])) \in Range(data)
            <4>1. KeyOf(Source[i]) \in KeysOf(Source)
                BY DEF KeysOf
            <4>2. Range(data) = {merged(key) : key \in KeysOf(Source)}
                BY <2>3, Finished
            <4> QED
                BY <4>1, <4>2
        <3>2. \/ merged(KeyOf(Source[i])) = Source[i]
              \/ /\ manifest.policy = "sum" /\ Source[i].target = Null
                 /\ merged(KeyOf(Source[i])) = [Source[i] EXCEPT !.target = 0]
            BY <2>1, MergedAlone
        <3> QED
            BY <2>3, <3>1, <3>2
    <2> QED
        BY <2>2, <2>3
<1> QED
    BY <1>1, InvAlways, PTL

\* What the targets of a key are combined into.
LEMMA CombinedInRange ==
    ASSUME NEW policy \in Policies \ {"reject"}, NEW rows \in Seq(Valid),
           NEW key \in KeysOf(rows)
    PROVE  LET at == Of(rows, key)
               targets == {rows[i].target : i \in Present(rows, at)}
               target == Combined(policy, rows, at)
           IN  IF target = Null
               THEN targets = {} \/ (policy = "last" /\ rows[Max(at)].target = Null)
               ELSE \/ \E low, high \in targets : low <= target /\ target <= high
                    \/ policy = "sum" /\ target = Total(rows, at)
<1> DEFINE at == Of(rows, key)
           targets == {rows[i].target : i \in Present(rows, at)}
           target == Combined(policy, rows, at)
<1>1. /\ at \in SUBSET DOMAIN rows /\ IsFiniteSet(at)
      /\ Max(at) \in at /\ rows[Max(at)] \in Valid
    BY OfKey
<1>2. CASE policy = "sum"
    <2>1. target = Total(rows, at)
        BY <1>2 DEF Combined
    <2>2. Total(rows, at) \in Int /\ Null \notin Int
        BY <1>1, TotalOf, CanonicalAssumption
    <2> QED
        BY <1>2, <2>1, <2>2
<1>3. CASE policy = "mean"
    <2>1. target = Mean(rows, at)
        BY <1>3 DEF Combined
    <2>2. CASE Present(rows, at) = {}
        <3>1. targets = {} /\ Mean(rows, at) = Null
            BY <2>2 DEF Mean
        <3> QED
            BY <2>1, <3>1
    <2>3. CASE Present(rows, at) # {}
        <3>1. PICK i, j \in Present(rows, at) :
                    rows[i].target <= Mean(rows, at) /\ Mean(rows, at) <= rows[j].target
            BY <1>1, <2>3, MeanOf
        <3>2. Mean(rows, at) \in Int /\ Null \notin Int
            BY <1>1, <2>3, MeanOf, CanonicalAssumption
        <3>3. rows[i].target \in targets /\ rows[j].target \in targets
            BY <3>1
        <3> HIDE DEF targets, at, target
        <3>4. target # Null /\ \E low, high \in targets : low <= target /\ target <= high
            BY <2>1, <3>1, <3>2, <3>3 DEF at
        <3> QED
            BY <3>4 DEF targets, at, target
    <2> QED
        BY <2>2, <2>3
<1>4. CASE policy = "last"
    <2>1. target = rows[Max(at)].target
        BY <1>4 DEF Combined
    <2>2. CASE target = Null
        BY <1>4, <2>1, <2>2
    <2>3. CASE target # Null
        <3>1. target \in targets
            BY <1>1, <2>1, <2>3 DEF Present
        <3>2. target \in Int
            BY <1>1, <2>1, <2>3 DEF Valid
        <3> HIDE DEF target, targets
        <3>3. target <= target
            BY <3>2
        <3> QED
            BY <2>3, <3>1, <3>3 DEF target, targets
    <2> QED
        BY <2>2, <2>3
<1> QED
    BY <1>2, <1>3, <1>4 DEF Policies

\* The targets of a version are within those of the file or sums of them, and
\* some weight is positive unless rows were merged.
THEOREM ValuesAreUsable == CanonicalSpec => []ValuesUsable
<1>1. CanonicalInv => ValuesUsable
    <2> SUFFICES ASSUME CanonicalInv, check = "done"
                 PROVE  /\ \A i \in DOMAIN data : TargetInRange(data[i])
                        /\ "weight" \in manifest.declared /\ ~HasDuplicates(Source) =>
                            \E w \in Values("weight", data) : w > 0
        BY DEF ValuesUsable
    <2>1. Source \in Seq(Valid) /\ manifest.policy \in Policies
        BY Finished
    <2>2. ASSUME ~HasDuplicates(Source), NEW row \in Range(data) PROVE TargetInRange(row)
        <3>1. PICK i \in DOMAIN Source : row = Source[i]
            BY <2>2, Finished DEF Range
        <3>2. Of(Source, KeyOf(row)) = {i}
            BY <2>2, <3>1, Unduplicated
        <3>3. row.target \in Int \cup {Null}
            <4>1. row \in Valid
                BY <2>1, <3>1
            <4> QED
                BY <4>1 DEF Valid
        <3> DEFINE targets == {Source[j].target : j \in Present(Source, {i})}
        <3>4. CASE row.target = Null
            <4>1. targets = {}
                BY <3>1, <3>4 DEF Present
            <4> QED
                BY <3>2, <3>4, <4>1 DEF TargetInRange
        <3>5. CASE row.target # Null
            <4>1. row.target \in targets
                BY <3>1, <3>5 DEF Present
            <4>2. row.target <= row.target
                BY <3>3, <3>5
            <4> HIDE DEF targets
            <4>3. \E low, high \in targets : low <= row.target /\ row.target <= high
                BY <4>1, <4>2
            <4> QED
                BY <3>2, <3>5, <4>3 DEF TargetInRange, targets
        <3> QED
            BY <3>4, <3>5
    <2>3. ASSUME HasDuplicates(Source), NEW row \in Range(data) PROVE TargetInRange(row)
        <3>1. PICK key \in KeysOf(Source) :
                    row = Merged(manifest.policy, Source, Of(Source, key))
            BY <2>3, Finished
        <3>2. KeyOf(row) = key /\ row.target = Combined(manifest.policy, Source, Of(Source, key))
            BY <2>1, <3>1, MergedRow
        <3>3. manifest.policy \in Policies \ {"reject"}
            BY <2>1, <2>3 DEF CanonicalInv
        <3> DEFINE at == Of(Source, key)
                   targets == {Source[i].target : i \in Present(Source, at)}
        <3>4. IF row.target = Null
              THEN \/ targets = {}
                   \/ manifest.policy = "last" /\ Source[Max(at)].target = Null
              ELSE \/ \E low, high \in targets : low <= row.target /\ row.target <= high
                   \/ manifest.policy = "sum" /\ row.target = Total(Source, at)
            <4> USE <3>2, <3>3
            <4>1. row.target = Combined(manifest.policy, Source, at)
                OBVIOUS
            <4> DEFINE policy == manifest.policy
                       target == Combined(policy, Source, at)
            <4>2. policy \in Policies \ {"reject"}
                OBVIOUS
            <4> HIDE DEF policy
            <4>3. IF target = Null
                  THEN targets = {} \/ (policy = "last" /\ Source[Max(at)].target = Null)
                  ELSE \/ \E low, high \in targets : low <= target /\ target <= high
                       \/ policy = "sum" /\ target = Total(Source, at)
                BY <2>1, <4>2, CombinedInRange, Zenon
            <4>4. row.target = target
                BY <4>1 DEF policy
            <4> HIDE DEF target, targets, at
            <4> QED
                BY <4>3, <4>4 DEF policy
        <3>5. Of(Source, KeyOf(row)) = at
            BY <3>2
        <3> HIDE DEF at
        <3> QED
            BY <3>4, <3>5 DEF TargetInRange
    <2>4. ASSUME "weight" \in manifest.declared, ~HasDuplicates(Source)
          PROVE  \E w \in Values("weight", data) : w > 0
        <3>1. \E w \in Values("weight", Source) : w > 0
            BY <2>4 DEF CanonicalInv
        <3>2. Range(data) = Range(Source)
            BY <2>4, Finished
        <3>3. \A rows : Values("weight", rows) = {row.weight : row \in Range(rows)}
            BY DEF Values, Range
        <3> QED
            BY <3>1, <3>2, <3>3
    <2>5. \A i \in DOMAIN data : data[i] \in Range(data)
        BY DEF Range
    <2> QED
        BY <2>2, <2>3, <2>4, <2>5
<1> QED
    BY <1>1, InvAlways, PTL

=============================================================================
