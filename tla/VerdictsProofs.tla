--------------------------- MODULE VerdictsProofs ----------------------------
(* What the algorithms of a pass answer, for any input: the projection states  *)
(* of an animap entry never more than the map does of every episode, and a     *)
(* copy is judged aligned, superseded or diverged only on what its files show; *)
(* a finding recommends what can be used and is not held.                      *)
EXTENDS Verdicts, FiniteSetTheorems, SequenceTheorems, WellFoundedInduction, TLAPS

------------------------------------------------------------------------------
(* Numbers.                                                                    *)

\* Of some numbers one is the least.
LEMMA LeastNumber ==
  ASSUME NEW T \in SUBSET Nat, T # {}
  PROVE  \E n \in T : \A m \in T : n <= m
<1> DEFINE Less == {ss \in Nat \X Nat : ss[1] < ss[2]}
<1>1. IsWellFoundedOn(Less, Nat)
  BY NatLessThanWellFounded, Zenon DEF OpToRel
<1> HIDE DEF Less
<1>2. PICK n \in T : \A m \in T : ~(<<m, n>> \in Less)
  BY <1>1, WFMin, Zenon
<1>3. \A m \in T : ~(m < n)
  BY <1>2 DEF Less
<1>4. \A m \in T : m \in Nat
  OBVIOUS
<1> QED BY <1>3, <1>4

\* What holds of 0, and of every number with the one before it, holds of all of them.
LEMMA Climb ==
  ASSUME NEW n \in Nat, NEW T, 0 \in T, \A k \in 1..n : k - 1 \in T => k \in T
  PROVE  \A k \in 0..n : k \in T
<1> DEFINE Out == {k \in 0..n : k \notin T}
<1> SUFFICES ASSUME Out # {} PROVE FALSE
  OBVIOUS
<1>1. PICK k \in Out : \A m \in Out : k <= m
  <2>1. Out \in SUBSET Nat
    OBVIOUS
  <2> HIDE DEF Out
  <2> QED BY <2>1, LeastNumber
<1>2. k \in 1..n /\ k - 1 \in 0..n
  BY <1>1
<1>3. k - 1 \notin Out
  BY <1>1, <1>2
<1> QED BY <1>1, <1>2, <1>3

\* A finite nonempty set of integers has a least element.
LEMMA LeastOf ==
  ASSUME NEW S \in SUBSET Int, IsFiniteSet(S), S # {}
  PROVE  Min(S) \in S /\ \A y \in S : Min(S) <= y
<1> DEFINE Below(y) == {z \in S : z < y}
           Ranks == {Cardinality(Below(y)) : y \in S}
<1>1. \A y \in S : IsFiniteSet(Below(y)) /\ Cardinality(Below(y)) \in Nat
  BY FS_Subset, FS_CardinalityType
<1>2. Ranks \in SUBSET Nat /\ Ranks # {}
  BY <1>1
<1>3. PICK n \in Ranks : \A m \in Ranks : n <= m
  <2> HIDE DEF Ranks
  <2> QED BY <1>2, LeastNumber
<1>4. PICK x \in S : n = Cardinality(Below(x))
  BY <1>3
<1>5. \A y \in S : x <= y
  <2> SUFFICES ASSUME NEW y \in S, y < x PROVE FALSE
    OBVIOUS
  <2>1. \A z \in S : z \in Int
    OBVIOUS
  <2>2. \A z \in Below(y) : z \in Below(x)
    BY <2>1
  <2>3. y \in Below(x) /\ y \notin Below(y)
    BY <2>1
  <2>4. Cardinality(Below(y)) <= Cardinality(Below(x)) /\ Cardinality(Below(y)) # Cardinality(Below(x))
    <3> HIDE DEF Below
    <3> QED BY <1>1, <2>2, <2>3, FS_Subset
  <2>5. Cardinality(Below(y)) \in Ranks
    OBVIOUS
  <2>6. Cardinality(Below(x)) <= Cardinality(Below(y))
    <3> HIDE DEF Below, Ranks
    <3> QED BY <1>3, <1>4, <2>5
  <2>7. PICK a \in Nat, b \in Nat : a = Cardinality(Below(y)) /\ b = Cardinality(Below(x))
    <3> HIDE DEF Below
    <3> QED BY <1>1
  <2>8. a <= b /\ a # b /\ b <= a
    <3> HIDE DEF Below
    <3> QED BY <2>4, <2>6, <2>7
  <2> QED BY <2>8
<1> QED BY <1>4, <1>5 DEF Min

------------------------------------------------------------------------------
(* Sums over finite sets.                                                     *)

\* Of some subsets of a finite set one is the smallest.
LEMMA SmallestSet ==
  ASSUME NEW S, IsFiniteSet(S), NEW Sets \in SUBSET (SUBSET S), Sets # {}
  PROVE  \E T \in Sets : \A x \in T : T \ {x} \notin Sets
<1> DEFINE Sizes == {Cardinality(T) : T \in Sets}
<1>1. \A T \in Sets : IsFiniteSet(T) /\ Cardinality(T) \in Nat
  BY FS_Subset, FS_CardinalityType
<1>2. Sizes \in SUBSET Nat /\ Sizes # {}
  BY <1>1
<1>3. PICK n \in Sizes : \A m \in Sizes : n <= m
  <2> HIDE DEF Sizes
  <2> QED BY <1>2, LeastNumber
<1>4. PICK T \in Sets : n = Cardinality(T)
  BY <1>3
<1>5. ASSUME NEW x \in T, T \ {x} \in Sets
      PROVE  FALSE
  <2>1. Cardinality(T \ {x}) = Cardinality(T) - 1
    BY <1>1, FS_RemoveElement
  <2>2. Cardinality(T) <= Cardinality(T \ {x})
    BY <1>3, <1>4, <1>5
  <2> QED BY <1>1, <1>4, <2>1, <2>2
<1> QED BY <1>5

\* A sum as a number of things: as many of each element as it weighs.
Grains(S, weight) == {p \in S \X Nat : p[2] \in 1..weight[p[1]]}

LEMMA GrainsGrow ==
  ASSUME NEW T, NEW weight, NEW x \in T, weight[x] \in Nat, IsFiniteSet(Grains(T \ {x}, weight))
  PROVE  /\ IsFiniteSet(Grains(T, weight))
         /\ Cardinality(Grains(T, weight)) = weight[x] + Cardinality(Grains(T \ {x}, weight))
<1> DEFINE own == {<<x, i>> : i \in 1..weight[x]}
           rest == Grains(T \ {x}, weight)
           pair == [i \in 1..weight[x] |-> <<x, i>>]
<1>1. IsFiniteSet(own) /\ Cardinality(own) = weight[x]
  <2>1. IsFiniteSet(1..weight[x]) /\ Cardinality(1..weight[x]) = weight[x]
    <3>1. weight[x] \in Int /\ 1 \in Int
      OBVIOUS
    <3>2. IsFiniteSet(1..weight[x]) /\ Cardinality(1..weight[x]) = IF 1 > weight[x] THEN 0 ELSE weight[x] - 1 + 1
      BY <3>1, FS_Interval
    <3> QED BY <3>2
  <2>2. pair \in Bijection(1..weight[x], own)
    BY DEF Bijection, Injection, IsInjective, Surjection
  <2>3. ExistsBijection(1..weight[x], own)
    <3> HIDE DEF pair, own
    <3> QED BY <2>2 DEF ExistsBijection
  <2> HIDE DEF own
  <2> QED BY <2>1, <2>3, FS_Bijection
<1>2. Grains(T, weight) = own \cup rest /\ own \cap rest = {}
  BY DEF Grains
<1>3. Cardinality(rest) \in Nat
  BY FS_CardinalityType
<1> HIDE DEF own, rest
<1>4. IsFiniteSet(rest)
  BY DEF rest
<1>5. /\ IsFiniteSet(own \cup rest)
      /\ Cardinality(own \cup rest) = Cardinality(own) + Cardinality(rest) - Cardinality(own \cap rest)
  BY <1>1, <1>4, FS_Union
<1>6. Cardinality(own \cup rest) = weight[x] + Cardinality(rest)
  <2>1. Cardinality(own \cap rest) = 0
    <3>1. own \cap rest = {}
      BY <1>2
    <3> QED BY <3>1, FS_EmptySet, Zenon
  <2> QED BY <1>1, <1>3, <1>5, <2>1
<1>7. IsFiniteSet(Grains(T, weight)) /\ Cardinality(Grains(T, weight)) = weight[x] + Cardinality(rest)
  BY <1>2, <1>5, <1>6
<1> QED BY <1>7 DEF rest

LEMMA GrainsFinite ==
  ASSUME NEW S, IsFiniteSet(S), NEW weight, \A x \in S : weight[x] \in Nat
  PROVE  \A T \in SUBSET S : IsFiniteSet(Grains(T, weight))
<1> DEFINE Bad == {T \in SUBSET S : ~IsFiniteSet(Grains(T, weight))}
<1> SUFFICES ASSUME Bad # {} PROVE FALSE
  OBVIOUS
<1>1. PICK T \in Bad : \A x \in T : T \ {x} \notin Bad
  <2>1. Bad \in SUBSET (SUBSET S)
    OBVIOUS
  <2> HIDE DEF Bad
  <2> QED BY <2>1, SmallestSet
<1>2. T # {}
  BY FS_EmptySet DEF Grains
<1>3. PICK x \in T : TRUE
  BY <1>2
<1>4. IsFiniteSet(Grains(T \ {x}, weight))
  BY <1>1
<1> QED BY <1>4, GrainsGrow

\* Whatever adds the weights up one by one comes to as many.
Adds(S, weight, sum) ==
  sum = [T \in SUBSET S |-> IF T = {} THEN 0
                            ELSE weight[CHOOSE x \in T : TRUE] + sum[T \ {CHOOSE x \in T : TRUE}]]

LEMMA AddsIs ==
  ASSUME NEW S, IsFiniteSet(S), NEW weight, \A x \in S : weight[x] \in Nat
  PROVE  /\ Adds(S, weight, [T \in SUBSET S |-> Cardinality(Grains(T, weight))])
         /\ \A sum : Adds(S, weight, sum) => sum[S] = Cardinality(Grains(S, weight))
<1> DEFINE one(T) == CHOOSE x \in T : TRUE
           count == [T \in SUBSET S |-> Cardinality(Grains(T, weight))]
<1>1. \A T \in SUBSET S : T # {} => one(T) \in T /\ weight[one(T)] \in Nat
  OBVIOUS
<1>2. \A T \in SUBSET S : IsFiniteSet(Grains(T, weight)) /\ Cardinality(Grains(T, weight)) \in Nat
  BY GrainsFinite, FS_CardinalityType
<1>3. Cardinality(Grains({}, weight)) = 0
  BY FS_EmptySet DEF Grains
<1>4. ASSUME NEW T \in SUBSET S, T # {}
      PROVE  Cardinality(Grains(T, weight)) = weight[one(T)] + Cardinality(Grains(T \ {one(T)}, weight))
  <2>1. one(T) \in T /\ weight[one(T)] \in Nat /\ IsFiniteSet(Grains(T \ {one(T)}, weight))
    BY <1>1, <1>2, <1>4
  <2> HIDE DEF one
  <2> QED BY <2>1, GrainsGrow
<1>5. Adds(S, weight, count)
  <2>1. \A T \in SUBSET S : count[T] = IF T = {} THEN 0 ELSE weight[one(T)] + count[T \ {one(T)}]
    <3> HIDE DEF one
    <3> QED BY <1>3, <1>4
  <2> QED BY <2>1, Zenon DEF Adds
<1>6. ASSUME NEW sum, Adds(S, weight, sum)
      PROVE  sum[S] = Cardinality(Grains(S, weight))
  <2> DEFINE Bad == {T \in SUBSET S : sum[T] # Cardinality(Grains(T, weight))}
  <2>1. \A T \in SUBSET S : sum[T] = IF T = {} THEN 0 ELSE weight[one(T)] + sum[T \ {one(T)}]
    BY <1>6, Zenon DEF Adds
  <2> SUFFICES ASSUME Bad # {} PROVE FALSE
    OBVIOUS
  <2>2. PICK T \in Bad : \A x \in T : T \ {x} \notin Bad
    <3>1. Bad \in SUBSET (SUBSET S)
      OBVIOUS
    <3> HIDE DEF Bad
    <3> QED BY <3>1, SmallestSet
  <2>3. T # {}
    BY <1>3, <2>1
  <2>4. sum[T \ {one(T)}] = Cardinality(Grains(T \ {one(T)}, weight))
    <3>1. one(T) \in T
      BY <1>1, <2>3
    <3> HIDE DEF one
    <3> QED BY <2>2, <3>1
  <2>5. sum[T] = Cardinality(Grains(T, weight))
    <3> HIDE DEF one
    <3> QED BY <1>4, <2>1, <2>3, <2>4
  <2> QED BY <2>2, <2>5
<1> QED BY <1>5, <1>6

\* The sizes of some files, and of the files of some ids, added up.
SizesOf(files) == MapThenSumSet(LAMBDA x : x.size, files)

LEMMA SizesAre ==
  ASSUME NEW files, IsFiniteSet(files), \A x \in files : x.size \in Nat
  PROVE  SizesOf(files) = Cardinality(Grains(files, [x \in files |-> x.size]))
<1> DEFINE weight == [x \in files |-> x.size]
           step(sum) == [T \in SUBSET files |->
                           IF T = {} THEN 0 ELSE (CHOOSE x \in T : TRUE).size + sum[T \ {CHOOSE x \in T : TRUE}]]
           sum == CHOOSE g : g = step(g)
<1>1. \A g : Adds(files, weight, g) <=> g = step(g)
  <2>1. \A T \in SUBSET files : T # {} => weight[CHOOSE x \in T : TRUE] = (CHOOSE x \in T : TRUE).size
    OBVIOUS
  <2> HIDE DEF weight
  <2> QED BY <2>1, Zenon DEF Adds
<1>2. SizesOf(files) = sum[files]
  BY Zenon DEF SizesOf, MapThenSumSet, MapThenFoldSet
<1>3. \A x \in files : weight[x] \in Nat
  OBVIOUS
<1> HIDE DEF weight, step
<1>4. PICK g : g = step(g)
  BY <1>1, <1>3, AddsIs
<1>5. sum = step(sum)
  BY <1>4
<1>6. Adds(files, weight, sum)
  BY <1>1, <1>5
<1> HIDE DEF sum
<1>7. sum[files] = Cardinality(Grains(files, weight))
  BY <1>3, <1>6, AddsIs
<1> QED BY <1>2, <1>7 DEF weight

\* The same of sizes looked up by id.
SizesAt(bytes, ids) == MapThenSumSet(LAMBDA id : At(bytes, id, 0), ids)

LEMMA SizesAtAre ==
  ASSUME NEW ids, IsFiniteSet(ids), NEW bytes, \A id \in ids : At(bytes, id, 0) \in Nat
  PROVE  SizesAt(bytes, ids) = Cardinality(Grains(ids, [id \in ids |-> At(bytes, id, 0)]))
<1> DEFINE weight == [id \in ids |-> At(bytes, id, 0)]
           step(sum) == [T \in SUBSET ids |->
                           IF T = {} THEN 0
                           ELSE At(bytes, CHOOSE x \in T : TRUE, 0) + sum[T \ {CHOOSE x \in T : TRUE}]]
           sum == CHOOSE g : g = step(g)
<1>1. \A g : Adds(ids, weight, g) <=> g = step(g)
  <2>1. \A T \in SUBSET ids : T # {} => weight[CHOOSE x \in T : TRUE] = At(bytes, CHOOSE x \in T : TRUE, 0)
    OBVIOUS
  <2> HIDE DEF weight
  <2> QED BY <2>1, Zenon DEF Adds
<1>2. SizesAt(bytes, ids) = sum[ids]
  BY Zenon DEF SizesAt, MapThenSumSet, MapThenFoldSet
<1>3. \A id \in ids : weight[id] \in Nat
  OBVIOUS
<1> HIDE DEF weight, step
<1>4. PICK g : g = step(g)
  BY <1>1, <1>3, AddsIs
<1>5. sum = step(sum)
  BY <1>4
<1>6. Adds(ids, weight, sum)
  BY <1>1, <1>5
<1> HIDE DEF sum
<1>7. sum[ids] = Cardinality(Grains(ids, weight))
  BY <1>3, <1>6, AddsIs
<1> QED BY <1>2, <1>7 DEF weight

\* Files of these ids, and perhaps others, are together no smaller.
LEMMA SizesCover ==
  ASSUME NEW files, IsFiniteSet(files), \A x \in files : x.size \in Nat,
         NEW ids, NEW bytes, NEW file \in [ids -> files],
         \A id \in ids : file[id].id = id /\ At(bytes, id, 0) = file[id].size
  PROVE  SizesAt(bytes, ids) \in Nat /\ SizesOf(files) \in Nat /\ SizesAt(bytes, ids) <= SizesOf(files)
<1> DEFINE all == [x \in files |-> x.size]
           own == [id \in ids |-> At(bytes, id, 0)]
           grain == [p \in Grains(ids, own) |-> <<file[p[1]], p[2]>>]
<1>1. IsFiniteSet(ids)
  <2>1. file \in Injection(ids, files)
    BY DEF Injection, IsInjective
  <2> QED BY <2>1, FS_Injection
<1>2. /\ SizesOf(files) = Cardinality(Grains(files, all))
      /\ SizesAt(bytes, ids) = Cardinality(Grains(ids, own))
  BY <1>1, SizesAre, SizesAtAre
<1>3. (\A x \in files : all[x] \in Nat) /\ \A id \in ids : own[id] \in Nat
  OBVIOUS
<1>4. grain \in Injection(Grains(ids, own), Grains(files, all))
  BY DEF Injection, IsInjective, Grains
<1> HIDE DEF grain, own, all
<1>5. IsFiniteSet(Grains(files, all)) /\ IsFiniteSet(Grains(ids, own))
  BY <1>1, <1>3, GrainsFinite
<1>6. Cardinality(Grains(ids, own)) <= Cardinality(Grains(files, all))
  BY <1>4, <1>5, FS_Injection
<1> QED BY <1>2, <1>5, <1>6, FS_CardinalityType

------------------------------------------------------------------------------
(* What an animap entry states.                                                *)

\* What is known of the runs of a season after some of the entry's episodes.
RunsTo(s, entry, i, runs) ==
  /\ \A r \in runs : /\ r.season = s /\ r.first \in 1..i /\ r.last \in r.first..i
                     /\ \A j \in r.first..r.last : Lands(entry, j, s)
  /\ \A j \in 1..i : Lands(entry, j, s) => \E r \in runs : j \in r.first..r.last
  /\ \A r, q \in runs : r # q => r.last + 1 < q.first \/ q.last + 1 < r.first

\* One episode more keeps them the maximal runs.
LEMMA GrownIs ==
  ASSUME NEW s, NEW entry, NEW i \in Nat \ {0}, NEW runs, RunsTo(s, entry, i - 1, runs)
  PROVE  /\ Lands(entry, i, s) => RunsTo(s, entry, i, Grown(s, runs, i))
         /\ ~Lands(entry, i, s) => RunsTo(s, entry, i, runs)
<1>1. \A r \in runs : /\ r.season = s /\ r.first \in 1..i - 1 /\ r.last \in r.first..i - 1
                      /\ \A j \in r.first..r.last : Lands(entry, j, s)
  BY DEF RunsTo
<1>2. \A j \in 1..i - 1 : Lands(entry, j, s) => \E r \in runs : j \in r.first..r.last
  BY DEF RunsTo
<1>3. \A r, q \in runs : r # q => r.last + 1 < q.first \/ q.last + 1 < r.first
  BY DEF RunsTo
<1>4. \A r \in runs : r.first \in Nat /\ r.last \in Nat /\ r.first <= r.last /\ r.last <= i - 1 /\ r.first >= 1
  BY <1>1
<1>5. \A j \in 1..i : j \in 1..i - 1 \/ j = i
  OBVIOUS
<1>6. ASSUME ~Lands(entry, i, s) PROVE RunsTo(s, entry, i, runs)
  <2>1. \A r \in runs : r.first \in 1..i /\ r.last \in r.first..i
    BY <1>4
  <2> QED BY <1>1, <1>2, <1>3, <1>5, <1>6, <2>1 DEF RunsTo
<1>7. ASSUME Lands(entry, i, s), \A r \in runs : r.last # i - 1
      PROVE  RunsTo(s, entry, i, runs \cup {Run(s, i, i)})
  <2> DEFINE new == Run(s, i, i)
  <2>1. new.season = s /\ new.first = i /\ new.last = i /\ i..i = {i}
    BY DEF Run
  <2> HIDE DEF new
  <2>2. \A r \in runs : r.first \in 1..i /\ r.last \in r.first..i
    BY <1>4
  <2>3. \A r \in runs \cup {new} : /\ r.season = s /\ r.first \in 1..i /\ r.last \in r.first..i
                                   /\ \A j \in r.first..r.last : Lands(entry, j, s)
    BY <1>1, <1>7, <2>1, <2>2
  <2>4. \A j \in 1..i : Lands(entry, j, s) => \E r \in runs \cup {new} : j \in r.first..r.last
    BY <1>2, <1>5, <2>1
  <2>5. \A r \in runs : r.last + 1 < i
    BY <1>4, <1>7
  <2>6. \A r, q \in runs \cup {new} : r # q => r.last + 1 < q.first \/ q.last + 1 < r.first
    BY <1>3, <2>1, <2>5
  <2> QED BY <2>3, <2>4, <2>6 DEF RunsTo, new
<1>8. ASSUME Lands(entry, i, s), NEW old \in runs, old.last = i - 1
      PROVE  RunsTo(s, entry, i, {IF r.last = i - 1 THEN Run(s, r.first, i) ELSE r : r \in runs})
  <2> DEFINE new == Run(s, old.first, i)
             next == {IF r.last = i - 1 THEN Run(s, r.first, i) ELSE r : r \in runs}
  <2>1. new.season = s /\ new.first = old.first /\ new.last = i
    BY DEF Run
  <2>2. \A r \in runs : r.last = i - 1 => r = old
    BY <1>3, <1>4, <1>8
  <2>3. next = (runs \ {old}) \cup {new}
    BY <1>8, <2>2
  <2> HIDE DEF next, new
  <2>4. \A r \in runs \ {old} : r.last + 1 < old.first
    BY <1>3, <1>4, <1>8
  <2>5. \A r \in runs \ {old} : r.first \in 1..i /\ r.last \in r.first..i
    BY <1>4
  <2>6. new.first \in 1..i /\ new.last \in new.first..i
    BY <1>4, <2>1
  <2>7. \A j \in new.first..new.last : Lands(entry, j, s)
    <3>1. \A j \in new.first..new.last : j \in old.first..old.last \/ j = i
      BY <1>4, <1>8, <2>1
    <3> QED BY <1>1, <1>8, <3>1
  <2>8. \A r \in next : /\ r.season = s /\ r.first \in 1..i /\ r.last \in r.first..i
                        /\ \A j \in r.first..r.last : Lands(entry, j, s)
    BY <1>1, <2>1, <2>3, <2>5, <2>6, <2>7
  <2>9. ASSUME NEW j \in 1..i, Lands(entry, j, s) PROVE \E r \in next : j \in r.first..r.last
    <3>1. new \in next /\ \A r \in runs : r # old => r \in next
      BY <2>3
    <3>2. CASE j = i
      BY <1>4, <2>1, <3>1, <3>2
    <3>3. CASE j # i
      <4>1. PICK r \in runs : j \in r.first..r.last
        BY <1>2, <1>5, <2>9, <3>3
      <4>2. r = old => j \in new.first..new.last
        BY <1>4, <1>8, <2>1, <4>1
      <4> QED BY <3>1, <4>1, <4>2
    <3> QED BY <3>2, <3>3
  <2>10. \A r, q \in next : r # q => r.last + 1 < q.first \/ q.last + 1 < r.first
    BY <1>3, <2>1, <2>3, <2>4
  <2> QED BY <2>8, <2>9, <2>10 DEF RunsTo, next
<1>9. Lands(entry, i, s) => RunsTo(s, entry, i, Grown(s, runs, i))
  BY <1>7, <1>8 DEF Grown
<1> QED BY <1>6, <1>9

\* The runs of an entry are those after its last episode.
LEMMA RunsAre ==
  ASSUME NEW s, NEW entry, Len(entry) \in Nat
  PROVE  RunsTo(s, entry, Len(entry), Runs(s, entry))
<1> DEFINE n == Len(entry)
           Step(f, i) == IF i = 0 THEN {} ELSE IF Lands(entry, i, s) THEN Grown(s, f[i - 1], i) ELSE f[i - 1]
           Follows(k, f) == f = [i \in 0..k |-> f[i]] /\ \A i \in 0..k : f[i] = Step(f, i)
           Reached == {k \in 0..n : \E f : Follows(k, f)}
<1>1. n \in Nat
  OBVIOUS
<1>2. 0 \in Reached
  <2> DEFINE z == [i \in 0..0 |-> {}]
  <2>1. z = [i \in 0..0 |-> z[i]] /\ \A i \in 0..0 : i = 0 /\ z[i] = {}
    OBVIOUS
  <2> HIDE DEF z
  <2>2. Follows(0, z)
    BY <2>1
  <2>3. 0 \in 0..n
    BY <1>1
  <2> QED BY <2>2, <2>3
<1>3. ASSUME NEW k \in 1..n, k - 1 \in Reached PROVE k \in Reached
  <2>1. PICK f : Follows(k - 1, f)
    BY <1>3
  <2> DEFINE g == [i \in 0..k |-> IF i = k THEN Step(f, k) ELSE f[i]]
  <2>2. /\ k \in 0..n /\ k # 0 /\ k \in 0..k
        /\ \A i \in 0..k : i # k => i \in 0..k - 1
        /\ \A i \in 0..k : i # 0 => i - 1 \in 0..k - 1 /\ i - 1 \in 0..k /\ i - 1 # k
    BY <1>1
  <2>3. g = [i \in 0..k |-> g[i]]
    OBVIOUS
  <2>4. g[k] = Step(f, k) /\ \A i \in 0..k - 1 : g[i] = f[i]
    BY <1>1, <2>2
  <2> HIDE DEF g
  <2>5. ASSUME NEW i \in 0..k PROVE g[i] = Step(g, i)
    <3>1. i # 0 => g[i - 1] = f[i - 1]
      BY <2>2, <2>4
    <3>2. CASE i = k
      BY <2>2, <2>4, <3>1, <3>2
    <3>3. CASE i # k
      <4>1. i \in 0..k - 1 /\ g[i] = f[i]
        BY <2>2, <2>4, <3>3
      <4>2. f[i] = Step(f, i)
        BY <2>1, <4>1
      <4> QED BY <3>1, <4>1, <4>2
    <3> QED BY <3>2, <3>3
  <2>6. Follows(k, g)
    BY <2>3, <2>5
  <2> QED BY <2>2, <2>6
<1>4. n \in Reached
  <2>1. \A k \in 1..n : k - 1 \in Reached => k \in Reached
    BY <1>3
  <2> HIDE DEF Reached, n
  <2>2. \A k \in 0..n : k \in Reached
    BY <1>1, <1>2, <2>1, Climb
  <2> QED BY <1>1, <2>2
<1>5. PICK f : Follows(n, f)
  BY <1>4
<1> DEFINE Recursive(h) == h = [i \in 0..n |-> Step(h, i)]
           after == CHOOSE h : Recursive(h)
<1>6. Recursive(after)
  <2>1. Recursive(f)
    BY <1>5
  <2> HIDE DEF Recursive
  <2> QED BY <2>1
<1>7. Runs(s, entry) = after[n]
  BY Zenon DEF Runs
<1> HIDE DEF after
<1>8. \A i \in 0..n : after[i] = Step(after, i)
  BY <1>6
<1> DEFINE Good == {k \in 0..n : RunsTo(s, entry, k, after[k])}
<1>9. 0 \in Good
  <2>1. 0 \in 0..n /\ after[0] = {} /\ 1..0 = {}
    BY <1>1, <1>8
  <2> QED BY <2>1 DEF RunsTo
<1>10. ASSUME NEW k \in 1..n, k - 1 \in Good PROVE k \in Good
  <2>1. k \in 0..n /\ k \in Nat \ {0} /\ RunsTo(s, entry, k - 1, after[k - 1])
    BY <1>1, <1>10
  <2>2. after[k] = IF Lands(entry, k, s) THEN Grown(s, after[k - 1], k) ELSE after[k - 1]
    BY <1>8, <2>1
  <2>3. /\ Lands(entry, k, s) => RunsTo(s, entry, k, Grown(s, after[k - 1], k))
        /\ ~Lands(entry, k, s) => RunsTo(s, entry, k, after[k - 1])
    BY <2>1, GrownIs
  <2> QED BY <2>1, <2>2, <2>3
<1>11. \A k \in 1..n : k - 1 \in Good => k \in Good
  BY <1>10
<1>12. n \in Good
  <2> HIDE DEF Good, n
  <2>1. \A k \in 0..n : k \in Good
    BY <1>1, <1>9, <1>11, Climb
  <2> QED BY <1>1, <2>1
<1> QED BY <1>7, <1>12

\* An entry's episodes as they are read.
LEMMA EntryIs ==
  ASSUME NEW entry \in Seq(Readings)
  PROVE  /\ Len(entry) \in Nat /\ DOMAIN entry = 1..Len(entry)
         /\ \A i \in DOMAIN entry :
              /\ entry[i].kind \in {"lands", "unstated", "listed", "implicit"}
              /\ entry[i].on \subseteq Placements /\ (entry[i].kind = "lands" <=> entry[i].on # {})
         /\ \A p \in Landings(entry) : p.season \in TvdbSeasons /\ p.season \in Nat /\ p.episode \in Targets
         /\ \A i \in DOMAIN entry : \A p \in entry[i].on : p \in Landings(entry)
         /\ PositiveSeasons(entry) \subseteq TvdbSeasons \ {0} /\ IsFiniteSet(PositiveSeasons(entry))
<1>1. Len(entry) \in Nat /\ DOMAIN entry = 1..Len(entry)
  BY LenProperties
<1>2. \A i \in DOMAIN entry :
        /\ entry[i].kind \in {"lands", "unstated", "listed", "implicit"}
        /\ entry[i].on \subseteq Placements /\ (entry[i].kind = "lands" <=> entry[i].on # {})
  <2> SUFFICES ASSUME NEW i \in DOMAIN entry
               PROVE  /\ entry[i].kind \in {"lands", "unstated", "listed", "implicit"}
                      /\ entry[i].on \subseteq Placements /\ (entry[i].kind = "lands" <=> entry[i].on # {})
    OBVIOUS
  <2>1. entry[i] \in Readings
    BY <1>1, ElementOfSeq
  <2>2. CASE entry[i] \in NoLanding
    BY <2>2 DEF NoLanding, Reading
  <2>3. CASE entry[i] \notin NoLanding
    <3>1. PICK ps \in (SUBSET Placements) \ {{}} : entry[i] = LandsOn(ps)
      BY <2>1, <2>3 DEF Readings
    <3>2. entry[i].kind = "lands" /\ entry[i].on = ps
      BY <3>1 DEF LandsOn
    <3> QED BY <3>1, <3>2
  <2> QED BY <2>2, <2>3
<1>3. \A p \in Landings(entry) : p \in Placements
  BY <1>2 DEF Landings
<1>4. \A p \in Landings(entry) : p.season \in TvdbSeasons /\ p.season \in Nat /\ p.episode \in Targets
  BY <1>3, ProjectionAssumption DEF Placements
<1>5. \A i \in DOMAIN entry : \A p \in entry[i].on : p \in Landings(entry)
  BY DEF Landings
<1>6. PositiveSeasons(entry) \subseteq TvdbSeasons \ {0}
  BY <1>4 DEF PositiveSeasons
<1>7. IsFiniteSet(PositiveSeasons(entry))
  BY <1>6, ProjectionAssumption, FS_Subset
<1> QED BY <1>1, <1>2, <1>4, <1>5, <1>6, <1>7

\* Where none of a kind is counted, none is.
LEMMA CountIs ==
  ASSUME NEW entry \in Seq(Readings), NEW kinds
  PROVE  /\ Count(entry, kinds) \in Nat
         /\ Count(entry, kinds) = 0 => \A i \in DOMAIN entry : entry[i].kind \notin kinds
<1> DEFINE those == {i \in DOMAIN entry : entry[i].kind \in kinds}
<1>1. IsFiniteSet(1..Len(entry))
  BY EntryIs, FS_Interval
<1>2. those \subseteq 1..Len(entry)
  BY EntryIs
<1>3. Count(entry, kinds) = Cardinality(those)
  BY DEF Count
<1>4. (\A i \in DOMAIN entry : entry[i].kind \notin kinds) <=> those = {}
  OBVIOUS
<1> HIDE DEF those
<1>5. IsFiniteSet(those) /\ Cardinality(those) \in Nat
  BY <1>1, <1>2, FS_Subset, FS_CardinalityType
<1> QED BY <1>3, <1>4, <1>5, FS_EmptySet

\* A set of at most one is empty or holds the one.
LEMMA OneSeason ==
  ASSUME NEW S, IsFiniteSet(S), ~(Cardinality(S) > 1)
  PROVE  S = {} \/ S = {CHOOSE s \in S : TRUE}
<1>1. Cardinality(S) = 0 \/ Cardinality(S) = 1
  BY FS_CardinalityType
<1>2. Cardinality(S) = 0 => S = {}
  BY FS_EmptySet
<1>3. Cardinality(S) = 1 => \E x : S = {x}
  BY FS_Singleton
<1> QED BY <1>1, <1>2, <1>3

\* The ranges of an entry are its maximal runs.
LEMMA RangesAre ==
  ASSUME NEW entry \in Seq(Readings)
  PROVE  RangesExact(entry, SeasonRanges(entry))
<1> DEFINE n == Len(entry)
           ranges == SeasonRanges(entry)
           positive == PositiveSeasons(entry)
<1>1. /\ n \in Nat /\ DOMAIN entry = 1..n /\ positive \subseteq TvdbSeasons \ {0}
      /\ TvdbSeasons \subseteq Nat
  BY EntryIs, ProjectionAssumption
<1>2. \A s \in positive : RunsTo(s, entry, n, Runs(s, entry))
  BY <1>1, RunsAre
<1>3. \A i \in DOMAIN entry : \A s \in TvdbSeasons \ {0} : Lands(entry, i, s) => s \in positive
  BY EntryIs DEF Lands, PositiveSeasons
<1>4. \A s \in positive : Runs(s, entry) = {r \in ranges : r.season = s}
  <2>1. \A s \in positive : \A r \in Runs(s, entry) : r.season = s
    BY <1>2 DEF RunsTo
  <2> QED BY <2>1 DEF SeasonRanges
<1>5. \A r \in ranges : r.season \in positive
  BY <1>2 DEF SeasonRanges, RunsTo
<1> HIDE DEF ranges, positive
<1>6. \A r \in ranges : /\ r.season > 0 /\ r.first \in 1..n /\ r.last \in r.first..n
                        /\ \A i \in r.first..r.last : i \in DOMAIN entry /\ Lands(entry, i, r.season)
  <2> SUFFICES ASSUME NEW r \in ranges
               PROVE  /\ r.season > 0 /\ r.first \in 1..n /\ r.last \in r.first..n
                      /\ \A i \in r.first..r.last : i \in DOMAIN entry /\ Lands(entry, i, r.season)
    OBVIOUS
  <2>1. r.season \in positive /\ r \in Runs(r.season, entry) /\ RunsTo(r.season, entry, n, Runs(r.season, entry))
    BY <1>2, <1>4, <1>5
  <2>2. /\ r.first \in 1..n /\ r.last \in r.first..n
        /\ \A i \in r.first..r.last : Lands(entry, i, r.season)
    BY <2>1 DEF RunsTo
  <2>3. \A i \in r.first..r.last : i \in 1..n
    BY <1>1, <2>2
  <2>4. r.season \in Nat /\ r.season # 0
    BY <1>1, <2>1
  <2>5. r.season > 0
    BY <2>4
  <2> QED BY <1>1, <2>2, <2>3, <2>5
<1>7. ASSUME NEW r \in ranges, NEW q \in ranges, r.season = q.season, r # q
      PROVE  r.last + 1 < q.first \/ q.last + 1 < r.first
  <2>1. r.season \in positive /\ r \in Runs(r.season, entry) /\ q \in Runs(r.season, entry)
        /\ RunsTo(r.season, entry, n, Runs(r.season, entry))
    BY <1>2, <1>4, <1>5, <1>7
  <2> QED BY <1>7, <2>1 DEF RunsTo
<1>8. ASSUME NEW i \in DOMAIN entry, NEW s \in TvdbSeasons \ {0}, Lands(entry, i, s)
      PROVE  Cardinality({r \in ranges : r.season = s /\ i \in r.first..r.last}) = 1
  <2>1. s \in positive /\ RunsTo(s, entry, n, Runs(s, entry))
    BY <1>2, <1>3, <1>8
  <2>2. PICK r \in Runs(s, entry) : i \in r.first..r.last
    BY <1>1, <1>8, <2>1 DEF RunsTo
  <2>3. r \in ranges /\ r.season = s
    BY <1>4, <2>1, <2>2
  <2>4. ASSUME NEW q \in ranges, q.season = s, i \in q.first..q.last PROVE q = r
    <3>1. i \in Nat /\ q.first \in Nat /\ q.last \in Nat /\ r.first \in Nat /\ r.last \in Nat
      BY <1>1, <1>6, <2>3
    <3>2. ~(r.last + 1 < q.first) /\ ~(q.last + 1 < r.first)
      BY <2>2, <2>4, <3>1
    <3> QED BY <1>7, <2>3, <2>4, <3>2
  <2>5. {q \in ranges : q.season = s /\ i \in q.first..q.last} = {r}
    BY <2>2, <2>3, <2>4
  <2> QED BY <2>5, FS_Singleton
<1>9. ASSUME NEW r \in ranges, NEW q \in ranges, r.season = q.season, r # q
      PROVE  r.last + 1 # q.first
  <2>1. r.first \in Nat /\ r.last \in Nat /\ q.first \in Nat /\ q.last \in Nat /\ r.first <= r.last /\ q.first <= q.last
    BY <1>1, <1>6
  <2> QED BY <1>7, <1>9, <2>1
<1> QED BY <1>6, <1>8, <1>9 DEF RangesExact, ranges

\* The facts are of one kind at most, each stated only where every episode allows it.
LEMMA FactsAre ==
  ASSUME NEW entry \in Seq(Readings)
  PROVE  LET f == MappingOf(entry)
             positive == PositiveSeasons(entry)
         IN /\ f.seasons = SeasonRanges(entry)
            /\ f.specials # {} \/ f.special > 0 \/ f.episodes # {} => Unstated(entry) = 0
            /\ f.specials # {} => /\ positive = {} /\ ~Defaulted(entry) /\ f.specials = TargetsOf(entry, 0)
                                  /\ f.special = 0 /\ f.episodes = {}
                                  /\ f.specialsEpisodes > 0 => Nowhere(entry) = 0
            /\ f.special > 0 => /\ positive = {} /\ Nowhere(entry) = 0 /\ f.specials = {} /\ f.episodes = {}
                                /\ TargetsOf(entry, 0) = {f.special}
            /\ f.episodes # {} => /\ ~OnZero(entry) /\ ~Defaulted(entry) /\ Nowhere(entry) = 0
                                  /\ f.specials = {} /\ f.special = 0
                                  /\ positive = {CHOOSE s \in positive : TRUE}
                                  /\ f.episodes = TargetsOf(entry, CHOOSE s \in positive : TRUE)
<1> DEFINE positive == PositiveSeasons(entry)
           targets == TargetsOf(entry, 0)
           facts == [NoFacts EXCEPT !.seasons = SeasonRanges(entry)]
<1>1. Unstated(entry) \in Nat /\ Nowhere(entry) \in Nat /\ Len(entry) \in Nat
  BY CountIs, EntryIs DEF Unstated, Nowhere
<1>2. Cardinality(targets) = 1 => targets = {CHOOSE t \in targets : TRUE}
  <2>1. targets \subseteq Targets
    BY EntryIs DEF TargetsOf
  <2> HIDE DEF targets
  <2>2. IsFiniteSet(targets)
    BY <2>1, ProjectionAssumption, FS_Subset
  <2>3. Cardinality(targets) = 1 => \E x : targets = {x}
    BY <2>2, FS_Singleton
  <2> QED BY <2>3
<1>3. Cardinality(positive) = 1 => positive = {CHOOSE s \in positive : TRUE}
  <2>1. IsFiniteSet(positive)
    BY EntryIs
  <2> HIDE DEF positive
  <2>2. Cardinality(positive) = 1 => \E x : positive = {x}
    BY <2>1, FS_Singleton
  <2> QED BY <2>2
<1>4. /\ facts.seasons = SeasonRanges(entry) /\ facts.specials = {} /\ facts.specialsEpisodes = 0
      /\ facts.special = 0 /\ facts.episodes = {}
  BY DEF NoFacts
<1>5. DOMAIN facts = {"seasons", "specials", "specialsEpisodes", "special", "episodes"}
  BY DEF NoFacts
<1>6. \/ MappingOf(entry) = facts
      \/ /\ ~(Unstated(entry) > 0) /\ positive = {} /\ ~Defaulted(entry)
         /\ MappingOf(entry) = [facts EXCEPT !.specials = targets,
                                  !.specialsEpisodes = IF Nowhere(entry) = 0 THEN Len(entry) ELSE 0]
      \/ /\ ~(Unstated(entry) > 0) /\ positive = {} /\ Nowhere(entry) = 0 /\ Cardinality(targets) = 1
         /\ MappingOf(entry) = [facts EXCEPT !.special = CHOOSE t \in targets : TRUE]
      \/ /\ ~(Unstated(entry) > 0) /\ Cardinality(positive) = 1 /\ ~OnZero(entry) /\ Nowhere(entry) = 0
         /\ ~Defaulted(entry)
         /\ MappingOf(entry) = [facts EXCEPT !.episodes = TargetsOf(entry, CHOOSE s \in positive : TRUE)]
  BY Zenon DEF MappingOf
<1> HIDE DEF facts, targets, positive
<1>7. Unstated(entry) > 0 \/ Unstated(entry) = 0
  BY <1>1
<1>8. CASE MappingOf(entry) = facts
  BY <1>4, <1>8 DEF positive
<1>9. CASE /\ ~(Unstated(entry) > 0) /\ positive = {} /\ ~Defaulted(entry)
           /\ MappingOf(entry) = [facts EXCEPT !.specials = targets,
                                    !.specialsEpisodes = IF Nowhere(entry) = 0 THEN Len(entry) ELSE 0]
  <2> DEFINE f == MappingOf(entry)
  <2>1. /\ f.specials = targets /\ f.specialsEpisodes = (IF Nowhere(entry) = 0 THEN Len(entry) ELSE 0)
        /\ f.seasons = facts.seasons /\ f.special = facts.special /\ f.episodes = facts.episodes
    BY <1>5, <1>9
  <2> HIDE DEF f
  <2> QED BY <1>4, <1>7, <1>9, <2>1 DEF f, positive, targets
<1>10. CASE /\ ~(Unstated(entry) > 0) /\ positive = {} /\ Nowhere(entry) = 0 /\ Cardinality(targets) = 1
            /\ MappingOf(entry) = [facts EXCEPT !.special = CHOOSE t \in targets : TRUE]
  <2> DEFINE f == MappingOf(entry)
  <2>1. /\ f.special = (CHOOSE t \in targets : TRUE) /\ f.seasons = facts.seasons
        /\ f.specials = facts.specials /\ f.episodes = facts.episodes
    BY <1>5, <1>10
  <2> HIDE DEF f
  <2> QED BY <1>2, <1>4, <1>7, <1>10, <2>1 DEF f, positive, targets
<1>11. CASE /\ ~(Unstated(entry) > 0) /\ Cardinality(positive) = 1 /\ ~OnZero(entry) /\ Nowhere(entry) = 0
            /\ ~Defaulted(entry)
            /\ MappingOf(entry) = [facts EXCEPT !.episodes = TargetsOf(entry, CHOOSE s \in positive : TRUE)]
  <2> DEFINE f == MappingOf(entry)
  <2>1. /\ f.episodes = TargetsOf(entry, CHOOSE s \in positive : TRUE) /\ f.seasons = facts.seasons
        /\ f.specials = facts.specials /\ f.special = facts.special
    BY <1>5, <1>11
  <2> HIDE DEF f
  <2> QED BY <1>3, <1>4, <1>7, <1>11, <2>1 DEF f, positive
<1> QED BY <1>6, <1>8, <1>9, <1>10, <1>11

\* What an entry is projected to claims no more than the map states of every episode.
LEMMA EntryFactsAre ==
  ASSUME NEW entry \in Seq(Readings), NEW tvdb
  PROVE  ProjectionSound(entry, EntryFacts(tvdb, {}, FALSE, entry))
<1> DEFINE rec == EntryFacts(tvdb, {}, FALSE, entry)
           f == MappingOf(entry)
           run == SpecialRun(f)
           positive == PositiveSeasons(entry)
           scope == SeasonScope(entry)
<1> SUFFICES ASSUME rec.tvdb > 0 PROVE ProjectionSound(entry, rec)
  BY DEF ProjectionSound
<1>1. rec.facts = f /\ rec.kind = scope.kind /\ rec.season = scope.season /\ rec.stated = FullyStated(entry)
  <2>1. Cardinality(tvdb) # 1 => rec.tvdb = 0
    BY DEF EntryFacts
  <2>2. Cardinality(tvdb) = 1
    <3> HIDE DEF rec
    <3> QED BY <2>1
  <2>3. /\ rec.facts = IF Cardinality(tvdb) = 1 THEN f ELSE NoFacts
        /\ rec.kind = IF Cardinality(tvdb) = 1 THEN scope.kind ELSE "absent"
        /\ rec.season = IF Cardinality(tvdb) = 1 THEN scope.season ELSE 0
    BY DEF EntryFacts
  <2>4. rec.stated = (Cardinality(tvdb) = 1 /\ FullyStated(entry))
    BY Zenon DEF EntryFacts
  <2>5. FullyStated(entry) \in BOOLEAN
    BY DEF FullyStated
  <2> QED BY <2>2, <2>3, <2>4, <2>5
<1> HIDE DEF rec
<1>2. \A i \in DOMAIN entry :
        /\ entry[i].kind \in {"lands", "unstated", "listed", "implicit"}
        /\ entry[i].kind = "lands" <=> entry[i].on # {}
        /\ \A p \in entry[i].on : /\ p \in Landings(entry) /\ p.season \in Nat
                                  /\ p.season = 0 \/ p.season \in positive
                                  /\ p.episode \in TargetsOf(entry, p.season)
  <2>1. \A i \in DOMAIN entry :
        /\ entry[i].kind \in {"lands", "unstated", "listed", "implicit"}
        /\ entry[i].kind = "lands" <=> entry[i].on # {}
        /\ \A p \in entry[i].on : p \in Landings(entry) /\ p.season \in Nat
    BY EntryIs
  <2>2. \A p \in Landings(entry) : (p.season = 0 \/ p.season \in positive) /\ p.episode \in TargetsOf(entry, p.season)
    BY DEF PositiveSeasons, TargetsOf
  <2> QED BY <2>1, <2>2
<1>3. /\ Unstated(entry) = 0 => \A i \in DOMAIN entry : entry[i].kind # "unstated"
      /\ Nowhere(entry) = 0 => \A i \in DOMAIN entry : entry[i].kind \notin {"listed", "implicit"}
      /\ Count(entry, {"unstated", "implicit"}) = 0 =>
           \A i \in DOMAIN entry : entry[i].kind \notin {"unstated", "implicit"}
      /\ Unstated(entry) \in Nat /\ Nowhere(entry) \in Nat
  BY CountIs DEF Unstated, Nowhere
<1>4. ~Defaulted(entry) => \A i \in DOMAIN entry : \A p \in entry[i].on : ~p.default
  BY <1>2 DEF Defaulted
<1>5. ~OnZero(entry) => \A i \in DOMAIN entry : \A p \in entry[i].on : p.season # 0
  BY <1>2 DEF OnZero
<1>6. /\ f.seasons = SeasonRanges(entry)
      /\ f.specials # {} \/ f.special > 0 \/ f.episodes # {} => Unstated(entry) = 0
      /\ f.specials # {} => /\ positive = {} /\ ~Defaulted(entry) /\ f.specials = TargetsOf(entry, 0)
                            /\ f.special = 0 /\ f.episodes = {}
                            /\ f.specialsEpisodes > 0 => Nowhere(entry) = 0
      /\ f.special > 0 => /\ positive = {} /\ Nowhere(entry) = 0 /\ f.specials = {} /\ f.episodes = {}
                          /\ TargetsOf(entry, 0) = {f.special}
      /\ f.episodes # {} => /\ ~OnZero(entry) /\ ~Defaulted(entry) /\ Nowhere(entry) = 0
                            /\ f.specials = {} /\ f.special = 0
                            /\ positive = {CHOOSE s \in positive : TRUE}
                            /\ f.episodes = TargetsOf(entry, CHOOSE s \in positive : TRUE)
  BY FactsAre
<1>7. RangesExact(entry, f.seasons)
  BY <1>6, RangesAre
<1>8. scope.kind = "present" =>
        /\ Unstated(entry) = 0
        /\ positive = {} \/ (positive = {CHOOSE s \in positive : TRUE} /\ scope.season = CHOOSE s \in positive : TRUE)
  <2> SUFFICES ASSUME scope.kind = "present"
               PROVE  /\ Unstated(entry) = 0
                      /\ positive = {} \/ (/\ positive = {CHOOSE s \in positive : TRUE}
                                           /\ scope.season = CHOOSE s \in positive : TRUE)
    OBVIOUS
  <2>1. ~(Unstated(entry) > 0) /\ ~(Cardinality(positive) > 1)
        /\ scope.season = IF positive = {} THEN 0 ELSE CHOOSE s \in positive : TRUE
    BY DEF SeasonScope
  <2>2. IsFiniteSet(positive)
    BY EntryIs
  <2> HIDE DEF positive, scope
  <2>3. positive = {} \/ positive = {CHOOSE s \in positive : TRUE}
    BY <2>1, <2>2, OneSeason
  <2> QED BY <1>3, <2>1, <2>3
<1>9. f.episodes # {} => scope.season = CHOOSE s \in positive : TRUE
  <2> SUFFICES ASSUME f.episodes # {} PROVE scope.season = CHOOSE s \in positive : TRUE
    OBVIOUS
  <2>1. Unstated(entry) = 0 /\ positive = {CHOOSE s \in positive : TRUE}
    BY <1>6
  <2>2. Cardinality(positive) = 1
    BY <2>1, FS_Singleton
  <2>3. Len(entry) # 0
    <3>1. Landings(entry) # {}
      BY <2>1 DEF PositiveSeasons
    <3>2. DOMAIN entry # {} /\ DOMAIN entry = 1..Len(entry)
      BY <3>1, EntryIs DEF Landings
    <3> QED BY <3>2
  <2> QED BY <2>1, <2>2, <2>3 DEF SeasonScope
<1>10. run.episodes # {} =>
         \/ f.specials # {} /\ f.specialsEpisodes > 0 /\ run.episodes = f.specials
         \/ f.special > 0 /\ run.episodes = {f.special}
  BY DEF SpecialRun
<1> HIDE DEF f, run, positive, scope
<1>11. scope.kind = "present" => \A i \in DOMAIN entry :
         /\ entry[i].kind # "unstated"
         /\ \A p \in entry[i].on : p.season \in {0, scope.season}
  BY <1>2, <1>3, <1>8
<1>12. f.specials # {} => \A i \in DOMAIN entry :
         StatedOn(entry, i, 0, f.specials) \/ entry[i].kind \in {"listed", "implicit"}
  BY <1>2, <1>3, <1>4, <1>6 DEF StatedOn
<1>13. run.episodes # {} => \A i \in DOMAIN entry :
         entry[i].on # {} /\ \A p \in entry[i].on : p.season = 0 /\ p.episode \in run.episodes
  <2>1. CASE f.specials # {} /\ f.specialsEpisodes > 0 /\ run.episodes = f.specials
    BY <1>2, <1>3, <1>6, <2>1
  <2>2. CASE f.special > 0 /\ run.episodes = {f.special}
    BY <1>2, <1>3, <1>6, <2>2
  <2> QED BY <1>10, <2>1, <2>2
<1>14. f.episodes # {} => \A i \in DOMAIN entry : StatedOn(entry, i, scope.season, f.episodes)
  <2> SUFFICES ASSUME f.episodes # {}, NEW i \in DOMAIN entry
               PROVE  StatedOn(entry, i, scope.season, f.episodes)
    OBVIOUS
  <2>1. /\ ~OnZero(entry) /\ ~Defaulted(entry) /\ Nowhere(entry) = 0 /\ Unstated(entry) = 0
        /\ positive = {scope.season} /\ f.episodes = TargetsOf(entry, scope.season)
    BY <1>6, <1>9
  <2>2. entry[i].on # {}
    BY <1>2, <1>3, <2>1
  <2>3. \A p \in entry[i].on : p.season = scope.season /\ ~p.default
    BY <1>2, <1>4, <1>5, <2>1
  <2>4. \A p \in entry[i].on : p.episode \in TargetsOf(entry, p.season)
    BY <1>2
  <2> QED BY <2>1, <2>2, <2>3, <2>4 DEF StatedOn
<1>15. Cardinality({x \in {f.specials, f.episodes} : x # {}}) + (IF f.special > 0 THEN 1 ELSE 0) <= 1
  <2> DEFINE claims == {x \in {f.specials, f.episodes} : x # {}}
  <2>1. CASE f.specials # {}
    <3>1. claims = {f.specials} /\ ~(f.special > 0)
      BY <1>6, <2>1
    <3>2. Cardinality(claims) = 1
      BY <3>1, FS_Singleton
    <3> QED BY <3>1, <3>2
  <2>2. CASE f.special > 0
    <3>1. claims = {}
      BY <1>6, <2>2
    <3>2. Cardinality(claims) = 0
      BY <3>1, FS_EmptySet
    <3> QED BY <2>2, <3>2
  <2>3. CASE f.episodes # {}
    <3>1. claims = {f.episodes} /\ ~(f.special > 0)
      BY <1>6, <2>3
    <3>2. Cardinality(claims) = 1
      BY <3>1, FS_Singleton
    <3> QED BY <3>1, <3>2
  <2>4. CASE f.specials = {} /\ f.episodes = {} /\ ~(f.special > 0)
    <3>1. claims = {}
      BY <2>4
    <3>2. Cardinality(claims) = 0
      BY <3>1, FS_EmptySet
    <3> QED BY <2>4, <3>2
  <2> QED BY <2>1, <2>2, <2>3, <2>4
<1>16. FullyStated(entry) => \A i \in DOMAIN entry :
         entry[i].kind = "listed" \/ (entry[i].on # {} /\ \A p \in entry[i].on : ~p.default)
  BY <1>2, <1>3, <1>4 DEF FullyStated
<1> QED BY <1>1, <1>7, <1>11, <1>12, <1>13, <1>14, <1>15, <1>16 DEF ProjectionSound, run

------------------------------------------------------------------------------
(* Whether a copy matches.                                                     *)

\* Revisions are numbers, and an unread one is a revision too.
LEMMA RevisionsAre ==
  /\ RevisionUnknown \in Revisions /\ ~KnownRevision(RevisionUnknown)
  /\ \A r \in Revisions : r.version \in Nat /\ r.marker \in 0..4
BY DEF Revisions, RevisionUnknown, Rev, Marker, KnownRevision

\* Of some revisions one is the greatest, and no other has a later version.
LEMMA GreatestIs ==
  ASSUME NEW revs \in SUBSET Revisions, IsFiniteSet(revs), revs # {}
  PROVE  Greatest(revs) \in revs /\ \A q \in revs : q.version <= Greatest(revs).version
<1> DEFINE key == [r \in revs |-> 0 - (5 * r.version + r.marker)]
           Keys == {key[r] : r \in revs}
<1>1. \A r \in revs : r.version \in Nat /\ r.marker \in 0..4
  BY RevisionsAre
<1>2. Keys \in SUBSET Int /\ Keys # {} /\ IsFiniteSet(Keys)
  <2>1. Keys \in SUBSET Int /\ Keys # {}
    BY <1>1
  <2>2. key \in Surjection(revs, Keys)
    BY DEF Surjection
  <2> HIDE DEF key
  <2>3. IsFiniteSet(Keys)
    BY <2>2, FS_Surjection
  <2> QED BY <2>1, <2>3
<1>3. PICK r \in revs : \A q \in revs : key[r] <= key[q]
  <2>1. Min(Keys) \in Keys /\ \A y \in Keys : Min(Keys) <= y
    <3> HIDE DEF Keys
    <3> QED BY <1>2, LeastOf
  <2> HIDE DEF key
  <2> QED BY <2>1
<1>4. \A q \in revs : ~NewerRevision(q, r)
  BY <1>1, <1>3 DEF NewerRevision
<1>5. Greatest(revs) \in revs /\ \A q \in revs : ~NewerRevision(q, Greatest(revs))
  BY <1>4 DEF Greatest
<1> QED BY <1>1, <1>5 DEF NewerRevision

\* The newest of some revisions is behind what is listed when every one of them is.
LEMMA NewestBehind ==
  ASSUME NEW revs \in SUBSET Revisions, IsFiniteSet(revs), revs # {}
  PROVE  /\ NewestRevision(revs) \in Revisions
         /\ \A l \in Revisions :
              RevisionBehind(NewestRevision(revs), l) <=> \A r \in revs : RevisionBehind(r, l)
<1>1. CASE \E r \in revs : ~KnownRevision(r)
  <2>1. NewestRevision(revs) = RevisionUnknown
    BY <1>1 DEF NewestRevision
  <2> QED BY <1>1, <2>1, RevisionsAre DEF RevisionBehind
<1>2. CASE \A r \in revs : KnownRevision(r)
  <2>1. NewestRevision(revs) = Greatest(revs)
    BY <1>2 DEF NewestRevision
  <2>2. Greatest(revs) \in revs /\ \A q \in revs : q.version <= Greatest(revs).version
    BY GreatestIs
  <2>3. ASSUME NEW l \in Revisions
        PROVE  RevisionBehind(Greatest(revs), l) <=> \A r \in revs : RevisionBehind(r, l)
    <3>1. l.version \in Nat /\ Greatest(revs).version \in Nat /\ \A q \in revs : q.version \in Nat
      BY <2>2, RevisionsAre
    <3> QED BY <1>2, <2>2, <3>1 DEF RevisionBehind
  <2> QED BY <2>1, <2>2, <2>3
<1> QED BY <1>1, <1>2

\* Where each held revision is behind its listed one, so is the newest of them.
LEMMA NewestOfBehind ==
  ASSUME NEW G, IsFiniteSet(G), G # {}, NEW held \in [G -> Revisions], NEW listed \in [G -> Revisions],
         \A g \in G : RevisionBehind(held[g], listed[g])
  PROVE  NewestRevision({held[g] : g \in G}).version < NewestRevision({listed[g] : g \in G}).version
<1> DEFINE H == {held[g] : g \in G}
           L == {listed[g] : g \in G}
<1>1. H \in SUBSET Revisions /\ H # {} /\ L \in SUBSET Revisions /\ L # {}
  OBVIOUS
<1>2. IsFiniteSet(H) /\ IsFiniteSet(L)
  <2>1. held \in Surjection(G, H) /\ listed \in Surjection(G, L)
    BY DEF Surjection
  <2> QED BY <2>1, FS_Surjection
<1>3. \A h \in H : KnownRevision(h)
  BY DEF RevisionBehind
<1>4. \A l \in L : KnownRevision(l)
  BY DEF RevisionBehind, Explicit, KnownRevision, Marker
<1> HIDE DEF H, L
<1>5. NewestRevision(H) = Greatest(H) /\ NewestRevision(L) = Greatest(L)
  BY <1>1, <1>3, <1>4 DEF NewestRevision
<1>6. Greatest(H) \in H /\ Greatest(L) \in L /\ \A q \in L : q.version <= Greatest(L).version
  BY <1>1, <1>2, GreatestIs
<1>7. PICK g \in G : Greatest(H) = held[g]
  BY <1>6 DEF H
<1>8. held[g].version < listed[g].version /\ listed[g] \in L
  BY <1>7 DEF RevisionBehind, L
<1>9. \A r \in H \cup L : r.version \in Nat
  BY <1>1, RevisionsAre
<1>10. held[g] \in H
  BY DEF H
<1> QED BY <1>5, <1>6, <1>7, <1>8, <1>9, <1>10 DEF H, L

\* Where the groups of some files stand: of each, whether it is behind a listing is whether
\* every file of it is.
Weighs(files, groups, held) ==
  /\ groups = GroupsIn(files)
  /\ \A g \in groups : /\ g \in DOMAIN held /\ held[g] \in Revisions
                       /\ \A l \in Revisions : RevisionBehind(held[g], l) <=>
                            \A f \in files : f.group = g => RevisionBehind(f.rev, l)

Named(files, listing) == {f \in files : f.group \in listing.best /\ f.group # NoGroup}
Listed(listing) == \A g \in DOMAIN listing.revs : listing.revs[g] \in Revisions

\* A group's own files weigh as their newest.
LEMMA NewestWeighs ==
  ASSUME NEW files, IsFiniteSet(files), \A f \in files : f.rev \in Revisions
  PROVE  Weighs(files, GroupsIn(files), NewestPerGroup(files))
<1> SUFFICES ASSUME NEW g \in GroupsIn(files)
             PROVE  /\ g \in DOMAIN NewestPerGroup(files) /\ NewestPerGroup(files)[g] \in Revisions
                    /\ \A l \in Revisions : RevisionBehind(NewestPerGroup(files)[g], l) <=>
                         \A f \in files : f.group = g => RevisionBehind(f.rev, l)
  BY DEF Weighs
<1> DEFINE own == {x \in files : x.group = g}
           revs == {f.rev : f \in own}
           rev == [f \in own |-> f.rev]
<1>1. NewestPerGroup(files)[g] = NewestRevision(revs) /\ g \in DOMAIN NewestPerGroup(files)
  BY DEF NewestPerGroup
<1>2. own # {} /\ IsFiniteSet(own)
  BY FS_Subset DEF GroupsIn
<1>3. revs \in SUBSET Revisions /\ revs # {}
  BY <1>2
<1>4. IsFiniteSet(revs)
  <2>1. rev \in Surjection(own, revs)
    BY DEF Surjection
  <2> HIDE DEF rev, own
  <2> QED BY <1>2, <2>1, FS_Surjection
<1>5. /\ NewestRevision(revs) \in Revisions
      /\ \A l \in Revisions : RevisionBehind(NewestRevision(revs), l) <=> \A r \in revs : RevisionBehind(r, l)
  <2> HIDE DEF revs
  <2> QED BY <1>3, <1>4, NewestBehind
<1>6. \A l \in Revisions : (\A r \in revs : RevisionBehind(r, l)) <=>
        \A f \in files : f.group = g => RevisionBehind(f.rev, l)
  OBVIOUS
<1> QED BY <1>1, <1>5, <1>6

\* What is listed of a group is a revision, if only an unread one.
LEMMA ListedIs ==
  ASSUME NEW listing, Listed(listing), NEW g
  PROVE  At(listing.revs, g, RevisionUnknown) \in Revisions
BY RevisionsAre DEF At, Listed

\* Groups are superseded when every named best file is behind.
LEMMA SupersededIs ==
  ASSUME NEW files, NEW groups, NEW held, NEW listing, Weighs(files, groups, held), Listed(listing)
  PROVE  LET behind == SupersededGroups(groups, held, listing)
             named == Named(files, listing)
         IN /\ behind \subseteq groups
            /\ \A g \in behind : /\ At(held, g, RevisionUnknown) \in Revisions
                                 /\ RevisionBehind(At(held, g, RevisionUnknown), At(listing.revs, g, RevisionUnknown))
            /\ behind # {} <=> named # {} /\ \A f \in named : Behind(f, listing)
<1> DEFINE behind == SupersededGroups(groups, held, listing)
           named == Named(files, listing)
           best == (groups \cap listing.best) \ {NoGroup}
           All == \A g \in best : RevisionBehind(At(held, g, RevisionUnknown), At(listing.revs, g, RevisionUnknown))
<1>1. behind = IF All THEN best ELSE {}
  BY DEF SupersededGroups
<1>2. \A g \in groups : At(held, g, RevisionUnknown) \in Revisions
  BY DEF Weighs, At
<1>3. groups = GroupsIn(files)
  BY DEF Weighs
<1>4. /\ \A f \in named : f \in files /\ f.group \in best
      /\ \A g \in best : \E f \in named : f.group = g
  BY <1>3 DEF Named, GroupsIn
<1>5. All <=> \A f \in named : Behind(f, listing)
  <2>1. ASSUME NEW g \in best
        PROVE  RevisionBehind(At(held, g, RevisionUnknown), At(listing.revs, g, RevisionUnknown)) <=>
                 \A f \in named : f.group = g => Behind(f, listing)
    <3>1. At(held, g, RevisionUnknown) = held[g] /\ g \in groups
      BY DEF Weighs, At
    <3>2. PICK l \in Revisions : l = At(listing.revs, g, RevisionUnknown)
      BY ListedIs
    <3>3. RevisionBehind(held[g], l) <=> \A f \in files : f.group = g => RevisionBehind(f.rev, l)
      BY <3>1 DEF Weighs
    <3>4. \A f \in files : f.group = g => f \in named /\ (Behind(f, listing) <=> RevisionBehind(f.rev, l))
      BY <3>2 DEF Named, Behind
    <3>5. \A f \in named : f \in files
      BY DEF Named
    <3> QED BY <3>1, <3>2, <3>3, <3>4, <3>5
  <2> HIDE DEF named, best
  <2> QED BY <1>4, <2>1
<1>6. behind # {} <=> named # {} /\ \A f \in named : Behind(f, listing)
  <2>1. behind # {} <=> All /\ best # {}
    BY <1>1
  <2>2. best # {} <=> named # {}
    <3> HIDE DEF named, best
    <3> QED BY <1>4
  <2> QED BY <1>5, <2>1, <2>2
<1>7. \A g \in behind : g \in groups /\ RevisionBehind(At(held, g, RevisionUnknown), At(listing.revs, g, RevisionUnknown))
  BY <1>1
<1> QED BY <1>2, <1>6, <1>7

\* How a unit's groups meet a listing.
LEMMA LadderIs ==
  ASSUME NEW groups, groups # {}, NEW listing
  PROVE  LET ladder == GroupLadder(groups, listing)
         IN /\ ladder \in {"best", "unverified", "alt", "unlisted"}
            /\ ladder = "best" <=> groups \cap listing.best # {}
            /\ ladder \in {"alt", "unlisted"} /\ listing.best # {} =>
                 NoGroup \notin groups \cup listing.best
            /\ ladder = "unverified" => NoGroup \in groups \/ NoGroup \in listing.best \cup listing.alt
BY DEF GroupLadder, GroupsOverlap

\* A decision's outcome is asserted on these units only with the evidence for it.
OutcomeSound(units, listing, d) ==
  LET best == {f \in UNION units : f.group \in listing.best}
      named == {f \in best : f.group # NoGroup}
      holds(u) == \E f \in u : f.group \in listing.best
      nameless(u) == \E f \in u : f.group = NoGroup
      bad(u) == ~holds(u) /\ ~nameless(u) /\ NoGroup \notin listing.best
  IN /\ d.outcome = "no_file" <=> units = {}
     /\ d.outcome = "aligned" =>
          /\ \A u \in units : holds(u)
          /\ named # {} => \E f \in named : ~Behind(f, listing)
     /\ d.outcome = "superseded" =>
          /\ named # {} /\ \A f \in named : Behind(f, listing)
          /\ d.heldRevision.version < d.listedRevision.version
     /\ d.outcome \in {"mixed", "diverged"} => \E u \in units : bad(u)
     /\ d.outcome = "unverifiable" =>
          \E u \in units : ~holds(u) /\ (nameless(u) \/ NoGroup \in listing.best \cup listing.alt)

Ladder == {"best", "unverified", "alt", "unlisted"}
\* Superseded groups are stated with a held revision behind the listed one.
LEMMA RuledIs ==
  ASSUME NEW files, IsFiniteSet(files), NEW groups, NEW held, NEW listing,
         Weighs(files, groups, held), Listed(listing),
         NEW behind, behind = SupersededGroups(groups, held, listing), behind # {}
  PROVE  NewestRevision({At(held, g, RevisionUnknown) : g \in behind}).version
              < NewestRevision({At(listing.revs, g, RevisionUnknown) : g \in behind}).version
<1> DEFINE h == [g \in behind |-> At(held, g, RevisionUnknown)]
           l == [g \in behind |-> At(listing.revs, g, RevisionUnknown)]
<1>1. /\ behind \subseteq groups
      /\ \A g \in behind : /\ At(held, g, RevisionUnknown) \in Revisions
                           /\ RevisionBehind(At(held, g, RevisionUnknown), At(listing.revs, g, RevisionUnknown))
  BY SupersededIs
<1>2. IsFiniteSet(behind)
  <2> DEFINE group == [f \in files |-> f.group]
  <2>1. group \in Surjection(files, groups)
    BY DEF Surjection, Weighs, GroupsIn
  <2> HIDE DEF group
  <2>2. IsFiniteSet(groups)
    BY <2>1, FS_Surjection
  <2> QED BY <1>1, <2>2, FS_Subset
<1>3. h \in [behind -> Revisions] /\ l \in [behind -> Revisions]
  BY <1>1, ListedIs
<1>4. \A g \in behind : RevisionBehind(h[g], l[g])
  BY <1>1
<1>5. /\ {At(held, g, RevisionUnknown) : g \in behind} = {h[g] : g \in behind}
      /\ {At(listing.revs, g, RevisionUnknown) : g \in behind} = {l[g] : g \in behind}
  OBVIOUS
<1> HIDE DEF h, l
<1>6. NewestRevision({h[g] : g \in behind}).version < NewestRevision({l[g] : g \in behind}).version
  BY <1>2, <1>3, <1>4, NewestOfBehind
<1> QED BY <1>5, <1>6, Zenon

\* The fields of a decision.
LEMMA UnitIs ==
  ASSUME NEW item, Comparable(item), NEW scoped, scoped.kind # "offered", NEW unit, NEW listing
  PROVE  LET d == DecideUnit(item, scoped, unit, listing)
         IN /\ d.kind = scoped.kind /\ d.season = scoped.season
            /\ d.outcome = OutcomeOf(unit.standing, Cardinality(scoped.groups), listing.best = {})
            /\ unit.standing = "superseded" =>
                 /\ d.heldRevision = NewestRevision({At(scoped.revisions, g, RevisionUnknown) : g \in unit.behind})
                 /\ d.listedRevision = NewestRevision({At(listing.revs, g, RevisionUnknown) : g \in unit.behind})
BY DEF DecideUnit, Ruled, Decision, NoDecision

\* A decision over one unit's files.
LEMMA UnitSound ==
  ASSUME NEW item, Comparable(item), NEW files, IsFiniteSet(files), NEW listing, Listed(listing),
         NEW scoped, scoped.kind # "offered", scoped.hasFile <=> scoped.groups # {},
         Weighs(files, scoped.groups, scoped.revisions)
  PROVE  LET d == DecideUnit(item, scoped, UnitStanding(scoped, listing), listing)
         IN d.outcome # "withheld" /\ OutcomeSound({files} \ {{}}, listing, d)
<1> DEFINE d == DecideUnit(item, scoped, UnitStanding(scoped, listing), listing)
           units == {files} \ {{}}
           unit == UnitStanding(scoped, listing)
           ladder == GroupLadder(scoped.groups, listing)
           behind == SupersededGroups(scoped.groups, scoped.revisions, listing)
           named == Named(files, listing)
<1>1. /\ scoped.groups = GroupsIn(files)
      /\ scoped.groups = {} <=> files = {}
      /\ (\E f \in files : f.group \in listing.best) <=> scoped.groups \cap listing.best # {}
      /\ (\E f \in files : f.group = NoGroup) <=> NoGroup \in scoped.groups
  BY DEF Weighs, GroupsIn
<1>2. /\ d.outcome = OutcomeOf(unit.standing, Cardinality(scoped.groups), listing.best = {})
      /\ unit.standing = "superseded" =>
           /\ d.heldRevision = NewestRevision({At(scoped.revisions, g, RevisionUnknown) : g \in unit.behind})
           /\ d.listedRevision = NewestRevision({At(listing.revs, g, RevisionUnknown) : g \in unit.behind})
  <2> DEFINE decided(u) == DecideUnit(item, scoped, u, listing)
  <2>1. \A u : /\ decided(u).outcome = OutcomeOf(u.standing, Cardinality(scoped.groups), listing.best = {})
               /\ u.standing = "superseded" =>
                    /\ decided(u).heldRevision = NewestRevision({At(scoped.revisions, g, RevisionUnknown) : g \in u.behind})
                    /\ decided(u).listedRevision = NewestRevision({At(listing.revs, g, RevisionUnknown) : g \in u.behind})
    BY UnitIs
  <2>2. d = decided(unit)
    OBVIOUS
  <2> HIDE DEF decided, d, unit
  <2> QED BY <2>1, <2>2
<1>3. behind # {} <=> named # {} /\ \A f \in named : Behind(f, listing)
  BY SupersededIs
<1>4. CASE files = {}
  <2>1. unit.standing = "no_file"
    BY <1>1, <1>4 DEF UnitStanding
  <2>2. d.outcome = "no_file"
    BY <1>2, <2>1 DEF OutcomeOf
  <2>3. units = {}
    BY <1>4
  <2> QED BY <2>2, <2>3 DEF OutcomeSound
<1>5. CASE files # {}
  <2>1. /\ ladder \in Ladder
        /\ ladder = "best" <=> scoped.groups \cap listing.best # {}
        /\ ladder \in {"alt", "unlisted"} /\ listing.best # {} => NoGroup \notin scoped.groups \cup listing.best
        /\ ladder = "unverified" => NoGroup \in scoped.groups \/ NoGroup \in listing.best \cup listing.alt
    BY <1>1, <1>5, LadderIs DEF Ladder
  <2>2. /\ unit.standing = IF ladder = "best" /\ behind # {} THEN "superseded" ELSE ladder
        /\ unit.standing = "superseded" => unit.behind = behind
    BY <1>1, <1>5, <2>1 DEF UnitStanding, Ladder
  <2>3. units = {files} /\ UNION units = files
    BY <1>5
  <2>4. LET o == d.outcome
        IN /\ o = "no_file" <=> unit.standing = "no_file"
           /\ o = "aligned" => unit.standing = "best"
           /\ o = "superseded" => unit.standing = "superseded"
           /\ o \in {"mixed", "diverged"} => unit.standing \in {"alt", "unlisted"} /\ listing.best # {}
           /\ o = "unverifiable" => unit.standing = "unverified" /\ listing.best # {}
           /\ o # "withheld"
    <3>1. unit.standing \in Ladder \cup {"superseded"}
      BY <2>1, <2>2
    <3> HIDE DEF d, unit
    <3> QED BY <1>2, <3>1 DEF OutcomeOf, Ladder
  <2>5. d.outcome # "no_file"
    BY <2>1, <2>2, <2>4 DEF Ladder
  <2>6. d.outcome = "aligned" =>
          /\ \E f \in files : f.group \in listing.best
          /\ named # {} => \E f \in named : ~Behind(f, listing)
    BY <1>1, <1>3, <2>1, <2>2, <2>4 DEF Ladder
  <2>7. d.outcome = "superseded" =>
          /\ named # {} /\ \A f \in named : Behind(f, listing)
          /\ d.heldRevision.version < d.listedRevision.version
    <3> SUFFICES ASSUME d.outcome = "superseded"
                 PROVE  /\ named # {} /\ \A f \in named : Behind(f, listing)
                        /\ d.heldRevision.version < d.listedRevision.version
      OBVIOUS
    <3>1. unit.standing = "superseded" /\ unit.behind = behind /\ behind # {}
      BY <2>1, <2>2, <2>4 DEF Ladder
    <3> HIDE DEF d, unit, behind, named
    <3>2. NewestRevision({At(scoped.revisions, g, RevisionUnknown) : g \in behind}).version
             < NewestRevision({At(listing.revs, g, RevisionUnknown) : g \in behind}).version
      BY <3>1, RuledIs DEF behind
    <3> QED BY <1>2, <1>3, <3>1, <3>2
  <2>8. d.outcome \in {"mixed", "diverged"} =>
          /\ ~\E f \in files : f.group \in listing.best
          /\ ~(\E f \in files : f.group = NoGroup) /\ NoGroup \notin listing.best
    BY <1>1, <2>1, <2>2, <2>4 DEF Ladder
  <2>9. d.outcome = "unverifiable" =>
          /\ ~\E f \in files : f.group \in listing.best
          /\ (\E f \in files : f.group = NoGroup) \/ NoGroup \in listing.best \cup listing.alt
    BY <1>1, <2>1, <2>2, <2>4 DEF Ladder
  <2>10. {f \in {x \in UNION units : x.group \in listing.best} : f.group # NoGroup} = named
    BY <2>3 DEF Named
  <2>11. d.outcome # "withheld"
    BY <2>4
  <2> HIDE DEF d, named
  <2>12. OutcomeSound(units, listing, d)
    <3> HIDE DEF units
    <3> QED BY <2>3, <2>5, <2>6, <2>7, <2>8, <2>9, <2>10 DEF OutcomeSound
  <2> QED BY <2>11, <2>12 DEF d
<1> QED BY <1>4, <1>5

\* An item's seasons state the groups of their files and where each stands.
SeasonsAre(item, files) ==
  /\ DOMAIN item.seasonGroups = {f.season : f \in files}
  /\ \A s \in DOMAIN item.seasonGroups :
       /\ item.seasonGroups[s] = GroupsIn(InSeason(files, s))
       /\ item.seasonRevisions[s] = NewestPerGroup(InSeason(files, s))

OnLadder(item, e, listing, ladder) ==
  {s \in OwnSeasons(item, e) : GroupLadder(item.seasonGroups[s], listing) = ladder}
GroupsOn(item, seasons) == UNION {item.seasonGroups[s] : s \in seasons}
HeldOn(item, seasons) ==
  [g \in GroupsOn(item, seasons) |->
     NewestRevision({item.seasonRevisions[s][g] : s \in {x \in seasons : g \in item.seasonGroups[x]}})]
FilesOn(files, seasons) == UNION {InSeason(files, s) : s \in seasons}

\* What a whole series comes to.
LEMMA WholeIs ==
  ASSUME NEW item, NEW listing, NEW e
  PROVE  LET whole == SummarizeWholeSeries(item, listing, e)
             best == OnLadder(item, e, listing, "best")
         IN /\ whole.held = HeldOn(item, best)
            /\ whole.behind = SupersededGroups(GroupsOn(item, best), HeldOn(item, best), listing)
            /\ whole.standing =
                 IF OwnSeasons(item, e) = {} THEN "no_file"
                 ELSE IF OnLadder(item, e, listing, "unlisted") # {} THEN "unlisted"
                 ELSE IF OnLadder(item, e, listing, "alt") # {} THEN "alt"
                 ELSE IF SupersededGroups(GroupsOn(item, best), HeldOn(item, best), listing) # {} THEN "superseded"
                 ELSE IF OnLadder(item, e, listing, "unverified") # {} THEN "unverified"
                 ELSE "best"
BY DEF SummarizeWholeSeries, OnLadder, GroupsOn, HeldOn

\* The groups of some seasons weigh as the newest of what each season holds of them.
LEMMA SeasonsWeigh ==
  ASSUME NEW item, NEW files, IsFiniteSet(files), \A f \in files : f.rev \in Revisions,
         SeasonsAre(item, files), NEW seasons \in SUBSET DOMAIN item.seasonGroups
  PROVE  Weighs(FilesOn(files, seasons), GroupsOn(item, seasons), HeldOn(item, seasons))
<1> DEFINE all == FilesOn(files, seasons)
           groups == GroupsOn(item, seasons)
<1>1. \A s \in seasons : /\ InSeason(files, s) \subseteq all
                         /\ Weighs(InSeason(files, s), item.seasonGroups[s], item.seasonRevisions[s])
  <2> SUFFICES ASSUME NEW s \in seasons
               PROVE  /\ InSeason(files, s) \subseteq all
                      /\ Weighs(InSeason(files, s), item.seasonGroups[s], item.seasonRevisions[s])
    OBVIOUS
  <2>1. IsFiniteSet(InSeason(files, s)) /\ \A f \in InSeason(files, s) : f.rev \in Revisions
    BY FS_Subset DEF InSeason
  <2>2. Weighs(InSeason(files, s), GroupsIn(InSeason(files, s)), NewestPerGroup(InSeason(files, s)))
    BY <2>1, NewestWeighs
  <2> QED BY <2>2 DEF SeasonsAre, FilesOn
<1>2. \A f \in all : \E s \in seasons : f \in InSeason(files, s)
  BY DEF FilesOn
<1>3. groups = GroupsIn(all)
  BY <1>1, <1>2 DEF Weighs, GroupsOn, GroupsIn
<1>4. IsFiniteSet(seasons)
  <2> DEFINE season == [f \in files |-> f.season]
  <2>1. season \in Surjection(files, DOMAIN item.seasonGroups)
    BY DEF Surjection, SeasonsAre
  <2> HIDE DEF season
  <2>2. IsFiniteSet(DOMAIN item.seasonGroups)
    BY <2>1, FS_Surjection
  <2> QED BY <2>2, FS_Subset
<1>5. ASSUME NEW g \in groups
      PROVE  /\ g \in DOMAIN HeldOn(item, seasons) /\ HeldOn(item, seasons)[g] \in Revisions
             /\ \A l \in Revisions : RevisionBehind(HeldOn(item, seasons)[g], l) <=>
                  \A f \in all : f.group = g => RevisionBehind(f.rev, l)
  <2> DEFINE having == {x \in seasons : g \in item.seasonGroups[x]}
             rev == [s \in having |-> item.seasonRevisions[s][g]]
             revs == {item.seasonRevisions[s][g] : s \in having}
  <2>1. g \in DOMAIN HeldOn(item, seasons) /\ HeldOn(item, seasons)[g] = NewestRevision(revs)
    BY DEF HeldOn
  <2>2. having # {} /\ IsFiniteSet(having)
    BY <1>4, FS_Subset DEF GroupsOn
  <2>3. \A s \in having : /\ item.seasonRevisions[s][g] \in Revisions
                          /\ \A l \in Revisions : RevisionBehind(item.seasonRevisions[s][g], l) <=>
                               \A f \in InSeason(files, s) : f.group = g => RevisionBehind(f.rev, l)
    BY <1>1 DEF Weighs
  <2>4. revs \in SUBSET Revisions /\ revs # {}
    BY <2>2, <2>3
  <2>5. IsFiniteSet(revs)
    <3>1. rev \in Surjection(having, revs)
      BY DEF Surjection
    <3> HIDE DEF rev, having
    <3> QED BY <2>2, <3>1, FS_Surjection
  <2>6. /\ NewestRevision(revs) \in Revisions
        /\ \A l \in Revisions : RevisionBehind(NewestRevision(revs), l) <=> \A r \in revs : RevisionBehind(r, l)
    <3> HIDE DEF revs
    <3> QED BY <2>4, <2>5, NewestBehind
  <2>7. ASSUME NEW l \in Revisions
        PROVE  (\A r \in revs : RevisionBehind(r, l)) <=> \A f \in all : f.group = g => RevisionBehind(f.rev, l)
    <3>1. (\A r \in revs : RevisionBehind(r, l)) <=> \A s \in having : RevisionBehind(item.seasonRevisions[s][g], l)
      OBVIOUS
    <3>2. \A s \in having : RevisionBehind(item.seasonRevisions[s][g], l) <=>
            \A f \in InSeason(files, s) : f.group = g => RevisionBehind(f.rev, l)
      BY <2>3
    <3>3. \A s \in seasons : \A f \in InSeason(files, s) : f.group = g => s \in having
      BY <1>1 DEF Weighs, GroupsIn
    <3> HIDE DEF having, all, revs
    <3>4. \A s \in having : s \in seasons
      BY DEF having
    <3>5. \A s \in seasons : \A f \in InSeason(files, s) : f \in all
      BY <1>1
    <3> QED BY <1>2, <3>1, <3>2, <3>3, <3>4, <3>5
  <2> QED BY <2>1, <2>6, <2>7
<1> QED BY <1>3, <1>5 DEF Weighs

\* A decision over the seasons of a series that are the entry's own.
LEMMA SeriesSound ==
  ASSUME NEW item, Comparable(item), NEW files, IsFiniteSet(files), \A f \in files : f.rev \in Revisions,
         SeasonsAre(item, files), NEW e, NEW listing, Listed(listing)
  PROVE  LET d == DecideSeries(item, SummarizeWholeSeries(item, listing, e), listing)
         IN d.outcome # "withheld" /\ OutcomeSound({InSeason(files, s) : s \in OwnSeasons(item, e)} \ {{}}, listing, d)
<1> DEFINE whole == SummarizeWholeSeries(item, listing, e)
           d == DecideSeries(item, whole, listing)
           own == OwnSeasons(item, e)
           units == {InSeason(files, s) : s \in own} \ {{}}
           on(ladder) == OnLadder(item, e, listing, ladder)
           best == on("best")
           all == FilesOn(files, best)
           behind == SupersededGroups(GroupsOn(item, best), HeldOn(item, best), listing)
           named == Named(all, listing)
<1>1. /\ d.outcome = OutcomeOf(whole.standing, Cardinality(whole.groups), listing.best = {})
      /\ whole.standing = "superseded" =>
           /\ d.heldRevision = NewestRevision({At(whole.held, g, RevisionUnknown) : g \in whole.behind})
           /\ d.listedRevision = NewestRevision({At(listing.revs, g, RevisionUnknown) : g \in whole.behind})
  <2> DEFINE decided(w) == DecideSeries(item, w, listing)
  <2>1. \A w : /\ decided(w).outcome = OutcomeOf(w.standing, Cardinality(w.groups), listing.best = {})
               /\ w.standing = "superseded" =>
                    /\ decided(w).heldRevision = NewestRevision({At(w.held, g, RevisionUnknown) : g \in w.behind})
                    /\ decided(w).listedRevision = NewestRevision({At(listing.revs, g, RevisionUnknown) : g \in w.behind})
    BY DEF DecideSeries, Ruled, Decision, NoDecision
  <2>2. d = decided(whole)
    OBVIOUS
  <2> HIDE DEF decided, d, whole
  <2> QED BY <2>1, <2>2
<1>2. /\ whole.held = HeldOn(item, best) /\ whole.behind = behind
      /\ whole.standing = IF own = {} THEN "no_file"
                          ELSE IF on("unlisted") # {} THEN "unlisted"
                          ELSE IF on("alt") # {} THEN "alt"
                          ELSE IF behind # {} THEN "superseded"
                          ELSE IF on("unverified") # {} THEN "unverified"
                          ELSE "best"
  BY WholeIs
<1>3. own \subseteq DOMAIN item.seasonGroups /\ \A ladder : on(ladder) \subseteq own
  BY DEF OwnSeasons, OnLadder
<1>4. ASSUME NEW s \in own
      PROVE  /\ InSeason(files, s) \in units
             /\ GroupLadder(item.seasonGroups[s], listing) \in Ladder
             /\ s \in best <=> \E f \in InSeason(files, s) : f.group \in listing.best
             /\ s \in on("unlisted") \cup on("alt") /\ listing.best # {} =>
                  /\ ~(\E f \in InSeason(files, s) : f.group \in listing.best)
                  /\ ~(\E f \in InSeason(files, s) : f.group = NoGroup) /\ NoGroup \notin listing.best
             /\ s \in on("unverified") =>
                  /\ ~(\E f \in InSeason(files, s) : f.group \in listing.best)
                  /\ (\E f \in InSeason(files, s) : f.group = NoGroup) \/ NoGroup \in listing.best \cup listing.alt
  <2> DEFINE groups == item.seasonGroups[s]
             ladder == GroupLadder(groups, listing)
             unit == InSeason(files, s)
  <2>1. /\ groups = GroupsIn(unit) /\ unit # {}
    BY <1>3 DEF SeasonsAre, InSeason
  <2>2. /\ groups # {}
        /\ (\E f \in unit : f.group \in listing.best) <=> groups \cap listing.best # {}
        /\ (\E f \in unit : f.group = NoGroup) <=> NoGroup \in groups
    BY <2>1 DEF GroupsIn
  <2>3. /\ ladder \in Ladder
        /\ ladder = "best" <=> groups \cap listing.best # {}
        /\ ladder \in {"alt", "unlisted"} /\ listing.best # {} => NoGroup \notin groups \cup listing.best
        /\ ladder = "unverified" => NoGroup \in groups \/ NoGroup \in listing.best \cup listing.alt
    <3> HIDE DEF groups
    <3> QED BY <2>2, LadderIs DEF Ladder
  <2>4. \A l : s \in on(l) <=> ladder = l
    BY DEF OnLadder
  <2>5. unit \in units
    BY <2>1
  <2> HIDE DEF groups, ladder, unit, units, on
  <2> QED BY <2>2, <2>3, <2>4, <2>5 DEF groups, ladder, unit
<1>5. /\ {u \in units : TRUE} = {InSeason(files, s) : s \in own}
      /\ units = {} <=> own = {}
  BY <1>4
<1>6. behind # {} <=> named # {} /\ \A f \in named : Behind(f, listing)
  <2>1. Weighs(all, GroupsOn(item, best), HeldOn(item, best))
    BY <1>3, SeasonsWeigh
  <2> QED BY <2>1, SupersededIs
<1>7. behind # {} => NewestRevision({At(HeldOn(item, best), g, RevisionUnknown) : g \in behind}).version
                       < NewestRevision({At(listing.revs, g, RevisionUnknown) : g \in behind}).version
  <2>1. Weighs(all, GroupsOn(item, best), HeldOn(item, best))
    BY <1>3, SeasonsWeigh
  <2>2. IsFiniteSet(all)
    BY FS_Subset DEF FilesOn, InSeason
  <2> QED BY <2>1, <2>2, RuledIs
<1>8. {f \in {x \in UNION units : x.group \in listing.best} : f.group # NoGroup} = named
  <2>1. \A f : f \in UNION units <=> \E s \in own : f \in InSeason(files, s)
    BY <1>5
  <2>2. \A f : f \in all <=> \E s \in best : f \in InSeason(files, s)
    BY DEF FilesOn
  <2>3. \A s \in own : \A f \in InSeason(files, s) : f.group \in listing.best => s \in best
    BY <1>4
  <2>4. \A s \in best : s \in own
    BY <1>3
  <2> HIDE DEF units, all, best, own
  <2>5. \A f : f \in UNION units /\ f.group \in listing.best <=> f \in all /\ f.group \in listing.best
    BY <2>1, <2>2, <2>3, <2>4
  <2> QED BY <2>5 DEF Named
<1>9. /\ whole.standing \in Ladder \cup {"no_file", "superseded"}
      /\ whole.standing = "no_file" <=> own = {}
      /\ whole.standing = "best" => behind = {} /\ \A s \in own : s \in best
      /\ whole.standing = "superseded" => behind # {}
      /\ whole.standing \in {"alt", "unlisted"} => \E s \in own : s \in on("unlisted") \cup on("alt")
      /\ whole.standing = "unverified" => \E s \in own : s \in on("unverified")
  <2>1. \A s \in own : \E l \in Ladder : s \in on(l)
    BY <1>4 DEF OnLadder
  <2> HIDE DEF whole, own, behind
  <2>2. \A s \in own : s \in on("best") \/ s \in on("unlisted") \/ s \in on("alt") \/ s \in on("unverified")
    <3> HIDE DEF on
    <3> QED BY <2>1 DEF Ladder
  <2> HIDE DEF on, best
  <2> QED BY <1>2, <1>3, <2>2 DEF Ladder, best
<1>10. LET o == d.outcome
       IN /\ o = "no_file" <=> whole.standing = "no_file"
          /\ o = "aligned" => whole.standing = "best"
          /\ o = "superseded" => whole.standing = "superseded"
          /\ o \in {"mixed", "diverged"} => whole.standing \in {"alt", "unlisted"} /\ listing.best # {}
          /\ o = "unverifiable" => whole.standing = "unverified" /\ listing.best # {}
          /\ o # "withheld"
  <2> HIDE DEF d, whole
  <2> QED BY <1>1, <1>9 DEF OutcomeOf, Ladder
<1>11. d.outcome = "no_file" <=> units = {}
  BY <1>5, <1>9, <1>10
<1>12. d.outcome = "aligned" =>
         /\ \A u \in units : \E f \in u : f.group \in listing.best
         /\ named # {} => \E f \in named : ~Behind(f, listing)
  <2> HIDE DEF d, whole, best, named, behind
  <2> QED BY <1>4, <1>5, <1>6, <1>9, <1>10
<1>13. d.outcome = "superseded" =>
         /\ named # {} /\ \A f \in named : Behind(f, listing)
         /\ d.heldRevision.version < d.listedRevision.version
  <2> HIDE DEF d, whole, behind, named
  <2> QED BY <1>1, <1>2, <1>6, <1>7, <1>9, <1>10
<1>14. d.outcome \in {"mixed", "diverged"} =>
         \E u \in units : /\ ~\E f \in u : f.group \in listing.best
                          /\ ~(\E f \in u : f.group = NoGroup) /\ NoGroup \notin listing.best
  <2> HIDE DEF d, whole, units, own, on, best
  <2> QED BY <1>4, <1>9, <1>10
<1>15. d.outcome = "unverifiable" =>
         \E u \in units : /\ ~\E f \in u : f.group \in listing.best
                          /\ (\E f \in u : f.group = NoGroup) \/ NoGroup \in listing.best \cup listing.alt
  <2> HIDE DEF d, whole, units, own, on, best
  <2> QED BY <1>4, <1>9, <1>10
<1>16. OutcomeSound(units, listing, d)
  <2> HIDE DEF d, units, named
  <2> QED BY <1>8, <1>11, <1>12, <1>13, <1>14, <1>15 DEF OutcomeSound
<1> QED BY <1>10, <1>16

\* A numbered row's own file, as the list gives it.
RowOf(series, season) == ByNumber(Numbered(series.episodes, season), LAMBDA ep : ListedEpisode(ep, series.files))

\* The item of a series whose files were read.
LEMMA ItemIs ==
  ASSUME NEW series
  PROVE  LET item == ItemOf(series)
             files == series.files
         IN /\ item.arr = "sonarr" /\ item.failed = (series.read = "none")
            /\ series.read # "none" =>
                 /\ item.seasonGroups = PerSeason(files, GroupsIn)
                 /\ item.seasonRevisions = PerSeason(files, NewestPerGroup)
                 /\ item.specials \in {<<>>, RowOf(series, 0)}
                 /\ \A s \in DOMAIN item.listed : item.listed[s] = RowOf(series, s)
<1> DEFINE item == ItemOf(series)
           listed == ListedEpisodes(series.episodes, series.files)
<1>1. /\ item.arr = "sonarr" /\ item.failed = (series.read = "none")
      /\ series.read # "none" =>
           /\ item.seasonGroups = PerSeason(series.files, GroupsIn)
           /\ item.seasonRevisions = PerSeason(series.files, NewestPerGroup)
           /\ item.listed \in {<<>>, listed}
  <2>1. CASE series.read = "none"
    BY <2>1 DEF ItemOf, SeriesItem, NoItem
  <2>2. CASE series.read = "files"
    BY <2>2 DEF ItemOf, SeriesItem, NoItem
  <2>3. CASE series.read \notin {"none", "files"}
    BY <2>3 DEF ItemOf, SeriesItem, NoItem
  <2> QED BY <2>1, <2>2, <2>3
<1>2. \A s \in DOMAIN listed : listed[s] = RowOf(series, s)
  BY Zenon DEF ListedEpisodes, RowOf
<1>3. series.read # "none" => item.specials \in {<<>>, RowOf(series, 0)}
  <2>1. CASE series.read = "files"
    BY <2>1 DEF ItemOf, SeriesItem, NoItem
  <2>2. CASE series.read \notin {"none", "files"}
    BY <2>2 DEF ItemOf, SeriesItem, NoItem, RowOf
  <2> QED BY <2>1, <2>2
<1> HIDE DEF listed, item
<1>4. series.read # "none" => \A s \in DOMAIN item.listed : item.listed[s] = RowOf(series, s)
  BY <1>1, <1>2
<1> QED BY <1>1, <1>3, <1>4 DEF item

LEMMA ItemSeasons ==
  ASSUME NEW series, series.read # "none"
  PROVE  SeasonsAre(ItemOf(series), series.files)
<1> DEFINE groups == PerSeason(series.files, GroupsIn)
           revs == PerSeason(series.files, NewestPerGroup)
<1>1. ItemOf(series).seasonGroups = groups /\ ItemOf(series).seasonRevisions = revs
  BY ItemIs
<1>2. /\ DOMAIN groups = {f.season : f \in series.files}
      /\ \A s \in DOMAIN groups : groups[s] = GroupsIn(InSeason(series.files, s)) /\ revs[s] = NewestPerGroup(InSeason(series.files, s))
  BY DEF PerSeason
<1> HIDE DEF groups, revs
<1> QED BY <1>1, <1>2 DEF SeasonsAre

\* The list gives each numbered episode what its one row does.
LEMMA RowsAre ==
  ASSUME NEW series, ListedOnce(series), NEW season
  PROVE  /\ \A n \in DOMAIN RowOf(series, season) : \E ep \in Numbered(series.episodes, season) : ep.number = n
         /\ \A ep \in Numbered(series.episodes, season) :
              ep.number \in DOMAIN RowOf(series, season)
              /\ RowOf(series, season)[ep.number] = ListedEpisode(ep, series.files)
<1> DEFINE rows == Numbered(series.episodes, season)
           row == RowOf(series, season)
<1>1. /\ DOMAIN row = {ep.number : ep \in rows}
      /\ \A n \in DOMAIN row : row[n] = ListedEpisode(CHOOSE ep \in rows : ep.number = n, series.files)
  BY DEF RowOf, ByNumber
<1>2. ASSUME NEW ep \in rows
      PROVE  (CHOOSE x \in rows : x.number = ep.number) = ep
  <2>1. \A x \in rows : x.number = ep.number => x = ep
    BY DEF Numbered, ListedOnce
  <2> HIDE DEF rows
  <2> QED BY <2>1
<1> HIDE DEF rows, row
<1> QED BY <1>1, <1>2 DEF rows, row

\* A row that holds a file states that file's group and revision.
LEMMA RowStates ==
  ASSUME NEW series, ListedOnce(series), NEW ep
  PROVE  LET known == ListedEpisode(ep, series.files)
         IN /\ known.has => \E f \in FileOf(ep, series.files) : TRUE
            /\ \A f \in FileOf(ep, series.files) : known.has /\ known.group = f.group /\ known.rev = f.rev
<1> DEFINE held == FileOf(ep, series.files)
<1>1. ASSUME NEW f \in held PROVE (CHOOSE x \in held : TRUE) = f
  <2>1. \A x \in held : x = f
    BY DEF FileOf, ListedOnce
  <2> HIDE DEF held
  <2> QED BY <2>1
<1> HIDE DEF held
<1>2. ASSUME NEW f \in held
      PROVE  ListedEpisode(ep, series.files) = [has |-> TRUE, group |-> f.group, rev |-> f.rev]
  BY <1>1, <1>2 DEF ListedEpisode, held
<1>3. held = {} => ~ListedEpisode(ep, series.files).has
  BY DEF ListedEpisode, held
<1> DEFINE known == ListedEpisode(ep, series.files)
<1>4. known.has => held # {}
  BY <1>3
<1> HIDE DEF known
<1>5. \A f \in held : known.has /\ known.group = f.group /\ known.rev = f.rev
  <2>1. \A f \in held : known = [has |-> TRUE, group |-> f.group, rev |-> f.rev]
    BY <1>2 DEF known
  <2>2. \A f \in held : known.has = TRUE
    BY <2>1
  <2>3. \A f \in held : known.group = f.group /\ known.rev = f.rev
    BY <2>1
  <2>4. \A f \in held : known.has
    BY <2>2, Zenon
  <2> QED BY <2>3, <2>4
<1> QED BY <1>4, <1>5 DEF held, known

\* Placed episodes are judged on exactly their files.
LEMMA EpisodesWeigh ==
  ASSUME NEW series, ListedOnce(series), NEW season, NEW placed, placed \subseteq DOMAIN RowOf(series, season)
  PROVE  LET scoped == EpisodesScope(RowOf(series, season), season, placed)
             files == FilesOf(series, season, placed)
         IN /\ scoped.kind = "episodes" /\ scoped.season = season
            /\ scoped.hasFile <=> scoped.groups # {}
            /\ scoped.groups # {} => \E n \in placed : RowOf(series, season)[n].has
            /\ Weighs(files, scoped.groups, scoped.revisions)
<1> DEFINE row == RowOf(series, season)
           scoped == EpisodesScope(row, season, placed)
           files == FilesOf(series, season, placed)
           held == {n \in placed : row[n].has}
           revs(g) == {row[n].rev : n \in {x \in held : row[x].group = g}}
           own(g) == {f.rev : f \in {x \in files : x.group = g}}
<1>1. /\ scoped.kind = "episodes" /\ scoped.season = season
      /\ scoped.hasFile <=> scoped.groups # {}
      /\ scoped.groups = {row[n].group : n \in held}
      /\ scoped.revisions = [g \in scoped.groups |-> NewestRevision(revs(g))]
  BY DEF EpisodesScope, ScopeAt
<1>2. \A f \in files : f \in series.files
  BY DEF FilesOf
<1>3. ASSUME NEW f \in files
      PROVE  \E n \in held : row[n].group = f.group /\ row[n].rev = f.rev
  <2>1. PICK ep \in series.episodes : ep.season = season /\ ep.number \in placed /\ FileOf(ep, {f}) # {}
    BY DEF FilesOf
  <2>2. f \in FileOf(ep, series.files)
    BY <1>2, <2>1 DEF FileOf
  <2>3. PICK x \in Numbered(series.episodes, season) : x.number = ep.number
    BY <2>1, RowsAre
  <2>4. x = ep
    BY <2>1, <2>3 DEF Numbered, ListedOnce
  <2>5. row[ep.number] = ListedEpisode(ep, series.files)
    BY <2>3, <2>4, RowsAre
  <2>6. LET known == ListedEpisode(ep, series.files)
        IN known.has /\ known.group = f.group /\ known.rev = f.rev
    BY <2>2, RowStates
  <2> HIDE DEF row
  <2> QED BY <2>1, <2>5, <2>6
<1>4. ASSUME NEW n \in held
      PROVE  \E f \in files : row[n].group = f.group /\ row[n].rev = f.rev
  <2>1. PICK ep \in Numbered(series.episodes, season) : ep.number = n
    BY RowsAre
  <2>2. row[n] = ListedEpisode(ep, series.files)
    BY <2>1, RowsAre
  <2>3. PICK f \in FileOf(ep, series.files) : row[n].group = f.group /\ row[n].rev = f.rev
    BY <2>2, RowStates
  <2>4. f \in series.files /\ FileOf(ep, {f}) # {}
    BY <2>3 DEF FileOf
  <2>5. f \in files
    BY <2>1, <2>4 DEF FilesOf, Numbered
  <2> QED BY <2>3, <2>5
<1> HIDE DEF files, row
<1>5. scoped.groups = GroupsIn(files)
  BY <1>1, <1>3, <1>4 DEF GroupsIn
<1>6. \A g : revs(g) = own(g)
  BY <1>3, <1>4
<1>7. IsFiniteSet(files) /\ \A f \in files : f.rev \in Revisions
  BY <1>2, FS_Subset DEF ListedOnce
<1>8. scoped.revisions = NewestPerGroup(files)
  <2>1. NewestPerGroup(files) = [g \in GroupsIn(files) |-> NewestRevision(own(g))]
    BY DEF NewestPerGroup
  <2> HIDE DEF revs, own, scoped
  <2> QED BY <1>1, <1>5, <1>6, <2>1
<1>9. Weighs(files, scoped.groups, scoped.revisions)
  <2> HIDE DEF scoped
  <2> QED BY <1>5, <1>7, <1>8, NewestWeighs
<1>10. scoped.groups # {} => \E n \in placed : row[n].has
  <2> HIDE DEF scoped
  <2> QED BY <1>1
<1> QED BY <1>1, <1>9, <1>10 DEF files, row

\* The files judged together for an entry placed in a season, or on episodes.
ScopeFiles(series, e, scoped) ==
  IF scoped.kind = "season" THEN InSeason(series.files, scoped.season)
  ELSE FilesOf(series, scoped.season, IF scoped.season = 0 THEN e.specials ELSE e.episodes)

\* A season weighs as its files do, one without files included.
LEMMA SeasonWeighs ==
  ASSUME NEW series, ListedOnce(series), series.read # "none", NEW season
  PROVE  LET item == ItemOf(series)
         IN Weighs(InSeason(series.files, season), At(item.seasonGroups, season, {}), At(item.seasonRevisions, season, <<>>))
<1> DEFINE item == ItemOf(series)
           files == InSeason(series.files, season)
<1>1. SeasonsAre(item, series.files)
  BY ItemSeasons
<1>2. DOMAIN item.seasonRevisions = DOMAIN item.seasonGroups
  <2>1. item.seasonGroups = PerSeason(series.files, GroupsIn) /\ item.seasonRevisions = PerSeason(series.files, NewestPerGroup)
    BY ItemIs
  <2> HIDE DEF item
  <2> QED BY <2>1 DEF PerSeason
<1> HIDE DEF item
<1>3. CASE season \in DOMAIN item.seasonGroups
  <2>1. IsFiniteSet(files) /\ \A f \in files : f.rev \in Revisions
    BY FS_Subset DEF InSeason, ListedOnce
  <2>2. Weighs(files, GroupsIn(files), NewestPerGroup(files))
    BY <2>1, NewestWeighs
  <2>3. /\ At(item.seasonGroups, season, {}) = GroupsIn(files)
        /\ At(item.seasonRevisions, season, <<>>) = NewestPerGroup(files)
    BY <1>1, <1>2, <1>3 DEF SeasonsAre, At
  <2> QED BY <2>2, <2>3 DEF item
<1>4. CASE season \notin DOMAIN item.seasonGroups
  <2>1. At(item.seasonGroups, season, {}) = {}
    BY <1>4 DEF At
  <2>2. GroupsIn(files) = {}
    BY <1>1, <1>4 DEF SeasonsAre, InSeason, GroupsIn
  <2> QED BY <2>1, <2>2 DEF Weighs, item
<1> QED BY <1>3, <1>4

\* Where an entry is placed in a series whose files were read, and what it is judged on there.
LEMMA ScopeIs ==
  ASSUME NEW series, ListedOnce(series), series.read # "none", NEW e
  PROVE  LET item == ItemOf(series)
             kind == RecordSeason(e.rec)
             scoped == ScopeOf(item, e.rec, e.specials, e.episodes)
         IN /\ kind \in {"season", "offered", "series"}
            /\ kind = "series" => scoped.kind = "series"
            /\ kind = "season" => scoped.kind \in {"season", "episodes"}
            /\ kind = "offered" => \/ scoped.kind = "offered"
                                   \/ /\ scoped.kind = "episodes" /\ scoped.season = 0
                                      /\ scoped.groups # {} => \E n \in e.specials :
                                           n \in DOMAIN item.specials /\ item.specials[n].has
            /\ scoped.kind \in {"season", "episodes"} =>
                 /\ scoped.hasFile <=> scoped.groups # {}
                 /\ Weighs(ScopeFiles(series, e, scoped), scoped.groups, scoped.revisions)
<1> DEFINE item == ItemOf(series)
           kind == RecordSeason(e.rec)
           scoped == ScopeOf(item, e.rec, e.specials, e.episodes)
           Judged == /\ scoped.hasFile <=> scoped.groups # {}
                     /\ Weighs(ScopeFiles(series, e, scoped), scoped.groups, scoped.revisions)
<1>1. /\ item.arr = "sonarr"
      /\ \A s \in DOMAIN item.listed : item.listed[s] = RowOf(series, s)
      /\ item.specials \in {<<>>, RowOf(series, 0)}
  BY ItemIs
<1>2. kind \in {"season", "offered", "series"}
  BY DEF RecordSeason
<1>3. CASE kind = "series"
  <2>1. scoped = ScopeAt("series", 0, {}, <<>>)
    BY <1>1, <1>3 DEF ScopeOf
  <2>2. scoped.kind = "series"
    BY <2>1 DEF ScopeAt
  <2> QED BY <1>3, <2>2
<1>4. CASE kind = "season"
  <2> DEFINE season == e.rec.season
  <2>1. season > 0
    BY <1>4 DEF RecordSeason
  <2>2. CASE PartOfSeason(item, season, e.episodes)
    <3>1. scoped = EpisodesScope(item.listed[season], season, e.episodes)
      BY <1>1, <1>4, <2>2 DEF ScopeOf
    <3>2. season \in DOMAIN item.listed /\ e.episodes \subseteq DOMAIN item.listed[season]
      BY <2>2 DEF PartOfSeason, IsPlaced, At
    <3>3. item.listed[season] = RowOf(series, season)
      BY <1>1, <3>2
    <3> DEFINE row == RowOf(series, season)
    <3>4. e.episodes \subseteq DOMAIN row /\ scoped = EpisodesScope(row, season, e.episodes)
      BY <3>1, <3>2, <3>3
    <3> HIDE DEF scoped
    <3>5. /\ scoped.kind = "episodes" /\ scoped.season = season
          /\ scoped.hasFile <=> scoped.groups # {}
          /\ Weighs(FilesOf(series, season, e.episodes), scoped.groups, scoped.revisions)
      BY <3>4, EpisodesWeigh
    <3>6. ScopeFiles(series, e, scoped) = FilesOf(series, season, e.episodes)
      BY <2>1, <3>5 DEF ScopeFiles
    <3> QED BY <1>4, <3>5, <3>6 DEF scoped
  <2>3. CASE ~PartOfSeason(item, season, e.episodes)
    <3>1. scoped = ScopeAt("season", season, At(item.seasonGroups, season, {}), At(item.seasonRevisions, season, <<>>))
      BY <1>1, <1>4, <2>3 DEF ScopeOf
    <3>2. Weighs(InSeason(series.files, season), At(item.seasonGroups, season, {}), At(item.seasonRevisions, season, <<>>))
      BY SeasonWeighs
    <3> HIDE DEF scoped, item
    <3>3. /\ scoped.kind = "season" /\ scoped.season = season
          /\ scoped.hasFile <=> scoped.groups # {}
          /\ scoped.groups = At(item.seasonGroups, season, {})
          /\ scoped.revisions = At(item.seasonRevisions, season, <<>>)
      BY <3>1 DEF ScopeAt
    <3>4. Weighs(ScopeFiles(series, e, scoped), scoped.groups, scoped.revisions)
      BY <3>2, <3>3 DEF ScopeFiles
    <3> QED BY <1>4, <3>3, <3>4 DEF scoped, item
  <2> QED BY <2>2, <2>3
<1>5. CASE kind = "offered"
  <2>1. CASE IsPlaced(item.specials, e.specials)
    <3> DEFINE row == RowOf(series, 0)
    <3>1. item.specials = row /\ e.specials \subseteq DOMAIN row
      BY <1>1, <2>1 DEF IsPlaced
    <3>2. scoped = EpisodesScope(row, 0, e.specials)
      BY <1>1, <1>5, <2>1, <3>1 DEF ScopeOf
    <3> HIDE DEF scoped
    <3>3. /\ scoped.kind = "episodes" /\ scoped.season = 0
          /\ scoped.hasFile <=> scoped.groups # {}
          /\ scoped.groups # {} => \E n \in e.specials : row[n].has
          /\ Weighs(FilesOf(series, 0, e.specials), scoped.groups, scoped.revisions)
      BY <3>1, <3>2, EpisodesWeigh
    <3>4. ScopeFiles(series, e, scoped) = FilesOf(series, 0, e.specials)
      BY <3>3 DEF ScopeFiles
    <3>5. scoped.groups # {} => \E n \in e.specials : n \in DOMAIN item.specials /\ item.specials[n].has
      <4> HIDE DEF row, item
      <4> QED BY <3>1, <3>3
    <3> QED BY <1>5, <3>3, <3>4, <3>5 DEF scoped
  <2>2. CASE ~IsPlaced(item.specials, e.specials)
    <3>1. scoped.kind = "offered"
      BY <1>1, <1>5, <2>2 DEF ScopeOf, ScopeAt
    <3> QED BY <1>5, <3>1
  <2> QED BY <2>1, <2>2
<1> QED BY <1>2, <1>3, <1>4, <1>5

\* The season and the kind a decision states are those of the scope it judged.
LEMMA DecidedIs ==
  ASSUME NEW item, NEW e, NEW listing, NEW scoped
  PROVE  LET d == DecideScope(item, e, listing, scoped)
         IN d.kind = scoped.kind /\ (scoped.kind # "series" => d.season = scoped.season)
BY DEF DecideScope, DecideSeries, DecideUnit, Ruled, Decision, NoDecision

\* The seasons judged of a whole series are those with files that are the entry's own.
LEMMA OwnAre ==
  ASSUME NEW series, series.read # "none", NEW e
  PROVE  {f.season : f \in {x \in series.files : OwnSeason(x.season, e.siblings, e.seasons)}} \ {0}
           = OwnSeasons(ItemOf(series), e)
<1>1. DOMAIN ItemOf(series).seasonGroups = {f.season : f \in series.files}
  BY ItemSeasons DEF SeasonsAre
<1> QED BY <1>1 DEF OwnSeasons

\* The units of a decision are those its scope was judged on.
LEMMA UnitsAre ==
  ASSUME NEW series, series.read # "none", NEW e, NEW d, NEW scoped, d.kind = scoped.kind,
         scoped.kind # "series" => d.season = scoped.season
  PROVE  /\ scoped.kind \in {"season", "episodes"} => Units(series, e, d) = {ScopeFiles(series, e, scoped)} \ {{}}
         /\ scoped.kind = "series" =>
              Units(series, e, d) = {InSeason(series.files, s) : s \in OwnSeasons(ItemOf(series), e)} \ {{}}
         /\ scoped.kind = "offered" => Units(series, e, d) = {}
<1>1. CASE scoped.kind = "season"
  BY <1>1 DEF Units, ScopeFiles
<1>2. CASE scoped.kind = "episodes"
  BY <1>2 DEF Units, ScopeFiles
<1>3. CASE scoped.kind = "series"
  <2>1. Units(series, e, d) =
          {InSeason(series.files, s) :
             s \in {f.season : f \in {x \in series.files : OwnSeason(x.season, e.siblings, e.seasons)}} \ {0}} \ {{}}
    BY <1>3 DEF Units
  <2> QED BY <1>3, <2>1, OwnAre
<1>4. CASE scoped.kind = "offered"
  BY <1>4 DEF Units
<1> QED BY <1>1, <1>2, <1>3, <1>4

\* A refusal of HoldsFile is of a part of the series that holds no file.
LEMMA RefusalIs ==
  ASSUME NEW series, ListedOnce(series), NEW e, Mapped(e), NEW listing,
         ~HoldsFile(ItemOf(series), e), PlacedInSeries(e)
  PROVE  Units(series, e, Decide(ItemOf(series), e, listing)) = {}
<1> DEFINE item == ItemOf(series)
           scoped == ScopeOf(item, e.rec, e.specials, e.episodes)
           kind == RecordSeason(e.rec)
           d == Decide(item, e, listing)
<1>1. /\ Comparable(item) /\ Withholding(item, e) = "none"
  BY DEF HoldsFile
<1>2. series.read # "none" /\ item.arr = "sonarr"
  BY <1>1, ItemIs DEF Comparable
<1>3. d.kind = scoped.kind /\ (scoped.kind # "series" => d.season = scoped.season)
  <2>1. d = DecideScope(item, e, listing, scoped)
    BY <1>1 DEF Decide
  <2> HIDE DEF d, scoped, item
  <2> QED BY <2>1, DecidedIs
<1>4. /\ scoped.kind \in {"season", "episodes"} => Units(series, e, d) = {ScopeFiles(series, e, scoped)} \ {{}}
      /\ scoped.kind = "series" => Units(series, e, d) = {InSeason(series.files, s) : s \in OwnSeasons(item, e)} \ {{}}
      /\ scoped.kind = "offered" => Units(series, e, d) = {}
  <2> HIDE DEF d, scoped
  <2> QED BY <1>2, <1>3, UnitsAre
<1>5. /\ kind \in {"season", "offered", "series"}
      /\ kind = "series" => scoped.kind = "series"
      /\ kind = "season" => scoped.kind \in {"season", "episodes"}
      /\ kind = "offered" => \/ scoped.kind = "offered"
                             \/ /\ scoped.kind = "episodes" /\ scoped.season = 0
                                /\ scoped.groups # {} => \E n \in e.specials :
                                     n \in DOMAIN item.specials /\ item.specials[n].has
      /\ scoped.kind \in {"season", "episodes"} =>
           /\ scoped.hasFile <=> scoped.groups # {}
           /\ Weighs(ScopeFiles(series, e, scoped), scoped.groups, scoped.revisions)
  BY <1>2, ScopeIs
<1>6. scoped.kind \in {"season", "episodes"} /\ scoped.groups = {} => Units(series, e, d) = {}
  <2> HIDE DEF d, scoped
  <2> QED BY <1>4, <1>5 DEF Weighs, GroupsIn
<1>7. CASE kind = "series"
  <2>1. e.specials = {} /\ scoped.kind = "series"
    BY <1>5, <1>7 DEF Mapped
  <2>2. ScopeOf(item, e.rec, {}, e.episodes).kind = "series"
    BY <2>1
  <2>3. OwnSeasons(item, e) = {}
    <3> HIDE DEF item
    <3> QED BY <1>1, <1>2, <2>1, <2>2 DEF HoldsFile, item
  <2> QED BY <1>4, <2>1, <2>3
<1>8. CASE kind = "offered"
  <2>1. e.specials # {}
    BY <1>8 DEF PlacedInSeries
  <2>2. ~\E n \in e.specials : n \in DOMAIN item.specials /\ item.specials[n].has
    <3> HIDE DEF item
    <3> QED BY <1>1, <1>2, <2>1 DEF HoldsFile, item
  <2>3. Units(series, e, d) = {}
    <3> HIDE DEF d, scoped, item
    <3> QED BY <1>4, <1>5, <1>6, <1>8, <2>2
  <2> QED BY <2>3
<1>9. CASE kind = "season"
  <2>1. e.specials = {} /\ scoped.kind \in {"season", "episodes"}
    BY <1>5, <1>9 DEF Mapped
  <2>2. ~ScopeOf(item, e.rec, {}, e.episodes).hasFile
    <3>1. ScopeOf(item, e.rec, {}, e.episodes) = scoped
      BY <2>1
    <3> HIDE DEF item, scoped
    <3> QED BY <1>1, <1>2, <2>1, <3>1 DEF HoldsFile, item
  <2>3. scoped.groups = {}
    BY <1>5, <2>1, <2>2
  <2> QED BY <1>6, <2>1, <2>3
<1> QED BY <1>5, <1>7, <1>8, <1>9

\* A decision rests on the files, whatever they are and whatever is listed.
LEMMA DecideIs ==
  ASSUME NEW series, ListedOnce(series), NEW e, Mapped(e), NEW listing, Listed(listing)
  PROVE  AlignmentSound(series, e, listing, Decide(ItemOf(series), e, listing))
<1> DEFINE item == ItemOf(series)
           scoped == ScopeOf(item, e.rec, e.specials, e.episodes)
           d == Decide(item, e, listing)
<1>1. ASSUME series.read # "none", d.outcome # "withheld", d.kind # "offered"
      PROVE  OutcomeSound(Units(series, e, d), listing, d)
  <2>1. Comparable(item) /\ SeasonsAre(item, series.files)
    BY <1>1, ItemIs, ItemSeasons DEF Comparable
  <2>2. d = DecideScope(item, e, listing, scoped)
    BY <1>1 DEF Decide, Withheld
  <2>3. d.kind = scoped.kind /\ (scoped.kind # "series" => d.season = scoped.season)
    <3> HIDE DEF d, scoped, item
    <3> QED BY <2>2, DecidedIs
  <2>4. /\ scoped.kind \in {"season", "episodes"} => Units(series, e, d) = {ScopeFiles(series, e, scoped)} \ {{}}
        /\ scoped.kind = "series" => Units(series, e, d) = {InSeason(series.files, s) : s \in OwnSeasons(item, e)} \ {{}}
    <3> HIDE DEF d, scoped
    <3> QED BY <1>1, <2>3, UnitsAre
  <2>5. /\ scoped.kind \in {"season", "episodes", "series", "offered"}
        /\ scoped.kind \in {"season", "episodes"} =>
             /\ scoped.hasFile <=> scoped.groups # {}
             /\ Weighs(ScopeFiles(series, e, scoped), scoped.groups, scoped.revisions)
    BY <1>1, ScopeIs
  <2>6. IsFiniteSet(series.files) /\ \A f \in series.files : f.rev \in Revisions
    BY DEF ListedOnce
  <2>7. CASE scoped.kind = "series"
    <3>1. d = DecideSeries(item, SummarizeWholeSeries(item, listing, e), listing)
      BY <2>2, <2>7 DEF DecideScope
    <3>2. OutcomeSound({InSeason(series.files, s) : s \in OwnSeasons(item, e)} \ {{}}, listing,
                       DecideSeries(item, SummarizeWholeSeries(item, listing, e), listing))
      <4> HIDE DEF item
      <4> QED BY <2>1, <2>6, SeriesSound
    <3> HIDE DEF d, scoped, item
    <3> QED BY <2>4, <2>7, <3>1, <3>2
  <2>8. CASE scoped.kind \in {"season", "episodes"}
    <3>1. d = DecideUnit(item, scoped, UnitStanding(scoped, listing), listing)
      BY <2>2, <2>8 DEF DecideScope
    <3>2. IsFiniteSet(ScopeFiles(series, e, scoped))
      <4>1. ScopeFiles(series, e, scoped) \subseteq series.files
        BY DEF ScopeFiles, InSeason, FilesOf
      <4> HIDE DEF scoped
      <4> QED BY <2>6, <4>1, FS_Subset
    <3>3. OutcomeSound({ScopeFiles(series, e, scoped)} \ {{}}, listing,
                       DecideUnit(item, scoped, UnitStanding(scoped, listing), listing))
      <4> HIDE DEF item, scoped
      <4> QED BY <2>1, <2>5, <2>8, <3>2, UnitSound
    <3> HIDE DEF d, scoped, item
    <3> QED BY <2>4, <2>8, <3>1, <3>3
  <2> QED BY <1>1, <2>3, <2>5, <2>7, <2>8
<1>2. ~HoldsFile(item, e) /\ PlacedInSeries(e) => Units(series, e, d) = {}
  BY RefusalIs
<1> HIDE DEF d, item
<1>3. AlignmentSound(series, e, listing, d)
  BY <1>1, <1>2 DEF AlignmentSound, OutcomeSound, item
<1> QED BY <1>3 DEF d, item

------------------------------------------------------------------------------
(* The finding of a match.                                                     *)

\* Of some numbers given to the members of a finite set one is the greatest.
LEMMA GreatestOf ==
  ASSUME NEW S, IsFiniteSet(S), S # {}, NEW n \in [S -> Int]
  PROVE  \E s \in S : \A u \in S : n[u] <= n[s]
<1> DEFINE minus == [s \in S |-> 0 - n[s]]
           Keys == {minus[s] : s \in S}
<1>1. Keys \in SUBSET Int /\ Keys # {}
  OBVIOUS
<1>2. minus \in Surjection(S, Keys)
  BY DEF Surjection
<1>3. IsFiniteSet(Keys)
  <2> HIDE DEF minus, Keys
  <2> QED BY <1>2, FS_Surjection
<1>4. PICK least \in Keys : \A y \in Keys : least <= y
  <2> HIDE DEF Keys
  <2> QED BY <1>1, <1>3, LeastOf
<1>5. PICK s \in S : least = 0 - n[s]
  BY <1>4
<1>6. \A u \in S : 0 - n[s] <= 0 - n[u]
  BY <1>4, <1>5
<1> QED BY <1>6

\* A pool has a representative: of the best resolution, public before the others, of the least key.
LEMMA RepresentativeIs ==
  ASSUME NEW pool, IsFiniteSet(pool), pool # {}, \A t \in pool : t.resolution \in Int /\ t.key \in Int
  PROVE  Representative(pool) \in pool
<1>1. PICK best \in pool : \A u \in pool : u.resolution <= best.resolution
  <2> DEFINE height == [x \in pool |-> x.resolution]
  <2>1. height \in [pool -> Int]
    OBVIOUS
  <2>2. PICK x \in pool : \A u \in pool : height[u] <= height[x]
    <3> HIDE DEF height
    <3> QED BY <2>1, GreatestOf
  <2> QED BY <2>2
<1> DEFINE high == {x \in pool : x.resolution = best.resolution}
           open == {x \in high : x.type = "public"}
           first == IF open # {} THEN open ELSE high
           minus == [x \in first |-> 0 - x.key]
<1>2. first # {} /\ first \subseteq high /\ IsFiniteSet(first)
  <2>1. first \in SUBSET pool
    OBVIOUS
  <2>2. IsFiniteSet(first)
    <3> HIDE DEF first
    <3> QED BY <2>1, FS_Subset
  <2> QED BY <1>1, <2>2
<1>3. minus \in [first -> Int]
  BY <1>2
<1>4. PICK t \in first : \A u \in first : minus[u] <= minus[t]
  <2> HIDE DEF minus, first
  <2> QED BY <1>2, <1>3, GreatestOf
<1>5. \A u \in first : t.key <= u.key
  <2>1. \A u \in first : u.key \in Int
    BY <1>2
  <2> HIDE DEF first
  <2>2. \A u \in first : 0 - u.key <= 0 - t.key
    BY <1>4
  <2> QED BY <2>1, <2>2
<1>6. \A u \in pool : ~BetterCandidate(u, t)
  BY <1>1, <1>5 DEF BetterCandidate
<1>7. t \in pool
  BY <1>4
<1> QED BY <1>6, <1>7 DEF Representative

\* The pool's links carry that of its representative, as the headline.
LEMMA HeadlineIs ==
  ASSUME NEW pool, Representative(pool) \in pool, Representative(pool).link # NoLink
  PROVE  \E l \in ObtainableLinks(pool) : l.headline
<1> DEFINE head == Representative(pool)
           sources == {t \in pool : t.link # NoLink}
           same(t) == {u \in sources : u.tracker = t.tracker /\ u.link = t.link}
           link == [tracker |-> head.tracker, link |-> head.link, headline |-> head.group \in GroupSet(same(head))]
<1>1. link \in ObtainableLinks(pool)
  BY DEF ObtainableLinks
<1>2. head.group \in GroupSet(same(head))
  BY DEF GroupSet
<1>3. link.headline = TRUE
  BY <1>2
<1>4. link.headline
  BY <1>3, Zenon
<1> HIDE DEF link
<1> QED BY <1>1, <1>4, Zenon

\* What is downloaded is of the pool.
LEMMA DownloadIs ==
  ASSUME NEW pool, Representative(pool) \in pool
  PROVE  DownloadSet(pool) \subseteq pool
BY DEF DownloadSet, NoSet

\* A payload's revision is one, whatever its files.
LEMMA PayloadIs ==
  ASSUME NEW files, PayloadStated(files)
  PROVE  PayloadRevision(files) \in Revisions
<1> DEFINE held == Population(files)
           revs == {f.rev : f \in held}
           rev == [f \in held |-> f.rev]
<1>1. held \subseteq files
  BY DEF Population, KeepAtLeast, EligiblePool
<1>2. IsFiniteSet(held)
  <2> HIDE DEF held
  <2> QED BY <1>1, FS_Subset DEF PayloadStated
<1>3. revs \in SUBSET Revisions
  BY <1>1 DEF PayloadStated
<1>4. IsFiniteSet(revs)
  <2>1. rev \in Surjection(held, revs)
    BY DEF Surjection
  <2> HIDE DEF rev, held
  <2> QED BY <1>2, <2>1, FS_Surjection
<1>5. PayloadRevision(files) = NewestRevision(revs)
  BY DEF PayloadRevision
<1>6. CASE revs = {}
  BY <1>5, <1>6, RevisionsAre DEF NewestRevision
<1>7. CASE revs # {}
  <2> HIDE DEF revs
  <2> QED BY <1>3, <1>4, <1>5, <1>7, NewestBehind
<1> QED BY <1>6, <1>7

\* The rows of a list that hold a file, and what the item keeps of one.
HeldRows(series) == {ep \in series.episodes : FileOf(ep, series.files) # {}}
SeatOf(ep) == [file |-> ep.file, absolute |-> IF ep.absolute > 0 THEN ep.absolute ELSE 0]
SeatsOf(series) ==
  [s \in {ep.season : ep \in HeldRows(series)} |->
     ByNumber(Numbered(HeldRows(series), s), LAMBDA ep : SeatOf(ep))]

\* An item has no seats, or one for each row that holds a file.
LEMMA SeatsAre ==
  ASSUME NEW series, FilesStated(series)
  PROVE  \/ ItemOf(series).seasonEpisodes = <<>>
         \/ /\ ItemOf(series).seasonEpisodes = SeatsOf(series)
            /\ \A ep \in HeldRows(series) : ep.number > 0
<1>1. \/ ItemOf(series).seasonEpisodes = <<>>
      \/ ItemOf(series).seasonEpisodes = EpisodeFiles(series.episodes, series.files)
  <2>1. CASE series.read = "none"
    BY <2>1 DEF ItemOf, SeriesItem, NoItem
  <2>2. CASE series.read = "files"
    BY <2>2 DEF ItemOf, SeriesItem, NoItem
  <2>3. CASE series.read \notin {"none", "files"}
    BY <2>3 DEF ItemOf, SeriesItem, NoItem
  <2> QED BY <2>1, <2>2, <2>3
<1>2. CASE \E ep \in series.episodes :
             ~Placed(ep, series.files) \/ (ep \in HeldRows(series) /\ ep.number <= 0)
  <2>1. EpisodeFiles(series.episodes, series.files) = <<>>
    BY <1>2 DEF EpisodeFiles, HeldRows
  <2> QED BY <1>1, <2>1
<1>3. CASE \A ep \in series.episodes :
             Placed(ep, series.files) /\ (ep \in HeldRows(series) => ~(ep.number <= 0))
  <2>1. EpisodeFiles(series.episodes, series.files) = SeatsOf(series)
    BY <1>3, Zenon DEF EpisodeFiles, HeldRows, SeatsOf, SeatOf
  <2>2. \A ep \in HeldRows(series) : ep.number > 0
    BY <1>3 DEF HeldRows, FilesStated
  <2> QED BY <1>1, <2>1, <2>2
<1> QED BY <1>2, <1>3

\* Each seat is that of a row with a file, and each such row has its seat.
LEMMA HeldIs ==
  ASSUME NEW series, ListedOnce(series), FilesStated(series)
  PROVE  LET item == ItemOf(series)
         IN /\ \A p \in Held(item) : \E ep \in HeldRows(series) :
                 p = <<ep.season, ep.number>> /\ EpisodeAt(item, p) = SeatOf(ep)
            /\ Held(item) # {} => \A ep \in HeldRows(series) :
                 /\ <<ep.season, ep.number>> \in Held(item)
                 /\ EpisodeAt(item, <<ep.season, ep.number>>) = SeatOf(ep)
<1> DEFINE item == ItemOf(series)
           seats == SeatsOf(series)
           rows == HeldRows(series)
<1>1. CASE item.seasonEpisodes = <<>>
  <2>1. Held(item) = {}
    BY <1>1 DEF Held, Episodes
  <2> QED BY <2>1
<1>2. CASE item.seasonEpisodes = seats /\ \A ep \in rows : ep.number > 0
  <2>1. /\ DOMAIN seats = {ep.season : ep \in rows}
        /\ \A s \in DOMAIN seats :
             /\ DOMAIN seats[s] = {ep.number : ep \in Numbered(rows, s)}
             /\ \A n \in DOMAIN seats[s] : seats[s][n] = SeatOf(CHOOSE ep \in Numbered(rows, s) : ep.number = n)
    BY DEF SeatsOf, ByNumber
  <2>2. ASSUME NEW ep \in rows
        PROVE  /\ ep.season \in DOMAIN seats /\ ep.number \in DOMAIN seats[ep.season]
               /\ seats[ep.season][ep.number] = SeatOf(ep)
    <3>1. ep \in Numbered(rows, ep.season)
      BY <1>2 DEF Numbered
    <3>2. \A x \in Numbered(rows, ep.season) : x.number = ep.number => x = ep
      BY <3>1 DEF Numbered, HeldRows, ListedOnce
    <3>3. (CHOOSE x \in Numbered(rows, ep.season) : x.number = ep.number) = ep
      BY <3>1, <3>2
    <3> HIDE DEF rows, seats
    <3> QED BY <2>1, <3>1, <3>3
  <2> HIDE DEF rows, seats, item
  <2>3. \A p \in Held(item) : p[1] \in DOMAIN seats /\ p[2] \in DOMAIN seats[p[1]] /\ p = <<p[1], p[2]>>
                              /\ EpisodeAt(item, p) = seats[p[1]][p[2]]
    BY <1>2 DEF Held, Episodes, EpisodeAt
  <2>4. ASSUME NEW p \in Held(item)
        PROVE  \E ep \in rows : p = <<ep.season, ep.number>> /\ EpisodeAt(item, p) = SeatOf(ep)
    <3>1. PICK ep \in Numbered(rows, p[1]) : ep.number = p[2]
      BY <2>1, <2>3
    <3>2. ep \in rows /\ ep.season = p[1]
      BY DEF Numbered
    <3> QED BY <2>2, <2>3, <3>1, <3>2
  <2>5. ASSUME NEW ep \in rows
        PROVE  /\ <<ep.season, ep.number>> \in Held(item)
               /\ EpisodeAt(item, <<ep.season, ep.number>>) = SeatOf(ep)
    BY <1>2, <2>2 DEF Held, Episodes, EpisodeAt
  <2> QED BY <2>4, <2>5 DEF rows, item
<1>3. \/ item.seasonEpisodes = <<>>
      \/ item.seasonEpisodes = seats /\ \A ep \in rows : ep.number > 0
  BY SeatsAre
<1> QED BY <1>1, <1>2, <1>3

\* The download holds an episode: some file of it spans the episode's number, or its absolute one.
Spans(set, ep) ==
  \E x \in UNION {Census(t.files) : t \in set} :
    SpanOK(x.token) /\ IF x.token.season = AbsoluteSeason THEN ep.absolute \in x.token.first..x.token.last
                       ELSE ep.season = x.token.season /\ ep.number \in x.token.first..x.token.last

\* What a claimed number stands for is held in the season.
LEMMA StandingIs ==
  ASSUME NEW item, NEW season, NEW c, NEW p \in Standing(item, season, c)
  PROVE  /\ p \in Held(item) /\ p[1] = season
         /\ c[1] = AbsoluteSeason => EpisodeAt(item, p).absolute = c[2]
         /\ c[1] # AbsoluteSeason => p = c
<1>1. CASE c[1] = AbsoluteSeason
  <2>1. p \in AbsoluteEpisode(item, season, c[2])
    BY <1>1 DEF Standing
  <2> QED BY <1>1, <2>1 DEF AbsoluteEpisode
<1>2. CASE c[1] # AbsoluteSeason
  BY <1>2 DEF Standing
<1> QED BY <1>1, <1>2

\* A file covered lies in the season, and the download holds its every episode.
LEMMA CoveredIs ==
  ASSUME NEW series, ListedOnce(series), FilesStated(series), NEW season, NEW set,
         \A t \in set : PayloadStated(t.files),
         NEW id \in CoveredFiles(ItemOf(series), season, set)
  PROVE  \E x \in InSeason(series.files, season) :
           x.id = id /\ \A ep \in series.episodes : ep.file = x.id => Spans(set, ep)
<1> DEFINE item == ItemOf(series)
           claims == ClaimsOf(UNION {Census(t.files) : t \in set})
           covered == UNION {Standing(item, season, c) : c \in claims}
<1>1. /\ \A t \in set : SpansKnown(Census(t.files))
      /\ id \in FilesAt(item, covered)
      /\ \A p \in Held(item) : EpisodeAt(item, p).file = id => p \in covered
  <2> HIDE DEF item
  <2> QED BY DEF CoveredFiles, item
<1>2. \A p \in covered : /\ p \in Held(item) /\ p[1] = season
                         /\ \E c \in claims : /\ c[1] = AbsoluteSeason => EpisodeAt(item, p).absolute = c[2]
                                              /\ c[1] # AbsoluteSeason => p = c
  <2> HIDE DEF item, claims
  <2> QED BY StandingIs
<1>3. \A c \in claims : \E t \in set : \E f \in Census(t.files) :
        c[1] = f.token.season /\ c[2] \in f.token.first..f.token.last /\ SpanOK(f.token)
  <2> SUFFICES ASSUME NEW c \in claims
               PROVE  \E t \in set : \E f \in Census(t.files) :
                        c[1] = f.token.season /\ c[2] \in f.token.first..f.token.last /\ SpanOK(f.token)
    OBVIOUS
  <2>1. PICK f \in UNION {Census(t.files) : t \in set} : c \in FileClaims(f)
    BY DEF ClaimsOf
  <2>2. PICK t \in set : f \in Census(t.files)
    BY <2>1
  <2>3. c[1] = f.token.season /\ c[2] \in f.token.first..f.token.last
    BY <2>1 DEF FileClaims
  <2>4. SpanOK(f.token)
    BY <1>1, <2>2 DEF SpansKnown
  <2> QED BY <2>2, <2>3, <2>4
<1> HIDE DEF covered, claims, item
<1>4. PICK p \in covered : EpisodeAt(item, p).file = id
  BY <1>1 DEF FilesAt
<1>5. PICK row \in HeldRows(series) : p = <<row.season, row.number>> /\ EpisodeAt(item, p) = SeatOf(row)
  BY <1>2, <1>4, HeldIs DEF item
<1>6. PICK x \in series.files : row.file > 0 /\ x.id = row.file
  BY DEF HeldRows, FileOf
<1>7. x.id = id /\ row.season = season
  BY <1>2, <1>4, <1>5, <1>6 DEF SeatOf
<1>8. x \in InSeason(series.files, season)
  <2>1. FileOf(row, {x}) # {}
    BY <1>6 DEF FileOf
  <2>2. row \in series.episodes
    BY DEF HeldRows
  <2> QED BY <1>7, <2>1, <2>2 DEF FilesStated, InSeason
<1>9. ASSUME NEW ep \in series.episodes, ep.file = x.id
      PROVE  Spans(set, ep)
  <2>1. ep \in HeldRows(series)
    BY <1>6, <1>9 DEF HeldRows, FileOf
  <2> DEFINE q == <<ep.season, ep.number>>
  <2>2. q \in Held(item) /\ EpisodeAt(item, q) = SeatOf(ep)
    <3>1. Held(item) # {}
      BY <1>2, <1>4
    <3> QED BY <2>1, <3>1, HeldIs DEF item
  <2> HIDE DEF q
  <2>3. q \in covered
    BY <1>1, <1>7, <1>9, <2>2 DEF SeatOf
  <2>4. PICK c \in claims : /\ c[1] = AbsoluteSeason => EpisodeAt(item, q).absolute = c[2]
                            /\ c[1] # AbsoluteSeason => q = c
    BY <1>2, <2>3
  <2> PICK t \in set : \E f \in Census(t.files) :
          c[1] = f.token.season /\ c[2] \in f.token.first..f.token.last /\ SpanOK(f.token)
    BY <1>3
  <2>5. PICK f \in Census(t.files) :
          c[1] = f.token.season /\ c[2] \in f.token.first..f.token.last /\ SpanOK(f.token)
    OBVIOUS
  <2>6. f.token.first \in Int /\ f.token.last \in Int /\ f.token.first > 0
    <3>1. f \in t.files
      BY DEF Census, Population, KeepAtLeast, EligiblePool
    <3> QED BY <2>5, <3>1 DEF PayloadStated, SpanOK
  <2>7. IF f.token.season = AbsoluteSeason THEN ep.absolute \in f.token.first..f.token.last
        ELSE ep.season = f.token.season /\ ep.number \in f.token.first..f.token.last
    <3>1. CASE f.token.season = AbsoluteSeason
      <4>1. SeatOf(ep).absolute = c[2]
        BY <2>2, <2>4, <2>5, <3>1
      <4>2. c[2] > 0 /\ c[2] # 0
        BY <2>5, <2>6
      <4>3. ep.absolute = c[2]
        BY <4>1, <4>2 DEF SeatOf
      <4> QED BY <2>5, <3>1, <4>3
    <3>2. CASE f.token.season # AbsoluteSeason
      <4>1. <<ep.season, ep.number>> = c
        BY <2>4, <2>5, <3>2 DEF q
      <4> QED BY <2>5, <3>2, <4>1
    <3> QED BY <3>1, <3>2
  <2>8. f \in UNION {Census(y.files) : y \in set}
    BY <2>5
  <2> QED BY <2>5, <2>7, <2>8 DEF Spans
<1> QED BY <1>7, <1>8, <1>9

\* The item of a series has each file's size at the file's id.
LEMMA BytesAre ==
  ASSUME NEW series, ListedOnce(series)
  PROVE  /\ series.read = "none" => ItemOf(series).seasonEpisodes = <<>>
         /\ series.read # "none" => \A x \in series.files : At(ItemOf(series).bytes, x.id, 0) = x.size
<1>1. series.read = "none" => ItemOf(series).seasonEpisodes = <<>>
  BY DEF ItemOf, SeriesItem, NoItem
<1> DEFINE bytes == [id \in {f.id : f \in series.files} |-> (CHOOSE f \in series.files : f.id = id).size]
<1>2. series.read # "none" => ItemOf(series).bytes = bytes
  <2>1. CASE series.read = "files"
    BY <2>1 DEF ItemOf, SeriesItem, NoItem
  <2>2. CASE series.read \notin {"none", "files"}
    BY <2>2 DEF ItemOf, SeriesItem, NoItem
  <2> QED BY <2>1, <2>2
<1>3. ASSUME NEW x \in series.files
      PROVE  At(bytes, x.id, 0) = x.size
  <2>1. (CHOOSE f \in series.files : f.id = x.id) = x
    BY DEF ListedOnce
  <2> QED BY <2>1 DEF At
<1> HIDE DEF bytes
<1> QED BY <1>1, <1>2, <1>3

\* The files of a season the pool holds every episode of.
HeldWhole(series, season, pool) ==
  {x \in InSeason(series.files, season) :
     \A ep \in series.episodes : ep.file = x.id => Spans(pool, ep)}

\* The bytes replaced are at most those of the season's files the pool holds whole.
LEMMA ReplacedIs ==
  ASSUME NEW series, ListedOnce(series), FilesStated(series), NEW e, NEW d, d.kind = "season",
         NEW pool, NEW set \in SUBSET pool, \A t \in set : PayloadStated(t.files)
  PROVE  LET replaced == ReplacedBytes(ItemOf(series), e, d, set)
         IN replaced > 0 =>
              d.season \notin e.siblings /\ replaced <= SizesOf(HeldWhole(series, d.season, pool))
<1> DEFINE item == ItemOf(series)
           replaced == ReplacedBytes(item, e, d, set)
           whole == HeldWhole(series, d.season, pool)
           held == d.season \notin e.siblings /\ d.season \in DOMAIN item.seasonEpisodes
           ids == IF held THEN CoveredFiles(item, d.season, set) ELSE {}
<1>1. replaced \in {0, SizesAt(item.bytes, ids)}
  <2> HIDE DEF item
  <2> QED BY SMT DEF ReplacedBytes, Total, SizesAt
<1>2. CASE ids = {}
  <2>1. SizesAt(item.bytes, {}) = Cardinality(Grains({}, [id \in {} |-> At(item.bytes, id, 0)]))
    <3> HIDE DEF item
    <3> QED BY FS_EmptySet, SizesAtAre
  <2>2. Grains({}, [id \in {} |-> At(item.bytes, id, 0)]) = {}
    BY DEF Grains
  <2>3. SizesAt(item.bytes, ids) = 0
    <3> HIDE DEF item, ids
    <3> QED BY <1>2, <2>1, <2>2, FS_EmptySet
  <2> HIDE DEF item, ids, replaced, whole
  <2>4. ~(replaced > 0)
    BY <1>1, <2>3
  <2> QED BY <2>4 DEF replaced, item
<1>3. CASE ids # {}
  <2>1. held /\ ids = CoveredFiles(item, d.season, set)
    BY <1>3
  <2>2. series.read # "none"
    <3>1. item.seasonEpisodes # <<>>
      <4> HIDE DEF item
      <4> QED BY <2>1
    <3> QED BY <3>1, BytesAre
  <2>3. \A ep \in series.episodes : Spans(set, ep) => Spans(pool, ep)
    BY DEF Spans
  <2>4. \A id \in ids : \E x \in whole : x.id = id
    <3> SUFFICES ASSUME NEW id \in ids PROVE \E x \in whole : x.id = id
      OBVIOUS
    <3>1. PICK x \in InSeason(series.files, d.season) :
            x.id = id /\ \A ep \in series.episodes : ep.file = x.id => Spans(set, ep)
      <4>1. id \in CoveredFiles(item, d.season, set)
        BY <2>1
      <4> QED BY <4>1, CoveredIs
    <3> QED BY <2>3, <3>1 DEF HeldWhole
  <2> DEFINE file == [id \in ids |-> CHOOSE x \in whole : x.id = id]
  <2>5. file \in [ids -> whole] /\ \A id \in ids : file[id].id = id
    <3> HIDE DEF ids, whole
    <3> QED BY <2>4
  <2>6. IsFiniteSet(whole) /\ (\A x \in whole : x \in series.files /\ x.size \in Nat)
    <3>1. whole \in SUBSET series.files
      BY DEF HeldWhole, InSeason
    <3>2. IsFiniteSet(whole)
      <4> HIDE DEF whole
      <4> QED BY <3>1, FS_Subset DEF ListedOnce
    <3> HIDE DEF whole
    <3> QED BY <3>1, <3>2 DEF FilesStated
  <2> HIDE DEF file, whole, ids, item
  <2>7. \A id \in ids : At(item.bytes, id, 0) = file[id].size
    <3>1. \A x \in series.files : At(item.bytes, x.id, 0) = x.size
      BY <2>2, BytesAre DEF item
    <3> QED BY <2>5, <2>6, <3>1
  <2>8. /\ SizesAt(item.bytes, ids) \in Nat /\ SizesOf(whole) \in Nat
        /\ SizesAt(item.bytes, ids) <= SizesOf(whole)
    BY <2>5, <2>6, <2>7, SizesCover
  <2>9. replaced > 0 => d.season \notin e.siblings /\ replaced <= SizesOf(whole)
    <3> HIDE DEF replaced
    <3> QED BY <1>1, <2>1, <2>8
  <2> QED BY <2>9 DEF whole, item
<1> QED BY <1>2, <1>3

\* What a decision's outcome presupposes.
LEMMA OutcomesAre ==
  ASSUME NEW item, NEW e, NEW listing
  PROVE  LET d == Decide(item, e, listing)
         IN /\ d.outcome \notin {"no_file", "no_best", "withheld"} => listing.best # {}
            /\ d.outcome = "superseded" => d.behind # {} /\ d.behind \subseteq listing.best \ {NoGroup}
            /\ d.outcome \in {"superseded", "diverged"} => Comparable(item)
<1> DEFINE d == Decide(item, e, listing)
           scoped == ScopeOf(item, e.rec, e.specials, e.episodes)
           unit == UnitStanding(scoped, listing)
           whole == SummarizeWholeSeries(item, listing, e)
<1>1. \A groups, held : SupersededGroups(groups, held, listing) \subseteq listing.best \ {NoGroup}
  BY DEF SupersededGroups
<1>2. unit.standing = "superseded" => unit.behind # {} /\ unit.behind \subseteq listing.best \ {NoGroup}
  <2> HIDE DEF scoped
  <2>1. unit.standing = "superseded" => unit.behind # {} /\ unit.behind = SupersededGroups(scoped.groups, scoped.revisions, listing)
    BY DEF UnitStanding, GroupLadder
  <2> HIDE DEF unit
  <2> QED BY <1>1, <2>1
<1>3. whole.standing = "superseded" => whole.behind # {} /\ whole.behind \subseteq listing.best \ {NoGroup}
  <2>1. \E groups, held : whole.behind = SupersededGroups(groups, held, listing)
    BY WholeIs
  <2>2. whole.standing = "superseded" => whole.behind # {}
    BY WholeIs
  <2> HIDE DEF whole
  <2> QED BY <1>1, <2>1, <2>2
<1>4. CASE Withholding(item, e) # "none"
  <2>1. d.outcome = "withheld"
    BY <1>4 DEF Decide, Withheld, NoDecision
  <2> HIDE DEF d
  <2>2. /\ d.outcome \notin {"no_file", "no_best", "withheld"} => listing.best # {}
        /\ d.outcome = "superseded" => d.behind # {} /\ d.behind \subseteq listing.best \ {NoGroup}
        /\ d.outcome \in {"superseded", "diverged"} => Comparable(item)
    BY <2>1
  <2> QED BY <2>2 DEF d
<1>5. CASE Withholding(item, e) = "none"
  <2>1. \E standing, n : /\ d.outcome = OutcomeOf(standing, n, listing.best = {})
                         /\ standing \notin {"unverified", "no_file"} => Comparable(item)
                         /\ standing = "superseded" => d.behind # {} /\ d.behind \subseteq listing.best \ {NoGroup}
    <3>1. CASE scoped.kind = "series"
      <4>1. d = DecideSeries(item, whole, listing)
        BY <1>5, <3>1 DEF Decide, DecideScope
      <4> DEFINE standing == IF Comparable(item) THEN whole.standing ELSE "unverified"
                 groups == IF Comparable(item) THEN whole.groups ELSE {}
      <4> HIDE DEF whole, d
      <4>2. /\ d.outcome = OutcomeOf(standing, Cardinality(groups), listing.best = {})
            /\ standing = "superseded" => d.behind = whole.behind
        BY <4>1 DEF DecideSeries, Ruled, Decision, NoDecision
      <4>3. standing = "superseded" => d.behind # {} /\ d.behind \subseteq listing.best \ {NoGroup}
        BY <1>3, <4>2
      <4> QED BY <4>2, <4>3
    <3>2. CASE scoped.kind # "series"
      <4>1. d = DecideUnit(item, scoped, unit, listing)
        BY <1>5, <3>2 DEF Decide, DecideScope
      <4> DEFINE standing == IF ~Comparable(item) THEN "unverified"
                             ELSE IF scoped.kind = "offered" THEN IF scoped.hasFile THEN "unverified" ELSE "no_file"
                             ELSE unit.standing
                 groups == IF Comparable(item) THEN scoped.groups ELSE {}
      <4> HIDE DEF scoped, unit, d
      <4>2. /\ d.outcome = OutcomeOf(standing, Cardinality(groups), listing.best = {})
            /\ standing = "superseded" => d.behind = unit.behind
        BY <4>1 DEF DecideUnit, Ruled, Decision, NoDecision
      <4>3. standing = "superseded" => d.behind # {} /\ d.behind \subseteq listing.best \ {NoGroup}
        BY <1>2, <4>2
      <4> QED BY <4>2, <4>3
    <3> QED BY <3>1, <3>2
  <2>2. \A standing, n : LET o == OutcomeOf(standing, n, listing.best = {})
          IN /\ o \notin {"no_file", "no_best"} => listing.best # {}
             /\ o = "superseded" => standing = "superseded"
             /\ o = "diverged" => standing \notin {"unverified", "no_file"}
    BY DEF OutcomeOf
  <2> HIDE DEF d
  <2>3. /\ d.outcome \notin {"no_file", "no_best", "withheld"} => listing.best # {}
        /\ d.outcome = "superseded" => d.behind # {} /\ d.behind \subseteq listing.best \ {NoGroup}
        /\ d.outcome \in {"superseded", "diverged"} => Comparable(item)
    BY <2>1, <2>2
  <2> QED BY <2>3 DEF d
<1> QED BY <1>4, <1>5

\* What is recommended is listed as best and can be had.
LEMMA RecommendedIs ==
  ASSUME NEW entry, NEW opts, TorrentsStated(entry.torrents)
  PROVE  LET recommended == Recommended(entry, opts)
         IN /\ IsFiniteSet(recommended)
            /\ \A t \in recommended :
                 /\ t.best /\ Obtainable(t, opts.animeBytes) /\ t.link # NoLink
                 /\ t.resolution \in Int /\ t.key \in Int /\ PayloadStated(t.files)
                 /\ t.group \in DOMAIN BestRevisions(entry)
            /\ \A g \in DOMAIN BestRevisions(entry) : BestRevisions(entry)[g] \in Revisions
<1> DEFINE recommended == Recommended(entry, opts)
           best == {t \in entry.torrents : t.best}
<1>1. recommended \in SUBSET entry.torrents
  BY DEF Recommended
<1>2. IsFiniteSet(recommended)
  <2> HIDE DEF recommended
  <2> QED BY <1>1, FS_Subset DEF TorrentsStated
<1>3. \A t \in recommended : t.best /\ Obtainable(t, opts.animeBytes) /\ t.link # NoLink
  BY DEF Recommended, Obtainable
<1>4. \A t \in recommended : t.resolution \in Int /\ t.key \in Int /\ PayloadStated(t.files)
  <2> HIDE DEF recommended
  <2> QED BY <1>1 DEF TorrentsStated
<1>5. /\ DOMAIN BestRevisions(entry) = GroupSet(best)
      /\ \A g \in GroupSet(best) : BestRevisions(entry)[g] =
           NewestRevision({PayloadRevision(t.files) : t \in {x \in best : x.group = g}})
  BY DEF BestRevisions
<1>6. \A t \in recommended : t.group \in DOMAIN BestRevisions(entry)
  <2>1. \A t \in recommended : t \in best
    BY <1>1, <1>3
  <2> HIDE DEF recommended, best
  <2> QED BY <1>5, <2>1 DEF GroupSet
<1>7. ASSUME NEW g \in GroupSet(best)
      PROVE  BestRevisions(entry)[g] \in Revisions
  <2> DEFINE own == {x \in best : x.group = g}
             revs == {PayloadRevision(t.files) : t \in own}
             rev == [t \in own |-> PayloadRevision(t.files)]
  <2>1. own \in SUBSET entry.torrents /\ own # {}
    BY DEF GroupSet
  <2> HIDE DEF own
  <2>2. \A t \in own : PayloadRevision(t.files) \in Revisions
    BY <2>1, PayloadIs DEF TorrentsStated
  <2>3. revs \in SUBSET Revisions /\ revs # {}
    BY <2>1, <2>2
  <2>4. IsFiniteSet(revs)
    <3>1. rev \in Surjection(own, revs)
      BY DEF Surjection
    <3>2. IsFiniteSet(own)
      BY <2>1, FS_Subset DEF TorrentsStated
    <3> HIDE DEF rev, revs
    <3> QED BY <3>1, <3>2, FS_Surjection
  <2>5. BestRevisions(entry)[g] = NewestRevision(revs)
    BY <1>5 DEF own
  <2> HIDE DEF revs
  <2> QED BY <2>3, <2>4, <2>5, NewestBehind
<1> QED BY <1>2, <1>3, <1>4, <1>5, <1>6, <1>7

\* A finding with the tier of what is held.
Tiered(f, tier) == [f EXCEPT !.tier = tier]

\* Sizing a finding changes none but its sizes.
LEMMA SizedIs ==
  ASSUME NEW item, NEW e, NEW d, NEW status, NEW pool, NEW groups, NEW alt, NEW tier, NEW f,
         f = FindingOf(d, status, pool, groups, alt)
           \/ f = Tiered(FindingOf(d, status, pool, groups, alt), tier)
  PROVE  LET sized == Sized(item, e, d, pool, f)
         IN /\ sized.pool = pool /\ sized.recommendedGroups = groups
            /\ sized.currentBytes \in {0, ReplacedBytes(item, e, d, DownloadSet(pool))}
<1>1. f.pool = pool /\ f.recommendedGroups = groups /\ f.currentBytes = 0
  BY DEF FindingOf, Tiered
<1> DEFINE sized == Sized(item, e, d, pool, f)
           grown(a, b) == [f EXCEPT !.releaseBytes = a, !.currentBytes = b]
<1>2. \A a, b : grown(a, b).pool = pool /\ grown(a, b).recommendedGroups = groups /\ grown(a, b).currentBytes = b
  BY DEF FindingOf, Tiered
<1>3. \/ sized = f
      \/ sized = grown(DownloadBytes(DownloadSet(pool)), ReplacedBytes(item, e, d, DownloadSet(pool)))
  BY Zenon DEF Sized
<1> HIDE DEF sized, grown
<1>4. /\ sized.pool = pool /\ sized.recommendedGroups = groups
      /\ sized.currentBytes \in {0, ReplacedBytes(item, e, d, DownloadSet(pool))}
  BY <1>1, <1>2, <1>3
<1> QED BY <1>4 DEF sized

\* A finding's pool is what it recommends, all of it, or of a superseded copy its newer revisions.
LEMMA ComparedIs ==
  ASSUME NEW item, NEW e, NEW entry, NEW opts, NEW d, NEW recommended, NEW superseded, NEW alt,
         d.outcome # "no_best"
  PROVE  LET f == CompareOn(item, e, entry, opts, d, recommended, superseded, alt)
             pool == IF d.outcome = "superseded" THEN superseded.pool ELSE recommended
         IN f # NoFinding =>
              /\ d.kind # "offered" /\ d.outcome \notin {"no_file", "withheld", "aligned"}
              /\ f.pool = pool /\ f.recommendedGroups = GroupSet(pool)
              /\ f.currentBytes \in {0, ReplacedBytes(item, e, d, DownloadSet(pool))}
<1> DEFINE f == CompareOn(item, e, entry, opts, d, recommended, superseded, alt)
           pool == IF d.outcome = "superseded" THEN superseded.pool ELSE recommended
           good == /\ f.pool = pool /\ f.recommendedGroups = GroupSet(pool)
                   /\ f.currentBytes \in {0, ReplacedBytes(item, e, d, DownloadSet(pool))}
<1> SUFFICES ASSUME d.kind # "offered", d.outcome \notin {"no_file", "withheld", "aligned"} PROVE good
  <2>1. CASE d.kind = "offered" \/ d.outcome \in {"no_file", "withheld", "aligned"}
    <3>1. f = NoFinding
      BY <2>1 DEF CompareOn
    <3> HIDE DEF f
    <3> QED BY <3>1 DEF f
  <2>2. CASE d.kind # "offered" /\ d.outcome \notin {"no_file", "withheld", "aligned"}
    BY <2>2
  <2> QED BY <2>1, <2>2
<1>1. CASE d.outcome \in {"mixed", "unverifiable"}
  <2>1. \E status : f = FindingOf(d, status, recommended, GroupSet(recommended), alt)
    BY <1>1 DEF CompareOn
  <2>2. pool = recommended
    BY <1>1
  <2> HIDE DEF f, pool
  <2> QED BY <2>1, <2>2 DEF FindingOf
<1>2. CASE d.outcome = "superseded"
  <2>1. \/ f = Superseded(entry, d, superseded, alt)
        \/ f = Sized(item, e, d, superseded.pool, Superseded(entry, d, superseded, alt))
    BY <1>2 DEF CompareOn
  <2>2. \E status : Superseded(entry, d, superseded, alt) =
                      FindingOf(d, status, superseded.pool, GroupSet(superseded.pool), alt)
    BY DEF Superseded
  <2>3. pool = superseded.pool
    BY <1>2
  <2>4. CASE f = Superseded(entry, d, superseded, alt)
    <3> HIDE DEF f, pool
    <3> QED BY <2>2, <2>3, <2>4 DEF FindingOf
  <2>5. CASE f = Sized(item, e, d, superseded.pool, Superseded(entry, d, superseded, alt))
    <3> HIDE DEF f, pool
    <3> QED BY <2>2, <2>3, <2>5, SizedIs
  <2> QED BY <2>1, <2>4, <2>5
<1>3. CASE d.outcome \notin {"mixed", "unverifiable", "superseded"}
  <2>1. f = Sized(item, e, d, recommended, Diverged(item, e, entry, d, recommended, alt, opts))
    BY <1>3 DEF CompareOn
  <2> DEFINE found == Diverged(item, e, entry, d, recommended, alt, opts)
  <2>2. \/ found = FindingOf(d, "incomplete", recommended, GroupSet(recommended), alt)
        \/ found = Tiered(FindingOf(d, "better_release", recommended, GroupSet(recommended), alt),
                          TierOf(item, e, recommended, ListedGroups(entry, opts)))
    <3>1. CASE entry.incomplete
      BY <3>1, Zenon DEF Diverged
    <3>2. CASE ~entry.incomplete
      BY <3>2, Zenon DEF Diverged, Tiered
    <3> QED BY <3>1, <3>2
  <2>3. pool = recommended
    BY <1>3
  <2> DEFINE sized(g) == LET s == Sized(item, e, d, recommended, g)
                         IN /\ s.pool = recommended /\ s.recommendedGroups = GroupSet(recommended)
                            /\ s.currentBytes \in {0, ReplacedBytes(item, e, d, DownloadSet(recommended))}
  <2>4. \A status, g : g = FindingOf(d, status, recommended, GroupSet(recommended), alt) => sized(g)
    BY SizedIs
  <2>5. \A status, tier, g : g = Tiered(FindingOf(d, status, recommended, GroupSet(recommended), alt), tier) => sized(g)
    BY SizedIs
  <2>6. sized(found)
    <3> HIDE DEF sized, found
    <3> QED BY <2>2, <2>4, <2>5
  <2> HIDE DEF f, pool, found
  <2> QED BY <2>1, <2>3, <2>6 DEF found
<1> QED BY <1>1, <1>2, <1>3

\* What is recommended of a superseded copy: of every group behind something, and of no other.
LEMMA SupersededPoolIs ==
  ASSUME NEW d, NEW recommended, NEW listed, d.behind # {}, d.behind \subseteq GroupSet(recommended)
  PROVE  LET pool == SupersededPool(d, recommended, listed).pool
         IN pool # {} /\ pool \subseteq recommended /\ \A t \in pool : t.group \in d.behind
<1> DEFINE at(t) == PayloadRevision(t.files) = listed[t.group]
           atListed == {t.group : t \in {x \in recommended : at(x)}}
           pool == {t \in recommended : t.group \in d.behind /\ (t.group \in atListed => at(t))}
<1>1. SupersededPool(d, recommended, listed).pool = pool
  BY DEF SupersededPool
<1>2. PICK g \in d.behind : TRUE
  OBVIOUS
<1>3. PICK u \in recommended : u.group = g
  BY <1>2 DEF GroupSet
<1>4. pool # {}
  <2> HIDE DEF at
  <2>1. CASE g \in atListed
    <3>1. PICK x \in recommended : at(x) /\ x.group = g
      BY <2>1
    <3> QED BY <3>1
  <2>2. CASE g \notin atListed
    BY <1>3, <2>2
  <2> QED BY <2>1, <2>2
<1> HIDE DEF at, atListed
<1>5. pool # {} /\ pool \subseteq recommended /\ \A t \in pool : t.group \in d.behind
  BY <1>4
<1> HIDE DEF pool
<1> QED BY <1>1, <1>5

\* A finding recommends what can be used and is not held, and counts what it replaces.
LEMMA FindingIs ==
  ASSUME NEW series, ListedOnce(series), FilesStated(series), NEW e, Mapped(e),
         NEW entry, TorrentsStated(entry.torrents), NEW opts
  PROVE  FindingSound(series, e, entry, opts, CompareOne(ItemOf(series), e, entry, opts))
<1> DEFINE item == ItemOf(series)
           recommended == Recommended(entry, opts)
           listed == BestRevisions(entry)
           listing == [best |-> GroupSet(recommended), alt |-> {}, revs |-> listed]
           d == DecisionOf(item, e, entry, opts)
           superseded == SupersededPool(d, recommended, listed)
           f == CompareOne(item, e, entry, opts)
           pool == f.pool
           units == Units(series, e, d)
<1> SUFFICES ASSUME f # NoFinding, d.outcome # "no_best"
             PROVE  FindingHolds(series, e, entry, opts, f, d, units)
  BY DEF FindingSound
<1>1. d = Decide(item, e, listing)
  BY DEF DecisionOf
<1>2. f = CompareOn(item, e, entry, opts, d, recommended, superseded, AltGroups(entry, opts))
  BY DEF CompareOne, CompareJudged
<1>3. /\ listing.best = GroupSet(recommended) /\ listing.revs = listed
  OBVIOUS
<1> HIDE DEF item, recommended, listed, listing, d, superseded, f, units
<1>4. /\ d.kind # "offered" /\ d.outcome \notin {"no_file", "withheld", "aligned"}
      /\ f.pool = IF d.outcome = "superseded" THEN superseded.pool ELSE recommended
      /\ f.recommendedGroups = GroupSet(f.pool)
      /\ f.currentBytes \in {0, ReplacedBytes(item, e, d, DownloadSet(f.pool))}
  <2>1. d.outcome = "superseded" \/ d.outcome # "superseded"
    OBVIOUS
  <2> QED BY <1>2, <2>1, ComparedIs
<1>5. /\ IsFiniteSet(recommended)
      /\ \A t \in recommended :
           /\ t.best /\ Obtainable(t, opts.animeBytes) /\ t.link # NoLink
           /\ t.resolution \in Int /\ t.key \in Int /\ PayloadStated(t.files) /\ t.group \in DOMAIN listed
      /\ \A g \in DOMAIN listed : listed[g] \in Revisions
  BY RecommendedIs DEF recommended, listed
<1>6. /\ listing.best # {}
      /\ d.outcome = "superseded" => d.behind # {} /\ d.behind \subseteq listing.best \ {NoGroup}
      /\ d.outcome \in {"superseded", "diverged"} => Comparable(item)
  BY <1>1, <1>4, OutcomesAre
<1>7. /\ pool # {} /\ pool \subseteq recommended
      /\ d.outcome = "superseded" => \A t \in pool : t.group \in d.behind
  <2>1. CASE d.outcome = "superseded"
    <3>1. superseded.pool # {} /\ superseded.pool \subseteq recommended
          /\ \A t \in superseded.pool : t.group \in d.behind
      BY <1>3, <1>6, <2>1, SupersededPoolIs DEF superseded
    <3> QED BY <1>4, <2>1, <3>1
  <2>2. CASE d.outcome # "superseded"
    BY <1>3, <1>4, <1>6, <2>2 DEF GroupSet
  <2> QED BY <2>1, <2>2
<1> HIDE DEF pool
<1>8. Representative(pool) \in pool
  <2>1. IsFiniteSet(pool) /\ \A t \in pool : t.resolution \in Int /\ t.key \in Int
    BY <1>5, <1>7, FS_Subset
  <2> QED BY <1>7, <2>1, RepresentativeIs
<1>9. \E l \in ObtainableLinks(pool) : l.headline
  BY <1>5, <1>7, <1>8, HeadlineIs
<1>10. AlignmentSound(series, e, listing, d)
  BY <1>1, <1>3, <1>5, DecideIs DEF Listed, item
<1>11. d.outcome \in {"superseded", "diverged"} => series.read # "none"
  BY <1>6, ItemIs DEF Comparable, item
<1>12. d.outcome = "diverged" => \E u \in units : GroupsIn(u) \cap f.recommendedGroups = {}
  <2> SUFFICES ASSUME d.outcome = "diverged"
               PROVE  \E u \in units : GroupsIn(u) \cap f.recommendedGroups = {}
    OBVIOUS
  <2>1. PICK u \in units : ~\E x \in u : x.group \in listing.best
    BY <1>4, <1>10, <1>11 DEF AlignmentSound, units
  <2>2. f.recommendedGroups = listing.best
    BY <1>3, <1>4
  <2> QED BY <2>1, <2>2 DEF GroupsIn
<1>13. ASSUME d.outcome = "superseded", NEW t \in pool, NEW x \in UNION units, x.group = t.group
       PROVE  RevisionBehind(x.rev, listed[t.group])
  <2>1. t.group \in listing.best /\ t.group # NoGroup /\ t.group \in DOMAIN listed
    BY <1>5, <1>6, <1>7, <1>13
  <2>2. Behind(x, listing)
    <3>1. \A y \in UNION units : y.group \in listing.best /\ y.group # NoGroup => Behind(y, listing)
      BY <1>4, <1>10, <1>11, <1>13 DEF AlignmentSound, units
    <3> QED BY <1>13, <2>1, <3>1
  <2> QED BY <1>3, <1>13, <2>1, <2>2 DEF Behind, At
<1>14. ReplacedWhole(series, e, f, d)
  <2> DEFINE set == DownloadSet(pool)
             whole == HeldWhole(series, d.season, pool)
  <2>1. ReplacedWhole(series, e, f, d) <=>
          (f.currentBytes > 0 /\ d.kind = "season" =>
             d.season \notin e.siblings /\ f.currentBytes <= SizesOf(whole))
    BY Zenon DEF ReplacedWhole, Spans, SizesOf, HeldWhole, pool
  <2>2. set \subseteq pool /\ \A t \in set : PayloadStated(t.files)
    BY <1>5, <1>7, <1>8, DownloadIs
  <2> HIDE DEF set, whole
  <2>3. ASSUME d.kind = "season", f.currentBytes > 0
        PROVE  d.season \notin e.siblings /\ f.currentBytes <= SizesOf(whole)
    <3> DEFINE replaced == ReplacedBytes(item, e, d, set)
    <3>1. f.currentBytes = replaced
      BY <1>4, <2>3 DEF pool, set
    <3>2. replaced > 0 => d.season \notin e.siblings /\ replaced <= SizesOf(whole)
      BY <2>2, <2>3, ReplacedIs DEF item, whole
    <3> HIDE DEF replaced
    <3> QED BY <2>3, <3>1, <3>2
  <2> QED BY <2>1, <2>3
<1>15. FindingHolds(series, e, entry, opts, f, d, units)
  <2>1. pool # {} /\ f.recommendedGroups = GroupSet(pool)
    BY <1>4, <1>7 DEF pool
  <2>2. \A t \in pool : t.best /\ Obtainable(t, opts.animeBytes)
    BY <1>5, <1>7
  <2> QED BY <1>9, <1>12, <1>13, <1>14, <2>1, <2>2 DEF FindingHolds, pool, listed
<1> QED BY <1>15

------------------------------------------------------------------------------
(* The questions.                                                              *)

\* The answer the code computes to a question.
AnswerOf(q) ==
  CASE q.of = "project" -> EntryFacts(q.about.tvdb, {}, FALSE, q.about.entry)
    [] q.of = "decide" -> Decide(ItemOf(q.about.series), q.about.entry, q.about.listing)
    [] q.of = "compare" -> CompareOne(ItemOf(q.about.series), q.about.entry, q.about.listed, q.about.opts)
    [] OTHER -> <<>>

\* What is asked is one of the questions there are, and is answered by the code's computation.
AskedInv ==
  /\ question.of = "project" => question.about \in MapEntries
  /\ question.of = "decide" => question.about \in Alignments
  /\ question.of = "compare" => question.about \in Comparisons
  /\ answer \in {NoAnswer, <<AnswerOf(question)>>}

LEMMA AskedStarts ==
  ASSUME VerdictsInit \/ (question = NoQuestion /\ answer = NoAnswer)
  PROVE  AskedInv
<1>1. CASE question = NoQuestion
  BY <1>1 DEF NoQuestion, VerdictsInit, AskedInv
<1>2. CASE VerdictsInit
  <2>1. answer = NoAnswer
    BY <1>2 DEF VerdictsInit
  <2>2. \/ question.of = "project" /\ question.about \in MapEntries
        \/ question.of = "decide" /\ question.about \in Alignments
        \/ question.of = "compare" /\ question.about \in Comparisons
    BY <1>2 DEF VerdictsInit
  <2> QED BY <2>1, <2>2 DEF AskedInv
<1> QED BY <1>1, <1>2

LEMMA AskedStep == AskedInv /\ [VerdictsNext]_verdictVars => AskedInv'
<1> SUFFICES ASSUME AskedInv, [VerdictsNext]_verdictVars PROVE AskedInv'
  OBVIOUS
<1>1. question' = question /\ (answer' = answer \/ answer' = <<AnswerOf(question)>>)
  <2>1. CASE ProjectEntry
    BY <2>1 DEF ProjectEntry, Answer, AnswerOf
  <2>2. CASE DecideItem
    BY <2>2 DEF DecideItem, Answer, AnswerOf
  <2>3. CASE CompareMatch
    BY <2>3 DEF CompareMatch, Answer, AnswerOf
  <2>4. CASE UNCHANGED verdictVars
    BY <2>4 DEF verdictVars
  <2> QED BY <2>1, <2>2, <2>3, <2>4 DEF VerdictsNext
<1>2. AnswerOf(question') = AnswerOf(question)
  BY <1>1
<1>3. answer' \in {NoAnswer, <<AnswerOf(question')>>}
  BY <1>1, <1>2 DEF AskedInv
<1> QED BY <1>1, <1>3 DEF AskedInv, NoAnswer

\* A question settled has the answer the code computes.
LEMMA Computed ==
  ASSUME AskedInv, answer # NoAnswer
  PROVE  answer[1] = AnswerOf(question)
BY DEF AskedInv, NoAnswer

\* An answer given claims no more than the map states.
LEMMA AskedIsSound == AskedInv => EntryFactsSound
<1> SUFFICES ASSUME AskedInv, Settled("project")
             PROVE  ProjectionSound(question.about.entry, answer[1])
  BY DEF EntryFactsSound
<1>1. question.of = "project" /\ question.about \in MapEntries /\ answer # NoAnswer
  BY DEF AskedInv, Settled
<1>2. answer[1] = EntryFacts(question.about.tvdb, {}, FALSE, question.about.entry)
  BY <1>1, Computed DEF AnswerOf
<1>3. question.about.entry \in Seq(Readings)
  BY <1>1, VerdictsAssumption
<1> QED BY <1>2, <1>3, EntryFactsAre

\* A decision made holds of the files it was made on.
LEMMA DecidedIsSound == AskedInv => DecisionSound
<1> SUFFICES ASSUME AskedInv, Settled("decide")
             PROVE  AlignmentSound(question.about.series, question.about.entry, question.about.listing, answer[1])
  BY DEF DecisionSound
<1>1. question.of = "decide" /\ question.about \in Alignments /\ answer # NoAnswer
  BY DEF AskedInv, Settled
<1>2. answer[1] = Decide(ItemOf(question.about.series), question.about.entry, question.about.listing)
  BY <1>1, Computed, Zenon DEF AnswerOf
<1>3. /\ ListedOnce(question.about.series) /\ Mapped(question.about.entry)
      /\ Listed(question.about.listing)
  BY <1>1, VerdictsAssumption DEF Listed
<1> QED BY <1>2, <1>3, DecideIs

\* A match compared yields a sound finding.
LEMMA ComparedIsSound == AskedInv => FindingsSound
<1> SUFFICES ASSUME AskedInv, Settled("compare")
             PROVE  FindingSound(question.about.series, question.about.entry, question.about.listed,
                                 question.about.opts, answer[1])
  BY DEF FindingsSound
<1>1. question.of = "compare" /\ question.about \in Comparisons /\ answer # NoAnswer
  BY DEF AskedInv, Settled
<1>2. answer[1] = CompareOne(ItemOf(question.about.series), question.about.entry,
                             question.about.listed, question.about.opts)
  BY <1>1, Computed, Zenon DEF AnswerOf
<1>3. /\ ListedOnce(question.about.series) /\ FilesStated(question.about.series)
      /\ Mapped(question.about.entry) /\ TorrentsStated(question.about.listed.torrents)
  BY <1>1, VerdictsAssumption
<1> QED BY <1>2, <1>3, FindingIs

(* For any map, an entry's facts never claim more than the map states of every *)
(* episode, and its ranges are the maximal runs of each season it lands on.    *)
THEOREM EntriesRead == VerdictsSpec => []EntryFactsSound
BY AskedStarts, AskedStep, AskedIsSound, PTL DEF VerdictsSpec

(* Whatever the files, the entry and the listing, a copy is called aligned,    *)
(* superseded or diverged only on what its files show.                         *)
THEOREM Decides == VerdictsSpec => []DecisionSound
BY AskedStarts, AskedStep, DecidedIsSound, PTL DEF VerdictsSpec

(* Whatever is listed and held, a finding recommends releases that can be used *)
(* and are not held, and the bytes it says are replaced are those of files the *)
(* download holds whole.                                                       *)
THEOREM Compares == VerdictsSpec => []FindingsSound
BY AskedStarts, AskedStep, ComparedIsSound, PTL DEF VerdictsSpec
==============================================================================
