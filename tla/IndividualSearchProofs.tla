----------------------- MODULE IndividualSearchProofs -----------------------
(***************************************************************************)
(* That the individual search looks at every value of every parameter and  *)
(* ends with the best scenario it has seen, for any search space, any      *)
(* number of results kept and any measurements.                            *)
(***************************************************************************)
EXTENDS IndividualSearch, FiniteSetTheorems, SequenceTheorems, TLAPS

-----------------------------------------------------------------------------
(* The invariant.                                                          *)

\* The values in the range of p, and the scenarios made of such values.
Values(p) == {Ranges[p].from + (k - 1) * Ranges[p].step : k \in 1..RangeSize(p)}
Settings  == {v \in UNION {[ps -> Int] : ps \in SUBSET Params} :
                 \A p \in DOMAIN v : v[p] \in Values(p)}

\* The scenarios that searchFinished has looked at.
Seen == DOMAIN scenarios \ scenarioIds

\* The parameters and the scenarios.
Shape ==
    /\ tuningParameters \in Seq(Params) /\ IsInjective(tuningParameters)
    /\ restriction \in [Params -> SUBSET Int]
    /\ \A p \in Params : restriction[p] \subseteq Values(p)
    /\ searchStepCount \in Nat /\ tpEliminated \in 0..searchStepCount
    /\ scenarios \in Seq(Settings)
    /\ stage \in {"create", "measure", "evaluate", "finished", "undefined"}
    /\ uses \in Nat \ {0}

\* What a step works on: the scenarios it has created, for as many parameters as it counts.
Step ==
    /\ scenarioIds \subseteq DOMAIN scenarios
    /\ stage \in {"create", "finished"} => scenarioIds = {}
    /\ stage \in {"measure", "evaluate"} =>
          /\ Current \in 1..Len(tuningParameters)
          /\ scenarioIds # {}
          /\ \A i \in scenarioIds : DOMAIN scenarios[i] = Explored(Current)

\* Best and worst are so among all that was looked at.
Records ==
    /\ time \in [IF stage = "evaluate" THEN DOMAIN scenarios ELSE Seen -> Nat]
    /\ IF Seen = {} THEN bestScenario = 0 /\ worstScenario = 0
       ELSE /\ bestScenario \in Seen /\ worstScenario \in Seen
            /\ \A i \in Seen : time[bestScenario] <= time[i] /\ time[i] <= time[worstScenario]
    /\ path \subseteq Seen
    /\ IF path = {} THEN optimum \in 0..Len(scenarios)
       ELSE optimum \in path /\ \A i \in path : time[optimum] <= time[i]

\* How many of the parameters that are left were explored.
Settled == IF stage \in {"measure", "evaluate"} THEN Current - 1 ELSE Current

\* Every value of p is set by one of the scenarios ids.
Tried(p, ids) ==
    \A v \in Values(p) : \E i \in ids : p \in DOMAIN scenarios[i] /\ scenarios[i][p] = v

\* A new search: it has restricted the parameters it kept, and tried those and
\* the ones it has eliminated.
Fresh ==
    /\ stage # "undefined"
    /\ stage = "create" => Current < Len(tuningParameters)
    /\ stage = "finished" => Current = Len(tuningParameters)
    /\ \A i \in DOMAIN tuningParameters : restriction[tuningParameters[i]] # {} <=> i <= Settled
    /\ \A p \in Params : (\A i \in DOMAIN tuningParameters : tuningParameters[i] = p => i <= Settled)
                            => Tried(p, DOMAIN scenarios)
    /\ stage \in {"measure", "evaluate"} =>
          /\ Tried(tuningParameters[Current], scenarioIds)
          /\ \A i \in scenarioIds : \A p \in Explored(Settled) : scenarios[i][p] \in restriction[p]
    /\ bestScenario # 0 =>
          /\ DOMAIN scenarios[bestScenario] = Explored(Settled)
          /\ \A p \in Explored(Settled) : scenarios[bestScenario][p] \in restriction[p]

SearchInv == Shape /\ Step /\ Records /\ (uses = 1 => Fresh)

-----------------------------------------------------------------------------
(* Ranges and values.                                                      *)

\* A range has a value, and none of them is outside of it.
LEMMA RangeSizes ==
    ASSUME NEW p \in Params
    PROVE  /\ Ranges[p].from \in Int /\ Ranges[p].to \in Int /\ Ranges[p].step \in Nat \ {0}
           /\ RangeSize(p) \in Nat \ {0}
           /\ \A k \in 1..RangeSize(p) :
                 Ranges[p].from + (k - 1) * Ranges[p].step \in Ranges[p].from..Ranges[p].to
<1> DEFINE f == Ranges[p].from
           t == Ranges[p].to
           s == Ranges[p].step
           q == (t - f) \div s
<1>1. f \in Int /\ t \in Int /\ s \in Nat \ {0} /\ f <= t
  BY SearchAssumption
<1> HIDE DEF f, t, s
<1>2. q \in Nat /\ q * s <= t - f
  BY <1>1
<1>3. RangeSize(p) = q + 1
  BY DEF RangeSize, f, t, s
<1> HIDE DEF q
<1>4. ASSUME NEW k \in 1..q + 1
      PROVE  f + (k - 1) * s \in f..t
  <2>1. k - 1 \in Nat /\ k - 1 <= q
    BY <1>2
  <2>2. (k - 1) * s <= q * s /\ (k - 1) * s \in Nat
    BY <1>1, <1>2, <2>1
  <2> QED
    BY <1>1, <1>2, <2>2
<1> QED
  BY <1>1, <1>2, <1>3, <1>4 DEF f, t, s

\* Its values are different ones.
LEMMA ValuesDiffer ==
    ASSUME NEW p \in Params, NEW i \in 1..RangeSize(p), NEW j \in 1..RangeSize(p),
           Ranges[p].from + (i - 1) * Ranges[p].step = Ranges[p].from + (j - 1) * Ranges[p].step
    PROVE  i = j
<1> DEFINE f == Ranges[p].from
           s == Ranges[p].step
           n == RangeSize(p)
<1>1. f \in Int /\ s \in Nat \ {0} /\ n \in Nat
  BY RangeSizes
<1>2. f + (i - 1) * s = f + (j - 1) * s
  OBVIOUS
<1>3. i \in 1..n /\ j \in 1..n
  OBVIOUS
<1> HIDE DEF f, s, n
<1>4. (i - 1) * s = (j - 1) * s
  BY <1>1, <1>2, <1>3
<1>5. ASSUME NEW a \in Nat, NEW b \in Nat, a * s = b * s
      PROVE  a = b
  BY <1>1, <1>5
<1>6. i - 1 = j - 1
  BY <1>1, <1>3, <1>4, <1>5
<1> QED
  BY <1>1, <1>3, <1>6

LEMMA ValuesFinite ==
    ASSUME NEW p \in Params
    PROVE  /\ Values(p) \subseteq Ranges[p].from..Ranges[p].to
           /\ Values(p) \subseteq Int /\ Values(p) # {} /\ IsFiniteSet(Values(p))
<1>1. Values(p) \subseteq Ranges[p].from..Ranges[p].to
  BY RangeSizes DEF Values
<1>2. IsFiniteSet(Ranges[p].from..Ranges[p].to)
  BY RangeSizes, FS_Interval
<1>3. IsFiniteSet(Values(p))
  BY <1>1, <1>2, FS_Subset
<1>4. 1 \in 1..RangeSize(p)
  BY RangeSizes
<1>5. Values(p) # {}
  BY <1>4 DEF Values
<1> QED
  BY <1>1, <1>3, <1>5, RangeSizes

-----------------------------------------------------------------------------
(* Finite sets.                                                            *)

\* The functions from one finite set to another are finitely many: each is its graph.
LEMMA FunctionsFinite ==
    ASSUME NEW S, NEW T, IsFiniteSet(S), IsFiniteSet(T)
    PROVE  IsFiniteSet([S -> T])
<1> DEFINE Graph(f) == {<<x, f[x]>> : x \in S}
           g == [f \in [S -> T] |-> Graph(f)]
<1>1. IsFiniteSet(SUBSET (S \X T))
  BY FS_Product, FS_SUBSET
<1>2. ASSUME NEW f \in [S -> T] PROVE Graph(f) \in SUBSET (S \X T)
  OBVIOUS
<1>3. ASSUME NEW f \in [S -> T], NEW h \in [S -> T], Graph(f) = Graph(h)
      PROVE  f = h
  <2>1. ASSUME NEW x \in S PROVE f[x] = h[x]
    <3>1. <<x, f[x]>> \in Graph(f)
      OBVIOUS
    <3>2. PICK y \in S : <<x, f[x]>> = <<y, h[y]>>
      BY <1>3, <3>1
    <3> QED
      BY <3>2
  <2> QED
    BY <2>1
<1> HIDE DEF Graph
<1>4. g \in Injection([S -> T], SUBSET (S \X T))
  BY <1>2, <1>3 DEF Injection, IsInjective
<1> QED
  BY <1>1, <1>4, FS_Injection

\* A finite set as a sequence.
LEMMA SetAsSeq ==
    ASSUME NEW S, IsFiniteSet(S)
    PROVE  /\ SetToSeq(S) \in Seq(S)
           /\ Len(SetToSeq(S)) = Cardinality(S)
           /\ \A x \in S : \E i \in 1..Cardinality(S) : SetToSeq(S)[i] = x
<1> DEFINE n == Cardinality(S)
           Listing(f) == f \in [1..n -> S] /\ IsInjective(f)
<1>1. n \in Nat /\ \E f : Listing(f)
  <2>1. n \in Nat /\ ExistsBijection(1..n, S)
    BY FS_CardinalityType
  <2> QED
    BY <2>1 DEF ExistsBijection, Bijection, Injection
<1>2. Listing(SetToSeq(S))
  BY <1>1 DEF SetToSeq
<1>3. SetToSeq(S) \in Seq(S) /\ Len(SetToSeq(S)) = n
  BY <1>1, <1>2
<1>4. SetToSeq(S) \in Surjection(1..n, S)
  <2>1. SetToSeq(S) \in Injection(1..n, S)
    BY <1>2 DEF Injection
  <2>2. Cardinality(1..n) = n
    BY <1>1, FS_Interval
  <2> QED
    BY <2>1, <2>2, FS_Injection
<1> QED
  BY <1>3, <1>4 DEF Surjection

\* A set of natural numbers that is not empty has a least element.
LEMMA LeastExists ==
    ASSUME NEW S, S \subseteq Nat, S # {}
    PROVE  \E i \in S : \A j \in S : i <= j
<1> DEFINE R == OpToRel(<, Nat)
<1>1. \A i, j \in Nat : j < i => <<j, i>> \in R
  BY Zenon DEF OpToRel
<1>2. IsWellFoundedOn(R, Nat)
  BY NatLessThanWellFounded
<1> HIDE DEF R
<1>3. PICK i \in S : \A j \in S : ~(<<j, i>> \in R)
  BY <1>2, WFMin
<1>4. ASSUME NEW j \in S PROVE i <= j
  <2>1. i \in Nat /\ j \in Nat
    OBVIOUS
  <2>2. ~(j < i)
    BY <1>1, <1>3, <2>1
  <2> QED
    BY <2>1, <2>2
<1> QED
  BY <1>4

-----------------------------------------------------------------------------
(* The operators of the search.                                            *)

\* What exhaustive search gives to a parameter.
LEMMA PossibleValues ==
    ASSUME Shape, NEW p \in Params
    PROVE  /\ TPValues(p) \subseteq Values(p) /\ TPValues(p) # {} /\ IsFiniteSet(TPValues(p))
           /\ restriction[p] # {} => TPValues(p) = restriction[p]
           /\ restriction[p] = {} => TPValues(p) = Values(p)
<1>1. restriction[p] \subseteq Values(p) /\ IsFiniteSet(Values(p)) /\ Values(p) # {}
  BY ValuesFinite DEF Shape
<1>2. restriction[p] # {} => TPValues(p) = restriction[p]
  BY DEF TPValues
<1>3. restriction[p] = {} => TPValues(p) = Values(p)
  BY DEF TPValues, Values
<1> QED
  BY <1>1, <1>2, <1>3, FS_Subset

\* The parameters it combines.
LEMMA ExploredSet ==
    ASSUME Shape, NEW c \in 0..Len(tuningParameters)
    PROVE  /\ Explored(c) \subseteq Params /\ IsFiniteSet(Explored(c))
           /\ DOMAIN tuningParameters = 1..Len(tuningParameters)
           /\ Len(tuningParameters) \in Nat
<1> DEFINE g == [i \in 1..c |-> tuningParameters[i]]
<1>1. /\ DOMAIN tuningParameters = 1..Len(tuningParameters)
      /\ Len(tuningParameters) \in Nat
      /\ \A i \in 1..Len(tuningParameters) : tuningParameters[i] \in Params
  BY LenProperties, ElementOfSeq DEF Shape
<1>2. 1..c \subseteq 1..Len(tuningParameters)
  BY <1>1
<1>3. g \in Surjection(1..c, Explored(c))
  BY DEF Surjection, Explored
<1>4. IsFiniteSet(1..c)
  BY <1>1, FS_Interval
<1>5. IsFiniteSet(Explored(c))
  <2> HIDE DEF g
  <2> QED
    BY <1>3, <1>4, FS_Surjection
<1> QED
  BY <1>1, <1>2, <1>5 DEF Explored

\* It makes scenarios of exactly these parameters, finitely many, and each
\* possible value is in one.
LEMMA VariantsMade ==
    ASSUME Shape, NEW ps, ps \subseteq Params, IsFiniteSet(ps)
    PROVE  /\ IsFiniteSet(Variants(ps)) /\ Variants(ps) # {} /\ Variants(ps) \subseteq Settings
           /\ \A v \in Variants(ps) : DOMAIN v = ps /\ \A p \in ps : v[p] \in TPValues(p)
           /\ \A p \in ps : \A x \in TPValues(p) : \E v \in Variants(ps) : v[p] = x
<1> DEFINE V == UNION {TPValues(p) : p \in ps}
           Choice == [p \in ps |-> CHOOSE x \in TPValues(p) : TRUE]
<1>1. \A p \in ps : TPValues(p) # {} /\ IsFiniteSet(TPValues(p)) /\ TPValues(p) \subseteq Values(p)
  BY PossibleValues
<1>2. IsFiniteSet(V)
  <2> DEFINE g == [p \in ps |-> TPValues(p)]
             G == {TPValues(p) : p \in ps}
  <2>1. g \in Surjection(ps, G)
    BY DEF Surjection
  <2>2. \A A \in G : IsFiniteSet(A)
    BY <1>1
  <2> HIDE DEF g, G
  <2>3. IsFiniteSet(G)
    BY <2>1, FS_Surjection
  <2>4. IsFiniteSet(UNION G)
    BY <2>2, <2>3, FS_UNION
  <2> QED
    BY <2>4 DEF G
<1>3. \A v : v \in Variants(ps) <=> v \in [ps -> V] /\ \A p \in ps : v[p] \in TPValues(p)
  BY DEF Variants
<1>4. IsFiniteSet(Variants(ps))
  <2>1. IsFiniteSet([ps -> V])
    <3> HIDE DEF V
    <3> QED
      BY <1>2, FunctionsFinite
  <2>2. Variants(ps) \subseteq [ps -> V]
    BY <1>3
  <2> QED
    BY <2>1, <2>2, FS_Subset
<1>5. \A p \in ps : Choice[p] \in TPValues(p)
  BY <1>1
<1>6. Choice \in [ps -> V]
  BY <1>5
<1>7. Choice \in Variants(ps)
  BY <1>3, <1>5, <1>6
<1> HIDE DEF V, Choice
<1>8. ASSUME NEW v \in Variants(ps) PROVE v \in Settings
  <2>1. v \in [ps -> V] /\ \A p \in ps : v[p] \in TPValues(p)
    BY <1>3
  <2>2. \A p \in ps : v[p] \in Values(p) /\ v[p] \in Int
    BY <1>1, <2>1, ValuesFinite
  <2>3. v \in [ps -> Int] /\ ps \in SUBSET Params
    BY <2>1, <2>2
  <2>4. v \in UNION {[qs -> Int] : qs \in SUBSET Params} /\ DOMAIN v = ps
    BY <2>3
  <2> QED
    BY <2>2, <2>4 DEF Settings
<1>9. ASSUME NEW p \in ps, NEW x \in TPValues(p)
      PROVE  \E v \in Variants(ps) : v[p] = x
  <2> DEFINE v == [Choice EXCEPT ![p] = x]
  <2>1. \A q \in ps : v[q] = IF q = p THEN x ELSE Choice[q]
    BY <1>6
  <2>2. \A q \in ps : v[q] \in TPValues(q)
    BY <1>5, <2>1
  <2>3. v \in [ps -> V]
    BY <1>6 DEF V
  <2> HIDE DEF v
  <2> QED
    BY <1>3, <2>1, <2>2, <2>3
<1> QED
  BY <1>3, <1>4, <1>7, <1>8, <1>9

\* The optimum of exhaustive search is one of its best scenarios.
LEMMA OptimumLeast ==
    ASSUME NEW ids, ids \subseteq Nat, ids # {}, \A i \in ids : time[i] \in Nat
    PROVE  Optimum(ids) \in ids /\ \A i \in ids : time[Optimum(ids)] <= time[i]
<1> DEFINE T == {time[i] : i \in ids}
<1>1. PICK t \in T : \A u \in T : t <= u
  <2>1. T \subseteq Nat /\ T # {}
    OBVIOUS
  <2> HIDE DEF T
  <2> QED
    BY <2>1, LeastExists
<1>2. PICK m \in {i \in ids : time[i] = t} : \A j \in {i \in ids : time[i] = t} : m <= j
  <2> DEFINE M == {i \in ids : time[i] = t}
  <2>1. M \subseteq Nat /\ M # {}
    OBVIOUS
  <2> HIDE DEF M
  <2>2. \E m \in M : \A j \in M : m <= j
    BY <2>1, LeastExists
  <2> QED
    BY <2>2 DEF M
<1> DEFINE First(i) == \A j \in ids : time[i] < time[j] \/ (time[i] = time[j] /\ i <= j)
<1>3. m \in ids /\ First(m)
  <2> SUFFICES ASSUME NEW j \in ids PROVE time[m] < time[j] \/ (time[m] = time[j] /\ m <= j)
    BY <1>2
  <2>1. time[m] = t /\ t <= time[j] /\ t \in Nat /\ time[j] \in Nat
    BY <1>1, <1>2
  <2> QED
    BY <1>2, <2>1
<1>4. Optimum(ids) \in ids /\ First(Optimum(ids))
  BY <1>3 DEF Optimum
<1>5. ASSUME NEW j \in ids PROVE time[Optimum(ids)] <= time[j]
  <2>1. time[Optimum(ids)] \in Nat /\ time[j] \in Nat
    BY <1>4
  <2> QED
    BY <1>4, <2>1
<1> QED
  BY <1>4, <1>5

\* Sorted results begin with a best one.
LEMMA PrefixBest ==
    ASSUME NEW ids, \A i \in ids : time[i] \in Nat, NEW k \in Nat \ {0}, NEW s \in SortedPrefixes(ids, k)
    PROVE  /\ DOMAIN s = 1..k /\ \A j \in 1..k : s[j] \in ids
           /\ 1 \in DOMAIN s /\ s[1] \in ids /\ \A i \in ids : time[s[1]] <= time[i]
<1>1. /\ s \in [1..k -> ids]
      /\ \A i, j \in 1..k : i < j => time[s[i]] <= time[s[j]]
      /\ \A i \in ids : (\A j \in 1..k : s[j] # i) => time[s[k]] <= time[i]
  BY DEF SortedPrefixes
<1>2. 1 \in 1..k /\ k \in 1..k
  OBVIOUS
<1>3. \A j \in 1..k : time[s[1]] <= time[s[j]]
  <2> TAKE j \in 1..k
  <2>1. j = 1 \/ 1 < j
    OBVIOUS
  <2>2. time[s[1]] \in Nat
    BY <1>1, <1>2
  <2> QED
    BY <1>1, <1>2, <2>1, <2>2
<1>4. ASSUME NEW i \in ids PROVE time[s[1]] <= time[i]
  <2>1. CASE \E j \in 1..k : s[j] = i
    BY <1>3, <2>1
  <2>2. CASE \A j \in 1..k : s[j] # i
    <3>1. time[s[1]] <= time[s[k]] /\ time[s[k]] <= time[i]
      BY <1>1, <1>2, <1>3, <2>2
    <3>2. time[s[1]] \in Nat /\ time[s[k]] \in Nat /\ time[i] \in Nat
      BY <1>1, <1>2
    <3> QED
      BY <3>1, <3>2
  <2> QED
    BY <2>1, <2>2
<1> QED
  BY <1>1, <1>2, <1>4

\* The parameters after one is eliminated.
LEMMA Eliminated ==
    ASSUME Shape, NEW c \in 1..Len(tuningParameters)
    PROVE  LET R == RemoveAt(tuningParameters, c)
               n == Len(tuningParameters)
           IN  /\ R \in Seq(Params) /\ IsInjective(R)
               /\ Len(R) = n - 1 /\ DOMAIN R = 1..n - 1
               /\ \A i \in 1..n - 1 : R[i] = IF i < c THEN tuningParameters[i] ELSE tuningParameters[i + 1]
<1> DEFINE t == tuningParameters
           n == Len(t)
           R == RemoveAt(t, c)
           a == SubSeq(t, 1, c - 1)
           b == SubSeq(t, c + 1, n)
<1>1. /\ t \in Seq(Params) /\ n \in Nat /\ DOMAIN t = 1..n /\ \A i \in 1..n : t[i] \in Params
      /\ \A i, j \in 1..n : t[i] = t[j] => i = j
  BY LenProperties, ElementOfSeq DEF Shape, IsInjective
<1>2. c \in 1..n
  OBVIOUS
<1>3. R = a \o b
  BY DEF RemoveAt
<1> HIDE DEF t, n, R
<1>4. a \in Seq(Params) /\ Len(a) = c - 1 /\ \A i \in 1..c - 1 : a[i] = t[i]
  <2>1. \A i \in 1..c - 1 : t[i] \in Params
    BY <1>1, <1>2
  <2>2. /\ SubSeq(t, 1, c - 1) \in Seq(Params)
        /\ Len(SubSeq(t, 1, c - 1)) = IF 1 <= c - 1 THEN c - 1 - 1 + 1 ELSE 0
        /\ \A i \in 1..c - 1 - 1 + 1 : SubSeq(t, 1, c - 1)[i] = t[1 + i - 1]
    <3>1. 1 \in Int /\ c - 1 \in Int
      BY <1>1, <1>2
    <3> QED
      BY <2>1, <3>1, SubSeqProperties
  <2> QED
    BY <1>1, <1>2, <2>2
<1>5. b \in Seq(Params) /\ Len(b) = n - c /\ \A i \in 1..n - c : b[i] = t[c + i]
  <2>1. \A i \in c + 1..n : t[i] \in Params
    BY <1>1, <1>2
  <2>2. /\ SubSeq(t, c + 1, n) \in Seq(Params)
        /\ Len(SubSeq(t, c + 1, n)) = IF c + 1 <= n THEN n - (c + 1) + 1 ELSE 0
        /\ \A i \in 1..n - (c + 1) + 1 : SubSeq(t, c + 1, n)[i] = t[c + 1 + i - 1]
    <3>1. c + 1 \in Int /\ n \in Int
      BY <1>1, <1>2
    <3> QED
      BY <2>1, <3>1, SubSeqProperties
  <2> QED
    BY <1>1, <1>2, <2>2
<1> HIDE DEF a, b
<1>6. /\ R \in Seq(Params) /\ Len(R) = Len(a) + Len(b)
      /\ \A i \in 1..Len(a) + Len(b) : R[i] = IF i <= Len(a) THEN a[i] ELSE b[i - Len(a)]
  BY <1>3, <1>4, <1>5, ConcatProperties
<1>7. Len(R) = n - 1 /\ DOMAIN R = 1..n - 1
  BY <1>1, <1>2, <1>4, <1>5, <1>6, LenProperties
<1>8. ASSUME NEW i \in 1..n - 1 PROVE R[i] = IF i < c THEN t[i] ELSE t[i + 1]
  <2>1. i \in 1..Len(a) + Len(b)
    BY <1>1, <1>2, <1>4, <1>5
  <2>2. CASE i < c
    BY <1>1, <1>2, <1>4, <1>6, <2>1, <2>2
  <2>3. CASE ~(i < c)
    <3>1. i - Len(a) \in 1..n - c /\ c + (i - Len(a)) = i + 1
      BY <1>1, <1>2, <1>4, <2>3
    <3>2. R[i] = b[i - Len(a)]
      BY <1>1, <1>2, <1>4, <1>6, <2>1, <2>3
    <3> QED
      BY <1>5, <2>3, <3>1, <3>2
  <2> QED
    BY <2>2, <2>3
<1>9. ASSUME NEW i \in 1..n - 1, NEW j \in 1..n - 1, R[i] = R[j]
      PROVE  i = j
  <2>1. i \in 1..n /\ j \in 1..n /\ i + 1 \in 1..n /\ j + 1 \in 1..n
    BY <1>1
  <2>2. (IF i < c THEN i ELSE i + 1) = (IF j < c THEN j ELSE j + 1)
    BY <1>1, <1>8, <1>9, <2>1
  <2> QED
    BY <1>1, <1>2, <2>2
<1>10. IsInjective(R)
  BY <1>7, <1>9 DEF IsInjective
<1> QED
  BY <1>6, <1>7, <1>8, <1>10 DEF t, n, R

\* Trying all values of a parameter takes as many scenarios.
LEMMA EnoughScenarios ==
    ASSUME NEW p \in Params, NEW ids, IsFiniteSet(ids), Tried(p, ids)
    PROVE  RangeSize(p) <= Cardinality(ids)
<1> DEFINE n == RangeSize(p)
           Value(k) == Ranges[p].from + (k - 1) * Ranges[p].step
           Setting(k) == CHOOSE i \in ids : scenarios[i][p] = Value(k)
           g == [k \in 1..n |-> Setting(k)]
<1>1. \A k \in 1..n : Setting(k) \in ids /\ scenarios[Setting(k)][p] = Value(k)
  BY DEF Tried, Values
<1>2. \A j, k \in 1..n : Value(j) = Value(k) => j = k
  BY ValuesDiffer
<1>3. n \in Nat
  BY RangeSizes
<1> HIDE DEF n, Value, Setting
<1>4. g \in Injection(1..n, ids)
  BY <1>1, <1>2 DEF Injection, IsInjective
<1>5. Cardinality(1..n) <= Cardinality(ids)
  <2> HIDE DEF g
  <2> QED
    BY <1>4, FS_Injection
<1>6. Cardinality(1..n) = n
  BY <1>3, FS_Interval
<1> QED
  BY <1>5, <1>6 DEF n

-----------------------------------------------------------------------------
(* The steps.                                                              *)

LEMMA SearchStarts == Init => SearchInv
<1> SUFFICES ASSUME Init PROVE SearchInv
  OBVIOUS
<1> USE DEF Init
<1>1. Space \in Seq(Params) /\ IsInjective(Space) /\ Len(Space) \in Nat \ {0} /\ DOMAIN Space = 1..Len(Space)
  BY SearchAssumption, EmptySeq, LenProperties
<1>2. scenarios \in Seq(Settings) /\ Len(scenarios) = 0 /\ DOMAIN scenarios = {}
  BY EmptySeq, LenProperties
<1>3. Shape
  BY <1>1, <1>2 DEF Shape
<1>4. Step
  BY DEF Step
<1>5. Records
  <2>1. Seen = {} /\ time \in [{} -> Nat]
    BY <1>2 DEF Seen
  <2> QED
    BY <1>2, <2>1 DEF Records
<1>6. Fresh
  <2>1. Current = 0 /\ Settled = 0
    BY DEF Current, Settled
  <2>2. \A i \in DOMAIN tuningParameters : restriction[tuningParameters[i]] # {} <=> i <= Settled
    BY <1>1, <2>1, ElementOfSeq
  <2>3. \A p \in Params : \E i \in DOMAIN tuningParameters : tuningParameters[i] = p /\ ~(i <= Settled)
    BY <1>1, <2>1 DEF Params
  <2> QED
    BY <1>1, <2>1, <2>2, <2>3 DEF Fresh
<1> QED
  BY <1>3, <1>4, <1>5, <1>6 DEF SearchInv

\* The scenarios of a step are new ones, all for the parameters it explores.
LEMMA ScenariosCreated ==
    ASSUME Shape, Step, CreateScenarios,
           NEW c, c = IF Current + 1 < Len(tuningParameters) THEN Current + 1 ELSE Len(tuningParameters)
    PROVE  /\ Current \in Nat /\ Current' = Current + 1 /\ c \in 0..Len(tuningParameters)
           /\ scenarios' \in Seq(Settings) /\ Len(scenarios') \in Nat
           /\ DOMAIN scenarios \subseteq DOMAIN scenarios'
           /\ \A i \in DOMAIN scenarios : scenarios'[i] = scenarios[i]
           /\ Seen = DOMAIN scenarios /\ Seen' = Seen
           /\ scenarioIds' # {} /\ scenarioIds' \subseteq DOMAIN scenarios'
           /\ \A i \in scenarioIds' : scenarios'[i] \in Variants(Explored(c))
           /\ \A v \in Variants(Explored(c)) : \E i \in scenarioIds' : scenarios'[i] = v
<1> DEFINE V == Variants(Explored(c))
           N == Len(scenarios)
           q == SetToSeq(V)
           m == Cardinality(V)
<1>1. /\ Current \in Nat /\ Current' = Current + 1
      /\ Len(tuningParameters) \in Nat /\ c \in 0..Len(tuningParameters)
  <2>1. searchStepCount \in Nat /\ tpEliminated \in 0..searchStepCount /\ Len(tuningParameters) \in Nat
    BY LenProperties DEF Shape
  <2>2. Current \in Nat /\ Current' = Current + 1
    BY <2>1 DEF Current, CreateScenarios
  <2> QED
    BY <2>1, <2>2
<1>2. scenarios' = scenarios \o q /\ scenarioIds' = scenarioIds \cup (N + 1..Len(scenarios'))
  BY <1>1 DEF CreateScenarios
<1>3. IsFiniteSet(V) /\ V # {} /\ V \subseteq Settings
  BY <1>1, ExploredSet, VariantsMade
<1>4. q \in Seq(V) /\ Len(q) = m /\ \A x \in V : \E i \in 1..m : q[i] = x
  <2> HIDE DEF V
  <2> QED
    BY <1>3, SetAsSeq
<1>5. m \in Nat \ {0}
  <2> HIDE DEF V
  <2> QED
    BY <1>3, FS_CardinalityType, FS_EmptySet
<1> HIDE DEF V, q, m
<1>6. q \in Seq(Settings)
  BY <1>3, <1>4, SeqMonotonic
<1>7. scenarios \in Seq(Settings) /\ N \in Nat /\ DOMAIN scenarios = 1..N
  BY LenProperties DEF Shape
<1> HIDE DEF N
<1>8. /\ scenarios' \in Seq(Settings) /\ Len(scenarios') = N + m /\ DOMAIN scenarios' = 1..N + m
      /\ \A i \in 1..N + m : scenarios'[i] = IF i <= N THEN scenarios[i] ELSE q[i - N]
  <2>1. /\ scenarios \o q \in Seq(Settings) /\ Len(scenarios \o q) = N + m
        /\ \A i \in 1..N + m : (scenarios \o q)[i] = IF i <= N THEN scenarios[i] ELSE q[i - N]
    BY <1>4, <1>6, <1>7, ConcatProperties DEF N
  <2>2. DOMAIN (scenarios \o q) = 1..N + m
    BY <2>1, LenProperties
  <2> QED
    BY <1>2, <2>1, <2>2
<1>9. scenarioIds = {}
  BY DEF Step, CreateScenarios
<1>10. scenarioIds' = N + 1..N + m
  BY <1>2, <1>8, <1>9
<1>11. Seen = 1..N /\ Seen' = 1..N
  BY <1>5, <1>7, <1>8, <1>9, <1>10 DEF Seen
<1>12. ASSUME NEW i \in N + 1..N + m PROVE scenarios'[i] \in V
  <2>1. i - N \in 1..m /\ i \in 1..N + m /\ ~(i <= N)
    BY <1>5, <1>7
  <2> QED
    BY <1>4, <1>8, <2>1, ElementOfSeq
<1>13. ASSUME NEW v \in V PROVE \E i \in N + 1..N + m : scenarios'[i] = v
  <2>1. PICK j \in 1..m : q[j] = v
    BY <1>4
  <2>2. PICK i \in N + 1..N + m : i \in 1..N + m /\ ~(i <= N) /\ i - N = j
    BY <1>5, <1>7
  <2>3. scenarios'[i] = v
    BY <1>8, <2>1, <2>2
  <2> QED
    BY <2>3
<1>14. N + 1 \in N + 1..N + m
  BY <1>5, <1>7
<1>15. DOMAIN scenarios \subseteq DOMAIN scenarios' /\ \A i \in DOMAIN scenarios : scenarios'[i] = scenarios[i]
  BY <1>5, <1>7, <1>8
<1>16. scenarioIds' # {} /\ scenarioIds' \subseteq DOMAIN scenarios'
  <2>1. N + 1..N + m \subseteq 1..N + m
    BY <1>5, <1>7
  <2>2. scenarioIds' # {}
    BY <1>10, <1>14
  <2> QED
    BY <1>8, <1>10, <2>1, <2>2
<1>17. Len(scenarios') \in Nat /\ Seen = DOMAIN scenarios /\ Seen' = Seen
  BY <1>5, <1>7, <1>8, <1>11
<1> QED
  BY <1>1, <1>8, <1>10, <1>12, <1>13, <1>15, <1>16, <1>17 DEF V

LEMMA CreateStep == SearchInv /\ CreateScenarios => SearchInv'
<1> SUFFICES ASSUME Shape, Step, Records, uses = 1 => Fresh, CreateScenarios
             PROVE  SearchInv'
  BY DEF SearchInv
<1> DEFINE n == Len(tuningParameters)
           c == IF Current + 1 < n THEN Current + 1 ELSE n
<1>1. /\ stage = "create" /\ path' = {} /\ optimum' = 0
      /\ UNCHANGED <<tuningParameters, restriction, tpEliminated, bestScenario, worstScenario, time, uses>>
      /\ searchStepCount' = searchStepCount + 1
      /\ stage' = IF Current' > n THEN "undefined" ELSE "measure"
  BY DEF CreateScenarios
<1>2. /\ Current \in Nat /\ Current' = Current + 1 /\ c \in 0..n
      /\ scenarios' \in Seq(Settings) /\ Len(scenarios') \in Nat
      /\ DOMAIN scenarios \subseteq DOMAIN scenarios'
      /\ \A i \in DOMAIN scenarios : scenarios'[i] = scenarios[i]
      /\ Seen = DOMAIN scenarios /\ Seen' = Seen
      /\ scenarioIds' # {} /\ scenarioIds' \subseteq DOMAIN scenarios'
      /\ \A i \in scenarioIds' : scenarios'[i] \in Variants(Explored(c))
      /\ \A v \in Variants(Explored(c)) : \E i \in scenarioIds' : scenarios'[i] = v
  BY ScenariosCreated
<1>3. n \in Nat /\ DOMAIN tuningParameters = 1..n /\ Explored(c) \subseteq Params /\ IsFiniteSet(Explored(c))
  BY <1>2, ExploredSet
<1>4. /\ \A v \in Variants(Explored(c)) : DOMAIN v = Explored(c) /\ \A p \in Explored(c) : v[p] \in TPValues(p)
      /\ \A p \in Explored(c) : \A x \in TPValues(p) : \E v \in Variants(Explored(c)) : v[p] = x
  BY <1>3, VariantsMade
<1>5. stage' = "measure" => Current' = c /\ c \in 1..n
  BY <1>1, <1>2, <1>3
<1> HIDE DEF n, c
<1>6. Shape'
  <2>1. searchStepCount' \in Nat /\ tpEliminated' \in 0..searchStepCount'
    BY <1>1 DEF Shape
  <2> QED
    BY <1>1, <1>2, <2>1 DEF Shape
<1>7. \A i \in scenarioIds' : DOMAIN scenarios'[i] = Explored(c)
  BY <1>2, <1>4
<1>8. stage' = "measure" => Explored(Current)' = Explored(c)
  BY <1>1, <1>5 DEF Explored
<1>9. Step'
  <2>1. stage' \in {"measure", "undefined"}
    BY <1>1
  <2>2. stage' = "measure" => Current' \in 1..Len(tuningParameters')
    BY <1>1, <1>5 DEF n
  <2> QED
    BY <1>2, <1>7, <1>8, <2>1, <2>2 DEF Step
<1>10. Records'
  <2>1. stage' # "evaluate" /\ stage # "evaluate"
    BY <1>1
  <2> QED
    BY <1>1, <1>2, <2>1 DEF Records
<1>11. ASSUME uses' = 1 PROVE Fresh'
  <2>1. Fresh /\ Current < n
    BY <1>1, <1>11 DEF Fresh, n
  <2>2. stage' = "measure" /\ Current' = c /\ c = Current + 1 /\ c \in 1..n
    BY <1>1, <1>2, <1>3, <1>5, <2>1 DEF c
  <2>3. Settled = Current /\ Settled' = Current
    BY <1>1, <1>2, <2>2 DEF Settled
  <2>4. \A i \in 1..n : restriction[tuningParameters[i]] # {} <=> i <= Current
    BY <1>3, <2>1, <2>3 DEF Fresh
  <2>5. ASSUME NEW p \in Explored(Current)
        PROVE  p \in Explored(c) /\ TPValues(p) = restriction[p]
    <3>1. PICK i \in 1..Current : p = tuningParameters[i]
      BY DEF Explored
    <3>2. i \in 1..c /\ i \in 1..n /\ i <= Current
      BY <1>2, <1>3, <2>2
    <3>3. p \in Explored(c) /\ restriction[p] # {}
      BY <2>4, <3>1, <3>2 DEF Explored
    <3> QED
      BY <1>3, <3>3, PossibleValues
  <2>6. Explored(Settled)' = Explored(Current)
    BY <1>1, <2>3 DEF Explored
  <2>7. \A i \in DOMAIN tuningParameters' : restriction'[tuningParameters'[i]] # {} <=> i <= Settled'
    BY <1>1, <1>3, <2>3, <2>4
  <2>8. ASSUME NEW p \in Params,
               \A i \in DOMAIN tuningParameters' : tuningParameters'[i] = p => i <= Settled'
        PROVE  Tried(p, DOMAIN scenarios)'
    <3>1. Tried(p, DOMAIN scenarios)
      BY <1>1, <2>1, <2>3, <2>8 DEF Fresh
    <3> QED
      BY <1>2, <3>1 DEF Tried
  <2>9. Tried(tuningParameters[Current], scenarioIds)'
    <3> DEFINE p == tuningParameters[c]
    <3>1. p \in Explored(c) /\ p \in Params
      BY <1>3, <2>2 DEF Explored
    <3>2. restriction[p] = {}
      BY <1>2, <2>2, <2>4
    <3>3. TPValues(p) = Values(p)
      BY <3>1, <3>2, PossibleValues
    <3>4. ASSUME NEW x \in Values(p)
          PROVE  \E i \in scenarioIds' : p \in DOMAIN scenarios'[i] /\ scenarios'[i][p] = x
      <4>1. PICK v \in Variants(Explored(c)) : v[p] = x
        BY <1>4, <3>1, <3>3
      <4>2. PICK i \in scenarioIds' : scenarios'[i] = v
        BY <1>2
      <4> QED
        BY <1>4, <3>1, <4>1, <4>2
    <3>5. tuningParameters'[Current'] = p
      BY <1>1, <2>2
    <3> HIDE DEF p
    <3> QED
      BY <3>4, <3>5 DEF Tried
  <2>10. ASSUME NEW i \in scenarioIds', NEW p \in Explored(Settled)'
         PROVE  scenarios'[i][p] \in restriction'[p]
    BY <1>1, <1>2, <1>4, <2>5, <2>6
  <2>11. ASSUME bestScenario' # 0
         PROVE  /\ DOMAIN scenarios'[bestScenario'] = Explored(Settled)'
                /\ \A p \in Explored(Settled)' : scenarios'[bestScenario'][p] \in restriction'[p]
    <3>1. bestScenario \in Seen
      BY <1>1, <2>11 DEF Records
    <3>2. scenarios'[bestScenario'] = scenarios[bestScenario]
      BY <1>1, <1>2, <3>1
    <3> QED
      BY <1>1, <2>1, <2>3, <2>6, <2>11, <3>2 DEF Fresh
  <2> QED
    BY <2>2, <2>7, <2>8, <2>9, <2>10, <2>11 DEF Fresh
<1> QED
  BY <1>6, <1>9, <1>10, <1>11 DEF SearchInv

LEMMA MeasureStep == SearchInv /\ Measure => SearchInv'
<1> SUFFICES ASSUME Shape, Step, Records, uses = 1 => Fresh, Measure
             PROVE  SearchInv'
  BY DEF SearchInv
<1>1. /\ stage = "measure" /\ stage' = "evaluate"
      /\ UNCHANGED <<tuningParameters, restriction, searchStepCount, tpEliminated>>
      /\ UNCHANGED <<bestScenario, worstScenario, path, optimum, scenarios, scenarioIds, uses>>
  BY DEF Measure, searchVars, resultVars
<1>2. UNCHANGED <<Seen, Current, Settled, Explored(Current), Explored(Settled)>>
  BY <1>1 DEF Seen, Current, Settled, Explored
<1>3. Shape' /\ Step'
  BY <1>1, <1>2 DEF Shape, Step
<1>4. time' \in [DOMAIN scenarios' -> Nat] /\ \A i \in Seen : time'[i] = time[i]
  <2>1. time \in [Seen -> Nat]
    BY <1>1 DEF Records
  <2>2. PICK m \in [scenarioIds -> Times] :
            time' = [i \in DOMAIN time \cup scenarioIds |-> IF i \in scenarioIds THEN m[i] ELSE time[i]]
    BY DEF Measure
  <2>3. Seen \cup scenarioIds = DOMAIN scenarios /\ Seen \cap scenarioIds = {}
    BY DEF Seen, Step
  <2>4. Times \subseteq Nat
    BY SearchAssumption
  <2> QED
    BY <1>1, <2>1, <2>2, <2>3, <2>4
<1>5. Records'
  <2>1. stage' = "evaluate" /\ stage # "evaluate"
    BY <1>1
  <2> QED
    BY <1>1, <1>2, <1>4, <2>1 DEF Records
<1>6. ASSUME uses' = 1 PROVE Fresh'
  <2>1. Fresh
    BY <1>1, <1>6
  <2> QED
    BY <1>1, <1>2, <2>1 DEF Fresh, Tried
<1> QED
  BY <1>3, <1>5, <1>6 DEF SearchInv

LEMMA ReuseStep == SearchInv /\ Reuse => SearchInv'
<1> SUFFICES ASSUME Shape, Step, Records, uses = 1 => Fresh, Reuse
             PROVE  SearchInv'
  BY DEF SearchInv
<1>1. /\ stage = "finished" /\ stage' = "create" /\ tuningParameters' = Space /\ uses' = uses + 1
      /\ UNCHANGED <<restriction, searchStepCount, tpEliminated, scenarios, scenarioIds, time>>
      /\ UNCHANGED <<bestScenario, worstScenario, path, optimum>>
  BY DEF Reuse, resultVars
<1>2. Shape'
  BY <1>1, SearchAssumption DEF Shape
<1>3. Step' /\ Records' /\ uses' # 1
  BY <1>1 DEF Step, Records, Shape, Seen
<1> QED
  BY <1>2, <1>3 DEF SearchInv

\* The results that are looked at begin with a best one of the step.
BestFirst(best) ==
    /\ 1 \in DOMAIN best
    /\ \A j \in DOMAIN best : best[j] \in scenarioIds
    /\ \A i \in scenarioIds : time[best[1]] <= time[i]

LEMMA ResultsSorted ==
    ASSUME Shape, Step, Records, SearchFinished
    PROVE  /\ \E best : BestFirst(best) /\ (Improve(best) \/ Eliminate(best))
           /\ time \in [DOMAIN scenarios -> Nat] /\ DOMAIN scenarios = 1..Len(scenarios)
           /\ Len(scenarios) \in Nat /\ IsFiniteSet(scenarioIds)
           /\ Seen' = DOMAIN scenarios /\ Seen \cup scenarioIds = DOMAIN scenarios
<1> DEFINE p == tuningParameters[Current]
           k == Kept(p)
           n == Cardinality(scenarioIds)
           m == IF k < n THEN k ELSE n
<1>1. stage = "evaluate" /\ scenarioIds' = {} /\ scenarios' = scenarios
  BY DEF SearchFinished
<1>2. DOMAIN scenarios = 1..Len(scenarios) /\ Len(scenarios) \in Nat
  BY LenProperties DEF Shape
<1>3. time \in [DOMAIN scenarios -> Nat] /\ Seen' = DOMAIN scenarios /\ Seen \cup scenarioIds = DOMAIN scenarios
  BY <1>1 DEF Records, Seen, Step
<1>4. IsFiniteSet(scenarioIds) /\ n \in Nat \ {0}
  <2>1. IsFiniteSet(1..Len(scenarios))
    BY <1>2, FS_Interval
  <2>2. scenarioIds \subseteq 1..Len(scenarios) /\ scenarioIds # {}
    BY <1>1, <1>2 DEF Step
  <2>3. IsFiniteSet(scenarioIds)
    BY <2>1, <2>2, FS_Subset
  <2> QED
    BY <2>2, <2>3, FS_CardinalityType, FS_EmptySet
<1>5. p \in Params
  BY <1>1, ElementOfSeq DEF Shape, Step
<1>6. k \in Nat \ {0}
  BY <1>5, RangeSizes, SearchAssumption DEF Kept
<1>7. PICK best \in SortedPrefixes(scenarioIds, m) : Improve(best) \/ Eliminate(best)
  BY DEF SearchFinished
<1> HIDE DEF p, k, n
<1>8. m \in Nat \ {0}
  BY <1>4, <1>6
<1> HIDE DEF m
<1>9. \A i \in scenarioIds : time[i] \in Nat
  BY <1>3
<1>10. BestFirst(best)
  BY <1>8, <1>9, PrefixBest DEF BestFirst
<1> QED
  BY <1>2, <1>3, <1>4, <1>7, <1>10

LEMMA FinishedRecords ==
    ASSUME Shape, Step, Records, SearchFinished
    PROVE  Records'
<1>1. /\ stage = "evaluate" /\ stage' # "evaluate" /\ UNCHANGED <<scenarios, time>>
      /\ path' = scenarioIds /\ optimum' = Optimum(scenarioIds)
  BY DEF SearchFinished
<1>2. /\ time \in [DOMAIN scenarios -> Nat] /\ DOMAIN scenarios = 1..Len(scenarios)
      /\ Seen' = DOMAIN scenarios /\ Seen \cup scenarioIds = DOMAIN scenarios
  BY ResultsSorted
<1>3. PICK best : BestFirst(best) /\ (Improve(best) \/ Eliminate(best))
  BY ResultsSorted
<1>4. scenarioIds # {}
  BY <1>1 DEF Step
<1>5. bestScenario' \in Seen' /\ \A i \in Seen' : time[bestScenario'] <= time[i]
  <2>1. best[1] \in scenarioIds /\ \A i \in scenarioIds : time[best[1]] <= time[i]
    BY <1>3 DEF BestFirst
  <2>2. \/ bestScenario' = best[1] /\ (bestScenario # 0 => time[best[1]] < time[bestScenario])
        \/ bestScenario' = bestScenario /\ bestScenario # 0 /\ time[best[1]] >= time[bestScenario]
    BY <1>3 DEF Improve, Eliminate
  <2>3. bestScenario # 0 => bestScenario \in Seen /\ \A i \in Seen : time[bestScenario] <= time[i]
    BY DEF Records
  <2>4. bestScenario = 0 => Seen = {}
    BY <1>2 DEF Records
  <2>5. bestScenario' \in Seen'
    BY <1>2, <2>1, <2>2, <2>3
  <2>6. ASSUME NEW i \in Seen' PROVE time[bestScenario'] <= time[i]
    <3>1. i \in Seen \/ i \in scenarioIds
      BY <1>2
    <3>2. time[i] \in Nat /\ time[best[1]] \in Nat /\ (bestScenario # 0 => time[bestScenario] \in Nat)
      BY <1>2, <2>1, <2>3
    <3> QED
      BY <2>1, <2>2, <2>3, <2>4, <3>1, <3>2
  <2> QED
    BY <2>5, <2>6
<1>6. worstScenario' \in Seen' /\ \A i \in Seen' : time[i] <= time[worstScenario']
  <2>1. PICK w \in Backs(scenarioIds) :
            worstScenario' = IF worstScenario = 0 \/ time[w] > time[worstScenario] THEN w ELSE worstScenario
    BY DEF SearchFinished
  <2>2. w \in scenarioIds /\ \A i \in scenarioIds : time[i] <= time[w]
    BY <2>1 DEF Backs
  <2>3. worstScenario # 0 => worstScenario \in Seen /\ \A i \in Seen : time[i] <= time[worstScenario]
    BY DEF Records
  <2>4. worstScenario = 0 => Seen = {}
    BY <1>2 DEF Records
  <2>5. worstScenario' \in Seen'
    BY <1>2, <2>1, <2>2, <2>3
  <2>6. ASSUME NEW i \in Seen' PROVE time[i] <= time[worstScenario']
    <3>1. i \in Seen \/ i \in scenarioIds
      BY <1>2
    <3>2. time[i] \in Nat /\ time[w] \in Nat /\ (worstScenario # 0 => time[worstScenario] \in Nat)
      BY <1>2, <2>2, <2>3
    <3> QED
      BY <2>1, <2>2, <2>3, <2>4, <3>1, <3>2
  <2> QED
    BY <2>5, <2>6
<1>7. optimum' \in path' /\ \A i \in path' : time[optimum'] <= time[i]
  <2>1. scenarioIds \subseteq Nat /\ \A i \in scenarioIds : time[i] \in Nat
    BY <1>2
  <2> QED
    BY <1>1, <1>4, <2>1, OptimumLeast
<1> QED
  BY <1>1, <1>2, <1>4, <1>5, <1>6, <1>7 DEF Records

\* Parameters and restrictions when the parameter is kept, and when it is eliminated.
LEMMA Improving ==
    ASSUME Shape, Step, stage = "evaluate", NEW best, BestFirst(best), Improve(best)
    PROVE  /\ UNCHANGED <<tuningParameters, tpEliminated>>
           /\ bestScenario' = best[1] /\ best[1] \in scenarioIds
           /\ restriction' \in [Params -> SUBSET Int]
           /\ \A p \in Params : restriction'[p] \subseteq Values(p)
           /\ \A p \in Params : p # tuningParameters[Current] => restriction'[p] = restriction[p]
           /\ scenarios[best[1]][tuningParameters[Current]] \in restriction'[tuningParameters[Current]]
<1> DEFINE p == tuningParameters[Current]
<1>1. p \in Params /\ p \in Explored(Current)
  <2>1. Current \in 1..Len(tuningParameters) /\ Len(tuningParameters) \in Nat
    BY LenProperties DEF Shape, Step
  <2> QED
    BY <2>1, ElementOfSeq DEF Shape, Explored
<1>2. /\ UNCHANGED <<tuningParameters, tpEliminated>> /\ bestScenario' = best[1]
      /\ restriction' = [restriction EXCEPT ![p] = Elements(p, best)]
  BY DEF Improve
<1>3. 1 \in DOMAIN best /\ best[1] \in scenarioIds
  BY DEF BestFirst
<1>4. ASSUME NEW j \in DOMAIN best PROVE scenarios[best[j]][p] \in Values(p)
  <2>1. best[j] \in scenarioIds
    BY DEF BestFirst
  <2>2. p \in DOMAIN scenarios[best[j]]
    BY <1>1, <2>1 DEF Step
  <2>3. scenarios[best[j]] \in Settings
    BY <2>1, ElementOfSeq, LenProperties DEF Shape, Step
  <2> QED
    BY <2>2, <2>3 DEF Settings
<1>5. Elements(p, best) \subseteq Values(p) /\ scenarios[best[1]][p] \in Elements(p, best)
  BY <1>3, <1>4 DEF Elements
<1>6. Elements(p, best) \in SUBSET Int
  BY <1>1, <1>5, ValuesFinite
<1> HIDE DEF p
<1>7. /\ restriction' \in [Params -> SUBSET Int]
      /\ \A q \in Params : restriction'[q] = IF q = p THEN Elements(p, best) ELSE restriction[q]
  BY <1>1, <1>2, <1>6 DEF Shape
<1>8. \A q \in Params : restriction'[q] \subseteq Values(q)
  BY <1>5, <1>7 DEF Shape
<1> QED
  BY <1>1, <1>2, <1>3, <1>5, <1>7, <1>8 DEF p

LEMMA FinishedShape ==
    ASSUME Shape, Step, Records, SearchFinished
    PROVE  Shape' /\ Step'
<1>1. /\ stage = "evaluate" /\ stage' \in {"undefined", "finished", "create"}
      /\ UNCHANGED <<searchStepCount, scenarios, uses>> /\ scenarioIds' = {}
  BY DEF SearchFinished
<1>2. PICK best : BestFirst(best) /\ (Improve(best) \/ Eliminate(best))
  BY ResultsSorted
<1>3. Current \in 1..Len(tuningParameters) /\ Len(tuningParameters) \in Nat
  BY <1>1, LenProperties DEF Shape, Step
<1>4. /\ tuningParameters' \in Seq(Params) /\ IsInjective(tuningParameters')
      /\ restriction' \in [Params -> SUBSET Int]
      /\ \A p \in Params : restriction'[p] \subseteq Values(p)
      /\ tpEliminated' \in 0..searchStepCount
  <2>1. CASE Improve(best)
    BY <1>1, <1>2, <2>1, Improving DEF Shape
  <2>2. CASE Eliminate(best)
    <3>1. /\ tuningParameters' = RemoveAt(tuningParameters, Current)
          /\ tpEliminated' = tpEliminated + 1 /\ restriction' = restriction
      BY <2>2 DEF Eliminate
    <3>2. tuningParameters' \in Seq(Params) /\ IsInjective(tuningParameters')
      BY <1>3, <3>1, Eliminated
    <3>3. tpEliminated' \in 0..searchStepCount
      BY <1>3, <3>1 DEF Shape, Current
    <3> QED
      BY <3>1, <3>2, <3>3 DEF Shape
  <2> QED
    BY <1>2, <2>1, <2>2
<1>5. Shape'
  BY <1>1, <1>4 DEF Shape
<1>6. Step'
  BY <1>1 DEF Step
<1> QED
  BY <1>5, <1>6

\* A new search has enough results to look at.
LEMMA NotUndefined ==
    ASSUME Shape, Step, Records, Fresh, SearchFinished
    PROVE  stage' = IF Current' = Len(tuningParameters') THEN "finished" ELSE "create"
<1> DEFINE p == tuningParameters[Current]
           n == Cardinality(scenarioIds)
<1>1. stage = "evaluate"
  BY DEF SearchFinished
<1>2. p \in Params
  BY <1>1, ElementOfSeq DEF Shape, Step
<1>3. IsFiniteSet(scenarioIds) /\ n \in Nat
  BY ResultsSorted, FS_CardinalityType
<1>4. Tried(p, scenarioIds)
  BY <1>1 DEF Fresh
<1>5. RangeSize(p) <= n
  BY <1>2, <1>3, <1>4, EnoughScenarios
<1>6. Kept(p) <= RangeSize(p) /\ RangeSize(p) \in Nat /\ Kept(p) \in Nat
  BY <1>2, RangeSizes, SearchAssumption DEF Kept
<1>7. stage' = IF Kept(p) > n THEN "undefined"
               ELSE IF Current' = Len(tuningParameters') THEN "finished" ELSE "create"
  BY DEF SearchFinished
<1> HIDE DEF p, n
<1>8. ~(Kept(p) > n)
  BY <1>3, <1>5, <1>6
<1> QED
  BY <1>7, <1>8

LEMMA FinishedFresh ==
    ASSUME Shape, Step, Records, Fresh, SearchFinished
    PROVE  Fresh'
<1> DEFINE c == Current
           n == Len(tuningParameters)
           t == tuningParameters
<1>1. /\ stage = "evaluate" /\ UNCHANGED <<searchStepCount, scenarios, time>>
      /\ scenarioIds \subseteq DOMAIN scenarios
  BY DEF SearchFinished, Step
<1>2. stage' = IF Current' = Len(tuningParameters') THEN "finished" ELSE "create"
  BY NotUndefined
<1>3. PICK best : BestFirst(best) /\ (Improve(best) \/ Eliminate(best))
  BY ResultsSorted
<1>4. /\ n \in Nat /\ c \in 1..n /\ DOMAIN t = 1..n /\ Settled = c - 1
      /\ \A i \in 1..n : t[i] \in Params
      /\ \A i, j \in 1..n : t[i] = t[j] => i = j
  BY <1>1, LenProperties, ElementOfSeq DEF Shape, Step, Settled, IsInjective
<1>5. \A i \in 1..n : restriction[t[i]] # {} <=> i <= c - 1
  BY <1>4 DEF Fresh
<1>6. Tried(t[c], DOMAIN scenarios)
  <2>1. Tried(t[c], scenarioIds)
    BY <1>1 DEF Fresh
  <2> QED
    BY <1>1, <2>1 DEF Tried
<1>7. \A p \in Params : (\A i \in 1..n : t[i] = p => i <= c - 1) => Tried(p, DOMAIN scenarios)
  BY <1>4 DEF Fresh
<1>8. stage' \notin {"measure", "evaluate"} /\ Settled' = Current'
  BY <1>2 DEF Settled
<1>9. searchStepCount \in Nat /\ tpEliminated \in Nat /\ c = searchStepCount - tpEliminated
  BY DEF Shape, Current
<1> HIDE DEF c, n, t
<1>10. CASE Improve(best)
  <2>1. /\ UNCHANGED <<tuningParameters, tpEliminated>>
        /\ bestScenario' = best[1] /\ best[1] \in scenarioIds
        /\ restriction' \in [Params -> SUBSET Int]
        /\ \A p \in Params : p # t[c] => restriction'[p] = restriction[p]
        /\ scenarios[best[1]][t[c]] \in restriction'[t[c]]
    BY <1>1, <1>3, <1>10, Improving DEF c, t
  <2>2. Current' = c /\ Settled' = c /\ tuningParameters' = t /\ Len(tuningParameters') = n
    BY <1>1, <1>8, <2>1 DEF c, t, n, Current
  <2>3. \A i \in 1..n : restriction'[t[i]] # {} <=> i <= c
    <3> TAKE i \in 1..n
    <3>1. CASE i = c
      BY <1>4, <2>1, <3>1
    <3>2. CASE i # c
      BY <1>4, <1>5, <2>1, <3>2
    <3> QED
      BY <3>1, <3>2
  <2>4. ASSUME NEW p \in Params, \A i \in 1..n : t[i] = p => i <= c
        PROVE  Tried(p, DOMAIN scenarios)
    <3>1. CASE p = t[c]
      BY <1>6, <3>1
    <3>2. CASE p # t[c]
      <4>1. \A i \in 1..n : t[i] = p => i <= c - 1
        BY <1>4, <2>4, <3>2
      <4> QED
        BY <1>7, <4>1
    <3> QED
      BY <3>1, <3>2
  <2>5. DOMAIN scenarios[best[1]] = Explored(c)
    BY <1>1, <2>1 DEF Step, c
  <2>6. ASSUME NEW p \in Explored(c) PROVE scenarios[best[1]][p] \in restriction'[p]
    <3>1. PICK i \in 1..c : p = t[i]
      BY DEF Explored, t
    <3>2. CASE i = c
      BY <2>1, <3>1, <3>2
    <3>3. CASE i # c
      <4>1. i \in 1..n /\ i \in 1..c - 1 /\ p \in Params /\ p # t[c]
        BY <1>4, <3>1, <3>3
      <4>2. p \in Explored(Settled)
        BY <1>4, <3>1, <4>1 DEF Explored, t
      <4>3. scenarios[best[1]][p] \in restriction[p]
        BY <1>1, <2>1, <4>2 DEF Fresh
      <4> QED
        BY <2>1, <4>1, <4>3
    <3> QED
      BY <3>2, <3>3
  <2>7. Explored(Settled)' = Explored(c)
    BY <2>2 DEF Explored, t
  <2>8. stage' = "create" => Current' < Len(tuningParameters')
    BY <1>2, <1>4, <2>2
  <2>9. \A p \in Params : (\A i \in DOMAIN tuningParameters' : tuningParameters'[i] = p => i <= Settled')
                            => Tried(p, DOMAIN scenarios)'
    BY <1>1, <1>4, <2>2, <2>4 DEF Tried
  <2> QED
    BY <1>1, <1>2, <1>4, <1>8, <2>1, <2>2, <2>3, <2>5, <2>6, <2>7, <2>8, <2>9 DEF Fresh
<1>11. CASE Eliminate(best)
  <2>1. /\ tuningParameters' = RemoveAt(t, c) /\ tpEliminated' = tpEliminated + 1
        /\ UNCHANGED <<bestScenario, restriction>> /\ bestScenario # 0
    BY <1>11 DEF Eliminate, t, c
  <2>2. Current' = c - 1 /\ Settled' = c - 1
    BY <1>1, <1>8, <1>9, <2>1 DEF Current
  <2>3. /\ Len(tuningParameters') = n - 1 /\ DOMAIN tuningParameters' = 1..n - 1
        /\ \A i \in 1..n - 1 : tuningParameters'[i] = IF i < c THEN t[i] ELSE t[i + 1]
    BY <1>4, <2>1, Eliminated DEF n, t
  <2>4. \A i \in 1..n - 1 : restriction[tuningParameters'[i]] # {} <=> i <= c - 1
    <3> TAKE i \in 1..n - 1
    <3>1. i \in 1..n /\ i + 1 \in 1..n
      BY <1>4
    <3>2. CASE i < c
      BY <1>4, <1>5, <2>3, <3>1, <3>2
    <3>3. CASE ~(i < c)
      BY <1>4, <1>5, <2>3, <3>1, <3>3
    <3> QED
      BY <3>2, <3>3
  <2>5. ASSUME NEW p \in Params, \A i \in 1..n - 1 : tuningParameters'[i] = p => i <= c - 1
        PROVE  Tried(p, DOMAIN scenarios)
    <3>1. CASE p = t[c]
      BY <1>6, <3>1
    <3>2. CASE p # t[c]
      <4>1. ASSUME NEW i \in 1..n, t[i] = p PROVE i <= c - 1
        <5>1. i # c
          BY <3>2, <4>1
        <5>2. CASE i > c
          <6>1. PICK j \in 1..n - 1 : i = j + 1
            BY <1>4, <5>2
          <6>2. tuningParameters'[j] = p /\ ~(j <= c - 1)
            BY <1>4, <2>3, <4>1, <5>2, <6>1
          <6> QED
            BY <2>5, <6>2
        <5> QED
          BY <1>4, <5>1, <5>2
      <4> QED
        BY <1>7, <4>1
    <3> QED
      BY <3>1, <3>2
  <2>6. Explored(Settled)' = Explored(Settled)
    <3>1. \A i \in 1..c - 1 : tuningParameters'[i] = t[i]
      BY <1>4, <2>3
    <3> QED
      BY <1>4, <2>2, <3>1 DEF Explored, t
  <2>7. stage' = "create" => Current' < Len(tuningParameters')
    BY <1>2, <1>4, <2>2, <2>3
  <2>8. \A p \in Params : (\A i \in DOMAIN tuningParameters' : tuningParameters'[i] = p => i <= Settled')
                            => Tried(p, DOMAIN scenarios)'
    BY <1>1, <2>2, <2>3, <2>5 DEF Tried
  <2>9. /\ DOMAIN scenarios'[bestScenario'] = Explored(Settled)'
        /\ \A p \in Explored(Settled)' : scenarios'[bestScenario'][p] \in restriction'[p]
    BY <1>1, <2>1, <2>6 DEF Fresh
  <2> QED
    BY <1>2, <1>8, <2>1, <2>2, <2>3, <2>4, <2>7, <2>8, <2>9 DEF Fresh
<1> QED
  BY <1>3, <1>10, <1>11

LEMMA FinishedStep == SearchInv /\ SearchFinished => SearchInv'
<1> SUFFICES ASSUME Shape, Step, Records, uses = 1 => Fresh, SearchFinished
             PROVE  SearchInv'
  BY DEF SearchInv
<1>1. uses' = uses
  BY DEF SearchFinished
<1> QED
  BY <1>1, FinishedShape, FinishedRecords, FinishedFresh DEF SearchInv

LEMMA SearchSteps == SearchInv /\ [Next]_vars => SearchInv'
<1> SUFFICES ASSUME SearchInv, UNCHANGED vars PROVE SearchInv'
  BY CreateStep, MeasureStep, FinishedStep, ReuseStep DEF Next
<1>1. /\ UNCHANGED <<tuningParameters, restriction, searchStepCount, tpEliminated>>
      /\ UNCHANGED <<bestScenario, worstScenario, path, optimum>>
      /\ UNCHANGED <<scenarios, scenarioIds, time, stage, uses>>
  BY DEF vars, searchVars, resultVars
<1>2. UNCHANGED <<Seen, Current, Settled, Explored(Current), Explored(Settled)>>
  BY <1>1 DEF Seen, Current, Settled, Explored
<1>3. Shape' /\ Step' /\ Records'
  BY <1>1, <1>2 DEF SearchInv, Shape, Step, Records
<1>4. uses' = 1 => Fresh'
  BY <1>1, <1>2 DEF SearchInv, Fresh, Tried
<1> QED
  BY <1>3, <1>4 DEF SearchInv

LEMMA SearchInvariant == Spec => []SearchInv
  BY SearchStarts, SearchSteps, PTL DEF Spec

-----------------------------------------------------------------------------
(* What the search promises.                                               *)

\* The types, and that searchFinished and createScenarios read neither results nor
\* parameters beyond their end in a new search, however many results are to be kept: a
\* step has at least as many scenarios as its parameter has values, and the search is
\* finished when no parameter is left.
THEOREM SearchTypeCorrect == Spec => []TypeOK
<1>1. SearchInv => TypeOK
  <2> SUFFICES ASSUME Shape, Step, Records, uses = 1 => Fresh PROVE TypeOK
    BY DEF SearchInv
  <2>1. Range(tuningParameters) \subseteq Params
    BY RangeOfSeq DEF Shape
  <2>2. \A p \in Params : restriction[p] \subseteq Ranges[p].from..Ranges[p].to
    BY ValuesFinite DEF Shape
  <2>3. DOMAIN scenarios = 1..Len(scenarios) /\ Len(scenarios) \in Nat /\ Seen \subseteq DOMAIN scenarios
    BY LenProperties DEF Shape, Seen
  <2>4. {bestScenario, worstScenario, optimum} \subseteq 0..Len(scenarios)
    BY <2>3 DEF Records
  <2>5. DOMAIN time \cup scenarioIds \cup path \subseteq 1..Len(scenarios)
    BY <2>3 DEF Records, Step
  <2> QED
    BY <2>1, <2>2, <2>4, <2>5 DEF TypeOK, Shape, Fresh
<1> QED
  BY <1>1, SearchInvariant, PTL

\* getOptimum and getWorst name a best and a worst of all the scenarios measured since
\* initialize, in any step and any use of the object, and the optimum that exhaustive
\* search reports is a best one of the last step.
THEOREM OptimumIsRight == Spec => []OptimumIsBest
<1>1. SearchInv => OptimumIsBest
  <2> SUFFICES ASSUME Records, stage \in {"create", "finished"}, bestScenario # 0
               PROVE  /\ \A i \in DOMAIN time : time[bestScenario] <= time[i] /\ time[i] <= time[worstScenario]
                      /\ path # {} => optimum \in path /\ \A i \in path : time[optimum] <= time[i]
    BY DEF SearchInv, OptimumIsBest
  <2>1. DOMAIN time = Seen
    BY DEF Records
  <2> QED
    BY <2>1 DEF Records
<1> QED
  BY <1>1, SearchInvariant, PTL

\* When a new search is finished, every value in the range of every parameter was in a
\* scenario, that of an eliminated parameter too, whatever was measured: no erase from the
\* list of the parameters makes searchFinished skip the next one.
THEOREM AllValuesTried == Spec => []EveryValueTried
<1>1. SearchInv => EveryValueTried
  <2> SUFFICES ASSUME SearchInv, stage = "finished", uses = 1, NEW p \in Params, NEW k \in 1..RangeSize(p)
               PROVE  \E i \in DOMAIN scenarios :
                          /\ p \in DOMAIN scenarios[i]
                          /\ scenarios[i][p] = Ranges[p].from + (k - 1) * Ranges[p].step
    BY DEF EveryValueTried
  <2>1. Fresh /\ Current = Len(tuningParameters) /\ Settled = Len(tuningParameters)
    BY DEF SearchInv, Fresh, Settled
  <2>2. DOMAIN tuningParameters = 1..Len(tuningParameters)
    BY LenProperties DEF SearchInv, Shape
  <2>3. Tried(p, DOMAIN scenarios)
    BY <2>1, <2>2 DEF Fresh
  <2> QED
    BY <2>3 DEF Tried, Values
<1> QED
  BY <1>1, SearchInvariant, PTL

\* Between two steps the best scenario sets exactly the parameters that were kept so far,
\* to values that the restrictions set in searchFinished leave for the steps to come: the
\* search never restricts itself to settings without the best one.
THEOREM BestStaysPossible == Spec => []BestIsKept
<1>1. SearchInv => BestIsKept
  <2> SUFFICES ASSUME Fresh, stage \in {"create", "finished"}, bestScenario # 0
               PROVE  /\ DOMAIN scenarios[bestScenario] = Explored(Current)
                      /\ \A p \in Explored(Current) : scenarios[bestScenario][p] \in restriction[p]
    BY DEF SearchInv, BestIsKept
  <2>1. Settled = Current
    BY DEF Settled
  <2> QED
    BY <2>1 DEF Fresh
<1> QED
  BY <1>1, SearchInvariant, PTL
=============================================================================
