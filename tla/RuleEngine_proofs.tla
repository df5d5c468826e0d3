------------------------- MODULE RuleEngine_proofs --------------------------
(***************************************************************************)
(* What the operators of RuleEngine return for any input: lists in order,   *)
(* sums, splits and bands.                                                  *)
(***************************************************************************)
EXTENDS RuleEngine, FiniteSetTheorems, WellFoundedInduction, TLAPS

(***************************************************************************)
(* Least elements, in the place of inductions.                              *)
(***************************************************************************)

\* Every set of naturals that is not empty has a least element.
LEMMA Least ==
    ASSUME NEW S \in SUBSET Nat, S # {}
    PROVE  Min(S) \in S /\ \A k \in S : Min(S) <= k
<1> DEFINE R == OpToRel(<, Nat)
<1>1. IsWellFoundedOn(R, Nat)
  BY NatLessThanWellFounded
<1>2. R = {ss \in Nat \X Nat : ss[1] < ss[2]}
  BY DEF OpToRel
<1> HIDE DEF R
<1>3. PICK m \in S : \A k \in S : <<k, m>> \notin R
  BY <1>1, WFMin
<1>4. \A k \in S : ~(k < m)
  BY <1>2, <1>3
<1>5. \A k \in S : m <= k
  BY <1>4
<1>6. QED
  BY <1>5 DEF Min

\* A bounded one has a greatest.
LEMMA Greatest ==
    ASSUME NEW S \in SUBSET Nat, S # {}, NEW n \in Nat, \A k \in S : k <= n
    PROVE  Max(S) \in S /\ \A k \in S : k <= Max(S)
<1> DEFINE T == {n - k : k \in S}
<1>1. T \in SUBSET Nat /\ T # {}
  <2>1. \A k \in S : n - k \in Nat
    OBVIOUS
  <2>2. QED
    BY <2>1
<1>2. Min(T) \in T /\ \A k \in T : Min(T) <= k
  <2> HIDE DEF T
  <2> QED
    BY <1>1, Least
<1>3. PICK m \in S : Min(T) = n - m
  BY <1>2
<1>4. ASSUME NEW k \in S PROVE k <= m
  <2>1. n - m <= n - k
    BY <1>2, <1>3
  <2>2. QED
    BY <2>1
<1>5. QED
  BY <1>4 DEF Max

\* Of subsets of a finite set, one has no smaller one beside it by a single element.
LEMMA Smallest ==
    ASSUME NEW S, IsFiniteSet(S), NEW C \in SUBSET (SUBSET S), C # {}
    PROVE  \E t \in C : \A x \in t : t \ {x} \notin C
<1> DEFINE K == {Cardinality(t) : t \in C}
<1>1. \A t \in C : IsFiniteSet(t) /\ Cardinality(t) \in Nat
  BY FS_Subset, FS_CardinalityType
<1>2. K \in SUBSET Nat /\ K # {}
  BY <1>1
<1>3. Min(K) \in K /\ \A k \in K : Min(K) <= k
  <2> HIDE DEF K
  <2> QED
    BY <1>2, Least
<1>4. PICK t \in C : Cardinality(t) = Min(K)
  BY <1>3
<1>5. \A u \in C : Cardinality(t) <= Cardinality(u)
  BY <1>3, <1>4
<1>6. \A x \in t : Cardinality(t \ {x}) = Cardinality(t) - 1
  BY <1>1, FS_RemoveElement
<1>7. QED
  BY <1>1, <1>5, <1>6

(***************************************************************************)
(* Lists in order.                                                          *)
(***************************************************************************)

\* Nth enumerates a set of numbers.
LEMMA NthOf ==
    ASSUME NEW S \in SUBSET Nat, IsFiniteSet(S)
    PROVE  /\ Cardinality(S) \in Nat
           /\ \A k \in 1..Cardinality(S) : Nth(S, k) \in S
           /\ \A k, l \in 1..Cardinality(S) : Nth(S, k) = Nth(S, l) => k = l
           /\ \A r \in S : \E k \in 1..Cardinality(S) : Nth(S, k) = r
<1> DEFINE n == Cardinality(S)
           Below(r) == {q \in S : q < r}
           rank == [r \in S |-> Cardinality(Below(r))]
<1>1. n \in Nat
  BY FS_CardinalityType
<1>2. ASSUME NEW r \in S
      PROVE  IsFiniteSet(Below(r)) /\ rank[r] \in 0..(n - 1)
  <2>1. IsFiniteSet(S \ {r}) /\ Cardinality(S \ {r}) = n - 1
    BY FS_RemoveElement
  <2>2. Below(r) \in SUBSET (S \ {r})
    OBVIOUS
  <2>3. IsFiniteSet(Below(r)) /\ Cardinality(Below(r)) <= n - 1
    BY <2>1, <2>2, FS_Subset
  <2>4. Cardinality(Below(r)) \in Nat
    BY <2>3, FS_CardinalityType
  <2>5. QED
    BY <1>1, <2>3, <2>4
<1>3. ASSUME NEW r \in S, NEW s \in S, r < s
      PROVE  rank[r] < rank[s]
  <2>1. Cardinality(Below(r) \cup {r}) = rank[r] + 1
    BY <1>2, FS_AddElement
  <2>2. \A q \in Below(r) \cup {r} : q \in S /\ q <= r
    OBVIOUS
  <2>3. \A q \in Below(r) \cup {r} : q \in Below(s)
    <3>1. \A q \in S : q \in Nat
      OBVIOUS
    <3>2. \A q \in S : q <= r => q < s
      BY <1>3, <3>1
    <3>3. QED
      BY <2>2, <3>2
  <2>4. Cardinality(Below(r) \cup {r}) <= Cardinality(Below(s))
    BY <1>2, <2>3, FS_Subset
  <2>5. QED
    BY <1>2, <2>1, <2>4
<1> HIDE DEF Below
<1>4. rank \in Injection(S, 0..(n - 1))
  <2>1. rank \in [S -> 0..(n - 1)]
    BY <1>2
  <2>2. ASSUME NEW r \in S, NEW s \in S, rank[r] = rank[s] PROVE r = s
    <3>1. rank[r] \in Int /\ rank[s] \in Int
      BY <2>1
    <3>2. rank[r] < rank[s] \/ rank[s] < rank[r] \/ r = s
      BY <1>3
    <3> HIDE DEF rank, n
    <3>3. QED
      BY <2>2, <3>1, <3>2
  <2> HIDE DEF rank
  <2>3. QED
    BY <2>1, <2>2 DEF Injection, IsInjective
<1>5. IsFiniteSet(0..(n - 1)) /\ Cardinality(0..(n - 1)) = n
  <2>1. n - 1 \in Int /\ (IF 0 > n - 1 THEN 0 ELSE n - 1 - 0 + 1) = n
    BY <1>1
  <2> HIDE DEF n
  <2>2. QED
    BY <2>1, FS_Interval
<1>6. rank \in Surjection(S, 0..(n - 1))
  <2> HIDE DEF rank
  <2> QED
    BY <1>4, <1>5, FS_Injection
<1>7. \A k \in 1..n : \E r \in S : rank[r] = k - 1
  <2> HIDE DEF rank
  <2> QED
    BY <1>1, <1>6 DEF Surjection
<1>8. ASSUME NEW k \in 1..n
      PROVE  Nth(S, k) \in S /\ rank[Nth(S, k)] = k - 1
  BY <1>7 DEF Nth, Below
<1>9. ASSUME NEW r \in S PROVE \E k \in 1..n : Nth(S, k) = r
  <2>1. rank[r] + 1 \in 1..n
    BY <1>1, <1>2
  <2>2. Nth(S, rank[r] + 1) \in S /\ rank[Nth(S, rank[r] + 1)] = rank[r]
    <3>1. rank[r] \in Int
      BY <1>2
    <3> HIDE DEF rank, n
    <3>2. QED
      BY <1>8, <2>1, <3>1
  <2> HIDE DEF rank
  <2>3. Nth(S, rank[r] + 1) = r
    BY <1>4, <2>2 DEF Injection, IsInjective
  <2>4. QED
    BY <2>1, <2>3
<1>10. ASSUME NEW k \in 1..n, NEW l \in 1..n, Nth(S, k) = Nth(S, l) PROVE k = l
  <2> HIDE DEF rank
  <2> QED
    BY <1>1, <1>8, <1>10
<1>11. QED
  BY <1>1, <1>8, <1>9, <1>10

\* InOrder lists every value of f at a number of S, one place for each number.
LEMMA InOrderOf ==
    ASSUME NEW S \in SUBSET Nat, IsFiniteSet(S), NEW f
    PROVE  /\ InOrder(f, S) \in Seq({f[r] : r \in S})
           /\ DOMAIN InOrder(f, S) = 1..Len(InOrder(f, S))
           /\ \A k \in DOMAIN InOrder(f, S) : Nth(S, k) \in S /\ InOrder(f, S)[k] = f[Nth(S, k)]
           /\ \A k, l \in DOMAIN InOrder(f, S) : Nth(S, k) = Nth(S, l) => k = l
           /\ \A r \in S : \E k \in DOMAIN InOrder(f, S) : Nth(S, k) = r
           /\ InOrder(f, S) = <<>> <=> S = {}
<1>1. Cardinality(S) \in Nat /\ \A k \in 1..Cardinality(S) : Nth(S, k) \in S
  BY NthOf
<1>2. /\ InOrder(f, S) \in [1..Cardinality(S) -> {f[r] : r \in S}]
      /\ \A k \in 1..Cardinality(S) : InOrder(f, S)[k] = f[Nth(S, k)]
  BY <1>1 DEF InOrder
<1>3. InOrder(f, S) \in Seq({f[r] : r \in S}) /\ Len(InOrder(f, S)) = Cardinality(S)
  BY <1>1, <1>2
<1>4. DOMAIN InOrder(f, S) = 1..Cardinality(S)
  BY <1>2
<1>5. \A r \in S : \E k \in DOMAIN InOrder(f, S) : Nth(S, k) = r
  BY <1>4, NthOf
<1>6. InOrder(f, S) = <<>> <=> S = {}
  <2>1. S = {} <=> Cardinality(S) = 0
    BY FS_EmptySet
  <2>2. QED
    BY <1>1, <1>3, <2>1
<1>7. QED
  BY <1>1, <1>2, <1>3, <1>4, <1>5, <1>6, NthOf

(***************************************************************************)
(* Sums.                                                                    *)
(***************************************************************************)

\* The recursion behind SumFunctionOnSet, on the subsets in D.
One(s) == CHOOSE x \in s : TRUE
Adds(g, f, D) == g = [s \in D |-> IF s = {} THEN 0 ELSE f[One(s)] + g[s \ {One(s)}]]
Sums(g, f, S) == Adds(g, f, SUBSET S)

LEMMA SumUnfolded ==
    ASSUME NEW f, NEW S
    PROVE  SumFunctionOnSet(f, S) = (CHOOSE g : Sums(g, f, S))[S]
BY DEF SumFunctionOnSet, FoldFunctionOnSet, MapThenFoldSet, Sums, Adds, One

\* It is well-founded: by the size of the subsets.
LEMMA SumExists ==
    ASSUME NEW S, IsFiniteSet(S), NEW f
    PROVE  \E g : Sums(g, f, S)
<1> DEFINE UpTo(n) == {t \in SUBSET S : Cardinality(t) <= n}
           Bad == {n \in Nat : ~\E g : Adds(g, f, UpTo(n))}
<1>1. \A t \in SUBSET S : IsFiniteSet(t) /\ Cardinality(t) \in Nat /\ Cardinality(t) <= Cardinality(S)
  BY FS_Subset, FS_CardinalityType
<1>2. ASSUME NEW t \in SUBSET S, t # {}
      PROVE  /\ One(t) \in t /\ t \ {One(t)} \in SUBSET S
             /\ Cardinality(t \ {One(t)}) = Cardinality(t) - 1
  <2>1. One(t) \in t
    BY <1>2 DEF One
  <2>2. QED
    BY <1>1, <2>1, FS_RemoveElement
<1>3. 0 \notin Bad
  <2>1. \A t \in UpTo(0) : t = {}
    BY <1>1, FS_EmptySet
  <2>2. Adds([t \in UpTo(0) |-> 0], f, UpTo(0))
    BY <2>1 DEF Adds
  <2> HIDE DEF UpTo
  <2>3. QED
    BY <2>2
<1>4. ASSUME NEW n \in Nat, n \notin Bad PROVE n + 1 \notin Bad
  <2>1. PICK g : Adds(g, f, UpTo(n))
    BY <1>4
  <2> DEFINE h == [t \in UpTo(n + 1) |-> IF t = {} THEN 0 ELSE f[One(t)] + g[t \ {One(t)}]]
  <2>2. ASSUME NEW t \in UpTo(n) PROVE t \in UpTo(n + 1) /\ h[t] = g[t]
    <3>1. t \in UpTo(n + 1)
      BY <1>1
    <3>2. g[t] = IF t = {} THEN 0 ELSE f[One(t)] + g[t \ {One(t)}]
      BY <2>1 DEF Adds
    <3> HIDE DEF UpTo
    <3>3. QED
      BY <3>1, <3>2
  <2>3. ASSUME NEW t \in UpTo(n + 1), t # {} PROVE t \ {One(t)} \in UpTo(n)
    BY <1>1, <1>2, <2>3
  <2> HIDE DEF UpTo
  <2>4. \A t \in UpTo(n + 1) : t # {} => h[t \ {One(t)}] = g[t \ {One(t)}]
    <3> HIDE DEF h
    <3> QED
      BY <2>2, <2>3
  <2>5. h = [t \in UpTo(n + 1) |-> IF t = {} THEN 0 ELSE f[One(t)] + h[t \ {One(t)}]]
    <3>1. \A t \in UpTo(n + 1) : h[t] = IF t = {} THEN 0 ELSE f[One(t)] + g[t \ {One(t)}]
      OBVIOUS
    <3>2. DOMAIN h = UpTo(n + 1) /\ h = [t \in DOMAIN h |-> h[t]]
      OBVIOUS
    <3> HIDE DEF h
    <3>3. \A t \in UpTo(n + 1) : h[t] = IF t = {} THEN 0 ELSE f[One(t)] + h[t \ {One(t)}]
      BY <2>4, <3>1
    <3>4. QED
      BY <3>2, <3>3
  <2> HIDE DEF h
  <2>6. QED
    BY <2>5 DEF Adds
<1>5. Bad = {}
  <2> SUFFICES ASSUME Bad # {} PROVE FALSE
    OBVIOUS
  <2>1. Min(Bad) \in Bad /\ \A k \in Bad : Min(Bad) <= k
    <3>1. Bad \in SUBSET Nat
      OBVIOUS
    <3> HIDE DEF Bad
    <3>2. QED
      BY <3>1, Least
  <2>2. Min(Bad) \in Nat
    BY <2>1
  <2> HIDE DEF Bad
  <2>3. Min(Bad) - 1 \in Nat /\ Min(Bad) - 1 \notin Bad
    BY <1>3, <2>1, <2>2
  <2>4. QED
    BY <1>4, <2>1, <2>2, <2>3
<1>6. UpTo(Cardinality(S)) = SUBSET S
  BY <1>1
<1>7. Cardinality(S) \in Nat
  BY FS_CardinalityType
<1>8. QED
  BY <1>5, <1>6, <1>7 DEF Sums

\* Two of them agree where their terms do.
LEMMA SumAgrees ==
    ASSUME NEW S, IsFiniteSet(S), NEW T \in SUBSET S, NEW f, NEW e, \A x \in T : f[x] = e[x],
           NEW g, Sums(g, f, S), NEW h, Sums(h, e, T)
    PROVE  \A t \in SUBSET T : g[t] = h[t]
<1> DEFINE C == {t \in SUBSET T : g[t] # h[t]}
<1>1. IsFiniteSet(T)
  BY FS_Subset
<1>2. ASSUME NEW t \in C, \A x \in t : t \ {x} \notin C PROVE FALSE
  <2>1. t \in SUBSET T /\ t \in SUBSET S /\ g[t] # h[t]
    OBVIOUS
  <2>2. /\ g[t] = IF t = {} THEN 0 ELSE f[One(t)] + g[t \ {One(t)}]
        /\ h[t] = IF t = {} THEN 0 ELSE e[One(t)] + h[t \ {One(t)}]
    <3> HIDE DEF C
    <3> QED
      BY <2>1 DEF Sums, Adds
  <2>3. t # {} /\ One(t) \in t
    BY <2>1, <2>2 DEF One
  <2>4. g[t \ {One(t)}] = h[t \ {One(t)}] /\ f[One(t)] = e[One(t)]
    BY <1>2, <2>1, <2>3
  <2> HIDE DEF C
  <2>5. QED
    BY <2>1, <2>2, <2>3, <2>4
<1>3. C \in SUBSET (SUBSET T)
  OBVIOUS
<1>4. C = {}
  <2> HIDE DEF C
  <2> QED
    BY <1>1, <1>2, <1>3, Smallest
<1>5. QED
  BY <1>4

\* The sum of f over a set, by any one of its elements that comes first.
LEMMA SumStep ==
    ASSUME NEW S, IsFiniteSet(S), NEW f
    PROVE  SumFunctionOnSet(f, S) =
               IF S = {} THEN 0 ELSE f[One(S)] + SumFunctionOnSet(f, S \ {One(S)})
<1> DEFINE g == CHOOSE g : Sums(g, f, S)
           T == S \ {One(S)}
           h == CHOOSE h : Sums(h, f, T)
<1>1. Sums(g, f, S) /\ SumFunctionOnSet(f, S) = g[S]
  BY SumExists, SumUnfolded
<1>2. IsFiniteSet(T) /\ T \in SUBSET S
  BY FS_Subset
<1>3. Sums(h, f, T) /\ SumFunctionOnSet(f, T) = h[T]
  <2> HIDE DEF T
  <2> QED
    BY <1>2, SumExists, SumUnfolded
<1> HIDE DEF g, h
<1>4. g[S] = IF S = {} THEN 0 ELSE f[One(S)] + g[T]
  BY <1>1 DEF Sums, Adds
<1>5. g[T] = h[T]
  <2> HIDE DEF T
  <2>1. \A x \in T : f[x] = f[x]
    OBVIOUS
  <2>2. \A t \in SUBSET T : g[t] = h[t]
    BY <1>1, <1>2, <1>3, <2>1, SumAgrees
  <2>3. QED
    BY <2>2
<1>6. QED
  BY <1>1, <1>3, <1>4, <1>5

\* Functions that agree have the same sum.
LEMMA SumSame ==
    ASSUME NEW S, IsFiniteSet(S), NEW f, NEW e, \A x \in S : f[x] = e[x]
    PROVE  SumFunctionOnSet(f, S) = SumFunctionOnSet(e, S)
<1>1. PICK g : Sums(g, f, S) /\ g = CHOOSE k : Sums(k, f, S)
  BY SumExists
<1>2. PICK h : Sums(h, e, S) /\ h = CHOOSE k : Sums(k, e, S)
  BY SumExists
<1>3. g[S] = h[S]
  <2>1. S \in SUBSET S /\ Sums(g, f, S) /\ Sums(h, e, S)
    BY <1>1, <1>2
  <2>2. \A t \in SUBSET S : g[t] = h[t]
    BY <2>1, SumAgrees
  <2>3. QED
    BY <2>1, <2>2
<1>4. QED
  BY <1>1, <1>2, <1>3, SumUnfolded

\* A sum of integers is one.
LEMMA SumInt ==
    ASSUME NEW S, IsFiniteSet(S), NEW f, \A x \in S : f[x] \in Int
    PROVE  SumFunctionOnSet(f, S) \in Int
<1> DEFINE C == {t \in SUBSET S : SumFunctionOnSet(f, t) \notin Int}
<1>1. ASSUME NEW t \in C, \A x \in t : t \ {x} \notin C PROVE FALSE
  <2>1. t \in SUBSET S /\ SumFunctionOnSet(f, t) \notin Int /\ IsFiniteSet(t)
    BY FS_Subset
  <2>2. SumFunctionOnSet(f, t) = IF t = {} THEN 0 ELSE f[One(t)] + SumFunctionOnSet(f, t \ {One(t)})
    BY <2>1, SumStep
  <2>3. t # {} /\ One(t) \in t
    BY <2>1, <2>2 DEF One
  <2>4. SumFunctionOnSet(f, t \ {One(t)}) \in Int /\ f[One(t)] \in Int
    BY <1>1, <2>1, <2>3
  <2>5. QED
    BY <2>1, <2>2, <2>3, <2>4
<1>2. C \in SUBSET (SUBSET S)
  OBVIOUS
<1>3. C = {}
  <2> HIDE DEF C
  <2> QED
    BY <1>1, <1>2, Smallest
<1>4. QED
  BY <1>3

\* Any element may come first.
LEMMA SumRemove ==
    ASSUME NEW S, IsFiniteSet(S), NEW f, \A x \in S : f[x] \in Int
    PROVE  \A x \in S : SumFunctionOnSet(f, S) = f[x] + SumFunctionOnSet(f, S \ {x})
<1> DEFINE Sum(t) == SumFunctionOnSet(f, t)
           C == {t \in SUBSET S : \E x \in t : Sum(t) # f[x] + Sum(t \ {x})}
<1>1. \A t \in SUBSET S : IsFiniteSet(t) /\ Sum(t) \in Int
  BY FS_Subset, SumInt
<1>2. ASSUME NEW t \in SUBSET S, t # {}
      PROVE  One(t) \in t /\ Sum(t) = f[One(t)] + Sum(t \ {One(t)})
  BY <1>1, <1>2, SumStep DEF One
<1> HIDE DEF Sum
<1>3. ASSUME NEW t \in C, \A x \in t : t \ {x} \notin C PROVE FALSE
  <2>1. PICK x \in t : Sum(t) # f[x] + Sum(t \ {x})
    OBVIOUS
  <2>2. t \in SUBSET S /\ t # {}
    OBVIOUS
  <2> DEFINE y == One(t)
  <2>3. y \in t /\ Sum(t) = f[y] + Sum(t \ {y})
    BY <1>2, <2>2
  <2> HIDE DEF y
  <2>4. x # y
    BY <2>1, <2>3
  <2>5. Sum(t \ {y}) = f[x] + Sum((t \ {y}) \ {x})
    BY <1>3, <2>2, <2>3, <2>4
  <2>6. Sum(t \ {x}) = f[y] + Sum((t \ {x}) \ {y})
    BY <1>3, <2>2, <2>3, <2>4
  <2>7. (t \ {y}) \ {x} = (t \ {x}) \ {y}
    OBVIOUS
  <2>8. f[x] \in Int /\ f[y] \in Int /\ Sum((t \ {x}) \ {y}) \in Int
    BY <1>1, <2>2, <2>3
  <2> DEFINE rest == Sum((t \ {x}) \ {y})
  <2>9. Sum(t) = f[y] + (f[x] + rest) /\ Sum(t \ {x}) = f[y] + rest
    BY <2>3, <2>5, <2>6, <2>7
  <2> HIDE DEF rest, C
  <2>10. f[y] + (f[x] + rest) = f[x] + (f[y] + rest)
    BY <2>8 DEF rest
  <2>11. QED
    BY <2>1, <2>9, <2>10
<1>4. C \in SUBSET (SUBSET S)
  OBVIOUS
<1>5. C = {}
  <2> HIDE DEF C
  <2> QED
    BY <1>3, <1>4, Smallest
<1>6. QED
  BY <1>5 DEF Sum

\* The sum over two sets apart is the sum of their sums.
LEMMA SumUnion ==
    ASSUME NEW S, IsFiniteSet(S), NEW f, \A x \in S : f[x] \in Int, NEW T \in SUBSET S
    PROVE  SumFunctionOnSet(f, S) = SumFunctionOnSet(f, T) + SumFunctionOnSet(f, S \ T)
<1> DEFINE Sum(t) == SumFunctionOnSet(f, t)
           C == {t \in SUBSET T : Sum(S \ (T \ t)) # Sum(t) + Sum(S \ T)}
<1>1. \A t \in SUBSET S : IsFiniteSet(t) /\ Sum(t) \in Int
  BY FS_Subset, SumInt
<1>2. ASSUME NEW t \in SUBSET S, NEW x \in t PROVE Sum(t) = f[x] + Sum(t \ {x})
  BY <1>1, SumRemove
<1>3. Sum({}) = 0
  BY FS_EmptySet, SumStep
<1> HIDE DEF Sum
<1>4. ASSUME NEW t \in C, \A x \in t : t \ {x} \notin C PROVE FALSE
  <2>1. t \in SUBSET T /\ Sum(S \ (T \ t)) # Sum(t) + Sum(S \ T)
    OBVIOUS
  <2>2. t # {}
    <3> SUFFICES ASSUME t = {} PROVE FALSE
      OBVIOUS
    <3>1. S \ (T \ t) = S \ T /\ Sum(t) = 0
      BY <1>3
    <3>2. Sum(S \ T) \in Int
      BY <1>1
    <3> HIDE DEF C
    <3>3. QED
      BY <2>1, <3>1, <3>2
  <2>3. PICK x \in t : TRUE
    BY <2>2
  <2>4. Sum(t) = f[x] + Sum(t \ {x})
    BY <1>2
  <2>5. Sum(S \ (T \ t)) = f[x] + Sum(S \ (T \ (t \ {x})))
    <3>1. x \in S \ (T \ t) /\ (S \ (T \ t)) \ {x} = S \ (T \ (t \ {x}))
      BY <2>1
    <3>2. QED
      BY <1>2, <3>1
  <2>6. Sum(S \ (T \ (t \ {x}))) = Sum(t \ {x}) + Sum(S \ T)
    BY <1>4, <2>1
  <2>7. f[x] \in Int /\ Sum(t \ {x}) \in Int /\ Sum(S \ T) \in Int
    BY <1>1, <2>1
  <2> HIDE DEF C
  <2>8. QED
    BY <2>1, <2>4, <2>5, <2>6, <2>7
<1>5. C \in SUBSET (SUBSET T) /\ IsFiniteSet(T)
  BY <1>1
<1>6. C = {}
  <2> HIDE DEF C
  <2> QED
    BY <1>4, <1>5, Smallest
<1>7. S \ (T \ T) = S
  OBVIOUS
<1>8. QED
  BY <1>6, <1>7 DEF Sum

(***************************************************************************)
(* Invoices and lines.                                                      *)
(***************************************************************************)
Reporting == Seq(OpenInvoice)
Line == [number : Numbers, invoice : OpenInvoice, stated : Int \cup {None}]

\* Positions in a sequence: numbers, and finitely many.
LEMMA Positions ==
    ASSUME NEW T, NEW s \in Seq(T), NEW S \in SUBSET (DOMAIN s)
    PROVE  S \in SUBSET Nat /\ IsFiniteSet(S) /\ \A k \in S : s[k] \in T
<1>1. DOMAIN s = 1..Len(s) /\ Len(s) \in Nat
  OBVIOUS
<1>2. IsFiniteSet(1..Len(s))
  BY <1>1, FS_Interval
<1>3. QED
  BY <1>1, <1>2, FS_Subset

\* A lookup returns an invoice of the report, or nothing.
LEMMA LookupType ==
    ASSUME NEW report \in Reporting, NEW number, NEW ou, LookupInvoice(report, number, ou) # None
    PROVE  LookupInvoice(report, number, ou) \in OpenInvoice
<1> DEFINE With(n) == {k \in DOMAIN report : report[k].number = n}
           candidates == IF With(number) # {} THEN With(number) ELSE With(BaseOf[number])
           own == {k \in candidates : report[k].ou = ou}
           best == IF own # {} THEN own ELSE candidates
<1>1. candidates # {} /\ LookupInvoice(report, number, ou) = report[Min(best)]
  BY DEF LookupInvoice
<1>2. best # {} /\ best \in SUBSET (DOMAIN report)
  BY <1>1
<1> HIDE DEF best
<1>3. best \in SUBSET Nat /\ \A k \in best : report[k] \in OpenInvoice
  BY <1>2, Positions DEF Reporting
<1>4. Min(best) \in best
  BY <1>2, <1>3, Least
<1>5. QED
  BY <1>1, <1>3, <1>4

\* Confirm keeps what the report knows, and nothing else.
LEMMA ConfirmKnows ==
    ASSUME NEW report, NEW numbers \in Seq(Numbers), NEW ou
    PROVE  /\ Confirm(report, numbers, ou) \in Seq(Numbers)
           /\ \A k \in DOMAIN Confirm(report, numbers, ou) :
                  LookupInvoice(report, Confirm(report, numbers, ou)[k], ou) # None
<1> DEFINE S == {k \in DOMAIN numbers : LookupInvoice(report, numbers[k], ou) # None}
           kept == InOrder(numbers, S)
<1>1. S \in SUBSET Nat /\ IsFiniteSet(S) /\ \A k \in S : numbers[k] \in Numbers
  BY Positions
<1>2. /\ kept \in Seq({numbers[r] : r \in S})
      /\ \A k \in DOMAIN kept : Nth(S, k) \in S /\ kept[k] = numbers[Nth(S, k)]
  <2> HIDE DEF S
  <2> QED
    BY <1>1, InOrderOf
<1>3. {numbers[r] : r \in S} \subseteq Numbers
  BY <1>1
<1>4. \A r \in S : LookupInvoice(report, numbers[r], ou) # None
  OBVIOUS
<1>5. Confirm(report, numbers, ou) = kept
  BY DEF Confirm
<1> HIDE DEF S, kept
<1>6. QED
  BY <1>2, <1>3, <1>4, <1>5

LastOf(all, number) == Max({j \in DOMAIN all : all[j].number = number})

\* What _resolve_matched_invoices takes from the report.
LEMMA ResolvedIs ==
    ASSUME NEW i, Candidates(i) \in Seq(RemittanceLine), NEW report \in Reporting
    PROVE  /\ Resolved(i, report) \in Seq(Line)
           /\ Resolved(i, report) = <<>> <=>
                  \A k \in DOMAIN Candidates(i) :
                      LookupInvoice(report, Candidates(i)[k].number, i.row.ou) = None
           /\ \A k \in DOMAIN Resolved(i, report) :
                  /\ LastOf(Candidates(i), Resolved(i, report)[k].number) \in DOMAIN Candidates(i)
                  /\ Resolved(i, report)[k].stated =
                        Candidates(i)[LastOf(Candidates(i), Resolved(i, report)[k].number)].paid
<1> DEFINE all == Candidates(i)
           Found(c) == LookupInvoice(report, c.number, i.row.ou)
           Of(n) == {j \in DOMAIN all : all[j].number = n}
           S == {k \in DOMAIN all : Found(all[k]) # None}
           hits == InOrder(all, S)
           lines == Resolved(i, report)
<1>1. lines = [k \in DOMAIN hits |-> [number |-> hits[k].number, invoice |-> Found(hits[k]),
                                      stated |-> all[Max(Of(hits[k].number))].paid]]
  BY DEF Resolved
<1>2. S \in SUBSET Nat /\ IsFiniteSet(S) /\ \A k \in S : all[k] \in RemittanceLine
  <2>1. S \in SUBSET (DOMAIN all)
    OBVIOUS
  <2> HIDE DEF S
  <2>2. QED
    BY <2>1, Positions
<1>3. /\ hits \in Seq({all[r] : r \in S}) /\ DOMAIN hits = 1..Len(hits)
      /\ \A k \in DOMAIN hits : Nth(S, k) \in S /\ hits[k] = all[Nth(S, k)]
      /\ hits = <<>> <=> S = {}
  <2> HIDE DEF S, all
  <2>1. S \in SUBSET Nat /\ IsFiniteSet(S)
    BY <1>2
  <2>2. /\ hits \in Seq({all[r] : r \in S}) /\ DOMAIN hits = 1..Len(hits)
        /\ \A k \in DOMAIN hits : Nth(S, k) \in S /\ hits[k] = all[Nth(S, k)]
        /\ hits = <<>> <=> S = {}
    BY SMTT(20), <2>1, InOrderOf
  <2>3. QED
    BY <2>2
<1>4. Len(hits) \in Nat
  <2> HIDE DEF hits
  <2> QED
    BY <1>3
<1>5. ASSUME NEW r \in S
      PROVE  /\ r \in DOMAIN all /\ all[r] \in RemittanceLine
             /\ Found(all[r]) \in OpenInvoice
             /\ Max(Of(all[r].number)) \in DOMAIN all
             /\ all[Max(Of(all[r].number))] \in RemittanceLine
  <2>1. r \in DOMAIN all /\ all[r] \in RemittanceLine
    BY <1>2
  <2>2. Found(all[r]) # None
    OBVIOUS
  <2>3. Found(all[r]) \in OpenInvoice
    <3> HIDE DEF all, S
    <3> QED
      BY <2>2, LookupType
  <2> DEFINE P == Of(all[r].number)
  <2>4. P \in SUBSET (DOMAIN all) /\ P # {}
    BY <2>1
  <2>5. DOMAIN all = 1..Len(all) /\ Len(all) \in Nat
    OBVIOUS
  <2> HIDE DEF P
  <2>6. P \in SUBSET Nat /\ \A k \in P : k <= Len(all)
    BY <2>4, <2>5
  <2>7. Max(P) \in P
    BY <2>4, <2>5, <2>6, Greatest
  <2>8. Max(P) \in DOMAIN all /\ all[Max(P)] \in RemittanceLine
    BY <2>4, <2>7
  <2>9. QED
    BY <2>1, <2>3, <2>8 DEF P
<1> HIDE DEF S, Found, Of, hits, all
<1>6. ASSUME NEW k \in DOMAIN hits
      PROVE  lines[k] \in Line
  <2> DEFINE c == hits[k]
             last == all[Max(Of(c.number))]
  <2>1. c \in RemittanceLine /\ Found(c) \in OpenInvoice /\ last \in RemittanceLine
    BY <1>3, <1>5
  <2>2. lines[k] = [number |-> c.number, invoice |-> Found(c), stated |-> last.paid]
    BY <1>1
  <2> HIDE DEF c, last
  <2>3. c.number \in Numbers /\ last.paid \in Int \cup {None}
    BY <2>1 DEF RemittanceLine
  <2>4. QED
    BY <2>1, <2>2, <2>3 DEF Line
<1>7. DOMAIN lines = 1..Len(hits) /\ lines = [k \in 1..Len(hits) |-> lines[k]]
  BY <1>1, <1>3
<1> HIDE DEF lines
<1>8. lines \in Seq(Line) /\ Len(lines) = Len(hits)
  BY <1>3, <1>4, <1>6, <1>7
<1>9. lines = <<>> <=> S = {}
  BY <1>3, <1>4, <1>7, <1>8
<1>10. S = {} <=> \A k \in DOMAIN all : Found(all[k]) = None
  BY DEF S
<1>11. \A k \in DOMAIN lines : /\ Max(Of(lines[k].number)) \in DOMAIN all
                               /\ lines[k].stated = all[Max(Of(lines[k].number))].paid
  BY <1>1, <1>3, <1>5, <1>7
<1>12. QED
  BY <1>8, <1>9, <1>10, <1>11 DEF lines, all, Found, Of, LastOf

\* The amounts of lines, and what is stated, add up to whole hundredths.
LEMMA OutstandingInt ==
    ASSUME NEW lines \in Seq(Line), NEW ks \in SUBSET (DOMAIN lines)
    PROVE  Outstanding(lines, ks) \in Int
<1> DEFINE f == [k \in ks |-> lines[k].invoice.amount]
<1>1. IsFiniteSet(ks) /\ \A k \in ks : lines[k] \in Line
  BY Positions
<1>2. \A k \in ks : f[k] \in Int
  BY <1>1 DEF Line, OpenInvoice
<1>3. Outstanding(lines, ks) = SumFunctionOnSet(f, ks)
  BY DEF Outstanding
<1> HIDE DEF f
<1>4. QED
  BY <1>1, <1>2, <1>3, SumInt

(***************************************************************************)
(* Rounding and splitting.                                                  *)
(***************************************************************************)
LEMMA RoundedInt ==
    ASSUME NEW n \in Int, NEW d \in Int, d # 0
    PROVE  Rounded(n, d) \in Int
<1>1. CASE d > 0
  <2>1. 2 * n + d \in Int /\ 2 * d \in Nat \ {0}
    BY <1>1
  <2>2. QED
    BY <1>1, <2>1 DEF Rounded
<1>2. CASE ~(d > 0)
  <2>1. -2 * n - d \in Int /\ -2 * d \in Nat \ {0}
    BY <1>2
  <2>2. QED
    BY <1>2, <2>1 DEF Rounded
<1>3. QED
  BY <1>1, <1>2

Rate == [num : Nat, den : Nat \ {0}]
LEMMA ConvertedInt ==
    ASSUME NEW amount \in Int, NEW rate \in Rate
    PROVE  Converted(amount, rate) \in Int /\ (amount >= 0 => Converted(amount, rate) >= 0)
<1> DEFINE n == amount * rate.num
           d == rate.den
<1>1. rate.num \in Nat /\ d \in Nat \ {0}
  BY DEF Rate
<1>2. n \in Int /\ (amount >= 0 => n >= 0)
  BY <1>1
<1>3. Converted(amount, rate) = (2 * n + d) \div (2 * d)
  BY <1>1 DEF Converted, Rounded
<1> HIDE DEF n, d
<1>4. 2 * n + d \in Int /\ 2 * d \in Nat \ {0} /\ (n >= 0 => 2 * n + d >= 0)
  BY <1>1, <1>2
<1>5. \A a \in Int, b \in Nat \ {0} : a \div b \in Int /\ (a >= 0 => a \div b >= 0)
  OBVIOUS
<1>6. QED
  BY <1>2, <1>3, <1>4, <1>5

\* A split changes nothing but what is stated.
LEMMA SplitKeeps ==
    ASSUME NEW lines \in Seq(Line), NEW received
    PROVE  /\ DOMAIN Split(lines, received) = DOMAIN lines
           /\ Len(Split(lines, received)) = Len(lines)
           /\ \A k \in DOMAIN lines : Split(lines, received)[k].number = lines[k].number
<1> DEFINE matched == Split(lines, received)
<1>1. /\ DOMAIN lines = 1..Len(lines) /\ Len(lines) \in Nat
      /\ \A k \in DOMAIN lines : lines[k] \in Line
  OBVIOUS
<1>2. \A k \in DOMAIN lines : DOMAIN lines[k] = {"number", "invoice", "stated"}
  BY <1>1 DEF Line
<1>3. CASE Len(lines) = 1
  <2>1. matched = [lines EXCEPT ![1].stated = received]
    BY <1>3 DEF Split
  <2>2. QED
    BY <1>1, <1>2, <1>3, <2>1
<1>4. CASE Len(lines) # 1
  <2>1. PICK stated : matched = [k \in DOMAIN lines |-> IF k \in Unstated(lines)
                                                          THEN [lines[k] EXCEPT !.stated = stated[k]]
                                                          ELSE lines[k]]
    <3> DEFINE open == Unstated(lines)
               rest == received - StatedTotal(lines, DOMAIN lines \ open)
               others == open \ {Max(open)}
               share == [k \in others |-> Rounded(rest * lines[k].invoice.amount, Outstanding(lines, open))]
               stated == [k \in DOMAIN lines |-> IF k \in others THEN share[k]
                                                   ELSE rest - SumFunctionOnSet(share, others)]
    <3>1. matched = [k \in DOMAIN lines |-> IF k \in open THEN [lines[k] EXCEPT !.stated = stated[k]]
                                            ELSE lines[k]]
      BY <1>4 DEF Split
    <3> HIDE DEF stated
    <3>2. QED
      BY <3>1
  <2>2. DOMAIN matched = DOMAIN lines
    BY <2>1
  <2>3. \A k \in DOMAIN lines : matched[k].number = lines[k].number
    BY <1>2, <2>1
  <2>4. Len(matched) = Len(lines)
    BY <1>1, <2>1
  <2>5. QED
    BY <2>2, <2>3, <2>4
<1>5. QED
  BY <1>3, <1>4

\* A payment that is split over what is not stated adds up to what was received,
\* however its shares are rounded.
LEMMA SplitAddsUp ==
    ASSUME NEW lines \in Seq(Line), lines # <<>>, NEW received \in Int, ~DividesByZero(lines),
           Unstated(lines) # {} \/ Len(lines) = 1
    PROVE  LET matched == Split(lines, received)
               stated == [k \in DOMAIN matched |-> matched[k].stated]
           IN  /\ DOMAIN matched = DOMAIN lines
               /\ \A k \in DOMAIN matched : stated[k] \in Int /\ matched[k].number = lines[k].number
               /\ SumFunctionOnSet(stated, DOMAIN matched) = received
<1> DEFINE open == Unstated(lines)
           settled == DOMAIN lines \ open
           told == [k \in settled |-> lines[k].stated]
           total == StatedTotal(lines, settled)
           rest == received - total
           last == Max(open)
           others == open \ {last}
           out == Outstanding(lines, open)
           share == [k \in others |-> Rounded(rest * lines[k].invoice.amount, out)]
           shares == SumFunctionOnSet(share, others)
           matched == Split(lines, received)
           stated == [k \in DOMAIN matched |-> matched[k].stated]
<1>1. DOMAIN lines = 1..Len(lines) /\ Len(lines) \in Nat /\ Len(lines) # 0
  OBVIOUS
<1>2. \A k \in DOMAIN lines : /\ lines[k] \in Line /\ lines[k].invoice.amount \in Int
                              /\ DOMAIN lines[k] = {"number", "invoice", "stated"}
                              /\ lines[k].stated \in Int \cup {None}
  <2>1. ASSUME NEW k \in DOMAIN lines PROVE lines[k] \in Line
    OBVIOUS
  <2>2. ASSUME NEW x \in Line
        PROVE  /\ x.invoice.amount \in Int /\ x.stated \in Int \cup {None}
               /\ DOMAIN x = {"number", "invoice", "stated"}
    BY DEF Line, OpenInvoice
  <2>3. QED
    BY <2>1, <2>2
<1>3. CASE Len(lines) = 1
  <2>1. matched = [lines EXCEPT ![1].stated = received]
    BY <1>3 DEF Split
  <2>2. DOMAIN matched = {1} /\ DOMAIN lines = {1}
    BY <1>1, <1>3, <2>1
  <2>3. matched[1].stated = received /\ matched[1].number = lines[1].number
    BY <1>2, <2>1, <2>2
  <2>4. stated[1] = received
    BY <2>2, <2>3
  <2> HIDE DEF matched, stated
  <2>5. IsFiniteSet({1}) /\ IsFiniteSet({})
    BY FS_Singleton, FS_EmptySet
  <2>6. SumFunctionOnSet(stated, {1}) = stated[1] + SumFunctionOnSet(stated, {1} \ {1})
    BY <2>4, <2>5, SumRemove
  <2>7. SumFunctionOnSet(stated, {1} \ {1}) = 0
    <3>1. {1} \ {1} = {} /\ SumFunctionOnSet(stated, {}) = 0
      BY <2>5, SumStep
    <3>2. QED
      BY <3>1
  <2>8. SumFunctionOnSet(stated, {1}) = received
    BY <2>4, <2>6, <2>7
  <2>9. QED
    BY <2>2, <2>3, <2>4, <2>8 DEF matched, stated
<1>4. CASE Len(lines) # 1
  <2>1. open # {} /\ open \in SUBSET (DOMAIN lines) /\ settled \in SUBSET (DOMAIN lines)
    BY <1>4 DEF Unstated
  <2>2. /\ open \in SUBSET Nat /\ IsFiniteSet(open) /\ IsFiniteSet(settled) /\ IsFiniteSet(DOMAIN lines)
        /\ \A k \in open : k <= Len(lines)
    <3> HIDE DEF open, settled
    <3> QED
      BY <1>1, <2>1, Positions
  <2>3. last \in open
    <3> HIDE DEF open
    <3> QED
      BY <1>1, <2>1, <2>2, Greatest
  <2>4. IsFiniteSet(others) /\ others \in SUBSET open
    BY <2>2, FS_Subset
  <2>5. total = SumFunctionOnSet(told, settled) /\ (\A k \in settled : told[k] \in Int)
    BY <1>2 DEF StatedTotal, Unstated
  <2>6. total \in Int /\ rest \in Int
    <3>1. SumFunctionOnSet(told, settled) \in Int
      <4> HIDE DEF told, settled
      <4> QED
        BY <2>2, <2>5, SumInt
    <3> HIDE DEF total
    <3>2. QED
      BY <2>5, <3>1
  <2>7. out \in Int /\ (others # {} => out # 0)
    <3>1. out \in Int
      BY <2>1, OutstandingInt
    <3>2. ASSUME others # {} PROVE Cardinality(open) > 1 /\ Len(lines) > 1
      <4>1. Cardinality(others) \in Nat /\ Cardinality(others) # 0
        <5> HIDE DEF others
        <5> QED
          BY <2>4, <3>2, FS_EmptySet, FS_CardinalityType
      <4>2. Cardinality(others) = Cardinality(open) - 1 /\ Cardinality(open) \in Nat
        <5> HIDE DEF open, last
        <5> QED
          BY <2>2, <2>3, FS_RemoveElement, FS_CardinalityType
      <4> HIDE DEF others, open
      <4>3. QED
        BY <1>1, <1>4, <4>1, <4>2
    <3> HIDE DEF others
    <3>3. QED
      BY <3>1, <3>2 DEF DividesByZero
  <2>8. ASSUME NEW k \in others PROVE share[k] \in Int
    <3>1. lines[k].invoice.amount \in Int
      BY <1>2, <2>1, <2>4
    <3> DEFINE n == rest * lines[k].invoice.amount
    <3>2. n \in Int /\ share[k] = Rounded(n, out)
      <4> HIDE DEF rest
      <4> QED
        BY <2>6, <3>1
    <3> HIDE DEF n, out, share
    <3>3. QED
      BY <2>7, <2>8, <3>2, RoundedInt
  <2>9. shares \in Int
    <3> HIDE DEF share, others
    <3> QED
      BY <2>4, <2>8, SumInt
  <2>10. /\ DOMAIN matched = DOMAIN lines
         /\ \A k \in DOMAIN lines :
               matched[k] = IF k \in open
                            THEN [lines[k] EXCEPT !.stated = IF k \in others THEN share[k] ELSE rest - shares]
                            ELSE lines[k]
    BY <1>4 DEF Split
  <2> HIDE DEF matched, rest, shares, share, others
  <2>11. \A k \in DOMAIN lines :
            /\ matched[k].number = lines[k].number
            /\ stated[k] = IF k \in open THEN (IF k \in others THEN share[k] ELSE rest - shares)
                           ELSE lines[k].stated
    BY <1>2, <2>10
  <2>12. \A k \in DOMAIN lines : stated[k] \in Int
    <3>1. rest - shares \in Int
      BY <2>6, <2>9
    <3>2. \A k \in DOMAIN lines : k \notin open => lines[k].stated \in Int
      BY <1>2 DEF Unstated
    <3> HIDE DEF stated, open
    <3>3. QED
      BY <2>8, <2>11, <3>1, <3>2
  <2> DEFINE Sum(ks) == SumFunctionOnSet(stated, ks)
  <2>13. Sum(DOMAIN lines) = Sum(open) + Sum(settled)
    <3> HIDE DEF stated, open
    <3> QED
      BY <2>1, <2>2, <2>12, SumUnion
  <2>14. Sum(settled) = total
    <3>1. \A k \in settled : stated[k] = told[k]
      BY <2>11
    <3> HIDE DEF stated, settled, told
    <3>2. QED
      BY <2>2, <2>5, <3>1, SumSame
  <2>15. Sum(open) = (rest - shares) + Sum(others)
    <3>1. stated[last] = rest - shares
      BY <2>1, <2>3, <2>11 DEF others
    <3>2. \A k \in open : stated[k] \in Int
      BY <2>1, <2>12
    <3> HIDE DEF stated, open, last
    <3>3. Sum(open) = stated[last] + Sum(open \ {last})
      BY <2>2, <2>3, <3>2, SumRemove
    <3>4. QED
      BY <3>1, <3>3 DEF others
  <2>16. Sum(others) = shares
    <3>1. \A k \in others : stated[k] = share[k]
      BY <2>1, <2>4, <2>11
    <3> HIDE DEF stated
    <3>2. QED
      BY <2>4, <3>1, SumSame DEF shares
  <2> HIDE DEF Sum, total, stated, open, settled
  <2>17. Sum(DOMAIN lines) = received
    BY <2>6, <2>9, <2>13, <2>14, <2>15, <2>16 DEF rest
  <2>18. QED
    BY <2>10, <2>11, <2>12, <2>17 DEF Sum, stated, matched
<1>5. QED
  BY <1>3, <1>4

(***************************************************************************)
(* The bands of the short payments.                                         *)
(***************************************************************************)
Bands == {"R11", "R9a", "R9b", "R9c"}
LEMMA BandIsBand ==
    ASSUME NEW target, NEW received, NEW drift
    PROVE  BandOf(target, received, drift) \in Bands
BY DEF BandOf, Bands

\* A band that may be posted: no overpayment, and a shortfall within the tolerance,
\* even if the sum that is compared is off by a float's last place.
LEMMA BandIsSound ==
    ASSUME TolerancePct < 100, NEW target \in Int, NEW received \in Nat, target # 0,
           NEW drift \in {-1, 0, 1}, BandOf(target, received, drift) \in {"R9a", "R9b"}
    PROVE  /\ target > 0 /\ received <= target
           /\ 100 * (target - received) <= TolerancePct * target
<1> DEFINE gap == Gap(target, received, drift)
           bound == TolerancePct * target
<1>1. gap \in Int /\ gap = 1000 * (target - received) + drift
  BY DEF Gap
<1>2. /\ TolerancePct \in Int /\ bound \in Int /\ 10 * TolerancePct * target = 10 * bound
      /\ target > 0 => bound >= 0
      /\ target < 0 => bound >= 99 * target
  BY RuleAssumption
<1>3. ~Negative(gap, target) /\ (gap = 0 \/ Within(gap, target, TolerancePct))
  BY DEF BandOf
<1> HIDE DEF gap, bound
<1>4. target > 0
  <2> SUFFICES ASSUME target < 0 PROVE FALSE
    OBVIOUS
  <2>1. gap <= 1000 * target + 1
    BY <1>1
  <2>2. gap >= 10 * bound
    BY <1>1, <1>2, <1>3, <2>1 DEF Within
  <2>3. QED
    BY <1>1, <1>2, <2>1, <2>2
<1>5. gap >= 0 /\ gap <= 10 * bound
  BY <1>1, <1>2, <1>3, <1>4 DEF Negative, Within
<1>6. received <= target /\ 100 * (target - received) <= bound
  BY <1>1, <1>2, <1>5
<1>7. QED
  BY <1>4, <1>6 DEF bound

\* A rounded quotient q of n by d: the bounds of n.
Near(q, n, d) ==
    /\ q \in Int
    /\ d > 0 => 2 * (d * q) <= 2 * n + d /\ 2 * n + d < 2 * (d * q) + 2 * d
    /\ d < 0 => 2 * (d * q) >= 2 * n + d /\ 2 * n + d > 2 * (d * q) + 2 * d
LEMMA RoundedBounds ==
    ASSUME NEW n \in Int, NEW d \in Int, d # 0
    PROVE  Near(Rounded(n, d), n, d)
<1>1. \A a \in Int, b \in Nat \ {0} :
          /\ a \div b \in Int /\ b * (a \div b) <= a /\ a < b * (a \div b) + b
  OBVIOUS
<1> DEFINE q == Rounded(n, d)
<1>2. CASE d > 0
  <2>1. q = (2 * n + d) \div (2 * d)
    BY <1>2 DEF Rounded
  <2>2. 2 * n + d \in Int /\ 2 * d \in Nat \ {0}
    BY <1>2
  <2> HIDE DEF q
  <2>3. q \in Int /\ (2 * d) * q <= 2 * n + d /\ 2 * n + d < (2 * d) * q + 2 * d
    BY <1>1, <2>1, <2>2
  <2>4. (2 * d) * q = 2 * (d * q)
    BY <2>3
  <2>5. QED
    BY <1>2, <2>3, <2>4 DEF q, Near
<1>3. CASE d < 0
  <2>1. q = (-2 * n - d) \div (-2 * d)
    BY <1>3 DEF Rounded
  <2>2. -2 * n - d \in Int /\ -2 * d \in Nat \ {0}
    BY <1>3
  <2> HIDE DEF q
  <2>3. /\ q \in Int /\ (-2 * d) * q <= -2 * n - d
        /\ -2 * n - d < (-2 * d) * q + (-2 * d)
    BY <1>1, <2>1, <2>2
  <2>4. (-2 * d) * q = -(2 * (d * q)) /\ d * q \in Int
    BY <2>3
  <2>5. 2 * (d * q) >= 2 * n + d /\ 2 * n + d > 2 * (d * q) + 2 * d
    BY <2>2, <2>3, <2>4
  <2>6. QED
    BY <1>3, <2>3, <2>4, <2>5 DEF q, Near
<1>4. QED
  BY <1>2, <1>3

\* The classification by hand, away from the edges that its rounding moves and from the
\* percentages between the engine's tolerance and its own.
LEMMA HandLikeBand ==
    ASSUME NEW target \in Int, NEW received \in Int, NEW drift \in {-1, 0, 1},
           target # 0 => /\ ShortfallPct(target, received) # 0
                         /\ ~Between(ShortfallPct(target, received), 100 * TolerancePct,
                                     100 * DefaultTolerancePct)
    PROVE  Classify(target, received) = BandOf(target, received, drift)
<1>1. CASE target = 0
  BY <1>1 DEF Classify, ShortfallPct, BandOf
<1>2. CASE target # 0
  <2> DEFINE short == target - received
             n == 10000 * short
             pct == Rounded(n, target)
             limit == TolerancePct * target
             gap == Gap(target, received, drift)
             prod == target * pct
  <2>1. short \in Int /\ n \in Int /\ gap \in Int /\ gap = 1000 * short + drift
    BY DEF Gap
  <2>2. TolerancePct \in Nat /\ limit \in Int /\ 10 * TolerancePct * target = 10 * limit
    BY RuleAssumption
  <2>3. /\ pct \in Int /\ prod \in Int
        /\ target > 0 => 2 * prod <= 2 * n + target /\ 2 * n + target < 2 * prod + 2 * target
        /\ target < 0 => 2 * prod >= 2 * n + target /\ 2 * n + target > 2 * prod + 2 * target
    <3>1. pct \in Int /\ target * pct \in Int
      <4>1. pct \in Int
        <5> HIDE DEF n
        <5> QED
          BY <1>2, <2>1, RoundedInt
      <4> HIDE DEF pct
      <4>2. QED
        BY <4>1
    <3>2. Near(pct, n, target)
      <4> HIDE DEF n
      <4> QED
        BY <1>2, <2>1, RoundedBounds
    <3> HIDE DEF n, pct
    <3>3. QED
      BY <3>1, <3>2 DEF Near
  <2>4. pct # 0 /\ pct # 100 * TolerancePct /\ (pct <= 1200 <=> pct < 100 * TolerancePct)
    <3>1. ShortfallPct(target, received) = pct
      BY <1>2 DEF ShortfallPct
    <3>2. pct # 0 /\ ~Between(pct, 100 * TolerancePct, 1200)
      BY <1>2, <3>1 DEF DefaultTolerancePct
    <3>3. pct \in Int
      BY <2>3
    <3> HIDE DEF pct
    <3>4. QED
      BY <2>2, <3>2, <3>3 DEF Between
  <2>5. Classify(target, received) =
           IF pct < 0 THEN "R11" ELSE IF pct < 100 * TolerancePct THEN "R9b" ELSE "R9c"
    <3>1. ShortfallPct(target, received) = pct
      BY <1>2 DEF ShortfallPct
    <3> HIDE DEF pct
    <3>2. Classify(target, received) =
             IF pct < 0 THEN "R11" ELSE IF pct = 0 THEN "R9a" ELSE IF pct <= 1200 THEN "R9b" ELSE "R9c"
      BY <3>1 DEF Classify, DefaultTolerancePct
    <3>3. QED
      BY <2>4, <3>2
  <2>6. n = 10000 * short
    OBVIOUS
  <2>7. /\ pct < 0 => (target > 0 => prod <= -target) /\ (target < 0 => prod >= -target)
        /\ pct > 0 => (target > 0 => prod >= target) /\ (target < 0 => prod <= target)
        /\ pct < 100 * TolerancePct =>
              /\ target > 0 => prod <= 100 * limit - target
              /\ target < 0 => prod >= 100 * limit - target
        /\ pct > 100 * TolerancePct =>
              /\ target > 0 => prod >= 100 * limit + target
              /\ target < 0 => prod <= 100 * limit + target
    <3>1. ASSUME NEW a \in Int, NEW b \in Int, a < b
          PROVE  /\ target > 0 => target * a <= target * b - target
                 /\ target < 0 => target * a >= target * b - target
      <4>1. /\ target * (b - a) = target * b - target * a
            /\ target * a \in Int /\ target * b \in Int
        OBVIOUS
      <4>2. (target > 0 => target * (b - a) >= target) /\ (target < 0 => target * (b - a) <= target)
        <5> DEFINE c == b - a - 1
        <5>1. c \in Nat /\ target * (b - a) = target * c + target
          BY <3>1
        <5> HIDE DEF c
        <5>2. (target > 0 => target * c >= 0) /\ (target < 0 => target * c <= 0)
          BY <5>1
        <5>3. target * c \in Int
          BY <5>1
        <5>4. QED
          BY <5>1, <5>2, <5>3
      <4>3. QED
        BY <4>1, <4>2
    <3>2. target * 0 = 0 /\ target * (100 * TolerancePct) = 100 * limit /\ 100 * TolerancePct \in Int
      BY <2>2
    <3>3. pct \in Int /\ limit \in Int
      BY <2>2, <2>3
    <3> HIDE DEF pct, limit
    <3>4. QED
      BY <3>1, <3>2, <3>3
  <2> HIDE DEF prod, pct, limit, short, gap, n
  <2>8. CASE pct < 0
    <3>1. (target > 0 => gap < 0) /\ (target < 0 => gap > 0)
      BY <1>2, <2>1, <2>3, <2>6, <2>7, <2>8
    <3>2. BandOf(target, received, drift) = "R11"
      BY <1>2, <2>1, <3>1 DEF BandOf, Negative, gap
    <3>3. QED
      BY <2>5, <2>8, <3>2
  <2>9. CASE pct > 0
    <3>1. (target > 0 => gap > 0) /\ (target < 0 => gap < 0)
      BY <1>2, <2>1, <2>3, <2>6, <2>7, <2>9
    <3>2. BandOf(target, received, drift) = IF Within(gap, target, TolerancePct) THEN "R9b" ELSE "R9c"
      BY <1>2, <2>1, <3>1 DEF BandOf, Negative, gap
    <3>3. ASSUME pct < 100 * TolerancePct PROVE Within(gap, target, TolerancePct)
      <4>1. (target > 0 => gap <= 10 * limit) /\ (target < 0 => gap >= 10 * limit)
        BY <1>2, <2>1, <2>2, <2>3, <2>6, <2>7, <3>3
      <4>2. QED
        BY <1>2, <2>2, <4>1 DEF Within
    <3>4. ASSUME pct > 100 * TolerancePct PROVE ~Within(gap, target, TolerancePct)
      <4>1. (target > 0 => gap > 10 * limit) /\ (target < 0 => gap < 10 * limit)
        BY <1>2, <2>1, <2>2, <2>3, <2>6, <2>7, <3>4
      <4>2. QED
        BY <1>2, <2>1, <2>2, <4>1 DEF Within
    <3>5. QED
      BY <2>2, <2>3, <2>4, <2>5, <2>9, <3>2, <3>3, <3>4
  <2>10. QED
    BY <2>3, <2>4, <2>8, <2>9
<1>3. QED
  BY <1>1, <1>2

(***************************************************************************)
(* The rule table.                                                          *)
(***************************************************************************)
Rules == {"R1", "R3", "R4", "R7", "R8", "R9a", "R9b", "R9c", "R11", "R13", "R14", "raises"}

\* The rule of a row, and what the rules before it say of the row.
LEMMA RuleIs ==
    ASSUME NEW i, NEW report, NEW found, NEW target, NEW drift,
           NEW rule, rule = FirstRule(RuleTable(i, report, found, target, drift))
    PROVE  /\ rule \in Rules
           /\ rule = "R4" => Candidates(i) # <<>> /\ found = <<>>
           /\ rule \in Bands => /\ rule = BandOf(target, Received(i), drift)
                                /\ found # <<>> /\ ~DividesByZero(found)
                                /\ ~i.crossOu
                                /\ i.credited.needed => i.credited.rate # None
<1> DEFINE table == RuleTable(i, report, found, target, drift)
           K == {k \in DOMAIN table : table[k].when}
<1>1. /\ DOMAIN table = 1..10
      /\ table[1].rule = "R1" /\ table[2].rule = "R3" /\ table[3].rule = "R4"
      /\ table[4].rule = "R14" /\ table[5].rule = "R7" /\ table[6].rule = "R8"
      /\ table[7].rule = "raises" /\ table[8].rule = "R13" /\ table[9].rule = "R14"
      /\ table[10].rule = BandOf(target, Received(i), drift)
  BY DEF RuleTable
<1>2. /\ table[3].when = (Candidates(i) # <<>> /\ found = <<>>)
      /\ table[6].when = (found = <<>>) /\ table[7].when = DividesByZero(found)
      /\ table[8].when = (i.credited.needed /\ i.credited.rate = None)
      /\ table[9].when = i.crossOu /\ table[10].when = TRUE
  BY DEF RuleTable
<1>3. rule = table[Min(K)].rule
  BY DEF FirstRule
<1> HIDE DEF table
<1>4. K \in SUBSET Nat /\ 10 \in K
  BY <1>1, <1>2
<1>5. Min(K) \in K /\ \A k \in K : Min(K) <= k
  <2> HIDE DEF K
  <2> QED
    BY <1>4, Least
<1>6. Min(K) \in 1..10 /\ table[Min(K)].when /\ \A k \in 1..10 : k < Min(K) => ~table[k].when
  <2>1. Min(K) \in 1..10 /\ table[Min(K)].when
    BY <1>1, <1>5
  <2>2. \A k \in 1..10 : table[k].when => Min(K) <= k
    BY <1>1, <1>5
  <2> HIDE DEF K
  <2>3. QED
    BY <2>1, <2>2
<1>7. table[10].rule \in Bands
  BY <1>1, BandIsBand
<1> DEFINE m == Min(K)
<1>8. m \in 1..10 /\ rule = table[m].rule /\ table[m].when /\ \A k \in 1..10 : k < m => ~table[k].when
  BY <1>3, <1>6
<1> HIDE DEF m
<1>9. rule \in Rules
  BY <1>1, <1>7, <1>8 DEF Rules, Bands
<1>10. ASSUME rule = "R4" PROVE m = 3
  <2>1. m # 10
    BY <1>7, <1>8, <1>10 DEF Bands
  <2>2. m \in {1, 2, 3, 4, 5, 6, 7, 8, 9}
    BY <1>8, <2>1
  <2>3. QED
    BY <1>1, <1>8, <1>10, <2>2
<1>11. ASSUME rule \in Bands PROVE m = 10
  BY <1>1, <1>8, <1>11 DEF Bands
<1>12. ASSUME rule \in Bands
       PROVE  ~table[6].when /\ ~table[7].when /\ ~table[8].when /\ ~table[9].when
  BY <1>8, <1>11, <1>12
<1>13. QED
  BY ZenonT(40), <1>1, <1>2, <1>8, <1>9, <1>10, <1>11, <1>12
=============================================================================
