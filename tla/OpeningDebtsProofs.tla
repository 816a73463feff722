-------------------------- MODULE OpeningDebtsProofs --------------------------
(***************************************************************************)
(* What the operators of OpeningDebts compute, for any rows: what a sum of *)
(* amounts is, which rows Fitting links to a debt, and what number the     *)
(* next row gets.  FilingProofs and CounterpartyMergeProofs rest on it.    *)
(*                                                                         *)
(* A sum over a set is a fold, and a fold a recursive function chosen to   *)
(* satisfy its equation.  That there is one, and that what is said of it   *)
(* holds at every size, is shown from a least counterexample.              *)
(***************************************************************************)
EXTENDS OpeningDebts, FiniteSetTheorems, WellFoundedInduction, TLAPS

\* A set of naturals that is not empty has a least element.
LEMMA LeastCounterexample ==
    ASSUME NEW B, B \subseteq Nat, B # {}
    PROVE  \E n \in B : \A m \in B : ~(m < n)
<1>1. PICK n \in B : \A m \in B : <<m, n>> \notin OpToRel(<, Nat)
  BY WFMin, NatLessThanWellFounded
<1> QED BY <1>1 DEF OpToRel

\* g is the recursion that starts from `base`, a step at a time up to N.
Counts(g, N, base, step) ==
    \A n \in 0..N : g[n] = IF n = 0 THEN base ELSE step[<<n, g[n - 1]>>]

\* A recursion over 0..N has a solution.
LEMMA CountingExists ==
    ASSUME NEW N \in Nat, NEW V, NEW base \in V, NEW step \in [(1..N) \X V -> V]
    PROVE  \E g \in [0..N -> V] : Counts(g, N, base, step)
<1> DEFINE Right(n, g) ==
              \A i \in 0..n : g[i] = IF i = 0 THEN base ELSE step[<<i, g[i - 1]>>]
           Solved(n) == \E g \in [0..n -> V] : Right(n, g)
           Bad == {n \in 0..N : ~Solved(n)}
<1>1. Solved(0)
  <2> DEFINE g == [i \in 0..0 |-> base]
  <2>1. g \in [0..0 -> V] /\ Right(0, g)
    OBVIOUS
  <2> QED BY <2>1
<1>2. ASSUME NEW n \in 1..N, Solved(n - 1) PROVE Solved(n)
  <2>1. PICK h \in [0..(n - 1) -> V] : Right(n - 1, h)
    BY <1>2
  <2> DEFINE g == [i \in 0..n |-> IF i = n THEN step[<<n, h[n - 1]>>] ELSE h[i]]
  <2>2. h[n - 1] \in V /\ n - 1 \in 0..(n - 1)
    OBVIOUS
  <2>3. ASSUME NEW i \in 0..n
        PROVE  g[i] \in V /\ g[i] = IF i = 0 THEN base ELSE step[<<i, g[i - 1]>>]
    <3>1. CASE i = n
      <4>1. g[i - 1] = h[n - 1] /\ g[i] = step[<<n, h[n - 1]>>] /\ i # 0
        BY <3>1, <2>2
      <4>2. step[<<n, h[n - 1]>>] \in V
        BY <2>2
      <4> HIDE DEF g
      <4> QED BY <3>1, <4>1, <4>2
    <3>2. CASE i # n
      <4>1. /\ i \in 0..(n - 1) /\ g[i] = h[i]
            /\ i # 0 => i - 1 \in 0..(n - 1) /\ g[i - 1] = h[i - 1]
        BY <3>2
      <4>2. h[i] \in V /\ h[i] = IF i = 0 THEN base ELSE step[<<i, h[i - 1]>>]
        BY <2>1, <4>1
      <4> HIDE DEF g
      <4> QED BY <4>1, <4>2
    <3> QED BY <3>1, <3>2
  <2>4. g \in [0..n -> V] /\ Right(n, g)
    BY <2>3
  <2> QED BY <2>4
<1>3. Bad = {}
  <2> SUFFICES ASSUME Bad # {} PROVE FALSE
    OBVIOUS
  <2>1. PICK n \in Bad : \A m \in Bad : ~(m < n)
    <3>1. Bad \subseteq Nat
      OBVIOUS
    <3> HIDE DEF Bad
    <3> QED BY <3>1, LeastCounterexample
  <2> HIDE DEF Solved
  <2>2. n \in 1..N
    BY <1>1
  <2>3. n - 1 \in 0..N /\ n - 1 < n
    BY <2>2
  <2>4. Solved(n - 1)
    BY <2>1, <2>3
  <2> QED BY <1>2, <2>2, <2>4
<1>4. Solved(N)
  <2> HIDE DEF Solved
  <2> QED BY <1>3
<1> QED BY <1>4 DEF Counts

Picks(pick, D) == \A s \in SUBSET D : s # {} => pick[s] \in s
Solves(g, D, base, step, pick) ==
    \A s \in SUBSET D : g[s] = IF s = {} THEN base ELSE step[<<pick[s], g[s \ {pick[s]}]>>]

\* Some function on the subsets is what folding computes.
LEMMA FoldExists ==
    ASSUME NEW D, IsFiniteSet(D), NEW V, NEW base \in V, NEW step \in [D \X V -> V],
           NEW pick, Picks(pick, D)
    PROVE  \E g \in [SUBSET D -> V] : Solves(g, D, base, step, pick)
<1> DEFINE Small(n) == {s \in SUBSET D : Cardinality(s) <= n}
           Right(n, g) == \A s \in Small(n) :
              g[s] = IF s = {} THEN base ELSE step[<<pick[s], g[s \ {pick[s]}]>>]
           Solved(n) == \E g \in [Small(n) -> V] : Right(n, g)
           Bad == {n \in Nat : ~Solved(n)}
<1>1. \A s \in SUBSET D : IsFiniteSet(s) /\ Cardinality(s) \in Nat
                           /\ (Cardinality(s) = 0 <=> s = {})
  BY FS_Subset, FS_CardinalityType, FS_EmptySet
<1>2. \A s \in SUBSET D : s # {} =>
         /\ pick[s] \in D
         /\ s \ {pick[s]} \in SUBSET D /\ Cardinality(s \ {pick[s]}) = Cardinality(s) - 1
  BY <1>1, FS_RemoveElement DEF Picks
<1>3. Solved(0)
  <2> DEFINE g == [s \in Small(0) |-> base]
  <2>1. Small(0) = {{}}
    BY <1>1
  <2>2. g \in [Small(0) -> V] /\ Right(0, g)
    BY <2>1
  <2> QED BY <2>2
<1>4. ASSUME NEW n \in Nat \ {0}, Solved(n - 1) PROVE Solved(n)
  <2>1. PICK h \in [Small(n-1) -> V] : Right(n-1, h)
    BY <1>4
  <2> DEFINE g == [s \in Small(n) |-> IF Cardinality(s) <= n - 1 THEN h[s]
                                      ELSE step[<<pick[s], h[s \ {pick[s]}]>>]]
  <2>2. ASSUME NEW s \in Small(n)
        PROVE  /\ g[s] \in V
               /\ g[s] = IF s = {} THEN base ELSE step[<<pick[s], g[s \ {pick[s]}]>>]
    <3>1. s \in SUBSET D /\ Cardinality(s) \in Nat
      BY <1>1
    <3>2. CASE s = {}
      <4>1. s \in Small(n-1) /\ Cardinality(s) <= n-1
        BY <3>2, <1>1
      <4> QED BY <3>2, <4>1, <2>1
    <3>3. CASE s # {}
      <4>1. /\ s \ {pick[s]} \in Small(n) /\ s \ {pick[s]} \in Small(n-1)
            /\ Cardinality(s \ {pick[s]}) <= n - 1 /\ pick[s] \in D
        BY <3>1, <3>3, <1>2
      <4>2. g[s \ {pick[s]}] = h[s \ {pick[s]}] /\ h[s \ {pick[s]}] \in V
        BY <4>1, <2>1
      <4>3. CASE Cardinality(s) <= n - 1
        <5>1. s \in Small(n-1)
          BY <4>3
        <5>2. g[s] = h[s]
          BY <4>3
        <5> QED BY <5>1, <5>2, <4>2, <2>1, <3>3
      <4>4. CASE ~(Cardinality(s) <= n - 1)
        BY <4>4, <4>1, <4>2, <3>3
      <4> QED BY <4>3, <4>4
    <3> QED BY <3>2, <3>3
  <2>3. g \in [Small(n) -> V] /\ Right(n, g)
    BY <2>2
  <2> QED BY <2>3
<1>5. Bad = {}
  <2> SUFFICES ASSUME Bad # {} PROVE FALSE
    OBVIOUS
  <2> HIDE DEF Solved
  <2>1. PICK n \in Bad : \A m \in Bad : ~(m < n)
    <3>1. Bad \subseteq Nat
      OBVIOUS
    <3> HIDE DEF Bad
    <3> QED BY <3>1, LeastCounterexample
  <2>2. n \in Nat \ {0}
    BY <1>3
  <2>3. n - 1 \in Nat /\ n - 1 < n
    BY <2>2
  <2>4. Solved(n - 1)
    BY <2>1, <2>3
  <2> QED BY <1>4, <2>2, <2>4
<1>6. Cardinality(D) \in Nat /\ Small(Cardinality(D)) = SUBSET D
  BY <1>1, FS_Subset, FS_CardinalityType
<1>7. PICK g \in [Small(Cardinality(D)) -> V] : Right(Cardinality(D), g)
  <2>1. Solved(Cardinality(D))
    <3> HIDE DEF Solved
    <3> QED BY <1>5, <1>6
  <2> QED BY <2>1
<1> QED BY <1>6, <1>7 DEF Solves

Pick(s) == CHOOSE x \in s : TRUE

\* g is the sum of f over every part of S, an element picked at a time.
Adds(g, f, S) ==
    \A s \in SUBSET S : g[s] = IF s = {} THEN 0 ELSE f[Pick(s)] + g[s \ {Pick(s)}]

\* Two folds that add the same amounts over a set agree on it.
LEMMA FoldsAgree ==
    ASSUME NEW S, IsFiniteSet(S), NEW f1, NEW f2, \A x \in S : f1[x] = f2[x], NEW g1, NEW g2,
           Adds(g1, f1, S), Adds(g2, f2, S)
    PROVE  g1[S] = g2[S]
<1> DEFINE Bad == {n \in Nat : \E s \in SUBSET S : Cardinality(s) = n /\ g1[s] # g2[s]}
<1>1. Bad = {}
  <2> SUFFICES ASSUME Bad # {} PROVE FALSE
    OBVIOUS
  <2>1. PICK n \in Bad : \A m \in Bad : ~(m < n)
    <3>1. Bad \subseteq Nat
      OBVIOUS
    <3> HIDE DEF Bad
    <3> QED BY <3>1, LeastCounterexample
  <2>2. PICK s \in SUBSET S : Cardinality(s) = n /\ g1[s] # g2[s]
    OBVIOUS
  <2>3. s # {}
    BY <2>2 DEF Adds
  <2>4. Pick(s) \in s
    BY <2>3 DEF Pick
  <2> DEFINE rest == s \ {Pick(s)}
  <2>5. IsFiniteSet(s) /\ n \in Nat
    BY <2>2, FS_Subset
  <2>6. rest \in SUBSET S /\ Cardinality(rest) = n - 1 /\ n - 1 \in Nat
    <3>1. Cardinality(rest) = n - 1
      BY <2>2, <2>4, <2>5, FS_RemoveElement
    <3>2. Cardinality(rest) \in Nat
      BY <2>5, FS_RemoveElement, FS_CardinalityType
    <3> QED BY <3>1, <3>2
  <2>7. g1[rest] = g2[rest]
    <3>1. n - 1 \notin Bad
      BY <2>1, <2>5, <2>6
    <3> QED BY <2>6, <3>1
  <2>8. f1[Pick(s)] = f2[Pick(s)]
    BY <2>4
  <2> QED BY <2>2, <2>3, <2>7, <2>8 DEF Adds
<1>2. Cardinality(S) \in Nat /\ Cardinality(S) \notin Bad
  BY <1>1, FS_CardinalityType
<1> QED BY <1>2

\* SumFunctionOnSet is such a fold of addition.
LEMMA SumIsAFold ==
  ASSUME NEW D, IsFiniteSet(D), NEW f, \A x \in D : f[x] \in Int
  PROVE  \E g \in [SUBSET D -> Int] : Adds(g, f, D) /\ SumFunctionOnSet(f, D) = g[D]
<1> DEFINE step == [p \in D \X Int |-> f[p[1]] + p[2]]
           pick == [s \in SUBSET D |-> Pick(s)]
           Rec(g) == g = [s \in SUBSET D |-> IF s = {} THEN 0 ELSE f[Pick(s)] + g[s \ {Pick(s)}]]
           iter == CHOOSE g : Rec(g)
<1>1. step \in [D \X Int -> Int]
  OBVIOUS
<1>2. \A s \in SUBSET D : s # {} => pick[s] \in s /\ pick[s] = Pick(s) /\ s \ {Pick(s)} \in SUBSET D
  BY DEF Pick
<1>3. PICK g \in [SUBSET D -> Int] : Solves(g, D, 0, step, pick)
  <2>1. Picks(pick, D)
    <3> HIDE DEF pick
    <3> QED BY <1>2 DEF Picks
  <2>2. 0 \in Int
    OBVIOUS
  <2> HIDE DEF step, pick
  <2> QED BY <1>1, <2>1, <2>2, FoldExists
<1>4. Adds(g, f, D)
  <2> SUFFICES ASSUME NEW s \in SUBSET D
               PROVE  g[s] = IF s = {} THEN 0 ELSE f[Pick(s)] + g[s \ {Pick(s)}]
    BY DEF Adds
  <2>1. CASE s = {}
    BY <2>1, <1>3 DEF Solves
  <2>2. CASE s # {}
    <3>1. Pick(s) \in D /\ g[s \ {Pick(s)}] \in Int
      BY <1>2, <2>2
    <3>2. step[<<Pick(s), g[s \ {Pick(s)}]>>] = f[Pick(s)] + g[s \ {Pick(s)}]
      BY <3>1
    <3> HIDE DEF step, pick
    <3> QED BY <1>2, <1>3, <2>2, <3>2 DEF Solves
  <2> QED BY <2>1, <2>2
<1>5. Rec(g)
  BY <1>4 DEF Adds
<1>6. Rec(iter)
  <2> HIDE DEF Rec
  <2> QED BY <1>5
<1>7. SumFunctionOnSet(f, D) = iter[D]
  BY DEF SumFunctionOnSet, FoldFunctionOnSet, MapThenFoldSet, Pick
<1>8. Adds(iter, f, D)
  <2> HIDE DEF iter
  <2> QED BY <1>6 DEF Adds
<1>9. iter[D] = g[D]
  <2> HIDE DEF iter, step, pick, Rec
  <2> QED BY <1>4, <1>8, FoldsAgree
<1> HIDE DEF iter, step, pick, Rec
<1> QED BY <1>3, <1>4, <1>7, <1>9

\* A sum depends only on what is summed.
LEMMA SumIsTheSame ==
    ASSUME NEW S, IsFiniteSet(S), NEW f, NEW g, \A x \in S : f[x] \in Int /\ f[x] = g[x]
    PROVE  SumFunctionOnSet(f, S) = SumFunctionOnSet(g, S)
<1>1. PICK h \in [SUBSET S -> Int] :
           Adds(h, f, S) /\ SumFunctionOnSet(f, S) = h[S]
  BY SumIsAFold
<1>2. \A x \in S : g[x] \in Int
  OBVIOUS
<1>3. PICK k \in [SUBSET S -> Int] :
           Adds(k, g, S) /\ SumFunctionOnSet(g, S) = k[S]
  BY <1>2, SumIsAFold
<1>4. h[S] = k[S]
  BY <1>1, <1>3, FoldsAgree
<1> QED BY <1>1, <1>3, <1>4

\* A sum is what it takes first and the sum of the rest.
LEMMA SumAtThePick ==
    ASSUME NEW S, IsFiniteSet(S), NEW f, \A x \in S : f[x] \in Int
    PROVE  /\ SumFunctionOnSet(f, S) \in Int
           /\ S = {} => SumFunctionOnSet(f, S) = 0
           /\ S # {} => /\ Pick(S) \in S
                        /\ SumFunctionOnSet(f, S) =
                             f[Pick(S)] + SumFunctionOnSet(f, S \ {Pick(S)})
<1>1. PICK g \in [SUBSET S -> Int] :
           Adds(g, f, S) /\ SumFunctionOnSet(f, S) = g[S]
  BY SumIsAFold
<1>2. SumFunctionOnSet(f, S) \in Int /\ (S = {} => SumFunctionOnSet(f, S) = 0)
  BY <1>1 DEF Adds
<1>3. ASSUME S # {}
      PROVE  Pick(S) \in S /\ SumFunctionOnSet(f, S) =
                             f[Pick(S)] + SumFunctionOnSet(f, S \ {Pick(S)})
  <2> DEFINE rest == S \ {Pick(S)}
  <2>1. Pick(S) \in S
    BY <1>3 DEF Pick
  <2>2. IsFiniteSet(rest) /\ rest \in SUBSET S /\ SUBSET rest \subseteq SUBSET S
    BY FS_RemoveElement
  <2>3. PICK h \in [SUBSET rest -> Int] :
           Adds(h, f, rest) /\ SumFunctionOnSet(f, rest) = h[rest]
    <3>1. \A x \in rest : f[x] \in Int
      OBVIOUS
    <3> HIDE DEF rest
    <3> QED BY <2>2, <3>1, SumIsAFold
  <2>4. Adds(g, f, rest)
    BY <1>1, <2>2 DEF Adds
  <2>5. h[rest] = g[rest]
    <3> HIDE DEF rest
    <3> QED BY <2>2, <2>3, <2>4, FoldsAgree
  <2> QED BY <1>1, <1>3, <2>1, <2>3, <2>5 DEF Adds
<1> QED BY <1>2, <1>3

\* The empty sum.
LEMMA SumOfNothing == \A f : SumFunctionOnSet(f, {}) = 0
<1> TAKE f
<1>1. IsFiniteSet({}) /\ \A x \in {} : f[x] \in Int
  BY FS_EmptySet
<1>2. {} = {} => SumFunctionOnSet(f, {}) = 0
  BY <1>1, SumAtThePick
<1> QED BY <1>2

\* Any element of a sum may be taken out.
LEMMA SumTakesOut ==
    ASSUME NEW S, IsFiniteSet(S), NEW f, \A x \in S : f[x] \in Int, NEW x \in S
    PROVE  /\ SumFunctionOnSet(f, S) \in Int
           /\ SumFunctionOnSet(f, S \ {x}) \in Int
           /\ SumFunctionOnSet(f, S) = f[x] + SumFunctionOnSet(f, S \ {x})
<1> DEFINE Sum(s) == SumFunctionOnSet(f, s)
           Out(s) == \A y \in s : Sum(s) = f[y] + Sum(s \ {y})
           Bad == {n \in Nat : \E s \in SUBSET S : Cardinality(s) = n /\ ~Out(s)}
<1>1. \A s \in SUBSET S : /\ IsFiniteSet(s) /\ Cardinality(s) \in Nat /\ Sum(s) \in Int
                          /\ s # {} => Pick(s) \in s /\ Sum(s) = f[Pick(s)] + Sum(s \ {Pick(s)})
  BY FS_Subset, FS_CardinalityType, SumAtThePick
<1> HIDE DEF Sum
<1>2. Bad = {}
  <2> SUFFICES ASSUME Bad # {} PROVE FALSE
    OBVIOUS
  <2>1. PICK n \in Bad : \A m \in Bad : ~(m < n)
    <3>1. Bad \subseteq Nat
      OBVIOUS
    <3> HIDE DEF Bad
    <3> QED BY <3>1, LeastCounterexample
  <2>2. PICK s \in SUBSET S : Cardinality(s) = n /\ ~Out(s)
    OBVIOUS
  <2> PICK y \in s : Sum(s) # f[y] + Sum(s \ {y})
    BY <2>2
  <2> DEFINE p == Pick(s)
             r == s \ {p}
             q == s \ {y}
             both == s \ {p, y}
  <2>3. p \in s /\ Sum(s) = f[p] + Sum(r) /\ p # y
    BY <1>1
  <2>4. /\ r \in SUBSET S /\ q \in SUBSET S /\ both \in SUBSET S
        /\ y \in r /\ p \in q /\ r \ {y} = both /\ q \ {p} = both
    BY <2>3
  <2>5. Cardinality(r) = n - 1 /\ Cardinality(q) = n - 1 /\ n - 1 \in Nat
    <3>1. Cardinality(r) = n - 1 /\ Cardinality(q) = n - 1
      BY <1>1, <2>2, <2>3, FS_RemoveElement
    <3>2. Cardinality(r) \in Nat
      BY <1>1, <2>4
    <3> QED BY <3>1, <3>2
  <2> HIDE DEF r, q, both, p
  <2>6. Out(r) /\ Out(q)
    <3>1. n - 1 \notin Bad
      BY <2>1, <2>5
    <3> QED BY <2>4, <2>5, <3>1
  <2>7. Sum(r) = f[y] + Sum(both) /\ Sum(q) = f[p] + Sum(both)
    BY <2>4, <2>6
  <2>8. Sum(both) \in Int /\ f[p] \in Int /\ f[y] \in Int
    BY <1>1, <2>3, <2>4
  <2>9. Sum(s) = f[y] + Sum(q)
    BY <2>3, <2>7, <2>8
  <2> QED BY <2>9 DEF q
<1>3. Out(S)
  <2>1. Cardinality(S) \notin Bad
    BY <1>2
  <2> QED BY <1>1, <2>1
<1>4. Sum(S) \in Int /\ Sum(S \ {x}) \in Int
  BY <1>1
<1> QED BY <1>3, <1>4 DEF Sum

\* Where no element is negative, neither is the sum.
LEMMA SumIsNotNegative ==
    ASSUME NEW S, IsFiniteSet(S), NEW f, \A x \in S : f[x] \in Nat
    PROVE  SumFunctionOnSet(f, S) \in Nat
<1> DEFINE F(s) == SumFunctionOnSet(f, s)
           Bad == {n \in Nat : \E s \in SUBSET S : Cardinality(s) = n /\ F(s) \notin Nat}
<1>1. ASSUME NEW s \in SUBSET S
      PROVE  /\ IsFiniteSet(s) /\ Cardinality(s) \in Nat /\ F(s) \in Int
             /\ s = {} => F(s) = 0
             /\ s # {} => Pick(s) \in s /\ F(s) = f[Pick(s)] + F(s \ {Pick(s)})
  <2>1. IsFiniteSet(s) /\ Cardinality(s) \in Nat
    BY FS_Subset, FS_CardinalityType
  <2>2. \A x \in s : f[x] \in Int
    OBVIOUS
  <2> QED BY <2>1, <2>2, SumAtThePick
<1> HIDE DEF F
<1>2. Bad = {}
  <2> SUFFICES ASSUME Bad # {} PROVE FALSE
    OBVIOUS
  <2>1. PICK n \in Bad : \A m \in Bad : ~(m < n)
    <3>1. Bad \subseteq Nat
      OBVIOUS
    <3> HIDE DEF Bad
    <3> QED BY <3>1, LeastCounterexample
  <2>2. PICK s \in SUBSET S : Cardinality(s) = n /\ F(s) \notin Nat
    OBVIOUS
  <2> DEFINE p == Pick(s)
             r == s \ {p}
  <2>3. p \in s /\ F(s) = f[p] + F(r)
    BY <1>1, <2>2
  <2>4. r \in SUBSET S /\ Cardinality(r) = n - 1 /\ n - 1 \in Nat
    <3>1. Cardinality(r) = n - 1
      BY <1>1, <2>2, <2>3, FS_RemoveElement
    <3>2. Cardinality(r) \in Nat
      BY <1>1
    <3> QED BY <3>1, <3>2
  <2> HIDE DEF r, p
  <2>5. F(r) \in Nat
    <3>1. n - 1 \notin Bad
      BY <2>1, <2>4
    <3> QED BY <2>4, <3>1
  <2>6. f[p] \in Nat
    BY <2>3
  <2> QED BY <2>2, <2>3, <2>5, <2>6
<1>3. Cardinality(S) \in Nat /\ Cardinality(S) \notin Bad
  BY <1>2, FS_CardinalityType
<1> QED BY <1>3 DEF F

\* The sum over two sets that share nothing.
LEMMA SumOfBoth ==
    ASSUME NEW S, IsFiniteSet(S), NEW T, IsFiniteSet(T), S \cap T = {},
           NEW f, \A x \in S \cup T : f[x] \in Int
    PROVE  SumFunctionOnSet(f, S \cup T) = SumFunctionOnSet(f, S) + SumFunctionOnSet(f, T)
<1> DEFINE F(s) == SumFunctionOnSet(f, s)
           Splits(s) == F(S \cup s) = F(S) + F(s)
           Bad == {n \in Nat : \E s \in SUBSET T : Cardinality(s) = n /\ ~Splits(s)}
<1>1. ASSUME NEW s \in SUBSET (S \cup T)
      PROVE  /\ IsFiniteSet(s) /\ Cardinality(s) \in Nat /\ F(s) \in Int
             /\ s = {} => F(s) = 0
             /\ \A x \in s : F(s) = f[x] + F(s \ {x})
  <2>1. IsFiniteSet(s) /\ Cardinality(s) \in Nat
    BY FS_Union, FS_Subset, FS_CardinalityType
  <2>2. \A x \in s : f[x] \in Int
    OBVIOUS
  <2>3. F(s) \in Int /\ (s = {} => F(s) = 0)
    BY <2>1, <2>2, SumAtThePick
  <2>4. \A x \in s : F(s) = f[x] + F(s \ {x})
    BY <2>1, <2>2, SumTakesOut
  <2> QED BY <2>1, <2>3, <2>4
<1> HIDE DEF F
<1>2. Bad = {}
  <2> SUFFICES ASSUME Bad # {} PROVE FALSE
    OBVIOUS
  <2>1. PICK n \in Bad : \A m \in Bad : ~(m < n)
    <3>1. Bad \subseteq Nat
      OBVIOUS
    <3> HIDE DEF Bad
    <3> QED BY <3>1, LeastCounterexample
  <2>2. PICK s \in SUBSET T : Cardinality(s) = n /\ ~Splits(s)
    OBVIOUS
  <2>3. s # {}
    <3>1. SUFFICES ASSUME s = {} PROVE FALSE
      OBVIOUS
    <3>2. S \cup s = S /\ F(s) = 0 /\ F(S) \in Int
      BY <1>1, <3>1
    <3> QED BY <2>2, <3>2
  <2>4. PICK x \in s : TRUE
    BY <2>3
  <2> DEFINE r == s \ {x}
  <2>5. r \in SUBSET T /\ Cardinality(r) = n - 1 /\ n - 1 \in Nat
    <3>1. IsFiniteSet(s) /\ s \in SUBSET (S \cup T) /\ r \in SUBSET (S \cup T)
      BY <1>1
    <3>2. Cardinality(r) = n - 1
      BY <2>2, <3>1, FS_RemoveElement
    <3>3. Cardinality(r) \in Nat
      BY <1>1, <3>1
    <3> QED BY <3>2, <3>3
  <2>6. (S \cup s) \ {x} = S \cup r /\ x \in S \cup s
    OBVIOUS
  <2>7. F(S \cup s) = f[x] + F(S \cup r) /\ F(s) = f[x] + F(r)
    <3>1. S \cup s \in SUBSET (S \cup T) /\ s \in SUBSET (S \cup T)
      OBVIOUS
    <3> HIDE DEF r
    <3>2. F(S \cup s) = f[x] + F((S \cup s) \ {x})
      BY <1>1, <2>6, <3>1
    <3>3. F(s) = f[x] + F(s \ {x})
      BY <1>1, <3>1
    <3> QED BY <2>6, <3>2, <3>3 DEF r
  <2>8. /\ f[x] \in Int /\ F(S) \in Int /\ F(r) \in Int /\ F(S \cup r) \in Int
        /\ F(S \cup s) \in Int /\ F(s) \in Int
    <3>1. /\ S \cup s \in SUBSET (S \cup T) /\ S \cup r \in SUBSET (S \cup T)
          /\ s \in SUBSET (S \cup T) /\ S \in SUBSET (S \cup T) /\ r \in SUBSET (S \cup T)
      OBVIOUS
    <3> QED BY <1>1, <3>1
  <2> HIDE DEF r
  <2>9. Splits(r)
    <3>1. n - 1 \notin Bad
      <4>1. n - 1 < n
        BY <2>5
      <4> HIDE DEF Bad
      <4> QED BY <2>1, <4>1
    <3> QED BY <2>5, <3>1
  <2>10. Splits(s)
    BY <2>7, <2>8, <2>9
  <2> QED BY <2>2, <2>10
<1>3. Cardinality(T) \in Nat /\ Cardinality(T) \notin Bad
  BY <1>2, FS_CardinalityType
<1>4. Splits(T)
  BY <1>3
<1> QED BY <1>4 DEF F

-----------------------------------------------------------------------------
(* The rows, as far as their links and amounts go.                          *)

Fields == {"obligation", "type", "amount", "settles", "link", "pair", "deleted"}
HasFields(r) == Fields \subseteq DOMAIN r

\* Transactions, of which each has a field and an amount.
AreRows(txs) ==
    /\ DOMAIN txs \subseteq RowIds
    /\ \A t \in DOMAIN txs : HasFields(txs[t]) /\ txs[t].amount \in Nat

\* Opening debts; one that is a sum may be past the ceiling.
AreDebts(debts) ==
    /\ DOMAIN debts \subseteq RowIds
    /\ \A d \in DOMAIN debts : debts[d].amount \in Int

\* Two versions of a row that differ at most in the link.
SameButLink(r, s) ==
    /\ s.obligation = r.obligation /\ s.type = r.type /\ s.amount = r.amount
    /\ s.settles = r.settles /\ s.pair = r.pair /\ s.deleted = r.deleted

\* There are finitely many rows, so that they have sums.
LEMMA RowsAreFinite == \A S : S \subseteq RowIds => IsFiniteSet(S)
<1>1. IsFiniteSet(RowIds)
  BY RowsAssumption, FS_Interval DEF RowIds
<1> QED BY <1>1, FS_Subset

\* WithLinks changes the links, and nothing else of a row.
LEMMA RelinkedRows ==
    ASSUME NEW txs, AreRows(txs), NEW cleared, NEW linked, NEW target
    PROVE  LET now == WithLinks(txs, cleared, linked, target) IN
           /\ DOMAIN now = DOMAIN txs /\ AreRows(now)
           /\ \A t \in DOMAIN txs :
                /\ SameButLink(txs[t], now[t])
                /\ now[t].link = IF t \in linked THEN target
                                 ELSE IF t \in cleared THEN NoRow ELSE txs[t].link
           /\ Live(now) = Live(txs)
           /\ AmountOf(now) = AmountOf(txs)
<1> DEFINE now == WithLinks(txs, cleared, linked, target)
<1>1. DOMAIN now = DOMAIN txs
  BY DEF WithLinks
<1>2. ASSUME NEW t \in DOMAIN txs
      PROVE  /\ HasFields(now[t]) /\ SameButLink(txs[t], now[t])
             /\ now[t].link = IF t \in linked THEN target
                              ELSE IF t \in cleared THEN NoRow ELSE txs[t].link
  <2>1. HasFields(txs[t])
    BY DEF AreRows
  <2>2. now[t] = IF t \in linked THEN [txs[t] EXCEPT !.link = target]
                 ELSE IF t \in cleared THEN [txs[t] EXCEPT !.link = NoRow] ELSE txs[t]
    BY DEF WithLinks
  <2> QED BY <2>1, <2>2 DEF HasFields, Fields, SameButLink
<1> HIDE DEF now
<1>3. AreRows(now)
  BY <1>1, <1>2 DEF AreRows, SameButLink
<1>4. Live(now) = Live(txs)
  BY <1>1, <1>2 DEF Live, SameButLink
<1>5. AmountOf(now) = AmountOf(txs)
  BY <1>1, <1>2 DEF AmountOf, SameButLink
<1> QED BY <1>1, <1>2, <1>3, <1>4, <1>5 DEF now

\* What sums of amounts are.
LEMMA TotalsAdd ==
    ASSUME NEW txs, AreRows(txs), NEW S \in SUBSET DOMAIN txs
    PROVE  /\ Total(txs, S) \in Nat
           /\ S = {} => Total(txs, S) = 0
           /\ \A t \in DOMAIN txs \ S : Total(txs, S \cup {t}) = Total(txs, S) + txs[t].amount
<1> DEFINE f == AmountOf(txs)
<1>1. \A t \in DOMAIN txs : f[t] \in Nat /\ f[t] = txs[t].amount
  BY DEF AreRows, AmountOf
<1>2. IsFiniteSet(S) /\ \A t \in DOMAIN txs : IsFiniteSet(S \cup {t})
  BY RowsAreFinite DEF AreRows
<1> HIDE DEF f
<1>3. SumFunctionOnSet(f, S) \in Nat
  BY <1>1, <1>2, SumIsNotNegative
<1>4. S = {} => SumFunctionOnSet(f, S) = 0
  BY SumOfNothing
<1>5. ASSUME NEW t \in DOMAIN txs \ S
      PROVE  SumFunctionOnSet(f, S \cup {t}) = SumFunctionOnSet(f, S) + f[t]
  <2>1. (S \cup {t}) \ {t} = S /\ t \in S \cup {t} /\ \A x \in S \cup {t} : f[x] \in Int
    BY <1>1
  <2>2. SumFunctionOnSet(f, S \cup {t}) = f[t] + SumFunctionOnSet(f, (S \cup {t}) \ {t})
    BY <1>2, <2>1, SumTakesOut
  <2>3. SumFunctionOnSet(f, (S \cup {t}) \ {t}) = SumFunctionOnSet(f, S)
    BY <2>1, Zenon
  <2>4. SumFunctionOnSet(f, S) \in Int /\ f[t] \in Int
    BY <1>1, <1>3
  <2> QED BY <2>2, <2>3, <2>4
<1> QED BY <1>1, <1>3, <1>4, <1>5 DEF Total, f

\* A part of the rows, in a table where they have the amounts they had.
LEMMA TotalsShrink ==
    ASSUME NEW txs, AreRows(txs), NEW now, AreRows(now), NEW S \in SUBSET DOMAIN txs,
           NEW T \in SUBSET S, T \subseteq DOMAIN now,
           \A t \in T : now[t].amount = txs[t].amount
    PROVE  Total(now, T) \in Nat /\ Total(now, T) <= Total(txs, S)
<1> DEFINE f == AmountOf(txs)
           g == AmountOf(now)
           rest == S \ T
<1>1. (\A t \in S : f[t] \in Nat) /\ (\A t \in T : g[t] \in Nat /\ g[t] = f[t])
  BY DEF AreRows, AmountOf
<1>2. IsFiniteSet(S) /\ IsFiniteSet(T) /\ IsFiniteSet(rest)
  BY RowsAreFinite DEF AreRows
<1>3. T \cap rest = {} /\ T \cup rest = S
  OBVIOUS
<1> HIDE DEF f, g, rest
<1>4. SumFunctionOnSet(f, T) \in Nat /\ SumFunctionOnSet(f, rest) \in Nat
  BY <1>1, <1>2, <1>3, SumIsNotNegative
<1>5. SumFunctionOnSet(f, S) = SumFunctionOnSet(f, T) + SumFunctionOnSet(f, rest)
  <2>1. \A x \in T \cup rest : f[x] \in Int
    BY <1>1, <1>3
  <2>2. SumFunctionOnSet(f, T \cup rest) = SumFunctionOnSet(f, T) + SumFunctionOnSet(f, rest)
    BY <1>2, <1>3, <2>1, SumOfBoth
  <2> QED BY <1>3, <2>2
<1>6. SumFunctionOnSet(g, T) = SumFunctionOnSet(f, T)
  <2>1. \A x \in T : g[x] \in Int /\ g[x] = f[x]
    BY <1>1
  <2> QED BY <1>2, <2>1, SumIsTheSame
<1> QED BY <1>4, <1>5, <1>6 DEF Total, f, g

-----------------------------------------------------------------------------
(* Deciding the links of an opening debt again.                             *)

\* t is of the debt's person and reduces it.
Suits(debts, txs, t, d) ==
    d \in DebtsOf(debts, txs[t].obligation) /\ Reduces(debts[d], txs[t].type)

\* `linked` holds candidates, which suit the target and discharge no more than
\* it was.
Decided(debts, txs, candidates, linked, target) ==
    /\ linked \subseteq candidates
    /\ \A t \in linked : txs[t].settles /\ Suits(debts, txs, t, target)
    /\ target \in Live(debts) => Total(txs, linked) <= Size(debts[target])

\* An opening debt has a size.
LEMMA SizeIsNatural == ASSUME NEW debts, AreDebts(debts), NEW d \in DOMAIN debts
                       PROVE  Size(debts[d]) \in Nat
BY DEF AreDebts, Size

\* The repayments of the target, once the candidates are decided.
LEMMA RepaymentsAreTheLinked ==
    ASSUME NEW txs, AreRows(txs), NEW target, target # NoRow,
           NEW candidates \in SUBSET Live(txs), Repayments(txs, target) \subseteq candidates,
           NEW linked \in SUBSET candidates
    PROVE  LET now == WithLinks(txs, candidates, linked, target) IN
           Repayments(now, target) = linked /\ Repaid(now, target) = Total(txs, linked)
<1> DEFINE now == WithLinks(txs, candidates, linked, target)
<1>1. /\ DOMAIN now = DOMAIN txs /\ Live(now) = Live(txs) /\ AmountOf(now) = AmountOf(txs)
      /\ \A t \in DOMAIN txs : now[t].link = IF t \in linked THEN target
                                            ELSE IF t \in candidates THEN NoRow ELSE txs[t].link
  BY RelinkedRows
<1> HIDE DEF now
<1>2. Live(txs) \subseteq DOMAIN txs
  BY DEF Live
<1>3. Repayments(now, target) = linked
  BY <1>1, <1>2 DEF Repayments
<1> QED BY <1>1, <1>3 DEF Repaid, Total, now

\* Linking a row that fits leaves the target no more repaid than it is large.
LEMMA OneMoreFits ==
    ASSUME NEW debts, AreDebts(debts), NEW txs, AreRows(txs), NEW target,
           NEW candidates \in SUBSET Live(txs),
           target \in Live(debts) => Repayments(txs, target) \subseteq candidates,
           NEW linked, Decided(debts, txs, candidates, linked, target),
           NEW t \in candidates, t \notin linked,
           Fits(debts, txs, candidates, linked, target, t)
    PROVE  Decided(debts, txs, candidates, linked \cup {t}, target)
<1> DEFINE now == WithLinks(txs, candidates, linked, target)
<1>1. /\ txs[t].settles /\ target \in OpeningLink(debts, now, txs[t].obligation, txs[t].type)
      /\ txs[t].amount <= StillOpen(debts, now, target)
  BY DEF Fits
<1> HIDE DEF now
<1>2. target \in Live(debts) /\ target \in DOMAIN debts /\ target # NoRow
  BY <1>1, RowsAssumption DEF OpeningLink, DebtsOf, Live, AreDebts, RowIds, NoRow
<1>3. Suits(debts, txs, t, target)
  BY <1>1 DEF OpeningLink, Suits
<1>4. linked \subseteq candidates /\ Live(txs) \subseteq DOMAIN txs
  BY DEF Decided, Live
<1>5. Repaid(now, target) = Total(txs, linked)
  BY <1>2, <1>4, RepaymentsAreTheLinked DEF now
<1>6. Total(txs, linked) \in Nat /\ Total(txs, linked \cup {t}) = Total(txs, linked) + txs[t].amount
  <2>1. linked \in SUBSET DOMAIN txs /\ t \in DOMAIN txs \ linked
    BY <1>4
  <2> QED BY <2>1, TotalsAdd
<1>7. Size(debts[target]) \in Nat /\ txs[t].amount \in Nat
  BY <1>2, <1>4, SizeIsNatural DEF AreRows
<1>8. Total(txs, linked \cup {t}) <= Size(debts[target])
  BY <1>1, <1>5, <1>6, <1>7 DEF StillOpen
<1> QED BY <1>1, <1>3, <1>4, <1>8 DEF Decided

\* What Fitting links: by induction on the rows decided so far.
LEMMA FittingDecides ==
    ASSUME NEW debts, AreDebts(debts), NEW txs, AreRows(txs), NEW target,
           NEW candidates \in SUBSET Live(txs),
           target \in Live(debts) => Repayments(txs, target) \subseteq candidates
    PROVE  Decided(debts, txs, candidates, Fitting(debts, txs, candidates, target), target)
<1> DEFINE N == MaxRows
           step == [p \in (1..N) \X SUBSET candidates |->
                      IF p[1] \in candidates /\ Fits(debts, txs, candidates, p[2], target, p[1])
                      THEN p[2] \cup {p[1]} ELSE p[2]]
           Rec(g) == g = [n \in 0..MaxRows |->
                      IF n = 0 THEN {}
                      ELSE IF n \in candidates
                              /\ Fits(debts, txs, candidates, g[n - 1], target, n)
                           THEN g[n - 1] \cup {n} ELSE g[n - 1]]
           linked == CHOOSE g : Rec(g)
<1>1. MaxRows \in Nat
  BY RowsAssumption
<1>2. step \in [(1..N) \X SUBSET candidates -> SUBSET candidates] /\ {} \in SUBSET candidates
  OBVIOUS
<1>3. PICK g \in [0..N -> SUBSET candidates] : Counts(g, N, {}, step)
  <2> HIDE DEF step
  <2> QED BY <1>1, <1>2, CountingExists
<1>4. ASSUME NEW n \in 0..MaxRows
      PROVE  g[n] = IF n = 0 THEN {}
                    ELSE IF n \in candidates
                            /\ Fits(debts, txs, candidates, g[n - 1], target, n)
                         THEN g[n - 1] \cup {n} ELSE g[n - 1]
  <2>1. CASE n = 0
    BY <1>3, <2>1 DEF Counts
  <2>2. CASE n # 0
    <3>1. n \in 1..N /\ n - 1 \in 0..N /\ g[n - 1] \in SUBSET candidates
      BY <1>1, <2>2
    <3>2. g[n] = step[<<n, g[n - 1]>>]
      <4> HIDE DEF step
      <4> QED BY <1>3, <2>2 DEF Counts
    <3> QED BY <2>2, <3>1, <3>2
  <2> QED BY <2>1, <2>2
<1>5. Rec(g)
  BY <1>4
<1>6. Rec(linked)
  <2> HIDE DEF Rec
  <2> QED BY <1>5
<1>7. Fitting(debts, txs, candidates, target) = linked[MaxRows]
  BY DEF Fitting
<1>8. \A n \in 0..MaxRows :
         linked[n] = IF n = 0 THEN {}
                     ELSE IF n \in candidates
                             /\ Fits(debts, txs, candidates, linked[n - 1], target, n)
                          THEN linked[n - 1] \cup {n} ELSE linked[n - 1]
  <2> HIDE DEF linked
  <2> QED BY <1>6
<1> HIDE DEF linked, Rec, step
<1> DEFINE Good(n) == /\ Decided(debts, txs, candidates, linked[n], target)
                      /\ \A t \in linked[n] : t <= n
           Bad == {n \in 0..MaxRows : ~Good(n)}
<1>9. Good(0)
  <2>1. linked[0] = {}
    <3>1. 0 \in 0..MaxRows
      BY <1>1
    <3> HIDE DEF Good, Bad
    <3> QED BY <1>8, <3>1, Zenon
  <2>2. Total(txs, {}) = 0
    BY TotalsAdd
  <2>3. target \in Live(debts) => Size(debts[target]) \in Nat
    BY SizeIsNatural DEF Live
  <2> QED BY <2>1, <2>2, <2>3 DEF Decided
<1>10. ASSUME NEW n \in 1..MaxRows, Good(n - 1) PROVE Good(n)
  <2>1. n \in 0..MaxRows /\ n # 0 /\ n \in Nat
    BY <1>1
  <2>2. CASE n \in candidates /\ Fits(debts, txs, candidates, linked[n - 1], target, n)
    <3>1. linked[n] = linked[n - 1] \cup {n}
      BY <1>8, <2>1, <2>2
    <3>2. n \notin linked[n - 1]
      BY <1>10, <2>1
    <3>3. Decided(debts, txs, candidates, linked[n - 1] \cup {n}, target)
      BY <1>10, <2>2, <3>2, OneMoreFits
    <3>4. linked[n - 1] \subseteq Nat
      BY <1>10 DEF Decided, Live, AreRows, RowIds
    <3>5. \A t \in linked[n] : t <= n
      BY <1>10, <2>1, <3>1, <3>4
    <3> QED BY <3>1, <3>3, <3>5
  <2>3. CASE ~(n \in candidates /\ Fits(debts, txs, candidates, linked[n - 1], target, n))
    <3>1. linked[n] = linked[n - 1]
      BY <1>8, <2>1, <2>3
    <3>2. linked[n - 1] \subseteq Nat
      BY <1>10 DEF Decided, Live, AreRows, RowIds
    <3> QED BY <1>10, <2>1, <3>1, <3>2
  <2> QED BY <2>2, <2>3
<1>11. Bad = {}
  <2> SUFFICES ASSUME Bad # {} PROVE FALSE
    OBVIOUS
  <2>1. PICK n \in Bad : \A m \in Bad : ~(m < n)
    <3>1. Bad \subseteq Nat
      OBVIOUS
    <3> HIDE DEF Bad
    <3> QED BY <3>1, LeastCounterexample
  <2> HIDE DEF Good
  <2>2. n \in 1..MaxRows
    BY <1>9
  <2>3. n - 1 \in 0..MaxRows /\ n - 1 < n
    BY <1>1, <2>2
  <2>4. Good(n - 1)
    BY <2>1, <2>3
  <2> QED BY <1>10, <2>2, <2>4
<1>12. Good(MaxRows)
  <2> HIDE DEF Good
  <2>1. MaxRows \in 0..MaxRows
    BY <1>1
  <2> QED BY <1>11, <2>1
<1> QED BY <1>7, <1>12

\* Whatever rows there are, deciding the links of `from` again changes only
\* links, to `target` or to none, leaves only links that suit `target`, and
\* never repays it beyond its size (replanOpeningLinks, opening-link.ts:180).
THEOREM ReplannedRows ==
    ASSUME NEW debts, AreDebts(debts), NEW txs, AreRows(txs), NEW from, NEW target, NEW since,
           target \in from \cup {NoRow}, NoRow \notin from
    PROVE  LET now == Replanned(debts, txs, from, target, since) IN
           /\ DOMAIN now = DOMAIN txs /\ AreRows(now)
           /\ Live(now) = Live(txs) /\ AmountOf(now) = AmountOf(txs)
           /\ \A t \in DOMAIN txs :
                /\ SameButLink(txs[t], now[t])
                /\ now[t].link \in {txs[t].link, target, NoRow}
                /\ t \in Live(txs) /\ now[t].link \in from =>
                     target # NoRow /\ now[t].link = target /\ Suits(debts, txs, t, target)
           /\ \A d : d # target /\ d # NoRow => Repayments(now, d) \subseteq Repayments(txs, d)
           /\ target \in Live(debts) => Repaid(now, target) <= Size(debts[target])
<1> DEFINE candidates == Candidates(debts, txs, from, target, since)
           linked == Fitting(debts, txs, candidates, target)
           now == Replanned(debts, txs, from, target, since)
<1>1. candidates \in SUBSET Live(txs)
  BY DEF Candidates
<1>2. target \in Live(debts) => target \in from
  BY RowsAssumption DEF Live, AreDebts, RowIds, NoRow
<1>3. \A d \in from : Repayments(txs, d) \subseteq candidates
  BY DEF Candidates, Repayments
<1>4. now = WithLinks(txs, candidates, linked, target)
  BY DEF Replanned
<1> HIDE DEF candidates, linked, now
<1>5. Decided(debts, txs, candidates, linked, target)
  BY <1>1, <1>2, <1>3, FittingDecides DEF linked
<1>6. /\ DOMAIN now = DOMAIN txs /\ AreRows(now)
      /\ \A t \in DOMAIN txs :
           /\ SameButLink(txs[t], now[t])
           /\ now[t].link = IF t \in linked THEN target
                            ELSE IF t \in candidates THEN NoRow ELSE txs[t].link
      /\ Live(now) = Live(txs) /\ AmountOf(now) = AmountOf(txs)
  BY <1>4, RelinkedRows
<1>7. \A t \in linked : Suits(debts, txs, t, target) /\ target \in Live(debts)
  BY <1>5 DEF Decided, Suits, DebtsOf
<1>8. target \in Live(debts) => target # NoRow
  BY <1>2
<1>9. ASSUME NEW t \in Live(txs), now[t].link \in from
      PROVE  target # NoRow /\ now[t].link = target /\ Suits(debts, txs, t, target)
  <2>1. t \in DOMAIN txs
    BY DEF Live
  <2>2. CASE t \in linked
    BY <1>6, <1>7, <1>8, <2>1, <2>2
  <2>3. CASE t \notin linked
    <3>1. t \notin candidates /\ txs[t].link = now[t].link
      BY <1>6, <1>9, <2>1, <2>3
    <3> QED BY <1>3, <1>9, <3>1 DEF Repayments
  <2> QED BY <2>2, <2>3
<1>10. \A d : d # target /\ d # NoRow => Repayments(now, d) \subseteq Repayments(txs, d)
  BY <1>6 DEF Repayments, Live
<1>11. target \in Live(debts) => Repaid(now, target) <= Size(debts[target])
  <2> SUFFICES ASSUME target \in Live(debts) PROVE Repaid(now, target) <= Size(debts[target])
    OBVIOUS
  <2>1. linked \in SUBSET candidates /\ Repayments(txs, target) \subseteq candidates
    BY <1>2, <1>3, <1>5 DEF Decided
  <2>2. Repaid(now, target) = Total(txs, linked)
    BY <1>1, <1>4, <1>8, <2>1, RepaymentsAreTheLinked
  <2> QED BY <1>5, <2>2 DEF Decided
<1> QED BY <1>6, <1>9, <1>10, <1>11 DEF now

-----------------------------------------------------------------------------
(* The numbering.                                                           *)

\* The rows are numbered in the order they were written.
Numbered ==
    /\ IsFiniteSet(DOMAIN openingDebts) /\ IsFiniteSet(DOMAIN transactions)
    /\ DOMAIN openingDebts \cap DOMAIN transactions = {}
    /\ DOMAIN openingDebts \cup DOMAIN transactions = 1..(NextId - 1)
    /\ NextId <= MaxRows + 1

\* The next number is not taken, nor is any after it.
LEMMA NextIsFree ==
    ASSUME Numbered
    PROVE  /\ NextId \in Nat \ {0}
           /\ \A n \in Nat : n >= NextId =>
                n \notin DOMAIN transactions \cup DOMAIN openingDebts
<1>1. Cardinality(DOMAIN openingDebts) \in Nat /\ Cardinality(DOMAIN transactions) \in Nat
  BY FS_CardinalityType DEF Numbered
<1>2. NextId \in Nat \ {0}
  BY <1>1 DEF NextId
<1> QED BY <1>2 DEF Numbered

\* Where no row is added, the rows stay numbered.
LEMMA NumbersAreKept ==
    ASSUME Numbered, DOMAIN openingDebts' = DOMAIN openingDebts,
           DOMAIN transactions' = DOMAIN transactions
    PROVE  Numbered'
BY DEF Numbered, NextId

\* The next rows take the next numbers.
LEMMA NumbersAreAdded ==
    ASSUME Numbered, DOMAIN openingDebts' = DOMAIN openingDebts, NEW k \in {1, 2},
           DOMAIN transactions' = DOMAIN transactions \cup NextId..(NextId + k - 1),
           NextId + k - 1 \in RowIds
    PROVE  Numbered'
<1> DEFINE ids == NextId..(NextId + k - 1)
<1>1. NextId \in Nat \ {0} /\ ids \cap (DOMAIN transactions \cup DOMAIN openingDebts) = {}
  BY NextIsFree
<1>2. IsFiniteSet(ids) /\ Cardinality(ids) = k
  <2>1. NextId \in Int /\ NextId + k - 1 \in Int /\ NextId <= NextId + k - 1
    BY <1>1
  <2>2. IsFiniteSet(ids) /\ Cardinality(ids) = (NextId + k - 1) - NextId + 1
    BY <2>1, FS_Interval
  <2> QED BY <2>2, <1>1
<1>3. /\ IsFiniteSet(DOMAIN transactions')
      /\ Cardinality(DOMAIN transactions') = Cardinality(DOMAIN transactions) + k
  <2>1. /\ IsFiniteSet(DOMAIN transactions \cup ids)
        /\ Cardinality(DOMAIN transactions \cup ids) =
             Cardinality(DOMAIN transactions) + Cardinality(ids)
               - Cardinality(DOMAIN transactions \cap ids)
    BY <1>2, FS_Union DEF Numbered
  <2>2. DOMAIN transactions \cap ids = {}
    BY <1>1
  <2>3. Cardinality(DOMAIN transactions) \in Nat
    BY FS_CardinalityType DEF Numbered
  <2>4. Cardinality(DOMAIN transactions \cap ids) = 0
    BY <2>2, FS_EmptySet
  <2> QED BY <2>1, <2>3, <2>4, <1>2
<1>4. NextId' = NextId + k
  <2>1. Cardinality(DOMAIN openingDebts) \in Nat /\ Cardinality(DOMAIN transactions) \in Nat
    BY FS_CardinalityType DEF Numbered
  <2> QED BY <2>1, <1>3 DEF NextId
<1>5. DOMAIN openingDebts' \cup DOMAIN transactions' = 1..(NextId' - 1)
  <2>1. DOMAIN openingDebts \cup DOMAIN transactions = 1..(NextId - 1)
    BY DEF Numbered
  <2>2. 1..(NextId - 1) \cup ids = 1..(NextId + k - 1)
    BY <1>1
  <2>3. 1..(NextId' - 1) = 1..(NextId + k - 1)
    BY <1>1, <1>4
  <2> QED BY <2>1, <2>2, <2>3
<1>6. DOMAIN openingDebts' \cap DOMAIN transactions' = {}
  BY <1>1 DEF Numbered
<1>7. NextId' <= MaxRows + 1
  BY <1>1, <1>4, RowsAssumption DEF RowIds
<1> QED BY <1>3, <1>5, <1>6, <1>7 DEF Numbered

\* A debt may take the next number.
LEMMA DebtNumberIsAdded ==
    ASSUME Numbered, DOMAIN transactions' = DOMAIN transactions,
           DOMAIN openingDebts' = DOMAIN openingDebts \cup {NextId}, NextId \in RowIds
    PROVE  Numbered'
<1>1. /\ NextId \in Nat \ {0}
      /\ NextId \notin DOMAIN transactions \cup DOMAIN openingDebts
  BY NextIsFree
<1>2. /\ IsFiniteSet(DOMAIN openingDebts')
      /\ Cardinality(DOMAIN openingDebts') = Cardinality(DOMAIN openingDebts) + 1
  BY <1>1, FS_AddElement DEF Numbered
<1>3. NextId' = NextId + 1
  <2>1. Cardinality(DOMAIN openingDebts) \in Nat /\ Cardinality(DOMAIN transactions) \in Nat
    BY FS_CardinalityType DEF Numbered
  <2> QED BY <2>1, <1>2 DEF NextId
<1>4. DOMAIN openingDebts' \cup DOMAIN transactions' = 1..(NextId' - 1)
  <2>1. DOMAIN openingDebts \cup DOMAIN transactions = 1..(NextId - 1)
    BY DEF Numbered
  <2>2. 1..(NextId - 1) \cup {NextId} = 1..NextId
    BY <1>1
  <2>3. 1..(NextId' - 1) = 1..NextId
    BY <1>1, <1>3
  <2> QED BY <2>1, <2>2, <2>3
<1>5. DOMAIN openingDebts' \cap DOMAIN transactions' = {}
  BY <1>1 DEF Numbered
<1>6. NextId' <= MaxRows + 1
  BY <1>1, <1>3, RowsAssumption DEF RowIds
<1> QED BY <1>2, <1>4, <1>5, <1>6 DEF Numbered

\* The numbers are within the bound.
LEMMA NumbersAreRowIds ==
    ASSUME Numbered
    PROVE  DOMAIN openingDebts \subseteq RowIds /\ DOMAIN transactions \subseteq RowIds
<1>1. NextId \in Nat \ {0} /\ NextId <= MaxRows + 1
  BY NextIsFree DEF Numbered
<1>2. 1..(NextId - 1) \subseteq RowIds
  BY <1>1, RowsAssumption DEF RowIds
<1> QED BY <1>2 DEF Numbered
=============================================================================
