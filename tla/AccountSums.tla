------------------------------ MODULE AccountSums ------------------------------
(***************************************************************************)
(* What SumFunction, which PaperAccount values positions with, computes    *)
(* for every function from a finite set to the integers.  Inductions over  *)
(* the subsets look at a minimal counterexample (WFMin), since a principle *)
(* that quantifies over predicates cannot be instantiated here.            *)
(***************************************************************************)
EXTENDS Integers, Functions, FiniteSetTheorems, TLAPS

\* What MapThenFoldSet adds up next.
Pick(s) == CHOOSE x \in s : TRUE

\* The recursive function inside MapThenFoldSet, as SumFunction uses it.
Sums(f, S) == CHOOSE iter :
    iter = [s \in SUBSET S |-> IF s = {} THEN 0 ELSE f[Pick(s)] + iter[s \ {Pick(s)}]]

\* Unfolding SumFunction.
LEMMA SumIsSums ==
    ASSUME NEW S, NEW f \in [S -> Int]
    PROVE  SumFunction(f) = Sums(f, S)[S]
BY DEF SumFunction, SumFunctionOnSet, FoldFunctionOnSet, MapThenFoldSet, Sums, Pick

\* h adds up the subsets of s.
Adds(h, f, s) ==
    /\ h \in [SUBSET s -> Int]
    /\ \A t \in SUBSET s :
           h[t] = IF t = {} THEN 0 ELSE f[Pick(t)] + h[t \ {Pick(t)}]

\* Every set of subsets has one with no smaller one in it.
LEMMA MinimalSubset ==
    ASSUME NEW S, IsFiniteSet(S), NEW T, T \subseteq SUBSET S, T # {}
    PROVE  \E s \in T : \A t \in T : t \subseteq s => t = s
<1>1. IsWellFoundedOn(StrictSubsetOrdering(S), SUBSET S)
  BY FS_StrictSubsetOrderingWellFounded, FS_FiniteSubsetsOfFinite
<1>2. PICK s \in T : \A t \in T : <<t, s>> \notin StrictSubsetOrdering(S)
  BY <1>1, WFMin
<1>3. QED
  BY <1>2 DEF StrictSubsetOrdering

\* A choice from a set is in it.
LEMMA PickIn == ASSUME NEW s, s # {} PROVE Pick(s) \in s
BY DEF Pick

\* Two functions that add up agree where both are defined.
LEMMA AddsAgree ==
    ASSUME NEW S, IsFiniteSet(S), NEW f \in [S -> Int],
           NEW a \in SUBSET S, NEW b \in SUBSET S,
           NEW g, NEW h, Adds(g, f, a), Adds(h, f, b)
    PROVE  \A t \in (SUBSET a) \cap (SUBSET b) : g[t] = h[t]
<1> DEFINE T == {t \in (SUBSET a) \cap (SUBSET b) : g[t] # h[t]}
<1>1. SUFFICES ASSUME T # {} PROVE FALSE
  OBVIOUS
<1>2. PICK s \in T : \A t \in T : t \subseteq s => t = s
  <2>1. T \subseteq SUBSET S
    OBVIOUS
  <2> HIDE DEF T
  <2>2. QED
    BY <1>1, <2>1, MinimalSubset
<1>3. s # {}
  BY <1>2 DEF Adds
<1>4. Pick(s) \in s
  BY <1>3, PickIn
<1> DEFINE r == s \ {Pick(s)}
<1>5. r \notin T /\ r \in (SUBSET a) \cap (SUBSET b)
  BY <1>2, <1>4
<1>6. g[r] = h[r]
  BY <1>5
<1>7. g[s] = f[Pick(s)] + g[r] /\ h[s] = f[Pick(s)] + h[r]
  BY <1>2, <1>3 DEF Adds
<1>8. QED
  BY <1>2, <1>6, <1>7

\* There is a function that adds up the subsets of any subset.
LEMMA AddsExist ==
    ASSUME NEW S, IsFiniteSet(S), NEW f \in [S -> Int]
    PROVE  \A s \in SUBSET S : \E h : Adds(h, f, s)
<1> DEFINE T == {s \in SUBSET S : ~ \E h : Adds(h, f, s)}
<1>1. SUFFICES ASSUME T # {} PROVE FALSE
  OBVIOUS
<1>2. PICK s \in T : \A t \in T : t \subseteq s => t = s
  <2>1. T \subseteq SUBSET S
    OBVIOUS
  <2> HIDE DEF T
  <2>2. QED
    BY <1>1, <2>1, MinimalSubset
<1>3. s \in SUBSET S /\ ~ \E h : Adds(h, f, s)
  BY <1>2
<1>4. \A t \in SUBSET s : t # s => \E h : Adds(h, f, t)
  BY <1>2
<1> HIDE DEF T
<1> DEFINE H(t) == CHOOSE h : Adds(h, f, t)
           g == [t \in SUBSET s |->
                    IF t = {} THEN 0 ELSE f[Pick(t)] + H(t \ {Pick(t)})[t \ {Pick(t)}]]
<1>5. \A t \in SUBSET s : t # s => Adds(H(t), f, t)
  BY <1>4
<1>6. ASSUME NEW t \in SUBSET s, t # {}
      PROVE  /\ Pick(t) \in S /\ t \ {Pick(t)} \in SUBSET s /\ t \ {Pick(t)} # s
             /\ t \ {Pick(t)} # t
  BY <1>3, <1>6, PickIn
<1> HIDE DEF H
<1>7. g \in [SUBSET s -> Int]
  <2>1. ASSUME NEW t \in SUBSET s, t # {}
        PROVE  f[Pick(t)] + H(t \ {Pick(t)})[t \ {Pick(t)}] \in Int
    <3> DEFINE r == t \ {Pick(t)}
    <3>1. Adds(H(r), f, r)
      BY <1>5, <1>6, <2>1
    <3>2. H(r)[r] \in Int
      BY <3>1 DEF Adds
    <3>3. QED
      BY <1>6, <2>1, <3>2
  <2>2. QED
    BY <2>1
<1>8. ASSUME NEW t \in SUBSET s
      PROVE  g[t] = IF t = {} THEN 0 ELSE f[Pick(t)] + g[t \ {Pick(t)}]
  <2>1. CASE t = {}
    BY <2>1
  <2>2. CASE t # {}
    <3> DEFINE r == t \ {Pick(t)}
    <3>1. r \in SUBSET s /\ r # s
      BY <1>6, <2>2
    <3>2. Adds(H(r), f, r)
      BY <1>5, <3>1
    <3>3. g[r] = H(r)[r]
      <4>1. CASE r = {}
        BY <3>1, <3>2, <4>1 DEF Adds
      <4>2. CASE r # {}
        <5> DEFINE q == r \ {Pick(r)}
        <5>1. q \in SUBSET s /\ q # s /\ q \in SUBSET r
          BY <1>6, <3>1, <4>2
        <5>2. Adds(H(q), f, q)
          BY <1>5, <5>1
        <5>3. H(q)[q] = H(r)[q]
          BY <1>3, <3>1, <3>2, <5>1, <5>2, AddsAgree
        <5>4. g[r] = f[Pick(r)] + H(q)[q]
          BY <3>1, <4>2
        <5>5. H(r)[r] = f[Pick(r)] + H(r)[q]
          BY <3>2, <4>2 DEF Adds
        <5>6. QED
          BY <5>3, <5>4, <5>5
      <4>3. QED
        BY <4>1, <4>2
    <3>4. g[t] = f[Pick(t)] + H(r)[r]
      BY <2>2
    <3>5. QED
      BY <2>2, <3>3, <3>4
  <2>3. QED
    BY <2>1, <2>2
<1>9. Adds(g, f, s)
  <2> HIDE DEF g
  <2>1. QED
    BY <1>7, <1>8 DEF Adds
<1>10. QED
  BY <1>3, <1>9

\* The recursive definition defines a function, and it adds up every subset.
LEMMA SumsAdd ==
    ASSUME NEW S, IsFiniteSet(S), NEW f \in [S -> Int]
    PROVE  Adds(Sums(f, S), f, S)
<1>1. PICK h : Adds(h, f, S)
  BY AddsExist
<1>2. h = [s \in SUBSET S |-> IF s = {} THEN 0 ELSE f[Pick(s)] + h[s \ {Pick(s)}]]
  BY <1>1 DEF Adds
<1> DEFINE iter == Sums(f, S)
<1>3. iter = [s \in SUBSET S |-> IF s = {} THEN 0 ELSE f[Pick(s)] + iter[s \ {Pick(s)}]]
  BY <1>2 DEF Sums
<1> HIDE DEF iter
<1> DEFINE T == {t \in SUBSET S : iter[t] # h[t]}
<1>4. T = {}
  <2>1. SUFFICES ASSUME T # {} PROVE FALSE
    OBVIOUS
  <2>2. PICK s \in T : \A t \in T : t \subseteq s => t = s
    <3>1. T \subseteq SUBSET S
      OBVIOUS
    <3> HIDE DEF T
    <3>2. QED
      BY <2>1, <3>1, MinimalSubset
  <2>3. s # {}
    BY <1>1, <1>3, <2>2 DEF Adds
  <2>4. Pick(s) \in s
    BY <2>3, PickIn
  <2>5. iter[s \ {Pick(s)}] = h[s \ {Pick(s)}]
    BY <2>2, <2>4
  <2>6. /\ iter[s] = f[Pick(s)] + iter[s \ {Pick(s)}]
        /\ h[s] = f[Pick(s)] + h[s \ {Pick(s)}]
    BY <1>1, <1>3, <2>2, <2>3 DEF Adds
  <2>7. QED
    BY <2>2, <2>5, <2>6
<1>5. \A t \in SUBSET S : iter[t] = h[t]
  BY <1>4
<1>6. iter = h
  <2>1. h = [t \in SUBSET S |-> h[t]]
    BY <1>1 DEF Adds
  <2>2. iter = [t \in SUBSET S |-> iter[t]]
    BY <1>3
  <2>3. QED
    BY <1>5, <2>1, <2>2
<1>7. QED
  BY <1>1, <1>6 DEF iter

\* The order does not matter: any element of a subset may be taken first.
LEMMA AnyFirst ==
    ASSUME NEW S, IsFiniteSet(S), NEW f \in [S -> Int], NEW h, Adds(h, f, S)
    PROVE  \A s \in SUBSET S : \A x \in s : h[s] = f[x] + h[s \ {x}]
<1> DEFINE T == {s \in SUBSET S : ~ \A x \in s : h[s] = f[x] + h[s \ {x}]}
<1>1. SUFFICES ASSUME T # {} PROVE FALSE
  <2>1. ASSUME T = {}, NEW s \in SUBSET S
        PROVE  \A x \in s : h[s] = f[x] + h[s \ {x}]
    <3>1. s \notin T
      BY <2>1
    <3>2. QED
      BY <3>1, Zenon
  <2>2. QED
    BY <2>1, Zenon
<1>2. PICK s \in T : \A t \in T : t \subseteq s => t = s
  <2>1. T \subseteq SUBSET S
    OBVIOUS
  <2> HIDE DEF T
  <2>2. QED
    BY <1>1, <2>1, MinimalSubset
<1>3. PICK x \in s : h[s] # f[x] + h[s \ {x}]
  BY <1>2
<1>4. s \in SUBSET S /\ x \in S
  BY <1>2, <1>3
<1> DEFINE c == Pick(s)
<1>5. /\ c \in s /\ c \in S /\ h[s] = f[c] + h[s \ {c}]
  BY <1>3, <1>4, PickIn DEF Adds
<1>6. c # x
  BY <1>3, <1>5
<1>7. \A t \in SUBSET s : t # s => \A y \in t : h[t] = f[y] + h[t \ {y}]
  BY <1>2
<1> HIDE DEF T, c
<1>8. h[s \ {c}] = f[x] + h[(s \ {c}) \ {x}]
  BY <1>3, <1>5, <1>6, <1>7
<1>9. h[s \ {x}] = f[c] + h[(s \ {x}) \ {c}]
  BY <1>3, <1>5, <1>6, <1>7
<1>10. PICK q \in SUBSET S : q = (s \ {c}) \ {x} /\ q = (s \ {x}) \ {c}
  BY <1>4
<1>11. h[q] \in Int /\ f[x] \in Int /\ f[c] \in Int
  BY <1>4, <1>5 DEF Adds
<1>12. h[s] = f[c] + (f[x] + h[q]) /\ h[s \ {x}] = f[c] + h[q]
  BY <1>5, <1>8, <1>9, <1>10
<1>13. h[s] = f[x] + h[s \ {x}]
  BY <1>11, <1>12
<1>14. QED
  BY <1>3, <1>13

\* A sum of integers is an integer.
LEMMA SumType ==
    ASSUME NEW S, IsFiniteSet(S), NEW f \in [S -> Int]
    PROVE  SumFunction(f) \in Int
<1>1. SumFunction(f) = Sums(f, S)[S]
  BY SumIsSums
<1>2. Sums(f, S) \in [SUBSET S -> Int]
  BY SumsAdd DEF Adds
<1>3. QED
  BY <1>1, <1>2

\* Nothing held is worth nothing.
LEMMA SumZero ==
    ASSUME NEW S, IsFiniteSet(S)
    PROVE  SumFunction([s \in S |-> 0]) = 0
<1> DEFINE f == [s \in S |-> 0]
           h == Sums(f, S)
           z == [t \in SUBSET S |-> 0]
<1>1. f \in [S -> Int]
  OBVIOUS
<1>2. Adds(h, f, S)
  BY <1>1, SumsAdd
<1>3. Adds(z, f, S)
  BY PickIn DEF Adds
<1> HIDE DEF f, h, z
<1>4. h[S] = z[S]
  BY <1>1, <1>2, <1>3, AddsAgree
<1>5. z[S] = 0
  BY DEF z
<1>6. SumFunction(f) = h[S]
  BY <1>1, SumIsSums DEF h
<1>7. QED
  BY <1>4, <1>5, <1>6 DEF f

\* Changing one value changes the sum by as much: marking, opening or closing a
\* position changes the value of all positions by what it is worth (build_account).
THEOREM SumExcept ==
    ASSUME NEW S, IsFiniteSet(S), NEW f \in [S -> Int], NEW x \in S, NEW v \in Int
    PROVE  SumFunction([f EXCEPT ![x] = v]) = SumFunction(f) - f[x] + v
<1> DEFINE g == [f EXCEPT ![x] = v]
           hf == Sums(f, S)
           hg == Sums(g, S)
           R == S \ {x}
<1>1. g \in [S -> Int] /\ g[x] = v /\ \A y \in R : g[y] = f[y]
  OBVIOUS
<1> HIDE DEF g
<1>2. Adds(hf, f, S) /\ Adds(hg, g, S)
  BY <1>1, SumsAdd
<1>3. SumFunction(f) = hf[S] /\ SumFunction(g) = hg[S]
  BY <1>1, SumIsSums
<1> HIDE DEF hf, hg
<1>4. hf[S] = f[x] + hf[R] /\ hg[S] = v + hg[R]
  BY <1>1, <1>2, AnyFirst
<1>5. hf[R] = hg[R]
  <2> DEFINE e == [y \in R |-> f[y]]
             a == [t \in SUBSET R |-> hf[t]]
             b == [t \in SUBSET R |-> hg[t]]
  <2>1. /\ IsFiniteSet(R) /\ e \in [R -> Int]
        /\ \A t \in SUBSET R : t # {} => Pick(t) \in R /\ t \ {Pick(t)} \in SUBSET R
    BY PickIn, FS_Subset
  <2>2. Adds(a, e, R)
    BY <1>2, <2>1 DEF Adds
  <2>3. Adds(b, e, R)
    BY <1>1, <1>2, <2>1 DEF Adds
  <2> HIDE DEF a, b, e, R
  <2>4. a[R] = b[R]
    BY <2>1, <2>2, <2>3, AddsAgree
  <2>5. QED
    BY <2>4 DEF a, b
<1>6. hf[R] \in Int /\ f[x] \in Int
  BY <1>2 DEF Adds
<1>7. QED
  BY <1>3, <1>4, <1>5, <1>6 DEF g
===============================================================================
