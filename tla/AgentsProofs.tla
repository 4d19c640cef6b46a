----------------------------- MODULE AgentsProofs -----------------------------
(***************************************************************************)
(* Proofs about the agents' desks and the packages they share: for any set  *)
(* of calls, processes, edits, versions and prices.  First sums over finite *)
(* sets, then the desks in the order of the headings below, with what is    *)
(* shown of places in an order before the secretary, who needs it.          *)
(***************************************************************************)
EXTENDS AdviceWriters, RequestReply, FeatureFlags, PromptRegistry, FutuSubscriptions,
        DecisionLog, PaperBook, LakeQuotes, TradingRoom, LlmBoot, FutuSnapshot,
        IntelDesk, SecretaryDesk, QuantBook,
        FiniteSetTheorems, WellFoundedInduction, TLAPS

-----------------------------------------------------------------------------
(* Sums over finite sets.                                                  *)

\* A set of natural numbers has a smallest one.
LEMMA SmallestOf ==
    ASSUME NEW T, T \subseteq Nat, T # {} PROVE \E x \in T : \A y \in T : x <= y
<1>1. PICK x \in T : \A y \in T : <<y, x>> \notin OpToRel(<, Nat)
    BY NatLessThanWellFounded, WFMin
<1>2. \A y \in T : ~(y < x)
    BY <1>1 DEF OpToRel
<1> QED
    BY <1>2

\* Induction over a finite set: what fails for some of its subsets fails for one, but for
\* no set with an element less.
LEMMA SmallestSubset ==
    ASSUME NEW S, IsFiniteSet(S), NEW B \in SUBSET (SUBSET S), B # {}
    PROVE  \E s \in B : \A x \in s : s \ {x} \notin B
<1> DEFINE T == {Cardinality(s) : s \in B}
<1>1. \A s \in B : IsFiniteSet(s) /\ Cardinality(s) \in Nat
  BY FS_Subset, FS_CardinalityType
<1>2. T \subseteq Nat /\ T # {}
  BY <1>1
<1>3. PICK k \in T : \A j \in T : ~(<<j, k>> \in OpToRel(<, Nat))
  <2> HIDE DEF T
  <2> QED
    BY <1>2, NatLessThanWellFounded, WFMin
<1>4. PICK s \in B : Cardinality(s) = k
  BY <1>3
<1>5. ASSUME NEW x \in s, s \ {x} \in B PROVE FALSE
  <2>1. Cardinality(s \ {x}) = Cardinality(s) - 1
    BY <1>1, FS_RemoveElement
  <2>2. Cardinality(s \ {x}) \in T
    BY <1>5
  <2>3. Cardinality(s) \in Nat /\ k \in Nat /\ k - 1 \in Nat /\ k - 1 \in T
    BY <1>1, <1>4, <2>1, <2>2, <1>5
  <2>4. <<k - 1, k>> \in OpToRel(<, Nat)
    BY <2>3 DEF OpToRel
  <2> HIDE DEF T
  <2> QED
    BY <1>3, <2>3, <2>4
<1> QED
  BY <1>5

\* The sum of f[x] over the elements of a set, from b on, as FoldSet adds it up: Picked(s)
\* is the element it takes next.
Picked(s) == CHOOSE x \in s : TRUE
Summing(g, b, f, S) ==
    g = [s \in SUBSET S |-> IF s = {} THEN b ELSE f[Picked(s)] + g[s \ {Picked(s)}]]
Sum(b, f, S) == (CHOOSE g : Summing(g, b, f, S))[S]

LEMMA PickedFromSet == ASSUME NEW s, s # {} PROVE Picked(s) \in s
  BY DEF Picked

\* There is such a function.
LEMMA SummingExists ==
    ASSUME NEW S, IsFiniteSet(S), NEW b \in Int, NEW f, \A x \in S : f[x] \in Int
    PROVE  \E g \in [SUBSET S -> Int] : Summing(g, b, f, S)
<1> DEFINE Small(n) == {s \in SUBSET S : Cardinality(s) <= n}
           Sums(g, n) == \A s \in Small(n) :
                            g[s] = IF s = {} THEN b ELSE f[Picked(s)] + g[s \ {Picked(s)}]
           T == {n \in Nat : ~(\E g \in [Small(n) -> Int] : Sums(g, n))}
<1>1. \A s \in SUBSET S : IsFiniteSet(s) /\ Cardinality(s) \in Nat /\ (Cardinality(s) = 0 <=> s = {})
  BY FS_Subset, FS_CardinalityType, FS_EmptySet
<1>2. \A s \in SUBSET S : s # {} =>
         /\ Picked(s) \in s /\ f[Picked(s)] \in Int
         /\ s \ {Picked(s)} \in SUBSET S /\ Cardinality(s \ {Picked(s)}) = Cardinality(s) - 1
  BY <1>1, PickedFromSet, FS_RemoveElement
<1>3. ASSUME T # {} PROVE FALSE
  <2>1. PICK n \in T : \A j \in T : ~(<<j, n>> \in OpToRel(<, Nat))
    <3>1. T \subseteq Nat
      OBVIOUS
    <3> HIDE DEF T
    <3> QED
      BY <1>3, <3>1, NatLessThanWellFounded, WFMin
  <2>2. n \in Nat /\ ~(\E g \in [Small(n) -> Int] : Sums(g, n))
    OBVIOUS
  <2>3. CASE n = 0
    <3>1. \A s \in Small(0) : s = {}
      BY <1>1
    <3> DEFINE g == [s \in Small(0) |-> b]
    <3>2. g \in [Small(0) -> Int] /\ Sums(g, 0)
      BY <3>1
    <3> QED
      BY <2>2, <2>3, <3>2
  <2>4. CASE n # 0
    <3>1. n - 1 \in Nat /\ n - 1 \notin T
      <4>1. n - 1 \in Nat
        BY <2>2, <2>4
      <4>2. <<n - 1, n>> \in OpToRel(<, Nat)
        BY <2>2, <4>1 DEF OpToRel
      <4> HIDE DEF T
      <4> QED
        BY <2>1, <4>1, <4>2
    <3>2. PICK h \in [Small(n - 1) -> Int] : Sums(h, n - 1)
      BY <3>1
    <3> DEFINE g == [s \in Small(n) |->
                       IF s = {} THEN b ELSE f[Picked(s)] + h[s \ {Picked(s)}]]
    <3>3. \A s \in Small(n) : s # {} => s \ {Picked(s)} \in Small(n - 1)
      BY <1>1, <1>2, <2>2
    <3>4. g \in [Small(n) -> Int]
      <4>1. ASSUME NEW s \in Small(n)
            PROVE  (IF s = {} THEN b ELSE f[Picked(s)] + h[s \ {Picked(s)}]) \in Int
        <5>1. CASE s = {}
          BY <5>1
        <5>2. CASE s # {}
          BY <1>2, <3>3, <5>2
        <5> QED
          BY <5>1, <5>2
      <4> QED
        BY <4>1
    <3>5. \A s \in Small(n - 1) : s \in Small(n) /\ g[s] = h[s]
      <4> TAKE s \in Small(n - 1)
      <4>1. s \in Small(n)
        BY <1>1, <2>2
      <4>2. h[s] = IF s = {} THEN b ELSE f[Picked(s)] + h[s \ {Picked(s)}]
        BY <3>2
      <4> QED
        BY <4>1, <4>2
    <3>6. Sums(g, n)
      <4> SUFFICES ASSUME NEW s \in Small(n)
                   PROVE  g[s] = IF s = {} THEN b ELSE f[Picked(s)] + g[s \ {Picked(s)}]
        OBVIOUS
      <4>1. s # {} => g[s \ {Picked(s)}] = h[s \ {Picked(s)}]
        BY <3>3, <3>5
      <4> HIDE DEF Small
      <4> QED
        BY <4>1
    <3> QED
      BY <2>2, <3>4, <3>6
  <2> QED
    BY <2>3, <2>4
<1>4. Cardinality(S) \in Nat /\ Small(Cardinality(S)) = SUBSET S
  BY <1>1, FS_Subset, FS_CardinalityType
<1>5. PICK g \in [SUBSET S -> Int] : Sums(g, Cardinality(S))
  BY <1>3, <1>4
<1>6. Summing(g, b, f, S)
  BY <1>4, <1>5 DEF Summing
<1> QED
  BY <1>6

\* There is one only.
LEMMA SummingIsUnique ==
    ASSUME NEW S, IsFiniteSet(S), NEW b, NEW f, NEW g, NEW h,
           Summing(g, b, f, S), Summing(h, b, f, S)
    PROVE  \A s \in SUBSET S : g[s] = h[s]
<1> DEFINE B == {s \in SUBSET S : g[s] # h[s]}
<1>1. ASSUME B # {} PROVE FALSE
  <2>1. PICK s \in B : \A x \in s : s \ {x} \notin B
    <3>1. B \in SUBSET (SUBSET S)
      OBVIOUS
    <3> HIDE DEF B
    <3> QED
      BY <1>1, <3>1, SmallestSubset, Zenon
  <2>2. /\ g[s] = IF s = {} THEN b ELSE f[Picked(s)] + g[s \ {Picked(s)}]
        /\ h[s] = IF s = {} THEN b ELSE f[Picked(s)] + h[s \ {Picked(s)}]
    BY DEF Summing
  <2>3. s # {}
    BY <2>2
  <2>4. s \ {Picked(s)} \in SUBSET S /\ s \ {Picked(s)} \notin B
    BY <2>1, <2>3, PickedFromSet
  <2> QED
    BY <2>2, <2>3, <2>4
<1> QED
  BY <1>1

\* The sum is the last value of any function that adds up.
LEMMA SumIsLast ==
    ASSUME NEW S, IsFiniteSet(S), NEW b, NEW f, NEW g, Summing(g, b, f, S)
    PROVE  Sum(b, f, S) = g[S]
<1> DEFINE h == CHOOSE k : Summing(k, b, f, S)
<1>1. Summing(h, b, f, S)
  OBVIOUS
<1> HIDE DEF h
<1>2. h[S] = g[S]
  BY <1>1, SummingIsUnique
<1> QED
  BY <1>2 DEF h, Sum

\* The sum depends on nothing but the values, and takes the elements in any order.
LEMMA SumOfSame ==
    ASSUME NEW S, IsFiniteSet(S), NEW b \in Int, NEW f, NEW h,
           \A x \in S : f[x] \in Int /\ h[x] = f[x]
    PROVE  Sum(b, f, S) = Sum(b, h, S)
<1>1. PICK g \in [SUBSET S -> Int] : Summing(g, b, f, S)
  BY SummingExists
<1>2. Summing(g, b, h, S)
  <2>1. \A s \in SUBSET S : s # {} => f[Picked(s)] = h[Picked(s)]
    BY PickedFromSet
  <2>2. [s \in SUBSET S |-> IF s = {} THEN b ELSE f[Picked(s)] + g[s \ {Picked(s)}]]
           = [s \in SUBSET S |-> IF s = {} THEN b ELSE h[Picked(s)] + g[s \ {Picked(s)}]]
    BY <2>1
  <2> QED
    BY <1>1, <2>2, Zenon DEF Summing
<1> QED
  BY <1>1, <1>2, SumIsLast

LEMMA SumAddsUp ==
    ASSUME NEW S, IsFiniteSet(S), NEW b \in Int, NEW f, \A x \in S : f[x] \in Int
    PROVE  /\ Sum(b, f, S) \in Int
           /\ Sum(b, f, {}) = b
           /\ \A x \in S : Sum(b, f, S) = f[x] + Sum(b, f, S \ {x})
<1>1. PICK g \in [SUBSET S -> Int] : Summing(g, b, f, S)
  BY SummingExists
<1>2. ASSUME NEW R \in SUBSET S PROVE Sum(b, f, R) = g[R]
  <2> DEFINE r == [s \in SUBSET R |-> g[s]]
  <2>1. Summing(r, b, f, R)
    <3>1. \A s \in SUBSET R : g[s] = IF s = {} THEN b ELSE f[Picked(s)] + g[s \ {Picked(s)}]
      BY <1>1 DEF Summing
    <3>2. \A s \in SUBSET R : s \ {Picked(s)} \in SUBSET R
      OBVIOUS
    <3>3. r = [s \in SUBSET R |-> IF s = {} THEN b ELSE f[Picked(s)] + r[s \ {Picked(s)}]]
      BY <3>1, <3>2
    <3> QED
      BY <3>3 DEF Summing
  <2>2. IsFiniteSet(R)
    BY FS_Subset
  <2>3. r[R] = g[R]
    OBVIOUS
  <2> HIDE DEF r
  <2> QED
    BY <2>1, <2>2, <2>3, SumIsLast
<1>3. \A s \in SUBSET S : g[s] = IF s = {} THEN b ELSE f[Picked(s)] + g[s \ {Picked(s)}]
  BY <1>1 DEF Summing
<1> DEFINE B == {s \in SUBSET S : \E x \in s : g[s] # f[x] + g[s \ {x}]}
<1>4. ASSUME B # {} PROVE FALSE
  <2>1. PICK s \in B : \A x \in s : s \ {x} \notin B
    <3>1. B \in SUBSET (SUBSET S)
      OBVIOUS
    <3> HIDE DEF B
    <3> QED
      BY <1>4, <3>1, SmallestSubset, Zenon
  <2>2. PICK x \in s : g[s] # f[x] + g[s \ {x}]
    OBVIOUS
  <2>3. s \in SUBSET S /\ s # {}
    BY <2>2
  <2> DEFINE c == Picked(s)
  <2>4. c \in s /\ g[s] = f[c] + g[s \ {c}]
    BY <1>3, <2>3, PickedFromSet
  <2>5. x # c
    BY <2>2, <2>4
  <2> HIDE DEF c
  <2>6. s \ {c} \in SUBSET S /\ s \ {x} \in SUBSET S /\ s \ {c} \notin B /\ s \ {x} \notin B
    BY <2>1, <2>2, <2>3, <2>4
  <2>7. g[s \ {c}] = f[x] + g[(s \ {c}) \ {x}] /\ g[s \ {x}] = f[c] + g[(s \ {x}) \ {c}]
    BY <2>2, <2>4, <2>5, <2>6
  <2>8. (s \ {c}) \ {x} = (s \ {x}) \ {c} /\ (s \ {x}) \ {c} \in SUBSET S
    BY <2>3
  <2>9. f[x] \in Int /\ f[c] \in Int /\ g[(s \ {x}) \ {c}] \in Int
    BY <1>1, <2>2, <2>3, <2>4, <2>8
  <2>10. g[(s \ {c}) \ {x}] = g[(s \ {x}) \ {c}]
    BY <2>8
  <2> DEFINE rest == g[(s \ {x}) \ {c}]
  <2>11. /\ g[s \ {c}] = f[x] + rest /\ g[s \ {x}] = f[c] + rest
         /\ g[s] = f[c] + g[s \ {c}] /\ g[s] # f[x] + g[s \ {x}]
         /\ f[x] \in Int /\ f[c] \in Int /\ rest \in Int
    BY <2>2, <2>4, <2>7, <2>9, <2>10
  <2> HIDE DEF rest, B
  <2> QED
    BY <2>11
<1>5. \A x \in S : g[S] = f[x] + g[S \ {x}]
  BY <1>4
<1>6. Sum(b, f, S) = g[S] /\ Sum(b, f, {}) = g[{}] /\ (\A x \in S : Sum(b, f, S \ {x}) = g[S \ {x}])
  BY <1>2
<1> HIDE DEF B
<1> QED
  BY <1>1, <1>3, <1>5, <1>6

\* One value more.
LEMMA SumAtOnePlace ==
    ASSUME NEW S, IsFiniteSet(S), NEW b \in Int, NEW f, NEW h, NEW p \in S,
           \A x \in S : f[x] \in Int /\ h[x] \in Int,
           \A x \in S \ {p} : h[x] = f[x]
    PROVE  Sum(b, h, S) = Sum(b, f, S) + (h[p] - f[p])
<1>1. IsFiniteSet(S \ {p})
  BY FS_Subset
<1>2. Sum(b, f, S \ {p}) = Sum(b, h, S \ {p})
  BY <1>1, SumOfSame
<1>3. Sum(b, f, S) = f[p] + Sum(b, f, S \ {p}) /\ Sum(b, h, S) = h[p] + Sum(b, h, S \ {p})
  BY SumAddsUp
<1>4. Sum(b, f, S \ {p}) \in Int
  BY <1>1, SumAddsUp
<1> QED
  BY <1>2, <1>3, <1>4

\* Greater values have a greater sum.
LEMMA SumGrows ==
    ASSUME NEW S, IsFiniteSet(S), NEW b \in Int, NEW c \in Int, b <= c, NEW f, NEW h,
           \A x \in S : f[x] \in Int /\ h[x] \in Int /\ f[x] <= h[x]
    PROVE  Sum(b, f, S) <= Sum(c, h, S)
<1> DEFINE B == {s \in SUBSET S : ~(Sum(b, f, s) <= Sum(c, h, s))}
<1>1. ASSUME B # {} PROVE FALSE
  <2>1. PICK s \in B : \A x \in s : s \ {x} \notin B
    <3>1. B \in SUBSET (SUBSET S)
      OBVIOUS
    <3> HIDE DEF B
    <3> QED
      BY <1>1, <3>1, SmallestSubset, Zenon
  <2>2. s \in SUBSET S /\ ~(Sum(b, f, s) <= Sum(c, h, s)) /\ IsFiniteSet(s)
    BY FS_Subset
  <2>3. s # {}
    BY <2>2, SumAddsUp
  <2>4. PICK x \in s : TRUE
    BY <2>3
  <2>5. /\ Sum(b, f, s) = f[x] + Sum(b, f, s \ {x})
        /\ Sum(c, h, s) = h[x] + Sum(c, h, s \ {x})
    BY <2>2, SumAddsUp
  <2>6. IsFiniteSet(s \ {x}) /\ s \ {x} \in SUBSET S
    BY <2>2, FS_Subset
  <2>7. Sum(b, f, s \ {x}) <= Sum(c, h, s \ {x})
    BY <2>1, <2>6
  <2>8. Sum(b, f, s \ {x}) \in Int /\ Sum(c, h, s \ {x}) \in Int
    BY <2>6, SumAddsUp
  <2>9. f[x] \in Int /\ h[x] \in Int /\ f[x] <= h[x]
    BY <2>2
  <2> HIDE DEF B
  <2> QED
    BY <2>2, <2>5, <2>7, <2>8, <2>9
<1>2. S \notin B
  BY <1>1
<1> QED
  BY <1>2

\* What the sum starts from is added.
LEMMA SumFrom ==
    ASSUME NEW S, IsFiniteSet(S), NEW b \in Int, NEW f, \A x \in S : f[x] \in Int
    PROVE  Sum(b, f, S) = b + Sum(0, f, S)
<1> DEFINE B == {s \in SUBSET S : Sum(b, f, s) # b + Sum(0, f, s)}
<1>1. ASSUME B # {} PROVE FALSE
  <2>1. PICK s \in B : \A x \in s : s \ {x} \notin B
    <3>1. B \in SUBSET (SUBSET S)
      OBVIOUS
    <3> HIDE DEF B
    <3> QED
      BY <1>1, <3>1, SmallestSubset, Zenon
  <2>2. s \in SUBSET S /\ Sum(b, f, s) # b + Sum(0, f, s) /\ IsFiniteSet(s)
    BY FS_Subset
  <2>3. s # {}
    <3>1. 0 \in Int /\ IsFiniteSet({}) /\ \A x \in {} : f[x] \in Int
      BY FS_EmptySet
    <3>2. Sum(b, f, {}) = b /\ Sum(0, f, {}) = 0
      BY <3>1, SumAddsUp, Zenon
    <3>3. b + 0 = b
      OBVIOUS
    <3> QED
      BY <2>2, <3>2, <3>3
  <2>4. PICK x \in s : TRUE
    BY <2>3
  <2>5. ASSUME NEW a \in Int PROVE Sum(a, f, s) = f[x] + Sum(a, f, s \ {x})
    <3>1. IsFiniteSet(s) /\ \A y \in s : f[y] \in Int
      BY <2>2
    <3>2. \A y \in s : Sum(a, f, s) = f[y] + Sum(a, f, s \ {y})
      BY <3>1, SumAddsUp
    <3> QED
      BY <2>3, <3>2
  <2>6. IsFiniteSet(s \ {x}) /\ s \ {x} \in SUBSET S
    BY <2>2, FS_Subset
  <2>7. Sum(b, f, s \ {x}) = b + Sum(0, f, s \ {x})
    BY <2>1, <2>6
  <2>8. Sum(b, f, s \ {x}) \in Int /\ Sum(0, f, s \ {x}) \in Int
    BY <2>6, SumAddsUp
  <2>9. f[x] \in Int
    BY <2>2
  <2> HIDE DEF B
  <2> QED
    BY <2>2, <2>5, <2>7, <2>8, <2>9
<1>2. S \notin B
  BY <1>1
<1> QED
  BY <1>2

\* A sum of natural numbers does not fall below what it starts from.
LEMMA SumOfNats ==
    ASSUME NEW S, IsFiniteSet(S), NEW b \in Int, NEW f, \A x \in S : f[x] \in Nat
    PROVE  Sum(b, f, S) >= b
<1> DEFINE B == {s \in SUBSET S : ~(Sum(b, f, s) >= b)}
<1>1. ASSUME B # {} PROVE FALSE
  <2>1. PICK s \in B : \A x \in s : s \ {x} \notin B
    <3>1. B \in SUBSET (SUBSET S)
      OBVIOUS
    <3> HIDE DEF B
    <3> QED
      BY <1>1, <3>1, SmallestSubset, Zenon
  <2>2. s \in SUBSET S /\ ~(Sum(b, f, s) >= b) /\ IsFiniteSet(s)
    BY FS_Subset
  <2>3. s # {}
    <3>1. Sum(b, f, {}) = b
      BY SumAddsUp
    <3> QED
      BY <2>2, <3>1
  <2>4. PICK x \in s : TRUE
    BY <2>3
  <2>5. Sum(b, f, s) = f[x] + Sum(b, f, s \ {x}) /\ f[x] \in Nat
    BY <2>2, SumAddsUp
  <2>6. s \ {x} \in SUBSET S /\ IsFiniteSet(s \ {x})
    BY <2>2, FS_Subset
  <2>7. Sum(b, f, s \ {x}) >= b
    BY <2>1, <2>6
  <2>8. Sum(b, f, s \ {x}) \in Int
    BY <2>6, SumAddsUp
  <2> HIDE DEF B
  <2> QED
    BY <2>2, <2>5, <2>7, <2>8
<1>2. S \notin B
  BY <1>1
<1> QED
  BY <1>2

\* What one value loses another gains.
LEMMA SumOfTransfer ==
    ASSUME NEW S, IsFiniteSet(S), NEW b \in Int, NEW f, NEW h, NEW p \in S, NEW q \in S, p # q,
           \A x \in S : f[x] \in Int /\ h[x] \in Int,
           \A x \in S \ {p, q} : h[x] = f[x],
           h[p] + h[q] = f[p] + f[q]
    PROVE  Sum(b, h, S) = Sum(b, f, S)
<1> DEFINE m == [x \in S |-> IF x = p THEN h[p] ELSE f[x]]
<1>1. \A x \in S : m[x] \in Int /\ (x # p => m[x] = f[x]) /\ (x # q => h[x] = m[x])
  OBVIOUS
<1>2. m[p] = h[p] /\ m[q] = f[q]
  OBVIOUS
<1> HIDE DEF m
<1>3. Sum(b, m, S) = Sum(b, f, S) + (m[p] - f[p])
  BY <1>1, SumAtOnePlace
<1>4. Sum(b, h, S) = Sum(b, m, S) + (h[q] - m[q])
  BY <1>1, SumAtOnePlace
<1>5. Sum(b, f, S) \in Int
  BY SumAddsUp
<1> QED
  BY <1>2, <1>3, <1>4, <1>5

\* A factor.
LEMMA SumTimes ==
    ASSUME NEW S, IsFiniteSet(S), NEW k \in Nat, NEW f, NEW h,
           \A x \in S : f[x] \in Int /\ h[x] = f[x] * k
    PROVE  Sum(0, h, S) = Sum(0, f, S) * k
<1>0. \A i, j \in Int : i * k \in Int /\ i * k + j * k = (i + j) * k /\ 0 * k = 0
  OBVIOUS
<1>1. \A x \in S : f[x] \in Int /\ h[x] \in Int
  BY <1>0
<1> DEFINE B == {s \in SUBSET S : Sum(0, h, s) # Sum(0, f, s) * k}
<1>2. ASSUME B # {} PROVE FALSE
  <2>1. PICK s \in B : \A x \in s : s \ {x} \notin B
    <3>1. B \in SUBSET (SUBSET S)
      OBVIOUS
    <3> HIDE DEF B
    <3> QED
      BY <1>2, <3>1, SmallestSubset, Zenon
  <2>2. s \in SUBSET S /\ Sum(0, h, s) # Sum(0, f, s) * k /\ IsFiniteSet(s)
    BY FS_Subset
  <2>3. s # {}
    <3>1. \A g : (\A x \in S : g[x] \in Int) => Sum(0, g, {}) = 0
      BY SumAddsUp
    <3>2. Sum(0, h, {}) = 0 /\ Sum(0, f, {}) = 0
      BY <1>1, <3>1
    <3>3. Sum(0, h, {}) = Sum(0, f, {}) * k
      BY <1>0, <3>2
    <3> QED
      BY <2>2, <3>3
  <2>4. PICK x \in s : TRUE
    BY <2>3
  <2>5. Sum(0, h, s) = h[x] + Sum(0, h, s \ {x})
    BY <1>1, <2>2, SumAddsUp
  <2>6. Sum(0, f, s) = f[x] + Sum(0, f, s \ {x})
    BY <1>1, <2>2, SumAddsUp
  <2>7. s \ {x} \in SUBSET S /\ IsFiniteSet(s \ {x})
    BY <2>2, FS_Subset
  <2>8. Sum(0, h, s \ {x}) = Sum(0, f, s \ {x}) * k
    BY <2>1, <2>7
  <2>9. Sum(0, f, s \ {x}) \in Int
    <3>1. 0 \in Int /\ \A y \in s \ {x} : f[y] \in Int
      BY <1>1, <2>7
    <3> QED
      BY <2>7, <3>1, SumAddsUp, Zenon
  <2>10. f[x] \in Int /\ h[x] = f[x] * k
    BY <2>2
  <2> DEFINE rest == Sum(0, f, s \ {x})
  <2>11. f[x] * k + rest * k = (f[x] + rest) * k
    BY <1>0, <2>9, <2>10
  <2> HIDE DEF B
  <2> QED
    BY <2>2, <2>5, <2>6, <2>8, <2>10, <2>11, Zenon
<1>3. S \notin B
  BY <1>2
<1> QED
  BY <1>3

\* The same values under other names.
LEMMA SumOfImage ==
    ASSUME NEW S, IsFiniteSet(S), NEW b \in Int, NEW f, NEW h, NEW name,
           \A x \in S : f[x] \in Int /\ h[name[x]] = f[x],
           \A x, y \in S : name[x] = name[y] => x = y
    PROVE  Sum(b, f, S) = Sum(b, h, {name[x] : x \in S})
<1> DEFINE Image(s) == {name[x] : x \in s}
           B == {s \in SUBSET S : Sum(b, f, s) # Sum(b, h, Image(s))}
<1>1. ASSUME B # {} PROVE FALSE
  <2>1. PICK s \in B : \A x \in s : s \ {x} \notin B
    <3>1. B \in SUBSET (SUBSET S)
      OBVIOUS
    <3> HIDE DEF B
    <3> QED
      BY <1>1, <3>1, SmallestSubset, Zenon
  <2>2. s \in SUBSET S /\ Sum(b, f, s) # Sum(b, h, Image(s)) /\ IsFiniteSet(s)
    BY FS_Subset
  <2>3. s # {}
    <3>1. Sum(b, f, {}) = b /\ Sum(b, h, {}) = b
      <4>1. IsFiniteSet({})
        BY FS_EmptySet
      <4> QED
        BY <4>1, SumAddsUp
    <3>2. Image({}) = {}
      OBVIOUS
    <3> HIDE DEF Image
    <3> QED
      BY <2>2, <3>1, <3>2
  <2>4. PICK x \in s : TRUE
    BY <2>3
  <2>5. Sum(b, f, s) = f[x] + Sum(b, f, s \ {x})
    BY <2>2, SumAddsUp
  <2>6. IsFiniteSet(Image(s)) /\ name[x] \in Image(s) /\ \A y \in Image(s) : h[y] \in Int
    <3> DEFINE m == [y \in s |-> name[y]]
    <3>1. m \in Surjection(s, Image(s))
      BY DEF Surjection
    <3>2. IsFiniteSet(Image(s))
      <4> HIDE DEF m, Image
      <4> QED
        BY <2>2, <3>1, FS_Surjection
    <3> QED
      BY <2>2, <3>2
  <2>7. Sum(b, h, Image(s)) = h[name[x]] + Sum(b, h, Image(s) \ {name[x]})
    <3> HIDE DEF Image
    <3> QED
      BY <2>6, SumAddsUp
  <2>8. Image(s) \ {name[x]} = Image(s \ {x})
    BY <2>2
  <2>9. Sum(b, f, s \ {x}) = Sum(b, h, Image(s \ {x}))
    BY <2>1, <2>2
  <2>10. h[name[x]] = f[x]
    BY <2>2
  <2> HIDE DEF B, Image
  <2> QED
    BY <2>2, <2>5, <2>7, <2>8, <2>9, <2>10
<1>2. S \notin B
  BY <1>1
<1> QED
  BY <1>2

-----------------------------------------------------------------------------
(* RequestReply.                                                           *)

ReplyTypeOK ==
    /\ route \in [RemoteCalls -> {"none", "http", "nats", "local"}]
    /\ caller \in [RemoteCalls -> {"idle", "waiting", "success", "failure"}]
    /\ handler \in [RemoteCalls -> {"none", "queued", "running", "done", "raised", "stopped"}]
    /\ reply \in [RemoteCalls -> {"none", "answer", "error"}]

\* What is on its way to the caller tells what the handler did, and a local handler works
\* only as long as its caller waits.
ReplyInv ==
    /\ ReplyTypeOK
    /\ BreakerSeesTheAgent
    /\ \A c \in RemoteCalls :
        /\ route[c] = "none" => caller[c] = "idle"
        /\ caller[c] = "idle" => handler[c] = "none" /\ reply[c] = "none"
        /\ reply[c] = "answer" => handler[c] = "done" /\ route[c] # "local"
        /\ reply[c] = "error" =>
              /\ route[c] # "local"
              /\ handler[c] = "raised" \/ (handler[c] = "done" /\ route[c] = "http")
        /\ route[c] = "local" /\ caller[c] # "idle" => handler[c] # "queued"
        /\ route[c] = "local" /\ caller[c] = "waiting" => handler[c] = "running"
        /\ route[c] = "local" /\ handler[c] = "running" => caller[c] = "waiting"

\* One call at a time: another call's step leaves it as it is.
LEMMA ReplyStep == ReplyInv /\ [ReplyNext]_replyVars => ReplyInv'
<1> SUFFICES ASSUME ReplyInv, [ReplyNext]_replyVars PROVE ReplyInv'
    OBVIOUS
<1> USE DEF ReplyInv, ReplyTypeOK, BreakerSeesTheAgent
<1>1. ASSUME NEW c \in RemoteCalls, CallAgent(c) PROVE ReplyInv'
    BY <1>1 DEF CallAgent
<1>2. ASSUME NEW c \in RemoteCalls, Deliver(c) PROVE ReplyInv'
    BY <1>2 DEF Deliver
<1>3. ASSUME NEW c \in RemoteCalls, HandlerReturns(c) PROVE ReplyInv'
    BY <1>3 DEF HandlerReturns
<1>4. ASSUME NEW c \in RemoteCalls, HandlerRaises(c) PROVE ReplyInv'
    BY <1>4 DEF HandlerRaises
<1>5. ASSUME NEW c \in RemoteCalls, ReplyArrives(c) PROVE ReplyInv'
    <2>1. reply[c] # "none" /\ caller[c] = "waiting"
        BY <1>5 DEF ReplyArrives, Inbox
    <2>2. caller' = [caller EXCEPT ![c] =
                        IF reply[c] = "error" /\ route[c] = "http" THEN "failure" ELSE "success"]
          /\ reply' = [reply EXCEPT ![c] = "none"]
          /\ route' = route /\ handler' = handler
        BY <1>5 DEF ReplyArrives, Inbox
    <2> QED
        BY <2>1, <2>2
<1>6. ASSUME NEW c \in RemoteCalls, GiveUp(c) PROVE ReplyInv'
    BY <1>6 DEF GiveUp, AfterGivingUp
<1>7. ASSUME NEW c \in RemoteCalls, LoseMessage(c) PROVE ReplyInv'
    BY <1>7 DEF LoseMessage
<1>8. CASE FlipFlag
    BY <1>8 DEF FlipFlag
<1>9. CASE UNCHANGED replyVars
    BY <1>9 DEF replyVars
<1> QED
    BY <1>1, <1>2, <1>3, <1>4, <1>5, <1>6, <1>7, <1>8, <1>9 DEF ReplyNext

\* However calls, replies, losses and a change of the flag interleave, a success was
\* handled to the end or raised over NATS, and a local failure was not.
THEOREM ReplyBreaker == ReplySpec => []BreakerSeesTheAgent
<1>1. ReplyInit => ReplyInv
    BY DEF ReplyInit, ReplyInv, ReplyTypeOK, BreakerSeesTheAgent
<1>2. ReplyInv => BreakerSeesTheAgent
    BY DEF ReplyInv
<1> QED
    BY <1>1, <1>2, ReplyStep, PTL DEF ReplySpec

-----------------------------------------------------------------------------
(* AdviceWriters.                                                          *)

\* Whatever the price and its valuation, what the schema accepts has its target on one
\* side of the price, so that the price is outside the range from bear to bull.
LEMMA RoomIsNeeded ==
    ASSUME NEW v \in [price : Nat, bear : Int, bull : Int, missing : BOOLEAN],
           AdviceValid(FundamentalAdvice(v))
    PROVE  \/ 101 * v.price < 100 * v.bear /\ v.bear <= v.bull
           \/ 99 * v.price > 100 * v.bull /\ v.bear <= v.bull
           \/ v.bear = v.price /\ v.bull = v.price
<1>1. v.price \in Nat /\ v.bear \in Int /\ v.bull \in Int
    OBVIOUS
<1>2. CASE DerivedDirection(v) = "long"
    BY <1>1, <1>2 DEF AdviceValid, FundamentalAdvice
<1>3. CASE DerivedDirection(v) = "short"
    BY <1>1, <1>3 DEF AdviceValid, FundamentalAdvice
<1>4. CASE DerivedDirection(v) = "flat"
    BY <1>1, <1>4 DEF AdviceValid, FundamentalAdvice
<1> QED
    BY <1>2, <1>3, <1>4 DEF DerivedDirection

LEMMA LargerProduct ==
    ASSUME NEW p \in Nat, p > 0, NEW m \in Int, NEW n \in Int, m < n
    PROVE  p * m < p * n
    OBVIOUS

\* Half an ATR, one and a half, two and a half and 1.2 are in the order the schema wants.
LEMMA TradesPass ==
    ASSUME NEW t \in [close : Nat, direction : {"long", "short"}, atr : Nat], t.atr # 0
    PROVE  AdviceValid(WithBands(t))
<1> DEFINE px == Priced(t.close)
           BandAt(k) == px * (10000 + k * t.atr)
<1>1. px \in Nat /\ px > 0 /\ t.atr \in Nat /\ t.atr > 0
    BY DEF Priced, Larger
<1>2. \A j, k \in Int : j < k => BandAt(j) < BandAt(k)
  <2> SUFFICES ASSUME NEW j \in Int, NEW k \in Int, j < k PROVE BandAt(j) < BandAt(k)
      OBVIOUS
  <2>1. t.atr * j < t.atr * k
      BY <1>1, LargerProduct
  <2>2. 10000 + j * t.atr < 10000 + k * t.atr
      BY <1>1, <2>1
  <2> HIDE DEF px
  <2>3. 10000 + j * t.atr \in Int /\ 10000 + k * t.atr \in Int
      BY <1>1
  <2> QED
      BY <1>1, <2>2, <2>3, LargerProduct
<1>3. \A k \in Int : BandAt(k) \in Int
    BY <1>1
<1>4. /\ px * (10000 - 5 * t.atr) = BandAt(-5) /\ px * (10000 - 12 * t.atr) = BandAt(-12)
      /\ px * (10000 - 15 * t.atr) = BandAt(-15) /\ px * (10000 - 25 * t.atr) = BandAt(-25)
    BY <1>1
<1>5. /\ BandAt(-25) < BandAt(-15) /\ BandAt(-15) < BandAt(-5) /\ BandAt(-12) < BandAt(-5) /\ BandAt(-5) < BandAt(5)
      /\ BandAt(5) < BandAt(12) /\ BandAt(5) < BandAt(15) /\ BandAt(15) < BandAt(25)
    BY <1>2
<1>6. /\ BandAt(-25) \in Int /\ BandAt(-15) \in Int /\ BandAt(-12) \in Int /\ BandAt(-5) \in Int
      /\ BandAt(5) \in Int /\ BandAt(12) \in Int /\ BandAt(15) \in Int /\ BandAt(25) \in Int
    BY <1>3
<1> HIDE DEF BandAt
<1>7. WithBands(t) =
        IF t.direction = "long"
        THEN [direction |-> "long", entryLo |-> BandAt(-5), entryHi |-> BandAt(5),
              targetLo |-> BandAt(15), targetHi |-> BandAt(25), stop |-> BandAt(-12)]
        ELSE [direction |-> "short", entryLo |-> BandAt(-5), entryHi |-> BandAt(5),
              targetLo |-> BandAt(-25), targetHi |-> BandAt(-15), stop |-> BandAt(12)]
    BY <1>4 DEF WithBands, BandAt
<1> QED
    BY <1>5, <1>6, <1>7 DEF AdviceValid

WritersInv ==
    /\ memo = NoMemo \/ memo \in [at : {"insufficient", "chat", "uncited", "wordy", "error",
                                       "refused", "issued"}, case : Valuations]
    /\ ticket = NoMemo \/ ticket \in [at : {"chat", "wordy", "error", "refused", "issued"},
                                      trade : Trades]
    /\ AdvisedPriceIsOutside
    /\ ShapedTradesPass

LEMMA WritersStep == WritersInv /\ [WritersNext]_writerVars => WritersInv'
<1> SUFFICES ASSUME WritersInv, [WritersNext]_writerVars PROVE WritersInv'
    OBVIOUS
<1> USE DEF WritersInv, NoMemo
<1>1. ASSUME NEW v \in Valuations, Values(v) PROVE WritersInv'
    BY <1>1 DEF Values, AdvisedPriceIsOutside, ShapedTradesPass
<1>2. CASE WritesMemo
  <2>1. PICK thesis \in Writings :
            memo' = [memo EXCEPT !.at =
                        IF thesis # "cited" THEN thesis
                        ELSE IF AdviceValid(FundamentalAdvice(memo.case)) THEN "issued" ELSE "refused"]
      BY <1>2 DEF WritesMemo
  <2>2. /\ memo.at = "chat" /\ ticket' = ticket
        /\ memo \in [at : {"insufficient", "chat", "uncited", "wordy", "error",
                           "refused", "issued"}, case : Valuations]
      BY <1>2 DEF WritesMemo
  <2>3. /\ memo' \in [at : {"insufficient", "chat", "uncited", "wordy", "error",
                            "refused", "issued"}, case : Valuations]
        /\ memo'.case = memo.case
        /\ memo'.at = "issued" => AdviceValid(FundamentalAdvice(memo.case))
      BY <2>1, <2>2 DEF Writings
  <2>4. memo.case \in [price : Nat, bear : Int, bull : Int, missing : BOOLEAN]
      BY <2>2, WritersAssumption DEF WritersAssumption
  <2>5. AdvisedPriceIsOutside'
      BY <2>3, <2>4, RoomIsNeeded DEF AdvisedPriceIsOutside
  <2> QED
      BY <2>2, <2>3, <2>5 DEF ShapedTradesPass
<1>3. CASE MemoFails
    BY <1>3 DEF MemoFails, AdvisedPriceIsOutside, ShapedTradesPass
<1>4. ASSUME NEW t \in Trades, Sizes(t) PROVE WritersInv'
    BY <1>4 DEF Sizes, AdvisedPriceIsOutside, ShapedTradesPass
<1>5. CASE WritesTicket
  <2>1. PICK wordy \in BOOLEAN :
            ticket' = [ticket EXCEPT !.at =
                          IF wordy THEN "wordy"
                          ELSE IF AdviceValid(WithBands(ticket.trade)) THEN "issued" ELSE "refused"]
      BY <1>5 DEF WritesTicket
  <2>2. /\ ticket.at = "chat" /\ memo' = memo
        /\ ticket \in [at : {"chat", "wordy", "error", "refused", "issued"}, trade : Trades]
      BY <1>5 DEF WritesTicket
  <2>3. /\ ticket' \in [at : {"chat", "wordy", "error", "refused", "issued"}, trade : Trades]
        /\ ticket'.trade = ticket.trade
        /\ ticket'.at = "refused" => ~AdviceValid(WithBands(ticket.trade))
      BY <2>1, <2>2
  <2>4. ticket.trade \in [close : Nat, direction : {"long", "short"}, atr : Nat]
      BY <2>2, WritersAssumption DEF WritersAssumption
  <2>5. ShapedTradesPass'
      BY <2>3, <2>4, TradesPass DEF ShapedTradesPass
  <2> QED
      BY <2>2, <2>3, <2>5 DEF AdvisedPriceIsOutside
<1>6. CASE TicketFails
    BY <1>6 DEF TicketFails, AdvisedPriceIsOutside, ShapedTradesPass
<1>7. CASE UNCHANGED writerVars
    BY <1>7 DEF writerVars, AdvisedPriceIsOutside, ShapedTradesPass
<1> QED
    BY <1>1, <1>2, <1>3, <1>4, <1>5, <1>6, <1>7 DEF WritersNext

\* For all prices, valuations and ATRs: no fundamental advice on a price within its range,
\* and every trade with an ATR passes.
THEOREM WritersPass == WritersSpec => [](AdvisedPriceIsOutside /\ ShapedTradesPass)
<1>1. WritersInit => WritersInv
    BY DEF WritersInit, WritersInv, NoMemo, AdvisedPriceIsOutside, ShapedTradesPass
<1>2. WritersInv => AdvisedPriceIsOutside /\ ShapedTradesPass
    BY DEF WritersInv
<1> QED
    BY <1>1, <1>2, WritersStep, PTL DEF WritersSpec

-----------------------------------------------------------------------------
(* FeatureFlags.                                                           *)

Files == [text : Texts, mtime : MTimes \cup {0}] \cup {NoFile}

\* What a reader that looks at the file finds.
InFile(f) == IF f = NoFile THEN "gone" ELSE f.text

FlagsTypeOK ==
    /\ flagsFile \in Files
    /\ flagCache \in [FlagProcesses -> [mtime : Int, value : Texts]]
    /\ reading \in [FlagReaders -> [at : {"idle", "seen", "open"}, mtime : Int]]
    /\ told \in [FlagReaders -> BOOLEAN]
    /\ held \in [FlagReaders -> SUBSET (Texts \cup {"gone"})]
    /\ sameTime \in BOOLEAN

\* Unless a change kept a time, a cache of the file's time has what the file says.
CacheIsCurrent ==
    \A p \in FlagProcesses :
        ~sameTime /\ flagCache[p].mtime # NoMTime /\ flagCache[p].mtime = flagsFile.mtime =>
            flagCache[p].value = Says(flagsFile.text)

\* While a read is under way what is in the file is among what it has held.
ReadIsWatched ==
    \A r \in FlagReaders : reading[r].at # "idle" => InFile(flagsFile) \in held[r]

FlagsInv == FlagsTypeOK /\ CacheIsCurrent /\ ReadIsWatched /\ FlagFollowsFile

LEMMA FilesType ==
    \A f \in Files : f.text \in Texts /\ f.mtime \in Int /\ (f.mtime = NoMTime <=> f = NoFile)
<1> SUFFICES ASSUME NEW f \in Files
             PROVE  f.text \in Texts /\ f.mtime \in Int /\ (f.mtime = NoMTime <=> f = NoFile)
    OBVIOUS
<1>0. NoFile.mtime = NoMTime /\ NoFile.text \in Texts /\ NoMTime \in Int
    BY DEF NoFile, NoMTime, Texts
<1>1. CASE f \in [text : Texts, mtime : MTimes \cup {0}]
  <2>1. f.text \in Texts /\ f.mtime \in MTimes \cup {0}
      BY <1>1
  <2>2. \A m \in MTimes : m \in Nat
      BY FlagsAssumption DEF FlagsAssumption
  <2>3. f.mtime \in Int /\ f.mtime # NoMTime
      BY <2>1, <2>2 DEF NoMTime
  <2> QED
      BY <2>1, <2>3, <1>0
<1>2. CASE f = NoFile
    BY <1>0, <1>2
<1> QED
    BY <1>1, <1>2 DEF Files

LEMMA SaysType == \A t \in Texts : Says(t) \in Texts
    BY DEF Says, Texts

LEMMA FlagsStep == FlagsInv /\ [FlagsNext]_flagVars => FlagsInv'
<1> SUFFICES ASSUME FlagsInv, [FlagsNext]_flagVars PROVE FlagsInv'
    OBVIOUS
<1> USE DEF FlagsInv, FlagsTypeOK
<1>f. /\ flagsFile.text \in Texts /\ flagsFile.mtime \in Int
      /\ flagsFile.mtime = NoMTime <=> flagsFile = NoFile
    BY FilesType
<1>b. \A v : Resolve(v) \in BOOLEAN
    BY FlagsAssumption DEF Resolve, FlagsAssumption
<1>h. \A r \in FlagReaders : FlagHome[r] \in FlagProcesses
    BY DEF FlagProcesses
<1>n. NotReading.at = "idle" /\ NotReading \in [at : {"idle", "seen", "open"}, mtime : Int]
    BY DEF NotReading, NoMTime
<1>1. ASSUME NEW r \in FlagReaders, ReadMissing(r) PROVE FlagsInv'
  <2>1. /\ flagsFile' = flagsFile /\ flagCache' = flagCache /\ sameTime' = sameTime
        /\ told' = [told EXCEPT ![r] = Resolve("unset")]
        /\ reading' = [reading EXCEPT ![r] = NotReading]
        /\ held' = [held EXCEPT ![r] = {"unset"}]
      BY <1>1 DEF ReadMissing, AnswerFlag
  <2>2. FlagsTypeOK'
      BY <2>1, <1>b, <1>n DEF Texts
  <2>3. CacheIsCurrent'
      BY <2>1 DEF CacheIsCurrent
  <2>4. ReadIsWatched'
      BY <2>1, <1>n DEF ReadIsWatched
  <2>5. Resolve(Says("unset")) = Resolve("unset")
      BY DEF Says
  <2>6. FlagFollowsFile'
      BY <2>1, <2>5 DEF FlagFollowsFile
  <2> QED
      BY <2>2, <2>3, <2>4, <2>6
<1>2. ASSUME NEW r \in FlagReaders, SeeFile(r) PROVE FlagsInv'
  <2>1. /\ flagsFile' = flagsFile /\ flagCache' = flagCache /\ sameTime' = sameTime
        /\ told' = told /\ flagsFile # NoFile
        /\ reading' = [reading EXCEPT ![r].at = "seen"]
        /\ held' = [held EXCEPT ![r] = {flagsFile.text}]
      BY <1>2, <1>f DEF SeeFile
  <2>2. FlagsTypeOK'
      BY <2>1, <1>f
  <2>3. CacheIsCurrent'
      BY <2>1 DEF CacheIsCurrent
  <2>4. ReadIsWatched'
      BY <2>1 DEF ReadIsWatched, InFile
  <2>5. FlagFollowsFile'
      BY <2>1 DEF FlagFollowsFile
  <2> QED
      BY <2>2, <2>3, <2>4, <2>5
<1>3. ASSUME NEW r \in FlagReaders, StatFile(r) PROVE FlagsInv'
  <2> DEFINE cache == flagCache[FlagHome[r]]
  <2>1. /\ flagsFile' = flagsFile /\ flagCache' = flagCache /\ sameTime' = sameTime
        /\ held' = held /\ reading[r].at = "seen"
      BY <1>3 DEF StatFile
  <2>2. CacheIsCurrent'
      BY <2>1 DEF CacheIsCurrent
  <2>3. CASE flagsFile.mtime \in {NoMTime, cache.mtime}
    <3>1. /\ told' = [told EXCEPT ![r] = Resolve(cache.value)]
          /\ reading' = [reading EXCEPT ![r] = NotReading]
        BY <1>3, <2>3 DEF StatFile, AnswerFlag
    <3>2. InFile(flagsFile) \in held[r]
        BY <2>1 DEF ReadIsWatched
    <3>3. flagsFile = NoFile => "gone" \in held[r]
        BY <3>2 DEF InFile
    <3>4. ASSUME flagsFile # NoFile, ~sameTime
          PROVE  flagsFile.text \in held[r] /\ cache.value = Says(flagsFile.text)
        BY <2>3, <3>2, <3>4, <1>f, <1>h DEF CacheIsCurrent, InFile
    <3>5. FlagFollowsFile'
        BY <2>1, <3>1, <3>3, <3>4 DEF FlagFollowsFile
    <3>6. FlagsTypeOK'
        BY <1>b, <1>n, <2>1, <3>1
    <3>7. ReadIsWatched'
        BY <1>n, <2>1, <3>1 DEF ReadIsWatched
    <3> QED
        BY <2>2, <3>5, <3>6, <3>7
  <2>4. CASE ~(flagsFile.mtime \in {NoMTime, cache.mtime})
    <3>1. /\ told' = told
          /\ reading' = [reading EXCEPT ![r] = [at |-> "open", mtime |-> flagsFile.mtime]]
        BY <1>3, <2>4 DEF StatFile
    <3>2. FlagsTypeOK'
        BY <1>f, <2>1, <3>1
    <3>3. ReadIsWatched'
        BY <2>1, <3>1 DEF ReadIsWatched
    <3>4. FlagFollowsFile'
        BY <2>1, <3>1 DEF FlagFollowsFile
    <3> QED
        BY <2>2, <3>2, <3>3, <3>4
  <2> QED
      BY <2>3, <2>4
<1>4. ASSUME NEW r \in FlagReaders, ReadText(r) PROVE FlagsInv'
  <2> DEFINE p == FlagHome[r]
  <2>1. /\ flagsFile' = flagsFile /\ sameTime' = sameTime
        /\ InFile(flagsFile) \in held[r]
        /\ reading' = [reading EXCEPT ![r] = NotReading]
      BY <1>4 DEF ReadText, AnswerFlag, ReadIsWatched
  <2>2. \A q \in FlagReaders : q # r => held'[q] = held[q]
      BY <1>4 DEF ReadText
  <2>3. ReadIsWatched'
      BY <1>n, <2>1, <2>2 DEF ReadIsWatched
  <2>4. CASE flagsFile.mtime = NoMTime
    <3>1. held' = [held EXCEPT ![r] = {}] /\ flagCache' = flagCache /\ told' = told
        BY <1>4, <2>4 DEF ReadText
    <3> QED
        BY <1>n, <2>1, <2>3, <3>1 DEF CacheIsCurrent, FlagFollowsFile
  <2>5. CASE flagsFile.mtime # NoMTime /\ flagsFile.text = "broken"
    <3>1. /\ held' = held /\ flagCache' = flagCache
          /\ told' = [told EXCEPT ![r] = Resolve(flagCache[p].value)]
        BY <1>4, <2>5 DEF ReadText, AnswerFlag
    <3>2. "broken" \in held[r]
        BY <1>f, <2>1, <2>5 DEF InFile
    <3>3. FlagFollowsFile'
        BY <2>1, <3>1, <3>2 DEF FlagFollowsFile
    <3>4. FlagsTypeOK'
        BY <1>b, <1>n, <2>1, <3>1
    <3> QED
        BY <2>1, <2>3, <3>1, <3>3, <3>4 DEF CacheIsCurrent
  <2>6. CASE flagsFile.mtime # NoMTime /\ flagsFile.text # "broken"
    <3>1. /\ held' = held
          /\ told' = [told EXCEPT ![r] = Resolve(Says(flagsFile.text))]
          /\ flagCache' = [flagCache EXCEPT ![p] = [mtime |-> reading[r].mtime,
                                                    value |-> Says(flagsFile.text)]]
        BY <1>4, <2>6 DEF ReadText, AnswerFlag
    <3>2. flagsFile.text \in held[r]
        BY <1>f, <2>1, <2>6 DEF InFile
    <3>3. FlagFollowsFile'
        BY <2>1, <3>1, <3>2 DEF FlagFollowsFile
    <3>4. FlagsTypeOK'
        BY <1>b, <1>f, <1>h, <1>n, <2>1, <3>1, SaysType
    <3>5. CacheIsCurrent'
        BY <1>h, <2>1, <3>1 DEF CacheIsCurrent
    <3> QED
        BY <2>3, <3>3, <3>4, <3>5
  <2> QED
      BY <2>4, <2>5, <2>6
<1>5. ASSUME NEW p \in FlagProcesses, RestartProcess(p) PROVE FlagsInv'
  <2>1. /\ flagsFile' = flagsFile /\ sameTime' = sameTime
        /\ flagCache' = [flagCache EXCEPT ![p] = NoCache]
        /\ \A r \in FlagReaders :
              IF FlagHome[r] = p
              THEN reading'[r] = NotReading /\ told'[r] = FALSE /\ held'[r] = {}
              ELSE reading'[r] = reading[r] /\ told'[r] = told[r] /\ held'[r] = held[r]
      BY <1>5 DEF RestartProcess
  <2>2. NoCache \in [mtime : Int, value : Texts] /\ NoCache.mtime = NoMTime
      BY DEF NoCache, NoMTime, Texts
  <2>3. FlagsTypeOK'
    <3>1. reading' \in [FlagReaders -> [at : {"idle", "seen", "open"}, mtime : Int]]
        BY <1>5, <1>n DEF RestartProcess
    <3>2. told' \in [FlagReaders -> BOOLEAN]
        BY <1>5 DEF RestartProcess
    <3>3. held' \in [FlagReaders -> SUBSET (Texts \cup {"gone"})]
        BY <1>5 DEF RestartProcess
    <3> QED
        BY <2>1, <2>2, <3>1, <3>2, <3>3
  <2>4. CacheIsCurrent'
      BY <2>1, <2>2 DEF CacheIsCurrent
  <2>5. ReadIsWatched'
      BY <1>n, <2>1 DEF ReadIsWatched
  <2>6. FlagFollowsFile'
      BY <2>1 DEF FlagFollowsFile
  <2> QED
      BY <2>3, <2>4, <2>5, <2>6
<1>6. CASE EditFlags
  <2>1. PICK f \in [text : Texts, mtime : MTimes] \union {NoFile} :
          /\ flagsFile' = f
          /\ held' = [r \in FlagReaders |->
                         IF reading[r].at = "idle" THEN held[r]
                         ELSE held[r] \union {IF f = NoFile THEN "gone" ELSE f.text}]
          /\ sameTime' = (sameTime \/ (f # NoFile /\
                \/ \E p \in FlagProcesses : f.mtime = flagCache[p].mtime
                \/ \E r \in FlagReaders : f.mtime = reading[r].mtime))
          /\ flagCache' = flagCache /\ reading' = reading /\ told' = told
      BY <1>6 DEF EditFlags
  <2>2. f \in Files
      BY DEF Files
  <2>3. f.text \in Texts /\ (f.mtime = NoMTime <=> f = NoFile)
      BY <2>2, FilesType
  <2>4. FlagsTypeOK'
    <3>1. held' \in [FlagReaders -> SUBSET (Texts \cup {"gone"})]
        BY <2>1, <2>3
    <3>2. sameTime' \in BOOLEAN
        BY <2>1
    <3> QED
        BY <2>1, <2>2, <3>1, <3>2
  <2>5. CacheIsCurrent'
      BY <2>1, <2>3 DEF CacheIsCurrent
  <2>6. ReadIsWatched'
      BY <2>1 DEF ReadIsWatched, InFile
  <2>7. FlagFollowsFile'
      BY <2>1 DEF FlagFollowsFile
  <2> QED
      BY <2>4, <2>5, <2>6, <2>7
<1>7. CASE UNCHANGED flagVars
    BY <1>7 DEF flagVars, CacheIsCurrent, ReadIsWatched, FlagFollowsFile
<1> QED
    BY <1>1, <1>2, <1>3, <1>4, <1>5, <1>6, <1>7 DEF FlagsNext

\* However a file is edited, removed and restored around the three steps of a read, and
\* whichever thread of a process filled its cache, an answer has one of the causes that
\* FlagFollowsFile names.
THEOREM FlagsAnswers == FlagsSpec => []FlagFollowsFile
<1>1. FlagsInit => FlagsInv
  <2> SUFFICES ASSUME FlagsInit PROVE FlagsInv
      OBVIOUS
  <2>1. flagsFile \in Files
      BY DEF FlagsInit, Files
  <2>2. flagCache \in [FlagProcesses -> [mtime : Int, value : Texts]]
      BY DEF FlagsInit, NoCache, NoMTime, Texts
  <2>3. reading \in [FlagReaders -> [at : {"idle", "seen", "open"}, mtime : Int]]
      BY DEF FlagsInit, NotReading, NoMTime
  <2>4. told \in [FlagReaders -> BOOLEAN] /\ held \in [FlagReaders -> SUBSET (Texts \cup {"gone"})]
        /\ sameTime \in BOOLEAN
      BY DEF FlagsInit
  <2>5. CacheIsCurrent
      BY DEF FlagsInit, CacheIsCurrent, NoCache
  <2>6. ReadIsWatched
      BY DEF FlagsInit, ReadIsWatched, NotReading
  <2>7. FlagFollowsFile
      BY DEF FlagsInit, FlagFollowsFile
  <2> QED
      BY <2>1, <2>2, <2>3, <2>4, <2>5, <2>6, <2>7 DEF FlagsInv, FlagsTypeOK
<1>2. FlagsInv => FlagFollowsFile
    BY DEF FlagsInv
<1> QED
    BY <1>1, <1>2, FlagsStep, PTL DEF FlagsSpec

-----------------------------------------------------------------------------
(* PromptRegistry: of a version that nobody raced for and whose file did not *)
(* change under a process, one text is published, and only that is given.   *)

PromptFiles == [version : Versions, text : PromptTexts]

PromptTypeOK ==
    /\ source \in [PromptProcesses -> Trees]
    /\ parsed \in [PromptProcesses -> Trees \cup {NotLoaded}]
    /\ pending \in [PromptProcesses ->
           [version : Versions, rendered : PromptTexts \cup {NoText}, source : PromptTexts] \cup {NoCall}]
    /\ published \subseteq PromptFiles

Sound(v) == v \in Versions /\ v \notin raced \cup changed

\* A tree that a process has parsed is the one it has.
ParsedIsSource ==
    \A p \in PromptProcesses : parsed[p] = NotLoaded
        \/ \A v \in Versions : v \notin changed => parsed[p][v] = source[p][v]

OnePublished ==
    \A f, g \in published : f.version = g.version /\ Sound(f.version) => f.text = g.text

GivenIsPublished ==
    \A g \in gave : g.version \in Versions /\ (Sound(g.version) => g \in published)

\* Who is about to publish a version is alone, and nothing of it is published.
PublisherIsAlone ==
    \A p \in PromptProcesses :
        pending[p] # NoCall /\ Sound(pending[p].version) =>
            /\ pending[p].rendered = pending[p].source
            /\ \A f \in published : f.version # pending[p].version
            /\ \A q \in PromptProcesses \ {p} :
                  pending[q] # NoCall => pending[q].version # pending[p].version

PromptInv ==
    PromptTypeOK /\ ParsedIsSource /\ OnePublished /\ GivenIsPublished /\ PublisherIsAlone

LEMMA TextsAreNumbers == PromptTexts \subseteq Int /\ NoText \notin PromptTexts
    BY PromptAssumption DEF PromptAssumption, NoText

LEMMA MinOfOne == ASSUME NEW t \in Int PROVE Min({t}) = t
<1>1. \A y \in {t} : t =< y
    OBVIOUS
<1> QED
    BY <1>1 DEF Min

\* The tree that get() renders from.
LEMMA RenderedTree ==
    ASSUME PromptInv, NEW p \in PromptProcesses
    PROVE  /\ ParsedTree(p) \in Trees
           /\ \A v \in Versions : v \notin changed => ParsedTree(p)[v] = source[p][v]
<1>1. CASE parsed[p] = NotLoaded
    BY <1>1 DEF ParsedTree, PromptInv, PromptTypeOK
<1>2. CASE parsed[p] # NotLoaded
    BY <1>2 DEF ParsedTree, PromptInv, PromptTypeOK, ParsedIsSource
<1> QED
    BY <1>1, <1>2


\* get() picks a version of the tree, and one that has a text.
LEMMA PickedVersion ==
    ASSUME NEW tree,
           NEW v \in PickStable(tree) \cup UNION {PickExplicit(tree, w) : w \in Versions}
    PROVE  v \in Versions
<1>1. ASSUME v \in PickStable(tree) PROVE v \in Versions
  <2> DEFINE stable == {w \in Versions : tree[w] \in StableTexts}
  <2>1. stable # {} /\ v = Max(stable)
      BY <1>1 DEF PickStable
  <2>2. \E w \in stable : \A u \in stable : w >= u
      BY <2>1, PromptAssumption DEF PromptAssumption
  <2>3. Max(stable) \in stable
      BY <2>2 DEF Max
  <2> QED
      BY <2>1, <2>3
<1>2. ASSUME NEW w \in Versions, v \in PickExplicit(tree, w) PROVE v \in Versions
    BY <1>2 DEF PickExplicit
<1> QED
    BY <1>1, <1>2

LEMMA GetPromptStep ==
    ASSUME PromptInv, NEW p \in PromptProcesses, GetPrompt(p) PROVE PromptInv'
<1> USE DEF PromptInv
<1> DEFINE tree == ParsedTree(p)
<1>1. PICK v \in PickStable(tree) \cup UNION {PickExplicit(tree, w) : w \in Versions} :
        LET call == [version |-> v, rendered |-> tree[v], source |-> source[p][v]]
            there == \E f \in published : f.version = v
        IN  /\ call.source # NoText
            /\ IF p \in Publishing /\ ~there
               THEN /\ pending' = [pending EXCEPT ![p] = call]
                    /\ raced' = raced \cup {v : q \in {q \in PromptProcesses : pending[q].version = v}}
                    /\ UNCHANGED gave
               ELSE /\ p \in Publishing => AgreesWith(v, call.source)
                    /\ gave' = IF p \in Publishing
                               THEN gave \cup {[version |-> v, text |-> call.rendered]}
                               ELSE gave
                    /\ UNCHANGED <<pending, raced>>
    BY DEF GetPrompt
<1>2. /\ pending[p] = NoCall /\ parsed' = [parsed EXCEPT ![p] = tree]
      /\ source' = source /\ published' = published /\ changed' = changed
    BY DEF GetPrompt
<1>3. tree \in Trees /\ \A w \in Versions : w \notin changed => tree[w] = source[p][w]
    BY RenderedTree
<1>4. v \in Versions
    BY <1>1, PickedVersion
<1>5. source[p][v] \in PromptTexts /\ tree[v] \in PromptTexts \cup {NoText}
    BY <1>1, <1>3, <1>4 DEF PromptTypeOK, Trees
<1>6. parsed' \in [PromptProcesses -> Trees \cup {NotLoaded}] /\ ParsedIsSource'
    BY <1>2, <1>3 DEF PromptTypeOK, ParsedIsSource
<1>7. OnePublished'
  <2>1. raced \subseteq raced'
      BY <1>1
  <2> QED
      BY <1>2, <2>1 DEF OnePublished, Sound
<1>8. CASE p \in Publishing /\ ~(\E f \in published : f.version = v)
  <2> DEFINE call == [version |-> v, rendered |-> tree[v], source |-> source[p][v]]
  <2>1. /\ pending' = [pending EXCEPT ![p] = call] /\ gave' = gave
        /\ raced' = raced \cup {v : q \in {q \in PromptProcesses : pending[q].version = v}}
      BY <1>1, <1>8
  <2>2. call \in [version : Versions, rendered : PromptTexts \cup {NoText}, source : PromptTexts]
      BY <1>4, <1>5
  <2>3. PromptTypeOK'
      BY <1>2, <1>6, <2>1, <2>2 DEF PromptTypeOK
  <2>4. GivenIsPublished'
      BY <1>2, <2>1 DEF GivenIsPublished, Sound
  <2>5. ASSUME Sound(v)' PROVE tree[v] = source[p][v] /\ \A q \in PromptProcesses : pending[q].version # v
      BY <1>2, <1>3, <2>1, <2>5 DEF Sound
  <2>6. PublisherIsAlone'
    <3> SUFFICES ASSUME NEW q \in PromptProcesses, pending'[q] # NoCall, Sound(pending[q].version)'
                 PROVE  /\ pending'[q].rendered = pending'[q].source
                        /\ \A f \in published' : f.version # pending'[q].version
                        /\ \A r \in PromptProcesses \ {q} :
                              pending'[r] # NoCall => pending'[r].version # pending'[q].version
        BY DEF PublisherIsAlone
    <3>1. CASE q = p
      <4>1. pending'[q] = call
          BY <2>1, <3>1 DEF PromptTypeOK
      <4>5. Sound(v)'
          BY <4>1 DEF Sound
      <4>2. \A r \in PromptProcesses \ {p} : pending'[r] = pending[r]
          BY <2>1 DEF PromptTypeOK
      <4> QED
          BY <1>2, <1>8, <2>5, <3>1, <4>1, <4>2, <4>5
    <3>2. CASE q # p
      <4>1. pending'[q] = pending[q]
          BY <2>1, <3>2 DEF PromptTypeOK
      <4>2. Sound(pending[q].version) /\ pending[q].version # v
          BY <1>2, <2>1, <2>5, <4>1 DEF Sound
      <4>3. pending'[p].version = v /\ \A r \in PromptProcesses \ {p} : pending'[r] = pending[r]
          BY <2>1 DEF PromptTypeOK
      <4>4. /\ pending[q].rendered = pending[q].source
            /\ \A f \in published : f.version # pending[q].version
            /\ \A r \in PromptProcesses \ {q} :
                  pending[r] # NoCall => pending[r].version # pending[q].version
          BY <4>1, <4>2 DEF PublisherIsAlone
      <4> QED
          BY <1>2, <4>1, <4>2, <4>3, <4>4
    <3> QED
        BY <3>1, <3>2
  <2> QED
      BY <1>6, <1>7, <2>3, <2>4, <2>6
<1>9. CASE ~(p \in Publishing /\ ~(\E f \in published : f.version = v))
  <2>1. pending' = pending /\ raced' = raced
      BY <1>1, <1>9
  <2>2. PromptTypeOK'
      BY <1>2, <1>6, <2>1 DEF PromptTypeOK
  <2>3. PublisherIsAlone'
      BY <1>2, <2>1 DEF PublisherIsAlone, Sound
  <2>4. CASE p \notin Publishing
    <3>1. gave' = gave
        BY <1>1, <1>9, <2>4
    <3> QED
        BY <1>2, <1>6, <1>7, <2>1, <2>2, <2>3, <3>1 DEF GivenIsPublished, Sound
  <2>5. CASE p \in Publishing
    <3>1. /\ AgreesWith(v, source[p][v])
          /\ gave' = gave \cup {[version |-> v, text |-> tree[v]]}
        BY <1>1, <1>9, <2>5
    <3>2. PICK f \in published : f.version = v
        BY <1>9, <2>5
    <3>3. ASSUME Sound(v) PROVE [version |-> v, text |-> tree[v]] = f
      <4>1. {h.text : h \in {g \in published : g.version = v}} = {f.text}
          BY <3>2, <3>3 DEF OnePublished
      <4>2. f.text \in Int /\ f = [version |-> v, text |-> f.text]
          BY <3>2, TextsAreNumbers DEF PromptTypeOK, PromptFiles
      <4>3. f.text = source[p][v]
          BY <3>1, <4>1, <4>2, MinOfOne DEF AgreesWith
      <4>4. tree[v] = source[p][v]
          BY <1>3, <3>3 DEF Sound
      <4> QED
          BY <4>2, <4>3, <4>4
    <3>4. GivenIsPublished'
      <4>1. [version |-> v, text |-> tree[v]].version = v
          OBVIOUS
      <4> QED
          BY <1>2, <1>4, <2>1, <3>1, <3>3, <4>1 DEF GivenIsPublished, Sound
    <3> QED
        BY <1>6, <1>7, <2>2, <2>3, <3>4
  <2> QED
      BY <2>4, <2>5
<1> QED
    BY <1>8, <1>9

LEMMA PublishPromptStep ==
    ASSUME PromptInv, NEW p \in PromptProcesses, PublishPrompt(p) PROVE PromptInv'
<1> USE DEF PromptInv
<1> DEFINE v == pending[p].version
           file == [version |-> v, text |-> pending[p].source]
<1>1. /\ pending[p] # NoCall /\ pending' = [pending EXCEPT ![p] = NoCall]
      /\ published' = published \cup {file}
      /\ gave' = gave \cup {[version |-> v, text |-> pending[p].rendered]}
      /\ source' = source /\ parsed' = parsed /\ raced' = raced /\ changed' = changed
    BY DEF PublishPrompt
<1>2. v \in Versions /\ file \in PromptFiles /\ file.version = v
    BY <1>1 DEF PromptTypeOK, PromptFiles
<1>3. PromptTypeOK'
    BY <1>1, <1>2 DEF PromptTypeOK
<1>4. ParsedIsSource'
    BY <1>1 DEF ParsedIsSource
<1>5. Sound(v) => /\ pending[p].rendered = pending[p].source
                  /\ \A f \in published : f.version # v
                  /\ \A q \in PromptProcesses \ {p} : pending[q] # NoCall => pending[q].version # v
    BY <1>1 DEF PublisherIsAlone
<1>6. OnePublished'
  <2> SUFFICES ASSUME NEW f \in published \cup {file}, NEW g \in published \cup {file},
                      f.version = g.version, Sound(f.version)
               PROVE  f.text = g.text
      BY <1>1 DEF OnePublished, Sound
  <2> QED
      BY <1>2, <1>5 DEF OnePublished
<1>7. GivenIsPublished'
  <2>1. [version |-> v, text |-> pending[p].rendered].version = v
      OBVIOUS
  <2> QED
      BY <1>1, <1>2, <1>5, <2>1 DEF GivenIsPublished, Sound
<1>8. PublisherIsAlone'
  <2>1. pending'[p] = NoCall /\ \A r \in PromptProcesses \ {p} : pending'[r] = pending[r]
      BY <1>1 DEF PromptTypeOK
  <2> QED
      BY <1>1, <1>2, <1>5, <2>1 DEF PublisherIsAlone, Sound
<1> QED
    BY <1>3, <1>4, <1>6, <1>7, <1>8

LEMMA ChangeSourceStep ==
    ASSUME PromptInv, NEW p \in PromptProcesses, ChangeSource(p) PROVE PromptInv'
<1> USE DEF PromptInv
<1>1. PICK v \in Versions, t \in PromptTexts \cup {NoText} :
          /\ source' = [source EXCEPT ![p] = [source[p] EXCEPT ![v] = t]]
          /\ changed' = IF parsed[p] = NotLoaded THEN changed ELSE changed \cup {v}
    BY DEF ChangeSource
<1>2. UNCHANGED <<parsed, pending, published, gave, raced>>
    BY DEF ChangeSource
<1>3. source[p] \in Trees
    BY DEF PromptTypeOK
<1>4. [source[p] EXCEPT ![v] = t] \in Trees
    BY <1>3 DEF Trees
<1>5. PromptTypeOK'
    BY <1>1, <1>2, <1>4 DEF PromptTypeOK
<1>6. changed \subseteq changed'
    BY <1>1
<1>7. ParsedIsSource'
  <2> SUFFICES ASSUME NEW q \in PromptProcesses, parsed[q] # NotLoaded,
                      NEW w \in Versions, w \notin changed'
               PROVE  parsed[q][w] = source'[q][w]
      BY <1>2 DEF ParsedIsSource
  <2>1. parsed[q][w] = source[q][w]
      BY <1>6 DEF ParsedIsSource
  <2>2. CASE q # p
      BY <1>1, <2>1, <2>2 DEF PromptTypeOK
  <2>3. CASE q = p
    <3>1. w # v
        BY <1>1, <2>3
    <3>2. source'[q] = [source[p] EXCEPT ![v] = t]
        BY <1>1, <2>3 DEF PromptTypeOK
    <3> QED
        BY <1>3, <2>1, <2>3, <3>1, <3>2 DEF Trees
  <2> QED
      BY <2>2, <2>3
<1>8. OnePublished' /\ GivenIsPublished' /\ PublisherIsAlone'
    BY <1>2, <1>6 DEF OnePublished, GivenIsPublished, PublisherIsAlone, Sound
<1> QED
    BY <1>5, <1>7, <1>8

\* Whatever the trees, the changes and the restarts of the processes are, a version that is
\* given twice is one text, but for the two causes that VersionIsOneText names.
THEOREM PromptsAreOneText == PromptSpec => []VersionIsOneText
<1>1. PromptInit => PromptInv
  <2> SUFFICES ASSUME PromptInit PROVE PromptInv
      OBVIOUS
  <2>1. PromptTypeOK
      BY DEF PromptInit, PromptTypeOK
  <2>2. ParsedIsSource /\ OnePublished /\ GivenIsPublished /\ PublisherIsAlone
      BY DEF PromptInit, ParsedIsSource, OnePublished, GivenIsPublished, PublisherIsAlone
  <2> QED
      BY <2>1, <2>2 DEF PromptInv
<1>2. PromptInv /\ [PromptNext]_promptVars => PromptInv'
  <2> SUFFICES ASSUME PromptInv, [PromptNext]_promptVars PROVE PromptInv'
      OBVIOUS
  <2>1. ASSUME NEW p \in PromptProcesses, GetPromptRaises(p) PROVE PromptInv'
    <3>1. /\ parsed' = [parsed EXCEPT ![p] = ParsedTree(p)]
          /\ UNCHANGED <<source, pending, published, gave, raced, changed>>
        BY <2>1 DEF GetPromptRaises
    <3>2. ParsedTree(p) \in Trees
          /\ \A v \in Versions : v \notin changed => ParsedTree(p)[v] = source[p][v]
        BY RenderedTree
    <3> QED
        BY <3>1, <3>2 DEF PromptInv, PromptTypeOK, ParsedIsSource, OnePublished,
           GivenIsPublished, PublisherIsAlone, Sound
  <2>2. ASSUME NEW p \in PromptProcesses, RestartPrompts(p) PROVE PromptInv'
    <3>1. /\ parsed' = [parsed EXCEPT ![p] = NotLoaded]
          /\ pending' = [pending EXCEPT ![p] = NoCall]
          /\ UNCHANGED <<source, published, gave, raced, changed>>
        BY <2>2 DEF RestartPrompts
    <3>2. PromptTypeOK'
        BY <3>1 DEF PromptInv, PromptTypeOK
    <3>3. ParsedIsSource' /\ OnePublished' /\ GivenIsPublished'
        BY <3>1 DEF PromptInv, PromptTypeOK, ParsedIsSource, OnePublished, GivenIsPublished, Sound
    <3>4. pending'[p] = NoCall /\ \A r \in PromptProcesses \ {p} : pending'[r] = pending[r]
        BY <3>1 DEF PromptInv, PromptTypeOK
    <3>5. PublisherIsAlone'
        BY <3>1, <3>4 DEF PromptInv, PublisherIsAlone, Sound
    <3> QED
        BY <3>2, <3>3, <3>5 DEF PromptInv
  <2>3. CASE UNCHANGED promptVars
      BY <2>3 DEF promptVars, PromptInv, PromptTypeOK, ParsedIsSource, OnePublished,
         GivenIsPublished, PublisherIsAlone, Sound
  <2> QED
      BY <2>1, <2>2, <2>3, GetPromptStep, PublishPromptStep, ChangeSourceStep DEF PromptNext
<1>3. PromptInv => VersionIsOneText
    BY DEF PromptInv, GivenIsPublished, OnePublished, Sound, VersionIsOneText
<1> QED
    BY <1>1, <1>2, <1>3, PTL DEF PromptSpec

-----------------------------------------------------------------------------
(* FutuSubscriptions: what the store has, what OpenD has and what a caller    *)
(* was promised differ from the set of the process only where a put is under  *)
(* way or something failed.                                                 *)

\* A put that failed, or one sent after the i-th, is about ticker t.
Covered(t, i) ==
    t \in unsaved \/ \E j \in 1..Len(sending) : j > i /\ sending[j].ticker = t

StoreFollows ==
    /\ \A t \in Tickers : (t \in subs) # (t \in kv) => Covered(t, 0)
    /\ \A t \in Tickers : (t \in subs) # (t \in promised) => Covered(t, 0)

\* Each put under way brings the store to what the process has, up to the later ones.
PutsFollow ==
    \A i \in 1..Len(sending) :
        /\ \A t \in Tickers : (t \in subs) # (t \in sending[i].doc) => Covered(t, i)
        /\ (sending[i].ticker \in subs) # (sending[i].op = "add") => Covered(sending[i].ticker, i)

BrokerFollows ==
    \A t \in Tickers :
        /\ t \in openD \ subs => t \in refused \cup unsaved
        /\ reconciled /\ t \in subs \ openD => t \in refused \cup unsaved

SubsInv == SubsTypeOK /\ StoreFollows /\ PutsFollow /\ BrokerFollows

LEMMA WithType ==
    ASSUME NEW set \in SUBSET Tickers, NEW t \in Tickers, NEW op \in {"add", "remove"}
    PROVE  /\ With(set, op, t) \in SUBSET Tickers
           /\ t \in With(set, op, t) <=> op = "add"
           /\ \A u : u # t => (u \in With(set, op, t) <=> u \in set)
    BY DEF With

LEMMA SeqMember ==
    ASSUME NEW S, NEW q \in Seq(S) PROVE Len(q) \in Nat /\ \A i \in 1..Len(q) : q[i] \in S
    OBVIOUS

LEMMA PutType ==
    ASSUME SubsTypeOK
    PROVE  /\ Len(sending) \in Nat
           /\ \A i \in 1..Len(sending) :
                 sending[i] \in [op : {"add", "remove"}, ticker : Tickers, doc : SUBSET Tickers]
<1>1. sending \in Seq([op : {"add", "remove"}, ticker : Tickers, doc : SUBSET Tickers])
    BY DEF SubsTypeOK
<1> QED
    BY <1>1, SeqMember, Zenon

LEMMA NothingToDoStep ==
    ASSUME SubsInv, NEW op \in {"add", "remove"}, NEW t \in Tickers, NothingToDo(op, t)
    PROVE  SubsInv'
<1>1. /\ subs = With(subs, op, t) /\ promised' = With(promised, op, t)
      /\ UNCHANGED <<subs, kv, openD, sending, reconciled, refused, unsaved, failures, restarts>>
    BY DEF NothingToDo
<1>2. SubsTypeOK'
    BY <1>1, WithType DEF SubsInv, SubsTypeOK
<1>5. \A u : u # t => (u \in promised' <=> u \in promised)
    BY <1>1, WithType DEF SubsInv, SubsTypeOK
<1>6. t \in promised' <=> t \in subs
    BY <1>1, WithType DEF SubsInv, SubsTypeOK
<1>7. \A u, i : Covered(u, i)' <=> Covered(u, i)
    BY <1>1 DEF Covered
<1>3. StoreFollows'
    BY <1>1, <1>5, <1>6, <1>7 DEF SubsInv, StoreFollows
<1>4. PutsFollow' /\ BrokerFollows'
    BY <1>1 DEF SubsInv, PutsFollow, Covered, BrokerFollows
<1> QED
    BY <1>2, <1>3, <1>4 DEF SubsInv

LEMMA TellsOpenDStep ==
    ASSUME SubsInv, NEW op \in {"add", "remove"}, NEW t \in Tickers, TellsOpenD(op, t)
    PROVE  SubsInv'
<1> USE DEF SubsInv
<1> DEFINE put == [op |-> op, ticker |-> t, doc |-> With(subs, op, t)]
           n == Len(sending)
<1>1. /\ subs' = With(subs, op, t) /\ sending' = Append(sending, put)
      /\ UNCHANGED <<kv, reconciled, promised, unsaved, restarts>>
    BY DEF TellsOpenD, Document
<1>2. \/ openD' = With(openD, op, t) /\ UNCHANGED <<refused, failures>>
      \/ failures' = failures + 1 /\ refused' = refused \cup {t} /\ UNCHANGED openD
    BY DEF TellsOpenD, GoesWrong
<1>3. /\ put \in [op : {"add", "remove"}, ticker : Tickers, doc : SUBSET Tickers]
      /\ With(openD, op, t) \in SUBSET Tickers
    BY WithType DEF SubsTypeOK
<1>4. SubsTypeOK'
    BY <1>1, <1>2, <1>3 DEF SubsTypeOK
<1>5. /\ n \in Nat /\ Len(sending') = n + 1 /\ sending'[n + 1] = put
      /\ \A i \in 1..n : sending'[i] = sending[i]
    BY <1>1, <1>3 DEF SubsTypeOK
<1>6. \A u \in Tickers, i \in 0..n : Covered(u, i) => Covered(u, i)'
    BY <1>1, <1>5 DEF Covered
<1>7. \A i \in 0..n : Covered(t, i)'
    BY <1>5 DEF Covered
<1>8. \A u \in Tickers : u # t => (u \in subs' <=> u \in subs)
    BY <1>1, WithType DEF SubsTypeOK
<1>9. StoreFollows'
    BY <1>1, <1>5, <1>6, <1>7, <1>8 DEF StoreFollows
<1>10. PutsFollow'
  <2> SUFFICES ASSUME NEW i \in 1..(n + 1)
               PROVE  /\ \A u \in Tickers : (u \in subs') # (u \in sending'[i].doc) => Covered(u, i)'
                      /\ (sending'[i].ticker \in subs') # (sending'[i].op = "add")
                            => Covered(sending[i].ticker, i)'
      BY <1>5 DEF PutsFollow
  <2>1. CASE i = n + 1
    <3>1. sending'[i].doc = subs' /\ sending'[i].ticker = t /\ sending'[i].op = op
        BY <1>1, <1>5, <2>1
    <3>2. t \in subs' <=> op = "add"
        BY <1>1, WithType DEF SubsTypeOK
    <3> QED
        BY <3>1, <3>2
  <2>2. CASE i \in 1..n
    <3>3. sending[i] \in [op : {"add", "remove"}, ticker : Tickers, doc : SUBSET Tickers]
        BY <2>2, PutType
    <3>1. sending'[i] = sending[i] /\ sending[i].ticker \in Tickers
        BY <1>5, <2>2, <3>3
    <3> QED
        BY <1>5, <1>6, <1>7, <1>8, <2>2, <3>1 DEF PutsFollow
  <2> QED
      BY <1>5, <2>1, <2>2
<1>11. BrokerFollows'
  <2>1. CASE openD' = With(openD, op, t) /\ UNCHANGED <<refused, failures>>
    <3>1. /\ \A u : u # t => (u \in openD' <=> u \in openD)
          /\ t \in openD' <=> t \in subs'
        BY <1>1, <2>1, WithType DEF SubsTypeOK
    <3> QED
        BY <1>1, <1>8, <2>1, <3>1 DEF BrokerFollows
  <2>2. CASE refused' = refused \cup {t} /\ UNCHANGED openD
      BY <1>1, <1>8, <2>2 DEF BrokerFollows
  <2> QED
      BY <1>2, <2>1, <2>2
<1> QED
    BY <1>4, <1>9, <1>10, <1>11

LEMMA OpenDRaisesStep ==
    ASSUME SubsInv, NEW op \in {"add", "remove"}, NEW t \in Tickers, OpenDRaises(op, t)
    PROVE  SubsInv'
<1>1. /\ openD' \in {openD, With(openD, op, t)} /\ refused' = refused \cup {t}
      /\ failures' = failures + 1
      /\ UNCHANGED <<subs, kv, sending, reconciled, promised, unsaved, restarts>>
    BY DEF OpenDRaises, GoesWrong
<1>2. openD' \in SUBSET Tickers /\ \A u : u # t => (u \in openD' <=> u \in openD)
    BY <1>1, WithType DEF SubsInv, SubsTypeOK
<1>3. SubsTypeOK'
    BY <1>1, <1>2 DEF SubsInv, SubsTypeOK
<1>4. StoreFollows' /\ PutsFollow'
    BY <1>1 DEF SubsInv, StoreFollows, PutsFollow, Covered
<1>5. BrokerFollows'
    BY <1>1, <1>2 DEF SubsInv, BrokerFollows
<1> QED
    BY <1>3, <1>4, <1>5 DEF SubsInv

LEMMA TailOfSeq ==
    ASSUME NEW S, NEW q \in Seq(S), q # <<>>
    PROVE  /\ Head(q) = q[1] /\ Tail(q) \in Seq(S)
           /\ Len(q) \in Nat \ {0} /\ Len(Tail(q)) = Len(q) - 1
           /\ \A i \in 1..Len(q) - 1 : Tail(q)[i] = q[i + 1]
    OBVIOUS

LEMMA PutAppliedStep == SubsInv /\ PutApplied => SubsInv'
<1> SUFFICES ASSUME SubsInv, PutApplied PROVE SubsInv'
    OBVIOUS
<1> USE DEF SubsInv
<1> DEFINE Put == [op : {"add", "remove"}, ticker : Tickers, doc : SUBSET Tickers]
<1>0. PICK put : put = sending[1]
    OBVIOUS
<1>1. sending \in Seq(Put)
    BY DEF SubsTypeOK
<1> HIDE DEF Put
<1>2. /\ Head(sending) = put /\ Tail(sending) \in Seq(Put)
      /\ Len(sending) \in Nat \ {0} /\ Len(Tail(sending)) = Len(sending) - 1
      /\ \A i \in 1..Len(sending) - 1 : Tail(sending)[i] = sending[i + 1]
    BY <1>0, <1>1, TailOfSeq DEF PutApplied
<1>3. put \in Put /\ \A i \in 1..Len(sending) : sending[i] \in Put
    BY <1>0, <1>1, <1>2, SeqMember
<1>4. put.op \in {"add", "remove"} /\ put.ticker \in Tickers /\ put.doc \in SUBSET Tickers
    BY <1>3 DEF Put
<1>5. /\ kv' = put.doc /\ promised' = With(promised, put.op, put.ticker)
      /\ sending' = Tail(sending)
      /\ UNCHANGED <<subs, openD, reconciled, refused, unsaved, failures, restarts>>
    BY <1>2 DEF PutApplied
<1>6. /\ promised' \in SUBSET Tickers
      /\ \A u : u # put.ticker => (u \in promised' <=> u \in promised)
      /\ put.ticker \in promised' <=> put.op = "add"
  <2>1. promised \in SUBSET Tickers
      BY DEF SubsTypeOK
  <2> QED
      BY <1>4, <1>5, <2>1 DEF With
<1>7. SubsTypeOK'
    BY <1>2, <1>4, <1>5, <1>6 DEF SubsTypeOK, Put
<1>8. \A i \in Nat : \A u : Covered(u, i + 1) => Covered(u, i)'
  <2> SUFFICES ASSUME NEW i \in Nat, NEW u, NEW j \in 1..Len(sending), j > i + 1, sending[j].ticker = u
               PROVE  Covered(u, i)'
      BY <1>5 DEF Covered
  <2>1. j - 1 \in 1..Len(sending') /\ j - 1 > i /\ sending'[j - 1] = sending[j]
      BY <1>2, <1>5
  <2> QED
      BY <2>1 DEF Covered
<1>9. Covered(put.ticker, 0) /\ \A u : Covered(u, 0) => u = put.ticker \/ Covered(u, 0)'
  <2>1. \A u, j : j \in 1..Len(sending) /\ j > 0 /\ u # put.ticker /\ sending[j].ticker = u => j > 1
      BY <1>0, <1>2
  <2>2. \A u : Covered(u, 0) => u = put.ticker \/ Covered(u, 1)
      BY <1>2, <2>1 DEF Covered
  <2>3. Covered(put.ticker, 0)
      BY <1>0, <1>2 DEF Covered
  <2>4. \A u : Covered(u, 0 + 1) => Covered(u, 0)'
      BY <1>8
  <2> QED
      BY <2>2, <2>3, <2>4
<1>10. StoreFollows'
  <2>1. \A u \in Tickers : (u \in subs) # (u \in put.doc) => Covered(u, 1)
      BY <1>0, <1>2 DEF PutsFollow
  <2>6. \A u : Covered(u, 0 + 1) => Covered(u, 0)'
      BY <1>8
  <2>2. \A u \in Tickers : (u \in subs') # (u \in kv') => Covered(u, 0)'
      BY <1>5, <2>1, <2>6
  <2>3. \A u \in Tickers : u # put.ticker /\ (u \in subs) # (u \in promised) => Covered(u, 0)'
      BY <1>9 DEF StoreFollows
  <2>4. (put.ticker \in subs) # (put.op = "add") => Covered(put.ticker, 0)'
      BY <1>0, <1>2, <2>6 DEF PutsFollow
  <2> QED
      BY <1>5, <1>6, <2>2, <2>3, <2>4 DEF StoreFollows
<1>11. PutsFollow'
  <2> SUFFICES ASSUME NEW i \in 1..Len(sending) - 1, NEW next, next = sending[i + 1], next = sending'[i]
               PROVE  /\ \A u \in Tickers : (u \in subs') # (u \in next.doc) => Covered(u, i)'
                      /\ (next.ticker \in subs') # (next.op = "add") => Covered(next.ticker, i)'
    <3>1. \A i \in 1..Len(sending') : i \in 1..Len(sending) - 1 /\ sending'[i] = sending[i + 1]
        BY <1>2, <1>5
    <3>2. \A i \in 1..Len(sending') :
              /\ \A u \in Tickers : (u \in subs') # (u \in sending'[i].doc) => Covered(u, i)'
              /\ (sending'[i].ticker \in subs') # (sending'[i].op = "add") => Covered(sending[i].ticker, i)'
        BY <3>1 DEF Covered
    <3> QED
        BY <3>2 DEF PutsFollow
  <2>1. i \in Nat /\ i + 1 \in 1..Len(sending)
      BY <1>2
  <2>2. \A u : Covered(u, i + 1) => Covered(u, i)'
      BY <1>8, <2>1
  <2> QED
      BY <1>5, <2>1, <2>2 DEF PutsFollow
<1>12. BrokerFollows'
    BY <1>5 DEF BrokerFollows
<1> QED
    BY <1>7, <1>10, <1>11, <1>12

LEMMA RemoveAtIs ==
    ASSUME NEW S, NEW q \in Seq(S), NEW i \in 1..Len(q)
    PROVE  /\ RemoveAt(q, i) \in Seq(S) /\ Len(RemoveAt(q, i)) = Len(q) - 1
           /\ \A k \in 1..Len(q) - 1 : RemoveAt(q, i)[k] = IF k < i THEN q[k] ELSE q[k + 1]
<1> DEFINE l == SubSeq(q, 1, i - 1)
           r == SubSeq(q, i + 1, Len(q))
<1>1. l \in Seq(S) /\ Len(l) = i - 1 /\ \A k \in 1..i - 1 : l[k] = q[k]
    OBVIOUS
<1>2. r \in Seq(S) /\ Len(r) = Len(q) - i /\ \A k \in 1..Len(q) - i : r[k] = q[i + k]
  <2>1. Len(q) \in Nat /\ \A k \in 1..Len(q) : q[k] \in S
      OBVIOUS
  <2>2. r \in Seq(S)
      BY <2>1
  <2>3. Len(r) = Len(q) - i
      BY <2>1
  <2>4. \A k \in 1..Len(q) - i : r[k] = q[i + k]
      BY <2>1
  <2> QED
      BY <2>2, <2>3, <2>4
<1> HIDE DEF l, r
<1>3. l \o r \in Seq(S) /\ Len(l \o r) = Len(q) - 1
  <2>1. l \o r \in Seq(S) /\ Len(l \o r) = Len(l) + Len(r)
    <3>1. l \in Seq(S) /\ r \in Seq(S)
        BY <1>1, <1>2
    <3> QED
        BY ONLY <3>1
  <2>2. Len(l) + Len(r) = Len(q) - 1
      BY <1>1, <1>2
  <2> QED
      BY <2>1, <2>2
<1>4. ASSUME NEW k \in 1..Len(q) - 1 PROVE (l \o r)[k] = IF k < i THEN q[k] ELSE q[k + 1]
  <2>1. CASE k < i
      BY <1>1, <1>2, <2>1
  <2>2. CASE ~(k < i)
    <3>1. k - (i - 1) \in 1..Len(q) - i /\ i + (k - (i - 1)) = k + 1
        BY <2>2
    <3>2. (l \o r)[k] = r[k - (i - 1)]
        BY <1>1, <1>2, <2>2
    <3> QED
        BY <1>2, <2>2, <3>1, <3>2
  <2> QED
      BY <2>1, <2>2
<1> QED
    BY <1>3, <1>4 DEF RemoveAt, l, r

LEMMA PutFailsStep == SubsInv /\ PutFails => SubsInv'
<1> SUFFICES ASSUME SubsInv, PutFails PROVE SubsInv'
    OBVIOUS
<1> USE DEF SubsInv
<1> DEFINE Put == [op : {"add", "remove"}, ticker : Tickers, doc : SUBSET Tickers]
<1>1. sending \in Seq(Put)
    BY DEF SubsTypeOK
<1>2. PICK i \in 1..Len(sending) :
          /\ unsaved' = unsaved \cup {sending[i].ticker}
          /\ sending' = RemoveAt(sending, i)
  <2>1. DOMAIN sending = 1..Len(sending)
      BY <1>1
  <2> QED
      BY <2>1 DEF PutFails
<1>3. /\ failures' = failures + 1
      /\ UNCHANGED <<subs, kv, openD, reconciled, promised, refused, restarts>>
    BY DEF PutFails, GoesWrong
<1> HIDE DEF Put
<1>4. /\ sending' \in Seq(Put) /\ Len(sending) \in Nat /\ Len(sending') = Len(sending) - 1
      /\ \A k \in 1..Len(sending) - 1 : sending'[k] = IF k < i THEN sending[k] ELSE sending[k + 1]
    BY <1>1, <1>2, RemoveAtIs
<1>5. sending[i] \in Put
    BY <1>1, SeqMember
<1>6. sending[i].ticker \in Tickers
    BY <1>5 DEF Put
<1>7. SubsTypeOK'
    BY <1>2, <1>3, <1>4, <1>6 DEF SubsTypeOK, Put
<1>8. ASSUME NEW u, NEW k \in 0..Len(sending), NEW l \in 0..Len(sending) - 1,
             l = k \/ (l = k - 1 /\ k > i), l >= i => l = k - 1, Covered(u, k)
      PROVE  Covered(u, l)'
  <2>1. CASE u \in unsaved
      BY <1>2, <2>1 DEF Covered
  <2>2. ASSUME NEW j \in 1..Len(sending), j > k, sending[j].ticker = u PROVE Covered(u, l)'
    <3>1. CASE j = i
        BY <1>2, <2>2, <3>1 DEF Covered
    <3>2. CASE j < i
      <4>1. j \in 1..Len(sending') /\ sending'[j] = sending[j] /\ j > l
          BY <1>4, <1>8, <2>2, <3>2
      <4> QED
          BY <2>2, <4>1 DEF Covered
    <3>3. CASE j > i
      <4>1. j - 1 \in 1..Len(sending') /\ sending'[j - 1] = sending[j]
          BY <1>4, <2>2, <3>3
      <4>2. j - 1 > l
          BY <1>8, <2>2, <3>3
      <4> QED
          BY <2>2, <4>1, <4>2 DEF Covered
    <3> QED
        BY <3>1, <3>2, <3>3
  <2> QED
      BY <1>8, <2>1, <2>2 DEF Covered
<1>9. StoreFollows'
  <2>1. \A u : Covered(u, 0) => Covered(u, 0)'
      BY <1>2, <1>4, <1>8
  <2> QED
      BY <1>3, <2>1 DEF StoreFollows
<1>10. PutsFollow'
  <2>1. ASSUME NEW l \in 1..Len(sending) - 1, NEW put, put = sending'[l]
        PROVE  /\ \A u \in Tickers : (u \in subs') # (u \in put.doc) => Covered(u, l)'
               /\ (put.ticker \in subs') # (put.op = "add") => Covered(put.ticker, l)'
    <3>1. CASE l < i
      <4>1. put = sending[l]
          BY <1>4, <2>1, <3>1
      <4>2. \A u : Covered(u, l) => Covered(u, l)'
          BY <1>4, <1>8, <3>1
      <4> QED
          BY <1>3, <1>4, <4>1, <4>2 DEF PutsFollow
    <3>2. CASE ~(l < i)
      <4>1. put = sending[l + 1] /\ l + 1 \in 1..Len(sending)
          BY <1>4, <2>1, <3>2
      <4>2. \A u : Covered(u, l + 1) => Covered(u, l)'
          BY <1>4, <1>8, <3>2
      <4> QED
          BY <1>3, <1>4, <4>1, <4>2 DEF PutsFollow
    <3> QED
        BY <3>1, <3>2
  <2>2. \A l \in 1..Len(sending') :
          /\ \A u \in Tickers : (u \in subs') # (u \in sending'[l].doc) => Covered(u, l)'
          /\ (sending'[l].ticker \in subs') # (sending'[l].op = "add") => Covered(sending[l].ticker, l)'
      BY <1>4, <2>1 DEF Covered
  <2> QED
      BY <2>2 DEF PutsFollow
<1>11. BrokerFollows'
    BY <1>2, <1>3 DEF BrokerFollows
<1> QED
    BY <1>7, <1>9, <1>10, <1>11

LEMMA RestartsStep == SubsInv /\ Restarts => SubsInv'
<1> SUFFICES ASSUME SubsInv, Restarts PROVE SubsInv'
    OBVIOUS
<1> USE DEF SubsInv
<1> DEFINE n == Len(sending)
<1>1. /\ kv' \in {kv} \cup {put.doc : put \in ToSet(sending)}
      /\ subs' = kv' /\ sending' = <<>> /\ openD' \in {openD, {}} /\ reconciled' = FALSE
      /\ unsaved' = unsaved \cup {put.ticker : put \in ToSet(sending)}
      /\ UNCHANGED <<promised, refused, failures>> /\ restarts' = restarts + 1
    BY DEF Restarts
<1>2. /\ n \in Nat
      /\ \A i \in 1..n : sending[i] \in [op : {"add", "remove"}, ticker : Tickers, doc : SUBSET Tickers]
    BY PutType
<1>3. \A i \in 1..n : sending[i].ticker \in Tickers /\ sending[i].doc \in SUBSET Tickers
    BY <1>2
<1>4. ToSet(sending) = {sending[i] : i \in 1..n}
  <2>1. DOMAIN sending = 1..n
      BY DEF SubsTypeOK
  <2> QED
      BY <2>1 DEF ToSet
<1>5. /\ kv' = kv \/ \E i \in 1..n : kv' = sending[i].doc
      /\ \A i \in 1..n : sending[i].ticker \in unsaved'
      /\ \A t \in unsaved' : t \in unsaved \/ \E i \in 1..n : t = sending[i].ticker
    BY <1>1, <1>4
<1>6. \A t, i : Covered(t, i) => t \in unsaved'
    BY <1>1, <1>5 DEF Covered
<1>7. \A t \in Tickers : (t \in subs) # (t \in kv') => t \in unsaved'
    BY <1>5, <1>6 DEF StoreFollows, PutsFollow
<1>8. kv' \in SUBSET Tickers /\ unsaved' \in SUBSET Tickers
    BY <1>3, <1>5 DEF SubsTypeOK
<1>9. SubsTypeOK'
  <2>1. <<>> \in Seq([op : {"add", "remove"}, ticker : Tickers, doc : SUBSET Tickers])
      OBVIOUS
  <2>2. openD' \subseteq Tickers /\ promised' \subseteq Tickers /\ refused' \subseteq Tickers
      BY <1>1 DEF SubsTypeOK
  <2>4. failures \in Nat /\ restarts \in Nat
      BY DEF SubsTypeOK
  <2>5. failures' = failures /\ restarts' = restarts + 1 /\ reconciled' = FALSE
      BY <1>1
  <2>3. failures' \in Nat /\ restarts' \in Nat
      BY <2>4, <2>5
  <2>6. reconciled' \in BOOLEAN
      BY <2>5
  <2> QED
      BY <1>1, <1>8, <2>1, <2>2, <2>3, <2>6 DEF SubsTypeOK
<1>10. \A t : t \in unsaved' => Covered(t, 0)'
    BY DEF Covered
<1>11. StoreFollows'
    BY <1>1, <1>6, <1>7, <1>10 DEF StoreFollows
<1>12. PutsFollow'
    BY <1>1 DEF PutsFollow
<1>13. BrokerFollows'
    BY <1>1, <1>7 DEF BrokerFollows
<1> QED
    BY <1>9, <1>11, <1>12, <1>13

LEMMA ReconcilesStep == SubsInv /\ Reconciles => SubsInv'
<1> SUFFICES ASSUME SubsInv, Reconciles PROVE SubsInv'
    OBVIOUS
<1> USE DEF SubsInv
<1>1. UNCHANGED <<subs, kv, sending, promised, unsaved, restarts>> /\ reconciled' = TRUE
    BY DEF Reconciles
<1>2. StoreFollows' /\ PutsFollow'
    BY <1>1 DEF StoreFollows, PutsFollow, Covered
<1>3. CASE openD' = openD \cup subs /\ UNCHANGED <<refused, failures>>
    BY <1>1, <1>2, <1>3 DEF SubsTypeOK, BrokerFollows
<1>4. CASE failures' = failures + 1 /\ refused' = refused \cup subs /\ openD' = openD
    BY <1>1, <1>2, <1>4 DEF SubsTypeOK, BrokerFollows
<1> QED
    BY <1>3, <1>4 DEF Reconciles, GoesWrong, Resubscribed

\* The promise, the process, the store and OpenD agree on every ticker, but for what failed,
\* for any tickers, number of puts under way, failures and restarts.
THEOREM SubscriptionsKept == SubsSpec => []SubscriptionsAgree
<1>1. SubsInit => SubsInv
  <2> SUFFICES ASSUME SubsInit PROVE SubsInv
      OBVIOUS
  <2>1. SubsTypeOK
      BY DEF SubsInit, SubsTypeOK
  <2> QED
      BY <2>1 DEF SubsInit, SubsInv, StoreFollows, PutsFollow, BrokerFollows
<1>2. SubsInv /\ [SubsNext]_subsVars => SubsInv'
  <2>1. ASSUME SubsInv, UNCHANGED subsVars PROVE SubsInv'
      BY <2>1 DEF subsVars, SubsInv, SubsTypeOK, StoreFollows, PutsFollow, BrokerFollows, Covered
  <2> QED
      BY <2>1, NothingToDoStep, TellsOpenDStep, OpenDRaisesStep, PutAppliedStep, PutFailsStep,
         RestartsStep, ReconcilesStep DEF SubsNext
<1>3. SubsInv => SubscriptionsAgree
  <2> SUFFICES ASSUME SubsInv PROVE SubscriptionsAgree
      OBVIOUS
  <2>1. /\ Len(sending) \in Nat /\ DOMAIN sending = 1..Len(sending)
        /\ subs \subseteq Tickers /\ kv \subseteq Tickers
        /\ promised \subseteq Tickers /\ openD \subseteq Tickers
      BY DEF SubsInv, SubsTypeOK
  <2>2. Pending = {sending[i].ticker : i \in 1..Len(sending)}
      BY <2>1 DEF Pending, ToSet
  <2>3. \A t : Covered(t, 0) => t \in unsaved \cup Pending
      BY <2>2 DEF Covered
  <2>4. SavedAsPromised
      BY <2>1, <2>3 DEF SubsInv, StoreFollows, SavedAsPromised, Differing
  <2>5. OpenDFollows
      BY <2>1 DEF SubsInv, BrokerFollows, OpenDFollows, Differing
  <2> QED
      BY <2>4, <2>5 DEF SubscriptionsAgree
<1> QED
    BY <1>1, <1>2, <1>3, PTL DEF SubsSpec

-----------------------------------------------------------------------------
(* DecisionLog.                                                              *)

\* Types: the entries of a file, and what a process is writing.
LogEntry == [id : Advices, held : {"untold", "yes", "no"}]
LogTypeOK ==
    /\ log \in Seq(LogEntry)
    /\ appended \in [Advices -> Nat]
    /\ reflected \subseteq Advices
    /\ overwrote \in BOOLEAN
    /\ DOMAIN writing = LogProcesses

\* Places of the entries of an advice in a file, and the file in which one of them got
\* its reflection.
Places(q, a) == {i \in DOMAIN q : q[i].id = a}
Told(q, a) == \E i \in Places(q, a) : q[i].held # Unreflected
WithReflection(q, r, a) ==
    /\ r \in Seq(LogEntry) /\ Told(r, a)
    /\ \A b \in Advices : Places(r, b) = Places(q, b) /\ (Told(q, b) => Told(r, b))

\* What a process is about to write is what it has read with one entry more, or with a
\* reflection.
WritesWhatItRead ==
    \A p \in LogProcesses :
        \/ writing[p] = Nothing
        \/ /\ writing[p].op = "append"
           /\ writing[p].id \in Advices /\ writing[p].read \in Seq(LogEntry)
           /\ writing[p].text =
                 Append(writing[p].read, [id |-> writing[p].id, held |-> Unreflected])
        \/ /\ writing[p].op = "reflect"
           /\ writing[p].id \in Advices /\ writing[p].read \in Seq(LogEntry)
           /\ WithReflection(writing[p].read, writing[p].text, writing[p].id)

LogInv == LogTypeOK /\ WritesWhatItRead /\ LostNeedsOverlap

LEMMA PlacesCounted ==
    ASSUME NEW q \in Seq(LogEntry), NEW a
    PROVE  /\ IsFiniteSet(Places(q, a)) /\ Cardinality(Places(q, a)) \in Nat
           /\ Len(q) + 1 \notin Places(q, a)
<1>1. Len(q) \in Nat /\ DOMAIN q = 1..Len(q) /\ Places(q, a) \subseteq 1..Len(q)
    BY DEF Places
<1>2. IsFiniteSet(1..Len(q))
    BY <1>1, FS_Interval
<1> QED
    BY <1>1, <1>2, FS_Subset, FS_CardinalityType

\* One entry more.
LEMMA OneMore ==
    ASSUME NEW q \in Seq(LogEntry), NEW a \in Advices, NEW r,
           r = Append(q, [id |-> a, held |-> Unreflected])
    PROVE  /\ r \in Seq(LogEntry)
           /\ \A b \in Advices :
                /\ Cardinality(Places(r, b)) = Cardinality(Places(q, b)) + (IF b = a THEN 1 ELSE 0)
                /\ Told(q, b) => Told(r, b)
<1> DEFINE e == [id |-> a, held |-> Unreflected]
<1>1. e \in LogEntry /\ e.id = a
    BY DEF LogEntry, Unreflected
<1>2. /\ r \in Seq(LogEntry) /\ Len(r) = Len(q) + 1 /\ Len(q) \in Nat
      /\ DOMAIN q = 1..Len(q) /\ DOMAIN r = 1..(Len(q) + 1)
      /\ r[Len(q) + 1] = e /\ \A i \in 1..Len(q) : r[i] = q[i]
    BY <1>1
<1>3. ASSUME NEW b \in Advices
      PROVE  /\ Places(r, b) = IF b = a THEN Places(q, b) \cup {Len(q) + 1} ELSE Places(q, b)
             /\ Told(q, b) => Told(r, b)
    BY <1>1, <1>2 DEF Places, Told
<1>4. ASSUME NEW b \in Advices
      PROVE  Cardinality(Places(r, b)) = Cardinality(Places(q, b)) + (IF b = a THEN 1 ELSE 0)
  <2>1. /\ IsFiniteSet(Places(q, b)) /\ Cardinality(Places(q, b)) \in Nat
        /\ Len(q) + 1 \notin Places(q, b)
      BY PlacesCounted
  <2>2. Cardinality(Places(q, b) \cup {Len(q) + 1}) = Cardinality(Places(q, b)) + 1
      BY <2>1, FS_AddElement
  <2>3. CASE b = a
    <3>1. Places(r, b) = Places(q, b) \cup {Len(q) + 1}
        BY <1>3, <2>3
    <3>2. Cardinality(Places(r, b)) = Cardinality(Places(q, b)) + 1
        BY <2>2, <3>1, Zenon
    <3> QED
        BY <2>3, <3>2
  <2>4. CASE b # a
    <3>1. Places(r, b) = Places(q, b)
        BY <1>3, <2>4
    <3>2. Cardinality(Places(r, b)) = Cardinality(Places(q, b))
        BY <3>1, Zenon
    <3> QED
        BY <2>1, <2>4, <3>2
  <2> QED
      BY <2>3, <2>4
<1> QED
    BY <1>2, <1>3, <1>4

\* The first entry of an advice gets a reflection.
LEMMA OneReflected ==
    ASSUME NEW q \in Seq(LogEntry), NEW a \in Advices, Logged(q, a), NEW h \in {"yes", "no"}
    PROVE  WithReflection(q, Inject(q, a, h), a)
<1> DEFINE found == {i \in DOMAIN q : q[i].id = a}
           first == CHOOSE i \in found : \A j \in found : i <= j
           r == [q EXCEPT ![first].held = h]
<1>1. first \in found
  <2>1. found \subseteq Nat /\ found # {}
      BY DEF Logged
  <2> QED
      BY <2>1, SmallestOf
<1>2. Inject(q, a, h) = r
    BY DEF Inject
<1> HIDE DEF first, r
<1> USE DEF r
<1>3. /\ r \in Seq(LogEntry) /\ DOMAIN r = DOMAIN q
      /\ \A i \in DOMAIN q : r[i].id = q[i].id
      /\ \A i \in DOMAIN q : i # first => r[i] = q[i]
      /\ r[first].held = h
  <2>1. first \in DOMAIN q /\ q[first] \in LogEntry
      BY <1>1
  <2>2. [q[first] EXCEPT !.held = h] \in LogEntry /\ [q[first] EXCEPT !.held = h].held = h
        /\ [q[first] EXCEPT !.held = h].id = q[first].id
      BY <2>1 DEF LogEntry
  <2>3. r = [q EXCEPT ![first] = [q[first] EXCEPT !.held = h]]
      OBVIOUS
  <2> HIDE DEF r
  <2>4. r \in Seq(LogEntry) /\ DOMAIN r = DOMAIN q
      BY <2>1, <2>2, <2>3
  <2>5. \A i \in DOMAIN q : i # first => r[i] = q[i]
      BY <2>3
  <2>6. r[first] = [q[first] EXCEPT !.held = h]
      BY <2>1, <2>3
  <2> QED
      BY <2>1, <2>2, <2>4, <2>5, <2>6
<1> HIDE DEF r
<1>4. \A b \in Advices : Places(r, b) = Places(q, b) /\ (Told(q, b) => Told(r, b))
    BY <1>1, <1>3 DEF Places, Told, Unreflected
<1>5. Told(r, a)
    BY <1>1, <1>3 DEF Places, Told, Unreflected
<1> QED
    BY <1>2, <1>3, <1>4, <1>5 DEF WithReflection

LEMMA LogStep == LogInv /\ [LogNext]_logVars => LogInv'
<1> SUFFICES ASSUME LogInv, [LogNext]_logVars PROVE LogInv'
    OBVIOUS
<1> USE DEF LogInv
<1>e. \A a : Entries(a) = Places(log, a) /\ Entries(a)' = Places(log', a)
    BY DEF Entries, Places
<1>1. ASSUME NEW p \in LogProcesses, NEW a \in Advices, NEW op \in {"append", "reflect"}, NEW text,
             Reads(p, op, a, text),
             \/ op = "append" /\ text = Append(log, [id |-> a, held |-> Unreflected])
             \/ op = "reflect" /\ WithReflection(log, text, a)
      PROVE  LogInv'
  <2>1. LogTypeOK' /\ LostNeedsOverlap'
      BY <1>1 DEF Reads, LogTypeOK, LostNeedsOverlap, Entries
  <2>2. WritesWhatItRead'
    <3> SUFFICES ASSUME NEW s \in LogProcesses
                 PROVE  \/ writing'[s] = Nothing
                        \/ /\ writing'[s].op = "append"
                           /\ writing'[s].id \in Advices /\ writing'[s].read \in Seq(LogEntry)
                           /\ writing'[s].text =
                                 Append(writing'[s].read, [id |-> writing'[s].id, held |-> Unreflected])
                        \/ /\ writing'[s].op = "reflect"
                           /\ writing'[s].id \in Advices /\ writing'[s].read \in Seq(LogEntry)
                           /\ WithReflection(writing'[s].read, writing'[s].text, writing'[s].id)
        BY DEF WritesWhatItRead
    <3>1. CASE s = p
      <4>1. writing'[s] = [op |-> op, id |-> a, read |-> log, text |-> text]
          BY <1>1, <3>1 DEF Reads, LogTypeOK
      <4> QED
          BY <1>1, <4>1 DEF LogTypeOK
    <3>2. CASE s # p
      <4>1. writing'[s] = writing[s]
          BY <1>1, <3>2 DEF Reads, LogTypeOK
      <4> QED
          BY <4>1 DEF WritesWhatItRead
    <3> QED
        BY <3>1, <3>2
  <2> QED
      BY <2>1, <2>2
<1>2. ASSUME NEW p \in LogProcesses, NEW a \in Advices, AppendReads(p, a) PROVE LogInv'
    BY <1>1, <1>2 DEF AppendReads
<1>3. ASSUME NEW p \in LogProcesses, NEW a \in Advices, NEW o \in Outcomes, ReflectReads(p, a, o)
      PROVE  LogInv'
  <2> DEFINE h == IF ThesisHeld(o) THEN "yes" ELSE "no"
  <2>1. h \in {"yes", "no"}
      OBVIOUS
  <2>2. Logged(log, a) /\ Reads(p, "reflect", a, Inject(log, a, h))
      BY <1>3 DEF ReflectReads
  <2> HIDE DEF h
  <2>3. WithReflection(log, Inject(log, a, h), a)
      BY <2>1, <2>2, OneReflected DEF LogTypeOK
  <2> QED
      BY <1>1, <2>2, <2>3
<1>4. ASSUME NEW p \in LogProcesses, Replaces(p) PROVE LogInv'
  <2> DEFINE w == writing[p]
  <2>1. w # Nothing /\ log' = w.text /\ overwrote' = (overwrote \/ w.read # log)
        /\ writing' = [writing EXCEPT ![p] = Nothing]
      BY <1>4 DEF Replaces
  <2>2. \/ /\ w.op = "append" /\ w.id \in Advices /\ w.read \in Seq(LogEntry)
           /\ w.text = Append(w.read, [id |-> w.id, held |-> Unreflected])
        \/ /\ w.op = "reflect" /\ w.id \in Advices /\ w.read \in Seq(LogEntry)
           /\ WithReflection(w.read, w.text, w.id)
      BY <2>1 DEF WritesWhatItRead
  <2>3. WritesWhatItRead' /\ DOMAIN writing' = LogProcesses
    <3>1. DOMAIN writing' = LogProcesses
          /\ \A s \in LogProcesses : writing'[s] = IF s = p THEN Nothing ELSE writing[s]
        BY <2>1 DEF LogTypeOK
    <3> QED
        BY <3>1 DEF WritesWhatItRead
  <2>4. overwrote' \in BOOLEAN
      BY <2>1 DEF LogTypeOK
  <2>5. CASE w.op = "append"
    <3>1. appended' = [appended EXCEPT ![w.id] = @ + 1] /\ reflected' = reflected
        BY <1>4, <2>5 DEF Replaces
    <3>2. /\ log' \in Seq(LogEntry)
          /\ \A b \in Advices :
               /\ Cardinality(Places(log', b)) = Cardinality(Places(w.read, b)) + (IF b = w.id THEN 1 ELSE 0)
               /\ Told(w.read, b) => Told(log', b)
        BY <2>1, <2>2, <2>5, OneMore
    <3>3. LogTypeOK'
        BY <2>3, <2>4, <2>2, <3>1, <3>2 DEF LogTypeOK
    <3>4. LostNeedsOverlap'
      <4> SUFFICES ASSUME ~overwrote', NEW b \in Advices
                   PROVE  /\ Cardinality(Places(log', b)) = appended'[b]
                          /\ b \in reflected' => Told(log', b)
          BY <1>e DEF LostNeedsOverlap, Told
      <4>1. w.read = log /\ ~overwrote
          BY <2>1
      <4>2. Cardinality(Places(log, b)) = appended[b] /\ (b \in reflected => Told(log, b))
          BY <4>1, <1>e DEF LostNeedsOverlap, Told
      <4> HIDE DEF w
      <4>3. appended'[b] = appended[b] + (IF b = w.id THEN 1 ELSE 0)
          BY <3>1 DEF LogTypeOK
      <4> QED
          BY <3>1, <3>2, <4>1, <4>2, <4>3
    <3> QED
        BY <2>3, <3>3, <3>4
  <2>6. CASE w.op = "reflect"
    <3>1. reflected' = reflected \cup {w.id} /\ appended' = appended
        BY <1>4, <2>6 DEF Replaces
    <3>2. WithReflection(w.read, log', w.id)
        BY <2>1, <2>2, <2>6
    <3>3. LogTypeOK'
        BY <2>3, <2>4, <2>2, <3>1, <3>2 DEF LogTypeOK, WithReflection
    <3>4. LostNeedsOverlap'
      <4> SUFFICES ASSUME ~overwrote', NEW b \in Advices
                   PROVE  /\ Cardinality(Places(log', b)) = appended'[b]
                          /\ b \in reflected' => Told(log', b)
          BY <1>e DEF LostNeedsOverlap, Told
      <4>1. w.read = log /\ ~overwrote
          BY <2>1
      <4>2. Cardinality(Places(log, b)) = appended[b] /\ (b \in reflected => Told(log, b))
          BY <4>1, <1>e DEF LostNeedsOverlap, Told
      <4> HIDE DEF w
      <4> QED
          BY <3>1, <3>2, <4>1, <4>2 DEF WithReflection
    <3> QED
        BY <2>3, <3>3, <3>4
  <2> QED
      BY <2>2, <2>5, <2>6
<1>5. ASSUME NEW p \in LogProcesses, Killed(p) PROVE LogInv'
  <2>1. log' = log /\ UNCHANGED <<appended, reflected, overwrote>>
        /\ writing' = [writing EXCEPT ![p] = Nothing]
      BY <1>5 DEF Killed, AfterKill
  <2>2. LogTypeOK' /\ LostNeedsOverlap'
      BY <2>1 DEF LogTypeOK, LostNeedsOverlap, Entries
  <2>3. DOMAIN writing' = LogProcesses
        /\ \A s \in LogProcesses : writing'[s] = IF s = p THEN Nothing ELSE writing[s]
      BY <2>1 DEF LogTypeOK
  <2> QED
      BY <2>2, <2>3 DEF WritesWhatItRead
<1>6. CASE UNCHANGED logVars
    BY <1>6 DEF logVars, LogTypeOK, WritesWhatItRead, LostNeedsOverlap, Entries
<1> QED
    BY <1>2, <1>3, <1>4, <1>5, <1>6 DEF LogNext

(* decision_log.py: every entry that was appended is in the file, once for each *)
(* append, and an advice that was reflected on has its reflection, unless a     *)
(* process has replaced a file that another had changed since it read it        *)
(* (lines 81-84 and 100-105); whoever is killed, between which two steps.       *)
THEOREM LogKeepsEntries == LogSpec => []LostNeedsOverlap
<1>1. LogInit => LogInv
  <2> SUFFICES ASSUME LogInit PROVE LogInv
      OBVIOUS
  <2>1. log = <<>> /\ log \in Seq(LogEntry) /\ DOMAIN log = {}
      BY DEF LogInit
  <2>2. \A a : Entries(a) = {}
      BY <2>1 DEF Entries
  <2>3. Cardinality({}) = 0
      BY FS_EmptySet
  <2> QED
      BY <2>1, <2>2, <2>3 DEF LogInit, LogInv, LogTypeOK, WritesWhatItRead, LostNeedsOverlap
<1>2. LogInv => LostNeedsOverlap
    BY DEF LogInv
<1> QED
    BY <1>1, <1>2, LogStep, PTL DEF LogSpec

-----------------------------------------------------------------------------
(* PaperBook.                                                                *)

\* A state has all its parts.  What a tick has to do is whatever order gave it.
PaperTypeOK ==
    /\ DOMAIN book = Ids /\ DOMAIN ticker = Ticks /\ fills \in [Ids -> Nat]
    /\ died \in BOOLEAN
    /\ \A a \in Ids : book[a].state \in {"none", "open", "closed"}
    /\ \A t \in Ticks :
         ticker[t] = [at |-> ticker[t].at, asof |-> ticker[t].asof, px |-> ticker[t].px,
                      todo |-> ticker[t].todo]

Takes(t, a) == ticker[t].at = "closing" /\ Head(ticker[t].todo) = a

\* Who may publish a fill: the one tick that has closed the position, once in a life.
Lost == IF died THEN 1 ELSE 0
ClosersOwnFills ==
    \A a \in Ids :
        /\ fills[a] <= Lost + 1
        /\ book[a].state # "closed" => fills[a] <= Lost /\ ~Closing(a)
        /\ Closing(a) => fills[a] <= Lost
        /\ \A t, u \in Ticks : Takes(t, a) /\ Takes(u, a) => t = u

\* A flat advice opens nothing.
DirectionsOpen == \A a \in Ids : book[a].state = "open" => Terms[a].direction # "flat"

PaperInv == PaperTypeOK /\ ClosersOwnFills /\ DirectionsOpen /\ FillsMatchClosings

LEMMA Spread ==
    ASSUME NEW s \in Nat, NEW k \in Nat
    PROVE  /\ s * (10000 + 1 * k) = 10000 * s + s * k
           /\ s * (10000 + (-1) * k) = 10000 * s - s * k
    OBVIOUS

LEMMA TermsHold ==
    ASSUME NEW a \in Ids, Terms[a].direction # "flat"
    PROVE  /\ Terms[a].entryLo \in Nat /\ Terms[a].entryHi \in Nat
           /\ Terms[a].slippage \in Nat /\ Terms[a].stop \in Int
           /\ Terms[a].entryLo <= Terms[a].entryHi
           /\ Terms[a].direction \in {"long", "short"}
           /\ Terms[a].direction = "long" => Terms[a].stop < Terms[a].entryLo
           /\ Terms[a].direction = "short" => Terms[a].stop > Terms[a].entryHi
<1>1. /\ AdviceValid(Terms[a]) /\ Terms[a].direction \in Directions
      /\ Terms[a].entryLo \in Nat /\ Terms[a].entryHi \in Nat /\ Terms[a].stop \in Int
      /\ Terms[a].slippage \in Nat
    BY PaperAssumption DEF PaperAssumption
<1> QED
    BY <1>1 DEF AdviceValid, Directions

\* A stop costs one unit of risk: the entry is paid worse than the middle of its band,
\* the stop lies beyond the band.
LEMMA StopIsOneRisk ==
    ASSUME NEW a \in Ids, Terms[a].direction # "flat",
           NEW p, p.reason = "stop", p.exit = Terms[a].stop
    PROVE  Pnl(Terms[a], p.exit) = -RiskUnit(Terms[a]) /\ Significant(Terms[a], p)
<1> DEFINE lo == Terms[a].entryLo
           hi == Terms[a].entryHi
           sl == Terms[a].slippage
           st == Terms[a].stop
           fp == FillPrice(Terms[a])
           pnl == Pnl(Terms[a], st)
           risk == RiskUnit(Terms[a])
<1>1. /\ lo \in Nat /\ hi \in Nat /\ sl \in Nat /\ st \in Int /\ lo <= hi
      /\ Terms[a].direction \in {"long", "short"}
      /\ Terms[a].direction = "long" => st < lo
      /\ Terms[a].direction = "short" => st > hi
    BY TermsHold
<1>2. (lo + hi) * sl \in Nat
    BY <1>1
<1>3. risk \in Nat /\ pnl = -risk
  <2>1. CASE Terms[a].direction = "long"
    <3>1. fp = (lo + hi) * (10000 + 1 * sl)
        BY <2>1 DEF FillPrice
    <3>2. fp = 10000 * (lo + hi) + (lo + hi) * sl
      <4>1. lo + hi \in Nat /\ sl \in Nat
          BY <1>1
      <4> HIDE DEF lo, hi, sl, fp
      <4> QED
          BY <3>1, <4>1, Spread
    <3>3. fp \in Int /\ fp - 20000 * st > 0
      <4> DEFINE x == (lo + hi) * sl
      <4>1. x \in Nat /\ fp = 10000 * (lo + hi) + x
          BY <1>2, <3>2
      <4> HIDE DEF x
      <4> QED
          BY <1>1, <2>1, <4>1
    <3>4. risk = fp - 20000 * st
        BY <1>1, <3>3 DEF RiskUnit, Magnitude
    <3>5. pnl = 1 * (20000 * st - fp)
        BY <2>1 DEF Pnl
    <3> HIDE DEF fp, risk, pnl, st
    <3>6. 20000 * st \in Int
        BY <1>1 
    <3> QED
        BY <3>3, <3>4, <3>5, <3>6
  <2>2. CASE Terms[a].direction = "short"
    <3>1. fp = (lo + hi) * (10000 + (-1) * sl)
        BY <2>2 DEF FillPrice
    <3>2. fp = 10000 * (lo + hi) - (lo + hi) * sl
      <4>1. lo + hi \in Nat /\ sl \in Nat
          BY <1>1
      <4> HIDE DEF lo, hi, sl, fp
      <4> QED
          BY <3>1, <4>1, Spread
    <3>3. fp \in Int /\ 20000 * st - fp > 0
      <4> DEFINE x == (lo + hi) * sl
      <4>1. x \in Nat /\ fp = 10000 * (lo + hi) - x
          BY <1>2, <3>2
      <4> HIDE DEF x
      <4> QED
          BY <1>1, <2>2, <4>1
    <3>4. risk = 20000 * st - fp
        BY <1>1, <3>3 DEF RiskUnit, Magnitude
    <3>5. pnl = (-1) * (20000 * st - fp)
        BY <2>2 DEF Pnl
    <3> HIDE DEF fp, risk, pnl, st
    <3>6. 20000 * st \in Int
        BY <1>1
    <3> QED
        BY <3>3, <3>4, <3>5, <3>6
  <2> QED
      BY <1>1, <2>1, <2>2
<1>4. 5 * Magnitude(pnl) >= 4 * risk
  <2> HIDE DEF pnl, risk
  <2> QED
      BY <1>3 DEF Magnitude
<1> QED
    BY <1>3, <1>4 DEF Significant

LEMMA PaperStep == PaperInv /\ [PaperNext]_paperVars => PaperInv'
<1> SUFFICES ASSUME PaperInv, [PaperNext]_paperVars PROVE PaperInv'
    OBVIOUS
<1> USE DEF PaperInv
<1>c. \A a : Closing(a) <=> \E t \in Ticks : Takes(t, a)
    BY DEF Closing, Takes
<1>d. \A a : Closing(a)' <=> \E t \in Ticks : Takes(t, a)'
    BY DEF Closing, Takes
\* Ticks that go nowhere near a closing leave the rest as it is.
<1>1. ASSUME UNCHANGED <<book, fills, unpublished, died>>, DOMAIN ticker' = Ticks,
             \A t \in Ticks : ticker'[t] = [at |-> ticker'[t].at, asof |-> ticker'[t].asof,
                                            px |-> ticker'[t].px, todo |-> ticker'[t].todo],
             \A t \in Ticks : \A a : Takes(t, a)' <=> Takes(t, a)
      PROVE  PaperInv'
  <2>1. \A a : Closing(a)' <=> Closing(a)
      BY <1>1, <1>c, <1>d
  <2>2. PaperTypeOK' /\ DirectionsOpen'
      BY <1>1 DEF PaperTypeOK, DirectionsOpen
  <2>3. ClosersOwnFills'
      BY <1>1, <2>1 DEF ClosersOwnFills, Lost
  <2>4. FillsMatchClosings'
      BY <1>1, <2>1 DEF FillsMatchClosings
  <2> QED
      BY <2>2, <2>3, <2>4
<1>2. ASSUME NEW a \in Ids, OpenPosition(a) PROVE PaperInv'
  <2> DEFINE fresh == [NoPosition EXCEPT !.state = "open", !.opened = day]
  <2>0. fresh.state = "open" /\ fresh.reason = "none"
      BY DEF NoPosition
  <2> HIDE DEF fresh
  <2>1. /\ book[a].state = "none" /\ Terms[a].direction # "flat"
        /\ book' = [book EXCEPT ![a] = fresh]
        /\ UNCHANGED <<ticker, fills, unpublished, died>>
      BY <1>2 DEF OpenPosition, fresh
  <2>2. \A b : Closing(b)' <=> Closing(b)
      BY <2>1 DEF Closing
  <2>3. DOMAIN book' = Ids /\ book'[a].state = "open" /\ book'[a].reason = "none"
        /\ \A b \in Ids \ {a} : book'[b] = book[b]
      BY <2>0, <2>1 DEF PaperTypeOK
  <2>4. PaperTypeOK' /\ DirectionsOpen'
      BY <2>1, <2>3 DEF PaperTypeOK, DirectionsOpen
  <2>5. ClosersOwnFills'
      BY <2>1, <2>2, <2>3 DEF ClosersOwnFills, Lost, Takes
  <2>6. FillsMatchClosings'
      BY <2>1, <2>2, <2>3 DEF FillsMatchClosings
  <2> QED
      BY <2>4, <2>5, <2>6
<1>3. ASSUME NEW t \in Ticks, TickBegins(t) PROVE PaperInv'
  <2> DEFINE todo == SelectSeq(order, LAMBDA a : book[a].state = "open")
  <2>1. /\ ticker[t].at = "idle"
        /\ ticker' = [ticker EXCEPT ![t] = [at |-> "pricing", asof |-> day, px |-> 0, todo |-> todo]]
        /\ UNCHANGED <<book, fills, unpublished, died>>
      BY <1>3 DEF TickBegins
  <2> HIDE DEF todo
  <2> QED
      BY <1>1, <2>1 DEF PaperTypeOK, Takes
<1>4. ASSUME NEW t \in Ticks, TickPrices(t) PROVE PaperInv'
    BY <1>1, <1>4 DEF TickPrices, PaperTypeOK, Takes
<1>5. ASSUME NEW t \in Ticks, TickChecks(t) PROVE PaperInv'
  <2> PICK a, exit : /\ a = Head(ticker[t].todo)
                     /\ exit = CheckExit(book[a], Terms[a], ticker[t].px, ticker[t].asof)
      OBVIOUS
  <2>0. ticker[t].at = "checking" /\ UNCHANGED <<fills, unpublished, died>>
      BY <1>5 DEF TickChecks
  <2>1. CASE ticker[t].todo = <<>>
      BY <1>1, <1>5, <2>1 DEF TickChecks, PaperTypeOK, Takes
  <2>2. CASE ticker[t].todo # <<>> /\ exit.reason = "none"
      BY <1>1, <1>5, <2>2 DEF TickChecks, PaperTypeOK, Takes
  <2>3. CASE ticker[t].todo # <<>> /\ exit.reason # "none"
    <3>1. /\ ticker' = [ticker EXCEPT ![t].at = "closing"]
          /\ book' = [book EXCEPT ![a] =
               [state |-> "closed", opened |-> book[a].opened, closed |-> ticker[t].asof,
                reason |-> exit.reason, exit |-> exit.exit]]
        BY <1>5, <2>3 DEF TickChecks
    <3>2. book[a].state = "open" /\ (exit.reason = "stop" => exit.exit = Terms[a].stop)
        BY <2>3 DEF CheckExit, EdgePrice, Crossed
    <3>3. /\ DOMAIN ticker' = Ticks /\ Takes(t, a)'
          /\ ticker'[t] = [at |-> "closing", asof |-> ticker[t].asof, px |-> ticker[t].px,
                           todo |-> ticker[t].todo]
          /\ \A u \in Ticks \ {t} : ticker'[u] = ticker[u]
        BY <2>0, <3>1 DEF PaperTypeOK, Takes
    <3>4. \A u \in Ticks : \A b : Takes(u, b)' <=> Takes(u, b) \/ (u = t /\ b = a)
        BY <2>0, <3>3 DEF Takes
    <3>5. \A b : Closing(b)' <=> Closing(b) \/ b = a
        BY <1>c, <1>d, <3>4
    <3>6. /\ DOMAIN book' = Ids
          /\ \A b \in Ids : b # a => book'[b] = book[b]
          /\ a \in Ids => book'[a] = [state |-> "closed", opened |-> book[a].opened,
                            closed |-> ticker[t].asof, reason |-> exit.reason, exit |-> exit.exit]
        BY <3>1 DEF PaperTypeOK
    <3>7. PaperTypeOK' /\ DirectionsOpen'
        BY <2>0, <3>3, <3>6 DEF PaperTypeOK, DirectionsOpen
    <3>8. ClosersOwnFills'
      <4>1. ASSUME NEW b \in Ids, b # a
            PROVE  /\ fills'[b] <= Lost' + 1
                   /\ book'[b].state # "closed" => fills'[b] <= Lost' /\ ~Closing(b)'
                   /\ Closing(b)' => fills'[b] <= Lost'
                   /\ \A u, v \in Ticks : Takes(u, b)' /\ Takes(v, b)' => u = v
          BY <2>0, <3>4, <3>5, <3>6, <4>1 DEF ClosersOwnFills, Lost
      <4>2. ASSUME a \in Ids
            PROVE  /\ fills'[a] <= Lost' + 1
                   /\ book'[a].state = "closed"
                   /\ fills'[a] <= Lost'
                   /\ \A u, v \in Ticks : Takes(u, a)' /\ Takes(v, a)' => u = v
        <5>1. fills[a] <= Lost /\ ~Closing(a) /\ fills[a] <= Lost + 1
            BY <3>2, <4>2 DEF ClosersOwnFills
        <5>2. Lost' = Lost /\ fills'[a] = fills[a] /\ book'[a].state = "closed"
            BY <2>0, <3>6, <4>2 DEF Lost
        <5>3. \A u \in Ticks : Takes(u, a)' => u = t
            BY <3>4, <5>1, <1>c
        <5> QED
            BY <5>1, <5>2, <5>3
      <4>3. ASSUME NEW b \in Ids
            PROVE  /\ fills'[b] <= Lost' + 1
                   /\ book'[b].state # "closed" => fills'[b] <= Lost' /\ ~Closing(b)'
                   /\ Closing(b)' => fills'[b] <= Lost'
                   /\ \A u, v \in Ticks : Takes(u, b)' /\ Takes(v, b)' => u = v
        <5>1. CASE b = a
            BY <4>2, <4>3, <5>1
        <5>2. CASE b # a
            BY <4>1, <4>3, <5>2
        <5> QED
            BY <5>1, <5>2
      <4> QED
          BY <4>3 DEF ClosersOwnFills
    <3>9. FillsMatchClosings'
      <4>1. \A b \in Ids : fills'[b] <= (IF died' THEN 2 ELSE 1)
          BY <2>0 DEF FillsMatchClosings
      <4>2. \A b \in Ids : book'[b].state = "closed" /\ fills'[b] = 0 => Closing(b)' \/ b \in unpublished'
          BY <2>0, <3>5, <3>6 DEF FillsMatchClosings
      <4>3. ASSUME NEW b \in Ids, book'[b].reason = "stop"
            PROVE  Pnl(Terms[b], book'[b].exit) = -RiskUnit(Terms[b]) /\ Significant(Terms[b], book'[b])
        <5>1. CASE b = a
          <6>1. book'[b].exit = Terms[b].stop /\ Terms[b].direction # "flat"
              BY <3>2, <3>6, <4>3, <5>1 DEF DirectionsOpen
          <6> QED
              BY <4>3, <6>1, StopIsOneRisk
        <5>2. CASE b # a
            BY <3>6, <4>3, <5>2 DEF FillsMatchClosings
        <5> QED
            BY <5>1, <5>2
      <4> QED
          BY <4>1, <4>2, <4>3 DEF FillsMatchClosings
    <3> QED
        BY <3>7, <3>8, <3>9
  <2> QED
      BY <2>1, <2>2, <2>3
<1>6. ASSUME NEW t \in Ticks, FillPublished(t) PROVE PaperInv'
  <2> PICK a : a = Head(ticker[t].todo)
      OBVIOUS
  <2>1. /\ ticker[t].at = "closing" /\ Takes(t, a) /\ fills' = [fills EXCEPT ![a] = @ + 1]
        /\ ticker' = [ticker EXCEPT ![t].at = "checking", ![t].todo = Tail(@)]
        /\ UNCHANGED <<book, unpublished, died>>
      BY <1>6 DEF FillPublished, Takes
  <2>2. /\ DOMAIN ticker' = Ticks
        /\ ticker'[t] = [at |-> ticker'[t].at, asof |-> ticker'[t].asof,
                         px |-> ticker'[t].px, todo |-> ticker'[t].todo]
        /\ ticker'[t].at = "checking"
        /\ \A u \in Ticks \ {t} : ticker'[u] = ticker[u]
    <3>1. ticker' = [ticker EXCEPT ![t].at = "checking", ![t].todo = Tail(@)]
        BY <2>1
    <3>2. /\ DOMAIN ticker = Ticks
          /\ ticker[t] = [at |-> ticker[t].at, asof |-> ticker[t].asof, px |-> ticker[t].px,
                          todo |-> ticker[t].todo]
        BY DEF PaperTypeOK
    <3>3. ticker'[t] = [at |-> ticker'[t].at, asof |-> ticker'[t].asof,
                        px |-> ticker'[t].px, todo |-> ticker'[t].todo]
        BY <3>1, <3>2
    <3>4. /\ DOMAIN ticker' = Ticks /\ ticker'[t].at = "checking"
          /\ \A u \in Ticks \ {t} : ticker'[u] = ticker[u]
        BY <3>1, <3>2
    <3> QED
        BY <3>3, <3>4
  <2>3. \A u \in Ticks : \A b : Takes(u, b)' <=> Takes(u, b) /\ u # t
      BY <2>2 DEF Takes
  <2>4. Closing(a) /\ \A b : b # a => (Closing(b)' <=> Closing(b))
      <3>1. \A b : Takes(t, b) => b = a
          BY DEF Takes
      <3> QED
          BY <2>1, <2>3, <3>1, <1>c, <1>d
  <2>5. fills' \in [Ids -> Nat] /\ \A b \in Ids : fills'[b] = IF b = a THEN fills[b] + 1 ELSE fills[b]
    <3>1. CASE a \in Ids
        BY <2>1, <3>1 DEF PaperTypeOK
    <3>2. CASE a \notin Ids
      <4>1. fills' = fills
          BY <2>1, <3>2 DEF PaperTypeOK
      <4> QED
          BY <3>2, <4>1 DEF PaperTypeOK
    <3> QED
        BY <3>1, <3>2
  <2>6. PaperTypeOK' /\ DirectionsOpen'
      BY <2>1, <2>2, <2>5 DEF PaperTypeOK, DirectionsOpen
  <2>7. ASSUME NEW b \in Ids, b # a
        PROVE  /\ fills'[b] <= Lost' + 1
               /\ book'[b].state # "closed" => fills'[b] <= Lost' /\ ~Closing(b)'
               /\ Closing(b)' => fills'[b] <= Lost'
               /\ \A u, v \in Ticks : Takes(u, b)' /\ Takes(v, b)' => u = v
      BY <2>1, <2>3, <2>4, <2>5, <2>7 DEF ClosersOwnFills, Lost
  <2>8. ASSUME a \in Ids
        PROVE  /\ fills'[a] = fills[a] + 1 /\ fills[a] \in Nat /\ fills[a] <= Lost /\ Lost' = Lost
               /\ book'[a].state = "closed" /\ ~Closing(a)'
               /\ \A u, v \in Ticks : Takes(u, a)' /\ Takes(v, a)' => u = v
    <3>1. \A u \in Ticks : Takes(u, a) => u = t
        BY <2>1, <2>8 DEF ClosersOwnFills
    <3>2. fills[a] <= Lost /\ book[a].state = "closed"
        BY <2>4, <2>8 DEF ClosersOwnFills
    <3>3. fills'[a] = fills[a] + 1 /\ fills[a] \in Nat
        BY <2>5, <2>8 DEF PaperTypeOK
    <3>4. Lost' = Lost /\ book'[a].state = "closed"
        BY <2>1, <3>2 DEF Lost
    <3>5. \A u \in Ticks : ~Takes(u, a)'
        BY <2>3, <3>1
    <3>6. ~Closing(a)'
        BY <3>5, <1>d
    <3> QED
        BY <3>2, <3>3, <3>4, <3>5, <3>6
  <2>9. ClosersOwnFills'
    <3>1. ASSUME a \in Ids PROVE fills'[a] <= Lost' + 1
        BY <2>8, <3>1 DEF Lost
    <3>2. ASSUME NEW b \in Ids
          PROVE  /\ fills'[b] <= Lost' + 1
                 /\ book'[b].state # "closed" => fills'[b] <= Lost' /\ ~Closing(b)'
                 /\ Closing(b)' => fills'[b] <= Lost'
                 /\ \A u, v \in Ticks : Takes(u, b)' /\ Takes(v, b)' => u = v
      <4>1. CASE b = a
          BY <2>8, <3>1, <3>2, <4>1
      <4>2. CASE b # a
          BY <2>7, <3>2, <4>2
      <4> QED
          BY <4>1, <4>2
    <3> QED
        BY <3>2 DEF ClosersOwnFills
  <2>10. FillsMatchClosings'
    <3>1. \A b \in Ids : fills'[b] <= (IF died' THEN 2 ELSE 1)
        BY <2>9, <2>1 DEF ClosersOwnFills, Lost, PaperTypeOK
    <3>2. \A b \in Ids : book'[b].state = "closed" /\ fills'[b] = 0 => Closing(b)' \/ b \in unpublished'
      <4>1. ASSUME NEW b \in Ids, b = a PROVE fills'[b] # 0
          BY <2>8, <4>1
      <4> QED
          BY <2>1, <2>4, <2>5, <4>1 DEF FillsMatchClosings
    <3> QED
        BY <2>1, <3>1, <3>2 DEF FillsMatchClosings
  <2> QED
      BY <2>6, <2>9, <2>10
<1>7. ASSUME NEW t \in Ticks, OnCloseRaises(t) PROVE PaperInv'
  <2> PICK a : a = Head(ticker[t].todo)
      OBVIOUS
  <2>1. /\ ticker[t].at = "closing" /\ unpublished' = unpublished \cup {a}
        /\ ticker' = [ticker EXCEPT ![t].at = "raised"]
        /\ UNCHANGED <<book, fills, died>>
      BY <1>7 DEF OnCloseRaises
  <2>2. /\ DOMAIN ticker' = Ticks
        /\ ticker'[t] = [at |-> "raised", asof |-> ticker[t].asof, px |-> ticker[t].px,
                         todo |-> ticker[t].todo]
        /\ \A u \in Ticks \ {t} : ticker'[u] = ticker[u]
      BY <2>1 DEF PaperTypeOK
  <2>3. \A u \in Ticks : \A b : Takes(u, b)' <=> Takes(u, b) /\ u # t
      BY <2>2 DEF Takes
  <2>4. \A b : (Closing(b)' => Closing(b)) /\ (Closing(b) => Closing(b)' \/ b \in unpublished')
    <3>1. \A b : Takes(t, b) => b \in unpublished'
        BY <2>1 DEF Takes
    <3> QED
        BY <2>3, <3>1, <1>c, <1>d
  <2>5. PaperTypeOK' /\ DirectionsOpen'
      BY <2>1, <2>2 DEF PaperTypeOK, DirectionsOpen
  <2>6. ClosersOwnFills'
      BY <2>1, <2>3, <2>4 DEF ClosersOwnFills, Lost
  <2>7. FillsMatchClosings'
      BY <2>1, <2>4 DEF FillsMatchClosings
  <2> QED
      BY <2>5, <2>6, <2>7
<1>8. CASE DayPasses
  <2>1. UNCHANGED <<book, ticker, fills, unpublished, died>>
      BY <1>8 DEF DayPasses
  <2> QED
      BY <1>1, <2>1 DEF PaperTypeOK, Takes
<1>9. CASE BookLost
  <2>1. /\ ~died /\ died' = TRUE /\ book' = [a \in Ids |-> NoPosition]
        /\ ticker' = [t \in Ticks |-> IF ticker[t].at = "idle" THEN IdleTick
                                      ELSE [IdleTick EXCEPT !.at = "raised"]]
        /\ UNCHANGED <<fills, unpublished>>
      BY <1>9 DEF BookLost
  <2>2. /\ DOMAIN ticker' = Ticks
        /\ \A t \in Ticks : ticker'[t] \in {[at |-> x, asof |-> 0, px |-> 0, todo |-> <<>>] :
                                              x \in {"idle", "raised"}}
      BY <2>1 DEF IdleTick
  <2>3. \A a : ~Closing(a)'
      BY <2>2 DEF Closing
  <2>4. \A a \in Ids : book'[a].state = "none" /\ book'[a].reason = "none"
      BY <2>1 DEF NoPosition
  <2>5. PaperTypeOK'
    <3>1. \A t \in Ticks :
            ticker'[t] = [at |-> ticker'[t].at, asof |-> ticker'[t].asof, px |-> ticker'[t].px,
                          todo |-> ticker'[t].todo]
        BY <2>2
    <3> QED
        BY <2>1, <2>2, <2>4, <3>1 DEF PaperTypeOK
  <2>6. \A a \in Ids : fills'[a] \in Nat /\ fills'[a] <= 1 /\ Lost' = 1
      BY <2>1 DEF ClosersOwnFills, Lost, PaperTypeOK
  <2>7. ClosersOwnFills' /\ DirectionsOpen'
      BY <2>3, <2>4, <2>6, <1>d DEF ClosersOwnFills, DirectionsOpen
  <2>8. FillsMatchClosings'
      BY <2>1, <2>4, <2>6 DEF FillsMatchClosings
  <2> QED
      BY <2>5, <2>7, <2>8
<1>10. CASE UNCHANGED paperVars
  <2>1. UNCHANGED <<book, ticker, fills, unpublished, died>>
      BY <1>10 DEF paperVars
  <2> QED
      BY <1>1, <2>1 DEF PaperTypeOK, Takes
<1> QED
    BY <1>2, <1>3, <1>4, <1>5, <1>6, <1>7, <1>8, <1>9, <1>10 DEF PaperNext

(* agent_backtest: the fill of a closed position is published once in the life   *)
(* of the book; one is missing only where on_close is under way or has raised   *)
(* (scheduler.py:27, :39-47); and a stop costs one unit of risk, wherever the  *)
(* mark stands (exits.py:24, :43).  For any advices, prices and overlapping      *)
(* ticks.                                                                        *)
THEOREM FillsAreRight == PaperSpec => []FillsMatchClosings
<1>1. PaperInit => PaperInv
  <2> SUFFICES ASSUME PaperInit PROVE PaperInv
      OBVIOUS
  <2>1. /\ DOMAIN book = Ids /\ DOMAIN ticker = Ticks /\ died = FALSE
        /\ \A a \in Ids : book[a].state = "none" /\ book[a].reason = "none" /\ fills[a] = 0
        /\ \A t \in Ticks : ticker[t] = [at |-> "idle", asof |-> 0, px |-> 0, todo |-> <<>>]
      BY DEF PaperInit, NoPosition, IdleTick
  <2>2. \A t \in Ticks : ticker[t].at = "idle"
      BY <2>1
  <2>3. \A a : ~Closing(a)
      BY <2>2 DEF Closing
  <2>4. PaperTypeOK
    <3>1. fills \in [Ids -> Nat]
        BY DEF PaperInit
    <3>2. \A t \in Ticks :
            ticker[t] = [at |-> ticker[t].at, asof |-> ticker[t].asof, px |-> ticker[t].px,
                         todo |-> ticker[t].todo]
        BY <2>1
    <3> QED
        BY <2>1, <3>1, <3>2 DEF PaperTypeOK
  <2>5. Lost = 0
      BY <2>1 DEF Lost
  <2>6. ClosersOwnFills
      BY <2>1, <2>2, <2>3, <2>5 DEF ClosersOwnFills, Takes
  <2>7. DirectionsOpen /\ FillsMatchClosings
      BY <2>1 DEF DirectionsOpen, FillsMatchClosings
  <2> QED
      BY <2>4, <2>6, <2>7 DEF PaperInv
<1>2. PaperInv => FillsMatchClosings
    BY DEF PaperInv
<1> QED
    BY <1>1, <1>2, PaperStep, PTL DEF PaperSpec

-----------------------------------------------------------------------------
(* LakeQuotes.                                                              *)

\* Types, and the time of what is on its way to the lake or in it: a price is no younger
\* than its stamp, and not older than the source may be behind.
Stamped(row) ==
    /\ row.ts \in 1..tick /\ row.of \in 0..row.ts
    /\ row.of > 0 => row.of >= row.ts - MaxLag /\ row.of <= sourced
    /\ row = [ts |-> row.ts, of |-> row.of]
QuotesTypeOK ==
    /\ tick \in Nat \ {0} /\ sourced \in 1..tick /\ tick - sourced <= MaxLag
    /\ current \in Nat
    /\ DOMAIN pulling = QuoteWriters /\ DOMAIN query = Queries
    /\ \A row \in rows : Stamped(row)
    /\ \A w \in QuoteWriters : pulling[w] = NoTick \/ Stamped(pulling[w])

\* The rows that are there or on their way, and that a later stamp is of no earlier price.
Pulled == {pulling[w] : w \in {v \in QuoteWriters : pulling[v] # NoTick}}
SourceIsMonotone ==
    /\ \A a, b \in rows \cup Pulled : a.ts < b.ts /\ b.of > 0 => a.of <= b.of
    /\ \A a, b \in rows : a.ts = b.ts => a = b

\* The snapshots are taken one after the other, and one that the lake has answered was
\* answered with a row that was recent, and is still there.
AnswersHaveRows ==
    \A q \in Queries :
        /\ q < current <=> query[q].at = "done"
        /\ query[q].at = "live" => q = current
        /\ query[q].at = "done" =>
              /\ query[q].answered \in 1..tick
              /\ query[q].from = "nowhere" => query[q].of = 0
              /\ query[q].from = "live" => query[q].of = query[q].answered
              /\ query[q].from = "lake" => \E row \in rows :
                    /\ row.of = query[q].of /\ row.ts <= query[q].answered
                    /\ row.ts >= query[q].answered - MaxAge
              /\ query[q].from \in {"lake", "live", "nowhere"}

QuotesInv == QuotesTypeOK /\ SourceIsMonotone /\ AnswersHaveRows /\ AnswersFollowTime

LEMMA NewestOf ==
    ASSUME NEW S, S # {}, NEW m \in Nat, \A row \in S : row.ts \in 1..m
    PROVE  \E row \in S : \A other \in S : other.ts <= row.ts
<1> DEFINE T == {m - row.ts : row \in S}
<1>1. T \subseteq Nat /\ T # {}
    OBVIOUS
<1>2. PICK x \in T : \A y \in T : x <= y
    BY <1>1, SmallestOf
<1>3. PICK row \in S : x = m - row.ts
    BY <1>2
<1>4. ASSUME NEW other \in S PROVE other.ts <= row.ts
  <2>1. m - other.ts \in T
      OBVIOUS
  <2>2. x <= m - other.ts
      BY <1>2, <2>1
  <2> HIDE DEF T
  <2> QED
      BY <1>3, <2>2
<1> QED
    BY <1>4

\* Known prices that are known already, or the one of now, keep the order of the source.
LEMMA PricesStep ==
    ASSUME QuotesTypeOK, SourceIsMonotone, NEW w \in QuoteWriters, Fetches(w)
    PROVE  SourceIsMonotone' /\ (\A v \in QuoteWriters : pulling'[v] = NoTick \/ Stamped(pulling[v])')
           /\ DOMAIN pulling' = QuoteWriters
<1>1. PICK of \in {0, sourced} : pulling' = [pulling EXCEPT ![w] = [ts |-> tick, of |-> of]]
    BY DEF Fetches
<1>2. UNCHANGED <<tick, sourced, rows, query, current>>
    BY DEF Fetches
<1> DEFINE new == [ts |-> tick, of |-> of]
<1>3. Stamped(new) /\ new.ts = tick /\ new.of \in {0, sourced}
    BY QuotesAssumption DEF Stamped, QuotesTypeOK, QuotesAssumption
<1> HIDE DEF new
<1>4. DOMAIN pulling' = QuoteWriters /\ pulling'[w] = new
      /\ \A v \in QuoteWriters \ {w} : pulling'[v] = pulling[v]
    BY <1>1 DEF QuotesTypeOK, new
<1>5. \A v \in QuoteWriters : pulling'[v] = NoTick \/ Stamped(pulling'[v])
    BY <1>3, <1>4 DEF QuotesTypeOK
<1>6. \A a \in rows' \cup Pulled' : a = new \/ a \in rows \cup Pulled
    BY <1>2, <1>4 DEF Pulled
<1>7. \A a \in rows \cup Pulled : Stamped(a)
    BY DEF QuotesTypeOK, Pulled
<1>8. ASSUME NEW a \in rows' \cup Pulled', NEW b \in rows' \cup Pulled', a.ts < b.ts, b.of > 0
      PROVE  a.of <= b.of
  <2>1. CASE a \in rows \cup Pulled /\ b \in rows \cup Pulled
      BY <1>8, <2>1 DEF SourceIsMonotone
  <2>2. CASE b = new /\ a \in rows \cup Pulled
    <3>1. a.of \in Nat /\ (a.of > 0 => a.of <= sourced) /\ sourced \in Nat
        BY <1>7, <2>2 DEF Stamped, QuotesTypeOK
    <3> QED
        BY <1>3, <1>8, <2>2, <3>1
  <2>3. CASE a = new
    <3>1. b.ts <= tick /\ b.ts \in Int /\ tick \in Int
        BY <1>3, <1>6, <1>7 DEF Stamped, QuotesTypeOK
    <3> QED
        BY <1>3, <1>8, <2>3, <3>1
  <2> QED
      BY <1>6, <2>1, <2>2, <2>3
<1>9. \A a, b \in rows' : a.ts = b.ts => a = b
    BY <1>2 DEF SourceIsMonotone
<1>10. \A v \in QuoteWriters : pulling'[v] = NoTick \/ Stamped(pulling[v])'
    BY <1>2, <1>5 DEF Stamped
<1> QED
    BY <1>4, <1>8, <1>9, <1>10 DEF SourceIsMonotone

LEMMA InsertsStep ==
    ASSUME QuotesTypeOK, SourceIsMonotone, NEW w \in QuoteWriters, Inserts(w)
    PROVE  SourceIsMonotone' /\ QuotesTypeOK' /\ rows \subseteq rows'
<1>1. pulling[w] # NoTick /\ Stamped(pulling[w])
    BY DEF Inserts, QuotesTypeOK
<1>2. /\ UNCHANGED <<tick, sourced, query, current>>
      /\ \/ rows' = rows
         \/ rows' = rows \cup {pulling[w]} /\ \A row \in rows : row.ts # pulling[w].ts
      /\ pulling' = [pulling EXCEPT ![w] = NoTick]
    BY DEF Inserts, RowOf
<1>3. DOMAIN pulling' = QuoteWriters /\ pulling'[w] = NoTick
      /\ \A v \in QuoteWriters \ {w} : pulling'[v] = pulling[v]
    BY <1>2 DEF QuotesTypeOK
<1>4. pulling[w] \in Pulled /\ rows' \cup Pulled' \subseteq rows \cup Pulled
    BY <1>1, <1>2, <1>3 DEF Pulled
<1>5. \A a, b \in rows' : a.ts = b.ts => a = b
    BY <1>2 DEF SourceIsMonotone
<1>6. SourceIsMonotone'
    BY <1>4, <1>5 DEF SourceIsMonotone
<1>7. QuotesTypeOK'
  <2>1. \A row \in rows' : Stamped(row)
      BY <1>1, <1>2 DEF QuotesTypeOK
  <2>2. \A v \in QuoteWriters : pulling'[v] = NoTick \/ Stamped(pulling'[v])
      BY <1>3 DEF QuotesTypeOK
  <2> QED
      BY <1>2, <1>3, <2>1, <2>2 DEF QuotesTypeOK, Stamped
<1> QED
    BY <1>2, <1>6, <1>7

\* What a reader is told now, after what the readers before it were told.
LEMMA ToldStep ==
    ASSUME QuotesInv, NEW q \in Queries, q = current, UNCHANGED <<tick, sourced, rows, pulling>>,
           NEW from, NEW of, Tell(q, from, of),
           \/ from = "lake" /\ \E row \in Recent :
                 row.of = of /\ \A other \in Recent : other.ts <= row.ts
           \/ from = "live" /\ of = tick
           \/ from = "nowhere" /\ of = 0
    PROVE  QuotesInv'
<1> USE DEF QuotesInv
<1> DEFINE answer == [at |-> "done", answered |-> tick, from |-> from, of |-> of]
<1>1. /\ DOMAIN query' = Queries /\ query'[q] = answer /\ current' = current + 1
      /\ \A p \in Queries \ {q} : query'[p] = query[p]
    BY DEF Tell, QuotesTypeOK
<1>2. answer.at = "done" /\ answer.answered = tick /\ answer.from = from /\ answer.of = of
    OBVIOUS
<1> HIDE DEF answer
<1>t. /\ tick \in Nat \ {0} /\ sourced \in 1..tick /\ tick - sourced <= MaxLag /\ current \in Nat
      /\ MaxLag \in Nat /\ MaxAge \in Nat /\ Queries \subseteq Nat
    BY QuotesAssumption DEF QuotesTypeOK, QuotesAssumption
<1>3. QuotesTypeOK' /\ SourceIsMonotone'
    BY <1>1, <1>t DEF QuotesTypeOK, SourceIsMonotone, Stamped, Pulled
<1>4. from = "lake" => \E row \in rows : row.of = of /\ row.ts <= tick /\ row.ts >= tick - MaxAge
    BY DEF Recent, QuotesTypeOK, Stamped
<1>5. AnswersHaveRows'
  <2>1. ASSUME NEW p \in Queries, p # q
        PROVE  p < current + 1 <=> p < current
      BY <1>t, <2>1
  <2>2. q < current + 1
      BY <1>t
  <2> QED
      BY <1>1, <1>2, <1>4, <1>t, <2>1, <2>2 DEF AnswersHaveRows
<1>6. /\ answer.of > 0 => answer.of >= answer.answered - MaxAge - MaxLag
      /\ answer.of = 0 => answer.from \in {"lake", "nowhere"}
  <2>1. CASE from = "lake"
    <3>1. PICK row \in rows : row.of = of /\ row.ts <= tick /\ row.ts >= tick - MaxAge
        BY <1>4, <2>1
    <3>2. row.ts \in Int /\ row.of \in Int /\ (row.of > 0 => row.of >= row.ts - MaxLag)
        BY DEF QuotesTypeOK, Stamped
    <3> QED
        BY <1>2, <1>t, <2>1, <3>1, <3>2
  <2>2. CASE from # "lake"
      BY <1>2, <1>t, <2>2
  <2> QED
      BY <2>1, <2>2
<1>7. ASSUME NEW p \in Queries, p < q, query[p].at = "done", query[p].of > 0, of > 0, of < query[p].of
      PROVE  query[p].from = "live" /\ from = "lake"
  <2>1. query[p].answered \in 1..tick /\ query[p].from \in {"lake", "live", "nowhere"}
        /\ (query[p].from = "live" => query[p].of = query[p].answered)
        /\ (query[p].from = "nowhere" => query[p].of = 0)
      BY <1>7 DEF AnswersHaveRows
  <2>2. CASE query[p].from = "lake"
    <3>1. PICK old \in rows : old.of = query[p].of /\ old.ts <= query[p].answered
                              /\ old.ts >= query[p].answered - MaxAge
        BY <1>7, <2>2 DEF AnswersHaveRows
    <3>2. /\ old.ts \in 1..tick /\ old.of \in 0..old.ts
        BY DEF QuotesTypeOK, Stamped
    <3>3. CASE from = "lake"
      <4>1. PICK row \in Recent : row.of = of /\ \A other \in Recent : other.ts <= row.ts
          BY <3>3
      <4>2. row \in rows /\ row.ts >= tick - MaxAge /\ row.ts \in 1..tick
          BY DEF Recent, QuotesTypeOK, Stamped
      <4>3. old.ts < row.ts => old.of <= row.of
          BY <1>7, <4>1, <4>2 DEF SourceIsMonotone
      <4>4. old.ts = row.ts => old = row
          BY <4>2 DEF SourceIsMonotone
      <4>5. old.ts <= row.ts
        <5>1. CASE old \in Recent
            BY <4>1, <5>1
        <5>2. CASE old \notin Recent
          <6>1. ~(old.ts >= tick - MaxAge)
              BY <5>2 DEF Recent
          <6> QED
              BY <1>t, <3>2, <4>2, <6>1
        <5> QED
            BY <5>1, <5>2
      <4>6. old.of <= row.of
        <5>1. old.ts \in Int /\ row.ts \in Int /\ old.of \in Int
            BY <3>2, <4>2
        <5>2. CASE old.ts < row.ts
            BY <4>3, <5>2
        <5>3. CASE old.ts = row.ts
            BY <4>4, <5>1, <5>3
        <5> QED
            BY <4>5, <5>1, <5>2, <5>3
      <4>7. old.of \in Int /\ row.of \in Int
          BY <3>2, <4>2 DEF QuotesTypeOK, Stamped
      <4> QED
          BY <1>7, <3>1, <4>1, <4>6, <4>7
    <3>4. CASE from # "lake"
      <4>1. of = tick
          BY <1>7, <3>4, <1>t
      <4> QED
          BY <1>7, <1>t, <3>1, <3>2, <4>1
    <3> QED
        BY <3>3, <3>4
  <2>3. CASE query[p].from # "lake"
      BY <1>7, <1>t, <2>1, <2>3
  <2> QED
      BY <2>2, <2>3
<1>8. \A p \in Queries : query[p].at = "done" => p < q
    BY DEF AnswersHaveRows
<1>9. AnswersFollowTime'
  <2>1. ASSUME NEW p \in Queries, query'[p].at = "done"
        PROVE  /\ query'[p].of > 0 => query'[p].of >= query'[p].answered - MaxAge - MaxLag
               /\ query'[p].of = 0 => query'[p].from \in {"lake", "nowhere"}
    <3>1. CASE p = q
        BY <1>1, <1>6, <3>1
    <3>2. CASE p # q
        BY <1>1, <2>1, <3>2 DEF AnswersFollowTime
    <3> QED
        BY <3>1, <3>2
  <2>2. ASSUME NEW p \in Queries, NEW r \in Queries, query'[p].at = "done", query'[r].at = "done",
               query'[p].of > 0, query'[r].of > 0, p < r, query'[r].of < query'[p].of
        PROVE  query'[p].from = "live" /\ query'[r].from = "lake"
    <3>1. CASE r = q
      <4>1. p # q
          BY <1>t, <2>2, <3>1
      <4> QED
          BY <1>1, <1>2, <1>7, <2>2, <3>1, <4>1
    <3>2. CASE r # q /\ p = q
      <4>1. r < q
          BY <1>1, <1>8, <2>2, <3>2
      <4> QED
          BY <1>t, <2>2, <3>2, <4>1
    <3>3. CASE r # q /\ p # q
        BY <1>1, <2>2, <3>3 DEF AnswersFollowTime, WithPrice
    <3> QED
        BY <3>1, <3>2, <3>3
  <2> QED
      BY <2>1, <2>2 DEF AnswersFollowTime, WithPrice
<1> QED
    BY <1>3, <1>5, <1>9

LEMMA QuotesStep == QuotesInv /\ [QuotesNext]_quotesVars => QuotesInv'
<1> SUFFICES ASSUME QuotesInv, [QuotesNext]_quotesVars PROVE QuotesInv'
    OBVIOUS
<1> USE DEF QuotesInv
<1>t. /\ tick \in Nat \ {0} /\ sourced \in 1..tick /\ current \in Nat /\ MaxAge \in Nat
    BY QuotesAssumption DEF QuotesTypeOK, QuotesAssumption
\* What the readers were told stands, however many rows come, and whatever the clock says.
<1>0. ASSUME UNCHANGED <<query, current>>, rows \subseteq rows', tick' \in Nat, tick <= tick'
      PROVE  AnswersHaveRows' /\ AnswersFollowTime'
  <2>1. ASSUME NEW n \in 1..tick PROVE n \in 1..tick'
      BY <1>0, <1>t
  <2> QED
      BY <1>0, <2>1 DEF AnswersHaveRows, AnswersFollowTime, WithPrice
<1>1. ASSUME NEW w \in QuoteWriters, Fetches(w) PROVE QuotesInv'
  <2>1. UNCHANGED <<tick, sourced, rows, query, current>>
      BY <1>1 DEF Fetches
  <2>2. SourceIsMonotone' /\ DOMAIN pulling' = QuoteWriters
        /\ (\A v \in QuoteWriters : pulling'[v] = NoTick \/ Stamped(pulling[v])')
      BY <1>1, PricesStep
  <2>3. QuotesTypeOK'
      BY <2>1, <2>2 DEF QuotesTypeOK, Stamped
  <2> QED
      BY <1>0, <1>t, <2>1, <2>2, <2>3
<1>2. ASSUME NEW w \in QuoteWriters, Inserts(w) PROVE QuotesInv'
  <2>1. SourceIsMonotone' /\ QuotesTypeOK' /\ rows \subseteq rows'
      BY <1>2, InsertsStep
  <2>2. UNCHANGED <<tick, query, current>>
      BY <1>2 DEF Inserts
  <2> QED
      BY <1>0, <1>t, <2>1, <2>2
<1>3. ASSUME NEW q \in Queries, HitLake(q) PROVE QuotesInv'
  <2> DEFINE newest == CHOOSE row \in Recent : \A other \in Recent : other.ts <= row.ts
  <2>1. q = current /\ Recent # {} /\ Tell(q, "lake", newest.of)
        /\ UNCHANGED <<tick, sourced, rows, pulling>>
      BY <1>3 DEF HitLake
  <2>2. \A row \in Recent : row.ts \in 1..tick
      BY DEF Recent, QuotesTypeOK, Stamped
  <2>3. \E row \in Recent : \A other \in Recent : other.ts <= row.ts
      BY <1>t, <2>1, <2>2, NewestOf
  <2>4. newest \in Recent /\ \A other \in Recent : other.ts <= newest.ts
      BY <2>3
  <2> HIDE DEF newest
  <2> QED
      BY <2>1, <2>4, ToldStep
<1>4. ASSUME NEW q \in Queries, MissLake(q) PROVE QuotesInv'
  <2>1. /\ q = current /\ query[q].at = "lake" /\ query' = [query EXCEPT ![q].at = "live"]
        /\ UNCHANGED <<tick, sourced, rows, pulling, current>>
      BY <1>4 DEF MissLake
  <2>2. /\ DOMAIN query' = Queries /\ query'[q].at = "live"
        /\ \A p \in Queries \ {q} : query'[p] = query[p]
      BY <2>1 DEF QuotesTypeOK
  <2>3. QuotesTypeOK' /\ SourceIsMonotone'
      BY <2>1, <2>2 DEF QuotesTypeOK, SourceIsMonotone, Stamped, Pulled
  <2>4. AnswersHaveRows'
      BY <2>1, <2>2 DEF AnswersHaveRows
  <2>5. AnswersFollowTime'
    <3>1. \A p \in Queries : query'[p].at = "done" => query'[p] = query[p]
        BY <2>2
    <3> QED
        BY <3>1 DEF AnswersFollowTime, WithPrice
  <2> QED
      BY <2>3, <2>4, <2>5
<1>5. ASSUME NEW q \in Queries, AskLive(q) PROVE QuotesInv'
  <2>1. q = current
      BY <1>5 DEF AskLive, AnswersHaveRows
  <2>2. UNCHANGED <<tick, sourced, rows, pulling>> /\ (Tell(q, "live", tick) \/ Tell(q, "nowhere", 0))
      BY <1>5 DEF AskLive
  <2>3. CASE Tell(q, "live", tick)
      BY <2>1, <2>2, <2>3, ToldStep
  <2>4. CASE Tell(q, "nowhere", 0)
      BY <2>1, <2>2, <2>4, ToldStep
  <2> QED
      BY <2>2, <2>3, <2>4
<1>6. CASE QuoteTimePasses
  <2>1. PICK newer \in sourced .. tick + 1 : tick + 1 - newer <= MaxLag /\ sourced' = newer
      BY <1>6 DEF QuoteTimePasses
  <2>2. tick' = tick + 1 /\ UNCHANGED <<rows, pulling, query, current>>
      BY <1>6 DEF QuoteTimePasses
  <2>3. \A row : Stamped(row) => Stamped(row)'
      BY <1>t, <2>1, <2>2 DEF Stamped
  <2>4. QuotesTypeOK'
      BY <1>t, <2>1, <2>2, <2>3 DEF QuotesTypeOK
  <2>5. SourceIsMonotone'
      BY <2>2 DEF SourceIsMonotone, Pulled
  <2> QED
      BY <1>0, <1>t, <2>2, <2>4, <2>5
<1>7. CASE UNCHANGED quotesVars
    BY <1>7 DEF quotesVars, QuotesTypeOK, SourceIsMonotone, AnswersHaveRows, AnswersFollowTime,
                WithPrice, Stamped, Pulled
<1> QED
    BY <1>1, <1>2, <1>3, <1>4, <1>5, <1>6, <1>7 DEF QuotesNext

(* quotes_facade.py and the writers of lake.quotes: an answer is of a time at   *)
(* most MaxAge and the lag of the source before it, however late its row was   *)
(* inserted, and answers never go back in time but where a live one overtook a  *)
(* row on its way.  For any writers, any lag and any number of questions.       *)
THEOREM AnswersKeepTime == QuotesSpec => []AnswersFollowTime
<1>1. QuotesInit => QuotesInv
    BY QuotesAssumption DEF QuotesAssumption, QuotesInit, QuotesInv, QuotesTypeOK, SourceIsMonotone,
        AnswersHaveRows, AnswersFollowTime, WithPrice, Stamped, Pulled, Unasked
<1>2. QuotesInv => AnswersFollowTime
    BY DEF QuotesInv
<1> QED
    BY <1>1, <1>2, QuotesStep, PTL DEF QuotesSpec

-----------------------------------------------------------------------------
(* The trading room.                                                       *)

Decisions == [made : {TRUE}, chosen : Offers, fallback : BOOLEAN] \cup {None}
Routings  == {"none", "drop", "trading_room", "morning_brief_only"}
Stages    == {"idle", "asked", "panel", "chair", "fallback", "persist", "answered", "failed"}
Rooms     == [route : Routings, plans : [Teams -> SUBSET Offers], failures : SUBSET Teams,
              degraded : BOOLEAN, decision : Decisions, brief : {"none", "clean", "degraded"}]
Boards    == [stage : Stages, decision : Decisions, degraded : BOOLEAN,
              stored : {"no", "row", "failed", "refused"}]

RoomTypeOK ==
    /\ wiring \in [via : {"route", "caller"}, urls : {Bootstrapped, Agents}, gate : BOOLEAN]
    /\ trigger \in Events
    /\ phase \in {"loop", "gather"} \cup Ended
    /\ done \in 0..5
    /\ failed \subseteq 1..5
    /\ at \in {"begin", "await", "over"}
    /\ late \in BOOLEAN /\ crashed \in BOOLEAN /\ alerted \in BOOLEAN
    /\ room \in Rooms
    /\ board \in Boards
    /\ ledger \subseteq Decisions

\* Where execute() stands in the chain: a node is under way only while a wave is gathered,
\* only that of the board waits, and a node has failed only after it began.
RoomShape ==
    /\ phase = "gather" => done < 5
    /\ phase = "done" => done = 5
    /\ at # "over" => phase = "gather"
    /\ at = "await" => done = 2
    /\ \A n \in failed : n <= done \/ (n = done + 1 /\ phase = "gather" /\ at = "over")

\* n_board is over.
BoardDone == done >= 3 \/ (done = 2 /\ phase = "gather" /\ at = "over")

\* What the board holds at each of its stages.
BoardShape ==
    /\ board.stage \in {"idle", "asked", "panel", "chair", "fallback"} => board.decision = None
    /\ board.stage = "persist" => board.decision.made
    /\ board.stage = "answered" =>
          \/ ~board.decision.made
          \/ board.stored = "row" /\ board.decision \in ledger
          \/ board.stored = "failed"
          \/ board.stored = "refused" /\ ~board.decision.chosen.storable
    /\ ledger # {} => board.stage = "answered" /\ ledger = {board.decision}

\* Who woke the board: plans come with the route, and the board is asked about plans.
BoardIsAsked ==
    /\ Received # {} => done >= 1 /\ room.route = "trading_room"
    /\ board.stage # "idle" =>
          /\ "board" \in wiring.urls
          /\ Received # {}
          /\ BoardDone \/ (done = 2 /\ at = "await")

\* What the room makes of the board's answer, and the brief of the room.
RoomTells ==
    /\ room.failures # {} => room.degraded
    /\ room.decision.made =>
          /\ BoardDone /\ board.stage = "answered" /\ room.decision = board.decision
          /\ board.degraded => room.degraded
    /\ BoardDone /\ 3 \notin failed =>
          /\ ~room.decision.made => room.degraded
          /\ board.stage # "idle" => board.stage = "answered" /\ room.decision = board.decision
    /\ room.brief # "none" => done >= 3 /\ room.decision.made
    /\ room.brief = "clean" => ~room.degraded
    /\ alerted => room.brief # "none"

RoomInv == RoomTypeOK /\ RoomShape /\ BoardShape /\ BoardIsAsked /\ RoomTells

LEMMA RoomInit == Init => RoomInv
<1> SUFFICES ASSUME Init PROVE RoomInv
  OBVIOUS
<1>1. RoomTypeOK
  <2>1. room \in Rooms
    BY DEF Init, Rooms, Decisions, Routings
  <2>2. board \in Boards
    BY DEF Init, Boards, Decisions, Stages
  <2>3. trigger \in Events
    BY DEF Init
  <2>4. ledger \subseteq Decisions /\ failed \subseteq 1..5 /\ done \in 0..5
    BY DEF Init
  <2>5. wiring \in [via : {"route", "caller"}, urls : {Bootstrapped, Agents}, gate : BOOLEAN]
    BY DEF Init
  <2>6. /\ phase \in {"loop", "gather"} \cup Ended /\ at \in {"begin", "await", "over"}
        /\ late \in BOOLEAN /\ crashed \in BOOLEAN /\ alerted \in BOOLEAN
    BY DEF Init
  <2> QED
    BY <2>1, <2>2, <2>3, <2>4, <2>5, <2>6 DEF RoomTypeOK
<1>2. RoomShape
  BY DEF Init, RoomShape
<1>3. Received = {} /\ BoardShape /\ BoardIsAsked /\ RoomTells
  BY DEF Init, Received, BoardShape, BoardIsAsked, RoomTells, BoardDone, None
<1> QED
  BY <1>1, <1>2, <1>3 DEF RoomInv

\* The loop of execute(), the clock and a crash leave the room and the board as they are.
LEMMA MoveKeepsRoom ==
    ASSUME RoomInv, LoopHead \/ Collect \/ DeadlinePasses \/ Crash PROVE RoomInv'
<1> USE DEF RoomInv
<1>1. UNCHANGED <<wiring, trigger, room, board, ledger, alerted, failed>>
  BY DEF LoopHead, Collect, DeadlinePasses, Crash, boardVars, dagVars
<1>2. /\ phase' \in {"loop", "gather"} \cup Ended /\ done' \in 0..5 /\ at' \in {"begin", "await", "over"}
      /\ late' \in BOOLEAN /\ crashed' \in BOOLEAN
      /\ RoomShape'
      /\ BoardDone' <=> BoardDone
      /\ done' >= done
      /\ (done' = done /\ at' = at) \/ (at' # "await" /\ at # "await")
  <2>1. CASE LoopHead
    BY <2>1 DEF LoopHead, RoomTypeOK, RoomShape, Ended, BoardDone
  <2>2. CASE Collect
    BY <2>2 DEF Collect, RoomTypeOK, RoomShape, Ended, BoardDone
  <2>3. CASE DeadlinePasses
    <3>1. UNCHANGED <<phase, done, failed, at, crashed>> /\ late' = TRUE
      BY <2>3 DEF DeadlinePasses
    <3> QED
      BY <3>1 DEF RoomTypeOK, RoomShape, BoardDone
  <2>4. CASE Crash
    <3>1. UNCHANGED <<phase, done, failed, at, late>> /\ crashed' = TRUE
      BY <2>4 DEF Crash, dagVars
    <3> QED
      BY <3>1 DEF RoomTypeOK, RoomShape, BoardDone
  <2> QED
    BY <2>1, <2>2, <2>3, <2>4
<1>6. RoomTypeOK'
  BY <1>1, <1>2 DEF RoomTypeOK
<1>7. Received' = Received
  BY <1>1 DEF Received
<1>8. BoardShape' /\ RoomTells'
  BY <1>1, <1>2 DEF BoardShape, RoomTells, RoomTypeOK
<1>9. BoardIsAsked'
  BY <1>1, <1>2, <1>7 DEF BoardIsAsked, RoomTypeOK
<1> QED
  BY <1>2, <1>6, <1>8, <1>9

\* A node that ends in the loop of execute().
LEMMA NodeEnds ==
    ASSUME RoomTypeOK, RoomShape, NEW n \in 1..5, Running(n),
           NEW result \in {"ok", "failed"}, Node(result)
    PROVE  /\ RoomShape'
           /\ failed' \subseteq 1..5
           /\ failed' = IF result = "ok" THEN failed ELSE failed \cup {n}
           /\ done = n - 1 /\ done' = n - 1 /\ phase = "gather" /\ phase' = "gather" /\ at' = "over"
           /\ UNCHANGED <<wiring, trigger, late, crashed>>
<1>1. /\ done = n - 1 /\ done' = n - 1 /\ phase = "gather" /\ phase' = "gather" /\ at' = "over"
      /\ UNCHANGED <<wiring, trigger, late, crashed>>
      /\ failed' = IF result = "ok" THEN failed ELSE failed \cup {n}
  BY DEF Node, Running, RoomTypeOK
<1>2. failed' \subseteq 1..5
  BY <1>1 DEF RoomTypeOK
<1>3. RoomShape'
  BY <1>1 DEF RoomShape, RoomTypeOK
<1> QED
  BY <1>1, <1>2, <1>3

LEMMA RoutesTyped == Routes \subseteq {"drop", "trading_room", "morning_brief_only"}
  BY DEF Routes, NumericRoute

LEMMA TriageKeepsRoom == ASSUME RoomInv, Triage PROVE RoomInv'
<1> USE DEF RoomInv
<1>1. PICK result \in {"ok", "failed"} :
        /\ Node(result)
        /\ (result = "ok" /\ \E r \in Routes : room' = [room EXCEPT !.route = r]) \/ UNCHANGED room
  BY DEF Triage
<1>2. /\ RoomShape' /\ failed' \subseteq 1..5
      /\ done = 0 /\ done' = 0 /\ phase = "gather" /\ phase' = "gather" /\ at' = "over"
      /\ UNCHANGED <<wiring, trigger, late, crashed>>
  BY <1>1, NodeEnds DEF Triage
<1>3. UNCHANGED <<board, ledger, alerted>>
  BY DEF Triage, boardVars
<1>4. PICK chosen \in Routings :
        /\ room' = [room EXCEPT !.route = chosen]
        /\ chosen \in Routes \/ chosen = room.route
  <2>1. CASE UNCHANGED room
    <3>1. room = [room EXCEPT !.route = room.route] /\ room.route \in Routings
      BY DEF RoomTypeOK, Rooms
    <3> QED
      BY <2>1, <3>1
  <2> QED
    BY <1>1, <2>1, RoutesTyped DEF Routings
<1>5. /\ room' \in Rooms /\ room'.route = chosen /\ room'.plans = room.plans
      /\ room'.failures = room.failures /\ room'.degraded = room.degraded
      /\ room'.decision = room.decision /\ room'.brief = room.brief
  BY <1>4 DEF RoomTypeOK, Rooms
<1>6. RoomTypeOK'
  BY <1>2, <1>3, <1>5 DEF RoomTypeOK
<1>7. ~BoardDone /\ ~BoardDone'
  BY <1>2 DEF BoardDone
<1>8. Received' = Received /\ Received = {} /\ board.stage = "idle"
  BY <1>2, <1>5, <1>7 DEF Received, BoardIsAsked
<1>9. BoardShape'
  BY <1>3 DEF BoardShape
<1>10. BoardIsAsked'
  BY <1>2, <1>3, <1>5, <1>8 DEF BoardIsAsked
<1>11. RoomTells'
  BY <1>2, <1>3, <1>5, <1>7 DEF RoomTells
<1> QED
  BY <1>2, <1>6, <1>9, <1>10, <1>11

\* An answer to the fan-out is a plan of the team that was asked, or none.
LEMMA AnswersTyped ==
    ASSUME NEW t \in Teams, NEW a \in Answers(t) PROVE a.plan \subseteq Offers
  BY DEF Answers

LEMMA FanoutKeepsRoom == ASSUME RoomInv, Fanout PROVE RoomInv'
<1> USE DEF RoomInv
<1>1. /\ RoomShape' /\ failed' \subseteq 1..5
      /\ done = 1 /\ done' = 1 /\ phase = "gather" /\ phase' = "gather" /\ at' = "over"
      /\ UNCHANGED <<wiring, trigger, late, crashed>>
  <2>1. Running(2) /\ Node("ok")
    BY DEF Fanout
  <2> QED
    BY <2>1, NodeEnds
<1>2. UNCHANGED <<board, ledger, alerted>>
  BY DEF Fanout, boardVars
<1>3. PICK plans \in [Teams -> SUBSET Offers], silent \in SUBSET Teams, degraded \in BOOLEAN :
        /\ room' = [room EXCEPT !.plans = plans, !.failures = silent, !.degraded = degraded]
        /\ silent # {} => degraded
        /\ room.route = "trading_room" \/ plans = room.plans
  <2>1. CASE room.route # "trading_room"
    <3>1. room' = room
      BY <2>1 DEF Fanout
    <3>2. room' = [room EXCEPT !.plans = room.plans, !.failures = room.failures, !.degraded = room.degraded]
      BY <3>1 DEF RoomTypeOK, Rooms
    <3>3. room.failures # {} => room.degraded
      BY DEF RoomTells
    <3>4. /\ room.plans \in [Teams -> SUBSET Offers] /\ room.failures \in SUBSET Teams
          /\ room.degraded \in BOOLEAN
      BY DEF RoomTypeOK, Rooms
    <3> USE <3>4
    <3> WITNESS room.plans \in [Teams -> SUBSET Offers], room.failures \in SUBSET Teams,
                room.degraded \in BOOLEAN
    <3> QED
      BY <3>2, <3>3
  <2>2. CASE room.route = "trading_room"
    <3>1. PICK q \in Answers("quant"), f \in Answers("fundamental"), p \in Answers("persona") :
            LET answer == [t \in Teams |-> CASE t = "quant" -> q
                                             [] t = "fundamental" -> f
                                             [] t = "persona" -> p]
                silent == {t \in Teams : answer[t].kind = "failed"}
            IN  room' = [room EXCEPT !.plans = [t \in Teams |-> answer[t].plan],
                                     !.failures = silent,
                                     !.degraded = silent # {}]
      BY <2>2 DEF Fanout
    <3> DEFINE answer == [t \in Teams |-> CASE t = "quant" -> q
                                            [] t = "fundamental" -> f
                                            [] t = "persona" -> p]
               silent == {t \in Teams : answer[t].kind = "failed"}
    <3>2. \A t \in Teams : answer[t].plan \subseteq Offers
      BY AnswersTyped DEF Teams
    <3>3. [t \in Teams |-> answer[t].plan] \in [Teams -> SUBSET Offers]
      BY <3>2
    <3> HIDE DEF answer
    <3> QED
      BY <2>2, <3>1, <3>3 DEF answer
  <2> QED
    BY <2>1, <2>2
<1>4. /\ room' \in Rooms /\ room'.route = room.route /\ room'.plans = plans
      /\ room'.failures = silent /\ room'.degraded = degraded
      /\ room'.decision = room.decision /\ room'.brief = room.brief
  BY <1>3 DEF RoomTypeOK, Rooms
<1>5. RoomTypeOK'
  BY <1>1, <1>2, <1>4 DEF RoomTypeOK
<1>6. ~BoardDone /\ ~BoardDone' /\ board.stage = "idle" /\ ~room.decision.made
  BY <1>1 DEF BoardDone, BoardIsAsked, RoomTells
<1>7. Received' # {} => room.route = "trading_room"
  BY <1>3, <1>4 DEF Received, BoardIsAsked
<1>8. BoardShape'
  BY <1>2 DEF BoardShape
<1>9. BoardIsAsked'
  BY <1>1, <1>2, <1>4, <1>6, <1>7 DEF BoardIsAsked
<1>10. RoomTells'
  BY <1>1, <1>2, <1>3, <1>4, <1>6 DEF RoomTells
<1> QED
  BY <1>1, <1>5, <1>8, <1>9, <1>10

LEMMA SkipBoardKeepsRoom == ASSUME RoomInv, SkipBoard PROVE RoomInv'
<1> USE DEF RoomInv
<1>1. /\ RoomShape' /\ failed' = failed
      /\ done = 2 /\ done' = 2 /\ phase = "gather" /\ phase' = "gather" /\ at' = "over"
      /\ UNCHANGED <<wiring, trigger, late, crashed>>
  <2>1. Running(3) /\ Node("ok")
    BY DEF SkipBoard
  <2> QED
    BY <2>1, NodeEnds
<1>2. UNCHANGED <<board, ledger, alerted>> /\ at = "begin"
  BY DEF SkipBoard, boardVars
<1>3. /\ room' \in Rooms /\ room'.route = room.route /\ room'.plans = room.plans
      /\ room'.failures = room.failures /\ room'.degraded
      /\ room'.decision = room.decision /\ room'.brief = room.brief
  <2>1. room' = [room EXCEPT !.degraded = TRUE]
    BY DEF SkipBoard, Degrade
  <2> QED
    BY <2>1 DEF RoomTypeOK, Rooms
<1>4. RoomTypeOK'
  BY <1>1, <1>2, <1>3 DEF RoomTypeOK
<1>5. ~BoardDone /\ board.stage = "idle" /\ ~room.decision.made /\ room.brief = "none"
  BY <1>1, <1>2 DEF BoardDone, BoardIsAsked, RoomTells
<1>6. Received' = Received
  BY <1>3 DEF Received
<1>7. BoardShape'
  BY <1>2 DEF BoardShape
<1>8. BoardIsAsked'
  BY <1>1, <1>2, <1>3, <1>5, <1>6 DEF BoardIsAsked
<1>9. RoomTells'
  BY <1>1, <1>2, <1>3, <1>5 DEF RoomTells
<1> QED
  BY <1>1, <1>4, <1>7, <1>8, <1>9

\* The node of the board raises, before or after it has asked.
LEMMA BoardRaisesKeepsRoom == ASSUME RoomInv, BoardUnreachable \/ BoardRaises PROVE RoomInv'
<1> USE DEF RoomInv
<1>1. /\ RoomShape' /\ failed' = failed \cup {3} /\ failed' \subseteq 1..5
      /\ done = 2 /\ done' = 2 /\ phase = "gather" /\ phase' = "gather" /\ at' = "over"
      /\ UNCHANGED <<wiring, trigger, late, crashed>>
  <2>1. Running(3) /\ Node("failed")
    BY DEF BoardUnreachable, BoardRaises
  <2> QED
    BY <2>1, NodeEnds
<1>2. UNCHANGED <<room, board, ledger, alerted>> /\ at # "over"
  BY DEF BoardUnreachable, BoardRaises, boardVars
<1>3. RoomTypeOK'
  BY <1>1, <1>2 DEF RoomTypeOK
<1>4. ~BoardDone /\ BoardDone' /\ ~room.decision.made /\ room.brief = "none"
  BY <1>1, <1>2 DEF BoardDone, RoomTells
<1>5. Received' = Received
  BY <1>2 DEF Received
<1>6. BoardShape'
  BY <1>2 DEF BoardShape
<1>7. BoardIsAsked'
  BY <1>1, <1>2, <1>4, <1>5 DEF BoardIsAsked
<1>8. RoomTells'
  BY <1>1, <1>2, <1>4 DEF RoomTells
<1> QED
  BY <1>1, <1>3, <1>6, <1>7, <1>8

LEMMA AskKeepsRoom == ASSUME RoomInv, AskBoard PROVE RoomInv'
<1> USE DEF RoomInv
<1>1. /\ done = 2 /\ phase = "gather" /\ at = "begin" /\ at' = "await"
      /\ Received # {} /\ "board" \in wiring.urls
      /\ board' = [board EXCEPT !.stage = "asked"]
      /\ UNCHANGED <<wiring, trigger, phase, done, failed, late, crashed, room, ledger, alerted>>
  BY DEF AskBoard, Running, RoomTypeOK
<1>2. /\ board' \in Boards /\ board'.stage = "asked" /\ board'.decision = board.decision
  BY <1>1 DEF RoomTypeOK, Boards, Stages
<1>3. RoomTypeOK'
  BY <1>1, <1>2 DEF RoomTypeOK
<1>4. RoomShape'
  BY <1>1 DEF RoomShape
<1>5. ~BoardDone /\ ~BoardDone' /\ board.stage = "idle" /\ ~room.decision.made
  BY <1>1 DEF BoardDone, BoardIsAsked, RoomTells
<1>6. Received' = Received
  BY <1>1 DEF Received
<1>7. BoardShape'
  BY <1>1, <1>2, <1>5 DEF BoardShape
<1>8. BoardIsAsked'
  BY <1>1, <1>2, <1>6 DEF BoardIsAsked
<1>9. RoomTells'
  BY <1>1, <1>5 DEF RoomTells
<1> QED
  BY <1>3, <1>4, <1>7, <1>8, <1>9

LEMMA AnswerKeepsRoom == ASSUME RoomInv, BoardAnswers PROVE RoomInv'
<1> USE DEF RoomInv
<1>1. /\ RoomShape' /\ failed' = failed
      /\ done = 2 /\ done' = 2 /\ phase = "gather" /\ phase' = "gather" /\ at' = "over"
      /\ UNCHANGED <<wiring, trigger, late, crashed>>
  <2>1. Running(3) /\ Node("ok")
    BY DEF BoardAnswers
  <2> QED
    BY <2>1, NodeEnds
<1>2. UNCHANGED <<board, ledger, alerted>> /\ at = "await" /\ board.stage = "answered"
  BY DEF BoardAnswers, boardVars
<1>3. /\ room' \in Rooms /\ room'.route = room.route /\ room'.plans = room.plans
      /\ room'.failures = room.failures
      /\ room'.decision = board.decision /\ room'.brief = room.brief
      /\ room'.degraded = (room.degraded \/ ~board.decision.made \/ board.degraded)
  <2>1. room' = [room EXCEPT !.decision = board.decision,
                            !.degraded = room.degraded \/ ~board.decision.made \/ board.degraded]
    BY DEF BoardAnswers, TakeDecision
  <2>2. board.decision \in Decisions /\ (room.degraded \/ ~board.decision.made \/ board.degraded) \in BOOLEAN
    BY DEF RoomTypeOK, Boards
  <2> QED
    BY <2>1, <2>2 DEF RoomTypeOK, Rooms
<1>4. RoomTypeOK'
  BY <1>1, <1>2, <1>3 DEF RoomTypeOK
<1>5. ~BoardDone /\ BoardDone' /\ room.brief = "none"
  BY <1>1, <1>2 DEF BoardDone, RoomTells
<1>6. Received' = Received
  BY <1>3 DEF Received
<1>7. BoardShape'
  BY <1>2 DEF BoardShape
<1>8. BoardIsAsked'
  BY <1>1, <1>2, <1>3, <1>5, <1>6 DEF BoardIsAsked
<1>9. RoomTells'
  BY <1>1, <1>2, <1>3, <1>5 DEF RoomTells
<1> QED
  BY <1>1, <1>4, <1>7, <1>8, <1>9

LEMMA BriefKeepsRoom == ASSUME RoomInv, Brief PROVE RoomInv'
<1> USE DEF RoomInv
<1>1. PICK result \in {"ok", "failed"} : Running(4) /\ Node(result)
  BY DEF Brief
<1>2. /\ RoomShape' /\ failed' \subseteq 1..5 /\ (3 \in failed' <=> 3 \in failed)
      /\ done = 3 /\ done' = 3 /\ phase = "gather" /\ phase' = "gather" /\ at' = "over"
      /\ UNCHANGED <<wiring, trigger, late, crashed>>
  BY <1>1, NodeEnds
<1>3. UNCHANGED <<board, ledger, alerted>> /\ at = "begin"
  BY DEF Brief, boardVars
<1>4. \/ UNCHANGED room
      \/ /\ room.decision.made
         /\ room' = [room EXCEPT !.brief = IF room.degraded THEN "degraded" ELSE "clean"]
  BY DEF Brief
<1>5. /\ room' \in Rooms /\ room'.route = room.route /\ room'.plans = room.plans
      /\ room'.failures = room.failures /\ room'.degraded = room.degraded
      /\ room'.decision = room.decision
      /\ \/ room'.brief = room.brief
         \/ room.decision.made /\ room'.brief = IF room.degraded THEN "degraded" ELSE "clean"
  BY <1>4 DEF RoomTypeOK, Rooms
<1>6. RoomTypeOK'
  BY <1>2, <1>3, <1>5 DEF RoomTypeOK
<1>7. BoardDone /\ BoardDone'
  BY <1>2 DEF BoardDone
<1>8. Received' = Received
  BY <1>5 DEF Received
<1>9. BoardShape'
  BY <1>3 DEF BoardShape
<1>10. BoardIsAsked'
  BY <1>2, <1>3, <1>5, <1>7, <1>8 DEF BoardIsAsked
<1>11. RoomTells'
  BY <1>2, <1>3, <1>5, <1>7 DEF RoomTells
<1> QED
  BY <1>2, <1>6, <1>9, <1>10, <1>11

LEMMA NotifyKeepsRoom == ASSUME RoomInv, Notify PROVE RoomInv'
<1> USE DEF RoomInv
<1>1. /\ RoomShape' /\ failed' = failed
      /\ done = 4 /\ done' = 4 /\ phase = "gather" /\ phase' = "gather" /\ at' = "over"
      /\ UNCHANGED <<wiring, trigger, late, crashed>>
  <2>1. Running(5) /\ Node("ok")
    BY DEF Notify
  <2> QED
    BY <2>1, NodeEnds
<1>2. UNCHANGED <<room, board, ledger>>
  BY DEF Notify, boardVars
<1>3. alerted' \in BOOLEAN /\ (alerted' => alerted \/ room.brief # "none")
  BY DEF Notify, RoomTypeOK
<1>4. RoomTypeOK'
  BY <1>1, <1>2, <1>3 DEF RoomTypeOK
<1>5. BoardDone /\ BoardDone'
  BY <1>1 DEF BoardDone
<1>6. Received' = Received
  BY <1>2 DEF Received
<1>7. BoardShape'
  BY <1>2 DEF BoardShape
<1>8. BoardIsAsked'
  BY <1>1, <1>2, <1>5, <1>6 DEF BoardIsAsked
<1>9. RoomTells'
  BY <1>1, <1>2, <1>3, <1>5 DEF RoomTells
<1> QED
  BY <1>1, <1>4, <1>7, <1>8, <1>9

\* The fallback is the plan of a team: where there is a plan there is one to rank first.
LEMMA BestIsReceived == ASSUME RoomTypeOK, Received # {} PROVE Best \subseteq Received
<1> DEFINE best(t) == /\ room.plans[t] # {}
                      /\ \A u \in Teams : room.plans[u] # {} => Confidence[u] <= Confidence[t]
           first   == CHOOSE i \in 1..3 : best(Order[i]) /\ \A j \in 1..(i-1) : ~best(Order[j])
<1>1. /\ Confidence["quant"] \in Nat /\ Confidence["fundamental"] \in Nat
      /\ Confidence["persona"] \in Nat
  BY RoomAssumption DEF RoomAssumption, Teams
<1>2. Order[1] = "quant" /\ Order[2] = "fundamental" /\ Order[3] = "persona"
  BY DEF Order
<1>3. \/ room.plans["quant"] # {} \/ room.plans["fundamental"] # {} \/ room.plans["persona"] # {}
  BY DEF Received, Teams
<1>4. best("quant") \/ best("fundamental") \/ best("persona")
  BY <1>1, <1>3 DEF Teams
<1> HIDE DEF best
<1>5. \E i \in 1..3 : best(Order[i]) /\ \A j \in 1..(i-1) : ~best(Order[j])
  <2>1. CASE best("quant")
    <3>1. best(Order[1]) /\ \A j \in 1..(1-1) : ~best(Order[j])
      BY <1>2, <2>1
    <3> QED
      BY <3>1
  <2>2. CASE ~best("quant") /\ best("fundamental")
    <3>1. best(Order[2]) /\ \A j \in 1..(2-1) : ~best(Order[j])
      BY <1>2, <2>2
    <3> QED
      BY <3>1
  <2>3. CASE ~best("quant") /\ ~best("fundamental") /\ best("persona")
    <3>1. best(Order[3]) /\ \A j \in 1..(3-1) : ~best(Order[j])
      BY <1>2, <2>3
    <3> QED
      BY <3>1
  <2> QED
    BY <1>4, <2>1, <2>2, <2>3
<1>6. first \in 1..3
  BY <1>5
<1>7. Best = room.plans[Order[first]]
  BY DEF Best, best
<1> HIDE DEF first
<1>8. Order[first] \in Teams
  BY <1>2, <1>6 DEF Teams
<1> QED
  BY <1>7, <1>8 DEF Received

\* A step of the board before its answer changes nothing of the room, and nothing that
\* the room has taken over.
LEMMA BoardMoves ==
    ASSUME RoomInv, board.stage \notin {"idle", "answered"},
           UNCHANGED <<wiring, trigger, dagVars, crashed, room, alerted>>,
           board' \in Boards, board'.stage # "idle", ledger' \subseteq Decisions,
           BoardShape'
    PROVE  RoomInv'
<1> USE DEF RoomInv
<1>1. UNCHANGED <<phase, done, failed, at, late>>
  BY DEF dagVars
<1>2. RoomTypeOK' /\ RoomShape'
  BY <1>1 DEF RoomTypeOK, RoomShape
<1>3. Received' = Received /\ (BoardDone' <=> BoardDone)
  BY <1>1 DEF Received, BoardDone
<1>4. BoardIsAsked'
  BY <1>1, <1>3 DEF BoardIsAsked
<1>5. RoomTells'
  BY <1>1, <1>3 DEF RoomTells
<1> QED
  BY <1>2, <1>4, <1>5

LEMMA BoardKeepsRoom == ASSUME RoomInv, BoardStep PROVE RoomInv'
<1> USE DEF RoomInv
<1>1. CASE BoardDeclines
  <2>1. /\ board.stage = "asked" /\ board' = [board EXCEPT !.stage = "answered"]
        /\ UNCHANGED <<wiring, trigger, dagVars, crashed, room, ledger, alerted>>
    BY <1>1 DEF BoardDeclines
  <2>2. board' \in Boards /\ board'.stage = "answered" /\ board'.decision = board.decision
    BY <2>1 DEF RoomTypeOK, Boards, Stages
  <2>3. BoardShape'
    BY <2>1, <2>2 DEF BoardShape, None
  <2> QED
    BY <2>1, <2>2, <2>3, BoardMoves DEF RoomTypeOK
<1>2. CASE Debate
  <2>1. PICK cut \in BOOLEAN :
          /\ board.stage = "asked" /\ board' = [board EXCEPT !.stage = "panel", !.degraded = cut]
          /\ UNCHANGED <<wiring, trigger, dagVars, crashed, room, ledger, alerted>>
    BY <1>2 DEF Debate
  <2>2. board' \in Boards /\ board'.stage = "panel" /\ board'.decision = board.decision
    BY <2>1 DEF RoomTypeOK, Boards, Stages
  <2>3. BoardShape'
    BY <2>1, <2>2 DEF BoardShape
  <2> QED
    BY <2>1, <2>2, <2>3, BoardMoves DEF RoomTypeOK
<1>3. CASE Deliberate
  <2>1. PICK cut \in BOOLEAN :
          /\ board.stage = "panel"
          /\ board' = [board EXCEPT !.stage = IF board.degraded THEN "fallback" ELSE "chair",
                                    !.degraded = @ \/ cut]
          /\ UNCHANGED <<wiring, trigger, dagVars, crashed, room, ledger, alerted>>
    BY <1>3 DEF Deliberate
  <2>2. board' \in Boards /\ board'.stage \in {"chair", "fallback"} /\ board'.decision = board.decision
    <3>1. (board.degraded \/ cut) \in BOOLEAN /\ board.degraded \in BOOLEAN
      BY <2>1 DEF RoomTypeOK, Boards
    <3> QED
      BY <2>1, <3>1 DEF RoomTypeOK, Boards, Stages
  <2>3. BoardShape'
    BY <2>1, <2>2 DEF BoardShape
  <2> QED
    BY <2>1, <2>2, <2>3, BoardMoves DEF RoomTypeOK
<1>4. CASE Chair
  <2>1. /\ board.stage \in {"chair", "fallback"}
        /\ UNCHANGED <<wiring, trigger, dagVars, crashed, room, ledger, alerted>>
    BY <1>4 DEF Chair
  <2>2. Best \subseteq Received /\ Received \subseteq Offers
    BY <2>1, BestIsReceived DEF BoardIsAsked, Received, RoomTypeOK, Rooms
  <2>3. PICK plan \in Offers, fallback \in BOOLEAN : Decide(plan, fallback)
    BY <1>4, <2>2 DEF Chair
  <2>4. /\ board' \in Boards /\ board'.stage = "persist"
        /\ board'.decision = [made |-> TRUE, chosen |-> plan, fallback |-> fallback]
    BY <2>3 DEF Decide, RoomTypeOK, Boards, Stages, Decisions
  <2>5. BoardShape'
    BY <2>1, <2>4 DEF BoardShape
  <2> QED
    BY <2>1, <2>4, <2>5, BoardMoves DEF RoomTypeOK
<1>5. CASE Persist
  <2>1. /\ board.stage = "persist" /\ board.decision.made /\ ledger = {}
        /\ UNCHANGED <<wiring, trigger, dagVars, crashed, room, alerted>>
    BY <1>5 DEF Persist, BoardShape
  <2>2. PICK how \in {"row", "failed", "refused"} :
          /\ board' = [board EXCEPT !.stage = "answered", !.stored = how]
          /\ ledger' \in {ledger, ledger \cup {board.decision}}
          /\ how = "row" => ledger' = ledger \cup {board.decision}
          /\ how = "refused" => ~board.decision.chosen.storable
    BY <1>5 DEF Persist
  <2>3. /\ board' \in Boards /\ board'.stage = "answered" /\ board'.decision = board.decision
        /\ board'.stored = how
    BY <2>2 DEF RoomTypeOK, Boards, Stages
  <2>4. ledger' \subseteq {board.decision} /\ board.decision \in Decisions
    BY <2>1, <2>2 DEF RoomTypeOK, Boards
  <2>5. BoardShape'
    BY <2>1, <2>2, <2>3, <2>4 DEF BoardShape
  <2> QED
    BY <2>1, <2>3, <2>4, <2>5, BoardMoves
<1>6. CASE BoardFails
  <2>1. /\ board.stage \in {"asked", "panel", "chair", "fallback", "persist"}
        /\ board' = [board EXCEPT !.stage = "failed"]
        /\ UNCHANGED <<wiring, trigger, dagVars, crashed, room, ledger, alerted>>
    BY <1>6 DEF BoardFails
  <2>2. board' \in Boards /\ board'.stage = "failed"
    BY <2>1 DEF RoomTypeOK, Boards, Stages
  <2>3. BoardShape'
    BY <2>1, <2>2 DEF BoardShape
  <2> QED
    BY <2>1, <2>2, <2>3, BoardMoves DEF RoomTypeOK
<1> QED
  BY <1>1, <1>2, <1>3, <1>4, <1>5, <1>6 DEF BoardStep

\* Whatever the agents answer, whenever the flags change, and wherever the orchestrator or
\* the board stops: the invariant holds.
LEMMA RoomInvHolds == Spec => []RoomInv
<1>1. RoomInv /\ [Next]_vars => RoomInv'
  <2> SUFFICES ASSUME RoomInv, [Next]_vars PROVE RoomInv'
    OBVIOUS
  <2>1. CASE UNCHANGED vars
    <3>1. UNCHANGED <<wiring, trigger, phase, done, failed, at, late, crashed, room, board, ledger, alerted>>
      BY <2>1 DEF vars, dagVars, boardVars
    <3> QED
      BY <3>1 DEF RoomInv, RoomTypeOK, RoomShape, BoardShape, BoardIsAsked, RoomTells, BoardDone, Received
  <2>2. CASE NodeStep
    BY <2>2, TriageKeepsRoom, FanoutKeepsRoom, SkipBoardKeepsRoom, BoardRaisesKeepsRoom, AskKeepsRoom,
       AnswerKeepsRoom, BriefKeepsRoom, NotifyKeepsRoom DEF NodeStep
  <2>3. CASE LoopHead \/ Collect \/ DeadlinePasses \/ Crash
    BY <2>3, MoveKeepsRoom
  <2>4. CASE BoardStep
    BY <2>4, BoardKeepsRoom
  <2> QED
    BY <2>1, <2>2, <2>3, <2>4 DEF Next
<1> QED
  BY <1>1, RoomInit, PTL DEF Spec

-----------------------------------------------------------------------------
(* The room implements execute().                                          *)

LEMMA RoomStartsDag == Init => Dag!Init
  BY DEF Init, Dag!Init, Waves, RoomGraph, Edges

LEMMA RoomStepsDag == RoomTypeOK /\ RoomShape /\ [Next]_vars => [Dag!Next]_Dag!vars
<1> SUFFICES ASSUME RoomTypeOK, RoomShape, [Next]_vars PROVE [Dag!Next]_Dag!vars
  OBVIOUS
<1>1. ASSUME UNCHANGED <<phase, done, failed, late>>, (at = "over") <=> (at' = "over")
      PROVE  UNCHANGED Dag!vars
  BY <1>1 DEF Dag!vars, Waves
<1>2. CASE UNCHANGED vars \/ Crash \/ BoardStep \/ AskBoard
  BY <1>1, <1>2
  DEF vars, dagVars, Crash, BoardStep, BoardDeclines, Debate, Deliberate, Chair, Persist, BoardFails, AskBoard
<1>3. CASE LoopHead
  <2>1. /\ phase = "loop" /\ at = "over" /\ Waves = done
        /\ UNCHANGED <<done, failed, late>>
    BY <1>3 DEF LoopHead, RoomShape, Waves
  <2>2. CASE done = 5
    <3>1. phase' = "done" /\ at' = at /\ Waves' = Waves
      BY <1>3, <2>1, <2>2 DEF LoopHead, Waves
    <3> QED
      BY <2>1, <2>2, <3>1 DEF Dag!Next, Dag!LoopHead, Dag!Return
  <2>3. CASE done < 5 /\ late
    <3>1. phase' = "overdue" /\ at' = at /\ Waves' = Waves
      BY <1>3, <2>1, <2>3 DEF LoopHead, Waves
    <3> QED
      BY <2>1, <2>3, <3>1 DEF RoomTypeOK, Dag!Next, Dag!LoopHead, Dag!RaiseTimeout
  <2>4. CASE done < 5 /\ ~late
    <3>1. phase' = "gather" /\ at' = "begin" /\ Waves' = done + 1
      BY <1>3, <2>1, <2>4 DEF LoopHead, Waves
    <3>2. Dag!Ready = {done + 1}
      BY <2>4 DEF RoomTypeOK, Dag!Ready, Dag!Parents, RoomGraph, Edges
    <3>3. done \in 0..4
      BY <2>4 DEF RoomTypeOK
    <3>4. \A n \in 1..5 : /\ (n < Waves' \/ (n = Waves' /\ at' = "over")) <=> (n < Waves \/ (n = Waves /\ at = "over"))
                         /\ (IF n <= Waves' THEN n ELSE 0) =
                              IF n = done + 1 THEN Waves + 1 ELSE IF n <= Waves THEN n ELSE 0
      BY <2>1, <3>1, <3>3
    <3>5. {Waves'} \ {0} = {done + 1} /\ {done + 1} \subseteq 1..5
      BY <3>1, <3>3
    <3>6. Dag!LaunchWave
      BY <2>1, <2>4, <3>1, <3>2, <3>4, <3>5 DEF Dag!LaunchWave, RoomGraph
    <3> QED
      BY <3>6 DEF Dag!Next, Dag!LoopHead
  <2> QED
    BY <2>2, <2>3, <2>4 DEF RoomTypeOK
<1>4. CASE Collect
  <2>1. /\ phase = "gather" /\ at = "over" /\ phase' = "loop" /\ done' = done + 1 /\ done \in 0..4
        /\ UNCHANGED <<failed, at, late>> /\ Waves = done + 1 /\ Waves' = done + 1
    BY <1>4 DEF Collect, RoomShape, RoomTypeOK, Waves
  <2>2. Dag!Followed({}) = {e \in Edges : e[1] = done + 1}
    BY <2>1 DEF Dag!Followed, RoomGraph
  <2>3. {e[2] : e \in {f \in Edges : f[1] = done + 1}} = {done + 2} \ {6}
    <3>1. ASSUME done < 4 PROVE <<done + 1, done + 2>> \in Edges
      BY <2>1, <3>1 DEF Edges
    <3>2. \A e \in Edges : e[1] \in 1..4 /\ e[2] = e[1] + 1
      BY DEF Edges
    <3>3. CASE done = 4
      BY <3>2, <3>3
    <3>4. CASE done < 4
      BY <2>1, <3>1, <3>2, <3>4
    <3> QED
      BY <2>1, <3>3, <3>4
  <2>4. {Waves} \ {0} = {done + 1} /\ {Waves'} \ {0} = {done + 1}
    BY <2>1
  <2>5. Dag!Queued(Dag!Followed({})) = {done + 2} \ {6}
    BY <2>1, <2>2, <2>3, <2>4 DEF Dag!Queued
  <2>6. {e \in Edges : e[1] <= done'} = {e \in Edges : e[1] <= done} \cup {e \in Edges : e[1] = done + 1}
    BY <2>1 DEF Edges
  <2>7. /\ 1..done' = (1..done) \cup {done + 1}
        /\ {done' + 1} \ {6} = (({done + 1} \ {6}) \ {done + 1}) \cup ({done + 2} \ {6})
    BY <2>1
  <2>8. Dag!Collect
    BY <2>1, <2>2, <2>4, <2>5, <2>6, <2>7 DEF Dag!Collect, Dag!Completing, RoomGraph
  <2> QED
    BY <2>8 DEF Dag!Next
<1>5. CASE DeadlinePasses
  <2>1. phase \notin Ended /\ ~late /\ late' = TRUE /\ UNCHANGED <<phase, done, failed, at>>
    BY <1>5 DEF DeadlinePasses
  <2> QED
    BY <2>1 DEF Dag!Next, Dag!DeadlinePasses, Dag!Ended, Ended, RoomTypeOK, Waves
<1>6. ASSUME NEW n \in 1..5, Running(n), at # "over", NEW result \in {"ok", "failed"}, Node(result)
      PROVE  Dag!Next
  <2>1. /\ phase = "gather" /\ n = done + 1 /\ at' = "over" /\ UNCHANGED <<phase, done, late>>
        /\ failed' = IF result = "ok" THEN failed ELSE failed \cup {n}
        /\ Waves = n /\ Waves' = n
    BY <1>6 DEF Running, Node, Waves, RoomTypeOK
  <2>2. n \notin failed
    BY <1>6, <2>1 DEF RoomShape, RoomTypeOK
  <2>3. Dag!Finish(n, result)
    BY <1>6, <2>1, <2>2 DEF Dag!Finish
  <2> QED
    BY <2>3 DEF Dag!Next
<1>7. CASE Triage
  BY <1>6, <1>7 DEF Triage
<1>8. CASE Fanout
  <2>1. Running(2) /\ at # "over" /\ Node("ok")
    BY <1>8 DEF Fanout
  <2> QED
    BY <1>6, <2>1
<1>9. CASE SkipBoard \/ BoardUnreachable \/ BoardAnswers \/ BoardRaises
  <2>1. Running(3) /\ at # "over" /\ (Node("ok") \/ Node("failed"))
    BY <1>9 DEF SkipBoard, BoardUnreachable, BoardAnswers, BoardRaises
  <2> QED
    BY <1>6, <2>1
<1>10. CASE Brief
  BY <1>6, <1>10 DEF Brief
<1>11. CASE Notify
  <2>1. Running(5) /\ at # "over" /\ Node("ok")
    BY <1>11 DEF Notify
  <2> QED
    BY <1>6, <2>1
<1> QED
  BY <1>2, <1>3, <1>4, <1>5, <1>7, <1>8, <1>9, <1>10, <1>11 DEF Next, NodeStep

\* Every run of the room is a run of execute() on its graph: what is proved of the runner
\* for every graph holds of the room.
THEOREM RoomImplementsDag == Spec => RefinesDag
<1>1. RoomInv => RoomTypeOK /\ RoomShape
  BY DEF RoomInv
<1> QED
  BY <1>1, RoomInvHolds, RoomStartsDag, RoomStepsDag, PTL DEF Spec, RefinesDag, Dag!Spec

-----------------------------------------------------------------------------
(* What the room promises.                                                 *)

\* A factor that is larger makes a price that is larger.
LEMMA TimesGrows ==
    ASSUME NEW a \in Int, NEW b \in Int, NEW p \in Nat \ {0}, a < b PROVE a * p < b * p
<1>1. (b - a) * p > 0
  BY SMT
<1>2. (b - a) * p = b * p - a * p
  BY SMT
<1> QED
  BY <1>1, <1>2

\* The ledger's view of a plan whose prices lie far enough apart is a valid advice.
LEMMA WideIsStorable ==
    ASSUME NEW p, p.entry \in Nat, p.target \in Nat, p.stop \in Int,
           \/ /\ p.action = "buy"
              /\ 1001 * p.entry < 990 * p.target /\ 1000 * p.stop < 999 * p.entry
           \/ /\ p.action = "sell"
              /\ 1010 * p.target < 999 * p.entry /\ 1000 * p.stop > 1001 * p.entry
           \/ p.action = "hold"
    PROVE  Storable(p)
  BY DEF Storable, AdviceValid, Projection

LEMMA QuantIsStorable ==
    ASSUME NEW mark \in Nat, NEW z \in Int PROVE Storable(QuantPlan(mark, z))
<1> DEFINE px == Priced(mark)
           b  == Band(z)
           p  == QuantPlan(mark, z)
<1>1. px \in Nat \ {0}
  BY DEF Priced, Larger
<1>2. b \in Nat /\ 100 <= b /\ b <= 1000
  BY DEF Band, Smaller, Larger, Magnitude
<1>3. CASE z > 50
  <2> DEFINE target == (10000 + 2 * b) * px  stop == (10000 - b) * px
  <2>1. /\ p.action = "buy" /\ p.entry = 10000 * px
        /\ p.target = target /\ p.stop = stop
    BY <1>3 DEF QuantPlan
  <2> HIDE DEF px, b, p
  <2>2. 10150 * px < target /\ stop < 9950 * px
    BY <1>1, <1>2, TimesGrows
  <2>3. target \in Int /\ stop \in Int
    BY <1>1, <1>2
  <2> HIDE DEF target, stop
  <2>4. /\ 1001 * (10000 * px) < 990 * target /\ 1000 * stop < 999 * (10000 * px)
        /\ 10000 * px \in Nat /\ target \in Nat
    BY <1>1, <2>2, <2>3
  <2>5. Storable(p)
    BY <2>1, <2>3, <2>4, WideIsStorable
  <2> QED
    BY <2>5 DEF p
<1>4. CASE z < -50
  <2> DEFINE target == (10000 + 2 * (-b)) * px  stop == (10000 - (-b)) * px
  <2>1. /\ p.action = "sell" /\ p.entry = 10000 * px
        /\ p.target = target /\ p.stop = stop
    BY <1>4 DEF QuantPlan
  <2> HIDE DEF px, b, p
  <2>2. target < 9850 * px /\ 10050 * px < stop /\ 0 * px < target
    BY <1>1, <1>2, TimesGrows
  <2>3. target \in Int /\ stop \in Int
    BY <1>1, <1>2
  <2> HIDE DEF target, stop
  <2>4. /\ 1010 * target < 999 * (10000 * px) /\ 1000 * stop > 1001 * (10000 * px)
        /\ 10000 * px \in Nat /\ target \in Nat
    BY <1>1, <2>2, <2>3
  <2>5. Storable(p)
    BY <2>1, <2>3, <2>4, WideIsStorable
  <2> QED
    BY <2>5 DEF p
<1>5. CASE ~(z > 50) /\ ~(z < -50)
  <2>1. p.action = "hold"
    BY <1>5 DEF QuantPlan
  <2>2. p.entry = 10000 * px /\ p.target = (10000 + 2 * 0) * px /\ p.stop = (10000 - 0) * px
    BY <1>5 DEF QuantPlan
  <2> HIDE DEF px, p
  <2>3. p.entry \in Nat /\ p.target \in Nat /\ p.stop \in Int
    BY <1>1, <2>2
  <2>4. Storable(p)
    BY <2>1, <2>3, WideIsStorable
  <2> QED
    BY <2>4 DEF p
<1> QED
  BY <1>3, <1>4, <1>5

LEMMA FundamentalIsStorable ==
    ASSUME NEW mark \in Nat, NEW direction \in Directions, NEW conviction \in Nat, NEW fair \in Nat,
           NEW mos \in Int, PlanValid(FundamentalPlan(mark, direction, conviction, fair, mos))
    PROVE  Storable(FundamentalPlan(mark, direction, conviction, fair, mos))
<1> DEFINE px == Priced(mark)
           m  == Larger(mos, 5)
           f  == 100 * Priced(fair)
           p  == FundamentalPlan(mark, direction, conviction, fair, mos)
           sure == conviction >= 20
<1>1. px \in Nat \ {0} /\ f \in Nat
  BY DEF Priced, Larger
<1>2. m \in Nat /\ 5 <= m
  BY DEF Larger
<1>3. CASE sure /\ direction = "long"
  <2> DEFINE high == (100 + m) * px  stop == (100 - m) * px
  <2>1. /\ p.action = "buy" /\ p.entry = 100 * px
        /\ p.target = Larger(f, high) /\ p.stop = stop
    BY <1>3 DEF FundamentalPlan
  <2> HIDE DEF px, m, p, f
  <2>2. 104 * px < high /\ stop < 96 * px
    BY <1>1, <1>2, TimesGrows
  <2>3. high \in Int /\ stop \in Int
    BY <1>1, <1>2
  <2> HIDE DEF high, stop
  <2>4. high <= Larger(f, high) /\ Larger(f, high) \in Int
    BY <1>1, <2>3 DEF Larger
  <2>5. /\ 1001 * (100 * px) < 990 * Larger(f, high) /\ 1000 * stop < 999 * (100 * px)
        /\ 100 * px \in Nat /\ Larger(f, high) \in Nat
    BY <1>1, <2>2, <2>3, <2>4
  <2>6. Storable(p)
    BY <2>1, <2>3, <2>5, WideIsStorable
  <2> QED
    BY <2>6 DEF p
<1>4. CASE sure /\ direction = "short"
  <2> DEFINE low == (100 - m) * px  stop == (100 + m) * px
  <2>1. /\ p.action = "sell" /\ p.entry = 100 * px
        /\ p.target = Smaller(f, low) /\ p.stop = stop
    BY <1>4 DEF FundamentalPlan
  <2>2. p.target >= 0
    BY DEF PlanValid
  <2> HIDE DEF px, m, p, f
  <2>3. low < 96 * px /\ 104 * px < stop
    BY <1>1, <1>2, TimesGrows
  <2>4. low \in Int /\ stop \in Int
    BY <1>1, <1>2
  <2> HIDE DEF low, stop
  <2>5. Smaller(f, low) <= low /\ Smaller(f, low) \in Nat
    BY <1>1, <2>1, <2>2, <2>4 DEF Smaller
  <2>6. /\ 1010 * Smaller(f, low) < 999 * (100 * px) /\ 1000 * stop > 1001 * (100 * px)
        /\ 100 * px \in Nat
    BY <1>1, <2>3, <2>4, <2>5
  <2>7. Storable(p)
    BY <2>1, <2>4, <2>5, <2>6, WideIsStorable
  <2> QED
    BY <2>7 DEF p
<1>5. CASE ~(sure /\ direction = "long") /\ ~(sure /\ direction = "short")
  <2>1. p.action = "hold" /\ p.entry = 100 * px /\ p.target = 100 * px /\ p.stop = 100 * px
    BY <1>5 DEF FundamentalPlan
  <2> HIDE DEF px, p
  <2>2. Storable(p)
    BY <1>1, <2>1, WideIsStorable
  <2> QED
    BY <2>2 DEF p
<1> QED
  BY <1>3, <1>4, <1>5

\* Whatever the marks, z-scores and theses: a decision that the ledger cannot hold is one
\* for the plan of the persona panel.
LEMMA OffersAreStorable ==
    ASSUME NEW o \in Offers PROVE o.storable \/ o.team = "persona"
<1>1. PICK p \in ValidPlans : o.team = p.team /\ o.storable = Storable(p)
  BY DEF Offers
<1>2. CASE p \in QuantPlans
  BY <1>1, <1>2, QuantIsStorable, RoomAssumption DEF RoomAssumption, QuantPlans
<1>3. CASE p \in FundamentalPlans
  <2>1. PICK t \in Theses : p = FundamentalPlan(t.mark, t.direction, t.conviction, t.fair, t.mos)
    BY <1>3 DEF FundamentalPlans
  <2>2. t.mark \in Nat /\ t.direction \in Directions /\ t.conviction \in Nat /\ t.fair \in Nat /\ t.mos \in Int
    BY RoomAssumption DEF RoomAssumption
  <2>3. PlanValid(p)
    BY DEF ValidPlans
  <2> QED
    BY <1>1, <2>1, <2>2, <2>3, FundamentalIsStorable
<1>4. CASE p \in PersonaPlans
  <2>1. PICK panel \in Panels : p = PersonaPlan(panel)
    BY <1>4 DEF PersonaPlans
  <2>2. PersonaPlan(panel).team = "persona"
    BY Zenon DEF PersonaPlan
  <2> QED
    BY <1>1, <2>1, <2>2
<1> QED
  BY <1>2, <1>3, <1>4 DEF ValidPlans

\* Ledger, brief and outcome of a run agree on the decision, or the difference has a cause:
\* for any marks, theses and panels, and any confidence of the teams.
THEOREM BriefsAgree == Spec => []BriefAgreesWithLedger
<1>1. RoomInv => UnledgeredBriefHasCause
  <2> SUFFICES ASSUME RoomInv, room.brief # "none", room.decision \notin ledger
               PROVE  board.stored = "failed" \/ room.decision.chosen.team = "persona"
    BY DEF UnledgeredBriefHasCause
  <2>1. room.decision.made /\ board.stage = "answered" /\ room.decision = board.decision
    BY DEF RoomInv, RoomTells
  <2>2. room.decision.chosen \in Offers
    <3>1. room.decision \in Decisions
      BY DEF RoomInv, RoomTypeOK, Rooms
    <3>2. ~None.made
      BY DEF None
    <3>3. room.decision # None
      BY <2>1, <3>2
    <3>4. room.decision \in [made : {TRUE}, chosen : Offers, fallback : BOOLEAN]
      BY <3>1, <3>3 DEF Decisions
    <3> QED
      BY <3>4
  <2> QED
    BY <2>1, <2>2, OffersAreStorable DEF RoomInv, BoardShape
<1>2. RoomInv => OkRunKnowsItsRow
  BY DEF RoomInv, RoomShape, BoardShape, RoomTells, BoardDone, OkRunKnowsItsRow
<1> QED
  BY <1>1, <1>2, RoomInvHolds, PTL DEF BriefAgreesWithLedger

\* The degraded flag of the room is raised for whatever it stands for: for any answers of
\* the teams and of the board.
THEOREM DegradationIsTold == Spec => []DegradedIsTold
<1>1. RoomInv => CleanBriefIsWhole
  BY DEF RoomInv, RoomTells, CleanBriefIsWhole
<1>2. RoomInv => UndecidedIsDegraded
  BY DEF RoomInv, RoomTells, BoardDone, UndecidedIsDegraded
<1> QED
  BY <1>1, <1>2, RoomInvHolds, PTL DEF DegradedIsTold

-----------------------------------------------------------------------------
(* LlmBoot: the bill.                                                      *)

\* What one boot may cost: the cap, and the calls let in beside the last one.
BootCost == MonthlyCap + Overlap - 1

\* What a process has cost so far, at the most: a boot that is over counts in full, the
\* running one with what it has spent.
CostSoFar ==
    [p \in LlmProcesses |->
        IF p \in up THEN lives[p] * BootCost - BootCost + spend[p] ELSE lives[p] * BootCost]

Askings  == [primary : Nat, fallback : Nat, embed : Nat]
ChatsOf(p) == asking[p].primary + asking[p].fallback

BootTypeOK ==
    /\ up \subseteq LlmProcesses
    /\ spend \in [LlmProcesses -> Nat] /\ asking \in [LlmProcesses -> Askings]
    /\ lives \in [LlmProcesses -> Nat] /\ billed \in Int /\ unmetered \in Int

BootInv ==
    /\ BootTypeOK
    /\ \A p \in LlmProcesses :
        /\ p \notin up => spend[p] = 0 /\ asking[p] = NoCalls
        /\ CallsOf(p) <= Overlap /\ spend[p] + ChatsOf(p) <= BootCost
    /\ billed <= unmetered + Sum(0, CostSoFar, LlmProcesses)

\* The fold of the bound is a sum.
LEMMA BoundIsSum ==
    ASSUME BootTypeOK
    PROVE  FoldSet(LAMBDA p, n : lives[p] * (MonthlyCap + Overlap - 1) + n, unmetered, LlmProcesses)
             = Sum(unmetered, [p \in LlmProcesses |-> lives[p] * BootCost], LlmProcesses)
<1> DEFINE P == LlmProcesses
           f == [p \in P |-> lives[p] * BootCost]
           Rec(g) == g = [s \in SUBSET P |->
                            IF s = {} THEN unmetered
                            ELSE lives[CHOOSE x \in s : TRUE] * (MonthlyCap + Overlap - 1)
                                   + g[s \ {CHOOSE x \in s : TRUE}]]
           iter == CHOOSE g : Rec(g)
<1>1. \A p \in P : f[p] \in Int
  BY LlmBootAssumption DEF LlmBootAssumption, BootTypeOK, BootCost
<1>2. PICK g \in [SUBSET P -> Int] : Summing(g, unmetered, f, P)
  BY <1>1, LlmBootAssumption, SummingExists DEF LlmBootAssumption, BootTypeOK
<1>3. ASSUME NEW h PROVE Summing(h, unmetered, f, P) <=> Rec(h)
  <2>1. \A s \in SUBSET P : s # {} =>
           f[Picked(s)] = lives[CHOOSE x \in s : TRUE] * (MonthlyCap + Overlap - 1)
    BY PickedFromSet DEF Picked, BootCost
  <2> HIDE DEF f
  <2> QED
    BY <2>1 DEF Summing, Picked
<1>4. Summing(iter, unmetered, f, P)
  <2> HIDE DEF Rec
  <2> QED
    BY <1>2, <1>3
<1>5. FoldSet(LAMBDA p, n : lives[p] * (MonthlyCap + Overlap - 1) + n, unmetered, P) = iter[P]
  BY DEF FoldSet, MapThenFoldSet
<1> HIDE DEF iter, f
<1>6. Sum(unmetered, f, P) = iter[P]
  BY <1>4, LlmBootAssumption, SumIsLast DEF LlmBootAssumption
<1> QED
  BY <1>5, <1>6 DEF f

\* A boot more costs one boot more.
LEMMA OneMoreBoot == \A n, k \in Nat : n * k \in Int /\ (n + 1) * k = n * k + k
  OBVIOUS

\* What the costs so far bound, the costs after a step of p bound, if the step charges no
\* more than it adds to p's.
LEMMA StepIsPaid ==
    ASSUME BootInv, BootTypeOK', NEW p \in LlmProcesses, NEW d \in Int,
           \A q \in LlmProcesses : CostSoFar[q] \in Int /\ CostSoFar'[q] \in Int,
           \A q \in LlmProcesses \ {p} : CostSoFar'[q] = CostSoFar[q],
           billed' - unmetered' <= billed - unmetered + (CostSoFar'[p] - CostSoFar[p])
    PROVE  billed' <= unmetered' + Sum(0, CostSoFar', LlmProcesses)
<1> DEFINE P == LlmProcesses
<1>1. IsFiniteSet(P)
  BY LlmBootAssumption DEF LlmBootAssumption
<1>2. Sum(0, CostSoFar', P) = Sum(0, CostSoFar, P) + (CostSoFar'[p] - CostSoFar[p])
  BY <1>1, SumAtOnePlace
<1>3. Sum(0, CostSoFar, P) \in Int
  BY <1>1, SumAddsUp
<1>4. /\ billed \in Int /\ unmetered \in Int /\ billed' \in Int /\ unmetered' \in Int
      /\ CostSoFar'[p] \in Int /\ CostSoFar[p] \in Int
      /\ billed <= unmetered + Sum(0, CostSoFar, P)
  BY DEF BootInv, BootTypeOK
<1> QED
  BY <1>2, <1>3, <1>4

\* A step of p: it touches nothing of another process, keeps p within a boot's cost, and is
\* paid for by what it adds to the cost of p so far.
OwnStep(p) ==
    /\ spend' = [spend EXCEPT ![p] = spend'[p]] /\ spend'[p] \in Nat
    /\ asking' = [asking EXCEPT ![p] = asking'[p]] /\ asking'[p] \in Askings
    /\ lives' = [lives EXCEPT ![p] = lives'[p]] /\ lives'[p] \in Nat
    /\ up' \subseteq LlmProcesses /\ up' \ {p} = up \ {p}
    /\ billed' \in Int /\ unmetered' \in Int
WithinBoot(p) ==
    /\ p \notin up' => spend'[p] = 0 /\ asking'[p] = NoCalls
    /\ CallsOf(p)' <= Overlap /\ spend'[p] + ChatsOf(p)' <= BootCost
Paid(p) == billed' - unmetered' <= billed - unmetered + (CostSoFar'[p] - CostSoFar[p])

\* What the calls of p that have not ended become.
LEMMA CallsEnd ==
    ASSUME BootTypeOK, NEW p \in LlmProcesses, NEW hop \in {"primary", "fallback", "embed"},
           asking[p][hop] > 0, asking' = [asking EXCEPT ![p][hop] = @ - 1]
    PROVE  /\ asking' = [asking EXCEPT ![p] = asking'[p]] /\ asking'[p] \in Askings
           /\ CallsOf(p)' = CallsOf(p) - 1
           /\ ChatsOf(p)' = IF hop = "embed" THEN ChatsOf(p) ELSE ChatsOf(p) - 1
<1> USE DEF BootTypeOK, Askings, CallsOf, ChatsOf
<1>1. CASE hop = "primary"
  BY <1>1
<1>2. CASE hop = "fallback"
  BY <1>2
<1>3. CASE hop = "embed"
  BY <1>3
<1> QED
  BY <1>1, <1>2, <1>3

LEMMA ChatBegins ==
    ASSUME BootTypeOK, NEW p \in LlmProcesses, asking' = [asking EXCEPT ![p].primary = @ + 1]
    PROVE  /\ asking' = [asking EXCEPT ![p] = asking'[p]] /\ asking'[p] \in Askings
           /\ CallsOf(p)' = CallsOf(p) + 1 /\ ChatsOf(p)' = ChatsOf(p) + 1
<1>1. asking \in [LlmProcesses -> Askings] /\ asking[p] \in Askings
  BY DEF BootTypeOK
<1>2. /\ asking' = [asking EXCEPT ![p] = asking'[p]] /\ asking'[p] \in Askings
      /\ asking'[p].primary = asking[p].primary + 1
      /\ asking'[p].fallback = asking[p].fallback /\ asking'[p].embed = asking[p].embed
  BY <1>1 DEF Askings
<1> QED
  BY <1>1, <1>2 DEF Askings, CallsOf, ChatsOf

LEMMA EmbedBegins ==
    ASSUME BootTypeOK, NEW p \in LlmProcesses, asking' = [asking EXCEPT ![p].embed = @ + 1]
    PROVE  /\ asking' = [asking EXCEPT ![p] = asking'[p]] /\ asking'[p] \in Askings
           /\ CallsOf(p)' = CallsOf(p) + 1 /\ ChatsOf(p)' = ChatsOf(p)
<1>1. asking \in [LlmProcesses -> Askings] /\ asking[p] \in Askings
  BY DEF BootTypeOK
<1>2. /\ asking' = [asking EXCEPT ![p] = asking'[p]] /\ asking'[p] \in Askings
      /\ asking'[p].embed = asking[p].embed + 1
      /\ asking'[p].primary = asking[p].primary /\ asking'[p].fallback = asking[p].fallback
  BY <1>1 DEF Askings
<1> QED
  BY <1>1, <1>2 DEF Askings, CallsOf, ChatsOf

LEMMA CallsMove ==
    ASSUME BootTypeOK, NEW p \in LlmProcesses, asking[p].primary > 0,
           asking' = [asking EXCEPT ![p].primary = @ - 1, ![p].fallback = @ + 1]
    PROVE  /\ asking' = [asking EXCEPT ![p] = asking'[p]] /\ asking'[p] \in Askings
           /\ CallsOf(p)' = CallsOf(p) /\ ChatsOf(p)' = ChatsOf(p)
  BY DEF BootTypeOK, Askings, CallsOf, ChatsOf

LEMMA CallCounts ==
    ASSUME BootTypeOK, NEW p \in LlmProcesses
    PROVE  /\ ChatsOf(p) \in Nat /\ asking[p].embed \in Nat /\ CallsOf(p) = ChatsOf(p) + asking[p].embed
           /\ \A hop \in {"primary", "fallback", "embed"} : asking[p][hop] \in Nat
           /\ asking[p] = NoCalls => \A hop \in {"primary", "fallback", "embed"} : asking[p][hop] = 0
<1>1. asking[p] \in Askings
  BY DEF BootTypeOK
<1> QED
  BY <1>1 DEF Askings, CallsOf, ChatsOf, NoCalls

\* The steps of a running process that keep its life.
LiveStep(p) ==
    \/ AskLlm(p) \/ EmbedLlm(p) \/ FallBack(p) \/ EndEmbed(p) \/ WriteRow(p)
    \/ \E hop \in {"primary", "fallback"} : AnswerLlm(p, hop) \/ FailLlm(p, hop)
OneStep(p) == Boot(p) \/ KillLlm(p) \/ LiveStep(p)

LEMMA StepsArePaid ==
    ASSUME BootInv, NEW p \in LlmProcesses, OneStep(p)
    PROVE  OwnStep(p) /\ WithinBoot(p) /\ Paid(p)
<1> DEFINE K == BootCost  L == lives[p] * K
<1>0. MonthlyCap \in Nat \ {0} /\ Overlap \in Nat \ {0} /\ K \in Nat /\ K = MonthlyCap + Overlap - 1
  BY LlmBootAssumption DEF LlmBootAssumption, BootCost
<1>1. /\ BootTypeOK /\ lives[p] \in Nat /\ spend[p] \in Nat /\ asking[p] \in Askings
      /\ billed \in Int /\ unmetered \in Int
      /\ p \notin up => spend[p] = 0 /\ asking[p] = NoCalls
      /\ CallsOf(p) <= Overlap /\ spend[p] + ChatsOf(p) <= K
  BY DEF BootInv, BootTypeOK
<1>c. /\ ChatsOf(p) \in Nat /\ asking[p].embed \in Nat /\ CallsOf(p) = ChatsOf(p) + asking[p].embed
      /\ \A hop \in {"primary", "fallback", "embed"} : asking[p][hop] > 0 => p \in up
  BY <1>1, CallCounts
<1>2. L \in Int /\ (lives[p] + 1) * K = L + K
  BY <1>0, <1>1, OneMoreBoot
<1>3. CostSoFar[p] = IF p \in up THEN L - K + spend[p] ELSE L
  BY DEF CostSoFar
<1>4. CostSoFar'[p] = IF p \in up' THEN lives'[p] * K - K + spend'[p] ELSE lives'[p] * K
  BY DEF CostSoFar, BootCost
<1>5. CASE Boot(p)
  <2>1. /\ spend' = spend /\ asking' = asking /\ billed' = billed /\ unmetered' = unmetered
        /\ p \notin up /\ up' \in {up, up \cup {p}}
        /\ lives' = [lives EXCEPT ![p] = @ + 1] /\ lives'[p] = lives[p] + 1
    BY <1>1, <1>5 DEF Boot, BootTypeOK
  <2>2. OwnStep(p)
    BY <1>1, <2>1 DEF OwnStep, BootTypeOK
  <2>3. lives'[p] * K = L + K
    BY <1>2, <2>1
  <2>c. CallsOf(p)' = CallsOf(p) /\ ChatsOf(p)' = ChatsOf(p)
    BY <2>1 DEF CallsOf, ChatsOf
  <2> HIDE DEF L, K
  <2>4. CostSoFar'[p] \in {L + K, L} /\ CostSoFar[p] = L
    <3>1. spend'[p] = 0
      BY <1>1, <2>1
    <3>2. CASE p \in up'
      BY <1>0, <1>2, <1>3, <1>4, <2>1, <2>3, <3>1, <3>2
    <3>3. CASE p \notin up'
      BY <1>3, <1>4, <2>1, <2>3, <3>3
    <3> QED
      BY <3>2, <3>3
  <2>5. WithinBoot(p)
    BY <1>1, <2>1, <2>c DEF WithinBoot, K
  <2> QED
    BY <1>0, <1>1, <1>2, <2>1, <2>2, <2>4, <2>5 DEF Paid, K
<1>6. CASE KillLlm(p)
  <2>1. /\ p \in up /\ up' = up \ {p} /\ lives' = lives
        /\ spend' = [spend EXCEPT ![p] = 0] /\ asking' = [asking EXCEPT ![p] = NoCalls]
        /\ billed' = billed + ChatsOf(p) + asking[p].embed
        /\ unmetered' = unmetered + asking[p].embed
    BY <1>6 DEF KillLlm, ChatsOf
  <2>2. /\ spend'[p] = 0 /\ asking'[p] = NoCalls /\ NoCalls \in Askings
        /\ CallsOf(p)' = 0 /\ ChatsOf(p)' = 0
    BY <1>1, <2>1 DEF BootTypeOK, NoCalls, Askings, CallsOf, ChatsOf
  <2>3. OwnStep(p)
    BY <1>1, <1>c, <2>1, <2>2 DEF OwnStep, BootTypeOK
  <2>4. CostSoFar'[p] = L /\ CostSoFar[p] = L - K + spend[p]
    BY <1>3, <1>4, <2>1
  <2> HIDE DEF L, K
  <2>5. WithinBoot(p)
    BY <1>0, <2>2 DEF WithinBoot, K
  <2> QED
    BY <1>0, <1>1, <1>2, <1>c, <2>1, <2>3, <2>4, <2>5 DEF Paid, K
<1>7. CASE LiveStep(p)
  <2>0. lives' = lives /\ up' = up
    BY <1>7 DEF LiveStep, AskLlm, EmbedLlm, FallBack, EndEmbed, WriteRow, AnswerLlm, FailLlm
  <2>k. CostSoFar[p] \in Int /\ (spend' = spend => CostSoFar'[p] = CostSoFar[p])
    BY <1>0, <1>1, <1>2, <1>3, <1>4, <2>0
  \* What has to be shown of a step that records nothing.
  <2>s. ASSUME spend' = spend, asking' = [asking EXCEPT ![p] = asking'[p]], asking'[p] \in Askings,
               billed' \in Int, unmetered' \in Int, billed' - unmetered' <= billed - unmetered,
               p \in up, CallsOf(p)' <= Overlap, spend[p] + ChatsOf(p)' <= K
        PROVE  OwnStep(p) /\ WithinBoot(p) /\ Paid(p)
    <3>1. OwnStep(p)
      BY <1>1, <2>0, <2>s DEF OwnStep, BootTypeOK
    <3>2. WithinBoot(p)
      BY <2>0, <2>s DEF WithinBoot
    <3>3. Paid(p)
      BY <1>1, <2>k, <2>s DEF Paid
    <3> QED
      BY <3>1, <3>2, <3>3
  <2>c. ASSUME ChargeUnmetered
        PROVE  billed' \in Int /\ unmetered' \in Int /\ billed' - unmetered' = billed - unmetered
    BY <1>1, <2>c DEF ChargeUnmetered
  <2>1. CASE AskLlm(p)
    <3>1. /\ spend' = spend /\ asking' = [asking EXCEPT ![p].primary = @ + 1] /\ p \in up
          /\ spend[p] < MonthlyCap /\ CallsOf(p) < Overlap /\ billed' = billed /\ unmetered' = unmetered
      BY <2>1 DEF AskLlm, Admitted, WithinCap
    <3>2. /\ asking' = [asking EXCEPT ![p] = asking'[p]] /\ asking'[p] \in Askings
          /\ CallsOf(p)' = CallsOf(p) + 1 /\ ChatsOf(p)' = ChatsOf(p) + 1
      BY <1>1, <3>1, ChatBegins
    <3>3. CallsOf(p)' <= Overlap /\ spend[p] + ChatsOf(p)' <= K
      BY <1>0, <1>1, <1>c, <3>1, <3>2
    <3> QED
      BY <1>1, <2>s, <3>1, <3>2, <3>3
  <2>2. CASE EmbedLlm(p)
    <3>1. /\ spend' = spend /\ asking' = [asking EXCEPT ![p].embed = @ + 1] /\ p \in up
          /\ CallsOf(p) < Overlap /\ billed' = billed /\ unmetered' = unmetered
      BY <2>2 DEF EmbedLlm, Admitted
    <3>2. /\ asking' = [asking EXCEPT ![p] = asking'[p]] /\ asking'[p] \in Askings
          /\ CallsOf(p)' = CallsOf(p) + 1 /\ ChatsOf(p)' = ChatsOf(p)
      BY <1>1, <3>1, EmbedBegins
    <3>3. CallsOf(p)' <= Overlap /\ spend[p] + ChatsOf(p)' <= K
      BY <1>0, <1>1, <1>c, <3>1, <3>2
    <3> QED
      BY <1>1, <2>s, <3>1, <3>2, <3>3
  <2>3. CASE FallBack(p)
    <3>1. /\ spend' = spend /\ asking[p].primary > 0 /\ ChargeUnmetered
          /\ asking' = [asking EXCEPT ![p].primary = @ - 1, ![p].fallback = @ + 1]
      BY <2>3 DEF FallBack
    <3>2. /\ asking' = [asking EXCEPT ![p] = asking'[p]] /\ asking'[p] \in Askings
          /\ CallsOf(p)' = CallsOf(p) /\ ChatsOf(p)' = ChatsOf(p)
      BY <1>1, <3>1, CallsMove
    <3>3. p \in up
      BY <1>c, <3>1
    <3> QED
      BY <1>1, <2>c, <2>s, <3>1, <3>2, <3>3
  <2>4. ASSUME NEW hop \in {"primary", "fallback"}, AnswerLlm(p, hop)
        PROVE  OwnStep(p) /\ WithinBoot(p) /\ Paid(p)
    <3>1. /\ asking[p][hop] > 0 /\ spend' = [spend EXCEPT ![p] = @ + 1]
          /\ asking' = [asking EXCEPT ![p][hop] = @ - 1] /\ billed' = billed + 1
          /\ unmetered' = unmetered
      BY <2>4 DEF AnswerLlm
    <3>2. /\ asking' = [asking EXCEPT ![p] = asking'[p]] /\ asking'[p] \in Askings
          /\ CallsOf(p)' = CallsOf(p) - 1 /\ ChatsOf(p)' = ChatsOf(p) - 1
      BY <1>1, <3>1, CallsEnd
    <3>3. spend'[p] = spend[p] + 1 /\ p \in up
      BY <1>1, <1>c, <3>1 DEF BootTypeOK
    <3>4. OwnStep(p)
      BY <1>1, <2>0, <3>1, <3>2, <3>3 DEF OwnStep, BootTypeOK
    <3>5. CostSoFar'[p] = CostSoFar[p] + 1
      <4> HIDE DEF L, K
      <4> QED
        BY <1>0, <1>1, <1>2, <1>3, <1>4, <2>0, <3>3 DEF L
    <3>6. WithinBoot(p)
      BY <1>0, <1>1, <1>c, <2>0, <3>2, <3>3 DEF WithinBoot
    <3> QED
      BY <1>1, <2>k, <3>1, <3>4, <3>5, <3>6 DEF Paid
  <2>5. ASSUME NEW hop \in {"primary", "fallback", "embed"}, spend' = spend, asking[p][hop] > 0,
               asking' = [asking EXCEPT ![p][hop] = @ - 1], ChargeUnmetered
        PROVE  OwnStep(p) /\ WithinBoot(p) /\ Paid(p)
    <3>1. /\ asking' = [asking EXCEPT ![p] = asking'[p]] /\ asking'[p] \in Askings
          /\ CallsOf(p)' = CallsOf(p) - 1 /\ ChatsOf(p)' \in {ChatsOf(p), ChatsOf(p) - 1}
      BY <1>1, <2>5, CallsEnd
    <3>2. CallsOf(p)' <= Overlap /\ spend[p] + ChatsOf(p)' <= K /\ p \in up
      BY <1>0, <1>1, <1>c, <2>5, <3>1
    <3> QED
      BY <1>1, <2>5, <2>c, <2>s, <3>1, <3>2
  <2>6. ASSUME NEW hop \in {"primary", "fallback"}, FailLlm(p, hop)
        PROVE  OwnStep(p) /\ WithinBoot(p) /\ Paid(p)
    BY <2>5, <2>6 DEF FailLlm
  <2>7. CASE EndEmbed(p)
    <3>1. /\ spend' = spend /\ asking[p]["embed"] > 0 /\ ChargeUnmetered
          /\ asking' = [asking EXCEPT ![p]["embed"] = @ - 1]
      BY <2>7 DEF EndEmbed
    <3> QED
      BY <2>5, <3>1
  <2>8. CASE WriteRow(p)
    <3>1. spend' = spend /\ asking' = asking /\ billed' = billed /\ unmetered' = unmetered
      BY <2>8 DEF WriteRow
    <3>2. OwnStep(p)
      BY <1>1, <2>0, <3>1 DEF OwnStep, BootTypeOK
    <3>3. WithinBoot(p)
      BY <1>1, <2>0, <3>1 DEF WithinBoot, CallsOf, ChatsOf
    <3> QED
      BY <1>1, <2>k, <3>1, <3>2, <3>3 DEF Paid
  <2> QED
    BY <1>7, <2>1, <2>2, <2>3, <2>4, <2>6, <2>7, <2>8 DEF LiveStep
<1> QED
  BY <1>5, <1>6, <1>7 DEF OneStep

\* BootInv is inductive.
LEMMA BootInvHolds == BootSpec => []BootInv
<1> DEFINE P == LlmProcesses  K == BootCost
<1>0. IsFiniteSet(P) /\ MonthlyCap \in Nat \ {0} /\ Overlap \in Nat \ {0} /\ K \in Nat
  BY LlmBootAssumption DEF LlmBootAssumption, BootCost
<1>1. BootInit => BootInv
  <2> SUFFICES ASSUME BootInit PROVE BootInv
    OBVIOUS
  <2>1. BootTypeOK
    BY DEF BootInit, BootTypeOK, NoCalls, Askings
  <2>c. \A p \in P : CallsOf(p) = 0 /\ ChatsOf(p) = 0
    BY DEF BootInit, CallsOf, ChatsOf, NoCalls
  <2>2. \A p \in P : CostSoFar[p] = 0
    BY <1>0, OneMoreBoot DEF BootInit, CostSoFar
  <2>3. Sum(0, CostSoFar, P) \in Int /\ Sum(0, CostSoFar, P) >= 0
    BY <1>0, <2>2, SumAddsUp, SumOfNats
  <2> QED
    BY <1>0, <2>1, <2>2, <2>3, <2>c DEF BootInit, BootInv
<1>2. BootInv /\ [BootNext]_bootVars => BootInv'
  <2> SUFFICES ASSUME BootInv, [BootNext]_bootVars PROVE BootInv'
    OBVIOUS
  <2>0. BootTypeOK /\ \A p \in P : CostSoFar[p] \in Int
    BY <1>0, OneMoreBoot DEF BootInv, BootTypeOK, CostSoFar
  <2>1. ASSUME NEW p \in P, OneStep(p) PROVE BootInv'
    <3>1. OwnStep(p) /\ WithinBoot(p) /\ Paid(p)
      BY <2>1, StepsArePaid
    <3>2. BootTypeOK'
      BY <2>0, <3>1 DEF BootTypeOK, OwnStep
    <3>3. \A q \in P \ {p} : /\ q \in up' <=> q \in up
                             /\ lives'[q] = lives[q] /\ spend'[q] = spend[q] /\ asking'[q] = asking[q]
      BY <2>0, <3>1 DEF BootTypeOK, OwnStep
    <3>4. (\A q \in P : CostSoFar[q] \in Int)'
      BY <1>0, <3>2, OneMoreBoot DEF BootTypeOK, CostSoFar
    <3>5. \A q \in P \ {p} : CostSoFar'[q] = CostSoFar[q]
      BY <3>3 DEF CostSoFar, BootCost
    <3>6. billed' <= unmetered' + Sum(0, CostSoFar', P)
      BY <2>0, <3>1, <3>2, <3>4, <3>5, StepIsPaid DEF Paid
    <3>7. \A q \in P : /\ q \notin up' => spend'[q] = 0 /\ asking'[q] = NoCalls
                       /\ CallsOf(q)' <= Overlap /\ spend'[q] + ChatsOf(q)' <= K
      <4>1. \A q \in P \ {p} : CallsOf(q)' = CallsOf(q) /\ ChatsOf(q)' = ChatsOf(q)
        BY <3>3 DEF CallsOf, ChatsOf
      <4> QED
        BY <3>1, <3>3, <4>1 DEF WithinBoot, BootInv
    <3> QED
      BY <3>2, <3>6, <3>7 DEF BootInv, BootCost
  <2>2. CASE UNCHANGED bootVars
    <3>1. /\ up' = up /\ spend' = spend /\ asking' = asking /\ lives' = lives
          /\ billed' = billed /\ unmetered' = unmetered
      BY <2>2 DEF bootVars
    <3>2. CostSoFar' = CostSoFar
      BY <3>1 DEF CostSoFar, BootCost
    <3> QED
      BY <3>1, <3>2 DEF BootInv, BootTypeOK, BootCost, CallsOf, ChatsOf
  <2> QED
    BY <2>1, <2>2 DEF BootNext, OneStep, LiveStep
<1> QED
  BY <1>1, <1>2, PTL DEF BootSpec

\* What the providers charge the system, without the embeds and the attempts that brought
\* no answer, is bounded by the number of boots, for any processes, cap and overlap: never
\* by the cap alone.
THEOREM BillFollowsBoots == BootSpec => []BillIsBounded
<1>1. BootInv => BillIsBounded
  <2> SUFFICES ASSUME BootInv PROVE BillIsBounded
    OBVIOUS
  <2> DEFINE P == LlmProcesses  K == BootCost  full == [p \in P |-> lives[p] * K]
  <2>0. IsFiniteSet(P) /\ K \in Nat
    BY LlmBootAssumption DEF LlmBootAssumption, BootCost
  <2>1. BootTypeOK /\ unmetered \in Int /\ billed \in Int
    BY DEF BootInv, BootTypeOK
  <2>2. \A p \in P : CostSoFar[p] \in Int /\ full[p] \in Int /\ CostSoFar[p] <= full[p]
    <3> TAKE p \in P
    <3>1. lives[p] * K \in Int /\ spend[p] \in Nat /\ ChatsOf(p) \in Nat /\ spend[p] + ChatsOf(p) <= K
      BY <2>0, <2>1, CallCounts, OneMoreBoot DEF BootInv, BootTypeOK
    <3> DEFINE L == lives[p] * K
    <3>2. CostSoFar[p] = (IF p \in up THEN L - K + spend[p] ELSE L) /\ full[p] = L /\ L \in Int
      BY <3>1 DEF CostSoFar
    <3> HIDE DEF L, K
    <3> QED
      BY <2>0, <3>1, <3>2 DEF K
  <2> HIDE DEF full
  <2>3. Sum(0, CostSoFar, P) <= Sum(0, full, P)
    BY <2>0, <2>2, SumGrows
  <2>4. Sum(unmetered, full, P) = unmetered + Sum(0, full, P)
    BY <2>0, <2>1, <2>2, SumFrom
  <2>5. Sum(0, CostSoFar, P) \in Int /\ Sum(0, full, P) \in Int
    BY <2>0, <2>2, SumAddsUp
  <2>6. billed <= Sum(unmetered, full, P)
    BY <2>1, <2>3, <2>4, <2>5 DEF BootInv
  <2> QED
    BY <2>1, <2>6, BoundIsSum DEF BillIsBounded, full
<1> QED
  BY <1>1, BootInvHolds, PTL

-----------------------------------------------------------------------------
(* FutuSnapshot: what the total tells.                                     *)

SnapTypeOK ==
    /\ purse \in [Accounts -> [cash : Int, stock : Int]]
    /\ request \in {"idle", "refused", "listing", "asking", "failed", "returned"}
    /\ turn \in Nat \ {0} /\ moves \in Nat /\ torn \in BOOLEAN
    /\ unasked \subseteq Accounts /\ listed \in [Accounts -> Int]
    /\ leftOut \subseteq Nat /\ IsFiniteSet(shown)
    /\ \A e \in shown : e.account \in Accounts /\ e.nav \in Int /\ e.stock \in Int

\* Who is shown: each account once, with the net value it was listed with, and that of every
\* endpoint that was come to and not passed over.
IsShown(a) == \E e \in shown : e.account = a
Present(a) ==
    /\ At[a] \notin leftOut
    /\ At[a] < turn \/ (request = "asking" /\ At[a] = turn /\ a \notin unasked)
ShownInv ==
    /\ \A e, f \in shown : e.account = f.account => e = f
    /\ request \in {"idle", "listing", "asking", "returned"} =>
          /\ \A e \in shown : e.nav = listed[e.account]
          /\ \A a \in Accounts : IsShown(a) <=> Present(a)
          /\ \A d \in leftOut : d < turn
    /\ request = "idle" => turn = 1
    /\ request = "asking" => turn \in OpenDs /\ unasked \subseteq AccountsAt(turn)
    /\ request = "returned" => turn \notin OpenDs

\* Without a move the accounts of the turn are as they were listed; if none of them owes cash
\* or stock either, a position is no greater than the net value it is shown with.
StillInv ==
    moves = 0 =>
        /\ request = "asking" => \A a \in AccountsAt(turn) : listed[a] = Net(a)
        /\ ~Indebted => \A e \in shown : e.nav >= 0 /\ Size(e) <= e.nav

\* What the snapshot would come to if nothing moved any more, and what the owner has.
Foreseen == [a \in Accounts |-> IF HasListed(At[a]) THEN listed[a] * Dollars[a] ELSE Net(a) * Dollars[a]]
Owned    == [a \in Accounts |-> Net(a) * Dollars[a]]
MoneyInv ==
    request \in {"idle", "listing", "asking", "returned"} /\ leftOut = {} /\ ~torn
        => Sum(0, Foreseen, Accounts) = Sum(0, Owned, Accounts)

SnapInv == SnapTypeOK /\ ShownInv /\ StillInv /\ MoneyInv

\* The folds of the properties are sums.
LEMMA TotalIsSum ==
    ASSUME SnapTypeOK PROVE TotalNav = Sum(0, [e \in shown |-> e.nav], shown)
<1> DEFINE f == [e \in shown |-> e.nav]
           Rec(g) == g = [s \in SUBSET shown |->
                            IF s = {} THEN 0
                            ELSE (CHOOSE x \in s : TRUE).nav + g[s \ {CHOOSE x \in s : TRUE}]]
           iter == CHOOSE g : Rec(g)
<1>1. \A e \in shown : f[e] \in Int
  BY DEF SnapTypeOK
<1>2. PICK g \in [SUBSET shown -> Int] : Summing(g, 0, f, shown)
  <2>1. IsFiniteSet(shown) /\ 0 \in Int
    BY DEF SnapTypeOK
  <2> HIDE DEF f
  <2> QED
    BY <1>1, <2>1, SummingExists, Zenon
<1>3. ASSUME NEW h PROVE Summing(h, 0, f, shown) <=> Rec(h)
  <2>1. \A s \in SUBSET shown : s # {} => f[Picked(s)] = (CHOOSE x \in s : TRUE).nav
    BY PickedFromSet DEF Picked
  <2> HIDE DEF f
  <2> QED
    BY <2>1 DEF Summing, Picked
<1>4. Summing(iter, 0, f, shown)
  <2> HIDE DEF Rec
  <2> QED
    BY <1>2, <1>3
<1>5. TotalNav = iter[shown]
  BY DEF TotalNav, FoldSet, MapThenFoldSet
<1> HIDE DEF iter, f
<1>6. Sum(0, f, shown) = iter[shown]
  BY <1>4, SumIsLast DEF SnapTypeOK
<1> QED
  BY <1>5, <1>6 DEF f

LEMMA WealthIsSum ==
    ASSUME SnapTypeOK PROVE Wealth(Accounts) = Sum(0, Owned, Accounts)
<1> DEFINE Rec(g) == g = [s \in SUBSET Accounts |->
                            IF s = {} THEN 0
                            ELSE Net(CHOOSE x \in s : TRUE) * Dollars[CHOOSE x \in s : TRUE]
                                   + g[s \ {CHOOSE x \in s : TRUE}]]
           iter == CHOOSE g : Rec(g)
<1>0. IsFiniteSet(Accounts)
  BY SnapshotAssumption DEF SnapshotAssumption
<1>1. \A a \in Accounts : Owned[a] \in Int
  BY SnapshotAssumption DEF SnapshotAssumption, SnapTypeOK, Owned, Net
<1>2. PICK g \in [SUBSET Accounts -> Int] : Summing(g, 0, Owned, Accounts)
  <2>1. 0 \in Int
    OBVIOUS
  <2> QED
    BY <1>0, <1>1, <2>1, SummingExists, Zenon
<1>3. ASSUME NEW h PROVE Summing(h, 0, Owned, Accounts) <=> Rec(h)
  <2>1. \A s \in SUBSET Accounts : s # {} =>
           Owned[Picked(s)] = Net(CHOOSE x \in s : TRUE) * Dollars[CHOOSE x \in s : TRUE]
    BY PickedFromSet DEF Picked, Owned
  <2> QED
    BY <2>1 DEF Summing, Picked
<1>4. Summing(iter, 0, Owned, Accounts)
  <2> HIDE DEF Rec
  <2> QED
    BY <1>2, <1>3
<1>5. Wealth(Accounts) = iter[Accounts]
  BY DEF Wealth, FoldSet, MapThenFoldSet
<1> HIDE DEF iter
<1>6. Sum(0, Owned, Accounts) = iter[Accounts]
  BY <1>0, <1>4, SumIsLast
<1> QED
  BY <1>5, <1>6

\* The assumptions, and what follows from the types.
LEMMA SnapFacts ==
    ASSUME SnapTypeOK
    PROVE  /\ IsFiniteSet(Accounts) /\ OpenDs \subseteq Nat \ {0} /\ DollarUnit \in Nat
           /\ \A a \in Accounts : /\ At[a] \in OpenDs /\ Dollars[a] \in Nat /\ listed[a] \in Int
                                  /\ purse[a].cash \in Int /\ purse[a].stock \in Int
                                  /\ Net(a) \in Int /\ Net(a) = purse[a].cash + purse[a].stock
           /\ \A t \in (Nat \ {0}) \ OpenDs : \A d \in OpenDs : d < t
<1>1. OpenDs = 1..Cardinality(OpenDs) /\ Cardinality(OpenDs) \in Nat
  BY SnapshotAssumption, FS_CardinalityType DEF SnapshotAssumption
<1>2. \A a \in Accounts : purse[a].cash \in Int /\ purse[a].stock \in Int /\ listed[a] \in Int
  BY DEF SnapTypeOK
<1>3. /\ OpenDs \subseteq Nat \ {0}
      /\ \A t \in (Nat \ {0}) \ OpenDs : \A d \in OpenDs : d < t
  <2> DEFINE n == Cardinality(OpenDs)
  <2>1. \A d : d \in OpenDs <=> d \in Int /\ 1 <= d /\ d <= n
    BY <1>1
  <2> HIDE DEF n
  <2> QED
    BY <1>1, <2>1 DEF n
<1> QED
  BY <1>2, <1>3, SnapshotAssumption DEF SnapshotAssumption, Net

\* A trade keeps the net value of its account, a transfer those of the others.
Purse(c, s) == [cash |-> c, stock |-> s]
LEMMA TradeKeepsNet ==
    ASSUME SnapTypeOK, NEW a \in Accounts, Trade(a)
    PROVE  /\ purse' \in [Accounts -> [cash : Int, stock : Int]]
           /\ \A x \in Accounts : Net(x)' = Net(x)
<1> DEFINE c == purse[a].cash  s == purse[a].stock
<1>1. c \in Int /\ s \in Int /\ purse[a] = Purse(c, s)
  BY DEF SnapTypeOK, Purse
<1>2. \/ purse' = [purse EXCEPT ![a] = Purse(c - 1, s + 1)]
      \/ purse' = [purse EXCEPT ![a] = Purse(c + 1, s - 1)]
  BY <1>1 DEF Trade, SnapTypeOK, Purse
<1>3. PICK i \in Int, j \in Int : i + j = c + s /\ purse' = [purse EXCEPT ![a] = Purse(i, j)]
  <2> HIDE DEF c, s
  <2>1. /\ c - 1 \in Int /\ s + 1 \in Int /\ (c - 1) + (s + 1) = c + s
        /\ c + 1 \in Int /\ s - 1 \in Int /\ (c + 1) + (s - 1) = c + s
    BY <1>1
  <2> QED
    BY <1>2, <2>1
<1>4. Purse(i, j) \in [cash : Int, stock : Int] /\ Purse(i, j).cash = i /\ Purse(i, j).stock = j
  BY DEF Purse
<1>5. purse' \in [Accounts -> [cash : Int, stock : Int]] /\ purse'[a] = Purse(i, j)
      /\ \A x \in Accounts \ {a} : purse'[x] = purse[x]
  BY <1>3, <1>4 DEF SnapTypeOK
<1>6. purse'[a].cash = i /\ purse'[a].stock = j
  BY <1>4, <1>5
<1> QED
  BY <1>3, <1>5, <1>6 DEF Net

LEMMA TransferMovesNet ==
    ASSUME SnapTypeOK, NEW a \in Accounts, NEW b \in Accounts, Transfer(a, b)
    PROVE  /\ purse' \in [Accounts -> [cash : Int, stock : Int]]
           /\ a # b /\ Net(a)' = Net(a) - 1 /\ Net(b)' = Net(b) + 1
           /\ \A x \in Accounts \ {a, b} : Net(x)' = Net(x)
<1> DEFINE c == purse[a].cash  d == purse[b].cash  s == purse[a].stock  t == purse[b].stock
<1>1. /\ c \in Int /\ s \in Int /\ d \in Int /\ t \in Int
      /\ purse[a] = Purse(c, s) /\ purse[b] = Purse(d, t)
  BY DEF SnapTypeOK, Purse
<1>2. a # b
      /\ purse' = [[purse EXCEPT ![a] = Purse(c - 1, s)] EXCEPT ![b] = Purse(d + 1, t)]
  <2> DEFINE less == [purse EXCEPT ![a].cash = @ - 1]
  <2>1. a # b /\ purse' = [less EXCEPT ![b].cash = @ + 1]
    BY DEF Transfer
  <2>2. less = [purse EXCEPT ![a] = Purse(c - 1, s)]
    <3>1. less = [purse EXCEPT ![a] = [purse[a] EXCEPT !.cash = @ - 1]]
      BY Zenon
    <3>2. [Purse(c, s) EXCEPT !.cash = @ - 1] = Purse(c - 1, s)
      BY DEF Purse
    <3> HIDE DEF less, c, s
    <3> QED
      BY <1>1, <3>1, <3>2, Zenon
  <2>3. less[b] = Purse(d, t)
    BY <1>1, <2>1, <2>2 DEF SnapTypeOK
  <2>4. [Purse(d, t) EXCEPT !.cash = @ + 1] = Purse(d + 1, t)
    BY DEF Purse
  <2>5. [less EXCEPT ![b].cash = @ + 1] = [less EXCEPT ![b] = [less[b] EXCEPT !.cash = @ + 1]]
    BY Zenon
  <2> HIDE DEF less
  <2>6. purse' = [less EXCEPT ![b] = Purse(d + 1, t)]
    BY <2>1, <2>3, <2>4, <2>5
  <2> QED
    BY <2>1, <2>2, <2>6
<1>3. /\ Purse(c - 1, s) \in [cash : Int, stock : Int]
      /\ Purse(d + 1, t) \in [cash : Int, stock : Int]
      /\ Purse(c - 1, s).cash = c - 1 /\ Purse(c - 1, s).stock = s
      /\ Purse(d + 1, t).cash = d + 1 /\ Purse(d + 1, t).stock = t
  BY <1>1, <1>2 DEF Purse
<1>4. /\ purse' \in [Accounts -> [cash : Int, stock : Int]]
      /\ purse'[a] = Purse(c - 1, s) /\ purse'[b] = Purse(d + 1, t)
      /\ \A x \in Accounts \ {a, b} : purse'[x] = purse[x]
  BY <1>2, <1>3 DEF SnapTypeOK
<1>5. /\ purse'[a].cash = c - 1 /\ purse'[a].stock = s
      /\ purse'[b].cash = d + 1 /\ purse'[b].stock = t
  BY <1>3, <1>4
<1> QED
  BY <1>1, <1>2, <1>4, <1>5 DEF Net

\* Each part of SnapInv is kept by every step.
LEMMA SnapTyped ==
    ASSUME SnapTypeOK, ShownInv, [SnapNext]_snapVars PROVE SnapTypeOK'
<1>1. CASE AskSnapshot \/ NextClient \/ OneRaises \/ Returns \/ UNCHANGED snapVars
  <2>1. UNCHANGED <<purse, unasked, listed, shown, leftOut, torn, moves>>
    BY <1>1 DEF AskSnapshot, NextClient, OneRaises, Returns, snapVars
  <2>2. /\ request' \in {"idle", "refused", "listing", "asking", "failed", "returned"}
        /\ turn' \in Nat \ {0}
    BY <1>1 DEF AskSnapshot, NextClient, OneRaises, Returns, snapVars, SnapTypeOK
  <2> QED
    BY <2>1, <2>2 DEF SnapTypeOK
<1>2. CASE ListAccounts
  <2>1. listed' \in [Accounts -> Int] /\ unasked' \subseteq Accounts
    <3>1. \A a \in Accounts : Net(a) \in Int
      BY SnapFacts
    <3> QED
      BY <1>2, <3>1 DEF ListAccounts, SnapTypeOK, AccountsAt
  <2>2. leftOut' \subseteq Nat
    BY <1>2, SnapFacts DEF ListAccounts, SnapTypeOK
  <2> QED
    BY <1>2, <2>1, <2>2 DEF ListAccounts, SnapTypeOK
<1>3. CASE AskPositions
  <2>1. PICK a \in unasked : shown' \in {shown \cup {Entry(a, purse[a].stock)}, shown \cup {Entry(a, 0)}}
    BY <1>3 DEF AskPositions, Unpriced
  <2>2. a \in Accounts /\ purse[a].stock \in Int /\ listed[a] \in Int
    BY <2>1 DEF SnapTypeOK
  <2>3. PICK n \in Int : shown' = shown \cup {Entry(a, n)}
    BY <2>1, <2>2
  <2>4. IsFiniteSet(shown')
    BY <2>3, FS_AddElement DEF SnapTypeOK
  <2>5. \A e \in shown' : e.account \in Accounts /\ e.nav \in Int /\ e.stock \in Int
    BY <2>2, <2>3 DEF Entry, SnapTypeOK
  <2>6. /\ unasked' \subseteq Accounts
        /\ UNCHANGED <<purse, request, turn, listed, leftOut, torn, moves>>
    BY <1>3 DEF AskPositions, SnapTypeOK
  <2> QED
    BY <2>4, <2>5, <2>6 DEF SnapTypeOK
<1>4. ASSUME NEW a \in Accounts, Trade(a) PROVE SnapTypeOK'
  <2>1. UNCHANGED <<request, turn, unasked, listed, shown, leftOut, torn>> /\ moves' = moves + 1
    BY <1>4 DEF Trade
  <2> QED
    BY <1>4, <2>1, TradeKeepsNet DEF SnapTypeOK
<1>5. ASSUME NEW a \in Accounts, NEW b \in Accounts, Transfer(a, b) PROVE SnapTypeOK'
  <2>1. /\ torn' \in BOOLEAN /\ moves' = moves + 1
        /\ UNCHANGED <<request, turn, unasked, listed, shown, leftOut>>
    BY <1>5 DEF Transfer
  <2>2. purse' \in [Accounts -> [cash : Int, stock : Int]]
    BY <1>5, TransferMovesNet
  <2> QED
    BY <2>1, <2>2 DEF SnapTypeOK
<1> QED
  BY <1>1, <1>2, <1>3, <1>4, <1>5 DEF SnapNext

LEMMA EveryoneIsShown ==
    ASSUME SnapTypeOK, ShownInv, [SnapNext]_snapVars PROVE ShownInv'
<1>0. /\ OpenDs \subseteq Nat \ {0} /\ turn \in Nat \ {0} /\ leftOut \subseteq Nat
      /\ \A a \in Accounts : At[a] \in OpenDs /\ At[a] \in Nat
  BY SnapFacts DEF SnapTypeOK
<1>1. CASE AskSnapshot \/ OneRaises \/ Returns \/ UNCHANGED snapVars
  BY <1>1 DEF AskSnapshot, OneRaises, Returns, snapVars, ShownInv, IsShown, Present
<1>2. CASE NextClient
  <2>1. /\ request = "asking" /\ unasked = {} /\ request' = "listing" /\ turn' = turn + 1
        /\ UNCHANGED <<purse, unasked, listed, shown, leftOut, torn, moves>>
    BY <1>2 DEF NextClient
  <2>2. \A a \in Accounts : Present(a)' <=> Present(a)
    BY <1>0, <2>1 DEF Present
  <2>3. \A a \in Accounts : IsShown(a)' <=> IsShown(a)
    BY <2>1 DEF IsShown
  <2>4. \A d \in leftOut : d < turn + 1
    BY <1>0, <2>1 DEF ShownInv
  <2> QED
    BY <2>1, <2>2, <2>3, <2>4 DEF ShownInv
<1>3. CASE ListAccounts
  <2>1. request = "listing" /\ turn \in OpenDs /\ UNCHANGED <<purse, shown, torn, moves>>
    BY <1>3 DEF ListAccounts
  <2>2. \A a \in Accounts : IsShown(a)' <=> IsShown(a)
    BY <2>1 DEF IsShown
  <2>3. turn \notin leftOut /\ \A e \in shown : At[e.account] # turn
    BY <1>0, <2>1 DEF ShownInv, IsShown, Present, SnapTypeOK
  <2>4. CASE request' = "asking" /\ unasked' = AccountsAt(turn) /\ UNCHANGED <<turn, leftOut>>
             /\ listed' = [a \in Accounts |-> IF At[a] = turn THEN Net(a) ELSE listed[a]]
    <3>1. \A a \in Accounts : Present(a)' <=> Present(a)
      BY <1>0, <2>1, <2>3, <2>4 DEF Present, AccountsAt
    <3>2. \A e \in shown : e.account \in Accounts /\ listed'[e.account] = listed[e.account]
      BY <2>3, <2>4 DEF SnapTypeOK
    <3> QED
      BY <2>1, <2>2, <2>4, <3>1, <3>2 DEF ShownInv, AccountsAt
  <2>5. CASE turn' = turn + 1 /\ leftOut' = leftOut \cup {turn} /\ UNCHANGED <<request, unasked, listed>>
    <3>1. \A a \in Accounts : Present(a)' <=> Present(a)
      BY <1>0, <2>1, <2>3, <2>5 DEF Present
    <3>2. \A d \in leftOut' : d < turn'
      BY <1>0, <2>1, <2>5 DEF ShownInv
    <3> QED
      BY <2>1, <2>2, <2>5, <3>1, <3>2 DEF ShownInv
  <2> QED
    BY <1>3, <2>4, <2>5 DEF ListAccounts
<1>4. CASE AskPositions
  <2>1. PICK a \in unasked : /\ unasked' = unasked \ {a} /\ request = "asking"
                             /\ shown' \in {shown \cup {Entry(a, purse[a].stock)}, shown \cup {Entry(a, 0)}}
                             /\ UNCHANGED <<purse, request, turn, listed, leftOut, torn, moves>>
    BY <1>4 DEF AskPositions, Unpriced
  <2>2. PICK e : shown' = shown \cup {e} /\ e.account = a /\ e.nav = listed[a]
    <3>1. PICK n : shown' = shown \cup {Entry(a, n)}
      BY <2>1
    <3>2. Entry(a, n).account = a /\ Entry(a, n).nav = listed[a]
      BY DEF Entry
    <3> QED
      BY <3>1, <3>2
  <2>3. a \in Accounts /\ At[a] = turn /\ turn \notin leftOut
    BY <1>0, <2>1 DEF ShownInv, SnapTypeOK, AccountsAt
  <2>4. ~IsShown(a)
    BY <1>0, <2>1, <2>3 DEF ShownInv, Present
  <2>5. \A x \in Accounts : IsShown(x)' <=> IsShown(x) \/ x = a
    BY <2>2 DEF IsShown
  <2>6. \A x \in Accounts : Present(x)' <=> Present(x) \/ x = a
    BY <1>0, <2>1, <2>3 DEF Present
  <2> QED
    BY <2>1, <2>2, <2>4, <2>5, <2>6 DEF ShownInv, IsShown
<1>5. ASSUME NEW a \in Accounts, Trade(a) \/ (\E b \in Accounts : Transfer(a, b)) PROVE ShownInv'
  <2>1. UNCHANGED <<request, turn, unasked, listed, shown, leftOut>>
    BY <1>5 DEF Trade, Transfer
  <2> QED
    BY <2>1 DEF ShownInv, IsShown, Present, AccountsAt
<1> QED
  BY <1>1, <1>2, <1>3, <1>4, <1>5 DEF SnapNext

\* Until something moves, no account without a debt is shown with more stock than its net value.
LEMMA StillKept ==
    ASSUME SnapTypeOK, ShownInv, StillInv, [SnapNext]_snapVars PROVE StillInv'
<1> SUFFICES ASSUME moves' = 0
             PROVE  /\ request' = "asking" => \A a \in AccountsAt(turn') : listed'[a] = Net(a)'
                    /\ ~Indebted' => \A e \in shown' : e.nav >= 0 /\ Size(e) <= e.nav
  BY DEF StillInv, AccountsAt, Size
<1>1. CASE AskSnapshot \/ NextClient \/ OneRaises \/ Returns \/ UNCHANGED snapVars
  <2>1. UNCHANGED <<purse, listed, shown, moves>>
        /\ (request' = "asking" => request = "asking" /\ turn' = turn)
    BY <1>1 DEF AskSnapshot, NextClient, OneRaises, Returns, snapVars
  <2> QED
    BY <2>1 DEF StillInv, Net, AccountsAt, Indebted
<1>2. CASE ListAccounts
  <2>1. /\ request = "listing" /\ moves = 0 /\ UNCHANGED <<purse, shown>>
        /\ \/ /\ turn' = turn
              /\ listed' = [a \in Accounts |-> IF At[a] = turn THEN Net(a) ELSE listed[a]]
           \/ request' = "listing"
    BY <1>2 DEF ListAccounts
  <2> QED
    BY <2>1 DEF StillInv, AccountsAt, Net, Indebted
<1>3. CASE AskPositions
  <2>1. request = "asking" /\ moves = 0 /\ UNCHANGED <<purse, request, turn, listed>>
    BY <1>3 DEF AskPositions
  <2>2. PICK a \in unasked : shown' \in {shown \cup {Entry(a, purse[a].stock)}, shown \cup {Entry(a, 0)}}
    BY <1>3 DEF AskPositions, Unpriced
  <2>3. PICK n \in {0, purse[a].stock} : shown' = shown \cup {Entry(a, n)}
    BY <2>2
  <2>4. a \in Accounts /\ a \in AccountsAt(turn)
    BY <2>1, <2>2 DEF ShownInv, SnapTypeOK
  <2>5. \A x \in AccountsAt(turn) : listed[x] = Net(x)
    BY <2>1 DEF StillInv
  <2>6. Entry(a, n).stock = n /\ Entry(a, n).nav = listed[a]
    BY DEF Entry
  <2>7. ASSUME ~Indebted' PROVE \A e \in shown' : e.nav >= 0 /\ Size(e) <= e.nav
    <3>1. ~Indebted
      BY <2>1, <2>7 DEF Indebted
    <3>2. /\ purse[a].cash \in Int /\ purse[a].cash >= 0
          /\ purse[a].stock \in Int /\ purse[a].stock >= 0
      BY <2>4, <3>1, SnapFacts DEF Indebted
    <3>3. listed[a] = purse[a].cash + purse[a].stock /\ n \in Int /\ n >= 0
      BY <2>3, <2>4, <2>5, <3>2 DEF Net
    <3>4. Size(Entry(a, n)) = n
      BY <2>6, <3>3 DEF Size
    <3>5. Entry(a, n).nav >= 0 /\ Size(Entry(a, n)) <= Entry(a, n).nav
      BY <2>3, <2>6, <3>2, <3>3, <3>4
    <3>6. \A e \in shown : e.nav >= 0 /\ Size(e) <= e.nav
      BY <2>1, <3>1 DEF StillInv
    <3> QED
      BY <2>3, <3>5, <3>6
  <2> QED
    BY <2>1, <2>5, <2>7 DEF AccountsAt, Net
<1>4. ASSUME NEW a \in Accounts, Trade(a) \/ (\E b \in Accounts : Transfer(a, b)) PROVE FALSE
  BY <1>4 DEF Trade, Transfer, SnapTypeOK
<1> QED
  BY <1>1, <1>2, <1>3, <1>4 DEF SnapNext

\* What is foreseen changes only with what is owned.
LEMMA MoneyKept ==
    ASSUME SnapTypeOK, ShownInv, MoneyInv, [SnapNext]_snapVars PROVE MoneyInv'
<1> SUFFICES ASSUME request' \in {"idle", "listing", "asking", "returned"}, leftOut' = {}, ~torn'
             PROVE  Sum(0, Foreseen, Accounts)' = Sum(0, Owned, Accounts)'
  BY DEF MoneyInv
<1>0. /\ turn \in Nat /\ IsFiniteSet(Accounts)
      /\ \A a \in Accounts : /\ At[a] \in Nat /\ Dollars[a] \in Nat /\ Net(a) \in Int
                             /\ listed[a] \in Int
  BY SnapFacts DEF SnapTypeOK
<1>1. ASSUME request \in {"idle", "listing", "asking", "returned"}, leftOut = {}, torn' = torn,
             Foreseen' = Foreseen, Owned' = Owned
      PROVE  Sum(0, Foreseen, Accounts)' = Sum(0, Owned, Accounts)'
  BY <1>1 DEF MoneyInv
<1>2. CASE AskSnapshot \/ NextClient \/ OneRaises \/ Returns \/ UNCHANGED snapVars
  <2>1. /\ UNCHANGED <<purse, listed, leftOut, torn>>
        /\ request \in {"idle", "listing", "asking", "returned"}
    BY <1>2 DEF AskSnapshot, NextClient, OneRaises, Returns, snapVars
  <2>2. \A a \in Accounts : HasListed(At[a])' <=> HasListed(At[a])
    BY <1>0, <1>2 DEF AskSnapshot, NextClient, OneRaises, Returns, snapVars, HasListed
  <2> QED
    BY <1>1, <2>1, <2>2 DEF Foreseen, Owned, Net
<1>3. CASE ListAccounts
  <2>1. /\ request = "listing" /\ request' = "asking" /\ turn' = turn /\ leftOut' = leftOut
        /\ UNCHANGED <<purse, torn>>
        /\ listed' = [a \in Accounts |-> IF At[a] = turn THEN Net(a) ELSE listed[a]]
    BY <1>3 DEF ListAccounts
  <2>2. \A a \in Accounts : /\ HasListed(At[a])' <=> HasListed(At[a]) \/ At[a] = turn
                            /\ At[a] = turn => ~HasListed(At[a])
    BY <1>0, <2>1 DEF HasListed
  <2>3. \A a \in Accounts : Foreseen'[a] = Foreseen[a]
    BY <2>1, <2>2 DEF Foreseen, Net
  <2>4. Foreseen' = Foreseen
    BY <2>3 DEF Foreseen
  <2> QED
    BY <1>1, <2>1, <2>4 DEF Owned, Net
<1>4. CASE AskPositions
  <2>1. request = "asking" /\ UNCHANGED <<purse, request, turn, listed, leftOut, torn>>
    BY <1>4 DEF AskPositions
  <2> QED
    BY <1>1, <2>1 DEF Foreseen, Owned, Net, HasListed
<1>5. ASSUME NEW a \in Accounts, Trade(a)
      PROVE  Sum(0, Foreseen, Accounts)' = Sum(0, Owned, Accounts)'
  <2>1. UnderWay /\ UNCHANGED <<request, turn, listed, leftOut, torn>>
    BY <1>5 DEF Trade
  <2>2. \A x \in Accounts : Net(x)' = Net(x) /\ (HasListed(At[x])' <=> HasListed(At[x]))
    BY <1>5, <2>1, TradeKeepsNet DEF HasListed
  <2> QED
    BY <1>1, <2>1, <2>2 DEF Foreseen, Owned, UnderWay
<1>6. ASSUME NEW a \in Accounts, NEW b \in Accounts, Transfer(a, b)
      PROVE  Sum(0, Foreseen, Accounts)' = Sum(0, Owned, Accounts)'
  <2>1. /\ UnderWay /\ UNCHANGED <<request, turn, listed, leftOut>> /\ Dollars[a] = Dollars[b]
        /\ ~torn /\ (HasListed(At[a]) <=> HasListed(At[b]))
    BY <1>6 DEF Transfer, HasListed
  <2>2. /\ a # b /\ Net(a)' = Net(a) - 1 /\ Net(b)' = Net(b) + 1
        /\ \A x \in Accounts \ {a, b} : Net(x)' = Net(x)
    BY <1>6, TransferMovesNet
  <2>3. Sum(0, Foreseen, Accounts) = Sum(0, Owned, Accounts)
    BY <2>1 DEF MoneyInv, UnderWay
  <2>4. \A x \in Accounts : HasListed(At[x])' <=> HasListed(At[x])
    BY <2>1 DEF HasListed
  <2>5. \A i, j \in Int, k \in Nat : (i - 1) * k \in Int /\ i * k \in Int /\ (j + 1) * k \in Int
                             /\ (i - 1) * k + (j + 1) * k = i * k + j * k
    OBVIOUS
  <2> DEFINE k == Dollars[a]
  <2>6. \A x \in Accounts : Owned[x] \in Int /\ Foreseen[x] \in Int
    <3>1. \A i \in Int, j \in Nat : i * j \in Int
      OBVIOUS
    <3> QED
      BY <1>0, <3>1 DEF Owned, Foreseen
  <2>7. /\ Owned[a] = Net(a) * k /\ Owned[b] = Net(b) * k
        /\ Owned'[a] = (Net(a) - 1) * k /\ Owned'[b] = (Net(b) + 1) * k
        /\ \A x \in Accounts \ {a, b} : Owned'[x] = Owned[x]
    BY <2>1, <2>2 DEF Owned
  <2>8. /\ Net(a) * k + Net(b) * k = (Net(a) - 1) * k + (Net(b) + 1) * k
        /\ (Net(a) - 1) * k \in Int /\ (Net(b) + 1) * k \in Int
    BY <1>0, <2>5
  <2>9. Sum(0, Owned', Accounts) = Sum(0, Owned, Accounts)
    <3>1. Owned'[a] + Owned'[b] = Owned[a] + Owned[b] /\ \A x \in Accounts : Owned'[x] \in Int
      BY <2>6, <2>7, <2>8
    <3>2. 0 \in Int /\ \A x \in Accounts : Owned[x] \in Int /\ Owned'[x] \in Int
      BY <2>6, <3>1
    <3> QED
      BY <1>0, <2>2, <2>7, <3>1, <3>2, SumOfTransfer, Zenon
  <2>10. CASE HasListed(At[a])
    <3>1. Foreseen' = Foreseen
      BY <2>1, <2>2, <2>4, <2>10 DEF Foreseen
    <3> QED
      BY <2>3, <2>9, <3>1
  <2>11. CASE ~HasListed(At[a])
    <3>1. /\ Foreseen[a] = Net(a) * k /\ Foreseen[b] = Net(b) * k
          /\ Foreseen'[a] = (Net(a) - 1) * k /\ Foreseen'[b] = (Net(b) + 1) * k
          /\ \A x \in Accounts \ {a, b} : Foreseen'[x] = Foreseen[x]
      BY <2>1, <2>2, <2>4, <2>11 DEF Foreseen
    <3>2. Foreseen'[a] + Foreseen'[b] = Foreseen[a] + Foreseen[b]
          /\ \A x \in Accounts : Foreseen'[x] \in Int
      BY <2>6, <2>8, <3>1
    <3>3. 0 \in Int /\ \A x \in Accounts : Foreseen[x] \in Int /\ Foreseen'[x] \in Int
      BY <2>6, <3>2
    <3>4. Sum(0, Foreseen', Accounts) = Sum(0, Foreseen, Accounts)
      BY <1>0, <2>2, <3>1, <3>2, <3>3, SumOfTransfer, Zenon
    <3> QED
      BY <2>3, <2>9, <3>4
  <2> QED
    BY <2>10, <2>11
<1> QED
  BY <1>2, <1>3, <1>4, <1>5, <1>6 DEF SnapNext

\* A set of numbers with a bound has a greatest.
LEMMA GreatestOf ==
    ASSUME NEW S \in SUBSET Nat, S # {}, NEW n \in Int, \A x \in S : x <= n
    PROVE  Max(S) \in S /\ \A y \in S : Max(S) >= y
<1> DEFINE T == {n - x : x \in S}
<1>1. T \subseteq Nat /\ T # {}
  <2>1. \A x \in S : n - x \in Nat
    OBVIOUS
  <2> QED
    BY <2>1
<1>2. PICK t \in T : \A u \in T : t <= u
  <2> HIDE DEF T
  <2> QED
    BY <1>1, SmallestOf
<1>3. PICK x \in S : t = n - x
  BY <1>2
<1>4. ASSUME NEW y \in S PROVE x >= y
  <2>1. n - y \in T
    OBVIOUS
  <2>2. t <= n - y /\ x \in Nat /\ y \in Nat
    BY <1>2, <2>1
  <2> HIDE DEF T
  <2> QED
    BY <1>3, <2>2
<1> QED
  BY <1>4 DEF Max

\* SnapInv is inductive.
LEMMA SnapInvHolds == SnapSpec => []SnapInv
<1>1. SnapInit => SnapInv
  <2> SUFFICES ASSUME SnapInit PROVE SnapInv
    OBVIOUS
  <2>1. SnapTypeOK
    <3>1. purse \in [Accounts -> [cash : Int, stock : Int]]
      BY SnapshotAssumption DEF SnapshotAssumption, SnapInit
    <3>2. IsFiniteSet(shown) /\ shown = {} /\ listed \in [Accounts -> Int]
      BY FS_EmptySet DEF SnapInit
    <3>3. /\ request = "idle" /\ turn \in Nat \ {0} /\ moves \in Nat
          /\ unasked = {} /\ leftOut = {}
      BY DEF SnapInit
    <3>4. torn \in BOOLEAN
      BY DEF SnapInit
    <3> QED
      BY <3>1, <3>2, <3>3, <3>4 DEF SnapTypeOK
  <2>2. ShownInv /\ StillInv
    BY <2>1, SnapFacts DEF SnapInit, ShownInv, StillInv, IsShown, Present
  <2>3. \A a \in Accounts : ~HasListed(At[a])
    BY <2>1, SnapFacts DEF SnapInit, HasListed
  <2>4. Foreseen = Owned
    BY <2>3 DEF Foreseen, Owned
  <2> QED
    BY <2>1, <2>2, <2>4 DEF SnapInv, MoneyInv
<1>2. SnapInv /\ [SnapNext]_snapVars => SnapInv'
  BY SnapTyped, EveryoneIsShown, StillKept, MoneyKept DEF SnapInv
<1> QED
  BY <1>1, <1>2, PTL DEF SnapSpec

\* What a snapshot says, for any endpoints, accounts, purses, debts and currencies: the total
\* is what the owner has in dollars unless an endpoint was passed over, money crossed the
\* front of the listing or an account is in another currency, and a position exceeds the
\* total only where an account owes cash or stock or something moved meanwhile.
THEOREM SnapshotsTell == SnapSpec => []SnapshotTells
<1>1. SnapInv => TotalIsWealth
  <2> SUFFICES ASSUME SnapInv, request = "returned", leftOut = {}, ~torn,
                      \A e \in shown : ~(Dollars[e.account] # DollarUnit /\ e.nav # 0)
               PROVE  TotalNav * DollarUnit = Wealth(Accounts)
    BY DEF TotalIsWealth
  <2>1. SnapTypeOK /\ ShownInv /\ Sum(0, Foreseen, Accounts) = Sum(0, Owned, Accounts)
    BY DEF SnapInv, MoneyInv
  <2>2. /\ IsFiniteSet(Accounts) /\ DollarUnit \in Nat
        /\ \A a \in Accounts : At[a] < turn /\ Dollars[a] \in Nat /\ listed[a] \in Int
    BY <2>1, SnapFacts DEF ShownInv, SnapTypeOK
  <2>3. \A a \in Accounts : IsShown(a)
    BY <2>1, <2>2 DEF ShownInv, Present
  <2> DEFINE name == [e \in shown |-> e.account]
             nav  == [e \in shown |-> e.nav]
  <2>4. Accounts = {name[e] : e \in shown}
    <3>1. \A e \in shown : name[e] \in Accounts
      BY <2>1 DEF SnapTypeOK
    <3>2. \A a \in Accounts : \E e \in shown : name[e] = a
      BY <2>3 DEF IsShown
    <3> QED
      BY <3>1, <3>2
  <2>5. TotalNav = Sum(0, listed, Accounts)
    <3>1. IsFiniteSet(shown) /\ \A e \in shown : nav[e] \in Int /\ listed[name[e]] = nav[e]
      BY <2>1 DEF SnapTypeOK, ShownInv
    <3>2. \A e, f \in shown : name[e] = name[f] => e = f
      BY <2>1 DEF ShownInv
    <3>3. TotalNav = Sum(0, nav, shown)
      BY <2>1, TotalIsSum
    <3> HIDE DEF name, nav
    <3>4. Sum(0, nav, shown) = Sum(0, listed, {name[e] : e \in shown})
      BY <3>1, <3>2, SumOfImage
    <3> QED
      BY <2>4, <3>3, <3>4
  <2>6. \A a \in Accounts : Foreseen[a] = listed[a] * DollarUnit
    <3> TAKE a \in Accounts
    <3>1. Foreseen[a] = listed[a] * Dollars[a]
      BY <2>2 DEF Foreseen, HasListed
    <3>2. Dollars[a] = DollarUnit \/ listed[a] = 0
      <4>1. PICK e \in shown : e.account = a
        BY <2>3 DEF IsShown
      <4>2. e.nav = listed[a] /\ ~(Dollars[a] # DollarUnit /\ e.nav # 0)
        BY <2>1, <4>1 DEF ShownInv
      <4> QED
        BY <2>2, <4>2
    <3>3. \A i \in Nat : 0 * i = 0
      OBVIOUS
    <3> QED
      BY <2>2, <3>1, <3>2, <3>3
  <2>7. Sum(0, Foreseen, Accounts) = Sum(0, listed, Accounts) * DollarUnit
    <3>1. \A a \in Accounts : listed[a] \in Int /\ Foreseen[a] = listed[a] * DollarUnit
      BY <2>2, <2>6
    <3> QED
      BY <2>2, <3>1, SumTimes, Zenon
  <2> QED
    BY <2>1, <2>5, <2>7, WealthIsSum
<1>2. SnapInv => CapHidesDebtOrMove
  <2> SUFFICES ASSUME SnapInv, moves = 0, ~Indebted PROVE ~(LargestPosition > TotalNav)
    BY DEF CapHidesDebtOrMove, SnapInv, SnapTypeOK
  <2> DEFINE nav == [e \in shown |-> e.nav]
             S   == {0} \cup {Size(e) : e \in shown}
  <2>1. /\ IsFiniteSet(shown) /\ 0 \in Int /\ TotalNav = Sum(0, nav, shown)
        /\ \A e \in shown : nav[e] \in Nat /\ nav[e] \in Int /\ Size(e) \in Nat /\ Size(e) <= nav[e]
    BY TotalIsSum DEF SnapInv, SnapTypeOK, StillInv, Size
  <2> HIDE DEF nav
  <2>2. TotalNav \in Int /\ TotalNav >= 0
    <3>1. Sum(0, nav, shown) \in Int
      BY <2>1, SumAddsUp, Zenon
    <3>2. Sum(0, nav, shown) >= 0
      BY <2>1, SumOfNats, Zenon
    <3> QED
      BY <2>1, <3>1, <3>2
  <2>3. ASSUME NEW e \in shown PROVE Size(e) <= TotalNav
    <3>0. \A d \in shown : Sum(0, nav, shown) = nav[d] + Sum(0, nav, shown \ {d})
      BY <2>1, SumAddsUp
    <3>1. Sum(0, nav, shown) = nav[e] + Sum(0, nav, shown \ {e})
      BY <3>0
    <3>2. IsFiniteSet(shown \ {e}) /\ \A d \in shown \ {e} : nav[d] \in Nat /\ nav[d] \in Int
      BY <2>1, FS_Subset
    <3>3. Sum(0, nav, shown \ {e}) \in Int /\ Sum(0, nav, shown \ {e}) >= 0
      <4>1. Sum(0, nav, shown \ {e}) \in Int
        BY <2>1, <3>2, SumAddsUp, Zenon
      <4>2. Sum(0, nav, shown \ {e}) >= 0
        BY <2>1, <3>2, SumOfNats, Zenon
      <4> QED
        BY <4>1, <4>2
    <3> QED
      BY <2>1, <3>1, <3>3
  <2>4. S \subseteq Nat /\ 0 \in S /\ \A x \in S : x <= TotalNav
    BY <2>1, <2>2, <2>3
  <2>5. Max(S) \in S
    <3> HIDE DEF S
    <3> QED
      BY <2>2, <2>4, GreatestOf
  <2>6. LargestPosition = Max(S)
    BY DEF LargestPosition
  <2>7. LargestPosition \in Nat /\ LargestPosition <= TotalNav
    <3> HIDE DEF S
    <3> QED
      BY <2>4, <2>5, <2>6, Zenon
  <2> HIDE DEF S
  <2> QED
    BY <2>2, <2>7
<1> QED
  BY <1>1, <1>2, SnapInvHolds, PTL DEF SnapshotTells

-----------------------------------------------------------------------------
(* The marks personas settle with, and what they write.                      *)

Marks        == [bar : Nat, source : {"none", "no-bar", "timescale", "unavailable"} \cup CacheSources,
                 asked : Nat, outage : BOOLEAN]
MarkEntries  == [mark : Marks, put : Int]
ReaderStages == {"idle", "redis", "fetch", "store", "share", "done"}
Askable      == Assets \cup {IdleReader.asset}

MarkTypeOK ==
    /\ time \in Nat /\ stall \in Nat /\ bars \subseteq 1..time
    /\ mem \in [Processes -> [Assets -> MarkEntries]] /\ redis \in [Assets -> MarkEntries]
    /\ reader \in [Readers -> [at : ReaderStages, asset : Askable, asof : Nat, mark : Marks]]
    /\ \A r \in Readers : reader[r].at # "idle" => reader[r].asset \in Assets

\* Of the bars before an instant, the mark of an asset misses none without a cause.
Covers(mark, a, instant) ==
    a \in Listed => \A b \in bars : b < instant => mark.bar >= b \/ mark.outage \/ mark.asked < b

Settled(entry, a) == entry.put <= time /\ Covers(entry.mark, a, entry.put - stall)

\* Up to its age and the time some mark was held, a cached mark knows what was known, ...
EntriesCover ==
    /\ \A p \in Processes, a \in Assets : Settled(mem[p][a], a)
    /\ \A a \in Assets : Settled(redis[a], a)

\* ... and a mark on its way to the caches does up to the time it has been held.
HeldMarksCover ==
    \A r \in Readers : reader[r].at \in {"store", "share"} =>
        /\ reader[r].mark.bar <= reader[r].asof
        /\ Covers(reader[r].mark, reader[r].asset, time - stall)

MarkInv == MarkTypeOK /\ EntriesCover /\ HeldMarksCover /\ WrongMarkHasCause

LEMMA EmptyCovers ==
    ASSUME MarkTypeOK, NEW a
    PROVE  Empty \in MarkEntries /\ Settled(Empty, a)
<1>1. Ttl \in Nat
  BY MarkAssumption DEF MarkAssumption
<1>2. NoMark \in Marks /\ Empty.put = -Ttl /\ Empty.mark = NoMark
  BY DEF NoMark, Marks, Empty
<1>3. Empty \in MarkEntries
  BY <1>1, <1>2 DEF Empty, MarkEntries
<1>4. Empty.put <= time /\ \A b \in bars : b \in Nat /\ ~(b < Empty.put - stall)
  BY <1>1, <1>2 DEF MarkTypeOK
<1> QED
  BY <1>3, <1>4 DEF Settled, Covers

\* What a reader takes out of a cache it answers with.
LEMMA CacheAnswers ==
    ASSUME MarkTypeOK, NEW a, NEW asof, NEW entry \in MarkEntries, Settled(entry, a), Fresh(entry)
    PROVE  \A b \in KnownBars(a, asof) :
               b <= time - Ttl - stall =>
                   entry.mark.bar >= b \/ entry.mark.outage \/ entry.mark.asked < b
<1> SUFFICES ASSUME NEW b \in KnownBars(a, asof), b <= time - Ttl - stall
             PROVE  entry.mark.bar >= b \/ entry.mark.outage \/ entry.mark.asked < b
  OBVIOUS
<1>1. a \in Listed /\ b \in bars
  BY DEF KnownBars
<1>2. b \in Nat /\ entry.put \in Int /\ time \in Nat /\ stall \in Nat /\ Ttl \in Nat
  BY <1>1, MarkAssumption DEF MarkTypeOK, MarkEntries, MarkAssumption
<1>3. b < entry.put - stall
  BY <1>2 DEF Fresh
<1> QED
  BY <1>1, <1>3 DEF Settled, Covers

\* A step of one reader, with what the caches hold after it.
LEMMA OneAnswers ==
    ASSUME MarkInv, NEW r \in Readers, NEW x \in [at : ReaderStages, asset : Askable, asof : Nat, mark : Marks],
           reader' = [reader EXCEPT ![r] = x], UNCHANGED <<time, bars, stall>>,
           mem' \in [Processes -> [Assets -> MarkEntries]], redis' \in [Assets -> MarkEntries],
           \A p \in Processes, a \in Assets : Settled(mem'[p][a], a),
           \A a \in Assets : Settled(redis'[a], a),
           x.at # "idle" => x.asset \in Assets,
           x.at \in {"store", "share"} =>
               x.mark.bar <= x.asof /\ Covers(x.mark, x.asset, time - stall),
           x.at = "done" =>
               /\ x.mark.bar > x.asof => x.mark.source \in CacheSources
               /\ \A b \in KnownBars(x.asset, x.asof) : b <= time - Ttl - stall =>
                      x.mark.bar >= b \/ x.mark.outage \/ x.mark.asked < b
    PROVE  MarkInv'
<1>1. /\ reader'[r] = x /\ \A q \in Readers \ {r} : reader'[q] = reader[q]
      /\ reader' \in [Readers -> [at : ReaderStages, asset : Askable, asof : Nat, mark : Marks]]
  BY DEF MarkInv, MarkTypeOK
<1>2. MarkTypeOK'
  BY <1>1 DEF MarkInv, MarkTypeOK
<1>3. EntriesCover'
  BY DEF EntriesCover, Settled, Covers
<1>4. HeldMarksCover'
  BY <1>1 DEF MarkInv, HeldMarksCover, Covers
<1>5. WrongMarkHasCause'
  BY <1>1 DEF MarkInv, WrongMarkHasCause, Answered, KnownBars
<1> QED
  BY <1>2, <1>3, <1>4, <1>5 DEF MarkInv

LEMMA KeptCaches ==
    ASSUME MarkInv, UNCHANGED <<mem, redis>>
    PROVE  /\ mem' \in [Processes -> [Assets -> MarkEntries]] /\ redis' \in [Assets -> MarkEntries]
           /\ \A p \in Processes, a \in Assets : Settled(mem'[p][a], a)
           /\ \A a \in Assets : Settled(redis'[a], a)
  BY DEF MarkInv, MarkTypeOK, EntriesCover

\* What a reader brings to a cache covers what the reader's mark did.
LEMMA HeldIsSettled ==
    ASSUME MarkInv, NEW r \in Readers, reader[r].at \in {"store", "share"}
    PROVE  LET e == [mark |-> reader[r].mark, put |-> time]
           IN  e \in MarkEntries /\ Settled(e, reader[r].asset)
  BY DEF MarkInv, MarkTypeOK, MarkEntries, Settled, HeldMarksCover

LEMMA AskStep ==
    ASSUME MarkInv, NEW r \in Readers, NEW a \in Assets, NEW asof \in Nat, AskMem(r, a, asof)
    PROVE  MarkInv'
<1> DEFINE entry == mem[Home[r]][a]
<1>1. entry \in MarkEntries /\ Settled(entry, a)
  BY MarkAssumption DEF MarkAssumption, MarkInv, MarkTypeOK, EntriesCover
<1>2. UNCHANGED <<time, bars, mem, redis, stall>>
  BY DEF AskMem
<1>3. entry.mark \in Marks /\ NoMark \in Marks /\ a \in Askable
  BY <1>1 DEF MarkEntries, NoMark, Marks, Askable
<1>4. CASE Fresh(entry)
  <2> DEFINE x == [at |-> "done", asset |-> a, asof |-> asof,
                   mark |-> [entry.mark EXCEPT !.source = "mem-cache"]]
  <2>1. reader' = [reader EXCEPT ![r] = x]
    BY <1>4 DEF AskMem, CacheKey
  <2>2. /\ x \in [at : ReaderStages, asset : Askable, asof : Nat, mark : Marks]
        /\ x.at = "done" /\ x.asset = a /\ x.asof = asof /\ x.mark.source \in CacheSources
        /\ x.mark.bar = entry.mark.bar /\ x.mark.outage = entry.mark.outage
        /\ x.mark.asked = entry.mark.asked
    BY <1>3 DEF ReaderStages, Marks, CacheSources
  <2>3. \A b \in KnownBars(a, asof) : b <= time - Ttl - stall =>
            entry.mark.bar >= b \/ entry.mark.outage \/ entry.mark.asked < b
    <3> HIDE DEF entry
    <3> QED
      BY <1>1, <1>4, CacheAnswers DEF MarkInv
  <2> HIDE DEF x, entry
  <2> QED
    BY <1>2, <2>1, <2>2, <2>3, KeptCaches, OneAnswers
<1>5. CASE ~Fresh(entry)
  <2> DEFINE x == [at |-> "redis", asset |-> a, asof |-> asof, mark |-> NoMark]
  <2>1. reader' = [reader EXCEPT ![r] = x]
    BY <1>5 DEF AskMem, CacheKey
  <2>2. x \in [at : ReaderStages, asset : Askable, asof : Nat, mark : Marks] /\ x.at = "redis" /\ x.asset = a
    BY <1>3 DEF ReaderStages
  <2> HIDE DEF x
  <2> QED
    BY <1>2, <2>1, <2>2, KeptCaches, OneAnswers
<1> QED
  BY <1>4, <1>5

\* A set of bars that is not empty has a latest one.
LEMMA LatestBar ==
    ASSUME NEW n \in Nat, NEW T \in SUBSET (1..n), T # {}
    PROVE  Max(T) \in T /\ \A b \in T : b <= Max(T)
<1> DEFINE D == {n - b : b \in T}
<1>0. \A b \in T : b \in Nat /\ n - b \in Nat
  OBVIOUS
<1>1. D \subseteq Nat /\ D # {}
  BY <1>0
<1>2. PICK d \in D : \A e \in D : d <= e
  <2> HIDE DEF D
  <2> QED
    BY <1>1, SmallestOf
<1>3. PICK b \in T : d = n - b
  BY <1>2
<1>4. \A c \in T : c <= b
  <2> SUFFICES ASSUME NEW c \in T PROVE c <= b
    OBVIOUS
  <2>1. d <= n - c
    BY <1>2
  <2> QED
    BY <2>1, <1>0, <1>3
<1> QED
  BY <1>4 DEF Max

LEMMA GetStep == ASSUME MarkInv, NEW r \in Readers, GetMark(r) PROVE MarkInv'
<1> DEFINE key == reader[r].asset
           Typed(x) == x \in [at : ReaderStages, asset : Askable, asof : Nat, mark : Marks]
<1>0. Typed(reader[r]) /\ (reader[r].at # "idle" => key \in Assets)
  BY DEF MarkInv, MarkTypeOK
<1>1. CASE HitRedis(r)
  <2> DEFINE entry == redis[key]
             x == [reader[r] EXCEPT !.at = "done", !.mark = [entry.mark EXCEPT !.source = "redis-cache"]]
  <2>1. /\ reader[r].at = "redis" /\ Fresh(entry) /\ UNCHANGED <<time, bars, mem, redis, stall>>
        /\ reader' = [reader EXCEPT ![r] = x]
    BY <1>1, <1>0 DEF HitRedis, Answer, CacheKey, MarkInv, MarkTypeOK
  <2>2. entry \in MarkEntries /\ Settled(entry, key)
    BY <1>0, <2>1 DEF MarkInv, MarkTypeOK, EntriesCover
  <2>3. /\ Typed(x) /\ x.at = "done" /\ x.asset = key /\ x.asof = reader[r].asof
        /\ x.mark.source \in CacheSources /\ x.mark.bar = entry.mark.bar
        /\ x.mark.outage = entry.mark.outage /\ x.mark.asked = entry.mark.asked
    BY <1>0, <2>2 DEF ReaderStages, Marks, MarkEntries, CacheSources
  <2>4. \A b \in KnownBars(key, reader[r].asof) : b <= time - Ttl - stall =>
            entry.mark.bar >= b \/ entry.mark.outage \/ entry.mark.asked < b
    <3> HIDE DEF entry, key
    <3> QED
      BY <2>1, <2>2, CacheAnswers DEF MarkInv
  <2>5. x.asset \in Assets
    BY <1>0, <2>1, <2>3
  <2> HIDE DEF x, entry, key
  <2> QED
    BY <2>1, <2>3, <2>4, <2>5, KeptCaches, OneAnswers
<1>2. CASE MissRedis(r)
  <2> DEFINE x == [reader[r] EXCEPT !.at = "fetch"]
  <2>1. /\ reader[r].at = "redis" /\ UNCHANGED <<time, bars, mem, redis, stall>>
        /\ reader' = [reader EXCEPT ![r] = x]
    BY <1>2, <1>0 DEF MissRedis, MarkInv, MarkTypeOK
  <2>2. Typed(x) /\ x.at = "fetch" /\ x.asset \in Assets
    BY <1>0, <2>1 DEF ReaderStages
  <2> HIDE DEF x
  <2> QED
    BY <2>1, <2>2, KeptCaches, OneAnswers
<1>3. ASSUME NEW mark \in Marks, Fetched(r, mark), mark.bar <= reader[r].asof,
             \A b \in KnownBars(key, reader[r].asof) : mark.bar >= b \/ mark.outage,
             mark.asked = reader[r].asof
      PROVE  MarkInv'
  <2> DEFINE x == [reader[r] EXCEPT !.at = "store", !.mark = mark]
  <2>1. /\ reader[r].at = "fetch" /\ UNCHANGED <<time, bars, mem, redis, stall>>
        /\ reader' = [reader EXCEPT ![r] = x]
    BY <1>3, <1>0 DEF Fetched, MarkInv, MarkTypeOK
  <2>2. /\ Typed(x) /\ x.at = "store" /\ x.asset = key /\ x.asset \in Assets
        /\ x.asof = reader[r].asof /\ x.mark = mark
    BY <1>0, <2>1 DEF ReaderStages
  <2>3. Covers(mark, key, time - stall)
    <3> SUFFICES ASSUME key \in Listed, NEW b \in bars, b < time - stall
                 PROVE  mark.bar >= b \/ mark.outage \/ mark.asked < b
      BY DEF Covers
    <3>1. b \in Nat /\ reader[r].asof \in Nat
      BY <1>0 DEF MarkInv, MarkTypeOK
    <3>2. b <= reader[r].asof => b \in KnownBars(key, reader[r].asof)
      BY DEF KnownBars
    <3> QED
      BY <3>1, <3>2, <1>3
  <2> HIDE DEF x, key
  <2> QED
    BY <1>3, <2>1, <2>2, <2>3, KeptCaches, OneAnswers
<1>4. CASE QueryLatest(r)
  <2> DEFINE known == KnownBars(key, reader[r].asof)
             mark  == [bar    |-> IF known = {} THEN 0 ELSE Max(known),
                       source |-> IF known = {} THEN "no-bar" ELSE "timescale",
                       asked  |-> reader[r].asof, outage |-> FALSE]
  <2>1. Fetched(r, mark)
    BY <1>4 DEF QueryLatest
  <2>2. /\ known \in SUBSET (1..time) /\ time \in Nat /\ reader[r].asof \in Nat
        /\ \A b \in known : b <= reader[r].asof
    BY <1>0 DEF KnownBars, MarkInv, MarkTypeOK
  <2> HIDE DEF known
  <2>3. known # {} => Max(known) \in known /\ \A b \in known : b <= Max(known)
    BY <2>2, LatestBar
  <2>4. mark.bar \in Nat /\ mark.bar <= reader[r].asof /\ (\A b \in known : mark.bar >= b)
    <3>1. CASE known = {}
      BY <2>2, <3>1
    <3>2. CASE known # {}
      <4>1. mark.bar = Max(known) /\ Max(known) \in known
        BY <2>3, <3>2
      <4>2. \A b \in known : b \in Nat
        BY <2>2
      <4>3. Max(known) \in Nat /\ Max(known) <= reader[r].asof
        <5> DEFINE latest == Max(known)
        <5>1. latest \in known
          BY <4>1
        <5> HIDE DEF latest
        <5>2. latest \in Nat /\ latest <= reader[r].asof
          BY <2>2, <4>2, <5>1
        <5> QED
          BY <5>2 DEF latest
      <4>4. \A b \in known : mark.bar >= b
        <5> SUFFICES ASSUME NEW b \in known PROVE mark.bar >= b
          OBVIOUS
        <5>1. b <= Max(known)
          BY <2>3, <3>2
        <5> HIDE DEF mark
        <5> QED
          BY <5>1, <4>1, <4>2, <4>3
      <4> QED
        BY <4>1, <4>3, <4>4
    <3> QED
      BY <3>1, <3>2
  <2>5. mark \in Marks /\ mark.asked = reader[r].asof
    BY <2>2, <2>4 DEF Marks
  <2> HIDE DEF mark
  <2> QED
    BY <1>3, <2>1, <2>4, <2>5 DEF known
<1>5. CASE Unavailable(r)
  <2> DEFINE mark == [bar |-> 0, source |-> "unavailable", asked |-> reader[r].asof, outage |-> TRUE]
  <2>1. Fetched(r, mark)
    BY <1>5 DEF Unavailable
  <2>2. mark \in Marks /\ mark.bar <= reader[r].asof /\ mark.outage /\ mark.asked = reader[r].asof
    BY <1>0 DEF Marks
  <2> HIDE DEF mark
  <2> QED
    BY <1>3, <2>1, <2>2
<1>6. CASE StoreMem(r)
  <2> DEFINE x == [reader[r] EXCEPT !.at = "share"]
             e == [mark |-> reader[r].mark, put |-> time]
  <2>1. /\ reader[r].at = "store" /\ UNCHANGED <<time, bars, redis, stall>>
        /\ reader' = [reader EXCEPT ![r] = x]
        /\ mem' = [mem EXCEPT ![Home[r]][key] = e]
    BY <1>6, <1>0 DEF StoreMem, CacheKey, MarkInv, MarkTypeOK
  <2>2. e \in MarkEntries /\ Settled(e, key)
    BY <2>1, HeldIsSettled
  <2>3. /\ Typed(x) /\ x.at = "share" /\ x.asset = key /\ x.asset \in Assets
        /\ x.asof = reader[r].asof /\ x.mark = reader[r].mark
    BY <1>0, <2>1 DEF ReaderStages
  <2>4. x.mark.bar <= x.asof /\ Covers(x.mark, x.asset, time - stall)
    BY <2>1, <2>3 DEF MarkInv, HeldMarksCover
  <2> HIDE DEF x, e, key
  <2>5. mem' \in [Processes -> [Assets -> MarkEntries]] /\ \A p \in Processes, a \in Assets : Settled(mem'[p][a], a)
    BY <2>1, <2>2, <2>3 DEF MarkInv, MarkTypeOK, EntriesCover
  <2>6. redis' \in [Assets -> MarkEntries] /\ \A a \in Assets : Settled(redis'[a], a)
    BY <2>1 DEF MarkInv, MarkTypeOK, EntriesCover
  <2> QED
    BY <2>1, <2>3, <2>4, <2>5, <2>6, OneAnswers
<1>7. CASE Share(r)
  <2> DEFINE x == [reader[r] EXCEPT !.at = "done", !.mark = [reader[r].mark EXCEPT !.source = reader[r].mark.source]]
             e == [mark |-> reader[r].mark, put |-> time]
  <2>1. /\ reader[r].at = "share" /\ UNCHANGED <<time, bars, mem, stall>>
        /\ reader' = [reader EXCEPT ![r] = x]
        /\ redis' = [redis EXCEPT ![key] = e] \/ redis' = redis
    BY <1>7, <1>0 DEF Share, Answer, CacheKey, MarkInv, MarkTypeOK
  <2>2. e \in MarkEntries /\ Settled(e, key)
    BY <2>1, HeldIsSettled
  <2>3. /\ Typed(x) /\ x.at = "done" /\ x.asset = key /\ x.asset \in Assets
        /\ x.asof = reader[r].asof /\ x.mark = reader[r].mark
    BY <1>0, <2>1 DEF ReaderStages, Marks
  <2>4. x.mark.bar <= x.asof /\ Covers(x.mark, x.asset, time - stall) /\ x.mark.bar \in Nat /\ x.asof \in Nat
    BY <1>0, <2>1, <2>3 DEF MarkInv, HeldMarksCover, Marks
  <2> HIDE DEF x, e, key
  <2>5. \A b \in KnownBars(x.asset, x.asof) : b <= time - Ttl - stall =>
            x.mark.bar >= b \/ x.mark.outage \/ x.mark.asked < b
    <3> SUFFICES ASSUME NEW b \in KnownBars(x.asset, x.asof), b <= time - Ttl - stall
                 PROVE  x.mark.bar >= b \/ x.mark.outage \/ x.mark.asked < b
      OBVIOUS
    <3>1. x.asset \in Listed /\ b \in bars
      BY DEF KnownBars
    <3>2. b \in Nat /\ time \in Nat /\ stall \in Nat /\ Ttl \in Nat \ {0}
      BY <3>1, MarkAssumption DEF MarkInv, MarkTypeOK, MarkAssumption
    <3>3. b < time - stall
      BY <3>2
    <3> QED
      BY <2>4, <3>1, <3>3 DEF Covers
  <2>6. redis' \in [Assets -> MarkEntries] /\ \A a \in Assets : Settled(redis'[a], a)
    BY <2>1, <2>2 DEF MarkInv, MarkTypeOK, EntriesCover
  <2>7. mem' \in [Processes -> [Assets -> MarkEntries]] /\ \A p \in Processes, a \in Assets : Settled(mem'[p][a], a)
    BY <2>1 DEF MarkInv, MarkTypeOK, EntriesCover
  <2>8. ~(x.mark.bar > x.asof)
    BY <2>4
  <2> QED
    BY <2>1, <2>3, <2>5, <2>6, <2>7, <2>8, OneAnswers
<1> QED
  BY <1>1, <1>2, <1>4, <1>5, <1>6, <1>7 DEF GetMark

LEMMA BarStep == ASSUME MarkInv, BarArrives PROVE MarkInv'
<1>1. /\ bars' = bars \cup {time} /\ time > 0 /\ UNCHANGED <<time, mem, redis, reader, stall>>
      /\ time \in Nat /\ stall \in Nat /\ Ttl \in Nat \ {0}
  BY MarkAssumption DEF BarArrives, MarkInv, MarkTypeOK, MarkAssumption
<1>2. MarkTypeOK'
  BY <1>1 DEF MarkInv, MarkTypeOK
<1>3. ASSUME NEW mark, NEW a, NEW instant \in Int, instant <= time, Covers(mark, a, instant)
      PROVE  Covers(mark, a, instant)'
  BY <1>1, <1>3 DEF Covers
<1>4. ASSUME NEW entry \in MarkEntries, NEW a, Settled(entry, a) PROVE Settled(entry, a)'
  <2>1. entry.put \in Int /\ entry.put - stall <= time /\ entry.put - stall \in Int
    BY <1>1, <1>4 DEF Settled, MarkEntries
  <2> QED
    BY <1>1, <1>3, <1>4, <2>1 DEF Settled
<1>5. EntriesCover'
  BY <1>1, <1>4 DEF EntriesCover, MarkInv, MarkTypeOK
<1>6. HeldMarksCover'
  BY <1>1, <1>3 DEF MarkInv, HeldMarksCover
<1>7. WrongMarkHasCause'
  BY <1>1 DEF MarkInv, MarkTypeOK, WrongMarkHasCause, Answered, KnownBars
<1> QED
  BY <1>2, <1>5, <1>6, <1>7 DEF MarkInv

LEMMA TimeStep == ASSUME MarkInv, TimePasses PROVE MarkInv'
<1>1. /\ time' = time + 1 /\ UNCHANGED <<bars, reader>> /\ Answered = {}
      /\ time \in Nat /\ stall \in Nat
      /\ mem' = [p \in Processes |-> [a \in Assets |-> Kept(mem[p][a])]]
      /\ redis' = [a \in Assets |-> Kept(redis[a])]
      /\ stall' = IF \E r \in Readers : reader[r].at \in {"store", "share"} THEN stall + 1 ELSE stall
  BY DEF TimePasses, MarkInv, MarkTypeOK
<1>2. ASSUME NEW entry \in MarkEntries, NEW a, Settled(entry, a), NEW e, e = Kept(entry)
      PROVE  e \in MarkEntries /\ Settled(e, a)'
  <2>0. Kept(entry) \in MarkEntries /\ Settled(Kept(entry), a)
    BY <1>2, EmptyCovers DEF Kept, MarkInv
  <2>1. e \in MarkEntries /\ Settled(e, a)
    BY <2>0, <1>2
  <2>2. e.put \in Int /\ e.put <= time' /\ e.put - stall' <= e.put - stall
    BY <1>1, <2>1 DEF Settled, MarkEntries
  <2>3. \A b \in bars : b < e.put - stall' => b < e.put - stall
    BY <1>1, <2>2 DEF MarkInv, MarkTypeOK
  <2>4. e.put <= time' /\ (a \in Listed => \A b \in bars : b < e.put - stall' =>
                              e.mark.bar >= b \/ e.mark.outage \/ e.mark.asked < b)
    BY <2>1, <2>2, <2>3 DEF Settled, Covers
  <2> QED
    BY <1>1, <2>1, <2>4 DEF Settled, Covers
<1>3. MarkTypeOK'
  BY <1>1, <1>2 DEF MarkInv, MarkTypeOK, EntriesCover
<1>4. EntriesCover'
  <2>1. ASSUME NEW p \in Processes, NEW a \in Assets PROVE Settled(mem[p][a], a)'
    <3>1. mem[p][a] \in MarkEntries /\ Settled(mem[p][a], a) /\ mem'[p][a] = Kept(mem[p][a])
      BY <1>1 DEF MarkInv, MarkTypeOK, EntriesCover
    <3>2. PICK e : e = mem'[p][a]
      OBVIOUS
    <3>3. Settled(e, a)'
      BY <1>2, <3>1, <3>2
    <3> QED
      BY <3>2, <3>3 DEF Settled, Covers
  <2>2. ASSUME NEW a \in Assets PROVE Settled(redis[a], a)'
    <3>1. redis[a] \in MarkEntries /\ Settled(redis[a], a) /\ redis'[a] = Kept(redis[a])
      BY <1>1 DEF MarkInv, MarkTypeOK, EntriesCover
    <3>2. PICK e : e = redis'[a]
      OBVIOUS
    <3>3. Settled(e, a)'
      BY <1>2, <3>1, <3>2
    <3> QED
      BY <3>2, <3>3 DEF Settled, Covers
  <2> QED
    BY <2>1, <2>2 DEF EntriesCover
<1>5. HeldMarksCover'
  BY <1>1 DEF MarkInv, HeldMarksCover, Covers
<1>6. WrongMarkHasCause'
  BY <1>1 DEF WrongMarkHasCause, Answered
<1> QED
  BY <1>3, <1>4, <1>5, <1>6 DEF MarkInv

\* The caller has used its answer.
LEMMA UseStep == ASSUME MarkInv, NEW r \in Readers, Used(r), UNCHANGED <<time, bars, mem, redis, stall>> PROVE MarkInv'
<1>1. /\ IdleReader \in [at : ReaderStages, asset : Askable, asof : Nat, mark : Marks]
      /\ IdleReader.at = "idle"
  BY DEF IdleReader, ReaderStages, Askable, Marks, NoMark
<1> QED
  BY <1>1, KeptCaches, OneAnswers DEF Used

LEMMA RestStep == ASSUME MarkInv, UNCHANGED markVars PROVE MarkInv'
  BY DEF markVars, MarkInv, MarkTypeOK, EntriesCover, Settled, Covers, HeldMarksCover,
         WrongMarkHasCause, Answered, KnownBars

-----------------------------------------------------------------------------
LEMMA ProductOfNats == ASSUME NEW a \in Nat, NEW b \in Nat PROVE a * b \in Nat
  OBVIOUS

LEMMA Widened == ASSUME NEW lo \in Nat, NEW band \in Nat PROVE (lo * band) \div 400 \in Nat
<1>1. lo * band \in Nat
  BY ProductOfNats
<1> DEFINE n == lo * band
<1>2. n \in Nat
  BY <1>1
<1> HIDE DEF n
<1>3. n \div 400 \in Nat
  BY <1>2
<1> QED
  BY <1>3 DEF n

\* Whatever the price, the rules and the regime: the bands make an advice.
LEMMA BandsFit ==
    ASSUME NEW rules \in [direction : Directions, target : Int, stop : Int, band : 0..399,
                          horizon : Nat, modulated : BOOLEAN, sound : BOOLEAN],
           rules.direction = "short" => rules.target <= 66,
           NEW mark \in Nat, mark > 0, NEW regime
    PROVE  AdviceValid(Bands(rules, mark, regime))
<1> DEFINE px      == 1000 * mark
           target  == rules.target * (IF rules.modulated THEN Multiplier(regime) ELSE 10)
           entryLo == px * (400 - rules.band)
           entryHi == px * (400 + rules.band)
           lo      == Larger(400 * mark * (1000 + target), entryHi + 1)
           hi      == Smaller(400 * mark * (1000 - target), entryLo - 1)
           low     == Smaller(4 * px * (100 - rules.stop), entryLo - 1)
           high    == Larger(4 * px * (100 + rules.stop), entryHi + 1)
<1>1. rules.band \in Nat /\ rules.band < 400 /\ rules.target \in Int /\ rules.stop \in Int
  OBVIOUS
<1>2. px \in Nat /\ px > 0
  OBVIOUS
<1>3. target \in Int /\ (rules.direction = "short" => target <= 990)
  <2> DEFINE m == IF rules.modulated THEN Multiplier(regime) ELSE 10
  <2>1. m \in {4, 5, 6, 7, 10, 13, 15}
    BY DEF Multiplier
  <2>2. target = rules.target * m
    OBVIOUS
  <2> HIDE DEF target, m
  <2>3. ASSUME NEW k \in {4, 5, 6, 7, 10, 13, 15}
        PROVE  rules.target * k \in Int /\ (rules.target <= 66 => rules.target * k <= 990)
    BY <1>1, <2>3
  <2> QED
    BY <2>1, <2>2, <2>3
<1>4. entryLo \in Nat /\ entryLo > 0 /\ entryHi \in Nat /\ entryLo <= entryHi
  <2>1. 400 - rules.band \in Nat /\ 0 < 400 - rules.band /\ 400 + rules.band \in Nat
    BY <1>1
  <2> HIDE DEF px
  <2>2. px * 0 < px * (400 - rules.band)
    BY <1>2, <2>1, LargerProduct
  <2>3. entryLo \in Nat /\ entryHi \in Nat /\ px * 0 = 0
    BY <1>2, <2>1, ProductOfNats
  <2>4. CASE rules.band = 0
    BY <1>2, <2>2, <2>3, <2>4
  <2>5. CASE rules.band > 0
    <3>1. 400 - rules.band < 400 + rules.band /\ 400 - rules.band \in Int /\ 400 + rules.band \in Int
      BY <1>1, <2>5
    <3>2. entryLo < entryHi
      BY <1>2, <3>1, LargerProduct
    <3> QED
      BY <2>2, <2>3, <3>2
  <2> QED
    BY <1>1, <2>4, <2>5
<1>5. /\ 400 * mark * (1000 + target) \in Int /\ 400 * mark * (1000 - target) \in Int
      /\ 4 * px * (100 - rules.stop) \in Int /\ 4 * px * (100 + rules.stop) \in Int
      /\ rules.direction = "short" => 400 * mark * (1000 - target) \in Nat
  <2> HIDE DEF target
  <2>1. 1000 + target \in Int /\ 1000 - target \in Int /\ 100 - rules.stop \in Int /\ 100 + rules.stop \in Int
        /\ 400 * mark \in Nat /\ 4 * px \in Nat
    BY <1>1, <1>2, <1>3
  <2>2. rules.direction = "short" => 1000 - target \in Nat
    BY <1>3
  <2> HIDE DEF px
  <2> DEFINE c == 400 * mark
             d == 4 * px
  <2>3. c \in Nat /\ d \in Nat
    BY <2>1
  <2> HIDE DEF c, d
  <2>4. /\ c * (1000 + target) \in Int /\ c * (1000 - target) \in Int
        /\ d * (100 - rules.stop) \in Int /\ d * (100 + rules.stop) \in Int
    BY <2>1, <2>3
  <2>5. rules.direction = "short" => c * (1000 - target) \in Nat
    BY <2>2, <2>3, ProductOfNats
  <2> QED
    BY <2>4, <2>5 DEF c, d
<1> HIDE DEF entryLo, entryHi, target
<1>6. CASE rules.direction = "long"
  <2>1. lo \in Nat /\ lo > entryHi /\ low \in Int /\ low < entryLo
    BY <1>4, <1>5 DEF Larger, Smaller
  <2>2. lo <= lo + (lo * rules.band) \div 400
    <3> HIDE DEF lo
    <3>1. (lo * rules.band) \div 400 \in Nat
      BY <1>1, <2>1, Widened
    <3> QED
      BY <2>1, <3>1
  <2>3. Bands(rules, mark, regime) =
           [direction |-> "long", entryLo |-> entryLo, entryHi |-> entryHi,
            targetLo |-> lo, targetHi |-> lo + (lo * rules.band) \div 400, stop |-> low]
    BY <1>6 DEF Bands, entryLo, entryHi, target
  <2> HIDE DEF lo, low
  <2> QED
    BY <1>4, <2>1, <2>2, <2>3 DEF AdviceValid
<1>7. CASE rules.direction = "short"
  <2>1. hi \in Nat /\ hi < entryLo /\ high \in Int /\ high > entryHi
    BY <1>4, <1>5, <1>7 DEF Larger, Smaller
  <2>2. hi - (hi * rules.band) \div 400 <= hi
    <3> HIDE DEF hi
    <3>1. (hi * rules.band) \div 400 \in Nat
      BY <1>1, <2>1, Widened
    <3> QED
      BY <2>1, <3>1
  <2>3. Bands(rules, mark, regime) =
           [direction |-> "short", entryLo |-> entryLo, entryHi |-> entryHi,
            targetLo |-> hi - (hi * rules.band) \div 400, targetHi |-> hi, stop |-> high]
    BY <1>7 DEF Bands, entryLo, entryHi, target
  <2> HIDE DEF hi, high
  <2> QED
    BY <1>4, <2>1, <2>2, <2>3 DEF AdviceValid
<1>8. CASE rules.direction = "flat"
  <2>1. Bands(rules, mark, regime) =
           [direction |-> "flat", entryLo |-> 400 * px, entryHi |-> 400 * px,
            targetLo |-> 400 * px, targetHi |-> 400 * px, stop |-> 400 * px]
    BY <1>8 DEF Bands
  <2> QED
    BY <1>2, <2>1 DEF AdviceValid
<1> QED
  BY <1>6, <1>7, <1>8 DEF Directions

\* The runs of the personas on the marks.
RunsAsk ==
    /\ DOMAIN run = Personas
    /\ \A r \in Personas : run[r].at = "chat" => run[r].asset \in Assets /\ run[r].when \in Nat

DeskOfPersonasInv == MarkInv /\ RunsAsk /\ RefusalIsOfTheFile

LEMMA PersonaStep ==
    DeskOfPersonasInv /\ [PersonaNext]_<<markVars, personaVars>> => DeskOfPersonasInv'
<1> SUFFICES ASSUME DeskOfPersonasInv, [PersonaNext]_<<markVars, personaVars>> PROVE DeskOfPersonasInv'
  OBVIOUS
<1> USE DEF DeskOfPersonasInv
<1>0. Personas \subseteq Readers /\ time \in Nat
  BY PersonaAssumption DEF PersonaAssumption, MarkInv, MarkTypeOK
<1>1. ASSUME UNCHANGED personaVars PROVE RunsAsk' /\ RefusalIsOfTheFile'
  BY <1>1 DEF personaVars, RunsAsk, RefusalIsOfTheFile
<1>2. ASSUME NEW r \in Personas, NEW result \in {"no_advice", "error", "wordy", "refused"}, Ends(r, result),
             result = "refused" => Rules[r].horizon \notin 1..365 \/ ~Rules[r].sound
      PROVE  RunsAsk' /\ RefusalIsOfTheFile'
  <2>1. /\ DOMAIN run' = Personas /\ run'[r].at = result
        /\ \A q \in Personas \ {r} : run'[q] = run[q]
    BY <1>2 DEF Ends, RunsAsk, IdleRun
  <2> QED
    BY <1>2, <2>1 DEF RunsAsk, RefusalIsOfTheFile
<1>3. ASSUME NEW r \in Personas, NEW where \in {"mark", "unmarked"}, Goes(r, where)
      PROVE  RunsAsk' /\ RefusalIsOfTheFile'
  <2>1. /\ DOMAIN run' = Personas /\ run'[r].at = where
        /\ \A q \in Personas \ {r} : run'[q] = run[q]
    BY <1>3 DEF Goes, RunsAsk
  <2> QED
    BY <1>3, <2>1 DEF RunsAsk, RefusalIsOfTheFile
<1>4. ASSUME NEW r \in Personas, NEW d \in Digests \cup {NoInputs}, Wakes(r, d) PROVE DeskOfPersonasInv'
  <2> DEFINE relevant == IF d = NoInputs THEN {} ELSE Relevant(d.events, Active[r])
  <2>1. UNCHANGED markVars
    BY <1>4 DEF Wakes
  <2>2. CASE relevant = {}
    BY <1>2, <1>4, <2>1, <2>2, RestStep DEF Wakes
  <2>3. CASE relevant # {}
    <3>1. run' = [run EXCEPT ![r] = [at |-> "chat", asset |-> d.events[Min(relevant)].asset,
                                     regime |-> d.regime, when |-> time]]
      BY <1>4, <2>3 DEF Wakes
    <3>2. d \in Digests /\ relevant \subseteq 1..Len(d.events) /\ Len(d.events) \in Nat
      BY <2>3, PersonaAssumption DEF PersonaAssumption, Relevant
    <3>3. Min(relevant) \in relevant
      <4>1. relevant \subseteq Nat
        BY <3>2
      <4> HIDE DEF relevant
      <4>2. \E i \in relevant : \A j \in relevant : i <= j
        BY <4>1, <2>3, SmallestOf
      <4> QED
        BY <4>2 DEF Min
    <3>4. d.events[Min(relevant)].asset \in Assets
      <4>1. Min(relevant) \in 1..Len(d.events)
        BY <3>2, <3>3
      <4> QED
        BY <3>2, <4>1, PersonaAssumption DEF PersonaAssumption
    <3> HIDE DEF relevant
    <3>5. RunsAsk' /\ RefusalIsOfTheFile'
      BY <1>0, <3>1, <3>4 DEF RunsAsk, RefusalIsOfTheFile
    <3> QED
      BY <2>1, <3>5, RestStep
  <2> QED
    BY <2>2, <2>3
<1>5. ASSUME NEW r \in Personas, ThesisFails(r) PROVE DeskOfPersonasInv'
  BY <1>2, <1>5, RestStep DEF ThesisFails
<1>6. ASSUME NEW r \in Personas, AsksMark(r) PROVE DeskOfPersonasInv'
  BY <1>0, <1>3, <1>6, AskStep DEF AsksMark, RunsAsk
<1>7. ASSUME NEW r \in Personas, SkipsMark(r) PROVE DeskOfPersonasInv'
  BY <1>3, <1>7, RestStep DEF SkipsMark
<1>8. ASSUME NEW r \in Personas, Advises(r) PROVE DeskOfPersonasInv'
  <2> DEFINE bar == IF run[r].at = "mark" THEN reader[r].mark.bar ELSE 0
             a   == Bands(Rules[r], AnchorPrice(bar), run[r].regime)
  <2>1. /\ r \in Readers /\ UNCHANGED <<time, bars, mem, redis, stall>>
        /\ (run[r].at = "unmarked" /\ UNCHANGED reader) \/ (run[r].at = "mark" /\ Used(r))
        /\ \/ Ends(r, "wordy") \/ Ends(r, "error")
           \/ Ends(r, "refused") /\ ~AdviceAccepted(a, Rules[r])
    BY <1>0, <1>8 DEF Advises
  <2>2. MarkInv'
    BY <2>1, RestStep, UseStep DEF markVars
  <2>3. AnchorPrice(bar) \in Nat /\ AnchorPrice(bar) > 0
    <3>1. bar \in Nat
      BY <2>1 DEF MarkInv, MarkTypeOK, Marks
    <3> HIDE DEF bar
    <3> QED
      BY <3>1, PersonaAssumption DEF AnchorPrice, PersonaAssumption
  <2>4. AdviceValid(a)
    <3> HIDE DEF bar
    <3> QED
      BY <2>3, BandsFit, PersonaAssumption DEF PersonaAssumption
  <2>5. ~AdviceAccepted(a, Rules[r]) => Rules[r].horizon \notin 1..365 \/ ~Rules[r].sound
    <3> HIDE DEF a
    <3> QED
      BY <2>4 DEF AdviceAccepted
  <2>6. RunsAsk' /\ RefusalIsOfTheFile'
    <3> HIDE DEF a
    <3> QED
      BY <1>2, <2>1, <2>5
  <2> QED
    BY <2>2, <2>6
<1>9. ASSUME NEW r \in Readers \ Personas, TeamReads(r) PROVE DeskOfPersonasInv'
  BY <1>0, <1>1, <1>9, AskStep, MarkAssumption DEF TeamReads, MarkAssumption
<1>10. ASSUME NEW r \in Readers \ Personas, TeamDecides(r) PROVE DeskOfPersonasInv'
  BY <1>1, <1>10, UseStep DEF TeamDecides
<1>11. ASSUME NEW r \in Readers, GetMark(r), UNCHANGED personaVars PROVE DeskOfPersonasInv'
  BY <1>1, <1>11, GetStep
<1>12. CASE (BarArrives \/ TimePasses) /\ UNCHANGED personaVars
  BY <1>1, <1>12, BarStep, TimeStep
<1>13. CASE UNCHANGED <<markVars, personaVars>>
  BY <1>1, <1>13, RestStep
<1> QED
  BY <1>4, <1>5, <1>6, <1>7, <1>8, <1>9, <1>10, <1>11, <1>12, <1>13 DEF PersonaNext

LEMMA PersonaStart == PersonaInit => DeskOfPersonasInv
<1> SUFFICES ASSUME PersonaInit PROVE DeskOfPersonasInv
  OBVIOUS
<1>1. MarkTypeOK
  <2>1. Empty \in MarkEntries /\ IdleReader \in [at : ReaderStages, asset : Askable, asof : Nat, mark : Marks]
        /\ IdleReader.at = "idle"
    BY MarkAssumption DEF MarkAssumption, Empty, MarkEntries, IdleReader, ReaderStages, Askable, Marks, NoMark
  <2>2. time = 0 /\ stall = 0 /\ bars = {}
    BY DEF PersonaInit, MarkInit
  <2> QED
    BY <2>1, <2>2 DEF PersonaInit, MarkInit, MarkTypeOK
<1>2. EntriesCover
  BY <1>1, EmptyCovers DEF PersonaInit, MarkInit, EntriesCover
<1>3. \A r \in Readers : reader[r].at = "idle"
  BY DEF PersonaInit, MarkInit, IdleReader
<1>4. HeldMarksCover /\ WrongMarkHasCause
  BY <1>3 DEF HeldMarksCover, WrongMarkHasCause, Answered
<1>5. RunsAsk /\ RefusalIsOfTheFile
  BY DEF PersonaInit, IdleRun, RunsAsk, RefusalIsOfTheFile
<1> QED
  BY <1>1, <1>2, <1>4, <1>5 DEF DeskOfPersonasInv, MarkInv

\* However the calls of get_mark interleave in and across processes, and whatever fails:
\* a mark is wrong for its query time only with a cause.
THEOREM WrongMarksAreExplained == PersonaSpec => []WrongMarkHasCause
<1>1. DeskOfPersonasInv => WrongMarkHasCause
  BY DEF DeskOfPersonasInv, MarkInv
<1> QED
  BY <1>1, PersonaStart, PersonaStep, PTL DEF PersonaSpec

\* A memo of fit length that the schema refuses is of a file that asks for it.
LEMMA RefusalsAreOfFiles == PersonaSpec => []RefusalIsOfTheFile
<1>1. DeskOfPersonasInv => RefusalIsOfTheFile
  BY DEF DeskOfPersonasInv
<1> QED
  BY <1>1, PersonaStart, PersonaStep, PTL DEF PersonaSpec

\* Whatever the marks, rules and valuations: a persona's memo with a thesis of fit length is
\* refused only for the horizon, the confidence or the disclaimer of its file, the fundamental desk advises only on a price beyond its bear and its
\* bull case, or equal to both, and a shaped trade is refused only for want of an ATR.
THEOREM SchemaIsMet == PersonaSpec /\ WritersSpec => []WritersMeetSchema
<1>1. RefusalIsOfTheFile /\ AdvisedPriceIsOutside /\ ShapedTradesPass => WritersMeetSchema
  BY DEF WritersMeetSchema
<1> QED
  BY <1>1, RefusalsAreOfFiles, WritersPass, PTL

-----------------------------------------------------------------------------
(* The intelligence desk.                                                    *)

DeskTypeOK ==
    /\ bootEnv \in IntelBoots \cup {Down}
    /\ stage \in [Calls -> {"idle", "crawl", "synth", "brief", "done", "failed", "refused"}]
    /\ unread \in [Calls -> SUBSET Stories] /\ feed \subseteq Stories
    /\ accepted \in [Calls -> SUBSET Stories] /\ claimed \in [Calls -> SUBSET Stories]
    /\ DOMAIN replies = Calls

\* A run at work has the keys of what it has claimed.
KeysAreHeld == \A c \in Calls : Working(c) => claimed[c] \subseteq gateKeys

\* Every row is of a story that somebody has claimed.
RowsWereClaimed == \A s \in eventRows : \E c \in Calls : s \in claimed[c]

\* What is in a digest has its key or its row still, unless both went with a process.
DigestsAreKept == \A c \in Calls : accepted[c] \subseteq gateKeys \cup eventRows \cup wiped

\* A run that has not failed has put what it claimed into its digest, or found the row of
\* another run.
ClaimsAreDigested ==
    \A c \in Calls :
        /\ stage[c] \in {"idle", "refused"} => claimed[c] = {} /\ accepted[c] = {}
        /\ stage[c] # "failed" =>
              \A s \in claimed[c] \ accepted[c] : \E d \in Calls \ {c} : s \in claimed[d]

DeskInv ==
    DeskTypeOK /\ KeysAreHeld /\ RowsWereClaimed /\ DigestsAreKept /\ ClaimsAreDigested /\ DigestedOnce

LEMMA StoryTaken == ASSUME DeskInv, NEW c \in Calls, TakeStory(c) PROVE DeskInv'
<1> USE DEF DeskInv, DeskTypeOK
<1>1. PICK s \in unread[c] :
          /\ unread' = [unread EXCEPT ![c] = @ \ {s}]
          /\ gateKeys' = gateKeys \union {s}
          /\ claimed' = [claimed EXCEPT ![c] = @ \union ({s} \ gateKeys)]
          /\ IF s \in gateKeys
             THEN UNCHANGED <<stage, accepted, eventRows>>
             ELSE \/ /\ s \in NeedsLlm
                     /\ stage' = [stage EXCEPT ![c] = "failed"]
                     /\ UNCHANGED <<accepted, eventRows>>
                  \/ /\ s \in NeedsLlm => bootEnv.llm
                     /\ eventRows' = eventRows \union {s}
                     /\ accepted' = [accepted EXCEPT ![c] = Accepting(c, s)]
                     /\ UNCHANGED stage
  BY DEF TakeStory
<1>2. /\ stage[c] = "crawl" /\ UNCHANGED <<bootEnv, bound, feed, replies, boots, wiped>>
  BY DEF TakeStory
<1>3. DeskTypeOK'
  <2>1. s \in Stories /\ Accepting(c, s) \in SUBSET Stories /\ {s} \ gateKeys \in SUBSET Stories
    BY <1>1 DEF Accepting
  <2>2. unread' \in [Calls -> SUBSET Stories] /\ claimed' \in [Calls -> SUBSET Stories]
    BY <1>1, <2>1
  <2>3. /\ stage' \in [Calls -> {"idle", "crawl", "synth", "brief", "done", "failed", "refused"}]
        /\ accepted' \in [Calls -> SUBSET Stories]
    BY <1>1, <2>1
  <2> QED
    BY <1>2, <2>2, <2>3
<1>4. \A d \in Calls : Working(d)' => Working(d)
  BY <1>1, <1>2 DEF Working
<1>5. /\ \A d \in Calls : claimed[d] \subseteq claimed'[d]
      /\ \A d \in Calls \ {c} : claimed'[d] = claimed[d]
      /\ claimed'[c] = claimed[c] \cup ({s} \ gateKeys)
  BY <1>1
<1>6. KeysAreHeld'
  <2> SUFFICES ASSUME NEW d \in Calls, Working(d)' PROVE claimed'[d] \subseteq gateKeys'
    BY DEF KeysAreHeld
  <2>1. claimed[d] \subseteq gateKeys
    BY <1>4 DEF KeysAreHeld
  <2> QED
    BY <2>1, <1>1, <1>5
<1>7. CASE s \in gateKeys
  <2>1. claimed' = claimed /\ UNCHANGED <<stage, accepted, eventRows>> /\ gateKeys' = gateKeys
    <3>1. {s} \ gateKeys = {}
      BY <1>7
    <3> QED
      BY <3>1, <1>1, <1>7
  <2> QED
    BY <2>1, <1>2, <1>3, <1>6 DEF RowsWereClaimed, DigestsAreKept, ClaimsAreDigested, DigestedOnce, Working
<1>8. CASE s \notin gateKeys /\ stage' = [stage EXCEPT ![c] = "failed"] /\ UNCHANGED <<accepted, eventRows>>
  <2>1. RowsWereClaimed'
    BY <1>8, <1>5 DEF RowsWereClaimed
  <2>2. DigestsAreKept' /\ DigestedOnce'
    BY <1>1, <1>2, <1>8 DEF DigestsAreKept, DigestedOnce
  <2>3. ClaimsAreDigested'
    BY <1>2, <1>5, <1>8 DEF ClaimsAreDigested
  <2> QED
    BY <2>1, <2>2, <2>3, <1>3, <1>6
<1>9. CASE /\ s \notin gateKeys /\ eventRows' = eventRows \union {s} /\ UNCHANGED stage
           /\ accepted' = [accepted EXCEPT ![c] = Accepting(c, s)]
  <2>1. s \notin claimed[c]
    BY <1>2, <1>9 DEF KeysAreHeld, Working
  <2>2. claimed'[c] = claimed[c] \cup {s} /\ accepted'[c] = accepted[c] \cup ({s} \ eventRows)
        /\ \A d \in Calls \ {c} : accepted'[d] = accepted[d]
    BY <1>5, <1>9 DEF Accepting
  <2>3. RowsWereClaimed'
    BY <1>5, <1>9, <2>2 DEF RowsWereClaimed
  <2>4. DigestsAreKept'
    BY <1>1, <1>2, <1>9, <2>2 DEF DigestsAreKept
  <2>5. ClaimsAreDigested'
    <3> SUFFICES ASSUME NEW d \in Calls
                 PROVE  /\ stage'[d] \in {"idle", "refused"} => claimed'[d] = {} /\ accepted'[d] = {}
                        /\ stage'[d] # "failed" => \A x \in claimed'[d] \ accepted'[d] :
                              \E e \in Calls \ {d} : x \in claimed'[e]
      BY DEF ClaimsAreDigested
    <3>1. CASE d # c
      BY <1>2, <1>5, <1>9, <2>2, <3>1 DEF ClaimsAreDigested
    <3>2. CASE d = c
      <4>1. ASSUME NEW x \in claimed'[c] \ accepted'[c] PROVE \E e \in Calls \ {c} : x \in claimed'[e]
        <5>1. CASE x \in claimed[c]
          BY <1>2, <1>5, <2>2, <4>1, <5>1 DEF ClaimsAreDigested
        <5>2. CASE x = s
          <6>1. s \in eventRows
            BY <2>2, <4>1, <5>2
          <6>2. PICK e \in Calls : s \in claimed[e]
            BY <6>1 DEF RowsWereClaimed
          <6> QED
            BY <2>1, <6>2, <1>5, <5>2
        <5> QED
          BY <4>1, <5>1, <5>2, <2>2
      <4> QED
        BY <1>2, <1>9, <3>2, <4>1
    <3> QED
      BY <3>1, <3>2
  <2>6. DigestedOnce'
    <3> SUFFICES ASSUME NEW d \in Calls, NEW e \in Calls, d # e,
                        NEW x \in accepted'[d] \cap accepted'[e]
                 PROVE  x \in wiped'
      BY DEF DigestedOnce
    <3>1. CASE x \in accepted[d] \cap accepted[e]
      BY <3>1, <1>2 DEF DigestedOnce
    <3>2. CASE x \notin accepted[d] \cap accepted[e]
      <4>1. x = s /\ s \notin eventRows /\ (x \in accepted[d] \/ x \in accepted[e])
        BY <2>2, <3>2
      <4> QED
        BY <4>1, <1>2, <1>9 DEF DigestsAreKept
    <3> QED
      BY <3>1, <3>2
  <2> QED
    BY <2>3, <2>4, <2>5, <2>6, <1>3, <1>6
<1> QED
  BY <1>1, <1>7, <1>8, <1>9

LEMMA DeskStep == DeskInv /\ [DeskNext]_deskVars => DeskInv'
<1> SUFFICES ASSUME DeskInv, [DeskNext]_deskVars PROVE DeskInv'
  OBVIOUS
<1> USE DEF DeskInv, DeskTypeOK
<1>1. CASE BootIntel
  <2>1. bootEnv' \in IntelBoots /\ UNCHANGED <<feed, gateKeys, eventRows, stage, unread, accepted, replies, claimed, wiped>>
    BY <1>1 DEF BootIntel
  <2> QED
    BY <2>1 DEF KeysAreHeld, RowsWereClaimed, DigestsAreKept, ClaimsAreDigested, DigestedOnce, Working
<1>2. CASE KillIntel
  <2>1. /\ bootEnv' = Down /\ UNCHANGED <<feed, unread, accepted, replies, claimed>>
        /\ gateKeys' \subseteq gateKeys /\ eventRows' \subseteq eventRows
        /\ wiped' = wiped \union ((gateKeys \union eventRows) \ (gateKeys' \union eventRows'))
        /\ stage' = [c \in Calls |-> IF Working(c) THEN "failed" ELSE stage[c]]
    BY <1>2 DEF KillIntel
  <2>2. DeskTypeOK' /\ RowsWereClaimed' /\ DigestsAreKept' /\ DigestedOnce'
    BY <2>1 DEF RowsWereClaimed, DigestsAreKept, DigestedOnce
  <2>3. KeysAreHeld'
    BY <2>1 DEF KeysAreHeld, Working
  <2>4. ClaimsAreDigested'
    BY <2>1 DEF ClaimsAreDigested, Working
  <2> QED
    BY <2>2, <2>3, <2>4
<1>3. CASE StoryAppears
  <2>1. feed' \subseteq Stories /\ UNCHANGED <<bootEnv, gateKeys, eventRows, stage, unread, accepted, replies, claimed, wiped>>
    BY <1>3 DEF StoryAppears
  <2> QED
    BY <2>1 DEF KeysAreHeld, RowsWereClaimed, DigestsAreKept, ClaimsAreDigested, DigestedOnce, Working
<1>4. ASSUME NEW c \in Calls, Request(c) PROVE DeskInv'
  <2>1. /\ stage[c] = "idle" /\ unread' = [unread EXCEPT ![c] = feed]
        /\ stage' \in {[stage EXCEPT ![c] = "crawl"], [stage EXCEPT ![c] = "refused"]}
        /\ UNCHANGED <<bootEnv, feed, gateKeys, eventRows, accepted, replies, claimed, wiped>>
    BY <1>4 DEF Request
  <2>2. KeysAreHeld' /\ ClaimsAreDigested'
    BY <2>1 DEF KeysAreHeld, ClaimsAreDigested, Working
  <2> QED
    BY <2>1, <2>2 DEF RowsWereClaimed, DigestsAreKept, DigestedOnce
<1>5. ASSUME NEW c \in Calls, TakeStory(c) PROVE DeskInv'
  BY <1>5, StoryTaken
<1>6. ASSUME NEW c \in Calls, Synthesize(c) \/ ComposeBrief(c) PROVE DeskInv'
  <2>1. /\ Working(c) /\ DOMAIN replies' = Calls
        /\ UNCHANGED <<bootEnv, feed, gateKeys, eventRows, unread, accepted, claimed, wiped>>
        /\ \E to \in {"synth", "brief", "done", "failed"} : stage' = [stage EXCEPT ![c] = to]
    BY <1>6 DEF Synthesize, ComposeBrief, Working
  <2>2. KeysAreHeld' /\ ClaimsAreDigested'
    BY <2>1 DEF KeysAreHeld, ClaimsAreDigested, Working
  <2> QED
    BY <2>1, <2>2 DEF RowsWereClaimed, DigestsAreKept, DigestedOnce
<1>7. CASE UNCHANGED deskVars
  BY <1>7 DEF deskVars, KeysAreHeld, RowsWereClaimed, DigestsAreKept, ClaimsAreDigested, DigestedOnce, Working
<1> QED
  BY <1>1, <1>2, <1>3, <1>4, <1>5, <1>6, <1>7 DEF DeskNext

THEOREM StoriesAreTold == DeskSpec => []StoriesAreToldOnce
<1>1. DeskInit => DeskInv
  BY DEF DeskInit, DeskInv, DeskTypeOK, KeysAreHeld, RowsWereClaimed, DigestsAreKept,
         ClaimsAreDigested, DigestedOnce, Working
<1>2. DeskInv => StoriesAreToldOnce
  <2> SUFFICES ASSUME DeskInv PROVE UnbriefedHasCause
    BY DEF DeskInv, StoriesAreToldOnce
  <2> SUFFICES ASSUME NEW c \in Calls, NEW s \in claimed[c], ~Working(c), Requests[c] = "synthesize",
                      stage[c] # "failed"
               PROVE  Briefed(s) \/ (s \notin accepted[c] /\ \E d \in Calls \ {c} : s \in claimed[d])
    BY DEF UnbriefedHasCause
  <2>1. stage[c] = "done"
    BY DEF DeskInv, DeskTypeOK, ClaimsAreDigested, Working
  <2> QED
    BY <2>1 DEF Briefed, DeskInv, ClaimsAreDigested
<1> QED
  BY <1>1, <1>2, DeskStep, PTL DEF DeskSpec

-----------------------------------------------------------------------------
(* Places in an order, and the secretary.                                    *)

\* What stands before x in the order R of S.
Before(x, R, S) == {y \in S : <<y, x>> \in R}

Orders(R, S) ==
    /\ \A x \in S : <<x, x>> \notin R
    /\ \A x, y, z \in S : <<x, y>> \in R /\ <<y, z>> \in R => <<x, z>> \in R
    /\ \A x, y \in S : x # y => <<x, y>> \in R \/ <<y, x>> \in R

\* The places in an order of a finite set are the numbers below its size, each taken once.
LEMMA Ranked ==
    ASSUME NEW S, IsFiniteSet(S), NEW R, Orders(R, S)
    PROVE  /\ \A x \in S : Cardinality(Before(x, R, S)) \in 0..(Cardinality(S) - 1)
           /\ \A x, y \in S : <<x, y>> \in R <=> Cardinality(Before(x, R, S)) < Cardinality(Before(y, R, S))
           /\ \A k \in 0..(Cardinality(S) - 1) : \E x \in S : Cardinality(Before(x, R, S)) = k
<1> DEFINE n == Cardinality(S)
           rank == [x \in S |-> Cardinality(Before(x, R, S))]
<1>1. n \in Nat /\ \A x \in S : IsFiniteSet(Before(x, R, S)) /\ Cardinality(Before(x, R, S)) \in Nat
  BY FS_Subset, FS_CardinalityType DEF Before
<1>2. ASSUME NEW x \in S, NEW T \in SUBSET S, Before(x, R, S) \subseteq T, x \in T
      PROVE  Cardinality(Before(x, R, S)) < Cardinality(T)
  <2>1. IsFiniteSet(T) /\ Cardinality(T) \in Nat
    BY FS_Subset, FS_CardinalityType
  <2>2. x \notin Before(x, R, S)
    BY DEF Before, Orders
  <2>3. Cardinality(Before(x, R, S)) <= Cardinality(T) /\ Cardinality(Before(x, R, S)) # Cardinality(T)
    BY <1>2, <2>1, <2>2, FS_Subset
  <2> QED
    BY <1>1, <2>1, <2>3
<1>3. \A x \in S : rank[x] \in 0..(n - 1)
  BY <1>1, <1>2 DEF Before
<1>4. ASSUME NEW x \in S, NEW y \in S, <<x, y>> \in R PROVE rank[x] < rank[y]
  <2>1. Before(x, R, S) \subseteq Before(y, R, S) /\ x \in Before(y, R, S) /\ Before(y, R, S) \in SUBSET S
    BY <1>4 DEF Before, Orders
  <2> QED
    BY <1>2, <2>1
<1>5. ASSUME NEW x \in S, NEW y \in S, rank[x] < rank[y] PROVE <<x, y>> \in R
  <2>1. x # y /\ ~(rank[y] < rank[x])
    BY <1>1, <1>5
  <2> QED
    BY <1>4, <2>1 DEF Orders
<1>6. rank \in Injection(S, 0..(n - 1))
  <2>1. ASSUME NEW x \in S, NEW y \in S, x # y PROVE rank[x] # rank[y]
    <3>1. <<x, y>> \in R \/ <<y, x>> \in R
      BY <2>1 DEF Orders
    <3>2. rank[x] < rank[y] \/ rank[y] < rank[x]
      BY <1>4, <3>1
    <3> QED
      BY <1>1, <3>2
  <2> HIDE DEF rank
  <2>2. rank \in [S -> 0..(n - 1)]
    BY <1>3 DEF rank
  <2> QED
    BY <2>1, <2>2 DEF Injection, IsInjective
<1>7. IsFiniteSet(0..(n - 1)) /\ Cardinality(0..(n - 1)) = n
  <2>1. 0 \in Int /\ n - 1 \in Int /\ (IF 0 > n - 1 THEN 0 ELSE (n - 1) - 0 + 1) = n
    BY <1>1
  <2> HIDE DEF n
  <2>2. IsFiniteSet(0..(n - 1)) /\ Cardinality(0..(n - 1)) = IF 0 > n - 1 THEN 0 ELSE (n - 1) - 0 + 1
    BY <2>1, FS_Interval, Zenon
  <2> QED
    BY <2>1, <2>2
<1>8. rank \in Surjection(S, 0..(n - 1))
  <2> HIDE DEF rank
  <2> QED
    BY <1>6, <1>7, FS_Injection
<1>9. \A k \in 0..(n - 1) : \E x \in S : rank[x] = k
  BY <1>8 DEF Surjection
<1> QED
  BY <1>3, <1>4, <1>5, <1>9

-----------------------------------------------------------------------------
\* Turns are told apart by their time stamps.
StampsTellApart(turns) == \A t, u \in turns : t.ts = u.ts => t = u

ByStamp(turns) == {p \in turns \X turns : p[1].ts < p[2].ts}

\* The turns of a conversation in their order: the k-th has k - 1 before it.
LEMMA InTheOrder ==
    ASSUME NEW turns, IsFiniteSet(turns), \A t \in turns : t.ts \in Nat, StampsTellApart(turns)
    PROVE  /\ Cardinality(turns) \in Nat
           /\ ByTime(turns) \in [1..Cardinality(turns) -> turns]
           /\ \A k \in 1..Cardinality(turns) :
                 /\ ByTime(turns)[k] \in turns
                 /\ Cardinality({u \in turns : u.ts < ByTime(turns)[k].ts}) = k - 1
           /\ \A t \in turns : \E k \in 1..Cardinality(turns) : t = ByTime(turns)[k]
           /\ \A j, k \in 1..Cardinality(turns) : j < k <=> ByTime(turns)[j].ts < ByTime(turns)[k].ts
<1> DEFINE n == Cardinality(turns)
           R == ByStamp(turns)
           rank(t) == Cardinality(Before(t, R, turns))
           s == ByTime(turns)
<1>0. n \in Nat
  BY FS_CardinalityType
<1>1. Orders(R, turns)
  <2>1. \A t, u \in turns : <<t, u>> \in R <=> t.ts < u.ts
    BY DEF ByStamp
  <2> HIDE DEF R
  <2> QED
    BY <2>1 DEF Orders, StampsTellApart
<1>2. \A t \in turns : Before(t, R, turns) = {u \in turns : u.ts < t.ts}
  BY DEF Before, ByStamp
<1>3. /\ \A t \in turns : rank(t) \in 0..(n - 1)
      /\ \A t, u \in turns : <<t, u>> \in R <=> rank(t) < rank(u)
      /\ \A k \in 0..(n - 1) : \E t \in turns : rank(t) = k
  <2> HIDE DEF R
  <2> QED
    BY <1>1, Ranked
<1>4. \A t, u \in turns : t.ts < u.ts <=> rank(t) < rank(u)
  <2>1. \A t, u \in turns : <<t, u>> \in R <=> t.ts < u.ts
    BY DEF ByStamp
  <2> HIDE DEF R
  <2> QED
    BY <1>3, <2>1
<1>5. ASSUME NEW k \in 1..n PROVE s[k] \in turns /\ rank(s[k]) = k - 1
  <2>1. k - 1 \in 0..(n - 1)
    BY <1>0
  <2>2. PICK t \in turns : rank(t) = k - 1
    BY <1>3, <2>1
  <2>3. s[k] = CHOOSE u \in turns : Cardinality({v \in turns : v.ts < u.ts}) = k - 1
    BY DEF ByTime
  <2>4. t \in turns /\ Cardinality({v \in turns : v.ts < t.ts}) = k - 1
    BY <1>2, <2>2
  <2>5. s[k] \in turns /\ Cardinality({v \in turns : v.ts < s[k].ts}) = k - 1
    <3> HIDE DEF s
    <3> QED
      BY <2>3, <2>4
  <2> QED
    BY <1>2, <2>5
<1>8. s \in [1..n -> turns]
  <2> DEFINE nth(k) == CHOOSE t \in turns : Cardinality({u \in turns : u.ts < t.ts}) = k - 1
  <2>1. s = [k \in 1..n |-> nth(k)]
    BY DEF ByTime
  <2>2. \A k \in 1..n : s[k] = nth(k)
    BY <2>1
  <2>3. \A k \in 1..n : nth(k) \in turns
    BY <1>5, <2>2
  <2> HIDE DEF nth, s, n
  <2> QED
    BY <2>1, <2>3
<1> HIDE DEF s, R, n
<1>6. ASSUME NEW t \in turns PROVE \E k \in 1..n : t = s[k]
  <2> DEFINE k == rank(t) + 1
  <2>1. rank(t) \in 0..(n - 1)
    BY <1>3
  <2>2. k \in 1..n /\ k - 1 = rank(t)
    BY <2>1, <1>0
  <2>3. s[k] \in turns /\ rank(s[k]) = rank(t)
    BY <2>2, <1>5
  <2>4. rank(s[k]) \in 0..(n - 1)
    BY <2>3, <1>3
  <2> HIDE DEF k
  <2>5. ~(t.ts < s[k].ts) /\ ~(s[k].ts < t.ts)
    BY <1>4, <2>1, <2>3, <2>4
  <2>6. t.ts \in Nat /\ s[k].ts \in Nat
    BY <2>3
  <2>7. t.ts = s[k].ts
    BY <2>5, <2>6
  <2> QED
    BY <2>2, <2>3, <2>7 DEF StampsTellApart
<1>7. ASSUME NEW j \in 1..n, NEW k \in 1..n PROVE j < k <=> s[j].ts < s[k].ts
  <2>1. j < k <=> j - 1 < k - 1
    BY <1>0
  <2> QED
    BY <1>4, <1>5, <2>1
<1> QED
  BY <1>0, <1>2, <1>5, <1>6, <1>7, <1>8 DEF s, n

\* What a part of a sequence holds.
LEMMA PartOfSeq ==
    ASSUME NEW S, NEW s \in Seq(S), NEW a \in Int, NEW b \in Int, 1 <= a, b <= Len(s)
    PROVE  ToSet(SubSeq(s, a, b)) = {s[i] : i \in a..b}
<1> DEFINE q == SubSeq(s, a, b)
<1>0. Len(s) \in Nat
  OBVIOUS
<1>1. CASE a > b
  <2>1. q = <<>>
    BY <1>0, <1>1
  <2>2. a..b = {} /\ DOMAIN q = {}
    BY <1>1, <2>1
  <2> HIDE DEF q
  <2> QED
    BY <2>2 DEF ToSet, q
<1>2. CASE a <= b
  <2>1. DOMAIN q = 1..(b - a + 1) /\ \A i \in 1..(b - a + 1) : q[i] = s[a + i - 1]
    BY <1>0, <1>2
  <2> HIDE DEF q
  <2>2. ToSet(q) = {q[i] : i \in 1..(b - a + 1)}
    BY <2>1 DEF ToSet
  <2>3. \A i \in 1..(b - a + 1) : a + i - 1 \in a..b
    BY <1>2
  <2>4. \A i \in a..b : i - a + 1 \in 1..(b - a + 1) /\ a + (i - a + 1) - 1 = i
    BY <1>2
  <2>5. \A x : x \in ToSet(q) <=> x \in {s[i] : i \in a..b}
    <3>1. ASSUME NEW x \in ToSet(q) PROVE x \in {s[i] : i \in a..b}
      BY <2>1, <2>2, <2>3
    <3>2. ASSUME NEW i \in a..b PROVE s[i] \in ToSet(q)
      BY <2>1, <2>2, <2>4
    <3> QED
      BY <3>1, <3>2
  <2> QED
    BY <2>5 DEF q
<1> QED
  BY <1>1, <1>2

\* The turns before an instant that fit into the window with the one at that instant.
LatestBefore(turns, ts) ==
    LET prior == {t \in turns : t.ts < ts}
    IN  {t \in prior : Cardinality({u \in prior : u.ts > t.ts}) < Window - 1}

\* The context holds the latest turns before the own one, when that one is the last and the
\* store keeps the latest.
LEMMA ContextHoldsLatest ==
    ASSUME NEW turns, IsFiniteSet(turns), \A t \in turns : t.ts \in Nat, StampsTellApart(turns),
           NEW own \in turns, \A t \in turns : t.ts <= own.ts,
           backend = "memory" \/ ~(Cardinality(turns) > Window)
    PROVE  ToSet(Context(turns)) = LatestBefore(turns, own.ts)
<1> DEFINE n == Cardinality(turns)
           s == ByTime(turns)
           prior == {t \in turns : t.ts < own.ts}
           later(t) == {u \in prior : u.ts > t.ts}
           latest == {t \in prior : Cardinality(later(t)) < Window - 1}
<1>0. n \in Nat /\ Window \in Nat /\ Window >= 1
  BY FS_CardinalityType, SecretaryAssumption DEF SecretaryAssumption
<1>1. /\ \A k \in 1..n : s[k] \in turns /\ Cardinality({u \in turns : u.ts < s[k].ts}) = k - 1
      /\ \A t \in turns : \E k \in 1..n : t = s[k]
      /\ \A j, k \in 1..n : j < k <=> s[j].ts < s[k].ts
  BY InTheOrder
<1>2. s \in Seq(turns) /\ Len(s) = n
  <2>1. s \in [1..n -> turns]
    BY InTheOrder
  <2> HIDE DEF s, n
  <2> QED
    BY <1>0, <2>1
<1> HIDE DEF s, n
<1>3. n >= 1 /\ s[n] = own
  <2>1. PICK k \in 1..n : own = s[k]
    BY <1>1
  <2>2. n \in 1..n /\ s[n] \in turns
    BY <1>0, <1>1, <2>1
  <2>3. ~(own.ts < s[n].ts)
    <3>1. s[n].ts <= own.ts /\ s[n].ts \in Nat /\ own.ts \in Nat
      BY <2>2
    <3> QED
      BY <3>1
  <2>4. ~(k < n)
    BY <1>1, <2>1, <2>2, <2>3
  <2> QED
    BY <1>0, <2>1, <2>4
<1>4. ASSUME NEW j \in 1..(n - 1) PROVE s[j] \in prior /\ Cardinality(later(s[j])) = n - 1 - j
  <2>1. j \in 1..n /\ n \in 1..n /\ j < n
    BY <1>0, <1>3
  <2>2. s[j] \in turns /\ s[j].ts < own.ts /\ Cardinality({u \in turns : u.ts < s[j].ts}) = j - 1
    BY <1>1, <1>3, <2>1
  <2> DEFINE below == {u \in turns : u.ts < s[j].ts}
             upto == below \cup {s[j]}
  <2>3. IsFiniteSet(below) /\ below \in SUBSET turns /\ s[j] \notin below
    <3>1. ~(s[j].ts < s[j].ts)
      BY <2>2
    <3> QED
      BY <3>1, FS_Subset
  <2>4. IsFiniteSet(upto) /\ Cardinality(upto) = j
    <3>1. Cardinality(upto) = Cardinality(below) + 1 /\ IsFiniteSet(upto)
      <4> HIDE DEF below
      <4> QED
        BY <2>3, FS_AddElement
    <3> QED
      BY <2>1, <2>2, <3>1
  <2>5. Cardinality(turns \ upto) = n - j /\ IsFiniteSet(turns \ upto)
    <3>1. turns \cap upto = upto
      BY <2>2, <2>3
    <3> HIDE DEF upto
    <3> QED
      BY <2>4, <3>1, FS_Difference DEF n
  <2>6. \A u \in turns : u \in upto <=> ~(u.ts > s[j].ts)
    <3> SUFFICES ASSUME NEW u \in turns PROVE u \in upto <=> ~(u.ts > s[j].ts)
      OBVIOUS
    <3>1. u.ts \in Nat /\ s[j].ts \in Nat /\ (u.ts = s[j].ts => u = s[j])
      BY <2>2 DEF StampsTellApart
    <3> QED
      BY <3>1
  <2>7. own \in turns \ upto
    <3>1. own.ts \in Nat /\ s[j].ts \in Nat
      BY <2>2
    <3> QED
      BY <2>2, <2>6, <3>1
  <2>8. \A u \in turns : u.ts < own.ts <=> u # own
    <3> SUFFICES ASSUME NEW u \in turns PROVE u.ts < own.ts <=> u # own
      OBVIOUS
    <3>1. u.ts \in Nat /\ own.ts \in Nat /\ u.ts <= own.ts /\ (u.ts = own.ts => u = own)
      BY DEF StampsTellApart
    <3> QED
      BY <3>1
  <2>9. later(s[j]) = (turns \ upto) \ {own}
    <3> HIDE DEF upto
    <3> QED
      BY <2>6, <2>8
  <2>10. Cardinality((turns \ upto) \ {own}) = n - j - 1
    <3> HIDE DEF upto
    <3>1. Cardinality((turns \ upto) \ {own}) = Cardinality(turns \ upto) - 1
      BY <2>5, <2>7, FS_RemoveElement
    <3> QED
      BY <1>0, <2>5, <3>1
  <2>11. s[j] \in prior
    BY <2>2
  <2>12. n - j - 1 = n - 1 - j
    BY <1>0
  <2> HIDE DEF prior, upto
  <2> QED
    BY <2>9, <2>10, <2>11, <2>12
<1>5. \A t \in prior : \E j \in 1..(n - 1) : t = s[j]
  <2> SUFFICES ASSUME NEW t \in prior PROVE \E j \in 1..(n - 1) : t = s[j]
    OBVIOUS
  <2>1. PICK k \in 1..n : t = s[k]
    BY <1>1
  <2>2. k # n
    <3>1. t.ts < own.ts /\ own.ts \in Nat
      OBVIOUS
    <3> QED
      BY <1>3, <2>1, <3>1
  <2> QED
    BY <1>0, <2>1, <2>2
<1> DEFINE from == IF n <= Window THEN 1 ELSE n - Window + 1
<1>6. Context(turns) = SubSeq(s, from, n - 1)
  <2>1. Len(ByTime(turns)) = n /\ s = ByTime(turns)
    BY <1>2 DEF s
  <2>2. Context(turns) = IF n <= Window THEN SubSeq(s, 1, n - 1)
                         ELSE IF backend = "memory" THEN SubSeq(s, n - Window + 1, n - 1)
                         ELSE SubSeq(s, 1, Window - 1)
    BY <2>1 DEF Context
  <2>3. n <= Window \/ (~(n <= Window) /\ backend = "memory")
    BY <1>0 DEF n
  <2> QED
    BY <2>2, <2>3
<1>7. ToSet(Context(turns)) = {s[i] : i \in from..(n - 1)}
  <2>1. from \in Int /\ n - 1 \in Int /\ 1 <= from /\ n - 1 <= Len(s)
    BY <1>0, <1>2, <1>3
  <2> HIDE DEF from
  <2>2. ToSet(SubSeq(s, from, n - 1)) = {s[i] : i \in from..(n - 1)}
    BY <1>2, <2>1, PartOfSeq
  <2> QED
    BY <1>6, <2>2
<1>8. \A j \in 1..(n - 1) : n - 1 - j < Window - 1 <=> j >= from
  BY <1>0
<1>9. from..(n - 1) \subseteq 1..(n - 1) /\ \A j \in 1..(n - 1) : j >= from <=> j \in from..(n - 1)
  BY <1>0, <1>3
<1> HIDE DEF from, prior
<1>10. \A t : t \in latest <=> \E j \in from..(n - 1) : t = s[j]
  <2>1. ASSUME NEW t \in latest PROVE \E j \in from..(n - 1) : t = s[j]
    <3>1. PICK j \in 1..(n - 1) : t = s[j]
      BY <1>5
    <3>2. n - 1 - j < Window - 1
      BY <1>4, <3>1
    <3> QED
      BY <1>8, <1>9, <3>1, <3>2
  <2>2. ASSUME NEW j \in from..(n - 1) PROVE s[j] \in latest
    <3>1. j \in 1..(n - 1) /\ n - 1 - j < Window - 1
      BY <1>8, <1>9
    <3> QED
      BY <1>4, <3>1
  <2> HIDE DEF latest
  <2> QED
    BY <2>1, <2>2
<1>11. ToSet(Context(turns)) = latest
  <2> HIDE DEF latest
  <2> QED
    BY <1>7, <1>10
<1> QED
  BY <1>11 DEF prior, LatestBefore

ChatRecord(r) ==
    /\ r = [field \in DOMAIN r |-> r[field]]
    /\ {"at", "asked", "ts", "seen", "context", "steps", "results"} \subseteq DOMAIN r

Inserting(c) == chat[c].at \in {"storing", "answering"}

\* The stored turns, and those about to be, have stamps of their own.
StampsAreOwn ==
    /\ stamps \in Nat /\ IsFiniteSet(thread) /\ StampsTellApart(thread)
    /\ \A t \in thread : t.ts \in 1..stamps
    /\ \A c \in Chats : Inserting(c) =>
          /\ chat[c].ts \in 1..stamps
          /\ \A t \in thread : t.ts # chat[c].ts
          /\ \A d \in Chats \ {c} : Inserting(d) => chat[d].ts # chat[c].ts

\* A question that is read back is there.
QuestionIsStored ==
    \A c \in Chats :
        /\ chat[c].at = "storing" => chat[c].asked = chat[c].ts
        /\ chat[c].at = "reading" => Turn(c, "user", chat[c].asked) \in thread

ChatInv ==
    /\ backend \in {"memory", "postgres"}
    /\ DOMAIN chat = Chats /\ \A c \in Chats : ChatRecord(chat[c])
    /\ StampsAreOwn /\ QuestionIsStored /\ ContextIsLatest

\* What a chat reads of the turns, its own the last it stored, is its context.
LEMMA ReadsLatest ==
    ASSUME ChatInv, NEW turns, IsFiniteSet(turns), \A t \in turns : t.ts \in Nat, StampsTellApart(turns),
           NEW c, NEW asked \in Nat, Turn(c, "user", asked) \in turns
    PROVE  \/ ToSet(Context(turns)) = LatestBefore(turns, asked)
           \/ \E t \in turns : t.ts > asked
           \/ backend = "postgres" /\ Cardinality(turns) > Window
<1> DEFINE own == Turn(c, "user", asked)
<1>1. own \in turns /\ own.ts = asked
  BY DEF Turn
<1> HIDE DEF own
<1> SUFFICES ASSUME ~\E t \in turns : t.ts > asked, ~(backend = "postgres" /\ Cardinality(turns) > Window)
             PROVE  ToSet(Context(turns)) = LatestBefore(turns, own.ts)
  BY <1>1
<1>2. \A t \in turns : t.ts <= own.ts
  BY <1>1
<1>3. backend = "memory" \/ ~(Cardinality(turns) > Window)
  BY DEF ChatInv
<1> QED
  BY <1>1, <1>2, <1>3, ContextHoldsLatest, Zenon

\* A chat's step that stores nothing and reads nothing.
LEMMA QuietStep ==
    ASSUME ChatInv, NEW c \in Chats, NEW x, ChatRecord(x), chat' = [chat EXCEPT ![c] = x],
           stamps' \in Nat, stamps <= stamps', UNCHANGED <<backend, thread>>,
           x.at \in {"storing", "answering"} => /\ x.ts \in 1..stamps'
                                                /\ ~(x.ts <= stamps) \/ (Inserting(c) /\ x.ts = chat[c].ts),
           x.at = "storing" => x.asked = x.ts,
           x.at # "reading",
           x.at \in {"planning", "dispatching", "answering", "replied"} =>
               c \in Planned /\ x.seen = chat[c].seen /\ x.context = chat[c].context /\ x.asked = chat[c].asked
    PROVE  ChatInv'
<1>1. /\ DOMAIN chat' = Chats /\ chat'[c] = x
      /\ \A d \in Chats \ {c} : chat'[d] = chat[d]
  BY DEF ChatInv
<1>2. \A d \in Chats : ChatRecord(chat'[d])
  BY <1>1 DEF ChatInv
<1>3. StampsAreOwn'
  <2>1. /\ stamps \in Nat /\ IsFiniteSet(thread) /\ StampsTellApart(thread)
        /\ \A t \in thread : t.ts \in 1..stamps
        /\ \A d \in Chats : Inserting(d) =>
              /\ chat[d].ts \in 1..stamps
              /\ \A t \in thread : t.ts # chat[d].ts
              /\ \A e \in Chats \ {d} : Inserting(e) => chat[e].ts # chat[d].ts
    BY DEF ChatInv, StampsAreOwn
  <2>2. \A t \in thread : t.ts \in 1..stamps'
    BY <2>1
  <2>3. \A d \in Chats \ {c} : Inserting(d)' <=> Inserting(d)
    BY <1>1 DEF Inserting
  <2>4. Inserting(c)' <=> x.at \in {"storing", "answering"}
    BY <1>1 DEF Inserting
  <2>5. ASSUME NEW d \in Chats \ {c}, Inserting(d)
        PROVE  /\ chat'[d].ts \in 1..stamps'
               /\ \A t \in thread : t.ts # chat'[d].ts
               /\ \A e \in Chats \ {d} : Inserting(e)' => chat'[e].ts # chat'[d].ts
    <3>1. chat'[d].ts = chat[d].ts /\ chat[d].ts \in 1..stamps /\ chat[d].ts \in 1..stamps'
      BY <1>1, <2>1, <2>5
    <3>2. Inserting(c)' => chat'[c].ts # chat'[d].ts
      BY <1>1, <2>1, <2>4, <2>5, <3>1
    <3> QED
      BY <1>1, <2>1, <2>3, <2>5, <3>1, <3>2
  <2>6. ASSUME Inserting(c)'
        PROVE  /\ chat'[c].ts \in 1..stamps'
               /\ \A t \in thread : t.ts # chat'[c].ts
               /\ \A e \in Chats \ {c} : Inserting(e)' => chat'[e].ts # chat'[c].ts
    BY <1>1, <2>1, <2>3, <2>4, <2>6
  <2> QED
    BY <2>1, <2>2, <2>3, <2>5, <2>6 DEF StampsAreOwn, StampsTellApart
<1>4. QuestionIsStored'
  BY <1>1 DEF ChatInv, QuestionIsStored
<1>5. ContextIsLatest'
  BY <1>1 DEF ChatInv, ContextIsLatest, Planned, Latest
<1> QED
  BY <1>1, <1>2, <1>3, <1>4, <1>5 DEF ChatInv

\* A turn is stored, and a chat goes on, to be planned for or to be over.
LEMMA StoreStep ==
    ASSUME ChatInv, NEW c \in Chats, NEW x, ChatRecord(x), chat' = [chat EXCEPT ![c] = x],
           NEW role, NEW ts, thread' = thread \cup {Turn(c, role, ts)},
           \/ ts = stamps + 1 /\ stamps' = stamps + 1
           \/ Inserting(c) /\ ts = chat[c].ts /\ stamps' = stamps,
           backend' = backend,
           x.at \notin {"storing", "answering"},
           x.at = "reading" => role = "user" /\ x.asked = ts,
           x.at = "planning" => /\ role = "user" /\ x.asked = ts
                                /\ x.seen = thread' /\ x.context = Context(thread'),
           x.at \in {"dispatching", "replied"} =>
               c \in Planned /\ x.seen = chat[c].seen /\ x.context = chat[c].context /\ x.asked = chat[c].asked
    PROVE  ChatInv'
<1> DEFINE said == Turn(c, role, ts)
<1>0. said.ts = ts
  BY DEF Turn
<1> HIDE DEF said
<1>1. /\ DOMAIN chat' = Chats /\ chat'[c] = x
      /\ \A d \in Chats \ {c} : chat'[d] = chat[d]
  BY DEF ChatInv
<1>2. \A d \in Chats : ChatRecord(chat'[d])
  BY <1>1 DEF ChatInv
<1>3. /\ stamps \in Nat /\ IsFiniteSet(thread) /\ StampsTellApart(thread)
      /\ \A t \in thread : t.ts \in 1..stamps
      /\ \A d \in Chats : Inserting(d) =>
            /\ chat[d].ts \in 1..stamps
            /\ \A t \in thread : t.ts # chat[d].ts
            /\ \A e \in Chats \ {d} : Inserting(e) => chat[e].ts # chat[d].ts
  BY DEF ChatInv, StampsAreOwn
<1>4. stamps' \in Nat /\ stamps <= stamps' /\ ts \in 1..stamps' /\ \A t \in thread : t.ts # ts
  BY <1>3
<1>5. \A t \in thread' : t.ts \in 1..stamps'
  BY <1>0, <1>3, <1>4 DEF said
<1>6. IsFiniteSet(thread') /\ StampsTellApart(thread')
  <2>1. IsFiniteSet(thread')
    BY <1>3, FS_AddElement
  <2>2. StampsTellApart(thread')
    BY <1>0, <1>3, <1>4 DEF StampsTellApart, said
  <2> QED
    BY <2>1, <2>2
<1>7. \A d \in Chats : Inserting(d)' => d # c /\ Inserting(d) /\ chat'[d] = chat[d]
  BY <1>1 DEF Inserting
<1>8. ASSUME NEW d \in Chats, Inserting(d)'
      PROVE  /\ chat'[d].ts \in 1..stamps'
             /\ \A t \in thread' : t.ts # chat'[d].ts
             /\ \A e \in Chats \ {d} : Inserting(e)' => chat'[e].ts # chat'[d].ts
  <2>1. d # c /\ Inserting(d) /\ chat'[d] = chat[d] /\ chat[d].ts \in 1..stamps
    BY <1>3, <1>7, <1>8
  <2>2. chat[d].ts # ts /\ chat[d].ts \in 1..stamps'
    BY <1>3, <1>4, <2>1
  <2>3. \A t \in thread' : t.ts # chat'[d].ts
    BY <1>0, <1>3, <2>1, <2>2 DEF said
  <2> QED
    BY <1>3, <1>7, <2>1, <2>2, <2>3
<1>9. StampsAreOwn'
  BY <1>4, <1>5, <1>6, <1>8 DEF StampsAreOwn
<1>10. QuestionIsStored'
  <2> SUFFICES ASSUME NEW d \in Chats
               PROVE  /\ chat'[d].at = "storing" => chat'[d].asked = chat'[d].ts
                      /\ chat'[d].at = "reading" => Turn(d, "user", chat'[d].asked) \in thread'
    BY DEF QuestionIsStored, Turn
  <2>1. CASE d = c
    BY <1>1, <2>1
  <2>2. CASE d # c
    BY <1>1, <2>2 DEF ChatInv, QuestionIsStored
  <2> QED
    BY <2>1, <2>2
<1>11. ContextIsLatest'
  <2> SUFFICES ASSUME NEW d \in Planned'
               PROVE  \/ ToSet(chat'[d].context) = Latest(d)'
                      \/ \E t \in chat'[d].seen : t.ts > chat'[d].asked
                      \/ backend' = "postgres" /\ Cardinality(chat'[d].seen) > Window
    BY DEF ContextIsLatest
  <2>1. CASE d # c \/ x.at # "planning"
    <3>1. /\ d \in Planned /\ chat'[d].seen = chat[d].seen /\ chat'[d].context = chat[d].context
          /\ chat'[d].asked = chat[d].asked
      BY <1>1, <2>1 DEF Planned
    <3>2. Latest(d)' = Latest(d)
      BY <3>1 DEF Latest
    <3> QED
      BY <3>1, <3>2 DEF ChatInv, ContextIsLatest
  <2>2. CASE d = c /\ x.at = "planning"
    <3>1. /\ chat'[d].seen = thread' /\ chat'[d].context = Context(thread') /\ chat'[d].asked = ts
          /\ Turn(c, "user", ts) \in thread' /\ ts \in Nat /\ \A t \in thread' : t.ts \in Nat
      BY <1>1, <1>4, <1>5, <2>2
    <3>2. PICK turns : turns = thread'
      OBVIOUS
    <3>3. \/ ToSet(Context(turns)) = LatestBefore(turns, ts)
          \/ \E t \in turns : t.ts > ts
          \/ backend = "postgres" /\ Cardinality(turns) > Window
      BY <1>6, <3>1, <3>2, ReadsLatest
    <3>4. Latest(d)' = LatestBefore(turns, ts)
      BY <3>1, <3>2 DEF Latest, LatestBefore
    <3> QED
      BY <3>1, <3>2, <3>3, <3>4
  <2> QED
    BY <2>1, <2>2
<1> QED
  BY <1>1, <1>2, <1>9, <1>10, <1>11 DEF ChatInv

LEMMA ChatRests == ASSUME ChatInv, UNCHANGED chatVars PROVE ChatInv'
<1>1. UNCHANGED <<backend, thread, stamps, chat>>
  BY DEF chatVars
<1>2. StampsAreOwn' /\ QuestionIsStored'
  BY <1>1 DEF ChatInv, StampsAreOwn, QuestionIsStored, Inserting
<1>3. ContextIsLatest'
  BY <1>1 DEF ChatInv, ContextIsLatest, Planned, Latest
<1> QED
  BY <1>1, <1>2, <1>3 DEF ChatInv

LEMMA ChatStep == ASSUME ChatInv, NEW c \in Chats PROVE
    /\ Receives(c) => ChatInv'
    /\ Inserted(c) => ChatInv'
    /\ InsertRaises(c) => ChatInv'
    /\ ReadsBack(c) => ChatInv'
    /\ Plans(c) => ChatInv'
    /\ AgentAnswers(c) => ChatInv'
    /\ Stitches(c) => ChatInv'
<1> DEFINE r == chat[c]
<1>0. /\ ChatRecord(r) /\ DOMAIN chat = Chats /\ stamps \in Nat
      /\ stamps' = stamps => stamps' \in Nat /\ stamps <= stamps'
  BY DEF ChatInv, StampsAreOwn
<1>1. ASSUME Receives(c) PROVE ChatInv'
  <2> DEFINE now   == stamps + 1
             turns == thread \cup {Turn(c, "user", now)}
  <2>0. r.at = "idle" /\ backend' = backend
    BY <1>1 DEF Receives
  <2>1. CASE c \notin Welcome
    <3> DEFINE x == [r EXCEPT !.at = "refused"]
    <3>1. chat' = [chat EXCEPT ![c] = x] /\ UNCHANGED <<thread, stamps>>
      BY <1>1, <2>1, <1>0 DEF Receives
    <3>2. ChatRecord(x) /\ x.at = "refused"
      BY <1>0 DEF ChatRecord
    <3> HIDE DEF x
    <3> QED
      BY <1>0, <2>0, <3>1, <3>2, QuietStep
  <2>2. CASE c \in Welcome /\ backend = "memory"
    <3> DEFINE x == [r EXCEPT !.at = "planning", !.asked = now, !.seen = turns, !.context = Context(turns)]
    <3>1. chat' = [chat EXCEPT ![c] = x] /\ thread' = turns /\ stamps' = now
      BY <1>1, <2>2, <1>0 DEF Receives
    <3>2. ChatRecord(x) /\ x.at = "planning" /\ x.asked = now /\ x.seen = turns /\ x.context = Context(turns)
      BY <1>0 DEF ChatRecord
    <3> HIDE DEF x
    <3> QED
      BY <1>0, <2>0, <3>1, <3>2, StoreStep
  <2>3. CASE c \in Welcome /\ backend # "memory"
    <3> DEFINE x == [r EXCEPT !.at = "storing", !.asked = now, !.ts = now]
    <3>1. chat' = [chat EXCEPT ![c] = x] /\ thread' = thread /\ stamps' = now
      BY <1>1, <2>3, <1>0 DEF Receives
    <3>2. ChatRecord(x) /\ x.at = "storing" /\ x.asked = now /\ x.ts = now
      BY <1>0 DEF ChatRecord
    <3>3. now \in Nat /\ stamps <= now /\ now \in 1..now /\ ~(now <= stamps)
      BY <1>0
    <3> HIDE DEF x, now
    <3> QED
      BY <1>0, <2>0, <3>1, <3>2, <3>3, QuietStep
  <2> QED
    BY <2>1, <2>2, <2>3
<1>2. ASSUME Inserted(c) PROVE ChatInv'
  <2>0. UNCHANGED <<backend, stamps>>
    BY <1>2 DEF Inserted
  <2>1. CASE r.at = "storing"
    <3> DEFINE x == [r EXCEPT !.at = "reading"]
    <3>1. chat' = [chat EXCEPT ![c] = x] /\ thread' = thread \cup {Turn(c, "user", r.ts)}
      BY <1>2, <2>1, <1>0 DEF Inserted
    <3>2. ChatRecord(x) /\ x.at = "reading" /\ x.asked = r.asked /\ r.asked = r.ts /\ Inserting(c)
      BY <1>0, <2>1 DEF ChatRecord, ChatInv, QuestionIsStored, Inserting
    <3> HIDE DEF x
    <3> QED
      BY <1>0, <2>0, <3>1, <3>2, StoreStep
  <2>2. CASE r.at = "answering"
    <3> DEFINE x == [r EXCEPT !.at = "replied"]
    <3>1. chat' = [chat EXCEPT ![c] = x] /\ thread' = thread \cup {Turn(c, "assistant", r.ts)}
      BY <1>2, <2>2, <1>0 DEF Inserted
    <3>2. /\ ChatRecord(x) /\ x.at = "replied" /\ x.asked = r.asked /\ x.seen = r.seen
          /\ x.context = r.context /\ Inserting(c) /\ c \in Planned
      BY <1>0, <2>2 DEF ChatRecord, Inserting, Planned
    <3> HIDE DEF x
    <3> QED
      BY <1>0, <2>0, <3>1, <3>2, StoreStep
  <2> QED
    BY <1>2, <2>1, <2>2 DEF Inserted
<1>3. ASSUME InsertRaises(c) PROVE ChatInv'
  <2> DEFINE x == [r EXCEPT !.at = "error"]
  <2>1. chat' = [chat EXCEPT ![c] = x] /\ UNCHANGED <<backend, thread, stamps>>
    BY <1>3, <1>0 DEF InsertRaises
  <2>2. ChatRecord(x) /\ x.at = "error"
    BY <1>0 DEF ChatRecord
  <2> HIDE DEF x
  <2> QED
    BY <1>0, <2>1, <2>2, QuietStep
<1>4. ASSUME ReadsBack(c) PROVE ChatInv'
  <2>1. /\ r.at = "reading" /\ UNCHANGED <<backend, thread, stamps>>
        /\ chat' = [chat EXCEPT ![c] = [r EXCEPT !.at = "planning", !.seen = thread, !.context = Context(thread)]]
    BY <1>4, <1>0 DEF ReadsBack
  <2> DEFINE x == [r EXCEPT !.at = "planning", !.seen = thread, !.context = Context(thread)]
  <2>2. ChatRecord(x) /\ x.at = "planning" /\ x.asked = r.asked /\ x.seen = thread /\ x.context = Context(thread)
    BY <1>0 DEF ChatRecord
  <2>3. chat' = [chat EXCEPT ![c] = x]
    BY <2>1
  <2> HIDE DEF x
  <2>4. chat'[c] = x /\ DOMAIN chat' = Chats /\ \A d \in Chats \ {c} : chat'[d] = chat[d]
    BY <1>0, <2>3
  <2>5. \A d \in Chats : ChatRecord(chat'[d])
    BY <2>2, <2>4 DEF ChatInv
  <2>6. \A d \in Chats : (Inserting(d)' <=> Inserting(d) /\ d # c) /\ ~Inserting(c)
    BY <2>1, <2>2, <2>4 DEF Inserting
  <2>7. StampsAreOwn'
    BY <2>1, <2>4, <2>6 DEF ChatInv, StampsAreOwn
  <2>8. QuestionIsStored'
    BY <2>1, <2>2, <2>4 DEF ChatInv, QuestionIsStored, Turn
  <2>9. ContextIsLatest'
    <3> SUFFICES ASSUME NEW d \in Planned'
                 PROVE  \/ ToSet(chat'[d].context) = Latest(d)'
                        \/ \E t \in chat'[d].seen : t.ts > chat'[d].asked
                        \/ backend' = "postgres" /\ Cardinality(chat'[d].seen) > Window
      BY DEF ContextIsLatest
    <3>1. CASE d # c
      <4>1. d \in Planned /\ chat'[d] = chat[d]
        BY <2>4, <3>1 DEF Planned
      <4>2. Latest(d)' = Latest(d)
        BY <4>1 DEF Latest
      <4> QED
        BY <2>1, <4>1, <4>2 DEF ChatInv, ContextIsLatest
    <3>2. CASE d = c
      <4>1. /\ Turn(c, "user", r.asked) \in thread /\ IsFiniteSet(thread) /\ StampsTellApart(thread)
            /\ \A t \in thread : t.ts \in Nat
        BY <2>1 DEF ChatInv, QuestionIsStored, StampsAreOwn
      <4>2. r.asked \in Nat
        BY <4>1 DEF Turn
      <4>3. \/ ToSet(Context(thread)) = LatestBefore(thread, r.asked)
            \/ \E t \in thread : t.ts > r.asked
            \/ backend = "postgres" /\ Cardinality(thread) > Window
        BY <4>1, <4>2, ReadsLatest
      <4>4. Latest(d)' = LatestBefore(thread, r.asked)
        BY <2>2, <2>4, <3>2 DEF Latest, LatestBefore
      <4> QED
        BY <2>1, <2>2, <2>4, <3>2, <4>3, <4>4
    <3> QED
      BY <3>1, <3>2
  <2> QED
    BY <2>1, <2>4, <2>5, <2>7, <2>8, <2>9 DEF ChatInv
<1>5. ASSUME Plans(c) PROVE ChatInv'
  <2>1. PICK y : /\ chat' = [chat EXCEPT ![c].at = "dispatching", ![c].steps = y]
                 /\ r.at = "planning" /\ UNCHANGED <<backend, thread, stamps>>
    BY <1>5 DEF Plans
  <2> DEFINE x == [r EXCEPT !.at = "dispatching", !.steps = y]
  <2>2. chat' = [chat EXCEPT ![c] = x]
    BY <2>1, <1>0
  <2>3. /\ ChatRecord(x) /\ x.at = "dispatching" /\ x.asked = r.asked /\ x.seen = r.seen
        /\ x.context = r.context /\ c \in Planned
    BY <1>0, <2>1 DEF ChatRecord, Planned
  <2> HIDE DEF x
  <2> QED
    BY <1>0, <2>1, <2>2, <2>3, QuietStep
<1>6. ASSUME AgentAnswers(c) PROVE ChatInv'
  <2>1. r.at = "dispatching" /\ UNCHANGED <<backend, thread, stamps>>
    BY <1>6 DEF AgentAnswers
  <2> DEFINE x == [r EXCEPT !.steps = Tail(r.steps), !.results = r.results + 1]
  <2>2. chat' = [chat EXCEPT ![c] = x]
    BY <1>6, <1>0 DEF AgentAnswers
  <2>3. /\ ChatRecord(x) /\ x.at = "dispatching" /\ x.asked = r.asked /\ x.seen = r.seen
        /\ x.context = r.context /\ c \in Planned
    BY <1>0, <2>1 DEF ChatRecord, Planned
  <2> HIDE DEF x
  <2> QED
    BY <1>0, <2>1, <2>2, <2>3, QuietStep
<1>7. ASSUME Stitches(c) PROVE ChatInv'
  <2>0. r.at = "dispatching" /\ stamps' = stamps + 1 /\ backend' = backend /\ c \in Planned
    BY <1>7 DEF Stitches, Planned
  <2>1. CASE backend = "memory"
    <3> DEFINE x == [r EXCEPT !.at = "replied"]
    <3>1. chat' = [chat EXCEPT ![c] = x] /\ thread' = thread \cup {Turn(c, "assistant", stamps + 1)}
      BY <1>7, <2>1, <1>0 DEF Stitches
    <3>2. /\ ChatRecord(x) /\ x.at = "replied" /\ x.asked = r.asked /\ x.seen = r.seen
          /\ x.context = r.context
      BY <1>0 DEF ChatRecord
    <3> HIDE DEF x
    <3> QED
      BY <1>0, <2>0, <3>1, <3>2, StoreStep
  <2>2. CASE backend # "memory"
    <3> DEFINE now == stamps + 1
               x == [r EXCEPT !.at = "answering", !.ts = now]
    <3>1. chat' = [chat EXCEPT ![c] = x] /\ thread' = thread /\ stamps' = now
      BY <1>7, <2>2, <1>0 DEF Stitches
    <3>2. /\ ChatRecord(x) /\ x.at = "answering" /\ x.ts = now /\ x.asked = r.asked /\ x.seen = r.seen
          /\ x.context = r.context
      BY <1>0 DEF ChatRecord
    <3>3. now \in Nat /\ stamps <= now /\ now \in 1..now /\ ~(now <= stamps)
      BY <1>0
    <3> HIDE DEF x, now
    <3> QED
      BY <1>0, <2>0, <3>1, <3>2, <3>3, QuietStep
  <2> QED
    BY <2>1, <2>2
<1> QED
  BY <1>1, <1>2, <1>3, <1>4, <1>5, <1>6, <1>7

-----------------------------------------------------------------------------
\* However chats on either store interleave and whatever inserts fail: the planner sees what
\* was said last before its question, but for turns stored in between and an outgrown window.
THEOREM SecretaryIsTrue == ChatSpec => []ContextIsLatest
<1>1. ChatInit => ChatInv
  <2> SUFFICES ASSUME ChatInit PROVE ChatInv
    OBVIOUS
  <2>1. \A c \in Chats : chat[c].at = "idle" /\ ChatRecord(chat[c])
    BY DEF ChatInit, ChatRecord
  <2>2. StampsAreOwn
    BY <2>1, FS_EmptySet DEF ChatInit, StampsAreOwn, StampsTellApart, Inserting
  <2>3. QuestionIsStored /\ ContextIsLatest
    BY <2>1 DEF QuestionIsStored, ContextIsLatest, Planned
  <2> QED
    BY <2>1, <2>2, <2>3, SecretaryAssumption DEF ChatInit, ChatInv, SecretaryAssumption
<1>2. ChatInv /\ [ChatNext]_chatVars => ChatInv'
  BY ChatStep, ChatRests DEF ChatNext
<1>3. ChatInv => ContextIsLatest
  BY DEF ChatInv
<1> QED
  BY <1>1, <1>2, <1>3, PTL DEF ChatSpec

-----------------------------------------------------------------------------
(* The quantitative desk.                                                    *)

Candidate == [ticker : DOMAIN Weights, direction : {"long", "short"}]
Weighing  == [c \in Candidate |-> Weight(c.ticker)]

\* What was chosen for the loop was chosen for an end of the ranking.
ChoiceIsRanked ==
    /\ scored \subseteq {Universe[i] : i \in DOMAIN Universe} /\ IsFiniteSet(scored)
    /\ score \in [scored -> Int]
    /\ candidates \union trades \union rejected \subseteq Combine /\ IsFiniteSet(trades)
    /\ shaping => scored # {}
    /\ ~shaping => candidates = {} /\ trades = {} /\ rejected = {}

StrongerFirst ==
    \A a \in trades \union rejected, c \in candidates : Strength(a) >= Strength(c)

UnfitItself(u) == Weights[u] = 0 \/ u \in Illiquid \/ CorrelatedTrades(u) # {}

\* What was turned down for want of room would find none now.
RoomIsTaken ==
    \A c \in rejected :
        \/ UnfitItself(c.ticker)
        \/ WeightOf(InSector(c.ticker)) + Weight(c.ticker) > SectorCap
        \/ WeightOf(trades) + Weight(c.ticker) > RegionCap

RoomIsOfStronger ==
    \A a \in trades, c \in rejected :
        \/ Strength(a) >= Strength(c)
        \/ Weight(a.ticker) < Weight(c.ticker) \/ Sectors[a.ticker] # Sectors[c.ticker]
        \/ UnfitItself(c.ticker)

QuantInv == ChoiceIsRanked /\ StrongerFirst /\ RoomIsTaken /\ RoomIsOfStronger

LEMMA CombineIsTyped == ASSUME ChoiceIsRanked PROVE
    /\ Combine \subseteq Candidate
    /\ \A c \in Combine : /\ c.ticker \in scored /\ Strength(c) \in Int /\ Weight(c.ticker) \in Nat
                          /\ Weights[c.ticker] \in Nat
<1>0. /\ Weights \in [DOMAIN Weights -> Nat] /\ Universe \in Seq(DOMAIN Weights) /\ PositionMax \in Nat
  BY QuantAssumption DEF QuantAssumption
<1>1. scored \subseteq DOMAIN Weights
  BY <1>0 DEF ChoiceIsRanked
<1>2. Longs \subseteq scored /\ Shorts \subseteq scored
  BY DEF Longs, Shorts
<1>3. \A c \in Combine : c \in Candidate /\ c.ticker \in scored
  BY <1>1, <1>2 DEF Combine, Candidate
<1>4. \A c \in Combine : score[c.ticker] \in Int /\ Weights[c.ticker] \in Nat
  BY <1>0, <1>1, <1>3 DEF ChoiceIsRanked
<1> QED
  BY <1>0, <1>3, <1>4 DEF Strength, Weight

\* The weight of a set of candidates is a sum, to which every further one adds its own.
LEMMA WeightIsSum ==
    ASSUME NEW S, IsFiniteSet(S), S \subseteq Candidate, \A c \in S : Weight(c.ticker) \in Nat
    PROVE  WeightOf(S) = Sum(0, Weighing, S)
<1> DEFINE f == Weighing
           Rec(g) == g = [s \in SUBSET S |->
                            IF s = {} THEN 0
                            ELSE Weight((CHOOSE x \in s : TRUE).ticker) + g[s \ {CHOOSE x \in s : TRUE}]]
           iter == CHOOSE g : Rec(g)
<1>1. \A c \in S : f[c] \in Int
  BY DEF Weighing
<1>2. PICK g \in [SUBSET S -> Int] : Summing(g, 0, f, S)
  <2>1. 0 \in Int
    OBVIOUS
  <2> HIDE DEF f
  <2> QED
    BY <1>1, <2>1, SummingExists, Zenon
<1>3. ASSUME NEW h PROVE Summing(h, 0, f, S) <=> Rec(h)
  <2>1. \A s \in SUBSET S : s # {} => f[Picked(s)] = Weight((CHOOSE x \in s : TRUE).ticker)
    BY PickedFromSet DEF Picked, Weighing
  <2> HIDE DEF f
  <2> QED
    BY <2>1 DEF Summing, Picked
<1>4. Summing(iter, 0, f, S)
  <2> HIDE DEF Rec
  <2> QED
    BY <1>2, <1>3
<1>5. WeightOf(S) = iter[S]
  BY DEF WeightOf, FoldSet, MapThenFoldSet
<1> HIDE DEF iter, f
<1>6. Sum(0, f, S) = iter[S]
  BY <1>4, SumIsLast
<1> QED
  BY <1>5, <1>6 DEF f

LEMMA WeightAddsUp ==
    ASSUME NEW S, IsFiniteSet(S), S \subseteq Candidate, NEW e \in Candidate,
           \A c \in S \union {e} : Weight(c.ticker) \in Nat
    PROVE  /\ WeightOf(S) \in Int /\ WeightOf(S \union {e}) \in Int
           /\ WeightOf(S) <= WeightOf(S \union {e})
<1> DEFINE T == S \union {e}
<1>1. IsFiniteSet(T) /\ T \subseteq Candidate /\ \A c \in T : Weighing[c] \in Int /\ Weighing[c] \in Nat
  BY FS_AddElement DEF Weighing
<1>2. WeightOf(S) = Sum(0, Weighing, S)
  BY WeightIsSum
<1>3. WeightOf(T) = Sum(0, Weighing, T)
  BY <1>1, WeightIsSum
<1> HIDE DEF Weighing
<1>4. Sum(0, Weighing, S) \in Int
  BY <1>1, SumAddsUp
<1>5. Sum(0, Weighing, T) \in Int /\ \A x \in T : Sum(0, Weighing, T) = Weighing[x] + Sum(0, Weighing, T \ {x})
  <2> HIDE DEF T
  <2> QED
    BY <1>1, SumAddsUp
<1>6. CASE e \in S
  <2>1. T = S
    BY <1>6
  <2> QED
    BY <1>2, <1>4, <2>1
<1>7. CASE e \notin S
  <2>1. T \ {e} = S /\ e \in T
    BY <1>7
  <2>2. Sum(0, Weighing, T) = Weighing[e] + Sum(0, Weighing, S) /\ Weighing[e] \in Nat
    BY <1>1, <1>5, <2>1
  <2> QED
    BY <1>2, <1>3, <1>4, <2>2
<1> QED
  BY <1>6, <1>7

\* The two ends of a ranking of 2n do not meet.
LEMMA EndsAreApart ==
    ASSUME ChoiceIsRanked, Cardinality(scored) >= 2 * PerSide, NEW t \in Longs, NEW u \in Shorts
    PROVE  t # u /\ score[t] >= score[u]
<1> DEFINE Ahead  == {x \in scored : Outranks(x, t)}
           Behind == {x \in scored : Outranks(u, x)}
           N == Cardinality(scored)
<1>0. PerSide \in Nat \ {0} /\ t \in scored /\ u \in scored /\ IsFiniteSet(scored)
  BY QuantAssumption DEF QuantAssumption, Longs, Shorts, ChoiceIsRanked
<1>1. /\ IsFiniteSet(Ahead) /\ Cardinality(Ahead) \in Nat /\ Cardinality(Ahead) < PerSide
      /\ IsFiniteSet(Behind) /\ Cardinality(Behind) \in Nat /\ Cardinality(Behind) < PerSide
  <2>1. IsFiniteSet(Ahead) /\ IsFiniteSet(Behind)
    BY <1>0, FS_Subset
  <2>2. Cardinality(Ahead) < PerSide /\ Cardinality(Behind) < PerSide
    BY DEF Longs, Shorts
  <2> HIDE DEF Ahead, Behind
  <2> QED
    BY <2>1, <2>2, FS_CardinalityType
<1>2. N \in Nat /\ N >= 2 * PerSide
  BY <1>0, FS_CardinalityType
<1>3. \A x \in scored : score[x] \in Int /\ Place(x) \in Int /\ Universe[Place(x)] = x
  BY QuantAssumption DEF QuantAssumption, ChoiceIsRanked, Place
<1>4. \A x, y \in scored : x = y \/ Outranks(x, y) \/ Outranks(y, x)
  BY <1>3 DEF Outranks
<1>5. Cardinality(Ahead \union Behind) \in Nat /\ Cardinality(Ahead \union Behind) <= N - 2
  <2> HIDE DEF Ahead, Behind
  <2>1. IsFiniteSet(Ahead \intersect Behind) /\ IsFiniteSet(Ahead \union Behind)
    BY <1>1, FS_Subset, FS_Union
  <2>2. Cardinality(Ahead \intersect Behind) \in Nat /\ Cardinality(Ahead \union Behind) \in Nat
    BY <2>1, FS_CardinalityType
  <2>3. Cardinality(Ahead \union Behind)
          = Cardinality(Ahead) + Cardinality(Behind) - Cardinality(Ahead \intersect Behind)
    BY <1>1, FS_Union
  <2> HIDE DEF N
  <2> QED
    BY <1>0, <1>1, <1>2, <2>2, <2>3
<1>6. ASSUME t = u PROVE FALSE
  <2>1. scored = (Ahead \union Behind) \union {t}
    BY <1>0, <1>4, <1>6
  <2> HIDE DEF Ahead, Behind
  <2>2. IsFiniteSet(Ahead \union Behind)
    BY <1>1, FS_Union
  <2>3. N <= Cardinality(Ahead \union Behind) + 1
    <3>1. N = IF t \in Ahead \union Behind THEN Cardinality(Ahead \union Behind)
              ELSE Cardinality(Ahead \union Behind) + 1
      BY <2>1, <2>2, FS_AddElement
    <3> HIDE DEF N
    <3> QED
      BY <1>2, <1>5, <3>1
  <2> HIDE DEF N
  <2> QED
    BY <1>2, <1>5, <2>3
<1>7. ASSUME ~(score[t] >= score[u]) PROVE FALSE
  <2>1. \A x \in scored : x \in Ahead \union Behind
    <3> SUFFICES ASSUME NEW x \in scored, ~Outranks(x, t) PROVE Outranks(u, x)
      OBVIOUS
    <3>1. /\ score[t] \in Int /\ score[u] \in Int /\ score[x] \in Int
          /\ score[u] > score[t] /\ ~(score[x] > score[t])
      BY <1>0, <1>3, <1>7 DEF Outranks
    <3> QED
      BY <3>1 DEF Outranks
  <2>2. scored = Ahead \union Behind
    BY <2>1
  <2> HIDE DEF Ahead, Behind
  <2> QED
    BY <1>2, <1>5, <2>2
<1> QED
  BY <1>6, <1>7

LEMMA SquareOfLarger ==
    ASSUME NEW x \in Int, NEW y \in Int,
           (IF x < 0 THEN -x ELSE x) >= (IF y < 0 THEN -y ELSE y)
    PROVE  x * x >= y * y
<1> DEFINE m == IF x < 0 THEN -x ELSE x
           n == IF y < 0 THEN -y ELSE y
<1>1. m \in Nat /\ n \in Nat /\ m >= n
  OBVIOUS
<1>2. x * x = m * m /\ y * y = n * n
  OBVIOUS
<1> HIDE DEF m, n
<1>3. \A i, j \in Nat : i >= j => i * i >= j * j
  OBVIOUS
<1>4. m * m \in Nat /\ n * n \in Nat /\ m * m >= n * n
  BY <1>1, <1>3
<1> QED
  BY <1>2, <1>4

LEMMA QuantStep == QuantInv /\ [QuantNext]_quantVars => QuantInv'
<1> SUFFICES ASSUME QuantInv, [QuantNext]_quantVars PROVE QuantInv'
  OBVIOUS
<1>1. CASE ScoresArrive
  <2>1. /\ scored = {} /\ ~shaping /\ UNCHANGED <<candidates, trades, rejected, shaping>>
        /\ candidates = {} /\ trades = {} /\ rejected = {}
    BY <1>1 DEF ScoresArrive, QuantInv, ChoiceIsRanked
  <2>2. PICK n \in 1..Len(Universe) : scored' = {Universe[i] : i \in 1..n}
    BY <1>1 DEF ScoresArrive
  <2>3. Universe \in Seq(DOMAIN Weights) /\ Scores \subseteq Int
    BY QuantAssumption DEF QuantAssumption
  <2>4. n \in Int /\ \A i \in 1..n : i \in DOMAIN Universe
    BY <2>3
  <2>5. IsFiniteSet(1..n)
    BY <2>4, FS_Interval
  <2>6. IsFiniteSet({Universe[i] : i \in 1..n})
    <3>1. [i \in 1..n |-> Universe[i]] \in Surjection(1..n, {Universe[i] : i \in 1..n})
      BY DEF Surjection
    <3> QED
      BY <2>5, <3>1, FS_Surjection
  <2>7. score' \in [scored' -> Int]
    <3>1. score' \in [scored' -> Scores]
      BY <1>1 DEF ScoresArrive
    <3> QED
      BY <2>3, <3>1
  <2>8. IsFiniteSet(trades')
    BY <2>1, FS_EmptySet
  <2>9. ChoiceIsRanked'
    BY <2>1, <2>2, <2>4, <2>6, <2>7, <2>8 DEF ChoiceIsRanked
  <2> QED
    BY <2>1, <2>9 DEF QuantInv, StrongerFirst, RoomIsTaken, RoomIsOfStronger
<1>2. CASE StartShaping
  <2>1. /\ scored # {} /\ shaping' /\ candidates' = Combine /\ UNCHANGED <<scored, score, trades, rejected>>
        /\ trades = {} /\ rejected = {}
    BY <1>2 DEF StartShaping, QuantInv, ChoiceIsRanked
  <2>2. Combine' = Combine
    BY <2>1 DEF Combine, Longs, Shorts, Outranks
  <2>3. ChoiceIsRanked'
    BY <2>1, <2>2 DEF QuantInv, ChoiceIsRanked
  <2> QED
    BY <2>1, <2>3 DEF QuantInv, StrongerFirst, RoomIsTaken, RoomIsOfStronger
<1>3. CASE ShapeOne
  <2>1. PICK e \in candidates :
            /\ \A d \in candidates \ {e} : ComesFirst(e, d)
            /\ candidates' = candidates \ {e}
            /\ \/ Fits(e) /\ trades' = trades \union {e} /\ rejected' = rejected
               \/ ~Fits(e) /\ rejected' = rejected \union {e} /\ trades' = trades
    BY <1>3 DEF ShapeOne
  <2>2. shaping /\ UNCHANGED <<scored, score, shaping>>
    BY <1>3 DEF ShapeOne
  <2>3. Combine' = Combine
    BY <2>2 DEF Combine, Longs, Shorts, Outranks
  <2>4. /\ Combine \subseteq Candidate /\ e \in Combine
        /\ \A c \in Combine : /\ c.ticker \in scored /\ Strength(c) \in Int /\ Weight(c.ticker) \in Nat
                              /\ Weights[c.ticker] \in Nat
    BY CombineIsTyped DEF QuantInv, ChoiceIsRanked
  <2>5. ChoiceIsRanked'
    <3>1. IsFiniteSet(trades')
      BY <2>1, FS_AddElement DEF QuantInv, ChoiceIsRanked
    <3> QED
      BY <2>1, <2>2, <2>3, <3>1 DEF QuantInv, ChoiceIsRanked
  <2>6. \A c : Strength(c)' = Strength(c)
    BY <2>2 DEF Strength
  <2>7. StrongerFirst'
    <3>1. \A d \in candidates' : Strength(e) >= Strength(d)
      BY <2>1, <2>4, <2>5, <2>3 DEF ComesFirst, ChoiceIsRanked
    <3>2. \A a \in trades' \union rejected', d \in candidates' : Strength(a) >= Strength(d)
      BY <2>1, <3>1 DEF QuantInv, StrongerFirst
    <3> QED
      BY <2>6, <3>2 DEF StrongerFirst
  <2>8. \A a \in trades, c \in rejected \union {e} :
           \/ Strength(a) >= Strength(c)
           \/ Weight(a.ticker) < Weight(c.ticker) \/ Sectors[a.ticker] # Sectors[c.ticker]
           \/ UnfitItself(c.ticker)
    BY DEF QuantInv, RoomIsOfStronger, StrongerFirst
  <2>9. CASE ~Fits(e) /\ rejected' = rejected \union {e} /\ trades' = trades
    <3>1. \A u : CorrelatedTrades(u)' = CorrelatedTrades(u) /\ InSector(u)' = InSector(u)
      BY <2>9 DEF CorrelatedTrades, InSector
    <3>2. \A c : UnfitItself(c)' = UnfitItself(c)
      BY <3>1 DEF UnfitItself
    <3>3. /\ IsFiniteSet(trades) /\ trades \subseteq Candidate
          /\ InSector(e.ticker) \subseteq trades /\ IsFiniteSet(InSector(e.ticker))
      BY <2>4, FS_Subset DEF QuantInv, ChoiceIsRanked, InSector
    <3>4. WeightOf(trades) \in Int /\ WeightOf(InSector(e.ticker)) \in Int
      <4>1. \A c \in trades \union {e} : Weight(c.ticker) \in Nat
        BY <2>4 DEF QuantInv, ChoiceIsRanked
      <4> QED
        BY <2>4, <3>3, <4>1, WeightAddsUp
    <3>5. \/ UnfitItself(e.ticker)
          \/ WeightOf(InSector(e.ticker)) + Weight(e.ticker) > SectorCap
          \/ WeightOf(trades) + Weight(e.ticker) > RegionCap
      BY <2>4, <2>9, <3>4, QuantAssumption DEF Fits, UnfitItself, QuantAssumption
    <3>6. RoomIsTaken'
      BY <2>9, <3>1, <3>2, <3>5 DEF QuantInv, RoomIsTaken
    <3>7. RoomIsOfStronger'
      BY <2>6, <2>8, <2>9, <3>2 DEF RoomIsOfStronger
    <3> QED
      BY <2>5, <2>7, <3>6, <3>7 DEF QuantInv
  <2>10. CASE Fits(e) /\ trades' = trades \union {e} /\ rejected' = rejected
    <3>1. \A u : UnfitItself(u) => UnfitItself(u)'
      BY <2>10 DEF UnfitItself, CorrelatedTrades
    <3>2. \A c \in trades \union {e} : Weight(c.ticker) \in Nat /\ c \in Candidate
      BY <2>4 DEF QuantInv, ChoiceIsRanked
    <3>3. IsFiniteSet(trades) /\ \A u : InSector(u) \subseteq trades /\ IsFiniteSet(InSector(u))
      BY FS_Subset DEF QuantInv, ChoiceIsRanked, InSector
    <3>4. WeightOf(trades) \in Int /\ WeightOf(trades') \in Int /\ WeightOf(trades) <= WeightOf(trades')
      BY <2>4, <2>10, <3>2, <3>3, WeightAddsUp
    <3>5. ASSUME NEW u
          PROVE  /\ WeightOf(InSector(u)) \in Int /\ WeightOf(InSector(u)') \in Int
                 /\ WeightOf(InSector(u)) <= WeightOf(InSector(u)')
      <4>1. /\ WeightOf(InSector(u)) \in Int /\ WeightOf(InSector(u) \union {e}) \in Int
            /\ WeightOf(InSector(u)) <= WeightOf(InSector(u) \union {e})
        BY <2>4, <3>2, <3>3, WeightAddsUp
      <4>2. InSector(u)' = InSector(u) \/ InSector(u)' = InSector(u) \union {e}
        BY <2>10 DEF InSector
      <4> QED
        BY <4>1, <4>2
    <3>6. /\ WeightOf(trades)' = WeightOf(trades')
          /\ \A u : WeightOf(InSector(u))' = WeightOf(InSector(u)')
      <4>1. ASSUME NEW u PROVE WeightOf(InSector(u))' = WeightOf(InSector(u)')
        BY DEF WeightOf, FoldSet, MapThenFoldSet
      <4>2. WeightOf(trades)' = WeightOf(trades')
        BY DEF WeightOf, FoldSet, MapThenFoldSet
      <4> QED
        BY <4>1, <4>2
    <3>7. ASSUME NEW c \in rejected
          PROVE  \/ UnfitItself(c.ticker)'
                 \/ WeightOf(InSector(c.ticker)') + Weight(c.ticker) > SectorCap
                 \/ WeightOf(trades') + Weight(c.ticker) > RegionCap
      <4>1. Weight(c.ticker) \in Nat /\ SectorCap \in Int /\ RegionCap \in Int
        BY <2>4, QuantAssumption DEF QuantAssumption, QuantInv, ChoiceIsRanked
      <4>2. /\ WeightOf(InSector(c.ticker)) \in Int /\ WeightOf(InSector(c.ticker)') \in Int
            /\ WeightOf(InSector(c.ticker)) <= WeightOf(InSector(c.ticker)')
        BY <3>5
      <4>3. \/ UnfitItself(c.ticker)
            \/ WeightOf(InSector(c.ticker)) + Weight(c.ticker) > SectorCap
            \/ WeightOf(trades) + Weight(c.ticker) > RegionCap
        BY DEF QuantInv, RoomIsTaken
      <4> QED
        BY <3>1, <3>4, <4>1, <4>2, <4>3
    <3>8. RoomIsTaken'
      BY <2>10, <3>6, <3>7 DEF RoomIsTaken
    <3>9. ASSUME NEW c \in rejected
          PROVE  \/ Weight(e.ticker) < Weight(c.ticker) \/ Sectors[e.ticker] # Sectors[c.ticker]
                 \/ UnfitItself(c.ticker)
      <4> SUFFICES ASSUME Sectors[e.ticker] = Sectors[c.ticker], ~UnfitItself(c.ticker)
                   PROVE  Weight(e.ticker) < Weight(c.ticker)
        OBVIOUS
      <4>1. /\ Weight(c.ticker) \in Nat /\ Weight(e.ticker) \in Nat
            /\ SectorCap \in Int /\ RegionCap \in Int
        BY <2>4, QuantAssumption DEF QuantAssumption, QuantInv, ChoiceIsRanked
      <4>2. InSector(e.ticker) = InSector(c.ticker)
        BY DEF InSector
      <4>3. /\ WeightOf(InSector(c.ticker)) + Weight(e.ticker) <= SectorCap
            /\ WeightOf(trades) + Weight(e.ticker) <= RegionCap
        BY <2>10, <4>2 DEF Fits
      <4>4. \/ WeightOf(InSector(c.ticker)) + Weight(c.ticker) > SectorCap
            \/ WeightOf(trades) + Weight(c.ticker) > RegionCap
        BY DEF QuantInv, RoomIsTaken
      <4>5. WeightOf(InSector(c.ticker)) \in Int /\ WeightOf(trades) \in Int
        BY <3>4, <3>5
      <4> QED
        BY <4>1, <4>3, <4>4, <4>5
    <3>10. RoomIsOfStronger'
      <4>1. ASSUME NEW a \in trades \union {e}, NEW c \in rejected
            PROVE  \/ Strength(a) >= Strength(c)
                   \/ Weight(a.ticker) < Weight(c.ticker) \/ Sectors[a.ticker] # Sectors[c.ticker]
                   \/ UnfitItself(c.ticker)
        BY <2>8, <3>9
      <4> QED
        BY <2>6, <2>10, <3>1, <4>1 DEF RoomIsOfStronger
    <3> QED
      BY <2>5, <2>7, <3>8, <3>10 DEF QuantInv
  <2> QED
    BY <2>1, <2>9, <2>10
<1>4. CASE UNCHANGED quantVars
  <2>1. UNCHANGED <<scored, score, candidates, trades, rejected, shaping>>
    BY <1>4 DEF quantVars
  <2>2. Combine' = Combine
    BY <2>1 DEF Combine, Longs, Shorts, Outranks
  <2>3. \A c \in trades \union rejected \union candidates : Strength(c)' = Strength(c)
    BY <2>1 DEF Strength
  <2>4. \A u : CorrelatedTrades(u)' = CorrelatedTrades(u) /\ InSector(u)' = InSector(u)
    BY <2>1 DEF CorrelatedTrades, InSector
  <2>5. ChoiceIsRanked' /\ StrongerFirst'
    BY <2>1, <2>2, <2>3 DEF QuantInv, ChoiceIsRanked, StrongerFirst
  <2> QED
    BY <2>1, <2>3, <2>4, <2>5 DEF QuantInv, RoomIsTaken, RoomIsOfStronger, UnfitItself
<1> QED
  BY <1>1, <1>2, <1>3, <1>4 DEF QuantNext

\* For any scores and weights, with any caps, sectors and correlations: the two ends of the
\* ranking of combine() meet only in a short one, and the greedy loop of shape() gives no
\* room to a trade that a stronger one was refused for want of it.
THEOREM BookIsRanked == QuantSpec => []BookFollowsRanking
<1>1. QuantInit => QuantInv
  BY FS_EmptySet DEF QuantInit, QuantInv, ChoiceIsRanked, StrongerFirst, RoomIsTaken, RoomIsOfStronger
<1>2. QuantInv => BookFollowsRanking
  <2> SUFFICES ASSUME QuantInv PROVE BookFollowsRanking
    OBVIOUS
  <2>0. \A c \in trades \union rejected : c \in Combine /\ c.ticker \in scored
    BY CombineIsTyped DEF QuantInv, ChoiceIsRanked
  <2>1. ASSUME Cardinality(scored) >= 2 * PerSide, NEW t \in Traded("long"), NEW u \in Traded("short")
        PROVE  t # u /\ score[t] >= score[u]
    <3>1. t \in Longs /\ u \in Shorts
      BY <2>0 DEF Traded, Combine
    <3> QED
      BY <2>1, <3>1, EndsAreApart DEF QuantInv
  <2>2. ASSUME NEW a \in trades, NEW c \in rejected, Strength(a) >= Strength(c)
        PROVE  score[a.ticker] * score[a.ticker] >= score[c.ticker] * score[c.ticker]
    <3>1. score[a.ticker] \in Int /\ score[c.ticker] \in Int
      BY <2>0 DEF QuantInv, ChoiceIsRanked
    <3>2. (IF score[a.ticker] < 0 THEN -score[a.ticker] ELSE score[a.ticker])
             >= (IF score[c.ticker] < 0 THEN -score[c.ticker] ELSE score[c.ticker])
      BY <2>2 DEF Strength
    <3> QED
      BY <3>1, <3>2, SquareOfLarger
  <2> QED
    BY <2>1, <2>2 DEF BookFollowsRanking, QuantInv, RoomIsOfStronger, UnfitItself
<1> QED
  BY <1>1, <1>2, QuantStep, PTL DEF QuantSpec
=============================================================================
