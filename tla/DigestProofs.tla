----------------------------- MODULE DigestProofs -----------------------------
(***************************************************************************)
(* Every digest that leaves the data path is the reference hash of its own *)
(* header, for a matrix of any size and any number of layers.              *)
(***************************************************************************)
EXTENDS DatapathProofs

-----------------------------------------------------------------------------
(* Sums: what SumFunctionOnSet returns, whichever order it adds in.        *)

Chosen(s) == CHOOSE y \in s : TRUE
SumTable(g, f, S) ==
  g = [s \in SUBSET S |-> IF s = {} THEN 0 ELSE f[Chosen(s)] + g[s \ {Chosen(s)}]]

LEMMA SmallerSet ==
  ASSUME NEW s, IsFiniteSet(s), s # {}
  PROVE  /\ Chosen(s) \in s
         /\ \A x \in s : /\ IsFiniteSet(s \ {x}) /\ Cardinality(s \ {x}) = Cardinality(s) - 1
                         /\ Cardinality(s) \in Nat
BY FS_RemoveElement, FS_CardinalityType DEF Chosen

LEMMA SumTableExists ==
  ASSUME NEW f, NEW S, IsFiniteSet(S)
  PROVE  \E g : SumTable(g, f, S)
<1> DEFINE D(n) == {s \in SUBSET S : Cardinality(s) <= n}
           Val(g, s) == IF s = {} THEN 0 ELSE f[Chosen(s)] + g[s \ {Chosen(s)}]
           On(g, n) == g = [s \in D(n) |-> Val(g, s)]
           T == {n \in Nat : \E g : On(g, n)}
<1>1. \A s \in SUBSET S : IsFiniteSet(s) /\ Cardinality(s) \in Nat /\ (Cardinality(s) = 0 <=> s = {})
  BY FS_Subset, FS_CardinalityType, FS_EmptySet
<1>2. 0 \in T
  <2> DEFINE g == [s \in D(0) |-> 0]
  <2>1. \A s \in D(0) : s = {}
    BY <1>1
  <2>2. g = [s \in D(0) |-> Val(g, s)]
    BY <2>1
  <2>3. On(g, 0)
    BY <2>2
  <2> HIDE DEF On
  <2> QED
    BY <2>3
<1>3. ASSUME NEW n \in T PROVE n + 1 \in T
  <2>1. PICK g : On(g, n)
    OBVIOUS
  <2> DEFINE h == [s \in D(n + 1) |-> Val(g, s)]
  <2>2. \A s \in D(n) : s \in D(n + 1) /\ h[s] = g[s]
    <3>1. \A s \in D(n) : s \in D(n + 1)
      BY <1>1
    <3>2. \A s \in D(n) : g[s] = Val(g, s)
      BY <2>1
    <3> HIDE DEF D
    <3> QED
      BY <3>1, <3>2
  <2>3. \A s \in D(n + 1) : s # {} => s \ {Chosen(s)} \in D(n)
    BY <1>1, SmallerSet
  <2>4. \A s \in D(n + 1) : Val(g, s) = Val(h, s)
    <3> HIDE DEF D, h
    <3> QED
      BY <2>2, <2>3
  <2>5. h = [s \in D(n + 1) |-> Val(h, s)]
    <3>1. \A s \in D(n + 1) : h[s] = Val(h, s)
      <4>1. \A s \in D(n + 1) : h[s] = Val(g, s)
        OBVIOUS
      <4> HIDE DEF D, h, Val
      <4> QED
        BY <2>4, <4>1
    <3>2. h = [s \in D(n + 1) |-> h[s]]
      OBVIOUS
    <3> HIDE DEF D, h, Val
    <3> QED
      BY <3>1, <3>2
  <2>6. On(h, n + 1)
    BY <2>5
  <2> HIDE DEF On
  <2> QED
    BY <2>6
<1>4. T = Nat
  <2>1. T \in SUBSET Nat
    OBVIOUS
  <2> HIDE DEF T
  <2> QED
    BY <1>2, <1>3, <2>1, AllNumbers
<1>5. D(Cardinality(S)) = SUBSET S
  BY FS_Subset
<1>6. PICK g : On(g, Cardinality(S))
  <2>1. Cardinality(S) \in T
    BY <1>4, FS_CardinalityType
  <2> QED
    BY <2>1
<1>7. g = [s \in SUBSET S |-> Val(g, s)]
  BY <1>5, <1>6
<1> QED
  BY <1>7 DEF SumTable

LEMMA SumTablesAgree ==
  ASSUME NEW f, NEW S, IsFiniteSet(S), NEW R \in SUBSET S, NEW g, NEW h,
         SumTable(g, f, S), SumTable(h, f, R)
  PROVE  g[R] = h[R]
<1> DEFINE Val(e, s) == IF s = {} THEN 0 ELSE f[Chosen(s)] + e[s \ {Chosen(s)}]
           T == {n \in Nat : \A s \in SUBSET R : Cardinality(s) <= n => g[s] = h[s]}
<1>1. \A s \in SUBSET R : /\ IsFiniteSet(s) /\ Cardinality(s) \in Nat
                          /\ (Cardinality(s) = 0 <=> s = {}) /\ s \in SUBSET S
  BY FS_Subset, FS_CardinalityType, FS_EmptySet
<1>2. \A s \in SUBSET S : g[s] = Val(g, s)
  <2>1. g = [s \in SUBSET S |-> Val(g, s)]
    BY DEF SumTable
  <2> HIDE DEF Val
  <2> QED
    BY <2>1
<1>3. \A s \in SUBSET R : h[s] = Val(h, s)
  <2>1. h = [s \in SUBSET R |-> Val(h, s)]
    BY DEF SumTable
  <2> HIDE DEF Val
  <2> QED
    BY <2>1
<1>4. 0 \in T
  <2>1. {} \in SUBSET R /\ {} \in SUBSET S
    OBVIOUS
  <2>2. g[{}] = 0 /\ h[{}] = 0
    BY <1>2, <1>3, <2>1
  <2>3. ASSUME NEW s \in SUBSET R, Cardinality(s) <= 0 PROVE g[s] = h[s]
    BY <1>1, <2>2, <2>3
  <2> QED
    BY <2>3
<1>5. ASSUME NEW n \in T PROVE n + 1 \in T
  <2> SUFFICES ASSUME NEW s \in SUBSET R, Cardinality(s) <= n + 1 PROVE g[s] = h[s]
    OBVIOUS
  <2>1. CASE s = {}
    BY <1>1, <1>2, <1>3, <2>1
  <2>2. CASE s # {}
    <3> DEFINE r == s \ {Chosen(s)}
    <3>1. r \in SUBSET R /\ Cardinality(r) <= n
      BY <1>1, <2>2, SmallerSet
    <3>2. g[r] = h[r]
      BY <3>1
    <3>3. g[s] = f[Chosen(s)] + g[r] /\ h[s] = f[Chosen(s)] + h[r]
      BY <1>1, <1>2, <1>3, <2>2
    <3> HIDE DEF r
    <3> QED
      BY <3>2, <3>3
  <2> QED
    BY <2>1, <2>2
<1>6. T = Nat
  <2>1. T \in SUBSET Nat
    OBVIOUS
  <2> HIDE DEF T
  <2> QED
    BY <1>4, <1>5, <2>1, AllNumbers
<1>7. IsFiniteSet(R) /\ Cardinality(R) \in Nat
  BY <1>1
<1> QED
  BY <1>6, <1>7

LEMMA SumIsTable ==
  ASSUME NEW f, NEW S, IsFiniteSet(S)
  PROVE  \E g : SumTable(g, f, S) /\ \A R \in SUBSET S : SumFunctionOnSet(f, R) = g[R]
<1>1. \A R : SumFunctionOnSet(f, R) = (CHOOSE g : SumTable(g, f, R))[R]
  BY DEF SumFunctionOnSet, FoldFunctionOnSet, MapThenFoldSet, SumTable, Chosen
<1>2. PICK g : SumTable(g, f, S)
  BY SumTableExists
<1>3. ASSUME NEW R \in SUBSET S PROVE SumFunctionOnSet(f, R) = g[R]
  <2>1. IsFiniteSet(R)
    BY FS_Subset
  <2> DEFINE h == CHOOSE h : SumTable(h, f, R)
  <2>2. SumTable(h, f, R)
    BY <2>1, SumTableExists
  <2>3. SumFunctionOnSet(f, R) = h[R]
    BY <1>1
  <2> HIDE DEF h
  <2> QED
    BY <1>2, <2>2, <2>3, SumTablesAgree
<1> QED
  BY <1>2, <1>3

LEMMA SumStep ==
  ASSUME NEW f, NEW S, IsFiniteSet(S)
  PROVE  /\ SumFunctionOnSet(f, {}) = 0
         /\ S # {} => SumFunctionOnSet(f, S) = f[Chosen(S)] + SumFunctionOnSet(f, S \ {Chosen(S)})
<1>1. PICK g : SumTable(g, f, S) /\ \A R \in SUBSET S : SumFunctionOnSet(f, R) = g[R]
  BY SumIsTable
<1>2. {} \in SUBSET S /\ S \in SUBSET S /\ S \ {Chosen(S)} \in SUBSET S
  OBVIOUS
<1>3. g[{}] = 0 /\ (S # {} => g[S] = f[Chosen(S)] + g[S \ {Chosen(S)}])
  BY <1>1, <1>2 DEF SumTable
<1> QED
  BY <1>1, <1>2, <1>3

(* Of numbers: any element may be the last one added.                      *)
LEMMA SumOfNumbers ==
  ASSUME NEW f, NEW S, IsFiniteSet(S), \A x \in S : f[x] \in Nat
  PROVE  /\ SumFunctionOnSet(f, S) \in Nat
         /\ \A x \in S : SumFunctionOnSet(f, S) = f[x] + SumFunctionOnSet(f, S \ {x})
<1> DEFINE Sum(s) == SumFunctionOnSet(f, s)
           Right(s) == Sum(s) \in Nat /\ \A x \in s : Sum(s) = f[x] + Sum(s \ {x})
           T == {n \in Nat : \A s \in SUBSET S : Cardinality(s) <= n => Right(s)}
<1>1. \A s \in SUBSET S : /\ IsFiniteSet(s) /\ Cardinality(s) \in Nat
                          /\ (Cardinality(s) = 0 <=> s = {})
  BY FS_Subset, FS_CardinalityType, FS_EmptySet
<1>2. \A s \in SUBSET S : /\ s = {} => Sum(s) = 0
                          /\ s # {} => Sum(s) = f[Chosen(s)] + Sum(s \ {Chosen(s)})
  BY <1>1, SumStep
<1> HIDE DEF Sum
<1>3. 0 \in T /\ \A s \in SUBSET S : s = {} => Right(s)
  <2>1. ASSUME NEW s \in SUBSET S, s = {} PROVE Right(s)
    <3>1. Sum(s) = 0 /\ \A x \in s : FALSE
      BY <1>2, <2>1
    <3> QED
      BY <3>1
  <2> HIDE DEF Right
  <2> QED
    BY <1>1, <2>1
<1>4. ASSUME NEW n \in T PROVE n + 1 \in T
  <2> SUFFICES ASSUME NEW s \in SUBSET S, Cardinality(s) <= n + 1 PROVE Right(s)
    OBVIOUS
  <2>1. CASE s = {}
    BY <1>3, <2>1
  <2>2. CASE s # {}
    <3> DEFINE c == Chosen(s)
    <3>1. \A x \in s : s \ {x} \in SUBSET S /\ Cardinality(s \ {x}) <= n
      BY <1>1, <2>2, SmallerSet
    <3>2. \A x \in s : Right(s \ {x})
      BY <3>1
    <3>3. c \in s /\ Sum(s) = f[c] + Sum(s \ {c})
      BY <1>1, <1>2, <2>2, SmallerSet
    <3>4. Sum(s) \in Nat
      BY <3>2, <3>3
    <3>5. ASSUME NEW x \in s PROVE Sum(s) = f[x] + Sum(s \ {x})
      <4>1. CASE x = c
        BY <3>3, <4>1
      <4>2. CASE x # c
        <5> DEFINE r == (s \ {c}) \ {x}
        <5>1. r = (s \ {x}) \ {c} /\ c \in s \ {x} /\ x \in s \ {c}
          BY <3>3, <4>2
        <5>2. Sum(s \ {c}) = f[x] + Sum(r) /\ Sum(s \ {x}) = f[c] + Sum(r)
          BY <3>2, <3>3, <5>1
        <5>3. Sum(r) \in Nat /\ f[x] \in Nat /\ f[c] \in Nat
          <6>1. r \in SUBSET S /\ Cardinality(r) <= n
            <7>1. IsFiniteSet(s \ {c}) /\ r \in SUBSET (s \ {c})
              BY <1>1
            <7>2. Cardinality(r) <= Cardinality(s \ {c}) /\ Cardinality(r) \in Nat
              BY <7>1, FS_Subset, FS_CardinalityType
            <7>3. Cardinality(s \ {c}) \in Nat
              BY <7>1, FS_CardinalityType
            <7> QED
              BY <3>1, <3>3, <7>2, <7>3
          <6> QED
            BY <3>3, <6>1
        <5> HIDE DEF r, c
        <5> QED
          BY <3>3, <5>2, <5>3
      <4> QED
        BY <4>1, <4>2
    <3> QED
      BY <3>4, <3>5
  <2> QED
    BY <2>1, <2>2
<1>5. T = Nat
  <2>1. T \in SUBSET Nat
    OBVIOUS
  <2> HIDE DEF T
  <2> QED
    BY <1>3, <1>4, <2>1, AllNumbers
<1>6. Right(S)
  <2>1. Cardinality(S) \in T /\ Cardinality(S) \in Nat
    BY <1>1, <1>5
  <2> QED
    BY <2>1
<1> QED
  BY <1>6 DEF Sum

LEMMA SumsAgree ==
  ASSUME NEW f, NEW g, NEW S, IsFiniteSet(S), \A x \in S : f[x] \in Nat /\ f[x] = g[x]
  PROVE  SumFunctionOnSet(f, S) = SumFunctionOnSet(g, S)
<1> DEFINE A(s) == SumFunctionOnSet(f, s)
           B(s) == SumFunctionOnSet(g, s)
           T == {n \in Nat : \A s \in SUBSET S : Cardinality(s) <= n => A(s) = B(s)}
<1>1. \A s \in SUBSET S : /\ IsFiniteSet(s) /\ Cardinality(s) \in Nat
                          /\ (Cardinality(s) = 0 <=> s = {})
  BY FS_Subset, FS_CardinalityType, FS_EmptySet
<1>2. \A s \in SUBSET S : /\ s = {} => A(s) = B(s)
                          /\ s # {} => /\ A(s) = f[Chosen(s)] + A(s \ {Chosen(s)})
                                       /\ B(s) = g[Chosen(s)] + B(s \ {Chosen(s)})
  BY <1>1, SumStep
<1> HIDE DEF A, B
<1>3. 0 \in T
  BY <1>1, <1>2
<1>4. ASSUME NEW n \in T PROVE n + 1 \in T
  <2> SUFFICES ASSUME NEW s \in SUBSET S, Cardinality(s) <= n + 1 PROVE A(s) = B(s)
    OBVIOUS
  <2>1. CASE s = {}
    BY <1>2, <2>1
  <2>2. CASE s # {}
    <3>1. /\ Chosen(s) \in s /\ s \ {Chosen(s)} \in SUBSET S
          /\ Cardinality(s \ {Chosen(s)}) <= n
      BY <1>1, <2>2, SmallerSet
    <3>2. A(s \ {Chosen(s)}) = B(s \ {Chosen(s)})
      BY <3>1
    <3> QED
      BY <1>2, <2>2, <3>1, <3>2
  <2> QED
    BY <2>1, <2>2
<1>5. T = Nat
  <2>1. T \in SUBSET Nat
    OBVIOUS
  <2> HIDE DEF T
  <2> QED
    BY <1>3, <1>4, <2>1, AllNumbers
<1>6. A(S) = B(S)
  <2>1. Cardinality(S) \in T /\ Cardinality(S) \in Nat
    BY <1>1, <1>5
  <2> QED
    BY <2>1
<1> QED
  BY <1>6 DEF A, B

LEMMA SumOfUnion ==
  ASSUME NEW f, NEW S, NEW R, IsFiniteSet(S), IsFiniteSet(R), S \cap R = {},
         \A x \in S \cup R : f[x] \in Nat
  PROVE  SumFunctionOnSet(f, S \cup R) = SumFunctionOnSet(f, S) + SumFunctionOnSet(f, R)
<1> DEFINE Sum(s) == SumFunctionOnSet(f, s)
           T == {n \in Nat : \A s \in SUBSET R : Cardinality(s) <= n => Sum(S \cup s) = Sum(S) + Sum(s)}
<1>1. \A s \in SUBSET R : /\ IsFiniteSet(s) /\ Cardinality(s) \in Nat
                          /\ (Cardinality(s) = 0 <=> s = {}) /\ IsFiniteSet(S \cup s)
  BY FS_Subset, FS_CardinalityType, FS_EmptySet, FS_Union
<1>2. /\ Sum(S) \in Nat
      /\ \A s \in SUBSET R : /\ s = {} => Sum(s) = 0
                             /\ Sum(s) \in Nat
                             /\ \A x \in s : Sum(s) = f[x] + Sum(s \ {x})
  <2>1. Sum(S) \in Nat
    BY SumOfNumbers
  <2>2. ASSUME NEW s \in SUBSET R PROVE s = {} => Sum(s) = 0
    BY <1>1, SumStep
  <2>3. ASSUME NEW s \in SUBSET R PROVE Sum(s) \in Nat /\ \A x \in s : Sum(s) = f[x] + Sum(s \ {x})
    BY <1>1, SumOfNumbers
  <2> HIDE DEF Sum
  <2> QED
    BY <2>1, <2>2, <2>3
<1>3. \A s \in SUBSET R : \A x \in S \cup s : Sum(S \cup s) = f[x] + Sum((S \cup s) \ {x})
  BY <1>1, SumOfNumbers
<1> HIDE DEF Sum
<1>4. \A s \in SUBSET R : s = {} => Sum(S \cup s) = Sum(S) + Sum(s)
  <2> SUFFICES ASSUME NEW s \in SUBSET R, s = {} PROVE Sum(S \cup s) = Sum(S) + Sum(s)
    OBVIOUS
  <2>1. S \cup s = S /\ Sum(s) = 0
    BY <1>2
  <2> QED
    BY <1>2, <2>1
<1>5. 0 \in T
  BY <1>1, <1>4
<1>6. ASSUME NEW n \in T PROVE n + 1 \in T
  <2> SUFFICES ASSUME NEW s \in SUBSET R, Cardinality(s) <= n + 1
               PROVE  Sum(S \cup s) = Sum(S) + Sum(s)
    OBVIOUS
  <2>1. CASE s = {}
    BY <1>4, <2>1
  <2>2. CASE s # {}
    <3>1. IsFiniteSet(s) /\ Cardinality(s) \in Nat
      BY <1>1
    <3>2. \A x \in s : Cardinality(s \ {x}) = Cardinality(s) - 1
      BY <2>2, <3>1, SmallerSet
    <3>3. n \in Nat
      OBVIOUS
    <3>4. \A x \in s : s \ {x} \in SUBSET R
      OBVIOUS
    <3>5. \A x \in s : s \ {x} \in SUBSET R /\ Cardinality(s \ {x}) <= n
      <4> HIDE DEF T
      <4> QED
        BY <3>1, <3>2, <3>3, <3>4
    <3>6. PICK c \in s : s \ {c} \in SUBSET R /\ Cardinality(s \ {c}) <= n
      BY <2>2, <3>5
    <3> DEFINE r == s \ {c}
    <3>7. Sum(S \cup r) = Sum(S) + Sum(r)
      BY <3>6
    <3>8. (S \cup s) \ {c} = S \cup r /\ c \in S \cup s
      OBVIOUS
    <3>9. Sum(S \cup s) = f[c] + Sum(S \cup r)
      <4>1. Sum(S \cup s) = f[c] + Sum((S \cup s) \ {c})
        <5> s \in SUBSET R
          OBVIOUS
        <5> QED
          BY <1>3, <3>8
      <4> QED
        BY <3>8, <4>1
    <3>10. Sum(s) = f[c] + Sum(r)
      BY <1>2
    <3>11. f[c] \in Nat /\ Sum(S) \in Nat /\ Sum(r) \in Nat
      BY <1>2, <3>6
    <3> HIDE DEF r
    <3> QED
      BY <3>7, <3>9, <3>10, <3>11
  <2> QED
    BY <2>1, <2>2
<1>7. T = Nat
  <2>1. T \in SUBSET Nat
    OBVIOUS
  <2> HIDE DEF T
  <2> QED
    BY <1>5, <1>6, <2>1, AllNumbers
<1>8. Sum(S \cup R) = Sum(S) + Sum(R)
  <2>1. Cardinality(R) \in T /\ Cardinality(R) \in Nat
    BY <1>1, <1>7
  <2> QED
    BY <2>1
<1> QED
  BY <1>8 DEF Sum

(* The sum over the first b numbers, in two parts.                         *)
LEMMA SumOfIntervals ==
  ASSUME NEW f, NEW a \in Nat, NEW b \in Nat, a <= b, \A x \in 0 .. b - 1 : f[x] \in Nat
  PROVE  /\ SumFunctionOnSet(f, 0 .. b - 1)
              = SumFunctionOnSet(f, 0 .. a - 1) + SumFunctionOnSet(f, a .. b - 1)
         /\ \A x \in Nat, y \in 0 .. b : SumFunctionOnSet(f, x .. y - 1) \in Nat
         /\ SumFunctionOnSet(f, 0 .. 0 - 1) = 0
<1>1. \A x, y \in Int : IsFiniteSet(x .. y)
  BY FS_Interval
<1>2. SumFunctionOnSet(f, 0 .. b - 1)
        = SumFunctionOnSet(f, 0 .. a - 1) + SumFunctionOnSet(f, a .. b - 1)
  <2>1. 0 .. b - 1 = (0 .. a - 1) \cup (a .. b - 1) /\ (0 .. a - 1) \cap (a .. b - 1) = {}
    OBVIOUS
  <2>2. IsFiniteSet(0 .. a - 1) /\ IsFiniteSet(a .. b - 1)
    BY <1>1
  <2>3. \A x \in (0 .. a - 1) \cup (a .. b - 1) : f[x] \in Nat
    OBVIOUS
  <2> QED
    BY <2>1, <2>2, <2>3, SumOfUnion
<1>3. ASSUME NEW x \in Nat, NEW y \in 0 .. b PROVE SumFunctionOnSet(f, x .. y - 1) \in Nat
  <2>1. IsFiniteSet(x .. y - 1) /\ \A z \in x .. y - 1 : f[z] \in Nat
    BY <1>1
  <2> QED
    BY <2>1, SumOfNumbers
<1>4. SumFunctionOnSet(f, 0 .. 0 - 1) = 0
  <2>1. 0 .. 0 - 1 = {}
    OBVIOUS
  <2> QED
    BY <2>1, SumStep, FS_EmptySet
<1> QED
  BY <1>2, <1>3, <1>4

-----------------------------------------------------------------------------
(* The matrix as the cache's bits give it back.                            *)

LEMMA LowBits ==
  ASSUME NEW a \in Nat \ {0}, NEW v \in Nat
  PROVE  v % (a * 2) = (v % a) + a * ((v \div a) % 2)
<1> DEFINE q == v \div a
           r == v % a
           s == q \div 2
           t == q % 2
           x == a * t + r
<1>1. v = a * q + r /\ r \in 0 .. a - 1 /\ q \in Nat
  BY Division
<1>2. q = 2 * s + t /\ t \in {0, 1} /\ s \in Nat
  <2> HIDE DEF q
  <2> QED
    BY <1>1
<1> HIDE DEF q, r, s, t
<1>3. x \in 0 .. (a * 2) - 1 /\ a * q = (a * 2) * s + a * t
  BY <1>1, <1>2
<1>4. v = (a * 2) * s + x
  BY <1>1, <1>2, <1>3
<1> DEFINE b == a * 2
<1>5. b \in Nat \ {0} /\ x \in Nat
  BY <1>3
<1>6. (b * s + x) % b = x % b
  <2> HIDE DEF b, x
  <2> QED
    BY <1>2, <1>5, SumDivided
<1>7. x % b = x
  <2>1. x \in 0 .. b - 1
    BY <1>3
  <2> HIDE DEF x, b
  <2> QED
    BY <1>5, <2>1
<1> QED
  BY <1>4, <1>6, <1>7 DEF r, t, q

LEMMA SumOfBits ==
  ASSUME NEW v \in 0 .. 2^NIB - 1, NEW f, \A b \in 0 .. NIB - 1 : f[b] = IF Bit(v, b) = 1 THEN 2^b ELSE 0
  PROVE  SumFunctionOnSet(f, 0 .. NIB - 1) = v
<1> DEFINE T == {n \in Nat : n <= NIB => SumFunctionOnSet(f, 0 .. n - 1) = v % 2^n}
<1>1. NIB \in Nat \ {0} /\ NIB <= W /\ W \in Nat
  <2>1. NIB \in Nat \ {0} /\ WORD \in Nat \ {0}
    BY Sizes
  <2> QED
    BY <2>1 DEF W
<1>2. \A n \in 0 .. NIB : 2^n \in Nat \ {0}
  BY <1>1, Powers
<1>3. v \in Nat
  BY <1>1, <1>2
<1>4. \A b \in 0 .. NIB - 1 : f[b] \in Nat
  BY <1>1, <1>2
<1>5. 0 \in T
  <2>1. SumFunctionOnSet(f, 0 .. 0 - 1) = 0
    BY <1>1, <1>4, SumOfIntervals
  <2>2. v % 2^0 = 0
    BY <1>3
  <2> QED
    BY <2>1, <2>2
<1>6. ASSUME NEW n \in T PROVE n + 1 \in T
  <2> SUFFICES ASSUME n + 1 <= NIB PROVE SumFunctionOnSet(f, 0 .. (n + 1) - 1) = v % 2^(n + 1)
    OBVIOUS
  <2> DEFINE a == 2^n
             q == v \div a
  <2>1. n \in Nat /\ n \in 0 .. NIB - 1 /\ n \in 0 .. NIB /\ SumFunctionOnSet(f, 0 .. n - 1) = v % a
    BY <1>1
  <2>2. a \in Nat \ {0} /\ 2^(n + 1) = a * 2
    <3>1. n \in 0 .. W /\ 1 \in 0 .. W
      BY <1>1, <2>1
    <3>2. 2^(n + 1) = 2^n * 2^1 /\ 2^1 = 2
      BY <3>1, Powers
    <3> QED
      BY <1>2, <2>1, <3>2
  <2>3. f[n] = a * (q % 2)
    <3>1. f[n] = IF q % 2 = 1 THEN a ELSE 0
      BY <2>1 DEF Bit
    <3>2. q \in Nat
      <4> HIDE DEF a
      <4> QED
        BY <1>3, <2>2
    <3> HIDE DEF a, q
    <3>3. q % 2 \in {0, 1}
      BY <3>2
    <3> QED
      BY <2>2, <3>1, <3>3
  <2>4. SumFunctionOnSet(f, 0 .. (n + 1) - 1) = f[n] + SumFunctionOnSet(f, 0 .. n - 1)
    <3> DEFINE S == 0 .. (n + 1) - 1
    <3>1. n \in S /\ S \ {n} = 0 .. n - 1 /\ \A x \in S : f[x] \in Nat
      BY <1>1, <1>4, <2>1
    <3>2. IsFiniteSet(S)
      BY <2>1, FS_Interval
    <3> HIDE DEF S
    <3>3. SumFunctionOnSet(f, S) = f[n] + SumFunctionOnSet(f, S \ {n})
      <4>1. \A x \in S : SumFunctionOnSet(f, S) = f[x] + SumFunctionOnSet(f, S \ {x})
        <5>1. \A x \in S : f[x] \in Nat
          BY <3>1
        <5> QED
          BY ONLY <5>1, <3>2, SumOfNumbers
      <4> QED
        BY <3>1, <4>1
    <3> QED
      BY <3>1, <3>3 DEF S
  <2>5. v % (a * 2) = (v % a) + a * (q % 2)
    <3> HIDE DEF a
    <3> QED
      BY <1>3, <2>2, LowBits
  <2>6. v % a \in Nat /\ a * (q % 2) \in Nat
    <3> HIDE DEF a
    <3>1. v % a \in Nat /\ q \in Nat
      BY <1>3, <2>2
    <3> HIDE DEF q
    <3> QED
      BY <2>2, <3>1
  <2>7. v % 2^(n + 1) = v % (a * 2)
    BY <2>2
  <2>8. SumFunctionOnSet(f, 0 .. (n + 1) - 1) = a * (q % 2) + (v % a)
    BY <2>1, <2>3, <2>4
  <2> HIDE DEF a, q
  <2> QED
    BY <2>5, <2>6, <2>7, <2>8
<1>7. T = Nat
  <2>1. T \in SUBSET Nat
    OBVIOUS
  <2> HIDE DEF T
  <2> QED
    BY <1>5, <1>6, <2>1, AllNumbers
<1>8. SumFunctionOnSet(f, 0 .. NIB - 1) = v % 2^NIB
  <2>1. NIB \in T
    BY <1>1, <1>7
  <2> QED
    BY <2>1
<1>9. v % 2^NIB = v
  <2> DEFINE a == 2^NIB
  <2>1. a \in Nat \ {0} /\ v \in 0 .. a - 1
    BY <1>1, <1>2
  <2> HIDE DEF a
  <2>2. v % a = v
    BY <2>1
  <2> QED
    BY <2>2 DEF a
<1> QED
  BY <1>8, <1>9

Matrix == [Index -> [Index -> Nibble]]

LEMMA ElementOfRow ==
  ASSUME NEW m \in Matrix, NEW i \in Index, NEW j \in Index
  PROVE  Element(RowBits(m)[i], j) = m[i][j]
<1> DEFINE row == RowBits(m)[i]
           v == m[i][j]
           f == [b \in 0 .. NIB - 1 |-> IF j * NIB + b \in row THEN 2^b ELSE 0]
<1>1. NIB \in Nat \ {0} /\ N \in Nat /\ j \in 0 .. N - 1
  BY Sizes DEF Index
<1>2. v \in 0 .. 2^NIB - 1
  BY DEF Matrix, Nibble
<1>3. ASSUME NEW b \in 0 .. NIB - 1 PROVE j * NIB + b \in row <=> Bit(v, b) = 1
  <2> DEFINE c == j * NIB + b
  <2>1. c \in Nat /\ c < N * NIB
    <3>1. (j + 1) * NIB <= N * NIB /\ (j + 1) * NIB = j * NIB + NIB /\ j * NIB \in Nat /\ N * NIB \in Nat
      BY <1>1
    <3> QED
      BY <1>1, <3>1
  <2>2. c \in Col
    <3> HIDE DEF c
    <3> QED
      BY <1>1, <2>1, Sizes DEF Col
  <2>3. c \div NIB = j /\ c % NIB = b
    <3>1. c = NIB * j + b /\ b \in Nat /\ j \in Nat
      BY <1>1
    <3>2. (NIB * j + b) \div NIB = j + (b \div NIB) /\ (NIB * j + b) % NIB = b % NIB
      BY <1>1, <3>1, SumDivided
    <3>3. b \div NIB = 0 /\ b % NIB = b
      BY <1>1
    <3> HIDE DEF c
    <3> QED
      BY <3>1, <3>2, <3>3
  <2> HIDE DEF c
  <2> QED
    BY <2>2, <2>3 DEF RowBits, Bit, c
<1>4. \A b \in 0 .. NIB - 1 : f[b] = IF Bit(v, b) = 1 THEN 2^b ELSE 0
  <2> HIDE DEF row, v
  <2> QED
    BY <1>3
<1>5. Element(row, j) = SumFunctionOnSet(f, 0 .. NIB - 1)
  BY DEF Element, SumFunction
<1> HIDE DEF f, v, row
<1>6. SumFunctionOnSet(f, 0 .. NIB - 1) = v
  BY <1>2, <1>4, SumOfBits
<1> QED
  BY <1>5, <1>6 DEF v, row

LEMMA DrawIsMatrix ==
  ASSUME NEW p \in Pphs, NEW a \in Nat
  PROVE  Draw(p, a) \in Matrix
<1>1. NIB \in Nat \ {0} /\ N \in Nat /\ p \in Seeds
  BY Sizes, SeedsAreWords DEF Seeds
<1>2. ASSUME NEW i \in Index, NEW j \in Index PROVE Draw(p, a)[i][j] \in Nibble
  <2> DEFINE c == j * NIB
  <2>1. c \in Nat /\ c < N * NIB /\ c \div NIB = j
    <3>1. j \in 0 .. N - 1
      BY DEF Index
    <3> QED
      BY <1>1, <3>1
  <2>2. c \in Col
    BY <2>1, Sizes DEF Col
  <2> HIDE DEF c
  <2>3. Draw(p, a)[i][c \div NIB] \in 0 .. 2^NIB - 1
    BY <1>1, <2>2, BitsOfDraw
  <2> QED
    BY <2>1, <2>3 DEF Nibble
<1> QED
  BY <1>2 DEF Matrix, Draw

LEMMA FirstIsMatrix ==
  ASSUME NEW p \in Pphs
  PROVE  FirstIndependent[p] \in Matrix
<1> DEFINE draws == DrawsOf[p]
           good == {a \in DOMAIN draws : RowsIndependent(RowBits(draws[a]))}
<1>1. ATTEMPTS \in Nat
  BY KHeavyhashConstants
<1>2. DOMAIN draws = 0 .. ATTEMPTS - 1 /\ \A a \in 0 .. ATTEMPTS - 1 : draws[a] = Draw(p, a)
  BY DEF DrawsOf, Draws
<1>3. good # {} /\ good \in SUBSET Nat
  BY <1>1, <1>2, EveryBlockHasAMatrix
<1>4. FirstIndependent[p] = IF good = {} THEN NoMatrix ELSE draws[Min(good)]
  BY DEF FirstIndependent, FirstDraw
<1>5. Min(good) \in good
  <2> HIDE DEF good
  <2> QED
    BY <1>3, MinIsLeast
<1>6. FirstIndependent[p] = Draw(p, Min(good)) /\ Min(good) \in Nat
  BY <1>2, <1>3, <1>4, <1>5
<1> HIDE DEF good
<1> QED
  BY <1>6, DrawIsMatrix

LEMMA FlatIsMatrix ==
  ASSUME NEW m \in Matrix, cache.row = RowBits(m)
  PROVE  matrix_flat = m
<1>1. \A i \in Index, j \in Index : Element(cache.row[i], j) = m[i][j]
  BY ElementOfRow
<1>2. matrix_flat = [i \in Index |-> [j \in Index |-> m[i][j]]]
  BY <1>1 DEF matrix_flat
<1>3. m = [i \in Index |-> m[i]] /\ \A i \in Index : m[i] = [j \in Index |-> m[i][j]]
  BY DEF Matrix
<1> QED
  BY <1>2, <1>3

-----------------------------------------------------------------------------
(* Widths.                                                                 *)

LEMMA Widths ==
  /\ 2^NIB \in Nat \ {0} /\ 2^SHIFT \in Nat \ {0} /\ 2^PROD_W \in Nat \ {0} /\ 2^ACC_W \in Nat \ {0}
  /\ 2^NIB * 2^NIB <= 2^PROD_W
  /\ \E z \in Nat \ {0} : 2^ACC_W = (2^SHIFT * 2^NIB) * z
<1> DEFINE L == PROD_W + ACC_W
           T == {n \in Nat : n <= L => 2^n > 0}
<1>1. /\ NIB \in Nat \ {0} /\ SHIFT \in Nat \ {0} /\ PROD_W \in Nat \ {0} /\ ACC_W \in Nat \ {0}
      /\ PROD_W >= 2 * NIB /\ ACC_W >= SHIFT + NIB
  BY KHeavyhashConstants, MatmulConstants
<1>2. \A n \in Nat : 2^n \in Int
  OBVIOUS
<1>3. 2^0 = 1 /\ 2^1 = 2
  OBVIOUS
<1>4. L \in Nat /\ L >= 1 /\ \A m, n \in 0 .. L : 2^(m + n) = 2^m * 2^n
  BY <1>1, PowersOfWidths
<1> HIDE DEF L
<1>5. 0 \in T
  BY <1>3
<1>6. ASSUME NEW n \in T PROVE n + 1 \in T
  <2>1. CASE n + 1 <= L
    <3>1. n \in 0 .. L /\ 1 \in 0 .. L
      BY <1>4, <2>1
    <3>2. 2^(n + 1) = 2^n * 2^1
      BY <1>4, <3>1
    <3>3. 2^n \in Int /\ 2^n > 0
      BY <1>2, <1>4, <2>1
    <3> QED
      BY <1>3, <3>2, <3>3
  <2>2. CASE ~(n + 1 <= L)
    BY <2>2
  <2> QED
    BY <2>1, <2>2
<1>7. T = Nat
  <2>1. T \in SUBSET Nat
    OBVIOUS
  <2> HIDE DEF T
  <2> QED
    BY <1>5, <1>6, <2>1, AllNumbers
<1>8. \A n \in 0 .. L : 2^n \in Nat \ {0}
  BY <1>2, <1>4, <1>7
<1>9. NIB \in 0 .. L /\ SHIFT \in 0 .. L /\ PROD_W \in 0 .. L /\ ACC_W \in 0 .. L
  BY <1>1 DEF L
<1>10. 2^NIB * 2^NIB <= 2^PROD_W
  <2> DEFINE r == PROD_W - (NIB + NIB)
             a == 2^NIB * 2^NIB
             b == 2^r
  <2>1. r \in 0 .. L /\ NIB + NIB \in 0 .. L /\ (NIB + NIB) + r = PROD_W
    BY <1>1, <1>9 DEF L
  <2>2. 2^PROD_W = 2^(NIB + NIB) * 2^r /\ 2^(NIB + NIB) = a
    BY <1>4, <1>9, <2>1
  <2>3. a \in Nat /\ b \in Nat \ {0} /\ 2^PROD_W = a * b
    BY <1>8, <1>9, <2>1, <2>2
  <2> HIDE DEF a, b
  <2>4. a <= a * b
    BY <2>3
  <2> QED
    BY <2>3, <2>4 DEF a
<1>11. \E z \in Nat \ {0} : 2^ACC_W = (2^SHIFT * 2^NIB) * z
  <2> DEFINE r == ACC_W - (SHIFT + NIB)
  <2>1. r \in 0 .. L /\ SHIFT + NIB \in 0 .. L /\ (SHIFT + NIB) + r = ACC_W
    BY <1>1, <1>9 DEF L
  <2>2. 2^ACC_W = 2^(SHIFT + NIB) * 2^r /\ 2^(SHIFT + NIB) = 2^SHIFT * 2^NIB
    BY <1>4, <1>9, <2>1
  <2>3. 2^r \in Nat \ {0}
    BY <1>8, <2>1
  <2> QED
    BY <2>2, <2>3
<1> QED
  BY <1>8, <1>9, <1>10, <1>11

(* What an accumulator that has wrapped still shows of the sum.            *)
LEMMA TopOfAccumulator ==
  ASSUME NEW v \in Nat
  PROVE  ((v % 2^ACC_W) \div 2^SHIFT) % 2^NIB = (v \div 2^SHIFT) % 2^NIB
<1> DEFINE a == 2^SHIFT
           b == 2^NIB
           c == a * b
           d == 2^ACC_W
<1>1. a \in Nat \ {0} /\ b \in Nat \ {0} /\ d \in Nat \ {0}
  BY Widths
<1>2. PICK z \in Nat \ {0} : d = c * z
  BY Widths
<1> HIDE DEF a, b, d
<1>3. c \in Nat \ {0} /\ v % d \in Nat
  BY <1>1
<1>4. (v % d) % c = v % c
  <2> HIDE DEF c
  <2> QED
    BY <1>2, <1>3, RemainderTwice
<1>5. ((v % d) \div a) % b = ((v % d) % c) \div a
  BY <1>1, <1>3, RemainderDivided
<1>6. (v \div a) % b = (v % c) \div a
  BY <1>1, RemainderDivided
<1>7. ((v % d) \div a) % b = (v \div a) % b
  BY <1>4, <1>5, <1>6
<1> QED
  BY <1>7 DEF a, b, d

LEMMA SumOfRemainder ==
  ASSUME NEW a \in Nat \ {0}, NEW x \in Nat, NEW y \in Nat
  PROVE  ((x % a) + y) % a = (x + y) % a
<1> DEFINE q == x \div a
           r == x % a
           v == r + y
<1>1. x = a * q + r /\ r \in Nat /\ q \in Nat
  BY Division
<1> HIDE DEF q, r
<1>2. x + y = a * q + v /\ v \in Nat
  BY <1>1
<1>3. (a * q + v) % a = v % a
  <2> HIDE DEF v
  <2> QED
    BY <1>1, <1>2, SumDivided
<1> QED
  BY <1>2, <1>3 DEF r

(* A table's next entry, and that it fits.                                 *)
LEMMA NextProduct ==
  ASSUME NEW k \in 0 .. 2^NIB - 2, NEW x \in Nibble
  PROVE  k * x \in Nat /\ (k * x + x) % 2^PROD_W = (k + 1) * x
<1> DEFINE b == 2^NIB
           d == 2^PROD_W
           v == k * x + x
<1>1. b \in Nat \ {0} /\ d \in Nat \ {0} /\ b * b <= d
  BY Widths
<1>2. k \in 0 .. b - 2 /\ x \in 0 .. b - 1
  BY DEF Nibble
<1> HIDE DEF b, d
<1>3. k * x \in Nat /\ v = (k + 1) * x /\ k + 1 \in 0 .. b - 1
  BY <1>1, <1>2
<1>4. (k + 1) * x <= (b - 1) * (b - 1)
  <2> DEFINE j == k + 1
             c == b - 1
  <2>1. j \in 0 .. c /\ x \in 0 .. c /\ c \in Nat
    BY <1>1, <1>2, <1>3
  <2> HIDE DEF j, c
  <2>2. j * x <= c * x /\ c * x <= c * c
    BY <2>1
  <2>3. j * x \in Int /\ c * x \in Int /\ c * c \in Int
    BY <2>1
  <2>4. j * x <= c * c
    BY <2>2, <2>3
  <2> QED
    BY <2>4 DEF j, c
<1>5. (b - 1) * (b - 1) < b * b
  BY <1>1
<1>6. v \in 0 .. d - 1
  <2> DEFINE c == b * b
             e == (b - 1) * (b - 1)
             u == (k + 1) * x
  <2>1. c \in Int /\ e \in Int /\ u \in Nat /\ u <= e /\ e < c /\ c <= d /\ v = u
    BY <1>1, <1>2, <1>3, <1>4, <1>5
  <2> HIDE DEF c, e, u, v
  <2> QED
    BY <1>1, <2>1
<1>7. v % d = v
  <2> HIDE DEF v
  <2> QED
    BY <1>1, <1>6
<1> QED
  BY <1>3, <1>7 DEF d

-----------------------------------------------------------------------------
(* The tables and the items in the layers.                                 *)

MatrixOf(p) == FirstIndependent[p]
PowHash(it) == pow_hash_of(it.pph, TIMESTAMP, it.nonce)
VectorOf(it) == create_vector_from_hash(PowHash(it))
Products(it, i) == [j \in Index |-> MatrixOf(it.pph)[i][j] * VectorOf(it)[j]]

TableType ==
  /\ ld \in [state : {"LD_IDLE", "LD_RUN"}, col : Index, k : Nibble, run : [Index -> Nat]]
  /\ tbl \in [Index -> [Index -> [Nibble -> Nat]]]

Entry(p, j, k) == \A i \in Index : tbl[i][j][k] = k * MatrixOf(p)[i][j]

(* A load goes through the columns in order; those it has not reached are  *)
(* still of the block before.                                              *)
TablesInv ==
  /\ loaded \in Pphs \cup {None}
  /\ ~busy /\ loaded # None => \A j \in Index, k \in Nibble : Entry(loaded, j, k)
  /\ busy =>
       /\ \A i \in Index : ld.run[i] = ld.k * MatrixOf(ctl.blk_pph)[i][ld.col]
       /\ \A j \in Index, k \in Nibble :
             j < ld.col \/ (j = ld.col /\ k < ld.k) => Entry(ctl.blk_pph, j, k)
       /\ loaded # None => \A j \in Index, k \in Nibble : j > ld.col => Entry(loaded, j, k)

(* An item in a layer is of the block loaded last, is ahead of a load that *)
(* has begun, and has the products of the columns behind it added up.      *)
InLayer(st, it) ==
  /\ loaded # None /\ it.pph = loaded /\ it.nonce \in Nonces
  /\ busy => st >= ld.col
  /\ ph_delay[st] = PowHash(it)
  /\ \A c \in Index : c >= (st + 1) * COLS_PER_STAGE => pipe[st].fwd[c] = VectorOf(it)[c]
  /\ \A i \in Index : pipe[st].acc[i]
        = SumFunctionOnSet(Products(it, i), 0 .. (st + 1) * COLS_PER_STAGE - 1) % 2^ACC_W
ItemsInv == \A st \in Stage : pipe[st].valid => InLayer(st, item[st])

(* What the object remembers is what it would generate.                    *)
CachedInv ==
  cached.matrix # NoMatrix =>
    cached.prepow_hash \in Pphs /\ cached.matrix = Generated[cached.prepow_hash]

DigestInv == KeptInv /\ TableType /\ TablesInv /\ ItemsInv /\ CachedInv /\ DigestIsReference

LEMMA NibbleSizes ==
  /\ 0 \in Index /\ 0 \in Nibble /\ N \in Nat \ {0} /\ 2^NIB \in Nat \ {0}
  /\ \A k \in Nibble : k \in Nat /\ (k # 2^NIB - 1 => k + 1 \in Nibble /\ k \in 0 .. 2^NIB - 2)
  /\ \A j \in Index : j \in Nat /\ (j # N - 1 => j + 1 \in Index)
<1> DEFINE b == 2^NIB
<1>1. N \in Nat \ {0} /\ b \in Nat \ {0}
  BY Sizes, Widths
<1>2. Index = 0 .. N - 1 /\ Nibble = 0 .. b - 1
  BY DEF Index, Nibble
<1> HIDE DEF b
<1>3. 0 \in Index /\ 0 \in Nibble
  BY <1>1, <1>2
<1>4. \A k \in Nibble : k \in Nat /\ (k # b - 1 => k + 1 \in Nibble /\ k \in 0 .. b - 2)
  BY <1>1, <1>2
<1>5. \A j \in Index : j \in Nat /\ (j # N - 1 => j + 1 \in Index)
  BY <1>1, <1>2
<1> QED
  BY <1>1, <1>3, <1>4, <1>5 DEF b

(* The load's step, field by field.                                        *)
LEMMA TableLoadStep ==
  ASSUME TableType, NEW matrix, busy => matrix \in Matrix, NEW reload \in BOOLEAN,
         TableLoad(matrix, reload)
  PROVE  /\ TableType'
         /\ ~busy /\ ~reload => ld' = ld /\ tbl' = tbl
         /\ ~busy /\ reload => /\ busy' /\ ld'.col = 0 /\ ld'.k = 0 /\ \A i \in Index : ld'.run[i] = 0
                               /\ tbl' = tbl
         /\ busy => \A i \in Index, j \in Index, k \in Nibble :
              tbl'[i][j][k] = IF j = ld.col /\ k = ld.k THEN ld.run[i] ELSE tbl[i][j][k]
         /\ busy /\ ld.k # 2^NIB - 1 =>
              /\ busy' /\ ld'.col = ld.col /\ ld'.k = ld.k + 1
              /\ \A i \in Index : ld'.run[i] = (ld.run[i] + matrix[i][ld.col]) % 2^PROD_W
         /\ busy /\ ld.k = 2^NIB - 1 =>
              /\ busy' <=> ld.col # N - 1
              /\ ld'.col = IF ld.col = N - 1 THEN ld.col ELSE ld.col + 1
              /\ ld'.k = 0 /\ \A i \in Index : ld'.run[i] = 0
<1>1. /\ ld.col \in Index /\ ld.k \in Nibble /\ ld.run \in [Index -> Nat]
      /\ ld.state \in {"LD_IDLE", "LD_RUN"}
      /\ ld = [state |-> ld.state, col |-> ld.col, k |-> ld.k, run |-> ld.run]
  BY DEF TableType
<1>2. CASE ~busy
  <2>1. tbl' = tbl
    BY <1>2 DEF TableLoad
  <2>2. CASE ~reload
    BY <1>2, <2>1, <2>2 DEF TableLoad, TableType
  <2>3. CASE reload
    <3>1. ld' = [state |-> "LD_RUN", col |-> 0, k |-> 0, run |-> [i \in Index |-> 0]]
      BY <1>2, <2>3 DEF TableLoad
    <3> QED
      BY <1>2, <2>1, <2>3, <3>1, NibbleSizes DEF TableType, busy
  <2> QED
    BY <2>2, <2>3
<1>3. CASE busy
  <2>1. tbl' = [i \in Index |-> [j \in Index |->
                  IF j = ld.col THEN [tbl[i][j] EXCEPT ![ld.k] = ld.run[i]] ELSE tbl[i][j]]]
    BY <1>3 DEF TableLoad
  <2>2. \A i \in Index, j \in Index : tbl[i][j] \in [Nibble -> Nat]
    BY DEF TableType
  <2>3. \A i \in Index, j \in Index : tbl'[i][j] \in [Nibble -> Nat]
    BY <1>1, <2>1, <2>2
  <2>4. tbl' \in [Index -> [Index -> [Nibble -> Nat]]]
    <3>1. tbl' = [i \in Index |-> [j \in Index |-> tbl'[i][j]]]
      BY <2>1
    <3> QED
      BY <2>3, <3>1
  <2>5. \A i \in Index, j \in Index, k \in Nibble :
           tbl'[i][j][k] = IF j = ld.col /\ k = ld.k THEN ld.run[i] ELSE tbl[i][j][k]
    BY <1>1, <2>1, <2>2
  <2>6. CASE ld.k # 2^NIB - 1
    <3>1. ld' = [ld EXCEPT !.k = @ + 1,
                           !.run = [i \in Index |-> (@[i] + matrix[i][ld.col]) % 2^PROD_W]]
      BY <1>3, <2>6 DEF TableLoad
    <3> DEFINE run == [i \in Index |-> (ld.run[i] + matrix[i][ld.col]) % 2^PROD_W]
    <3>2. ld' = [state |-> ld.state, col |-> ld.col, k |-> ld.k + 1, run |-> run]
      BY <1>1, <3>1
    <3>3. run \in [Index -> Nat]
      <4>1. ASSUME NEW i \in Index PROVE (ld.run[i] + matrix[i][ld.col]) % 2^PROD_W \in Nat
        <5>1. ld.run[i] \in Nat /\ matrix[i][ld.col] \in Nat
          <6>1. matrix[i][ld.col] \in Nibble
            BY <1>1, <1>3 DEF Matrix
          <6> QED
            BY <1>1, <6>1, NibbleSizes
        <5> QED
          BY <5>1, Widths
      <4> QED
        BY <4>1
    <3>4. ld.k + 1 \in Nibble
      BY <1>1, <2>6, NibbleSizes
    <3>5. TableType'
      <4> HIDE DEF run
      <4> QED
        BY <1>1, <2>4, <3>2, <3>3, <3>4 DEF TableType
    <3>6. busy' /\ ld'.col = ld.col /\ ld'.k = ld.k + 1 /\ ld'.run = run
      BY <1>3, <3>2 DEF busy
    <3> QED
      BY <1>3, <2>5, <2>6, <3>5, <3>6
  <2>7. CASE ld.k = 2^NIB - 1
    <3>1. ld' = [ld EXCEPT !.k = 0, !.run = [i \in Index |-> 0],
                           !.state = IF ld.col = N - 1 THEN "LD_IDLE" ELSE @,
                           !.col = IF ld.col = N - 1 THEN @ ELSE @ + 1]
      BY <1>3, <2>7 DEF TableLoad
    <3>2. ld' = [state |-> IF ld.col = N - 1 THEN "LD_IDLE" ELSE ld.state,
                 col |-> IF ld.col = N - 1 THEN ld.col ELSE ld.col + 1,
                 k |-> 0, run |-> [i \in Index |-> 0]]
      BY <1>1, <3>1
    <3>3. TableType'
      <4>1. (IF ld.col = N - 1 THEN ld.col ELSE ld.col + 1) \in Index
        BY <1>1, NibbleSizes
      <4>2. 0 \in Nibble
        BY NibbleSizes
      <4> QED
        BY <1>1, <2>4, <3>2, <4>1, <4>2 DEF TableType
    <3>4. /\ busy' <=> ld.col # N - 1
          /\ ld'.col = IF ld.col = N - 1 THEN ld.col ELSE ld.col + 1
          /\ ld'.k = 0 /\ \A i \in Index : ld'.run[i] = 0
      BY <1>3, <3>2 DEF busy
    <3> QED
      BY <1>3, <2>5, <2>7, <3>3, <3>4
  <2> QED
    BY <2>6, <2>7
<1> QED
  BY <1>2, <1>3

(* While the tables are built, the cache holds the block's matrix.         *)
LEMMA DuringLoad ==
  ASSUME KeptInv, busy, NEW pph \in Pphs \cup {None}, NEW nonce, Clock(pph, nonce)
  PROVE  matrix_flat = MatrixOf(ctl.blk_pph) /\ ctl'.blk_pph = ctl.blk_pph
<1>1. ctl.blk_pph \in Pphs /\ CtlType /\ TurnInv /\ DrawInv
  BY DEF KeptInv, VerdictInv, CtlType
<1>2. ctl.state = "LOAD"
  BY <1>1 DEF TurnInv
<1>3. gen.state = "IDLE" /\ gen.done /\ ~ctl.matrix_gen_start
  BY <1>1, <1>2 DEF TurnInv
<1>4. cache.row = RowBits(MatrixOf(ctl.blk_pph))
  <2>1. Kept(ctl.blk_pph)
    BY <1>1, <1>3 DEF DrawInv
  <2> QED
    BY <1>1, <2>1, KeptIsFirst DEF MatrixOf
<1>5. matrix_flat = MatrixOf(ctl.blk_pph)
  <2>1. MatrixOf(ctl.blk_pph) \in Matrix
    BY <1>1, FirstIsMatrix DEF MatrixOf
  <2> QED
    BY <1>4, <2>1, FlatIsMatrix
<1>6. pph = None
  BY <1>2 DEF Clock, Start
<1> QED
  BY <1>1, <1>5, <1>6, ControlStep DEF Clock

LEMMA TablesInvStep ==
  ASSUME KeptInv, TableType, TablesInv,
         NEW pph \in Pphs \cup {None}, NEW nonce, Clock(pph, nonce)
  PROVE  TableType' /\ TablesInv'
<1> DEFINE p == ctl.blk_pph
           m == MatrixOf(p)
<1>1. /\ p \in Pphs /\ ctl.mm_reload \in BOOLEAN /\ None \notin Pphs /\ loaded \in Pphs \cup {None}
      /\ TableLoad(matrix_flat, ctl.mm_reload)
  BY SeedsAreWords DEF KeptInv, VerdictInv, CtlType, Clock, Feed, MatmulClock, TablesInv
<1>2. m \in Matrix
  BY <1>1, FirstIsMatrix DEF MatrixOf
<1>3. busy => matrix_flat = m /\ ctl'.blk_pph = p
  BY DuringLoad
<1>4. loaded' = IF busy /\ ~busy' THEN p ELSE loaded
  <2>1. LoadType' /\ LoadType
    BY TurnInvStep DEF KeptInv
  <2> QED
    BY <2>1 DEF Clock, Loaded, LoadType, busy
<1> HIDE DEF m
<1>5. /\ TableType'
      /\ ~busy /\ ~ctl.mm_reload => ld' = ld /\ tbl' = tbl
      /\ ~busy /\ ctl.mm_reload => /\ busy' /\ ld'.col = 0 /\ ld'.k = 0
                                   /\ \A i \in Index : ld'.run[i] = 0
                                   /\ tbl' = tbl
      /\ busy => \A i \in Index, j \in Index, k \in Nibble :
           tbl'[i][j][k] = IF j = ld.col /\ k = ld.k THEN ld.run[i] ELSE tbl[i][j][k]
      /\ busy /\ ld.k # 2^NIB - 1 =>
           /\ busy' /\ ld'.col = ld.col /\ ld'.k = ld.k + 1
           /\ \A i \in Index : ld'.run[i] = (ld.run[i] + matrix_flat[i][ld.col]) % 2^PROD_W
      /\ busy /\ ld.k = 2^NIB - 1 =>
           /\ busy' <=> ld.col # N - 1
           /\ ld'.col = IF ld.col = N - 1 THEN ld.col ELSE ld.col + 1
           /\ ld'.k = 0 /\ \A i \in Index : ld'.run[i] = 0
  BY <1>1, <1>2, <1>3, TableLoadStep
<1>6. /\ ld.col \in Index /\ ld.k \in Nibble /\ ld.col \in Nat /\ ld.k \in Nat
      /\ \A j \in Index : j \in Nat
      /\ \A k \in Nibble : k \in Nat
  BY NibbleSizes DEF TableType
<1>7. CASE ~busy /\ ~ctl.mm_reload
  <2>1. ld' = ld /\ tbl' = tbl /\ loaded' = loaded
    BY <1>4, <1>5, <1>7
  <2>2. ~busy'
    BY <1>7, <2>1 DEF busy
  <2> QED
    BY <1>5, <1>7, <2>1, <2>2 DEF TablesInv, Entry
<1>8. CASE ~busy /\ ctl.mm_reload
  <2>1. /\ busy' /\ ld'.col = 0 /\ ld'.k = 0 /\ \A i \in Index : ld'.run[i] = 0
        /\ tbl' = tbl /\ loaded' = loaded
    BY <1>4, <1>5, <1>8
  <2>2. \A j \in Index, k \in Nibble : ~(j < 0 \/ (j = 0 /\ k < 0))
    BY NibbleSizes
  <2>3. loaded # None => \A j \in Index, k \in Nibble : Entry(loaded, j, k)'
    BY <1>8, <2>1 DEF TablesInv, Entry
  <2>4. ctl'.blk_pph = p
    <3>1. ctl.state = "LOAD"
      BY <1>8 DEF KeptInv, TurnInv
    <3>2. pph = None
      BY <3>1 DEF Clock, Start
    <3> QED
      BY <3>2, ControlStep DEF Clock, KeptInv, VerdictInv
  <2>5. \A i \in Index : ld'.run[i] = ld'.k * MatrixOf(ctl'.blk_pph)[i][ld'.col]
    <3>1. \A i \in Index : m[i][0] \in Nat
      BY <1>2, NibbleSizes DEF Matrix
    <3> QED
      BY <2>1, <2>4, <3>1 DEF m
  <2> QED
    BY <1>1, <1>5, <2>1, <2>2, <2>3, <2>5 DEF TablesInv
<1>9. CASE busy
  <2>1. /\ \A i \in Index : ld.run[i] = ld.k * m[i][ld.col]
        /\ \A j \in Index, k \in Nibble : j < ld.col \/ (j = ld.col /\ k < ld.k) => Entry(p, j, k)
        /\ loaded # None => \A j \in Index, k \in Nibble : j > ld.col => Entry(loaded, j, k)
    BY <1>9 DEF TablesInv, m
  <2>2. \A j \in Index, k \in Nibble :
           j < ld.col \/ (j = ld.col /\ k <= ld.k) => \A i \in Index : tbl'[i][j][k] = k * m[i][j]
    <3> SUFFICES ASSUME NEW j \in Index, NEW k \in Nibble, j < ld.col \/ (j = ld.col /\ k <= ld.k),
                        NEW i \in Index
                 PROVE  tbl'[i][j][k] = k * m[i][j]
      OBVIOUS
    <3>1. CASE j = ld.col /\ k = ld.k
      BY <1>5, <1>9, <2>1, <3>1
    <3>2. CASE ~(j = ld.col /\ k = ld.k)
      <4>1. tbl'[i][j][k] = tbl[i][j][k]
        BY <1>5, <1>9, <3>2
      <4>2. j < ld.col \/ (j = ld.col /\ k < ld.k)
        BY <1>6, <3>2
      <4> QED
        BY <2>1, <4>1, <4>2 DEF Entry, m
    <3> QED
      BY <3>1, <3>2
  <2>3. loaded # None => \A j \in Index, k \in Nibble : j > ld.col =>
           \A i \in Index : tbl'[i][j][k] = k * MatrixOf(loaded)[i][j]
    <3> SUFFICES ASSUME loaded # None, NEW j \in Index, NEW k \in Nibble, j > ld.col, NEW i \in Index
                 PROVE  tbl'[i][j][k] = k * MatrixOf(loaded)[i][j]
      OBVIOUS
    <3>1. j # ld.col
      BY <1>6
    <3>2. tbl'[i][j][k] = tbl[i][j][k]
      BY <1>5, <1>9, <3>1
    <3> QED
      BY <2>1, <3>2 DEF Entry
  <2>4. CASE ld.k # 2^NIB - 1
    <3>1. /\ busy' /\ ld'.col = ld.col /\ ld'.k = ld.k + 1 /\ loaded' = loaded
          /\ \A i \in Index : ld'.run[i] = (ld.run[i] + m[i][ld.col]) % 2^PROD_W
      BY <1>3, <1>4, <1>5, <1>9, <2>4
    <3>2. \A i \in Index : ld'.run[i] = ld'.k * m[i][ld'.col]
      <4>1. ASSUME NEW i \in Index PROVE ld'.run[i] = (ld.k + 1) * m[i][ld.col]
        <5>1. m[i][ld.col] \in Nibble /\ ld.k \in 0 .. 2^NIB - 2
          BY <1>2, <1>6, <2>4, NibbleSizes DEF Matrix
        <5>2. (ld.k * m[i][ld.col] + m[i][ld.col]) % 2^PROD_W = (ld.k + 1) * m[i][ld.col]
          BY <5>1, NextProduct
        <5> QED
          BY <2>1, <3>1, <5>2
      <4> QED
        BY <3>1, <4>1
    <3>3. \A j \in Index, k \in Nibble :
             j < ld'.col \/ (j = ld'.col /\ k < ld'.k) => j < ld.col \/ (j = ld.col /\ k <= ld.k)
      BY <1>6, <3>1
    <3> QED
      BY <1>1, <1>3, <1>9, <1>5, <2>2, <2>3, <3>1, <3>2, <3>3 DEF TablesInv, Entry, MatrixOf, m
  <2>5. CASE ld.k = 2^NIB - 1 /\ ld.col # N - 1
    <3>1. /\ busy' /\ ld'.col = ld.col + 1 /\ ld'.k = 0 /\ loaded' = loaded
          /\ \A i \in Index : ld'.run[i] = 0
      BY <1>4, <1>5, <1>9, <2>5
    <3>2. \A i \in Index : ld'.run[i] = ld'.k * m[i][ld'.col]
      <4>1. ld.col + 1 \in Index
        BY <1>6, <2>5, NibbleSizes
      <4>2. \A i \in Index : m[i][ld.col + 1] \in Nat
        BY <1>2, <4>1, NibbleSizes DEF Matrix
      <4> QED
        BY <3>1, <4>2
    <3>3. \A j \in Index, k \in Nibble :
             j < ld'.col \/ (j = ld'.col /\ k < ld'.k) => j < ld.col \/ (j = ld.col /\ k <= ld.k)
      <4>1. \A k \in Nibble : k <= ld.k
        BY <2>5, NibbleSizes DEF Nibble
      <4> QED
        BY <1>6, <3>1, <4>1
    <3>4. \A j \in Index : j > ld'.col => j > ld.col
      BY <1>6, <3>1
    <3> QED
      BY <1>1, <1>3, <1>9, <1>5, <2>2, <2>3, <3>1, <3>2, <3>3, <3>4 DEF TablesInv, Entry, MatrixOf, m
  <2>6. CASE ld.k = 2^NIB - 1 /\ ld.col = N - 1
    <3>1. ~busy' /\ loaded' = p
      BY <1>4, <1>5, <1>9, <2>6
    <3>2. \A j \in Index, k \in Nibble : j < ld.col \/ (j = ld.col /\ k <= ld.k)
      BY <2>6, NibbleSizes DEF Nibble, Index
    <3> QED
      BY <1>1, <1>5, <2>2, <3>1, <3>2 DEF TablesInv, Entry, MatrixOf, m
  <2> QED
    BY <2>4, <2>5, <2>6
<1> QED
  BY <1>7, <1>8, <1>9

-----------------------------------------------------------------------------
(* A layer adds the products of its own columns.                           *)

LEMMA LayerSizes ==
  /\ COLS_PER_STAGE \in Nat \ {0} /\ NUM_STAGES \in Nat \ {0} /\ N = NUM_STAGES * COLS_PER_STAGE
  /\ \A st \in Stage : /\ st \in Nat /\ st * COLS_PER_STAGE \in Nat /\ (st + 1) * COLS_PER_STAGE <= N
                       /\ st * COLS_PER_STAGE <= (st + 1) * COLS_PER_STAGE
                       /\ (st + 1) * COLS_PER_STAGE \in Nat
                       /\ st <= st * COLS_PER_STAGE /\ st + 1 <= N
                       /\ st > 0 => st - 1 \in Stage
  /\ 0 * COLS_PER_STAGE = 0
<1> DEFINE q == COLS_PER_STAGE
           s == NUM_STAGES
<1>1. N \in Nat \ {0} /\ s \in Nat \ {0} /\ N % s = 0
  BY Sizes, MatmulConstants
<1>2. q = N \div s
  BY DEF COLS_PER_STAGE
<1>3. N = s * q /\ q \in Nat
  <2>1. N = s * (N \div s) + (N % s) /\ N \div s \in Nat
    BY <1>1, Division
  <2> HIDE DEF q, s
  <2> QED
    BY <1>1, <1>2, <2>1
<1> HIDE DEF q, s
<1>4. q # 0
  BY <1>1, <1>3
<1>5. ASSUME NEW st \in 0 .. s - 1
      PROVE  /\ st \in Nat /\ st * q \in Nat /\ (st + 1) * q <= N /\ st * q <= (st + 1) * q
             /\ (st + 1) * q \in Nat /\ st <= st * q /\ st + 1 <= N
  <2>1. st \in Nat /\ st + 1 <= s /\ st + 1 \in Nat
    BY <1>1
  <2>2. (st + 1) * q <= s * q
    BY <1>1, <1>3, <2>1
  <2>3. (st + 1) * q = st * q + q /\ st * q \in Nat
    BY <1>3, <2>1
  <2>4. \A x \in Nat : x <= x * q
    BY <1>3, <1>4
  <2>5. st + 1 <= (st + 1) * q
    BY <2>1, <2>4
  <2> QED
    BY <1>1, <1>3, <2>1, <2>2, <2>3, <2>4, <2>5
<1>6. \A st \in 0 .. s - 1 : st > 0 => st - 1 \in 0 .. s - 1
  BY <1>1
<1>7. 0 * q = 0
  BY <1>3
<1> QED
  BY <1>1, <1>3, <1>4, <1>5, <1>6, <1>7 DEF q, s, Stage

(* Two swaps, the matmul's and that of the packing, are none.              *)
LEMMA VectorFits ==
  ASSUME NEW h, NEW c \in Index
  PROVE  vec_plain(NibblesOf(h))[c] = create_vector_from_hash(h)[c]
<1>1. N \in Nat \ {0} /\ N % 2 = 0 /\ c \in 0 .. N - 1 /\ Index = 0 .. N - 1
  BY Sizes, KHeavyhashConstants DEF Index
<1>2. /\ Swap(c) \in Index /\ Swap(c) \div 2 = c \div 2
      /\ Swap(c) % 2 = 0 <=> c % 2 # 0
  <2>1. CASE c % 2 = 0
    <3>1. c + 1 <= N - 1
      BY <1>1, <2>1
    <3> QED
      BY <1>1, <2>1, <3>1 DEF Swap
  <2>2. CASE c % 2 # 0
    BY <1>1, <2>2 DEF Swap
  <2> QED
    BY <2>1, <2>2
<1>3. vec_plain(NibblesOf(h))[c] = NibblesOf(h)[Swap(c)]
  BY DEF vec_plain
<1>4. NibblesOf(h)[Swap(c)] = IF Swap(c) % 2 = 0 THEN h[Swap(c) \div 2] % 2^NIB
                              ELSE h[Swap(c) \div 2] \div 2^NIB
  BY <1>2 DEF NibblesOf
<1>5. create_vector_from_hash(h)[c] = IF c % 2 = 0 THEN h[c \div 2] \div 2^NIB ELSE h[c \div 2] % 2^NIB
  BY DEF create_vector_from_hash
<1> QED
  BY <1>2, <1>3, <1>4, <1>5

LEMMA HashFits ==
  ASSUME NEW h \in [Bytes -> 0 .. 2^NIB * 2^NIB - 1]
  PROVE  /\ \A b \in Bytes : /\ h[b] \div 2^NIB \in Nibble /\ h[b] % 2^NIB \in Nibble
                             /\ h[b] = (h[b] \div 2^NIB) * 2^NIB + (h[b] % 2^NIB)
         /\ \A j \in Index : create_vector_from_hash(h)[j] \in Nibble
<1> DEFINE a == 2^NIB
<1>1. a \in Nat \ {0}
  BY Widths
<1>2. ASSUME NEW x \in 0 .. a * a - 1
      PROVE  x \div a \in 0 .. a - 1 /\ x % a \in 0 .. a - 1 /\ x = (x \div a) * a + (x % a)
  <2> HIDE DEF a
  <2> DEFINE q == x \div a
  <2>1. x \in Nat
    BY <1>1
  <2>2. x = a * q + (x % a) /\ x % a \in 0 .. a - 1 /\ q \in Nat
    BY <1>1, <2>1, Division
  <2> HIDE DEF q
  <2>3. a * q = q * a /\ q * a < a * a
    BY <1>1, <2>2
  <2>4. q < a
    BY <1>1, <2>2, <2>3
  <2> QED
    BY <1>1, <2>2, <2>3, <2>4 DEF q
<1>3. \A b \in Bytes : /\ h[b] \div a \in 0 .. a - 1 /\ h[b] % a \in 0 .. a - 1
                       /\ h[b] = (h[b] \div a) * a + (h[b] % a)
  BY <1>2
<1>4. \A j \in Index : j \div 2 \in Bytes
  <2>1. N \in Nat \ {0} /\ N % 2 = 0
    BY Sizes, KHeavyhashConstants
  <2> QED
    BY <2>1 DEF Index, Bytes
<1>5. \A j \in Index : create_vector_from_hash(h)[j]
          = IF j % 2 = 0 THEN h[j \div 2] \div a ELSE h[j \div 2] % a
  BY DEF create_vector_from_hash
<1> HIDE DEF a
<1> QED
  BY <1>3, <1>4, <1>5 DEF Nibble, a

LEMMA ProductsAreNumbers ==
  ASSUME NEW it, it.pph \in Pphs, it.nonce \in Nonces, NEW i \in Index
  PROVE  /\ \A j \in Index : VectorOf(it)[j] \in Nibble /\ MatrixOf(it.pph)[i][j] \in Nibble
         /\ \A j \in Index : Products(it, i)[j] \in Nat
                             /\ Products(it, i)[j] = VectorOf(it)[j] * MatrixOf(it.pph)[i][j]
<1>1. PowHash(it) \in [Bytes -> 0 .. 2^NIB * 2^NIB - 1]
  BY HashesAreBytes DEF PowHash
<1>2. \A j \in Index : VectorOf(it)[j] \in Nibble
  BY <1>1, HashFits DEF VectorOf
<1>3. \A j \in Index : MatrixOf(it.pph)[i][j] \in Nibble
  BY FirstIsMatrix DEF MatrixOf, Matrix
<1>4. \A x, y \in Nibble : x * y \in Nat /\ x * y = y * x
  <2>1. \A x \in Nibble : x \in Nat
    BY NibbleSizes
  <2>2. \A x, y \in Nat : x * y \in Nat /\ x * y = y * x
    OBVIOUS
  <2> QED
    BY <2>1, <2>2
<1>5. \A j \in Index : Products(it, i)[j] = MatrixOf(it.pph)[i][j] * VectorOf(it)[j]
  BY DEF Products
<1> QED
  BY <1>2, <1>3, <1>4, <1>5

LEMMA LayerAdds ==
  ASSUME NEW it, it.pph \in Pphs, it.nonce \in Nonces, NEW st \in Stage, NEW i \in Index,
         NEW vin, \A c \in ColumnsOf(st) : vin[c] = VectorOf(it)[c],
         \A c \in ColumnsOf(st), k \in Nibble : tbl[i][c][k] = k * MatrixOf(it.pph)[i][c],
         NEW ain, ain = SumFunctionOnSet(Products(it, i), 0 .. st * COLS_PER_STAGE - 1) % 2^ACC_W
  PROVE  (ain + SumFunction([c \in ColumnsOf(st) |-> tbl[i][c][vin[c]]])) % 2^ACC_W
           = SumFunctionOnSet(Products(it, i), 0 .. (st + 1) * COLS_PER_STAGE - 1) % 2^ACC_W
<1> DEFINE P == Products(it, i)
           a == st * COLS_PER_STAGE
           b == (st + 1) * COLS_PER_STAGE
           f == [c \in ColumnsOf(st) |-> tbl[i][c][vin[c]]]
           D == 2^ACC_W
<1>1. a \in Nat /\ b \in Nat /\ a <= b /\ b <= N /\ ColumnsOf(st) = a .. b - 1 /\ N \in Nat
  BY LayerSizes, Sizes DEF ColumnsOf
<1>2. D \in Nat \ {0}
  BY Widths
<1>3. ColumnsOf(st) \subseteq Index
  <2> HIDE DEF a, b
  <2> QED
    BY <1>1 DEF Index
<1>4. \A c \in ColumnsOf(st) : f[c] = P[c] /\ f[c] \in Nat
  <2> SUFFICES ASSUME NEW c \in ColumnsOf(st) PROVE f[c] = P[c] /\ f[c] \in Nat
    OBVIOUS
  <2>1. VectorOf(it)[c] \in Nibble /\ P[c] \in Nat /\ P[c] = VectorOf(it)[c] * MatrixOf(it.pph)[i][c]
    BY <1>3, ProductsAreNumbers
  <2>2. f[c] = tbl[i][c][VectorOf(it)[c]]
    OBVIOUS
  <2> HIDE DEF f, P
  <2> QED
    BY <2>1, <2>2
<1>5. \A x \in 0 .. b - 1 : P[x] \in Nat
  <2>1. \A x \in Index : P[x] \in Nat
    BY ProductsAreNumbers
  <2> HIDE DEF a, b, P
  <2> QED
    BY <1>1, <2>1 DEF Index
<1>6. SumFunction(f) = SumFunctionOnSet(f, ColumnsOf(st))
  BY DEF SumFunction
<1> HIDE DEF f, P, a, b, D
<1>7. SumFunctionOnSet(f, ColumnsOf(st)) = SumFunctionOnSet(P, a .. b - 1)
  <2>1. IsFiniteSet(ColumnsOf(st))
    BY <1>1, FS_Interval
  <2> QED
    BY <1>1, <1>4, <2>1, SumsAgree
<1> DEFINE x == SumFunctionOnSet(P, 0 .. a - 1)
           y == SumFunctionOnSet(P, a .. b - 1)
           z == SumFunctionOnSet(P, 0 .. b - 1)
<1>8. z = x + y /\ x \in Nat /\ y \in Nat
  <2>1. /\ SumFunctionOnSet(P, 0 .. b - 1) = SumFunctionOnSet(P, 0 .. a - 1) + SumFunctionOnSet(P, a .. b - 1)
        /\ \A u \in Nat, v \in 0 .. b : SumFunctionOnSet(P, u .. v - 1) \in Nat
    <3>1. a \in Nat /\ b \in Nat /\ a <= b
      BY <1>1
    <3> HIDE DEF a, b, P
    <3> QED
      BY <3>1, <1>5, SumOfIntervals
  <2>2. 0 \in Nat /\ a \in 0 .. b /\ b \in 0 .. b
    BY <1>1
  <2> QED
    BY <1>1, <2>1, <2>2
<1>9. ain = x % D
  BY DEF P, a, D
<1>10. SumFunction(f) = y
  BY <1>6, <1>7
<1> HIDE DEF x, y, z
<1>11. (ain + y) % D = z % D
  BY <1>2, <1>8, <1>9, SumOfRemainder
<1> QED
  BY <1>10, <1>11 DEF z, P, b, D, f

(* Where a load stands after a step.                                       *)
LEMMA LoadMoves ==
  ASSUME KeptInv, TableType, NEW pph \in Pphs \cup {None}, NEW nonce, Clock(pph, nonce)
  PROVE  /\ loaded' = IF busy /\ ~busy' THEN ctl.blk_pph ELSE loaded
         /\ busy' /\ ~busy => ld'.col = 0
         /\ busy' /\ busy => ld'.col = ld.col \/ ld'.col = ld.col + 1
         /\ busy /\ ~busy' => ld.col = N - 1
         /\ ld.col \in Nat /\ \A j \in Index : j \in Nat
<1>1. ctl.mm_reload \in BOOLEAN /\ TableLoad(matrix_flat, ctl.mm_reload) /\ ctl.blk_pph \in Pphs
  BY DEF KeptInv, VerdictInv, CtlType, Clock, Feed, MatmulClock
<1>2. busy => matrix_flat \in Matrix
  BY <1>1, DuringLoad, FirstIsMatrix DEF MatrixOf
<1>3. loaded' = IF busy /\ ~busy' THEN ctl.blk_pph ELSE loaded
  <2>1. LoadType' /\ LoadType
    BY TurnInvStep DEF KeptInv
  <2> QED
    BY <2>1 DEF Clock, Loaded, LoadType, busy
<1>4. /\ ~busy /\ ~ctl.mm_reload => ld' = ld
      /\ ~busy /\ ctl.mm_reload => ld'.col = 0
      /\ busy /\ ld.k # 2^NIB - 1 => busy' /\ ld'.col = ld.col
      /\ busy /\ ld.k = 2^NIB - 1 => /\ busy' <=> ld.col # N - 1
                                     /\ ld'.col = IF ld.col = N - 1 THEN ld.col ELSE ld.col + 1
  BY <1>1, <1>2, TableLoadStep
<1>5. ld' = ld => (busy' <=> busy)
  BY DEF busy
<1>6. ld.col \in Nat /\ \A j \in Index : j \in Nat
  BY NibbleSizes DEF TableType
<1> QED
  BY <1>3, <1>4, <1>5, <1>6

(* A layer's step: the item of the layer before, or the one that enters.   *)
LEMMA InLayerStep ==
  ASSUME KeptInv, TableType, TablesInv,
         NEW pph \in Pphs \cup {None}, NEW nonce, Clock(pph, nonce),
         NEW st \in Stage, NEW it, it.pph = loaded, it.pph \in Pphs, it.nonce \in Nonces,
         NEW vin, NEW ain,
         \A c \in Index : c >= st * COLS_PER_STAGE => vin[c] = VectorOf(it)[c],
         \A i \in Index : ain[i] = SumFunctionOnSet(Products(it, i), 0 .. st * COLS_PER_STAGE - 1) % 2^ACC_W,
         busy => st > ld.col,
         ph_delay'[st] = PowHash(it),
         \A c \in Index : c >= (st + 1) * COLS_PER_STAGE => pipe'[st].fwd[c] = vin[c],
         \A i \in Index : pipe'[st].acc[i]
            = (ain[i] + SumFunction([c \in ColumnsOf(st) |-> tbl[i][c][vin[c]]])) % 2^ACC_W
  PROVE  InLayer(st, it)'
<1> DEFINE a == st * COLS_PER_STAGE
           b == (st + 1) * COLS_PER_STAGE
<1>1. /\ a \in Nat /\ b \in Nat /\ a <= b /\ b <= N /\ N \in Nat /\ st \in Nat /\ st <= a /\ st + 1 <= N
      /\ ColumnsOf(st) = a .. b - 1
  BY LayerSizes, Sizes DEF ColumnsOf
<1> HIDE DEF a, b
<1>2. \A c \in ColumnsOf(st) : c \in Index /\ c >= a /\ c \in Nat
  BY <1>1 DEF Index
<1>3. /\ loaded' = IF busy /\ ~busy' THEN ctl.blk_pph ELSE loaded
      /\ busy' /\ ~busy => ld'.col = 0
      /\ busy' /\ busy => ld'.col = ld.col \/ ld'.col = ld.col + 1
      /\ busy /\ ~busy' => ld.col = N - 1
      /\ ld.col \in Nat /\ \A j \in Index : j \in Nat
  BY LoadMoves
<1>4. loaded' = loaded /\ (busy' => st >= ld'.col)
  <2>1. busy => busy'
    BY <1>1, <1>3
  <2> QED
    BY <1>1, <1>3, <2>1
<1>5. loaded # None
  BY SeedsAreWords
<1>6. \A c \in ColumnsOf(st), k \in Nibble : \A i \in Index : tbl[i][c][k] = k * MatrixOf(it.pph)[i][c]
  <2> SUFFICES ASSUME NEW c \in ColumnsOf(st), NEW k \in Nibble PROVE Entry(loaded, c, k)
    BY DEF Entry
  <2>1. CASE ~busy
    BY <1>2, <1>5, <2>1 DEF TablesInv
  <2>2. CASE busy
    <3>1. c > ld.col
      BY <1>1, <1>2, <1>3, <2>2
    <3> QED
      BY <1>2, <1>5, <2>2, <3>1 DEF TablesInv
  <2> QED
    BY <2>1, <2>2
<1>7. ASSUME NEW i \in Index
      PROVE  pipe'[st].acc[i] = SumFunctionOnSet(Products(it, i), 0 .. b - 1) % 2^ACC_W
  <2>1. \A c \in ColumnsOf(st) : vin[c] = VectorOf(it)[c]
    BY <1>2 DEF a
  <2>2. \A c \in ColumnsOf(st), k \in Nibble : tbl[i][c][k] = k * MatrixOf(it.pph)[i][c]
    BY <1>6
  <2> DEFINE x == ain[i]
  <2>3. x = SumFunctionOnSet(Products(it, i), 0 .. st * COLS_PER_STAGE - 1) % 2^ACC_W
    OBVIOUS
  <2>4. pipe'[st].acc[i] = (x + SumFunction([c \in ColumnsOf(st) |-> tbl[i][c][vin[c]]])) % 2^ACC_W
    OBVIOUS
  <2> HIDE DEF x
  <2>5. (x + SumFunction([c \in ColumnsOf(st) |-> tbl[i][c][vin[c]]])) % 2^ACC_W
           = SumFunctionOnSet(Products(it, i), 0 .. (st + 1) * COLS_PER_STAGE - 1) % 2^ACC_W
    BY <2>1, <2>2, <2>3, LayerAdds
  <2> QED
    BY <2>4, <2>5 DEF b
<1>8. ASSUME NEW c \in Index, c >= b PROVE pipe'[st].fwd[c] = VectorOf(it)[c]
  <2>1. c >= a
    BY <1>1, <1>3, <1>8
  <2> QED
    BY <1>8, <2>1 DEF a, b
<1>9. \A i \in Index : Products(it, i)' = Products(it, i)
  BY DEF Products, MatrixOf, VectorOf, PowHash
<1>10. VectorOf(it)' = VectorOf(it) /\ PowHash(it)' = PowHash(it)
  BY DEF VectorOf, PowHash
<1> QED
  BY <1>4, <1>5, <1>7, <1>8, <1>9, <1>10 DEF InLayer, b

LEMMA ItemsInvStep ==
  ASSUME KeptInv, TableType, TablesInv, ItemsInv, NEW pph \in Pphs \cup {None},
         NEW nonce \in IF loaded = None THEN {None} ELSE Nonces \cup {None}, Clock(pph, nonce)
  PROVE  ItemsInv'
<1> SUFFICES ASSUME NEW st \in Stage, pipe'[st].valid PROVE InLayer(st, item[st])'
  BY DEF ItemsInv
<1> DEFINE ph == IF nonce = None THEN ZeroHash ELSE pow_hash_of(loaded, TIMESTAMP, nonce)
           in == IF nonce = None \/ busy THEN None ELSE [pph |-> loaded, nonce |-> nonce]
           vin == IF st = 0 THEN vec_plain(NibblesOf(ph)) ELSE pipe[st - 1].fwd
           ain(i) == IF st = 0 THEN 0 ELSE pipe[st - 1].acc[i]
<1>1. /\ Layers(NibblesOf(ph), nonce # None)
      /\ ph_delay'[st] = IF st = 0 THEN ph ELSE ph_delay[st - 1]
      /\ item'[st] = IF st = 0 THEN in ELSE item[st - 1]
  BY DEF Clock, Feed, MatmulClock
<1>2. /\ \A c \in Index : c >= (st + 1) * COLS_PER_STAGE => pipe'[st].fwd[c] = vin[c]
      /\ \A i \in Index : pipe'[st].acc[i]
            = (ain(i) + SumFunction([c \in ColumnsOf(st) |-> tbl[i][c][vin[c]]])) % 2^ACC_W
      /\ pipe'[st].valid <=> IF st = 0 THEN nonce # None /\ ~busy ELSE pipe[st - 1].valid
  BY <1>1 DEF Layers
<1>3. PICK it : it = item'[st]
  OBVIOUS
<1> SUFFICES InLayer(st, it)'
  BY <1>3 DEF InLayer
<1>4. CASE st = 0
  <2>1. nonce # None /\ ~busy /\ loaded # None /\ nonce \in Nonces
    BY <1>2, <1>4
  <2>2. it = [pph |-> loaded, nonce |-> nonce] /\ ph = pow_hash_of(loaded, TIMESTAMP, nonce)
    BY <1>1, <1>3, <1>4, <2>1
  <2>3. it.pph = loaded /\ it.pph \in Pphs /\ it.nonce \in Nonces /\ ph = PowHash(it)
    BY <2>1, <2>2 DEF TablesInv, PowHash
  <2>4. ph_delay'[st] = PowHash(it)
    BY <1>1, <1>4, <2>3
  <2>5. \A c \in Index : vin[c] = VectorOf(it)[c]
    BY <1>4, <2>3, VectorFits DEF VectorOf
  <2> DEFINE z == [i \in Index |-> ain(i)]
  <2>6. \A i \in Index : z[i] = SumFunctionOnSet(Products(it, i), 0 .. st * COLS_PER_STAGE - 1) % 2^ACC_W
    <3> SUFFICES ASSUME NEW i \in Index
                 PROVE  0 = SumFunctionOnSet(Products(it, i), 0 .. st * COLS_PER_STAGE - 1) % 2^ACC_W
      BY <1>4
    <3>1. 0 .. st * COLS_PER_STAGE - 1 = {}
      BY <1>4, LayerSizes
    <3>2. SumFunctionOnSet(Products(it, i), {}) = 0
      BY SumStep, FS_EmptySet
    <3>3. 0 % 2^ACC_W = 0
      BY Widths
    <3> QED
      BY <3>1, <3>2, <3>3
  <2>7. \A i \in Index : pipe'[st].acc[i]
            = (z[i] + SumFunction([c \in ColumnsOf(st) |-> tbl[i][c][vin[c]]])) % 2^ACC_W
    BY <1>2
  <2>8. \A c \in Index : c >= (st + 1) * COLS_PER_STAGE => pipe'[st].fwd[c] = vin[c]
    BY <1>2
  <2>9. /\ it.pph = loaded /\ it.pph \in Pphs /\ it.nonce \in Nonces
        /\ ph_delay'[st] = PowHash(it)
        /\ busy => st > ld.col
    BY <2>1, <2>3, <2>4
  <2>10. \A c \in Index : c >= st * COLS_PER_STAGE => vin[c] = VectorOf(it)[c]
    BY <2>5
  <2> HIDE DEF vin, z, ain, ph, in
  <2> QED
    BY <2>9, <2>10, <2>6, <2>7, <2>8, InLayerStep
<1>5. CASE st # 0
  <2>1. pipe[st - 1].valid /\ st - 1 \in Stage /\ it = item[st - 1] /\ ph_delay'[st] = ph_delay[st - 1]
    <3>1. st > 0
      BY <1>5, LayerSizes
    <3> QED
      BY <1>1, <1>2, <1>3, <1>5, <3>1, LayerSizes
  <2>2. InLayer(st - 1, it)
    BY <2>1 DEF ItemsInv
  <2>3. (st - 1) + 1 = st /\ st \in Nat
    BY LayerSizes
  <2>4. /\ it.pph = loaded /\ it.pph \in Pphs /\ it.nonce \in Nonces
        /\ ph_delay'[st] = PowHash(it)
        /\ busy => st > ld.col
    <3>1. ld.col \in Nat
      BY LoadMoves
    <3> QED
      BY <2>1, <2>2, <2>3, <3>1 DEF InLayer, TablesInv
  <2>5. \A c \in Index : c >= st * COLS_PER_STAGE => vin[c] = VectorOf(it)[c]
    BY <1>5, <2>2, <2>3 DEF InLayer
  <2> DEFINE z == [i \in Index |-> ain(i)]
  <2>6. \A i \in Index : z[i] = SumFunctionOnSet(Products(it, i), 0 .. st * COLS_PER_STAGE - 1) % 2^ACC_W
    BY <1>5, <2>2, <2>3 DEF InLayer
  <2>7. \A i \in Index : pipe'[st].acc[i]
            = (z[i] + SumFunction([c \in ColumnsOf(st) |-> tbl[i][c][vin[c]]])) % 2^ACC_W
    BY <1>2
  <2>8. \A c \in Index : c >= (st + 1) * COLS_PER_STAGE => pipe'[st].fwd[c] = vin[c]
    BY <1>2
  <2> HIDE DEF vin, z, ain, ph, in
  <2> QED
    BY <2>4, <2>5, <2>6, <2>7, <2>8, InLayerStep
<1> QED
  BY <1>4, <1>5

-----------------------------------------------------------------------------
(* The digest, and what the object says of it.                             *)

LEMMA DigestOfLast ==
  ASSUME NEW it, it.pph \in Pphs, InLayer(NUM_STAGES - 1, it)
  PROVE  digest = xor_with_hash(matrix_vector_multiply(MatrixOf(it.pph), VectorOf(it)), PowHash(it))
<1> DEFINE h == PowHash(it)
           v == VectorOf(it)
           product == matrix_vector_multiply(MatrixOf(it.pph), v)
           st == NUM_STAGES - 1
<1>1. it.nonce \in Nonces /\ ph_delay[st] = h
  BY DEF InLayer
<1>2. h \in [Bytes -> 0 .. 2^NIB * 2^NIB - 1]
  BY <1>1, HashesAreBytes DEF PowHash
<1>3. (st + 1) * COLS_PER_STAGE = N /\ Index = 0 .. N - 1
  BY LayerSizes DEF Index
<1>4. ASSUME NEW i \in Index
      PROVE  /\ product[i] = (last.acc[i] \div 2^SHIFT) % 2^NIB
             /\ product[i] \in Nibble
  <2> DEFINE s == SumFunctionOnSet(Products(it, i), Index)
  <2>1. last.acc[i] = s % 2^ACC_W
    <3>1. last.acc[i] = SumFunctionOnSet(Products(it, i), 0 .. (st + 1) * COLS_PER_STAGE - 1) % 2^ACC_W
      BY DEF InLayer, last
    <3> HIDE DEF st
    <3> QED
      BY <1>3, <3>1
  <2>2. product[i] = (s \div 2^SHIFT) % 2^NIB
    BY DEF matrix_vector_multiply, SumFunction, Products
  <2>3. s \in Nat
    <3>1. \A j \in Index : Products(it, i)[j] \in Nat
      BY <1>1, ProductsAreNumbers
    <3>2. IsFiniteSet(Index)
      BY <1>3, FS_Interval, Sizes
    <3> QED
      BY <3>1, <3>2, SumOfNumbers
  <2> HIDE DEF s
  <2>4. ((s % 2^ACC_W) \div 2^SHIFT) % 2^NIB = (s \div 2^SHIFT) % 2^NIB
    BY <2>3, TopOfAccumulator
  <2>5. (s \div 2^SHIFT) % 2^NIB \in Nibble
    <3> DEFINE a == 2^SHIFT
               b == 2^NIB
    <3>1. a \in Nat \ {0} /\ b \in Nat \ {0}
      BY Widths
    <3> HIDE DEF a, b
    <3>2. (s \div a) % b \in 0 .. b - 1
      BY <2>3, <3>1
    <3> QED
      BY <3>2 DEF a, b, Nibble
  <2> QED
    BY <2>1, <2>2, <2>4, <2>5
<1>5. ASSUME NEW b \in Bytes
      PROVE  /\ 2 * b \in Index /\ 2 * b + 1 \in Index
             /\ (2 * b) % 2 = 0 /\ (2 * b + 1) % 2 = 1
             /\ (2 * b) \div 2 = b /\ (2 * b + 1) \div 2 = b
             /\ Swap(2 * b) = 2 * b + 1 /\ Swap(2 * b + 1) = 2 * b
  <2>1. N \in Nat \ {0} /\ N % 2 = 0
    BY Sizes, KHeavyhashConstants
  <2>2. b \in Nat /\ 2 * b + 1 <= N - 1
    BY <2>1 DEF Bytes
  <2>3. (2 * b) % 2 = 0 /\ (2 * b + 1) % 2 = 1 /\ (2 * b) \div 2 = b /\ (2 * b + 1) \div 2 = b
    BY <2>2
  <2> QED
    BY <2>1, <2>2, <2>3 DEF Index, Swap
<1> HIDE DEF product, st
<1>6. ASSUME NEW b \in Bytes
      PROVE  digest[b] = xor(product[2 * b] * 2^NIB + product[2 * b + 1], h[b])
  <2> DEFINE hi == h[b] \div 2^NIB
             lo == h[b] % 2^NIB
  <2>1. digest[b] = xor(product_out[2 * b + 1], NibblesOf(h)[2 * b + 1]) * 2^NIB
                    + xor(product_out[2 * b], NibblesOf(h)[2 * b])
    BY <1>1, <1>5 DEF digest, st
  <2>2. NibblesOf(h)[2 * b + 1] = hi /\ NibblesOf(h)[2 * b] = lo
    BY <1>5 DEF NibblesOf
  <2>3. product_out[2 * b + 1] = product[2 * b] /\ product_out[2 * b] = product[2 * b + 1]
    BY <1>4, <1>5 DEF product_out
  <2>4. product[2 * b] \in Nibble /\ product[2 * b + 1] \in Nibble
    BY <1>4, <1>5
  <2>5. hi \in Nibble /\ lo \in Nibble /\ h[b] = hi * 2^NIB + lo
    BY <1>2, HashFits
  <2> HIDE DEF hi, lo, h
  <2>6. xor(product[2 * b] * 2^NIB + product[2 * b + 1], hi * 2^NIB + lo)
          = xor(product[2 * b], hi) * 2^NIB + xor(product[2 * b + 1], lo)
    BY <2>4, <2>5, XorOfNibbles DEF Nibble
  <2> QED
    BY <2>1, <2>2, <2>3, <2>5, <2>6
<1> QED
  BY <1>6 DEF digest, xor_with_hash, product

LEMMA CachedStep ==
  ASSUME CachedInv, NEW p \in Pphs
  PROVE  /\ MatrixFor(p) = Generated[p]
         /\ CacheAfter(p).matrix = Generated[p]
         /\ Generated[p] # NoMatrix => CacheAfter(p).prepow_hash = p
<1>1. MatrixFor(p) = Generated[p]
  BY DEF CachedInv, MatrixFor, get_cached_matrix
<1> QED
  BY <1>1 DEF CacheAfter

LEMMA ReferenceHash ==
  ASSUME CachedInv, NEW it, it.pph \in AgreeingPphs
  PROVE  hash(it.pph, TIMESTAMP, it.nonce)
           = cshake256(xor_with_hash(matrix_vector_multiply(MatrixOf(it.pph), VectorOf(it)), PowHash(it)),
                       "HeavyHash")
<1> DEFINE m == MatrixOf(it.pph)
<1>1. it.pph \in Pphs /\ Generated[it.pph] = m
  BY DEF AgreeingPphs, MatrixOf
<1>2. MatrixFor(it.pph) = m
  BY <1>1, CachedStep
<1>3. m # NoMatrix
  BY <1>1, FirstIsMatrix, NoMatrixIsNone DEF Matrix, Nibble, MatrixOf
<1> HIDE DEF m
<1>4. hash(it.pph, TIMESTAMP, it.nonce) = HashThrough(m, PowHash(it))
  BY <1>2, <1>3 DEF hash, PowHash
<1> QED
  BY <1>4 DEF HashThrough, VectorOf, m

LEMMA CheckStep ==
  ASSUME TablesInv, ItemsInv, CachedInv, DigestIsReference, Check
  PROVE  CachedInv' /\ DigestIsReference'
<1> DEFINE st == NUM_STAGES - 1
           it == item[st]
<1>1. CASE ~valid_out
  BY <1>1 DEF Check, CachedInv, DigestIsReference
<1>2. CASE valid_out
  <2>1. pipe[st].valid /\ st \in Stage
    BY <1>2, LayerSizes DEF valid_out, last, Stage
  <2>2. InLayer(st, it)
    BY <2>1 DEF ItemsInv
  <2>3. it.pph \in Pphs
    BY <2>2 DEF InLayer, TablesInv
  <2>4. /\ checked' = [hw |-> cshake256(digest, "HeavyHash"),
                       ref |-> hash(it.pph, TIMESTAMP, it.nonce), item |-> it]
        /\ cached' = CacheAfter(it.pph)
    BY <1>2 DEF Check
  <2>5. CachedInv'
    BY <2>3, <2>4, CachedStep DEF CachedInv
  <2>6. digest = xor_with_hash(matrix_vector_multiply(MatrixOf(it.pph), VectorOf(it)), PowHash(it))
    BY <2>2, <2>3, DigestOfLast
  <2> HIDE DEF it
  <2>7. it.pph \in AgreeingPphs => hash(it.pph, TIMESTAMP, it.nonce) = cshake256(digest, "HeavyHash")
    BY <2>6, ReferenceHash
  <2>8. checked'.hw = cshake256(digest, "HeavyHash") /\ checked'.ref = hash(it.pph, TIMESTAMP, it.nonce)
        /\ checked'.item = it
    BY <2>4
  <2>9. DigestIsReference'
    BY <2>7, <2>8 DEF DigestIsReference, AgreeingPphs
  <2> QED
    BY <2>5, <2>9
<1> QED
  BY <1>1, <1>2

LEMMA DigestInvInit == Init => DigestInv
<1> SUFFICES ASSUME Init PROVE DigestInv
  OBVIOUS
<1>1. KeptInv
  BY KeptInvInit
<1>2. /\ ld = [state |-> "LD_IDLE", col |-> 0, k |-> 0, run |-> [i \in Index |-> 0]]
      /\ tbl = [i \in Index |-> [j \in Index |-> [k \in Nibble |-> 0]]]
      /\ \A st \in Stage : ~pipe[st].valid
      /\ loaded = None /\ cached.matrix = NoMatrix /\ checked = None
  BY DEF Init, MatmulInit
<1>3. TableType /\ ~busy
  BY <1>2, NibbleSizes DEF TableType, busy
<1> QED
  BY <1>1, <1>2, <1>3 DEF DigestInv, TablesInv, ItemsInv, CachedInv, DigestIsReference

LEMMA DigestInvNext == DigestInv /\ [Next]_vars => DigestInv'
<1> SUFFICES ASSUME DigestInv, [Next]_vars PROVE DigestInv'
  OBVIOUS
<1>1. KeptInv /\ TableType /\ TablesInv /\ ItemsInv /\ CachedInv /\ DigestIsReference
  BY DEF DigestInv
<1>2. KeptInv'
  BY <1>1, KeptInvNext
<1>3. CASE Next
  <2>1. PICK pph \in Pphs \cup {None} :
          \E nonce \in IF loaded = None THEN {None} ELSE Nonces \cup {None} : Clock(pph, nonce)
    BY <1>3 DEF Next
  <2>2. PICK nonce \in IF loaded = None THEN {None} ELSE Nonces \cup {None} : Clock(pph, nonce)
    BY <2>1
  <2>3. TableType' /\ TablesInv'
    BY <1>1, <2>2, TablesInvStep
  <2>4. ItemsInv'
    BY <1>1, <2>2, ItemsInvStep
  <2>5. CachedInv' /\ DigestIsReference'
    BY <1>1, <2>2, CheckStep DEF Clock
  <2> QED
    BY <1>2, <2>3, <2>4, <2>5 DEF DigestInv
<1>4. CASE UNCHANGED vars
  <2>1. /\ ld' = ld /\ tbl' = tbl /\ pipe' = pipe /\ ctl' = ctl /\ ph_delay' = ph_delay
        /\ item' = item /\ loaded' = loaded /\ cached' = cached /\ checked' = checked
    BY <1>4 DEF vars, mmVars
  <2>2. TableType' /\ TablesInv'
    BY <1>1, <2>1 DEF TableType, TablesInv, Entry, MatrixOf, busy
  <2>3. ItemsInv'
    BY <1>1, <2>1 DEF ItemsInv, InLayer, Products, MatrixOf, VectorOf, PowHash, busy
  <2>4. CachedInv' /\ DigestIsReference'
    BY <1>1, <2>1 DEF CachedInv, DigestIsReference
  <2> QED
    BY <1>2, <2>2, <2>3, <2>4 DEF DigestInv
<1> QED
  BY <1>3, <1>4

(* Every digest that leaves the matmul is the reference hash of the header *)
(* that went in with it, if the draw kept for its block is the reference's *)
(* (DigestIsReference): the product through both swaps and the tables, with*)
(* a load that follows right behind the last vector of the block before,   *)
(* and the matrix the object remembers.                                    *)
THEOREM DigestsAreReference == Spec => []DigestIsReference
<1>1. DigestInv => DigestIsReference
  BY DEF DigestInv
<1> QED
  BY <1>1, DigestInvInit, DigestInvNext, PTL DEF Spec
=============================================================================
