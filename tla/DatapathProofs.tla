---------------------------- MODULE DatapathProofs ----------------------------
(***************************************************************************)
(* The data path, for a matrix of any size: the rank check's verdict is    *)
(* that of Gaussian elimination over bits on the matrix in the cache, and  *)
(* the draw kept is the first that the reference would draw with           *)
(* independent rows.  From AllNumbers on, induction is over a set of       *)
(* numbers given by its property.                                          *)
(***************************************************************************)
EXTENDS Datapath, FiniteSetTheorems, WellFoundedInduction, TLAPS

-----------------------------------------------------------------------------
(* Numbers.                                                                *)

LEMMA Least ==
  ASSUME NEW T \in SUBSET Nat, T # {}
  PROVE  \E x \in T : \A y \in T : x <= y
<1>1. PICK x \in T : \A y \in T : ~ (<<y, x>> \in OpToRel(<, Nat))
  BY NatLessThanWellFounded, WFMin
<1>2. ASSUME NEW y \in T PROVE x <= y
  <2>1. ~ (<<y, x>> \in OpToRel(<, Nat))
    BY <1>1
  <2>2. ~ (y < x)
    BY <2>1 DEF OpToRel
  <2> QED
    BY <2>2
<1> QED
  BY <1>2

LEMMA MinIsLeast ==
  ASSUME NEW T \in SUBSET Nat, T # {}
  PROVE  Min(T) \in T /\ \A y \in T : Min(T) <= y
BY Least DEF Min

(* Induction: a set of numbers with 0 and with the next of each is Nat.    *)
LEMMA AllNumbers ==
  ASSUME NEW T \in SUBSET Nat, 0 \in T, \A n \in T : n + 1 \in T
  PROVE  T = Nat
<1>1. CASE Nat \ T # {}
  <2>1. PICK x \in Nat \ T : \A y \in Nat \ T : x <= y
    BY <1>1, Least
  <2>2. x - 1 \in T
    BY <2>1
  <2> QED
    BY <2>1, <2>2
<1> QED
  BY <1>1

LEMMA Sizes ==
  /\ N \in Nat /\ N >= 2 /\ NIB \in Nat \ {0} /\ WORD \in Nat \ {0}
  /\ N * NIB \in Nat \ {0} /\ W \in Nat \ {0}
<1>1. N \in Nat \ {0} /\ N % 2 = 0 /\ NIB \in Nat \ {0} /\ WORD \in Nat \ {0}
  BY KHeavyhashConstants
<1>2. N >= 2
  BY <1>1
<1>3. \A a, b \in Nat \ {0} : a * b \in Nat \ {0}
  OBVIOUS
<1> QED
  BY <1>1, <1>2, <1>3 DEF W

-----------------------------------------------------------------------------
(* Parity.                                                                 *)

Odd(S) == Cardinality(S) % 2 = 1

LEMMA OddOfDifference ==
  ASSUME NEW A, NEW B, IsFiniteSet(A), IsFiniteSet(B)
  PROVE  Odd(Flipped(A, B)) <=> (Odd(A) /\ ~Odd(B)) \/ (~Odd(A) /\ Odd(B))
<1> DEFINE C == A \cap B
           P == A \ B
           Q == B \ A
<1>1. IsFiniteSet(C) /\ IsFiniteSet(P) /\ IsFiniteSet(Q)
  BY FS_Intersection, FS_Difference
<1>2. /\ Cardinality(P) = Cardinality(A) - Cardinality(C)
      /\ Cardinality(Q) = Cardinality(B) - Cardinality(C)
  <2>1. B \cap A = C
    OBVIOUS
  <2>2. Cardinality(P) = Cardinality(A) - Cardinality(C)
    BY FS_Difference
  <2>3. Cardinality(Q) = Cardinality(B) - Cardinality(B \cap A)
    BY FS_Difference
  <2> QED
    BY <2>1, <2>2, <2>3
<1>3. Cardinality(P \cup Q) = Cardinality(P) + Cardinality(Q)
  <2>1. P \cap Q = {}
    OBVIOUS
  <2>2. Cardinality(P \cap Q) = 0
    BY <2>1, FS_EmptySet
  <2>3. Cardinality(P \cup Q) = Cardinality(P) + Cardinality(Q) - Cardinality(P \cap Q)
    BY <1>1, FS_Union
  <2> HIDE DEF P, Q
  <2> QED
    BY <1>1, <2>2, <2>3, FS_CardinalityType
<1>4. Flipped(A, B) = P \cup Q
  BY DEF Flipped
<1>5. /\ Cardinality(A) \in Nat /\ Cardinality(B) \in Nat /\ Cardinality(C) \in Nat
  BY <1>1, FS_CardinalityType
<1> DEFINE a == Cardinality(A)
           b == Cardinality(B)
           c == Cardinality(C)
<1>6. Cardinality(Flipped(A, B)) = a + b - 2 * c
  BY <1>2, <1>3, <1>4, <1>5
<1>7. a \in Nat /\ b \in Nat /\ c \in Nat
  BY <1>5
<1> HIDE DEF a, b, c
<1>8. (a + b - 2 * c) % 2 = 1 <=> (a % 2 = 1 /\ ~(b % 2 = 1)) \/ (~(a % 2 = 1) /\ b % 2 = 1)
  BY <1>7
<1> QED
  BY <1>6, <1>8 DEF a, b, Odd

LEMMA OddOfOne ==
  ASSUME NEW x PROVE Odd({x}) /\ ~Odd({})
<1>1. Cardinality({x}) = 1 /\ Cardinality({}) = 0
  BY FS_Singleton, FS_EmptySet
<1>2. 1 % 2 = 1 /\ 0 % 2 # 1
  OBVIOUS
<1> QED
  BY <1>1, <1>2 DEF Odd

-----------------------------------------------------------------------------
(* Elimination keeps rows independent.                                     *)

(* The rows of S that have a 1 in column c.                                *)
Ones(row, S, c) == {i \in S : c \in row[i]}
Nonempty == (SUBSET Index) \ {{}}

LEMMA FiniteRows ==
  ASSUME NEW S \in SUBSET Index
  PROVE  IsFiniteSet(S) /\ \A row, c : IsFiniteSet(Ones(row, S, c))
<1>1. IsFiniteSet(Index)
  BY Sizes, FS_Interval DEF Index
<1>2. IsFiniteSet(S)
  BY <1>1, FS_Subset
<1>3. \A row, c : Ones(row, S, c) \in SUBSET S
  BY DEF Ones
<1> QED
  BY <1>2, <1>3, FS_Subset

LEMMA Independent ==
  ASSUME NEW row
  PROVE  RowsIndependent(row) <=> \A S \in Nonempty : \E c \in Col : Odd(Ones(row, S, c))
BY DEF RowsIndependent, Nonempty, Ones, Odd

(* One row XORed into some others.                                         *)
Added(row, R, k) == [r \in Index |-> IF r \in R THEN Flipped(row[r], row[k]) ELSE row[r]]

LEMMA AddedOnes ==
  ASSUME NEW row, NEW R \in SUBSET Index, NEW k \in Index, k \notin R,
         NEW S \in SUBSET Index, NEW c
  PROVE  LET T == IF Odd(S \cap R) THEN Flipped(S, {k}) ELSE S
         IN  Odd(Ones(Added(row, R, k), S, c)) <=> Odd(Ones(row, T, c))
<1> DEFINE A == Ones(row, S, c)
           B == S \cap R
           T == IF Odd(B) THEN Flipped(S, {k}) ELSE S
           AA == Ones(Added(row, R, k), S, c)
<1>1. IsFiniteSet(A) /\ IsFiniteSet(B) /\ IsFiniteSet({k})
  BY FiniteRows, FS_Intersection, FS_Singleton
<1>2. \A r \in S : Added(row, R, k)[r] = IF r \in R THEN Flipped(row[r], row[k]) ELSE row[r]
  BY DEF Added
<1>3. CASE c \notin row[k]
  <2>1. AA = A
    BY <1>2, <1>3 DEF Ones, Flipped
  <2>2. Ones(row, T, c) = A
    BY <1>3 DEF Ones, Flipped
  <2> QED
    BY <2>1, <2>2
<1>4. CASE c \in row[k]
  <2>1. AA = Flipped(A, B)
    BY <1>2, <1>4 DEF Ones, Flipped
  <2>2. Odd(AA) <=> (Odd(A) /\ ~Odd(B)) \/ (~Odd(A) /\ Odd(B))
    BY <1>1, <2>1, OddOfDifference
  <2>3. CASE Odd(B)
    <3>1. Ones(row, T, c) = Flipped(A, {k})
      BY <1>4, <2>3 DEF Ones, Flipped
    <3>2. Odd(Ones(row, T, c)) <=> ~Odd(A)
      BY <1>1, <3>1, OddOfDifference, OddOfOne
    <3> QED
      BY <2>2, <2>3, <3>2
  <2>4. CASE ~Odd(B)
    BY <2>2, <2>4
  <2> QED
    BY <2>3, <2>4
<1> QED
  BY <1>3, <1>4

LEMMA AddedStaysIndependent ==
  ASSUME NEW row, NEW R \in SUBSET Index, NEW k \in Index, k \notin R, RowsIndependent(row)
  PROVE  RowsIndependent(Added(row, R, k))
<1> SUFFICES ASSUME NEW S \in Nonempty
             PROVE  \E c \in Col : Odd(Ones(Added(row, R, k), S, c))
  BY Independent
<1> DEFINE T == IF Odd(S \cap R) THEN Flipped(S, {k}) ELSE S
<1>1. T \in Nonempty
  <2>1. T \in SUBSET Index
    BY DEF Nonempty, Flipped
  <2>2. T # {}
    <3>1. CASE Odd(S \cap R)
      <4>1. S \cap R # {}
        BY <3>1, OddOfOne
      <4>2. PICK r \in S \cap R : TRUE
        BY <4>1
      <4> QED
        BY <3>1, <4>2 DEF Flipped
    <3>2. CASE ~Odd(S \cap R)
      BY <3>2 DEF Nonempty
    <3> QED
      BY <3>1, <3>2
  <2> QED
    BY <2>1, <2>2 DEF Nonempty
<1>2. PICK c \in Col : Odd(Ones(row, T, c))
  BY <1>1, Independent
<1>3. S \in SUBSET Index
  BY DEF Nonempty
<1>4. Odd(Ones(Added(row, R, k), S, c)) <=> Odd(Ones(row, T, c))
  BY <1>3, AddedOnes
<1> QED
  BY <1>2, <1>4

(* Twice is not at all.                                                    *)
LEMMA AddedTwice ==
  ASSUME NEW row \in [Index -> SUBSET Col], NEW R \in SUBSET Index, NEW k \in Index, k \notin R
  PROVE  Added(Added(row, R, k), R, k) = row
<1> DEFINE m == Added(row, R, k)
<1>1. m[k] = row[k] /\ \A r \in Index : m[r] = IF r \in R THEN Flipped(row[r], row[k]) ELSE row[r]
  BY DEF Added
<1>2. \A a, b : Flipped(Flipped(a, b), b) = a
  BY DEF Flipped
<1> HIDE DEF m
<1>3. \A r \in Index : (IF r \in R THEN Flipped(m[r], m[k]) ELSE m[r]) = row[r]
  BY <1>1, <1>2
<1>4. Added(m, R, k) = row
  BY <1>3 DEF Added
<1> QED
  BY <1>4 DEF m

LEMMA AddedIndependent ==
  ASSUME NEW row \in [Index -> SUBSET Col], NEW R \in SUBSET Index, NEW k \in Index, k \notin R
  PROVE  RowsIndependent(Added(row, R, k)) <=> RowsIndependent(row)
<1>1. RowsIndependent(row) => RowsIndependent(Added(row, R, k))
  BY AddedStaysIndependent
<1>2. RowsIndependent(Added(row, R, k)) => RowsIndependent(Added(Added(row, R, k), R, k))
  BY AddedStaysIndependent
<1> QED
  BY <1>1, <1>2, AddedTwice

(* Two rows change places.                                                 *)
Other(p, k, r) == IF r = k THEN p ELSE IF r = p THEN k ELSE r
Swapped(row, p, k) == [r \in Index |-> row[Other(p, k, r)]]

LEMMA SwappedStaysIndependent ==
  ASSUME NEW row, NEW p \in Index, NEW k \in Index, RowsIndependent(row)
  PROVE  RowsIndependent(Swapped(row, p, k))
<1> SUFFICES ASSUME NEW S \in Nonempty
             PROVE  \E c \in Col : Odd(Ones(Swapped(row, p, k), S, c))
  BY Independent
<1> DEFINE T == {r \in Index : Other(p, k, r) \in S}
<1>1. S \in SUBSET Index /\ T \in SUBSET Index
  BY DEF Nonempty
<1>2. T # {}
  <2>1. PICK r \in S : TRUE
    BY DEF Nonempty
  <2>2. Other(p, k, r) \in T
    BY <1>1, <2>1 DEF Other
  <2> QED
    BY <2>2
<1>3. PICK c \in Col : Odd(Ones(row, T, c))
  BY <1>1, <1>2, Independent DEF Nonempty
<1> DEFINE A == Ones(row, T, c)
           B == Ones(Swapped(row, p, k), S, c)
           f == [r \in A |-> Other(p, k, r)]
<1>4. f \in Bijection(A, B)
  <2>1. \A r \in A : /\ r \in Index /\ Other(p, k, r) \in S /\ Other(p, k, r) \in Index
                     /\ Other(p, k, Other(p, k, r)) = r /\ c \in row[r]
    BY DEF Ones, Other
  <2>2. \A r \in A : Other(p, k, r) \in B
    BY <1>1, <2>1 DEF Ones, Swapped
  <2>3. f \in Injection(A, B)
    BY <2>1, <2>2 DEF Injection, IsInjective
  <2>4. \A r \in B : Other(p, k, r) \in A /\ Other(p, k, Other(p, k, r)) = r
    BY <1>1 DEF Ones, Swapped, Other
  <2>5. f \in Surjection(A, B)
    BY <2>2, <2>4 DEF Surjection
  <2> QED
    BY <2>3, <2>5 DEF Bijection
<1>5. IsFiniteSet(A)
  BY <1>1, FiniteRows
<1>6. Cardinality(B) = Cardinality(A)
  BY <1>4, <1>5, FS_Bijection DEF ExistsBijection
<1> QED
  BY <1>3, <1>6 DEF Odd

LEMMA SwappedTwice ==
  ASSUME NEW row \in [Index -> SUBSET Col], NEW p \in Index, NEW k \in Index
  PROVE  Swapped(Swapped(row, p, k), p, k) = row
<1>1. \A r \in Index : Other(p, k, r) \in Index /\ Other(p, k, Other(p, k, r)) = r
  BY DEF Other
<1> QED
  BY <1>1 DEF Swapped

LEMMA SwappedIndependent ==
  ASSUME NEW row \in [Index -> SUBSET Col], NEW p \in Index, NEW k \in Index
  PROVE  RowsIndependent(Swapped(row, p, k)) <=> RowsIndependent(row)
<1>1. RowsIndependent(row) => RowsIndependent(Swapped(row, p, k))
  BY SwappedStaysIndependent
<1>2. RowsIndependent(Swapped(row, p, k)) => RowsIndependent(Swapped(Swapped(row, p, k), p, k))
  BY SwappedStaysIndependent
<1> QED
  BY <1>1, <1>2, SwappedTwice

-----------------------------------------------------------------------------
(* One column of the elimination.                                          *)

RowsM == [Index -> SUBSET Col]

(* Each of the first rank rows has a column of its own among the first col *)
(* ones, and the other rows have no bit there.                             *)
HasOwnColumn(m, r, col) == \E c \in 0 .. col - 1 : \A i \in Index : (c \in m[i]) <=> (i = r)
Echelon(m, rank, col) ==
  /\ \A r \in Index : r < rank => HasOwnColumn(m, r, col)
  /\ \A i \in Index : i >= rank => \A c \in 0 .. col - 1 : c \notin m[i]

(* The pivot is brought up to row rank, then added to R.                   *)
RowsHit(m, p) == {r \in Index : r # chk.rank /\ chk.col \in Swapped(m, p, chk.rank)[r]}

LEMMA EliminatedIsAdded ==
  ASSUME chk.M \in RowsM, chk.rank \in Index, Candidates # {}
  PROVE  /\ pivot_row \in Candidates
         /\ Eliminated = Added(Swapped(chk.M, pivot_row, chk.rank), RowsHit(chk.M, pivot_row), chk.rank)
<1>1. Candidates \in SUBSET Nat
  BY Sizes DEF Candidates, Index
<1>2. pivot_row \in Candidates
  BY <1>1, MinIsLeast DEF pivot_row
<1>3. pivot_row \in Index
  BY <1>2 DEF Candidates
<1> DEFINE p == pivot_row
           k == chk.rank
           R == RowsHit(chk.M, p)
           m == Swapped(chk.M, p, k)
<1>4. \A r \in Index : m[r] = IF r = k THEN chk.M[p] ELSE IF r = p THEN chk.M[k] ELSE chk.M[r]
  BY DEF Swapped, Other
<1>5. \A r \in Index : r \in R <=> r # k /\ chk.col \in m[r]
  BY DEF RowsHit
<1> HIDE DEF m, R
<1>6. Added(m, R, k) = [r \in Index |-> IF r = k THEN chk.M[p]
                          ELSE IF chk.col \in m[r] THEN Flipped(m[r], chk.M[p]) ELSE m[r]]
  BY <1>4, <1>5 DEF Added
<1>7. Eliminated = [r \in Index |-> IF r = k THEN chk.M[p]
                          ELSE IF chk.col \in m[r] THEN Flipped(m[r], chk.M[p]) ELSE m[r]]
  BY <1>4 DEF Eliminated
<1> QED
  BY <1>2, <1>6, <1>7 DEF m, R

LEMMA EliminatedKeeps ==
  ASSUME chk.M \in RowsM, chk.rank \in Index, Candidates # {}
  PROVE  /\ Eliminated \in RowsM
         /\ RowsIndependent(Eliminated) <=> RowsIndependent(chk.M)
<1> DEFINE p == pivot_row
           k == chk.rank
           R == RowsHit(chk.M, p)
           m == Swapped(chk.M, p, k)
<1>1. p \in Index
  BY EliminatedIsAdded DEF Candidates
<1>2. Eliminated = Added(m, R, k)
  BY EliminatedIsAdded
<1>3. R \in SUBSET Index /\ k \notin R
  BY DEF RowsHit
<1>4. m \in [Index -> SUBSET Col] /\ (RowsIndependent(m) <=> RowsIndependent(chk.M))
  <2>1. \A r \in Index : Other(p, k, r) \in Index
    BY <1>1 DEF Other
  <2>2. m \in [Index -> SUBSET Col]
    BY <2>1 DEF Swapped, RowsM
  <2>3. chk.M \in [Index -> SUBSET Col]
    BY DEF RowsM
  <2> QED
    BY <1>1, <2>2, <2>3, SwappedIndependent
<1> HIDE DEF m, R
<1>5. RowsIndependent(Added(m, R, k)) <=> RowsIndependent(m)
  BY <1>3, <1>4, AddedIndependent
<1>6. Added(m, R, k) \in RowsM
  BY <1>4 DEF Added, Flipped, RowsM
<1> QED
  BY <1>2, <1>4, <1>5, <1>6

LEMMA NoCandidate ==
  ASSUME chk.M \in RowsM, chk.rank \in Index, chk.col \in Col, Candidates = {},
         Echelon(chk.M, chk.rank, chk.col)
  PROVE  Echelon(chk.M, chk.rank, chk.col + 1)
<1>1. chk.col \in Nat
  BY Sizes DEF Col
<1>2. 0 .. chk.col - 1 \subseteq 0 .. (chk.col + 1) - 1
  BY <1>1
<1>3. \A c \in 0 .. (chk.col + 1) - 1 : c \in 0 .. chk.col - 1 \/ c = chk.col
  BY <1>1
<1>4. \A i \in Index : i >= chk.rank => chk.col \notin chk.M[i]
  BY DEF Candidates
<1> QED
  BY <1>2, <1>3, <1>4 DEF Echelon, HasOwnColumn

LEMMA WithCandidate ==
  ASSUME chk.M \in RowsM, chk.rank \in Index, chk.col \in Col, Candidates # {},
         Echelon(chk.M, chk.rank, chk.col)
  PROVE  Echelon(Eliminated, chk.rank + 1, chk.col + 1)
<1> DEFINE p == pivot_row
           k == chk.rank
           e == Eliminated
           Src(r) == IF r = p THEN chk.M[k] ELSE chk.M[r]
<1>1. p \in Index /\ p >= k /\ chk.col \in chk.M[p]
  BY EliminatedIsAdded DEF Candidates
<1>2. k \in Nat /\ \A r \in Index : r \in Nat
  BY Sizes DEF Index
<1>3. chk.col \in Nat
  BY Sizes DEF Col
<1>4. \A r \in Index : e[r] = IF r = k THEN chk.M[p]
                              ELSE IF chk.col \in Src(r) THEN Flipped(Src(r), chk.M[p]) ELSE Src(r)
  BY DEF Eliminated
<1> HIDE DEF e, p
<1>5. \A i \in Index : i >= k => \A c \in 0 .. chk.col - 1 : c \notin chk.M[i]
  BY DEF Echelon
<1>6. \A i \in Index, c \in 0 .. chk.col - 1 : c \in e[i] <=> c \in chk.M[i]
  <2> SUFFICES ASSUME NEW i \in Index, NEW c \in 0 .. chk.col - 1
               PROVE  c \in e[i] <=> c \in chk.M[i]
    OBVIOUS
  <2>1. c \notin chk.M[p] /\ c \notin chk.M[k]
    BY <1>1, <1>2, <1>5
  <2> QED
    BY <1>4, <2>1 DEF Flipped
<1>7. \A i \in Index : (chk.col \in e[i]) <=> (i = k)
  BY <1>1, <1>4 DEF Flipped
<1>8. ASSUME NEW r \in Index, r < k + 1 PROVE HasOwnColumn(e, r, chk.col + 1)
  <2>1. CASE r = k
    <3>1. chk.col \in 0 .. (chk.col + 1) - 1
      BY <1>3
    <3> QED
      BY <1>7, <2>1, <3>1 DEF HasOwnColumn
  <2>2. CASE r # k
    <3>1. r < k
      BY <1>2, <1>8, <2>2
    <3>2. PICK c \in 0 .. chk.col - 1 : \A i \in Index : (c \in chk.M[i]) <=> (i = r)
      BY <3>1 DEF Echelon, HasOwnColumn
    <3>3. c \in 0 .. (chk.col + 1) - 1
      BY <1>3
    <3> QED
      BY <1>6, <3>2, <3>3 DEF HasOwnColumn
  <2> QED
    BY <2>1, <2>2
<1>9. ASSUME NEW i \in Index, i >= k + 1, NEW c \in 0 .. (chk.col + 1) - 1 PROVE c \notin e[i]
  <2>1. i # k /\ i >= k
    BY <1>2, <1>9
  <2>2. CASE c = chk.col
    BY <1>7, <2>1, <2>2
  <2>3. CASE c # chk.col
    <3>1. c \in 0 .. chk.col - 1
      BY <1>3, <2>3
    <3> QED
      BY <1>5, <1>6, <2>1, <3>1
  <2> QED
    BY <2>2, <2>3
<1> QED
  BY <1>8, <1>9 DEF Echelon, e

(* At the end: every row has a column of its own, or a row is zero.        *)
LEMMA FullIsIndependent ==
  ASSUME NEW m \in RowsM, NEW col \in Nat, col <= N * NIB, Echelon(m, N, col)
  PROVE  RowsIndependent(m)
<1> SUFFICES ASSUME NEW S \in Nonempty PROVE \E c \in Col : Odd(Ones(m, S, c))
  BY Independent
<1>1. PICK r \in S : TRUE
  BY DEF Nonempty
<1>2. r \in Index /\ r < N
  BY Sizes DEF Nonempty, Index
<1>3. PICK c \in 0 .. col - 1 : \A i \in Index : (c \in m[i]) <=> (i = r)
  BY <1>2 DEF Echelon, HasOwnColumn
<1>4. c \in Col
  <2>1. N * NIB \in Nat
    BY Sizes
  <2> QED
    BY <2>1 DEF Col
<1>5. Ones(m, S, c) = {r}
  BY <1>1, <1>3 DEF Ones, Nonempty
<1> QED
  BY <1>4, <1>5, OddOfOne

LEMMA NotFullIsDependent ==
  ASSUME NEW m \in RowsM, NEW k \in Index, Echelon(m, k, N * NIB)
  PROVE  ~RowsIndependent(m)
<1>1. \A c \in Col : c \notin m[k]
  BY Sizes DEF Echelon, Col, Index
<1>2. {k} \in Nonempty
  BY DEF Nonempty
<1>3. \A c \in Col : Ones(m, {k}, c) = {}
  BY <1>1 DEF Ones
<1> QED
  BY <1>2, <1>3, OddOfOne, Independent

-----------------------------------------------------------------------------
(* The rank check, from the first row it asks for to its verdict.          *)

LEMMA WordSizes ==
  /\ WordsPerRow \in Nat \ {0} /\ N = WORD * WordsPerRow
  /\ WordsOfDraw = N * WordsPerRow /\ WordsOfDraw \in Nat \ {0}
  /\ LastWord \in Nat
<1>1. N \in Nat \ {0} /\ WORD \in Nat \ {0} /\ N % WORD = 0
  BY KHeavyhashConstants, Sizes
<1> DEFINE q == N \div WORD
<1>2. N = WORD * q /\ q \in Int
  BY <1>1
<1>3. q \in Nat \ {0}
  BY <1>1, <1>2
<1>4. \A a, b \in Nat \ {0} : a * b \in Nat \ {0}
  OBVIOUS
<1>5. N * N = WORD * (N * q)
  <2> HIDE DEF q
  <2>1. N * N = (WORD * q) * N
    BY <1>2
  <2> QED
    BY <1>1, <1>3, <2>1
<1>6. N * q \in Nat \ {0}
  BY <1>1, <1>3, <1>4
<1> DEFINE d == N * q
<1>7. (WORD * d) \div WORD = d
  <2> HIDE DEF d
  <2>1. d \in Nat
    BY <1>6 DEF d
  <2>2. \A w \in Nat \ {0}, x \in Nat : (w * x) \div w = x
    OBVIOUS
  <2> QED
    BY <1>1, <2>1, <2>2
<1> QED
  BY <1>2, <1>3, <1>5, <1>6, <1>7 DEF WordsPerRow, WordsOfDraw, LastWord

GenType ==
  /\ gen \in [state : {"IDLE", "GENERATE_MATRIX", "RANK_CHECK", "DONE"}, s : {gen.s},
              n16th_value : 0 .. LastWord, done : BOOLEAN]
  /\ cache \in [row : RowsM, PrePowHash : {cache.PrePowHash}, rd_row_data : SUBSET Col]
  /\ chk \in [state : {"IDLE", "LOAD", "FLUSH", "ELIM", "DONE"}, load_idx : Index, M : RowsM,
              col : Col, rank : 0 .. N, done : BOOLEAN, full_rank : BOOLEAN]

(* The working matrix holds the first n rows of the cache.                 *)
Copied(n) == \A r \in Index : r < n => chk.M[r] = cache.row[r]

Loading == /\ chk.state = "LOAD"
           /\ ~chk.done /\ chk.col = 0 /\ chk.rank = 0
           /\ Copied(chk.load_idx - 1)
           /\ chk.load_idx > 0 => cache.rd_row_data = cache.row[chk.load_idx - 1]

Flushing == /\ chk.state = "FLUSH"
            /\ ~chk.done /\ chk.col = 0 /\ chk.rank = 0
            /\ Copied(N - 1) /\ cache.rd_row_data = cache.row[N - 1]

Eliminating == /\ chk.state = "ELIM"
               /\ ~chk.done /\ chk.rank \in Index
               /\ Echelon(chk.M, chk.rank, chk.col)
               /\ RowsIndependent(chk.M) <=> RowsIndependent(cache.row)

Decided == /\ chk.state \in {"DONE", "IDLE"}
           /\ chk.done <=> chk.state = "IDLE"
           /\ chk.full_rank = RowsIndependent(cache.row)

RankInv == IF gen.state = "RANK_CHECK" THEN Loading \/ Flushing \/ Eliminating \/ Decided
           ELSE chk.state = "IDLE"

LEMMA GenInitType == GenInit => GenType /\ RankInv
<1> SUFFICES ASSUME GenInit PROVE GenType /\ RankInv
  OBVIOUS
<1>1. 0 \in Index /\ 0 \in Col /\ 0 \in 0 .. N /\ 0 \in 0 .. LastWord
  BY Sizes, WordSizes DEF Index, Col
<1>2. [i \in Index |-> {}] \in RowsM
  BY DEF RowsM
<1> QED
  BY <1>1, <1>2 DEF GenInit, GenType, RankInv

LEMMA RankCheckType ==
  ASSUME GenType, RankInv, RankCheck
  PROVE  chk' \in [state : {"IDLE", "LOAD", "FLUSH", "ELIM", "DONE"}, load_idx : Index, M : RowsM,
                   col : Col, rank : 0 .. N, done : BOOLEAN, full_rank : BOOLEAN]
<1>1. 0 \in Index /\ 0 \in Col /\ 0 \in 0 .. N
  BY Sizes DEF Index, Col
<1>2. CASE chk.state = "IDLE"
  BY <1>1, <1>2 DEF GenType, RankCheck, RankIdle
<1>3. CASE chk.state = "LOAD"
  <2>1. chk' = RankLoad
    BY <1>3 DEF RankCheck
  <2>2. chk.load_idx < N - 1 => chk.load_idx + 1 \in Index
    BY Sizes DEF GenType, Index
  <2>3. [chk.M EXCEPT ![chk.load_idx - 1] = cache.rd_row_data] \in RowsM
    BY DEF GenType, RowsM
  <2> QED
    BY <2>1, <2>2, <2>3 DEF GenType, RankLoad
<1>4. CASE chk.state = "FLUSH"
  <2>1. chk' = RankFlush
    BY <1>4 DEF RankCheck
  <2>2. [chk.M EXCEPT ![N - 1] = cache.rd_row_data] \in RowsM
    BY DEF GenType, RowsM
  <2> QED
    BY <2>1, <2>2 DEF GenType, RankFlush
<1>5. CASE chk.state = "ELIM"
  <2>1. chk' = RankElim
    BY <1>5 DEF RankCheck
  <2>2. chk.M \in RowsM /\ chk.rank \in Index
    BY <1>5 DEF RankInv, Loading, Flushing, Eliminating, Decided, GenType
  <2>3. chk.rank + 1 \in 0 .. N /\ chk.rank \in 0 .. N
    BY <2>2, Sizes DEF Index
  <2>4. chk.col # N * NIB - 1 => chk.col + 1 \in Col
    BY Sizes DEF GenType, Col
  <2>5. Candidates # {} => Eliminated \in RowsM
    BY <2>2, EliminatedKeeps
  <2> QED
    BY <2>1, <2>2, <2>3, <2>4, <2>5 DEF GenType, RankElim
<1>6. CASE chk.state = "DONE"
  BY <1>6 DEF GenType, RankCheck, RankDone
<1> QED
  BY <1>2, <1>3, <1>4, <1>5, <1>6 DEF GenType

LEMMA GenTypeStep ==
  ASSUME GenType, RankInv, NEW start \in BOOLEAN, NEW pph, GenClock(start, pph)
  PROVE  GenType'
<1>1. gen' \in [state : {"IDLE", "GENERATE_MATRIX", "RANK_CHECK", "DONE"}, s : {gen'.s},
                n16th_value : 0 .. LastWord, done : BOOLEAN]
  <2>1. 0 \in 0 .. LastWord /\ \A n \in 0 .. LastWord : n # LastWord => n + 1 \in 0 .. LastWord
    BY WordSizes
  <2> DEFINE next == CASE gen.state = "IDLE"            -> GenIdle(start, pph)
                       [] gen.state = "GENERATE_MATRIX" -> GenMatrix
                       [] gen.state = "RANK_CHECK"      -> GenRankCheck
                       [] gen.state = "DONE"            -> GenDone
  <2>2. next \in [state : {"IDLE", "GENERATE_MATRIX", "RANK_CHECK", "DONE"}, s : {next.s},
                n16th_value : 0 .. LastWord, done : BOOLEAN]
    <3>1. CASE gen.state = "IDLE"
      BY <2>1, <3>1 DEF GenType, GenIdle
    <3>2. CASE gen.state = "GENERATE_MATRIX"
      BY <2>1, <3>2 DEF GenType, GenMatrix
    <3>3. CASE gen.state = "RANK_CHECK"
      BY <3>3 DEF GenType, GenRankCheck
    <3>4. CASE gen.state = "DONE"
      BY <3>4 DEF GenType, GenDone
    <3> QED
      BY <3>1, <3>2, <3>3, <3>4 DEF GenType
  <2>3. gen' = [next EXCEPT !.done = IF start THEN FALSE ELSE @ \/ gen.state = "DONE"]
    BY DEF GenClock, Generator
  <2> HIDE DEF next
  <2> QED
    BY <2>2, <2>3
<1>2. cache' \in [row : RowsM, PrePowHash : {cache'.PrePowHash}, rd_row_data : SUBSET Col]
  <2>1. cache.row \in RowsM /\ chk.load_idx \in Index /\ cache.rd_row_data \in SUBSET Col
    BY DEF GenType
  <2>2. cache'.row \in RowsM
    <3> DEFINE n == gen.n16th_value
               kept(row) == {c \in row : c \div W # n % WordsPerRow}
    <3>1. BitsOf(prng_out(gen.s), n % WordsPerRow) \in SUBSET Col
      BY DEF BitsOf
    <3>2. \A row \in SUBSET Col : kept(row) \in SUBSET Col
      OBVIOUS
    <3>3. cache'.row = IF gen.state = "GENERATE_MATRIX"
                       THEN [cache.row EXCEPT ![n \div WordsPerRow] =
                              kept(@) \cup BitsOf(prng_out(gen.s), n % WordsPerRow)]
                       ELSE cache.row
      BY DEF GenClock, Cache
    <3> HIDE DEF kept, n
    <3> QED
      BY <2>1, <3>1, <3>2, <3>3 DEF RowsM
  <2>3. cache'.rd_row_data \in SUBSET Col
    BY <2>1 DEF GenClock, Cache, RowsM
  <2> QED
    BY <2>2, <2>3 DEF GenClock, Cache
<1> QED
  BY <1>1, <1>2, RankCheckType DEF GenType, GenClock

(* What the generator and the cache do while the rank check works.         *)
LEMMA DuringRankCheck ==
  ASSUME GenType, NEW start \in BOOLEAN, NEW pph, GenClock(start, pph), gen.state = "RANK_CHECK"
  PROVE  /\ gen'.state = IF ~chk.done THEN "RANK_CHECK"
                         ELSE IF chk.full_rank THEN "DONE" ELSE "GENERATE_MATRIX"
         /\ cache'.row = cache.row
         /\ chk.state = "LOAD" => cache'.rd_row_data = cache.row[chk.load_idx]
         /\ ~start_rank_check
BY DEF GenType, GenClock, Generator, GenRankCheck, Cache, start_rank_check

LEMMA RankInvStep ==
  ASSUME GenType, RankInv, NEW start \in BOOLEAN, NEW pph, GenClock(start, pph)
  PROVE  RankInv'
<1>1. GenType' /\ RankCheck
  BY GenTypeStep DEF GenClock
<1>2. CASE gen.state # "RANK_CHECK"
  <2>1. chk.state = "IDLE" /\ chk' = RankIdle
    BY <1>1, <1>2 DEF RankInv, RankCheck
  <2>2. CASE start_rank_check
    <3>1. gen'.state = "RANK_CHECK"
      BY <2>2 DEF start_rank_check, GenClock, Generator, GenMatrix, GenType
    <3>2. /\ chk'.state = "LOAD" /\ ~chk'.done /\ chk'.col = 0 /\ chk'.rank = 0 /\ chk'.load_idx = 0
      BY <2>1, <2>2 DEF RankIdle, GenType
    <3>3. Loading'
      BY <3>2, Sizes DEF Loading, Copied, Index
    <3> QED
      BY <3>1, <3>3 DEF RankInv
  <2>3. CASE ~start_rank_check
    <3>1. gen'.state # "RANK_CHECK"
      <4>1. CASE gen.state = "IDLE"
        BY <4>1 DEF GenClock, Generator, GenIdle, GenType
      <4>2. CASE gen.state = "GENERATE_MATRIX"
        BY <2>3, <4>2 DEF start_rank_check, GenClock, Generator, GenMatrix, GenType
      <4>3. CASE gen.state = "DONE"
        BY <4>3 DEF GenClock, Generator, GenDone, GenType
      <4> QED
        BY <1>2, <4>1, <4>2, <4>3 DEF GenType
    <3>2. chk'.state = "IDLE"
      BY <2>1, <2>3 DEF RankIdle
    <3> QED
      BY <3>1, <3>2 DEF RankInv
  <2> QED
    BY <2>2, <2>3
<1>3. CASE gen.state = "RANK_CHECK"
  <2>1. /\ gen'.state = IF ~chk.done THEN "RANK_CHECK"
                        ELSE IF chk.full_rank THEN "DONE" ELSE "GENERATE_MATRIX"
        /\ cache'.row = cache.row
        /\ chk.state = "LOAD" => cache'.rd_row_data = cache.row[chk.load_idx]
        /\ ~start_rank_check
    BY <1>3, DuringRankCheck
  <2>2. CASE Loading
    <3>1. gen'.state = "RANK_CHECK" /\ chk' = RankLoad
      BY <1>1, <2>1, <2>2 DEF Loading, RankCheck
    <3>2. /\ ~chk'.done /\ chk'.col = 0 /\ chk'.rank = 0
          /\ chk'.M = IF chk.load_idx = 0 THEN chk.M
                      ELSE [chk.M EXCEPT ![chk.load_idx - 1] = cache.rd_row_data]
      BY <2>2, <3>1 DEF Loading, RankLoad, GenType
    <3>3. chk.load_idx \in Index /\ chk.load_idx \in Nat
      BY Sizes DEF GenType, Index
    <3>4. ASSUME NEW r \in Index, r < chk.load_idx PROVE chk'.M[r] = cache'.row[r]
      <4>1. chk.M \in RowsM
        BY DEF GenType
      <4>2. chk.load_idx # 0
        BY <3>3, <3>4, Sizes DEF Index
      <4>3. CASE r = chk.load_idx - 1
        <5>1. cache.rd_row_data = cache.row[r]
          BY <2>2, <3>3, <4>2, <4>3 DEF Loading
        <5> QED
          BY <2>1, <3>2, <4>1, <4>2, <4>3, <5>1 DEF RowsM
      <4>4. CASE r # chk.load_idx - 1
        <5>1. r < chk.load_idx - 1
          BY <3>3, <3>4, <4>4, Sizes DEF Index
        <5>2. chk.M[r] = cache.row[r]
          BY <2>2, <5>1 DEF Loading, Copied
        <5> QED
          BY <2>1, <3>2, <4>1, <4>4, <5>2 DEF RowsM
      <4> QED
        BY <4>3, <4>4
    <3>5. CASE chk.load_idx < N - 1
      <4>1. chk'.state = "LOAD" /\ chk'.load_idx = chk.load_idx + 1
        BY <2>2, <3>1, <3>5 DEF RankLoad, GenType, Loading
      <4>2. chk'.load_idx - 1 = chk.load_idx
        BY <3>3, <4>1
      <4> QED
        BY <2>1, <2>2, <3>1, <3>2, <3>4, <4>1, <4>2 DEF Loading, RankInv, Copied
    <3>6. CASE ~(chk.load_idx < N - 1)
      <4>1. chk'.state = "FLUSH" /\ chk.load_idx = N - 1
        BY <3>1, <3>3, <3>6, Sizes DEF RankLoad, GenType, Index
      <4> QED
        BY <2>1, <2>2, <3>1, <3>2, <3>4, <4>1 DEF Loading, Flushing, RankInv, Copied
    <3> QED
      BY <3>5, <3>6
  <2>3. CASE Flushing
    <3>1. gen'.state = "RANK_CHECK" /\ chk' = RankFlush
      BY <1>1, <2>1, <2>3 DEF Flushing, RankCheck
    <3>2. /\ chk'.state = "ELIM" /\ ~chk'.done /\ chk'.col = 0 /\ chk'.rank = 0
          /\ chk'.M = [chk.M EXCEPT ![N - 1] = cache.rd_row_data]
      BY <2>3, <3>1 DEF Flushing, RankFlush, GenType
    <3>3. chk'.M = cache.row
      <4>1. chk.M \in RowsM /\ cache.row \in RowsM
        BY DEF GenType
      <4>2. \A r \in Index : r # N - 1 => r < N - 1
        BY Sizes DEF Index
      <4>3. \A r \in Index : chk'.M[r] = cache.row[r]
        BY <2>3, <3>2, <4>1, <4>2 DEF Flushing, Copied, RowsM
      <4> QED
        BY <3>2, <4>1, <4>3 DEF RowsM
    <3>4. Echelon(chk'.M, 0, 0)
      BY Sizes DEF Echelon, Index
    <3>5. Eliminating'
      BY <2>1, <3>2, <3>3, <3>4, Sizes DEF Eliminating, Index
    <3> QED
      BY <3>1, <3>5 DEF RankInv
  <2>4. CASE Eliminating
    <3>1. gen'.state = "RANK_CHECK" /\ chk' = RankElim
      BY <1>1, <2>1, <2>4 DEF Eliminating, RankCheck
    <3>2. /\ chk.M \in RowsM /\ chk.rank \in Index /\ chk.col \in Col
          /\ Echelon(chk.M, chk.rank, chk.col)
      BY <2>4 DEF Eliminating, GenType
    <3> DEFINE found == Candidates # {}
               full  == found /\ chk.rank = N - 1
               ends  == full \/ chk.col = N * NIB - 1
               k == IF found THEN chk.rank + 1 ELSE chk.rank
    <3>3. /\ ~chk'.done
          /\ chk'.M = IF found THEN Eliminated ELSE chk.M
          /\ chk'.rank = k
          /\ ends => chk'.full_rank = full /\ chk'.state = "DONE"
          /\ ~ends => chk'.state = "ELIM" /\ chk'.col = chk.col + 1
      BY <2>4, <3>1 DEF Eliminating, RankElim, GenType
    <3>4. Echelon(chk'.M, k, chk.col + 1)
      BY <3>2, <3>3, NoCandidate, WithCandidate
    <3>5. RowsIndependent(chk'.M) <=> RowsIndependent(cache'.row)
      BY <2>1, <2>4, <3>2, <3>3, EliminatedKeeps DEF Eliminating
    <3>6. chk.rank \in 0 .. N - 1 /\ chk.col \in 0 .. N * NIB - 1 /\ N \in Nat /\ N * NIB \in Nat
      BY <3>2, Sizes DEF Index, Col
    <3>7. CASE ~ends
      <4>1. k \in Index
        BY <3>6, <3>7, Sizes DEF Index
      <4>2. Eliminating'
        BY <3>3, <3>4, <3>5, <3>7, <4>1 DEF Eliminating
      <4> QED
        BY <3>1, <4>2 DEF RankInv
    <3>8. CASE ends
      <4>1. chk'.M \in RowsM
        BY <1>1 DEF GenType
      <4>2. full = RowsIndependent(chk'.M)
        <5>1. CASE full
          <6>1. k = N /\ chk.col + 1 \in Nat /\ chk.col + 1 <= N * NIB
            BY <3>6, <5>1
          <6>2. RowsIndependent(chk'.M)
            BY <3>4, <4>1, <6>1, FullIsIndependent
          <6> QED
            BY <5>1, <6>2 DEF RowsIndependent
        <5>2. CASE ~full
          <6>1. k \in Index /\ chk.col + 1 = N * NIB
            BY <3>6, <3>8, <5>2, Sizes DEF Index
          <6>2. ~RowsIndependent(chk'.M)
            BY <3>4, <4>1, <6>1, NotFullIsDependent
          <6> QED
            BY <5>2, <6>2 DEF RowsIndependent
        <5> QED
          BY <5>1, <5>2
      <4>3. chk'.full_rank = RowsIndependent(cache'.row)
        BY <3>3, <3>5, <3>8, <4>2 DEF RowsIndependent
      <4>4. Decided'
        BY <3>3, <3>8, <4>3 DEF Decided
      <4> QED
        BY <3>1, <4>4 DEF RankInv
    <3> QED
      BY <3>7, <3>8
  <2>5. CASE Decided
    <3>1. CASE chk.state = "DONE"
      <4>1. gen'.state = "RANK_CHECK" /\ chk' = RankDone
        BY <1>1, <2>1, <2>5, <3>1 DEF Decided, RankCheck
      <4>2. chk'.done /\ chk'.state = "IDLE" /\ chk'.full_rank = chk.full_rank
        BY <4>1 DEF RankDone, GenType
      <4>3. Decided'
        BY <2>1, <2>5, <4>2 DEF Decided
      <4> QED
        BY <4>1, <4>3 DEF RankInv
    <3>2. CASE chk.state = "IDLE"
      <4>1. chk' = chk
        BY <1>1, <2>1, <3>2 DEF RankCheck, RankIdle
      <4>2. gen'.state # "RANK_CHECK"
        BY <2>1, <2>5, <3>2 DEF Decided
      <4> QED
        BY <3>2, <4>1, <4>2 DEF RankInv
    <3> QED
      BY <2>5, <3>1, <3>2 DEF Decided
  <2> QED
    BY <1>3, <2>2, <2>3, <2>4, <2>5 DEF RankInv
<1> QED
  BY <1>2, <1>3

CtlType ==
  ctl \in [state : {"GEN", "LOAD", "STREAM"}, blk_pph : Pphs, matrix_gen_start : BOOLEAN,
           gen_ack : BOOLEAN, mm_reload : BOOLEAN, load_seen : BOOLEAN]

VerdictInv == CtlType /\ GenType /\ RankInv

LEMMA VerdictInvInit == Init => VerdictInv
BY GenInitType DEF Init, VerdictInv, CtlType

LEMMA CtlTypeStep ==
  ASSUME CtlType, NEW pph \in Pphs \cup {None}, IF pph = None THEN Control ELSE Start(pph)
  PROVE  CtlType'
<1>1. CASE pph = None
  <2>1. Control
    BY <1>1
  <2> DEFINE turn == ctl.state = "GEN" /\ ctl.gen_ack /\ gen.done
  <2>2. ctl' = [ctl EXCEPT
          !.matrix_gen_start = FALSE,
          !.mm_reload = turn,
          !.gen_ack = @ \/ (ctl.state = "GEN" /\ ~gen.done),
          !.load_seen = ~turn /\ (@ \/ (ctl.state = "LOAD" /\ busy)),
          !.state = IF turn THEN "LOAD"
                    ELSE IF @ = "LOAD" /\ ctl.load_seen /\ ~busy THEN "STREAM" ELSE @]
    BY <2>1 DEF Control
  <2>3. /\ turn \in BOOLEAN
        /\ (ctl.gen_ack \/ (ctl.state = "GEN" /\ ~gen.done)) \in BOOLEAN
        /\ (~turn /\ (ctl.load_seen \/ (ctl.state = "LOAD" /\ busy))) \in BOOLEAN
    OBVIOUS
  <2> HIDE DEF turn
  <2> QED
    BY <2>2, <2>3 DEF CtlType
<1>2. CASE pph # None
  BY <1>2 DEF Start, CtlType
<1> QED
  BY <1>1, <1>2

LEMMA VerdictInvStep ==
  ASSUME VerdictInv, NEW pph \in Pphs \cup {None}, NEW nonce, Clock(pph, nonce)
  PROVE  VerdictInv'
<1>1. /\ IF pph = None THEN Control ELSE Start(pph)
      /\ GenClock(ctl.matrix_gen_start, ctl.blk_pph)
  BY DEF Clock
<1>2. ctl.matrix_gen_start \in BOOLEAN
  BY DEF VerdictInv, CtlType
<1> QED
  BY <1>1, <1>2, CtlTypeStep, GenTypeStep, RankInvStep DEF VerdictInv

LEMMA VerdictInvNext == VerdictInv /\ [Next]_vars => VerdictInv'
<1> SUFFICES ASSUME VerdictInv, [Next]_vars PROVE VerdictInv'
  OBVIOUS
<1>1. CASE Next
  BY <1>1, VerdictInvStep DEF Next
<1>2. CASE UNCHANGED vars
  BY <1>2 DEF vars, genVars, VerdictInv, CtlType, GenType, RankInv, Loading, Flushing, Eliminating,
              Decided, Copied
<1> QED
  BY <1>1, <1>2

(* The verdict of the rank check, done, is that of the matrix now in the   *)
(* cache, whatever its size and contents: full rank exactly if no XOR of   *)
(* some of its rows is zero (VerdictIsRight).                              *)
THEOREM VerdictHolds == Spec => []VerdictIsRight
<1>1. VerdictInv => VerdictIsRight
  BY DEF VerdictInv, RankInv, Loading, Flushing, Eliminating, Decided, VerdictIsRight
<1> QED
  BY <1>1, VerdictInvInit, VerdictInvNext, PTL DEF Spec

-----------------------------------------------------------------------------
(* Powers of two, and the bits of a word.                                  *)

LEMMA Powers ==
  /\ \A n \in 0 .. W : 2^n \in Nat \ {0}
  /\ \A m, n \in 0 .. W : 2^(m + n) = 2^m * 2^n
  /\ 2^0 = 1 /\ 2^1 = 2
<1> DEFINE T == {n \in Nat : n <= W => 2^n > 0}
<1>1. 2^0 = 1 /\ 2^1 = 2
  OBVIOUS
<1>2. W \in Nat /\ W >= 1
  BY Sizes
<1>3. \A n \in Nat : 2^n \in Int
  OBVIOUS
<1>4. 0 \in T
  BY <1>1
<1>5. ASSUME NEW n \in T PROVE n + 1 \in T
  <2>1. CASE n + 1 <= W
    <3>1. n \in 0 .. W /\ 1 \in 0 .. W
      BY <1>2, <2>1
    <3>2. 2^(n + 1) = 2^n * 2^1
      BY <3>1, PowersOfTwo
    <3>3. 2^n \in Int /\ 2^n > 0
      BY <1>2, <1>3, <2>1
    <3> QED
      BY <1>1, <3>2, <3>3
  <2>2. CASE ~(n + 1 <= W)
    BY <2>2
  <2> QED
    BY <2>1, <2>2
<1>6. T = Nat
  <2> HIDE DEF T
  <2>1. T \in SUBSET Nat
    BY DEF T
  <2> QED
    BY <1>4, <1>5, <2>1, AllNumbers
<1>7. \A n \in 0 .. W : 2^n \in Nat \ {0}
  BY <1>2, <1>3, <1>6
<1> QED
  BY <1>1, <1>7, PowersOfTwo

LEMMA Division ==
  ASSUME NEW a \in Nat \ {0}, NEW v \in Nat
  PROVE  v = a * (v \div a) + (v % a) /\ v % a \in 0 .. a - 1 /\ v \div a \in Nat
OBVIOUS

LEMMA ProductRemainder ==
  ASSUME NEW a \in Nat \ {0}, NEW b \in Nat \ {0}, NEW v \in Nat
  PROVE  (v * b) % (a * b) = (v % a) * b
OBVIOUS

LEMMA DividedTwice ==
  ASSUME NEW a \in Nat \ {0}, NEW b \in Nat \ {0}, NEW v \in Nat
  PROVE  (v \div a) \div b = v \div (a * b)
OBVIOUS

LEMMA RemainderDivided ==
  ASSUME NEW a \in Nat \ {0}, NEW b \in Nat \ {0}, NEW v \in Nat
  PROVE  (v \div a) % b = (v % (a * b)) \div a
OBVIOUS

LEMMA SumDivided ==
  ASSUME NEW a \in Nat \ {0}, NEW v \in Nat, NEW z \in Nat
  PROVE  (a * z + v) \div a = z + (v \div a) /\ (a * z + v) % a = v % a
OBVIOUS

LEMMA RemainderTwice ==
  ASSUME NEW a \in Nat \ {0}, NEW b \in Nat \ {0}, NEW v \in Nat
  PROVE  (v % (a * b)) % a = v % a
<1> DEFINE m == a * b
           r == v % m
           q == v \div m
<1>1. m \in Nat \ {0}
  OBVIOUS
<1>2. v = m * q + r /\ r \in Nat /\ q \in Nat
  <2> HIDE DEF m
  <2>1. v = m * (v \div m) + (v % m) /\ v % m \in 0 .. m - 1 /\ v \div m \in Nat
    BY <1>1, Division
  <2> QED
    BY <1>1, <2>1
<1>3. m * q = a * (b * q) /\ b * q \in Nat
  <2> HIDE DEF q
  <2>1. \A x, y, w \in Nat : (x * y) * w = x * (y * w) /\ y * w \in Nat
    OBVIOUS
  <2> QED
    BY <1>2, <2>1
<1> DEFINE z == b * q
<1>4. v = a * z + r /\ z \in Nat /\ r \in Nat
  BY <1>2, <1>3
<1> HIDE DEF r, z
<1>5. (a * z + r) % a = r % a
  BY <1>4, SumDivided
<1> QED
  BY <1>4, <1>5 DEF r

-----------------------------------------------------------------------------
(* The random words: the generator's wires compute the reference's         *)
(* xoshiro256++, and what its n-th state is.                               *)

Seeds == Word \X Word \X Word \X Word

LEMMA Rotation ==
  ASSUME NEW v \in Word, NEW r \in 0 .. W
  PROVE  /\ (v % 2^(W - r)) * 2^r = (v * 2^r) % 2^W
         /\ (v % 2^(W - r)) * 2^r + (v \div 2^(W - r)) = rotl64(v, r)
         /\ rotl64(v, r) \in Word
<1> DEFINE A == 2^(W - r)
           B == 2^r
<1>1. W - r \in 0 .. W /\ r \in 0 .. W /\ (W - r) + r = W
  BY Sizes
<1>2. A \in Nat \ {0} /\ B \in Nat \ {0} /\ A * B = 2^W
  BY <1>1, Powers
<1>3. v \in Nat /\ v < A * B
  BY <1>2 DEF Word
<1> HIDE DEF A, B
<1>4. (v * B) % (A * B) = (v % A) * B
  BY <1>2, <1>3, ProductRemainder
<1>5. v = A * (v \div A) + (v % A) /\ v % A \in 0 .. A - 1 /\ v \div A \in Nat
  BY <1>2, <1>3, Division
<1> DEFINE q == v \div A
           x == v % A
<1>6. q < B
  <2>1. A * q < A * B /\ q \in Nat
    <3>1. v = A * q + x /\ x \in Nat /\ q \in Nat
      BY <1>2, <1>5
    <3> HIDE DEF q, x
    <3>2. A * q \in Nat
      BY <1>2, <3>1
    <3> QED
      BY <1>2, <1>3, <3>1, <3>2
  <2> HIDE DEF q
  <2>2. ~(q >= B)
    <3>1. q >= B => A * q >= A * B
      BY <1>2, <2>1
    <3>2. A * q \in Nat /\ A * B \in Nat
      BY <1>2, <2>1
    <3> QED
      BY <2>1, <3>1, <3>2
  <2> QED
    BY <1>2, <2>1, <2>2
<1>7. x * B + q \in 0 .. A * B - 1
  <2>1. x \in 0 .. A - 1 /\ q \in 0 .. B - 1
    BY <1>2, <1>5, <1>6
  <2> HIDE DEF x, q
  <2>2. x * B \in Nat /\ x * B <= (A - 1) * B
    BY <1>2, <2>1
  <2>3. (A - 1) * B = A * B - B
    BY <1>2
  <2>4. A * B \in Nat
    BY <1>2
  <2> QED
    BY <1>2, <2>1, <2>2, <2>3, <2>4
<1>8. rotl64(v, r) = x * B + q
  BY <1>2, <1>4 DEF rotl64, A, B
<1>9. rotl64(v, r) \in Word
  BY <1>2, <1>7, <1>8 DEF Word
<1> QED
  BY <1>2, <1>4, <1>8, <1>9 DEF A, B

LEMMA Constants ==
  /\ OUT_ROT \in 0 .. W /\ T_SHIFT \in 0 .. W /\ S3_ROT \in 0 .. W
  /\ 2^W \in Nat \ {0} /\ \A v \in Nat : v % 2^W \in Word /\ v % 2^W \in Nat
<1>1. 2^W \in Nat \ {0}
  BY Sizes, Powers
<1> QED
  BY <1>1, KHeavyhashConstants DEF W, Word

LEMMA WiresAreXoshiro ==
  ASSUME NEW s \in Seeds
  PROVE  /\ new_s(s) = xoshiro_next(s) /\ xoshiro_next(s) \in Seeds
         /\ prng_out(s) = xoshiro_out(s) /\ xoshiro_out(s) \in Nat
<1>1. s[1] \in Word /\ s[2] \in Word /\ s[3] \in Word /\ s[4] \in Word
  BY DEF Seeds
<1>2. \A v \in Word : v \in Nat
  BY DEF Word
<1> DEFINE t  == (s[2] * 2^T_SHIFT) % 2^W
           s2 == xor(s[3], s[1])
           s3 == xor(s[4], s[2])
<1>3. s2 \in Word /\ s3 \in Word
  BY <1>1, XorOfWords
<1>4. t \in Word /\ (s[2] % 2^(W - T_SHIFT)) * 2^T_SHIFT = t
  <2>1. 2^T_SHIFT \in Nat \ {0}
    BY Constants, Powers
  <2>2. s[2] * 2^T_SHIFT \in Nat
    BY <1>1, <1>2, <2>1
  <2> QED
    BY <1>1, <2>2, Constants, Rotation
<1>5. (s3 % 2^(W - S3_ROT)) * 2^S3_ROT + (s3 \div 2^(W - S3_ROT)) = rotl64(s3, S3_ROT)
      /\ rotl64(s3, S3_ROT) \in Word
  BY <1>3, Constants, Rotation
<1>6. new_s(s) = <<xor(s[1], s3), xor(s[2], s2), xor(s2, t), rotl64(s3, S3_ROT)>>
  BY <1>4, <1>5 DEF new_s
<1>7. xoshiro_next(s) = <<xor(s[1], s3), xor(s[2], s2), xor(s2, t), rotl64(s3, S3_ROT)>>
  BY DEF xoshiro_next
<1>8. xor(s[1], s3) \in Word /\ xor(s[2], s2) \in Word /\ xor(s2, t) \in Word
  BY <1>1, <1>3, <1>4, XorOfWords
<1> DEFINE sum == (s[1] + s[4]) % 2^W
<1>9. sum \in Word
  <2>1. s[1] + s[4] \in Nat
    BY <1>1, <1>2
  <2> QED
    BY <2>1, Constants
<1>10. /\ (sum % 2^(W - OUT_ROT)) * 2^OUT_ROT + (sum \div 2^(W - OUT_ROT)) = rotl64(sum, OUT_ROT)
       /\ rotl64(sum, OUT_ROT) \in Word
  <2> HIDE DEF sum
  <2> QED
    BY <1>9, Constants, Rotation
<1>11. prng_out(s) = (rotl64(sum, OUT_ROT) + s[1]) % 2^W
  BY <1>10 DEF prng_out
<1>12. rotl64(sum, OUT_ROT) + s[1] \in Nat
  BY <1>1, <1>2, <1>10
<1> QED
  BY <1>5, <1>6, <1>7, <1>8, <1>11, <1>12, Constants DEF Seeds, xoshiro_out

(* The states from p on are a function that exists and is the only one.    *)
IsRun(f, p, n) == f = [k \in 0 .. n |-> IF k = 0 THEN p ELSE xoshiro_next(f[k - 1])]

LEMMA RunExists ==
  ASSUME NEW p, NEW n \in Nat
  PROVE  \E f : IsRun(f, p, n)
<1> DEFINE T == {k \in Nat : \E f : IsRun(f, p, k)}
<1>1. 0 \in T
  <2> DEFINE f == [k \in 0 .. 0 |-> p]
  <2>1. \A k \in 0 .. 0 : k = 0
    OBVIOUS
  <2>2. f = [k \in 0 .. 0 |-> IF k = 0 THEN p ELSE xoshiro_next(f[k - 1])]
    BY <2>1
  <2>3. IsRun(f, p, 0)
    BY <2>2 DEF IsRun
  <2> QED
    BY <2>3
<1>2. ASSUME NEW m \in T PROVE m + 1 \in T
  <2>1. PICK f : IsRun(f, p, m)
    OBVIOUS
  <2>2. /\ DOMAIN f = 0 .. m
        /\ \A k \in 0 .. m : f[k] = IF k = 0 THEN p ELSE xoshiro_next(f[k - 1])
    <3>1. f = [k \in 0 .. m |-> IF k = 0 THEN p ELSE xoshiro_next(f[k - 1])]
      BY <2>1 DEF IsRun
    <3> QED
      BY <3>1
  <2> DEFINE g == [k \in 0 .. m + 1 |-> IF k = 0 THEN p ELSE xoshiro_next(f[k - 1])]
  <2>3. \A k \in 0 .. m : g[k] = f[k]
    BY <2>2
  <2>4. \A k \in 0 .. m + 1 : k # 0 => k - 1 \in 0 .. m
    OBVIOUS
  <2>5. \A k \in 0 .. m + 1 : g[k] = IF k = 0 THEN p ELSE xoshiro_next(g[k - 1])
    <3>1. \A k \in 0 .. m + 1 : g[k] = IF k = 0 THEN p ELSE xoshiro_next(f[k - 1])
      OBVIOUS
    <3> HIDE DEF g
    <3> QED
      BY <2>3, <2>4, <3>1
  <2>6. DOMAIN g = 0 .. m + 1 /\ g = [k \in 0 .. m + 1 |-> g[k]]
    OBVIOUS
  <2> HIDE DEF g
  <2>7. g = [k \in 0 .. m + 1 |-> IF k = 0 THEN p ELSE xoshiro_next(g[k - 1])]
    BY <2>5, <2>6
  <2>8. IsRun(g, p, m + 1)
    BY <2>7 DEF IsRun
  <2> QED
    BY <2>8
<1>3. T = Nat
  <2>1. T \in SUBSET Nat
    OBVIOUS
  <2> HIDE DEF T
  <2> QED
    BY <1>1, <1>2, <2>1, AllNumbers
<1> QED
  BY <1>3

LEMMA RunsAgree ==
  ASSUME NEW p, NEW f, NEW g, NEW n \in Nat, NEW m \in Nat, IsRun(f, p, n), IsRun(g, p, m)
  PROVE  \A k \in Nat : k <= n /\ k <= m => f[k] = g[k]
<1>1. \A k \in 0 .. n : f[k] = IF k = 0 THEN p ELSE xoshiro_next(f[k - 1])
  <2>1. f = [k \in 0 .. n |-> IF k = 0 THEN p ELSE xoshiro_next(f[k - 1])]
    BY DEF IsRun
  <2> QED
    BY <2>1
<1>2. \A k \in 0 .. m : g[k] = IF k = 0 THEN p ELSE xoshiro_next(g[k - 1])
  <2>1. g = [k \in 0 .. m |-> IF k = 0 THEN p ELSE xoshiro_next(g[k - 1])]
    BY DEF IsRun
  <2> QED
    BY <2>1
<1> DEFINE T == {k \in Nat : k <= n /\ k <= m => f[k] = g[k]}
<1>3. 0 \in T
  BY <1>1, <1>2
<1>4. ASSUME NEW k \in T PROVE k + 1 \in T
  <2>1. CASE k + 1 <= n /\ k + 1 <= m
    <3>1. k + 1 \in 0 .. n /\ k + 1 \in 0 .. m /\ (k + 1) - 1 = k /\ k + 1 # 0 /\ f[k] = g[k]
      BY <2>1
    <3>2. f[k + 1] = xoshiro_next(f[k]) /\ g[k + 1] = xoshiro_next(g[k])
      BY <1>1, <1>2, <3>1
    <3> QED
      BY <3>1, <3>2
  <2>2. CASE ~(k + 1 <= n /\ k + 1 <= m)
    BY <2>2
  <2> QED
    BY <2>1, <2>2
<1>5. T = Nat
  <2>1. T \in SUBSET Nat
    OBVIOUS
  <2> HIDE DEF T
  <2> QED
    BY <1>3, <1>4, <2>1, AllNumbers
<1> QED
  BY <1>5

(* State number k of the block.                                            *)
At(p, k) == States(p, k)[k]

LEMMA StatesAreARun ==
  ASSUME NEW p, NEW n \in Nat
  PROVE  IsRun(States(p, n), p, n)
BY RunExists DEF States, IsRun

LEMMA StateOfNumber ==
  ASSUME NEW p, NEW k \in Nat
  PROVE  /\ At(p, 0) = p
         /\ At(p, k + 1) = xoshiro_next(At(p, k))
         /\ \A n \in Nat : k <= n => States(p, n)[k] = At(p, k)
<1>1. \A n \in Nat : IsRun(States(p, n), p, n)
  BY StatesAreARun
<1>2. \A n \in Nat : k <= n => States(p, n)[k] = At(p, k)
  BY <1>1, RunsAgree DEF At
<1>3. ASSUME NEW n \in Nat PROVE
        \A i \in 0 .. n : States(p, n)[i] = IF i = 0 THEN p ELSE xoshiro_next(States(p, n)[i - 1])
  <2> DEFINE f == States(p, n)
  <2>1. f = [i \in 0 .. n |-> IF i = 0 THEN p ELSE xoshiro_next(f[i - 1])]
    BY <1>1 DEF IsRun
  <2> HIDE DEF f
  <2>2. \A i \in 0 .. n : f[i] = IF i = 0 THEN p ELSE xoshiro_next(f[i - 1])
    BY <2>1
  <2> QED
    BY <2>2 DEF f
<1>4. At(p, 0) = p
  BY <1>3 DEF At
<1>5. At(p, k + 1) = xoshiro_next(At(p, k))
  <2>1. k + 1 \in Nat /\ k + 1 \in 0 .. k + 1 /\ (k + 1) - 1 = k /\ k + 1 # 0 /\ k <= k + 1
    OBVIOUS
  <2>2. States(p, k + 1)[k + 1] = xoshiro_next(States(p, k + 1)[k])
    BY <1>3, <2>1
  <2>3. States(p, k + 1)[k] = At(p, k)
    BY <1>2, <2>1
  <2> QED
    BY <2>2, <2>3 DEF At
<1> QED
  BY <1>2, <1>4, <1>5

LEMMA StatesAreSeeds ==
  ASSUME NEW p \in Seeds, NEW k \in Nat
  PROVE  At(p, k) \in Seeds
<1> DEFINE T == {n \in Nat : At(p, n) \in Seeds}
<1>1. 0 \in T
  BY StateOfNumber
<1>2. ASSUME NEW n \in T PROVE n + 1 \in T
  BY StateOfNumber, WiresAreXoshiro
<1>3. T = Nat
  <2>1. T \in SUBSET Nat
    OBVIOUS
  <2> HIDE DEF T
  <2> QED
    BY <1>1, <1>2, <2>1, AllNumbers
<1> QED
  BY <1>3

-----------------------------------------------------------------------------
(* Where the bits of a drawn matrix are in the rows of the cache.          *)

LEMMA SameQuotient ==
  ASSUME NEW b \in Nat \ {0}, NEW i \in Nat, NEW j \in Nat, NEW x \in 0 .. b - 1, NEW y \in 0 .. b - 1
  PROVE  /\ (i * b + x) \div b = i /\ (i * b + x) % b = x
         /\ i * b + x < j * b <=> i < j
         /\ i * b + x = j * b + y <=> i = j /\ x = y
<1>1. (i * b + x) \div b = i /\ (i * b + x) % b = x /\ (j * b + y) \div b = j /\ (j * b + y) % b = y
  OBVIOUS
<1>2. i * b + x < j * b <=> i < j
  <2>1. CASE i < j
    <3>1. (i + 1) * b <= j * b
      BY <2>1
    <3>2. (i + 1) * b = i * b + b /\ i * b \in Nat /\ j * b \in Nat
      OBVIOUS
    <3> QED
      BY <2>1, <3>1, <3>2
  <2>2. CASE ~(i < j)
    <3>1. j * b <= i * b /\ i * b \in Nat /\ j * b \in Nat
      BY <2>2
    <3> QED
      BY <2>2, <3>1
  <2> QED
    BY <2>1, <2>2
<1> QED
  BY <1>1, <1>2

LEMMA Layout ==
  ASSUME NEW i \in Index, NEW c \in Col
  PROVE  LET j == c \div NIB
             e == i * N + j
         IN  /\ i \in Nat /\ c \in Nat /\ j \in Index /\ j \in Nat
             /\ c \div W \in 0 .. WordsPerRow - 1 /\ c % W \in 0 .. W - 1
             /\ e \div WORD = i * WordsPerRow + (c \div W)
             /\ c % W = NIB * (e % WORD) + (c % NIB)
             /\ e % WORD \in 0 .. WORD - 1 /\ c % NIB \in 0 .. NIB - 1
<1> DEFINE j == c \div NIB
           e == i * N + j
           q == c \div W
<1>1. /\ NIB \in Nat \ {0} /\ WORD \in Nat \ {0} /\ W \in Nat \ {0} /\ W = NIB * WORD
      /\ WordsPerRow \in Nat \ {0} /\ N = WORD * WordsPerRow /\ N \in Nat \ {0}
  BY Sizes, WordSizes DEF W
<1>2. i \in Nat /\ c \in Nat /\ c < N * NIB
  BY Sizes DEF Index, Col
<1>3. c = NIB * j + (c % NIB) /\ c % NIB \in 0 .. NIB - 1 /\ j \in Nat
  BY <1>1, <1>2, Division
<1>4. j < N
  <2> DEFINE x == c % NIB
  <2>1. c = j * NIB + x /\ x \in 0 .. NIB - 1 /\ j \in Nat
    BY <1>1, <1>3
  <2> HIDE DEF j, x
  <2> QED
    BY <1>1, <1>2, <2>1, SameQuotient
<1>5. j \div WORD = q
  <2>1. (c \div NIB) \div WORD = c \div (NIB * WORD)
    BY <1>1, <1>2, DividedTwice
  <2> QED
    BY <1>1, <2>1
<1>6. c = W * q + (c % W) /\ c % W \in 0 .. W - 1 /\ q \in Nat
  BY <1>1, <1>2, Division
<1>7. q < WordsPerRow
  <2> DEFINE x == c % W
  <2>1. c = q * W + x /\ x \in 0 .. W - 1 /\ q \in Nat
    BY <1>1, <1>6
  <2>2. N * NIB = WordsPerRow * W
    <3>1. \A a, b, d \in Nat : (a * b) * d = b * (d * a)
      OBVIOUS
    <3>2. (WORD * WordsPerRow) * NIB = WordsPerRow * (NIB * WORD)
      BY <1>1, <3>1
    <3> QED
      BY <1>1, <3>2
  <2>3. c < WordsPerRow * W
    BY <1>2, <2>2
  <2> HIDE DEF q, x
  <2> QED
    BY <1>1, <2>1, <2>3, SameQuotient
<1>8. e = WORD * (i * WordsPerRow) + j /\ i * WordsPerRow \in Nat
  <2>1. \A a, b, d \in Nat : a * (b * d) = b * (a * d) /\ a * b \in Nat
    OBVIOUS
  <2>2. i * (WORD * WordsPerRow) = WORD * (i * WordsPerRow) /\ i * WordsPerRow \in Nat
    BY <1>1, <1>2, <2>1
  <2> QED
    BY <1>1, <2>2
<1>9. e \div WORD = i * WordsPerRow + q /\ e % WORD = j % WORD
  <2> DEFINE z == i * WordsPerRow
  <2>1. (WORD * z + j) \div WORD = z + (j \div WORD) /\ (WORD * z + j) % WORD = j % WORD
    <3>1. z \in Nat
      BY <1>8
    <3> HIDE DEF z, j
    <3> QED
      BY <1>1, <1>3, <3>1, SumDivided
  <2> QED
    BY <1>5, <1>8, <2>1
<1>10. c % W = NIB * (j % WORD) + (c % NIB)
  <2>1. j % WORD = (c % W) \div NIB
    <3>1. (c \div NIB) % WORD = (c % (NIB * WORD)) \div NIB
      BY <1>1, <1>2, RemainderDivided
    <3> QED
      BY <1>1, <3>1
  <2>2. (c % W) % NIB = c % NIB
    <3>1. (c % (NIB * WORD)) % NIB = c % NIB
      BY <1>1, <1>2, RemainderTwice
    <3> QED
      BY <1>1, <3>1
  <2> DEFINE y == c % W
  <2>3. y = NIB * (y \div NIB) + (y % NIB)
    <3>1. y \in Nat
      BY <1>1, <1>6
    <3> HIDE DEF y
    <3> QED
      BY <1>1, <3>1, Division
  <2> QED
    BY <2>1, <2>2, <2>3
<1>11. j % WORD \in 0 .. WORD - 1
  BY <1>1, <1>3, Division
<1>12. j \in Index /\ q \in 0 .. WordsPerRow - 1
  <2>1. j \in Nat /\ q \in Nat
    BY <1>3, <1>6
  <2> HIDE DEF j, q
  <2> QED
    BY <1>1, <1>4, <1>7, <2>1 DEF Index
<1> QED
  BY <1>2, <1>3, <1>6, <1>9, <1>10, <1>11, <1>12

Bit(w, n) == (w \div 2^n) % 2

LEMMA BitOfElement ==
  ASSUME NEW w \in Nat, NEW x \in 0 .. WORD - 1, NEW y \in 0 .. NIB - 1
  PROVE  Bit((w \div 2^(NIB * x)) % 2^NIB, y) = Bit(w, NIB * x + y)
<1> DEFINE A == 2^(NIB * x)
           B == 2^y
           C == 2^(NIB - y - 1)
           D == 2 * C
           u == w \div A
<1>1. /\ NIB \in Nat \ {0} /\ WORD \in Nat \ {0} /\ W \in Nat \ {0} /\ W = NIB * WORD
  BY Sizes DEF W
<1>2. NIB * x \in Nat /\ NIB * x + NIB <= W
  <2>1. NIB * (x + 1) <= NIB * WORD /\ NIB * (x + 1) = NIB * x + NIB /\ NIB * x \in Nat
    BY <1>1
  <2> QED
    BY <1>1, <2>1
<1>3. /\ NIB * x \in 0 .. W /\ y \in 0 .. W /\ NIB - y - 1 \in 0 .. W /\ 1 \in 0 .. W /\ NIB - y \in 0 .. W
      /\ y + (NIB - y) = NIB /\ 1 + (NIB - y - 1) = NIB - y
  BY <1>1, <1>2
<1>4. /\ 2^(NIB * x + y) = A * B
      /\ 2^NIB = B * D
      /\ A \in Nat \ {0} /\ B \in Nat \ {0} /\ C \in Nat \ {0}
  <2>1. 2^(NIB * x + y) = A * B
    BY <1>3, Powers
  <2>2. 2^(NIB - y) = 2^1 * C
    BY <1>3, Powers
  <2>3. 2^NIB = B * 2^(NIB - y)
    BY <1>3, Powers
  <2>4. A \in Nat \ {0} /\ B \in Nat \ {0} /\ C \in Nat \ {0}
    BY <1>3, Powers
  <2> QED
    BY <2>1, <2>2, <2>3, <2>4, Powers
<1> HIDE DEF A, B, C
<1>5. D \in Nat \ {0} /\ u \in Nat
  <2>1. w \div A \in Nat
    BY <1>4, Division
  <2> QED
    BY <1>4, <2>1
<1> HIDE DEF u
<1>6. (u % (B * D)) \div B = (u \div B) % D
  BY <1>4, <1>5, RemainderDivided
<1>7. u \div B \in Nat
  BY <1>4, <1>5, Division
<1>8. ((u \div B) % (2 * C)) % 2 = (u \div B) % 2
  BY <1>4, <1>7, RemainderTwice
<1>9. u \div B = w \div (A * B)
  <2>1. (w \div A) \div B = w \div (A * B)
    BY <1>4, DividedTwice
  <2> QED
    BY <2>1 DEF u
<1> QED
  BY <1>4, <1>6, <1>8, <1>9 DEF Bit, u, A, B

(* Word m of draw a, and the first n of them in the rows.                  *)
WordOf(p, a, m) == xoshiro_out(At(p, a * WordsOfDraw + m))
WordsIn(row, p, a, n) ==
  \A i \in Index, c \in Col :
      LET m == i * WordsPerRow + (c \div W)
      IN  m < n => (c \in row[i] <=> Bit(WordOf(p, a, m), c % W) = 1)

LEMMA BitsOfDraw ==
  ASSUME NEW p \in Seeds, NEW a \in Nat, NEW i \in Index, NEW c \in Col
  PROVE  /\ RowBits(Draw(p, a)) \in RowsM
         /\ c \in RowBits(Draw(p, a))[i] <=> Bit(WordOf(p, a, i * WordsPerRow + (c \div W)), c % W) = 1
         /\ Draw(p, a)[i][c \div NIB] \in 0 .. 2^NIB - 1
<1> DEFINE j == c \div NIB
           e == i * N + j
           m == i * WordsPerRow + (c \div W)
           n == (a + 1) * WordsOfDraw
           w == xoshiro_out(States(p, n)[a * WordsOfDraw + (e \div WORD)])
<1>1. /\ i \in Nat /\ j \in Index /\ c \div W \in 0 .. WordsPerRow - 1
      /\ e \div WORD = m /\ c % W = NIB * (e % WORD) + (c % NIB)
      /\ e % WORD \in 0 .. WORD - 1 /\ c % NIB \in 0 .. NIB - 1
  BY Layout
<1>2. m \in Nat /\ m < WordsOfDraw
  <2>1. WordsPerRow \in Nat \ {0} /\ WordsOfDraw = N * WordsPerRow /\ N \in Nat
    BY Sizes, WordSizes
  <2>2. i < N
    BY Sizes DEF Index
  <2> DEFINE x == c \div W
  <2>3. x \in 0 .. WordsPerRow - 1
    BY <1>1
  <2> HIDE DEF x
  <2>4. i * WordsPerRow + x < N * WordsPerRow
    BY <1>1, <2>1, <2>2, <2>3, SameQuotient
  <2>5. i * WordsPerRow \in Nat
    BY <1>1, <2>1
  <2> QED
    BY <2>1, <2>3, <2>4, <2>5 DEF x
<1>3. w = WordOf(p, a, m) /\ w \in Nat
  <2>1. WordsOfDraw \in Nat \ {0}
    BY WordSizes
  <2>2. a * WordsOfDraw \in Nat /\ (a + 1) * WordsOfDraw = a * WordsOfDraw + WordsOfDraw
    BY <2>1
  <2> DEFINE k == a * WordsOfDraw + m
  <2>3. k \in Nat /\ n \in Nat /\ k <= n
    BY <1>2, <2>1, <2>2
  <2> HIDE DEF k, n
  <2>4. States(p, n)[k] = At(p, k)
    BY <2>3, StateOfNumber
  <2>5. xoshiro_out(At(p, k)) \in Nat
    BY <2>3, StatesAreSeeds, WiresAreXoshiro
  <2> QED
    BY <1>1, <2>4, <2>5 DEF WordOf, k
<1>4. Draw(p, a)[i][j] = (w \div 2^(NIB * (e % WORD))) % 2^NIB
  BY <1>1 DEF Draw
<1>8. Draw(p, a)[i][j] \in 0 .. 2^NIB - 1
  <2> DEFINE d == 2^(NIB * (e % WORD))
             b == 2^NIB
  <2>1. d \in Nat \ {0} /\ b \in Nat \ {0}
    <3> DEFINE y == e % WORD
    <3>1. y \in 0 .. WORD - 1 /\ NIB \in Nat \ {0} /\ WORD \in Nat \ {0}
      BY <1>1, Sizes
    <3> HIDE DEF y
    <3>2. NIB * y \in 0 .. NIB * WORD /\ NIB \in 0 .. NIB * WORD
      BY <3>1
    <3> QED
      BY <3>2, Powers DEF W, y
  <2> HIDE DEF d, b
  <2>2. (w \div d) % b \in 0 .. b - 1
    BY <1>3, <2>1
  <2> QED
    BY <1>4, <2>2 DEF d, b
<1> HIDE DEF w
<1>5. Bit(Draw(p, a)[i][j], c % NIB) = Bit(w, c % W)
  BY <1>1, <1>3, <1>4, BitOfElement
<1>6. RowBits(Draw(p, a)) \in RowsM
  BY DEF RowBits, RowsM
<1>7. c \in RowBits(Draw(p, a))[i] <=> Bit(Draw(p, a)[i][j], c % NIB) = 1
  BY DEF RowBits, Bit
<1> QED
  BY <1>3, <1>5, <1>6, <1>7, <1>8

LEMMA AllWordsIn ==
  ASSUME NEW row \in RowsM, NEW p \in Seeds, NEW a \in Nat, WordsIn(row, p, a, WordsOfDraw)
  PROVE  row = RowBits(Draw(p, a))
<1>1. ASSUME NEW i \in Index, NEW c \in Col PROVE c \in row[i] <=> c \in RowBits(Draw(p, a))[i]
  <2> DEFINE x == c \div W
  <2>1. WordsPerRow \in Nat \ {0} /\ WordsOfDraw = N * WordsPerRow /\ N \in Nat /\ i \in Nat /\ i < N
    BY Sizes, WordSizes DEF Index
  <2>2. x \in 0 .. WordsPerRow - 1
    BY Layout
  <2> HIDE DEF x
  <2>3. i * WordsPerRow + x < WordsOfDraw
    BY <2>1, <2>2, SameQuotient
  <2> QED
    BY <2>3, BitsOfDraw DEF WordsIn, x
<1>2. RowBits(Draw(p, a)) \in RowsM
  BY DEF RowBits, RowsM
<1>3. \A i \in Index : row[i] = RowBits(Draw(p, a))[i]
  BY <1>1, <1>2 DEF RowsM
<1> QED
  BY <1>2, <1>3 DEF RowsM

(* The word of a cycle goes where the draw has it.                         *)
LEMMA WordWritten ==
  ASSUME NEW row \in RowsM, NEW p \in Seeds, NEW a \in Nat, NEW n \in 0 .. LastWord, NEW word,
         word = WordOf(p, a, n), WordsIn(row, p, a, n)
  PROVE  WordsIn([row EXCEPT ![n \div WordsPerRow] =
                    {c \in @ : c \div W # n % WordsPerRow} \cup BitsOf(word, n % WordsPerRow)],
                 p, a, n + 1)
<1> DEFINE r == n \div WordsPerRow
           g == n % WordsPerRow
           kept(x) == {c \in x : c \div W # g}
           new == [row EXCEPT ![r] = kept(@) \cup BitsOf(word, g)]
<1>1. WordsPerRow \in Nat \ {0} /\ n \in Nat
  BY WordSizes
<1>2. n = r * WordsPerRow + g /\ g \in 0 .. WordsPerRow - 1 /\ r \in Nat
  <2>1. n = WordsPerRow * r + g /\ g \in 0 .. WordsPerRow - 1 /\ r \in Nat
    BY <1>1, Division
  <2> HIDE DEF r
  <2> QED
    BY <1>1, <2>1
<1>3. \A i \in Index : new[i] = IF i = r THEN kept(row[i]) \cup BitsOf(word, g) ELSE row[i]
  BY DEF RowsM
<1>4. \A c \in Col : c \in BitsOf(word, g) <=> c \div W = g /\ Bit(word, c % W) = 1
  BY DEF BitsOf, Bit
<1> HIDE DEF r, g, new
<1> SUFFICES ASSUME NEW i \in Index, NEW c \in Col, i * WordsPerRow + (c \div W) < n + 1
             PROVE  c \in new[i] <=> Bit(WordOf(p, a, i * WordsPerRow + (c \div W)), c % W) = 1
  BY DEF WordsIn, new, r, g
<1> DEFINE x == c \div W
           m == i * WordsPerRow + x
<1>5. x \in 0 .. WordsPerRow - 1 /\ i \in Nat
  BY Layout
<1>6. m = n <=> i = r /\ x = g
  <2> HIDE DEF x
  <2> QED
    BY <1>1, <1>2, <1>5, SameQuotient
<1>7. m \in Nat
  <2> HIDE DEF x
  <2> QED
    BY <1>1, <1>5
<1>8. CASE m = n
  <2>1. c \in new[i] <=> c \in BitsOf(word, g)
    BY <1>3, <1>6, <1>8
  <2> QED
    BY <1>4, <1>6, <1>8, <2>1
<1>9. CASE m # n
  <2>1. m < n
    BY <1>1, <1>7, <1>9
  <2>2. c \in row[i] <=> Bit(WordOf(p, a, m), c % W) = 1
    BY <2>1 DEF WordsIn
  <2>3. c \in new[i] <=> c \in row[i]
    BY <1>3, <1>4, <1>6, <1>9
  <2> QED
    BY <2>2, <2>3
<1> QED
  BY <1>8, <1>9

-----------------------------------------------------------------------------
(* Which draw the cache holds.                                             *)

Earlier(p, a) == \A b \in 0 .. a - 1 : ~RowsIndependent(RowBits(Draw(p, b)))

(* Draw a has begun: its first words are in the rows, the generator is at  *)
(* the next one.                                                           *)
Drawing(p, a) ==
  /\ Earlier(p, a)
  /\ gen.s = At(p, a * WordsOfDraw + gen.n16th_value)
  /\ WordsIn(cache.row, p, a, gen.n16th_value)
  /\ a > 0 \/ gen.n16th_value > 0 => cache.PrePowHash = p

Drawn(p, a) ==
  /\ Earlier(p, a)
  /\ gen.s = At(p, (a + 1) * WordsOfDraw) /\ gen.n16th_value = 0
  /\ cache.row = RowBits(Draw(p, a)) /\ cache.PrePowHash = p

(* The first draw that is independent, or would be among the reference's.  *)
Kept(p) ==
  /\ RowsIndependent(cache.row) /\ cache.PrePowHash = p
  /\ \E a \in Nat : Earlier(p, a) /\ cache.row = RowBits(Draw(p, a))

DrawInv ==
  /\ gen.state = "GENERATE_MATRIX" => \E a \in Nat : Drawing(ctl.blk_pph, a)
  /\ gen.state = "RANK_CHECK" => \E a \in Nat : Drawn(ctl.blk_pph, a)
  /\ gen.state = "DONE" => Kept(ctl.blk_pph)
  /\ gen.state = "IDLE" /\ gen.done /\ ~ctl.matrix_gen_start => Kept(ctl.blk_pph)

(* The control, the generator and the table load, each at its turn.        *)
LoadType == ld \in [state : {"LD_IDLE", "LD_RUN"}, col : {ld.col}, k : {ld.k}, run : {ld.run}]

TurnInv ==
  /\ ctl.matrix_gen_start => ctl.state = "GEN" /\ gen.state = "IDLE" /\ ~ctl.gen_ack
  /\ ctl.state = "GEN" /\ ~ctl.matrix_gen_start => (gen.done <=> gen.state = "IDLE")
  /\ ctl.state # "GEN" => gen.state = "IDLE" /\ gen.done
  /\ busy => ctl.state = "LOAD"
  /\ ctl.mm_reload => ctl.state = "LOAD" /\ ~busy /\ ~ctl.load_seen
  /\ ctl.state = "LOAD" /\ ctl.load_seen /\ ~busy => loaded = ctl.blk_pph
  /\ ctl.state = "STREAM" => loaded = ctl.blk_pph

(* The generator's next state, field by field.                             *)
LEMMA GeneratorStep ==
  ASSUME GenType, NEW start \in BOOLEAN, NEW pph, Generator(start, pph)
  PROVE  /\ gen.state = "IDLE" =>
              /\ gen'.state = IF start THEN "GENERATE_MATRIX" ELSE "IDLE"
              /\ gen'.n16th_value = IF start THEN 0 ELSE gen.n16th_value
              /\ gen'.s = IF start THEN pph ELSE gen.s
              /\ gen'.done = IF start THEN FALSE ELSE gen.done
         /\ gen.state = "GENERATE_MATRIX" =>
              /\ gen'.state = IF gen.n16th_value = LastWord THEN "RANK_CHECK" ELSE "GENERATE_MATRIX"
              /\ gen'.n16th_value = IF gen.n16th_value = LastWord THEN 0 ELSE gen.n16th_value + 1
              /\ gen'.s = new_s(gen.s)
              /\ gen'.done = IF start THEN FALSE ELSE gen.done
         /\ gen.state = "RANK_CHECK" =>
              /\ gen'.state = IF ~chk.done THEN "RANK_CHECK"
                              ELSE IF chk.full_rank THEN "DONE" ELSE "GENERATE_MATRIX"
              /\ gen'.n16th_value = gen.n16th_value /\ gen'.s = gen.s
              /\ gen'.done = IF start THEN FALSE ELSE gen.done
         /\ gen.state = "DONE" =>
              /\ gen'.state = "IDLE" /\ gen'.n16th_value = gen.n16th_value /\ gen'.s = gen.s
              /\ gen'.done = ~start
<1>1. CASE gen.state = "IDLE"
  BY <1>1 DEF GenType, Generator, GenIdle
<1>2. CASE gen.state = "GENERATE_MATRIX"
  BY <1>2 DEF GenType, Generator, GenMatrix
<1>3. CASE gen.state = "RANK_CHECK"
  BY <1>3 DEF GenType, Generator, GenRankCheck
<1>4. CASE gen.state = "DONE"
  BY <1>4 DEF GenType, Generator, GenDone
<1> QED
  BY <1>1, <1>2, <1>3, <1>4 DEF GenType

LEMMA CacheStep ==
  ASSUME GenType, NEW pph, Cache(pph)
  PROVE  /\ gen.state = "GENERATE_MATRIX" =>
              /\ cache'.row = [cache.row EXCEPT ![gen.n16th_value \div WordsPerRow] =
                    {c \in @ : c \div W # gen.n16th_value % WordsPerRow}
                    \cup BitsOf(prng_out(gen.s), gen.n16th_value % WordsPerRow)]
              /\ cache'.PrePowHash = IF gen.n16th_value = 0 THEN pph ELSE cache.PrePowHash
         /\ gen.state # "GENERATE_MATRIX" =>
              cache'.row = cache.row /\ cache'.PrePowHash = cache.PrePowHash
BY DEF GenType, Cache

LEMMA FirstWord ==
  ASSUME NEW row, NEW p \in Seeds, NEW a \in Nat
  PROVE  WordsIn(row, p, a, 0)
<1>1. ASSUME NEW i \in Index, NEW c \in Col PROVE ~(i * WordsPerRow + (c \div W) < 0)
  <2> DEFINE x == c \div W
  <2>1. x \in Nat /\ i \in Nat /\ WordsPerRow \in Nat
    <3>1. x \in 0 .. WordsPerRow - 1 /\ i \in Nat
      BY Layout
    <3> HIDE DEF x
    <3> QED
      BY <3>1, WordSizes
  <2> HIDE DEF x
  <2>2. i * WordsPerRow \in Nat
    BY <2>1
  <2> QED
    BY <2>1, <2>2 DEF x
<1> QED
  BY <1>1 DEF WordsIn

(* One step of a draw: its next word, or its last.                         *)
LEMMA DrawGoesOn ==
  ASSUME GenType, GenType', ctl.blk_pph \in Seeds, NEW start \in BOOLEAN,
         Generator(start, ctl.blk_pph), Cache(ctl.blk_pph), gen.state = "GENERATE_MATRIX",
         NEW a \in Nat, Drawing(ctl.blk_pph, a)
  PROVE  IF gen.n16th_value = LastWord
         THEN /\ Earlier(ctl.blk_pph, a)
              /\ gen'.s = At(ctl.blk_pph, (a + 1) * WordsOfDraw) /\ gen'.n16th_value = 0
              /\ cache'.row = RowBits(Draw(ctl.blk_pph, a)) /\ cache'.PrePowHash = ctl.blk_pph
         ELSE /\ Earlier(ctl.blk_pph, a)
              /\ gen'.s = At(ctl.blk_pph, a * WordsOfDraw + gen'.n16th_value)
              /\ WordsIn(cache'.row, ctl.blk_pph, a, gen'.n16th_value)
              /\ cache'.PrePowHash = ctl.blk_pph
<1> DEFINE p == ctl.blk_pph
           n == gen.n16th_value
           k == a * WordsOfDraw + n
<1>1. n \in 0 .. LastWord /\ cache.row \in RowsM /\ cache'.row \in RowsM
  BY DEF GenType
<1>2. WordsOfDraw \in Nat \ {0} /\ LastWord = WordsOfDraw - 1
  BY WordSizes DEF LastWord
<1>3. a * WordsOfDraw \in Nat /\ k \in Nat /\ n \in Nat
      /\ (a + 1) * WordsOfDraw = a * WordsOfDraw + WordsOfDraw
  BY <1>1, <1>2
<1>4. gen.s = At(p, k) /\ At(p, k) \in Seeds
  BY <1>3, StatesAreSeeds DEF Drawing
<1>5. gen'.s = At(p, k + 1)
  <2>1. gen'.s = xoshiro_next(gen.s)
    BY <1>4, GeneratorStep, WiresAreXoshiro
  <2> HIDE DEF k
  <2> QED
    BY <1>3, <1>4, <2>1, StateOfNumber
<1>6. prng_out(gen.s) = WordOf(p, a, n)
  BY <1>4, WiresAreXoshiro DEF WordOf
<1>7. WordsIn(cache'.row, p, a, n + 1)
  <2>1. WordsIn(cache.row, p, a, n)
    BY DEF Drawing
  <2>2. cache'.row = [cache.row EXCEPT ![n \div WordsPerRow] =
                        {c \in @ : c \div W # n % WordsPerRow}
                        \cup BitsOf(prng_out(gen.s), n % WordsPerRow)]
    BY CacheStep
  <2> QED
    BY <1>1, <1>6, <2>1, <2>2, WordWritten
<1>8. cache'.PrePowHash = p
  <2>1. n # 0 => cache.PrePowHash = p
    BY <1>3 DEF Drawing
  <2> QED
    BY <2>1, CacheStep
<1>9. Earlier(p, a)
  BY DEF Drawing
<1>10. CASE n = LastWord
  <2>1. gen'.n16th_value = 0
    BY <1>10, GeneratorStep
  <2>2. n + 1 = WordsOfDraw /\ k + 1 = (a + 1) * WordsOfDraw
    BY <1>2, <1>3, <1>10
  <2>3. cache'.row = RowBits(Draw(p, a))
    BY <1>1, <1>7, <2>2, AllWordsIn
  <2> QED
    BY <1>5, <1>8, <1>9, <1>10, <2>1, <2>2, <2>3
<1>11. CASE n # LastWord
  <2>1. gen'.n16th_value = n + 1
    BY <1>11, GeneratorStep
  <2>2. k + 1 = a * WordsOfDraw + (n + 1)
    BY <1>3
  <2> QED
    BY <1>5, <1>7, <1>8, <1>9, <1>11, <2>1, <2>2
<1> QED
  BY <1>10, <1>11

(* The control's fields after a step.                                      *)
LEMMA ControlStep ==
  ASSUME CtlType, Control
  PROVE  LET turn == ctl.state = "GEN" /\ ctl.gen_ack /\ gen.done
         IN  /\ ctl'.blk_pph = ctl.blk_pph /\ ~ctl'.matrix_gen_start /\ ctl'.mm_reload = turn
             /\ ctl'.gen_ack = (ctl.gen_ack \/ (ctl.state = "GEN" /\ ~gen.done))
             /\ ctl'.load_seen = (~turn /\ (ctl.load_seen \/ (ctl.state = "LOAD" /\ busy)))
             /\ ctl'.state = IF turn THEN "LOAD"
                             ELSE IF ctl.state = "LOAD" /\ ctl.load_seen /\ ~busy THEN "STREAM"
                             ELSE ctl.state
BY DEF CtlType, Control

LEMMA LoadStep ==
  ASSUME LoadType, NEW matrix, NEW reload \in BOOLEAN, TableLoad(matrix, reload)
  PROVE  /\ LoadType'
         /\ ~busy => (busy' <=> reload)
<1>1. CASE ~busy
  BY <1>1 DEF LoadType, TableLoad, busy
<1>2. CASE busy
  <2>1. CASE ld.k # 2^NIB - 1
    BY <1>2, <2>1 DEF LoadType, TableLoad, busy
  <2>2. CASE ld.k = 2^NIB - 1
    BY <1>2, <2>2 DEF LoadType, TableLoad, busy
  <2> QED
    BY <2>1, <2>2
<1> QED
  BY <1>1, <1>2

KeptInv == VerdictInv /\ LoadType /\ TurnInv /\ DrawInv

LEMMA KeptInvInit == Init => KeptInv
<1> SUFFICES ASSUME Init PROVE KeptInv
  OBVIOUS
<1>1. VerdictInv
  BY VerdictInvInit
<1>2. LoadType /\ ~busy
  BY DEF Init, MatmulInit, LoadType, busy
<1>3. /\ gen.state = "IDLE" /\ ctl.matrix_gen_start /\ ctl.state = "GEN" /\ ~ctl.gen_ack
      /\ ~ctl.mm_reload
  BY DEF Init, GenInit
<1> QED
  BY <1>1, <1>2, <1>3 DEF KeptInv, TurnInv, DrawInv

LEMMA TurnInvStep ==
  ASSUME KeptInv, NEW pph \in Pphs \cup {None}, NEW nonce, Clock(pph, nonce)
  PROVE  TurnInv' /\ LoadType'
<1>1. CtlType /\ GenType /\ LoadType /\ TurnInv /\ CtlType'
  BY CtlTypeStep DEF KeptInv, VerdictInv, Clock
<1>2. LoadType' /\ (~busy => (busy' <=> ctl.mm_reload))
  <2>1. TableLoad(matrix_flat, ctl.mm_reload) /\ ctl.mm_reload \in BOOLEAN
    BY <1>1 DEF Clock, Feed, MatmulClock, CtlType
  <2> QED
    BY <1>1, <2>1, LoadStep
<1>3. loaded' = IF busy /\ ~busy' THEN ctl.blk_pph ELSE loaded
  BY <1>2 DEF Clock, Loaded, LoadType, busy
<1>4. Generator(ctl.matrix_gen_start, ctl.blk_pph) /\ ctl.matrix_gen_start \in BOOLEAN
  BY <1>1 DEF Clock, GenClock, CtlType
<1>5. /\ ctl.matrix_gen_start => gen'.state # "IDLE" /\ ~gen'.done
      /\ ~ctl.matrix_gen_start /\ gen.state = "IDLE" => gen'.state = "IDLE" /\ gen'.done = gen.done
      /\ ~ctl.matrix_gen_start /\ gen.state # "IDLE" /\ ~gen.done => (gen'.done <=> gen'.state = "IDLE")
  <2>1. ctl.matrix_gen_start => gen.state = "IDLE"
    BY <1>1 DEF TurnInv
  <2>2. gen.done \in BOOLEAN /\ gen.state \in {"IDLE", "GENERATE_MATRIX", "RANK_CHECK", "DONE"}
    BY <1>1 DEF GenType
  <2>3. CASE gen.state = "IDLE"
    BY <1>1, <1>4, <2>3, GeneratorStep
  <2>4. CASE gen.state = "GENERATE_MATRIX"
    BY <1>1, <1>4, <2>1, <2>4, GeneratorStep
  <2>5. CASE gen.state = "RANK_CHECK"
    BY <1>1, <1>4, <2>1, <2>5, GeneratorStep
  <2>6. CASE gen.state = "DONE"
    BY <1>1, <1>4, <2>1, <2>6, GeneratorStep
  <2> QED
    BY <2>2, <2>3, <2>4, <2>5, <2>6
<1>6. CASE pph = None
  <2> DEFINE turn == ctl.state = "GEN" /\ ctl.gen_ack /\ gen.done
  <2>1. /\ ctl'.blk_pph = ctl.blk_pph /\ ~ctl'.matrix_gen_start /\ ctl'.mm_reload = turn
        /\ ctl'.load_seen = (~turn /\ (ctl.load_seen \/ (ctl.state = "LOAD" /\ busy)))
        /\ ctl'.state = IF turn THEN "LOAD"
                        ELSE IF ctl.state = "LOAD" /\ ctl.load_seen /\ ~busy THEN "STREAM"
                        ELSE ctl.state
    BY <1>1, <1>6, ControlStep DEF Clock
  <2>2. ctl.state \in {"GEN", "LOAD", "STREAM"}
    BY <1>1 DEF CtlType
  <2>3. CASE turn
    <3>1. ~ctl.matrix_gen_start /\ gen.state = "IDLE" /\ ~busy /\ ~ctl.mm_reload
      BY <1>1, <2>3 DEF TurnInv
    <3>2. gen'.state = "IDLE" /\ gen'.done /\ ~busy'
      BY <1>2, <1>5, <2>3, <3>1
    <3>3. ctl'.state = "LOAD" /\ ~ctl'.load_seen /\ ~ctl'.matrix_gen_start
      BY <2>1, <2>3
    <3> QED
      BY <1>2, <3>2, <3>3 DEF TurnInv
  <2>4. CASE ctl.state = "GEN" /\ ~turn
    <3>1. ctl'.state = "GEN" /\ ~ctl'.matrix_gen_start /\ ~ctl'.mm_reload
      BY <2>1, <2>4
    <3>2. ~busy'
      BY <1>1, <1>2, <2>4 DEF TurnInv
    <3>3. gen'.done <=> gen'.state = "IDLE"
      BY <1>1, <1>5, <2>4 DEF TurnInv
    <3> QED
      BY <1>2, <3>1, <3>2, <3>3 DEF TurnInv
  <2>5. CASE ctl.state # "GEN"
    <3>1. ~turn /\ ~ctl.matrix_gen_start /\ gen.state = "IDLE" /\ gen.done
      BY <1>1, <2>5 DEF TurnInv
    <3>2. gen'.state = "IDLE" /\ gen'.done
      BY <1>5, <3>1
    <3>3. ~ctl'.matrix_gen_start /\ ~ctl'.mm_reload /\ ctl'.state # "GEN"
      BY <2>1, <2>2, <2>5, <3>1
    <3>4. CASE ctl.state = "STREAM"
      <4>1. ~busy' /\ ctl'.state = "STREAM" /\ loaded' = ctl'.blk_pph
        BY <1>1, <1>2, <1>3, <2>1, <3>1, <3>4 DEF TurnInv
      <4> QED
        BY <1>2, <3>2, <3>3, <4>1 DEF TurnInv
    <3>5. CASE ctl.state = "LOAD" /\ busy
      <4>1. ctl'.state = "LOAD" /\ (~busy' => loaded' = ctl'.blk_pph)
        BY <1>3, <2>1, <3>1, <3>5
      <4> QED
        BY <1>2, <3>2, <3>3, <4>1 DEF TurnInv
    <3>6. CASE ctl.state = "LOAD" /\ ~busy
      <4>1. loaded' = loaded /\ ctl'.load_seen = ctl.load_seen
        BY <1>3, <1>1, <2>1, <3>1, <3>6 DEF CtlType
      <4>2. ctl.load_seen => loaded = ctl.blk_pph /\ ~busy'
        BY <1>1, <1>2, <3>6 DEF TurnInv
      <4>3. ctl'.state = IF ctl.load_seen THEN "STREAM" ELSE "LOAD"
        BY <2>1, <3>1, <3>6
      <4> QED
        BY <1>2, <2>1, <3>2, <3>3, <4>1, <4>2, <4>3 DEF TurnInv
    <3> QED
      BY <2>2, <2>5, <3>4, <3>5, <3>6
  <2> QED
    BY <2>3, <2>4, <2>5
<1>7. CASE pph # None
  <2>1. Start(pph)
    BY <1>7 DEF Clock
  <2>2. /\ ctl.state = "STREAM" /\ ctl'.blk_pph = pph /\ ~ctl'.gen_ack /\ ~ctl'.mm_reload
        /\ ctl'.matrix_gen_start = (pph # loaded)
        /\ ctl'.state = IF pph # loaded THEN "GEN" ELSE "STREAM"
    BY <1>1, <2>1 DEF Start, CtlType
  <2>3. ~busy /\ ~ctl.mm_reload /\ ~ctl.matrix_gen_start /\ gen.state = "IDLE" /\ gen.done
    BY <1>1, <2>2 DEF TurnInv
  <2>4. ~busy' /\ loaded' = loaded /\ gen'.state = "IDLE" /\ gen'.done
    BY <1>2, <1>3, <1>5, <2>3
  <2> QED
    BY <1>2, <2>2, <2>4 DEF TurnInv
<1> QED
  BY <1>6, <1>7

LEMMA DrawInvStep ==
  ASSUME KeptInv, NEW pph \in Pphs \cup {None}, NEW nonce, Clock(pph, nonce)
  PROVE  DrawInv'
<1> DEFINE p == ctl.blk_pph
           start == ctl.matrix_gen_start
<1>1. /\ CtlType /\ GenType /\ RankInv /\ TurnInv /\ DrawInv /\ GenType' /\ TurnInv'
      /\ start \in BOOLEAN /\ p \in Seeds
  <2>1. VerdictInv'
    BY VerdictInvStep DEF KeptInv
  <2>2. ctl.blk_pph \in Seeds
    BY SeedsAreWords DEF KeptInv, VerdictInv, CtlType, Seeds
  <2> QED
    BY <2>1, <2>2, TurnInvStep DEF KeptInv, VerdictInv, CtlType
<1>2. Generator(start, p) /\ Cache(p)
  BY DEF Clock, GenClock
<1>3. ctl'.blk_pph = p \/ (gen.state = "IDLE" /\ ctl.state = "STREAM" /\ ~start)
  <2>1. CASE pph = None
    BY <1>1, <2>1, ControlStep DEF Clock
  <2>2. CASE pph # None
    BY <1>1, <2>2 DEF Clock, Start, TurnInv
  <2> QED
    BY <2>1, <2>2
<1>4. CASE gen.state = "IDLE"
  <2>1. cache'.row = cache.row /\ cache'.PrePowHash = cache.PrePowHash
    BY <1>1, <1>2, <1>4, CacheStep
  <2>2. CASE start
    <3>1. /\ gen'.state = "GENERATE_MATRIX" /\ gen'.n16th_value = 0 /\ gen'.s = p
          /\ ctl'.blk_pph = p
      BY <1>1, <1>2, <1>3, <1>4, <2>2, GeneratorStep
    <3>2. gen'.s = At(p, 0 * WordsOfDraw + 0)
      <4>1. 0 * WordsOfDraw + 0 = 0
        BY WordSizes
      <4> QED
        BY <3>1, <4>1, StateOfNumber
    <3>3. Earlier(p, 0) /\ WordsIn(cache'.row, p, 0, 0)
      BY <1>1, FirstWord DEF Earlier
    <3>4. Drawing(p, 0)'
      <4>1. /\ Earlier(p, 0)
            /\ gen'.s = At(p, 0 * WordsOfDraw + gen'.n16th_value)
            /\ WordsIn(cache'.row, p, 0, gen'.n16th_value)
            /\ ~(0 > 0 \/ gen'.n16th_value > 0)
        BY <3>1, <3>2, <3>3
      <4> QED
        BY <3>1, <4>1 DEF Drawing, Earlier, At, WordsIn, WordOf
    <3> QED
      BY <3>1, <3>4 DEF DrawInv
  <2>3. CASE ~start
    <3>1. gen'.state = "IDLE" /\ gen'.done = gen.done
      BY <1>1, <1>2, <1>4, <2>3, GeneratorStep
    <3>2. ASSUME gen.done, ~ctl'.matrix_gen_start PROVE Kept(ctl.blk_pph) /\ ctl'.blk_pph = p
      <4>1. Kept(ctl.blk_pph)
        BY <1>1, <1>4, <2>3, <3>2 DEF DrawInv
      <4>2. CASE pph = None
        BY <1>1, <4>1, <4>2, ControlStep DEF Clock
      <4>3. CASE pph # None
        <5>1. ctl.state = "STREAM" /\ ctl'.blk_pph = pph /\ ctl'.matrix_gen_start = (pph # loaded)
          BY <1>1, <4>3 DEF Clock, Start, CtlType
        <5>2. loaded = p
          BY <1>1, <5>1 DEF TurnInv
        <5> QED
          BY <3>2, <4>1, <5>1, <5>2
      <4> QED
        BY <4>2, <4>3
    <3>3. gen'.done /\ ~ctl'.matrix_gen_start => Kept(ctl.blk_pph)'
      BY <1>1, <2>1, <3>1, <3>2 DEF Kept, GenType
    <3> QED
      BY <3>1, <3>3 DEF DrawInv
  <2> QED
    BY <2>2, <2>3
<1>5. CASE gen.state = "GENERATE_MATRIX"
  <2>1. PICK a \in Nat : Drawing(p, a)
    BY <1>1, <1>5 DEF DrawInv
  <2>2. ctl'.blk_pph = p
    BY <1>3, <1>5
  <2>3. CASE gen.n16th_value = LastWord
    <3>1. gen'.state = "RANK_CHECK"
      BY <1>1, <1>2, <1>5, <2>3, GeneratorStep
    <3>2. /\ Earlier(p, a)
          /\ gen'.s = At(p, (a + 1) * WordsOfDraw) /\ gen'.n16th_value = 0
          /\ cache'.row = RowBits(Draw(p, a)) /\ cache'.PrePowHash = p
      BY <1>1, <1>2, <1>5, <2>1, <2>3, DrawGoesOn
    <3>3. \E b \in Nat : Drawn(ctl.blk_pph, b)'
      BY <2>2, <3>2 DEF Drawn
    <3> QED
      BY <3>1, <3>3 DEF DrawInv
  <2>4. CASE gen.n16th_value # LastWord
    <3>1. gen'.state = "GENERATE_MATRIX"
      BY <1>1, <1>2, <1>5, <2>4, GeneratorStep
    <3>2. /\ Earlier(p, a)
          /\ gen'.s = At(p, a * WordsOfDraw + gen'.n16th_value)
          /\ WordsIn(cache'.row, p, a, gen'.n16th_value)
          /\ cache'.PrePowHash = p
      BY <1>1, <1>2, <1>5, <2>1, <2>4, DrawGoesOn
    <3>3. \E b \in Nat : Drawing(ctl.blk_pph, b)'
      BY <2>2, <3>2 DEF Drawing
    <3> QED
      BY <3>1, <3>3 DEF DrawInv
  <2> QED
    BY <2>3, <2>4
<1>6. CASE gen.state = "RANK_CHECK"
  <2>1. PICK a \in Nat : Drawn(p, a)
    BY <1>1, <1>6 DEF DrawInv
  <2>2. /\ ctl'.blk_pph = p /\ cache'.row = cache.row /\ cache'.PrePowHash = cache.PrePowHash
        /\ gen'.s = gen.s /\ gen'.n16th_value = gen.n16th_value
        /\ gen'.state = IF ~chk.done THEN "RANK_CHECK"
                        ELSE IF chk.full_rank THEN "DONE" ELSE "GENERATE_MATRIX"
    BY <1>1, <1>2, <1>3, <1>6, CacheStep, GeneratorStep
  <2>3. CASE ~chk.done
    <3>1. \E b \in Nat : Drawn(ctl.blk_pph, b)'
      BY <2>1, <2>2 DEF Drawn
    <3> QED
      BY <2>2, <2>3, <3>1 DEF DrawInv
  <2>4. CASE chk.done /\ chk.full_rank
    <3>1. RowsIndependent(cache.row)
      BY <1>1, <1>6, <2>4 DEF RankInv, Loading, Flushing, Eliminating, Decided
    <3>2. Kept(ctl.blk_pph)'
      BY <2>1, <2>2, <3>1 DEF Kept, Drawn
    <3> QED
      BY <2>2, <2>4, <3>2 DEF DrawInv
  <2>5. CASE chk.done /\ ~chk.full_rank
    <3>1. ~RowsIndependent(cache.row)
      BY <1>1, <1>6, <2>5 DEF RankInv, Loading, Flushing, Eliminating, Decided
    <3>2. Earlier(p, a + 1)
      <4>1. \A b \in 0 .. (a + 1) - 1 : b \in 0 .. a - 1 \/ b = a
        OBVIOUS
      <4> QED
        BY <2>1, <3>1, <4>1 DEF Drawn, Earlier
    <3>3. WordsIn(cache'.row, p, a + 1, 0)
      BY <1>1, FirstWord
    <3>4. gen'.s = At(p, (a + 1) * WordsOfDraw + 0) /\ gen'.n16th_value = 0 /\ cache'.PrePowHash = p
      <4>1. (a + 1) * WordsOfDraw + 0 = (a + 1) * WordsOfDraw
        BY WordSizes
      <4> QED
        BY <2>1, <2>2, <4>1 DEF Drawn
    <3>5. a + 1 \in Nat
      OBVIOUS
    <3>6. \E b \in Nat : Drawing(ctl.blk_pph, b)'
      BY <2>2, <3>2, <3>3, <3>4, <3>5 DEF Drawing
    <3> QED
      BY <2>2, <2>5, <3>6 DEF DrawInv
  <2> QED
    BY <2>3, <2>4, <2>5
<1>7. CASE gen.state = "DONE"
  <2>1. /\ ctl'.blk_pph = p /\ cache'.row = cache.row /\ cache'.PrePowHash = cache.PrePowHash
        /\ gen'.state = "IDLE"
    BY <1>1, <1>2, <1>3, <1>7, CacheStep, GeneratorStep
  <2>2. Kept(ctl.blk_pph)'
    BY <1>1, <1>7, <2>1 DEF DrawInv, Kept
  <2> QED
    BY <2>1, <2>2 DEF DrawInv
<1> QED
  BY <1>1, <1>4, <1>5, <1>6, <1>7 DEF GenType

LEMMA KeptInvStep ==
  ASSUME KeptInv, NEW pph \in Pphs \cup {None}, NEW nonce, Clock(pph, nonce)
  PROVE  KeptInv'
BY VerdictInvStep, TurnInvStep, DrawInvStep DEF KeptInv

LEMMA KeptInvNext == KeptInv /\ [Next]_vars => KeptInv'
<1> SUFFICES ASSUME KeptInv, [Next]_vars PROVE KeptInv'
  OBVIOUS
<1>1. CASE Next
  BY <1>1, KeptInvStep DEF Next
<1>2. CASE UNCHANGED vars
  <2>1. VerdictInv'
    BY VerdictInvNext DEF KeptInv
  <2>2. /\ gen' = gen /\ cache' = cache /\ ctl' = ctl /\ ld' = ld /\ loaded' = loaded
    BY <1>2 DEF vars, genVars, mmVars
  <2>3. LoadType' /\ TurnInv'
    BY <2>2 DEF KeptInv, LoadType, TurnInv, busy
  <2>4. DrawInv'
    BY <2>2 DEF KeptInv, DrawInv, Kept, Drawing, Drawn
  <2> QED
    BY <2>1, <2>3, <2>4 DEF KeptInv
<1> QED
  BY <1>1, <1>2

(* What is kept is the first of the block's draws with independent rows.   *)
LEMMA KeptIsFirst ==
  ASSUME NEW p \in Pphs, Kept(p)
  PROVE  cache.row = RowBits(FirstIndependent[p])
<1>1. PICK a \in Nat : Earlier(p, a) /\ cache.row = RowBits(Draw(p, a))
  BY DEF Kept
<1>2. RowsIndependent(RowBits(Draw(p, a)))
  BY <1>1 DEF Kept
<1>3. PICK b \in 0 .. ATTEMPTS - 1 : RowsIndependent(RowBits(Draw(p, b)))
  BY EveryBlockHasAMatrix
<1>4. ATTEMPTS \in Nat
  BY KHeavyhashConstants
<1>5. a <= b
  BY <1>1, <1>3, <1>4 DEF Earlier
<1> DEFINE draws == DrawsOf[p]
           good == {n \in DOMAIN draws : RowsIndependent(RowBits(draws[n]))}
<1>6. /\ DOMAIN draws = 0 .. ATTEMPTS - 1
      /\ \A n \in 0 .. ATTEMPTS - 1 : draws[n] = Draw(p, n)
  BY DEF DrawsOf, Draws
<1>7. a \in good
  BY <1>2, <1>4, <1>5, <1>6
<1>8. \A n \in good : a <= n
  BY <1>1, <1>4, <1>6 DEF Earlier
<1>9. Min(good) = a
  <2>1. good \in SUBSET Nat /\ good # {}
    BY <1>4, <1>6, <1>7
  <2> HIDE DEF good
  <2>2. Min(good) \in good /\ Min(good) <= a
    BY <1>7, <2>1, MinIsLeast
  <2>3. a <= Min(good) /\ Min(good) \in Nat /\ a \in Nat
    BY <1>8, <2>1, <2>2
  <2> QED
    BY <2>2, <2>3
<1>10. FirstIndependent[p] = IF good = {} THEN NoMatrix ELSE draws[Min(good)]
  BY DEF FirstIndependent, FirstDraw
<1> QED
  BY <1>1, <1>6, <1>7, <1>9, <1>10

(* When the generator says done the cache holds the first of the block's   *)
(* draws with independent rows, every word of it where the reference has   *)
(* it, under the block's hash, and it stays there (KeepsFirstFullRank).    *)
THEOREM KeepsFirst == Spec => []KeepsFirstFullRank
<1>1. KeptInv => KeepsFirstFullRank
  <2> SUFFICES ASSUME KeptInv, gen.state = "IDLE", gen.done, ~ctl.matrix_gen_start
               PROVE  /\ cache.PrePowHash = ctl.blk_pph
                      /\ cache.row = RowBits(FirstIndependent[ctl.blk_pph])
    BY DEF KeepsFirstFullRank
  <2>1. Kept(ctl.blk_pph) /\ ctl.blk_pph \in Pphs
    BY DEF KeptInv, DrawInv, VerdictInv, CtlType
  <2> QED
    BY <2>1, KeptIsFirst DEF Kept
<1> QED
  BY <1>1, KeptInvInit, KeptInvNext, PTL DEF Spec
=============================================================================
