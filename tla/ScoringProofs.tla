--------------------------- MODULE ScoringProofs ---------------------------
(***************************************************************************)
(* Proofs about Scoring, for any vectors of integers, any rounding, any    *)
(* number of records, ceilings, floors and bands: a distance leaves the    *)
(* range [0, 2] by its rounding only, and a selection holds the documents  *)
(* it should.                                                              *)
(***************************************************************************)
EXTENDS Scoring, FiniteSetTheorems, TLAPS

Docs == DOMAIN records

Far(i) == Distance[query][records[i]]

\* The documents nearer than i, of as near ones those loaded before it.
Nearer(i) == { j \in Docs : Far(j) < Far(i) \/ (Far(j) = Far(i) /\ j < i) }

Rank(i) == Cardinality(Nearer(i))

Scores == [i \in Docs |-> [doc |-> i, score |-> Far(i)]]

\* What the locals are of: the records, and the integers of the caller.
Inputs ==
  /\ records \in Seq(Vectors) /\ query \in Queries
  /\ max \in Nat /\ floor \in Nat /\ band \in Nat

\* Entry p is the document with p - 1 nearer ones.
InOrder(entries) ==
  \A p \in 1..Len(entries) :
    /\ entries[p] \in [doc : Docs, score : Distances]
    /\ Rank(entries[p].doc) = p - 1
    /\ entries[p].score = Far(entries[p].doc)

\* As many are left as the ceiling allows.
Truncated(n) == n \in Nat /\ n <= max /\ n <= Len(records) /\ (n = max \/ n = Len(records))

\* The documents taken are the first ones, and none was outside the band.
Taken ==
  /\ out \in Seq(Docs) /\ Len(out) <= Len(scored)
  /\ \A p \in 1..Len(out) : out[p] = scored[p].doc /\ Admits(p)

IInv ==
  /\ Inputs
  /\ at \in {"score", "sort", "select", "done"}
  /\ at \in {"score", "sort"} => out = <<>>
  /\ at = "score" => scored = <<>>
  /\ at = "sort" => scored = Scores
  /\ at \in {"select", "done"} =>
       /\ scored \in Seq([doc : Docs, score : Distances]) /\ Truncated(Len(scored))
       /\ InOrder(scored) /\ Taken
  /\ at = "done" /\ Len(out) < Len(scored) => ~Admits(Len(out) + 1)

-----------------------------------------------------------------------------
(* Natural numbers and sums.                                               *)

\* Induction over Nat, for a set.
LEMMA NatSetInduction ==
  ASSUME NEW T \in SUBSET Nat, 0 \in T, \A n \in T : n + 1 \in T
  PROVE  T = Nat
<1>1. SUFFICES ASSUME Nat \ T # {} PROVE FALSE
  OBVIOUS
<1>2. PICK x \in Nat \ T : \A y \in Nat \ T : ~ (<<y, x>> \in OpToRel(<, Nat))
  BY <1>1, NatLessThanWellFounded, WFMin
<1>3. \A y \in Nat \ T : ~ (y < x)
  BY <1>2 DEF OpToRel
<1>4. x - 1 \in T
  BY <1>3
<1> QED
  BY <1>4

\* f is the running sum of p.
Sums(f, p, n) ==
  /\ f \in [0..n -> Int] /\ f[0] = 0
  /\ \A k \in 1..n : f[k] = f[k - 1] + p[k]

\* Running sums exist.
LEMMA SumsExist ==
  ASSUME NEW n \in Nat, NEW p \in [1..n -> Int]
  PROVE  \E f : Sums(f, p, n)
<1> DEFINE T == { m \in Nat : m <= n => \E f : Sums(f, p, m) }
<1>1. 0 \in T
  <2>1. Sums([k \in 0..0 |-> 0], p, 0)
    BY DEF Sums
  <2> QED
    BY <2>1
<1>2. ASSUME NEW m \in T PROVE m + 1 \in T
  <2>1. CASE ~ (m + 1 <= n)
    BY <2>1
  <2>2. CASE m + 1 <= n
    <3>1. PICK f : Sums(f, p, m)
      BY <2>2
    <3> DEFINE g == [k \in 0..(m + 1) |-> IF k = m + 1 THEN f[m] + p[m + 1] ELSE f[k]]
    <3>2. f[m] \in Int /\ p[m + 1] \in Int
      BY <2>2, <3>1 DEF Sums
    <3>3. g \in [0..(m + 1) -> Int] /\ g[0] = 0
      BY <3>1, <3>2 DEF Sums
    <3>4. ASSUME NEW k \in 1..(m + 1) PROVE g[k] = g[k - 1] + p[k]
      <4>1. CASE k = m + 1
        BY <4>1
      <4>2. CASE k \in 1..m
        <5>1. g[k] = f[k] /\ g[k - 1] = f[k - 1]
          BY <4>2
        <5> QED
          BY <3>1, <4>2, <5>1 DEF Sums
      <4> QED
        BY <4>1, <4>2
    <3>5. Sums(g, p, m + 1)
      BY <3>3, <3>4 DEF Sums
    <3> QED
      BY <3>5
  <2> QED
    BY <2>1, <2>2
<1>3. T = Nat
  <2> HIDE DEF T
  <2>1. T \in SUBSET Nat
    BY DEF T
  <2> QED
    BY <1>1, <1>2, <2>1, NatSetInduction
<1>4. n \in T
  <2> HIDE DEF T
  <2> QED
    BY <1>3
<1> QED
  BY <1>4

\* The recursive function of Dot is the running sum of the products.
LEMMA DotIsSum ==
  ASSUME NEW a \in Seq(Int), NEW b \in Seq(Int), Len(a) = Len(b)
  PROVE  \E f : Sums(f, [i \in 1..Len(a) |-> a[i] * b[i]], Len(a)) /\ Dot(a, b) = f[Len(a)]
<1> DEFINE n == Len(a)
           p == [i \in 1..n |-> a[i] * b[i]]
           Eq(f) == f = [k \in 0..n |-> IF k = 0 THEN 0 ELSE f[k - 1] + a[k] * b[k]]
           upto == CHOOSE f : Eq(f)
<1>0. n \in Nat
  OBVIOUS
<1>1. p \in [1..n -> Int]
  OBVIOUS
<1>2. PICK g : Sums(g, p, n)
  BY <1>0, <1>1, SumsExist
<1>3. Eq(g)
  BY <1>0, <1>2 DEF Sums
<1>4. Eq(upto)
  BY <1>3
<1>5. Dot(a, b) = upto[n]
  BY DEF Dot
<1> HIDE DEF upto
<1>6. upto[0] = 0 /\ DOMAIN upto = 0..n
  <2>1. 0 \in 0..n
    BY <1>0
  <2> QED
    BY <1>4, <2>1, Zenon
<1>7. ASSUME NEW k \in 1..n PROVE upto[k] = upto[k - 1] + p[k]
  <2>1. k \in 0..n /\ k # 0
    BY <1>0
  <2>2. upto[k] = upto[k - 1] + a[k] * b[k]
    BY <1>4, <2>1, Zenon
  <2> QED
    BY <2>2
<1> DEFINE T == { k \in Nat : k <= n => upto[k] \in Int }
<1>8. 0 \in T
  BY <1>6
<1>9. ASSUME NEW k \in T PROVE k + 1 \in T
  <2>1. SUFFICES ASSUME k + 1 <= n PROVE upto[k + 1] \in Int
    OBVIOUS
  <2>2. k + 1 \in 1..n /\ upto[k] \in Int /\ (k + 1) - 1 = k
    BY <1>0, <2>1
  <2>3. upto[k + 1] = upto[k] + p[k + 1]
    BY <1>7, <2>2
  <2>4. p[k + 1] \in Int
    BY <1>1, <2>2
  <2> QED
    BY <2>2, <2>3, <2>4
<1>10. T = Nat
  <2> HIDE DEF T
  <2>1. T \in SUBSET Nat
    BY DEF T
  <2> QED
    BY <1>8, <1>9, <2>1, NatSetInduction
<1>11. \A k \in 0..n : upto[k] \in Int
  BY <1>0, <1>10
<1>12. upto = [k \in 0..n |-> upto[k]]
  BY <1>4
<1>13. upto \in [0..n -> Int]
  BY <1>11, <1>12
<1>14. Sums(upto, p, n)
  BY <1>6, <1>7, <1>13 DEF Sums
<1> QED
  BY <1>5, <1>14

-----------------------------------------------------------------------------
(* Distances.                                                              *)

LEMMA SquareOfSum ==
  ASSUME NEW t \in Int, NEW u \in Int, NEW x \in Int, NEW y \in Int,
         NEW A \in Int, NEW B \in Int, NEW D \in Int
  PROVE  t * t * (A + x * x) + 2 * t * u * (D + x * y) + u * u * (B + y * y)
           = (t * t * A + 2 * t * u * D + u * u * B) + (t * x + u * y) * (t * x + u * y)
OBVIOUS

LEMMA SquareIsNat == \A x \in Int : x * x \in Int /\ x * x >= 0
OBVIOUS

\* The length of t * a + u * b is not negative.
LEMMA FormIsNat ==
  ASSUME NEW a \in Seq(Int), NEW b \in Seq(Int), Len(a) = Len(b),
         NEW t \in Int, NEW u \in Int
  PROVE  /\ Square(a) \in Int /\ Square(b) \in Int /\ Dot(a, b) \in Int
         /\ t * t * Square(a) + 2 * t * u * Dot(a, b) + u * u * Square(b) >= 0
<1> DEFINE n == Len(a)
<1>0. n \in Nat /\ n \in 0..n
  OBVIOUS
<1>1. PICK A : Sums(A, [i \in 1..n |-> a[i] * a[i]], n) /\ Square(a) = A[n]
  BY DotIsSum DEF Square
<1>2. PICK B : Sums(B, [i \in 1..n |-> b[i] * b[i]], n) /\ Square(b) = B[n]
  BY DotIsSum DEF Square
<1>3. PICK D : Sums(D, [i \in 1..n |-> a[i] * b[i]], n) /\ Dot(a, b) = D[n]
  BY DotIsSum
<1>4. /\ A \in [0..n -> Int] /\ B \in [0..n -> Int] /\ D \in [0..n -> Int]
      /\ A[0] = 0 /\ B[0] = 0 /\ D[0] = 0
      /\ \A k \in 1..n : /\ A[k] = A[k - 1] + a[k] * a[k]
                        /\ B[k] = B[k - 1] + b[k] * b[k]
                        /\ D[k] = D[k - 1] + a[k] * b[k]
  BY <1>1, <1>2, <1>3 DEF Sums
<1> DEFINE Form(k) == t * t * A[k] + 2 * t * u * D[k] + u * u * B[k]
           T == { k \in Nat : k <= n => Form(k) >= 0 }
<1>5. 0 \in T
  <2>1. Form(0) = 0
    BY <1>4
  <2> HIDE DEF Form
  <2> QED
    BY <2>1
<1>6. ASSUME NEW k \in T PROVE k + 1 \in T
  <2>1. SUFFICES ASSUME k + 1 <= n PROVE Form(k + 1) >= 0
    OBVIOUS
  <2>2. k \in 0..n /\ k + 1 \in 1..n /\ (k + 1) - 1 = k /\ Form(k) >= 0
    BY <1>0, <2>1
  <2> DEFINE x == a[k + 1]
             y == b[k + 1]
  <2>3. x \in Int /\ y \in Int /\ A[k] \in Int /\ B[k] \in Int /\ D[k] \in Int
    <3>1. x \in Int /\ y \in Int
      BY <2>2
    <3>2. A[k] \in Int /\ B[k] \in Int /\ D[k] \in Int
      BY <1>4, <2>2, Zenon
    <3> QED
      BY <3>1, <3>2
  <2>4. A[k + 1] = A[k] + x * x /\ B[k + 1] = B[k] + y * y /\ D[k + 1] = D[k] + x * y
    <3>1. /\ A[k + 1] = A[(k + 1) - 1] + x * x
          /\ B[k + 1] = B[(k + 1) - 1] + y * y
          /\ D[k + 1] = D[(k + 1) - 1] + x * y
      BY <1>4, <2>2, Zenon
    <3> QED
      BY <2>2, <3>1, Zenon
  <2> HIDE DEF x, y
  <2>5. Form(k + 1) = Form(k) + (t * x + u * y) * (t * x + u * y)
    <3> DEFINE P == A[k]
               Q == B[k]
               R == D[k]
    <3>1. P \in Int /\ Q \in Int /\ R \in Int
      BY <2>3
    <3> HIDE DEF P, Q, R
    <3>2. t * t * (P + x * x) + 2 * t * u * (R + x * y) + u * u * (Q + y * y)
            = (t * t * P + 2 * t * u * R + u * u * Q) + (t * x + u * y) * (t * x + u * y)
      BY <2>3, <3>1, SquareOfSum
    <3> QED
      BY <2>4, <3>2, Zenon DEF P, Q, R
  <2>6. Form(k) \in Int /\ t * x + u * y \in Int
    BY <2>3
  <2>7. (t * x + u * y) * (t * x + u * y) \in Int /\ (t * x + u * y) * (t * x + u * y) >= 0
    BY <2>6, SquareIsNat
  <2> HIDE DEF Form
  <2> QED
    BY <2>2, <2>5, <2>6, <2>7
<1>7. n \in T
  <2> HIDE DEF T
  <2>1. T \in SUBSET Nat
    BY DEF T
  <2> QED
    BY <1>0, <1>5, <1>6, <2>1, NatSetInduction
<1> QED
  BY <1>0, <1>1, <1>2, <1>3, <1>4, <1>7

LEMMA SquareIsNatural ==
  ASSUME NEW a \in Seq(Int)
  PROVE  Square(a) \in Nat
<1>1. Square(a) \in Int /\ 1 * 1 * Square(a) + 2 * 1 * 0 * Dot(a, a) + 0 * 0 * Square(a) >= 0
      /\ Dot(a, a) \in Int
  BY FormIsNat
<1> QED
  BY <1>1

LEMMA ProductIsNatural ==
  ASSUME NEW A \in Nat, NEW B \in Nat \ {0}, NEW D \in Int,
         B * B * A + 2 * B * (-D) * D + (-D) * (-D) * B >= 0
  PROVE  D * D <= A * B
<1>1. B * (A * B - D * D) >= 0
  OBVIOUS
<1>2. A * B \in Int /\ D * D \in Int
  OBVIOUS
<1>3. \A x \in Int : B * x >= 0 => x >= 0
  OBVIOUS
<1> QED
  BY <1>1, <1>2, <1>3

\* The inequality of Cauchy and Schwarz.
LEMMA CauchySchwarz ==
  ASSUME NEW a \in Seq(Int), NEW b \in Seq(Int), Len(a) = Len(b), Square(b) # 0
  PROVE  Dot(a, b) \in Int /\ Dot(a, b) * Dot(a, b) <= Square(a) * Square(b)
<1>1. Dot(a, b) \in Int /\ Square(a) \in Nat /\ Square(b) \in Nat \ {0}
  BY FormIsNat, SquareIsNatural
<1> DEFINE D == Dot(a, b)
           A == Square(a)
           B == Square(b)
<1>2. B \in Int /\ -D \in Int
  BY <1>1
<1>3. B * B * A + 2 * B * (-D) * D + (-D) * (-D) * B >= 0
  BY <1>2, FormIsNat
<1> HIDE DEF A, B, D
<1>4. D * D <= A * B
  BY <1>1, <1>3, ProductIsNatural DEF A, B, D
<1> QED
  BY <1>1, <1>4 DEF A, B, D

LEMMA RootBounds ==
  ASSUME NEW m \in Nat, NEW D \in Int, D * D <= m * m
  PROVE  -m <= D /\ D <= m
<1>1. ASSUME NEW x \in Nat, x * x <= m * m PROVE x <= m
  <2>1. SUFFICES ASSUME x >= m + 1 PROVE FALSE
    OBVIOUS
  <2>2. x * x >= (m + 1) * (m + 1)
    BY <2>1
  <2>3. (m + 1) * (m + 1) = m * m + 2 * m + 1 /\ m * m \in Nat /\ x * x \in Nat
    OBVIOUS
  <2> QED
    BY <1>1, <2>2, <2>3
<1>2. CASE D >= 0
  BY <1>1, <1>2
<1>3. CASE D < 0
  <2>1. -D \in Nat /\ (-D) * (-D) = D * D
    BY <1>3
  <2>2. -D <= m
    BY <1>1, <2>1
  <2> QED
    BY <1>3, <2>2
<1> QED
  BY <1>2, <1>3

\* Whole numbers cannot have a multiple of P below a smaller multiple of P.
LEMMA Cancels ==
  ASSUME NEW P \in Nat \ {0}, NEW x \in Nat, NEW y \in Nat, x * P <= y * P
  PROVE  x <= y
<1>1. SUFFICES ASSUME x >= y + 1 PROVE FALSE
  OBVIOUS
<1>2. x * P >= (y + 1) * P /\ (y + 1) * P = y * P + P /\ y * P \in Nat /\ x * P \in Nat
  BY <1>1
<1> QED
  BY <1>2

\* A cosine is between -1 and 1.
LEMMA CosineBounds ==
  ASSUME NEW a \in Seq(Int), NEW b \in Seq(Int), ~ Undefined(a, b)
  PROVE  Cosine(a, b) \in -Scale..Scale
<1> DEFINE D == Dot(a, b)
           P == Square(a) * Square(b)
           dot == Scale * D
           size == IF dot < 0 THEN -dot ELSE dot
           C == { k \in 1..size : k * k * P <= size * size }
<1>0. Scale \in Nat
  BY ScoringAssumption
<1>1. Square(a) \in Nat \ {0} /\ Square(b) \in Nat \ {0} /\ Len(a) = Len(b)
  BY SquareIsNatural DEF Undefined
<1>2. D \in Int /\ D * D <= P
  BY <1>1, CauchySchwarz
<1>3. P \in Nat \ {0}
  BY <1>1
<1> HIDE DEF D, P
<1>4. dot \in Int /\ size \in Nat
  BY <1>0, <1>2
<1>5. size * size = (Scale * Scale) * (D * D)
  BY <1>0, <1>2
<1>6. size * size \in Nat /\ size * size <= (Scale * Scale) * P
  <2> DEFINE n == Scale * Scale
             x == D * D
  <2>1. x \in Int /\ n \in Nat /\ x <= P
    BY <1>0, <1>2
  <2>2. \A i \in Nat, j, k \in Int : j <= k => i * j <= i * k
    OBVIOUS
  <2> HIDE DEF size, n, x
  <2>3. n * x <= n * P
    BY <1>3, <2>1, <2>2
  <2>4. size * size <= (Scale * Scale) * P
    BY <1>5, <2>3, Zenon DEF n, x
  <2>5. size * size \in Nat
    BY <1>4
  <2> QED
    BY <2>4, <2>5
<1> HIDE DEF size
<1>7. ASSUME NEW k \in C PROVE k \in 1..Scale
  <2>1. k \in Nat /\ k >= 1 /\ k * k \in Nat /\ Scale * Scale \in Nat /\ (k * k) * P \in Int
    BY <1>0, <1>3, <1>4
  <2>2. (k * k) * P <= (Scale * Scale) * P
    <3>1. (k * k) * P <= size * size
      OBVIOUS
    <3>2. \A x, y, z \in Int : x <= y /\ y <= z => x <= z
      OBVIOUS
    <3>3. (Scale * Scale) * P \in Int
      BY <1>3, <2>1
    <3> QED
      BY <1>6, <2>1, <3>1, <3>2, <3>3
  <2>3. k * k <= Scale * Scale
    BY <1>3, <2>1, <2>2, Cancels
  <2> QED
    BY <1>0, <2>1, <2>3, RootBounds
<1>8. C \subseteq 1..Scale
  BY <1>7
<1> HIDE DEF C
<1>9. Cardinality(C) \in 0..Scale
  <2>1. IsFiniteSet(1..Scale) /\ Cardinality(1..Scale) = Scale
    BY <1>0, FS_Interval
  <2>2. IsFiniteSet(C) /\ Cardinality(C) <= Scale
    BY <1>8, <2>1, FS_Subset
  <2>3. Cardinality(C) \in Nat
    BY <2>2, FS_CardinalityType
  <2> QED
    BY <1>0, <2>2, <2>3
<1>10. Cosine(a, b) = IF dot < 0 THEN -Cardinality(C) ELSE Cardinality(C)
  BY DEF Cosine, C, size, P, D
<1> HIDE DEF dot
<1> QED
  BY <1>0, <1>9, <1>10

LEMMA DistanceIs ==
  ASSUME NEW q \in Queries, NEW v \in Vectors
  PROVE  Distance[q][v] = IF Undefined(q, v) THEN Scale ELSE Scale - Cosine(q, v) + Rounding[q][v]
BY DEF Distance

\* What the comment on cosine_distance says, but for the rounding: a distance is
\* between 0 and 2.
LEMMA DistanceBounds ==
  ASSUME NEW q \in Queries, NEW v \in Vectors
  PROVE  Distance[q][v] \in Distances
<1>1. Scale \in Nat \ {0} /\ Error \in Nat
  BY ScoringAssumption
<1>2. CASE Undefined(q, v)
  BY <1>1, <1>2, DistanceIs DEF Distances
<1>3. CASE ~ Undefined(q, v)
  <2>1. q \in Seq(Int) /\ v \in Seq(Int)
    BY ScoringAssumption
  <2>2. Cosine(q, v) \in -Scale..Scale
    BY <1>3, <2>1, CosineBounds
  <2>3. Rounding[q][v] \in -Error..Error
    BY ScoringAssumption
  <2>4. Distance[q][v] = Scale - Cosine(q, v) + Rounding[q][v]
    BY <1>3, DistanceIs
  <2> QED
    BY <1>1, <2>2, <2>3, <2>4 DEF Distances
<1> QED
  BY <1>2, <1>3

-----------------------------------------------------------------------------
(* Ranks.                                                                  *)

LEMMA DocsAreInts ==
  ASSUME Inputs
  PROVE  /\ Len(records) \in Nat /\ Docs = 1..Len(records)
         /\ IsFiniteSet(Docs) /\ Cardinality(Docs) = Len(records)
         /\ \A i \in Docs : i \in Int /\ Far(i) \in Distances /\ Far(i) \in Int
<1>1. Len(records) \in Nat /\ Docs = 1..Len(records)
  BY DEF Inputs, Docs
<1>2. IsFiniteSet(Docs) /\ Cardinality(Docs) = Len(records)
  BY <1>1, FS_Interval
<1>3. ASSUME NEW i \in Docs PROVE i \in Int /\ Far(i) \in Distances /\ Far(i) \in Int
  <2>1. i \in Int /\ records[i] \in Vectors /\ query \in Queries
    BY <1>1 DEF Inputs, Docs
  <2>2. Far(i) \in Distances
    BY <2>1, DistanceBounds DEF Far
  <2>3. Scale \in Nat /\ Error \in Nat
    BY ScoringAssumption
  <2> QED
    BY <2>1, <2>2, <2>3 DEF Distances
<1> QED
  BY <1>1, <1>2, <1>3

LEMMA RankIsNat ==
  ASSUME Inputs, NEW i \in Docs
  PROVE  /\ IsFiniteSet(Nearer(i)) /\ Nearer(i) \subseteq Docs /\ i \notin Nearer(i)
         /\ Rank(i) \in Nat /\ Rank(i) < Len(records)
<1>1. Nearer(i) \subseteq Docs /\ i \notin Nearer(i)
  BY DocsAreInts DEF Nearer
<1>2. IsFiniteSet(Docs) /\ Cardinality(Docs) = Len(records) /\ Len(records) \in Nat
  BY DocsAreInts
<1>3. IsFiniteSet(Nearer(i)) /\ Rank(i) <= Len(records) /\ (Rank(i) = Len(records) => Nearer(i) = Docs)
  BY <1>1, <1>2, FS_Subset DEF Rank
<1>4. Rank(i) \in Nat
  BY <1>3, FS_CardinalityType DEF Rank
<1> QED
  BY <1>1, <1>2, <1>3, <1>4

\* A nearer document has the lower rank: what is nearer than it is nearer still.
LEMMA NearerRanksLower ==
  ASSUME Inputs, NEW i \in Docs, NEW j \in Nearer(i)
  PROVE  Rank(j) < Rank(i)
<1>1. j \in Docs
  BY RankIsNat
<1>2. Nearer(j) \subseteq Nearer(i)
  BY <1>1, DocsAreInts DEF Nearer
<1>3. j \notin Nearer(j) /\ IsFiniteSet(Nearer(i)) /\ Rank(i) \in Nat /\ Rank(j) \in Nat
  BY <1>1, RankIsNat
<1>4. Rank(j) <= Rank(i) /\ (Rank(i) = Rank(j) => Nearer(i) = Nearer(j))
  BY <1>2, <1>3, FS_Subset DEF Rank
<1> QED
  BY <1>3, <1>4

LEMMA RankOrders ==
  ASSUME Inputs, NEW i \in Docs, NEW j \in Docs
  PROVE  /\ Rank(i) = Rank(j) => i = j
         /\ Rank(j) < Rank(i) => j \in Nearer(i) /\ Far(j) <= Far(i)
<1>1. i = j \/ i \in Nearer(j) \/ j \in Nearer(i)
  BY DocsAreInts DEF Nearer
<1>2. Rank(i) \in Nat /\ Rank(j) \in Nat
  BY RankIsNat
<1>3. (i \in Nearer(j) => Rank(i) < Rank(j)) /\ (j \in Nearer(i) => Rank(j) < Rank(i))
  BY NearerRanksLower
<1>4. j \in Nearer(i) => Far(j) <= Far(i)
  BY DocsAreInts DEF Nearer
<1> QED
  BY <1>1, <1>2, <1>3, <1>4

\* Every rank is one document's.
LEMMA RanksAreFilled ==
  ASSUME Inputs, NEW p \in 1..Len(records)
  PROVE  \E i \in Docs : Rank(i) = p - 1
<1> DEFINE n == Len(records)
           place == [i \in Docs |-> Rank(i) + 1]
<1>1. n \in Nat /\ IsFiniteSet(Docs) /\ Cardinality(Docs) = n
  BY DocsAreInts
<1>2. IsFiniteSet(1..n) /\ Cardinality(1..n) = n
  BY <1>1, FS_Interval
<1>3. \A i \in Docs : Rank(i) \in Nat /\ Rank(i) < n
  BY RankIsNat
<1>4. place \in [Docs -> 1..n]
  BY <1>1, <1>3
<1>5. ASSUME NEW i \in Docs, NEW j \in Docs, place[i] = place[j] PROVE i = j
  BY <1>3, <1>5, RankOrders
<1>6. place \in Injection(Docs, 1..n)
  BY <1>4, <1>5 DEF Injection, IsInjective
<1> HIDE DEF place
<1>7. place \in Surjection(Docs, 1..n)
  BY <1>1, <1>2, <1>6, FS_Injection
<1>8. PICK i \in Docs : place[i] = p
  BY <1>7 DEF Surjection
<1> QED
  BY <1>3, <1>8 DEF place

-----------------------------------------------------------------------------
(* The steps.                                                              *)

LEMMA InitIInv == Init => IInv
<1>1. SUFFICES ASSUME Init PROVE IInv
  OBVIOUS
<1>2. PICK n \in 0..MaxDocs : records \in [1..n -> Vectors]
  BY <1>1 DEF Init
<1>3. n \in Nat
  BY <1>2, ScoringAssumption
<1>4. records \in Seq(Vectors)
  BY <1>2, <1>3
<1>5. query \in Queries /\ max \in Nat /\ floor \in Nat /\ band \in Nat
  BY <1>1, ScoringAssumption DEF Init
<1> QED
  BY <1>1, <1>4, <1>5 DEF Init, IInv, Inputs

\* What is said of the inputs stays true.
LEMMA InputsStay ==
  ASSUME UNCHANGED input
  PROVE  /\ Inputs' <=> Inputs
         /\ Docs' = Docs /\ Scores' = Scores
         /\ \A n : Truncated(n)' <=> Truncated(n)
         /\ \A entries : InOrder(entries)' <=> InOrder(entries)
BY DEF input, Inputs, Docs, Scores, Truncated, InOrder, Rank, Nearer, Far

LEMMA ScoreStep ==
  ASSUME IInv, Score
  PROVE  IInv'
<1>1. Inputs' /\ Docs' = Docs /\ Scores' = Scores
  BY InputsStay DEF IInv, Score
<1>2. scored' = Scores /\ at' = "sort" /\ out' = <<>>
  BY DEF IInv, Score, Scores, Docs, Far
<1> QED
  BY <1>1, <1>2 DEF IInv

\* At the sort, the place of a document is its rank.
LEMMA PlaceIsRank ==
  ASSUME IInv, at = "sort", NEW i \in Docs
  PROVE  Place(i) = Rank(i) + 1
<1>1. scored = Scores /\ DOMAIN scored = Docs
  BY DEF IInv, Scores
<1>2. \A j \in Docs : Before(j, i) <=> j \in Nearer(i)
  BY <1>1 DEF Before, Nearer, Scores
<1>3. { j \in Docs : Before(j, i) } = Nearer(i)
  BY <1>2 DEF Nearer
<1> QED
  BY <1>1, <1>3 DEF Place, Quantify, Rank

LEMMA KeptIsInterval ==
  ASSUME NEW m \in Nat, NEW n \in Nat
  PROVE  \E k \in Nat : /\ k <= m /\ k <= n /\ (k = m \/ k = n)
                        /\ 1..m \cap 1..n = 1..k
<1>1. CASE m <= n
  <2>1. 1..m \cap 1..n = 1..m
    BY <1>1
  <2> QED
    BY <1>1, <2>1
<1>2. CASE n < m
  <2>1. 1..m \cap 1..n = 1..n
    BY <1>2
  <2> QED
    BY <1>2, <2>1
<1> QED
  BY <1>1, <1>2

LEMMA SortStep ==
  ASSUME IInv, Sort
  PROVE  IInv'
<1> DEFINE n == Len(records)
           Chosen(p) == CHOOSE i \in DOMAIN scored : Place(i) = p
<1>1. Inputs /\ max \in Nat /\ at = "sort" /\ scored = Scores /\ out = <<>>
  BY DEF IInv, Inputs, Sort
<1>2. n \in Nat /\ Docs = 1..n /\ DOMAIN scored = 1..n /\ Len(scored) = n
  BY <1>1, DocsAreInts DEF Scores
<1>3. PICK k \in Nat : /\ k <= max /\ k <= n /\ (k = max \/ k = n)
                       /\ Kept(n) = 1..k
  BY <1>1, <1>2, KeptIsInterval DEF Kept
<1>4. scored' = [p \in 1..k |-> scored[Chosen(p)]]
  BY <1>2, <1>3 DEF Sort
<1>5. ASSUME NEW p \in 1..k
      PROVE  Chosen(p) \in Docs /\ Rank(Chosen(p)) = p - 1
  <2>1. p \in 1..n
    <3>1. k <= n /\ n \in Nat
      BY <1>2, <1>3
    <3> HIDE DEF n
    <3> QED
      BY <3>1
  <2>2. PICK i \in Docs : Rank(i) = p - 1
    BY <1>1, <2>1, RanksAreFilled
  <2>3. Place(i) = p
    BY <1>1, <2>1, <2>2, PlaceIsRank
  <2>4. Chosen(p) \in Docs /\ Place(Chosen(p)) = p
    BY <1>2, <2>3
  <2> HIDE DEF Chosen
  <2>5. Place(Chosen(p)) = Rank(Chosen(p)) + 1 /\ Rank(Chosen(p)) \in Nat
    BY <1>1, <2>4, PlaceIsRank, RankIsNat
  <2> QED
    BY <2>1, <2>4, <2>5
<1> HIDE DEF Chosen
<1>6. ASSUME NEW p \in 1..k
      PROVE  /\ scored'[p] = [doc |-> Chosen(p), score |-> Far(Chosen(p))]
             /\ scored'[p] \in [doc : Docs, score : Distances]
  <2>1. Chosen(p) \in Docs
    BY <1>5
  <2>2. scored'[p] = [doc |-> Chosen(p), score |-> Far(Chosen(p))]
    BY <1>1, <1>4, <2>1 DEF Scores
  <2>3. Far(Chosen(p)) \in Distances
    BY <1>1, <2>1, DocsAreInts
  <2> QED
    BY <2>1, <2>2, <2>3
<1>7. Len(scored') = k /\ scored' \in Seq([doc : Docs, score : Distances])
  <2> DEFINE S == [doc : Docs, score : Distances]
  <2>1. scored' \in [1..k -> S]
    BY <1>4, <1>6
  <2> HIDE DEF S
  <2>2. scored' \in Seq(S) /\ Len(scored') = k
    BY <2>1
  <2> QED
    BY <2>2 DEF S
<1>8. InOrder(scored')
  BY <1>5, <1>6, <1>7 DEF InOrder
<1>9. at' = "select" /\ out' = <<>> /\ UNCHANGED input
  BY <1>1 DEF Sort
<1>10. Inputs' /\ Docs' = Docs /\ Truncated(Len(scored))' /\ InOrder(scored)'
  <2>1. Truncated(k)
    BY <1>3 DEF Truncated
  <2> QED
    BY <1>1, <1>7, <1>8, <1>9, <2>1, InputsStay DEF input, Truncated
<1>11. Taken'
  BY <1>7, <1>9 DEF Taken
<1> QED
  BY <1>7, <1>9, <1>10, <1>11 DEF IInv

\* Admits speaks of the entries and of what stays.
LEMMA AdmitsStays ==
  ASSUME UNCHANGED <<input, scored>>
  PROVE  \A p : Admits(p)' <=> Admits(p)
BY DEF input, Admits

LEMMA TakeStep ==
  ASSUME IInv, Take
  PROVE  IInv'
<1> DEFINE k == Len(out) + 1
<1>1. /\ Inputs /\ at = "select" /\ Len(out) < Len(scored) /\ Admits(k)
      /\ scored \in Seq([doc : Docs, score : Distances])
      /\ Truncated(Len(scored)) /\ InOrder(scored) /\ Taken
      /\ UNCHANGED <<input, at, scored>>
  BY DEF IInv, Take
<1>2. out \in Seq(Docs) /\ k \in 1..Len(scored)
  BY <1>1 DEF Taken
<1>3. scored[k].doc \in Docs /\ out' = Append(out, scored[k].doc)
  BY <1>1, <1>2 DEF InOrder, Take
<1>4. out' \in Seq(Docs) /\ Len(out') = k
  BY <1>2, <1>3
<1>5. ASSUME NEW p \in 1..k PROVE out'[p] = scored[p].doc /\ Admits(p)
  <2>1. CASE p = k
    BY <1>1, <1>2, <1>3, <2>1
  <2>2. CASE p # k
    BY <1>1, <1>2, <1>3, <2>2 DEF Taken
  <2> QED
    BY <2>1, <2>2
<1>6. Inputs' /\ Docs' = Docs /\ Truncated(Len(scored))' /\ InOrder(scored)'
  BY <1>1, InputsStay DEF input, Truncated
<1>7. Taken'
  <2>1. ASSUME NEW p \in 1..Len(out') PROVE out'[p] = scored'[p].doc /\ Admits(p)'
    BY <1>1, <1>4, <1>5, AdmitsStays
  <2>2. out' \in Seq(Docs') /\ Len(out') <= Len(scored')
    BY <1>1, <1>2, <1>4, <1>6
  <2> QED
    BY <2>1, <2>2 DEF Taken
<1> QED
  BY <1>1, <1>6, <1>7 DEF IInv

LEMMA BreakStep ==
  ASSUME IInv, Break
  PROVE  IInv'
<1>1. /\ Inputs /\ at = "select" /\ at' = "done" /\ UNCHANGED <<input, scored, out>>
      /\ scored \in Seq([doc : Docs, score : Distances])
      /\ Truncated(Len(scored)) /\ InOrder(scored) /\ Taken
      /\ Len(out) < Len(scored) => ~Admits(Len(out) + 1)
  BY DEF IInv, Break
<1>2. Inputs' /\ Docs' = Docs /\ Truncated(Len(scored))' /\ InOrder(scored)'
  BY <1>1, InputsStay DEF input, Truncated
<1>3. Taken' /\ (Len(out) < Len(scored) => ~Admits(Len(out) + 1))'
  BY <1>1, <1>2, AdmitsStays DEF Taken
<1> QED
  BY <1>1, <1>2, <1>3 DEF IInv

LEMMA StutterStep ==
  ASSUME IInv, UNCHANGED vars
  PROVE  IInv'
<1>1. UNCHANGED <<input, at, scored, out>>
  BY DEF vars, input
<1>2. (Inputs' <=> Inputs) /\ Docs' = Docs /\ Scores' = Scores
  BY <1>1, InputsStay
<1>3. (Truncated(Len(scored))' <=> Truncated(Len(scored))) /\ (InOrder(scored)' <=> InOrder(scored))
  BY <1>1, InputsStay DEF input, Truncated
<1>4. (Taken' <=> Taken) /\ (Admits(Len(out) + 1)' <=> Admits(Len(out) + 1))
  BY <1>1, <1>2, AdmitsStays DEF Taken
<1> QED
  BY <1>1, <1>2, <1>3, <1>4 DEF IInv

LEMMA NextIInv == IInv /\ [Next]_vars => IInv'
BY ScoreStep, SortStep, TakeStep, BreakStep, StutterStep DEF Next

\* The inductive invariant: the locals of query_scored and select_by_proximity
\* are what the records, the question and the limits make them.
THEOREM Invariance == Spec => []IInv
BY InitIInv, NextIInv, PTL DEF Spec

-----------------------------------------------------------------------------
(* The properties.                                                         *)

\* Whatever the vectors, a distance is outside the range [0, 2] that the comment
\* on cosine_distance gives by no more than rounding made of it; and never are
\* more documents left than the ceiling.
THEOREM TypeCorrect == Spec => []TypeOK
<1>1. ASSUME IInv PROVE TypeOK
  <2>1. Inputs /\ at \in {"score", "sort", "select", "done"}
    BY <1>1 DEF IInv
  <2>2. CASE at = "score"
    BY <1>1, <2>1, <2>2 DEF IInv, Inputs, TypeOK
  <2>3. CASE at = "sort"
    <3>1. Scores \in Seq([doc : Docs, score : Distances])
      BY <2>1, DocsAreInts DEF Scores
    <3> QED
      BY <1>1, <2>1, <2>3, <3>1 DEF IInv, Inputs, TypeOK, Docs
  <2>4. CASE at \in {"select", "done"}
    BY <1>1, <2>1, <2>4 DEF IInv, Inputs, TypeOK, Docs, Taken, Truncated
  <2> QED
    BY <2>1, <2>2, <2>3, <2>4
<1> QED
  BY <1>1, Invariance, PTL

\* Who precedes an admitted entry is admitted.
LEMMA AdmitsPrefix ==
  ASSUME Inputs, scored \in Seq([doc : Docs, score : Distances]), InOrder(scored),
         NEW p \in 1..Len(scored), NEW q \in 1..p, Admits(p)
  PROVE  Admits(q)
<1>1. Len(scored) \in Nat /\ q \in 1..Len(scored) /\ floor \in Nat /\ band \in Nat
  BY DEF Inputs
<1>2. /\ scored[p].doc \in Docs /\ scored[q].doc \in Docs
      /\ Rank(scored[p].doc) = p - 1 /\ Rank(scored[q].doc) = q - 1
      /\ scored[p].score = Far(scored[p].doc) /\ scored[q].score = Far(scored[q].doc)
  BY <1>1 DEF InOrder
<1>3. CASE q = p
  BY <1>3
<1>4. CASE q < p
  <2>1. Far(scored[q].doc) <= Far(scored[p].doc)
    BY <1>2, <1>4, RankOrders
  <2>2. Far(scored[q].doc) \in Int /\ Far(scored[p].doc) \in Int
    BY <1>2, DocsAreInts
  <2>3. 1 \in 1..Len(scored)
    BY <1>1
  <2>4. scored[1].score \in Int
    BY <2>3, <1>1, DocsAreInts DEF InOrder
  <2>5. scored[q].score <= scored[p].score /\ scored[q].score \in Int /\ scored[p].score \in Int
    BY <1>2, <2>1, <2>2
  <2>6. \A x, y, z \in Int : x <= y /\ y - z <= band => x - z <= band
    BY <1>1
  <2>7. q - 1 < floor \/ ~ (p - 1 < floor)
    BY <1>1, <1>4
  <2> QED
    BY <2>4, <2>5, <2>6, <2>7 DEF Admits
<1> QED
  BY <1>3, <1>4

\* Entry p is admitted if it should be: within the floor, or within the band of
\* the nearest document of all.
LEMMA AdmitsIsNear ==
  ASSUME Inputs, scored \in Seq([doc : Docs, score : Distances]), InOrder(scored),
         NEW p \in 1..Len(scored)
  PROVE  Admits(p) <=> \/ Rank(scored[p].doc) < floor
                       \/ \A j \in Docs : Far(scored[p].doc) - Far(j) <= band
<1> DEFINE i == scored[p].doc
           best == scored[1].doc
<1>1. p - 1 < floor <=> Rank(i) < floor
  BY DEF InOrder
<1>2. 1 \in 1..Len(scored)
  OBVIOUS
<1>3. /\ i \in Docs /\ scored[p].score = Far(i)
      /\ best \in Docs /\ scored[1].score = Far(best) /\ Rank(best) = 0
  BY <1>2 DEF InOrder
<1>4. Far(i) \in Int /\ Far(best) \in Int /\ band \in Int
  BY <1>3, DocsAreInts DEF Inputs
<1> HIDE DEF i, best
<1>5. ASSUME NEW j \in Docs PROVE Far(best) <= Far(j) /\ Far(j) \in Int
  <2>1. Rank(j) \in Nat
    BY RankIsNat
  <2>2. j = best \/ Rank(best) < Rank(j)
    BY <1>3, <2>1, RankOrders
  <2>3. Far(j) \in Int
    BY DocsAreInts
  <2> QED
    BY <1>3, <1>4, <2>2, <2>3, RankOrders
<1>6. scored[p].score - scored[1].score <= band <=> \A j \in Docs : Far(i) - Far(j) <= band
  BY <1>3, <1>4, <1>5
<1> QED
  BY <1>1, <1>6 DEF Admits, i

Wanted(i) ==
  /\ Rank(i) < max
  /\ Rank(i) < floor \/ \A j \in Docs : Far(i) - Far(j) <= band

LEMMA TakenAreWanted ==
  ASSUME IInv, at = "done", NEW p \in DOMAIN out
  PROVE  out[p] \in Docs /\ Wanted(out[p]) /\ Rank(out[p]) = p - 1
<1>1. /\ Inputs /\ scored \in Seq([doc : Docs, score : Distances])
      /\ Truncated(Len(scored)) /\ InOrder(scored) /\ Taken
  BY DEF IInv
<1>2. p \in 1..Len(out) /\ p \in 1..Len(scored)
  BY <1>1 DEF Taken
<1>3. out[p] = scored[p].doc /\ Admits(p)
  BY <1>1, <1>2 DEF Taken
<1>4. scored[p].doc \in Docs /\ Rank(scored[p].doc) = p - 1
  BY <1>1, <1>2 DEF InOrder
<1>5. p - 1 < max
  BY <1>1, <1>2 DEF Truncated, Inputs
<1> QED
  BY <1>1, <1>2, <1>3, <1>4, <1>5, AdmitsIsNear DEF Wanted

LEMMA WantedAreTaken ==
  ASSUME IInv, at = "done", NEW i \in Docs, Wanted(i)
  PROVE  \E p \in DOMAIN out : out[p] = i
<1>1. /\ Inputs /\ scored \in Seq([doc : Docs, score : Distances])
      /\ Truncated(Len(scored)) /\ InOrder(scored) /\ Taken
      /\ Len(out) < Len(scored) => ~Admits(Len(out) + 1)
  BY DEF IInv
<1> DEFINE p == Rank(i) + 1
<1>2. Rank(i) \in Nat /\ Rank(i) < Len(records) /\ Rank(i) < max
  BY <1>1, RankIsNat DEF Wanted
<1>3. p \in 1..Len(scored)
  BY <1>1, <1>2, DocsAreInts DEF Truncated, Inputs
<1>4. scored[p].doc \in Docs /\ Rank(scored[p].doc) = Rank(i)
  BY <1>1, <1>2, <1>3 DEF InOrder
<1>5. scored[p].doc = i
  BY <1>1, <1>4, RankOrders
<1>6. Admits(p)
  BY <1>1, <1>3, <1>5, AdmitsIsNear DEF Wanted
<1>7. Len(out) \in Nat /\ Len(scored) \in Nat
  BY <1>1 DEF Taken
<1> HIDE DEF p
<1>8. p \in 1..Len(out)
  <2>1. SUFFICES ASSUME p > Len(out) PROVE FALSE
    BY <1>3, <1>7
  <2>2. Len(out) + 1 \in 1..p /\ Len(out) < Len(scored)
    BY <1>3, <1>7, <2>1
  <2>3. Admits(Len(out) + 1)
    BY <1>1, <1>3, <1>6, <2>2, AdmitsPrefix
  <2> QED
    BY <1>1, <2>2, <2>3
<1>9. out[p] = i /\ p \in DOMAIN out
  BY <1>1, <1>5, <1>8 DEF Taken
<1> QED
  BY <1>9

\* What is nearer than a document that the ceiling leaves is left, in front of it.
LEMMA NearerInFront ==
  ASSUME Inputs, scored \in Seq([doc : Docs, score : Distances]), InOrder(scored),
         Len(scored) <= Len(records),
         NEW p \in DOMAIN scored, NEW i \in Docs, Far(i) < Far(scored[p].doc)
  PROVE  i \in { scored[q].doc : q \in 1..p - 1 }
<1> DEFINE q == Rank(i) + 1
<1>1. p \in 1..Len(scored) /\ Len(scored) \in Nat
  OBVIOUS
<1>2. scored[p].doc \in Docs /\ Rank(scored[p].doc) = p - 1
  BY <1>1 DEF InOrder
<1>3. i \in Nearer(scored[p].doc)
  BY DEF Nearer
<1>4. Rank(i) \in Nat /\ Rank(i) < p - 1
  BY <1>2, <1>3, NearerRanksLower, RankIsNat
<1>5. q \in 1..p - 1 /\ q \in 1..Len(scored)
  BY <1>1, <1>4
<1>6. scored[q].doc \in Docs /\ Rank(scored[q].doc) = Rank(i)
  BY <1>4, <1>5 DEF InOrder
<1>7. scored[q].doc = i
  BY <1>6, RankOrders
<1> QED
  BY <1>5, <1>7

\* On which side of the uncomparable ones a document is, in distances.
LEMMA SidesOfUncomparable ==
  ASSUME Inputs, NEW i \in Docs, NEW j \in Docs,
         Undefined(query, records[i]), ~Undefined(query, records[j])
  PROVE  /\ Cosine(query, records[j]) > Error => Far(j) < Far(i)
         /\ Cosine(query, records[j]) < -Error => Far(i) < Far(j)
<1>1. query \in Queries /\ records[i] \in Vectors /\ records[j] \in Vectors
  BY DEF Inputs, Docs
<1>2. query \in Seq(Int) /\ records[j] \in Seq(Int) /\ Scale \in Nat /\ Error \in Nat
  BY <1>1, ScoringAssumption
<1>3. Cosine(query, records[j]) \in -Scale..Scale
  BY <1>2, CosineBounds
<1>4. Rounding[query][records[j]] \in -Error..Error
  BY <1>1, ScoringAssumption
<1>5. Far(i) = Scale
  BY <1>1, DistanceIs DEF Far
<1>6. Far(j) = Scale - Cosine(query, records[j]) + Rounding[query][records[j]]
  BY <1>1, DistanceIs DEF Far
<1> QED
  BY <1>2, <1>3, <1>4, <1>5, <1>6

\* Records of another embedding model, or zero vectors, are ranked between the
\* records that point towards the question and those that point away from it.
THEOREM Uncomparable == Spec => []UncomparableInBetween
<1>1. ASSUME IInv PROVE UncomparableInBetween
  <2>1. SUFFICES ASSUME at = "select" PROVE UncomparableInBetween
    BY DEF UncomparableInBetween
  <2>2. /\ Inputs /\ scored \in Seq([doc : Docs, score : Distances])
        /\ InOrder(scored) /\ Len(scored) <= Len(records)
    BY <1>1, <2>1 DEF IInv, Truncated
  <2>3. ASSUME NEW p \in DOMAIN scored, NEW i \in Docs,
               Undefined(query, records[scored[p].doc]), ~Undefined(query, records[i]),
               Cosine(query, records[i]) > Error
        PROVE  i \in { scored[q].doc : q \in 1..p - 1 }
    <3>1. scored[p].doc \in Docs
      BY <2>2 DEF InOrder
    <3>2. Far(i) < Far(scored[p].doc)
      BY <2>2, <2>3, <3>1, SidesOfUncomparable
    <3> QED
      BY <2>2, <3>2, NearerInFront
  <2>4. ASSUME NEW p \in DOMAIN scored, NEW i \in Docs,
               ~Undefined(query, records[scored[p].doc]), Undefined(query, records[i]),
               Cosine(query, records[scored[p].doc]) < -Error
        PROVE  i \in { scored[q].doc : q \in 1..p - 1 }
    <3>1. scored[p].doc \in Docs
      BY <2>2 DEF InOrder
    <3>2. Far(i) < Far(scored[p].doc)
      BY <2>2, <2>4, <3>1, SidesOfUncomparable
    <3> QED
      BY <2>2, <3>2, NearerInFront
  <2> QED
    BY <2>3, <2>4 DEF UncomparableInBetween, Docs
<1> QED
  BY <1>1, Invariance, PTL

\* A selection is the documents that are wanted, nearest first, although it
\* stops at the first one outside the band: for any records, ties included.
THEOREM Selection == Spec => []SelectionIsNearest
<1>1. ASSUME IInv PROVE SelectionIsNearest
  <2>1. SUFFICES ASSUME at = "done"
                 PROVE  /\ Range(out) = { i \in Docs : Wanted(i) }
                        /\ \A p, q \in DOMAIN out : p < q => out[p] \in Nearer(out[q])
    <3> DEFINE far == [i \in Docs |-> Distance[query][records[i]]]
               nearer == [i \in Docs |->
                            { j \in Docs : far[j] < far[i] \/ (far[j] = far[i] /\ j < i) }]
               W(i) == /\ Cardinality(nearer[i]) < max
                       /\ \/ Cardinality(nearer[i]) < floor
                          \/ \A j \in Docs : far[i] - far[j] <= band
               Goal == /\ Range(out) = { i \in Docs : W(i) }
                       /\ \A p, q \in DOMAIN out : p < q => out[p] \in nearer[out[q]]
    <3>1. (at = "done" => Goal) => SelectionIsNearest
      BY Zenon DEF SelectionIsNearest, Docs
    <3>2. \A i \in Docs : far[i] = Far(i) /\ nearer[i] = Nearer(i)
      BY DEF Far, Nearer
    <3>3. \A p \in DOMAIN out : out[p] \in Docs
      BY <1>1 DEF IInv, Taken
    <3> HIDE DEF far, nearer
    <3>4. \A i \in Docs : W(i) <=> Wanted(i)
      BY <3>2 DEF Wanted, Rank
    <3> HIDE DEF W
    <3>5. { i \in Docs : W(i) } = { i \in Docs : Wanted(i) }
      BY <3>4
    <3> QED
      BY <2>1, <3>1, <3>2, <3>3, <3>5
  <2>2. Range(out) = { i \in Docs : Wanted(i) }
    BY <1>1, <2>1, TakenAreWanted, WantedAreTaken DEF Range
  <2>3. ASSUME NEW p \in DOMAIN out, NEW q \in DOMAIN out, p < q
        PROVE  out[p] \in Nearer(out[q])
    <3>1. Inputs /\ p \in Int /\ q \in Int
      BY <1>1, <2>1 DEF IInv, Taken
    <3>2. Rank(out[p]) < Rank(out[q]) /\ out[p] \in Docs /\ out[q] \in Docs
      BY <1>1, <2>1, <2>3, <3>1, TakenAreWanted
    <3> QED
      BY <3>1, <3>2, RankOrders
  <2> QED
    BY <2>2, <2>3
<1> QED
  BY <1>1, Invariance, PTL

=============================================================================
