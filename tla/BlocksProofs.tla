---------------------------- MODULE BlocksProofs ----------------------------
(***************************************************************************)
(* Proofs about Blocks, for texts of any length: what the loop of          *)
(* parse_block_lines pushes are the entries of the text, every document    *)
(* has its key, and a listing posted back stores what it shows.            *)
(***************************************************************************)
EXTENDS Blocks, FiniteSetTheorems, SequenceTheorems, TLAPS

\* The entries of the text being parsed, and those before s that are blocks.
EntryOf == [i \in Starts(lines) |-> Entry(lines, i)]
Whole(s) == { i \in Starts(lines) : i < s /\ Entry(lines, i) # <<>> }

\* The lines of content from s to the loop's position n.
Body(s, n) == { k \in DOMAIN lines : s <= k /\ k < n /\ ~IsComment(lines[k]) }

\* The loop is in the entry that starts at s: what it has pushed are the blocks
\* before it, what it collects is the entry so far.
In(s) ==
  /\ s \in Starts(lines) /\ (s < next \/ s = 1)
  /\ \A j \in Starts(lines) : j < next => j <= s
  /\ current = At(lines, Body(s, next))
  /\ blocks = At(EntryOf, Whole(s))

BeforeEntries ==
  /\ ~Services /\ current = <<>> /\ blocks = <<>>
  /\ \A j \in Starts(lines) : next <= j

InLoop == IF in_entry THEN \E s \in Starts(lines) : In(s) ELSE BeforeEntries

IInv ==
  /\ TypeOK
  /\ Services => in_entry
  /\ phase = "parse" => InLoop
  /\ phase # "parse" => blocks = Entries(lines)

-----------------------------------------------------------------------------
(* Positions and the members of a sequence at them.                        *)

Below(P, i) == { j \in P : j < i }

\* f counts P off in its order, from 1 to n.
Counts(f, n, P) ==
  /\ n \in Nat /\ P \subseteq Int
  /\ f \in [1..n -> P]
  /\ \A j, k \in 1..n : j < k => f[j] < f[k]
  /\ \A i \in P : \E k \in 1..n : f[k] = i

\* There is one way to count P off, and Nth is it.
LEMMA NthIsCount ==
  ASSUME NEW f, NEW n, NEW P, Counts(f, n, P)
  PROVE  /\ IsFiniteSet(P) /\ Cardinality(P) = n
         /\ \A k \in 1..n : Nth(P, k) = f[k]
<1>1. n \in Nat /\ P \subseteq Int /\ f \in [1..n -> P]
  BY DEF Counts
<1>2. ASSUME NEW j \in 1..n, NEW k \in 1..n PROVE f[j] < f[k] <=> j < k
  <2>1. j < k \/ j = k \/ k < j
    BY <1>1
  <2>2. f[j] \in Int /\ f[k] \in Int
    BY <1>1
  <2> QED
    BY <1>1, <2>1, <2>2 DEF Counts
<1>3. f \in Injection(1..n, P)
  <2>1. \A j, k \in 1..n : f[j] = f[k] => j = k
    <3>1. \A j, k \in 1..n : f[j] \in Int /\ f[k] \in Int
      BY <1>1
    <3> QED
      BY <1>1, <1>2, <3>1
  <2> QED
    BY <1>1, <2>1 DEF Injection, IsInjective
<1>4. f \in Surjection(1..n, P)
  BY <1>1 DEF Counts, Surjection
<1>5. IsFiniteSet(1..n) /\ Cardinality(1..n) = n
  BY <1>1, FS_Interval
<1>6. IsFiniteSet(P) /\ Cardinality(P) = n
  BY <1>3, <1>4, <1>5, FS_Bijection DEF ExistsBijection, Bijection
<1>7. ASSUME NEW k \in 1..n PROVE Cardinality(Below(P, f[k])) = k - 1
  <2> DEFINE g == [j \in 1..(k - 1) |-> f[j]]
  <2>1. \A j \in 1..(k - 1) : j \in 1..n /\ j < k
    BY <1>1
  <2>2. g \in [1..(k - 1) -> Below(P, f[k])]
    BY <1>1, <1>2, <2>1 DEF Below
  <2>3. g \in Injection(1..(k - 1), Below(P, f[k]))
    BY <1>3, <2>1, <2>2 DEF Injection, IsInjective
  <2>4. ASSUME NEW i \in Below(P, f[k]) PROVE \E j \in 1..(k - 1) : g[j] = i
    <3>1. PICK j \in 1..n : f[j] = i
      BY DEF Below, Counts
    <3>2. j < k
      BY <1>2, <3>1 DEF Below
    <3> QED
      BY <3>1, <3>2
  <2>5. g \in Surjection(1..(k - 1), Below(P, f[k]))
    BY <2>2, <2>4 DEF Surjection
  <2>6. IsFiniteSet(1..(k - 1)) /\ Cardinality(1..(k - 1)) = k - 1
    BY <1>1, FS_Interval
  <2> QED
    BY <2>3, <2>5, <2>6, FS_Bijection DEF ExistsBijection, Bijection
<1>8. ASSUME NEW k \in 1..n PROVE Nth(P, k) = f[k]
  <2> DEFINE x == CHOOSE i \in P : Cardinality(Below(P, i)) = k - 1
  <2>1. f[k] \in P
    BY <1>1
  <2>2. x \in P /\ Cardinality(Below(P, x)) = k - 1
    BY <1>7, <2>1
  <2>3. Nth(P, k) = x
    BY DEF Nth, Below
  <2> HIDE DEF x
  <2>4. PICK m \in 1..n : f[m] = x
    BY <2>2 DEF Counts
  <2>5. m - 1 = k - 1
    BY <1>7, <2>2, <2>4
  <2> QED
    BY <1>1, <2>3, <2>4, <2>5
<1> QED
  BY <1>6, <1>8

\* Any finite set of positions can be counted off.
LEMMA NthCounts ==
  ASSUME NEW P \in SUBSET Int, IsFiniteSet(P)
  PROVE  Counts([k \in 1..Cardinality(P) |-> Nth(P, k)], Cardinality(P), P)
<1> DEFINE n == Cardinality(P)
           place == [i \in P |-> Cardinality(Below(P, i)) + 1]
<1>1. n \in Nat
  BY FS_CardinalityType
<1>2. ASSUME NEW i \in P
      PROVE  /\ Below(P, i) \subseteq P /\ i \notin Below(P, i) /\ IsFiniteSet(Below(P, i))
             /\ Cardinality(Below(P, i)) \in Nat /\ Cardinality(Below(P, i)) < n
  <2>1. Below(P, i) \subseteq P /\ i \notin Below(P, i)
    BY DEF Below
  <2>2. /\ IsFiniteSet(Below(P, i)) /\ Cardinality(Below(P, i)) <= n
        /\ (n = Cardinality(Below(P, i)) => P = Below(P, i))
    BY <2>1, FS_Subset
  <2>3. Cardinality(Below(P, i)) \in Nat
    BY <2>2, FS_CardinalityType
  <2> QED
    BY <1>1, <2>1, <2>2, <2>3
<1>3. ASSUME NEW i \in P, NEW j \in P, i < j PROVE place[i] < place[j]
  <2>1. Below(P, i) \subseteq Below(P, j) /\ i \in Below(P, j)
    <3>1. \A x \in P : x < i => x < j
      BY <1>3
    <3> QED
      BY <1>3, <3>1 DEF Below
  <2>2. Cardinality(Below(P, i)) <= Cardinality(Below(P, j))
        /\ (Cardinality(Below(P, j)) = Cardinality(Below(P, i)) => Below(P, j) = Below(P, i))
    BY <1>2, <2>1, FS_Subset
  <2> QED
    BY <1>2, <2>1, <2>2
<1>4. place \in [P -> 1..n]
  BY <1>1, <1>2
<1>5. ASSUME NEW i \in P, NEW j \in P, place[i] = place[j] PROVE i = j
  <2>1. i < j \/ i = j \/ j < i
    OBVIOUS
  <2>2. place[i] \in Int
    BY <1>2
  <2> HIDE DEF place
  <2> QED
    BY <1>3, <1>5, <2>1, <2>2
<1>6. place \in Injection(P, 1..n)
  BY <1>4, <1>5 DEF Injection, IsInjective
<1>7. IsFiniteSet(1..n) /\ Cardinality(1..n) = n
  BY <1>1, FS_Interval
<1>8. place \in Surjection(P, 1..n)
  <2> HIDE DEF place
  <2> QED
    BY <1>6, <1>7, FS_Injection
<1>9. ASSUME NEW k \in 1..n PROVE Nth(P, k) \in P /\ place[Nth(P, k)] = k
  <2>1. PICK i \in P : place[i] = k
    <3> HIDE DEF place
    <3> QED
      BY <1>8 DEF Surjection
  <2>2. Cardinality(Below(P, i)) = k - 1
    BY <1>2, <2>1
  <2> DEFINE x == CHOOSE j \in P : Cardinality(Below(P, j)) = k - 1
  <2>3. x \in P /\ Cardinality(Below(P, x)) = k - 1
    BY <2>2
  <2>4. Nth(P, k) = x
    BY DEF Nth, Below
  <2> HIDE DEF x
  <2> QED
    BY <2>3, <2>4
<1> DEFINE f == [k \in 1..n |-> Nth(P, k)]
<1>10. f \in [1..n -> P]
  BY <1>9
<1>11. ASSUME NEW j \in 1..n, NEW k \in 1..n, j < k PROVE f[j] < f[k]
  <2>1. f[j] \in P /\ f[k] \in P /\ place[f[j]] = j /\ place[f[k]] = k
    BY <1>9
  <2> HIDE DEF place, f
  <2>2. f[j] < f[k] \/ f[j] = f[k] \/ f[k] < f[j]
    <3>1. \A x, y \in P : x < y \/ x = y \/ y < x
      OBVIOUS
    <3> QED
      BY <2>1, <3>1
  <2>3. f[k] < f[j] => k < j
    BY <1>3, <2>1
  <2> HIDE DEF n
  <2>4. j \in Int /\ k \in Int /\ ~ (k < j) /\ j # k
    BY <1>1, <1>11
  <2> QED
    BY <2>1, <2>2, <2>3, <2>4
<1>12. ASSUME NEW i \in P PROVE \E k \in 1..n : f[k] = i
  <2>1. place[i] \in 1..n
    BY <1>4
  <2>2. Nth(P, place[i]) \in P /\ place[Nth(P, place[i])] = place[i]
    BY <1>9, <2>1
  <2>3. Nth(P, place[i]) = i
    <3> HIDE DEF place
    <3> QED
      BY <1>5, <2>2
  <2> HIDE DEF place
  <2> QED
    BY <2>1, <2>3
<1>13. Counts(f, n, P)
  <2> HIDE DEF f, n
  <2> QED
    BY <1>1, <1>10, <1>11, <1>12 DEF Counts
<1> QED
  BY <1>13

LEMMA NthType ==
  ASSUME NEW P \in SUBSET Int, IsFiniteSet(P)
  PROVE  /\ Cardinality(P) \in Nat
         /\ \A k \in 1..Cardinality(P) : Nth(P, k) \in P
         /\ \A j, k \in 1..Cardinality(P) : j < k => Nth(P, j) < Nth(P, k)
         /\ \A i \in P : \E k \in 1..Cardinality(P) : Nth(P, k) = i
BY NthCounts, Zenon DEF Counts

\* What is at the positions that f counts off.
LEMMA AtIs ==
  ASSUME NEW s, NEW f, NEW n, NEW P, Counts(f, n, P)
  PROVE  At(s, P) = [k \in 1..n |-> s[f[k]]]
BY NthIsCount DEF At

LEMMA AtType ==
  ASSUME NEW S, NEW s, NEW P \in SUBSET Int, IsFiniteSet(P), \A i \in P : s[i] \in S
  PROVE  /\ At(s, P) \in Seq(S) /\ Len(At(s, P)) = Cardinality(P)
         /\ \A k \in 1..Len(At(s, P)) : \E i \in P : At(s, P)[k] = s[i]
<1>1. Cardinality(P) \in Nat /\ \A k \in 1..Cardinality(P) : Nth(P, k) \in P
  BY NthType
<1>2. At(s, P) \in [1..Cardinality(P) -> S]
  BY <1>1 DEF At
<1>3. At(s, P) \in Seq(S) /\ Len(At(s, P)) = Cardinality(P)
  BY <1>1, <1>2
<1> QED
  BY <1>1, <1>3 DEF At

LEMMA AtNone == \A s : At(s, {}) = <<>>
<1>1. Cardinality({}) = 0
  BY FS_EmptySet
<1> QED
  BY <1>1 DEF At

LEMMA AtSomething ==
  ASSUME NEW s, NEW P \in SUBSET Int, IsFiniteSet(P)
  PROVE  At(s, P) = <<>> <=> P = {}
<1>1. At(s, P) = <<>> => Cardinality(P) = 0
  <2>1. Cardinality(P) \in Nat /\ DOMAIN At(s, P) = 1..Cardinality(P)
    BY NthType DEF At
  <2>2. DOMAIN << >> = {}
    OBVIOUS
  <2> QED
    BY <2>1, <2>2
<1> QED
  BY <1>1, AtNone, FS_EmptySet

\* Only the members at the positions matter.
LEMMA AtAgrees ==
  ASSUME NEW s, NEW t, NEW P \in SUBSET Int, IsFiniteSet(P), \A i \in P : s[i] = t[i]
  PROVE  At(s, P) = At(t, P)
BY NthType DEF At

\* A position after all the others adds its member at the end.
LEMMA AtNext ==
  ASSUME NEW s, NEW P \in SUBSET Int, IsFiniteSet(P), NEW m \in Int, \A i \in P : i < m
  PROVE  IsFiniteSet(P \cup {m}) /\ At(s, P \cup {m}) = Append(At(s, P), s[m])
<1> DEFINE n == Cardinality(P)
           f == [k \in 1..(n + 1) |-> IF k = n + 1 THEN m ELSE Nth(P, k)]
           Q == P \cup {m}
           S == { s[i] : i \in Q }
<1>0. \A i \in P : s[i] \in S
  OBVIOUS
<1>1. /\ n \in Nat
      /\ \A k \in 1..n : Nth(P, k) \in P
      /\ \A j, k \in 1..n : j < k => Nth(P, j) < Nth(P, k)
      /\ \A i \in P : \E k \in 1..n : Nth(P, k) = i
  BY NthType
<1> HIDE DEF n
<1>2. n + 1 \in Nat /\ Q \subseteq Int /\ f \in [1..(n + 1) -> Q]
  BY <1>1
<1>3. \A k \in 1..n : f[k] = Nth(P, k) /\ f[k] \in P
  BY <1>1
<1>4. f[n + 1] = m
  BY <1>1
<1>5. ASSUME NEW j \in 1..(n + 1), NEW k \in 1..(n + 1), j < k PROVE f[j] < f[k]
  <2>1. j \in 1..n /\ (k \in 1..n \/ k = n + 1)
    BY <1>1, <1>5
  <2> HIDE DEF f
  <2> QED
    BY <1>1, <1>3, <1>4, <1>5, <2>1
<1>6. ASSUME NEW i \in Q PROVE \E k \in 1..(n + 1) : f[k] = i
  <2>1. CASE i = m
    BY <1>1, <1>4, <2>1
  <2>2. CASE i \in P
    <3>1. PICK k \in 1..n : Nth(P, k) = i
      BY <1>1, <2>2
    <3>2. k \in 1..(n + 1)
      BY <1>1
    <3> HIDE DEF f
    <3> QED
      BY <1>3, <3>1, <3>2
  <2> QED
    BY <2>1, <2>2
<1>7. Counts(f, n + 1, Q)
  <2> HIDE DEF f, Q
  <2> QED
    BY <1>2, <1>5, <1>6 DEF Counts
<1>8. At(s, Q) = [k \in 1..(n + 1) |-> s[f[k]]] /\ IsFiniteSet(Q)
  <2> HIDE DEF f, Q
  <2> QED
    BY <1>7, AtIs, NthIsCount
<1>9. At(s, P) \in Seq(S) /\ Len(At(s, P)) = n /\ \A k \in 1..n : At(s, P)[k] = s[Nth(P, k)]
  <2>1. At(s, P) = [k \in 1..n |-> s[Nth(P, k)]]
    BY DEF At, n
  <2>2. At(s, P) \in Seq(S) /\ Len(At(s, P)) = n
    <3> HIDE DEF S
    <3> QED
      BY <1>0, AtType DEF n
  <2> QED
    BY <2>1, <2>2
<1>10. Append(At(s, P), s[m]) = [k \in 1..(n + 1) |-> IF k = n + 1 THEN s[m] ELSE s[Nth(P, k)]]
  <2> HIDE DEF S
  <2> QED
    BY <1>1, <1>9
<1> QED
  BY <1>1, <1>3, <1>4, <1>8, <1>10

\* An interval, and the members at it.
LEMMA IntervalCounts ==
  ASSUME NEW a \in Int, NEW n \in Nat
  PROVE  /\ IsFiniteSet(a..(a + n - 1)) /\ Cardinality(a..(a + n - 1)) = n
         /\ \A k \in 1..n : Nth(a..(a + n - 1), k) = a + k - 1
<1> DEFINE P == a..(a + n - 1)
           f == [k \in 1..n |-> a + k - 1]
<1>1. n \in Nat /\ P \subseteq Int /\ f \in [1..n -> P]
  OBVIOUS
<1>2. \A j, k \in 1..n : j < k => f[j] < f[k]
  OBVIOUS
<1>3. ASSUME NEW i \in P PROVE \E k \in 1..n : f[k] = i
  <2>1. i - a + 1 \in 1..n /\ f[i - a + 1] = i
    OBVIOUS
  <2> QED
    BY <2>1
<1>4. Counts(f, n, P)
  <2> HIDE DEF f, P
  <2> QED
    BY <1>1, <1>2, <1>3 DEF Counts
<1>5. IsFiniteSet(P) /\ Cardinality(P) = n /\ \A k \in 1..n : Nth(P, k) = f[k]
  <2> HIDE DEF f, P
  <2> QED
    BY <1>4, NthIsCount
<1> QED
  BY <1>5

LEMMA AtInterval ==
  ASSUME NEW s, NEW a \in Int, NEW n \in Nat
  PROVE  /\ IsFiniteSet(a..(a + n - 1))
         /\ At(s, a..(a + n - 1)) = [k \in 1..n |-> s[a + k - 1]]
<1> DEFINE P == a..(a + n - 1)
<1>1. IsFiniteSet(P) /\ Cardinality(P) = n /\ \A k \in 1..n : Nth(P, k) = a + k - 1
  BY IntervalCounts
<1> HIDE DEF P
<1>2. At(s, P) = [k \in 1..n |-> s[a + k - 1]]
  BY <1>1, Zenon DEF At
<1> QED
  BY <1>1, <1>2 DEF P

-----------------------------------------------------------------------------
(* Types.                                                                  *)

LEMMA LenIsNat == \A S, s : s \in Seq(S) => Len(s) \in Nat /\ DOMAIN s = 1..Len(s)
OBVIOUS

\* Positions in a text.
LEMMA PositionsAreFinite ==
  ASSUME NEW S, NEW s \in Seq(S), NEW P \in SUBSET DOMAIN s
  PROVE  P \in SUBSET Int /\ IsFiniteSet(P) /\ \A i \in P : s[i] \in S
<1>1. DOMAIN s = 1..Len(s) /\ Len(s) \in Nat
  OBVIOUS
<1>2. IsFiniteSet(1..Len(s))
  BY <1>1, FS_Interval
<1> QED
  BY <1>1, <1>2, FS_Subset

LEMMA AtPositions ==
  ASSUME NEW S, NEW s \in Seq(S), NEW P \in SUBSET DOMAIN s
  PROVE  At(s, P) \in Seq(S)
BY PositionsAreFinite, AtType

LEMMA TrimType ==
  ASSUME NEW ls \in Seq(Lines)
  PROVE  Trim(ls) \in Seq(Lines)
<1> DEFINE solid == { i \in DOMAIN ls : ~IsBlank(ls[i]) }
           P == { i \in DOMAIN ls : \E j, k \in solid : j <= i /\ i <= k }
<1>1. P \in SUBSET DOMAIN ls
  OBVIOUS
<1>2. Trim(ls) = At(ls, P)
  BY Zenon DEF Trim
<1> HIDE DEF P
<1> QED
  BY <1>1, <1>2, AtPositions

LEMMA PushType ==
  ASSUME TypeOK
  PROVE  Push \in Seq(Seq(Lines) \ {<<>>})
<1>1. Trim(current) \in Seq(Lines)
  BY TrimType DEF TypeOK
<1> DEFINE S == Seq(Lines) \ {<<>>}
<1>2. blocks \in Seq(S)
  BY DEF TypeOK
<1>3. Trim(current) # <<>> => Trim(current) \in S
  BY <1>1
<1> HIDE DEF S
<1>4. Push \in Seq(S)
  BY <1>2, <1>3 DEF Push
<1> QED
  BY <1>4 DEF S

LEMMA QuestionType ==
  ASSUME NEW b \in Seq(Lines)
  PROVE  /\ Asked(b) \in Seq(Lines) /\ Question(b) \in Seq(Lines)
<1> DEFINE P == { i \in 2..Len(b) :
                   /\ ~IsBlank(b[i])
                   /\ \A j \in 2..i : b[j].is \notin {"mark", "head"} }
<1>1. P \in SUBSET DOMAIN b
  OBVIOUS
<1>2. Asked(b) = At(b, P)
  BY Zenon DEF Asked
<1> HIDE DEF P
<1>3. Asked(b) \in Seq(Lines)
  BY <1>1, <1>2, AtPositions
<1> QED
  BY <1>3 DEF Question

LEMMA CleanedType ==
  ASSUME NEW b \in Seq(Lines)
  PROVE  Cleaned(b) \in Seq(Lines)
<1> DEFINE P == { i \in DOMAIN b : b[i].is \notin {"blank", "slash", "bare", "link"} }
<1>1. Cleaned(b) = At(b, P) /\ P \in SUBSET DOMAIN b
  BY DEF Cleaned, Without
<1> HIDE DEF P
<1> QED
  BY <1>1, AtPositions

LEMMA DescriptionType ==
  ASSUME NEW d \in Seq(Lines)
  PROVE  Description(d) \in Seq(Lines)
<1>1. CASE Len(d) <= 4
  BY <1>1 DEF Description
<1>2. CASE ~ (Len(d) <= 4)
  <2>1. \A i \in 1..4 : d[i] \in Lines
    BY <1>2
  <2>2. SubSeq(d, 1, 4) \in Seq(Lines)
    BY <1>2, <2>1, SubSeqProperties
  <2> QED
    BY <1>2, <2>2 DEF Description
<1> QED
  BY <1>1, <1>2

LEMMA AddedType == \A b \in Beginnings : Added(b) \in Lines
BY BlocksAssumption DEF Added, Lines

LEMMA ShownType ==
  ASSUME NEW d \in Seq(Lines)
  PROVE  Shown(d) \in Seq(Lines)
BY AddedType DEF Shown, Beginnings

-----------------------------------------------------------------------------
(* The listing of some documents.                                          *)

LEMMA NatSetInduction ==
  ASSUME NEW T \in SUBSET Nat, 0 \in T, \A n \in T : n + 1 \in T
  PROVE  T = Nat
<1>1. SUFFICES ASSUME Nat \ T # {} PROVE FALSE
  OBVIOUS
<1>2. PICK x \in Nat \ T : \A y \in Nat \ T : ~ (<<y, x>> \in OpToRel(<, Nat))
  BY <1>1, NatLessThanWellFounded, WFMin
<1>3. \A y \in Nat \ T : ~ (y < x)
  BY <1>2 DEF OpToRel
<1>4. x - 1 \in T
  BY <1>3
<1> QED
  BY <1>4

\* u[k] is the listing of the first k of n documents.
Layout(u, docs, n) ==
  /\ u \in [0..n -> Seq(Lines)] /\ u[0] = <<>>
  /\ \A k \in 1..n : u[k] = u[k - 1] \o Shown(docs[k])

LEMMA LayoutExists ==
  ASSUME NEW docs \in Seq(Seq(Lines))
  PROVE  \E u : Layout(u, docs, Len(docs))
<1> DEFINE N == Len(docs)
           T == { m \in Nat : m <= N => \E u : Layout(u, docs, m) }
<1>0. N \in Nat
  OBVIOUS
<1>1. 0 \in T
  <2>1. Layout([k \in 0..0 |-> <<>>], docs, 0)
    BY DEF Layout
  <2> QED
    BY <2>1
<1>2. ASSUME NEW m \in T PROVE m + 1 \in T
  <2>1. SUFFICES ASSUME m + 1 <= N PROVE \E u : Layout(u, docs, m + 1)
    OBVIOUS
  <2>0. m \in Nat /\ m \in 0..m /\ m + 1 \in 0..(m + 1)
    OBVIOUS
  <2>2. PICK u : Layout(u, docs, m)
    BY <1>0, <2>1
  <2> DEFINE v == [k \in 0..(m + 1) |-> IF k = m + 1 THEN u[m] \o Shown(docs[m + 1]) ELSE u[k]]
  <2>3. u[m] \in Seq(Lines) /\ Shown(docs[m + 1]) \in Seq(Lines)
    BY <2>1, <2>2, ShownType DEF Layout
  <2>4. u[m] \o Shown(docs[m + 1]) \in Seq(Lines)
    BY <2>3
  <2>5. \A k \in 0..m : v[k] = u[k] /\ u[k] \in Seq(Lines)
    BY <2>2 DEF Layout
  <2>6. v[m + 1] = u[m] \o Shown(docs[m + 1])
    BY <2>0, Zenon
  <2>7. v \in [0..(m + 1) -> Seq(Lines)] /\ v[0] = <<>>
    BY <2>2, <2>4, <2>5 DEF Layout
  <2> HIDE DEF v
  <2>8. ASSUME NEW k \in 1..(m + 1) PROVE v[k] = v[k - 1] \o Shown(docs[k])
    <3>1. CASE k = m + 1
      <4>1. k - 1 = m /\ m \in 0..m
        BY <3>1
      <4> QED
        BY <2>5, <2>6, <3>1, <4>1
    <3>2. CASE k \in 1..m
      <4>1. k \in 0..m /\ k - 1 \in 0..m
        BY <3>2
      <4> QED
        BY <2>2, <2>5, <3>2, <4>1 DEF Layout
    <3>3. k = m + 1 \/ k \in 1..m
      BY <2>0
    <3> QED
      BY <3>1, <3>2, <3>3, Zenon
  <2>9. Layout(v, docs, m + 1)
    BY <2>7, <2>8 DEF Layout
  <2> QED
    BY <2>9
<1>3. N \in T
  <2> HIDE DEF T
  <2>1. T \in SUBSET Nat
    BY DEF T
  <2> QED
    BY <1>0, <1>1, <1>2, <2>1, NatSetInduction
<1> QED
  BY <1>3

\* The recursive function of Listing is the layout.
LEMMA ListingIs ==
  ASSUME NEW docs \in Seq(Seq(Lines))
  PROVE  \E u : Layout(u, docs, Len(docs)) /\ Listing(docs) = u[Len(docs)]
<1> DEFINE N == Len(docs)
           Eq(u) == u = [k \in 0..N |-> IF k = 0 THEN <<>> ELSE u[k - 1] \o Shown(docs[k])]
           upto == CHOOSE u : Eq(u)
<1>0. N \in Nat
  OBVIOUS
<1>1. PICK w : Layout(w, docs, N)
  BY LayoutExists
<1>2. Eq(w)
  <2>1. \A k \in 0..N : k = 0 \/ k \in 1..N
    BY <1>0
  <2>2. \A k \in 0..N : w[k] = IF k = 0 THEN <<>> ELSE w[k - 1] \o Shown(docs[k])
    BY <1>1, <2>1, Zenon DEF Layout
  <2>3. w = [k \in 0..N |-> w[k]]
    BY <1>1 DEF Layout
  <2> QED
    BY <2>2, <2>3, Zenon
<1>3. Eq(upto)
  BY <1>2
<1>4. Listing(docs) = upto[N]
  BY DEF Listing
<1> HIDE DEF upto
<1>5. upto[0] = <<>> /\ DOMAIN upto = 0..N
  <2>1. 0 \in 0..N
    BY <1>0
  <2> QED
    BY <1>3, <2>1, Zenon
<1>6. ASSUME NEW k \in 1..N PROVE upto[k] = upto[k - 1] \o Shown(docs[k])
  <2>1. k \in 0..N /\ k # 0
    BY <1>0
  <2> QED
    BY <1>3, <2>1, Zenon
<1> DEFINE T == { k \in Nat : k <= N => upto[k] \in Seq(Lines) }
<1>7. 0 \in T
  <2>1. <<>> \in Seq(Lines)
    OBVIOUS
  <2> QED
    BY <1>5, <2>1
<1>8. ASSUME NEW k \in T PROVE k + 1 \in T
  <2>1. SUFFICES ASSUME k + 1 <= N PROVE upto[k + 1] \in Seq(Lines)
    OBVIOUS
  <2>2. k + 1 \in 1..N /\ upto[k] \in Seq(Lines) /\ (k + 1) - 1 = k
    BY <1>0, <2>1
  <2>3. upto[k + 1] = upto[k] \o Shown(docs[k + 1])
    BY <1>6, <2>2
  <2>4. Shown(docs[k + 1]) \in Seq(Lines)
    BY <2>2, ShownType
  <2> QED
    BY <2>2, <2>3, <2>4
<1>9. T = Nat
  <2> HIDE DEF T
  <2>1. T \in SUBSET Nat
    BY DEF T
  <2> QED
    BY <1>7, <1>8, <2>1, NatSetInduction
<1>10. \A k \in 0..N : upto[k] \in Seq(Lines)
  BY <1>0, <1>9
<1>11. upto \in [0..N -> Seq(Lines)]
  <2>1. upto = [k \in 0..N |-> upto[k]]
    BY <1>3
  <2> QED
    BY <1>10, <2>1
<1>12. Layout(upto, docs, N)
  BY <1>5, <1>6, <1>11 DEF Layout
<1> QED
  BY <1>4, <1>12

LEMMA ListingType ==
  ASSUME NEW docs \in Seq(Seq(Lines))
  PROVE  Listing(docs) \in Seq(Lines)
<1>1. PICK u : Layout(u, docs, Len(docs)) /\ Listing(docs) = u[Len(docs)]
  BY ListingIs
<1>2. Len(docs) \in 0..Len(docs)
  OBVIOUS
<1> QED
  BY <1>1, <1>2 DEF Layout

-----------------------------------------------------------------------------
(* The type invariant.                                                     *)

LEMMA InitTypeOK == Init => TypeOK
<1>1. SUFFICES ASSUME Init PROVE TypeOK
  OBVIOUS
<1>2. PICK n \in 0..MaxLines : \E b \in [1..n -> Beginnings] :
        lines = [i \in 1..n |-> [is |-> b[i], at |-> i]]
  BY <1>1 DEF Init
<1>3. PICK b \in [1..n -> Beginnings] : lines = [i \in 1..n |-> [is |-> b[i], at |-> i]]
  BY <1>2
<1>4. n \in Nat /\ MaxLines \in Nat
  BY BlocksAssumption
<1>5. \A i \in 1..n : [is |-> b[i], at |-> i] \in Lines
  BY <1>4 DEF Lines
<1>6. lines \in [1..n -> Lines]
  BY <1>3, <1>5
<1>7. lines \in Seq(Lines) /\ Len(lines) \in Nat
  BY <1>4, <1>6
<1> QED
  BY <1>1, <1>7 DEF Init, TypeOK, Services

LEMMA CommentType ==
  ASSUME TypeOK, Comment
  PROVE  TypeOK'
BY DEF TypeOK, Comment, AtLine, prepared

LEMMA DelimiterType ==
  ASSUME TypeOK, Delimiter
  PROVE  TypeOK'
<1>1. lines[next] \in Lines /\ next + 1 \in 1..(Len(lines) + 1)
  BY DEF TypeOK, Delimiter, AtLine
<1>2. current' \in Seq(Lines) /\ in_entry' \in BOOLEAN
  BY <1>1 DEF Delimiter
<1>3. blocks' \in Seq(Seq(Lines) \ {<<>>})
  BY PushType DEF Delimiter
<1> QED
  BY <1>1, <1>2, <1>3 DEF TypeOK, Delimiter, prepared

LEMMA ContentType ==
  ASSUME TypeOK, Content
  PROVE  TypeOK'
<1>1. lines[next] \in Lines /\ next + 1 \in 1..(Len(lines) + 1)
  BY DEF TypeOK, Content, AtLine
<1>2. current' \in Seq(Lines)
  BY <1>1 DEF TypeOK, Content
<1> QED
  BY <1>1, <1>2 DEF TypeOK, Content, prepared

LEMMA EndOfTextType ==
  ASSUME TypeOK, EndOfText
  PROVE  TypeOK'
<1>1. blocks' \in Seq(Seq(Lines) \ {<<>>})
  BY PushType DEF EndOfText
<1> QED
  BY <1>1 DEF TypeOK, EndOfText, prepared

\* What Prepare makes of each block is lines again.
LEMMA PreparedType ==
  ASSUME TypeOK, Prepare
  PROVE  /\ stored' \in Seq(Seq(Lines)) /\ keys' \in Seq(Seq(Lines))
         /\ Len(stored') = Len(blocks) /\ Len(keys') = Len(blocks)
<1> DEFINE n == Len(blocks)
<1>1. n \in Nat /\ DOMAIN blocks = 1..n /\ \A i \in 1..n : blocks[i] \in Seq(Lines)
  BY DEF TypeOK
<1>2. stored' \in [1..n -> Seq(Lines)]
  <2>1. CASE Services
    <3>1. stored' = [i \in 1..n |-> Cleaned(blocks[i])]
      BY <1>1, <2>1 DEF Prepare
    <3> QED
      BY <1>1, <3>1, CleanedType
  <2>2. CASE ~Services
    <3>1. stored' = blocks /\ blocks = [i \in 1..n |-> blocks[i]]
      BY <1>1, <2>2 DEF Prepare, TypeOK
    <3> QED
      BY <1>1, <3>1
  <2> QED
    BY <2>1, <2>2
<1>3. keys' \in [1..n -> Seq(Lines)]
  <2>1. CASE Services
    <3>1. keys' = [i \in DOMAIN blocks |-> Description(stored'[i])]
      BY <2>1 DEF Prepare, Services
    <3> QED
      BY <1>1, <1>2, <3>1, DescriptionType
  <2>2. CASE ~Services /\ kind = "notas"
    <3>1. keys' = stored'
      BY <2>2 DEF Prepare
    <3> QED
      BY <1>2, <3>1
  <2>3. CASE ~Services /\ kind # "notas"
    <3>1. keys' = [i \in 1..n |-> Question(blocks[i])]
      BY <1>1, <2>3 DEF Prepare
    <3> QED
      BY <1>1, <3>1, QuestionType
  <2> QED
    BY <2>1, <2>2, <2>3
<1> HIDE DEF n
<1>4. \A S, s : s \in [1..n -> S] => s \in Seq(S) /\ Len(s) = n
  BY <1>1
<1> QED
  BY <1>2, <1>3, <1>4 DEF n

LEMMA PrepareType ==
  ASSUME TypeOK, Prepare
  PROVE  TypeOK'
BY PreparedType DEF TypeOK, Prepare, parser

LEMMA PostBackType ==
  ASSUME TypeOK, PostBack
  PROVE  TypeOK'
<1>1. lines' \in Seq(Lines)
  BY ListingType DEF TypeOK, PostBack
<1>2. Len(lines') \in Nat
  BY <1>1
<1> QED
  BY <1>1, <1>2 DEF TypeOK, PostBack, Services

LEMMA NextTypeOK ==
  ASSUME TypeOK, [Next]_vars
  PROVE  TypeOK'
<1>1. CASE Next
  BY <1>1, CommentType, DelimiterType, ContentType, EndOfTextType, PrepareType, PostBackType
     DEF Next
<1>2. CASE UNCHANGED vars
  BY <1>2 DEF vars, parser, prepared, TypeOK
<1> QED
  BY <1>1, <1>2

-----------------------------------------------------------------------------
(* The loop.                                                               *)

LEMMA DelimiterIsContent == \A l : IsDelimiter(l) => ~IsComment(l) /\ ~IsBlank(l)
BY DEF IsDelimiter, IsComment, IsBlank

LEMMA StartsType ==
  ASSUME NEW t \in Seq(Lines)
  PROVE  /\ Starts(t) \in SUBSET Nat /\ Starts(t) \in SUBSET Int /\ IsFiniteSet(Starts(t))
         /\ \A i \in Starts(t) : i >= 1
<1>1. Len(t) \in Nat /\ DOMAIN t = 1..Len(t)
  OBVIOUS
<1>2. IsFiniteSet(1..(Len(t) + 1))
  BY <1>1, FS_Interval
<1>3. Starts(t) \subseteq 1..(Len(t) + 1)
  BY <1>1 DEF Starts
<1> QED
  BY <1>1, <1>2, <1>3, FS_Subset

LEMMA EntryType ==
  ASSUME NEW t \in Seq(Lines), NEW i
  PROVE  Entry(t, i) \in Seq(Lines)
<1> DEFINE P == { k \in DOMAIN t : /\ i <= k /\ ~IsComment(t[k])
                                 /\ \A j \in Starts(t) : j <= k => j <= i }
<1>1. Entry(t, i) = Trim(At(t, P)) /\ P \in SUBSET DOMAIN t
  BY DEF Entry
<1> HIDE DEF P
<1> QED
  BY <1>1, AtPositions, TrimType

\* The loop's line is the next of the body, unless it is a comment.
LEMMA BodyNext ==
  ASSUME TypeOK, next \in DOMAIN lines, NEW s \in Int, s <= next
  PROVE  /\ IsComment(lines[next]) => Body(s, next + 1) = Body(s, next)
         /\ ~IsComment(lines[next]) =>
              At(lines, Body(s, next + 1)) = Append(At(lines, Body(s, next)), lines[next])
<1>1. lines \in Seq(Lines) /\ next \in Int /\ DOMAIN lines = 1..Len(lines) /\ Len(lines) \in Nat
  BY DEF TypeOK
<1>2. \A k \in DOMAIN lines : k < next + 1 <=> k < next \/ k = next
  BY <1>1
<1>3. ASSUME IsComment(lines[next]) PROVE Body(s, next + 1) = Body(s, next)
  BY <1>2, <1>3 DEF Body
<1>4. ASSUME ~IsComment(lines[next])
      PROVE  At(lines, Body(s, next + 1)) = Append(At(lines, Body(s, next)), lines[next])
  <2>1. Body(s, next + 1) = Body(s, next) \cup {next}
    BY <1>2, <1>4 DEF Body
  <2>2. Body(s, next) \in SUBSET DOMAIN lines /\ \A i \in Body(s, next) : i < next
    BY DEF Body
  <2>3. /\ Body(s, next) \in SUBSET Int /\ IsFiniteSet(Body(s, next))
        /\ \A i \in Body(s, next) : lines[i] \in Lines
    BY <1>1, <2>2, PositionsAreFinite
  <2> QED
    BY <1>1, <2>1, <2>2, <2>3, AtNext
<1> QED
  BY <1>3, <1>4

\* At the next start, and at the end of the text, what was collected is the
\* whole entry.
LEMMA CollectedIsEntry ==
  ASSUME TypeOK, NEW s \in Starts(lines), In(s), s < next \/ next \notin DOMAIN lines,
         next \in Starts(lines) \/ next \notin DOMAIN lines
  PROVE  Trim(current) = Entry(lines, s)
<1>1. lines \in Seq(Lines) /\ next \in 1..(Len(lines) + 1) /\ DOMAIN lines = 1..Len(lines)
      /\ Len(lines) \in Nat /\ s \in Nat /\ Starts(lines) \subseteq Nat
  BY StartsType DEF TypeOK
<1>2. ASSUME NEW k \in DOMAIN lines, s <= k
      PROVE  k < next <=> \A j \in Starts(lines) : j <= k => j <= s
  <2>1. CASE next \in DOMAIN lines
    <3>1. s < next /\ next \in Starts(lines)
      BY <2>1
    <3> QED
      BY <1>1, <1>2, <2>1, <3>1 DEF In
  <2>2. CASE next \notin DOMAIN lines
    <3>1. next = Len(lines) + 1
      BY <1>1, <2>2
    <3> QED
      BY <1>1, <1>2, <3>1 DEF In
  <2> QED
    BY <2>1, <2>2
<1>3. Body(s, next) = { k \in DOMAIN lines :
                         /\ s <= k /\ ~IsComment(lines[k])
                         /\ \A j \in Starts(lines) : j <= k => j <= s }
  BY <1>2 DEF Body
<1> QED
  BY <1>3 DEF In, Entry

Upto(s) == { i \in Starts(lines) : i <= s /\ Entry(lines, i) # <<>> }

\* A push adds the entry to the blocks before it.
LEMMA PushIsNextBlock ==
  ASSUME TypeOK, NEW s \in Starts(lines), In(s), Trim(current) = Entry(lines, s)
  PROVE  Push = At(EntryOf, Upto(s))
<1>1. lines \in Seq(Lines) /\ Starts(lines) \in SUBSET Int /\ IsFiniteSet(Starts(lines)) /\ s \in Int
  BY StartsType DEF TypeOK
<1>2. Whole(s) \in SUBSET Starts(lines) /\ \A i \in Whole(s) : i < s
  BY DEF Whole
<1>3. Whole(s) \in SUBSET Int /\ IsFiniteSet(Whole(s))
  BY <1>1, <1>2, FS_Subset
<1>4. \A i \in Starts(lines) : EntryOf[i] = Entry(lines, i) /\ EntryOf[i] \in Seq(Lines)
  BY <1>1, EntryType DEF EntryOf
<1>5. \A i \in Starts(lines) : i <= s <=> i < s \/ i = s
  BY <1>1
<1>6. CASE Trim(current) = <<>>
  <2>1. Upto(s) = Whole(s)
    BY <1>5, <1>6 DEF Upto, Whole
  <2> QED
    BY <1>6, <2>1 DEF Push, In
<1>7. CASE Trim(current) # <<>>
  <2>1. Upto(s) = Whole(s) \cup {s}
    BY <1>5, <1>7 DEF Upto, Whole
  <2>2. At(EntryOf, Whole(s) \cup {s}) = Append(At(EntryOf, Whole(s)), EntryOf[s])
    BY <1>1, <1>2, <1>3, AtNext
  <2> QED
    BY <1>4, <1>7, <2>1, <2>2 DEF Push, In
<1> QED
  BY <1>6, <1>7

\* One line further in the same text.
LEMMA BodyThen ==
  ASSUME UNCHANGED <<kind, lines>>, next' = next + 1, NEW s
  PROVE  Body(s, next)' = Body(s, next + 1)
BY DEF Body, IsComment, Services

\* What is said of the text stays true while it is parsed.
LEMMA TextStays ==
  ASSUME UNCHANGED <<kind, lines>>
  PROVE  /\ (Services <=> Services') /\ EntryOf' = EntryOf
         /\ Starts(lines)' = Starts(lines) /\ Entries(lines)' = Entries(lines)
         /\ \A s : Whole(s)' = Whole(s)
         /\ \A s, n : Body(s, n)' = Body(s, n)
BY DEF Services, EntryOf, Starts, Entries, Entry, Whole, Body, Trim, IsDelimiter, IsComment

LEMMA TrimNothing == Trim(<<>>) = <<>>
<1>1. DOMAIN << >> = {}
  OBVIOUS
<1>2. Trim(<<>>) = At(<<>>, {})
  BY <1>1 DEF Trim
<1> QED
  BY <1>2, AtNone

\* A loop that starts has nothing, and nothing is before its position.
LEMMA StartAtFirst ==
  (/\ lines \in Seq(Lines) /\ next = 1 /\ current = <<>> /\ blocks = <<>>
   /\ in_entry = Services) => InLoop
<1> SUFFICES ASSUME lines \in Seq(Lines), next = 1, current = <<>>, blocks = <<>>,
                    in_entry = Services
             PROVE  InLoop
  OBVIOUS
<1>1. \A j \in Starts(lines) : j \in Nat /\ j >= 1
  BY StartsType
<1>2. CASE Services
  <2>1. 1 \in Starts(lines)
    BY <1>2 DEF Starts
  <2>2. Body(1, next) = {}
    BY DEF Body
  <2>3. Whole(1) = {}
    BY <1>1 DEF Whole
  <2>4. At(lines, Body(1, next)) = <<>> /\ At(EntryOf, Whole(1)) = <<>>
    BY <2>2, <2>3, AtNone
  <2>5. \A j \in Starts(lines) : ~ (j < next)
    BY <1>1
  <2>6. In(1)
    BY <2>1, <2>4, <2>5 DEF In
  <2> QED
    BY <1>2, <2>1, <2>6 DEF InLoop
<1>3. CASE ~Services
  BY <1>1, <1>3 DEF InLoop, BeforeEntries
<1> QED
  BY <1>2, <1>3

LEMMA InitIInv == Init => IInv
<1>1. SUFFICES ASSUME Init PROVE IInv
  OBVIOUS
<1>2. TypeOK
  BY <1>1, InitTypeOK
<1>3. lines \in Seq(Lines) /\ next = 1 /\ current = <<>> /\ blocks = <<>> /\ phase = "parse"
      /\ in_entry = Services
  BY <1>1, <1>2 DEF Init, TypeOK
<1>4. InLoop
  BY <1>3, StartAtFirst
<1> QED
  BY <1>2, <1>3, <1>4 DEF IInv

LEMMA CommentStep ==
  ASSUME IInv, Comment
  PROVE  IInv'
<1>1. TypeOK /\ TypeOK' /\ InLoop
  BY CommentType DEF IInv, Comment, AtLine
<1>2. /\ next \in DOMAIN lines /\ next' = next + 1 /\ IsComment(lines[next])
      /\ phase = "parse" /\ UNCHANGED <<kind, lines, current, in_entry, blocks, phase>>
  BY DEF Comment, AtLine
<1>3. next \notin Starts(lines) /\ next \in Nat /\ ~Services
  <2>1. ~IsDelimiter(lines[next]) /\ ~Services
    BY <1>2, DelimiterIsContent DEF IsComment
  <2> QED
    BY <1>1, <1>2, <2>1 DEF Starts, TypeOK
<1>4. /\ Starts(lines)' = Starts(lines) /\ EntryOf' = EntryOf /\ (Services' <=> Services)
      /\ \A s : Whole(s)' = Whole(s)
      /\ \A s, n : Body(s, n)' = Body(s, n)
  BY <1>2, TextStays
<1>5. /\ \A j \in Starts(lines) : j \in Nat /\ j >= 1
      /\ \A j \in Starts(lines) : j < next + 1 => j < next
  <2>1. lines \in Seq(Lines)
    BY <1>1 DEF TypeOK
  <2>2. \A j \in Starts(lines) : j \in Nat /\ j >= 1
    BY <2>1, StartsType
  <2> QED
    BY <1>3, <2>2
<1>6. ASSUME NEW s \in Starts(lines), In(s)
      PROVE  In(s)'
  <2>0. next >= 1
    BY <1>1 DEF TypeOK
  <2>1. s \in Int /\ s <= next /\ s < next + 1
    BY <1>3, <1>5, <1>6, <2>0 DEF In
  <2>2. Body(s, next + 1) = Body(s, next)
    BY <1>1, <1>2, <2>1, BodyNext
  <2>3. current' = At(lines, Body(s, next + 1))
    BY <1>2, <1>6, <2>2 DEF In
  <2>4. \A j \in Starts(lines) : j < next + 1 => j <= s
    BY <1>5, <1>6 DEF In
  <2> QED
    BY <1>2, <1>4, <1>6, <2>1, <2>3, <2>4, BodyThen DEF In
<1>7. ASSUME BeforeEntries PROVE BeforeEntries'
  <2>1. \A j \in Starts(lines) : next + 1 <= j
    BY <1>3, <1>5, <1>7 DEF BeforeEntries
  <2> QED
    BY <1>2, <1>4, <1>7, <2>1 DEF BeforeEntries
<1>8. InLoop'
  BY <1>1, <1>2, <1>4, <1>6, <1>7 DEF InLoop
<1> QED
  BY <1>1, <1>2, <1>3, <1>4, <1>8 DEF IInv

LEMMA ContentStep ==
  ASSUME IInv, Content
  PROVE  IInv'
<1>1. TypeOK /\ TypeOK' /\ InLoop
  BY ContentType DEF IInv, Content, AtLine
<1>2. /\ next \in DOMAIN lines /\ next' = next + 1
      /\ ~IsComment(lines[next]) /\ ~IsDelimiter(lines[next])
      /\ phase = "parse" /\ UNCHANGED <<kind, lines, in_entry, blocks, phase>>
      /\ current' = IF in_entry THEN Append(current, lines[next]) ELSE current
  BY DEF Content, AtLine
<1>3. /\ next \in Nat /\ (Services => in_entry)
      /\ next \in Starts(lines) => Services /\ next = 1
  BY <1>1, <1>2 DEF Starts, TypeOK, IInv
<1>4. /\ Starts(lines)' = Starts(lines) /\ EntryOf' = EntryOf /\ (Services' <=> Services)
      /\ \A s : Whole(s)' = Whole(s)
      /\ \A s, n : Body(s, n)' = Body(s, n)
  BY <1>2, TextStays
<1>5. /\ \A j \in Starts(lines) : j \in Nat /\ j >= 1
      /\ \A j \in Starts(lines) : j < next + 1 => j < next \/ (j = next /\ Services /\ next = 1)
  <2>1. lines \in Seq(Lines)
    BY <1>1 DEF TypeOK
  <2>2. \A j \in Starts(lines) : j \in Nat /\ j >= 1
    BY <2>1, StartsType
  <2> QED
    BY <1>3, <2>2
<1>6. ASSUME NEW s \in Starts(lines), In(s), in_entry
      PROVE  In(s)'
  <2>1. s \in Nat /\ s <= next
    BY <1>3, <1>5, <1>6, <1>1 DEF In, TypeOK
  <2>2. At(lines, Body(s, next + 1)) = Append(At(lines, Body(s, next)), lines[next])
    BY <1>1, <1>2, <2>1, BodyNext
  <2>3. current' = At(lines, Body(s, next + 1))
    BY <1>2, <1>6, <2>2 DEF In
  <2>4. \A j \in Starts(lines) : j < next + 1 => j <= s
    BY <1>3, <1>5, <1>6, <2>1 DEF In
  <2>5. s < next + 1
    BY <1>3, <2>1
  <2> QED
    BY <1>2, <1>4, <1>6, <2>3, <2>4, <2>5, BodyThen DEF In
<1>7. ASSUME BeforeEntries, ~in_entry PROVE BeforeEntries'
  <2>1. \A j \in Starts(lines) : next + 1 <= j
    BY <1>3, <1>5, <1>7 DEF BeforeEntries
  <2> QED
    BY <1>2, <1>4, <1>7, <2>1 DEF BeforeEntries
<1>8. InLoop'
  BY <1>1, <1>2, <1>4, <1>6, <1>7 DEF InLoop
<1> QED
  BY <1>1, <1>2, <1>3, <1>4, <1>8 DEF IInv

LEMMA DelimiterStep ==
  ASSUME IInv, Delimiter
  PROVE  IInv'
<1>1. TypeOK /\ TypeOK' /\ InLoop
  BY DelimiterType DEF IInv, Delimiter, AtLine
<1>2. /\ next \in DOMAIN lines /\ next' = next + 1 /\ IsDelimiter(lines[next])
      /\ phase = "parse" /\ UNCHANGED <<kind, lines, phase>>
      /\ current' = <<lines[next]>> /\ blocks' = Push /\ in_entry' = TRUE
  BY DEF Delimiter, AtLine
<1>3. next \in Nat /\ next \in Starts(lines) /\ lines \in Seq(Lines) /\ ~IsComment(lines[next])
  BY <1>1, <1>2, DelimiterIsContent DEF Starts, TypeOK
<1>4. /\ Starts(lines)' = Starts(lines) /\ EntryOf' = EntryOf /\ (Services' <=> Services)
      /\ \A s : Whole(s)' = Whole(s)
      /\ \A s, n : Body(s, n)' = Body(s, n)
  BY <1>2, TextStays
<1>5. \A j \in Starts(lines) : j \in Nat /\ j >= 1
  BY <1>3, StartsType
<1>6. blocks' = At(EntryOf, Whole(next))
  <2>1. CASE ~in_entry
    <3>1. current = <<>> /\ blocks = <<>> /\ \A j \in Starts(lines) : next <= j
      BY <1>1, <2>1 DEF InLoop, BeforeEntries
    <3>2. \A j \in Starts(lines) : ~ (j < next)
      BY <1>3, <1>5, <3>1
    <3>2a. Whole(next) = {}
      BY <3>2 DEF Whole
    <3>3. Trim(current) = <<>>
      BY <3>1, TrimNothing
    <3> QED
      BY <1>2, <3>1, <3>2a, <3>3, AtNone DEF Push
  <2>2. CASE in_entry
    <3>1. PICK s \in Starts(lines) : In(s)
      BY <1>1, <2>2 DEF InLoop
    <3>2. CASE s < next
      <4>1. Trim(current) = Entry(lines, s)
        BY <1>1, <1>3, <3>1, <3>2, CollectedIsEntry
      <4>2. Push = At(EntryOf, Upto(s))
        BY <1>1, <3>1, <4>1, PushIsNextBlock
      <4>3. \A j \in Starts(lines) : j < next <=> j <= s
        BY <1>3, <1>5, <3>1, <3>2 DEF In
      <4>4. Whole(next) = Upto(s)
        BY <4>3 DEF Whole, Upto
      <4> QED
        BY <1>2, <4>2, <4>4
    <3>3. CASE ~ (s < next)
      <4>1. s = 1 /\ next = 1
        BY <1>3, <1>5, <3>1, <3>3 DEF In
      <4>2. Body(s, next) = {} /\ Whole(next) = Whole(s)
        BY <1>1, <4>1 DEF Body, TypeOK
      <4>3. current = <<>> /\ blocks = At(EntryOf, Whole(next))
        BY <3>1, <4>2, AtNone DEF In
      <4>4. Trim(current) = <<>>
        BY <4>3, TrimNothing
      <4> QED
        BY <1>2, <4>3, <4>4 DEF Push
    <3> QED
      BY <3>2, <3>3
  <2> QED
    BY <2>1, <2>2
<1>7. current' = At(lines, Body(next, next + 1))
  <2>0. next \in Int /\ next <= next
    BY <1>3
  <2>1. Body(next, next) = {}
    BY <1>1, <1>3 DEF Body, TypeOK
  <2>2. At(lines, Body(next, next)) = <<>>
    BY <2>1, AtNone
  <2>3. At(lines, Body(next, next + 1)) = Append(<<>>, lines[next])
    BY <1>1, <1>2, <1>3, <2>0, <2>2, BodyNext
  <2> QED
    BY <1>2, <2>3
<1>8. \A j \in Starts(lines) : j < next + 1 => j <= next
  BY <1>3, <1>5
<1>9. (\E s \in Starts(lines) : In(s))'
  <2>1. PICK s \in Nat : s = next
    BY <1>3
  <2>2. In(s)'
    <3>1. /\ s \in Starts(lines)' /\ s < next'
          /\ \A j \in Starts(lines) : j < next' => j <= s
          /\ current' = At(lines, Body(s, next + 1))
          /\ blocks' = At(EntryOf, Whole(s))
      BY <1>2, <1>3, <1>4, <1>6, <1>7, <1>8, <2>1
    <3>2. current' = At(lines', Body(s, next)')
      BY <1>2, <3>1, BodyThen
    <3> QED
      BY <1>4, <3>1, <3>2 DEF In
  <2> QED
    BY <1>3, <1>4, <2>1, <2>2
<1>10. InLoop'
  BY <1>2, <1>9 DEF InLoop
<1> QED
  BY <1>1, <1>2, <1>4, <1>10 DEF IInv

LEMMA EntriesAreEntries ==
  Entries(lines) = At(EntryOf, { i \in Starts(lines) : Entry(lines, i) # <<>> })
BY DEF Entries, EntryOf

LEMMA EndOfTextStep ==
  ASSUME IInv, EndOfText
  PROVE  IInv'
<1>1. TypeOK /\ TypeOK' /\ InLoop
  BY EndOfTextType DEF IInv, EndOfText
<1>2. /\ next \notin DOMAIN lines /\ UNCHANGED <<kind, lines, in_entry>>
      /\ blocks' = Push /\ phase' = "parsed"
  BY DEF EndOfText
<1>3. next \in Nat /\ lines \in Seq(Lines) /\ \A k \in DOMAIN lines : k < next
  BY <1>1, <1>2 DEF TypeOK
<1>4. \A j \in Starts(lines) : j \in Nat /\ j >= 1 /\ (j < next \/ (j = 1 /\ Services))
  BY <1>3, StartsType DEF Starts
<1>5. Push = Entries(lines)
  <2>1. CASE ~in_entry
    <3>1. /\ ~Services /\ current = <<>> /\ blocks = <<>>
          /\ \A j \in Starts(lines) : next <= j
      BY <1>1, <2>1 DEF InLoop, BeforeEntries
    <3>2. Starts(lines) = {}
      BY <1>3, <1>4, <3>1
    <3>3. Entries(lines) = <<>>
      BY <3>2, EntriesAreEntries, AtNone
    <3> QED
      BY <3>1, <3>3, TrimNothing DEF Push
  <2>2. CASE in_entry
    <3>1. PICK s \in Starts(lines) : In(s)
      BY <1>1, <2>2 DEF InLoop
    <3>2. Push = At(EntryOf, Upto(s))
      BY <1>1, <1>2, <3>1, CollectedIsEntry, PushIsNextBlock
    <3>3. \A j \in Starts(lines) : j <= s
      BY <1>4, <3>1 DEF In
    <3>4. Upto(s) = { i \in Starts(lines) : Entry(lines, i) # <<>> }
      BY <3>3 DEF Upto
    <3> QED
      BY <3>2, <3>4, EntriesAreEntries
  <2> QED
    BY <2>1, <2>2
<1>6. Entries(lines)' = Entries(lines) /\ (Services' <=> Services)
  BY <1>2, TextStays
<1> QED
  BY <1>1, <1>2, <1>5, <1>6 DEF IInv

LEMMA PrepareStep ==
  ASSUME IInv, Prepare
  PROVE  IInv'
<1>1. /\ phase = "parsed" /\ phase' = "loaded"
      /\ UNCHANGED <<kind, lines, in_entry, blocks>>
  BY DEF Prepare, parser
<1>2. Entries(lines)' = Entries(lines) /\ (Services' <=> Services)
  BY <1>1, TextStays
<1>3. TypeOK'
  BY PrepareType DEF IInv
<1> QED
  BY <1>1, <1>2, <1>3 DEF IInv

LEMMA PostBackStep ==
  ASSUME IInv, PostBack
  PROVE  IInv'
<1>1. TypeOK'
  BY PostBackType DEF IInv
<1>2. /\ lines' \in Seq(Lines) /\ next' = 1 /\ current' = <<>> /\ blocks' = <<>>
      /\ in_entry' = Services' /\ phase' = "parse"
  BY <1>1 DEF PostBack, TypeOK, Services
<1>3. InLoop'
  <2>1. ((/\ lines \in Seq(Lines) /\ next = 1 /\ current = <<>> /\ blocks = <<>>
           /\ in_entry = Services) => InLoop)'
    BY StartAtFirst, PTL
  <2> QED
    BY <1>2, <2>1
<1> QED
  BY <1>1, <1>2, <1>3 DEF IInv

LEMMA StutterStep ==
  ASSUME IInv, UNCHANGED vars
  PROVE  IInv'
<1>1. UNCHANGED <<kind, lines, next, current, in_entry, blocks, phase>>
  BY DEF vars, parser
<1>2. TypeOK'
  BY NextTypeOK DEF IInv
<1> QED
  BY <1>1, <1>2, TextStays DEF IInv, InLoop, In, BeforeEntries

\* Every step keeps the loop where it belongs in the text.
LEMMA NextIInv ==
  ASSUME IInv, [Next]_vars
  PROVE  IInv'
BY CommentStep, DelimiterStep, ContentStep, EndOfTextStep, PrepareStep, PostBackStep, StutterStep
   DEF Next

-----------------------------------------------------------------------------
(* The keys.                                                               *)

LEMMA AtFirst ==
  ASSUME NEW s, NEW n \in Nat
  PROVE  At(s, 1..n) = [k \in 1..n |-> s[k]]
<1>1. PICK a \in Int : a = 1
  OBVIOUS
<1>2. At(s, a..(a + n - 1)) = [k \in 1..n |-> s[a + k - 1]]
  BY AtInterval
<1>3. a..(a + n - 1) = 1..n /\ \A k \in 1..n : a + k - 1 = k
  BY <1>1
<1> QED
  BY <1>2, <1>3

LEMMA AtAll == \A S, d : d \in Seq(S) => At(d, DOMAIN d) = d
<1>1. SUFFICES ASSUME NEW S, NEW d \in Seq(S) PROVE At(d, DOMAIN d) = d
  OBVIOUS
<1> DEFINE n == Len(d)
<1>2. n \in Nat /\ DOMAIN d = 1..n /\ d = [k \in 1..n |-> d[k]]
  OBVIOUS
<1> HIDE DEF n
<1>3. At(d, 1..n) = [k \in 1..n |-> d[k]]
  BY <1>2, AtFirst
<1> QED
  BY <1>2, <1>3

\* A key made of the lines of its document, and empty only with it.
Fits(key, doc) ==
  /\ key = <<>> => doc = <<>>
  /\ \E at \in SUBSET DOMAIN doc : key = At(doc, at)

LEMMA DocumentFits == \A d \in Seq(Lines) : Fits(d, d)
BY AtAll DEF Fits

LEMMA DescriptionFits ==
  ASSUME NEW d \in Seq(Lines)
  PROVE  Fits(Description(d), d)
<1>1. CASE Len(d) <= 4
  BY <1>1, DocumentFits DEF Description
<1>2. CASE ~ (Len(d) <= 4)
  <2>1. 1..4 \in SUBSET DOMAIN d
    BY <1>2
  <2>2. 4 \in Nat /\ 1 \in 1..4
    OBVIOUS
  <2>4. At(d, 1..4) = [k \in 1..4 |-> d[k]]
    BY <2>2, AtFirst
  <2>5. SubSeq(d, 1, 4) = [k \in 1..4 |-> d[k]]
    OBVIOUS
  <2>6. SubSeq(d, 1, 4) # <<>>
    <3>1. DOMAIN << >> = {}
      OBVIOUS
    <3>2. DOMAIN SubSeq(d, 1, 4) = 1..4
      BY <2>5, Zenon
    <3> QED
      BY <2>2, <3>1, <3>2
  <2> QED
    BY <1>2, <2>1, <2>4, <2>5, <2>6 DEF Description, Fits
<1> QED
  BY <1>1, <1>2

LEMMA QuestionFits ==
  ASSUME NEW b \in Seq(Lines) \ {<<>>}
  PROVE  Fits(Question(b), b)
<1> DEFINE P == { i \in 2..Len(b) :
                   /\ ~IsBlank(b[i])
                   /\ \A j \in 2..i : b[j].is \notin {"mark", "head"} }
<1>1. P \in SUBSET DOMAIN b
  OBVIOUS
<1>2. Asked(b) = At(b, P)
  BY Zenon DEF Asked
<1> HIDE DEF P
<1> QED
  BY <1>1, <1>2, DocumentFits DEF Question, Fits

LEMMA PrepareKeys ==
  ASSUME TypeOK, Prepare, NEW n \in DOMAIN stored'
  PROVE  Fits(keys'[n], stored'[n])
<1>1. /\ stored' \in Seq(Seq(Lines)) /\ keys' \in Seq(Seq(Lines))
      /\ Len(stored') = Len(blocks) /\ Len(keys') = Len(blocks)
  BY PreparedType
<1>2. n \in DOMAIN blocks /\ stored'[n] \in Seq(Lines) /\ blocks[n] \in Seq(Lines) \ {<<>>}
  BY <1>1 DEF TypeOK
<1>3. CASE Services
  <2>1. keys' = [i \in DOMAIN blocks |-> Description(stored'[i])]
    BY <1>3 DEF Prepare, Services
  <2> QED
    BY <1>2, <2>1, DescriptionFits
<1>4. CASE ~Services /\ kind = "notas"
  <2>1. keys' = stored'
    BY <1>4 DEF Prepare
  <2> QED
    BY <1>2, <2>1, DocumentFits
<1>5. CASE ~Services /\ kind # "notas"
  <2>1. keys' = [i \in DOMAIN blocks |-> Question(blocks[i])] /\ stored' = blocks
    BY <1>5 DEF Prepare
  <2> QED
    BY <1>2, <2>1, QuestionFits
<1> QED
  BY <1>3, <1>4, <1>5

LEMMA NextKeysFit ==
  ASSUME TypeOK, KeysFit, [Next]_vars
  PROVE  KeysFit'
<1>1. CASE Prepare
  <2>1. Len(keys') = Len(stored')
    BY <1>1, PreparedType
  <2> QED
    BY <1>1, <2>1, PrepareKeys DEF KeysFit, Fits
<1>2. CASE Comment \/ Delimiter \/ Content \/ EndOfText \/ PostBack
  <2>1. phase' # "loaded"
    BY <1>2 DEF Comment, Delimiter, Content, EndOfText, PostBack, AtLine
  <2> QED
    BY <2>1 DEF KeysFit
<1>3. CASE UNCHANGED vars
  BY <1>3 DEF KeysFit, vars, prepared
<1> QED
  BY <1>1, <1>2, <1>3 DEF Next

-----------------------------------------------------------------------------
(* What a load stores, and its listing.                                    *)

\* A document of services holds no blank line, separator or link; any other
\* document begins with its only delimiter, ends in content and has no comment.
Storable(d) ==
  IF Services
    THEN \A i \in DOMAIN d : d[i].is \notin {"blank", "slash", "bare", "link"}
    ELSE /\ d # <<>> /\ IsDelimiter(d[1]) /\ ~IsBlank(d[Len(d)])
         /\ \A i \in DOMAIN d : ~IsComment(d[i]) /\ (IsDelimiter(d[i]) => i = 1)

\* Where the block of a document begins in what is shown of it, and the block.
Off == IF Services THEN 2 ELSE 3
BlockOf(d) == IF Services THEN <<Added("slash")>> \o d ELSE d

\* Positions before all the others give the beginning.
LEMMA AtJoin ==
  ASSUME NEW s, NEW P \in SUBSET Int, IsFiniteSet(P), NEW R \in SUBSET Int, IsFiniteSet(R),
         \A i \in P, j \in R : i < j
  PROVE  /\ Cardinality(P) \in Nat /\ Cardinality(R) \in Nat
         /\ DOMAIN At(s, P \cup R) = 1..(Cardinality(P) + Cardinality(R))
         /\ \A k \in 1..Cardinality(P) : At(s, P \cup R)[k] = s[Nth(P, k)]
         /\ \A k \in 1..(Cardinality(P) + Cardinality(R)) :
              ~ (k <= Cardinality(P)) => \E i \in R : At(s, P \cup R)[k] = s[i]
<1> DEFINE n == Cardinality(P)
           m == Cardinality(R)
           f == [k \in 1..(n + m) |-> IF k <= n THEN Nth(P, k) ELSE Nth(R, k - n)]
           Q == P \cup R
<1>1. /\ n \in Nat
      /\ \A k \in 1..n : Nth(P, k) \in P
      /\ \A j, k \in 1..n : j < k => Nth(P, j) < Nth(P, k)
      /\ \A i \in P : \E k \in 1..n : Nth(P, k) = i
  BY NthType
<1>2. /\ m \in Nat
      /\ \A k \in 1..m : Nth(R, k) \in R
      /\ \A j, k \in 1..m : j < k => Nth(R, j) < Nth(R, k)
      /\ \A i \in R : \E k \in 1..m : Nth(R, k) = i
  BY NthType
<1> HIDE DEF n, m
<1>3. /\ \A k \in 1..(n + m) : k <= n => k \in 1..n
      /\ \A k \in 1..(n + m) : ~ (k <= n) => k - n \in 1..m
      /\ \A k \in 1..n : k \in 1..(n + m) /\ k <= n
      /\ \A k \in 1..m : n + k \in 1..(n + m) /\ ~ (n + k <= n) /\ (n + k) - n = k
  BY <1>1, <1>2
<1>4. n + m \in Nat /\ Q \subseteq Int /\ f \in [1..(n + m) -> Q]
  BY <1>1, <1>2, <1>3
<1>5. ASSUME NEW j \in 1..(n + m), NEW k \in 1..(n + m), j < k PROVE f[j] < f[k]
  <2>1. CASE k <= n
    <3>1. j \in 1..n /\ k \in 1..n /\ j <= n
      BY <1>1, <1>5, <2>1
    <3> QED
      BY <1>1, <1>5, <2>1, <3>1
  <2>2. CASE j <= n /\ ~ (k <= n)
    BY <1>1, <1>2, <1>3, <2>2
  <2>3. CASE ~ (j <= n)
    <3>1. ~ (k <= n) /\ j - n \in 1..m /\ k - n \in 1..m /\ j - n < k - n
      BY <1>1, <1>2, <1>5, <2>3
    <3> QED
      BY <1>2, <2>3, <3>1
  <2> QED
    BY <2>1, <2>2, <2>3
<1>6. ASSUME NEW i \in Q PROVE \E k \in 1..(n + m) : f[k] = i
  <2>1. CASE i \in P
    <3>1. PICK k \in 1..n : Nth(P, k) = i
      BY <1>1, <2>1
    <3> QED
      BY <1>3, <3>1
  <2>2. CASE i \in R
    <3>1. PICK k \in 1..m : Nth(R, k) = i
      BY <1>2, <2>2
    <3>2. f[n + k] = i
      BY <1>3, <3>1
    <3> HIDE DEF f
    <3> QED
      BY <1>3, <3>2
  <2> QED
    BY <2>1, <2>2
<1>7. Counts(f, n + m, Q)
  <2> HIDE DEF f, Q
  <2> QED
    BY <1>4, <1>5, <1>6 DEF Counts
<1>8. At(s, Q) = [k \in 1..(n + m) |-> s[f[k]]]
  <2> HIDE DEF f, Q
  <2> QED
    BY <1>7, AtIs
<1>9. \A k \in 1..(n + m) : s[f[k]] = IF k <= n THEN s[Nth(P, k)] ELSE s[Nth(R, k - n)]
  OBVIOUS
<1> HIDE DEF f, Q
<1>10. DOMAIN At(s, Q) = 1..(n + m)
       /\ \A k \in 1..(n + m) :
            At(s, Q)[k] = IF k <= n THEN s[Nth(P, k)] ELSE s[Nth(R, k - n)]
  BY <1>8, <1>9, Zenon
<1>11. \A k \in 1..n : At(s, Q)[k] = s[Nth(P, k)]
  BY <1>3, <1>10
<1>12. ASSUME NEW k \in 1..(n + m), ~ (k <= n) PROVE \E i \in R : At(s, Q)[k] = s[i]
  BY <1>2, <1>3, <1>10, <1>12
<1> QED
  BY <1>1, <1>2, <1>10, <1>11, <1>12 DEF n, m, Q

\* Blank lines leave nothing.
LEMMA TrimBlank ==
  ASSUME NEW t \in Seq(Lines), NEW Q \in SUBSET DOMAIN t, \A q \in Q : IsBlank(t[q])
  PROVE  Trim(At(t, Q)) = <<>>
<1> DEFINE e == At(t, Q)
           solid == { i \in DOMAIN e : ~IsBlank(e[i]) }
           kept == { i \in DOMAIN e : \E j, k \in solid : j <= i /\ i <= k }
<1>1. \A i \in DOMAIN e : \E q \in Q : e[i] = t[q]
  BY PositionsAreFinite, AtType
<1>2. solid = {}
  BY <1>1
<1>3. kept = {}
  BY <1>2
<1>4. Trim(e) = At(e, kept)
  BY Zenon DEF Trim
<1> HIDE DEF e, kept
<1> QED
  BY <1>3, <1>4, AtNone DEF e

\* Lines from content to content are what a trim leaves of them and the blank
\* lines after them.
LEMMA TrimTail ==
  ASSUME NEW t \in Seq(Lines), NEW Q \in SUBSET DOMAIN t, NEW a \in Nat, NEW n \in Nat \ {0},
         a..(a + n - 1) \subseteq Q, ~IsBlank(t[a]), ~IsBlank(t[a + n - 1]),
         \A q \in Q : a <= q,
         \A q \in Q : a + n <= q => IsBlank(t[q]),
         NEW w \in Seq(Lines), Len(w) = n, \A k \in 1..n : w[k] = t[a + k - 1]
  PROVE  Trim(At(t, Q)) = w
<1> DEFINE I == a..(a + n - 1)
           R == { q \in Q : a + n <= q }
           m == Cardinality(R)
           e == At(t, Q)
<1>0. Q \in SUBSET Int
  BY PositionsAreFinite
<1>1. Q = I \cup R /\ \A i \in I, j \in R : i < j
  BY <1>0
<1>2. /\ IsFiniteSet(I) /\ Cardinality(I) = n /\ I \in SUBSET Int
      /\ \A k \in 1..n : Nth(I, k) = a + k - 1
  <2>1. a \in Int /\ n \in Nat /\ I \in SUBSET Int
    OBVIOUS
  <2>2. /\ IsFiniteSet(a..(a + n - 1)) /\ Cardinality(a..(a + n - 1)) = n
        /\ \A k \in 1..n : Nth(a..(a + n - 1), k) = a + k - 1
    BY <2>1, IntervalCounts, Zenon
  <2> QED
    BY <2>1, <2>2, Zenon
<1>3. R \in SUBSET Int /\ IsFiniteSet(R)
  BY PositionsAreFinite
<1>4. \A q \in R : IsBlank(t[q])
  OBVIOUS
<1> HIDE DEF I, R
<1>5. /\ Cardinality(I) \in Nat /\ Cardinality(R) \in Nat
      /\ DOMAIN At(t, I \cup R) = 1..(Cardinality(I) + Cardinality(R))
      /\ \A k \in 1..Cardinality(I) : At(t, I \cup R)[k] = t[Nth(I, k)]
      /\ \A k \in 1..(Cardinality(I) + Cardinality(R)) :
           ~ (k <= Cardinality(I)) => \E i \in R : At(t, I \cup R)[k] = t[i]
  BY <1>1, <1>2, <1>3, AtJoin
<1>6. /\ m \in Nat /\ DOMAIN e = 1..(n + m)
      /\ \A k \in 1..n : e[k] = t[Nth(I, k)]
      /\ \A k \in 1..(n + m) : ~ (k <= n) => \E i \in R : e[k] = t[i]
  BY <1>1, <1>2, <1>5
<1> HIDE DEF m
<1>7. DOMAIN e = 1..(n + m) /\ n \in 1..n /\ 1 \in 1..n /\ 1..n \subseteq 1..(n + m)
  BY <1>6
<1>8. \A k \in 1..n : e[k] = t[a + k - 1]
  BY <1>2, <1>6
<1>9. \A k \in 1..(n + m) : ~ (k <= n) => IsBlank(e[k])
  BY <1>4, <1>6
<1> HIDE DEF e
<1>10. ~IsBlank(e[1]) /\ ~IsBlank(e[n])
  <2>1. a + 1 - 1 = a
    OBVIOUS
  <2> QED
    BY <1>7, <1>8, <2>1
<1> DEFINE solid == { i \in DOMAIN e : ~IsBlank(e[i]) }
           kept == { i \in DOMAIN e : \E j, k \in solid : j <= i /\ i <= k }
<1>11. 1 \in solid /\ n \in solid /\ \A i \in solid : i \in 1..n
  <2>1. 1 \in DOMAIN e /\ n \in DOMAIN e
    BY <1>7
  <2>2. ASSUME NEW i \in DOMAIN e, ~IsBlank(e[i]) PROVE i \in 1..n
    <3>1. i \in 1..(n + m) /\ i <= n
      BY <1>7, <1>9, <2>2
    <3> QED
      BY <1>6, <3>1
  <2> QED
    BY <1>10, <2>1, <2>2
<1>12. kept = 1..n
  <2>1. 1..n \subseteq kept
    <3> SUFFICES ASSUME NEW i \in 1..n PROVE i \in kept
      OBVIOUS
    <3>1. i \in DOMAIN e /\ 1 <= i /\ i <= n
      BY <1>7
    <3> HIDE DEF solid
    <3> QED
      BY <1>11, <3>1
  <2>2. ASSUME NEW i \in kept PROVE i \in 1..n
    <3>1. PICK k \in solid : i <= k
      OBVIOUS
    <3>2. i \in 1..(n + m) /\ k \in 1..n
      BY <1>7, <1>11
    <3> QED
      BY <3>1, <3>2
  <2> QED
    BY <2>1, <2>2
<1>13. Trim(e) = At(e, kept)
  BY Zenon DEF Trim
<1> HIDE DEF kept
<1>14. Trim(e) = [k \in 1..n |-> e[k]]
  BY <1>12, <1>13, AtFirst
<1>15. w = [k \in 1..n |-> w[k]]
  OBVIOUS
<1> QED
  BY <1>8, <1>14, <1>15 DEF e

\* The last of some positions.
LEMMA LastPosition ==
  ASSUME NEW P \in SUBSET Int, IsFiniteSet(P), P # {}
  PROVE  \E m \in P : \A i \in P : i <= m
<1> DEFINE n == Cardinality(P)
<1>1. /\ n \in Nat
      /\ \A k \in 1..n : Nth(P, k) \in P
      /\ \A j, k \in 1..n : j < k => Nth(P, j) < Nth(P, k)
      /\ \A i \in P : \E k \in 1..n : Nth(P, k) = i
  BY NthType
<1> HIDE DEF n
<1>2. n \in 1..n
  <2>1. 1..n # {}
    BY <1>1
  <2> QED
    BY <1>1, <2>1
<1>3. ASSUME NEW i \in P PROVE i <= Nth(P, n)
  <2>1. PICK k \in 1..n : Nth(P, k) = i
    BY <1>1
  <2>2. k = n \/ k < n
    BY <1>1
  <2>3. Nth(P, k) \in Int /\ Nth(P, n) \in Int
    BY <1>1, <1>2
  <2> QED
    BY <1>1, <1>2, <2>1, <2>2, <2>3
<1> QED
  BY <1>1, <1>2, <1>3

\* The block of an entry that a delimiter opens.
LEMMA EntryIsStorable ==
  ASSUME ~Services, NEW t \in Seq(Lines), NEW i \in Starts(t)
  PROVE  Storable(Entry(t, i))
<1> DEFINE Q == { k \in DOMAIN t : /\ i <= k /\ ~IsComment(t[k])
                                 /\ \A j \in Starts(t) : j <= k => j <= i }
           e == At(t, Q)
           n == Cardinality(Q)
<1>1. i \in DOMAIN t /\ IsDelimiter(t[i]) /\ i \in Int /\ ~IsBlank(t[i]) /\ ~IsComment(t[i])
  BY DelimiterIsContent DEF Starts
<1>2. /\ Q \in SUBSET DOMAIN t /\ Q \in SUBSET Int /\ IsFiniteSet(Q)
  <2>1. Q \in SUBSET DOMAIN t
    OBVIOUS
  <2> HIDE DEF Q
  <2> QED
    BY <2>1, PositionsAreFinite
<1>3. i \in Q /\ \A k \in Q : i <= k /\ ~IsComment(t[k]) /\ (IsDelimiter(t[k]) => k = i)
  <2>1. i \in Q
    BY <1>1
  <2>2. ASSUME NEW k \in Q, IsDelimiter(t[k]) PROVE k = i
    <3>1. k \in Starts(t) /\ k \in Int /\ k <= k /\ i <= k
      BY <2>2 DEF Starts
    <3>2. k <= i
      BY <3>1
    <3> QED
      BY <1>1, <3>1, <3>2
  <2> QED
    BY <2>1, <2>2
<1>4. Entry(t, i) = Trim(e)
  BY Zenon DEF Entry
<1> HIDE DEF Q
<1>5. /\ n \in Nat
      /\ \A k \in 1..n : Nth(Q, k) \in Q
      /\ \A j, k \in 1..n : j < k => Nth(Q, j) < Nth(Q, k)
      /\ \A q \in Q : \E k \in 1..n : Nth(Q, k) = q
  BY <1>2, NthType
<1> HIDE DEF n
<1>6. DOMAIN e = 1..n /\ \A k \in 1..n : e[k] = t[Nth(Q, k)]
  BY DEF At, n
<1>7. 1 \in 1..n /\ Nth(Q, 1) = i
  <2>1. PICK k \in 1..n : Nth(Q, k) = i
    BY <1>3, <1>5
  <2>2. 1 \in 1..n /\ (k = 1 \/ 1 < k)
    BY <1>5
  <2>3. Nth(Q, 1) \in Int /\ i <= Nth(Q, 1)
    BY <1>2, <1>3, <1>5, <2>2
  <2> QED
    BY <1>1, <1>5, <2>1, <2>2, <2>3
<1>8. ASSUME NEW k \in 1..n
      PROVE  ~IsComment(e[k]) /\ (IsDelimiter(e[k]) => k = 1)
  <2>1. Nth(Q, k) = i => k = 1
    <3>1. k = 1 \/ 1 < k
      OBVIOUS
    <3> QED
      BY <1>1, <1>5, <1>7, <3>1
  <2> QED
    BY <1>3, <1>5, <1>6, <2>1
<1> DEFINE solid == { j \in DOMAIN e : ~IsBlank(e[j]) }
           kept == { m \in DOMAIN e : \E j, k \in solid : j <= m /\ m <= k }
<1>9. 1 \in solid /\ solid \in SUBSET Int /\ IsFiniteSet(solid) /\ solid \subseteq 1..n
  <2>1. IsFiniteSet(1..n)
    BY <1>5, FS_Interval
  <2>2. solid \subseteq 1..n
    BY <1>6
  <2>3. IsFiniteSet(solid)
    BY <2>1, <2>2, FS_Subset
  <2>4. 1 \in solid
    BY <1>1, <1>6, <1>7
  <2> QED
    BY <2>2, <2>3, <2>4
<1>10. Trim(e) = At(e, kept)
  BY Zenon DEF Trim
<1>11. PICK m \in solid : \A j \in solid : j <= m
  <2> HIDE DEF solid
  <2> QED
    BY <1>9, LastPosition
<1>12. m \in 1..n /\ ~IsBlank(e[m]) /\ m \in Nat /\ m # 0
  BY <1>6
<1> HIDE DEF e
<1>13. kept = 1..m
  <2>1. ASSUME NEW j \in 1..m PROVE j \in kept
    <3>1. j \in DOMAIN e /\ 1 <= j /\ j <= m
      BY <1>5, <1>6, <1>12
    <3> HIDE DEF solid
    <3> QED
      BY <1>9, <1>11, <3>1
  <2>2. ASSUME NEW j \in kept PROVE j \in 1..m
    <3>1. PICK k \in solid : j <= k
      OBVIOUS
    <3>2. j \in 1..n /\ k \in 1..n /\ k <= m
      BY <1>6, <1>9, <1>11
    <3> QED
      BY <1>12, <3>1, <3>2
  <2> QED
    BY <2>1, <2>2
<1> HIDE DEF kept, solid
<1>14. Entry(t, i) = [k \in 1..m |-> e[k]]
  BY <1>4, <1>10, <1>12, <1>13, AtFirst
<1> DEFINE d == [k \in 1..m |-> e[k]]
<1>15. /\ DOMAIN d = 1..m /\ Len(d) = m /\ d # <<>>
       /\ \A k \in 1..m : d[k] = e[k] /\ k \in 1..n
       /\ 1 \in 1..m /\ m \in 1..m
  <2>1. DOMAIN d = 1..m /\ \A k \in 1..m : d[k] = e[k]
    BY Zenon
  <2>1a. 1 \in 1..m /\ m \in 1..m /\ \A k \in 1..m : k \in 1..n
    <3>1. m \in Int /\ m >= 1 /\ m <= n
      BY <1>5, <1>12
    <3> HIDE DEF solid, d
    <3> QED
      BY <1>5, <3>1
  <2> DEFINE S == { e[k] : k \in 1..m }
  <2>2. Len(d) = m
    <3>1. d \in [1..m -> S]
      OBVIOUS
    <3>2. \A T, s : s \in [1..m -> T] => Len(s) = m
      BY <1>12
    <3> QED
      BY <3>1, <3>2, Zenon
  <2>3. DOMAIN << >> = {}
    OBVIOUS
  <2> HIDE DEF d
  <2> QED
    BY <2>1, <2>1a, <2>2, <2>3
<1> HIDE DEF d
<1>16. Storable(d)
  BY <1>1, <1>6, <1>7, <1>8, <1>12, <1>15 DEF Storable
<1> QED
  BY <1>14, <1>16 DEF d

\* A document of services, of the lines its block keeps.
LEMMA CleanedIsStorable ==
  ASSUME Services, NEW b \in Seq(Lines)
  PROVE  Storable(Cleaned(b))
<1> DEFINE P == { i \in DOMAIN b : b[i].is \notin {"blank", "slash", "bare", "link"} }
<1>1. Cleaned(b) = At(b, P) /\ P \in SUBSET DOMAIN b
  BY DEF Cleaned, Without
<1>2. \A i \in P : b[i].is \notin {"blank", "slash", "bare", "link"}
  OBVIOUS
<1> HIDE DEF P
<1>3. \A k \in DOMAIN At(b, P) : \E i \in P : At(b, P)[k] = b[i]
  BY <1>1, PositionsAreFinite, AtType
<1> QED
  BY <1>1, <1>2, <1>3 DEF Storable

LEMMA EntriesAreStorable ==
  ASSUME ~Services, lines \in Seq(Lines), NEW n \in DOMAIN Entries(lines)
  PROVE  Storable(Entries(lines)[n])
<1> DEFINE P == { i \in Starts(lines) : Entry(lines, i) # <<>> }
<1>1. Entries(lines) = At(EntryOf, P)
  BY EntriesAreEntries
<1>2. P \in SUBSET Starts(lines)
  OBVIOUS
<1> HIDE DEF P
<1>3. P \in SUBSET Int /\ IsFiniteSet(P)
  BY <1>2, StartsType, FS_Subset
<1>4. \E i \in P : Entries(lines)[n] = EntryOf[i]
  BY <1>1, <1>3, NthType DEF At
<1> QED
  BY <1>2, <1>4, EntryIsStorable DEF EntryOf

\* A load stores documents whose listing can be loaded.
LEMMA PrepareStorable ==
  ASSUME IInv, Prepare
  PROVE  \A n \in DOMAIN stored' : Storable(stored'[n])
<1>1. CASE Services
  BY <1>1, CleanedIsStorable DEF Prepare, IInv, TypeOK
<1>2. CASE ~Services
  <2>1. stored' = Entries(lines) /\ lines \in Seq(Lines)
    BY <1>2 DEF Prepare, IInv, TypeOK
  <2> QED
    BY <1>2, <2>1, EntriesAreStorable
<1> QED
  BY <1>1, <1>2

LEMMA ShownIs ==
  ASSUME NEW d \in Seq(Lines)
  PROVE  /\ Shown(d) \in Seq(Lines)
         /\ Len(Shown(d)) = IF d = <<>> THEN 3 ELSE 2 + Len(d)
         /\ Shown(d)[1] = Added("blank") /\ Shown(d)[2] = Added("slash")
         /\ d = <<>> => Shown(d)[3] = Added("blank")
         /\ \A r \in 1..Len(d) : Shown(d)[r + 2] = d[r]
<1> DEFINE a == Added("blank")
           b == Added("slash")
<1>1. a \in Lines /\ b \in Lines
  BY AddedType DEF Beginnings
<1>2. Shown(d) = <<a, b>> \o (IF d = <<>> THEN <<a>> ELSE d)
  BY DEF Shown
<1> HIDE DEF a, b
<1>3. Shown(d) \in Seq(Lines)
  BY ShownType
<1>4. CASE d = <<>>
  <2>1. Shown(d) = <<a, b>> \o <<a>>
    BY <1>2, <1>4
  <2>2. Len(Shown(d)) = 3 /\ Shown(d)[1] = a /\ Shown(d)[2] = b /\ Shown(d)[3] = a
    BY <1>1, <2>1
  <2>3. Len(d) = 0
    BY <1>4
  <2> QED
    BY <1>3, <1>4, <2>2, <2>3 DEF a, b
<1>5. CASE d # <<>>
  <2>1. Shown(d) = <<a, b>> \o d /\ <<a, b>> \in Seq(Lines) /\ Len(<<a, b>>) = 2
    BY <1>1, <1>2, <1>5
  <2>2. Len(Shown(d)) = 2 + Len(d) /\ Shown(d)[1] = a /\ Shown(d)[2] = b
    BY <1>1, <2>1
  <2>3. \A r \in 1..Len(d) : Shown(d)[r + 2] = d[r]
    BY <1>1, <2>1
  <2> QED
    BY <1>3, <1>5, <2>2, <2>3 DEF a, b
<1> QED
  BY <1>4, <1>5

LEMMA AddedIs ==
  /\ IsBlank(Added("blank")) /\ ~IsDelimiter(Added("blank")) /\ ~IsComment(Added("blank"))
  /\ ~IsBlank(Added("slash"))
  /\ Services => IsDelimiter(Added("slash")) /\ ~IsComment(Added("slash"))
  /\ ~Services => ~IsDelimiter(Added("slash")) /\ IsComment(Added("slash"))
BY DEF IsBlank, IsDelimiter, IsComment, Added

\* What is shown of a document: its block, one delimiter at its beginning, and
\* around it only blank lines and comments.
LEMMA ShownLines ==
  ASSUME NEW d \in Seq(Lines), Storable(d)
  PROVE  LET sh == Shown(d)
             n == Len(BlockOf(d))
         IN  /\ BlockOf(d) \in Seq(Lines) /\ n \in Nat \ {0} /\ Off \in {2, 3}
             /\ Len(sh) \in Nat /\ Off + n - 1 <= Len(sh)
             /\ \A r \in 1..Len(sh) : IsDelimiter(sh[r]) <=> r = Off
             /\ \A r \in 1..Len(sh) : r < Off \/ Off + n <= r => IsBlank(sh[r]) \/ IsComment(sh[r])
             /\ \A k \in 1..n : BlockOf(d)[k] = sh[Off + k - 1] /\ ~IsComment(sh[Off + k - 1])
             /\ ~IsBlank(sh[Off]) /\ ~IsBlank(sh[Off + n - 1])
<1> DEFINE sh == Shown(d)
           n == Len(BlockOf(d))
           l == Len(d)
<1>1. /\ Len(sh) = IF d = <<>> THEN 3 ELSE 2 + l
      /\ IsBlank(sh[1]) /\ ~IsDelimiter(sh[1]) /\ ~IsComment(sh[1]) /\ sh[2] = Added("slash")
      /\ d = <<>> => IsBlank(sh[3]) /\ ~IsDelimiter(sh[3]) /\ ~IsComment(sh[3])
      /\ \A r \in 1..l : sh[r + 2] = d[r]
  BY ShownIs, AddedIs
<1>2. l \in Nat /\ DOMAIN d = 1..l /\ (d = <<>> <=> l = 0)
  BY EmptySeq
<1> HIDE DEF sh, l
<1>3. Len(sh) \in Nat /\ \A r \in 1..Len(sh) : r = 1 \/ r = 2 \/ (d = <<>> /\ r = 3) \/ r - 2 \in 1..l
  BY <1>1, <1>2
<1>4. \A r \in 1..Len(sh) : r - 2 \in 1..l => sh[r] = d[r - 2]
  <2>1. ASSUME NEW r \in 1..Len(sh), r - 2 \in 1..l PROVE sh[r] = d[r - 2]
    <3>1. (r - 2) + 2 = r
      BY <1>3
    <3> QED
      BY <1>1, <2>1, <3>1
  <2> QED
    BY <2>1
<1>5. CASE Services
  <2>1. ~IsBlank(sh[2]) /\ IsDelimiter(sh[2]) /\ ~IsComment(sh[2]) /\ Off = 2
    BY <1>1, <1>5, AddedIs DEF Off
  <2>2. \A i \in 1..l : ~IsBlank(d[i]) /\ ~IsDelimiter(d[i]) /\ ~IsComment(d[i])
    BY <1>2, <1>5 DEF Storable, IsBlank, IsDelimiter, IsComment
  <2>3. /\ BlockOf(d) \in Seq(Lines) /\ n = 1 + l
        /\ BlockOf(d)[1] = sh[2] /\ \A k \in 2..n : BlockOf(d)[k] = d[k - 1]
    <3>1. Added("slash") \in Lines /\ BlockOf(d) = <<Added("slash")>> \o d
      BY <1>5, AddedType DEF BlockOf, Beginnings
    <3> HIDE DEF n
    <3>2. BlockOf(d) \in Seq(Lines) /\ n = 1 + l /\ BlockOf(d)[1] = Added("slash")
      BY <3>1 DEF n, l
    <3>3. \A k \in 2..(1 + l) : BlockOf(d)[k] = d[k - 1]
      BY <3>1 DEF l
    <3> QED
      BY <1>1, <3>2, <3>3
  <2> HIDE DEF n
  <2>4. ASSUME NEW k \in 1..n
        PROVE  BlockOf(d)[k] = sh[Off + k - 1] /\ ~IsComment(sh[Off + k - 1])
               /\ ~IsBlank(sh[Off + k - 1])
    <3>1. CASE k = 1
      <4>1. Off + k - 1 = 2
        BY <2>1, <3>1
      <4> QED
        BY <2>1, <2>3, <3>1, <4>1
    <3>2. CASE k # 1
      <4>1. k \in 2..n /\ k - 1 \in 1..l /\ Off + k - 1 = (k - 1) + 2
        BY <1>2, <2>1, <2>3, <3>2
      <4>2. sh[Off + k - 1] = d[k - 1]
        BY <1>1, <4>1
      <4> QED
        BY <2>2, <2>3, <4>1, <4>2
    <3> QED
      BY <3>1, <3>2
  <2>5. \A r \in 1..Len(sh) : IsDelimiter(sh[r]) <=> r = Off
    <3>1. SUFFICES ASSUME NEW r \in 1..Len(sh) PROVE IsDelimiter(sh[r]) <=> r = Off
      OBVIOUS
    <3>2. r - 2 \in 1..l => r # 2
      OBVIOUS
    <3> QED
      BY <1>1, <1>3, <1>4, <2>1, <2>2, <3>2
  <2>6. \A r \in 1..Len(sh) : r < Off \/ Off + n <= r => IsBlank(sh[r]) \/ IsComment(sh[r])
    BY <1>1, <1>2, <1>3, <2>1, <2>3
  <2>7. n \in Nat \ {0} /\ Off + n - 1 <= Len(sh) /\ 1 \in 1..n /\ n \in 1..n /\ Off + 1 - 1 = Off
    BY <1>1, <1>2, <2>1, <2>3
  <2> QED
    BY <1>3, <2>1, <2>3, <2>4, <2>5, <2>6, <2>7 DEF n, sh
<1>6. CASE ~Services
  <2>1. IsComment(sh[2]) /\ ~IsDelimiter(sh[2]) /\ Off = 3
    BY <1>1, <1>6, AddedIs DEF Off
  <2>2. /\ l \in Nat \ {0} /\ IsDelimiter(d[1]) /\ ~IsBlank(d[1]) /\ ~IsBlank(d[l])
        /\ \A i \in 1..l : ~IsComment(d[i]) /\ (IsDelimiter(d[i]) => i = 1)
    BY <1>2, <1>6, DelimiterIsContent DEF Storable, l
  <2>3. BlockOf(d) = d /\ n = l
    BY <1>6 DEF BlockOf, l
  <2> HIDE DEF n
  <2>4. ASSUME NEW k \in 1..n
        PROVE  BlockOf(d)[k] = sh[Off + k - 1] /\ ~IsComment(sh[Off + k - 1])
    <3>1. Off + k - 1 = k + 2 /\ k \in 1..l
      BY <2>1, <2>3
    <3>2. sh[k + 2] = d[k]
      BY <1>1, <3>1
    <3> QED
      BY <2>2, <2>3, <3>1, <3>2
  <2>5. \A r \in 1..Len(sh) : IsDelimiter(sh[r]) <=> r = Off
    <3>1. SUFFICES ASSUME NEW r \in 1..Len(sh) PROVE IsDelimiter(sh[r]) <=> r = Off
      OBVIOUS
    <3>2. d # <<>>
      BY <1>2, <2>2
    <3>3. r = 1 \/ r = 2 \/ (r - 2 \in 1..l /\ sh[r] = d[r - 2])
      BY <1>3, <1>4, <3>2
    <3>4. r - 2 \in 1..l => (IsDelimiter(d[r - 2]) <=> r = 3)
      <4>1. SUFFICES ASSUME r - 2 \in 1..l PROVE IsDelimiter(d[r - 2]) <=> r = 3
        OBVIOUS
      <4>2. r = 3 <=> r - 2 = 1
        OBVIOUS
      <4> QED
        BY <2>2, <4>1, <4>2
    <3>5. r = 1 \/ r = 2 => r # 3
      OBVIOUS
    <3> QED
      BY <1>1, <2>1, <3>3, <3>4, <3>5
  <2>6. \A r \in 1..Len(sh) : r < Off \/ Off + n <= r => IsBlank(sh[r]) \/ IsComment(sh[r])
    BY <1>1, <1>2, <1>3, <2>1, <2>2, <2>3
  <2>7. n \in Nat \ {0} /\ Off + n - 1 <= Len(sh)
    BY <1>1, <1>2, <2>1, <2>2, <2>3
  <2>8. ~IsBlank(sh[Off]) /\ ~IsBlank(sh[Off + n - 1])
    <3>1. 1 \in 1..l /\ l \in 1..l /\ 1 + 2 = Off /\ l + 2 = Off + n - 1
      BY <2>1, <2>2, <2>3
    <3>2. sh[1 + 2] = d[1] /\ sh[l + 2] = d[l]
      BY <1>1, <3>1
    <3> QED
      BY <2>2, <3>1, <3>2
  <2> QED
    BY <1>3, <2>1, <2>3, <2>4, <2>5, <2>6, <2>7, <2>8 DEF n, sh
<1> QED
  BY <1>5, <1>6

\* t lays out the first n of some documents: the k-th ends at position O[k].
Laid(t, O, docs, n) ==
  /\ t \in Seq(Lines) /\ O \in [0..n -> Nat] /\ Len(t) = O[n] /\ O[0] = 0
  /\ \A j, k \in 0..n : j <= k => O[j] <= O[k]
  /\ \A k \in 1..n : O[k] = O[k - 1] + Len(Shown(docs[k]))
  /\ \A k \in 1..n : \A r \in 1..Len(Shown(docs[k])) : t[O[k - 1] + r] = Shown(docs[k])[r]
  /\ \A p \in 1..Len(t) : \E k \in 1..n : O[k - 1] < p /\ p <= O[k]

LEMMA NextLaid ==
  ASSUME NEW docs \in Seq(Seq(Lines)), NEW n \in Nat, n + 1 <= Len(docs), NEW t, NEW O,
         Laid(t, O, docs, n)
  PROVE  LET m == n + 1
             s == t \o Shown(docs[m])
         IN  Laid(s, [k \in 0..m |-> IF k = m THEN Len(s) ELSE O[k]], docs, m)
<1> DEFINE m == n + 1
           sh == Shown(docs[m])
           s == t \o sh
           W == [k \in 0..m |-> IF k = m THEN Len(s) ELSE O[k]]
<1>1. /\ m \in Nat /\ m \in 1..m /\ m - 1 = n /\ n \in 0..n
      /\ \A k \in 0..m : k \in 0..n \/ k = m
      /\ \A k \in 1..m : (k \in 1..n /\ k - 1 \in 0..n) \/ k = m
      /\ \A k \in 0..n : k \in 0..m /\ k # m
  OBVIOUS
<1>2. sh \in Seq(Lines)
  <2>1. docs[m] \in Seq(Lines)
    OBVIOUS
  <2> QED
    BY <2>1, ShownType
<1>3. /\ t \in Seq(Lines) /\ O \in [0..n -> Nat] /\ Len(t) = O[n] /\ O[0] = 0
      /\ \A j, k \in 0..n : j <= k => O[j] <= O[k]
      /\ \A k \in 1..n : O[k] = O[k - 1] + Len(Shown(docs[k]))
      /\ \A k \in 1..n : \A r \in 1..Len(Shown(docs[k])) : t[O[k - 1] + r] = Shown(docs[k])[r]
      /\ \A p \in 1..Len(t) : \E k \in 1..n : O[k - 1] < p /\ p <= O[k]
  BY Zenon DEF Laid
<1> HIDE DEF sh
<1>4. /\ s \in Seq(Lines) /\ Len(s) = Len(t) + Len(sh) /\ Len(t) \in Nat /\ Len(sh) \in Nat
      /\ \A p \in 1..Len(t) : s[p] = t[p]
      /\ \A r \in 1..Len(sh) : s[Len(t) + r] = sh[r]
  <2>1. t \in Seq(Lines)
    BY <1>3
  <2>2. s \in Seq(Lines) /\ Len(s) = Len(t) + Len(sh) /\ Len(t) \in Nat /\ Len(sh) \in Nat
    BY <1>2, <2>1
  <2>3. \A p \in 1..Len(t) : s[p] = t[p]
    BY <1>2, <2>1
  <2>4. \A r \in 1..Len(sh) : s[Len(t) + r] = sh[r]
    BY <1>2, <2>1
  <2> QED
    BY <2>2, <2>3, <2>4
<1> HIDE DEF s
<1>5. /\ W[m] = Len(s) /\ W[0] = 0 /\ W \in [0..m -> Nat]
      /\ \A k \in 0..n : W[k] = O[k]
  BY <1>1, <1>3, <1>4
<1> HIDE DEF W, m
<1>6. ASSUME NEW j \in 0..m, NEW k \in 0..m, j <= k PROVE W[j] <= W[k]
  <2>1. CASE j \in 0..n /\ k \in 0..n
    BY <1>3, <1>5, <1>6, <2>1
  <2>2. CASE j \in 0..n /\ k = m
    <3>1. O[j] <= O[n]
      BY <1>1, <1>3, <2>2
    <3>2. O[j] \in Nat /\ O[n] \in Nat
      BY <1>1, <1>3, <2>2
    <3> QED
      BY <1>3, <1>4, <1>5, <2>2, <3>1, <3>2
  <2>3. CASE j = m
    <3>1. k = m
      BY <1>6, <2>3 DEF m
    <3> QED
      BY <1>4, <1>5, <2>3, <3>1
  <2> QED
    BY <1>1, <2>1, <2>2, <2>3
<1>7. ASSUME NEW k \in 1..m
      PROVE  /\ W[k] = W[k - 1] + Len(Shown(docs[k]))
             /\ \A r \in 1..Len(Shown(docs[k])) : s[W[k - 1] + r] = Shown(docs[k])[r]
  <2>1. CASE k \in 1..n /\ k - 1 \in 0..n
    <3>1. k \in 0..n
      BY <2>1
    <3>2. W[k] = O[k] /\ W[k - 1] = O[k - 1] /\ O[k - 1] \in Nat /\ O[k] \in Nat
      BY <1>3, <1>5, <2>1, <3>1
    <3>3. O[k] = O[k - 1] + Len(Shown(docs[k])) /\ O[k] <= Len(t)
      BY <1>1, <1>3, <2>1, <3>1
    <3>4. Len(Shown(docs[k])) \in Nat
      <4>1. docs[k] \in Seq(Lines)
        BY <2>1
      <4>2. Shown(docs[k]) \in Seq(Lines)
        BY <4>1, ShownType
      <4> QED
        BY <4>2
    <3>5. ASSUME NEW r \in 1..Len(Shown(docs[k])) PROVE s[W[k - 1] + r] = Shown(docs[k])[r]
      <4>1. O[k - 1] + r \in 1..Len(t)
        <5> DEFINE x == Len(Shown(docs[k]))
        <5>1. x \in Nat /\ r \in 1..x /\ O[k - 1] \in Nat /\ O[k - 1] + x <= Len(t)
          BY <3>2, <3>3, <3>4
        <5>2. \A a, b, c, z \in Nat : c \in 1..b /\ a + b <= z => a + c \in 1..z
          OBVIOUS
        <5>3. Len(t) \in Nat /\ r \in Nat
          BY <1>4, <5>1
        <5> HIDE DEF x
        <5> QED
          BY <5>1, <5>2, <5>3
      <4>2. t[O[k - 1] + r] = Shown(docs[k])[r]
        BY <1>3, <2>1
      <4> QED
        BY <1>4, <3>2, <4>1, <4>2
    <3> QED
      BY <3>2, <3>3, <3>5
  <2>2. CASE k = m
    <3>1. W[k] = Len(t) + Len(sh) /\ W[k - 1] = Len(t)
      BY <1>1, <1>3, <1>4, <1>5, <2>2
    <3>2. Shown(docs[k]) = sh
      BY <2>2 DEF sh
    <3> QED
      BY <1>4, <3>1, <3>2
  <2> QED
    BY <1>1, <2>1, <2>2
<1>8. ASSUME NEW p \in 1..Len(s) PROVE \E k \in 1..m : W[k - 1] < p /\ p <= W[k]
  <2>1. CASE p \in 1..Len(t)
    <3>1. PICK k \in 1..n : O[k - 1] < p /\ p <= O[k]
      BY <1>3, <2>1
    <3>2. k \in 1..m /\ k \in 0..n /\ k - 1 \in 0..n
      BY DEF m
    <3> QED
      BY <1>5, <3>1, <3>2
  <2>2. CASE p \notin 1..Len(t)
    <3>1. Len(t) < p /\ p <= Len(s)
      BY <1>4, <2>2
    <3>2. W[m - 1] = Len(t) /\ W[m] = Len(s)
      BY <1>1, <1>3, <1>5
    <3> QED
      BY <1>1, <3>1, <3>2
  <2> QED
    BY <2>1, <2>2
<1>9. Laid(s, W, docs, m)
  BY <1>4, <1>5, <1>6, <1>7, <1>8 DEF Laid
<1> QED
  BY <1>9 DEF s, sh, W, m

LEMMA ListingIsLaid ==
  ASSUME NEW docs \in Seq(Seq(Lines))
  PROVE  \E O : Laid(Listing(docs), O, docs, Len(docs))
<1> DEFINE N == Len(docs)
<1>1. PICK u : Layout(u, docs, N) /\ Listing(docs) = u[N]
  BY ListingIs
<1>2. N \in Nat
  OBVIOUS
<1> DEFINE T == { n \in Nat : n <= N => \E O : Laid(u[n], O, docs, n) }
<1>3. 0 \in T
  <2> DEFINE O == [k \in 0..0 |-> 0]
  <2>1. u[0] = <<>> /\ 0 \in 0..0 /\ O[0] = 0 /\ O \in [0..0 -> Nat]
    BY <1>1 DEF Layout
  <2>2. u[0] \in Seq(Lines) /\ Len(u[0]) = 0 /\ 1..0 = {}
    BY <2>1
  <2>3. \A j, k \in 0..0 : O[j] <= O[k]
    BY <2>1
  <2> HIDE DEF O
  <2>4. Laid(u[0], O, docs, 0)
    BY <2>1, <2>2, <2>3 DEF Laid
  <2> QED
    BY <2>4
<1>4. ASSUME NEW n \in T PROVE n + 1 \in T
  <2>1. SUFFICES ASSUME n + 1 <= N PROVE \E O : Laid(u[n + 1], O, docs, n + 1)
    OBVIOUS
  <2>2. n \in Nat /\ n + 1 \in 1..N /\ n <= N /\ (n + 1) - 1 = n
    BY <1>2, <2>1
  <2>3. PICK O : Laid(u[n], O, docs, n)
    BY <2>2
  <2>4. u[n + 1] = u[n] \o Shown(docs[n + 1])
    BY <1>1, <2>2 DEF Layout
  <2> QED
    BY <2>1, <2>2, <2>3, <2>4, NextLaid
<1>5. N \in T
  <2> HIDE DEF T
  <2>1. T \in SUBSET Nat
    BY DEF T
  <2> QED
    BY <1>2, <1>3, <1>4, <2>1, NatSetInduction
<1> QED
  BY <1>1, <1>2, <1>5

\* t lists documents that loads stored; the block of the k-th begins at Place.
Pasted(t, O, docs) ==
  /\ docs \in Seq(Seq(Lines)) /\ \A k \in 1..Len(docs) : Storable(docs[k])
  /\ Laid(t, O, docs, Len(docs))
Place(O, k) == O[k - 1] + Off

LEMMA PastedLines ==
  ASSUME NEW t, NEW O, NEW docs, Pasted(t, O, docs), NEW k \in 1..Len(docs)
  PROVE  LET a == Place(O, k)
             n == Len(BlockOf(docs[k]))
         IN  /\ BlockOf(docs[k]) \in Seq(Lines) /\ n \in Nat \ {0} /\ a \in Nat
             /\ Off \in {2, 3} /\ a = O[k - 1] + Off
             /\ O[k - 1] \in Nat /\ O[k] \in Nat /\ Len(t) \in Nat /\ O[k] <= Len(t)
             /\ a + n - 1 <= O[k]
             /\ \A p \in (O[k - 1] + 1)..O[k] :
                  /\ IsDelimiter(t[p]) <=> p = a
                  /\ p < a \/ a + n <= p => IsBlank(t[p]) \/ IsComment(t[p])
             /\ \A i \in 1..n : BlockOf(docs[k])[i] = t[a + i - 1] /\ ~IsComment(t[a + i - 1])
             /\ ~IsBlank(t[a]) /\ ~IsBlank(t[a + n - 1])
<1> DEFINE a == Place(O, k)
           b == BlockOf(docs[k])
           n == Len(b)
           sh == Shown(docs[k])
           N == Len(docs)
           y == O[k - 1]
<1>1. docs[k] \in Seq(Lines) /\ Storable(docs[k]) /\ N \in Nat /\ docs \in Seq(Seq(Lines))
  BY DEF Pasted
<1>2. /\ b \in Seq(Lines) /\ n \in Nat \ {0} /\ Off \in {2, 3}
      /\ Len(sh) \in Nat /\ Off + n - 1 <= Len(sh)
      /\ \A r \in 1..Len(sh) : IsDelimiter(sh[r]) <=> r = Off
      /\ \A r \in 1..Len(sh) : r < Off \/ Off + n <= r => IsBlank(sh[r]) \/ IsComment(sh[r])
      /\ \A i \in 1..n : b[i] = sh[Off + i - 1] /\ ~IsComment(sh[Off + i - 1])
      /\ ~IsBlank(sh[Off]) /\ ~IsBlank(sh[Off + n - 1])
  BY <1>1, ShownLines, Zenon
<1>3. k \in 0..N /\ k - 1 \in 0..N /\ N \in 0..N /\ k <= N
  BY <1>1
<1>4. /\ Len(t) = O[N] /\ O[k] <= O[N] /\ O[k] = y + Len(sh)
      /\ y \in Nat /\ O[k] \in Nat /\ O[N] \in Nat
      /\ \A r \in 1..Len(sh) : t[y + r] = sh[r]
  <2>1. O \in [0..N -> Nat] /\ Len(t) = O[N] /\ O[k] = y + Len(sh) /\ O[k] <= O[N]
        /\ \A r \in 1..Len(sh) : t[y + r] = sh[r]
    BY <1>3 DEF Pasted, Laid
  <2> QED
    BY <1>3, <2>1
<1>5. a = y + Off
  BY DEF Place
<1> HIDE DEF sh, b, a, y
<1>6. ASSUME NEW p \in (y + 1)..O[k]
      PROVE  /\ IsDelimiter(t[p]) <=> p = a
             /\ p < a \/ a + n <= p => IsBlank(t[p]) \/ IsComment(t[p])
  <2>1. PICK r \in 1..Len(sh) : p = y + r
    <3>1. p - y \in 1..Len(sh) /\ p = y + (p - y)
      BY <1>2, <1>4
    <3> QED
      BY <3>1
  <2>2. t[p] = sh[r]
    BY <1>4, <2>1
  <2>3. (p = a <=> r = Off) /\ (p < a <=> r < Off) /\ (a + n <= p <=> Off + n <= r)
    BY <1>2, <1>4, <1>5, <2>1
  <2> QED
    BY <1>2, <2>2, <2>3
<1>7. ASSUME NEW i \in 1..n PROVE t[a + i - 1] = sh[Off + i - 1]
  <2>1. Off + i - 1 \in 1..Len(sh) /\ a + i - 1 = y + (Off + i - 1)
    BY <1>2, <1>4, <1>5
  <2> QED
    BY <1>4, <2>1
<1>8. 1 \in 1..n /\ n \in 1..n /\ a + 1 - 1 = a /\ Off + 1 - 1 = Off
  BY <1>2, <1>4, <1>5
<1>9. ~IsBlank(t[a]) /\ ~IsBlank(t[a + n - 1])
  BY <1>2, <1>7, <1>8
<1>10. a \in Nat /\ Len(t) \in Nat /\ O[k] <= Len(t) /\ a + n - 1 <= O[k]
  BY <1>2, <1>4, <1>5
<1>11. \A i \in 1..n : b[i] = t[a + i - 1] /\ ~IsComment(t[a + i - 1])
  BY <1>2, <1>7
<1> HIDE DEF n
<1> QED
  BY <1>2, <1>4, <1>5, <1>6, <1>9, <1>10, <1>11 DEF a, b, n, y

LEMMA PlaceIs ==
  ASSUME NEW t, NEW O, NEW docs, Pasted(t, O, docs), NEW k \in 1..Len(docs)
  PROVE  /\ Place(O, k) \in Nat /\ O[k - 1] \in Nat /\ O[k] \in Nat /\ Len(t) \in Nat
         /\ O[k - 1] + 2 <= Place(O, k) /\ Place(O, k) <= O[k] /\ O[k] <= Len(t)
         /\ \A p \in (O[k - 1] + 1)..O[k] :
              /\ IsDelimiter(t[p]) <=> p = Place(O, k)
              /\ p < Place(O, k) => IsBlank(t[p]) \/ IsComment(t[p])
<1> DEFINE a == Place(O, k)
           b == BlockOf(docs[k])
           n == Len(b)
<1>1. /\ b \in Seq(Lines) /\ n \in Nat \ {0} /\ a \in Nat
      /\ Off \in {2, 3} /\ a = O[k - 1] + Off
      /\ O[k - 1] \in Nat /\ O[k] \in Nat /\ Len(t) \in Nat /\ O[k] <= Len(t)
      /\ a + n - 1 <= O[k]
      /\ \A p \in (O[k - 1] + 1)..O[k] :
           /\ IsDelimiter(t[p]) <=> p = a
           /\ p < a \/ a + n <= p => IsBlank(t[p]) \/ IsComment(t[p])
      /\ \A i \in 1..n : b[i] = t[a + i - 1] /\ ~IsComment(t[a + i - 1])
      /\ ~IsBlank(t[a]) /\ ~IsBlank(t[a + n - 1])
  BY PastedLines, Zenon
<1> HIDE DEF a, b, n
<1>2. O[k - 1] + 2 <= a /\ a <= O[k]
  <2>1. /\ n \in Nat \ {0} /\ a \in Nat /\ Off \in {2, 3} /\ a = O[k - 1] + Off
        /\ O[k - 1] \in Nat /\ O[k] \in Nat /\ a + n - 1 <= O[k]
    BY <1>1
  <2>2. \A o, l, x, y, z \in Nat :
          o \in {2, 3} /\ l # 0 /\ y = x + o /\ y + l - 1 <= z => x + 2 <= y /\ y <= z
    OBVIOUS
  <2> QED
    BY <2>1, <2>2
<1> QED
  BY <1>1, <1>2 DEF a

\* Which document a line belongs to, and the order of documents.
LEMMA PastedOrder ==
  ASSUME NEW t, NEW O, NEW docs, Pasted(t, O, docs)
  PROVE  /\ t \in Seq(Lines) /\ Len(docs) \in Nat
         /\ \A p \in 1..Len(t) : \E k \in 1..Len(docs) : p \in (O[k - 1] + 1)..O[k]
         /\ \A j, k \in 1..Len(docs) : j < k => O[j] <= O[k - 1]
<1> DEFINE N == Len(docs)
<1>1. t \in Seq(Lines) /\ N \in Nat
  BY DEF Pasted, Laid
<1>2. ASSUME NEW p \in 1..Len(t) PROVE \E k \in 1..N : p \in (O[k - 1] + 1)..O[k]
  <2>1. PICK k \in 1..N : O[k - 1] < p /\ p <= O[k]
    BY DEF Pasted, Laid
  <2>2. O[k - 1] \in Nat /\ O[k] \in Nat /\ p \in Nat
    BY PastedLines
  <2> QED
    BY <2>1, <2>2
<1>3. ASSUME NEW j \in 1..N, NEW k \in 1..N, j < k PROVE O[j] <= O[k - 1]
  <2>1. j \in 0..N /\ k - 1 \in 0..N /\ j <= k - 1
    BY <1>1, <1>3
  <2> QED
    BY <2>1 DEF Pasted, Laid
<1> QED
  BY <1>1, <1>2, <1>3

LEMMA PastedStarts ==
  ASSUME NEW t, NEW O, NEW docs, Pasted(t, O, docs)
  PROVE  Starts(t) = { Place(O, k) : k \in 1..Len(docs) } \cup (IF Services THEN {1} ELSE {})
<1> DEFINE N == Len(docs)
<1>1. t \in Seq(Lines) /\ DOMAIN t = 1..Len(t)
  BY PastedOrder
<1>2. ASSUME NEW p \in DOMAIN t, IsDelimiter(t[p]) PROVE \E k \in 1..N : p = Place(O, k)
  <2>1. PICK k \in 1..N : p \in (O[k - 1] + 1)..O[k]
    BY <1>1, PastedOrder
  <2> QED
    BY <1>2, <2>1, PlaceIs
<1>3. ASSUME NEW k \in 1..N PROVE Place(O, k) \in DOMAIN t /\ IsDelimiter(t[Place(O, k)])
  <2>1. /\ Place(O, k) \in Nat /\ O[k - 1] \in Nat /\ O[k] \in Nat /\ Len(t) \in Nat
        /\ O[k - 1] + 2 <= Place(O, k) /\ Place(O, k) <= O[k] /\ O[k] <= Len(t)
    BY PlaceIs
  <2>2. Place(O, k) \in (O[k - 1] + 1)..O[k] /\ Place(O, k) \in 1..Len(t)
    BY <2>1
  <2> QED
    BY <1>1, <2>2, PlaceIs
<1> QED
  BY <1>2, <1>3 DEF Starts

\* The entry where the block of a document begins is that block.
LEMMA PastedEntry ==
  ASSUME NEW t, NEW O, NEW docs, Pasted(t, O, docs), NEW k \in 1..Len(docs)
  PROVE  Entry(t, Place(O, k)) = BlockOf(docs[k])
<1> DEFINE N == Len(docs)
           a == Place(O, k)
           b == BlockOf(docs[k])
           n == Len(b)
           Q == { p \in DOMAIN t : /\ a <= p /\ ~IsComment(t[p])
                                 /\ \A j \in Starts(t) : j <= p => j <= a }
<1>1. t \in Seq(Lines) /\ DOMAIN t = 1..Len(t) /\ N \in Nat
  BY PastedOrder
<1>2. /\ b \in Seq(Lines) /\ n \in Nat \ {0} /\ a \in Nat
      /\ Off \in {2, 3} /\ a = O[k - 1] + Off
      /\ O[k - 1] \in Nat /\ O[k] \in Nat /\ Len(t) \in Nat /\ O[k] <= Len(t)
      /\ a + n - 1 <= O[k]
      /\ \A p \in (O[k - 1] + 1)..O[k] :
           /\ IsDelimiter(t[p]) <=> p = a
           /\ p < a \/ a + n <= p => IsBlank(t[p]) \/ IsComment(t[p])
      /\ \A i \in 1..n : b[i] = t[a + i - 1] /\ ~IsComment(t[a + i - 1])
      /\ ~IsBlank(t[a]) /\ ~IsBlank(t[a + n - 1])
  BY PastedLines, Zenon
<1>2a. a \in Nat /\ O[k - 1] \in Nat /\ O[k] \in Nat /\ O[k - 1] + 2 <= a /\ O[k] <= Len(t)
       /\ Len(t) \in Nat
  BY PlaceIs
<1>3. Entry(t, a) = Trim(At(t, Q))
  BY Zenon DEF Entry
<1>4. \A j \in 1..N : Place(O, j) \in Starts(t)
  BY PastedStarts
<1>5. ASSUME NEW j \in Starts(t) PROVE j <= a \/ O[k] < j
  <2>1. CASE j = 1
    BY <1>2a, <2>1
  <2>2. CASE j # 1
    <3>1. PICK m \in 1..N : j = Place(O, m)
      BY <2>2, PastedStarts
    <3>2. O[m - 1] \in Nat /\ O[m] \in Nat /\ j \in Nat /\ O[m - 1] + 2 <= j /\ j <= O[m]
      BY <3>1, PlaceIs
    <3>3. m = k \/ m < k \/ k < m
      BY <1>1
    <3>4. CASE m = k
      BY <1>2, <3>1, <3>4
    <3>5. CASE m < k
      <4>1. O[m] <= O[k - 1]
        BY <3>5, PastedOrder
      <4> QED
        BY <1>2a, <3>2, <4>1
    <3>6. CASE k < m
      <4>1. O[k] <= O[m - 1]
        BY <3>6, PastedOrder
      <4> QED
        BY <1>2a, <3>2, <4>1
    <3> QED
      BY <3>3, <3>4, <3>5, <3>6
  <2> QED
    BY <2>1, <2>2
<1> HIDE DEF a, b
<1>2b. a \in Nat /\ n \in Nat \ {0} /\ a + n - 1 <= O[k]
  BY <1>2
<1> HIDE DEF n
<1>6. a..(a + n - 1) \subseteq Q
  <2>1. SUFFICES ASSUME NEW p \in a..(a + n - 1) PROVE p \in Q
    OBVIOUS
  <2>2. p - a + 1 \in 1..n /\ a + (p - a + 1) - 1 = p
    BY <1>2b
  <2>3. ~IsComment(t[p])
    BY <1>2, <2>2
  <2>4. p \in DOMAIN t /\ a <= p /\ p <= O[k] /\ p \in Nat
    BY <1>1, <1>2a, <1>2b
  <2>5. ASSUME NEW j \in Starts(t), j <= p PROVE j <= a
    <3>1. j \in Nat
      BY <1>1, StartsType
    <3>2. ~ (O[k] < j)
      BY <1>2, <2>4, <2>5, <3>1
    <3> QED
      BY <1>5, <3>2
  <2> QED
    BY <2>3, <2>4, <2>5
<1>7. ASSUME NEW q \in Q, a + n <= q PROVE IsBlank(t[q])
  <2>1. q \in 1..Len(t) /\ ~IsComment(t[q]) /\ \A j \in Starts(t) : j <= q => j <= a
    BY <1>1
  <2>2. PICK m \in 1..N : q \in (O[m - 1] + 1)..O[m]
    BY <2>1, PastedOrder
  <2>3. CASE m = k
    BY <1>2, <1>7, <2>1, <2>2, <2>3
  <2>4. CASE m < k
    <3>1. O[m] <= O[k - 1]
      BY <2>4, PastedOrder
    <3>2. O[m] \in Nat
      BY PastedLines
    <3>3. q <= O[m] /\ q \in Nat
      BY <2>1, <2>2, <3>2
    <3> QED
      BY <1>2a, <1>2b, <1>7, <3>1, <3>2, <3>3
  <2>5. CASE k < m
    <3> DEFINE c == Place(O, m)
    <3>1. /\ c \in Nat /\ O[m - 1] \in Nat /\ O[m] \in Nat /\ O[m - 1] + 2 <= c
          /\ \A p \in (O[m - 1] + 1)..O[m] : p < c => IsBlank(t[p]) \/ IsComment(t[p])
      BY PlaceIs
    <3>2. O[k] <= O[m - 1]
      BY <2>5, PastedOrder
    <3>3. c <= q => c <= a
      BY <1>4, <2>1
    <3>4. a < c
      <4> HIDE DEF c
      <4> QED
        BY <1>2a, <1>2b, <3>1, <3>2
    <3>5. q < c
      <4> HIDE DEF c
      <4> QED
        BY <1>2a, <2>1, <3>1, <3>3, <3>4
    <3> QED
      BY <2>1, <2>2, <3>1, <3>5
  <2> QED
    BY <1>1, <2>3, <2>4, <2>5
<1>8. Q \in SUBSET DOMAIN t /\ \A q \in Q : a <= q
  OBVIOUS
<1> HIDE DEF Q
<1>9. ~IsBlank(t[a]) /\ ~IsBlank(t[a + n - 1]) /\ b \in Seq(Lines) /\ Len(b) = n
      /\ \A i \in 1..n : b[i] = t[a + i - 1]
  BY <1>2 DEF n
<1>10. \A q \in Q : a + n <= q => IsBlank(t[q])
  BY <1>7
<1>11. Trim(At(t, Q)) = b
  BY <1>1, <1>2b, <1>6, <1>8, <1>9, <1>10, TrimTail, ZenonT(60)
<1> QED
  BY <1>3, <1>11 DEF a, b

\* The entry of services before the first delimiter is blank.
LEMMA PastedFirst ==
  ASSUME NEW t, NEW O, NEW docs, Pasted(t, O, docs)
  PROVE  Entry(t, 1) = <<>> \/ \E k \in 1..Len(docs) : Place(O, k) = 1
<1> DEFINE N == Len(docs)
           Q == { p \in DOMAIN t : /\ 1 <= p /\ ~IsComment(t[p])
                                 /\ \A j \in Starts(t) : j <= p => j <= 1 }
<1>1. t \in Seq(Lines) /\ DOMAIN t = 1..Len(t) /\ N \in Nat
  BY PastedOrder
<1>2. ASSUME NEW q \in Q PROVE IsBlank(t[q])
  <2>1. q \in 1..Len(t) /\ ~IsComment(t[q]) /\ \A j \in Starts(t) : j <= q => j <= 1
    BY <1>1
  <2>2. PICK m \in 1..N : q \in (O[m - 1] + 1)..O[m]
    BY <2>1, PastedOrder
  <2> DEFINE c == Place(O, m)
  <2>3. /\ c \in Nat /\ O[m - 1] \in Nat /\ O[m] \in Nat /\ O[m - 1] + 2 <= c
        /\ \A p \in (O[m - 1] + 1)..O[m] : p < c => IsBlank(t[p]) \/ IsComment(t[p])
    BY PlaceIs
  <2>4. c <= q => c <= 1
    BY <2>1, PastedStarts
  <2> HIDE DEF c
  <2>5. q < c
    BY <2>1, <2>3, <2>4
  <2> QED
    BY <2>1, <2>2, <2>3, <2>5
<1>3. Entry(t, 1) = Trim(At(t, Q)) /\ Q \in SUBSET DOMAIN t
  BY Zenon DEF Entry
<1> HIDE DEF Q
<1> QED
  BY <1>1, <1>2, <1>3, TrimBlank

\* The entries of a listing are the blocks of its documents.
LEMMA PastedEntries ==
  ASSUME NEW t, NEW O, NEW docs, Pasted(t, O, docs)
  PROVE  Entries(t) = [k \in 1..Len(docs) |-> BlockOf(docs[k])]
<1> DEFINE N == Len(docs)
           E == [i \in Starts(t) |-> Entry(t, i)]
           P == { i \in Starts(t) : Entry(t, i) # <<>> }
           f == [k \in 1..N |-> Place(O, k)]
<1>1. N \in Nat
  BY PastedOrder
<1>2. ASSUME NEW k \in 1..N
      PROVE  /\ Place(O, k) \in Starts(t) /\ Entry(t, Place(O, k)) = BlockOf(docs[k])
             /\ Entry(t, Place(O, k)) # <<>> /\ Place(O, k) \in Nat
  <2>1. Place(O, k) \in Starts(t) /\ Place(O, k) \in Nat
    BY PastedStarts, PlaceIs
  <2>2. Entry(t, Place(O, k)) = BlockOf(docs[k])
    BY PastedEntry
  <2>3. BlockOf(docs[k]) # <<>>
    <3>1. docs[k] \in Seq(Lines) /\ Storable(docs[k])
      BY DEF Pasted
    <3>2. Len(BlockOf(docs[k])) \in Nat \ {0}
      BY <3>1, ShownLines, Zenon
    <3>3. Len(<<>>) = 0
      OBVIOUS
    <3> QED
      BY <3>2, <3>3
  <2> QED
    BY <2>1, <2>2, <2>3
<1>3. ASSUME NEW i \in P PROVE \E k \in 1..N : f[k] = i
  <2>1. \E k \in 1..N : Place(O, k) = i
    BY PastedStarts, PastedFirst
  <2> QED
    BY <2>1
<1>4. f \in [1..N -> P] /\ P \subseteq Int
  <2>1. \A k \in 1..N : Place(O, k) \in P
    BY <1>2
  <2>2. P \subseteq Int
    BY PastedOrder, StartsType
  <2> QED
    BY <2>1, <2>2
<1>5. ASSUME NEW j \in 1..N, NEW k \in 1..N, j < k PROVE f[j] < f[k]
  <2>1. O[j] <= O[k - 1]
    BY <1>5, PastedOrder
  <2>2. Place(O, j) \in Nat /\ O[j] \in Nat /\ Place(O, j) <= O[j]
    BY PlaceIs
  <2>3. Place(O, k) \in Nat /\ O[k - 1] \in Nat /\ O[k - 1] + 2 <= Place(O, k)
    BY PlaceIs
  <2>4. Place(O, j) < Place(O, k)
    BY <2>1, <2>2, <2>3
  <2> QED
    BY <2>4
<1>6. Counts(f, N, P)
  <2> HIDE DEF f, P, N
  <2> QED
    BY <1>1, <1>3, <1>4, <1>5 DEF Counts
<1>7. Entries(t) = At(E, P)
  BY Zenon DEF Entries
<1>8. At(E, P) = [k \in 1..N |-> E[f[k]]]
  <2> HIDE DEF E, P, N, f
  <2> QED
    BY <1>6, AtIs
<1>9. \A k \in 1..N : E[f[k]] = BlockOf(docs[k])
  BY <1>2
<1> HIDE DEF E, f
<1> QED
  BY <1>7, <1>8, <1>9, Zenon

\* Cleaning the block of a document of services gives the document.
LEMMA CleanedBlock ==
  ASSUME Services, NEW d \in Seq(Lines), Storable(d)
  PROVE  Cleaned(BlockOf(d)) = d
<1> DEFINE b == BlockOf(d)
           n == Len(d)
           P == { i \in DOMAIN b : b[i].is \notin {"blank", "slash", "bare", "link"} }
           I == 2..(2 + n - 1)
<1>1. n \in Nat /\ DOMAIN d = 1..n
  OBVIOUS
<1>2. b = <<Added("slash")>> \o d /\ Added("slash") \in Lines /\ Added("slash").is = "slash"
  BY AddedType DEF BlockOf, Beginnings, Added
<1> HIDE DEF b, n
<1>3. /\ DOMAIN b = 1..(n + 1) /\ b[1].is = "slash"
      /\ \A k \in 2..(n + 1) : b[k] = d[k - 1]
  BY <1>2 DEF n
<1>4. P = I
  <2>1. \A i \in DOMAIN b : i = 1 \/ (i \in 2..(n + 1) /\ i - 1 \in DOMAIN d)
    BY <1>1, <1>3
  <2>2. \A i \in DOMAIN b : b[i].is \notin {"blank", "slash", "bare", "link"} <=> i \in 2..(n + 1)
    BY <1>3, <2>1 DEF Storable
  <2>3. I = 2..(n + 1) /\ I \subseteq DOMAIN b
    BY <1>1, <1>3
  <2> QED
    BY <2>2, <2>3
<1>5. /\ Cardinality(I) = n
      /\ \A k \in 1..n : Nth(I, k) = 2 + k - 1
  <2>1. PICK a \in Int : a = 2
    OBVIOUS
  <2>2. Cardinality(a..(a + n - 1)) = n /\ \A k \in 1..n : Nth(a..(a + n - 1), k) = a + k - 1
    BY <1>1, IntervalCounts
  <2> QED
    BY <2>1, <2>2, Zenon
<1> HIDE DEF I
<1>6. At(b, I) = [k \in 1..n |-> d[k]]
  <2>1. \A k \in 1..n : b[Nth(I, k)] = d[k]
    <3>1. ASSUME NEW k \in 1..n PROVE b[Nth(I, k)] = d[k]
      <4>1. Nth(I, k) = k + 1 /\ k + 1 \in 2..(n + 1) /\ (k + 1) - 1 = k
        BY <1>1, <1>5
      <4> QED
        BY <1>3, <4>1
    <3> QED
      BY <3>1
  <2> QED
    BY <1>5, <2>1, Zenon DEF At
<1>7. d = [k \in 1..n |-> d[k]]
  BY DEF n
<1>8. Cleaned(b) = At(b, P)
  BY Zenon DEF Cleaned, Without
<1> HIDE DEF P
<1> QED
  BY <1>4, <1>6, <1>7, <1>8 DEF b

-----------------------------------------------------------------------------
(* Posting a listing back.                                                 *)

\* The inductive invariant: the second text is the listing of documents whose
\* listing can be loaded.
ReloadInv ==
  /\ phase = "loaded" => \A n \in DOMAIN stored : Storable(stored[n])
  /\ pass = 2 => /\ lines = Listing(first)
                 /\ \A n \in DOMAIN first : Storable(first[n])
  /\ ListingReloads

\* The load of a listing stores the documents it lists.
LEMMA PrepareReloads ==
  ASSUME IInv, ReloadInv, Prepare, pass = 2
  PROVE  stored' = first
<1> DEFINE N == Len(first)
<1>1. /\ first \in Seq(Seq(Lines)) /\ N \in Nat /\ DOMAIN first = 1..N
      /\ lines = Listing(first) /\ blocks = Entries(lines) /\ first = [k \in 1..N |-> first[k]]
      /\ \A k \in 1..N : first[k] \in Seq(Lines) /\ Storable(first[k])
  BY DEF IInv, TypeOK, ReloadInv, Prepare
<1>2. PICK O : Laid(lines, O, first, N)
  BY <1>1, ListingIsLaid
<1>3. Pasted(lines, O, first)
  BY <1>1, <1>2 DEF Pasted
<1>4. blocks = [k \in 1..N |-> BlockOf(first[k])]
  BY <1>1, <1>3, PastedEntries
<1> HIDE DEF N
<1>5. DOMAIN blocks = 1..N /\ \A k \in 1..N : blocks[k] = BlockOf(first[k])
  BY <1>4, Zenon
<1>6. CASE Services
  <2>1. stored' = [k \in 1..N |-> Cleaned(blocks[k])]
    BY <1>5, <1>6 DEF Prepare
  <2>2. \A k \in 1..N : Cleaned(blocks[k]) = first[k]
    BY <1>1, <1>5, <1>6, CleanedBlock
  <2> QED
    BY <1>1, <2>1, <2>2, Zenon
<1>7. CASE ~Services
  <2>1. stored' = blocks
    BY <1>7 DEF Prepare
  <2>2. \A k \in 1..N : BlockOf(first[k]) = first[k]
    BY <1>7 DEF BlockOf
  <2> QED
    BY <1>1, <1>4, <2>1, <2>2, Zenon
<1> QED
  BY <1>6, <1>7

LEMMA NextReloadInv ==
  ASSUME IInv, ReloadInv, [Next]_vars
  PROVE  ReloadInv'
<1>1. (kind' = kind) => \A d : Storable(d)' <=> Storable(d)
  BY DEF Storable, Services, IsDelimiter, IsComment
<1>2. CASE Comment \/ Delimiter \/ Content \/ EndOfText
  <2>1. phase' # "loaded" /\ UNCHANGED <<kind, lines, pass, first>>
    BY <1>2 DEF Comment, Delimiter, Content, EndOfText, AtLine
  <2> QED
    BY <1>1, <2>1 DEF ReloadInv, ListingReloads
<1>3. CASE Prepare
  <2>1. /\ UNCHANGED <<kind, lines, pass, first>>
    BY <1>3 DEF Prepare
  <2>2. \A n \in DOMAIN stored' : Storable(stored'[n])
    BY <1>3, PrepareStorable
  <2>3. pass = 2 => stored' = first
    BY <1>3, PrepareReloads
  <2> QED
    BY <1>1, <2>1, <2>2, <2>3 DEF ReloadInv, ListingReloads
<1>4. CASE PostBack
  <2>1. /\ phase = "loaded" /\ phase' = "parse" /\ kind' = kind
        /\ first' = stored /\ lines' = Listing(stored)
    BY <1>4 DEF PostBack
  <2> QED
    BY <1>1, <2>1 DEF ReloadInv, ListingReloads
<1>5. CASE UNCHANGED vars
  <2>1. UNCHANGED <<kind, lines, stored, phase, pass, first>>
    BY <1>5 DEF vars, prepared
  <2> QED
    BY <1>1, <2>1 DEF ReloadInv, ListingReloads
<1> QED
  BY <1>2, <1>3, <1>4, <1>5 DEF Next

-----------------------------------------------------------------------------
(* Theorems.                                                               *)

\* The inductive invariant: the loop has pushed the blocks before the entry it
\* is in, and collected that entry up to its position.
THEOREM Invariance == Spec => []IInv
BY InitIInv, NextIInv, PTL DEF Spec

\* The type invariant of parse_block_lines and prepare_documents: no block is
\* ever empty.
THEOREM TypeCorrect == Spec => []TypeOK
BY Invariance, PTL DEF IInv

\* Whatever the text, parse_block_lines returns the entries between its
\* delimiters: no line is lost, doubled or moved to another block.
THEOREM Parsing == Spec => []ParsesIntoEntries
<1>1. IInv => ParsesIntoEntries
  BY DEF IInv, ParsesIntoEntries
<1> QED
  BY <1>1, Invariance, PTL

\* Every document a load stores has one key, in its place, made of its own
\* lines and empty only with it, whatever the kind and the text.
THEOREM Keys == Spec => []KeysFit
<1>1. Init => KeysFit
  BY DEF Init, KeysFit
<1> QED
  BY <1>1, NextKeysFit, TypeCorrect, PTL DEF Spec

\* What list_handler shows of a collection, posted to load_from_web, stores the
\* same documents again, whatever the first text was: for services the lines
\* `// n' are the separators, for the other kinds comments.
THEOREM Reloading == Spec => []ListingReloads
<1>1. Init => ReloadInv
  BY DEF Init, ReloadInv, ListingReloads
<1>2. ReloadInv => ListingReloads
  BY DEF ReloadInv
<1> QED
  BY <1>1, <1>2, NextReloadInv, Invariance, PTL DEF Spec

=============================================================================
