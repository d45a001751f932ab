------------------------------ MODULE Scoring ------------------------------
(***************************************************************************)
(* What one collection contributes to the context of a question: every     *)
(* record scored (query_scored and cosine_distance, vector_store.rs), then *)
(* sorted, cut and narrowed (select_by_proximity, rag/pipeline.rs).        *)
(*                                                                         *)
(* A document is the position of its record.  Vectors hold whole numbers,  *)
(* as floats do up to a common factor, which no cosine depends on.  A      *)
(* distance is a whole number of parts of 1/Scale: the exact one, cut to   *)
(* such a part, and what the rounding of f32 adds for these two vectors.   *)
(***************************************************************************)
EXTENDS Integers, Sequences, FiniteSetsExt, Functions

CONSTANTS
  Vectors,  \* embeddings a file may hold, whatever model wrote it
  Queries,  \* embeddings of questions
  MaxDocs,  \* bound: records in the collection
  Ceilings, \* n_results
  Floors,   \* always-keep counts
  Bands,    \* distances above the best, in 1/Scale (2 * Scale: no band)
  Scale,
  Error,    \* the most that rounding adds to or takes off a distance, in 1/Scale
  Rounding  \* what it adds to the distance of a query from a vector

\* The loop of cosine_distance over the coordinates: a sum of their products.
Dot(a, b) ==
  LET upto[n \in 0..Len(a)] == IF n = 0 THEN 0 ELSE upto[n - 1] + a[n] * b[n]
  IN  upto[Len(a)]

\* na and nb, the squared length of a vector.
Square(v) == Dot(v, v)

ASSUME ScoringAssumption ==
  /\ Scale \in Nat \ {0} /\ {MaxDocs, Error} \subseteq Nat
  /\ Ceilings \cup Floors \cup Bands \subseteq Nat
  /\ Vectors \cup Queries \subseteq Seq(Int)
  /\ Rounding \in [Queries -> [Vectors -> -Error..Error]]

VARIABLES
  records,               \* the collection
  query, max, floor, band,
  at,                    \* "score", "sort", "select" or "done"
  scored,                \* documents and their distances
  out                    \* the documents selected so far

vars == <<records, query, max, floor, band, at, scored, out>>
input == <<records, query, max, floor, band>>

Undefined(a, b) == a = <<>> \/ Len(a) # Len(b) \/ Square(a) = 0 \/ Square(b) = 0

\* dot / (na.sqrt() * nb.sqrt()), in 1/Scale: the largest c with
\* c / Scale <= |dot| / sqrt(na * nb), and the sign of dot.
Cosine(a, b) ==
  LET dot == Scale * Dot(a, b)
      size == IF dot < 0 THEN -dot ELSE dot
      c == Cardinality({ k \in 1..size : k * k * (Square(a) * Square(b)) <= size * size })
  IN  IF dot < 0 THEN -c ELSE c

\* Variant: no similarity, taken for a distance.
DistanceOfNone ==
  [a \in Queries |-> [b \in Vectors |->
    IF Undefined(a, b) THEN 0 ELSE Scale - Cosine(a, b) + Rounding[a][b]]]

\* cosine_distance
Distance ==
  [a \in Queries |-> [b \in Vectors |->
    IF Undefined(a, b) THEN Scale ELSE Scale - Cosine(a, b) + Rounding[a][b]]]

Init ==
  /\ \E n \in 0..MaxDocs : records \in [1..n -> Vectors]
  /\ query \in Queries /\ max \in Ceilings /\ floor \in Floors /\ band \in Bands
  /\ at = "score" /\ scored = <<>> /\ out = <<>>

\* The map over the records.
Score ==
  /\ at = "score"
  /\ scored' = [i \in DOMAIN records |-> [doc |-> i, score |-> Distance[query][records[i]]]]
  /\ at' = "sort"
  /\ UNCHANGED <<input, out>>

\* sort_by is stable.
Before(i, j) ==
  \/ scored[i].score < scored[j].score
  \/ scored[i].score = scored[j].score /\ i < j

\* The position at which sort_by puts entry i.
Place(i) == Quantify(DOMAIN scored, LAMBDA j : Before(j, i)) + 1

\* Variant: one too many.
KeptOneMore(n) == 1..(max + 1) \cap 1..n

\* truncate
Kept(n) == 1..max \cap 1..n

Sort ==
  /\ at = "sort"
  /\ scored' = [p \in Kept(Len(scored)) |-> scored[CHOOSE i \in DOMAIN scored : Place(i) = p]]
  /\ at' = "select"
  /\ UNCHANGED <<input, out>>

\* Variant: the band starts at the score before, not at the best.
AdmitsNext(i) ==
  i - 1 < floor \/ scored[i].score - scored[IF i = 1 THEN 1 ELSE i - 1].score <= band

\* The condition of the loop of select_by_proximity.
Admits(i) == i - 1 < floor \/ scored[i].score - scored[1].score <= band

Take ==
  /\ at = "select" /\ Len(out) < Len(scored) /\ Admits(Len(out) + 1)
  /\ out' = Append(out, scored[Len(out) + 1].doc)
  /\ UNCHANGED <<input, at, scored>>

\* The first document outside the band, or the end.
Break ==
  /\ at = "select"
  /\ Len(out) < Len(scored) => ~Admits(Len(out) + 1)
  /\ at' = "done"
  /\ UNCHANGED <<input, scored, out>>

Next == Score \/ Sort \/ Take \/ Break

Spec == Init /\ [][Next]_vars

-----------------------------------------------------------------------------
(* Properties.                                                             *)

Distances == -Error..2 * Scale + Error

\* A distance leaves the range of cosine_distance's comment, [0, 2], by rounding
\* only; no more documents are kept than the ceiling.
TypeOK ==
  /\ records \in Seq(Vectors) /\ query \in Queries
  /\ at \in {"score", "sort", "select", "done"}
  /\ scored \in Seq([doc : DOMAIN records, score : Distances])
  /\ out \in Seq(DOMAIN records)
  /\ at \in {"select", "done"} => Len(scored) <= max

\* The context has the documents it should have, nearest first, stated without
\* a sort and without a loop: a record is wanted if fewer than the ceiling are
\* nearer, and fewer than the floor or the nearest of all is at most the band
\* nearer.  Of two as near, the one loaded first counts as nearer.  This is so
\* whatever the order of the records and however many tie at the ceiling or at
\* the edge of the band, with records that have no comparable vector among
\* them: stopping at the first document outside the band loses none.
SelectionIsNearest ==
  at = "done" =>
    LET docs == DOMAIN records
        far == [i \in docs |-> Distance[query][records[i]]]
        nearer == [i \in docs |->
                     { j \in docs : far[j] < far[i] \/ (far[j] = far[i] /\ j < i) }]
        Wanted(i) == /\ Cardinality(nearer[i]) < max
                     /\ \/ Cardinality(nearer[i]) < floor
                        \/ \A j \in docs : far[i] - far[j] <= band
    IN /\ Range(out) = { i \in docs : Wanted(i) }
       /\ \A p, q \in DOMAIN out : p < q => out[p] \in nearer[out[q]]

\* A record whose vector cannot be compared with the question's counts as one at
\* a right angle to it, not as the farthest: no matter how many such records a
\* file of another model holds, each record that points towards the question is
\* ranked before all of them, so the ceiling cuts it only after them; and a record
\* that points away from the question is ranked after them.
UncomparableInBetween ==
  at = "select" =>
    LET docs == DOMAIN records
        cannot == { i \in docs : Undefined(query, records[i]) }
        towards == { i \in docs \ cannot : Cosine(query, records[i]) > Error }
        away == { i \in docs \ cannot : Cosine(query, records[i]) < -Error }
    IN \A p \in DOMAIN scored :
         LET front == { scored[q].doc : q \in 1..p - 1 } IN
         /\ scored[p].doc \in cannot => towards \subseteq front
         /\ scored[p].doc \in away => cannot \subseteq front
=============================================================================
