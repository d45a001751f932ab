------------------------- MODULE VectorStoreProofs -------------------------
(***************************************************************************)
(* Proofs about VectorStore, for any sets of names, tasks, Arcs and        *)
(* versions, any bound on the blocks and any faults.                       *)
(***************************************************************************)
EXTENDS VectorStoreInv, TLAPS

-----------------------------------------------------------------------------
(* The data: collections and files.                                        *)

LEMMA EmptyIsRecs ==
  ASSUME NEW n \in Names
  PROVE  Empty \in Recs(n)
<1>1. MaxBlocks \in Nat
  BY StoreAssumption
<1>2. Empty \in [1..0 -> Docs(n)]
  BY DEF Empty
<1>3. 0 \in 0..MaxBlocks
  BY <1>1
<1>. QED
  BY <1>2, <1>3 DEF Recs, RecsUpTo

LEMMA BatchIsRecs ==
  ASSUME NEW n \in Names, NEW b \in Batches(n)
  PROVE  b \in Recs(n)
<1>1. PICK v \in Versions, k \in 0..MaxBlocks : b = Batch(n, v, k)
  BY DEF Batches
<1>2. b \in [1..k -> Docs(n)]
  BY <1>1 DEF Batch, Docs
<1>. QED
  BY <1>2 DEF Recs, RecsUpTo

\* upsert keeps a collection within the bound and within its documents.
LEMMA UpsertIsRecs ==
  ASSUME NEW n \in Names, NEW r \in Recs(n), NEW s \in Recs(n)
  PROVE  Upsert(r, s) \in Recs(n)
<1>0. MaxBlocks \in Nat
  BY StoreAssumption
<1>1. PICK i \in 0..MaxBlocks : r \in [1..i -> Docs(n)]
  BY DEF Recs, RecsUpTo
<1>2. PICK j \in 0..MaxBlocks : s \in [1..j -> Docs(n)]
  BY DEF Recs, RecsUpTo
<1>3. PICK k \in 0..MaxBlocks : (1..i) \cup (1..j) = 1..k
  <2>1. CASE i <= j
    <3>1. (1..i) \cup (1..j) = 1..j
      BY <2>1, <1>0
    <3>. QED
      BY <3>1
  <2>2. CASE ~(i <= j)
    <3>1. (1..i) \cup (1..j) = 1..i
      BY <2>2, <1>0
    <3>. QED
      BY <3>1
  <2>. QED
    BY <2>1, <2>2
<1>4. Upsert(r, s) \in [1..k -> Docs(n)]
  BY <1>1, <1>2, <1>3 DEF Upsert
<1>. QED
  BY <1>4 DEF Recs, RecsUpTo

\* An upsert into an empty collection leaves the batch.
LEMMA UpsertIntoEmpty ==
  ASSUME NEW n \in Names, NEW s \in Recs(n)
  PROVE  Upsert(Empty, s) = s
<1>1. PICK j \in 0..MaxBlocks : s \in [1..j -> Docs(n)]
  BY DEF Recs, RecsUpTo
<1>2. DOMAIN Empty = {}
  BY DEF Empty
<1>3. Upsert(Empty, s) = [i \in 1..j |-> s[i]]
  BY <1>1, <1>2 DEF Upsert
<1>. QED
  BY <1>1, <1>3

LEMMA RecsAreAny ==
  ASSUME NEW n \in Names
  PROVE  Recs(n) \subseteq AnyRecs
BY DEF AnyRecs

\* The values that stand for no collection are none.
LEMMA Sentinels ==
  /\ \A r \in AnyRecs : /\ r # Missing /\ r # Blank /\ r # Garbled
                        /\ r # Loading /\ r # Merged /\ r # Suspect
  /\ Missing # Blank /\ Missing # Garbled /\ Blank # Garbled
  /\ Loading # Merged /\ Loading # Suspect /\ Merged # Suspect
  /\ NoArc \notin Arcs /\ NoName \notin Names /\ Loaders \cap Readers = {}
BY StoreAssumption DEF NoCollection, History

LEMMA EmptyIsAny == Empty \in AnyRecs
BY StoreAssumption, EmptyIsRecs, RecsAreAny

\* What can come of writing a file.
LEMMA OverwriteCases ==
  ASSUME NEW d, NEW r
  PROVE  /\ \A f \in Overwrite(Blank, r) : f = r
         /\ \A f \in Overwrite(d, r) : f = r \/ f = Garbled
BY Sentinels DEF Overwrite

\* Dropping the Arcs nobody owns does not touch the others.
LEMMA OwnedStay ==
  ASSUME NEW h \in [Arcs -> AnyRecs], HeapBecomes(h)
  PROVE  /\ heap' \in [Arcs -> AnyRecs]
         /\ \A n \in Names : registry'[n] \in Arcs =>
              heap'[registry'[n]] = h[registry'[n]]
         /\ \A w \in Workers : arc'[w] \in Arcs => heap'[arc'[w]] = h[arc'[w]]
BY EmptyIsAny DEF HeapBecomes

-----------------------------------------------------------------------------
(* What a running task can rely on.                                        *)

LEMMA Running ==
  ASSUME IInv, NEW w \in Workers, at[w] # "idle"
  PROVE  /\ name[w] \in Names
         /\ at[w] = "insert" => snap[w] \in Recs(name[w])
         /\ w \in Loaders => batch[w] \in Recs(name[w])
         /\ arc[w] # NoArc => /\ arc[w] \in Arcs
                              /\ registry[name[w]] \in Arcs
                              /\ heap[arc[w]] \in Recs(name[w])
BY Sentinels DEF IInv, TypeOK, Places, Own, Opened

\* load_from_disk: what is saved is what the file holds, or nothing.
LEMMA SavedCases ==
  ASSUME IInv, NEW n \in Names
  PROVE  /\ Saved(n) \notin NoCollection => Saved(n) \in Recs(n)
         /\ disk[n] # Missing => Saved(n) = disk[n]
BY EmptyIsRecs DEF IInv, Own, Saved, NoCollection

\* A step that only lets go of Arcs leaves all records in reach as they are.
LEMMA HeapStays ==
  ASSUME IInv, HeapBecomes(heap), registry' = registry,
         \A v \in Workers : arc'[v] \in {arc[v], NoArc}
  PROVE  /\ heap' \in [Arcs -> AnyRecs]
         /\ \A n \in Names : registry[n] # NoArc =>
              heap'[registry[n]] = heap[registry[n]]
         /\ \A v \in Workers : arc'[v] # NoArc => heap'[arc[v]] = heap[arc[v]]
BY OwnedStay DEF IInv, TypeOK

-----------------------------------------------------------------------------
(* Every step keeps the invariant.                                         *)

LEMMA HitStep ==
  ASSUME IInv, NEW w \in Workers, Hit(w)
  PROVE  IInv'
<1>r. at[w] # "idle"
  BY DEF Hit
<1>0. /\ name[w] \in Names
      /\ w \in Loaders => batch[w] \in Recs(name[w])
      /\ arc[w] # NoArc => arc[w] \in Arcs /\ registry[name[w]] \in Arcs
      /\ arc[w] # NoArc => heap[arc[w]] \in Recs(name[w])
  BY <1>r, Running
<1>1. TypeOK'
  BY Sentinels, <1>0, RecsAreAny, EmptyIsAny DEF IInv, TypeOK, Places,
     History, NoCollection, Hit, store, locals
<1>2. Places'
  BY Sentinels, <1>0, RecsAreAny, EmptyIsAny DEF IInv, TypeOK, Places,
     Workers, Hit, store, locals
<1>3. Apart'
  BY Sentinels, <1>0 DEF IInv, TypeOK, Places, Apart, Opened, Hit, store,
     locals
<1>4. Own'
  BY Sentinels, <1>0, EmptyIsRecs DEF IInv, TypeOK, Places, Apart, Own,
     Opened, NoCollection, Hit, store, locals
<1>5. Opened'
  BY Sentinels, <1>0 DEF IInv, TypeOK, Places, Opened, Hit, store, locals
<1>6. ReadIsFile'
  BY Sentinels, <1>0 DEF IInv, TypeOK, Places, Opened, ReadIsFile, Saved, Hit,
     store, locals
<1>7. OneArc'
  BY Sentinels, <1>0 DEF IInv, TypeOK, Places, OneArc, Opened, Alone,
     InFlight, Hit, store, locals
<1>8. OneUpsert'
  BY Sentinels, <1>0 DEF IInv, TypeOK, Places, OneUpsert, Holds, WriteLocked,
     Hit, store, locals
<1>9. Alone'
  BY Sentinels, <1>0, RecsAreAny DEF IInv, TypeOK, Places, Alone, InFlight,
     Hit, store, locals
<1>10. Progress'
  BY Sentinels, <1>0 DEF IInv, TypeOK, Places, Apart, Opened, OneArc, Alone,
     InFlight, Progress, Reached, Hit, store, locals
<1>11. LastWrite'
  BY Sentinels, <1>0 DEF IInv, TypeOK, Places, OneArc, OneUpsert, Holds,
     LastWrite, InFlight, Hit, store, locals
<1>12. Kept'
  BY Sentinels, <1>0, RecsAreAny, EmptyIsAny DEF IInv, TypeOK, Places, Apart,
     Opened, Alone, ReadIsFile, OneArc, Progress, Reached, LastWrite, Kept,
     Served, Saved, InFlight, Hit, store, locals
<1>13. Coherent'
  BY Sentinels, <1>0 DEF IInv, TypeOK, Places, Apart, Opened, Alone,
     ReadIsFile, OneArc, LastWrite, Kept, Coherent, Served, Saved, InFlight,
     Hit, store, locals
<1>. QED
  BY <1>1, <1>2, <1>3, <1>4, <1>5, <1>6, <1>7, <1>8, <1>9, <1>10, <1>11,
     <1>12, <1>13 DEF IInv

LEMMA MissStep ==
  ASSUME IInv, NEW w \in Workers, Miss(w)
  PROVE  IInv'
<1>r. at[w] # "idle"
  BY DEF Miss
<1>0. /\ name[w] \in Names
      /\ w \in Loaders => batch[w] \in Recs(name[w])
      /\ arc[w] # NoArc => arc[w] \in Arcs /\ registry[name[w]] \in Arcs
      /\ arc[w] # NoArc => heap[arc[w]] \in Recs(name[w])
  BY <1>r, Running
<1>1. TypeOK'
  BY Sentinels, <1>0, RecsAreAny, EmptyIsAny DEF IInv, TypeOK, Places,
     History, NoCollection, Miss, store, locals
<1>2. Places'
  BY Sentinels, <1>0, RecsAreAny, EmptyIsAny DEF IInv, TypeOK, Places,
     Workers, Miss, store, locals
<1>3. Apart'
  BY Sentinels, <1>0 DEF IInv, TypeOK, Places, Apart, Opened, Miss, store,
     locals
<1>4. Own'
  BY Sentinels, <1>0, EmptyIsRecs DEF IInv, TypeOK, Places, Apart, Own,
     Opened, NoCollection, Miss, store, locals
<1>5. Opened'
  BY Sentinels, <1>0 DEF IInv, TypeOK, Places, Opened, Miss, store, locals
<1>6. ReadIsFile'
  BY Sentinels, <1>0 DEF IInv, TypeOK, Places, Opened, ReadIsFile, Saved,
     Miss, store, locals
<1>7. OneArc'
  BY Sentinels, <1>0 DEF IInv, TypeOK, Places, OneArc, Opened, Alone,
     InFlight, Miss, store, locals
<1>8. OneUpsert'
  BY Sentinels, <1>0 DEF IInv, TypeOK, Places, OneUpsert, Holds, WriteLocked,
     Miss, store, locals
<1>9. Alone'
  BY Sentinels, <1>0, RecsAreAny DEF IInv, TypeOK, Places, Alone, InFlight,
     Miss, store, locals
<1>10. Progress'
  BY Sentinels, <1>0 DEF IInv, TypeOK, Places, Apart, Opened, OneArc, Alone,
     InFlight, Progress, Reached, Miss, store, locals
<1>11. LastWrite'
  BY Sentinels, <1>0 DEF IInv, TypeOK, Places, OneArc, OneUpsert, Holds,
     LastWrite, InFlight, Miss, store, locals
<1>12. Kept'
  BY Sentinels, <1>0, RecsAreAny, EmptyIsAny DEF IInv, TypeOK, Places, Apart,
     Opened, Alone, ReadIsFile, OneArc, Progress, Reached, LastWrite, Kept,
     Served, Saved, InFlight, Miss, store, locals
<1>13. Coherent'
  BY Sentinels, <1>0 DEF IInv, TypeOK, Places, Apart, Opened, Alone,
     ReadIsFile, OneArc, LastWrite, Kept, Coherent, Served, Saved, InFlight,
     Miss, store, locals
<1>. QED
  BY <1>1, <1>2, <1>3, <1>4, <1>5, <1>6, <1>7, <1>8, <1>9, <1>10, <1>11,
     <1>12, <1>13 DEF IInv

LEMMA ReadFileStep ==
  ASSUME IInv, NEW w \in Workers, ReadFile(w)
  PROVE  IInv'
<1>r. at[w] # "idle"
  BY DEF ReadFile
<1>0. /\ name[w] \in Names
      /\ w \in Loaders => batch[w] \in Recs(name[w])
      /\ arc[w] # NoArc => arc[w] \in Arcs /\ registry[name[w]] \in Arcs
      /\ arc[w] # NoArc => heap[arc[w]] \in Recs(name[w])
  BY <1>r, Running
<1>1. TypeOK'
  BY Sentinels, <1>0, RecsAreAny, EmptyIsAny, SavedCases DEF IInv, TypeOK,
     Places, History, NoCollection, ReadFile, store, locals
<1>2. Places'
  BY Sentinels, <1>0, RecsAreAny, EmptyIsAny, SavedCases DEF IInv, TypeOK,
     Places, Workers, ReadFile, store, locals
<1>3. Apart'
  BY Sentinels, <1>0 DEF IInv, TypeOK, Places, Apart, Opened, ReadFile, store,
     locals
<1>4. Own'
  BY Sentinels, <1>0, EmptyIsRecs DEF IInv, TypeOK, Places, Apart, Own,
     Opened, NoCollection, ReadFile, store, locals
<1>5. Opened'
  BY Sentinels, <1>0 DEF IInv, TypeOK, Places, Opened, ReadFile, store, locals
<1>6. ReadIsFile'
  BY Sentinels, <1>0 DEF IInv, TypeOK, Places, Opened, ReadIsFile, Saved,
     ReadFile, store, locals
<1>7. OneArc'
  BY Sentinels, <1>0 DEF IInv, TypeOK, Places, OneArc, Opened, Alone,
     InFlight, ReadFile, store, locals
<1>8. OneUpsert'
  BY Sentinels, <1>0 DEF IInv, TypeOK, Places, OneUpsert, Holds, WriteLocked,
     ReadFile, store, locals
<1>9. Alone'
  BY Sentinels, <1>0, RecsAreAny DEF IInv, TypeOK, Places, Alone, InFlight,
     ReadFile, store, locals
<1>10. Progress'
  BY Sentinels, <1>0 DEF IInv, TypeOK, Places, Apart, Opened, OneArc, Alone,
     InFlight, Progress, Reached, ReadFile, store, locals
<1>11. LastWrite'
  BY Sentinels, <1>0 DEF IInv, TypeOK, Places, OneArc, OneUpsert, Holds,
     LastWrite, InFlight, ReadFile, store, locals
<1>12. Kept'
  BY Sentinels, <1>0, RecsAreAny, EmptyIsAny DEF IInv, TypeOK, Places, Apart,
     Opened, Alone, ReadIsFile, OneArc, Progress, Reached, LastWrite, Kept,
     Served, Saved, InFlight, ReadFile, store, locals
<1>13. Coherent'
  BY Sentinels, <1>0 DEF IInv, TypeOK, Places, Apart, Opened, Alone,
     ReadIsFile, OneArc, LastWrite, Kept, Coherent, Served, Saved, InFlight,
     ReadFile, store, locals
<1>. QED
  BY <1>1, <1>2, <1>3, <1>4, <1>5, <1>6, <1>7, <1>8, <1>9, <1>10, <1>11,
     <1>12, <1>13 DEF IInv

LEMMA InsertStep ==
  ASSUME IInv, NEW w \in Workers, Insert(w)
  PROVE  IInv'
<1>r. at[w] # "idle"
  BY DEF Insert
<1>0. /\ name[w] \in Names
      /\ w \in Loaders => batch[w] \in Recs(name[w])
      /\ arc[w] # NoArc => arc[w] \in Arcs /\ registry[name[w]] \in Arcs
      /\ arc[w] # NoArc => heap[arc[w]] \in Recs(name[w])
  BY <1>r, Running
<1>. DEFINE n == name[w]
<1>a. PICK a \in Arcs : /\ Free(a)
                        /\ arc' = [arc EXCEPT ![w] = a]
                        /\ registry' = [registry EXCEPT ![n] = a]
                        /\ HeapBecomes([heap EXCEPT ![a] = snap[w]])
  BY DEF Insert
<1>b. /\ snap[w] \in Recs(n) /\ snap[w] \in AnyRecs
      /\ a # NoArc
      /\ \A m \in Names : registry[m] # a
      /\ \A v \in Workers : arc[v] # a
      /\ arc'[w] = a /\ registry'[n] = a
      /\ \A m \in Names : m # n => registry'[m] = registry[m]
      /\ \A v \in Workers : v # w => arc'[v] = arc[v]
  BY <1>a, <1>r, <1>0, Running, RecsAreAny, Sentinels DEF IInv, TypeOK, Free, Insert
<1>h. /\ heap' \in [Arcs -> AnyRecs]
      /\ heap'[a] = snap[w]
      /\ \A m \in Names : m # n /\ registry[m] # NoArc =>
           heap'[registry[m]] = heap[registry[m]]
      /\ \A v \in Workers : v # w /\ arc[v] # NoArc => heap'[arc[v]] = heap[arc[v]]
  <2>. DEFINE h == [heap EXCEPT ![a] = snap[w]]
  <2>1. h \in [Arcs -> AnyRecs] /\ HeapBecomes(h)
    BY <1>a, <1>b DEF IInv, TypeOK
  <2>2. h[a] = snap[w] /\ \A c \in Arcs : c # a => h[c] = heap[c]
    BY <1>b DEF IInv, TypeOK
  <2>. HIDE DEF h
  <2>. QED
    BY <2>1, <2>2, <1>b, OwnedStay DEF IInv, TypeOK
<1>p. /\ UNCHANGED <<disk, call, name, batch>>
      /\ at' = [at EXCEPT ![w] = "body"]
      /\ at[w] = "insert"
      /\ \A m \in Names : m # n => promise'[m] = promise[m]
      /\ promise'[n] # Suspect =>
           /\ promise'[n] = promise[n]
           /\ \/ registry[n] = NoArc
              \/ promise[n] = snap[w]
              \/ InFlight(n) = {w}
  BY <1>0 DEF IInv, TypeOK, Insert
<1>1. TypeOK'
  BY Sentinels, <1>0, <1>b, <1>h, <1>p, RecsAreAny, EmptyIsAny DEF IInv,
     TypeOK, Places, History, NoCollection, Insert, HeapBecomes, store, locals
<1>2. Places'
  BY Sentinels, <1>0, <1>b, <1>h, <1>p, RecsAreAny, EmptyIsAny DEF IInv,
     TypeOK, Places, Workers, Insert, HeapBecomes, store, locals
<1>3. Apart'
  BY <1>0, <1>b, <1>h, <1>p, Sentinels DEF IInv, Apart
<1>4. Own'
  BY <1>0, <1>b, <1>h, <1>p, Sentinels DEF IInv, TypeOK, Own, NoCollection
<1>5. Opened'
  BY <1>0, <1>b, <1>h, <1>p, Sentinels DEF IInv, TypeOK, Places, Opened
<1>6. ReadIsFile'
  BY Sentinels, <1>0, <1>b, <1>h, <1>p DEF IInv, TypeOK, Places, Opened,
     ReadIsFile, Saved, Insert, HeapBecomes, store, locals
<1>7. OneArc'
  <2>. SUFFICES ASSUME NEW v \in Loaders, arc'[v] # NoArc,
                       promise'[name'[v]] # Suspect
                PROVE  arc'[v] = registry'[name'[v]]
    BY DEF OneArc
  <2>1. CASE v = w
    BY <2>1, <1>b, <1>p
  <2>2. CASE v # w
    <3>1. arc[v] # NoArc /\ arc'[v] = arc[v] /\ at[v] # "idle" /\ v \in Workers
      BY <2>2, <1>b DEF Workers, IInv, Places
    <3>2. name[v] \in Names /\ registry[name[v]] # NoArc
      BY <3>1, Running DEF IInv, Opened
    <3>3. CASE name[v] # n
      BY <3>1, <3>2, <3>3, <1>b, <1>p DEF IInv, OneArc
    <3>4. CASE name[v] = n
      <4>1. v \in InFlight(n)
        BY <3>4 DEF InFlight
      <4>2. promise[n] = snap[w] \/ InFlight(n) = {w}
        BY <3>2, <3>4, <1>p
      <4>. QED
        BY <4>1, <4>2, <2>2, <1>0, <1>b DEF IInv, Alone
    <3>. QED
      BY <3>3, <3>4
  <2>. QED
    BY <2>1, <2>2
<1>8. OneUpsert'
  BY <1>0, <1>b, <1>h, <1>p, Sentinels DEF IInv, TypeOK, OneUpsert, Holds
<1>9. Alone'
  BY Sentinels, <1>0, <1>b, <1>h, <1>p, RecsAreAny DEF IInv, TypeOK, Places,
     Alone, InFlight, Insert, HeapBecomes, store, locals
<1>10. Progress'
  <2>. SUFFICES ASSUME NEW v \in Loaders, at'[v] # "idle",
                       promise'[name'[v]] = Loading
                PROVE  Reached(v)'
    BY DEF Progress
  <2>1. v \in Workers /\ name[v] = name'[v]
    BY <1>p DEF Workers
  <2>2. CASE v = w
    <3>1. call[w] = "reset" /\ at'[w] = "body"
      BY <2>2, <1>p, <1>r DEF IInv, TypeOK, Places, Opened
    <3>. QED
      BY <2>2, <3>1, <1>p DEF Reached
  <2>3. CASE v # w
    <3>1. at'[v] = at[v] /\ name[v] \in Names
      BY <2>1, <2>3, <1>p, Running DEF IInv, TypeOK
    <3>2. promise[name[v]] = Loading
      BY <3>1, <2>1, <1>p, Sentinels
    <3>3. Reached(v)
      BY <3>1, <3>2 DEF IInv, Progress
    <3>4. (call[v] = "upsert" \/ at[v] \in {"open", "write"}) => registry[name[v]] # NoArc
      BY <2>1, <3>1 DEF IInv, Opened, Places
    <3>5. CASE name[v] # n
      BY <2>1, <3>1, <3>3, <3>4, <3>5, <1>b, <1>h, <1>p DEF Reached
    <3>6. CASE name[v] = n
      <4>1. registry[n] = NoArc
        BY <3>2, <3>6, <2>1, <2>3, <1>b, <1>p, Sentinels DEF InFlight
      <4>. QED
        BY <3>1, <3>4, <3>6, <4>1, <1>p DEF Reached
    <3>. QED
      BY <3>5, <3>6
  <2>. QED
    BY <2>2, <2>3
<1>11. LastWrite'
  BY Sentinels, <1>0, <1>b, <1>h, <1>p DEF IInv, TypeOK, Places, OneArc,
     OneUpsert, Holds, LastWrite, InFlight, Insert, HeapBecomes, store, locals
<1>12. Kept'
  BY <1>0, <1>b, <1>h, <1>p, Sentinels DEF IInv, TypeOK, Places, Alone, InFlight, ReadIsFile, Kept, Served, Saved
<1>13. Coherent'
  BY <1>0, <1>b, <1>h, <1>p, Sentinels DEF IInv, TypeOK, Places, Alone, InFlight, ReadIsFile, Kept, Coherent, Served, Saved
<1>. QED
  BY <1>1, <1>2, <1>3, <1>4, <1>5, <1>6, <1>7, <1>8, <1>9, <1>10, <1>11,
     <1>12, <1>13 DEF IInv

LEMMA ReadFileFailsStep ==
  ASSUME IInv, NEW w \in Workers, ReadFileFails(w)
  PROVE  IInv'
<1>r. at[w] # "idle"
  BY DEF ReadFileFails
<1>0. /\ name[w] \in Names
      /\ w \in Loaders => batch[w] \in Recs(name[w])
      /\ arc[w] # NoArc => arc[w] \in Arcs /\ registry[name[w]] \in Arcs
      /\ arc[w] # NoArc => heap[arc[w]] \in Recs(name[w])
  BY <1>r, Running
<1>1. TypeOK'
  BY Sentinels, <1>0, RecsAreAny, EmptyIsAny DEF IInv, TypeOK, Places,
     History, NoCollection, ReadFileFails, Fail, Return, store, locals
<1>2. Places'
  BY Sentinels, <1>0, RecsAreAny, EmptyIsAny DEF IInv, TypeOK, Places,
     Workers, ReadFileFails, Fail, Return, store, locals
<1>3. Apart'
  BY Sentinels, <1>0 DEF IInv, TypeOK, Places, Apart, Opened, ReadFileFails,
     Fail, Return, store, locals
<1>4. Own'
  BY Sentinels, <1>0, EmptyIsRecs DEF IInv, TypeOK, Places, Apart, Own,
     Opened, NoCollection, ReadFileFails, Fail, Return, store, locals
<1>5. Opened'
  BY Sentinels, <1>0 DEF IInv, TypeOK, Places, Opened, ReadFileFails, Fail,
     Return, store, locals
<1>6. ReadIsFile'
  BY Sentinels, <1>0 DEF IInv, TypeOK, Places, Opened, ReadIsFile, Saved,
     ReadFileFails, Fail, Return, store, locals
<1>7. OneArc'
  BY Sentinels, <1>0 DEF IInv, TypeOK, Places, OneArc, Opened, Alone,
     InFlight, ReadFileFails, Fail, Return, store, locals
<1>8. OneUpsert'
  BY Sentinels, <1>0 DEF IInv, TypeOK, Places, OneUpsert, Holds, WriteLocked,
     ReadFileFails, Fail, Return, store, locals
<1>9. Alone'
  BY Sentinels, <1>0, RecsAreAny DEF IInv, TypeOK, Places, Alone, InFlight,
     ReadFileFails, Fail, Return, store, locals
<1>10. Progress'
  BY Sentinels, <1>0 DEF IInv, TypeOK, Places, Apart, Opened, OneArc, Alone,
     InFlight, Progress, Reached, ReadFileFails, Fail, Return, store, locals
<1>11. LastWrite'
  BY Sentinels, <1>0 DEF IInv, TypeOK, Places, OneArc, OneUpsert, Holds,
     LastWrite, InFlight, ReadFileFails, Fail, Return, store, locals
<1>12. Kept'
  BY Sentinels, <1>0, RecsAreAny, EmptyIsAny DEF IInv, TypeOK, Places, Apart,
     Opened, Alone, ReadIsFile, OneArc, Progress, Reached, LastWrite, Kept,
     Served, Saved, InFlight, ReadFileFails, Fail, Return, store, locals
<1>13. Coherent'
  BY Sentinels, <1>0 DEF IInv, TypeOK, Places, Apart, Opened, Alone,
     ReadIsFile, OneArc, LastWrite, Kept, Coherent, Served, Saved, InFlight,
     ReadFileFails, Fail, Return, store, locals
<1>. QED
  BY <1>1, <1>2, <1>3, <1>4, <1>5, <1>6, <1>7, <1>8, <1>9, <1>10, <1>11,
     <1>12, <1>13 DEF IInv

LEMMA ClearStep ==
  ASSUME IInv, NEW w \in Workers, Clear(w)
  PROVE  IInv'
<1>r. at[w] # "idle"
  BY DEF Clear
<1>0. /\ name[w] \in Names
      /\ w \in Loaders => batch[w] \in Recs(name[w])
      /\ arc[w] # NoArc => arc[w] \in Arcs /\ registry[name[w]] \in Arcs
      /\ arc[w] # NoArc => heap[arc[w]] \in Recs(name[w])
  BY <1>r, Running
<1>h. /\ heap' \in [Arcs -> AnyRecs]
      /\ heap'[arc[w]] = Empty
      /\ \A a \in Arcs : a # arc[w] => heap'[a] = heap[a]
      /\ w \in Loaders /\ arc[w] # NoArc
  BY Sentinels, <1>0, EmptyIsAny DEF IInv, TypeOK, Places, Workers, Clear
<1>1. TypeOK'
  BY Sentinels, <1>0, <1>h, RecsAreAny, EmptyIsAny DEF IInv, TypeOK, Places,
     History, NoCollection, Clear, WriteLocked, store, locals
<1>2. Places'
  BY Sentinels, <1>0, <1>h, RecsAreAny, EmptyIsAny DEF IInv, TypeOK, Places,
     Workers, Clear, WriteLocked, store, locals
<1>3. Apart'
  BY Sentinels, <1>0, <1>h DEF IInv, TypeOK, Places, Apart, Opened, Clear,
     WriteLocked, store, locals
<1>4. Own'
  BY Sentinels, <1>0, <1>h, EmptyIsRecs DEF IInv, TypeOK, Places, Apart, Own,
     Opened, NoCollection, Clear, WriteLocked, store, locals
<1>5. Opened'
  BY Sentinels, <1>0, <1>h DEF IInv, TypeOK, Places, Opened, Clear,
     WriteLocked, store, locals
<1>6. ReadIsFile'
  BY Sentinels, <1>0, <1>h DEF IInv, TypeOK, Places, Opened, ReadIsFile,
     Saved, Clear, WriteLocked, store, locals
<1>7. OneArc'
  BY Sentinels, <1>0, <1>h DEF IInv, TypeOK, Places, OneArc, Opened, Alone,
     InFlight, Clear, WriteLocked, store, locals
<1>8. OneUpsert'
  BY Sentinels, <1>0, <1>h DEF IInv, TypeOK, Places, OneUpsert, Holds,
     WriteLocked, Clear, store, locals
<1>9. Alone'
  BY Sentinels, <1>0, <1>h, RecsAreAny DEF IInv, TypeOK, Places, Alone,
     InFlight, Clear, WriteLocked, store, locals
<1>10. Progress'
  <2>. SUFFICES ASSUME NEW v \in Loaders, at'[v] # "idle",
                       promise'[name'[v]] = Loading
                PROVE  Reached(v)'
    BY DEF Progress
  <2>1. CASE v = w
    BY <2>1, <1>0, <1>h, Sentinels DEF IInv, TypeOK, OneArc, Clear, Reached, store, locals
  <2>2. CASE v # w
    <3>1. v \in Workers
      BY DEF Workers
    <3>2. UNCHANGED <<at[v], call[v], name[v], batch[v], arc[v], registry, promise>>
      BY <2>2, <3>1 DEF IInv, TypeOK, Clear, store, locals
    <3>3. name[v] \in Names /\ promise[name[v]] = Loading /\ name[v] # name[w]
      BY <2>2, <3>1, <3>2, <1>0, <1>r, <1>h, Running DEF IInv, TypeOK, Alone, InFlight
    <3>4. Reached(v)
      BY <3>2, <3>3 DEF IInv, Progress
    <3>5. UNCHANGED disk[name[v]]
      BY <3>2, <3>3, <1>0 DEF IInv, TypeOK, Clear, store
    <3>6. (call[v] = "upsert" \/ at[v] \in {"open", "write"}) => registry[name[v]] # NoArc
      BY <3>1, <3>2 DEF IInv, Opened, Places
    <3>7. registry[name[v]] # NoArc => UNCHANGED heap[registry[name[v]]]
      BY <3>2, <3>3, <1>0, <1>h DEF IInv, TypeOK, Apart, Clear, store
    <3>. QED
      BY <3>2, <3>4, <3>5, <3>6, <3>7 DEF Reached
  <2>. QED
    BY <2>1, <2>2
<1>11. LastWrite'
  BY Sentinels, <1>0, <1>h DEF IInv, TypeOK, Places, OneArc, OneUpsert, Holds,
     LastWrite, InFlight, Clear, WriteLocked, store, locals
<1>12. Kept'
  BY Sentinels, <1>0, <1>h, RecsAreAny, EmptyIsAny DEF IInv, TypeOK, Places,
     Apart, Opened, Alone, ReadIsFile, OneArc, Progress, Reached, LastWrite,
     Kept, Served, Saved, InFlight, Clear, WriteLocked, store, locals
<1>13. Coherent'
  BY Sentinels, <1>0, <1>h DEF IInv, TypeOK, Places, Apart, Opened, Alone,
     ReadIsFile, OneArc, LastWrite, Kept, Coherent, Served, Saved, InFlight,
     Clear, WriteLocked, store, locals
<1>. QED
  BY <1>1, <1>2, <1>3, <1>4, <1>5, <1>6, <1>7, <1>8, <1>9, <1>10, <1>11,
     <1>12, <1>13 DEF IInv

LEMMA MergeStep ==
  ASSUME IInv, NEW w \in Workers, Merge(w)
  PROVE  IInv'
<1>r. at[w] # "idle"
  BY DEF Merge
<1>0. /\ name[w] \in Names
      /\ w \in Loaders => batch[w] \in Recs(name[w])
      /\ arc[w] # NoArc => arc[w] \in Arcs /\ registry[name[w]] \in Arcs
      /\ arc[w] # NoArc => heap[arc[w]] \in Recs(name[w])
  BY <1>r, Running
<1>h. /\ heap'[arc[w]] = Upsert(heap[arc[w]], batch[w])
      /\ heap'[arc[w]] \in Recs(name[w])
      /\ heap' \in [Arcs -> AnyRecs]
      /\ \A a \in Arcs : a # arc[w] => heap'[a] = heap[a]
      /\ w \in Loaders /\ arc[w] # NoArc
  <2>1. w \in Loaders /\ arc[w] # NoArc
    BY <1>0 DEF IInv, Places, Workers, Merge
  <2>2. Upsert(heap[arc[w]], batch[w]) \in Recs(name[w])
    BY <1>0, <2>1, UpsertIsRecs
  <2>. QED
    BY <1>0, <2>1, <2>2, RecsAreAny DEF IInv, TypeOK, Merge
<1>1. TypeOK'
  BY Sentinels, <1>0, <1>h, RecsAreAny, EmptyIsAny, UpsertIsRecs DEF IInv,
     TypeOK, Places, History, NoCollection, Merge, WriteLocked, store, locals
<1>2. Places'
  BY Sentinels, <1>0, <1>h, RecsAreAny, EmptyIsAny DEF IInv, TypeOK, Places,
     Workers, Merge, WriteLocked, store, locals
<1>3. Apart'
  BY Sentinels, <1>0, <1>h DEF IInv, TypeOK, Places, Apart, Opened, Merge,
     WriteLocked, store, locals
<1>4. Own'
  BY Sentinels, <1>0, <1>h, EmptyIsRecs, UpsertIsRecs DEF IInv, TypeOK,
     Places, Apart, Own, Opened, NoCollection, Merge, WriteLocked, store,
     locals
<1>5. Opened'
  BY Sentinels, <1>0, <1>h DEF IInv, TypeOK, Places, Opened, Merge,
     WriteLocked, store, locals
<1>6. ReadIsFile'
  BY Sentinels, <1>0, <1>h DEF IInv, TypeOK, Places, Opened, ReadIsFile,
     Saved, Merge, WriteLocked, store, locals
<1>7. OneArc'
  BY Sentinels, <1>0, <1>h DEF IInv, TypeOK, Places, OneArc, Opened, Alone,
     InFlight, Merge, WriteLocked, store, locals
<1>8. OneUpsert'
  BY Sentinels, <1>0, <1>h DEF IInv, TypeOK, Places, OneUpsert, Holds,
     WriteLocked, Merge, store, locals
<1>9. Alone'
  BY Sentinels, <1>0, <1>h, RecsAreAny DEF IInv, TypeOK, Places, Alone,
     InFlight, Merge, WriteLocked, store, locals
<1>10. Progress'
  <2>. SUFFICES ASSUME NEW v \in Loaders, at'[v] # "idle",
                       promise'[name'[v]] = Loading
                PROVE  Reached(v)'
    BY DEF Progress
  <2>1. CASE v = w
    BY <2>1, <1>0, <1>h, Sentinels , UpsertIntoEmpty DEF IInv, TypeOK, OneArc, Merge, Progress, Reached, store, locals
  <2>2. CASE v # w
    <3>1. v \in Workers
      BY DEF Workers
    <3>2. UNCHANGED <<at[v], call[v], name[v], batch[v], arc[v], registry, promise>>
      BY <2>2, <3>1 DEF IInv, TypeOK, Merge, store, locals
    <3>3. name[v] \in Names /\ promise[name[v]] = Loading /\ name[v] # name[w]
      BY <2>2, <3>1, <3>2, <1>0, <1>r, <1>h, Running DEF IInv, TypeOK, Alone, InFlight
    <3>4. Reached(v)
      BY <3>2, <3>3 DEF IInv, Progress
    <3>5. UNCHANGED disk[name[v]]
      BY <3>2, <3>3, <1>0 DEF IInv, TypeOK, Merge, store
    <3>6. (call[v] = "upsert" \/ at[v] \in {"open", "write"}) => registry[name[v]] # NoArc
      BY <3>1, <3>2 DEF IInv, Opened, Places
    <3>7. registry[name[v]] # NoArc => UNCHANGED heap[registry[name[v]]]
      BY <3>2, <3>3, <1>0, <1>h DEF IInv, TypeOK, Apart, Merge, store
    <3>. QED
      BY <3>2, <3>4, <3>5, <3>6, <3>7 DEF Reached
  <2>. QED
    BY <2>1, <2>2
<1>11. LastWrite'
  BY Sentinels, <1>0, <1>h DEF IInv, TypeOK, Places, OneArc, OneUpsert, Holds,
     LastWrite, InFlight, Merge, WriteLocked, store, locals
<1>12. Kept'
  BY Sentinels, <1>0, <1>h, RecsAreAny, EmptyIsAny DEF IInv, TypeOK, Places,
     Apart, Opened, Alone, ReadIsFile, OneArc, Progress, Reached, LastWrite,
     Kept, Served, Saved, InFlight, Merge, WriteLocked, store, locals
<1>13. Coherent'
  BY Sentinels, <1>0, <1>h DEF IInv, TypeOK, Places, Apart, Opened, Alone,
     ReadIsFile, OneArc, LastWrite, Kept, Coherent, Served, Saved, InFlight,
     Merge, WriteLocked, store, locals
<1>. QED
  BY <1>1, <1>2, <1>3, <1>4, <1>5, <1>6, <1>7, <1>8, <1>9, <1>10, <1>11,
     <1>12, <1>13 DEF IInv

LEMMA TakeReadStep ==
  ASSUME IInv, NEW w \in Workers, TakeRead(w)
  PROVE  IInv'
<1>r. at[w] # "idle"
  BY DEF TakeRead
<1>0. /\ name[w] \in Names
      /\ w \in Loaders => batch[w] \in Recs(name[w])
      /\ arc[w] # NoArc => arc[w] \in Arcs /\ registry[name[w]] \in Arcs
      /\ arc[w] # NoArc => heap[arc[w]] \in Recs(name[w])
  BY <1>r, Running
<1>1. TypeOK'
  BY Sentinels, <1>0, RecsAreAny, EmptyIsAny DEF IInv, TypeOK, Places,
     History, NoCollection, TakeRead, store, locals
<1>2. Places'
  BY Sentinels, <1>0, RecsAreAny, EmptyIsAny DEF IInv, TypeOK, Places,
     Workers, TakeRead, store, locals
<1>3. Apart'
  BY Sentinels, <1>0 DEF IInv, TypeOK, Places, Apart, Opened, TakeRead, store,
     locals
<1>4. Own'
  BY Sentinels, <1>0, EmptyIsRecs DEF IInv, TypeOK, Places, Apart, Own,
     Opened, NoCollection, TakeRead, store, locals
<1>5. Opened'
  BY Sentinels, <1>0 DEF IInv, TypeOK, Places, Opened, TakeRead, store, locals
<1>6. ReadIsFile'
  BY Sentinels, <1>0 DEF IInv, TypeOK, Places, Opened, ReadIsFile, Saved,
     TakeRead, store, locals
<1>7. OneArc'
  BY Sentinels, <1>0 DEF IInv, TypeOK, Places, OneArc, Opened, Alone,
     InFlight, TakeRead, store, locals
<1>8. OneUpsert'
  BY Sentinels, <1>0 DEF IInv, TypeOK, Places, OneUpsert, Holds, WriteLocked,
     TakeRead, store, locals
<1>9. Alone'
  BY Sentinels, <1>0, RecsAreAny DEF IInv, TypeOK, Places, Alone, InFlight,
     TakeRead, store, locals
<1>10. Progress'
  BY Sentinels, <1>0 DEF IInv, TypeOK, Places, Apart, Opened, OneArc, Alone,
     InFlight, Progress, Reached, TakeRead, store, locals
<1>11. LastWrite'
  BY Sentinels, <1>0 DEF IInv, TypeOK, Places, OneArc, OneUpsert, Holds,
     LastWrite, InFlight, TakeRead, store, locals
<1>12. Kept'
  BY Sentinels, <1>0, RecsAreAny, EmptyIsAny DEF IInv, TypeOK, Places, Apart,
     Opened, Alone, ReadIsFile, OneArc, Progress, Reached, LastWrite, Kept,
     Served, Saved, InFlight, TakeRead, store, locals
<1>13. Coherent'
  BY Sentinels, <1>0 DEF IInv, TypeOK, Places, Apart, Opened, Alone,
     ReadIsFile, OneArc, LastWrite, Kept, Coherent, Served, Saved, InFlight,
     TakeRead, store, locals
<1>. QED
  BY <1>1, <1>2, <1>3, <1>4, <1>5, <1>6, <1>7, <1>8, <1>9, <1>10, <1>11,
     <1>12, <1>13 DEF IInv

LEMMA ScanStep ==
  ASSUME IInv, NEW w \in Workers, Scan(w)
  PROVE  IInv'
<1>r. at[w] # "idle"
  BY DEF Scan
<1>0. /\ name[w] \in Names
      /\ w \in Loaders => batch[w] \in Recs(name[w])
      /\ arc[w] # NoArc => arc[w] \in Arcs /\ registry[name[w]] \in Arcs
      /\ arc[w] # NoArc => heap[arc[w]] \in Recs(name[w])
  BY <1>r, Running
<1>h. /\ heap' \in [Arcs -> AnyRecs]
      /\ \A n \in Names : registry[n] # NoArc =>
           heap'[registry[n]] = heap[registry[n]]
      /\ \A v \in Workers : arc'[v] # NoArc => heap'[arc[v]] = heap[arc[v]]
  <2>1. registry' = registry /\ HeapBecomes(heap)
    BY DEF Scan
  <2>2. \A v \in Workers : arc'[v] \in {arc[v], NoArc}
    BY DEF IInv, TypeOK, Scan, Return
  <2>. QED
    BY <2>1, <2>2, HeapStays
<1>1. TypeOK'
  BY Sentinels, <1>0, <1>h, RecsAreAny, EmptyIsAny DEF IInv, TypeOK, Places,
     History, NoCollection, Scan, Return, store, locals
<1>2. Places'
  BY Sentinels, <1>0, <1>h, RecsAreAny, EmptyIsAny DEF IInv, TypeOK, Places,
     Workers, Scan, Return, store, locals
<1>3. Apart'
  BY Sentinels, <1>0, <1>h DEF IInv, TypeOK, Places, Apart, Opened, Scan,
     Return, store, locals
<1>4. Own'
  BY Sentinels, <1>0, <1>h, EmptyIsRecs DEF IInv, TypeOK, Places, Apart, Own,
     Opened, NoCollection, Scan, Return, store, locals
<1>5. Opened'
  BY Sentinels, <1>0, <1>h DEF IInv, TypeOK, Places, Opened, Scan, Return,
     store, locals
<1>6. ReadIsFile'
  BY Sentinels, <1>0, <1>h DEF IInv, TypeOK, Places, Opened, ReadIsFile,
     Saved, Scan, Return, store, locals
<1>7. OneArc'
  BY Sentinels, <1>0, <1>h DEF IInv, TypeOK, Places, OneArc, Opened, Alone,
     InFlight, Scan, Return, store, locals
<1>8. OneUpsert'
  BY Sentinels, <1>0, <1>h DEF IInv, TypeOK, Places, OneUpsert, Holds,
     Scan, Return, store, locals
<1>9. Alone'
  BY Sentinels, <1>0, <1>h, RecsAreAny DEF IInv, TypeOK, Places, Alone,
     InFlight, Scan, Return, store, locals
<1>10. Progress'
  <2>. SUFFICES ASSUME NEW v \in Loaders, at'[v] # "idle",
                       promise'[name'[v]] = Loading
                PROVE  Reached(v)'
    BY DEF Progress
  <2>1. v \in Workers /\ v # w
    BY DEF Workers, IInv, TypeOK, Scan, Return
  <2>2. UNCHANGED <<at[v], call[v], name[v], batch[v], arc[v], registry>>
    BY <2>1 DEF IInv, TypeOK, Scan, Return, store, locals
  <2>3. name[v] \in Names /\ promise[name[v]] = Loading
    BY <2>1, <2>2, Running, Sentinels DEF IInv, TypeOK, Scan, Return
  <2>4. Reached(v)
    BY <2>2, <2>3 DEF IInv, Progress
  <2>5. UNCHANGED disk[name[v]]
    BY <2>1, <2>2, <2>3, <1>0, Sentinels DEF IInv, TypeOK, Places, Alone, InFlight, Workers, Scan, Return, store
  <2>6. (call[v] = "upsert" \/ at[v] \in {"open", "write"}) => registry[name[v]] # NoArc
    BY <2>1, <2>2 DEF IInv, Opened, Places
  <2>7. registry[name[v]] # NoArc => UNCHANGED heap[registry[name[v]]]
    BY <2>1, <2>2, <2>3, <1>h
  <2>. QED
    BY <2>2, <2>4, <2>5, <2>6, <2>7 DEF Reached
<1>11. LastWrite'
  BY Sentinels, <1>0, <1>h DEF IInv, TypeOK, Places, OneArc, OneUpsert, Holds,
     LastWrite, InFlight, Scan, Return, store, locals
<1>12. Kept'
  BY Sentinels, <1>0, <1>h, RecsAreAny, EmptyIsAny DEF IInv, TypeOK, Places,
     Apart, Opened, Alone, ReadIsFile, OneArc, Progress, Reached, LastWrite,
     Kept, Served, Saved, InFlight, Scan, Return, store, locals
<1>13. Coherent'
  BY Sentinels, <1>0, <1>h DEF IInv, TypeOK, Places, Apart, Opened, Alone,
     ReadIsFile, OneArc, LastWrite, Kept, Coherent, Served, Saved, InFlight,
     Scan, Return, store, locals
<1>. QED
  BY <1>1, <1>2, <1>3, <1>4, <1>5, <1>6, <1>7, <1>8, <1>9, <1>10, <1>11,
     <1>12, <1>13 DEF IInv

LEMMA OpenFileStep ==
  ASSUME IInv, NEW w \in Workers, OpenFile(w)
  PROVE  IInv'
<1>r. at[w] # "idle"
  BY DEF OpenFile
<1>0. /\ name[w] \in Names
      /\ w \in Loaders => batch[w] \in Recs(name[w])
      /\ arc[w] # NoArc => arc[w] \in Arcs /\ registry[name[w]] \in Arcs
      /\ arc[w] # NoArc => heap[arc[w]] \in Recs(name[w])
  BY <1>r, Running
<1>1. TypeOK'
  BY Sentinels, <1>0, RecsAreAny, EmptyIsAny DEF IInv, TypeOK, Places,
     History, NoCollection, OpenFile, store, locals
<1>2. Places'
  BY Sentinels, <1>0, RecsAreAny, EmptyIsAny DEF IInv, TypeOK, Places,
     Workers, OpenFile, store, locals
<1>3. Apart'
  BY Sentinels, <1>0 DEF IInv, TypeOK, Places, Apart, Opened, OpenFile, store,
     locals
<1>4. Own'
  BY Sentinels, <1>0, EmptyIsRecs DEF IInv, TypeOK, Places, Apart, Own,
     Opened, NoCollection, OpenFile, store, locals
<1>5. Opened'
  BY Sentinels, <1>0 DEF IInv, TypeOK, Places, Opened, OpenFile, store, locals
<1>6. ReadIsFile'
  BY Sentinels, <1>0 DEF IInv, TypeOK, Places, Opened, ReadIsFile, Saved,
     OpenFile, store, locals
<1>7. OneArc'
  BY Sentinels, <1>0 DEF IInv, TypeOK, Places, OneArc, Opened, Alone,
     InFlight, OpenFile, store, locals
<1>8. OneUpsert'
  BY Sentinels, <1>0 DEF IInv, TypeOK, Places, OneUpsert, Holds, WriteLocked,
     OpenFile, store, locals
<1>9. Alone'
  BY Sentinels, <1>0, RecsAreAny DEF IInv, TypeOK, Places, Alone, InFlight,
     OpenFile, store, locals
<1>10. Progress'
  BY Sentinels, <1>0 DEF IInv, TypeOK, Places, Apart, Opened, OneArc, Alone,
     InFlight, Progress, Reached, OpenFile, store, locals
<1>11. LastWrite'
  BY Sentinels, <1>0 DEF IInv, TypeOK, Places, OneArc, OneUpsert, Holds,
     LastWrite, InFlight, OpenFile, store, locals
<1>12. Kept'
  BY Sentinels, <1>0, RecsAreAny, EmptyIsAny DEF IInv, TypeOK, Places, Apart,
     Opened, Alone, ReadIsFile, OneArc, Progress, Reached, LastWrite, Kept,
     Served, Saved, InFlight, OpenFile, store, locals
<1>13. Coherent'
  BY Sentinels, <1>0 DEF IInv, TypeOK, Places, Apart, Opened, Alone,
     ReadIsFile, OneArc, LastWrite, Kept, Coherent, Served, Saved, InFlight,
     OpenFile, store, locals
<1>. QED
  BY <1>1, <1>2, <1>3, <1>4, <1>5, <1>6, <1>7, <1>8, <1>9, <1>10, <1>11,
     <1>12, <1>13 DEF IInv

LEMMA OpenFileFailsStep ==
  ASSUME IInv, NEW w \in Workers, OpenFileFails(w)
  PROVE  IInv'
<1>r. at[w] # "idle"
  BY DEF OpenFileFails
<1>0. /\ name[w] \in Names
      /\ w \in Loaders => batch[w] \in Recs(name[w])
      /\ arc[w] # NoArc => arc[w] \in Arcs /\ registry[name[w]] \in Arcs
      /\ arc[w] # NoArc => heap[arc[w]] \in Recs(name[w])
  BY <1>r, Running
<1>h. /\ heap' \in [Arcs -> AnyRecs]
      /\ \A n \in Names : registry[n] # NoArc =>
           heap'[registry[n]] = heap[registry[n]]
      /\ \A v \in Workers : arc'[v] # NoArc => heap'[arc[v]] = heap[arc[v]]
  <2>1. registry' = registry /\ HeapBecomes(heap)
    BY DEF OpenFileFails
  <2>2. \A v \in Workers : arc'[v] \in {arc[v], NoArc}
    BY DEF IInv, TypeOK, OpenFileFails, Fail, Return
  <2>. QED
    BY <2>1, <2>2, HeapStays
<1>1. TypeOK'
  BY Sentinels, <1>0, <1>h, RecsAreAny, EmptyIsAny DEF IInv, TypeOK, Places,
     History, NoCollection, OpenFileFails, Fail, Return, store, locals
<1>2. Places'
  BY Sentinels, <1>0, <1>h, RecsAreAny, EmptyIsAny DEF IInv, TypeOK, Places,
     Workers, OpenFileFails, Fail, Return, store, locals
<1>3. Apart'
  BY Sentinels, <1>0, <1>h DEF IInv, TypeOK, Places, Apart, Opened,
     OpenFileFails, Fail, Return, store, locals
<1>4. Own'
  BY Sentinels, <1>0, <1>h, EmptyIsRecs DEF IInv, TypeOK, Places, Apart, Own,
     Opened, NoCollection, OpenFileFails, Fail, Return, store, locals
<1>5. Opened'
  BY Sentinels, <1>0, <1>h DEF IInv, TypeOK, Places, Opened, OpenFileFails,
     Fail, Return, store, locals
<1>6. ReadIsFile'
  BY Sentinels, <1>0, <1>h DEF IInv, TypeOK, Places, Opened, ReadIsFile,
     Saved, OpenFileFails, Fail, Return, store, locals
<1>7. OneArc'
  BY Sentinels, <1>0, <1>h DEF IInv, TypeOK, Places, OneArc, Opened, Alone,
     InFlight, OpenFileFails, Fail, Return, store, locals
<1>8. OneUpsert'
  BY Sentinels, <1>0, <1>h DEF IInv, TypeOK, Places, OneUpsert, Holds,
     WriteLocked, OpenFileFails, Fail, Return, store, locals
<1>9. Alone'
  BY Sentinels, <1>0, <1>h, RecsAreAny DEF IInv, TypeOK, Places, Alone,
     InFlight, OpenFileFails, Fail, Return, store, locals
<1>10. Progress'
  <2>. SUFFICES ASSUME NEW v \in Loaders, at'[v] # "idle",
                       promise'[name'[v]] = Loading
                PROVE  Reached(v)'
    BY DEF Progress
  <2>1. v \in Workers /\ v # w
    BY DEF Workers, IInv, TypeOK, OpenFileFails, Fail, Return
  <2>2. UNCHANGED <<at[v], call[v], name[v], batch[v], arc[v], registry>>
    BY <2>1 DEF IInv, TypeOK, OpenFileFails, Fail, Return, store, locals
  <2>3. name[v] \in Names /\ promise[name[v]] = Loading
    BY <2>1, <2>2, Running, Sentinels DEF IInv, TypeOK, OpenFileFails, Fail, Return
  <2>4. Reached(v)
    BY <2>2, <2>3 DEF IInv, Progress
  <2>5. UNCHANGED disk[name[v]]
    BY <2>1, <2>2, <2>3, <1>0, Sentinels DEF IInv, TypeOK, Places, Alone, InFlight, Workers, OpenFileFails, Fail, Return, store
  <2>6. (call[v] = "upsert" \/ at[v] \in {"open", "write"}) => registry[name[v]] # NoArc
    BY <2>1, <2>2 DEF IInv, Opened, Places
  <2>7. registry[name[v]] # NoArc => UNCHANGED heap[registry[name[v]]]
    BY <2>1, <2>2, <2>3, <1>h
  <2>. QED
    BY <2>2, <2>4, <2>5, <2>6, <2>7 DEF Reached
<1>11. LastWrite'
  BY Sentinels, <1>0, <1>h DEF IInv, TypeOK, Places, OneArc, OneUpsert, Holds,
     LastWrite, InFlight, OpenFileFails, Fail, Return, store, locals
<1>12. Kept'
  BY Sentinels, <1>0, <1>h, RecsAreAny, EmptyIsAny DEF IInv, TypeOK, Places,
     Apart, Opened, Alone, ReadIsFile, OneArc, Progress, Reached, LastWrite,
     Kept, Served, Saved, InFlight, OpenFileFails, Fail, Return, store, locals
<1>13. Coherent'
  BY Sentinels, <1>0, <1>h DEF IInv, TypeOK, Places, Apart, Opened, Alone,
     ReadIsFile, OneArc, LastWrite, Kept, Coherent, Served, Saved, InFlight,
     OpenFileFails, Fail, Return, store, locals
<1>. QED
  BY <1>1, <1>2, <1>3, <1>4, <1>5, <1>6, <1>7, <1>8, <1>9, <1>10, <1>11,
     <1>12, <1>13 DEF IInv

LEMMA WriteResetStep ==
  ASSUME IInv, NEW w \in Workers, WriteReset(w)
  PROVE  IInv'
<1>r. at[w] # "idle"
  BY DEF WriteReset
<1>0. /\ name[w] \in Names
      /\ w \in Loaders => batch[w] \in Recs(name[w])
      /\ arc[w] # NoArc => arc[w] \in Arcs /\ registry[name[w]] \in Arcs
      /\ arc[w] # NoArc => heap[arc[w]] \in Recs(name[w])
  BY <1>r, Running
<1>h. /\ heap' \in [Arcs -> AnyRecs]
      /\ \A n \in Names : registry[n] # NoArc =>
           heap'[registry[n]] = heap[registry[n]]
      /\ \A v \in Workers : arc'[v] # NoArc => heap'[arc[v]] = heap[arc[v]]
  <2>1. registry' = registry /\ HeapBecomes(heap)
    BY DEF WriteReset
  <2>2. \A v \in Workers : arc'[v] \in {arc[v], NoArc}
    BY DEF IInv, TypeOK, WriteReset
  <2>. QED
    BY <2>1, <2>2, HeapStays
<1>w. w \in Loaders /\ arc[w] # NoArc
  BY <1>0 DEF IInv, Places, WriteReset
<1>1. TypeOK'
  BY Sentinels, <1>0, <1>h, <1>w, RecsAreAny, EmptyIsAny, OverwriteCases DEF
     IInv, TypeOK, Places, History, NoCollection, WriteReset, Text, store,
     locals
<1>2. Places'
  BY Sentinels, <1>0, <1>h, <1>w, RecsAreAny, EmptyIsAny DEF IInv, TypeOK,
     Places, Workers, WriteReset, Text, store, locals
<1>3. Apart'
  BY Sentinels, <1>0, <1>h, <1>w DEF IInv, TypeOK, Places, Apart, Opened,
     WriteReset, Text, store, locals
<1>4. Own'
  BY Sentinels, <1>0, <1>h, <1>w, EmptyIsRecs, OverwriteCases DEF IInv,
     TypeOK, Places, Apart, Own, Opened, NoCollection, WriteReset, Text,
     store, locals
<1>5. Opened'
  BY Sentinels, <1>0, <1>h, <1>w DEF IInv, TypeOK, Places, Opened, WriteReset,
     Text, store, locals
<1>6. ReadIsFile'
  BY Sentinels, <1>0, <1>h, <1>w DEF IInv, TypeOK, Places, Opened, ReadIsFile,
     Saved, WriteReset, Text, store, locals
<1>7. OneArc'
  BY Sentinels, <1>0, <1>h, <1>w DEF IInv, TypeOK, Places, OneArc, Opened,
     Alone, InFlight, WriteReset, Text, store, locals
<1>8. OneUpsert'
  BY Sentinels, <1>0, <1>h, <1>w DEF IInv, TypeOK, Places, OneUpsert, Holds,
     WriteLocked, WriteReset, Text, store, locals
<1>9. Alone'
  BY Sentinels, <1>0, <1>h, <1>w, RecsAreAny DEF IInv, TypeOK, Places, Alone,
     InFlight, WriteReset, Text, store, locals
<1>10. Progress'
  <2>. SUFFICES ASSUME NEW v \in Loaders, at'[v] # "idle",
                       promise'[name'[v]] = Loading
                PROVE  Reached(v)'
    BY DEF Progress
  <2>1. CASE v = w
    BY <2>1, <1>0, <1>h, <1>w, Sentinels DEF IInv, TypeOK, Places, OneArc, WriteReset, Progress, Reached, store, locals
  <2>2. CASE v # w
    <3>1. v \in Workers
      BY DEF Workers
    <3>2. UNCHANGED <<at[v], call[v], name[v], batch[v], arc[v], registry, promise>>
      BY <2>2, <3>1 DEF IInv, TypeOK, WriteReset, store, locals
    <3>3. name[v] \in Names /\ promise[name[v]] = Loading /\ name[v] # name[w]
      BY <2>2, <3>1, <3>2, <1>0, <1>r, <1>h, <1>w, Running DEF IInv, TypeOK, Alone, InFlight
    <3>4. Reached(v)
      BY <3>2, <3>3 DEF IInv, Progress
    <3>5. UNCHANGED disk[name[v]]
      BY <3>2, <3>3, <1>0 DEF IInv, TypeOK, WriteReset, store
    <3>6. (call[v] = "upsert" \/ at[v] \in {"open", "write"}) => registry[name[v]] # NoArc
      BY <3>1, <3>2 DEF IInv, Opened, Places
    <3>7. registry[name[v]] # NoArc => UNCHANGED heap[registry[name[v]]]
      BY <3>2, <3>3, <1>0, <1>h, <1>w DEF IInv, TypeOK, Apart, WriteReset, store
    <3>. QED
      BY <3>2, <3>4, <3>5, <3>6, <3>7 DEF Reached
  <2>. QED
    BY <2>1, <2>2
<1>11. LastWrite'
  BY Sentinels, <1>0, <1>h, <1>w DEF IInv, TypeOK, Places, OneArc, OneUpsert,
     Holds, LastWrite, InFlight, WriteReset, Text, store, locals
<1>12. Kept'
  BY Sentinels, <1>0, <1>h, <1>w, RecsAreAny, EmptyIsAny DEF IInv, TypeOK,
     Places, Apart, Opened, Alone, ReadIsFile, OneArc, Progress, Reached,
     LastWrite, Kept, Served, Saved, InFlight, WriteReset, Text, store, locals
<1>13. Coherent'
  BY Sentinels, <1>0, <1>h, <1>w DEF IInv, TypeOK, Places, Apart, Opened,
     Alone, ReadIsFile, OneArc, LastWrite, Kept, Coherent, Served, Saved,
     InFlight, WriteReset, Text, store, locals
<1>. QED
  BY <1>1, <1>2, <1>3, <1>4, <1>5, <1>6, <1>7, <1>8, <1>9, <1>10, <1>11,
     <1>12, <1>13 DEF IInv

LEMMA WriteUpsertStep ==
  ASSUME IInv, NEW w \in Workers, WriteUpsert(w)
  PROVE  IInv'
<1>r. at[w] # "idle"
  BY DEF WriteUpsert
<1>0. /\ name[w] \in Names
      /\ w \in Loaders => batch[w] \in Recs(name[w])
      /\ arc[w] # NoArc => arc[w] \in Arcs /\ registry[name[w]] \in Arcs
      /\ arc[w] # NoArc => heap[arc[w]] \in Recs(name[w])
  BY <1>r, Running
<1>h. /\ heap' \in [Arcs -> AnyRecs]
      /\ \A n \in Names : registry[n] # NoArc =>
           heap'[registry[n]] = heap[registry[n]]
      /\ \A v \in Workers : arc'[v] # NoArc => heap'[arc[v]] = heap[arc[v]]
  <2>1. registry' = registry /\ HeapBecomes(heap)
    BY DEF WriteUpsert
  <2>2. \A v \in Workers : arc'[v] \in {arc[v], NoArc}
    BY DEF IInv, TypeOK, WriteUpsert, Return
  <2>. QED
    BY <2>1, <2>2, HeapStays
<1>1. TypeOK'
  BY Sentinels, <1>0, <1>h, RecsAreAny, EmptyIsAny, OverwriteCases DEF IInv,
     TypeOK, Places, History, NoCollection, WriteUpsert, Text, Return, store,
     locals
<1>2. Places'
  BY Sentinels, <1>0, <1>h, RecsAreAny, EmptyIsAny DEF IInv, TypeOK, Places,
     Workers, WriteUpsert, Text, Return, store, locals
<1>3. Apart'
  BY Sentinels, <1>0, <1>h DEF IInv, TypeOK, Places, Apart, Opened,
     WriteUpsert, Text, Return, store, locals
<1>4. Own'
  BY Sentinels, <1>0, <1>h, EmptyIsRecs, OverwriteCases DEF IInv, TypeOK,
     Places, Apart, Own, Opened, NoCollection, WriteUpsert, Text, Return,
     store, locals
<1>5. Opened'
  BY Sentinels, <1>0, <1>h DEF IInv, TypeOK, Places, Opened, WriteUpsert,
     Text, Return, store, locals
<1>6. ReadIsFile'
  BY Sentinels, <1>0, <1>h DEF IInv, TypeOK, Places, Opened, ReadIsFile,
     Saved, WriteUpsert, Text, Return, store, locals
<1>7. OneArc'
  BY Sentinels, <1>0, <1>h DEF IInv, TypeOK, Places, OneArc, Opened, Alone,
     InFlight, WriteUpsert, Text, Return, store, locals
<1>8. OneUpsert'
  BY Sentinels, <1>0, <1>h DEF IInv, TypeOK, Places, OneUpsert, Holds,
     WriteLocked, WriteUpsert, Text, Return, store, locals
<1>9. Alone'
  BY Sentinels, <1>0, <1>h, RecsAreAny DEF IInv, TypeOK, Places, Alone,
     InFlight, WriteUpsert, Text, Return, store, locals
<1>10. Progress'
  <2>. SUFFICES ASSUME NEW v \in Loaders, at'[v] # "idle",
                       promise'[name'[v]] = Loading
                PROVE  Reached(v)'
    BY DEF Progress
  <2>1. v \in Workers /\ v # w
    BY DEF Workers, IInv, TypeOK, WriteUpsert, Return
  <2>2. UNCHANGED <<at[v], call[v], name[v], batch[v], arc[v], registry>>
    BY <2>1 DEF IInv, TypeOK, WriteUpsert, Return, store, locals
  <2>3. name[v] \in Names /\ promise[name[v]] = Loading
    BY <2>1, <2>2, Running, Sentinels DEF IInv, TypeOK, WriteUpsert, Return
  <2>4. Reached(v)
    BY <2>2, <2>3 DEF IInv, Progress
  <2>5. UNCHANGED disk[name[v]]
    BY <2>1, <2>2, <2>3, <1>0, Sentinels DEF IInv, TypeOK, Places, Alone, InFlight, Workers, WriteUpsert, Return, store
  <2>6. (call[v] = "upsert" \/ at[v] \in {"open", "write"}) => registry[name[v]] # NoArc
    BY <2>1, <2>2 DEF IInv, Opened, Places
  <2>7. registry[name[v]] # NoArc => UNCHANGED heap[registry[name[v]]]
    BY <2>1, <2>2, <2>3, <1>h
  <2>. QED
    BY <2>2, <2>4, <2>5, <2>6, <2>7 DEF Reached
<1>11. LastWrite'
  <2>. SUFFICES ASSUME NEW v \in Loaders, call'[v] = "upsert", at'[v] = "write",
                       promise'[name'[v]] # Suspect,
                       (InFlight(name[v]) = {v})'
                PROVE  disk'[name'[v]] = Blank
    BY DEF LastWrite
  <2>1. v \in Workers /\ v # w
    BY DEF Workers, IInv, TypeOK, WriteUpsert, Return
  <2>2. UNCHANGED <<at[v], call[v], name[v], arc[v]>>
    BY <2>1 DEF IInv, TypeOK, WriteUpsert, Return
  <2>3. at[v] # "idle" /\ name[v] \in Names /\ arc[v] # NoArc
    BY <2>1, <2>2, Running DEF IInv, Places
  <2>4. w \in Loaders /\ arc[w] # NoArc
    BY <1>0 DEF IInv, Places, WriteUpsert
  <2>5. name[v] # name[w]
    <3>. SUFFICES ASSUME name[v] = name[w]
                  PROVE  FALSE
      OBVIOUS
    <3>1. promise[name[v]] # Suspect
      BY <2>2, <2>3, <2>4, <1>0, RecsAreAny, Sentinels DEF IInv, TypeOK, WriteUpsert
    <3>2. arc[v] = arc[w]
      BY <2>3, <2>4, <3>1 DEF IInv, OneArc
    <3>. QED
      BY <2>1, <2>2, <3>2 DEF IInv, OneUpsert, Holds, WriteUpsert
  <2>6. UNCHANGED disk[name[v]] /\ UNCHANGED promise[name[v]]
    BY <2>2, <2>3, <2>5, <1>0 DEF IInv, TypeOK, WriteUpsert
  <2>7. InFlight(name[v]) = {v}
    BY <2>1, <2>2, <2>3, <2>5, <1>0, Sentinels DEF IInv, TypeOK, InFlight, WriteUpsert, Return, Workers
  <2>. QED
    BY <2>2, <2>6, <2>7 DEF IInv, LastWrite
<1>12. Kept'
  BY Sentinels, <1>0, <1>h, RecsAreAny, EmptyIsAny, OverwriteCases DEF IInv,
     TypeOK, Places, Apart, Opened, Alone, ReadIsFile, OneArc, Progress,
     Reached, LastWrite, Kept, Served, Saved, InFlight, WriteUpsert, Text,
     Return, store, locals
<1>13. Coherent'
  BY Sentinels, <1>0, <1>h, OverwriteCases DEF IInv, TypeOK, Places, Apart,
     Opened, Alone, ReadIsFile, OneArc, LastWrite, Kept, Coherent, Served,
     Saved, InFlight, WriteUpsert, Text, Return, store, locals
<1>. QED
  BY <1>1, <1>2, <1>3, <1>4, <1>5, <1>6, <1>7, <1>8, <1>9, <1>10, <1>11,
     <1>12, <1>13 DEF IInv

LEMMA WriteFileFailsStep ==
  ASSUME IInv, NEW w \in Workers, WriteFileFails(w)
  PROVE  IInv'
<1>r. at[w] # "idle"
  BY DEF WriteFileFails
<1>0. /\ name[w] \in Names
      /\ w \in Loaders => batch[w] \in Recs(name[w])
      /\ arc[w] # NoArc => arc[w] \in Arcs /\ registry[name[w]] \in Arcs
      /\ arc[w] # NoArc => heap[arc[w]] \in Recs(name[w])
  BY <1>r, Running
<1>h. /\ heap' \in [Arcs -> AnyRecs]
      /\ \A n \in Names : registry[n] # NoArc =>
           heap'[registry[n]] = heap[registry[n]]
      /\ \A v \in Workers : arc'[v] # NoArc => heap'[arc[v]] = heap[arc[v]]
  <2>1. registry' = registry /\ HeapBecomes(heap)
    BY DEF WriteFileFails
  <2>2. \A v \in Workers : arc'[v] \in {arc[v], NoArc}
    BY DEF IInv, TypeOK, WriteFileFails, Fail, Return
  <2>. QED
    BY <2>1, <2>2, HeapStays
<1>1. TypeOK'
  BY Sentinels, <1>0, <1>h, RecsAreAny, EmptyIsAny DEF IInv, TypeOK, Places,
     History, NoCollection, WriteFileFails, Fail, Return, store, locals
<1>2. Places'
  BY Sentinels, <1>0, <1>h, RecsAreAny, EmptyIsAny DEF IInv, TypeOK, Places,
     Workers, WriteFileFails, Fail, Return, store, locals
<1>3. Apart'
  BY Sentinels, <1>0, <1>h DEF IInv, TypeOK, Places, Apart, Opened,
     WriteFileFails, Fail, Return, store, locals
<1>4. Own'
  BY Sentinels, <1>0, <1>h, EmptyIsRecs DEF IInv, TypeOK, Places, Apart, Own,
     Opened, NoCollection, WriteFileFails, Fail, Return, store, locals
<1>5. Opened'
  BY Sentinels, <1>0, <1>h DEF IInv, TypeOK, Places, Opened, WriteFileFails,
     Fail, Return, store, locals
<1>6. ReadIsFile'
  BY Sentinels, <1>0, <1>h DEF IInv, TypeOK, Places, Opened, ReadIsFile,
     Saved, WriteFileFails, Fail, Return, store, locals
<1>7. OneArc'
  BY Sentinels, <1>0, <1>h DEF IInv, TypeOK, Places, OneArc, Opened, Alone,
     InFlight, WriteFileFails, Fail, Return, store, locals
<1>8. OneUpsert'
  BY Sentinels, <1>0, <1>h DEF IInv, TypeOK, Places, OneUpsert, Holds,
     WriteLocked, WriteFileFails, Fail, Return, store, locals
<1>9. Alone'
  BY Sentinels, <1>0, <1>h, RecsAreAny DEF IInv, TypeOK, Places, Alone,
     InFlight, WriteFileFails, Fail, Return, store, locals
<1>10. Progress'
  <2>. SUFFICES ASSUME NEW v \in Loaders, at'[v] # "idle",
                       promise'[name'[v]] = Loading
                PROVE  Reached(v)'
    BY DEF Progress
  <2>1. v \in Workers /\ v # w
    BY DEF Workers, IInv, TypeOK, WriteFileFails, Fail, Return
  <2>2. UNCHANGED <<at[v], call[v], name[v], batch[v], arc[v], registry>>
    BY <2>1 DEF IInv, TypeOK, WriteFileFails, Fail, Return, store, locals
  <2>3. name[v] \in Names /\ promise[name[v]] = Loading
    BY <2>1, <2>2, Running, Sentinels DEF IInv, TypeOK, WriteFileFails, Fail, Return
  <2>4. Reached(v)
    BY <2>2, <2>3 DEF IInv, Progress
  <2>5. UNCHANGED disk[name[v]]
    BY <2>1, <2>2, <2>3, <1>0, Sentinels DEF IInv, TypeOK, Places, Alone, InFlight, Workers, WriteFileFails, Fail, Return, store
  <2>6. (call[v] = "upsert" \/ at[v] \in {"open", "write"}) => registry[name[v]] # NoArc
    BY <2>1, <2>2 DEF IInv, Opened, Places
  <2>7. registry[name[v]] # NoArc => UNCHANGED heap[registry[name[v]]]
    BY <2>1, <2>2, <2>3, <1>h
  <2>. QED
    BY <2>2, <2>4, <2>5, <2>6, <2>7 DEF Reached
<1>11. LastWrite'
  BY Sentinels, <1>0, <1>h DEF IInv, TypeOK, Places, OneArc, OneUpsert, Holds,
     LastWrite, InFlight, WriteFileFails, Fail, Return, store, locals
<1>12. Kept'
  BY Sentinels, <1>0, <1>h, RecsAreAny, EmptyIsAny DEF IInv, TypeOK, Places,
     Apart, Opened, Alone, ReadIsFile, OneArc, Progress, Reached, LastWrite,
     Kept, Served, Saved, InFlight, WriteFileFails, Fail, Return, store,
     locals
<1>13. Coherent'
  BY Sentinels, <1>0, <1>h DEF IInv, TypeOK, Places, Apart, Opened, Alone,
     ReadIsFile, OneArc, LastWrite, Kept, Coherent, Served, Saved, InFlight,
     WriteFileFails, Fail, Return, store, locals
<1>. QED
  BY <1>1, <1>2, <1>3, <1>4, <1>5, <1>6, <1>7, <1>8, <1>9, <1>10, <1>11,
     <1>12, <1>13 DEF IInv

LEMMA StartLoadStep ==
  ASSUME IInv,
         NEW w \in Loaders, NEW n \in Names, NEW b \in Batches(n),
         StartLoad(w, n, b)
  PROVE  IInv'
<1>1. TypeOK'
  BY Sentinels, RecsAreAny, EmptyIsAny, BatchIsRecs DEF IInv, TypeOK, Places,
     History, NoCollection, StartLoad, Workers, store, locals
<1>2. Places'
  BY Sentinels, RecsAreAny, EmptyIsAny, BatchIsRecs DEF IInv, TypeOK, Places,
     Workers, StartLoad, store, locals
<1>3. Apart'
  BY Sentinels, BatchIsRecs DEF IInv, TypeOK, Places, Apart, Opened,
     StartLoad, Workers, store, locals
<1>4. Own'
  BY Sentinels, EmptyIsRecs, BatchIsRecs DEF IInv, TypeOK, Places, Apart, Own,
     Opened, NoCollection, StartLoad, Workers, store, locals
<1>5. Opened'
  BY Sentinels, BatchIsRecs DEF IInv, TypeOK, Places, Opened, StartLoad,
     Workers, store, locals
<1>6. ReadIsFile'
  BY Sentinels, BatchIsRecs DEF IInv, TypeOK, Places, Opened, ReadIsFile,
     Saved, StartLoad, Workers, store, locals
<1>7. OneArc'
  BY Sentinels, BatchIsRecs DEF IInv, TypeOK, Places, OneArc, Opened, Alone,
     InFlight, StartLoad, Workers, store, locals
<1>8. OneUpsert'
  BY Sentinels, BatchIsRecs DEF IInv, TypeOK, Places, OneUpsert, Holds,
     WriteLocked, StartLoad, Workers, store, locals
<1>9. Alone'
  BY Sentinels, RecsAreAny, BatchIsRecs DEF IInv, TypeOK, Places, Alone,
     InFlight, StartLoad, Workers, store, locals
<1>10. Progress'
  BY Sentinels, BatchIsRecs DEF IInv, TypeOK, Places, Apart, Opened, OneArc,
     Alone, InFlight, Progress, Reached, StartLoad, Workers, store, locals
<1>11. LastWrite'
  BY Sentinels, BatchIsRecs DEF IInv, TypeOK, Places, OneArc, OneUpsert,
     Holds, LastWrite, InFlight, StartLoad, Workers, store, locals
<1>12. Kept'
  BY Sentinels, RecsAreAny, EmptyIsAny, BatchIsRecs DEF IInv, TypeOK, Places,
     Apart, Opened, Alone, ReadIsFile, OneArc, Progress, Reached, LastWrite,
     Kept, Served, Saved, InFlight, StartLoad, Workers, store, locals
<1>13. Coherent'
  BY Sentinels, BatchIsRecs DEF IInv, TypeOK, Places, Apart, Opened, Alone,
     ReadIsFile, OneArc, LastWrite, Kept, Coherent, Served, Saved, InFlight,
     StartLoad, Workers, store, locals
<1>. QED
  BY <1>1, <1>2, <1>3, <1>4, <1>5, <1>6, <1>7, <1>8, <1>9, <1>10, <1>11,
     <1>12, <1>13 DEF IInv

LEMMA StartReadStep ==
  ASSUME IInv, NEW w \in Readers, NEW n \in Names, StartRead(w, n)
  PROVE  IInv'
<1>1. TypeOK'
  BY Sentinels, RecsAreAny, EmptyIsAny DEF IInv, TypeOK, Places, History,
     NoCollection, StartRead, Workers, store, locals
<1>2. Places'
  BY Sentinels, RecsAreAny, EmptyIsAny DEF IInv, TypeOK, Places, Workers,
     StartRead, store, locals
<1>3. Apart'
  BY Sentinels DEF IInv, TypeOK, Places, Apart, Opened, StartRead, Workers,
     store, locals
<1>4. Own'
  BY Sentinels, EmptyIsRecs DEF IInv, TypeOK, Places, Apart, Own, Opened,
     NoCollection, StartRead, Workers, store, locals
<1>5. Opened'
  BY Sentinels DEF IInv, TypeOK, Places, Opened, StartRead, Workers, store,
     locals
<1>6. ReadIsFile'
  BY Sentinels DEF IInv, TypeOK, Places, Opened, ReadIsFile, Saved, StartRead,
     Workers, store, locals
<1>7. OneArc'
  BY Sentinels DEF IInv, TypeOK, Places, OneArc, Opened, Alone, InFlight,
     StartRead, Workers, store, locals
<1>8. OneUpsert'
  BY Sentinels DEF IInv, TypeOK, Places, OneUpsert, Holds, WriteLocked,
     StartRead, Workers, store, locals
<1>9. Alone'
  BY Sentinels, RecsAreAny DEF IInv, TypeOK, Places, Alone, InFlight,
     StartRead, Workers, store, locals
<1>10. Progress'
  BY Sentinels DEF IInv, TypeOK, Places, Apart, Opened, OneArc, Alone,
     InFlight, Progress, Reached, StartRead, Workers, store, locals
<1>11. LastWrite'
  BY Sentinels DEF IInv, TypeOK, Places, OneArc, OneUpsert, Holds, LastWrite,
     InFlight, StartRead, Workers, store, locals
<1>12. Kept'
  BY Sentinels, RecsAreAny, EmptyIsAny DEF IInv, TypeOK, Places, Apart,
     Opened, Alone, ReadIsFile, OneArc, Progress, Reached, LastWrite, Kept,
     Served, Saved, InFlight, StartRead, Workers, store, locals
<1>13. Coherent'
  BY Sentinels DEF IInv, TypeOK, Places, Apart, Opened, Alone, ReadIsFile,
     OneArc, LastWrite, Kept, Coherent, Served, Saved, InFlight, StartRead,
     Workers, store, locals
<1>. QED
  BY <1>1, <1>2, <1>3, <1>4, <1>5, <1>6, <1>7, <1>8, <1>9, <1>10, <1>11,
     <1>12, <1>13 DEF IInv

LEMMA CrashStep ==
  ASSUME IInv, Crash
  PROVE  IInv'
<1>1. TypeOK'
  BY Sentinels, RecsAreAny, EmptyIsAny DEF IInv, TypeOK, Places, History,
     NoCollection, Crash, Workers, store, locals
<1>2. Places'
  BY Sentinels, RecsAreAny, EmptyIsAny DEF IInv, TypeOK, Places, Workers,
     Crash, store, locals
<1>3. Apart'
  BY Sentinels DEF IInv, TypeOK, Places, Apart, Opened, Crash, Workers, store,
     locals
<1>4. Own'
  BY Sentinels, EmptyIsRecs DEF IInv, TypeOK, Places, Apart, Own, Opened,
     NoCollection, Crash, Workers, store, locals
<1>5. Opened'
  BY Sentinels DEF IInv, TypeOK, Places, Opened, Crash, Workers, store, locals
<1>6. ReadIsFile'
  BY Sentinels DEF IInv, TypeOK, Places, Opened, ReadIsFile, Saved, Crash,
     Workers, store, locals
<1>7. OneArc'
  BY Sentinels DEF IInv, TypeOK, Places, OneArc, Opened, Alone, InFlight,
     Crash, Workers, store, locals
<1>8. OneUpsert'
  BY Sentinels DEF IInv, TypeOK, Places, OneUpsert, Holds, WriteLocked, Crash,
     Workers, store, locals
<1>9. Alone'
  BY Sentinels, RecsAreAny DEF IInv, TypeOK, Places, Alone, InFlight, Crash,
     Workers, store, locals
<1>10. Progress'
  BY Sentinels DEF IInv, TypeOK, Places, Apart, Opened, OneArc, Alone,
     InFlight, Progress, Reached, Crash, Workers, store, locals
<1>11. LastWrite'
  BY Sentinels DEF IInv, TypeOK, Places, OneArc, OneUpsert, Holds, LastWrite,
     InFlight, Crash, Workers, store, locals
<1>12. Kept'
  BY Sentinels, RecsAreAny, EmptyIsAny DEF IInv, TypeOK, Places, Apart,
     Opened, Alone, ReadIsFile, OneArc, Progress, Reached, LastWrite, Kept,
     Served, Saved, InFlight, Crash, Workers, store, locals
<1>13. Coherent'
  BY Sentinels DEF IInv, TypeOK, Places, Apart, Opened, Alone, ReadIsFile,
     OneArc, LastWrite, Kept, Coherent, Served, Saved, InFlight, Crash,
     Workers, store, locals
<1>. QED
  BY <1>1, <1>2, <1>3, <1>4, <1>5, <1>6, <1>7, <1>8, <1>9, <1>10, <1>11,
     <1>12, <1>13 DEF IInv

LEMMA InitHolds == Init => IInv
<1>. SUFFICES ASSUME Init
              PROVE  IInv
  OBVIOUS
<1>1. TypeOK
  BY EmptyIsAny DEF Init, TypeOK, NoCollection
<1>2. Places /\ Apart /\ Own /\ Opened /\ ReadIsFile /\ OneArc /\ OneUpsert
  BY Sentinels DEF Init, Places, Apart, Own, Opened, ReadIsFile, OneArc,
     OneUpsert, Holds, NoCollection, Workers
<1>3. Alone /\ Progress /\ LastWrite
  BY Sentinels, EmptyIsAny DEF Init, Alone, InFlight, Progress, LastWrite, Workers
<1>4. Kept /\ Coherent
  BY Sentinels, EmptyIsAny DEF Init, Kept, Coherent, Served, Saved
<1>. QED
  BY <1>1, <1>2, <1>3, <1>4 DEF IInv

LEMMA StutterStep == IInv /\ UNCHANGED vars => IInv'
BY DEF vars, IInv, TypeOK, Places, Apart, Own, Opened, ReadIsFile, OneArc,
   OneUpsert, Holds, Alone, InFlight, Progress, Reached, LastWrite, Kept,
   Coherent, Served, Saved

LEMMA NextKeeps == IInv /\ [Next]_vars => IInv'
<1>. SUFFICES ASSUME IInv, [Next]_vars
              PROVE  IInv'
  OBVIOUS
<1>1. CASE \E w \in Loaders, n \in Names : \E b \in Batches(n) : StartLoad(w, n, b)
  BY <1>1, StartLoadStep
<1>2. CASE \E w \in Readers, n \in Names : StartRead(w, n)
  BY <1>2, StartReadStep
<1>3. CASE \E w \in Workers : Step(w)
  BY <1>3, HitStep, MissStep, ReadFileStep, ReadFileFailsStep, InsertStep,
     ClearStep, MergeStep, TakeReadStep, ScanStep, OpenFileStep,
     OpenFileFailsStep, WriteResetStep, WriteUpsertStep, WriteFileFailsStep DEF Step
<1>4. CASE Crash
  BY <1>4, CrashStep
<1>5. CASE UNCHANGED vars
  BY <1>5, StutterStep
<1>. QED
  BY <1>1, <1>2, <1>3, <1>4, <1>5 DEF Next

-----------------------------------------------------------------------------
(* The theorems.                                                           *)

\* The inductive invariant holds in every reachable state.
THEOREM Invariance == Spec => []IInv
BY InitHolds, NextKeeps, PTL DEF Spec

\* The state keeps its types, and overlapping loads never make a collection
\* longer than the longest source text.
THEOREM TypeCorrect == Spec => []TypeOK
<1>1. IInv => TypeOK
  BY DEF IInv
<1>. QED
  BY <1>1, Invariance, PTL

\* An undisturbed load, once answered, is what memory and file hold, through
\* reads, I/O errors and restarts.
THEOREM Durability == Spec => []Kept
<1>1. IInv => Kept
  BY DEF IInv
<1>. QED
  BY <1>1, Invariance, PTL

\* Overlapping loads leave memory and file equal.
THEOREM Coherence == Spec => []Coherent
<1>1. IInv => Coherent
  BY DEF IInv
<1>. QED
  BY <1>1, Invariance, PTL

\* A torn file stays torn, and its collection unusable, for as long as the
\* process lives and after every restart.
THEOREM Sticking == Spec => CorruptionSticks
<1>1. ASSUME IInv, [Next]_vars, NEW n \in Names, Stuck(n)
      PROVE  Stuck(n)'
  <2>1. CASE \E w \in Loaders, m \in Names : \E b \in Batches(m) : StartLoad(w, m, b)
    BY <1>1, <2>1 DEF IInv, TypeOK, Stuck, StartLoad, store
  <2>2. CASE \E w \in Readers, m \in Names : StartRead(w, m)
    BY <1>1, <2>2 DEF IInv, TypeOK, Stuck, StartRead, store
  <2>3. ASSUME NEW w \in Workers, Step(w)
        PROVE  Stuck(n)'
    <3>1. CASE name[w] = n
      <4>1. at[w] \in {"lookup", "load"}
        BY <1>1, <3>1 DEF Stuck
      <4>2. Saved(n) \in NoCollection
        BY <1>1, Sentinels DEF Stuck, Saved, NoCollection
      <4>3. Miss(w) \/ ReadFileFails(w)
        BY <1>1, <2>3, <3>1, <4>1, <4>2 DEF Step, Stuck, Hit, ReadFile, Insert,
           Clear, Merge, TakeRead, Scan, OpenFile, OpenFileFails, WriteReset, WriteUpsert,
           WriteFileFails
      <4>. QED
        BY <1>1, <3>1, <4>3, Sentinels DEF IInv, TypeOK, Stuck, Miss,
           ReadFileFails, Fail, Return, store, locals
    <3>2. CASE name[w] # n
      <4>1. disk'[n] = disk[n] /\ registry'[n] = registry[n]
        BY <1>1, <2>3, <3>2 DEF IInv, TypeOK, Step, Hit, Miss, ReadFile,
           ReadFileFails, Insert, Clear, Merge, TakeRead, Scan, OpenFile, OpenFileFails,
           WriteReset, WriteUpsert, WriteFileFails, store
      <4>2. \A v \in Workers : v # w => name'[v] = name[v] /\ at'[v] = at[v]
        BY <1>1, <2>3 DEF IInv, TypeOK, Step, Hit, Miss, ReadFile,
           ReadFileFails, Insert, Clear, Merge, TakeRead, Scan, OpenFile, OpenFileFails,
           WriteReset, WriteUpsert, WriteFileFails, Fail, Return, locals
      <4>3. name'[w] # n
        BY <1>1, <2>3, <3>2, Sentinels DEF IInv, TypeOK, Step, Hit, Miss,
           ReadFile, ReadFileFails, Insert, Clear, Merge, TakeRead, Scan, OpenFile,
           OpenFileFails, WriteReset, WriteUpsert, WriteFileFails, Fail, Return,
           locals
      <4>. QED
        BY <1>1, <4>1, <4>2, <4>3 DEF Stuck
    <3>. QED
      BY <3>1, <3>2
  <2>4. CASE Crash
    BY <1>1, <2>4, Sentinels DEF IInv, TypeOK, Stuck, Crash
  <2>5. CASE UNCHANGED vars
    BY <1>1, <2>5 DEF Stuck, vars
  <2>. QED
    BY <1>1, <2>1, <2>2, <2>3, <2>4, <2>5 DEF Next
<1>2. IInv /\ [Next]_vars => [\A n \in Names : Stuck(n) => Stuck(n)']_vars
  BY <1>1
<1>. QED
  BY <1>2, Invariance, PTL DEF Spec, CorruptionSticks

-----------------------------------------------------------------------------
(* VectorStore implements Collections, for all values of its constants.    *)
(* Kept makes the view of a collection a function of the promise alone, so *)
(* a step is visible only where it changes the promise or the loads in     *)
(* flight; the rest is by cases over the actions.                          *)

view == [n \in Names |-> View(n)]
opening == { name[w] : w \in { v \in Workers : at[v] = "insert" } }

\* The view, read off the promise.
LEMMA ViewNow ==
  ASSUME IInv, NEW n \in Names
  PROVE  /\ promise[n] \in AnyRecs => View(n) = Contract!Settled(promise[n])
         /\ \A w \in InFlight(n) : promise[n] = Loading =>
              View(n) = Contract!InProgress(batch[w])
         /\ promise[n] \in {Merged, Suspect} => View(n) = Contract!Unknown
BY Sentinels DEF IInv, Alone, Kept, View, Contract!Settled, Contract!InProgress,
   Contract!Unknown

LEMMA ViewNext ==
  ASSUME IInv', NEW n \in Names
  PROVE  /\ promise'[n] \in AnyRecs => View(n)' = Contract!Settled(promise'[n])
         /\ \A w \in InFlight(n)' : promise'[n] = Loading =>
              View(n)' = Contract!InProgress(batch'[w])
         /\ promise'[n] \in {Merged, Suspect} => View(n)' = Contract!Unknown
BY Sentinels DEF IInv, Alone, Kept, View, Contract!Settled, Contract!InProgress,
   Contract!Unknown

\* A collection whose promise and loads a step leaves alone looks the same.
LEMMA SameView ==
  ASSUME IInv, IInv', NEW n \in Names,
         promise'[n] = promise[n],
         \A w \in Loaders : /\ name'[w] = n <=> name[w] = n
                            /\ name[w] = n => batch'[w] = batch[w]
  PROVE  View(n)' = View(n)
<1>1. promise[n] \in AnyRecs \cup {Loading, Merged, Suspect}
  BY DEF IInv, TypeOK, History
<1>2. CASE promise[n] = Loading
  <2>1. PICK w \in InFlight(n) : TRUE
    BY <1>2 DEF IInv, Alone
  <2>2. w \in InFlight(n)' /\ batch'[w] = batch[w]
    BY <2>1 DEF InFlight
  <2>. QED
    BY <1>2, <2>1, <2>2, ViewNow, ViewNext
<1>3. CASE promise[n] # Loading
  BY <1>1, <1>3, ViewNow, ViewNext
<1>. QED
  BY <1>2, <1>3

\* A task that only a reader's end, or nothing, changes the loads is invisible.
LEMMA SilentStep ==
  ASSUME IInv, IInv', promise' = promise,
         \A w \in Loaders : name'[w] = name[w] /\ batch'[w] = batch[w],
         \A w \in Workers : at'[w] = "insert" <=> at[w] = "insert",
         \A w \in Workers : at[w] = "insert" => name'[w] = name[w]
  PROVE  UNCHANGED <<view, opening>>
<1>1. \A n \in Names : View(n)' = View(n)
  BY SameView
<1>2. opening' = opening
  BY DEF opening
<1>. QED
  BY <1>1, <1>2 DEF view

\* The end of a load that settles nothing.
LEMMA FailStep ==
  ASSUME IInv, IInv', NEW w \in Workers, NEW n \in Names,
         name[w] = n, Fail(w), at[w] # "idle", at[w] # "insert"
  PROVE  UNCHANGED <<view, opening>> \/ Contract!GiveUp(n)
<1>2. \A v \in Workers : v # w => /\ at'[v] = at[v] /\ name'[v] = name[v]
                                  /\ batch'[v] = batch[v]
  BY DEF IInv, TypeOK, Fail, Return
<1>3. at'[w] = "idle" /\ name'[w] = NoName
  BY DEF IInv, TypeOK, Fail, Return
<1>4. opening' = opening
  BY <1>2, <1>3 DEF opening
<1>5. CASE w \in Readers
  <2>1. \A v \in Loaders : v # w /\ v \in Workers
    BY <1>5, Sentinels DEF Workers
  <2>2. promise' = promise
    BY <1>5, Sentinels DEF Fail
  <2>. QED
    BY <1>2, <1>3, <2>1, <2>2, SilentStep
<1>6. CASE w \in Loaders
  <2>1. promise' = [promise EXCEPT ![n] = Suspect]
    BY <1>6 DEF Fail
  <2>2. \A m \in Names : m # n => View(m)' = View(m)
    <3>. SUFFICES ASSUME NEW m \in Names, m # n
                  PROVE  View(m)' = View(m)
      OBVIOUS
    <3>1. promise'[m] = promise[m]
      BY <2>1 DEF IInv, TypeOK
    <3>2. \A v \in Loaders : /\ name'[v] = m <=> name[v] = m
                             /\ name[v] = m => batch'[v] = batch[v]
      BY <1>2, <1>3, Sentinels DEF Workers
    <3>. QED
      BY <3>1, <3>2, SameView
  <2>3. View(n)' = Contract!Unknown
    BY <2>1, ViewNext DEF IInv, TypeOK
  <2>4. w \in InFlight(n)
    BY <1>6 DEF InFlight
  <2>5. CASE promise[n] = Loading
    <3>1. View(n) = Contract!InProgress(batch[w])
      BY <2>4, <2>5, ViewNow
    <3>2. view[n].is = "loading"
      BY <3>1 DEF view, Contract!InProgress
    <3>3. view' = [view EXCEPT ![n] = Contract!Unknown]
      BY <2>2, <2>3 DEF view
    <3>. QED
      BY <1>4, <3>2, <3>3 DEF Contract!GiveUp, view, opening
  <2>6. CASE promise[n] # Loading
    <3>1. promise[n] \in {Merged, Suspect}
      BY <2>4, <2>6 DEF IInv, TypeOK, Alone, History
    <3>2. View(n)' = View(n)
      BY <2>3, <3>1, ViewNow
    <3>. QED
      BY <1>4, <2>2, <3>2 DEF view
  <2>. QED
    BY <2>5, <2>6
<1>. QED
  BY <1>5, <1>6 DEF Workers

\* A load begins.
LEMMA BeginStep ==
  ASSUME IInv, IInv', NEW w \in Loaders, NEW n \in Names, NEW b \in Batches(n),
         StartLoad(w, n, b)
  PROVE  UNCHANGED <<view, opening>> \/ Contract!Begin(n, b)
<1>1. w \in Workers /\ at[w] = "idle" /\ at'[w] = "lookup" /\ name[w] = NoName
  BY DEF Workers, IInv, TypeOK, Places, StartLoad
<1>2. name'[w] = n /\ batch'[w] = b /\ w \in InFlight(n)'
  BY <1>1 DEF IInv, TypeOK, StartLoad, InFlight
<1>3. \A v \in Workers : v # w => /\ at'[v] = at[v] /\ name'[v] = name[v]
                                  /\ batch'[v] = batch[v]
  BY DEF IInv, TypeOK, StartLoad
<1>4. opening' = opening
  BY <1>1, <1>3 DEF opening
<1>5. \A m \in Names : m # n => View(m)' = View(m)
  <2>. SUFFICES ASSUME NEW m \in Names, m # n
                PROVE  View(m)' = View(m)
    OBVIOUS
  <2>1. promise'[m] = promise[m]
    BY DEF IInv, TypeOK, StartLoad
  <2>2. \A v \in Loaders : /\ name'[v] = m <=> name[v] = m
                           /\ name[v] = m => batch'[v] = batch[v]
    BY <1>1, <1>2, <1>3, Sentinels DEF Workers
  <2>. QED
    BY <2>1, <2>2, SameView
<1>6. CASE InFlight(n) = {}
  <2>1. promise'[n] = Loading /\ promise[n] # Loading
    BY <1>6 DEF IInv, TypeOK, Alone, StartLoad
  <2>2. View(n)' = Contract!InProgress(b)
    BY <1>2, <2>1, ViewNext
  <2>3. view[n].is # "loading"
    <3>1. promise[n] \in AnyRecs \cup {Merged, Suspect}
      BY <2>1 DEF IInv, TypeOK, History
    <3>2. View(n).is # "loading"
      BY <3>1, ViewNow DEF Contract!Settled, Contract!Unknown
    <3>. QED
      BY <3>2 DEF view
  <2>. QED
    BY <1>4, <1>5, <2>2, <2>3 DEF Contract!Begin, view, opening
<1>7. CASE InFlight(n) # {} /\ promise[n] = Loading
  <2>1. View(n)' = Contract!Unknown
    BY <1>7, ViewNext, Sentinels DEF IInv, TypeOK, StartLoad
  <2>2. PICK v \in InFlight(n) : TRUE
    BY <1>7
  <2>3. View(n) = Contract!InProgress(batch[v])
    BY <1>7, <2>2, ViewNow
  <2>4. view[n].is = "loading"
    BY <2>3 DEF view, Contract!InProgress
  <2>. QED
    BY <1>4, <1>5, <2>1, <2>4 DEF Contract!Begin, view, opening
<1>8. CASE InFlight(n) # {} /\ promise[n] # Loading
  <2>1. promise[n] \in {Merged, Suspect} /\ promise'[n] \in {Merged, Suspect}
    BY <1>8 DEF IInv, TypeOK, Alone, History, StartLoad
  <2>2. View(n)' = View(n)
    BY <2>1, ViewNow, ViewNext
  <2>. QED
    BY <1>4, <1>5, <2>2 DEF view
<1>. QED
  BY <1>6, <1>7, <1>8

\* A load is answered.
LEMMA AnswerStep ==
  ASSUME IInv, IInv', NEW w \in Workers, NEW n \in Names,
         name[w] = n, WriteUpsert(w)
  PROVE  UNCHANGED <<view, opening>> \/ Contract!Answer(n)
<1>1. /\ n \in Names /\ w \in Loaders /\ w \in InFlight(n)
      /\ at'[w] = "idle" /\ name'[w] = NoName /\ at[w] = "write"
  BY Running DEF IInv, TypeOK, Places, WriteUpsert, Return, InFlight
<1>2. \A v \in Workers : v # w => /\ at'[v] = at[v] /\ name'[v] = name[v]
                                  /\ batch'[v] = batch[v]
  BY DEF IInv, TypeOK, WriteUpsert, Return
<1>3. opening' = opening
  BY <1>1, <1>2 DEF opening
<1>4. \A m \in Names : m # n => View(m)' = View(m)
  <2>. SUFFICES ASSUME NEW m \in Names, m # n
                PROVE  View(m)' = View(m)
    OBVIOUS
  <2>1. promise'[m] = promise[m]
    BY <1>1 DEF IInv, TypeOK, WriteUpsert
  <2>2. \A v \in Loaders : /\ name'[v] = m <=> name[v] = m
                           /\ name[v] = m => batch'[v] = batch[v]
    BY <1>1, <1>2, Sentinels DEF Workers
  <2>. QED
    BY <2>1, <2>2, SameView
<1>5. CASE promise[n] = Loading
  <2>1. promise'[n] = batch[w]
    BY <1>1, <1>5 DEF IInv, TypeOK, WriteUpsert
  <2>2. batch[w] \in AnyRecs
    BY DEF IInv, TypeOK
  <2>3. View(n)' = Contract!Settled(batch[w])
    BY <1>1, <2>1, <2>2, ViewNext
  <2>4. View(n) = Contract!InProgress(batch[w])
    BY <1>1, <1>5, ViewNow
  <2>5. view[n] = Contract!InProgress(batch[w])
    BY <1>1, <2>4 DEF view
  <2>6. view' = [view EXCEPT ![n] = Contract!Settled(batch[w])]
    BY <1>1, <1>4, <2>3 DEF view
  <2>7. view' = [view EXCEPT ![n].is = "settled"]
    <3>1. [Contract!InProgress(batch[w]) EXCEPT !.is = "settled"]
            = Contract!Settled(batch[w])
      BY DEF Contract!InProgress, Contract!Settled
    <3>2. [view EXCEPT ![n].is = "settled"]
            = [view EXCEPT ![n] = [view[n] EXCEPT !.is = "settled"]]
      BY DEF view
    <3>. QED
      BY <2>5, <2>6, <3>1, <3>2
  <2>. QED
    BY <1>3, <2>5, <2>7 DEF Contract!Answer, Contract!InProgress, view, opening
<1>6. CASE promise[n] # Loading
  <2>1. promise[n] \in {Merged, Suspect} /\ promise'[n] = promise[n]
    BY <1>1, <1>6 DEF IInv, TypeOK, Alone, History, WriteUpsert
  <2>2. View(n)' = View(n)
    BY <1>1, <2>1, ViewNow, ViewNext
  <2>. QED
    BY <1>1, <1>3, <1>4, <2>2 DEF view
<1>. QED
  BY <1>5, <1>6

\* A first access has read the file.
LEMMA OpenStep ==
  ASSUME IInv, IInv', NEW w \in Workers, NEW n \in Names,
         name[w] = n, ReadFile(w)
  PROVE  Contract!Open(n)
<1>1. at'[w] = "insert" /\ name' = name
  BY DEF IInv, TypeOK, ReadFile
<1>2. \A v \in Workers : v # w => at'[v] = at[v]
  BY DEF IInv, TypeOK, ReadFile
<1>3. opening' = opening \cup {n}
  BY <1>1, <1>2 DEF opening
<1>4. view' = view
  BY <1>1, SameView DEF view, ReadFile
<1>. QED
  BY <1>3, <1>4 DEF Contract!Open, view, opening

\* A first access registers what it read.
LEMMA RegisterStep ==
  ASSUME IInv, IInv', NEW w \in Workers, NEW n \in Names,
         name[w] = n, Insert(w)
  PROVE  Contract!Register(n)
<1>1. /\ at[w] = "insert" /\ at'[w] = "body" /\ n \in Names
      /\ name' = name /\ batch' = batch
  BY Running DEF IInv, TypeOK, Insert
<1>2. \A v \in Workers : v # w => at'[v] = at[v]
  BY DEF IInv, TypeOK, Insert
<1>3. n \in opening
  BY <1>1 DEF opening
<1>4. opening' \in {opening, opening \ {n}}
  <2>1. CASE \E v \in Workers : v # w /\ at[v] = "insert" /\ name[v] = n
    BY <1>1, <1>2, <2>1 DEF opening
  <2>2. CASE ~ \E v \in Workers : v # w /\ at[v] = "insert" /\ name[v] = n
    BY <1>1, <1>2, <2>2 DEF opening
  <2>. QED
    BY <2>1, <2>2
<1>5. /\ \A m \in Names : m # n => promise'[m] = promise[m]
      /\ promise'[n] \in {promise[n], Suspect}
  BY <1>1 DEF IInv, TypeOK, Insert
<1>6. \A m \in Names : m # n => View(m)' = View(m)
  BY <1>1, <1>5, SameView
<1>7. View(n)' \in {View(n), Contract!Unknown}
  <2>1. CASE promise'[n] = promise[n]
    BY <1>1, <2>1, SameView
  <2>2. CASE promise'[n] = Suspect
    BY <1>1, <2>2, ViewNext
  <2>. QED
    BY <1>5, <2>1, <2>2
<1>8. \E v \in {view[n], Contract!Unknown} : view' = [view EXCEPT ![n] = v]
  BY <1>1, <1>6, <1>7 DEF view
<1>. QED
  BY <1>3, <1>4, <1>8 DEF Contract!Register, view, opening

\* The process restarts.
LEMMA RestartStep ==
  ASSUME IInv, IInv', Crash
  PROVE  Contract!Restart
<1>1. opening' = {}
  BY DEF Crash, opening
<1>2. \A w \in Loaders : name'[w] = NoName
  BY DEF Crash, Workers
<1>3. \A n \in Names : View(n)' = IF View(n).is = "loading" THEN Contract!Unknown
                                  ELSE View(n)
  <2>. SUFFICES ASSUME NEW n \in Names
                PROVE  View(n)' = IF View(n).is = "loading" THEN Contract!Unknown
                                  ELSE View(n)
    OBVIOUS
  <2>1. CASE promise[n] = Loading
    <3>1. PICK w \in InFlight(n) : TRUE
      BY <2>1 DEF IInv, Alone
    <3>2. View(n).is = "loading"
      BY <2>1, <3>1, ViewNow DEF Contract!InProgress
    <3>3. promise'[n] = Suspect
      BY <3>1 DEF Crash
    <3>. QED
      BY <3>2, <3>3, ViewNext
  <2>2. CASE promise[n] \in AnyRecs
    <3>1. promise'[n] = promise[n]
      BY <2>2 DEF IInv, Alone, Crash
    <3>. QED
      BY <2>2, <3>1, ViewNow, ViewNext DEF Contract!Settled
  <2>3. CASE promise[n] \in {Merged, Suspect}
    <3>1. promise'[n] \in {Merged, Suspect}
      BY <2>3 DEF Crash
    <3>. QED
      BY <2>3, <3>1, ViewNow, ViewNext DEF Contract!Unknown
  <2>. QED
    BY <2>1, <2>2, <2>3 DEF IInv, TypeOK, History
<1>. QED
  BY <1>1, <1>3 DEF Contract!Restart, view, opening

\* Every step of the store is a step of the contract, or invisible in it.
LEMMA ContractStep ==
  IInv /\ IInv' /\ [Next]_vars => [Contract!Next]_<<view, opening>>
<1>. SUFFICES ASSUME IInv, IInv', [Next]_vars
              PROVE  Contract!Next \/ UNCHANGED <<view, opening>>
  BY DEF view, opening
<1>1. ASSUME NEW w \in Loaders, NEW n \in Names, NEW b \in Batches(n),
             StartLoad(w, n, b)
      PROVE  Contract!Next \/ UNCHANGED <<view, opening>>
  <2>1. b \in AnyRecs
    BY BatchIsRecs, RecsAreAny
  <2>. QED
    BY <1>1, <2>1, BeginStep DEF Contract!Next
<1>2. ASSUME NEW w \in Readers, NEW n \in Names, StartRead(w, n)
      PROVE  Contract!Next \/ UNCHANGED <<view, opening>>
  BY <1>2, SilentStep, Sentinels DEF IInv, TypeOK, StartRead, Workers
<1>3. ASSUME NEW w \in Workers, Step(w)
      PROVE  Contract!Next \/ UNCHANGED <<view, opening>>
  <2>1. PICK n \in Names : name[w] = n
    BY <1>3, Running DEF Step, Hit, Miss, ReadFile, ReadFileFails, Insert, Clear,
       Merge, TakeRead, Scan, OpenFile, OpenFileFails, WriteReset, WriteUpsert,
       WriteFileFails
  <2>2. CASE \/ Hit(w) \/ Miss(w) \/ Clear(w) \/ Merge(w) \/ TakeRead(w)
           \/ OpenFile(w) \/ WriteReset(w)
    BY <2>2, SilentStep DEF IInv, TypeOK, Hit, Miss, Clear, Merge, TakeRead,
       OpenFile, WriteReset, store, locals
  <2>3. CASE Scan(w)
    <3>1. \A v \in Loaders : v # w /\ v \in Workers
      BY <2>3 DEF IInv, Places, Scan, Workers
    <3>. QED
      BY <2>3, <3>1, SilentStep DEF IInv, TypeOK, Scan, Return
  <2>4. CASE ReadFileFails(w) \/ OpenFileFails(w) \/ WriteFileFails(w)
    BY <2>1, <2>4, FailStep DEF ReadFileFails, OpenFileFails, WriteFileFails,
       Contract!Next
  <2>5. CASE ReadFile(w)
    BY <2>1, <2>5, OpenStep DEF Contract!Next
  <2>6. CASE Insert(w)
    BY <2>1, <2>6, RegisterStep DEF Contract!Next
  <2>7. CASE WriteUpsert(w)
    BY <2>1, <2>7, AnswerStep DEF Contract!Next
  <2>. QED
    BY <1>3, <2>2, <2>3, <2>4, <2>5, <2>6, <2>7 DEF Step
<1>4. CASE Crash
  BY <1>4, RestartStep DEF Contract!Next
<1>5. CASE UNCHANGED vars
  BY <1>5, SilentStep DEF vars
<1>. QED
  BY <1>1, <1>2, <1>3, <1>4, <1>5 DEF Next

\* The vector store implements its contract.
THEOREM Implementation == Spec => ImplementsCollections
<1>1. Init => Contract!Init
  <2>. SUFFICES ASSUME Init
                PROVE  Contract!Init
    OBVIOUS
  <2>1. \A n \in Names : View(n) = Contract!Settled(Empty)
    BY EmptyIsAny DEF Init, View, Served, Saved, Contract!Settled
  <2>2. opening = {}
    BY DEF Init, opening
  <2>. QED
    BY <2>1, <2>2 DEF Contract!Init, opening
<1>2. IInv /\ IInv' /\ [Next]_vars => [Contract!Next]_Contract!vars
  BY ContractStep DEF Contract!vars, view, opening
<1>. QED
  BY <1>1, <1>2, Invariance, PTL DEF Spec, ImplementsCollections, Contract!Spec
=============================================================================
