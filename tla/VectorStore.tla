---------------------------- MODULE VectorStore ----------------------------
(***************************************************************************)
(* The in-process vector store (src/src/clients/vector_store.rs) as the    *)
(* server drives it from Tokio's blocking pool.                            *)
(*                                                                         *)
(* A collection `<entity>-<kind>' lives in memory behind an Arc<RwLock<..>>*)
(* found through a registry, and on disk in `<name>.json'.  Blocking tasks *)
(* of two kinds run against it: loaders execute the closure of             *)
(* load_collection, which calls reset and then upsert; readers execute one *)
(* query_scored or list.  Every method starts with get_or_open, whose      *)
(* lookup, file read and registry insert are three separate steps.         *)
(***************************************************************************)
EXTENDS Integers, FiniteSets

CONSTANTS
  Names,      \* collection names, `<entity>-<kind>'
  Loaders,    \* blocking tasks running the closure of load_collection
  Readers,    \* blocking tasks running query_scored or list
  Arcs,       \* identities of in-memory collections (Arc allocations)
  Versions,   \* versions of a source text; one load ingests one version
  MaxBlocks,  \* bound on the number of blocks of a source text
  Faults,     \* faults the environment may inject: a subset of {"io", "crash"}
  NoArc, NoName,             \* absent Arc, absent name
  Missing, Blank, Garbled,   \* states of a file that hold no collection
  Loading, Merged, Suspect   \* values of the history variable promise

Workers == Loaders \cup Readers

\* A document is tagged with the collection and the source text it came from.
Docs(n) == [of : {n}, ver : Versions]

\* records: Vec<Record>.  The keys built by load_collection are id-1 .. id-N
\* and upsert replaces by id, so a collection is a function from ids.
RecsUpTo(n, k) == UNION { [1..j -> Docs(n)] : j \in 0..k }
Recs(n) == RecsUpTo(n, MaxBlocks)
AnyRecs == UNION { Recs(n) : n \in Names }
Empty == [i \in {} |-> i]

\* The batch load_collection builds for one source text of k blocks; a text
\* that could not be read or has no block gives the empty batch.
Batch(n, v, k) == [i \in 1..k |-> [of |-> n, ver |-> v]]
Batches(n) == { Batch(n, v, k) : v \in Versions, k \in 0..MaxBlocks }

NoCollection == {Missing, Blank, Garbled}
History == {Loading, Merged, Suspect}

ASSUME StoreAssumption ==
  /\ Names # {}
  /\ MaxBlocks \in Nat
  /\ Loaders \cap Readers = {}
  /\ NoArc \notin Arcs
  /\ NoName \notin Names
  /\ Missing # Blank /\ Missing # Garbled /\ Blank # Garbled
  /\ Loading # Merged /\ Loading # Suspect /\ Merged # Suspect
  /\ (NoCollection \cup History) \cap AnyRecs = {}

VARIABLES
  registry,  \* collections: name -> the Arc registered for it, or NoArc
  heap,      \* the records behind each Arc; a freed Arc is Empty
  disk,      \* <base_path>/<name>.json: a collection or a value of NoCollection
  at,        \* where a task stands: the next step of the method it runs
  call,      \* the VectorStore method a task is in
  name,      \* the collection a task works on
  batch,     \* the records a loader is to upsert
  arc,       \* the local `arc' of the method
  snap,      \* the local `data' of get_or_open, between file read and insert
  promise    \* history: what the loads answered so far promise of a collection

store == <<registry, heap, disk>>
locals == <<call, name, batch, arc, snap>>
vars == <<registry, heap, disk, at, call, name, batch, arc, snap, promise>>

-----------------------------------------------------------------------------
(* Derived state.                                                          *)

InFlight(n) == { w \in Loaders : name[w] = n }

\* (Definitions marked Variant are what a mistaken change to the code would
\* make of the definition that follows them; the specification uses none.)

\* Variant: the caller of upsert already has the guard upsert takes.
HoldsTwice(w) == call[w] = "upsert" /\ at[w] \in {"body", "open", "write"}

\* upsert keeps the write guard from the merge to the end of persist; reset
\* drops it after clear(), before it persists.
Holds(w) == call[w] = "upsert" /\ at[w] \in {"open", "write"}
WriteLocked(a) == \E w \in Workers : Holds(w) /\ arc[w] = a

\* query_scored and list keep the read guard while they walk the records; any
\* number of them may.
ReadLocked(a) == \E w \in Workers : at[w] = "scan" /\ arc[w] = a

\* load_from_disk: a missing file is an empty collection.
Saved(n) == IF disk[n] = Missing THEN Empty ELSE disk[n]

\* What the next method to open the collection will work on.
Served(n) == IF registry[n] = NoArc THEN Saved(n) ELSE heap[registry[n]]

\* An Arc with no owner is dropped with its records.
HeapBecomes(h) ==
  heap' = [a \in Arcs |->
             IF \/ \E n \in Names : registry'[n] = a
                \/ \E w \in Workers : arc'[w] = a
             THEN h[a] ELSE Empty]

Free(a) == /\ \A n \in Names : registry[n] # a
           /\ \A w \in Workers : arc[w] # a

\* Variant: append without looking for a record of the same id.
UpsertAppending(recs, new) ==
  LET k == Cardinality(DOMAIN recs) IN
  [i \in 1..(k + Cardinality(DOMAIN new)) |-> IF i <= k THEN recs[i] ELSE new[i - k]]

\* for (id, emb, text) in the batch: replace the record of that id, else append.
Upsert(recs, new) ==
  [i \in DOMAIN recs \cup DOMAIN new |->
     IF i \in DOMAIN new THEN new[i] ELSE recs[i]]

\* fs::write puts its bytes at offset 0 of a file it truncated when opening
\* it.  Bytes another writer put there since then stay behind a shorter text,
\* which no longer parses; `{"records":[]}' is the shortest text of all, and
\* which of two other texts is longer depends on the documents.
Overwrite(file, recs) ==
  { f \in {recs, Garbled} :
      /\ f = Garbled => file \notin {Blank, Empty, recs}
      /\ f = recs => recs # Empty \/ file \in {Blank, Empty, Garbled} }

-----------------------------------------------------------------------------

Init ==
  /\ registry = [n \in Names |-> NoArc]
  /\ heap = [a \in Arcs |-> Empty]
  /\ disk = [n \in Names |-> Missing]
  /\ at = [w \in Workers |-> "idle"]
  /\ call = [w \in Workers |-> "none"]
  /\ name = [w \in Workers |-> NoName]
  /\ batch = [w \in Workers |-> Empty]
  /\ arc = [w \in Workers |-> NoArc]
  /\ snap = [w \in Workers |-> Empty]
  /\ promise = [n \in Names |-> Empty]

\* load_collection hands its closure to spawn_blocking.
StartLoad(w, n, b) ==
  /\ at[w] = "idle"
  /\ at' = [at EXCEPT ![w] = "lookup"]
  /\ call' = [call EXCEPT ![w] = "reset"]
  /\ name' = [name EXCEPT ![w] = n]
  /\ batch' = [batch EXCEPT ![w] = b]
  /\ promise' = [promise EXCEPT ![n] =
                   IF InFlight(n) = {} THEN Loading
                   ELSE IF @ = Suspect THEN Suspect ELSE Merged]
  /\ UNCHANGED <<store, arc, snap>>

\* A question or a listing hands query_scored or list to spawn_blocking.
StartRead(w, n) ==
  /\ at[w] = "idle"
  /\ at' = [at EXCEPT ![w] = "lookup"]
  /\ call' = [call EXCEPT ![w] = "read"]
  /\ name' = [name EXCEPT ![w] = n]
  /\ UNCHANGED <<store, batch, arc, snap, promise>>

\* get_or_open, registry fast path.
Hit(w) ==
  /\ at[w] = "lookup"
  /\ registry[name[w]] # NoArc
  /\ arc' = [arc EXCEPT ![w] = registry[name[w]]]
  /\ at' = [at EXCEPT ![w] = "body"]
  /\ UNCHANGED <<store, call, name, batch, snap, promise>>

\* get_or_open, not registered yet: the registry lock is given up here.
Miss(w) ==
  /\ at[w] = "lookup"
  /\ registry[name[w]] = NoArc
  /\ at' = [at EXCEPT ![w] = "load"]
  /\ UNCHANGED <<store, locals, promise>>

\* Variant: a file that does not parse is taken for an empty collection.
ReadFileLeniently(w) ==
  /\ at[w] = "load"
  /\ snap' = [snap EXCEPT ![w] = IF Saved(name[w]) \in NoCollection THEN Empty
                                 ELSE Saved(name[w])]
  /\ at' = [at EXCEPT ![w] = "insert"]
  /\ UNCHANGED <<store, call, name, batch, arc, promise>>

\* load_from_disk succeeds.
ReadFile(w) ==
  /\ at[w] = "load"
  /\ Saved(name[w]) \notin NoCollection
  /\ snap' = [snap EXCEPT ![w] = Saved(name[w])]
  /\ at' = [at EXCEPT ![w] = "insert"]
  /\ UNCHANGED <<store, call, name, batch, arc, promise>>

\* get_or_open inserts whatever the registry holds by now.  What is replaced
\* is lost to later calls, so the promise no longer stands unless the copy read
\* is the promised collection, or the task is the only load there is (it has
\* yet to clear and fill what it inserts).
Insert(w) ==
  LET n == name[w] IN
  /\ at[w] = "insert"
  /\ \E a \in Arcs :
       /\ Free(a)
       /\ arc' = [arc EXCEPT ![w] = a]
       /\ registry' = [registry EXCEPT ![n] = a]
       /\ HeapBecomes([heap EXCEPT ![a] = snap[w]])
  /\ snap' = [snap EXCEPT ![w] = Empty]
  /\ at' = [at EXCEPT ![w] = "body"]
  /\ promise' = [promise EXCEPT ![n] =
                   IF registry[n] = NoArc \/ @ = snap[w] \/ InFlight(n) = {w}
                   THEN @ ELSE Suspect]
  /\ UNCHANGED <<disk, call, name, batch>>

\* The method returns and the task ends.
Return(w) ==
  /\ at' = [at EXCEPT ![w] = "idle"]
  /\ call' = [call EXCEPT ![w] = "none"]
  /\ name' = [name EXCEPT ![w] = NoName]
  /\ batch' = [batch EXCEPT ![w] = Empty]
  /\ arc' = [arc EXCEPT ![w] = NoArc]
  /\ snap' = [snap EXCEPT ![w] = Empty]

\* The `?' of a failed step: the task ends with an error and repairs nothing.
Fail(w) ==
  /\ Return(w)
  /\ promise' = IF w \in Loaders THEN [promise EXCEPT ![name[w]] = Suspect]
                ELSE promise

\* load_from_disk fails: the file does not parse, or cannot be read.
ReadFileFails(w) ==
  /\ at[w] = "load"
  /\ Saved(name[w]) \in NoCollection \/ "io" \in Faults
  /\ Fail(w)
  /\ UNCHANGED store

\* Variant: reset persists an empty collection but forgets the one in memory.
ClearNothing(w) ==
  /\ at[w] = "body" /\ call[w] = "reset"
  /\ ~WriteLocked(arc[w]) /\ ~ReadLocked(arc[w])
  /\ at' = [at EXCEPT ![w] = "open"]
  /\ UNCHANGED <<registry, heap, disk, locals, promise>>

\* reset: arc.write().records.clear(); the guard is dropped at once.
Clear(w) ==
  /\ at[w] = "body" /\ call[w] = "reset"
  /\ ~WriteLocked(arc[w]) /\ ~ReadLocked(arc[w])
  /\ heap' = [heap EXCEPT ![arc[w]] = Empty]
  /\ at' = [at EXCEPT ![w] = "open"]
  /\ UNCHANGED <<registry, disk, locals, promise>>

\* upsert: take the write guard and merge the batch.
Merge(w) ==
  /\ at[w] = "body" /\ call[w] = "upsert"
  /\ ~WriteLocked(arc[w]) /\ ~ReadLocked(arc[w])
  /\ heap' = [heap EXCEPT ![arc[w]] = Upsert(@, batch[w])]
  /\ at' = [at EXCEPT ![w] = "open"]
  /\ UNCHANGED <<registry, disk, locals, promise>>

\* query_scored and list: take the read guard.
TakeRead(w) ==
  /\ at[w] = "body" /\ call[w] = "read"
  /\ ~WriteLocked(arc[w])
  /\ at' = [at EXCEPT ![w] = "scan"]
  /\ UNCHANGED <<store, locals, promise>>

\* The documents are copied out, the guard is dropped and the task ends.
Scan(w) ==
  /\ at[w] = "scan"
  /\ Return(w)
  /\ UNCHANGED <<registry, disk, promise>>
  /\ HeapBecomes(heap)

\* Variant: the file is opened for writing without truncating it.
OpenFileKeeping(w) ==
  /\ at[w] = "open"
  /\ at' = [at EXCEPT ![w] = "write"]
  /\ UNCHANGED <<registry, heap, disk, locals, promise>>

\* persist: create_dir_all, then fs::write opens the file and truncates it.
OpenFile(w) ==
  /\ at[w] = "open"
  /\ disk' = [disk EXCEPT ![name[w]] = Blank]
  /\ at' = [at EXCEPT ![w] = "write"]
  /\ UNCHANGED <<registry, heap, locals, promise>>

OpenFileFails(w) ==
  /\ at[w] = "open" /\ "io" \in Faults
  /\ Fail(w)
  /\ UNCHANGED <<registry, disk>>
  /\ HeapBecomes(heap)

\* Variant: upsert persists CollectionData::default() as reset does.
TextOfReset(w) == Empty

\* Variant: upsert persists the batch it was given, not what it merged it into.
TextOfBatch(w) == IF call[w] = "reset" THEN Empty ELSE batch[w]

\* The text persist writes: reset saves an empty collection, upsert its data.
Text(w) == IF call[w] = "reset" THEN Empty ELSE heap[arc[w]]

\* reset's fs::write completes; the closure goes on to call upsert.
WriteReset(w) ==
  /\ at[w] = "write" /\ call[w] = "reset"
  /\ \E f \in Overwrite(disk[name[w]], Text(w)) :
       disk' = [disk EXCEPT ![name[w]] = f]
  /\ at' = [at EXCEPT ![w] = "lookup"]
  /\ call' = [call EXCEPT ![w] = "upsert"]
  /\ arc' = [arc EXCEPT ![w] = NoArc]
  /\ UNCHANGED <<registry, name, batch, snap, promise>>
  /\ HeapBecomes(heap)

\* upsert's fs::write completes, the guard is dropped, the load answers Ok.
WriteUpsert(w) ==
  LET n == name[w] IN
  /\ at[w] = "write" /\ call[w] = "upsert"
  /\ \E f \in Overwrite(disk[n], Text(w)) :
       disk' = [disk EXCEPT ![n] = f]
  /\ Return(w)
  /\ promise' = [promise EXCEPT ![n] = IF @ = Loading THEN batch[w] ELSE @]
  /\ UNCHANGED registry
  /\ HeapBecomes(heap)

\* fs::write fails, possibly after part of the bytes.
WriteFileFails(w) ==
  /\ at[w] = "write" /\ "io" \in Faults
  /\ \E f \in {disk[name[w]], Garbled} :
       disk' = [disk EXCEPT ![name[w]] = f]
  /\ Fail(w)
  /\ UNCHANGED registry
  /\ HeapBecomes(heap)

\* The process dies (start.sh kills it) and a new one starts: memory is lost,
\* a write under way may have reached the file in part.
Crash ==
  /\ "crash" \in Faults
  /\ registry' = [n \in Names |-> NoArc]
  /\ heap' = [a \in Arcs |-> Empty]
  /\ at' = [w \in Workers |-> "idle"]
  /\ call' = [w \in Workers |-> "none"]
  /\ name' = [w \in Workers |-> NoName]
  /\ batch' = [w \in Workers |-> Empty]
  /\ arc' = [w \in Workers |-> NoArc]
  /\ snap' = [w \in Workers |-> Empty]
  /\ promise' = [n \in Names |->
                   IF InFlight(n) = {} THEN promise[n] ELSE Suspect]
  /\ \E torn \in SUBSET { name[w] : w \in {v \in Workers : at[v] = "write"} } :
       disk' = [n \in Names |-> IF n \in torn THEN Garbled ELSE disk[n]]

Step(w) ==
  \/ Hit(w) \/ Miss(w) \/ ReadFile(w) \/ ReadFileFails(w) \/ Insert(w)
  \/ Clear(w) \/ Merge(w) \/ TakeRead(w) \/ Scan(w)
  \/ OpenFile(w) \/ OpenFileFails(w)
  \/ WriteReset(w) \/ WriteUpsert(w) \/ WriteFileFails(w)

Next ==
  \/ \E w \in Loaders, n \in Names : \E b \in Batches(n) : StartLoad(w, n, b)
  \/ \E w \in Readers, n \in Names : StartRead(w, n)
  \/ \E w \in Workers : Step(w)
  \/ Crash

Spec == Init /\ [][Next]_vars

\* A thread of the blocking pool runs its task to the end.  Neither RwLock is
\* documented to be fair, so no action is given strong fairness.
Fairness == \A w \in Workers : WF_vars(Step(w))
FairSpec == Spec /\ Fairness

-----------------------------------------------------------------------------
(* Properties.                                                             *)

\* The variables have the types of the code's state; no collection grows past
\* the longest source text, whatever loads overlap (upsert replaces by id).
TypeOK ==
  /\ registry \in [Names -> Arcs \cup {NoArc}]
  /\ heap \in [Arcs -> AnyRecs]
  /\ disk \in [Names -> AnyRecs \cup NoCollection]
  /\ at \in [Workers -> {"idle", "lookup", "load", "insert",
                         "body", "scan", "open", "write"}]
  /\ call \in [Workers -> {"none", "reset", "upsert", "read"}]
  /\ name \in [Workers -> Names \cup {NoName}]
  /\ batch \in [Workers -> AnyRecs]
  /\ arc \in [Workers -> Arcs \cup {NoArc}]
  /\ snap \in [Workers -> AnyRecs]
  /\ promise \in [Names -> AnyRecs \cup History]

\* A load that was answered Ok, that no other load overlapped, no late open
\* displaced and no failure disturbed, is exactly what the store serves and
\* exactly what a restart will find: no orphan record of an earlier, longer
\* text, nothing lost, whatever the reads and crashes since.
Kept ==
  \A n \in Names : promise[n] \in AnyRecs =>
    Served(n) = promise[n] /\ Saved(n) = promise[n]

\* Although reset writes the file outside the collection's lock, overlapping
\* loads end with memory and file equal: whichever upsert takes the lock last
\* rewrites the file after every reset.
Coherent ==
  \A n \in Names : InFlight(n) = {} /\ promise[n] # Suspect =>
    Served(n) = Saved(n)

\* No task is past the file read of n, n is not registered and its file does
\* not parse.
Stuck(n) ==
  /\ disk[n] \in {Blank, Garbled}
  /\ registry[n] = NoArc
  /\ \A w \in Workers : name[w] = n => at[w] \in {"lookup", "load"}

\* A file torn by a crash is never repaired by the program: reset opens the
\* collection before it would empty it, so a reload fails like a query does.
CorruptionSticks == [][\A n \in Names : Stuck(n) => Stuck(n)']_vars

\* Once no new task starts, every task comes to its end: neither the registry
\* lock, nor the guards of a collection, held across a whole scan or a persist,
\* block one forever.  Readers come to theirs as soon as no new load starts; a
\* load may wait as long as readers keep coming, since nothing is promised of
\* who is next at an RwLock.
NoMore(tasks) == <>[][\A w \in tasks : at[w] = "idle" => at'[w] = "idle"]_vars
TasksFinish ==
  /\ NoMore(Workers) => \A w \in Workers : []<>(at[w] = "idle")
  /\ NoMore(Loaders) => \A w \in Readers : []<>(at[w] = "idle")

\* The store implements the contract of Collections: what a settled collection
\* shows is what the store serves.
View(n) ==
  IF promise[n] \in AnyRecs THEN [is |-> "settled", contents |-> {Served(n)}]
  ELSE IF promise[n] = Loading
       THEN [is |-> "loading", contents |-> { batch[w] : w \in InFlight(n) }]
       ELSE [is |-> "unknown", contents |-> {}]

Contract == INSTANCE Collections
  WITH Contents <- AnyRecs, Nothing <- Empty,
       view <- [n \in Names |-> View(n)],
       opening <- { name[w] : w \in { v \in Workers : at[v] = "insert" } }

ImplementsCollections == Contract!Spec

\* reset's comment promises a clean reload (vector_store.rs:81-82): what upsert
\* persists after it is the batch alone.
NoOrphans ==
  \A w \in Loaders : call[w] = "upsert" /\ at[w] \in {"open", "write"} =>
    heap[arc[w]] = batch[w]

\* The module comment says a collection is held in memory and persisted to its
\* file (vector_store.rs:3-4): with no task at work on it, the two are equal.
MemoryIsFile ==
  \A n \in Names :
    (\A w \in Workers : name[w] # n) => Served(n) = Saved(n)
=============================================================================
