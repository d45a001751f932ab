-------------------------- MODULE VectorStoreInv --------------------------
(***************************************************************************)
(* Why the safety properties of VectorStore hold: an inductive invariant,  *)
(* as a conjunction of facts about the places a task can stand at.         *)
(***************************************************************************)
EXTENDS VectorStore

\* A task is idle, a loader inside reset or upsert, or a reader inside read;
\* it owns an Arc exactly from the lookup's return to its own end, and never
\* more than the records of its own collection.
Places ==
  \A w \in Workers :
    /\ at[w] = "idle" <=> name[w] = NoName
    /\ at[w] # "idle" /\ w \in Loaders => call[w] \in {"reset", "upsert"}
    /\ at[w] # "idle" /\ w \in Readers => call[w] = "read"
    /\ at[w] \in {"open", "write"} => w \in Loaders
    /\ at[w] = "scan" => w \in Readers
    /\ arc[w] # NoArc <=> at[w] \in {"body", "scan", "open", "write"}
    /\ at[w] # "idle" /\ w \in Loaders => batch[w] \in Recs(name[w])
    /\ at[w] = "insert" => snap[w] \in Recs(name[w])

\* No Arc is reached from two names.
Apart ==
  /\ \A n, m \in Names : registry[n] = registry[m] /\ registry[n] # NoArc => n = m
  /\ \A w \in Workers, n \in Names :
       arc[w] = registry[n] /\ arc[w] # NoArc => name[w] = n
  /\ \A w, v \in Workers : arc[w] = arc[v] /\ arc[w] # NoArc => name[w] = name[v]

\* Records reached under a name belong to it.
Own ==
  /\ \A n \in Names : disk[n] \in Recs(n) \cup NoCollection
  /\ \A n \in Names : registry[n] # NoArc => heap[registry[n]] \in Recs(n)
  /\ \A w \in Workers : arc[w] # NoArc => heap[arc[w]] \in Recs(name[w])

\* A collection stays registered once a task got past its lookup, so upsert,
\* which comes after reset, always finds it.
Opened ==
  \A w \in Workers :
    /\ arc[w] # NoArc => registry[name[w]] # NoArc
    /\ at[w] # "idle" /\ call[w] = "upsert" =>
         /\ registry[name[w]] # NoArc
         /\ at[w] \notin {"load", "insert"}

\* The file a cold open has read is still the file while nobody registered the
\* collection: only a task past its lookup writes it.
ReadIsFile ==
  \A w \in Workers :
    at[w] = "insert" /\ registry[name[w]] = NoArc => snap[w] = Saved(name[w])

\* Unless the promise is Suspect, every load works on the registered Arc.
OneArc ==
  \A w \in Loaders :
    arc[w] # NoArc /\ promise[name[w]] # Suspect => arc[w] = registry[name[w]]

\* At most one task merges into, and saves, an Arc.
OneUpsert ==
  \A w, v \in Workers : Holds(w) /\ Holds(v) /\ arc[w] = arc[v] => w = v

\* A settled collection is not being loaded; Loading means a single load.
Alone ==
  \A n \in Names :
    /\ promise[n] \in AnyRecs => InFlight(n) = {}
    /\ promise[n] = Loading => InFlight(n) # {}
    /\ promise[n] = Loading => \A w, v \in InFlight(n) : w = v

\* How far a load has come that is alone on its collection.
Reached(w) ==
  LET n == name[w] IN
  /\ call[w] = "reset" /\ at[w] \in {"open", "write"} =>
       heap[registry[n]] = Empty
  /\ call[w] = "reset" /\ at[w] = "write" => disk[n] = Blank
  /\ call[w] = "upsert" /\ at[w] \in {"lookup", "body"} =>
       heap[registry[n]] = Empty
  /\ call[w] = "upsert" /\ at[w] \in {"open", "write"} =>
       heap[registry[n]] = batch[w]

Progress ==
  \A w \in Loaders :
    at[w] # "idle" /\ promise[name[w]] = Loading => Reached(w)

\* The last of several loads finds the file as it truncated it.
LastWrite ==
  \A w \in Loaders :
    /\ call[w] = "upsert" /\ at[w] = "write"
    /\ promise[name[w]] # Suspect
    /\ InFlight(name[w]) = {w}
    => disk[name[w]] = Blank

\* The inductive invariant.
IInv ==
  /\ TypeOK /\ Places /\ Apart /\ Own /\ Opened /\ ReadIsFile /\ OneArc
  /\ OneUpsert /\ Alone /\ Progress /\ LastWrite /\ Kept /\ Coherent
=============================================================================
