------------------------------ MODULE Entities ------------------------------
(***************************************************************************)
(* The entities of the server (src/src/domain/entities.rs) and the routes  *)
(* that load their collections (src/src/api/handlers/collections.rs), over *)
(* the vector store's contract (Collections).                              *)
(*                                                                         *)
(* Each directory of ./entities may declare an entity in its manifest.     *)
(* The directories are scanned once, when the process starts, in the order *)
(* the file system lists them; an operator may edit them at any time, but  *)
(* the registry does not change until the next start, while source files   *)
(* are read when a request loads them.                                     *)
(***************************************************************************)
CONSTANTS
  Loads,     \* load requests, as jobs that run to their end
  Dirs,      \* the directories of ./entities
  Ids,       \* ids as manifests, query strings and bodies spell them
  Queries,   \* what ?entity= may say (NoId: it is missing)
  Bodies,    \* what "entity" in a posted body may say
  Trim,      \* str::trim; a blank id is no id
  NoId,      \* no id given; no (valid) manifest
  DefaultEntity,
  Kinds,     \* services, faqs, pareceres, notas
  NoEntity   \* what the registry has of an id nobody declared

ASSUME EntitiesAssumption ==
  /\ NoId \notin Ids /\ DefaultEntity \in Ids /\ NoEntity \notin Dirs
  /\ Queries \cup Bodies \subseteq Ids \cup {NoId}
  /\ Trim \in [Ids -> Ids \cup {NoId}]
  /\ Trim[DefaultEntity] = DefaultEntity
  /\ \A id \in Ids : Trim[id] \in Ids => Trim[Trim[id]] = Trim[id]

VARIABLES
  manifest,  \* the id each directory declares
  todo,      \* directories the scan has still to read
  up,        \* the server answers requests
  entities,  \* ENTITIES: the directory of each id
  request,   \* how far each load has come
  view, opening,  \* the vector store, as Collections describes it
  unseen,    \* history: directories the scan missed, or that changed since
  declared   \* history: the id each directory declared to the scan

vars == <<manifest, todo, up, entities, request, view, opening, unseen, declared>>
disk == <<manifest, unseen, declared>>
store == <<view, opening>>

\* A collection is named after an entity and a kind (EntityConfig::collection).
Names == Ids \X Kinds

\* What a load stores, by its origin: the file of a kind, in a directory that
\* declared an id; or a text posted for a kind, with the id in its body.
Text(from, id, kind) == [from |-> from, id |-> id, kind |-> kind]
Nothing == Text("file", NoId, "nothing")
Texts == [from : {"file", "web"}, id : Ids \cup {NoId}, kind : Kinds] \cup {Nothing}

Store == INSTANCE Collections WITH Contents <- Texts

-----------------------------------------------------------------------------

Idle == [at |-> "idle"]
\* A load whose request had ?entity=query, and its store job.
Load(query, name, text) == [at |-> "embed", query |-> query, name |-> name, text |-> text]
Job(name, text) == [at |-> "store", name |-> name, text |-> text]

Init ==
  /\ manifest \in [Dirs -> Ids \cup {NoId}]
  /\ todo = Dirs /\ up = FALSE
  /\ entities = [id \in Ids |-> NoEntity]
  /\ request = [l \in Loads |-> Idle]
  /\ Store!Init
  /\ unseen = {} /\ declared = [d \in Dirs |-> NoId]

(* load_entities, one action for each way through its loop.                *)

Read(d) ==
  /\ d \in todo
  /\ todo' = todo \ {d}
  /\ UNCHANGED <<manifest, up, request, store>>

\* read_dir fails: the server comes up without any entity.
ReadDirFails ==
  /\ todo = Dirs /\ ~up
  /\ todo' = {} /\ unseen' = Dirs
  /\ UNCHANGED <<manifest, declared, up, entities, request, store>>

\* Variant: what is no entity ends the scan.
SkipRest(d) ==
  /\ d \in todo /\ manifest[d] = NoId
  /\ todo' = {}
  /\ UNCHANGED <<disk, up, request, store, entities>>

\* Not a directory, or no entity.json that parses.
Skip(d) == Read(d) /\ manifest[d] = NoId /\ UNCHANGED <<entities, unseen, declared>>

\* The entry or its manifest cannot be read.
ReadFails(d) == Read(d) /\ unseen' = unseen \cup {d} /\ UNCHANGED <<entities, declared>>

\* Variant: the sources are looked for under the id, not the directory.
InsertById(d) ==
  /\ Read(d) /\ manifest[d] # NoId
  /\ entities' = [entities EXCEPT ![manifest[d]] = manifest[d]]
  /\ declared' = [declared EXCEPT ![d] = manifest[d]]
  /\ UNCHANGED unseen

\* Whatever prompt.txt has, or the default prompt, is kept with the directory.
Insert(d) ==
  /\ Read(d) /\ manifest[d] # NoId
  /\ entities' = [entities EXCEPT ![manifest[d]] = d]
  /\ declared' = [declared EXCEPT ![d] = manifest[d]]
  /\ UNCHANGED unseen

\* main() goes on to bind the port.
Serve ==
  /\ todo = {} /\ ~up
  /\ up' = TRUE
  /\ UNCHANGED <<disk, todo, entities, request, store>>

Restart ==
  /\ up
  /\ up' = FALSE /\ todo' = Dirs /\ unseen' = {}
  /\ entities' = [id \in Ids |-> NoEntity] /\ declared' = [d \in Dirs |-> NoId]
  /\ request' = [l \in Loads |-> Idle]
  /\ Store!Restart
  /\ UNCHANGED manifest

\* The operator adds, removes, renames or repairs an entity.
Edit(d, id) ==
  /\ id # manifest[d]
  /\ manifest' = [manifest EXCEPT ![d] = id]
  /\ unseen' = IF d \in todo THEN unseen ELSE unseen \cup {d}
  /\ UNCHANGED <<declared, todo, up, entities, request, store>>

(* The routes.                                                             *)

\* get_entity, up to the lookup.
Resolve(id) ==
  IF id = NoId THEN DefaultEntity
  ELSE IF Trim[id] = NoId THEN DefaultEntity ELSE Trim[id]

\* Variant: collections are named after the kind alone.
NameOfKind(e, k) == <<DefaultEntity, k>>

\* EntityConfig::collection
Name(e, k) == <<e, k>>

\* The handler resolved the entity e and prepared the blocks; load_collection
\* waits for the embedding.
Prepare(l, query, e, k, text) ==
  /\ up /\ request[l] = Idle /\ entities[e] # NoEntity
  /\ request' = [request EXCEPT ![l] = Load(query, Name(e, k), text)]
  /\ UNCHANGED <<disk, todo, up, entities, store>>

\* EntityConfig::data_file, read now from the directory found at the start,
\* whatever that directory declares by now.
DataFile(e, k) == Text("file", declared[entities[e]], k)

\* load_from_file_handler; a file that cannot be read has no blocks.
LoadFromFile(l, query, k) ==
  LET e == Resolve(query) IN
  /\ entities[e] # NoEntity
  /\ \E text \in {DataFile(e, k), Nothing} : Prepare(l, query, e, k, text)

\* load_from_web_handler: the entity is looked for in the body; the handler has
\* no parameter for the query string.
LoadFromWeb(l, query, body, k) == Prepare(l, query, Resolve(body), k, Text("web", body, k))

\* The store job of the load enters the collection.  Next to another job the
\* contract promises nothing.
Enter(l) ==
  LET r == request[l] IN
  /\ r.at = "embed"
  /\ IF \E m \in Loads : /\ request[m].at = "store" /\ request[m].name = r.name
                         /\ view[r.name].is # "loading"
     THEN UNCHANGED store ELSE Store!Begin(r.name, r.text)
  /\ request' = [request EXCEPT ![l] = Job(r.name, r.text)]
  /\ UNCHANGED <<disk, todo, up, entities>>

\* The job ends; alone, it settled the collection or failed.
Leave(l) ==
  LET n == request[l].name IN
  /\ request[l].at = "store"
  /\ IF view[n].is = "loading" THEN Store!Answer(n) \/ Store!GiveUp(n) ELSE UNCHANGED store
  /\ request' = [request EXCEPT ![l] = Idle]
  /\ UNCHANGED <<disk, todo, up, entities>>

\* The embedding fails, or the client hangs up before the store job.
Abandon(l) ==
  /\ request[l].at = "embed"
  /\ request' = [request EXCEPT ![l] = Idle]
  /\ UNCHANGED <<disk, todo, up, entities, store>>

\* A listing or a question is the first to use a collection since the start.
FirstAccess(n) ==
  /\ up /\ entities[n[1]] # NoEntity
  /\ Store!Open(n) \/ Store!Register(n)
  /\ UNCHANGED <<disk, todo, up, entities, request>>

Request(l) ==
  \/ \E query \in Queries, k \in Kinds :
       \/ LoadFromFile(l, query, k)
       \/ \E body \in Bodies : LoadFromWeb(l, query, body, k)
  \/ Enter(l) \/ Leave(l) \/ Abandon(l)

Next ==
  \/ ReadDirFails \/ Serve \/ Restart
  \/ \E d \in Dirs : \/ Skip(d) \/ ReadFails(d) \/ Insert(d)
                     \/ \E id \in Ids \cup {NoId} : Edit(d, id)
  \/ \E l \in Loads : Request(l)
  \/ \E n \in Names : FirstAccess(n)

Spec == Init /\ [][Next]_vars

-----------------------------------------------------------------------------
(* Properties.                                                             *)

LoadRequests ==
  [at : {"embed"}, query : Queries, name : Names, text : Texts]
  \cup [at : {"store"}, name : Names, text : Texts]

TypeOK ==
  /\ manifest \in [Dirs -> Ids \cup {NoId}]
  /\ todo \subseteq Dirs /\ up \in BOOLEAN
  /\ entities \in [Ids -> Dirs \cup {NoEntity}]
  /\ request \in [Loads -> LoadRequests \cup {Idle}]
  /\ view \in [Names -> Store!Views] /\ opening \subseteq Names
  /\ unseen \subseteq Dirs /\ declared \in [Dirs -> Ids \cup {NoId}]

\* Once the server is up its registry is what the directories declare: every
\* id some directory declares has an entity, and the directory of an entity
\* declares its id, whatever the order they were listed in; except for
\* directories that could not be read or were edited since.
RegistryIsDisk ==
  up =>
    /\ \A d \in Dirs \ unseen : manifest[d] # NoId => entities[manifest[d]] # NoEntity
    /\ \A id \in Ids : entities[id] \in Dirs \ unseen => manifest[entities[id]] = id

\* The documents of one entity and kind never end up in the collection of
\* another, nor does a load under way carry them there: over restarts, edits of
\* the directories and overlapping loads of files and posted texts, a collection
\* is given the files of directories that declared its very id when they were
\* scanned, and posted texts whose body resolves to its entity; and what a
\* directory declares with spaces around it gets no documents at all.
Own(n, t) ==
  \/ t = Nothing
  \/ /\ t.kind = n[2] /\ Trim[n[1]] = n[1]
     /\ IF t.from = "file" THEN t.id = n[1] ELSE Resolve(t.id) = n[1]
OwnTexts ==
  /\ \A n \in Names : \A t \in view[n].contents : Own(n, t)
  /\ \A l \in Loads : request[l] # Idle => Own(request[l].name, request[l].text)

\* readme.md:77 says of the three routes of a kind that all of them accept
\* ?entity=<id>: a load whose request has it, and no other id in its body, goes
\* to the collection of that entity.
QueryHonoured ==
  \A l \in Loads :
    LET r == request[l] IN
    r.at = "embed" /\ r.query # NoId /\ (r.text.from = "file" \/ r.text.id = NoId)
      => r.name[1] = Resolve(r.query)
=============================================================================
