--------------------------- MODULE EntitiesProofs ---------------------------
(***************************************************************************)
(* Proofs about Entities, for any directories, ids, kinds and loads.       *)
(***************************************************************************)
EXTENDS Entities, TLAPS

\* The registry.  A scan is over before requests are answered; while it goes on,
\* directories that are still to be read are not in the registry, those that were
\* read and not edited since are, under the id they declare; and an entity is of
\* a directory that declared its id to the scan.
Registered ==
  /\ manifest \in [Dirs -> Ids \cup {NoId}] /\ todo \subseteq Dirs /\ up \in BOOLEAN
  /\ entities \in [Ids -> Dirs \cup {NoEntity}] /\ unseen \subseteq Dirs
  /\ up => todo = {}
  /\ \A id \in Ids : entities[id] \notin todo
  /\ \A d \in Dirs \ (unseen \cup todo) :
       manifest[d] # NoId => entities[manifest[d]] # NoEntity
  /\ \A id \in Ids : entities[id] \in Dirs \ unseen => manifest[entities[id]] = id
  /\ declared \in [Dirs -> Ids \cup {NoId}]
  /\ \A id \in Ids : entities[id] \in Dirs => declared[entities[id]] = id

\* The vector store.
OwnView ==
  /\ view \in [Names -> Store!Views] /\ opening \subseteq Names
  /\ \A n \in Names : \A t \in view[n].contents : Own(n, t)

\* The loads under way.
OwnLoads ==
  \A l \in Loads : request[l] # Idle => Own(request[l].name, request[l].text)
OwnRequests == request \in [Loads -> LoadRequests \cup {Idle}] /\ OwnLoads

IInv == Registered /\ OwnView /\ OwnRequests

-----------------------------------------------------------------------------
(* Names and texts.                                                        *)

LEMMA TextsAreTexts ==
  /\ Nothing \in Texts
  /\ \A from \in {"file", "web"}, id \in Ids \cup {NoId}, k \in Kinds : Text(from, id, k) \in Texts
BY DEF Nothing, Texts, Text

LEMMA ResolveIsId ==
  \A id \in Ids \cup {NoId} : Resolve(id) \in Ids /\ Trim[Resolve(id)] = Resolve(id)
BY EntitiesAssumption DEF Resolve

LEMMA NameIsName == \A e \in Ids, k \in Kinds : Name(e, k) \in Names
BY DEF Name, Names

\* What load_from_file reads for an entity of the registry is its own.
LEMMA DataFileIsOwn ==
  ASSUME Registered, NEW e \in Ids, NEW k \in Kinds, entities[e] # NoEntity, Trim[e] = e
  PROVE  DataFile(e, k) \in Texts /\ Own(Name(e, k), DataFile(e, k))
<1>1. declared[entities[e]] = e
  BY DEF Registered
<1>2. DataFile(e, k) = Text("file", e, k)
  BY <1>1 DEF DataFile
<1>. QED
  BY <1>2, TextsAreTexts DEF Own, Name, Text

\* What load_from_web is posted is the entity's that its body resolves to.
LEMMA PostedIsOwn ==
  ASSUME NEW body \in Ids \cup {NoId}, NEW k \in Kinds
  PROVE  /\ Text("web", body, k) \in Texts
         /\ Own(Name(Resolve(body), k), Text("web", body, k))
BY ResolveIsId, TextsAreTexts DEF Own, Name, Text

-----------------------------------------------------------------------------
(* The vector store: what each step of the contract leaves in a collection. *)

LEMMA BeginOwn ==
  ASSUME OwnView, NEW n \in Names, NEW t \in Texts, Own(n, t), Store!Begin(n, t)
  PROVE  OwnView'
<1>1. {t} \in SUBSET Texts /\ {} \in SUBSET Texts
  OBVIOUS
<1>2. Store!InProgress(t) \in Store!Views /\ Store!Unknown \in Store!Views
  BY <1>1 DEF Store!Views, Store!InProgress, Store!Unknown
<1>3. PICK v \in {Store!InProgress(t), Store!Unknown} : view' = [view EXCEPT ![n] = v]
  BY DEF Store!Begin, OwnView
<1>4. \A s \in v.contents : s = t
  BY <1>3 DEF Store!InProgress, Store!Unknown
<1>5. view' \in [Names -> Store!Views]
  BY <1>2, <1>3 DEF OwnView
<1>6. \A m \in Names : \A s \in view'[m].contents : Own(m, s)
  BY <1>3, <1>4 DEF OwnView
<1>7. opening' = opening
  BY DEF Store!Begin
<1>. QED
  BY <1>5, <1>6, <1>7 DEF OwnView, Own

LEMMA ShrinkOwn ==
  ASSUME OwnView, view' \in [Names -> Store!Views], opening' \subseteq Names,
         \A n \in Names : view'[n].contents \subseteq view[n].contents
  PROVE  OwnView'
BY DEF OwnView, Own

LEMMA LeaveOwn ==
  ASSUME OwnView, NEW n \in Names, Store!Answer(n) \/ Store!GiveUp(n)
  PROVE  OwnView'
<1>1. CASE Store!Answer(n)
  <2>1. view' \in [Names -> Store!Views]
    BY <1>1 DEF OwnView, Store!Answer, Store!Views
  <2>2. \A m \in Names : view'[m].contents \subseteq view[m].contents
    BY <1>1 DEF OwnView, Store!Answer, Store!Views
  <2>. QED
    BY <1>1, <2>1, <2>2, ShrinkOwn DEF Store!Answer, OwnView
<1>2. CASE Store!GiveUp(n)
  <2>1. view' \in [Names -> Store!Views]
    BY <1>2 DEF OwnView, Store!GiveUp, Store!Views, Store!Unknown
  <2>2. \A m \in Names : view'[m].contents \subseteq view[m].contents
    BY <1>2 DEF OwnView, Store!GiveUp, Store!Unknown
  <2>. QED
    BY <1>2, <2>1, <2>2, ShrinkOwn DEF Store!GiveUp, OwnView
<1>. QED
  BY <1>1, <1>2

LEMMA AccessOwn ==
  ASSUME OwnView, NEW n \in Names, Store!Open(n) \/ Store!Register(n)
  PROVE  OwnView'
<1>1. CASE Store!Open(n)
  BY <1>1, ShrinkOwn DEF Store!Open, OwnView
<1>2. CASE Store!Register(n)
  <2>1. PICK v \in {view[n], Store!Unknown} : view' = [view EXCEPT ![n] = v]
    BY <1>2 DEF Store!Register
  <2>2. view' \in [Names -> Store!Views]
    BY <2>1 DEF OwnView, Store!Views, Store!Unknown
  <2>3. \A m \in Names : view'[m].contents \subseteq view[m].contents
    BY <2>1 DEF OwnView, Store!Unknown
  <2>. QED
    BY <1>2, <2>2, <2>3, ShrinkOwn DEF Store!Register, OwnView
<1>. QED
  BY <1>1, <1>2

LEMMA RestartOwn ==
  ASSUME OwnView, Store!Restart
  PROVE  OwnView'
<1>1. view' \in [Names -> Store!Views]
  BY DEF OwnView, Store!Restart, Store!Views, Store!Unknown
<1>2. \A n \in Names : view'[n].contents \subseteq view[n].contents
  BY DEF OwnView, Store!Restart, Store!Unknown
<1>. QED
  BY <1>1, <1>2, ShrinkOwn DEF Store!Restart

-----------------------------------------------------------------------------
(* The registry.                                                           *)

LEMMA ReadRegistered ==
  ASSUME Registered, NEW d \in Dirs, Skip(d) \/ ReadFails(d) \/ Insert(d)
  PROVE  Registered'
<1>0. d \in todo /\ todo' = todo \ {d} /\ UNCHANGED <<manifest, up>>
  BY DEF Skip, ReadFails, Insert, Read
<1>1. CASE Skip(d)
  BY <1>0, <1>1 DEF Skip, Registered
<1>2. CASE ReadFails(d)
  BY <1>0, <1>2 DEF ReadFails, Registered
<1>3. CASE Insert(d)
  <2>1. manifest[d] \in Ids /\ entities' = [entities EXCEPT ![manifest[d]] = d]
        /\ unseen' = unseen /\ NoEntity # d
        /\ declared' = [declared EXCEPT ![d] = manifest[d]]
    BY <1>3, EntitiesAssumption DEF Insert, Registered
  <2>2. entities' \in [Ids -> Dirs \cup {NoEntity}]
    BY <2>1 DEF Registered
  <2>3. \A id \in Ids : entities'[id] = IF id = manifest[d] THEN d ELSE entities[id]
    BY <2>1 DEF Registered
  <2>4. \A id \in Ids : entities'[id] \notin todo'
    BY <1>0, <2>3 DEF Registered
  <2>5. \A c \in Dirs \ (unseen' \cup todo') :
          manifest'[c] # NoId => entities'[manifest'[c]] # NoEntity
    <3>. TAKE c \in Dirs \ (unseen' \cup todo')
    <3>1. CASE c = d
      BY <3>1, <1>0, <2>1, <2>3
    <3>2. CASE c # d
      BY <3>2, <1>0, <2>1, <2>3 DEF Registered
    <3>. QED
      BY <3>1, <3>2
  <2>6. \A id \in Ids : entities'[id] \in Dirs \ unseen' => manifest'[entities'[id]] = id
    BY <1>0, <2>1, <2>3 DEF Registered
  <2>7. declared' \in [Dirs -> Ids \cup {NoId}]
    BY <2>1 DEF Registered
  <2>8. \A id \in Ids : entities'[id] \in Dirs => declared'[entities'[id]] = id
    <3>. SUFFICES ASSUME NEW id \in Ids, entities'[id] \in Dirs PROVE declared'[entities'[id]] = id
      OBVIOUS
    <3>1. CASE id = manifest[d]
      BY <3>1, <2>1, <2>3 DEF Registered
    <3>2. CASE id # manifest[d]
      <4>1. entities'[id] = entities[id] /\ entities[id] # d
        BY <1>0, <3>2, <2>3 DEF Registered
      <4>. QED
        BY <2>1, <4>1 DEF Registered
    <3>. QED
      BY <3>1, <3>2
  <2>. QED
    BY <1>0, <2>1, <2>2, <2>4, <2>5, <2>6, <2>7, <2>8 DEF Registered
<1>. QED
  BY <1>1, <1>2, <1>3

LEMMA ReadDirFailsRegistered ==
  ASSUME Registered, ReadDirFails
  PROVE  Registered'
BY DEF Registered, ReadDirFails

LEMMA RestartRegistered ==
  ASSUME Registered, Restart
  PROVE  Registered'
BY EntitiesAssumption DEF Registered, Restart

LEMMA EditRegistered ==
  ASSUME Registered, NEW d \in Dirs, NEW id \in Ids \cup {NoId}, Edit(d, id)
  PROVE  Registered'
<1>1. /\ manifest' = [manifest EXCEPT ![d] = id]
      /\ UNCHANGED <<declared, todo, up, entities>>
      /\ unseen' = IF d \in todo THEN unseen ELSE unseen \cup {d}
  BY DEF Edit
<1>2. \A c \in Dirs \ {d} : manifest'[c] = manifest[c]
  BY <1>1 DEF Registered
<1>3. manifest' \in [Dirs -> Ids \cup {NoId}] /\ unseen' \subseteq Dirs
  BY <1>1 DEF Registered
<1>4. \A c \in Dirs \ (unseen' \cup todo') :
        manifest'[c] # NoId => entities'[manifest'[c]] # NoEntity
  BY <1>1, <1>2 DEF Registered
<1>5. \A i \in Ids : entities'[i] \in Dirs \ unseen' => manifest'[entities'[i]] = i
  BY <1>1, <1>2 DEF Registered
<1>. QED
  BY <1>1, <1>3, <1>4, <1>5 DEF Registered

-----------------------------------------------------------------------------
(* The loads.                                                              *)

LEMMA PrepareOwn ==
  ASSUME IInv, NEW l \in Loads, NEW query \in Queries, NEW e \in Ids, NEW k \in Kinds,
         NEW t \in Texts, Own(Name(e, k), t), Prepare(l, query, e, k, t)
  PROVE  IInv'
<1>1. request' = [request EXCEPT ![l] = Load(query, Name(e, k), t)]
  BY DEF Prepare
<1>2. Load(query, Name(e, k), t) \in LoadRequests
  BY NameIsName DEF Load, LoadRequests
<1>3. /\ Load(query, Name(e, k), t).name = Name(e, k)
      /\ Load(query, Name(e, k), t).text = t
  BY DEF Load
<1>4. OwnRequests'
  <2>1. request' \in [Loads -> LoadRequests \cup {Idle}]
    BY <1>1, <1>2 DEF IInv, OwnRequests
  <2>2. OwnLoads'
    BY <1>1, <1>3 DEF IInv, OwnRequests, OwnLoads, Own
  <2>. QED
    BY <2>1, <2>2 DEF OwnRequests
<1>5. UNCHANGED <<disk, todo, up, entities, store>>
  BY DEF Prepare
<1>. QED
  BY <1>4, <1>5 DEF IInv, Registered, OwnView, Own, disk, store

\* A load goes on with the same name and text, or is over.
LEMMA GoesOnOwn ==
  ASSUME OwnRequests, NEW l \in Loads, request[l] # Idle,
         \/ request' = [request EXCEPT ![l] = Job(request[l].name, request[l].text)]
         \/ request' = [request EXCEPT ![l] = Idle]
  PROVE  OwnRequests'
<1>1. CASE request' = [request EXCEPT ![l] = Job(request[l].name, request[l].text)]
  <2>1. /\ request[l].name \in Names /\ request[l].text \in Texts
        /\ Own(request[l].name, request[l].text)
    BY DEF OwnRequests, OwnLoads, LoadRequests
  <2>2. /\ Job(request[l].name, request[l].text) \in LoadRequests
        /\ Job(request[l].name, request[l].text).name = request[l].name
        /\ Job(request[l].name, request[l].text).text = request[l].text
    BY <2>1 DEF Job, LoadRequests
  <2>3. request' \in [Loads -> LoadRequests \cup {Idle}]
    BY <1>1, <2>2 DEF OwnRequests
  <2>4. OwnLoads'
    BY <1>1, <2>1, <2>2 DEF OwnRequests, OwnLoads, Own
  <2>. QED
    BY <2>3, <2>4 DEF OwnRequests
<1>2. CASE request' = [request EXCEPT ![l] = Idle]
  BY <1>2 DEF OwnRequests, OwnLoads, Own
<1>. QED
  BY <1>1, <1>2

LEMMA EnterOwn ==
  ASSUME IInv, NEW l \in Loads, Enter(l)
  PROVE  IInv'
<1>1. request[l] # Idle
  BY DEF Enter, Idle
<1>2. request[l].name \in Names /\ request[l].text \in Texts
      /\ Own(request[l].name, request[l].text)
  BY <1>1 DEF IInv, OwnRequests, OwnLoads, LoadRequests
<1>3. UNCHANGED store \/ Store!Begin(request[l].name, request[l].text)
  BY DEF Enter
<1>4. OwnView'
  BY <1>2, <1>3, BeginOwn DEF IInv, OwnView, Own, store
<1>5. OwnRequests'
  BY <1>1, GoesOnOwn DEF IInv, Enter
<1>. QED
  BY <1>4, <1>5 DEF IInv, Enter, Registered, disk

LEMMA LeaveIInv ==
  ASSUME IInv, NEW l \in Loads, Leave(l)
  PROVE  IInv'
<1>1. request[l] # Idle
  BY DEF Leave, Idle
<1>2. request[l].name \in Names
  BY <1>1 DEF IInv, OwnRequests, LoadRequests
<1>3. UNCHANGED store \/ Store!Answer(request[l].name) \/ Store!GiveUp(request[l].name)
  BY DEF Leave
<1>4. OwnView'
  BY <1>2, <1>3, LeaveOwn DEF IInv, OwnView, Own, store
<1>5. OwnRequests'
  BY <1>1, GoesOnOwn DEF IInv, Leave
<1>. QED
  BY <1>4, <1>5 DEF IInv, Leave, Registered, disk

LEMMA AbandonOwn ==
  ASSUME IInv, NEW l \in Loads, Abandon(l)
  PROVE  IInv'
<1>1. request[l] # Idle
  BY DEF Abandon, Idle
<1>2. OwnRequests'
  BY <1>1, GoesOnOwn DEF IInv, Abandon
<1>. QED
  BY <1>2 DEF IInv, Abandon, Registered, OwnView, Own, disk, store

-----------------------------------------------------------------------------

LEMMA InitIInv == Init => IInv
<1>. SUFFICES ASSUME Init PROVE IInv
  OBVIOUS
<1>1. Registered
  BY EntitiesAssumption DEF Init, Registered
<1>2. OwnView
  <2>1. {Nothing} \in SUBSET Texts
    BY TextsAreTexts
  <2>2. Store!Settled(Nothing) \in Store!Views
    BY <2>1 DEF Store!Settled, Store!Views
  <2>. QED
    BY <2>2 DEF Init, Store!Init, OwnView, Store!Settled, Own
<1>3. OwnRequests
  BY DEF Init, OwnRequests, OwnLoads
<1>. QED
  BY <1>1, <1>2, <1>3 DEF IInv

LEMMA NextIInv == IInv /\ [Next]_vars => IInv'
<1>. SUFFICES ASSUME IInv, [Next]_vars PROVE IInv'
  OBVIOUS
<1>1. ASSUME NEW d \in Dirs, Skip(d) \/ ReadFails(d) \/ Insert(d) PROVE IInv'
  <2>1. UNCHANGED <<request, store>>
    BY <1>1 DEF Skip, ReadFails, Insert, Read
  <2>. QED
    BY <1>1, <2>1, ReadRegistered DEF IInv, OwnView, OwnRequests, OwnLoads, Own, store
<1>2. ASSUME NEW d \in Dirs, NEW id \in Ids \cup {NoId}, Edit(d, id) PROVE IInv'
  BY <1>2, EditRegistered DEF IInv, Edit, OwnView, OwnRequests, OwnLoads, Own, store
<1>3. CASE ReadDirFails
  BY <1>3, ReadDirFailsRegistered
  DEF IInv, ReadDirFails, OwnView, OwnRequests, OwnLoads, Own, store
<1>4. CASE Serve
  BY <1>4 DEF IInv, Serve, Registered, OwnView, OwnRequests, OwnLoads, Own, store, disk
<1>5. CASE Restart
  <2>1. OwnRequests'
    BY <1>5 DEF Restart, OwnRequests, OwnLoads
  <2>. QED
    BY <1>5, <2>1, RestartRegistered, RestartOwn DEF IInv, Restart
<1>6. ASSUME NEW l \in Loads, NEW query \in Queries, NEW k \in Kinds,
             LoadFromFile(l, query, k)
      PROVE IInv'
  <2>0. query \in Ids \cup {NoId}
    BY EntitiesAssumption
  <2> DEFINE e == Resolve(query)
  <2>1. e \in Ids /\ Trim[e] = e
    BY <2>0, ResolveIsId
  <2>2. DataFile(e, k) \in Texts /\ Own(Name(e, k), DataFile(e, k))
    BY <1>6, <2>1, DataFileIsOwn DEF LoadFromFile, IInv
  <2>3. PICK t \in {DataFile(e, k), Nothing} : Prepare(l, query, e, k, t)
    BY <1>6 DEF LoadFromFile
  <2>4. t \in Texts /\ Own(Name(e, k), t)
    BY <2>2, <2>3, TextsAreTexts DEF Own
  <2>. QED
    BY <2>1, <2>3, <2>4, PrepareOwn
<1>7. ASSUME NEW l \in Loads, NEW query \in Queries, NEW body \in Bodies, NEW k \in Kinds,
             LoadFromWeb(l, query, body, k)
      PROVE IInv'
  <2>1. body \in Ids \cup {NoId} /\ Resolve(body) \in Ids
    BY EntitiesAssumption, ResolveIsId
  <2>. QED
    BY <1>7, <2>1, PostedIsOwn, PrepareOwn DEF LoadFromWeb
<1>8. ASSUME NEW l \in Loads, Enter(l) \/ Leave(l) \/ Abandon(l) PROVE IInv'
  BY <1>8, EnterOwn, LeaveIInv, AbandonOwn
<1>9. ASSUME NEW n \in Names, FirstAccess(n) PROVE IInv'
  BY <1>9, AccessOwn DEF IInv, FirstAccess, Registered, OwnRequests, OwnLoads, Own, disk
<1>10. CASE UNCHANGED vars
  BY <1>10 DEF IInv, vars, Registered, OwnView, OwnRequests, OwnLoads, Own
<1>. QED
  BY <1>1, <1>2, <1>3, <1>4, <1>5, <1>6, <1>7, <1>8, <1>9, <1>10 DEF Next, Request

\* The invariant the others follow from.
THEOREM Invariance == Spec => []IInv
BY InitIInv, NextIInv, PTL DEF Spec

\* Types, for any directories and loads.
THEOREM TypeCorrect == Spec => []TypeOK
<1>1. IInv => TypeOK
  BY DEF IInv, Registered, OwnView, OwnRequests, TypeOK
<1>. QED
  BY <1>1, Invariance, PTL

\* The registry of a server that is up is what its directories declared.
THEOREM FaithfulRegistry == Spec => []RegistryIsDisk
<1>1. IInv => RegistryIsDisk
  BY DEF IInv, Registered, RegistryIsDisk
<1>. QED
  BY <1>1, Invariance, PTL

\* No collection is given the documents of another entity or kind: a file goes to
\* the collection of the very id its directory declared to the scan, however the
\* directories are edited since and whichever of two with one id was read last;
\* a posted text to the entity its body resolves to, whatever ?entity= says.
THEOREM Tenancy == Spec => []OwnTexts
<1>1. IInv => OwnTexts
  BY DEF IInv, OwnView, OwnRequests, OwnLoads, OwnTexts
<1>. QED
  BY <1>1, Invariance, PTL
=============================================================================
