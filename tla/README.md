# Verification of auli-server

auli-server answers questions about state taxes: it embeds a question, finds the
nearest documents of an entity (a state) in a vector store, and has an LLM write
the answer. This directory holds TLA+ modules that model the parts of the server
that are hard to test, the TLC configurations that check them, and proofs that
TLAPS checks. Paths are relative to the repository (`src/` there is `src/src/`
in `PROJECT.json`).

## 1. The system

One process, Tokio and Axum; files and PostgreSQL outlive it. An HTTP handler is an
async function; blocking work (embedding, everything in the vector store) goes to
Tokio's blocking pool through `util::run_blocking`.

| Component | State | Operations | Interacts with |
| --- | --- | --- | --- |
| Vector store `clients/vector_store.rs` | registry of `Arc<RwLock<CollectionData>>`, one JSON file per collection | `get_or_open`, `reset`, `upsert`, `query_scored`, `list` | called on pool threads by ingest, pipeline, handlers |
| Ingest `clients/ingest.rs` | none of its own | `load_collection`: embed, then `reset` and `upsert` in one closure | embedder, store |
| Collection handlers `api/handlers/collections.rs` | none | list, load from file, load from web | entities, blocks, ingest, store |
| Blocks `domain/collections.rs` | none (pure) | `parse_block_lines`, `prepare_documents` | handlers, ingest |
| Embedder and bridge `clients/embedder.rs`, `util.rs` | the model behind a std `Mutex`, poisoned by a panic; the pool's queue | `embed_dense`, `run_blocking` | ingest, pipeline |
| Question pipeline `rag/pipeline.rs`, `handlers/question.rs` | log files | embed, two searches under `try_join!`, LLM, log | embedder, store, LLM |
| LLM client `clients/llm.rs` | none | `chat`: up to three attempts | external API |
| Entities `domain/entities.rs` | registry read once from `./entities` | `load_entities`, `get_entity` | all handlers |
| Authentication `auth/` | `users` table, signed tokens | register, sign in, middleware | PostgreSQL, clock |
| Start-up `lib.rs`, `start.sh`, `start_local.sh` | the port, signals between processes | scripts kill, wait, build and become the server; `run` | the vector store: one process writes its files |
| Router, configuration, health, errors | read-only after start | | |

What is hard in it:

* **Concurrency.** Any number of loads, listings and questions run at once. A
  store method is not atomic: its lookup, file read and registry insert are
  separate (`vector_store.rs:57-65`), `reset` writes its file outside the lock
  (`:83-87`), a load is `reset` followed by `upsert` with the lock free between
  them (`ingest.rs:54-57`). Nothing serialises two loads of one collection.
* **Abandoned work.** A client that hangs up drops the future; the job it handed
  to the pool runs on, next to the client's retry.
* **Failure.** A file system error between any two steps, a process killed while
  `fs::write` has truncated a file and not filled it, a panic in the model.
* **Waiting.** A bounded pool, a mutex held during an embedding, a write guard held
  across file I/O, an LLM call without a timeout.
* **Boundaries.** Blank entries, separators and comments in source texts; ceilings,
  floors and ties in the selection of documents; a time to live at its end.
* **Stale state.** A registry read once over directories that are edited, tokens
  that outlive rows, settings, keys and processes, a clock that is set.
* **Processes.** Start scripts that overlap, each killing what the other started,
  by program name or by whatever command line has its path.

What makes each part correct:

* store: an answered load is what is served and what is on disk; memory and file
  agree when nothing runs; every task ends; a torn file does not turn into a
  silently empty or partial collection;
* requests: a load is answered after its job; a hang-up never leaves a collection
  half loaded; nothing but the LLM makes a request wait forever;
* blocks: no line lost or moved to another document, one non-empty key per
  document, a listing loads back as what it shows;
* authentication: only requests of users verified at the time are admitted, a token
  names the user whose password was given, a registration harms nobody;
* tokens: accepted as long as they were issued for, and hardly longer;
* entities: the registry is what the directories declare, and no entity's documents
  end up in another's collection;
* start-up: one server at a time, and one in the end;
* scoring: the context gets the nearest documents that are wanted, in order.

## 2. Modules

```
Collections <-- VectorStore <-- VectorStoreInv <-- VectorStoreProofs
 (contract)      (the code)      (invariant)  \    (safety, refinement)
      |                                        MCVectorStore
   Entities <-- EntitiesProofs, MCEntities

Requests <-- RequestsProofs, MCRequests      Auth    <-- AuthProofs, MCAuth
Startup  <-- StartupProofs, MCStartup        Tokens  <-- TokensProofs, MCTokens
Blocks   <-- BlocksProofs, MCBlocks          Scoring <-- ScoringProofs, MCScoring
```

Definitions marked *Variant* are what a mistaken change would make of the
definition after them; no specification uses one.

### VectorStore

`vector_store.rs`, driven by the closure of `load_collection` (loaders) and by
single `query_scored`/`list` calls (readers), each a task on a pool thread. A
task stands at (`at`) a step of the method (`call`) it is in:

| Code | Actions |
| --- | --- |
| `get_or_open`: `collections.read()`, hit or miss | `Hit`, `Miss` |
| `load_from_disk` | `ReadFile`, `ReadFileFails` |
| `collections.write().insert(..)` | `Insert` |
| `reset`: `records.clear()` | `Clear` |
| `upsert`: write guard and merge | `Merge` |
| `query_scored`, `list`: read guard, then the copy | `TakeRead`, `Scan` |
| `persist`: truncating open, then the bytes | `OpenFile`, `OpenFileFails`, `WriteReset`, `WriteUpsert`, `WriteFileFails` |
| `?` anywhere | `Fail` (the task ends, nothing is repaired) |
| the process killed and started again | `Crash` |

`registry` is `VectorStore::collections`, `heap` what is behind each `Arc`, `disk`
the files. A document is reduced to the collection and the version of the source
text it came from, a record's id to its number. Two writers of one file are
modelled by what `fs::write` does: a longer text of the other writer leaves its
tail behind (`Overwrite`), the file then does not parse. `promise` is a history
variable: what the loads answered so far promise of a collection, `Suspect` once
a failure or a displaced `Arc` voids it.

A write guard excludes all others (`WriteLocked`), a read guard the writers
(`ReadLocked`). The registry's lock is held for one lookup or insert, so it is part
of `Hit`, `Miss` and `Insert`.

Properties: `TypeOK`; `Kept` (an undisturbed answered load is what is
served and what a restart finds); `Coherent` (overlapping loads leave memory and
file equal, although `reset` writes outside the lock: the upsert that takes the
lock last writes last); `CorruptionSticks` (a torn file is never repaired by the
program, and never taken for an empty one); `TasksFinish` (no task waits for ever
once no more work arrives, no reader once no more loads do). A collection whose
`Arc` was displaced, or on which a load failed, is `Suspect` until the next load:
`Kept` and the contract claim nothing of it, `MemoryIsFile` shows what may go wrong.
That collections do not mix needs no property: every step is keyed by the name,
and `IInv` says so.

`Collections` is the contract the rest of the server may rely on: a load that
runs alone settles the collection, a settled collection stays as it is until the
next load, through reads and restarts; the exception is a first access under way.
`VectorStore` refines it by `View` (`ImplementsCollections`).

### Requests

The futures of the handlers over the pool. A request waits (`phase`) for a job
(`job`), which a free thread takes from the pool's `queue` (`Take`). An embedding
passes the mutex (`Lock`, `Embed`, `EmbedPanics`), a store job is `Reset` and
`Upsert` (the two moments others can tell apart), a search or listing is `Read`. `Disconnect` drops the future and leaves
the job. `LlmResponds`, `LlmUnreachable`, `Retry`, `LlmFails`, `LlmAnswers` are
`llm::chat`. Collections are taken to be open: the race of a first opening is in
`VectorStore`, as are restarts. Properties: `TypeOK` (with the bound of the pool
and one thread in the model), `NoHalfLoads`, `AnsweredIsServed`, `PoisonSticks`,
`OnlyLlmWaits`.

### Blocks

`parse_block_lines`, one action for each way through its loop (`Comment`,
`Delimiter`, `Content`, `EndOfText`), and `prepare_documents` (`Prepare`). A line
is reduced to what its beginning makes of it, and every selection of lines (trim, the
filters of `extract_question` and `clean_servico`) is the members of a sequence at
some positions, in their order (`At`). `PostBack` posts the listing of the result to
load_from_web; an empty document, which only a service can be, is listed as a blank
line. Properties: `TypeOK` (no empty block),
`ParsesIntoEntries` (a definition without a loop), `KeysFit`, `ListingReloads`.

### Auth

`user_register_handler` (`Register`, `Insert`, `Conflict`), `sign_in_handler`
(`SignIn`, `Find`, `FindNone`, `Issue`, `Refuse`) and `auth_middleware` with the
handler behind it (`Present`, `Authorize`, `TurnAway`, `Serve`), cut at the awaits
of the database; `Fail` is a database error or a client that hangs up. The table is
a function from stored emails (`UNIQUE(email)`); lookups compare `LOWER(email)`, so
two rows may match and `fetch_optional` returns either. A request's address is
trimmed, a row's is not: one imported with spaces is never found (`AuthProofs`
covers such addresses, the run has none). Nothing in the code sets
`is_verified`: `Administer` edits any row between any two steps. Properties:
`TypeOK` (registered addresses are normalised), `AdmittedIsVerified` (a token does
not outlive the right to use it), `IssuedToItsUser`, `NotTurnedAway` (no false
refusal of a user without a twin row), `RegistrationOnlyAdds`. Time is in `Tokens`:
here a token may have expired whenever it is presented, then nothing happens.

### Tokens

`encode_jwt` (`Encode`) and `decode_jwt` (`Decodes`, a state function: it changes
nothing), under a clock that advances (`Tick`) and is set (`Adjust`), and processes
that follow each other with other environments (`Restart`): minutes to live that
are unset, zero or negative (`parse_opt`: `Minutes`), a private and a public key
that need not be a pair. Claims carry whole seconds; the default validation of
`jsonwebtoken` allows a leeway of a minute. `exp` is cast to `usize` (`AsUsize`): a
time before 1970 wraps to one that never comes; and minutes beyond what chrono holds
(`MaxMinutes`) panic before there is a token. Properties: `TypeOK`; `NeverTooLong`
and `NeverTooShort`, between which the skew of the clock, the leeway and the cut
to seconds have to balance. `NeverTooLong` exempts the tokens whose `exp` wraps:
they are accepted for ever, which takes a setting of minus half a century.

### Entities

`load_entities` one action for each way through its loop (`Skip`, `ReadFails`,
`Insert`; `ReadDirFails`), in any order of the directories, before the server is up
(`Serve`); `get_entity` (`Resolve`), `EntityConfig::collection` (`Name`) and
`data_file` (`DataFile`); the two load routes up to the await of the embedding
(`LoadFromFile`, `LoadFromWeb`, both ending in `Prepare`), and their store job as
`Collections` describes it (`Enter`, `Leave`): the module composes the handlers
with the contract, of which `VectorStore` is an implementation. `Edit` is the
operator who changes a manifest at any time, `Restart` a restart, `FirstAccess` a
listing or question that opens a collection. A text is reduced to where it comes
from (`Text`): the file of a kind in a directory, tagged with the id that directory
declared to the scan (`declared`, a history variable), or a posted text, tagged with
the id of its body as it was spelled; neither tag says in which collection it goes.
A load keeps the `?entity=` of its request until the embedding is done. Properties:
`TypeOK`; `RegistryIsDisk`; `OwnTexts` (which texts a collection may hold, without
exception for edited directories); and `QueryHonoured`, which does not hold.

### Startup

`start.sh` (`Kill`, one `pkill`), `start_local.sh` (`Look` and `Pkill`, two steps)
and both (`Poll`, `Kill9`, `Build`); `start_all.sh` kills nothing and builds. `Start`
chooses the script of a run. `start.sh` matches the name of the program, `start_local.sh`
any command line with its path, and so the shell in which `start_all.sh` builds, too
(`Targets`, `Builders`). Then come the steps of `run` in `lib.rs` (`Prepared` for configuration, database and model,
`Bind`, `Announce`). `Die` is the SIGTERM that arrives, `Fails` a failing build, a
panic at start-up or a server killed by hand. A shell with a SIGTERM on its way
starts no server. A run of a script and the process it
turns into by `exec` are one identity. Properties: `TypeOK`, `OneServes`,
`AnnouncedHasPort`, `SomeoneServes`.

### Scoring

`query_scored` with `cosine_distance` (`Score`, `Sort`) and `select_by_proximity`
(`Take`, `Break`). Vectors hold integers: floats are integers up to a common factor,
which no cosine depends on. A distance is the exact one cut to a multiple of
1/`Scale`, plus `Rounding`, what `f32` adds for these two vectors: any amount up to
`Error`, and with it a distance may leave [0, 2]. In the instance (25ths) rounding
does so at both ends and makes one tie. The loop over the coordinates is the
recursive function of `Dot`. Properties: `TypeOK`; `SelectionIsNearest`, which
defines the selection without sorting and without a loop; and `UncomparableInBetween`,
which says where vectors of another width and zero vectors end up: behind what points
towards the question and in front of what points away from it.

## 3. Runs

| Run | Module, cfg | Question | Bounds |
| --- | --- | --- | --- |
| `overlap` | MCVectorStore, Overlap | safety of overlapping loads with faults; refinement of Collections; the invariant of the proofs | 1 collection, 2 loaders, 1 reader, 2 versions of up to 2 blocks |
| `finish` | MCVectorStore, Finish | liveness of the locks | as overlap, 1 version, 1 block |
| `orphans` | MCVectorStore, Orphans | finding | as overlap, no faults |
| `memory_is_file` | MCVectorStore, MemFile | finding | no faults, 1 loader, 1 reader |
| `requests` | MCRequests, Requests | safety and liveness of futures and pool | 2 loads, 1 client that asks and lists, 2 threads |
| `blocks` | MCBlocks, Blocks | parser against its definition | all texts of up to 5 lines, 3 kinds |
| `auth` | MCAuth, Auth | safety of authentication | 2 clients, 1 address in 2 spellings, 2 passwords |
| `entities` | MCEntities, Entities | registry and collections of entities | 2 loads, 2 directories, the default entity and another in 2 spellings, 1 kind |
| `query_ignored` | MCEntities, Query | finding | as entities |
| `tokens` | MCTokens, Tokens | life of a token | 1 token, seconds of 2 steps, minutes of 2 seconds, 5 settings, skew of 2 steps, 18 steps, 2 key pairs |
| `startup` | MCStartup, Startup | overlapping start scripts | 3 runs of 3 scripts, 2 polls, every failure |
| `scoring` | MCScoring, Scoring | selection against its definition | up to 3 records of 7 vectors, 2 queries, 4 ceilings, 2 floors, 3 bands |

Why the bounds are enough.

* VectorStore. There are as many `Arcs` as tasks, or more. A task at its insert holds
  none; and if others hold or have registered one each, it is the last to insert: a
  fresh one is always free, and more `Arcs` add no state. Two loaders give every
  overlap of two; three only repeat it, as a loader in the model loads again and
  again. Two blocks let a shorter text follow a longer one. Readers race with loaders
  through the registry and keep them out during a scan; one does both. One collection
  is enough: no step reads or changes what is kept under another name, and the proofs
  are about any number.
* Requests. A load is made once; the client asks and lists again and again, each
  when its earlier jobs are done. Three requests over two threads fill the pool and
  leave a job in the queue, also while both threads hold embeddings.
* Blocks. Five lines hold two entries with a comment, a blank line and content, and
  a service longer than the four lines of its key.
* Auth. One address in two spellings gives the twins, two clients the races;
  addresses that do not match under `LOWER` never meet.
* Entities. Two directories declare the same id, different ones or none. The id with
  a space before it is one a request trims and a manifest does not; a body has it or
  no id, a query string has it trimmed or no id. Kinds never
  meet in the code but in a collection's name; the theorem holds for any number.
* Tokens. The clock may be off by the leeway between two readings, the case where
  acceptance is tightest. The horizon lets the longest-lived token expire with its
  leeway and the full skew. Of the settings, the least has an `exp` that wraps when
  the clock is early, the greatest makes chrono panic. Tokens do not affect each other.
* Startup. Three runs, of any script each, are one that serves, one that starts and
  one that kills both;
  the second poll is where a script gives up while a server is still there.
* Scoring. Three records let one be cut by the ceiling, one by the band and two
  tie; the widest band is twice `Scale`, which is none, as distances end there; one
  ceiling is below the floor, one is zero.

Symmetry is used in safety runs only, on identities no action compares by order.
`CHECK_DEADLOCK FALSE` is set where the system stops: a parsed text (`blocks`), a
selection made (`scoring`), every script run and its server gone (`startup`).

Fairness. A pool thread runs its job to the end and a woken future is polled, so
each task, each future and the pool's queue has weak fairness. No lock is given
strong fairness: std's `RwLock` and `Mutex` promise none. Nothing is assumed of
the LLM (no timeout is set, `llm.rs:44`), of clients, of faults. The liveness
properties are conditional on no new task (`TasksFinish`; for readers, no new load)
or request (`OnlyLlmWaits`) arriving: under an endless stream a waiter may starve. In `Startup`
scripts and start-ups run on and a signal arrives: processes the system schedules.
Nobody has to start a script, and `SomeoneServes` is about behaviours in which
nothing fails and scripts are at some point no longer started.

Findings.

* `orphans` (`NoOrphans`): `reset`'s comment promises that a reload leaves no
  orphan records; two overlapping loads may both reset before either upserts, and
  the longer text leaves its tail behind the shorter.
* `memory_is_file` (`MemoryIsFile`): a query that read the old file before a load
  and inserts into the registry after it puts the old records back in memory;
  the answered load is on disk and not served.
* `query_ignored` (`QueryHonoured`): `readme.md:77` says that all `/v1/{kind}` routes
  take `?entity=`, and lists `load_from_web` among them; it takes the entity from the
  body alone (`collections.rs:98`), so a text posted with `?entity=sc` and no entity
  in its body replaces the collection of the default one. `readme.md:95` names the
  parameter for the GET routes only: the two lines of the readme disagree.

Other disagreements between code and text, described here only:

* A manifest's id is registered as it is written (`entities.rs:107`), a request's is
  trimmed (`entities.rs:115`): an entity with a space around its id is announced as
  available and never found. In `entities` it is declared and nothing is loaded for it.
* `readme.md` calls `JWT_ACCESS_EXPIRATION_MINUTES` the TTL of a token; the default
  validation (`jwt.rs:55`) accepts it for a minute more, the `Leeway` of `NeverTooLong`.
* The comment on `cosine_distance` (`vector_store.rs:139-140`) has vectors that cannot
  be compared "maximally distant so they sink to the bottom" of [0, 2]; they get 1.0,
  its middle. `UncomparableInBetween` says what follows: a document that points away
  from the question is ranked below one that cannot be compared at all.

## 4. Proofs

Each theorem holds for every value of the constants that meets the assumptions
of its module; none has more. The table leaves out that markers differ from the
values they stand next to.

| Module | Assumption | Theorems (property) |
| --- | --- | --- |
| `VectorStoreProofs` | tasks are of one kind, markers differ from each other and from collections | `Invariance` (`IInv`), `TypeCorrect`, `Durability` (`Kept`), `Coherence` (`Coherent`), `Sticking` (`CorruptionSticks`), `Implementation` (`ImplementsCollections`) |
| `RequestsProofs` | a load is no question or listing, the pool has a thread, the searched collections exist | `TypeCorrect`, `WholeLoads` (`NoHalfLoads`), `HonestAnswers` (`AnsweredIsServed`), `Poisoning` (`PoisonSticks`) |
| `EntitiesProofs` | trimming twice is trimming once, the default id is trimmed, query strings and bodies spell ids of the model | `TypeCorrect`, `FaithfulRegistry` (`RegistryIsDisk`), `Tenancy` (`OwnTexts`) |
| `AuthProofs` | none | `TypeCorrect`, `Admission` (`AdmittedIsVerified`), `Issuance` (`IssuedToItsUser`), `Service` (`NotTurnedAway`), `Registration` (`RegistrationOnlyAdds`) |
| `TokensProofs` | units are positive, settings are integers or unset, a `usize` holds every time of the model | `TypeCorrect`, `BoundedLife` (`NeverTooLong`), `FullLife` (`NeverTooShort`) |
| `BlocksProofs` | the kinds are the four of the code | `Invariance` (`IInv`), `TypeCorrect`, `Parsing` (`ParsesIntoEntries`), `Keys` (`KeysFit`), `Reloading` (`ListingReloads`) |
| `ScoringProofs` | vectors hold integers, rounding is within `Error` | `Invariance` (`IInv`), `TypeCorrect`, `Selection` (`SelectionIsNearest`), `Uncomparable` (`UncomparableInBetween`) |
| `StartupProofs` | none | `TypeCorrect`, `SingleServer` (`OneServes`), `HonestAnnouncement` (`AnnouncedHasPort`) |

All follow one argument: an inductive invariant `IInv`, one lemma for each action
(or group of actions of one effect) that preserves it, and the property from the
invariant; action properties and the refinement follow from it step by step.

**VectorStore.** `IInv` (`VectorStoreInv`, checked by TLC in `overlap`)
is the conjunction of the type invariant with: where a task stands determines its
locals (`Places`); a name's file, records and Arc hold documents of that name only
and no Arc serves two names (`Own`, `Apart`); a task at work has its collection
registered (`Opened`); while nobody has registered a collection, what a first access
has read of it is still the file (`ReadIsFile`); tasks that work on a promised
collection share one Arc (`OneArc`); one upsert at a time holds the guard
(`OneUpsert`); a `Loading` promise has exactly one loader (`Alone`) whose progress
determines memory and file (`Progress`); and the last of several loaders, at the
write of its upsert, finds the file as it truncated it (`LastWrite`).

**Requests.** The queue holds each queued job once and nothing else (`Queued`):
without it a thread could take a job twice and undo a finished store job. No thread
is in the model once the Mutex is poisoned (`Threads`): that is why one panic stops
every later embedding, those that wait at the Mutex included. A load's store job
exists only after its embedding succeeded, and an Ok only after its store job did
(`Places`). Between reset and upsert, and after it, a load's collection is as it
left it or another load has touched it (`Undisturbed`).

**Entities.** While the scan goes on, no directory still to be read is in the
registry, and each one read and not edited since is, under its own id
(`Registered`). An entity is registered under what its directory declared to the
scan, until the next start clears both: a file read later is tagged with the id of
the collection it goes to. What a load carries, and what a collection may come to
hold, is the collection's own (`OwnRequests`, `OwnView`), from the origins of texts,
not from where they went. That holds over
overlapping loads because the contract of the store says what a collection can hold
then.

**Auth.** What a request knows of its user (`Held`): the row a sign-in has read was
verified, with its password, while the request was there (`Issues`); so was the user
behind the middleware (`Admits`); and a request in order ever since it came has read
the row it asked for (`Ordered`).

**Tokens.** Every token's `exp` is the cast of a time within the skew of its issue plus
its minutes, cut to a second; that time is one of the model, so the cast changes it
only if it is negative. **Startup.** A server past the bind has the port, and who announced
itself is past it; what a script kills is servers, and shells that build.

**Blocks.** `ParsesIntoEntries` says nothing of a text half read. `IInv` does
(`InLoop`): before the first delimiter the loop has collected and pushed nothing;
after it, it is in the entry of some start `s`, no later start is before its
position, `current` is the lines of content from `s` to there (`Body`) and `blocks`
the non-empty entries before `s` (`Whole`). A delimiter turns `Body` into the entry
and pushes it (`PushIsNextBlock`); at the end of the text `Whole` and the last push
are all entries. It rests on lemmas about `At`: positions can be counted off in one
way (`NthIsCount`), so a later position appends a member (`AtNext`) and later
positions follow (`AtJoin`). `KeysFit` then is about `Prepare` alone: `Push` lets no
empty block through, which is why a question that falls back to its block is never
empty. For `ListingReloads` the invariant is `ReloadInv`: what a load stores is
`Storable` (of services, no blank line, separator or link; of other kinds, one
delimiter, the first line, no comment, and a last line with content), and the second
text is the listing of storable documents. In such a listing (`Laid`: which line of
which document is where, by induction on the documents) the starts are the listed
separators of services and the first lines of other documents (`PastedStarts`), and
around a block there are only blank lines and comments (`PastedEntry`).

**Scoring.** The sorted list holds at place `p` the document with `p - 1` nearer ones,
of equals the earlier loaded (`InOrder`). Ranks differ, so they fill `0..n-1`
(`RanksAreFilled`) and the list is every record once; the documents in front of one
inside the band are inside it too (`AdmitsPrefix`), so stopping at the first one
outside loses none. All of this holds whatever the distances are, so rounding does
not touch it. That a distance leaves `0..2*Scale` by rounding only, which the type
invariant says, is the inequality of Cauchy and Schwarz for sums of any length
(`CauchySchwarz`), from which the cosine is at most 1 (`CosineBounds`).

What the recursive functions `Dot` and `Listing` compute is proved for inputs of any
length although no induction theorem with an operator parameter can be used here: a
set of numbers that holds 0 and every successor is `Nat`, because `<` leaves no least
number out (`NatSetInduction`, from `WFMin`). Such a function is first shown to exist
(`SumsExist`, `LayoutExists`), which is what makes its equation hold.

Every invariant and every action property of the passing runs, and the refinement, is a
theorem. Only model-checked is liveness (`TasksFinish`, `OnlyLlmWaits`,
`SomeoneServes`), which is out of the prover's reach.

## 5. Not modelled

* The log of questions (`pipeline.rs:148`): its failure is an outcome of
  `LlmAnswers`; that lines of two questions do not mix is left to files opened in
  append mode.
* The wording of responses, logs and prompts; `get_client_ip`, `redact_database_url`
  and the error types, which are conversions to text.
* CORS, the health route and the wiring of the routes: no state.
* The RSA key pair generator: the output of a cryptographic library.
* Tables for refresh, verification and reset tokens: no code uses them.
* `start_all.sh` beyond its server, synchronisation and tunnel scripts: deployment.
* In `cosine_distance`, overflow of a sum and NaN, which would need embeddings that
  are no unit vectors or hold one; in `select_by_proximity`, the rounding of the
  subtraction a band is compared with.

## 6. Plan

1. A composition of `Requests` with the contract `Collections` in place of its own
   `content`, as `Entities` has it.
2. The log of questions, once anything reads it.
