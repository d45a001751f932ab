------------------------------ MODULE Requests ------------------------------
(***************************************************************************)
(* The requests of the server: loads of a collection (load_from_file,      *)
(* load_from_web and load_collection behind them), listings and questions  *)
(* (question_handler, exec_all_question, llm::chat), as futures that hand  *)
(* their blocking work to Tokio's pool and wait for it.                    *)
(*                                                                         *)
(* Work handed to the pool outlives the future that waits for it: a client *)
(* that hangs up drops the future, never the job.  All embedding goes      *)
(* through one model behind a std Mutex, which a panic poisons.  How one   *)
(* store job runs is the subject of VectorStore; here a load shows only    *)
(* the two moments other requests can tell apart, reset and upsert.        *)
(***************************************************************************)
EXTENDS Integers, Sequences, FiniteSets

(* The collections are taken to be open already (the race of their first   *)
(* opening is in VectorStore) and the process to run on.                   *)

CONSTANTS
  Loads,      \* the load requests of a behaviour, each made once
  Lists,      \* clients that list a collection, again and again
  Questions,  \* clients that ask, again and again
  Kinds,      \* collections of the entity: services, faqs, ...
  PoolSize,   \* threads of the blocking pool
  Old         \* the text a collection held at the start

Requests == Loads \cup Lists \cup Questions

\* try_join! searches these two.
Searched == {"services", "faqs"}

\* A question is sent to the LLM at most this often.
MaxTries == 3

\* (Definitions marked Variant are what a mistaken change to the code would
\* make of the definition that follows them; the specification uses none.)

ASSUME RequestsAssumption ==
  /\ Searched \subseteq Kinds
  /\ PoolSize \in Nat \ {0}
  /\ Old \notin Loads
  /\ Loads \cap (Lists \cup Questions) = {}

VARIABLES
  phase,     \* where the future of a request waits
  kind,      \* the collection a load is about
  full,      \* whether the text of a load has any block
  tries,     \* how often a question was sent to the LLM
  outcome,   \* how a load ended for its client
  job,       \* the blocking jobs of a request, by what they do
  queue,     \* jobs no thread of the pool has taken yet
  poisoned,  \* the Mutex of the embedder is poisoned
  content    \* the texts a collection serves documents of

futures == <<phase, kind, full, tries, outcome>>
vars == <<phase, kind, full, tries, outcome, job, queue, poisoned, content>>

Parts == {"embed", "store", "list"} \cup Searched
Phases == {"idle", "embed", "store", "list", "search", "llm", "body", "pause",
           "ended"}
Ended == {"ok", "failed"}
OnThread == {"lock", "model", "reset", "running"}
NoJobs == [p \in Parts |-> "none"]

Busy == { rp \in Requests \X Parts : job[rp[1]][rp[2]] \in OnThread }
Works(r) == \E p \in Parts : job[r][p] \in OnThread \cup {"queued"}

\* run_blocking: spawn_blocking appends the jobs of r to the pool's queue.
Submit(r, jobs, parts) ==
  /\ job' = [job EXCEPT ![r] = [p \in Parts |->
               IF \E i \in DOMAIN parts : parts[i] = p THEN "queued" ELSE jobs[p]]]
  /\ queue' = queue \o [i \in DOMAIN parts |-> <<r, parts[i]>>]

\* The thread is done with a job; the result waits for the future.
Complete(r, p, result) == job' = [job EXCEPT ![r][p] = result]

\* The future ends: the client has its response, or hung up.
Finish(r, how) ==
  /\ phase' = [phase EXCEPT ![r] = IF r \in Loads THEN "ended" ELSE "idle"]
  /\ outcome' = [s \in Loads |-> IF s = r THEN how ELSE outcome[s]]

-----------------------------------------------------------------------------

Init ==
  /\ phase = [r \in Requests |-> "idle"]
  /\ kind \in [Loads -> Kinds]
  /\ full \in [Loads -> BOOLEAN]
  /\ tries = [r \in Questions |-> 0]
  /\ outcome = [r \in Loads |-> "none"]
  /\ job = [r \in Requests |-> NoJobs]
  /\ queue = <<>>
  /\ poisoned = FALSE
  /\ content = [k \in Kinds |-> {Old}]

(* Requests arrive.  A client asks again only when its last jobs are done: *)
(* a bound of the model, the server has no such limit.                     *)

\* resolve fails, or get_entity does: an answer at once, and no work.
Refuse(r) ==
  /\ phase[r] = "idle" /\ ~Works(r)
  /\ Finish(r, "error")
  /\ UNCHANGED <<kind, full, tries, job, queue, poisoned, content>>

\* The handler prepares the blocks, none if the file could not be read, and
\* load_collection submits the embedding of their keys.
StartLoad(r) ==
  /\ r \in Loads /\ phase[r] = "idle"
  /\ phase' = [phase EXCEPT ![r] = "embed"]
  /\ Submit(r, NoJobs, <<"embed">>)
  /\ UNCHANGED <<kind, full, tries, outcome, poisoned, content>>

StartQuestion(r) ==
  /\ r \in Questions /\ phase[r] = "idle" /\ ~Works(r)
  /\ phase' = [phase EXCEPT ![r] = "embed"]
  /\ tries' = [tries EXCEPT ![r] = 0]
  /\ Submit(r, NoJobs, <<"embed">>)
  /\ UNCHANGED <<kind, full, outcome, poisoned, content>>

StartList(r) ==
  /\ r \in Lists /\ phase[r] = "idle" /\ ~Works(r)
  /\ phase' = [phase EXCEPT ![r] = "list"]
  /\ Submit(r, NoJobs, <<"list">>)
  /\ UNCHANGED <<kind, full, tries, outcome, poisoned, content>>

(* The threads of the blocking pool.                                       *)

\* A free thread takes the oldest job.
Take ==
  /\ queue # <<>>
  /\ Cardinality(Busy) < PoolSize
  /\ LET r == Head(queue)[1]
         p == Head(queue)[2]
     IN  Complete(r, p, IF p = "embed" THEN "lock" ELSE "running")
  /\ queue' = Tail(queue)
  /\ UNCHANGED <<futures, poisoned, content>>

\* Variant: a poisoned Mutex is entered all the same.
LockIgnoringPoison(r) ==
  /\ job[r]["embed"] = "lock"
  /\ \A s \in Requests : job[s]["embed"] # "model"
  /\ Complete(r, "embed", "model")
  /\ UNCHANGED <<futures, queue, poisoned, content>>

\* Variant: the model is behind no Mutex.
LockNothing(r) ==
  /\ job[r]["embed"] = "lock"
  /\ Complete(r, "embed", IF poisoned THEN "failed" ELSE "model")
  /\ UNCHANGED <<futures, queue, poisoned, content>>

\* embed_dense: the Mutex is free when no thread is in the model.  A poisoned
\* one is given up again with an error.
Lock(r) ==
  /\ job[r]["embed"] = "lock"
  /\ \A s \in Requests : job[s]["embed"] # "model"
  /\ Complete(r, "embed", IF poisoned THEN "failed" ELSE "model")
  /\ UNCHANGED <<futures, queue, poisoned, content>>

\* The model returns vectors or an error; the guard is dropped.
Embed(r) ==
  /\ job[r]["embed"] = "model"
  /\ \E result \in Ended : Complete(r, "embed", result)
  /\ UNCHANGED <<futures, queue, poisoned, content>>

\* The model panics: dropping the guard poisons the Mutex, the job's error is
\* a JoinError.
EmbedPanics(r) ==
  /\ job[r]["embed"] = "model"
  /\ Complete(r, "embed", "failed")
  /\ poisoned' = TRUE
  /\ UNCHANGED <<futures, queue, content>>

\* The store job of a load: reset, then upsert.  Either may fail, before or
\* after it changed what is served.  Records another load put there since the
\* reset stay, as far as this text has no record of the same id.
Reset(r) ==
  /\ job[r]["store"] = "running"
  /\ content' = [content EXCEPT ![kind[r]] = {}]
  /\ \E result \in {"reset", "failed"} : Complete(r, "store", result)
  /\ UNCHANGED <<futures, queue, poisoned>>

ResetFails(r) ==
  /\ job[r]["store"] = "running"
  /\ Complete(r, "store", "failed")
  /\ UNCHANGED <<futures, queue, poisoned, content>>

Upsert(r) ==
  /\ job[r]["store"] = "reset"
  /\ \E kept \in SUBSET content[kind[r]] :
       /\ ~full[r] => kept = content[kind[r]]
       /\ content' = [content EXCEPT ![kind[r]] =
                        kept \cup (IF full[r] THEN {r} ELSE {})]
  /\ \E result \in Ended : Complete(r, "store", result)
  /\ UNCHANGED <<futures, queue, poisoned>>

UpsertFails(r) ==
  /\ job[r]["store"] = "reset"
  /\ Complete(r, "store", "failed")
  /\ UNCHANGED <<futures, queue, poisoned, content>>

\* query_scored for a question, list for a listing.
Read(r, p) ==
  /\ p \in Searched \cup {"list"} /\ job[r][p] = "running"
  /\ \E result \in Ended : Complete(r, p, result)
  /\ UNCHANGED <<futures, queue, poisoned, content>>

(* The futures resume.                                                     *)

\* The embedding arrived: a load submits its store job, a question both of
\* its searches; without vectors either ends with the error.
Embedded(r) ==
  /\ phase[r] = "embed" /\ job[r]["embed"] = "ok"
  /\ phase' = [phase EXCEPT ![r] = IF r \in Loads THEN "store" ELSE "search"]
  /\ Submit(r, job[r], IF r \in Loads THEN <<"store">> ELSE <<"services", "faqs">>)
  /\ UNCHANGED <<kind, full, tries, outcome, poisoned, content>>

NotEmbedded(r) ==
  /\ phase[r] = "embed" /\ job[r]["embed"] = "failed"
  /\ Finish(r, "error")
  /\ UNCHANGED <<kind, full, tries, job, queue, poisoned, content>>

\* Variant: the response does not wait for the job.
AnswerEarly(r) ==
  /\ phase[r] \in {"store", "list"}
  /\ Finish(r, "ok")
  /\ UNCHANGED <<kind, full, tries, job, queue, poisoned, content>>

\* The store or list job ended; its result is the response.
Answer(r) ==
  /\ phase[r] \in {"store", "list"} /\ job[r][phase[r]] \in Ended
  /\ Finish(r, IF job[r][phase[r]] = "ok" THEN "ok" ELSE "error")
  /\ UNCHANGED <<kind, full, tries, job, queue, poisoned, content>>

\* try_join!: both searches succeeded, and the question goes to the LLM.
Found(r) ==
  /\ phase[r] = "search"
  /\ \A p \in Searched : job[r][p] = "ok"
  /\ phase' = [phase EXCEPT ![r] = "llm"]
  /\ tries' = [tries EXCEPT ![r] = 1]
  /\ UNCHANGED <<kind, full, outcome, job, queue, poisoned, content>>

\* try_join!: the first error ends the question, whatever the other search does.
NotFound(r) ==
  /\ phase[r] = "search"
  /\ \E p \in Searched : job[r][p] = "failed"
  /\ Finish(r, "error")
  /\ UNCHANGED <<kind, full, tries, job, queue, poisoned, content>>

(* The LLM, for which no timeout is set.                                   *)

\* send() yields the head of a response.
LlmResponds(r) ==
  /\ phase[r] = "llm"
  /\ phase' = [phase EXCEPT ![r] = "body"]
  /\ UNCHANGED <<kind, full, tries, outcome, job, queue, poisoned, content>>

\* A connect or timeout error: 500 ms later send once more.
LlmUnreachable(r) ==
  /\ phase[r] = "llm" /\ tries[r] < MaxTries
  /\ phase' = [phase EXCEPT ![r] = "pause"]
  /\ UNCHANGED <<kind, full, tries, outcome, job, queue, poisoned, content>>

\* Variant: the attempts are not counted.
RetryForever(r) ==
  /\ phase[r] = "pause"
  /\ phase' = [phase EXCEPT ![r] = "llm"]
  /\ UNCHANGED <<kind, full, tries, outcome, job, queue, poisoned, content>>

Retry(r) ==
  /\ phase[r] = "pause"
  /\ phase' = [phase EXCEPT ![r] = "llm"]
  /\ tries' = [tries EXCEPT ![r] = @ + 1]
  /\ UNCHANGED <<kind, full, outcome, job, queue, poisoned, content>>

\* The last attempt, or any other error of send().
LlmFails(r) ==
  /\ phase[r] = "llm"
  /\ Finish(r, "error")
  /\ UNCHANGED <<kind, full, tries, job, queue, poisoned, content>>

\* The body is read, parsed and logged.  An error message of the API is an
\* answer; a body that cannot be read or parsed, or a log file that cannot be
\* written, is an error and the answer is lost.
LlmAnswers(r) ==
  /\ phase[r] = "body"
  /\ \E how \in {"ok", "error"} : Finish(r, how)
  /\ UNCHANGED <<kind, full, tries, job, queue, poisoned, content>>

\* Variant: dropping the future aborts the job it waits for.
DisconnectAborting(r) ==
  /\ phase[r] \notin {"idle", "ended"}
  /\ Finish(r, "dropped")
  /\ job' = [job EXCEPT ![r] =
               [p \in Parts |-> IF @[p] \in OnThread THEN "none" ELSE @[p]]]
  /\ UNCHANGED <<kind, full, tries, queue, poisoned, content>>

\* The client hangs up and the future is dropped where it waits.
Disconnect(r) ==
  /\ phase[r] \notin {"idle", "ended"}
  /\ Finish(r, "dropped")
  /\ UNCHANGED <<kind, full, tries, job, queue, poisoned, content>>

Arrive(r) == Refuse(r) \/ StartLoad(r) \/ StartQuestion(r) \/ StartList(r)

Pool(r) ==
  \/ Lock(r) \/ Embed(r) \/ EmbedPanics(r)
  \/ Reset(r) \/ ResetFails(r) \/ Upsert(r) \/ UpsertFails(r)
  \/ \E p \in Parts : Read(r, p)

Resume(r) ==
  \/ Embedded(r) \/ NotEmbedded(r) \/ Answer(r) \/ Found(r) \/ NotFound(r)
  \/ Retry(r)

Llm(r) == LlmResponds(r) \/ LlmUnreachable(r) \/ LlmFails(r) \/ LlmAnswers(r)

Next ==
  \/ Take
  \/ \E r \in Requests : \/ Arrive(r) \/ Pool(r) \/ Resume(r) \/ Llm(r)
                         \/ Disconnect(r)

Spec == Init /\ [][Next]_vars

\* Threads take and run jobs, and futures whose job ended are polled.  A call
\* of the model returns or panics.  Nothing is assumed of the LLM, of clients,
\* or of the order in which a Mutex admits its waiters.
FairSpec ==
  /\ Spec
  /\ WF_vars(Take)
  /\ \A r \in Requests : WF_vars(Pool(r)) /\ WF_vars(Resume(r))

-----------------------------------------------------------------------------
(* Properties.                                                             *)

\* Types; a job is in the queue once if it is queued and not at all otherwise;
\* the pool never runs more jobs than it has threads; at most one is in the
\* model.
TypeOK ==
  /\ phase \in [Requests -> Phases]
  /\ kind \in [Loads -> Kinds] /\ full \in [Loads -> BOOLEAN]
  /\ tries \in [Questions -> 0..MaxTries]
  /\ outcome \in [Loads -> {"none", "ok", "error", "dropped"}]
  /\ job \in [Requests -> [Parts -> {"none", "queued"} \cup OnThread \cup Ended]]
  /\ queue \in Seq(Requests \X Parts)
  /\ \A r \in Requests, p \in Parts :
       Cardinality({ i \in DOMAIN queue : queue[i] = <<r, p>> })
         = IF job[r][p] = "queued" THEN 1 ELSE 0
  /\ Cardinality(Busy) <= PoolSize
  /\ Cardinality({ r \in Requests : job[r]["embed"] = "model" }) <= 1
  /\ poisoned \in BOOLEAN
  /\ content \in [Kinds -> SUBSET (Loads \cup {Old})]

LoadsOf(k) == { r \in Loads : kind[r] = k }
Touched(r) == job[r]["store"] \in {"reset", "failed", "ok"}

\* A client that hangs up, whenever it does, never leaves a collection between
\* reset and upsert; and a load whose embedding failed never got to reset.  A
\* collection is found empty only while a store job runs, after one failed, or
\* after the load of a text without blocks.
NoHalfLoads ==
  \A k \in Kinds :
    /\ content[k] = {} =>
         \E r \in LoadsOf(k) : \/ job[r]["store"] \in {"reset", "failed"}
                               \/ job[r]["store"] = "ok" /\ ~full[r]
    /\ Old \notin content[k] =>
         \E r \in LoadsOf(k) : job[r]["embed"] = "ok" /\ Touched(r)

\* A load answered Ok is served, unless another load of the collection has
\* touched it.
AnsweredIsServed ==
  \A r \in Loads : outcome[r] = "ok" /\ full[r] =>
    \/ content[kind[r]] = {r}
    \/ \E s \in LoadsOf(kind[r]) \ {r} : Touched(s)

\* One panic in the model ends embedding for the rest of the process: no load
\* and no question gets vectors any more (the thread that panicked was the only
\* one in the model).
PoisonSticks ==
  [][poisoned => /\ poisoned'
                 /\ \A r \in Requests :
                      job'[r]["embed"] = "ok" => job[r]["embed"] = "ok"]_vars

\* Once no new request arrives, every future ends or waits for the LLM, the
\* one call without a bound, and the pool runs dry, abandoned jobs included,
\* even with a single thread: no job waits for another job of the pool.
NoMoreRequests ==
  <>[][\A r \in Requests : phase[r] = "idle" => phase'[r] \in {"idle", "ended"}]_vars
OnlyLlmWaits ==
  NoMoreRequests =>
    <>[](/\ queue = <<>> /\ Busy = {}
         /\ \A r \in Requests : phase[r] \in {"idle", "ended", "llm", "body"})
=============================================================================
