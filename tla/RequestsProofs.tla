--------------------------- MODULE RequestsProofs ---------------------------
(***************************************************************************)
(* Proofs about Requests, for any requests, collections and size of the    *)
(* pool.                                                                   *)
(***************************************************************************)
EXTENDS Requests, FiniteSetTheorems, SequenceTheorems, TLAPS

Jobs == {"none", "queued"} \cup OnThread \cup Ended

Types ==
  /\ phase \in [Requests -> Phases]
  /\ kind \in [Loads -> Kinds] /\ full \in [Loads -> BOOLEAN]
  /\ tries \in [Questions -> 0..MaxTries]
  /\ outcome \in [Loads -> {"none", "ok", "error", "dropped"}]
  /\ job \in [Requests -> [Parts -> Jobs]]
  /\ queue \in Seq(Requests \X Parts)
  /\ poisoned \in BOOLEAN
  /\ content \in [Kinds -> SUBSET (Loads \cup {Old})]

\* A job is in the queue, once, exactly when it is queued.
Once == \A i, j \in DOMAIN queue : queue[i] = queue[j] => i = j
Waits(r, p) == \E i \in DOMAIN queue : queue[i] = <<r, p>>
Queued ==
  /\ Once
  /\ \A r \in Requests, p \in Parts : job[r][p] = "queued" <=> Waits(r, p)

\* The pool is as large as it may be; one thread is in the model, none once the
\* Mutex is poisoned.
Threads ==
  /\ IsFiniteSet(Busy) /\ Cardinality(Busy) <= PoolSize
  /\ \A r, s \in Requests :
       job[r]["embed"] = "model" /\ job[s]["embed"] = "model" => r = s
  /\ poisoned => \A r \in Requests : job[r]["embed"] # "model"

\* Where a future waits, and what jobs it can have.
Place(r) ==
  /\ phase[r] \in {"search", "llm", "body", "pause"} => r \in Questions
  /\ phase[r] = "pause" => tries[r] < MaxTries
  /\ phase[r] = "embed" =>
       r \in Loads \cup Questions /\ \A p \in Parts \ {"embed"} : job[r][p] = "none"
  /\ phase[r] = "store" => r \in Loads
  /\ job[r]["store"] # "none" => r \in Loads
  /\ r \in Loads =>
       /\ phase[r] \in {"idle", "embed", "store", "ended"}
       /\ phase[r] = "idle" => \A p \in Parts : job[r][p] = "none"
       /\ job[r]["store"] # "none" => job[r]["embed"] = "ok"
       /\ outcome[r] = "ok" => job[r]["store"] = "ok"
Places == \A r \in Requests : Place(r)

\* What a load between its reset and its upsert, and after it, finds served,
\* unless another has touched the collection.
OtherTouched(r) == \E s \in LoadsOf(kind[r]) \ {r} : Touched(s)
Undisturbed(r) ==
  /\ job[r]["store"] = "reset" => content[kind[r]] = {} \/ OtherTouched(r)
  /\ job[r]["store"] = "ok" /\ full[r] => content[kind[r]] = {r} \/ OtherTouched(r)
Served == NoHalfLoads /\ \A r \in Loads : Undisturbed(r)

IInv == Types /\ Queued /\ Threads /\ Places /\ Served

-----------------------------------------------------------------------------
(* Jobs: what Submit and Complete make of them.                            *)

LEMMA PartsAreParts ==
  /\ {"embed", "store", "list", "services", "faqs"} = Parts
  /\ \A s : s \in Loads => s \in Requests
  /\ \A r \in Loads : r \notin Lists /\ r \notin Questions
BY RequestsAssumption DEF Parts, Searched, Requests

LEMMA Completed ==
  ASSUME Types, NEW r \in Requests, NEW p \in Parts, NEW result \in Jobs,
         Complete(r, p, result)
  PROVE  /\ job' \in [Requests -> [Parts -> Jobs]]
         /\ job'[r][p] = result
         /\ \A s \in Requests, q \in Parts : s # r \/ q # p => job'[s][q] = job[s][q]
<1>1. job' = [job EXCEPT ![r] = [job[r] EXCEPT ![p] = result]]
  BY DEF Complete
<1>2. job[r] \in [Parts -> Jobs]
  BY DEF Types
<1>3. [job[r] EXCEPT ![p] = result] \in [Parts -> Jobs]
  BY <1>2
<1>. QED
  BY <1>1, <1>2, <1>3 DEF Types

LEMMA Submitted ==
  ASSUME Types, NEW r \in Requests, NEW jobs \in [Parts -> Jobs], NEW parts \in Seq(Parts),
         Submit(r, jobs, parts)
  PROVE  /\ job' \in [Requests -> [Parts -> Jobs]]
         /\ \A i \in DOMAIN parts : job'[r][parts[i]] = "queued"
         /\ \A q \in Parts : (\A i \in DOMAIN parts : parts[i] # q) => job'[r][q] = jobs[q]
         /\ \A s \in Requests \ {r} : job'[s] = job[s]
         /\ queue' \in Seq(Requests \X Parts)
<1>. DEFINE new == [p \in Parts |->
                      IF \E i \in DOMAIN parts : parts[i] = p THEN "queued" ELSE jobs[p]]
            added == [i \in DOMAIN parts |-> <<r, parts[i]>>]
<1>1. new \in [Parts -> Jobs]
  BY DEF Jobs
<1>2. job' = [job EXCEPT ![r] = new] /\ queue' = queue \o added
  BY DEF Submit
<1>3. job'[r] = new /\ job' \in [Requests -> [Parts -> Jobs]]
  BY <1>1, <1>2 DEF Types
<1>4. added \in Seq(Requests \X Parts)
  <2>1. \A i \in DOMAIN parts : parts[i] \in Parts
    OBVIOUS
  <2>2. added \in [1..Len(parts) -> Requests \X Parts] /\ Len(parts) \in Nat
    BY <2>1
  <2>. HIDE DEF added
  <2>. QED
    BY <2>2
<1>5. queue' \in Seq(Requests \X Parts)
  <2>. HIDE DEF added
  <2>. QED
    BY <1>2, <1>4 DEF Types
<1>6. \A i \in DOMAIN parts : job'[r][parts[i]] = "queued"
  BY <1>3
<1>7. \A q \in Parts : (\A i \in DOMAIN parts : parts[i] # q) => job'[r][q] = jobs[q]
  BY <1>3
<1>8. \A s \in Requests \ {r} : job'[s] = job[s]
  BY <1>2 DEF Types
<1>. QED
  BY <1>3, <1>5, <1>6, <1>7, <1>8

-----------------------------------------------------------------------------
(* The queue.                                                              *)

LEMMA CompletedQueue ==
  ASSUME Types, Queued, NEW r \in Requests, NEW p \in Parts, NEW result \in Jobs,
         Complete(r, p, result), job[r][p] # "queued", result # "queued", queue' = queue
  PROVE  Queued'
<1>1. Once'
  BY DEF Queued, Once
<1>2. \A s \in Requests, q \in Parts : Waits(s, q)' <=> Waits(s, q)
  BY DEF Waits
<1>. QED
  BY <1>1, <1>2, Completed DEF Queued

LEMMA SubmittedQueue ==
  ASSUME Types, Queued, NEW r \in Requests, NEW jobs \in [Parts -> Jobs],
         NEW parts \in Seq(Parts), Submit(r, jobs, parts),
         \A i, j \in DOMAIN parts : parts[i] = parts[j] => i = j,
         \A i \in DOMAIN parts : job[r][parts[i]] # "queued",
         \A q \in Parts : (\A i \in DOMAIN parts : parts[i] # q) =>
           (jobs[q] = "queued" <=> job[r][q] = "queued")
  PROVE  Queued'
<1>. DEFINE m == Len(queue)
            n == Len(parts)
            added == [i \in DOMAIN parts |-> <<r, parts[i]>>]
<1>1. m \in Nat /\ n \in Nat /\ DOMAIN parts = 1..n /\ DOMAIN queue = 1..m
  BY DEF Types
<1>2. /\ DOMAIN queue' = 1..(m + n)
      /\ \A i \in 1..(m + n) :
           queue'[i] = IF i <= m THEN queue[i] ELSE <<r, parts[i - m]>>
  <2>1. queue' = queue \o added
    BY DEF Submit
  <2>2. added \in Seq(Requests \X Parts) /\ Len(added) = n
    <3>1. added \in [1..n -> Requests \X Parts]
      BY <1>1
    <3>. HIDE DEF added
    <3>. QED
      BY <1>1, <3>1
  <2>3. \A i \in 1..n : added[i] = <<r, parts[i]>>
    BY <1>1
  <2>. HIDE DEF added
  <2>4. /\ queue' \in Seq(Requests \X Parts) /\ Len(queue') = m + n
        /\ \A i \in 1..(m + n) : queue'[i] = IF i <= m THEN queue[i] ELSE added[i - m]
    <3>. DEFINE S == Requests \X Parts
    <3>1. queue \in Seq(S) /\ added \in Seq(S)
      BY <2>2 DEF Types
    <3>. HIDE DEF S, m, n
    <3>2. /\ queue \o added \in Seq(S) /\ Len(queue \o added) = Len(queue) + Len(added)
          /\ \A i \in 1..(Len(queue) + Len(added)) :
               (queue \o added)[i] =
                 IF i <= Len(queue) THEN queue[i] ELSE added[i - Len(queue)]
      BY <3>1, ConcatProperties
    <3>. QED
      BY <2>1, <2>2, <3>2 DEF m, S
  <2>5. \A i \in 1..(m + n) : ~(i <= m) => i - m \in 1..n
    BY <1>1
  <2>. QED
    BY <2>3, <2>4, <2>5
<1>. HIDE DEF m, n
<1>3. \A i \in 1..m : i \in 1..(m + n) /\ queue'[i] = queue[i]
  BY <1>1, <1>2
<1>4. \A j \in 1..n : m + j \in 1..(m + n) /\ queue'[m + j] = <<r, parts[j]>>
  <2>1. \A j \in 1..n : m + j \in 1..(m + n) /\ ~(m + j <= m) /\ (m + j) - m = j
    BY <1>1
  <2>. QED
    BY <1>2, <2>1
<1>5. \A i \in 1..(m + n) : i \in 1..m \/ (i - m \in 1..n /\ i = m + (i - m))
  BY <1>1
<1>6. /\ \A i, j \in 1..m : queue[i] = queue[j] => i = j
      /\ \A s \in Requests, q \in Parts : job[s][q] = "queued" <=> Waits(s, q)
      /\ \A s, q : Waits(s, q) <=> \E i \in 1..m : queue[i] = <<s, q>>
  BY <1>1 DEF Queued, Once, Waits
<1>7. \A j \in 1..n : parts[j] \in Parts /\ job[r][parts[j]] # "queued"
  BY <1>1
<1>8. ASSUME NEW i \in 1..(m + n), NEW j \in 1..(m + n), queue'[i] = queue'[j]
      PROVE  i = j
  <2>1. CASE i \in 1..m /\ j \in 1..m
    BY <1>3, <1>6, <1>8, <2>1
  <2>2. CASE i - m \in 1..n /\ j - m \in 1..n
    <3>1. parts[i - m] = parts[j - m]
      BY <1>4, <1>5, <1>8, <2>2, <1>2, <1>1
    <3>2. i - m = j - m
      BY <1>1, <2>2, <3>1
    <3>. QED
      BY <1>1, <3>2
  <2>3. ASSUME NEW k \in 1..m, NEW l \in 1..n PROVE queue'[k] # queue'[m + l]
    BY <1>3, <1>4, <1>6, <1>7
  <2>. QED
    BY <1>5, <1>8, <2>1, <2>2, <2>3
<1>9. ASSUME NEW s \in Requests, NEW q \in Parts
      PROVE  job'[s][q] = "queued" <=> Waits(s, q)'
  <2>1. Waits(s, q)' <=>
          job[s][q] = "queued" \/ (s = r /\ \E j \in 1..n : parts[j] = q)
    <3>1. ASSUME NEW i \in 1..(m + n), queue'[i] = <<s, q>>
          PROVE  job[s][q] = "queued" \/ (s = r /\ \E j \in 1..n : parts[j] = q)
      <4>1. CASE i \in 1..m
        BY <1>3, <1>6, <3>1, <4>1
      <4>2. CASE i - m \in 1..n /\ i = m + (i - m)
        <5>1. queue'[i] = <<r, parts[i - m]>>
          BY <1>4, <4>2
        <5>. QED
          BY <3>1, <4>2, <5>1
      <4>. QED
        BY <1>5, <4>1, <4>2
    <3>2. job[s][q] = "queued" => \E i \in 1..(m + n) : queue'[i] = <<s, q>>
      <4>1. job[s][q] = "queued" => \E i \in 1..m : queue[i] = <<s, q>>
        BY <1>6
      <4>. QED
        BY <1>3, <4>1
    <3>3. (s = r /\ \E j \in 1..n : parts[j] = q) =>
            \E i \in 1..(m + n) : queue'[i] = <<s, q>>
      BY <1>4
    <3>. QED
      BY <3>1, <3>2, <3>3, <1>2 DEF Waits
  <2>2. CASE s # r
    BY <1>6, <2>1, <2>2, Submitted
  <2>3. CASE s = r /\ \E j \in 1..n : parts[j] = q
    BY <1>1, <2>1, <2>3, Submitted
  <2>4. CASE s = r /\ \A j \in 1..n : parts[j] # q
    <3>1. \A i \in DOMAIN parts : parts[i] # q
      BY <1>1, <2>4
    <3>2. job'[r][q] = jobs[q]
      BY <3>1, Submitted
    <3>3. jobs[q] = "queued" <=> job[r][q] = "queued"
      BY <3>1
    <3>. QED
      BY <1>6, <2>1, <2>4, <3>2, <3>3
  <2>. QED
    BY <2>2, <2>3, <2>4
<1>10. Once'
  BY <1>2, <1>8 DEF Once
<1>. QED
  BY <1>9, <1>10 DEF Queued

\* What Take takes was queued.
LEMMA Taken ==
  ASSUME Types, Queued, Take
  PROVE  \E r \in Requests, p \in Parts :
           /\ job[r][p] = "queued"
           /\ Complete(r, p, IF p = "embed" THEN "lock" ELSE "running")
           /\ Queued'
<1>. DEFINE r == Head(queue)[1]
            p == Head(queue)[2]
            m == Len(queue)
            result == IF p = "embed" THEN "lock" ELSE "running"
<1>1. m \in Nat \ {0} /\ DOMAIN queue = 1..m /\ Head(queue) = queue[1] /\ queue[1] \in Requests \X Parts
  BY DEF Take, Types
<1>2. r \in Requests /\ p \in Parts /\ queue[1] = <<r, p>>
  BY <1>1
<1>3. job[r][p] = "queued"
  BY <1>1, <1>2 DEF Queued, Waits
<1>4. Complete(r, p, result) /\ queue' = Tail(queue)
  BY DEF Take
<1>5. /\ DOMAIN queue' = 1..(m - 1)
      /\ \A i \in 1..(m - 1) : queue'[i] = queue[i + 1]
  BY <1>1, <1>4 DEF Types
<1>6. result \in Jobs /\ result # "queued"
  BY DEF Jobs, OnThread
<1>. HIDE DEF r, p, result
<1>7. \A i, j \in 1..(m - 1) : queue'[i] = queue'[j] => i = j
  BY <1>1, <1>5 DEF Queued, Once
<1>8. ASSUME NEW s \in Requests, NEW q \in Parts
      PROVE  job'[s][q] = "queued" <=> Waits(s, q)'
  <2>1. CASE s = r /\ q = p
    <3>1. job'[s][q] # "queued"
      BY <2>1, <1>2, <1>4, <1>6, Completed
    <3>2. \A i \in 1..(m - 1) : queue[i + 1] # <<r, p>>
      <4>. SUFFICES ASSUME NEW i \in 1..(m - 1), queue[i + 1] = queue[1] PROVE FALSE
        BY <1>2
      <4>. QED
        BY <1>1 DEF Queued, Once
    <3>. QED
      BY <2>1, <3>1, <3>2, <1>5 DEF Waits
  <2>2. CASE s # r \/ q # p
    <3>1. job'[s][q] = job[s][q]
      BY <2>2, <1>2, <1>4, <1>6, Completed
    <3>2. (\E i \in 1..m : queue[i] = <<s, q>>) => \E i \in 1..(m - 1) : queue[i + 1] = <<s, q>>
      <4>. SUFFICES ASSUME NEW i \in 1..m, queue[i] = <<s, q>>
           PROVE  \E j \in 1..(m - 1) : queue[j + 1] = <<s, q>>
        OBVIOUS
      <4>1. i # 1
        BY <2>2, <1>2
      <4>2. i - 1 \in 1..(m - 1) /\ (i - 1) + 1 = i
        BY <4>1, <1>1
      <4>. QED
        BY <4>2
    <3>3. \A i \in 1..(m - 1) : i + 1 \in 1..m
      BY <1>1
    <3>4. job[s][q] = "queued" <=> Waits(s, q)
      BY DEF Queued
    <3>5. Waits(s, q)' <=> \E i \in 1..(m - 1) : queue[i + 1] = <<s, q>>
      BY <1>5 DEF Waits
    <3>6. Waits(s, q) <=> \E i \in 1..m : queue[i] = <<s, q>>
      BY <1>1 DEF Waits
    <3>. QED
      BY <3>1, <3>2, <3>3, <3>4, <3>5, <3>6
  <2>. QED
    BY <2>1, <2>2
<1>9. Queued'
  BY <1>5, <1>7, <1>8 DEF Queued, Once
<1>. QED
  BY <1>2, <1>3, <1>4, <1>9 DEF result

-----------------------------------------------------------------------------
(* The threads.                                                            *)

\* Fewer jobs run, none of them newly in the model.
LEMMA FewerThreads ==
  ASSUME Threads, Busy' \subseteq Busy, poisoned' = poisoned,
         \A r \in Requests : job'[r]["embed"] = "model" => job[r]["embed"] = "model"
  PROVE  Threads'
<1>1. IsFiniteSet(Busy') /\ Cardinality(Busy') <= Cardinality(Busy)
  BY FS_Subset DEF Threads
<1>2. Cardinality(Busy') \in Nat /\ Cardinality(Busy) \in Nat
  BY <1>1, FS_CardinalityType DEF Threads
<1>3. IsFiniteSet(Busy') /\ Cardinality(Busy') <= PoolSize
  BY <1>1, <1>2, RequestsAssumption DEF Threads
<1>. QED
  BY <1>3 DEF Threads

LEMMA CompletedBusy ==
  ASSUME Types, NEW r \in Requests, NEW p \in Parts, NEW result \in Jobs,
         Complete(r, p, result), job[r][p] \in OnThread
  PROVE  Busy' \subseteq Busy
<1>. SUFFICES ASSUME NEW s \in Requests, NEW q \in Parts, job'[s][q] \in OnThread
     PROVE  job[s][q] \in OnThread
  BY DEF Busy
<1>. QED
  BY Completed

LEMMA SubmittedThreads ==
  ASSUME Types, Threads, NEW r \in Requests, NEW jobs \in [Parts -> Jobs],
         NEW parts \in Seq(Parts), Submit(r, jobs, parts),
         \A q \in Parts : jobs[q] \in OnThread => jobs[q] = job[r][q],
         poisoned' = poisoned
  PROVE  Threads'
<1>1. ASSUME NEW q \in Parts, job'[r][q] \in OnThread PROVE job[r][q] = job'[r][q]
  <2>1. \A i \in DOMAIN parts : parts[i] # q
    <3>1. job'[r][q] # "queued"
      BY <1>1 DEF OnThread
    <3>. QED
      BY <3>1, Submitted
  <2>2. job'[r][q] = jobs[q]
    BY <2>1, Submitted
  <2>. QED
    BY <1>1, <2>2
<1>2. \A s \in Requests, q \in Parts : job'[s][q] \in OnThread => job[s][q] = job'[s][q]
  BY <1>1, Submitted
<1>3. Busy' \subseteq Busy
  BY <1>2 DEF Busy
<1>4. \A s \in Requests : job'[s]["embed"] = "model" => job[s]["embed"] = "model"
  BY <1>2, PartsAreParts DEF OnThread
<1>. QED
  BY <1>3, <1>4, FewerThreads

-----------------------------------------------------------------------------
(* The futures.                                                            *)

LEMMA PlaceStays ==
  ASSUME Types, NEW r \in Requests, Place(r), phase'[r] = phase[r], job'[r] = job[r],
         r \in Questions => tries'[r] = tries[r],
         r \in Loads => outcome'[r] = outcome[r]
  PROVE  Place(r)'
BY DEF Place

LEMMA CompletedPlaces ==
  ASSUME Types, Places, NEW r \in Requests, NEW p \in Parts, NEW result \in Jobs,
         Complete(r, p, result), job[r][p] \notin {"none", "ok"}, UNCHANGED futures
  PROVE  Places'
<1>1. ASSUME NEW s \in Requests, s # r PROVE Place(s)'
  <2>1. job'[s] = job[s]
    BY <1>1 DEF Complete, Types
  <2>. QED
    BY <2>1, PlaceStays DEF Places, futures
<1>2. Place(r)'
  <2>1. Place(r)
    BY DEF Places
  <2>2. phase[r] = "embed" => p = "embed" /\ \A q \in Parts \ {"embed"} : job'[r][q] = "none"
    BY <2>1, Completed DEF Place
  <2>3. ASSUME r \in Loads
        PROVE  /\ phase[r] # "idle"
               /\ job'[r]["store"] # "none" => job'[r]["embed"] = "ok"
               /\ outcome[r] = "ok" => job'[r]["store"] = "ok"
    <3>1. phase[r] # "idle"
      BY <2>1, <2>3 DEF Place
    <3>2. CASE p = "embed"
      <4>1. job[r]["store"] = "none"
        BY <2>1, <2>3, <3>2 DEF Place
      <4>2. job'[r]["store"] = job[r]["store"]
        BY <3>2, Completed, PartsAreParts
      <4>. QED
        BY <2>1, <2>3, <3>1, <4>1, <4>2 DEF Place
    <3>3. CASE p = "store"
      <4>1. job[r]["embed"] = "ok" /\ outcome[r] # "ok"
        BY <2>1, <2>3, <3>3 DEF Place
      <4>2. job'[r]["embed"] = job[r]["embed"]
        BY <3>3, Completed, PartsAreParts
      <4>. QED
        BY <3>1, <4>1, <4>2
    <3>4. CASE p \notin {"embed", "store"}
      <4>1. job'[r]["embed"] = job[r]["embed"] /\ job'[r]["store"] = job[r]["store"]
        BY <3>4, Completed, PartsAreParts
      <4>. QED
        BY <2>1, <2>3, <3>1, <4>1 DEF Place
    <3>. QED
      BY <3>2, <3>3, <3>4
  <2>4. job'[r]["store"] # "none" => r \in Loads
    BY <2>1, Completed, PartsAreParts DEF Place
  <2>. QED
    BY <2>1, <2>2, <2>3, <2>4 DEF Place, futures
<1>. QED
  BY <1>1, <1>2 DEF Places

-----------------------------------------------------------------------------
(* What is served.                                                         *)

\* No collection changes, and no load gets to or away from its reset.
LEMMA ServedStays ==
  ASSUME Types, Served, UNCHANGED <<kind, full, content>>,
         \A s \in Loads : \/ job'[s]["store"] = job[s]["store"]
                          \/ /\ ~Touched(s)
                             /\ job'[s]["store"] \notin {"reset", "failed", "ok"},
         \A s \in Loads : job[s]["embed"] = "ok" => job'[s]["embed"] = "ok"
  PROVE  Served'
<1>1. \A s \in Loads : Touched(s) => Touched(s)' /\ job'[s]["store"] = job[s]["store"]
  BY DEF Touched
<1>2. \A s \in Loads :
        job'[s]["store"] \in {"reset", "failed", "ok"} => job'[s]["store"] = job[s]["store"]
  OBVIOUS
<1>3. NoHalfLoads'
  BY <1>1, <1>2 DEF Served, NoHalfLoads, LoadsOf, Touched
<1>4. \A r \in Loads : OtherTouched(r) => OtherTouched(r)'
  BY <1>1 DEF OtherTouched, LoadsOf
<1>5. \A r \in Loads : Undisturbed(r)'
  BY <1>2, <1>4 DEF Served, Undisturbed
<1>. QED
  BY <1>3, <1>5 DEF Served

\* A step of the store job of r changes only what its collection serves.
LEMMA StoreServed ==
  ASSUME IInv, NEW r \in Loads, NEW result \in {"reset", "failed", "ok"},
         Complete(r, "store", result), job[r]["store"] \in {"running", "reset"},
         UNCHANGED <<kind, full>>,
         \A k \in Kinds \ {kind[r]} : content'[k] = content[k],
         content'[kind[r]] = {} => result # "ok" \/ ~full[r],
         result = "reset" => content'[kind[r]] = {},
         result = "ok" /\ full[r] => content'[kind[r]] = {r} \/ OtherTouched(r)
  PROVE  Served'
<1>1. r \in Requests /\ result \in Jobs /\ {"store", "embed"} \subseteq Parts
  BY PartsAreParts DEF Jobs, OnThread, Ended
<1>2. /\ job'[r]["store"] = result /\ job'[r]["embed"] = job[r]["embed"]
      /\ \A s \in Loads \ {r} : /\ job'[s]["store"] = job[s]["store"]
                                /\ job'[s]["embed"] = job[s]["embed"]
  BY <1>1, Completed, PartsAreParts DEF IInv
<1>3. job[r]["embed"] = "ok"
  BY <1>1 DEF IInv, Places, Place
<1>4. Touched(r)' /\ \A s \in Loads : Touched(s) => Touched(s)'
  BY <1>2 DEF Touched
<1>5. NoHalfLoads'
  <2>. SUFFICES ASSUME NEW k \in Kinds
       PROVE  /\ content'[k] = {} =>
                   \E s \in LoadsOf(k)' : \/ job'[s]["store"] \in {"reset", "failed"}
                                          \/ job'[s]["store"] = "ok" /\ ~full'[s]
              /\ Old \notin content'[k] =>
                   \E s \in LoadsOf(k)' : job'[s]["embed"] = "ok" /\ Touched(s)'
    BY DEF NoHalfLoads
  <2>1. CASE k = kind[r]
    <3>1. r \in LoadsOf(k)'
      BY <2>1 DEF LoadsOf
    <3>. QED
      BY <2>1, <3>1, <1>2, <1>3, <1>4
  <2>2. CASE k # kind[r]
    <3>1. LoadsOf(k)' = LoadsOf(k) /\ r \notin LoadsOf(k) /\ LoadsOf(k) \subseteq Loads
      BY <2>2 DEF LoadsOf
    <3>2. content'[k] = content[k]
      BY <2>2
    <3>. QED
      BY <3>1, <3>2, <1>2, <1>4 DEF IInv, Served, NoHalfLoads
  <2>. QED
    BY <2>1, <2>2
<1>6. ASSUME NEW s \in Loads PROVE Undisturbed(s)'
  <2>1. OtherTouched(s) => OtherTouched(s)'
    BY <1>4 DEF OtherTouched, LoadsOf
  <2>2. CASE s = r
    BY <2>1, <2>2, <1>2 DEF Undisturbed
  <2>3. CASE s # r /\ kind[s] = kind[r]
    <3>1. r \in (LoadsOf(kind[s]) \ {s})'
      BY <2>3 DEF LoadsOf
    <3>2. OtherTouched(s)'
      BY <3>1, <1>4 DEF OtherTouched
    <3>. QED
      BY <3>2 DEF Undisturbed
  <2>4. CASE s # r /\ kind[s] # kind[r]
    <3>1. content'[kind[s]] = content[kind[s]]
      BY <2>4 DEF IInv, Types
    <3>. QED
      BY <2>1, <2>4, <3>1, <1>2 DEF IInv, Served, Undisturbed
  <2>. QED
    BY <2>2, <2>3, <2>4
<1>. QED
  BY <1>5, <1>6 DEF Served

-----------------------------------------------------------------------------
(* Steps of futures.                                                       *)

\* A future moves; no job does.
LEMMA FutureStep ==
  ASSUME IInv, NEW r \in Requests, NEW ph \in Phases, phase' = [phase EXCEPT ![r] = ph],
         UNCHANGED <<kind, full, job, queue, poisoned, content>>,
         tries' \in [Questions -> 0..MaxTries],
         \A s \in Questions \ {r} : tries'[s] = tries[s],
         outcome' \in [Loads -> {"none", "ok", "error", "dropped"}],
         \A s \in Loads \ {r} : outcome'[s] = outcome[s],
         Place(r)'
  PROVE  IInv'
<1>1. Types'
  BY DEF IInv, Types
<1>2. Queued'
  BY DEF IInv, Queued, Once, Waits
<1>3. Busy' = Busy
  BY DEF Busy
<1>4. Threads'
  BY <1>3, FewerThreads DEF IInv
<1>5. ASSUME NEW s \in Requests, s # r PROVE Place(s)'
  <2>1. phase'[s] = phase[s]
    BY <1>5 DEF IInv, Types
  <2>. QED
    BY <1>5, <2>1, PlaceStays DEF IInv, Places
<1>6. Served'
  BY ServedStays DEF IInv
<1>. QED
  BY <1>1, <1>2, <1>4, <1>5, <1>6 DEF IInv, Places

LEMMA FinishStep ==
  ASSUME IInv, NEW r \in Requests, NEW how \in {"ok", "error", "dropped"}, Finish(r, how),
         r \in Loads /\ how = "ok" => job[r]["store"] = "ok",
         UNCHANGED <<kind, full, tries, job, queue, poisoned, content>>
  PROVE  IInv'
<1>. DEFINE ph == IF r \in Loads THEN "ended" ELSE "idle"
<1>1. ph \in Phases /\ phase' = [phase EXCEPT ![r] = ph]
  BY DEF Phases, Finish
<1>2. outcome' \in [Loads -> {"none", "ok", "error", "dropped"}]
      /\ \A s \in Loads : outcome'[s] = IF s = r THEN how ELSE outcome[s]
  BY DEF Finish, IInv, Types
<1>3. phase'[r] = ph
  BY <1>1 DEF IInv, Types
<1>4. Place(r)'
  BY <1>2, <1>3 DEF IInv, Places, Place
<1>. QED
  BY <1>1, <1>2, <1>4, FutureStep DEF IInv, Types

LEMMA ResumeStep ==
  ASSUME IInv, NEW r \in Requests,
         Found(r) \/ LlmResponds(r) \/ LlmUnreachable(r) \/ Retry(r)
  PROVE  IInv'
<1>1. r \in Questions /\ r \notin Loads
  BY PartsAreParts DEF Found, LlmResponds, LlmUnreachable, Retry, IInv, Places, Place
<1>2. PICK ph \in {"llm", "body", "pause"} : phase' = [phase EXCEPT ![r] = ph]
  BY DEF Found, LlmResponds, LlmUnreachable, Retry
<1>3. ph \in Phases /\ phase'[r] = ph
  BY <1>2 DEF Phases, IInv, Types
<1>4. /\ tries' \in [Questions -> 0..MaxTries]
      /\ \A s \in Questions \ {r} : tries'[s] = tries[s]
  <2>1. CASE Retry(r)
    <3>1. tries[r] \in 0..MaxTries /\ tries[r] < MaxTries
      BY <1>1, <2>1 DEF Retry, IInv, Types, Places, Place
    <3>2. tries[r] + 1 \in 0..MaxTries
      BY <3>1 DEF MaxTries
    <3>. QED
      BY <2>1, <3>2 DEF Retry, IInv, Types
  <2>2. CASE ~Retry(r)
    <3>1. 1 \in 0..MaxTries
      BY DEF MaxTries
    <3>. QED
      BY <2>2, <3>1 DEF Found, LlmResponds, LlmUnreachable, IInv, Types
  <2>. QED
    BY <2>1, <2>2
<1>5. ph = "pause" => tries'[r] < MaxTries
  <2>1. ASSUME ph = "pause" PROVE LlmUnreachable(r)
    BY <2>1, <1>3 DEF Found, LlmResponds, Retry, IInv, Types
  <2>. QED
    BY <2>1 DEF LlmUnreachable
<1>6. UNCHANGED <<kind, full, outcome, job, queue, poisoned, content>>
  BY DEF Found, LlmResponds, LlmUnreachable, Retry
<1>7. Place(r)'
  BY <1>1, <1>3, <1>5, <1>6 DEF IInv, Places, Place
<1>. QED
  BY <1>2, <1>3, <1>4, <1>6, <1>7, FutureStep DEF IInv, Types

\* A request that ends.
LEMMA EndStep ==
  ASSUME IInv, NEW r \in Requests,
         \/ Refuse(r) \/ NotEmbedded(r) \/ Answer(r) \/ NotFound(r)
         \/ LlmFails(r) \/ LlmAnswers(r) \/ Disconnect(r)
  PROVE  IInv'
<1>1. CASE Refuse(r) \/ NotEmbedded(r) \/ NotFound(r) \/ LlmFails(r)
  BY <1>1, FinishStep DEF Refuse, NotEmbedded, NotFound, LlmFails
<1>2. CASE Disconnect(r)
  BY <1>2, FinishStep DEF Disconnect
<1>3. CASE LlmAnswers(r)
  <2>1. r \notin Loads
    BY <1>3, PartsAreParts DEF LlmAnswers, IInv, Places, Place
  <2>. QED
    BY <1>3, <2>1, FinishStep DEF LlmAnswers
<1>4. CASE Answer(r)
  <2>1. r \in Loads => phase[r] = "store"
    BY <1>4 DEF Answer, IInv, Places, Place
  <2>. QED
    BY <1>4, <2>1, FinishStep DEF Answer
<1>. QED
  BY <1>1, <1>2, <1>3, <1>4

-----------------------------------------------------------------------------
(* Steps that submit jobs.                                                 *)

LEMMA SubmitStep ==
  ASSUME IInv, NEW r \in Requests, NEW jobs \in [Parts -> Jobs], NEW parts \in Seq(Parts),
         Submit(r, jobs, parts), NEW ph \in Phases, phase' = [phase EXCEPT ![r] = ph],
         \A i, j \in DOMAIN parts : parts[i] = parts[j] => i = j,
         \A i \in DOMAIN parts : job[r][parts[i]] \in Jobs \ ({"queued"} \cup OnThread),
         \A q \in Parts : jobs[q] \in {"queued"} \cup OnThread \/ job[r][q] \in {"queued"}
           => jobs[q] = job[r][q],
         UNCHANGED <<kind, full, outcome, poisoned, content>>,
         tries' \in [Questions -> 0..MaxTries],
         \A s \in Questions \ {r} : tries'[s] = tries[s],
         Place(r)',
         r \in Loads =>
           /\ job'[r]["store"] = job[r]["store"]
              \/ (~Touched(r) /\ job'[r]["store"] \notin {"reset", "failed", "ok"})
           /\ job[r]["embed"] = "ok" => job'[r]["embed"] = "ok"
  PROVE  IInv'
<1>1. Types'
  BY Submitted DEF IInv, Types
<1>2. Queued'
  BY SubmittedQueue DEF IInv
<1>3. Threads'
  BY SubmittedThreads DEF IInv
<1>4. \A s \in Requests \ {r} : job'[s] = job[s]
  BY Submitted DEF IInv
<1>5. ASSUME NEW s \in Requests, s # r PROVE Place(s)'
  <2>1. phase'[s] = phase[s]
    BY <1>5 DEF IInv, Types
  <2>. QED
    BY <1>4, <1>5, <2>1, PlaceStays DEF IInv, Places
<1>6. Served'
  BY <1>4, PartsAreParts, ServedStays DEF IInv
<1>. QED
  BY <1>1, <1>2, <1>3, <1>5, <1>6 DEF IInv, Places

LEMMA OnePart ==
  ASSUME NEW p \in Parts
  PROVE  /\ <<p>> \in Seq(Parts) /\ DOMAIN <<p>> = {1} /\ <<p>>[1] = p
         /\ NoJobs \in [Parts -> Jobs] /\ \A q \in Parts : NoJobs[q] = "none"
BY DEF NoJobs, Jobs

\* A request that arrives.
LEMMA StartStep ==
  ASSUME IInv, NEW r \in Requests, StartLoad(r) \/ StartQuestion(r) \/ StartList(r)
  PROVE  IInv'
<1>. DEFINE p == IF StartList(r) THEN "list" ELSE "embed"
<1>1. \A q \in Parts : job[r][q] \notin {"queued"} \cup OnThread
  <2>1. CASE StartLoad(r)
    BY <2>1 DEF StartLoad, OnThread, IInv, Places, Place
  <2>2. CASE StartQuestion(r) \/ StartList(r)
    BY <2>2 DEF StartQuestion, StartList, Works
  <2>. QED
    BY <2>1, <2>2
<1>2. p \in Parts /\ p \in Phases /\ p # "store"
  BY PartsAreParts DEF Phases
<1>3. phase' = [phase EXCEPT ![r] = p] /\ Submit(r, NoJobs, <<p>>)
  <2>1. CASE StartList(r)
    BY <2>1 DEF StartList
  <2>2. CASE ~StartList(r)
    BY <2>2 DEF StartLoad, StartQuestion
  <2>. QED
    BY <2>1, <2>2
<1>4. /\ p = "list" => r \notin Loads
      /\ p = "embed" => r \in Loads \cup Questions
      /\ r \in Loads => \A q \in Parts : job[r][q] = "none"
      /\ r \in Loads => outcome[r] # "ok"
  <2>1. CASE StartList(r)
    BY <2>1, PartsAreParts DEF StartList
  <2>2. CASE StartQuestion(r) /\ ~StartList(r)
    BY <2>2, PartsAreParts DEF StartQuestion
  <2>3. CASE StartLoad(r) /\ ~StartList(r)
    BY <2>3, PartsAreParts DEF StartLoad, IInv, Places, Place
  <2>. QED
    BY <2>1, <2>2, <2>3
<1>5. /\ UNCHANGED <<kind, full, outcome, poisoned, content>>
      /\ tries' \in [Questions -> 0..MaxTries]
      /\ \A s \in Questions \ {r} : tries'[s] = tries[s]
  <2>1. 0 \in 0..MaxTries
    BY DEF MaxTries
  <2>. QED
    BY <2>1 DEF StartLoad, StartQuestion, StartList, IInv, Types
<1>. HIDE DEF p
<1>6. phase'[r] = p
  BY <1>2, <1>3 DEF IInv, Types
<1>7. job'[r][p] = "queued" /\ \A q \in Parts \ {p} : job'[r][q] = "none"
  <2>. DEFINE parts == <<p>>
  <2>1. /\ parts \in Seq(Parts) /\ 1 \in DOMAIN parts /\ parts[1] = p
        /\ \A q \in Parts \ {p} : \A i \in DOMAIN parts : parts[i] # q
        /\ NoJobs \in [Parts -> Jobs]
    BY <1>2, OnePart
  <2>2. Types /\ Submit(r, NoJobs, parts)
    BY <1>3 DEF IInv
  <2>. HIDE DEF parts
  <2>3. /\ job'[r][parts[1]] = "queued"
        /\ \A q \in Parts \ {p} : job'[r][q] = NoJobs[q]
    BY <2>1, <2>2, Submitted
  <2>. QED
    BY <1>2, <2>1, <2>3, OnePart
<1>8. p \in {"list", "embed"}
  BY DEF p
<1>9. Place(r)'
  BY <1>4, <1>5, <1>6, <1>7, <1>8, PartsAreParts DEF Place
<1>10. r \in Loads => job'[r]["store"] = job[r]["store"] /\ job[r]["embed"] # "ok"
  BY <1>2, <1>4, <1>7, PartsAreParts
<1>11. \A i \in DOMAIN <<p>> : job[r][<<p>>[i]] \in Jobs \ ({"queued"} \cup OnThread)
  BY <1>1, <1>2, OnePart DEF IInv, Types
<1>12. \A q \in Parts : NoJobs[q] \in {"queued"} \cup OnThread \/ job[r][q] \in {"queued"}
         => NoJobs[q] = job[r][q]
  BY <1>1, <1>2, OnePart DEF OnThread
<1>13. \A i, j \in DOMAIN <<p>> : <<p>>[i] = <<p>>[j] => i = j
  BY <1>2, OnePart
<1>14. NoJobs \in [Parts -> Jobs] /\ <<p>> \in Seq(Parts)
  BY <1>2, OnePart
<1>. QED
  BY <1>2, <1>3, <1>5, <1>9, <1>10, <1>11, <1>12, <1>13, <1>14, SubmitStep

\* An embedding arrived.
LEMMA EmbeddedStep ==
  ASSUME IInv, NEW r \in Requests, Embedded(r)
  PROVE  IInv'
<1>. DEFINE parts == IF r \in Loads THEN <<"store">> ELSE <<"services", "faqs">>
            ph == IF r \in Loads THEN "store" ELSE "search"
<1>1. /\ Submit(r, job[r], parts) /\ phase' = [phase EXCEPT ![r] = ph]
      /\ job[r]["embed"] = "ok" /\ phase[r] = "embed"
      /\ UNCHANGED <<kind, full, tries, outcome, poisoned, content>>
  BY DEF Embedded
<1>2. /\ parts \in Seq(Parts) /\ ph \in Phases
      /\ \A i \in DOMAIN parts : parts[i] \in Parts \ {"embed"}
      /\ \A i, j \in DOMAIN parts : parts[i] = parts[j] => i = j
      /\ r \in Loads => 1 \in DOMAIN parts /\ parts[1] = "store"
      /\ r \notin Loads => \A i \in DOMAIN parts : parts[i] # "store"
      /\ \A i \in DOMAIN parts : parts[i] # "embed"
  BY PartsAreParts DEF Phases
<1>3. /\ r \in Loads \cup Questions /\ \A q \in Parts \ {"embed"} : job[r][q] = "none"
      /\ r \in Loads => outcome[r] # "ok"
  BY <1>1, PartsAreParts DEF IInv, Places, Place
<1>. HIDE DEF parts
<1>4. job[r] \in [Parts -> Jobs]
  BY DEF IInv, Types
<1>5. /\ job'[r]["embed"] = "ok"
      /\ r \in Loads => job'[r]["store"] = "queued"
      /\ r \notin Loads => job'[r]["store"] = "none"
  <2>1. job'[r]["embed"] = job[r]["embed"]
    BY <1>1, <1>2, <1>4, Submitted, PartsAreParts DEF IInv
  <2>2. r \in Loads => job'[r]["store"] = "queued"
    BY <1>1, <1>2, <1>4, Submitted, PartsAreParts DEF IInv
  <2>3. r \notin Loads => job'[r]["store"] = job[r]["store"]
    BY <1>1, <1>2, <1>4, Submitted, PartsAreParts DEF IInv
  <2>. QED
    BY <1>1, <1>3, <2>1, <2>2, <2>3, PartsAreParts
<1>6. phase'[r] = ph
  BY <1>1 DEF IInv, Types
<1>7. Place(r)'
  BY <1>1, <1>3, <1>5, <1>6 DEF Place
<1>8. \A i \in DOMAIN parts : job[r][parts[i]] \in Jobs \ ({"queued"} \cup OnThread)
  BY <1>2, <1>3 DEF Jobs, OnThread
<1>9. r \in Loads => ~Touched(r) /\ job'[r]["store"] \notin {"reset", "failed", "ok"}
  BY <1>3, <1>5, PartsAreParts DEF Touched
<1>. QED
  BY <1>1, <1>2, <1>4, <1>5, <1>7, <1>8, <1>9, SubmitStep DEF IInv, Types

-----------------------------------------------------------------------------
(* Steps of the pool.                                                      *)

\* A job gets on, or ends; the futures and the queue stay as they are.
LEMMA JobStep ==
  ASSUME IInv, NEW r \in Requests, NEW p \in Parts, NEW result \in Jobs \ {"queued"},
         Complete(r, p, result), job[r][p] \in OnThread, UNCHANGED <<futures, queue>>,
         content' \in [Kinds -> SUBSET (Loads \cup {Old})], Threads', Served',
         poisoned' \in BOOLEAN
  PROVE  IInv'
<1>1. job[r][p] \notin {"none", "ok", "queued"}
  BY DEF OnThread
<1>2. Types'
  BY Completed DEF IInv, Types, futures
<1>3. Queued'
  BY <1>1, CompletedQueue DEF IInv
<1>4. Places'
  BY <1>1, CompletedPlaces DEF IInv
<1>. QED
  BY <1>2, <1>3, <1>4 DEF IInv

\* A thread ends a job, or goes on with it outside the model.
LEMMA ThreadsStep ==
  ASSUME IInv, NEW r \in Requests, NEW p \in Parts, NEW result \in Jobs \ {"model"},
         Complete(r, p, result), job[r][p] \in OnThread, poisoned' = poisoned
  PROVE  Threads'
<1>1. \A s \in Requests : job'[s]["embed"] = "model" => job[s]["embed"] = "model"
  BY Completed, PartsAreParts DEF IInv
<1>2. Busy' \subseteq Busy
  BY CompletedBusy DEF IInv
<1>. QED
  BY <1>1, <1>2, FewerThreads DEF IInv

\* A job that is not a load's store job: what is served stays.
LEMMA OtherServed ==
  ASSUME IInv, NEW r \in Requests, NEW p \in Parts \ {"store"}, NEW result \in Jobs,
         Complete(r, p, result), job[r][p] # "ok", UNCHANGED <<kind, full, content>>
  PROVE  Served'
<1>1. \A s \in Loads : /\ job'[s]["store"] = job[s]["store"]
                       /\ job[s]["embed"] = "ok" => job'[s]["embed"] = "ok"
  BY Completed, PartsAreParts DEF IInv
<1>. QED
  BY <1>1, ServedStays DEF IInv

LEMMA TakeStep ==
  ASSUME IInv, Take
  PROVE  IInv'
<1>1. PICK r \in Requests, p \in Parts :
        /\ job[r][p] = "queued"
        /\ Complete(r, p, IF p = "embed" THEN "lock" ELSE "running")
        /\ Queued'
  BY Taken DEF IInv
<1>. DEFINE result == IF p = "embed" THEN "lock" ELSE "running"
<1>2. result \in Jobs /\ result \notin {"queued", "model"} /\ UNCHANGED <<futures, poisoned, content>>
  BY DEF Jobs, OnThread, Take
<1>3. Complete(r, p, result)
  BY <1>1
<1>. HIDE DEF result
<1>4. Types'
  <2>1. queue' \in Seq(Requests \X Parts)
    BY DEF Take, IInv, Types
  <2>. QED
    BY <1>2, <1>3, <2>1, Completed DEF IInv, Types, futures
<1>5. Threads'
  <2>1. Busy' \subseteq Busy \cup {<<r, p>>}
    BY <1>2, <1>3, Completed DEF Busy, IInv
  <2>2. IsFiniteSet(Busy) /\ Cardinality(Busy) < PoolSize
    BY DEF IInv, Threads, Take
  <2>3. Cardinality(Busy) \in Nat
    BY <2>2, FS_CardinalityType
  <2>4. IsFiniteSet(Busy \cup {<<r, p>>}) /\ Cardinality(Busy \cup {<<r, p>>}) <= PoolSize
    <3>1. /\ IsFiniteSet(Busy \cup {<<r, p>>})
          /\ Cardinality(Busy \cup {<<r, p>>}) \in {Cardinality(Busy), Cardinality(Busy) + 1}
      BY <2>2, FS_AddElement
    <3>. QED
      BY <2>2, <2>3, <3>1, RequestsAssumption
  <2>5. Cardinality(Busy \cup {<<r, p>>}) \in Nat
    BY <2>4, FS_CardinalityType
  <2>6. IsFiniteSet(Busy') /\ Cardinality(Busy') <= Cardinality(Busy \cup {<<r, p>>})
    BY <2>1, <2>4, FS_Subset
  <2>7. Cardinality(Busy') \in Nat
    BY <2>6, FS_CardinalityType
  <2>8. Cardinality(Busy') <= PoolSize
    BY <2>4, <2>5, <2>6, <2>7, RequestsAssumption
  <2>9. \A s \in Requests : job'[s]["embed"] = "model" => job[s]["embed"] = "model"
    BY <1>2, <1>3, Completed, PartsAreParts DEF IInv
  <2>. QED
    BY <1>2, <2>6, <2>8, <2>9 DEF IInv, Threads
<1>6. Places'
  BY <1>1, <1>2, <1>3, CompletedPlaces DEF IInv
<1>7. Served'
  <2>1. \A s \in Loads : /\ \/ job'[s]["store"] = job[s]["store"]
                            \/ ~Touched(s) /\ job'[s]["store"] \notin {"reset", "failed", "ok"}
                         /\ job[s]["embed"] = "ok" => job'[s]["embed"] = "ok"
    <3>1. p = "store" => result = "running"
      BY DEF result
    <3>. QED
      BY <1>1, <1>2, <1>3, <3>1, Completed, PartsAreParts DEF IInv, Touched
  <2>. QED
    BY <1>2, <2>1, ServedStays DEF IInv, futures
<1>. QED
  BY <1>1, <1>4, <1>5, <1>6, <1>7 DEF IInv

LEMMA LockStep ==
  ASSUME IInv, NEW r \in Requests, Lock(r)
  PROVE  IInv'
<1>. DEFINE result == IF poisoned THEN "failed" ELSE "model"
<1>1. /\ result \in Jobs \ {"queued"} /\ "embed" \in Parts \ {"store"}
      /\ Complete(r, "embed", result) /\ job[r]["embed"] = "lock"
      /\ UNCHANGED <<futures, queue, poisoned, content>>
      /\ \A s \in Requests : job[s]["embed"] # "model"
  BY PartsAreParts DEF Lock, Jobs, OnThread, Ended
<1>2. result = "model" => ~poisoned
  OBVIOUS
<1>. HIDE DEF result
<1>3. job[r]["embed"] \in OnThread /\ job[r]["embed"] # "ok"
  BY <1>1 DEF OnThread
<1>4. Threads'
  <2>1. Busy' \subseteq Busy
    BY <1>1, <1>3, CompletedBusy DEF IInv
  <2>2. IsFiniteSet(Busy') /\ Cardinality(Busy') <= Cardinality(Busy)
    BY <2>1, FS_Subset DEF IInv, Threads
  <2>3. Cardinality(Busy') \in Nat /\ Cardinality(Busy) \in Nat
    BY <2>2, FS_CardinalityType DEF IInv, Threads
  <2>4. Cardinality(Busy') <= PoolSize
    BY <2>2, <2>3, RequestsAssumption DEF IInv, Threads
  <2>5. \A s \in Requests : job'[s]["embed"] = "model" => s = r /\ ~poisoned
    BY <1>1, <1>2, Completed DEF IInv
  <2>. QED
    BY <1>1, <2>2, <2>4, <2>5 DEF Threads
<1>5. Served'
  BY <1>1, <1>3, OtherServed DEF futures
<1>. QED
  BY <1>1, <1>3, <1>4, <1>5, JobStep DEF IInv, Types

LEMMA EmbedStep ==
  ASSUME IInv, NEW r \in Requests, Embed(r) \/ EmbedPanics(r)
  PROVE  IInv'
<1>1. PICK result \in Ended :
        /\ Complete(r, "embed", result) /\ job[r]["embed"] = "model"
        /\ UNCHANGED <<futures, queue, content>>
        /\ poisoned' \in {poisoned, TRUE}
  BY DEF Embed, EmbedPanics, Ended
<1>2. /\ result \in Jobs \ {"queued", "model"} /\ "embed" \in Parts \ {"store"}
      /\ job[r]["embed"] \in OnThread /\ job[r]["embed"] # "ok"
  BY <1>1, PartsAreParts DEF Jobs, OnThread, Ended
<1>3. Threads'
  <2>1. Busy' \subseteq Busy
    BY <1>1, <1>2, CompletedBusy DEF IInv
  <2>2. IsFiniteSet(Busy') /\ Cardinality(Busy') <= Cardinality(Busy)
    BY <2>1, FS_Subset DEF IInv, Threads
  <2>3. Cardinality(Busy') \in Nat /\ Cardinality(Busy) \in Nat
    BY <2>2, FS_CardinalityType DEF IInv, Threads
  <2>4. Cardinality(Busy') <= PoolSize
    BY <2>2, <2>3, RequestsAssumption DEF IInv, Threads
  <2>5. \A s \in Requests : job'[s]["embed"] # "model"
    <3>1. \A s \in Requests \ {r} : job[s]["embed"] # "model"
      BY <1>1 DEF IInv, Threads
    <3>. QED
      BY <3>1, <1>1, <1>2, Completed DEF IInv
  <2>. QED
    BY <2>2, <2>4, <2>5 DEF Threads
<1>4. Served'
  BY <1>1, <1>2, OtherServed DEF futures
<1>. QED
  BY <1>1, <1>2, <1>3, <1>4, JobStep DEF IInv, Types

LEMMA ReadStep ==
  ASSUME IInv, NEW r \in Requests, NEW p \in Parts, Read(r, p)
  PROVE  IInv'
<1>1. PICK result \in Ended :
        /\ Complete(r, p, result) /\ job[r][p] = "running"
        /\ UNCHANGED <<futures, queue, poisoned, content>>
  BY DEF Read
<1>2. /\ result \in Jobs \ {"queued", "model"} /\ p # "store"
      /\ job[r][p] \in OnThread /\ job[r][p] # "ok"
  BY <1>1 DEF Jobs, OnThread, Ended, Read, Searched
<1>3. Threads'
  BY <1>1, <1>2, ThreadsStep
<1>4. Served'
  BY <1>1, <1>2, OtherServed DEF futures
<1>. QED
  BY <1>1, <1>2, <1>3, <1>4, JobStep DEF IInv, Types

LEMMA StoreStep ==
  ASSUME IInv, NEW r \in Requests,
         Reset(r) \/ ResetFails(r) \/ Upsert(r) \/ UpsertFails(r)
  PROVE  IInv'
<1>1. PICK result \in {"reset", "failed", "ok"} : Complete(r, "store", result)
  BY DEF Reset, ResetFails, Upsert, UpsertFails, Ended
<1>2. /\ job[r]["store"] \in {"running", "reset"}
      /\ UNCHANGED <<futures, queue, poisoned>>
  BY DEF Reset, ResetFails, Upsert, UpsertFails
<1>3. /\ r \in Loads /\ result \in Jobs \ {"queued", "model"}
      /\ "store" \in Parts /\ job[r]["store"] \in OnThread /\ kind[r] \in Kinds
  BY <1>2, PartsAreParts DEF Jobs, OnThread, Ended, IInv, Places, Place, Types
<1>4. job'[r]["store"] = result
  BY <1>1, <1>3, Completed DEF IInv
<1>5. /\ content' \in [Kinds -> SUBSET (Loads \cup {Old})]
      /\ \A k \in Kinds \ {kind[r]} : content'[k] = content[k]
      /\ content'[kind[r]] = {} => result # "ok" \/ ~full[r]
      /\ result = "reset" => content'[kind[r]] = {}
      /\ result = "ok" /\ full[r] => content'[kind[r]] = {r} \/ OtherTouched(r)
  <2>1. CASE Reset(r)
    <3>1. content' = [content EXCEPT ![kind[r]] = {}]
      BY <2>1 DEF Reset
    <3>2. result # "ok"
      <4>1. PICK other \in {"reset", "failed"} : Complete(r, "store", other)
        BY <2>1 DEF Reset
      <4>2. other \in Jobs /\ other # "ok"
        BY <4>1 DEF Jobs, OnThread, Ended
      <4>. QED
        BY <4>1, <4>2, <1>3, <1>4, Completed DEF IInv
    <3>. QED
      BY <3>1, <3>2, <1>3 DEF IInv, Types
  <2>2. CASE ResetFails(r) \/ UpsertFails(r)
    <3>1. Complete(r, "store", "failed") /\ content' = content
      BY <2>2 DEF ResetFails, UpsertFails
    <3>2. result = "failed"
      BY <3>1, <1>3, <1>4, Completed DEF IInv, Jobs, Ended
    <3>. QED
      BY <3>1, <3>2 DEF IInv, Types
  <2>3. CASE Upsert(r)
    <3>1. PICK kept \in SUBSET content[kind[r]] :
            /\ ~full[r] => kept = content[kind[r]]
            /\ content' = [content EXCEPT ![kind[r]] = kept \cup (IF full[r] THEN {r} ELSE {})]
      BY <2>3 DEF Upsert
    <3>2. kept \cup (IF full[r] THEN {r} ELSE {}) \in SUBSET (Loads \cup {Old})
      BY <1>3 DEF IInv, Types
    <3>3. content'[kind[r]] = kept \cup (IF full[r] THEN {r} ELSE {})
      BY <3>1, <1>3 DEF IInv, Types
    <3>4. content[kind[r]] = {} \/ OtherTouched(r)
      BY <2>3, <1>3 DEF Upsert, IInv, Served, Undisturbed
    <3>5. result # "reset"
      <4>1. PICK other \in Ended : Complete(r, "store", other)
        BY <2>3 DEF Upsert
      <4>2. other \in Jobs /\ other # "reset"
        BY <4>1 DEF Jobs, OnThread, Ended
      <4>. QED
        BY <4>1, <4>2, <1>3, <1>4, Completed DEF IInv
    <3>. QED
      BY <3>1, <3>2, <3>3, <3>4, <3>5 DEF IInv, Types
  <2>. QED
    BY <2>1, <2>2, <2>3
<1>6. Served'
  BY <1>1, <1>2, <1>3, <1>5, StoreServed DEF futures
<1>7. Threads'
  BY <1>1, <1>2, <1>3, ThreadsStep
<1>. QED
  BY <1>1, <1>2, <1>3, <1>5, <1>6, <1>7, JobStep DEF IInv, Types

-----------------------------------------------------------------------------
(* The theorems.                                                           *)

LEMMA InitInv == Init => IInv
<1>. SUFFICES ASSUME Init PROVE IInv
  OBVIOUS
<1>1. \A r \in Requests : phase[r] = "idle" /\ \A p \in Parts : job[r][p] = "none"
  BY DEF Init, NoJobs
<1>2. Types
  <2>1. NoJobs \in [Parts -> Jobs] /\ "idle" \in Phases /\ 0 \in 0..MaxTries
    BY DEF NoJobs, Jobs, Phases, MaxTries
  <2>2. \A r \in Requests : job[r] \in [Parts -> Jobs]
    BY <2>1 DEF Init
  <2>3. job \in [Requests -> [Parts -> Jobs]] /\ content \in [Kinds -> SUBSET (Loads \cup {Old})]
    BY <2>1 DEF Init
  <2>4. queue \in Seq(Requests \X Parts)
    BY DEF Init
  <2>5. /\ phase \in [Requests -> Phases] /\ tries \in [Questions -> 0..MaxTries]
        /\ outcome \in [Loads -> {"none", "ok", "error", "dropped"}]
    BY <2>1 DEF Init
  <2>. QED
    BY <2>3, <2>4, <2>5 DEF Init, Types
<1>3. Queued
  BY <1>1 DEF Init, Queued, Once, Waits
<1>4. Threads
  <2>1. Busy = {}
    BY <1>1 DEF Busy, OnThread
  <2>. QED
    BY <1>1, <2>1, FS_EmptySet, PartsAreParts, RequestsAssumption DEF Threads, Init
<1>5. Places
  BY <1>1, PartsAreParts DEF Init, Places, Place
<1>6. Served
  BY <1>1, PartsAreParts DEF Init, Served, NoHalfLoads, Undisturbed
<1>. QED
  BY <1>2, <1>3, <1>4, <1>5, <1>6 DEF IInv

LEMMA NextInv == IInv /\ [Next]_vars => IInv'
<1>. SUFFICES ASSUME IInv, [Next]_vars PROVE IInv'
  OBVIOUS
<1>1. CASE Take
  BY <1>1, TakeStep
<1>2. ASSUME NEW r \in Requests, Arrive(r) PROVE IInv'
  BY <1>2, EndStep, StartStep DEF Arrive
<1>3. ASSUME NEW r \in Requests, Pool(r) PROVE IInv'
  BY <1>3, LockStep, EmbedStep, StoreStep, ReadStep DEF Pool
<1>4. ASSUME NEW r \in Requests, Resume(r) PROVE IInv'
  BY <1>4, EmbeddedStep, EndStep, ResumeStep DEF Resume
<1>5. ASSUME NEW r \in Requests, Llm(r) PROVE IInv'
  BY <1>5, EndStep, ResumeStep DEF Llm
<1>6. ASSUME NEW r \in Requests, Disconnect(r) PROVE IInv'
  BY <1>6, EndStep
<1>7. CASE UNCHANGED vars
  <2>1. Types' /\ Queued'
    BY <1>7 DEF vars, IInv, Types, Queued, Once, Waits
  <2>2. Busy' = Busy
    BY <1>7 DEF vars, Busy
  <2>3. Threads'
    BY <1>7, <2>2, FewerThreads DEF vars, IInv
  <2>4. Places'
    BY <1>7, PlaceStays DEF vars, IInv, Places
  <2>5. Served'
    BY <1>7, ServedStays DEF vars, IInv
  <2>. QED
    BY <2>1, <2>3, <2>4, <2>5 DEF IInv
<1>. QED
  BY <1>1, <1>2, <1>3, <1>4, <1>5, <1>6, <1>7 DEF Next

LEMMA Invariance == Spec => []IInv
BY InitInv, NextInv, PTL DEF Spec

\* TypeOK is an invariant: a job is in the queue once if it is queued, the pool
\* is never larger than it may be, one thread at a time is in the model.
THEOREM TypeCorrect == Spec => []TypeOK
<1>1. ASSUME IInv, NEW r \in Requests, NEW p \in Parts
      PROVE  Cardinality({ i \in DOMAIN queue : queue[i] = <<r, p>> })
               = IF job[r][p] = "queued" THEN 1 ELSE 0
  <2>. DEFINE found == { i \in DOMAIN queue : queue[i] = <<r, p>> }
  <2>1. CASE job[r][p] = "queued"
    <3>1. PICK i \in DOMAIN queue : queue[i] = <<r, p>>
      BY <1>1, <2>1 DEF IInv, Queued, Waits
    <3>2. found = {i}
      BY <1>1, <3>1 DEF IInv, Queued, Once
    <3>. QED
      BY <2>1, <3>2, FS_Singleton
  <2>2. CASE job[r][p] # "queued"
    <3>1. found = {}
      BY <1>1, <2>2 DEF IInv, Queued, Waits
    <3>. QED
      BY <2>2, <3>1, FS_EmptySet
  <2>. QED
    BY <2>1, <2>2
<1>2. ASSUME IInv
      PROVE  Cardinality({ r \in Requests : job[r]["embed"] = "model" }) <= 1
  <2>. DEFINE inside == { r \in Requests : job[r]["embed"] = "model" }
  <2>1. CASE inside = {}
    BY <2>1, FS_EmptySet
  <2>2. ASSUME NEW r \in inside PROVE Cardinality(inside) <= 1
    <3>1. inside = {r}
      BY <1>2 DEF IInv, Threads
    <3>2. Cardinality({r}) = 1
      BY FS_Singleton
    <3>. HIDE DEF inside
    <3>. QED
      BY <3>1, <3>2
  <2>. QED
    BY <2>1, <2>2
<1>3. IInv => TypeOK
  BY <1>1, <1>2 DEF IInv, Types, Threads, TypeOK, Jobs
<1>. QED
  BY <1>3, Invariance, PTL

\* NoHalfLoads is an invariant: hanging up never leaves a collection between
\* reset and upsert, and no collection is emptied for a load without vectors.
THEOREM WholeLoads == Spec => []NoHalfLoads
<1>1. IInv => NoHalfLoads
  BY DEF IInv, Served
<1>. QED
  BY <1>1, Invariance, PTL

\* AnsweredIsServed is an invariant: what was answered Ok is served, unless
\* another load has touched the collection.
THEOREM HonestAnswers == Spec => []AnsweredIsServed
<1>1. ASSUME IInv, NEW r \in Loads, outcome[r] = "ok", full[r]
      PROVE  content[kind[r]] = {r} \/ \E s \in LoadsOf(kind[r]) \ {r} : Touched(s)
  <2>1. job[r]["store"] = "ok"
    BY <1>1, PartsAreParts DEF IInv, Places, Place
  <2>. QED
    BY <1>1, <2>1 DEF IInv, Served, Undisturbed, OtherTouched
<1>2. IInv => AnsweredIsServed
  BY <1>1 DEF AnsweredIsServed
<1>. QED
  BY <1>2, Invariance, PTL

\* After a panic only an embedding that had already succeeded counts as one.
LEMMA PoisonStep ==
  ASSUME IInv, poisoned, [Next]_vars
  PROVE  /\ poisoned'
         /\ \A r \in Requests : job'[r]["embed"] = "ok" => job[r]["embed"] = "ok"
<1>1. CASE UNCHANGED job
  <2>1. poisoned'
    BY <1>1 DEF Next, vars, Take, Arrive, Pool, Resume, Llm, Refuse, StartLoad, StartQuestion,
                StartList, Lock, Embed, EmbedPanics, Reset, ResetFails, Upsert, UpsertFails,
                Read, Embedded, NotEmbedded, Answer, Found, NotFound, Retry, LlmResponds,
                LlmUnreachable, LlmFails, LlmAnswers, Disconnect
  <2>. QED
    BY <1>1, <2>1
<1>2. ASSUME NEW r \in Requests, NEW p \in Parts, NEW result \in Jobs,
             Complete(r, p, result), p = "embed" => result # "ok"
      PROVE  \A s \in Requests : job'[s]["embed"] = "ok" => job[s]["embed"] = "ok"
  BY <1>2, Completed, PartsAreParts DEF IInv
<1>3. CASE Take
  <2>1. PICK r \in Requests, p \in Parts :
          Complete(r, p, IF p = "embed" THEN "lock" ELSE "running")
    BY <1>3, Taken DEF IInv
  <2>. QED
    BY <1>2, <1>3, <2>1 DEF Take, Jobs, OnThread
<1>4. ASSUME NEW r \in Requests, Pool(r)
      PROVE  /\ poisoned'
             /\ \A s \in Requests : job'[s]["embed"] = "ok" => job[s]["embed"] = "ok"
  <2>1. ~Embed(r) /\ ~EmbedPanics(r)
    BY DEF Embed, EmbedPanics, IInv, Threads
  <2>2. CASE Lock(r)
    BY <1>2, <2>2, PartsAreParts DEF Lock, Jobs, Ended
  <2>3. CASE Reset(r) \/ ResetFails(r) \/ Upsert(r) \/ UpsertFails(r)
    <3>1. PICK result \in {"reset", "failed", "ok"} : Complete(r, "store", result)
      BY <2>3 DEF Reset, ResetFails, Upsert, UpsertFails, Ended
    <3>. QED
      BY <1>2, <2>3, <3>1, PartsAreParts
         DEF Reset, ResetFails, Upsert, UpsertFails, Jobs, OnThread, Ended
  <2>4. ASSUME NEW p \in Parts, Read(r, p)
        PROVE  /\ poisoned'
               /\ \A s \in Requests : job'[s]["embed"] = "ok" => job[s]["embed"] = "ok"
    BY <1>2, <2>4, PartsAreParts DEF Read, Jobs, Ended, Searched
  <2>. QED
    BY <1>4, <2>1, <2>2, <2>3, <2>4 DEF Pool
<1>5. ASSUME NEW r \in Requests, StartLoad(r) \/ StartQuestion(r) \/ StartList(r)
      PROVE  /\ poisoned'
             /\ \A s \in Requests : job'[s]["embed"] = "ok" => job[s]["embed"] = "ok"
  <2>1. PICK p \in {"embed", "list"} : Submit(r, NoJobs, <<p>>)
    BY <1>5 DEF StartLoad, StartQuestion, StartList
  <2>2. job'[r]["embed"] \in {"queued", "none"} /\ \A s \in Requests \ {r} : job'[s] = job[s]
    BY <2>1, PartsAreParts DEF Submit, NoJobs, IInv, Types
  <2>. QED
    BY <1>5, <2>2 DEF StartLoad, StartQuestion, StartList
<1>6. ASSUME NEW r \in Requests, Embedded(r)
      PROVE  /\ poisoned'
             /\ \A s \in Requests : job'[s]["embed"] = "ok" => job[s]["embed"] = "ok"
  BY <1>6 DEF Embedded, Submit, IInv, Types
<1>7. CASE /\ ~UNCHANGED job /\ ~Take
           /\ \A r \in Requests : /\ ~Pool(r) /\ ~Embedded(r)
                                  /\ ~StartLoad(r) /\ ~StartQuestion(r) /\ ~StartList(r)
  BY <1>7 DEF Next, vars, Arrive, Resume, Llm, Refuse, NotEmbedded, Answer, Found, NotFound,
              Retry, LlmResponds, LlmUnreachable, LlmFails, LlmAnswers, Disconnect
<1>. QED
  BY <1>1, <1>3, <1>4, <1>5, <1>6, <1>7

\* PoisonSticks: after one panic in the model no embedding succeeds any more.
THEOREM Poisoning == Spec => PoisonSticks
<1>1. IInv /\ [Next]_vars =>
        [poisoned => /\ poisoned'
                     /\ \A r \in Requests :
                          job'[r]["embed"] = "ok" => job[r]["embed"] = "ok"]_vars
  BY PoisonStep
<1>. QED
  BY <1>1, Invariance, PTL DEF Spec, PoisonSticks
=============================================================================
