------------------------------ MODULE Startup ------------------------------
(***************************************************************************)
(* How the server comes up: the start scripts (start.sh, start_local.sh)   *)
(* kill whatever runs, build, and turn into the new server, which goes     *)
(* through the steps of run (src/src/lib.rs) until it answers requests;    *)
(* start_all.sh only builds and starts one.                                *)
(* Nothing but the port keeps two servers apart, and the vector store      *)
(* relies on it: its files have one writing process.                       *)
(***************************************************************************)
EXTENDS Integers, FiniteSets

CONSTANTS
  Runs,      \* runs of a script, and the processes they become
  Free,      \* nobody has the port
  MaxPolls,  \* times a script looks whether the old server is gone (10)
  Failures   \* subset of {"build", "config", "database", "model", "crash"}

ASSUME StartupAssumption ==
  /\ Free \notin Runs /\ MaxPolls \in Nat
  /\ Failures \subseteq {"build", "config", "database", "model", "crash"}

VARIABLES
  script,    \* the script of a run
  at,        \* the step a run is at
  polls,     \* how often its script has looked
  doomed,    \* runs with a SIGTERM on its way
  port,      \* the run that has :3000
  announced, \* runs whose success line was printed
  failed     \* history: runs that failed

vars == <<script, at, polls, doomed, port, announced, failed>>

Scripts == {"start", "local", "all"}
Script == {"kill", "look", "pkill", "poll", "kill9", "build"}
Server == {"config", "database", "model", "bind", "announce", "serve"}
Steps == Script \cup Server \cup {"idle", "ended"}

\* The servers.
Running == { r \in Runs : at[r] \in Server }

\* The shells in which start_all.sh builds: "bash -c" with the whole script,
\* the path of the server in it, as its command line.
Builders == { r \in Runs : script[r] = "all" /\ at[r] = "build" }

\* What the pkill and pgrep of a run match: the name of the program (-x), or
\* its path in any command line (-f).
Targets(r) == IF script[r] = "local" THEN Running \cup Builders ELSE Running

Go(r, step) == at' = [at EXCEPT ![r] = step]

\* Processes end, and the port of one of them is free.
End(rs) ==
  /\ at' = [r \in Runs |-> IF r \in rs THEN "ended" ELSE at[r]]
  /\ port' = IF port \in rs THEN Free ELSE port

Init ==
  /\ script = [r \in Runs |-> "none"]
  /\ at = [r \in Runs |-> "idle"]
  /\ polls = [r \in Runs |-> 0]
  /\ doomed = {} /\ port = Free /\ announced = {} /\ failed = {}

(* The scripts.                                                            *)

\* start_all.sh kills nothing.
Start(r) ==
  /\ at[r] = "idle"
  /\ \E s \in Scripts :
       /\ script' = [script EXCEPT ![r] = s]
       /\ Go(r, CASE s = "start" -> "kill" [] s = "local" -> "look" [] s = "all" -> "build")
  /\ UNCHANGED <<polls, doomed, port, announced, failed>>

\* start_local.sh: pgrep, and then pkill, as two steps.
Look(r) ==
  /\ at[r] = "look"
  /\ Go(r, IF Targets(r) = {} THEN "build" ELSE "pkill")
  /\ UNCHANGED <<script, polls, doomed, port, announced, failed>>

Pkill(r) ==
  /\ at[r] = "pkill"
  /\ doomed' = doomed \cup Targets(r)
  /\ Go(r, "poll")
  /\ UNCHANGED <<script, polls, port, announced, failed>>

\* Variant: the script does not wait for the old server to end.
KillOnly(r) ==
  /\ at[r] = "kill"
  /\ doomed' = doomed \cup Targets(r)
  /\ Go(r, "build")
  /\ UNCHANGED <<script, polls, port, announced, failed>>

\* start.sh: pkill, and whether it found any.
Kill(r) ==
  /\ at[r] = "kill"
  /\ doomed' = doomed \cup Targets(r)
  /\ Go(r, IF Targets(r) = {} THEN "build" ELSE "poll")
  /\ UNCHANGED <<script, polls, port, announced, failed>>

\* Neither the server nor the shell has a handler for SIGTERM: they end.
Die(r) ==
  /\ r \in doomed /\ r \in Running \cup Builders
  /\ End({r})
  /\ UNCHANGED <<script, polls, doomed, announced, failed>>

\* Variant: no bound.
PollForever(r) ==
  /\ at[r] = "poll"
  /\ IF Targets(r) = {}
     THEN Go(r, "kill9") /\ UNCHANGED polls
     ELSE polls' = [polls EXCEPT ![r] = @ + 1] /\ UNCHANGED at
  /\ UNCHANGED <<script, doomed, port, announced, failed>>

\* seq 1 10, pgrep || break, sleep 0.5
Poll(r) ==
  /\ at[r] = "poll"
  /\ IF Targets(r) = {} \/ polls[r] = MaxPolls
     THEN Go(r, "kill9") /\ UNCHANGED polls
     ELSE polls' = [polls EXCEPT ![r] = @ + 1] /\ UNCHANGED at
  /\ UNCHANGED <<script, doomed, port, announced, failed>>

\* pkill -9 reaches every match, young ones too.
Kill9(r) ==
  /\ at[r] = "kill9"
  /\ at' = [s \in Runs |-> IF s = r THEN "build"
                           ELSE IF s \in Targets(r) THEN "ended" ELSE at[s]]
  /\ port' = IF port \in Targets(r) THEN Free ELSE port
  /\ UNCHANGED <<script, polls, doomed, announced, failed>>

\* cargo build, then exec, or for start_all.sh a child of the shell: a shell
\* that is about to end starts none.
Build(r) ==
  /\ at[r] = "build" /\ r \notin doomed
  /\ Go(r, "config")
  /\ UNCHANGED <<script, polls, doomed, port, announced, failed>>

(* run(), up to the point where it serves; any failure on the way panics.  *)

\* config() panics if a required variable is missing; entities::init does not
\* fail; the pool connects; VectorStore::new does nothing; the model is loaded.
Prepared(r, step, next) ==
  /\ at[r] = step
  /\ Go(r, next)
  /\ UNCHANGED <<script, polls, doomed, port, announced, failed>>

\* set -e, a panic, or a process that is killed by hand.
Fails(r) ==
  /\ \/ at[r] \in Failures
     \/ at[r] \in Server /\ "crash" \in Failures
  /\ End({r})
  /\ failed' = failed \cup {r}
  /\ UNCHANGED <<script, polls, doomed, announced>>

\* Variant: the port may be shared (SO_REUSEPORT).
BindShared(r) ==
  /\ at[r] = "bind"
  /\ port' = r
  /\ Go(r, "announce")
  /\ UNCHANGED <<script, polls, doomed, announced, failed>>

\* Variant: a port that is taken is found out later.
BindUnheeded(r) ==
  /\ at[r] = "bind"
  /\ port' = (IF port = Free THEN r ELSE port)
  /\ Go(r, "announce")
  /\ UNCHANGED <<script, polls, doomed, announced, failed>>

\* TcpListener::bind
Bind(r) ==
  /\ at[r] = "bind"
  /\ IF port = Free THEN port' = r /\ Go(r, "announce") ELSE End({r})
  /\ UNCHANGED <<script, polls, doomed, announced, failed>>

\* "Server started successfully"
Announce(r) ==
  /\ at[r] = "announce"
  /\ announced' = announced \cup {r}
  /\ Go(r, "serve")
  /\ UNCHANGED <<script, polls, doomed, port, failed>>

\* A run of a script, or the server it became, gets on.
Advance(r) ==
  \/ Kill(r) \/ Look(r) \/ Pkill(r) \/ Poll(r) \/ Kill9(r) \/ Build(r)
  \/ Prepared(r, "config", "database") \/ Prepared(r, "database", "model")
  \/ Prepared(r, "model", "bind")
  \/ Bind(r) \/ Announce(r)

Next ==
  \E r \in Runs : Start(r) \/ Advance(r) \/ Die(r) \/ Fails(r)

Spec == Init /\ [][Next]_vars

\* Scripts and start-ups run on, and a signal is delivered.  Nobody has to
\* start a script.
FairSpec == Spec /\ \A r \in Runs : WF_vars(Advance(r)) /\ WF_vars(Die(r))

-----------------------------------------------------------------------------
(* Properties.                                                             *)

TypeOK ==
  /\ script \in [Runs -> Scripts \cup {"none"}]
  /\ at \in [Runs -> Steps] /\ polls \in [Runs -> 0..MaxPolls]
  /\ doomed \cup announced \cup failed \subseteq Runs
  /\ port \in Runs \cup {Free}

\* However many scripts overlap, at most one process serves: the vector files
\* have one writer, and the next server starts after the last one ended.
OneServes == \A r, s \in Runs : at[r] = "serve" /\ at[s] = "serve" => r = s

\* The success line cannot be printed if the port is taken: who announced
\* itself and still runs has the port.
AnnouncedHasPort == \A r \in announced : at[r] \in Server => port = r

\* Once no more scripts are started and if nothing fails, one of the servers
\* they started goes on serving: overlapping scripts do not end up having
\* killed each other's servers, or having given up on a port that was about to
\* be free.
NoMoreScripts == <>[][\A r \in Runs : ~Start(r)]_vars
SomeoneServes ==
  [](failed = {}) /\ NoMoreScripts /\ <>(\E r \in Runs : at[r] # "idle")
    => <>[](\E r \in Runs : at[r] = "serve")
=============================================================================
