---------------------------- MODULE StartupProofs ----------------------------
(***************************************************************************)
(* Proofs about Startup, for any number of runs, any bound on the polls    *)
(* and any failures.                                                       *)
(***************************************************************************)
EXTENDS Startup, TLAPS

\* Who is past the bind has the port.
PastBind == \A r \in Runs : at[r] \in {"announce", "serve"} => port = r

\* A server announces itself once, right before it serves.
AnnouncedLast == \A r \in announced : at[r] \in {"serve", "ended"}

IInv == TypeOK /\ PastBind /\ AnnouncedLast

-----------------------------------------------------------------------------

LEMMA InitIInv == Init => IInv
<1>. SUFFICES ASSUME Init PROVE IInv
  OBVIOUS
<1>1. TypeOK
  BY StartupAssumption DEF Init, TypeOK, Steps, Script, Server
<1>. QED
  BY <1>1 DEF Init, IInv, PastBind, AnnouncedLast

\* A run goes on to a step before the announcement.
LEMMA GoIInv ==
  ASSUME IInv, NEW r \in Runs, NEW step \in Steps \ {"announce", "serve"},
         at[r] \notin {"serve", "ended"}, Go(r, step),
         script' \in [Runs -> Scripts \cup {"none"}],
         polls' \in [Runs -> 0..MaxPolls], doomed' \subseteq Runs,
         UNCHANGED <<port, announced, failed>>
  PROVE  IInv'
<1>1. TypeOK'
  BY DEF IInv, TypeOK, Go
<1>2. PastBind'
  BY DEF IInv, TypeOK, Go, PastBind
<1>3. AnnouncedLast'
  BY DEF IInv, TypeOK, Go, AnnouncedLast
<1>. QED
  BY <1>1, <1>2, <1>3 DEF IInv

\* Processes end: the port of none of the others is taken from it.
LEMMA EndIInv ==
  ASSUME IInv, NEW r \in Runs, End({r}), UNCHANGED <<script, polls, doomed, announced>>,
         failed' \subseteq Runs
  PROVE  IInv'
<1>1. TypeOK'
  BY DEF IInv, TypeOK, End, Steps
<1>2. PastBind'
  BY DEF IInv, TypeOK, End, PastBind
<1>3. AnnouncedLast'
  BY DEF IInv, TypeOK, End, AnnouncedLast
<1>. QED
  BY <1>1, <1>2, <1>3 DEF IInv

\* A script kills servers, and shells that build.
LEMMA TargetsAre ==
  ASSUME NEW r \in Runs
  PROVE  /\ Running \subseteq Targets(r) /\ Targets(r) \subseteq Runs
         /\ \A s \in Targets(r) : at[s] \in Server \cup {"build"}
BY DEF Targets, Running, Builders

LEMMA Kill9IInv ==
  ASSUME IInv, NEW r \in Runs, Kill9(r)
  PROVE  IInv'
<1>1. TypeOK'
  BY DEF IInv, TypeOK, Kill9, Steps, Script
<1>2. PastBind'
  BY TargetsAre DEF IInv, TypeOK, Kill9, PastBind, Running, Server
<1>3. AnnouncedLast'
  BY DEF IInv, TypeOK, Kill9, AnnouncedLast
<1>. QED
  BY <1>1, <1>2, <1>3 DEF IInv

LEMMA BindIInv ==
  ASSUME IInv, NEW r \in Runs, Bind(r)
  PROVE  IInv'
<1>1. CASE port = Free
  <2>0. port' = r /\ Go(r, "announce") /\ UNCHANGED <<script, polls, doomed, announced, failed>>
    BY <1>1 DEF Bind
  <2>1. TypeOK'
    BY <2>0 DEF IInv, TypeOK, Go, Steps, Server
  <2>2. PastBind'
    BY <2>0, <1>1, StartupAssumption DEF IInv, TypeOK, Go, PastBind
  <2>3. AnnouncedLast'
    BY <2>0 DEF IInv, TypeOK, Go, AnnouncedLast, Bind
  <2>. QED
    BY <2>1, <2>2, <2>3 DEF IInv
<1>2. CASE port # Free
  BY <1>2, EndIInv DEF Bind, IInv, TypeOK
<1>. QED
  BY <1>1, <1>2

LEMMA AnnounceIInv ==
  ASSUME IInv, NEW r \in Runs, Announce(r)
  PROVE  IInv'
<1>1. TypeOK'
  BY DEF IInv, TypeOK, Announce, Go, Steps, Server
<1>2. PastBind'
  BY DEF IInv, TypeOK, Announce, Go, PastBind
<1>3. AnnouncedLast'
  BY DEF IInv, TypeOK, Announce, Go, AnnouncedLast
<1>. QED
  BY <1>1, <1>2, <1>3 DEF IInv

LEMMA NextIInv == IInv /\ [Next]_vars => IInv'
<1>. SUFFICES ASSUME IInv, [Next]_vars PROVE IInv'
  OBVIOUS
<1>. USE DEF Steps, Script, Server
<1>1. ASSUME NEW r \in Runs, Start(r) PROVE IInv'
  <2>1. PICK s \in Scripts :
          /\ script' = [script EXCEPT ![r] = s]
          /\ Go(r, CASE s = "start" -> "kill" [] s = "local" -> "look" [] s = "all" -> "build")
    BY <1>1 DEF Start
  <2>2. script' \in [Runs -> Scripts \cup {"none"}]
    BY <2>1 DEF IInv, TypeOK
  <2>3. PICK step \in {"kill", "look", "build"} : Go(r, step)
    BY <2>1 DEF Scripts
  <2>. QED
    BY <1>1, <2>2, <2>3, GoIInv DEF Start, IInv, TypeOK
<1>2. ASSUME NEW r \in Runs, Look(r) PROVE IInv'
  BY <1>2, GoIInv DEF Look, IInv, TypeOK
<1>3. ASSUME NEW r \in Runs, Kill(r) \/ Pkill(r) PROVE IInv'
  <2>1. doomed' \subseteq Runs
    BY <1>3, TargetsAre DEF Kill, Pkill, IInv, TypeOK
  <2>. QED
    BY <1>3, <2>1, GoIInv DEF Kill, Pkill, IInv, TypeOK
<1>4. ASSUME NEW r \in Runs, Poll(r) PROVE IInv'
  <2>1. CASE Targets(r) = {} \/ polls[r] = MaxPolls
    BY <1>4, <2>1, GoIInv DEF Poll, IInv, TypeOK
  <2>2. CASE ~(Targets(r) = {} \/ polls[r] = MaxPolls)
    <3>1. polls' \in [Runs -> 0..MaxPolls]
      BY <1>4, <2>2, StartupAssumption DEF Poll, IInv, TypeOK
    <3>. QED
      BY <1>4, <2>2, <3>1 DEF Poll, IInv, TypeOK, PastBind, AnnouncedLast
  <2>. QED
    BY <2>1, <2>2
<1>5. ASSUME NEW r \in Runs, Kill9(r) PROVE IInv'
  BY <1>5, Kill9IInv
<1>6. ASSUME NEW r \in Runs, Build(r) PROVE IInv'
  BY <1>6, GoIInv DEF Build, IInv, TypeOK
<1>7. ASSUME NEW r \in Runs,
             \/ Prepared(r, "config", "database") \/ Prepared(r, "database", "model")
             \/ Prepared(r, "model", "bind")
      PROVE IInv'
  BY <1>7, GoIInv DEF Prepared, IInv, TypeOK
<1>8. ASSUME NEW r \in Runs, Bind(r) PROVE IInv'
  BY <1>8, BindIInv
<1>9. ASSUME NEW r \in Runs, Announce(r) PROVE IInv'
  BY <1>9, AnnounceIInv
<1>10. ASSUME NEW r \in Runs, Die(r) PROVE IInv'
  BY <1>10, EndIInv DEF Die, IInv, TypeOK
<1>11. ASSUME NEW r \in Runs, Fails(r) PROVE IInv'
  <2>1. failed' \subseteq Runs
    BY <1>11 DEF Fails, IInv, TypeOK
  <2>. QED
    BY <1>11, <2>1, EndIInv DEF Fails
<1>12. CASE UNCHANGED vars
  BY <1>12 DEF vars, IInv, TypeOK, PastBind, AnnouncedLast
<1>. QED
  BY <1>1, <1>2, <1>3, <1>4, <1>5, <1>6, <1>7, <1>8, <1>9, <1>10, <1>11, <1>12
  DEF Next, Advance

\* The invariant, over any number of overlapping scripts.
THEOREM Invariance == Spec => []IInv
BY InitIInv, NextIInv, PTL DEF Spec

\* Types, and the bound on the polls of a script.
THEOREM TypeCorrect == Spec => []TypeOK
<1>1. IInv => TypeOK
  BY DEF IInv
<1>. QED
  BY <1>1, Invariance, PTL

\* However many scripts overlap, at most one server serves.
THEOREM SingleServer == Spec => []OneServes
<1>1. IInv => OneServes
  BY DEF IInv, PastBind, OneServes
<1>. QED
  BY <1>1, Invariance, PTL

\* A server that announced itself and still runs has the port.
THEOREM HonestAnnouncement == Spec => []AnnouncedHasPort
<1>1. IInv => AnnouncedHasPort
  BY DEF IInv, TypeOK, PastBind, AnnouncedLast, AnnouncedHasPort, Server
<1>. QED
  BY <1>1, Invariance, PTL
=============================================================================
