---------------------------- MODULE Collections ----------------------------
(***************************************************************************)
(* What the rest of the server may rely on from the vector store: a load   *)
(* that runs alone and is answered settles the collection on its batch,    *)
(* and a settled collection stays what it is, through reads and restarts,  *)
(* until the next load.  Loads that overlap or fail settle nothing.  The   *)
(* one exception to the contract is a first access under way, which may    *)
(* still displace what was settled since it read the file.                 *)
(***************************************************************************)
CONSTANTS
  Names,     \* the collections
  Contents,  \* what a collection may hold
  Nothing    \* the collection without records, one of Contents

VARIABLES
  view,      \* per collection: how certain its contents are, and the contents
  opening    \* collections some first access has read and not yet registered

vars == <<view, opening>>

Settled(c) == [is |-> "settled", contents |-> {c}]
InProgress(c) == [is |-> "loading", contents |-> {c}]
Unknown == [is |-> "unknown", contents |-> {}]
Views == [is : {"settled", "loading", "unknown"},
          contents : SUBSET Contents]

Init ==
  /\ view = [n \in Names |-> Settled(Nothing)]
  /\ opening = {}

\* A load begins: alone, it will settle the collection; next to another, none
\* of them does.
Begin(n, c) ==
  /\ view' = [view EXCEPT ![n] = IF @.is = "loading" THEN Unknown ELSE InProgress(c)]
  /\ UNCHANGED opening

\* The load is answered.
Answer(n) ==
  /\ view[n].is = "loading"
  /\ view' = [view EXCEPT ![n].is = "settled"]
  /\ UNCHANGED opening

\* The load fails.
GiveUp(n) ==
  /\ view[n].is = "loading"
  /\ view' = [view EXCEPT ![n] = Unknown]
  /\ UNCHANGED opening

\* A first access reads the file, and later registers what it read.
Open(n) ==
  /\ opening' = opening \cup {n}
  /\ UNCHANGED view

Register(n) ==
  /\ n \in opening
  /\ opening' \in {opening, opening \ {n}}
  /\ \E v \in {view[n], Unknown} : view' = [view EXCEPT ![n] = v]

\* The process restarts: the loads are gone, settled collections are not.
Restart ==
  /\ view' = [n \in Names |-> IF view[n].is = "loading" THEN Unknown ELSE view[n]]
  /\ opening' = {}

Next ==
  \/ \E n \in Names : \/ \E c \in Contents : Begin(n, c)
                      \/ Answer(n) \/ GiveUp(n) \/ Open(n) \/ Register(n)
  \/ Restart

Spec == Init /\ [][Next]_vars
=============================================================================
