------------------------------ MODULE RunQueue ------------------------------
(***************************************************************************)
(* What the run queue promises the page and the poller, with no threads,   *)
(* no job ids and no in-memory list: a run (a project and what to run of   *)
(* it) waits at most once, at most Capacity runs wait, and one runs at a   *)
(* time.  JobQueue is shown to implement this module.                      *)
(***************************************************************************)
EXTENDS Naturals, FiniteSets

CONSTANTS Runs,      \* what can be asked for
          NoRun,     \* nothing is running
          Capacity   \* how many runs may wait

VARIABLES waiting, running

vars == <<waiting, running>>

TypeOK == waiting \subseteq Runs /\ running \in Runs \cup {NoRun}

Init == waiting = {} /\ running = NoRun

\* A run is accepted unless it is already waiting or running.
Accept(r) == /\ r \notin waiting /\ r # running
             /\ Cardinality(waiting) < Capacity
             /\ waiting' = waiting \cup {r}
             /\ UNCHANGED running

Start(r) == /\ r \in waiting /\ running = NoRun
            /\ waiting' = waiting \ {r}
            /\ running' = r

Stop == /\ running # NoRun
        /\ running' = NoRun
        /\ UNCHANGED waiting

\* The process restarts: what waited or ran is forgotten.
Reset == waiting' = {} /\ running' = NoRun

Next == \/ \E r \in Runs : Accept(r) \/ Start(r)
        \/ Stop
        \/ Reset

Spec == Init /\ [][Next]_vars
=============================================================================
