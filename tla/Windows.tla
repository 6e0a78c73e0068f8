------------------------------ MODULE Windows ------------------------------
(***************************************************************************)
(* When a project's crawls are consolidated into positions:                *)
(* control_plane/runner.py (_record_crawl, consolidate) over the tables    *)
(* project_runs and consolidations of control_plane/positioning.py.        *)
(*                                                                         *)
(* Two threads consolidate: the job worker after a full crawl, when enough *)
(* of them wait, and the event loop when an analyst asks.  Both read the   *)
(* clock, then the newest crawls, then insert, each in its own             *)
(* transaction.  A crawl is named by started_at; no two readings of the    *)
(* clock are equal.                                                        *)
(***************************************************************************)
EXTENDS Integers, FiniteSets

CONSTANTS
  Sizes,        \* values of consolidation_runs and of a request's window_runs
  Faults,       \* what this instance adds to the plain course of events: of
                \* {"custom", "resize", "lost", "slow"}
  MaxClock      \* bound: nothing starts after this reading of the clock

ASSUME ConstantsAssumption == Sizes \subseteq Nat \ {0} /\ MaxClock \in Nat

Threads == {"worker", "analyst"}

VARIABLES
  faults,       \* which of them this behaviour may show; never changes
  clock,        \* what the next reading of the clock returns
  size,         \* project.consolidation_runs
  full,         \* started_at of the rows of project_runs with full = 1
  windows,      \* the rows of consolidations
  crawl,        \* what run() is doing on the worker: [at, start, size]
  call          \* per thread: PositionStore.consolidate in progress

vars == <<faults, clock, size, full, windows, crawl, call>>

NoCrawl == [at |-> "none", start |-> 0, size |-> 0]
NoCall == [at |-> "none", size |-> 0, now |-> 0, runs |-> {}, last |-> 0]

Init ==
  /\ faults \in SUBSET Faults
  /\ clock = 1
  /\ size \in Sizes
  /\ full = {} /\ windows = {}
  /\ crawl = NoCrawl
  /\ call = [t \in Threads |-> NoCall]

----------------------------------------------------------------------------
(* A crawl, up to the decision. *)

\* run() reads the project and the clock.
StartCrawl ==
  /\ crawl.at = "none" /\ call["worker"].at = "none"
  /\ clock <= MaxClock
  /\ crawl' = [at |-> "run", start |-> clock, size |-> size]
  /\ clock' = clock + 1
  /\ UNCHANGED <<faults, size, full, windows, call>>

\* Without "slow" no handler sleeps between its clock and its query for as
\* long as a crawl takes.
Hurried == "slow" \in faults \/ call["analyst"].at # "stamped"

\* record_project_run: a crawl of the whole project that captured something.
RecordFull ==
  /\ crawl.at = "run" /\ Hurried
  /\ full' = full \cup {crawl.start}
  /\ crawl' = [crawl EXCEPT !.at = "recorded"]
  /\ UNCHANGED <<faults, clock, size, windows, call>>

\* Nothing was due, or the run was restricted or refused: no window advances.
EndWithoutWindow ==
  /\ crawl.at = "run"
  /\ crawl' = NoCrawl
  /\ UNCHANGED <<faults, clock, size, full, windows, call>>

Latest(w) == w \in windows /\ \A v \in windows : v.at <= w.at

\* Mutant: the crawl the last window ends with counts again.
UncoveredAndLast == {c \in full : \A w \in windows : Latest(w) => c >= w.last}

\* runs_since_last_consolidation.
Uncovered == {c \in full : \A w \in windows : Latest(w) => c > w.last}

\* Mutant: one crawl later than consolidation_runs says.
DueLate(n) == Cardinality(Uncovered) > n

Due(n) == Cardinality(Uncovered) >= n

\* _record_crawl decides, with the size the project had when the crawl began.
Decide ==
  /\ crawl.at = "recorded"
  /\ crawl' = NoCrawl
  /\ call' = IF Due(crawl.size)
             THEN [call EXCEPT !["worker"] = [NoCall EXCEPT !.at = "called", !.size = crawl.size]]
             ELSE call
  /\ UNCHANGED <<faults, clock, size, full, windows>>

----------------------------------------------------------------------------
(* PositionStore.consolidate, on either thread. *)

\* POST /consolidate: the project's window, or the one the analyst names.
Ask(n) ==
  /\ call["analyst"].at = "none"
  /\ clock <= MaxClock
  /\ n = size \/ "custom" \in faults
  /\ call' = [call EXCEPT !["analyst"] = [NoCall EXCEPT !.at = "called", !.size = n]]
  /\ UNCHANGED <<faults, clock, size, full, windows, crawl>>

Stamp(t) ==
  /\ call[t].at = "called"
  /\ call' = [call EXCEPT ![t].at = "stamped", ![t].now = clock]
  /\ clock' = clock + 1
  /\ UNCHANGED <<faults, size, full, windows, crawl>>

\* Mutant: one row short of the LIMIT.
NewestButOne(n) == {c \in full : Cardinality({d \in full : d > c}) < n - 1}

\* project_runs(limit = n, full_only): the newest n by started_at.
Newest(n) == {c \in full : Cardinality({d \in full : d > c}) < n}

\* compute() over at least one crawl.
Compute(t) ==
  /\ call[t].at = "stamped"
  /\ \E last \in full :
       /\ \A c \in full : c <= last
       /\ call' = [call EXCEPT ![t].at = "computed", ![t].last = last,
                               ![t].runs = Newest(call[t].size)]
  /\ UNCHANGED <<faults, clock, size, full, windows, crawl>>

\* "No completed crawl to consolidate yet."
NothingToConsolidate(t) ==
  /\ call[t].at = "stamped" /\ full = {}
  /\ call' = [call EXCEPT ![t] = NoCall]
  /\ UNCHANGED <<faults, clock, size, full, windows, crawl>>

\* The consolidation and its positions, in one transaction.
Store(t) ==
  /\ call[t].at = "computed"
  /\ windows' = windows \cup {[at |-> call[t].now, runs |-> call[t].runs, last |-> call[t].last,
                               auto |-> t = "worker"]}
  /\ call' = [call EXCEPT ![t] = NoCall]
  /\ UNCHANGED <<faults, clock, size, full, crawl>>

----------------------------------------------------------------------------

\* PUT /projects: the owner changes consolidation_runs, at any moment.
Resize(n) ==
  /\ "resize" \in faults /\ n # size
  /\ size' = n
  /\ UNCHANGED <<faults, clock, full, windows, crawl, call>>

\* The process dies, or a statement of the job fails: what was not committed is
\* gone.  Without "lost" that does not fall between a full crawl and its window.
Lose ==
  /\ crawl.at # "none" \/ \E t \in Threads : call[t].at # "none"
  /\ "lost" \in faults \/ (crawl.at # "recorded" /\ call["worker"].at = "none")
  /\ crawl' = NoCrawl
  /\ call' = [t \in Threads |-> NoCall]
  /\ UNCHANGED <<faults, clock, size, full, windows>>

Consolidate(t) == Stamp(t) \/ Compute(t) \/ NothingToConsolidate(t) \/ Store(t)

Worker == StartCrawl \/ RecordFull \/ EndWithoutWindow \/ Decide \/ Consolidate("worker")

Next ==
  \/ Worker
  \/ Consolidate("analyst")
  \/ \E n \in Sizes : Ask(n) \/ Resize(n)
  \/ Lose

Spec == Init /\ [][Next]_vars

\* The worker thread runs whatever it began.
FairSpec == Spec /\ WF_vars(RecordFull \/ EndWithoutWindow \/ Decide \/ Consolidate("worker"))

----------------------------------------------------------------------------
(* Properties. *)

Crawls == [at : {"none", "run", "recorded"}, start : Nat, size : Nat]
Calls == [at : {"none", "called", "stamped", "computed"}, size : Nat, now : Nat,
          runs : SUBSET Nat, last : Nat]
Rows == [at : Nat, runs : SUBSET Nat, last : Nat, auto : BOOLEAN]

\* Every variable has its type, and a stored window ends with one of its crawls.
TypeOK ==
  /\ faults \subseteq Faults
  /\ clock \in Nat /\ size \in Sizes
  /\ full \subseteq Nat /\ IsFiniteSet(full)
  /\ windows \subseteq Rows
  /\ crawl \in Crawls
  /\ call \in [Threads -> Calls]
  /\ \A w \in windows : w.last \in w.runs

\* No crawl is in two automatic windows, whatever the analyst, a restart or a new
\* size does in between: the answers an alert compares with the previous automatic
\* window are never the same answers (runs_since_last_consolidation, then LIMIT).
AutoDisjoint ==
  \A v, w \in windows : v.auto /\ w.auto /\ v # w => v.runs \cap w.runs = {}

\* The window the tables call the latest reaches as far as any other, so the count
\* of waiting crawls counts none that is covered.  A handler that sleeps through a
\* crawl between its clock and its query can break this.
LatestReachesFurthest ==
  "slow" \notin faults => \A v, w \in windows : v.at < w.at => v.last <= w.last

\* If no crawl is lost and nobody changes or overrides the size, every full crawl up
\* to the last window is in one: a window of N takes exactly what waited.
NoCrawlSkipped ==
  faults \subseteq {"slow"} =>
    \A w \in windows : \A c \in full : c <= w.last => \E v \in windows : c \in v.runs

\* Then, too, as many waiting crawls as make a window do not wait for long.
BacklogClears ==
  faults = {} /\ Cardinality(Uncovered) >= size ~> Cardinality(Uncovered) < size
=============================================================================
