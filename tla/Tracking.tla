------------------------------ MODULE Tracking ------------------------------
(***************************************************************************)
(* A project's tracked prompts and its crawls: control_plane/store.py (the *)
(* prompts and the locale), runner.py (what a crawl asks and records) and, *)
(* through Sampling, the plan.  The history is the schedule: a prompt is   *)
(* due when the newest snapshot under its prompt_id is old enough.         *)
(*                                                                         *)
(* One platform.  A prompt_id stands for the text it was minted from       *)
(* (prompt_id_for hashes the line of business and the text), so the ids    *)
(* are the texts.  A tick is one interval of the project.                  *)
(***************************************************************************)
EXTENDS Integers, Sequences, FiniteSets

CONSTANTS
  None,              \* no prompt, no snapshot, no crawl
  RowIds,            \* rows of project_prompts, numbered in the order of their ids
  Important,         \* the rows marked important
  Texts,
  Locales, Home,     \* markets, and the one the project was created with
  Policy,            \* sampling_policy: "fixed", "save" or "reallocate"
  Base,              \* samples_per_engine
  Runs,              \* consolidation_runs
  Window, StretchMax, MinSamples, VolatileBoost, MaxSamples,
  Verdicts,          \* text -> the verdicts of stability.py on its history
  MaxNet, MaxLosses, MaxEdits
    \* bounds of the savings remembered, of the crawls lost, and of the prompts
    \* reworded or removed and the changes of the locale

ASSUME TrackingAssumption ==
  /\ RowIds \subseteq Nat /\ IsFiniteSet(RowIds) /\ Important \subseteq RowIds /\ Home \in Locales
  /\ {StretchMax, Window, MinSamples, MaxSamples, Runs} \subseteq Nat \ {0} /\ {VolatileBoost, MaxLosses, MaxEdits} \subseteq Nat
  /\ Policy \in {"fixed", "save", "reallocate"} /\ Base \in 1..MaxSamples

\* The bound on the savings remembered is no less than a carry can come to.
ASSUME NetAssumption == MaxNet \in Nat /\ (StretchMax - 1) * (Cardinality(RowIds) * MinSamples) <= MaxNet

Sample == INSTANCE Sampling WITH StabilityWindow <- Window

Old == StretchMax          \* no prompt waits for longer than this many intervals
VARIABLES
  prompts,    \* row -> None or [text, id]
  locale,
  history,    \* id -> None or [age, state, returned] of its newest snapshot
  markets,    \* the locales of the stored snapshots
  asking,     \* None, or the crawl in progress
  crawls,     \* <<calls_saved, calls_boosted>> of recorded crawls, newest first
  net,        \* calls saved less calls boosted over all the recorded crawls
  moved,      \* the locale changed after a snapshot or the start of a crawl
  losses,     \* crawls lost
  edits       \* changes of the prompts and of the locale

trackVars == <<prompts, locale, history, markets, asking, crawls, net, moved, losses, edits>>

States == {"stable", "volatile"}
TrackTypeOK ==
  /\ prompts \in [RowIds -> {None} \cup [text : Texts, id : Texts]]
  /\ locale \in Locales /\ markets \subseteq Locales
  /\ history \in [Texts -> {None} \cup [age : 0..Old, state : States, returned : BOOLEAN]]
  /\ net \in Int /\ moved \in BOOLEAN /\ losses \in 0..MaxLosses /\ edits \in 0..MaxEdits

TrackInit ==
  /\ prompts = [r \in RowIds |-> None] /\ locale = Home /\ history = [t \in Texts |-> None]
  /\ markets = {} /\ asking = None /\ crawls = <<>> /\ net = 0 /\ moved = FALSE /\ losses = 0 /\ edits = 0

Tracked == {r \in RowIds : prompts[r] # None}

----------------------------------------------------------------------------
(* The store: the HTTP handlers run one at a time, and a crawl in between. *)

\* add_prompt: a text some row already has returns that row.
AddPrompt(r, t) ==
  /\ prompts[r] = None /\ \A q \in Tracked : prompts[q].text # t
  /\ prompts' = [prompts EXCEPT ![r] = [text |-> t, id |-> t]]
  /\ UNCHANGED <<locale, history, markets, asking, crawls, net, moved, losses, edits>>

\* update_prompt: the text changes, the prompt_id may not, and nothing looks
\* for another row with that text.
EditPrompt(r, t) ==
  /\ r \in Tracked /\ prompts[r].text # t
  /\ edits < MaxEdits /\ edits' = edits + 1
  /\ prompts' = [prompts EXCEPT ![r].text = t]
  /\ UNCHANGED <<locale, history, markets, asking, crawls, net, moved, losses>>

\* delete_prompt: the history stays.
DeletePrompt(r) ==
  /\ r \in Tracked /\ edits < MaxEdits /\ edits' = edits + 1
  /\ prompts' = [prompts EXCEPT ![r] = None]
  /\ UNCHANGED <<locale, history, markets, asking, crawls, net, moved, losses>>

\* Mutant: the freeze is not checked.
SetLocaleFreely(l) ==
  /\ l # locale /\ edits < MaxEdits /\ edits' = edits + 1
  /\ locale' = l /\ moved' = (moved \/ (crawls = <<>> /\ (markets # {} \/ asking # None)))
  /\ UNCHANGED <<prompts, history, markets, asking, crawls, net, losses>>

\* app.update_project: the locale is frozen by the first recorded crawl.
SetLocale(l) ==
  /\ l # locale /\ edits < MaxEdits /\ edits' = edits + 1
  /\ crawls = <<>>
  /\ locale' = l /\ moved' = (moved \/ (crawls = <<>> /\ (markets # {} \/ asking # None)))
  /\ UNCHANGED <<prompts, history, markets, asking, crawls, net, losses>>

----------------------------------------------------------------------------
(* The crawl. *)

\* sampling.plan: one pair per row.  A stable pair's streak allows the longest
\* stretch, and a pair never sampled is due.
Pair(r) ==
  LET h == history[prompts[r].id] IN
  [id |-> r, prompt |-> r, platform |-> "p", streak |-> 2 * Window, score |-> 0,
   state |-> IF h = None THEN "new" ELSE h.state,
   returned |-> IF h = None THEN FALSE ELSE h.returned,
   age |-> IF h = None THEN Old ELSE h.age, interval |-> 1, base |-> Base,
   important |-> r \in Important, ownInterval |-> FALSE, ownSamples |-> FALSE]
Planned(request) ==
  Sample!Plan({Pair(r) : r \in Tracked}, Policy, request, Runs, crawls)

\* runner.run up to its first batch: the project, the prompts and the plan are
\* read once; with nothing due nothing is run or recorded.
Begin(request, rows) ==
  /\ asking = None /\ (request = "due" => rows = RowIds)
  /\ \E plan \in {Planned(request)} :
     \E batches \in {Sample!Batches({i \in plan.items : i.pair.prompt \in rows})} :
       /\ batches # <<>>
       /\ asking' =
            [todo |-> [n \in DOMAIN batches |-> {prompts[r] : r \in Sample!Prompts(batches[n])}],
             locale |-> locale, saved |-> plan.saved, boosted |-> plan.boosted]
  /\ UNCHANGED <<prompts, locale, history, markets, crawls, net, moved, losses, edits>>

\* _run_batch, answered: the pipeline is given the text, not the prompt_id, and
\* stores the snapshot under prompt_id_for of that text.  A snapshot whose
\* predecessor is more than 1.5 intervals old came back from a stretch.
Asked(batch) == {p.text : p \in batch}
\* Mutant: a second snapshot under one prompt_id is ignored.
SnapshotOnce(batch, verdict) ==
  [t \in Texts |-> IF t \notin Asked(batch) \/ history[t] # None THEN history[t]
     ELSE [age |-> 0, state |-> verdict[t], returned |-> FALSE]]
Snapshot(batch, verdict) ==
  [t \in Texts |-> IF t \notin Asked(batch) THEN history[t]
     ELSE [age |-> 0, state |-> verdict[t],
           returned |-> IF history[t] = None THEN FALSE ELSE history[t].age > 1]]
Opinions(asked) == {v \in [asked -> States] : \A t \in asked : v[t] \in Verdicts[t]}

RunBatch ==
  /\ asking # None /\ asking.todo # <<>>
  /\ \E verdict \in Opinions(Asked(Head(asking.todo))) :
       history' = Snapshot(Head(asking.todo), verdict)
  /\ markets' = markets \cup {asking.locale}
  /\ asking' = [asking EXCEPT !.todo = Tail(@)]
  /\ UNCHANGED <<prompts, locale, crawls, net, moved, losses, edits>>

\* A batch the vendors failed or the budget refused stores nothing, and the
\* crawl goes on with the next.
BatchRefused ==
  /\ asking # None /\ asking.todo # <<>>
  /\ asking' = [asking EXCEPT !.todo = Tail(@)]
  /\ UNCHANGED <<prompts, locale, history, markets, crawls, net, moved, losses, edits>>

\* _record_crawl: the plan's summary is stored whatever the batches came to.
Record ==
  /\ asking # None /\ asking.todo = <<>>
  /\ crawls' = LET all == <<<<asking.saved, asking.boosted>>>> \o crawls
               IN SubSeq(all, 1, Sample!Lower(Len(all), Sample!Higher(1, StretchMax - 1)))
  /\ net' = Sample!Lower(MaxNet, net + asking.saved - asking.boosted)
  /\ asking' = None
  /\ UNCHANGED <<prompts, locale, history, markets, moved, losses, edits>>

\* The process dies before the crawl is recorded: its snapshots stay.
LoseCrawl ==
  /\ asking # None /\ losses < MaxLosses
  /\ asking' = None /\ losses' = losses + 1
  /\ UNCHANGED <<prompts, locale, history, markets, crawls, net, moved, edits>>

Tick ==
  /\ history' = [t \in Texts |-> IF history[t] = None THEN None
                  ELSE [history[t] EXCEPT !.age = Sample!Lower(Old, @ + 1)]]
  /\ history' # history
  /\ UNCHANGED <<prompts, locale, markets, asking, crawls, net, moved, losses, edits>>

TrackNext ==
  \/ \E r \in RowIds, t \in Texts : AddPrompt(r, t) \/ EditPrompt(r, t)
  \/ \E r \in RowIds : DeletePrompt(r)
  \/ \E l \in Locales : SetLocale(l)
  \/ \E request \in {"due", "force", "selected"}, rows \in SUBSET RowIds : Begin(request, rows)
  \/ RunBatch \/ BatchRefused \/ Record \/ LoseCrawl \/ Tick

TrackSpec == TrackInit /\ [][TrackNext]_trackVars

\* The queue's poller finds the project idle between requests, a crawl goes on,
\* and the batch a text is in is not refused for ever.
Answered(t) == RunBatch /\ t \in Asked(Head(asking.todo))
TrackFairSpec ==
  /\ TrackSpec /\ SF_trackVars(Begin("due", RowIds)) /\ WF_trackVars(RunBatch \/ BatchRefused) /\ WF_trackVars(Record)
  /\ \A t \in Texts : SF_trackVars(Answered(t))

----------------------------------------------------------------------------
(* Properties. *)

\* sampling.py: the boosts of the recorded crawls never cost more calls than the
\* same and earlier crawls counted as saved, so that nothing saved pays twice.
\* Each crawl counts every pair it skips, one that another crawl of the same
\* interval skipped as well.
BoostsCovered == net >= 0

\* ADR 0023: the snapshots of a project are of one market, unless the locale
\* was changed between the first snapshot and the record of its crawl.
OneMarket == moved \/ Cardinality(markets) <= 1

\* planner.py: a prompt that was not reworded and waited for the longest stretch
\* is asked sooner or later, whatever is lost, refused, forced or edited.
Unedited(r, t) == prompts[r] = [text |-> t, id |-> t]
Waiting(t) == IF history[t] = None THEN TRUE ELSE history[t].age = Old
EveryPromptAsked ==
  \A r \in RowIds, t \in Texts : (Unedited(r, t) /\ Waiting(t)) ~> ~ (Unedited(r, t) /\ Waiting(t))

\* ADR 0016: a prompt_id is minted once and never derived again, so a crawl
\* stores its snapshots under the ids of the prompts it asks.
SampledUnderItsId ==
  [][RunBatch => \A t \in Texts :
       history'[t] # history[t] => \E p \in Head(asking.todo) : p.id = t]_trackVars
=============================================================================
