# RankUno Prompt Engine: TLA+ models and proofs

The prompt engine asks AI answer engines the same questions again and again,
keeps what they cite, and turns the history into positions, alerts and reports.
Every question costs money at a vendor, and the work runs on several threads in
one process that can die at any time. The modules here model the parts of the
program that can be wrong in ways a test hardly reaches: the concurrent core
(queue, vendor calls, spending, runs, windows, alerts, reports, log uploads,
plans and prompts) as state machines, and the pure algorithms (sampling,
evidence, dashboards, parsing, judging, pricing, ...) as operators checked against what
they promise.

Paths below are relative to the repository root; the Python package is `src/`.

## The system

| Component | State | Operations | What is hard |
| :-- | :-- | :-- | :-- |
| Job queue (`control_plane/jobs.py`, `__main__.py`) | jobs in memory, `queue.Queue`, one worker thread | submit, run_due_all, the worker's loop, trimming | two submitters race; put happens outside the lock; full queue; restart |
| Circuit breaker, vendor call (`core/circuit_breaker.py`, `integrations/base_client.py`, `core/retry.py`) | state, failure count, time opened, trial flag, shared by all threads per vendor | allow, record_success, record_failure; call with retries | calls admitted before an outage report after it |
| Token bucket (`core/rate_limiter.py`) | tokens, the time of the last refill | try_acquire, acquire with a timeout | threads sleep between computing a wait and taking a token |
| Spend (`core/rate_limiter.py`, `integrations/usage.py`) | session and day counters; rows on disk | charge, release, remaining; record, update, spent_since | check and charge from many threads; midnight; restart; calls nobody charges |
| Audit pipeline (`prompt_tracking/pipeline.py`, `audit.py`) | run plan, futures, outcomes; SQLite | harvest, select, audit on a pool, keyword ranks, store | refusal in the middle, failing futures, nothing stored until the end |
| Due work and sampling (`control_plane/planner.py`, `sampling.py`, `runner.py`) | the history is the schedule; summaries of past crawls | plan, batches, run, record | savings and boosts over crawls that may be lost |
| Project store and API (`control_plane/store.py`, `app.py`) | projects and prompts in SQLite | create, read, update, delete | edits while a crawl runs, locale freeze against the first crawl |
| Consolidation and positioning (`positioning.py`, `stability.py`, `core/stats.py`) | project runs, windows, stored positions | consolidate, aggregate, classify | the page consolidates while a crawl records; small samples |
| Insights (`control_plane/insights.py`) | none of its own; action states | one pass over a window | the same rate over different denominators |
| Alerts (`alerting/`) | destinations, events with a status | evaluate, suppress, deliver, mark | daily limit, crash between sending and marking |
| Reports (`reporting/`, `report_routes.py`) | reports on disk, a queue, a worker | create, generate, check the prose, deliver, purge | queue full after the row exists, restart, invented figures |
| Crawler logs (`crawler_logs/`, `crawler_routes.py`) | imports, days and hits in SQLite | upload, parse, deduplicate, purge, delete, read | the same file twice, days covered by several files, deletion during an upload |
| Scheduler (`prompt_tracking/scheduler.py`) | jobs' last runs | run_due, the daemon loop | jobs that fail, are interrupted or outlast their interval |
| Prompt generation and selection (`prompt_tracking/`) | none | generate, gate, score, pick, map | order of candidates, analyst's own lines |
| Vendor connectors, analysis of answers (`integrations/`, `citations.py`, `mentions.py`, ...) | none | parse, resolve, fold samples | formats, positions, duplicates |
| Sentiment judge (`prompt_tracking/sentiment.py`) | judgements in SQLite | select, batch, call, record, show | replies reordered, short, doubled, refused |
| Cost reporting (`costing.py`, `pricing.py`, `usage.py`) | reads the usage rows | price, report | a call has up to three prices |
| Governance and configuration; web pages; scripts | | | not modelled |

Interactions. The page and the poller submit to the job queue; its worker calls
the runner, which asks the planner what is due and runs one pipeline per batch;
the pipeline's pool threads share one RunPlan, the process's CostLedger, and one
circuit breaker and one token bucket per vendor; every vendor call leaves a row
in the usage ledger, which the CostLedger of the next day or process reads back
and the cost report sums. The connectors turn replies into answers, which the
pipeline folds into snapshots, and the judge scores the names in them. After a
run the runner records it, consolidates a complete window and raises alerts from
the window's insights; reports and dashboards read the same positions. Uploaded
access logs are joined with the citations on one tab. Prompts and locale change
through the API while all this goes on.

What makes each part correct is stated as its module's properties below.

## Modules

State machines:

| Module | What it is |
| :-- | :-- |
| `RunQueue` | what the queue promises: a run waits at most once, a bounded number wait, one runs at a time |
| `JobQueue` | `jobs.py` with its callers, worker, poller, deletions and restarts; implements `RunQueue` |
| `CircuitBreaker` | the breaker under callers that look, call, retry and report |
| `TokenBucket` | one vendor's quota under threads that take, wait and give up |
| `VendorCall` | composes the two into `BaseAPIClient.call` |
| `Spend` | CostLedger, usage rows, and every call of a run, over days and restarts |
| `AuditRun` | one pipeline run: sampling under a RunPlan, collecting, keyword ranks, storing |
| `Tracking` | a project's prompts, locale and crawls, planned by `Sampling` |
| `Windows` | a project's full crawls and the windows the worker and an analyst make of them |
| `Alerts` | the gates of one project's alerts, delivery, and the history they read |
| `Reports` | PDF reports: rows, files and the queue, under the worker, the owner and restarts |
| `CrawlerLogs` | imports, days and hits under overlapping uploads, purging, deletion and restart |

Algorithms:

| Module | What it is |
| :-- | :-- |
| `Sampling` | `sampling.py`, `planner.py`: the plan of one crawl and its batches |
| `AccessLog` | `parser.py`, `normalise.py`, `ingest.py`, `funnel.py`: a log becomes rows, rows become a tab |
| `Evidence` | `core/stats.py`, `stability.py`, `aggregate_position` |
| `Insights` | `insights.py`: tiles, changes and action cards; extends `Evidence` |
| `AlertRules` | `alerting/triggers.py`; extends `Insights` |
| `FactSheet` | `reporting/facts.py`, `narrative.py`; extends `Insights` |
| `Selection` | from keyword demand to tracked prompts and their pages |
| `Connectors` | each vendor's reply as one form of answer; redirects |
| `Answers` | mentions, snapshots, organic ranks and the prompt's record; extends `Connectors` |
| `Sentiment` | the judge's candidates, batches and replies, and where a verdict is shown |
| `Scheduler` | the command line's jobs |
| `Costs` | list prices, what a call cost, the report |
| `Lists` | a comprehension with a condition and `sorted()`, said by ranks |

`MC*` are small instances for TLC: symmetry sets and constant functions, and for
the algorithms the inputs. `*Proofs` hold the theorems about the module of that
name; `VendorProofs` covers `CircuitBreaker`, `TokenBucket`, `VendorCall` and
`Spend`, `CrawlProofs` covers `Windows`, `Tracking`, the plan of `Sampling` and
`Scheduler`, `CrawlerLogsProofs` covers `AccessLog` too, `ReportsProofs` `Costs`,
`AuditRunProofs` `Selection`, `AlertsProofs` `AlertRules` and `Evidence`, and
`FoldTheorems` is their library on folds, sums and lists.

**JobQueue.** `order`, `state`, `asked` are `_order` and `_jobs`; `queue` and
`worker` are the fields of that name. `submit` is four steps because the code
takes the lock twice and puts the job on the queue in between: `Lookup` (the
store), one of `Coalesce`, `Refuse`, `Admit` (the critical section with its
trailing `_trim`), `Put`, `EnsureWorker`. The worker's loop is `Take`, `Begin`,
`End`. What a run does is the environment: it ends or raises. Job ids are drawn
again once nothing refers to them, so the model never runs out of them.

**CircuitBreaker, TokenBucket, VendorCall.** Time since the breaker opened is
`waited`, which stops at the cooldown. `Promotes` is `_promote_locked`, which
every method calls first, so it is part of each action. A trial whose flag
another call's report cleared is marked `disowned`; nothing in the code knows
it, and the property needs it to tell the trial of this period from older ones.
The bucket counts in units, `Unit` to a token, so that rates below a token a
tick are integers; each clock (`since`, a waiter's `left` and `nap`) is cut off
where the code no longer tells two times apart. `acquire` is `Short`, then
`Sleep` or `GiveUp`, then `Wake`: others take tokens in between. In `VendorCall`
the breaker is asked once per call, each attempt waits for a token of its own,
and a token that did not come in time is an error like another: it is retried
if attempts are left and otherwise reported to the breaker as a failure.
Every action of `VendorCall` is written as a step of the breaker, of the bucket
or of both, so that it refines the breaker says nothing of the client. What is
checked of whole calls is that each ends, that the breaker closes for good once
the vendor answers (`RecoversThrottled`), and that it opens for good once nobody
is served, for whichever of the two reasons (`OutageTrips`).

**Spend.** Money is whole units. `spent`, `ledgerDay`, `baseline`, `reserved`
are the ledger's fields; `recorded` is what `spent_since(midnight)` would
return, and `unseen` is a history variable that no guard reads: what today's rows
may cost besides what the ledger counts for today. It starts, when the ledger
first looks at a day, with the calls that are out and what a harvest may still
give back, and grows with every row written past the ledger. `held` is the call each thread has
charged, `harvest` the local variables of `_harvest`. `escapes` says whether, in this behaviour, what gets
past the daily ceiling may happen: calls nobody charges (the judge, a deferred
AI Overview, the command line's own ledger), a Semrush error body, a bill above
the estimate, and a midnight with calls out. `FitsBesideRows` is checked with all
of them: whatever the ledger cannot know, a charge goes through only if it fits
beside all the rows it can. `ChargedWithinDailyCap` is for behaviours without any.

**AuditRun.** `audit[t]` is where `audit_engine` is for a (prompt, engine) pair
and its counters; an answer cites the client or not, which is all `consensus`
looks at. `next` is the future the main thread waits for, `stop` is
`stop_reason`; `cursor`, `snapshots`, `samples` are the database. Any other
exception than a RankunoError or a refusal, and every one out of the hook that
follows an answer's redirects, is possible (`Breaks`,
`LookUpBreaks`, `StoreFails`), and the process may die anywhere before the end.

**Tracking.** `prompts` are the rows of `project_prompts`, with the text and the
`prompt_id` they were created with; `history` is the newest snapshot per
`prompt_id`, with the verdict stability would give it; `crawls` are the
`calls_saved` and `calls_boosted` of recorded crawls, which the next plan reads.
`Begin` reads the project once and plans it with `Sampling`'s own operator,
`RunBatch` stores under the id of the text it asked, `Record` stores the
summary. `net`, `moved` are history variables. One platform: pairs on two are in
the algorithm's run.

**Windows.** `full` are the rows of `project_runs` with `full = 1`, by
`started_at`; `windows` the rows of `consolidations`. `run()` is `StartCrawl`,
`RecordFull` or `EndWithoutWindow`, and `Decide`; `PositionStore.consolidate`
is `Stamp` (the caller reads the clock for its argument), `Compute` and
`Store`, on the worker's or the analyst's thread, so the two interleave at
every transaction. `faults` says what may disturb a behaviour: a window size
named by the analyst (`custom`) or changed by the owner (`resize`), a crawl
lost between its row and its window (`lost`), and a handler that sleeps between
its clock and its query for as long as a crawl takes (`slow`); the properties
name the faults they do not survive.

**Alerts.** `rows` is `alert_events` and `dest` the row of
`alert_destinations`. `Raise` is `_raise_alerts` up to the dispatch, with the
events the rules found as its input; `Open` is the head of `dispatch`, and each
event is `Record` with the reason of `_suppressed`, then `Deliver` and `Mark` if
there is none. `Break` is the exception `_raise_alerts` swallows, or a crash. A
row's `outcome` is its reason, or what `mark` wrote, or `pending`: not marked.
`sent` is not in the code: it is what really went out. One channel's failure is
not told from the other's, since one success counts as a delivery. Which events
there are is `AlertRules`.

**Reports.** `rows` are the rows of `report_runs` (state, whether a file is
named, purged or not), `disk` the PDFs on the volume, `waiting` the worker's
queue. `create_report` is `Create` and then `Submit` or `Refuse`; `delete` is
`ReadToDelete`, `Unlink`, `Delete`, because the worker's thread may write between
them. The worker is `Take` and one action per statement that writes: `Start`,
`Write`, `SaveFile`, `Mail`, `Fail`, `Finish`; it holds one record and `Save`
writes all of it back. A restart purges (`PurgeFile`, `PurgeRow`) before it
serves. `broken` is not in the code: the reports that were refused, or that a
crash, a failing statement or a deletion at the wrong moment broke off.

**CrawlerLogs.** `imports`, `days`, `hits` are the tables; an upload goes
through `Receive` (event loop), `Parse` (pool thread, second look at the
project), `LookForDuplicate`, `Insert` (the unique index), `Reread` and
`PurgeAndAnswer`. Every `with _connect()` is one step, except the look for a
duplicate, which is before the transaction begins. Deleting a project is two
transactions. What a file holds (`DayLines`, `HitDays`) is a constant here; the
instance computes it with `AccessLog` from the same lines, so that the days a
file covers and the days its hits are on are those the parser gives.

**The algorithms.** A definition has the name of the function it translates
where TLA+ allows it, and folds or comprehensions in place of its loops. Texts
are records of what the code tests of them (words, vocabularies, terms,
figures), urls are numbers with a host, rates are integers out of `Scale` (so
that rounding is modelled), and each module's header says how. `MCAlgorithms`
is a one-step machine: a behaviour picks a topic and one input of it, and the
invariants are the modules' properties at that input. A mutant of an operator is
found the same way as one of an action.

## Runs

| Run | Question | Bounds |
| :-- | :-- | :-- |
| `queue` | Is a run ever queued twice, lost, delivered twice, run beside another, or forgotten while alive? Does the queue implement `RunQueue`? | three requests for a queue of two, so that it fills and refuses; four ids, one kept, so that trimming happens; two threads, for a second worker; one restart |
| `queue_turns` | Does every waiting job start, and every project run for ever? | as many projects as the queue holds, so that nobody is refused |
| `breaker` | One trial per period, the vendor's rate; does a call end, does the breaker recover, and does it open in an outage that lasts? | two callers, one stale while one is on trial; two failures open it; two attempts per call, so that a refused token is retried and reported; a bucket of two tokens refilled at half a token a tick and a timeout of two, so that callers wait, win, lose and give up |
| `spend` | The cap over threads, midnight and a restart; does a charge fit beside everybody's rows? | two pool threads and the harvest; three days, so that a ledger that looked once looks again; ceilings of four and five with estimates of one and two, so that both ceilings refuse, and not the same calls |
| `audit` | Paid answers kept, everything accounted for, sampling complete; does a run end? | two prompts, three tasks on two threads; three samples of which two may agree; a cap and a budget that run out inside a task, the budget first or the cap first |
| `tracking` | Are boosts covered by what is counted as saved, is a project's history of one market, is every prompt asked again? | two rows, one important, two texts, one stable and one volatile; a window of three and a stretch of two, so that a pair is skipped, comes back and is boosted; one crawl lost, one edit at any point |
| `windows` | Are crawls counted once, is none skipped, does a backlog become a window? | sizes two and three, so that an analyst's window overlaps an automatic one in both directions; six readings of the clock, enough for two windows and one asked for between them; every set of faults |
| `alerts` | Is the history true, do cooldown and ceiling hold over batches, crashes and changes of the destination? | two keys, batches of up to two, four rows: twice the ceiling; a day of two ticks and a cooldown of one out of three, so that both expire, at different times; no mail server, so that the e-mail destination is out of reach |
| `reports` | Do rows and files agree, does a report that ended stay so, does every accepted one end? | three reports and a queue of one, so that one is held, one waits and one is refused; one restart |
| `crawler_logs` | Is a content counted once, does a deletion leave nothing, does the purge take rows and coverage together? | two uploads of two files that share days and not all of them; three ids, three days with a retention of one, so that a purge takes part of a file; logs at UTC |
| `algorithms` | Do the pure parts keep what they promise? | about 140 000 inputs: per topic, every combination of the kinds an input has a case for (below) |
| `edited_prompt` | Are a tracked prompt's answers stored under its own id? No, after an edit | as `tracking` |

The topics of `algorithms`: plans of three pairs on two platforms; logs of three
lines of each form, method, agent, path and status, in both formats, and arrays of
two records, some broken; histories of four crawls
with small and mixed samples and a changed model; windows of three snapshots;
dashboards of two prompts on two engines over two windows, one page to a list; alerts at the edges of
their thresholds; reports with model replies that are complete, missing, turned down, partial, invent a
figure or an address; selections with duplicates and tied scores; replies in
each vendor's format with unplaced, unresolvable and redirected sources, robots.txt
allowing, refusing or failing; one to
three samples with overlapping names; judge's replies of every manner, one under the name
of a dated model; two
jobs over four passes with failing, long and interrupted runs; ledgers of four
calls of every status and price. The operators look at one input at a time and
compare pairs of its parts, so two or three parts of every kind meet each case.

Deadlock is not checked in `audit`, because a run ends there for good (`done`,
`failed` and `crashed` are final); in `windows`, where nothing starts after
`MaxClock`; in `reports`, which is over once every report has been asked for
and has ended; and in `algorithms`, where a behaviour is one step.

Fairness. `JobQueue`: threads go on, the poller's timer fires again and again,
and a run ends because each vendor call has a timeout. `VendorCall`: time
passes, threads are scheduled, requests have a timeout of their own, and the
runs call again. `AuditRun`: pool threads and the main thread go on.
`Tracking`: the poller finds the project idle again and again (strong fairness
of `Begin("due", Rows)`), a crawl goes on, and the batch a text is in is not
refused for ever (strong fairness of `Answered`); without the last a dead
vendor refutes it, rightly. `Windows`: the worker thread goes on with the crawl and
the consolidation it has begun; `EndWithoutWindow` is in the same fairness
condition as `RecordFull`, so no crawl is assumed to capture anything. Nothing
is fair about an analyst. `Reports`: a handler runs to its end and the worker's
thread goes on; nothing is fair about what an owner asks for. `Alerts`, `Spend`
and `CrawlerLogs` state no liveness: a crash may take any alert or upload, and
nobody has to call. Crashes, deletions, failures, clients and midnight have no
fairness.

## Disagreements between the code and what it says of itself

`edited_prompt` shows one: the runner hands a tracked prompt to the pipeline as
text, and the pipeline derives the id again, so after an edit the answers go to
an id no tracked prompt has (ADR 0016:38 and :70 say otherwise). The others were
seen while modelling and have no run.

Queue, calls and spending:

- `put` outside the lock means jobs can start in another order than they are
  listed, against "One worker thread executes jobs in order" (`jobs.py:4`). A
  full queue raises in the middle of `run_due_all` (`jobs.py:121`), which always
  begins at the head of the list: with more projects than places the last ones
  may never be queued.
- A report of a call from before the outage clears the flag of the trial in
  flight (`circuit_breaker.py:100`, `109`), so a second trial may overlap the
  first, against "exactly one trial is admitted" (`:88`). What does hold is
  `OneTrialPerPeriod`. The program's own throttling is reported to the breaker as
  a failure of the vendor (`base_client.py:139-157`), so a burst can open it.
- The judge calls a vendor without charging the ledger (`sentiment.py:326`),
  against ADR 0021:67-68. A deferred AI Overview is a second billed request under
  one reservation (`serp_api.py:153`), against "every engine call is charged
  before it is made" (README.md:410); the command line's ledger has no daily
  ceiling (`prompt_tracking/__main__.py:217`, `248`); and the rollover at midnight
  forgets the reservations of calls in flight (`rate_limiter.py:226`). These are
  escapes of `Spend`, and each alone lets more than the cap be recorded.
- Nothing is stored before the whole audit is over (`pipeline.py:311`), so a run
  that breaks off loses what it paid for, against "everything collected so far
  is already in the database" (README.md:414).

Crawls, windows and prompts:

- The locale is frozen by recorded crawls (`app.py:235-245`), so it can change
  while the first crawl stores its rows; ADR 0023:34 and the message say that
  what was captured is of one market. `OneMarket` excludes that window.
- What a crawl saved counts as saved also when its batches were refused, and a
  crawl lost before its record has boosted without being charged for it. And a pair
  that several crawls of one interval skip is counted as saved by each of them
  (`sampling.py:209`), although at its base rate it would have been asked once. So
  "Net spend never exceeds the fixed baseline" (`sampling.py:17-18`) is not given.
  `BoostsCovered` says less: the boosts of recorded crawls are covered by what
  those crawls counted as saved, and no saving pays twice.

Alerts and reports:

- A request of the judge that is turned down (a 4xx, a body that is no JSON object)
  is an `UpstreamClientError` (`errors.py:93`), which `compose` does not catch
  (`narrative.py:334`): the report fails, against "Never raises: a report that cannot
  borrow words still has its numbers" (`narrative.py:310`, and `reporting/worker.py:11`).
  `ProseChecked` says that nothing else keeps a report from its words.
- A report deleted between its worker's `Write` and `SaveFile`, or before them,
  leaves its PDF on the volume for ever, against "Remove a report and its file"
  (`reporting/store.py:273`). A report the queue refused, or that a crash caught,
  keeps the state `queued` or `running` for ever. In `Reports` both are `broken`.
- ADR 0024:139 says of a deleted project "Its destination, its history and its
  reports go with it"; `delete_project` of the API (`app.py:247`) calls neither
  `ReportStore.delete_project` nor the one of the alerts, which have no caller.
- A competitor surge is counted by `change.after` (`triggers.py:125`), which for a
  new competitor is the share it came in with, not its domain: rivals with one
  share are added up, and one rival with two shares is not.
- A headline is cut to 120 characters and a summary to 1600 after they were
  checked (`narrative.py:353`, `356`), which can cut a number in two. The
  whitelist, "every numeric string the report itself would print"
  (`narrative.py:161`), has none of the figures in cards, changes, dates and
  brand names that the model is given and the report prints.
- The share of voice is out of the listed domains, those with two percent or
  more and at most eight, against "every source these answers cited"
  (`facts.py:294`).

Logs, answers and verdicts:

- A day's coverage is that of the written stamp (`parser.py:88`), a hit's day is
  UTC (`ingest.py:107`, `123`): with logs off UTC a hit can lie on a day its file
  does not cover, and falls under "no log for this day", against ADR 0022:85-86.
  `HiddenOnlyByWinner` is checked and proved for logs at UTC.
- A combined line with a bad time after a good one, and a Cloudflare record with
  one anywhere, is in no counter (`parser.py:258`, `359`). Of a log that is one JSON
  array the `lines` are the number of its records (`parser.py:371`), while its
  duplicates and overlong lines were counted, and taken out, line by line before: a
  pretty-printed array whose records share a line is no JSON any more and is
  refused. How many hits the cap on keys dropped is not known (`ingest.py:126-128`
  keep only that it did). `LinesAccounted` and `RowsAccounted` say what is left.
- A content whose rows the purge took is still refused as a duplicate.
- robots.txt is fetched outside the `try` (`url_resolver.py:98`, `135`), and its error
  passes `_resolve_unresolved` (`pipeline.py:490`) and the hook of `audit_engine`
  (`audit.py:187`): one host's failing robots.txt call, an open breaker or no token
  included, ends the run, against "best-effort enrichment, never a hard dependency of
  the pipeline" (`url_resolver.py:16-17`). `ResolvedTogether` says that no other fault
  of a link costs an answer.
- The source shown beside a mention is looked up by prompt and sentence over all
  samples and engines (`insights.py:207-213`, `998`), so it may be one that only
  another engine's answer with the same sentence cites.
- `card_from` promises "One card per (page, bot)" (`crawler_cards.py:36`), but the
  id (`:65`) is made of the engine and the page: two crawlers of one engine share it.
- A sentence that two samples of a crawl share is asked, and paid, for each, and the
  verdicts may differ: a repetition is dropped within a sample only
  (`sentiment.py:172`), and the cache is read once, before the first batch (`:355`).
  ADR 0021:49-53 says the cache "short-circuits identical sentences across samples"
  and "makes repeated sentences score identically by construction". What holds is that
  no candidate already scored, in an earlier run and by the model that is asked, is
  asked again (`JudgedOnce`).
- The cache of verdicts is asked under the judge's configured model and filled
  under the model the reply names (`time_series_db.py:474`): where they
  differ, nothing is ever found in it.
- The price families of `claude-*` are never looked at, since only `gemini` and
  `openai` have a family (`pricing.py:89-95`). A client's domain entered as a
  subdomain never matches a citation, which is cut to its registrable domain.
- A scheduled job interrupted from the keyboard leaves no trace, and the status
  shows the stored `next_run_at` even after the interval changed.

## Proofs

The theorems hold for all values of the constants that satisfy the modules'
assumptions: any number of callers, threads, jobs, prompts, uploads and days,
all capacities, thresholds, prices and caps. Each proof module strengthens the
properties to an inductive invariant, shows that `Init` implies it, that each
action keeps it (one lemma or step per action) and that it implies the property.

- `JobQueueProofs`: types, `NoTwins`, `OneRun`, `Delivery`, `Retention`, and that
  every step is a step of `RunQueue` or a stutter (`KeepsPromise`). The invariant
  says where a job id can be (a caller's hand, the queue once, the worker) in each
  state of the job; `Retention` counts the jobs that ended through the places
  they have in the list (`RetainInv`), so `_trim` never has two to drop, which is
  what the model's `Forgotten` relies on.
- `VendorProofs`, calls: types, `OpensAtThreshold`, `OneTrialPerPeriod`,
  `RefusesWhileDown`. Needed besides: the trial flag and the call that carries it
  agree (`BreakerInv`). Every step of `VendorCall` is one of the breaker or leaves it
  alone, so `OneTrialPerPeriod` holds of whole calls too; and `RateKept`, from the bucket's `LoadCovered`:
  what was taken lately and what is left never exceed a full bucket.
- `VendorProofs`, money: types, `SessionCap`, `FitsBesideRows`,
  `ChargedWithinDailyCap`. Needed besides: what a harvest may still be billed was
  reserved for it, so that what it gives back was its own; for `FitsBesideRows`,
  that the rows of the day and what the calls out and the harvest may still change
  are together no more than `baseline + reserved + unseen`; and for the daily
  ceiling (`DayInv`), that the rows of the day and what the calls in flight may
  still add to them are together no more than `baseline + reserved`, once the
  ledger has looked at the day. What they may add is a sum over the workers; it is
  carried as a witness, the function that gives the sum of every set of workers.
- `AuditRunProofs`: types, `PaidKept`, `StopReported`, `Sampled`, `Accounted`.
  Needed besides: the counters of an audit by where it is (`AuditInv`), what is
  known of the futures before `next` (`MainInv`), that the prompts before the
  cursor are complete (`StoreInv`), and that the plan's calls and money are the
  sums of the audits' own (`AccountInv`, a witness of the same kind).
- `CrawlProofs`, windows: types, `AutoDisjoint`, `LatestReachesFurthest`,
  `NoCrawlSkipped`. Needed besides: whatever the worker is about to store lies
  after the last crawl of every automatic window (`FreshInv`, `AfterInv`), and
  the dates of windows and of calls in progress follow the crawls they saw
  (`DateInv`); for `NoCrawlSkipped`, that no more crawls wait than a window
  holds, so that the newest n are all that wait (`CoverInv`, `SkipInv`).
- `CrawlProofs`, plans: `BoostsCovered`, which is about what the crawls count as saved
  (see above), and `OneMarket`. A plan may carry what the
  newest crawls left, so `net >= 0` is not inductive: `NetInv` says that `net` is
  at least what any number of the newest crawls left together, and the boosts of
  a plan are at most its savings and one such sum (`PlanAffordable`). The bound
  `MaxNet` of the runs never bites: `NetAssumption` puts it above what the crawls
  can save. `MarketInv` adds to `OneMarket` that the market a crawl will store
  under is that of the rows there are, unless the locale moved. `PlansAddUp` is
  `PlanAddsUp` for every finite set of pairs, every policy and all earlier crawls.
- `CrawlProofs`, jobs: `JobsAlwaysOnTime` is `RunsOnTime` for all jobs and passes.
  Carried through a pass: the table holds the last noted start of each job
  (`StartsDated`, `Backed`) and each job the pass has looked at ran, is disabled or
  was not due (`SeenTo`); carried from pass to pass: later starts are later than
  every earlier pass, so they do not change what was due then (`EarlierPass`).
- `CrawlProofs`, batches: `BatchesAlwaysPartition` for every finite set of items.
- `AuditRunProofs`, selection: `SelectionAlwaysFair`, `CustomAlwaysKept` and
  `MappingAlwaysGrows`, for lists of any length. The places in the pick's order of
  the candidates of a stage are every whole number below its size (`PlacesFill`),
  no two candidates have the same turn (`TurnsDiffer`), so the pick has the size of
  the quota, and the number a stage gets is a function of the sizes of the stages
  alone (`TurnsMatch`), which a reversed list shares. Of pages: shares are compared
  by their products, an order with a greatest member in every list (`BestShare`).
- `AuditRunProofs`, the judge: `MentionsAlwaysJudgedOnce` is `JudgedOnce` for any
  samples, store, limits and replies. A list of lists has what its parts have, as
  often (`FlatIs`, `FlatWeighs`), so the candidates are as many as they are different
  (`CandidatesAre`, `Counts`), each one to ask is in one batch (`BatchesHold`: chunks
  of a size, of the engines), and rows that tell of the parts of a list tell of the
  whole (`TellsFlat`). Assumed: no two samples have the same key, the store has one
  row for a candidate, and `truth` is what the vendor's first item with a
  sentence's id, or the store, says of that sentence. With a cap of 0, where the
  judge is off, there is nothing to prove. `ContextAlwaysTrue` is `ContextTrue` for any
  samples and verdicts: a list's block is the block of each of its items (`OneBlock`);
  the index of claims has a source for exactly the sentences that some answer of the
  prompt attributes (`ClaimIndexed`), so a source is given (`SourceFrom`) and an
  attributed sentence has one source wherever it stands (`OneSource`).
- `AlertsProofs`: types and all four properties. Needed besides: no row is
  dated after its dispatch's clock (`StampInv`), the row being sent passed the
  cooldown and stays the last (`QuietInv`), and the dispatch's own count is the
  number of rows delivered in its day (`CountInv`).
- `AlertsProofs`, the rules: `AlertsAlwaysSound`, `AlertsSound` for windows of any
  number of pairs, any z and any scale. Of the bounds of a rate: the upper one is the
  least grid point outside the score inequality (`HighOf`), so it is not below the
  rate (`HighCovers`), the lower one is not above it, and both move towards it when
  the answers are doubled in the same proportion (`HighNarrows`, `LowNarrows`). So two
  engines' bands cannot each be below the other, and a fall stays one. Of the digest:
  a stable sort and a cut keep the lightest (`CutKeepsLightest`).
- `AlertsProofs`, the evidence: `WindowAlwaysPools`, of a window of any number of
  crawls. Its rate is a mediant: of parts, one has at least and one at most the
  pooled rate (`Mediant`); counts by value add up to the answers (`CountsAddUp`).
  `VerdictAlwaysSettled`, of any history and any window, age and z: filtering a
  history and filtering the newest part of it give the same list where that fills
  the window (`OlderAdmitsTheSame`); a mirrored history keeps its flips, streak and
  answers, and the score inequality is symmetric (`StraddlesMirror`); a share that
  does not straddle a half has its band on its own side, since 4g(S-g) is at most
  S*S (`BandBelow`). Assumed: ZDen and MinOk are positive, and no crawl is cited by
  more answers than it has, as a snapshot's counts are.
- `AlertsProofs`, the shares: `SharesAlwaysAddUp`, `SharesAddUp` for any answers that
  cite pages the project knows, any finite set of site classes, any length of the two
  lists of pages and any verdicts of the judge. The links of the answers are counted
  by answer or by page (`CountsPairs`, `PagesAddUp`), the pages of a kind are in one order and a cut by
  rank keeps as many as there is room for, the first ones (`RankCut`,
  `PagesAlwaysShown`), the polarities part the scored sentences
  (`PolaritiesPart`), and a rate of none has the whole scale for its band
  (`BandOfNone`). The proof set the tolerance: each class is rounded by
  itself, so a profile of n classes is off the whole by up to n halves of the last
  digit (`RoundedParts`): 4 digits for the 8 classes of `classify_domain`, 2 for the
  4 classes of the run.
- `ReportsProofs`: types, `FilesMatch`, `StaysEnded`. Needed besides: who holds a
  report (`HoldInv`), the state it then has (`WorkInv`), and where its file is
  while the worker, or a handler, is at it (`Worked`, `Handled`).
- `CrawlerLogsProofs`: types, `ContentOnce`, `NothingLeftBehind`,
  `RetentionKept`, and `HiddenOnlyByWinner` for logs at UTC. Needed besides: an
  upload past its last look at the project writes for one that exists or that it
  outran (`WriterInv`), and its import, while it has one, is the row it recorded
  (`UploadInv`). Then a log's algorithms, for logs, lists of hits and tables of any
  size: `LogLinesAccounted` (each line keeps the counters good, `LogGood`, and then
  each record of an array, `RecordsGood`), `RowsAlwaysAccounted` (each hit keeps the result `Consistent`: its counters and
  the sums of its tables grow by the hit's weight, `SumTally`), and
  `FunnelAlwaysTrue` (`SumGroups`: a table's total is the sum of the totals of its
  groups, whatever it is grouped by).
  `KeysMeet` is `OneKeyPerPage` for every path.
- `ReportsProofs`, costs: `CostsAlwaysAddUp` for a ledger of any length, by
  regrouping one sum by vendor, by run and by prompt; `PricesAlwaysSound` for every
  price list that charges no more for cached input than for input, as the table
  of `pricing.py` does. The proof found a limit of what the report promises: a
  suggested reservation is rounded up from a mean that is itself rounded to five
  digits, so calls whose mean is below half of the last digit get the suggestion 0.
  `CostsAddUp` excludes them.
- `FoldTheorems`: what the others need of the folds of the community modules. The
  installed provers cannot use an induction theorem, but a smallest subset where
  a statement fails serves as well: it has an element, and without it the
  statement holds (`FoldStays`: the values of a fold stay where its base is and its
  step stays; `FoldExists`: a fold has a value, so that the `CHOOSE` behind it
  means something). From these two: sums add up, split, compare and regroup. Then
  lists: an enumeration by rank goes up and misses nothing (`RankLists`), so
  filtering composes, is unmoved by a shift (`EntriesShifted`) and sorting is stable.

`OneRun`, `OpensAtThreshold`, `RefusesWhileDown`, `SessionCap`, `StopReported`,
`LatestReachesFurthest` and `TrueReasons` are proved and in no run.

Only model-checked:

- everything that needs fairness (`WaitingJobStarts`, `EveryProjectRuns`,
  `CallEnds`, `RecoversThrottled`, `Ends`, `QueuedEnds`, `BacklogClears`,
  `EveryPromptAsked`);
- the runs of `MCAlgorithms` as such: what its invariants `ChoicesHold`, `LogsHold`,
  `EvidenceHolds`, `MentionsJudged` and `MoneyAddsUp` say of the inputs they enumerate
  is proved for all inputs, part
  by part, by the theorems above;
- `DashboardsHold` but for its alerts (`AlertsAlwaysSound`) and its shares
  (`SharesAlwaysAddUp`), and `AnswersHold`. They go through texts and replies with folds over
  sequences and `SetToSortSeq`, or are long conjunctions not yet taken apart.

## Plan

1. Done: the concurrent core, each part with its properties, mutants and proofs:
   `JobQueue`, `CircuitBreaker`, `Spend`, `AuditRun`, `Windows`, `Alerts`,
   `Reports`, then `TokenBucket` and `VendorCall`, `CrawlerLogs`, `Tracking`.
2. Done: the algorithms, in the order in which an answer becomes a figure:
   `Selection`, `Sampling`, `Connectors`, `Answers`, `Sentiment`, `Evidence`,
   `Insights`, `AlertRules`, `FactSheet`, `AccessLog`, `Scheduler`, `Costs`.
3. Done: the invariants that are sums (`ChargedWithinDailyCap`, `Accounted`,
   `BoostsCovered`), `OneMarket`, a library on folds and sums, and with it the first
   algorithms for all inputs: plans, jobs, logs and their tab, batches, what a
   ledger costs, the tracked set with its pages, the alert rules, a pair's verdict,
   a window's position, the judge and the shares of a dashboard.
4. Next, with the same library: the dashboard's changes and action cards.
5. Then: the history and velocity queries of the time series database, the
   queries of the position views.

## Not modelled

Of what is modelled: the caps on bytes of an upload (they refuse it, as a broken
array does), and the caps on the dashboard's lists of sources read but not cited
(50, of which the first ten get a card), claims (500) and queries (200). The caps of
the lists of pages, changes, actions and keys are constants.

Accounts, sessions and access control, the attempt limiter, validation and
approval before a run, settings and logging: what they decide does not outlive
the request, or is one comparison. Vendors' HTTP, Slack and mail beyond success
and failure. Wording, templates and regular expressions, which are data of the
models; PDF layout; exports; the placement of a card on its page; the web pages,
and the scripts that seed demonstrations and check a deployment. They keep no
state that two steps could disagree about.
