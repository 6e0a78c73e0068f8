------------------------------ MODULE AuditRun ------------------------------
(***************************************************************************)
(* One execution of PromptTrackerPipeline (prompt_tracking/pipeline.py):   *)
(* audit_engine samples every (prompt, engine) pair on a pool of threads,  *)
(* under one RunPlan; the main thread collects the futures in the order    *)
(* they were submitted, looks keyword ranks up, and only then writes the   *)
(* database, prompt by prompt, and the run's row last.                     *)
(*                                                                         *)
(* An answer either cites the client or does not: that is all consensus    *)
(* looks at.  The vendor, its breaker and exceptions nobody expected are   *)
(* the environment.                                                        *)
(***************************************************************************)
EXTENDS Integers, FiniteSets

CONSTANTS
  NumPrompts, NumTasks,
  PromptOf,      \* per task: its prompt
  Price,         \* per task: _cost_for its engine
  Samples,       \* samples_per_engine
  MinSamples,    \* min_samples; above Samples, sampling is not adaptive
  MaxCalls,      \* max_engine_calls, and a bound when that is 0 (no cap)
  Budget,        \* what the CostLedger will admit of this run's charges
  MaxWorkers,    \* pipeline_max_workers
  Keywords,      \* distinct seed keywords to look up
  KeywordPrice

Prompts == 1..NumPrompts
Tasks == 1..NumTasks    \* in the order they are submitted

ASSUME ConstantsAssumption ==
  /\ NumPrompts \in Nat /\ NumTasks \in Nat
  /\ PromptOf \in [Tasks -> Prompts]
  /\ Price \in [Tasks -> Nat] /\ KeywordPrice \in Nat
  /\ Samples \in Nat \ {0} /\ MinSamples \in Nat \ {0}
  /\ MaxCalls \in Nat /\ Budget \in Nat /\ MaxWorkers \in Nat \ {0} /\ Keywords \in Nat

VARIABLES
  phase,         \* where _execute is
  audit,         \* per task: where audit_engine is, and its counters
  calls,         \* plan.calls
  left,          \* headroom of the CostLedger
  next,          \* the future the main thread waits for
  stop,          \* stop_reason is set
  outcomes,      \* tasks with an outcome
  engineCalls, keywordCalls, spent,    \* what the run's row will say
  keywords,      \* keywords not looked up yet
  cursor,        \* the prompt that is being written
  snapshots, samples                   \* tasks whose rows are in the database

planVars == <<calls, left>>
mainVars == <<next, stop, outcomes, engineCalls, spent>>
keywordVars == <<keywordCalls, keywords>>
storeVars == <<cursor, snapshots, samples>>
vars == <<phase, audit, planVars, mainVars, keywordVars, storeVars>>

Fresh == [at |-> "queued", cited |-> 0, uncited |-> 0, failures |-> 0, calls |-> 0]
Running == {"loop", "asking"}
Over == {"full", "agreed", "open", "refused", "raised", "broken"}

Reused == {t \in Tasks : audit[t].at = "reused"}

\* A recent enough snapshot stands in for a task: it is an outcome already.
Init ==
  /\ phase = "audit"
  /\ \E recent \in SUBSET Tasks :
       /\ audit = [t \in Tasks |-> IF t \in recent THEN [Fresh EXCEPT !.at = "reused"] ELSE Fresh]
       /\ outcomes = recent
  /\ calls = 0 /\ left = Budget
  /\ next = 1 /\ stop = FALSE
  /\ engineCalls = 0 /\ keywordCalls = 0 /\ spent = 0
  /\ keywords = Keywords
  /\ cursor = 1 /\ snapshots = {} /\ samples = {}

----------------------------------------------------------------------------
(* audit_engine on a pool thread.  The pool also drains after the main      *)
(* thread has left the loop over the futures.                              *)

Pool == phase \in {"audit", "draining"}
Becomes(t, a) == audit' = [audit EXCEPT ![t] = a]

Begin(t) ==
  /\ audit[t].at = "queued"
  /\ \A u \in Tasks : u < t => audit[u].at # "queued"
  /\ Cardinality({u \in Tasks : audit[u].at \in Running}) < MaxWorkers
  /\ Becomes(t, [audit[t] EXCEPT !.at = "loop"])
  /\ UNCHANGED <<phase, planVars, mainVars, keywordVars, storeVars>>

\* The breaker is open.  If no call was made, one refused sample is recorded.
SkipOpen(t) ==
  /\ audit[t].at = "loop"
  /\ Becomes(t, [audit[t] EXCEPT !.at = "open", !.failures = IF audit[t].calls = 0 THEN 1 ELSE @])
  /\ UNCHANGED <<phase, planVars, mainVars, keywordVars, storeVars>>

\* RunPlan.reserve, under its lock.
Affords(price) == calls < MaxCalls /\ price <= left
Reserve(price) == calls' = calls + 1 /\ left' = left - price

ReserveSample(t) ==
  /\ audit[t].at = "loop" /\ Affords(Price[t])
  /\ Reserve(Price[t])
  /\ Becomes(t, [audit[t] EXCEPT !.at = "asking", !.calls = @ + 1])
  /\ UNCHANGED <<phase, mainVars, keywordVars, storeVars>>

\* Mutant: a refusal always raises.
RefuseRaises(t) ==
  /\ audit[t].at = "loop" /\ ~ Affords(Price[t])
  /\ Becomes(t, [audit[t] EXCEPT !.at = "raised"])
  /\ UNCHANGED <<phase, planVars, mainVars, keywordVars, storeVars>>

\* CallCapReached or BudgetExceededError: it is raised when nothing was paid
\* for, and ends the sampling otherwise.
RefuseSample(t) ==
  /\ audit[t].at = "loop" /\ ~ Affords(Price[t])
  /\ Becomes(t, [audit[t] EXCEPT !.at = IF audit[t].calls = 0 THEN "raised" ELSE "refused"])
  /\ UNCHANGED <<phase, planVars, mainVars, keywordVars, storeVars>>

\* Mutant: so many answers are enough, whatever they say.
EnoughAnswers(a) == a.cited + a.uncited >= MinSamples

\* Adaptive sampling stops when so many answers all say the same.
Agreed(a) == a.cited + a.uncited >= MinSamples /\ (a.cited = 0 \/ a.uncited = 0)

\* Where the loop goes after an answer.
AfterAnswer(a) == IF Agreed(a) THEN "agreed" ELSE IF a.calls = Samples THEN "full" ELSE "loop"

Answered(t, cites) ==
  /\ audit[t].at = "asking"
  /\ LET a == IF cites THEN [audit[t] EXCEPT !.cited = @ + 1]
              ELSE [audit[t] EXCEPT !.uncited = @ + 1]
     IN Becomes(t, [a EXCEPT !.at = AfterAnswer(a)])
  /\ UNCHANGED <<phase, planVars, mainVars, keywordVars, storeVars>>

\* A RankunoError: the vendor failed, or its breaker opened meanwhile.
Failed(t) ==
  /\ audit[t].at = "asking"
  /\ Becomes(t, [audit[t] EXCEPT !.at = IF audit[t].calls = Samples THEN "full" ELSE "loop",
                                 !.failures = @ + 1])
  /\ UNCHANGED <<phase, planVars, mainVars, keywordVars, storeVars>>

\* Any other exception; also one out of the hook that follows the answer's
\* redirects, which is called outside the try.
Breaks(t) ==
  /\ audit[t].at = "asking"
  /\ Becomes(t, [audit[t] EXCEPT !.at = "broken"])
  /\ UNCHANGED <<phase, planVars, mainVars, keywordVars, storeVars>>

Sampling(t) ==
  /\ Pool
  /\ \/ Begin(t) \/ SkipOpen(t) \/ ReserveSample(t) \/ RefuseSample(t)
     \/ \E cites \in BOOLEAN : Answered(t, cites)
     \/ Failed(t) \/ Breaks(t)

----------------------------------------------------------------------------
(* The main thread.                                                         *)

\* The next future is over, and is task t's.
Awaited(t) == phase = "audit" /\ next = t /\ audit[t].at \in Over

\* A reused task has no future.
PassReused ==
  /\ phase = "audit" /\ next \in Reused
  /\ next' = next + 1
  /\ UNCHANGED <<phase, audit, planVars, stop, outcomes, engineCalls, spent, keywordVars, storeVars>>

Cost(t) == audit[t].calls * Price[t]

\* Mutant: an outcome that says why it stopped is handled like a refused one.
CollectDropsStopped(t) ==
  /\ Awaited(t) /\ audit[t].at \notin {"raised", "broken"}
  /\ outcomes' = outcomes \cup {t}
  /\ IF audit[t].at = "refused" THEN UNCHANGED <<engineCalls, spent>>
     ELSE engineCalls' = engineCalls + audit[t].calls /\ spent' = spent + Cost(t)
  /\ stop' = (stop \/ audit[t].at = "refused")
  /\ next' = next + 1
  /\ UNCHANGED <<phase, audit, planVars, keywordVars, storeVars>>

\* future.result() returns.
Collect(t) ==
  /\ Awaited(t) /\ audit[t].at \notin {"raised", "broken"}
  /\ outcomes' = outcomes \cup {t}
  /\ engineCalls' = engineCalls + audit[t].calls
  /\ spent' = spent + Cost(t)
  /\ stop' = (stop \/ audit[t].at = "refused")
  /\ next' = next + 1
  /\ UNCHANGED <<phase, audit, planVars, keywordVars, storeVars>>

\* Mutant: the loop does not go on after a refusal.
CollectRefusalAgain(t) ==
  /\ Awaited(t) /\ audit[t].at = "raised"
  /\ stop' = TRUE
  /\ UNCHANGED <<phase, audit, planVars, next, outcomes, engineCalls, spent, keywordVars, storeVars>>

\* future.result() raises a refusal.
CollectRefusal(t) ==
  /\ Awaited(t) /\ audit[t].at = "raised"
  /\ stop' = TRUE /\ next' = next + 1
  /\ UNCHANGED <<phase, audit, planVars, outcomes, engineCalls, spent, keywordVars, storeVars>>

\* future.result() raises anything else: the run is lost, but the pool runs on
\* to its end before the exception leaves it.
CollectError(t) ==
  /\ Awaited(t) /\ audit[t].at = "broken"
  /\ phase' = "draining"
  /\ UNCHANGED <<audit, planVars, mainVars, keywordVars, storeVars>>

Drained ==
  /\ phase = "draining" /\ \A t \in Tasks : audit[t].at \in Over \cup {"reused"}
  /\ phase' = "failed"
  /\ UNCHANGED <<audit, planVars, mainVars, keywordVars, storeVars>>

EndAudit ==
  /\ phase = "audit" /\ next \notin Tasks
  /\ phase' = IF stop THEN "store" ELSE "keywords"
  /\ UNCHANGED <<audit, planVars, mainVars, keywordVars, storeVars>>

\* _keyword_rank: one lookup, answered or not, or none (no connector, or its
\* breaker is open).
LookUp ==
  /\ phase = "keywords" /\ keywords > 0
  /\ keywords' = keywords - 1
  /\ \/ /\ Affords(KeywordPrice) /\ Reserve(KeywordPrice)
        /\ keywordCalls' = keywordCalls + 1 /\ spent' = spent + KeywordPrice
     \/ UNCHANGED <<planVars, keywordCalls, spent>>
  /\ UNCHANGED <<phase, audit, next, stop, outcomes, engineCalls, storeVars>>

\* A lookup raises anything but a RankunoError: the run is lost.
LookUpBreaks ==
  /\ phase = "keywords" /\ keywords > 0
  /\ Affords(KeywordPrice) /\ Reserve(KeywordPrice)
  /\ phase' = "failed"
  /\ UNCHANGED <<audit, mainVars, keywordVars, storeVars>>

\* The lookups are done, or the plan refuses one.
EndLookUps ==
  /\ phase = "keywords" /\ (keywords = 0 \/ ~ Affords(KeywordPrice))
  /\ phase' = "store"
  /\ UNCHANGED <<audit, planVars, mainVars, keywordVars, storeVars>>

----------------------------------------------------------------------------
(* The database: one transaction per row, or per prompt's samples. *)

Unwritten == {t \in outcomes \ (Reused \cup snapshots) : PromptOf[t] = cursor}

\* record_snapshot
StoreSnapshot ==
  /\ phase = "store" /\ cursor \in Prompts
  /\ \E t \in Unwritten : (\A u \in Unwritten : t <= u) /\ snapshots' = snapshots \cup {t}
  /\ UNCHANGED <<phase, audit, planVars, mainVars, keywordVars, cursor, samples>>

\* record_samples
StoreSamples ==
  /\ phase = "store" /\ cursor \in Prompts /\ Unwritten = {}
  /\ samples' = samples \cup {t \in outcomes \ Reused : PromptOf[t] = cursor}
  /\ cursor' = cursor + 1
  /\ UNCHANGED <<phase, audit, planVars, mainVars, keywordVars, snapshots>>

\* record_run
StoreRun ==
  /\ phase = "store" /\ cursor \notin Prompts
  /\ phase' = "done"
  /\ UNCHANGED <<audit, planVars, mainVars, keywordVars, storeVars>>

\* A write raises: BaseTool.run reports the failure.
StoreFails ==
  /\ phase = "store"
  /\ phase' = "failed"
  /\ UNCHANGED <<audit, planVars, mainVars, keywordVars, storeVars>>

\* The process dies.
Crash ==
  /\ phase \notin {"done", "failed", "crashed"}
  /\ phase' = "crashed"
  /\ UNCHANGED <<audit, planVars, mainVars, keywordVars, storeVars>>

Finishing == EndAudit \/ LookUp \/ EndLookUps \/ StoreSnapshot \/ StoreSamples \/ StoreRun

Next ==
  \/ \E t \in Tasks : Sampling(t) \/ Collect(t) \/ CollectRefusal(t) \/ CollectError(t)
  \/ PassReused \/ Drained \/ Finishing \/ LookUpBreaks \/ StoreFails \/ Crash

Spec == Init /\ [][Next]_vars

\* Every vendor call ends (it has a timeout), and no thread stops.
Fairness ==
  /\ \A t \in Tasks : WF_vars(Sampling(t))
  /\ WF_vars(\E t \in Tasks : Collect(t) \/ CollectRefusal(t) \/ CollectError(t))
  /\ WF_vars(PassReused \/ Drained) /\ WF_vars(Finishing)

FairSpec == Spec /\ Fairness

----------------------------------------------------------------------------
(* Properties. *)

Audits == [at : Over \cup Running \cup {"queued", "reused"}, cited : 0..Samples,
           uncited : 0..Samples, failures : 0..Samples, calls : 0..Samples]

TypeOK ==
  /\ phase \in {"audit", "draining", "keywords", "store", "done", "failed", "crashed"}
  /\ audit \in [Tasks -> Audits]
  /\ calls \in 0..MaxCalls /\ left \in 0..Budget
  /\ next \in 1..(NumTasks + 1) /\ stop \in BOOLEAN /\ outcomes \subseteq Tasks
  /\ engineCalls \in Nat /\ keywordCalls \in Nat /\ spent \in Nat
  /\ keywords \in 0..Keywords
  /\ cursor \in 1..(NumPrompts + 1) /\ snapshots \subseteq Tasks /\ samples \subseteq Tasks

\* "so paid answers are never thrown away": when the run's row is written,
\* every answer that was paid for has its rows, whatever was refused, failed
\* or skipped around it.
Answers(t) == audit[t].cited + audit[t].uncited
PaidKept == phase = "done" => \A t \in Tasks : Answers(t) > 0 => t \in snapshots \cap samples

\* The row accounts for every call that was reserved, and for all the money.
Accounted == phase = "done" => /\ engineCalls + keywordCalls = calls
                               /\ spent = Budget - left

\* "Audit stopped early": the run says so exactly when a task was refused, and
\* then spends nothing on keywords.
StopReported == phase \in {"keywords", "store", "done"} =>
  /\ stop <=> \E t \in Tasks : audit[t].at \in {"raised", "refused"}
  /\ stop => keywordCalls = 0

\* Unless its vendor or the plan refused, an audit takes all its samples or
\* stops on answers that agree; and no snapshot is made of nothing.
Sampled == \A t \in Tasks :
  LET a == audit[t] IN
  /\ a.at \in {"full", "agreed"} =>
       \/ a.calls = Samples
       \/ Answers(t) >= MinSamples /\ (a.cited = 0 \/ a.uncited = 0)
  /\ t \in snapshots => Answers(t) + a.failures > 0

\* A run ends.
Ends == <>(phase \in {"done", "failed", "crashed"})

=============================================================================
