------------------------------- MODULE Spend -------------------------------
(***************************************************************************)
(* Who may spend what: core/rate_limiter.py's CostLedger, the calls it     *)
(* admits (prompt_tracking/audit.py and pipeline.py) and the rows of the   *)
(* usage ledger (integrations/usage.py) it reads back, over UTC days and   *)
(* process restarts.                                                       *)
(*                                                                         *)
(* One run at a time (JobQueue) harvests from Semrush, samples the engines *)
(* on a pool of threads and judges the answers.  A call is charged to the  *)
(* CostLedger at its estimate, made, recorded as a row at the estimate     *)
(* (BaseAPIClient._record) and annotated with its real cost (note_usage).  *)
(* Money is counted in whole units.                                        *)
(***************************************************************************)
EXTENDS Integers, FiniteSets, Functions

CONSTANTS
  Samplers,         \* threads of the audit pool
  Harvester,        \* the thread that runs the pipeline, while it harvests
  Estimates,        \* COST_* settings: what a call is reserved at
  MaxOverrun,       \* by how much a vendor may bill more than that
  SessionCeiling, DailyCeiling,
  Escapes,          \* what may get past the daily ceiling in this instance: of
                    \* {"judge", "overview", "error_body", "cli", "overrun", "midnight"}
  MaxReports,       \* bound on the Semrush reports of a harvest
  MaxRecorded,      \* bound on what a day's rows cost
  MaxDay,           \* bound on midnights
  MaxRestarts       \* bound on process restarts

Workers == Samplers \cup {Harvester}

ASSUME ConstantsAssumption ==
  /\ Harvester \notin Samplers /\ IsFiniteSet(Samplers)
  /\ Estimates \subseteq Nat \ {0} /\ MaxOverrun \in Nat
  /\ SessionCeiling \in Nat /\ DailyCeiling \in Nat
  /\ MaxReports \in Nat /\ MaxRecorded \in Nat /\ MaxDay \in Nat /\ MaxRestarts \in Nat

VARIABLES
  escapes,      \* what may in this behaviour: nothing, or all of Escapes; never changes
  today,        \* the UTC date
  spent,        \* _spent
  ledgerDay,    \* _day, NoDay before the first charge
  baseline,     \* _baseline
  reserved,     \* _reserved_today
  unseen,       \* history, in no code: what today's rows may cost besides what the
                \* ledger counts for today.  No guard reads it.
  recorded,     \* cost of today's rows with status ok: UsageLedger.spent_since(midnight)
  stage,        \* where the run is
  held,         \* per worker: the call it charged, and what became of it
  harvest,      \* reserved and billed of _harvest, and its reports
  restarts

counters == <<spent, ledgerDay, baseline, reserved>>
ledgerVars == <<counters, unseen>>
vars == <<escapes, today, ledgerVars, recorded, stage, held, harvest, restarts>>

NoDay == -1
Idle == [at |-> "idle", cost |-> 0, row |-> 0]
NoHarvest == [reserved |-> 0, billed |-> 0, reports |-> 0]
AtLeast0(n) == IF n > 0 THEN n ELSE 0

Init ==
  /\ escapes \in {{}, Escapes}
  /\ today = 0 /\ recorded = 0 /\ restarts = 0
  /\ spent = 0 /\ ledgerDay = NoDay /\ baseline = 0 /\ reserved = 0 /\ unseen = 0
  /\ stage = "idle"
  /\ held = [w \in Workers |-> Idle]
  /\ harvest = NoHarvest

----------------------------------------------------------------------------
(* CostLedger. *)

\* Mutant: what was spent today is read once, when the ledger is first used.
BaselineOnce == IF ledgerDay = NoDay THEN AtLeast0(recorded) ELSE baseline

\* _durable_spent: on a new day the durable rows are read again.
Baseline == IF ledgerDay = today THEN baseline ELSE AtLeast0(recorded)
ReservedToday == IF ledgerDay = today THEN reserved ELSE 0

\* What the calls that are out may still record, and what the harvest may still
\* give back: a ledger that looks at a new day knows nothing of either.
Sent == [s \in Samplers |-> IF held[s].at = "sent" THEN held[s].cost ELSE 0]
StillOut == SumFunctionOnSet(Sent, Samplers) + harvest.reserved - harvest.billed

Rollover ==
  /\ ledgerDay' = today /\ baseline' = Baseline
  /\ unseen' = IF ledgerDay = today THEN unseen ELSE StillOut

\* A row, or a part of one, that no charge covers: the ledger that has looked at
\* today does not see it any more.
PastTheLedger(cost) ==
  /\ unseen' = IF ledgerDay = today THEN unseen + cost ELSE unseen
  /\ UNCHANGED counters

\* Mutant: the daily ceiling is compared with what this process reserved only.
FitsReservations(cost) ==
  /\ spent + cost <= SessionCeiling
  /\ ReservedToday + cost <= DailyCeiling

Fits(cost) ==
  /\ spent + cost <= SessionCeiling
  /\ Baseline + ReservedToday + cost <= DailyCeiling

\* charge(cost), accepted.
Charge(cost) ==
  /\ Fits(cost)
  /\ Rollover
  /\ spent' = spent + cost
  /\ reserved' = ReservedToday + cost

\* charge(cost), refused: BudgetExceededError.  The session's ceiling is looked
\* at first, and then the day is not.
Refuse(cost) ==
  /\ ~ Fits(cost)
  /\ IF spent + cost > SessionCeiling THEN UNCHANGED ledgerVars
     ELSE Rollover /\ reserved' = ReservedToday /\ UNCHANGED spent

\* release(amount): no rollover, whatever day the reservation was made.
Release(amount) ==
  /\ spent' = AtLeast0(spent - amount)
  /\ reserved' = AtLeast0(reserved - amount)
  /\ UNCHANGED <<ledgerDay, baseline, unseen>>

\* remaining_usd, which BudgetedApprovalProvider reads.
Peek ==
  /\ Rollover /\ reserved' = ReservedToday
  /\ UNCHANGED <<today, spent, recorded, stage, held, harvest, restarts>>

----------------------------------------------------------------------------
(* A call: charged, then a row or none, then its real cost. *)

Hold(w, cost) == held' = [held EXCEPT ![w] = [at |-> "sent", cost |-> cost, row |-> 0]]
LetGo(w) == held' = [held EXCEPT ![w] = Idle]

\* The row carries the time it was written.
RowCounts(h) == h.row = today

\* The vendor answered: the row is written with the estimate.
Row(w) ==
  /\ held[w].at = "sent" /\ recorded + held[w].cost <= MaxRecorded
  /\ held' = [held EXCEPT ![w].at = "row", ![w].row = today]
  /\ recorded' = recorded + held[w].cost
  /\ UNCHANGED <<today, ledgerVars, stage, harvest, restarts>>

\* note_usage: the row's cost becomes a.
Annotate(w, a) ==
  /\ held[w].at = "row"
  /\ recorded' = IF RowCounts(held[w]) THEN recorded + a - held[w].cost ELSE recorded

\* No answer: a row that is not ok, and the reservation stays.
NoAnswer(w) ==
  /\ held[w].at = "sent" /\ LetGo(w)
  /\ UNCHANGED <<today, ledgerVars, recorded, stage, harvest, restarts>>

----------------------------------------------------------------------------
(* _harvest. *)

BeginRun ==
  /\ stage = "idle" /\ stage' = "harvest"
  /\ UNCHANGED <<today, ledgerVars, recorded, held, harvest, restarts>>

\* charge(overview_usd), charge(questions_usd)
ChargeReport ==
  /\ stage = "harvest" /\ held[Harvester] = Idle /\ harvest.reports < MaxReports
  /\ \E cost \in Estimates :
       /\ Charge(cost) /\ Hold(Harvester, cost)
       /\ harvest' = [harvest EXCEPT !.reserved = @ + cost, !.reports = @ + 1]
  /\ UNCHANGED <<today, recorded, stage, restarts>>

\* A refused report ends the harvest.
RefuseReport ==
  /\ stage = "harvest" /\ held[Harvester] = Idle /\ harvest.reports < MaxReports
  /\ \E cost \in Estimates : Refuse(cost)
  /\ harvest' = [harvest EXCEPT !.reports = MaxReports]
  /\ UNCHANGED <<today, recorded, stage, held, restarts>>

\* The report has been read: so many rows were billed.  Its upper bound was
\* reserved.
ReadReport ==
  /\ \E billed \in 0..held[Harvester].cost :
       /\ Annotate(Harvester, billed)
       /\ harvest' = [harvest EXCEPT !.billed = @ + billed]
  /\ LetGo(Harvester)
  /\ UNCHANGED <<today, ledgerVars, stage, restarts>>

\* The body is an error (SemrushClient._parse raises): the row stays at its
\* estimate, and nothing counts as billed.
ErrorBody ==
  /\ "error_body" \in escapes
  /\ held[Harvester].at = "row" /\ LetGo(Harvester)
  /\ PastTheLedger(held[Harvester].cost)
  /\ UNCHANGED <<today, recorded, stage, harvest, restarts>>

\* The seeds are done: what was reserved and not billed is given back.
EndHarvest ==
  /\ stage = "harvest" /\ held[Harvester] = Idle
  /\ IF harvest.reserved > harvest.billed
     THEN Release(harvest.reserved - harvest.billed) ELSE UNCHANGED ledgerVars
  /\ stage' = "audit" /\ harvest' = NoHarvest
  /\ UNCHANGED <<today, recorded, held, restarts>>

----------------------------------------------------------------------------
(* The audit pool, and the judge after it. *)

\* RunPlan.reserve: accepted.
ChargeSample(s) ==
  /\ stage = "audit" /\ held[s] = Idle
  /\ \E cost \in Estimates : Charge(cost) /\ Hold(s, cost)
  /\ UNCHANGED <<today, recorded, stage, harvest, restarts>>

\* RunPlan.reserve: refused, which ends this sampling.
RefuseSample(s) ==
  /\ stage = "audit" /\ held[s] = Idle
  /\ \E cost \in Estimates : Refuse(cost)
  /\ UNCHANGED <<today, recorded, stage, held, harvest, restarts>>

Overrun == IF "overrun" \in escapes THEN MaxOverrun ELSE 0

\* The answer has been read.  SerpApi may have answered with a page token, and
\* then a second request fetches the overview.
ReadAnswer(s) ==
  /\ \E a \in 0..(held[s].cost + Overrun) :
       Annotate(s, a) /\ PastTheLedger(AtLeast0(a - held[s].cost))
  /\ \/ LetGo(s)
     \/ "overview" \in escapes /\ held' = [held EXCEPT ![s].at = "page"]
  /\ UNCHANGED <<today, stage, harvest, restarts>>

\* SerpApiClient._fetch_overview: a row of its own, and no charge.
FetchOverview(s) ==
  /\ held[s].at = "page" /\ LetGo(s)
  /\ \/ /\ recorded' = recorded + held[s].cost /\ recorded' <= MaxRecorded
        /\ PastTheLedger(held[s].cost)
     \/ UNCHANGED <<ledgerVars, recorded>>
  /\ UNCHANGED <<today, stage, harvest, restarts>>

EndAudit ==
  /\ stage = "audit" /\ \A s \in Samplers : held[s] = Idle
  /\ stage' = "judge"
  /\ UNCHANGED <<today, ledgerVars, recorded, held, harvest, restarts>>

\* judge_samples: one batch, no charge.
Judge ==
  /\ "judge" \in escapes /\ stage = "judge"
  /\ \E cost \in Estimates :
       /\ recorded' = recorded + cost /\ recorded' <= MaxRecorded
       /\ PastTheLedger(cost)
  /\ UNCHANGED <<today, stage, held, harvest, restarts>>

EndRun ==
  /\ stage = "judge" /\ stage' = "idle"
  /\ UNCHANGED <<today, ledgerVars, recorded, held, harvest, restarts>>

----------------------------------------------------------------------------
(* The environment. *)

\* The command line (prompt_tracking/__main__.py) runs its pipelines under a
\* CostLedger() of its own, which has no daily ceiling, and its rows go to the
\* same usage ledger.
CommandLine ==
  /\ "cli" \in escapes
  /\ \E cost \in Estimates :
       /\ recorded' = recorded + cost /\ recorded' <= MaxRecorded
       /\ PastTheLedger(cost)
  /\ UNCHANGED <<today, stage, held, harvest, restarts>>

\* No call is out, and no harvest half done.
Quiet == harvest = NoHarvest /\ \A w \in Workers : held[w] = Idle

Midnight ==
  /\ "midnight" \in escapes \/ Quiet
  /\ today < MaxDay /\ today' = today + 1
  /\ recorded' = 0 /\ unseen' = 0
  /\ UNCHANGED <<counters, stage, held, harvest, restarts>>

\* A new process has a new CostLedger; the rows are on disk.  A call that was
\* out leaves no row.
Restart ==
  /\ restarts < MaxRestarts /\ restarts' = restarts + 1
  /\ spent' = 0 /\ ledgerDay' = NoDay /\ baseline' = 0 /\ reserved' = 0 /\ unseen' = 0
  /\ stage' = "idle" /\ held' = [w \in Workers |-> Idle] /\ harvest' = NoHarvest
  /\ UNCHANGED <<today, recorded>>

Harvesting == ChargeReport \/ RefuseReport \/ ReadReport \/ ErrorBody \/ EndHarvest
Sampling(s) == ChargeSample(s) \/ RefuseSample(s) \/ ReadAnswer(s) \/ FetchOverview(s)

Step == \/ BeginRun \/ Harvesting
        \/ \E s \in Samplers : Sampling(s)
        \/ \E w \in Workers : Row(w) \/ NoAnswer(w)
        \/ EndAudit \/ Judge \/ EndRun
        \/ Peek \/ CommandLine \/ Midnight \/ Restart

Next == Step /\ UNCHANGED escapes

Spec == Init /\ [][Next]_vars

----------------------------------------------------------------------------
(* Properties. *)

HeldCalls == [at : {"idle", "sent", "row", "page"}, cost : Estimates \cup {0},
              row : 0..MaxDay]

TypeOK ==
  /\ escapes \subseteq Escapes
  /\ today \in 0..MaxDay /\ ledgerDay \in {NoDay} \cup 0..today /\ restarts \in 0..MaxRestarts
  /\ spent \in Nat /\ baseline \in Nat /\ reserved \in Nat /\ unseen \in Nat
  /\ recorded \in Int
  /\ stage \in {"idle", "harvest", "audit", "judge"}
  /\ held \in [Workers -> HeldCalls]
  /\ harvest \in [reserved : Nat, billed : Nat, reports : 0..MaxReports]

\* The session's ceiling bounds what this process reserved; what it counts for
\* today is part of that, and so is what the harvest may give back.
SessionCap ==
  /\ reserved <= spent /\ spent <= SessionCeiling
  /\ harvest.billed <= harvest.reserved /\ harvest.reserved <= spent

\* Whatever escapes the ledger, a charge goes through only if it fits beside all
\* of the day's rows, by whichever process, thread or command line, but for what
\* the ledger cannot know: what was out or not yet given back when it first
\* looked at the day, and what was written past it since.
FitsBesideRows ==
  [][spent' > spent => recorded + (spent' - spent) <= DailyCeiling + unseen']_vars

\* "Maximum actual spend per UTC day across processes": today's rows never cost
\* more than the ceiling, whichever processes and threads wrote them.
WithinDailyCap == recorded <= DailyCeiling

\* That is so as long as nothing escapes the ledger: every call is charged, at
\* no less than it costs, and its row is written on the day of the charge.
ChargedWithinDailyCap == escapes = {} => WithinDailyCap
=============================================================================
