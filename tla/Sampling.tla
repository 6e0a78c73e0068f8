------------------------------ MODULE Sampling ------------------------------
(***************************************************************************)
(* control_plane/sampling.py and planner.py: what one crawl asks.          *)
(*                                                                         *)
(* A pair is one tracked prompt on one platform, with the age of its       *)
(* newest snapshot and the verdict of stability.py on its history.  A      *)
(* stable pair is asked every 2 or 3 intervals instead of every one; the   *)
(* calls this saves pay for extra samples of volatile pairs.               *)
(***************************************************************************)
EXTENDS Lists, Integers, FiniteSets, Sequences, SequencesExt, FiniteSetsExt

CONSTANTS
  StabilityWindow,   \* stability_window_crawls
  StretchMax,        \* stretch_max
  MinSamples,        \* min_samples: where adaptive sampling stops a stable pair
  VolatileBoost,     \* volatile_boost
  MaxSamples         \* _MAX_SAMPLES

Lower(a, b) == IF a < b THEN a ELSE b
Higher(a, b) == IF a > b THEN a ELSE b
Sum(S, f(_)) == SumFunction([x \in S |-> f(x)])

Adaptive(policy, request) == policy # "fixed" /\ request = "due"

\* _decide_stretch: `runs` is the project's consolidation_runs.
Tier(p) == IF p.streak >= 2 * StabilityWindow THEN 3 ELSE 2
Multiplier(p, adaptive, runs) ==
  IF adaptive /\ p.state = "stable" /\ ~ p.important /\ ~ p.ownInterval
  THEN Higher(1, Lower(Tier(p), Lower(StretchMax, runs))) ELSE 1

\* _Pair.base_due, due, skipped: a pair that was never sampled is older than all.
BaseDue(p) == p.age >= p.interval
Due(p, k) == p.age >= p.interval * k
Skipped(p, k) == BaseDue(p) /\ ~ Due(p, k)

\* _expected_calls
Expected(p, n) == IF p.state = "stable" THEN Lower(n, MinSamples) ELSE n

\* recent_sampling, then _carry: crawls are <<saved, boosted>>, newest first, and
\* Balance(crawls)[n] is what the newest n saved and did not spend.
Recent(crawls) == SubSeq(crawls, 1, Lower(Len(crawls), StretchMax - 1))
\* Mutant: what the earlier crawls spent is not taken off.
CarryGross(crawls) == Sum(DOMAIN Recent(crawls), LAMBDA i : crawls[i][1])
Balance(crawls) ==
  LET left[n \in 0..Len(crawls)] == IF n = 0 THEN 0 ELSE left[n - 1] + (crawls[n][1] - crawls[n][2]) IN left
Carry(crawls) == Higher(0, Balance(Recent(crawls))[Len(Recent(crawls))])

\* plan: which pairs may be boosted.
Eligible(p, policy, k) ==
  /\ policy = "reallocate" /\ VolatileBoost > 0 /\ p.state = "volatile"
  /\ ~ p.ownSamples /\ Due(p, k) /\ ~ p.returned

\* _grant_boosts: most volatile first, while the budget lasts.
Extra(p) == Lower(VolatileBoost, MaxSamples - p.base)
Grant(budget, got, p) ==
  IF Extra(p) <= 0 \/ got.spent + Extra(p) > budget THEN got
  ELSE [spent |-> got.spent + Extra(p), pairs |-> got.pairs \cup {p.id}]
Before(p, q) == p.score < q.score \/ (p.score = q.score /\ p.id < q.id)
LastOf(pairs) == CHOOSE p \in pairs : \A q \in pairs \ {p} : Before(q, p)
Boosts(pairs, budget) ==
  MapThenFoldSet(LAMBDA p, got : Grant(budget, got, p), [spent |-> 0, pairs |-> {}], LAMBDA p : p, LastOf, pairs)

\* plan: a forced crawl and one of selected prompts follow no policy.
Plan(pairs, policy, request, runs, crawls) ==
  LET adaptive == Adaptive(policy, request)
      k(p) == Multiplier(p, adaptive, runs)
      saved == Sum({p \in pairs : Skipped(p, k(p))}, LAMBDA p : Expected(p, p.base))
      carry == IF adaptive /\ policy = "reallocate" THEN Carry(crawls) ELSE 0
      boosts == Boosts({p \in pairs : adaptive /\ Eligible(p, policy, k(p))}, saved + carry)
      due == {p \in pairs : request = "force" \/ Due(p, k(p))}
      samples(p) == IF p.id \in boosts.pairs THEN p.base + Extra(p) ELSE p.base
  IN [saved |-> saved, carry |-> carry, boosted |-> boosts.spent,
      items |-> {[pair |-> p, samples |-> samples(p)] : p \in due},
      planned |-> Sum({p \in pairs : Due(p, k(p))}, LAMBDA p : Expected(p, samples(p))),
      baseline |-> Sum({p \in pairs : BaseDue(p)}, LAMBDA p : Expected(p, p.base))]

\* batches: one pipeline call has one sample count and one set of platforms, so
\* a prompt whose platforms differ is split; starred prompts first.
Platforms(items, i) == {j.pair.platform : j \in {x \in items : x.pair.prompt = i.pair.prompt /\ x.samples = i.samples}}
Key(items, i) == <<Platforms(items, i), i.samples>>
BatchOf(items, key) == {i \in items : Key(items, i) = key}
Starred(batch) == \E i \in batch : i.pair.important
Prompts(batch) == {i.pair.prompt : i \in batch}
\* Mutant: the biggest batch first, starred or not.
BatchesBySize(items) ==
  Sorted(SetToSeq({BatchOf(items, Key(items, i)) : i \in items}), LAMBDA b, c :
    Cardinality(Prompts(b)) > Cardinality(Prompts(c)))
Batches(items) ==
  Sorted(SetToSeq({BatchOf(items, Key(items, i)) : i \in items}), LAMBDA b, c :
    \/ Starred(b) /\ ~ Starred(c)
    \/ (Starred(b) <=> Starred(c)) /\ Cardinality(Prompts(b)) > Cardinality(Prompts(c)))

----------------------------------------------------------------------------
(* Properties of a plan. *)

\* The plan's totals and its items agree: no boost without the budget for it,
\* what is planned is what is due at the base rate less the skipped and plus the
\* boosts, and no stretched pair waits longer than a consolidation window.
PlanAddsUp(pairs, policy, runs, crawls) ==
  LET plan == Plan(pairs, policy, "due", runs, crawls) IN
  /\ plan.boosted <= plan.saved + plan.carry
  /\ plan.planned = plan.baseline - plan.saved + plan.boosted
  /\ \A p \in pairs : p.age >= p.interval * runs => \E i \in plan.items : i.pair = p
  /\ \A i \in plan.items : i.samples <= Higher(i.pair.base, MaxSamples)

\* Every due pair is in exactly one batch, with its own sample count and its
\* prompt's due platforms, and no batch without a starred prompt runs before one
\* with: a crawl the budget stops loses the least important work.
BatchesPartition(items) ==
  LET out == Batches(items) IN
  /\ \A i \in items : Cardinality({n \in DOMAIN out : i \in out[n]}) = 1
  /\ \A n \in DOMAIN out : \A i, j \in out[n] : i.samples = j.samples
  /\ \A m, n \in DOMAIN out : m < n /\ Starred(out[n]) => Starred(out[m])
  /\ \A n \in DOMAIN out : \A i \in out[n] :
       {j.pair.platform : j \in {x \in out[n] : x.pair.prompt = i.pair.prompt}} = Platforms(items, i)
=============================================================================
