------------------------------- MODULE Costs -------------------------------
(***************************************************************************)
(* What the calls cost: integrations/pricing.py (list prices), the reads   *)
(* of integrations/usage.py, and prompt_tracking/costing.py (the report).  *)
(*                                                                         *)
(* The ledger's money is in units of 0.0001 dollars, the digits the report *)
(* keeps; NoCost is "not known".  A call is                                *)
(*   [ts, vendor, run, prompt, source, status, latency, searches, units,   *)
(*    estimated, reported, modelled]                                       *)
(* with Nowhere for no run and no prompt.                                  *)
(***************************************************************************)
EXTENDS Lists, Integers, Sequences, FiniteSets, FiniteSetsExt, Functions

CONSTANTS NoCost, Nowhere,
          Prices,      \* model -> [input, output, cached], per million tokens
          Families,    \* in order: [vendor, needle, model]
          SearchFee,   \* vendor -> fee of one search
          Setting,     \* vendor -> the COST_* its reservations use now
          PerUnit, PerSearch  \* the vendors billed by unit and by search

SumTo(s, f(_)) == SumFunction([i \in DOMAIN s |-> f(s[i])])
SumOver(S, f(_)) == SumFunction([x \in S |-> f(x)])
UpTo(a, b) == (a + b - 1) \div b

----------------------------------------------------------------------------
(* pricing.py: a model is its normalised name and the needles found in it. *)

\* price_card: exact first, then the vendor's family, in order.
PriceCard(vendor, model) ==
  LET near == {i \in DOMAIN Families : Families[i].vendor = vendor /\ Families[i].needle \in model.needles} IN
  IF model.name \in DOMAIN Prices THEN {Prices[model.name]}
  ELSE IF near = {} THEN {} ELSE {Prices[Families[Min(near)].model]}
\* modelled_cost
ModelledCost(vendor, model, input, output, cached, searches) ==
  IF PriceCard(vendor, model) = {} THEN NoCost
  ELSE LET card == CHOOSE c \in PriceCard(vendor, model) : TRUE
           billable == IF input > cached THEN input - cached ELSE 0
       IN (billable * card.input + cached * card.cached + output * card.output)
          + searches * (IF vendor \in DOMAIN SearchFee THEN SearchFee[vendor] ELSE 0)

----------------------------------------------------------------------------
(* usage.py *)

\* Mutant: the list price goes before the vendor's own figure.
ActualCostModelled(c) ==
  IF c.modelled # NoCost THEN c.modelled ELSE IF c.reported # NoCost THEN c.reported ELSE c.estimated
\* ApiCall.actual_cost_usd
ActualCost(c) ==
  IF c.reported # NoCost THEN c.reported ELSE IF c.modelled # NoCost THEN c.modelled ELSE c.estimated
\* UsageLedger.calls; {} asks for every run, Nowhere for every prompt.
Calls(ledger, since, runs, prompt) ==
  Those(ledger, LAMBDA c : c.ts >= since /\ (runs = {} \/ c.run \in runs) /\ (prompt = Nowhere \/ c.prompt = prompt))
\* UsageLedger.spent_since: the SQL's own sum, of the first figure that is known.
Coalesce(figures) == figures[Min({i \in DOMAIN figures : figures[i] # NoCost})]
SpentSince(ledger, since) ==
  SumTo(Those(ledger, LAMBDA c : c.status = "ok" /\ c.ts >= since /\ c.source # "demo"),
        LAMBDA c : Coalesce(<<c.reported, c.modelled, c.estimated>>))

----------------------------------------------------------------------------
(* costing.py *)

Ok(calls) == Those(calls, LAMBDA c : c.status = "ok")
Actual(calls) == SumTo(Ok(calls), ActualCost)
\* _percentile: the value at ceil(pct% of n).
Percentile(values, pct) ==
  IF values = <<>> THEN 0 ELSE Sorted(values, <)[Max({1, UpTo(pct * Len(values), 100)})]
\* _vendor_cost, _basis
VendorCost(vendor, calls) ==
  LET ok == Ok(calls)
      ms == [i \in DOMAIN ok |-> ok[i].latency]
      known == Len(Those(ok, LAMBDA c : c.reported # NoCost))
      priced == Len(Those(ok, LAMBDA c : c.modelled # NoCost))
      total == Actual(calls)
  IN [vendor |-> vendor, calls |-> Len(calls), ok |-> Len(ok), estimated |-> SumTo(calls, LAMBDA c : c.estimated),
      actual |-> total, mean10 |-> IF ok = <<>> THEN 0 ELSE (20 * total + Len(ok)) \div (2 * Len(ok)), units |-> SumTo(calls, LAMBDA c : c.units), searches |-> SumTo(calls, LAMBDA c : c.searches),
      p50 |-> Percentile(ms, 50), p95 |-> Percentile(ms, 95),
      basis |-> CASE known = Len(ok) -> "reported"
                  [] known # Len(ok) /\ known + priced = Len(ok) -> "modelled"
                  [] known + priced # Len(ok) /\ known = 0 /\ priced = 0 -> "estimate"
                  [] OTHER -> "mixed"]
\* _recommend: what was observed per call, search or unit, and 15% more, rounded up
\* to the setting's digits: `grain` parts of a unit of money.
Recommend(v) ==
  LET mean == [per |-> 1, grain |-> 1, amount |-> v.mean10, parts |-> 10]
      by(n, grain) == [per |-> n, grain |-> grain, amount |-> IF n = 0 THEN 0 ELSE v.actual, parts |-> IF n = 0 THEN 1 ELSE n]
      x == IF v.vendor \in PerUnit THEN by(v.units, 1000) ELSE IF v.vendor \in PerSearch THEN by(v.searches, 1) ELSE mean
  IN IF v.vendor \notin DOMAIN Setting \/ v.ok = 0 THEN {}
     ELSE {[vendor |-> v.vendor, current |-> Setting[v.vendor], grain |-> x.grain, suggested |-> UpTo(115 * x.amount * x.grain, 100 * x.parts)]}

Counted(calls, excluded) == Those(calls, LAMBDA c : c.source \notin excluded)
VendorsIn(calls) == {calls[i].vendor : i \in DOMAIN calls}
OfVendor(calls, v) == Those(calls, LAMBDA c : c.vendor = v)
RunCost(run, calls) ==
  LET mine == Those(calls, LAMBDA c : c.run = run) IN
  [run |-> run, calls |-> Len(mine), actual |-> Actual(mine),
   by |-> [v \in VendorsIn(mine) |-> Actual(OfVendor(mine, v))]]
RunsIn(calls) == {calls[i].run : i \in DOMAIN calls} \ {Nowhere}
\* Beside a prompt's own calls, those of the same runs that belong to no prompt.
Shared(ledger, since, excluded, runs, prompt) ==
  IF prompt = Nowhere \/ runs = {} THEN <<>>
  ELSE Those(Counted(Calls(ledger, since, runs, Nowhere), excluded), LAMBDA c : c.prompt = Nowhere)
Summary(calls, shared) ==
  LET vendors == {VendorCost(v, OfVendor(calls, v)) : v \in VendorsIn(calls)} IN
  [calls |-> Len(calls), estimated |-> SumTo(calls, LAMBDA c : c.estimated), actual |-> Actual(calls), vendors |-> vendors,
   runs |-> {RunCost(r, calls) : r \in RunsIn(calls)}, suggested |-> UNION {Recommend(v) : v \in vendors},
   unattributed |-> Len(shared), unattributedActual |-> Actual(shared)]
\* build_cost_report
CostReport(ledger, since, excluded, prompt) ==
  LET calls == Counted(Calls(ledger, since, {}, prompt), excluded)
  IN Summary(calls, Shared(ledger, since, excluded, RunsIn(calls), prompt))

----------------------------------------------------------------------------
(* Properties. *)

\* costing.py, usage.py: the report's total is that of its vendors and of its runs, the
\* caps' SQL sums the same money, the prompts and what they share make up the
\* runs, and a suggested reservation covers what the calls cost, unless their mean
\* vanishes among the report's digits.
CostsAddUp(ledger, since) ==
  LET all == CostReport(ledger, since, {"demo"}, Nowhere)
      loose == Those(ledger, LAMBDA c : c.ts >= since /\ c.source # "demo" /\ c.run = Nowhere)
      prompts == {ledger[i].prompt : i \in DOMAIN ledger} \ {Nowhere}
      of(p) == CostReport(ledger, since, {"demo"}, p) IN
  /\ all.actual = SumOver(all.vendors, LAMBDA v : v.actual)
  /\ all.actual = SumOver(all.runs, LAMBDA r : r.actual) + Actual(loose)
  /\ all.actual = SpentSince(ledger, since)
  /\ \A r \in all.runs : r.actual = SumFunction(r.by)
  /\ SumOver(prompts, LAMBDA p : of(p).actual)
     + Actual(Those(ledger, LAMBDA c : c.ts >= since /\ c.source # "demo" /\ c.prompt = Nowhere)) = all.actual
  /\ \A p \in prompts : LET mine == {x.run : x \in of(p).runs} IN
       (\A i \in DOMAIN ledger : ledger[i].prompt = p => ledger[i].run # Nowhere) =>
         of(p).actual + of(p).unattributedActual <= SumOver({r \in all.runs : r.run \in mine}, LAMBDA r : r.actual)
  /\ \A s \in all.suggested : \A v \in all.vendors :
       LET n == IF v.vendor \in PerUnit THEN v.units ELSE IF v.vendor \in PerSearch THEN v.searches ELSE v.ok IN
       v.vendor = s.vendor /\ n > 0 /\ (v.mean10 > 0 \/ v.vendor \in PerUnit \cup PerSearch) => s.suggested * n >= v.actual * s.grain
  /\ \A v \in all.vendors : v.p50 <= v.p95

\* pricing.py: caching never makes a call dearer, more tokens never cheaper, and a call
\* of an unknown model has no modelled cost instead of a free one.
PricesSound(vendor, model, input, cached, output) ==
  LET cost(i, c, o) == ModelledCost(vendor, model, i, o, c, 0) IN
  IF PriceCard(vendor, model) = {} THEN cost(input, cached, output) = NoCost
  ELSE cached <= input => cost(input, cached, output) <= cost(input, 0, output)
                          /\ cost(input, cached, output) <= cost(input + 1, cached, output + 1)
=============================================================================
