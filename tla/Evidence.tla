------------------------------ MODULE Evidence ------------------------------
(***************************************************************************)
(* What sampled answers are evidence of: core/stats.py (the Wilson bounds),*)
(* prompt_tracking/stability.py (is a pair's verdict settled?) and         *)
(* positioning.aggregate_position (one window of crawls as one position).  *)
(*                                                                         *)
(* Rates are integers out of Scale, rounded as round(x, 4) rounds; z * z   *)
(* is ZNum / ZDen.                                                         *)
(***************************************************************************)
EXTENDS Lists, Integers, Sequences, FiniteSets, SequencesExt, FiniteSetsExt, Functions

CONSTANTS Scale, ZNum, ZDen,
          Window, MinCrawls, MinOk, MaxAge,   \* stability_window_crawls, ..., max_age
          NoRank

Total(S, f(_)) == SumFunction([x \in S |-> f(x)])
Over(s, f(_)) == Total(DOMAIN s, LAMBDA i : f(s[i]))
Least(a, b) == IF a < b THEN a ELSE b
Listed(S) == FoldSet(LAMBDA x, s : Append(s, x), <<>>, S)
Prefix(s, n) == SubSeq(s, 1, Least(n, Len(s)))
Rate(n, d) == IF d = 0 THEN 0 ELSE (2 * n * Scale + d) \div (2 * d)

----------------------------------------------------------------------------
(* core/stats.py: the bounds g/Scale between which `c` of `n` is likely. *)

\* wilson_interval, solved for the bound instead of the centre and half width.
Beyond(g, c, n) ==
  /\ g * n > c * Scale
  /\ ZDen * (g * n - c * Scale) * (g * n - c * Scale) > ZNum * n * g * (Scale - g)
High(c, n) == Min({Scale} \cup {g \in 0..Scale : Beyond(g, c, n)})
Low(c, n) == Scale - High(n - c, n)
\* Mutant: only a high rate settles it.
StraddlesBelow(c, n) == 2 * c < n \/ ZDen * (2 * c - n) * (2 * c - n) < ZNum * n
\* low < 0.5 < high
Straddles(c, n) == ZDen * (2 * c - n) * (2 * c - n) < ZNum * n
\* coin_flip, of a rate
CoinFlip(rate) == 2 * Least(rate, Scale - rate)

----------------------------------------------------------------------------
(* stability.classify.  A history is newest first; a crawl has its model,  *)
(* its age, its answers, how many cited the client and its own verdict.    *)

Verdict(state, crawls, streak, score) == [state |-> state, crawls |-> crawls, streak |-> streak, score |-> score]
Comparable(h) == Those(h, LAMBDA s : s.model = h[1].model)
Usable(h) == Those(Comparable(h), LAMBDA s : s.ok >= MinOk)
Admitted(h) == Prefix(Usable(h), Window)
Flips(a) == Cardinality({i \in 1..(Len(a) - 1) : a[i].won # a[i + 1].won})
Streak(u) == Min({Len(u)} \cup {i - 1 : i \in {j \in DOMAIN u : u[j].won # u[1].won}})
Answers(a) == Over(a, LAMBDA s : s.ok)
CitedAnswers(a) == Least(Over(a, LAMBDA s : s.cited), Answers(a))
Failing(h) ==
  /\ Len(Prefix(Comparable(h), Window)) >= MinCrawls
  /\ \A i \in DOMAIN Prefix(Comparable(h), Window) : Comparable(h)[i].ok = 0
Judged(a) == IF Flips(a) >= 2 \/ Straddles(CitedAnswers(a), Answers(a)) THEN "volatile" ELSE "stable"

Classify(h) ==
  LET a == Admitted(h) IN
  CASE h = <<>> -> Verdict("unknown", 0, 0, 0)
    [] h # <<>> /\ a = <<>> /\ Failing(h) -> Verdict("failing", Len(Prefix(Comparable(h), Window)), 0, 0)
    [] h # <<>> /\ a = <<>> /\ ~ Failing(h) -> Verdict("unknown", 0, 0, 0)
    [] a # <<>> /\ (a[1].age > MaxAge \/ Len(a) < MinCrawls) -> Verdict("unknown", Len(a), 0, 0)
    [] a # <<>> /\ a[1].age <= MaxAge /\ Len(a) >= MinCrawls ->
         Verdict(Judged(a), Len(a), Streak(Usable(h)),
                 Scale - CoinFlip(Rate(CitedAnswers(a), Answers(a))))

----------------------------------------------------------------------------
(* positioning.aggregate_position: the snapshots of a window, the answers  *)
(* behind them (a reused snapshot has none) and the organic ranks.         *)

Best(ranks) == IF ranks \ {NoRank} = {} THEN NoRank ELSE Min(ranks \ {NoRank})
Weighted(snaps) == {i \in DOMAIN snaps : snaps[i].mean # NoRank /\ snaps[i].cited > 0}
MeanRank(snaps) ==
  IF Weighted(snaps) = {} THEN NoRank
  ELSE Rate(Total(Weighted(snaps), LAMBDA i : snaps[i].mean * snaps[i].cited),
            Total(Weighted(snaps), LAMBDA i : snaps[i].cited))
\* What each answer, or else each snapshot, shows: its rank and its domains.
Shown(snaps, answers) ==
  IF answers # <<>> THEN answers
  ELSE [i \in DOMAIN snaps |-> [rank |-> snaps[i].best, domains |-> snaps[i].domains]]
\* Mutant: answers without the client have no place.
DistributionRanked(shown) ==
  [r \in {shown[i].rank : i \in DOMAIN shown} \ {NoRank} |-> Cardinality({i \in DOMAIN shown : shown[i].rank = r})]
Distribution(shown) ==
  [r \in {shown[i].rank : i \in DOMAIN shown} |-> Cardinality({i \in DOMAIN shown : shown[i].rank = r})]
Shares(shown) ==
  [d \in UNION {shown[i].domains : i \in DOMAIN shown} |->
    Rate(Cardinality({i \in DOMAIN shown : d \in shown[i].domains}), Len(shown))]
OkOf(s) == IF s.samples > s.failed THEN s.samples - s.failed ELSE 0
Half(part, ok) == ok > 0 /\ 2 * part >= ok

Aggregate(snaps, answers, organic) ==
  LET samples == Over(snaps, LAMBDA s : s.samples)
      failed == Over(snaps, LAMBDA s : s.failed)
      ok == IF samples > failed THEN samples - failed ELSE 0
      cited == Over(snaps, LAMBDA s : s.cited)
      mention == Over(snaps, LAMBDA s : Rate(s.mention * OkOf(s), Scale * Scale))
  IN [runs |-> Cardinality({snaps[i].run : i \in DOMAIN snaps}), samples |-> samples, failed |-> failed,
      ok |-> ok, cited |-> cited, rate |-> Rate(cited, ok), won |-> Half(cited, ok),
      mention |-> mention, named |-> Half(mention, ok),
      best |-> Best({snaps[i].best : i \in DOMAIN snaps}), mean |-> MeanRank(snaps),
      ranks |-> Distribution(Shown(snaps, answers)), shares |-> Shares(Shown(snaps, answers)),
      organic |-> Best({organic[i] : i \in DOMAIN organic})]

----------------------------------------------------------------------------
(* Properties. *)

Mirror(h) == [i \in DOMAIN h |-> [h[i] EXCEPT !.cited = h[i].ok - @, !.won = ~ @]]

\* stability.py: a verdict is of the newest crawls on the newest model only,
\* it is the same for never cited as for always cited, the whole band is on one
\* side of a half when it is stable, and crawls without answers never settle it.
VerdictSettled(h) ==
  LET v == Classify(h) IN
  /\ \A older \in DOMAIN h : Len(Admitted(Prefix(h, older))) = Window => Judged(Admitted(Prefix(h, older))) = Judged(Admitted(h))
  /\ h # <<>> => Classify(Comparable(h)) = v
  /\ Classify(Mirror(h)).state = v.state /\ Classify(Mirror(h)).score - v.score \in -2..2
  /\ v.state = "stable" =>
       LET c == CitedAnswers(Admitted(h))
           n == Answers(Admitted(h)) IN
       (2 * Low(c, n) >= Scale - 2 \/ 2 * High(c, n) <= Scale + 2) /\ v.streak > 0
  /\ v.state = "failing" => \A i \in DOMAIN Prefix(Comparable(h), Window) : Comparable(h)[i].ok = 0

\* positioning.py: a window is the pool of its crawls: its totals are theirs, its
\* rate lies between theirs, it is won when they all are, and every answer has
\* one place in the rank distribution.
WindowPools(snaps, answers, organic) ==
  LET w == Aggregate(snaps, answers, organic)
      one(i) == Aggregate(<<snaps[i]>>, <<>>, <<>>)
      of(k) == Total(DOMAIN snaps, LAMBDA i : one(i)[k]) IN
  /\ \A k \in {"samples", "failed", "cited", "mention"} : w[k] = of(k)
  /\ \E i, j \in DOMAIN snaps : one(i).rate - 1 <= w.rate /\ w.rate <= one(j).rate + 1
  /\ (\A i \in DOMAIN snaps : one(i).won) => w.won
  /\ (\A i \in DOMAIN snaps : ~ one(i).won) => ~ w.won
  /\ Total(DOMAIN w.ranks, LAMBDA r : w.ranks[r]) = Len(Shown(snaps, answers))
  /\ \A d \in DOMAIN w.shares : w.shares[d] <= Scale
  /\ answers = <<>> => Best(DOMAIN w.ranks \ {NoRank}) = w.best
=============================================================================
