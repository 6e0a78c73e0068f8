----------------------------- MODULE AlertRules -----------------------------
(***************************************************************************)
(* alerting/triggers.py: which events one window of insights raises.       *)
(***************************************************************************)
EXTENDS Insights

CONSTANTS MinTrials, SurgePrompts, MaxEvents

\* engine_totals
Trials(ps, e) == Sum(By(ps, e), "ok")
CitedOf(ps, e) == Least(Sum(By(ps, e), "cited"), Trials(ps, e))
Event(rule, severity, subject) == [rule |-> rule, severity |-> severity, subject |-> subject]

\* Mutant: the rates are compared, not the bands.
ApartAtAll(c, n, c0, n0) == n >= MinTrials /\ n0 >= MinTrials /\ Rate(c, n) < Rate(c0, n0)
\* _citation_drops: the two bands do not overlap.
Apart(c, n, c0, n0) == n >= MinTrials /\ n0 >= MinTrials /\ High(c, n) < Low(c0, n0)
Fell(ps, previous, e) ==
  Apart(CitedOf(ps, e), Trials(ps, e), CitedOf(previous, e), Trials(previous, e))
Drops(ps, previous) ==
  {Event("citation_drop", IF CitedOf(ps, e) = 0 THEN 0 ELSE 1, e) : e \in {x \in Engines : Fell(ps, previous, x)}}

\* _lost_prompts
Lost(changes, starred) ==
  {Event("lost_prompt", 1, c.prompt) : c \in {x \in Members(changes) : x.kind = "flip_down" /\ x.prompt \in starred}}

\* _competitor_surges: the changes are counted under what their `after` says,
\* which for a new competitor is the share it came in with.
Newcomers(changes) == Those(changes, LAMBDA c : c.kind = "new_competitor")
Surges(changes) ==
  LET after(x) == Cardinality({i \in DOMAIN Newcomers(changes) : Newcomers(changes)[i].after = x}) IN
  {Event("competitor_surge", 1, x) : x \in {y \in {c.after : c \in Members(Newcomers(changes))} : after(y) >= SurgePrompts}}

\* _negative_claims: `open` are the topics of the open cards of that type.
Claimed(open) == {Event("negative_claim", 0, t) : t \in open}

\* _silent_engines
Silent(ps, previous) ==
  {Event("engine_silent", 0, e) : e \in {x \in Engines : Trials(ps, x) = 0 /\ Trials(previous, x) > 0}}

\* evaluate: the rules that are on, most severe first, and no more than a digest holds.
Raised(ps, previous, changes, open, starred, rules) ==
  {v \in Drops(ps, previous) \cup Lost(changes, starred) \cup Surges(changes)
         \cup Claimed(open) \cup Silent(ps, previous) : v.rule \in rules}
Evaluate(ps, previous, changes, open, starred, rules) ==
  Prefix(Sorted(Listed(Raised(ps, previous, changes, open, starred, rules)),
                      LAMBDA a, b : a.severity < b.severity), MaxEvents)

\* triggers.py: a fall is one that sampling cannot explain, so the windows cannot
\* be a fall of each other, and twice the answers in the same proportion still make
\* it one; an engine that fell is not silent; and a digest that is full drops no
\* worse event than it keeps.
AlertsSound(ps, previous, changes, open, starred, rules) ==
  LET sent == Evaluate(ps, previous, changes, open, starred, rules)
      all == Raised(ps, previous, changes, open, starred, rules) IN
  /\ \A e \in Engines : Fell(ps, previous, e) =>
       /\ ~ Fell(previous, ps, e) /\ \A v \in Silent(ps, previous) : v.subject # e
       /\ Rate(CitedOf(ps, e), Trials(ps, e)) < Low(CitedOf(previous, e), Trials(previous, e))
       /\ Apart(2 * CitedOf(ps, e), 2 * Trials(ps, e), 2 * CitedOf(previous, e), 2 * Trials(previous, e))
  /\ \A v \in all \ Members(sent) : Len(sent) = MaxEvents /\ \A k \in Members(sent) : k.severity <= v.severity
=============================================================================
