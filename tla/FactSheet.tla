------------------------------ MODULE FactSheet ------------------------------
(***************************************************************************)
(* reporting/facts.py and reporting/narrative.py: the figures a client's   *)
(* report may state, and the prose a model writes around them.             *)
(*                                                                         *)
(* A text is [figures, url, blank]: the numbers in it, in their order,     *)
(* whether it holds an address, and whether it is empty.  Its words and    *)
(* the dates of the window are left out; a number takes two characters.    *)
(***************************************************************************)
EXTENDS Insights

CONSTANTS
  MinShare,            \* _MIN_COMPETITOR_SHARE
  MaxCompetitors,      \* MAX_COMPETITORS, MAX_ACTIONS, MAX_CHANGES
  MaxActions, MaxChanges,
  Headline, Prose,     \* the length of a headline and of a summary, in characters
  NoFigure             \* None

----------------------------------------------------------------------------
(* The sheet. *)

Pooled(ps, k) == <<Least(Sum(ps, k), Sum(ps, "ok")), Sum(ps, "ok")>>
Kpi(value, low, high, previous) ==
  [value |-> value, low |-> low, high |-> high, previous |-> previous, delta |-> IF previous = NoFigure THEN NoFigure ELSE value - previous]
\* Mutant: the mean of the positions' rates.
RateKpiMean(ps, previous, k) ==
  LET mean(s) == Rate(Over(s, LAMBDA p : Rate(p[k], p.ok)), Len(s) * Scale) IN
  Kpi(mean(ps), 0, Scale, IF previous = <<>> THEN NoFigure ELSE mean(previous))
RateKpi(ps, previous, k) ==
  LET now == Pooled(ps, k)
      then == Pooled(previous, k)
      known == now[2] > 0 IN
  Kpi(Rate(now[1], now[2]), IF known THEN Low(now[1], now[2]) ELSE NoFigure, IF known THEN High(now[1], now[2]) ELSE NoFigure,
      IF then[2] = 0 THEN NoFigure ELSE Rate(then[1], then[2]))

DomainShares(ps) ==
  [d \in UNION {DOMAIN ps[i].shares : i \in DOMAIN ps} |-> Over(ps, LAMBDA p : ShareIn(p, d)) \div Len(ps)]
Competitors(ps) ==
  LET shares == DomainShares(ps)
      rows == {[domain |-> d, share |-> Least(shares[d], Scale), client |-> Is("client", d)] : d \in {x \in DOMAIN shares : shares[x] >= MinShare}}
  IN Prefix(Sorted(Listed(rows), LAMBDA a, b : a.share > b.share), MaxCompetitors)
\* Out of the sources that are listed, not of all that were cited.
ShareOfVoice(competitors) ==
  Rate(Over(Those(competitors, LAMBDA c : c.client), LAMBDA c : c.share), Over(competitors, LAMBDA c : c.share))

Asked(ps) == {ps[i].prompt : i \in DOMAIN ps}
\* `tracked` is how many prompts are tracked on each engine.
EngineFact(ps, previous, answers, tracked, e) ==
  [prompts |-> IF tracked[e] > 0 THEN tracked[e] ELSE Cardinality(Asked(By(ps, e))), samples |-> Sum(By(ps, e), "samples")]
  @@ Health(ps, previous, answers, e)
\* The client's own sentiment, where something was judged.
SentimentFacts(judged) ==
  {[negative |-> Sentiment(judged, e, "client").share, judged |-> Sentiment(judged, e, "client").judged] :
     e \in {x \in Engines : Sentiment(judged, x, "client").judged > 0}}

\* build_fact_sheet; `titles` are the texts of the cards and `moves` those of the changes.
Sheet(ps, previous, answers, judged, tracked, titles, moves) ==
  LET now == ShareOfVoice(Competitors(ps))
      then == IF previous = <<>> THEN NoFigure ELSE IF Competitors(previous) = <<>> THEN NoFigure ELSE ShareOfVoice(Competitors(previous)) IN
  [crawls |-> Max({0} \cup {ps[i].runs : i \in DOMAIN ps}), prompts |-> Cardinality(Asked(ps)), samples |-> Sum(ps, "samples"),
   cited |-> RateKpi(ps, previous, "cited"), named |-> RateKpi(ps, previous, "mention"), voice |-> Kpi(now, NoFigure, NoFigure, then),
   engines |-> [i \in 1..Cardinality(Engines) |-> EngineFact(ps, previous, answers, tracked, SetToSeq(Engines)[i])],
   competitors |-> Competitors(ps), sentiment |-> SentimentFacts(judged),
   actions |-> Prefix(titles, MaxActions), changes |-> Prefix(moves, MaxChanges)]

----------------------------------------------------------------------------
(* The check. *)

Pct(x) == (2 * x * 100 + Scale) \div (2 * Scale)
Size(x) == IF x < 0 THEN -x ELSE x
\* What model_payload prints of a metric.
Printed(kpi) == {Pct(x) : x \in {kpi.value, kpi.previous} \ {NoFigure}} \cup {Pct(Size(x)) : x \in {kpi.delta} \ {NoFigure}}
EngineFigures(f) == {Pct(f.cited), Pct(f.mention), f.samples, f.prompts, f.crawls} \cup ({f.best} \ {NoRank}) \cup {Pct(Size(f.delta))}
\* allowed_numbers, with the ordinals.
Allowed(sheet) ==
  0..3 \cup {sheet.crawls, sheet.prompts, sheet.samples, Len(sheet.engines), Len(sheet.actions)}
  \cup UNION {Printed(kpi) : kpi \in {sheet.cited, sheet.named, sheet.voice}}
  \cup UNION {EngineFigures(sheet.engines[i]) : i \in DOMAIN sheet.engines}
  \cup {Pct(sheet.competitors[i].share) : i \in DOMAIN sheet.competitors}
  \cup UNION {{Pct(s.negative), s.judged} : s \in sheet.sentiment}

Figures(text) == {text.figures[i] : i \in DOMAIN text.figures}
Offends(text, allowed) == text.url \/ ~ (Figures(text) \subseteq allowed)
\* text[:chars], which may go through a number.
Clip(text, chars) ==
  LET whole == Least(chars \div 2, Len(text.figures)) IN
  [text EXCEPT !.figures = SubSeq(@, 1, whole) \o (IF chars % 2 = 1 /\ whole < Len(@) THEN <<@[whole + 1] \div 10>> ELSE <<>>)]

Checked(text, allowed, fallback) == IF Offends(text, allowed) THEN fallback ELSE text
\* Mutant: nothing falls back as long as something survives, and then everything stays.
CheckedListWhole(texts, allowed, fallback) ==
  IF \A i \in DOMAIN texts : Offends(texts[i], allowed) THEN fallback ELSE texts
CheckedList(texts, allowed, fallback) ==
  LET kept == Those(texts, LAMBDA t : ~ Offends(t, allowed)) IN
  IF kept = <<>> /\ texts # <<>> THEN fallback ELSE kept

----------------------------------------------------------------------------
(* The prose. *)

Plain(figures) == [figures |-> figures, url |-> FALSE, blank |-> FALSE]
First(s, before(_, _)) == Min({i \in DOMAIN s : \A j \in DOMAIN s : ~ before(s[j], s[i])})
\* template_narrative.
Template(sheet) ==
  LET rate == Pct(sheet.cited.value)
      points == IF sheet.cited.delta = NoFigure THEN 0 ELSE Pct(Size(sheet.cited.delta))
      strongest == First(sheet.engines, LAMBDA a, b : a.cited > b.cited)
      weakest == First(sheet.engines, LAMBDA a, b : a.cited < b.cited)
      ranked == Sorted(sheet.engines, LAMBDA a, b : a.cited > b.cited)
      losing == Those(sheet.engines, LAMBDA f : f.verdict \in {"invisible", "losing"})
  IN [headline |-> Plain(<<rate>>),
      summary |-> Plain(<<sheet.prompts, sheet.samples, rate, sheet.crawls>> \o (IF points = 0 THEN <<>> ELSE <<points>>)
                        \o (IF strongest = weakest THEN <<>> ELSE <<Pct(sheet.engines[strongest].cited), Pct(sheet.engines[weakest].cited)>>)),
      wins |-> LET best == Those(Prefix(ranked, 3), LAMBDA f : f.cited > 0) IN [i \in DOMAIN best |-> Plain(<<Pct(best[i].cited)>>)],
      risks |-> IF losing = <<>> THEN Prefix(sheet.changes, 3) ELSE [i \in DOMAIN Prefix(losing, 3) |-> Plain(<<>>)],
      steps |-> Prefix(sheet.actions, 3), source |-> "template", rejected |-> {}]

\* compose: `reply.state` is "complete", "none" for what is caught or looked for (the
\* prose turned off, no budget, no key, a failing vendor, a refusal, a reply cut
\* short), or "rejected": the vendor turns the request down (a 4xx, a body that is
\* no JSON object), which is an UpstreamClientError and is not caught.
Raised == [source |-> "raised"]
Compose(sheet, reply) ==
  LET allowed == Allowed(sheet)
      fallback == Template(sheet)
      lists == {"wins", "risks", "steps"}
      rejected == {s \in {"headline", "summary"} : Offends(reply[s], allowed)}
                  \cup {s \in lists : \E i \in DOMAIN reply[s] : Offends(reply[s][i], allowed)}
      list(s) == Prefix(CheckedList(Those(reply[s], LAMBDA t : ~ t.blank), allowed, fallback[s]), 3) IN
  IF reply.state = "rejected" THEN Raised
  ELSE IF reply.state = "none" \/ Checked(reply.summary, allowed, fallback.summary).blank THEN fallback
  ELSE [headline |-> Clip(Checked(reply.headline, allowed, fallback.headline), Headline),
        summary |-> Clip(Checked(reply.summary, allowed, fallback.summary), Prose),
        wins |-> list("wins"), risks |-> list("risks"), steps |-> list("steps"),
        source |-> IF rejected = {} THEN "model" ELSE "mixed", rejected |-> rejected]

----------------------------------------------------------------------------
(* Properties. *)

\* facts.py: counts first, rates second: a rate of the sheet is the same in
\* whatever groups it is pooled, lies between those of the platforms and in its
\* own band, and agrees with what the dashboard says of a lone platform.
SheetPooled(sheet, ps) ==
  LET heard == {i \in DOMAIN sheet.engines : Sum(By(ps, sheet.engines[i].engine), "ok") > 0}
      of(k) == {sheet.engines[i][k] : i \in heard} IN
  /\ heard # {} => /\ Min(of("cited")) <= sheet.cited.value /\ sheet.cited.value <= Max(of("cited"))
                  /\ Min(of("mention")) <= sheet.named.value /\ sheet.named.value <= Max(of("mention"))
  /\ sheet.cited.low # NoFigure => sheet.cited.low - 1 <= sheet.cited.value /\ sheet.cited.value <= sheet.cited.high + 1
  /\ sheet.voice.value > 0 => \E i \in DOMAIN ps : \E d \in DOMAIN ps[i].shares : Is("client", d) /\ ps[i].shares[d] > 0

\* narrative.py: whatever the model writes, a report prints a number or an address
\* of the model's only if the sheet accounts for it (a number the limit cuts in two
\* apart); it says which sections it refused; without a reply it is the template;
\* only a request turned down leaves the report without words; and the figures of
\* its own sentences are ones it would accept.
ProseChecked(sheet, reply) ==
  LET n == Compose(sheet, reply)
      said(s) == Those(reply[s], LAMBDA t : ~ t.blank)
      own == Template(sheet)
      allowed == Allowed(sheet)
      uncut == 2 * Len(reply.headline.figures) <= Headline /\ 2 * Len(reply.summary.figures) <= Prose
      from(s, list) == \A i \in DOMAIN list : ~ Offends(list[i], allowed) \/ \E j \in DOMAIN own[s] : own[s][j] = list[i]
  IN /\ n = Raised <=> reply.state = "rejected"
     /\ reply.state = "none" => n = own
     /\ n # Raised =>
          /\ uncut => ~ Offends(n.headline, allowed) /\ ~ Offends(n.summary, allowed)
          /\ \A s \in {"wins", "risks", "steps"} : from(s, n[s])
          /\ n.source = "mixed" <=> n.rejected # {}
          /\ n.source = "model" /\ uncut =>
               /\ n.headline = reply.headline /\ n.summary = reply.summary
               /\ \A s \in {"wins", "risks", "steps"} : n[s] = Prefix(said(s), 3)
          /\ ~ n.summary.blank
     /\ ~ Offends(own.headline, allowed) /\ ~ Offends(own.summary, allowed) /\ \A i \in DOMAIN own.wins : ~ Offends(own.wins[i], allowed)
==============================================================================
