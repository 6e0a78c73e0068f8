------------------------------ MODULE Insights ------------------------------
(***************************************************************************)
(* control_plane/insights.py: what a project's dashboard says, computed    *)
(* from the positions of a window and the answers behind them.             *)
(*                                                                         *)
(* Prompts, domains, urls, queries and sentences are numbers, in the order *)
(* their names sort in.  An answer is a record                             *)
(*   [prompt, engine, day, won, links, reads, queries, mentions, claims,   *)
(*    snippets]                                                            *)
(* whose links are urls in the order cited; a position is what Evidence's  *)
(* Aggregate returns, with its prompt and engine.                          *)
(***************************************************************************)
EXTENDS Evidence

CONSTANTS
  Engines,
  TopicOf, Volume,      \* prompt -> its subtopic, its search volume
  Mapped,               \* prompt -> it has a landing page
  DomainOf,             \* url -> domain
  ClassOf,              \* domain -> "client", "competitor", "aggregator", ...
  Overview,             \* the engine whose organic rank matters
  Rubric,               \* RUBRIC_VERSION
  Everywhere,           \* the topic, engine and key of a card that has none
  ListCap,              \* the length of the list of changes
  PageCap               \* the length of each of the two lists of pages

Percent(x) == (x * Scale) \div 100
Earned == {"aggregator", "forum", "marketplace", "reference"}
Is(class, d) == ClassOf[d] = class
Domains(s) == {DomainOf[s.links[i]] : i \in DOMAIN s.links}
By(s, e) == Those(s, LAMBDA x : x.engine = e)
About(s, prompts) == Those(s, LAMBDA x : x.prompt \in prompts)
Members(s) == {s[i] : i \in DOMAIN s}

----------------------------------------------------------------------------
(* Shares of sources. *)

\* _domain_share: the part of the answers that cites a domain.
Share(answers, d) == Rate(Cardinality({i \in DOMAIN answers : d \in Domains(answers[i])}), Len(answers))
Sources(answers) == UNION {Domains(answers[i]) : i \in DOMAIN answers}
\* The competitor cited most.
Rival(answers) ==
  LET rivals == {d \in Sources(answers) : Is("competitor", d)} IN
  IF rivals = {} THEN 0
  ELSE CHOOSE d \in rivals : \A o \in rivals : Share(answers, d) > Share(answers, o) \/ (Share(answers, d) = Share(answers, o) /\ d <= o)

\* Mutant: the shares of the domains are added up.
ThirdPartyShareSummed(answers) ==
  Total({d \in Sources(answers) : ClassOf[d] \in Earned}, LAMBDA d : Share(answers, d))
\* _third_party_share: one count per domain per answer.
ThirdPartyShare(answers) ==
  Rate(Over(answers, LAMBDA s : Cardinality({d \in Domains(s) : ClassOf[d] \in Earned})),
       Over(answers, LAMBDA s : Cardinality(Domains(s))))

\* _trust_profile: an engine's citations by the class of the site cited.
Cites(answers, e, class) == Over(By(answers, e), LAMBDA s : Cardinality({i \in DOMAIN s.links : ClassOf[DomainOf[s.links[i]]] = class}))
Trust(answers) ==
  LET classes == {ClassOf[d] : d \in DOMAIN ClassOf}
      all(e) == Total(classes, LAMBDA c : Cites(answers, e, c)) IN
  {[engine |-> x[1], class |-> x[2], citations |-> Cites(answers, x[1], x[2]), share |-> Rate(Cites(answers, x[1], x[2]), all(x[1]))] :
     x \in {y \in Engines \X classes : Cites(answers, y[1], y[2]) > 0}}

----------------------------------------------------------------------------
(* Verdicts and changes. *)

Sum(ps, k) == Over(ps, LAMBDA p : p[k])
CitedRate(ps) == Rate(Sum(ps, "cited"), Sum(ps, "ok"))
MentionRate(ps) == Rate(Sum(ps, "mention"), Sum(ps, "ok"))

\* _health of one engine.
Health(ps, previous, answers, e) ==
  LET mine == By(ps, e)
      cited == CitedRate(mine)
      best == Best({mine[i].best : i \in DOMAIN mine})
      rival == Rival(By(answers, e))
      leads == rival # 0 /\ Share(By(answers, e), rival) > cited
      wins == cited >= Percent(50) /\ best # NoRank /\ best <= 3
  IN [engine |-> e, cited |-> cited, mention |-> MentionRate(mine), best |-> best,
      low |-> Low(Least(Sum(mine, "cited"), Sum(mine, "ok")), Sum(mine, "ok")),
      high |-> High(Least(Sum(mine, "cited"), Sum(mine, "ok")), Sum(mine, "ok")),
      crawls |-> Max({0} \cup {mine[i].runs : i \in DOMAIN mine}),
      delta |-> IF By(previous, e) = <<>> THEN 0 ELSE cited - CitedRate(By(previous, e)),
      verdict |-> CASE wins -> "winning"
                    [] ~ wins /\ leads /\ cited < Percent(50) -> "losing"
                    [] ~ wins /\ ~ (leads /\ cited < Percent(50)) /\ cited + MentionRate(mine) > 0 -> "present"
                    [] OTHER -> "invisible",
      rival |-> IF ~ wins /\ leads /\ cited < Percent(50) THEN rival ELSE 0]

\* _changes of one pair present in both windows.
ShareIn(p, d) == IF d \in DOMAIN p.shares THEN p.shares[d] ELSE 0
Entered(p, old) == {d \in DOMAIN p.shares : p.shares[d] >= Percent(30) /\ ShareIn(old, d) < Percent(30)}
FirstTwo(p, ds) == {d \in ds : Cardinality({o \in ds : p.shares[o] > p.shares[d] \/ (p.shares[o] = p.shares[d] /\ o < d)}) < 2}
Change(kind, p, d) == [kind |-> kind, prompt |-> p.prompt, engine |-> p.engine, domain |-> d, after |-> ShareIn(p, d)]
BothRanked(p, old) == p.best # NoRank /\ old.best # NoRank
PairChanges(p, old) ==
  {Change("flip_up", p, 0) : x \in {y \in {p} : p.won /\ ~ old.won}}
  \cup {Change("flip_down", p, 0) : x \in {y \in {p} : ~ p.won /\ old.won}}
  \cup {Change("rank_up", p, 0) : x \in {y \in {p} : BothRanked(p, old) /\ p.best + 2 <= old.best}}
  \cup {Change("rank_down", p, 0) : x \in {y \in {p} : BothRanked(p, old) /\ old.best + 2 <= p.best}}
  \cup {Change("new_competitor", p, d) : d \in FirstTwo(p, Entered(p, old))}
Key(p) == <<p.prompt, p.engine>>
Gravity(c) == CASE c.kind = "flip_down" -> 0 [] c.kind = "lost_platform" -> 1 [] c.kind = "rank_down" -> 2
                [] c.kind = "new_competitor" -> 3 [] c.kind = "flip_up" -> 4 [] c.kind = "rank_up" -> 5
Changes(ps, previous, prompts) ==
  LET both == {x \in Members(ps) \X Members(previous) : Key(x[1]) = Key(x[2])}
      gone == {q \in Members(previous) : q.prompt \in prompts /\ \A p \in Members(ps) : Key(p) # Key(q)}
      all == UNION {PairChanges(x[1], x[2]) : x \in both} \cup {Change("lost_platform", q, 0) : q \in gone}
  IN Prefix(Sorted(Listed(all), LAMBDA a, b : Gravity(a) < Gravity(b)), ListCap)

----------------------------------------------------------------------------
(* What the answers are made of. *)

\* _fanout: the engines' own queries.
AskedIn(answers, q) == {i \in DOMAIN answers : q \in answers[i].queries}
Fanout(answers) ==
  {[query |-> q, engines |-> {answers[i].engine : i \in AskedIn(answers, q)},
    prompts |-> Cardinality({answers[i].prompt : i \in AskedIn(answers, q)}),
    topics |-> {TopicOf[answers[i].prompt] : i \in AskedIn(answers, q)},
    covered |-> \E i \in AskedIn(answers, q) : answers[i].won] :
     q \in UNION {answers[i].queries : i \in DOMAIN answers}}

\* _claims: a sentence attributed to a url, once per engine.
Claims(answers) == UNION {{[sentence |-> c[1], url |-> c[2], engine |-> answers[i].engine] : c \in answers[i].claims} : i \in DOMAIN answers}

\* _read_but_rejected: the client's pages read for an answer that cites others.
Rejected(answers) ==
  {[url |-> x[1], engine |-> x[2],
    samples |-> Cardinality({i \in DOMAIN answers : answers[i].engine = x[2] /\ ~ answers[i].won /\ x[1] \in answers[i].reads})] :
     x \in {y \in (DOMAIN DomainOf) \X Engines : Is("client", DomainOf[y[1]]) /\ \E i \in DOMAIN answers :
              answers[i].engine = y[2] /\ ~ answers[i].won /\ y[1] \in answers[i].reads}}

\* _pages: every cited url with how often, where and for what.
Links(s, u) == Cardinality({i \in DOMAIN s.links : s.links[i] = u})
Pages(answers) ==
  {[url |-> u, citations |-> Over(answers, LAMBDA s : Links(s, u)),
    engines |-> {answers[i].engine : i \in {j \in DOMAIN answers : Links(answers[j], u) > 0}},
    prompts |-> Cardinality({answers[i].prompt : i \in {j \in DOMAIN answers : Links(answers[j], u) > 0}})] :
     u \in UNION {Members(answers[i].links) : i \in DOMAIN answers}}
\* The winning pages, and the client's: of each, those cited most are shown.
Owned(p) == Is("client", DomainOf[p.url])
Beats(p, q) == p.citations > q.citations \/ (p.citations = q.citations /\ p.url < q.url)
PagesOf(answers, own) == {p \in Pages(answers) : Owned(p) = own}
\* Mutant: one list is cut, and then split.
ListingSplitLast(answers, own) ==
  {p \in PagesOf(answers, own) : Cardinality({q \in Pages(answers) : Beats(q, p)}) < PageCap}
Listing(answers, own) ==
  {p \in PagesOf(answers, own) : Cardinality({q \in PagesOf(answers, own) : Beats(q, p)}) < PageCap}

\* _freshness: the ages of the dated sources an engine cites, its own and the rivals'.
AgesOf(answers, e, class) ==
  UNION {{<<i, n>> : n \in {m \in DOMAIN answers[i].snippets :
            answers[i].snippets[m].url \in Members(answers[i].links)
            /\ (class = "any" \/ Is(class, DomainOf[answers[i].snippets[m].url]))}} :
           i \in {j \in DOMAIN answers : answers[j].engine = e}}
\* _median_age_days, twice over
Median2(ages) ==
  LET s == Sorted(ages, <) n == Len(ages) IN
  IF n = 0 THEN -1 ELSE s[(n + 1) \div 2] + s[n \div 2 + 1]
Freshness(answers, e, class) ==
  LET dated == Listed(AgesOf(answers, e, class)) IN
  Median2([k \in DOMAIN dated |-> answers[dated[k][1]].snippets[dated[k][2]].age])

\* _sentiment of one entity on one engine, from the judge's verdicts.
Scored(rows) == Those(rows, LAMBDA r : r.ok /\ r.rubric = Rubric)
Sentiment(judged, e, entity) ==
  LET rows == Those(judged, LAMBDA r : r.engine = e /\ r.entity = entity)
      n(p) == Len(Those(Scored(rows), LAMBDA r : r.polarity = p))
      about == n("positive") + n("neutral") + n("negative")
  IN [judged |-> Len(Scored(rows)), unscored |-> Len(rows) - Len(Scored(rows)),
      positive |-> n("positive"), neutral |-> n("neutral"), negative |-> n("negative"), other |-> n("not_about_brand"),
      share |-> Rate(n("negative"), about), low |-> Low(n("negative"), about), high |-> High(n("negative"), about)]

\* _negative_client_judgements
Negatives(judged) == Those(Scored(judged), LAMBDA r : r.entity = "client" /\ r.polarity = "negative" /\ r.sure)

----------------------------------------------------------------------------
(* The action cards: _actions_for, one rule at a time. *)

Card(type, e, topic, key, impact, metric) ==
  [type |-> type, engine |-> e, topic |-> topic, key |-> key, impact |-> impact, value |-> metric]
CardId(c) == <<c.type, c.engine, c.topic, c.key>>
If(condition, card) == {c \in {card} : condition}
Cluster(topic, prompts) == {p \in prompts : TopicOf[p] = topic}
\* 1 + the volume of the cluster / 100, in hundredths
Weight(pids) == 100 + Total(pids, LAMBDA p : Volume[p])

Gap(type, key, gain) == [type |-> type, key |-> key, gain |-> gain]
\* An overview that ignores a good organic rank; citations third parties earn; a rate
\* that fell by a fifth.
GapCards(e, cited, organic, earned, was) ==
  If(e = Overview /\ organic # NoRank /\ organic <= 5 /\ cited < Percent(20), Gap("aio_gap", 0, Percent(50) - cited))
  \cup If(earned >= Percent(30) /\ cited < Percent(50), Gap("earned_placement", 0, (earned * (Percent(50) - cited)) \div Scale))
  \cup If(was - cited >= Percent(20), Gap("defend", 0, was - cited))
\* A client that is named and not cited; a rival that owns the claim; a critical claim.
ClaimCards(cited, named, rival, share, negative) ==
  If(named >= Percent(40) /\ cited <= Percent(10), Gap("convert_mention", 0, Percent(50) - cited))
  \cup If(rival # 0 /\ share >= Percent(30) /\ cited < share, Gap("own_claim", rival, share - cited))
  \cup If(negative > 0, Gap("negative_claim", 0, Least(Scale, negative)))
TopicCards(ps, previous, answers, judged, pids, topic, e) ==
  LET mine == About(By(ps, e), pids)
      ok == Sum(mine, "ok")
      cited == CitedRate(mine)
      of == About(By(answers, e), pids)
      rival == Rival(of)
      gaps == ClaimCards(cited, MentionRate(mine), rival, IF rival = 0 THEN 0 ELSE Share(of, rival),
                         Rate(Len(About(By(Negatives(judged), e), pids)), ok))
              \cup GapCards(e, cited, Best({mine[i].organic : i \in DOMAIN mine}), ThirdPartyShare(of),
                            CitedRate(About(By(previous, e), pids)))
  IN {Card(g.type, e, topic, g.key, (Weight(pids) * g.gain) \div Scale, cited) : g \in {h \in gaps : ok # 0}}

LandingCards(pids, topic) ==
  If(\E p \in pids : ~ Mapped[p], Card("landing_page", Everywhere, topic, 0, (40 * Weight(pids)) \div 100, 0))
RejectedCards(answers) ==
  {Card("read_but_rejected", r.engine,
        TopicOf[answers[Min({i \in DOMAIN answers : r.url \in answers[i].reads})].prompt],
        r.url, 100 + 30 * r.samples, 0) : r \in Rejected(answers)}
FreshnessCards(answers) ==
  UNION {If(/\ Freshness(answers, e, "client") >= 0 /\ Freshness(answers, e, "competitor") >= 0
            /\ Freshness(answers, e, "client") - Freshness(answers, e, "competitor") > 2 * 365,
            Card("freshness", e, Everywhere, 0, 150, 0)) : e \in Engines}

Cards(ps, previous, answers, judged, prompts) ==
  UNION {LandingCards(Cluster(TopicOf[p], prompts), TopicOf[p])
         \cup UNION {TopicCards(ps, previous, answers, judged, Cluster(TopicOf[p], prompts), TopicOf[p], e) : e \in Engines} :
           p \in prompts}
  \cup RejectedCards(answers) \cup FreshnessCards(answers)

\* _apply_states: a card marked done is measured against the value it had then,
\* once a later consolidation is there.
Outcome(state, basis, now) ==
  IF state.status # "done" \/ basis = 0 \/ basis = state.basis THEN "pending"
  ELSE IF now - state.value >= Percent(10) THEN "improved"
  ELSE IF now - state.value <= 0 - Percent(10) THEN "regressed" ELSE "unchanged"
\* update_action: done keeps the value and the consolidation of its day.
Done(card, basis) == [status |-> "done", basis |-> basis, value |-> card.value]

----------------------------------------------------------------------------
(* Properties. *)

\* The pages shown and those left out have all the links between them, and a page is
\* left out only where the list of its kind is full of pages that come before it.
PagesShown(answers) ==
  LET left == Pages(answers) \ (Listing(answers, TRUE) \cup Listing(answers, FALSE)) IN
  /\ Total(Listing(answers, TRUE), LAMBDA p : p.citations) + Total(Listing(answers, FALSE), LAMBDA p : p.citations)
     + Total(left, LAMBDA p : p.citations) = Over(answers, LAMBDA s : Len(s.links))
  /\ \A own \in BOOLEAN : Cardinality(Listing(answers, own)) <= PageCap
  /\ \A p \in left : Cardinality(Listing(answers, Owned(p))) = PageCap
                    /\ \A q \in Listing(answers, Owned(p)) : Beats(q, p)

\* insights.py: what is shown adds up.  A share is a part of the whole, an engine's
\* trust profile is all of it but for half a digit a class, the pages account for every
\* link, and a sentence is judged once or left unscored.
SharesAddUp(answers, judged) ==
  /\ ThirdPartyShare(answers) <= Scale
  /\ \A e \in Engines : LET mine == {t \in Trust(answers) : t.engine = e} IN
       mine # {} => LET off == 2 * (Total(mine, LAMBDA t : t.share) - Scale) IN
                    0 - Cardinality(mine) <= off /\ off <= Cardinality(mine)
  /\ PagesShown(answers)
  /\ \A e \in Engines : LET v == Sentiment(judged, e, "client") IN
       /\ v.judged = v.positive + v.neutral + v.negative + v.other
       /\ v.low <= v.share /\ v.share <= v.high
       /\ v.judged + v.unscored = Len(Those(judged, LAMBDA r : r.engine = e /\ r.entity = "client"))

\* insights.build: a prompt's own page shows that prompt's part of the project's
\* changes, because the scope is applied before the lists are cut; and a list
\* that is cut keeps the gravest.
ChangesScoped(ps, previous, prompts) ==
  LET shown == Changes(ps, previous, prompts) IN
  /\ \A p \in prompts : LET own == Members(Changes(About(ps, {p}), About(previous, {p}), {p})) IN
       /\ {c \in Members(shown) : c.prompt = p} \subseteq own
       /\ Len(shown) < ListCap => own \subseteq Members(shown)
       /\ \A c \in own \ Members(shown) : \A k \in Members(shown) : Gravity(k) <= Gravity(c)
  /\ \A c, k \in Members(shown) : Key(c) = Key(k) /\ c.kind = "flip_up" => k.kind # "flip_down"

\* insights._actions_for: one card per (type, engine, topic, key), which is what an
\* analyst's mark is stored under; no card promises more than its topic weighs; and
\* in a project of one topic a card that defends an engine agrees with its health.
CardsSound(ps, previous, answers, judged, prompts) ==
  LET cards == Cards(ps, previous, answers, judged, prompts) IN
  /\ \A c, d \in cards : CardId(c) = CardId(d) => c = d
  /\ \A c \in cards : c.topic # Everywhere /\ c.type # "read_but_rejected" =>
       c.impact >= 0 /\ c.impact <= Weight(Cluster(c.topic, prompts))
  /\ Cardinality({TopicOf[p] : p \in prompts}) = 1 => \A e \in Engines :
       (\E c \in cards : c.type = "defend" /\ c.engine = e)
         => Health(ps, previous, answers, e).delta <= 0 - Percent(20)
  /\ \A c \in cards : Outcome(Done(c, 1), 2, c.value) = "unchanged"

=============================================================================
