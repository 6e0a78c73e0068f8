---------------------------- MODULE MCAlgorithms ----------------------------
(***************************************************************************)
(* The pure parts of the program over bounded inputs: a behaviour picks    *)
(* one topic and one input of it, and the invariants are the properties    *)
(* of that topic's module at that input.                                   *)
(***************************************************************************)
EXTENDS Integers, Sequences, FiniteSets, SequencesExt, FiniteSetsExt, TLC

VARIABLES topic, in
vars == <<topic, in>>

Open(t) == topic = t /\ in = <<>>
Put(input) == in' = input /\ UNCHANGED topic
Asked(t) == topic = t /\ in # <<>>

----------------------------------------------------------------------------
(* Sampling: three pairs, the third always volatile, one prompt on both platforms. *)

P == INSTANCE Sampling WITH StabilityWindow <- 3, StretchMax <- 3, MinSamples <- 2, VolatileBoost <- 2, MaxSamples <- 6

SomePair(id, prompt, platform) ==
  {[id |-> id, prompt |-> prompt, platform |-> platform, state |-> s[1], streak |-> s[2], score |-> s[3],
    important |-> i, ownInterval |-> FALSE, ownSamples |-> FALSE, returned |-> r, age |-> a, interval |-> 1, base |-> b] :
     s \in {<<"stable", 3, 9>>, <<"stable", 6, 9>>, <<"volatile", 1, 2>>},
     i \in BOOLEAN, r \in {FALSE}, a \in {0, 1, 2, 3}, b \in {1, 5}}
LastPair == [id |-> 3, prompt |-> "q", platform |-> "b", state |-> "volatile", streak |-> 1, score |-> 1,
             important |-> FALSE, ownInterval |-> FALSE, ownSamples |-> FALSE, returned |-> FALSE,
             age |-> 1, interval |-> 1, base |-> 1]
AskPlan ==
  /\ Open("plan")
  /\ \E x \in SomePair(1, "p", "a"), y \in SomePair(2, "p", "b"), runs \in {2, 3}, crawls \in {<<>>, <<<<1, 0>>, <<4, 3>>>>} :
      /\ y.base <= x.base /\ (y.important <=> x.important)
      /\ Put([pairs |-> {x, y, LastPair}, runs |-> runs, crawls |-> crawls])

\* sampling.plan, planner.batches: a plan's figures are those of its items, and
\* its batches are a partition of them in the order of importance.
PlansAddUp ==
  Asked("plan") =>
    /\ P!PlanAddsUp(in.pairs, "reallocate", in.runs, in.crawls)
    /\ P!BatchesPartition(P!Plan(in.pairs, "reallocate", "due", in.runs, in.crawls).items)

----------------------------------------------------------------------------
(* One uploaded log, of three lines, or an array of two records, against the answers *)
(* of the window. *)

L == INSTANCE AccessLog WITH DayHours <- 24, MaxKeys <- 2, IndexFiles <- {"index", "default"}, Sensitive <- {"token"},
       Bots <- [gpt |-> [vendor |-> "v1", purpose |-> "index", engine |-> "e1"],
                plx |-> [vendor |-> "v2", purpose |-> "train", engine |-> "none"]],
       Ranged <- {"v1"}, NoBot <- "nobody", MinFetches <- 2, MinSamples <- 1, RejectMinLines <- 3

NoLine == [form |-> "line", text |-> 0, format |-> "combined", comma |-> FALSE, hour |-> 30, offset |-> -8, method |-> "GET",
           agent |-> "gpt", host |-> "", ip |-> "v1", cdn |-> FALSE, path |-> <<"a">>, status |-> 200, weight |-> 1]
Lines ==
  {NoLine}
  \cup {[NoLine EXCEPT !.form = f] : f \in {"blank", "long", "garbage", "badtime"}}
  \cup {[NoLine EXCEPT !.method = m] : m \in {"POST", "none"}}
  \cup {[NoLine EXCEPT !.path = p] : p \in {<<"A", "">>, <<"", "a", "index">>, <<"token">>}}
  \cup {[NoLine EXCEPT !.agent = "nobody", !.ip = p] : p \in {"v1", "elsewhere"}}
  \cup {[NoLine EXCEPT !.status = s] : s \in {304, 301, 403, 404, 503}}
  \cup {[NoLine EXCEPT !.agent = "plx", !.format = "cloudflare", !.host = h] : h \in {"other", "ours"}}
  \cup {[NoLine EXCEPT !.format = "cloudflare", !.form = f] : f \in {"garbage", "badtime", "partial"}}
\* An array: a line may be too long, or too often there, to be kept.
Record == [NoLine EXCEPT !.format = "cloudflare", !.host = "ours"]
Elements ==
  {Record, [Record EXCEPT !.weight = 3]} \cup {[Record EXCEPT !.form = f] : f \in {"long", "garbage", "badtime", "partial"}}
  \cup {[Record EXCEPT !.method = m] : m \in {"POST", "none"}} \cup {[Record EXCEPT !.format = "other"]}
OpenLine == [NoLine EXCEPT !.format = "array", !.form = "open"]
CloseLine == [NoLine EXCEPT !.format = "other", !.form = "close"]
Arrays ==
  {<<[OpenLine EXCEPT !.text = 1], [x EXCEPT !.comma = TRUE, !.text = 2], [y EXCEPT !.comma = z, !.text = t], [w EXCEPT !.text = 5]>> :
     x, y \in Elements, z \in BOOLEAN, t \in {2, 3}, w \in {CloseLine, Record}}
AskLog ==
  /\ Open("log")
  /\ \E cites \in {{}, {<<"ours", <<"a">>>>}, {<<"ours", <<"A">>>>}} :
     \E log \in Arrays \cup {<<[a EXCEPT !.text = 1], [b EXCEPT !.text = 2], [c EXCEPT !.text = t]>> : a, b, c \in Lines, t \in {2, 3}} :
       Put([log |-> log, answers |-> <<[engine |-> "e1", cites |-> cites, reads |-> {}]>>])
\* The rows of a refused import are not kept.
LogStats == L!IterHits(in.log)
LogHits == IF LogStats.refused THEN <<>> ELSE LogStats.hits
LogRows == L!Aggregate(LogHits, <<"ours">>)
Folded == [k \in {<<"ours", <<"a">>>>, <<"ours", <<"A">>>>} |-> 1]

\* parser.py, ingest.py: what is accepted of a log is counted, its lines and its
\* hits, once, and lies on a key the citations of the same page have too.
LogsAccounted ==
  Asked("log") =>
    /\ L!LinesAccounted(LogStats, in.log) /\ L!RowsAccounted(LogRows, LogHits)
    /\ \A i \in DOMAIN in.log : L!OneKeyPerPage(in.log[i].path)
\* funnel.py: the tab's views agree and its cards accuse on evidence only.
FunnelAgrees == Asked("log") => L!FunnelTrue(LogRows.rows, in.answers, Folded, {})

----------------------------------------------------------------------------
(* Evidence: four crawls of a pair; three snapshots of a window. *)

Dashboard == INSTANCE AlertRules WITH
  Scale <- 100, ZNum <- 96, ZDen <- 25, Window <- 3, MinCrawls <- 2, MinOk <- 2, MaxAge <- 5, NoRank <- 99,
  Engines <- {1, 2}, TopicOf <- <<1, 1>>, Volume <- <<0, 150>>, Mapped <- <<TRUE, FALSE>>, DomainOf <- <<1, 2, 3, 4>>,
  ClassOf <- <<"client", "competitor", "forum", "reference">>, Overview <- 2, Rubric <- 1, Everywhere <- 0, ListCap <- 4,
  PageCap <- 1, MinTrials <- 5, SurgePrompts <- 2, MaxEvents <- 2

Crawls ==
  {[model |-> m, age |-> 0, ok |-> x[1], cited |-> x[2], won |-> x[1] > 0 /\ 2 * x[2] >= x[1]] :
     m \in {1, 2}, x \in {<<0, 0>>, <<1, 1>>, <<4, 0>>, <<4, 2>>, <<5, 4>>, <<6, 6>>}}
AskHistory ==
  /\ Open("history")
  /\ \E a, b, c, d \in Crawls, age \in {0, 6} :
      /\ c.model <= b.model /\ d.model <= c.model
      /\ Put(<<[a EXCEPT !.age = age], b, c, d>>)
\* stability.py: a verdict is settled by enough recent answers of one model.
VerdictsSettled == Asked("history") => Dashboard!VerdictSettled(in)

Snapshots ==
  {[run |-> r, samples |-> x[1], failed |-> x[2], cited |-> x[3], mention |-> x[4], best |-> x[5], mean |-> x[6], domains |-> x[7]] :
     r \in {1, 2}, x \in {<<2, 2, 0, 0, 99, 99, {}>>, <<1, 0, 1, 100, 2, 2, {1, 2}>>, <<3, 1, 1, 50, 1, 1, {1}>>,
                          <<4, 0, 1, 75, 3, 3, {2}>>, <<3, 0, 2, 0, 1, 4, {1, 2, 3}>>}}
AskWindow ==
  /\ Open("window")
  /\ \E a, b, c \in Snapshots, organic \in {<<>>, <<99, 3, 7>>}, detailed \in BOOLEAN :
      Put([snaps |-> <<a, b, c>>, organic |-> organic,
                     answers |-> IF detailed THEN <<[rank |-> a.best, domains |-> a.domains], [rank |-> c.best, domains |-> {4}]>> ELSE <<>>])
\* positioning.aggregate_position: a window is the pool of its crawls.
WindowsPool == Asked("window") => Dashboard!WindowPools(in.snaps, in.answers, in.organic)

----------------------------------------------------------------------------
(* A dashboard: two prompts on two engines, two answers each, in two windows. *)

\* What an answer may be: its links and the urls it read, its query, a snippet.
Kinds == <<[links |-> <<>>, reads |-> {}, mention |-> 0], [links |-> <<1>>, reads |-> {1}, mention |-> 0],
           [links |-> <<2, 1, 2>>, reads |-> {}, mention |-> 1], [links |-> <<2, 3>>, reads |-> {1, 2}, mention |-> 1],
           [links |-> <<3, 4>>, reads |-> {}, mention |-> 0]>>
AnswerOf(pair, k) ==
  [prompt |-> pair[1], engine |-> pair[2], links |-> Kinds[k].links, reads |-> Kinds[k].reads, mention |-> Kinds[k].mention,
   won |-> \E i \in DOMAIN Kinds[k].links : Kinds[k].links[i] = 1, queries |-> {k, pair[1]}, claims |-> {<<k, 1>>},
   snippets |-> [i \in DOMAIN Kinds[k].links |-> [url |-> Kinds[k].links[i], age |-> 400 * k * Kinds[k].links[i]]]]
Pairs == {<<1, 1>>, <<1, 2>>, <<2, 1>>}
Both(pair, k) == <<AnswerOf(pair, k), AnswerOf(pair, (k % 5) + 1)>>
\* pipeline and aggregate_position: the position of a pair in a window of one crawl.
Position(pair, answers) ==
  LET cited == {i \in DOMAIN answers : answers[i].won}
      rank(i) == Min({j \in DOMAIN answers[i].links : answers[i].links[j] = 1})
      best == IF cited = {} THEN 99 ELSE Min({rank(i) : i \in cited})
      snap == [run |-> 1, samples |-> 2, failed |-> 0, cited |-> Cardinality(cited), best |-> best, mean |-> best,
               mention |-> 50 * (answers[1].mention + answers[2].mention), domains |-> {}]
      shown == [i \in DOMAIN answers |-> [rank |-> IF i \in cited THEN rank(i) ELSE 99, domains |-> Dashboard!Domains(answers[i])]]
  IN [prompt |-> pair[1], engine |-> pair[2]] @@ Dashboard!Aggregate(<<snap>>, shown, <<IF pair[1] = 1 THEN 3 ELSE 99>>)
PairList(f) == Dashboard!Listed(DOMAIN f)
Answers(f) == FlattenSeq([i \in DOMAIN PairList(f) |-> Both(PairList(f)[i], f[PairList(f)[i]])])
Positions(f) == [i \in DOMAIN PairList(f) |-> Position(PairList(f)[i], Both(PairList(f)[i], f[PairList(f)[i]]))]
Opinions(k) ==
  <<[ok |-> k # 1, rubric |-> 1, engine |-> 1, entity |-> "client", polarity |-> "negative", sure |-> k > 2, prompt |-> 1],
    [ok |-> TRUE, rubric |-> (k % 2) + 1, engine |-> 1, entity |-> "client", polarity |-> "positive", sure |-> TRUE, prompt |-> 2],
    [ok |-> TRUE, rubric |-> 1, engine |-> 1, entity |-> "client", polarity |-> "neutral", sure |-> TRUE, prompt |-> 1]>>
AskDashboard ==
  /\ Open("dashboard")
  /\ \E f \in [Pairs -> DOMAIN Kinds], g \in [Pairs \ {<<1, 2>>} -> {1, 2, 4}] \cup [Pairs -> {2, 4}], k \in 1..2 :
       Put([answers |-> Answers(f), now |-> Positions(f), before |-> Positions(g), judged |-> Opinions(k + (f[<<1, 1>>] % 2))])

\* insights.py: what the tiles say adds up, what a scoped page says is that part of
\* the whole, and the action cards have one identity and a bounded promise.
DashboardsAgree ==
  Asked("dashboard") =>
    /\ Dashboard!SharesAddUp(in.answers, in.judged)
    /\ Dashboard!ChangesScoped(in.now, in.before, {1, 2})
    /\ Dashboard!CardsSound(in.now, in.before, in.answers, in.judged, {1, 2})

Sampled(e, n, c) == [prompt |-> 1, engine |-> e, ok |-> n, cited |-> c]
Totals == {<<0, 0>>, <<3, 1>>, <<6, 0>>, <<6, 3>>, <<6, 6>>, <<9, 0>>, <<9, 1>>, <<9, 4>>, <<9, 9>>}
AskAlerts ==
  /\ Open("alerts")
  /\ \E x, y \in Totals, z \in {<<0, 0>>, <<9, 1>>}, flips \in SUBSET {1, 2}, open \in SUBSET {1} :
       Put([now |-> <<Sampled(1, x[1], x[2]), Sampled(2, z[1], z[2])>>, before |-> <<Sampled(1, y[1], y[2]), Sampled(2, 9, 9)>>,
            open |-> open, changes |-> SetToSeq({[kind |-> "flip_down", prompt |-> p, engine |-> 1, domain |-> 0, after |-> 0] : p \in flips}
                       \cup {[kind |-> "new_competitor", prompt |-> p, engine |-> 1, domain |-> 2, after |-> 50] : p \in flips})])
\* triggers.py: no false fall, and the digest keeps the worst.
AlertsHold ==
  Asked("alerts") =>
    Dashboard!AlertsSound(in.now, in.before, in.changes, in.open, {1},
      {"citation_drop", "lost_prompt", "competitor_surge", "negative_claim", "engine_silent"})

----------------------------------------------------------------------------
(* A report: three positions in one or two windows, and a model's reply. *)

F == INSTANCE FactSheet WITH
  Scale <- 100, ZNum <- 96, ZDen <- 25, Window <- 3, MinCrawls <- 2, MinOk <- 2, MaxAge <- 5, NoRank <- 99,
  Engines <- {1, 2}, TopicOf <- <<1, 1>>, Volume <- <<0, 150>>, Mapped <- <<TRUE, FALSE>>, DomainOf <- <<1, 2, 3, 4>>,
  ClassOf <- <<"client", "competitor", "forum", "reference">>, Overview <- 2, Rubric <- 1, Everywhere <- 0, ListCap <- 4,
  PageCap <- 1, MinShare <- 2, MaxCompetitors <- 2, MaxActions <- 2, MaxChanges <- 2, Headline <- 3, Prose <- 10, NoFigure <- -1000

Told(figures, url) == [figures |-> figures, url |-> url, blank |-> FALSE]
Unsaid == [figures |-> <<>>, url |-> FALSE, blank |-> TRUE]
\* 77 is on no sheet.
Sentences == {Told(<<>>, FALSE), Told(<<2, 33>>, FALSE), Told(<<77>>, FALSE), Told(<<2>>, TRUE), Unsaid}
Counts == {<<0, 0, 0>>, <<1, 1, 0>>, <<2, 0, 2>>, <<9, 3, 5>>}
Spread(c) == CASE c[2] = 0 -> [d \in {2} |-> 100] [] c[2] = 1 -> [d \in {1, 3} |-> 50] [] OTHER -> [d \in {1, 2, 4} |-> 33 * d]
Row(prompt, engine, c) ==
  [prompt |-> prompt, engine |-> engine, samples |-> c[1] + 1, ok |-> c[1], cited |-> c[2], mention |-> c[3],
   best |-> IF c[2] > 0 THEN c[2] ELSE 99, runs |-> 2, shares |-> Spread(c)]
Written(state, headline, summary, win, more) ==
  [state |-> state, headline |-> headline, summary |-> summary, wins |-> <<win, Told(<<3>>, FALSE)>>, risks |-> <<win>>, steps |-> more]
More == {<<>>, <<Told(<<4, 5>>, FALSE), Told(<<2>>, FALSE)>>}
AskReport ==
  /\ Open("report")
  /\ \E x, y, z \in Counts, w \in {<<>>, <<2, 1, 0>>}, more \in More :
     \E sheet \in {F!Sheet(<<Row(1, 1, x), Row(2, 1, y), Row(1, 2, z)>>, IF w = <<>> THEN <<>> ELSE <<Row(1, 1, w)>>, <<>>, Opinions(2),
                            <<2, 1>>, more, more)},
        headline \in IF x = y /\ y = z THEN Sentences \cup {Told(<<2, 77>>, FALSE)} ELSE {Told(<<77>>, FALSE)},
        summary \in IF x = y /\ y = z THEN Sentences ELSE {Unsaid, Told(<<2>>, FALSE)},
        win \in IF x = y /\ y = z THEN Sentences ELSE {Told(<<2, 77>>, FALSE)},
        state \in IF x = y THEN {"complete", "none", "rejected"} ELSE {"complete"} :
       Put([sheet |-> sheet, positions |-> <<Row(1, 1, x), Row(2, 1, y), Row(1, 2, z)>>,
            reply |-> Written(state, headline, summary, win, more)])
\* facts.py, narrative.py: a report's rates are pooled and its prose prints no other figures.
ReportsSay == Asked("report") => F!SheetPooled(in.sheet, in.positions) /\ F!ProseChecked(in.sheet, in.reply)

----------------------------------------------------------------------------
(* Selection: a seed with real questions, its templates; analyst's lines; pages. *)

Text(id, words, signals, software) ==
  [id |-> id, words |-> words, signals |-> signals, software |-> software, question |-> TRUE, noise |-> FALSE]
TemplatesOf(seed) ==
  <<[text |-> Text(<<1, seed>>, seed \cup {"work"}, {}, 1), stage |-> "awareness"],
    [text |-> Text(<<2, seed>>, seed \cup {"best"}, {"commercial"}, 2), stage |-> "consideration"],
    [text |-> Text(<<3, seed>>, seed \cup {"acme"}, {"brand"}, 1), stage |-> "consideration"],
    [text |-> Text(<<4, seed>>, seed \cup {"cost"}, {"transactional"}, 3), stage |-> "decision"]>>
S == INSTANCE Selection WITH Stages <- <<"awareness", "consideration", "decision", "post_purchase">>,
       Templates <- TemplatesOf, Keep <- 60, Cover <- 34, Stopwords <- {"best"}

Client == [seeds |-> <<{"tms"}, {"wms", "cloud"}>>, subtopics |-> <<{"freight"}, {"cloud", "stock"}>>]
Typed == {Text(<<n, {}>>, w, g, k) : n \in {11, 12}, w \in {{"tms", "cloud"}, {"freight"}}, k \in {0, 2},
                            g \in {{}, {"brand", "post_purchase"}, {"transactional"}}}
         \cup {[Text(<<10, {}>>, {"jobs"}, {"navigational"}, 1) EXCEPT !.noise = TRUE]}
AskSelection ==
  /\ Open("selection")
  /\ \E a \in {x \in Typed : x.id[1] < 12}, b \in {x \in Typed : x.id[1] = 12 /\ x.software = 2}, c \in {x \in Typed : x.id[1] = 11 /\ x.software = 2 /\ x.signals = {}}, quota \in 1..4 :
       Put([quota |-> quota,
            questions |-> <<<<[text |-> a, volume |-> 5], [text |-> b, volume |-> 9]>>, <<[text |-> c, volume |-> 5]>>>>,
            lines |-> [i \in 1..3 |-> [text |-> <<a, b, c>>[i], comment |-> quota = i, short |-> FALSE,
                                      keyword |-> IF i = 2 THEN {"tms"} ELSE {}, subtopic |-> {}]],
            pages |-> <<c.words \cup {"page", "best"}, a.words, {"stock", "tms"}, {"best"}, a.words \cup b.words>>])
Generated == S!FromKeywords(Client, <<7, 0>>, in.questions)
\* selector.py, prompt_generator.py, url_mapper.py: the tracked set is a fair pick,
\* the analyst's prompts are always in it, and a page is only ever gained.
SelectionHolds ==
  Asked("selection") =>
    /\ S!SelectionFair(Generated, in.quota)
    /\ S!CustomKept(Client, in.lines, [seed \in SUBSET {"tms", "wms", "cloud"} |-> Cardinality(seed)])
    /\ \A c \in {Generated[i] : i \in DOMAIN Generated} : S!MappingGrows(c, in.pages)

----------------------------------------------------------------------------
(* Replies: three marks in a text of two sentences, as each vendor writes them; *)
(* then three samples of one engine.                                            *)

A == INSTANCE Answers WITH
  HostOf <- <<<<"com", "ours", "blog">>, <<"com", "rival">>, <<"com", "google", "redirect">>, <<>>, <<"com", "ours", "www">>>>,
  MultiLabel <- {<<"uk", "co">>}, Redirector <- <<"com", "google", "redirect">>, SentenceLength <- 4, MaxHops <- 2,
  MaxSnippets <- 2, TopN <- 2, NoRank <- 99
Marks(three) == [i \in 1..3 |-> [url |-> three[i][1], at |-> three[i][2], span |-> TRUE]]
AskReply ==
  /\ Open("reply")
  /\ \E x, y, z \in {1, 3, 4, 5} \X {0, 3, 6}, text \in {0, 2}, to \in {1, 4, 5}, up \in BOOLEAN :
     \E robots \in IF to = 5 /\ up THEN {"allows", "refuses", "fails"} ELSE {"allows"} :
       /\ x[2] + y[2] < 10
       /\ Put([marks |-> Marks(<<x, y, z>>), text |-> text,
               web |-> [u \in 1..5 |-> [to |-> CASE u = 3 -> to [] u = 5 -> 1 [] OTHER -> u, safe |-> TRUE,
                                 robots |-> IF u = 5 THEN robots ELSE "allows", up |-> up \/ u # 1]]])
Searches == [searches |-> 1, queries |-> <<1, 1>>, sources |-> <<2, 2>>]
Replies ==
  LET m == in.marks IN
  {A!OpenAI([parts |-> <<[text |-> in.text, marks |-> <<m[3]>>], [text |-> 1, marks |-> <<m[1], m[2]>>]>>] @@ Searches),
   A!OpenRouter([marks |-> <<m[1], [m[2] EXCEPT !.span = FALSE], m[3]>>, text |-> in.text, searches |-> 0, markers |-> <<>>]),
   A!OpenRouter([marks |-> [i \in DOMAIN m |-> [m[i] EXCEPT !.span = FALSE]], text |-> in.text, searches |-> 0,
                 markers |-> <<[n |-> 2, at |-> m[1].at], [n |-> 7, at |-> 1]>>]),
   A!Perplexity([results |-> [i \in DOMAIN m |-> [url |-> m[i].url, id |-> i % 3]], legacy |-> <<>>, text |-> in.text,
                 markers |-> <<[n |-> 2, at |-> m[1].at], [n |-> 9, at |-> 0], [n |-> 1, at |-> m[2].at]>>, queries |-> <<1, 1>>]),
   A!Overview([references |-> <<m[1].url>>, token |-> FALSE, blocks |-> <<[text |-> in.text > 0, links |-> <<m[2].url>>], [text |-> TRUE, links |-> <<m[3].url, m[1].url>>]>>])}
GeminiAnswer ==
  A!Gemini([queries |-> <<1>>, text |-> in.text, supports |-> [i \in 1..2 |-> [at |-> in.marks[i].at, chunks |-> {i, 3, 5 - i}]],
            chunks |-> [i \in 1..3 |-> [url |-> in.marks[i].url, title |-> IF i = 2 THEN <<"com", "rival">> ELSE <<>>,
                                       domain |-> IF i = 3 THEN <<"com", "rival", "shop">> ELSE <<>>]]])
\* The connectors: one form for the answers of all vendors, the same by both
\* routes, and redirects followed for citations and claims together.
RepliesAlike ==
  Asked("reply") =>
    /\ \A answer \in Replies \cup {GeminiAnswer} : A!AnswerSound(answer)
    /\ A!RoutesAgree([searches |-> 1, markers |-> <<>>, text |-> in.text, marks |-> in.marks])
    /\ A!ResolvedTogether(in.web, GeminiAnswer)

Brand == [domains |-> {<<"com", "ours">>}, competitors |-> {<<"com", "rival">>, <<"com", "google">>},
          patterns |-> <<[term |-> "ours plus", entity |-> "client"], [term |-> "ours", entity |-> "client"], [term |-> "rival", entity |-> "rival"]>>]
Said == {<<>>, <<[id |-> 1, terms |-> {"ours", "ours plus"}], [id |-> 2, terms |-> {"rival"}]>>, <<[id |-> 3, terms |-> {"ours", "rival"}]>>}
Reply(urls, text, searched) ==
  [citations |-> A!Citations(urls), searched |-> searched, text |-> text, model |-> "m", consulted |-> <<3, 3>>]
AskSamples ==
  /\ Open("samples")
  /\ \E u, v, w \in {<<>>, <<1>>, <<2, 1>>, <<3, 2, 5>>, <<2, 4>>}, t, r \in Said, n \in 1..3, searched \in BOOLEAN :
       Put([answers |-> SubSeq(<<Reply(u, t, searched), Reply(v, r, FALSE), Reply(w, t, searched)>>, 1, n), failed |-> 3 - n])
\* citations.py, mentions.py, assembly.py: the snapshot of a crawl is the sum of its
\* samples, a name counts once in a sentence, and the verdict is monotone.
SnapshotsTrue ==
  Asked("samples") =>
    /\ A!SnapshotTrue(in.answers, in.failed, Brand)
    /\ \A i \in DOMAIN in.answers : A!MentionsOnce(in.answers[i], Brand)
    /\ \A volume \in 0..1 : A!VerdictKept([i \in DOMAIN in.answers |-> A!Snapshot(<<in.answers[i]>>, 0, Brand)], volume)

----------------------------------------------------------------------------

(* The judge: two answers of one engine around one of another. *)

J == INSTANCE Sentiment WITH MaxClient <- 2, MaxCompetitor <- 1, Cap <- 4, BatchSize <- 2, ContextCap <- 5,
       Polarities <- {"positive", "neutral", "negative"}
About(e, s) == [entity |-> e, sentence |-> s]
Mentions == {<<>>, <<About("client", 1), About("rival", 1)>>, <<About("client", 2), About("client", 1), About("client", 2), About("client", 3)>>,
             <<About("rival", 2), About("rival", 3), About("client", 2)>>}
Line(kind, says, marker) == [kind |-> kind, rule |-> says = {} /\ kind = "table", says |-> says, marker |-> marker]
Texts == {<<Line("list", {1}, 1), Line("list", {3}, 0), Line("prose", {2}, 2)>>,
          <<Line("table", {1, 2}, 0), Line("table", {}, 0), Line("table", {3}, 1), Line("heading", {}, 0)>>, <<Line("prose", {1, 3}, 0)>>}
JudgeSample(at, engine, mentions, lines) ==
  [at |-> at, engine |-> engine, mentions |-> mentions, lines |-> lines, links |-> <<5, 6>>, claims |-> {[sentence |-> 2, url |-> 4 + at]}]
Truth(c) == IF c.sentence = 1 THEN "positive" ELSE IF c.entity = "client" THEN "negative" ELSE "neutral"
\* What a vendor may make of a batch.
Manners == {"whole", "reversed", "partial", "twice", "odd", "truncated", "refusal", "failure", "renamed"}
VendorReply(manner, batch) ==
  LET items == [i \in DOMAIN batch |-> [id |-> i, polarity |-> Truth(batch[i])]] IN
  [stop |-> CASE manner = "truncated" -> "max_tokens" [] manner \in {"refusal", "failure"} -> manner [] OTHER -> "end_turn",
   model |-> IF manner = "renamed" THEN "m of May" ELSE "m",
   items |-> CASE manner = "reversed" -> Reverse(items) [] manner = "partial" -> Tail(items)
               [] manner = "twice" -> items \o [i \in DOMAIN items |-> [items[i] EXCEPT !.polarity = "neutral"]]
               [] manner = "odd" -> [items EXCEPT ![1].polarity = "glowing"] [] OTHER -> items]
AskJudge ==
  /\ Open("judge")
  /\ \E x, y, z \in Mentions, t, u \in Texts, m \in Manners, n \in {"whole", "failure"}, known \in BOOLEAN :
       Put([samples |-> <<JudgeSample(1, "a", x, t), JudgeSample(2, "b", y, u), JudgeSample(3, "a", z, t)>>, manners |-> <<m, n>>,
            store |-> {J!Row([at |-> 0, engine |-> "b", entity |-> "client", sentence |-> 1], "ok", "positive", "m") : k \in {1 : j \in {known} \ {FALSE}}}])
Verdicts(samples, store) ==
  LET batches == J!Batches(J!AskedFor(samples, store, "m"))
  IN [n \in DOMAIN batches |-> VendorReply(in.manners[(n % 2) + 1], batches[n])]
\* sentiment.py, insights.py: each mention judged once, and each verdict on its sentence.
MentionsJudged ==
  Asked("judge") =>
    /\ J!JudgedOnce(in.samples, in.store, "m", Verdicts(in.samples, in.store),
         [c \in J!In(J!SelectCandidates(in.samples)) |-> Truth(c)])
    /\ J!ContextTrue(in.samples, J!Record(in.store, J!Judge(in.samples, in.store, "m", Verdicts(in.samples, in.store)).rows))

----------------------------------------------------------------------------
(* The command line's jobs: two jobs, three passes, runs that outlast an interval. *)

D == INSTANCE Scheduler
Ends == {[lasts |-> 0, ends |-> "ok"], [lasts |-> 3, ends |-> "failed"], [lasts |-> 0, ends |-> "interrupted"]}
AskSchedule ==
  /\ Open("schedule")
  /\ \E a, b, c, d, e \in Ends, every \in {2, 3}, off \in BOOLEAN, force \in BOOLEAN, poll \in 1..2 :
       Put([jobs |-> <<[every |-> 2, enabled |-> TRUE], [every |-> every, enabled |-> ~ off]>>, poll |-> poll,
            passes |-> <<[run |-> <<a, b>>, force |-> FALSE], [run |-> <<c, d>>, force |-> force], [run |-> <<e, a>>, force |-> FALSE], [run |-> <<b, c>>, force |-> FALSE]>>])
\* scheduler.py: a job runs when its interval is over, and not before.
JobsOnTime == Asked("schedule") => D!RunsOnTime(in.jobs, in.passes, in.poll)

----------------------------------------------------------------------------
(* A ledger of three calls; and the price of one call. *)

C == INSTANCE Costs WITH NoCost <- -1, Nowhere <- 0, PerUnit <- {"semrush"}, PerSearch <- {"serpapi"},
       Prices <- [mini |-> [input |-> 25, output |-> 200, cached |-> 3], flash |-> [input |-> 30, output |-> 250, cached |-> 8]],
       Families <- <<[vendor |-> "openai", needle |-> "mini", model |-> "mini"], [vendor |-> "gemini", needle |-> "flash", model |-> "flash"]>>,
       SearchFee <- [openai |-> 10000], Setting <- [openai |-> 120, semrush |-> 1, serpapi |-> 150]
LedgerCall(ts, vendor, run, prompt, status, figures) ==
  [ts |-> ts, vendor |-> vendor, run |-> run, prompt |-> prompt, source |-> IF run = 3 THEN "demo" ELSE "pipeline", status |-> status,
   latency |-> 10 * ts + run, searches |-> run, units |-> 10 * prompt, estimated |-> 7, reported |-> figures[1], modelled |-> figures[2]]
AskCosts ==
  /\ Open("costs")
  /\ \E v \in {"openai", "semrush", "serpapi"}, w \in {"openai", "serpapi"}, r \in 0..3, q \in {0, 2, 3}, p \in 0..2,
        s \in {"ok", "error", "refused"}, t \in {"ok", "error"}, f \in {<<-1, -1>>, <<5, 4>>, <<-1, 9>>}, g \in {<<-1, -1>>, <<0, -1>>} :
       Put(<<LedgerCall(1, "openai", 1, 1, "ok", g), LedgerCall(2, v, r, p, s, f), LedgerCall(3, w, q, 2, t, g), LedgerCall(3, w, 1, 0, "ok", f)>>)
Models == {[name |-> "mini", needles |-> {"mini"}], [name |-> "mini-x", needles |-> {"mini"}], [name |-> "other", needles |-> {"flash"}]}
\* costing.py, usage.py, pricing.py: every dollar is counted once, in every view.
MoneyAddsUp ==
  Asked("costs") =>
    /\ \A since \in 1..3 : C!CostsAddUp(in, since)
    /\ \A model \in Models, vendor \in {"openai", "gemini"}, input, cached \in 0..3 : C!PricesSound(vendor, model, input, cached, in[1].ts)

----------------------------------------------------------------------------
(* Topics that answer one question together. *)

\* What is asked, and when: the tracked prompts, the plan of a due run, the jobs.
ChoicesHold == SelectionHolds /\ PlansAddUp /\ JobsOnTime
\* A log's lines and hits are counted, and the tab that compares them with
\* the citations agrees with itself.
LogsHold == LogsAccounted /\ FunnelAgrees
\* A verdict and a window's position say no more than their answers do.
EvidenceHolds == VerdictsSettled /\ WindowsPool
\* The dashboard, the alerts it raises and the report follow from the same positions.
DashboardsHold == DashboardsAgree /\ AlertsHold /\ ReportsSay
\* From a vendor's reply to the snapshot of a crawl nothing is invented or counted twice.
AnswersHold == RepliesAlike /\ SnapshotsTrue

----------------------------------------------------------------------------

Topics == {"plan", "log", "history", "window", "dashboard", "alerts", "report", "selection", "reply", "samples", "judge", "schedule", "costs"}
Init == topic \in Topics /\ in = <<>>
Next == AskPlan \/ AskLog \/ AskHistory \/ AskWindow \/ AskDashboard \/ AskAlerts \/ AskReport \/ AskSelection \/ AskReply \/ AskSamples
        \/ AskJudge \/ AskSchedule \/ AskCosts
Spec == Init /\ [][Next]_vars
=============================================================================
