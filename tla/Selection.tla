----------------------------- MODULE Selection -----------------------------
(***************************************************************************)
(* From keyword demand to the tracked prompts: prompt_tracking's inputs,   *)
(* prompt_generator, intent_filter, selector and url_mapper.               *)
(*                                                                         *)
(* A text is a record: its id is its text in lower case, `words` its words *)
(* and `signals` which vocabularies of intent_filter it matches; `noise`,  *)
(* `software` and `question` are the layers of the gate.  Scores are in    *)
(* hundredths.                                                             *)
(***************************************************************************)
EXTENDS Lists, Integers, Sequences, FiniteSets, SequencesExt, FiniteSetsExt

CONSTANTS
  Stages,       \* DecisionStage, in its order
  Templates(_), \* a seed -> the texts of both template tables, each with its stage
  Keep, Cover,  \* KEEP_THRESHOLD, the mapper's threshold
  Stopwords

Range1(s) == {s[i] : i \in DOMAIN s}
Smaller(a, b) == IF a < b THEN a ELSE b

----------------------------------------------------------------------------
(* intent_filter.py *)

Score(t) ==
  LET product == IF t.software = 0 THEN 0 ELSE Smaller(100, 60 + 15 * (t.software - 1)) IN
  IF t.noise THEN 10
  ELSE IF t.question THEN Smaller(100, product + IF t.software > 0 THEN 10 ELSE 45) ELSE product
Decide(t) == [keep |-> ~ t.noise /\ Score(t) >= Keep, score |-> Score(t)]
Intent(t) ==
  CASE "transactional" \in t.signals -> "transactional"
    [] "transactional" \notin t.signals /\ "commercial" \in t.signals -> "commercial"
    [] t.signals \cap {"transactional", "commercial"} = {} /\ "navigational" \in t.signals -> "navigational"
    [] OTHER -> "informational"
Stage(t) ==
  CASE "post_purchase" \in t.signals -> "post_purchase"
    [] "post_purchase" \notin t.signals /\ Intent(t) = "transactional" -> "decision"
    [] "post_purchase" \notin t.signals /\ Intent(t) \in {"commercial", "navigational"} -> "consideration"
    [] OTHER -> "awareness"
Type(t) == IF "brand" \in t.signals THEN "branded" ELSE "non_branded"

----------------------------------------------------------------------------
(* inputs.parse_prompt_lines: a line is a text, or a comment or too short;
   the first of two lines with the same text wins. *)

\* A dictionary by text keeps, in order, the first that has one.
Firsts(s) == Entries(s, {i \in DOMAIN s : \A j \in DOMAIN s : s[j].text.id = s[i].text.id => i <= j})
ParsePromptLines(lines) == Firsts(Those(lines, LAMBDA l : ~ l.comment /\ ~ l.short))

----------------------------------------------------------------------------
(* prompt_generator.py *)

\* _closest_seed, _subtopic_for: most words in common, else the first.
Common(a, b) == Cardinality(a \cap b)
Closest(words, names) ==
  LET best == CHOOSE i \in DOMAIN names : \A j \in DOMAIN names :
                \/ Common(words, names[i]) > Common(words, names[j])
                \/ Common(words, names[i]) = Common(words, names[j]) /\ i <= j
  IN IF Common(words, names[best]) > 0 THEN names[best] ELSE names[1]
SubtopicFor(seed, client) == IF client.subtopics = <<>> THEN seed ELSE Closest(seed, client.subtopics)

Candidate(t, seed, volume, subtopic, real, stage, keep) ==
  [text |-> t, seed |-> seed, volume |-> volume, subtopic |-> subtopic, type |-> Type(t), intent |-> Intent(t),
   stage |-> stage, real |-> real, score |-> Score(t), keep |-> keep]
\* from_keywords: a seed's real questions, then its templates; `volumes` are the
\* seeds' own, 0 when unknown.
Questions(client, seed, rows) ==
  [i \in DOMAIN rows |-> Candidate(rows[i].text, seed, rows[i].volume, SubtopicFor(seed, client), TRUE,
                                   Stage(rows[i].text), Decide(rows[i].text).keep)]
Templated(client, seed, volume) ==
  [i \in DOMAIN Templates(seed) |->
    LET x == Templates(seed)[i] IN Candidate(x.text, seed, volume, SubtopicFor(seed, client), FALSE, x.stage, Decide(x.text).keep)]
FromKeywords(client, volumes, questions) ==
  Firsts(FlattenSeq([i \in DOMAIN client.seeds |->
    Questions(client, client.seeds[i], questions[i]) \o Templated(client, client.seeds[i], volumes[i])]))

\* from_custom: the gate is advisory, so each of the analyst's prompts is kept.
FromCustom(client, prompts, volumes) ==
  Firsts([i \in DOMAIN prompts |->
    LET p == prompts[i]
        seed == IF p.keyword # {} THEN p.keyword ELSE Closest(p.text.words, client.seeds)
    IN Candidate(p.text, seed, volumes[seed], IF p.subtopic # {} THEN p.subtopic ELSE SubtopicFor(seed, client),
                 FALSE, Stage(p.text), TRUE)])

----------------------------------------------------------------------------
(* selector.py *)

\* _quality, with the order of the pool where it ties (the sort is stable).
Before(pool, i, j) ==
  LET a == pool[i] b == pool[j] IN
  \/ a.score > b.score
  \/ a.score = b.score /\ a.volume > b.volume
  \/ a.score = b.score /\ a.volume = b.volume /\ a.real /\ ~ b.real
  \/ a.score = b.score /\ a.volume = b.volume /\ a.real = b.real /\ i < j
Bucket(pool, stage) == {i \in DOMAIN pool : pool[i].stage = stage}
\* A candidate is taken in the round that is its place in its stage.
Place(pool, i) == Cardinality({j \in Bucket(pool, pool[i].stage) : Before(pool, j, i)})
StageNumber(s) == CHOOSE n \in DOMAIN Stages : Stages[n] = s
Rounds(pool) == [i \in DOMAIN pool |-> Len(Stages) * Place(pool, i) + StageNumber(pool[i].stage)]

\* Mutant: the best of the pool, whatever their stage.
BalancedPickBest(pool, quota) ==
  {i \in DOMAIN pool : Cardinality({j \in DOMAIN pool : Before(pool, j, i)}) < quota}
\* _balanced_pick: round robin over the stages.
BalancedPick(pool, quota) ==
  LET turn == Rounds(pool) IN
  {i \in DOMAIN pool : Cardinality({j \in DOMAIN pool : turn[j] < turn[i]}) < quota}

PoolFor(candidates, type) == Those(candidates, LAMBDA c : c.keep /\ c.type = type)
Chosen(candidates, type, quota) ==
  LET pool == PoolFor(candidates, type) IN {pool[i] : i \in BalancedPick(pool, quota)}
\* select_master_set: both types, and a warning for the type that falls short.
SelectMasterSet(candidates, quota) ==
  [selected |-> Chosen(candidates, "branded", quota) \cup Chosen(candidates, "non_branded", quota),
   short |-> {t \in {"branded", "non_branded"} : Cardinality(Chosen(candidates, t, quota)) < quota}]

----------------------------------------------------------------------------
(* url_mapper.py: a landing page is the set of its slug's words. *)

Indexed(pages) == {i \in DOMAIN pages : pages[i] \ Stopwords # {}}
Query(c) == (c.seed \cup c.subtopic \cup c.text.words) \ Stopwords
Overlap(c, page) == Cardinality(Query(c) \cap (page \ Stopwords))
\* overlap / len(slug), and 0.15 more for two shared words, times len(slug)
Covers(c, page) ==
  100 * Overlap(c, page) + IF Overlap(c, page) >= 2 THEN 15 * Cardinality(page \ Stopwords) ELSE 0
Better(c, p, q) == Covers(c, p) * Cardinality(q \ Stopwords) > Covers(c, q) * Cardinality(p \ Stopwords)
\* map: the first of the best pages, if it is good enough; 0 is a content gap.
MapTo(c, pages) ==
  LET best == {i \in Indexed(pages) : Overlap(c, pages[i]) > 0 /\ \A j \in Indexed(pages) : ~ Better(c, pages[j], pages[i])} IN
  IF best = {} \/ Covers(c, pages[Min(best)]) < Cover * Cardinality(pages[Min(best)] \ Stopwords) THEN 0 ELSE Min(best)

----------------------------------------------------------------------------
(* Properties. *)

\* selector.py: nothing the gate rejected, no text twice, as many as the quota and
\* the pool allow, no stage starved by a better neighbour, and in a stage the best;
\* the stages' shares do not depend on the order in which the candidates came.
SelectionFair(candidates, quota) ==
  LET master == SelectMasterSet(candidates, quota) IN
  /\ Cardinality({c.text.id : c \in master.selected}) = Cardinality(master.selected)
  /\ \A t \in {"branded", "non_branded"} :
       LET pool == Range1(PoolFor(candidates, t))
           mine == {c \in master.selected : c.type = t}
           of(s) == Cardinality({c \in mine : c.stage = s})
           mirrored == Chosen(Reverse(candidates), t, quota) IN
       /\ mine \subseteq pool /\ Cardinality(mine) = Smaller(quota, Cardinality(pool))
       /\ (t \in master.short) <=> Cardinality(pool) < quota
       /\ \A c \in pool \ mine :
            /\ \A s \in Range1(Stages) : of(s) <= of(c.stage) + 1
            /\ \A k \in mine : k.stage = c.stage => k.score >= c.score
       /\ \A s \in Range1(Stages) : of(s) = Cardinality({c \in mirrored : c.stage = s})

\* prompt_generator.py: the analyst's own prompts are all tracked, the gate or not,
\* once each and in their order, for a seed of the client or a keyword of a line.
CustomKept(client, lines, volumes) ==
  LET parsed == ParsePromptLines(lines)
      out == FromCustom(client, parsed, volumes) IN
  /\ [i \in DOMAIN out |-> out[i].text.id] = [i \in DOMAIN parsed |-> parsed[i].text.id]
  /\ \A l \in Range1(lines) : l.comment \/ l.short \/ \E c \in Range1(out) : c.text.id = l.text.id /\ c.keep
  /\ \A c \in Range1(out) : c.seed \in Range1(client.seeds) \cup {l.keyword : l \in Range1(lines)}

\* url_mapper.py: a page more never takes a prompt's page away, and only a page
\* with a word in common is ever its page.
MappingGrows(c, pages) ==
  \A n \in 0..Len(pages) : LET few == SubSeq(pages, 1, n) IN
    /\ MapTo(c, few) # 0 => Overlap(c, pages[MapTo(c, few)]) > 0
    /\ MapTo(c, few) # 0 => MapTo(c, pages) # 0 /\ ~ Better(c, pages[MapTo(c, few)], pages[MapTo(c, pages)])
=============================================================================
