----------------------------- MODULE Sentiment -----------------------------
(***************************************************************************)
(* prompt_tracking/sentiment.py: the judge scores how a crawl's answers    *)
(* name the client and its rivals; and insights._mention_context, which    *)
(* puts each verdict back where its sentence stood.                        *)
(*                                                                         *)
(* A sentence is its sentence_key.  A sample is                            *)
(*   [at, engine, mentions, lines, claims, links]                          *)
(* with mentions [entity, sentence] in the order of the text, lines        *)
(* [kind, rule, says, marker] (rule: a separator row of a table), claims   *)
(* [sentence, url] and links the urls in the order cited.                  *)
(***************************************************************************)
EXTENDS Integers, Sequences, FiniteSets, Lists, SequencesExt, FiniteSetsExt

CONSTANTS MaxClient, MaxCompetitor,  \* _MAX_CLIENT_PER_SAMPLE, _MAX_COMPETITOR_PER_SAMPLE
          Cap, BatchSize,            \* sentiment_max_sentences_per_run, sentiment_batch_size
          Polarities, ContextCap

Fewer(a, b) == IF a < b THEN a ELSE b
Firstly(s, n) == SubSeq(s, 1, Fewer(n, Len(s)))
In(s) == {s[i] : i \in DOMAIN s}
Without(s, n) == SubSeq(s, Fewer(n, Len(s)) + 1, Len(s))

----------------------------------------------------------------------------
(* select_candidates *)

Limit(entity) == IF entity = "client" THEN MaxClient ELSE MaxCompetitor
\* A mention is new if its answer has not said it before of the same entity.
New(mentions) == {i \in DOMAIN mentions : \A j \in 1..(i - 1) : mentions[j] # mentions[i]}
Earlier(mentions, i) == Cardinality({j \in New(mentions) : j < i /\ mentions[j].entity = mentions[i].entity})
Picked(mentions) == {i \in New(mentions) : Earlier(mentions, i) < Limit(mentions[i].entity)}
PickedOf(sample) ==
  LET m == Entries(sample.mentions, Picked(sample.mentions)) IN
  [n \in DOMAIN m |-> [at |-> sample.at, engine |-> sample.engine, entity |-> m[n].entity, sentence |-> m[n].sentence]]
SelectCandidates(samples) == FlattenSeq([i \in DOMAIN samples |-> PickedOf(samples[i])])

----------------------------------------------------------------------------
(* judge_samples: replies[n] is the vendor's reply to the n-th batch.      *)

Row(c, status, polarity, model) == [of |-> c, status |-> status, polarity |-> polarity, model |-> model]
\* TimeSeriesDB.cached_judgements
Cached(store, c, model) ==
  {r \in store : r.status = "ok" /\ r.model = model /\ r.of.sentence = c.sentence /\ r.of.entity = c.entity}
Chunks(s) ==
  [k \in 1..((Len(s) + BatchSize - 1) \div BatchSize) |-> SubSeq(s, (k - 1) * BatchSize + 1, Fewer(k * BatchSize, Len(s)))]
EnginesOf(s) ==
  LET first == Entries(s, {i \in DOMAIN s : \A j \in 1..(i - 1) : s[j].engine # s[i].engine})
  IN [n \in DOMAIN first |-> first[n].engine]
Batches(asked) ==
  LET engines == EnginesOf(asked) IN
  FlattenSeq([n \in DOMAIN engines |-> Chunks(Those(asked, LAMBDA c : c.engine = engines[n]))])

\* The first item with an id counts.
ItemOf(reply, i) == Those(reply.items, LAMBDA x : x.id = i)
\* Mutant: the items are taken in the order they came.
ParseBatchInOrder(reply, batch, model) ==
  [i \in DOMAIN batch |->
    IF reply.stop = "refusal" THEN Row(batch[i], "refused", "neutral", reply.model)
    ELSE IF reply.stop # "end_turn" \/ i > Len(reply.items) \/ reply.items[i].polarity \notin Polarities
         THEN Row(batch[i], "unscored", "neutral", IF reply.stop = "failure" THEN model ELSE reply.model)
    ELSE Row(batch[i], "ok", reply.items[i].polarity, reply.model)]
\* _parse_batch; a vendor failure leaves the batch unscored.
ParseBatch(reply, batch, model) ==
  [i \in DOMAIN batch |->
    LET item == ItemOf(reply, i) IN
    CASE reply.stop = "refusal" -> Row(batch[i], "refused", "neutral", reply.model)
      [] reply.stop = "end_turn" /\ item # <<>> /\ item[1].polarity \in Polarities -> Row(batch[i], "ok", item[1].polarity, reply.model)
      [] OTHER -> Row(batch[i], "unscored", "neutral", IF reply.stop = "failure" THEN model ELSE reply.model)]

AskedFor(samples, store, model) ==
  Those(Firstly(SelectCandidates(samples), Cap), LAMBDA c : Cached(store, c, model) = {})
Judge(samples, store, model, replies) ==
  LET all == SelectCandidates(samples)
      known == Those(Firstly(all, Cap), LAMBDA c : Cached(store, c, model) # {})
      cached == [i \in DOMAIN known |-> Row(known[i], "ok", (CHOOSE r \in Cached(store, known[i], model) : TRUE).polarity, model)]
      over == [i \in DOMAIN Without(all, Cap) |-> Row(Without(all, Cap)[i], "unscored", "neutral", model)]
      batches == Batches(AskedFor(samples, store, model))
      judged == FlattenSeq([n \in DOMAIN batches |-> ParseBatch(replies[n], batches[n], model)])
      many(rows, status) == Cardinality({i \in DOMAIN rows : rows[i].status = status})
  IN [rows |-> cached \o over \o judged, batches |-> Len(batches), candidates |-> Len(all), cached |-> Len(cached),
      scored |-> many(judged, "ok"), refused |-> many(judged, "refused"), unscored |-> Len(over) + many(judged, "unscored")]
\* TimeSeriesDB.record_judgements: a row replaces the one of the same candidate.
Record(store, rows) == {r \in store : \A i \in DOMAIN rows : rows[i].of # r.of} \cup In(rows)

----------------------------------------------------------------------------
(* insights._mention_context *)

\* _container and _block_size: the items of the list or table around line i.
Block(lines, i) ==
  {j \in DOMAIN lines : \A k \in DOMAIN lines : (i <= k /\ k <= j) \/ (j <= k /\ k <= i) => lines[k].kind = lines[i].kind}
BlockSize(lines, i) ==
  IF lines[i].kind \notin {"list", "table"} THEN 1
  ELSE LET rows == Cardinality({j \in Block(lines, i) : ~ lines[j].rule}) IN IF rows = 0 THEN 1 ELSE rows
LinesSaying(sample, s) == {i \in DOMAIN sample.lines : s \in sample.lines[i].says}
\* Mutant: the marker of the line comes before the attribution.
SourceByMarker(sample, claimed, s) ==
  LET of == {c \in claimed : c.sentence = s}
      on == LinesSaying(sample, s)
      n == IF on = {} THEN 0 ELSE sample.lines[Min(on)].marker IN
  IF n \in DOMAIN sample.links THEN sample.links[n] ELSE IF of # {} THEN (CHOOSE c \in of : TRUE).url ELSE 0
\* The url a sentence was attributed to, else the link its line's marker numbers.
Source(sample, claimed, s) ==
  LET of == {c \in claimed : c.sentence = s}
      on == LinesSaying(sample, s)
      n == IF on = {} THEN 0 ELSE sample.lines[Min(on)].marker
  IN IF of # {} THEN (CHOOSE c \in of : \A o \in of : c.at <= o.at).url ELSE IF n \in DOMAIN sample.links THEN sample.links[n] ELSE 0
\* _claim_url_index of one prompt
ClaimUrlIndex(samples) ==
  UNION {{[at |-> i, sentence |-> c.sentence, url |-> c.url] : c \in samples[i].claims} : i \in DOMAIN samples}
VerdictOn(judged, sample, m) ==
  LET of == {r \in judged : r.status = "ok" /\ r.of = [at |-> sample.at, engine |-> sample.engine, entity |-> m.entity, sentence |-> m.sentence]}
  IN IF of = {} THEN "none" ELSE (CHOOSE r \in of : TRUE).polarity
ContextOf(sample, claimed, judged) ==
  [k \in DOMAIN sample.mentions |->
    LET m == sample.mentions[k]
        on == LinesSaying(sample, m.sentence) IN
    [at |-> sample.at, entity |-> m.entity, sentence |-> m.sentence,
     container |-> IF on = {} THEN "prose" ELSE sample.lines[Min(on)].kind,
     with |-> IF on = {} THEN 0 ELSE BlockSize(sample.lines, Min(on)) - 1,
     source |-> Source(sample, claimed, m.sentence), polarity |-> VerdictOn(judged, sample, m)]]
\* Newest first.
MentionContext(samples, judged) ==
  Firstly(FlattenSeq([i \in DOMAIN samples |-> ContextOf(Reverse(samples)[i], ClaimUrlIndex(samples), judged)]), ContextCap)

----------------------------------------------------------------------------
(* Properties. *)

\* sentiment.py: every mention picked has one row whatever became of its batch, also
\* beyond the run's cap; the summary adds up; the verdict on a sentence is the
\* one the judge gave on that sentence (`truth`), in whatever order and number
\* the items came; and what is scored, by the model asked for, is not asked for again.
JudgedOnce(samples, store, model, replies, truth) ==
  LET first == Judge(samples, store, model, replies)
      kept == Record(store, first.rows) IN
  /\ {r.of : r \in In(first.rows)} = In(SelectCandidates(samples)) /\ Len(first.rows) = Len(SelectCandidates(samples))
  /\ first.scored + first.cached + first.unscored + first.refused = first.candidates
  /\ \A r \in In(first.rows) : r.status = "ok" => r.polarity = truth[r.of]
  /\ \A c \in In(AskedFor(samples, kept, model)) : \A r \in In(first.rows) : r.status = "ok" /\ r.model = model => r.of # c
  /\ Cardinality({r.of : r \in kept}) = Cardinality(kept)

\* The source of a shown mention is a url to which an answer of the prompt attributes
\* the same sentence, not always its own answer nor an answer of its engine; where
\* none does, a link of its own answer.
Claimed(samples, s) == {c \in UNION {samples[i].claims : i \in DOMAIN samples} : c.sentence = s}
SourceGiven(samples, links, x) ==
  x.source # 0 => \/ \E c \in Claimed(samples, x.sentence) : c.url = x.source
                  \/ Claimed(samples, x.sentence) = {} /\ x.source \in In(links)

\* insights.py: a verdict is shown on its own sentence only, the mentions of one list are
\* told the same company, no source is shown that no answer gives, and one sentence
\* that is attributed has one source wherever it stands.
ContextTrue(samples, judged) ==
  LET shown == MentionContext(samples, judged)
      of(x) == CHOOSE i \in DOMAIN samples : samples[i].at = x.at
      line(x) == LinesSaying(samples[of(x)], x.sentence) IN
  /\ \A x \in In(shown) : x.polarity # "none" =>
       \E r \in judged : r.status = "ok" /\ r.of.sentence = x.sentence /\ r.of.entity = x.entity /\ r.polarity = x.polarity
  /\ \A x, y \in {z \in In(shown) : line(z) # {}} :
       x.at = y.at /\ Min(line(y)) \in Block(samples[of(x)].lines, Min(line(x))) => x.with = y.with /\ x.container = y.container
  /\ \A x \in In(shown) : x.with < Len(samples[of(x)].lines) + 1 /\ (x.container \in {"prose", "heading"} => x.with = 0)
  /\ \A x \in In(shown) : SourceGiven(samples, samples[of(x)].links, x)
  /\ \A x, y \in In(shown) : x.sentence = y.sentence /\ Claimed(samples, x.sentence) # {} => x.source = y.source
=============================================================================
