------------------------------ MODULE Answers ------------------------------
(***************************************************************************)
(* prompt_tracking: what a prompt's sampled answers add up to.  mentions   *)
(* finds the names in a text, citations folds the samples of one engine    *)
(* into a snapshot, organic folds result pages, and assembly writes the    *)
(* prompt's record, its raw samples and the models that changed.           *)
(*                                                                         *)
(* An answer is a Connectors answer with its engine, its model and its     *)
(* text: a sequence of sentences, each the set of terms it holds.          *)
(***************************************************************************)
EXTENDS Connectors

CONSTANTS MaxSnippets, TopN, NoRank

Lowest(ranks) == IF ranks \ {NoRank} = {} THEN NoRank ELSE Min(ranks \ {NoRank})
SumOver(s, f(_)) == MapThenSumSet(LAMBDA i : f(s[i]), DOMAIN s)
Count(s, Test(_)) == Cardinality({i \in DOMAIN s : Test(s[i])})
Joins(s, f(_)) == FlattenSeq([i \in DOMAIN s |-> f(s[i])])

----------------------------------------------------------------------------
(* mentions.py: client.patterns is brand_terms, longest first, then the    *)
(* competitors' terms; one mention per sentence and entity.                *)

Hits(sentence, client, i) ==
  /\ client.patterns[i].term \in sentence.terms
  /\ \A j \in 1..(i - 1) : client.patterns[j].entity = client.patterns[i].entity => client.patterns[j].term \notin sentence.terms
SentenceMentions(sentence, client) ==
  LET found == SelectSeq([i \in DOMAIN client.patterns |-> i], LAMBDA i : Hits(sentence, client, i)) IN
  [n \in DOMAIN found |-> [entity |-> client.patterns[found[n]].entity, term |-> client.patterns[found[n]].term, sentence |-> sentence.id]]
DetectMentions(text, client) == Joins(text, LAMBDA s : SentenceMentions(s, client))
Names(answer, client) == {m.entity : m \in Set(DetectMentions(answer.text, client))}

----------------------------------------------------------------------------
(* citations.py *)

IsClient(domain, client) == \E d \in client.domains : Matches(domain, d)
\* client_rank
ClientRank(answer, client) ==
  LET own == {i \in DOMAIN answer.citations : IsClient(answer.citations[i].domain, client)} IN
  IF own = {} THEN NoRank ELSE answer.citations[Min(own)].position
\* merge_links: one link per url, at its best position.
Cited(answers) == UNION {Set(answers[i].citations) : i \in DOMAIN answers}
\* Mutant: the link of the first sample stays.
MergeLinksFirst(answers) ==
  {c \in Cited(answers) : \E i \in DOMAIN answers : c \in Set(answers[i].citations)
     /\ \A j \in 1..(i - 1) : \A o \in Set(answers[j].citations) : o.url # c.url}
MergeLinks(answers) ==
  {c \in Cited(answers) : \A o \in Cited(answers) : o.url = c.url => c.position <= o.position}
\* The domains of one answer, and of all by how many answers cite them.
CitedDomains(answer) == Distinct([i \in DOMAIN answer.citations |-> answer.citations[i].domain])
DomainCount(answers, d) == Count(answers, LAMBDA a : d \in Set(CitedDomains(a)))
OrderedDomains(answers) ==
  InOrderOf(Distinct(Joins(answers, CitedDomains)), LAMBDA d : Len(answers) - DomainCount(answers, d))
CompetitorBest(citations, client) ==
  [k \in {r \in {Registrable(d) : d \in client.competitors} : \E c \in citations : Matches(c.domain, r)} |->
    Min({c.position : c \in {x \in citations : Matches(x.domain, k)}})]
Snippets(answers, client) ==
  LET own == SelectSeq(Joins(answers, LAMBDA a : DetectMentions(a.text, client)), LAMBDA m : m.entity = "client")
      all == Distinct([i \in DOMAIN own |-> own[i].sentence])
  IN SubSeq(all, 1, Min({MaxSnippets, Len(all)}))

\* build_snapshot
Snapshot(answers, failed, client) ==
  LET ranks == [i \in DOMAIN answers |-> ClientRank(answers[i], client)]
      cited == Count(ranks, LAMBDA r : r # NoRank)
      named(e) == Count(answers, LAMBDA a : e \in Names(a, client))
  IN [samples |-> Len(answers) + failed, failed |-> failed,
      model |-> IF answers = <<>> THEN "unavailable" ELSE answers[1].model, reused |-> FALSE,
      triggered |-> Count(answers, LAMBDA a : a.searched),
      cited |-> cited, won |-> cited > 0 /\ 2 * cited >= Len(answers),
      best |-> Lowest(Set(ranks)), rankSum |-> SumOver(SelectSeq(ranks, LAMBDA r : r # NoRank), LAMBDA r : r),
      domains |-> OrderedDomains(answers), competitors |-> CompetitorBest(Cited(answers), client),
      links |-> MergeLinks(answers), clientUrls |-> {c.url : c \in {x \in MergeLinks(answers) : IsClient(x.domain, client)}},
      consulted |-> Distinct(Joins(answers, LAMBDA a : a.consulted)),
      mentions |-> named("client"), snippets |-> Snippets(answers, client),
      named |-> [e \in UNION {Names(answers[i], client) : i \in DOMAIN answers} \ {"client"} |-> named(e)]]

----------------------------------------------------------------------------
(* organic.py: result pages of one query. *)

ByPosition(results) == InOrderOf(results, LAMBDA r : r.position)
\* client_position
ClientPosition(serp, client) == Lowest({r.position : r \in {x \in Set(serp) : IsClient(x.domain, client)}})
\* build_organic_snapshot: the pages of several samples; the list is the first one's.
OrganicSnapshot(serps, client) ==
  LET best == Lowest({ClientPosition(serps[i], client) : i \in DOMAIN serps})
      top == SubSeq(ByPosition(serps[1]), 1, Min({TopN, Len(serps[1])}))
  IN [samples |-> Len(serps), position |-> best, top |-> top,
      competitors |-> CompetitorBest(UNION {Set(serps[i]) : i \in DOMAIN serps}, client)]

----------------------------------------------------------------------------
(* assembly.py *)

\* build_record: a prompt is dropped only when nothing searched and nobody asks.
Grounded(snapshots) == \E i \in DOMAIN snapshots : snapshots[i].triggered > 0
RecordVerdict(snapshots, volume) ==
  CASE snapshots = <<>> -> "selected"
    [] Grounded(snapshots) -> IF \E i \in DOMAIN snapshots : snapshots[i].won THEN "cited" ELSE "gap"
    [] snapshots # <<>> /\ ~ Grounded(snapshots) -> IF volume > 0 THEN "demand" ELSE "drop"
\* answer_samples: the raw row of an answer.
SampleRow(answer, client) ==
  [model |-> answer.model, searched |-> answer.searched, rank |-> ClientRank(answer, client), cited |-> ClientRank(answer, client) # NoRank,
   domains |-> CitedDomains(answer), named |-> "client" \in Names(answer, client), mentions |-> DetectMentions(answer.text, client)]
\* model_shifts: per engine the first snapshot of this run that was really sampled.
FirstModel(snapshots) == Min({i \in DOMAIN snapshots : ~ snapshots[i].reused /\ snapshots[i].model # "unavailable"})
ModelShifted(snapshots, last) ==
  /\ \E i \in DOMAIN snapshots : ~ snapshots[i].reused /\ snapshots[i].model # "unavailable"
  /\ last # "none" /\ snapshots[FirstModel(snapshots)].model # last
\* pipeline._reusable
Reusable(newest, hours) == hours > 0 /\ newest.age <= hours

----------------------------------------------------------------------------
(* Properties. *)

\* citations.py, assembly.py: a snapshot says what its raw samples say, which is what
\* every later window is recomputed from; a url is linked once, at the best place
\* it had; and the order the samples came in changes no figure.
SnapshotTrue(answers, failed, client) ==
  LET s == Snapshot(answers, failed, client)
      turned == Snapshot(Reverse(answers), failed, client)
      rows == [i \in DOMAIN answers |-> SampleRow(answers[i], client)] IN
  /\ s.cited = Count(rows, LAMBDA r : r.cited) /\ s.mentions = Count(rows, LAMBDA r : r.named)
  /\ s.best = Lowest({rows[i].rank : i \in DOMAIN rows}) /\ (s.cited > 0) <=> s.best # NoRank
  /\ s.clientUrls # {} <=> s.cited > 0
  /\ \A l, k \in s.links : l.url = k.url => l.position = k.position
  /\ \A i \in DOMAIN answers : \A c \in Set(answers[i].citations) : \E l \in s.links : l.url = c.url /\ l.position <= c.position
  /\ Lowest({l.position : l \in {x \in s.links : IsClient(x.domain, client)}}) = s.best
  /\ \A d \in DOMAIN s.competitors : \E c \in Cited(answers) : Matches(c.domain, d) /\ c.position = s.competitors[d]
  /\ \A m, n \in DOMAIN s.domains : m < n => DomainCount(answers, s.domains[m]) >= DomainCount(answers, s.domains[n])
  /\ \A k \in {"cited", "won", "best", "rankSum", "triggered", "mentions", "named", "links", "competitors"} : s[k] = turned[k]

\* mentions.py: a sentence that holds an alias counts for the client once, and a
\* competitor whose name is inside the client's is not lost.
MentionsOnce(answer, client) ==
  LET found == DetectMentions(answer.text, client) IN
  /\ \A i, j \in DOMAIN found : i # j => <<found[i].entity, found[i].sentence>> # <<found[j].entity, found[j].sentence>>
  /\ \A n \in DOMAIN answer.text : \A p \in Set(client.patterns) : p.term \in answer.text[n].terms =>
       \E m \in Set(found) : m.entity = p.entity /\ m.sentence = answer.text[n].id

\* assembly.build_record: whatever the engines answered, a prompt that is cited or
\* searched for is kept; one more engine never turns a kept prompt into a dropped one.
VerdictKept(snapshots, volume) ==
  /\ RecordVerdict(snapshots, volume) = "drop" => volume = 0 /\ \A i \in DOMAIN snapshots : snapshots[i].triggered = 0
  /\ \A n \in 1..(Len(snapshots) - 1) :
       RecordVerdict(SubSeq(snapshots, 1, n), volume) # "drop" => RecordVerdict(snapshots, volume) # "drop"
=============================================================================
