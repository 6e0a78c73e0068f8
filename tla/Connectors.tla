----------------------------- MODULE Connectors -----------------------------
(***************************************************************************)
(* integrations/: what each vendor's reply becomes.  Every connector turns *)
(* its payload into one answer: the sources in the order the reader meets  *)
(* them, the sentences attributed to them, the queries the engine ran.     *)
(*                                                                         *)
(* A url is a number and HostOf its host: the labels, the top one first.   *)
(* A text is its number of sentences, each SentenceLength characters long; *)
(* a mark is a place in a text that names a source.                        *)
(***************************************************************************)
EXTENDS Integers, Sequences, FiniteSets, SequencesExt, FiniteSetsExt

CONSTANTS HostOf, MultiLabel,   \* _MULTI_LABEL_SUFFIXES
          Redirector,           \* GEMINI_REDIRECT_HOST
          SentenceLength, MaxHops

Set(s) == {s[i] : i \in DOMAIN s}
\* list(dict.fromkeys(s))
Once(s) == SelectSeq([i \in DOMAIN s |-> <<i, s[i]>>], LAMBDA x : \A j \in 1..(x[1] - 1) : s[j] # x[2])
Distinct(s) == [i \in DOMAIN Once(s) |-> Once(s)[i][2]]
\* A stable sort by a number.
InOrderOf(s, at(_)) ==
  LET place(i) == Cardinality({j \in DOMAIN s : at(s[j]) < at(s[i]) \/ (at(s[j]) = at(s[i]) /\ j <= i)}) IN
  [n \in DOMAIN s |-> s[CHOOSE i \in DOMAIN s : place(i) = n]]

----------------------------------------------------------------------------
(* core/domains.py *)

Normalize(host) == IF host # <<>> /\ Last(host) = "www" THEN Front(host) ELSE host
Registrable(host) ==
  LET h == Normalize(host) IN
  IF Len(h) <= 2 THEN h ELSE IF SubSeq(h, 1, 2) \in MultiLabel THEN SubSeq(h, 1, 3) ELSE SubSeq(h, 1, 2)
\* domain_matches: the domain itself or one below it, label by label.
Matches(candidate, target) ==
  Normalize(candidate) # <<>> /\ Normalize(target) # <<>> /\ IsPrefix(Normalize(target), Normalize(candidate))
NoDomain == <<>>
DomainOf(url) == Registrable(HostOf[url])

----------------------------------------------------------------------------
(* claims.py *)

\* sentence_at: the sentence of a character; an index out of the text is clamped.
NoSentence == -1
SentenceAt(text, at) ==
  IF text = 0 THEN NoSentence ELSE Min({at \div SentenceLength, text - 1})
\* claim_sentence: a link that starts a sentence stands behind the one it supports.
ClaimSentence(text, at) ==
  LET s == SentenceAt(text, at) IN
  IF s > 0 /\ at % SentenceLength = 0 THEN s - 1 ELSE s
Claim(url, sentence) == [url |-> url, sentence |-> sentence]
Claims(text, marks) == {Claim(m.url, ClaimSentence(text, m.at)) : m \in {x \in Set(marks) : text > 0}}
\* sentences_with_marker
Marked(text, markers, n) == {SentenceAt(text, m.at) : m \in {x \in Set(markers) : x.n = n /\ text > 0}}

----------------------------------------------------------------------------
(* What the parsers share: one citation per url, none without a domain,    *)
(* and positions without a gap.                                            *)

\* Mutant: a position is taken by a source that is then left out.
CitationsGapped(urls) ==
  LET all == Distinct(urls)
      kept == SelectSeq([i \in DOMAIN all |-> [url |-> all[i], domain |-> DomainOf(all[i]), position |-> i, resolved |-> TRUE]],
                        LAMBDA c : c.domain # NoDomain) IN kept
Citations(urls) ==
  LET kept == SelectSeq(Distinct(urls), LAMBDA u : DomainOf(u) # NoDomain) IN
  [i \in DOMAIN kept |-> [url |-> kept[i], domain |-> DomainOf(kept[i]), position |-> i, resolved |-> TRUE]]
Answer(searched, citations, claims, queries, consulted) ==
  [searched |-> searched, citations |-> citations, claims |-> claims, queries |-> queries, consulted |-> consulted]
Urls(marks) == [i \in DOMAIN marks |-> marks[i].url]

\* openai_search._parse_response: parts are joined, so a mark moves by the parts before.
Joined(parts) == FoldLeft(LAMBDA n, p : n + p.text, 0, parts)
Shifted(parts) ==
  FlattenSeq([i \in DOMAIN parts |-> [k \in DOMAIN parts[i].marks |->
    [url |-> parts[i].marks[k].url,
     at |-> parts[i].marks[k].at + SentenceLength * Joined(SubSeq(parts, 1, i - 1))]]])
OpenAI(reply) ==
  LET marks == Shifted(reply.parts) IN
  Answer(reply.searches > 0, Citations(Urls(InOrderOf(marks, LAMBDA m : m.at))), Claims(Joined(reply.parts), marks),
         Distinct(reply.queries), Distinct(reply.sources))

\* openrouter._parse_answer: a mark without a span keeps the provider's order,
\* behind the others, and is tied to its sentence by the [n] in the text.
Unplaced == 1000
OpenRouter(reply) ==
  LET place(m) == IF m.span THEN m.at ELSE Unplaced
      placed == SelectSeq(reply.marks, LAMBDA m : m.span)
      numbered == {[url |-> reply.marks[x.n].url, at |-> x.at] : x \in {y \in Set(reply.markers) : y.n \in DOMAIN reply.marks}}
      citations == Citations(Urls(InOrderOf(reply.marks, place)))
  IN Answer(citations # <<>> \/ reply.searches > 0, citations,
            IF placed # <<>> THEN Claims(reply.text, placed)
            ELSE {Claim(m.url, ClaimSentence(reply.text, m.at)) : m \in {x \in numbered : reply.text > 0}}, <<>>, <<>>)

\* perplexity._parse_response: results by url, the first id of a url counts; the
\* sources whose [id] is in the text come first, in the text's order.
IdOf(results, u) ==
  LET with == {i \in DOMAIN results : results[i].url = u /\ results[i].id > 0} IN
  IF with = {} THEN 0 ELSE results[Min(with)].id
\* by_id: of two urls with one id the last.
ById(urls, results, n) ==
  LET with == {i \in DOMAIN urls : IdOf(results, urls[i]) = n} IN IF with = {} THEN {} ELSE {urls[Max(with)]}
Perplexity(reply) ==
  LET results == IF reply.results # <<>> THEN reply.results ELSE reply.legacy
      urls == Distinct(Urls(results))
      cited == Distinct([i \in DOMAIN reply.markers |-> reply.markers[i].n])
      marked == FlattenSeq([i \in DOMAIN cited |-> SetToSeq(ById(urls, results, cited[i]))])
      citations == Citations(marked \o urls)
      ids == {IdOf(results, u) : u \in Set(urls)} \ {0}
  IN Answer(citations # <<>>, citations,
            UNION {{Claim(u, s) : u \in ById(urls, results, n), s \in Marked(reply.text, reply.markers, n)} : n \in ids},
            Distinct(reply.queries), <<>>)

\* gemini_search._parse_response: chunks in the order of the first segment they support.
FirstUse(reply, c) ==
  LET uses == {s \in Set(reply.supports) : c \in s.chunks} IN
  IF uses = {} THEN Unplaced ELSE Min({s.at : s \in uses})
\* _citation_from_chunk: the domain the vendor gives, the host, or the title;
\* behind the redirector only the title tells, and the link stays unresolved.
Named(chunk) == chunk.domain # NoDomain \/ HostOf[chunk.url] \notin {NoDomain, Redirector}
ChunkDomain(chunk) ==
  IF chunk.domain # NoDomain THEN Registrable(chunk.domain)
  ELSE IF Named(chunk) THEN DomainOf(chunk.url)
  ELSE IF chunk.title # NoDomain THEN Registrable(chunk.title) ELSE HostOf[chunk.url]
Gemini(reply) ==
  LET order == InOrderOf([i \in DOMAIN reply.chunks |-> i], LAMBDA i : FirstUse(reply, i))
      met == [n \in DOMAIN order |-> reply.chunks[order[n]]]
      of(u) == met[Min({n \in DOMAIN met : met[n].url = u})]
      kept == SelectSeq(Distinct(Urls(met)), LAMBDA u : ChunkDomain(of(u)) # NoDomain)
  IN Answer(reply.queries # <<>>,
            [n \in DOMAIN kept |-> [url |-> kept[n], domain |-> ChunkDomain(of(kept[n])), position |-> n, resolved |-> Named(of(kept[n]))]],
            {Claim(reply.chunks[x[2]].url, SentenceAt(reply.text, x[1].at)) :
               x \in {y \in Set(reply.supports) \X DOMAIN reply.chunks : y[2] \in y[1].chunks /\ reply.text > 0}},
            reply.queries, <<>>)

\* serp_api._parse_snapshot: the references, then the links inside the blocks.
Overview(reply) ==
  LET links == FlattenSeq([i \in DOMAIN reply.blocks |-> reply.blocks[i].links])
      citations == Citations(reply.references \o links)
  IN Answer((\E i \in DOMAIN reply.blocks : reply.blocks[i].text) \/ citations # <<>>, citations,
            UNION {{Claim(u, i) : u \in {v \in Set(reply.blocks[i].links) : reply.blocks[i].text /\ DomainOf(v) # NoDomain}} :
                     i \in DOMAIN reply.blocks}, <<>>, <<>>)
\* search: an overview that is only a token costs a second call.
SerpCalls(reply) == IF reply.token /\ reply.blocks = <<>> THEN 2 ELSE 1
\* _parse_organic: Google's own position, else the place in the list.
Organic(raw) ==
  SelectSeq([i \in DOMAIN raw |-> [url |-> raw[i].url, domain |-> DomainOf(raw[i].url),
                                   position |-> IF raw[i].position >= 1 THEN raw[i].position ELSE i]],
            LAMBDA r : r.domain # NoDomain)

----------------------------------------------------------------------------
(* url_resolver.resolve: where a chain of redirects ends; `web` says of each *)
(* url where it sends on (itself: nowhere), whether it is safe and up, and   *)
(* whether its robots.txt "allows" or "refuses" the visit, or its call       *)
(* "fails", which unlike everything else is not caught.                      *)

Stopped(u) == [final |-> u, resolved |-> FALSE, raised |-> FALSE]
Walk(web, url) ==
  LET walk[hop \in 0..MaxHops, u \in DOMAIN web] ==
        IF web[u].safe /\ web[u].robots = "fails" THEN [Stopped(u) EXCEPT !.raised = TRUE]
        ELSE IF ~ web[u].safe \/ web[u].robots = "refuses" \/ hop = MaxHops \/ ~ web[u].up THEN Stopped(u)
        ELSE IF web[u].to = u THEN [Stopped(u) EXCEPT !.resolved = TRUE] ELSE walk[hop + 1, web[u].to]
  IN walk[0, url]

\* pipeline._resolve_unresolved: the citations that hide behind the redirector get
\* their real url, and so do the claims about them.  What the resolver raises goes
\* through, and the answer is lost with its run.
Lost == [raised |-> TRUE]
Hides(c) == ~ c.resolved /\ HostOf[c.url] = Redirector
Followed(web, c) == Hides(c) /\ Walk(web, c.url).resolved /\ DomainOf(Walk(web, c.url).final) # NoDomain
Real(web, c) == [c EXCEPT !.url = Walk(web, @).final, !.domain = DomainOf(Walk(web, c.url).final), !.resolved = TRUE]
ResolvedCitations(web, citations) == [i \in DOMAIN citations |-> IF Followed(web, citations[i]) THEN Real(web, citations[i]) ELSE citations[i]]
\* Mutant: only the citations are rewritten.
ResolveCitations(web, answer) == [answer EXCEPT !.citations = ResolvedCitations(web, @)]
Resolve(web, answer) ==
  LET hidden == {c.url : c \in {x \in Set(answer.citations) : Followed(web, x)}} IN
  IF \E c \in Set(answer.citations) : Hides(c) /\ Walk(web, c.url).raised THEN Lost
  ELSE [answer EXCEPT !.citations = ResolvedCitations(web, @),
                      !.claims = {[c EXCEPT !.url = IF @ \in hidden THEN Walk(web, @).final ELSE @] : c \in @}]

----------------------------------------------------------------------------
(* anthropic_judge._parse_reply and openrouter.classify: a structured reply *)
(* has data only when it is whole and is a JSON object.                     *)

Stop(finish) == CASE finish = "stop" -> "end_turn" [] finish = "length" -> "max_tokens"
                  [] finish = "content_filter" -> "refusal" [] OTHER -> finish
Reply(stop, body) == [stop |-> stop, data |-> IF stop = "end_turn" /\ body.object THEN body.items ELSE <<>>]
ByAnthropic(stop, body) == Reply(stop, body)
ByOpenRouter(finish, body) == Reply(Stop(finish), [body EXCEPT !.object = body.object \/ body.fenced])

\* openrouter.engine_route
Route(mode, model, direct, router) ==
  IF ~ model \/ mode = "direct" THEN "direct"
  ELSE IF mode = "openrouter" \/ (~ direct /\ router) THEN "openrouter" ELSE "direct"

----------------------------------------------------------------------------
(* Properties. *)

\* Whichever vendor answers: the positions are 1..n, no url is cited twice, none
\* without a domain, and a sentence is attributed to cited sources only.
AnswerSound(answer) ==
  LET cited == {c.url : c \in Set(answer.citations)} IN
  /\ \A i \in DOMAIN answer.citations : answer.citations[i].position = i /\ answer.citations[i].domain # NoDomain
  /\ Cardinality(cited) = Len(answer.citations)
  /\ \A c \in answer.claims : c.sentence # NoSentence /\ (DomainOf(c.url) # NoDomain => c.url \in cited)

\* The same reply by either route is the same answer, and a source is ranked where
\* the reader first meets it.
RoutesAgree(reply) ==
  LET direct == OpenAI([searches |-> reply.searches, queries |-> <<>>, sources |-> <<>>,
                        parts |-> <<[text |-> reply.text, marks |-> [i \in DOMAIN reply.marks |->
                                      [url |-> reply.marks[i].url, at |-> reply.marks[i].at]]]>>])
      routed == OpenRouter(reply)
      met(u) == Min({m.at : m \in {x \in Set(reply.marks) : x.url = u}})
  IN (\A m \in Set(reply.marks) : m.span) =>
       /\ direct.citations = routed.citations /\ direct.claims = routed.claims
       /\ \A i, j \in DOMAIN direct.citations :
            i < j => met(direct.citations[i].url) <= met(direct.citations[j].url)

\* After the redirects are followed a claim still names a citation of its answer if
\* it named one, the ranks are what they were, and following again changes nothing;
\* whatever links are unsafe, refused, down or endless, the answer is kept.  Only a
\* failing robots.txt call costs it, which is not what url_resolver.py:15 promises.
ResolvedTogether(web, answer) ==
  LET out == Resolve(web, answer)
      cited(a) == {c.url : c \in Set(a.citations)} IN
  /\ (\A u \in DOMAIN web : web[u].robots # "fails") => out # Lost
  /\ out # Lost =>
       /\ \A c \in out.claims : c.url \in cited(out) \/ c.url \notin cited(answer)
       /\ {c \in answer.claims : c.url \notin cited(answer)} \subseteq out.claims
       /\ \A k \in answer.claims : k.url \in cited(answer) => \E c \in out.claims : c.sentence = k.sentence /\ c.url \in cited(out)
       /\ \A i \in DOMAIN out.citations : out.citations[i].position = i
       /\ \A c \in Set(out.citations) \ Set(answer.citations) : c.domain = DomainOf(c.url) /\ c.resolved
       /\ Resolve(web, out) = out
=============================================================================
