----------------------------- MODULE AccessLog -----------------------------
(***************************************************************************)
(* What one uploaded log becomes: crawler_logs/parser.py counts and parses *)
(* its lines, ingest.py folds the hits into rows per day, crawler and      *)
(* page, funnel.py joins the rows with the answers' citations.             *)
(*                                                                         *)
(* A line is a record: its text (two lines with one text are duplicates),  *)
(* its format as its first character tells it, its form, whether it ends   *)
(* in a comma as in an array, the UTC hour and the offset it was written   *)
(* with, and the request.  A page's path is a sequence of segments.        *)
(***************************************************************************)
EXTENDS Lists, Integers, FiniteSets, Sequences, SequencesExt, FiniteSetsExt

CONSTANTS
  DayHours,      \* hours of a day
  MaxKeys,       \* MAX_KEYS
  IndexFiles,    \* segments that name an index file
  Sensitive,     \* segments that look like a token or an address
  Bots,          \* per crawler of the catalogue: vendor, purpose, engine
  Ranged,        \* vendors whose address ranges are published
  NoBot          \* an agent the catalogue does not name

Total(S, f(_)) == SumFunction([x \in S |-> f(x)])
Plus(f, k, n) == IF k \in DOMAIN f THEN [f EXCEPT ![k] = @ + n]
                 ELSE [x \in DOMAIN f \cup {k} |-> IF x = k THEN n ELSE f[x]]
Nothing == [x \in {} |-> 0]

----------------------------------------------------------------------------
(* parser.py (its caps on bytes, which refuse an import as well, are left out) *)

CONSTANT RejectMinLines   \* _REJECT_MIN_LINES

NoStats == [format |-> "none", lines |-> 0, parsed |-> 0, unparsed |-> 0, duplicates |-> 0,
            skipped |-> 0, noUrl |-> 0, days |-> Nothing, seen |-> {}, hits |-> <<>>,
            buffer |-> <<>>, refused |-> FALSE]

LocalDay(l) == (l.hour + l.offset) \div DayHours
\* _combined turns the stamp into UTC for the hit, _cloudflare leaves it.
HitDay(l) == IF l.format = "combined" THEN l.hour \div DayHours ELSE LocalDay(l)

\* Mutant: a request is counted only when it is used.
RequestUsed(st, l) ==
  CASE l.method = "POST" -> [st EXCEPT !.skipped = @ + 1]
    [] l.method = "none" -> [st EXCEPT !.noUrl = @ + 1]
    [] OTHER -> [st EXCEPT !.parsed = @ + 1, !.days = Plus(@, LocalDay(l), 1), !.hits = Append(@, l)]
\* A request the funnel can use: GET or HEAD of a path.
Request(st, l) ==
  LET timed == [st EXCEPT !.parsed = @ + 1, !.days = Plus(@, LocalDay(l), 1)] IN
  CASE l.method = "POST" -> [timed EXCEPT !.skipped = @ + 1]
    [] l.method = "none" -> [timed EXCEPT !.noUrl = @ + 1]
    [] OTHER -> [timed EXCEPT !.hits = Append(@, l)]

\* What the first character of the first line kept says of the log.
Sniffed(l) == IF l.format \in {"array", "cloudflare"} THEN l.format ELSE "combined"

\* _parse_line, and an element of _parse_array: a record without the fields of
\* Cloudflare refuses the import; a bad time counts as unparsed in a combined log
\* of which nothing has been parsed yet, and nowhere otherwise.
Readable(format, l) == l.format = format /\ l.form # "garbage" /\ ~ l.comma
ParseEntry(st, l, format) ==
  CASE ~ Readable(format, l) \/ (l.form = "badtime" /\ format = "combined" /\ st.parsed = 0) ->
         [st EXCEPT !.unparsed = @ + 1]
    [] Readable(format, l) /\ l.form = "partial" -> [st EXCEPT !.refused = TRUE]
    [] Readable(format, l) /\ l.form = "badtime" /\ ~ (format = "combined" /\ st.parsed = 0) -> st
    [] OTHER -> Request(st, l)

\* Once a ValueError is raised nothing more is read.
ReadLine(st, l) ==
  LET read == [st EXCEPT !.lines = @ + 1]
      format == IF st.format = "none" THEN Sniffed(l) ELSE st.format
      kept == [read EXCEPT !.seen = @ \cup {l.text}, !.format = format] IN
  IF st.refused \/ l.form = "blank" THEN st
  ELSE IF l.form = "long" THEN [read EXCEPT !.unparsed = @ + 1]
  ELSE IF l.text \in st.seen THEN [read EXCEPT !.duplicates = @ + 1]
  ELSE IF format = "array" THEN [kept EXCEPT !.buffer = Append(@, l)]
  ELSE ParseEntry(kept, l, format)

\* The lines kept of an array are a JSON list when they open it, hold one value each,
\* with a comma after all but the last, and close it.
IsList(b) ==
  /\ Len(b) > 1 /\ b[1].form = "open" /\ b[Len(b)].form = "close"
  /\ \A i \in 2..(Len(b) - 1) :
       /\ b[i].format \in {"cloudflare", "other"} /\ b[i].form \notin {"garbage", "close"}
       /\ b[i].comma <=> i < Len(b) - 1
Records(b) == [i \in 1..(Len(b) - 2) |-> [b[i + 1] EXCEPT !.comma = FALSE]]

\* _parse_array: the lines are now the records, whatever was counted before.
ReadRecord(st, l) == IF st.refused THEN st ELSE ParseEntry(st, l, "cloudflare")
ParseArray(st) ==
  IF IsList(st.buffer)
  THEN FoldLeft(ReadRecord, [st EXCEPT !.lines = Len(Records(st.buffer))], Records(st.buffer))
  ELSE [st EXCEPT !.refused = TRUE]

\* reject_if_unusable
Usable(st) == st.parsed > 0 /\ (st.lines >= RejectMinLines => st.unparsed * 2 <= st.lines)
IterHits(log) ==
  LET lines == FoldLeft(ReadLine, NoStats, log)
      all == IF lines.refused \/ lines.buffer = <<>> THEN lines ELSE ParseArray(lines)
  IN  IF Usable(all) THEN all ELSE [all EXCEPT !.refused = TRUE]

----------------------------------------------------------------------------
(* normalise.py *)

\* _canonical_path: an index file is dropped, empty segments are, a trailing
\* slash is.  (Escapes and the query are decoded and cut before this.)
Canonical(path) ==
  LET whole == IF path # <<>> /\ Last(path) \in IndexFiles THEN Front(path) ELSE path
  IN  Those(whole, LAMBDA s : s # "")

UrlKey(host, path) == <<host, Canonical(path)>>
IsSensitive(path) == \E i \in DOMAIN path : path[i] \in Sensitive

----------------------------------------------------------------------------
(* ingest.py *)

Counts == {"hits", "s2xx", "s304", "s3xx", "s4xx", "s5xx", "blocked", "verified"}
NoRow == [c \in Counts |-> 0]

\* Mutant: a refusal is counted as blocked instead of, not besides, s4xx.
BucketsApart(status) ==
  IF status \in {403, 429} THEN {"blocked"}
  ELSE IF status \in 400..499 THEN {"s4xx"} ELSE IF status \in 300..399 THEN {"s3xx"} ELSE {"s2xx"}
\* _status_bucket
Buckets(status) ==
  CASE status = 304 -> {"s304"}
    [] status \in 200..299 -> {"s2xx"}
    [] status \in (300..399) \ {304} -> {"s3xx"}
    [] status \in {403, 429} -> {"s4xx", "blocked"}
    [] status \in (400..499) \ {403, 429} -> {"s4xx"}
    [] status >= 500 -> {"s5xx"}
    [] OTHER -> {}

\* BotRanges.verify, or the CDN says so.
Verified(h) == h.cdn \/ (Bots[h.agent].vendor \in Ranged /\ h.ip = Bots[h.agent].vendor)

NoResult == [rows |-> Nothing, stealth |-> Nothing, matched |-> 0, hits |-> 0, stealthHits |-> 0,
             hostsSkipped |-> 0, sensitive |-> 0, truncated |-> FALSE]

Keep(r, h, host) ==
  LET key == <<HitDay(h), h.agent, UrlKey(host, h.path)>>
      old == IF key \in DOMAIN r.rows THEN r.rows[key] ELSE NoRow
      in == Buckets(h.status) \cup {"hits"} \cup (IF Verified(h) THEN {"verified"} ELSE {})
      row == [c \in Counts |-> old[c] + IF c \in in THEN h.weight ELSE 0]
  IN IF key \notin DOMAIN r.rows /\ Cardinality(DOMAIN r.rows) >= MaxKeys
     THEN [r EXCEPT !.truncated = TRUE]
     ELSE [r EXCEPT !.hits = @ + h.weight,
                    !.rows = [k \in DOMAIN r.rows \cup {key} |-> IF k = key THEN row ELSE r.rows[k]]]

\* aggregate, one hit: crawlers by their agent, in-range addresses without one
\* as stealth, and no row for a foreign host or a page that looks like a token.
AddHit(r, h, domains) ==
  LET m == [r EXCEPT !.matched = @ + h.weight] IN
  CASE h.agent = NoBot -> IF h.ip \notin Ranged THEN r
         ELSE [r EXCEPT !.stealth = Plus(@, <<HitDay(h), h.ip>>, h.weight), !.stealthHits = @ + h.weight]
    [] h.agent # NoBot /\ h.host # "" /\ domains # <<>> /\ ~ (\E i \in DOMAIN domains : domains[i] = h.host) ->
         [m EXCEPT !.hostsSkipped = @ + h.weight]
    [] h.agent # NoBot /\ IsSensitive(h.path) -> [m EXCEPT !.sensitive = @ + h.weight]
    [] OTHER -> Keep(m, h, IF h.host # "" THEN h.host ELSE IF domains = <<>> THEN "" ELSE Head(domains))

Aggregate(hits, domains) == FoldLeft(LAMBDA r, h : AddHit(r, h, domains), NoResult, hits)

----------------------------------------------------------------------------
(* funnel.py: the window's rows (of the winning imports) against its answers. *)

CONSTANTS MinFetches, MinSamples   \* MIN_FETCHES, MIN_SAMPLES

\* An answer: its engine, the pages it cites and the pages it read.
Engines(answers) == {answers[i].engine : i \in DOMAIN answers}
Of(answers, e) == {i \in DOMAIN answers : answers[i].engine = e}

\* Pages are compared exactly and, to spot near misses, with their case folded.
Same(fold, a, b) == a = b \/ (a \in DOMAIN fold /\ b \in DOMAIN fold /\ fold[a] = fold[b])

\* _engine_side: citations and consultations per page, of the wanted engines.
Cited(answers, key, e) == Total(Of(answers, e), LAMBDA i : IF key \in answers[i].cites THEN 1 ELSE 0)
Consults(answers, e) == \E i \in Of(answers, e) : answers[i].reads # {}
Read(answers, key) == Cardinality({i \in DOMAIN answers : key \in answers[i].reads})

\* _fold_page: one crawler's fetches of one page, over the days.
Fetches(rows, key, bot) ==
  LET of == {k \in DOMAIN rows : k[2] = bot /\ k[3] = key} IN
  [hits |-> Total(of, LAMBDA k : rows[k]["hits"]),
   ok |-> Total(of, LAMBDA k : rows[k]["s2xx"] + rows[k]["s304"]),
   blocked |-> Total(of, LAMBDA k : rows[k]["blocked"])]

Pages(rows) == {k[3] : k \in DOMAIN rows}
BotsOf(rows, key) == {k[2] : k \in {x \in DOMAIN rows : x[3] = key}}
\* _page: the funnel's line of one page.
Page(rows, answers, fold, key) ==
  LET cites(k) == \E e \in Engines(answers) : Cited(answers, k, e) > 0 IN
  [total |-> Total(BotsOf(rows, key), LAMBDA b : Fetches(rows, key, b).hits),
   consulted |-> IF \E e \in Engines(answers) : Consults(answers, e) THEN Read(answers, key) ELSE -1,
   match |-> IF cites(key) THEN "exact"
             ELSE IF \E i \in DOMAIN answers : \E k \in answers[i].cites : Same(fold, k, key) THEN "near"
             ELSE "none"]

BotTotal(rows, bot) == Total({k \in DOMAIN rows : k[2] = bot}, LAMBDA k : rows[k]["hits"])
DayTotal(rows, day) == Total({k \in DOMAIN rows : k[1] = day}, LAMBDA k : rows[k]["hits"])

\* Mutant: near misses are held against the page.
CardsNear(rows, answers, fold, assets) ==
  {c \in Pages(rows) \X DOMAIN Bots :
     /\ c[1] \notin assets /\ Page(rows, answers, fold, c[1]).match # "exact"
     /\ c[2] \in BotsOf(rows, c[1]) /\ Bots[c[2]].engine # "none"
     /\ Fetches(rows, c[1], c[2]).hits >= MinFetches
     /\ Cardinality(Of(answers, Bots[c[2]].engine)) >= MinSamples}

\* _fetched_not_cited
Cards(rows, answers, fold, assets) ==
  {c \in Pages(rows) \X DOMAIN Bots :
     /\ c[1] \notin assets /\ Page(rows, answers, fold, c[1]).match = "none"
     /\ c[2] \in BotsOf(rows, c[1])
     /\ Bots[c[2]].engine # "none" /\ Bots[c[2]].purpose \in {"index", "live_fetch"}
     /\ Fetches(rows, c[1], c[2]).ok >= MinFetches
     /\ Cardinality(Of(answers, Bots[c[2]].engine)) >= MinSamples}

----------------------------------------------------------------------------
(* Properties of one log, of its pages, and of a funnel. *)

\* What the entries of a log are once it is read: its lines, or its array's records.
Entered(st, log) == IF st.buffer = <<>> THEN log ELSE Records(st.buffer)
Untimed(entries) == Cardinality({i \in DOMAIN entries : entries[i].form = "badtime"})

\* An import that is accepted counts its log: no line of it is in two counters, and
\* none is in no counter but those with a bad time (parser.py has no counter for
\* them); of an array, whose lines and duplicates were counted before its records
\* were, the parsed are no more than the records, and the same bound holds. Each
\* parsed entry is a hit or is skipped, and belongs to one day of the coverage.
LinesAccounted(st, log) ==
  LET counted == st.parsed + st.unparsed + st.duplicates IN
  ~ st.refused =>
    /\ st.lines <= counted + Untimed(Entered(st, log))
    /\ IF st.buffer = <<>> THEN counted <= st.lines ELSE st.parsed <= st.lines
    /\ st.parsed = Len(st.hits) + st.skipped + st.noUrl
    /\ st.parsed = Total(DOMAIN st.days, LAMBDA d : st.days[d])

\* Weight is conserved from the hits to the rows: a hit of a crawler is in a row or
\* in the counter of its refusal, until the rows are full and keys_truncated says
\* so (the hits dropped then are not counted); the status columns add up, and no
\* part exceeds its whole.
RowsAccounted(r, hits) ==
  LET all(c) == Total(DOMAIN r.rows, LAMBDA k : r.rows[k][c])
      counted == r.hits + r.hostsSkipped + r.sensitive IN
  /\ counted <= r.matched /\ (~ r.truncated => counted = r.matched)
  /\ Cardinality(DOMAIN r.rows) <= MaxKeys /\ (r.truncated => Cardinality(DOMAIN r.rows) = MaxKeys)
  /\ r.hits = all("hits")
  /\ Total({i \in DOMAIN hits : hits[i].agent # NoBot}, LAMBDA i : hits[i].weight) = r.matched
  /\ r.stealthHits = Total(DOMAIN r.stealth, LAMBDA k : r.stealth[k])
  /\ \A k \in DOMAIN r.rows : LET row == r.rows[k] IN
       /\ row["s2xx"] + row["s304"] + row["s3xx"] + row["s4xx"] + row["s5xx"] <= row["hits"]
       /\ row["blocked"] <= row["s4xx"] /\ row["verified"] <= row["hits"]

\* A log and a citation spell one page differently, and mean one key: with a
\* trailing slash, with doubled slashes, or with the index file's name.
OneKeyPerPage(page) ==
  (page = <<>> \/ Last(page) \notin IndexFiles) =>
    \A f \in IndexFiles :
      /\ Canonical(page \o <<"">>) = Canonical(page)
      /\ Canonical(page \o <<f>>) = Canonical(page)
      /\ Canonical(<<"">> \o page \o <<"", f>>) = Canonical(page)

\* The three views of the tab add up to the same fetches, and a card accuses an
\* engine only of what the window shows: enough answers, enough good fetches,
\* and not one citation of the page by anyone, in any case.
FunnelTrue(rows, answers, fold, assets) ==
  LET sum == Total(DOMAIN rows, LAMBDA k : rows[k]["hits"])
      cards == Cards(rows, answers, fold, assets) IN
  /\ Total(Pages(rows), LAMBDA p : Page(rows, answers, fold, p).total) = sum
  /\ Total({k[2] : k \in DOMAIN rows}, LAMBDA b : BotTotal(rows, b)) = sum
  /\ Total({k[1] : k \in DOMAIN rows}, LAMBDA d : DayTotal(rows, d)) = sum
  /\ \A c \in cards :
       /\ \A i \in DOMAIN answers : \A k \in answers[i].cites : ~ Same(fold, k, c[1])
       /\ Bots[c[2]].engine \in Engines(answers)
       /\ Fetches(rows, c[1], c[2]).ok >= MinFetches
=============================================================================
