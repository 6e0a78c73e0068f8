--------------------------- MODULE MCCrawlerLogs ---------------------------
(***************************************************************************)
(* Small instances of CrawlerLogs, whose files are logs read by AccessLog: *)
(* a day has two hours, and the agent of every line is a crawler.          *)
(***************************************************************************)
EXTENDS CrawlerLogs, TLC

LOCAL Log == INSTANCE AccessLog WITH
  DayHours <- 2, MaxKeys <- 9, IndexFiles <- {}, Sensitive <- {}, NoBot <- "none",
  Bots <- [bot |-> [vendor |-> "v", purpose |-> "index", engine |-> "e"]], Ranged <- {},
  MinFetches <- 1, MinSamples <- 1, RejectMinLines <- 20

CONSTANT Offset   \* hours the logs' clock is ahead of UTC

\* One GET per hour; the text tells lines apart.
Lines(hours) == [i \in DOMAIN hours |->
  [text |-> i, form |-> "line", comma |-> FALSE, format |-> "combined", hour |-> hours[i], offset |-> Offset,
   method |-> "GET", host |-> "", path |-> <<"a">>, agent |-> "bot", ip |-> "none",
   status |-> 200, weight |-> 1, cdn |-> FALSE]]

Content == "f1" :> Lines(<<1, 2, 2>>) @@ "f2" :> Lines(<<0, 1, 2>>)
Names == {"f1", "f2"}
LinesPerDay == [f \in Names |-> Log!IterHits(Content[f]).days]
DaysWithHits == [f \in Names |->
  {k[1] : k \in DOMAIN Log!Aggregate(Log!IterHits(Content[f]).hits, <<>>).rows}]

Symmetry == Permutations(Uploads)
=============================================================================
