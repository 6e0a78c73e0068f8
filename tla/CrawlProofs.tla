--------------------------- MODULE CrawlProofs -----------------------------
(***************************************************************************)
(* A project's crawls: what Windows consolidates, for every set of sizes,  *)
(* every set of faults and with no bound on the number of crawls, and what *)
(* Tracking asks and records, of which a boost is paid for by what earlier *)
(* crawls saved; the plan they ask by; and the command line's jobs, which  *)
(* Scheduler runs on time.                                                 *)
(***************************************************************************)
EXTENDS Windows, Tracking, Scheduler, FoldTheorems, TLAPS

\* A call in progress has a size; a computed one has its crawls and their last.
CallInv ==
  \A t \in Threads :
    /\ call[t].at # "none" => call[t].size \in Nat \ {0}
    /\ call[t].at = "computed" => /\ call[t].last \in call[t].runs
                                  /\ call[t].runs \subseteq full
                                  /\ \A c \in call[t].runs : c <= call[t].last

\* The worker does one thing at a time, with a size.
CrawlInv ==
  /\ crawl.at # "none" => crawl.size \in Nat \ {0} /\ call["worker"].at = "none"
  /\ call["worker"].at = "computed" => call["worker"].runs = Newest(call["worker"].size)

\* A window is of crawls that are in the table, its last one the newest.
WindowInv ==
  \A w \in windows : w.runs \subseteq full /\ \A c \in w.runs : c <= w.last

Dated(t) == call[t].at \in {"stamped", "computed"}

\* No date is given twice, and one window is the latest.
DateInv ==
  /\ \A w \in windows : w.at < clock
  /\ \A v, w \in windows : v.at = w.at => v = w
  /\ \A t \in Threads : Dated(t) => /\ call[t].now < clock
                                    /\ \A w \in windows : w.at # call[t].now
  /\ Dated("worker") /\ Dated("analyst") => call["worker"].now # call["analyst"].now
  /\ windows # {} => \E w \in windows : Latest(w)

Reaches(last) == \A c \in full : c <= last

\* What is dated after an automatic window, or after the one being made, reaches
\* as far as it does.
AfterInv ==
  /\ \A v, w \in windows : w.auto /\ w.at < v.at => w.last <= v.last
  /\ call["analyst"].at = "computed" =>
       \A w \in windows : w.auto /\ w.at < call["analyst"].now => w.last <= call["analyst"].last
  /\ Dated("worker") /\ call["analyst"].at = "computed"
       /\ call["worker"].now < call["analyst"].now => Reaches(call["analyst"].last)
  /\ Dated("worker") =>
       \A w \in windows : call["worker"].now < w.at => Reaches(w.last)

\* The crawls the worker is about to consolidate are in no automatic window.
FreshInv ==
  call["worker"].at # "none" =>
    \A w \in windows : \A c \in Newest(call["worker"].size) : w.auto => c > w.last

IInv ==
  /\ TypeOK /\ CallInv /\ CrawlInv /\ WindowInv /\ DateInv /\ AfterInv /\ FreshInv
  /\ AutoDisjoint

-----------------------------------------------------------------------------

\* The newest n crawls of a table whose last is `last` include it.
LEMMA LastIsNewest ==
  ASSUME full \subseteq Nat, NEW last \in full, Reaches(last), NEW n \in Nat \ {0}
  PROVE  last \in Newest(n)
<1>0. \A d \in full : ~ (d > last)
  BY DEF Reaches
<1>1. {d \in full : d > last} = {}
  BY <1>0, Zenon
<1>2. Cardinality({d \in full : d > last}) = 0
  BY <1>1, FS_EmptySet
<1>3. Cardinality({d \in full : d > last}) < n
  BY <1>2
<1> QED
  BY <1>3, Zenon DEF Newest

\* If n crawls wait, the newest n are among the waiting ones.
LEMMA NewestWait ==
  ASSUME TypeOK, NEW n \in Nat \ {0}, Due(n)
  PROVE  Newest(n) \subseteq Uncovered
<1> SUFFICES ASSUME NEW c \in Newest(n), c \notin Uncovered PROVE FALSE
  OBVIOUS
<1>1. c \in full /\ c \in Nat
  BY DEF Newest, TypeOK
<1>2. PICK w \in windows : Latest(w) /\ ~ (c > w.last)
  BY <1>1 DEF Uncovered
<1>3. w.last \in Nat
  BY <1>2 DEF TypeOK, Rows
<1> DEFINE D == {d \in full : d > c}
<1>4. IsFiniteSet(D)
  BY FS_Subset DEF TypeOK
<1>5. Uncovered \subseteq D
  <2> SUFFICES ASSUME NEW d \in Uncovered PROVE d \in D
    OBVIOUS
  <2>1. d \in full /\ d \in Nat /\ d > w.last
    BY <1>2 DEF Uncovered, TypeOK
  <2>2. d > c
    BY <1>1, <1>2, <1>3, <2>1
  <2> QED BY <2>1, <2>2
<1>6. Cardinality(Uncovered) <= Cardinality(D) /\ Cardinality(Uncovered) \in Nat /\ Cardinality(D) \in Nat
  BY <1>4, <1>5, FS_Subset, FS_CardinalityType
<1>7. Cardinality(D) < n
  BY Zenon DEF Newest
<1> HIDE DEF D
<1> QED
  BY <1>6, <1>7 DEF Due

LEMMA Start == Init => IInv
<1> SUFFICES ASSUME Init PROVE IInv
  OBVIOUS
<1>1. call \in [Threads -> Calls] /\ \A t \in Threads : call[t].at = "none"
  BY DEF Init, NoCall, Calls
<1>2. crawl \in Crawls /\ crawl.at = "none"
  BY DEF Init, NoCrawl, Crawls
<1>3. TypeOK
  BY <1>1, <1>2, FS_EmptySet, ConstantsAssumption DEF Init, TypeOK
<1>4. CallInv /\ CrawlInv /\ FreshInv
  BY <1>1, <1>2 DEF CallInv, CrawlInv, FreshInv, Threads
<1>5. WindowInv /\ DateInv /\ AfterInv /\ AutoDisjoint
  BY <1>1 DEF Init, WindowInv, DateInv, AfterInv, AutoDisjoint, Dated, Threads
<1> QED
  BY <1>3, <1>4, <1>5 DEF IInv

-----------------------------------------------------------------------------
(* One lemma per kind of step. *)

\* A crawl that begins, or ends with no window, and a new size.
LEMMA CrawlKeeps ==
  ASSUME IInv, StartCrawl \/ EndWithoutWindow \/ \E n \in Sizes : Resize(n)
  PROVE  IInv'
<1>1. /\ UNCHANGED <<faults, full, windows, call>>
      /\ clock' \in Nat /\ clock <= clock'
  BY DEF IInv, TypeOK, StartCrawl, EndWithoutWindow, Resize
<1>2. size' \in Sizes
  BY DEF IInv, TypeOK, StartCrawl, EndWithoutWindow, Resize
<1>3. /\ crawl' \in Crawls
      /\ crawl'.at # "none" => crawl'.size \in Nat \ {0} /\ call["worker"].at = "none"
  <2>1. CASE StartCrawl
    BY <2>1, ConstantsAssumption DEF StartCrawl, IInv, TypeOK, Crawls
  <2>2. CASE EndWithoutWindow
    BY <2>2 DEF EndWithoutWindow, NoCrawl, Crawls
  <2>3. CASE \E n \in Sizes : Resize(n)
    BY <2>3 DEF Resize, IInv, TypeOK, CrawlInv
  <2> QED BY <2>1, <2>2, <2>3
<1>4. TypeOK'
  BY <1>1, <1>2, <1>3 DEF IInv, TypeOK
<1>5. CallInv' /\ CrawlInv' /\ WindowInv' /\ FreshInv' /\ AutoDisjoint'
  BY <1>1, <1>3 DEF IInv, CallInv, CrawlInv, WindowInv, FreshInv, AutoDisjoint, Newest
<1>6. \A w \in windows : w.at \in Nat
  BY DEF IInv, TypeOK, Rows
<1>7. \A t \in Threads : call[t].now \in Nat
  BY DEF IInv, TypeOK, Calls
<1>8. DateInv'
  BY <1>1, <1>6, <1>7 DEF IInv, TypeOK, DateInv, Dated, Latest
<1>9. AfterInv'
  BY <1>1 DEF IInv, AfterInv, Dated, Reaches
<1> QED BY <1>4, <1>5, <1>8, <1>9 DEF IInv

\* A recorded crawl: the worker is not consolidating, so nothing rests on the
\* newest crawls being the same.
LEMMA RecordKeeps ==
  ASSUME IInv, RecordFull
  PROVE  IInv'
<1>1. /\ UNCHANGED <<faults, clock, size, windows, call>>
      /\ full' = full \cup {crawl.start}
      /\ call["worker"].at = "none"
  BY DEF IInv, CrawlInv, RecordFull
<1>2. /\ crawl' \in Crawls /\ crawl'.size = crawl.size
      /\ crawl.size \in Nat \ {0} /\ crawl.start \in Nat
  BY DEF IInv, TypeOK, CrawlInv, RecordFull, Crawls
<1>3. IsFiniteSet(full')
  BY <1>1, FS_AddElement DEF IInv, TypeOK
<1>4. TypeOK'
  BY <1>1, <1>2, <1>3 DEF IInv, TypeOK
<1>5. CallInv' /\ CrawlInv' /\ WindowInv' /\ FreshInv' /\ AutoDisjoint'
  BY <1>1, <1>2 DEF IInv, CallInv, CrawlInv, WindowInv, FreshInv, AutoDisjoint
<1>6. DateInv' /\ AfterInv'
  BY <1>1 DEF IInv, DateInv, AfterInv, Dated, Latest
<1> QED BY <1>4, <1>5, <1>6 DEF IInv

\* The decision: the crawls to consolidate wait, so they are newer than the
\* latest window and than every automatic one.
LEMMA DecideKeeps ==
  ASSUME IInv, Decide
  PROVE  IInv'
<1> DEFINE next == [NoCall EXCEPT !.at = "called", !.size = crawl.size]
<1>1. /\ UNCHANGED <<faults, clock, size, full, windows>>
      /\ crawl' = NoCrawl /\ crawl.size \in Nat \ {0} /\ call["worker"].at = "none"
      /\ call' = IF Due(crawl.size) THEN [call EXCEPT !["worker"] = next] ELSE call
  BY DEF IInv, CrawlInv, Decide
<1>2. next \in Calls /\ next.at = "called" /\ next.size = crawl.size
  BY <1>1 DEF NoCall, Calls
<1> HIDE DEF next
<1>3. /\ call' \in [Threads -> Calls]
      /\ call'["analyst"] = call["analyst"]
      /\ call'["worker"].at \in {"none", "called"}
      /\ call'["worker"].at = "called" => call'["worker"].size = crawl.size /\ Due(crawl.size)
  BY <1>1, <1>2 DEF IInv, TypeOK, Threads
<1>4. crawl' \in Crawls /\ crawl'.at = "none"
  BY <1>1 DEF NoCrawl, Crawls
<1>5. TypeOK'
  BY <1>1, <1>3, <1>4 DEF IInv, TypeOK
<1>6. CallInv' /\ CrawlInv' /\ WindowInv' /\ AutoDisjoint'
  BY <1>1, <1>3, <1>4 DEF IInv, CallInv, CrawlInv, WindowInv, AutoDisjoint, Threads
<1>7. DateInv' /\ AfterInv'
  BY <1>1, <1>3 DEF IInv, DateInv, AfterInv, Dated, Latest, Reaches, Threads
<1>8. FreshInv'
  <2> SUFFICES ASSUME call'["worker"].at = "called", NEW w \in windows, w.auto,
                      NEW c \in Newest(crawl.size)
               PROVE  c > w.last
    BY <1>1, <1>3 DEF FreshInv, Newest
  <2>1. c \in Uncovered
    BY <1>1, <1>3, NewestWait DEF IInv
  <2>2. PICK l \in windows : Latest(l)
    BY DEF IInv, DateInv
  <2>3. /\ w.at <= l.at /\ w.at \in Nat /\ l.at \in Nat
        /\ w.last \in Nat /\ l.last \in Nat /\ c \in Nat
    BY <2>1, <2>2 DEF Latest, IInv, TypeOK, Rows, Uncovered
  <2>4. c > l.last
    BY <2>1, <2>2 DEF Uncovered
  <2>5. w.last <= l.last
    <3>1. CASE w.at = l.at
      BY <2>3, <3>1 DEF IInv, DateInv
    <3>2. CASE w.at < l.at
      BY <3>2 DEF IInv, AfterInv
    <3> QED BY <2>3, <3>1, <3>2
  <2> QED BY <2>3, <2>4, <2>5
<1> QED BY <1>5, <1>6, <1>7, <1>8 DEF IInv

\* A call that begins, or is given up, on some threads; the tables stay.
LEMMA ForgetKeeps ==
  ASSUME IInv,
         \/ \E n \in Sizes : Ask(n)
         \/ \E t \in Threads : NothingToConsolidate(t)
         \/ Lose
  PROVE  IInv'
<1>1. UNCHANGED <<faults, clock, size, full, windows>>
  BY DEF Ask, NothingToConsolidate, Lose
<1> DEFINE Began(t) == t = "analyst" /\ call'[t].at = "called" /\ call'[t].size \in Sizes
           Changes == \A t \in Threads : call'[t] = call[t] \/ call'[t].at = "none" \/ Began(t)
<1>2. call' \in [Threads -> Calls] /\ Changes
  <2>1. NoCall \in Calls /\ NoCall.at = "none"
    BY DEF NoCall, Calls
  <2>2. ASSUME NEW n \in Sizes, Ask(n) PROVE call' \in [Threads -> Calls] /\ Changes
    <3> DEFINE next == [NoCall EXCEPT !.at = "called", !.size = n]
    <3>1. next \in Calls /\ next.at = "called" /\ next.size = n
      BY ConstantsAssumption DEF NoCall, Calls
    <3>2. call' = [call EXCEPT !["analyst"] = next]
      BY <2>2 DEF Ask
    <3> HIDE DEF next
    <3> QED BY <3>1, <3>2 DEF IInv, TypeOK, Threads
  <2>3. ASSUME NEW t \in Threads, NothingToConsolidate(t)
        PROVE  call' \in [Threads -> Calls] /\ Changes
    <3>1. call' = [call EXCEPT ![t] = NoCall]
      BY <2>3 DEF NothingToConsolidate
    <3> QED BY <2>1, <3>1 DEF IInv, TypeOK
  <2>4. ASSUME Lose PROVE call' \in [Threads -> Calls] /\ Changes
    <3>1. call' = [t \in Threads |-> NoCall]
      BY <2>4 DEF Lose
    <3> QED BY <2>1, <3>1
  <2> QED BY <2>2, <2>3, <2>4
<1>3. crawl' = crawl \/ crawl' = NoCrawl
  BY DEF Ask, NothingToConsolidate, Lose
<1>4. crawl' \in Crawls /\ (crawl'.at # "none" => crawl' = crawl)
  BY <1>3 DEF IInv, TypeOK, NoCrawl, Crawls
<1>5. TypeOK'
  BY <1>1, <1>2, <1>4 DEF IInv, TypeOK
<1>6. CallInv' /\ CrawlInv' /\ FreshInv'
  BY <1>1, <1>2, <1>4, ConstantsAssumption
  DEF IInv, CallInv, CrawlInv, FreshInv, Newest, Threads
<1>7. WindowInv' /\ AutoDisjoint'
  BY <1>1 DEF IInv, WindowInv, AutoDisjoint
<1>8. \A t \in Threads : Dated(t)' => Dated(t) /\ call'[t] = call[t]
  BY <1>2 DEF Dated
<1>9. DateInv' /\ AfterInv'
  BY <1>1, <1>2, <1>8 DEF IInv, DateInv, AfterInv, Latest, Reaches, Threads
<1> QED BY <1>5, <1>6, <1>7, <1>9 DEF IInv

\* The date of a call is later than any other.
LEMMA StampKeeps ==
  ASSUME IInv, NEW t \in Threads, Stamp(t)
  PROVE  IInv'
<1>1. /\ UNCHANGED <<faults, size, full, windows, crawl>>
      /\ call[t].at = "called" /\ clock \in Nat /\ clock' = clock + 1
  BY DEF IInv, TypeOK, Stamp
<1>2. /\ call' \in [Threads -> Calls]
      /\ call'[t].at = "stamped" /\ call'[t].now = clock
      /\ call'[t].size = call[t].size
      /\ \A u \in Threads : u # t => call'[u] = call[u]
  BY <1>1 DEF Stamp, IInv, TypeOK, Calls
<1>3. TypeOK'
  BY <1>1, <1>2 DEF IInv, TypeOK
<1>4. CallInv' /\ CrawlInv' /\ FreshInv'
  BY <1>1, <1>2 DEF IInv, CallInv, CrawlInv, FreshInv, Newest, Threads
<1>5. WindowInv' /\ AutoDisjoint'
  BY <1>1 DEF IInv, WindowInv, AutoDisjoint
<1>6. /\ \A w \in windows : w.at \in Nat
      /\ \A u \in Threads : call[u].now \in Nat
  BY DEF IInv, TypeOK, Rows, Calls
<1>7. DateInv'
  BY <1>1, <1>2, <1>6 DEF IInv, DateInv, Dated, Latest, Threads
<1>8. AfterInv'
  BY <1>1, <1>2, <1>6 DEF IInv, DateInv, AfterInv, Dated, Reaches, Threads
<1> QED BY <1>3, <1>4, <1>5, <1>7, <1>8 DEF IInv

\* What is computed reaches as far as the table does.
LEMMA ComputeKeeps ==
  ASSUME IInv, NEW t \in Threads, Compute(t)
  PROVE  IInv'
<1>1. PICK last \in full :
        /\ \A c \in full : c <= last
        /\ call' = [call EXCEPT ![t].at = "computed", ![t].last = last,
                                ![t].runs = Newest(call[t].size)]
  BY DEF Compute
<1>2. /\ UNCHANGED <<faults, clock, size, full, windows, crawl>>
      /\ call[t].at = "stamped"
  BY DEF Compute
<1>3. /\ last \in Nat /\ Newest(call[t].size) \subseteq full /\ full \subseteq Nat
      /\ call[t].size \in Nat \ {0}
  BY <1>2 DEF IInv, TypeOK, CallInv, Newest
<1>4. /\ call' \in [Threads -> Calls]
      /\ call'[t].at = "computed" /\ call'[t].now = call[t].now
      /\ call'[t].size = call[t].size /\ call'[t].last = last
      /\ call'[t].runs = Newest(call[t].size)
      /\ \A u \in Threads : u # t => call'[u] = call[u]
  BY <1>1, <1>3 DEF IInv, TypeOK, Calls
<1>5. last \in Newest(call[t].size)
  BY <1>1, <1>3, LastIsNewest DEF Reaches
<1>6. TypeOK'
  BY <1>2, <1>4 DEF IInv, TypeOK
<1>7. CallInv'
  BY <1>1, <1>2, <1>3, <1>4, <1>5 DEF IInv, CallInv
<1>8. CrawlInv' /\ FreshInv'
  BY <1>2, <1>4 DEF IInv, CrawlInv, FreshInv, Newest, Threads
<1>9. WindowInv' /\ AutoDisjoint'
  BY <1>2 DEF IInv, WindowInv, AutoDisjoint
<1>10. DateInv'
  BY <1>2, <1>4 DEF IInv, DateInv, Dated, Latest, Threads
<1>11. \A w \in windows : w.last <= last
  BY <1>1 DEF IInv, TypeOK, WindowInv
<1>12. AfterInv'
  BY <1>1, <1>2, <1>4, <1>11 DEF IInv, AfterInv, Dated, Reaches, Threads
<1> QED BY <1>6, <1>7, <1>8, <1>9, <1>10, <1>12 DEF IInv

\* The window the worker stores is of crawls no automatic window has, and the
\* windows dated after it reach as far.
LEMMA StoreKeeps ==
  ASSUME IInv, NEW t \in Threads, Store(t)
  PROVE  IInv'
<1> DEFINE row == [at |-> call[t].now, runs |-> call[t].runs, last |-> call[t].last,
                   auto |-> t = "worker"]
<1>1. /\ UNCHANGED <<faults, clock, size, full, crawl>>
      /\ call[t].at = "computed" /\ Dated(t)
      /\ windows' = windows \cup {row}
      /\ call' = [call EXCEPT ![t] = NoCall]
  BY DEF Store, Dated
<1>2. NoCall \in Calls /\ NoCall.at = "none"
  BY DEF NoCall, Calls
<1>3. /\ call' \in [Threads -> Calls]
      /\ call'[t].at = "none"
      /\ \A u \in Threads : u # t => call'[u] = call[u]
  BY <1>1, <1>2 DEF IInv, TypeOK
<1>4. /\ row.at = call[t].now /\ row.runs = call[t].runs /\ row.last = call[t].last
      /\ row.auto <=> t = "worker"
  OBVIOUS
<1>5. /\ call[t].last \in call[t].runs /\ call[t].runs \subseteq full
      /\ \A c \in call[t].runs : c <= call[t].last
  BY <1>1 DEF IInv, CallInv
<1>6. row \in Rows
  <2>1. call[t].now \in Nat /\ call[t].runs \in SUBSET Nat /\ call[t].last \in Nat
    BY DEF IInv, TypeOK, Calls
  <2>2. (t = "worker") \in BOOLEAN
    OBVIOUS
  <2> QED BY <2>1, <2>2 DEF Rows
<1> HIDE DEF row
<1>7. /\ \A w \in windows' : w.at \in Nat /\ w.last \in Nat /\ w.runs \subseteq Nat
      /\ \A u \in Threads : call[u].now \in Nat /\ call[u].last \in Nat
      /\ full \subseteq Nat /\ clock \in Nat
  BY <1>1, <1>6 DEF IInv, TypeOK, Rows, Calls
<1>8. TypeOK'
  BY <1>1, <1>3, <1>4, <1>5, <1>6 DEF IInv, TypeOK
<1>9. CallInv' /\ CrawlInv'
  BY <1>1, <1>3 DEF IInv, CallInv, CrawlInv, Newest, Threads
<1>10. WindowInv'
  BY <1>1, <1>4, <1>5 DEF IInv, WindowInv
<1>11. DateInv'
  <2>1. /\ \A w \in windows' : w.at < clock
        /\ \A w \in windows : w.at # row.at
    BY <1>1, <1>4 DEF IInv, DateInv
  <2>2. \E w \in windows' : Latest(w)'
    <3>1. CASE windows = {}
      BY <1>1, <1>7, <3>1 DEF Latest
    <3>2. CASE windows # {}
      <4>1. PICK w \in windows : Latest(w)
        BY <3>2 DEF IInv, DateInv
      <4>2. CASE w.at <= row.at
        BY <1>1, <1>7, <4>1, <4>2 DEF Latest
      <4>3. CASE row.at <= w.at
        BY <1>1, <1>7, <4>1, <4>3 DEF Latest
      <4> QED BY <1>1, <1>7, <4>2, <4>3
    <3> QED BY <3>1, <3>2
  <2>3. \A u \in Threads : Dated(u)' => u # t /\ Dated(u) /\ call'[u].now = call[u].now
    BY <1>3 DEF Dated
  <2> QED BY <1>1, <1>3, <1>4, <2>1, <2>2, <2>3 DEF IInv, DateInv, Threads
<1>12. ASSUME NEW w \in windows, w.auto
       PROVE  /\ w.at < row.at => w.last <= row.last
              /\ t = "worker" => w.last < row.last /\ w.runs \cap row.runs = {}
  <2>1. CASE t = "worker"
    <3>1. \A c \in row.runs : c > w.last
      BY <1>1, <1>4, <1>12, <2>1 DEF IInv, CrawlInv, FreshInv
    <3>2. \A c \in w.runs : c <= w.last
      BY DEF IInv, WindowInv
    <3>3. row.last \in row.runs
      BY <1>4, <1>5
    <3>4. row.runs \subseteq Nat /\ w.runs \subseteq Nat /\ w.last \in Nat
      BY <1>1, <1>7
    <3>5. w.runs \cap row.runs = {}
      BY <3>1, <3>2, <3>4
    <3> QED BY <3>1, <3>3, <3>4, <3>5
  <2>2. CASE t = "analyst"
    BY <1>1, <1>4, <1>12, <2>2 DEF IInv, AfterInv
  <2> QED BY <2>1, <2>2 DEF Threads
<1>13. ASSUME row.auto, NEW w \in windows, row.at < w.at PROVE row.last <= w.last
  BY <1>1, <1>4, <1>5, <1>13 DEF IInv, AfterInv, Reaches
<1>14. AutoDisjoint'
  BY <1>1, <1>4, <1>12 DEF IInv, AutoDisjoint
<1>15. FreshInv'
  <2> SUFFICES ASSUME call'["worker"].at # "none", NEW w \in windows', w.auto,
                      NEW c \in Newest(call'["worker"].size)
               PROVE  c > w.last
    BY <1>1 DEF FreshInv, Newest
  <2>1. t # "worker" /\ call'["worker"] = call["worker"]
    BY <1>3 DEF Threads
  <2>2. w \in windows
    BY <1>1, <1>4, <2>1
  <2> QED BY <2>1, <2>2 DEF IInv, FreshInv
<1>16. AfterInv'
  <2>1. \A v, w \in windows' : w.auto /\ w.at < v.at => w.last <= v.last
    BY <1>1, <1>7, <1>12, <1>13 DEF IInv, AfterInv
  <2>2. ASSUME call'["analyst"].at = "computed", NEW w \in windows', w.auto,
               w.at < call'["analyst"].now
        PROVE  w.last <= call'["analyst"].last
    <3>1. t = "worker" /\ call'["analyst"] = call["analyst"]
      BY <1>3, <2>2 DEF Threads
    <3>2. CASE w \in windows
      BY <2>2, <3>1, <3>2 DEF IInv, AfterInv
    <3>3. CASE w = row
      BY <1>1, <1>4, <1>5, <2>2, <3>1, <3>3 DEF IInv, AfterInv, Reaches
    <3> QED BY <1>1, <3>2, <3>3
  <2>3. Dated("worker")' /\ call'["analyst"].at = "computed" => FALSE
    BY <1>3 DEF Dated, Threads
  <2>4. ASSUME Dated("worker")', NEW w \in windows', call'["worker"].now < w.at
        PROVE  Reaches(w.last)
    <3>1. t = "analyst" /\ call'["worker"] = call["worker"] /\ Dated("worker")
      BY <1>3, <2>4 DEF Dated, Threads
    <3>2. CASE w \in windows
      BY <2>4, <3>1, <3>2 DEF IInv, AfterInv
    <3>3. CASE w = row
      BY <1>1, <1>4, <2>4, <3>1, <3>3 DEF IInv, AfterInv
    <3> QED BY <1>1, <3>2, <3>3
  <2> QED BY <1>1, <2>1, <2>2, <2>3, <2>4 DEF AfterInv, Reaches
<1> QED BY <1>8, <1>9, <1>10, <1>11, <1>14, <1>15, <1>16 DEF IInv

LEMMA Step == IInv /\ [Next]_vars => IInv'
<1> SUFFICES ASSUME IInv, [Next]_vars PROVE IInv'
  OBVIOUS
<1>1. CASE StartCrawl \/ EndWithoutWindow \/ \E n \in Sizes : Resize(n)
  BY <1>1, CrawlKeeps
<1>2. CASE RecordFull
  BY <1>2, RecordKeeps
<1>3. CASE Decide
  BY <1>3, DecideKeeps
<1>4. CASE \/ \E n \in Sizes : Ask(n)
           \/ \E t \in Threads : NothingToConsolidate(t)
           \/ Lose
  BY <1>4, ForgetKeeps
<1>5. CASE \E t \in Threads : Stamp(t)
  BY <1>5, StampKeeps
<1>6. CASE \E t \in Threads : Compute(t)
  BY <1>6, ComputeKeeps
<1>7. CASE \E t \in Threads : Store(t)
  BY <1>7, StoreKeeps
<1>8. CASE UNCHANGED vars
  BY <1>8 DEF vars, IInv, TypeOK, CallInv, CrawlInv, WindowInv, DateInv, AfterInv, FreshInv,
              AutoDisjoint, Newest, Dated, Latest, Reaches
<1> QED
  BY <1>1, <1>2, <1>3, <1>4, <1>5, <1>6, <1>7, <1>8 DEF Next, Worker, Consolidate, Threads

\* Every variable keeps its type, and a stored window ends with one of its crawls
\* (positioning.py: consolidate refuses an empty window).
THEOREM TypeCorrect == Spec => []TypeOK
<1>1. IInv => TypeOK
  BY DEF IInv
<1> QED BY Start, Step, <1>1, PTL DEF Spec

\* No crawl is consolidated by two automatic windows, with any number of crawls,
\* whatever the analyst, a restart or a new window size does in between.
THEOREM AutoDisjointAlways == Spec => []AutoDisjoint
<1>1. IInv => AutoDisjoint
  BY DEF IInv
<1> QED BY Start, Step, <1>1, PTL DEF Spec
-----------------------------------------------------------------------------
(* The latest window reaches furthest, if no handler sleeps through a crawl. *)

Prompt == "slow" \notin faults

SoonInv ==
  /\ LatestReachesFurthest
  /\ call["worker"].at = "computed" => Reaches(call["worker"].last)
  /\ call["analyst"].at = "computed" =>
       \A w \in windows :
         /\ w.at < call["analyst"].now => w.last <= call["analyst"].last
         /\ Prompt /\ call["analyst"].now < w.at => call["analyst"].last <= w.last
  /\ Prompt /\ call["analyst"].at = "stamped" =>
       \A w \in windows : call["analyst"].now < w.at => Reaches(w.last)

\* The numbers of a state are numbers.
LEMMA Numbers ==
  ASSUME TypeOK
  PROVE  /\ \A w \in windows : w.at \in Nat /\ w.last \in Nat /\ w.runs \subseteq Nat
         /\ \A t \in Threads : call[t].now \in Nat /\ call[t].last \in Nat
         /\ full \subseteq Nat /\ clock \in Nat
BY DEF TypeOK, Rows, Calls

\* A step that leaves the windows and the calls with a date alone.
LEMMA QuietSoon ==
  ASSUME IInv, SoonInv, UNCHANGED <<faults, windows>>,
         \A t \in Threads : Dated(t)' => Dated(t) /\ call'[t] = call[t],
         \/ full' = full
         \/ call["worker"].at = "none" /\ Hurried
  PROVE  SoonInv'
<1>1. LatestReachesFurthest'
  BY DEF SoonInv, LatestReachesFurthest
<1>2. call'["worker"].at = "computed" =>
        call'["worker"] = call["worker"] /\ call["worker"].at = "computed" /\ full' = full
  BY DEF Dated, Threads
<1>3. call'["analyst"].at = "computed" =>
        call'["analyst"] = call["analyst"] /\ call["analyst"].at = "computed"
  BY DEF Dated, Threads
<1>4. Prompt /\ call'["analyst"].at = "stamped" =>
        call'["analyst"] = call["analyst"] /\ call["analyst"].at = "stamped" /\ full' = full
  BY DEF Dated, Threads, Hurried, Prompt
<1> QED BY <1>1, <1>2, <1>3, <1>4 DEF SoonInv, Reaches, Prompt

LEMMA SoonStep == IInv /\ SoonInv /\ [Next]_vars => SoonInv'
<1> SUFFICES ASSUME IInv, SoonInv, [Next]_vars PROVE SoonInv'
  OBVIOUS
<1>0. /\ \A w \in windows : w.at \in Nat /\ w.last \in Nat
      /\ \A t \in Threads : call[t].now \in Nat /\ call[t].last \in Nat
      /\ full \subseteq Nat /\ clock \in Nat
  BY Numbers DEF IInv
<1>1. CASE StartCrawl \/ EndWithoutWindow \/ RecordFull \/ \E n \in Sizes : Resize(n)
  <2>1. UNCHANGED <<faults, windows, call>>
    BY <1>1 DEF StartCrawl, EndWithoutWindow, RecordFull, Resize
  <2>2. full' = full \/ (call["worker"].at = "none" /\ Hurried)
    BY <1>1 DEF StartCrawl, EndWithoutWindow, RecordFull, Resize, IInv, CrawlInv
  <2> QED BY <2>1, <2>2, QuietSoon DEF Dated
<1>2. CASE \/ Decide \/ \E n \in Sizes : Ask(n)
           \/ \E t \in Threads : NothingToConsolidate(t)
           \/ Lose
  <2>1. UNCHANGED <<faults, windows, full>>
    BY <1>2 DEF Decide, Ask, NothingToConsolidate, Lose
  <2>2. \A t \in Threads : call'[t] = call[t] \/ call'[t].at \in {"none", "called"}
    <3>1. NoCall.at = "none"
      BY DEF NoCall
    <3>2. ASSUME NEW n, NEW t \in Threads,
                 call' = [call EXCEPT ![t] = [NoCall EXCEPT !.at = "called", !.size = n]]
          PROVE  \A u \in Threads : call'[u] = call[u] \/ call'[u].at \in {"none", "called"}
      <4> DEFINE next == [NoCall EXCEPT !.at = "called", !.size = n]
      <4>1. next.at = "called"
        BY DEF NoCall
      <4> HIDE DEF next
      <4>2. call' = [call EXCEPT ![t] = next]
        BY <3>2 DEF next
      <4> QED BY <4>1, <4>2 DEF IInv, TypeOK
    <3>3. CASE Decide
      BY <3>2, <3>3 DEF Decide, Threads
    <3>4. CASE \E n \in Sizes : Ask(n)
      BY <3>2, <3>4 DEF Ask, Threads
    <3>5. CASE \E t \in Threads : NothingToConsolidate(t)
      BY <3>1, <3>5 DEF NothingToConsolidate, IInv, TypeOK
    <3>6. CASE Lose
      BY <3>1, <3>6 DEF Lose
    <3> QED BY <1>2, <3>3, <3>4, <3>5, <3>6
  <2> QED BY <2>1, <2>2, QuietSoon DEF Dated
<1>3. ASSUME NEW t \in Threads, Stamp(t) PROVE SoonInv'
  <2>1. /\ UNCHANGED <<faults, full, windows>>
        /\ call'[t].at = "stamped" /\ call'[t].now = clock
        /\ \A u \in Threads : u # t => call'[u] = call[u]
    BY <1>3 DEF Stamp, IInv, TypeOK, Calls
  <2>2. \A w \in windows : ~ (clock < w.at)
    BY <1>0 DEF IInv, DateInv
  <2> QED BY <1>0, <2>1, <2>2 DEF SoonInv, LatestReachesFurthest, Reaches, Prompt, Threads
<1>4. ASSUME NEW t \in Threads, Compute(t) PROVE SoonInv'
  <2>1. /\ UNCHANGED <<faults, full, windows>>
        /\ call[t].at = "stamped"
        /\ call'[t].now = call[t].now /\ Reaches(call'[t].last) /\ call'[t].last \in full
        /\ call'[t].at = "computed"
        /\ \A u \in Threads : u # t => call'[u] = call[u]
    BY <1>4 DEF Compute, IInv, TypeOK, Calls, Reaches
  <2>2. \A w \in windows : w.last \in full
    BY DEF IInv, TypeOK, WindowInv
  <2> QED BY <1>0, <2>1, <2>2 DEF SoonInv, LatestReachesFurthest, Reaches, Prompt, Threads
<1>5. ASSUME NEW t \in Threads, Store(t) PROVE SoonInv'
  <2> DEFINE row == [at |-> call[t].now, runs |-> call[t].runs, last |-> call[t].last,
                     auto |-> t = "worker"]
  <2>1. /\ UNCHANGED <<faults, full>>
        /\ windows' = windows \cup {row}
        /\ call[t].at = "computed" /\ Dated(t)
        /\ call' = [call EXCEPT ![t] = NoCall]
    BY <1>5 DEF Store, Dated
  <2>2. /\ row.at = call[t].now /\ row.last = call[t].last
        /\ row.last \in full /\ \A w \in windows : w.last \in full
    BY <2>1 DEF IInv, TypeOK, CallInv, WindowInv
  <2>3. call'[t].at = "none" /\ \A u \in Threads : u # t => call'[u] = call[u]
    BY <2>1 DEF IInv, TypeOK, NoCall
  <2> HIDE DEF row
  <2>4. CASE t = "worker"
    <3>1. Reaches(row.last)
      BY <2>1, <2>2, <2>4 DEF SoonInv
    <3>2. \A w \in windows : row.at < w.at => Reaches(w.last)
      BY <2>1, <2>2, <2>4 DEF IInv, AfterInv
    <3>3. LatestReachesFurthest'
      BY <1>0, <2>1, <2>2, <3>1, <3>2 DEF SoonInv, LatestReachesFurthest, Reaches
    <3>4. call["analyst"].at = "computed" =>
            /\ row.at < call["analyst"].now => row.last <= call["analyst"].last
            /\ call["analyst"].now < row.at => call["analyst"].last <= row.last
      BY <1>0, <2>1, <2>2, <2>4, <3>1 DEF IInv, AfterInv, CallInv, Reaches, Threads
    <3> QED BY <2>1, <2>3, <2>4, <3>1, <3>3, <3>4 DEF SoonInv, Reaches, Prompt, Threads
  <2>5. CASE t = "analyst"
    <3>1. LatestReachesFurthest'
      BY <1>0, <2>1, <2>2, <2>5 DEF SoonInv, LatestReachesFurthest, Prompt
    <3> QED BY <2>1, <2>3, <2>5, <3>1 DEF SoonInv, Reaches, Threads
  <2> QED BY <2>4, <2>5 DEF Threads
<1>6. CASE UNCHANGED vars
  BY <1>6 DEF vars, SoonInv, LatestReachesFurthest, Reaches, Prompt
<1> QED
  BY <1>1, <1>2, <1>3, <1>4, <1>5, <1>6 DEF Next, Worker, Consolidate, Threads

\* The latest window reaches as far as any other, with any number of crawls, as
\* long as no handler sleeps through one between its clock and its query.
THEOREM LatestReachesFurthestAlways == Spec => []LatestReachesFurthest
<1>1. Init => SoonInv
  BY DEF Init, SoonInv, LatestReachesFurthest, NoCall, Threads
<1>2. IInv /\ SoonInv /\ [Next]_vars => (IInv /\ SoonInv)'
  BY Step, SoonStep
<1>3. SoonInv => LatestReachesFurthest
  BY DEF SoonInv
<1> QED BY Start, <1>1, <1>2, <1>3, PTL DEF Spec

-----------------------------------------------------------------------------
(* No crawl is skipped. *)

Waits == {c \in full : \A w \in windows : c \notin w.runs}

\* A crawl being made began after every recorded one.
OrderInv ==
  /\ \A c \in full : c < clock
  /\ crawl.at # "none" => crawl.start < clock
  /\ crawl.at = "run" => \A c \in full : c < crawl.start

\* Nobody names or changes the size, whoever has computed a window has covered all
\* up to its end, and no more crawls wait than make a window, which is about to
\* be made when they are as many.
CoverInv ==
  /\ crawl.at # "none" => crawl.size = size
  /\ \A t \in Threads : call[t].at # "none" => call[t].size = size
  /\ \A w \in windows : \A c \in Waits : c > w.last
  /\ \A t \in Threads : call[t].at = "computed" =>
       \A c \in Waits : c > call[t].last \/ c \in call[t].runs
  /\ call["worker"].at = "computed" => Reaches(call["worker"].last)
  /\ Cardinality(Waits) <= size
  /\ crawl.at # "recorded" /\ call["worker"].at = "none" => Cardinality(Waits) < size

SkipInv == OrderInv /\ (faults \subseteq {"slow"} => CoverInv)

\* The numbers that are compared.
LEMMA SkipNumbers ==
  ASSUME TypeOK
  PROVE  /\ IsFiniteSet(Waits) /\ Cardinality(Waits) \in Nat /\ Waits \subseteq Nat
         /\ size \in Nat \ {0} /\ clock \in Nat /\ crawl.start \in Nat /\ full \subseteq Nat
         /\ \A w \in windows : w.last \in Nat
         /\ \A t \in Threads : call[t].last \in Nat
<1>1. Waits \subseteq full
  BY DEF Waits
<1>2. IsFiniteSet(Waits) /\ Cardinality(Waits) \in Nat
  BY <1>1, FS_Subset, FS_CardinalityType DEF TypeOK
<1> QED BY <1>1, <1>2, ConstantsAssumption DEF TypeOK, Crawls, Calls, Rows, ConstantsAssumption

\* Fewer crawls wait if some of them are covered.
LEMMA FewerWait ==
  ASSUME TypeOK, NEW S, S \subseteq Waits
  PROVE  Cardinality(S) <= Cardinality(Waits) /\ Cardinality(S) \in Nat
BY SkipNumbers, FS_Subset, FS_CardinalityType

\* The newest crawls, as many as a window holds, take in all that wait.
LEMMA WaitsAreNewest ==
  ASSUME IInv, CoverInv
  PROVE  Waits \subseteq Newest(size)
<1> SUFFICES ASSUME NEW c \in Waits PROVE c \in Newest(size)
  OBVIOUS
<1> DEFINE later == {d \in full : d > c}
<1>1. later \subseteq Waits \ {c}
  <2> SUFFICES ASSUME NEW d \in full, d > c PROVE d # c /\ \A w \in windows : d \notin w.runs
    BY DEF Waits
  <2>1. c \in Nat /\ d \in Nat
    BY SkipNumbers DEF IInv
  <2>2. ASSUME NEW w \in windows, d \in w.runs PROVE FALSE
    <3>1. c > w.last /\ w.last \in Nat
      BY SkipNumbers DEF CoverInv, IInv
    <3>2. d <= w.last
      BY <2>2 DEF IInv, WindowInv
    <3> QED BY <2>1, <3>1, <3>2
  <2> QED BY <2>1, <2>2
<1>2. Cardinality(Waits \ {c}) = Cardinality(Waits) - 1 /\ IsFiniteSet(Waits \ {c})
  BY SkipNumbers, FS_RemoveElement, FS_Subset DEF IInv
<1>3. Cardinality(later) <= Cardinality(Waits \ {c}) /\ Cardinality(later) \in Nat
  BY <1>1, <1>2, FS_Subset, FS_CardinalityType
<1>4. Cardinality(Waits) <= size /\ Cardinality(Waits) \in Nat /\ size \in Nat
  BY SkipNumbers DEF CoverInv, IInv
<1>5. Cardinality(later) < size
  BY <1>2, <1>3, <1>4
<1>6. c \in full
  BY DEF Waits
<1> QED BY <1>5, <1>6, Zenon DEF Newest

\* The crawls' order is kept by every step.
LEMMA OrderStep == IInv /\ OrderInv /\ [Next]_vars => OrderInv'
<1> SUFFICES ASSUME IInv, OrderInv, [Next]_vars PROVE OrderInv'
  OBVIOUS
<1>1. clock \in Nat /\ crawl.start \in Nat /\ full \subseteq Nat
  BY SkipNumbers DEF IInv
<1>2. CASE StartCrawl
  BY <1>1, <1>2 DEF StartCrawl, OrderInv
<1>3. CASE RecordFull
  <2>1. crawl.at = "run" /\ full' = full \cup {crawl.start} /\ clock' = clock /\ crawl'.at = "recorded" /\ crawl'.start = crawl.start
    BY <1>3 DEF RecordFull, IInv, TypeOK, Crawls
  <2> QED BY <1>1, <2>1 DEF OrderInv
<1>4. CASE \/ EndWithoutWindow \/ Decide \/ Lose
           \/ \E t \in Threads : Compute(t) \/ NothingToConsolidate(t) \/ Store(t)
           \/ \E n \in Sizes : Ask(n) \/ Resize(n)
  <2>1. full' = full /\ clock' = clock /\ (crawl' = crawl \/ crawl' = NoCrawl)
    BY <1>4, Zenon DEF EndWithoutWindow, Decide, Lose, Compute, NothingToConsolidate, Store, Ask, Resize
  <2>2. NoCrawl.at = "none"
    BY DEF NoCrawl
  <2> QED BY <2>1, <2>2 DEF OrderInv
<1>5. ASSUME NEW t \in Threads, Stamp(t) PROVE OrderInv'
  <2>1. full' = full /\ clock' = clock + 1 /\ crawl' = crawl
    BY <1>5 DEF Stamp
  <2> QED BY <1>1, <2>1 DEF OrderInv
<1>6. CASE UNCHANGED vars
  BY <1>6 DEF vars, OrderInv
<1> QED BY <1>2, <1>3, <1>4, <1>5, <1>6 DEF Next, Worker, Consolidate, Threads

\* The steps of the worker's crawl keep what waits within a window's size.
LEMMA CoverCrawl ==
  ASSUME IInv, OrderInv, CoverInv, StartCrawl \/ EndWithoutWindow \/ RecordFull \/ Decide
  PROVE  CoverInv'
<1>1. CASE StartCrawl \/ EndWithoutWindow
  <2>1. /\ UNCHANGED <<full, windows, call, size>> /\ call["worker"].at = "none"
        /\ crawl.at # "recorded" /\ crawl'.at # "recorded" /\ (crawl'.at # "none" => crawl'.size = size)
    BY <1>1 DEF StartCrawl, EndWithoutWindow, NoCrawl, IInv, CrawlInv
  <2>2. Waits' = Waits
    BY <2>1 DEF Waits
  <2> QED BY <2>1, <2>2 DEF CoverInv, Reaches
<1>2. CASE RecordFull
  <2>1. /\ UNCHANGED <<windows, call, size>> /\ full' = full \cup {crawl.start}
        /\ crawl.at = "run" /\ call["worker"].at = "none" /\ crawl'.at = "recorded" /\ crawl'.size = crawl.size
    BY <1>2 DEF RecordFull, IInv, CrawlInv, TypeOK, Crawls
  <2>2. Waits' = Waits \cup {crawl.start}
    <3>1. crawl.start \notin full
      BY <2>1, SkipNumbers DEF OrderInv, IInv
    <3>2. \A w \in windows : crawl.start \notin w.runs
      BY <3>1 DEF IInv, WindowInv
    <3> QED BY <2>1, <3>2 DEF Waits
  <2>3. \A w \in windows : crawl.start > w.last
    <3>1. \A w \in windows : w.last \in full
      BY DEF IInv, TypeOK, WindowInv
    <3> QED BY <2>1, <3>1, SkipNumbers DEF OrderInv, IInv
  <2>4. \A t \in Threads : call[t].at = "computed" => crawl.start > call[t].last
    <3>1. \A t \in Threads : call[t].at = "computed" => call[t].last \in full
      BY DEF IInv, CallInv
    <3> QED BY <2>1, <3>1, SkipNumbers DEF OrderInv, IInv
  <2>5. Cardinality(Waits') <= size'
    <3>1. Cardinality(Waits) < size /\ Cardinality(Waits) \in Nat /\ size \in Nat
      BY <2>1, SkipNumbers DEF CoverInv, IInv
    <3>2. IsFiniteSet(Waits)
      BY SkipNumbers DEF IInv
    <3>3. Cardinality(Waits \cup {crawl.start}) \in {Cardinality(Waits), Cardinality(Waits) + 1}
      BY <3>2, FS_AddElement, Zenon
    <3> QED BY <2>1, <2>2, <3>1, <3>3
  <2> QED BY <2>1, <2>2, <2>3, <2>4, <2>5 DEF CoverInv, Threads
<1>3. CASE Decide
  <2>1. /\ UNCHANGED <<full, windows, size>> /\ crawl.at = "recorded" /\ crawl'.at = "none"
        /\ call' = IF Due(crawl.size)
                   THEN [call EXCEPT !["worker"] = [NoCall EXCEPT !.at = "called", !.size = crawl.size]]
                   ELSE call
    BY <1>3 DEF Decide, NoCrawl
  <2>2. Waits' = Waits /\ crawl.size = size
    BY <2>1 DEF Waits, CoverInv
  <2>3. CASE Due(size)
    <3>1. /\ call'["worker"].at = "called" /\ call'["worker"].size = size
          /\ call'["analyst"] = call["analyst"]
      BY <2>1, <2>2, <2>3 DEF NoCall, IInv, TypeOK, Threads
    <3> QED BY <2>1, <2>2, <3>1 DEF CoverInv, Threads
  <2>4. CASE ~ Due(size)
    <3>1. Waits \subseteq Uncovered
      BY DEF Waits, Uncovered, CoverInv, Latest
    <3>2. Cardinality(Waits) <= Cardinality(Uncovered) /\ Cardinality(Uncovered) \in Nat
      <4>1. Uncovered \subseteq full
        BY DEF Uncovered
      <4>2. IsFiniteSet(Uncovered)
        BY <4>1, FS_Subset DEF IInv, TypeOK
      <4> QED BY <3>1, <4>2, FS_Subset, FS_CardinalityType
    <3>3. Cardinality(Waits) < size
      BY <2>4, <3>2, SkipNumbers DEF Due, IInv
    <3>4. call' = call
      BY <2>1, <2>2, <2>4
    <3> QED BY <2>1, <2>2, <3>3, <3>4 DEF CoverInv, Reaches
  <2> QED BY <2>3, <2>4
<1> QED BY <1>1, <1>2, <1>3

\* So do the steps of a consolidation, on either thread.
LEMMA CoverConsolidate ==
  ASSUME IInv, CoverInv, NEW t \in Threads, Consolidate(t)
  PROVE  CoverInv'
<1>1. CASE Stamp(t)
  <2>1. /\ UNCHANGED <<full, windows, size, crawl>> /\ call[t].at = "called"
        /\ call'[t].at = "stamped" /\ call'[t].size = call[t].size
        /\ \A u \in Threads : u # t => call'[u] = call[u]
    BY <1>1 DEF Stamp, IInv, TypeOK, Calls
  <2>2. Waits' = Waits
    BY <2>1 DEF Waits
  <2> QED BY <2>1, <2>2 DEF CoverInv, Reaches, Threads
<1>2. CASE Compute(t)
  <2>1. /\ UNCHANGED <<full, windows, size, crawl>> /\ call[t].at = "stamped" /\ Reaches(call'[t].last)
        /\ call'[t].at = "computed" /\ call'[t].size = call[t].size /\ call'[t].runs = Newest(call[t].size)
        /\ \A u \in Threads : u # t => call'[u] = call[u]
    BY <1>2 DEF Compute, IInv, TypeOK, Calls, Reaches
  <2>2. Waits' = Waits /\ call[t].size = size
    BY <2>1 DEF Waits, CoverInv
  <2>3. Waits \subseteq call'[t].runs
    BY <2>1, <2>2, WaitsAreNewest
  <2> QED BY <2>1, <2>2, <2>3 DEF CoverInv, Reaches, Threads
<1>3. CASE NothingToConsolidate(t)
  <2>1. /\ UNCHANGED <<full, windows, size, crawl>> /\ full = {} /\ call'[t].at = "none"
        /\ \A u \in Threads : u # t => call'[u] = call[u]
    BY <1>3 DEF NothingToConsolidate, NoCall, IInv, TypeOK
  <2>2. Waits = {} /\ Waits' = {}
    BY <2>1 DEF Waits
  <2>3. Cardinality(Waits') < size
    BY <2>2, SkipNumbers, FS_EmptySet DEF IInv
  <2> QED BY <2>1, <2>2, <2>3 DEF CoverInv, Reaches, Threads
<1>4. CASE Store(t)
  <2> DEFINE row == [at |-> call[t].now, runs |-> call[t].runs, last |-> call[t].last, auto |-> t = "worker"]
  <2>1. /\ UNCHANGED <<full, size, crawl>> /\ call[t].at = "computed" /\ windows' = windows \cup {row}
        /\ call'[t].at = "none" /\ \A u \in Threads : u # t => call'[u] = call[u]
    BY <1>4 DEF Store, NoCall, IInv, TypeOK
  <2>2. row.runs = call[t].runs /\ row.last = call[t].last
    OBVIOUS
  <2> HIDE DEF row
  <2>3. Waits' = Waits \ call[t].runs
    BY <2>1, <2>2 DEF Waits
  <2>4. \A w \in windows' : \A c \in Waits' : c > w.last
    BY <2>1, <2>2, <2>3 DEF CoverInv
  <2>5. Cardinality(Waits') <= Cardinality(Waits) /\ Cardinality(Waits') \in Nat
    BY <2>3, FewerWait DEF IInv
  <2>6. t = "worker" => Waits' = {}
    <3>1. ASSUME t = "worker", NEW c \in Waits, c \notin call[t].runs PROVE FALSE
      <4>1. c > call[t].last /\ c <= call[t].last
        BY <2>1, <3>1 DEF CoverInv, Reaches, Waits
      <4> QED BY <3>1, <4>1, SkipNumbers DEF IInv
    <3> QED BY <2>3, <3>1
  <2>7. t = "worker" => Cardinality(Waits') < size
    <3>1. Cardinality({}) = 0
      BY FS_EmptySet
    <3>2. 0 < size
      BY SkipNumbers DEF IInv
    <3> QED BY <2>6, <3>1, <3>2
  <2>8. Cardinality(Waits) \in Nat /\ size \in Nat
    BY SkipNumbers DEF IInv
  <2> QED BY <2>1, <2>3, <2>4, <2>5, <2>7, <2>8 DEF CoverInv, Reaches, Threads
<1> QED BY <1>1, <1>2, <1>3, <1>4 DEF Consolidate

\* Every step keeps the invariant, where nothing but a slow handler disturbs.
LEMMA SkipStep == IInv /\ SkipInv /\ [Next]_vars => SkipInv'
<1> SUFFICES ASSUME IInv, SkipInv, [Next]_vars PROVE SkipInv'
  OBVIOUS
<1>1. OrderInv'
  BY OrderStep DEF SkipInv
<1>2. faults' = faults
  BY DEF Next, Worker, StartCrawl, RecordFull, EndWithoutWindow, Decide, Consolidate, Stamp, Compute,
         NothingToConsolidate, Store, Ask, Resize, Lose, vars
<1>3. ASSUME faults \subseteq {"slow"} PROVE CoverInv'
  <2>1. CoverInv /\ OrderInv
    BY <1>3 DEF SkipInv
  <2>2. CASE Worker \/ Consolidate("analyst")
    BY <2>1, <2>2, CoverCrawl, CoverConsolidate DEF Worker, Threads
  <2>3. ASSUME NEW n \in Sizes, Ask(n) PROVE CoverInv'
    <3>1. /\ UNCHANGED <<full, windows, size, crawl>> /\ n = size
          /\ call'["analyst"].at = "called" /\ call'["analyst"].size = n /\ call'["worker"] = call["worker"]
      BY <1>3, <2>3 DEF Ask, NoCall, IInv, TypeOK, Threads
    <3>2. Waits' = Waits
      BY <3>1 DEF Waits
    <3> QED BY <2>1, <3>1, <3>2 DEF CoverInv, Reaches, Threads
  <2>4. ASSUME NEW n \in Sizes, Resize(n) PROVE FALSE
    BY <1>3, <2>4 DEF Resize
  <2>5. CASE Lose
    <3>1. /\ UNCHANGED <<full, windows, size>> /\ crawl.at # "recorded" /\ call["worker"].at = "none"
          /\ crawl'.at = "none" /\ \A t \in Threads : call'[t].at = "none"
      BY <1>3, <2>5 DEF Lose, NoCrawl, NoCall
    <3>2. Waits' = Waits
      BY <3>1 DEF Waits
    <3> QED BY <2>1, <3>1, <3>2 DEF CoverInv, Threads
  <2>6. CASE UNCHANGED vars
    BY <2>1, <2>6 DEF vars, CoverInv, Waits, Reaches
  <2> QED BY <2>2, <2>3, <2>4, <2>5, <2>6 DEF Next
<1> QED BY <1>1, <1>2, <1>3 DEF SkipInv

\* With one size and no crawl lost, each full crawl up to a window's end is in a window,
\* with any number of crawls, and with analysts and slow handlers in between.
THEOREM NoCrawlSkippedAlways == Spec => []NoCrawlSkipped
<1>1. Init => SkipInv
  <2> SUFFICES ASSUME Init PROVE SkipInv
    OBVIOUS
  <2>1. /\ full = {} /\ windows = {} /\ crawl.at = "none" /\ \A t \in Threads : call[t].at = "none"
        /\ size \in Nat \ {0}
    BY ConstantsAssumption DEF Init, NoCrawl, NoCall, ConstantsAssumption
  <2>2. Waits = {} /\ Cardinality(Waits) = 0
    BY <2>1, FS_EmptySet DEF Waits
  <2> QED BY <2>1, <2>2 DEF SkipInv, OrderInv, CoverInv, Threads
<1>2. IInv /\ SkipInv /\ [Next]_vars => (IInv /\ SkipInv)'
  BY Step, SkipStep
<1>3. IInv /\ SkipInv => NoCrawlSkipped
  <2> SUFFICES ASSUME IInv, CoverInv, NEW w \in windows, NEW c \in full, c <= w.last
               PROVE  \E v \in windows : c \in v.runs
    BY DEF SkipInv, NoCrawlSkipped
  <2>1. ~ (c > w.last)
    BY SkipNumbers DEF IInv
  <2> QED BY <2>1 DEF CoverInv, Waits
<1> QED BY Start, <1>1, <1>2, <1>3, PTL DEF Spec

-----------------------------------------------------------------------------
(* What the crawls ask: Tracking, for every set of rows, of texts and of   *)
(* markets, every policy and every size, and any number of crawls.         *)

(* The plan of a crawl. *)

\* A sum of the plan is a sum of FoldTheorems.
LEMMA PlanSum ==
  ASSUME NEW f
  PROVE  Sample!SumFunction(f) = SumFunctionOnSet(f, DOMAIN f)
BY DEF Sample!SumFunction, Sample!SumFunctionOnSet, Sample!FoldFunctionOnSet, Sample!MapThenFoldSet,
       SumFunctionOnSet, FoldFunctionOnSet, MapThenFoldSet

\* The calls of the skipped pairs are naturals, and no more than MinSamples each.
LEMMA SavedBounded ==
  ASSUME NEW Q, IsFiniteSet(Q), MinSamples \in Nat,
         \A p \in Q : Sample!Expected(p, p.base) \in 0..MinSamples
  PROVE  Sample!Sum(Q, LAMBDA p : Sample!Expected(p, p.base)) \in 0..(Cardinality(Q) * MinSamples)
<1> DEFINE f == [p \in Q |-> Sample!Expected(p, p.base)]
<1>1. Sample!Sum(Q, LAMBDA p : Sample!Expected(p, p.base)) = Sample!SumFunction(f)
  BY DEF Sample!Sum
<1>2. f \in [Q -> Int] /\ DOMAIN f = Q /\ \A p \in Q : f[p] \in 0..MinSamples
  OBVIOUS
<1> HIDE DEF f
<1>3. Sample!SumFunction(f) = SumFunctionOnSet(f, Q)
  BY <1>2, PlanSum
<1>4. SumFunctionOnSet(f, Q) \in 0..(Cardinality(Q) * MinSamples)
  BY <1>2, SumBounded
<1> QED BY <1>1, <1>3, <1>4

\* Before orders pairs with different ids.
LEMMA LastIn ==
  ASSUME NEW Q, IsFiniteSet(Q), Q # {},
         \A p \in Q : p.id \in Int /\ p.score \in Int,
         \A p, q \in Q : p.id = q.id => p = q
  PROVE  Sample!LastOf(Q) \in Q
<1> DEFINE Bf(p, q) == Sample!Before(p, q)
           Has(s) == s = {} \/ \E p \in s : \A q \in s \ {p} : Bf(q, p)
           B == {s \in SUBSET Q : ~ Has(s)}
<1>1. \A p, q \in Q : p # q => Bf(p, q) \/ Bf(q, p)
  BY DEF Sample!Before
<1>2. \A p, q, r \in Q : Bf(p, q) /\ Bf(q, r) => Bf(p, r)
  BY DEF Sample!Before
<1> HIDE DEF Bf
<1>3. ASSUME NEW s \in B, \A r \in B : r \subseteq s => r = s PROVE FALSE
  <2>1. s \in SUBSET Q /\ ~ Has(s)
    OBVIOUS
  <2>2. PICK x \in s : TRUE
    BY <2>1
  <2> DEFINE r == s \ {x}
  <2>3. r \notin B /\ r \in SUBSET Q
    <3> HIDE DEF B
    <3> QED BY <1>3, <2>1, <2>2
  <2>4. CASE r = {}
    <3>1. s = {x}
      BY <2>2, <2>4
    <3> QED BY <3>1, <2>1
  <2>5. CASE r # {}
    <3>1. PICK p \in r : \A q \in r \ {p} : Bf(q, p)
      BY <2>3, <2>5
    <3>2. CASE Bf(x, p)
      <4>1. p \in s /\ \A q \in s \ {p} : Bf(q, p)
        BY <3>1, <3>2
      <4> QED BY <4>1, <2>1
    <3>3. CASE Bf(p, x)
      <4>1. \A q \in s \ {x} : Bf(q, x)
        BY <3>1, <3>3, <2>1, <2>2, <1>2
      <4> QED BY <4>1, <2>1, <2>2
    <3>4. p \in Q /\ x \in Q /\ p # x
      BY <2>1, <2>2, <3>1
    <3> QED BY <3>2, <3>3, <3>4, <1>1
  <2> QED BY <2>4, <2>5
<1>4. B = {}
  <2>1. B \in SUBSET (SUBSET Q)
    OBVIOUS
  <2> HIDE DEF B
  <2> QED BY <1>3, <2>1, SmallestSubset
<1>5. \E p \in Q : \A q \in Q \ {p} : Bf(q, p)
  BY <1>4
<1> QED BY <1>5 DEF Sample!LastOf, Bf

\* The pairs of Q with some ids, and the extra samples of each pair.
Chosen(Q, ids) == {p \in Q : p.id \in ids}
Extras(Q) == [p \in Q |-> Sample!Extra(p)]

\* What has been granted once the pairs s of Q have been looked at.
GrantedIn(Q, s, got) ==
  /\ got.pairs \subseteq {p.id : p \in s}
  /\ got.spent = SumFunctionOnSet(Extras(Q), Chosen(Q, got.pairs))
  /\ \A p \in Chosen(Q, got.pairs) : Sample!Extra(p) > 0

\* One more pair.
LEMMA GrantOne ==
  ASSUME NEW Q, IsFiniteSet(Q), NEW budget \in Nat, VolatileBoost \in Nat, MaxSamples \in Nat,
         \A p \in Q : p.id \in Int /\ p.score \in Int /\ p.base \in Nat,
         \A p, q \in Q : p.id = q.id => p = q,
         NEW s \in SUBSET Q, NEW x \in s,
         NEW got \in [spent : 0..budget, pairs : SUBSET {p.id : p \in Q}], GrantedIn(Q, s \ {x}, got)
  PROVE  /\ Sample!Grant(budget, got, x) \in [spent : 0..budget, pairs : SUBSET {p.id : p \in Q}]
         /\ GrantedIn(Q, s, Sample!Grant(budget, got, x))
<1> DEFINE e == Sample!Extra(x)
           more == [spent |-> got.spent + e, pairs |-> got.pairs \cup {x.id}]
<1>1. x \in Q /\ e \in Int /\ Extras(Q) \in [Q -> Int] /\ Extras(Q)[x] = e
  BY DEF Extras, Sample!Extra, Sample!Lower
<1>2. CASE Sample!Grant(budget, got, x) = got
  BY <1>2 DEF GrantedIn
<1>3. CASE Sample!Grant(budget, got, x) = more /\ e > 0 /\ got.spent + e <= budget
  <2>1. got.spent \in 0..budget /\ got.pairs \subseteq {p.id : p \in s \ {x}}
    BY DEF GrantedIn
  <2>2. more.spent \in 0..budget /\ more.pairs \subseteq {p.id : p \in s} /\ more.pairs \subseteq {p.id : p \in Q}
    BY <1>1, <1>3, <2>1
  <2>3. x.id \notin got.pairs
    BY <1>1, <2>1
  <2>4. Chosen(Q, more.pairs) = Chosen(Q, got.pairs) \cup {x} /\ x \in Q \ Chosen(Q, got.pairs)
    BY <1>1, <2>3 DEF Chosen
  <2>5. Chosen(Q, got.pairs) \in SUBSET Q
    BY DEF Chosen
  <2>6. SumFunctionOnSet(Extras(Q), Chosen(Q, got.pairs) \cup {x})
          = SumFunctionOnSet(Extras(Q), Chosen(Q, got.pairs)) + Extras(Q)[x]
    BY <1>1, <2>4, <2>5, SumAdds
  <2>7. more.spent = SumFunctionOnSet(Extras(Q), Chosen(Q, more.pairs))
    BY <1>1, <2>4, <2>6 DEF GrantedIn
  <2>8. \A p \in Chosen(Q, more.pairs) : Sample!Extra(p) > 0
    BY <1>3, <2>4 DEF GrantedIn
  <2>9. more \in [spent : 0..budget, pairs : SUBSET {p.id : p \in Q}]
    BY <2>2
  <2> HIDE DEF more
  <2> QED BY <1>3, <2>2, <2>7, <2>8, <2>9 DEF GrantedIn
<1>4. Sample!Grant(budget, got, x) = got
      \/ (Sample!Grant(budget, got, x) = more /\ e > 0 /\ got.spent + e <= budget)
  BY <1>1 DEF Sample!Grant
<1> HIDE DEF more, e
<1> QED BY <1>2, <1>3, <1>4

\* The extra samples that are granted cost no more than the budget, and what is
\* spent is what the chosen pairs get.
LEMMA BoostsGranted ==
  ASSUME NEW Q, IsFiniteSet(Q), NEW budget \in Nat, VolatileBoost \in Nat, MaxSamples \in Nat,
         \A p \in Q : p.id \in Int /\ p.score \in Int /\ p.base \in Nat,
         \A p, q \in Q : p.id = q.id => p = q
  PROVE  Sample!Boosts(Q, budget).spent \in 0..budget /\ GrantedIn(Q, Q, Sample!Boosts(Q, budget))
<1> DEFINE last(s) == Sample!LastOf(s)
           start == [spent |-> 0, pairs |-> {}]
           Solves(t) == t = [s \in SUBSET Q |-> IF s = {} THEN start
                               ELSE Sample!Grant(budget, t[s \ {last(s)}], last(s))]
           pick == [s \in (SUBSET Q) \ {{}} |-> last(s)]
           Out == [spent : 0..budget, pairs : SUBSET {p.id : p \in Q}]
           V == [s \in SUBSET Q |-> {v \in Out : GrantedIn(Q, s, v)}]
           step == [s \in (SUBSET Q) \ {{}} |-> [v \in Out |-> Sample!Grant(budget, v, last(s))]]
<1>1. \A s \in (SUBSET Q) \ {{}} : last(s) \in s
  BY FS_Subset, LastIn
<1> HIDE DEF last
<1>2. \A s \in (SUBSET Q) \ {{}} :
        pick[s] = last(s) /\ \A v \in Out : step[s][v] = Sample!Grant(budget, v, last(s))
  OBVIOUS
<1>3. Picks(Q, pick)
  BY <1>1, <1>2 DEF Picks
<1>4. ASSUME NEW s \in (SUBSET Q) \ {{}}, NEW v \in Out, GrantedIn(Q, s \ {last(s)}, v)
      PROVE  Sample!Grant(budget, v, last(s)) \in Out /\ GrantedIn(Q, s, Sample!Grant(budget, v, last(s)))
  BY <1>1, <1>4, GrantOne
<1>5. start \in Out /\ GrantedIn(Q, {}, start)
  <2>1. start \in Out /\ start.pairs = {} /\ start.spent = 0
    OBVIOUS
  <2>2. Chosen(Q, {}) = {}
    BY DEF Chosen
  <2> HIDE DEF start
  <2>3. SumFunctionOnSet(Extras(Q), {}) = 0
    BY SumEmpty
  <2> QED BY <2>1, <2>2, <2>3 DEF GrantedIn
<1>6. \A s \in SUBSET Q : s \ {pick[s]} \in SUBSET Q /\ \A v : v \in V[s] <=> (v \in Out /\ GrantedIn(Q, s, v))
  OBVIOUS
<1> HIDE DEF Out, start, step, V, pick
<1>7. Stays(Q, pick, start, step, V)
  <2>1. start \in V[{}]
    BY <1>5, <1>6
  <2>2. ASSUME NEW s \in (SUBSET Q) \ {{}}, NEW v \in V[s \ {pick[s]}] PROVE step[s][v] \in V[s]
    <3>1. v \in Out /\ GrantedIn(Q, s \ {last(s)}, v) /\ step[s][v] = Sample!Grant(budget, v, last(s))
      BY <1>2, <1>6
    <3> QED BY <1>4, <1>6, <3>1
  <2> QED BY <2>1, <2>2 DEF Stays
<1>8. ASSUME NEW t PROVE /\ IsFold(Q, pick, start, step, t) => FoldsIn(Q, pick, start, step, V, t)
                         /\ Solves(t) => FoldsIn(Q, pick, start, step, V, t)
  <2>1. ASSUME Solves(t), NEW s \in (SUBSET Q) \ {{}}, t[s \ {pick[s]}] \in V[s \ {pick[s]}]
        PROVE  t[s] = step[s][t[s \ {pick[s]}]]
    <3>1. t[s] = Sample!Grant(budget, t[s \ {last(s)}], last(s))
      BY <2>1
    <3> HIDE DEF Solves
    <3> QED BY <3>1, <1>2, <1>6, <2>1
  <2>2. Solves(t) => t[{}] = start
    OBVIOUS
  <2>3. Solves(t) => FoldsIn(Q, pick, start, step, V, t)
    <3> HIDE DEF Solves
    <3> QED BY <2>1, <2>2 DEF FoldsIn
  <2>4. IsFold(Q, pick, start, step, t) => FoldsIn(Q, pick, start, step, V, t)
    BY DEF IsFold, FoldsIn
  <2> QED BY <2>3, <2>4
<1>9. \E t : Solves(t)
  <2>1. PICK t : IsFold(Q, pick, start, step, t)
    BY <1>3, FoldExists
  <2>2. \A s \in SUBSET Q : t[s] \in V[s]
    BY <1>3, <1>7, <1>8, <2>1, FoldStays
  <2>3. \A s \in (SUBSET Q) \ {{}} :
          step[s][t[s \ {pick[s]}]] = Sample!Grant(budget, t[s \ {last(s)}], last(s))
    BY <2>2, <1>2, <1>6
  <2>4. Solves(t)
    BY <2>1, <2>3 DEF IsFold
  <2> QED BY <2>4
<1> DEFINE u == CHOOSE t : Solves(t)
<1>10. Solves(u)
  <2> HIDE DEF Solves
  <2> QED BY <1>9
<1>11. Sample!Boosts(Q, budget) = u[Q]
  BY DEF Sample!Boosts, Sample!MapThenFoldSet, start, last
<1> HIDE DEF u, Solves
<1>12. u[Q] \in V[Q]
  BY <1>3, <1>7, <1>8, <1>10, FoldStays
<1>13. u[Q] \in Out /\ GrantedIn(Q, Q, u[Q])
  BY <1>6, <1>12
<1> QED BY <1>11, <1>13 DEF Out

\* The balance of a list of crawls is the last of its partial sums.
LEMMA BalanceIs ==
  ASSUME NEW c, Len(c) \in Nat, NEW s \in [0..Len(c) -> Int], s[0] = 0,
         \A i \in 1..Len(c) : s[i] = s[i - 1] + (c[i][1] - c[i][2])
  PROVE  Sample!Balance(c)[Len(c)] = s[Len(c)]
<1> DEFINE n == Len(c)
           Solves(t) == t = [m \in 0..n |-> IF m = 0 THEN 0 ELSE t[m - 1] + (c[m][1] - c[m][2])]
<1>1. Solves(s)
  OBVIOUS
<1> DEFINE u == CHOOSE t : Solves(t)
<1>2. Solves(u)
  <2> HIDE DEF Solves
  <2> QED BY <1>1
<1>3. Sample!Balance(c)[n] = u[n]
  BY DEF Sample!Balance
<1> HIDE DEF u
<1>4. u[0] = 0 /\ \A i \in 1..n : u[i] = u[i - 1] + (c[i][1] - c[i][2])
  BY <1>2
<1> HIDE DEF Solves
<1> DEFINE B == {m \in 0..n : u[m] # s[m]}
<1>5. B \subseteq Nat
  OBVIOUS
<1>6. ASSUME NEW m \in B, \A k \in B : m <= k PROVE FALSE
  <2>1. m \in 1..n /\ u[m] # s[m]
    BY <1>4
  <2>2. m - 1 \in 0..n /\ m - 1 \notin B
    <3> HIDE DEF B
    <3> QED BY <1>6, <2>1
  <2> QED BY <2>1, <2>2, <1>4
<1>7. B = {}
  <2> HIDE DEF B
  <2> QED BY <1>5, <1>6, LeastOf
<1> QED BY <1>3, <1>7

\* A pair in a plan, as the sampling policy sees it.
Sampled(p) ==
  p.id \in Int /\ p.score \in Int /\ p.base \in Nat /\ p.age \in Nat /\ p.interval \in Nat

\* No two pairs have one id.
Apart(pairs) == \A p, q \in pairs : p.id = q.id => p = q

\* How far the policy stretches a pair, and the pairs it skips, boosts and asks.
Stretch(p, policy, request, runs) == Sample!Multiplier(p, Sample!Adaptive(policy, request), runs)
SkippedOf(pairs, policy, request, runs) == {p \in pairs : Sample!Skipped(p, Stretch(p, policy, request, runs))}
DueOf(pairs, policy, request, runs) == {p \in pairs : Sample!Due(p, Stretch(p, policy, request, runs))}
EligibleOf(pairs, policy, request, runs) ==
  {p \in pairs : Sample!Adaptive(policy, request) /\ Sample!Eligible(p, policy, Stretch(p, policy, request, runs))}
AtBase(Q) == [p \in Q |-> Sample!Expected(p, p.base)]

\* A pair is stretched by no more than the consolidation window, and not at all
\* unless it is stable.
LEMMA StretchIs ==
  ASSUME NEW p, NEW policy, NEW request, NEW runs \in Nat, runs >= 1, StretchMax \in Nat
  PROVE  /\ Stretch(p, policy, request, runs) \in 1..runs
         /\ p.state # "stable" => Stretch(p, policy, request, runs) = 1
<1>1. Sample!Tier(p) \in {2, 3}
  BY DEF Sample!Tier
<1> QED BY <1>1 DEF Stretch, Sample!Multiplier, Sample!Higher, Sample!Lower

\* Due at a longer interval is due at a shorter one.
LEMMA Longer ==
  ASSUME NEW i \in Nat, NEW k \in Nat, NEW m \in Nat, k <= m
  PROVE  i * k \in Nat /\ i * m \in Nat /\ i * k <= i * m
  OBVIOUS

\* What a plan saves it saves on stable pairs, and it boosts for no more than it
\* saves and carries.
LEMMA PlanAffordable ==
  ASSUME NEW pairs, IsFiniteSet(pairs), Apart(pairs), \A p \in pairs : Sampled(p),
         NEW policy, NEW request, NEW runs, NEW recorded, Sample!Carry(recorded) \in Nat,
         VolatileBoost \in Nat, MaxSamples \in Nat, MinSamples \in Nat
  PROVE  LET plan == Sample!Plan(pairs, policy, request, runs, recorded)
             Q == EligibleOf(pairs, policy, request, runs)
         IN  /\ plan.saved \in 0..(Cardinality(pairs) * MinSamples)
             /\ plan.carry \in 0..Sample!Carry(recorded)
             /\ plan.boosted \in 0..(plan.saved + plan.carry)
             /\ plan.boosted = Sample!Boosts(Q, plan.saved + plan.carry).spent
             /\ GrantedIn(Q, Q, Sample!Boosts(Q, plan.saved + plan.carry))
<1> DEFINE adaptive == Sample!Adaptive(policy, request)
           skipped == SkippedOf(pairs, policy, request, runs)
           saved == Sample!Sum(skipped, LAMBDA p : Sample!Expected(p, p.base))
           carry == IF adaptive /\ policy = "reallocate" THEN Sample!Carry(recorded) ELSE 0
           boosted == EligibleOf(pairs, policy, request, runs)
           plan == Sample!Plan(pairs, policy, request, runs, recorded)
<1>1. plan.saved = saved /\ plan.carry = carry /\ plan.boosted = Sample!Boosts(boosted, saved + carry).spent
  BY DEF Sample!Plan, Stretch, SkippedOf, EligibleOf
<1>2. ASSUME NEW p \in skipped PROVE Sample!Expected(p, p.base) \in 0..MinSamples
  <2>1. p \in pairs /\ Sampled(p) /\ Stretch(p, policy, request, runs) # 1
    <3>1. p \in pairs /\ Sampled(p) /\ Sample!Skipped(p, Stretch(p, policy, request, runs))
      BY DEF SkippedOf
    <3>2. p.interval * 1 = p.interval
      BY <3>1 DEF Sampled
    <3> QED BY <3>1, <3>2 DEF Sample!Skipped, Sample!BaseDue, Sample!Due
  <2>2. p.state = "stable"
    BY <2>1 DEF Stretch, Sample!Multiplier
  <2> QED BY <2>1, <2>2 DEF Sample!Expected, Sample!Lower, Sampled
<1>3. IsFiniteSet(skipped) /\ Cardinality(skipped) <= Cardinality(pairs) /\ IsFiniteSet(boosted)
  BY FS_Subset DEF SkippedOf, EligibleOf
<1>4. Cardinality(skipped) \in Nat /\ Cardinality(pairs) \in Nat
  BY <1>3, FS_CardinalityType
<1>5. saved \in 0..(Cardinality(skipped) * MinSamples)
  <2> HIDE DEF skipped
  <2> QED BY <1>2, <1>3, SavedBounded
<1>6. saved \in Nat /\ saved \in 0..(Cardinality(pairs) * MinSamples)
  <2>1. ASSUME NEW a \in Nat, NEW b \in Nat, a <= b
        PROVE  a * MinSamples \in Nat /\ b * MinSamples \in Nat /\ a * MinSamples <= b * MinSamples
    BY <2>1
  <2> HIDE DEF saved, skipped
  <2> QED BY <1>3, <1>4, <1>5, <2>1
<1>7. carry \in 0..Sample!Carry(recorded)
  OBVIOUS
<1>8. /\ Sample!Boosts(boosted, saved + carry).spent \in 0..(saved + carry)
      /\ GrantedIn(boosted, boosted, Sample!Boosts(boosted, saved + carry))
  <2>1. \A p \in boosted : p.id \in Int /\ p.score \in Int /\ p.base \in Nat
    BY DEF Sampled, EligibleOf
  <2>2. \A p, q \in boosted : p.id = q.id => p = q
    BY DEF Apart, EligibleOf
  <2>3. saved + carry \in Nat
    BY <1>6, <1>7
  <2> HIDE DEF boosted, saved, carry
  <2> QED BY <1>3, <2>1, <2>2, <2>3, BoostsGranted
<1> HIDE DEF saved, carry, boosted, plan, skipped
<1>9. /\ plan.saved \in 0..(Cardinality(pairs) * MinSamples) /\ plan.carry \in 0..Sample!Carry(recorded)
      /\ plan.boosted \in 0..(plan.saved + plan.carry)
      /\ plan.boosted = Sample!Boosts(boosted, plan.saved + plan.carry).spent
      /\ GrantedIn(boosted, boosted, Sample!Boosts(boosted, plan.saved + plan.carry))
  BY <1>1, <1>6, <1>7, <1>8
<1> QED BY <1>9 DEF plan, boosted

(* The invariant. *)

\* What one crawl can save, and how many crawls a carry looks back on.
Allowed == Cardinality(RowIds) * MinSamples
KeptCrawls == StretchMax - 1

\* The partial sums of the first n of some integers.
Sums(s, n, g) ==
  s \in [0..n -> Int] /\ s[0] = 0 /\ \A i \in 1..n : g[i] \in Int /\ s[i] = s[i - 1] + g[i]

\* What each crawl of a list saved and did not spend; what the newest left over.
Spared(c) == [i \in 1..Len(c) |-> c[i][1] - c[i][2]]
LeftOver(c, s) == Sums(s, Sample!Lower(Len(c), KeptCrawls), Spared(c))

\* The net is at least what the newest crawls left over, however few of them are
\* counted: an old crawl that overspent may drop out of the carry, but what came
\* after it was granted against the net it left.
NetInv ==
  /\ net \in 0..MaxNet /\ crawls \in Seq(Nat \X Nat)
  /\ \E s : /\ LeftOver(crawls, s)
            /\ \A i \in 0..Sample!Lower(Len(crawls), KeptCrawls) : s[i] <= net /\ s[i] <= i * Allowed

\* A crawl in progress boosts for no more than it saves and carries.
AskingInv ==
  asking # None => /\ asking.locale \in Locales
                   /\ asking.saved \in 0..Allowed
                   /\ asking.boosted \in 0..(asking.saved + Sample!Carry(crawls))

\* What is stored, and what is being asked, is of the project's market.
MarketInv == moved \/ (markets \subseteq {locale} /\ (asking # None => asking.locale = locale))

TrackInv == TrackTypeOK /\ MarketInv /\ NetInv /\ AskingInv

\* What the assumptions on the constants come to.
LEMMA TrackedSizes ==
  ASSUME TrackingAssumption, NetAssumption
  PROVE  /\ StretchMax \in Nat /\ KeptCrawls \in Nat /\ MinSamples \in Nat /\ MaxSamples \in Nat
         /\ VolatileBoost \in Nat /\ MaxNet \in Nat /\ Base \in Nat /\ MaxLosses \in Nat /\ MaxEdits \in Nat
         /\ RowIds \subseteq Nat /\ IsFiniteSet(RowIds) /\ Cardinality(RowIds) \in Nat
         /\ Allowed \in Nat /\ KeptCrawls * Allowed <= MaxNet
<1>1. IsFiniteSet(RowIds) /\ Cardinality(RowIds) \in Nat /\ RowIds \subseteq Nat
  BY FS_CardinalityType DEF TrackingAssumption
<1>2. /\ MaxLosses \in Nat /\ MaxEdits \in Nat /\ StretchMax \in Nat /\ KeptCrawls \in Nat
      /\ MinSamples \in Nat /\ MaxSamples \in Nat /\ VolatileBoost \in Nat /\ Base \in Nat
  BY DEF TrackingAssumption, KeptCrawls
<1>3. Allowed \in Nat
  BY <1>1, <1>2 DEF Allowed
<1>4. MaxNet \in Nat /\ KeptCrawls * Allowed <= MaxNet
  BY DEF NetAssumption, KeptCrawls, Allowed
<1> QED BY <1>1, <1>2, <1>3, <1>4

\* The carry is the last partial sum, if that is positive.
LEMMA CarryIs ==
  ASSUME NEW c \in Seq(Nat \X Nat), KeptCrawls \in Nat, StretchMax \in Nat, NEW s, LeftOver(c, s)
  PROVE  Sample!Carry(c) = Sample!Higher(0, s[Sample!Lower(Len(c), KeptCrawls)])
<1> DEFINE n == Sample!Lower(Len(c), KeptCrawls)
           r == Sample!Recent(c)
<1>1. n \in Nat /\ n <= Len(c) /\ Len(c) \in Nat
  BY DEF Sample!Lower
<1>2. r = SubSeq(c, 1, n) /\ Len(r) = n /\ \A i \in 1..n : r[i] = c[i]
  <2>1. r = SubSeq(c, 1, n)
    BY DEF Sample!Recent, KeptCrawls
  <2> HIDE DEF n, r
  <2> QED BY <2>1, <1>1
<1>3. Sums(s, n, Spared(c))
  BY DEF LeftOver
<1> HIDE DEF n, r
<1>4. s \in [0..Len(r) -> Int] /\ s[0] = 0 /\ \A i \in 1..Len(r) : s[i] = s[i - 1] + (r[i][1] - r[i][2])
  <2>1. \A i \in 1..n : Spared(c)[i] = c[i][1] - c[i][2] /\ c[i] = r[i]
    BY <1>1, <1>2 DEF Spared
  <2>2. \A i \in 1..n : Spared(c)[i] = r[i][1] - r[i][2]
    BY <2>1
  <2>3. s \in [0..n -> Int] /\ s[0] = 0 /\ \A i \in 1..n : s[i] = s[i - 1] + Spared(c)[i]
    BY <1>3 DEF Sums
  <2> QED BY <1>2, <2>2, <2>3
<1>5. Sample!Balance(r)[Len(r)] = s[Len(r)]
  BY <1>1, <1>2, <1>4, BalanceIs
<1> QED BY <1>2, <1>5 DEF Sample!Carry, n, r

\* What a crawl may carry was saved and not spent.
LEMMA CarryCovered ==
  ASSUME TrackingAssumption, NetAssumption, NetInv
  PROVE  Sample!Carry(crawls) \in 0..net
<1>1. PICK s : /\ LeftOver(crawls, s)
               /\ \A i \in 0..Sample!Lower(Len(crawls), KeptCrawls) : s[i] <= net /\ s[i] <= i * Allowed
  BY DEF NetInv
<1> DEFINE n == Sample!Lower(Len(crawls), KeptCrawls)
<1>2. n \in Nat /\ crawls \in Seq(Nat \X Nat) /\ net \in Nat
  BY TrackedSizes DEF NetInv, Sample!Lower
<1>3. s[n] \in Int /\ s[n] <= net
  BY <1>1, <1>2 DEF LeftOver, Sums
<1>4. Sample!Carry(crawls) = Sample!Higher(0, s[n])
  BY <1>1, <1>2, CarryIs, TrackedSizes
<1> QED BY <1>2, <1>3, <1>4 DEF Sample!Higher

\* A crawl plans with the rows of the project, of which it has one pair each.
LEMMA PairsOf ==
  ASSUME TrackingAssumption, NetAssumption, NEW tracked \in SUBSET RowIds,
         \A r \in tracked : history[prompts[r].id] # None => history[prompts[r].id].age \in Nat
  PROVE  LET pairs == {Pair(r) : r \in tracked}
         IN  /\ IsFiniteSet(pairs) /\ Cardinality(pairs) \in Nat /\ Cardinality(pairs) <= Cardinality(RowIds)
             /\ Apart(pairs) /\ \A p \in pairs : Sampled(p)
<1> DEFINE pairs == {Pair(r) : r \in tracked}
           f == [r \in tracked |-> Pair(r)]
<1>1. \A r \in tracked : Pair(r).id = r /\ Sampled(Pair(r))
  BY TrackedSizes DEF Pair, Sampled, Old
<1>2. Apart(pairs) /\ \A p \in pairs : Sampled(p)
  BY <1>1 DEF Apart
<1>3. IsFiniteSet(tracked) /\ Cardinality(tracked) <= Cardinality(RowIds) /\ Cardinality(tracked) \in Nat
  BY TrackedSizes, FS_Subset, FS_CardinalityType
<1>4. f \in Surjection(tracked, pairs)
  BY DEF Surjection
<1>5. IsFiniteSet(pairs) /\ Cardinality(pairs) <= Cardinality(tracked)
  BY <1>3, <1>4, FS_Surjection
<1> QED BY <1>2, <1>3, <1>5, TrackedSizes, FS_CardinalityType

\* A crawl is planned within the carry, in the market the project has.
LEMMA BeginAffords ==
  ASSUME TrackingAssumption, NetAssumption, TrackTypeOK, NetInv, NEW request, NEW rows, Begin(request, rows)
  PROVE  AskingInv'
<1> DEFINE pairs == {Pair(r) : r \in Tracked}
<1>1. /\ asking'.locale = locale /\ crawls' = crawls
      /\ asking'.saved = Planned(request).saved /\ asking'.boosted = Planned(request).boosted
  BY DEF Begin
<1>2. \A r \in Tracked : history[prompts[r].id] # None => history[prompts[r].id].age \in Nat
  <2>1. \A r \in Tracked : prompts[r].id \in Texts
    BY DEF Tracked, TrackTypeOK
  <2>2. \A t \in Texts : history[t] # None => history[t].age \in 0..Old
    BY DEF TrackTypeOK
  <2> QED BY <2>1, <2>2, TrackedSizes DEF Old
<1>3. Tracked \subseteq RowIds
  BY DEF Tracked
<1>4. /\ IsFiniteSet(pairs) /\ Cardinality(pairs) \in Nat /\ Cardinality(pairs) <= Cardinality(RowIds)
      /\ Apart(pairs) /\ \A p \in pairs : Sampled(p)
  BY <1>2, <1>3, PairsOf
<1>5. Sample!Carry(crawls) \in Nat
  <2>1. Sample!Carry(crawls) \in 0..net
    BY CarryCovered
  <2>2. net \in 0..MaxNet /\ MaxNet \in Nat
    BY TrackedSizes DEF NetInv
  <2> QED BY <2>1, <2>2
<1> HIDE DEF pairs
<1> DEFINE plan == Sample!Plan(pairs, Policy, request, Runs, crawls)
<1>6. plan.saved \in 0..(Cardinality(pairs) * MinSamples) /\ plan.boosted \in 0..(plan.saved + Sample!Carry(crawls))
  <2>1. /\ plan.saved \in 0..(Cardinality(pairs) * MinSamples)
        /\ plan.carry \in 0..Sample!Carry(crawls) /\ plan.boosted \in 0..(plan.saved + plan.carry)
    BY <1>4, <1>5, TrackedSizes, PlanAffordable
  <2>2. plan.saved \in Int
    BY <2>1
  <2> HIDE DEF plan
  <2> QED BY <1>5, <2>1, <2>2
<1>7. Planned(request) = Sample!Plan(pairs, Policy, request, Runs, crawls)
  BY DEF Planned, pairs
<1>8. Cardinality(pairs) * MinSamples \in Nat /\ Cardinality(pairs) * MinSamples <= Allowed
  <2>1. ASSUME NEW a \in Nat, NEW b \in Nat, NEW w \in Nat, a <= b PROVE a * w \in Nat /\ a * w <= b * w
    BY <2>1
  <2> QED BY <1>4, TrackedSizes, <2>1 DEF Allowed
<1>9. asking'.saved \in 0..Allowed /\ asking'.boosted \in 0..(asking'.saved + Sample!Carry(crawls))
  BY <1>1, <1>6, <1>7, <1>8, TrackedSizes
<1>10. Sample!Carry(crawls)' = Sample!Carry(crawls)
  BY <1>1
<1> QED BY <1>1, <1>9, <1>10 DEF AskingInv, TrackTypeOK

(* The figures of any plan. *)

\* Any list of recorded crawls has a carry.
LEMMA CarryNatural ==
  ASSUME NEW c \in Seq(Nat \X Nat), StretchMax \in Nat \ {0}
  PROVE  Sample!Carry(c) \in Nat
<1> DEFINE n == Sample!Lower(Len(c), KeptCrawls)
           g == Spared(c)
           s == [m \in 0..n |-> SumFunctionOnSet(g, 1..m)]
<1>1. n \in Nat /\ n <= Len(c) /\ KeptCrawls \in Nat /\ Len(c) \in Nat
  BY DEF KeptCrawls, Sample!Lower
<1>2. g \in [1..Len(c) -> Int]
  BY DEF Spared
<1> HIDE DEF g, n
<1>3. IsFiniteSet(1..Len(c))
  BY <1>1, FS_Interval
<1>4. AddsUp(1..Len(c), g)
  BY <1>2, <1>3, SumsAddUp
<1>5. s \in [0..n -> Int]
  <2>1. \A m \in 0..n : 1..m \in SUBSET (1..Len(c))
    BY <1>1
  <2> QED BY <1>4, <2>1 DEF AddsUp
<1>6. s[0] = 0
  <2>1. 1..0 = {} /\ s[0] = SumFunctionOnSet(g, 1..0)
    BY <1>1
  <2> HIDE DEF s
  <2> QED BY <2>1, SumEmpty
<1>7. ASSUME NEW i \in 1..n PROVE g[i] \in Int /\ s[i] = s[i - 1] + g[i]
  <2>1. i \in 1..Len(c) /\ 1..(i - 1) \in SUBSET (1..Len(c)) /\ i \in (1..Len(c)) \ (1..(i - 1))
    BY <1>1
  <2>2. (1..(i - 1)) \cup {i} = 1..i
    BY <2>1
  <2>3. SumFunctionOnSet(g, (1..(i - 1)) \cup {i}) = SumFunctionOnSet(g, 1..(i - 1)) + g[i]
    BY <1>4, <2>1 DEF AddsUp
  <2>4. s[i] = SumFunctionOnSet(g, 1..i) /\ s[i - 1] = SumFunctionOnSet(g, 1..(i - 1))
    BY <1>1
  <2> HIDE DEF s
  <2> QED BY <1>2, <2>1, <2>2, <2>3, <2>4
<1> HIDE DEF s
<1>8. LeftOver(c, s)
  BY <1>5, <1>6, <1>7 DEF LeftOver, Sums, n, g
<1>9. Sample!Carry(c) = Sample!Higher(0, s[n])
  BY <1>1, <1>8, CarryIs DEF n
<1>10. s[n] \in Int
  BY <1>1, <1>5
<1> QED BY <1>9, <1>10 DEF Sample!Higher

\* What is asked beyond the base rate is what the boosts spend: no boosted pair is
\* skipped, or stops early as a stable one does.
LEMMA BoostedDue ==
  ASSUME NEW Q, NEW D, IsFiniteSet(D), Q \subseteq D, Apart(D), \A p \in D : Sampled(p),
         \A p \in Q : p.state # "stable", MinSamples \in Nat, VolatileBoost \in Nat, MaxSamples \in Nat,
         NEW got, GrantedIn(Q, Q, got)
  PROVE  SumFunctionOnSet([p \in D |-> Sample!Expected(p, IF p.id \in got.pairs THEN p.base + Sample!Extra(p) ELSE p.base)], D)
           = SumFunctionOnSet(AtBase(D), D) + got.spent
<1> DEFINE C == Chosen(Q, got.pairs)
           h == [p \in D |-> IF p \in C THEN Sample!Extra(p) ELSE 0]
           f == [p \in D |-> Sample!Expected(p, IF p.id \in got.pairs THEN p.base + Sample!Extra(p) ELSE p.base)]
           x == Extras(Q)
<1>1. C \in SUBSET Q /\ C \in SUBSET D /\ IsFiniteSet(Q) /\ IsFiniteSet(D \ C)
  BY FS_Subset DEF Chosen
<1>2. \A p \in D : Sample!Extra(p) \in Int /\ p.base \in Nat
  BY DEF Sampled, Sample!Extra, Sample!Lower
<1>3. h \in [D -> Int] /\ f \in [D -> Int] /\ AtBase(D) \in [D -> Int] /\ x \in [Q -> Int]
  BY <1>2 DEF AtBase, Extras, Sample!Expected, Sample!Lower
<1>4. ASSUME NEW p \in D PROVE f[p] = AtBase(D)[p] + h[p]
  <2>1. p.id \in got.pairs <=> p \in C
    <3>1. ASSUME p.id \in got.pairs PROVE p \in C
      <4>1. PICK q \in Q : p.id = q.id
        BY <3>1 DEF GrantedIn
      <4> QED BY <3>1, <4>1 DEF Apart, Chosen
    <3> QED BY <3>1 DEF Chosen
  <2>2. CASE p \in C
    <3>1. f[p] = p.base + Sample!Extra(p) /\ h[p] = Sample!Extra(p) /\ AtBase(D)[p] = p.base
      BY <1>1, <2>1, <2>2 DEF AtBase, Sample!Expected
    <3> QED BY <3>1
  <2>3. CASE p \notin C
    <3>1. f[p] = AtBase(D)[p] /\ h[p] = 0
      BY <2>1, <2>3 DEF AtBase
    <3> HIDE DEF f, h
    <3> QED BY <1>3, <3>1
  <2> QED BY <2>2, <2>3
<1>5. \A p \in C : h[p] = x[p]
  BY <1>1 DEF Extras
<1>6. \A p \in D \ C : h[p] = 0
  OBVIOUS
<1> HIDE DEF h, x
<1>7. SumFunctionOnSet(h, C) = SumFunctionOnSet(x, C)
  <2> HIDE DEF C, f
  <2> QED BY <1>1, <1>3, <1>5, SumAgrees
<1>8. SumFunctionOnSet(h, D \ C) = 0
  <2> DEFINE R == D \ C
             z == [p \in R |-> 0]
  <2>1. z \in [R -> Int] /\ R \in SUBSET D /\ R \in SUBSET R /\ \A p \in R : h[p] = z[p] /\ z[p] \in 0..0
    BY <1>6
  <2>2. IsFiniteSet(R) /\ Cardinality(R) * 0 = 0
    BY <1>1, FS_CardinalityType
  <2> HIDE DEF R, z
  <2>3. SumFunctionOnSet(h, R) = SumFunctionOnSet(z, R)
    BY <1>3, <2>1, <2>2, SumAgrees
  <2>4. SumFunctionOnSet(z, R) \in 0..(Cardinality(R) * 0)
    BY <2>1, <2>2, SumBounded
  <2>5. SumFunctionOnSet(z, R) = 0
    BY <2>2, <2>4
  <2> QED BY <2>3, <2>5 DEF R
<1>9. SumFunctionOnSet(h, D) = SumFunctionOnSet(h, C) + SumFunctionOnSet(h, D \ C)
  <2> HIDE DEF C
  <2> QED BY <1>1, <1>3, SumParts
<1>10. SumFunctionOnSet(f, D) = SumFunctionOnSet(AtBase(D), D) + SumFunctionOnSet(h, D)
  <2> HIDE DEF f
  <2> QED BY <1>3, <1>4, SumPlus
<1>11. SumFunctionOnSet(x, C) = got.spent
  BY DEF GrantedIn, x
<1>12. SumFunctionOnSet(h, C) \in Int
  BY <1>1, <1>3, SumTyped
<1> HIDE DEF f, C
<1>13. SumFunctionOnSet(f, D) = SumFunctionOnSet(AtBase(D), D) + got.spent
  BY <1>7, <1>8, <1>9, <1>10, <1>11, <1>12
<1> QED BY <1>13 DEF f

\* What is due at the base rate is due under the policy or skipped.
LEMMA DueOrSkipped ==
  ASSUME NEW pairs, \A p \in pairs : Sampled(p), NEW policy, NEW request, NEW runs \in Nat \ {0}, StretchMax \in Nat
  PROVE  LET B == {p \in pairs : Sample!BaseDue(p)}
             D == DueOf(pairs, policy, request, runs)
         IN  /\ D \subseteq B /\ SkippedOf(pairs, policy, request, runs) = B \ D
             /\ \A p \in pairs : p.age >= p.interval * runs => p \in D
<1>1. ASSUME NEW p \in pairs
      PROVE  /\ Sample!Due(p, Stretch(p, policy, request, runs)) => Sample!BaseDue(p)
             /\ p.age >= p.interval * runs => Sample!Due(p, Stretch(p, policy, request, runs))
  <2> DEFINE k == Stretch(p, policy, request, runs)
             i == p.interval
  <2>1. k \in 1..runs /\ i \in Nat /\ p.age \in Nat /\ runs \in Nat
    BY StretchIs DEF Sampled
  <2>2. Sample!Due(p, k) <=> p.age >= i * k
    BY DEF Sample!Due
  <2>3. Sample!BaseDue(p) <=> p.age >= i
    BY DEF Sample!BaseDue
  <2> HIDE DEF k, i
  <2>4. i * k \in Nat /\ i * 1 <= i * k /\ i * k <= i * runs /\ i * runs \in Nat /\ i * 1 = i
    BY <2>1, Longer
  <2>5. /\ Sample!Due(p, k) => Sample!BaseDue(p)
        /\ p.age >= i * runs => Sample!Due(p, k)
    BY <2>1, <2>2, <2>3, <2>4
  <2> QED BY <2>5 DEF k, i
<1> QED BY <1>1 DEF DueOf, SkippedOf, Sample!Skipped

\* The calls at the base rate are those of a part of the pairs and of the rest.
LEMMA BaseSplit ==
  ASSUME NEW B, IsFiniteSet(B), \A p \in B : Sampled(p), MinSamples \in Nat, NEW D \in SUBSET B
  PROVE  /\ SumFunctionOnSet(AtBase(B), B) = SumFunctionOnSet(AtBase(D), D) + SumFunctionOnSet(AtBase(B \ D), B \ D)
         /\ SumFunctionOnSet(AtBase(D), D) \in Int
<1> DEFINE K == B \ D
           f == AtBase(B)
           g == AtBase(D)
           h == AtBase(K)
<1>1. IsFiniteSet(D) /\ IsFiniteSet(K) /\ D \in SUBSET D /\ K \in SUBSET B /\ K \in SUBSET K
  BY FS_Subset
<1>2. f \in [B -> Int] /\ g \in [D -> Int] /\ h \in [K -> Int]
  BY DEF AtBase, Sample!Expected, Sample!Lower, Sampled
<1>3. (\A p \in D : f[p] = g[p]) /\ (\A p \in K : f[p] = h[p])
  BY DEF AtBase
<1> HIDE DEF f, g, h
<1>4. SumFunctionOnSet(f, B) = SumFunctionOnSet(f, D) + SumFunctionOnSet(f, K)
  BY <1>2, SumParts
<1> HIDE DEF K
<1>5. SumFunctionOnSet(f, D) = SumFunctionOnSet(g, D)
  BY <1>1, <1>2, <1>3, SumAgrees
<1>6. SumFunctionOnSet(f, K) = SumFunctionOnSet(h, K)
  BY <1>1, <1>2, <1>3, SumAgrees
<1>7. SumFunctionOnSet(g, D) \in Int
  BY <1>1, <1>2, SumTyped
<1> QED BY <1>4, <1>5, <1>6, <1>7 DEF f, g, h, K

\* sampling.plan: whatever pairs are tracked, of whatever states, ages and sample
\* counts, under every policy and after any crawls, the plan of a due run spends
\* on boosts no more than its budget, plans what is due at the base rate less the
\* skipped and plus the boosts, lets no pair wait longer than a consolidation
\* window and asks no more samples than MaxSamples, or the pair's own count.
THEOREM PlansAddUp ==
  ASSUME NEW pairs, IsFiniteSet(pairs), Apart(pairs), \A p \in pairs : Sampled(p),
         NEW policy, NEW runs \in Nat \ {0}, NEW recorded \in Seq(Nat \X Nat)
  PROVE  Sample!PlanAddsUp(pairs, policy, runs, recorded)
<1> DEFINE plan == Sample!Plan(pairs, policy, "due", runs, recorded)
           D == DueOf(pairs, policy, "due", runs)
           B == {p \in pairs : Sample!BaseDue(p)}
           K == SkippedOf(pairs, policy, "due", runs)
           Q == EligibleOf(pairs, policy, "due", runs)
           got == Sample!Boosts(Q, plan.saved + plan.carry)
           samples(p) == IF p.id \in got.pairs THEN p.base + Sample!Extra(p) ELSE p.base
           asked == [p \in D |-> Sample!Expected(p, samples(p))]
<1>1. /\ StretchMax \in Nat \ {0} /\ MinSamples \in Nat /\ MaxSamples \in Nat /\ VolatileBoost \in Nat
      /\ Sample!Carry(recorded) \in Nat
  BY CarryNatural, TrackingAssumption DEF TrackingAssumption
<1>2. /\ plan.saved \in 0..(Cardinality(pairs) * MinSamples) /\ plan.carry \in 0..Sample!Carry(recorded)
      /\ plan.boosted \in 0..(plan.saved + plan.carry) /\ plan.boosted = got.spent
      /\ GrantedIn(Q, Q, got)
  BY <1>1, PlanAffordable
<1>3. D \subseteq B /\ K = B \ D /\ \A p \in pairs : p.age >= p.interval * runs => p \in D
  BY <1>1, DueOrSkipped
<1>4. /\ plan.saved = Sample!Sum(K, LAMBDA p : Sample!Expected(p, p.base))
      /\ plan.baseline = Sample!Sum(B, LAMBDA p : Sample!Expected(p, p.base))
      /\ plan.planned = Sample!Sum(D, LAMBDA p : Sample!Expected(p, samples(p)))
      /\ plan.items = {[pair |-> p, samples |-> samples(p)] : p \in D}
  BY DEF Sample!Plan, Stretch, SkippedOf, EligibleOf, DueOf
<1>5. /\ plan.saved = SumFunctionOnSet(AtBase(K), K) /\ plan.baseline = SumFunctionOnSet(AtBase(B), B)
      /\ plan.planned = SumFunctionOnSet(asked, D)
  <2>1. ASSUME NEW R PROVE Sample!SumFunction(AtBase(R)) = SumFunctionOnSet(AtBase(R), R)
    <3>1. DOMAIN AtBase(R) = R
      BY DEF AtBase
    <3> QED BY <3>1, PlanSum
  <2>2. ASSUME NEW R PROVE Sample!Sum(R, LAMBDA p : Sample!Expected(p, p.base)) = Sample!SumFunction(AtBase(R))
    BY DEF Sample!Sum, AtBase
  <2>3. Sample!Sum(D, LAMBDA p : Sample!Expected(p, samples(p))) = Sample!SumFunction(asked)
    BY DEF Sample!Sum
  <2>4. Sample!SumFunction(asked) = SumFunctionOnSet(asked, D)
    <3>1. DOMAIN asked = D
      OBVIOUS
    <3> HIDE DEF asked
    <3> QED BY <3>1, PlanSum
  <2> HIDE DEF plan, D, B, K, asked
  <2> QED BY <1>4, <2>1, <2>2, <2>3, <2>4
<1>6. IsFiniteSet(B) /\ IsFiniteSet(D) /\ Apart(D) /\ (\A p \in D : Sampled(p)) /\ B \subseteq pairs /\ Q \subseteq D
  BY FS_Subset DEF DueOf, Apart, EligibleOf, Sample!Eligible
<1>7. \A p \in Q : p.state # "stable"
  BY DEF EligibleOf, Sample!Eligible
<1>8. plan.planned = SumFunctionOnSet(AtBase(D), D) + got.spent
  <2>1. SumFunctionOnSet(asked, D) = SumFunctionOnSet(AtBase(D), D) + got.spent
    <3> HIDE DEF D, Q, got
    <3> QED BY <1>1, <1>2, <1>6, <1>7, BoostedDue
  <2> QED BY <1>5, <2>1
<1>9. /\ plan.baseline = SumFunctionOnSet(AtBase(D), D) + plan.saved
      /\ SumFunctionOnSet(AtBase(D), D) \in Int
  <2>1. \A p \in B : Sampled(p)
    BY <1>6
  <2> HIDE DEF plan, D, B, K
  <2> QED BY <1>1, <1>3, <1>5, <1>6, <2>1, BaseSplit
<1>10. plan.boosted <= plan.saved + plan.carry
  BY <1>1, <1>2
<1>11. plan.planned = (plan.baseline - plan.saved) + plan.boosted
  <2>1. plan.saved \in Int /\ plan.boosted = got.spent
    BY <1>2
  <2> HIDE DEF plan, got, D
  <2> QED BY <1>8, <1>9, <2>1
<1>12. \A p \in pairs : p.age >= p.interval * runs => \E i \in plan.items : i.pair = p
  <2>1. plan.items = {[pair |-> p, samples |-> samples(p)] : p \in D}
    BY <1>4
  <2> HIDE DEF plan, D, samples
  <2>2. ASSUME NEW p \in D PROVE [pair |-> p, samples |-> samples(p)] \in plan.items
    BY <2>1
  <2>3. ASSUME NEW p \in D PROVE \E i \in plan.items : i.pair = p
    BY <2>2
  <2> QED BY <1>3, <2>3
<1>13. \A i \in plan.items : i.samples <= Sample!Higher(i.pair.base, MaxSamples)
  <2>1. ASSUME NEW p \in D PROVE samples(p) <= Sample!Higher(p.base, MaxSamples)
    BY <1>1, <1>6 DEF Sampled, Sample!Extra, Sample!Lower, Sample!Higher
  <2>2. ASSUME NEW i \in plan.items PROVE i.samples <= Sample!Higher(i.pair.base, MaxSamples)
    <3>1. PICK p \in D : i = [pair |-> p, samples |-> samples(p)]
      BY <1>4
    <3>2. i.samples = samples(p) /\ i.pair = p
      BY <3>1
    <3> HIDE DEF samples, D, plan
    <3> QED BY <2>1, <3>2
  <2> QED BY <2>2
<1> HIDE DEF D, B, K, Q, got
<1> QED BY <1>10, <1>11, <1>12, <1>13 DEF Sample!PlanAddsUp

\* A crawl put before the first m - 1 of a list.
PutBefore(c, x, m) == SubSeq(<<x>> \o c, 1, m)
Before(e, c, x, m) ==
  e \in Seq(Nat \X Nat) /\ Len(e) = m /\ e[1] = x /\ \A i \in 2..m : e[i] = c[i - 1]

LEMMA NewList ==
  ASSUME NEW c \in Seq(Nat \X Nat), NEW x \in Nat \X Nat, NEW m \in 1..(Len(c) + 1)
  PROVE  Before(PutBefore(c, x, m), c, x, m)
<1> DEFINE all == <<x>> \o c
           e == SubSeq(all, 1, m)
<1>1. Len(c) \in Nat /\ <<x>> \in Seq(Nat \X Nat) /\ Len(<<x>>) = 1 /\ <<x>>[1] = x
  OBVIOUS
<1>2. all \in Seq(Nat \X Nat) /\ Len(all) = Len(c) + 1
  BY <1>1
<1>3. all[1] = x /\ \A i \in 2..(Len(c) + 1) : all[i] = c[i - 1]
  BY <1>1
<1> HIDE DEF all
<1>4. e \in Seq(Nat \X Nat) /\ Len(e) = m /\ \A i \in 1..m : e[i] = all[i]
  BY <1>1, <1>2
<1> HIDE DEF e
<1>5. e[1] = x /\ \A i \in 2..m : e[i] = c[i - 1]
  <2>1. m \in Nat /\ 1 <= m /\ m <= Len(c) + 1
    BY <1>1
  <2>2. 1 \in 1..m /\ \A i \in 2..m : i \in 1..m /\ i \in 2..(Len(c) + 1)
    BY <1>1, <2>1
  <2> QED BY <1>3, <1>4, <2>2
<1> QED BY <1>4, <1>5 DEF all, e, PutBefore, Before

\* Its partial sums are those of the list, raised by what the crawl put before spared.
Raised(s, d, n) == [i \in 0..n |-> IF i = 0 THEN 0 ELSE d + s[i - 1]]

\* These are the partial sums of the new list.
LEMMA NewSums ==
  ASSUME NEW n \in Nat, NEW o \in Nat, o <= n + 1, NEW d \in Int,
         NEW g, NEW s, Sums(s, n, g),
         NEW h, o > 0 => h[1] = d, \A i \in 2..o : h[i] = g[i - 1]
  PROVE  Sums(Raised(s, d, o), o, h)
<1> DEFINE r == Raised(s, d, o)
<1>1. s \in [0..n -> Int] /\ s[0] = 0
  BY DEF Sums
<1>2. r = [i \in 0..o |-> IF i = 0 THEN 0 ELSE d + s[i - 1]]
  BY DEF Raised
<1> HIDE DEF r
<1>3. \A i \in 1..o : i - 1 \in 0..n /\ s[i - 1] \in Int
  BY <1>1
<1>4. r[0] = 0 /\ \A i \in 1..o : r[i] = d + s[i - 1]
  BY <1>2
<1>5. r \in [0..o -> Int]
  BY <1>2, <1>3
<1>6. ASSUME NEW i \in 1..o PROVE h[i] \in Int /\ r[i] = r[i - 1] + h[i]
  <2>1. CASE i = 1
    BY <1>1, <1>4, <2>1
  <2>2. CASE i > 1
    <3> DEFINE j == i - 1
    <3>1. j \in 1..n /\ j \in 1..o /\ i \in 2..o
      BY <2>2
    <3>2. h[i] = g[j]
      BY <3>1
    <3>3. r[i] = d + s[j]
      BY <1>4
    <3> HIDE DEF j
    <3>4. g[j] \in Int /\ s[j] = s[j - 1] + g[j]
      BY <3>1 DEF Sums
    <3>5. r[j] = d + s[j - 1] /\ s[j - 1] \in Int
      BY <1>3, <1>4, <3>1
    <3>6. r[i] = r[j] + h[i]
      BY <3>2, <3>3, <3>4, <3>5
    <3> QED BY <3>2, <3>4, <3>6 DEF j
  <2> QED BY <2>1, <2>2
<1> QED BY <1>4, <1>5, <1>6 DEF r, Sums

\* Multiplying keeps the order of the naturals.
LEMMA TimesUp ==
  ASSUME NEW a \in Nat, NEW b \in Nat, NEW w \in Nat, a <= b
  PROVE  a * w \in Nat /\ b * w \in Nat /\ a * w <= b * w /\ (a + 1) * w = a * w + w
  OBVIOUS

\* A crawl that is recorded costs no more than the net it is charged to.
LEMMA RecordAffords ==
  ASSUME TrackingAssumption, NetAssumption, NetInv, AskingInv, Record
  PROVE  NetInv'
<1> DEFINE d == asking.saved - asking.boosted
           x == <<asking.saved, asking.boosted>>
           m == Sample!Lower(Len(crawls) + 1, Sample!Higher(1, KeptCrawls))
           n == Sample!Lower(Len(crawls), KeptCrawls)
           o == Sample!Lower(Len(crawls'), KeptCrawls)
<1>1. PICK s : LeftOver(crawls, s) /\ \A i \in 0..n : s[i] <= net /\ s[i] <= i * Allowed
  BY DEF NetInv
<1>2. /\ KeptCrawls \in Nat /\ Allowed \in Nat /\ MaxNet \in Nat /\ KeptCrawls * Allowed <= MaxNet
      /\ net \in 0..MaxNet /\ crawls \in Seq(Nat \X Nat) /\ Sample!Carry(crawls) \in 0..net
  BY TrackedSizes, CarryCovered DEF NetInv
<1>3. asking.saved \in 0..Allowed /\ asking.boosted \in 0..(asking.saved + Sample!Carry(crawls))
  BY DEF AskingInv, Record
<1> DEFINE saved == asking.saved
           boosted == asking.boosted
           carry == Sample!Carry(crawls)
<1>4. d \in Int /\ d <= Allowed /\ 0 <= net + d /\ saved \in Nat /\ boosted \in Nat
  <2>1. saved \in 0..Allowed /\ boosted \in 0..(saved + carry) /\ carry \in 0..net /\ d = saved - boosted
    BY <1>2, <1>3
  <2>2. Allowed \in Nat /\ net \in Nat
    BY <1>2
  <2> HIDE DEF saved, boosted, carry, d
  <2>3. saved \in Nat /\ carry \in Nat /\ boosted \in Nat /\ boosted <= saved + carry /\ carry <= net /\ saved <= Allowed
    BY <2>1, <2>2
  <2> QED BY <2>1, <2>2, <2>3
<1>5. x \in Nat \X Nat /\ x[1] - x[2] = d
  BY <1>4
<1> HIDE DEF d
<1>6. Len(crawls) \in Nat /\ m \in 1..(Len(crawls) + 1)
  BY <1>2 DEF Sample!Lower, Sample!Higher
<1>7. net' = Sample!Lower(MaxNet, net + d)
  <2>1. net + asking.saved - asking.boosted = net + d
    BY <1>2, <1>4 DEF d
  <2> QED BY <2>1 DEF Record
<1>8. crawls' = PutBefore(crawls, x, m)
  <2>1. Len(<<x>> \o crawls) = Len(crawls) + 1
    BY <1>2, <1>5
  <2> QED BY <2>1 DEF Record, KeptCrawls, PutBefore
<1> HIDE DEF x
<1>9. /\ crawls' \in Seq(Nat \X Nat) /\ Len(crawls') = m /\ crawls'[1] = x
      /\ \A i \in 2..m : crawls'[i] = crawls[i - 1]
  <2> HIDE DEF m
  <2>1. Before(PutBefore(crawls, x, m), crawls, x, m)
    BY <1>2, <1>5, <1>6, NewList
  <2> QED BY <1>8, <2>1 DEF Before
<1>10. n \in Nat /\ n <= Len(crawls) /\ o \in Nat /\ o <= m /\ o <= n + 1 /\ o <= KeptCrawls
  <2>1. o = Sample!Lower(m, KeptCrawls)
    BY <1>9
  <2>2. ASSUME NEW a \in Nat, NEW k \in Nat
        PROVE  LET j == Sample!Lower(a + 1, Sample!Higher(1, k))
                   v == Sample!Lower(a, k)
                   w == Sample!Lower(j, k)
               IN  v \in Nat /\ v <= a /\ w \in Nat /\ w <= j /\ w <= v + 1 /\ w <= k
    BY DEF Sample!Lower, Sample!Higher
  <2> HIDE DEF o
  <2> QED BY <1>2, <1>6, <2>1, <2>2
<1>11. Sums(s, n, Spared(crawls))
  BY <1>1 DEF LeftOver
<1> HIDE DEF m, n, o
<1> DEFINE r == Raised(s, d, o)
<1>12. Sums(r, o, Spared(crawls'))
  <2>1. \A i \in 2..o : i \in 2..m /\ i \in 1..m /\ i - 1 \in 1..Len(crawls)
    <3>1. o \in Nat /\ m \in Nat /\ o <= m /\ m <= Len(crawls) + 1 /\ Len(crawls) \in Nat
      BY <1>6, <1>10
    <3> QED BY <3>1
  <2>2. \A i \in 2..o : Spared(crawls')[i] = Spared(crawls)[i - 1]
    BY <1>9, <2>1 DEF Spared
  <2>3. o > 0 => Spared(crawls')[1] = d
    <3>1. Spared(crawls')[1] = crawls'[1][1] - crawls'[1][2]
      BY <1>6, <1>9 DEF Spared
    <3> QED BY <1>5, <1>9, <3>1
  <2> HIDE DEF r
  <2> QED BY <1>4, <1>10, <1>11, <2>2, <2>3, NewSums DEF r
<1>13. \A i \in 1..o : r[i] = d + s[i - 1] /\ i - 1 \in 0..n /\ s[i - 1] \in Int
  BY <1>10, <1>11 DEF Raised, Sums
<1>14. r[0] = 0
  BY <1>12 DEF Sums
<1> HIDE DEF r
<1>15. ASSUME NEW i \in 0..o PROVE r[i] <= net' /\ r[i] <= i * Allowed
  <2>1. CASE i = 0
    <3>1. i * Allowed = 0
      BY <1>2, <2>1
    <3> QED BY <3>1, <1>2, <1>4, <1>7, <1>14, <2>1 DEF Sample!Lower
  <2>2. CASE i > 0
    <3>1. i - 1 \in 0..n /\ i \in 1..o /\ i - 1 \in Nat /\ i \in Nat /\ i <= KeptCrawls
      BY <1>2, <1>10, <2>2
    <3>2. r[i] = d + s[i - 1] /\ s[i - 1] \in Int /\ s[i - 1] <= net /\ s[i - 1] <= (i - 1) * Allowed
      <4>1. \A j \in 0..n : s[j] <= net /\ s[j] <= j * Allowed
        BY <1>1
      <4> QED BY <1>13, <3>1, <4>1
    <3> DEFINE a == (i - 1) * Allowed
               b == i * Allowed
               c == KeptCrawls * Allowed
    <3>3. a \in Nat /\ b = a + Allowed /\ ((i - 1) + 1 = i)
      <4>1. ((i - 1) + 1) * Allowed = a + Allowed /\ a \in Nat
        BY <1>2, <3>1, TimesUp
      <4>2. (i - 1) + 1 = i
        BY <3>1
      <4> QED BY <4>1, <4>2
    <3>4. b \in Nat /\ c \in Nat /\ b <= c
      BY <1>2, <3>1, TimesUp
    <3>5. c <= MaxNet /\ s[i - 1] <= a
      BY <1>2, <3>2
    <3> HIDE DEF a, b, c
    <3>6. r[i] <= b /\ r[i] <= net + d /\ r[i] <= MaxNet
      <4> DEFINE v == s[i - 1]
      <4>1. r[i] = d + v /\ v \in Int /\ v <= net /\ v <= a /\ d <= Allowed
        BY <3>2, <3>5, <1>4
      <4> HIDE DEF v
      <4>2. net \in Nat /\ Allowed \in Nat /\ MaxNet \in Nat /\ d \in Int
        BY <1>2, <1>4
      <4>3. a \in Nat /\ b = a + Allowed /\ b <= c /\ c <= MaxNet /\ c \in Nat
        BY <3>3, <3>4, <3>5
      <4> QED BY <4>1, <4>2, <4>3
    <3>7. r[i] <= net'
      BY <3>6, <1>7 DEF Sample!Lower
    <3> QED BY <3>6, <3>7 DEF b
  <2> QED BY <2>1, <2>2, <1>10
<1>16. LeftOver(crawls', r)
  BY <1>12 DEF LeftOver, o
<1>17. net' \in 0..MaxNet
  BY <1>2, <1>4, <1>7 DEF Sample!Lower
<1> QED BY <1>9, <1>15, <1>16, <1>17 DEF NetInv, o

\* The locale is frozen before a second market is asked.
LEMMA MarketKept == ASSUME MarketInv, TrackNext PROVE MarketInv'
<1>1. CASE \E r \in RowIds, t \in Texts : AddPrompt(r, t) \/ EditPrompt(r, t)
  BY <1>1 DEF MarketInv, AddPrompt, EditPrompt
<1>2. CASE \E r \in RowIds : DeletePrompt(r)
  BY <1>2 DEF MarketInv, DeletePrompt
<1>3. CASE \E l \in Locales : SetLocale(l)
  BY <1>3 DEF MarketInv, SetLocale
<1>4. CASE \E request \in {"due", "force", "selected"}, rows \in SUBSET RowIds : Begin(request, rows)
  <2>1. PICK request \in {"due", "force", "selected"}, rows \in SUBSET RowIds : Begin(request, rows)
    BY <1>4
  <2>2. PICK plan, batches : 
           asking' =
            [todo |-> [n \in DOMAIN batches |-> {prompts[r] : r \in Sample!Prompts(batches[n])}],
             locale |-> locale, saved |-> plan.saved, boosted |-> plan.boosted]
    BY <2>1 DEF Begin
  <2>3. asking'.locale = locale
    BY <2>2
  <2> QED BY <2>1, <2>3 DEF MarketInv, Begin
<1>5. CASE RunBatch
  BY <1>5 DEF MarketInv, RunBatch
<1>6. CASE BatchRefused
  BY <1>6 DEF MarketInv, BatchRefused
<1>7. CASE Record
  BY <1>7 DEF MarketInv, Record
<1>8. CASE LoseCrawl
  BY <1>8 DEF MarketInv, LoseCrawl
<1>9. CASE Tick
  BY <1>9 DEF MarketInv, Tick
<1> QED BY <1>1, <1>2, <1>3, <1>4, <1>5, <1>6, <1>7, <1>8, <1>9 DEF TrackNext

\* The invariant holds initially.
LEMMA TrackStart ==
  ASSUME TrackingAssumption, NetAssumption, TrackInit
  PROVE  TrackInv
<1>1. TrackTypeOK
  <2>1. Home \in Locales /\ MaxLosses \in Nat /\ MaxEdits \in Nat
    BY TrackedSizes DEF TrackingAssumption
  <2>2. prompts \in [RowIds -> {None} \cup [text : Texts, id : Texts]]
    BY DEF TrackInit
  <2>3. history \in [Texts -> {None} \cup [age : 0..Old, state : States, returned : BOOLEAN]]
    BY DEF TrackInit
  <2>4. locale \in Locales /\ markets \subseteq Locales
    BY <2>1 DEF TrackInit
  <2>6. net \in Int
    BY DEF TrackInit
  <2>7. moved \in BOOLEAN
    <3>1. moved = FALSE
      BY Zenon DEF TrackInit
    <3> QED BY <3>1, Zenon
  <2>5. losses \in 0..MaxLosses /\ edits \in 0..MaxEdits
    BY <2>1 DEF TrackInit
  <2> QED BY <2>2, <2>3, <2>4, <2>5, <2>6, <2>7 DEF TrackTypeOK
<1>2. MarketInv
  BY DEF TrackInit, MarketInv
<1>3. AskingInv
  BY DEF TrackInit, AskingInv
<1>4. NetInv
  <2> DEFINE s == [i \in 0..0 |-> 0]
  <2>1. crawls = <<>> /\ net = 0 /\ crawls \in Seq(Nat \X Nat) /\ Len(crawls) = 0
    BY DEF TrackInit
  <2>2. Sample!Lower(Len(crawls), KeptCrawls) = 0
    BY <2>1, TrackedSizes DEF Sample!Lower
  <2>3. LeftOver(crawls, s)
    BY <2>2 DEF LeftOver, Sums
  <2>4. \A i \in 0..0 : s[i] <= 0 /\ s[i] <= i * Allowed
    BY TrackedSizes
  <2> HIDE DEF s
  <2> QED BY <2>1, <2>2, <2>3, <2>4, TrackedSizes DEF NetInv
<1> QED BY <1>1, <1>2, <1>3, <1>4 DEF TrackInv

\* What leaves the recorded crawls alone keeps their balance.
LEMMA SameCrawls ==
  ASSUME NetInv, UNCHANGED <<net, crawls>>
  PROVE  NetInv'
BY DEF NetInv, LeftOver

\* What leaves the crawl in progress and the carry alone keeps its bounds.
LEMMA SameCrawl ==
  ASSUME AskingInv, UNCHANGED crawls,
         asking' # None => asking # None /\ UNCHANGED <<asking.locale, asking.saved, asking.boosted>>
  PROVE  AskingInv'
BY DEF AskingInv

\* A snapshot is as old as a snapshot may be.
LEMMA AgesKept ==
  ASSUME TrackTypeOK, StretchMax \in Nat, NEW batch, NEW verdict \in Opinions(Asked(batch))
  PROVE  Snapshot(batch, verdict) \in [Texts -> {None} \cup [age : 0..Old, state : States, returned : BOOLEAN]]
<1>1. \A t \in Asked(batch) : verdict[t] \in States
  BY DEF Opinions
<1>2. 0 \in 0..Old
  BY DEF Old
<1>3. Snapshot(batch, verdict) =
        [t \in Texts |-> IF t \notin Asked(batch) THEN history[t]
           ELSE [age |-> 0, state |-> verdict[t], returned |-> IF history[t] = None THEN FALSE ELSE history[t].age > 1]]
  BY DEF Snapshot
<1>4. ASSUME NEW t \in Texts, t \in Asked(batch)
      PROVE  [age |-> 0, state |-> verdict[t], returned |-> IF history[t] = None THEN FALSE ELSE history[t].age > 1]
               \in [age : 0..Old, state : States, returned : BOOLEAN]
  <2>1. verdict[t] \in States
    BY <1>1, <1>4
  <2>2. CASE history[t] = None
    BY <1>2, <2>1, <2>2
  <2>3. CASE history[t] # None
    <3>1. [age |-> 0, state |-> verdict[t], returned |-> history[t].age > 1]
            \in [age : 0..Old, state : States, returned : BOOLEAN]
      BY <1>2, <2>1
    <3> QED BY <2>3, <3>1
  <2> QED BY <2>2, <2>3
<1>5. history \in [Texts -> {None} \cup [age : 0..Old, state : States, returned : BOOLEAN]]
  BY DEF TrackTypeOK
<1> QED BY <1>3, <1>4, <1>5

\* Every step keeps the types.
LEMMA TrackTyped ==
  ASSUME TrackingAssumption, NetAssumption, TrackInv, TrackNext, NetInv'
  PROVE  TrackTypeOK'
<1> USE DEF TrackInv
<1>0. MaxLosses \in Nat /\ MaxEdits \in Nat
  BY TrackedSizes
<1>1. CASE \E r \in RowIds, t \in Texts : AddPrompt(r, t) \/ EditPrompt(r, t)
  <2>1. PICK r \in RowIds, t \in Texts : AddPrompt(r, t) \/ EditPrompt(r, t)
    BY <1>1
  <2>2. CASE AddPrompt(r, t)
    BY <2>2 DEF TrackTypeOK, AddPrompt
  <2>3. CASE EditPrompt(r, t)
    <3>1. prompts' \in [RowIds -> {None} \cup [text : Texts, id : Texts]]
      <4>1. prompts[r] \in [text : Texts, id : Texts]
        BY <2>3 DEF TrackTypeOK, EditPrompt, Tracked
      <4>2. prompts' = [prompts EXCEPT ![r] = [prompts[r] EXCEPT !.text = t]]
        BY <2>3 DEF EditPrompt
      <4>3. [prompts[r] EXCEPT !.text = t] \in [text : Texts, id : Texts]
        BY <4>1
      <4> QED BY <4>2, <4>3 DEF TrackTypeOK
    <3> QED BY <1>0, <2>3, <3>1 DEF TrackTypeOK, EditPrompt
  <2> QED BY <2>1, <2>2, <2>3
<1>2. CASE \E r \in RowIds : DeletePrompt(r)
  BY <1>0, <1>2 DEF TrackTypeOK, DeletePrompt
<1>3. CASE \E l \in Locales : SetLocale(l)
  BY <1>0, <1>3 DEF TrackTypeOK, SetLocale
<1>4. CASE \E request \in {"due", "force", "selected"}, rows \in SUBSET RowIds : Begin(request, rows)
  BY <1>4 DEF TrackTypeOK, Begin
<1>5. CASE RunBatch
  <2>1. history' \in [Texts -> {None} \cup [age : 0..Old, state : States, returned : BOOLEAN]]
    BY <1>5, AgesKept, TrackedSizes DEF RunBatch
  <2>2. markets' \subseteq Locales
    BY <1>5 DEF RunBatch, TrackTypeOK, AskingInv
  <2> QED BY <1>5, <2>1, <2>2 DEF TrackTypeOK, RunBatch
<1>6. CASE BatchRefused
  BY <1>6 DEF TrackTypeOK, BatchRefused
<1>7. CASE Record
  <2>1. net' \in Int
    BY TrackedSizes DEF NetInv
  <2> QED BY <1>7, <2>1 DEF TrackTypeOK, Record
<1>8. CASE LoseCrawl
  BY <1>0, <1>8 DEF TrackTypeOK, LoseCrawl
<1>9. CASE Tick
  <2>1. ASSUME NEW a \in 0..Old PROVE Sample!Lower(Old, a + 1) \in 0..Old
    BY TrackedSizes DEF Old, Sample!Lower
  <2>2. history' \in [Texts -> {None} \cup [age : 0..Old, state : States, returned : BOOLEAN]]
    BY <1>9, <2>1 DEF TrackTypeOK, Tick
  <2> QED BY <1>9, <2>2 DEF TrackTypeOK, Tick
<1> QED BY <1>1, <1>2, <1>3, <1>4, <1>5, <1>6, <1>7, <1>8, <1>9 DEF TrackNext

\* The invariant is inductive.
LEMMA TrackKept ==
  ASSUME TrackingAssumption, NetAssumption, TrackInv, [TrackNext]_(trackVars)
  PROVE  TrackInv'
<1> USE DEF TrackInv
<1>1. CASE TrackNext
  <2>1. MarketInv'
    BY <1>1, MarketKept
  <2>2. NetInv' /\ AskingInv'
    <3>1. CASE \E r \in RowIds, t \in Texts : AddPrompt(r, t) \/ EditPrompt(r, t)
      BY <3>1, SameCrawls, SameCrawl DEF AddPrompt, EditPrompt
    <3>2. CASE \E r \in RowIds : DeletePrompt(r)
      BY <3>2, SameCrawls, SameCrawl DEF DeletePrompt
    <3>3. CASE \E l \in Locales : SetLocale(l)
      BY <3>3, SameCrawls, SameCrawl DEF SetLocale
    <3>4. CASE \E request \in {"due", "force", "selected"}, rows \in SUBSET RowIds : Begin(request, rows)
      <4>1. AskingInv'
        BY <3>4, BeginAffords
      <4> QED BY <3>4, <4>1, SameCrawls DEF Begin
    <3>5. CASE RunBatch
      BY <3>5, SameCrawls, SameCrawl DEF RunBatch
    <3>6. CASE BatchRefused
      BY <3>6, SameCrawls, SameCrawl DEF BatchRefused
    <3>7. CASE Record
      <4>1. NetInv'
        BY <3>7, RecordAffords
      <4>2. AskingInv'
        BY <3>7 DEF Record, AskingInv
      <4> QED BY <4>1, <4>2
    <3>8. CASE LoseCrawl
      BY <3>8, SameCrawls, SameCrawl DEF LoseCrawl
    <3>9. CASE Tick
      BY <3>9, SameCrawls, SameCrawl DEF Tick
    <3> QED BY <1>1, <3>1, <3>2, <3>3, <3>4, <3>5, <3>6, <3>7, <3>8, <3>9 DEF TrackNext
  <2>3. TrackTypeOK'
    BY <1>1, <2>2, TrackTyped
  <2> QED BY <2>1, <2>2, <2>3
<1>2. CASE UNCHANGED trackVars
  <2>1. TrackTypeOK' /\ MarketInv'
    BY <1>2 DEF trackVars, TrackTypeOK, MarketInv
  <2>2. NetInv' /\ AskingInv'
    BY <1>2, SameCrawls, SameCrawl DEF trackVars
  <2> QED BY <2>1, <2>2
<1> QED BY <1>1, <1>2

\* It always holds.
LEMMA TrackedAlways == TrackSpec => []TrackInv
<1>1. TrackInit => TrackInv
  BY TrackingAssumption, NetAssumption, TrackStart
<1>2. TrackInv /\ [TrackNext]_(trackVars) => TrackInv'
  BY TrackingAssumption, NetAssumption, TrackKept
<1> QED BY <1>1, <1>2, PTL DEF TrackSpec

\* The variables of Tracking keep their types; a snapshot is never older than the
\* longest stretch counts.
THEOREM TrackedTypeCorrect == TrackSpec => []TrackTypeOK
<1>1. TrackInv => TrackTypeOK
  BY DEF TrackInv
<1> QED BY <1>1, TrackedAlways, PTL

\* sampling.py (_carry, _grant_boosts): whatever crawls are lost, forced or
\* dropped out of the window that is carried, the extra samples granted so far
\* cost no more than the crawls so far counted as saved.
THEOREM BoostsCoveredAlways == TrackSpec => []BoostsCovered
<1>1. TrackInv => BoostsCovered
  BY TrackingAssumption, NetAssumption, TrackedSizes DEF TrackInv, NetInv, BoostsCovered
<1> QED BY <1>1, TrackedAlways, PTL

\* ADR 0023: the snapshots of a project are of one market, unless the locale was
\* changed between the first snapshot and the record of its crawl.
THEOREM OneMarketAlways == TrackSpec => []OneMarket
<1>1. ASSUME TrackInv PROVE OneMarket
  <2>1. moved \/ markets \subseteq {locale}
    BY <1>1 DEF TrackInv, MarketInv
  <2>2. IsFiniteSet({locale}) /\ Cardinality({locale}) = 1
    BY FS_Singleton
  <2>3. markets \subseteq {locale} => Cardinality(markets) <= 1
    BY <2>2, FS_Subset
  <2> QED BY <2>1, <2>3 DEF OneMarket
<1> QED BY <1>1, TrackedAlways, PTL

-----------------------------------------------------------------------------
(* The command line's jobs: Scheduler, for all jobs and all passes.        *)

Endings == {"ok", "failed", "interrupted"}
Job == [every : Nat, enabled : BOOLEAN]
JobRuns(D) == [D -> [lasts : Nat, ends : Endings]]
Pass(D) == [run : JobRuns(D), force : BOOLEAN]
Entry == [last : Nat, next : Nat, status : Endings]
Stores(D) == UNION {[d -> Entry] : d \in SUBSET D}
JobStart(D) == [job : D, at : Nat, noted : BOOLEAN, forced : BOOLEAN]
Starts(D) == Seq(JobStart(D))
Passes == Seq([from : Nat, to : Nat, stopped : BOOLEAN])
JobStates(D) == [clock : Nat, store : Stores(D), starts : Starts(D), stopped : BOOLEAN, passes : Passes]

LEMMA JobFields ==
  ASSUME NEW D, NEW p \in JobStates(D)
  PROVE  p.clock \in Nat /\ p.store \in Stores(D) /\ p.starts \in Starts(D) /\ p.stopped \in BOOLEAN /\ p.passes \in Passes
BY DEF JobStates

\* What a noted run leaves in the table.
Replaced(s, store, j, at, every) ==
  /\ DOMAIN s = DOMAIN store \cup {j} /\ s[j].last = at /\ s[j].next = at + every
  /\ \A k \in DOMAIN store : k # j => s[k] = store[k]
LEMMA Noted ==
  ASSUME NEW D, NEW store \in Stores(D), NEW j \in D, NEW at \in Nat, NEW every \in Nat, NEW status \in Endings
  PROVE  Note(store, j, at, every, status) \in Stores(D) /\ Replaced(Note(store, j, at, every, status), store, j, at, every)
<1> DEFINE s == Note(store, j, at, every, status)
           e == [last |-> at, next |-> at + every, status |-> status]
           d == DOMAIN store
<1>1. d \in SUBSET D /\ \A k \in d : store[k] \in Entry
  BY DEF Stores
<1>2. e \in Entry /\ e.last = at /\ e.next = at + every
  BY DEF Entry
<1> HIDE DEF e
<1>3. s = [k \in d \cup {j} |-> IF k = j THEN e ELSE store[k]]
  BY DEF Note, e
<1> HIDE DEF s
<1>4. s \in [d \cup {j} -> Entry] /\ DOMAIN s = d \cup {j} /\ s[j] = e /\ \A k \in d : k # j => s[k] = store[k]
  BY <1>1, <1>2, <1>3
<1>5. s \in Stores(D)
  BY <1>1, <1>4 DEF Stores
<1> QED BY <1>2, <1>4, <1>5 DEF s, Replaced

\* What a job of a pass does: nothing, for a reason; or it starts.
Passed(jobs, force, p, j, q) ==
  q = p /\ (p.stopped \/ ~ jobs[j].enabled \/ (~ force /\ ~ IsDue(jobs, p.store, j, p.clock)))
Begins(p, j, force, noted, q) == q.starts = Append(p.starts, [job |-> j, at |-> p.clock, noted |-> noted, forced |-> force])
Began(jobs, run, force, p, j, q) ==
  /\ ~ p.stopped /\ jobs[j].enabled /\ (force \/ IsDue(jobs, p.store, j, p.clock))
  /\ \/ run[j].ends = "interrupted" /\ q.stopped /\ q.store = p.store /\ q.clock = p.clock /\ Begins(p, j, force, FALSE, q)
     \/ run[j].ends # "interrupted" /\ ~ q.stopped /\ q.store = Note(p.store, j, p.clock, jobs[j].every, run[j].ends)
        /\ q.clock = p.clock + run[j].lasts /\ Begins(p, j, force, TRUE, q)

LEMMA JobStep ==
  ASSUME NEW jobs \in Seq(Job), NEW run \in JobRuns(DOMAIN jobs), NEW force \in BOOLEAN,
         NEW p \in JobStates(DOMAIN jobs), NEW j \in DOMAIN jobs
  PROVE  LET q == RunJob(jobs, run, force, p, j) IN
         /\ q \in JobStates(DOMAIN jobs) /\ q.passes = p.passes
         /\ Passed(jobs, force, p, j, q) \/ Began(jobs, run, force, p, j, q)
<1> DEFINE D == DOMAIN jobs
           q == RunJob(jobs, run, force, p, j)
           start(n) == Append(p.starts, [job |-> j, at |-> p.clock, noted |-> n, forced |-> force])
           table == Note(p.store, j, p.clock, jobs[j].every, run[j].ends)
           c == p.clock + run[j].lasts
<1>1. jobs[j].every \in Nat /\ jobs[j].enabled \in BOOLEAN /\ run[j].lasts \in Nat /\ run[j].ends \in Endings
  <2>1. jobs[j] \in Job /\ run[j] \in [lasts : Nat, ends : Endings]
    BY DEF JobRuns
  <2> QED BY <2>1 DEF Job
<1>2. c \in Nat /\ table \in Stores(D) /\ start(TRUE) \in Starts(D) /\ start(FALSE) \in Starts(D)
  <2>1. c \in Nat
    BY <1>1, JobFields
  <2>2. table \in Stores(D)
    BY <1>1, JobFields, Noted
  <2>3. p.starts \in Starts(D) /\ \A n \in BOOLEAN : [job |-> j, at |-> p.clock, noted |-> n, forced |-> force] \in JobStart(D)
    BY JobFields DEF JobStart
  <2>4. ASSUME NEW n \in BOOLEAN PROVE start(n) \in Starts(D)
    <3> DEFINE r == [job |-> j, at |-> p.clock, noted |-> n, forced |-> force]
    <3>1. r \in JobStart(D) /\ p.starts \in Seq(JobStart(D))
      BY <2>3 DEF Starts
    <3> HIDE DEF r
    <3>2. Append(p.starts, r) \in Seq(JobStart(D))
      BY <3>1
    <3> QED BY <3>2 DEF Starts, r
  <2> HIDE DEF start
  <2> QED BY <2>1, <2>2, <2>4
<1>3. CASE p.stopped \/ ~ jobs[j].enabled \/ (~ force /\ ~ IsDue(jobs, p.store, j, p.clock))
  <2>1. q = p
    BY <1>3 DEF RunJob
  <2> QED BY <1>3, <2>1 DEF Passed
<1>4. CASE ~ (p.stopped \/ ~ jobs[j].enabled \/ (~ force /\ ~ IsDue(jobs, p.store, j, p.clock))) /\ run[j].ends = "interrupted"
  <2> DEFINE s == start(FALSE)
             x == [p EXCEPT !.stopped = TRUE]
  <2>1. q = [x EXCEPT !.starts = s]
    BY <1>4 DEF RunJob
  <2>2. s \in Starts(D)
    BY <1>2
  <2> HIDE DEF s
  <2>3. x \in JobStates(D)
    BY DEF JobStates
  <2>4. x.stopped = TRUE /\ x.clock = p.clock /\ x.store = p.store /\ x.passes = p.passes
    BY DEF JobStates
  <2> HIDE DEF x, q
  <2>5. q \in JobStates(D)
    BY <2>1, <2>2, <2>3 DEF JobStates
  <2>6. q.starts = s /\ q.stopped = x.stopped /\ q.clock = x.clock /\ q.store = x.store /\ q.passes = x.passes
    BY <2>1, <2>3 DEF JobStates
  <2>7. Began(jobs, run, force, p, j, q)
    BY <1>4, <2>4, <2>6 DEF Began, Begins, s
  <2> QED BY <2>4, <2>5, <2>6, <2>7 DEF q
<1>5. CASE ~ (p.stopped \/ ~ jobs[j].enabled \/ (~ force /\ ~ IsDue(jobs, p.store, j, p.clock))) /\ run[j].ends # "interrupted"
  <2> DEFINE s == start(TRUE)
             x == [p EXCEPT !.clock = c]
             y == [x EXCEPT !.store = table]
  <2>1. q = [y EXCEPT !.starts = s]
    BY <1>5 DEF RunJob
  <2>2. s \in Starts(D) /\ c \in Nat /\ table \in Stores(D)
    BY <1>2
  <2> HIDE DEF s, c, table
  <2>3. x \in JobStates(D)
    BY <2>2 DEF JobStates
  <2>4. x.clock = c /\ x.stopped = p.stopped /\ x.passes = p.passes
    BY DEF JobStates
  <2> HIDE DEF x
  <2>5. y \in JobStates(D)
    BY <2>2, <2>3 DEF JobStates
  <2>6. y.store = table /\ y.clock = x.clock /\ y.stopped = x.stopped /\ y.passes = x.passes
    BY <2>3 DEF JobStates
  <2> HIDE DEF y, q
  <2>7. q \in JobStates(D)
    BY <2>1, <2>2, <2>5 DEF JobStates
  <2>8. q.starts = s /\ q.stopped = y.stopped /\ q.clock = y.clock /\ q.store = y.store /\ q.passes = y.passes
    BY <2>1, <2>5 DEF JobStates
  <2>9. Began(jobs, run, force, p, j, q)
    BY <1>5, <2>4, <2>6, <2>8 DEF Began, Begins, s, c, table
  <2> QED BY <2>4, <2>6, <2>7, <2>8, <2>9 DEF q
<1> QED BY <1>3, <1>4, <1>5

\* The starts so far are in order, and the table holds the last of each job.
StartsDated(jobs, p) ==
  /\ \A a \in DOMAIN p.starts : p.starts[a].at <= p.clock /\ jobs[p.starts[a].job].enabled
  /\ \A a \in DOMAIN p.starts : p.starts[a].noted =>
       p.starts[a].job \in DOMAIN p.store /\ p.starts[a].at <= p.store[p.starts[a].job].last
NextIs(jobs, p) == \A k \in DOMAIN p.store : p.store[k].next = p.store[k].last + jobs[k].every
Ordered(jobs, p) == StartsDated(jobs, p) /\ RunsApart(jobs, p.starts) /\ NextIs(jobs, p)
Backed(p) ==
  \A k \in DOMAIN p.store : \E a \in DOMAIN p.starts : p.starts[a].job = k /\ p.starts[a].noted /\ p.starts[a].at = p.store[k].last

\* One more start.
LEMMA OneStart ==
  ASSUME NEW D, NEW s \in Starts(D), NEW r \in JobStart(D)
  PROVE  /\ Append(s, r) \in Starts(D) /\ Len(s) \in Nat
         /\ DOMAIN Append(s, r) = DOMAIN s \cup {Len(s) + 1} /\ Len(s) + 1 \notin DOMAIN s
         /\ Append(s, r)[Len(s) + 1] = r /\ \A a \in DOMAIN s : Append(s, r)[a] = s[a] /\ a \in Nat /\ a < Len(s) + 1
BY DEF Starts

\* The new start, as a record of its own.
LEMMA StartOf ==
  ASSUME NEW D, NEW j \in D, NEW at \in Nat, NEW noted \in BOOLEAN, NEW forced \in BOOLEAN, NEW r,
         r = [job |-> j, at |-> at, noted |-> noted, forced |-> forced]
  PROVE  r \in JobStart(D) /\ r.job = j /\ r.at = at /\ r.noted = noted /\ r.forced = forced
BY DEF JobStart

\* What a step that starts a job does to the starts and to the table.
Grown(p, q, j, force, noted) ==
  /\ DOMAIN q.starts = DOMAIN p.starts \cup {Len(p.starts) + 1} /\ Len(p.starts) + 1 \notin DOMAIN p.starts
  /\ \A a \in DOMAIN p.starts : q.starts[a] = p.starts[a] /\ a < Len(p.starts) + 1
  /\ q.starts[Len(p.starts) + 1].job = j /\ q.starts[Len(p.starts) + 1].at = p.clock
  /\ q.starts[Len(p.starts) + 1].noted = noted /\ q.starts[Len(p.starts) + 1].forced = force
  /\ Len(p.starts) \in Nat /\ DOMAIN p.starts \subseteq Nat
Entered(jobs, p, q, j) ==
  /\ DOMAIN q.store = DOMAIN p.store \cup {j} /\ q.store[j].last = p.clock /\ q.store[j].next = p.clock + jobs[j].every
  /\ \A k \in DOMAIN p.store : k # j => q.store[k] = p.store[k]
Started(jobs, run, force, p, j, q) ==
  /\ ~ p.stopped /\ jobs[j].enabled /\ (force \/ IsDue(jobs, p.store, j, p.clock))
  /\ \/ run[j].ends = "interrupted" /\ q.stopped /\ q.store = p.store /\ q.clock = p.clock /\ Grown(p, q, j, force, FALSE)
     \/ run[j].ends # "interrupted" /\ ~ q.stopped /\ Entered(jobs, p, q, j)
        /\ q.clock = p.clock + run[j].lasts /\ Grown(p, q, j, force, TRUE)

LEMMA BeginsGrows ==
  ASSUME NEW D, NEW p \in JobStates(D), NEW j \in D, NEW force \in BOOLEAN, NEW noted \in BOOLEAN, NEW q, Begins(p, j, force, noted, q)
  PROVE  Grown(p, q, j, force, noted)
<1> DEFINE r == [job |-> j, at |-> p.clock, noted |-> noted, forced |-> force]
           s == p.starts
<1>1. s \in Starts(D) /\ p.clock \in Nat
  BY JobFields
<1>2. r \in JobStart(D) /\ r.job = j /\ r.at = p.clock /\ r.noted = noted /\ r.forced = force
  BY <1>1, StartOf
<1>3. q.starts = Append(s, r)
  BY DEF Begins
<1> HIDE DEF r, s
<1>4. /\ Len(s) \in Nat
      /\ DOMAIN Append(s, r) = DOMAIN s \cup {Len(s) + 1} /\ Len(s) + 1 \notin DOMAIN s
      /\ Append(s, r)[Len(s) + 1] = r /\ \A a \in DOMAIN s : Append(s, r)[a] = s[a] /\ a \in Nat /\ a < Len(s) + 1
  BY <1>1, <1>2, OneStart
<1>5. DOMAIN s \subseteq Nat
  BY <1>4
<1> QED BY <1>2, <1>3, <1>4, <1>5 DEF Grown, s

LEMMA NoteEnters ==
  ASSUME NEW jobs \in Seq(Job), NEW run \in JobRuns(DOMAIN jobs), NEW p \in JobStates(DOMAIN jobs), NEW j \in DOMAIN jobs
  PROVE  \A q : q.store = Note(p.store, j, p.clock, jobs[j].every, run[j].ends) => Entered(jobs, p, q, j)
<1> DEFINE status == run[j].ends
           every == jobs[j].every
           at == p.clock
           store == p.store
           D == DOMAIN jobs
           s == Note(store, j, at, every, status)
<1>1. every \in Nat /\ status \in Endings
  <2>1. jobs[j] \in Job /\ run[j] \in [lasts : Nat, ends : Endings]
    BY DEF JobRuns
  <2> QED BY <2>1 DEF Job
<1>2. at \in Nat /\ store \in Stores(D) /\ j \in D
  BY JobFields
<1> HIDE DEF status, every, at, store, D
<1>3. Replaced(s, store, j, at, every)
  BY <1>1, <1>2, Noted
<1> HIDE DEF s
<1>4. \A q : q.store = s => Entered(jobs, p, q, j)
  BY <1>3 DEF Entered, Replaced, at, every, store
<1> QED BY <1>4 DEF s, status, every, at, store

LEMMA JobStarts ==
  ASSUME NEW jobs \in Seq(Job), NEW run \in JobRuns(DOMAIN jobs), NEW force \in BOOLEAN,
         NEW p \in JobStates(DOMAIN jobs), NEW j \in DOMAIN jobs, NEW q, q = RunJob(jobs, run, force, p, j)
  PROVE  /\ q \in JobStates(DOMAIN jobs) /\ q.passes = p.passes
         /\ Passed(jobs, force, p, j, q) \/ Started(jobs, run, force, p, j, q)
         /\ run[j].lasts \in Nat /\ jobs[j].every \in Nat /\ p.clock \in Nat /\ q.clock \in Nat /\ q.clock >= p.clock
<1>1. q \in JobStates(DOMAIN jobs) /\ q.passes = p.passes /\ (Passed(jobs, force, p, j, q) \/ Began(jobs, run, force, p, j, q))
  BY JobStep
<1>2. jobs[j].every \in Nat /\ run[j].lasts \in Nat /\ run[j].ends \in Endings
  <2>1. jobs[j] \in Job /\ run[j] \in [lasts : Nat, ends : Endings]
    BY DEF JobRuns
  <2> QED BY <2>1 DEF Job
<1>3. p.clock \in Nat /\ q.clock \in Nat /\ p.store \in Stores(DOMAIN jobs)
  BY <1>1, JobFields
<1>4. q.store = Note(p.store, j, p.clock, jobs[j].every, run[j].ends) => Entered(jobs, p, q, j)
  BY NoteEnters
<1>5. \A n \in BOOLEAN : Begins(p, j, force, n, q) => Grown(p, q, j, force, n)
  BY BeginsGrows
<1>6. Began(jobs, run, force, p, j, q) => Started(jobs, run, force, p, j, q)
  BY <1>4, <1>5 DEF Began, Started
<1>7. q.clock >= p.clock
  <2>1. CASE Passed(jobs, force, p, j, q)
    BY <1>3, <2>1 DEF Passed
  <2>2. CASE Began(jobs, run, force, p, j, q)
    <3>1. q.clock = p.clock \/ q.clock = p.clock + run[j].lasts
      BY <2>2 DEF Began
    <3> QED BY <1>2, <1>3, <3>1
  <2> QED BY <1>1, <2>1, <2>2
<1> QED BY <1>1, <1>2, <1>3, <1>6, <1>7

LEMMA OrderKept ==
  ASSUME NEW jobs \in Seq(Job), NEW run \in JobRuns(DOMAIN jobs), NEW force \in BOOLEAN,
         NEW p \in JobStates(DOMAIN jobs), NEW j \in DOMAIN jobs, NEW q, q = RunJob(jobs, run, force, p, j), Ordered(jobs, p)
  PROVE  Ordered(jobs, q)
<1> DEFINE D == DOMAIN jobs
           n == Len(p.starts) + 1
<1>1. q \in JobStates(D) /\ (Passed(jobs, force, p, j, q) \/ Started(jobs, run, force, p, j, q))
      /\ run[j].lasts \in Nat /\ jobs[j].every \in Nat /\ p.clock \in Nat /\ q.clock \in Nat /\ q.clock >= p.clock
  BY JobStarts
<1>2. CASE Passed(jobs, force, p, j, q)
  BY <1>2 DEF Passed
<1>3. CASE Started(jobs, run, force, p, j, q)
  <2>1. PICK noted \in BOOLEAN : Grown(p, q, j, force, noted) /\ (IF noted THEN Entered(jobs, p, q, j) ELSE q.store = p.store)
    BY <1>3 DEF Started
  <2>2. jobs[j].enabled /\ (force \/ IsDue(jobs, p.store, j, p.clock))
    BY <1>3 DEF Started
  <2>3. \A a \in DOMAIN p.starts : /\ p.starts[a].at \in Nat /\ p.starts[a].job \in D /\ p.starts[a].noted \in BOOLEAN
                                   /\ q.starts[a] = p.starts[a] /\ a \in Nat /\ a < n
    <3>1. p.starts \in Seq(JobStart(D))
      BY JobFields DEF Starts
    <3>2. \A a \in DOMAIN p.starts : p.starts[a] \in JobStart(D)
      BY <3>1
    <3> QED BY <2>1, <3>2 DEF Grown, JobStart
  <2>4. DOMAIN q.starts = DOMAIN p.starts \cup {n} /\ n \in Nat /\ n \notin DOMAIN p.starts /\ q.starts[n].job = j /\ q.starts[n].at = p.clock
        /\ q.starts[n].noted = noted /\ q.starts[n].forced = force
    BY <2>1 DEF Grown
  <2>5. \A k \in DOMAIN p.store : p.store[k].last \in Nat /\ k \in D /\ p.store[k].next \in Nat
    BY JobFields DEF Stores, Entry
  <2> HIDE DEF D, n
  <2>6. StartsDated(jobs, q)
    <3>1. ASSUME NEW a \in DOMAIN q.starts PROVE q.starts[a].at <= q.clock /\ jobs[q.starts[a].job].enabled
      <4>1. CASE a \in DOMAIN p.starts
        BY <1>1, <2>3, <4>1 DEF Ordered, StartsDated
      <4>2. CASE a = n
        BY <1>1, <2>2, <2>4, <4>2
      <4> QED BY <2>4, <4>1, <4>2
    <3>2. ASSUME NEW a \in DOMAIN q.starts, q.starts[a].noted
          PROVE  q.starts[a].job \in DOMAIN q.store /\ q.starts[a].at <= q.store[q.starts[a].job].last
      <4>1. CASE a \in DOMAIN p.starts
        <5> DEFINE k == p.starts[a].job
        <5>1. k \in DOMAIN p.store /\ p.starts[a].at <= p.store[k].last /\ p.starts[a].at <= p.clock /\ q.starts[a] = p.starts[a]
          BY <2>3, <3>2, <4>1 DEF Ordered, StartsDated
        <5> HIDE DEF k
        <5>2. k \in DOMAIN q.store /\ p.starts[a].at <= q.store[k].last
          <6>1. CASE noted
            BY <2>1, <5>1, <6>1 DEF Entered
          <6>2. CASE ~ noted
            BY <2>1, <5>1, <6>2
          <6> QED BY <6>1, <6>2
        <5> QED BY <5>1, <5>2 DEF k
      <4>2. CASE a = n
        <5>1. noted /\ Entered(jobs, p, q, j)
          BY <2>1, <2>4, <3>2, <4>2
        <5> QED BY <1>1, <2>4, <4>2, <5>1 DEF Entered
      <4> QED BY <2>4, <4>1, <4>2
    <3> QED BY <3>1, <3>2 DEF StartsDated
  <2>7. RunsApart(jobs, q.starts)
    <3> SUFFICES ASSUME NEW a \in DOMAIN q.starts, NEW b \in DOMAIN q.starts, a < b, q.starts[a].job = q.starts[b].job,
                        q.starts[a].noted, ~ q.starts[b].forced
                 PROVE  q.starts[b].at - q.starts[a].at >= jobs[q.starts[a].job].every
      BY DEF RunsApart
    <3>1. CASE b \in DOMAIN p.starts
      <4>1. a \in DOMAIN p.starts
        BY <2>3, <2>4, <3>1
      <4> QED BY <2>3, <3>1, <4>1 DEF Ordered, RunsApart
    <3>2. CASE b = n
      <4>1. a \in DOMAIN p.starts
        BY <2>3, <2>4, <3>2
      <4>2. ~ force /\ q.starts[a] = p.starts[a] /\ p.starts[a].job = j /\ p.starts[a].noted
        BY <2>3, <2>4, <3>2, <4>1
      <4>3. j \in DOMAIN p.store /\ p.starts[a].at <= p.store[j].last
        BY <4>1, <4>2 DEF Ordered, StartsDated
      <4>4. p.clock >= p.store[j].last + jobs[j].every
        BY <2>2, <4>2, <4>3 DEF IsDue, Known
      <4>5. p.starts[a].at \in Nat /\ p.store[j].last \in Nat
        BY <2>3, <2>5, <4>1, <4>3
      <4>6. p.clock - p.starts[a].at >= jobs[j].every
        BY <1>1, <4>3, <4>4, <4>5
      <4> QED BY <2>4, <3>2, <4>2, <4>6
    <3> QED BY <2>4, <3>1, <3>2
  <2>8. NextIs(jobs, q)
    <3>1. CASE noted
      <4>1. Entered(jobs, p, q, j)
        BY <2>1, <3>1
      <4> QED BY <4>1 DEF Entered, Ordered, NextIs
    <3>2. CASE ~ noted
      BY <2>1, <3>2 DEF Ordered, NextIs
    <3> QED BY <3>1, <3>2
  <2> QED BY <2>6, <2>7, <2>8 DEF Ordered
<1> QED BY <1>1, <1>2, <1>3

LEMMA BackKept ==
  ASSUME NEW jobs \in Seq(Job), NEW run \in JobRuns(DOMAIN jobs), NEW force \in BOOLEAN,
         NEW p \in JobStates(DOMAIN jobs), NEW j \in DOMAIN jobs, NEW q, q = RunJob(jobs, run, force, p, j), Backed(p)
  PROVE  Backed(q)
<1>1. Passed(jobs, force, p, j, q) \/ Started(jobs, run, force, p, j, q)
  BY JobStarts
<1>2. CASE Passed(jobs, force, p, j, q)
  BY <1>2 DEF Passed
<1>3. CASE Started(jobs, run, force, p, j, q)
  <2> SUFFICES ASSUME NEW k \in DOMAIN q.store
               PROVE  \E a \in DOMAIN q.starts : q.starts[a].job = k /\ q.starts[a].noted /\ q.starts[a].at = q.store[k].last
    BY DEF Backed
  <2>1. CASE k \in DOMAIN p.store /\ q.store[k] = p.store[k]
    <3>1. PICK a \in DOMAIN p.starts : p.starts[a].job = k /\ p.starts[a].noted /\ p.starts[a].at = p.store[k].last
      BY <2>1 DEF Backed
    <3>2. a \in DOMAIN q.starts /\ q.starts[a] = p.starts[a]
      BY <1>3, <3>1 DEF Started, Grown
    <3> QED BY <2>1, <3>1, <3>2
  <2>2. CASE ~ (k \in DOMAIN p.store /\ q.store[k] = p.store[k])
    <3>1. Entered(jobs, p, q, j) /\ Grown(p, q, j, force, TRUE)
      BY <1>3, <2>2 DEF Started
    <3>2. k = j /\ q.store[j].last = p.clock
      BY <2>2, <3>1 DEF Entered
    <3>3. Len(p.starts) + 1 \in DOMAIN q.starts /\ q.starts[Len(p.starts) + 1].job = j /\ q.starts[Len(p.starts) + 1].noted
          /\ q.starts[Len(p.starts) + 1].at = p.clock
      BY <3>1 DEF Grown
    <3> QED BY <3>2, <3>3
  <2> QED BY <2>1, <2>2
<1> QED BY <1>1, <1>2, <1>3

\* A pass, begun in p, that has looked at the jobs s so far.
RanIn(p, v, k) ==
  /\ k \in DOMAIN v.store /\ v.store[k].last >= p.clock /\ v.store[k].last <= v.clock
  /\ \E a \in DOMAIN v.starts : v.starts[a].job = k /\ v.starts[a].at = v.store[k].last
Extends(p, v) ==
  /\ DOMAIN p.starts \subseteq DOMAIN v.starts /\ \A a \in DOMAIN p.starts : v.starts[a] = p.starts[a]
  /\ \A a \in DOMAIN v.starts \ DOMAIN p.starts : v.starts[a].at >= p.clock
Untouched(p, v, k) == (k \in DOMAIN v.store <=> k \in DOMAIN p.store) /\ (k \in DOMAIN p.store => v.store[k] = p.store[k])
SeenTo(jobs, p, v, k) == v.stopped \/ ~ jobs[k].enabled \/ RanIn(p, v, k) \/ ~ IsDue(jobs, p.store, k, p.clock)
Quick(run) == \A k \in DOMAIN run : run[k].lasts = 0 /\ run[k].ends # "interrupted"
InPass(jobs, run, p, s, v) ==
  /\ v.clock >= p.clock /\ v.passes = p.passes /\ Extends(p, v)
  /\ \A k \in DOMAIN jobs \ s : Untouched(p, v, k)
  /\ \A k \in s : SeenTo(jobs, p, v, k)
  /\ Quick(run) => v.clock = p.clock /\ v.stopped = p.stopped

\* The next job of the pass.
LEMMA PassGoesOn ==
  ASSUME NEW jobs \in Seq(Job), NEW run \in JobRuns(DOMAIN jobs), NEW force \in BOOLEAN, NEW p \in JobStates(DOMAIN jobs),
         NEW s \in SUBSET DOMAIN jobs, NEW j \in DOMAIN jobs \ s, NEW v \in JobStates(DOMAIN jobs), InPass(jobs, run, p, s, v),
         NEW q, q = RunJob(jobs, run, force, v, j)
  PROVE  InPass(jobs, run, p, s \cup {j}, q)
<1> DEFINE D == DOMAIN jobs
           n == Len(v.starts) + 1
<1>1. q \in JobStates(D) /\ q.passes = v.passes /\ (Passed(jobs, force, v, j, q) \/ Started(jobs, run, force, v, j, q))
      /\ run[j].lasts \in Nat /\ jobs[j].every \in Nat /\ v.clock \in Nat /\ q.clock \in Nat /\ q.clock >= v.clock
  BY JobStarts
<1>2. p.clock \in Nat /\ v.clock >= p.clock /\ Extends(p, v) /\ Untouched(p, v, j) /\ \A k \in s : SeenTo(jobs, p, v, k)
  BY JobFields DEF InPass
<1>3. \A k \in DOMAIN p.store : p.store[k].last \in Nat
  BY JobFields DEF Stores, Entry
<1>4. \A k \in DOMAIN v.store : v.store[k].last \in Nat
  BY JobFields DEF Stores, Entry
<1>5. CASE Passed(jobs, force, v, j, q)
  <2>1. q = v /\ (v.stopped \/ ~ jobs[j].enabled \/ ~ IsDue(jobs, v.store, j, v.clock))
    BY <1>5 DEF Passed
  <2>2. ~ IsDue(jobs, v.store, j, v.clock) => ~ IsDue(jobs, p.store, j, p.clock)
    <3> SUFFICES ASSUME ~ IsDue(jobs, v.store, j, v.clock) PROVE ~ IsDue(jobs, p.store, j, p.clock)
      OBVIOUS
    <3>1. j \in DOMAIN v.store /\ ~ (v.clock >= v.store[j].last + jobs[j].every)
      BY DEF IsDue, Known
    <3>2. j \in DOMAIN p.store /\ v.store[j].last = p.store[j].last /\ p.store[j].last \in Nat
      BY <1>2, <1>3, <3>1 DEF Untouched
    <3>3. ~ (p.clock >= p.store[j].last + jobs[j].every)
      BY <1>1, <1>2, <3>1, <3>2
    <3> QED BY <3>2, <3>3 DEF IsDue, Known
  <2>3. SeenTo(jobs, p, v, j)
    BY <2>1, <2>2 DEF SeenTo
  <2> QED BY <2>1, <2>3 DEF InPass
<1>6. CASE Started(jobs, run, force, v, j, q)
  <2>1. PICK noted \in BOOLEAN : Grown(v, q, j, force, noted)
    BY <1>6 DEF Started
  <2>2. Extends(p, q)
    <3>1. DOMAIN q.starts = DOMAIN v.starts \cup {n} /\ n \notin DOMAIN v.starts /\ q.starts[n].at = v.clock
          /\ \A a \in DOMAIN v.starts : q.starts[a] = v.starts[a]
      BY <2>1 DEF Grown
    <3> HIDE DEF n
    <3>2. \A a \in DOMAIN q.starts \ DOMAIN p.starts : q.starts[a].at >= p.clock
      BY <1>2, <3>1 DEF Extends
    <3> QED BY <1>2, <3>1, <3>2 DEF Extends
  <2>3. \A k \in D \ (s \cup {j}) : Untouched(p, q, k)
    <3> SUFFICES ASSUME NEW k \in D \ (s \cup {j}) PROVE Untouched(p, q, k)
      OBVIOUS
    <3>1. Untouched(p, v, k) /\ k # j
      BY DEF InPass
    <3>2. q.store = v.store \/ Entered(jobs, v, q, j)
      BY <1>6 DEF Started
    <3> QED BY <3>1, <3>2 DEF Untouched, Entered
  <2>4. \A k \in s : SeenTo(jobs, p, q, k)
    <3> SUFFICES ASSUME NEW k \in s PROVE SeenTo(jobs, p, q, k)
      OBVIOUS
    <3>1. ~ v.stopped /\ SeenTo(jobs, p, v, k) /\ k # j
      BY <1>2, <1>6 DEF Started
    <3>2. RanIn(p, v, k) => RanIn(p, q, k)
      <4> SUFFICES ASSUME RanIn(p, v, k) PROVE RanIn(p, q, k)
        OBVIOUS
      <4>1. k \in DOMAIN v.store /\ v.store[k].last >= p.clock /\ v.store[k].last <= v.clock /\ v.store[k].last \in Nat
        BY <1>4 DEF RanIn
      <4>2. PICK a \in DOMAIN v.starts : v.starts[a].job = k /\ v.starts[a].at = v.store[k].last
        BY DEF RanIn
      <4>3. k \in DOMAIN q.store /\ q.store[k] = v.store[k]
        BY <1>6, <3>1, <4>1 DEF Started, Entered
      <4>4. a \in DOMAIN q.starts /\ q.starts[a] = v.starts[a]
        BY <2>1, <4>2 DEF Grown
      <4>5. q.store[k].last <= q.clock
        BY <1>1, <4>1, <4>3
      <4> QED BY <4>1, <4>2, <4>3, <4>4, <4>5 DEF RanIn
    <3> QED BY <3>1, <3>2 DEF SeenTo
  <2>5. SeenTo(jobs, p, q, j)
    <3>1. CASE q.stopped
      BY <3>1 DEF SeenTo
    <3>2. CASE ~ q.stopped
      <4>1. Entered(jobs, v, q, j) /\ Grown(v, q, j, force, TRUE)
        BY <1>6, <3>2 DEF Started
      <4>2. j \in DOMAIN q.store /\ q.store[j].last = v.clock
        BY <4>1 DEF Entered
      <4>3. n \in DOMAIN q.starts /\ q.starts[n].job = j /\ q.starts[n].at = v.clock
        BY <4>1 DEF Grown
      <4>4. RanIn(p, q, j)
        BY <1>1, <1>2, <4>2, <4>3 DEF RanIn
      <4> QED BY <4>4 DEF SeenTo
    <3> QED BY <3>1, <3>2
  <2>6. Quick(run) => q.clock = p.clock /\ q.stopped = p.stopped
    <3> SUFFICES ASSUME Quick(run) PROVE q.clock = p.clock /\ q.stopped = p.stopped
      OBVIOUS
    <3>1. run[j].lasts = 0 /\ run[j].ends # "interrupted" /\ v.clock = p.clock /\ v.stopped = p.stopped
      BY DEF Quick, JobRuns, InPass
    <3>2. q.clock = v.clock + 0 /\ ~ q.stopped /\ ~ v.stopped
      BY <1>6, <3>1 DEF Started
    <3>3. q.stopped \in BOOLEAN /\ v.stopped \in BOOLEAN
      BY <1>1, JobFields
    <3> QED BY <1>1, <3>1, <3>2, <3>3
  <2>7. q.clock >= p.clock /\ q.passes = p.passes
    BY <1>1, <1>2 DEF InPass
  <2> QED BY <2>2, <2>3, <2>4, <2>5, <2>6, <2>7 DEF InPass
<1> QED BY <1>1, <1>5, <1>6

\* The whole pass.
LEMMA PassDone ==
  ASSUME NEW jobs \in Seq(Job), NEW run \in JobRuns(DOMAIN jobs), NEW force \in BOOLEAN, NEW p \in JobStates(DOMAIN jobs)
  PROVE  LET q == RunDue(jobs, run, force, p) IN
         /\ q \in JobStates(DOMAIN jobs) /\ InPass(jobs, run, p, DOMAIN jobs, q)
         /\ Ordered(jobs, p) => Ordered(jobs, q)
         /\ Backed(p) => Backed(q)
<1> DEFINE D == DOMAIN jobs
           ids == [j \in D |-> j]
           last(s) == Max(s)
           Solves(t) == t = [s \in SUBSET D |-> IF s = {} THEN p ELSE RunJob(jobs, run, force, t[s \ {last(s)}], ids[last(s)])]
           pick == [s \in (SUBSET D) \ {{}} |-> Max(s)]
           Out == JobStates(D)
           Good(s, v) == InPass(jobs, run, p, s, v) /\ (Ordered(jobs, p) => Ordered(jobs, v)) /\ (Backed(p) => Backed(v))
           V == [s \in SUBSET D |-> {v \in Out : Good(s, v)}]
           step == [s \in (SUBSET D) \ {{}} |-> [v \in Out |-> RunJob(jobs, run, force, v, last(s))]]
<1>1. IsFiniteSet(D) /\ D \subseteq Int /\ \A i \in D : ids[i] = i
  <2>1. D = 1..Len(jobs) /\ Len(jobs) \in Nat
    OBVIOUS
  <2>2. IsFiniteSet(1..Len(jobs))
    BY <2>1, FS_Interval
  <2> QED BY <2>1, <2>2
<1>2. Picks(D, pick)
  BY <1>1, MaxPicks
<1>3. \A s \in (SUBSET D) \ {{}} :
        pick[s] = last(s) /\ last(s) \in s /\ \A v \in Out : step[s][v] = RunJob(jobs, run, force, v, last(s))
  BY <1>2 DEF Picks
<1>4. \A s \in SUBSET D : s \ {pick[s]} \in SUBSET D /\ \A v : v \in V[s] <=> (v \in Out /\ Good(s, v))
  OBVIOUS
<1>5. ASSUME NEW s \in (SUBSET D) \ {{}}, NEW v \in Out, Good(s \ {last(s)}, v)
      PROVE  RunJob(jobs, run, force, v, last(s)) \in Out /\ Good(s, RunJob(jobs, run, force, v, last(s)))
  <2> DEFINE j == last(s)
             r == s \ {j}
             q == RunJob(jobs, run, force, v, j)
  <2>1. j \in D /\ r \in SUBSET D /\ j \in D \ r /\ r \cup {j} = s /\ Good(r, v)
    BY <1>3, <1>5
  <2> HIDE DEF j, r
  <2>2. q \in Out
    BY <2>1, JobStarts
  <2>3. InPass(jobs, run, p, r \cup {j}, q)
    BY <2>1, PassGoesOn
  <2>4. Ordered(jobs, v) => Ordered(jobs, q)
    BY <2>1, OrderKept
  <2>5. Backed(v) => Backed(q)
    BY <2>1, BackKept
  <2> HIDE DEF q
  <2>6. Good(s, q)
    BY <2>1, <2>3, <2>4, <2>5
  <2> QED BY <2>2, <2>6 DEF q, j
<1>6. p \in Out /\ Good({}, p)
  <2>1. p.clock \in Nat /\ Extends(p, p) /\ \A k : Untouched(p, p, k)
    BY JobFields DEF Extends, Untouched
  <2> QED BY <2>1 DEF InPass
<1> HIDE DEF D, ids, Out, Good, V, pick, step, last
<1>7. Stays(D, pick, p, step, V)
  <2>1. ASSUME NEW s \in (SUBSET D) \ {{}}, NEW v \in V[s \ {pick[s]}] PROVE step[s][v] \in V[s]
    <3>1. v \in Out /\ Good(s \ {last(s)}, v) /\ step[s][v] = RunJob(jobs, run, force, v, last(s))
      BY <1>3, <1>4
    <3> QED BY <1>4, <1>5, <3>1
  <2>2. p \in V[{}]
    BY <1>4, <1>6
  <2> QED BY <2>1, <2>2 DEF Stays
<1>8. ASSUME NEW t PROVE /\ IsFold(D, pick, p, step, t) => FoldsIn(D, pick, p, step, V, t)
                         /\ Solves(t) => FoldsIn(D, pick, p, step, V, t)
  <2>1. ASSUME Solves(t), NEW s \in (SUBSET D) \ {{}}, t[s \ {pick[s]}] \in V[s \ {pick[s]}]
        PROVE  t[s] = step[s][t[s \ {pick[s]}]]
    <3>1. t[s] = RunJob(jobs, run, force, t[s \ {last(s)}], ids[last(s)])
      BY <2>1
    <3>2. ids[last(s)] = last(s)
      BY <1>1, <1>3
    <3> HIDE DEF Solves
    <3> QED BY <1>3, <1>4, <2>1, <3>1, <3>2
  <2>2. Solves(t) => t[{}] = p
    OBVIOUS
  <2>3. Solves(t) => FoldsIn(D, pick, p, step, V, t)
    <3> HIDE DEF Solves
    <3> QED BY <2>1, <2>2 DEF FoldsIn
  <2>4. IsFold(D, pick, p, step, t) => FoldsIn(D, pick, p, step, V, t)
    BY DEF IsFold, FoldsIn
  <2> QED BY <2>3, <2>4
<1>9. \E t : Solves(t)
  <2>1. PICK t : IsFold(D, pick, p, step, t)
    BY <1>1, <1>2, FoldExists
  <2>2. \A s \in SUBSET D : t[s] \in V[s]
    BY <1>1, <1>2, <1>7, <1>8, <2>1, FoldStays
  <2>3. \A s \in (SUBSET D) \ {{}} : ids[last(s)] = last(s)
    BY <1>1, <1>3
  <2>4. \A s \in (SUBSET D) \ {{}} : step[s][t[s \ {pick[s]}]] = RunJob(jobs, run, force, t[s \ {last(s)}], ids[last(s)])
    BY <1>3, <1>4, <2>2, <2>3
  <2>5. Solves(t)
    BY <2>1, <2>4 DEF IsFold
  <2> QED BY <2>5
<1> DEFINE u == CHOOSE t : Solves(t)
<1>10. Solves(u)
  <2> HIDE DEF Solves
  <2> QED BY <1>9
<1>11. RunDue(jobs, run, force, p) = u[D]
  <2>1. DOMAIN ids = D
    BY DEF ids
  <2>2. RunDue(jobs, run, force, p) = (CHOOSE t : t = [s \in SUBSET DOMAIN ids |->
          IF s = {} THEN p ELSE RunJob(jobs, run, force, t[s \ {Max(s)}], ids[Max(s)])])[DOMAIN ids]
    BY DEF RunDue, FoldLeft, MapThenFoldSet, ids, D
  <2> QED BY <2>1, <2>2 DEF last
<1> HIDE DEF u, Solves
<1>12. u[D] \in V[D]
  BY <1>1, <1>2, <1>7, <1>8, <1>10, FoldStays
<1>13. u[D] \in Out /\ Good(D, u[D])
  BY <1>4, <1>12
<1> QED BY <1>11, <1>13 DEF Out, Good, D


\* Between two passes: what has run is in order, is in the table, and every pass
\* so far ran what was due.
Timely(jobs, p, x) == x.from \in Nat /\ x.to \in Nat /\ x.from <= x.to /\ x.to <= p.clock /\ DueJobsRun(jobs, p.starts, x)
AllRan(jobs, p) == \A n \in DOMAIN p.passes : Timely(jobs, p, p.passes[n])
Orderly(jobs, p) == Ordered(jobs, p) /\ Backed(p) /\ AllRan(jobs, p)

\* An earlier pass is not touched by what runs later.
LEMMA EarlierPass ==
  ASSUME NEW jobs \in Seq(Job), NEW p \in JobStates(DOMAIN jobs), NEW q \in JobStates(DOMAIN jobs),
         Extends(p, q), q.clock >= p.clock, NEW x, Timely(jobs, p, x)
  PROVE  Timely(jobs, q, x)
<1>1. p.clock \in Nat /\ q.clock \in Nat /\ x.from \in Nat /\ x.to \in Nat /\ x.from <= x.to /\ x.to <= p.clock
  BY JobFields DEF Timely
<1>2. \A a \in DOMAIN q.starts : q.starts[a].at \in Nat
  <2>1. q.starts \in Seq(JobStart(DOMAIN jobs))
    BY JobFields DEF Starts
  <2>2. \A a \in DOMAIN q.starts : q.starts[a] \in JobStart(DOMAIN jobs)
    BY <2>1
  <2> QED BY <2>2 DEF JobStart
<1>3. DueJobsRun(jobs, q.starts, x)
  <2> SUFFICES ASSUME NEW j \in DOMAIN jobs, jobs[j].enabled, ~ x.stopped,
                      \A a \in {a \in DOMAIN q.starts : q.starts[a].job = j /\ q.starts[a].noted /\ q.starts[a].at < x.from} :
                        x.from - q.starts[a].at >= jobs[j].every
               PROVE  \E a \in DOMAIN q.starts : q.starts[a].job = j /\ q.starts[a].at >= x.from /\ q.starts[a].at <= x.to
    BY DEF DueJobsRun
  <2>1. DOMAIN p.starts \subseteq DOMAIN q.starts /\ \A a \in DOMAIN p.starts : q.starts[a] = p.starts[a]
    BY DEF Extends
  <2>2. \A a \in {a \in DOMAIN p.starts : p.starts[a].job = j /\ p.starts[a].noted /\ p.starts[a].at < x.from} :
          x.from - p.starts[a].at >= jobs[j].every
    BY <2>1
  <2>3. \E a \in DOMAIN p.starts : p.starts[a].job = j /\ p.starts[a].at >= x.from /\ p.starts[a].at <= x.to
    BY <2>2 DEF Timely, DueJobsRun
  <2> QED BY <2>1, <2>3
<1>4. x.to <= q.clock
  BY <1>1
<1> QED BY <1>1, <1>3, <1>4 DEF Timely

\* The pass that has just run.
LEMMA NewPass ==
  ASSUME NEW jobs \in Seq(Job), NEW run \in JobRuns(DOMAIN jobs), NEW p \in JobStates(DOMAIN jobs), NEW q \in JobStates(DOMAIN jobs),
         Ordered(jobs, p), Backed(p), InPass(jobs, run, p, DOMAIN jobs, q)
  PROVE  \A x : x.from = p.clock /\ x.to = q.clock /\ x.stopped = q.stopped => Timely(jobs, q, x)
<1> SUFFICES ASSUME NEW x, x.from = p.clock, x.to = q.clock, x.stopped = q.stopped PROVE Timely(jobs, q, x)
  OBVIOUS
<1>1. p.clock \in Nat /\ q.clock \in Nat /\ q.clock >= p.clock /\ Extends(p, q) /\ \A k \in DOMAIN jobs : SeenTo(jobs, p, q, k)
  BY JobFields DEF InPass
<1>2. \A k \in DOMAIN p.store : p.store[k].last \in Nat
  BY JobFields DEF Stores, Entry
<1>3. \A j \in DOMAIN jobs : jobs[j].every \in Nat
  <2>1. \A j \in DOMAIN jobs : jobs[j] \in Job
    OBVIOUS
  <2> QED BY <2>1 DEF Job
<1>4. DueJobsRun(jobs, q.starts, x)
  <2> SUFFICES ASSUME NEW j \in DOMAIN jobs, jobs[j].enabled, ~ x.stopped,
                      \A a \in {a \in DOMAIN q.starts : q.starts[a].job = j /\ q.starts[a].noted /\ q.starts[a].at < x.from} :
                        x.from - q.starts[a].at >= jobs[j].every
               PROVE  \E a \in DOMAIN q.starts : q.starts[a].job = j /\ q.starts[a].at >= x.from /\ q.starts[a].at <= x.to
    BY DEF DueJobsRun
  <2>1. RanIn(p, q, j) \/ ~ IsDue(jobs, p.store, j, p.clock)
    BY <1>1 DEF SeenTo
  <2>2. CASE RanIn(p, q, j)
    BY <2>2 DEF RanIn
  <2>3. CASE ~ IsDue(jobs, p.store, j, p.clock)
    <3>1. j \in DOMAIN p.store /\ ~ (p.clock >= p.store[j].last + jobs[j].every)
      BY <2>3 DEF IsDue, Known
    <3>2. PICK a \in DOMAIN p.starts : p.starts[a].job = j /\ p.starts[a].noted /\ p.starts[a].at = p.store[j].last
      BY <3>1 DEF Backed
    <3>3. a \in DOMAIN q.starts /\ q.starts[a] = p.starts[a]
      BY <1>1, <3>2 DEF Extends
    <3>4. q.starts[a].at <= p.clock /\ q.starts[a].at \in Nat
      BY <1>2, <3>1, <3>2, <3>3 DEF Ordered, StartsDated
    <3>5. ~ (p.clock - q.starts[a].at >= jobs[j].every)
      BY <1>1, <1>2, <1>3, <3>1, <3>2, <3>3, <3>4
    <3>6. ~ (q.starts[a].at < x.from)
      BY <3>2, <3>3, <3>5
    <3>7. q.starts[a].at = p.clock
      BY <1>1, <3>4, <3>6
    <3> QED BY <1>1, <3>2, <3>3, <3>7
  <2> QED BY <2>1, <2>2, <2>3
<1> QED BY <1>1, <1>4 DEF Timely

\* What Ordered, Backed and the earlier passes say is about the starts, the table and
\* the clock alone.
LEMMA Again ==
  ASSUME NEW jobs \in Seq(Job), NEW p \in JobStates(DOMAIN jobs), NEW q \in JobStates(DOMAIN jobs),
         q.starts = p.starts, q.store = p.store, q.clock >= p.clock
  PROVE  /\ Ordered(jobs, p) => Ordered(jobs, q)
         /\ Backed(p) => Backed(q)
         /\ Extends(p, q)
<1>1. p.clock \in Nat /\ q.clock \in Nat
  BY JobFields
<1>2. \A a \in DOMAIN p.starts : p.starts[a].at \in Nat
  <2>1. p.starts \in Seq(JobStart(DOMAIN jobs))
    BY JobFields DEF Starts
  <2>2. \A a \in DOMAIN p.starts : p.starts[a] \in JobStart(DOMAIN jobs)
    BY <2>1
  <2> QED BY <2>2 DEF JobStart
<1>3. ASSUME Ordered(jobs, p) PROVE Ordered(jobs, q)
  <2>1. StartsDated(jobs, q)
    BY <1>1, <1>2, <1>3 DEF Ordered, StartsDated
  <2>2. RunsApart(jobs, q.starts) /\ NextIs(jobs, q)
    BY <1>3 DEF Ordered, NextIs
  <2> QED BY <2>1, <2>2 DEF Ordered
<1>4. Backed(p) => Backed(q)
  BY DEF Backed
<1>5. Extends(p, q)
  BY DEF Extends
<1> QED BY <1>3, <1>4, <1>5

\* One pass of the daemon.
LEMMA PassKeeps ==
  ASSUME NEW jobs \in Seq(Job), NEW poll \in Nat, NEW p \in JobStates(DOMAIN jobs), Orderly(jobs, p), NEW x \in Pass(DOMAIN jobs)
  PROVE  OnePass(jobs, poll, p, x) \in JobStates(DOMAIN jobs) /\ Orderly(jobs, OnePass(jobs, poll, p, x))
<1> DEFINE D == DOMAIN jobs
           r == [p EXCEPT !.stopped = FALSE]
           q == RunDue(jobs, x.run, x.force, r)
           y == [from |-> p.clock, to |-> q.clock, stopped |-> q.stopped]
           h == [q EXCEPT !.clock = q.clock + poll]
           l == [h EXCEPT !.passes = Append(q.passes, y)]
<1>1. x.run \in JobRuns(D) /\ x.force \in BOOLEAN
  BY DEF Pass
<1>2. r \in JobStates(D) /\ r.clock = p.clock /\ r.store = p.store /\ r.starts = p.starts /\ r.passes = p.passes /\ p.clock \in Nat
  BY DEF JobStates
<1>3. OnePass(jobs, poll, p, x) = l
  BY DEF OnePass
<1> HIDE DEF D, r
<1>4. Ordered(jobs, r) /\ Backed(r)
  BY <1>2, Again DEF Orderly, D
<1>5. q \in JobStates(D) /\ InPass(jobs, x.run, r, D, q) /\ Ordered(jobs, q) /\ Backed(q)
  BY <1>1, <1>2, <1>4, PassDone DEF D
<1> HIDE DEF q
<1>6. q.clock \in Nat /\ q.stopped \in BOOLEAN /\ q.passes \in Passes /\ q.passes = p.passes /\ q.clock >= r.clock /\ Extends(r, q)
  BY <1>2, <1>5, JobFields DEF InPass
<1>7. y \in [from : Nat, to : Nat, stopped : BOOLEAN] /\ y.from = r.clock /\ y.to = q.clock /\ y.stopped = q.stopped
  BY <1>2, <1>6
<1> HIDE DEF y
<1>8. Append(q.passes, y) \in Passes /\ \A n \in DOMAIN Append(q.passes, y) : Append(q.passes, y)[n] = y \/ \E m \in DOMAIN p.passes : Append(q.passes, y)[n] = p.passes[m]
  <2> DEFINE A == [from : Nat, to : Nat, stopped : BOOLEAN]
             w == q.passes
  <2>1. y \in A /\ w \in Seq(A) /\ w = p.passes
    BY <1>6, <1>7 DEF Passes
  <2> HIDE DEF A, w
  <2>2. Append(w, y) \in Seq(A) /\ Append(w, y)[Len(w) + 1] = y
        /\ \A n \in DOMAIN Append(w, y) : n = Len(w) + 1 \/ (n \in DOMAIN w /\ Append(w, y)[n] = w[n])
    BY <2>1
  <2>3. \A n \in DOMAIN Append(w, y) : Append(w, y)[n] = y \/ \E m \in DOMAIN p.passes : Append(w, y)[n] = p.passes[m]
    BY <2>1, <2>2
  <2> QED BY <2>2, <2>3 DEF A, w, Passes
<1>9. h \in JobStates(D) /\ h.starts = q.starts /\ h.store = q.store /\ h.clock = q.clock + poll
  BY <1>5, <1>6 DEF JobStates
<1> HIDE DEF h
<1>10. l \in JobStates(D) /\ l.starts = h.starts /\ l.store = h.store /\ l.clock = h.clock /\ l.passes = Append(q.passes, y)
  BY <1>8, <1>9 DEF JobStates
<1> HIDE DEF l
<1>11. l.starts = q.starts /\ l.store = q.store /\ l.clock >= q.clock
  BY <1>6, <1>9, <1>10
<1>12. Ordered(jobs, l) /\ Backed(l) /\ Extends(q, l)
  BY <1>5, <1>10, <1>11, Again DEF D
<1>13. Timely(jobs, q, y)
  BY <1>1, <1>2, <1>4, <1>5, <1>7, NewPass DEF D
<1>14. Timely(jobs, l, y)
  BY <1>5, <1>10, <1>11, <1>12, <1>13, EarlierPass DEF D
<1>15. \A m \in DOMAIN p.passes : Timely(jobs, l, p.passes[m])
  <2> SUFFICES ASSUME NEW m \in DOMAIN p.passes PROVE Timely(jobs, l, p.passes[m])
    OBVIOUS
  <2>1. Timely(jobs, r, p.passes[m])
    BY <1>2 DEF Orderly, AllRan, Timely
  <2>2. Timely(jobs, q, p.passes[m])
    BY <1>2, <1>5, <1>6, <2>1, EarlierPass DEF D
  <2> QED BY <1>5, <1>10, <1>11, <1>12, <2>2, EarlierPass DEF D
<1>16. AllRan(jobs, l)
  BY <1>8, <1>10, <1>14, <1>15 DEF AllRan
<1> QED BY <1>3, <1>10, <1>12, <1>16 DEF Orderly, D

\* All of them.
LEMMA DaemonKeeps ==
  ASSUME NEW jobs \in Seq(Job), NEW passes \in Seq(Pass(DOMAIN jobs)), NEW poll \in Nat
  PROVE  LET end == Daemon(jobs, passes, poll) IN end \in JobStates(DOMAIN jobs) /\ Orderly(jobs, end)
<1> DEFINE D == DOMAIN passes
           base == Idle(<<>>, 0)
           last(s) == Max(s)
           Solves(t) == t = [s \in SUBSET D |-> IF s = {} THEN base ELSE OnePass(jobs, poll, t[s \ {last(s)}], passes[last(s)])]
           pick == [s \in (SUBSET D) \ {{}} |-> Max(s)]
           Out == {v \in JobStates(DOMAIN jobs) : Orderly(jobs, v)}
           V == [s \in SUBSET D |-> Out]
           step == [s \in (SUBSET D) \ {{}} |-> [v \in Out |-> OnePass(jobs, poll, v, passes[last(s)])]]
<1>1. IsFiniteSet(D) /\ D \subseteq Int /\ \A i \in D : passes[i] \in Pass(DOMAIN jobs)
  <2>1. D = 1..Len(passes) /\ Len(passes) \in Nat /\ \A i \in D : passes[i] \in Pass(DOMAIN jobs)
    OBVIOUS
  <2>2. IsFiniteSet(1..Len(passes))
    BY <2>1, FS_Interval
  <2> QED BY <2>1, <2>2
<1>2. Picks(D, pick)
  BY <1>1, MaxPicks
<1>3. \A s \in (SUBSET D) \ {{}} :
        pick[s] = last(s) /\ last(s) \in s /\ last(s) \in D /\ \A v \in Out : step[s][v] = OnePass(jobs, poll, v, passes[last(s)])
  BY <1>2 DEF Picks
<1>4. \A s \in SUBSET D : s \ {pick[s]} \in SUBSET D /\ V[s] = Out
  OBVIOUS
<1>5. \A s \in (SUBSET D) \ {{}} : \A v \in Out : OnePass(jobs, poll, v, passes[last(s)]) \in Out
  BY <1>1, <1>3, PassKeeps
<1>6. base \in Out
  <2>1. base = [clock |-> 0, store |-> <<>>, starts |-> <<>>, stopped |-> FALSE, passes |-> <<>>]
    BY DEF Idle
  <2>2. <<>> \in Stores(DOMAIN jobs)
    <3>1. <<>> \in [{} -> Entry]
      OBVIOUS
    <3> QED BY <3>1 DEF Stores
  <2>3. <<>> \in Starts(DOMAIN jobs) /\ <<>> \in Passes
    BY DEF Starts, Passes
  <2>4. base \in JobStates(DOMAIN jobs)
    <3> DEFINE A == Stores(DOMAIN jobs)
               B == Starts(DOMAIN jobs)
               C == Passes
    <3>1. <<>> \in A /\ <<>> \in B /\ <<>> \in C
      BY <2>2, <2>3
    <3> HIDE DEF A, B, C
    <3>2. ASSUME NEW w, w \in A, w \in B, w \in C
          PROVE  [clock |-> 0, store |-> w, starts |-> w, stopped |-> FALSE, passes |-> w]
                   \in [clock : Nat, store : A, starts : B, stopped : BOOLEAN, passes : C]
      BY <3>2
    <3>3. [clock |-> 0, store |-> <<>>, starts |-> <<>>, stopped |-> FALSE, passes |-> <<>>]
            \in [clock : Nat, store : A, starts : B, stopped : BOOLEAN, passes : C]
      BY <3>1, <3>2
    <3> HIDE DEF base
    <3> QED BY <2>1, <3>3 DEF JobStates, A, B, C
  <2>5. DOMAIN base.starts = {} /\ DOMAIN base.store = {} /\ DOMAIN base.passes = {}
    BY <2>1
  <2> HIDE DEF base
  <2>6. Orderly(jobs, base)
    BY <2>5 DEF Orderly, Ordered, StartsDated, RunsApart, NextIs, Backed, AllRan
  <2> QED BY <2>4, <2>6
<1>7. \A v \in Out : v \in JobStates(DOMAIN jobs) /\ Orderly(jobs, v)
  OBVIOUS
<1> HIDE DEF D, base, Out, V, pick, step, last
<1>8. Stays(D, pick, base, step, V)
  BY <1>3, <1>4, <1>5, <1>6 DEF Stays
<1>9. ASSUME NEW t PROVE /\ IsFold(D, pick, base, step, t) => FoldsIn(D, pick, base, step, V, t)
                         /\ Solves(t) => FoldsIn(D, pick, base, step, V, t)
  <2>1. ASSUME Solves(t), NEW s \in (SUBSET D) \ {{}}, t[s \ {pick[s]}] \in V[s \ {pick[s]}]
        PROVE  t[s] = step[s][t[s \ {pick[s]}]]
    <3>1. t[s] = OnePass(jobs, poll, t[s \ {last(s)}], passes[last(s)])
      BY <2>1
    <3> HIDE DEF Solves
    <3> QED BY <1>3, <1>4, <2>1, <3>1
  <2>2. Solves(t) => t[{}] = base
    OBVIOUS
  <2>3. Solves(t) => FoldsIn(D, pick, base, step, V, t)
    <3> HIDE DEF Solves
    <3> QED BY <2>1, <2>2 DEF FoldsIn
  <2>4. IsFold(D, pick, base, step, t) => FoldsIn(D, pick, base, step, V, t)
    BY DEF IsFold, FoldsIn
  <2> QED BY <2>3, <2>4
<1>10. \E t : Solves(t)
  <2>1. PICK t : IsFold(D, pick, base, step, t)
    BY <1>1, <1>2, FoldExists
  <2>2. \A s \in SUBSET D : t[s] \in V[s]
    BY <1>1, <1>2, <1>8, <1>9, <2>1, FoldStays
  <2>3. \A s \in (SUBSET D) \ {{}} : step[s][t[s \ {pick[s]}]] = OnePass(jobs, poll, t[s \ {last(s)}], passes[last(s)])
    BY <1>3, <1>4, <2>2
  <2>4. Solves(t)
    BY <2>1, <2>3 DEF IsFold
  <2> QED BY <2>4
<1> DEFINE u == CHOOSE t : Solves(t)
<1>11. Solves(u)
  <2> HIDE DEF Solves
  <2> QED BY <1>10
<1>12. Daemon(jobs, passes, poll) = u[D]
  BY DEF Daemon, FoldLeft, MapThenFoldSet, D, last, base
<1> HIDE DEF u, Solves
<1>13. u[D] \in Out
  BY <1>1, <1>2, <1>4, <1>8, <1>9, <1>11, FoldStays
<1> QED BY <1>7, <1>12, <1>13

\* What status says, and what a pass would now do.
LEMMA StatusIsTrue ==
  ASSUME NEW jobs \in Seq(Job), NEW end \in JobStates(DOMAIN jobs), Orderly(jobs, end)
  PROVE  StatusTrue(jobs, end)
<1> DEFINE D == DOMAIN jobs
           now == Status(jobs, end.store, end.clock)
           run == [k \in D |-> [lasts |-> 0, ends |-> "ok"]]
           idle == Idle(end.store, end.clock)
           done == RunDue(jobs, run, FALSE, idle)
<1>1. end.clock \in Nat /\ end.store \in Stores(D)
  BY JobFields
<1>2. run \in JobRuns(D) /\ Quick(run)
  <2>1. "ok" \in Endings /\ "ok" # "interrupted"
    BY DEF Endings
  <2>2. run \in JobRuns(D)
    BY <2>1 DEF JobRuns
  <2>3. \A k \in D : run[k].lasts = 0 /\ run[k].ends # "interrupted"
    OBVIOUS
  <2> QED BY <2>2, <2>3 DEF Quick
<1>3. idle \in JobStates(D) /\ idle.clock = end.clock /\ idle.store = end.store /\ idle.stopped = FALSE
  <2>1. idle = [clock |-> end.clock, store |-> end.store, starts |-> <<>>, stopped |-> FALSE, passes |-> <<>>]
    BY DEF Idle
  <2>2. <<>> \in Starts(D) /\ <<>> \in Passes
    BY DEF Starts, Passes
  <2> QED BY <1>1, <2>1, <2>2 DEF JobStates
<1> HIDE DEF run, idle
<1>4. done \in JobStates(D) /\ InPass(jobs, run, idle, D, done)
  BY <1>2, <1>3, PassDone
<1>5. ASSUME NEW j \in D, jobs[j].enabled
      PROVE  /\ now[j].due <=> (\A t \in now[j].next : t <= end.clock)
             /\ now[j].due => done.store[j].last = end.clock
  <2>1. now[j].due = (jobs[j].enabled /\ IsDue(jobs, end.store, j, end.clock))
        /\ now[j].next = {end.store[k].next : k \in Known(end.store, j)}
    BY DEF Status
  <2>2. \A k \in DOMAIN end.store : end.store[k].next = end.store[k].last + jobs[k].every /\ end.store[k].last \in Nat
    BY <1>1 DEF Orderly, Ordered, NextIs, Stores, Entry
  <2>3. jobs[j].every \in Nat /\ jobs[j].enabled \in BOOLEAN
    <3>1. jobs[j] \in Job
      OBVIOUS
    <3> QED BY <3>1 DEF Job
  <2>4. IsDue(jobs, end.store, j, end.clock) <=> \A k \in Known(end.store, j) : end.store[k].next <= end.clock
    BY <1>1, <2>2, <2>3 DEF IsDue, Known
  <2>5. now[j].due <=> (\A t \in now[j].next : t <= end.clock)
    BY <1>5, <2>1, <2>4
  <2>6. ASSUME now[j].due PROVE done.store[j].last = end.clock
    <3>1. IsDue(jobs, idle.store, j, idle.clock)
      BY <1>3, <2>1, <2>6
    <3>2. done.stopped = FALSE /\ done.clock = end.clock /\ SeenTo(jobs, idle, done, j)
      BY <1>2, <1>3, <1>4 DEF InPass
    <3>3. RanIn(idle, done, j)
      BY <1>5, <3>1, <3>2 DEF SeenTo
    <3>4. j \in DOMAIN done.store /\ done.store[j].last >= end.clock /\ done.store[j].last <= end.clock
      BY <1>3, <3>2, <3>3 DEF RanIn
    <3>5. done.store \in Stores(D)
      BY <1>4, JobFields
    <3> DEFINE e == done.store[j].last
    <3>6. e \in Nat
      <4> HIDE DEF done
      <4> QED BY <3>4, <3>5 DEF Stores, Entry
    <3>7. e >= end.clock /\ e <= end.clock
      BY <3>4
    <3> HIDE DEF e
    <3>8. e = end.clock
      BY <1>1, <3>6, <3>7
    <3> QED BY <3>8 DEF e
  <2> QED BY <2>5, <2>6
<1> QED BY <1>5 DEF StatusTrue, run, idle

\* scheduler.py run_due, daemon and status: for all jobs, all passes (how long each run
\* lasts, how it ends, what an operator forces) and every time between passes, two
\* noted runs of a job start its interval apart unless the second was forced, no
\* disabled job runs, a job that is due when a pass begins runs in it unless the pass
\* was interrupted, and status says so.
THEOREM JobsAlwaysOnTime ==
  ASSUME NEW jobs \in Seq(Job), NEW passes \in Seq(Pass(DOMAIN jobs)), NEW poll \in Nat
  PROVE  RunsOnTime(jobs, passes, poll)
<1> DEFINE end == Daemon(jobs, passes, poll)
<1>1. end \in JobStates(DOMAIN jobs) /\ Orderly(jobs, end)
  BY DaemonKeeps
<1> HIDE DEF end
<1>2. StatusTrue(jobs, end)
  BY <1>1, StatusIsTrue
<1>3. RunsApart(jobs, end.starts) /\ \A a \in DOMAIN end.starts : jobs[end.starts[a].job].enabled
  BY <1>1 DEF Orderly, Ordered, StartsDated
<1>4. \A n \in DOMAIN end.passes : DueJobsRun(jobs, end.starts, end.passes[n])
  BY <1>1 DEF Orderly, AllRan, Timely
<1> QED BY <1>2, <1>3, <1>4 DEF RunsOnTime, end

-----------------------------------------------------------------------------
(* The batches of a crawl. *)

\* Cardinalities of the plan are those of FiniteSets.
LEMMA PlanCount == \A S : Sample!Cardinality(S) = Cardinality(S)
BY DEF Sample!Cardinality, Cardinality

\* The batches in some order, and the pairs of places of which the first runs sooner.
Grouped(items) == {Sample!BatchOf(items, Sample!Key(items, i)) : i \in items}
Sooner(b, c) ==
  \/ Sample!Starred(b) /\ ~ Sample!Starred(c)
  \/ (Sample!Starred(b) <=> Sample!Starred(c)) /\ Sample!Cardinality(Sample!Prompts(b)) > Sample!Cardinality(Sample!Prompts(c))
SoonerAt(s) == {p \in (DOMAIN s) \X (DOMAIN s) : Sooner(s[p[1]], s[p[2]])}
Listing(items) == Sample!SetToSeq(Grouped(items))

\* An item is in its own batch and in no other.
LEMMA GroupedOnce ==
  ASSUME NEW items, NEW i \in items, NEW b \in Grouped(items)
  PROVE  i \in b <=> b = Sample!BatchOf(items, Sample!Key(items, i))
<1>1. PICK j \in items : b = Sample!BatchOf(items, Sample!Key(items, j))
  BY DEF Grouped
<1> QED BY <1>1 DEF Sample!BatchOf

LEMMA GroupedFinite ==
  ASSUME NEW items, IsFiniteSet(items)
  PROVE  IsFiniteSet(Grouped(items)) /\ \A b \in Grouped(items) : b \in SUBSET items /\ Cardinality(Sample!Prompts(b)) \in Nat
<1> DEFINE batch == [i \in items |-> Sample!BatchOf(items, Sample!Key(items, i))]
<1>1. batch \in Surjection(items, Grouped(items))
  BY DEF Surjection, Grouped
<1>2. IsFiniteSet(Grouped(items))
  BY <1>1, FS_Surjection
<1>3. ASSUME NEW b \in Grouped(items) PROVE b \in SUBSET items /\ Cardinality(Sample!Prompts(b)) \in Nat
  <2>1. b \in SUBSET items
    BY DEF Grouped, Sample!BatchOf
  <2>2. IsFiniteSet(b)
    BY <2>1, FS_Subset
  <2> DEFINE prompt == [i \in b |-> i.pair.prompt]
  <2>3. prompt \in Surjection(b, Sample!Prompts(b))
    BY DEF Surjection, Sample!Prompts
  <2>4. IsFiniteSet(Sample!Prompts(b))
    BY <2>2, <2>3, FS_Surjection
  <2> QED BY <2>1, <2>4, FS_CardinalityType
<1> QED BY <1>2, <1>3

\* The batches are a sort of the list of groups.
LEMMA BatchesSorted ==
  ASSUME NEW items, IsFiniteSet(items)
  PROVE  LET s == Listing(items) IN
         /\ DOMAIN s = 1..Cardinality(Grouped(items)) /\ Cardinality(Grouped(items)) \in Nat
         /\ \A n \in DOMAIN s : s[n] \in Grouped(items)
         /\ \A m, n \in DOMAIN s : s[m] = s[n] => m = n
         /\ \A b \in Grouped(items) : \E n \in DOMAIN s : s[n] = b
         /\ \E at : IsSort(s, SoonerAt(s), at, Sample!Batches(items))
<1> DEFINE G == Grouped(items)
           N == Cardinality(G)
           s == Listing(items)
           D == 1..N
           at == [n \in D |-> CHOOSE i \in D : Cardinality({j \in D : <<j, i>> \in Stably(D, SoonerAt(s))}) = n - 1]
<1>1. IsFiniteSet(G) /\ N \in Nat
  BY GroupedFinite, FS_CardinalityType
<1>2. s = CHOOSE g \in [1..Cardinality(G) -> G] : IsInjective(g)
  BY PlanCount, Zenon DEF Listing, Sample!SetToSeq, Sample!IsInjective, IsInjective
<1>3. /\ s \in [D -> G] /\ \A m, n \in D : s[m] = s[n] => m = n
      /\ \A b \in G : \E n \in D : s[n] = b
  <2>1. \E g \in [1..Cardinality(G) -> G] : IsInjective(g)
    BY <1>1, SomeList
  <2>2. s \in [1..Cardinality(G) -> G] /\ IsInjective(s)
    BY <1>2, <2>1, Zenon
  <2> HIDE DEF G, s
  <2>3. \A b \in G : \E n \in D : s[n] = b
    BY <1>1, <2>2, SomeList
  <2> QED BY <2>2, <2>3 DEF IsInjective
<1> HIDE DEF s, G
<1>4. DOMAIN s = D
  BY <1>3
<1>5. \A i, j \in D : <<i, j>> \in SoonerAt(s) <=> Sooner(s[i], s[j])
  BY <1>4 DEF SoonerAt
<1>6. Weakly(D, SoonerAt(s))
  <2>0. \A b \in G : Sample!Cardinality(Sample!Prompts(b)) \in Nat
    BY GroupedFinite, PlanCount DEF G
  <2>1. \A b, c \in G : Sooner(b, c) => ~ Sooner(c, b)
    BY <2>0 DEF Sooner
  <2>2. \A b, c, d \in G : Sooner(b, d) => Sooner(b, c) \/ Sooner(c, d)
    BY <2>0 DEF Sooner
  <2> QED BY <1>3, <1>5, <2>1, <2>2 DEF Weakly
<1>7. Sample!Batches(items) = [n \in D |-> s[at[n]]]
  <2> DEFINE ranks(E) == [n \in 1..Sample!Cardinality(E) |->
               CHOOSE x \in E : Sample!Cardinality({y \in E : Sooner(s[y], s[x]) \/ (~ Sooner(s[x], s[y]) /\ y < x)}) = n - 1]
             rank == ranks(DOMAIN s)
  <2>1. Sample!Batches(items) = [n \in DOMAIN s |-> s[rank[n]]]
    BY Zenon DEF Sample!Batches, s, Listing, Sooner, Grouped, Sample!Sorted, Sample!InOrder
  <2>3. Sample!Cardinality(D) = N
    BY <1>1, FS_Interval, PlanCount
  <2>4. \A i \in D : {j \in D : Sooner(s[j], s[i]) \/ (~ Sooner(s[i], s[j]) /\ j < i)}
                     = {j \in D : <<j, i>> \in Stably(D, SoonerAt(s))}
    BY <1>5 DEF Stably
  <2>5. \A i \in D : Sample!Cardinality({j \in D : Sooner(s[j], s[i]) \/ (~ Sooner(s[i], s[j]) /\ j < i)})
                     = Cardinality({j \in D : <<j, i>> \in Stably(D, SoonerAt(s))})
    BY <2>4, PlanCount, Zenon
  <2>6. \A k : (CHOOSE i \in D : Sample!Cardinality({j \in D : Sooner(s[j], s[i]) \/ (~ Sooner(s[i], s[j]) /\ j < i)}) = k - 1)
               = (CHOOSE i \in D : Cardinality({j \in D : <<j, i>> \in Stably(D, SoonerAt(s))}) = k - 1)
    BY <2>5, Zenon
  <2>7. ranks(D) = at
    <3> DEFINE first(E, n) == CHOOSE x \in E : Sample!Cardinality({y \in E : Sooner(s[y], s[x]) \/ (~ Sooner(s[x], s[y]) /\ y < x)}) = n - 1
               last(n) == CHOOSE i \in D : Cardinality({j \in D : <<j, i>> \in Stably(D, SoonerAt(s))}) = n - 1
    <3>1. \A n : first(D, n) = last(n)
      BY <2>6, Zenon
    <3>2. ranks(D) = [n \in 1..Sample!Cardinality(D) |-> first(D, n)] /\ at = [n \in 1..N |-> last(n)]
      OBVIOUS
    <3> HIDE DEF first, last, ranks, at
    <3> QED BY <2>3, <3>1, <3>2
  <2>8. rank = at
    <3> HIDE DEF ranks, at
    <3> QED BY <1>4, <2>7
  <2> HIDE DEF rank, at
  <2> QED BY <1>4, <2>1, <2>8
<1>8. IsSort(s, SoonerAt(s), at, Sample!Batches(items))
  <2>1. Ranked(N, SoonerAt(s), at)
    BY DEF Ranked
  <2> HIDE DEF at
  <2> QED BY <1>1, <1>4, <1>6, <1>7, <2>1, Sorts
<1>9. DOMAIN s = 1..N /\ N \in Nat /\ \A n \in DOMAIN s : s[n] \in G
  BY <1>1, <1>3
<1> QED BY <1>3, <1>4, <1>8, <1>9 DEF s, G

\* planner.py: for every set of due items, each is in one batch, with its own
\* samples and its prompt's platforms, and the starred batches run first.
THEOREM BatchesAlwaysPartition ==
  ASSUME NEW items, IsFiniteSet(items)
  PROVE  Sample!BatchesPartition(items)
<1> DEFINE s == Listing(items)
           out == Sample!Batches(items)
           D == DOMAIN s
<1>1. PICK at : IsSort(s, SoonerAt(s), at, out)
  BY BatchesSorted
<1>2. /\ \A n \in D : s[n] \in Grouped(items)
      /\ \A m, n \in D : s[m] = s[n] => m = n
      /\ \A b \in Grouped(items) : \E n \in D : s[n] = b
  BY BatchesSorted
<1> HIDE DEF s, out
<1>3. /\ at \in [D -> D] /\ \A i \in D : \E n \in D : at[n] = i
      /\ \A m, n \in D : at[m] = at[n] => m = n
      /\ \A m, n \in D : m < n => <<at[n], at[m]>> \notin SoonerAt(s)
      /\ out = [n \in D |-> s[at[n]]]
  BY <1>1 DEF IsSort
<1>4. /\ DOMAIN out = D /\ \A n \in D : out[n] \in Grouped(items)
      /\ \A m, n \in D : out[m] = out[n] => m = n
      /\ \A b \in Grouped(items) : \E n \in D : out[n] = b
  BY <1>2, <1>3
<1>5. ASSUME NEW i \in items PROVE Cardinality({n \in D : i \in out[n]}) = 1
  <2> DEFINE b == Sample!BatchOf(items, Sample!Key(items, i))
  <2>1. b \in Grouped(items)
    BY DEF Grouped
  <2>2. PICK n \in D : out[n] = b
    BY <1>4, <2>1
  <2>3. {m \in D : i \in out[m]} = {n}
    BY <1>4, <2>2, GroupedOnce
  <2> QED BY <2>3, FS_Singleton
<1>6. ASSUME NEW b \in Grouped(items), NEW i \in b
      PROVE  /\ i \in items /\ \A j \in b : i.samples = j.samples
             /\ {j.pair.platform : j \in {x \in b : x.pair.prompt = i.pair.prompt}} = Sample!Platforms(items, i)
  <2>1. i \in items /\ b = Sample!BatchOf(items, Sample!Key(items, i))
    BY <1>6, GroupedOnce, GroupedFinite
  <2>2. \A j \in b : j \in items /\ i.samples = j.samples
    BY <2>1 DEF Sample!BatchOf, Sample!Key
  <2>3. \A j \in items : j.pair.prompt = i.pair.prompt /\ j.samples = i.samples => j \in b
    <3> SUFFICES ASSUME NEW j \in items, j.pair.prompt = i.pair.prompt, j.samples = i.samples PROVE j \in b
      OBVIOUS
    <3>1. Sample!Platforms(items, j) = Sample!Platforms(items, i)
      BY DEF Sample!Platforms
    <3> QED BY <2>1, <3>1 DEF Sample!BatchOf, Sample!Key
  <2>4. {x \in b : x.pair.prompt = i.pair.prompt} = {x \in items : x.pair.prompt = i.pair.prompt /\ x.samples = i.samples}
    BY <2>2, <2>3
  <2> QED BY <2>1, <2>2, <2>4 DEF Sample!Platforms
<1>7. ASSUME NEW m \in D, NEW n \in D, m < n, Sample!Starred(out[n]) PROVE Sample!Starred(out[m])
  <2>1. at[m] \in D /\ at[n] \in D /\ <<at[n], at[m]>> \notin SoonerAt(s) /\ out[m] = s[at[m]] /\ out[n] = s[at[n]]
    BY <1>3, <1>7
  <2>2. ~ Sooner(out[n], out[m])
    BY <2>1 DEF SoonerAt
  <2> QED BY <1>7, <2>2 DEF Sooner
<1>8. \A m, n \in D : m < n /\ Sample!Starred(out[n]) => Sample!Starred(out[m])
  BY <1>7
<1>9. \A n \in D : \A i, j \in out[n] : i.samples = j.samples
  BY <1>4, <1>6
<1>10. \A n \in D : \A i \in out[n] :
         {j.pair.platform : j \in {x \in out[n] : x.pair.prompt = i.pair.prompt}} = Sample!Platforms(items, i)
  BY <1>4, <1>6
<1>11. \A i \in items : Sample!Cardinality({n \in DOMAIN out : i \in out[n]}) = 1
  BY <1>4, <1>5, PlanCount, Zenon
<1> QED BY <1>4, <1>8, <1>9, <1>10, <1>11 DEF Sample!BatchesPartition, out

=============================================================================
